----------------------------- MODULE MCAdmission -----------------------------
(* Small instances of Admission. *)
EXTENDS Admission

\* "a", "ab" with the passwords "b:" and "a".
MCUsers == {[name |-> <<97>>, password |-> <<98, 58>>], [name |-> <<97, 98>>, password |-> <<97>>]}

\* Texts of up to five characters of "ab:", and all bits set or the top ones.
MCTexts == UNION {[1 .. n -> {97, 98, 58}] : n \in 0 .. 5} \cup {<<255, 255, 255>>, <<128, 97, 58, 32>>}

\* What clients encode, and sources with padding in odd places, other
\* characters and odd lengths.
MCSources == {Encode(t) : t \in MCTexts} \cup UNION {[1 .. n -> {47, 61, 33}] : n \in 0 .. 6}

RequestsOf(methods, ports, headers, bodies) ==
    [method : methods, host : {"host"}, port : ports, headers : headers, body : bodies]

Authorized == <<AuthHeader, "credentials", "EOL">>

\* Sent as a whole, with every source.
Whole == RequestsOf({"CONNECT"}, {"443"}, {Authorized}, {<<>>})

\* Cut anywhere: tunnels to all ports, which may carry any byte, a page that is
\* fetched, one that is sent, and another method.
Cut ==
    RequestsOf({"CONNECT"}, {"none", "443", "8080", "70000"}, {<<>>}, {<<>>})
    \cup RequestsOf({"CONNECT"}, {"443"}, {<<>>, Authorized}, {<<"NUL", "b">>})
    \cup RequestsOf({"GET"}, {"none"}, {Authorized}, {<<>>})
    \cup RequestsOf({"POST", "PUT"}, {"none"}, {<<>>}, {<<"a", "b">>, <<"NUL">>})

MCRequests == Whole \cup Cut

\* A source that is right and one that is wrong, or one if there is no header.
MCInit ==
    /\ AdmissionInit
    /\ req \in Cut =>
        source \in {Encode(<<97, 58, 97>>)} \cup
            (IF req.headers = <<>> THEN {} ELSE {Encode(<<97, 58, 98, 58>>)})

\* AdmissionSpec with these.
MCSpec == MCInit /\ [][AdmissionNext]_<<credentials, request>>

SentWhole == req \in Whole => sent \in {0, Len(Request!Message(req))}

=============================================================================
