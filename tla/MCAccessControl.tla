--------------------------- MODULE MCAccessControl ---------------------------
(* A small instance of AccessControl: two lists, two users, two hosts. *)
EXTENDS AccessControl

CONSTANTS ads, malware, ann, bob, pw1, pw2, ip1, ip2, h1, h2

MCBlocked == (ads :> {h1}) @@ (malware :> {h2})

\* Days of two hours, that is four intervals: no schedule, one of the right
\* length and one that is too long.
Schedules == {<<>>, <<"-", "X", "x", "-">>, <<"X", "X", "X", "X", "X">>}

MCTimes == {[day |-> d, hour |-> h, minute |-> m] : d \in {0, 1}, h \in {0, 1}, m \in {0, 29, 30, 59}}

UserEntries(name, password, addresses) ==
    {[name |-> name, password |-> password, domains |-> ds, ip_list |-> ips,
      days |-> [d \in {0, 1} |-> IF d = 0 THEN s ELSE <<>>]] :
        ds \in {<<>>, <<ads>>, <<malware, ads>>}, ips \in addresses, s \in Schedules}

MCConfigs ==
    {[auth |-> a, files |-> <<[name |-> ads, readable |-> r], [name |-> malware, readable |-> TRUE]>>,
      users |-> <<u, v>>, global_domains |-> g] :
        a \in BOOLEAN, r \in BOOLEAN,
        u \in UserEntries(ann, pw1, {<<>>, <<ip2, ip1>>}),
        v \in {w \in UserEntries(bob, pw2, {<<ip1>>}) : w.domains # <<malware, ads>>},
        g \in {<<>>, <<ads>>}}

MCRequests ==
    {[authorization |-> "basic", user |-> u, password |-> p, ip |-> ip1, host |-> h] :
        u \in {ann, bob}, p \in {pw1, pw2}, h \in {h1, h2}}
    \cup {[authorization |-> a, user |-> NoName, password |-> NoName, ip |-> i, host |-> h] :
        a \in {"none", "garbled"}, i \in {ip1, ip2}, h \in {h1, h2}}

=============================================================================
