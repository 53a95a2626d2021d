----------------------------- MODULE MCAuditLog -----------------------------
(* Small instances of AuditLog: the users are all audited and, like the hosts, *)
(* told apart only by being equal or not.                                      *)
EXTENDS AuditLog

Symmetry == Permutations(Users) \cup Permutations(Hosts)

Seen == ({sessions[s] : s \in SessionId} \cup ended) \ {None}

Counts(x) ==
    {x.rx, x.tx, x.reached, x.fetched} # {0} \/ x.writeFailed \/ x.readFailed

AtMostOne(S) == Cardinality(S \ {NoName}) <= 1

\* Bound: bytes are counted, in all the ways there are, for one user and one host
\* before the clock moves; the log is written of sessions without bytes, and of
\* the first if it has sent one byte and got two.
BytesOrLog ==
    (\E x \in Seen : Counts(x)) =>
        \/ /\ now = 0 /\ tag.run = 1
           /\ AtMostOne({x.user : x \in Seen}) /\ AtMostOne({x.host : x \in Seen})
        \/ /\ \A s \in SessionId : sessions[s] # None => ~ Counts(sessions[s])
           /\ \A e \in ended : Counts(e) =>
                e.sid = 1 /\ e.rx = 1 /\ e.tx = 2 /\ e.reached = 1 /\ e.fetched = 2

=============================================================================
