--------------------------- MODULE SessionProtocol ---------------------------
(***************************************************************************)
(* What nermalproxy promises of a session, without threads, descriptors,   *)
(* queues or messages: a session is accepted once, its request is read     *)
(* before a connection is made for it, data is relayed only over an        *)
(* established connection, and a session that has ended stays ended.  The  *)
(* end of the process ends every session with it.                          *)
(***************************************************************************)
CONSTANT Sessions

VARIABLES stage, up

\* A stage is "new", "detecting", "connecting", "relaying" or "ended".
pvars == <<stage, up>>

Init ==
    /\ stage = [s \in Sessions |-> "new"]
    /\ up = TRUE

\* One session, and no other, goes from one stage to the next.
Move(s, from, to) ==
    /\ up
    /\ stage[s] = from
    /\ stage' = [stage EXCEPT ![s] = to]
    /\ UNCHANGED up

Accept(s) == Move(s, "new", "detecting")
Connect(s) == Move(s, "detecting", "connecting")
Establish(s) == Move(s, "connecting", "relaying")
End(s) == \E from \in {"detecting", "connecting", "relaying"} : Move(s, from, "ended")

Halt ==
    /\ up
    /\ up' = FALSE
    /\ stage' = [s \in Sessions |-> IF stage[s] = "new" THEN "new" ELSE "ended"]

Next ==
    \/ Halt
    \/ \E s \in Sessions : Accept(s) \/ Connect(s) \/ Establish(s) \/ End(s)

Spec == Init /\ [][Next]_pvars

=============================================================================
