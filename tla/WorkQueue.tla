------------------------------ MODULE WorkQueue ------------------------------
(***************************************************************************)
(* What the thread pool promises, without semaphore, mutex or list: work   *)
(* packages are put into a queue, each is taken by one thread in the order *)
(* in which they were put, and finished once.                              *)
(***************************************************************************)
EXTENDS Naturals, Sequences

CONSTANTS Workers, None

VARIABLES queue, running, finished, issued

qvars == <<queue, running, finished, issued>>

Init ==
    /\ queue = <<>>
    /\ running = [w \in Workers |-> None]
    /\ finished = {}
    /\ issued = 0

\* Package number issued + 1 is put into the queue.
Put ==
    /\ issued' = issued + 1
    /\ queue' = Append(queue, issued + 1)
    /\ UNCHANGED <<running, finished>>

Take(w) ==
    /\ running[w] = None
    /\ queue # <<>>
    /\ running' = [running EXCEPT ![w] = Head(queue)]
    /\ queue' = Tail(queue)
    /\ UNCHANGED <<finished, issued>>

Finish(w) ==
    /\ running[w] # None
    /\ running[w] \notin finished
    /\ finished' = finished \cup {running[w]}
    /\ running' = [running EXCEPT ![w] = None]
    /\ UNCHANGED <<queue, issued>>

Next == Put \/ \E w \in Workers : Take(w) \/ Finish(w)

Spec == Init /\ [][Next]_qvars

=============================================================================
