---------------------------- MODULE MCNermalProxy ----------------------------
(* Small instances of NermalProxy. *)
EXTENDS NermalProxy, TLC

\* Descriptors and threads are interchangeable: the specification never
\* compares them in any other way than by equality.
Symmetry == Permutations(Fds) \cup Permutations(Workers)

=============================================================================
