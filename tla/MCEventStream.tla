---------------------------- MODULE MCEventStream ----------------------------
(* Small instances of EventStream for TLC. *)
EXTENDS EventStream, TLC

\* sections and sockets are interchangeable: no definition orders or names them
Symmetry == Permutations(Sections) \cup Permutations(Sockets)
=============================================================================
