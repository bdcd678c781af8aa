---------------------------- MODULE MCDayBoundary ----------------------------
(* Small instances of DayBoundary for TLC. *)
EXTENDS DayBoundary, TLC

\* callers and conversations are interchangeable: no definition orders them
Symmetry == Permutations(Steppers) \cup Permutations(Convs)
=============================================================================
