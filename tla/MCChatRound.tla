---------------------------- MODULE MCChatRound ----------------------------
(* Small instances of ChatRound for TLC. *)
EXTENDS ChatRound, TLC

\* the NPCs are interchangeable: no definition orders or names them
Symmetry == Permutations(NPCs)
=============================================================================
