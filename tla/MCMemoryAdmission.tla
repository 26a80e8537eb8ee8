------------------------- MODULE MCMemoryAdmission -------------------------
(* MemoryAdmission for TLC: calls that start containers are interchangeable. *)
EXTENDS MemoryAdmission, TLC

StartersAlike == Permutations(Starters)
=============================================================================
