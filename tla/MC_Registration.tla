--------------------------- MODULE MC_Registration ---------------------------
(* Small instances of Registration: two spellings of one user name and one *)
(* other name.                                                             *)
EXTENDS Registration, TLC

FoldCase == [n \in Names |-> IF n = "Ann" THEN "ann" ELSE n]

Symmetry == Permutations(Registrations)

=============================================================================
