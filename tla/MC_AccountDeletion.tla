-------------------------- MODULE MC_AccountDeletion --------------------------
(* Small instances of AccountDeletion.                                     *)
EXTENDS AccountDeletion, TLC

Symmetry == Permutations(Requests) \cup Permutations(Confirms) \cup Permutations(Cancels)

=============================================================================
