-------------------------- MODULE MC_LoginSessions --------------------------
(* Small instances of LoginSessions.                                       *)
EXTENDS LoginSessions, TLC

(* Requests of one kind are interchangeable.                               *)
Symmetry == Permutations(Attempts) \cup Permutations(Resets)
            \cup Permutations(Users) \cup Permutations(Tokens)

=============================================================================
