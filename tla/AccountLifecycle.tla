-------------------------- MODULE AccountLifecycle --------------------------
(***************************************************************************)
(* What account deletion promises, per account: a deletion is requested,   *)
(* then withdrawn or carried out; one that was withdrawn is not carried    *)
(* out, and a deleted account stays deleted.                               *)
(***************************************************************************)
CONSTANT Users

VARIABLE account      (* "active", "pending" or "deleted"                  *)

Init == account = [u \in Users |-> "active"]

Move(u, from, to) == /\ account[u] = from
                     /\ account' = [account EXCEPT ![u] = to]

Request(u) == Move(u, "active", "pending")
Withdraw(u) == Move(u, "pending", "active")
Carry(u) == Move(u, "pending", "deleted")

Next == \E u \in Users : Request(u) \/ Withdraw(u) \/ Carry(u)

Spec == Init /\ [][Next]_account

=============================================================================
