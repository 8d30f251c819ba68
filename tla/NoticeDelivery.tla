--------------------------- MODULE NoticeDelivery ---------------------------
(***************************************************************************)
(* What the post-deletion notification outbox promises, without its        *)
(* worker: a notice that was queued is settled once and stays settled, and *)
(* a queued notice does not stay queued.                                   *)
(***************************************************************************)
CONSTANT Records

VARIABLE notice       (* "none", "queued" or "settled", for each record    *)

Init == notice = [n \in Records |-> "none"]

Queue(n) == /\ notice[n] = "none"
            /\ notice' = [notice EXCEPT ![n] = "queued"]

Settle(n) == /\ notice[n] = "queued"
             /\ notice' = [notice EXCEPT ![n] = "settled"]

Next == \E n \in Records : Queue(n) \/ Settle(n)

Spec == /\ Init /\ [][Next]_notice
        /\ \A n \in Records : WF_notice(Settle(n))

=============================================================================
