------------------------- MODULE NotificationOutbox -------------------------
(***************************************************************************)
(* AccountDeletionNotificationWorker over the table                        *)
(* account_deletion_notification_records.                                  *)
(*                                                                         *)
(* setInterval starts a poll at every tick, whether or not the polls of    *)
(* earlier ticks are done: several polls may be under way, each with the   *)
(* snapshot of queued rows, retry counts included, that it read when it    *)
(* started.  A poll sends one mail at a time and gives up the event loop   *)
(* while the provider answers; between an answer and the next send it      *)
(* makes one update.                                                       *)
(***************************************************************************)
EXTENDS Integers, FiniteSets

CONSTANTS
  N,             (* number of notices; they are queued in the order 1..N   *)
  Polls,         (* polls that can be under way at once                    *)
  MaxRetries,    (* OUTBOX_MAX_RETRIES                                     *)
  MaxRestarts    (* bound: process ends and starts that are explored       *)

ASSUME OutboxAssumption ==
  /\ N \in Nat
  /\ IsFiniteSet(Polls)
  /\ MaxRetries \in Nat
  /\ MaxRestarts \in Nat

Records == 1 .. N

VARIABLES
  row,           (* delivery_status, "absent" before the row is inserted   *)
  retry,         (* retry_count                                            *)
  mails,         (* mails the provider accepted, per record                *)
  poll,          (* polls: pc, the records left, the counts they read      *)
  timer,         (* the interval is set                                    *)
  crossed,       (* history: records that two polls held at once           *)
  restarts

vars == <<row, retry, mails, poll, timer, crossed, restarts>>

(* Mutant: rows whose retries are used up are not read any more.           *)
QueuedRetryable == {n \in Records : row[n] = "queued" /\ retry[n] < MaxRetries}

(* Mutant: rows that were given up are read again.                         *)
QueuedOrFailed == {n \in Records : row[n] \in {"queued", "failed"}}

(* findQueued: the rows a poll reads.                                      *)
Queued == {n \in Records : row[n] = "queued"}

Idle == [pc |-> "idle", todo |-> {}, seen |-> [n \in Records |-> 0]]

(* Oldest first: ORDER BY dispatch_timestamp.                              *)
Current(p) == CHOOSE n \in poll[p].todo : \A m \in poll[p].todo : n <= m

Init ==
  /\ row = [n \in Records |-> "absent"]
  /\ retry = [n \in Records |-> 0]
  /\ mails = [n \in Records |-> 0]
  /\ poll = [p \in Polls |-> Idle]
  /\ timer = TRUE
  /\ crossed = {}
  /\ restarts = 0

(* confirmDeletion inserts the row in its transaction.                     *)
Enqueue(n) ==
  /\ row[n] = "absent"
  /\ \A m \in Records : m < n => row[m] # "absent"
  /\ row' = [row EXCEPT ![n] = "queued"]
  /\ UNCHANGED <<retry, mails, poll, timer, crossed, restarts>>

(* A tick: processQueuedRecords reads the queued rows; with none the poll  *)
(* is over at once, otherwise the first mail is sent.                      *)
StartPoll(p) ==
  /\ timer
  /\ poll[p].pc = "idle"
  /\ Queued # {}
  /\ poll' = [poll EXCEPT ![p] = [pc |-> "sending", todo |-> Queued, seen |-> retry]]
  /\ crossed' = crossed \cup {n \in Queued : \E q \in Polls : n \in poll[q].todo}
  /\ UNCHANGED <<row, retry, mails, timer, restarts>>

(* The provider takes the mail; its answer is still on the way.            *)
Accept(p) ==
  /\ poll[p].pc = "sending"
  /\ mails' = [mails EXCEPT ![Current(p)] = @ + 1]
  /\ poll' = [poll EXCEPT ![p].pc = "accepted"]
  /\ UNCHANGED <<row, retry, timer, crossed, restarts>>

(* The loop goes on with the next record of the snapshot.                  *)
Advance(p) ==
  LET left == poll[p].todo \ {Current(p)} IN
  poll' = [poll EXCEPT ![p] = IF left = {} THEN Idle
                              ELSE [@ EXCEPT !.pc = "sending", !.todo = left]]

(* The send is reported as delivered: the row is marked 'sent'.            *)
SendOk(p) ==
  /\ poll[p].pc = "accepted"
  /\ row' = [row EXCEPT ![Current(p)] = "sent"]
  /\ Advance(p)
  /\ UNCHANGED <<retry, mails, timer, crossed, restarts>>

(* The send is reported as failed: refused, or accepted with the answer    *)
(* lost, or the update to 'sent' threw.  _handleFailure goes by the retry  *)
(* count of the snapshot.                                                  *)
Failing(p) == poll[p].pc \in {"sending", "accepted"}

(* Mutant: the failure is not counted.                                     *)
RetryUncounted(p) ==
  /\ Failing(p)
  /\ poll[p].seen[Current(p)] < MaxRetries
  /\ Advance(p)
  /\ UNCHANGED <<row, retry, mails, timer, crossed, restarts>>

Retry(p) ==
  /\ Failing(p)
  /\ poll[p].seen[Current(p)] < MaxRetries
  /\ retry' = [retry EXCEPT ![Current(p)] = @ + 1]
  /\ Advance(p)
  /\ UNCHANGED <<row, mails, timer, crossed, restarts>>

GiveUp(p) ==
  /\ Failing(p)
  /\ poll[p].seen[Current(p)] >= MaxRetries
  /\ row' = [row EXCEPT ![Current(p)] = "failed"]
  /\ Advance(p)
  /\ UNCHANGED <<retry, mails, timer, crossed, restarts>>

(* stop() clears the interval; polls under way go on until the process     *)
(* ends.                                                                   *)
Stop ==
  /\ timer
  /\ restarts < MaxRestarts
  /\ timer' = FALSE
  /\ UNCHANGED <<row, retry, mails, poll, crossed, restarts>>

(* The process ends, after stop() or killed, and is started again: the     *)
(* table is what is left of the polls, and start() sets the interval.      *)
Restart ==
  /\ restarts < MaxRestarts
  /\ restarts' = restarts + 1
  /\ poll' = [p \in Polls |-> Idle]
  /\ timer' = TRUE
  /\ UNCHANGED <<row, retry, mails, crossed>>

PollStep(p) ==
  StartPoll(p) \/ Accept(p) \/ SendOk(p) \/ Retry(p) \/ GiveUp(p)

Next ==
  \/ \E n \in Records : Enqueue(n)
  \/ \E p \in Polls : PollStep(p)
  \/ Stop
  \/ Restart

(* The interval fires and every send is answered, so no poll stands still; *)
(* an operator starts a stopped service again.                             *)
Fairness == /\ \A p \in Polls : WF_vars(PollStep(p))
            /\ WF_vars(~timer /\ Restart)

Spec == Init /\ [][Next]_vars /\ Fairness

-----------------------------------------------------------------------------
(* Properties.                                                             *)

TypeOK ==
  /\ row \in [Records -> {"absent", "queued", "sent", "failed"}]
  /\ retry \in [Records -> Nat]
  /\ mails \in [Records -> Nat]
  /\ poll \in [Polls -> [pc : {"idle", "sending", "accepted"}, todo : SUBSET Records,
                         seen : [Records -> Nat]]]
  /\ \A p \in Polls : poll[p].pc = "idle" <=> poll[p].todo = {}
  /\ timer \in BOOLEAN
  /\ crossed \in SUBSET Records
  /\ restarts \in 0 .. MaxRestarts

(* A record is 'sent' only if the provider took a mail for it, whatever    *)
(* polls overlap and wherever the process stops.                           *)
SentWasDelivered == \A n \in Records : row[n] = "sent" => mails[n] > 0

(* retry_count passes its limit only by the polls that read it below the   *)
(* limit and overlap: by one less than the number of polls.                *)
RetryBound ==
  \A n \in Records : retry[n] <= MaxRetries + Cardinality(Polls) - 1 \/ retry[n] = 0

(* A settled notice stays as it is, 'sent' or 'failed', unless two polls   *)
(* held it at once, of which one may give up what the other has sent.      *)
SettledIsFinal ==
  [][\A n \in Records :
       (row[n] \in {"sent", "failed"} /\ n \notin crossed) => row'[n] = row[n]]_vars

(* The recipient is not flooded: mails for one deletion are bounded by the *)
(* retries, the polls that overlap and the restarts.                       *)
MailBound ==
  \A n \in Records :
    mails[n] <= MaxRetries + (2 + restarts) * Cardinality(Polls) - 1

(* What the abstract outbox sees of a row.                                 *)
Delivery == [n \in Records |-> CASE row[n] = "absent" -> "none"
                                 [] row[n] = "queued" -> "queued"
                                 [] OTHER -> "settled"]

Promise == INSTANCE NoticeDelivery WITH notice <- Delivery

(* The outbox keeps its promise: what is settled is never sent again as    *)
(* queued, and every queued notice is settled.                             *)
KeepsPromise == Promise!Spec

=============================================================================
