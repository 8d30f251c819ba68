-------------------------- MODULE RegistrationMail --------------------------
(***************************************************************************)
(* The registration e-mail and the activation link: OutboxWorker over      *)
(* registration_email_records, the administrator's resend                  *)
(* (email-dispatch.service.ts) and activation.service.ts over              *)
(* activation_tokens and users.                                            *)
(*                                                                         *)
(* Nothing inserts an activation token any more (registration.service.ts   *)
(* sends a one-time passcode instead), so tokens and most records are rows *)
(* that an earlier version left; the passcode and the deletion are the     *)
(* other two writers of users.status.  A token is named by its user.       *)
(*                                                                         *)
(* Only the provider's answer is really waited for.  The other awaits let  *)
(* other handlers in only if promise chains share a drain of the microtask *)
(* queue or two processes share the database: each behaviour allows that   *)
(* or not (overlap).  Polls overlap in both.  The process may be killed,   *)
(* and is started again, between any two steps.                            *)
(***************************************************************************)
EXTENDS Integers, FiniteSets

CONSTANTS
  Users,
  Activations,   (* POST /users/activate requests that can be under way    *)
  Resends,       (* POST /admin/users/:user_id/resend-confirmation, ditto  *)
  Polls,         (* polls that can be under way at once                    *)
  MaxRetries,    (* OUTBOX_MAX_RETRIES                                     *)
  MaxCrashes,    (* bound on crashes                                       *)
  Nobody         (* a user id or a token value that matches nothing        *)

ASSUME MailAssumption ==
  /\ IsFiniteSet(Polls)
  /\ MaxRetries \in Nat /\ MaxCrashes \in Nat
  /\ Nobody \notin Users

VARIABLES
  status,        (* users.status                                           *)
  token,         (* activation_tokens: no row, live, past its expires_at,  *)
                 (* or consumed                                            *)
  record,        (* registration_email_records.delivery_status             *)
  retry,         (* retry_count                                            *)
  mailed,        (* users whose mail the provider accepted                 *)
  act,           (* activate handlers; each serves any number of requests  *)
  resend,        (* resendConfirmation handlers, likewise                  *)
  accepted,      (* history: resends answered 202, per user                *)
  poll,          (* polls: the records left, the counts they read          *)
  crashes,
  overlap,       (* handlers run between each other's database calls       *)
  overlapped     (* history: two polls were under way at once              *)

tables == <<status, token, record, retry>>
vars == <<status, token, record, retry, mailed, act, resend, accepted, poll,
          crashes, overlap, overlapped>>

ActMid == {"read", "checked"}
ActEnd == {"refused", "activated"}
ResendEnd == {"refused", "accepted", "failed"}

Idle == [pc |-> "idle", todo |-> {}, cur |-> Nobody, seen |-> [u \in Users |-> 0]]

(* A record outlives its token: ON DELETE SET NULL.  A consumed token      *)
(* belongs to an account that is past 'pending'.                           *)
Init ==
  /\ status \in [Users -> {"pending", "active"}]
  /\ token \in [Users -> {"none", "live", "expired", "consumed"}]
  /\ \A u \in Users : token[u] = "consumed" => status[u] = "active"
  /\ record \in [Users -> {"absent", "queued", "failed"}]
  /\ retry = [u \in Users |-> 0]
  /\ mailed = {}
  /\ act = [a \in Activations |-> [pc |-> "idle", user |-> Nobody]]
  /\ resend = [r \in Resends |-> [pc |-> "idle", user |-> Nobody]]
  /\ accepted = [u \in Users |-> 0]
  /\ poll = [p \in Polls |-> Idle]
  /\ crashes = 0
  /\ overlap \in BOOLEAN
  /\ overlapped = FALSE

-----------------------------------------------------------------------------
(* A handler may start, or go on after a real wait.                        *)
Turn == overlap \/
  /\ \A a \in Activations : act[a].pc \notin ActMid
  /\ \A r \in Resends : resend[r].pc # "checked"
  /\ \A p \in Polls : poll[p].pc # "next"

(* The request is answered; the handler takes another one.                 *)
ActEnds(a, answer) ==
  /\ act' = [act EXCEPT ![a] = [pc |-> answer, user |-> Nobody]]
  /\ UNCHANGED <<tables, mailed, resend, accepted, poll, crashes, overlap, overlapped>>

ResendEnds(r, answer) ==
  /\ resend' = [resend EXCEPT ![r] = [pc |-> answer, user |-> Nobody]]
  /\ UNCHANGED <<tables, mailed, act, accepted, poll, crashes, overlap, overlapped>>

-----------------------------------------------------------------------------
(* activation.controller.ts and activation.service.ts.                     *)

(* Steps 1 to 3: the body holds no token, or one that is too long: 400;    *)
(* nobody's: 404; past its expiry or consumed: 410 ...                     *)
ActivateRefuse(a, u) ==
  /\ Turn
  /\ act[a].pc \notin ActMid
  /\ u # Nobody => token[u] # "live"
  /\ ActEnds(a, "refused")

(* ... or found to be live.                                                *)
ActivateRead(a, u) ==
  /\ Turn
  /\ act[a].pc \notin ActMid
  /\ u # Nobody /\ token[u] = "live"
  /\ act' = [act EXCEPT ![a] = [pc |-> "read", user |-> u]]
  /\ UNCHANGED <<tables, mailed, resend, accepted, poll, crashes, overlap, overlapped>>

(* Mutant: the status is not tested; the token is taken to prove it.       *)
ActivateCheckNone(a) ==
  /\ act[a].pc = "read"
  /\ act' = [act EXCEPT ![a].pc = "checked"]
  /\ UNCHANGED <<tables, mailed, resend, accepted, poll, crashes, overlap, overlapped>>

(* Step 4: the user is read; only a pending account goes on.               *)
ActivateCheck(a) ==
  /\ act[a].pc = "read"
  /\ status[act[a].user] = "pending"
  /\ act' = [act EXCEPT ![a].pc = "checked"]
  /\ UNCHANGED <<tables, mailed, resend, accepted, poll, crashes, overlap, overlapped>>

ActivateNotPending(a) ==
  /\ act[a].pc = "read"
  /\ status[act[a].user] # "pending"
  /\ ActEnds(a, "refused")

(* Step 5: one transaction, which tests neither row again.                 *)
ActivateCommit(a) ==
  /\ act[a].pc = "checked"
  /\ status' = [status EXCEPT ![act[a].user] = "active"]
  /\ token' = [token EXCEPT ![act[a].user] = "consumed"]
  /\ act' = [act EXCEPT ![a] = [pc |-> "activated", user |-> Nobody]]
  /\ UNCHANGED <<record, retry, mailed, resend, accepted, poll, crashes, overlap, overlapped>>

-----------------------------------------------------------------------------
(* admin-auth.middleware.ts, admin.controller.ts and resendConfirmation.   *)

(* The bearer token is not the administrator's, the id is blank or         *)
(* unknown, or the account is not pending ...                              *)
ResendRefuse(r) ==
  /\ Turn
  /\ resend[r].pc # "checked"
  /\ ResendEnds(r, "refused")

(* ... or it is pending: the token is looked up.                           *)
ResendCheck(r, u) ==
  /\ Turn
  /\ resend[r].pc # "checked"
  /\ status[u] = "pending"
  /\ resend' = [resend EXCEPT ![r] = [pc |-> "checked", user |-> u]]
  /\ UNCHANGED <<tables, mailed, act, accepted, poll, crashes, overlap, overlapped>>

(* findByUserId of the token repository.                                   *)
HasToken(u) == token[u] # "none"

(* The table takes the record: its activation_token_id refers to a token   *)
(* (of a user without one it is '', which refers to none), and the user    *)
(* has no record yet.                                                      *)
Insertable(u) == HasToken(u) /\ record[u] = "absent"

InsertRecord(u) ==
  /\ record' = [record EXCEPT ![u] = "queued"]
  /\ retry' = [retry EXCEPT ![u] = 0]

(* The record is inserted, 'queued': 202.                                  *)
ResendInsert(r) ==
  LET u == resend[r].user IN
  /\ resend[r].pc = "checked"
  /\ Insertable(u)
  /\ InsertRecord(u)
  /\ resend' = [resend EXCEPT ![r] = [pc |-> "accepted", user |-> Nobody]]
  /\ accepted' = [accepted EXCEPT ![u] = @ + 1]
  /\ UNCHANGED <<status, token, mailed, act, poll, crashes, overlap, overlapped>>

(* A constraint refuses the record: 500.                                   *)
ResendThrows(r) ==
  /\ resend[r].pc = "checked"
  /\ ~Insertable(resend[r].user)
  /\ ResendEnds(r, "failed")

-----------------------------------------------------------------------------
(* outbox.worker.ts.                                                       *)

(* Mutant: failed records are tried again.                                 *)
QueuedOrFailed == {u \in Users : record[u] \in {"queued", "failed"}}

(* findByStatus('queued').                                                 *)
Queued == {u \in Users : record[u] = "queued"}

(* A tick of the interval, whether or not an earlier poll is over.         *)
StartPoll(p) ==
  /\ Turn
  /\ poll[p].pc = "idle"
  /\ Queued # {}
  /\ poll' = [poll EXCEPT ![p] = [pc |-> "next", todo |-> Queued, cur |-> Nobody,
                                  seen |-> retry]]
  /\ overlapped' = (overlapped \/ \E q \in Polls \ {p} : poll[q].pc # "idle")
  /\ UNCHANGED <<tables, mailed, act, resend, accepted, crashes, overlap>>

UpdateStatus(u, s) == record' = [record EXCEPT ![u] = s]

IncrementRetryCount(u) == retry' = [retry EXCEPT ![u] = @ + 1]

(* The loop goes on with the rest of the snapshot, or ends.                *)
Continue(p, left) ==
  poll' = [poll EXCEPT ![p] = IF left = {} THEN Idle
                              ELSE [@ EXCEPT !.pc = "next", !.cur = Nobody, !.todo = left]]

(* Mutant: a record whose token is gone is left as it is.                  *)
SkipUnmarked(p, u) ==
  /\ poll[p].pc = "next" /\ u \in poll[p].todo
  /\ ~HasToken(u)
  /\ Continue(p, poll[p].todo \ {u})
  /\ UNCHANGED <<tables, mailed, act, resend, accepted, crashes, overlap, overlapped>>

(* The record's user has no token: 'failed' at once.                       *)
NoToken(p, u) ==
  /\ poll[p].pc = "next" /\ u \in poll[p].todo
  /\ ~HasToken(u)
  /\ UpdateStatus(u, "failed")
  /\ Continue(p, poll[p].todo \ {u})
  /\ UNCHANGED <<status, token, retry, mailed, act, resend, accepted, crashes, overlap,
                 overlapped>>

(* Token and user are found, and the mail is on its way; the records come  *)
(* in the order they were dispatched, which no property depends on.        *)
Send(p, u) ==
  /\ poll[p].pc = "next" /\ u \in poll[p].todo
  /\ HasToken(u)
  /\ poll' = [poll EXCEPT ![p].pc = "sending", ![p].cur = u, ![p].todo = @ \ {u}]
  /\ UNCHANGED <<tables, mailed, act, resend, accepted, crashes, overlap, overlapped>>

(* The provider takes the mail; its answer is still on the way.            *)
Accept(p) ==
  /\ poll[p].pc = "sending"
  /\ mailed' = mailed \cup {poll[p].cur}
  /\ poll' = [poll EXCEPT ![p].pc = "accepted"]
  /\ UNCHANGED <<tables, act, resend, accepted, crashes, overlap, overlapped>>

MarkSent(p) ==
  /\ Turn
  /\ poll[p].pc = "accepted"
  /\ UpdateStatus(poll[p].cur, "sent")
  /\ Continue(p, poll[p].todo)
  /\ UNCHANGED <<status, token, retry, mailed, act, resend, accepted, crashes, overlap,
                 overlapped>>

(* _handleFailure, with the retry count of the snapshot: the send was      *)
(* refused, or accepted with the answer lost.                              *)
HandleFailure(p) ==
  LET u == poll[p].cur IN
  /\ Turn
  /\ poll[p].pc \in {"sending", "accepted"}
  /\ \/ /\ poll[p].seen[u] < MaxRetries
        /\ IncrementRetryCount(u)
        /\ UNCHANGED record
     \/ /\ poll[p].seen[u] >= MaxRetries
        /\ UpdateStatus(u, "failed")
        /\ UNCHANGED retry
  /\ Continue(p, poll[p].todo)
  /\ UNCHANGED <<status, token, mailed, act, resend, accepted, crashes, overlap, overlapped>>

-----------------------------------------------------------------------------
(* The other writers, and the environment.                                 *)

(* verifyOtp activates the account without its link.                       *)
OtpActivate(u) ==
  /\ Turn
  /\ status[u] = "pending"
  /\ status' = [status EXCEPT ![u] = "active"]
  /\ UNCHANGED <<token, record, retry, mailed, act, resend, accepted, poll, crashes,
                 overlap, overlapped>>

(* confirmDeletion: the token and the record stay.                         *)
DeleteAccount(u) ==
  /\ Turn
  /\ status[u] = "active"
  /\ status' = [status EXCEPT ![u] = "deleted"]
  /\ UNCHANGED <<token, record, retry, mailed, act, resend, accepted, poll, crashes,
                 overlap, overlapped>>

(* The clock passes expires_at.                                            *)
Expire(u) ==
  /\ token[u] = "live"
  /\ token' = [token EXCEPT ![u] = "expired"]
  /\ UNCHANGED <<status, record, retry, mailed, act, resend, accepted, poll, crashes,
                 overlap, overlapped>>

(* The process is killed and started again: the tables are left.           *)
Crash ==
  /\ crashes < MaxCrashes
  /\ crashes' = crashes + 1
  /\ act' = [a \in Activations |-> [pc |-> "idle", user |-> Nobody]]
  /\ resend' = [r \in Resends |-> [pc |-> "idle", user |-> Nobody]]
  /\ poll' = [p \in Polls |-> Idle]
  /\ UNCHANGED <<tables, mailed, accepted, overlap, overlapped>>

ActStep(a) ==
  \/ ActivateCheck(a) \/ ActivateNotPending(a) \/ ActivateCommit(a)
  \/ \E u \in Users \cup {Nobody} : ActivateRefuse(a, u) \/ ActivateRead(a, u)

ResendStep(r) ==
  \/ ResendRefuse(r) \/ ResendInsert(r) \/ ResendThrows(r)
  \/ \E u \in Users : ResendCheck(r, u)

PollStep(p) ==
  \/ StartPoll(p) \/ Accept(p) \/ MarkSent(p) \/ HandleFailure(p)
  \/ \E u \in Users : NoToken(p, u) \/ Send(p, u)

Next ==
  \/ \E a \in Activations : ActStep(a)
  \/ \E r \in Resends : ResendStep(r)
  \/ \E p \in Polls : PollStep(p)
  \/ \E u \in Users : OtpActivate(u) \/ DeleteAccount(u) \/ Expire(u)
  \/ Crash

(* The interval fires and the provider answers or the send fails; the      *)
(* event loop gives both their turn, and a handler not waiting runs on.    *)
Fairness ==
  /\ \A p \in Polls : SF_vars(PollStep(p))
  /\ \A a \in Activations : WF_vars(ActivateCheck(a) \/ ActivateNotPending(a) \/ ActivateCommit(a))
  /\ \A r \in Resends : WF_vars(ResendInsert(r) \/ ResendThrows(r))

Spec == Init /\ [][Next]_vars /\ Fairness

-----------------------------------------------------------------------------
(* Properties.                                                             *)

(* Every variable has its shape; a handler past its look-up is about a     *)
(* user that exists and whose token was found, and a poll mails only users *)
(* that have a token.                                                      *)
TypeOK ==
  /\ status \in [Users -> {"pending", "active", "deleted"}]
  /\ token \in [Users -> {"none", "live", "expired", "consumed"}]
  /\ record \in [Users -> {"absent", "queued", "sent", "failed"}]
  /\ retry \in [Users -> Nat]
  /\ mailed \in SUBSET Users
  /\ act \in [Activations -> [pc : {"idle"} \cup ActMid \cup ActEnd,
                              user : Users \cup {Nobody}]]
  /\ \A a \in Activations : act[a].pc \in ActMid =>
       act[a].user \in Users /\ token[act[a].user] # "none"
  /\ resend \in [Resends -> [pc : {"idle", "checked"} \cup ResendEnd,
                             user : Users \cup {Nobody}]]
  /\ \A r \in Resends : resend[r].pc = "checked" => resend[r].user \in Users
  /\ accepted \in [Users -> Nat]
  /\ poll \in [Polls -> [pc : {"idle", "next", "sending", "accepted"},
                         todo : SUBSET Users, cur : Users \cup {Nobody},
                         seen : [Users -> Nat]]]
  /\ \A p \in Polls : poll[p].pc \in {"sending", "accepted"} =>
       poll[p].cur \in Users /\ token[poll[p].cur] # "none"
  /\ crashes \in 0 .. MaxCrashes
  /\ overlap \in BOOLEAN /\ overlapped \in BOOLEAN

(* Whatever crashes fall between activation's steps, a link is used up     *)
(* only together with the activation: no account stays pending with a      *)
(* consumed link.                                                          *)
ConsumedIsActivated ==
  \A u \in Users : token[u] = "consumed" => status[u] # "pending"

(* email-dispatch.service.ts:75 promises a record "regardless of prior     *)
(* delivery history".  What its table leaves of that: of all resends for   *)
(* an account at most one is accepted, before or after a crash, and none   *)
(* for an account without a link to send.                                  *)
ResendAcceptedOnce ==
  \A u \in Users :
    /\ accepted[u] <= 1
    /\ accepted[u] = 1 => token[u] # "none" /\ record[u] # "absent"

(* outbox.worker.ts marks a record 'sent' only after the provider took a   *)
(* mail for it, whatever polls overlap and wherever the process stops.     *)
SentWasMailed == \A u \in Users : record[u] = "sent" => u \in mailed

(* As long as every poll ended before the next tick, no record is retried  *)
(* past the limit.                                                         *)
RetriesExact == ~overlapped => \A u \in Users : retry[u] <= MaxRetries

(* As long as every poll ended before the next tick, a settled record      *)
(* stays as it is: 'sent' never turns into 'failed', nor back.             *)
SettledIsFinal ==
  [][\A u \in Users :
       (~overlapped /\ record[u] \in {"sent", "failed"}) => record'[u] = record[u]]_vars

(* Two handlers apart, a link that was mailed does not bring a deleted     *)
(* account back, although deletion leaves the token live.                  *)
DeletedForGood ==
  [][\A u \in Users : (~overlap /\ status[u] = "deleted") => status'[u] = "deleted"]_vars

(* A queued record is settled in the end: sent, given up, or failed for    *)
(* want of a token.                                                        *)
Settles == \A u \in Users : record[u] = "queued" ~> record[u] # "queued"

=============================================================================
