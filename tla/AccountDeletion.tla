--------------------------- MODULE AccountDeletion ---------------------------
(***************************************************************************)
(* Self-service account deletion: account-deletion.service.ts behind the   *)
(* session-validation middleware, over the users, sessions,                *)
(* account_deletion_requests and account_deletion_notification_records     *)
(* tables.                                                                 *)
(*                                                                         *)
(* A request row is named by the handler that inserted it, a notice row by *)
(* the handler whose transaction queued it.  The only real wait is the     *)
(* mail of requestDeletion; the steps before it follow each other in the   *)
(* microtask queue.  Other handlers run between them only if their promise *)
(* chains share a drain of that queue (requests pipelined on one           *)
(* connection) or if two service processes share the database:             *)
(* Interleave = TRUE.  The process may be killed between any two steps.    *)
(***************************************************************************)
EXTENDS Integers, FiniteSets

CONSTANTS
  Users,
  Requests,      (* POST /deletion-requests                                *)
  Confirms,      (* POST /deletion-requests/confirm                        *)
  Cancels,       (* DELETE /deletion-requests                              *)
  Ttl,           (* ACCOUNT_DELETION_OTP_EXPIRY_MINUTES                    *)
  MaxTime,       (* bound on the clock                                     *)
  Interleave,
  None           (* no request row                                         *)

ASSUME DeletionAssumption ==
  /\ Ttl \in Nat /\ MaxTime \in Nat
  /\ Interleave \in BOOLEAN
  /\ None \notin Requests

VARIABLES
  status,        (* users.status                                           *)
  address,       (* users.email: the user's "own", or "anonymised"         *)
  session,       (* the user holds a session that is not invalidated       *)
  dreq,          (* account_deletion_requests rows                         *)
  notice,        (* account_deletion_notification_records rows: the        *)
                 (* recipient, or "none" while the row does not exist      *)
  request,       (* requestDeletion handlers                               *)
  confirm,       (* confirmDeletion handlers                               *)
  cancel,        (* cancelDeletion handlers                                *)
  now

vars == <<status, address, session, dreq, notice, request, confirm, cancel, now>>

RequestEnd == {"denied", "notActive", "alreadyPending", "accepted", "aborted"}
ConfirmEnd == {"denied", "notFound", "expired", "invalid", "deleted", "aborted"}
CancelEnd  == {"denied", "notFound", "cancelled", "aborted"}

RequestPc == {"idle", "authorised", "checked", "mailing"} \cup RequestEnd
ConfirmPc == {"idle", "authorised", "matched", "captured"} \cup ConfirmEnd
CancelPc  == {"idle", "authorised", "found"} \cup CancelEnd

RequestHandler == [pc : RequestPc, user : Users]
ConfirmHandler == [pc : ConfirmPc, user : Users, code : Requests \cup {None},
                   found : Requests \cup {None}, email : {"own", "anonymised"}]
CancelHandler  == [pc : CancelPc, user : Users, found : Requests \cup {None}]

RequestRow == [row : {"absent", "pending", "confirmed", "cancelled"}, expiresAt : Nat]

Init ==
  /\ status = [u \in Users |-> "active"]
  /\ address = [u \in Users |-> "own"]
  /\ session = [u \in Users |-> TRUE]
  /\ dreq = [q \in Requests |-> [row |-> "absent", expiresAt |-> 0]]
  /\ notice = [c \in Confirms |-> "none"]
  /\ \E u \in [Requests -> Users] :
       request = [q \in Requests |-> [pc |-> "idle", user |-> u[q]]]
  /\ \E u \in [Confirms -> Users], code \in [Confirms -> Requests \cup {None}] :
       confirm = [c \in Confirms |-> [pc |-> "idle", user |-> u[c], code |-> code[c],
                                      found |-> None, email |-> "own"]]
  /\ \E u \in [Cancels -> Users] :
       cancel = [k \in Cancels |-> [pc |-> "idle", user |-> u[k], found |-> None]]
  /\ now = 0

-----------------------------------------------------------------------------
(* Helpers.                                                                *)

(* Handlers between two of their steps, the mail aside.                    *)
MidRequests == {q \in Requests : request[q].pc \in {"authorised", "checked"}}
MidConfirms == {c \in Confirms : confirm[c].pc \in {"authorised", "matched", "captured"}}
MidCancels == {k \in Cancels : cancel[k].pc \in {"authorised", "found"}}

RequestTurn(q) == Interleave \/ (MidRequests \subseteq {q} /\ MidConfirms = {} /\ MidCancels = {})
ConfirmTurn(c) == Interleave \/ (MidRequests = {} /\ MidConfirms \subseteq {c} /\ MidCancels = {})
CancelTurn(k) == Interleave \/ (MidRequests = {} /\ MidConfirms = {} /\ MidCancels \subseteq {k})

(* validateSession: a live session whose owner is active.                  *)
Authorised(u) == session[u] /\ status[u] = "active"

(* Its side effect: the sessions of an owner who is not active are         *)
(* invalidated.                                                            *)
Sweep(u) == session' = [session EXCEPT ![u] = @ /\ status[u] = "active"]

(* findPendingByUserId: the rows of u that are still pending.              *)
Pending(u) == {q \in Requests : request[q].user = u /\ dreq[q].row = "pending"}

-----------------------------------------------------------------------------
(* requestDeletion.                                                        *)

RequestAuth(q) ==
  /\ request[q].pc = "idle"
  /\ RequestTurn(q)
  /\ request' = [request EXCEPT ![q].pc = IF Authorised(request[q].user)
                                          THEN "authorised" ELSE "denied"]
  /\ Sweep(request[q].user)
  /\ UNCHANGED <<status, address, dreq, notice, confirm, cancel, now>>

(* Steps 1-2: the account is active and nothing is pending.                *)
RequestCheck(q) ==
  LET u == request[q].user IN
  /\ request[q].pc = "authorised"
  /\ RequestTurn(q)
  /\ request' = [request EXCEPT ![q].pc =
                   CASE status[u] # "active" -> "notActive"
                     [] status[u] = "active" /\ Pending(u) # {} -> "alreadyPending"
                     [] OTHER -> "checked"]
  /\ UNCHANGED <<status, address, session, dreq, notice, confirm, cancel, now>>

(* Step 3: the row is inserted; no index keeps a second pending row out.   *)
RequestInsert(q) ==
  /\ request[q].pc = "checked"
  /\ RequestTurn(q)
  /\ dreq' = [dreq EXCEPT ![q] = [row |-> "pending", expiresAt |-> now + Ttl]]
  /\ request' = [request EXCEPT ![q].pc = "mailing"]
  /\ UNCHANGED <<status, address, session, notice, confirm, cancel, now>>

(* Step 4: the code is mailed; the answer is the same if that fails.       *)
RequestMailed(q) ==
  /\ request[q].pc = "mailing"
  /\ request' = [request EXCEPT ![q].pc = "accepted"]
  /\ UNCHANGED <<status, address, session, dreq, notice, confirm, cancel, now>>

-----------------------------------------------------------------------------
(* confirmDeletion.                                                        *)

ConfirmAuth(c) ==
  /\ confirm[c].pc = "idle"
  /\ ConfirmTurn(c)
  /\ confirm' = [confirm EXCEPT ![c].pc = IF Authorised(confirm[c].user)
                                          THEN "authorised" ELSE "denied"]
  /\ Sweep(confirm[c].user)
  /\ UNCHANGED <<status, address, dreq, notice, request, cancel, now>>

ConfirmNotFound(c) ==
  /\ confirm[c].pc = "authorised"
  /\ ConfirmTurn(c)
  /\ Pending(confirm[c].user) = {}
  /\ confirm' = [confirm EXCEPT ![c].pc = "notFound"]
  /\ UNCHANGED <<status, address, session, dreq, notice, request, cancel, now>>

(* Mutant: any row of the caller will do.                                  *)
ConfirmMatchAnyRow(c) ==
  /\ confirm[c].pc = "authorised"
  /\ ConfirmTurn(c)
  /\ \E q \in Requests :
       /\ request[q].user = confirm[c].user /\ dreq[q].row # "absent"
       /\ confirm' = [confirm EXCEPT ![c].found = q,
                                     ![c].pc = IF confirm[c].code = q THEN "matched"
                                                                      ELSE "invalid"]
  /\ UNCHANGED <<status, address, session, dreq, notice, request, cancel, now>>

(* Steps 1-3: a pending row of the caller (which one, if there are two, is *)
(* the database's choice), not expired, whose code is the one submitted.   *)
ConfirmMatch(c) ==
  /\ confirm[c].pc = "authorised"
  /\ ConfirmTurn(c)
  /\ \E q \in Pending(confirm[c].user) :
       confirm' = [confirm EXCEPT ![c].found = q,
                                  ![c].pc = CASE now > dreq[q].expiresAt -> "expired"
                                              [] now <= dreq[q].expiresAt /\ confirm[c].code # q
                                                   -> "invalid"
                                              [] OTHER -> "matched"]
  /\ UNCHANGED <<status, address, session, dreq, notice, request, cancel, now>>

(* Step 4: the address is captured.                                        *)
ConfirmCapture(c) ==
  /\ confirm[c].pc = "matched"
  /\ ConfirmTurn(c)
  /\ confirm' = [confirm EXCEPT ![c].pc = "captured", ![c].email = address[confirm[c].user]]
  /\ UNCHANGED <<status, address, session, dreq, notice, request, cancel, now>>

(* Mutant: the request row is left as it is.                               *)
ConfirmCommitKeepRequest(c) ==
  LET u == confirm[c].user IN
  /\ confirm[c].pc = "captured"
  /\ ConfirmTurn(c)
  /\ status' = [status EXCEPT ![u] = "deleted"]
  /\ address' = [address EXCEPT ![u] = "anonymised"]
  /\ session' = [session EXCEPT ![u] = FALSE]
  /\ notice' = [notice EXCEPT ![c] = confirm[c].email]
  /\ confirm' = [confirm EXCEPT ![c].pc = "deleted"]
  /\ UNCHANGED <<dreq, request, cancel, now>>

(* Mutant: the notice takes the address the row has after the update.      *)
ConfirmCommitLateAddress(c) ==
  LET u == confirm[c].user IN
  /\ confirm[c].pc = "captured"
  /\ ConfirmTurn(c)
  /\ status' = [status EXCEPT ![u] = "deleted"]
  /\ address' = [address EXCEPT ![u] = "anonymised"]
  /\ dreq' = [dreq EXCEPT ![confirm[c].found].row = "confirmed"]
  /\ session' = [session EXCEPT ![u] = FALSE]
  /\ notice' = [notice EXCEPT ![c] = "anonymised"]
  /\ confirm' = [confirm EXCEPT ![c].pc = "deleted"]
  /\ UNCHANGED <<request, cancel, now>>

(* Step 5: one transaction; none of its updates tests what it overwrites.  *)
ConfirmCommit(c) ==
  LET u == confirm[c].user IN
  /\ confirm[c].pc = "captured"
  /\ ConfirmTurn(c)
  /\ status' = [status EXCEPT ![u] = "deleted"]
  /\ address' = [address EXCEPT ![u] = "anonymised"]
  /\ dreq' = [dreq EXCEPT ![confirm[c].found].row = "confirmed"]
  /\ session' = [session EXCEPT ![u] = FALSE]
  /\ notice' = [notice EXCEPT ![c] = confirm[c].email]
  /\ confirm' = [confirm EXCEPT ![c].pc = "deleted"]
  /\ UNCHANGED <<request, cancel, now>>

-----------------------------------------------------------------------------
(* cancelDeletion.                                                         *)

CancelAuth(k) ==
  /\ cancel[k].pc = "idle"
  /\ CancelTurn(k)
  /\ cancel' = [cancel EXCEPT ![k].pc = IF Authorised(cancel[k].user)
                                        THEN "authorised" ELSE "denied"]
  /\ Sweep(cancel[k].user)
  /\ UNCHANGED <<status, address, dreq, notice, request, confirm, now>>

CancelLookup(k) ==
  LET pending == Pending(cancel[k].user) IN
  /\ cancel[k].pc = "authorised"
  /\ CancelTurn(k)
  /\ \/ /\ pending = {}
        /\ cancel' = [cancel EXCEPT ![k].pc = "notFound"]
     \/ \E q \in pending : cancel' = [cancel EXCEPT ![k].pc = "found", ![k].found = q]
  /\ UNCHANGED <<status, address, session, dreq, notice, request, confirm, now>>

(* The update does not test that the row is still pending.                 *)
CancelCommit(k) ==
  /\ cancel[k].pc = "found"
  /\ CancelTurn(k)
  /\ dreq' = [dreq EXCEPT ![cancel[k].found].row = "cancelled"]
  /\ cancel' = [cancel EXCEPT ![k].pc = "cancelled"]
  /\ UNCHANGED <<status, address, session, notice, request, confirm, now>>

-----------------------------------------------------------------------------
(* The surroundings.                                                       *)

(* The user logs out, or logs in again.  A login reads the status well     *)
(* before it inserts its session (LoginSessions), so the session may come  *)
(* after a deletion.                                                       *)
Logout(u) ==
  /\ session[u]
  /\ session' = [session EXCEPT ![u] = FALSE]
  /\ UNCHANGED <<status, address, dreq, notice, request, confirm, cancel, now>>

Login(u) ==
  /\ ~session[u]
  /\ session' = [session EXCEPT ![u] = TRUE]
  /\ UNCHANGED <<status, address, dreq, notice, request, confirm, cancel, now>>

(* The process is killed: the tables stay, the handlers are gone.          *)
Crash ==
  /\ \/ MidRequests \cup {q \in Requests : request[q].pc = "mailing"} # {}
     \/ MidConfirms # {}
     \/ MidCancels # {}
  /\ request' = [q \in Requests |-> IF request[q].pc \in {"idle"} \cup RequestEnd
                                    THEN request[q] ELSE [request[q] EXCEPT !.pc = "aborted"]]
  /\ confirm' = [c \in Confirms |-> IF c \in MidConfirms
                                    THEN [confirm[c] EXCEPT !.pc = "aborted"] ELSE confirm[c]]
  /\ cancel' = [k \in Cancels |-> IF k \in MidCancels
                                  THEN [cancel[k] EXCEPT !.pc = "aborted"] ELSE cancel[k]]
  /\ UNCHANGED <<status, address, session, dreq, notice, now>>

Tick ==
  /\ now < MaxTime
  /\ now' = now + 1
  /\ UNCHANGED <<status, address, session, dreq, notice, request, confirm, cancel>>

RequestStep(q) == RequestAuth(q) \/ RequestCheck(q) \/ RequestInsert(q) \/ RequestMailed(q)
ConfirmStep(c) == \/ ConfirmAuth(c) \/ ConfirmNotFound(c) \/ ConfirmMatch(c)
                  \/ ConfirmCapture(c) \/ ConfirmCommit(c)
CancelStep(k) == CancelAuth(k) \/ CancelLookup(k) \/ CancelCommit(k)

Next ==
  \/ \E q \in Requests : RequestStep(q)
  \/ \E c \in Confirms : ConfirmStep(c)
  \/ \E k \in Cancels : CancelStep(k)
  \/ \E u \in Users : Logout(u) \/ Login(u)
  \/ Crash
  \/ Tick

Spec == Init /\ [][Next]_vars

-----------------------------------------------------------------------------
(* Properties.                                                             *)

(* Every variable has the shape the tables and the handlers give it, and a *)
(* handler that is about to change a request row has one.                  *)
TypeOK ==
  /\ status \in [Users -> {"active", "deleted"}]
  /\ address \in [Users -> {"own", "anonymised"}]
  /\ session \in [Users -> BOOLEAN]
  /\ dreq \in [Requests -> RequestRow]
  /\ notice \in [Confirms -> {"none", "own", "anonymised"}]
  /\ request \in [Requests -> RequestHandler]
  /\ confirm \in [Confirms -> ConfirmHandler]
  /\ cancel \in [Cancels -> CancelHandler]
  /\ \A c \in Confirms : confirm[c].pc \in {"matched", "captured"} => confirm[c].found # None
  /\ \A k \in Cancels : cancel[k].pc = "found" => cancel[k].found # None
  /\ now \in Nat

(* A deleted account has its notice queued, to the address it had before.  *)
DeletedIsNotified ==
  \A u \in Users : status[u] = "deleted" =>
    \E c \in Confirms : confirm[c].user = u /\ notice[c] = "own"

(* ... and exactly one, and no request of the account is still pending.    *)
DeletedOnce ==
  \A u \in Users : status[u] = "deleted" =>
    /\ Cardinality({c \in Confirms : confirm[c].user = u /\ notice[c] # "none"}) = 1
    /\ Pending(u) = {}

(* account-deletion.service.ts:120 "At most one pending request per user". *)
(* Refuted with Interleave = TRUE: two requests both find nothing pending. *)
OnePending == \A u \in Users : Cardinality(Pending(u)) <= 1

(* deletion-request.repository.ts:112 "One-way": a request whose           *)
(* cancellation was answered does not end confirmed.  With Interleave =    *)
(* TRUE a confirmation under way overwrites it.                            *)
CancelledStays ==
  \A k \in Cancels : cancel[k].pc = "cancelled" => dreq[cancel[k].found].row = "cancelled"

(* Every step of the handlers is, for the account, a step of the abstract  *)
(* lifecycle or none.                                                      *)
Lifecycle == INSTANCE AccountLifecycle WITH
  account <- [u \in Users |-> IF status[u] = "deleted" THEN "deleted"
                              ELSE IF Pending(u) # {} THEN "pending" ELSE "active"]

FollowsLifecycle == Lifecycle!Spec

=============================================================================
