----------------------------- MODULE OtpIssuance -----------------------------
(***************************************************************************)
(* One-time passcodes: otp.service.ts (send, resend, verify) with the      *)
(* Redis-backed rate-limit.guard.ts, the otp_requests table and the users  *)
(* table.                                                                  *)
(*                                                                         *)
(* A send really waits three times: for INCR, for EXPIRE and for the mail. *)
(* Its database calls are awaited too, but resolve at once: between them   *)
(* other handlers run only if their promise chains share a drain of the    *)
(* microtask queue (requests pipelined on one connection, Redis replies    *)
(* that arrive in one chunk) or if two service processes share the         *)
(* database.  Each behaviour allows those schedules or not (overlap); if   *)
(* not, a handler runs on until it really waits.  The process may be       *)
(* killed between any two steps in both.                                   *)
(*                                                                         *)
(* A code, and the otp_requests row that holds its hash, is named by the   *)
(* send that made it; two codes are taken to differ.                       *)
(***************************************************************************)
EXTENDS Integers, FiniteSets

CONSTANTS
  Users,
  Sends,         (* POST /otp/send and /otp/resend requests                *)
  Verifies,      (* POST /otp/verify requests                              *)
  MaxAttempts,   (* OTP_MAX_ATTEMPTS_PER_WINDOW                            *)
  Window,        (* OTP_RATE_LIMIT_WINDOW_MINUTES                          *)
  Ttl,           (* OTP_TTL_MINUTES                                        *)
  MaxTime,       (* bound on the clock                                     *)
  MaxFaults,     (* bound on crashes and Redis failures                    *)
  Nobody         (* no code: a passcode that matches nothing               *)

ASSUME OtpAssumption ==
  /\ IsFiniteSet(Sends)
  /\ MaxAttempts \in Nat \ {0} /\ Window \in Nat \ {0} /\ Ttl \in Nat
  /\ MaxTime \in Nat /\ MaxFaults \in Nat
  /\ Nobody \notin Sends

VARIABLES
  status,        (* users.status                                           *)
  otp,           (* otp_requests rows, by the send that inserted them      *)
  counter,       (* the Redis key otp:rl:<user>: value, end of its life    *)
  send,          (* send and resend handlers                               *)
  verify,        (* verify handlers                                        *)
  now,
  faults,        (* crashes and Redis failures so far                      *)
  orphaned,      (* history: users whose key lost its EXPIRE to a fault    *)
  overlap        (* handlers run between each other's database calls       *)

ghosts == <<orphaned, overlap>>
vars == <<status, otp, counter, send, verify, now, faults, orphaned, overlap>>

NoTtl == -1      (* the key has no time to live                            *)

SendEnd == {"forbidden", "limited", "delivered", "failed", "conflict", "aborted"}
(* Between two database calls of one send.  At "counted" the last reply of *)
(* Redis is on its way: the handler is still waiting.                      *)
MidSend == {"sequence", "create"}
SendPc == {"idle", "incr", "expire", "counted", "dispatch"} \cup MidSend \cup SendEnd
VerifyEnd == {"activated", "notFound", "expired", "invalid", "aborted"}

OtpRow == [row : {"absent", "active", "invalidated"},
           status : {"pending", "delivered", "failed"}, expiresAt : Nat, sequence : Nat]

Init ==
  /\ \E s \in [Users -> {"pending", "active"}] : status = s
  /\ otp = [s \in Sends |-> [row |-> "absent", status |-> "pending",
                             expiresAt |-> 0, sequence |-> 0]]
  /\ counter = [u \in Users |-> [value |-> 0, expiresAt |-> NoTtl]]
  /\ \E u \in [Sends -> Users] :
       send = [s \in Sends |-> [pc |-> "idle", user |-> u[s], count |-> 0,
                                countedAt |-> 0, sequence |-> 0]]
  /\ \E u \in [Verifies -> Users] :
       verify = [v \in Verifies |-> [pc |-> "idle", user |-> u[v], code |-> Nobody]]
  /\ now = 0
  /\ faults = 0
  /\ orphaned = {}
  /\ overlap \in BOOLEAN

-----------------------------------------------------------------------------
(* Helpers.                                                                *)

(* No other handler is between two of its database calls.                  *)
SendTurn(s) == overlap \/
  /\ \A r \in Sends \ {s} : send[r].pc \notin MidSend
  /\ \A v \in Verifies : verify[v].pc # "matched"

VerifyTurn(v) == overlap \/
  /\ \A s \in Sends : send[s].pc \notin MidSend
  /\ \A w \in Verifies \ {v} : verify[w].pc # "matched"

ActiveOf(u) == {s \in Sends : send[s].user = u /\ otp[s].row = "active"}

RowsOf(u) == {s \in Sends : send[s].user = u /\ otp[s].row # "absent"}

(* Mutant: counted over the rows still in use only.                        *)
NextSequenceActive(u) == Cardinality(ActiveOf(u)) + 1

(* MAX(attempt_sequence) + 1 over the user's rows.                         *)
NextSequence(u) ==
  CHOOSE n \in 1 .. Cardinality(Sends) + 1 :
    /\ \A s \in RowsOf(u) : otp[s].sequence < n
    /\ n = 1 \/ \E s \in RowsOf(u) : otp[s].sequence = n - 1

InvalidateActive(u) ==
  otp' = [s \in Sends |-> IF s \in ActiveOf(u)
                          THEN [otp[s] EXCEPT !.row = "invalidated"] ELSE otp[s]]

(* The key is gone once its time to live is over.                          *)
KeyAlive(u) ==
  /\ counter[u].value > 0
  /\ counter[u].expiresAt = NoTtl \/ now < counter[u].expiresAt

(* INCR: a missing key starts at 1 and has no time to live.                *)
Incremented(u) == IF KeyAlive(u) THEN [counter[u] EXCEPT !.value = @ + 1]
                                 ELSE [value |-> 1, expiresAt |-> NoTtl]

Goto(s, pc) == send' = [send EXCEPT ![s].pc = pc]

-----------------------------------------------------------------------------
(* issueOtp.                                                               *)

SendForbidden(s) ==
  /\ send[s].pc = "idle"
  /\ SendTurn(s)
  /\ status[send[s].user] \notin {"pending", "active"}
  /\ Goto(s, "forbidden")
  /\ UNCHANGED <<status, otp, counter, verify, now, faults, ghosts>>

(* The user is read once; allow() sends INCR.                              *)
SendStart(s) ==
  /\ send[s].pc = "idle"
  /\ SendTurn(s)
  /\ status[send[s].user] \in {"pending", "active"}
  /\ Goto(s, "incr")
  /\ UNCHANGED <<status, otp, counter, verify, now, faults, ghosts>>

(* Mutant: EXPIRE is left to the second attempt.                           *)
IncrExpireSecond(s) ==
  LET u == send[s].user IN
  /\ send[s].pc = "incr"
  /\ counter' = [counter EXCEPT ![u] = Incremented(u)]
  /\ send' = [send EXCEPT ![s].pc = IF Incremented(u).value = 2 THEN "expire" ELSE "counted",
                          ![s].count = Incremented(u).value,
                          ![s].countedAt = now]
  /\ UNCHANGED <<status, otp, verify, now, faults, ghosts>>

(* Redis runs INCR and replies.                                            *)
Incr(s) ==
  LET u == send[s].user IN
  /\ send[s].pc = "incr"
  /\ counter' = [counter EXCEPT ![u] = Incremented(u)]
  /\ send' = [send EXCEPT ![s].pc = IF Incremented(u).value = 1 THEN "expire" ELSE "counted",
                          ![s].count = Incremented(u).value,
                          ![s].countedAt = now]
  /\ UNCHANGED <<status, otp, verify, now, faults, ghosts>>

(* INCR runs, the connection drops before the reply, and the client sends  *)
(* the command again.                                                      *)
IncrReplyLost(s) ==
  LET u == send[s].user IN
  /\ send[s].pc = "incr"
  /\ faults < MaxFaults
  /\ faults' = faults + 1
  /\ counter' = [counter EXCEPT ![u] = Incremented(u)]
  /\ orphaned' = IF Incremented(u).value = 1 THEN orphaned \cup {u} ELSE orphaned
  /\ UNCHANGED <<status, otp, send, verify, now, overlap>>

(* The first attempt of a window sets the key's time to live.              *)
Expire(s) ==
  /\ send[s].pc = "expire"
  /\ counter' = [counter EXCEPT ![send[s].user] =
                   IF KeyAlive(send[s].user) THEN [@ EXCEPT !.expiresAt = now + Window] ELSE @]
  /\ Goto(s, "counted")
  /\ orphaned' = orphaned \ {send[s].user}
  /\ UNCHANGED <<status, otp, verify, now, faults, overlap>>

Allowed(count) == count <= MaxAttempts

SendLimited(s) ==
  /\ send[s].pc = "counted"
  /\ SendTurn(s)
  /\ ~Allowed(send[s].count)
  /\ Goto(s, "limited")
  /\ UNCHANGED <<status, otp, counter, verify, now, faults, ghosts>>

(* Mutant: the earlier code is invalidated before the limit is tested.     *)
InvalidateFirst(s) ==
  /\ send[s].pc = "counted"
  /\ SendTurn(s)
  /\ InvalidateActive(send[s].user)
  /\ Goto(s, IF Allowed(send[s].count) THEN "sequence" ELSE "limited")
  /\ UNCHANGED <<status, counter, verify, now, faults, ghosts>>

(* Step 5: the user's earlier code is invalidated ...                      *)
Invalidate(s) ==
  /\ send[s].pc = "counted"
  /\ SendTurn(s)
  /\ Allowed(send[s].count)
  /\ InvalidateActive(send[s].user)
  /\ Goto(s, "sequence")
  /\ UNCHANGED <<status, counter, verify, now, faults, ghosts>>

(* ... step 6: the attempt number is read ...                              *)
Sequence(s) ==
  /\ send[s].pc = "sequence"
  /\ SendTurn(s)
  /\ send' = [send EXCEPT ![s].pc = "create", ![s].sequence = NextSequence(send[s].user)]
  /\ UNCHANGED <<status, otp, counter, verify, now, faults, ghosts>>

(* ... step 7: the row is inserted, unless the unique index finds another  *)
(* active row of the user (the insert throws and the request ends in 500). *)
Create(s) ==
  /\ send[s].pc = "create"
  /\ SendTurn(s)
  /\ ActiveOf(send[s].user) = {}
  /\ otp' = [otp EXCEPT ![s] = [row |-> "active", status |-> "pending",
                                expiresAt |-> now + Ttl, sequence |-> send[s].sequence]]
  /\ Goto(s, "dispatch")
  /\ UNCHANGED <<status, counter, verify, now, faults, ghosts>>

CreateConflict(s) ==
  /\ send[s].pc = "create"
  /\ SendTurn(s)
  /\ ActiveOf(send[s].user) # {}
  /\ Goto(s, "conflict")
  /\ UNCHANGED <<status, otp, counter, verify, now, faults, ghosts>>

(* Mutant: a delivered code starts the count again, as a login does.       *)
DispatchedResets(s, outcome) ==
  /\ send[s].pc = "dispatch"
  /\ otp' = [otp EXCEPT ![s].status = outcome]
  /\ counter' = [counter EXCEPT ![send[s].user] = [value |-> 0, expiresAt |-> NoTtl]]
  /\ Goto(s, outcome)
  /\ UNCHANGED <<status, verify, now, faults, ghosts>>

(* Steps 8-9: the mail is sent, or not, and the row says which.            *)
Dispatched(s, outcome) ==
  /\ send[s].pc = "dispatch"
  /\ otp' = [otp EXCEPT ![s].status = outcome]
  /\ Goto(s, outcome)
  /\ UNCHANGED <<status, counter, verify, now, faults, ghosts>>

-----------------------------------------------------------------------------
(* verifyOtp.                                                              *)

(* The user, the active row, its expiry and its hash are read; code is the *)
(* send whose passcode was submitted, Nobody for a wrong one.  A code that *)
(* does not match is forgotten.                                            *)
VerifyResult(u, code) ==
  CASE status[u] \notin {"pending", "active"} \/ ActiveOf(u) = {} -> "notFound"
    [] \E s \in ActiveOf(u) : status[u] \in {"pending", "active"} /\ now > otp[s].expiresAt
         -> "expired"
    [] OTHER -> IF code \in ActiveOf(u) THEN "matched" ELSE "invalid"

VerifyRead(v, code) ==
  /\ verify[v].pc = "idle"
  /\ VerifyTurn(v)
  /\ LET result == VerifyResult(verify[v].user, code) IN
     verify' = [verify EXCEPT ![v].pc = result,
                              ![v].code = IF result = "matched" THEN code ELSE Nobody]
  /\ UNCHANGED <<status, otp, counter, send, now, faults, ghosts>>

(* Mutant: the code is left in use.                                        *)
VerifyCommitReusable(v) ==
  /\ verify[v].pc = "matched"
  /\ VerifyTurn(v)
  /\ status' = [status EXCEPT ![verify[v].user] = "active"]
  /\ verify' = [verify EXCEPT ![v].pc = "activated"]
  /\ UNCHANGED <<otp, counter, send, now, faults, ghosts>>

(* One transaction activates the account and invalidates the row; neither  *)
(* update tests what it overwrites.                                        *)
VerifyCommit(v) ==
  /\ verify[v].pc = "matched"
  /\ VerifyTurn(v)
  /\ status' = [status EXCEPT ![verify[v].user] = "active"]
  /\ otp' = [otp EXCEPT ![verify[v].code].row = "invalidated"]
  /\ verify' = [verify EXCEPT ![v].pc = "activated"]
  /\ UNCHANGED <<counter, send, now, faults, ghosts>>

-----------------------------------------------------------------------------
(* The surroundings.                                                       *)

(* confirmDeletion, as far as this component sees it.  It is a handler     *)
(* too: it runs between two steps of another only if they interleave.      *)
DeleteAccount(u) ==
  /\ status[u] = "active"
  /\ overlap \/ \A s \in Sends : send[s].pc \notin MidSend
  /\ overlap \/ \A v \in Verifies : verify[v].pc # "matched"
  /\ status' = [status EXCEPT ![u] = "deleted"]
  /\ UNCHANGED <<otp, counter, send, verify, now, faults, ghosts>>

(* A Redis command is rejected: the request ends in 500.                   *)
RedisFails(s) ==
  /\ send[s].pc \in {"incr", "expire"}
  /\ faults < MaxFaults
  /\ faults' = faults + 1
  /\ orphaned' = IF send[s].pc = "expire" THEN orphaned \cup {send[s].user} ELSE orphaned
  /\ Goto(s, "aborted")
  /\ UNCHANGED <<status, otp, counter, verify, now, overlap>>

(* The process is killed; the database and Redis stay.                     *)
Crash ==
  /\ faults < MaxFaults
  /\ faults' = faults + 1
  /\ send' = [s \in Sends |-> IF send[s].pc \in {"idle"} \cup SendEnd THEN send[s]
                              ELSE [send[s] EXCEPT !.pc = "aborted"]]
  /\ verify' = [v \in Verifies |-> IF verify[v].pc = "matched"
                                   THEN [verify[v] EXCEPT !.pc = "aborted"] ELSE verify[v]]
  /\ orphaned' = orphaned \cup {send[s].user : s \in {r \in Sends : send[r].pc = "expire"}}
  /\ UNCHANGED <<status, otp, counter, now, overlap>>

Tick ==
  /\ now < MaxTime
  /\ now' = now + 1
  /\ UNCHANGED <<status, otp, counter, send, verify, faults, ghosts>>

SendStep(s) ==
  \/ SendForbidden(s) \/ SendStart(s)
  \/ Incr(s) \/ IncrReplyLost(s) \/ Expire(s) \/ RedisFails(s)
  \/ SendLimited(s) \/ Invalidate(s) \/ Sequence(s) \/ Create(s) \/ CreateConflict(s)
  \/ \E outcome \in {"delivered", "failed"} : Dispatched(s, outcome)

Next ==
  \/ \E s \in Sends : SendStep(s)
  \/ \E v \in Verifies : VerifyCommit(v) \/ \E code \in Sends \cup {Nobody} : VerifyRead(v, code)
  \/ \E u \in Users : DeleteAccount(u)
  \/ Crash
  \/ Tick

Spec == Init /\ [][Next]_vars

-----------------------------------------------------------------------------
(* Properties.                                                             *)

(* Every variable has the shape the tables, Redis and the handlers give    *)
(* it, and the attempts of a user are numbered from 1.                     *)
TypeOK ==
  /\ status \in [Users -> {"pending", "active", "deleted"}]
  /\ otp \in [Sends -> OtpRow]
  /\ \A s \in Sends : otp[s].row # "absent" => otp[s].sequence > 0
  /\ counter \in [Users -> [value : Nat, expiresAt : {NoTtl} \cup Nat]]
  /\ send \in [Sends -> [pc : SendPc, user : Users, count : Nat, countedAt : Nat,
                         sequence : Nat]]
  /\ verify \in [Verifies -> [pc : {"idle", "matched"} \cup VerifyEnd, user : Users,
                              code : Sends \cup {Nobody}]]
  /\ now \in Nat /\ faults \in Nat
  /\ orphaned \subseteq Users
  /\ overlap \in BOOLEAN

(* A code that still works is the last one made for its user: no earlier   *)
(* code is left usable, and no later code is left unusable, by sends that  *)
(* wait for Redis or for the mail at the same time.                        *)
ActiveIsNewest ==
  \A s \in Sends : ~overlap /\ otp[s].row = "active" =>
    \A r \in RowsOf(send[s].user) \ {s} : otp[r].sequence < otp[s].sequence

(* However sends of a user overlap - one invalidating the code another has *)
(* just made, or running into the unique index - the user is left with a   *)
(* usable code, unless a verification used it up or a request was killed.  *)
CodeSurvives ==
  \A u \in Users : RowsOf(u) # {} /\ ActiveOf(u) = {} =>
    \/ \E s \in Sends : send[s].user = u /\ send[s].pc \in {"sequence", "create", "aborted"}
    \/ \E v \in Verifies : verify[v].user = u /\ verify[v].pc = "activated"

(* A code activates an account at most once, unless handlers overlap.      *)
CodeUsedOnce ==
  \A v, w \in Verifies :
    ~overlap /\ v # w /\ verify[v].pc = "activated" /\ verify[w].pc = "activated"
      => verify[v].code # verify[w].code

(* A deleted account stays deleted: a code asked for, or checked, before   *)
(* the deletion does not bring it back, unless handlers overlap.           *)
DeletedForGoodStep ==
  \A u \in Users : ~overlap /\ status[u] = "deleted" => status'[u] = "deleted"

DeletedForGood == [][DeletedForGoodStep]_vars

(* However the windows fall, fewer codes than two quotas are granted to a  *)
(* user in any stretch of time as long as a window.                        *)
QuotaPerWindow ==
  \A u \in Users : \A t \in 0 .. MaxTime :
    Cardinality({s \in Sends : /\ send[s].user = u /\ otp[s].row # "absent"
                               /\ send[s].countedAt \in t .. t + Window - 1})
      <= 2 * MaxAttempts - 1

(* A counter without a time to live is about to get one, unless a fault    *)
(* struck between INCR and EXPIRE.                                         *)
CounterExpires ==
  \A u \in Users \ orphaned :
    counter[u].value > 0 /\ counter[u].expiresAt = NoTtl
      => \E s \in Sends : send[s].user = u /\ send[s].pc = "expire"

=============================================================================
