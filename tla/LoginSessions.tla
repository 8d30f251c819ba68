--------------------------- MODULE LoginSessions ---------------------------
(***************************************************************************)
(* Login, account lockout, sessions and password reset of the BACKEND      *)
(* service: auth.service.ts, login-guard.ts, session.service.ts and        *)
(* password-recovery.service.ts over the users, sessions and               *)
(* password_recovery_requests tables.                                      *)
(*                                                                         *)
(* A handler is cut into steps where it really gives up the event loop     *)
(* (bcrypt.compare and bcrypt.hash run on the thread pool) and between two *)
(* committed writes (the process may be killed there).  What lies between  *)
(* two cuts runs without interruption: better-sqlite3 is synchronous, so   *)
(* awaiting a repository only yields to the microtask queue.               *)
(*                                                                         *)
(* A login is named by its attempt, a session by the attempt that made it  *)
(* (a login inserts at most one row).  A bcrypt hash is a version number:  *)
(* every reset writes a hash with a fresh salt, so never an earlier one.   *)
(***************************************************************************)
EXTENDS Integers, FiniteSets

CONSTANTS
  Users,          (* rows of the users table                               *)
  Attempts,       (* POST /sessions requests                               *)
  Tokens,         (* rows of password_recovery_requests                    *)
  Resets,         (* POST /password-recovery/reset requests                *)
  Threshold,      (* LOGIN_LOCKOUT_THRESHOLD                               *)
  LockoutTime,    (* LOGIN_LOCKOUT_DURATION_MINUTES                        *)
  SessionTtl,     (* SESSION_EXPIRY_SECONDS                                *)
  TokenTtl,       (* PASSWORD_RECOVERY_TOKEN_EXPIRY_HOURS                  *)
  MaxTime         (* bound on the clock                                    *)

ASSUME ConfigAssumption ==
  /\ Threshold \in Nat \ {0}
  /\ LockoutTime \in Nat \ {0}
  /\ SessionTtl \in Nat \ {0}
  /\ TokenTtl \in Nat
  /\ MaxTime \in Nat

VARIABLES
  status,         (* users.status                                          *)
  pwd,            (* users.password_hash, as a version                     *)
  failed,         (* users.failed_login_count                              *)
  lockedUntil,    (* users.locked_until; 0, which is past, stands for NULL *)
  session,        (* sessions rows, by the attempt that created them       *)
  token,          (* password_recovery_requests rows                       *)
  login,          (* POST /sessions handlers                               *)
  reset,          (* POST /password-recovery/reset handlers                *)
  now             (* the clock                                             *)

userVars == <<status, pwd, failed, lockedUntil>>
vars == <<status, pwd, failed, lockedUntil, session, token, login, reset, now>>

InFlight == {"comparing", "lock", "clear", "session"}
LoginEnd == {"ok", "unknownAddress", "badCredentials", "locked", "notActive",
             "sessionFailed", "aborted"}
ResetEnd == {"ok", "notFound", "expired", "policy", "aborted"}

SessionRow == [row : {"absent", "active", "invalidated"}, expiresAt : Nat]
TokenRow == [row : {"absent", "unused", "consumed"}, user : Users, expiresAt : Nat]
LoginHandler == [pc : {"idle"} \cup InFlight \cup LoginEnd, user : Users,
                 good : BOOLEAN, seenFailed : Nat, seenLock : Nat, seenPwd : Nat,
                 failedAt : Nat, raced : BOOLEAN]
ResetHandler == [pc : {"idle", "hashing"} \cup ResetEnd, token : Tokens, strong : BOOLEAN]

(* What a request carries is fixed before it arrives: the account and      *)
(* whether the password is the one behind the hash that will be read; for  *)
(* a reset, the token and whether the new password meets the policy.  The  *)
(* "raced" field is history: a reset or a deletion of the same account     *)
(* committed while this login was between its lookup and its session.      *)
Init ==
  /\ status = [u \in Users |-> "active"]
  /\ pwd = [u \in Users |-> 0]
  /\ failed = [u \in Users |-> 0]
  /\ lockedUntil = [u \in Users |-> 0]
  /\ session = [a \in Attempts |-> [row |-> "absent", expiresAt |-> 0]]
  /\ \E owner \in [Tokens -> Users] :
       token = [t \in Tokens |-> [row |-> "absent", user |-> owner[t], expiresAt |-> 0]]
  /\ \E user \in [Attempts -> Users], good \in [Attempts -> BOOLEAN] :
       login = [a \in Attempts |->
                  [pc |-> "idle", user |-> user[a], good |-> good[a], seenFailed |-> 0,
                   seenLock |-> 0, seenPwd |-> 0, failedAt |-> 0, raced |-> FALSE]]
  /\ \E used \in [Resets -> Tokens], strong \in [Resets -> BOOLEAN] :
       reset = [r \in Resets |-> [pc |-> "idle", token |-> used[r], strong |-> strong[r]]]
  /\ now = 0

-----------------------------------------------------------------------------
(* Repositories and guards.                                                *)

(* findByEmail: an anonymised account is no longer found by its address.   *)
FindByEmail(u) == status[u] # "deleted"

(* checkLockout: locked only while lockedUntil is strictly in the future.  *)
LockedOut(u) == lockedUntil[u] > now

SessionsOf(u) == {a \in Attempts : login[a].user = u /\ session[a].row = "active"}

(* invalidateAllForUser: every row of u that is not invalidated yet.       *)
InvalidateAllForUser(u) ==
  session' = [a \in Attempts |-> IF a \in SessionsOf(u)
                                 THEN [session[a] EXCEPT !.row = "invalidated"]
                                 ELSE session[a]]

(* countActiveForUser: not invalidated and not past expires_at.            *)
CountActiveForUser(u) == Cardinality({a \in SessionsOf(u) : session[a].expiresAt > now})

(* validateSession: the typed result for the token of session a.           *)
Validity(a) ==
  CASE session[a].row = "absent"             -> "NOT_FOUND"
    [] session[a].row # "absent" /\ now >= session[a].expiresAt -> "EXPIRED"
    [] session[a].row = "invalidated" /\ now < session[a].expiresAt -> "INVALIDATED"
    [] OTHER -> IF status[login[a].user] = "active" THEN "valid" ELSE "ACCOUNT_SUSPENDED"

(* History: u's logins that are between their lookup and their session.    *)
MarkRaced(u) ==
  login' = [a \in Attempts |-> IF login[a].user = u /\ login[a].pc \in InFlight
                               THEN [login[a] EXCEPT !.raced = TRUE]
                               ELSE login[a]]

-----------------------------------------------------------------------------
(* POST /sessions: AuthService.login.                                      *)

(* Mutant: the lockout is not consulted.                                   *)
MayCompareLocked(u) == FindByEmail(u) /\ status[u] = "active"

MayCompare(u) == FindByEmail(u) /\ ~LockedOut(u) /\ status[u] = "active"

(* Steps 1-3 refuse the request: unknown address (answered as a wrong      *)
(* password is), lockout, then status.                                     *)
LoginRefuse(a) ==
  LET u == login[a].user IN
  /\ login[a].pc = "idle"
  /\ ~MayCompare(u)
  /\ login' = [login EXCEPT ![a].pc = CASE ~FindByEmail(u) -> "unknownAddress"
                                        [] FindByEmail(u) /\ LockedOut(u) -> "locked"
                                        [] OTHER -> "notActive"]
  /\ UNCHANGED <<userVars, session, token, reset, now>>

(* Steps 1-4: the row is read and bcrypt.compare starts.                   *)
LoginCompare(a) ==
  LET u == login[a].user IN
  /\ login[a].pc = "idle"
  /\ MayCompare(u)
  /\ login' = [login EXCEPT ![a] = [@ EXCEPT !.pc = "comparing",
                                             !.seenFailed = failed[u],
                                             !.seenLock = lockedUntil[u],
                                             !.seenPwd = pwd[u]]]
  /\ UNCHANGED <<userVars, session, token, reset, now>>

(* Mutant: the threshold must be exceeded rather than reached.             *)
FailIncrementLate(a) ==
  /\ login[a].pc = "comparing"
  /\ ~login[a].good
  /\ failed' = [failed EXCEPT ![login[a].user] = @ + 1]
  /\ login' = [login EXCEPT ![a].pc = IF login[a].seenFailed + 1 > Threshold
                                      THEN "lock" ELSE "badCredentials",
                            ![a].failedAt = now]
  /\ UNCHANGED <<status, pwd, lockedUntil, session, token, reset, now>>

(* Step 5, registerFailure: count the failure; the threshold is tested on  *)
(* the count the row had when it was read, before bcrypt.compare.          *)
FailIncrement(a) ==
  LET u == login[a].user IN
  /\ login[a].pc = "comparing"
  /\ ~login[a].good
  /\ failed' = [failed EXCEPT ![u] = @ + 1]
  /\ login' = [login EXCEPT ![a].pc = IF login[a].seenFailed + 1 >= Threshold
                                      THEN "lock" ELSE "badCredentials",
                            ![a].failedAt = now]
  /\ UNCHANGED <<status, pwd, lockedUntil, session, token, reset, now>>

FailLock(a) ==
  /\ login[a].pc = "lock"
  /\ lockedUntil' = [lockedUntil EXCEPT ![login[a].user] = now + LockoutTime]
  /\ login' = [login EXCEPT ![a].pc = "clear"]
  /\ UNCHANGED <<status, pwd, failed, session, token, reset, now>>

FailClear(a) ==
  /\ login[a].pc = "clear"
  /\ failed' = [failed EXCEPT ![login[a].user] = 0]
  /\ login' = [login EXCEPT ![a].pc = "badCredentials"]
  /\ UNCHANGED <<status, pwd, lockedUntil, session, token, reset, now>>

(* Step 6: the password matched; the failure counter is reset.             *)
LoginClear(a) ==
  /\ login[a].pc = "comparing"
  /\ login[a].good
  /\ failed' = [failed EXCEPT ![login[a].user] = 0]
  /\ login' = [login EXCEPT ![a].pc = "session"]
  /\ UNCHANGED <<status, pwd, lockedUntil, session, token, reset, now>>

(* Step 7: createSession inserts the row and the token is returned.        *)
CreateSession(a) ==
  /\ login[a].pc = "session"
  /\ session' = [session EXCEPT ![a] = [row |-> "active", expiresAt |-> now + SessionTtl]]
  /\ login' = [login EXCEPT ![a].pc = "ok"]
  /\ UNCHANGED <<userVars, token, reset, now>>

(* EC-006: the insert throws, after the counter was reset.                 *)
SessionCreationFailed(a) ==
  /\ login[a].pc = "session"
  /\ login' = [login EXCEPT ![a].pc = "sessionFailed"]
  /\ UNCHANGED <<userVars, session, token, reset, now>>

-----------------------------------------------------------------------------
(* Sessions in use.                                                        *)

(* validateSession's side effect: the owner is no longer active, so every  *)
(* session of the owner is invalidated.                                    *)
ValidateSweep(a) ==
  /\ Validity(a) = "ACCOUNT_SUSPENDED"
  /\ InvalidateAllForUser(login[a].user)
  /\ UNCHANGED <<userVars, token, login, reset, now>>

(* DELETE /sessions, invalidateSession: no effect on a session that is     *)
(* absent, expired or already invalidated.                                 *)
Logout(a) ==
  /\ session[a].row = "active"
  /\ now < session[a].expiresAt
  /\ session' = [session EXCEPT ![a].row = "invalidated"]
  /\ UNCHANGED <<userVars, token, login, reset, now>>

-----------------------------------------------------------------------------
(* Password recovery.                                                      *)

(* requestRecovery: any account whose address is found, whatever its       *)
(* status; earlier tokens of the account stay usable.                      *)
RequestRecovery(t) ==
  /\ token[t].row = "absent"
  /\ FindByEmail(token[t].user)
  /\ token' = [token EXCEPT ![t].row = "unused", ![t].expiresAt = now + TokenTtl]
  /\ UNCHANGED <<userVars, session, login, reset, now>>

TokenUsable(t) == token[t].row = "unused" /\ now <= token[t].expiresAt

(* resetPassword, steps 1-3 refuse: unknown, expired or consumed, policy.  *)
ResetRefuse(r) ==
  LET t == reset[r].token IN
  /\ reset[r].pc = "idle"
  /\ ~(TokenUsable(t) /\ reset[r].strong)
  /\ reset' = [reset EXCEPT ![r].pc = CASE token[t].row = "absent" -> "notFound"
                                        [] token[t].row # "absent" /\ ~TokenUsable(t) -> "expired"
                                        [] OTHER -> "policy"]
  /\ UNCHANGED <<userVars, session, token, login, now>>

(* Steps 1-3 accept; bcrypt.hash starts.                                   *)
ResetHash(r) ==
  /\ reset[r].pc = "idle"
  /\ TokenUsable(reset[r].token) /\ reset[r].strong
  /\ reset' = [reset EXCEPT ![r].pc = "hashing"]
  /\ UNCHANGED <<userVars, session, token, login, now>>

(* Mutant: the transaction leaves the sessions alone.                      *)
ResetCommitHashOnly(r) ==
  LET t == reset[r].token
      u == token[t].user
  IN
  /\ reset[r].pc = "hashing"
  /\ pwd' = [pwd EXCEPT ![u] = @ + 1]
  /\ token' = [token EXCEPT ![t].row = "consumed"]
  /\ MarkRaced(u)
  /\ reset' = [reset EXCEPT ![r].pc = "ok"]
  /\ UNCHANGED <<status, failed, lockedUntil, session, now>>

(* Step 4: one transaction writes the hash, consumes the token (without    *)
(* testing that it is still unused) and invalidates the user's sessions.   *)
ResetCommit(r) ==
  LET t == reset[r].token
      u == token[t].user
  IN
  /\ reset[r].pc = "hashing"
  /\ pwd' = [pwd EXCEPT ![u] = @ + 1]
  /\ token' = [token EXCEPT ![t].row = "consumed"]
  /\ InvalidateAllForUser(u)
  /\ MarkRaced(u)
  /\ reset' = [reset EXCEPT ![r].pc = "ok"]
  /\ UNCHANGED <<status, failed, lockedUntil, now>>

-----------------------------------------------------------------------------
(* The account's status, changed from outside this module.                 *)

(* confirmDeletion's transaction, as far as users and sessions go.  It does *)
(* not test the status it overwrites.                                      *)
DeleteAccount(u) ==
  /\ status' = [status EXCEPT ![u] = "deleted"]
  /\ InvalidateAllForUser(u)
  /\ MarkRaced(u)
  /\ UNCHANGED <<pwd, failed, lockedUntil, token, reset, now>>

(* An administrator's UPDATE: no code of the service suspends an account.  *)
Suspend(u) ==
  /\ status[u] = "active"
  /\ status' = [status EXCEPT ![u] = "suspended"]
  /\ UNCHANGED <<pwd, failed, lockedUntil, session, token, login, reset, now>>

(* The process is killed: the tables stay, the handlers are gone.          *)
Crash ==
  /\ \/ \E a \in Attempts : login[a].pc \in InFlight
     \/ \E r \in Resets : reset[r].pc = "hashing"
  /\ login' = [a \in Attempts |-> IF login[a].pc \in InFlight
                                  THEN [login[a] EXCEPT !.pc = "aborted"] ELSE login[a]]
  /\ reset' = [r \in Resets |-> IF reset[r].pc = "hashing"
                                THEN [reset[r] EXCEPT !.pc = "aborted"] ELSE reset[r]]
  /\ UNCHANGED <<userVars, session, token, now>>

Tick ==
  /\ now < MaxTime
  /\ now' = now + 1
  /\ UNCHANGED <<userVars, session, token, login, reset>>

LoginStep(a) ==
  \/ LoginRefuse(a) \/ LoginCompare(a)
  \/ FailIncrement(a) \/ FailLock(a) \/ FailClear(a)
  \/ LoginClear(a) \/ CreateSession(a) \/ SessionCreationFailed(a)

Next ==
  \/ \E a \in Attempts : LoginStep(a) \/ ValidateSweep(a) \/ Logout(a)
  \/ \E t \in Tokens : RequestRecovery(t)
  \/ \E r \in Resets : ResetRefuse(r) \/ ResetHash(r) \/ ResetCommit(r)
  \/ \E u \in Users : DeleteAccount(u) \/ Suspend(u)
  \/ Crash
  \/ Tick

Spec == Init /\ [][Next]_vars

-----------------------------------------------------------------------------
(* Properties.                                                             *)

(* Every variable has the shape the tables and the handlers give it.       *)
TypeOK ==
  /\ status \in [Users -> {"active", "suspended", "deleted"}]
  /\ pwd \in [Users -> Nat]
  /\ failed \in [Users -> Nat]
  /\ lockedUntil \in [Users -> Nat]
  /\ session \in [Attempts -> SessionRow]
  /\ token \in [Tokens -> TokenRow]
  /\ login \in [Attempts -> LoginHandler]
  /\ reset \in [Resets -> ResetHandler]
  /\ now \in Nat

(* A session that still works was obtained with the account's current      *)
(* password, and its account is not deleted - unless its login was between *)
(* lookup and insert when the reset or the deletion committed: that race   *)
(* is the only way a session outlives either transaction.                  *)
StaleSessionOnlyByRace ==
  \A a \in Attempts :
    session[a].row = "active" /\ ~login[a].raced =>
      /\ login[a].seenPwd = pwd[login[a].user]
      /\ status[login[a].user] # "deleted"

(* A wrong password given to a login that read a count one below the       *)
(* threshold (or above) has locked the account, for the whole lockout      *)
(* time, by when it is answered; no concurrent login or reset shortens it. *)
ThresholdFailureLocks ==
  \A a \in Attempts :
    login[a].pc = "badCredentials" /\ login[a].seenFailed + 1 >= Threshold =>
      lockedUntil[login[a].user] >= login[a].failedAt + LockoutTime

(* A login that succeeds while the account is locked read the row before   *)
(* that lock was written: a lock bars every login that starts under it.    *)
LockedLoginStep ==
  \A a \in Attempts :
    session[a].row = "absent" /\ session'[a].row # "absent" /\ LockedOut(login[a].user)
      => login[a].seenLock < lockedUntil[login[a].user]

LockedLoginOnlyByRace == [][LockedLoginStep]_vars

(* The number of active sessions the profile reports is the number of the  *)
(* user's tokens that validateSession accepts, at every instant, the       *)
(* instant of expiry included.                                             *)
CountMatchesValidation ==
  \A u \in Users : status[u] = "active" =>
    CountActiveForUser(u) =
      Cardinality({a \in Attempts : login[a].user = u /\ Validity(a) = "valid"})

(* login-guard.ts:53 "If the incremented count reaches the configured      *)
(* threshold, applies a lockout and resets the counter to 0 in the same    *)
(* call": with no login under way and none killed, the count is below the  *)
(* threshold.  Refuted: concurrent logins test a count read before         *)
(* bcrypt.compare.                                                         *)
LockoutAtThreshold ==
  (\A a \in Attempts : login[a].pc \notin InFlight \cup {"aborted"}) =>
    \A u \in Users : failed[u] < Threshold

(* password-recovery.service.ts:98 "@throws TokenExpiredException - token  *)
(* past expiresAt, or already consumed": one token resets one password.    *)
(* Refuted: the test and the transaction are on two sides of bcrypt.hash.  *)
TokenUsedOnce ==
  \A r1, r2 \in Resets :
    r1 # r2 /\ reset[r1].token = reset[r2].token =>
      ~(reset[r1].pc = "ok" /\ reset[r2].pc = "ok")

=============================================================================
