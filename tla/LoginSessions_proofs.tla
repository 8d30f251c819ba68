------------------------ MODULE LoginSessions_proofs ------------------------
(***************************************************************************)
(* Proofs about LoginSessions, for any numbers of users, requests and      *)
(* tokens and any configuration: type correctness, the session invariant,  *)
(* the lockout invariant and the action property on locked logins.         *)
(***************************************************************************)
EXTENDS LoginSessions, TLAPS

(* A login under way that no reset or deletion overtook still holds the    *)
(* current hash of an account that exists.                                 *)
FreshLogins ==
  \A a \in Attempts :
    login[a].pc \in {"comparing", "session"} /\ ~login[a].raced =>
      /\ login[a].seenPwd = pwd[login[a].user]
      /\ status[login[a].user] # "deleted"

(* The lock a login saw was over when it saw it.                           *)
SeenLockOver ==
  \A a \in Attempts : login[a].pc \in InFlight => login[a].seenLock <= now

(* A login writes the lock only when it read a count at the threshold, and *)
(* clears the counter only after the lock is written.                      *)
LockSteps ==
  \A a \in Attempts :
    /\ login[a].failedAt <= now
    /\ login[a].pc = "clear" =>
         lockedUntil[login[a].user] >= login[a].failedAt + LockoutTime

IInv == TypeOK /\ FreshLogins /\ StaleSessionOnlyByRace /\ SeenLockOver
          /\ LockSteps /\ ThresholdFailureLocks

-----------------------------------------------------------------------------
LEMMA InitInv == Init => IInv
<1> SUFFICES ASSUME Init PROVE IInv
    OBVIOUS
<1> USE ConfigAssumption DEF Init, InFlight, LoginEnd, ResetEnd
<1>1. TypeOK
  BY DEF TypeOK, SessionRow, TokenRow, LoginHandler, ResetHandler
<1>2. FreshLogins /\ StaleSessionOnlyByRace /\ SeenLockOver
  BY DEF FreshLogins, StaleSessionOnlyByRace, SeenLockOver
<1>3. LockSteps /\ ThresholdFailureLocks
  BY DEF LockSteps, ThresholdFailureLocks
<1>4. QED
  BY <1>1, <1>2, <1>3 DEF IInv

(* Bulk invalidation leaves session rows.                                  *)
LEMMA InvalidateType == ASSUME TypeOK, NEW u \in Users, InvalidateAllForUser(u) PROVE session' \in [Attempts -> SessionRow]
  BY DEF TypeOK, InvalidateAllForUser, SessionRow
(* The history mark leaves login handlers.                                 *)
LEMMA MarkType == ASSUME TypeOK, NEW u \in Users, MarkRaced(u) PROVE login' \in [Attempts -> LoginHandler]
<1> DEFINE mark(a) == IF login[a].user = u /\ login[a].pc \in InFlight
                      THEN [login[a] EXCEPT !.raced = TRUE] ELSE login[a]
<1>1. ASSUME NEW a \in Attempts PROVE mark(a) \in LoginHandler
  BY DEF TypeOK, LoginHandler
<1>2. login' = [a \in Attempts |-> mark(a)]
  BY DEF MarkRaced
<1> HIDE DEF mark
<1>3. QED
  BY <1>1, <1>2
(* Moving one login to another pc keeps the type. *)
LEMMA MoveLogin == ASSUME TypeOK, NEW a \in Attempts, NEW p \in {"idle"} \cup InFlight \cup LoginEnd
     PROVE [login EXCEPT ![a].pc = p] \in [Attempts -> LoginHandler]
  BY DEF TypeOK, LoginHandler
LEMMA TypeStep == TypeOK /\ [Next]_vars => TypeOK'
<1> SUFFICES ASSUME TypeOK, [Next]_vars PROVE TypeOK'
    OBVIOUS
<1> USE ConfigAssumption DEF InFlight, LoginEnd, ResetEnd
<1>1. ASSUME NEW a \in Attempts, LoginStep(a) PROVE TypeOK'
  <2>0. login[a].user \in Users /\ login \in [Attempts -> LoginHandler]
    BY DEF TypeOK, LoginHandler
  <2>1. CASE LoginRefuse(a)
    <3>1. PICK p \in LoginEnd : login' = [login EXCEPT ![a].pc = p]
      BY <2>1 DEF LoginRefuse
    <3>2. login' \in [Attempts -> LoginHandler]
      BY <3>1, MoveLogin
    <3>3. QED
      BY <2>1, <3>2 DEF LoginRefuse, TypeOK, userVars
  <2>2. CASE LoginCompare(a)
    <3>1. failed[login[a].user] \in Nat /\ lockedUntil[login[a].user] \in Nat
            /\ pwd[login[a].user] \in Nat
      BY <2>0 DEF TypeOK
    <3>2. login'[a] \in LoginHandler /\ login' = [login EXCEPT ![a] = login'[a]]
      BY <2>2, <2>0, <3>1 DEF LoginCompare, LoginHandler
    <3>3. login' \in [Attempts -> LoginHandler]
      BY <2>0, <3>2
    <3>4. QED
      BY <2>2, <3>3 DEF LoginCompare, TypeOK, userVars
  <2>3. CASE FailIncrement(a)
    <3>1. login' \in [Attempts -> LoginHandler]
      <4>1. PICK p \in InFlight \cup LoginEnd :
              login' = [login EXCEPT ![a].pc = p, ![a].failedAt = now]
        BY <2>3 DEF FailIncrement
      <4>2. now \in Nat
        BY DEF TypeOK
      <4>3. login'[a] \in LoginHandler /\ login' = [login EXCEPT ![a] = login'[a]]
        BY <2>0, <4>1, <4>2 DEF LoginHandler
      <4>4. QED
        BY <2>0, <4>3
    <3>2. failed' \in [Users -> Nat]
      BY <2>3, <2>0 DEF FailIncrement, TypeOK
    <3>3. QED
      BY <2>3, <3>1, <3>2 DEF FailIncrement, TypeOK
  <2>4. CASE FailLock(a)
    <3>1. login' \in [Attempts -> LoginHandler]
      BY <2>4, MoveLogin DEF FailLock
    <3>2. now + LockoutTime \in Nat
      BY DEF TypeOK, ConfigAssumption
    <3>3. lockedUntil' \in [Users -> Nat]
      BY <2>4, <2>0, <3>2 DEF FailLock, TypeOK
    <3>4. QED
      BY <2>4, <3>1, <3>3 DEF FailLock, TypeOK
  <2>5. CASE FailClear(a) \/ LoginClear(a)
    <3>1. login' \in [Attempts -> LoginHandler]
      <4>1. PICK p \in InFlight \cup LoginEnd : login' = [login EXCEPT ![a].pc = p]
        BY <2>5 DEF FailClear, LoginClear
      <4>2. QED
        BY <4>1, MoveLogin
    <3>2. failed' \in [Users -> Nat]
      BY <2>5, <2>0 DEF FailClear, LoginClear, TypeOK
    <3>3. QED
      BY <2>5, <3>1, <3>2 DEF FailClear, LoginClear, TypeOK
  <2>6. CASE CreateSession(a)
    <3>1. login' \in [Attempts -> LoginHandler]
      BY <2>6, MoveLogin DEF CreateSession
    <3>2. session' \in [Attempts -> SessionRow]
      BY <2>6 DEF CreateSession, TypeOK, SessionRow, ConfigAssumption
    <3>3. QED
      BY <2>6, <3>1, <3>2 DEF CreateSession, TypeOK, userVars
  <2>7. CASE SessionCreationFailed(a)
    BY <2>7, MoveLogin DEF SessionCreationFailed, TypeOK, userVars
  <2>8. QED
    BY <1>1, <2>1, <2>2, <2>3, <2>4, <2>5, <2>6, <2>7 DEF LoginStep
<1>2. ASSUME NEW a \in Attempts, ValidateSweep(a) PROVE TypeOK'
  <2>1. login[a].user \in Users
    BY DEF TypeOK, LoginHandler
  <2>2. QED
    BY <1>2, <2>1, InvalidateType DEF ValidateSweep, TypeOK, userVars
<1>3. ASSUME NEW a \in Attempts, Logout(a) PROVE TypeOK'
  BY <1>3 DEF Logout, TypeOK, SessionRow, userVars
<1>4. ASSUME NEW t \in Tokens, RequestRecovery(t) PROVE TypeOK'
  <2>1. now + TokenTtl \in Nat
    BY DEF TypeOK, ConfigAssumption
  <2>2. token' = [token EXCEPT ![t] = token'[t]] /\ token'[t] \in TokenRow
    BY <1>4, <2>1 DEF RequestRecovery, TypeOK, TokenRow
  <2>3. token' \in [Tokens -> TokenRow]
    BY <2>2 DEF TypeOK
  <2>4. QED
    BY <1>4, <2>3 DEF RequestRecovery, TypeOK, userVars
<1>5. ASSUME NEW r \in Resets, ResetRefuse(r) \/ ResetHash(r) PROVE TypeOK'
  <2>1. PICK p \in {"idle", "hashing"} \cup ResetEnd : reset' = [reset EXCEPT ![r].pc = p]
    BY <1>5 DEF ResetRefuse, ResetHash
  <2>2. reset' \in [Resets -> ResetHandler]
    BY <2>1 DEF TypeOK, ResetHandler
  <2>3. QED
    BY <1>5, <2>2 DEF ResetRefuse, ResetHash, TypeOK, userVars
<1>6. ASSUME NEW r \in Resets, ResetCommit(r) PROVE TypeOK'
  <2>1. reset[r].token \in Tokens /\ token[reset[r].token].user \in Users
    BY DEF TypeOK, ResetHandler, TokenRow
  <2>2. reset' \in [Resets -> ResetHandler] /\ token' \in [Tokens -> TokenRow]
    BY <1>6, <2>1 DEF ResetCommit, TypeOK, ResetHandler, TokenRow
  <2>3. pwd' \in [Users -> Nat]
    BY <1>6, <2>1 DEF ResetCommit, TypeOK
  <2>4. session' \in [Attempts -> SessionRow] /\ login' \in [Attempts -> LoginHandler]
    BY <1>6, <2>1, InvalidateType, MarkType DEF ResetCommit
  <2>5. QED
    BY <1>6, <2>2, <2>3, <2>4 DEF ResetCommit, TypeOK
<1>7. ASSUME NEW u \in Users, DeleteAccount(u) PROVE TypeOK'
  BY <1>7, InvalidateType, MarkType DEF DeleteAccount, TypeOK
<1>8. ASSUME NEW u \in Users, Suspend(u) PROVE TypeOK'
  BY <1>8 DEF Suspend, TypeOK
<1>9. CASE Crash
  <2>1. login' \in [Attempts -> LoginHandler]
    BY <1>9 DEF Crash, TypeOK, LoginHandler
  <2>2. reset' \in [Resets -> ResetHandler]
    BY <1>9 DEF Crash, TypeOK, ResetHandler
  <2>3. QED
    BY <1>9, <2>1, <2>2 DEF Crash, TypeOK, userVars
<1>10. CASE Tick
  BY <1>10 DEF Tick, TypeOK, userVars
<1>11. CASE UNCHANGED vars
  BY <1>11 DEF vars, TypeOK
<1>12. QED
  BY <1>1, <1>2, <1>3, <1>4, <1>5, <1>6, <1>7, <1>8, <1>9, <1>10, <1>11 DEF Next

-----------------------------------------------------------------------------
(* Every state has the shape the tables and the handlers give it.          *)
THEOREM TypeCorrect == Spec => []TypeOK
<1>1. Init => TypeOK
  BY InitInv DEF IInv
<1>2. QED
  BY <1>1, TypeStep, PTL DEF Spec

(* FreshLogins and StaleSessionOnlyByRace, one attempt at a time.          *)
LEMMA SessionStep ==
  ASSUME TypeOK, FreshLogins, StaleSessionOnlyByRace, Next
  PROVE  FreshLogins' /\ StaleSessionOnlyByRace'
<1> DEFINE Fresh(b) == login[b].pc \in {"comparing", "session"} /\ ~login[b].raced =>
                          /\ login[b].seenPwd = pwd[login[b].user]
                          /\ status[login[b].user] # "deleted"
           Live(b) == session[b].row = "active" /\ ~login[b].raced =>
                          /\ login[b].seenPwd = pwd[login[b].user]
                          /\ status[login[b].user] # "deleted"
<1> SUFFICES ASSUME NEW b \in Attempts PROVE Fresh(b)' /\ Live(b)'
    BY DEF FreshLogins, StaleSessionOnlyByRace
<1>0. /\ Fresh(b) /\ Live(b)
      /\ login \in [Attempts -> LoginHandler] /\ session \in [Attempts -> SessionRow]
      /\ status \in [Users -> {"active", "suspended", "deleted"}]
      /\ pwd \in [Users -> Nat] /\ login[b].user \in Users
    BY DEF FreshLogins, StaleSessionOnlyByRace, TypeOK, LoginHandler
<1> USE DEF InFlight, LoginEnd, LoginHandler, SessionRow
<1>1. ASSUME NEW a \in Attempts, LoginStep(a) PROVE Fresh(b)' /\ Live(b)'
  <2>1. CASE LoginRefuse(a)
    BY <1>0, <2>1 DEF LoginRefuse, userVars
  <2>2. CASE LoginCompare(a)
    BY <1>0, <2>2 DEF LoginCompare, MayCompare, userVars
  <2>3. CASE FailIncrement(a)
    BY <1>0, <2>3 DEF FailIncrement
  <2>4. CASE FailLock(a) \/ FailClear(a) \/ LoginClear(a)
    <3>1. PICK p \in {"clear", "badCredentials", "session"} :
            /\ login' = [login EXCEPT ![a].pc = p]
            /\ p = "session" => login[a].pc = "comparing"
      BY <2>4 DEF FailLock, FailClear, LoginClear
    <3>2. UNCHANGED <<status, pwd, session>>
      BY <2>4 DEF FailLock, FailClear, LoginClear
    <3>3. QED
      BY <1>0, <3>1, <3>2
  <2>5. CASE CreateSession(a)
    BY <1>0, <2>5 DEF CreateSession, userVars
  <2>6. CASE SessionCreationFailed(a)
    BY <1>0, <2>6 DEF SessionCreationFailed, userVars
  <2>7. QED
    BY <1>1, <2>1, <2>2, <2>3, <2>4, <2>5, <2>6 DEF LoginStep
<1>2. ASSUME NEW a \in Attempts, ValidateSweep(a) \/ Logout(a)
      PROVE  Fresh(b)' /\ Live(b)'
  <2>1. session'[b].row = "active" => session[b].row = "active"
    BY <1>0, <1>2 DEF ValidateSweep, Logout, InvalidateAllForUser
  <2>2. UNCHANGED <<status, pwd, login>>
    BY <1>2 DEF ValidateSweep, Logout, userVars
  <2>3. QED
    BY <1>0, <2>1, <2>2
<1>3. ASSUME NEW t \in Tokens, RequestRecovery(t) PROVE Fresh(b)' /\ Live(b)'
  BY <1>0, <1>3 DEF RequestRecovery, userVars
<1>4. ASSUME NEW r \in Resets, ResetRefuse(r) \/ ResetHash(r)
      PROVE  Fresh(b)' /\ Live(b)'
  BY <1>0, <1>4 DEF ResetRefuse, ResetHash, userVars
<1>5. ASSUME NEW r \in Resets, ResetCommit(r) PROVE Fresh(b)' /\ Live(b)'
  <2> DEFINE u == token[reset[r].token].user
  <2>1. pwd' = [pwd EXCEPT ![u] = pwd[u] + 1] /\ status' = status
    BY <1>5 DEF ResetCommit
  <2>2. InvalidateAllForUser(u) /\ MarkRaced(u)
    BY <1>5 DEF ResetCommit
  <2> HIDE DEF u
  <2>3. QED
    BY <1>0, <2>1, <2>2 DEF InvalidateAllForUser, SessionsOf, MarkRaced
<1>6. ASSUME NEW u \in Users, DeleteAccount(u) PROVE Fresh(b)' /\ Live(b)'
  BY <1>0, <1>6 DEF DeleteAccount, InvalidateAllForUser, SessionsOf, MarkRaced
<1>7. ASSUME NEW u \in Users, Suspend(u) PROVE Fresh(b)' /\ Live(b)'
  BY <1>0, <1>7 DEF Suspend
<1>8. CASE Crash
  BY <1>0, <1>8 DEF Crash, userVars
<1>9. CASE Tick
  BY <1>0, <1>9 DEF Tick, userVars
<1>10. QED
  BY <1>1, <1>2, <1>3, <1>4, <1>5, <1>6, <1>7, <1>8, <1>9 DEF Next

(* The lockout invariants, one attempt at a time.                          *)
LEMMA LockoutStep ==
  ASSUME TypeOK, SeenLockOver, LockSteps, ThresholdFailureLocks, Next
  PROVE  SeenLockOver' /\ LockSteps' /\ ThresholdFailureLocks'
<1> DEFINE Seen(b) == login[b].pc \in InFlight => login[b].seenLock <= now
           Steps(b) == /\ login[b].failedAt <= now
                       /\ login[b].pc = "clear" =>
                            lockedUntil[login[b].user] >= login[b].failedAt + LockoutTime
           Locks(b) == login[b].pc = "badCredentials" /\ login[b].seenFailed + 1 >= Threshold =>
                            lockedUntil[login[b].user] >= login[b].failedAt + LockoutTime
           All(b) == Seen(b) /\ Steps(b) /\ Locks(b)
<1> SUFFICES ASSUME NEW b \in Attempts PROVE All(b)'
    BY DEF SeenLockOver, LockSteps, ThresholdFailureLocks
<1>0. /\ All(b)
      /\ login \in [Attempts -> LoginHandler]
      /\ lockedUntil \in [Users -> Nat] /\ now \in Nat /\ login[b].user \in Users
      /\ LockoutTime \in Nat /\ Threshold \in Nat
    BY ConfigAssumption DEF SeenLockOver, LockSteps, ThresholdFailureLocks, TypeOK, LoginHandler
<1> USE DEF InFlight, LoginEnd, LoginHandler
<1>1. ASSUME NEW a \in Attempts, LoginStep(a) PROVE All(b)'
  <2>1. CASE LoginRefuse(a)
    BY <1>0, <2>1 DEF LoginRefuse, userVars
  <2>2. CASE LoginCompare(a)
    <3>1. lockedUntil[login[a].user] \in Nat /\ ~(lockedUntil[login[a].user] > now)
      BY <1>0, <2>2 DEF LoginCompare, MayCompare, LockedOut
    <3>2. QED
      BY <1>0, <2>2, <3>1 DEF LoginCompare, userVars
  <2>3. CASE FailIncrement(a)
    BY <1>0, <2>3 DEF FailIncrement
  <2>4. CASE FailLock(a)
    BY <1>0, <2>4 DEF FailLock
  <2>5. CASE FailClear(a)
    BY <1>0, <2>5 DEF FailClear
  <2>6. CASE LoginClear(a)
    BY <1>0, <2>6 DEF LoginClear
  <2>7. CASE CreateSession(a) \/ SessionCreationFailed(a)
    BY <1>0, <2>7 DEF CreateSession, SessionCreationFailed, userVars
  <2>8. QED
    BY <1>1, <2>1, <2>2, <2>3, <2>4, <2>5, <2>6, <2>7 DEF LoginStep
<1>2. ASSUME NEW a \in Attempts, ValidateSweep(a) \/ Logout(a) PROVE All(b)'
  BY <1>0, <1>2 DEF ValidateSweep, Logout, userVars
<1>3. ASSUME NEW t \in Tokens, RequestRecovery(t) PROVE All(b)'
  BY <1>0, <1>3 DEF RequestRecovery, userVars
<1>4. ASSUME NEW r \in Resets, ResetRefuse(r) \/ ResetHash(r) PROVE All(b)'
  BY <1>0, <1>4 DEF ResetRefuse, ResetHash, userVars
<1>5. ASSUME NEW r \in Resets, ResetCommit(r) PROVE All(b)'
  <2> DEFINE u == token[reset[r].token].user
  <2>1. lockedUntil' = lockedUntil /\ now' = now /\ MarkRaced(u)
    BY <1>5 DEF ResetCommit
  <2> HIDE DEF u
  <2>2. QED
    BY <1>0, <2>1 DEF MarkRaced
<1>6. ASSUME NEW u \in Users, DeleteAccount(u) \/ Suspend(u) PROVE All(b)'
  BY <1>0, <1>6 DEF DeleteAccount, Suspend, MarkRaced
<1>7. CASE Crash
  BY <1>0, <1>7 DEF Crash, userVars
<1>8. CASE Tick
  BY <1>0, <1>8 DEF Tick, userVars
<1>9. QED
  BY <1>1, <1>2, <1>3, <1>4, <1>5, <1>6, <1>7, <1>8 DEF Next

LEMMA InvStep == IInv /\ [Next]_vars => IInv'
<1> SUFFICES ASSUME IInv, [Next]_vars PROVE IInv'
    OBVIOUS
<1>1. CASE Next
  BY <1>1, TypeStep, SessionStep, LockoutStep DEF IInv
<1>2. CASE UNCHANGED vars
  <2>1. TypeOK'
    BY TypeStep DEF IInv
  <2>2. FreshLogins' /\ StaleSessionOnlyByRace'
    BY <1>2 DEF vars, IInv, FreshLogins, StaleSessionOnlyByRace
  <2>3. SeenLockOver' /\ LockSteps' /\ ThresholdFailureLocks'
    BY <1>2 DEF vars, IInv, SeenLockOver, LockSteps, ThresholdFailureLocks
  <2>4. QED
    BY <2>1, <2>2, <2>3 DEF IInv
<1>3. QED
  BY <1>1, <1>2

THEOREM Invariance == Spec => []IInv
  BY InitInv, InvStep, PTL DEF Spec

(* No session outlives the reset or the deletion of its account, except by *)
(* a login that was under way when it committed.                           *)
THEOREM SessionsEndWithReset == Spec => []StaleSessionOnlyByRace
<1>1. IInv => StaleSessionOnlyByRace
  BY DEF IInv
<1>2. QED
  BY <1>1, Invariance, PTL

(* A wrong password at the threshold leaves the account locked for the     *)
(* whole lockout time.                                                     *)
THEOREM ThresholdLocks == Spec => []ThresholdFailureLocks
<1>1. IInv => ThresholdFailureLocks
  BY DEF IInv
<1>2. QED
  BY <1>1, Invariance, PTL

-----------------------------------------------------------------------------
(* Only CreateSession(b) makes the row of b.                               *)
LEMMA OnlyCreateInserts ==
  ASSUME TypeOK, Next, NEW b \in Attempts,
         session[b].row = "absent", session'[b].row # "absent"
  PROVE  CreateSession(b)
<1>0. session \in [Attempts -> SessionRow]
  BY DEF TypeOK
<1>1. ASSUME NEW u, InvalidateAllForUser(u) PROVE FALSE
  BY <1>0, <1>1 DEF InvalidateAllForUser, SessionsOf, SessionRow
<1>2. ASSUME NEW a \in Attempts, LoginStep(a) PROVE CreateSession(b)
  <2>1. CASE CreateSession(a)
    BY <1>0, <2>1 DEF CreateSession
  <2>2. CASE ~CreateSession(a)
    <3>1. session' = session
      BY <1>2, <2>2 DEF LoginStep, LoginRefuse, LoginCompare, FailIncrement, FailLock,
                        FailClear, LoginClear, SessionCreationFailed
    <3>2. QED
      BY <3>1
  <2>3. QED
    BY <2>1, <2>2
<1>3. ASSUME NEW a \in Attempts, Logout(a) PROVE FALSE
  BY <1>0, <1>3 DEF Logout, SessionRow
<1>4. ASSUME NEW a \in Attempts, ValidateSweep(a) PROVE FALSE
  BY <1>1, <1>4 DEF ValidateSweep
<1>5. ASSUME NEW r \in Resets, ResetCommit(r) PROVE FALSE
  BY <1>1, <1>5 DEF ResetCommit
<1>6. ASSUME NEW u \in Users, DeleteAccount(u) PROVE FALSE
  BY <1>1, <1>6 DEF DeleteAccount
<1>7. ASSUME session' = session PROVE FALSE
  BY <1>7
<1>8. ASSUME NEW t \in Tokens, RequestRecovery(t) PROVE FALSE
  BY <1>7, <1>8 DEF RequestRecovery
<1>9. ASSUME NEW r \in Resets, ResetRefuse(r) \/ ResetHash(r) PROVE FALSE
  BY <1>7, <1>9 DEF ResetRefuse, ResetHash
<1>10. ASSUME NEW u \in Users, Suspend(u) PROVE FALSE
  BY <1>7, <1>10 DEF Suspend
<1>11. ASSUME Crash \/ Tick PROVE FALSE
  BY <1>7, <1>11 DEF Crash, Tick
<1>12. QED
  BY <1>2, <1>3, <1>4, <1>5, <1>6, <1>8, <1>9, <1>10, <1>11 DEF Next

(* A login that succeeds under a lock read the row before that lock.       *)
THEOREM LockBarsLogins == Spec => LockedLoginOnlyByRace
<1>1. IInv /\ [Next]_vars => [LockedLoginStep]_vars
  <2> SUFFICES ASSUME IInv, Next, NEW b \in Attempts,
                      session[b].row = "absent", session'[b].row # "absent",
                      LockedOut(login[b].user)
               PROVE  login[b].seenLock < lockedUntil[login[b].user]
      BY DEF LockedLoginStep
  <2>1. login[b].pc = "session"
    BY OnlyCreateInserts DEF IInv, CreateSession
  <2>2. login[b].seenLock <= now
    BY <2>1 DEF IInv, SeenLockOver, InFlight
  <2>3. now \in Nat /\ lockedUntil[login[b].user] \in Nat /\ login[b].seenLock \in Nat
    BY DEF IInv, TypeOK, LoginHandler
  <2>4. QED
    BY <2>2, <2>3 DEF LockedOut
<1>2. QED
  BY <1>1, Invariance, PTL DEF Spec, LockedLoginOnlyByRace

(* The profile's count of active sessions agrees with validateSession.     *)
THEOREM CountAgrees == Spec => []CountMatchesValidation
<1>1. ASSUME TypeOK PROVE CountMatchesValidation
  <2> SUFFICES ASSUME NEW u \in Users, status[u] = "active"
               PROVE  {a \in SessionsOf(u) : session[a].expiresAt > now}
                        = {a \in Attempts : login[a].user = u /\ Validity(a) = "valid"}
      BY Zenon DEF CountMatchesValidation, CountActiveForUser
  <2>1. ASSUME NEW a \in Attempts, login[a].user = u
        PROVE  session[a].row = "active" /\ session[a].expiresAt > now <=> Validity(a) = "valid"
    <3>1. session[a].row \in {"absent", "active", "invalidated"}
            /\ session[a].expiresAt \in Nat /\ now \in Nat
      BY <1>1 DEF TypeOK, SessionRow
    <3>2. QED
      BY <2>1, <3>1 DEF Validity
  <2>2. QED
    BY <2>1 DEF SessionsOf
<1>2. QED
  BY <1>1, TypeCorrect, PTL

=============================================================================
