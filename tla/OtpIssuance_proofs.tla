-------------------------- MODULE OtpIssuance_proofs --------------------------
(***************************************************************************)
(* Proofs about OtpIssuance, for any users, requests, quota, window and    *)
(* faults: the attempt numbers, which code works, what a code may do, and  *)
(* how many are granted in a window.                                       *)
(***************************************************************************)
EXTENDS OtpIssuance, FiniteSetTheorems, TLAPS

(* The attempt numbers a user's rows have.                                 *)
Sequences(u) == {otp[s].sequence : s \in RowsOf(u)}

(* The row of a send is inserted by its last database step.                *)
Unmade == {"idle", "incr", "expire", "counted"} \cup MidSend

(* The numbers of a user have no gap, and a number that was read leaves    *)
(* none.  (Two handlers that overlap may use one number twice.)            *)
NumberInv ==
  /\ \A s \in Sends : send[s].pc \in Unmade => otp[s].row = "absent"
  /\ \A v \in Verifies : verify[v].pc = "matched" =>
       /\ verify[v].code \in Sends /\ otp[verify[v].code].row # "absent"
       /\ send[verify[v].code].user = verify[v].user
  /\ \A u \in Users : \A n \in Sequences(u) : 1 .. n \subseteq Sequences(u)
  /\ \A s \in Sends : send[s].pc = "create" =>
       /\ send[s].sequence > 0
       /\ 1 .. (send[s].sequence - 1) \subseteq Sequences(send[s].user)

(* At most one handler is between two database calls.                      *)
TurnInv ==
  ~overlap =>
    /\ \A r, s \in Sends : send[r].pc \in MidSend /\ send[s].pc \in MidSend => r = s
    /\ \A v, w \in Verifies : verify[v].pc = "matched" /\ verify[w].pc = "matched" => v = w
    /\ \A s \in Sends, v \in Verifies : ~(send[s].pc \in MidSend /\ verify[v].pc = "matched")

(* The number that was read is still the next one.                         *)
FreshInv ==
  ~overlap =>
    \A s \in Sends : send[s].pc = "create" =>
      \A r \in RowsOf(send[s].user) : otp[r].sequence < send[s].sequence

(* A code that matched still works, for an account that is not deleted;    *)
(* one that activated an account never will again.                         *)
CodeInv ==
  ~overlap =>
    \A v \in Verifies :
      /\ verify[v].pc = "matched" =>
           /\ verify[v].code \in Sends /\ otp[verify[v].code].row = "active"
           /\ status[verify[v].user] # "deleted"
      /\ verify[v].pc = "activated" =>
           verify[v].code \in Sends /\ otp[verify[v].code].row = "invalidated"

IInv ==
  /\ TypeOK /\ NumberInv /\ TurnInv
  /\ FreshInv /\ ActiveIsNewest
  /\ CodeInv /\ CodeUsedOnce
  /\ CodeSurvives /\ CounterExpires

-----------------------------------------------------------------------------
(* The attempt number.                                                     *)

(* A finite non-empty set of integers has a least one: the initial         *)
(* segments of the set are well-founded by strict inclusion.               *)
LEMMA LeastExists ==
  ASSUME NEW T \in SUBSET Int, IsFiniteSet(T), T # {}
  PROVE  \E n \in T : \A m \in T : n <= m
<1> DEFINE Upto(k) == {m \in T : m <= k}
           Segments == {Upto(k) : k \in T}
           R == StrictSubsetOrdering(T)
<1>1. IsWellFoundedOn(R, FiniteSubsetsOf(T))
  BY FS_StrictSubsetOrderingWellFounded
<1>2. Segments \subseteq FiniteSubsetsOf(T) /\ Segments # {}
  <2>1. \A k \in T : IsFiniteSet(Upto(k))
    BY FS_Subset
  <2> QED BY <2>1 DEF FiniteSubsetsOf
<1>3. \E x \in Segments : \A y \in Segments : <<y, x>> \notin R
  <2> HIDE DEF R, Segments
  <2> QED BY <1>1, <1>2, WFMin
<1>4. PICK x \in T : \A y \in T : <<Upto(y), Upto(x)>> \notin R
  BY <1>3
<1>5. ASSUME NEW y \in T, y < x PROVE FALSE
  <2>1. Upto(y) \subseteq Upto(x)
    <3>1. ASSUME NEW m \in T, m <= y PROVE m <= x
      <4>1. m \in Int /\ y \in Int /\ x \in Int
        OBVIOUS
      <4> QED BY <1>5, <3>1, <4>1
    <3> QED BY <3>1
  <2>2. x \in Upto(x) /\ x \notin Upto(y)
    BY <1>5
  <2>3. <<Upto(y), Upto(x)>> \in R
    BY <2>1, <2>2 DEF StrictSubsetOrdering
  <2> QED BY <1>4, <2>3
<1> QED BY <1>5

(* Numbers without a gap are at most as large as there are requests.       *)
LEMMA SequenceBounded ==
  ASSUME TypeOK, NEW u \in Users, NEW n \in Nat, 1 .. n \subseteq Sequences(u)
  PROVE  n <= Cardinality(Sends)
<1> USE OtpAssumption
<1> DEFINE g == [m \in 1 .. n |-> CHOOSE s \in RowsOf(u) : otp[s].sequence = m]
<1>1. \A m \in 1 .. n : \E s \in RowsOf(u) : otp[s].sequence = m
  BY DEF Sequences
<1>2. \A m \in 1 .. n : g[m] \in RowsOf(u) /\ otp[g[m]].sequence = m
  BY <1>1
<1>3. g \in [1 .. n -> Sends]
  BY <1>2 DEF RowsOf
<1>4. \A k, m \in 1 .. n : g[k] = g[m] => k = m
  BY <1>2
<1> HIDE DEF g
<1>5. g \in Injection(1 .. n, Sends)
  BY <1>3, <1>4 DEF Injection, IsInjective
<1>6. Cardinality(1 .. n) <= Cardinality(Sends)
  BY <1>5, FS_Injection
<1>7. Cardinality(1 .. n) = IF 1 > n THEN 0 ELSE n - 1 + 1
  BY FS_Interval, 1 \in Int, n \in Int
<1>8. Cardinality(Sends) \in Nat
  BY FS_CardinalityType
<1> QED BY <1>6, <1>7, <1>8

(* MAX(attempt_sequence) + 1: larger than every number of the user, and    *)
(* leaving no gap.                                                         *)
LEMMA NextSequenceIsNext ==
  ASSUME TypeOK, NumberInv, NEW u \in Users
  PROVE  /\ NextSequence(u) \in Nat \ {0}
         /\ \A s \in RowsOf(u) : otp[s].sequence < NextSequence(u)
         /\ 1 .. (NextSequence(u) - 1) \subseteq Sequences(u)
<1> USE OtpAssumption
<1> DEFINE c == Cardinality(Sends)
           T == (1 .. c + 1) \ Sequences(u)
           Next1(n) == /\ \A s \in RowsOf(u) : otp[s].sequence < n
                       /\ n = 1 \/ \E s \in RowsOf(u) : otp[s].sequence = n - 1
<1>1. c \in Nat
  BY FS_CardinalityType
<1>2. /\ \A s \in RowsOf(u) : otp[s].sequence \in Nat \ {0} /\ otp[s].sequence \in Sequences(u)
      /\ Sequences(u) \subseteq Nat \ {0}
  BY DEF Sequences, RowsOf, TypeOK, OtpRow
<1>3. \A n \in Sequences(u) : n <= c /\ 1 .. n \subseteq Sequences(u)
  BY <1>2, SequenceBounded DEF NumberInv
<1>4. c + 1 \in T
  BY <1>1, <1>2, <1>3
<1>5. IsFiniteSet(T)
  <2>1. 1 \in Int /\ c + 1 \in Int
    BY <1>1
  <2>2. IsFiniteSet(1 .. c + 1)
    BY <2>1, FS_Interval
  <2> QED BY <2>2, FS_Subset
<1>6. PICK n \in T : \A m \in T : n <= m
  BY <1>4, <1>5, LeastExists
<1>7. n \in 1 .. c + 1 /\ Next1(n)
  <2>1. \A m \in Sequences(u) : m < n
    <3> SUFFICES ASSUME NEW m \in Sequences(u), n <= m PROVE FALSE
      BY <1>1, <1>2
    <3>1. n \in 1 .. m
      BY <1>1, <1>2
    <3> QED BY <1>3, <3>1
  <2>2. n = 1 \/ n - 1 \in Sequences(u)
    <3> SUFFICES ASSUME n # 1, n - 1 \notin Sequences(u) PROVE FALSE
      OBVIOUS
    <3>1. n - 1 \in T
      BY <1>1
    <3> QED BY <1>1, <1>6, <3>1
  <2> QED BY <1>2, <2>1, <2>2 DEF Sequences
<1>8. NextSequence(u) \in 1 .. c + 1 /\ Next1(NextSequence(u))
  <2>1. NextSequence(u) = CHOOSE k \in 1 .. c + 1 : Next1(k)
    BY DEF NextSequence
  <2> HIDE DEF Next1
  <2> QED BY <1>7, <2>1
<1>9. 1 .. (NextSequence(u) - 1) \subseteq Sequences(u)
  <2>1. CASE NextSequence(u) = 1
    BY <2>1
  <2>2. CASE NextSequence(u) # 1
    BY <1>3, <1>8, <2>2 DEF Sequences
  <2> QED BY <2>1, <2>2
<1> QED BY <1>1, <1>8, <1>9

-----------------------------------------------------------------------------
(* The initial states.                                                     *)

LEMMA InitInv == Init => IInv
<1> SUFFICES ASSUME Init PROVE IInv
  OBVIOUS
<1> USE OtpAssumption
<1>1. PICK u \in [Sends -> Users] :
        send = [s \in Sends |-> [pc |-> "idle", user |-> u[s], count |-> 0,
                                 countedAt |-> 0, sequence |-> 0]]
  BY DEF Init
<1>2. PICK w \in [Verifies -> Users] :
        verify = [v \in Verifies |-> [pc |-> "idle", user |-> w[v], code |-> Nobody]]
  BY DEF Init
<1>3. \A s \in Sends : send[s].pc = "idle" /\ otp[s].row = "absent"
  BY <1>1 DEF Init
<1>4. \A v \in Verifies : verify[v].pc = "idle"
  BY <1>2
<1>5. \A v \in Users : RowsOf(v) = {} /\ Sequences(v) = {}
  BY <1>3 DEF RowsOf, Sequences
<1>6. TypeOK
  <2>1. status \in [Users -> {"pending", "active", "deleted"}]
    BY DEF Init
  <2>2. otp \in [Sends -> OtpRow] /\ \A s \in Sends : otp[s].row = "absent"
    BY <1>3 DEF Init, OtpRow
  <2>3. counter \in [Users -> [value : Nat, expiresAt : {NoTtl} \cup Nat]]
    BY DEF Init
  <2>4. send \in [Sends -> [pc : SendPc, user : Users, count : Nat, countedAt : Nat,
                            sequence : Nat]]
    BY <1>1 DEF SendPc
  <2>5. verify \in [Verifies -> [pc : {"idle", "matched"} \cup VerifyEnd, user : Users,
                                 code : Sends \cup {Nobody}]]
    BY <1>2
  <2> QED BY <2>1, <2>2, <2>3, <2>4, <2>5 DEF Init, TypeOK
<1>7. NumberInv
  BY <1>3, <1>4, <1>5 DEF NumberInv, MidSend
<1>8. TurnInv /\ FreshInv /\ CodeInv /\ CodeUsedOnce
  BY <1>3, <1>4 DEF TurnInv, FreshInv, CodeInv, CodeUsedOnce, MidSend
<1>9. ActiveIsNewest
  BY <1>3 DEF ActiveIsNewest
<1>10. CodeSurvives
  BY <1>5 DEF CodeSurvives
<1>11. CounterExpires
  BY DEF Init, CounterExpires
<1> QED BY <1>6, <1>7, <1>8, <1>9, <1>10, <1>11 DEF IInv

-----------------------------------------------------------------------------
(* Types.                                                                  *)

SendType == [pc : SendPc, user : Users, count : Nat, countedAt : Nat, sequence : Nat]

VerifyType == [pc : {"idle", "matched"} \cup VerifyEnd, user : Users,
               code : Sends \cup {Nobody}]

(* Goto changes one program counter.                                       *)
LEMMA GotoLeaves ==
  ASSUME TypeOK, NEW s \in Sends, NEW pc \in SendPc, Goto(s, pc)
  PROVE  /\ send' \in [Sends -> SendType]
         /\ send'[s].pc = pc /\ send'[s].user = send[s].user
         /\ send'[s].sequence = send[s].sequence
         /\ \A r \in Sends \ {s} : send'[r] = send[r]
  BY DEF Goto, TypeOK, SendType

LEMMA InvalidatedRow ==
  ASSUME NEW d \in OtpRow
  PROVE  /\ [d EXCEPT !.row = "invalidated"] \in OtpRow
         /\ [d EXCEPT !.row = "invalidated"].sequence = d.sequence
         /\ [d EXCEPT !.row = "invalidated"].row = "invalidated"
  BY DEF OtpRow

LEMMA InvalidateLeaves ==
  ASSUME TypeOK, NEW u \in Users, InvalidateActive(u)
  PROVE  /\ otp' \in [Sends -> OtpRow]
         /\ \A r \in Sends :
              /\ otp'[r].sequence = otp[r].sequence
              /\ otp'[r].row = IF r \in ActiveOf(u) THEN "invalidated" ELSE otp[r].row
<1>2. \A r \in Sends : /\ otp[r] \in OtpRow
                       /\ otp'[r] = IF r \in ActiveOf(u)
                                    THEN [otp[r] EXCEPT !.row = "invalidated"] ELSE otp[r]
  BY DEF InvalidateActive, TypeOK
<1>3. \A r \in Sends : otp'[r] \in OtpRow
  BY <1>2, InvalidatedRow
<1>4. otp' \in [Sends -> OtpRow]
  BY <1>3 DEF InvalidateActive
<1> QED BY <1>2, <1>4, InvalidatedRow

(* The users, the rows and the turn that every step leaves alone.          *)
Keeps ==
  /\ overlap' = overlap
  /\ \A r \in Sends : send'[r].user = send[r].user
  /\ \A v \in Verifies : verify'[v].user = verify[v].user

LEMMA TypeNext == TypeOK /\ NumberInv /\ [Next]_vars => TypeOK' /\ Keeps
<1> SUFFICES ASSUME TypeOK, NumberInv, [Next]_vars PROVE TypeOK' /\ Keeps
  OBVIOUS
<1> USE OtpAssumption DEF ghosts
<1>0. UNCHANGED vars => TypeOK' /\ Keeps
  BY DEF vars, TypeOK, Keeps
<1>1. ASSUME NEW s \in Sends, NEW pc \in SendPc, Goto(s, pc),
             UNCHANGED <<status, otp, verify, now, overlap>>,
             counter' \in [Users -> [value : Nat, expiresAt : {NoTtl} \cup Nat]],
             orphaned' \subseteq Users, faults' \in Nat
      PROVE  TypeOK' /\ Keeps
  <2>1. send' \in [Sends -> SendType] /\ \A r \in Sends : send'[r].user = send[r].user
    BY <1>1, GotoLeaves
  <2> QED BY <1>1, <2>1 DEF TypeOK, Keeps, SendType
<1>2. ASSUME NEW s \in Sends,
             SendForbidden(s) \/ SendStart(s) \/ SendLimited(s) \/ CreateConflict(s)
      PROVE  TypeOK' /\ Keeps
  <2>1. PICK pc \in SendPc : Goto(s, pc)
    BY <1>2 DEF SendForbidden, SendStart, SendLimited, CreateConflict, SendPc, SendEnd
  <2>2. UNCHANGED <<status, otp, counter, verify, now, faults, orphaned, overlap>>
    BY <1>2 DEF SendForbidden, SendStart, SendLimited, CreateConflict
  <2> QED BY <1>1, <2>1, <2>2 DEF TypeOK
<1>3. ASSUME NEW u \in Users PROVE Incremented(u) \in [value : Nat, expiresAt : {NoTtl} \cup Nat]
  BY DEF Incremented, TypeOK
<1>4. ASSUME NEW s \in Sends, Incr(s) PROVE TypeOK' /\ Keeps
  <2> DEFINE u == send[s].user
             pc == IF Incremented(u).value = 1 THEN "expire" ELSE "counted"
  <2>1. u \in Users /\ pc \in SendPc
    BY DEF TypeOK, SendPc
  <2>2. Incremented(u).value \in Nat /\ now \in Nat
    BY <1>3, <2>1 DEF TypeOK
  <2>3. send' = [send EXCEPT ![s].pc = pc, ![s].count = Incremented(u).value,
                             ![s].countedAt = now]
    BY <1>4 DEF Incr
  <2> HIDE DEF pc
  <2>9. send'[s] \in SendType
    <3>1. send[s] \in SendType
      BY DEF TypeOK, SendType
    <3>2. send'[s] = [send[s] EXCEPT !.pc = pc, !.count = Incremented(u).value, !.countedAt = now]
      BY <2>3 DEF TypeOK
    <3>3. send'[s] = [pc |-> pc, user |-> send[s].user, count |-> Incremented(u).value,
                      countedAt |-> now, sequence |-> send[s].sequence]
      BY <3>1, <3>2 DEF SendType
    <3>4. send[s].user \in Users /\ send[s].sequence \in Nat
      BY <3>1 DEF SendType
    <3> QED BY <2>1, <2>2, <3>3, <3>4 DEF SendType
  <2>4. send' \in [Sends -> SendType]
    BY <2>3, <2>9 DEF TypeOK, SendType
  <2>5. \A r \in Sends : send'[r].user = send[r].user
    BY <2>3 DEF TypeOK
  <2>6. counter' \in [Users -> [value : Nat, expiresAt : {NoTtl} \cup Nat]]
    BY <1>3, <1>4, <2>1 DEF Incr, TypeOK
  <2>7. UNCHANGED <<status, otp, verify, now, faults, orphaned, overlap>>
    BY <1>4 DEF Incr
  <2> QED BY <2>4, <2>5, <2>6, <2>7 DEF TypeOK, Keeps, SendType
<1>5. ASSUME NEW s \in Sends, IncrReplyLost(s) PROVE TypeOK' /\ Keeps
  <2>1. send[s].user \in Users
    BY DEF TypeOK
  <2>2. counter' \in [Users -> [value : Nat, expiresAt : {NoTtl} \cup Nat]]
    BY <1>3, <1>5, <2>1 DEF IncrReplyLost, TypeOK
  <2>3. orphaned' \subseteq Users /\ faults' \in Nat
    BY <1>5, <2>1 DEF IncrReplyLost, TypeOK
  <2> QED BY <1>5, <2>2, <2>3 DEF IncrReplyLost, TypeOK, Keeps
<1>6. ASSUME NEW s \in Sends, Expire(s) PROVE TypeOK' /\ Keeps
  <2>1. counter' \in [Users -> [value : Nat, expiresAt : {NoTtl} \cup Nat]]
    BY <1>6 DEF Expire, TypeOK
  <2>2. "counted" \in SendPc /\ orphaned' \subseteq Users
    BY <1>6 DEF Expire, SendPc, TypeOK
  <2> QED BY <1>1, <1>6, <2>1, <2>2 DEF Expire, TypeOK
<1>7. ASSUME NEW s \in Sends, RedisFails(s) PROVE TypeOK' /\ Keeps
  <2>1. "aborted" \in SendPc /\ orphaned' \subseteq Users /\ faults' \in Nat
    BY <1>7 DEF RedisFails, SendPc, SendEnd, TypeOK
  <2> QED BY <1>1, <1>7, <2>1 DEF RedisFails, TypeOK
<1>8. ASSUME NEW s \in Sends, Invalidate(s) PROVE TypeOK' /\ Keeps
  <2>1. "sequence" \in SendPc /\ send[s].user \in Users
    BY DEF SendPc, MidSend, TypeOK
  <2>2. send' \in [Sends -> SendType] /\ \A r \in Sends : send'[r].user = send[r].user
    BY <1>8, <2>1, GotoLeaves DEF Invalidate
  <2>3. /\ otp' \in [Sends -> OtpRow]
        /\ \A r \in Sends :
             /\ otp'[r].sequence = otp[r].sequence
             /\ otp'[r].row = IF r \in ActiveOf(send[s].user) THEN "invalidated" ELSE otp[r].row
    BY <1>8, <2>1, InvalidateLeaves DEF Invalidate
  <2>4. \A r \in Sends : otp'[r].row # "absent" => otp'[r].sequence > 0
    BY <2>3 DEF ActiveOf, TypeOK
  <2> QED BY <1>8, <2>2, <2>3, <2>4 DEF Invalidate, TypeOK, Keeps, SendType
<1>9. ASSUME NEW s \in Sends, Sequence(s) PROVE TypeOK' /\ Keeps
  <2>1. NextSequence(send[s].user) \in Nat /\ "create" \in SendPc
    BY NextSequenceIsNext DEF TypeOK, SendPc, MidSend
  <2>2. send' \in [Sends -> SendType] /\ \A r \in Sends : send'[r].user = send[r].user
    BY <1>9, <2>1 DEF Sequence, TypeOK, SendType
  <2> QED BY <1>9, <2>2 DEF Sequence, TypeOK, Keeps, SendType
<1>10. ASSUME NEW s \in Sends, Create(s) PROVE TypeOK' /\ Keeps
  <2>1. "dispatch" \in SendPc /\ send[s].sequence \in Nat /\ send[s].sequence > 0
    BY <1>10 DEF Create, SendPc, TypeOK, NumberInv
  <2>2. send' \in [Sends -> SendType] /\ \A r \in Sends : send'[r].user = send[r].user
    BY <1>10, <2>1, GotoLeaves DEF Create
  <2>3. otp' \in [Sends -> OtpRow] /\ \A r \in Sends : otp'[r].row # "absent" => otp'[r].sequence > 0
    BY <1>10, <2>1 DEF Create, TypeOK, OtpRow
  <2> QED BY <1>10, <2>2, <2>3 DEF Create, TypeOK, Keeps, SendType
<1>11. ASSUME NEW s \in Sends, NEW outcome \in {"delivered", "failed"}, Dispatched(s, outcome)
       PROVE  TypeOK' /\ Keeps
  <2>1. outcome \in SendPc
    BY DEF SendPc, SendEnd
  <2>2. send' \in [Sends -> SendType] /\ \A r \in Sends : send'[r].user = send[r].user
    BY <1>11, <2>1, GotoLeaves DEF Dispatched
  <2>3. otp' \in [Sends -> OtpRow] /\ \A r \in Sends : otp'[r].row # "absent" => otp'[r].sequence > 0
    BY <1>11 DEF Dispatched, TypeOK, OtpRow
  <2> QED BY <1>11, <2>2, <2>3 DEF Dispatched, TypeOK, Keeps, SendType
<1>12. ASSUME NEW v \in Verifies, NEW code \in Sends \cup {Nobody}, VerifyRead(v, code)
       PROVE  TypeOK' /\ Keeps
  <2> DEFINE result == VerifyResult(verify[v].user, code)
  <2>1. result \in {"matched"} \cup VerifyEnd
    BY DEF VerifyResult, VerifyEnd
  <2>2. verify' = [verify EXCEPT ![v].pc = result,
                                 ![v].code = IF result = "matched" THEN code ELSE Nobody]
    BY <1>12 DEF VerifyRead
  <2> HIDE DEF result
  <2>3. verify' \in [Verifies -> VerifyType] /\ \A w \in Verifies : verify'[w].user = verify[w].user
    BY <2>1, <2>2 DEF TypeOK, VerifyType
  <2> QED BY <1>12, <2>3 DEF VerifyRead, TypeOK, Keeps, VerifyType
<1>13. ASSUME NEW v \in Verifies, VerifyCommit(v) PROVE TypeOK' /\ Keeps
  <2>1. verify' \in [Verifies -> VerifyType] /\ \A w \in Verifies : verify'[w].user = verify[w].user
    BY <1>13 DEF VerifyCommit, VerifyEnd, TypeOK, VerifyType
  <2>4. verify[v].code \in Sends /\ otp[verify[v].code].row # "absent"
    BY <1>13 DEF VerifyCommit, NumberInv
  <2>2. otp' \in [Sends -> OtpRow] /\ \A r \in Sends :
          /\ otp'[r].sequence = otp[r].sequence
          /\ otp'[r].row # "absent" => otp[r].row # "absent"
    <3>1. \A r \in Sends : otp[r] \in OtpRow
      BY DEF TypeOK
    <3>2. \A r \in Sends : otp'[r] = IF r = verify[v].code
                                     THEN [otp[r] EXCEPT !.row = "invalidated"] ELSE otp[r]
      BY <1>13, <2>4 DEF VerifyCommit, TypeOK
    <3>3. \A r \in Sends : otp'[r] \in OtpRow
      BY <3>1, <3>2, InvalidatedRow
    <3>4. otp' \in [Sends -> OtpRow]
      BY <1>13, <3>3 DEF VerifyCommit, TypeOK
    <3> QED BY <2>4, <3>1, <3>2, <3>4, InvalidatedRow
  <2>3. status' \in [Users -> {"pending", "active", "deleted"}]
    BY <1>13 DEF VerifyCommit, TypeOK
  <2>5. \A r \in Sends : otp'[r].row # "absent" => otp'[r].sequence > 0
    BY <2>2 DEF TypeOK
  <2> QED BY <1>13, <2>1, <2>2, <2>3, <2>5 DEF VerifyCommit, TypeOK, Keeps, VerifyType
<1>14. ASSUME NEW u \in Users, DeleteAccount(u) PROVE TypeOK' /\ Keeps
  BY <1>14 DEF DeleteAccount, TypeOK, Keeps
<1>15. ASSUME Crash PROVE TypeOK' /\ Keeps
  <2>1. send' \in [Sends -> SendType] /\ \A r \in Sends : send'[r].user = send[r].user
    BY <1>15 DEF Crash, TypeOK, SendType, SendPc, SendEnd
  <2>2. verify' \in [Verifies -> VerifyType] /\ \A w \in Verifies : verify'[w].user = verify[w].user
    BY <1>15 DEF Crash, TypeOK, VerifyType, VerifyEnd
  <2>3. orphaned' \subseteq Users /\ faults' \in Nat
    BY <1>15 DEF Crash, TypeOK
  <2> QED BY <1>15, <2>1, <2>2, <2>3 DEF Crash, TypeOK, Keeps, SendType, VerifyType
<1>16. ASSUME Tick PROVE TypeOK' /\ Keeps
  BY <1>16 DEF Tick, TypeOK, Keeps
<1> QED BY <1>0, <1>2, <1>4, <1>5, <1>6, <1>7, <1>8, <1>9, <1>10, <1>11, <1>12, <1>13, <1>14,
           <1>15, <1>16 DEF Next, SendStep

-----------------------------------------------------------------------------
(* The codes.                                                              *)

Core ==
  /\ NumberInv /\ TurnInv
  /\ FreshInv /\ ActiveIsNewest
  /\ CodeInv /\ CodeUsedOnce
  /\ CodeSurvives

(* Steps that no code, no number and no turn depends on: they neither make *)
(* nor end a row, and no handler gets between two database calls.          *)
Silent ==
  /\ Keeps
  /\ \A r \in Sends : otp'[r].row = otp[r].row /\ otp'[r].sequence = otp[r].sequence
  /\ \A r \in Sends :
       /\ send'[r].pc \in MidSend =>
            send'[r].pc = send[r].pc /\ send'[r].sequence = send[r].sequence
       /\ send'[r].pc \in Unmade => send[r].pc \in Unmade
       /\ send[r].pc \in MidSend \cup {"aborted"} =>
            send'[r].pc \in MidSend \cup {"aborted"} \/ ActiveOf(send[r].user) # {}
  /\ \A w \in Verifies :
       /\ verify'[w].pc \in {"matched", "activated"} => verify'[w] = verify[w]
       /\ verify[w].pc = "activated" => verify'[w].pc = "activated"
  /\ \A u \in Users :
       \/ status'[u] = status[u]
       \/ status'[u] = "deleted" /\ (~overlap => \A w \in Verifies : verify[w].pc # "matched")

LEMMA SilentSteps ==
  ASSUME TypeOK, [Next]_vars, Keeps,
         \A s \in Sends : ~Invalidate(s) /\ ~Sequence(s) /\ ~Create(s),
         \A v \in Verifies : ~VerifyCommit(v),
         \A v \in Verifies, code \in Sends \cup {Nobody} :
           ~(VerifyRead(v, code) /\ VerifyResult(verify[v].user, code) = "matched")
  PROVE  Silent
<1> USE DEF ghosts
<1>0. ASSUME UNCHANGED <<status, otp, verify>>,
             \A r \in Sends :
               /\ send'[r].pc \in MidSend =>
                    send'[r].pc = send[r].pc /\ send'[r].sequence = send[r].sequence
               /\ send'[r].pc \in Unmade => send[r].pc \in Unmade
               /\ send[r].pc \in MidSend \cup {"aborted"} =>
                    send'[r].pc \in MidSend \cup {"aborted"} \/ ActiveOf(send[r].user) # {}
      PROVE  Silent
  BY <1>0 DEF Silent
<1>1. ASSUME NEW s \in Sends, NEW pc \in SendPc, Goto(s, pc), UNCHANGED <<status, otp, verify>>,
             pc \notin MidSend, pc \in Unmade => send[s].pc \in Unmade,
             send[s].pc \in MidSend \cup {"aborted"} => ActiveOf(send[s].user) # {}
      PROVE  Silent
  BY <1>0, <1>1, GotoLeaves
<1>2. ASSUME NEW s \in Sends, SendForbidden(s) \/ SendStart(s) PROVE Silent
  BY <1>1, <1>2 DEF SendForbidden, SendStart, SendPc, SendEnd, MidSend, Unmade
<1>3. ASSUME NEW s \in Sends, SendLimited(s) PROVE Silent
  BY <1>1, <1>3 DEF SendLimited, SendPc, SendEnd, MidSend, Unmade
<1>4. ASSUME NEW s \in Sends, CreateConflict(s) PROVE Silent
  BY <1>1, <1>4 DEF CreateConflict, SendPc, SendEnd, MidSend, Unmade
<1>5. ASSUME NEW s \in Sends, Expire(s) \/ RedisFails(s) PROVE Silent
  BY <1>1, <1>5 DEF Expire, RedisFails, SendPc, SendEnd, MidSend, Unmade
<1>6. ASSUME NEW s \in Sends, Incr(s) PROVE Silent
  <2>1. /\ send[s].pc = "incr" /\ send'[s].pc \in {"expire", "counted"}
        /\ \A r \in Sends \ {s} : send'[r] = send[r]
    BY <1>6 DEF Incr, TypeOK
  <2>2. UNCHANGED <<status, otp, verify>>
    BY <1>6 DEF Incr
  <2> QED BY <1>0, <2>1, <2>2 DEF MidSend, Unmade
<1>7. ASSUME NEW s \in Sends, IncrReplyLost(s) PROVE Silent
  BY <1>0, <1>7 DEF IncrReplyLost
<1>8. ASSUME NEW s \in Sends, NEW outcome \in {"delivered", "failed"}, Dispatched(s, outcome)
      PROVE  Silent
  <2>1. outcome \in SendPc /\ outcome \notin MidSend \cup Unmade
    BY DEF SendPc, SendEnd, MidSend, Unmade
  <2>2. /\ send'[s].pc = outcome /\ send[s].pc = "dispatch"
        /\ \A r \in Sends \ {s} : send'[r] = send[r]
    BY <1>8, <2>1, GotoLeaves DEF Dispatched
  <2>3. \A r \in Sends : otp'[r].row = otp[r].row /\ otp'[r].sequence = otp[r].sequence
    BY <1>8 DEF Dispatched, TypeOK, OtpRow
  <2>4. UNCHANGED <<status, verify>>
    BY <1>8 DEF Dispatched
  <2> QED BY <2>1, <2>2, <2>3, <2>4 DEF Silent, MidSend
<1>9. ASSUME NEW v \in Verifies, NEW code \in Sends \cup {Nobody}, VerifyRead(v, code)
      PROVE  Silent
  <2> DEFINE result == VerifyResult(verify[v].user, code)
  <2>1. result \in {"notFound", "expired", "invalid"}
    BY <1>9 DEF VerifyResult
  <2>2. verify[v].pc = "idle" /\ UNCHANGED <<status, otp, send>>
    BY <1>9 DEF VerifyRead
  <2>3. verify'[v].pc = result /\ \A w \in Verifies \ {v} : verify'[w] = verify[w]
    BY <1>9 DEF VerifyRead, TypeOK
  <2> HIDE DEF result
  <2> QED BY <2>1, <2>2, <2>3 DEF Silent
<1>10. ASSUME NEW u \in Users, DeleteAccount(u) PROVE Silent
  <2>1. UNCHANGED <<otp, send, verify>>
    BY <1>10 DEF DeleteAccount
  <2>2. \A w \in Users : status'[w] = status[w] \/ status'[w] = "deleted"
    BY <1>10 DEF DeleteAccount, TypeOK
  <2>3. ~overlap => \A w \in Verifies : verify[w].pc # "matched"
    BY <1>10 DEF DeleteAccount, TypeOK
  <2> QED BY <2>1, <2>2, <2>3 DEF Silent
<1>11. ASSUME Crash PROVE Silent
  <2>1. \A r \in Sends : \/ send'[r] = send[r] /\ send[r].pc \in {"idle"} \cup SendEnd
                         \/ send'[r].pc = "aborted"
    BY <1>11 DEF Crash, TypeOK
  <2>2. \A w \in Verifies : \/ verify'[w] = verify[w]
                            \/ verify[w].pc = "matched" /\ verify'[w].pc = "aborted"
    BY <1>11 DEF Crash, TypeOK
  <2>3. UNCHANGED <<status, otp>>
    BY <1>11 DEF Crash
  <2> QED BY <2>1, <2>2, <2>3 DEF Silent, SendEnd, MidSend, Unmade
<1>12. ASSUME Tick PROVE Silent
  BY <1>0, <1>12 DEF Tick
<1>13. ASSUME UNCHANGED vars PROVE Silent
  BY <1>0, <1>13 DEF vars
<1> QED BY <1>2, <1>3, <1>4, <1>5, <1>6, <1>7, <1>8, <1>9, <1>10, <1>11, <1>12, <1>13
        DEF Next, SendStep

(* Rows and numbers stay if no step touches them.                          *)
LEMMA SameRows ==
  ASSUME Keeps, NEW u \in Users,
         \A r \in Sends : otp'[r].row = otp[r].row /\ otp'[r].sequence = otp[r].sequence
  PROVE  RowsOf(u)' = RowsOf(u) /\ ActiveOf(u)' = ActiveOf(u) /\ Sequences(u)' = Sequences(u)
<1>1. RowsOf(u)' = RowsOf(u) /\ ActiveOf(u)' = ActiveOf(u)
  BY DEF RowsOf, ActiveOf, Keeps
<1>2. \A s \in RowsOf(u) : s \in Sends
  BY DEF RowsOf
<1> QED BY <1>1, <1>2 DEF Sequences

LEMMA SilentPreserves == TypeOK /\ Core /\ Silent => Core'
<1> SUFFICES ASSUME TypeOK, Core, Silent PROVE Core'
  OBVIOUS
<1>1. \A u \in Users : RowsOf(u)' = RowsOf(u) /\ ActiveOf(u)' = ActiveOf(u)
                       /\ Sequences(u)' = Sequences(u)
  BY SameRows DEF Silent
<1>2. \A s \in Sends : send[s].user \in Users /\ send'[s].user = send[s].user
  BY DEF TypeOK, Silent, Keeps
<1>3. \A v \in Verifies : verify[v].user \in Users /\ verify'[v].user = verify[v].user
  BY DEF TypeOK, Silent, Keeps
<1>4. overlap' = overlap
  BY DEF Silent, Keeps
<1>5. NumberInv'
  <2>1. \A s \in Sends : send'[s].pc \in Unmade => otp'[s].row = "absent"
    BY DEF Core, NumberInv, Silent
  <2>2. \A v \in Verifies : verify'[v].pc = "matched" =>
          /\ verify'[v].code \in Sends /\ otp'[verify'[v].code].row # "absent"
          /\ send'[verify'[v].code].user = verify'[v].user
    BY <1>2 DEF Core, NumberInv, Silent
  <2>3. \A s \in Sends : send'[s].pc = "create" =>
          /\ send'[s].sequence > 0
          /\ 1 .. (send'[s].sequence - 1) \subseteq Sequences(send[s].user)'
    <3> SUFFICES ASSUME NEW s \in Sends, send'[s].pc = "create"
                 PROVE  /\ send'[s].sequence > 0
                        /\ 1 .. (send'[s].sequence - 1) \subseteq Sequences(send[s].user)'
      OBVIOUS
    <3>1. send[s].pc = "create" /\ send'[s].sequence = send[s].sequence
      BY DEF Silent, MidSend
    <3>2. Sequences(send[s].user)' = Sequences(send[s].user)
      BY <1>2 DEF Sequences, RowsOf, Silent, Keeps
    <3> QED BY <3>1, <3>2 DEF Core, NumberInv
  <2>4. \A u \in Users : \A n \in Sequences(u)' : 1 .. n \subseteq Sequences(u)'
    BY <1>1 DEF Core, NumberInv
  <2> QED BY <2>1, <2>2, <2>3, <2>4 DEF NumberInv
<1>6. TurnInv'
  <2>1. \A s \in Sends : send'[s].pc \in MidSend => send[s].pc \in MidSend
    BY DEF Silent
  <2>2. \A v \in Verifies : verify'[v].pc = "matched" => verify[v].pc = "matched"
    BY DEF Silent
  <2> QED BY <1>4, <2>1, <2>2 DEF Core, TurnInv
<1>7. FreshInv'
  <2> SUFFICES ASSUME ~overlap, NEW s \in Sends, send'[s].pc = "create",
                      NEW r \in RowsOf(send[s].user)'
               PROVE  otp'[r].sequence < send'[s].sequence
    BY <1>4 DEF FreshInv
  <2>1. send[s].pc = "create" /\ send'[s].sequence = send[s].sequence
    BY DEF Silent, MidSend
  <2>2. r \in RowsOf(send[s].user) /\ r \in Sends
    BY <1>2 DEF RowsOf, Silent
  <2> QED BY <2>1, <2>2 DEF Core, FreshInv, Silent
<1>8. ActiveIsNewest'
  <2> SUFFICES ASSUME NEW s \in Sends, ~overlap, otp'[s].row = "active",
                      NEW r \in RowsOf(send[s].user)' \ {s}
               PROVE  otp'[r].sequence < otp'[s].sequence
    BY <1>4 DEF ActiveIsNewest
  <2>1. r \in RowsOf(send[s].user) \ {s} /\ r \in Sends /\ otp[s].row = "active"
    BY <1>2 DEF RowsOf, Silent
  <2> QED BY <2>1 DEF Core, ActiveIsNewest, Silent
<1>9. CodeInv'
  <2> SUFFICES ASSUME ~overlap, NEW v \in Verifies
               PROVE  /\ verify'[v].pc = "matched" =>
                           /\ verify'[v].code \in Sends /\ otp'[verify'[v].code].row = "active"
                           /\ status'[verify'[v].user] # "deleted"
                      /\ verify'[v].pc = "activated" =>
                           /\ verify'[v].code \in Sends
                           /\ otp'[verify'[v].code].row = "invalidated"
    BY <1>4 DEF CodeInv
  <2>1. CASE verify'[v].pc \in {"matched", "activated"}
    <3>1. verify'[v] = verify[v]
      BY <2>1 DEF Silent
    <3>2. /\ verify[v].pc = "matched" =>
               /\ verify[v].code \in Sends /\ otp[verify[v].code].row = "active"
               /\ status[verify[v].user] # "deleted"
          /\ verify[v].pc = "activated" =>
               verify[v].code \in Sends /\ otp[verify[v].code].row = "invalidated"
      BY DEF Core, CodeInv
    <3>3. verify[v].pc = "matched" => status'[verify[v].user] = status[verify[v].user]
      BY <1>3 DEF Silent
    <3>4. \A c \in Sends : otp'[c].row = otp[c].row
      BY DEF Silent
    <3> QED BY <3>1, <3>2, <3>3, <3>4
  <2> QED BY <2>1
<1>10. CodeUsedOnce'
  BY <1>4 DEF Core, CodeUsedOnce, Silent
<1>11. CodeSurvives'
  <2> SUFFICES ASSUME NEW u \in Users, RowsOf(u)' # {}, ActiveOf(u)' = {}
               PROVE  \/ \E s \in Sends : /\ send'[s].user = u
                                          /\ send'[s].pc \in {"sequence", "create", "aborted"}
                      \/ \E v \in Verifies : verify'[v].user = u /\ verify'[v].pc = "activated"
    BY DEF CodeSurvives
  <2>1. RowsOf(u) # {} /\ ActiveOf(u) = {}
    BY <1>1
  <2>2. CASE \E s \in Sends : send[s].user = u /\ send[s].pc \in {"sequence", "create", "aborted"}
    BY <1>2, <2>1, <2>2 DEF Silent, MidSend
  <2>3. CASE \E v \in Verifies : verify[v].user = u /\ verify[v].pc = "activated"
    BY <1>3, <2>3 DEF Silent
  <2> QED BY <2>1, <2>2, <2>3 DEF Core, CodeSurvives
<1> QED BY <1>5, <1>6, <1>7, <1>8, <1>9, <1>10, <1>11 DEF Core

LEMMA InvalidatePreserves ==
  ASSUME TypeOK, Core, Keeps, NEW s \in Sends, Invalidate(s)
  PROVE  Core'
<1>1. /\ send[s].pc = "counted" /\ send'[s].pc = "sequence" /\ send[s].user \in Users
      /\ \A r \in Sends \ {s} : send'[r] = send[r]
      /\ UNCHANGED <<status, verify>>
  <2>1. "sequence" \in SendPc
    BY DEF SendPc, MidSend
  <2> QED BY <2>1, GotoLeaves DEF Invalidate, TypeOK
<1>2. \A r \in Sends :
        /\ otp'[r].sequence = otp[r].sequence
        /\ otp'[r].row = IF r \in ActiveOf(send[s].user) THEN "invalidated" ELSE otp[r].row
  BY <1>1, InvalidateLeaves DEF Invalidate
<1>3. \A r \in Sends :
        /\ otp'[r].row = "absent" <=> otp[r].row = "absent"
        /\ otp'[r].row = "active" => otp[r].row = "active"
        /\ otp[r].row = "invalidated" => otp'[r].row = "invalidated"
  BY <1>2 DEF ActiveOf
<1>4. \A u \in Users : RowsOf(u)' = RowsOf(u) /\ Sequences(u)' = Sequences(u)
  <2>1. \A u \in Users : RowsOf(u)' = RowsOf(u)
    BY <1>3 DEF RowsOf, Keeps
  <2>2. \A u \in Users : RowsOf(u) \subseteq Sends
    BY DEF RowsOf
  <2> QED BY <1>2, <2>1, <2>2 DEF Sequences
<1>5. overlap' = overlap /\ \A r \in Sends : send'[r].user = send[r].user
  BY DEF Keeps
<1>6. ~overlap => /\ \A r \in Sends \ {s} : send[r].pc \notin MidSend
                  /\ \A v \in Verifies : verify[v].pc # "matched"
  BY DEF Invalidate, SendTurn
<1>7. NumberInv'
  <2>1. \A r \in Sends : send'[r].pc \in Unmade => otp'[r].row = "absent"
    BY <1>1, <1>3 DEF Core, NumberInv, Unmade
  <2>2. \A v \in Verifies : verify'[v].pc = "matched" =>
          /\ verify'[v].code \in Sends /\ otp'[verify'[v].code].row # "absent"
          /\ send'[verify'[v].code].user = verify'[v].user
    BY <1>1, <1>3, <1>5 DEF Core, NumberInv
  <2>3. ASSUME NEW r \in Sends, send'[r].pc = "create"
        PROVE  /\ send'[r].sequence > 0
               /\ 1 .. (send'[r].sequence - 1) \subseteq Sequences(send[r].user)'
    <3>1. r # s /\ send'[r] = send[r] /\ send[r].user \in Users
      BY <1>1, <2>3 DEF TypeOK
    <3>2. Sequences(send[r].user)' = Sequences(send[r].user)
      BY <1>2, <1>3, <1>5 DEF Sequences, RowsOf
    <3> QED BY <2>3, <3>1, <3>2 DEF Core, NumberInv
  <2>4. \A u \in Users : \A n \in Sequences(u)' : 1 .. n \subseteq Sequences(u)'
    BY <1>4 DEF Core, NumberInv
  <2> QED BY <2>1, <2>2, <2>3, <2>4 DEF NumberInv
<1>8. TurnInv'
  BY <1>1, <1>5, <1>6 DEF TurnInv
<1>9. FreshInv'
  BY <1>1, <1>5, <1>6 DEF FreshInv, MidSend
<1>10. ActiveIsNewest'
  <2> SUFFICES ASSUME NEW t \in Sends, ~overlap, otp'[t].row = "active",
                      NEW r \in RowsOf(send[t].user)' \ {t}
               PROVE  otp'[r].sequence < otp'[t].sequence
    BY <1>5 DEF ActiveIsNewest
  <2>1. r \in RowsOf(send[t].user) \ {t} /\ r \in Sends /\ otp[t].row = "active"
    BY <1>3, <1>5 DEF RowsOf
  <2> QED BY <1>2, <2>1 DEF Core, ActiveIsNewest
<1>11. CodeInv'
  BY <1>1, <1>3, <1>5, <1>6 DEF Core, CodeInv
<1>12. CodeUsedOnce'
  BY <1>1, <1>5 DEF Core, CodeUsedOnce
<1>13. CodeSurvives'
  <2> SUFFICES ASSUME NEW u \in Users, RowsOf(u)' # {}, ActiveOf(u)' = {}
               PROVE  \/ \E r \in Sends : /\ send'[r].user = u
                                          /\ send'[r].pc \in {"sequence", "create", "aborted"}
                      \/ \E v \in Verifies : verify'[v].user = u /\ verify'[v].pc = "activated"
    BY DEF CodeSurvives
  <2>1. CASE u = send[s].user
    BY <1>1, <1>5, <2>1
  <2>2. CASE u # send[s].user
    <3>1. RowsOf(u) # {} /\ ActiveOf(u) = {}
      BY <1>2, <1>4, <1>5, <2>2 DEF ActiveOf
    <3> QED BY <1>1, <2>2, <3>1 DEF Core, CodeSurvives
  <2> QED BY <2>1, <2>2
<1> QED BY <1>7, <1>8, <1>9, <1>10, <1>11, <1>12, <1>13 DEF Core

LEMMA SequencePreserves ==
  ASSUME TypeOK, Core, Keeps, NEW s \in Sends, Sequence(s)
  PROVE  Core'
<1> DEFINE n == NextSequence(send[s].user)
<1>1. /\ send[s].pc = "sequence" /\ send'[s].pc = "create" /\ send'[s].sequence = n
      /\ send[s].user \in Users
      /\ \A r \in Sends \ {s} : send'[r] = send[r]
      /\ UNCHANGED <<status, otp, verify>>
  BY DEF Sequence, TypeOK
<1>2. /\ n \in Nat \ {0}
      /\ \A r \in RowsOf(send[s].user) : otp[r].sequence < n
      /\ 1 .. (n - 1) \subseteq Sequences(send[s].user)
  BY <1>1, NextSequenceIsNext DEF Core
<1> HIDE DEF n
<1>3. overlap' = overlap /\ \A r \in Sends : send'[r].user = send[r].user
  BY DEF Keeps
<1>4. \A u \in Users : RowsOf(u)' = RowsOf(u) /\ ActiveOf(u)' = ActiveOf(u)
                       /\ Sequences(u)' = Sequences(u)
  BY <1>1, SameRows
<1>5. \A r \in Sends : /\ RowsOf(send[r].user)' = RowsOf(send[r].user)
                       /\ Sequences(send[r].user)' = Sequences(send[r].user)
  BY <1>1, <1>3 DEF RowsOf, Sequences
<1>6. NumberInv'
  <2>1. \A r \in Sends : send'[r].pc \in Unmade => otp'[r].row = "absent"
    BY <1>1 DEF Core, NumberInv, Unmade, MidSend
  <2>2. \A v \in Verifies : verify'[v].pc = "matched" =>
          /\ verify'[v].code \in Sends /\ otp'[verify'[v].code].row # "absent"
          /\ send'[verify'[v].code].user = verify'[v].user
    BY <1>1, <1>3 DEF Core, NumberInv
  <2>3. ASSUME NEW r \in Sends, send'[r].pc = "create"
        PROVE  /\ send'[r].sequence > 0
               /\ 1 .. (send'[r].sequence - 1) \subseteq Sequences(send[r].user)'
    <3>1. CASE r = s
      BY <1>1, <1>2, <1>5, <3>1
    <3>2. CASE r # s
      BY <1>1, <1>5, <2>3, <3>2 DEF Core, NumberInv
    <3> QED BY <3>1, <3>2
  <2>4. \A u \in Users : \A m \in Sequences(u)' : 1 .. m \subseteq Sequences(u)'
    BY <1>4 DEF Core, NumberInv
  <2> QED BY <2>1, <2>2, <2>3, <2>4 DEF NumberInv
<1>7. TurnInv'
  <2>1. \A r \in Sends : send'[r].pc \in MidSend => send[r].pc \in MidSend
    BY <1>1 DEF MidSend
  <2> QED BY <1>1, <1>3, <2>1 DEF Core, TurnInv
<1>8. FreshInv'
  <2> SUFFICES ASSUME ~overlap, NEW r \in Sends, send'[r].pc = "create",
                      NEW t \in RowsOf(send[r].user)'
               PROVE  otp'[t].sequence < send'[r].sequence
    BY <1>3 DEF FreshInv
  <2>1. r = s
    BY <1>1 DEF Core, TurnInv, MidSend
  <2>2. t \in RowsOf(send[s].user)
    BY <1>5, <2>1
  <2> QED BY <1>1, <1>2, <2>1, <2>2
<1>9. ActiveIsNewest'
  <2> SUFFICES ASSUME NEW t \in Sends, ~overlap, otp[t].row = "active",
                      NEW r \in RowsOf(send[t].user)' \ {t}
               PROVE  otp[r].sequence < otp[t].sequence
    BY <1>1, <1>3 DEF ActiveIsNewest
  <2> QED BY <1>5 DEF Core, ActiveIsNewest
<1>10. CodeInv' /\ CodeUsedOnce'
  BY <1>1, <1>3 DEF Core, CodeInv, CodeUsedOnce
<1>11. CodeSurvives'
  BY <1>1, <1>3, <1>4 DEF Core, CodeSurvives
<1> QED BY <1>6, <1>7, <1>8, <1>9, <1>10, <1>11 DEF Core

LEMMA CreatePreserves ==
  ASSUME TypeOK, Core, Keeps, NEW s \in Sends, Create(s)
  PROVE  Core'
<1>0. PICK u0 \in Users, q \in Nat : u0 = send[s].user /\ q = send[s].sequence
  BY DEF TypeOK
<1>1. /\ send[s].pc = "create" /\ send'[s].pc = "dispatch"
      /\ \A r \in Sends \ {s} : send'[r] = send[r]
      /\ UNCHANGED <<status, verify>>
      /\ ActiveOf(u0) = {}
  <2>1. "dispatch" \in SendPc
    BY DEF SendPc
  <2> QED BY <1>0, <2>1, GotoLeaves DEF Create, TypeOK
<1>2. /\ otp'[s].row = "active" /\ otp'[s].sequence = q
      /\ \A r \in Sends \ {s} : otp'[r] = otp[r]
  BY <1>0 DEF Create, TypeOK
<1>3. /\ otp[s].row = "absent" /\ q > 0 /\ 1 .. (q - 1) \subseteq Sequences(u0)
  BY <1>0, <1>1 DEF Core, NumberInv, Unmade, MidSend, TypeOK
<1>4. overlap' = overlap /\ \A r \in Sends : send'[r].user = send[r].user
  BY DEF Keeps
<1>5. \A u \in Users : /\ Sequences(u) \subseteq Sequences(u)'
                       /\ Sequences(u)' \subseteq Sequences(u) \cup (IF u = u0 THEN {q} ELSE {})
  BY <1>0, <1>2, <1>3, <1>4 DEF Sequences, RowsOf
<1>6. q \in Sequences(u0)'
  BY <1>0, <1>2, <1>4 DEF Sequences, RowsOf
<1>7. NumberInv'
  <2>1. \A r \in Sends : send'[r].pc \in Unmade => otp'[r].row = "absent"
    BY <1>1, <1>2 DEF Core, NumberInv, Unmade, MidSend
  <2>2. \A v \in Verifies : verify'[v].pc = "matched" =>
          /\ verify'[v].code \in Sends /\ otp'[verify'[v].code].row # "absent"
          /\ send'[verify'[v].code].user = verify'[v].user
    BY <1>1, <1>2, <1>4 DEF Core, NumberInv
  <2>3. ASSUME NEW r \in Sends, send'[r].pc = "create"
        PROVE  /\ send'[r].sequence > 0
               /\ 1 .. (send'[r].sequence - 1) \subseteq Sequences(send[r].user)'
    <3>1. r # s /\ send'[r] = send[r]
      BY <1>1, <2>3
    <3>2. Sequences(send[r].user) \subseteq Sequences(send[r].user)'
      BY <1>2, <1>3, <1>4 DEF Sequences, RowsOf
    <3>3. send[r].sequence > 0 /\ 1 .. (send[r].sequence - 1) \subseteq Sequences(send[r].user)
      BY <2>3, <3>1 DEF Core, NumberInv
    <3> QED BY <3>1, <3>2, <3>3
  <2>4. ASSUME NEW u \in Users, NEW n \in Sequences(u)' PROVE 1 .. n \subseteq Sequences(u)'
    <3>1. CASE n \in Sequences(u)
      BY <1>5, <3>1 DEF Core, NumberInv
    <3>2. CASE n \notin Sequences(u)
      <4>1. u = u0 /\ n = q
        BY <1>5, <3>2
      <4>2. 1 .. q \subseteq (1 .. (q - 1)) \cup {q}
        BY <1>3
      <4>3. Sequences(u0) \subseteq Sequences(u0)'
        BY <1>5
      <4>4. 1 .. q \subseteq Sequences(u0)'
        BY <1>3, <1>6, <4>2, <4>3
      <4> QED BY <4>1, <4>4
    <3> QED BY <3>1, <3>2
  <2> QED BY <2>1, <2>2, <2>3, <2>4 DEF NumberInv
<1>8. TurnInv'
  <2>1. \A r \in Sends : send'[r].pc \in MidSend => send[r].pc \in MidSend
    BY <1>1 DEF MidSend
  <2> QED BY <1>1, <1>4, <2>1 DEF Core, TurnInv
<1>9. FreshInv'
  BY <1>1, <1>4 DEF Core, TurnInv, FreshInv, MidSend
<1>10. ActiveIsNewest'
  <2> SUFFICES ASSUME NEW t \in Sends, ~overlap, otp'[t].row = "active",
                      NEW r \in RowsOf(send[t].user)' \ {t}
               PROVE  otp'[r].sequence < otp'[t].sequence
    BY <1>4 DEF ActiveIsNewest
  <2>1. r \in Sends /\ otp'[r].row # "absent" /\ send[r].user = send[t].user
    BY <1>4 DEF RowsOf
  <2>2. CASE t = s
    <3>1. r \in RowsOf(u0)
      BY <1>0, <1>2, <2>1, <2>2 DEF RowsOf
    <3> QED BY <1>0, <1>1, <1>2, <2>1, <2>2, <3>1 DEF Core, FreshInv
  <2>3. CASE t # s
    <3>1. otp[t].row = "active"
      BY <1>2, <2>3
    <3>2. r # s
      BY <1>0, <1>1, <2>1, <3>1 DEF ActiveOf
    <3>3. r \in RowsOf(send[t].user) \ {t}
      BY <1>2, <2>1, <3>2 DEF RowsOf
    <3> QED BY <1>2, <2>1, <2>3, <3>1, <3>2, <3>3 DEF Core, ActiveIsNewest
  <2> QED BY <2>2, <2>3
<1>11. CodeInv'
  BY <1>1, <1>2, <1>3, <1>4 DEF Core, CodeInv
<1>12. CodeUsedOnce'
  BY <1>1, <1>4 DEF Core, CodeUsedOnce
<1>13. CodeSurvives'
  <2> SUFFICES ASSUME NEW u \in Users, RowsOf(u)' # {}, ActiveOf(u)' = {}
               PROVE  \/ \E r \in Sends : /\ send'[r].user = u
                                          /\ send'[r].pc \in {"sequence", "create", "aborted"}
                      \/ \E v \in Verifies : verify'[v].user = u /\ verify'[v].pc = "activated"
    BY DEF CodeSurvives
  <2>1. u # u0
    BY <1>0, <1>2, <1>4 DEF ActiveOf
  <2>2. RowsOf(u) # {} /\ ActiveOf(u) = {}
    BY <1>0, <1>2, <1>4, <2>1 DEF ActiveOf, RowsOf
  <2> QED BY <1>0, <1>1, <2>1, <2>2 DEF Core, CodeSurvives
<1> QED BY <1>7, <1>8, <1>9, <1>10, <1>11, <1>12, <1>13 DEF Core

LEMMA MatchPreserves ==
  ASSUME TypeOK, Core, Keeps, NEW v \in Verifies, NEW code \in Sends \cup {Nobody},
         VerifyRead(v, code), VerifyResult(verify[v].user, code) = "matched"
  PROVE  Core'
<1>1. /\ verify[v].pc = "idle" /\ verify'[v].pc = "matched" /\ verify'[v].code = code
      /\ \A w \in Verifies \ {v} : verify'[w] = verify[w]
      /\ UNCHANGED <<status, otp, send>>
  BY DEF VerifyRead, TypeOK
<1>2. code \in ActiveOf(verify[v].user) /\ status[verify[v].user] \in {"pending", "active"}
  BY DEF VerifyResult
<1>3. code \in Sends /\ otp[code].row = "active" /\ send[code].user = verify[v].user
  BY <1>2 DEF ActiveOf
<1>4. overlap' = overlap /\ \A w \in Verifies : verify'[w].user = verify[w].user
  BY DEF Keeps
<1>5. ~overlap => /\ \A s \in Sends : send[s].pc \notin MidSend
                  /\ \A w \in Verifies \ {v} : verify[w].pc # "matched"
  BY DEF VerifyRead, VerifyTurn
<1>6. \A u \in Users : RowsOf(u)' = RowsOf(u) /\ ActiveOf(u)' = ActiveOf(u)
  BY <1>1 DEF RowsOf, ActiveOf
<1>7. NumberInv'
  <2>1. \A w \in Verifies : verify'[w].pc = "matched" =>
          /\ verify'[w].code \in Sends /\ otp'[verify'[w].code].row # "absent"
          /\ send'[verify'[w].code].user = verify'[w].user
    BY <1>1, <1>3, <1>4 DEF Core, NumberInv
  <2> QED BY <1>1, <2>1 DEF Core, NumberInv, Sequences, RowsOf
<1>8. TurnInv'
  BY <1>1, <1>4, <1>5 DEF TurnInv
<1>9. FreshInv' /\ ActiveIsNewest'
  BY <1>1, <1>4 DEF Core, FreshInv, ActiveIsNewest, RowsOf
<1>10. CodeInv'
  <2> SUFFICES ASSUME ~overlap, NEW w \in Verifies
               PROVE  /\ verify'[w].pc = "matched" =>
                           /\ verify'[w].code \in Sends /\ otp'[verify'[w].code].row = "active"
                           /\ status'[verify'[w].user] # "deleted"
                      /\ verify'[w].pc = "activated" =>
                           /\ verify'[w].code \in Sends
                           /\ otp'[verify'[w].code].row = "invalidated"
    BY <1>4 DEF CodeInv
  <2>1. CASE w = v
    BY <1>1, <1>2, <1>3, <1>4, <2>1
  <2>2. CASE w # v
    BY <1>1, <2>2 DEF Core, CodeInv
  <2> QED BY <2>1, <2>2
<1>11. CodeUsedOnce'
  BY <1>1, <1>4 DEF Core, CodeUsedOnce
<1>12. CodeSurvives'
  BY <1>1, <1>4, <1>6 DEF Core, CodeSurvives
<1> QED BY <1>7, <1>8, <1>9, <1>10, <1>11, <1>12 DEF Core

LEMMA CommitPreserves ==
  ASSUME TypeOK, Core, Keeps, NEW v \in Verifies, VerifyCommit(v)
  PROVE  Core'
<1> DEFINE c == verify[v].code
<1>1. /\ verify[v].pc = "matched" /\ verify'[v].pc = "activated" /\ verify'[v].code = c
      /\ \A w \in Verifies \ {v} : verify'[w] = verify[w]
      /\ send' = send
  BY DEF VerifyCommit, TypeOK
<1>2. c \in Sends /\ otp[c].row # "absent" /\ send[c].user = verify[v].user
  BY <1>1 DEF Core, NumberInv
<1>3. \A r \in Sends :
        /\ otp'[r].sequence = otp[r].sequence
        /\ otp'[r].row = IF r = c THEN "invalidated" ELSE otp[r].row
  BY <1>2, InvalidatedRow DEF VerifyCommit, TypeOK
<1>4. overlap' = overlap /\ \A w \in Verifies : verify'[w].user = verify[w].user
  BY DEF Keeps
<1>5. ~overlap => /\ \A s \in Sends : send[s].pc \notin MidSend
                  /\ \A w \in Verifies \ {v} : verify[w].pc # "matched"
  BY DEF VerifyCommit, VerifyTurn
<1> HIDE DEF c
<1>6. \A u \in Users : RowsOf(u)' = RowsOf(u) /\ Sequences(u)' = Sequences(u)
  <2>1. \A u \in Users : RowsOf(u)' = RowsOf(u)
    BY <1>1, <1>2, <1>3 DEF RowsOf
  <2>2. \A u \in Users : RowsOf(u) \subseteq Sends
    BY DEF RowsOf
  <2> QED BY <1>3, <2>1, <2>2 DEF Sequences
<1>7. NumberInv'
  <2>1. \A w \in Verifies : verify'[w].pc = "matched" =>
          /\ verify'[w].code \in Sends /\ otp'[verify'[w].code].row # "absent"
          /\ send'[verify'[w].code].user = verify'[w].user
    BY <1>1, <1>3, <1>4 DEF Core, NumberInv
  <2>2. \A s \in Sends : send'[s].pc \in Unmade => otp'[s].row = "absent"
    BY <1>1, <1>2, <1>3 DEF Core, NumberInv
  <2>3. \A u \in Users : \A n \in Sequences(u)' : 1 .. n \subseteq Sequences(u)'
    BY <1>6 DEF Core, NumberInv
  <2>4. ASSUME NEW s \in Sends, send'[s].pc = "create"
        PROVE  /\ send'[s].sequence > 0
               /\ 1 .. (send'[s].sequence - 1) \subseteq Sequences(send[s].user)'
    <3>1. Sequences(send[s].user)' = Sequences(send[s].user)
      BY <1>1, <1>2, <1>3 DEF Sequences, RowsOf
    <3> QED BY <1>1, <2>4, <3>1 DEF Core, NumberInv
  <2> QED BY <2>1, <2>2, <2>3, <2>4 DEF NumberInv
<1>8. TurnInv'
  BY <1>1, <1>4, <1>5 DEF TurnInv
<1>9. FreshInv'
  BY <1>1, <1>4, <1>5 DEF FreshInv, MidSend
<1>10. ActiveIsNewest'
  <2> SUFFICES ASSUME NEW t \in Sends, ~overlap, otp'[t].row = "active",
                      NEW r \in RowsOf(send[t].user)' \ {t}
               PROVE  otp'[r].sequence < otp'[t].sequence
    BY <1>4 DEF ActiveIsNewest
  <2>1. r \in RowsOf(send[t].user) \ {t} /\ r \in Sends /\ otp[t].row = "active"
    BY <1>1, <1>2, <1>3 DEF RowsOf
  <2> QED BY <1>3, <2>1 DEF Core, ActiveIsNewest
<1>11. CodeInv'
  <2> SUFFICES ASSUME ~overlap, NEW w \in Verifies
               PROVE  /\ verify'[w].pc # "matched"
                      /\ verify'[w].pc = "activated" =>
                           /\ verify'[w].code \in Sends
                           /\ otp'[verify'[w].code].row = "invalidated"
    BY <1>4 DEF CodeInv
  <2>1. CASE w = v
    BY <1>1, <1>2, <1>3, <2>1
  <2>2. CASE w # v
    BY <1>1, <1>3, <1>5, <2>2 DEF Core, CodeInv
  <2> QED BY <2>1, <2>2
<1>12. CodeUsedOnce'
  <2>1. ASSUME ~overlap, NEW w \in Verifies \ {v}, verify[w].pc = "activated"
        PROVE  verify[w].code # c
    BY <1>1, <2>1 DEF Core, CodeInv, c
  <2> QED BY <1>1, <1>4, <2>1 DEF Core, CodeUsedOnce
<1>13. CodeSurvives'
  <2> SUFFICES ASSUME NEW u \in Users, RowsOf(u)' # {}, ActiveOf(u)' = {}
               PROVE  \/ \E r \in Sends : /\ send'[r].user = u
                                          /\ send'[r].pc \in {"sequence", "create", "aborted"}
                      \/ \E w \in Verifies : verify'[w].user = u /\ verify'[w].pc = "activated"
    BY DEF CodeSurvives
  <2>1. CASE u = verify[v].user
    BY <1>1, <1>4, <2>1
  <2>2. CASE u # verify[v].user
    <3>1. RowsOf(u) # {} /\ ActiveOf(u) = {}
      BY <1>1, <1>2, <1>3, <1>6, <2>2 DEF ActiveOf
    <3> QED BY <1>1, <1>4, <2>2, <3>1 DEF Core, CodeSurvives
  <2> QED BY <2>1, <2>2
<1> QED BY <1>7, <1>8, <1>9, <1>10, <1>11, <1>12, <1>13 DEF Core

LEMMA CoreNext ==
  ASSUME TypeOK, Core, Keeps, [Next]_vars
  PROVE  Core'
<1>1. CASE \E s \in Sends : Invalidate(s) \/ Sequence(s) \/ Create(s)
  BY <1>1, InvalidatePreserves, SequencePreserves, CreatePreserves
<1>2. CASE \E v \in Verifies : VerifyCommit(v)
  BY <1>2, CommitPreserves
<1>3. CASE \E v \in Verifies, code \in Sends \cup {Nobody} :
             VerifyRead(v, code) /\ VerifyResult(verify[v].user, code) = "matched"
  BY <1>3, MatchPreserves
<1>4. CASE /\ \A s \in Sends : ~Invalidate(s) /\ ~Sequence(s) /\ ~Create(s)
           /\ \A v \in Verifies : ~VerifyCommit(v)
           /\ \A v \in Verifies, code \in Sends \cup {Nobody} :
                ~(VerifyRead(v, code) /\ VerifyResult(verify[v].user, code) = "matched")
  BY <1>4, SilentSteps, SilentPreserves
<1> QED BY <1>1, <1>2, <1>3, <1>4

-----------------------------------------------------------------------------
(* The counter.                                                            *)

LEMMA CounterNext ==
  ASSUME TypeOK, CounterExpires, Keeps, [Next]_vars
  PROVE  CounterExpires'
<1> USE OtpAssumption DEF ghosts
<1> DEFINE Bare(u) == counter[u].value > 0 /\ counter[u].expiresAt = NoTtl
           Soon(u) == \E s \in Sends : send[s].user = u /\ send[s].pc = "expire"
<1>1. \A u \in Users \ orphaned : Bare(u) => Soon(u)
  BY DEF CounterExpires
<1>2. SUFFICES \A u \in Users \ orphaned' : Bare(u)' => Soon(u)'
  BY DEF CounterExpires
<1>3. \A r \in Sends : send'[r].user = send[r].user
  BY DEF Keeps
<1>4. ASSUME UNCHANGED <<counter, orphaned>>,
             \A r \in Sends : send[r].pc = "expire" => send'[r].pc = "expire"
      PROVE  \A u \in Users \ orphaned' : Bare(u)' => Soon(u)'
  BY <1>1, <1>3, <1>4
<1>5. ASSUME NEW s \in Sends, NEW pc \in SendPc, Goto(s, pc), send[s].pc # "expire",
             UNCHANGED <<counter, orphaned>>
      PROVE  \A u \in Users \ orphaned' : Bare(u)' => Soon(u)'
  BY <1>4, <1>5, GotoLeaves
<1>6. ASSUME NEW s \in Sends,
             SendForbidden(s) \/ SendStart(s) \/ SendLimited(s) \/ CreateConflict(s)
             \/ Invalidate(s) \/ Create(s) \/ Dispatched(s, "delivered") \/ Dispatched(s, "failed")
      PROVE  \A u \in Users \ orphaned' : Bare(u)' => Soon(u)'
  <2>1. UNCHANGED <<counter, orphaned>> /\ send[s].pc # "expire"
    BY <1>6 DEF SendForbidden, SendStart, SendLimited, CreateConflict, Invalidate, Create, Dispatched
  <2>2. \E pc \in SendPc : Goto(s, pc)
    BY <1>6 DEF SendForbidden, SendStart, SendLimited, CreateConflict, Invalidate, Create,
                Dispatched, SendPc, SendEnd, MidSend
  <2> HIDE DEF Bare, Soon
  <2> QED BY <1>5, <2>1, <2>2
<1>7. ASSUME NEW s \in Sends, Sequence(s)
      PROVE  \A u \in Users \ orphaned' : Bare(u)' => Soon(u)'
  <2>1. send[s].pc = "sequence" /\ \A r \in Sends \ {s} : send'[r] = send[r]
    BY <1>7 DEF Sequence, TypeOK
  <2>2. UNCHANGED <<counter, orphaned>>
    BY <1>7 DEF Sequence
  <2> QED BY <1>4, <2>1, <2>2
<1>8. ASSUME NEW s \in Sends, Incr(s) \/ IncrReplyLost(s),
             NEW u \in Users \ orphaned', Bare(u)'
      PROVE  Soon(u)'
  <2> DEFINE w == send[s].user
  <2>1. /\ w \in Users /\ send[s].pc = "incr" /\ counter' = [counter EXCEPT ![w] = Incremented(w)]
        /\ \A r \in Sends \ {s} : send'[r] = send[r]
        /\ Incr(s) => orphaned' = orphaned
        /\ Incr(s) /\ Incremented(w).value = 1 => send'[s].pc = "expire"
        /\ IncrReplyLost(s) => orphaned' = IF Incremented(w).value = 1 THEN orphaned \cup {w}
                                                                       ELSE orphaned
    BY <1>8 DEF Incr, IncrReplyLost, TypeOK
  <2>2. \A r \in Sends : send[r].pc = "expire" => send'[r] = send[r]
    BY <2>1
  <2>3. CASE u # w
    <3>1. Bare(u) /\ u \notin orphaned
      BY <1>8, <2>1, <2>3 DEF TypeOK
    <3> QED BY <1>1, <2>2, <3>1
  <2>4. CASE u = w /\ Incremented(w).value = 1
    BY <1>3, <1>8, <2>1, <2>4
  <2>5. CASE u = w /\ Incremented(w).value # 1
    <3>1. KeyAlive(w) /\ Incremented(w).expiresAt = counter[w].expiresAt
      BY <2>1, <2>5 DEF Incremented, TypeOK
    <3>2. counter'[w].expiresAt = counter[w].expiresAt
      BY <2>1, <3>1 DEF TypeOK
    <3>3. Bare(u) /\ u \notin orphaned
      BY <1>8, <2>1, <2>5, <3>1, <3>2 DEF KeyAlive
    <3> QED BY <1>1, <2>2, <3>3
  <2> QED BY <2>3, <2>4, <2>5
<1>9. ASSUME NEW s \in Sends, Expire(s), NEW u \in Users \ orphaned', Bare(u)'
      PROVE  Soon(u)'
  <2>1. "counted" \in SendPc
    BY DEF SendPc
  <2>2. /\ send[s].pc = "expire" /\ \A r \in Sends \ {s} : send'[r] = send[r]
        /\ send[s].user \in Users
    BY <1>9, <2>1, GotoLeaves DEF Expire, TypeOK
  <2>3. u # send[s].user
    <3> SUFFICES ASSUME u = send[s].user PROVE FALSE
      OBVIOUS
    <3>1. counter'[u] = IF KeyAlive(u) THEN [counter[u] EXCEPT !.expiresAt = now + Window]
                                       ELSE counter[u]
      BY <1>9 DEF Expire, TypeOK
    <3>2. CASE KeyAlive(u)
      <4>1. counter'[u].expiresAt = now + Window
        BY <3>1, <3>2 DEF TypeOK
      <4> QED BY <1>9, <4>1 DEF NoTtl, TypeOK
    <3>3. CASE ~KeyAlive(u)
      BY <1>9, <3>1, <3>3 DEF KeyAlive
    <3> QED BY <3>2, <3>3
  <2>4. Bare(u) /\ u \notin orphaned
    BY <1>9, <2>3 DEF Expire, TypeOK
  <2> QED BY <1>1, <2>2, <2>3, <2>4
<1>10. ASSUME NEW s \in Sends, RedisFails(s), NEW u \in Users \ orphaned', Bare(u)'
       PROVE  Soon(u)'
  <2>1. "aborted" \in SendPc
    BY DEF SendPc, SendEnd
  <2>2. \A r \in Sends \ {s} : send'[r] = send[r]
    BY <1>10, <2>1, GotoLeaves DEF RedisFails
  <2>3. Bare(u) /\ u \notin orphaned /\ (send[s].pc = "expire" => u # send[s].user)
    BY <1>10 DEF RedisFails
  <2> QED BY <1>1, <2>2, <2>3
<1>11. ASSUME Crash, NEW u \in Users \ orphaned', Bare(u)'
       PROVE  Soon(u)'
  <2>1. Bare(u) /\ u \notin orphaned /\ \A s \in Sends : send[s].pc = "expire" => send[s].user # u
    BY <1>11 DEF Crash
  <2> QED BY <1>1, <2>1
<1>12. ASSUME NEW v \in Verifies,
              VerifyCommit(v) \/ \E code \in Sends \cup {Nobody} : VerifyRead(v, code)
       PROVE  \A u \in Users \ orphaned' : Bare(u)' => Soon(u)'
  <2>1. UNCHANGED <<counter, orphaned, send>>
    BY <1>12 DEF VerifyCommit, VerifyRead
  <2> QED BY <1>4, <2>1
<1>13. ASSUME Tick \/ (\E u \in Users : DeleteAccount(u)) \/ UNCHANGED vars
       PROVE  \A u \in Users \ orphaned' : Bare(u)' => Soon(u)'
  <2>1. UNCHANGED <<counter, orphaned, send>>
    BY <1>13 DEF Tick, DeleteAccount, vars
  <2> QED BY <1>4, <2>1
<1> HIDE DEF Bare, Soon
<1> QED BY <1>6, <1>7, <1>8, <1>9, <1>10, <1>11, <1>12, <1>13 DEF Next, SendStep

-----------------------------------------------------------------------------

LEMMA InvHolds == Spec => []IInv
<1>1. IInv /\ [Next]_vars => IInv'
  <2> SUFFICES ASSUME IInv, [Next]_vars PROVE IInv'
    OBVIOUS
  <2>1. TypeOK' /\ Keeps
    BY TypeNext DEF IInv
  <2>2. Core'
    BY <2>1, CoreNext DEF IInv, Core
  <2>3. CounterExpires'
    BY <2>1, CounterNext DEF IInv
  <2> QED BY <2>1, <2>2, <2>3 DEF IInv, Core
<1> QED BY InitInv, <1>1, PTL DEF Spec

(* TypeOK holds in every reachable state; in particular the attempts are   *)
(* numbered from 1.                                                        *)
THEOREM TypeCorrect == Spec => []TypeOK
  BY InvHolds, PTL DEF IInv

(* A code that still works is the last one made for its user.              *)
THEOREM NewestWorks == Spec => []ActiveIsNewest
  BY InvHolds, PTL DEF IInv

(* However sends overlap, the user is left with a usable code.             *)
THEOREM UserKeepsACode == Spec => []CodeSurvives
  BY InvHolds, PTL DEF IInv

(* A code activates an account at most once.                               *)
THEOREM OneUse == Spec => []CodeUsedOnce
  BY InvHolds, PTL DEF IInv

(* A counter without a time to live is about to get one.                   *)
THEOREM CountersEnd == Spec => []CounterExpires
  BY InvHolds, PTL DEF IInv

(* A deleted account stays deleted.                                        *)
THEOREM DeletionIsFinal == Spec => DeletedForGood
<1>1. IInv /\ [Next]_vars => DeletedForGoodStep
  <2> SUFFICES ASSUME IInv, [Next]_vars, NEW u \in Users, ~overlap, status[u] = "deleted"
               PROVE  status'[u] = "deleted"
    BY DEF DeletedForGoodStep
  <2>1. ASSUME NEW v \in Verifies, VerifyCommit(v) PROVE status'[u] = "deleted"
    <3>1. verify[v].user # u
      BY <2>1 DEF VerifyCommit, IInv, CodeInv
    <3> QED BY <2>1, <3>1 DEF VerifyCommit, IInv, TypeOK
  <2>2. ASSUME NEW w \in Users, DeleteAccount(w) PROVE status'[u] = "deleted"
    BY <2>2 DEF DeleteAccount, IInv, TypeOK
  <2>3. ASSUME NEW s \in Sends, SendStep(s) PROVE status' = status
    BY <2>3 DEF SendStep, SendForbidden, SendStart, Incr, IncrReplyLost, Expire, RedisFails,
                SendLimited, Invalidate, Sequence, Create, CreateConflict, Dispatched
  <2>4. ASSUME NEW v \in Verifies, NEW code \in Sends \cup {Nobody}, VerifyRead(v, code)
        PROVE  status' = status
    BY <2>4 DEF VerifyRead
  <2> QED BY <2>1, <2>2, <2>3, <2>4 DEF Next, Crash, Tick, vars
<1> QED BY InvHolds, <1>1, PTL DEF Spec, DeletedForGood

-----------------------------------------------------------------------------
(* The quota.                                                              *)

(* The key of u is there until x at least.                                 *)
KeyUntil(u, x) ==
  /\ counter[u].value > 0
  /\ counter[u].expiresAt = NoTtl \/ counter[u].expiresAt >= x

(* A window that began at the count of s is over, or its key still counts. *)
WindowOf(s) ==
  LET end == send[s].countedAt + Window IN now >= end \/ KeyUntil(send[s].user, end)

Counted == {s \in Sends : send[s].count > 0}

(* Two counted sends of one user.                                          *)
Peers(r, s) == send[r].user = send[s].user

(* A send is counted once, before its code is made.                        *)
CountInv ==
  \A s \in Sends :
    /\ send[s].pc \in {"idle", "incr"} => send[s].count = 0
    /\ send[s].pc \in {"expire", "counted"} => send[s].count > 0
    /\ send[s].pc \in MidSend \/ otp[s].row # "absent" => send[s].count \in 1 .. MaxAttempts

(* What each count says of the key: it outlives the moment of the count;   *)
(* a count above its value belongs to an earlier key; the first count of a *)
(* key, and every count of a key that is gone, leaves a key that lasts a   *)
(* window from it.                                                         *)
KeyInv ==
  \A s \in Counted :
    /\ send[s].countedAt <= now
    /\ send[s].countedAt < now \/ KeyUntil(send[s].user, now + 1)
    /\ send[s].count > counter[send[s].user].value => send[s].countedAt < now
    /\ send[s].count = 1 \/ send[s].count > counter[send[s].user].value => WindowOf(s)

(* A send counted after another, and no higher, was counted by a later     *)
(* key; once that key is gone too, a window has passed since the first.    *)
LaterKeyInv ==
  \A r, s \in Counted :
    Peers(r, s) /\ send[r].countedAt < send[s].countedAt /\ send[r].count >= send[s].count =>
      /\ WindowOf(r)
      /\ send[s].count > counter[send[s].user].value => now >= send[r].countedAt + Window

(* Equal counts are made at different times; two first counts, and three   *)
(* equal ones, span a window.                                              *)
SpanInv ==
  \A r, s \in Counted : Peers(r, s) /\ send[r].count = send[s].count =>
    /\ r # s => send[r].countedAt # send[s].countedAt
    /\ send[r].countedAt < send[s].countedAt =>
         /\ send[r].count = 1 => send[s].countedAt >= send[r].countedAt + Window
         /\ \A w \in Counted :
              Peers(w, s) /\ send[w].count = send[s].count
                /\ send[s].countedAt < send[w].countedAt
                  => send[w].countedAt >= send[r].countedAt + Window

QuotaInv == CountInv /\ KeyInv /\ LaterKeyInv /\ SpanInv

(* What a step does to the key of a user: nothing, INCR on a key that is   *)
(* there or is not, EXPIRE, or the passing of time.                        *)
KeyStep(u) ==
  \/ now' = now + 1 /\ counter'[u] = counter[u]
  \/ now' = now /\ counter'[u] = counter[u]
  \/ now' = now /\ counter'[u] = Incremented(u)
  \/ /\ now' = now /\ KeyAlive(u)
     /\ counter'[u].value = counter[u].value /\ counter'[u].expiresAt = now + Window

Kept(s) == send'[s].count = send[s].count /\ send'[s].countedAt = send[s].countedAt

(* INCR and its reply: the send's count is the key's value.                *)
CountedNow(s) ==
  /\ send[s].count = 0 /\ send'[s].count > 0
  /\ send'[s].countedAt = now /\ now' = now
  /\ counter'[send[s].user] = Incremented(send[s].user)
  /\ send'[s].count = counter'[send[s].user].value

KeyType == [value : Nat, expiresAt : {NoTtl} \cup Nat]

LEMMA IncrementedKey ==
  ASSUME TypeOK, NEW u \in Users
  PROVE  /\ Incremented(u) \in KeyType
         /\ KeyAlive(u) => /\ Incremented(u).value = counter[u].value + 1
                           /\ Incremented(u).expiresAt = counter[u].expiresAt
         /\ ~KeyAlive(u) => Incremented(u).value = 1 /\ Incremented(u).expiresAt = NoTtl
<1>1. counter[u] \in KeyType
  BY DEF TypeOK, KeyType
<1>2. CASE KeyAlive(u)
  <2>1. Incremented(u) = [counter[u] EXCEPT !.value = @ + 1]
    BY <1>2 DEF Incremented
  <2> QED BY <1>1, <1>2, <2>1 DEF KeyType
<1>3. CASE ~KeyAlive(u)
  BY <1>3 DEF Incremented, KeyType
<1> QED BY <1>2, <1>3

LEMMA StepCases ==
  ASSUME TypeOK, CountInv, Keeps, [Next]_vars
  PROVE  /\ \A u \in Users : KeyStep(u)
         /\ \A s \in Sends : Kept(s) \/ CountedNow(s)
         /\ \A r, s \in Sends : Kept(r) \/ Kept(s) \/ r = s
<1> USE OtpAssumption DEF ghosts
<1>0. ASSUME now' = now \/ now' = now + 1, counter' = counter, \A s \in Sends : Kept(s)
      PROVE  /\ \A u \in Users : KeyStep(u)
             /\ \A s \in Sends : Kept(s) \/ CountedNow(s)
             /\ \A r, s \in Sends : Kept(r) \/ Kept(s) \/ r = s
  BY <1>0 DEF KeyStep
<1>1. ASSUME NEW s \in Sends, NEW pc \in SendPc, Goto(s, pc)
      PROVE  \A r \in Sends : Kept(r)
  BY <1>1 DEF Goto, Kept, TypeOK
<1>2. ASSUME NEW s \in Sends,
             SendForbidden(s) \/ SendStart(s) \/ SendLimited(s) \/ CreateConflict(s)
             \/ Invalidate(s) \/ Create(s) \/ RedisFails(s)
             \/ Dispatched(s, "delivered") \/ Dispatched(s, "failed")
      PROVE  now' = now /\ counter' = counter /\ \A r \in Sends : Kept(r)
  <2>1. UNCHANGED <<counter, now>>
    BY <1>2 DEF SendForbidden, SendStart, SendLimited, CreateConflict, Invalidate, Create,
                RedisFails, Dispatched
  <2>2. \E pc \in SendPc : Goto(s, pc)
    BY <1>2 DEF SendForbidden, SendStart, SendLimited, CreateConflict, Invalidate, Create,
                RedisFails, Dispatched, SendPc, SendEnd, MidSend
  <2> QED BY <1>1, <2>1, <2>2
<1>3. ASSUME NEW s \in Sends, Sequence(s)
      PROVE  now' = now /\ counter' = counter /\ \A r \in Sends : Kept(r)
  BY <1>3 DEF Sequence, Kept, TypeOK
<1>4. ASSUME NEW s \in Sends, Incr(s)
      PROVE  /\ \A u \in Users : KeyStep(u)
             /\ \A r \in Sends : Kept(r) \/ CountedNow(r)
             /\ \A r, w \in Sends : Kept(r) \/ Kept(w) \/ r = w
  <2> DEFINE u == send[s].user
  <2>1. u \in Users /\ send[s].count = 0
    BY <1>4 DEF Incr, CountInv, TypeOK
  <2>2. now' = now /\ counter' = [counter EXCEPT ![u] = Incremented(u)]
    BY <1>4 DEF Incr
  <2>3. counter'[u] = Incremented(u) /\ \A w \in Users \ {u} : counter'[w] = counter[w]
    BY <2>1, <2>2 DEF TypeOK
  <2>4. send'[s].count = Incremented(u).value /\ send'[s].countedAt = now
    BY <1>4 DEF Incr, TypeOK
  <2>5. \A r \in Sends \ {s} : send'[r] = send[r]
    BY <1>4 DEF Incr, TypeOK
  <2>6. Incremented(u).value > 0
    BY <2>1 DEF Incremented, TypeOK
  <2>7. CountedNow(s)
    BY <2>1, <2>2, <2>3, <2>4, <2>6 DEF CountedNow
  <2> QED BY <2>2, <2>3, <2>5, <2>7 DEF KeyStep, Kept
<1>5. ASSUME NEW s \in Sends, IncrReplyLost(s)
      PROVE  /\ \A u \in Users : KeyStep(u)
             /\ \A r \in Sends : Kept(r)
  <2>1. send[s].user \in Users
    BY DEF TypeOK
  <2>2. /\ now' = now /\ send' = send
        /\ counter' = [counter EXCEPT ![send[s].user] = Incremented(send[s].user)]
    BY <1>5 DEF IncrReplyLost
  <2> QED BY <2>1, <2>2 DEF KeyStep, Kept, TypeOK
<1>6. ASSUME NEW s \in Sends, Expire(s)
      PROVE  /\ \A u \in Users : KeyStep(u)
             /\ \A r \in Sends : Kept(r)
  <2> DEFINE w == send[s].user
  <2>1. w \in Users /\ now' = now
    BY <1>6 DEF Expire, TypeOK
  <2>2. counter' = [counter EXCEPT ![w] = IF KeyAlive(w)
                                          THEN [counter[w] EXCEPT !.expiresAt = now + Window]
                                          ELSE counter[w]]
    BY <1>6 DEF Expire
  <2>3. /\ \A u \in Users \ {w} : counter'[u] = counter[u]
        /\ ~KeyAlive(w) => counter'[w] = counter[w]
        /\ KeyAlive(w) => counter'[w] = [counter[w] EXCEPT !.expiresAt = now + Window]
    BY <2>1, <2>2 DEF TypeOK
  <2>4. KeyAlive(w) => counter'[w].value = counter[w].value
                       /\ counter'[w].expiresAt = now + Window
    BY <2>1, <2>3 DEF TypeOK
  <2>5. "counted" \in SendPc /\ Goto(s, "counted")
    BY <1>6 DEF Expire, SendPc
  <2> HIDE DEF w
  <2> QED BY <1>1, <2>1, <2>3, <2>4, <2>5 DEF KeyStep
<1>7. ASSUME NEW v \in Verifies,
             VerifyCommit(v) \/ \E code \in Sends \cup {Nobody} : VerifyRead(v, code)
      PROVE  now' = now /\ counter' = counter /\ \A r \in Sends : Kept(r)
  BY <1>7 DEF VerifyCommit, VerifyRead, Kept
<1>8. ASSUME NEW u \in Users, DeleteAccount(u)
      PROVE  now' = now /\ counter' = counter /\ \A r \in Sends : Kept(r)
  BY <1>8 DEF DeleteAccount, Kept
<1>9. ASSUME Crash PROVE now' = now /\ counter' = counter /\ \A r \in Sends : Kept(r)
  BY <1>9 DEF Crash, Kept, TypeOK
<1>10. ASSUME Tick PROVE now' = now + 1 /\ counter' = counter /\ \A r \in Sends : Kept(r)
  BY <1>10 DEF Tick, Kept
<1>11. ASSUME UNCHANGED vars PROVE now' = now /\ counter' = counter /\ \A r \in Sends : Kept(r)
  BY <1>11 DEF vars, Kept
<1> QED BY <1>0, <1>2, <1>3, <1>4, <1>5, <1>6, <1>7, <1>8, <1>9, <1>10, <1>11 DEF Next, SendStep

(* A window that is over stays over, and a key that lasts a window does.   *)
LEMMA WindowStays ==
  ASSUME TypeOK, TypeOK', NEW s \in Sends, Kept(s), send'[s].user = send[s].user,
         KeyStep(send[s].user), send[s].countedAt <= now, WindowOf(s)
  PROVE  WindowOf(s)'
<1> USE OtpAssumption
<1>1. PICK u \in Users, end \in Nat : /\ u = send[s].user /\ end = send[s].countedAt + Window
                                      /\ now \in Nat /\ end <= now + Window
  BY DEF TypeOK
<1>2. WindowOf(s)' <=> (now' >= end \/ KeyUntil(u, end)')
  BY <1>1 DEF WindowOf, Kept, KeyUntil
<1>3. now >= end \/ KeyUntil(u, end)
  BY <1>1 DEF WindowOf
<1>4. /\ counter[u].value \in Nat /\ counter[u].expiresAt \in Int
      /\ counter'[u].value \in Nat /\ counter'[u].expiresAt \in Int
  BY <1>1 DEF TypeOK, NoTtl
<1>5. KeyStep(u)
  BY <1>1
<1>6. CASE counter'[u] = counter[u] /\ (now' = now \/ now' = now + 1)
  BY <1>1, <1>2, <1>3, <1>4, <1>6 DEF KeyUntil
<1>7. CASE now' = now /\ counter'[u] = Incremented(u)
  BY <1>1, <1>2, <1>3, <1>4, <1>7, IncrementedKey DEF KeyUntil, KeyAlive
<1>8. CASE now' = now /\ KeyAlive(u) /\ counter'[u].value = counter[u].value
           /\ counter'[u].expiresAt = now + Window
  BY <1>1, <1>2, <1>3, <1>4, <1>8 DEF KeyUntil, KeyAlive
<1> QED BY <1>5, <1>6, <1>7, <1>8 DEF KeyStep

(* The steps of a key, with their numbers.                                 *)
LEMMA KeyCases ==
  ASSUME TypeOK, TypeOK', NEW u \in Users, KeyStep(u)
  PROVE  /\ counter[u].value \in Nat /\ counter[u].expiresAt \in Int
         /\ counter'[u].value \in Nat /\ counter'[u].expiresAt \in Int
         /\ now \in Nat /\ now' \in Nat
         /\ \/ now' = now + 1 /\ counter'[u] = counter[u]
            \/ now' = now /\ counter'[u] = counter[u]
            \/ /\ now' = now /\ KeyAlive(u) /\ counter'[u].value = counter[u].value + 1
               /\ counter'[u].expiresAt = counter[u].expiresAt
            \/ /\ now' = now /\ ~KeyAlive(u) /\ counter'[u].value = 1
               /\ counter'[u].expiresAt = NoTtl
            \/ /\ now' = now /\ KeyAlive(u) /\ counter'[u].value = counter[u].value
               /\ counter'[u].expiresAt = now + Window
<1>1. /\ counter[u].value \in Nat /\ counter[u].expiresAt \in Int
      /\ counter'[u].value \in Nat /\ counter'[u].expiresAt \in Int
      /\ now \in Nat /\ now' \in Nat
  BY DEF TypeOK, NoTtl
<1> QED BY <1>1, IncrementedKey DEF KeyStep

(* A send that is counted now: its key was there or is made.               *)
LEMMA CountedKey ==
  ASSUME TypeOK, NEW s \in Sends, CountedNow(s)
  PROVE  LET u == send[s].user IN
         \/ /\ KeyAlive(u) /\ send'[s].count = counter[u].value + 1
            /\ counter'[u].expiresAt = counter[u].expiresAt
         \/ /\ ~KeyAlive(u) /\ send'[s].count = 1
            /\ counter'[u].expiresAt = NoTtl
<1>1. send[s].user \in Users
  BY DEF TypeOK
<1> QED BY <1>1, IncrementedKey DEF CountedNow

LEMMA KeyNext ==
  ASSUME TypeOK, TypeOK', Keeps, KeyInv,
         \A u \in Users : KeyStep(u),
         \A s \in Sends : Kept(s) \/ CountedNow(s)
  PROVE  KeyInv'
<1> USE OtpAssumption
<1> SUFFICES ASSUME NEW s \in Sends, send'[s].count > 0
             PROVE  /\ send'[s].countedAt <= now'
                    /\ send'[s].countedAt < now' \/ KeyUntil(send[s].user, now + 1)'
                    /\ send'[s].count > counter'[send[s].user].value => send'[s].countedAt < now'
                    /\ send'[s].count = 1 \/ send'[s].count > counter'[send[s].user].value
                         => WindowOf(s)'
  BY DEF KeyInv, Counted, Keeps, KeyUntil
<1>1. PICK u \in Users : u = send[s].user
  BY DEF TypeOK
<1>2. send'[s].user = u
  BY <1>1 DEF Keeps
<1>3. send'[s].count \in Nat /\ send'[s].countedAt \in Nat
      /\ send[s].count \in Nat /\ send[s].countedAt \in Nat
  BY DEF TypeOK
<1>4. CASE Kept(s)
  <2>1. s \in Counted /\ send'[s].count = send[s].count /\ send'[s].countedAt = send[s].countedAt
    BY <1>4 DEF Counted, Kept
  <2>2. /\ send[s].countedAt <= now
        /\ send[s].countedAt < now \/ KeyUntil(u, now + 1)
        /\ send[s].count > counter[u].value => send[s].countedAt < now
        /\ send[s].count = 1 \/ send[s].count > counter[u].value => WindowOf(s)
    BY <1>1, <2>1 DEF KeyInv
  <2>3. send'[s].countedAt <= now'
    BY <1>3, <2>1, <2>2, KeyCases
  <2>4. send'[s].countedAt < now' \/ KeyUntil(u, now + 1)'
    BY <1>3, <2>1, <2>2, KeyCases DEF KeyUntil, KeyAlive
  <2>5. ASSUME send'[s].count > counter'[u].value PROVE send'[s].countedAt < now'
    BY <1>3, <2>1, <2>2, <2>5, KeyCases DEF KeyUntil, KeyAlive
  <2>6. ASSUME send'[s].count = 1 \/ send'[s].count > counter'[u].value PROVE WindowOf(s)'
    <3>1. CASE send[s].count = 1 \/ send[s].count > counter[u].value
      BY <1>1, <1>2, <1>4, <2>2, <3>1, WindowStays
    <3>2. CASE ~(send[s].count = 1 \/ send[s].count > counter[u].value)
      <4>1. counter'[u].value = 1 /\ counter'[u].expiresAt = NoTtl
        BY <1>3, <2>1, <2>6, <3>2, KeyCases
      <4> QED BY <1>2, <4>1 DEF WindowOf, KeyUntil
    <3> QED BY <3>1, <3>2
  <2> QED BY <1>1, <1>2, <2>3, <2>4, <2>5, <2>6 DEF KeyUntil
<1>5. CASE CountedNow(s)
  <2>1. /\ send'[s].countedAt = now /\ now' = now /\ now \in Nat
        /\ send'[s].count = counter'[u].value
        /\ counter'[u].value \in Nat /\ counter[u].value \in Nat /\ counter[u].expiresAt \in Int
    BY <1>1, <1>5, KeyCases DEF CountedNow
  <2>2. \/ /\ KeyAlive(u) /\ send'[s].count = counter[u].value + 1
           /\ counter'[u].expiresAt = counter[u].expiresAt
        \/ /\ ~KeyAlive(u) /\ send'[s].count = 1
           /\ counter'[u].expiresAt = NoTtl
    BY <1>1, <1>5, CountedKey
  <2>3. KeyUntil(u, now + 1)'
    BY <2>1, <2>2 DEF KeyUntil, KeyAlive
  <2>4. ASSUME send'[s].count = 1 PROVE WindowOf(s)'
    <3>1. counter'[u].expiresAt = NoTtl
      BY <2>1, <2>2, <2>4 DEF KeyAlive
    <3> QED BY <1>2, <2>1, <2>4, <3>1 DEF WindowOf, KeyUntil
  <2> QED BY <1>1, <1>2, <2>1, <2>3, <2>4 DEF KeyUntil
<1> QED BY <1>4, <1>5

LEMMA LaterKeyNext ==
  ASSUME TypeOK, TypeOK', Keeps, KeyInv, LaterKeyInv,
         \A u \in Users : KeyStep(u),
         \A s \in Sends : Kept(s) \/ CountedNow(s),
         \A r, s \in Sends : Kept(r) \/ Kept(s) \/ r = s
  PROVE  LaterKeyInv'
<1> USE OtpAssumption
<1> SUFFICES ASSUME NEW r \in Sends, NEW s \in Sends, send[r].user = send[s].user,
                    send'[r].count > 0, send'[s].count > 0,
                    send'[r].countedAt < send'[s].countedAt, send'[r].count >= send'[s].count
             PROVE  /\ WindowOf(r)'
                    /\ send'[s].count > counter'[send[s].user].value
                         => now' >= send'[r].countedAt + Window
  BY DEF LaterKeyInv, Counted, Peers, Keeps
<1>1. PICK u \in Users : u = send[s].user /\ u = send[r].user
  BY DEF TypeOK
<1>2. send'[s].user = u /\ send'[r].user = u
  BY <1>1 DEF Keeps
<1>3. /\ send'[s].count \in Nat /\ send'[s].countedAt \in Nat
      /\ send[s].count \in Nat /\ send[s].countedAt \in Nat
      /\ send'[r].count \in Nat /\ send'[r].countedAt \in Nat
      /\ send[r].count \in Nat /\ send[r].countedAt \in Nat
  BY DEF TypeOK
<1>4. Kept(r) /\ r \in Counted
  <2>1. CASE CountedNow(r)
    <3>1. r # s /\ Kept(s) /\ s \in Counted
      BY <1>3, <2>1 DEF CountedNow, Kept, Counted
    <3>2. send[s].countedAt <= now
      BY <3>1 DEF KeyInv
    <3> QED BY <1>3, <2>1, <3>1, <3>2 DEF CountedNow, Kept, TypeOK
  <2> QED BY <2>1 DEF Kept, Counted
<1>5. /\ send'[r].count = send[r].count /\ send'[r].countedAt = send[r].countedAt
      /\ send[r].countedAt <= now
      /\ send[r].count = 1 \/ send[r].count > counter[u].value => WindowOf(r)
  BY <1>1, <1>4 DEF Kept, KeyInv
<1>6. WindowOf(r) => WindowOf(r)'
  BY <1>1, <1>2, <1>4, <1>5, WindowStays
<1>7. CASE Kept(s)
  <2>1. /\ s \in Counted /\ send'[s].count = send[s].count
        /\ send'[s].countedAt = send[s].countedAt
    BY <1>7 DEF Kept, Counted
  <2>2. /\ WindowOf(r)
        /\ send[s].count > counter[u].value => now >= send[r].countedAt + Window
    BY <1>1, <1>4, <1>5, <2>1 DEF LaterKeyInv, Peers
  <2>3. ASSUME send'[s].count > counter'[u].value
        PROVE  now' >= send[r].countedAt + Window
    <3>1. CASE send[s].count > counter[u].value
      BY <1>3, <2>2, <3>1, KeyCases
    <3>2. CASE send[s].count <= counter[u].value
      <4>1. now' = now /\ ~KeyAlive(u) /\ now \in Nat /\ counter[u].expiresAt \in Int
        BY <1>3, <2>1, <2>3, <3>2, KeyCases
      <4> QED BY <1>1, <1>3, <2>2, <4>1 DEF WindowOf, KeyUntil, KeyAlive
    <3> QED BY <1>3, <3>1, <3>2, KeyCases
  <2> QED BY <1>1, <1>5, <1>6, <2>2, <2>3
<1>8. CASE CountedNow(s)
  <2>1. send'[s].count = counter'[u].value
    BY <1>1, <1>8 DEF CountedNow
  <2>2. CASE KeyAlive(u) /\ send'[s].count = counter[u].value + 1
    <3>1. send[r].count > counter[u].value
      BY <1>3, <1>5, <2>2, KeyCases
    <3> QED BY <1>1, <1>3, <1>5, <1>6, <2>1, <3>1
  <2>3. CASE counter'[u].expiresAt = NoTtl
    <3>1. WindowOf(r)'
      BY <1>2, <2>1, <2>3 DEF WindowOf, KeyUntil
    <3> QED BY <1>1, <1>3, <2>1, <3>1
  <2> QED BY <1>1, <1>8, <2>2, <2>3, CountedKey
<1> QED BY <1>7, <1>8

(* A send that is counted now, after another with the same count.          *)
LEMMA AfterEqual ==
  ASSUME TypeOK, KeyInv, NEW r \in Counted, NEW s \in Sends, CountedNow(s),
         Peers(r, s), send[r].count = send'[s].count
  PROVE  /\ send[r].countedAt < now
         /\ send[r].count = 1 => now >= send[r].countedAt + Window
<1> USE OtpAssumption
<1>1. PICK u \in Users : u = send[s].user /\ u = send[r].user
  BY DEF TypeOK, Peers
<1>2. /\ send[r].count \in Nat /\ send[r].countedAt \in Nat /\ now \in Nat
      /\ counter[u].value \in Nat /\ counter[u].expiresAt \in Int
  BY DEF TypeOK, Counted, NoTtl
<1>3. /\ send[r].countedAt <= now
      /\ send[r].countedAt < now \/ KeyUntil(u, now + 1)
      /\ send[r].count > counter[u].value => send[r].countedAt < now
      /\ send[r].count = 1 => WindowOf(r)
  BY <1>1 DEF KeyInv
<1>4. CASE KeyAlive(u) /\ send'[s].count = counter[u].value + 1
  BY <1>2, <1>3, <1>4 DEF KeyAlive
<1>5. CASE ~KeyAlive(u)
  BY <1>1, <1>2, <1>3, <1>5 DEF KeyAlive, KeyUntil, WindowOf
<1> QED BY <1>1, <1>4, <1>5, CountedKey

LEMMA SpanNext ==
  ASSUME TypeOK, TypeOK', Keeps, KeyInv, LaterKeyInv, SpanInv,
         \A s \in Sends : Kept(s) \/ CountedNow(s),
         \A r, s \in Sends : Kept(r) \/ Kept(s) \/ r = s
  PROVE  SpanInv'
<1> USE OtpAssumption
<1>1. \A s \in Sends : /\ send'[s].user = send[s].user
                       /\ send'[s].countedAt \in Nat /\ send[s].countedAt \in Nat
                       /\ send'[s].count \in Nat /\ send[s].count \in Nat
  BY DEF Keeps, TypeOK
<1>2. \A s \in Sends : send'[s].count > 0 /\ Kept(s) =>
        /\ s \in Counted /\ send'[s].count = send[s].count
        /\ send'[s].countedAt = send[s].countedAt /\ send[s].countedAt <= now
  BY DEF Kept, Counted, KeyInv
<1>3. \A r, s \in Sends : CountedNow(s) /\ r # s => Kept(r)
  <2>1. \A s \in Sends : CountedNow(s) => ~Kept(s)
    BY DEF CountedNow, Kept, TypeOK
  <2> QED BY <2>1
<1>4. ASSUME NEW r \in Sends, NEW s \in Sends, Peers(r, s), r # s,
             send'[r].count > 0, send'[r].count = send'[s].count
      PROVE  send'[r].countedAt # send'[s].countedAt
  <2>1. CASE Kept(r) /\ Kept(s)
    BY <1>2, <1>4, <2>1 DEF SpanInv
  <2>2. CASE CountedNow(s)
    <3>1. Kept(r)
      BY <1>3, <1>4, <2>2
    <3>2. send[r].countedAt < now
      BY <1>2, <1>4, <2>2, <3>1, AfterEqual
    <3> QED BY <1>1, <1>2, <1>4, <2>2, <3>1, <3>2 DEF CountedNow
  <2>3. CASE CountedNow(r)
    <3>1. Kept(s) /\ send'[s].count > 0
      BY <1>3, <1>4, <2>3
    <3>2. send[s].countedAt < now /\ send'[s].countedAt = send[s].countedAt
      BY <1>2, <1>4, <2>3, <3>1, AfterEqual DEF Peers
    <3>3. send'[r].countedAt = now
      BY <2>3 DEF CountedNow
    <3> QED BY <1>1, <3>2, <3>3
  <2> QED BY <2>1, <2>2, <2>3
<1>5. ASSUME NEW r \in Sends, NEW s \in Sends,
             send'[r].count > 0, send'[s].count > 0, send'[r].countedAt < send'[s].countedAt
      PROVE  Kept(r)
  <2> SUFFICES ASSUME CountedNow(r) PROVE FALSE
    OBVIOUS
  <2>1. r # s /\ send'[r].countedAt = now
    BY <1>1, <1>5 DEF CountedNow
  <2>2. Kept(s)
    BY <1>3, <2>1
  <2> QED BY <1>1, <1>2, <1>5, <2>1, <2>2 DEF TypeOK
<1>6. ASSUME NEW r \in Sends, NEW s \in Sends, Peers(r, s),
             send'[r].count = 1, send'[r].count = send'[s].count,
             send'[r].countedAt < send'[s].countedAt
      PROVE  send'[s].countedAt >= send'[r].countedAt + Window
  <2>1. Kept(r) /\ r \in Counted /\ send'[r].countedAt = send[r].countedAt
        /\ send'[r].count = send[r].count
    BY <1>2, <1>5, <1>6
  <2>2. CASE Kept(s)
    <3>1. s \in Counted /\ send'[s].countedAt = send[s].countedAt /\ send'[s].count = send[s].count
      BY <1>2, <1>6, <2>2
    <3> QED BY <1>6, <2>1, <3>1 DEF SpanInv
  <2>3. CASE CountedNow(s)
    BY <1>6, <2>1, <2>3, AfterEqual DEF CountedNow
  <2> QED BY <2>2, <2>3
<1>7. ASSUME NEW r \in Sends, NEW s \in Sends, NEW w \in Sends, Peers(r, s), Peers(w, s),
             send'[r].count > 0, send'[r].count = send'[s].count,
             send'[w].count = send'[s].count,
             send'[r].countedAt < send'[s].countedAt, send'[s].countedAt < send'[w].countedAt
      PROVE  send'[w].countedAt >= send'[r].countedAt + Window
  <2>1. /\ Kept(r) /\ Kept(s) /\ r \in Counted /\ s \in Counted
        /\ send'[r].countedAt = send[r].countedAt /\ send'[r].count = send[r].count
        /\ send'[s].countedAt = send[s].countedAt /\ send'[s].count = send[s].count
        /\ send[s].countedAt <= now
    BY <1>2, <1>5, <1>7
  <2>2. CASE Kept(w)
    <3>1. w \in Counted /\ send'[w].countedAt = send[w].countedAt /\ send'[w].count = send[w].count
      BY <1>2, <1>7, <2>2
    <3> QED BY <1>7, <2>1, <3>1 DEF SpanInv
  <2>3. CASE CountedNow(w)
    <3>1. PICK u \in Users : u = send[w].user /\ u = send[s].user /\ u = send[r].user
      BY <1>7 DEF Peers, TypeOK
    <3>2. send'[w].countedAt = now /\ now \in Nat /\ counter[u].value \in Nat
      BY <2>3 DEF CountedNow, TypeOK
    <3>3. CASE send'[w].count = counter[u].value + 1
      <4>1. send[s].count = counter[u].value + 1 /\ send[r].count = send[s].count
        BY <1>7, <2>1, <3>3
      <4>2. send[s].count > counter[u].value /\ send[r].count >= send[s].count
        BY <3>2, <4>1
      <4> QED BY <1>7, <2>1, <3>1, <3>2, <4>2 DEF LaterKeyInv, Peers
    <3>4. CASE send'[w].count = 1
      <4>1. send'[s].countedAt >= send'[r].countedAt + Window
        BY <1>6, <1>7, <3>4
      <4> QED BY <1>1, <2>1, <3>2, <4>1
    <3> QED BY <2>3, <3>1, <3>3, <3>4, CountedKey
  <2> QED BY <2>2, <2>3
<1>8. \A r, s \in Sends : Peers(r, s)' <=> Peers(r, s)
  BY <1>1 DEF Peers
<1> QED BY <1>4, <1>6, <1>7, <1>8 DEF SpanInv, Counted

(* A code is made after its send was counted, within the quota.            *)
LEMMA CountNext ==
  ASSUME TypeOK, TypeOK', NumberInv, CountInv, [Next]_vars,
         \A s \in Sends : Kept(s) \/ CountedNow(s)
  PROVE  CountInv'
<1> USE OtpAssumption DEF ghosts
<1> DEFINE Early(r) == send[r].pc \in {"idle", "incr"}
           Waits(r) == send[r].pc \in {"expire", "counted"}
           Made(r) == send[r].pc \in MidSend \/ otp[r].row # "absent"
           Follows(r) ==
             /\ Early(r)' => Early(r)
             /\ Waits(r)' => Waits(r) \/ CountedNow(r)
             /\ Made(r)' => Made(r) \/ (Kept(r) /\ send[r].count \in 1 .. MaxAttempts)
<1>0. \A r \in Sends : CountedNow(r) => send'[r].count > 0
  BY DEF CountedNow
<1>1. SUFFICES \A r \in Sends : Follows(r) /\ (CountedNow(r) => ~Early(r)' /\ ~Made(r)')
  BY <1>0 DEF CountInv, Kept
<1>2. ASSUME NEW s \in Sends, NEW pc \in SendPc, Goto(s, pc),
             pc \in {"idle", "incr"} => Early(s),
             pc \in {"expire", "counted"} => Waits(s),
             pc \in MidSend => Made(s) \/ send[s].count \in 1 .. MaxAttempts,
             \A r \in Sends : otp'[r].row # "absent" => Made(r)
      PROVE  \A r \in Sends : Follows(r) /\ Kept(r)
  <2>1. \A r \in Sends : Kept(r)
    BY <1>2 DEF Goto, Kept, TypeOK
  <2>2. send'[s].pc = pc /\ \A r \in Sends \ {s} : send'[r] = send[r]
    BY <1>2, GotoLeaves
  <2> QED BY <1>2, <2>1, <2>2
<1>3. \A r \in Sends : CountedNow(r) => ~Kept(r)
  BY DEF CountedNow, Kept, TypeOK
<1> DEFINE Good == \A r \in Sends : Follows(r) /\ (CountedNow(r) => ~Early(r)' /\ ~Made(r)')
<1>4. ASSUME NEW s \in Sends, SendForbidden(s) \/ SendStart(s) \/ SendLimited(s)
             \/ CreateConflict(s) \/ RedisFails(s) \/ Expire(s)
      PROVE  Good
  <2>1. otp' = otp
    BY <1>4 DEF SendForbidden, SendStart, SendLimited, CreateConflict, RedisFails, Expire
  <2>2. PICK pc \in SendPc \ MidSend : /\ Goto(s, pc)
                                       /\ pc \in {"idle", "incr"} => Early(s)
                                       /\ pc \in {"expire", "counted"} => Waits(s)
    BY <1>4 DEF SendForbidden, SendStart, SendLimited, CreateConflict, RedisFails, Expire,
                SendPc, SendEnd, MidSend
  <2> QED BY <1>2, <1>3, <2>1, <2>2
<1>5. ASSUME NEW s \in Sends, Invalidate(s) PROVE Good
  <2>1. send[s].user \in Users /\ "sequence" \in SendPc
    BY DEF TypeOK, SendPc, MidSend
  <2>2. \A r \in Sends : otp'[r].row # "absent" => otp[r].row # "absent"
    BY <1>5, <2>1, InvalidateLeaves DEF Invalidate, ActiveOf
  <2>3. send[s].count \in 1 .. MaxAttempts
    BY <1>5 DEF Invalidate, Allowed, CountInv, TypeOK
  <2> QED BY <1>2, <1>3, <1>5, <2>1, <2>2, <2>3 DEF Invalidate
<1>6. ASSUME NEW s \in Sends, Sequence(s) PROVE Good
  <2>1. /\ \A r \in Sends \ {s} : send'[r] = send[r]
        /\ send[s].pc = "sequence" /\ send'[s].pc = "create" /\ otp' = otp
        /\ \A r \in Sends : Kept(r)
    BY <1>6 DEF Sequence, Kept, TypeOK
  <2> QED BY <1>3, <2>1 DEF MidSend
<1>7. ASSUME NEW s \in Sends, Create(s) PROVE Good
  <2>1. "dispatch" \in SendPc /\ Goto(s, "dispatch") /\ Made(s)
    BY <1>7 DEF Create, SendPc, MidSend
  <2>2. \A r \in Sends : otp'[r].row # "absent" => Made(r)
    BY <1>7, <2>1 DEF Create, TypeOK
  <2> QED BY <1>2, <1>3, <2>1, <2>2 DEF MidSend
<1>8. ASSUME NEW s \in Sends, NEW outcome \in {"delivered", "failed"}, Dispatched(s, outcome)
      PROVE  Good
  <2>1. outcome \in SendPc \ MidSend /\ Goto(s, outcome)
    BY <1>8 DEF Dispatched, SendPc, SendEnd, MidSend
  <2>2. \A r \in Sends : otp'[r].row # "absent" => Made(r)
    BY <1>8 DEF Dispatched, TypeOK, OtpRow
  <2> QED BY <1>2, <1>3, <2>1, <2>2
<1>9. ASSUME NEW s \in Sends, Incr(s) PROVE Good
  <2>1. /\ \A r \in Sends \ {s} : send'[r] = send[r]
        /\ send[s].pc = "incr" /\ send'[s].pc \in {"expire", "counted"} /\ otp' = otp
    BY <1>9 DEF Incr, TypeOK
  <2>2. ~Made(s)' /\ ~Early(s)'
    BY <2>1 DEF NumberInv, Unmade, MidSend
  <2>3. \A r \in Sends \ {s} : ~CountedNow(r)
    BY <1>3, <2>1 DEF Kept
  <2>4. CountedNow(s)
    <3>1. send[s].count = 0 /\ send'[s].count = Incremented(send[s].user).value
          /\ send[s].user \in Users
      BY <1>9 DEF Incr, CountInv, TypeOK
    <3>2. send'[s].count > 0
      BY <3>1 DEF Incremented, TypeOK
    <3> QED BY <3>1, <3>2 DEF Kept
  <2> QED BY <2>1, <2>2, <2>3, <2>4
<1>10. ASSUME NEW s \in Sends, IncrReplyLost(s) PROVE Good
  BY <1>3, <1>10 DEF IncrReplyLost, Kept
<1>11. ASSUME NEW v \in Verifies, NEW code \in Sends \cup {Nobody}, VerifyRead(v, code)
       PROVE  Good
  BY <1>3, <1>11 DEF VerifyRead, Kept
<1>12. ASSUME NEW v \in Verifies, VerifyCommit(v) PROVE Good
  <2>1. send' = send /\ verify[v].code \in Sends /\ otp[verify[v].code].row # "absent"
    BY <1>12 DEF VerifyCommit, NumberInv
  <2>2. \A r \in Sends : otp'[r].row # "absent" => otp[r].row # "absent"
    BY <1>12, <2>1 DEF VerifyCommit, TypeOK
  <2> QED BY <1>3, <2>1, <2>2 DEF Kept
<1>13. ASSUME NEW u \in Users, DeleteAccount(u) PROVE Good
  BY <1>3, <1>13 DEF DeleteAccount, Kept
<1>14. ASSUME Crash PROVE Good
  <2>1. /\ otp' = otp
        /\ \A r \in Sends : send'[r] = send[r] \/ (Kept(r) /\ send'[r].pc = "aborted")
    BY <1>14 DEF Crash, Kept, TypeOK
  <2> QED BY <1>3, <2>1 DEF Kept, MidSend
<1>15. ASSUME Tick \/ UNCHANGED vars PROVE Good
  BY <1>3, <1>15 DEF Tick, vars, Kept
<1> HIDE DEF Good
<1>16. Good
  BY <1>4, <1>5, <1>6, <1>7, <1>8, <1>9, <1>10, <1>11, <1>12, <1>13, <1>14, <1>15
     DEF Next, SendStep
<1> QED BY <1>16 DEF Good

LEMMA QuotaInit == Init => QuotaInv
<1> SUFFICES ASSUME Init PROVE QuotaInv
  OBVIOUS
<1>1. \A s \in Sends : send[s].pc = "idle" /\ send[s].count = 0 /\ otp[s].row = "absent"
  BY DEF Init
<1>2. Counted = {}
  BY <1>1 DEF Counted
<1> QED BY <1>1, <1>2 DEF QuotaInv, CountInv, KeyInv, LaterKeyInv, SpanInv, MidSend

LEMMA QuotaHolds == Spec => [](IInv /\ QuotaInv)
<1>1. IInv /\ IInv' /\ QuotaInv /\ [Next]_vars => QuotaInv'
  <2> SUFFICES ASSUME IInv, IInv', QuotaInv, [Next]_vars PROVE QuotaInv'
    OBVIOUS
  <2>1. TypeOK /\ TypeOK' /\ NumberInv /\ Keeps
    BY TypeNext DEF IInv
  <2>2. /\ \A u \in Users : KeyStep(u)
        /\ \A s \in Sends : Kept(s) \/ CountedNow(s)
        /\ \A r, s \in Sends : Kept(r) \/ Kept(s) \/ r = s
    BY <2>1, StepCases DEF QuotaInv
  <2>3. CountInv' /\ KeyInv'
    BY <2>1, <2>2, CountNext, KeyNext DEF QuotaInv
  <2>4. LaterKeyInv' /\ SpanInv'
    BY <2>1, <2>2, LaterKeyNext, SpanNext DEF QuotaInv
  <2> QED BY <2>3, <2>4 DEF QuotaInv
<1> QED BY <1>1, QuotaInit, InvHolds, PTL DEF Spec

(* In a stretch as long as a window, one send at most has count 1, and two *)
(* have any other: a number for each below two quotas.                     *)
LEMMA QuotaCount == TypeOK /\ QuotaInv => QuotaPerWindow
<1> USE OtpAssumption
<1> SUFFICES ASSUME TypeOK, QuotaInv, NEW u \in Users, NEW t \in 0 .. MaxTime
             PROVE  Cardinality({s \in Sends : /\ send[s].user = u /\ otp[s].row # "absent"
                                               /\ send[s].countedAt \in t .. t + Window - 1})
                      <= 2 * MaxAttempts - 1
  BY DEF QuotaPerWindow
<1> DEFINE S == {s \in Sends : /\ send[s].user = u /\ otp[s].row # "absent"
                               /\ send[s].countedAt \in t .. t + Window - 1}
           Second(s) == \E r \in S : /\ send[r].count = send[s].count
                                     /\ send[r].countedAt < send[s].countedAt
           f == [s \in S |-> IF send[s].count = 1 THEN 1
                             ELSE IF Second(s) THEN 2 * send[s].count - 1
                                               ELSE 2 * send[s].count - 2]
<1>1. \A s \in S : /\ s \in Counted /\ send[s].count \in 1 .. MaxAttempts /\ send[s].user = u
                   /\ send[s].countedAt \in Nat
                   /\ t <= send[s].countedAt /\ send[s].countedAt < t + Window
  BY DEF QuotaInv, CountInv, Counted, TypeOK
<1>2. f \in [S -> 1 .. 2 * MaxAttempts - 1]
  <2> SUFFICES ASSUME NEW s \in S PROVE f[s] \in 1 .. 2 * MaxAttempts - 1
    OBVIOUS
  <2> QED BY <1>1
<1>3. ASSUME NEW r \in S, NEW s \in S, send[r].count = send[s].count,
             send[r].countedAt < send[s].countedAt
      PROVE  send[s].count # 1 /\ ~Second(r) /\ Second(s)
  <2>1. send[s].count # 1
    <3>1. send[r].count = 1 => send[s].countedAt >= send[r].countedAt + Window
      BY <1>1, <1>3 DEF QuotaInv, SpanInv, Peers
    <3> QED BY <1>1, <1>3, <3>1
  <2>2. ASSUME NEW w \in S, send[w].count = send[r].count, send[w].countedAt < send[r].countedAt
        PROVE  FALSE
    <3>1. send[s].countedAt >= send[w].countedAt + Window
      BY <1>1, <1>3, <2>2 DEF QuotaInv, SpanInv, Peers
    <3> QED BY <1>1, <3>1
  <2> QED BY <1>3, <2>1, <2>2
<1>4. ASSUME NEW r \in S, NEW s \in S, r # s, send[r].count = send[s].count
      PROVE  f[r] # f[s]
  <2>1. send[r].countedAt # send[s].countedAt
    BY <1>1, <1>4 DEF QuotaInv, SpanInv, Peers
  <2>2. CASE send[r].countedAt < send[s].countedAt
    <3>1. send[s].count # 1 /\ ~Second(r) /\ Second(s)
      BY <1>3, <1>4, <2>2
    <3>2. f[r] = 2 * send[s].count - 2 /\ f[s] = 2 * send[s].count - 1
      BY <1>4, <3>1
    <3> QED BY <1>1, <3>2
  <2>3. CASE send[s].countedAt < send[r].countedAt
    <3>1. send[r].count # 1 /\ ~Second(s) /\ Second(r)
      BY <1>3, <1>4, <2>3
    <3>2. f[s] = 2 * send[s].count - 2 /\ f[r] = 2 * send[s].count - 1
      BY <1>4, <3>1
    <3> QED BY <1>1, <3>2
  <2> QED BY <1>1, <2>1, <2>2, <2>3
<1>5. ASSUME NEW r \in S, NEW s \in S, send[r].count # send[s].count
      PROVE  f[r] # f[s]
  <2>1. /\ send[r].count \in Nat /\ send[s].count \in Nat
        /\ send[r].count >= 1 /\ send[s].count >= 1
    BY <1>1
  <2>2. /\ f[r] \in {2 * send[r].count - 1, 2 * send[r].count - 2}
        /\ send[r].count = 1 => f[r] = 1
        /\ f[s] \in {2 * send[s].count - 1, 2 * send[s].count - 2}
        /\ send[s].count = 1 => f[s] = 1
    OBVIOUS
  <2> HIDE DEF f
  <2> QED BY <1>5, <2>1, <2>2
<1> HIDE DEF f
<1>6. f \in Injection(S, 1 .. 2 * MaxAttempts - 1)
  BY <1>2, <1>4, <1>5 DEF Injection, IsInjective
<1>7. IsFiniteSet(1 .. 2 * MaxAttempts - 1)
      /\ Cardinality(1 .. 2 * MaxAttempts - 1) = 2 * MaxAttempts - 1
  <2>1. 1 \in Int /\ 2 * MaxAttempts - 1 \in Int /\ 2 * MaxAttempts - 1 >= 1
    OBVIOUS
  <2> QED BY <2>1, FS_Interval
<1> HIDE DEF S
<1>8. Cardinality(S) <= 2 * MaxAttempts - 1
  BY <1>6, <1>7, FS_Injection
<1> QED BY <1>8 DEF S

(* However the windows fall, and however replies are lost, replayed and    *)
(* sends killed, fewer than two quotas of codes are granted to a user in   *)
(* any stretch as long as a window.                                        *)
THEOREM QuotaKept == Spec => []QuotaPerWindow
<1>1. IInv /\ QuotaInv => QuotaPerWindow
  BY QuotaCount DEF IInv
<1> QED BY <1>1, QuotaHolds, PTL

=============================================================================
