---------------------- MODULE NotificationOutbox_proofs ----------------------
(***************************************************************************)
(* Proofs about NotificationOutbox, for any number of notices and polls    *)
(* and any limits: what 'sent' means, when a settled notice may change,    *)
(* and the safety part of the refinement of NoticeDelivery.                *)
(***************************************************************************)
EXTENDS NotificationOutbox, FiniteSetTheorems, TLAPS

(* A non-empty set of record numbers has a least one, so that the loop of  *)
(* a poll always has a current record.  The initial segments of the set    *)
(* are well-founded by strict inclusion.                                   *)
LEMMA LeastExists ==
  ASSUME NEW T \in SUBSET Records, T # {}
  PROVE  \E n \in T : \A m \in T : n <= m
<1> DEFINE R == StrictSubsetOrdering(T)
           F == FiniteSubsetsOf(T)
           Upto(k) == {m \in T : m <= k}
           Segments == {Upto(k) : k \in T}
<1>1. IsFiniteSet(T)
  <2>1. IsFiniteSet(Records)
    BY OutboxAssumption, FS_Interval, 1 \in Int, N \in Int DEF Records
  <2> QED BY <2>1, FS_Subset
<1>2. IsWellFoundedOn(R, F)
  BY FS_StrictSubsetOrderingWellFounded
<1>3. Segments \subseteq F /\ Segments # {}
  <2>1. \A k \in T : IsFiniteSet(Upto(k))
    BY <1>1, FS_Subset
  <2> QED BY <2>1 DEF FiniteSubsetsOf
<1>4. \E x \in Segments : \A y \in Segments : <<y, x>> \notin R
  <2> HIDE DEF R, F, Segments
  <2> QED BY <1>2, <1>3, WFMin
<1>5. PICK x \in T : \A y \in T : <<Upto(y), Upto(x)>> \notin R
  BY <1>4
<1>6. T \subseteq Int
  BY OutboxAssumption DEF Records
<1>7. \A y \in T : x <= y
  <2>0. SUFFICES ASSUME NEW y \in T, y < x PROVE FALSE
    BY <1>6
  <2>1. Upto(y) \subseteq Upto(x)
    <3>1. ASSUME NEW m \in T, m <= y PROVE m <= x
      <4>1. m \in Int /\ y \in Int /\ x \in Int
        BY <1>6
      <4> QED BY <4>1, <3>1, <2>0
    <3> QED BY <3>1
  <2>2. x \in Upto(x) /\ x \notin Upto(y)
    BY <1>6, <2>0
  <2>3. <<Upto(y), Upto(x)>> \in R
    BY <2>1, <2>2 DEF StrictSubsetOrdering
  <2> QED BY <2>3, <1>5
<1> QED BY <1>7

(* The record a busy poll is at is one it holds.                           *)
LEMMA CurrentHeld ==
  ASSUME TypeOK, NEW p \in Polls, poll[p].pc # "idle"
  PROVE  Current(p) \in poll[p].todo /\ Current(p) \in Records
<1>1. poll[p].todo \in SUBSET Records /\ poll[p].todo # {}
  BY DEF TypeOK
<1>2. \E n \in poll[p].todo : \A m \in poll[p].todo : n <= m
  BY <1>1, LeastExists
<1> QED BY <1>1, <1>2 DEF Current

(* What Advance leaves of a poll: one record less, or nothing.             *)
LEMMA AdvanceLeaves ==
  ASSUME TypeOK, NEW p \in Polls, poll[p].pc # "idle", Advance(p)
  PROVE  /\ poll' \in [Polls -> [pc : {"idle", "sending", "accepted"},
                                 todo : SUBSET Records, seen : [Records -> Nat]]]
         /\ poll'[p].todo = poll[p].todo \ {Current(p)}
         /\ poll'[p].pc \in {"idle", "sending"}
         /\ poll'[p].pc = "idle" <=> poll'[p].todo = {}
         /\ poll'[p].pc = "sending" => poll'[p].seen = poll[p].seen
         /\ \A q \in Polls \ {p} : poll'[q] = poll[q]
<1>1. CASE poll[p].todo \ {Current(p)} = {}
  BY <1>1 DEF Advance, Idle, TypeOK
<1>2. CASE poll[p].todo \ {Current(p)} # {}
  BY <1>2 DEF Advance, TypeOK
<1> QED BY <1>1, <1>2

-----------------------------------------------------------------------------
(* The inductive invariant.                                                *)

(* A mail the provider has taken is counted before its row is marked.      *)
DeliveredInv ==
  /\ SentWasDelivered
  /\ \A p \in Polls : poll[p].pc = "accepted" => mails[Current(p)] > 0

(* A record that a poll holds has been inserted; if no two polls ever held *)
(* it at once, it is still queued and no other poll holds it.              *)
HoldInv ==
  \A p \in Polls : \A n \in poll[p].todo :
    /\ row[n] # "absent"
    /\ n \notin crossed =>
         row[n] = "queued" /\ \A q \in Polls \ {p} : n \notin poll[q].todo

IInv == TypeOK /\ DeliveredInv /\ HoldInv

LEMMA InitInv == Init => IInv
  BY OutboxAssumption
     DEF Init, IInv, TypeOK, DeliveredInv, SentWasDelivered, HoldInv, Idle, Records

(* A step that takes poll p from its current record and gives the row the  *)
(* status s preserves the invariant, if 'sent' is given to a mailed record.*)
LEMMA LeavePreserves ==
  ASSUME IInv, NEW p \in Polls, poll[p].pc \in {"sending", "accepted"}, Advance(p),
         NEW s \in {"queued", "sent", "failed"},
         \/ row' = [row EXCEPT ![Current(p)] = s] /\ s # "queued"
         \/ row' = row,
         row' # row => (s = "sent" => mails[Current(p)] > 0),
         retry' \in [Records -> Nat],
         UNCHANGED <<mails, timer, crossed, restarts>>
  PROVE  IInv'
<1>1. TypeOK /\ Current(p) \in poll[p].todo /\ Current(p) \in Records
  BY CurrentHeld DEF IInv
<1>2. /\ poll' \in [Polls -> [pc : {"idle", "sending", "accepted"},
                              todo : SUBSET Records, seen : [Records -> Nat]]]
      /\ poll'[p].todo = poll[p].todo \ {Current(p)}
      /\ poll'[p].pc \in {"idle", "sending"}
      /\ poll'[p].pc = "idle" <=> poll'[p].todo = {}
      /\ \A q \in Polls \ {p} : poll'[q] = poll[q]
  BY <1>1, AdvanceLeaves
<1>3. TypeOK'
  <2>1. row' \in [Records -> {"absent", "queued", "sent", "failed"}]
    BY <1>1 DEF TypeOK
  <2>2. \A q \in Polls : poll'[q].pc = "idle" <=> poll'[q].todo = {}
    BY <1>1, <1>2 DEF TypeOK
  <2> QED BY <1>1, <1>2, <2>1, <2>2 DEF TypeOK
<1>4. DeliveredInv'
  <2>1. SentWasDelivered'
    BY <1>1 DEF IInv, DeliveredInv, SentWasDelivered, TypeOK
  <2>2. ASSUME NEW q \in Polls, poll'[q].pc = "accepted"
        PROVE  mails'[Current(q)'] > 0
    <3>1. q # p /\ poll'[q] = poll[q]
      BY <1>2, <2>2
    <3>2. Current(q)' = Current(q)
      BY <3>1 DEF Current
    <3> QED BY <3>1, <3>2, <2>2 DEF IInv, DeliveredInv
  <2> QED BY <2>1, <2>2 DEF DeliveredInv
<1>5. HoldInv'
  <2> SUFFICES ASSUME NEW q \in Polls, NEW n \in poll'[q].todo
               PROVE  /\ row'[n] # "absent"
                      /\ n \notin crossed' =>
                           row'[n] = "queued" /\ \A r \in Polls \ {q} : n \notin poll'[r].todo
    BY DEF HoldInv
  <2>1. n \in poll[q].todo /\ n \in Records
    BY <1>1, <1>2 DEF TypeOK
  <2>2. row'[n] # "absent"
    BY <2>1, <1>1 DEF IInv, HoldInv, TypeOK
  <2>3. ASSUME n \notin crossed
        PROVE  row'[n] = "queued" /\ \A r \in Polls \ {q} : n \notin poll'[r].todo
    <3>1. row[n] = "queued" /\ \A r \in Polls \ {q} : n \notin poll[r].todo
      BY <2>1, <2>3 DEF IInv, HoldInv
    <3>2. n # Current(p)
      BY <3>1, <1>1, <1>2
    <3> QED BY <3>1, <3>2, <1>1, <1>2, <2>1 DEF TypeOK
  <2> QED BY <2>2, <2>3
<1> QED BY <1>3, <1>4, <1>5 DEF IInv

LEMMA NextInv == IInv /\ [Next]_vars => IInv'
<1> SUFFICES ASSUME IInv, [Next]_vars PROVE IInv'
  OBVIOUS
<1> USE OutboxAssumption
<1>1. ASSUME NEW n \in Records, Enqueue(n) PROVE IInv'
  <2>1. TypeOK'
    BY <1>1 DEF Enqueue, IInv, TypeOK
  <2>2. \A p \in Polls : Current(p)' = Current(p)
    BY <1>1 DEF Enqueue, Current
  <2>3. DeliveredInv'
    BY <1>1, <2>2 DEF Enqueue, IInv, TypeOK, DeliveredInv, SentWasDelivered
  <2>4. HoldInv'
    BY <1>1 DEF Enqueue, IInv, TypeOK, HoldInv
  <2> QED BY <2>1, <2>3, <2>4 DEF IInv
<1>2. ASSUME NEW p \in Polls, StartPoll(p) PROVE IInv'
  <2>1. Queued \in SUBSET Records
    BY DEF Queued
  <2>2. TypeOK'
    BY <1>2, <2>1 DEF StartPoll, IInv, TypeOK
  <2>3. \A q \in Polls \ {p} : poll'[q] = poll[q] /\ Current(q)' = Current(q)
    BY <1>2 DEF StartPoll, Current, IInv, TypeOK
  <2>4. poll'[p].pc = "sending" /\ poll'[p].todo = Queued
    BY <1>2 DEF StartPoll, IInv, TypeOK
  <2>5. DeliveredInv'
    BY <1>2, <2>3, <2>4 DEF StartPoll, IInv, DeliveredInv, SentWasDelivered
  <2>6. HoldInv'
    <3> SUFFICES ASSUME NEW q \in Polls, NEW n \in poll'[q].todo
                 PROVE  /\ row'[n] # "absent"
                        /\ n \notin crossed' =>
                             row'[n] = "queued" /\ \A r \in Polls \ {q} : n \notin poll'[r].todo
      BY DEF HoldInv
    <3>1. row' = row
      BY <1>2 DEF StartPoll
    <3>2. crossed' = crossed \cup {m \in Queued : \E r \in Polls : m \in poll[r].todo}
      BY <1>2 DEF StartPoll
    <3>3. CASE q = p
      BY <3>1, <3>2, <3>3, <2>3, <2>4 DEF Queued
    <3>4. CASE q # p
      <4>1. n \in poll[q].todo
        BY <3>4, <2>3
      <4>2. row[n] # "absent"
        BY <4>1 DEF IInv, HoldInv
      <4>3. ASSUME n \notin crossed'
            PROVE  row[n] = "queued" /\ \A r \in Polls \ {q} : n \notin poll'[r].todo
        <5>1. row[n] = "queued" /\ \A r \in Polls \ {q} : n \notin poll[r].todo
          BY <4>1, <4>3, <3>2 DEF IInv, HoldInv
        <5>2. n \notin Queued
          BY <4>1, <4>3, <3>2
        <5> QED BY <5>1, <5>2, <2>3, <2>4
      <4> QED BY <4>2, <4>3, <3>1
    <3> QED BY <3>3, <3>4
  <2> QED BY <2>2, <2>5, <2>6 DEF IInv
<1>3. ASSUME NEW p \in Polls, Accept(p) PROVE IInv'
  <2>1. TypeOK /\ Current(p) \in poll[p].todo /\ Current(p) \in Records
    BY <1>3, CurrentHeld DEF Accept, IInv
  <2>2. TypeOK'
    BY <1>3, <2>1 DEF Accept, TypeOK
  <2>3. \A q \in Polls : poll'[q].todo = poll[q].todo
    BY <1>3, <2>1 DEF Accept, TypeOK
  <2>4. \A q \in Polls : Current(q)' = Current(q)
    BY <2>3 DEF Current
  <2>5. \A n \in Records : mails'[n] >= mails[n]
    BY <1>3, <2>1 DEF Accept, TypeOK
  <2>6. mails'[Current(p)] > 0
    BY <1>3, <2>1 DEF Accept, TypeOK
  <2>7. DeliveredInv'
    <3>1. SentWasDelivered'
      BY <1>3, <2>2, <2>5, <2>1 DEF Accept, IInv, DeliveredInv, SentWasDelivered, TypeOK
    <3>2. ASSUME NEW q \in Polls, poll'[q].pc = "accepted", q # p
          PROVE  mails'[Current(q)] > 0
      <4>1. poll[q].pc = "accepted"
        BY <1>3, <3>2, <2>1 DEF Accept, TypeOK
      <4>2. Current(q) \in Records /\ mails[Current(q)] > 0
        BY <4>1, <2>1, CurrentHeld DEF IInv, DeliveredInv
      <4> QED BY <4>2, <2>5, <2>1, <2>2 DEF TypeOK
    <3> QED BY <3>1, <3>2, <2>4, <2>6 DEF DeliveredInv
  <2>8. HoldInv'
    BY <1>3, <2>3 DEF Accept, IInv, HoldInv
  <2> QED BY <2>2, <2>7, <2>8 DEF IInv
<1>4. ASSUME NEW p \in Polls, SendOk(p) PROVE IInv'
  <2>1. mails[Current(p)] > 0
    BY <1>4 DEF SendOk, IInv, DeliveredInv
  <2>2. retry' \in [Records -> Nat]
    BY <1>4 DEF SendOk, IInv, TypeOK
  <2> QED BY <1>4, <2>1, <2>2, LeavePreserves DEF SendOk
<1>5. ASSUME NEW p \in Polls, Retry(p) PROVE IInv'
  <2>1. Current(p) \in Records
    BY <1>5, CurrentHeld DEF Retry, Failing, IInv
  <2>2. retry' \in [Records -> Nat]
    BY <1>5, <2>1 DEF Retry, IInv, TypeOK
  <2> QED BY <1>5, <2>2, LeavePreserves DEF Retry, Failing
<1>6. ASSUME NEW p \in Polls, GiveUp(p) PROVE IInv'
  <2>1. retry' \in [Records -> Nat]
    BY <1>6 DEF GiveUp, IInv, TypeOK
  <2> QED BY <1>6, <2>1, LeavePreserves DEF GiveUp, Failing
<1>7. ASSUME Stop PROVE IInv'
  <2>1. \A p \in Polls : Current(p)' = Current(p)
    BY <1>7 DEF Stop, Current
  <2> QED
    BY <1>7, <2>1 DEF Stop, IInv, TypeOK, DeliveredInv, SentWasDelivered, HoldInv
<1>8. ASSUME Restart PROVE IInv'
  <2>1. \A p \in Polls : poll'[p].pc = "idle" /\ poll'[p].todo = {}
    BY <1>8 DEF Restart, Idle
  <2>2. TypeOK'
    BY <1>8, <2>1 DEF Restart, IInv, TypeOK, Idle
  <2>3. DeliveredInv'
    BY <1>8, <2>1 DEF Restart, IInv, DeliveredInv, SentWasDelivered
  <2>4. HoldInv'
    BY <2>1 DEF HoldInv
  <2> QED BY <2>2, <2>3, <2>4 DEF IInv
<1>9. ASSUME UNCHANGED vars PROVE IInv'
  <2>1. \A p \in Polls : Current(p)' = Current(p)
    BY <1>9 DEF vars, Current
  <2> QED
    BY <1>9, <2>1 DEF vars, IInv, TypeOK, DeliveredInv, SentWasDelivered, HoldInv
<1> QED
  BY <1>1, <1>2, <1>3, <1>4, <1>5, <1>6, <1>7, <1>8, <1>9 DEF Next, PollStep

LEMMA InvHolds == Spec => []IInv
  BY InitInv, NextInv, PTL DEF Spec

(* The tables and the polls keep their shape.                              *)
THEOREM TypeCorrect == Spec => []TypeOK
  BY InvHolds, PTL DEF IInv

(* A record is marked 'sent' only after the provider took a mail for it,   *)
(* whatever polls overlap and wherever the process stops.                  *)
THEOREM SentMeansMailed == Spec => []SentWasDelivered
  BY InvHolds, PTL DEF IInv, DeliveredInv

(* A notice changes after it was settled only if two polls held it.        *)
THEOREM SettledStays == Spec => SettledIsFinal
<1> DEFINE Step == \A n \in Records :
       (row[n] \in {"sent", "failed"} /\ n \notin crossed) => row'[n] = row[n]
<1>1. ASSUME IInv, [Next]_vars PROVE Step
  <2> SUFFICES ASSUME NEW n \in Records, row[n] \in {"sent", "failed"}, n \notin crossed
               PROVE  row'[n] = row[n]
    OBVIOUS
  <2>1. \A p \in Polls : n \notin poll[p].todo
    BY <1>1 DEF IInv, HoldInv
  <2>2. \A p \in Polls : poll[p].pc # "idle" => Current(p) # n
    BY <1>1, <2>1, CurrentHeld DEF IInv
  <2>3. \A p \in Polls : PollStep(p) => row'[n] = row[n]
    BY <1>1, <2>2
       DEF PollStep, StartPoll, Accept, SendOk, Retry, GiveUp, Failing, IInv, TypeOK
  <2>4. ASSUME NEW m \in Records, Enqueue(m) PROVE row'[n] = row[n]
    BY <1>1, <2>4 DEF Enqueue, IInv, TypeOK
  <2> QED BY <1>1, <2>3, <2>4 DEF Next, Stop, Restart, vars
<1>2. Spec => [][Step]_vars
  BY InvHolds, <1>1, PTL DEF Spec
<1> QED BY <1>2 DEF SettledIsFinal

-----------------------------------------------------------------------------
(* The safety part of the refinement.                                      *)

(* A step that settles record n, settled or queued before, is a step of    *)
(* NoticeDelivery or leaves what it sees alone.                            *)
LEMMA SettleMaps ==
  ASSUME TypeOK, NEW n \in Records, row[n] # "absent",
         NEW s \in {"sent", "failed"}, row' = [row EXCEPT ![n] = s]
  PROVE  Promise!Settle(n) \/ Delivery' = Delivery
<1>1. CASE row[n] = "queued"
  <2>1. Delivery[n] = "queued" /\ Delivery' = [Delivery EXCEPT ![n] = "settled"]
    BY <1>1 DEF Delivery, TypeOK
  <2> QED BY <2>1 DEF Promise!Settle, Delivery
<1>2. CASE row[n] # "queued"
  <2>1. Delivery' = Delivery
    BY <1>2 DEF Delivery, TypeOK
  <2> QED BY <2>1
<1> QED BY <1>1, <1>2

(* As far as safety goes, the worker keeps its promise: a notice that is   *)
(* queued is settled once and stays settled.                               *)
THEOREM PromiseIsSafe ==
  Spec => Promise!Init /\ [][Promise!Next]_Delivery
<1>1. Init => Promise!Init
  BY DEF Init, Promise!Init, Delivery
<1>2. ASSUME IInv, [Next]_vars PROVE [Promise!Next]_Delivery
  <2>1. \A p \in Polls : poll[p].pc # "idle" =>
          Current(p) \in Records /\ row[Current(p)] # "absent"
    BY <1>2, CurrentHeld DEF IInv, HoldInv
  <2>2. ASSUME NEW n \in Records, Enqueue(n) PROVE Promise!Queue(n)
    <3>1. Delivery[n] = "none" /\ Delivery' = [Delivery EXCEPT ![n] = "queued"]
      BY <1>2, <2>2 DEF Enqueue, Delivery, IInv, TypeOK
    <3> QED BY <3>1 DEF Promise!Queue, Delivery
  <2>3. ASSUME NEW p \in Polls, SendOk(p) PROVE [Promise!Next]_Delivery
    <3>1. Current(p) \in Records /\ row[Current(p)] # "absent"
      BY <2>1, <2>3 DEF SendOk
    <3>2. TypeOK /\ row' = [row EXCEPT ![Current(p)] = "sent"]
      BY <1>2, <2>3 DEF SendOk, IInv
    <3>3. Promise!Settle(Current(p)) \/ Delivery' = Delivery
      BY <3>1, <3>2, SettleMaps
    <3> QED BY <3>1, <3>3 DEF Promise!Next
  <2>4. ASSUME NEW p \in Polls, GiveUp(p) PROVE [Promise!Next]_Delivery
    <3>1. Current(p) \in Records /\ row[Current(p)] # "absent"
      BY <2>1, <2>4 DEF GiveUp, Failing
    <3>2. TypeOK /\ row' = [row EXCEPT ![Current(p)] = "failed"]
      BY <1>2, <2>4 DEF GiveUp, IInv
    <3>3. Promise!Settle(Current(p)) \/ Delivery' = Delivery
      BY <3>1, <3>2, SettleMaps
    <3> QED BY <3>1, <3>3 DEF Promise!Next
  <2>5. row' = row => Delivery' = Delivery
    BY DEF Delivery
  <2>6. ASSUME NEW p \in Polls, StartPoll(p) \/ Accept(p) \/ Retry(p)
        PROVE  row' = row
    BY <2>6 DEF StartPoll, Accept, Retry
  <2>7. Stop \/ Restart \/ UNCHANGED vars => row' = row
    BY DEF Stop, Restart, vars
  <2> QED
    BY <1>2, <2>2, <2>3, <2>4, <2>5, <2>6, <2>7 DEF Next, PollStep, Promise!Next
<1> QED BY InvHolds, <1>1, <1>2, PTL DEF Spec

-----------------------------------------------------------------------------
(* Counting: retries and mails.                                            *)

(* The polls that hold a record; those of them that have not mailed it yet *)
(* and those that may still count a failure of it.                         *)
Holding(n) == {p \in Polls : n \in poll[p].todo}

Mailed(p, n) == poll[p].pc = "accepted" /\ Current(p) = n

Unmailed(n) == {p \in Holding(n) : ~Mailed(p, n)}

Counting(n) == {p \in Holding(n) : poll[p].seen[n] < MaxRetries}

(* Sizes of sets of polls, in the form the steps below use them.           *)
LEMMA PollSets ==
  /\ Cardinality(Polls) \in Nat
  /\ \A S \in SUBSET Polls :
       /\ Cardinality(S) \in Nat
       /\ Cardinality(S) <= Cardinality(Polls)
       /\ \A p \in Polls :
            /\ Cardinality(S \cup {p}) = IF p \in S THEN Cardinality(S) ELSE Cardinality(S) + 1
            /\ p \in S => Cardinality(S \ {p}) = Cardinality(S) - 1
<1>1. Cardinality(Polls) \in Nat
  BY OutboxAssumption, FS_CardinalityType
<1>2. ASSUME NEW S \in SUBSET Polls
      PROVE  /\ IsFiniteSet(S)
             /\ Cardinality(S) \in Nat
             /\ Cardinality(S) <= Cardinality(Polls)
  BY OutboxAssumption, FS_Subset, FS_CardinalityType
<1>3. ASSUME NEW S \in SUBSET Polls, NEW p \in Polls
      PROVE  /\ Cardinality(S \cup {p}) = IF p \in S THEN Cardinality(S) ELSE Cardinality(S) + 1
             /\ p \in S => Cardinality(S \ {p}) = Cardinality(S) - 1
  <2>1. IsFiniteSet(S) /\ Cardinality(S) \in Nat
    BY <1>2
  <2>2. Cardinality(S \cup {p}) = IF p \in S THEN Cardinality(S) ELSE Cardinality(S) + 1
    BY <2>1, FS_AddElement
  <2>3. p \in S => Cardinality(S \ {p}) = Cardinality(S) - 1
    BY <2>1, FS_RemoveElement
  <2> QED BY <2>2, <2>3
<1> QED BY <1>1, <1>2, <1>3

(* A record is retried below the limit, or by the polls that still may     *)
(* count; each mail of a queued record is one of a retry, of a poll that   *)
(* holds it, or of a poll that ended with its process.                     *)
RetryInv ==
  \A n \in Records :
    \/ retry[n] = 0 /\ Counting(n) = {}
    \/ retry[n] + Cardinality(Counting(n)) <= MaxRetries + Cardinality(Polls) - 1

Possible(n) == mails[n] + Cardinality(Unmailed(n))

MailInv ==
  \A n \in Records :
    /\ row[n] = "absent" => mails[n] = 0 /\ Holding(n) = {}
    /\ row[n] \in {"absent", "queued"} =>
         Possible(n) <= retry[n] + Cardinality(Holding(n)) + restarts * Cardinality(Polls)
    /\ Possible(n) <= MaxRetries + (2 + restarts) * Cardinality(Polls) - 1

CountInv == IInv /\ RetryInv /\ MailInv

LEMMA InitCount == Polls # {} /\ Init => CountInv
<1> SUFFICES ASSUME Polls # {}, Init PROVE CountInv
  OBVIOUS
<1>1. \A n \in Records : Holding(n) = {} /\ Counting(n) = {} /\ Unmailed(n) = {}
  BY DEF Init, Idle, Holding, Counting, Unmailed
<1>2. Cardinality({}) = 0
  BY FS_EmptySet
<1>3. RetryInv
  BY <1>1 DEF Init, RetryInv
<1>4. Cardinality(Polls) \in Nat \ {0}
  BY OutboxAssumption, FS_EmptySet, FS_CardinalityType
<1>5. \A n \in Records : Possible(n) = 0
  BY <1>1, <1>2 DEF Init, Possible
<1>6. 0 * Cardinality(Polls) = 0 /\ (2 + 0) * Cardinality(Polls) = 2 * Cardinality(Polls)
  BY <1>4
<1>7. MailInv
  <2> SUFFICES ASSUME NEW n \in Records
               PROVE  /\ mails[n] = 0 /\ Holding(n) = {}
                      /\ Possible(n) <= retry[n] + Cardinality(Holding(n))
                                         + restarts * Cardinality(Polls)
                      /\ Possible(n) <= MaxRetries + (2 + restarts) * Cardinality(Polls) - 1
    BY DEF MailInv
  <2>1. mails[n] = 0 /\ retry[n] = 0 /\ restarts = 0
    BY DEF Init
  <2>2. Holding(n) = {} /\ Possible(n) = 0
    BY <1>1, <1>5
  <2> QED BY <2>1, <2>2, <1>2, <1>4, <1>6, OutboxAssumption
<1> QED BY <1>3, <1>7, InitInv DEF CountInv

(* What a poll that leaves its current record changes of the three sets.   *)
LEMMA LeaveSets ==
  ASSUME TypeOK, NEW p \in Polls, poll[p].pc \in {"sending", "accepted"}, Advance(p),
         NEW n \in Records
  PROVE  /\ n = Current(p) =>
              /\ p \in Holding(n)
              /\ Holding(n)' = Holding(n) \ {p}
              /\ Unmailed(n)' = Unmailed(n) \ {p}
              /\ Counting(n)' = Counting(n) \ {p}
         /\ n # Current(p) =>
              /\ Holding(n)' = Holding(n)
              /\ Unmailed(n)' = Unmailed(n)
              /\ Counting(n)' = Counting(n)
<1>1. /\ Current(p) \in poll[p].todo
      /\ poll'[p].todo = poll[p].todo \ {Current(p)}
      /\ poll'[p].pc \in {"idle", "sending"}
      /\ poll'[p].pc = "idle" <=> poll'[p].todo = {}
      /\ poll'[p].pc = "sending" => poll'[p].seen = poll[p].seen
      /\ \A q \in Polls \ {p} : poll'[q] = poll[q]
  BY CurrentHeld, AdvanceLeaves
<1>2. \A q \in Polls \ {p} : Current(q)' = Current(q)
  BY <1>1 DEF Current
<1>3. \A q \in Polls \ {p} : Mailed(q, n)' <=> Mailed(q, n)
  BY <1>1, <1>2 DEF Mailed
<1>4. ~Mailed(p, n)'
  BY <1>1 DEF Mailed
<1>5. n \in poll'[p].todo => poll'[p].seen = poll[p].seen
  BY <1>1
<1>6. CASE n = Current(p)
  <2>1. p \in Holding(n)
    BY <1>1, <1>6 DEF Holding
  <2>2. n \notin poll'[p].todo
    BY <1>1, <1>6
  <2>3. Holding(n)' = Holding(n) \ {p}
    BY <2>2, <1>1 DEF Holding
  <2>4. Unmailed(n)' = Unmailed(n) \ {p}
    BY <2>3, <1>3 DEF Unmailed, Holding
  <2>5. Counting(n)' = Counting(n) \ {p}
    BY <2>3, <1>1 DEF Counting, Holding
  <2> QED BY <2>1, <2>3, <2>4, <2>5, <1>6
<1>7. CASE n # Current(p)
  <2>1. n \in poll'[p].todo <=> n \in poll[p].todo
    BY <1>1, <1>7
  <2>2. ~Mailed(p, n)
    BY <1>7 DEF Mailed
  <2>3. Holding(n)' = Holding(n)
    BY <2>1, <1>1 DEF Holding
  <2>4. Unmailed(n)' = Unmailed(n)
    BY <2>2, <2>3, <1>3, <1>4 DEF Unmailed, Holding
  <2>5. Counting(n)' = Counting(n)
    BY <2>1, <2>3, <1>1, <1>5 DEF Counting, Holding
  <2> QED BY <2>3, <2>4, <2>5, <1>7
<1> QED BY <1>6, <1>7

(* The sizes of the three sets when a poll p leaves record n, or another.  *)
LEMMA LeaveSizes ==
  ASSUME TypeOK, NEW p \in Polls, poll[p].pc \in {"sending", "accepted"}, Advance(p),
         NEW n \in Records
  PROVE  /\ {Cardinality(Holding(n)), Cardinality(Unmailed(n)), Cardinality(Counting(n)),
             Cardinality(Holding(n)'), Cardinality(Unmailed(n)'),
             Cardinality(Counting(n)')} \subseteq Nat
         /\ Cardinality(Holding(n)) <= Cardinality(Polls)
         /\ Cardinality(Unmailed(n)') <= Cardinality(Unmailed(n))
         /\ Cardinality(Counting(n)') <= Cardinality(Counting(n))
         /\ Counting(n) = {} => Counting(n)' = {}
         /\ n = Current(p) =>
              /\ Cardinality(Holding(n)') = Cardinality(Holding(n)) - 1
              /\ poll[p].pc = "sending" => Cardinality(Unmailed(n)') = Cardinality(Unmailed(n)) - 1
              /\ poll[p].seen[n] < MaxRetries =>
                   /\ Counting(n) # {}
                   /\ Cardinality(Counting(n)') = Cardinality(Counting(n)) - 1
         /\ n # Current(p) => Cardinality(Holding(n)') = Cardinality(Holding(n))
<1>1. /\ {Holding(n), Unmailed(n), Counting(n)} \subseteq SUBSET Polls
      /\ {Holding(n)', Unmailed(n)', Counting(n)'} \subseteq SUBSET Polls
  BY DEF Holding, Unmailed, Counting
<1>2. \A S \in SUBSET Polls :
        /\ Cardinality(S) \in Nat
        /\ Cardinality(S) <= Cardinality(Polls)
        /\ p \in S => Cardinality(S \ {p}) = Cardinality(S) - 1
        /\ Cardinality(S \ {p}) <= Cardinality(S)
  <2>1. ASSUME NEW S \in SUBSET Polls
        PROVE  Cardinality(S \ {p}) <= Cardinality(S)
    <3>1. CASE p \in S
      BY <3>1, PollSets
    <3>2. CASE p \notin S
      <4>1. S \ {p} = S
        BY <3>2
      <4>2. Cardinality(S) \in Nat
        BY PollSets
      <4> QED BY <4>1, <4>2
    <3> QED BY <3>1, <3>2
  <2> QED BY <2>1, PollSets
<1>3. CASE n = Current(p)
  <2>1. /\ p \in Holding(n)
        /\ Holding(n)' = Holding(n) \ {p}
        /\ Unmailed(n)' = Unmailed(n) \ {p}
        /\ Counting(n)' = Counting(n) \ {p}
    BY <1>3, LeaveSets
  <2>2. poll[p].pc = "sending" => p \in Unmailed(n)
    BY <2>1 DEF Unmailed, Mailed
  <2>3. poll[p].seen[n] < MaxRetries => p \in Counting(n)
    BY <2>1 DEF Counting
  <2>4. /\ Cardinality(Holding(n)') = Cardinality(Holding(n)) - 1
        /\ Cardinality(Unmailed(n)') <= Cardinality(Unmailed(n))
        /\ Cardinality(Counting(n)') <= Cardinality(Counting(n))
    BY <1>1, <1>2, <2>1
  <2>5. poll[p].pc = "sending" => Cardinality(Unmailed(n)') = Cardinality(Unmailed(n)) - 1
    BY <1>1, <1>2, <2>1, <2>2
  <2>6. poll[p].seen[n] < MaxRetries =>
          Counting(n) # {} /\ Cardinality(Counting(n)') = Cardinality(Counting(n)) - 1
    BY <1>1, <1>2, <2>1, <2>3
  <2>7. Counting(n) = {} => Counting(n)' = {}
    BY <2>1
  <2> QED BY <1>1, <1>2, <1>3, <2>4, <2>5, <2>6, <2>7
<1>4. CASE n # Current(p)
  <2>1. Holding(n)' = Holding(n) /\ Unmailed(n)' = Unmailed(n) /\ Counting(n)' = Counting(n)
    BY <1>4, LeaveSets
  <2>2. /\ Cardinality(Holding(n)) \in Nat /\ Cardinality(Unmailed(n)) \in Nat
        /\ Cardinality(Counting(n)) \in Nat
        /\ Cardinality(Holding(n)) <= Cardinality(Polls)
    BY <1>1, <1>2
  <2> QED BY <1>4, <2>1, <2>2
<1> QED BY <1>3, <1>4

(* The bound on mails follows from the account of a queued record.         *)
LEMMA MailsAreBounded ==
  ASSUME Polls # {}, RetryInv, TypeOK, NEW n \in Records, NEW m \in Int, NEW h \in Nat,
         h <= Cardinality(Polls), m <= retry[n] + h + restarts * Cardinality(Polls)
  PROVE  m <= MaxRetries + (2 + restarts) * Cardinality(Polls) - 1
<1> DEFINE C == Cardinality(Polls)
<1>1. C \in Nat \ {0}
  BY OutboxAssumption, FS_EmptySet, FS_CardinalityType
<1>2. Counting(n) \in SUBSET Polls
  BY DEF Holding, Counting
<1>3. h <= C
  OBVIOUS
<1>4. Cardinality(Counting(n)) \in Nat
  BY <1>2, PollSets
<1>5. retry[n] \in Nat /\ (retry[n] = 0 \/ retry[n] <= MaxRetries + C - 1)
  BY <1>1, <1>4, OutboxAssumption DEF RetryInv, TypeOK
<1>6. restarts \in Nat /\ restarts * C \in Nat /\ (2 + restarts) * C = 2 * C + restarts * C
  BY <1>1, OutboxAssumption DEF TypeOK
<1> HIDE DEF C
<1>7. m <= MaxRetries + (2 * C + restarts * C) - 1
  <2> DEFINE P == restarts * C
  <2>1. P \in Nat /\ m <= retry[n] + h + P
    BY <1>6 DEF C
  <2> HIDE DEF P
  <2>2. m <= MaxRetries + (2 * C + P) - 1
    BY <2>1, <1>1, <1>3, <1>5, OutboxAssumption
  <2> QED BY <2>2 DEF P
<1> QED BY <1>6, <1>7 DEF C

(* A step that leaves the three sets and the counts alone.                 *)
LEMMA SameSets ==
  ASSUME TypeOK, UNCHANGED poll
  PROVE  \A n \in Records : /\ Holding(n)' = Holding(n) /\ Unmailed(n)' = Unmailed(n)
                            /\ Counting(n)' = Counting(n)
  BY DEF Holding, Unmailed, Counting, Mailed, Current

(* A poll that leaves its record having counted a failure, or settled it.  *)
LEMMA LeaveCounts ==
  ASSUME Polls # {}, CountInv, TypeOK', NEW p \in Polls,
         poll[p].pc \in {"sending", "accepted"}, Advance(p),
         \/ /\ poll[p].seen[Current(p)] < MaxRetries
            /\ retry' = [retry EXCEPT ![Current(p)] = @ + 1]
            /\ row' = row
         \/ /\ row' \in {[row EXCEPT ![Current(p)] = s] : s \in {"sent", "failed"}}
            /\ retry' = retry,
         UNCHANGED <<mails, restarts>>
  PROVE  RetryInv' /\ MailInv'
<1>1. TypeOK /\ Current(p) \in poll[p].todo /\ Current(p) \in Records
  BY CurrentHeld DEF CountInv, IInv
<1>2. row[Current(p)] # "absent"
  BY <1>1 DEF CountInv, IInv, HoldInv
<1>3. restarts * Cardinality(Polls) \in Nat
  BY <1>1, PollSets, OutboxAssumption DEF TypeOK
<1>4. ASSUME NEW n \in Records
      PROVE  \/ retry'[n] = 0 /\ Counting(n)' = {}
             \/ retry'[n] + Cardinality(Counting(n)') <= MaxRetries + Cardinality(Polls) - 1
  <2>1. /\ Cardinality(Counting(n)) \in Nat /\ Cardinality(Counting(n)') \in Nat
        /\ Cardinality(Counting(n)') <= Cardinality(Counting(n))
        /\ Counting(n) = {} => Counting(n)' = {}
        /\ n = Current(p) /\ poll[p].seen[n] < MaxRetries =>
             /\ Counting(n) # {}
             /\ Cardinality(Counting(n)') = Cardinality(Counting(n)) - 1
    BY <1>1, LeaveSizes
  <2>2. retry[n] \in Nat /\ Cardinality(Polls) \in Nat /\ MaxRetries \in Nat
    BY <1>1, PollSets, OutboxAssumption DEF TypeOK
  <2>3. \/ retry[n] = 0 /\ Counting(n) = {}
        \/ retry[n] + Cardinality(Counting(n)) <= MaxRetries + Cardinality(Polls) - 1
    BY DEF CountInv, RetryInv
  <2>4. \/ retry'[n] = retry[n]
        \/ n = Current(p) /\ poll[p].seen[n] < MaxRetries /\ retry'[n] = retry[n] + 1
    BY <1>1 DEF TypeOK
  <2> QED BY <2>1, <2>2, <2>3, <2>4
<1>5. RetryInv'
  BY <1>4 DEF RetryInv
<1>6. ASSUME NEW n \in Records
      PROVE  /\ row'[n] = "absent" => mails'[n] = 0 /\ Holding(n)' = {}
             /\ row'[n] \in {"absent", "queued"} =>
                  Possible(n)' <= retry'[n] + Cardinality(Holding(n)')
                                  + restarts' * Cardinality(Polls)
             /\ Possible(n)' <= MaxRetries + (2 + restarts') * Cardinality(Polls) - 1
  <2>1. /\ {Cardinality(Holding(n)), Cardinality(Unmailed(n)), Cardinality(Holding(n)'),
            Cardinality(Unmailed(n)')} \subseteq Nat
        /\ Cardinality(Unmailed(n)') <= Cardinality(Unmailed(n))
        /\ n = Current(p) =>
             /\ Cardinality(Holding(n)') = Cardinality(Holding(n)) - 1
        /\ n # Current(p) => Cardinality(Holding(n)') = Cardinality(Holding(n))
    BY <1>1, LeaveSizes
  <2>2. mails[n] \in Nat /\ retry[n] \in Nat
    BY <1>1 DEF TypeOK
  <2>3. Possible(n)' <= Possible(n) /\ Possible(n)' \in Nat /\ Possible(n) \in Nat
    BY <2>1, <2>2 DEF Possible
  <2>4. /\ row[n] = "absent" => mails[n] = 0 /\ Holding(n) = {}
        /\ row[n] \in {"absent", "queued"} =>
             Possible(n) <= retry[n] + Cardinality(Holding(n)) + restarts * Cardinality(Polls)
        /\ Possible(n) <= MaxRetries + (2 + restarts) * Cardinality(Polls) - 1
    BY DEF CountInv, MailInv
  <2>5. restarts' = restarts /\ mails' = mails
    OBVIOUS
  <2>6. row'[n] = row[n] \/ (n = Current(p) /\ row'[n] \in {"sent", "failed"})
    BY <1>1 DEF TypeOK
  <2>7. row'[n] = "absent" => mails'[n] = 0 /\ Holding(n)' = {}
    <3>1. row'[n] = "absent" => n # Current(p) /\ row[n] = "absent"
      BY <2>6, <1>2
    <3>2. n # Current(p) => Holding(n)' = Holding(n)
      BY <1>1, LeaveSets
    <3> QED BY <3>1, <3>2, <2>4, <2>5
  <2>8. MaxRetries + (2 + restarts) * Cardinality(Polls) - 1 \in Int
    BY <1>1, PollSets, OutboxAssumption DEF TypeOK
  <2>9. Possible(n)' <= MaxRetries + (2 + restarts') * Cardinality(Polls) - 1
    <3> DEFINE B == MaxRetries + (2 + restarts) * Cardinality(Polls) - 1
    <3>1. B \in Int /\ Possible(n) <= B
      BY <2>4, <2>8
    <3> HIDE DEF B
    <3>2. Possible(n)' <= B
      BY <3>1, <2>3
    <3> QED BY <3>2, <2>5 DEF B
  <2>10. ASSUME row'[n] \in {"absent", "queued"}
         PROVE  Possible(n)' <= retry'[n] + Cardinality(Holding(n)')
                                + restarts' * Cardinality(Polls)
    <3> DEFINE P == restarts * Cardinality(Polls)
    <3>1. row[n] \in {"absent", "queued"}
      BY <2>6, <2>10
    <3>2. P \in Nat /\ Possible(n) <= retry[n] + Cardinality(Holding(n)) + P
      BY <3>1, <2>4, <1>3
    <3>3. n = Current(p) => row'[n] = row[n] \/ row'[n] \in {"sent", "failed"}
      BY <2>6
    <3>4. n = Current(p) => retry'[n] = retry[n] + 1
      BY <1>1, <2>10, <3>1 DEF TypeOK
    <3>5. n # Current(p) => retry'[n] = retry[n]
      BY <1>1 DEF TypeOK
    <3> HIDE DEF P
    <3>6. Possible(n)' <= retry'[n] + Cardinality(Holding(n)') + P
      BY <3>2, <3>4, <3>5, <2>1, <2>2, <2>3
    <3> QED BY <3>6, <2>5 DEF P
  <2> QED BY <2>7, <2>9, <2>10
<1> QED BY <1>5, <1>6 DEF MailInv

LEMMA NextCount == Polls # {} /\ CountInv /\ [Next]_vars => CountInv'
<1> SUFFICES ASSUME Polls # {}, CountInv, [Next]_vars PROVE CountInv'
  OBVIOUS
<1> DEFINE C == Cardinality(Polls)
<1>1. IInv /\ IInv' /\ TypeOK /\ TypeOK'
  BY NextInv DEF CountInv, IInv
<1>2. SUFFICES RetryInv' /\ MailInv'
  BY <1>1 DEF CountInv
<1>3. ASSUME NEW n \in Records, Enqueue(n) PROVE RetryInv' /\ MailInv'
  <2>1. UNCHANGED <<poll, retry, mails, restarts>>
    BY <1>3 DEF Enqueue
  <2>2. \A m \in Records : /\ Holding(m)' = Holding(m) /\ Unmailed(m)' = Unmailed(m)
                           /\ Counting(m)' = Counting(m)
    BY <2>1, <1>1, SameSets
  <2>3. \A m \in Records : row'[m] = row[m] \/ (row[m] = "absent" /\ row'[m] = "queued")
    BY <1>1, <1>3 DEF Enqueue, TypeOK
  <2>4. RetryInv'
    BY <2>1, <2>2 DEF CountInv, RetryInv
  <2>5. \A m \in Records : Possible(m)' = Possible(m)
    BY <2>1, <2>2 DEF Possible
  <2>6. MailInv'
    BY <2>1, <2>2, <2>3, <2>5 DEF CountInv, MailInv
  <2> QED BY <2>4, <2>6
<1>4. ASSUME NEW p \in Polls, StartPoll(p) PROVE RetryInv' /\ MailInv'
  <2>1. /\ UNCHANGED <<row, retry, mails, restarts>>
        /\ poll[p].todo = {} /\ poll[p].pc = "idle"
        /\ poll'[p] = [pc |-> "sending", todo |-> Queued, seen |-> retry]
        /\ \A q \in Polls \ {p} : poll'[q] = poll[q] /\ Current(q)' = Current(q)
    BY <1>1, <1>4 DEF StartPoll, TypeOK, Current
  <2>2. ASSUME NEW n \in Records
        PROVE  /\ p \notin Holding(n) /\ p \notin Unmailed(n) /\ p \notin Counting(n)
               /\ n \in Queued => Holding(n)' = Holding(n) \cup {p}
               /\ n \in Queued => Unmailed(n)' = Unmailed(n) \cup {p}
               /\ n \notin Queued => Holding(n)' = Holding(n) /\ Unmailed(n)' = Unmailed(n)
               /\ (n \in Queued /\ retry[n] < MaxRetries) \/ Counting(n)' = Counting(n)
    BY <2>1 DEF Holding, Unmailed, Counting, Mailed
  <2>3. ASSUME NEW n \in Records
        PROVE  \/ retry'[n] = 0 /\ Counting(n)' = {}
               \/ retry'[n] + Cardinality(Counting(n)') <= MaxRetries + C - 1
    <3>1. CASE n \in Queued /\ retry[n] < MaxRetries
      <4>1. Counting(n)' \in SUBSET Polls
        BY DEF Counting, Holding
      <4>2. Cardinality(Counting(n)') \in Nat /\ Cardinality(Counting(n)') <= C
        BY <4>1, PollSets
      <4>3. retry[n] \in Nat /\ C \in Nat /\ MaxRetries \in Nat
        BY <1>1, PollSets, OutboxAssumption DEF TypeOK
      <4> QED BY <4>2, <4>3, <3>1, <2>1
    <3>2. CASE Counting(n)' = Counting(n)
      BY <3>2, <2>1 DEF CountInv, RetryInv
    <3> QED BY <3>1, <3>2, <2>2
  <2>4. ASSUME NEW n \in Records
        PROVE  /\ row'[n] = "absent" => mails'[n] = 0 /\ Holding(n)' = {}
               /\ row'[n] \in {"absent", "queued"} =>
                    Possible(n)' <= retry'[n] + Cardinality(Holding(n)') + restarts' * C
               /\ Possible(n)' <= MaxRetries + (2 + restarts') * C - 1
    <3>1. CASE n \in Queued
      <4> DEFINE P == restarts * C
      <4>1. row[n] = "queued"
        BY <3>1 DEF Queued
      <4>2. Possible(n) <= retry[n] + Cardinality(Holding(n)) + P
        BY <4>1 DEF CountInv, MailInv
      <4>3. Holding(n) \in SUBSET Polls /\ Unmailed(n) \in SUBSET Polls
        BY DEF Holding, Unmailed
      <4>4. /\ Cardinality(Holding(n)) \in Nat /\ Cardinality(Unmailed(n)) \in Nat
            /\ Cardinality(Holding(n)') = Cardinality(Holding(n)) + 1
            /\ Cardinality(Unmailed(n)') = Cardinality(Unmailed(n)) + 1
        BY <4>3, <2>2, <3>1, PollSets
      <4>5. mails[n] \in Nat /\ retry[n] \in Nat /\ P \in Nat
        BY <1>1, PollSets, OutboxAssumption DEF TypeOK
      <4> HIDE DEF P
      <4>6. Possible(n)' \in Int /\ Possible(n)' <= retry[n] + Cardinality(Holding(n)') + P
        BY <4>2, <4>4, <4>5, <2>1 DEF Possible
      <4>7. Possible(n)' <= retry'[n] + Cardinality(Holding(n)') + restarts' * C
        BY <4>6, <2>1 DEF P
      <4>8. Possible(n)' <= MaxRetries + (2 + restarts') * C - 1
        <5>1. Holding(n)' \in SUBSET Polls
          BY DEF Holding
        <5>2. Cardinality(Holding(n)') \in Nat /\ Cardinality(Holding(n)') <= Cardinality(Polls)
          BY <5>1, PollSets
        <5>3. Possible(n)' <= retry[n] + Cardinality(Holding(n)') + restarts * Cardinality(Polls)
          BY <4>6 DEF P
        <5>4. RetryInv
          BY DEF CountInv
        <5>5. Possible(n)' <= MaxRetries + (2 + restarts) * Cardinality(Polls) - 1
          <6> DEFINE m == Possible(n)'
                     h == Cardinality(Holding(n)')
          <6>1. m \in Int /\ h \in Nat /\ h <= Cardinality(Polls)
                /\ m <= retry[n] + h + restarts * Cardinality(Polls)
            BY <4>6, <5>2, <5>3
          <6> HIDE DEF m, h
          <6>2. m <= MaxRetries + (2 + restarts) * Cardinality(Polls) - 1
            BY <6>1, <5>4, <1>1, MailsAreBounded
          <6> QED BY <6>2 DEF m
        <5> QED BY <5>5, <2>1
      <4> QED BY <4>1, <4>7, <4>8, <2>1
    <3>2. CASE n \notin Queued
      BY <3>2, <2>1, <2>2 DEF CountInv, MailInv, Possible
    <3> QED BY <3>1, <3>2
  <2> QED BY <2>3, <2>4 DEF RetryInv, MailInv
<1>5. ASSUME NEW p \in Polls, Accept(p) PROVE RetryInv' /\ MailInv'
  <2>1. /\ UNCHANGED <<row, retry, restarts>>
        /\ Current(p) \in poll[p].todo /\ Current(p) \in Records
        /\ poll[p].pc = "sending" /\ poll'[p].pc = "accepted"
        /\ \A q \in Polls : poll'[q].todo = poll[q].todo /\ poll'[q].seen = poll[q].seen
        /\ \A q \in Polls \ {p} : poll'[q].pc = poll[q].pc
    BY <1>1, <1>5, CurrentHeld DEF Accept, TypeOK
  <2>2. \A q \in Polls : Current(q)' = Current(q)
    BY <2>1 DEF Current
  <2>3. ASSUME NEW n \in Records
        PROVE  /\ Holding(n)' = Holding(n) /\ Counting(n)' = Counting(n)
               /\ n # Current(p) => Unmailed(n)' = Unmailed(n)
               /\ n = Current(p) => p \in Unmailed(n) /\ Unmailed(n)' = Unmailed(n) \ {p}
    <3>1. Holding(n)' = Holding(n) /\ Counting(n)' = Counting(n)
      BY <2>1 DEF Holding, Counting
    <3>2. \A q \in Polls \ {p} : Mailed(q, n)' <=> Mailed(q, n)
      BY <2>1, <2>2 DEF Mailed
    <3>3. ~Mailed(p, n) /\ (Mailed(p, n)' <=> n = Current(p))
      BY <2>1, <2>2 DEF Mailed
    <3>4. n = Current(p) => p \in Holding(n)
      BY <2>1 DEF Holding
    <3>5. Unmailed(n)' = {q \in Holding(n) : ~Mailed(q, n)'}
      BY <3>1 DEF Unmailed
    <3>6. n # Current(p) => Unmailed(n)' = Unmailed(n)
      <4>1. n # Current(p) => \A q \in Polls : Mailed(q, n)' <=> Mailed(q, n)
        BY <3>2, <3>3
      <4> QED BY <4>1, <3>5 DEF Unmailed, Holding
    <3>7. n = Current(p) => p \in Unmailed(n) /\ Unmailed(n)' = Unmailed(n) \ {p}
      BY <3>2, <3>3, <3>4, <3>5 DEF Unmailed, Holding
    <3> QED BY <3>1, <3>6, <3>7
  <2>4. ASSUME NEW n \in Records
        PROVE  Possible(n)' = Possible(n)
    <3>1. mails' = [mails EXCEPT ![Current(p)] = @ + 1]
      BY <1>5 DEF Accept
    <3>2. mails[n] \in Nat
      BY <1>1 DEF TypeOK
    <3>3. Unmailed(n) \in SUBSET Polls
      BY DEF Unmailed, Holding
    <3>4. Cardinality(Unmailed(n)) \in Nat
      BY <3>3, PollSets
    <3>5. CASE n = Current(p)
      <4>1. Cardinality(Unmailed(n)') = Cardinality(Unmailed(n)) - 1
        BY <3>3, <3>5, <2>3, PollSets
      <4>2. mails'[n] = mails[n] + 1
        BY <3>1, <3>5, <1>1 DEF TypeOK
      <4> QED BY <4>1, <4>2, <3>2, <3>4 DEF Possible
    <3>6. CASE n # Current(p)
      BY <3>1, <3>6, <2>1, <2>3, <1>1 DEF Possible, TypeOK
    <3> QED BY <3>5, <3>6
  <2>5. RetryInv'
    BY <2>1, <2>3 DEF CountInv, RetryInv
  <2>6. ASSUME NEW n \in Records, row[n] = "absent"
        PROVE  mails'[n] = mails[n]
    BY <1>1, <1>5, <2>6, <2>1 DEF Accept, IInv, HoldInv, TypeOK
  <2>7. MailInv'
    BY <2>1, <2>3, <2>4, <2>6 DEF CountInv, MailInv
  <2> QED BY <2>5, <2>7
<1>6. ASSUME NEW p \in Polls, SendOk(p) \/ GiveUp(p) \/ Retry(p) PROVE RetryInv' /\ MailInv'
  <2>1. poll[p].pc \in {"sending", "accepted"} /\ Advance(p) /\ UNCHANGED <<mails, restarts>>
    BY <1>6 DEF SendOk, GiveUp, Retry, Failing
  <2>2. SendOk(p) \/ GiveUp(p) =>
          /\ row' \in {[row EXCEPT ![Current(p)] = s] : s \in {"sent", "failed"}}
          /\ retry' = retry
    BY DEF SendOk, GiveUp
  <2>3. Retry(p) => /\ poll[p].seen[Current(p)] < MaxRetries
                    /\ retry' = [retry EXCEPT ![Current(p)] = @ + 1]
                    /\ row' = row
    BY DEF Retry
  <2> QED BY <1>1, <1>6, <2>1, <2>2, <2>3, LeaveCounts
<1>7. ASSUME Restart PROVE RetryInv' /\ MailInv'
  <2>1. /\ \A p \in Polls : poll'[p].todo = {}
        /\ UNCHANGED <<row, retry, mails>>
        /\ restarts' = restarts + 1
    BY <1>7 DEF Restart, Idle
  <2>2. \A n \in Records : Holding(n)' = {} /\ Unmailed(n)' = {} /\ Counting(n)' = {}
    BY <2>1 DEF Holding, Unmailed, Counting
  <2>3. Cardinality({}) = 0
    BY FS_EmptySet
  <2>4. C \in Nat \ {0} /\ MaxRetries \in Nat /\ restarts \in Nat
    BY <1>1, OutboxAssumption, FS_EmptySet, FS_CardinalityType DEF TypeOK
  <2>5. restarts' * C = restarts * C + C /\ restarts * C \in Nat
    BY <2>1, <2>4
  <2>6. (2 + restarts') * C = (2 + restarts) * C + C /\ (2 + restarts) * C \in Nat
    BY <2>1, <2>4
  <2>7. ASSUME NEW n \in Records
        PROVE  /\ Possible(n)' \in Nat /\ Possible(n) \in Nat /\ Possible(n)' <= Possible(n)
               /\ Cardinality(Holding(n)) \in Nat /\ Cardinality(Holding(n)) <= C
               /\ Cardinality(Counting(n)) \in Nat
    <3>1. {Holding(n), Unmailed(n), Counting(n)} \subseteq SUBSET Polls
      BY DEF Holding, Unmailed, Counting
    <3>2. mails[n] \in Nat
      BY <1>1 DEF TypeOK
    <3>3. Possible(n)' = mails[n]
      BY <2>1, <2>2, <2>3, <3>2 DEF Possible
    <3>4. Cardinality(Unmailed(n)) \in Nat
      BY <3>1, PollSets
    <3>5. Possible(n) \in Nat /\ Possible(n)' <= Possible(n)
      BY <3>2, <3>3, <3>4 DEF Possible
    <3> QED BY <3>1, <3>2, <3>3, <3>5, PollSets
  <2>8. RetryInv'
    <3> SUFFICES ASSUME NEW n \in Records
                 PROVE  \/ retry'[n] = 0 /\ Counting(n)' = {}
                        \/ retry'[n] + Cardinality(Counting(n)') <= MaxRetries + C - 1
      BY DEF RetryInv
    <3>1. retry[n] \in Nat
      BY <1>1 DEF TypeOK
    <3>2. \/ retry[n] = 0
          \/ retry[n] + Cardinality(Counting(n)) <= MaxRetries + C - 1
      BY DEF CountInv, RetryInv
    <3> QED BY <3>1, <3>2, <2>1, <2>2, <2>3, <2>4, <2>7
  <2>9. MailInv'
    <3> SUFFICES ASSUME NEW n \in Records
                 PROVE  /\ row'[n] = "absent" => mails'[n] = 0 /\ Holding(n)' = {}
                        /\ row'[n] \in {"absent", "queued"} =>
                             Possible(n)' <= retry'[n] + Cardinality(Holding(n)') + restarts' * C
                        /\ Possible(n)' <= MaxRetries + (2 + restarts') * C - 1
      BY DEF MailInv
    <3>1. /\ row[n] = "absent" => mails[n] = 0
          /\ row[n] \in {"absent", "queued"} =>
               Possible(n) <= retry[n] + Cardinality(Holding(n)) + restarts * C
          /\ Possible(n) <= MaxRetries + (2 + restarts) * C - 1
      BY DEF CountInv, MailInv
    <3>2. retry[n] \in Nat /\ Cardinality(Holding(n)') = 0
      BY <1>1, <2>2, <2>3 DEF TypeOK
    <3> DEFINE P == restarts * C
               Q == (2 + restarts) * C
    <3>3. P \in Nat /\ Q \in Nat /\ restarts' * C = P + C /\ (2 + restarts') * C = Q + C
      BY <2>5, <2>6
    <3>4. row[n] \in {"absent", "queued"} => Possible(n) <= retry[n] + Cardinality(Holding(n)) + P
      BY <3>1
    <3>5. Possible(n) <= MaxRetries + Q - 1
      BY <3>1
    <3> HIDE DEF P, Q
    <3>6. row[n] \in {"absent", "queued"} => Possible(n)' <= retry[n] + 0 + (P + C)
      BY <3>2, <3>3, <3>4, <2>4, <2>7
    <3>7. Possible(n)' <= MaxRetries + (Q + C) - 1
      BY <3>3, <3>5, <2>4, <2>7
    <3> QED BY <3>1, <3>2, <3>3, <3>6, <3>7, <2>1, <2>2
  <2> QED BY <2>8, <2>9
<1>8. ASSUME Stop \/ UNCHANGED vars PROVE RetryInv' /\ MailInv'
  <2>1. UNCHANGED <<row, retry, mails, poll, restarts>>
    BY <1>8 DEF Stop, vars
  <2>2. \A m \in Records : /\ Holding(m)' = Holding(m) /\ Unmailed(m)' = Unmailed(m)
                           /\ Counting(m)' = Counting(m)
    BY <2>1, <1>1, SameSets
  <2> QED BY <2>1, <2>2 DEF CountInv, RetryInv, MailInv, Possible
<1> QED
  BY <1>3, <1>4, <1>5, <1>6, <1>7, <1>8 DEF Next, PollStep

LEMMA CountHolds == Polls # {} /\ Spec => []CountInv
<1> SUFFICES ASSUME Polls # {} PROVE Spec => []CountInv
  OBVIOUS
<1>1. Init => CountInv
  BY InitCount
<1>2. CountInv /\ [Next]_vars => CountInv'
  BY NextCount
<1> QED BY <1>1, <1>2, PTL DEF Spec

(* A record is retried past the limit only by the polls that overlap: by   *)
(* one less than their number.                                             *)
THEOREM RetriesAreBounded == Polls # {} /\ Spec => []RetryBound
<1>1. CountInv => RetryBound
  <2> SUFFICES ASSUME CountInv, NEW n \in Records
               PROVE  retry[n] <= MaxRetries + Cardinality(Polls) - 1 \/ retry[n] = 0
    BY DEF RetryBound
  <2>1. Counting(n) \in SUBSET Polls
    BY DEF Counting, Holding
  <2>2. Cardinality(Counting(n)) \in Nat /\ Cardinality(Polls) \in Nat
    BY <2>1, PollSets
  <2>3. retry[n] \in Nat
    BY DEF CountInv, IInv, TypeOK
  <2> QED BY <2>2, <2>3, OutboxAssumption DEF CountInv, RetryInv
<1>2. Polls # {} /\ Spec => []CountInv
  BY CountHolds
<1> QED BY <1>1, <1>2, PTL

(* The recipient is not flooded, whatever overlaps and wherever the        *)
(* process stops: mails are bounded by retries, polls and restarts.        *)
THEOREM MailsBounded == Polls # {} /\ Spec => []MailBound
<1>1. CountInv => MailBound
  <2> SUFFICES ASSUME CountInv, NEW n \in Records
               PROVE  mails[n] <= MaxRetries + (2 + restarts) * Cardinality(Polls) - 1
    BY DEF MailBound
  <2> DEFINE B == MaxRetries + (2 + restarts) * Cardinality(Polls) - 1
  <2>1. Unmailed(n) \in SUBSET Polls
    BY DEF Unmailed, Holding
  <2>2. Cardinality(Unmailed(n)) \in Nat
    BY <2>1, PollSets
  <2>3. mails[n] \in Nat /\ B \in Int
    BY PollSets, OutboxAssumption DEF CountInv, IInv, TypeOK
  <2>4. mails[n] + Cardinality(Unmailed(n)) <= B
    BY DEF CountInv, MailInv, Possible
  <2> HIDE DEF B
  <2>5. mails[n] <= B
    BY <2>2, <2>3, <2>4
  <2> QED BY <2>5 DEF B
<1>2. Polls # {} /\ Spec => []CountInv
  BY CountHolds
<1> QED BY <1>1, <1>2, PTL

=============================================================================
