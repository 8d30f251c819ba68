----------------------- MODULE RegistrationMail_proofs -----------------------
(***************************************************************************)
(* Proofs about RegistrationMail, for any users, handlers, polls and       *)
(* limits: the activation link, the resend and the outbox records.         *)
(***************************************************************************)
EXTENDS RegistrationMail, TLAPS

Busy(p) == poll[p].pc # "idle"

(* The records a poll has still to settle or to count.                     *)
Held(p) == poll[p].todo \cup
             (IF poll[p].pc \in {"sending", "accepted"} THEN {poll[p].cur} ELSE {})

(* What a poll holds was read as queued; while no two polls have been busy *)
(* at once it still is, with the retry count of the snapshot.              *)
PollInv ==
  /\ \A p \in Polls :
       /\ poll[p].pc = "idle" => poll[p].todo = {}
       /\ poll[p].pc \in {"sending", "accepted"} => poll[p].cur \notin poll[p].todo
       /\ poll[p].pc = "accepted" => poll[p].cur \in mailed
       /\ \A u \in Held(p) :
            /\ record[u] # "absent"
            /\ ~overlapped => record[u] = "queued" /\ poll[p].seen[u] = retry[u]
  /\ ~overlapped => \A p, q \in Polls : Busy(p) /\ Busy(q) => p = q

(* Handlers apart, an activation that found its account pending finds it   *)
(* so when it commits.                                                     *)
ActInv ==
  ~overlap =>
    \A a \in Activations : act[a].pc \in ActMid =>
      /\ \A b \in Activations : act[b].pc \in ActMid => a = b
      /\ act[a].pc = "checked" => status[act[a].user] = "pending"

LinkInv == ConsumedIsActivated /\ ResendAcceptedOnce

MailInv == PollInv /\ SentWasMailed /\ RetriesExact

IInv == TypeOK /\ LinkInv /\ MailInv /\ ActInv

LEMMA InitInv == Init => IInv
<1> SUFFICES ASSUME Init PROVE IInv
  OBVIOUS
<1> USE MailAssumption
<1>1. TypeOK
  <2>0. status \in [Users -> {"pending", "active", "deleted"}]
    BY DEF Init
  <2>1. /\ token \in [Users -> {"none", "live", "expired", "consumed"}]
        /\ retry \in [Users -> Nat] /\ mailed \in SUBSET Users /\ accepted \in [Users -> Nat]
        /\ overlap \in BOOLEAN /\ overlapped \in BOOLEAN
    BY DEF Init
  <2>6. crashes \in 0 .. MaxCrashes
    BY DEF Init
  <2>5. record \in [Users -> {"absent", "queued", "sent", "failed"}]
    BY DEF Init
  <2>2. /\ act \in [Activations -> [pc : {"idle"} \cup ActMid \cup ActEnd,
                                    user : Users \cup {Nobody}]]
        /\ \A a \in Activations : act[a].pc = "idle"
    BY DEF Init
  <2>3. /\ resend \in [Resends -> [pc : {"idle", "checked"} \cup ResendEnd,
                                   user : Users \cup {Nobody}]]
        /\ \A r \in Resends : resend[r].pc = "idle"
    BY DEF Init
  <2>4. /\ poll \in [Polls -> [pc : {"idle", "next", "sending", "accepted"},
                               todo : SUBSET Users, cur : Users \cup {Nobody},
                               seen : [Users -> Nat]]]
        /\ \A p \in Polls : poll[p].pc = "idle"
    BY DEF Init, Idle
  <2> QED BY <2>0, <2>1, <2>2, <2>3, <2>4, <2>5, <2>6 DEF TypeOK, ActMid
<1>2. LinkInv
  BY DEF Init, LinkInv, ConsumedIsActivated, ResendAcceptedOnce
<1>3. \A p \in Polls : poll[p] = Idle
  BY DEF Init
<1>4. PollInv
  BY <1>3 DEF PollInv, Idle, Held, Busy
<1>6. SentWasMailed /\ RetriesExact
  BY DEF Init, SentWasMailed, RetriesExact
<1>5. ActInv
  BY DEF Init, ActInv, ActMid
<1> QED BY <1>1, <1>2, <1>4, <1>5, <1>6 DEF IInv, MailInv

-----------------------------------------------------------------------------
(* Types.                                                                  *)

(* What Continue leaves of a poll.                                         *)
LEMMA ContinueLeaves ==
  ASSUME TypeOK, NEW p \in Polls, NEW left \in SUBSET Users, Continue(p, left)
  PROVE  /\ poll' \in [Polls -> [pc : {"idle", "next", "sending", "accepted"},
                                 todo : SUBSET Users, cur : Users \cup {Nobody},
                                 seen : [Users -> Nat]]]
         /\ poll'[p].pc \in {"idle", "next"} /\ poll'[p].todo = left
         /\ poll'[p].pc = "idle" <=> left = {}
         /\ poll'[p].pc = "next" => poll'[p].seen = poll[p].seen
         /\ \A q \in Polls \ {p} : poll'[q] = poll[q]
<1>1. CASE left = {}
  BY <1>1 DEF Continue, Idle, TypeOK
<1>2. CASE left # {}
  <2>1. poll' = [poll EXCEPT ![p] = [poll[p] EXCEPT !.pc = "next", !.cur = Nobody, !.todo = left]]
    BY <1>2 DEF Continue
  <2>2. poll[p] \in [pc : {"idle", "next", "sending", "accepted"}, todo : SUBSET Users,
                    cur : Users \cup {Nobody}, seen : [Users -> Nat]]
    BY DEF TypeOK
  <2> QED BY <1>2, <2>1, <2>2 DEF TypeOK
<1> QED BY <1>1, <1>2

LEMMA TypeNext == TypeOK /\ [Next]_vars => TypeOK'
<1> SUFFICES ASSUME TypeOK, [Next]_vars PROVE TypeOK'
  OBVIOUS
<1> USE MailAssumption DEF ActMid, ActEnd, ResendEnd, tables
<1>1. ASSUME NEW a \in Activations, NEW u \in Users \cup {Nobody},
             ActivateRefuse(a, u) \/ ActivateNotPending(a)
      PROVE  TypeOK'
  <2>1. ActEnds(a, "refused")
    BY <1>1 DEF ActivateRefuse, ActivateNotPending
  <2> QED BY <2>1 DEF ActEnds, TypeOK
<1>2. ASSUME NEW a \in Activations, NEW u \in Users \cup {Nobody}, ActivateRead(a, u)
      PROVE  TypeOK'
  BY <1>2 DEF ActivateRead, TypeOK
<1>3. ASSUME NEW a \in Activations, ActivateCheck(a) PROVE TypeOK'
  BY <1>3 DEF ActivateCheck, TypeOK
<1>4. ASSUME NEW a \in Activations, ActivateCommit(a) PROVE TypeOK'
  BY <1>4 DEF ActivateCommit, TypeOK
<1>5. ASSUME NEW r \in Resends, ResendRefuse(r) \/ ResendThrows(r) PROVE TypeOK'
  <2>1. ASSUME NEW answer \in {"refused", "failed"}, ResendEnds(r, answer) PROVE TypeOK'
    <3>1. resend' \in [Resends -> [pc : {"idle", "checked"} \cup ResendEnd,
                                  user : Users \cup {Nobody}]]
      BY <2>1 DEF ResendEnds, TypeOK
    <3>2. \A s \in Resends : resend'[s].pc = "checked" => resend'[s].user \in Users
      BY <2>1 DEF ResendEnds, TypeOK
    <3> QED BY <2>1, <3>1, <3>2 DEF ResendEnds, TypeOK
  <2> QED BY <1>5, <2>1 DEF ResendRefuse, ResendThrows
<1>6. ASSUME NEW r \in Resends, NEW u \in Users, ResendCheck(r, u) PROVE TypeOK'
  BY <1>6 DEF ResendCheck, TypeOK
<1>7. ASSUME NEW r \in Resends, ResendInsert(r) PROVE TypeOK'
  BY <1>7 DEF ResendInsert, InsertRecord, Insertable, TypeOK
<1>8. ASSUME NEW p \in Polls, StartPoll(p) PROVE TypeOK'
  <2>1. Queued \in SUBSET Users
    BY DEF Queued
  <2>2. overlapped' \in BOOLEAN
    BY <1>8 DEF StartPoll, TypeOK
  <2> QED BY <1>8, <2>1, <2>2 DEF StartPoll, TypeOK
<1>9. ASSUME NEW p \in Polls, Accept(p) PROVE TypeOK'
  BY <1>9 DEF Accept, TypeOK
<1>10. ASSUME NEW p \in Polls, MarkSent(p) PROVE TypeOK'
  <2>1. poll[p].todo \in SUBSET Users /\ Continue(p, poll[p].todo)
    BY <1>10 DEF MarkSent, TypeOK
  <2> QED BY <1>10, <2>1, ContinueLeaves DEF MarkSent, UpdateStatus, TypeOK
<1>11. ASSUME NEW p \in Polls, HandleFailure(p) PROVE TypeOK'
  <2>1. poll[p].todo \in SUBSET Users /\ Continue(p, poll[p].todo)
    BY <1>11 DEF HandleFailure, TypeOK
  <2>2. record' \in [Users -> {"absent", "queued", "sent", "failed"}] /\ retry' \in [Users -> Nat]
    BY <1>11 DEF HandleFailure, UpdateStatus, IncrementRetryCount, TypeOK
  <2>3. /\ poll' \in [Polls -> [pc : {"idle", "next", "sending", "accepted"},
                                todo : SUBSET Users, cur : Users \cup {Nobody},
                                seen : [Users -> Nat]]]
        /\ poll'[p].pc \in {"idle", "next"} /\ \A q \in Polls \ {p} : poll'[q] = poll[q]
    BY <2>1, ContinueLeaves
  <2>4. UNCHANGED <<status, token, mailed, act, resend, accepted, crashes, overlap, overlapped>>
    BY <1>11 DEF HandleFailure
  <2> QED BY <2>2, <2>3, <2>4 DEF TypeOK
<1>12. ASSUME NEW p \in Polls, NEW u \in Users, NoToken(p, u) PROVE TypeOK'
  <2>1. poll[p].todo \ {u} \in SUBSET Users /\ Continue(p, poll[p].todo \ {u})
    BY <1>12 DEF NoToken, TypeOK
  <2>3. /\ poll' \in [Polls -> [pc : {"idle", "next", "sending", "accepted"},
                                todo : SUBSET Users, cur : Users \cup {Nobody},
                                seen : [Users -> Nat]]]
        /\ poll'[p].pc \in {"idle", "next"} /\ \A q \in Polls \ {p} : poll'[q] = poll[q]
    BY <2>1, ContinueLeaves
  <2> QED BY <1>12, <2>3 DEF NoToken, UpdateStatus, TypeOK
<1>13. ASSUME NEW p \in Polls, NEW u \in Users, Send(p, u) PROVE TypeOK'
  BY <1>13 DEF Send, HasToken, TypeOK
<1>14. ASSUME NEW u \in Users, OtpActivate(u) \/ DeleteAccount(u) PROVE TypeOK'
  BY <1>14 DEF OtpActivate, DeleteAccount, TypeOK
<1>15. ASSUME NEW u \in Users, Expire(u) PROVE TypeOK'
  BY <1>15 DEF Expire, TypeOK
<1>16. ASSUME Crash PROVE TypeOK'
  BY <1>16 DEF Crash, Idle, TypeOK
<1>17. ASSUME UNCHANGED vars PROVE TypeOK'
  BY <1>17 DEF vars, TypeOK
<1> QED
  BY <1>1, <1>2, <1>3, <1>4, <1>5, <1>6, <1>7, <1>8, <1>9, <1>10, <1>11, <1>12, <1>13,
     <1>14, <1>15, <1>16, <1>17
     DEF Next, ActStep, ResendStep, PollStep

-----------------------------------------------------------------------------
(* The link, the resend and the activation.                                *)

(* What a step may do to an account, its token and its record.             *)
LEMMA RowSteps ==
  ASSUME TypeOK, [Next]_vars, NEW u \in Users
  PROVE  /\ \/ status'[u] = status[u]
            \/ \E a \in Activations : act[a].pc = "checked" /\ act[a].user = u /\ ActivateCommit(a)
            \/ Turn /\ status[u] = "pending" /\ status'[u] = "active"
            \/ Turn /\ status[u] = "active" /\ status'[u] = "deleted"
         /\ \/ token'[u] = token[u]
            \/ token[u] = "live" /\ token'[u] = "expired"
            \/ token'[u] = "consumed" /\ status'[u] = "active" /\ token[u] # "none"
         /\ status[u] # "pending" => status'[u] # "pending"
         /\ record[u] # "absent" => record'[u] # "absent"
         /\ \/ accepted'[u] = accepted[u]
            \/ /\ accepted'[u] = accepted[u] + 1
               /\ token[u] # "none" /\ record[u] = "absent" /\ record'[u] = "queued"
<1> DEFINE Goal ==
         /\ \/ status'[u] = status[u]
            \/ \E a \in Activations : act[a].pc = "checked" /\ act[a].user = u /\ ActivateCommit(a)
            \/ Turn /\ status[u] = "pending" /\ status'[u] = "active"
            \/ Turn /\ status[u] = "active" /\ status'[u] = "deleted"
         /\ \/ token'[u] = token[u]
            \/ token[u] = "live" /\ token'[u] = "expired"
            \/ token'[u] = "consumed" /\ status'[u] = "active" /\ token[u] # "none"
         /\ status[u] # "pending" => status'[u] # "pending"
         /\ record[u] # "absent" => record'[u] # "absent"
         /\ \/ accepted'[u] = accepted[u]
            \/ /\ accepted'[u] = accepted[u] + 1
               /\ token[u] # "none" /\ record[u] = "absent" /\ record'[u] = "queued"
<1>1. ASSUME UNCHANGED <<status, token, record, accepted>> PROVE Goal
  BY <1>1
<1>2. ASSUME NEW a \in Activations, ActivateCommit(a) PROVE Goal
  <2>1. act[a].user \in Users /\ token[act[a].user] # "none" /\ act[a].pc = "checked"
    BY <1>2 DEF ActivateCommit, TypeOK, ActMid
  <2>2. UNCHANGED <<record, accepted>>
    BY <1>2 DEF ActivateCommit
  <2>3. CASE act[a].user = u
    BY <1>2, <2>1, <2>2, <2>3 DEF ActivateCommit, TypeOK
  <2>4. CASE act[a].user # u
    BY <1>2, <2>1, <2>2, <2>4 DEF ActivateCommit, TypeOK
  <2> QED BY <2>3, <2>4
<1>3. ASSUME NEW r \in Resends, ResendInsert(r) PROVE Goal
  <2>1. resend[r].user \in Users
    BY <1>3 DEF ResendInsert, TypeOK
  <2> QED
    BY <1>3, <2>1 DEF ResendInsert, InsertRecord, Insertable, HasToken, TypeOK
<1>4. ASSUME NEW p \in Polls, MarkSent(p) \/ HandleFailure(p) PROVE Goal
  <2>1. UNCHANGED <<status, token, accepted>>
    BY <1>4 DEF MarkSent, HandleFailure
  <2>2. record[u] # "absent" => record'[u] # "absent"
    BY <1>4 DEF MarkSent, HandleFailure, UpdateStatus, TypeOK
  <2> QED BY <2>1, <2>2
<1>5. ASSUME NEW p \in Polls, NEW v \in Users, NoToken(p, v) PROVE Goal
  BY <1>5 DEF NoToken, UpdateStatus, TypeOK
<1>6. ASSUME NEW v \in Users, OtpActivate(v) \/ DeleteAccount(v) PROVE Goal
  BY <1>6 DEF OtpActivate, DeleteAccount, TypeOK
<1>7. ASSUME NEW v \in Users, Expire(v) PROVE Goal
  BY <1>7 DEF Expire, TypeOK
<1>8. ASSUME NEW a \in Activations, NEW v \in Users \cup {Nobody},
             ActivateRefuse(a, v) \/ ActivateRead(a, v) \/ ActivateCheck(a)
               \/ ActivateNotPending(a)
      PROVE  UNCHANGED <<status, token, record, accepted>>
  BY <1>8
     DEF ActivateRefuse, ActivateRead, ActivateCheck, ActivateNotPending, ActEnds, tables
<1>9. ASSUME NEW r \in Resends, NEW v \in Users,
             ResendRefuse(r) \/ ResendThrows(r) \/ ResendCheck(r, v)
      PROVE  UNCHANGED <<status, token, record, accepted>>
  BY <1>9 DEF ResendRefuse, ResendThrows, ResendCheck, ResendEnds, tables
<1>10. ASSUME NEW p \in Polls, NEW v \in Users, StartPoll(p) \/ Accept(p) \/ Send(p, v)
       PROVE  UNCHANGED <<status, token, record, accepted>>
  BY <1>10 DEF StartPoll, Accept, Send, tables
<1>11. Crash \/ UNCHANGED vars => UNCHANGED <<status, token, record, accepted>>
  BY DEF Crash, vars, tables
<1> HIDE DEF Goal
<1>12. Goal
  BY <1>1, <1>2, <1>3, <1>4, <1>5, <1>6, <1>7, <1>8, <1>9, <1>10, <1>11
     DEF Next, ActStep, ResendStep, PollStep
<1> QED BY <1>12 DEF Goal

LEMMA LinkNext == TypeOK /\ LinkInv /\ [Next]_vars => LinkInv'
<1> SUFFICES ASSUME TypeOK, LinkInv, [Next]_vars PROVE LinkInv'
  OBVIOUS
<1>1. ConsumedIsActivated'
  BY RowSteps DEF LinkInv, ConsumedIsActivated
<1>2. \A u \in Users : accepted[u] \in Nat
  BY DEF TypeOK
<1>3. ResendAcceptedOnce'
  BY <1>2, RowSteps DEF LinkInv, ResendAcceptedOnce
<1> QED BY <1>1, <1>3 DEF LinkInv

LEMMA ActNext == TypeOK /\ ActInv /\ [Next]_vars => ActInv'
<1> SUFFICES ASSUME TypeOK, ActInv, [Next]_vars PROVE ActInv'
  OBVIOUS
<1> SUFFICES ASSUME ~overlap PROVE ActInv'
  <2>1. ASSUME NEW a \in Activations, ActStep(a) PROVE overlap' = overlap
    BY <2>1 DEF ActStep, ActivateRefuse, ActivateRead, ActivateCheck, ActivateNotPending,
                ActivateCommit, ActEnds
  <2>2. ASSUME NEW r \in Resends, ResendStep(r) PROVE overlap' = overlap
    BY <2>2 DEF ResendStep, ResendRefuse, ResendCheck, ResendInsert, ResendThrows, ResendEnds
  <2>3. ASSUME NEW p \in Polls, PollStep(p) PROVE overlap' = overlap
    BY <2>3 DEF PollStep, StartPoll, Accept, MarkSent, HandleFailure, NoToken, Send
  <2>4. ASSUME NEW u \in Users, OtpActivate(u) \/ DeleteAccount(u) \/ Expire(u)
        PROVE  overlap' = overlap
    BY <2>4 DEF OtpActivate, DeleteAccount, Expire
  <2>5. Crash \/ UNCHANGED vars => overlap' = overlap
    BY DEF Crash, vars
  <2>6. overlap' = overlap
    BY <2>1, <2>2, <2>3, <2>4, <2>5 DEF Next
  <2> QED BY <2>6 DEF ActInv
<1>1. Turn => \A a \in Activations : act[a].pc \notin ActMid
  BY DEF Turn
<1>2. \A a \in Activations : act[a].pc \in ActMid =>
        /\ \A b \in Activations : act[b].pc \in ActMid => a = b
        /\ act[a].pc = "checked" => status[act[a].user] = "pending"
  BY DEF ActInv
<1>3. SUFFICES \A a \in Activations : act'[a].pc \in ActMid =>
        /\ \A b \in Activations : act'[b].pc \in ActMid => a = b
        /\ act'[a].pc = "checked" => status'[act'[a].user] = "pending"
  BY DEF ActInv
<1> DEFINE Goal == \A a \in Activations : act'[a].pc \in ActMid =>
        /\ \A b \in Activations : act'[b].pc \in ActMid => a = b
        /\ act'[a].pc = "checked" => status'[act'[a].user] = "pending"
<1>4. ASSUME UNCHANGED <<act, status>> PROVE Goal
  BY <1>2, <1>4
<1>5. ASSUME Turn, act' = act PROVE Goal
  BY <1>1, <1>5
<1>6. ASSUME NEW a \in Activations, NEW u \in Users \cup {Nobody},
             ActivateRefuse(a, u) \/ ActivateNotPending(a)
      PROVE  Goal
  <2>1. ActEnds(a, "refused")
    BY <1>6 DEF ActivateRefuse, ActivateNotPending
  <2> QED BY <2>1, <1>2 DEF ActEnds, tables, ActMid, TypeOK
<1>7. ASSUME NEW a \in Activations, NEW u \in Users \cup {Nobody}, ActivateRead(a, u) PROVE Goal
  BY <1>1, <1>7 DEF ActivateRead, ActMid, TypeOK
<1>8. ASSUME NEW a \in Activations, ActivateCheck(a) PROVE Goal
  BY <1>2, <1>8 DEF ActivateCheck, ActMid, TypeOK, tables
<1>9. ASSUME NEW a \in Activations, ActivateCommit(a) PROVE Goal
  BY <1>2, <1>9 DEF ActivateCommit, ActMid, TypeOK
<1>10. ASSUME Crash PROVE Goal
  BY <1>10 DEF Crash, ActMid
<1>11. ASSUME NEW r \in Resends, NEW v \in Users, ResendCheck(r, v)
       PROVE  UNCHANGED <<act, status>>
  BY <1>11 DEF ResendCheck, tables
<1>13. ASSUME NEW u \in Users, OtpActivate(u) \/ DeleteAccount(u) PROVE Turn /\ act' = act
  BY <1>13 DEF OtpActivate, DeleteAccount
<1>14. \A u \in Users : Expire(u) => UNCHANGED <<act, status>>
  BY DEF Expire
<1>15. UNCHANGED vars => UNCHANGED <<act, status>>
  BY DEF vars, tables
<1> HIDE DEF Goal
<1>16. ASSUME NEW a \in Activations, ActStep(a) PROVE Goal
  BY <1>6, <1>7, <1>8, <1>9, <1>16 DEF ActStep
<1>17. ASSUME NEW r \in Resends, ResendStep(r) PROVE Goal
  <2>1. CASE \E v \in Users : ResendCheck(r, v)
    BY <1>4, <1>11, <2>1
  <2>2. CASE ResendRefuse(r) \/ ResendThrows(r) \/ ResendInsert(r)
    <3>1. UNCHANGED <<act, status>>
      BY <2>2 DEF ResendRefuse, ResendThrows, ResendInsert, ResendEnds, tables
    <3> QED BY <1>4, <3>1
  <2> QED BY <1>17, <2>1, <2>2 DEF ResendStep
<1>18. ASSUME NEW p \in Polls, PollStep(p) PROVE UNCHANGED <<act, status>>
  BY <1>18 DEF PollStep, StartPoll, Accept, Send, MarkSent, HandleFailure, NoToken, tables
<1>19. Goal
  BY <1>4, <1>5, <1>10, <1>13, <1>14, <1>15, <1>16, <1>17, <1>18 DEF Next
<1> QED BY <1>19 DEF Goal

-----------------------------------------------------------------------------
(* The outbox.                                                             *)

(* A poll that goes on from record u, having changed no other row, keeps   *)
(* the invariant of what polls hold.                                       *)
LEMMA ContinuePreserves ==
  ASSUME TypeOK, PollInv, NEW p \in Polls, NEW left \in SUBSET Users, NEW u \in Users,
         Continue(p, left), u \in Held(p), left = poll[p].todo \ {u},
         poll[p].pc = "next" \/ u = poll[p].cur,
         \A v \in Users \ {u} : record'[v] = record[v] /\ retry'[v] = retry[v],
         record'[u] # "absent",
         UNCHANGED <<mailed, overlapped>>
  PROVE  PollInv'
<1>1. /\ poll'[p].pc \in {"idle", "next"} /\ poll'[p].todo = left
      /\ poll'[p].pc = "idle" <=> left = {}
      /\ poll'[p].pc = "next" => poll'[p].seen = poll[p].seen
      /\ \A q \in Polls \ {p} : poll'[q] = poll[q]
  BY ContinueLeaves
<1>2. Busy(p)
  BY DEF Busy, Held, PollInv
<1>3. \A q \in Polls \ {p} : Held(q)' = Held(q) /\ (Busy(q)' <=> Busy(q))
  BY <1>1 DEF Held, Busy
<1>4. Held(p)' = left /\ left \subseteq Held(p) \ {u}
  BY <1>1 DEF Held
<1>5. ~overlapped => \A q \in Polls \ {p} : ~Busy(q) /\ Held(q) = {}
  BY <1>2 DEF PollInv, Busy, Held
<1>6. ASSUME NEW q \in Polls
      PROVE  /\ poll'[q].pc = "idle" => poll'[q].todo = {}
             /\ poll'[q].pc \in {"sending", "accepted"} => poll'[q].cur \notin poll'[q].todo
             /\ poll'[q].pc = "accepted" => poll'[q].cur \in mailed'
             /\ \A v \in Held(q)' :
                  /\ record'[v] # "absent"
                  /\ ~overlapped' => record'[v] = "queued" /\ poll'[q].seen[v] = retry'[v]
  <2>1. CASE q = p
    <3>1. \A v \in Held(p)' : v \in Held(p) /\ v \in Users \ {u} /\ poll'[p].pc = "next"
      BY <1>1, <1>4
    <3>2. \A v \in Held(p) : /\ record[v] # "absent"
                             /\ ~overlapped => record[v] = "queued" /\ poll[p].seen[v] = retry[v]
      BY DEF PollInv
    <3> QED BY <2>1, <3>1, <3>2, <1>1
  <2>2. CASE q # p
    <3>1. Held(q) \subseteq Users
      BY DEF Held, TypeOK
    <3>2. \A v \in Held(q)' : record'[v] # "absent"
      BY <1>3, <2>2, <3>1 DEF PollInv
    <3>3. ~overlapped => Held(q)' = {}
      BY <1>3, <1>5, <2>2
    <3> QED BY <1>1, <2>2, <3>2, <3>3 DEF PollInv
  <2> QED BY <2>1, <2>2
<1>7. ~overlapped' => \A q, r \in Polls : Busy(q)' /\ Busy(r)' => q = r
  BY <1>3, <1>5
<1> QED BY <1>6, <1>7 DEF PollInv

LEMMA PollNext == TypeOK /\ PollInv /\ [Next]_vars => PollInv'
<1> SUFFICES ASSUME TypeOK, PollInv, [Next]_vars PROVE PollInv'
  OBVIOUS
<1>1. ASSUME UNCHANGED <<poll, record, retry, mailed, overlapped>> PROVE PollInv'
  BY <1>1 DEF PollInv, Held, Busy
<1>2. ASSUME NEW p \in Polls, StartPoll(p) PROVE PollInv'
  <2>1. /\ UNCHANGED <<record, retry, mailed>>
        /\ poll[p].pc = "idle"
        /\ poll'[p] = [pc |-> "next", todo |-> Queued, cur |-> Nobody, seen |-> retry]
        /\ \A q \in Polls \ {p} : poll'[q] = poll[q]
        /\ overlapped' = (overlapped \/ \E q \in Polls \ {p} : poll[q].pc # "idle")
    BY <1>2 DEF StartPoll, TypeOK, tables
  <2>2. Held(p)' = Queued /\ \A q \in Polls \ {p} : Held(q)' = Held(q)
    BY <2>1 DEF Held
  <2>3. \A v \in Queued : v \in Users /\ record[v] = "queued"
    BY DEF Queued
  <2>4. ASSUME NEW q \in Polls
        PROVE  /\ poll'[q].pc = "idle" => poll'[q].todo = {}
               /\ poll'[q].pc \in {"sending", "accepted"} => poll'[q].cur \notin poll'[q].todo
               /\ poll'[q].pc = "accepted" => poll'[q].cur \in mailed'
               /\ \A v \in Held(q)' :
                    /\ record'[v] # "absent"
                    /\ ~overlapped' => record'[v] = "queued" /\ poll'[q].seen[v] = retry'[v]
    <3>1. CASE q = p
      BY <2>1, <2>2, <2>3, <3>1
    <3>2. CASE q # p
      <4>1. poll'[q] = poll[q] /\ Held(q)' = Held(q)
        BY <2>1, <2>2, <3>2
      <4>2. ~overlapped' => ~overlapped
        BY <2>1
      <4>3. \A v \in Held(q) :
              /\ record[v] # "absent"
              /\ ~overlapped => record[v] = "queued" /\ poll[q].seen[v] = retry[v]
        BY DEF PollInv
      <4>4. \A v \in Held(q)' :
              /\ record'[v] # "absent"
              /\ ~overlapped' => record'[v] = "queued" /\ poll'[q].seen[v] = retry'[v]
        BY <2>1, <4>1, <4>2, <4>3
      <4> QED BY <2>1, <4>1, <4>4 DEF PollInv
    <3> QED BY <3>1, <3>2
  <2>5. ~overlapped' => \A q, r \in Polls : Busy(q)' /\ Busy(r)' => q = r
    <3>1. ~overlapped' => \A q \in Polls \ {p} : poll[q].pc = "idle"
      BY <2>1
    <3>2. \A q \in Polls \ {p} : Busy(q)' => poll[q].pc # "idle"
      BY <2>1 DEF Busy
    <3> QED BY <3>1, <3>2
  <2> QED BY <2>4, <2>5 DEF PollInv
<1>3. ASSUME NEW p \in Polls, Accept(p) PROVE PollInv'
  <2>1. /\ UNCHANGED <<record, retry, overlapped>>
        /\ mailed' = mailed \cup {poll[p].cur}
        /\ poll[p].pc = "sending" /\ poll'[p].pc = "accepted"
        /\ poll'[p].todo = poll[p].todo /\ poll'[p].cur = poll[p].cur
        /\ poll'[p].seen = poll[p].seen
        /\ \A q \in Polls \ {p} : poll'[q] = poll[q]
    BY <1>3 DEF Accept, TypeOK, tables
  <2>2. \A q \in Polls : Held(q)' = Held(q) /\ (Busy(q)' <=> Busy(q))
    BY <2>1 DEF Held, Busy
  <2>3. ASSUME NEW q \in Polls
        PROVE  /\ poll'[q].pc = "idle" => poll'[q].todo = {}
               /\ poll'[q].pc \in {"sending", "accepted"} => poll'[q].cur \notin poll'[q].todo
               /\ poll'[q].pc = "accepted" => poll'[q].cur \in mailed'
               /\ poll'[q].seen = poll[q].seen
    BY <2>1 DEF PollInv
  <2> QED BY <2>1, <2>2, <2>3 DEF PollInv
<1>4. ASSUME NEW p \in Polls, NEW u \in Users, Send(p, u) PROVE PollInv'
  <2>1. /\ UNCHANGED <<record, retry, mailed, overlapped>>
        /\ poll[p].pc = "next" /\ u \in poll[p].todo
        /\ poll'[p].pc = "sending" /\ poll'[p].cur = u
        /\ poll'[p].todo = poll[p].todo \ {u} /\ poll'[p].seen = poll[p].seen
        /\ \A q \in Polls \ {p} : poll'[q] = poll[q]
    BY <1>4 DEF Send, TypeOK, tables
  <2>2. \A q \in Polls : Held(q)' = Held(q) /\ (Busy(q)' <=> Busy(q))
    BY <2>1 DEF Held, Busy
  <2>3. ASSUME NEW q \in Polls
        PROVE  /\ poll'[q].pc = "idle" => poll'[q].todo = {}
               /\ poll'[q].pc \in {"sending", "accepted"} => poll'[q].cur \notin poll'[q].todo
               /\ poll'[q].pc = "accepted" => poll'[q].cur \in mailed'
               /\ poll'[q].seen = poll[q].seen
    BY <2>1 DEF PollInv
  <2> QED BY <2>1, <2>2, <2>3 DEF PollInv
<1>5. ASSUME NEW p \in Polls, MarkSent(p) \/ HandleFailure(p) PROVE PollInv'
  <2> DEFINE u == poll[p].cur
  <2>1. /\ poll[p].pc \in {"sending", "accepted"} /\ Continue(p, poll[p].todo)
        /\ UNCHANGED <<mailed, overlapped>>
    BY <1>5 DEF MarkSent, HandleFailure
  <2>2. u \in Users /\ u \notin poll[p].todo /\ u \in Held(p) /\ poll[p].todo \in SUBSET Users
    BY <2>1 DEF PollInv, Held, TypeOK
  <2>3. poll[p].todo = poll[p].todo \ {u}
    BY <2>2
  <2>4. record[u] # "absent"
    BY <2>2 DEF PollInv
  <2>5. /\ \A v \in Users \ {u} : record'[v] = record[v] /\ retry'[v] = retry[v]
        /\ record'[u] # "absent"
    <3>1. CASE MarkSent(p)
      BY <3>1, <2>2 DEF MarkSent, UpdateStatus, TypeOK
    <3>2. CASE HandleFailure(p)
      <4>1. /\ \/ IncrementRetryCount(u) /\ UNCHANGED record
               \/ UpdateStatus(u, "failed") /\ UNCHANGED retry
        BY <3>2 DEF HandleFailure
      <4> QED BY <4>1, <2>2, <2>4 DEF UpdateStatus, IncrementRetryCount, TypeOK
    <3> QED BY <1>5, <3>1, <3>2
  <2> HIDE DEF u
  <2> QED BY <2>1, <2>2, <2>3, <2>5, ContinuePreserves DEF u
<1>6. ASSUME NEW p \in Polls, NEW u \in Users, NoToken(p, u) PROVE PollInv'
  <2>1. /\ poll[p].pc = "next" /\ u \in poll[p].todo /\ Continue(p, poll[p].todo \ {u})
        /\ UNCHANGED <<mailed, overlapped, retry>> /\ record' = [record EXCEPT ![u] = "failed"]
    BY <1>6 DEF NoToken, UpdateStatus
  <2>2. u \in Held(p) /\ poll[p].todo \ {u} \in SUBSET Users
    BY <2>1 DEF Held, TypeOK
  <2>3. /\ \A v \in Users \ {u} : record'[v] = record[v] /\ retry'[v] = retry[v]
        /\ record'[u] # "absent"
    BY <2>1 DEF TypeOK
  <2> QED BY <2>1, <2>2, <2>3, ContinuePreserves
<1>7. ASSUME NEW r \in Resends, ResendInsert(r) PROVE PollInv'
  <2> DEFINE u == resend[r].user
  <2>1. /\ record[u] = "absent" /\ u \in Users
        /\ \A v \in Users \ {u} : record'[v] = record[v] /\ retry'[v] = retry[v]
        /\ UNCHANGED <<poll, mailed, overlapped>>
    BY <1>7 DEF ResendInsert, Insertable, InsertRecord, TypeOK
  <2>2. \A q \in Polls : Held(q)' = Held(q) /\ (Busy(q)' <=> Busy(q))
    BY <2>1 DEF Held, Busy
  <2>3. \A q \in Polls : \A v \in Held(q) : v \in Users \ {u}
    BY <2>1 DEF PollInv, Held, TypeOK
  <2> HIDE DEF u
  <2> QED BY <2>1, <2>2, <2>3 DEF PollInv
<1>8. ASSUME Crash PROVE PollInv'
  <2>1. \A p \in Polls : poll'[p].pc = "idle" /\ poll'[p].todo = {}
    BY <1>8 DEF Crash, Idle
  <2> QED BY <2>1 DEF PollInv, Held, Busy
<1>9. ASSUME NEW a \in Activations, ActStep(a) PROVE PollInv'
  BY <1>1, <1>9
     DEF ActStep, ActivateRefuse, ActivateRead, ActivateCheck, ActivateNotPending,
         ActivateCommit, ActEnds, tables
<1>10. ASSUME NEW r \in Resends, ResendStep(r) PROVE PollInv'
  BY <1>1, <1>7, <1>10
     DEF ResendStep, ResendRefuse, ResendCheck, ResendThrows, ResendEnds, tables
<1>11. ASSUME NEW p \in Polls, PollStep(p) PROVE PollInv'
  BY <1>2, <1>3, <1>4, <1>5, <1>6, <1>11 DEF PollStep
<1>12. ASSUME NEW u \in Users, OtpActivate(u) \/ DeleteAccount(u) \/ Expire(u)
       PROVE  PollInv'
  BY <1>1, <1>12 DEF OtpActivate, DeleteAccount, Expire
<1>13. UNCHANGED vars => PollInv'
  BY <1>1 DEF vars, tables
<1> QED BY <1>8, <1>9, <1>10, <1>11, <1>12, <1>13 DEF Next

LEMMA MailNext == TypeOK /\ MailInv /\ [Next]_vars => MailInv'
<1> SUFFICES ASSUME TypeOK, MailInv, [Next]_vars PROVE MailInv'
  OBVIOUS
<1>1. PollInv /\ PollInv'
  BY PollNext DEF MailInv
<1> DEFINE Goal == SentWasMailed' /\ RetriesExact'
<1>2. ASSUME UNCHANGED <<record, retry, overlapped>>, mailed \subseteq mailed' PROVE Goal
  BY <1>2 DEF MailInv, SentWasMailed, RetriesExact
<1>3. ASSUME NEW p \in Polls, StartPoll(p) PROVE Goal
  BY <1>3 DEF StartPoll, tables, MailInv, SentWasMailed, RetriesExact
<1>4. ASSUME NEW p \in Polls, MarkSent(p) PROVE Goal
  <2>1. poll[p].cur \in mailed /\ poll[p].cur \in Users
    BY <1>1, <1>4 DEF MarkSent, PollInv, TypeOK
  <2> QED
    BY <1>4, <2>1 DEF MarkSent, UpdateStatus, MailInv, SentWasMailed, RetriesExact, TypeOK
<1>5. ASSUME NEW p \in Polls, HandleFailure(p) PROVE Goal
  <2> DEFINE u == poll[p].cur
  <2>1. u \in Users /\ u \in Held(p)
    BY <1>5 DEF HandleFailure, Held, TypeOK
  <2>2. ~overlapped => poll[p].seen[u] = retry[u]
    BY <1>1, <2>1 DEF PollInv
  <2>3. /\ UNCHANGED <<mailed, overlapped>>
        /\ \/ poll[p].seen[u] < MaxRetries /\ IncrementRetryCount(u) /\ UNCHANGED record
           \/ UpdateStatus(u, "failed") /\ UNCHANGED retry
    BY <1>5 DEF HandleFailure
  <2>4. SentWasMailed'
    BY <2>1, <2>3 DEF UpdateStatus, MailInv, SentWasMailed, TypeOK
  <2>5. RetriesExact'
    <3>1. CASE UNCHANGED retry
      BY <3>1, <2>3 DEF MailInv, RetriesExact
    <3>2. CASE poll[p].seen[u] < MaxRetries /\ IncrementRetryCount(u)
      <4>1. \A v \in Users : v # u => retry'[v] = retry[v]
        BY <3>2, <2>1 DEF IncrementRetryCount, TypeOK
      <4>2. retry[u] \in Nat /\ retry'[u] = retry[u] + 1
        BY <3>2, <2>1 DEF IncrementRetryCount, TypeOK
      <4>3. ~overlapped => retry'[u] <= MaxRetries
        BY <2>2, <3>2, <4>2, MailAssumption
      <4> HIDE DEF u
      <4> QED BY <4>1, <4>3, <2>3 DEF MailInv, RetriesExact
    <3> QED BY <2>3, <3>1, <3>2
  <2> QED BY <2>4, <2>5
<1>6. ASSUME NEW p \in Polls, NEW u \in Users, NoToken(p, u) PROVE Goal
  BY <1>6 DEF NoToken, UpdateStatus, MailInv, SentWasMailed, RetriesExact, TypeOK
<1>7. ASSUME NEW r \in Resends, ResendInsert(r) PROVE Goal
  <2>1. resend[r].user \in Users
    BY <1>7 DEF ResendInsert, TypeOK
  <2> QED
    BY <1>7, <2>1, MailAssumption
       DEF ResendInsert, InsertRecord, MailInv, SentWasMailed, RetriesExact, TypeOK
<1>8. ASSUME NEW p \in Polls, NEW u \in Users, Accept(p) \/ Send(p, u) PROVE Goal
  BY <1>2, <1>8 DEF Accept, Send, tables
<1>9. Crash => Goal
  BY <1>2 DEF Crash, tables
<1>10. ASSUME NEW a \in Activations, ActStep(a) PROVE Goal
  BY <1>2, <1>10
     DEF ActStep, ActivateRefuse, ActivateRead, ActivateCheck, ActivateNotPending,
         ActivateCommit, ActEnds, tables
<1>11. ASSUME NEW r \in Resends, ResendStep(r) PROVE Goal
  BY <1>2, <1>7, <1>11
     DEF ResendStep, ResendRefuse, ResendCheck, ResendThrows, ResendEnds, tables
<1>12. ASSUME NEW p \in Polls, PollStep(p) PROVE Goal
  <2>1. CASE \E u \in Users : NoToken(p, u) \/ Send(p, u)
    BY <1>6, <1>8, <2>1
  <2>2. Accept(p) => Goal
    BY <1>2 DEF Accept, tables
  <2> HIDE DEF Goal
  <2> QED BY <1>3, <1>4, <1>5, <1>12, <2>1, <2>2 DEF PollStep
<1>13. ASSUME NEW u \in Users, OtpActivate(u) \/ DeleteAccount(u) \/ Expire(u)
       PROVE  Goal
  BY <1>2, <1>13 DEF OtpActivate, DeleteAccount, Expire
<1>14. UNCHANGED vars => Goal
  BY <1>2 DEF vars, tables
<1> HIDE DEF Goal
<1>15. Goal
  BY <1>9, <1>10, <1>11, <1>12, <1>13, <1>14 DEF Next
<1> QED BY <1>1, <1>15 DEF Goal, MailInv

LEMMA InvHolds == Spec => []IInv
<1>1. IInv /\ [Next]_vars => IInv'
  BY TypeNext, LinkNext, MailNext, ActNext DEF IInv
<1> QED BY InitInv, <1>1, PTL DEF Spec

-----------------------------------------------------------------------------
(* Rows and handlers keep their shape, and a handler past its look-up is   *)
(* about a user whose token was found.                                     *)
THEOREM TypeCorrect == Spec => []TypeOK
  BY InvHolds, PTL DEF IInv

(* A link is used up only together with the activation, wherever crashes   *)
(* fall and whatever handlers overlap.                                     *)
THEOREM LinksAreForActivation == Spec => []ConsumedIsActivated
  BY InvHolds, PTL DEF IInv, LinkInv

(* Of all resends for an account at most one is accepted.                  *)
THEOREM OneResend == Spec => []ResendAcceptedOnce
  BY InvHolds, PTL DEF IInv, LinkInv

(* A record is marked 'sent' only after the provider took its mail.        *)
THEOREM SentMeansMailed == Spec => []SentWasMailed
  BY InvHolds, PTL DEF IInv, MailInv

(* Polls that end before the next tick never retry past the limit.         *)
THEOREM RetriesStayBelow == Spec => []RetriesExact
  BY InvHolds, PTL DEF IInv, MailInv

(* Polls that end before the next tick never change a settled record.      *)
THEOREM SettledStays == Spec => SettledIsFinal
<1> DEFINE Step == \A u \in Users :
       (~overlapped /\ record[u] \in {"sent", "failed"}) => record'[u] = record[u]
<1>1. ASSUME IInv, [Next]_vars PROVE Step
  <2> SUFFICES ASSUME NEW u \in Users, ~overlapped, record[u] \in {"sent", "failed"}
               PROVE  record'[u] = record[u]
    OBVIOUS
  <2>1. \A p \in Polls : u \notin Held(p)
    BY <1>1 DEF IInv, MailInv, PollInv
  <2>2. ASSUME NEW p \in Polls, MarkSent(p) \/ HandleFailure(p) PROVE record'[u] = record[u]
    <3>1. u # poll[p].cur
      BY <2>1, <2>2 DEF MarkSent, HandleFailure, Held
    <3> QED BY <1>1, <2>2, <3>1 DEF MarkSent, HandleFailure, UpdateStatus, IInv, TypeOK
  <2>3. ASSUME NEW p \in Polls, NEW v \in Users, NoToken(p, v) PROVE record'[u] = record[u]
    BY <1>1, <2>1, <2>3 DEF NoToken, UpdateStatus, Held, IInv, TypeOK
  <2>4. ASSUME NEW p \in Polls, PollStep(p) PROVE record'[u] = record[u]
    BY <2>2, <2>3, <2>4 DEF PollStep, StartPoll, Accept, Send, tables
  <2>5. ASSUME NEW r \in Resends, ResendInsert(r) PROVE record'[u] = record[u]
    BY <1>1, <2>5 DEF ResendInsert, Insertable, InsertRecord, IInv, TypeOK
  <2>6. ASSUME NEW r \in Resends, ResendStep(r) PROVE record'[u] = record[u]
    BY <2>5, <2>6 DEF ResendStep, ResendRefuse, ResendCheck, ResendThrows, ResendEnds, tables
  <2>7. ASSUME NEW a \in Activations, ActStep(a) PROVE record'[u] = record[u]
    BY <2>7 DEF ActStep, ActivateRefuse, ActivateRead, ActivateCheck, ActivateNotPending,
                ActivateCommit, ActEnds, tables
  <2>8. ASSUME NEW v \in Users, OtpActivate(v) \/ DeleteAccount(v) \/ Expire(v)
        PROVE  record'[u] = record[u]
    BY <2>8 DEF OtpActivate, DeleteAccount, Expire
  <2> QED BY <1>1, <2>4, <2>6, <2>7, <2>8 DEF Next, Crash, vars, tables
<1>2. Spec => [][Step]_vars
  BY InvHolds, <1>1, PTL DEF Spec
<1> QED BY <1>2 DEF SettledIsFinal

(* Handlers apart, no link brings a deleted account back.                  *)
THEOREM DeletionIsFinal == Spec => DeletedForGood
<1> DEFINE Step == \A u \in Users :
       (~overlap /\ status[u] = "deleted") => status'[u] = "deleted"
<1>1. ASSUME IInv, [Next]_vars PROVE Step
  <2> SUFFICES ASSUME NEW u \in Users, ~overlap, status[u] = "deleted"
               PROVE  status'[u] = "deleted"
    OBVIOUS
  <2>1. \A a \in Activations : act[a].pc = "checked" => status[act[a].user] = "pending"
    BY <1>1 DEF IInv, ActInv, ActMid
  <2>2. \A a \in Activations : ~(act[a].pc = "checked" /\ act[a].user = u)
    BY <2>1
  <2> QED BY <1>1, <2>2, RowSteps DEF IInv
<1>2. Spec => [][Step]_vars
  BY InvHolds, <1>1, PTL DEF Spec
<1> QED BY <1>2 DEF DeletedForGood

=============================================================================
