----------------------- MODULE AccountDeletion_proofs -----------------------
(***************************************************************************)
(* Proofs about AccountDeletion, for any users, handlers and expiry.       *)
(*                                                                         *)
(* Whatever interleaves: the types, and that a deleted account has its     *)
(* notice queued to its own address.  When handlers run one at a time      *)
(* (~Interleave): at most one request is pending, a cancelled one stays    *)
(* cancelled, an account is deleted once, and the handlers implement       *)
(* AccountLifecycle.                                                       *)
(***************************************************************************)
EXTENDS AccountDeletion, FiniteSetTheorems, TLAPS

(* An account that is not deleted has its own address, and only that one.  *)
AddressKept == \A u \in Users : address[u] = "own" <=> status[u] = "active"

(* An address captured after the anonymisation is that of an account whose *)
(* notice is queued already.                                               *)
CapturedOrNotified ==
  \A c \in Confirms : (confirm[c].pc = "captured" /\ confirm[c].email = "anonymised") =>
    \E d \in Confirms : confirm[d].user = confirm[c].user /\ notice[d] = "own"

(* A confirmation queues its notice in its last step.                      *)
NoticeIsLast == \A c \in Confirms : confirm[c].pc # "deleted" => notice[c] = "none"

NoticeInv == TypeOK /\ AddressKept /\ CapturedOrNotified /\ NoticeIsLast /\ DeletedIsNotified

-----------------------------------------------------------------------------
(* Types.                                                                  *)

LEMMA InitNotice == Init => NoticeInv
<1> SUFFICES ASSUME Init PROVE NoticeInv
    OBVIOUS
<1> USE DeletionAssumption DEF Init
<1>1. PICK u \in [Requests -> Users] :
        request = [q \in Requests |-> [pc |-> "idle", user |-> u[q]]]
  OBVIOUS
<1>2. PICK v \in [Confirms -> Users], code \in [Confirms -> Requests \cup {None}] :
        confirm = [c \in Confirms |-> [pc |-> "idle", user |-> v[c], code |-> code[c],
                                       found |-> None, email |-> "own"]]
  OBVIOUS
<1>3. PICK w \in [Cancels -> Users] :
        cancel = [k \in Cancels |-> [pc |-> "idle", user |-> w[k], found |-> None]]
  OBVIOUS
<1>4. TypeOK
  BY <1>1, <1>2, <1>3 DEF TypeOK, RequestRow, RequestHandler, ConfirmHandler, CancelHandler,
                          RequestPc, ConfirmPc, CancelPc
<1>5. AddressKept /\ CapturedOrNotified /\ NoticeIsLast /\ DeletedIsNotified
  BY <1>2 DEF AddressKept, CapturedOrNotified, NoticeIsLast, DeletedIsNotified
<1>6. QED
  BY <1>4, <1>5 DEF NoticeInv

(* What a step may do to a handler leaves it a handler.                    *)
LEMMA MoveRequest ==
  ASSUME TypeOK, NEW q \in Requests, NEW p \in RequestPc
  PROVE  [request EXCEPT ![q].pc = p] \in [Requests -> RequestHandler]
  BY DEF TypeOK, RequestHandler

LEMMA MoveConfirm ==
  ASSUME TypeOK, NEW c \in Confirms, NEW p \in ConfirmPc, NEW f \in Requests \cup {None},
         NEW e \in {"own", "anonymised"}
  PROVE  [confirm EXCEPT ![c].found = f, ![c].email = e, ![c].pc = p]
           \in [Confirms -> ConfirmHandler]
<1> DEFINE row == [confirm[c] EXCEPT !.found = f, !.email = e, !.pc = p]
<1>1. confirm \in [Confirms -> ConfirmHandler] /\ confirm[c] \in ConfirmHandler
  BY DEF TypeOK
<1>2. row \in ConfirmHandler
  BY <1>1 DEF ConfirmHandler
<1>3. [confirm EXCEPT ![c].found = f, ![c].email = e, ![c].pc = p] = [confirm EXCEPT ![c] = row]
  BY <1>1
<1> HIDE DEF row
<1>4. QED
  BY <1>1, <1>2, <1>3

LEMMA MoveCancel ==
  ASSUME TypeOK, NEW k \in Cancels, NEW p \in CancelPc, NEW f \in Requests \cup {None}
  PROVE  [cancel EXCEPT ![k].found = f, ![k].pc = p] \in [Cancels -> CancelHandler]
  BY DEF TypeOK, CancelHandler

(* The handlers are those of the state before, moved; a row that is about  *)
(* to be changed has been found.                                           *)
LEMMA RequestType ==
  ASSUME TypeOK, NEW q \in Requests, RequestStep(q)
  PROVE  request' \in [Requests -> RequestHandler]
<1>1. PICK p \in RequestPc : request' = [request EXCEPT ![q].pc = p]
  <2>1. CASE RequestAuth(q)
    <3>1. request' = [request EXCEPT ![q].pc = IF Authorised(request[q].user)
                                               THEN "authorised" ELSE "denied"]
      BY <2>1 DEF RequestAuth
    <3>2. QED
      BY <3>1 DEF RequestPc, RequestEnd
  <2>2. CASE RequestCheck(q)
    BY <2>2 DEF RequestCheck, RequestPc, RequestEnd
  <2>3. CASE RequestInsert(q) \/ RequestMailed(q)
    BY <2>3 DEF RequestInsert, RequestMailed, RequestPc, RequestEnd
  <2>4. QED
    BY <2>1, <2>2, <2>3 DEF RequestStep
<1>2. QED
  BY <1>1, MoveRequest

LEMMA ConfirmType ==
  ASSUME TypeOK, NEW c \in Confirms, ConfirmStep(c)
  PROVE  /\ confirm' \in [Confirms -> ConfirmHandler]
         /\ \A d \in Confirms : confirm'[d].pc \in {"matched", "captured"} => confirm'[d].found # None
<1>0. /\ confirm \in [Confirms -> ConfirmHandler]
      /\ \A d \in Confirms : confirm[d].pc \in {"matched", "captured"} => confirm[d].found # None
  BY DEF TypeOK
<1>1. PICK p \in ConfirmPc, f \in Requests \cup {None}, e \in {"own", "anonymised"} :
        /\ confirm' = [confirm EXCEPT ![c].found = f, ![c].email = e, ![c].pc = p]
        /\ p \in {"matched", "captured"} => f # None
  <2> USE <1>0
  <2>0. /\ confirm[c].found \in Requests \cup {None}
        /\ confirm[c].email \in {"own", "anonymised"}
        /\ confirm[c].user \in Users
    BY DEF ConfirmHandler
  <2>1. CASE ConfirmAuth(c)
    <3>1. PICK p \in {"authorised", "denied"} : confirm' = [confirm EXCEPT ![c].pc = p]
      BY <2>1 DEF ConfirmAuth
    <3>2. confirm' = [confirm EXCEPT ![c].found = confirm[c].found, ![c].email = confirm[c].email,
                                     ![c].pc = p]
      BY <3>1 DEF ConfirmHandler
    <3>3. QED
      BY <2>0, <3>2 DEF ConfirmPc, ConfirmEnd
  <2>2. CASE ConfirmNotFound(c) \/ ConfirmCommit(c)
    <3>1. PICK p \in {"notFound", "deleted"} : confirm' = [confirm EXCEPT ![c].pc = p]
      BY <2>2 DEF ConfirmNotFound, ConfirmCommit
    <3>2. confirm' = [confirm EXCEPT ![c].found = confirm[c].found, ![c].email = confirm[c].email,
                                     ![c].pc = p]
      BY <3>1 DEF ConfirmHandler
    <3>3. QED
      BY <2>0, <3>2 DEF ConfirmPc, ConfirmEnd
  <2>3. CASE ConfirmMatch(c)
    <3>1. PICK q \in Pending(confirm[c].user), p \in {"expired", "invalid", "matched"} :
            confirm' = [confirm EXCEPT ![c].found = q, ![c].pc = p]
      BY <2>3 DEF ConfirmMatch
    <3>2. q \in Requests /\ q # None
      BY <3>1, DeletionAssumption DEF Pending
    <3>3. confirm' = [confirm EXCEPT ![c].found = q, ![c].email = confirm[c].email, ![c].pc = p]
      BY <3>1 DEF ConfirmHandler
    <3>4. QED
      BY <2>0, <3>2, <3>3 DEF ConfirmPc, ConfirmEnd
  <2>4. CASE ConfirmCapture(c)
    <3>1. /\ confirm' = [confirm EXCEPT ![c].pc = "captured", ![c].email = address[confirm[c].user]]
          /\ confirm[c].pc = "matched"
      BY <2>4 DEF ConfirmCapture
    <3>2. address[confirm[c].user] \in {"own", "anonymised"}
      BY <2>0 DEF TypeOK
    <3>3. confirm' = [confirm EXCEPT ![c].found = confirm[c].found,
                                     ![c].email = address[confirm[c].user], ![c].pc = "captured"]
      BY <3>1 DEF ConfirmHandler
    <3>4. confirm[c].found # None
      BY <3>1
    <3>5. QED
      BY <2>0, <3>2, <3>3, <3>4 DEF ConfirmPc, ConfirmEnd
  <2>5. QED
    BY <2>1, <2>2, <2>3, <2>4 DEF ConfirmStep
<1>2. confirm' \in [Confirms -> ConfirmHandler]
  BY <1>1, MoveConfirm
<1>3. QED
  BY <1>0, <1>1, <1>2 DEF ConfirmHandler

LEMMA CancelType ==
  ASSUME TypeOK, NEW k \in Cancels, CancelStep(k)
  PROVE  /\ cancel' \in [Cancels -> CancelHandler]
         /\ \A j \in Cancels : cancel'[j].pc = "found" => cancel'[j].found # None
<1>0. /\ cancel \in [Cancels -> CancelHandler]
      /\ \A j \in Cancels : cancel[j].pc = "found" => cancel[j].found # None
  BY DEF TypeOK
<1>1. PICK p \in CancelPc, f \in Requests \cup {None} :
        /\ cancel' = [cancel EXCEPT ![k].found = f, ![k].pc = p]
        /\ p = "found" => f # None
  <2> USE <1>0
  <2>0. cancel[k].found \in Requests \cup {None} /\ cancel[k].user \in Users
    BY DEF CancelHandler
  <2>1. CASE \E p \in {"authorised", "denied", "notFound", "cancelled"} :
               cancel' = [cancel EXCEPT ![k].pc = p]
    <3>1. PICK p \in {"authorised", "denied", "notFound", "cancelled"} :
            cancel' = [cancel EXCEPT ![k].pc = p]
      BY <2>1
    <3>2. cancel' = [cancel EXCEPT ![k].found = cancel[k].found, ![k].pc = p]
      BY <3>1 DEF CancelHandler
    <3>3. QED
      BY <2>0, <3>2 DEF CancelPc, CancelEnd
  <2>2. CASE \E q \in Pending(cancel[k].user) :
               cancel' = [cancel EXCEPT ![k].pc = "found", ![k].found = q]
    <3>1. PICK q \in Pending(cancel[k].user) :
            cancel' = [cancel EXCEPT ![k].pc = "found", ![k].found = q]
      BY <2>2
    <3>2. q \in Requests /\ q # None
      BY DeletionAssumption DEF Pending
    <3>3. cancel' = [cancel EXCEPT ![k].found = q, ![k].pc = "found"]
      BY <3>1 DEF CancelHandler
    <3>4. QED
      BY <3>2, <3>3 DEF CancelPc, CancelEnd
  <2>3. QED
    <3>1. CancelAuth(k) => \E p \in {"authorised", "denied"} : cancel' = [cancel EXCEPT ![k].pc = p]
      BY DEF CancelAuth
    <3>2. CancelCommit(k) => cancel' = [cancel EXCEPT ![k].pc = "cancelled"]
      BY DEF CancelCommit
    <3>3. CancelLookup(k) => \/ cancel' = [cancel EXCEPT ![k].pc = "notFound"]
                             \/ \E q \in Pending(cancel[k].user) :
                                  cancel' = [cancel EXCEPT ![k].pc = "found", ![k].found = q]
      BY DEF CancelLookup
    <3>4. QED
      BY <2>1, <2>2, <3>1, <3>2, <3>3 DEF CancelStep
<1>2. cancel' \in [Cancels -> CancelHandler]
  BY <1>1, MoveCancel
<1>3. QED
  BY <1>0, <1>1, <1>2 DEF CancelHandler

LEMMA CrashType ==
  ASSUME TypeOK, Crash
  PROVE  /\ request' \in [Requests -> RequestHandler]
         /\ confirm' \in [Confirms -> ConfirmHandler]
         /\ cancel' \in [Cancels -> CancelHandler]
         /\ \A c \in Confirms : confirm'[c].pc \in {"matched", "captured"} => confirm'[c].found # None
         /\ \A k \in Cancels : cancel'[k].pc = "found" => cancel'[k].found # None
<1> USE DEF TypeOK
<1>1. request' \in [Requests -> RequestHandler]
  BY DEF Crash, RequestHandler, RequestPc, RequestEnd
<1>2. confirm' \in [Confirms -> ConfirmHandler]
  <2>1. ASSUME NEW c \in Confirms PROVE [confirm[c] EXCEPT !.pc = "aborted"] \in ConfirmHandler
    BY DEF ConfirmHandler, ConfirmPc, ConfirmEnd
  <2>2. confirm' = [c \in Confirms |-> IF c \in MidConfirms
                                       THEN [confirm[c] EXCEPT !.pc = "aborted"] ELSE confirm[c]]
    BY DEF Crash
  <2>3. ASSUME NEW c \in Confirms
        PROVE  (IF c \in MidConfirms THEN [confirm[c] EXCEPT !.pc = "aborted"] ELSE confirm[c])
                 \in ConfirmHandler
    BY <2>1
  <2>4. QED
    BY <2>2, <2>3
<1>3. cancel' \in [Cancels -> CancelHandler]
  BY DEF Crash, CancelHandler, CancelPc, CancelEnd
<1>4. \A c \in Confirms : confirm'[c].pc \in {"matched", "captured"} => confirm'[c] = confirm[c]
  BY DEF Crash, ConfirmHandler
<1>5. \A k \in Cancels : cancel'[k].pc = "found" => cancel'[k] = cancel[k]
  BY DEF Crash, CancelHandler
<1>6. QED
  BY <1>1, <1>2, <1>3, <1>4, <1>5

LEMMA TypeStep == TypeOK /\ [Next]_vars => TypeOK'
<1> SUFFICES ASSUME TypeOK, [Next]_vars PROVE TypeOK'
    OBVIOUS
<1>1. ASSUME NEW q \in Requests, RequestStep(q) PROVE TypeOK'
  <2>1. request' \in [Requests -> RequestHandler]
    BY <1>1, RequestType
  <2>2. UNCHANGED <<status, address, notice, confirm, cancel, now>>
    BY <1>1 DEF RequestStep, RequestAuth, RequestCheck, RequestInsert, RequestMailed
  <2>3. session' \in [Users -> BOOLEAN]
    BY <1>1 DEF RequestStep, RequestAuth, RequestCheck, RequestInsert, RequestMailed, Sweep, TypeOK
  <2>4. dreq' \in [Requests -> RequestRow]
    BY <1>1, DeletionAssumption DEF RequestStep, RequestAuth, RequestCheck, RequestInsert,
       RequestMailed, RequestRow, TypeOK
  <2>5. QED
    BY <2>1, <2>2, <2>3, <2>4 DEF TypeOK
<1>2. ASSUME NEW c \in Confirms, ConfirmStep(c) PROVE TypeOK'
  <2>0. confirm[c].user \in Users /\ confirm[c].email \in {"own", "anonymised"}
    BY DEF TypeOK, ConfirmHandler
  <2>1. /\ confirm' \in [Confirms -> ConfirmHandler]
        /\ \A d \in Confirms : confirm'[d].pc \in {"matched", "captured"} => confirm'[d].found # None
    BY <1>2, ConfirmType
  <2>2. CASE ConfirmCommit(c)
    BY <2>0, <2>1, <2>2 DEF ConfirmCommit, TypeOK, RequestRow
  <2>3. CASE ~ConfirmCommit(c)
    <3>1. UNCHANGED <<status, address, dreq, notice, request, cancel, now>>
      BY <1>2, <2>3 DEF ConfirmStep, ConfirmAuth, ConfirmNotFound, ConfirmMatch, ConfirmCapture
    <3>2. session' \in [Users -> BOOLEAN]
      BY <1>2, <2>3 DEF ConfirmStep, ConfirmAuth, ConfirmNotFound, ConfirmMatch, ConfirmCapture,
         Sweep, TypeOK
    <3>3. QED
      BY <2>1, <3>1, <3>2 DEF TypeOK
  <2>4. QED
    BY <2>2, <2>3
<1>3. ASSUME NEW k \in Cancels, CancelStep(k) PROVE TypeOK'
  <2>1. /\ cancel' \in [Cancels -> CancelHandler]
        /\ \A j \in Cancels : cancel'[j].pc = "found" => cancel'[j].found # None
    BY <1>3, CancelType
  <2>2. UNCHANGED <<status, address, notice, request, confirm, now>>
    BY <1>3 DEF CancelStep, CancelAuth, CancelLookup, CancelCommit
  <2>3. session' \in [Users -> BOOLEAN]
    BY <1>3 DEF CancelStep, CancelAuth, CancelLookup, CancelCommit, Sweep, TypeOK
  <2>4. dreq' \in [Requests -> RequestRow]
    BY <1>3 DEF CancelStep, CancelAuth, CancelLookup, CancelCommit, RequestRow, TypeOK
  <2>5. QED
    BY <2>1, <2>2, <2>3, <2>4 DEF TypeOK
<1>4. ASSUME NEW u \in Users, Logout(u) \/ Login(u) PROVE TypeOK'
  BY <1>4 DEF Logout, Login, TypeOK
<1>5. CASE Crash
  <2>1. UNCHANGED <<status, address, session, dreq, notice, now>>
    BY <1>5 DEF Crash
  <2>2. QED
    BY <1>5, <2>1, CrashType DEF TypeOK
<1>6. CASE Tick
  BY <1>6 DEF Tick, TypeOK
<1>7. CASE UNCHANGED vars
  BY <1>7 DEF vars, TypeOK
<1>8. QED
  BY <1>1, <1>2, <1>3, <1>4, <1>5, <1>6, <1>7 DEF Next

-----------------------------------------------------------------------------
(* Who changes what.                                                       *)

(* No step changes whose handler it is.                                    *)
LEMMA UsersStay ==
  ASSUME TypeOK, [Next]_vars
  PROVE  /\ \A q \in Requests : request'[q].user = request[q].user
         /\ \A c \in Confirms : confirm'[c].user = confirm[c].user
         /\ \A k \in Cancels : cancel'[k].user = cancel[k].user
<1>0. /\ request \in [Requests -> RequestHandler]
      /\ confirm \in [Confirms -> ConfirmHandler]
      /\ cancel \in [Cancels -> CancelHandler]
  BY DEF TypeOK
<1> USE <1>0
<1>1. ASSUME NEW q \in Requests, RequestStep(q)
      PROVE  (\A p \in Requests : request'[p].user = request[p].user)
               /\ UNCHANGED <<confirm, cancel>>
  BY <1>1 DEF RequestStep, RequestAuth, RequestCheck, RequestInsert, RequestMailed, RequestHandler
<1>2. ASSUME NEW c \in Confirms, ConfirmStep(c)
      PROVE  (\A d \in Confirms : confirm'[d].user = confirm[d].user)
               /\ UNCHANGED <<request, cancel>>
  <2>1. CASE ConfirmAuth(c) \/ ConfirmNotFound(c)
    BY <2>1 DEF ConfirmAuth, ConfirmNotFound, ConfirmHandler
  <2>2. CASE ConfirmMatch(c)
    BY <2>2 DEF ConfirmMatch, ConfirmHandler
  <2>3. CASE ConfirmCapture(c) \/ ConfirmCommit(c)
    BY <2>3 DEF ConfirmCapture, ConfirmCommit, ConfirmHandler
  <2>4. QED
    BY <1>2, <2>1, <2>2, <2>3 DEF ConfirmStep
<1>3. ASSUME NEW k \in Cancels, CancelStep(k)
      PROVE  (\A j \in Cancels : cancel'[j].user = cancel[j].user)
               /\ UNCHANGED <<request, confirm>>
  BY <1>3 DEF CancelStep, CancelAuth, CancelLookup, CancelCommit, CancelHandler
<1>4. CASE Crash
  <2>1. \A q \in Requests : request'[q].user = request[q].user
    BY <1>4 DEF Crash, RequestHandler
  <2>2. \A c \in Confirms : confirm'[c].user = confirm[c].user
    BY <1>4 DEF Crash, ConfirmHandler
  <2>3. \A k \in Cancels : cancel'[k].user = cancel[k].user
    BY <1>4 DEF Crash, CancelHandler
  <2>4. QED
    BY <2>1, <2>2, <2>3
<1>5. ASSUME (\E u \in Users : Logout(u) \/ Login(u)) \/ Tick \/ UNCHANGED vars
      PROVE  UNCHANGED <<request, confirm, cancel>>
  BY <1>5 DEF Logout, Login, Tick, vars
<1>6. QED
  BY <1>1, <1>2, <1>3, <1>4, <1>5 DEF Next

(* The account, its requests and its notices change in three steps only.   *)
LEMMA Writers ==
  ASSUME [Next]_vars
  PROVE  \/ UNCHANGED <<status, address, dreq, notice>>
         \/ \E q \in Requests : RequestInsert(q)
         \/ \E c \in Confirms : ConfirmCommit(c)
         \/ \E k \in Cancels : CancelCommit(k)
<1>1. ASSUME NEW q \in Requests, RequestStep(q), ~RequestInsert(q)
      PROVE  UNCHANGED <<status, address, dreq, notice>>
  BY <1>1 DEF RequestStep, RequestAuth, RequestCheck, RequestMailed
<1>2. ASSUME NEW c \in Confirms, ConfirmStep(c), ~ConfirmCommit(c)
      PROVE  UNCHANGED <<status, address, dreq, notice>>
  BY <1>2 DEF ConfirmStep, ConfirmAuth, ConfirmNotFound, ConfirmMatch, ConfirmCapture
<1>3. ASSUME NEW k \in Cancels, CancelStep(k), ~CancelCommit(k)
      PROVE  UNCHANGED <<status, address, dreq, notice>>
  BY <1>3 DEF CancelStep, CancelAuth, CancelLookup
<1>4. ASSUME (\E u \in Users : Logout(u) \/ Login(u)) \/ Crash \/ Tick \/ UNCHANGED vars
      PROVE  UNCHANGED <<status, address, dreq, notice>>
  BY <1>4 DEF Logout, Login, Crash, Tick, vars
<1>5. QED
  BY <1>1, <1>2, <1>3, <1>4 DEF Next

-----------------------------------------------------------------------------
(* Notices, whatever interleaves.                                          *)

(* Once a confirmation has ended it does nothing more.                     *)
LEMMA DeletedIsEnd ==
  ASSUME TypeOK, [Next]_vars, NEW c \in Confirms, confirm[c].pc = "deleted"
  PROVE  confirm'[c].pc = "deleted"
<1>0. confirm \in [Confirms -> ConfirmHandler]
  BY DEF TypeOK
<1>1. ASSUME NEW d \in Confirms, ConfirmStep(d) PROVE confirm'[c].pc = "deleted"
  BY <1>0, <1>1 DEF ConfirmStep, ConfirmAuth, ConfirmNotFound, ConfirmMatch, ConfirmCapture,
     ConfirmCommit
<1>2. CASE Crash
  BY <1>0, <1>2 DEF Crash, MidConfirms
<1>3. ASSUME \/ \E q \in Requests : RequestStep(q)
             \/ \E k \in Cancels : CancelStep(k)
             \/ \E u \in Users : Logout(u) \/ Login(u)
             \/ Tick \/ UNCHANGED vars
      PROVE  confirm' = confirm
  BY <1>3 DEF RequestStep, RequestAuth, RequestCheck, RequestInsert, RequestMailed, CancelStep,
     CancelAuth, CancelLookup, CancelCommit, Logout, Login, Tick, vars
<1>4. QED
  BY <1>1, <1>2, <1>3 DEF Next

(* A notice is queued once, in the step that ends its confirmation.        *)
LEMMA NoticeLastStep ==
  ASSUME NoticeInv, [Next]_vars
  PROVE  /\ NoticeIsLast'
         /\ \A c \in Confirms : notice[c] = "own" => notice'[c] = "own"
<1>1. ASSUME NEW c \in Confirms, ConfirmCommit(c)
      PROVE  /\ notice[c] = "none" /\ confirm'[c].pc = "deleted"
             /\ \A d \in Confirms \ {c} : notice'[d] = notice[d]
  BY <1>1 DEF NoticeInv, NoticeIsLast, ConfirmCommit, TypeOK
<1>2. (\E q \in Requests : RequestInsert(q)) \/ (\E k \in Cancels : CancelCommit(k)) => notice' = notice
  BY DEF RequestInsert, CancelCommit
<1>3. \A c \in Confirms : confirm'[c].pc # "deleted" => confirm[c].pc # "deleted"
  BY DeletedIsEnd DEF NoticeInv
<1>4. ASSUME notice' = notice
      PROVE  NoticeIsLast' /\ \A c \in Confirms : notice[c] = "own" => notice'[c] = "own"
  BY <1>3, <1>4 DEF NoticeInv, NoticeIsLast
<1>5. ASSUME NEW c \in Confirms, ConfirmCommit(c)
      PROVE  NoticeIsLast' /\ \A d \in Confirms : notice[d] = "own" => notice'[d] = "own"
  BY <1>1, <1>3, <1>5 DEF NoticeInv, NoticeIsLast
<1>6. QED
  BY <1>2, <1>4, <1>5, Writers

LEMMA NoticeStep == NoticeInv /\ [Next]_vars => NoticeInv'
<1> SUFFICES ASSUME NoticeInv, [Next]_vars PROVE NoticeInv'
    OBVIOUS
<1>1. TypeOK /\ TypeOK'
  BY TypeStep DEF NoticeInv
<1>2. \A c \in Confirms : confirm'[c].user = confirm[c].user /\ confirm[c].user \in Users
  BY <1>1, UsersStay DEF TypeOK, ConfirmHandler
<1>3. /\ NoticeIsLast'
      /\ \A c \in Confirms : notice[c] = "own" => notice'[c] = "own"
  BY NoticeLastStep
<1>4. AddressKept'
  <2>1. CASE \E c \in Confirms : ConfirmCommit(c)
    BY <1>1, <2>1 DEF ConfirmCommit, AddressKept, NoticeInv, TypeOK
  <2>2. CASE UNCHANGED <<status, address>>
    BY <2>2 DEF AddressKept, NoticeInv
  <2>3. QED
    BY <2>1, <2>2, Writers DEF RequestInsert, CancelCommit
<1>5. CapturedOrNotified'
  <2> SUFFICES ASSUME NEW c \in Confirms, confirm'[c].pc = "captured",
                      confirm'[c].email = "anonymised"
               PROVE  \E d \in Confirms : confirm'[d].user = confirm'[c].user /\ notice'[d] = "own"
      BY DEF CapturedOrNotified
  <2>1. CASE confirm'[c] = confirm[c]
    BY <1>2, <1>3, <2>1 DEF NoticeInv, CapturedOrNotified
  <2>2. CASE ConfirmCapture(c)
    <3>1. address[confirm[c].user] = "anonymised"
      BY <1>1, <2>2 DEF ConfirmCapture, TypeOK, ConfirmHandler
    <3>2. status[confirm[c].user] = "deleted"
      BY <1>1, <1>2, <3>1 DEF NoticeInv, AddressKept, TypeOK
    <3>3. QED
      BY <1>2, <1>3, <3>2 DEF NoticeInv, DeletedIsNotified
  <2>3. confirm'[c] = confirm[c] \/ ConfirmCapture(c)
    <3>1. confirm \in [Confirms -> ConfirmHandler]
      BY <1>1 DEF TypeOK
    <3>2. ASSUME NEW d \in Confirms, ConfirmStep(d), d # c PROVE confirm'[c] = confirm[c]
      BY <3>1, <3>2 DEF ConfirmStep, ConfirmAuth, ConfirmNotFound, ConfirmMatch, ConfirmCapture,
         ConfirmCommit
    <3>3. ASSUME ConfirmStep(c) PROVE ConfirmCapture(c)
      <4>1. ~ConfirmAuth(c) /\ ~ConfirmNotFound(c) /\ ~ConfirmCommit(c)
        BY <3>1 DEF ConfirmAuth, ConfirmNotFound, ConfirmCommit, ConfirmHandler
      <4>2. ConfirmMatch(c) => confirm'[c].pc \in {"expired", "invalid", "matched"}
        BY <3>1 DEF ConfirmMatch, ConfirmHandler
      <4>3. QED
        BY <3>3, <4>1, <4>2 DEF ConfirmStep
    <3>4. CASE Crash
      BY <3>1, <3>4 DEF Crash, ConfirmHandler
    <3>5. ASSUME \/ \E q \in Requests : RequestStep(q)
                 \/ \E k \in Cancels : CancelStep(k)
                 \/ \E u \in Users : Logout(u) \/ Login(u)
                 \/ Tick \/ UNCHANGED vars
          PROVE  confirm' = confirm
      BY <3>5 DEF RequestStep, RequestAuth, RequestCheck, RequestInsert, RequestMailed,
         CancelStep, CancelAuth, CancelLookup, CancelCommit, Logout, Login, Tick, vars
    <3>6. QED
      BY <3>2, <3>3, <3>4, <3>5 DEF Next
  <2>4. QED
    BY <2>1, <2>2, <2>3
<1>6. DeletedIsNotified'
  <2> SUFFICES ASSUME NEW u \in Users, status'[u] = "deleted"
               PROVE  \E c \in Confirms : confirm'[c].user = u /\ notice'[c] = "own"
      BY DEF DeletedIsNotified
  <2>1. CASE status[u] = "deleted"
    BY <1>2, <1>3, <2>1 DEF NoticeInv, DeletedIsNotified
  <2>2. CASE status[u] # "deleted"
    <3>1. PICK c \in Confirms : ConfirmCommit(c) /\ confirm[c].user = u
      BY <1>1, <2>2, Writers DEF RequestInsert, CancelCommit, ConfirmCommit, TypeOK
    <3>2. notice'[c] = confirm[c].email /\ confirm[c].pc = "captured"
      BY <1>1, <3>1 DEF ConfirmCommit, TypeOK
    <3>3. CASE confirm[c].email = "own"
      BY <1>2, <3>1, <3>2, <3>3
    <3>4. CASE confirm[c].email # "own"
      <4>1. confirm[c].email = "anonymised"
        BY <1>1, <3>4 DEF TypeOK, ConfirmHandler
      <4>2. QED
        BY <1>2, <1>3, <3>1, <3>2, <4>1 DEF NoticeInv, CapturedOrNotified
    <3>5. QED
      BY <3>3, <3>4
  <2>3. QED
    BY <2>1, <2>2
<1>7. QED
  BY <1>1, <1>3, <1>4, <1>5, <1>6 DEF NoticeInv

(* Overlapping handlers included, the invariant of the notices.            *)
THEOREM NoticeInvariance == Spec => []NoticeInv
  BY InitNotice, NoticeStep, PTL DEF Spec

(* Every reachable state has the shape of the tables and the handlers.     *)
THEOREM TypeCorrect == Spec => []TypeOK
<1>1. NoticeInv => TypeOK
  BY DEF NoticeInv
<1>2. QED
  BY <1>1, NoticeInvariance, PTL

(* confirmDeletion never anonymises the last copy of an address: however   *)
(* confirmations overlap, a deleted account has a notice that can reach    *)
(* its owner.                                                              *)
THEOREM DeletionNotifies == Spec => []DeletedIsNotified
<1>1. NoticeInv => DeletedIsNotified
  BY DEF NoticeInv
<1>2. QED
  BY <1>1, NoticeInvariance, PTL

-----------------------------------------------------------------------------
(* Handlers that do not run between each other's steps (~Interleave),      *)
(* which is how one process runs them: crash at any step, expiry, sessions *)
(* and late logins included.  At most one request is pending, a cancelled  *)
(* one stays cancelled, an account is deleted once, and every step is one  *)
(* of AccountLifecycle or none.                                            *)

(* The handler between two of its steps is the only one.                   *)
Alone ==
  /\ \A q \in MidRequests : RequestTurn(q)
  /\ \A c \in MidConfirms : ConfirmTurn(c)
  /\ \A k \in MidCancels : CancelTurn(k)

(* A handler has no row before it inserts it.                              *)
Unborn ==
  \A q \in Requests :
    request[q].pc \in RequestPc \ {"mailing", "accepted", "aborted"} => dreq[q].row = "absent"

(* What a handler has looked up still holds when it acts on it.            *)
RequestHolds ==
  \A q \in Requests : request[q].pc = "checked" =>
    status[request[q].user] = "active" /\ Pending(request[q].user) = {}

ConfirmHolds ==
  \A c \in Confirms :
    /\ c \in MidConfirms => status[confirm[c].user] = "active"
    /\ confirm[c].pc \in {"matched", "captured"} => confirm[c].found \in Pending(confirm[c].user)
    /\ confirm[c].pc = "captured" => confirm[c].email = "own"

CancelHolds ==
  \A k \in Cancels : cancel[k].pc = "found" => cancel[k].found \in Pending(cancel[k].user)

NotTwoPending == \A u \in Users : \A p, q \in Pending(u) : p = q

(* The notices of an account: none while it is active, then one.           *)
NoticeOnce ==
  \A u \in Users :
    /\ status[u] = "active" => \A c \in Confirms : confirm[c].user = u => notice[c] = "none"
    /\ status[u] = "deleted" =>
         /\ Pending(u) = {}
         /\ \E c \in Confirms : \A d \in Confirms :
              confirm[d].user = u /\ notice[d] # "none" <=> d = c

CancelledFound == \A k \in Cancels : cancel[k].pc = "cancelled" => cancel[k].found \in Requests

SerialInv ==
  /\ NoticeInv /\ Alone /\ Unborn /\ RequestHolds /\ ConfirmHolds /\ CancelHolds
  /\ NotTwoPending /\ NoticeOnce /\ CancelledStays /\ CancelledFound

-----------------------------------------------------------------------------
(* What the steps do to the pending requests.                              *)

LEMMA PendingStays ==
  ASSUME TypeOK, [Next]_vars, dreq' = dreq
  PROVE  \A u \in Users : Pending(u)' = Pending(u)
  BY UsersStay DEF Pending

LEMMA PendingInsert ==
  ASSUME TypeOK, [Next]_vars, NEW q \in Requests, RequestInsert(q), NEW u \in Users
  PROVE  Pending(u)' \subseteq Pending(u) \cup (IF request[q].user = u THEN {q} ELSE {})
<1>1. \A p \in Requests : request'[p].user = request[p].user
  BY UsersStay
<1>2. \A p \in Requests \ {q} : dreq'[p] = dreq[p]
  BY DEF RequestInsert, TypeOK
<1>3. QED
  BY <1>1, <1>2 DEF Pending

LEMMA PendingEnds ==
  ASSUME TypeOK, [Next]_vars, NEW p \in Requests, NEW row \in {"confirmed", "cancelled"},
         dreq' = [dreq EXCEPT ![p].row = row], NEW u \in Users
  PROVE  Pending(u)' = Pending(u) \ {p}
<1>1. \A q \in Requests : request'[q].user = request[q].user
  BY UsersStay
<1>2. /\ \A q \in Requests \ {p} : dreq'[q] = dreq[q]
      /\ dreq'[p].row = row
  BY DEF TypeOK, RequestRow
<1>3. QED
  BY <1>1, <1>2 DEF Pending

-----------------------------------------------------------------------------
(* One handler at a time.                                                  *)

LEMMA AloneStep ==
  ASSUME ~Interleave, TypeOK, Alone, [Next]_vars
  PROVE  Alone'
<1> USE DEF Alone, RequestTurn, ConfirmTurn, CancelTurn
<1>1. ASSUME NEW q \in Requests, RequestStep(q) PROVE Alone'
  <2>1. UNCHANGED <<confirm, cancel>> /\ MidConfirms' = MidConfirms /\ MidCancels' = MidCancels
    BY <1>1 DEF RequestStep, RequestAuth, RequestCheck, RequestInsert, RequestMailed,
       MidConfirms, MidCancels
  <2>2. \A p \in Requests \ {q} : request'[p] = request[p]
    BY <1>1 DEF RequestStep, RequestAuth, RequestCheck, RequestInsert, RequestMailed, TypeOK
  <2>3. CASE RequestMailed(q)
    <3>1. MidRequests' = MidRequests
      BY <2>3 DEF RequestMailed, MidRequests, TypeOK, RequestHandler
    <3>2. QED
      BY <2>1, <3>1
  <2>4. CASE ~RequestMailed(q)
    <3>1. MidRequests \subseteq {q} /\ MidConfirms = {} /\ MidCancels = {}
      BY <1>1, <2>4 DEF RequestStep, RequestAuth, RequestCheck, RequestInsert
    <3>2. MidRequests' \subseteq {q}
      BY <2>2, <3>1 DEF MidRequests
    <3>3. QED
      BY <2>1, <3>1, <3>2
  <2>5. QED
    BY <2>3, <2>4
<1>2. ASSUME NEW c \in Confirms, ConfirmStep(c) PROVE Alone'
  <2>1. MidRequests' = MidRequests /\ MidCancels' = MidCancels
    BY <1>2 DEF ConfirmStep, ConfirmAuth, ConfirmNotFound, ConfirmMatch, ConfirmCapture,
       ConfirmCommit, MidRequests, MidCancels
  <2>2. \A d \in Confirms \ {c} : confirm'[d] = confirm[d]
    <3>1. confirm \in [Confirms -> ConfirmHandler]
      BY DEF TypeOK
    <3>2. CASE ConfirmMatch(c)
      BY <3>1, <3>2 DEF ConfirmMatch
    <3>3. CASE ~ConfirmMatch(c)
      BY <1>2, <3>1, <3>3 DEF ConfirmStep, ConfirmAuth, ConfirmNotFound, ConfirmCapture,
         ConfirmCommit
    <3>4. QED
      BY <3>2, <3>3
  <2>3. MidRequests = {} /\ MidConfirms \subseteq {c} /\ MidCancels = {}
    BY <1>2 DEF ConfirmStep, ConfirmAuth, ConfirmNotFound, ConfirmMatch, ConfirmCapture,
       ConfirmCommit
  <2>4. MidConfirms' \subseteq {c}
    BY <2>2, <2>3 DEF MidConfirms
  <2>5. QED
    BY <2>1, <2>3, <2>4
<1>3. ASSUME NEW k \in Cancels, CancelStep(k) PROVE Alone'
  <2>1. MidRequests' = MidRequests /\ MidConfirms' = MidConfirms
    BY <1>3 DEF CancelStep, CancelAuth, CancelLookup, CancelCommit, MidRequests, MidConfirms
  <2>2. \A j \in Cancels \ {k} : cancel'[j] = cancel[j]
    BY <1>3 DEF CancelStep, CancelAuth, CancelLookup, CancelCommit, TypeOK
  <2>3. MidRequests = {} /\ MidConfirms = {} /\ MidCancels \subseteq {k}
    BY <1>3 DEF CancelStep, CancelAuth, CancelLookup, CancelCommit
  <2>4. MidCancels' \subseteq {k}
    BY <2>2, <2>3 DEF MidCancels
  <2>5. QED
    BY <2>1, <2>3, <2>4
<1>4. CASE Crash
  <2>1. MidRequests' = {}
    BY <1>4 DEF Crash, MidRequests, RequestEnd, TypeOK, RequestHandler
  <2>2. MidConfirms' = {}
    BY <1>4 DEF Crash, MidConfirms, TypeOK, ConfirmHandler
  <2>3. MidCancels' = {}
    BY <1>4 DEF Crash, MidCancels, TypeOK, CancelHandler
  <2>4. QED
    BY <2>1, <2>2, <2>3
<1>5. ASSUME (\E u \in Users : Logout(u) \/ Login(u)) \/ Tick \/ UNCHANGED vars PROVE Alone'
  <2>1. UNCHANGED <<request, confirm, cancel>>
    BY <1>5 DEF Logout, Login, Tick, vars
  <2>2. MidRequests' = MidRequests /\ MidConfirms' = MidConfirms /\ MidCancels' = MidCancels
    BY <2>1 DEF MidRequests, MidConfirms, MidCancels
  <2>3. QED
    BY <2>2
<1>6. QED
  BY <1>1, <1>2, <1>3, <1>4, <1>5 DEF Next

(* While a handler is between its steps, only it changes the tables.       *)
LEMMA OnlyWriter ==
  ASSUME ~Interleave, TypeOK, Alone, [Next]_vars
  PROVE  /\ \A q \in MidRequests : \/ UNCHANGED <<status, address, dreq, notice>>
                                   \/ RequestInsert(q)
         /\ \A c \in MidConfirms : \/ UNCHANGED <<status, address, dreq, notice>>
                                   \/ ConfirmCommit(c)
         /\ \A k \in MidCancels : \/ UNCHANGED <<status, address, dreq, notice>>
                                  \/ CancelCommit(k)
<1>1. \A q \in Requests : RequestInsert(q) => q \in MidRequests
  BY DEF RequestInsert, MidRequests
<1>2. \A c \in Confirms : ConfirmCommit(c) => c \in MidConfirms
  BY DEF ConfirmCommit, MidConfirms
<1>3. \A k \in Cancels : CancelCommit(k) => k \in MidCancels
  BY DEF CancelCommit, MidCancels
<1>4. QED
  BY <1>1, <1>2, <1>3, Writers DEF Alone, RequestTurn, ConfirmTurn, CancelTurn

-----------------------------------------------------------------------------
(* The invariant.                                                          *)

LEMMA InitSerial == Init => SerialInv
<1> SUFFICES ASSUME Init PROVE SerialInv
    OBVIOUS
<1>1. NoticeInv /\ TypeOK
  BY InitNotice DEF NoticeInv
<1>2. /\ \A q \in Requests : request[q].pc = "idle" /\ dreq[q].row = "absent"
      /\ \A c \in Confirms : confirm[c].pc = "idle" /\ notice[c] = "none"
      /\ \A k \in Cancels : cancel[k].pc = "idle"
      /\ \A u \in Users : status[u] = "active"
  BY DEF Init
<1>3. MidRequests = {} /\ MidConfirms = {} /\ MidCancels = {}
  BY <1>2 DEF MidRequests, MidConfirms, MidCancels
<1>4. \A u \in Users : Pending(u) = {}
  BY <1>2 DEF Pending
<1>5. Alone /\ Unborn /\ RequestHolds /\ ConfirmHolds /\ CancelHolds
  BY <1>2, <1>3 DEF Alone, Unborn, RequestHolds, ConfirmHolds, CancelHolds
<1>6. NotTwoPending /\ NoticeOnce /\ CancelledStays /\ CancelledFound
  BY <1>2, <1>4 DEF NotTwoPending, NoticeOnce, CancelledStays, CancelledFound
<1>7. QED
  BY <1>1, <1>5, <1>6 DEF SerialInv

(* How a handler comes to be where it is.                                  *)
LEMMA RequestMoves ==
  ASSUME TypeOK, [Next]_vars, NEW q \in Requests
  PROVE  /\ request'[q].pc = "checked" => request'[q] = request[q] \/ RequestCheck(q)
         /\ request'[q].pc \in RequestPc \ {"mailing", "accepted", "aborted"} =>
              request[q].pc \in RequestPc \ {"mailing", "accepted", "aborted"}
<1>0. request \in [Requests -> RequestHandler] /\ request[q].pc \in RequestPc
  BY DEF TypeOK, RequestHandler
<1>1. CASE RequestStep(q)
  <2>1. CASE RequestAuth(q)
    BY <1>0, <2>1 DEF RequestAuth, RequestHandler, RequestPc
  <2>2. CASE RequestCheck(q)
    BY <1>0, <2>2 DEF RequestCheck, RequestHandler, RequestPc
  <2>3. CASE RequestInsert(q) \/ RequestMailed(q)
    BY <1>0, <2>3 DEF RequestInsert, RequestMailed, RequestHandler, RequestPc
  <2>4. QED
    BY <1>1, <2>1, <2>2, <2>3 DEF RequestStep
<1>2. ASSUME NEW p \in Requests, RequestStep(p), p # q PROVE request'[q] = request[q]
  BY <1>0, <1>2 DEF RequestStep, RequestAuth, RequestCheck, RequestInsert, RequestMailed
<1>3. CASE Crash
  BY <1>0, <1>3 DEF Crash, RequestHandler
<1>4. ASSUME \/ \E c \in Confirms : ConfirmStep(c)
             \/ \E k \in Cancels : CancelStep(k)
             \/ \E u \in Users : Logout(u) \/ Login(u)
             \/ Tick \/ UNCHANGED vars
      PROVE  request' = request
  BY <1>4 DEF ConfirmStep, ConfirmAuth, ConfirmNotFound, ConfirmMatch, ConfirmCapture,
     ConfirmCommit, CancelStep, CancelAuth, CancelLookup, CancelCommit, Logout, Login, Tick, vars
<1>5. QED
  BY <1>0, <1>1, <1>2, <1>3, <1>4 DEF Next

LEMMA ConfirmMoves ==
  ASSUME TypeOK, [Next]_vars, NEW c \in Confirms, c \in MidConfirms'
  PROVE  confirm'[c] = confirm[c] \/ ConfirmAuth(c) \/ ConfirmMatch(c) \/ ConfirmCapture(c)
<1>0. confirm \in [Confirms -> ConfirmHandler]
  BY DEF TypeOK
<1>1. ASSUME ConfirmStep(c)
      PROVE  ConfirmAuth(c) \/ ConfirmMatch(c) \/ ConfirmCapture(c)
  BY <1>0, <1>1 DEF ConfirmStep, ConfirmNotFound, ConfirmCommit, MidConfirms, ConfirmHandler
<1>2. ASSUME NEW d \in Confirms, ConfirmStep(d), d # c PROVE confirm'[c] = confirm[c]
  BY <1>0, <1>2 DEF ConfirmStep, ConfirmAuth, ConfirmNotFound, ConfirmMatch, ConfirmCapture,
     ConfirmCommit
<1>3. CASE Crash
  BY <1>0, <1>3 DEF Crash, MidConfirms, ConfirmHandler
<1>4. ASSUME \/ \E q \in Requests : RequestStep(q)
             \/ \E k \in Cancels : CancelStep(k)
             \/ \E u \in Users : Logout(u) \/ Login(u)
             \/ Tick \/ UNCHANGED vars
      PROVE  confirm' = confirm
  BY <1>4 DEF RequestStep, RequestAuth, RequestCheck, RequestInsert, RequestMailed, CancelStep,
     CancelAuth, CancelLookup, CancelCommit, Logout, Login, Tick, vars
<1>5. QED
  BY <1>1, <1>2, <1>3, <1>4 DEF Next

LEMMA CancelMoves ==
  ASSUME TypeOK, [Next]_vars, NEW k \in Cancels
  PROVE  /\ cancel'[k].pc = "found" => cancel'[k] = cancel[k] \/ CancelLookup(k)
         /\ cancel'[k].pc = "cancelled" => cancel'[k] = cancel[k] \/ CancelCommit(k)
<1>0. cancel \in [Cancels -> CancelHandler]
  BY DEF TypeOK
<1>1. ASSUME CancelStep(k)
      PROVE  /\ cancel'[k].pc = "found" => CancelLookup(k)
             /\ cancel'[k].pc = "cancelled" => CancelCommit(k)
  <2>1. CancelAuth(k) => cancel'[k].pc \notin {"found", "cancelled"}
    BY <1>0 DEF CancelAuth, CancelHandler
  <2>2. CancelLookup(k) => cancel'[k].pc # "cancelled"
    BY <1>0 DEF CancelLookup, CancelHandler
  <2>3. CancelCommit(k) => cancel'[k].pc # "found"
    BY <1>0 DEF CancelCommit, CancelHandler
  <2>4. QED
    BY <1>1, <2>1, <2>2, <2>3 DEF CancelStep
<1>2. ASSUME NEW j \in Cancels, CancelStep(j), j # k PROVE cancel'[k] = cancel[k]
  BY <1>0, <1>2 DEF CancelStep, CancelAuth, CancelLookup, CancelCommit
<1>3. CASE Crash
  BY <1>0, <1>3 DEF Crash, CancelHandler
<1>4. ASSUME \/ \E q \in Requests : RequestStep(q)
             \/ \E c \in Confirms : ConfirmStep(c)
             \/ \E u \in Users : Logout(u) \/ Login(u)
             \/ Tick \/ UNCHANGED vars
      PROVE  cancel' = cancel
  BY <1>4 DEF RequestStep, RequestAuth, RequestCheck, RequestInsert, RequestMailed, ConfirmStep,
     ConfirmAuth, ConfirmNotFound, ConfirmMatch, ConfirmCapture, ConfirmCommit, Logout, Login,
     Tick, vars
<1>5. QED
  BY <1>1, <1>2, <1>3, <1>4 DEF Next

(* A row that a confirmation or a cancellation overwrites is pending.      *)
LEMMA EndsPending ==
  ASSUME SerialInv, [Next]_vars, dreq' # dreq
  PROVE  \/ \E q \in Requests : RequestInsert(q)
         \/ \E c \in Confirms : /\ ConfirmCommit(c)
                                /\ confirm[c].found \in Pending(confirm[c].user)
                                /\ dreq' = [dreq EXCEPT ![confirm[c].found].row = "confirmed"]
         \/ \E k \in Cancels : /\ CancelCommit(k)
                               /\ cancel[k].found \in Pending(cancel[k].user)
                               /\ dreq' = [dreq EXCEPT ![cancel[k].found].row = "cancelled"]
<1>1. \A c \in Confirms : ConfirmCommit(c) =>
        /\ confirm[c].found \in Pending(confirm[c].user)
        /\ dreq' = [dreq EXCEPT ![confirm[c].found].row = "confirmed"]
  BY DEF SerialInv, ConfirmHolds, ConfirmCommit
<1>2. \A k \in Cancels : CancelCommit(k) =>
        /\ cancel[k].found \in Pending(cancel[k].user)
        /\ dreq' = [dreq EXCEPT ![cancel[k].found].row = "cancelled"]
  BY DEF SerialInv, CancelHolds, CancelCommit
<1>3. QED
  BY <1>1, <1>2, Writers

(* Pending requests grow by an insertion only.                             *)
LEMMA PendingShrinks ==
  ASSUME SerialInv, [Next]_vars, \A q \in Requests : ~RequestInsert(q)
  PROVE  \A u \in Users : Pending(u)' \subseteq Pending(u)
<1>1. TypeOK
  BY DEF SerialInv, NoticeInv
<1>2. CASE dreq' = dreq
  BY <1>1, <1>2, PendingStays
<1>3. CASE dreq' # dreq
  <2>1. PICK p \in Requests, row \in {"confirmed", "cancelled"} : dreq' = [dreq EXCEPT ![p].row = row]
    BY <1>3, EndsPending DEF Pending
  <2>2. QED
    BY <1>1, <2>1, PendingEnds
<1>4. QED
  BY <1>2, <1>3

LEMMA UnbornStep ==
  ASSUME SerialInv, [Next]_vars
  PROVE  Unborn'
<1> SUFFICES ASSUME NEW q \in Requests,
                    request'[q].pc \in RequestPc \ {"mailing", "accepted", "aborted"}
             PROVE  dreq'[q].row = "absent"
    BY DEF Unborn
<1>1. TypeOK
  BY DEF SerialInv, NoticeInv
<1>2. dreq[q].row = "absent"
  BY <1>1, RequestMoves DEF SerialInv, Unborn
<1>3. ~RequestInsert(q)
  BY <1>1 DEF RequestInsert, TypeOK, RequestHandler
<1>4. ASSUME NEW p \in Requests, RequestInsert(p) PROVE dreq'[q] = dreq[q]
  BY <1>1, <1>3, <1>4 DEF RequestInsert, TypeOK
<1>5. ASSUME NEW p \in Requests, NEW u \in Users, NEW row \in {"confirmed", "cancelled"},
             p \in Pending(u), dreq' = [dreq EXCEPT ![p].row = row]
      PROVE  dreq'[q] = dreq[q]
  BY <1>1, <1>2, <1>5 DEF Pending, TypeOK
<1>6. dreq'[q] = dreq[q]
  <2>1. /\ \A c \in Confirms : confirm[c].user \in Users
        /\ \A k \in Cancels : cancel[k].user \in Users
    BY <1>1 DEF TypeOK, ConfirmHandler, CancelHandler
  <2>2. \A u \in Users : Pending(u) \subseteq Requests
    BY DEF Pending
  <2>3. QED
    BY <1>4, <1>5, <2>1, <2>2, EndsPending
<1>7. QED
  BY <1>2, <1>6

LEMMA RequestHoldsStep ==
  ASSUME ~Interleave, SerialInv, [Next]_vars
  PROVE  RequestHolds'
<1>1. TypeOK /\ TypeOK'
  BY TypeStep DEF SerialInv, NoticeInv
<1> SUFFICES ASSUME NEW q \in Requests, request'[q].pc = "checked",
                    NEW u \in Users, u = request'[q].user
             PROVE  status'[u] = "active" /\ Pending(u)' = {}
  BY <1>1 DEF RequestHolds, Pending, TypeOK, RequestHandler
<1>2. request[q].user = u /\ request \in [Requests -> RequestHandler]
  BY <1>1, UsersStay DEF TypeOK
<1>3. CASE request'[q] = request[q]
  <2>1. q \in MidRequests
    BY <1>3 DEF MidRequests
  <2>2. ~RequestInsert(q)
    BY <1>2, <1>3 DEF RequestInsert, RequestHandler
  <2>3. UNCHANGED <<status, dreq>>
    BY <1>1, <2>1, <2>2, OnlyWriter DEF SerialInv
  <2>4. status[u] = "active" /\ Pending(u) = {}
    BY <1>2, <1>3 DEF SerialInv, RequestHolds
  <2>5. QED
    BY <1>1, <2>3, <2>4, PendingStays
<1>4. CASE RequestCheck(q)
  <2>1. status[u] = "active" /\ Pending(u) = {} /\ UNCHANGED <<status, dreq>>
    BY <1>2, <1>4 DEF RequestCheck, RequestHandler
  <2>2. QED
    BY <1>1, <2>1, PendingStays
<1>5. QED
  BY <1>1, <1>3, <1>4, RequestMoves

LEMMA ConfirmHoldsStep ==
  ASSUME ~Interleave, SerialInv, [Next]_vars
  PROVE  ConfirmHolds'
<1>1. TypeOK /\ TypeOK' /\ AddressKept
  BY TypeStep DEF SerialInv, NoticeInv
<1> SUFFICES ASSUME NEW c \in Confirms, c \in MidConfirms',
                    NEW u \in Users, u = confirm'[c].user
             PROVE  /\ status'[u] = "active"
                    /\ confirm'[c].pc \in {"matched", "captured"} => confirm'[c].found \in Pending(u)'
                    /\ confirm'[c].pc = "captured" => confirm'[c].email = "own"
  BY <1>1 DEF ConfirmHolds, MidConfirms, Pending, TypeOK, ConfirmHandler
<1>2. confirm \in [Confirms -> ConfirmHandler] /\ confirm[c].user = u
  BY <1>1, UsersStay DEF TypeOK
<1>3. UNCHANGED <<status, dreq>>
  <2>1. CASE confirm'[c] = confirm[c]
    <3>1. c \in MidConfirms
      BY <2>1 DEF MidConfirms
    <3>2. ~ConfirmCommit(c)
      BY <1>2, <2>1 DEF ConfirmCommit, ConfirmHandler
    <3>3. QED
      BY <1>1, <3>1, <3>2, OnlyWriter DEF SerialInv
  <2>2. CASE ConfirmAuth(c) \/ ConfirmMatch(c) \/ ConfirmCapture(c)
    BY <2>2 DEF ConfirmAuth, ConfirmMatch, ConfirmCapture
  <2>3. QED
    BY <1>1, <2>1, <2>2, ConfirmMoves
<1>4. Pending(u)' = Pending(u)
  BY <1>1, <1>3, PendingStays
<1>5. CASE confirm'[c] = confirm[c]
  <2>1. c \in MidConfirms
    BY <1>5 DEF MidConfirms
  <2>2. QED
    BY <1>2, <1>3, <1>4, <1>5, <2>1 DEF SerialInv, ConfirmHolds
<1>6. CASE ConfirmAuth(c)
  <2>1. confirm'[c].pc = IF Authorised(u) THEN "authorised" ELSE "denied"
    BY <1>2, <1>6 DEF ConfirmAuth, ConfirmHandler
  <2>2. Authorised(u) /\ confirm'[c].pc = "authorised"
    BY <2>1 DEF MidConfirms
  <2>3. QED
    BY <1>3, <2>2 DEF Authorised
<1>7. CASE ConfirmMatch(c)
  <2>1. c \in MidConfirms /\ status[u] = "active"
    BY <1>2, <1>7 DEF ConfirmMatch, MidConfirms, SerialInv, ConfirmHolds
  <2>2. PICK q \in Pending(u), p \in {"expired", "invalid", "matched"} :
          confirm' = [confirm EXCEPT ![c].found = q, ![c].pc = p]
    BY <1>2, <1>7 DEF ConfirmMatch
  <2>3. confirm'[c].found = q /\ confirm'[c].pc = p
    BY <1>2, <2>2 DEF ConfirmHandler
  <2>4. QED
    BY <1>3, <1>4, <2>1, <2>2, <2>3
<1>8. CASE ConfirmCapture(c)
  <2>1. c \in MidConfirms /\ status[u] = "active" /\ confirm[c].found \in Pending(u)
    BY <1>2, <1>8 DEF ConfirmCapture, MidConfirms, SerialInv, ConfirmHolds
  <2>2. address[u] = "own"
    BY <1>1, <2>1 DEF AddressKept
  <2>3. confirm'[c].email = "own" /\ confirm'[c].found = confirm[c].found
    BY <1>2, <1>8, <2>2 DEF ConfirmCapture, ConfirmHandler
  <2>4. QED
    BY <1>3, <1>4, <2>1, <2>3
<1>9. QED
  BY <1>1, <1>5, <1>6, <1>7, <1>8, ConfirmMoves

LEMMA CancelHoldsStep ==
  ASSUME ~Interleave, SerialInv, [Next]_vars
  PROVE  CancelHolds'
<1>1. TypeOK /\ TypeOK'
  BY TypeStep DEF SerialInv, NoticeInv
<1> SUFFICES ASSUME NEW k \in Cancels, cancel'[k].pc = "found",
                    NEW u \in Users, u = cancel'[k].user
             PROVE  cancel'[k].found \in Pending(u)'
  BY <1>1 DEF CancelHolds, Pending, TypeOK, CancelHandler
<1>2. cancel \in [Cancels -> CancelHandler] /\ cancel[k].user = u
  BY <1>1, UsersStay DEF TypeOK
<1>3. CASE cancel'[k] = cancel[k]
  <2>1. k \in MidCancels /\ ~CancelCommit(k)
    BY <1>2, <1>3 DEF MidCancels, CancelCommit, CancelHandler
  <2>2. dreq' = dreq
    BY <1>1, <2>1, OnlyWriter DEF SerialInv
  <2>3. cancel'[k].found \in Pending(u)
    BY <1>2, <1>3 DEF SerialInv, CancelHolds
  <2>4. QED
    BY <1>1, <2>2, <2>3, PendingStays
<1>4. CASE CancelLookup(k)
  <2>1. PICK q \in Pending(u) : cancel' = [cancel EXCEPT ![k].pc = "found", ![k].found = q]
    <3>1. cancel' # [cancel EXCEPT ![k].pc = "notFound"]
      BY <1>2 DEF CancelHandler
    <3>2. QED
      BY <1>2, <1>4, <3>1 DEF CancelLookup
  <2>2. cancel'[k].found = q
    BY <1>2, <2>1 DEF CancelHandler
  <2>3. dreq' = dreq
    BY <1>4 DEF CancelLookup
  <2>4. QED
    BY <1>1, <2>1, <2>2, <2>3, PendingStays
<1>5. QED
  BY <1>1, <1>3, <1>4, CancelMoves

LEMMA NotTwoStep ==
  ASSUME ~Interleave, SerialInv, [Next]_vars
  PROVE  NotTwoPending'
<1> SUFFICES ASSUME NEW u \in Users, NEW p \in Pending(u)', NEW q \in Pending(u)' PROVE p = q
    BY DEF NotTwoPending
<1>1. TypeOK
  BY DEF SerialInv, NoticeInv
<1>2. \A x, y \in Pending(u) : x = y
  BY DEF SerialInv, NotTwoPending
<1>3. CASE \E r \in Requests : RequestInsert(r)
  <2>1. PICK r \in Requests : RequestInsert(r)
    BY <1>3
  <2>2. request[r].user = u => Pending(u) = {}
    BY <2>1 DEF RequestInsert, SerialInv, RequestHolds
  <2>3. Pending(u)' \subseteq Pending(u) \cup (IF request[r].user = u THEN {r} ELSE {})
    BY <1>1, <2>1, PendingInsert
  <2>4. QED
    BY <1>2, <2>2, <2>3
<1>4. CASE ~(\E r \in Requests : RequestInsert(r))
  BY <1>2, <1>4, PendingShrinks
<1>5. QED
  BY <1>3, <1>4

LEMMA NoticeOnceStep ==
  ASSUME ~Interleave, SerialInv, [Next]_vars
  PROVE  NoticeOnce'
<1>1. TypeOK /\ TypeOK' /\ NoticeIsLast
  BY TypeStep DEF SerialInv, NoticeInv
<1>2. \A c \in Confirms : confirm'[c].user = confirm[c].user
  BY <1>1, UsersStay
<1> SUFFICES ASSUME NEW u \in Users
             PROVE  /\ status'[u] = "active" =>
                         \A c \in Confirms : confirm'[c].user = u => notice'[c] = "none"
                    /\ status'[u] = "deleted" =>
                         /\ Pending(u)' = {}
                         /\ \E c \in Confirms : \A d \in Confirms :
                              confirm'[d].user = u /\ notice'[d] # "none" <=> d = c
    BY DEF NoticeOnce
<1>3. CASE \E c \in Confirms : ConfirmCommit(c) /\ confirm[c].user = u
  <2>1. PICK c \in Confirms : ConfirmCommit(c) /\ confirm[c].user = u
    BY <1>3
  <2>2. /\ status[u] = "active" /\ confirm[c].found \in Pending(u) /\ confirm[c].email = "own"
    BY <2>1 DEF ConfirmCommit, MidConfirms, SerialInv, ConfirmHolds
  <2>3. status'[u] = "deleted" /\ notice' = [notice EXCEPT ![c] = "own"]
    BY <1>1, <2>1, <2>2 DEF ConfirmCommit, TypeOK
  <2>4. \A d \in Confirms : confirm[d].user = u => notice[d] = "none"
    BY <2>2 DEF SerialInv, NoticeOnce
  <2>5. \A d \in Confirms : confirm'[d].user = u /\ notice'[d] # "none" <=> d = c
    BY <1>1, <1>2, <2>1, <2>3, <2>4 DEF TypeOK
  <2>6. Pending(u)' = {}
    <3>1. dreq' = [dreq EXCEPT ![confirm[c].found].row = "confirmed"] /\ confirm[c].found \in Requests
      BY <2>1, <2>2 DEF ConfirmCommit, Pending
    <3>2. Pending(u)' = Pending(u) \ {confirm[c].found}
      BY <1>1, <3>1, PendingEnds
    <3>3. QED
      BY <2>2, <3>2 DEF SerialInv, NotTwoPending
  <2>7. QED
    BY <2>3, <2>5, <2>6
<1>4. CASE ~(\E c \in Confirms : ConfirmCommit(c) /\ confirm[c].user = u)
  <2>1. status'[u] = status[u] /\ \A c \in Confirms : confirm[c].user = u => notice'[c] = notice[c]
    <3>1. CASE UNCHANGED <<status, notice>>
      BY <3>1
    <3>2. ASSUME NEW d \in Confirms, ConfirmCommit(d)
          PROVE  /\ status'[u] = status[u]
                 /\ \A c \in Confirms : confirm[c].user = u => notice'[c] = notice[c]
      <4>1. confirm[d].user # u
        BY <1>4, <3>2
      <4>2. QED
        BY <1>1, <3>2, <4>1 DEF ConfirmCommit, TypeOK
    <3>3. QED
      BY <3>1, <3>2, Writers DEF RequestInsert, CancelCommit
  <2>2. \A c \in Confirms : confirm[c].user # u => confirm'[c].user # u
    BY <1>2
  <2>3. ASSUME status[u] = "deleted" PROVE Pending(u)' = {}
    <3>1. Pending(u) = {}
      BY <2>3 DEF SerialInv, NoticeOnce
    <3>2. CASE \E q \in Requests : RequestInsert(q)
      <4>1. PICK q \in Requests : RequestInsert(q)
        BY <3>2
      <4>2. request[q].user # u
        BY <2>3, <4>1 DEF RequestInsert, SerialInv, RequestHolds
      <4>3. Pending(u)' \subseteq Pending(u) \cup (IF request[q].user = u THEN {q} ELSE {})
        BY <1>1, <4>1, PendingInsert
      <4>4. QED
        BY <3>1, <4>2, <4>3
    <3>3. QED
      BY <3>1, <3>2, PendingShrinks
  <2>4. QED
    BY <1>2, <2>1, <2>2, <2>3 DEF SerialInv, NoticeOnce
<1>5. QED
  BY <1>3, <1>4

(* A cancelled row is neither inserted again nor pending.                  *)
LEMMA CancelledStep ==
  ASSUME SerialInv, [Next]_vars
  PROVE  CancelledStays' /\ CancelledFound'
<1> SUFFICES ASSUME NEW k \in Cancels, cancel'[k].pc = "cancelled"
             PROVE  /\ dreq'[cancel'[k].found].row = "cancelled"
                    /\ cancel'[k].found \in Requests
    BY DEF CancelledStays, CancelledFound
<1>1. TypeOK /\ Unborn
  BY DEF SerialInv, NoticeInv
<1>2. CASE cancel'[k] = cancel[k]
  <2> DEFINE f == cancel[k].found
  <2>1. dreq[f].row = "cancelled" /\ f \in Requests
    BY <1>2 DEF SerialInv, CancelledStays, CancelledFound
  <2>2. CASE dreq' = dreq
    BY <1>2, <2>1, <2>2
  <2>3. ASSUME NEW q \in Requests, RequestInsert(q) PROVE dreq'[f] = dreq[f]
    <3>1. dreq[q].row = "absent"
      BY <1>1, <2>3 DEF RequestInsert, Unborn, RequestPc
    <3>2. QED
      BY <1>1, <2>1, <2>3, <3>1 DEF RequestInsert, TypeOK
  <2>4. ASSUME NEW p \in Requests, NEW u, p \in Pending(u), NEW row,
               dreq' = [dreq EXCEPT ![p].row = row]
        PROVE  dreq'[f] = dreq[f]
    BY <1>1, <2>1, <2>4 DEF Pending, TypeOK
  <2>5. \A u : Pending(u) \subseteq Requests
    BY DEF Pending
  <2> HIDE DEF f
  <2>6. CASE dreq' # dreq
    <3>1. dreq'[f] = dreq[f]
      BY <2>3, <2>4, <2>5, <2>6, EndsPending
    <3>2. QED
      BY <1>2, <2>1, <3>1 DEF f
  <2>7. QED
    BY <2>2, <2>6
<1>3. CASE CancelCommit(k)
  <2>1. cancel[k].found \in Requests
    BY <1>3 DEF CancelCommit, SerialInv, CancelHolds, Pending
  <2>2. cancel'[k].found = cancel[k].found
    BY <1>1, <1>3 DEF CancelCommit, TypeOK, CancelHandler
  <2>3. dreq'[cancel[k].found].row = "cancelled"
    BY <1>1, <1>3, <2>1 DEF CancelCommit, TypeOK, RequestRow
  <2>4. QED
    BY <2>1, <2>2, <2>3
<1>4. QED
  BY <1>1, <1>2, <1>3, CancelMoves

LEMMA SerialStep ==
  ASSUME ~Interleave
  PROVE  SerialInv /\ [Next]_vars => SerialInv'
<1> SUFFICES ASSUME SerialInv, [Next]_vars PROVE SerialInv'
    OBVIOUS
<1>1. NoticeInv' /\ Alone'
  BY NoticeStep, AloneStep DEF SerialInv, NoticeInv
<1>2. Unborn' /\ RequestHolds' /\ ConfirmHolds' /\ CancelHolds'
  BY UnbornStep, RequestHoldsStep, ConfirmHoldsStep, CancelHoldsStep
<1>3. NotTwoPending' /\ NoticeOnce' /\ CancelledStays' /\ CancelledFound'
  BY NotTwoStep, NoticeOnceStep, CancelledStep
<1>4. QED
  BY <1>1, <1>2, <1>3 DEF SerialInv

-----------------------------------------------------------------------------
(* The invariant of handlers that run one at a time.                       *)
THEOREM SerialInvariance == ASSUME ~Interleave PROVE Spec => []SerialInv
  BY InitSerial, SerialStep, PTL DEF Spec

(* requestDeletion's lookup is enough, without an index, as long as no     *)
(* other handler runs between it and the insert.                           *)
THEOREM AtMostOnePending == ASSUME ~Interleave PROVE Spec => []OnePending
<1>1. ASSUME SerialInv PROVE OnePending
  <2> SUFFICES ASSUME NEW u \in Users PROVE Cardinality(Pending(u)) <= 1
      BY DEF OnePending
  <2>1. CASE Pending(u) = {}
    BY <2>1, FS_EmptySet
  <2>2. ASSUME NEW q \in Pending(u) PROVE Cardinality(Pending(u)) <= 1
    <3>1. Pending(u) = {q}
      BY <1>1 DEF SerialInv, NotTwoPending
    <3>2. QED
      BY <3>1, FS_Singleton
  <2>3. QED
    BY <2>1, <2>2
<1>2. QED
  BY <1>1, SerialInvariance, PTL

(* A cancellation that was answered is final.                              *)
THEOREM CancellationIsFinal == ASSUME ~Interleave PROVE Spec => []CancelledStays
<1>1. SerialInv => CancelledStays
  BY DEF SerialInv
<1>2. QED
  BY <1>1, SerialInvariance, PTL

(* A deleted account has one notice, and nothing of it is pending.         *)
THEOREM DeletionHappensOnce == ASSUME ~Interleave PROVE Spec => []DeletedOnce
<1>1. ASSUME SerialInv PROVE DeletedOnce
  <2> SUFFICES ASSUME NEW u \in Users, status[u] = "deleted"
               PROVE  /\ Cardinality({c \in Confirms : confirm[c].user = u /\ notice[c] # "none"}) = 1
                      /\ Pending(u) = {}
      BY DEF DeletedOnce
  <2>1. PICK c \in Confirms : \A d \in Confirms :
          confirm[d].user = u /\ notice[d] # "none" <=> d = c
    BY <1>1 DEF SerialInv, NoticeOnce
  <2>2. {d \in Confirms : confirm[d].user = u /\ notice[d] # "none"} = {c}
    BY <2>1
  <2>3. QED
    BY <1>1, <2>2, FS_Singleton DEF SerialInv, NoticeOnce
<1>2. QED
  BY <1>1, SerialInvariance, PTL

-----------------------------------------------------------------------------
(* Refinement.                                                             *)

(* The handlers implement the lifecycle: each step is, for its account, a  *)
(* request, a withdrawal or a deletion, or changes nothing.                *)
THEOREM ImplementsLifecycle == ASSUME ~Interleave PROVE Spec => FollowsLifecycle
<1> DEFINE
      stage(u) == IF status[u] = "deleted" THEN "deleted"
                  ELSE IF Pending(u) # {} THEN "pending" ELSE "active"
      acc == [u \in Users |-> stage(u)]
<1>1. Init => Lifecycle!Init
  <2> SUFFICES ASSUME Init PROVE Lifecycle!Init
      OBVIOUS
  <2>1. \A u \in Users : status[u] = "active" /\ Pending(u) = {}
    BY DEF Init, Pending
  <2>2. QED
    BY <2>1 DEF Lifecycle!Init
<1>2. SerialInv /\ [Next]_vars => [Lifecycle!Next]_acc
  <2> SUFFICES ASSUME SerialInv, [Next]_vars PROVE [Lifecycle!Next]_acc
      OBVIOUS
  <2>0. TypeOK
    BY DEF SerialInv, NoticeInv
  <2>1. CASE UNCHANGED <<status, dreq>>
    <3>1. \A u \in Users : Pending(u)' = Pending(u)
      BY <2>0, <2>1, PendingStays
    <3>2. \A u \in Users : stage(u)' = stage(u)
      BY <2>1, <3>1
    <3> HIDE DEF stage
    <3>3. acc' = acc
      BY <3>2
    <3>4. QED
      BY <3>3
  <2>2. ASSUME NEW q \in Requests, RequestInsert(q) PROVE Lifecycle!Next
    <3>0. PICK a \in Users : a = request[q].user
      BY <2>0 DEF TypeOK, RequestHandler
    <3>1. a \in Users /\ status[a] = "active" /\ Pending(a) = {} /\ status' = status
      BY <2>0, <2>2, <3>0 DEF RequestInsert, SerialInv, RequestHolds, TypeOK, RequestHandler
    <3>2. q \in Pending(a)'
      <4>1. request'[q].user = a
        BY <2>0, <3>0, UsersStay
      <4>2. dreq'[q].row = "pending"
        BY <2>0, <2>2 DEF RequestInsert, TypeOK
      <4>3. QED
        BY <4>1, <4>2 DEF Pending
    <3>3. ASSUME NEW u \in Users, u # a PROVE Pending(u)' = Pending(u)
      <4>1. \A p \in Requests : request'[p].user = request[p].user
        BY <2>0, UsersStay
      <4>2. \A p \in Requests \ {q} : dreq'[p] = dreq[p]
        BY <2>0, <2>2 DEF RequestInsert, TypeOK
      <4>3. QED
        BY <3>0, <3>3, <4>1, <4>2 DEF Pending
    <3>4. /\ stage(a) = "active" /\ stage(a)' = "pending"
          /\ \A u \in Users \ {a} : stage(u)' = stage(u)
      BY <3>1, <3>2, <3>3
    <3> HIDE DEF stage
    <3>5. acc[a] = "active" /\ acc' = [acc EXCEPT ![a] = "pending"]
      BY <3>1, <3>4
    <3>6. Lifecycle!Request(a)
      BY <3>5 DEF Lifecycle!Request, Lifecycle!Move, stage
    <3>7. QED
      BY <3>1, <3>6 DEF Lifecycle!Next
  <2>3. ASSUME NEW c \in Confirms, ConfirmCommit(c) PROVE Lifecycle!Next
    <3>0. PICK a \in Users : a = confirm[c].user
      BY <2>0 DEF TypeOK, ConfirmHandler
    <3>1. /\ a \in Users /\ status[a] = "active" /\ confirm[c].found \in Pending(a)
          /\ status' = [status EXCEPT ![a] = "deleted"]
          /\ dreq' = [dreq EXCEPT ![confirm[c].found].row = "confirmed"]
      BY <2>0, <2>3, <3>0 DEF ConfirmCommit, MidConfirms, SerialInv, ConfirmHolds, TypeOK, ConfirmHandler
    <3>2. ASSUME NEW u \in Users, u # a PROVE Pending(u)' = Pending(u)
      <4>1. Pending(u)' = Pending(u) \ {confirm[c].found}
        BY <2>0, <3>1, PendingEnds DEF Pending
      <4>2. confirm[c].found \notin Pending(u)
        BY <3>1, <3>2 DEF Pending
      <4>3. QED
        BY <4>1, <4>2
    <3>3. /\ stage(a) = "pending" /\ stage(a)' = "deleted"
          /\ \A u \in Users \ {a} : stage(u)' = stage(u)
      BY <2>0, <3>1, <3>2 DEF TypeOK
    <3> HIDE DEF stage
    <3>4. acc[a] = "pending" /\ acc' = [acc EXCEPT ![a] = "deleted"]
      BY <3>1, <3>3
    <3>5. Lifecycle!Carry(a)
      BY <3>4 DEF Lifecycle!Carry, Lifecycle!Move, stage
    <3>6. QED
      BY <3>1, <3>5 DEF Lifecycle!Next
  <2>4. ASSUME NEW k \in Cancels, CancelCommit(k) PROVE Lifecycle!Next
    <3>0. PICK a \in Users : a = cancel[k].user
      BY <2>0 DEF TypeOK, CancelHandler
    <3>1. /\ a \in Users /\ cancel[k].found \in Pending(a) /\ status' = status
          /\ dreq' = [dreq EXCEPT ![cancel[k].found].row = "cancelled"]
      BY <2>0, <2>4, <3>0 DEF CancelCommit, SerialInv, CancelHolds, TypeOK, CancelHandler
    <3>2. status[a] # "deleted" /\ \A q \in Pending(a) : q = cancel[k].found
      BY <3>1 DEF SerialInv, NoticeOnce, NotTwoPending
    <3>3. \A u \in Users : Pending(u)' = Pending(u) \ {cancel[k].found}
      BY <2>0, <3>1, PendingEnds DEF Pending
    <3>4. \A u \in Users \ {a} : cancel[k].found \notin Pending(u)
      BY <3>1 DEF Pending
    <3>5. /\ stage(a) = "pending" /\ stage(a)' = "active"
          /\ \A u \in Users \ {a} : stage(u)' = stage(u)
      BY <3>1, <3>2, <3>3, <3>4
    <3> HIDE DEF stage
    <3>6. acc[a] = "pending" /\ acc' = [acc EXCEPT ![a] = "active"]
      BY <3>1, <3>5
    <3>7. Lifecycle!Withdraw(a)
      BY <3>6 DEF Lifecycle!Withdraw, Lifecycle!Move, stage
    <3>8. QED
      BY <3>1, <3>7 DEF Lifecycle!Next
  <2>5. QED
    BY <2>1, <2>2, <2>3, <2>4, Writers
<1>3. QED
  BY <1>1, <1>2, SerialInvariance, PTL DEF Spec, FollowsLifecycle, Lifecycle!Spec

=============================================================================
