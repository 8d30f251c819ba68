------------------------- MODULE Registration_proofs -------------------------
(***************************************************************************)
(* Proofs about Registration, for any requests, names, addresses, notion   *)
(* of equal names and number of faults, and about RegistrationForm, for    *)
(* any values, rules of addresses and policy.                              *)
(*                                                                         *)
(* The invariants of Registration hold together: a refused request has a   *)
(* winner because rows are never taken back, and rows differ because the   *)
(* insert looks again.  Those of the form rest on FormInv: the page waits  *)
(* for one request at most, and shows no error of the service meanwhile.   *)
(***************************************************************************)
EXTENDS Registration, RegistrationForm, TLAPS

IInv == TypeOK /\ OneAccountPerNameAndMail /\ LoserHasWinner /\ StrandedOnlyByFault

-----------------------------------------------------------------------------
LEMMA InitInv == Init => IInv
<1> SUFFICES ASSUME Init PROVE IInv
    OBVIOUS
<1> USE RegistrationAssumption
<1>1. PICK name \in [Registrations -> Names], mail \in [Registrations -> Mails],
           valid \in [Registrations -> BOOLEAN] :
        reg = [r \in Registrations |->
                 [pc |-> "idle", name |-> name[r], mail |-> mail[r], valid |-> valid[r]]]
  BY DEF Init
<1>2. user = [r \in Registrations |-> "absent"] /\ faults = 0
  BY DEF Init
<1>3. TypeOK
  BY <1>1, <1>2 DEF TypeOK
<1>4. OneAccountPerNameAndMail
  BY <1>2 DEF OneAccountPerNameAndMail, Rows
<1>5. LoserHasWinner /\ StrandedOnlyByFault
  BY <1>1, <1>2 DEF LoserHasWinner, StrandedOnlyByFault
<1>6. QED
  BY <1>3, <1>4, <1>5 DEF IInv

(* No handler changes what its client submitted, and no row goes back to   *)
(* being absent.                                                           *)
LEMMA StepKeeps ==
  ASSUME TypeOK, [Next]_vars
  PROVE  \A r \in Registrations :
           /\ reg'[r].name = reg[r].name /\ reg'[r].mail = reg[r].mail
           /\ user[r] # "absent" => user'[r] # "absent"
<1> USE DEF TypeOK
<1>1. ASSUME NEW r \in Registrations, RegisterStep(r) \/ Activate(r) \/ DeleteAccount(r)
      PROVE  \A s \in Registrations :
               /\ reg'[s].name = reg[s].name /\ reg'[s].mail = reg[s].mail
               /\ user[s] # "absent" => user'[s] # "absent"
  BY <1>1 DEF RegisterStep, Invalid, NameCheckFails, Hash, Insert, InsertConflict, Created,
              SendThrows, Activate, DeleteAccount, Answer
<1>2. CASE Crash
  BY <1>2 DEF Crash
<1>3. CASE UNCHANGED vars
  BY <1>3 DEF vars
<1>4. QED
  BY <1>1, <1>2, <1>3 DEF Next

LEMMA TypeStep == TypeOK /\ [Next]_vars => TypeOK'
<1> SUFFICES ASSUME TypeOK, [Next]_vars PROVE TypeOK'
    OBVIOUS
<1> USE RegistrationAssumption DEF TypeOK, Waiting, RegEnd
<1>1. ASSUME NEW r \in Registrations, RegisterStep(r) PROVE TypeOK'
  <2>1. CASE Invalid(r)
    BY <2>1 DEF Invalid, Answer
  <2>2. CASE NameCheckFails(r)
    BY <2>2 DEF NameCheckFails, Answer
  <2>3. CASE Hash(r)
    BY <2>3 DEF Hash, Answer
  <2>4. CASE Insert(r)
    BY <2>4 DEF Insert, Answer
  <2>5. CASE InsertConflict(r)
    BY <2>5 DEF InsertConflict, Answer
  <2>6. CASE Created(r)
    BY <2>6 DEF Created, Answer
  <2>7. CASE SendThrows(r)
    BY <2>7 DEF SendThrows, Answer
  <2>8. QED
    BY <1>1, <2>1, <2>2, <2>3, <2>4, <2>5, <2>6, <2>7 DEF RegisterStep
<1>2. ASSUME NEW r \in Registrations, Activate(r) \/ DeleteAccount(r) PROVE TypeOK'
  BY <1>2 DEF Activate, DeleteAccount
<1>3. CASE Crash
  BY <1>3 DEF Crash
<1>4. CASE UNCHANGED vars
  BY <1>4 DEF vars
<1>5. QED
  BY <1>1, <1>2, <1>3, <1>4 DEF Next

(* Only Insert adds an account, and it compares with all that exist.       *)
LEMMA UniqueStep ==
  ASSUME TypeOK, OneAccountPerNameAndMail, [Next]_vars
  PROVE  OneAccountPerNameAndMail'
<1> USE DEF OneAccountPerNameAndMail
<1>0. \A r \in Registrations : reg'[r].name = reg[r].name /\ reg'[r].mail = reg[r].mail
  BY StepKeeps
<1>1. CASE \E r \in Registrations : Insert(r)
  <2>1. PICK r \in Registrations : Insert(r)
    BY <1>1
  <2>2. Rows' = Rows \cup {r}
    BY <2>1 DEF Insert, Rows, TypeOK
  <2>3. \A s \in Rows : Fold[reg[s].name] # Fold[reg[r].name] /\ reg[s].mail # reg[r].mail
    BY <2>1 DEF Insert, NameTaken, MailTaken
  <2>4. QED
    BY <1>0, <2>2, <2>3 DEF Rows
<1>2. CASE ~(\E r \in Registrations : Insert(r))
  <2>1. Rows' \subseteq Rows
    <3>1. CASE \E r \in Registrations : RegisterStep(r)
      BY <1>2, <3>1 DEF RegisterStep, Invalid, NameCheckFails, Hash, InsertConflict, Created,
                        SendThrows, Rows
    <3>2. CASE \E r \in Registrations : Activate(r) \/ DeleteAccount(r)
      BY <3>2 DEF Activate, DeleteAccount, Rows, TypeOK
    <3>3. CASE Crash \/ UNCHANGED vars
      BY <3>3 DEF Crash, vars, Rows
    <3>4. QED
      BY <3>1, <3>2, <3>3 DEF Next
  <2>2. QED
    BY <1>0, <2>1 DEF Rows
<1>3. QED
  BY <1>1, <1>2

(* A refused request saw a row other than its own, and that row stays.     *)
LEMMA WinnerStep ==
  ASSUME TypeOK, LoserHasWinner, [Next]_vars
  PROVE  LoserHasWinner'
<1>0. \A r \in Registrations :
        /\ reg'[r].name = reg[r].name /\ reg'[r].mail = reg[r].mail
        /\ user[r] # "absent" => user'[r] # "absent"
  BY StepKeeps
<1> DEFINE
      NameWinner(r) == \E s \in Registrations \ {r} : /\ user[s] # "absent"
                                                      /\ Fold[reg[s].name] = Fold[reg[r].name]
      MailWinner(r) == \E s \in Registrations \ {r} : user[s] # "absent" /\ reg[s].mail = reg[r].mail
<1>1. ASSUME NEW r \in Registrations
      PROVE  (NameWinner(r) => NameWinner(r)') /\ (MailWinner(r) => MailWinner(r)')
  BY <1>0
<1>2. ASSUME NEW r \in Registrations, reg'[r].pc = "taken" PROVE NameWinner(r)
  <2>1. CASE reg[r].pc = "taken"
    BY <2>1 DEF LoserHasWinner
  <2>2. CASE reg[r].pc # "taken"
    <3>1. NameTaken(reg[r].name) /\ user[r] = "absent"
      <4>1. ASSUME NEW s \in Registrations, RegisterStep(s)
            PROVE  NameTaken(reg[r].name) /\ user[r] = "absent"
        BY <1>2, <2>2, <4>1 DEF RegisterStep, Invalid, NameCheckFails, Hash, Insert,
             InsertConflict, Created, SendThrows, Answer, TypeOK
      <4>2. ~Crash /\ ~(UNCHANGED vars)
        BY <1>2, <2>2 DEF Crash, vars, TypeOK
      <4>3. ASSUME NEW s \in Registrations PROVE ~Activate(s) /\ ~DeleteAccount(s)
        BY <1>2, <2>2 DEF Activate, DeleteAccount
      <4>4. QED
        BY <4>1, <4>2, <4>3 DEF Next
    <3>2. QED
      BY <3>1 DEF NameTaken, Rows
  <2>3. QED
    BY <2>1, <2>2
<1>3. ASSUME NEW r \in Registrations, reg'[r].pc = "failed", user'[r] = "absent" PROVE MailWinner(r)
  <2>1. CASE reg[r].pc = "failed"
    BY <1>0, <1>3, <2>1 DEF LoserHasWinner
  <2>2. CASE reg[r].pc # "failed"
    <3>1. MailTaken(reg[r].mail) /\ user[r] = "absent"
      <4>1. ASSUME NEW s \in Registrations, RegisterStep(s)
            PROVE  MailTaken(reg[r].mail) /\ user[r] = "absent"
        BY <1>3, <2>2, <4>1 DEF RegisterStep, Invalid, NameCheckFails, Hash, Insert,
             InsertConflict, Created, SendThrows, Answer, TypeOK
      <4>2. ~Crash /\ ~(UNCHANGED vars)
        BY <1>3, <2>2 DEF Crash, vars, TypeOK
      <4>3. ASSUME NEW s \in Registrations PROVE ~Activate(s) /\ ~DeleteAccount(s)
        BY <1>3, <2>2 DEF Activate, DeleteAccount
      <4>4. QED
        BY <4>1, <4>2, <4>3 DEF Next
    <3>2. QED
      BY <3>1 DEF MailTaken, Rows
  <2>3. QED
    BY <2>1, <2>2
<1>4. QED
  BY <1>1, <1>2, <1>3 DEF LoserHasWinner

(* Every way out of "sending" but Created counts a fault.                  *)
LEMMA StrandedStep ==
  ASSUME TypeOK, StrandedOnlyByFault, [Next]_vars
  PROVE  StrandedOnlyByFault'
<1> USE RegistrationAssumption DEF TypeOK, StrandedOnlyByFault
<1>1. ASSUME NEW r \in Registrations, RegisterStep(r) PROVE StrandedOnlyByFault'
  BY <1>1 DEF RegisterStep, Invalid, NameCheckFails, Hash, Insert, InsertConflict, Created,
              SendThrows, Answer
<1>2. ASSUME NEW r \in Registrations, Activate(r) \/ DeleteAccount(r) PROVE StrandedOnlyByFault'
  BY <1>2 DEF Activate, DeleteAccount
<1>3. CASE Crash
  BY <1>3 DEF Crash
<1>4. CASE UNCHANGED vars
  BY <1>4 DEF vars
<1>5. QED
  BY <1>1, <1>2, <1>3, <1>4 DEF Next

LEMMA StepInv == IInv /\ [Next]_vars => IInv'
  BY TypeStep, UniqueStep, WinnerStep, StrandedStep DEF IInv

-----------------------------------------------------------------------------
(* The four invariants, in every reachable state.                          *)
THEOREM Invariance == Spec => []IInv
  BY InitInv, StepInv, PTL DEF Spec

(* Every reachable state has the shape the code gives it.                  *)
THEOREM TypeCorrect == Spec => []TypeOK
<1>1. IInv => TypeOK
  BY DEF IInv
<1>2. QED
  BY <1>1, Invariance, PTL

(* However registrations overlap, accounts never share a name or address.  *)
THEOREM NamesAndMailsAreUnique == Spec => []OneAccountPerNameAndMail
<1>1. IInv => OneAccountPerNameAndMail
  BY DEF IInv
<1>2. QED
  BY <1>1, Invariance, PTL

(* A registration is refused only in favour of another that was made.      *)
THEOREM RacesHaveWinners == Spec => []LoserHasWinner
<1>1. IInv => LoserHasWinner
  BY DEF IInv
<1>2. QED
  BY <1>1, Invariance, PTL

(* Without a Redis failure or a crash nobody is locked out of a pending    *)
(* account.                                                                *)
THEOREM NobodyStranded == Spec => []StrandedOnlyByFault
<1>1. IInv => StrandedOnlyByFault
  BY DEF IInv
<1>2. QED
  BY <1>1, Invariance, PTL

-----------------------------------------------------------------------------
(* The form of RegistrationForm, which has names of its own, so that it    *)
(* can stand next to Registration here.                                    *)

AllValues == UNION {Values[f] : f \in Fields}

(* What the five fields may hold together.                                 *)
Filled == {v \in [Fields -> AllValues] : \A f \in Fields : v[f] \in Values[f]}

ErrorType == [by : {"none", "form", "service"}, of : AllValues]

ReqType == [at : {"unsent", "sent", "hashing", "fields", "violations", "taken", "failed",
                  "created"},
            done : BOOLEAN, lost : BOOLEAN, fields : Filled \cup {Blank},
            refused : SUBSET Fields, visit : Nat]

RowType == [name : UserNames, mail : ServiceMails, by : 0 .. MaxSubmits]

PageTypes ==
  /\ fields \in Filled
  /\ errors \in [Fields -> ErrorType]
  /\ \A f \in Fields : errors[f].by # "none" => errors[f].of \in Values[f] /\ f \in touched
  /\ touched \subseteq Fields /\ late \subseteq Fields
  /\ formError \in BOOLEAN
  /\ checked \in Values.password
  /\ edits \in 0 .. MaxEdits

ServiceTypes ==
  /\ gone \in BOOLEAN
  /\ req \in [Requests -> ReqType]
  /\ visit \in Nat \ {0}
  /\ \A i \in Requests : req[i].visit <= visit
  /\ account \subseteq RowType

(* The page waits for the answer of a request.                             *)
Under(i) == req[i].at # "unsent" /\ ~req[i].done

(* What a request carries passed the form's rules, and what got past the   *)
(* first stages those of the service.                                      *)
RequestOK(r) ==
  /\ r.at = "unsent" => r = Unsent
  /\ r.at # "unsent" =>
       r.fields \in Filled /\ \A f \in Fields : ~FormRefuses(f, r.fields[f], r.fields.password)
  /\ r.at \in {"hashing", "created"} =>
       FieldErrors(r.fields) = {} /\ ~PolicyRefuses(r.fields.password)
  /\ r.at = "fields" => r.refused = FieldErrors(r.fields) /\ r.refused # {}
  /\ r.done /\ ~r.lost => r.at \in {"fields", "violations", "taken", "failed", "created"}

RequestInv == \A i \in Requests : RequestOK(req[i])

(* The page waits for one request at most, one of this visit; meanwhile no *)
(* error of the service is shown.                                          *)
UnderInv ==
  \A i \in Requests :
    Under(i) =>
      /\ req[i].visit = visit /\ ~gone /\ touched = Fields
      /\ \A f \in Fields : errors[f].by # "service"
      /\ \A j \in Requests : Under(j) => i = j

(* The verdict of the form is about the password checked last.             *)
TruthInv ==
  \A f \in touched :
    errors[f].by # "service" =>
      (errors[f].by = "form" <=> FormRefuses(f, fields[f], checked))

(* A row of the user's is of a request that made it; an account that was   *)
(* answered ended its visit.                                               *)
OwnInv ==
  /\ \A i \in Requests :
       /\ req[i].at = "created" /\ req[i].done /\ ~req[i].lost => req[i].visit < visit \/ gone
       /\ req[i].at = "taken" => Taken(i)
  /\ \A a \in account : a.by # 0 =>
       /\ a.by \in Requests /\ req[a.by].at \in {"created", "failed"}
       /\ a.name = req[a.by].fields.username

FormInv ==
  /\ PageTypes /\ ServiceTypes /\ RequestInv /\ UnderInv /\ TruthInv /\ OwnInv
  /\ ServiceErrorIsCurrent /\ OwnNameRefusedOnlyAfterLoss

-----------------------------------------------------------------------------
(* The rules.                                                              *)

LEMMA Independent ==
  ASSUME NEW f \in Fields \ {"confirm"}, NEW v, NEW p, NEW q
  PROVE  FormRefuses(f, v, p) <=> FormRefuses(f, v, q)
BY DEF FormRefuses, Fields

LEMMA ValuesIn == \A f \in Fields : Values[f] \subseteq AllValues
BY DEF AllValues

LEMMA BlankIn == Blank \in AllValues /\ Blank \in Values["name"] /\ Empty \in Values.password
<1>1. Blank \in Values["name"]
  BY DEF Values
<1>2. Empty \in Values.password
  BY DEF Values
<1> QED BY <1>1, <1>2, ValuesIn DEF Fields

LEMMA VerdictShape ==
  ASSUME NEW f \in Fields, NEW v \in Values[f]
  PROVE  /\ Verdict(f, v) \in ErrorType
         /\ Verdict(f, v).by \in {"none", "form"}
         /\ Verdict(f, v).by # "none" => Verdict(f, v).of \in Values[f]
         /\ Verdict(f, v).by = "form" <=> FormRefuses(f, v, fields.password)
BY ValuesIn, BlankIn DEF Verdict, NoError, ErrorType

LEMMA FieldErrorsIn == ASSUME NEW v PROVE FieldErrors(v) \subseteq Fields
BY DEF FieldErrors, Missing, Fields

(* What passes the field rules of the service can be a row.                *)
LEMMA PassedFields ==
  ASSUME NEW v \in Filled, FieldErrors(v) = {}
  PROVE  v.username \in UserNames /\ v.email \in ServiceMails
<1>1. "username" \in Fields /\ v.username \in Values.username
  BY DEF Filled, Fields
<1>2. "username" \notin Missing(v) /\ "email" \notin FieldErrors(v)
  BY DEF FieldErrors
<1>3. v.username # Blank
  BY <1>2 DEF Missing
<1>4. v.email \in ServiceMails
  BY DEF FieldErrors
<1> QED BY <1>1, <1>3, <1>4 DEF Values

(* What the form accepts and the service's field rules refuse.             *)
LEMMA LaxFields ==
  ASSUME NEW v \in Filled, \A f \in Fields : ~FormRefuses(f, v[f], v.password),
         FieldErrors(v) # {}
  PROVE  FieldErrors(v) = {"email"} \/ v.password.text = Blank
<1>1. v.username # Blank /\ v.email \in FormMails /\ v.confirm = v.password
  BY DEF Fields, FormRefuses
<1>2. v.email # Blank
  BY <1>1, FormAssumption
<1> QED BY <1>1, <1>2 DEF FieldErrors, Missing

LEMMA StrongPassword ==
  ASSUME NEW p, Size(p) \in Nat, Size(p) >= 8, KindsOf(p) = AllKinds
  PROVE  Strength(p) = 3
BY DEF Strength, AllKinds

LEMMA SizeNat == ASSUME NEW p \in Passwords \cup {Empty} PROVE Size(p) \in Nat
BY FormAssumption DEF Size, Empty

LEMMA KindsIn == ASSUME NEW p \in Passwords \cup {Empty} PROVE KindsOf(p) \subseteq AllKinds
BY FormAssumption DEF KindsOf, Empty, AllKinds

LEMMA BoundsNat == MaxSubmits \in Nat /\ MaxOthers \in Nat /\ MaxEdits \in Nat
BY FormAssumption

-----------------------------------------------------------------------------
LEMMA FormInitInv == FormInit => FormInv
<1> SUFFICES ASSUME FormInit PROVE FormInv
    OBVIOUS
<1>1. \A f \in Fields : errors[f] = NoError
  BY DEF FormInit
<1>2. \A i \in Requests : req[i] = Unsent
  BY DEF FormInit
<1>3. fields \in Filled
  BY DEF FormInit, Fresh, Filled, Fields, Values, AllValues
<1>4. NoError \in ErrorType /\ NoError.by = "none"
  BY BlankIn DEF NoError, ErrorType
<1>5. Unsent \in ReqType /\ Unsent.at = "unsent" /\ Unsent.visit = 0 /\ ~Unsent.done
  BY DEF Unsent, ReqType
<1>6. PageTypes
  <2>1. errors = [f \in Fields |-> NoError] /\ errors \in [Fields -> ErrorType]
    BY ONLY <1>4, FormInit DEF FormInit
  <2>2. checked \in Values.password
    BY BlankIn DEF FormInit
  <2>3. edits = 0 /\ edits \in 0 .. MaxEdits
    BY ONLY BoundsNat, FormInit DEF FormInit
  <2>4. touched = {} /\ late = {} /\ formError = FALSE
    BY DEF FormInit
  <2> QED BY ONLY <1>1, <1>3, <1>4, <2>1, <2>2, <2>3, <2>4 DEF PageTypes
<1>7. ServiceTypes
  <2>1. req \in [Requests -> ReqType] /\ \A i \in Requests : req[i].visit = 0
    BY ONLY <1>5, FormInit DEF FormInit
  <2>2. visit = 1 /\ visit \in Nat \ {0} /\ account = {}
    BY DEF FormInit
  <2>3. gone \in BOOLEAN
    BY DEF FormInit
  <2>4. \A i \in Requests : req[i].visit <= visit
    BY ONLY <2>1, <2>2
  <2> QED BY ONLY <2>1, <2>2, <2>3, <2>4 DEF ServiceTypes
<1>8. RequestInv /\ UnderInv
  BY <1>2, <1>5 DEF RequestInv, RequestOK, UnderInv, Under
<1>9. TruthInv /\ OwnInv
  BY <1>2, <1>5 DEF FormInit, TruthInv, OwnInv
<1>10. ServiceErrorIsCurrent /\ OwnNameRefusedOnlyAfterLoss
  BY <1>1, <1>2, <1>4, <1>5 DEF ServiceErrorIsCurrent, OwnNameRefusedOnlyAfterLoss
<1> QED BY <1>6, <1>7, <1>8, <1>9, <1>10 DEF FormInv

-----------------------------------------------------------------------------
(* The page.                                                               *)

(* While the requests, the rows and the visit stay, so does what is said   *)
(* of them.                                                                *)
LEMMA RequestsStay ==
  ASSUME RequestInv, OwnInv, OwnNameRefusedOnlyAfterLoss,
         UNCHANGED <<req, account, visit, gone>>
  PROVE  RequestInv' /\ OwnInv' /\ OwnNameRefusedOnlyAfterLoss'
BY DEF RequestInv, OwnInv, OwnNameRefusedOnlyAfterLoss, Taken

LEMMA EditStep ==
  ASSUME FormInv, NEW f \in Fields, NEW v \in Values[f], Edit(f, v)
  PROVE  FormInv'
<1>1. /\ UNCHANGED <<touched, gone, req, account, late, visit>>
      /\ formError' = FALSE
      /\ edits < MaxEdits /\ edits' = edits + 1
  BY DEF Edit
<1>2. /\ fields' \in Filled /\ fields'[f] = v
      /\ \A g \in Fields \ {f} : fields'[g] = fields[g]
      /\ f # "password" => fields'.password = fields.password
  BY ValuesIn DEF FormInv, PageTypes, Filled, Edit, Fields
<1>3. PICK shown : shown = Verdict(f, v)
  OBVIOUS
<1>4. /\ shown \in ErrorType /\ shown.by \in {"none", "form"}
      /\ shown.by # "none" => shown.of \in Values[f]
      /\ shown.by = "form" <=> FormRefuses(f, v, fields.password)
  BY <1>3, VerdictShape
<1>5. /\ errors' \in [Fields -> ErrorType]
      /\ \A g \in Fields : errors'[g] = IF g = f /\ f \in touched THEN shown ELSE errors[g]
  BY <1>3, <1>4 DEF FormInv, PageTypes, Edit
<1>6. checked' = IF f = "confirm" /\ f \in touched THEN fields.password ELSE checked
  BY DEF Edit
<1>7. fields.password \in Values.password
  BY DEF FormInv, PageTypes, Filled, Fields
<1>8. PageTypes'
  <2>1. edits' \in 0 .. MaxEdits
    <3>1. edits \in 0 .. MaxEdits
      BY DEF FormInv, PageTypes
    <3> QED BY ONLY <1>1, <3>1, BoundsNat
  <2>2. \A g \in Fields : errors'[g].by # "none" => errors'[g].of \in Values[g] /\ g \in touched
    BY <1>4, <1>5 DEF FormInv, PageTypes
  <2>3. checked' \in Values.password
    BY <1>6, <1>7 DEF FormInv, PageTypes
  <2> QED BY <1>1, <1>2, <1>5, <2>1, <2>2, <2>3 DEF FormInv, PageTypes
<1>9. ServiceTypes'
  BY <1>1 DEF FormInv, ServiceTypes
<1>10. UnderInv'
  BY <1>1, <1>4, <1>5 DEF FormInv, UnderInv, Under
<1>11. TruthInv'
  <2> SUFFICES ASSUME NEW g \in touched, errors'[g].by # "service"
               PROVE  errors'[g].by = "form" <=> FormRefuses(g, fields'[g], checked')
    BY <1>1 DEF TruthInv
  <2>1. g \in Fields
    BY DEF FormInv, PageTypes
  <2>2. CASE g = f
    BY <1>2, <1>4, <1>5, <1>6, <2>1, <2>2, Independent
  <2>3. CASE g # f
    BY <1>2, <1>5, <1>6, <2>1, <2>3, Independent DEF FormInv, TruthInv
  <2> QED BY <2>2, <2>3
<1>12. ServiceErrorIsCurrent'
  BY <1>1, <1>2, <1>4, <1>5 DEF FormInv, PageTypes, ServiceErrorIsCurrent
<1> QED BY <1>1, <1>8, <1>9, <1>10, <1>11, <1>12, RequestsStay DEF FormInv

LEMMA BlurStep ==
  ASSUME FormInv, NEW f \in Fields, Blur(f)
  PROVE  FormInv'
<1>1. UNCHANGED <<fields, formError, gone, req, account, late, visit, edits>>
  BY DEF Blur
<1>2. touched' = touched \cup {f}
  BY DEF Blur
<1>3. PICK shown : shown = Verdict(f, fields[f])
  OBVIOUS
<1>4. /\ shown \in ErrorType /\ shown.by \in {"none", "form"}
      /\ shown.by # "none" => shown.of \in Values[f]
      /\ shown.by = "form" <=> FormRefuses(f, fields[f], fields.password)
  BY <1>3, VerdictShape DEF FormInv, PageTypes, Filled
<1>5. /\ errors' \in [Fields -> ErrorType]
      /\ \A g \in Fields : errors'[g] = IF g = f THEN shown ELSE errors[g]
  BY <1>3, <1>4 DEF FormInv, PageTypes, Blur
<1>6. checked' = IF f = "confirm" THEN fields.password ELSE checked
  BY DEF Blur
<1>7. fields.password \in Values.password
  BY DEF FormInv, PageTypes, Filled, Fields
<1>8. PageTypes'
  BY <1>1, <1>2, <1>4, <1>5, <1>6, <1>7 DEF FormInv, PageTypes
<1>9. ServiceTypes'
  BY <1>1 DEF FormInv, ServiceTypes
<1>10. UnderInv'
  BY <1>1, <1>2, <1>4, <1>5 DEF FormInv, UnderInv, Under
<1>11. TruthInv'
  <2> SUFFICES ASSUME NEW g \in touched', errors'[g].by # "service"
               PROVE  errors'[g].by = "form" <=> FormRefuses(g, fields[g], checked')
    BY <1>1 DEF TruthInv
  <2>1. g \in Fields
    BY <1>2 DEF FormInv, PageTypes
  <2>2. CASE g = f
    BY <1>4, <1>5, <1>6, <2>1, <2>2, Independent
  <2>3. CASE g # f
    BY <1>2, <1>5, <1>6, <2>1, <2>3, Independent DEF FormInv, TruthInv
  <2> QED BY <2>2, <2>3
<1>12. ServiceErrorIsCurrent'
  BY <1>1, <1>4, <1>5 DEF FormInv, PageTypes, ServiceErrorIsCurrent
<1> QED BY <1>1, <1>8, <1>9, <1>10, <1>11, <1>12, RequestsStay DEF FormInv

LEMMA CheckAllPage ==
  ASSUME FormInv, CheckAll
  PROVE  /\ PageTypes' /\ TruthInv' /\ ServiceErrorIsCurrent'
         /\ touched' = Fields
         /\ \A f \in Fields : errors'[f].by # "service"
<1>1. /\ UNCHANGED <<fields, gone, account, late, visit, edits>>
      /\ touched' = Fields /\ formError' = FALSE /\ checked' = fields.password
      /\ errors' = [f \in Fields |-> Verdict(f, fields[f])]
  BY DEF CheckAll
<1>2. \A f \in Fields : fields[f] \in Values[f]
  BY DEF FormInv, PageTypes, Filled
<1>3. fields.password \in Values.password
  BY <1>2 DEF Fields
<1>4. \A f \in Fields :
        /\ Verdict(f, fields[f]) \in ErrorType
        /\ Verdict(f, fields[f]).by \in {"none", "form"}
        /\ Verdict(f, fields[f]).by # "none" => Verdict(f, fields[f]).of \in Values[f]
        /\ Verdict(f, fields[f]).by = "form" <=> FormRefuses(f, fields[f], fields.password)
  BY <1>2, VerdictShape
<1>5. errors' \in [Fields -> ErrorType]
  BY <1>1, <1>4
<1>6. \A f \in Fields :
        /\ errors'[f].by \in {"none", "form"}
        /\ errors'[f].by # "none" => errors'[f].of \in Values[f]
        /\ errors'[f].by = "form" <=> FormRefuses(f, fields[f], fields.password)
  BY <1>1, <1>4
<1>7. PageTypes'
  BY <1>1, <1>3, <1>5, <1>6 DEF FormInv, PageTypes
<1>8. TruthInv'
  BY <1>1, <1>6 DEF TruthInv
<1>9. ServiceErrorIsCurrent'
  BY <1>6 DEF ServiceErrorIsCurrent
<1> QED BY <1>1, <1>6, <1>7, <1>8, <1>9

(* The button waits for the answer.                                        *)
LEMMA NoneUnder == ASSUME FormInv, ~Loading PROVE \A i \in Requests : ~Under(i)
BY DEF FormInv, UnderInv, Under, Loading

LEMMA RefusedStep == ASSUME FormInv, SubmitRefused PROVE FormInv'
<1>1. ~Loading /\ CheckAll /\ req' = req
  BY DEF SubmitRefused
<1>2. UNCHANGED <<gone, account, visit>>
  BY <1>1 DEF CheckAll
<1>3. ServiceTypes'
  BY <1>1, <1>2 DEF FormInv, ServiceTypes
<1>4. UnderInv'
  BY <1>1, NoneUnder DEF UnderInv, Under
<1> QED BY <1>1, <1>2, <1>3, <1>4, CheckAllPage, RequestsStay DEF FormInv

LEMMA SubmitStep == ASSUME FormInv, Submit PROVE FormInv'
<1>1. /\ ~gone /\ ~Loading /\ CheckAll
      /\ \A f \in Fields : ~FormRefuses(f, fields[f], fields.password)
  BY DEF Submit
<1>2. UNCHANGED <<fields, gone, account, visit>>
  BY <1>1 DEF CheckAll
<1>3. PICK i \in Requests :
        /\ req[i] = Unsent
        /\ req' = [req EXCEPT ![i].at = "sent", ![i].fields = fields, ![i].visit = visit]
  BY DEF Submit, Post
<1>4. PICK n : n = [Unsent EXCEPT !.at = "sent", !.fields = fields, !.visit = visit]
  OBVIOUS
<1>5. fields \in Filled /\ visit \in Nat \ {0} /\ req \in [Requests -> ReqType]
  BY DEF FormInv, PageTypes, ServiceTypes
<1>6. /\ n \in ReqType
      /\ n.at = "sent" /\ n.fields = fields /\ n.visit = visit /\ ~n.done /\ ~n.lost
  BY <1>4, <1>5 DEF Unsent, ReqType
<1>7. /\ req' \in [Requests -> ReqType] /\ req'[i] = n
      /\ \A j \in Requests \ {i} : req'[j] = req[j]
  BY <1>3, <1>4, <1>5, <1>6
<1>8. ServiceTypes'
  <2>1. \A j \in Requests : req'[j].visit <= visit
    BY <1>5, <1>6, <1>7 DEF FormInv, ServiceTypes
  <2> QED BY <1>2, <1>7, <2>1 DEF FormInv, ServiceTypes
<1>9. RequestInv'
  <2> SUFFICES ASSUME NEW j \in Requests PROVE RequestOK(req'[j])
    BY DEF RequestInv
  <2>1. CASE j = i
    BY <1>1, <1>5, <1>6, <1>7, <2>1 DEF RequestOK
  <2>2. CASE j # i
    BY <1>7, <2>2 DEF FormInv, RequestInv
  <2> QED BY <2>1, <2>2
<1>10. UnderInv'
  BY <1>1, <1>2, <1>6, <1>7, NoneUnder, CheckAllPage DEF UnderInv, Under
<1>11. OwnInv'
  <2>1. \A j \in Requests :
          /\ req'[j].at = "created" /\ req'[j].done /\ ~req'[j].lost =>
               req'[j].visit < visit \/ gone
          /\ req'[j].at = "taken" => \E a \in account : a.name = req'[j].fields.username
    BY <1>6, <1>7 DEF FormInv, OwnInv, Taken
  <2>2. \A a \in account : a.by # 0 => a.by \in Requests \ {i}
    BY <1>3 DEF FormInv, OwnInv, Unsent
  <2>3. \A a \in account : a.by # 0 =>
          /\ a.by \in Requests /\ req'[a.by].at \in {"created", "failed"}
          /\ a.name = req'[a.by].fields.username
    BY <1>7, <2>2 DEF FormInv, OwnInv
  <2> QED BY <1>2, <2>1, <2>3 DEF OwnInv, Taken
<1>12. OwnNameRefusedOnlyAfterLoss'
  <2>1. \A a \in account : a.by # 0 => a.by \in Requests \ {i}
    BY <1>3 DEF FormInv, OwnInv, Unsent
  <2> QED BY <1>2, <1>6, <1>7, <2>1 DEF FormInv, OwnNameRefusedOnlyAfterLoss
<1> QED BY <1>8, <1>9, <1>10, <1>11, <1>12, <1>1, CheckAllPage DEF FormInv

LEMMA ReturnStep == ASSUME FormInv, Return PROVE FormInv'
<1>1. /\ gone /\ gone' = FALSE /\ visit' = visit + 1
      /\ touched' = {} /\ formError' = FALSE /\ late' = {} /\ checked' = Empty
      /\ fields' = Fresh /\ errors' = [f \in Fields |-> NoError]
      /\ UNCHANGED <<req, account, edits>>
  BY DEF Return
<1>2. fields' \in Filled
  BY <1>1 DEF Fresh, Filled, Fields, Values, AllValues
<1>3. NoError \in ErrorType /\ NoError.by = "none"
  BY BlankIn DEF NoError, ErrorType
<1>4. errors' \in [Fields -> ErrorType] /\ \A f \in Fields : errors'[f].by = "none"
  BY <1>1, <1>3
<1>5. PageTypes'
  BY <1>1, <1>2, <1>4, BlankIn DEF FormInv, PageTypes
<1>6. /\ visit \in Nat \ {0} /\ req \in [Requests -> ReqType]
      /\ \A i \in Requests : req[i].visit <= visit
  BY DEF FormInv, ServiceTypes
<1>7. \A i \in Requests : req[i].visit \in Nat
  BY <1>6 DEF ReqType
<1>8. \A i \in Requests : req[i].visit < visit' /\ req[i].visit <= visit'
  BY ONLY <1>1, <1>6, <1>7
<1>9. visit' \in Nat \ {0}
  BY ONLY <1>1, <1>6
<1>10. ServiceTypes'
  BY <1>1, <1>8, <1>9 DEF FormInv, ServiceTypes
<1>11. \A i \in Requests : ~Under(i)
  BY <1>1 DEF FormInv, UnderInv
<1>12. RequestInv' /\ OwnNameRefusedOnlyAfterLoss'
  BY <1>1 DEF FormInv, RequestInv, OwnNameRefusedOnlyAfterLoss
<1>13. UnderInv'
  BY <1>1, <1>11 DEF UnderInv, Under
<1>14. TruthInv' /\ ServiceErrorIsCurrent'
  BY <1>1, <1>4 DEF TruthInv, ServiceErrorIsCurrent
<1>15. OwnInv'
  BY <1>1, <1>8 DEF FormInv, OwnInv, Taken
<1> QED BY <1>5, <1>10, <1>12, <1>13, <1>14, <1>15 DEF FormInv

-----------------------------------------------------------------------------
(* The service, and the connection.                                        *)

(* Request i goes on as n; its page does not see that.                     *)
Serves(i, n) ==
  /\ n \in ReqType /\ req' = [req EXCEPT ![i] = n]
  /\ req[i].at # "unsent" /\ n.at # "unsent"
  /\ n.fields = req[i].fields /\ n.visit = req[i].visit
  /\ (n.done <=> req[i].done) /\ (req[i].lost => n.lost)
  /\ UNCHANGED <<form, gone, visit>>

LEMMA ServedKept ==
  ASSUME FormInv, NEW i \in Requests, NEW n, Serves(i, n)
  PROVE  /\ PageTypes' /\ UnderInv' /\ TruthInv' /\ ServiceErrorIsCurrent'
         /\ req' \in [Requests -> ReqType] /\ req'[i] = n
         /\ \A j \in Requests \ {i} : req'[j] = req[j]
         /\ \A j \in Requests : req'[j].visit <= visit'
         /\ UNCHANGED <<gone, visit>>
<1>1. req \in [Requests -> ReqType] /\ \A j \in Requests : req[j].visit <= visit
  BY DEF FormInv, ServiceTypes
<1>2. /\ req' \in [Requests -> ReqType] /\ req'[i] = n
      /\ \A j \in Requests \ {i} : req'[j] = req[j]
  BY <1>1 DEF Serves
<1>3. UNCHANGED <<fields, errors, touched, formError, late, checked, edits, gone, visit>>
  BY DEF Serves, form
<1>4. \A j \in Requests :
        /\ req'[j].visit = req[j].visit
        /\ (req'[j].done <=> req[j].done)
        /\ (req'[j].at = "unsent" <=> req[j].at = "unsent")
  BY <1>2 DEF Serves
<1>5. \A j \in Requests : req'[j].visit <= visit'
  BY ONLY <1>1, <1>3, <1>4
<1>6. PageTypes'
  BY <1>3 DEF FormInv, PageTypes
<1>7. UnderInv'
  BY <1>3, <1>4 DEF FormInv, UnderInv, Under
<1>8. TruthInv' /\ ServiceErrorIsCurrent'
  BY <1>3 DEF FormInv, TruthInv, ServiceErrorIsCurrent
<1> QED BY <1>2, <1>3, <1>5, <1>6, <1>7, <1>8

LEMMA ServedRequests ==
  ASSUME FormInv, NEW i \in Requests, NEW n, Serves(i, n),
         n.at \in {"hashing", "created"} =>
           FieldErrors(n.fields) = {} /\ ~PolicyRefuses(n.fields.password),
         n.at = "fields" => n.refused = FieldErrors(n.fields) /\ n.refused # {},
         n.done /\ ~n.lost => n.at \in {"fields", "violations", "taken", "failed", "created"}
  PROVE  RequestInv'
<1> SUFFICES ASSUME NEW j \in Requests PROVE RequestOK(req'[j])
    BY DEF RequestInv
<1>1. CASE j = i
  <2>1. /\ req[i].fields \in Filled
        /\ \A f \in Fields : ~FormRefuses(f, req[i].fields[f], req[i].fields.password)
    BY DEF FormInv, RequestInv, RequestOK, Serves
  <2> QED BY <1>1, <2>1, ServedKept DEF Serves, RequestOK
<1>2. CASE j # i
  BY <1>2, ServedKept DEF FormInv, RequestInv
<1> QED BY <1>1, <1>2

(* The page of a request that is being handled waits for it, unless the    *)
(* connection broke.                                                       *)
LEMMA HandledIsUnder ==
  ASSUME FormInv, NEW i \in Requests, req[i].at \in {"sent", "hashing"}, ~req[i].lost
  PROVE  Under(i)
BY DEF FormInv, RequestInv, RequestOK, Under

(* A verdict that makes no row.                                            *)
LEMMA ServedOwn ==
  ASSUME FormInv, NEW i \in Requests, NEW n, Serves(i, n), account' = account,
         req[i].at \in {"sent", "hashing"}, n.at # "created", n.lost <=> req[i].lost,
         n.at = "taken" => Taken(i)
  PROVE  OwnInv' /\ OwnNameRefusedOnlyAfterLoss'
<1>1. /\ req'[i] = n /\ n.fields = req[i].fields /\ n.visit = req[i].visit
      /\ \A j \in Requests \ {i} : req'[j] = req[j]
      /\ UNCHANGED <<gone, visit, account>>
  BY ServedKept DEF Serves
<1>2. \A a \in account : a.by # 0 =>
        /\ a.by \in Requests \ {i} /\ req[a.by].at \in {"created", "failed"}
        /\ a.name = req[a.by].fields.username
  BY DEF FormInv, OwnInv
<1>3. OwnInv'
  <2>1. \A j \in Requests :
          /\ req'[j].at = "created" /\ req'[j].done /\ ~req'[j].lost =>
               req'[j].visit < visit \/ gone
          /\ req'[j].at = "taken" => \E a \in account : a.name = req'[j].fields.username
    BY <1>1 DEF FormInv, OwnInv, Taken
  <2> QED BY <1>1, <1>2, <2>1 DEF OwnInv, Taken
<1>4. OwnNameRefusedOnlyAfterLoss'
  <2> SUFFICES ASSUME NEW j \in Requests, NEW a \in account,
                      req'[j].at = "taken", ~req'[j].lost,
                      a.by # 0, a.name = req'[j].fields.username
               PROVE  \/ req'[a.by].lost \/ req'[a.by].at = "failed"
                      \/ req'[a.by].visit < req'[j].visit
    BY <1>1 DEF OwnNameRefusedOnlyAfterLoss
  <2>1. req'[a.by] = req[a.by]
    BY <1>1, <1>2
  <2>2. CASE j # i
    BY <1>1, <2>1, <2>2 DEF FormInv, OwnNameRefusedOnlyAfterLoss
  <2>3. CASE j = i
    <3>1. Under(i)
      BY <1>1, <2>3, HandledIsUnder
    <3>2. req[i].visit = visit /\ ~gone /\ \A k \in Requests : Under(k) => i = k
      BY <3>1 DEF FormInv, UnderInv
    <3>3. req[a.by].at = "created" => req[a.by].done
      BY <1>2, <3>2 DEF Under
    <3>4. req[a.by].lost \/ req[a.by].at = "failed" \/ req[a.by].visit < visit
      BY <1>2, <3>2, <3>3 DEF FormInv, OwnInv
    <3> QED BY <1>1, <2>1, <2>3, <3>2, <3>4
  <2> QED BY <2>2, <2>3
<1> QED BY <1>3, <1>4

(* A verdict that makes no row keeps the invariant.                        *)
LEMMA VerdictStep ==
  ASSUME FormInv, NEW i \in Requests, NEW n, Serves(i, n), account' = account,
         req[i].at \in {"sent", "hashing"}, n.at # "created", n.lost <=> req[i].lost,
         n.at = "taken" => Taken(i),
         n.at = "hashing" => FieldErrors(n.fields) = {} /\ ~PolicyRefuses(n.fields.password),
         n.at = "fields" => n.refused = FieldErrors(n.fields) /\ n.refused # {}
  PROVE  FormInv'
<1>1. ~(n.done /\ ~n.lost)
  BY HandledIsUnder DEF Under, Serves
<1>2. RequestInv'
  BY <1>1, ServedRequests
<1>3. ServiceTypes'
  BY ServedKept DEF FormInv, ServiceTypes
<1> QED BY <1>2, <1>3, ServedKept, ServedOwn DEF FormInv

LEMMA ReqIn ==
  ASSUME FormInv, NEW i \in Requests
  PROVE  req[i] \in ReqType /\ (req[i].at # "unsent" => req[i].fields \in Filled)
BY DEF FormInv, ServiceTypes, RequestInv, RequestOK

LEMMA RefuseFieldsStep == ASSUME FormInv, NEW i \in Requests, RefuseFields(i) PROVE FormInv'
<1>1. /\ req[i].at = "sent" /\ FieldErrors(req[i].fields) # {} /\ account' = account
      /\ UNCHANGED <<form, gone, visit>>
  BY DEF RefuseFields
<1>2. PICK fs : fs = FieldErrors(req[i].fields)
  OBVIOUS
<1>3. fs \in SUBSET Fields
  BY <1>2, FieldErrorsIn
<1>4. PICK r : r = req[i]
  OBVIOUS
<1>5. PICK n : n = [r EXCEPT !.at = "fields", !.refused = fs]
  OBVIOUS
<1>6. r \in ReqType /\ req \in [Requests -> ReqType]
  BY <1>4, ReqIn DEF FormInv, ServiceTypes
<1>7. /\ n \in ReqType /\ n.at = "fields" /\ n.refused = fs
      /\ n.fields = r.fields /\ n.visit = r.visit
      /\ (n.done <=> r.done) /\ (n.lost <=> r.lost)
  BY ONLY <1>3, <1>5, <1>6 DEF ReqType
<1>8. req' = [req EXCEPT ![i].at = "fields", ![i].refused = fs]
  BY <1>2 DEF RefuseFields
<1>9. req' = [req EXCEPT ![i] = n]
  BY ONLY <1>4, <1>5, <1>6, <1>8
<1>10. Serves(i, n)
  BY <1>1, <1>4, <1>7, <1>9 DEF Serves
<1> QED BY <1>1, <1>2, <1>4, <1>7, <1>10, VerdictStep

LEMMA RefusePasswordStep ==
  ASSUME FormInv, NEW i \in Requests, RefusePassword(i) PROVE FormInv'
<1>1. /\ req[i].at = "sent" /\ account' = account
      /\ UNCHANGED <<form, gone, visit>>
  BY DEF RefusePassword
<1>2. PICK r : r = req[i]
  OBVIOUS
<1>3. PICK n : n = [r EXCEPT !.at = "violations", !.refused = {"password"}]
  OBVIOUS
<1>4. r \in ReqType /\ req \in [Requests -> ReqType]
  BY <1>2, ReqIn DEF FormInv, ServiceTypes
<1>5. {"password"} \in SUBSET Fields
  BY DEF Fields
<1>6. /\ n \in ReqType /\ n.at = "violations"
      /\ n.fields = r.fields /\ n.visit = r.visit
      /\ (n.done <=> r.done) /\ (n.lost <=> r.lost)
  BY ONLY <1>3, <1>4, <1>5 DEF ReqType
<1>7. req' = [req EXCEPT ![i].at = "violations", ![i].refused = {"password"}]
  BY DEF RefusePassword
<1>8. req' = [req EXCEPT ![i] = n]
  BY ONLY <1>2, <1>3, <1>4, <1>7
<1>9. Serves(i, n)
  BY <1>1, <1>2, <1>6, <1>8 DEF Serves
<1> QED BY <1>1, <1>2, <1>6, <1>9, VerdictStep

(* The steps that move a request to another stage only.                    *)
LEMMA ServerServes ==
  ASSUME FormInv, NEW i \in Requests, req[i].at # "unsent",
         NEW at \in {"hashing", "taken", "failed", "created"}, Server(i, at)
  PROVE  \E n : /\ Serves(i, n) /\ n.at = at /\ (n.lost <=> req[i].lost)
                /\ n.fields = req[i].fields
<1>1. req' = [req EXCEPT ![i].at = at] /\ UNCHANGED <<form, gone, visit>>
  BY DEF Server
<1>2. PICK r : r = req[i]
  OBVIOUS
<1>3. PICK n : n = [r EXCEPT !.at = at]
  OBVIOUS
<1>4. r \in ReqType /\ req \in [Requests -> ReqType]
  BY <1>2, ReqIn DEF FormInv, ServiceTypes
<1>5. /\ n \in ReqType /\ n.at = at
      /\ n.fields = r.fields /\ n.visit = r.visit
      /\ (n.done <=> r.done) /\ (n.lost <=> r.lost)
  BY <1>3, <1>4 DEF ReqType
<1>6. req' = [req EXCEPT ![i] = n]
  BY ONLY <1>1, <1>2, <1>3, <1>4
<1>7. Serves(i, n)
  BY <1>1, <1>2, <1>5, <1>6 DEF Serves
<1> QED BY <1>2, <1>5, <1>7

LEMMA CheckNameStep == ASSUME FormInv, NEW i \in Requests, CheckName(i) PROVE FormInv'
<1>1. /\ req[i].at = "sent" /\ FieldErrors(req[i].fields) = {}
      /\ ~PolicyRefuses(req[i].fields.password) /\ account' = account
  BY DEF CheckName
<1>2. CASE Taken(i)
  <2>1. Server(i, "taken")
    BY <1>2 DEF CheckName
  <2>2. PICK n : Serves(i, n) /\ n.at = "taken" /\ (n.lost <=> req[i].lost)
    BY <1>1, <2>1, ServerServes
  <2> QED BY <1>1, <1>2, <2>2, VerdictStep
<1>3. CASE ~Taken(i)
  <2>1. Server(i, "hashing")
    BY <1>3 DEF CheckName
  <2>2. PICK n : /\ Serves(i, n) /\ n.at = "hashing" /\ (n.lost <=> req[i].lost)
                 /\ n.fields = req[i].fields
    BY <1>1, <2>1, ServerServes
  <2> QED BY <1>1, <2>2, VerdictStep
<1> QED BY <1>2, <1>3

(* A row more: of this user's request i, or of another client (0).         *)
LEMMA RowMade ==
  ASSUME FormInv, NEW name \in UserNames, NEW mail \in ServiceMails, NEW by \in 0 .. MaxSubmits
  PROVE  (account \cup {[name |-> name, mail |-> mail, by |-> by]}) \subseteq RowType
BY DEF FormInv, ServiceTypes, RowType

LEMMA CreateStep ==
  ASSUME FormInv, NEW i \in Requests, req[i].at = "hashing", ~Taken(i),
         NEW at \in {"created", "failed"}, Server(i, at),
         account' = account \cup {[name |-> req[i].fields.username,
                                   mail |-> req[i].fields.email, by |-> i]}
  PROVE  FormInv'
<1>1. PICK n : /\ Serves(i, n) /\ n.at = at /\ (n.lost <=> req[i].lost)
               /\ n.fields = req[i].fields
  BY ServerServes
<1>2. /\ FieldErrors(req[i].fields) = {} /\ ~PolicyRefuses(req[i].fields.password)
      /\ req[i].fields \in Filled
  BY DEF FormInv, RequestInv, RequestOK
<1>3. ~(n.done /\ ~n.lost)
  BY <1>1, HandledIsUnder DEF Under, Serves
<1>4. RequestInv'
  BY <1>1, <1>2, <1>3, ServedRequests
<1>5. i \in 0 .. MaxSubmits /\ i # 0
  BY BoundsNat DEF Requests
<1>6. account' \subseteq RowType
  BY <1>2, <1>5, PassedFields, RowMade
<1>7. ServiceTypes'
  BY <1>1, <1>6, ServedKept DEF FormInv, ServiceTypes
<1>8. PICK row : row = [name |-> req[i].fields.username, mail |-> req[i].fields.email, by |-> i]
  OBVIOUS
<1>9. row.name = req[i].fields.username /\ row.by = i /\ account' = account \cup {row}
  BY <1>8
<1>10. /\ req'[i] = n /\ n.visit = req[i].visit
       /\ \A j \in Requests \ {i} : req'[j] = req[j]
       /\ UNCHANGED <<gone, visit>>
  BY <1>1, ServedKept DEF Serves
<1>11. \A a \in account : a.by # 0 =>
         /\ a.by \in Requests \ {i} /\ req[a.by].at \in {"created", "failed"}
         /\ a.name = req[a.by].fields.username
  BY DEF FormInv, OwnInv
<1>12. OwnInv'
  <2>1. \A j \in Requests :
          /\ req'[j].at = "created" /\ req'[j].done /\ ~req'[j].lost =>
               req'[j].visit < visit \/ gone
          /\ req'[j].at = "taken" => \E a \in account : a.name = req'[j].fields.username
    BY <1>1, <1>3, <1>10 DEF FormInv, OwnInv, Taken
  <2>2. \A a \in account' : a.by # 0 =>
          /\ a.by \in Requests /\ req'[a.by].at \in {"created", "failed"}
          /\ a.name = req'[a.by].fields.username
    BY <1>1, <1>9, <1>10, <1>11
  <2> QED BY <1>9, <1>10, <2>1, <2>2 DEF OwnInv, Taken
<1>13. OwnNameRefusedOnlyAfterLoss'
  <2> SUFFICES ASSUME NEW j \in Requests, NEW a \in account',
                      req'[j].at = "taken", ~req'[j].lost,
                      a.by # 0, a.name = req'[j].fields.username
               PROVE  \/ req'[a.by].lost \/ req'[a.by].at = "failed"
                      \/ req'[a.by].visit < req'[j].visit
    BY DEF OwnNameRefusedOnlyAfterLoss
  <2>1. j # i /\ req'[j] = req[j]
    BY <1>1, <1>10
  <2>2. PICK b \in account : b.name = req[j].fields.username
    BY <2>1 DEF FormInv, OwnInv, Taken
  <2>3. a \in account
    BY <1>9, <2>1, <2>2 DEF Taken
  <2>4. req'[a.by] = req[a.by]
    BY <1>10, <1>11, <2>3
  <2> QED BY <2>1, <2>3, <2>4 DEF FormInv, OwnNameRefusedOnlyAfterLoss
<1> QED BY <1>1, <1>4, <1>7, <1>12, <1>13, ServedKept DEF FormInv

LEMMA InsertRowStep == ASSUME FormInv, NEW i \in Requests, InsertRow(i) PROVE FormInv'
<1>1. req[i].at = "hashing"
  BY DEF InsertRow
<1>2. CASE Taken(i) /\ Server(i, "taken") /\ UNCHANGED account
  <2>1. PICK n : Serves(i, n) /\ n.at = "taken" /\ (n.lost <=> req[i].lost)
    BY <1>1, <1>2, ServerServes
  <2> QED BY <1>1, <1>2, <2>1, VerdictStep
<1>3. CASE Used(i) /\ Server(i, "failed") /\ UNCHANGED account
  <2>1. PICK n : Serves(i, n) /\ n.at = "failed" /\ (n.lost <=> req[i].lost)
    BY <1>1, <1>3, ServerServes
  <2> QED BY <1>1, <1>3, <2>1, VerdictStep
<1>4. CASE /\ ~Taken(i) /\ ~Used(i)
           /\ Server(i, "created") \/ Server(i, "failed")
           /\ account' = account \cup {[name |-> req[i].fields.username,
                                        mail |-> req[i].fields.email, by |-> i]}
  BY <1>1, <1>4, CreateStep
<1> QED BY <1>2, <1>3, <1>4 DEF InsertRow

LEMMA OtherStep ==
  ASSUME FormInv, NEW u \in UserNames, NEW m \in ServiceMails, Other(u, m)
  PROVE  FormInv'
<1>1. UNCHANGED <<fields, errors, touched, formError, late, checked, edits, gone, req, visit>>
  BY DEF Other, form
<1>2. PICK row : row = [name |-> u, mail |-> m, by |-> 0]
  OBVIOUS
<1>3. row.name = u /\ row.by = 0 /\ account' = account \cup {row}
  BY <1>2 DEF Other
<1>4. 0 \in 0 .. MaxSubmits
  BY BoundsNat
<1>5. account' \subseteq RowType
  BY <1>2, <1>3, <1>4, RowMade
<1>6. PageTypes' /\ ServiceTypes'
  BY <1>1, <1>5 DEF FormInv, PageTypes, ServiceTypes
<1>7. RequestInv' /\ UnderInv' /\ TruthInv' /\ ServiceErrorIsCurrent'
  BY <1>1 DEF FormInv, RequestInv, UnderInv, Under, TruthInv, ServiceErrorIsCurrent
<1>8. OwnInv'
  BY <1>1, <1>3 DEF FormInv, OwnInv, Taken
<1>9. OwnNameRefusedOnlyAfterLoss'
  BY <1>1, <1>3 DEF FormInv, OwnNameRefusedOnlyAfterLoss
<1> QED BY <1>6, <1>7, <1>8, <1>9 DEF FormInv

LEMMA LoseStep == ASSUME FormInv, NEW i \in Requests, Lose(i) PROVE FormInv'
<1>1. /\ req[i].at # "unsent" /\ ~req[i].done /\ ~req[i].lost
      /\ req' = [req EXCEPT ![i].lost = TRUE]
      /\ UNCHANGED <<form, gone, account, visit>>
  BY DEF Lose
<1>2. PICK r : r = req[i]
  OBVIOUS
<1>3. PICK n : n = [r EXCEPT !.lost = TRUE]
  OBVIOUS
<1>4. r \in ReqType /\ req \in [Requests -> ReqType]
  BY <1>2, ReqIn DEF FormInv, ServiceTypes
<1>5. /\ n \in ReqType /\ n.at = r.at /\ n.refused = r.refused
      /\ n.fields = r.fields /\ n.visit = r.visit
      /\ (n.done <=> r.done) /\ n.lost
  BY <1>3, <1>4 DEF ReqType
<1>6. req' = [req EXCEPT ![i] = n]
  BY ONLY <1>1, <1>2, <1>3, <1>4
<1>7. Serves(i, n)
  BY <1>1, <1>2, <1>5, <1>6 DEF Serves
<1>8. RequestInv'
  BY <1>2, <1>5, <1>7, ServedRequests DEF FormInv, RequestInv, RequestOK
<1>9. ServiceTypes'
  BY <1>1, <1>7, ServedKept DEF FormInv, ServiceTypes
<1>10. /\ req'[i] = n /\ \A j \in Requests \ {i} : req'[j] = req[j]
       /\ UNCHANGED <<gone, visit, account>>
  BY <1>1, <1>7, ServedKept
<1>11. OwnInv'
  <2>1. \A j \in Requests : req'[j].at = req[j].at /\ req'[j].fields = req[j].fields
    BY <1>2, <1>5, <1>10
  <2>2. \A j \in Requests : req'[j].at = "created" /\ req'[j].done /\ ~req'[j].lost =>
          req'[j].visit < visit \/ gone
    BY <1>5, <1>10 DEF FormInv, OwnInv
  <2> QED BY <1>10, <2>1, <2>2 DEF FormInv, OwnInv, Taken
<1>12. OwnNameRefusedOnlyAfterLoss'
  <2>1. \A a \in account : a.by # 0 => a.by \in Requests
    BY DEF FormInv, OwnInv
  <2>2. \A j \in Requests :
          /\ req'[j].at = req[j].at /\ req'[j].fields = req[j].fields
          /\ req'[j].visit = req[j].visit /\ (req[j].lost => req'[j].lost)
    BY <1>2, <1>5, <1>10
  <2> QED BY <1>10, <2>1, <2>2 DEF FormInv, OwnNameRefusedOnlyAfterLoss
<1> QED BY <1>7, <1>8, <1>9, <1>11, <1>12, ServedKept DEF FormInv

-----------------------------------------------------------------------------
(* Answers.                                                                *)

(* Request i is settled: as the page waits for no other, for none now.     *)
LEMMA Settled ==
  ASSUME FormInv, NEW i \in Requests, Settle(i), ~gone, ~req[i].done, req[i].at # "unsent",
         UNCHANGED <<account, visit>>, gone' \in BOOLEAN,
         req[i].lost \/ req[i].at \in {"fields", "violations", "taken", "failed"} \/ gone',
         req[i].lost \/ req[i].at \in {"fields", "violations", "taken", "failed", "created"}
  PROVE  /\ ServiceTypes' /\ RequestInv' /\ UnderInv' /\ OwnInv' /\ OwnNameRefusedOnlyAfterLoss'
         /\ touched = Fields /\ \A f \in Fields : errors[f].by # "service"
<1>1. PICK r : r = req[i]
  OBVIOUS
<1>2. PICK n : n = [r EXCEPT !.done = TRUE]
  OBVIOUS
<1>3. r \in ReqType /\ req \in [Requests -> ReqType]
  BY <1>1, ReqIn DEF FormInv, ServiceTypes
<1>4. /\ n \in ReqType /\ n.at = r.at /\ n.refused = r.refused
      /\ n.fields = r.fields /\ n.visit = r.visit
      /\ n.done /\ (n.lost <=> r.lost)
  BY ONLY <1>2, <1>3 DEF ReqType
<1>5. req' = [req EXCEPT ![i].done = TRUE]
  BY DEF Settle
<1>6. req' = [req EXCEPT ![i] = n]
  BY ONLY <1>1, <1>2, <1>3, <1>5
<1>7. /\ req' \in [Requests -> ReqType] /\ req'[i] = n
      /\ \A j \in Requests \ {i} : req'[j] = req[j]
  BY ONLY <1>3, <1>4, <1>6
<1>8. \A j \in Requests :
        /\ req'[j].at = req[j].at /\ req'[j].refused = req[j].refused
        /\ req'[j].fields = req[j].fields /\ req'[j].visit = req[j].visit
        /\ (req'[j].lost <=> req[j].lost)
  BY <1>1, <1>4, <1>7
<1>9. /\ req[i].visit = visit /\ touched = Fields
      /\ \A f \in Fields : errors[f].by # "service"
      /\ \A j \in Requests : Under(j) => i = j
  BY DEF FormInv, UnderInv, Under
<1>10. ServiceTypes'
  BY <1>7, <1>8 DEF FormInv, ServiceTypes
<1>11. RequestInv'
  <2> SUFFICES ASSUME NEW j \in Requests PROVE RequestOK(req'[j])
    BY DEF RequestInv
  <2>1. CASE j = i
    BY <1>8, <2>1 DEF FormInv, RequestInv, RequestOK
  <2>2. CASE j # i
    BY <1>7, <2>2 DEF FormInv, RequestInv
  <2> QED BY <2>1, <2>2
<1>12. UnderInv'
  <2>1. \A j \in Requests : ~(req'[j].at # "unsent" /\ ~req'[j].done)
    BY <1>4, <1>7, <1>9 DEF Under
  <2> QED BY <2>1 DEF UnderInv, Under
<1>13. OwnInv'
  <2>1. \A j \in Requests : req'[j].at = "created" /\ req'[j].done /\ ~req'[j].lost =>
          req'[j].visit < visit \/ gone'
    BY <1>7, <1>8 DEF FormInv, OwnInv
  <2> QED BY <1>8, <2>1 DEF FormInv, OwnInv, Taken
<1>14. OwnNameRefusedOnlyAfterLoss'
  <2>1. \A a \in account : a.by # 0 => a.by \in Requests
    BY DEF FormInv, OwnInv
  <2> QED BY <1>8, <2>1 DEF FormInv, OwnNameRefusedOnlyAfterLoss
<1> QED BY <1>9, <1>10, <1>11, <1>12, <1>13, <1>14

(* The page after an answer that leaves its fields and errors alone.       *)
LEMMA PageStays ==
  ASSUME FormInv, UNCHANGED <<fields, errors, touched, late, checked, edits>>,
         formError' \in BOOLEAN
  PROVE  PageTypes' /\ TruthInv' /\ ServiceErrorIsCurrent'
BY DEF FormInv, PageTypes, TruthInv, ServiceErrorIsCurrent

LEMMA CreatedStep == ASSUME FormInv, NEW i \in Requests, Register(i) PROVE FormInv'
<1>1. /\ ~gone /\ ~req[i].done /\ req[i].at = "created" /\ Settle(i) /\ gone' = TRUE
      /\ UNCHANGED <<fields, errors, touched, formError, late, checked, edits, account, visit>>
  BY DEF Register, Answered, form
<1>2. formError' \in BOOLEAN
  BY <1>1 DEF FormInv, PageTypes
<1> QED BY <1>1, <1>2, Settled, PageStays DEF FormInv

LEMMA BannerStep == ASSUME FormInv, NEW i \in Requests, ShowBanner(i) PROVE FormInv'
<1>1. /\ ~gone /\ ~req[i].done /\ Settle(i) /\ formError' = TRUE
      /\ req[i].lost \/ req[i].at = "failed"
      /\ UNCHANGED <<fields, errors, touched, late, checked, edits, gone, account, visit>>
  BY DEF ShowBanner, Answered, Broken
<1>2. req[i].at # "unsent"
  BY <1>1 DEF FormInv, RequestInv, RequestOK, Unsent
<1>3. gone' \in BOOLEAN
  BY <1>1 DEF FormInv, ServiceTypes
<1> QED BY <1>1, <1>2, <1>3, Settled, PageStays DEF FormInv

(* An error of the service is about what was sent; what was edited since   *)
(* is late.                                                                *)
LEMMA ShownStep ==
  ASSUME FormInv, NEW i \in Requests, NEW fs \in SUBSET Fields, Shown(i, fs), Settle(i),
         ~gone, ~req[i].done, req[i].at \in {"fields", "violations", "taken"},
         UNCHANGED <<fields, touched, formError, checked, edits, gone, account, visit>>
  PROVE  FormInv'
<1>1. gone' \in BOOLEAN
  BY DEF FormInv, ServiceTypes
<1>2. /\ ServiceTypes' /\ RequestInv' /\ UnderInv' /\ OwnInv' /\ OwnNameRefusedOnlyAfterLoss'
      /\ touched = Fields /\ \A f \in Fields : errors[f].by # "service"
  BY <1>1, Settled
<1>3. PICK sent : sent = req[i].fields
  OBVIOUS
<1>4. \A f \in Fields : sent[f] \in Values[f]
  BY <1>3, ReqIn DEF Filled
<1>5. PICK refusal : refusal = [f \in Fields |-> [by |-> "service", of |-> sent[f]]]
  OBVIOUS
<1>6. \A f \in Fields : /\ refusal[f] \in ErrorType
                        /\ refusal[f].by = "service" /\ refusal[f].of = sent[f]
  BY <1>4, <1>5, ValuesIn DEF ErrorType
<1>7. errors' = [f \in Fields |-> IF f \in fs THEN refusal[f] ELSE errors[f]]
  BY <1>3, <1>5 DEF Shown
<1>8. errors \in [Fields -> ErrorType]
  BY DEF FormInv, PageTypes
<1>9. /\ errors' \in [Fields -> ErrorType]
      /\ \A f \in Fields : errors'[f] = IF f \in fs THEN refusal[f] ELSE errors[f]
  BY ONLY <1>6, <1>7, <1>8
<1>10. late' = {f \in Fields : fields[f] # sent[f]}
  BY <1>3 DEF Shown, Late
<1>11. PageTypes'
  <2>1. \A f \in Fields : errors'[f].by # "none" => errors'[f].of \in Values[f] /\ f \in touched
    BY <1>2, <1>4, <1>6, <1>9 DEF FormInv, PageTypes
  <2> QED BY <1>9, <1>10, <2>1 DEF FormInv, PageTypes
<1>12. TruthInv'
  BY <1>2, <1>6, <1>9 DEF FormInv, TruthInv
<1>13. ServiceErrorIsCurrent'
  BY <1>2, <1>6, <1>9, <1>10 DEF ServiceErrorIsCurrent
<1> QED BY <1>2, <1>11, <1>12, <1>13 DEF FormInv

LEMMA ShowFieldsStep == ASSUME FormInv, NEW i \in Requests, ShowFields(i) PROVE FormInv'
<1>1. req[i].refused \in SUBSET Fields
  BY ReqIn DEF ReqType
<1> QED BY <1>1, ShownStep DEF ShowFields, Answered

LEMMA ShowOneStep == ASSUME FormInv, NEW i \in Requests, ShowOne(i) PROVE FormInv'
<1>1. {"password"} \in SUBSET Fields /\ {"username"} \in SUBSET Fields
  BY DEF Fields
<1>2. CASE Answered(i, "violations") /\ Shown(i, {"password"})
  BY <1>1, <1>2, ShownStep DEF ShowOne, Answered
<1>3. CASE Answered(i, "taken") /\ Shown(i, {"username"})
  BY <1>1, <1>3, ShownStep DEF ShowOne, Answered
<1> QED BY <1>2, <1>3 DEF ShowOne

LEMMA FormInvNext == FormInv /\ [FormNext]_formVars => FormInv'
<1> SUFFICES ASSUME FormInv, [FormNext]_formVars PROVE FormInv'
    OBVIOUS
<1>1. CASE Type
  BY <1>1, EditStep, BlurStep DEF Type
<1>2. CASE SubmitRefused \/ Submit \/ Return
  BY <1>2, RefusedStep, SubmitStep, ReturnStep
<1>3. ASSUME NEW i \in Requests, RegisterUser(i) PROVE FormInv'
  BY <1>3, RefuseFieldsStep, RefusePasswordStep, CheckNameStep, InsertRowStep, LoseStep
     DEF RegisterUser
<1>4. ASSUME NEW i \in Requests, Receive(i) PROVE FormInv'
  BY <1>4, CreatedStep, ShowFieldsStep, ShowOneStep, BannerStep DEF Receive
<1>5. ASSUME NEW u \in UserNames, NEW m \in ServiceMails, Other(u, m) PROVE FormInv'
  BY <1>5, OtherStep
<1>6. CASE UNCHANGED formVars
  <2>1. UNCHANGED <<fields, errors, touched, formError, gone, req, account, late, checked,
                    visit, edits>>
    BY <1>6 DEF formVars
  <2>2. PageTypes' /\ ServiceTypes' /\ TruthInv' /\ ServiceErrorIsCurrent' /\ UnderInv'
    BY <2>1 DEF FormInv, PageTypes, ServiceTypes, TruthInv, ServiceErrorIsCurrent, UnderInv,
                Under
  <2> QED BY <2>1, <2>2, RequestsStay DEF FormInv
<1> QED BY <1>1, <1>2, <1>3, <1>4, <1>5, <1>6 DEF FormNext

(* The inductive invariant of the form.                                    *)
THEOREM FormInvHolds == FormSpec => []FormInv
BY FormInitInv, FormInvNext, PTL DEF FormSpec

(* FormTypeOK: the shape of the page's and the service's state, and errors *)
(* of the form or the service only at fields that were left.               *)
THEOREM FormTypeCorrect == FormSpec => []FormTypeOK
<1>1. FormInv => FormTypeOK
  <2> SUFFICES ASSUME FormInv PROVE FormTypeOK
    OBVIOUS
  <2>1. \A f \in Fields :
          /\ fields[f] \in Values[f]
          /\ errors[f].by \in {"none", "form", "service"}
          /\ errors[f].by # "none" => errors[f].of \in Values[f] /\ f \in touched
    BY DEF FormInv, PageTypes, Filled, ErrorType
  <2>2. \A i \in Requests :
          /\ req[i].at \in {"unsent", "sent", "hashing", "fields", "violations", "taken",
                            "failed", "created"}
          /\ {req[i].done, req[i].lost} \subseteq BOOLEAN
          /\ req[i].at # "unsent" => \A f \in Fields : req[i].fields[f] \in Values[f]
          /\ req[i].refused \in SUBSET Fields
    BY ReqIn DEF ReqType, Filled
  <2>3. \A i \in Requests : req[i].visit \in Nat /\ req[i].visit <= visit
    BY ReqIn DEF ReqType, FormInv, ServiceTypes
  <2>4. visit \in Nat \ {0} /\ edits \in 0 .. MaxEdits /\ checked \in Values.password
    BY DEF FormInv, PageTypes, ServiceTypes
  <2>5. \A i \in Requests : req[i].visit \in 0 .. visit
    BY ONLY <2>3, <2>4
  <2>6. /\ touched \in SUBSET Fields /\ late \in SUBSET Fields
        /\ {formError, gone} \subseteq BOOLEAN
    BY DEF FormInv, PageTypes, ServiceTypes
  <2>7. account \in SUBSET [name : UserNames, mail : ServiceMails, by : 0 .. MaxSubmits]
    BY DEF FormInv, ServiceTypes, RowType
  <2> QED BY ONLY <2>1, <2>2, <2>4, <2>5, <2>6, <2>7 DEF FormTypeOK
<1> QED BY <1>1, FormInvHolds, PTL

(* A field that was left shows an error of the form exactly if its rule    *)
(* refuses the value; only the confirmation's may be of an earlier         *)
(* password.                                                               *)
THEOREM ErrorsAreTrue == FormSpec => []ShownErrorsAreTrue
<1>1. FormInv => ShownErrorsAreTrue
  <2> SUFFICES ASSUME FormInv, NEW f \in touched, errors[f].by # "service",
                      f = "confirm" => checked = fields.password
               PROVE  errors[f].by = "form" <=> FormRefuses(f, fields[f], fields.password)
    BY DEF ShownErrorsAreTrue
  <2>1. f \in Fields
    BY DEF FormInv, PageTypes
  <2>2. errors[f].by = "form" <=> FormRefuses(f, fields[f], checked)
    BY DEF FormInv, TruthInv
  <2>3. FormRefuses(f, fields[f], checked) <=> FormRefuses(f, fields[f], fields.password)
    BY <2>1, Independent
  <2> QED BY <2>2, <2>3
<1> QED BY <1>1, FormInvHolds, PTL

(* An error of the service stands next to the value it refused, or next to *)
(* one that was edited while the answer was under way.                     *)
THEOREM ServiceErrorCurrent == FormSpec => []ServiceErrorIsCurrent
BY FormInvHolds, PTL DEF FormInv

(* With a policy that wants all four kinds of characters, as the defaults  *)
(* of the environment do, the form and the service differ where            *)
(* LaxnessIsKnown says and nowhere else.                                   *)
THEOREM Laxness ==
  ASSUME Policy.needs = AllKinds
  PROVE  FormSpec => []LaxnessIsKnown
<1>1. FormInv => LaxnessIsKnown
  <2> SUFFICES ASSUME FormInv, NEW i \in Requests
               PROVE  /\ req[i].at = "fields" =>
                           \/ req[i].refused = {"email"}
                           \/ req[i].fields.password.text = Blank
                      /\ req[i].at = "created" => Strength(req[i].fields.password) = 3
    BY DEF LaxnessIsKnown
  <2>1. PICK v : v = req[i].fields
    OBVIOUS
  <2>2. req[i].at # "unsent" =>
          v \in Filled /\ \A f \in Fields : ~FormRefuses(f, v[f], v.password)
    BY <2>1 DEF FormInv, RequestInv, RequestOK
  <2>3. CASE req[i].at = "fields"
    <3>1. req[i].refused = FieldErrors(v) /\ FieldErrors(v) # {}
      BY <2>1, <2>3 DEF FormInv, RequestInv, RequestOK
    <3> QED BY <2>1, <2>2, <2>3, <3>1, LaxFields
  <2>4. CASE req[i].at = "created"
    <3>1. v.password \in Passwords \cup {Empty}
      BY <2>2, <2>4 DEF Filled, Fields, Values
    <3>2. Size(v.password) >= 8
      <4>1. ~FormRefuses("password", v["password"], v.password)
        BY <2>2, <2>4 DEF Fields
      <4>2. ~(Size(v.password) < 8)
        BY <4>1 DEF FormRefuses
      <4>3. Size(v.password) \in Nat
        BY <3>1, SizeNat
      <4> QED BY ONLY <4>2, <4>3
    <3>3. AllKinds \subseteq KindsOf(v.password)
      BY <2>1, <2>4 DEF FormInv, RequestInv, RequestOK, PolicyRefuses
    <3> QED BY <2>1, <2>4, <3>1, <3>2, <3>3, SizeNat, KindsIn, StrongPassword
  <2> QED BY <2>3, <2>4
<1> QED BY <1>1, FormInvHolds, PTL

(* The user is refused a name for an account of the user's own only after  *)
(* a lost or failed answer, or on a later visit.                           *)
THEOREM OwnNameAfterLoss == FormSpec => []OwnNameRefusedOnlyAfterLoss
BY FormInvHolds, PTL DEF FormInv

=============================================================================
