--------------------------- MODULE RegistrationForm ---------------------------
(***************************************************************************)
(* One user's registration page: the fields, errors and submissions of     *)
(* RegistrationForm.tsx, the rules it checks before it sends a request,    *)
(* and the rules the service checks again: registration.validator.ts,      *)
(* email.validator.ts and password-policy.evaluator.ts.                    *)
(*                                                                         *)
(* The fields stay editable while a request is under way.  Registration    *)
(* models the requests of many clients; here the others only take names    *)
(* and addresses.  A password is its text and the white space around it,   *)
(* which some rules trim; of a text only its length and the kinds of its   *)
(* characters count, of an address only which of the two patterns match.   *)
(***************************************************************************)
EXTENDS Naturals, FiniteSets

CONSTANTS
  FullNames, UserNames, Addresses, Texts,
                 (* what may be typed, in each without the empty string    *)
  Blank,         (* the empty string, or one of white space only           *)
  LongNames,     (* the full names of two characters or more               *)
  FormMails,     (* addresses that match the pattern of the form           *)
  ServiceMails,  (* addresses that match the pattern of the service        *)
  Length, Kinds, (* of a text: its length, the kinds of its characters     *)
  Passwords,     (* a text and how much white space is typed around it     *)
  Policy,        (* passwordPolicyConfig                                   *)
  MaxSubmits,    (* bound on requests of this user                         *)
  MaxOthers,     (* bound on accounts others make                          *)
  MaxEdits       (* bound on edits of fields                               *)

AllKinds == {"upper", "lower", "digit", "special"}

(* The policy is tested when the module is loaded.                         *)
PolicyLoads(policy) ==
  /\ policy \in [min : Nat, max : Nat, needs : SUBSET AllKinds]
  /\ policy.min >= 1 /\ policy.max <= 1024 /\ policy.min <= policy.max

ASSUME FormAssumption ==
  /\ Blank \notin FullNames \cup UserNames \cup Addresses \cup Texts
  /\ LongNames \subseteq FullNames
  /\ ServiceMails \subseteq FormMails /\ FormMails \subseteq Addresses
  /\ Length \in [Texts -> Nat \ {0}] /\ Kinds \in [Texts -> SUBSET AllKinds]
  /\ Passwords \subseteq [text : Texts \cup {Blank}, pad : Nat]
  /\ PolicyLoads(Policy)
  /\ {MaxSubmits, MaxOthers, MaxEdits} \subseteq Nat

(* A password without text is empty, or white space of its length.         *)
Empty == [text |-> Blank, pad |-> 0]

Values == [name |-> FullNames \cup {Blank}, username |-> UserNames \cup {Blank},
           email |-> Addresses \cup {Blank}, password |-> Passwords \cup {Empty},
           confirm |-> Passwords \cup {Empty}]

Fields == {"name", "username", "email", "password", "confirm"}

Requests == 1 .. MaxSubmits

VARIABLES
  fields,        (* what the fields hold                                   *)
  errors,        (* the error of each: by whom, and of which value         *)
  touched,       (* the fields whose error is shown                        *)
  formError,     (* the banner                                             *)
  gone,          (* the page has been left for the code's                  *)
  req,           (* the requests of this user                              *)
  account,       (* users rows: name, address and whose request; 0: others *)
  late,          (* history: fields edited while the last request waited   *)
  checked,       (* history: what the confirmation was last compared with  *)
  visit,         (* history: how often the page was opened                 *)
  edits

form == <<fields, errors, touched, formError, late, checked, edits>>
formVars == <<fields, errors, touched, formError, gone, req, account, late, checked, visit, edits>>

NoError == [by |-> "none", of |-> Blank]
Unsent == [at |-> "unsent", done |-> FALSE, lost |-> FALSE, fields |-> Blank, refused |-> {}, visit |-> 0]

Fresh == [name |-> Blank, username |-> Blank, email |-> Blank,
          password |-> Empty, confirm |-> Empty]

FormInit ==
  /\ fields = Fresh
  /\ errors = [f \in Fields |-> NoError]
  /\ touched = {} /\ formError = FALSE /\ gone = FALSE
  /\ req = [i \in Requests |-> Unsent]
  /\ account = {}
  /\ late = {} /\ checked = Empty /\ visit = 1 /\ edits = 0

-----------------------------------------------------------------------------
(* Rules.                                                                  *)

Size(p) == p.pad + IF p.text = Blank THEN 0 ELSE Length[p.text]

KindsOf(p) ==
  (IF p.text = Blank THEN {} ELSE Kinds[p.text]) \cup IF p.pad > 0 THEN {"special"} ELSE {}

(* Mutant: the confirmation is compared in the service only.               *)
FormRefusesAlone(f, v, password) ==
  CASE f = "name" -> v \notin LongNames
    [] f = "username" -> v = Blank
    [] f = "email" -> v \notin FormMails
    [] f = "password" -> Size(v) < 8
    [] OTHER -> v = Empty

(* validate and clientValidate, of field f with value v.                   *)
FormRefuses(f, v, password) ==
  CASE f = "name" -> v \notin LongNames
    [] f = "username" -> v = Blank
    [] f = "email" -> v \notin FormMails
    [] f = "password" -> Size(v) < 8
    [] OTHER -> v = Empty \/ v # password

(* Presence of the trimmed fields; then, if all are there, the address's   *)
(* format and the match of the trimmed passwords.                          *)
Missing(v) ==
  {f \in {"username", "email"} : v[f] = Blank}
    \cup {f \in {"password", "confirm"} : v[f].text = Blank}

FieldErrors(v) ==
  IF Missing(v) # {} THEN Missing(v)
  ELSE {f \in {"email"} : v.email \notin ServiceMails}
         \cup {f \in {"confirm"} : v.confirm.text # v.password.text}

(* Of a password with text.                                                *)
PolicyRefuses(p) ==
  \/ Size(p) > Policy.max
  \/ Size(p) < Policy.min
  \/ ~(Policy.needs \subseteq KindsOf(p))

(* getStrength: the level the bar shows.                                   *)
Strength(p) ==
  LET point(met) == IF met THEN 1 ELSE 0
      score == point(Size(p) >= 8) + point({"upper", "lower"} \subseteq KindsOf(p))
                 + point("digit" \in KindsOf(p)) + point("special" \in KindsOf(p))
  IN CASE Size(p) = 0 -> 0
       [] Size(p) > 0 /\ score <= 1 -> 1
       [] Size(p) > 0 /\ score = 2 -> 2
       [] OTHER -> 3

-----------------------------------------------------------------------------
(* The page.                                                               *)

(* loading, from setLoading(true) to the finally.                          *)
Loading == \E i \in Requests : req[i].at # "unsent" /\ ~req[i].done /\ req[i].visit = visit

Verdict(f, v) ==
  IF FormRefuses(f, v, fields.password) THEN [by |-> "form", of |-> v] ELSE NoError

(* Mutant: typing leaves a touched field's error as it was.                *)
EditKeepsError(f, v) ==
  /\ ~gone /\ v # fields[f]
  /\ edits < MaxEdits /\ edits' = edits + 1
  /\ fields' = [fields EXCEPT ![f] = v]
  /\ formError' = FALSE
  /\ UNCHANGED <<errors, touched, gone, req, account, late, checked, visit>>

(* Mutant: every field is checked while it is typed for the first time.    *)
EditChecksAtOnce(f, v) ==
  /\ ~gone /\ v # fields[f]
  /\ edits < MaxEdits /\ edits' = edits + 1
  /\ fields' = [fields EXCEPT ![f] = v]
  /\ formError' = FALSE
  /\ errors' = [errors EXCEPT ![f] = Verdict(f, v)]
  /\ checked' = IF f = "confirm" THEN fields.password ELSE checked
  /\ UNCHANGED <<touched, gone, req, account, late, visit>>

(* setField: the error of a field that was left before is made anew.  The  *)
(* confirmation's is not, when the password is edited.                     *)
Edit(f, v) ==
  /\ ~gone /\ v # fields[f]
  /\ edits < MaxEdits /\ edits' = edits + 1
  /\ fields' = [fields EXCEPT ![f] = v]
  /\ formError' = FALSE
  /\ errors' = IF f \in touched THEN [errors EXCEPT ![f] = Verdict(f, v)] ELSE errors
  /\ checked' = IF f = "confirm" /\ f \in touched THEN fields.password ELSE checked
  /\ UNCHANGED <<touched, gone, req, account, late, visit>>

(* Mutant: leaving a field shows the error of its last check.              *)
BlurShows(f) ==
  /\ ~gone
  /\ touched' = touched \cup {f}
  /\ UNCHANGED <<fields, errors, checked, formError, gone, req, account, late, visit, edits>>

(* handleBlur.                                                             *)
Blur(f) ==
  /\ ~gone
  /\ touched' = touched \cup {f}
  /\ errors' = [errors EXCEPT ![f] = Verdict(f, fields[f])]
  /\ checked' = IF f = "confirm" THEN fields.password ELSE checked
  /\ UNCHANGED <<fields, formError, gone, req, account, late, visit, edits>>

(* Every field is checked, and shows its error from now on.                *)
CheckAll ==
  /\ errors' = [f \in Fields |-> Verdict(f, fields[f])]
  /\ touched' = Fields /\ formError' = FALSE
  /\ checked' = fields.password
  /\ UNCHANGED <<fields, gone, account, late, visit, edits>>

SubmitRefused ==
  /\ ~gone /\ ~Loading
  /\ \E f \in Fields : FormRefuses(f, fields[f], fields.password)
  /\ CheckAll
  /\ UNCHANGED req

Post ==
  \E i \in Requests :
    /\ req[i] = Unsent /\ \A j \in Requests : j < i => req[j] # Unsent
    /\ req' = [req EXCEPT ![i].at = "sent", ![i].fields = fields, ![i].visit = visit]

(* Mutant: the button is not disabled while a request is under way.        *)
SubmitAgain ==
  /\ ~gone
  /\ \A f \in Fields : ~FormRefuses(f, fields[f], fields.password)
  /\ CheckAll
  /\ Post

(* handleSubmit, up to its await.                                          *)
Submit ==
  /\ ~gone /\ ~Loading
  /\ \A f \in Fields : ~FormRefuses(f, fields[f], fields.password)
  /\ CheckAll
  /\ Post

-----------------------------------------------------------------------------
(* The service.                                                            *)

Taken(i) == \E a \in account : a.name = req[i].fields.username
Used(i) == \E a \in account : a.mail = req[i].fields.email

Server(i, at) ==
  /\ req' = [req EXCEPT ![i].at = at]
  /\ UNCHANGED <<form, gone, visit>>

(* Stages 1 to 3 of registerUser.                                          *)
RefuseFields(i) ==
  /\ req[i].at = "sent" /\ FieldErrors(req[i].fields) # {}
  /\ req' = [req EXCEPT ![i].at = "fields", ![i].refused = FieldErrors(req[i].fields)]
  /\ UNCHANGED <<form, gone, visit, account>>

RefusePassword(i) ==
  /\ req[i].at = "sent" /\ FieldErrors(req[i].fields) = {}
  /\ PolicyRefuses(req[i].fields.password)
  /\ req' = [req EXCEPT ![i].at = "violations", ![i].refused = {"password"}]
  /\ UNCHANGED <<form, gone, visit, account>>

(* Stage 4: the user name is looked up, and the password hashed.           *)
CheckName(i) ==
  /\ req[i].at = "sent" /\ FieldErrors(req[i].fields) = {}
  /\ ~PolicyRefuses(req[i].fields.password)
  /\ Server(i, IF Taken(i) THEN "taken" ELSE "hashing")
  /\ UNCHANGED account

(* Stage 5: the row is inserted, unless one of the indexes refuses it; a   *)
(* code that cannot be sent fails the request all the same.                *)
InsertRow(i) ==
  /\ req[i].at = "hashing"
  /\ \/ Taken(i) /\ Server(i, "taken") /\ UNCHANGED account
     \/ Used(i) /\ Server(i, "failed") /\ UNCHANGED account
     \/ /\ ~Taken(i) /\ ~Used(i)
        /\ Server(i, "created") \/ Server(i, "failed")
        /\ account' = account \cup {[name |-> req[i].fields.username,
                                     mail |-> req[i].fields.email, by |-> i]}

(* Another client registers.                                               *)
Other(n, m) ==
  /\ Cardinality({a \in account : a.by = 0}) < MaxOthers
  /\ \A a \in account : a.name # n /\ a.mail # m
  /\ account' = account \cup {[name |-> n, mail |-> m, by |-> 0]}
  /\ UNCHANGED <<form, gone, req, visit>>

(* The connection breaks: the request may still be handled, or not arrive. *)
Lose(i) ==
  /\ req[i].at # "unsent" /\ ~req[i].done /\ ~req[i].lost
  /\ req' = [req EXCEPT ![i].lost = TRUE]
  /\ UNCHANGED <<form, gone, account, visit>>

-----------------------------------------------------------------------------
(* handleSubmit, after its await.                                          *)

(* finally: setLoading(false).                                             *)
Settle(i) == req' = [req EXCEPT ![i].done = TRUE]

Late(i) == {f \in Fields : fields[f] # req[i].fields[f]}

(* The errors of the service, next to whatever the fields hold by now.     *)
Shown(i, fs) ==
  /\ errors' = [f \in Fields |->
       IF f \in fs THEN [by |-> "service", of |-> req[i].fields[f]] ELSE errors[f]]
  /\ late' = Late(i)

Answered(i, at) == ~gone /\ ~req[i].done /\ ~req[i].lost /\ req[i].at = at /\ Settle(i)

Broken(i) == ~gone /\ ~req[i].done /\ req[i].lost /\ Settle(i)

(* 201: on to the page for the code.                                       *)
Register(i) ==
  /\ Answered(i, "created")
  /\ gone' = TRUE
  /\ UNCHANGED <<form, account, visit>>

(* 422, by SERVER_FIELD_MAP.                                               *)
ShowFields(i) ==
  /\ Answered(i, "fields")
  /\ Shown(i, req[i].refused)
  /\ UNCHANGED <<fields, touched, formError, checked, edits, gone, account, visit>>

(* 422, the violations of the policy; 409, the user name.                  *)
ShowOne(i) ==
  /\ \/ Answered(i, "violations") /\ Shown(i, {"password"})
     \/ Answered(i, "taken") /\ Shown(i, {"username"})
  /\ UNCHANGED <<fields, touched, formError, checked, edits, gone, account, visit>>

(* Any other status, and the catch.                                        *)
ShowBanner(i) ==
  /\ Answered(i, "failed") \/ Broken(i)
  /\ formError' = TRUE
  /\ UNCHANGED <<fields, errors, touched, late, checked, edits, gone, account, visit>>

(* Back to the form, which is mounted anew.                                *)
Return ==
  /\ gone /\ gone' = FALSE
  /\ visit' = visit + 1
  /\ fields' = Fresh /\ errors' = [f \in Fields |-> NoError]
  /\ touched' = {} /\ formError' = FALSE /\ late' = {} /\ checked' = Empty
  /\ UNCHANGED <<req, account, edits>>

Type == \E f \in Fields : (\E v \in Values[f] : Edit(f, v)) \/ Blur(f)

RegisterUser(i) ==
  \/ RefuseFields(i) \/ RefusePassword(i) \/ CheckName(i) \/ InsertRow(i) \/ Lose(i)

Receive(i) == Register(i) \/ ShowFields(i) \/ ShowOne(i) \/ ShowBanner(i)

FormNext ==
  \/ Type \/ SubmitRefused \/ Submit \/ Return
  \/ \E i \in Requests : RegisterUser(i) \/ Receive(i)
  \/ \E n \in UserNames, m \in ServiceMails : Other(n, m)

FormSpec == FormInit /\ [][FormNext]_formVars

-----------------------------------------------------------------------------
(* Properties.                                                             *)

FormTypeOK ==
  /\ \A f \in Fields : fields[f] \in Values[f]
  /\ \A f \in Fields : /\ errors[f].by \in {"none", "form", "service"}
                       /\ errors[f].by # "none" => errors[f].of \in Values[f] /\ f \in touched
  /\ touched \in SUBSET Fields /\ late \in SUBSET Fields
  /\ {formError, gone} \subseteq BOOLEAN
  /\ \A i \in Requests :
       /\ req[i].at \in {"unsent", "sent", "hashing", "fields", "violations", "taken",
                         "failed", "created"}
       /\ {req[i].done, req[i].lost} \subseteq BOOLEAN
       /\ req[i].at # "unsent" => \A f \in Fields : req[i].fields[f] \in Values[f]
       /\ req[i].refused \in SUBSET Fields
       /\ req[i].visit \in 0 .. visit
  /\ account \in SUBSET [name : UserNames, mail : ServiceMails, by : 0 .. MaxSubmits]
  /\ checked \in Values.password
  /\ visit \in Nat \ {0} /\ edits \in 0 .. MaxEdits

(* A field that was left shows an error of the form exactly if its rule    *)
(* refuses the value, whichever way it was filled and edited; only the     *)
(* confirmation's may be about a password that was edited since.           *)
ShownErrorsAreTrue ==
  \A f \in touched :
    /\ errors[f].by # "service"
    /\ f = "confirm" => checked = fields.password
    => (errors[f].by = "form" <=> FormRefuses(f, fields[f], fields.password))

(* An error of the service stands next to the value it refused, unless     *)
(* that was edited while the answer was under way.                         *)
ServiceErrorIsCurrent ==
  \A f \in Fields : errors[f].by = "service" => errors[f].of = fields[f] \/ f \in late

(* The form's rules and the service's differ only here: the form lets      *)
(* through to the field rules of the service addresses that its own looser *)
(* pattern matches and passwords of white space; every password that got   *)
(* an account was shown as strong, though not every strong one gets one.   *)
LaxnessIsKnown ==
  \A i \in Requests :
    /\ req[i].at = "fields" =>
         req[i].refused = {"email"} \/ req[i].fields.password.text = Blank
    /\ req[i].at = "created" => Strength(req[i].fields.password) = 3

(* The user is refused a name for an account of the user's own only if the *)
(* answer that made it was lost or an error, or was followed to the next   *)
(* page, never by a second submission of the form.                         *)
OwnNameRefusedOnlyAfterLoss ==
  \A i \in Requests, a \in account :
    /\ req[i].at = "taken" /\ ~req[i].lost
    /\ a.by # 0 /\ a.name = req[i].fields.username
    => req[a.by].lost \/ req[a.by].at = "failed" \/ req[a.by].visit < req[i].visit

=============================================================================
