---------------------------- MODULE DeletionWizard ----------------------------
(***************************************************************************)
(* The FRONTEND's /delete-account page, AccountDeletionTemplate.tsx with   *)
(* IdentityVerificationCard.tsx, as it is driven in one tab against the    *)
(* service: password check, deletion request, confirmation code.           *)
(*                                                                         *)
(* Each time the page is entered its state starts afresh; a fetch of an    *)
(* earlier visit may still be under way and, when it is answered, changes  *)
(* the stored session even though its page is gone.  Meanwhile the browser *)
(* may have been signed in to another account, at the login page of this   *)
(* tab or of another.  A visit has one fetch at a time: while one is under *)
(* way its buttons are disabled.                                           *)
(*                                                                         *)
(* The service runs one of its handlers at a time here; AccountDeletion    *)
(* has the overlaps.  A token works while its account is active; sessions  *)
(* that expire are in LoginSessions, log-outs in ClientSession.            *)
(***************************************************************************)
EXTENDS Naturals

CONSTANTS
  Accounts,
  NoAccount,     (* localStorage holds no session                          *)
  Ttl,           (* ACCOUNT_DELETION_OTP_EXPIRY_MINUTES                    *)
  MaxTime,       (* bound on the clock                                     *)
  MaxVisits,     (* bound: how often the page is entered                   *)
  MaxLost        (* bound: fetches that end without an answer              *)

ASSUME WizardAssumption ==
  /\ NoAccount \notin Accounts
  /\ Ttl \in Nat /\ MaxTime \in Nat
  /\ MaxVisits \in Nat \ {0} /\ MaxLost \in Nat

VARIABLES
  page,          (* the state of the component of the current visit        *)
  visit,         (* number of the current visit                            *)
  stored,        (* the account of the session in localStorage             *)
  fetch,         (* the fetch of each visit                                *)
  status,        (* service: users.status                                  *)
  request,       (* service: each account's deletion request               *)
  now,
  lost,          (* fetches that ended without an answer                   *)
  late,          (* history: accounts signed in to after their deletion    *)
  crossed        (* history: visits whose confirmation was under way when  *)
                 (* the browser was signed in to another account           *)

history == <<late, crossed>>
service == <<status, request>>
pageVars == <<page, visit, stored, fetch, service, now, lost, late, crossed>>

Visits == 1 .. MaxVisits

(* useCurrentUser reads the session when the page is entered.              *)
Fresh(owner) ==
  [owner |-> owner, verified |-> FALSE, modal |-> FALSE, requesting |-> FALSE,
   requestError |-> "", awaiting |-> FALSE, confirming |-> FALSE, confirmError |-> "",
   deleted |-> FALSE]

(* A fetch is for the account of the token, or of the e-mail, it carries.  *)
NoCall == [kind |-> "none", who |-> NoAccount, at |-> "page", arg |-> FALSE, answer |-> ""]

PageInit ==
  /\ stored \in Accounts
  /\ page = Fresh(stored)
  /\ visit = 1
  /\ fetch = [v \in Visits |-> NoCall]
  /\ status = [a \in Accounts |-> "active"]
  /\ request = [a \in Accounts |-> [row |-> "none", expiresAt |-> 0]]
  /\ now = 0
  /\ lost = 0
  /\ late = {}
  /\ crossed = {}

-----------------------------------------------------------------------------
(* The page.                                                               *)

Idle == fetch[visit].kind = "none"

Fetch(kind, who, arg) ==
  fetch' = [fetch EXCEPT ![visit] = [kind |-> kind, who |-> who, at |-> "service",
                                     arg |-> arg, answer |-> ""]]

(* IdentityVerificationCard, handleSubmit: the e-mail is that of the page's *)
(* profile or, before that is there, of the stored session; arg says       *)
(* whether the password is that account's.                                 *)
SubmitPassword(who, arg) ==
  /\ Idle /\ ~page.verified
  /\ who \in {page.owner, stored} \ {NoAccount}
  /\ Fetch("login", who, arg)
  /\ UNCHANGED <<page, visit, stored, service, now, lost, history>>

(* The card's button, once its box is ticked: handleDeleteClick.           *)
OpenModal ==
  /\ page.verified /\ ~page.modal /\ ~page.awaiting
  /\ page' = [page EXCEPT !.requestError = "", !.modal = TRUE]
  /\ UNCHANGED <<visit, stored, fetch, service, now, lost, history>>

(* The overlay, the [X] and the Cancel button: handleModalCancel, which    *)
(* does nothing while the request is under way.                            *)
CloseModal ==
  /\ page.modal /\ ~page.requesting
  /\ page' = [page EXCEPT !.requestError = "", !.modal = FALSE]
  /\ UNCHANGED <<visit, stored, fetch, service, now, lost, history>>

(* Mutant: the modal's buttons stay enabled while the request is under way. *)
SendRequestTwice ==
  /\ page.modal /\ stored # NoAccount
  /\ page' = [page EXCEPT !.requesting = TRUE, !.requestError = ""]
  /\ Fetch("request", stored, FALSE)
  /\ UNCHANGED <<visit, stored, service, now, lost, history>>

(* handleRequestConfirmed, up to its await.  Without a token the user is   *)
(* sent to the login page, and this page is left for good.                 *)
SendRequest ==
  /\ page.modal /\ ~page.requesting /\ stored # NoAccount
  /\ page' = [page EXCEPT !.requesting = TRUE, !.requestError = ""]
  /\ Fetch("request", stored, FALSE)
  /\ UNCHANGED <<visit, stored, service, now, lost, history>>

(* handleCodeComplete, up to its await; arg says whether the six digits    *)
(* are the code that was mailed to the account whose token is stored.      *)
SendCode(arg) ==
  /\ page.awaiting /\ ~page.deleted /\ ~page.confirming /\ stored # NoAccount
  /\ page' = [page EXCEPT !.confirming = TRUE, !.confirmError = ""]
  /\ Fetch("confirm", stored, arg)
  /\ crossed' = crossed \ {visit}
  /\ UNCHANGED <<visit, stored, service, now, lost, late>>

(* The page is left and entered again (RequireAuth wants a stored token).  *)
Revisit ==
  /\ visit < MaxVisits /\ stored # NoAccount
  /\ visit' = visit + 1
  /\ page' = Fresh(stored)
  /\ UNCHANGED <<stored, fetch, service, now, lost, history>>

Crossing(a) == {v \in Visits : fetch[v].kind = "confirm" /\ fetch[v].who # a}

(* The login page, in another tab or while this one is left: setSession.   *)
(* The service let the login in while the account was active; its answer   *)
(* may come after the deletion.                                            *)
SignIn(a) ==
  /\ stored' = a
  /\ late' = IF status[a] = "deleted" THEN late \cup {a} ELSE late
  /\ crossed' = crossed \cup Crossing(a)
  /\ UNCHANGED <<page, visit, fetch, service, now, lost>>

-----------------------------------------------------------------------------
(* The service.                                                            *)

Denied(a) == status[a] # "active"

LoginAnswer(a, arg) == IF arg /\ ~Denied(a) THEN "ok" ELSE "refused"

RequestAnswer(a) ==
  CASE Denied(a) -> "denied"
    [] ~Denied(a) /\ request[a].row = "pending" -> "alreadyPending"
    [] OTHER -> "ok"

ConfirmAnswer(a, arg) ==
  CASE Denied(a) -> "denied"
    [] ~Denied(a) /\ request[a].row # "pending" -> "notFound"
    [] ~Denied(a) /\ request[a].row = "pending" /\ now > request[a].expiresAt -> "expired"
    [] OTHER -> IF arg THEN "ok" ELSE "invalid"

Answered(v, answer) == fetch' = [fetch EXCEPT ![v].at = "network", ![v].answer = answer]

ServePassword(v) ==
  /\ fetch[v].kind = "login" /\ fetch[v].at = "service"
  /\ Answered(v, LoginAnswer(fetch[v].who, fetch[v].arg))
  /\ UNCHANGED <<page, visit, stored, service, now, lost, history>>

ServeRequest(v) ==
  LET a == fetch[v].who
      answer == RequestAnswer(a)
  IN
  /\ fetch[v].kind = "request" /\ fetch[v].at = "service"
  /\ Answered(v, answer)
  /\ request' = IF answer = "ok"
                THEN [request EXCEPT ![a] = [row |-> "pending", expiresAt |-> now + Ttl]]
                ELSE request
  /\ UNCHANGED <<page, visit, stored, status, now, lost, history>>

ServeConfirm(v) ==
  LET a == fetch[v].who
      answer == ConfirmAnswer(a, fetch[v].arg)
  IN
  /\ fetch[v].kind = "confirm" /\ fetch[v].at = "service"
  /\ Answered(v, answer)
  /\ status' = IF answer = "ok" THEN [status EXCEPT ![a] = "deleted"] ELSE status
  /\ request' = IF answer = "ok" THEN [request EXCEPT ![a].row = "confirmed"] ELSE request
  /\ UNCHANGED <<page, visit, stored, now, lost, history>>

-----------------------------------------------------------------------------
(* Answers.  They change the page only if its visit is the current one.    *)

OnPage(v, new) == page' = IF v = visit THEN new ELSE page

Ended(v) == fetch' = [fetch EXCEPT ![v] = NoCall]

(* setSession and onVerified, or an error message.                         *)
LoginAnswered(v) ==
  LET a == fetch[v].who
      ok == fetch[v].answer = "ok"
  IN
  /\ fetch[v].kind = "login" /\ fetch[v].at = "network"
  /\ Ended(v)
  /\ stored' = IF ok THEN a ELSE stored
  /\ OnPage(v, [page EXCEPT !.verified = @ \/ ok])
  /\ late' = IF ok /\ Denied(a) THEN late \cup {a} ELSE late
  /\ crossed' = IF ok THEN crossed \cup Crossing(a) ELSE crossed
  /\ UNCHANGED <<visit, service, now, lost>>

(* Mutant: the error path leaves the request button disabled.              *)
RequestAnsweredBusy(v) ==
  /\ fetch[v].kind = "request" /\ fetch[v].at = "network"
  /\ Ended(v)
  /\ OnPage(v, IF fetch[v].answer = "ok"
               THEN [page EXCEPT !.requesting = FALSE, !.modal = FALSE, !.awaiting = TRUE]
               ELSE [page EXCEPT !.requestError = fetch[v].answer])
  /\ UNCHANGED <<visit, stored, service, now, lost, history>>

(* Mutant: the answer is shown as an error whatever it is.                 *)
RequestAnsweredShown(v) ==
  /\ fetch[v].kind = "request" /\ fetch[v].at = "network"
  /\ Ended(v)
  /\ OnPage(v, [page EXCEPT !.requesting = FALSE, !.requestError = fetch[v].answer])
  /\ UNCHANGED <<visit, stored, service, now, lost, history>>

(* handleRequestConfirmed, after its await.                                *)
RequestAnswered(v) ==
  /\ fetch[v].kind = "request" /\ fetch[v].at = "network"
  /\ Ended(v)
  /\ OnPage(v, IF fetch[v].answer = "ok"
               THEN [page EXCEPT !.requesting = FALSE, !.modal = FALSE, !.awaiting = TRUE]
               ELSE [page EXCEPT !.requesting = FALSE, !.requestError = fetch[v].answer])
  /\ UNCHANGED <<visit, stored, service, now, lost, history>>

(* Mutant: signed out whatever the answer.                                 *)
ConfirmAnsweredSignOut(v) ==
  /\ fetch[v].kind = "confirm" /\ fetch[v].at = "network"
  /\ Ended(v)
  /\ stored' = NoAccount
  /\ OnPage(v, [page EXCEPT !.confirming = FALSE, !.deleted = fetch[v].answer = "ok"])
  /\ UNCHANGED <<visit, service, now, lost, history>>

(* Mutant: the final screen is shown and the token kept.                   *)
ConfirmAnsweredKeep(v) ==
  /\ fetch[v].kind = "confirm" /\ fetch[v].at = "network"
  /\ Ended(v)
  /\ OnPage(v, [page EXCEPT !.confirming = FALSE, !.deleted = fetch[v].answer = "ok"])
  /\ UNCHANGED <<visit, stored, service, now, lost, history>>

(* handleCodeComplete, after its await: clearSession, whoever's session is *)
(* stored by now, and the final screen; or a message, which for an expired *)
(* code says to start again.                                               *)
ConfirmAnswered(v) ==
  /\ fetch[v].kind = "confirm" /\ fetch[v].at = "network"
  /\ Ended(v)
  /\ stored' = IF fetch[v].answer = "ok" THEN NoAccount ELSE stored
  /\ OnPage(v, IF fetch[v].answer = "ok"
               THEN [page EXCEPT !.confirming = FALSE, !.deleted = TRUE]
               ELSE [page EXCEPT !.confirming = FALSE, !.confirmError = fetch[v].answer])
  /\ UNCHANGED <<visit, service, now, lost, history>>

(* fetch rejects: before the service has served it (then it never will) or *)
(* after.  Only the password check catches that; the other two leave their *)
(* page busy.                                                              *)
LoseFetch(v) ==
  /\ fetch[v].kind # "none"
  /\ lost < MaxLost
  /\ lost' = lost + 1
  /\ Ended(v)
  /\ UNCHANGED <<page, visit, stored, service, now, history>>

Tick ==
  /\ now < MaxTime
  /\ now' = now + 1
  /\ UNCHANGED <<page, visit, stored, fetch, service, lost, history>>

ServeFetch(v) == ServePassword(v) \/ ServeRequest(v) \/ ServeConfirm(v)

ReceiveAnswer(v) == LoginAnswered(v) \/ RequestAnswered(v) \/ ConfirmAnswered(v)

PageNext ==
  \/ \E arg \in BOOLEAN : SendCode(arg) \/ \E who \in Accounts : SubmitPassword(who, arg)
  \/ \E a \in Accounts : SignIn(a)
  \/ OpenModal \/ CloseModal \/ SendRequest \/ Revisit
  \/ \E v \in Visits : ServeFetch(v) \/ ReceiveAnswer(v) \/ LoseFetch(v)
  \/ Tick

(* The service answers what reaches it and the browser runs what is        *)
(* awaited; the user need not do anything.                                 *)
PageFairness == \A v \in Visits : WF_pageVars(ServeFetch(v)) /\ WF_pageVars(ReceiveAnswer(v))

PageSpec == PageInit /\ [][PageNext]_pageVars /\ PageFairness

-----------------------------------------------------------------------------
(* Properties.                                                             *)

(* The shape of the state: no answer of one request is shown as another's, *)
(* and a good answer never as an error.                                    *)
PageTypeOK ==
  /\ page \in [owner : Accounts, verified : BOOLEAN, modal : BOOLEAN, requesting : BOOLEAN,
               requestError : {"", "denied", "alreadyPending"},
               awaiting : BOOLEAN, confirming : BOOLEAN,
               confirmError : {"", "denied", "notFound", "expired", "invalid"},
               deleted : BOOLEAN]
  /\ visit \in Visits
  /\ stored \in Accounts \cup {NoAccount}
  /\ fetch \in [Visits -> [kind : {"none", "login", "request", "confirm"},
                           who : Accounts \cup {NoAccount},
                           at : {"page", "service", "network"}, arg : BOOLEAN,
                           answer : {"", "ok", "refused", "denied", "alreadyPending",
                                     "notFound", "expired", "invalid"}]]
  /\ \A v \in Visits : fetch[v].kind # "none" => fetch[v].who \in Accounts
  /\ status \in [Accounts -> {"active", "deleted"}]
  /\ request \in [Accounts -> [row : {"none", "pending", "confirmed"}, expiresAt : Nat]]
  /\ now \in Nat /\ lost \in Nat
  /\ late \subseteq Accounts /\ crossed \subseteq Visits

(* clearSession is for a deleted account: no answer, to whichever visit,   *)
(* signs the browser out of an account that is still active, unless it was *)
(* signed in to another account while that visit's confirmation was under  *)
(* way: then the answer removes whichever session is stored.               *)
SignOutStep ==
  stored # NoAccount /\ stored' = NoAccount =>
    \/ status[stored] = "deleted"
    \/ \E v \in crossed : fetch[v].kind = "confirm" /\ fetch'[v].kind = "none"

SignedOutWhenDeleted == [][SignOutStep]_pageVars

(* Once nothing is under way, the browser still has a session of a deleted *)
(* account only if an answer was lost, or a login to it was answered after *)
(* the deletion: that setSession is not undone.                            *)
TokenLeftOnlyByLateAnswer ==
  \A a \in Accounts :
    (status[a] = "deleted" /\ stored = a /\ \A v \in Visits : fetch[v].kind = "none")
      => (lost > 0 \/ a \in late)

(* A page that is busy becomes usable again, unless an answer was lost:    *)
(* the two handlers reset requesting and confirming on every answer, and   *)
(* have no catch.                                                          *)
BusyEnds ==
  (page.requesting \/ page.confirming)
    ~> ((~page.requesting /\ ~page.confirming) \/ lost > 0)

(* A request is refused as already pending only if an earlier visit made   *)
(* one: of one visit, however its modal is opened, left and clicked, at    *)
(* most one request reaches the service.                                   *)
PendingIsFromEarlierVisit == page.requestError = "alreadyPending" => visit > 1

=============================================================================
