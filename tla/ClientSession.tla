---------------------------- MODULE ClientSession ----------------------------
(***************************************************************************)
(* The FRONTEND: LoginForm, RegistrationForm, OtpVerificationForm with     *)
(* CountdownResend, the signed-in pages with AuthHeader and                *)
(* useCurrentUser, the router, and the token in localStorage, which the    *)
(* tabs of a browser share.                                                *)
(*                                                                         *)
(* Leaving a page within the application unmounts its component but ends   *)
(* none of its fetches and timers: their handlers go on, store tokens and  *)
(* navigate.  Loading a page drops them.  Entered text is what the handler *)
(* makes of it: a submission is one that passes the form's own checks, and *)
(* the service may still refuse it.  The service answers as the other      *)
(* modules say; whether a code is the right one is left to OtpIssuance.    *)
(***************************************************************************)
EXTENDS Naturals, Sequences

CONSTANTS
  Tabs,          (* tabs of one browser                                    *)
  Users,         (* accounts                                               *)
  Tokens,        (* session tokens                                         *)
  None,
  Registered,    (* the sets of users that may have accounts at first      *)
  MaxCalls,      (* bound on fetches in all                                *)
  MaxAtOnce,     (* bound on fetches under way at a time                   *)
  MaxMoves       (* bound on moves of the user to another page             *)

ASSUME ClientAssumption ==
  /\ None \notin Users \cup Tokens \cup Tabs
  /\ Registered \subseteq SUBSET Users
  /\ {MaxCalls, MaxAtOnce, MaxMoves} \subseteq Nat

Calls == 1 .. MaxAtOnce

VARIABLES
  tab,           (* the tabs                                               *)
  call,          (* fetches under way                                      *)
  store,         (* ums_session_token                                      *)
  account,       (* service: users.status                                  *)
  session,       (* service: the sessions and whose they are               *)
  seen,          (* history: answers to a registration, or to a login or   *)
                 (* logout, that were lost or crossed each other           *)
  made, moves    (* fetches and moves made                                 *)

vars == <<tab, call, store, account, session, seen, made, moves>>

Pages == {"login", "register", "verify", "dashboard"}

(* who: the user of the verify page, from the router's state; trail: the   *)
(* users of the verify pages in the tab's history, in its order, and at:   *)
(* how many of them are not ahead of the current entry; asks, orphans:     *)
(* resends in their 800 ms, of this page and of pages that were left;      *)
(* fetch: the token useCurrentUser has sent; redirect: the 2 s timer.      *)
(* History: stale, the page has come to belong to another user without     *)
(* being mounted anew; dropped, users of verify pages the browser has      *)
(* discarded from the tab's history.                                       *)
Blank == [page |-> "login", who |-> None, loading |-> FALSE, verified |-> FALSE,
          resend |-> "off", asks |-> 0, orphans |-> 0,
          fetch |-> None, profile |-> None, redirect |-> FALSE, stale |-> FALSE,
          trail |-> <<>>, at |-> 0, dropped |-> {}]

Free == [kind |-> "none", at |-> "idle", tab |-> None, here |-> FALSE, user |-> None,
         token |-> None]

Init ==
  /\ \E page \in {"login", "register"} :
       tab = [b \in Tabs |-> [Blank EXCEPT !.page = page]]
  /\ call = [c \in Calls |-> Free]
  /\ store = None
  /\ \E R \in Registered :
       account = [u \in Users |-> IF u \in R THEN "active" ELSE "none"]
  /\ session = [t \in Tokens |-> [state |-> "none", user |-> None]]
  /\ seen = [register |-> FALSE, session |-> FALSE]
  /\ made = 0 /\ moves = 0

-----------------------------------------------------------------------------
(* The router.                                                             *)

(* RequireAuth tests that a token is stored, not that it is still good.    *)
Dest(page, token) == IF page = "dashboard" /\ token = None THEN "login" ELSE page

(* useCurrentUser, when its page is mounted.                               *)
Mounted(page, who, token) ==
  [Blank EXCEPT !.page = page, !.who = who,
                !.resend = IF page = "verify" THEN "counting" ELSE "off",
                !.fetch = IF page = "dashboard" THEN token ELSE None]

(* A new document: nothing stays but the tab's history.                    *)
Fetched(page, who, token, r) ==
  [Mounted(page, who, token) EXCEPT !.trail = r.trail, !.at = r.at, !.dropped = r.dropped]

(* Mutant: useCurrentUser keeps its profile outside the component.         *)
MountedCached(page, who, token, r) ==
  [Fetched(page, who, token, r) EXCEPT !.redirect = r.redirect,
                                       !.orphans = r.orphans + r.asks,
                                       !.profile = r.profile,
                                       !.fetch = IF r.profile = None THEN @ ELSE None]

(* Mutant: the countdown is the router's and not the page's.               *)
RemountedCounting(page, who, token, r) ==
  [Fetched(page, who, token, r) EXCEPT !.redirect = r.redirect, !.asks = r.asks]

(* Moving within the application: timers go on.                            *)
Remounted(page, who, token, r) ==
  [Fetched(page, who, token, r) EXCEPT !.redirect = r.redirect, !.orphans = r.orphans + r.asks]

(* Moving to the page the tab is on already mounts nothing anew.           *)
Shown(r, page, who, token) ==
  IF page = r.page
  THEN [r EXCEPT !.who = who, !.stale = @ \/ who # r.who]
  ELSE Remounted(page, who, token, r)

(* A new history entry takes the place of all that are ahead.              *)
Pushed(r, page, who) ==
  LET kept == SubSeq(r.trail, 1, r.at)
      trail == IF page = "verify" THEN Append(kept, who) ELSE kept
  IN [r EXCEPT !.trail = trail, !.at = Len(trail),
               !.dropped = @ \cup {u \in Users : \E i \in r.at + 1 .. Len(r.trail) :
                                                   u = r.trail[i]}]

Enter(r, page, who, token) == Shown(Pushed(r, page, who), page, who, token)

(* The calls cs when tab b moves to a page: those of a page that is left   *)
(* have no component any more.                                             *)
Detach(cs, b, page) ==
  [c \in Calls |-> IF cs[c].tab = b /\ tab[b].page # page
                   THEN [cs[c] EXCEPT !.here = FALSE] ELSE cs[c]]

(* navigate(page) in tab b, whose record is r; RequireAuth's <Navigate>    *)
(* replaces the entry that was pushed.                                     *)
Navigate(b, r, page, who, token, cs) ==
  LET dest == Dest(page, token)
      whom == IF dest = "verify" THEN who ELSE None
  IN /\ tab' = [tab EXCEPT ![b] = Enter(r, dest, whom, token)]
     /\ call' = Detach(cs, b, dest)

MayMove == moves < MaxMoves /\ moves' = moves + 1

(* The buttons of a page that is signed out, or a link within the page     *)
(* (href="#..."), whose entry has no router state.  The landing page, which *)
(* only has such buttons, is not told apart from the login page.           *)
Go(b, page) ==
  /\ page = tab[b].page \/ (page \in {"login", "register"} /\ tab[b].page # "dashboard")
  /\ MayMove
  /\ Navigate(b, tab[b], page, None, store, call)
  /\ UNCHANGED <<store, account, session, seen, made>>

(* Another document: nobody awaits the tab's fetches any more.             *)
LoadPage(b, r, page, who) ==
  LET mine == {call[c].kind : c \in {c \in Calls : call[c].tab = b}}
  IN /\ tab' = [tab EXCEPT ![b] = Fetched(page, who, store, r)]
     /\ call' = [c \in Calls |-> IF call[c].tab = b
                                 THEN [call[c] EXCEPT !.tab = None, !.here = FALSE]
                                 ELSE call[c]]
     /\ seen' = [register |-> seen.register \/ "register" \in mine,
                 session |-> seen.session \/ "login" \in mine \/ "logout" \in mine]
     /\ UNCHANGED <<store, account, session, made>>

(* A link that is an <a href>, or the address line.                        *)
Open(b, page) ==
  LET dest == Dest(page, store)
  IN MayMove /\ LoadPage(b, Pushed(tab[b], dest, None), dest, None)

(* The router's state survives a reload.                                   *)
Reload(b) ==
  LET dest == Dest(tab[b].page, store)
  IN MayMove /\ LoadPage(b, tab[b], dest, tab[b].who)

(* Back and forward, any number of entries at once, to an entry of this    *)
(* document or of another; entries of the other pages are taken to lie     *)
(* anywhere between those of the verify page.                              *)
Traverse(b, page, i, sameDocument) ==
  LET dest == Dest(page, store)
      whom == IF page = "verify" THEN tab[b].trail[i] ELSE None
      r == [tab[b] EXCEPT !.at = i]
  IN /\ i \in 0 .. Len(tab[b].trail) /\ (page = "verify" => i > 0)
     /\ page # tab[b].page \/ i # tab[b].at
     /\ MayMove
     /\ IF sameDocument
        THEN /\ tab' = [tab EXCEPT ![b] = Shown(r, dest, whom, store)]
             /\ call' = Detach(call, b, dest)
             /\ UNCHANGED <<store, account, session, seen, made>>
        ELSE LoadPage(b, r, dest, whom)

-----------------------------------------------------------------------------
(* The forms, up to their await.                                           *)

(* fetch() of api-client.ts.                                               *)
Send(b, kind, user, token) ==
  /\ made < MaxCalls
  /\ \E c \in Calls :
       /\ call[c] = Free /\ \A d \in Calls : d < c => call[d] # Free
       /\ call' = [call EXCEPT ![c] = [kind |-> kind, at |-> "sent", tab |-> b, here |-> TRUE,
                                       user |-> user, token |-> token]]
  /\ made' = made + 1
  /\ UNCHANGED <<store, account, session, seen, moves>>

Loading(b) == tab' = [tab EXCEPT ![b].loading = TRUE]

SubmitLogin(b, u) ==
  /\ tab[b].page = "login" /\ ~tab[b].loading
  /\ Loading(b)
  /\ Send(b, "login", u, None)

SubmitRegister(b, u) ==
  /\ tab[b].page = "register" /\ ~tab[b].loading
  /\ Loading(b)
  /\ Send(b, "register", u, None)

(* The six boxes and the button are enabled.                               *)
CodeEnabled(b) == tab[b].page = "verify" /\ ~tab[b].verified /\ ~tab[b].loading

(* Six digits are complete, or the button; without a user handleVerify     *)
(* only shows an error.                                                    *)
SubmitCode(b) ==
  /\ CodeEnabled(b) /\ tab[b].who # None
  /\ Loading(b)
  /\ Send(b, "verify", tab[b].who, None)

(* Mutant: the token is removed before it is read for the request.         *)
LogoutForgets(b) ==
  /\ tab[b].page = "dashboard"
  /\ store # None
  /\ store' = None
  /\ Navigate(b, tab[b], "login", None, None, call)
  /\ UNCHANGED <<account, session, seen, made, moves>>

(* handleLogout of AuthHeader, with a token stored.                        *)
Logout(b) ==
  /\ tab[b].page = "dashboard"
  /\ store # None
  /\ UNCHANGED tab
  /\ Send(b, "logout", None, store)

(* Another tab has removed it.                                             *)
LogoutWithout(b) ==
  /\ tab[b].page = "dashboard"
  /\ store = None
  /\ Navigate(b, tab[b], "login", None, None, call)
  /\ UNCHANGED <<store, account, session, seen, made, moves>>

-----------------------------------------------------------------------------
(* CountdownResend.                                                        *)

Quiet == UNCHANGED <<call, store, account, session, seen, made, moves>>

(* Thirty seconds: longer than any wait of 800 ms that began earlier.      *)
CountdownEnds(b) ==
  /\ tab[b].resend = "counting" /\ tab[b].asks + tab[b].orphans = 0
  /\ tab' = [tab EXCEPT ![b].resend = "ready"]
  /\ Quiet

ClickResend(b) ==
  /\ tab[b].resend = "ready" /\ ~tab[b].loading
  /\ tab' = [tab EXCEPT ![b].resend = "waiting", ![b].asks = @ + 1]
  /\ Quiet

(* The 800 ms are over: the countdown starts again, then onResend sends,   *)
(* whatever has begun meanwhile.                                           *)
ResendSent(b) ==
  /\ tab[b].asks > 0
  /\ tab' = [tab EXCEPT ![b].asks = @ - 1, ![b].resend = "counting"]
  /\ Quiet

(* So it does for a page that is no longer there.                          *)
OrphanSent(b) ==
  /\ tab[b].orphans > 0
  /\ tab' = [tab EXCEPT ![b].orphans = @ - 1]
  /\ Quiet

-----------------------------------------------------------------------------
(* The service.                                                            *)

Answer(c, at) == call' = [call EXCEPT ![c].at = at]

ServeLogin(c) ==
  /\ call[c].kind = "login" /\ call[c].at = "sent"
  /\ account[call[c].user] = "active"
  /\ \E t \in Tokens :
       /\ session[t].state = "none"
       /\ session' = [session EXCEPT ![t] = [state |-> "live", user |-> call[c].user]]
       /\ call' = [call EXCEPT ![c].at = "ok", ![c].token = t]
  /\ UNCHANGED <<tab, store, account, seen, made, moves>>

ServeRegister(c) ==
  /\ call[c].kind = "register" /\ call[c].at = "sent"
  /\ account[call[c].user] = "none"
  /\ account' = [account EXCEPT ![call[c].user] = "pending"]
  /\ Answer(c, "ok")
  /\ UNCHANGED <<tab, store, session, seen, made, moves>>

(* The account is created, then sending its first code throws.             *)
ServeRegisterThrows(c) ==
  /\ call[c].kind = "register" /\ call[c].at = "sent"
  /\ account[call[c].user] = "none"
  /\ account' = [account EXCEPT ![call[c].user] = "pending"]
  /\ Answer(c, "refused")
  /\ seen' = [seen EXCEPT !.register = TRUE]
  /\ UNCHANGED <<tab, store, session, made, moves>>

ServeVerify(c) ==
  /\ call[c].kind = "verify" /\ call[c].at = "sent"
  /\ account[call[c].user] = "pending"
  /\ account' = [account EXCEPT ![call[c].user] = "active"]
  /\ Answer(c, "ok")
  /\ UNCHANGED <<tab, store, session, seen, made, moves>>

ServeLogout(c) ==
  /\ call[c].kind = "logout" /\ call[c].at = "sent"
  /\ session' = [session EXCEPT ![call[c].token].state = "ended"]
  /\ Answer(c, "ok")
  /\ UNCHANGED <<tab, store, account, seen, made, moves>>

(* Wrong password or code, name taken, locked, rate limited.               *)
Refuse(c) ==
  /\ call[c].kind \in {"login", "register", "verify"} /\ call[c].at = "sent"
  /\ Answer(c, "refused")
  /\ UNCHANGED <<tab, store, account, session, seen, made, moves>>

(* The connection breaks, before the request arrives or before its answer  *)
(* does, or the answer is no JSON.                                         *)
Lose(c) ==
  /\ call[c].at \in {"sent", "ok", "refused"}
  /\ Answer(c, "lost")
  /\ seen' = [register |-> seen.register \/ call[c].kind = "register",
              session |-> seen.session \/ call[c].kind \in {"login", "logout"}]
  /\ UNCHANGED <<tab, store, account, session, made, moves>>

-----------------------------------------------------------------------------
(* The forms, after their await.                                           *)

Freed(c) == [call EXCEPT ![c] = Free]

(* Mutant: no finally; the catch does not reset loading.                   *)
SettledIfAnswered(c) ==
  [tab[call[c].tab] EXCEPT !.loading = IF call[c].here /\ call[c].at # "lost" THEN FALSE ELSE @]

(* finally: setLoading(false), which a component that is gone ignores.     *)
Settled(c) ==
  [tab[call[c].tab] EXCEPT !.loading = IF call[c].here THEN FALSE ELSE @]

(* Refused or lost: an error is shown, if the form is still there.         *)
ShowError(c) ==
  /\ call[c].kind \in {"login", "register", "verify"}
  /\ call[c].tab # None /\ call[c].at \in {"refused", "lost"}
  /\ tab' = [tab EXCEPT ![call[c].tab] = Settled(c)]
  /\ call' = Freed(c)
  /\ UNCHANGED <<store, account, session, seen, made, moves>>

(* setSession and navigate, whatever page the tab shows by now.  Pages     *)
(* that are signed in go on showing whom they showed.                      *)
LoginDone(c) ==
  LET b == call[c].tab
      marked == [x \in Tabs |-> [tab[x] EXCEPT !.stale = @ \/ tab[x].page = "dashboard"]]
  IN /\ call[c].kind = "login" /\ b # None /\ call[c].at = "ok"
     /\ store' = call[c].token
     /\ tab' = [marked EXCEPT ![b] = Enter(@, "dashboard", None, call[c].token)]
     /\ call' = Detach(Freed(c), b, "dashboard")
     /\ seen' = [seen EXCEPT !.session =
                   @ \/ store # None \/ \E d \in Calls : call[d].kind = "logout"]
     /\ UNCHANGED <<account, session, made, moves>>

(* Mutant: a registration answered late is not taken up.                   *)
RegisterDoneHere(c) ==
  LET b == call[c].tab
  IN /\ call[c].kind = "register" /\ b # None /\ call[c].at = "ok"
     /\ IF call[c].here
        THEN Navigate(b, tab[b], "verify", call[c].user, store, Freed(c))
        ELSE call' = Freed(c) /\ UNCHANGED tab
     /\ UNCHANGED <<store, account, session, seen, made, moves>>

(* navigate("/verify-otp") with the new user in the router's state.        *)
RegisterDone(c) ==
  LET b == call[c].tab
  IN /\ call[c].kind = "register" /\ b # None /\ call[c].at = "ok"
     /\ Navigate(b, tab[b], "verify", call[c].user, store, Freed(c))
     /\ UNCHANGED <<store, account, session, seen, made, moves>>

(* The banner replaces the form, CountdownResend included; the timer for   *)
(* the dashboard is set whether the page is still there or not.            *)
VerifyDone(c) ==
  LET b == call[c].tab
      r == [Settled(c) EXCEPT !.redirect = TRUE]
  IN /\ call[c].kind = "verify" /\ b # None /\ call[c].at = "ok"
     /\ tab' = [tab EXCEPT ![b] =
                  IF call[c].here
                  THEN [r EXCEPT !.verified = TRUE, !.resend = "off",
                                 !.orphans = @ + r.asks, !.asks = 0]
                  ELSE r]
     /\ call' = Freed(c)
     /\ UNCHANGED <<store, account, session, seen, made, moves>>

(* The two seconds are over: without a token RequireAuth sends the user    *)
(* to the login page, and the verification has stored none.                *)
Redirected(b) ==
  /\ tab[b].redirect
  /\ Navigate(b, [tab[b] EXCEPT !.redirect = FALSE], "dashboard", None, store, call)
  /\ UNCHANGED <<store, account, session, seen, made, moves>>

(* clearSession, whichever token is stored by now.                         *)
LogoutDone(c) ==
  LET b == call[c].tab
  IN /\ call[c].kind = "logout" /\ b # None /\ call[c].at \in {"ok", "lost"}
     /\ store' = None
     /\ Navigate(b, tab[b], "login", None, None, Freed(c))
     /\ UNCHANGED <<account, session, seen, made, moves>>

(* Nobody awaits the answer.                                               *)
Ignored(c) ==
  /\ call[c].tab = None /\ call[c].at \notin {"idle", "sent"}
  /\ call' = Freed(c)
  /\ UNCHANGED <<tab, store, account, session, seen, made, moves>>

(* GET /users/me; refused or lost, the page stays without a name.          *)
FetchDone(b) ==
  /\ tab[b].fetch # None
  /\ \E shown \in {None, session[tab[b].fetch].user} :
       /\ shown # None => session[tab[b].fetch].state = "live"
       /\ tab' = [tab EXCEPT ![b].fetch = None, ![b].profile = shown]
  /\ Quiet

Serve(c) ==
  \/ ServeLogin(c) \/ ServeRegister(c) \/ ServeRegisterThrows(c)
  \/ ServeVerify(c) \/ ServeLogout(c) \/ Refuse(c) \/ Lose(c)

Receive(c) ==
  \/ ShowError(c) \/ LoginDone(c) \/ RegisterDone(c) \/ VerifyDone(c)
  \/ LogoutDone(c) \/ Ignored(c)

(* What the user can do on each page; the buttons of a form are disabled   *)
(* while it waits.                                                         *)
LoginForm(b) == \E u \in Users : SubmitLogin(b, u)

RegistrationForm(b) == \E u \in Users : SubmitRegister(b, u)

OtpVerificationForm(b) == SubmitCode(b) \/ ClickResend(b)

AuthHeader(b) == Logout(b) \/ LogoutWithout(b)

User(b) ==
  \/ Reload(b)
  \/ \E page \in Pages :
       \/ Go(b, page) \/ Open(b, page)
       \/ \E i \in 0 .. Len(tab[b].trail), sameDocument \in BOOLEAN :
            Traverse(b, page, i, sameDocument)
  \/ LoginForm(b) \/ RegistrationForm(b) \/ OtpVerificationForm(b) \/ AuthHeader(b)

Timer(b) == CountdownEnds(b) \/ ResendSent(b) \/ OrphanSent(b) \/ Redirected(b) \/ FetchDone(b)

Next ==
  \/ \E b \in Tabs : User(b) \/ Timer(b)
  \/ \E c \in Calls : Serve(c) \/ Receive(c)

(* Fetches end, by an answer or an error, and their handlers run.          *)
Fairness == \A c \in Calls : WF_vars(Serve(c) \/ Receive(c))

Spec == Init /\ [][Next]_vars /\ Fairness

-----------------------------------------------------------------------------
(* Properties.                                                             *)

TypeOK ==
  /\ tab \in [Tabs -> [page : Pages, who : Users \cup {None}, loading : BOOLEAN,
                       verified : BOOLEAN, resend : {"off", "counting", "ready", "waiting"},
                       asks : Nat, orphans : Nat,
                       fetch : Tokens \cup {None}, profile : Users \cup {None},
                       redirect : BOOLEAN, stale : BOOLEAN,
                       trail : Seq(Users \cup {None}), at : Nat, dropped : SUBSET Users]]
  /\ call \in [Calls -> [kind : {"none", "login", "logout", "register", "verify"},
                         at : {"idle", "sent", "ok", "refused", "lost"},
                         tab : Tabs \cup {None}, here : BOOLEAN, user : Users \cup {None},
                         token : Tokens \cup {None}]]
  /\ store \in Tokens \cup {None}
  /\ account \in [Users -> {"none", "pending", "active"}]
  /\ session \in [Tokens -> [state : {"none", "live", "ended"}, user : Users \cup {None}]]
  /\ seen \in [register : BOOLEAN, session : BOOLEAN]
  /\ made \in 0 .. MaxCalls /\ moves \in 0 .. MaxMoves
  /\ \A b \in Tabs : tab[b].verified \/ tab[b].resend # "off" => tab[b].page = "verify"
  /\ \A b \in Tabs : tab[b].at <= Len(tab[b].trail)

(* The page says "Email Verified!" only of an account that is active,      *)
(* unless a late registration has put another user on it meanwhile.        *)
VerifiedIsActive ==
  \A b \in Tabs : tab[b].verified /\ ~tab[b].stale => account[tab[b].who] = "active"

(* The header names the user whose token the page's actions use, unless a  *)
(* session was stored while the page was shown: by another tab, or by a    *)
(* login answered late.                                                    *)
ProfileIsOwner ==
  \A b \in Tabs :
    /\ tab[b].page = "dashboard" /\ tab[b].profile # None
    /\ store # None /\ ~tab[b].stale
    => tab[b].profile = session[store].user

(* No live session is forgotten by the browser without its logout having   *)
(* been sent, unless answers were lost or a login was answered over        *)
(* another session or logout.                                              *)
NoSessionLeftBehind ==
  ~seen.session =>
    \A t \in Tokens :
      session[t].state = "live" =>
        \/ store = t
        \/ \E c \in Calls : call[c].kind = "login" /\ call[c].at = "ok" /\ call[c].token = t

(* A pending account can be verified: the page that takes its code is in   *)
(* some tab's history, or will be.  There is no other way to that page, so *)
(* that is lost if the answer to the registration is lost or an error, or  *)
(* if the user goes back from the page and then anywhere else.             *)
PendingIsReachable ==
  ~seen.register =>
    \A u \in Users :
      account[u] = "pending" =>
        \/ \E b \in Tabs : u \in tab[b].dropped
                          \/ \E i \in 1 .. Len(tab[b].trail) : tab[b].trail[i] = u
        \/ \E c \in Calls : call[c].kind = "register" /\ call[c].at = "ok" /\ call[c].user = u

(* A form that waits becomes usable again, or is left.                     *)
LoadingEnds == \A b \in Tabs : tab[b].loading ~> ~tab[b].loading

=============================================================================
