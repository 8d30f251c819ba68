------------------------ MODULE ClientSession_proofs ------------------------
(***************************************************************************)
(* Proofs about the FRONTEND, for any tabs, users, tokens and bounds: the  *)
(* forms, pages and stored token of ClientSession, and the deletion page   *)
(* of DeletionWizard.                                                      *)
(*                                                                         *)
(* ClientSession has twenty-odd actions, and most do several of few        *)
(* things: a page stays or is mounted, a fetch goes on, ends, is sent or   *)
(* answered, the service's state moves forward, the stored token changes.  *)
(* Effects states what those may do; every action is shown to keep to it   *)
(* (StepEffects), and the invariant to be preserved by whatever keeps to   *)
(* it.                                                                     *)
(***************************************************************************)
EXTENDS ClientSession, DeletionWizard, TLAPS

TabType == [page : Pages, who : Users \cup {None}, loading : BOOLEAN,
            verified : BOOLEAN, resend : {"off", "counting", "ready", "waiting"},
            asks : Nat, orphans : Nat,
            fetch : Tokens \cup {None}, profile : Users \cup {None},
            redirect : BOOLEAN, stale : BOOLEAN,
            trail : Seq(Users \cup {None}), at : Nat, dropped : SUBSET Users]

CallType == [kind : {"none", "login", "logout", "register", "verify"},
             at : {"idle", "sent", "ok", "refused", "lost"},
             tab : Tabs \cup {None}, here : BOOLEAN, user : Users \cup {None},
             token : Tokens \cup {None}]

(* The users of the verify pages that the tab's history holds or has held. *)
Known(r) == r.dropped \cup {u \in Users : \E i \in 1 .. Len(r.trail) : r.trail[i] = u}

Placed(r) == r.at <= Len(r.trail)

SameHistory(n, o) == Known(n) = Known(o) /\ (Placed(o) => Placed(n))

(* The page a fetch is sent from.                                          *)
PageOf(kind) ==
  CASE kind = "logout" -> "dashboard"
    [] OTHER -> kind

(* A fetch whose page is there was sent from it, and is about its user.    *)
HereInv ==
  \A c \in Calls : call[c].here =>
    /\ call[c].tab \in Tabs
    /\ call[c].kind # "none" /\ tab[call[c].tab].page = PageOf(call[c].kind)
    /\ call[c].kind = "verify" /\ ~tab[call[c].tab].stale =>
         call[c].user = tab[call[c].tab].who

(* What a fetch carries, and what a good answer says of the service.       *)
CallInv ==
  \A c \in Calls :
    /\ call[c].kind \in {"login", "register", "verify"} => call[c].user \in Users
    /\ call[c].kind = "logout" => call[c].token \in Tokens
    /\ call[c].kind = "verify" /\ call[c].at = "ok" => account[call[c].user] = "active"
    /\ call[c].kind = "login" /\ call[c].at = "ok" =>
         call[c].token \in Tokens /\ session[call[c].token].state # "none"

(* The stored token is one the service gave; a page that was mounted with  *)
(* it asks for its user.                                                   *)
StoreInv ==
  /\ store # None => session[store].state # "none"
  /\ \A b \in Tabs :
       /\ tab[b].asks > 0 => tab[b].page = "verify"
       /\ tab[b].verified /\ ~tab[b].stale => tab[b].who \in Users
       /\ tab[b].page = "dashboard" /\ ~tab[b].stale /\ store # None /\ tab[b].fetch # None
            => tab[b].fetch = store

(* As long as no answer was lost or crossed another, each one will reach   *)
(* its tab, and a logout is of the token that is stored, if any is.        *)
AnswerInv ==
  /\ ~seen.session =>
       \A c \in Calls :
         /\ call[c].kind \in {"login", "logout"} => call[c].tab # None
         /\ call[c].kind = "logout" =>
              /\ store \in {None, call[c].token} /\ call[c].at # "lost"
              /\ call[c].at = "ok" => session[call[c].token].state = "ended"
  /\ ~seen.register => \A c \in Calls : call[c].kind = "register" => call[c].tab # None

IInv ==
  /\ TypeOK /\ HereInv /\ CallInv /\ StoreInv /\ AnswerInv
  /\ VerifiedIsActive /\ ProfileIsOwner /\ NoSessionLeftBehind /\ PendingIsReachable

-----------------------------------------------------------------------------
(* The router.                                                             *)

LEMMA MountedRecord ==
  ASSUME NEW pg \in Pages, NEW who \in Users \cup {None}, NEW token \in Tokens \cup {None}
  PROVE  LET m == Mounted(pg, who, token) IN
         /\ m \in TabType
         /\ m.page = pg /\ m.who = who /\ ~m.verified /\ ~m.stale /\ m.asks = 0
         /\ m.profile = None /\ m.orphans = 0
         /\ m.resend # "off" => pg = "verify"
         /\ m.fetch # None => pg = "dashboard" /\ m.fetch = token
<1>1. /\ Blank \in TabType
      /\ ~Blank.verified /\ ~Blank.stale /\ Blank.asks = 0 /\ Blank.orphans = 0
      /\ Blank.profile = None
  BY DEF Blank, TabType, Pages
<1> DEFINE resend == IF pg = "verify" THEN "counting" ELSE "off"
           asked == IF pg = "dashboard" THEN token ELSE None
           m == Mounted(pg, who, token)
<1>2. /\ resend \in {"off", "counting"} /\ asked \in Tokens \cup {None}
      /\ resend # "off" => pg = "verify"
      /\ asked # None => pg = "dashboard" /\ asked = token
  OBVIOUS
<1>3. m = [Blank EXCEPT !.page = pg, !.who = who, !.resend = resend, !.fetch = asked]
  BY DEF Mounted
<1> HIDE DEF resend, asked, m
<1>4. m \in TabType
  BY <1>1, <1>2, <1>3 DEF TabType
<1>5. /\ m.page = pg /\ m.who = who /\ m.resend = resend /\ m.fetch = asked
      /\ m.verified = Blank.verified /\ m.stale = Blank.stale
      /\ m.asks = Blank.asks /\ m.orphans = Blank.orphans /\ m.profile = Blank.profile
  BY <1>1, <1>3 DEF TabType
<1> QED BY <1>1, <1>2, <1>4, <1>5 DEF m

LEMMA HistoryKept ==
  ASSUME NEW n, NEW o, n.trail = o.trail, n.at = o.at, n.dropped = o.dropped
  PROVE  SameHistory(n, o)
  BY DEF SameHistory, Known, Placed

LEMMA FetchedRecord ==
  ASSUME NEW r \in TabType, NEW pg \in Pages, NEW who \in Users \cup {None},
         NEW token \in Tokens \cup {None}
  PROVE  LET m == Fetched(pg, who, token, r) IN
         /\ m \in TabType /\ SameHistory(m, r)
         /\ m.page = pg /\ m.who = who /\ ~m.verified /\ ~m.stale /\ m.asks = 0
         /\ m.profile = None
         /\ m.resend # "off" => pg = "verify"
         /\ m.fetch # None => pg = "dashboard" /\ m.fetch = token
<1> DEFINE m == Fetched(pg, who, token, r)
<1>1. PICK d : d = Mounted(pg, who, token)
  OBVIOUS
<1>2. /\ d \in TabType
      /\ d.page = pg /\ d.who = who /\ ~d.verified /\ ~d.stale /\ d.asks = 0
      /\ d.profile = None
      /\ d.resend # "off" => pg = "verify"
      /\ d.fetch # None => pg = "dashboard" /\ d.fetch = token
  BY <1>1, MountedRecord
<1>3. m = [d EXCEPT !.trail = r.trail, !.at = r.at, !.dropped = r.dropped]
  BY <1>1 DEF Fetched
<1>4. r.trail \in Seq(Users \cup {None}) /\ r.at \in Nat /\ r.dropped \in SUBSET Users
  BY DEF TabType
<1> HIDE DEF m
<1>5. m \in TabType
  BY ONLY <1>2, <1>3, <1>4 DEF TabType
<1>6. /\ m.page = d.page /\ m.who = d.who /\ m.verified = d.verified /\ m.stale = d.stale
      /\ m.asks = d.asks /\ m.profile = d.profile /\ m.resend = d.resend
      /\ m.fetch = d.fetch
      /\ m.trail = r.trail /\ m.at = r.at /\ m.dropped = r.dropped
  BY ONLY <1>2, <1>3 DEF TabType
<1>7. SameHistory(m, r)
  BY <1>6 DEF SameHistory, Known, Placed
<1> QED BY <1>2, <1>5, <1>6, <1>7 DEF m

LEMMA ShownRecord ==
  ASSUME NEW r \in TabType, NEW pg \in Pages, NEW who \in Users \cup {None},
         NEW token \in Tokens \cup {None}
  PROVE  LET e == Shown(r, pg, who, token) IN
         /\ e \in TabType /\ e.page = pg /\ SameHistory(e, r)
         /\ pg = r.page =>
              /\ e.who = who /\ (e.stale <=> r.stale \/ who # r.who)
              /\ e.verified = r.verified /\ e.resend = r.resend /\ e.asks = r.asks
              /\ e.fetch = r.fetch /\ e.profile = r.profile
         /\ pg # r.page =>
              /\ ~e.verified /\ ~e.stale /\ e.asks = 0 /\ e.profile = None
              /\ e.resend # "off" => pg = "verify"
              /\ e.fetch # None => pg = "dashboard" /\ e.fetch = token
<1> DEFINE e == Shown(r, pg, who, token)
<1>1. CASE pg = r.page
  <2>1. e = [r EXCEPT !.who = who, !.stale = r.stale \/ who # r.who]
    BY <1>1 DEF Shown
  <2> HIDE DEF e
  <2>2. e \in TabType
    BY <2>1 DEF TabType
  <2>3. /\ e.page = r.page /\ e.who = who /\ (e.stale <=> r.stale \/ who # r.who)
        /\ e.verified = r.verified /\ e.resend = r.resend /\ e.asks = r.asks
        /\ e.fetch = r.fetch /\ e.profile = r.profile
        /\ e.trail = r.trail /\ e.at = r.at /\ e.dropped = r.dropped
    BY <2>1 DEF TabType
  <2>4. SameHistory(e, r)
    BY <2>3 DEF SameHistory, Known, Placed
  <2> QED BY <1>1, <2>2, <2>3, <2>4 DEF e
<1>2. CASE pg # r.page
  <2>1. PICK m : m = Fetched(pg, who, token, r)
    OBVIOUS
  <2>2. e = [m EXCEPT !.redirect = r.redirect, !.orphans = r.orphans + r.asks]
    BY <1>2, <2>1 DEF Shown, Remounted
  <2>3. /\ m \in TabType /\ SameHistory(m, r)
        /\ m.page = pg /\ ~m.verified /\ ~m.stale /\ m.asks = 0
        /\ m.profile = None
        /\ m.resend # "off" => pg = "verify"
        /\ m.fetch # None => pg = "dashboard" /\ m.fetch = token
    BY <2>1, FetchedRecord
  <2>4. r.redirect \in BOOLEAN /\ r.orphans + r.asks \in Nat
    BY DEF TabType
  <2> HIDE DEF e
  <2>5. e \in TabType
    BY ONLY <2>2, <2>3, <2>4 DEF TabType
  <2>6. /\ e.page = m.page /\ e.verified = m.verified /\ e.stale = m.stale
        /\ e.asks = m.asks /\ e.profile = m.profile /\ e.resend = m.resend
        /\ e.fetch = m.fetch
        /\ e.trail = m.trail /\ e.at = m.at /\ e.dropped = m.dropped
    BY ONLY <2>2, <2>3 DEF TabType
  <2>7. SameHistory(e, m)
    BY <2>6 DEF SameHistory, Known, Placed
  <2>8. SameHistory(e, r)
    BY <2>3, <2>7 DEF SameHistory
  <2> QED BY <1>2, <2>3, <2>5, <2>6, <2>8 DEF e
<1> QED BY <1>1, <1>2

(* A push forgets no user: those ahead are counted as dropped.             *)
LEMMA PushedRecord ==
  ASSUME NEW r \in TabType, Placed(r), NEW pg \in Pages, NEW who \in Users \cup {None}
  PROVE  LET p == Pushed(r, pg, who) IN
         /\ p \in TabType /\ p.page = r.page /\ p.who = r.who /\ p.stale = r.stale
         /\ p.verified = r.verified /\ p.resend = r.resend /\ p.asks = r.asks
         /\ p.fetch = r.fetch /\ p.profile = r.profile
         /\ Placed(p) /\ Known(r) \subseteq Known(p)
         /\ pg = "verify" /\ who \in Users => who \in Known(p)
<1>1. /\ r.trail \in Seq(Users \cup {None}) /\ r.at \in Nat /\ r.dropped \in SUBSET Users
      /\ r.at <= Len(r.trail)
  BY DEF TabType, Placed
<1>2. PICK kept : kept = SubSeq(r.trail, 1, r.at)
  OBVIOUS
<1>3. /\ kept \in Seq(Users \cup {None}) /\ Len(kept) = r.at
      /\ \A i \in 1 .. r.at : kept[i] = r.trail[i]
  BY ONLY <1>1, <1>2
<1>4. PICK trail : trail = IF pg = "verify" THEN Append(kept, who) ELSE kept
  OBVIOUS
<1>5. /\ trail \in Seq(Users \cup {None}) /\ Len(trail) \in Nat /\ r.at <= Len(trail)
      /\ \A i \in 1 .. r.at : trail[i] = r.trail[i]
      /\ pg = "verify" => Len(trail) = r.at + 1 /\ trail[r.at + 1] = who
  <2>1. CASE pg = "verify"
    <3>1. trail = Append(kept, who) /\ who \in Users \cup {None}
      BY <1>4, <2>1
    <3>2. /\ trail \in Seq(Users \cup {None}) /\ Len(trail) = Len(kept) + 1
          /\ trail[Len(kept) + 1] = who /\ \A i \in 1 .. Len(kept) : trail[i] = kept[i]
      BY ONLY <1>3, <3>1
    <3> QED BY <1>1, <1>3, <3>2
  <2>2. CASE pg # "verify"
    BY <1>1, <1>3, <1>4, <2>2
  <2> QED BY <2>1, <2>2
<1>6. PICK ahead : ahead = {u \in Users : \E i \in r.at + 1 .. Len(r.trail) : u = r.trail[i]}
  OBVIOUS
<1>7. PICK dropped : dropped = r.dropped \cup ahead
  OBVIOUS
<1> DEFINE p == Pushed(r, pg, who)
<1>8. p = [r EXCEPT !.trail = trail, !.at = Len(trail), !.dropped = dropped]
  BY <1>2, <1>4, <1>6, <1>7 DEF Pushed
<1>9. dropped \in SUBSET Users
  BY <1>1, <1>6, <1>7
<1> HIDE DEF p
<1>10. p \in TabType
  BY ONLY <1>5, <1>8, <1>9, r \in TabType DEF TabType
<1>11. /\ p.page = r.page /\ p.who = r.who /\ p.stale = r.stale
       /\ p.verified = r.verified /\ p.resend = r.resend /\ p.asks = r.asks
       /\ p.fetch = r.fetch /\ p.profile = r.profile
       /\ p.trail = trail /\ p.at = Len(trail) /\ p.dropped = dropped
  BY ONLY <1>8, r \in TabType DEF TabType
<1>12. Placed(p)
  BY <1>5, <1>11 DEF Placed
<1>13. ASSUME NEW u \in Known(r) PROVE u \in Known(p)
  <2>1. CASE u \in r.dropped
    BY <1>7, <1>11, <2>1 DEF Known
  <2>2. ASSUME NEW i \in 1 .. Len(r.trail), r.trail[i] = u, u \in Users PROVE u \in Known(p)
    <3>1. CASE i <= r.at
      <4>1. i \in 1 .. r.at /\ i \in 1 .. Len(trail)
        BY <1>1, <1>5, <3>1
      <4> QED BY <1>5, <1>11, <2>2, <4>1 DEF Known
    <3>2. CASE i > r.at
      <4>1. i \in r.at + 1 .. Len(r.trail)
        BY <1>1, <3>2
      <4>2. u \in ahead
        BY <1>6, <2>2, <4>1
      <4> QED BY <1>7, <1>11, <4>2 DEF Known
    <3> QED BY <1>1, <3>1, <3>2
  <2> QED BY <2>1, <2>2 DEF Known
<1>14. ASSUME pg = "verify", who \in Users PROVE who \in Known(p)
  <2>1. r.at + 1 \in 1 .. Len(trail) /\ trail[r.at + 1] = who
    BY <1>1, <1>5, <1>14
  <2> QED BY <1>11, <1>14, <2>1 DEF Known
<1> QED BY <1>10, <1>11, <1>12, <1>13, <1>14 DEF p

LEMMA EnterRecord ==
  ASSUME NEW r \in TabType, Placed(r), NEW pg \in Pages, NEW who \in Users \cup {None},
         NEW token \in Tokens \cup {None}
  PROVE  LET e == Enter(r, pg, who, token) IN
         /\ e \in TabType /\ e.page = pg /\ Known(r) \subseteq Known(e) /\ Placed(e)
         /\ pg = r.page =>
              /\ e.who = who /\ (e.stale <=> r.stale \/ who # r.who)
              /\ e.verified = r.verified /\ e.resend = r.resend /\ e.asks = r.asks
              /\ e.fetch = r.fetch /\ e.profile = r.profile
         /\ pg # r.page =>
              /\ ~e.verified /\ ~e.stale /\ e.asks = 0 /\ e.profile = None
              /\ e.resend # "off" => pg = "verify"
              /\ e.fetch # None => pg = "dashboard" /\ e.fetch = token
<1>1. PICK p : p = Pushed(r, pg, who)
  OBVIOUS
<1>2. /\ p \in TabType /\ p.page = r.page /\ p.who = r.who /\ p.stale = r.stale
      /\ p.verified = r.verified /\ p.resend = r.resend /\ p.asks = r.asks
      /\ p.fetch = r.fetch /\ p.profile = r.profile
      /\ Placed(p) /\ Known(r) \subseteq Known(p)
  BY <1>1, PushedRecord
<1>3. Enter(r, pg, who, token) = Shown(p, pg, who, token)
  BY <1>1 DEF Enter
<1> QED BY <1>2, <1>3, ShownRecord DEF SameHistory

-----------------------------------------------------------------------------
(* What a step may do to a tab, a fetch, the service and the token.        *)

(* The page stays the one it is.                                           *)
Stays(x) ==
  LET o == tab[x]
      n == tab'[x]
  IN /\ n.page = o.page /\ Known(o) \subseteq Known(n)
     /\ o.stale => n.stale
     /\ n.stale \/ n.who = o.who
     /\ n.verified => \/ o.verified \/ n.stale
                      \/ n.who \in Users /\ account'[n.who] = "active"
     /\ n.asks > 0 => o.asks > 0 \/ n.page = "verify"
     /\ n.fetch \in {o.fetch, None}
     /\ \/ n.profile \in {o.profile, None}
        \/ o.fetch # None /\ n.profile = session[o.fetch].user

(* A page is mounted: no fetch is its own yet.                             *)
Mounts(x) ==
  LET n == tab'[x]
  IN /\ Known(tab[x]) \subseteq Known(n)
     /\ ~n.verified /\ n.asks = 0 /\ n.profile = None
     /\ n.fetch # None => n.page = "dashboard" /\ n.fetch = store'
     /\ \A c \in Calls : call'[c].here => call'[c].tab # x

(* An answer of this kind that goes missing leaves its mark.               *)
Noted(kind) ==
  /\ kind \in {"login", "logout"} => seen'.session
  /\ kind = "register" => seen'.register

Follows(c) ==
  LET o == call[c]
      n == call'[c]
  IN /\ n.kind = o.kind /\ n.user = o.user /\ n.token = o.token
     /\ n.here => o.here /\ n.tab = o.tab
     /\ n.tab = o.tab \/ Noted(o.kind)
     /\ \/ n.at = o.at
        \/ n.at = "refused" /\ o.at = "sent"
        \/ n.at = "lost" /\ Noted(o.kind)

Gone(c) ==
  /\ call'[c].kind = "none" /\ ~call'[c].here
  /\ call[c].kind = "login" /\ call[c].at = "ok" => store' = call[c].token \/ seen'.session
  /\ call[c].kind = "register" /\ call[c].at = "ok" =>
       seen'.register \/ \E b \in Tabs : call[c].user \in Known(tab'[b])

Sent(c) ==
  LET n == call'[c]
  IN /\ call[c].kind = "none" /\ n.kind # "none" /\ n.at = "sent" /\ n.tab \in Tabs
     /\ tab[n.tab].page = PageOf(n.kind)
     /\ n.kind \in {"login", "register", "verify"} => n.user \in Users
     /\ n.kind = "verify" => n.user = tab[n.tab].who
     /\ n.kind = "logout" => store # None /\ n.token = store /\ store' = store

Served(c) ==
  LET o == call[c]
      n == call'[c]
  IN /\ o.at = "sent" /\ n.at = "ok"
     /\ n.kind = o.kind /\ n.user = o.user /\ n.tab = o.tab /\ n.here = o.here
     /\ o.kind # "login" => n.token = o.token
     /\ o.kind = "verify" => account'[o.user] = "active"
     /\ o.kind = "login" => n.token \in Tokens /\ session'[n.token].state # "none"
     /\ o.kind = "logout" => session'[o.token].state = "ended"

ServiceStep ==
  /\ \A u \in Users :
       /\ account[u] = "active" => account'[u] = "active"
       /\ account'[u] = "pending" =>
            \/ account[u] = "pending" \/ seen'.register
            \/ \E c \in Calls : call'[c].kind = "register" /\ call'[c].at = "ok"
                                /\ call'[c].user = u
  /\ \A t \in Tokens :
       /\ session[t].state # "none" =>
            session'[t].state # "none" /\ session'[t].user = session[t].user
       /\ session[t].state = "ended" => session'[t].state = "ended"
       /\ session'[t].state = "live" =>
            \/ session[t].state = "live"
            \/ \E c \in Calls : call'[c].kind = "login" /\ call'[c].at = "ok"
                                /\ call'[c].token = t
  /\ seen.session => seen'.session
  /\ seen.register => seen'.register

StoreStep ==
  \/ store' = store
  \/ \E c \in Calls :
       /\ call[c].kind = "login" /\ call[c].at = "ok" /\ store' = call[c].token
       /\ seen'.session \/ (store = None /\ \A d \in Calls : call'[d].kind # "logout")
       /\ \A b \in Tabs : tab'[b].page = "dashboard" => tab'[b].stale \/ Mounts(b)
  \/ /\ store' = None
     /\ \E c \in Calls : call[c].kind = "logout" /\ call[c].at \in {"ok", "lost"}

Effects ==
  /\ \A x \in Tabs : Stays(x) \/ Mounts(x)
  /\ \A c \in Calls : Follows(c) \/ Gone(c) \/ Sent(c) \/ Served(c)
  /\ ServiceStep /\ StoreStep

-----------------------------------------------------------------------------
(* Such a step preserves the invariant.                                    *)

LEMMA HereNext == TypeOK /\ HereInv /\ Effects => HereInv'
<1> SUFFICES ASSUME TypeOK, HereInv, Effects, NEW c \in Calls, call'[c].here
             PROVE  /\ call'[c].tab \in Tabs
                    /\ call'[c].kind # "none"
                    /\ tab'[call'[c].tab].page = PageOf(call'[c].kind)
                    /\ call'[c].kind = "verify" /\ ~tab'[call'[c].tab].stale =>
                         call'[c].user = tab'[call'[c].tab].who
  BY DEF HereInv, PageOf
<1>1. CASE Follows(c) \/ Served(c)
  <2>1. /\ call[c].here /\ call'[c].tab = call[c].tab /\ call'[c].kind = call[c].kind
        /\ call'[c].user = call[c].user
    BY <1>1 DEF Follows, Served
  <2>2. /\ call[c].tab \in Tabs
        /\ call[c].kind # "none" /\ tab[call[c].tab].page = PageOf(call[c].kind)
        /\ call[c].kind = "verify" /\ ~tab[call[c].tab].stale =>
             call[c].user = tab[call[c].tab].who
    BY <2>1 DEF HereInv
  <2>3. Stays(call[c].tab)
    BY <2>1, <2>2 DEF Effects, Mounts
  <2> QED BY <2>1, <2>2, <2>3 DEF Stays
<1>2. CASE Sent(c)
  <2>1. Stays(call'[c].tab)
    BY <1>2 DEF Sent, Effects, Mounts
  <2> QED BY <1>2, <2>1 DEF Sent, Stays
<1> QED BY <1>1, <1>2 DEF Effects, Gone

LEMMA CallNext == TypeOK /\ CallInv /\ Effects => CallInv'
<1> SUFFICES ASSUME TypeOK, CallInv, Effects, NEW c \in Calls
             PROVE  /\ call'[c].kind \in {"login", "register", "verify"} => call'[c].user \in Users
                    /\ call'[c].kind = "logout" => call'[c].token \in Tokens
                    /\ call'[c].kind = "verify" /\ call'[c].at = "ok" =>
                         account'[call'[c].user] = "active"
                    /\ call'[c].kind = "login" /\ call'[c].at = "ok" =>
                         call'[c].token \in Tokens /\ session'[call'[c].token].state # "none"
  BY DEF CallInv
<1>1. CASE Follows(c)
  BY <1>1 DEF Follows, CallInv, Effects, ServiceStep
<1>2. CASE Served(c)
  BY <1>2 DEF Served, CallInv
<1>3. CASE Sent(c)
  BY <1>3 DEF Sent, TypeOK
<1> QED BY <1>1, <1>2, <1>3 DEF Effects, Gone

LEMMA StoreNext == TypeOK /\ CallInv /\ StoreInv /\ Effects => StoreInv'
<1> SUFFICES ASSUME TypeOK, CallInv, StoreInv, Effects PROVE StoreInv'
  OBVIOUS
<1>1. store' # None => session'[store'].state # "none"
  BY DEF Effects, StoreStep, ServiceStep, CallInv, StoreInv, TypeOK
<1>2. ASSUME NEW b \in Tabs
      PROVE  /\ tab'[b].asks > 0 => tab'[b].page = "verify"
             /\ tab'[b].verified /\ ~tab'[b].stale => tab'[b].who \in Users
             /\ tab'[b].page = "dashboard" /\ ~tab'[b].stale /\ store' # None
                  /\ tab'[b].fetch # None => tab'[b].fetch = store'
  <2>1. CASE Stays(b)
    <3>1. /\ tab'[b].asks > 0 => tab'[b].page = "verify"
          /\ tab'[b].verified /\ ~tab'[b].stale => tab'[b].who \in Users
      BY <2>1 DEF Stays, StoreInv
    <3>2. ASSUME tab'[b].page = "dashboard", ~tab'[b].stale, store' # None, tab'[b].fetch # None
          PROVE  tab'[b].fetch = store'
      <4>1. CASE store' = store
        BY <2>1, <3>2, <4>1 DEF Stays, StoreInv
      <4>2. CASE store' # store
        BY <3>2, <4>2 DEF Effects, StoreStep, Mounts
      <4> QED BY <4>1, <4>2
    <3> QED BY <3>1, <3>2
  <2>2. CASE Mounts(b)
    BY <2>2 DEF Mounts
  <2> QED BY <2>1, <2>2 DEF Effects
<1> QED BY <1>1, <1>2 DEF StoreInv

LEMMA AnswerNext == TypeOK /\ CallInv /\ AnswerInv /\ Effects => AnswerInv'
<1> SUFFICES ASSUME TypeOK, CallInv, AnswerInv, Effects, NEW c \in Calls
             PROVE  /\ ~seen'.session =>
                         /\ call'[c].kind \in {"login", "logout"} => call'[c].tab # None
                         /\ call'[c].kind = "logout" =>
                              /\ store' \in {None, call'[c].token} /\ call'[c].at # "lost"
                              /\ call'[c].at = "ok" => session'[call'[c].token].state = "ended"
                    /\ ~seen'.register => (call'[c].kind = "register" => call'[c].tab # None)
  BY DEF AnswerInv
<1> USE ClientAssumption
<1>1. (~seen'.session => ~seen.session) /\ (~seen'.register => ~seen.register)
  BY DEF Effects, ServiceStep
<1>2. call[c].kind = "logout" => call[c].token \in Tokens
  BY DEF CallInv
<1>3. ASSUME ~seen'.session, call[c].kind = "logout", call'[c].kind = "logout",
             call'[c].token = call[c].token
      PROVE  store' \in {None, call'[c].token}
  BY <1>1, <1>3 DEF Effects, StoreStep, AnswerInv
<1>4. CASE Follows(c)
  <2>1. ~seen'.session /\ call'[c].kind = "logout" =>
          /\ store' \in {None, call'[c].token} /\ call'[c].at # "lost"
          /\ call'[c].at = "ok" => session'[call'[c].token].state = "ended"
    <3> SUFFICES ASSUME ~seen'.session, call'[c].kind = "logout"
                 PROVE  /\ store' \in {None, call'[c].token} /\ call'[c].at # "lost"
                        /\ call'[c].at = "ok" => session'[call'[c].token].state = "ended"
      OBVIOUS
    <3>1. /\ call[c].kind = "logout" /\ call'[c].token = call[c].token
          /\ call'[c].at = call[c].at \/ call'[c].at = "refused"
      BY <1>4 DEF Follows, Noted
    <3>2. /\ call[c].at # "lost"
          /\ call[c].at = "ok" => session[call[c].token].state = "ended"
      BY <1>1, <3>1 DEF AnswerInv
    <3>3. call[c].at = "ok" => session'[call[c].token].state = "ended"
      BY <1>2, <3>1, <3>2 DEF Effects, ServiceStep
    <3> QED BY <1>3, <3>1, <3>2, <3>3
  <2> QED BY <1>1, <1>4, <2>1 DEF Follows, Noted, AnswerInv
<1>5. CASE Served(c)
  BY <1>1, <1>3, <1>5 DEF Served, AnswerInv
<1>6. CASE Sent(c)
  BY <1>6 DEF Sent
<1> QED BY <1>4, <1>5, <1>6 DEF Effects, Gone

LEMMA VerifiedNext == TypeOK /\ StoreInv /\ VerifiedIsActive /\ Effects => VerifiedIsActive'
<1> SUFFICES ASSUME TypeOK, StoreInv, VerifiedIsActive, Effects,
                    NEW b \in Tabs, tab'[b].verified, ~tab'[b].stale
             PROVE  account'[tab'[b].who] = "active"
  BY DEF VerifiedIsActive
<1>1. Stays(b)
  BY DEF Effects, Mounts
<1> QED BY <1>1 DEF Stays, StoreInv, VerifiedIsActive, Effects, ServiceStep

LEMMA OwnerNext == TypeOK /\ StoreInv /\ ProfileIsOwner /\ Effects => ProfileIsOwner'
<1> SUFFICES ASSUME TypeOK, StoreInv, ProfileIsOwner, Effects,
                    NEW b \in Tabs, tab'[b].page = "dashboard", tab'[b].profile # None,
                    store' # None, ~tab'[b].stale
             PROVE  tab'[b].profile = session'[store'].user
  BY DEF ProfileIsOwner
<1>1. Stays(b) /\ ~Mounts(b)
  BY DEF Effects, Mounts
<1>2. store' = store
  BY <1>1 DEF Effects, StoreStep
<1>3. store \in Tokens /\ session'[store].user = session[store].user
  BY <1>2 DEF Effects, ServiceStep, StoreInv, TypeOK
<1> QED BY <1>1, <1>2, <1>3 DEF Stays, StoreInv, ProfileIsOwner

LEMMA SessionNext ==
  TypeOK /\ CallInv /\ AnswerInv /\ NoSessionLeftBehind /\ Effects => NoSessionLeftBehind'
<1> SUFFICES ASSUME TypeOK, CallInv, AnswerInv, NoSessionLeftBehind, Effects,
                    ~seen'.session, NEW t \in Tokens, session'[t].state = "live"
             PROVE  \/ store' = t
                    \/ \E c \in Calls : call'[c].kind = "login" /\ call'[c].at = "ok"
                                        /\ call'[c].token = t
  BY DEF NoSessionLeftBehind
<1> USE ClientAssumption
<1>1. CASE session[t].state # "live"
  BY <1>1 DEF Effects, ServiceStep
<1>2. CASE session[t].state = "live" /\ store = t
  BY <1>2 DEF Effects, StoreStep, ServiceStep, AnswerInv
<1>3. ASSUME NEW c \in Calls, call[c].kind = "login", call[c].at = "ok", call[c].token = t
      PROVE  store' = t \/ (call'[c].kind = "login" /\ call'[c].at = "ok" /\ call'[c].token = t)
  BY <1>3 DEF Effects, Follows, Gone, Sent, Served, Noted
<1> QED BY <1>1, <1>2, <1>3 DEF NoSessionLeftBehind, Effects, ServiceStep

LEMMA ReachableNext == TypeOK /\ PendingIsReachable /\ Effects => PendingIsReachable'
<1> SUFFICES ASSUME TypeOK, PendingIsReachable, Effects,
                    ~seen'.register, NEW u \in Users, account'[u] = "pending"
             PROVE  \/ \E b \in Tabs : u \in Known(tab'[b])
                    \/ \E c \in Calls : call'[c].kind = "register" /\ call'[c].at = "ok"
                                        /\ call'[c].user = u
  BY DEF PendingIsReachable, Known
<1>1. CASE account[u] # "pending"
  BY <1>1 DEF Effects, ServiceStep
<1>2. ASSUME NEW b \in Tabs, u \in Known(tab[b]) PROVE u \in Known(tab'[b])
  BY <1>2 DEF Effects, Stays, Mounts
<1>3. ASSUME NEW c \in Calls, call[c].kind = "register", call[c].at = "ok", call[c].user = u
      PROVE  \/ \E b \in Tabs : u \in Known(tab'[b])
             \/ call'[c].kind = "register" /\ call'[c].at = "ok" /\ call'[c].user = u
  BY <1>3 DEF Effects, Follows, Gone, Sent, Served, Noted
<1>4. ~seen.register
  BY DEF Effects, ServiceStep
<1>5. ASSUME account[u] = "pending"
      PROVE  \/ \E b \in Tabs : u \in Known(tab[b])
             \/ \E c \in Calls : call[c].kind = "register" /\ call[c].at = "ok"
                                 /\ call[c].user = u
  BY <1>4, <1>5 DEF PendingIsReachable, Known
<1> QED BY <1>1, <1>2, <1>3, <1>5

-----------------------------------------------------------------------------
(* Every step has such effects, and keeps the types.                       *)

(* The last conjuncts of TypeOK.                                           *)
PageShape(r) ==
  /\ r.verified \/ r.resend # "off" => r.page = "verify"
  /\ Placed(r)

LEMMA TypeParts ==
  TypeOK <=> /\ tab \in [Tabs -> TabType]
             /\ call \in [Calls -> CallType]
             /\ store \in Tokens \cup {None}
             /\ account \in [Users -> {"none", "pending", "active"}]
             /\ session \in [Tokens -> [state : {"none", "live", "ended"},
                                        user : Users \cup {None}]]
             /\ seen \in [register : BOOLEAN, session : BOOLEAN]
             /\ made \in 0 .. MaxCalls /\ moves \in 0 .. MaxMoves
             /\ \A b \in Tabs : PageShape(tab[b])
  BY DEF TypeOK, TabType, CallType, PageShape, Placed

LEMMA DetachLeaves ==
  ASSUME NEW cs \in [Calls -> CallType], NEW b, NEW pg
  PROVE  LET d == Detach(cs, b, pg) IN
         /\ d \in [Calls -> CallType]
         /\ \A c \in Calls :
              /\ d[c].kind = cs[c].kind /\ d[c].at = cs[c].at /\ d[c].tab = cs[c].tab
              /\ d[c].user = cs[c].user /\ d[c].token = cs[c].token
              /\ d[c].here => cs[c].here
              /\ d[c].here /\ tab[b].page # pg => d[c].tab # b
<1> DEFINE d == Detach(cs, b, pg)
<1>1. \A c \in Calls : d[c] = IF cs[c].tab = b /\ tab[b].page # pg
                              THEN [cs[c] EXCEPT !.here = FALSE] ELSE cs[c]
  BY DEF Detach
<1>2. \A c \in Calls : d[c] \in CallType
  BY <1>1 DEF CallType
<1>3. d \in [Calls -> CallType]
  BY <1>2 DEF Detach
<1> HIDE DEF d
<1>4. \A c \in Calls :
        /\ d[c].kind = cs[c].kind /\ d[c].at = cs[c].at /\ d[c].tab = cs[c].tab
        /\ d[c].user = cs[c].user /\ d[c].token = cs[c].token
        /\ d[c].here => cs[c].here
        /\ d[c].here /\ tab[b].page # pg => d[c].tab # b
  BY <1>1 DEF CallType
<1> QED BY <1>3, <1>4 DEF d

LEMMA FreedLeaves ==
  ASSUME TypeOK, NEW c \in Calls
  PROVE  /\ Freed(c) \in [Calls -> CallType]
         /\ Freed(c)[c].kind = "none" /\ ~Freed(c)[c].here
         /\ \A d \in Calls \ {c} : Freed(c)[d] = call[d]
<1>1. Free \in CallType /\ Free.kind = "none" /\ ~Free.here
  BY DEF Free, CallType
<1>2. Freed(c) = [call EXCEPT ![c] = Free]
  BY DEF Freed
<1>3. call \in [Calls -> CallType]
  BY TypeParts
<1> QED BY <1>1, <1>2, <1>3

(* A tab moves with the record it has, or with another of its page that    *)
(* knows more registrations.                                               *)
Variant(r, b) ==
  /\ r \in TabType /\ r.page = tab[b].page /\ r.who = tab[b].who
  /\ r.verified = tab[b].verified /\ r.resend = tab[b].resend /\ r.asks = tab[b].asks
  /\ r.fetch = tab[b].fetch /\ r.profile = tab[b].profile
  /\ Known(tab[b]) \subseteq Known(r) /\ Placed(r) /\ r.stale = tab[b].stale

Moves(b, r, dest, whom, token, cs) ==
  /\ tab' = [tab EXCEPT ![b] = Shown(r, dest, whom, token)]
  /\ call' = Detach(cs, b, dest)

LEMMA VariantShape ==
  ASSUME TypeOK, NEW b \in Tabs, NEW r, Variant(r, b)
  PROVE  PageShape(r)
  BY TypeParts DEF Variant, PageShape

LEMMA VariantSelf ==
  ASSUME TypeOK, NEW b \in Tabs
  PROVE  Variant(tab[b], b)
  BY TypeParts DEF Variant, PageShape

(* The page stays, or is mounted without its fetches.                      *)
LEMMA MovesLeaves ==
  ASSUME TypeOK, NEW b \in Tabs, NEW r, Variant(r, b),
         NEW dest \in Pages, NEW whom \in Users \cup {None}, NEW token \in Tokens \cup {None},
         NEW cs \in [Calls -> CallType], Moves(b, r, dest, whom, token, cs), store' = token
  PROVE  /\ tab' \in [Tabs -> TabType] /\ call' \in [Calls -> CallType]
         /\ \A x \in Tabs : PageShape(tab'[x])
         /\ \A x \in Tabs : Stays(x) \/ Mounts(x)
         /\ Known(r) \subseteq Known(tab'[b])
         /\ \A c \in Calls :
              /\ call'[c].kind = cs[c].kind /\ call'[c].at = cs[c].at
              /\ call'[c].tab = cs[c].tab /\ call'[c].user = cs[c].user
              /\ call'[c].token = cs[c].token /\ (call'[c].here => cs[c].here)
<1>1. PICK e : e = Shown(r, dest, whom, token)
  OBVIOUS
<1>2. r \in TabType /\ PageShape(r) /\ r.page = tab[b].page
  BY VariantShape DEF Variant
<1>3. /\ e \in TabType /\ e.page = dest /\ SameHistory(e, r)
      /\ dest = r.page =>
           /\ e.who = whom /\ (e.stale <=> r.stale \/ whom # r.who)
           /\ e.verified = r.verified /\ e.resend = r.resend /\ e.asks = r.asks
           /\ e.fetch = r.fetch /\ e.profile = r.profile
      /\ dest # r.page =>
           /\ ~e.verified /\ ~e.stale /\ e.asks = 0 /\ e.profile = None
           /\ e.resend # "off" => dest = "verify"
           /\ e.fetch # None => dest = "dashboard" /\ e.fetch = token
  BY <1>1, <1>2, ShownRecord
<1>4. /\ tab' \in [Tabs -> TabType] /\ tab'[b] = e
      /\ \A x \in Tabs \ {b} : tab'[x] = tab[x]
  BY <1>1, <1>3, TypeParts DEF Moves
<1>5. PageShape(e)
  BY <1>2, <1>3 DEF PageShape, SameHistory
<1>6. \A x \in Tabs : PageShape(tab'[x])
  BY <1>4, <1>5, TypeParts
<1>7. /\ call' \in [Calls -> CallType]
      /\ \A c \in Calls :
           /\ call'[c].kind = cs[c].kind /\ call'[c].at = cs[c].at
           /\ call'[c].tab = cs[c].tab /\ call'[c].user = cs[c].user
           /\ call'[c].token = cs[c].token /\ (call'[c].here => cs[c].here)
           /\ call'[c].here /\ tab[b].page # dest => call'[c].tab # b
  BY DetachLeaves DEF Moves
<1>8. \A x \in Tabs \ {b} : Stays(x)
  BY <1>4 DEF Stays
<1>9. Known(r) \subseteq Known(tab'[b]) /\ Known(tab[b]) \subseteq Known(tab'[b])
  BY <1>3, <1>4 DEF SameHistory, Variant
<1>10. dest = r.page => Stays(b)
  BY <1>3, <1>4, <1>9 DEF Variant, Stays
<1>11. dest # r.page => Mounts(b)
  BY <1>2, <1>3, <1>4, <1>7, <1>9 DEF Mounts
<1> QED BY <1>4, <1>6, <1>7, <1>8, <1>9, <1>10, <1>11

(* Navigating is such a move, after a push.                                *)
LEMMA NavigateMoves ==
  ASSUME TypeOK, NEW b \in Tabs, NEW r, Variant(r, b),
         NEW pg \in Pages, NEW who \in Users \cup {None}, NEW token, NEW cs,
         Navigate(b, r, pg, who, token, cs)
  PROVE  \E p \in TabType, dest \in Pages, whom \in Users \cup {None} :
           /\ Variant(p, b) /\ Moves(b, p, dest, whom, token, cs)
           /\ pg = "verify" /\ who \in Users => who \in Known(p)
<1>1. PICK dest : dest = Dest(pg, token)
  OBVIOUS
<1>2. PICK whom : whom = IF dest = "verify" THEN who ELSE None
  OBVIOUS
<1>3. PICK p : p = Pushed(r, dest, whom)
  OBVIOUS
<1>4. /\ dest \in Pages /\ whom \in Users \cup {None}
      /\ pg = "verify" => dest = "verify" /\ whom = who
  BY <1>1, <1>2 DEF Dest, Pages
<1>5. /\ p \in TabType /\ p.page = r.page /\ p.who = r.who /\ p.stale = r.stale
      /\ p.verified = r.verified /\ p.resend = r.resend /\ p.asks = r.asks
      /\ p.fetch = r.fetch /\ p.profile = r.profile
      /\ Placed(p) /\ Known(r) \subseteq Known(p)
      /\ dest = "verify" /\ whom \in Users => whom \in Known(p)
  BY <1>3, <1>4, PushedRecord DEF Variant
<1>6. Variant(p, b)
  BY <1>5 DEF Variant
<1>7. Moves(b, p, dest, whom, token, cs)
  BY <1>1, <1>2, <1>3 DEF Navigate, Moves, Enter
<1> QED BY <1>4, <1>5, <1>6, <1>7

(* The service and the token are left alone.                               *)
LEMMA ServiceStays ==
  ASSUME TypeOK, UNCHANGED <<store, account, session, seen>>
  PROVE  ServiceStep /\ StoreStep
  BY DEF ServiceStep, StoreStep

LEMMA CallStays ==
  ASSUME NEW c, call'[c] = call[c]
  PROVE  Follows(c)
  BY DEF Follows

(* The user moves, or is moved, and no fetch ends.                         *)
LEMMA MoveStep ==
  ASSUME TypeOK, NEW b \in Tabs, NEW r, Variant(r, b),
         NEW dest \in Pages, NEW whom \in Users \cup {None},
         NEW token \in Tokens \cup {None}, store' = token,
         Moves(b, r, dest, whom, token, call),
         UNCHANGED <<store, account, session, seen, made>>, moves' \in 0 .. MaxMoves
  PROVE  TypeOK' /\ Effects
<1>1. call \in [Calls -> CallType]
  BY TypeParts
<1>2. /\ tab' \in [Tabs -> TabType] /\ call' \in [Calls -> CallType]
      /\ \A x \in Tabs : PageShape(tab'[x])
      /\ \A x \in Tabs : Stays(x) \/ Mounts(x)
      /\ \A c \in Calls :
           /\ call'[c].kind = call[c].kind /\ call'[c].at = call[c].at
           /\ call'[c].tab = call[c].tab /\ call'[c].user = call[c].user
           /\ call'[c].token = call[c].token /\ (call'[c].here => call[c].here)
  BY <1>1, MovesLeaves
<1>3. \A c \in Calls : Follows(c)
  BY <1>2 DEF Follows
<1>4. TypeOK'
  BY <1>2, TypeParts DEF TypeOK, TabType, CallType, PageShape, Placed
<1> QED BY <1>2, <1>3, <1>4, ServiceStays DEF Effects

LEMMA NavigateStep ==
  ASSUME TypeOK, NEW b \in Tabs, NEW r, Variant(r, b),
         NEW pg \in Pages, NEW who \in Users \cup {None},
         NEW token \in Tokens \cup {None}, store' = token,
         Navigate(b, r, pg, who, token, call),
         UNCHANGED <<store, account, session, seen, made>>, moves' \in 0 .. MaxMoves
  PROVE  TypeOK' /\ Effects
<1>1. PICK p \in TabType, dest \in Pages, whom \in Users \cup {None} :
        Variant(p, b) /\ Moves(b, p, dest, whom, token, call)
  BY NavigateMoves
<1> QED BY <1>1, MoveStep

LEMMA MayMoveLeaves ==
  ASSUME TypeOK, MayMove
  PROVE  moves' \in 0 .. MaxMoves
<1>1. MaxMoves \in Nat
  BY ClientAssumption
<1>2. moves \in 0 .. MaxMoves /\ moves' = moves + 1 /\ moves < MaxMoves
  BY TypeParts DEF MayMove
<1> QED BY ONLY <1>1, <1>2

LEMMA GoStep ==
  ASSUME TypeOK, NEW b \in Tabs, NEW pg \in Pages, Go(b, pg)
  PROVE  TypeOK' /\ Effects
<1>1. Variant(tab[b], b)
  BY VariantSelf
<1>2. moves' \in 0 .. MaxMoves
  BY MayMoveLeaves DEF Go
<1>3. /\ Navigate(b, tab[b], pg, None, store, call)
      /\ UNCHANGED <<store, account, session, seen, made>>
  BY DEF Go
<1>4. store \in Tokens \cup {None} /\ store' = store
  BY <1>3 DEF TypeOK
<1> QED BY <1>1, <1>2, <1>3, <1>4, NavigateStep

LEMMA LogoutWithoutStep ==
  ASSUME TypeOK, NEW b \in Tabs, LogoutWithout(b)
  PROVE  TypeOK' /\ Effects
<1>1. Variant(tab[b], b)
  BY VariantSelf
<1>2. /\ Navigate(b, tab[b], "login", None, None, call)
      /\ UNCHANGED <<store, account, session, seen, made, moves>> /\ store = None
  BY DEF LogoutWithout
<1>3. moves' \in 0 .. MaxMoves /\ "login" \in Pages
  BY <1>2 DEF TypeOK, Pages
<1> QED BY <1>1, <1>2, <1>3, NavigateStep

LEMMA RedirectedStep ==
  ASSUME TypeOK, NEW b \in Tabs, Redirected(b)
  PROVE  TypeOK' /\ Effects
<1> DEFINE r == [tab[b] EXCEPT !.redirect = FALSE]
<1>1. Variant(r, b)
  <2>1. tab[b] \in TabType
    BY TypeParts
  <2>2. /\ r \in TabType /\ SameHistory(r, tab[b])
        /\ r.page = tab[b].page /\ r.who = tab[b].who
        /\ r.verified = tab[b].verified /\ r.resend = tab[b].resend /\ r.asks = tab[b].asks
        /\ r.fetch = tab[b].fetch /\ r.profile = tab[b].profile /\ r.stale = tab[b].stale
    BY <2>1 DEF TabType, SameHistory, Known, Placed
  <2>3. Placed(tab[b])
    BY TypeParts DEF PageShape
  <2> HIDE DEF r
  <2> QED BY <2>2, <2>3 DEF Variant, SameHistory
<1>2. /\ Navigate(b, r, "dashboard", None, store, call)
      /\ UNCHANGED <<store, account, session, seen, made, moves>>
  BY DEF Redirected
<1>3. /\ moves' \in 0 .. MaxMoves /\ "dashboard" \in Pages
      /\ store \in Tokens \cup {None} /\ store' = store
  BY <1>2 DEF TypeOK, Pages
<1> HIDE DEF r
<1> QED BY <1>1, <1>2, <1>3, NavigateStep

LEMMA DroppedRecord ==
  ASSUME NEW o \in CallType, NEW n, n = [o EXCEPT !.tab = None, !.here = FALSE]
  PROVE  /\ n \in CallType /\ n.kind = o.kind /\ n.at = o.at /\ n.user = o.user
         /\ n.token = o.token /\ n.tab = None /\ ~n.here
  BY DEF CallType

LEMMA LoadingRecord ==
  ASSUME NEW o \in TabType
  PROVE  LET n == [o EXCEPT !.loading = TRUE] IN
         /\ n \in TabType /\ n.page = o.page /\ n.who = o.who /\ n.verified = o.verified
         /\ n.resend = o.resend /\ n.asks = o.asks /\ n.fetch = o.fetch
         /\ n.profile = o.profile /\ n.stale = o.stale /\ SameHistory(n, o)
  BY DEF TabType, SameHistory, Known, Placed

(* Loading a page drops the tab's fetches.                                 *)
LEMMA LoadStep ==
  ASSUME TypeOK, NEW b \in Tabs, NEW r \in TabType, Known(tab[b]) \subseteq Known(r), Placed(r),
         NEW dest \in Pages, NEW whom \in Users \cup {None}, MayMove,
         LoadPage(b, r, dest, whom)
  PROVE  TypeOK' /\ Effects
<1> USE ClientAssumption
<1> DEFINE n == Fetched(dest, whom, store, r)
           mine == {call[c].kind : c \in {c \in Calls : call[c].tab = b}}
<1>1. /\ tab \in [Tabs -> TabType] /\ call \in [Calls -> CallType]
      /\ store \in Tokens \cup {None} /\ moves \in 0 .. MaxMoves
      /\ \A x \in Tabs : PageShape(tab[x])
  BY TypeParts
<1>2. /\ tab' = [tab EXCEPT ![b] = n]
      /\ call' = [c \in Calls |-> IF call[c].tab = b
                                  THEN [call[c] EXCEPT !.tab = None, !.here = FALSE]
                                  ELSE call[c]]
      /\ seen' = [register |-> seen.register \/ "register" \in mine,
                  session |-> seen.session \/ "login" \in mine \/ "logout" \in mine]
      /\ UNCHANGED <<store, account, session, made>>
  BY DEF LoadPage
<1>3. \A c \in Calls : call[c].tab = b => call[c].kind \in mine
  OBVIOUS
<1> HIDE DEF mine
<1>4. /\ n \in TabType /\ n.page = dest /\ ~n.verified /\ n.asks = 0 /\ n.profile = None
      /\ n.resend # "off" => dest = "verify"
      /\ n.fetch # None => dest = "dashboard" /\ n.fetch = store
      /\ Known(tab[b]) \subseteq Known(n) /\ Placed(n)
  BY <1>1, FetchedRecord DEF SameHistory
<1> HIDE DEF n
<1>5. /\ tab' \in [Tabs -> TabType] /\ tab'[b] = n /\ \A x \in Tabs \ {b} : tab'[x] = tab[x]
  BY <1>1, <1>2, <1>4
<1>6. /\ call' \in [Calls -> CallType]
      /\ \A c \in Calls : call[c].tab # b => call'[c] = call[c]
      /\ \A c \in Calls : call[c].tab = b =>
           /\ call'[c].kind = call[c].kind /\ call'[c].at = call[c].at
           /\ call'[c].user = call[c].user /\ call'[c].token = call[c].token
           /\ call'[c].tab = None /\ ~call'[c].here
  <2>1. \A c \in Calls : call'[c] = IF call[c].tab = b
                                    THEN [call[c] EXCEPT !.tab = None, !.here = FALSE]
                                    ELSE call[c]
    BY <1>2
  <2>2. \A c \in Calls : call[c] \in CallType
    BY <1>1
  <2>3. ASSUME NEW c \in Calls, call[c].tab = b
        PROVE  /\ call'[c] \in CallType
               /\ call'[c].kind = call[c].kind /\ call'[c].at = call[c].at
               /\ call'[c].user = call[c].user /\ call'[c].token = call[c].token
               /\ call'[c].tab = None /\ ~call'[c].here
    <3>1. call'[c] = [call[c] EXCEPT !.tab = None, !.here = FALSE]
      BY <2>1, <2>3
    <3> QED BY <2>2, <3>1, DroppedRecord
  <2>4. ASSUME NEW c \in Calls, call[c].tab # b
        PROVE  call'[c] = call[c]
    BY <2>1, <2>4
  <2>5. \A c \in Calls : call'[c] \in CallType
    BY <2>2, <2>3, <2>4
  <2>6. call' \in [Calls -> CallType]
    BY <1>2, <2>5
  <2> QED BY <2>3, <2>4, <2>6
<1>7. seen' \in [register : BOOLEAN, session : BOOLEAN]
      /\ (seen.session => seen'.session) /\ (seen.register => seen'.register)
  <2>1. seen.register \in BOOLEAN /\ seen.session \in BOOLEAN
    BY TypeParts
  <2> QED BY <1>2, <2>1
<1>8. \A c \in Calls : call[c].tab = b => Noted(call[c].kind)
  <2>1. /\ seen'.session <=> seen.session \/ "login" \in mine \/ "logout" \in mine
        /\ seen'.register <=> seen.register \/ "register" \in mine
    BY <1>2
  <2> QED BY <1>3, <2>1 DEF Noted
<1>9. \A c \in Calls : Follows(c)
  BY <1>6, <1>8 DEF Follows
<1>10. \A x \in Tabs : PageShape(tab'[x])
  BY <1>1, <1>4, <1>5 DEF PageShape
<1>11. \A x \in Tabs : Stays(x) \/ Mounts(x)
  <2>1. \A x \in Tabs \ {b} : Stays(x)
    BY <1>5 DEF Stays
  <2>2. Mounts(b)
    BY <1>2, <1>4, <1>5, <1>6 DEF Mounts
  <2> QED BY <2>1, <2>2
<1>12. ServiceStep /\ StoreStep
  BY <1>2, <1>7 DEF ServiceStep, StoreStep
<1>13. moves' \in 0 .. MaxMoves
  BY MayMoveLeaves
<1>14. TypeOK'
  BY <1>2, <1>5, <1>6, <1>7, <1>10, <1>13, TypeParts DEF TypeOK, TabType, CallType, PageShape, Placed
<1> QED BY <1>9, <1>11, <1>12, <1>14 DEF Effects

LEMMA OpenStep ==
  ASSUME TypeOK, NEW b \in Tabs, NEW pg \in Pages, Open(b, pg)
  PROVE  TypeOK' /\ Effects
<1>1. PICK dest : dest = Dest(pg, store)
  OBVIOUS
<1>2. dest \in Pages
  BY <1>1 DEF Dest, Pages
<1>3. MayMove /\ LoadPage(b, Pushed(tab[b], dest, None), dest, None)
  BY <1>1 DEF Open
<1>4. PICK r : r = Pushed(tab[b], dest, None)
  OBVIOUS
<1>5. tab[b] \in TabType /\ Placed(tab[b])
  BY TypeParts DEF PageShape
<1>6. r \in TabType /\ Placed(r) /\ Known(tab[b]) \subseteq Known(r)
  BY <1>2, <1>4, <1>5, PushedRecord
<1> QED BY <1>2, <1>3, <1>4, <1>6, LoadStep

LEMMA ReloadStep ==
  ASSUME TypeOK, NEW b \in Tabs, Reload(b)
  PROVE  TypeOK' /\ Effects
<1>1. PICK dest : dest = Dest(tab[b].page, store)
  OBVIOUS
<1>2. MayMove /\ LoadPage(b, tab[b], dest, tab[b].who)
  BY <1>1 DEF Reload
<1>3. tab[b] \in TabType /\ Placed(tab[b])
  BY TypeParts DEF PageShape
<1>4. dest \in Pages /\ tab[b].who \in Users \cup {None}
  BY <1>1, <1>3 DEF Dest, Pages, TabType
<1> QED BY <1>2, <1>3, <1>4, LoadStep

(* Back and forward leave the history as it is.                            *)
LEMMA TraverseStep ==
  ASSUME TypeOK, NEW b \in Tabs, NEW pg \in Pages, NEW i \in 0 .. Len(tab[b].trail),
         NEW same \in BOOLEAN, Traverse(b, pg, i, same)
  PROVE  TypeOK' /\ Effects
<1>1. PICK dest : dest = Dest(pg, store)
  OBVIOUS
<1>2. PICK whom : whom = IF pg = "verify" THEN tab[b].trail[i] ELSE None
  OBVIOUS
<1>3. PICK r : r = [tab[b] EXCEPT !.at = i]
  OBVIOUS
<1>4. /\ tab[b] \in TabType /\ tab[b].trail \in Seq(Users \cup {None})
      /\ Len(tab[b].trail) \in Nat /\ i \in Nat /\ i <= Len(tab[b].trail)
      /\ store \in Tokens \cup {None}
  <2>1. tab[b] \in TabType /\ store \in Tokens \cup {None}
    BY TypeParts
  <2>2. tab[b].trail \in Seq(Users \cup {None})
    BY <2>1 DEF TabType
  <2> QED BY <2>1, <2>2
<1>5. dest \in Pages
  BY <1>1 DEF Dest, Pages
<1>6. whom \in Users \cup {None}
  <2>1. pg = "verify" => i \in 1 .. Len(tab[b].trail)
    BY <1>4 DEF Traverse
  <2> QED BY <1>2, <1>4, <2>1
<1>7. r \in TabType
  BY ONLY <1>3, <1>4 DEF TabType
<1>8. /\ r.page = tab[b].page /\ r.who = tab[b].who
      /\ r.verified = tab[b].verified /\ r.resend = tab[b].resend /\ r.asks = tab[b].asks
      /\ r.fetch = tab[b].fetch /\ r.profile = tab[b].profile /\ r.stale = tab[b].stale
      /\ r.trail = tab[b].trail /\ r.at = i /\ r.dropped = tab[b].dropped
  BY ONLY <1>3, <1>4 DEF TabType
<1>9. Known(r) = Known(tab[b]) /\ Placed(r)
  BY <1>4, <1>8 DEF Known, Placed
<1>10. Variant(r, b)
  BY <1>7, <1>8, <1>9 DEF Variant
<1>11. MayMove /\ moves' \in 0 .. MaxMoves
  BY MayMoveLeaves DEF Traverse
<1>12. CASE same
  <2>1. /\ Moves(b, r, dest, whom, store, call)
        /\ UNCHANGED <<store, account, session, seen, made>>
    BY <1>1, <1>2, <1>3, <1>12 DEF Traverse, Moves
  <2> QED BY <1>4, <1>5, <1>6, <1>10, <1>11, <2>1, MoveStep
<1>13. CASE ~same
  <2>1. LoadPage(b, r, dest, whom)
    BY <1>1, <1>2, <1>3, <1>13 DEF Traverse
  <2> QED BY <1>5, <1>6, <1>7, <1>9, <1>11, <2>1, LoadStep
<1> QED BY <1>12, <1>13

(* A form is submitted: its page waits, or, for a logout, stays as it is.  *)
LEMMA SendStep ==
  ASSUME TypeOK, NEW b \in Tabs, NEW kind \in {"login", "logout", "register", "verify"},
         NEW user \in Users \cup {None}, NEW token \in Tokens \cup {None},
         Loading(b) \/ UNCHANGED tab, Send(b, kind, user, token),
         tab[b].page = PageOf(kind),
         kind \in {"login", "register", "verify"} => user \in Users,
         kind = "verify" => user = tab[b].who,
         kind = "logout" => token = store /\ store # None
  PROVE  TypeOK' /\ Effects
<1> USE ClientAssumption
<1>1. /\ tab \in [Tabs -> TabType] /\ call \in [Calls -> CallType]
      /\ made \in 0 .. MaxCalls /\ \A x \in Tabs : PageShape(tab[x])
  BY TypeParts
<1>2. PICK c \in Calls :
        /\ call[c] = Free
        /\ call' = [call EXCEPT ![c] = [kind |-> kind, at |-> "sent", tab |-> b, here |-> TRUE,
                                        user |-> user, token |-> token]]
  BY DEF Send
<1>3. made' \in 0 .. MaxCalls /\ UNCHANGED <<store, account, session, seen, moves>>
  BY <1>1 DEF Send
<1>4. /\ tab' \in [Tabs -> TabType]
      /\ \A x \in Tabs : /\ tab'[x].page = tab[x].page /\ tab'[x].who = tab[x].who
                         /\ tab'[x].verified = tab[x].verified /\ tab'[x].resend = tab[x].resend
                         /\ tab'[x].asks = tab[x].asks /\ tab'[x].fetch = tab[x].fetch
                         /\ tab'[x].profile = tab[x].profile
                         /\ tab'[x].stale = tab[x].stale
                         /\ SameHistory(tab'[x], tab[x])
  <2>1. CASE UNCHANGED tab
    BY <1>1, <2>1 DEF SameHistory
  <2>2. CASE Loading(b)
    <3> DEFINE n == [tab[b] EXCEPT !.loading = TRUE]
    <3>1. tab' = [tab EXCEPT ![b] = n]
      BY <2>2 DEF Loading
    <3>2. /\ n \in TabType /\ n.page = tab[b].page /\ n.who = tab[b].who
          /\ n.verified = tab[b].verified /\ n.resend = tab[b].resend
          /\ n.asks = tab[b].asks /\ n.fetch = tab[b].fetch
          /\ n.profile = tab[b].profile /\ n.stale = tab[b].stale
          /\ SameHistory(n, tab[b])
      BY <1>1, LoadingRecord
    <3> HIDE DEF n
    <3> QED BY <1>1, <3>1, <3>2 DEF SameHistory
  <2> QED BY <2>1, <2>2
<1>5. /\ call' \in [Calls -> CallType] /\ \A d \in Calls \ {c} : call'[d] = call[d]
      /\ call'[c] = [kind |-> kind, at |-> "sent", tab |-> b, here |-> TRUE,
                     user |-> user, token |-> token]
  BY <1>1, <1>2 DEF CallType
<1>6. Sent(c)
  BY <1>2, <1>3, <1>5 DEF Sent, Free
<1>7. \A d \in Calls \ {c} : Follows(d)
  BY <1>5, CallStays
<1>8. \A x \in Tabs : Stays(x)
  BY <1>4 DEF Stays, SameHistory
<1>9. \A x \in Tabs : PageShape(tab'[x])
  BY <1>1, <1>4 DEF PageShape, SameHistory
<1>10. TypeOK'
  BY <1>1, <1>3, <1>4, <1>5, <1>9, TypeParts DEF TypeOK, TabType, CallType, PageShape, Placed
<1> QED BY <1>3, <1>6, <1>7, <1>8, <1>10, ServiceStays DEF Effects

LEMMA FormStep ==
  ASSUME TypeOK, NEW b \in Tabs,
         \/ \E u \in Users : SubmitLogin(b, u) \/ SubmitRegister(b, u)
         \/ SubmitCode(b) \/ Logout(b)
  PROVE  TypeOK' /\ Effects
<1> USE ClientAssumption
<1>1. ASSUME NEW u \in Users, SubmitLogin(b, u) PROVE TypeOK' /\ Effects
  BY <1>1, SendStep DEF SubmitLogin, PageOf
<1>2. ASSUME NEW u \in Users, SubmitRegister(b, u) PROVE TypeOK' /\ Effects
  BY <1>2, SendStep DEF SubmitRegister, PageOf
<1>3. CASE SubmitCode(b)
  <2>1. tab[b].who \in Users
    BY <1>3 DEF SubmitCode, TypeOK
  <2> QED BY <1>3, <2>1, SendStep DEF SubmitCode, CodeEnabled, PageOf
<1>4. CASE Logout(b)
  <2>1. store \in Tokens \cup {None}
    BY DEF TypeOK
  <2> QED BY <1>4, <2>1, SendStep DEF Logout, PageOf
<1> QED BY <1>1, <1>2, <1>3, <1>4

-----------------------------------------------------------------------------
(* The timers and the profile.                                             *)

LEMMA TypesKept ==
  ASSUME TypeOK, tab' \in [Tabs -> TabType], \A x \in Tabs : PageShape(tab'[x]),
         call' \in [Calls -> CallType], store' \in Tokens \cup {None},
         account' \in [Users -> {"none", "pending", "active"}],
         session' \in [Tokens -> [state : {"none", "live", "ended"}, user : Users \cup {None}]],
         seen' \in [register : BOOLEAN, session : BOOLEAN],
         UNCHANGED <<made, moves>>
  PROVE  TypeOK'
  BY TypeParts DEF TypeOK, TabType, CallType, PageShape, Placed

(* One tab changes in place.                                               *)
InPlace(n, o) ==
  /\ n \in TabType /\ PageShape(n)
  /\ n.page = o.page /\ n.who = o.who /\ n.stale = o.stale
  /\ SameHistory(n, o)
  /\ n.asks > 0 => o.asks > 0 \/ n.page = "verify"
  /\ n.fetch \in {o.fetch, None}

LEMMA InPlaceLeaves ==
  ASSUME TypeOK, NEW b \in Tabs, NEW n, InPlace(n, tab[b]), tab' = [tab EXCEPT ![b] = n]
  PROVE  /\ tab' \in [Tabs -> TabType] /\ tab'[b] = n
         /\ \A x \in Tabs : PageShape(tab'[x])
         /\ \A x \in Tabs \ {b} : Stays(x)
<1>1. tab \in [Tabs -> TabType] /\ \A x \in Tabs : PageShape(tab[x])
  BY TypeParts
<1>2. n \in TabType /\ PageShape(n)
  BY DEF InPlace
<1>3. /\ tab' \in [Tabs -> TabType] /\ tab'[b] = n
      /\ \A x \in Tabs \ {b} : tab'[x] = tab[x]
  BY <1>1, <1>2
<1>4. \A x \in Tabs : PageShape(tab'[x])
  BY <1>1, <1>2, <1>3
<1>5. \A x \in Tabs \ {b} : Stays(x)
  BY <1>3 DEF Stays
<1> QED BY <1>3, <1>4, <1>5

LEMMA QuietStep ==
  ASSUME TypeOK, Quiet, NEW b \in Tabs, NEW n, InPlace(n, tab[b]), tab' = [tab EXCEPT ![b] = n],
         n.verified = tab[b].verified,
         \/ n.profile = tab[b].profile \/ n.profile = None
         \/ tab[b].fetch # None /\ n.profile = session[tab[b].fetch].user
  PROVE  TypeOK' /\ Effects
<1>1. /\ tab' \in [Tabs -> TabType] /\ tab'[b] = n
      /\ \A x \in Tabs : PageShape(tab'[x])
      /\ \A x \in Tabs \ {b} : Stays(x)
  BY InPlaceLeaves
<1>2. Stays(b)
  BY <1>1 DEF InPlace, Stays, SameHistory
<1>3. \A c \in Calls : Follows(c)
  BY CallStays DEF Quiet
<1>4. UNCHANGED <<call, store, account, session, seen, made, moves>>
  BY DEF Quiet
<1>5. TypeOK'
  BY <1>1, <1>4, TypeParts, TypesKept
<1> QED BY <1>1, <1>2, <1>3, <1>4, <1>5, ServiceStays DEF Effects

LEMMA TimerStep ==
  ASSUME TypeOK, StoreInv, NEW b \in Tabs,
         CountdownEnds(b) \/ ClickResend(b) \/ ResendSent(b) \/ OrphanSent(b) \/ FetchDone(b)
  PROVE  TypeOK' /\ Effects
<1>1. tab[b] \in TabType /\ PageShape(tab[b])
  BY TypeParts
<1>2. tab[b].asks \in Nat /\ tab[b].orphans \in Nat
  BY <1>1 DEF TabType
<1>3. CASE CountdownEnds(b)
  <2> DEFINE n == [tab[b] EXCEPT !.resend = "ready"]
  <2>1. tab' = [tab EXCEPT ![b] = n] /\ Quiet
    BY <1>3 DEF CountdownEnds
  <2>2. InPlace(n, tab[b]) /\ n.verified = tab[b].verified /\ n.profile = tab[b].profile
    BY <1>1, <1>3 DEF CountdownEnds, InPlace, PageShape, TabType, SameHistory,
                     Known, Placed
  <2> HIDE DEF n
  <2> QED BY <2>1, <2>2, QuietStep
<1>4. CASE ClickResend(b)
  <2> DEFINE n == [tab[b] EXCEPT !.resend = "waiting", !.asks = @ + 1]
  <2>1. tab' = [tab EXCEPT ![b] = n] /\ Quiet
    BY <1>4 DEF ClickResend
  <2>2. tab[b].page = "verify" /\ tab[b].asks + 1 \in Nat
    BY <1>1, <1>2, <1>4 DEF ClickResend, PageShape
  <2>3. InPlace(n, tab[b]) /\ n.verified = tab[b].verified /\ n.profile = tab[b].profile
    BY <1>1, <2>2 DEF InPlace, PageShape, TabType, SameHistory, Known, Placed
  <2> HIDE DEF n
  <2> QED BY <2>1, <2>3, QuietStep
<1>5. CASE ResendSent(b)
  <2> DEFINE n == [tab[b] EXCEPT !.asks = @ - 1, !.resend = "counting"]
  <2>1. tab' = [tab EXCEPT ![b] = n] /\ Quiet
    BY <1>5 DEF ResendSent
  <2>2. tab[b].page = "verify" /\ tab[b].asks > 0 /\ tab[b].asks - 1 \in Nat
    BY <1>2, <1>5 DEF ResendSent, StoreInv
  <2>3. InPlace(n, tab[b]) /\ n.verified = tab[b].verified /\ n.profile = tab[b].profile
    BY <1>1, <2>2 DEF InPlace, PageShape, TabType, SameHistory, Known, Placed
  <2> HIDE DEF n
  <2> QED BY <2>1, <2>3, QuietStep
<1>6. CASE OrphanSent(b)
  <2> DEFINE n == [tab[b] EXCEPT !.orphans = @ - 1]
  <2>1. tab' = [tab EXCEPT ![b] = n] /\ Quiet
    BY <1>6 DEF OrphanSent
  <2>2. tab[b].orphans - 1 \in Nat
    BY <1>2, <1>6 DEF OrphanSent
  <2>3. InPlace(n, tab[b]) /\ n.verified = tab[b].verified /\ n.profile = tab[b].profile
    BY <1>1, <2>2 DEF InPlace, PageShape, TabType, SameHistory, Known, Placed
  <2> HIDE DEF n
  <2> QED BY <2>1, <2>3, QuietStep
<1>7. CASE FetchDone(b)
  <2>1. PICK shown \in {None, session[tab[b].fetch].user} :
          tab' = [tab EXCEPT ![b].fetch = None, ![b].profile = shown]
    BY <1>7 DEF FetchDone
  <2>2. tab[b].fetch # None /\ Quiet
    BY <1>7 DEF FetchDone
  <2> DEFINE n == [tab[b] EXCEPT !.fetch = None, !.profile = shown]
  <2>3. tab' = [tab EXCEPT ![b] = n]
    BY <2>1
  <2>4. shown \in Users \cup {None}
    <3>1. tab[b].fetch \in Tokens
      BY <1>1, <2>2 DEF TabType
    <3> QED BY <3>1, TypeParts
  <2>5. InPlace(n, tab[b]) /\ n.verified = tab[b].verified /\ n.profile = shown
    BY <1>1, <2>4 DEF InPlace, PageShape, TabType, SameHistory, Known, Placed
  <2> HIDE DEF n
  <2> QED BY <2>1, <2>2, <2>3, <2>5, QuietStep
<1> QED BY <1>3, <1>4, <1>5, <1>6, <1>7

-----------------------------------------------------------------------------
(* The service's answers.                                                  *)

LEMMA AnsweredRecord ==
  ASSUME NEW o \in CallType, NEW at \in {"ok", "refused", "lost"}, NEW n,
         n = [o EXCEPT !.at = at]
  PROVE  /\ n \in CallType /\ n.kind = o.kind /\ n.at = at /\ n.user = o.user
         /\ n.token = o.token /\ n.tab = o.tab /\ n.here = o.here
  BY DEF CallType

LEMMA AnswerLeaves ==
  ASSUME TypeOK, NEW c \in Calls, NEW at \in {"ok", "refused", "lost"}, Answer(c, at)
  PROVE  /\ call' \in [Calls -> CallType] /\ \A d \in Calls \ {c} : Follows(d)
         /\ call'[c].kind = call[c].kind /\ call'[c].at = at /\ call'[c].user = call[c].user
         /\ call'[c].token = call[c].token /\ call'[c].tab = call[c].tab
         /\ call'[c].here = call[c].here
<1>1. call \in [Calls -> CallType] /\ call' = [call EXCEPT ![c] = [call[c] EXCEPT !.at = at]]
  BY TypeParts DEF Answer
<1>2. PICK n : n = [call[c] EXCEPT !.at = at]
  OBVIOUS
<1>3. /\ n \in CallType /\ n.kind = call[c].kind /\ n.at = at /\ n.user = call[c].user
      /\ n.token = call[c].token /\ n.tab = call[c].tab /\ n.here = call[c].here
  BY <1>1, <1>2, AnsweredRecord
<1>4. call' = [call EXCEPT ![c] = n]
  BY <1>1, <1>2
<1>5. /\ call' \in [Calls -> CallType] /\ call'[c] = n
      /\ \A d \in Calls \ {c} : call'[d] = call[d]
  BY ONLY <1>1, <1>3, <1>4
<1> QED BY <1>3, <1>5, CallStays

LEMMA TabsStay ==
  ASSUME TypeOK, UNCHANGED tab
  PROVE  /\ tab' \in [Tabs -> TabType] /\ \A x \in Tabs : PageShape(tab'[x])
         /\ \A x \in Tabs : Stays(x)
  BY TypeParts DEF Stays

LEMMA ServeLoginStep ==
  ASSUME TypeOK, CallInv, NEW c \in Calls, ServeLogin(c)
  PROVE  TypeOK' /\ Effects
<1>1. PICK t \in Tokens :
        /\ session[t].state = "none"
        /\ session' = [session EXCEPT ![t] = [state |-> "live", user |-> call[c].user]]
        /\ call' = [call EXCEPT ![c].at = "ok", ![c].token = t]
  BY DEF ServeLogin
<1>2. /\ call[c].kind = "login" /\ call[c].at = "sent"
      /\ UNCHANGED <<tab, store, account, seen, made, moves>>
  BY DEF ServeLogin
<1>3. call[c].user \in Users
  BY <1>2 DEF CallInv
<1>4. /\ call \in [Calls -> CallType]
      /\ session \in [Tokens -> [state : {"none", "live", "ended"}, user : Users \cup {None}]]
      /\ store \in Tokens \cup {None}
  BY TypeParts
<1>5. /\ session' \in [Tokens -> [state : {"none", "live", "ended"}, user : Users \cup {None}]]
      /\ session'[t].state = "live" /\ \A x \in Tokens \ {t} : session'[x] = session[x]
  <2>1. PICK s : s = [state |-> "live", user |-> call[c].user]
    OBVIOUS
  <2>2. s \in [state : {"none", "live", "ended"}, user : Users \cup {None}] /\ s.state = "live"
    BY <1>3, <2>1
  <2>3. session' = [session EXCEPT ![t] = s]
    BY <1>1, <2>1
  <2> QED BY <1>4, <2>2, <2>3
<1>6. PICK n : n = [call[c] EXCEPT !.at = "ok", !.token = t]
  OBVIOUS
<1>7. /\ n \in CallType /\ n.kind = "login" /\ n.at = "ok" /\ n.token = t
      /\ n.user = call[c].user /\ n.tab = call[c].tab /\ n.here = call[c].here
  <2>1. call[c] \in CallType
    BY <1>4
  <2> QED BY <1>2, <1>6, <2>1 DEF CallType
<1>8. call' = [call EXCEPT ![c] = n]
  BY <1>1, <1>6
<1>9. /\ call' \in [Calls -> CallType] /\ call'[c] = n
      /\ \A d \in Calls \ {c} : call'[d] = call[d]
  BY ONLY <1>4, <1>7, <1>8
<1>10. Served(c)
  BY <1>2, <1>5, <1>7, <1>9 DEF Served
<1>11. \A d \in Calls \ {c} : Follows(d)
  BY <1>9, CallStays
<1>12. ServiceStep /\ StoreStep
  <2>1. \A x \in Tokens :
          /\ session[x].state # "none" =>
               session'[x].state # "none" /\ session'[x].user = session[x].user
          /\ session[x].state = "ended" => session'[x].state = "ended"
          /\ session'[x].state = "live" => session[x].state = "live" \/ x = t
    BY <1>1, <1>5
  <2> QED BY <1>2, <1>7, <1>9, <2>1 DEF ServiceStep, StoreStep
<1>13. TypeOK'
  BY <1>2, <1>4, <1>5, <1>9, TabsStay, TypeParts, TypesKept
<1> QED BY <1>2, <1>10, <1>11, <1>12, <1>13, TabsStay DEF Effects

(* A step that answers fetch c and leaves the tabs and the token alone.    *)
LEMMA ServiceMoves ==
  ASSUME TypeOK, NEW c \in Calls, NEW at \in {"ok", "refused", "lost"}, Answer(c, at),
         Follows(c) \/ Served(c), ServiceStep,
         UNCHANGED <<tab, store, made, moves>>,
         account' \in [Users -> {"none", "pending", "active"}],
         session' \in [Tokens -> [state : {"none", "live", "ended"}, user : Users \cup {None}]],
         seen' \in [register : BOOLEAN, session : BOOLEAN]
  PROVE  TypeOK' /\ Effects
<1>1. call' \in [Calls -> CallType] /\ \A d \in Calls \ {c} : Follows(d)
  BY AnswerLeaves
<1>2. TypeOK'
  BY <1>1, TabsStay, TypeParts, TypesKept
<1> QED BY <1>1, <1>2, TabsStay DEF Effects, StoreStep

LEMMA AnswerStep ==
  ASSUME TypeOK, CallInv, NEW c \in Calls,
         \/ ServeRegister(c) \/ ServeRegisterThrows(c) \/ ServeVerify(c)
         \/ ServeLogout(c) \/ Refuse(c) \/ Lose(c)
  PROVE  TypeOK' /\ Effects
<1>1. /\ account \in [Users -> {"none", "pending", "active"}]
      /\ session \in [Tokens -> [state : {"none", "live", "ended"}, user : Users \cup {None}]]
      /\ seen \in [register : BOOLEAN, session : BOOLEAN]
  BY TypeParts
<1>2. /\ call[c].kind \in {"login", "register", "verify"} => call[c].user \in Users
      /\ call[c].kind = "logout" => call[c].token \in Tokens
  BY DEF CallInv
<1>3. CASE ServeRegister(c)
  <2>1. /\ call[c].kind = "register" /\ call[c].at = "sent" /\ account[call[c].user] = "none"
        /\ account' = [account EXCEPT ![call[c].user] = "pending"] /\ Answer(c, "ok")
        /\ UNCHANGED <<tab, store, session, seen, made, moves>>
    BY <1>3 DEF ServeRegister
  <2>2. Served(c) /\ call'[c].kind = "register" /\ call'[c].at = "ok"
        /\ call'[c].user = call[c].user
    BY <2>1, AnswerLeaves DEF Served
  <2>3. ServiceStep
    BY <1>1, <1>2, <2>1, <2>2 DEF ServiceStep
  <2> QED BY <1>1, <1>2, <2>1, <2>2, <2>3, ServiceMoves
<1>4. CASE ServeRegisterThrows(c)
  <2>1. /\ call[c].kind = "register" /\ call[c].at = "sent" /\ account[call[c].user] = "none"
        /\ account' = [account EXCEPT ![call[c].user] = "pending"] /\ Answer(c, "refused")
        /\ seen' = [seen EXCEPT !.register = TRUE]
        /\ UNCHANGED <<tab, store, session, made, moves>>
    BY <1>4 DEF ServeRegisterThrows
  <2>2. Follows(c)
    BY <2>1, AnswerLeaves DEF Follows
  <2>3. /\ seen' \in [register : BOOLEAN, session : BOOLEAN]
        /\ seen'.register /\ seen'.session = seen.session
    BY <1>1, <2>1
  <2>4. ServiceStep
    BY <1>1, <1>2, <2>1, <2>3 DEF ServiceStep
  <2> QED BY <1>1, <1>2, <2>1, <2>2, <2>3, <2>4, ServiceMoves
<1>5. CASE ServeVerify(c)
  <2>1. /\ call[c].kind = "verify" /\ call[c].at = "sent"
        /\ account' = [account EXCEPT ![call[c].user] = "active"] /\ Answer(c, "ok")
        /\ UNCHANGED <<tab, store, session, seen, made, moves>>
    BY <1>5 DEF ServeVerify
  <2>2. Served(c)
    BY <1>1, <1>2, <2>1, AnswerLeaves DEF Served
  <2>3. ServiceStep
    BY <1>1, <1>2, <2>1 DEF ServiceStep
  <2> QED BY <1>1, <1>2, <2>1, <2>2, <2>3, ServiceMoves
<1>6. CASE ServeLogout(c)
  <2>1. /\ call[c].kind = "logout" /\ call[c].at = "sent" /\ call[c].token \in Tokens
        /\ session' = [session EXCEPT ![call[c].token].state = "ended"] /\ Answer(c, "ok")
        /\ UNCHANGED <<tab, store, account, seen, made, moves>>
    BY <1>2, <1>6 DEF ServeLogout
  <2>2. PICK s : s = [session[call[c].token] EXCEPT !.state = "ended"]
    OBVIOUS
  <2>3. /\ s \in [state : {"none", "live", "ended"}, user : Users \cup {None}]
        /\ s.state = "ended" /\ s.user = session[call[c].token].user
    BY <1>1, <2>1, <2>2
  <2>4. session' = [session EXCEPT ![call[c].token] = s]
    BY <2>1, <2>2
  <2>5. /\ session' \in [Tokens -> [state : {"none", "live", "ended"}, user : Users \cup {None}]]
        /\ session'[call[c].token] = s
        /\ \A t \in Tokens \ {call[c].token} : session'[t] = session[t]
    BY ONLY <1>1, <2>1, <2>3, <2>4
  <2>6. Served(c)
    BY <2>1, <2>3, <2>5, AnswerLeaves DEF Served
  <2>7. ServiceStep
    BY <2>1, <2>3, <2>5 DEF ServiceStep
  <2> QED BY <1>1, <2>1, <2>5, <2>6, <2>7, ServiceMoves
<1>7. CASE Refuse(c)
  <2>1. /\ call[c].at = "sent" /\ Answer(c, "refused")
        /\ UNCHANGED <<tab, store, account, session, seen, made, moves>>
    BY <1>7 DEF Refuse
  <2>2. Follows(c)
    BY <2>1, AnswerLeaves DEF Follows
  <2> QED BY <1>1, <2>1, <2>2, ServiceStays, ServiceMoves
<1>8. CASE Lose(c)
  <2>1. /\ Answer(c, "lost")
        /\ seen' = [register |-> seen.register \/ call[c].kind = "register",
                    session |-> seen.session \/ call[c].kind \in {"login", "logout"}]
        /\ UNCHANGED <<tab, store, account, session, made, moves>>
    BY <1>8 DEF Lose
  <2>2. seen.register \in BOOLEAN /\ seen.session \in BOOLEAN
    BY <1>1
  <2>3. /\ seen' \in [register : BOOLEAN, session : BOOLEAN]
        /\ (seen.session => seen'.session) /\ (seen.register => seen'.register)
        /\ Noted(call[c].kind)
    BY <2>1, <2>2 DEF Noted
  <2>4. Follows(c)
    BY <2>1, <2>3, AnswerLeaves DEF Follows
  <2>5. ServiceStep
    BY <1>1, <2>1, <2>3 DEF ServiceStep
  <2> QED BY <1>1, <2>1, <2>3, <2>4, <2>5, ServiceMoves
<1> QED BY <1>3, <1>4, <1>5, <1>6, <1>7, <1>8

-----------------------------------------------------------------------------
(* The forms, after their await.                                           *)

(* The fetch c is over, the others go on.                                  *)
LEMMA FreedFollows ==
  ASSUME TypeOK, NEW c \in Calls, call' = Freed(c)
  PROVE  /\ call' \in [Calls -> CallType] /\ \A d \in Calls \ {c} : Follows(d)
         /\ call'[c].kind = "none" /\ ~call'[c].here
  BY FreedLeaves, CallStays

LEMMA SettledRecord ==
  ASSUME TypeOK, NEW c \in Calls, call[c].tab \in Tabs, NEW n, n = Settled(c)
  PROVE  LET o == tab[call[c].tab] IN
         /\ n \in TabType /\ n.page = o.page /\ n.who = o.who /\ n.verified = o.verified
         /\ n.resend = o.resend /\ n.asks = o.asks /\ n.orphans = o.orphans
         /\ n.fetch = o.fetch /\ n.profile = o.profile
         /\ n.stale = o.stale /\ SameHistory(n, o)
<1>1. tab[call[c].tab] \in TabType
  BY TypeParts
<1>2. PICK l \in BOOLEAN : n = [tab[call[c].tab] EXCEPT !.loading = l]
  <2>1. tab[call[c].tab].loading \in BOOLEAN
    BY <1>1 DEF TabType
  <2> QED BY <2>1 DEF Settled
<1> QED BY ONLY <1>1, <1>2 DEF TabType, SameHistory, Known, Placed

LEMMA ShowErrorStep ==
  ASSUME TypeOK, NEW c \in Calls, ShowError(c)
  PROVE  TypeOK' /\ Effects
<1> USE ClientAssumption
<1>1. /\ call[c].tab # None /\ call[c].at \in {"refused", "lost"}
      /\ tab' = [tab EXCEPT ![call[c].tab] = Settled(c)] /\ call' = Freed(c)
      /\ UNCHANGED <<store, account, session, seen, made, moves>>
  BY DEF ShowError
<1>2. call[c].tab \in Tabs
  BY <1>1, TypeParts DEF CallType
<1>3. PICK b \in Tabs : b = call[c].tab
  BY <1>2
<1>4. PICK n : n = Settled(c)
  OBVIOUS
<1>5. InPlace(n, tab[b]) /\ n.verified = tab[b].verified /\ n.profile = tab[b].profile
  BY <1>2, <1>3, <1>4, SettledRecord, TypeParts DEF InPlace, PageShape, SameHistory
<1>6. tab' = [tab EXCEPT ![b] = n]
  BY <1>1, <1>3, <1>4
<1>7. /\ tab' \in [Tabs -> TabType] /\ tab'[b] = n
      /\ \A x \in Tabs : PageShape(tab'[x])
      /\ \A x \in Tabs \ {b} : Stays(x)
  BY <1>5, <1>6, InPlaceLeaves
<1>8. Stays(b)
  BY <1>5, <1>7 DEF InPlace, Stays, SameHistory
<1>9. Gone(c)
  BY <1>1, FreedFollows DEF Gone
<1>10. TypeOK'
  BY <1>1, <1>7, FreedFollows, TypeParts, TypesKept
<1> QED BY <1>1, <1>7, <1>8, <1>9, <1>10, FreedFollows, ServiceStays DEF Effects

LEMMA VerifyDoneStep ==
  ASSUME TypeOK, HereInv, CallInv, NEW c \in Calls, VerifyDone(c)
  PROVE  TypeOK' /\ Effects
<1> USE ClientAssumption
<1>1. /\ call[c].kind = "verify" /\ call[c].tab # None /\ call[c].at = "ok"
      /\ call' = Freed(c) /\ UNCHANGED <<store, account, session, seen, made, moves>>
  BY DEF VerifyDone
<1>2. call[c].tab \in Tabs
  BY <1>1, TypeParts DEF CallType
<1>3. PICK b \in Tabs : b = call[c].tab
  BY <1>2
<1>4. PICK s : s = Settled(c)
  OBVIOUS
<1>5. PICK n : n = IF call[c].here
                   THEN [s EXCEPT !.redirect = TRUE, !.verified = TRUE, !.resend = "off",
                                  !.orphans = s.orphans + s.asks, !.asks = 0]
                   ELSE [s EXCEPT !.redirect = TRUE]
  OBVIOUS
<1>6. /\ s \in TabType /\ s.page = tab[b].page /\ s.who = tab[b].who
      /\ s.verified = tab[b].verified /\ s.resend = tab[b].resend /\ s.asks = tab[b].asks
      /\ s.fetch = tab[b].fetch /\ s.profile = tab[b].profile
      /\ s.stale = tab[b].stale /\ SameHistory(s, tab[b])
  BY <1>2, <1>3, <1>4, SettledRecord
<1>7. tab' = [tab EXCEPT ![b] = n]
  <2>1. n = IF call[c].here
            THEN [[s EXCEPT !.redirect = TRUE] EXCEPT !.verified = TRUE, !.resend = "off",
                    !.orphans = @ + [s EXCEPT !.redirect = TRUE].asks, !.asks = 0]
            ELSE [s EXCEPT !.redirect = TRUE]
    BY <1>5, <1>6 DEF TabType
  <2> QED BY <1>3, <1>4, <2>1 DEF VerifyDone
<1>8. call[c].here => tab[b].page = "verify"
  BY <1>1, <1>3 DEF HereInv, PageOf
<1>9. PageShape(tab[b])
  BY TypeParts
<1>10. /\ n \in TabType /\ n.page = s.page /\ n.who = s.who /\ n.fetch = s.fetch
       /\ n.profile = s.profile /\ n.stale = s.stale /\ SameHistory(n, s)
       /\ call[c].here => n.verified /\ n.resend = "off" /\ n.asks = 0
       /\ ~call[c].here => n.verified = s.verified /\ n.resend = s.resend /\ n.asks = s.asks
  <2>1. s.orphans + s.asks \in Nat
    BY <1>6 DEF TabType
  <2>2. CASE call[c].here
    <3>1. n = [s EXCEPT !.redirect = TRUE, !.verified = TRUE, !.resend = "off",
                      !.orphans = s.orphans + s.asks, !.asks = 0]
      BY <1>5, <2>2
    <3>2. n.trail = s.trail /\ n.at = s.at /\ n.dropped = s.dropped
      BY ONLY <1>6, <3>1 DEF TabType
    <3>3. SameHistory(n, s)
      BY <3>2, HistoryKept
    <3>4. n \in TabType
      BY ONLY <1>6, <2>1, <3>1 DEF TabType
    <3> QED BY ONLY <1>6, <2>2, <3>1, <3>3, <3>4 DEF TabType
  <2>3. CASE ~call[c].here
    <3>1. n = [s EXCEPT !.redirect = TRUE]
      BY <1>5, <2>3
    <3>2. n.trail = s.trail /\ n.at = s.at /\ n.dropped = s.dropped
      BY ONLY <1>6, <3>1 DEF TabType
    <3>3. SameHistory(n, s)
      BY <3>2, HistoryKept
    <3>4. n \in TabType
      BY ONLY <1>6, <2>1, <3>1 DEF TabType
    <3> QED BY ONLY <1>6, <2>3, <3>1, <3>3, <3>4 DEF TabType
  <2> QED BY <2>2, <2>3
<1>11. InPlace(n, tab[b])
  BY <1>6, <1>8, <1>9, <1>10 DEF InPlace, PageShape, SameHistory
<1>12. /\ tab' \in [Tabs -> TabType] /\ tab'[b] = n
       /\ \A x \in Tabs : PageShape(tab'[x])
       /\ \A x \in Tabs \ {b} : Stays(x)
  BY <1>7, <1>11, InPlaceLeaves
<1>13. call[c].here /\ ~tab[b].stale =>
         tab[b].who \in Users /\ account[tab[b].who] = "active"
  BY <1>1, <1>3 DEF HereInv, CallInv
<1>14. Stays(b)
  BY <1>1, <1>6, <1>10, <1>11, <1>12, <1>13 DEF InPlace, Stays, SameHistory
<1>15. Gone(c)
  BY <1>1, FreedFollows DEF Gone
<1>16. TypeOK'
  BY <1>1, <1>12, FreedFollows, TypeParts, TypesKept
<1> QED BY <1>1, <1>12, <1>14, <1>15, <1>16, FreedFollows, ServiceStays DEF Effects

LEMMA LoginDoneStep ==
  ASSUME TypeOK, CallInv, NEW c \in Calls, LoginDone(c)
  PROVE  TypeOK' /\ Effects
<1> USE ClientAssumption
<1>1. /\ call[c].kind = "login" /\ call[c].tab # None /\ call[c].at = "ok"
      /\ store' = call[c].token
      /\ call' = Detach(Freed(c), call[c].tab, "dashboard")
      /\ seen' = [seen EXCEPT !.session =
                    @ \/ store # None \/ \E d \in Calls : call[d].kind = "logout"]
      /\ UNCHANGED <<account, session, made, moves>>
  BY DEF LoginDone
<1>2. call[c].tab \in Tabs /\ call[c].token \in Tokens
  BY <1>1, TypeParts DEF CallType, CallInv
<1>3. PICK b \in Tabs : b = call[c].tab
  BY <1>2
<1>4. PICK m : m = [x \in Tabs |-> [tab[x] EXCEPT !.stale = @ \/ tab[x].page = "dashboard"]]
  OBVIOUS
<1>5. ASSUME NEW x \in Tabs
      PROVE  /\ m[x] \in TabType /\ m[x].page = tab[x].page /\ m[x].who = tab[x].who
             /\ m[x].verified = tab[x].verified /\ m[x].resend = tab[x].resend
             /\ m[x].asks = tab[x].asks /\ m[x].fetch = tab[x].fetch
             /\ m[x].profile = tab[x].profile /\ SameHistory(m[x], tab[x])
             /\ m[x].stale <=> tab[x].stale \/ tab[x].page = "dashboard"
  <2>1. tab[x] \in TabType
    BY TypeParts
  <2>2. m[x] = [tab[x] EXCEPT !.stale = tab[x].stale \/ tab[x].page = "dashboard"]
    BY <1>4
  <2>3. m[x].trail = tab[x].trail /\ m[x].at = tab[x].at /\ m[x].dropped = tab[x].dropped
    BY ONLY <2>1, <2>2 DEF TabType
  <2>4. SameHistory(m[x], tab[x])
    BY <2>3, HistoryKept
  <2>5. m[x].stale <=> tab[x].stale \/ tab[x].page = "dashboard"
    BY ONLY <2>1, <2>2 DEF TabType
  <2>6. /\ m[x] \in TabType /\ m[x].page = tab[x].page /\ m[x].who = tab[x].who
        /\ m[x].verified = tab[x].verified /\ m[x].resend = tab[x].resend
        /\ m[x].asks = tab[x].asks /\ m[x].fetch = tab[x].fetch
        /\ m[x].profile = tab[x].profile
    BY ONLY <2>1, <2>2 DEF TabType
  <2> QED BY <2>4, <2>5, <2>6
<1>6. m \in [Tabs -> TabType]
  BY <1>4, <1>5
<1>7. PICK e : e = Enter(m[b], "dashboard", None, call[c].token)
  OBVIOUS
<1>8. tab' = [m EXCEPT ![b] = e]
  BY <1>3, <1>4, <1>7 DEF LoginDone
<1>9. /\ e \in TabType /\ e.page = "dashboard" /\ Known(m[b]) \subseteq Known(e) /\ Placed(e)
      /\ m[b].page = "dashboard" =>
           /\ e.who = None /\ (e.stale <=> m[b].stale \/ None # m[b].who)
           /\ e.verified = m[b].verified /\ e.resend = m[b].resend /\ e.asks = m[b].asks
           /\ e.fetch = m[b].fetch /\ e.profile = m[b].profile
      /\ m[b].page # "dashboard" =>
           /\ ~e.verified /\ ~e.stale /\ e.asks = 0 /\ e.profile = None
           /\ e.resend # "off" => "dashboard" = "verify"
           /\ e.fetch # None => "dashboard" = "dashboard" /\ e.fetch = call[c].token
  <2>1. "dashboard" \in Pages /\ m[b] \in TabType /\ None \in Users \cup {None}
        /\ call[c].token \in Tokens \cup {None} /\ Placed(m[b])
    BY <1>2, <1>5, TypeParts DEF Pages, PageShape, SameHistory
  <2> QED BY <1>7, <2>1, EnterRecord
<1>10. /\ tab' \in [Tabs -> TabType] /\ tab'[b] = e /\ \A x \in Tabs \ {b} : tab'[x] = m[x]
  BY ONLY <1>3, <1>6, <1>8, <1>9
<1>11. \A x \in Tabs : PageShape(tab[x])
  BY TypeParts
<1>12. \A x \in Tabs : PageShape(tab'[x])
  BY <1>5, <1>9, <1>10, <1>11 DEF PageShape, SameHistory
<1>13. /\ call' \in [Calls -> CallType] /\ call'[c].kind = "none" /\ ~call'[c].here
       /\ \A d \in Calls : call'[d].here /\ tab[b].page # "dashboard" => call'[d].tab # b
       /\ \A d \in Calls \ {c} :
            /\ call'[d].kind = call[d].kind /\ call'[d].at = call[d].at
            /\ call'[d].tab = call[d].tab /\ call'[d].user = call[d].user
            /\ call'[d].token = call[d].token /\ (call'[d].here => call[d].here)
  BY <1>1, <1>3, FreedLeaves, DetachLeaves
<1>14. /\ seen' \in [register : BOOLEAN, session : BOOLEAN]
       /\ seen'.register = seen.register
       /\ seen'.session <=> seen.session \/ store # None
                               \/ \E d \in Calls : call[d].kind = "logout"
  <2>1. seen \in [register : BOOLEAN, session : BOOLEAN]
    BY TypeParts
  <2> QED BY <1>1, <2>1
<1>15. \A x \in Tabs \ {b} : Stays(x)
  BY <1>5, <1>10 DEF Stays, SameHistory
<1>16. Stays(b) \/ Mounts(b)
  <2>1. tab[b].page = "dashboard" => Stays(b)
    BY <1>5, <1>9, <1>10 DEF Stays, SameHistory
  <2>2. tab[b].page # "dashboard" => Mounts(b)
    BY <1>1, <1>5, <1>9, <1>10, <1>13 DEF Mounts, SameHistory
  <2> QED BY <2>1, <2>2
<1>17. \A x \in Tabs : tab'[x].page = "dashboard" => tab'[x].stale \/ Mounts(x)
  <2>1. tab'[b].stale \/ Mounts(b)
    <3>1. tab[b].page = "dashboard" => tab'[b].stale
      BY <1>5, <1>9, <1>10
    <3>2. tab[b].page # "dashboard" => Mounts(b)
      BY <1>1, <1>5, <1>9, <1>10, <1>13 DEF Mounts, SameHistory
    <3> QED BY <3>1, <3>2
  <2>2. \A x \in Tabs \ {b} : tab'[x].page = "dashboard" => tab'[x].stale
    BY <1>5, <1>10
  <2> QED BY <2>1, <2>2
<1>18. StoreStep
  <2>1. seen'.session \/ (store = None /\ \A d \in Calls : call'[d].kind # "logout")
    BY <1>13, <1>14
  <2> QED BY <1>1, <1>17, <2>1 DEF StoreStep
<1>19. ServiceStep
  BY <1>1, <1>14 DEF ServiceStep
<1>20. \A d \in Calls \ {c} : Follows(d)
  BY <1>13 DEF Follows
<1>21. Gone(c)
  BY <1>1, <1>13 DEF Gone
<1>22. TypeOK'
  BY <1>1, <1>2, <1>10, <1>12, <1>13, <1>14, TypeParts, TypesKept
<1> QED BY <1>15, <1>16, <1>18, <1>19, <1>20, <1>21, <1>22 DEF Effects

(* A fetch ends in a navigation of its tab.                                *)
LEMMA ArriveStep ==
  ASSUME TypeOK, NEW c \in Calls, NEW b \in Tabs,
         NEW pg \in Pages, NEW who \in Users \cup {None},
         NEW token \in Tokens \cup {None}, store' = token,
         Navigate(b, tab[b], pg, who, token, Freed(c)),
         UNCHANGED <<account, session, seen, made, moves>>, StoreStep,
         \/ call[c].kind = "logout"
         \/ call[c].kind = "register" /\ pg = "verify" /\ who \in Users /\ call[c].user = who
  PROVE  TypeOK' /\ Effects
<1>1. PICK cs : cs = Freed(c)
  OBVIOUS
<1>2. cs \in [Calls -> CallType]
  BY <1>1, FreedLeaves
<1>3. PICK p \in TabType, dest \in Pages, whom \in Users \cup {None} :
        /\ Variant(p, b) /\ Moves(b, p, dest, whom, token, cs)
        /\ pg = "verify" /\ who \in Users => who \in Known(p)
  BY <1>1, VariantSelf, NavigateMoves
<1>4. /\ tab' \in [Tabs -> TabType] /\ call' \in [Calls -> CallType]
      /\ \A x \in Tabs : PageShape(tab'[x])
      /\ \A x \in Tabs : Stays(x) \/ Mounts(x)
      /\ Known(p) \subseteq Known(tab'[b])
      /\ \A d \in Calls :
           /\ call'[d].kind = cs[d].kind /\ call'[d].at = cs[d].at
           /\ call'[d].tab = cs[d].tab /\ call'[d].user = cs[d].user
           /\ call'[d].token = cs[d].token /\ (call'[d].here => cs[d].here)
  BY <1>2, <1>3, MovesLeaves
<1>5. \A d \in Calls \ {c} : Follows(d)
  BY <1>1, <1>4, FreedLeaves DEF Follows
<1>6. call'[c].kind = "none" /\ ~call'[c].here
  BY <1>1, <1>4, FreedLeaves
<1>7. Gone(c)
  BY <1>3, <1>4, <1>6 DEF Gone
<1>8. ServiceStep
  BY DEF ServiceStep
<1>9. TypeOK'
  BY <1>4, TypeParts, TypesKept
<1> QED BY <1>4, <1>5, <1>7, <1>8, <1>9 DEF Effects

LEMMA RegisterDoneStep ==
  ASSUME TypeOK, CallInv, NEW c \in Calls, RegisterDone(c)
  PROVE  TypeOK' /\ Effects
<1> USE ClientAssumption
<1>1. /\ call[c].kind = "register" /\ call[c].tab # None
      /\ UNCHANGED <<store, account, session, seen, made, moves>>
  BY DEF RegisterDone
<1>2. call[c].tab \in Tabs /\ call[c].user \in Users
  BY <1>1, TypeParts DEF CallType, CallInv
<1>3. PICK b \in Tabs : b = call[c].tab
  BY <1>2
<1>4. Navigate(b, tab[b], "verify", call[c].user, store, Freed(c))
  BY <1>3 DEF RegisterDone
<1>5. store \in Tokens \cup {None} /\ store' = store /\ "verify" \in Pages /\ StoreStep
  BY <1>1, TypeParts DEF Pages, StoreStep
<1>6. call[c].user \in Users \cup {None}
  BY <1>2
<1> QED BY <1>1, <1>2, <1>4, <1>5, <1>6, ArriveStep

LEMMA LogoutDoneStep ==
  ASSUME TypeOK, NEW c \in Calls, LogoutDone(c)
  PROVE  TypeOK' /\ Effects
<1> USE ClientAssumption
<1>1. /\ call[c].kind = "logout" /\ call[c].tab # None /\ call[c].at \in {"ok", "lost"}
      /\ store' = None /\ UNCHANGED <<account, session, seen, made, moves>>
  BY DEF LogoutDone
<1>2. call[c].tab \in Tabs
  BY <1>1, TypeParts DEF CallType
<1>3. PICK b \in Tabs : b = call[c].tab
  BY <1>2
<1>4. Navigate(b, tab[b], "login", None, None, Freed(c))
  BY <1>3 DEF LogoutDone
<1>5. Variant(tab[b], b)
  BY VariantSelf
<1>6. "login" \in Pages /\ StoreStep
  BY <1>1 DEF Pages, StoreStep
<1> QED BY <1>1, <1>4, <1>5, <1>6, ArriveStep

LEMMA IgnoredStep ==
  ASSUME TypeOK, AnswerInv, NEW c \in Calls, Ignored(c)
  PROVE  TypeOK' /\ Effects
<1>1. /\ call[c].tab = None /\ call' = Freed(c)
      /\ UNCHANGED <<tab, store, account, session, seen, made, moves>>
  BY DEF Ignored
<1>2. Gone(c)
  BY <1>1, FreedFollows DEF Gone, AnswerInv
<1>3. TypeOK'
  BY <1>1, FreedFollows, TabsStay, TypeParts, TypesKept
<1> QED BY <1>1, <1>2, <1>3, FreedFollows, TabsStay, ServiceStays DEF Effects

-----------------------------------------------------------------------------
(* The specification.                                                      *)

LEMMA StepEffects ==
  ASSUME TypeOK, HereInv, CallInv, StoreInv, AnswerInv, [Next]_vars
  PROVE  TypeOK' /\ Effects
<1>1. ASSUME NEW b \in Tabs, User(b) PROVE TypeOK' /\ Effects
  <2>1. CASE Reload(b)
    BY <2>1, ReloadStep
  <2>2. ASSUME NEW pg \in Pages,
               \/ Go(b, pg) \/ Open(b, pg)
               \/ \E i \in 0 .. Len(tab[b].trail), same \in BOOLEAN : Traverse(b, pg, i, same)
        PROVE  TypeOK' /\ Effects
    BY <2>2, GoStep, OpenStep, TraverseStep
  <2>3. CASE LoginForm(b) \/ RegistrationForm(b) \/ SubmitCode(b) \/ Logout(b)
    BY <2>3, FormStep DEF LoginForm, RegistrationForm
  <2>4. CASE ClickResend(b)
    BY <2>4, TimerStep
  <2>5. CASE LogoutWithout(b)
    BY <2>5, LogoutWithoutStep
  <2> QED BY <1>1, <2>1, <2>2, <2>3, <2>4, <2>5 DEF User, OtpVerificationForm, AuthHeader
<1>2. ASSUME NEW b \in Tabs, Timer(b) PROVE TypeOK' /\ Effects
  BY <1>2, TimerStep, RedirectedStep DEF Timer
<1>3. ASSUME NEW c \in Calls, Serve(c) PROVE TypeOK' /\ Effects
  BY <1>3, ServeLoginStep, AnswerStep DEF Serve
<1>4. ASSUME NEW c \in Calls, Receive(c) PROVE TypeOK' /\ Effects
  BY <1>4, ShowErrorStep, LoginDoneStep, RegisterDoneStep, VerifyDoneStep, LogoutDoneStep,
     IgnoredStep DEF Receive
<1>5. CASE UNCHANGED vars
  <2>1. UNCHANGED <<tab, call, store, account, session, seen, made, moves>>
    BY <1>5 DEF vars
  <2>2. \A c \in Calls : Follows(c)
    BY <2>1, CallStays
  <2>3. TypeOK'
    BY <2>1, TabsStay, TypeParts, TypesKept
  <2> QED BY <2>1, <2>2, <2>3, TabsStay, ServiceStays DEF Effects
<1> QED BY <1>1, <1>2, <1>3, <1>4, <1>5 DEF Next

LEMMA InitInv == Init => IInv
<1> SUFFICES ASSUME Init PROVE IInv
  OBVIOUS
<1> USE ClientAssumption
<1>1. PICK pg \in {"login", "register"} : tab = [b \in Tabs |-> [Blank EXCEPT !.page = pg]]
  BY DEF Init
<1>2. PICK blank : blank = [Blank EXCEPT !.page = pg]
  OBVIOUS
<1>3. /\ blank \in TabType /\ blank.page # "dashboard" /\ ~blank.verified
      /\ blank.resend = "off" /\ blank.asks = 0 /\ Placed(blank)
  <2>1. <<>> \in Seq(Users \cup {None}) /\ Len(<<>>) = 0
    OBVIOUS
  <2>2. blank = [page |-> pg, who |-> None, loading |-> FALSE, verified |-> FALSE,
                 resend |-> "off", asks |-> 0, orphans |-> 0, fetch |-> None,
                 profile |-> None, redirect |-> FALSE, stale |-> FALSE,
                 trail |-> <<>>, at |-> 0, dropped |-> {}]
    BY <1>2 DEF Blank
  <2>3. blank \in TabType
    BY <2>1, <2>2 DEF TabType, Pages
  <2>4. blank.at = 0 /\ blank.trail = <<>>
    BY <2>2
  <2>5. Placed(blank)
    BY <2>1, <2>4 DEF Placed
  <2> QED BY <2>2, <2>3, <2>5
<1>4. Free \in CallType /\ Free.kind = "none" /\ ~Free.here
  BY DEF Free, CallType
<1>5. /\ call = [c \in Calls |-> Free]
      /\ store = None /\ made = 0 /\ moves = 0
      /\ session = [t \in Tokens |-> [state |-> "none", user |-> None]]
      /\ seen = [register |-> FALSE, session |-> FALSE]
      /\ account \in [Users -> {"none", "active"}]
  BY DEF Init
<1>6. /\ tab \in [Tabs -> TabType] /\ \A b \in Tabs : tab[b] = blank
      /\ call \in [Calls -> CallType] /\ \A c \in Calls : call[c] = Free
  BY <1>1, <1>2, <1>3, <1>4, <1>5
<1>7. made \in 0 .. MaxCalls /\ moves \in 0 .. MaxMoves
  BY <1>5
<1>8. /\ session \in [Tokens -> [state : {"none", "live", "ended"}, user : Users \cup {None}]]
      /\ \A t \in Tokens : session[t].state = "none"
  BY <1>5
<1>9. TypeOK
  BY <1>3, <1>5, <1>6, <1>7, <1>8, TypeParts DEF PageShape
<1>10. HereInv /\ CallInv /\ AnswerInv
  BY <1>4, <1>6 DEF HereInv, CallInv, AnswerInv
<1>11. StoreInv /\ VerifiedIsActive /\ ProfileIsOwner
  BY <1>3, <1>5, <1>6 DEF StoreInv, VerifiedIsActive, ProfileIsOwner
<1>12. NoSessionLeftBehind /\ PendingIsReachable
  BY <1>5, <1>8 DEF NoSessionLeftBehind, PendingIsReachable
<1> QED BY <1>9, <1>10, <1>11, <1>12 DEF IInv

LEMMA InvNext == IInv /\ [Next]_vars => IInv'
<1> SUFFICES ASSUME IInv, [Next]_vars PROVE IInv'
  OBVIOUS
<1>1. TypeOK' /\ Effects
  BY StepEffects DEF IInv
<1> QED
  BY <1>1, HereNext, CallNext, StoreNext, AnswerNext, VerifiedNext, OwnerNext, SessionNext,
     ReachableNext DEF IInv

(* The inductive invariant.                                                *)
THEOREM InvHolds == Spec => []IInv
  BY InitInv, InvNext, PTL DEF Spec

(* TypeOK of ClientSession, for all its constants.                         *)
THEOREM TypeCorrect == Spec => []TypeOK
<1>1. IInv => TypeOK
  BY DEF IInv
<1> QED BY <1>1, InvHolds, PTL

(* "Email Verified!" is said only of an account that is active, unless a   *)
(* late registration has put another user on the page: whatever code or    *)
(* page a fetch was sent from, and however late it is answered.            *)
THEOREM VerifiedActive == Spec => []VerifiedIsActive
<1>1. IInv => VerifiedIsActive
  BY DEF IInv
<1> QED BY <1>1, InvHolds, PTL

(* The header names the user whose token the page uses, unless a session   *)
(* was stored while the page was shown.                                    *)
THEOREM ProfileOwned == Spec => []ProfileIsOwner
<1>1. IInv => ProfileIsOwner
  BY DEF IInv
<1> QED BY <1>1, InvHolds, PTL

(* The browser forgets no live session without its logout having been      *)
(* sent, unless answers were lost or crossed.                              *)
THEOREM NoneLeftBehind == Spec => []NoSessionLeftBehind
<1>1. IInv => NoSessionLeftBehind
  BY DEF IInv
<1> QED BY <1>1, InvHolds, PTL

(* A pending account's code page is in some tab's history, or will be,     *)
(* unless the answer to its registration was lost or an error, or the user *)
(* went back from the page and then elsewhere.                             *)
THEOREM PendingReachable == Spec => []PendingIsReachable
<1>1. IInv => PendingIsReachable
  BY DEF IInv
<1> QED BY <1>1, InvHolds, PTL

-----------------------------------------------------------------------------
(* The deletion page.  DeletionWizard has names of its own, so that it can *)
(* stand next to ClientSession here.                                       *)

PageType == [owner : Accounts, verified : BOOLEAN, modal : BOOLEAN, requesting : BOOLEAN,
             requestError : {"", "denied", "alreadyPending"},
             awaiting : BOOLEAN, confirming : BOOLEAN,
             confirmError : {"", "denied", "notFound", "expired", "invalid"},
             deleted : BOOLEAN]

FetchType == [kind : {"none", "login", "request", "confirm"},
              who : Accounts \cup {NoAccount},
              at : {"page", "service", "network"}, arg : BOOLEAN,
              answer : {"", "ok", "refused", "denied", "alreadyPending",
                        "notFound", "expired", "invalid"}]

RequestType == [row : {"none", "pending", "confirmed"}, expiresAt : Nat]

(* Each fetch is for an account.                                           *)
WhoInv == \A v \in Visits : fetch[v].kind # "none" => fetch[v].who \in Accounts

(* What the service can have answered; later visits have no fetch yet.     *)
FetchInv ==
  \A v \in Visits :
    /\ v > visit => fetch[v].kind = "none"
    /\ fetch[v].at = "network" =>
         /\ fetch[v].kind = "login" => fetch[v].answer \in {"ok", "refused"}
         /\ fetch[v].kind = "request" => fetch[v].answer \in {"ok", "denied", "alreadyPending"}
         /\ fetch[v].kind = "confirm" =>
              /\ fetch[v].answer \in {"ok", "denied", "notFound", "expired", "invalid"}
              /\ fetch[v].answer = "ok" => status[fetch[v].who] = "deleted"

(* The fetch of the visit is the one its page shows, and the steps of the  *)
(* page follow each other.                                                 *)
PageInv ==
  /\ fetch[visit].kind = "login" => ~page.verified
  /\ fetch[visit].kind = "request" => page.requesting
  /\ fetch[visit].kind = "confirm" => page.confirming
  /\ page.modal => page.verified /\ ~page.awaiting
  /\ page.requesting => page.modal
  /\ page.confirming => page.awaiting
  /\ page.awaiting => page.verified

(* A session of a deleted account is about to be removed.                  *)
Removing(v) ==
  fetch[v].kind = "confirm" /\ fetch[v].at = "network" /\ fetch[v].answer = "ok"

TokenInv ==
  \A a \in Accounts :
    status[a] = "deleted" /\ stored = a =>
      lost > 0 \/ a \in late \/ \E v \in Visits : Removing(v)

(* While a confirmation is under way the session is its own, or gone, or   *)
(* the crossing is on record.                                              *)
CrossInv ==
  \A v \in Visits :
    fetch[v].kind = "confirm" => stored \in {fetch[v].who, NoAccount} \/ v \in crossed

(* The first visit sends no second request once the service has its first. *)
FirstInv ==
  visit = 1 =>
    /\ page.requestError # "alreadyPending"
    /\ fetch[1].kind = "request" =>
         /\ fetch[1].at = "service" => \A a \in Accounts : request[a].row = "none"
         /\ fetch[1].answer # "alreadyPending"
    /\ (\E a \in Accounts : request[a].row # "none") =>
         \/ page.awaiting
         \/ fetch[1].kind = "request" /\ fetch[1].at = "network" /\ fetch[1].answer = "ok"
         \/ page.requesting /\ fetch[1].kind = "none"

WizardInv == PageTypeOK /\ FetchInv /\ PageInv /\ TokenInv /\ CrossInv /\ FirstInv

LEMMA WizardTypes ==
  PageTypeOK <=> /\ page \in PageType /\ visit \in Visits
                 /\ stored \in Accounts \cup {NoAccount}
                 /\ fetch \in [Visits -> FetchType] /\ WhoInv
                 /\ status \in [Accounts -> {"active", "deleted"}]
                 /\ request \in [Accounts -> RequestType]
                 /\ now \in Nat /\ lost \in Nat
                 /\ late \subseteq Accounts /\ crossed \subseteq Visits
  BY DEF PageTypeOK, PageType, FetchType, RequestType, WhoInv

LEMMA WizardTypesKept ==
  ASSUME page' \in PageType, visit' \in Visits, stored' \in Accounts \cup {NoAccount},
         fetch' \in [Visits -> FetchType], WhoInv',
         status' \in [Accounts -> {"active", "deleted"}],
         request' \in [Accounts -> RequestType],
         now' \in Nat, lost' \in Nat, late' \subseteq Accounts, crossed' \subseteq Visits
  PROVE  PageTypeOK'
  BY DEF PageTypeOK, PageType, FetchType, RequestType, WhoInv, Visits

LEMMA VisitNat ==
  ASSUME NEW v \in Visits
  PROVE  v \in Nat /\ ~(v > v)
  BY WizardAssumption DEF Visits

LEMMA NoCallRecord ==
  /\ NoCall \in FetchType /\ NoCall.kind = "none" /\ NoCall.at = "page"
  /\ NoCall.answer = ""
  BY DEF NoCall, FetchType

LEMMA FreshRecord ==
  ASSUME NEW a \in Accounts
  PROVE  LET p == Fresh(a) IN
  /\ p \in PageType /\ ~p.verified /\ ~p.modal /\ ~p.requesting /\ ~p.awaiting /\ ~p.confirming
  /\ p.requestError = ""
  BY DEF Fresh, PageType

LEMMA WizardInit == PageInit => WizardInv
<1> SUFFICES ASSUME PageInit PROVE WizardInv
  OBVIOUS
<1>1. MaxVisits \in Nat \ {0}
  BY WizardAssumption
<1>2. 1 \in Visits
  BY <1>1 DEF Visits
<1>3. /\ stored \in Accounts /\ page = Fresh(stored) /\ visit = 1
      /\ fetch = [v \in Visits |-> NoCall]
      /\ status = [a \in Accounts |-> "active"]
      /\ request = [a \in Accounts |-> [row |-> "none", expiresAt |-> 0]]
      /\ now = 0 /\ lost = 0 /\ late = {} /\ crossed = {}
  BY DEF PageInit
<1>4. fetch \in [Visits -> FetchType] /\ \A v \in Visits : fetch[v] = NoCall
  BY <1>3, NoCallRecord
<1>5. /\ request \in [Accounts -> RequestType] /\ \A a \in Accounts : request[a].row = "none"
      /\ status \in [Accounts -> {"active", "deleted"}]
      /\ \A a \in Accounts : status[a] = "active"
  BY <1>3 DEF RequestType
<1>9. WhoInv
  BY <1>4, NoCallRecord DEF WhoInv
<1>6. PageTypeOK
  BY <1>2, <1>3, <1>4, <1>5, <1>9, FreshRecord, WizardTypes
<1>7. FetchInv /\ PageInv
  BY <1>2, <1>3, <1>4, NoCallRecord, FreshRecord DEF FetchInv, PageInv
<1>8. TokenInv /\ CrossInv /\ FirstInv
  BY <1>2, <1>3, <1>4, <1>5, NoCallRecord, FreshRecord DEF TokenInv, CrossInv, FirstInv
<1> QED BY <1>6, <1>7, <1>8 DEF WizardInv

(* A button that sends a fetch of the visit.                               *)
LEMMA FetchStep ==
  ASSUME WizardInv,
         NEW kind \in {"login", "request", "confirm"}, NEW who \in Accounts, NEW arg \in BOOLEAN,
         Fetch(kind, who, arg), fetch[visit].kind = "none",
         UNCHANGED <<visit, stored, status, request, now, lost, late>>,
         crossed' \in {crossed, crossed \ {visit}}, kind # "confirm" => crossed' = crossed,
         page' \in PageType, page'.verified = page.verified, page'.modal = page.modal,
         page'.awaiting = page.awaiting,
         page.requesting => page'.requesting, page.confirming => page'.confirming,
         page'.requesting => page'.modal, page'.confirming => page'.awaiting,
         page'.requestError \in {page.requestError, ""},
         kind = "login" => ~page.verified,
         kind = "request" => page'.requesting /\ ~page.requesting /\ page.modal,
         kind = "confirm" => page'.confirming /\ who = stored
  PROVE  WizardInv'
<1>1. /\ page \in PageType /\ visit \in Visits /\ fetch \in [Visits -> FetchType]
      /\ WizardInv
  BY WizardTypes DEF WizardInv
<1>2. PICK n : n = [kind |-> kind, who |-> who, at |-> "service", arg |-> arg, answer |-> ""]
  OBVIOUS
<1>3. n \in FetchType /\ n.kind = kind /\ n.who = who /\ n.at = "service" /\ n.answer = ""
  BY <1>2 DEF FetchType
<1>4. fetch' = [fetch EXCEPT ![visit] = n]
  BY <1>2 DEF Fetch
<1>5. /\ fetch' \in [Visits -> FetchType] /\ fetch'[visit] = n
      /\ \A v \in Visits \ {visit} : fetch'[v] = fetch[v]
  BY ONLY <1>1, <1>3, <1>4
<1>6. PageTypeOK'
  <2>1. WhoInv'
    BY <1>1, <1>3, <1>5, WizardTypes DEF WhoInv, WizardInv, Visits
  <2> QED BY <1>1, <1>5, <2>1, WizardTypes, WizardTypesKept DEF WizardInv, Visits
<1>7. FetchInv'
  <2>1. ~(visit > visit)
    BY <1>1, VisitNat
  <2>2. ~(visit' > visit') /\ visit' = visit /\ status' = status
    BY <2>1
  <2>3. ASSUME NEW v \in Visits, v > visit \/ fetch'[v].at = "network"
        PROVE  v # visit
    BY <1>3, <1>5, <2>2, <2>3
  <2>4. ASSUME NEW v \in Visits, v # visit PROVE fetch'[v] = fetch[v]
    BY <1>5, <2>4
  <2> QED BY <1>1, <2>2, <2>3, <2>4 DEF FetchInv, WizardInv, Visits
<1>8. PageInv'
  BY <1>1, <1>3, <1>5 DEF PageInv, WizardInv
<1>9. TokenInv'
  BY <1>1, <1>3, <1>5 DEF TokenInv, Removing, WizardInv, Visits
<1>11. CrossInv'
  BY <1>1, <1>3, <1>5 DEF CrossInv, WizardInv, Visits
<1>10. FirstInv'
  BY <1>1, <1>3, <1>5 DEF FirstInv, PageInv, WizardInv, Visits
<1> QED BY <1>6, <1>7, <1>8, <1>9, <1>10, <1>11 DEF WizardInv

LEMMA ButtonStep ==
  ASSUME WizardInv, NEW who \in Accounts, NEW arg \in BOOLEAN,
         SubmitPassword(who, arg) \/ SendCode(arg) \/ SendRequest
  PROVE  WizardInv'
<1>1. page \in PageType /\ visit \in Visits /\ stored \in Accounts \cup {NoAccount}
  BY WizardTypes DEF WizardInv
<1>5. fetch[visit].kind \in {"none", "login", "request", "confirm"}
  BY WizardTypes DEF WizardInv, FetchType
<1>2. CASE SubmitPassword(who, arg)
  BY <1>1, <1>2, FetchStep DEF SubmitPassword, Idle, service, history, WizardInv, PageInv
<1>3. CASE SendCode(arg)
  <2>1. page' = [page EXCEPT !.confirming = TRUE, !.confirmError = ""]
    BY <1>3 DEF SendCode
  <2>2. /\ page' \in PageType /\ page'.verified = page.verified /\ page'.modal = page.modal
        /\ page'.awaiting = page.awaiting /\ page'.requesting = page.requesting
        /\ page'.requestError = page.requestError /\ page'.confirming
    BY <1>1, <2>1 DEF PageType
  <2>3. /\ Fetch("confirm", stored, arg) /\ page.awaiting /\ ~page.confirming
        /\ stored \in Accounts /\ crossed' = crossed \ {visit}
        /\ UNCHANGED <<visit, stored, status, request, now, lost, late>>
    BY <1>1, <1>3 DEF SendCode, service
  <2>4. fetch[visit].kind = "none"
    BY <1>5, <2>3 DEF WizardInv, PageInv
  <2> QED BY <2>2, <2>3, <2>4, FetchStep DEF WizardInv, PageInv
<1>4. CASE SendRequest
  <2>1. page' = [page EXCEPT !.requesting = TRUE, !.requestError = ""]
    BY <1>4 DEF SendRequest
  <2>2. /\ page' \in PageType /\ page'.verified = page.verified /\ page'.modal = page.modal
        /\ page'.awaiting = page.awaiting /\ page'.requesting
        /\ page'.requestError = "" /\ page'.confirming = page.confirming
    BY <1>1, <2>1 DEF PageType
  <2>3. /\ Fetch("request", stored, FALSE) /\ page.modal /\ ~page.requesting
        /\ stored \in Accounts
        /\ UNCHANGED <<visit, stored, status, request, now, lost, late, crossed>>
    BY <1>1, <1>4 DEF SendRequest, service, history
  <2>4. fetch[visit].kind = "none"
    BY <1>5, <2>3 DEF WizardInv, PageInv
  <2> QED BY <2>2, <2>3, <2>4, FetchStep DEF WizardInv, PageInv
<1> QED BY <1>2, <1>3, <1>4

LEMMA ModalStep ==
  ASSUME WizardInv, OpenModal \/ CloseModal
  PROVE  WizardInv'
<1>1. page \in PageType
  BY WizardTypes DEF WizardInv
<1>2. PICK m \in BOOLEAN : page' = [page EXCEPT !.requestError = "", !.modal = m]
  BY DEF OpenModal, CloseModal
<1>3. /\ page' \in PageType /\ page'.verified = page.verified /\ page'.modal = m
      /\ page'.awaiting = page.awaiting /\ page'.requesting = page.requesting
      /\ page'.requestError = "" /\ page'.confirming = page.confirming
  BY <1>1, <1>2 DEF PageType
<1>4. /\ m => page.verified /\ ~page.awaiting
      /\ ~m => ~page.requesting
      /\ UNCHANGED <<visit, stored, fetch, status, request, now, lost, late, crossed>>
  <2>1. page'.modal = m
    BY <1>3
  <2>2. CASE OpenModal
    BY <2>1, <2>2, <1>1 DEF OpenModal, PageType, service, history
  <2>3. CASE CloseModal
    BY <2>1, <2>3, <1>1 DEF CloseModal, PageType, service, history
  <2> QED BY <2>2, <2>3
<1>5. PageTypeOK'
  BY <1>3, <1>4, WizardTypes, WizardTypesKept DEF WizardInv, WhoInv, Visits
<1>6. PageInv'
  BY <1>3, <1>4 DEF PageInv, WizardInv
<1>7. FetchInv' /\ TokenInv' /\ CrossInv'
  BY <1>4 DEF FetchInv, TokenInv, Removing, CrossInv, WizardInv, Visits
<1>8. FirstInv'
  BY <1>3, <1>4 DEF FirstInv, WizardInv
<1> QED BY <1>5, <1>6, <1>7, <1>8 DEF WizardInv

LEMMA RevisitStep ==
  ASSUME WizardInv, Revisit
  PROVE  WizardInv'
<1>1. /\ visit \in Visits /\ MaxVisits \in Nat /\ visit < MaxVisits /\ visit' = visit + 1
      /\ stored \in Accounts /\ page' = Fresh(stored)
      /\ UNCHANGED <<stored, fetch, status, request, now, lost, late, crossed>>
  BY WizardAssumption DEF Revisit, WizardInv, PageTypeOK, service, history
<1>2. visit \in Nat /\ visit' \in Visits /\ visit' > visit /\ visit' # 1
  BY <1>1 DEF Visits
<1>3. fetch'[visit'].kind = "none"
  BY <1>1, <1>2 DEF FetchInv, WizardInv
<1>4. PageTypeOK'
  BY <1>1, <1>2, FreshRecord, WizardTypes, WizardTypesKept DEF WizardInv, WhoInv, Visits
<1>5. PageInv'
  BY <1>1, <1>3, FreshRecord DEF PageInv
<1>6. FetchInv'
  <2>1. ASSUME NEW v \in Visits, v > visit' PROVE v > visit
    BY <1>1, <1>2, <2>1 DEF Visits
  <2> QED BY <1>1, <2>1 DEF FetchInv, WizardInv, Visits
<1>7. TokenInv' /\ CrossInv' /\ FirstInv'
  BY <1>1, <1>2 DEF TokenInv, Removing, CrossInv, FirstInv, WizardInv, Visits
<1> QED BY <1>4, <1>5, <1>6, <1>7 DEF WizardInv

LEMMA SignInStep ==
  ASSUME WizardInv, NEW a \in Accounts, SignIn(a)
  PROVE  WizardInv'
<1>1. /\ stored' = a
      /\ late' = IF status[a] = "deleted" THEN late \cup {a} ELSE late
      /\ crossed' = crossed \cup {v \in Visits : fetch[v].kind = "confirm" /\ fetch[v].who # a}
      /\ UNCHANGED <<page, visit, fetch, status, request, now, lost>>
  BY DEF SignIn, Crossing, service
<1>2. PageTypeOK'
  BY <1>1, WizardTypes, WizardTypesKept DEF WizardInv, WhoInv, Visits
<1>3. FetchInv' /\ PageInv' /\ FirstInv'
  BY <1>1 DEF FetchInv, PageInv, FirstInv, WizardInv, Visits
<1>4. TokenInv' /\ CrossInv'
  BY <1>1 DEF TokenInv, CrossInv, WizardInv, Visits
<1> QED BY <1>2, <1>3, <1>4 DEF WizardInv

LEMMA TickStep == ASSUME WizardInv, Tick PROVE WizardInv'
<1>1. now' = now + 1 /\ UNCHANGED <<page, visit, stored, fetch, status, request, lost, late, crossed>>
  BY DEF Tick, service, history
<1>2. PageTypeOK'
  <2>1. now \in Nat
    BY WizardTypes DEF WizardInv
  <2>2. now' \in Nat
    BY ONLY <1>1, <2>1
  <2> QED BY <1>1, <2>2, WizardTypes, WizardTypesKept DEF WizardInv, WhoInv, Visits
<1> QED BY <1>1, <1>2 DEF WizardInv, FetchInv, PageInv, TokenInv, Removing,
                            CrossInv, FirstInv, Visits

(* The service answers a fetch.                                            *)
LEMMA AnsweredLeaves ==
  ASSUME WizardInv, NEW v \in Visits,
         NEW answer \in {"ok", "refused", "denied", "alreadyPending", "notFound", "expired",
                         "invalid"},
         Answered(v, answer)
  PROVE  /\ fetch' \in [Visits -> FetchType]
         /\ \A w \in Visits \ {v} : fetch'[w] = fetch[w]
         /\ fetch'[v].kind = fetch[v].kind /\ fetch'[v].who = fetch[v].who
         /\ fetch'[v].at = "network" /\ fetch'[v].answer = answer
<1>1. fetch \in [Visits -> FetchType]
  BY WizardTypes DEF WizardInv
<1>2. PICK n : n = [fetch[v] EXCEPT !.at = "network", !.answer = answer]
  OBVIOUS
<1>3. n \in FetchType /\ n.kind = fetch[v].kind /\ n.who = fetch[v].who
      /\ n.at = "network" /\ n.answer = answer
  BY <1>1, <1>2 DEF FetchType
<1>4. fetch' = [fetch EXCEPT ![v] = n]
  BY <1>1, <1>2 DEF Answered, FetchType
<1> QED BY ONLY <1>1, <1>3, <1>4

LEMMA OnlyFirst ==
  ASSUME WizardInv, visit = 1,
         NEW v \in Visits, fetch[v].kind # "none"
  PROVE  v = 1
<1>1. v \in Nat /\ v >= 1
  BY WizardAssumption DEF Visits
<1>2. ~(v > 1)
  BY DEF WizardInv, FetchInv
<1> QED BY ONLY <1>1, <1>2

(* The three handlers of the service, apart from what they decide.         *)
LEMMA ServedInv ==
  ASSUME WizardInv, NEW v \in Visits,
         NEW answer \in {"ok", "refused", "denied", "alreadyPending", "notFound", "expired",
                         "invalid"},
         Answered(v, answer), fetch[v].kind # "none", fetch[v].at = "service",
         UNCHANGED <<page, visit, stored, now, lost, late, crossed>>,
         status' \in [Accounts -> {"active", "deleted"}],
         status' # status => fetch[v].kind = "confirm" /\ answer = "ok",
         \A a \in Accounts : status[a] = "deleted" => status'[a] = "deleted",
         request' \in [Accounts -> RequestType],
         fetch[v].kind = "login" => answer \in {"ok", "refused"},
         fetch[v].kind = "request" => answer \in {"ok", "denied", "alreadyPending"},
         fetch[v].kind = "confirm" =>
           /\ answer \in {"ok", "denied", "notFound", "expired", "invalid"}
           /\ answer = "ok" => status'[fetch[v].who] = "deleted"
  PROVE  PageTypeOK' /\ FetchInv' /\ PageInv' /\ TokenInv' /\ CrossInv'
<1>1. /\ fetch' \in [Visits -> FetchType]
      /\ \A w \in Visits \ {v} : fetch'[w] = fetch[w]
      /\ fetch'[v].kind = fetch[v].kind /\ fetch'[v].who = fetch[v].who
      /\ fetch'[v].at = "network" /\ fetch'[v].answer = answer
  BY AnsweredLeaves
<1>2. visit \in Visits
  BY WizardTypes DEF WizardInv
<1>3. PageTypeOK'
  BY <1>1, WizardTypes, WizardTypesKept DEF WizardInv, WhoInv, Visits
<1>4. FetchInv'
  <2>1. ASSUME NEW w \in Visits, w # v
        PROVE  /\ w > visit' => fetch'[w].kind = "none"
               /\ fetch'[w].at = "network" =>
                    /\ fetch'[w].kind = "login" => fetch'[w].answer \in {"ok", "refused"}
                    /\ fetch'[w].kind = "request" =>
                         fetch'[w].answer \in {"ok", "denied", "alreadyPending"}
                    /\ fetch'[w].kind = "confirm" =>
                         /\ fetch'[w].answer \in {"ok", "denied", "notFound", "expired", "invalid"}
                         /\ fetch'[w].answer = "ok" => status'[fetch'[w].who] = "deleted"
    <3>1. fetch'[w] = fetch[w] /\ (fetch[w].kind = "confirm" => fetch[w].who \in Accounts)
      BY <1>1, <2>1, WizardTypes DEF WizardInv, WhoInv
    <3> QED BY <3>1 DEF FetchInv, WizardInv
  <2>2. ~(v > visit')
    BY DEF FetchInv, WizardInv
  <2> QED BY <1>1, <2>1, <2>2 DEF FetchInv, Visits
<1>5. PageInv'
  <2>1. fetch'[visit].kind = fetch[visit].kind
    BY <1>1, <1>2
  <2> QED BY <2>1 DEF PageInv, WizardInv
<1>6. TokenInv'
  <2> SUFFICES ASSUME NEW a \in Accounts, status'[a] = "deleted", stored' = a,
                      ~(lost' > 0), a \notin late'
               PROVE  \E w \in Visits : fetch'[w].kind = "confirm" /\ fetch'[w].at = "network"
                                        /\ fetch'[w].answer = "ok"
    BY DEF TokenInv, Removing, Visits
  <2>1. CASE status' # status
    BY <1>1, <2>1
  <2>2. CASE status' = status
    <3>1. PICK w \in Visits :
            fetch[w].kind = "confirm" /\ fetch[w].at = "network" /\ fetch[w].answer = "ok"
      BY <2>2 DEF TokenInv, Removing, WizardInv
    <3> QED BY <1>1, <3>1
  <2> QED BY <2>1, <2>2
<1>7. CrossInv'
  BY <1>1 DEF CrossInv, WizardInv, Visits
<1> QED BY <1>3, <1>4, <1>5, <1>6, <1>7

LEMMA ServeStep ==
  ASSUME WizardInv, NEW v \in Visits, ServeFetch(v)
  PROVE  WizardInv'
<1>1. /\ page \in PageType /\ visit \in Visits
      /\ status \in [Accounts -> {"active", "deleted"}] /\ now \in Nat
      /\ request \in [Accounts -> RequestType]
      /\ fetch[v].kind # "none" => fetch[v].who \in Accounts
  BY WizardTypes DEF WizardInv, WhoInv
<1>2. CASE ServePassword(v)
  <2>1. PICK answer \in {"ok", "refused"} : Answered(v, answer)
    BY <1>2 DEF ServePassword, LoginAnswer
  <2>2. /\ fetch[v].kind = "login" /\ fetch[v].at = "service"
        /\ UNCHANGED <<page, visit, stored, status, request, now, lost, late, crossed>>
    BY <1>2 DEF ServePassword, service, history
  <2>3. PageTypeOK' /\ FetchInv' /\ PageInv' /\ TokenInv' /\ CrossInv'
    BY <1>1, <2>1, <2>2, ServedInv
  <2>4. FirstInv'
    <3>1. visit = 1 => v = 1
      BY <2>2, OnlyFirst
    <3> QED BY <1>1, <2>1, <2>2, <3>1, AnsweredLeaves DEF FirstInv, WizardInv
  <2> QED BY <2>3, <2>4 DEF WizardInv
<1>3. CASE ServeRequest(v)
  <2>0. PICK a : a = fetch[v].who
    OBVIOUS
  <2>1. PICK answer \in {"ok", "denied", "alreadyPending"} : answer = RequestAnswer(a)
    BY DEF RequestAnswer
  <2>2. /\ fetch[v].kind = "request" /\ fetch[v].at = "service" /\ Answered(v, answer)
        /\ request' = IF answer = "ok"
                      THEN [request EXCEPT ![a] = [row |-> "pending", expiresAt |-> now + Ttl]]
                      ELSE request
        /\ UNCHANGED <<page, visit, stored, status, now, lost, late, crossed>>
    BY <1>3, <2>0, <2>1 DEF ServeRequest, history
  <2>7. a \in Accounts
    BY <1>1, <2>0, <2>2
  <2>3. request' \in [Accounts -> RequestType]
    <3>1. now + Ttl \in Nat
      BY <1>1, WizardAssumption
    <3>2. [row |-> "pending", expiresAt |-> now + Ttl] \in RequestType
      BY <3>1 DEF RequestType
    <3> QED BY <1>1, <2>2, <3>2
  <2>4. PageTypeOK' /\ FetchInv' /\ PageInv' /\ TokenInv' /\ CrossInv'
    BY <1>1, <2>1, <2>2, <2>3, ServedInv
  <2>5. answer = "alreadyPending" => request[a].row = "pending"
    BY <2>1 DEF RequestAnswer
  <2>6. FirstInv'
    <3>1. visit = 1 => v = 1
      BY <2>2, OnlyFirst
    <3> QED BY <1>1, <2>2, <2>5, <2>7, <3>1, AnsweredLeaves DEF FirstInv, WizardInv
  <2> QED BY <2>4, <2>6 DEF WizardInv
<1>4. CASE ServeConfirm(v)
  <2>0. PICK a : a = fetch[v].who
    OBVIOUS
  <2>1. PICK answer \in {"ok", "denied", "notFound", "expired", "invalid"} :
          answer = ConfirmAnswer(a, fetch[v].arg)
    BY DEF ConfirmAnswer
  <2>2. /\ fetch[v].kind = "confirm" /\ fetch[v].at = "service" /\ Answered(v, answer)
        /\ status' = IF answer = "ok" THEN [status EXCEPT ![a] = "deleted"] ELSE status
        /\ request' = IF answer = "ok" THEN [request EXCEPT ![a].row = "confirmed"] ELSE request
        /\ UNCHANGED <<page, visit, stored, now, lost, late, crossed>>
    BY <1>4, <2>0, <2>1 DEF ServeConfirm, history
  <2>7. a \in Accounts
    BY <1>1, <2>0, <2>2
  <2>3. /\ request' \in [Accounts -> RequestType]
        /\ \A b \in Accounts \ {a} : request'[b] = request[b]
    <3>1. PICK q : q = [request[a] EXCEPT !.row = "confirmed"]
      OBVIOUS
    <3>2. q \in RequestType
      BY <1>1, <2>7, <3>1 DEF RequestType
    <3>3. request' = IF answer = "ok" THEN [request EXCEPT ![a] = q] ELSE request
      BY <2>2, <3>1
    <3> QED BY ONLY <1>1, <3>2, <3>3
  <2>8. /\ status' \in [Accounts -> {"active", "deleted"}]
        /\ \A b \in Accounts : status[b] = "deleted" => status'[b] = "deleted"
        /\ answer = "ok" => status'[a] = "deleted"
    BY <1>1, <2>2, <2>7
  <2>4. PageTypeOK' /\ FetchInv' /\ PageInv' /\ TokenInv' /\ CrossInv'
    BY <1>1, <2>0, <2>1, <2>2, <2>3, <2>8, ServedInv
  <2>5. answer = "ok" => request[a].row = "pending"
    BY <2>1 DEF ConfirmAnswer
  <2>9. (\E b \in Accounts : request'[b].row # "none") =>
          \E b \in Accounts : request[b].row # "none"
    BY <2>2, <2>3, <2>5, <2>7
  <2>6. FirstInv'
    <3>1. visit = 1 => v = 1
      BY <2>2, OnlyFirst
    <3> QED BY <1>1, <2>2, <2>9, <3>1, AnsweredLeaves DEF FirstInv, WizardInv
  <2> QED BY <2>4, <2>6 DEF WizardInv
<1> QED BY <1>2, <1>3, <1>4 DEF ServeFetch

(* A fetch ends.                                                           *)
LEMMA EndedInv ==
  ASSUME WizardInv, NEW v \in Visits, Ended(v), UNCHANGED <<visit, status>>
  PROVE  /\ fetch' \in [Visits -> FetchType]
         /\ \A w \in Visits \ {v} : fetch'[w] = fetch[w]
         /\ fetch'[v].kind = "none" /\ FetchInv' /\ WhoInv'
<1>1. fetch \in [Visits -> FetchType]
  BY WizardTypes DEF WizardInv
<1>2. /\ fetch' \in [Visits -> FetchType] /\ fetch'[v] = NoCall
      /\ \A w \in Visits \ {v} : fetch'[w] = fetch[w]
  BY <1>1, NoCallRecord DEF Ended
<1>3. fetch'[v].kind = "none" /\ fetch'[v].at = "page"
  BY <1>2, NoCallRecord
<1>4. FetchInv'
  BY <1>2, <1>3 DEF FetchInv, WizardInv, Visits
<1>5. WhoInv'
  BY <1>2, <1>3, WizardTypes DEF WizardInv, WhoInv, Visits
<1> QED BY <1>2, <1>3, <1>4, <1>5

(* The session, when a fetch ends.                                         *)
LEMMA TokenKept ==
  ASSUME WizardInv, NEW v \in Visits, Ended(v), UNCHANGED <<visit, status, lost>>,
         late \subseteq late', crossed \subseteq crossed',
         \/ stored' = NoAccount
         \/ stored' = stored /\ ~(fetch[v].kind = "confirm" /\ fetch[v].answer = "ok")
         \/ /\ stored' \in Accounts
            /\ status[stored'] = "deleted" => stored' \in late'
            /\ \A w \in Visits : fetch[w].kind = "confirm" /\ fetch[w].who # stored'
                                  => w \in crossed'
  PROVE  TokenInv' /\ CrossInv'
<1>1. /\ \A w \in Visits \ {v} : fetch'[w] = fetch[w]
      /\ fetch'[v].kind = "none"
  BY EndedInv
<1>2. TokenInv'
  <2> SUFFICES ASSUME NEW a \in Accounts, status'[a] = "deleted", stored' = a,
                      ~(lost' > 0), a \notin late'
               PROVE  \E w \in Visits : fetch'[w].kind = "confirm" /\ fetch'[w].at = "network"
                                        /\ fetch'[w].answer = "ok"
    BY DEF TokenInv, Removing, Visits
  <2>1. stored' = stored /\ ~(fetch[v].kind = "confirm" /\ fetch[v].answer = "ok")
    BY WizardAssumption
  <2>2. PICK w \in Visits :
          fetch[w].kind = "confirm" /\ fetch[w].at = "network" /\ fetch[w].answer = "ok"
    BY <2>1 DEF TokenInv, Removing, WizardInv
  <2> QED BY <1>1, <2>1, <2>2
<1>3. CrossInv'
  BY <1>1 DEF CrossInv, WizardInv, Visits
<1> QED BY <1>2, <1>3

LEMMA ReceiveStep ==
  ASSUME WizardInv, NEW v \in Visits, ReceiveAnswer(v)
  PROVE  WizardInv'
<1>1. /\ page \in PageType /\ visit \in Visits /\ stored \in Accounts \cup {NoAccount}
      /\ status \in [Accounts -> {"active", "deleted"}]
      /\ late \subseteq Accounts /\ crossed \subseteq Visits
      /\ fetch[v].kind # "none" => fetch[v].who \in Accounts
  BY WizardTypes DEF WizardInv, WhoInv
<1>2. CASE LoginAnswered(v)
  <2>1. /\ fetch[v].kind = "login" /\ fetch[v].at = "network" /\ Ended(v)
        /\ UNCHANGED <<visit, status, request, now, lost>>
    BY <1>2 DEF LoginAnswered, service
  <2>9. PICK a \in Accounts, ok \in BOOLEAN :
          /\ stored' = IF ok THEN a ELSE stored
          /\ late' = IF ok /\ status[a] # "active" THEN late \cup {a} ELSE late
          /\ crossed' = IF ok
                        THEN crossed \cup {w \in Visits : fetch[w].kind = "confirm"
                                                          /\ fetch[w].who # a}
                        ELSE crossed
    BY <1>1, <1>2 DEF LoginAnswered, Denied, Crossing
  <2>2. /\ fetch' \in [Visits -> FetchType]
        /\ \A w \in Visits \ {v} : fetch'[w] = fetch[w]
        /\ fetch'[v].kind = "none" /\ FetchInv' /\ WhoInv'
    BY <2>1, EndedInv
  <2>3. PICK good \in BOOLEAN : page' = IF v = visit THEN [page EXCEPT !.verified = good] ELSE page
    <3>1. page.verified \in BOOLEAN
      BY <1>1 DEF PageType
    <3> QED BY <1>2, <3>1 DEF LoginAnswered, OnPage
  <2>4. /\ page' \in PageType /\ page'.modal = page.modal /\ page'.awaiting = page.awaiting
        /\ page'.requesting = page.requesting /\ page'.confirming = page.confirming
        /\ page'.requestError = page.requestError
        /\ v # visit => page' = page
    BY <1>1, <2>3 DEF PageType
  <2>5. PageTypeOK'
    BY <1>1, <2>1, <2>2, <2>4, <2>9, WizardTypes, WizardTypesKept DEF WizardInv, Visits
  <2>6. PageInv'
    <3>1. CASE v = visit
      BY <1>1, <2>1, <2>2, <2>4, <3>1 DEF PageInv, WizardInv
    <3>2. CASE v # visit
      BY <1>1, <2>1, <2>2, <2>4, <3>2 DEF PageInv, WizardInv
    <3> QED BY <3>1, <3>2
  <2>7. TokenInv' /\ CrossInv'
    BY <1>1, <2>1, <2>9, TokenKept
  <2>8. FirstInv'
    <3>1. visit = 1 => v = 1
      BY <2>1, OnlyFirst
    <3> QED BY <1>1, <2>1, <2>2, <2>4, <3>1 DEF FirstInv, WizardInv
  <2> QED BY <2>2, <2>5, <2>6, <2>7, <2>8 DEF WizardInv
<1>3. CASE RequestAnswered(v)
  <2>1. /\ fetch[v].kind = "request" /\ fetch[v].at = "network" /\ Ended(v)
        /\ UNCHANGED <<visit, stored, status, request, now, lost, late, crossed>>
    BY <1>3 DEF RequestAnswered, service, history
  <2>2. /\ fetch' \in [Visits -> FetchType]
        /\ \A w \in Visits \ {v} : fetch'[w] = fetch[w]
        /\ fetch'[v].kind = "none" /\ FetchInv' /\ WhoInv'
    BY <2>1, EndedInv
  <2>3. page' = IF v = visit
                THEN IF fetch[v].answer = "ok"
                     THEN [page EXCEPT !.requesting = FALSE, !.modal = FALSE, !.awaiting = TRUE]
                     ELSE [page EXCEPT !.requesting = FALSE, !.requestError = fetch[v].answer]
                ELSE page
    BY <1>3 DEF RequestAnswered, OnPage
  <2>4. fetch[v].answer \in {"ok", "denied", "alreadyPending"}
    BY <2>1 DEF FetchInv, WizardInv
  <2>5. /\ page' \in PageType /\ page'.verified = page.verified
        /\ page'.confirming = page.confirming
        /\ v # visit => page' = page
        /\ v = visit /\ fetch[v].answer = "ok" =>
             ~page'.requesting /\ ~page'.modal /\ page'.awaiting
             /\ page'.requestError = page.requestError
        /\ v = visit /\ fetch[v].answer # "ok" =>
             ~page'.requesting /\ page'.modal = page.modal /\ page'.awaiting = page.awaiting
             /\ page'.requestError = fetch[v].answer
    BY <1>1, <2>3, <2>4 DEF PageType
  <2>6. PageTypeOK'
    BY <1>1, <2>1, <2>2, <2>5, WizardTypes, WizardTypesKept DEF WizardInv, Visits
  <2>7. PageInv'
    <3>1. CASE v = visit
      BY <1>1, <2>1, <2>2, <2>5, <3>1 DEF PageInv, WizardInv
    <3>2. CASE v # visit
      BY <1>1, <2>1, <2>2, <2>5, <3>2 DEF PageInv, WizardInv
    <3> QED BY <3>1, <3>2
  <2>8. TokenInv' /\ CrossInv'
    BY <1>1, <2>1, TokenKept
  <2>9. FirstInv'
    <3>1. visit = 1 => v = 1
      BY <2>1, OnlyFirst
    <3> QED BY <1>1, <2>1, <2>2, <2>5, <3>1 DEF FirstInv, WizardInv
  <2> QED BY <2>2, <2>6, <2>7, <2>8, <2>9 DEF WizardInv
<1>4. CASE ConfirmAnswered(v)
  <2>1. /\ fetch[v].kind = "confirm" /\ fetch[v].at = "network" /\ Ended(v)
        /\ stored' = IF fetch[v].answer = "ok" THEN NoAccount ELSE stored
        /\ UNCHANGED <<visit, status, request, now, lost, late, crossed>>
    BY <1>4 DEF ConfirmAnswered, service, history
  <2>2. /\ fetch' \in [Visits -> FetchType]
        /\ \A w \in Visits \ {v} : fetch'[w] = fetch[w]
        /\ fetch'[v].kind = "none" /\ FetchInv' /\ WhoInv'
    BY <2>1, EndedInv
  <2>3. page' = IF v = visit
                THEN IF fetch[v].answer = "ok"
                     THEN [page EXCEPT !.confirming = FALSE, !.deleted = TRUE]
                     ELSE [page EXCEPT !.confirming = FALSE, !.confirmError = fetch[v].answer]
                ELSE page
    BY <1>4 DEF ConfirmAnswered, OnPage
  <2>4. fetch[v].answer \in {"ok", "denied", "notFound", "expired", "invalid"}
    BY <2>1 DEF FetchInv, WizardInv
  <2>5. /\ page' \in PageType /\ page'.verified = page.verified
        /\ page'.modal = page.modal /\ page'.awaiting = page.awaiting
        /\ page'.requesting = page.requesting /\ page'.requestError = page.requestError
        /\ v # visit => page' = page
        /\ v = visit => ~page'.confirming
    BY <1>1, <2>3, <2>4 DEF PageType
  <2>6. PageTypeOK'
    BY <1>1, <2>1, <2>2, <2>5, WizardTypes, WizardTypesKept DEF WizardInv, Visits
  <2>7. PageInv'
    <3>1. CASE v = visit
      BY <1>1, <2>1, <2>2, <2>5, <3>1 DEF PageInv, WizardInv
    <3>2. CASE v # visit
      BY <1>1, <2>1, <2>2, <2>5, <3>2 DEF PageInv, WizardInv
    <3> QED BY <3>1, <3>2
  <2>8. TokenInv' /\ CrossInv'
    BY <1>1, <2>1, TokenKept
  <2>9. FirstInv'
    <3>1. visit = 1 => v = 1
      BY <2>1, OnlyFirst
    <3> QED BY <1>1, <2>1, <2>2, <2>5, <3>1 DEF FirstInv, WizardInv
  <2> QED BY <2>2, <2>6, <2>7, <2>8, <2>9 DEF WizardInv
<1> QED BY <1>2, <1>3, <1>4 DEF ReceiveAnswer

LEMMA LoseStep ==
  ASSUME WizardInv, NEW v \in Visits, LoseFetch(v)
  PROVE  WizardInv'
<1>1. /\ fetch[v].kind # "none" /\ lost' = lost + 1 /\ Ended(v)
      /\ UNCHANGED <<page, visit, stored, status, request, now, late, crossed>>
  BY DEF LoseFetch, service, history
<1>2. /\ fetch' \in [Visits -> FetchType]
      /\ \A w \in Visits \ {v} : fetch'[w] = fetch[w]
      /\ fetch'[v].kind = "none" /\ FetchInv' /\ WhoInv'
  BY <1>1, EndedInv
<1>3. visit \in Visits /\ lost \in Nat
  BY WizardTypes DEF WizardInv
<1>4. lost' \in Nat /\ lost' > 0
  BY ONLY <1>1, <1>3
<1>5. PageTypeOK'
  BY <1>1, <1>2, <1>4, WizardTypes, WizardTypesKept DEF WizardInv, Visits
<1>6. PageInv'
  BY <1>1, <1>2, <1>3 DEF PageInv, WizardInv
<1>7. TokenInv'
  BY <1>4 DEF TokenInv, Visits
<1>9. CrossInv'
  BY <1>1, <1>2 DEF CrossInv, WizardInv, Visits
<1>8. FirstInv'
  <2>1. visit = 1 => v = 1
    BY <1>1, OnlyFirst
  <2> QED BY <1>1, <1>2, <1>3, <2>1 DEF FirstInv, PageInv, WizardInv
<1> QED BY <1>2, <1>5, <1>6, <1>7, <1>8, <1>9 DEF WizardInv

LEMMA WizardNext ==
  ASSUME WizardInv, [PageNext]_pageVars
  PROVE  WizardInv'
<1>1. CASE PageNext
  <2>1. \E who \in Accounts : who = page.owner
    BY WizardTypes DEF WizardInv, PageType
  <2>2. CASE SendRequest \/ \E arg \in BOOLEAN : SendCode(arg)
    BY <2>1, <2>2, ButtonStep
  <2>3. CASE \E who \in Accounts, arg \in BOOLEAN : SubmitPassword(who, arg)
    BY <2>3, ButtonStep
  <2>4. CASE OpenModal \/ CloseModal \/ Revisit \/ \E a \in Accounts : SignIn(a)
    BY <2>4, ModalStep, RevisitStep, SignInStep
  <2>5. CASE Tick \/ \E v \in Visits : ServeFetch(v) \/ ReceiveAnswer(v) \/ LoseFetch(v)
    BY <2>5, ServeStep, ReceiveStep, LoseStep, TickStep
  <2> QED BY <1>1, <2>2, <2>3, <2>4, <2>5 DEF PageNext
<1>2. CASE UNCHANGED pageVars
  <2>1. UNCHANGED <<page, visit, stored, fetch, status, request, now, lost, late, crossed>>
    BY <1>2 DEF pageVars, service
  <2>2. PageTypeOK'
    BY <2>1, WizardTypes, WizardTypesKept DEF WizardInv, WhoInv, Visits
  <2> QED BY <2>1, <2>2 DEF WizardInv, FetchInv, PageInv, TokenInv, Removing, CrossInv,
                          FirstInv, Visits
<1> QED BY <1>1, <1>2

(* The inductive invariant of the page.                                    *)
THEOREM WizardInvHolds == PageSpec => []WizardInv
<1>1. PageInit => WizardInv
  BY WizardInit
<1>2. WizardInv /\ [PageNext]_pageVars => WizardInv'
  BY WizardNext
<1> QED BY <1>1, <1>2, PTL DEF PageSpec

(* TypeOK of DeletionWizard: no answer of one request is shown as that of  *)
(* another, and a good answer never as an error.                           *)
THEOREM WizardTypeCorrect ==
  PageSpec => []PageTypeOK
<1>1. WizardInv => PageTypeOK
  BY DEF WizardInv
<1> QED BY <1>1, WizardInvHolds, PTL

(* With nothing under way, a session of a deleted account is left only     *)
(* after a lost answer or a login to it answered after the deletion.       *)
THEOREM LateTokenOnly ==
  PageSpec => []TokenLeftOnlyByLateAnswer
<1>1. WizardInv => TokenLeftOnlyByLateAnswer
  BY DEF WizardInv, TokenInv, Removing, TokenLeftOnlyByLateAnswer
<1> QED BY <1>1, WizardInvHolds, PTL

(* Of one visit at most one request reaches the service: one refused as    *)
(* pending was made by an earlier visit.                                   *)
THEOREM PendingIsEarlier ==
  PageSpec => []PendingIsFromEarlierVisit
<1>1. WizardInv => PendingIsFromEarlierVisit
  <2> SUFFICES ASSUME WizardInv PROVE PendingIsFromEarlierVisit
    OBVIOUS
  <2>1. visit \in Nat /\ visit >= 1
    BY WizardTypes, WizardAssumption DEF WizardInv, Visits
  <2>2. page.requestError = "alreadyPending" => visit # 1
    BY DEF WizardInv, FirstInv
  <2> QED BY <2>1, <2>2 DEF PendingIsFromEarlierVisit
<1> QED BY <1>1, WizardInvHolds, PTL

(* No answer signs the browser out of an account that is still active,     *)
(* unless it was signed in to another account while that visit's           *)
(* confirmation was under way.                                             *)
THEOREM SignedOutOfDeleted ==
  PageSpec => SignedOutWhenDeleted
<1>1. WizardInv /\ [PageNext]_pageVars => [SignOutStep]_pageVars
  <2> SUFFICES ASSUME WizardInv, PageNext, stored # NoAccount, stored' = NoAccount
               PROVE  \/ status[stored] = "deleted"
                      \/ \E v \in crossed : fetch[v].kind = "confirm" /\ fetch'[v].kind = "none"
    BY DEF SignOutStep
  <2>1. PICK v \in Visits : ConfirmAnswered(v)
    <3>1. ~(\E a \in Accounts : SignIn(a)) /\ ~(\E v \in Visits : LoginAnswered(v))
      BY WizardAssumption, WizardTypes DEF SignIn, LoginAnswered, WizardInv, WhoInv
    <3> QED BY <3>1 DEF PageNext, ServeFetch, ReceiveAnswer, SubmitPassword, SendCode,
           OpenModal, CloseModal, SendRequest, Revisit,
           ServePassword, ServeRequest, ServeConfirm, LoseFetch,
           RequestAnswered, Tick, service, history
  <2>2. /\ fetch[v].kind = "confirm" /\ fetch[v].at = "network" /\ fetch[v].answer = "ok"
        /\ Ended(v) /\ UNCHANGED <<visit, status>>
    BY <2>1 DEF ConfirmAnswered, service
  <2>3. fetch'[v].kind = "none"
    BY <2>2, EndedInv
  <2>4. stored = fetch[v].who \/ v \in crossed
    BY <2>2 DEF WizardInv, CrossInv
  <2> QED BY <2>2, <2>3, <2>4 DEF WizardInv, FetchInv
<1> QED BY <1>1, WizardInvHolds, PTL DEF PageSpec, SignedOutWhenDeleted
=============================================================================
