# Verification of the user-management service

TLA+ modules, TLC configurations and TLAPS proofs for the user-management
system of this repository: the Express/SQLite/Redis service in `BACKEND/`, and
the pages of the React client in `FRONTEND/` that talk to it.

Contents: [the system](#1-the-system), [the models](#2-the-models),
[the runs](#3-the-runs), [the proofs](#4-the-proofs),
[what the code does that its documents do not say](#5-disagreements),
[what is not modelled](#6-not-modelled), [plan](#7-plan).

## 1. The system

### Components

| component | state it keeps | operations | module |
|---|---|---|---|
| login and lockout (`auth.service.ts`, `login-guard.ts`) | `users.failed_login_count`, `locked_until`, `password_hash`, `status` | `POST /auth/login` | `LoginSessions` |
| sessions (`session.service.ts`, middleware) | `sessions` | create, validate (with a lazy sweep), log out, count | `LoginSessions`, used by `AccountDeletion` |
| password recovery (`password-recovery.service.ts`) | `password_recovery_requests` | request, reset | `LoginSessions` |
| account deletion (`account-deletion.service.ts`) | `account_deletion_requests`, one notice row, `users` | request, confirm, cancel | `AccountDeletion`, `AccountLifecycle` |
| notification worker (`account-deletion-notification.worker.ts`) | `account_deletion_notification_records`, an interval | start, stop, poll | `NotificationOutbox`, `NoticeDelivery` |
| one-time passcodes (`otp.service.ts`, `rate-limit.guard.ts`) | `otp_requests`, Redis key `otp:rl:<user>` | send, resend, verify | `OtpIssuance` |
| registration (`registration.controller.ts`, `registration.service.ts`) | `users` | `POST /register` | `Registration` |
| registration e-mail and activation links (`email-dispatch.service.ts`, `outbox.worker.ts`, `activation.service.ts`) | `registration_email_records`, `activation_tokens` | resend, poll, activate | `RegistrationMail` |
| processes (`server.ts`, `db/migrate.ts`, configuration) | `schema_migrations`, the schema, each process's database handle and work under way | start, migrate, serve, shut down | `ServiceProcess` |
| deletion page (`AccountDeletionTemplate.tsx`, `IdentityVerificationCard.tsx`) | component state, session token in `localStorage` | password check, request, confirm | `DeletionWizard` |
| login, registration and passcode forms, signed-in pages, header | component state, timers, the token | submit, resend, log out, navigate | `ClientSession` |
| registration page in detail, and the validators of both sides | fields, errors, submissions | edit, leave, submit, answer | `RegistrationForm` |
| profile, health, error mapping, mail adapters | none | one read each, rendering | partly, see 6 |
| UI kit, footer, charts | none of the system's | rendering | not modelled |
| `app/`, an older account-information service | none | one read | not modelled |

### How they interact

All components of the service share one SQLite database through repositories.
`better-sqlite3` is synchronous, so a repository's `async` method gives up the
event loop only to the microtask queue; a handler really waits only for bcrypt
(a thread pool), Redis, the mail provider and timers. Registration calls
`OtpService.sendOtp` after its insert. `verifyOtp` and `activate` set
`users.status`; `confirmDeletion` anonymises the user, invalidates the sessions
and queues the notice in one transaction; two workers pick notices and
registration mails up by polling. The middleware validates a session before
every deletion handler and before the profile. `server.ts` runs the migrations,
starts the workers and listens; on a signal it clears their intervals, waits
for its connections and closes the database. The client talks to the service by
`fetch` and keeps its token in `localStorage`, which all tabs share.

### What is hard

* **Reads before a wait, used after it.** Login tests lockout, status and
  counter before bcrypt and writes afterwards; a reset tests its token before
  hashing; a registration tests the user name before hashing; a poll of a
  worker uses the retry counts of its snapshot; a migration loop uses the
  `schema_migrations` it read at its start.
* **Several writes that are not one transaction.** The three writes of a
  failed login; INCR and EXPIRE; invalidate, number and insert a passcode.
* **Crashes** between any of those, between an accepted mail and the update of
  its row, and between two migrations.
* **Overlap.** `setInterval` starts a poll whether or not the last is over;
  sends, logins and deletions of one account overlap; two processes start on
  one file; an answer reaches the browser after its page is gone, or in another
  tab after the session has changed.
* **Endings.** Shutdown races the polls; a form must become usable again
  however its fetch ends.
* **Boundaries.** Expiry instants, rolling windows, retry limits.

`PROJECT.json` lists each hazard at its line with the properties that cover it.

## 2. The models

Common conventions. A handler is a record with a program counter; it is cut
where it really waits and between two committed writes, since the process may
be killed there (`Crash`: tables stay, handlers are gone). A row is named by
the handler that inserts it, because a handler inserts at most one. A
transaction is one action. Passwords, codes, hashes and tokens are names or
versions: two random values are taken to differ. The clock is a number that
`Tick` advances up to `MaxTime`; a deadline is a number on it.

Whether handlers can also interleave **between** two microtask-only steps
depends on how requests arrive: pipelined on one connection (their promise
chains share one drain of the queue), after Redis replies that came in one
chunk, or in two service processes on one database file they can; otherwise
not. Both are explored: `AccountDeletion` has the constant `Interleave`,
`OtpIssuance` and `RegistrationMail` choose `overlap` at the start of each
behaviour. Properties that hold only without overlap say so.

**`LoginSessions`** - `auth.service.ts`, `login-guard.ts`, `session.service.ts`,
`password-recovery.service.ts`. `LoginRefuse`/`LoginCompare` are steps 1-4 of
`login`; `FailIncrement`, `FailLock`, `FailClear` the writes of
`registerFailure`; `LoginClear` and `CreateSession` steps 6-7. `Validity` is
`validateSession`'s typed result and `ValidateSweep` its side effect.
`RequestRecovery`, `ResetRefuse`, `ResetHash`, `ResetCommit` are recovery.
`DeleteAccount` is the deletion transaction as far as these tables go;
`Suspend` is external (no code suspends, the code handles it). `raced` is
history: a reset or deletion committed while this login was in flight.

**`AccountDeletion`** - one action per awaited call of the three handlers:
authentication with the middleware's sweep, look-up, insert or transaction,
mail. A login that was in flight may give the user a session even after the
deletion (`Login` has no status guard): `LoginSessions` shows that this
happens. `AccountLifecycle` is the abstract account: *active*, *pending*,
*deleted*, with a withdrawn deletion never carried out.

**`NotificationOutbox`** - `Polls` poll instances over `N` notices. A poll takes
a snapshot, sends one mail at a time (`Accept`: the provider has it; the answer
is still under way) and updates the row. A failure may come before or after the
provider accepted. `crossed` is history: two polls have been busy at once.
`NoticeDelivery` is what the worker promises: a queued notice is settled, once
and for all; whether as sent or as failed may still change if polls cross
(`SettledIsFinal`).

**`OtpIssuance`** - `issueOtp` from the status test to the mail, with INCR and
EXPIRE as two commands that can be lost, rejected or cut off by a crash, the
unique index on the active row, and `verifyOtp` as a read and a transaction. A
send that has its count (`counted`) is still where it waited, for Redis; from
its next step on it runs through unless handlers overlap.

**`Registration`** - `POST /register`: validation (its verdict is an input),
name check, hash, insert under two unique indexes, code sending, answer.
`Fold` is trim-and-lowercase of the user name, any idempotent map.

**`RegistrationMail`** - the outbox worker's polls with their look-ups of token
and user, the administrator's resend (`ResendCheck`, then the insert that the
unique index or the foreign key may refuse) and `activate` as a check and a
transaction. No code path inserts a token any more, so tokens and most records
are there at the start, in every state an earlier version may have left them.
The passcode and the deletion are the other writers of `users.status`.

**`ServiceProcess`** - servers and migration commands on one database file:
opening, reading `schema_migrations`, one transaction per file, listening,
requests and polls that hold the process, the signal, draining, closing,
exit. A poll that finds the database closed crashes the process. `raced` is
history: another process migrated after this one had read the rows; `late`: a
poll was under way when the database was closed.

**`DeletionWizard`** - the page's state variables, one fetch per visit, the
answers of earlier visits still arriving, several accounts, and the session in
`localStorage`, which `SignIn` (the login page, here or in another tab) may
replace at any moment: `page.owner` is whom the page was entered as, a fetch is
for whose token it carries. `late` and `crossed` are history: accounts signed in
to after their deletion, and visits whose confirmation was under way when
another account was signed in to. The service side is sequential here. The site
header's own sign-out is left to `ClientSession`, and a fetch that rejects
before it was served is not served afterwards. The module's names (`PageInit`,
`PageNext`, `PageTypeOK`, `status`, `fetch`) are its own, so that
`ClientSession_proofs` can extend it beside `ClientSession`; `RegistrationForm`
(`FormInit`, `FormTypeOK`) likewise beside `Registration`.

**`ClientSession`** - tabs with a page each, the fetches of the login,
registration and passcode forms and of the header's log-out, the profile fetch
of a signed-in page, the timers (800 ms of a resend, the countdown, 2 s to the
dashboard), and `localStorage`. Leaving a page within the application leaves
its fetches running (`here` becomes false), loading a page drops them. A tab has
the browser's history as far as the code page is concerned, which knows its user
only from the router's state: `trail` are the users of its entries, `at` how
many of them are not ahead. `Navigate` pushes (`Pushed`), which takes the place
of the entries ahead; `Reload` and `Traverse` (back and forward, in one document
or across a load) push nothing; a link within the page or to another pushes an
entry without a user. `stale`, `dropped` and `seen` are history: the page has
come to belong to another user without being mounted anew; users whose entries a
push has dropped; answers were lost or crossed.

**`RegistrationForm`** - the fields with what is shown beside them, `Edit`,
`Blur`, `Submit`, and each kind of answer; `FormRefuses` has the rules of the
form, `FieldErrors` and `PolicyRefuses` those of the service. `late`, `checked`
and `lost` are history: what was edited while a request waited, the password
the confirmation was checked against, requests without an answer.

## 3. The runs

| run | module, cfg | what it shows |
|---|---|---|
| `login_race` | `LoginSessions_race` | a session that outlives a reset or deletion comes from a login that was in flight; a failure that reaches the threshold by the count it read locks for the full time; a lock bars every login that starts under it |
| `login_lockout` | `LoginSessions_lockout` | violated: concurrent failures pass the threshold without a lock |
| `reset_token` | `LoginSessions_token` | violated: one token, two resets |
| `deletion` | `AccountDeletion` | without overlap: a deletion leaves exactly one notice, to the true address, and no pending request; refinement of `AccountLifecycle` |
| `notice_outbox` | `NotificationOutbox` | mails are bounded; a settled notice changes only after polls crossed; refinement of `NoticeDelivery`, liveness included |
| `otp_issuance` | `OtpIssuance` | the working code is the newest and one survives colliding sends, codes work once without overlap, fewer than two quotas in any stretch of a window's length, a counter without expiry is about to get one or met a fault |
| `registration` | `Registration` | who lost to whom; accounts stranded only by a fault |
| `registration_mail` | `RegistrationMail` | settled records stay settled while polls do not cross, and every record is settled; no link revives a deleted account without overlap |
| `startup` | `ServiceProcess` | a start fails, and a shutdown crashes, only by a race; a shutdown ends; the schema gets complete |
| `wizard` | `DeletionWizard` | with two accounts: an answer signs out an active one only if it was signed in to while that confirmation was under way; no token of a deleted one left but by a late or lost answer; a second request is refused only across visits; a busy page becomes usable |
| `client` | `ClientSession` | the profile is the token owner's, no live session is forgotten, a pending account's code page is in some tab's history - each unless a named event happened; a waiting form becomes usable |
| `registration_form` | `RegistrationForm` | what is shown beside a field is true of it, up to edits during a request; where the rules of the two sides differ; the user's own name is refused only after a lost answer |

**What the runs do not repeat.** A run checks what is worth a run. Types and
several plainer invariants (`CountMatchesValidation`,
`OneAccountPerNameAndMail`, `OnePending`, `CancelledStays`, `SentWasDelivered`,
`RetryBound`, `ConsumedIsActivated`, `SentWasMailed`, `RetriesExact`,
`RecordedIsApplied`, `SchemaIsPrefix`, `UpIsMigrated`, `RequestsHaveDb`,
`ResendAcceptedOnce`, `VerifiedIsActive`, and `OtpIssuance`'s and
`RegistrationMail`'s `TypeOK` among them) are proved for every value of the
constants (section 4) and are in no configuration; to see one fail when the
model is changed, add its name to the configuration.

**Bounds, and why they suffice.** Every race above needs two handlers of one
account and one disturbing transaction; the runs have two or three handlers of
each racing kind and one account (accounts share no row but the index, which is
what `Registration` is about, with three requests). Threshold, quota and retry
limit are 1 or 2, the least at which "below", "at" and "past" differ. Clocks run
to 2 with durations of 1 and 2, so both sides of each deadline and the instant
itself occur. `MaxFaults`, `MaxRestarts`, `MaxCrashes`, `MaxKills`, `MaxLost`
are 1: each property that mentions faults is about the first one. `otp_issuance`
has four sends and a quota of 2, so that a quota can be used up at the end of
one window and again at the start of the next: three codes in one window's
length occur, and a bound one lower is refuted. Its constraint `FewEvents`
allows any three sends, verifications and faults, and the fourth send only when
neither is there and nothing overlaps. `wizard` has two accounts and two visits,
one whose answers are late and a current one. `startup` has two servers, one
command, three files (a first, a middle and a last), three starts and one
process killed; one request and one poll per server are enough, as requests and
polls of a server are alike. `client` has two tabs, two users and two tokens,
the least at which "another's" means something, three fetches of which two at
once, and one move; its tabs start both on the login or both on the registration
page. With one move no tab can go back from a code page and then elsewhere by
links alone, but the answer of a fetch is a push too, so entries are dropped.
`registration_form` has seven edits (all five fields once and two again), two
submissions and one account of another user. State counts are between a few
thousand and a million (`otp_issuance`). Requests of one kind are
interchangeable, hence `SYMMETRY` - in no run that checks liveness.
`CHECK_DEADLOCK FALSE`: those runs end when their finite supply of requests is
used up, and a service without requests rests.

**Fairness.** Runs that check only safety use none. The others assume:

* `NotificationOutbox`: each poll takes its next step (`setInterval` keeps
  firing, the mail client answers or rejects) and a stopped service is started
  again (an operator's part).
* `RegistrationMail`: the same of its polls, strongly, since a poll's step is
  disabled while another handler has its turn; and that a handler that has
  started runs on.
* `ServiceProcess`: loading does not wait; handlers answer or their clients give
  up; Redis answers QUIT or its library gives up. Nothing is assumed of polls.
* `DeletionWizard` and `ClientSession`: the service answers what reaches it, or
  the fetch fails, and the browser runs the continuation; nothing of the user.

**Mutants.** For each property of a passing run `PROJECT.json` names a plausible
fault of the code, an operator in the module commented `Mutant:`, under which
TLC finds the property violated in the same run.

## 4. The proofs

TLAPS proves the following for every value of the constants that satisfies the
modules' named assumptions - any numbers of users, requests, retries, files,
any durations. Finite sets are not needed except where a cardinality or a least
element is.

**`LoginSessions_proofs`.** `IInv` is `TypeOK` with, for each login in flight,
how its snapshot relates to the tables. `StaleSessionOnlyByRace` is not
inductive: it says nothing of a login still comparing. The strengthening says
that a login which has not been marked `raced` saw the present password version
and that its account is not deleted; then `CreateSession` inserts a session
that satisfies it, and `ResetCommit` either invalidates or marks.
`ThresholdFailureLocks` needs the deadline of the lock at each program counter
after `FailIncrement`: nothing lowers `locked_until`, since `lockAccount`
always writes `now` plus the duration and the clock does not go back.
`LockBarsLogins` is an action property from the same invariant;
`CountAgrees` follows from types and the definitions.

**`Registration_proofs`.** The conjunction of the four properties is inductive:
uniqueness by the index guard of `Insert`, winners because a name or address is
taken only by a row, and a row that exists once never becomes absent again.

The same module has the proofs about `RegistrationForm`, by `FormInv`. Of its
parts, `UnderInv` carries the rest: the page waits for one request at most, one
of its present visit; while it waits, every field counts as left and no error of
the service is shown. Hence an answer is shown once and beside fields that were
checked (`ServiceErrorIsCurrent`), and a name refused to the user who has it was
taken by a request of an earlier visit, lost or failed
(`OwnNameRefusedOnlyAfterLoss`, inductive with `OwnInv`). `TruthInv` is
`ShownErrorsAreTrue` for the password the confirmation was last compared with;
only the rule of the confirmation depends on it (`Independent`). `RequestInv`
says that a request carries what the form accepted, from which `LaxFields` and
`StrongPassword` give `LaxnessIsKnown`. That theorem assumes
`Policy.needs = AllKinds`: all four switches of the policy are on by default,
and with one switched off an account's password need not have looked strong.

**`AccountDeletion_proofs`.** For any `Interleave`: types, and that a deleted
account has a notice to its own address: the strengthening (`NoticeInv`) says
that a handler holding a captured *anonymised* address belongs to an account
that already has its notice. Assuming `~Interleave`: `SerialInv` adds that at
most one handler is between its steps, so what it looked up still holds when it
acts (`RequestHolds`, `ConfirmHolds`, `CancelHolds`), that a row not yet
inserted is absent, and that notices are counted. From it: one pending
request, final cancellation, one deletion, and `ImplementsLifecycle`, the
refinement, by one step per action mapping to `Request`, `Withdraw`, `Carry` or
a stutter.

**`NotificationOutbox_proofs`.** A poll always has a current record because a
non-empty set of record numbers has a least one; the library's induction takes
an operator and cannot be used here, so `LeastExists` goes through the
well-founded strict inclusion of initial segments. `DeliveredInv` says that a
record a poll has had accepted was mailed, `HoldInv` that what a poll holds was
queued and, while no polls have crossed, still is with the count of the
snapshot. From them `SentMeansMailed`, `SettledStays`, and `PromiseIsSafe`: the
safety part of the refinement of `NoticeDelivery`. The two bounds count: a
retry is written by a poll whose snapshot was below the limit, so `RetryInv`
bounds a record's retries by the limit and the polls that still hold it below
the limit, `MailInv` its mails by retries, holders and restarts. Both theorems
assume `Polls # {}`, without which nothing is bounded by "one for each other
poll".

**`OtpIssuance_proofs`.** `NumberInv`: the attempt numbers of a user are 1, 2,
... without a gap, whoever overlaps. `TurnInv`: without overlap one handler is
between two database calls. `FreshInv`: then the number it read is still the
next. `CodeInv`: a code that matched still works for an account that is not
deleted, and one that activated an account never will again. With
`ActiveIsNewest`, `CodeUsedOnce`, `CodeSurvives` and `CounterExpires` they are
inductive. Most actions change none of what these talk about (`Silent`); the
five that do have a lemma each. `QuotaPerWindow`, a count over a sliding window
of instants, is neither inductive nor about the counter. `QuotaInv` relates each
counted send to the key: a count above the key's value belongs to an earlier
key, the first count of a key leaves it a full window (`KeyInv`), a later send
with no higher a count was counted by a later key (`LaterKeyInv`), and so, of
one user, two first counts and any three equal ones span a window (`SpanInv`).
The claim is about any stretch of a window's length, not about the counter's own
windows; one quota per such stretch would be false of the code. A stretch as
long as a window can therefore hold the first count once and each other count
twice: `QuotaCount` maps its sends one to one into that many numbers, `2 *
MaxAttempts - 1`, and the library's theorem on injections gives the bound.

**`RegistrationMail_proofs`.** `PollInv` is `HoldInv` of the other worker with
the look-ups between; `ActInv` says that without overlap the account an
activation found pending still is when it commits. `ConsumedIsActivated` and
`ResendAcceptedOnce` are inductive by the transaction and the unique index.

**`ServiceProcess_proofs`.** `RaceInv`: a process in the loop that nobody has
overtaken knows every recorded file, so it can fail only if it was overtaken.
Each file's tables and row come in one transaction, and only the least file not
known is applied, so the recorded files are an initial segment and a process
that knows all files may serve. `ServeInv`: the database stays open while
requests are under way, and a poll that finds it closed was under way then.

**`ClientSession_proofs`.** Some twenty actions of `ClientSession` do several of
few things each. `Effects` says what those are: a page stays or is mounted
(`Stays`, `Mounts`); a fetch goes on, ends, is sent or is answered (`Follows`,
`Gone`, `Sent`, `Served`); the service moves forward; the token is kept, stored
by a login or removed by a log-out. Every action keeps to it (`StepEffects`),
and each part of the invariant is preserved by whatever does. A move takes the
tab's record, or one with a history that knows more users (`Variant`): a push
loses none but to `dropped` (`PushedRecord`). The parts are:
`HereInv`, a fetch whose page is still there was sent from it and is about its
user; `CallInv`, a good answer is true of the service; `StoreInv`, the stored
token is one the service gave, and a page mounted with it asks for its user;
`AnswerInv`, while no answer was lost or crossed another, each will reach its
tab and a log-out is of the stored token. With them `VerifiedIsActive`,
`ProfileIsOwner`, `NoSessionLeftBehind` and `PendingIsReachable` are inductive.

The same module has the proofs about `DeletionWizard`, by `WizardInv`:
`FetchInv`, a confirmation was answered "ok" only if the account it is for is
deleted; `CrossInv`, a confirmation of another account than the stored one
belongs to a visit in `crossed`; the two give `SignedOutWhenDeleted`; `PageInv`,
the fetch of the present visit is the one its page shows; `TokenInv`, while a
session of a deleted account is stored and no answer was lost or late, the
answer that removes it is under way;
`FirstInv`, the first visit sends no second request once the service has its
first.

**Only model-checked.** Liveness (the liveness part of `KeepsPromise`, `Settles`,
`BusyEnds`, `LoadingEnds`, `ShutdownEnds`, `SchemaCompletes`), as TLAPS here has
no reasoning about fairness and `ENABLED`. Every invariant and every action
property that a passing run checks is proved. No module declares a `RECURSIVE`
operator, and nothing needs induction over data, both of which the installed
provers cannot handle.

## 5. Disagreements

Where a comment or message states more than the code does. A violation run shows
the first two.

1. `login-guard.ts:53` - "applies a lockout ... in the same call" when the
   *incremented* count reaches the threshold; the test uses the count read
   before bcrypt. `ThresholdFailureLocks` is what does hold.
2. `password-recovery.service.ts:98` - a consumed token is refused; not if both
   requests passed the test before either finished hashing.

The others are read from the models, or seen by setting a constant or checking
the stated property, and have no run of their own:

3. `rate-limit.guard.ts:5` - the counter "resets automatically"; not after a
   fault between INCR and EXPIRE. `CounterExpires` is what does hold.
4. `account-deletion.service.ts:120` - "at most one pending request per user";
   with `Interleave = TRUE` there can be two, and no index prevents it. The
   "One-way" transition (`deletion-request.repository.ts:112`) fails the same
   way.
5. `registration.controller.ts:101` - "always returns 201 once the user row is
   committed"; not if Redis rejects. `StrandedOnlyByFault` is what does hold.
6. `AccountDeletionTemplate.tsx:34` - "Please start the deletion request
   again"; that request is refused, as the expired one stays pending and
   nothing in the client cancels it.
7. `email-dispatch.service.ts:75` - "Inserts a new queued outbox record
   regardless of prior delivery history"; the unique index on `user_id` refuses
   a second one, and the foreign key one without a token, and line 94, "admin
   resend always creates a fresh record", fails the same way. What the
   constraints leave is `ResendAcceptedOnce`, which is proved (`OneResend`) and in
   no run: it is no promise of the code's.
8. `OtpVerificationForm.tsx:23` - "Redirecting you to the dashboard"; a
   verification stores no token, so the route guard sends the user to the login
   page (`Redirected`).
9. `useCurrentUser.ts` has no catch: after a profile fetch that rejects, the
   page waits for its name for good. `LoadingEnds` is about the forms only.
10. `RegistrationForm.tsx` computes `isFormValid` and does not use it; a "Strong"
    bar does not imply that the service accepts the password, only the converse
    holds (`LaxnessIsKnown`).

No document speaks of the following, but they are what the properties of the
client and of the service name as exceptions, because the code does them:

* `AccountDeletionTemplate.tsx:141` clears whichever session is stored when the
  confirmation is answered: a user who has signed in to another account meanwhile,
  here or in another tab, is signed out of that one (`SignedOutWhenDeleted`
  without `crossed`).
* `OtpVerificationTemplate.tsx:16` has the user id from the router's state alone.
  Whoever goes back from the code page and then anywhere else (a registration
  answered, the header, `navigate("/")` of `RegistrationForm.tsx:407`) cannot
  return to it, and the account stays pending: no other page leads there, and the
  user name is taken (`PendingIsReachable` without `dropped`).
* A registration answered late puts its user on a code page that says "Email
  Verified!" of another (`OtpVerificationForm.tsx:21`): the router mounts nothing
  anew (`VerifiedIsActive` without `stale`).
* A login answered late, or in another tab, stores its token under a page that
  goes on showing the profile it fetched (`ProfileIsOwner` without `stale`), and
  over a session that nobody logs out any more; a log-out clears what is stored
  when it is answered, also a later session (`NoSessionLeftBehind` without
  `seen`).
* A request of the deletion page whose fetch rejects leaves it busy
  (`AccountDeletionTemplate.tsx:114`, `BusyEnds` without `lost`).
* While a request of the registration page is under way its fields can be edited:
  an error of the service then stands beside a value it never saw, and the
  confirmation keeps its verdict on an earlier password.
* Handlers that interleave between a read and its write: one code activates twice,
  an activation undoes a deletion, an older code is the working one; polls of the
  registration outbox that overlap send again what was sent, or give it up.

## 6. Not modelled

* Rendering, the generated UI kit and the charts: no state of the system, and
  most of it is imported by no page.
* `app/`, an account-information service over PostgreSQL: one read-only
  endpoint, and the tree does not load (modules required at paths that do not
  exist, sources inside Markdown fences), so it has no behaviour.
* `enqueueConfirmationEmail`, which has no caller.
* Profile and health beyond the count of sessions; serialisation of answers;
  mail templates; configuration parsing beyond what a start may refuse; logs.
* Two different codes with one hash. Clocks that go backwards. SQLite and Redis
  losing committed data.
* Two service processes and a client at once: `ServiceProcess` has processes
  without handlers, the other modules handlers without processes.
* The entries of pages other than the code page in a tab's history; they may lie
  anywhere between those of the code page. Signing out and in on the deletion
  page by other means than its own and the login page.
* Details that no property depends on: a `DOCS/openapi.yaml` that is missing when
  a server starts; records of the registration outbox that an earlier version
  left sent, or with retries; leaving the registration page while it waits (its
  pending request is then `ClientSession`'s); the folding of user names in
  `RegistrationForm` (it is `Registration`'s).

## 7. Plan

Done: all components of section 1 that keep state; abstract specifications and
refinements of account deletion and notice delivery; proofs of every invariant
and action property.

Left, in this order:

1. A composition of registration, passcodes, activation and deletion over one
   `users` table, to check the actions each module now assumes of the others.
2. An abstract account from *registered* to *deleted* that the composition
   implements, with the proof of its steps.
