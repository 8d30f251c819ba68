--------------------------- MODULE ServiceProcess ---------------------------
(***************************************************************************)
(* The life of the service's processes: the configuration modules, the     *)
(* database file and its migrations (db/migrate.ts, and the same loop in   *)
(* the CLI db/migrations/run-migrations.ts), start and graceful shutdown   *)
(* of server.ts.                                                           *)
(*                                                                         *)
(* Several processes may work on one database file: a server being         *)
(* replaced, and `npm run db:migrate`.  Statements and transactions of     *)
(* different processes interleave; within one process loading is           *)
(* synchronous, and a process may be killed anywhere.  What requests and   *)
(* polls do is in the other modules: here they only hold the process and   *)
(* need its database.                                                      *)
(***************************************************************************)
EXTENDS Integers, FiniteSets

CONSTANTS
  Servers,       (* node dist/server.js                                    *)
  Clis,          (* ts-node db/migrations/run-migrations.ts                *)
  Files,         (* MIGRATION_FILES: 1 .. the number of files              *)
  MaxReqs,       (* bound on requests under way per server                 *)
  MaxPolls,      (* bound on polls under way per server, both workers      *)
  MaxStarts,     (* bound on starts of processes                           *)
  MaxKills       (* bound on processes killed                              *)

ASSUME ProcessAssumption ==
  /\ Servers \cap Clis = {}
  /\ Files \in SUBSET Nat
  /\ IsFiniteSet(Files)
  /\ {MaxReqs, MaxPolls, MaxStarts, MaxKills} \subseteq Nat

Processes == Servers \cup Clis

VARIABLES
  applied,       (* files whose tables and indexes exist                   *)
  recorded,      (* rows of schema_migrations                              *)
  proc,          (* the processes                                          *)
  onePort,       (* the servers are started with the same PORT             *)
  starts, kills

vars == <<applied, recorded, proc, onePort, starts, kills>>

(* opened: database open; migrating: in the loop over the files;           *)
(* listening, draining, closing: see below.                                *)
Starting == {"opened", "migrating"}
Up == {"listening", "draining", "closing"}
Ended == {"off", "misconfigured", "failed", "portTaken", "done", "stopped", "crashed",
          "killed"}

(* seen: files the loop takes for applied.  reqs: requests under way;      *)
(* orphans: those whose client has gone; polls: of the workers.            *)
(* raced, late: history - another process migrated since the files were    *)
(* read; polls were under way when the database was closed.                *)
Fresh == [pc |-> "off", db |-> "none", seen |-> {}, reqs |-> 0, orphans |-> 0,
          polls |-> 0, raced |-> FALSE, late |-> FALSE]

(* The file may be new, or left by an older version with fewer files.      *)
Init ==
  /\ applied \in {{f \in Files : f <= n} : n \in Files \cup {0}}
  /\ recorded = applied
  /\ proc = [p \in Processes |-> Fresh]
  /\ onePort \in BOOLEAN
  /\ starts = 0 /\ kills = 0

-----------------------------------------------------------------------------
(* Configuration: every module throws while it is loaded if a required     *)
(* string is blank, a number is not one, or one of the numbers below is    *)
(* out of range.  Numbers that are not listed are not tested, whatever     *)
(* parsePositiveInt is called.                                             *)
ConfigModules == {"app", "lockout", "otp", "deletion", "password", "session"}

Envs == [blank : SUBSET {"app", "otp", "deletion"}, garbled : SUBSET ConfigModules,
         cost : {11, 12}, threshold : {0, 1}, minutes : {0, 1}, seconds : {0, 1},
         min : {0, 8}, max : {7, 128, 1025}]

AppOk(env) == "app" \notin env.blank \cup env.garbled /\ env.cost >= 12
LockoutOk(env) == "lockout" \notin env.garbled /\ env.threshold >= 1 /\ env.minutes >= 1
OtpOk(env) == "otp" \notin env.blank \cup env.garbled
DeletionOk(env) == "deletion" \notin env.blank \cup env.garbled
PasswordOk(env) == /\ "password" \notin env.garbled
                   /\ env.min >= 1 /\ env.max <= 1024 /\ env.min <= env.max
SessionOk(env) == "session" \notin env.garbled /\ env.seconds >= 1

ConfigOk(env) ==
  AppOk(env) /\ LockoutOk(env) /\ OtpOk(env) /\ DeletionOk(env) /\ PasswordOk(env)
    /\ SessionOk(env)

Loads == {ConfigOk(env) : env \in Envs}

Become(p, r) ==
  /\ proc' = [proc EXCEPT ![p] = r]
  /\ UNCHANGED <<applied, recorded, onePort, starts, kills>>

Begin(p, r) ==
  /\ proc[p].pc \in Ended /\ starts < MaxStarts
  /\ starts' = starts + 1
  /\ proc' = [proc EXCEPT ![p] = r]
  /\ UNCHANGED <<applied, recorded, onePort, kills>>

(* createDb of connection.ts, and openDb of the CLI: the folder and the    *)
(* file are created unless they exist.                                     *)
OpenDb == [Fresh EXCEPT !.pc = "opened", !.db = "open"]

(* A server is started: its imports load the configuration, then it opens  *)
(* the database.                                                           *)
StartServer(p) ==
  /\ p \in Servers
  /\ \E ok \in Loads :
       Begin(p, IF ok THEN OpenDb ELSE [Fresh EXCEPT !.pc = "misconfigured"])

(* The CLI reads no configuration module.                                  *)
StartCli(p) == p \in Clis /\ Begin(p, OpenDb)

-----------------------------------------------------------------------------
(* runMigrations.                                                          *)

(* Mutant: what schema_migrations holds is not read.                       *)
ReadAppliedNone(p) ==
  /\ proc[p].pc = "opened"
  /\ Become(p, [proc[p] EXCEPT !.pc = "migrating"])

(* schema_migrations is created unless it exists, then read.               *)
ReadApplied(p) ==
  /\ proc[p].pc = "opened"
  /\ Become(p, [proc[p] EXCEPT !.pc = "migrating", !.seen = recorded])

Left(p) == Files \ proc[p].seen

(* The loop goes through the files in their order.                         *)
IsNext(p, f) == f \in Left(p) /\ \A g \in Left(p) : f <= g

(* The others that are in the loop have read the files too early.          *)
Raced(p, q) == q # p /\ proc[q].pc = "migrating"

(* Mutant: a process waits until no other is in the loop.                  *)
ApplyAlone(p) ==
  /\ proc[p].pc = "migrating"
  /\ \A q \in Processes \ {p} : proc[q].pc # "migrating"
  /\ \E f \in Files :
       /\ IsNext(p, f)
       /\ f \notin applied
       /\ applied' = applied \cup {f}
       /\ recorded' = recorded \cup {f}
       /\ proc' = [proc EXCEPT ![p].seen = @ \cup {f}]
  /\ UNCHANGED <<onePort, starts, kills>>

(* One transaction: the statements of the next file and its row.           *)
Apply(p) ==
  /\ proc[p].pc = "migrating"
  /\ \E f \in Files :
       /\ IsNext(p, f)
       /\ f \notin applied
       /\ applied' = applied \cup {f}
       /\ recorded' = recorded \cup {f}
       /\ proc' = [q \in Processes |->
                     CASE q = p -> [proc[q] EXCEPT !.seen = @ \cup {f}]
                       [] Raced(p, q) -> [proc[q] EXCEPT !.raced = TRUE]
                       [] OTHER -> proc[q]]
  /\ UNCHANGED <<onePort, starts, kills>>

(* CREATE TABLE finds the table: the transaction is rolled back and        *)
(* runMigrations throws, which ends the process with code 1.               *)
ApplyThrows(p) ==
  /\ proc[p].pc = "migrating"
  /\ \E f \in applied : IsNext(p, f)
  /\ Become(p, [proc[p] EXCEPT !.pc = "failed", !.db = "closed"])

(* The CLI closes the database and exits.                                  *)
CliDone(p) ==
  /\ p \in Clis
  /\ proc[p].pc = "migrating" /\ Left(p) = {}
  /\ Become(p, [proc[p] EXCEPT !.pc = "done", !.db = "closed"])

-----------------------------------------------------------------------------
(* server.ts.                                                              *)

PortTaken(p) == onePort /\ \E q \in Servers \ {p} : proc[q].pc = "listening"

(* The application is built, the workers are started, the port is bound.   *)
Listen(p) ==
  /\ p \in Servers
  /\ proc[p].pc = "migrating" /\ Left(p) = {}
  /\ ~PortTaken(p)
  /\ Become(p, [proc[p] EXCEPT !.pc = "listening"])

(* listen() emits an error nobody handles; no tick has come yet.           *)
ListenThrows(p) ==
  /\ p \in Servers
  /\ proc[p].pc = "migrating" /\ Left(p) = {}
  /\ PortTaken(p)
  /\ Become(p, [proc[p] EXCEPT !.pc = "portTaken", !.db = "closed"])

Request(p) ==
  /\ proc[p].pc = "listening"
  /\ proc[p].reqs + proc[p].orphans < MaxReqs
  /\ Become(p, [proc[p] EXCEPT !.reqs = @ + 1])

(* The handler has read or written its rows and answers.                   *)
Answer(p) ==
  /\ proc[p].reqs > 0
  /\ Become(p, [proc[p] EXCEPT !.reqs = @ - 1])

(* The client closes its connection; the handler goes on.                  *)
Abandon(p) ==
  /\ proc[p].reqs > 0
  /\ Become(p, [proc[p] EXCEPT !.reqs = @ - 1, !.orphans = @ + 1])

(* An orphan ends; if the database is closed, what it had still to write   *)
(* is lost, and the controller's catch answers nobody.                     *)
OrphanEnds(p) ==
  /\ proc[p].orphans > 0
  /\ Become(p, [proc[p] EXCEPT !.orphans = @ - 1])

(* Mutant: stop() does not clear the interval.                             *)
TickAlways(p) ==
  /\ proc[p].pc \in Up
  /\ proc[p].polls < MaxPolls
  /\ Become(p, [proc[p] EXCEPT !.polls = @ + 1])

(* The interval of a worker starts a poll.                                 *)
Tick(p) ==
  /\ proc[p].pc = "listening"
  /\ proc[p].polls < MaxPolls
  /\ Become(p, [proc[p] EXCEPT !.polls = @ + 1])

PollEnds(p) ==
  /\ proc[p].polls > 0 /\ proc[p].db = "open"
  /\ Become(p, [proc[p] EXCEPT !.polls = @ - 1])

(* A poll goes on with the database closed: its update throws, and so does *)
(* _handleFailure in the catch; nobody handles the rejection.              *)
PollThrows(p) ==
  /\ proc[p].polls > 0 /\ proc[p].db = "closed"
  /\ Become(p, [proc[p] EXCEPT !.pc = "crashed", !.reqs = 0, !.orphans = 0, !.polls = 0])

(* SIGTERM or SIGINT: both workers are stopped, the port is released;      *)
(* polls and requests under way go on.                                     *)
Signal(p) ==
  /\ proc[p].pc = "listening"
  /\ Become(p, [proc[p] EXCEPT !.pc = "draining"])

(* Mutant: shutdown waits for the handlers of clients that have gone, too, *)
(* and so for ever if one of them hangs.                                   *)
CloseDbWaiting(p) ==
  /\ proc[p].pc = "draining"
  /\ proc[p].reqs = 0 /\ proc[p].orphans = 0 /\ proc[p].polls = 0
  /\ Become(p, [proc[p] EXCEPT !.pc = "closing", !.db = "closed"])

(* server.close calls back once every connection has ended: the database   *)
(* is closed and QUIT is sent to Redis.                                    *)
CloseDb(p) ==
  /\ proc[p].pc = "draining"
  /\ proc[p].reqs = 0
  /\ Become(p, [proc[p] EXCEPT !.pc = "closing", !.db = "closed", !.late = proc[p].polls > 0])

(* Redis has answered: process.exit(0), whatever is under way.             *)
Exit(p) ==
  /\ proc[p].pc = "closing"
  /\ Become(p, [proc[p] EXCEPT !.pc = "stopped", !.reqs = 0, !.orphans = 0, !.polls = 0])

Kill(p) ==
  /\ proc[p].pc \in Starting \cup Up
  /\ kills < MaxKills
  /\ kills' = kills + 1
  /\ proc' = [proc EXCEPT ![p] = [Fresh EXCEPT !.pc = "killed"]]
  /\ UNCHANGED <<applied, recorded, onePort, starts>>

Boot(p) ==
  \/ ReadApplied(p) \/ Apply(p) \/ ApplyThrows(p)
  \/ CliDone(p) \/ Listen(p) \/ ListenThrows(p)

Shutdown(p) == CloseDb(p) \/ Exit(p)

Next ==
  \E p \in Processes :
    \/ StartServer(p) \/ StartCli(p) \/ Boot(p)
    \/ Request(p) \/ Answer(p) \/ Abandon(p) \/ OrphanEnds(p)
    \/ Tick(p) \/ PollEnds(p) \/ PollThrows(p)
    \/ Signal(p) \/ Shutdown(p) \/ Kill(p)

(* Loading does not wait; handlers answer, or their clients give up; Redis *)
(* answers QUIT or the client library gives up.  Nothing is assumed of     *)
(* polls: a provider may keep one waiting.                                 *)
Fairness ==
  \A p \in Processes : WF_vars(Boot(p)) /\ WF_vars(Answer(p)) /\ WF_vars(Shutdown(p))

Spec == Init /\ [][Next]_vars /\ Fairness

-----------------------------------------------------------------------------
(* Properties.                                                             *)

TypeOK ==
  /\ applied \in SUBSET Files /\ recorded \in SUBSET Files
  /\ proc \in [Processes -> [pc : Starting \cup Up \cup Ended, db : {"none", "open", "closed"},
                             seen : SUBSET Files, reqs : Nat, orphans : Nat, polls : Nat,
                             raced : BOOLEAN, late : BOOLEAN]]
  /\ \A p \in Processes :
       /\ proc[p].seen \subseteq recorded
       /\ proc[p].pc \notin Up => proc[p].reqs = 0 /\ proc[p].orphans = 0 /\ proc[p].polls = 0
  /\ onePort \in BOOLEAN
  /\ starts \in 0 .. MaxStarts /\ kills \in 0 .. MaxKills

(* However processes race and wherever they are killed, schema_migrations  *)
(* says what the schema is: a file is recorded exactly if its tables       *)
(* exist, so the next start neither repeats nor skips one.                 *)
RecordedIsApplied == recorded = applied

(* The schema is always that of some version: no file is applied before    *)
(* one it may refer to.                                                    *)
SchemaIsPrefix == \A f, g \in Files : f < g /\ g \in applied => f \in applied

(* A process that takes requests has the whole schema.                     *)
UpIsMigrated == \A p \in Processes : proc[p].pc \in Up => applied = Files

(* A start fails in runMigrations only if another process migrated between *)
(* the reading of schema_migrations and the failing file; alone, a process *)
(* always comes through, also after one that was killed half-way.          *)
StartFailsOnlyByRace == \A p \in Processes : proc[p].pc = "failed" => proc[p].raced

(* Graceful shutdown is graceful to clients: no request with a client      *)
(* waiting for it meets a closed database.                                 *)
RequestsHaveDb == \A p \in Processes : proc[p].reqs > 0 => proc[p].db = "open"

(* Shutdown ends in an unhandled rejection only if a poll was waiting for  *)
(* the mail provider when the database was closed: not through a tick that *)
(* came after stop().                                                      *)
CrashOnlyByLatePoll == \A p \in Processes : proc[p].pc = "crashed" => proc[p].late

(* After a signal the process ends, though polls may hang.                 *)
ShutdownEnds ==
  \A p \in Processes : proc[p].pc = "draining" ~> proc[p].pc \in Ended

(* Processes racing through the migrations do not stop each other for      *)
(* good: if none is killed, one of them completes the schema.              *)
SchemaCompletes ==
  (\E p \in Processes : proc[p].pc = "migrating") ~> (applied = Files \/ kills > 0)

=============================================================================
