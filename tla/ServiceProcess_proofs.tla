------------------------ MODULE ServiceProcess_proofs ------------------------
(***************************************************************************)
(* Proofs about ServiceProcess, for any number of servers, command lines,  *)
(* migration files, requests and polls: the schema, the start and the      *)
(* shutdown.                                                               *)
(***************************************************************************)
EXTENDS ServiceProcess, TLAPS

ProcType == [pc : Starting \cup Up \cup Ended, db : {"none", "open", "closed"},
             seen : SUBSET Files, reqs : Nat, orphans : Nat, polls : Nat,
             raced : BOOLEAN, late : BOOLEAN]

(* A process in the loop that no other has overtaken knows every file that *)
(* is recorded; one that failed was overtaken.                             *)
RaceInv ==
  \A p \in Processes :
    /\ proc[p].pc = "migrating" /\ ~proc[p].raced => proc[p].seen = recorded
    /\ proc[p].pc = "failed" => proc[p].raced

SchemaInv == RecordedIsApplied /\ SchemaIsPrefix /\ UpIsMigrated /\ RaceInv

(* The database is open until the requests have ended; a poll that finds   *)
(* it closed was under way then.                                           *)
ServeInv ==
  \A p \in Processes :
    /\ proc[p].pc \in Starting \cup {"listening", "draining"} => proc[p].db = "open"
    /\ proc[p].reqs > 0 => proc[p].pc \in {"listening", "draining"}
    /\ proc[p].polls > 0 /\ proc[p].db = "closed" => proc[p].late
    /\ proc[p].pc = "crashed" => proc[p].late

IInv == TypeOK /\ SchemaInv /\ ServeInv

LEMMA InitInv == Init => IInv
<1> SUFFICES ASSUME Init PROVE IInv
  OBVIOUS
<1> USE ProcessAssumption
<1>1. \A p \in Processes : proc[p] = Fresh
  BY DEF Init
<1>2. Fresh \in ProcType
  BY DEF Fresh, ProcType, Ended
<1>3. PICK n \in Files \cup {0} : applied = {f \in Files : f <= n}
  BY DEF Init
<1>4. TypeOK
  <2>1. proc \in [Processes -> ProcType]
    BY <1>2 DEF Init
  <2>2. applied \in SUBSET Files /\ recorded \in SUBSET Files
    BY <1>3 DEF Init
  <2>3. \A p \in Processes : /\ proc[p].seen = {}
                             /\ proc[p].reqs = 0 /\ proc[p].orphans = 0 /\ proc[p].polls = 0
    BY <1>1 DEF Fresh
  <2>4. onePort \in BOOLEAN /\ starts \in 0 .. MaxStarts /\ kills \in 0 .. MaxKills
    BY DEF Init
  <2> QED BY <2>1, <2>2, <2>3, <2>4 DEF TypeOK, ProcType
<1>5. RecordedIsApplied /\ UpIsMigrated /\ RaceInv
  BY <1>1 DEF Init, RecordedIsApplied, UpIsMigrated, RaceInv, Fresh, Up
<1>6. SchemaIsPrefix
  <2>1. Files \subseteq Nat /\ n \in Nat
    OBVIOUS
  <2> QED BY <1>3, <2>1 DEF SchemaIsPrefix
<1>7. ServeInv
  BY <1>1 DEF ServeInv, Fresh, Starting
<1> QED BY <1>4, <1>5, <1>6, <1>7 DEF IInv, SchemaInv

-----------------------------------------------------------------------------
(* The steps, by what they leave alone.                                    *)

(* Steps that change one process, and neither files nor rows.              *)
ProcStep(p) ==
  /\ UNCHANGED <<applied, recorded, onePort>>
  /\ \A q \in Processes \ {p} : proc'[q] = proc[q]

(* A start.                                                                *)
LEMMA Starts ==
  ASSUME TypeOK, NEW p \in Processes, StartServer(p) \/ StartCli(p)
  PROVE  /\ ProcStep(p) /\ starts' \in 0 .. MaxStarts /\ kills' = kills
         /\ proc' \in [Processes -> ProcType]
         /\ proc'[p] \in {OpenDb, [Fresh EXCEPT !.pc = "misconfigured"]}
<1> USE ProcessAssumption
<1>1. PICK r \in {OpenDb, [Fresh EXCEPT !.pc = "misconfigured"]} : Begin(p, r)
  BY DEF StartServer, StartCli
<1>2. r \in ProcType
  <2>1. OpenDb \in ProcType
    BY DEF OpenDb, Fresh, ProcType, Starting
  <2>2. [Fresh EXCEPT !.pc = "misconfigured"] \in ProcType
    BY DEF Fresh, ProcType, Ended
  <2> QED BY <2>1, <2>2
<1>3. proc' \in [Processes -> ProcType] /\ proc'[p] = r
  BY <1>1, <1>2 DEF Begin, TypeOK, ProcType
<1>4. starts' \in 0 .. MaxStarts
  BY <1>1 DEF Begin, TypeOK
<1> QED BY <1>1, <1>3, <1>4 DEF Begin, TypeOK, ProcStep

(* What a step that only changes p's own record leaves behind.             *)
LEMMA Becomes ==
  ASSUME TypeOK, NEW p \in Processes, NEW r \in ProcType, Become(p, r)
  PROVE  /\ ProcStep(p) /\ starts' = starts /\ kills' = kills
         /\ proc' \in [Processes -> ProcType]
         /\ proc'[p] = r
  BY DEF Become, TypeOK, ProcType, ProcStep

(* Steps of one process that change no file, with what each does to its    *)
(* record.                                                                 *)
Own(p) ==
  \/ ReadApplied(p) \/ ApplyThrows(p) \/ CliDone(p) \/ Listen(p) \/ ListenThrows(p)
  \/ Request(p) \/ Answer(p) \/ Abandon(p) \/ OrphanEnds(p)
  \/ Tick(p) \/ PollEnds(p) \/ PollThrows(p)
  \/ Signal(p) \/ Shutdown(p)

LEMMA OwnSteps ==
  ASSUME IInv, NEW p \in Processes, Own(p)
  PROVE  /\ ProcStep(p) /\ starts' = starts /\ kills' = kills
         /\ proc' \in [Processes -> ProcType]
         /\ proc'[p].seen \subseteq recorded
         /\ proc'[p].pc \notin Up =>
              proc'[p].reqs = 0 /\ proc'[p].orphans = 0 /\ proc'[p].polls = 0
         /\ proc'[p].pc \in Up => proc[p].pc \in Up \/ Left(p) = {}
         /\ proc'[p].pc = "migrating" /\ ~proc'[p].raced => proc'[p].seen = recorded
         /\ proc'[p].pc = "failed" => proc'[p].raced
         /\ proc'[p].pc \in Starting \cup {"listening", "draining"} => proc'[p].db = "open"
         /\ proc'[p].reqs > 0 => proc'[p].pc \in {"listening", "draining"}
         /\ proc'[p].polls > 0 /\ proc'[p].db = "closed" => proc'[p].late
         /\ proc'[p].pc = "crashed" => proc'[p].late
<1> DEFINE Goal(r) ==
         /\ r \in ProcType
         /\ r.seen \subseteq recorded
         /\ r.pc \notin Up => r.reqs = 0 /\ r.orphans = 0 /\ r.polls = 0
         /\ r.pc \in Up => proc[p].pc \in Up \/ Left(p) = {}
         /\ r.pc = "migrating" /\ ~r.raced => r.seen = recorded
         /\ r.pc = "failed" => r.raced
         /\ r.pc \in Starting \cup {"listening", "draining"} => r.db = "open"
         /\ r.reqs > 0 => r.pc \in {"listening", "draining"}
         /\ r.polls > 0 /\ r.db = "closed" => r.late
         /\ r.pc = "crashed" => r.late
<1>1. /\ proc[p] \in ProcType /\ recorded \subseteq Files /\ proc[p].seen \subseteq recorded
      /\ proc[p].pc \notin Up => proc[p].reqs = 0 /\ proc[p].orphans = 0 /\ proc[p].polls = 0
  BY DEF IInv, TypeOK, ProcType
<1>2. /\ proc[p].pc \in Starting \cup {"listening", "draining"} => proc[p].db = "open"
      /\ proc[p].reqs > 0 => proc[p].pc \in {"listening", "draining"}
      /\ proc[p].polls > 0 /\ proc[p].db = "closed" => proc[p].late
  BY DEF IInv, ServeInv
<1>3. proc[p].pc = "migrating" /\ ~proc[p].raced => proc[p].seen = recorded
  BY DEF IInv, SchemaInv, RaceInv
<1> USE DEF ProcType, Starting, Up, Ended
<1>4. ASSUME ReadApplied(p) PROVE \E r : Goal(r) /\ Become(p, r)
  <2> DEFINE r == [proc[p] EXCEPT !.pc = "migrating", !.seen = recorded]
  <2>1. Goal(r)
    BY <1>1, <1>2, <1>4 DEF ReadApplied
  <2> QED BY <1>4, <2>1 DEF ReadApplied
<1>5. ASSUME ApplyThrows(p) PROVE \E r : Goal(r) /\ Become(p, r)
  <2> DEFINE r == [proc[p] EXCEPT !.pc = "failed", !.db = "closed"]
  <2>1. proc[p].raced
    BY <1>3, <1>5 DEF ApplyThrows, IsNext, Left, IInv, SchemaInv, RecordedIsApplied
  <2>2. Goal(r)
    BY <1>1, <1>2, <1>5, <2>1 DEF ApplyThrows
  <2> QED BY <1>5, <2>2 DEF ApplyThrows
<1>6. ASSUME CliDone(p) PROVE \E r : Goal(r) /\ Become(p, r)
  <2> DEFINE r == [proc[p] EXCEPT !.pc = "done", !.db = "closed"]
  <2>1. Goal(r)
    BY <1>1, <1>2, <1>6 DEF CliDone
  <2> QED BY <1>6, <2>1 DEF CliDone
<1>7. ASSUME Listen(p) PROVE \E r : Goal(r) /\ Become(p, r)
  <2> DEFINE r == [proc[p] EXCEPT !.pc = "listening"]
  <2>1. Goal(r)
    BY <1>1, <1>2, <1>7 DEF Listen
  <2> QED BY <1>7, <2>1 DEF Listen
<1>8. ASSUME ListenThrows(p) PROVE \E r : Goal(r) /\ Become(p, r)
  <2> DEFINE r == [proc[p] EXCEPT !.pc = "portTaken", !.db = "closed"]
  <2>1. Goal(r)
    BY <1>1, <1>2, <1>8 DEF ListenThrows
  <2> QED BY <1>8, <2>1 DEF ListenThrows
<1>9. ASSUME Request(p) PROVE \E r : Goal(r) /\ Become(p, r)
  <2> DEFINE r == [proc[p] EXCEPT !.reqs = @ + 1]
  <2>1. Goal(r)
    BY <1>1, <1>2, <1>9 DEF Request
  <2> QED BY <1>9, <2>1 DEF Request
<1>10. ASSUME Answer(p) PROVE \E r : Goal(r) /\ Become(p, r)
  <2> DEFINE r == [proc[p] EXCEPT !.reqs = @ - 1]
  <2>1. Goal(r)
    BY <1>1, <1>2, <1>10 DEF Answer
  <2> QED BY <1>10, <2>1 DEF Answer
<1>11. ASSUME Abandon(p) PROVE \E r : Goal(r) /\ Become(p, r)
  <2> DEFINE r == [proc[p] EXCEPT !.reqs = @ - 1, !.orphans = @ + 1]
  <2> DEFINE c == [proc[p] EXCEPT !.reqs = @ - 1]
  <2>4. c \in ProcType /\ c.orphans = proc[p].orphans
    BY <1>1, <1>11 DEF Abandon
  <2>5. r = [c EXCEPT !.orphans = @ + 1]
    BY <1>1
  <2>6. ASSUME NEW d \in ProcType PROVE [d EXCEPT !.orphans = @ + 1] \in ProcType
    OBVIOUS
  <2> HIDE DEF c
  <2>1. r \in ProcType
    BY <2>4, <2>5, <2>6
  <2> USE DEF c
  <2>2. /\ r.pc = proc[p].pc /\ r.db = proc[p].db /\ r.seen = proc[p].seen
        /\ r.reqs = proc[p].reqs - 1 /\ r.orphans = proc[p].orphans + 1
        /\ r.polls = proc[p].polls /\ r.raced = proc[p].raced /\ r.late = proc[p].late
    BY <1>1
  <2>3. Goal(r)
    BY <1>1, <1>2, <1>11, <2>1, <2>2 DEF Abandon
  <2> QED BY <1>11, <2>3 DEF Abandon
<1>12. ASSUME OrphanEnds(p) PROVE \E r : Goal(r) /\ Become(p, r)
  <2> DEFINE r == [proc[p] EXCEPT !.orphans = @ - 1]
  <2>1. Goal(r)
    BY <1>1, <1>2, <1>3, <1>12 DEF OrphanEnds
  <2> QED BY <1>12, <2>1 DEF OrphanEnds
<1>13. ASSUME Tick(p) PROVE \E r : Goal(r) /\ Become(p, r)
  <2> DEFINE r == [proc[p] EXCEPT !.polls = @ + 1]
  <2>1. Goal(r)
    BY <1>1, <1>2, <1>13 DEF Tick
  <2> QED BY <1>13, <2>1 DEF Tick
<1>14. ASSUME PollEnds(p) PROVE \E r : Goal(r) /\ Become(p, r)
  <2> DEFINE r == [proc[p] EXCEPT !.polls = @ - 1]
  <2>1. Goal(r)
    BY <1>1, <1>2, <1>3, <1>14 DEF PollEnds
  <2> QED BY <1>14, <2>1 DEF PollEnds
<1>15. ASSUME PollThrows(p) PROVE \E r : Goal(r) /\ Become(p, r)
  <2> DEFINE r == [proc[p] EXCEPT !.pc = "crashed", !.reqs = 0, !.orphans = 0, !.polls = 0]
  <2>1. r \in ProcType
    BY <1>1, <1>15 DEF PollThrows
  <2>2. /\ r.pc = "crashed" /\ r.db = proc[p].db /\ r.seen = proc[p].seen
        /\ r.reqs = 0 /\ r.orphans = 0 /\ r.polls = 0
        /\ r.raced = proc[p].raced /\ r.late = proc[p].late
    BY <1>1
  <2>3. Goal(r)
    BY <1>1, <1>2, <1>15, <2>1, <2>2 DEF PollThrows
  <2> QED BY <1>15, <2>3 DEF PollThrows
<1>16. ASSUME Signal(p) PROVE \E r : Goal(r) /\ Become(p, r)
  <2> DEFINE r == [proc[p] EXCEPT !.pc = "draining"]
  <2>1. Goal(r)
    BY <1>1, <1>2, <1>16 DEF Signal
  <2> QED BY <1>16, <2>1 DEF Signal
<1>17. ASSUME CloseDb(p) PROVE \E r : Goal(r) /\ Become(p, r)
  <2> DEFINE r == [proc[p] EXCEPT !.pc = "closing", !.db = "closed", !.late = proc[p].polls > 0]
  <2>4. PICK b \in BOOLEAN : b <=> proc[p].polls > 0
    OBVIOUS
  <2>5. b = (proc[p].polls > 0)
    BY <2>4
  <2>6. r = [proc[p] EXCEPT !.pc = "closing", !.db = "closed", !.late = b]
    BY <2>5
  <2>1. r \in ProcType
    BY <1>1, <1>17, <2>6 DEF CloseDb
  <2>2. /\ r.pc = "closing" /\ r.db = "closed" /\ r.seen = proc[p].seen
        /\ r.reqs = proc[p].reqs /\ r.orphans = proc[p].orphans /\ r.polls = proc[p].polls
        /\ r.raced = proc[p].raced /\ r.late = b
    BY <1>1, <2>6
  <2>3. Goal(r)
    BY <1>1, <1>2, <1>17, <2>1, <2>2, <2>4 DEF CloseDb
  <2> QED BY <1>17, <2>3 DEF CloseDb
<1>18. ASSUME Exit(p) PROVE \E r : Goal(r) /\ Become(p, r)
  <2> DEFINE r == [proc[p] EXCEPT !.pc = "stopped", !.reqs = 0, !.orphans = 0, !.polls = 0]
  <2>1. r \in ProcType
    BY <1>1, <1>18 DEF Exit
  <2>2. /\ r.pc = "stopped" /\ r.db = proc[p].db /\ r.seen = proc[p].seen
        /\ r.reqs = 0 /\ r.orphans = 0 /\ r.polls = 0
        /\ r.raced = proc[p].raced /\ r.late = proc[p].late
    BY <1>1
  <2>3. Goal(r)
    BY <1>1, <1>2, <1>18, <2>1, <2>2 DEF Exit
  <2> QED BY <1>18, <2>3 DEF Exit
<1>19. PICK r : Goal(r) /\ Become(p, r)
  BY <1>4, <1>5, <1>6, <1>7, <1>8, <1>9, <1>10, <1>11, <1>12, <1>13, <1>14, <1>15, <1>16,
     <1>17, <1>18 DEF Own, Shutdown
<1>20. /\ ProcStep(p) /\ starts' = starts /\ kills' = kills
       /\ proc' \in [Processes -> ProcType]
       /\ proc'[p] = r
  BY <1>19, Becomes DEF IInv
<1> QED BY <1>19, <1>20

-----------------------------------------------------------------------------
(* The steps keep the invariant.                                           *)

(* A step of p alone keeps it if p's new record does.                      *)
LEMMA ProcStepPreserves ==
  ASSUME IInv, NEW p \in Processes, ProcStep(p),
         starts' \in 0 .. MaxStarts, kills' \in 0 .. MaxKills,
         proc' \in [Processes -> ProcType],
         proc'[p].seen \subseteq recorded,
         proc'[p].pc \notin Up =>
           proc'[p].reqs = 0 /\ proc'[p].orphans = 0 /\ proc'[p].polls = 0,
         proc'[p].pc \in Up => proc[p].pc \in Up \/ Left(p) = {},
         proc'[p].pc = "migrating" /\ ~proc'[p].raced => proc'[p].seen = recorded,
         proc'[p].pc = "failed" => proc'[p].raced,
         proc'[p].pc \in Starting \cup {"listening", "draining"} => proc'[p].db = "open",
         proc'[p].reqs > 0 => proc'[p].pc \in {"listening", "draining"},
         proc'[p].polls > 0 /\ proc'[p].db = "closed" => proc'[p].late,
         proc'[p].pc = "crashed" => proc'[p].late
  PROVE  IInv'
<1>1. UNCHANGED <<applied, recorded, onePort>> /\ \A q \in Processes \ {p} : proc'[q] = proc[q]
  BY DEF ProcStep
<1>2. TypeOK'
  BY <1>1 DEF IInv, TypeOK, ProcType
<1>3. RecordedIsApplied' /\ SchemaIsPrefix'
  BY <1>1 DEF IInv, SchemaInv, RecordedIsApplied, SchemaIsPrefix
<1>4. UpIsMigrated'
  <2>1. Left(p) = {} => applied = Files
    BY DEF Left, IInv, TypeOK, SchemaInv, RecordedIsApplied
  <2> QED BY <1>1, <2>1 DEF IInv, SchemaInv, UpIsMigrated
<1>5. RaceInv'
  BY <1>1 DEF IInv, SchemaInv, RaceInv
<1>6. ServeInv'
  BY <1>1 DEF IInv, ServeInv
<1> QED BY <1>2, <1>3, <1>4, <1>5, <1>6 DEF IInv, SchemaInv

LEMMA ApplyPreserves == ASSUME IInv, NEW p \in Processes, Apply(p) PROVE IInv'
<1> USE ProcessAssumption
<1>1. PICK f \in Files :
        /\ IsNext(p, f)
        /\ f \notin applied
        /\ applied' = applied \cup {f}
        /\ recorded' = recorded \cup {f}
        /\ proc' = [q \in Processes |->
                      CASE q = p -> [proc[q] EXCEPT !.seen = @ \cup {f}]
                        [] Raced(p, q) -> [proc[q] EXCEPT !.raced = TRUE]
                        [] OTHER -> proc[q]]
  BY DEF Apply
<1>2. proc[p].pc = "migrating" /\ UNCHANGED <<onePort, starts, kills>>
  BY DEF Apply
<1>3. /\ applied \subseteq Files /\ recorded = applied
      /\ proc \in [Processes -> ProcType]
      /\ \A q \in Processes : proc[q].seen \subseteq recorded
  BY DEF IInv, TypeOK, ProcType, SchemaInv, RecordedIsApplied
<1>4. \A q \in Processes :
        /\ proc'[q].pc = proc[q].pc /\ proc'[q].db = proc[q].db
        /\ proc'[q].reqs = proc[q].reqs /\ proc'[q].orphans = proc[q].orphans
        /\ proc'[q].polls = proc[q].polls /\ proc'[q].late = proc[q].late
  BY <1>1, <1>3 DEF ProcType
<1>5. /\ proc'[p].seen = proc[p].seen \cup {f} /\ proc'[p].raced = proc[p].raced
      /\ \A q \in Processes \ {p} :
           /\ proc'[q].seen = proc[q].seen
           /\ proc[q].pc = "migrating" => proc'[q].raced
           /\ proc[q].pc # "migrating" => proc'[q].raced = proc[q].raced
  BY <1>1, <1>3 DEF ProcType, Raced
<1>6. proc' \in [Processes -> ProcType]
  <2>1. \A q \in Processes : /\ [proc[q] EXCEPT !.seen = @ \cup {f}] \in ProcType
                             /\ [proc[q] EXCEPT !.raced = TRUE] \in ProcType
                             /\ proc[q] \in ProcType
    BY <1>3 DEF ProcType
  <2>2. \A q \in Processes : proc'[q] \in ProcType
    BY <1>1, <2>1
  <2> QED BY <1>1, <2>2
<1>7. TypeOK'
  <2>1. \A q \in Processes : proc'[q].seen \subseteq recorded'
    BY <1>1, <1>3, <1>5
  <2>2. \A q \in Processes : proc'[q].pc \notin Up =>
          proc'[q].reqs = 0 /\ proc'[q].orphans = 0 /\ proc'[q].polls = 0
    BY <1>4 DEF IInv, TypeOK
  <2> QED BY <1>1, <1>2, <1>3, <1>6, <2>1, <2>2 DEF IInv, TypeOK, ProcType
<1>8. RecordedIsApplied'
  BY <1>1, <1>3 DEF RecordedIsApplied
<1>9. SchemaIsPrefix'
  <2>1. ASSUME NEW e \in Files, e < f PROVE e \in applied
    <3>1. e \notin Left(p)
      BY <1>1, <2>1 DEF IsNext
    <3> QED BY <1>3, <3>1 DEF Left
  <2>2. \A e, g \in Files : e < g /\ g \in applied => e \in applied
    BY DEF IInv, SchemaInv, SchemaIsPrefix
  <2> QED BY <1>1, <2>1, <2>2 DEF SchemaIsPrefix
<1>10. UpIsMigrated'
  BY <1>1, <1>3, <1>4 DEF IInv, SchemaInv, UpIsMigrated
<1>11. RaceInv'
  <2>1. \A q \in Processes :
          /\ proc[q].pc = "migrating" /\ ~proc[q].raced => proc[q].seen = recorded
          /\ proc[q].pc = "failed" => proc[q].raced
    BY DEF IInv, SchemaInv, RaceInv
  <2>2. /\ proc'[p].pc = "migrating"
        /\ ~proc'[p].raced => proc'[p].seen = recorded'
    BY <1>1, <1>2, <1>4, <1>5, <2>1
  <2>3. ASSUME NEW q \in Processes \ {p}
        PROVE  /\ proc'[q].pc = "migrating" => proc'[q].raced
               /\ proc'[q].pc = "failed" => proc'[q].raced
    BY <1>4, <1>5, <2>1
  <2> QED BY <2>2, <2>3 DEF RaceInv
<1>12. ServeInv'
  BY <1>4 DEF IInv, ServeInv
<1> QED BY <1>7, <1>8, <1>9, <1>10, <1>11, <1>12 DEF IInv, SchemaInv

LEMMA NextInv == IInv /\ [Next]_vars => IInv'
<1> SUFFICES ASSUME IInv, [Next]_vars PROVE IInv'
  OBVIOUS
<1>1. ASSUME NEW p \in Processes, StartServer(p) \/ StartCli(p) PROVE IInv'
  <2>1. /\ ProcStep(p) /\ starts' \in 0 .. MaxStarts /\ kills' = kills
        /\ proc' \in [Processes -> ProcType]
        /\ proc'[p] \in {OpenDb, [Fresh EXCEPT !.pc = "misconfigured"]}
    BY <1>1, Starts DEF IInv
  <2>2. kills' \in 0 .. MaxKills
    BY <2>1 DEF IInv, TypeOK
  <2>3. /\ proc'[p].seen = {} /\ proc'[p].reqs = 0 /\ proc'[p].orphans = 0
        /\ proc'[p].polls = 0 /\ proc'[p].pc \in {"opened", "misconfigured"}
        /\ proc'[p].pc = "opened" => proc'[p].db = "open"
    BY <2>1 DEF OpenDb, Fresh
  <2> QED BY <2>1, <2>2, <2>3, ProcStepPreserves DEF Starting, Up
<1>2. ASSUME NEW p \in Processes, Own(p) PROVE IInv'
  <2>1. starts \in 0 .. MaxStarts /\ kills \in 0 .. MaxKills
    BY DEF IInv, TypeOK
  <2> QED BY <1>2, <2>1, OwnSteps, ProcStepPreserves
<1>3. ASSUME NEW p \in Processes, Kill(p) PROVE IInv'
  <2>1. ProcStep(p) /\ starts' = starts
    BY <1>3 DEF Kill, ProcStep, IInv, TypeOK
  <2>2. proc'[p] = [Fresh EXCEPT !.pc = "killed"] /\ proc' \in [Processes -> ProcType]
    BY <1>3 DEF Kill, IInv, TypeOK, ProcType, Fresh, Ended
  <2>3. starts' \in 0 .. MaxStarts /\ kills' \in 0 .. MaxKills
    BY <1>3, ProcessAssumption DEF Kill, IInv, TypeOK
  <2>4. /\ proc'[p].seen = {} /\ proc'[p].reqs = 0 /\ proc'[p].orphans = 0
        /\ proc'[p].polls = 0 /\ proc'[p].pc = "killed"
    BY <2>2 DEF Fresh
  <2>5. proc'[p].seen \subseteq recorded
    BY <2>4
  <2>6. /\ proc'[p].pc \notin Up \cup Starting \cup {"listening", "draining"}
        /\ proc'[p].pc # "crashed" /\ proc'[p].pc # "failed" /\ proc'[p].pc # "migrating"
        /\ ~(proc'[p].reqs > 0) /\ ~(proc'[p].polls > 0)
    BY <2>4 DEF Starting, Up
  <2> QED BY <2>1, <2>2, <2>3, <2>4, <2>5, <2>6, ProcStepPreserves
<1>4. CASE UNCHANGED vars
  BY <1>4 DEF vars, IInv, TypeOK, SchemaInv, RecordedIsApplied, SchemaIsPrefix, UpIsMigrated,
              RaceInv, ServeInv
<1> QED BY <1>1, <1>2, <1>3, <1>4, ApplyPreserves DEF Next, Boot, Own

LEMMA InvHolds == Spec => []IInv
<1>1. Spec => Init /\ [][Next]_vars
  BY PTL DEF Spec
<1> QED BY InitInv, NextInv, <1>1, PTL

-----------------------------------------------------------------------------

(* TypeOK holds in every reachable state.                                  *)
THEOREM TypeCorrect == Spec => []TypeOK
  BY InvHolds, PTL DEF IInv

(* schema_migrations always says what the schema is.                       *)
THEOREM RowsTellTables == Spec => []RecordedIsApplied
  BY InvHolds, PTL DEF IInv, SchemaInv

(* The files are applied in their order, whatever processes race.          *)
THEOREM FilesInOrder == Spec => []SchemaIsPrefix
  BY InvHolds, PTL DEF IInv, SchemaInv

(* A process that takes requests has the whole schema.                     *)
THEOREM ServesWholeSchema == Spec => []UpIsMigrated
  BY InvHolds, PTL DEF IInv, SchemaInv

(* A start fails in the migrations only if another process overtook it.    *)
THEOREM FailureMeansRace == Spec => []StartFailsOnlyByRace
<1>1. IInv => StartFailsOnlyByRace
  BY DEF IInv, SchemaInv, RaceInv, StartFailsOnlyByRace
<1> QED BY InvHolds, <1>1, PTL

(* No request with a client waiting for it meets a closed database.        *)
THEOREM ShutdownIsGraceful == Spec => []RequestsHaveDb
<1>1. IInv => RequestsHaveDb
  BY DEF IInv, ServeInv, RequestsHaveDb
<1> QED BY InvHolds, <1>1, PTL

(* The process crashes only by a poll that was under way at the closing.   *)
THEOREM CrashMeansLatePoll == Spec => []CrashOnlyByLatePoll
<1>1. IInv => CrashOnlyByLatePoll
  BY DEF IInv, ServeInv, CrashOnlyByLatePoll
<1> QED BY InvHolds, <1>1, PTL

=============================================================================
