--------------------------- MODULE RdbSaveProofs ----------------------------
(***************************************************************************)
(* Proofs about RdbSave, for every set of save points, every number of     *)
(* changes, incarnations and failures.                                     *)
(***************************************************************************)
EXTENDS RdbSave, TLAPS

\* A system call of rdbSave leaves the snapshot alone, keeps a partly written file
\* from reaching the rename, and ends in a renamed state only by the rename of a
\* file that still has its name.
LEMMA SaveStepFacts ==
  ASSUME NEW s \in Saver, NEW t \in Saver, SaveStep(s, t), failures \in Nat,
         s.st = "renaming" => s.temp # "partial"
  PROVE  /\ t.snap = s.snap /\ t.signal = s.signal
         /\ s.st \in Saving
         /\ t.st \in {"writing", "renaming", "renamed", "err"}
         /\ t.st = "renaming" => t.temp # "partial"
         /\ t.st = "renamed" => s.st = "renaming" /\ s.temp = "whole" /\ t.temp = "none"
         /\ s.temp = "none" => t.temp = "none" \/ s.st = "start"
         /\ failures' \in Nat
<1>1. CASE OpenTemp(s, t)
  BY <1>1 DEF OpenTemp, At, Works, Fails, Saver, Saving
<1>2. CASE WriteTemp(s, t)
  BY <1>2 DEF WriteTemp, At, Works, Fails, Saver, Saving
<1>3. CASE RenameTemp(s, t)
  BY <1>3 DEF RenameTemp, At, Works, Fails, Saver, Saving
<1>4. QED
  BY <1>1, <1>2, <1>3 DEF SaveStep

\* What At, Killed, Started and Idle build are savers.
LEMMA SaverTypes ==
  /\ Idle \in Saver /\ Idle.st = "none"
  /\ \A n \in Nat : Started(n) \in Saver
  /\ \A s \in Saver : Killed(s) \in Saver
  /\ \A s \in Saver : \A st \in {"none"} \cup Running \cup Finished :
       \A temp \in {"none", "partial", "whole"} : At(s, st, temp) \in Saver
BY DEF Idle, Started, Killed, At, Saver, Running

\* A server that starts on a complete dump.rdb satisfies the invariant.
LEMMA InitSaveInv == Init => SaveInv
<1> SUFFICES ASSUME Init PROVE SaveInv
  OBVIOUS
<1>1. Idle \in Saver /\ Idle.st = "none"
  BY DEF Idle, Saver
<1>2. TypeOK
  <2>1. inc \in Incs /\ sinceTry \in Nat
    BY RdbSaveAssumption DEF Init, Incs
  <2>2. kid \in [Incs -> Saver] /\ main \in Saver
    BY <1>1 DEF Init
  <2>3. asap \in BOOLEAN
    BY DEF Init
  <2>4. QED
    BY <2>1, <2>2, <2>3 DEF Init, TypeOK
<1>3. \A i \in Incs : kid[i] = Idle
  BY DEF Init
<1>4. inc \in Incs
  BY <1>2 DEF TypeOK
<1>5. QED
  BY <1>1, <1>2, <1>3, <1>4
     DEF Init, SaveInv, CrashLossBound, DumpNeverTorn, ShutdownDumpIsFinal, Saving, NoRename

\* The actions of the main thread that leave the child and the disk alone.
LEMMA MainSteps ==
  ASSUME SaveInv,
         \/ Change \/ CronBegin \/ CronWait \/ Exit
         \/ SigTerm \/ SigIntAgain \/ Crash \/ Loaded \/ Tick
  PROVE  SaveInv'
<1> USE DEF SaveInv, TypeOK, CrashLossBound, DumpNeverTorn, ShutdownDumpIsFinal,
            NoRename, server, time, disk
<1>1. CASE Change
  BY <1>1 DEF Change, Saver
<1>2. CASE CronBegin
  BY <1>2 DEF CronBegin
<1>3. CASE CronWait
  BY <1>3 DEF CronWait
<1>4. CASE Exit
  BY <1>4 DEF Exit
<1>5. CASE SigTerm
  BY ZenonT(60), <1>5 DEF SigTerm, Die
<1>6. CASE Crash
  BY <1>6 DEF Crash, Die
<1>7. CASE Loaded
  BY <1>7 DEF Loaded
<1>8. CASE Tick
  BY <1>8, RdbSaveAssumption DEF Tick, Older
<1>9. CASE SigIntAgain
  <2>1. main' = At(main, main.st, "none") /\ UNCHANGED <<inc, server, time, kid, disk, failures>>
    BY <1>9 DEF SigIntAgain
  <2>2. main' \in Saver
    <3>1. main \in Saver /\ main.st \in {"none"} \cup Running \cup Finished
      BY DEF Saver
    <3>2. QED
      BY <2>1, <3>1, SaverTypes
  <2>3. main'.st = main.st /\ main'.snap = main.snap /\ main'.temp = "none"
    BY <2>1 DEF At
  <2>4. pc' = "down"
    BY <1>9 DEF SigIntAgain
  <2>5. QED
    BY <2>1, <2>2, <2>3, <2>4
<1>10. QED
  BY <1>1, <1>2, <1>3, <1>4, <1>5, <1>6, <1>7, <1>8, <1>9

\* serverCron forks a child, or reaps the one it has.
LEMMA CronSteps ==
  ASSUME SaveInv, CronSave \/ CronReap
  PROVE  SaveInv'
<1> USE DEF SaveInv, TypeOK, CrashLossBound, DumpNeverTorn, ShutdownDumpIsFinal,
            NoRename, server, time, disk
<1>1. CASE CronSave /\ SavePointReached /\ Works
  <2>1. kid' = [kid EXCEPT ![inc] = Started(changes)] /\ status' = status
    BY <1>1 DEF CronSave, RdbSaveBackground, Works, Fails
  <2>2. kid' \in [Incs -> Saver]
    BY <2>1, SaverTypes
  <2>3. \A i \in Incs : i # inc => kid'[i] = kid[i]
    BY <2>1
  <2>4. /\ kid'[inc].st = "start" /\ kid'[inc].snap = changes
        /\ "start" \notin {"none", "renaming", "renamed", "ok"}
    BY <2>1 DEF Started
  <2>5. dirtyBefore' = dirty /\ dirty' = dirty /\ changes' = changes
    BY <1>1 DEF CronSave, RdbSaveBackground
  <2>6. QED
    BY <1>1, <2>1, <2>2, <2>3, <2>4, <2>5 DEF CronSave, RdbSaveBackground, Works, Incs
<1>2. CASE CronSave /\ SavePointReached /\ Fails
  BY <1>2 DEF CronSave, RdbSaveBackground, Works, Fails
<1>3. CASE CronSave /\ ~SavePointReached
  BY <1>3 DEF CronSave
<1>4. CASE CronReap
  <2>1. kid[inc].st # "none" /\ main.st = "none" /\ kid[inc].snap \in Nat
    BY <1>4 DEF CronReap, Finished, Saver
  <2>2. dirty' \in Nat /\ changes' - saved' <= dirty'
    BY <1>4, <2>1 DEF CronReap, DirtyAfter
  <2>3. kid' \in [Incs -> Saver] /\ kid'[inc] = Idle
    BY <1>4, SaverTypes DEF CronReap
  <2>4. \A i \in Incs : i # inc => kid'[i] = kid[i]
    BY <1>4 DEF CronReap
  <2>5. status' \in {"ok", "err"} /\ sinceSave' \in Nat
    BY <1>4 DEF CronReap
  <2>6. QED
    BY <1>4, <2>1, <2>2, <2>3, <2>4, <2>5, SaverTypes DEF CronReap
<1>5. QED
  BY <1>1, <1>2, <1>3, <1>4 DEF CronSave, RdbSaveBackground

\* prepareForShutdown deals with the child, then a new incarnation starts.
LEMMA ShutdownSteps ==
  ASSUME SaveInv, KillChild \/ RemoveTempFile \/ Start
  PROVE  SaveInv'
<1> USE DEF SaveInv, TypeOK, CrashLossBound, DumpNeverTorn, ShutdownDumpIsFinal,
            NoRename, server, time, disk
<1>1. CASE KillChild
  <2>1. CASE kid[inc].st \in Running
    <3>1. kid' = [kid EXCEPT ![inc] = Killed(kid[inc])]
      BY <1>1, <2>1 DEF KillChild
    <3>2. kid' \in [Incs -> Saver]
      BY <3>1, SaverTypes
    <3>3. /\ kid'[inc].st = kid[inc].st /\ kid'[inc].snap = kid[inc].snap
          /\ kid'[inc].temp = kid[inc].temp /\ kid'[inc].signal = "usr1"
      BY <3>1 DEF Killed
    <3>4. \A i \in Incs : i # inc => kid'[i] = kid[i]
      BY <3>1
    <3>5. QED
      BY <1>1, <3>2, <3>3, <3>4 DEF KillChild, Incs
  <2>2. CASE kid[inc].st \notin Running
    BY <1>1, <2>2 DEF KillChild, Saver
  <2>3. QED
    BY <2>1, <2>2
<1>2. CASE RemoveTempFile
  <2>1. kid' = [kid EXCEPT ![inc] = At(kid[inc], kid[inc].st, "none")]
    BY <1>2 DEF RemoveTempFile
  <2>2. kid' \in [Incs -> Saver] /\ main' \in Saver
    <3>1. kid[inc] \in Saver /\ kid[inc].st \in {"none"} \cup Running \cup Finished
      BY DEF Saver
    <3>2. At(kid[inc], kid[inc].st, "none") \in Saver
      BY <3>1, SaverTypes
    <3>3. QED
      BY <1>2, <2>1, <3>2, SaverTypes DEF RemoveTempFile
  <2>3. /\ kid'[inc].st = kid[inc].st /\ kid'[inc].snap = kid[inc].snap
        /\ kid'[inc].temp = "none" /\ kid'[inc].signal = kid[inc].signal
    BY <2>1 DEF At
  <2>4. \A i \in Incs : i # inc => kid'[i] = kid[i]
    BY <2>1
  <2>5. main'.st = "start" /\ main'.snap = changes
    BY <1>2 DEF RemoveTempFile, Started
  <2>6. QED
    BY <1>2, <2>2, <2>3, <2>4, <2>5 DEF RemoveTempFile, Saving, Incs
<1>3. CASE Start
  <2>1. inc' \in Incs /\ sinceTry' \in Nat /\ inc' > inc
    BY <1>3, RdbSaveAssumption DEF Start, Incs
  <2>2. kid'[inc'] = Idle /\ main' = Idle
    BY <1>3, <2>1 DEF Start
  <2>3. \A i \in Incs : i > inc' => i > inc
    BY <2>1 DEF Incs
  <2>4. asap' \in BOOLEAN
    BY <1>3 DEF Start
  <2>5. TypeOK'
    BY <1>3, <2>1, <2>2, <2>4, SaverTypes DEF Start
  <2>6. QED
    BY <1>3, <2>1, <2>2, <2>3, <2>5, SaverTypes DEF Start
<1>4. QED
  BY <1>1, <1>2, <1>3

\* The synchronous save: the child can rename nothing any more, so what this step
\* renames stays the last snapshot of the incarnation.
LEMMA FinalSaveStep ==
  ASSUME SaveInv, FinalSave
  PROVE  SaveInv'
<1> USE DEF SaveInv, TypeOK, CrashLossBound, DumpNeverTorn, ShutdownDumpIsFinal,
            NoRename, server, time, disk
<1>1. PICK t \in [st : Running \cup Finished, snap : {main.snap},
                  temp : {"none", "partial", "whole"}, signal : {"none"}] :
        /\ SaveStep(main, t)
        /\ Publish(inc, main, t)
        /\ main' = IF t.st = "err" THEN Idle ELSE t
        /\ pc' = CASE t.st = "renamed" -> "exit"
                   [] t.st = "err" -> "cron"
                   [] OTHER -> "save"
        /\ asap' = (asap /\ t.st # "err")
        /\ dirty' = IF t.st = "renamed" THEN 0 ELSE dirty
        /\ sinceSave' = IF t.st = "renamed" THEN 0 ELSE sinceSave
        /\ status' = IF t.st = "renamed" THEN "ok" ELSE status
  BY DEF FinalSave
<1>2. /\ pc = "save" /\ inc' = inc /\ changes' = changes /\ dirtyBefore' = dirtyBefore
      /\ sinceTry' = sinceTry /\ kid' = kid
  BY DEF FinalSave
<1>3. t \in Saver
  BY DEF Saver
<1>4. /\ t.snap = main.snap
      /\ t.st \in {"writing", "renaming", "renamed", "err"}
      /\ t.st = "renaming" => t.temp # "partial"
      /\ t.st = "renamed" => main.st = "renaming" /\ main.temp = "whole"
      /\ failures' \in Nat
  BY <1>1, <1>3, SaveStepFacts
<1>5. main' \in Saver
  BY <1>1, <1>3, SaverTypes
<1>6. asap' \in BOOLEAN
  BY <1>1
<1>7. CASE t.st = "renamed"
  <2>1. dump' = [inc |-> inc, upto |-> main.snap, data |-> "whole"] /\ saved' = main.snap
    BY <1>1, <1>4, <1>7 DEF Publish
  <2>2. main'.st = "renamed" /\ main'.snap = changes /\ pc' = "exit" /\ dirty' = 0
    BY <1>1, <1>2, <1>4, <1>7 DEF Saving
  <2>3. main.snap = changes /\ main.st # "none" /\ main.snap \in Nat
    BY <1>2 DEF Saving
  <2>4. dump' \in [inc : Nat, upto : Nat, data : {"partial", "whole"}]
    BY <2>1, <2>3 DEF Incs
  <2>5. TypeOK'
    BY <1>1, <1>2, <1>4, <1>5, <1>6, <1>7, <2>1, <2>2, <2>3, <2>4
  <2>6. QED
    BY <1>2, <2>1, <2>2, <2>3, <2>5
<1>8. CASE t.st = "err"
  <2>1. UNCHANGED disk /\ main' = Idle /\ pc' = "cron" /\ dirty' = dirty
    BY <1>1, <1>8 DEF Publish
  <2>2. main.st # "renamed" /\ main.st # "none"
    BY <1>2 DEF Saving
  <2>3. TypeOK'
    BY <1>1, <1>2, <1>4, <1>5, <1>6, <1>8, <2>1
  <2>4. QED
    BY <1>2, <1>8, <2>1, <2>2, <2>3, SaverTypes DEF Saving
<1>9. CASE t.st \in {"writing", "renaming"}
  <2>1. UNCHANGED disk /\ main' = t /\ pc' = "save" /\ dirty' = dirty
    BY <1>1, <1>9 DEF Publish
  <2>2. main.st # "renamed" /\ main.st # "none"
    BY <1>2 DEF Saving
  <2>3. TypeOK'
    BY <1>1, <1>2, <1>4, <1>5, <1>6, <1>9, <2>1
  <2>4. QED
    BY <1>2, <1>4, <1>9, <2>1, <2>2, <2>3 DEF Saving
<1>10. QED
  BY <1>4, <1>7, <1>8, <1>9

\* A child, of this or of an earlier incarnation, makes a system call of rdbSave.
LEMMA KidSaveStep ==
  ASSUME SaveInv, NEW i \in Incs, KidSave(i)
  PROVE  SaveInv'
<1> USE DEF SaveInv, TypeOK, CrashLossBound, DumpNeverTorn, ShutdownDumpIsFinal,
            NoRename, server, time, disk
<1>1. PICK t \in [st : Running \cup Finished, snap : {kid[i].snap},
                  temp : {"none", "partial", "whole"}, signal : {kid[i].signal}] :
        /\ SaveStep(kid[i], t)
        /\ kid' = [kid EXCEPT ![i] = IF t.signal = "usr1" THEN At(t, "usr1", t.temp) ELSE t]
        /\ Publish(i, kid[i], t)
  BY DEF KidSave
<1>2. UNCHANGED <<inc, pc, server, time, main>>
  BY DEF KidSave
<1>3. kid[i] \in Saver /\ t \in Saver
  BY DEF Saver
<1>4. /\ t.snap = kid[i].snap /\ t.signal = kid[i].signal
      /\ kid[i].st \in Saving
      /\ t.st \in {"writing", "renaming", "renamed", "err"}
      /\ t.st = "renaming" => t.temp # "partial"
      /\ t.st = "renamed" => kid[i].st = "renaming" /\ kid[i].temp = "whole"
      /\ failures' \in Nat
  BY <1>1, <1>3, SaveStepFacts
<1>5. kid' \in [Incs -> Saver] /\ \A n \in Incs : n # i => kid'[n] = kid[n]
  <2>1. At(t, "usr1", t.temp) \in Saver
    BY <1>3 DEF At, Saver, Finished
  <2>2. QED
    BY <1>1, <1>3, <2>1
<1>6. /\ kid'[i].snap = kid[i].snap /\ kid'[i].signal = kid[i].signal
      /\ kid'[i].st = (IF kid[i].signal = "usr1" THEN "usr1" ELSE t.st)
      /\ kid'[i].temp = t.temp
  BY <1>1, <1>4 DEF At
<1>7. i <= inc /\ i \in Nat /\ inc \in Nat
  BY <1>4 DEF Idle, Saving, Incs
<1>8. i = inc /\ main.st # "none" => t.st # "renamed" /\ kid[i].signal = "usr1"
  BY <1>4 DEF Saving, Finished
<1>9. IF t.st = "renamed"
      THEN /\ dump' = [inc |-> i, upto |-> kid[i].snap, data |-> "whole"]
           /\ saved' = IF i = inc THEN kid[i].snap ELSE saved
      ELSE UNCHANGED disk
  BY <1>1, <1>4 DEF Publish
<1>10. TypeOK'
  <2>1. kid[i].snap \in Nat
    BY <1>3 DEF Saver
  <2>2. dump' \in [inc : Nat, upto : Nat, data : {"partial", "whole"}] /\ saved' \in Nat
    BY <1>7, <1>9, <2>1
  <2>3. QED
    BY <1>2, <1>4, <1>5, <2>2
<1>11. /\ kid[i].st \notin {"none", "ok", "renamed"}
       /\ kid'[i].st \notin {"none", "ok"}
       /\ kid'[i].st = "renamed" => t.st = "renamed"
       /\ kid'[i].st = "renaming" => t.st = "renaming"
  BY <1>4, <1>6 DEF Saving
<1>12. CrashLossBound' /\ DumpNeverTorn' /\ ShutdownDumpIsFinal'
  <2>1. CASE t.st = "renamed" /\ i = inc
    <3>1. main.st = "none"
      BY <1>8, <2>1
    <3>2. changes - kid[inc].snap = dirty - dirtyBefore /\ kid[inc].snap \in Nat
      BY <1>3, <1>11, <2>1, <3>1 DEF Saver
    <3>3. QED
      BY <1>2, <1>9, <2>1, <3>1, <3>2
  <2>2. CASE ~(t.st = "renamed" /\ i = inc)
    BY <1>2, <1>9, <2>2
  <2>3. QED
    BY <2>1, <2>2
<1>13. \A n \in Incs : n > inc' => kid'[n] = Idle
  BY <1>2, <1>5, <1>7 DEF Incs
<1>14. \A n \in Incs : kid'[n].st = "renaming" => kid'[n].temp # "partial"
  BY <1>4, <1>5, <1>6, <1>11
<1>15. pc' = "unlink" => kid'[inc'].st \in {"none"} \cup Finished \/ kid'[inc'].signal = "usr1"
  BY <1>2, <1>4, <1>5, <1>6 DEF Finished, Saving
<1>16. main'.st # "none" => NoRename(kid'[inc'])
  <2>1. CASE i = inc
    BY <1>2, <1>6, <1>8, <2>1 DEF Finished
  <2>2. CASE i # inc
    BY <1>2, <1>5, <2>2
  <2>3. QED
    BY <2>1, <2>2
<1>17. kid'[inc'].st # "none" /\ main'.st # "renamed" =>
         /\ dirtyBefore' <= dirty'
         /\ changes' - kid'[inc'].snap = dirty' - dirtyBefore'
         /\ kid'[inc'].st \in {"renamed", "ok"} => saved' = kid'[inc'].snap
  <2>1. CASE i = inc
    BY <1>2, <1>6, <1>9, <1>11, <2>1
  <2>2. CASE i # inc
    BY <1>2, <1>5, <1>9, <2>2
  <2>3. QED
    BY <2>1, <2>2
<1>18. QED
  BY <1>2, <1>10, <1>12, <1>13, <1>14, <1>15, <1>16, <1>17

\* A child ends: by itself, by SIGUSR1 or by the system.
LEMMA KidEnds ==
  ASSUME SaveInv, NEW i \in Incs, KidExit(i) \/ KidDies(i) \/ KidKilledBySystem(i)
  PROVE  SaveInv'
<1> USE DEF SaveInv, TypeOK, CrashLossBound, DumpNeverTorn, ShutdownDumpIsFinal,
            NoRename, server, time, disk
<1>1. PICK st \in Finished :
        /\ kid' = [kid EXCEPT ![i] = At(kid[i], st, kid[i].temp)]
        /\ st = "ok" => kid[i].st = "renamed" /\ kid[i].signal # "usr1"
  <2>1. CASE KidExit(i)
    BY <2>1 DEF KidExit, Finished
  <2>2. CASE KidDies(i)
    BY <2>2 DEF KidDies, Finished
  <2>3. CASE KidKilledBySystem(i)
    BY <2>3 DEF KidKilledBySystem, Finished
  <2>4. QED
    BY <2>1, <2>2, <2>3
<1>2. kid[i].st \in Running
  BY DEF KidExit, KidDies, KidKilledBySystem, Running
<1>3. UNCHANGED <<inc, pc, server, time, main, disk>> /\ failures' \in Nat
  BY DEF KidExit, KidDies, KidKilledBySystem, Fails
<1>4. kid' \in [Incs -> Saver] /\ \A n \in Incs : n # i => kid'[n] = kid[n]
  <2>1. kid[i] \in Saver /\ kid[i].temp \in {"none", "partial", "whole"}
    BY DEF Saver
  <2>2. At(kid[i], st, kid[i].temp) \in Saver
    BY <2>1, SaverTypes
  <2>3. QED
    BY <1>1, <2>2
<1>5. /\ kid'[i].st = st /\ kid'[i].snap = kid[i].snap
      /\ st \notin {"none", "renaming", "renamed"}
  BY <1>1 DEF At, Finished
<1>6. kid[i].st # "none" /\ i <= inc
  BY <1>2 DEF Running, Idle, Incs
<1>7. QED
  BY <1>1, <1>3, <1>4, <1>5, <1>6 DEF Incs

\* Every step of the server, of its children and of the system keeps the invariant.
LEMMA NextSaveInv == SaveInv /\ [Next]_vars => SaveInv'
<1> SUFFICES ASSUME SaveInv, [Next]_vars PROVE SaveInv'
  OBVIOUS
<1>1. CASE Change \/ Cron \/ Shutdown
  BY <1>1, MainSteps, CronSteps, ShutdownSteps, FinalSaveStep DEF Cron, Shutdown
<1>2. CASE Signals \/ Start \/ Loaded \/ Tick
  BY <1>2, MainSteps, ShutdownSteps DEF Signals
<1>3. ASSUME NEW i \in Incs, Kid(i) \/ KidKilledBySystem(i) PROVE SaveInv'
  BY <1>3, KidSaveStep, KidEnds DEF Kid
<1>4. CASE UNCHANGED vars
  BY <1>4 DEF vars, server, time, disk, SaveInv, TypeOK, CrashLossBound, DumpNeverTorn,
              ShutdownDumpIsFinal, NoRename
<1>5. QED
  BY <1>1, <1>2, <1>3, <1>4 DEF Next

\* The strengthened invariant holds in every reachable state of the server, its
\* saving children and the disk.
THEOREM SaveInvariant == Spec => []SaveInv
  BY InitSaveInv, NextSaveInv, PTL DEF Spec

\* Every variable keeps its type; in particular server.dirty, from which the handler
\* of a finished child subtracts dirty_before_bgsave, never becomes negative.
THEOREM TypeCorrect == Spec => []TypeOK
<1>1. SaveInv => TypeOK
  BY DEF SaveInv
<1>2. QED
  BY <1>1, SaveInvariant, PTL

\* A crash at any moment loses at most server.dirty changes beyond the last snapshot
\* that this incarnation of the server renamed to dump.rdb.
THEOREM CrashLosesAtMostDirty == Spec => []CrashLossBound
<1>1. SaveInv => CrashLossBound
  BY DEF SaveInv
<1>2. QED
  BY <1>1, SaveInvariant, PTL

\* dump.rdb always holds a completely written snapshot.
THEOREM DumpIsWhole == Spec => []DumpNeverTorn
<1>1. SaveInv => DumpNeverTorn
  BY DEF SaveInv
<1>2. QED
  BY <1>1, SaveInvariant, PTL

\* The snapshot of a clean shutdown is never replaced by the child that
\* prepareForShutdown killed.
THEOREM ShutdownSaveIsFinal == Spec => []ShutdownDumpIsFinal
<1>1. SaveInv => ShutdownDumpIsFinal
  BY DEF SaveInv
<1>2. QED
  BY <1>1, SaveInvariant, PTL

=============================================================================
