------------------------------ MODULE RdbSave -------------------------------
(***************************************************************************)
(* Persistence of the key space: the save points serverCron checks, the    *)
(* background saving child, the synchronous save of a clean shutdown, and  *)
(* the signals, crashes and restarts around them.                          *)
(*                                                                         *)
(* The data set is abstracted to a pair: the incarnation (run) of the      *)
(* server that wrote it and how many changes that incarnation had made.    *)
(* The child shares nothing with the server but the file system; the child *)
(* of a dead incarnation lives on until its save is over.                  *)
(***************************************************************************)
EXTENDS Integers

CONSTANTS
  SaveParams,   \* server.saveparams: records [seconds, changes]
  RetryDelay,   \* CONFIG_BGSAVE_RETRY_DELAY
  MaxAge,       \* bound: ages saturate here, above every delay compared with
  MaxChanges,   \* bound: changes per incarnation
  MaxInc,       \* bound: incarnations
  MaxFailures   \* bound: failed forks, writes and kills by the system

ASSUME RdbSaveAssumption ==
  /\ SaveParams # {} /\ SaveParams \subseteq [seconds : Nat, changes : Nat]
  /\ RetryDelay \in Nat /\ MaxAge \in Nat
  /\ MaxChanges \in Nat /\ MaxFailures \in Nat
  /\ MaxInc \in Nat \ {0}

VARIABLES
  inc,          \* the current incarnation
  pc,           \* where its main thread is, "down" when there is none
  changes,      \* history: changes made by this incarnation
  dirty,        \* server.dirty
  dirtyBefore,  \* server.dirty_before_bgsave
  sinceSave,    \* server.unixtime - server.lastsave, saturated
  sinceTry,     \* server.unixtime - server.lastbgsave_try, saturated
  status,       \* server.lastbgsave_status
  asap,         \* server.shutdown_asap
  main,         \* the rdbSave of prepareForShutdown
  kid,          \* kid[i]: the saving child of incarnation i
  dump,         \* dump.rdb
  saved,        \* history: the last snapshot of this incarnation renamed to dump.rdb
  failures      \* counter for the bound

time   == <<sinceSave, sinceTry>>
server == <<changes, dirty, dirtyBefore, status, asap>>
disk   == <<dump, saved>>
vars   == <<inc, pc, server, time, main, kid, disk, failures>>

Incs     == 1 .. MaxInc
Running  == {"start", "writing", "renaming", "renamed"}
Finished == {"ok", "err", "usr1", "sig"}   \* exit code 0, 1; killed by SIGUSR1, by another

\* rdb_child_pid is -1 exactly when there is no entry to wait for.
Idle       == [st |-> "none", snap |-> 0, temp |-> "none", signal |-> "none"]
Started(n) == [st |-> "start", snap |-> n, temp |-> "none", signal |-> "none"]

-----------------------------------------------------------------------------
(* rdbSave, for the child and for the shutdown alike: t may follow s.      *)

Fails == failures < MaxFailures /\ failures' = failures + 1
Works == failures' = failures

\* Saver s, having reached st and left its temporary file as temp.
At(s, st, temp) == [st |-> st, snap |-> s.snap, temp |-> temp, signal |-> s.signal]

OpenTemp(s, t) ==
  /\ s.st = "start"
  /\ \/ Works /\ t = At(s, "writing", "partial")
     \/ Fails /\ t = At(s, "err", s.temp)

\* Variant that goes on to the rename after a write error.
WriteTempUnchecked(s, t) ==
  /\ s.st = "writing"
  /\ \/ Works /\ t = At(s, "renaming", IF s.temp = "none" THEN "none" ELSE "whole")
     \/ Fails /\ t = At(s, "renaming", s.temp)

\* An unlinked file can still be written and synced, but has no name to rename.
WriteTemp(s, t) ==
  /\ s.st = "writing"
  /\ \/ Works /\ t = At(s, "renaming", IF s.temp = "none" THEN "none" ELSE "whole")
     \/ Fails /\ t = At(s, "err", "none")

RenameTemp(s, t) ==
  /\ s.st = "renaming"
  /\ \/ Works /\ t = At(s, IF s.temp = "none" THEN "err" ELSE "renamed", "none")
     \/ Fails /\ t = At(s, "err", "none")

SaveStep(s, t) == OpenTemp(s, t) \/ WriteTemp(s, t) \/ RenameTemp(s, t)

\* The effect on dump.rdb of the step from s to t in a process of incarnation i.
Publish(i, s, t) ==
  IF s.st = "renaming" /\ t.st = "renamed"
  THEN /\ dump' = [inc |-> i, upto |-> s.snap, data |-> s.temp]
       /\ saved' = IF i = inc THEN s.snap ELSE saved
  ELSE UNCHANGED disk

-----------------------------------------------------------------------------
(* The saving child of incarnation i.                                      *)

\* A pending SIGUSR1 lets the system call in progress finish and nothing more.
KidSave(i) ==
  \E t \in [st : Running \cup Finished, snap : {kid[i].snap},
            temp : {"none", "partial", "whole"}, signal : {kid[i].signal}] :
    /\ SaveStep(kid[i], t)
    /\ kid' = [kid EXCEPT ![i] = IF t.signal = "usr1" THEN At(t, "usr1", t.temp) ELSE t]
    /\ Publish(i, kid[i], t)
    /\ UNCHANGED <<inc, pc, server, time, main>>

KidExit(i) ==
  /\ kid[i].st = "renamed"
  /\ kid' = [kid EXCEPT ![i] =
               At(kid[i], IF kid[i].signal = "usr1" THEN "usr1" ELSE "ok", kid[i].temp)]
  /\ UNCHANGED <<inc, pc, server, time, main, disk, failures>>

\* SIGUSR1 takes effect before the next system call.
KidDies(i) ==
  /\ kid[i].st \in Running /\ kid[i].signal = "usr1"
  /\ kid' = [kid EXCEPT ![i] = At(kid[i], "usr1", kid[i].temp)]
  /\ UNCHANGED <<inc, pc, server, time, main, disk, failures>>

\* The system kills the child, for instance for want of memory.
KidKilledBySystem(i) ==
  /\ kid[i].st \in Running /\ Fails
  /\ kid' = [kid EXCEPT ![i] = At(kid[i], "sig", kid[i].temp)]
  /\ UNCHANGED <<inc, pc, server, time, main, disk>>

Kid(i) == KidSave(i) \/ KidExit(i) \/ KidDies(i)

-----------------------------------------------------------------------------
(* The main thread.                                                        *)

\* A SET executed by initContents.
Change ==
  /\ pc = "loop" /\ changes < MaxChanges
  /\ changes' = changes + 1
  /\ dirty' = dirty + 1
  /\ UNCHANGED <<inc, pc, dirtyBefore, status, asap, time, main, kid, disk, failures>>

\* Variant that does not look at shutdown_asap.
CronBeginDeaf ==
  /\ pc = "loop"
  /\ pc' = "cron"
  /\ UNCHANGED <<inc, server, time, main, kid, disk, failures>>

\* serverCron begins: a requested shutdown comes first.
CronBegin ==
  /\ pc = "loop"
  /\ pc' = IF asap THEN "kill" ELSE "cron"
  /\ UNCHANGED <<inc, server, time, main, kid, disk, failures>>

\* Variant that remembers every change ever made, not only the unsaved ones.
RdbSaveBackgroundTotal ==
  /\ dirtyBefore' = changes
  /\ sinceTry' = 0
  /\ Works
  /\ kid' = [kid EXCEPT ![inc] = Started(changes)]
  /\ UNCHANGED status

\* rdbSaveBackground; the clock it reads into lastbgsave_try is "now".
RdbSaveBackground ==
  /\ dirtyBefore' = dirty
  /\ sinceTry' = 0
  /\ \/ /\ Works
        /\ kid' = [kid EXCEPT ![inc] = Started(changes)]
        /\ UNCHANGED status
     \/ /\ Fails
        /\ status' = "err"
        /\ UNCHANGED kid

\* Variant that never tries again after an error.
SavePointNoRetry ==
  \E sp \in SaveParams :
    /\ dirty >= sp.changes
    /\ sinceSave > sp.seconds
    /\ status = "ok"

SavePointReached ==
  \E sp \in SaveParams :
    /\ dirty >= sp.changes
    /\ sinceSave > sp.seconds
    /\ sinceTry > RetryDelay \/ status = "ok"

\* No child: check the save points.
CronSave ==
  /\ pc = "cron" /\ kid[inc].st = "none"
  /\ pc' = "loop"
  /\ IF SavePointReached
     THEN RdbSaveBackground /\ UNCHANGED sinceSave
     ELSE UNCHANGED <<dirtyBefore, sinceSave, sinceTry, status, kid, failures>>
  /\ UNCHANGED <<inc, changes, dirty, asap, main, disk>>

\* wait3 with WNOHANG: the child is still at work.
CronWait ==
  /\ pc = "cron" /\ kid[inc].st \in Running
  /\ pc' = "loop"
  /\ UNCHANGED <<inc, server, time, main, kid, disk, failures>>

\* Variant that resets the counter.
DirtyReset(outcome) == IF outcome = "ok" THEN 0 ELSE dirty

DirtyAfter(outcome) == IF outcome = "ok" THEN dirty - dirtyBefore ELSE dirty

\* wait3 reports the child: backgroundSaveDoneHandlerDisk.
CronReap ==
  LET outcome == kid[inc].st
  IN  /\ pc = "cron" /\ outcome \in Finished
      /\ pc' = "loop"
      /\ dirty' = DirtyAfter(outcome)
      /\ sinceSave' = IF outcome = "ok" THEN 0 ELSE sinceSave
      /\ status' = CASE outcome = "ok" -> "ok"
                     [] outcome = "usr1" -> status
                     [] OTHER -> "err"
      /\ kid' = [kid EXCEPT ![inc] = Idle]
      /\ UNCHANGED <<inc, changes, dirtyBefore, asap, sinceTry, main, disk, failures>>

-----------------------------------------------------------------------------
(* prepareForShutdown.                                                     *)

Killed(s) == [st |-> s.st, snap |-> s.snap, temp |-> s.temp, signal |-> "usr1"]

\* Variant that unlinks the child's file without stopping the child.
KillChildNot ==
  /\ pc = "kill"
  /\ pc' = "unlink"
  /\ UNCHANGED <<inc, server, time, main, kid, disk, failures>>

KillChild ==
  /\ pc = "kill"
  /\ pc' = "unlink"
  /\ kid' = IF kid[inc].st \in Running
            THEN [kid EXCEPT ![inc] = Killed(kid[inc])] ELSE kid
  /\ UNCHANGED <<inc, server, time, main, disk, failures>>

\* Variant without the rdbRemoveTempFile.
KeepTempFile ==
  /\ pc = "unlink"
  /\ pc' = "save"
  /\ main' = Started(changes)
  /\ UNCHANGED <<inc, server, time, kid, disk, failures>>

\* rdbRemoveTempFile of the child, then rdbSave begins.
RemoveTempFile ==
  /\ pc = "unlink"
  /\ pc' = "save"
  /\ kid' = [kid EXCEPT ![inc] = At(kid[inc], kid[inc].st, "none")]
  /\ main' = Started(changes)
  /\ UNCHANGED <<inc, server, time, disk, failures>>

\* A system call of the synchronous rdbSave.  When it fails the server goes on.
FinalSave ==
  /\ pc = "save"
  /\ \E t \in [st : Running \cup Finished, snap : {main.snap},
               temp : {"none", "partial", "whole"}, signal : {"none"}] :
       /\ SaveStep(main, t)
       /\ Publish(inc, main, t)
       /\ main' = IF t.st = "err" THEN Idle ELSE t
       /\ pc' = CASE t.st = "renamed" -> "exit"
                  [] t.st = "err" -> "cron"
                  [] OTHER -> "save"
       /\ asap' = (asap /\ t.st # "err")
       /\ dirty' = IF t.st = "renamed" THEN 0 ELSE dirty
       /\ sinceSave' = IF t.st = "renamed" THEN 0 ELSE sinceSave
       /\ status' = IF t.st = "renamed" THEN "ok" ELSE status
  /\ UNCHANGED <<inc, changes, dirtyBefore, sinceTry, kid>>

Exit ==
  /\ pc = "exit"
  /\ pc' = "down"
  /\ UNCHANGED <<inc, server, time, main, kid, disk, failures>>

-----------------------------------------------------------------------------
(* Signals, crashes, restarts and time.                                    *)

Die == pc' = "down" /\ UNCHANGED <<inc, server, time, main, kid, disk, failures>>

\* sigShutdownHandler, first signal: while server.loading is set exit at once, else,
\* also in the moments of the start-up before and after that, let serverCron do it.
SigTerm ==
  \/ pc = "loading" /\ Die
  \/ /\ pc # "down" /\ ~asap
     /\ asap' = TRUE
     /\ UNCHANGED <<inc, pc, changes, dirty, dirtyBefore, status, time, main, kid, disk, failures>>

\* sigShutdownHandler, a further SIGINT: "You insist... exiting now."  The handler
\* removes the temporary file of its own process only.
SigIntAgain ==
  /\ pc # "down" /\ asap
  /\ pc' = "down"
  /\ main' = At(main, main.st, "none")
  /\ UNCHANGED <<inc, server, time, kid, disk, failures>>

Crash == pc # "down" /\ Die

\* main: initServer; the child of the previous incarnation may be alive.
Start ==
  /\ pc = "down" /\ inc < MaxInc
  /\ inc' = inc + 1
  /\ pc' = "loading"
  /\ changes' = 0 /\ dirty' = 0 /\ dirtyBefore' = 0
  /\ sinceSave' = 0 /\ sinceTry' = MaxAge
  /\ status' = "ok" /\ asap' = FALSE
  /\ main' = Idle
  /\ saved' = 0
  /\ UNCHANGED <<kid, dump, failures>>

\* loadDataFromDisk returns.
Loaded ==
  /\ pc = "loading"
  /\ pc' = "loop"
  /\ UNCHANGED <<inc, server, time, main, kid, disk, failures>>

Older(age) == IF age < MaxAge THEN age + 1 ELSE age

Tick ==
  /\ pc # "down"
  /\ sinceSave < MaxAge \/ sinceTry < MaxAge
  /\ sinceSave' = Older(sinceSave)
  /\ sinceTry' = Older(sinceTry)
  /\ UNCHANGED <<inc, pc, server, main, kid, disk, failures>>

Init ==
  /\ inc = 1 /\ pc = "loading"
  /\ changes = 0 /\ dirty = 0 /\ dirtyBefore = 0
  /\ sinceSave = 0 /\ sinceTry = MaxAge
  /\ status = "ok" /\ asap = FALSE
  /\ main = Idle
  /\ kid = [i \in Incs |-> Idle]
  /\ dump = [inc |-> 0, upto |-> 0, data |-> "whole"]
  /\ saved = 0 /\ failures = 0

Cron     == CronBegin \/ CronSave \/ CronWait \/ CronReap
Shutdown == KillChild \/ RemoveTempFile \/ FinalSave \/ Exit
Signals  == SigTerm \/ SigIntAgain \/ Crash

Next ==
  \/ Change \/ Cron \/ Shutdown
  \/ Signals \/ Start \/ Loaded \/ Tick
  \/ \E i \in Incs : Kid(i) \/ KidKilledBySystem(i)

Spec == Init /\ [][Next]_vars

\* The main thread and the children are scheduled, and time passes.
Fairness ==
  /\ WF_vars(Cron) /\ WF_vars(Shutdown) /\ WF_vars(Loaded) /\ WF_vars(Tick)
  /\ \A i \in Incs : WF_vars(Kid(i))

FairSpec == Spec /\ Fairness

-----------------------------------------------------------------------------
(* Properties.                                                             *)

Saver == [st : {"none"} \cup Running \cup Finished, snap : Nat,
          temp : {"none", "partial", "whole"}, signal : {"none", "usr1"}]

\* Every variable keeps its type; dirty, a count of changes in a signed integer, never
\* goes below zero when dirty_before_bgsave is taken off it.
TypeOK ==
  /\ inc \in Incs
  /\ pc \in {"down", "loading", "loop", "cron", "kill", "unlink", "save", "exit"}
  /\ changes \in Nat /\ dirty \in Nat /\ dirtyBefore \in Nat
  /\ sinceSave \in Nat /\ sinceTry \in Nat
  /\ status \in {"ok", "err"} /\ asap \in BOOLEAN
  /\ main \in Saver
  /\ kid \in [Incs -> Saver]
  /\ dump \in [inc : Nat, upto : Nat, data : {"partial", "whole"}]
  /\ saved \in Nat /\ failures \in Nat

\* server.dirty never understates what this incarnation has not saved: at most dirty
\* of its changes are missing from the last snapshot that it renamed to dump.rdb,
\* through any interleaving of changes, saves, failures and kills.  (A crash may lose
\* more if the child of an earlier incarnation has replaced that snapshot since.)
CrashLossBound == changes - saved <= dirty

\* dump.rdb is never a partly written snapshot, whichever of the writes, the
\* processes or the system fails, and whenever.
DumpNeverTorn == dump.data = "whole"

\* Once the synchronous save of a shutdown has been renamed, the last snapshot of
\* this incarnation is its final data set for ever: the killed child cannot
\* overwrite it, not even with a system call that was under way.
ShutdownDumpIsFinal == main.st = "renamed" => saved = changes

Saving == {"start", "writing", "renaming"}
NoRename(k) == k.st \in {"none"} \cup Finished \/ (k.signal = "usr1" /\ k.temp = "none")

\* The inductive strengthening of the three: how server.dirty, the child's snapshot
\* and what has been renamed are related while a child exists, and why a child that
\* prepareForShutdown has dealt with can no longer rename anything.
SaveInv ==
  /\ TypeOK /\ CrashLossBound /\ DumpNeverTorn /\ ShutdownDumpIsFinal
  /\ main.st \in {"none", "renamed"} \cup Saving
  /\ pc \in {"loading", "loop", "cron", "kill", "unlink"} => main.st = "none"
  /\ pc = "save" => main.st \in Saving
  /\ pc = "exit" => main.st = "renamed"
  /\ main.st # "none" => main.snap = changes
  /\ main.st = "renaming" => main.temp # "partial"
  /\ \A i \in Incs : kid[i].st = "renaming" => kid[i].temp # "partial"
  /\ \A i \in Incs : i > inc => kid[i] = Idle
  /\ pc = "unlink" => kid[inc].st \in {"none"} \cup Finished \/ kid[inc].signal = "usr1"
  /\ main.st # "none" => NoRename(kid[inc])
  /\ kid[inc].st # "none" /\ main.st # "renamed" =>
       /\ dirtyBefore <= dirty
       /\ changes - kid[inc].snap = dirty - dirtyBefore
       /\ kid[inc].st \in {"renamed", "ok"} => saved = kid[inc].snap

\* Every change reaches the disk as long as the server runs: a save point that is
\* reached leads to a snapshot with at least those changes.
DirtyEventuallySaved ==
  \A n \in 1 .. MaxChanges :
    (changes = n /\ \E sp \in SaveParams : dirty >= sp.changes)
      ~> (saved >= n \/ pc = "down")

\* A SIGTERM ends the server, or a failed final save is reported and the server
\* goes on: prepareForShutdown never waits for the child it kills.
ShutdownDecides == asap ~> (pc = "down" \/ ~asap)

\* server.c:2569, "We want to avoid race conditions, for instance our saving child
\* may overwrite the synchronous saving did by SHUTDOWN": nothing overwrites it.
NothingOverwritesShutdownSave == main.st = "renamed" => dump.inc = inc

=============================================================================
