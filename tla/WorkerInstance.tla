--------------------------- MODULE WorkerInstance ---------------------------
(***************************************************************************)
(* A cloud worker: what the runs of OpenCloudConfig, the generic-worker    *)
(* wrapper (run-generic-worker-and-reboot.bat) and the scheduled script    *)
(* HaltOnIdle.ps1 do to each other through two files,                      *)
(* C:\dsc\in-progress.lock and C:\dsc\task-claim-state.valid.              *)
(*                                                                         *)
(* Runs are started by the startup task or by an operator.  The lock is    *)
(* for the runs (not two at a time) and tells HaltOnIdle that the instance *)
(* is being prepared; the semaphore tells the wrapper that it may start    *)
(* generic-worker, which claims tasks.  Each step reads or changes one of  *)
(* the things that the three share.                                        *)
(***************************************************************************)
EXTENDS Naturals

CONSTANTS
  Runs,       \* what may start a run: at most one run each per boot
  ByHand,     \* those whose process has the command line the lock test counts
  Location,   \* "AWS" (idle instances are halted), or where they are restarted
  MaxBoots    \* bound on power cycles, for TLC

ASSUME ConstantsAssumption ==
  /\ ByHand \subseteq Runs
  /\ MaxBoots \in Nat

VARIABLES
  power,      \* "on", "off" until the next boot, or "halted" for good
  asked,      \* the shutdown Windows has accepted and not carried out yet
  named,      \* host name: "old", "changing" at the next boot, or "new"
  boots,
  lock,       \* in-progress.lock exists
  semaphore,  \* task-claim-state.valid exists
  leftover,   \* it did when the instance booted
  haltTask,   \* the HaltOnIdle task and its script are in place
  pc,         \* per run, the step it is at
  intent,     \* per run, the shutdown it is about to ask for
  worker,     \* the wrapper, and then generic-worker
  monitor,    \* what the current execution of HaltOnIdle has seen
  old,        \* up for more than eight minutes
  occStale,   \* the last event of OpenCloudConfig is over an hour old
  gwStale,    \* and so is the last write to generic-worker.log
  rdp         \* a remote desktop session is open

machine == <<power, asked, named, boots>>
files == <<lock, semaphore, leftover, haltTask>>
clocks == <<old, occStale, gwStale, rdp>>
runs == <<pc, intent>>
vars == <<machine, files, clocks, runs, worker, monitor>>

(* The steps at which the run prepares the instance. *)
Applying == {"setup", "dropMonitor", "makeMonitor", "apply"}

Step == {"off", "rename", "checkLock", "checkWorker", "paused", "createLock",
         "claim", "await", "finish", "done"} \cup Applying

WorkerState == {"absent", "waiting", "starting", "running", "rebooting", "exited"}

Active(run) == pc[run] \notin {"off", "done"}

-----------------------------------------------------------------------------
(* shutdown.exe returns at once; a second request is refused. *)
Ask(request) == asked' = IF asked = "none" THEN request ELSE asked

Goto(run, step) == pc' = [pc EXCEPT ![run] = step]

(* The first half of Invoke-Shutdown -unlock: the lock is removed, whoever *)
(* made it.  Request is the other half.                                    *)
Unlock(run, request) ==
  /\ lock' = FALSE
  /\ intent' = [intent EXCEPT ![run] = request]

Init ==
  /\ power = "off" /\ named = "old" /\ boots = 0
  /\ lock = FALSE /\ semaphore = FALSE /\ leftover = FALSE
  /\ haltTask \in BOOLEAN
  /\ pc = [run \in Runs |-> "off"] /\ intent = [run \in Runs |-> "none"]
  /\ worker = "absent" /\ monitor = "idle" /\ asked = "none"
  /\ old = FALSE /\ occStale = TRUE /\ gwStale = TRUE /\ rdp = FALSE

-----------------------------------------------------------------------------
(* Runs of OpenCloudConfig. *)

Launch(run) ==
  /\ power = "on" /\ pc[run] = "off"
  /\ Goto(run, "rename")
  /\ occStale' = FALSE
  /\ UNCHANGED <<machine, files, old, gwStale, rdp, intent, worker, monitor>>

(* The run does not wait for the shutdown it asked for. *)
Request(run) ==
  /\ intent[run] # "none"
  /\ Ask(intent[run])
  /\ intent' = [intent EXCEPT ![run] = "none"]
  /\ UNCHANGED <<power, named, boots, files, clocks, pc, worker, monitor>>

(* Initialize-Instance: a new host name needs a restart. *)
Rename(run) ==
  /\ pc[run] = "rename"
  /\ IF named = "new"
     THEN UNCHANGED <<named, lock, intent>>
     ELSE named' = "changing" /\ Unlock(run, "restart")
  /\ Goto(run, "checkLock")
  /\ UNCHANGED <<power, asked, boots, semaphore, leftover, haltTask, clocks,
                 worker, monitor>>

(* Of the runs under way, only those by hand have the command line that    *)
(* the test compares with; this run counts itself.                         *)
CheckLock(run) ==
  /\ pc[run] = "checkLock"
  /\ \/ /\ lock
        /\ \E first, second \in ByHand : first # second /\ Active(first) /\ Active(second)
        /\ Goto(run, "done")
     \/ /\ lock
        /\ \A first, second \in ByHand : Active(first) /\ Active(second) => first = second
        /\ Goto(run, "setup")
     \/ ~lock /\ Goto(run, "checkWorker")
  /\ UNCHANGED <<machine, files, clocks, intent, worker, monitor>>

(* The loop is left without the lock being made. *)
CheckWorker(run) ==
  /\ pc[run] \in {"checkWorker", "paused"}
  /\ \/ worker = "running" /\ Goto(run, "paused")
     \/ worker # "running" /\ pc[run] = "paused" /\ Goto(run, "setup")
     \/ worker # "running" /\ pc[run] = "checkWorker" /\ Goto(run, "createLock")
  /\ UNCHANGED <<machine, files, clocks, intent, worker, monitor>>

(* Variant: the lock is never made. *)
SkipLock(run) ==
  /\ pc[run] = "createLock"
  /\ Goto(run, "setup")
  /\ UNCHANGED <<machine, files, clocks, intent, worker, monitor>>

CreateLock(run) ==
  /\ pc[run] = "createLock"
  /\ lock' = TRUE
  /\ Goto(run, "setup")
  /\ UNCHANGED <<machine, semaphore, leftover, haltTask, clocks, intent, worker, monitor>>

(* From the page file to the drive letters: a remap of the drives needs a  *)
(* restart, and an instance that lacks a drive is given up.                *)
Setup(run) ==
  /\ pc[run] = "setup"
  /\ \/ UNCHANGED <<intent, lock>>
     \/ \E request \in {"restart", "halt"} : Unlock(run, request)
  /\ Goto(run, "dropMonitor")
  /\ UNCHANGED <<machine, semaphore, leftover, haltTask, clocks, worker, monitor>>

(* New-PowershellScheduledTask for HaltOnIdle: the old task and script are *)
(* deleted, and replaced unless the download or the creation fails.        *)
DropMonitor(run) ==
  /\ pc[run] = "dropMonitor"
  /\ haltTask' = FALSE
  /\ Goto(run, "makeMonitor")
  /\ UNCHANGED <<machine, lock, semaphore, leftover, clocks, intent, worker, monitor>>

MakeMonitor(run) ==
  /\ pc[run] = "makeMonitor"
  /\ haltTask' \in {haltTask, TRUE}
  /\ Goto(run, "apply")
  /\ UNCHANGED <<machine, lock, semaphore, leftover, clocks, intent, worker, monitor>>

(* The manifest (see ManifestApply); the transcript may ask for a restart. *)
Apply(run) ==
  /\ pc[run] = "apply"
  /\ \/ UNCHANGED <<intent, lock>>
     \/ Unlock(run, "restart")
  /\ Goto(run, "claim")
  /\ UNCHANGED <<machine, semaphore, leftover, haltTask, clocks, worker, monitor>>

(* Wait-GenericWorkerStart: the wrapper may not have been installed. *)
Claim(run) ==
  /\ pc[run] = "claim"
  /\ \/ semaphore' = TRUE /\ Goto(run, "await")
     \/ Goto(run, "finish") /\ UNCHANGED semaphore
  /\ UNCHANGED <<machine, lock, leftover, haltTask, clocks, intent, worker, monitor>>

(* Either way the lock goes; the semaphore stays when nobody took it.      *)
Await(run) ==
  /\ pc[run] = "await"
  /\ \/ worker = "running" /\ lock' = FALSE /\ UNCHANGED intent
     \/ worker # "running" /\ Unlock(run, "restart")
  /\ Goto(run, "finish")
  /\ UNCHANGED <<machine, semaphore, leftover, haltTask, clocks, worker, monitor>>

(* The end of Invoke-OpenCloudConfig: a lock is removed, whoever made it.  *)
Finish(run) ==
  /\ pc[run] = "finish"
  /\ lock' = FALSE
  /\ Goto(run, "done")
  /\ UNCHANGED <<machine, semaphore, leftover, haltTask, clocks, intent, worker, monitor>>

(* The process is killed or throws: the lock stays. *)
Die(run) ==
  /\ Active(run)
  /\ Goto(run, "done")
  /\ intent' = [intent EXCEPT ![run] = "none"]
  /\ UNCHANGED <<machine, files, clocks, worker, monitor>>

RunStep(run) ==
  \/ Request(run)
  \/ /\ intent[run] = "none"
     /\ \/ Rename(run)
        \/ CheckLock(run)
        \/ CheckWorker(run)
        \/ CreateLock(run)
        \/ Setup(run)
        \/ DropMonitor(run)
        \/ MakeMonitor(run)
        \/ Apply(run)
        \/ Claim(run)
        \/ Await(run)
        \/ Finish(run)

-----------------------------------------------------------------------------
(* The wrapper and generic-worker. *)

(* The logon of the worker's user starts the wrapper, which truncates the  *)
(* log first.                                                              *)
StartWrapper ==
  /\ power = "on" /\ worker = "absent"
  /\ worker' = "waiting" /\ gwStale' = FALSE
  /\ UNCHANGED <<machine, files, old, occStale, rdp, runs, monitor>>

(* Variant: the wrapper does not wait for the semaphore. *)
TakeAnyway ==
  /\ worker = "waiting"
  /\ semaphore' = FALSE /\ worker' = "starting"
  /\ UNCHANGED <<machine, lock, leftover, haltTask, clocks, runs, monitor>>

TakeSemaphore ==
  /\ worker = "waiting" /\ semaphore
  /\ semaphore' = FALSE /\ worker' = "starting"
  /\ UNCHANGED <<machine, lock, leftover, haltTask, clocks, runs, monitor>>

StartWorker ==
  /\ worker = "starting"
  /\ worker' = "running" /\ gwStale' = FALSE
  /\ UNCHANGED <<machine, files, old, occStale, rdp, runs, monitor>>

(* Exit code 67: the lock is deleted, and then the instance is to reboot   *)
(* into the new task user; 68: idle for too long; any other: the wrapper   *)
(* ends and leaves the instance to HaltOnIdle.                             *)
ExitWorker ==
  /\ worker = "running"
  /\ \/ worker' = "rebooting" /\ lock' = FALSE /\ UNCHANGED asked
     \/ worker' = "exited" /\ Ask("halt") /\ UNCHANGED lock
     \/ worker' = "exited" /\ UNCHANGED <<asked, lock>>
  /\ UNCHANGED <<power, named, boots, semaphore, leftover, haltTask, clocks, runs, monitor>>

Reboot ==
  /\ worker = "rebooting"
  /\ worker' = "exited" /\ Ask("restart")
  /\ UNCHANGED <<power, named, boots, files, clocks, runs, monitor>>

-----------------------------------------------------------------------------
(* HaltOnIdle.ps1, started every two minutes. *)

Reclaim == IF Location = "AWS" THEN "halt" ELSE "restart"

(* Nothing before the rename; an instance with generic-worker is left be.  *)
CheckProductive ==
  /\ power = "on" /\ monitor = "idle"
  /\ haltTask /\ named = "new" /\ worker # "running"
  /\ monitor' = "noWorker"
  /\ UNCHANGED <<machine, files, clocks, runs, worker>>

CheckInitialising ==
  /\ monitor = "noWorker"
  /\ monitor' = IF lock THEN "initialising" ELSE "unproductive"
  /\ UNCHANGED <<machine, files, clocks, runs, worker>>

ReclaimIdle ==
  /\ monitor = "unproductive"
  /\ IF old /\ ~rdp THEN Ask(Reclaim) ELSE UNCHANGED asked
  /\ monitor' = "idle"
  /\ UNCHANGED <<power, named, boots, files, clocks, runs, worker>>

(* Variant: a lock is taken for a run whatever its age. *)
TrustLock ==
  /\ monitor = "initialising"
  /\ monitor' = "idle"
  /\ UNCHANGED <<machine, files, clocks, runs, worker>>

ReclaimStuck ==
  /\ monitor = "initialising"
  /\ IF occStale /\ gwStale THEN Ask(Reclaim) ELSE UNCHANGED asked
  /\ monitor' = "idle"
  /\ UNCHANGED <<power, named, boots, files, clocks, runs, worker>>

Monitor == CheckProductive \/ CheckInitialising \/ ReclaimIdle \/ ReclaimStuck

-----------------------------------------------------------------------------
(* Time and the environment.  A run logs at every step, so that its last   *)
(* event gets an hour old only when no run is active.                      *)

Age ==
  /\ power = "on" /\ ~old
  /\ old' = TRUE
  /\ UNCHANGED <<machine, files, occStale, gwStale, rdp, runs, worker, monitor>>

OccQuiet ==
  /\ power = "on" /\ ~occStale
  /\ \A run \in Runs : ~Active(run)
  /\ occStale' = TRUE
  /\ UNCHANGED <<machine, files, old, gwStale, rdp, runs, worker, monitor>>

WorkerQuiet ==
  /\ power = "on" /\ ~gwStale
  /\ gwStale' = TRUE
  /\ UNCHANGED <<machine, files, old, occStale, rdp, runs, worker, monitor>>

Session ==
  /\ power = "on"
  /\ rdp' = ~rdp
  /\ UNCHANGED <<machine, files, old, occStale, gwStale, runs, worker, monitor>>

Boot ==
  /\ power = "off" /\ boots < MaxBoots
  /\ power' = "on" /\ boots' = boots + 1
  /\ named' = IF named = "old" THEN "old" ELSE "new"
  /\ leftover' = semaphore
  /\ UNCHANGED <<asked, lock, semaphore, haltTask, clocks, runs, worker, monitor>>

PowerOff ==
  /\ power = "on"
  /\ pc' = [run \in Runs |-> "off"] /\ intent' = [run \in Runs |-> "none"]
  /\ worker' = "absent" /\ monitor' = "idle" /\ asked' = "none"
  /\ old' = FALSE /\ rdp' = FALSE
  /\ UNCHANGED <<named, boots, files, occStale, gwStale>>

Shutdown ==
  /\ asked # "none"
  /\ power' = IF asked = "halt" THEN "halted" ELSE "off"
  /\ PowerOff

Outage == power' = "off" /\ PowerOff

Stopped ==
  /\ power = "halted" \/ (power = "off" /\ boots = MaxBoots)
  /\ UNCHANGED vars

Next ==
  \/ \E run \in Runs : Launch(run) \/ RunStep(run) \/ Die(run)
  \/ StartWrapper \/ TakeSemaphore \/ StartWorker \/ ExitWorker \/ Reboot
  \/ Monitor
  \/ Age \/ OccQuiet \/ WorkerQuiet \/ Session
  \/ Boot \/ Shutdown \/ Outage
  \/ Stopped

Spec == Init /\ [][Next]_vars

(* A run gets on; the task scheduler starts HaltOnIdle again and again;    *)
(* time passes; Windows carries out a shutdown.  Nothing is assumed of     *)
(* logons, sessions, operators, the wrapper or generic-worker.             *)
Fairness ==
  /\ \A run \in Runs : WF_vars(RunStep(run))
  /\ WF_vars(Monitor)
  /\ WF_vars(Age \/ OccQuiet \/ WorkerQuiet)
  /\ WF_vars(Shutdown)

FairSpec == Spec /\ Fairness

-----------------------------------------------------------------------------
TypeOK ==
  /\ power \in {"on", "off", "halted"}
  /\ asked \in {"none", "restart", "halt"}
  /\ named \in {"old", "changing", "new"}
  /\ boots \in 0 .. MaxBoots
  /\ lock \in BOOLEAN /\ semaphore \in BOOLEAN
  /\ leftover \in BOOLEAN /\ haltTask \in BOOLEAN
  /\ pc \in [Runs -> Step]
  /\ intent \in [Runs -> {"none", "restart", "halt"}]
  /\ worker \in WorkerState
  /\ monitor \in {"idle", "noWorker", "unproductive", "initialising"}
  /\ old \in BOOLEAN /\ occStale \in BOOLEAN
  /\ gwStale \in BOOLEAN /\ rdp \in BOOLEAN

(* One run in this boot, which found no semaphore of an earlier boot.      *)
Undisturbed ==
  /\ ~leftover
  /\ \A first, second \in Runs :
       pc[first] # "off" /\ pc[second] # "off" => first = second

(* HaltOnIdle takes the lock for the run: while an undisturbed run         *)
(* prepares the instance the lock is there, until a shutdown is asked for  *)
(* or the run removes the lock to ask for one.                             *)
RunIsMarked ==
  Undisturbed /\ asked = "none" =>
    \A run \in Runs :
      pc[run] \in Applying \cup {"claim"} /\ intent[run] = "none" => lock

(* generic-worker claims tasks only on an instance that is ready: it does  *)
(* not run while an undisturbed run is still preparing it.                 *)
NoTaskWhileApplying ==
  Undisturbed /\ worker = "running" =>
    \A run \in Runs : pc[run] \notin Applying

(* An instance that does not work, whose lock, task or log was left in     *)
(* whatever state by a run or a wrapper that died, does not stay up: "for  *)
(* all other exit codes, simply end script execution and allow             *)
(* halt-on-idle to do its thing" (run-generic-worker-and-reboot.bat:33).   *)
Limbo ==
  /\ power = "on" /\ worker # "running"
  /\ haltTask /\ named = "new" /\ ~rdp

IdleIsReclaimed == ~<>[]Limbo
=============================================================================
