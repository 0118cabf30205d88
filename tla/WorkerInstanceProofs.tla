------------------------ MODULE WorkerInstanceProofs ------------------------
(***************************************************************************)
(* Proofs about WorkerInstance, for any runs, location and number of       *)
(* boots: an undisturbed run is marked by the lock while it prepares the   *)
(* instance, and generic-worker does not run meanwhile.                    *)
(*                                                                         *)
(* The two need each other.  The run makes the lock because it does not    *)
(* find generic-worker running; generic-worker does not run because only   *)
(* the claim at the end of a run makes the semaphore that starts it.       *)
(***************************************************************************)
EXTENDS WorkerInstance, TLAPS

Idle ==
  /\ asked = "none" /\ worker = "absent" /\ monitor = "idle"
  /\ \A run \in Runs : pc[run] = "off"

(* Only a run under way is about to ask for a shutdown. *)
PowerInv ==
  /\ power # "on" => Idle
  /\ \A run \in Runs : intent[run] # "none" => Active(run)

Marked ==
  asked = "none" =>
    \A run \in Runs :
      pc[run] \in Applying \cup {"claim"} /\ intent[run] = "none" => lock

Started == {"starting", "running", "rebooting", "exited"}

Claimed == {"await", "finish", "done"}

(* Only a run that came to its claim makes the semaphore or starts the     *)
(* worker.                                                                 *)
ClaimedFirst ==
  power = "on" /\ (semaphore \/ worker \in Started) =>
    \E run \in Runs : pc[run] \in Claimed

NonePaused == \A run \in Runs : pc[run] # "paused"

Ready == Marked /\ ClaimedFirst /\ NonePaused

IInv == TypeOK /\ PowerInv /\ (Undisturbed => Ready)

-----------------------------------------------------------------------------
LEMMA InitIInv == Init => IInv
<1> SUFFICES ASSUME Init PROVE IInv
  OBVIOUS
<1>1. TypeOK
  <2>1. /\ pc \in [Runs -> Step] /\ boots \in 0 .. MaxBoots
        /\ intent \in [Runs -> {"none", "restart", "halt"}]
    BY ConstantsAssumption DEF Init, Step
  <2> QED
    BY <2>1 DEF Init, TypeOK, WorkerState
<1>2. PowerInv
  BY DEF Init, PowerInv, Idle
<1>3. Ready
  BY DEF Init, Ready, Marked, ClaimedFirst, Started, NonePaused, Applying
<1> QED
  BY <1>1, <1>2, <1>3 DEF IInv

(* What every step of a run does to its own step, and leaves alone. *)
LEMMA RunStepFrame ==
  ASSUME NEW run \in Runs, TypeOK, PowerInv, RunStep(run) \/ Die(run)
  PROVE  /\ pc' = [pc EXCEPT ![run] = pc'[run]]
         /\ intent' = [intent EXCEPT ![run] = intent'[run]]
         /\ Active(run) /\ pc'[run] \in Step \ {"off"}
         /\ intent'[run] \in {"none", "restart", "halt"}
         /\ pc'[run] = "done" => intent'[run] = "none"
         /\ UNCHANGED <<power, boots, leftover, clocks, worker, monitor>>
<1> USE DEF Goto, Active, TypeOK, Applying, Step, clocks, files, machine
<1>1. CASE Request(run)
  BY <1>1 DEF Request, PowerInv
<1>2. CASE Die(run)
  BY <1>2 DEF Die
<1>3. CASE intent[run] = "none" /\ ~Request(run) /\ ~Die(run)
  BY <1>3 DEF RunStep, Rename, CheckLock, CheckWorker, CreateLock, Setup,
              DropMonitor, MakeMonitor, Apply, Claim, Await, Finish, Unlock
<1> QED
  BY <1>1, <1>2, <1>3 DEF RunStep

LEMMA NextTypeOK ==
  ASSUME TypeOK, PowerInv, [Next]_vars
  PROVE  TypeOK'
<1> USE ConstantsAssumption
<1>1. ASSUME NEW run \in Runs, RunStep(run) \/ Die(run)
      PROVE  TypeOK'
  <2>1. /\ pc' = [pc EXCEPT ![run] = pc'[run]] /\ pc'[run] \in Step
        /\ intent' = [intent EXCEPT ![run] = intent'[run]]
        /\ intent'[run] \in {"none", "restart", "halt"}
        /\ UNCHANGED <<power, boots, leftover, clocks, worker, monitor>>
    BY <1>1, RunStepFrame
  <2>2. pc' \in [Runs -> Step] /\ intent' \in [Runs -> {"none", "restart", "halt"}]
    BY <2>1 DEF TypeOK
  <2>3. /\ named' \in {"old", "changing", "new"}
        /\ asked' \in {"none", "restart", "halt"}
    BY <1>1 DEF RunStep, Request, Rename, CheckLock, CheckWorker, CreateLock, Setup,
                DropMonitor, MakeMonitor, Apply, Claim, Await, Finish, Die, Ask,
                TypeOK, machine
  <2>4. lock' \in BOOLEAN /\ semaphore' \in BOOLEAN /\ haltTask' \in BOOLEAN
    BY <1>1 DEF RunStep, Request, Rename, CheckLock, CheckWorker, CreateLock, Setup,
                DropMonitor, MakeMonitor, Apply, Claim, Await, Finish, Die, Unlock,
                TypeOK, files
  <2> QED
    BY <2>1, <2>2, <2>3, <2>4 DEF TypeOK, clocks
<1>2. ASSUME NEW run \in Runs, Launch(run)
      PROVE  TypeOK'
  <2>1. pc' \in [Runs -> Step]
    BY <1>2 DEF Launch, Goto, TypeOK, Step
  <2>2. /\ UNCHANGED <<machine, files, intent, worker, monitor>>
        /\ UNCHANGED <<old, gwStale, rdp>> /\ occStale' \in BOOLEAN
    BY <1>2 DEF Launch
  <2> QED
    BY <2>1, <2>2 DEF TypeOK, machine, files
<1>3. CASE StartWrapper \/ TakeSemaphore \/ StartWorker \/ ExitWorker \/ Reboot
  <2>1. /\ UNCHANGED <<power, named, boots, leftover, haltTask, runs, monitor, rdp>>
        /\ UNCHANGED <<old, occStale>>
    BY <1>3 DEF StartWrapper, TakeSemaphore, StartWorker, ExitWorker, Reboot, machine,
                files, clocks
  <2>2. asked' \in {"none", "restart", "halt"}
    BY <1>3 DEF StartWrapper, TakeSemaphore, StartWorker, ExitWorker, Reboot, Ask,
                TypeOK, machine, runs
  <2>3. lock' \in BOOLEAN /\ semaphore' \in BOOLEAN /\ gwStale' \in BOOLEAN
    BY <1>3 DEF StartWrapper, TakeSemaphore, StartWorker, ExitWorker, Reboot,
                TypeOK, files, clocks
  <2>4. worker' \in WorkerState
    BY <1>3 DEF StartWrapper, TakeSemaphore, StartWorker, ExitWorker, Reboot, WorkerState
  <2> QED
    BY <2>1, <2>2, <2>3, <2>4 DEF TypeOK, runs
<1>4. CASE Monitor
  <2> USE DEF machine, files, clocks, runs, TypeOK
  <2>1. CASE CheckProductive    BY <2>1 DEF CheckProductive
  <2>2. CASE CheckInitialising  BY <2>2 DEF CheckInitialising
  <2>3. CASE ReclaimIdle        BY <2>3 DEF ReclaimIdle, Reclaim, Ask
  <2>4. CASE ReclaimStuck       BY <2>4 DEF ReclaimStuck, Reclaim, Ask
  <2> QED
    BY <1>4, <2>1, <2>2, <2>3, <2>4 DEF Monitor
<1>5. CASE Age \/ OccQuiet \/ WorkerQuiet \/ Session
  <2> USE DEF machine, files, runs, TypeOK
  <2>1. CASE Age          BY <2>1 DEF Age
  <2>2. CASE OccQuiet     BY <2>2 DEF OccQuiet
  <2>3. CASE WorkerQuiet  BY <2>3 DEF WorkerQuiet
  <2>4. CASE Session
    <3>1. rdp' \in BOOLEAN
      BY <2>4 DEF Session
    <3> QED
      BY <2>4, <3>1 DEF Session
  <2> QED
    BY <1>5, <2>1, <2>2, <2>3, <2>4
<1>6. CASE Boot
  BY <1>6 DEF Boot, TypeOK, clocks, runs
<1>7. CASE Shutdown \/ Outage
  <2>1. PowerOff /\ power' \in {"off", "halted"}
    BY <1>7 DEF Shutdown, Outage
  <2>2. pc' \in [Runs -> Step] /\ intent' \in [Runs -> {"none", "restart", "halt"}]
    BY <2>1 DEF PowerOff, Step
  <2> QED
    BY <2>1, <2>2 DEF PowerOff, TypeOK, WorkerState, files
<1>8. CASE Stopped \/ UNCHANGED vars
  BY <1>8 DEF Stopped, TypeOK, vars, machine, files, clocks, runs
<1> QED
  BY <1>1, <1>2, <1>3, <1>4, <1>5, <1>6, <1>7, <1>8 DEF Next

(* Without power nothing runs, and only Boot does anything. *)
LEMMA NextPowerInv ==
  ASSUME TypeOK, PowerInv, [Next]_vars
  PROVE  PowerInv'
<1>1. ASSUME NEW run \in Runs, RunStep(run) \/ Die(run)
      PROVE  PowerInv'
  <2>1. /\ pc' = [pc EXCEPT ![run] = pc'[run]] /\ pc'[run] # "off"
        /\ intent' = [intent EXCEPT ![run] = intent'[run]]
        /\ pc'[run] = "done" => intent'[run] = "none"
        /\ Active(run) /\ UNCHANGED power
    BY <1>1, RunStepFrame
  <2>2. power' = "on"
    BY <2>1 DEF PowerInv, Idle, Active
  <2> QED
    BY <2>1, <2>2 DEF PowerInv, Active, TypeOK
<1>2. ASSUME NEW run \in Runs, Launch(run)
      PROVE  PowerInv'
  BY <1>2 DEF Launch, Goto, machine, PowerInv, Active, TypeOK
<1>3. CASE \/ StartWrapper \/ TakeSemaphore \/ StartWorker \/ ExitWorker \/ Reboot
           \/ Monitor \/ Age \/ OccQuiet \/ WorkerQuiet \/ Session
  <2>1. power = "on" /\ UNCHANGED <<power, runs>>
    BY <1>3
    DEF StartWrapper, TakeSemaphore, StartWorker, ExitWorker, Reboot, Monitor,
        CheckProductive, CheckInitialising, ReclaimIdle, ReclaimStuck, Age,
        OccQuiet, WorkerQuiet, Session, machine, PowerInv, Idle
  <2> QED
    BY <2>1 DEF PowerInv, Active, runs
<1>4. CASE Boot
  BY <1>4 DEF Boot, PowerInv, Active, runs
<1>5. CASE Shutdown \/ Outage
  BY <1>5 DEF Shutdown, Outage, PowerOff, PowerInv, Idle
<1>6. CASE Stopped \/ UNCHANGED vars
  BY <1>6 DEF Stopped, vars, machine, runs, PowerInv, Idle, Active
<1> QED
  BY <1>1, <1>2, <1>3, <1>4, <1>5, <1>6 DEF Next

-----------------------------------------------------------------------------
(* A step of the only run of this boot. *)
LEMMA RunReady ==
  ASSUME TypeOK, NEW run \in Runs, RunStep(run) \/ Die(run), Undisturbed',
         Undisturbed => Ready, PowerInv
  PROVE  Ready'
<1>1. /\ pc' = [pc EXCEPT ![run] = pc'[run]]
      /\ intent' = [intent EXCEPT ![run] = intent'[run]]
      /\ pc[run] \notin {"off", "done"} /\ pc'[run] # "off"
      /\ UNCHANGED <<power, leftover, worker>>
      /\ pc \in [Runs -> Step]
      /\ intent \in [Runs -> {"none", "restart", "halt"}]
  BY RunStepFrame DEF Active, TypeOK
<1>2. \A other \in Runs : other # run => pc[other] = "off" /\ pc'[other] = "off"
  BY <1>1 DEF Undisturbed
<1>3. Undisturbed
  BY <1>1, <1>2 DEF Undisturbed
<1>4. Ready /\ power = "on"
  BY <1>1, <1>3 DEF PowerInv, Idle
<1>5. \/ pc'[run] \in Claimed
      \/ pc[run] \notin Claimed /\ ~semaphore /\ worker \notin Started
  <2>1. CASE pc[run] \in Claimed
    BY <2>1, <1>1
    DEF Claimed, RunStep, Request, Rename, CheckLock, CheckWorker, CreateLock, Setup,
        DropMonitor, MakeMonitor, Apply, Claim, Await, Finish, Die, Goto
  <2>2. CASE pc[run] \notin Claimed
    BY <1>2, <1>4, <2>2 DEF Ready, ClaimedFirst, Claimed
  <2> QED
    BY <2>1, <2>2
<1>6. ClaimedFirst'
  <2>1. CASE pc'[run] \in Claimed
    BY <2>1 DEF ClaimedFirst
  <2>2. CASE pc'[run] \notin Claimed
    <3>1. UNCHANGED semaphore
      BY <1>1, <2>2
      DEF Claimed, RunStep, Request, Rename, CheckLock, CheckWorker, CreateLock,
          Setup, DropMonitor, MakeMonitor, Apply, Claim, Await, Finish, Die, Goto,
          files
    <3> QED
      BY <1>1, <1>5, <2>2, <3>1 DEF ClaimedFirst
  <2> QED
    BY <2>1, <2>2
<1>7. pc[run] # "paused"
  BY <1>4 DEF Ready, NonePaused
<1>8. NonePaused'
  <2>1. CASE CheckWorker(run)
    BY <1>1, <1>2, <1>5, <2>1 DEF CheckWorker, Goto, NonePaused, Claimed, Started
  <2>2. CASE ~CheckWorker(run)
    BY <1>1, <1>2, <1>7, <2>2
    DEF RunStep, Request, Rename, CheckLock, CreateLock, Setup, DropMonitor,
        MakeMonitor, Apply, Claim, Await, Finish, Die, Goto, NonePaused
  <2> QED
    BY <2>1, <2>2
<1>9. ASSUME asked' = "none", intent'[run] = "none",
             pc'[run] \in Applying \cup {"claim"}
      PROVE  lock'
  <2> USE <1>1, <1>9 DEF Goto, Applying
  <2>1. ~Request(run) /\ ~Die(run)
    BY DEF Request, Die, Ask
  <2>2. intent[run] = "none" /\ asked = "none"
    BY <2>1 DEF RunStep, Rename, CheckLock, CheckWorker, CreateLock, Setup,
                DropMonitor, MakeMonitor, Apply, Claim, Await, Finish, machine
  <2>3. pc[run] \in Applying \cup {"claim"} => lock
    BY <1>4, <2>2 DEF Ready, Marked
  <2>4. CASE Rename(run)       BY <2>4 DEF Rename
  <2>5. CASE CheckLock(run)    BY <2>5 DEF CheckLock, files
  <2>6. CASE CheckWorker(run)  BY <2>6, <1>7 DEF CheckWorker
  <2>7. CASE CreateLock(run)   BY <2>7 DEF CreateLock
  <2>8. CASE Setup(run)        BY <2>8, <2>3 DEF Setup, Unlock
  <2>9. CASE DropMonitor(run)  BY <2>9, <2>3 DEF DropMonitor
  <2>10. CASE MakeMonitor(run) BY <2>10, <2>3 DEF MakeMonitor
  <2>11. CASE Apply(run)       BY <2>11, <2>3 DEF Apply, Unlock
  <2>12. CASE Claim(run)       BY <2>12 DEF Claim
  <2>13. CASE Await(run)       BY <2>13 DEF Await
  <2>14. CASE Finish(run)      BY <2>14 DEF Finish
  <2> QED
    BY <2>1, <2>4, <2>5, <2>6, <2>7, <2>8, <2>9, <2>10, <2>11, <2>12, <2>13, <2>14
    DEF RunStep
<1>10. Marked'
  BY <1>2, <1>9 DEF Marked, Applying
<1> QED
  BY <1>6, <1>8, <1>10 DEF Ready

(* The wrapper and generic-worker, which deletes the lock only when the    *)
(* run is past its claim.                                                  *)
LEMMA WorkerReady ==
  ASSUME TypeOK, Undisturbed, Ready, PowerInv,
         StartWrapper \/ TakeSemaphore \/ StartWorker \/ ExitWorker \/ Reboot
  PROVE  Ready'
<1>1. /\ UNCHANGED <<pc, intent, power>> /\ (asked' = "none" => asked = "none")
      /\ semaphore' => semaphore
  BY DEF StartWrapper, TakeSemaphore, StartWorker, ExitWorker, Reboot, Ask, machine,
         files, runs
<1>2. worker' \in Started => semaphore \/ worker \in Started
  BY DEF StartWrapper, TakeSemaphore, StartWorker, ExitWorker, Reboot, Started
<1>3. ClaimedFirst'
  BY <1>1, <1>2 DEF Ready, ClaimedFirst
<1>4. NonePaused'
  BY <1>1 DEF Ready, NonePaused
<1>5. Marked'
  <2>1. CASE ~ExitWorker
    <3>1. UNCHANGED lock
      BY <2>1 DEF StartWrapper, TakeSemaphore, StartWorker, Reboot, files
    <3> QED
      BY <1>1, <3>1 DEF Ready, Marked
  <2>2. CASE ExitWorker
    <3>1. PICK claimed \in Runs : pc[claimed] \in Claimed
      BY <2>2 DEF ExitWorker, Ready, ClaimedFirst, Started, PowerInv, Idle
    <3>2. \A run \in Runs : pc[run] \notin Applying \cup {"claim"}
      BY <3>1 DEF Undisturbed, Claimed, Applying
    <3> QED
      BY <1>1, <3>2 DEF Marked
  <2> QED
    BY <2>1, <2>2
<1> QED
  BY <1>3, <1>4, <1>5 DEF Ready

LEMMA NextIInv == IInv /\ [Next]_vars => IInv'
<1> SUFFICES ASSUME IInv, [Next]_vars
             PROVE  IInv'
  OBVIOUS
<1>1. TypeOK /\ PowerInv /\ TypeOK' /\ PowerInv'
  BY NextTypeOK, NextPowerInv DEF IInv
<1>2. SUFFICES ASSUME Undisturbed' PROVE Ready'
  BY <1>1 DEF IInv
<1>3. Undisturbed => Ready
  BY DEF IInv
<1>4. ASSUME NEW run \in Runs, RunStep(run) \/ Die(run)
      PROVE  Ready'
  BY <1>1, <1>2, <1>3, <1>4, RunReady
<1>5. ASSUME NEW run \in Runs, Launch(run)
      PROVE  Ready'
  <2>1. /\ pc' = [pc EXCEPT ![run] = "rename"] /\ pc[run] = "off"
        /\ UNCHANGED <<power, asked, lock, semaphore, leftover, worker, intent>>
        /\ pc \in [Runs -> Step]
    BY <1>1, <1>5 DEF Launch, Goto, machine, files, TypeOK
  <2>2. Undisturbed
    BY <1>2, <2>1 DEF Undisturbed
  <2> QED
    BY <1>3, <2>1, <2>2
    DEF Ready, Marked, ClaimedFirst, Claimed, NonePaused, Applying
<1>6. CASE StartWrapper \/ TakeSemaphore \/ StartWorker \/ ExitWorker \/ Reboot
  <2>1. UNCHANGED <<pc, leftover>>
    BY <1>6 DEF StartWrapper, TakeSemaphore, StartWorker, ExitWorker, Reboot, files,
                runs
  <2>2. Undisturbed
    BY <1>2, <2>1 DEF Undisturbed
  <2> QED
    BY <1>1, <1>3, <1>6, <2>2, WorkerReady
<1>7. CASE Monitor \/ Age \/ OccQuiet \/ WorkerQuiet \/ Session
  <2>1. /\ UNCHANGED <<pc, intent, power, lock, semaphore, leftover, worker>>
        /\ asked' = "none" => asked = "none"
    BY <1>7 DEF Monitor, CheckProductive, CheckInitialising, ReclaimIdle,
                ReclaimStuck, Ask, Age, OccQuiet, WorkerQuiet, Session, machine, files,
                runs
  <2>2. Undisturbed
    BY <1>2, <2>1 DEF Undisturbed
  <2> QED
    BY <1>3, <2>1, <2>2 DEF Ready, Marked, ClaimedFirst, NonePaused
<1>8. CASE Boot
  <2>1. /\ \A run \in Runs : pc'[run] = "off"
        /\ worker' = "absent" /\ ~semaphore'
    BY <1>1, <1>2, <1>8 DEF Boot, PowerInv, Idle, Undisturbed, runs
  <2> QED
    BY <2>1 DEF Ready, Marked, ClaimedFirst, Started, NonePaused, Applying
<1>9. CASE Shutdown \/ Outage
  <2>1. power' # "on" /\ \A run \in Runs : pc'[run] = "off"
    BY <1>9 DEF Shutdown, Outage, PowerOff
  <2> QED
    BY <2>1 DEF Ready, Marked, ClaimedFirst, NonePaused, Applying
<1>10. CASE Stopped \/ UNCHANGED vars
  BY <1>2, <1>3, <1>10
  DEF Stopped, vars, machine, files, runs, Undisturbed, Ready, Marked, ClaimedFirst,
      NonePaused
<1> QED
  BY <1>4, <1>5, <1>6, <1>7, <1>8, <1>9, <1>10 DEF Next

(* The inductive invariant holds of every behaviour. *)
THEOREM IInvHolds == Spec => []IInv
BY InitIInv, NextIInv, PTL DEF Spec

(* Every variable keeps its type. *)
THEOREM TypeCorrect == Spec => []TypeOK
<1>1. IInv => TypeOK
  BY DEF IInv
<1> QED
  BY <1>1, IInvHolds, PTL

(* HaltOnIdle sees the lock of an undisturbed run for as long as the run   *)
(* prepares the instance.                                                  *)
THEOREM RunIsMarkedHolds == Spec => []RunIsMarked
<1>1. IInv => RunIsMarked
  BY DEF IInv, Ready, Marked, RunIsMarked
<1> QED
  BY <1>1, IInvHolds, PTL

(* generic-worker does not run while an undisturbed run prepares the       *)
(* instance.                                                               *)
THEOREM NoTaskWhileApplyingHolds == Spec => []NoTaskWhileApplying
<1>1. ASSUME IInv, Undisturbed, worker = "running", NEW run \in Runs
      PROVE  pc[run] \notin Applying
  <2>1. power = "on" /\ ClaimedFirst
    BY <1>1 DEF IInv, Ready, PowerInv, Idle
  <2>2. PICK claimed \in Runs : pc[claimed] \in Claimed
    BY <1>1, <2>1 DEF ClaimedFirst, Started
  <2>3. pc[run] = "off" \/ run = claimed
    BY <1>1, <2>2 DEF Undisturbed, Claimed
  <2> QED
    BY <2>2, <2>3 DEF Applying, Claimed
<1>2. IInv => NoTaskWhileApplying
  BY <1>1 DEF NoTaskWhileApplying
<1> QED
  BY <1>2, IInvHolds, PTL
=============================================================================
