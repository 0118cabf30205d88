------------------------ MODULE LaunchHandoverProofs ------------------------
(***************************************************************************)
(* Proofs about LaunchHandover: without a mishap, power is lost only in    *)
(* states from which exactly one launcher starts OCC, and so one run at a  *)
(* time is under way.                                                      *)
(*                                                                         *)
(* The argument follows the single run of a boot: outside the hand-over,   *)
(* and unless the clean-up has just deleted the task, the plugin is        *)
(* enabled exactly when the task is not registered, and within the         *)
(* hand-over the step tells what is registered.  A worker never saves the  *)
(* plugin's state, so it also has to be known to be disabled in the image, *)
(* which is where the builder's last save left it.                         *)
(***************************************************************************)
EXTENDS LaunchHandover, ChainOfTrustKey, TLAPS

Idle == \A launcher \in Launcher : pc[launcher] = "off"

Busy == \E launcher \in Launcher : pc[launcher] \in HandingOver

Backed == startupTask => script

Exclusive == plugin = "Enabled" <=> ~startupTask

Opposite == IF startupTask THEN "Disabled" ELSE "Enabled"

(* What the step of the run tells. *)
StepInv(launcher) ==
  /\ pc[launcher] \in {"unlink", "download", "register"} => ~startupTask
  /\ pc[launcher] = "register" /\ mishaps = {} => script
  /\ pc[launcher] \in {"finalRead", "finalSave"} =>
       (startupTask => script) /\ (mishaps = {} => startupTask)
  /\ pc[launcher] \in {"renameSave", "rebootSave", "finalSave"} =>
       wanted[launcher] = Opposite
  /\ pc[launcher] \in DOMAIN AfterRead \cup DOMAIN AfterSave => ~isWorker
  /\ pc[launcher] = "finish" /\ mishaps = {} => startupTask

(* What a run that reached its end leaves behind. *)
ImageInv ==
  /\ isWorker => plugin = "Disabled"
  /\ asked = "halt" \/ stage = "captured" =>
       Idle /\ (mishaps = {} => startupTask)

SingleRun ==
  \A first, second \in Launcher :
    pc[first] # "off" /\ pc[second] # "off" => first = second

Core ==
  /\ ~Busy => Backed
  /\ ~Busy /\ ~bare => Exclusive
  /\ SingleRun
  /\ \A launcher \in Launcher : StepInv(launcher)
  /\ ImageInv

PowerInv ==
  /\ ~up => Idle /\ asked = "none" /\ ~bare
  /\ stage \in {"captured", "abandoned"} => ~up
  /\ asked = "halt" => stage = "builder"

IInv == TypeOK /\ PowerInv /\ (Undisturbed => Core)

-----------------------------------------------------------------------------
LEMMA ReadsAndSaves ==
  /\ DOMAIN AfterRead = {"renameRead", "rebootRead", "finalRead"}
  /\ DOMAIN AfterSave = {"renameSave", "rebootSave", "finalSave"}
  /\ AfterRead["renameRead"] = "renameSave"
  /\ AfterRead["rebootRead"] = "rebootSave"
  /\ AfterRead["finalRead"] = "finalSave"
  /\ AfterSave["renameSave"] = "cleanup"
  /\ AfterSave["rebootSave"] = "unregister"
  /\ AfterSave["finalSave"] = "finish"
BY DEF AfterRead, AfterSave

LEMMA InitIInv == Init => IInv
<1> SUFFICES ASSUME Init PROVE IInv
  OBVIOUS
<1>1. TypeOK
  <2>1. pc \in [Launcher -> Step]
    BY DEF Init, Step
  <2>2. wanted \in [Launcher -> PluginState]
    BY DEF Init, PluginState
  <2>3. boots \in 0 .. MaxBoots
    BY MaxBootsAssumption DEF Init
  <2> QED
    BY <2>1, <2>2, <2>3 DEF Init, TypeOK, PluginState, Stage
<1>2. Idle /\ ~isWorker
  BY DEF Init, Idle, isWorker
<1>3. PowerInv
  BY <1>2 DEF Init, PowerInv
<1>4. Core
  BY <1>2, ReadsAndSaves
  DEF Init, Idle, Core, Busy, Backed, Exclusive, SingleRun, StepInv, ImageInv,
      HandingOver, Launcher
<1> QED
  BY <1>1, <1>3, <1>4 DEF IInv

(* The parts of the invariant that hold whatever goes wrong. *)
LEMMA NextTypes ==
  ASSUME TypeOK, PowerInv, [Next]_vars
  PROVE  TypeOK' /\ PowerInv'
<1> USE MaxBootsAssumption, ReadsAndSaves
    DEF TypeOK, PowerInv, Idle, Launcher, PluginState, Stage, Step, Mishap
<1>1. ASSUME NEW launcher \in Launcher, Run(launcher)
      PROVE  TypeOK' /\ PowerInv'
  <2> USE <1>1 DEF host, power, Goto, Ask
  <2>1. CASE Rename(launcher)      BY <2>1 DEF Rename
  <2>2. CASE ReadTask(launcher)    BY <2>2 DEF ReadTask
  <2>3. CASE SaveConfig(launcher)  BY <2>3, ZenonT(60) DEF SaveConfig
  <2>4. CASE Provision(launcher)   BY <2>4 DEF Provision, isWorker
  <2>10. CASE RemoveLegacyStuff(launcher)
    <3>1. startupTask' \in BOOLEAN /\ bare' \in BOOLEAN
      BY <2>10 DEF RemoveLegacyStuff
    <3> QED
      BY <2>10, <3>1 DEF RemoveLegacyStuff
  <2>5. CASE Unregister(launcher)  BY <2>5 DEF Unregister
  <2>6. CASE Unlink(launcher)      BY <2>6 DEF Unlink
  <2>7. CASE Download(launcher)    BY <2>7, ZenonT(60) DEF Download
  <2>8. CASE Register(launcher)    BY <2>8, ZenonT(60) DEF Register, AfterRegister
  <2>9. CASE Finish(launcher)      BY <2>9 DEF Finish, isWorker
  <2> QED
    BY <1>1, <2>1, <2>2, <2>3, <2>4, <2>5, <2>6, <2>7, <2>8, <2>9,
       <2>10 DEF Run
<1>2. CASE Boot      BY <1>2 DEF Boot
<1>3. CASE Shutdown  BY <1>3 DEF Shutdown, PowerOff, host
<1>4. CASE Outage    BY <1>4 DEF Outage, PowerOff, host
<1>5. CASE Stopped   BY <1>5 DEF Stopped, vars
<1>6. CASE UNCHANGED vars  BY <1>6 DEF vars
<1> QED
  BY <1>1, <1>2, <1>3, <1>4, <1>5, <1>6 DEF Next

-----------------------------------------------------------------------------
(* Only what a builder tolerates is made good, and an image tolerates      *)
(* nothing: what is undisturbed now was undisturbed before.                *)
LEMMA UndisturbedBefore ==
  ASSUME TypeOK, PowerInv, [Next]_vars, Undisturbed'
  PROVE  Undisturbed
<1> USE DEF Undisturbed, Tolerated, isWorker
<1>1. ASSUME NEW launcher \in Launcher, Run(launcher)
      PROVE  Undisturbed
  BY <1>1 DEF Run, Rename, ReadTask, SaveConfig, RemoveLegacyStuff, Provision, Unregister, Unlink,
              Download, Register, Finish, host, power
<1>2. CASE Boot      BY <1>2 DEF Boot
<1>3. CASE Shutdown
  <2>1. stage' = "builder" => stage = "builder"
    BY <1>3 DEF Shutdown, PowerInv, TypeOK
  <2> QED
    BY <1>3, <2>1 DEF Shutdown, PowerOff
<1>4. CASE Outage    BY <1>4 DEF Outage, PowerOff
<1>5. CASE Stopped   BY <1>5 DEF Stopped, vars
<1>6. CASE UNCHANGED vars  BY <1>6 DEF vars
<1> QED
  BY <1>1, <1>2, <1>3, <1>4, <1>5, <1>6 DEF Next

(* A step of the one run that is under way. *)
LEMMA RunCore ==
  ASSUME TypeOK, PowerInv, Undisturbed', Core,
         NEW launcher \in Launcher, Run(launcher)
  PROVE  Core'
<1> DEFINE Alone == \A other \in Launcher : other # launcher => pc[other] = "off"
           Now == pc[launcher]
<1>1. Now # "off"
  BY ReadsAndSaves
  DEF Run, Rename, ReadTask, SaveConfig, RemoveLegacyStuff, Provision, Unregister, Unlink, Download,
      Register, Finish
<1>2. Alone
  BY <1>1 DEF Core, SingleRun
<1>3. /\ pc' = [pc EXCEPT ![launcher] = pc'[launcher]]
      /\ pc \in [Launcher -> Step]
  BY DEF Run, Rename, ReadTask, SaveConfig, RemoveLegacyStuff, Provision, Unregister, Unlink,
         Download, Register, Finish, Goto, TypeOK
<1>4. Alone'
  BY <1>2, <1>3
<1>5. SingleRun'
  BY <1>4 DEF SingleRun
<1>6. Busy <=> Now \in HandingOver
  BY <1>2 DEF Busy, HandingOver
<1>7. Busy' <=> Now' \in HandingOver
  BY <1>4 DEF Busy, HandingOver
<1>8. up /\ stage \notin {"captured", "abandoned"} /\ asked # "halt"
  BY <1>1 DEF PowerInv, Core, ImageInv, Idle
<1>9. \A other \in Launcher : other # launcher => StepInv(other)'
  BY <1>4, ReadsAndSaves DEF StepInv
<1>10. stage' = stage
  BY DEF Run, Rename, ReadTask, SaveConfig, RemoveLegacyStuff, Provision, Unregister, Unlink,
         Download, Register, Finish, power
<1>11. SUFFICES /\ ~(Now' \in HandingOver) => Backed'
                /\ ~(Now' \in HandingOver) /\ ~bare' => Exclusive'
                /\ StepInv(launcher)' /\ ImageInv'
  BY <1>5, <1>7, <1>9 DEF Core
<1>12. /\ ~(Now \in HandingOver) => Backed
       /\ ~(Now \in HandingOver) /\ ~bare => Exclusive
  BY <1>6 DEF Core
<1>13. StepInv(launcher) /\ ImageInv
  BY DEF Core
<1> HIDE DEF Alone
<1> USE <1>3, <1>8, <1>10, <1>12, <1>13, ReadsAndSaves
    DEF HandingOver, Backed, Exclusive, StepInv, ImageInv, isWorker, TypeOK, Goto, Ask
<1>a. CASE Rename(launcher)
  BY <1>a DEF Rename, power
<1>b. CASE ReadTask(launcher)
  BY <1>b DEF ReadTask, Opposite, host
<1>c. CASE SaveConfig(launcher)
  <2>1. plugin' = wanted[launcher]
    BY <1>c DEF SaveConfig, Undisturbed, Tolerated
  <2> QED
    BY <1>c, <2>1 DEF SaveConfig, Opposite, PluginState
<1>j. CASE RemoveLegacyStuff(launcher)
  BY <1>j DEF RemoveLegacyStuff
<1>d. CASE Provision(launcher)
  BY <1>d DEF Provision, host
<1>e. CASE Unregister(launcher)
  BY <1>e DEF Unregister, Undisturbed, Tolerated
<1>f. CASE Unlink(launcher)
  BY <1>f DEF Unlink
<1>g. CASE Download(launcher)
  BY <1>g DEF Download, Undisturbed, Tolerated
<1>h. CASE Register(launcher)
  <2>1. /\ pc[launcher] = "register" /\ pc'[launcher] = AfterRegister
        /\ UNCHANGED <<plugin, script, wanted, asked>>
        /\ ~startupTask /\ (mishaps = {} => script)
    BY <1>h DEF Register
  <2>2. CASE script /\ startupTask' = TRUE /\ mishaps' = mishaps \ Tolerated
    BY <2>1, <2>2 DEF AfterRegister
  <2>3. CASE mishaps' # {} /\ UNCHANGED startupTask
    <3>1. ~isWorker
      BY <2>3 DEF Undisturbed, Tolerated
    <3>2. pc'[launcher] = "finalRead"
      BY <2>1, <3>1 DEF AfterRegister
    <3> QED
      BY <2>1, <2>3, <3>1, <3>2
  <2> QED
    BY <1>h, <2>1, <2>2, <2>3 DEF Register
<1>i. CASE Finish(launcher)
  BY <1>i, <1>4 DEF Finish, Idle, Alone, host
<1> QED
  BY <1>a, <1>b, <1>c, <1>d, <1>e, <1>f, <1>g, <1>h, <1>i, <1>j DEF Run

(* Without power, exactly one launcher is left in place: in an image it is *)
(* the task, as user data that is no script does not count.                *)
LEMMA OneLauncher ==
  ASSUME TypeOK, PowerInv, Undisturbed, Core, ~up
  PROVE  /\ Backed /\ Exclusive
         /\ Launches("userdata") <=> ~startupTask
         /\ Launches("task") <=> startupTask
<1>1. Backed /\ Exclusive
  BY DEF PowerInv, Idle, Busy, HandingOver, Core
<1>2. stage \in {"captured", "worker"} => plugin = "Disabled"
  BY <1>1 DEF Core, ImageInv, isWorker, Undisturbed, Tolerated, Exclusive, TypeOK, PluginState
<1> QED
  BY <1>1, <1>2 DEF TypeOK, Backed, Exclusive, Launches

(* A boot starts the one run that a consistent host launches. *)
LEMMA BootCore ==
  ASSUME TypeOK, PowerInv, Undisturbed, Undisturbed', Core, Boot
  PROVE  Core'
<1>1. ~up /\ Backed /\ Exclusive
  BY OneLauncher DEF Boot
<1>2. \A launcher \in Launcher : pc'[launcher] \in {"off", "rename"}
  BY DEF Boot
<1>3. Backed' /\ Exclusive'
  BY <1>1 DEF Boot, Backed, Exclusive
<1>4. SingleRun'
  <2>1. pc'["userdata"] # "off" => ~startupTask
    BY <1>1, OneLauncher DEF Boot, Launcher
  <2>2. pc'["task"] # "off" => startupTask
    BY <1>1, OneLauncher DEF Boot, Launcher
  <2> QED
    BY <2>1, <2>2 DEF SingleRun, Launcher
<1>5. ASSUME NEW launcher \in Launcher
      PROVE  StepInv(launcher)'
  BY <1>2, ReadsAndSaves DEF StepInv
<1>6. asked' = "none"
  BY DEF Boot, PowerInv
<1>7. ImageInv'
  <2>1. CASE stage = "captured"
    <3>1. isWorker' /\ stage' = "worker"
      BY <2>1 DEF Boot, isWorker
    <3>2. mishaps = {}
      BY <3>1 DEF Boot, Undisturbed, Tolerated
    <3>3. plugin' = "Disabled"
      BY <1>1, <2>1, <3>2 DEF Boot, Core, ImageInv, Exclusive, TypeOK, PluginState
    <3> QED
      BY <1>6, <3>1, <3>3 DEF ImageInv
  <2>2. CASE stage # "captured"
    BY <1>6, <2>2 DEF Boot, Core, ImageInv, isWorker
  <2> QED
    BY <2>1, <2>2
<1> QED
  BY <1>3, <1>4, <1>5, <1>7 DEF Core

(* Power that is lost without a mishap is lost outside the hand-over. *)
LEMMA PowerOffCore ==
  ASSUME TypeOK, PowerInv, Undisturbed', Core, Shutdown \/ Outage
  PROVE  Core'
<1>1. Idle' /\ asked' = "none" /\ UNCHANGED host
  BY DEF Shutdown, Outage, PowerOff, Idle
<1>2. ~Busy /\ ~bare
  BY DEF Shutdown, Outage, PowerOff, Undisturbed, Tolerated, Busy
<1>3. mishaps' = mishaps
  BY <1>2 DEF Shutdown, Outage, PowerOff, Busy
<1>4. Backed' /\ Exclusive'
  BY <1>1, <1>2 DEF Core, Backed, Exclusive, host
<1>5. SingleRun' /\ \A launcher \in Launcher : StepInv(launcher)'
  BY <1>1, ReadsAndSaves DEF SingleRun, StepInv, Idle
<1>6. ImageInv'
  <2>1. isWorker' => isWorker
    BY DEF Shutdown, Outage, isWorker
  <2>2. stage' = "captured" => asked = "halt" \/ stage = "captured"
    BY DEF Shutdown, Outage
  <2> QED
    BY <1>1, <1>3, <2>1, <2>2 DEF Core, ImageInv, host
<1> QED
  BY <1>4, <1>5, <1>6 DEF Core

LEMMA NextIInv == IInv /\ [Next]_vars => IInv'
<1> SUFFICES ASSUME IInv, [Next]_vars
             PROVE  IInv'
  OBVIOUS
<1>1. TypeOK /\ PowerInv /\ TypeOK' /\ PowerInv'
  BY NextTypes DEF IInv
<1>2. SUFFICES ASSUME Undisturbed' PROVE Core'
  BY <1>1 DEF IInv
<1>3. Undisturbed /\ Core
  BY <1>1, <1>2, UndisturbedBefore DEF IInv
<1>4. ASSUME NEW launcher \in Launcher, Run(launcher)
      PROVE  Core'
  BY <1>1, <1>2, <1>3, <1>4, RunCore
<1>5. CASE Boot
  BY <1>1, <1>2, <1>3, <1>5, BootCore
<1>6. CASE Shutdown \/ Outage
  BY <1>1, <1>2, <1>3, <1>6, PowerOffCore
<1>7. CASE Stopped \/ UNCHANGED vars
  <2>1. UNCHANGED vars
    BY <1>7 DEF Stopped
  <2> QED
    BY <1>3, <2>1
    DEF vars, Core, Busy, Backed, Exclusive, SingleRun, StepInv, ImageInv, Idle,
        Opposite, isWorker
<1> QED
  BY <1>4, <1>5, <1>6, <1>7 DEF Next

(* The inductive invariant holds of every behaviour. *)
THEOREM IInvHolds == Spec => []IInv
BY InitIInv, NextIInv, PTL DEF Spec

(* Every variable keeps its type. *)
THEOREM TypeCorrect == Spec => []TypeOK
<1>1. IInv => TypeOK
  BY DEF IInv
<1> QED
  BY <1>1, IInvHolds, PTL

(* One run at a time: the runs started at a boot never overlap as long as  *)
(* nothing went wrong that the scripts cannot make good.                   *)
THEOREM OneRunHolds == Spec => []OneRun
<1>1. IInv => OneRun
  BY DEF IInv, Core, SingleRun, OneRun
<1> QED
  BY <1>1, IInvHolds, PTL

(* The next boot starts OpenCloudConfig exactly once.                      *)
THEOREM RestartsOnceHolds == Spec => []RestartsOnce
<1>1. ASSUME IInv, ~up, Undisturbed
      PROVE  Launches("userdata") # Launches("task")
  <2>1. TypeOK /\ PowerInv /\ Core
    BY <1>1 DEF IInv
  <2> QED
    BY <1>1, <2>1, OneLauncher
<1>2. IInv => RestartsOnce
  BY <1>1 DEF RestartsOnce
<1> QED
  BY <1>2, IInvHolds, PTL

-----------------------------------------------------------------------------
(***************************************************************************)
(* The key of the chain of trust: a level 3 image is taken with its key,   *)
(* for any number of restarts.  Users who only ever add to the key file    *)
(* make what a wait has seen stay true; the invariant says what the waits  *)
(* passed so far saw.                                                      *)
(***************************************************************************)
KeyWaits == {"start", "awaitKey", "awaitContent", "awaitDisconnect", "recheck", "seal",
             "shutdown", "done"}

Level3Inv ==
  kind = "level3" =>
    /\ keyPc \in KeyWaits
    /\ keyPc \in {"awaitDisconnect", "recheck", "seal", "shutdown"} => key = "full"
    /\ keyPc = "shutdown" => sealed
    /\ GoingDown => key = "full" /\ sealed

KeyIInv == KeyTypeOK /\ Level3Inv

LEMMA KeyInitHolds == KeyInit => KeyIInv
<1> SUFFICES ASSUME KeyInit PROVE KeyIInv
  OBVIOUS
<1>1. KeyTypeOK
  <2>1. keyPc \in KeyStep /\ keyBoots \in 0 .. MaxKeyBoots
    BY MaxKeyBootsAssumption DEF KeyInit, KeyStep
  <2>2. public \in BOOLEAN /\ sealed \in BOOLEAN /\ rdp \in BOOLEAN
    BY DEF KeyInit
  <2> QED
    BY <2>1, <2>2 DEF KeyInit, KeyTypeOK
<1>2. Level3Inv
  BY DEF KeyInit, Level3Inv, KeyWaits, GoingDown
<1> QED
  BY <1>1, <1>2 DEF KeyIInv

(* Every step keeps the types. *)
LEMMA KeyNextTypeOK ==
  ASSUME KeyTypeOK, [KeyNext]_keyVars
  PROVE  KeyTypeOK'
<1> USE MaxKeyBootsAssumption DEF KeyTypeOK, instance, files, machine
<1>1. CASE Start            BY <1>1 DEF Start, KeyStep
<1>2. CASE AwaitKey         BY <1>2 DEF AwaitKey, KeyStep
<1>3. CASE AwaitContent     BY <1>3 DEF AwaitContent, KeyStep
<1>4. CASE AwaitDisconnect  BY <1>4 DEF AwaitDisconnect, KeyStep
<1>5. CASE Recheck          BY <1>5 DEF Recheck, KeyStep
<1>6. CASE Seal
  <2>1. sealed' \in BOOLEAN /\ keyPc' \in KeyStep
    BY <1>6 DEF Seal, KeyStep
  <2> QED
    BY <1>6, <2>1 DEF Seal
<1>7. CASE ShutDown         BY <1>7 DEF ShutDown, KeyAsk, KeyStep
<1>8. CASE Generate
  <2>1. public' \in BOOLEAN /\ keyPc' \in KeyStep
    BY <1>8 DEF Generate, KeyStep
  <2> QED
    BY <1>8, <2>1 DEF Generate
<1>9. CASE KeyShutdown      BY <1>9 DEF KeyShutdown, KeyAsk, WithKey, KeyStep
<1>10. CASE LastShutdown    BY <1>10 DEF LastShutdown, KeyAsk, AtTheEnd, KeyStep
<1>11. CASE Session
  <2>1. rdp' \in BOOLEAN
    BY <1>11 DEF Session
  <2> QED
    BY <1>11, <2>1 DEF Session
<1>12. CASE PutKey          BY <1>12 DEF PutKey
<1>13. CASE PowerDown
  <2>1. rdp' \in BOOLEAN /\ keyAsked' = "none" /\ UNCHANGED <<instance, files>>
    BY <1>13 DEF PowerDown
  <2>2. keyPower' \in {"on", "captured"} /\ keyBoots' \in 0 .. MaxKeyBoots /\ keyPc' \in KeyStep
    BY <1>13 DEF PowerDown, KeyStep
  <2> QED
    BY <2>1, <2>2
<1>14. CASE KeyStopped \/ UNCHANGED keyVars
  BY <1>14 DEF KeyStopped, keyVars
<1> QED
  BY <1>1, <1>2, <1>3, <1>4, <1>5, <1>6, <1>7, <1>8, <1>9, <1>10, <1>11, <1>12,
     <1>13, <1>14 DEF KeyNext, KeyRun

LEMMA NextLevel3Inv ==
  ASSUME KeyTypeOK, Level3Inv, [KeyNext]_keyVars
  PROVE  Level3Inv'
<1> SUFFICES ASSUME kind' = "level3"
             PROVE  Level3Inv'
  BY DEF Level3Inv
<1>1. kind = "level3"
  BY DEF KeyNext, KeyRun, Start, AwaitKey, AwaitContent, AwaitDisconnect, Recheck, Seal,
         ShutDown, Generate, KeyShutdown, LastShutdown, Session, PutKey, PowerDown,
         KeyStopped, keyVars, instance
<1> USE <1>1 DEF KeyTypeOK, Level3Inv, KeyWaits, GoingDown, instance, files, machine
<1>2. CASE Start            BY <1>2 DEF Start
<1>3. CASE AwaitKey         BY <1>3 DEF AwaitKey
<1>4. CASE AwaitContent     BY <1>4 DEF AwaitContent
<1>5. CASE AwaitDisconnect  BY <1>5 DEF AwaitDisconnect
<1>6. CASE Recheck          BY <1>6 DEF Recheck
<1>7. CASE Seal             BY <1>7 DEF Seal
<1>8. CASE ShutDown         BY <1>8 DEF ShutDown, KeyAsk
<1>9. CASE Generate \/ KeyShutdown \/ LastShutdown
  BY <1>9 DEF Generate, KeyShutdown, LastShutdown
<1>10. CASE Session         BY <1>10 DEF Session
<1>11. CASE PutKey          BY <1>11 DEF PutKey
<1>12. CASE PowerDown       BY <1>12 DEF PowerDown
<1>13. CASE KeyStopped \/ UNCHANGED keyVars
  BY <1>13 DEF KeyStopped, keyVars
<1> QED
  BY <1>2, <1>3, <1>4, <1>5, <1>6, <1>7, <1>8, <1>9, <1>10, <1>11, <1>12, <1>13
  DEF KeyNext, KeyRun

(* The inductive invariant holds of every behaviour. *)
THEOREM KeyIInvHolds == KeySpec => []KeyIInv
<1>1. KeyIInv /\ [KeyNext]_keyVars => KeyIInv'
  BY KeyNextTypeOK, NextLevel3Inv DEF KeyIInv
<1> QED
  BY KeyInitHolds, <1>1, PTL DEF KeySpec

(* Every variable keeps its type. *)
THEOREM KeyTypeCorrect == KeySpec => []KeyTypeOK
<1>1. KeyIInv => KeyTypeOK
  BY DEF KeyIInv
<1> QED
  BY <1>1, KeyIInvHolds, PTL

(* A level 3 image is never taken without its key.                         *)
THEOREM Level3HasKeyHolds == KeySpec => []Level3HasKey
<1>1. KeyIInv => Level3HasKey
  BY DEF KeyIInv, Level3Inv, Level3HasKey
<1> QED
  BY <1>1, KeyIInvHolds, PTL
=============================================================================
