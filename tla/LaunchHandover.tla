--------------------------- MODULE LaunchHandover ---------------------------
(***************************************************************************)
(* Which mechanism starts OpenCloudConfig at the next boot of an AWS       *)
(* instance, from the builder of an image to the workers launched from it. *)
(*                                                                         *)
(* The builder starts with the Ec2HandleUserData plugin enabled, which     *)
(* runs the (persistent) user data at each boot.  A run of OCC deletes and *)
(* creates again the scheduled task RunDesiredStateConfigurationAtStartup, *)
(* which runs C:\dsc\rundsc.ps1 at each boot, and then sets the plugin to  *)
(* the opposite of what it finds the task to be.  The builder of some      *)
(* images deletes the task at the start of its run as well.  These steps   *)
(* touch three pieces of persistent state one after the other, and power   *)
(* may be lost between any two of them; shutdown.exe returns at once, so a *)
(* run that asked for a restart goes on until Windows kills it.            *)
(***************************************************************************)
EXTENDS Naturals

CONSTANT MaxBoots       \* bound on power cycles, for TLC

ASSUME MaxBootsAssumption == MaxBoots \in Nat

Launcher == {"userdata", "task"}

(* The builder of an image is halted to be captured by the CI task, or     *)
(* given up; workers are launched from the captured image.                 *)
Stage == {"builder", "abandoned", "captured", "worker"}
PluginState == {"Enabled", "Disabled"}

VARIABLES
  plugin,       \* Ec2HandleUserData in the Ec2Config Config.xml
  startupTask,  \* the scheduled task is registered
  script,       \* C:\dsc\rundsc.ps1 exists
  named,        \* host name: "old", "changing" at the next boot, or "new"
  up,           \* the instance has power
  asked,        \* the shutdown Windows has accepted and not carried out yet
  pc,           \* per launcher, the step of the run it started
  wanted,       \* per launcher, the plugin state its current call wants
  stage,        \* what the instance is (see Stage)
  mishaps,      \* what went wrong and was not made good (history)
  bare,         \* the clean-up deleted the task and no save followed (history)
  boots

vars == <<plugin, startupTask, script, named, up, asked, pc, wanted,
          stage, mishaps, bare, boots>>

host == <<plugin, startupTask, script, named>>
power == <<up, boots, stage>>

(* The two calls of Set-Ec2ConfigSettings before a restart, and the final  *)
(* one, each read the task and then save the file.                         *)
AfterRead == [renameRead |-> "renameSave", rebootRead |-> "rebootSave",
              finalRead |-> "finalSave"]
AfterSave == [renameSave |-> "cleanup", rebootSave |-> "unregister",
              finalSave |-> "finish"]

Step == {"off", "rename", "cleanup", "provision", "unregister", "unlink",
         "download", "register", "finish"}
        \cup DOMAIN AfterRead \cup DOMAIN AfterSave

(* The task is being replaced, or is replaced and the plugin not yet set.  *)
HandingOver == {"unlink", "download", "register", "finalRead", "finalSave"}

Mishap == {"delete", "download", "create", "save", "restarted", "crashed"}

isWorker == stage = "worker"

-----------------------------------------------------------------------------
(* What the next boot will start.  The user data of a builder is a script; *)
(* that of a worker is the JSON of its provisioner and starts nothing.     *)
Launches(launcher) ==
  CASE launcher = "userdata" -> plugin = "Enabled" /\ stage \notin {"captured", "worker"}
    [] launcher = "task"     -> startupTask /\ script

(* shutdown.exe refuses a second request while one is pending. *)
Ask(request) == asked' = IF asked = "none" THEN request ELSE asked

Goto(launcher, step) == pc' = [pc EXCEPT ![launcher] = step]

Init ==
  /\ plugin = "Enabled" /\ startupTask = FALSE /\ script = FALSE
  /\ named = "old"
  /\ up = FALSE /\ asked = "none"
  /\ pc = [launcher \in Launcher |-> "off"]
  /\ wanted = [launcher \in Launcher |-> "Enabled"]
  /\ stage = "builder"
  /\ mishaps = {} /\ bare = FALSE
  /\ boots = 0

-----------------------------------------------------------------------------
(* Steps of a run. *)

(* Set-ComputerName answers a reboot reason until the new name is in use.  *)
(* A builder calls Set-Ec2ConfigSettings before it asks for the restart.   *)
Rename(launcher) ==
  /\ pc[launcher] = "rename"
  /\ \/ /\ named = "new"
        /\ Goto(launcher, "cleanup")
        /\ UNCHANGED <<named, asked>>
     \/ /\ named # "new"
        /\ named' = "changing"
        /\ IF isWorker
           THEN Ask("restart") /\ Goto(launcher, "cleanup")
           ELSE Goto(launcher, "renameRead") /\ UNCHANGED asked
  /\ UNCHANGED <<plugin, startupTask, script, wanted, mishaps, bare, power>>

(* Variant: the plugin is disabled without a look at the task. *)
AssumeTask(launcher) ==
  /\ pc[launcher] \in DOMAIN AfterRead
  /\ wanted' = [wanted EXCEPT ![launcher] = "Disabled"]
  /\ Goto(launcher, AfterRead[pc[launcher]])
  /\ UNCHANGED <<host, asked, mishaps, bare, power>>

(* The default of the parameter ec2ConfigSettings looks for the task. *)
ReadTask(launcher) ==
  /\ pc[launcher] \in DOMAIN AfterRead
  /\ wanted' = [wanted EXCEPT ![launcher] =
                  IF startupTask THEN "Disabled" ELSE "Enabled"]
  /\ Goto(launcher, AfterRead[pc[launcher]])
  /\ UNCHANGED <<host, asked, mishaps, bare, power>>

(* The rest of Set-Ec2ConfigSettings: the file is saved when something in  *)
(* it has to change, and a save that throws is logged.  The calls that are *)
(* there for a restart are followed by Invoke-Shutdown -restart.           *)
SaveConfig(launcher) ==
  /\ pc[launcher] \in DOMAIN AfterSave
  /\ \/ plugin' = wanted[launcher] /\ bare' = FALSE /\ UNCHANGED mishaps
     \/ /\ plugin # wanted[launcher]
        /\ mishaps' = mishaps \cup {"save"}
        /\ UNCHANGED <<plugin, bare>>
  /\ Goto(launcher, AfterSave[pc[launcher]])
  /\ IF pc[launcher] = "finalSave" THEN UNCHANGED asked ELSE Ask("restart")
  /\ UNCHANGED <<startupTask, script, named, wanted, power>>

(* The builder of a gecko-t-win7-* or gecko-t-win10-* image calls          *)
(* Remove-LegacyStuff, which deletes the startup task with other remains   *)
(* of older images and leaves the plugin alone.  Workers and other         *)
(* builders do not call it, and schtasks may fail.                         *)
RemoveLegacyStuff(launcher) ==
  /\ pc[launcher] = "cleanup"
  /\ \/ ~isWorker /\ startupTask' = FALSE /\ bare' = (bare \/ startupTask)
     \/ UNCHANGED <<startupTask, bare>>
  /\ Goto(launcher, "provision")
  /\ UNCHANGED <<plugin, script, named, asked, wanted, mishaps, power>>

(* From the drives and the page file to the teardown after the manifest.   *)
(* A worker that misses a drive is shut down for good; a new page file, or *)
(* a transcript that asks for it, restarts the instance; a builder whose   *)
(* transcript tells of a failure waits five hours, so that the CI task     *)
(* times out, and halts.                                                   *)
Provision(launcher) ==
  /\ pc[launcher] = "provision"
  /\ \/ Goto(launcher, "unregister") /\ UNCHANGED asked
     \/ Goto(launcher, "unregister") /\ Ask("abandon")
     \/ isWorker /\ Goto(launcher, "unregister") /\ Ask("restart")
     \/ ~isWorker /\ Goto(launcher, "rebootRead") /\ UNCHANGED asked
  /\ UNCHANGED <<host, wanted, mishaps, bare, power>>

(* New-PowershellScheduledTask, first part. *)
Unregister(launcher) ==
  /\ pc[launcher] = "unregister"
  /\ \/ startupTask' = FALSE /\ UNCHANGED mishaps
     \/ startupTask /\ mishaps' = mishaps \cup {"delete"} /\ UNCHANGED startupTask
  /\ Goto(launcher, "unlink")
  /\ UNCHANGED <<plugin, script, named, asked, wanted, bare, power>>

Unlink(launcher) ==
  /\ pc[launcher] = "unlink"
  /\ script' = FALSE
  /\ Goto(launcher, "download")
  /\ UNCHANGED <<plugin, startupTask, named, asked, wanted, mishaps, bare, power>>

Download(launcher) ==
  /\ pc[launcher] = "download"
  /\ \/ script' = TRUE /\ UNCHANGED mishaps
     \/ mishaps' = mishaps \cup {"download"} /\ UNCHANGED script
  /\ Goto(launcher, "register")
  /\ UNCHANGED <<plugin, startupTask, named, asked, wanted, bare, power>>

AfterRegister == IF isWorker THEN "finish" ELSE "finalRead"

(* Variant: nothing sets the plugin once the task exists. *)
RegisterOnly(launcher) ==
  /\ pc[launcher] = "register"
  /\ \/ script /\ startupTask' = TRUE /\ UNCHANGED mishaps
     \/ ~script /\ UNCHANGED <<startupTask, mishaps>>
  /\ Goto(launcher, "finish")
  /\ UNCHANGED <<plugin, script, named, asked, wanted, bare, power>>

(* A failed download or creation leaves a builder with its user data, and  *)
(* a later run may make it good; an image, and the workers launched from   *)
(* it, have nothing to fall back on.                                       *)
Tolerated == IF stage = "builder" THEN {"download", "create"} ELSE {}

(* The task is created only if the script is there. *)
Register(launcher) ==
  /\ pc[launcher] = "register"
  /\ \/ script /\ startupTask' = TRUE /\ mishaps' = mishaps \ Tolerated
     \/ /\ script
        /\ mishaps' = mishaps \cup {"create"}
        /\ UNCHANGED startupTask
     \/ ~script /\ UNCHANGED <<startupTask, mishaps>>
  /\ Goto(launcher, AfterRegister)
  /\ UNCHANGED <<plugin, script, named, asked, wanted, bare, power>>

(* The end of the run: Set-ChainOfTrustKey -shutdown on a builder, if the  *)
(* manifest has put a generic-worker in place and no user is connected.    *)
Finish(launcher) ==
  /\ pc[launcher] = "finish"
  /\ \/ UNCHANGED asked
     \/ ~isWorker /\ Ask("halt")
  /\ Goto(launcher, "off")
  /\ UNCHANGED <<host, wanted, mishaps, bare, power>>

Run(launcher) ==
  \/ Rename(launcher)
  \/ ReadTask(launcher)
  \/ SaveConfig(launcher)
  \/ RemoveLegacyStuff(launcher)
  \/ Provision(launcher)
  \/ Unregister(launcher)
  \/ Unlink(launcher)
  \/ Download(launcher)
  \/ Register(launcher)
  \/ Finish(launcher)

-----------------------------------------------------------------------------
(* Power. *)

Boot ==
  /\ ~up /\ stage # "abandoned" /\ boots < MaxBoots
  /\ up' = TRUE /\ boots' = boots + 1
  /\ IF stage = "captured"
     THEN stage' = "worker" /\ named' = "old"
     ELSE /\ named' = IF named = "old" THEN "old" ELSE "new"
          /\ UNCHANGED stage
  /\ pc' = [launcher \in Launcher |->
              IF Launches(launcher) THEN "rename" ELSE "off"]
  /\ UNCHANGED <<plugin, startupTask, script, asked, wanted, mishaps, bare>>

PowerOff(mishap) ==
  /\ up /\ up' = FALSE
  /\ asked' = "none"
  /\ pc' = [launcher \in Launcher |-> "off"]
  /\ mishaps' = IF bare \/ \E launcher \in Launcher : pc[launcher] \in HandingOver
                THEN mishaps \cup {mishap} ELSE mishaps
  /\ bare' = FALSE
  /\ UNCHANGED <<host, wanted, boots>>

(* A pending shutdown is carried out, whatever the run is doing by then. *)
Shutdown ==
  /\ asked # "none"
  /\ PowerOff("restarted")
  /\ stage' = CASE asked = "halt"    -> "captured"
                [] asked = "abandon" -> "abandoned"
                [] OTHER             -> stage

(* An outage, or a restart by somebody else. *)
Outage == PowerOff("crashed") /\ UNCHANGED stage

Stopped ==
  /\ ~up /\ (stage = "abandoned" \/ boots = MaxBoots)
  /\ UNCHANGED vars

Next ==
  \/ \E launcher \in Launcher : Run(launcher)
  \/ Boot
  \/ Shutdown
  \/ Outage
  \/ Stopped

Spec == Init /\ [][Next]_vars

-----------------------------------------------------------------------------
TypeOK ==
  /\ plugin \in PluginState
  /\ startupTask \in BOOLEAN /\ script \in BOOLEAN
  /\ named \in {"old", "changing", "new"}
  /\ up \in BOOLEAN
  /\ asked \in {"none", "restart", "halt", "abandon"}
  /\ pc \in [Launcher -> Step]
  /\ wanted \in [Launcher -> PluginState]
  /\ stage \in Stage
  /\ mishaps \subseteq Mishap
  /\ bare \in BOOLEAN
  /\ boots \in 0 .. MaxBoots

Undisturbed == mishaps \subseteq Tolerated

(* However the instance loses power, the next boot starts OCC exactly      *)
(* once: unless power was lost within a hand-over, or between the clean-up *)
(* of a builder that runs again and its next save of the plugin's state,   *)
(* or the file could not be saved, or schtasks failed to delete the old    *)
(* task, or an image was taken after a failed download or creation.        *)
RestartsOnce ==
  ~up /\ Undisturbed => (Launches("userdata") # Launches("task"))

(* One run at a time.  The lock file of Invoke-OpenCloudConfig does not    *)
(* provide it (see WorkerInstance): the hand-over must.                    *)
OneRun ==
  Undisturbed =>
    \A first, second \in Launcher :
      (pc[first] # "off" /\ pc[second] # "off" => first = second)
=============================================================================
