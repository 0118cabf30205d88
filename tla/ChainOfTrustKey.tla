-------------------------- MODULE ChainOfTrustKey --------------------------
(***************************************************************************)
(* Set-ChainOfTrustKey, the last thing a run does on the builder of an     *)
(* image, and what users do meanwhile in remote desktop sessions: the      *)
(* ed25519 key that generic-worker signs artifacts with is generated, or   *)
(* on a level 3 builder put there by a user, and then the builder is shut  *)
(* down to be captured.  The key file is looked at several times, with     *)
(* waits in between.  It is what Finish of LaunchHandover stands for, and  *)
(* what both have has names with "key" here.                               *)
(***************************************************************************)
EXTENDS Naturals

CONSTANT MaxKeyBoots    \* bound on power cycles, for TLC

ASSUME MaxKeyBootsAssumption == MaxKeyBoots \in Nat

(* The switch on the worker type. *)
Kind == {"level3", "hardware", "default"}
Location == {"AWS", "Azure", "other"}

VARIABLES
  kind, location,  \* of the instance
  shutdown,        \* the switch of that name: set on builders
  keyPc,
  key,             \* ed25519-private.key: "absent", "empty" or "full"
  public,          \* ed25519-public.key exists
  sealed,          \* the private key is readable by administrators only
  rdp,             \* a remote desktop session is open
  keyAsked,        \* the shutdown Windows has accepted
  keyPower,        \* "on", or "captured": the builder is down for good
  keyBoots

instance == <<kind, location, shutdown>>
files == <<key, public, sealed>>
machine == <<keyAsked, keyPower, keyBoots>>
keyVars == <<instance, keyPc, files, rdp, machine>>

KeyStep == {"start", "awaitKey", "awaitContent", "awaitDisconnect", "recheck", "seal",
            "shutdown", "generate", "sealNew", "keyShutdown", "lastShutdown", "done"}

-----------------------------------------------------------------------------
KeyAsk(request) == keyAsked' = IF keyAsked = "none" THEN request ELSE keyAsked

(* What the default branch asks for, the first and the second time. *)
WithKey == IF location = "other" THEN "restart" ELSE "halt"

AtTheEnd == IF location = "AWS" THEN "halt" ELSE "restart"

KeyInit ==
  /\ kind \in Kind /\ location \in Location /\ shutdown \in BOOLEAN
  /\ keyPc = "start"
  /\ key = "absent" /\ public = FALSE /\ sealed = FALSE
  /\ rdp = FALSE /\ keyAsked = "none" /\ keyPower = "on" /\ keyBoots = 0

(* On hardware nothing is done without the worker and its configuration. *)
Start ==
  /\ keyPc = "start"
  /\ keyPc' \in CASE kind = "level3"   -> {"awaitKey"}
                  [] kind = "hardware" -> {"generate", "done"}
                  [] OTHER             -> {"generate"}
  /\ UNCHANGED <<instance, files, rdp, machine>>

-----------------------------------------------------------------------------
(* Level 3: each wait is a loop with a sleep of a minute. *)

AwaitKey ==
  /\ keyPc = "awaitKey" /\ key # "absent"
  /\ keyPc' = "awaitContent"
  /\ UNCHANGED <<instance, files, rdp, machine>>

(* Variant: a file is taken for a key. *)
TakeEmpty ==
  /\ keyPc = "awaitContent" /\ key # "absent"
  /\ keyPc' = "awaitDisconnect"
  /\ UNCHANGED <<instance, files, rdp, machine>>

AwaitContent ==
  /\ keyPc = "awaitContent" /\ key = "full"
  /\ keyPc' = "awaitDisconnect"
  /\ UNCHANGED <<instance, files, rdp, machine>>

(* Variant: waits for a session instead of for its end. *)
AwaitConnect ==
  /\ keyPc = "awaitDisconnect" /\ rdp
  /\ keyPc' = "recheck"
  /\ UNCHANGED <<instance, files, rdp, machine>>

AwaitDisconnect ==
  /\ keyPc = "awaitDisconnect" /\ ~rdp
  /\ keyPc' = "recheck"
  /\ UNCHANGED <<instance, files, rdp, machine>>

(* A key that was taken away ends it: the builder is left to time out. *)
Recheck ==
  /\ keyPc = "recheck"
  /\ keyPc' = IF key = "absent" THEN "done" ELSE "seal"
  /\ UNCHANGED <<instance, files, rdp, machine>>

Seal ==
  /\ keyPc \in {"seal", "sealNew"}
  /\ sealed' = (key # "absent")
  /\ keyPc' = IF keyPc = "seal" /\ shutdown THEN "shutdown" ELSE "done"
  /\ UNCHANGED <<instance, key, public, rdp, machine>>

ShutDown ==
  /\ keyPc = "shutdown"
  /\ KeyAsk("halt")
  /\ keyPc' = "done"
  /\ UNCHANGED <<instance, files, rdp, keyPower, keyBoots>>

-----------------------------------------------------------------------------
(* The other branches: the key is generated unless there is one, which may *)
(* fail.  The public key is what generic-worker printed; on hardware it is *)
(* printed into the file itself.                                           *)
Generate ==
  /\ keyPc = "generate"
  /\ \/ key # "absent" /\ UNCHANGED <<key, public>>
     \/ key = "absent" /\ key' = "full" /\ public' = TRUE
     \/ /\ key = "absent" /\ UNCHANGED key
        /\ public' = (kind = "hardware" \/ public)
  /\ keyPc' = CASE kind = "default"  -> "keyShutdown"
                [] key = "absent"    -> "sealNew"
                [] OTHER             -> "done"
  /\ UNCHANGED <<instance, sealed, rdp, machine>>

(* A builder that sysprep is not done with is handed back to it instead. *)
KeyShutdown ==
  /\ keyPc = "keyShutdown"
  /\ \/ /\ shutdown /\ key # "absent"
        /\ KeyAsk(WithKey)
        /\ keyPc' = "lastShutdown"
     \/ /\ shutdown /\ key # "absent" /\ location = "Azure"
        /\ keyPc' = "done" /\ UNCHANGED keyAsked
     \/ /\ ~(shutdown /\ key # "absent")
        /\ keyPc' = "lastShutdown" /\ UNCHANGED keyAsked
  /\ UNCHANGED <<instance, files, rdp, keyPower, keyBoots>>

LastShutdown ==
  /\ keyPc = "lastShutdown"
  /\ IF shutdown /\ ~rdp THEN KeyAsk(AtTheEnd) ELSE UNCHANGED keyAsked
  /\ keyPc' = "done"
  /\ UNCHANGED <<instance, files, rdp, keyPower, keyBoots>>

-----------------------------------------------------------------------------
(* Users: the file appears before it has its content, and is not taken   *)
(* away again.                                                             *)

Session ==
  /\ keyPower = "on"
  /\ rdp' = ~rdp
  /\ UNCHANGED <<instance, keyPc, files, machine>>

PutKey ==
  /\ rdp
  /\ key' = CASE key = "absent" -> "empty"
              [] OTHER          -> "full"
  /\ UNCHANGED <<instance, keyPc, public, sealed, rdp, machine>>

(* After a restart the run begins again. *)
PowerDown ==
  /\ keyPower = "on" /\ keyAsked # "none"
  /\ IF keyAsked = "halt" THEN keyPower' = "captured" /\ UNCHANGED <<keyPc, keyBoots>>
     ELSE keyBoots < MaxKeyBoots /\ keyBoots' = keyBoots + 1 /\ keyPc' = "start" /\ UNCHANGED keyPower
  /\ rdp' = FALSE /\ keyAsked' = "none"
  /\ UNCHANGED <<instance, files>>

KeyRun ==
  /\ keyPower = "on"
  /\ \/ Start
     \/ AwaitKey \/ AwaitContent \/ AwaitDisconnect \/ Recheck \/ Seal \/ ShutDown
     \/ Generate \/ KeyShutdown \/ LastShutdown

KeyStopped ==
  /\ keyPower = "captured"
  /\ UNCHANGED keyVars

KeyNext == KeyRun \/ Session \/ PutKey \/ PowerDown \/ KeyStopped

KeySpec == KeyInit /\ [][KeyNext]_keyVars

(* The waits poll; users and Windows are left alone.                       *)
KeyFairSpec == KeySpec /\ WF_keyVars(KeyRun)

-----------------------------------------------------------------------------
KeyTypeOK ==
  /\ kind \in Kind /\ location \in Location /\ shutdown \in BOOLEAN
  /\ keyPc \in KeyStep
  /\ key \in {"absent", "empty", "full"}
  /\ public \in BOOLEAN /\ sealed \in BOOLEAN /\ rdp \in BOOLEAN
  /\ keyAsked \in {"none", "restart", "halt"}
  /\ keyPower \in {"on", "captured"}
  /\ keyBoots \in 0 .. MaxKeyBoots

GoingDown == keyAsked = "halt" \/ keyPower = "captured"

(* A level 3 image is never taken without the key: "level 3 builder needs  *)
(* key added by user intervention" (OCC-Bootstrap.psm1:1872).  The file is *)
(* not enough, its content must be there, and nobody else may read it.     *)
Level3HasKey == kind = "level3" /\ GoingDown => key = "full" /\ sealed

(* Once the user has put the key in place and left, the image is taken.    *)
InterventionEnds ==
  kind = "level3" /\ shutdown /\ <>[](key = "full" /\ ~rdp) => <>GoingDown
=============================================================================
