--------------------------- MODULE ManifestApply ----------------------------
(***************************************************************************)
(* Invoke-CustomDesiredStateProvider of OCC-Bootstrap.psm1: the loop that  *)
(* applies the components of a downloaded manifest to the instance.        *)
(*                                                                         *)
(* The outer loop repeats passes until as many records are collected as    *)
(* the manifest has entries.  A pass takes a snapshot of the entries whose *)
(* component is not recorded yet (todo) and visits it in manifest order;   *)
(* the dependencies of an entry are looked up in the live records, so an   *)
(* entry may follow its dependency within the same pass.  An entry that    *)
(* throws is recorded too, as a failure.  The records live in a local      *)
(* variable: a reboot loses them, and the next run starts from nothing on  *)
(* a host that keeps what was put in place.                                *)
(***************************************************************************)
EXTENDS Naturals, Sequences, FiniteSets

CONSTANTS
  Component,      \* (ComponentType, ComponentName) pairs
  Manifests,      \* the documents the manifest uri may serve
  Confirmable,    \* components whose type has a Confirm- check before Invoke-
  Unimplemented,  \* components of type WindowsFeatureInstall
  Quiet,          \* components of type ServiceControl, which report no failure
  MaxBoots        \* bound on reboots, for TLC

Entry == [component : Component, dependsOn : SUBSET Component]

ASSUME ManifestsAssumption ==
  /\ Manifests \subseteq Seq(Entry)
  /\ Confirmable \cap (Unimplemented \cup Quiet) = {}
  /\ MaxBoots \in Nat

VARIABLES
  manifest,   \* $manifest.Components of the current run, <<>> when null
  applied,    \* $appliedComponents
  todo,       \* the entries of the current pass that are not visited yet
  pc,         \* "fetch", "apply" or "done"
  passes,     \* passes of the outer loop begun in this run
  inPlace,    \* components the host has in place, across reboots
  boots       \* reboots so far

vars == <<manifest, applied, todo, pc, passes, inPlace, boots>>

AppliedState == {"Success", "Failure"}

-----------------------------------------------------------------------------
(* Get-ComponentAppliedState matches a record on type and name, whatever   *)
(* its AppliedState.                                                       *)
IsApplied(component) ==
  \E k \in DOMAIN applied : applied[k].component = component

(* Variant: one applied dependency is enough. *)
SomeDependencyApplied(entry) ==
  manifest[entry].dependsOn # {} =>
    \E component \in manifest[entry].dependsOn : IsApplied(component)

(* Variant: only a dependency that succeeded counts. *)
DependenciesSucceeded(entry) ==
  \A component \in manifest[entry].dependsOn :
    \E k \in DOMAIN applied : /\ applied[k].component = component
                             /\ applied[k].state = "Success"

(* Get-AllDependenciesAppliedState. *)
DependenciesApplied(entry) ==
  \A component \in manifest[entry].dependsOn : IsApplied(component)

(* The entry the inner loop visits next. *)
IsCurrent(entry) == entry \in todo /\ \A other \in todo : entry <= other

(* $appliedComponents += ..., and the inner loop moves on. *)
RecordEntry(entry, state) ==
  /\ applied' = Append(applied, [entry |-> entry,
                                 component |-> manifest[entry].component,
                                 state |-> state])
  /\ todo' = todo \ {entry}

-----------------------------------------------------------------------------
Init ==
  /\ manifest = <<>>
  /\ applied = <<>>
  /\ todo = {}
  /\ pc = "fetch"
  /\ passes = 0
  /\ inPlace = {}
  /\ boots = 0

(* Invoke-WebRequest either returns a document or throws; in the latter    *)
(* case the assignment is lost, the script goes on and $manifest is null.  *)
Fetch ==
  /\ pc = "fetch"
  /\ manifest' \in Manifests \cup {<<>>}
  /\ pc' = "apply"
  /\ UNCHANGED <<applied, todo, passes, inPlace, boots>>

(* Variant: a pass visits the recorded entries again. *)
StartUnfilteredPass ==
  /\ pc = "apply" /\ todo = {}
  /\ Len(applied) < Len(manifest)
  /\ todo' = DOMAIN manifest
  /\ passes' = IF passes <= Len(manifest) THEN passes + 1 ELSE passes
  /\ UNCHANGED <<manifest, applied, pc, inPlace, boots>>

(* The saturation of passes keeps the state space finite when the loop     *)
(* spins; PassesAreFew shows that no well-formed manifest gets there.      *)
StartPass ==
  /\ pc = "apply" /\ todo = {}
  /\ Len(applied) < Len(manifest)
  /\ todo' = {entry \in DOMAIN manifest : ~IsApplied(manifest[entry].component)}
  /\ passes' = IF passes <= Len(manifest) THEN passes + 1 ELSE passes
  /\ UNCHANGED <<manifest, applied, pc, inPlace, boots>>

Finish ==
  /\ pc = "apply" /\ todo = {}
  /\ Len(applied) >= Len(manifest)
  /\ pc' = "done"
  /\ UNCHANGED <<manifest, applied, todo, passes, inPlace, boots>>

(* Variant: an entry that must wait ends its pass. *)
PostponePass(entry) ==
  /\ pc = "apply" /\ IsCurrent(entry)
  /\ ~DependenciesApplied(entry)
  /\ todo' = {}
  /\ UNCHANGED <<manifest, applied, pc, passes, inPlace, boots>>

(* "application postponed": nothing is recorded. *)
Postpone(entry) ==
  /\ pc = "apply" /\ IsCurrent(entry)
  /\ ~DependenciesApplied(entry)
  /\ todo' = todo \ {entry}
  /\ UNCHANGED <<manifest, applied, pc, passes, inPlace, boots>>

(* Variant: Confirm- answers yes whatever is in place. *)
SkipUnconfirmed(entry) ==
  /\ pc = "apply" /\ IsCurrent(entry)
  /\ DependenciesApplied(entry)
  /\ manifest[entry].component \in Confirmable
  /\ RecordEntry(entry, "Success")
  /\ UNCHANGED <<manifest, pc, passes, inPlace, boots>>

(* "prior application detected": Confirm- answers yes, Invoke- is skipped. *)
Skip(entry) ==
  /\ pc = "apply" /\ IsCurrent(entry)
  /\ DependenciesApplied(entry)
  /\ manifest[entry].component \in Confirmable \cap inPlace
  /\ RecordEntry(entry, "Success")
  /\ UNCHANGED <<manifest, pc, passes, inPlace, boots>>

(* Invoke- returns, with the component in place.  A WindowsFeatureInstall  *)
(* only logs a warning; Set-ServiceState logs a service that is missing or *)
(* that does not start or stop, and returns all the same.                  *)
Invoke(entry) ==
  LET component == manifest[entry].component IN
  /\ pc = "apply" /\ IsCurrent(entry)
  /\ DependenciesApplied(entry)
  /\ component \notin Confirmable \cap inPlace
  /\ \/ component \notin Unimplemented /\ inPlace' = inPlace \cup {component}
     \/ component \in Unimplemented \cup Quiet /\ UNCHANGED inPlace
  /\ RecordEntry(entry, "Success")
  /\ UNCHANGED <<manifest, pc, passes, boots>>

(* Confirm- or Invoke- throws.  Some types call two functions and may have *)
(* taken effect before they throw.                                         *)
Fail(entry) ==
  LET component == manifest[entry].component IN
  /\ pc = "apply" /\ IsCurrent(entry)
  /\ DependenciesApplied(entry)
  /\ component \notin Unimplemented
  /\ inPlace' \in {inPlace, inPlace \cup {component}}
  /\ RecordEntry(entry, "Failure")
  /\ UNCHANGED <<manifest, pc, passes, boots>>

(* An installer, the idle monitor, the platform or an operator restarts    *)
(* the instance; the startup task runs the provider again.                 *)
Reboot ==
  /\ boots < MaxBoots
  /\ boots' = boots + 1
  /\ manifest' = <<>>
  /\ applied' = <<>>
  /\ todo' = {}
  /\ pc' = "fetch"
  /\ passes' = 0
  /\ UNCHANGED inPlace

Visit(entry) ==
  \/ Postpone(entry)
  \/ Skip(entry)
  \/ Invoke(entry)
  \/ Fail(entry)

Run ==
  \/ Fetch
  \/ StartPass
  \/ \E entry \in todo : Visit(entry)
  \/ Finish

Done == pc = "done" /\ UNCHANGED vars

Next == Run \/ Reboot \/ Done

Spec == Init /\ [][Next]_vars

(* The provider is one thread of one script: while it can step, it does. *)
FairSpec == Spec /\ WF_vars(Run)

-----------------------------------------------------------------------------
TypeOK ==
  /\ manifest \in Manifests \cup {<<>>}
  /\ applied \in Seq([entry : DOMAIN manifest,
                      component : Component,
                      state : AppliedState])
  /\ todo \subseteq DOMAIN manifest
  /\ pc \in {"fetch", "apply", "done"}
  /\ passes \in 0 .. Len(manifest) + 1
  /\ inPlace \subseteq Component
  /\ boots \in 0 .. MaxBoots

(* The entries recorded in this run. *)
Recorded == {applied[k].entry : k \in DOMAIN applied}

(* No entry is recorded twice, although the snapshot of a pass is older    *)
(* than the records the pass adds: the stop test of the outer loop         *)
(* compares lengths and would end a run early if one were.                 *)
RecordedOnce ==
  \A j, k \in DOMAIN applied : applied[j].entry = applied[k].entry => j = k

(* A run that ends has recorded every entry of its manifest, although its  *)
(* stop test only counts records.                                          *)
EndsComplete == pc = "done" => Recorded = DOMAIN manifest

(* Both together: a run that ends has one record for each entry.           *)
RecordsAreComplete == RecordedOnce /\ EndsComplete

(* In the order of the records, every component an entry depends on comes  *)
(* before the entry.                                                       *)
DependencyOrder ==
  \A k \in DOMAIN applied :
    \A component \in manifest[applied[k].entry].dependsOn :
      \E j \in 1 .. k - 1 : applied[j].component = component

(* A dependency is missing from the host when a dependent is recorded only *)
(* if the dependency failed earlier in this run, or is of one of the two   *)
(* types whose record says nothing: the unimplemented one and              *)
(* ServiceControl, whose failures are only logged.                         *)
GapsAreExplained ==
  \A k \in DOMAIN applied :
    \A component \in manifest[applied[k].entry].dependsOn \ inPlace :
      \/ component \in Unimplemented \cup Quiet
      \/ \E j \in 1 .. k - 1 : /\ applied[j].component = component
                               /\ applied[j].state = "Failure"

-----------------------------------------------------------------------------
(* A manifest that can be applied: no component has two entries, and ranks *)
(* can be given to entries so that every dependency of an entry has an     *)
(* entry of lower rank (no cycle, nothing dangling).                       *)
UniqueComponents(m) ==
  \A i, j \in DOMAIN m : m[i].component = m[j].component => i = j

Ranking(m, rank) ==
  \A i \in DOMAIN m :
    \A component \in m[i].dependsOn :
      \E j \in DOMAIN m : m[j].component = component /\ rank[j] < rank[i]

Ranks(m) == [DOMAIN m -> 1 .. Len(m)]

WellFormed(m) == UniqueComponents(m) /\ \E rank \in Ranks(m) : Ranking(m, rank)

(* Pass p + 1 begins only when every entry of rank up to p is recorded, so *)
(* a well-formed manifest takes at most as many passes as it has entries,  *)
(* whatever the order of its entries and whichever of them fail.           *)
PassesAreFew == WellFormed(manifest) => passes <= Len(manifest)

(* The outer loop ends: "loop through the manifest until all components    *)
(* have been applied" (OCC-Bootstrap.psm1, line 259).  It spins for ever   *)
(* when a dependency has no entry or the dependencies are circular.        *)
Terminates == <>[]WellFormed(manifest) => <>[](pc = "done")

-----------------------------------------------------------------------------
(* The run the provider implements. *)
DS == INSTANCE DesiredState WITH
        Documents <- Manifests,
        phase <- CASE pc = "fetch" -> "idle"
                   [] pc = "apply" -> "running"
                   [] pc = "done"  -> "finished",
        document <- manifest,
        recorded <- Recorded

ImplementsDesiredState == DS!Spec
=============================================================================
