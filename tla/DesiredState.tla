---------------------------- MODULE DesiredState ----------------------------
(***************************************************************************)
(* What one run of the OpenCloudConfig manifest provider promises.  A run  *)
(* fetches a manifest document, records each of its entries once, an entry *)
(* only after an entry for every component it depends on, and finishes     *)
(* only when every entry is recorded.  A reboot forgets the run.           *)
(*                                                                         *)
(* ManifestApply is the provider as it is coded; it implements this module *)
(* under the mapping given there.                                          *)
(***************************************************************************)
EXTENDS Naturals, Sequences

CONSTANT Documents      \* the manifest documents that a fetch may return

VARIABLES phase,        \* "idle" before the fetch, "running", "finished"
          document,     \* the document of this run
          recorded      \* the entries (positions of document) recorded

vars == <<phase, document, recorded>>

(* A component is satisfied once some entry that names it is recorded. *)
Satisfied(component) ==
  \E entry \in recorded : document[entry].component = component

Init ==
  /\ phase = "idle"
  /\ document = <<>>
  /\ recorded = {}

(* A fetch that fails leaves the run with nothing to do. *)
Begin ==
  /\ phase = "idle"
  /\ phase' = "running"
  /\ document' \in Documents \cup {<<>>}
  /\ recorded' = {}

Record(entry) ==
  /\ phase = "running"
  /\ entry \notin recorded
  /\ \A component \in document[entry].dependsOn : Satisfied(component)
  /\ recorded' = recorded \cup {entry}
  /\ UNCHANGED <<phase, document>>

Finish ==
  /\ phase = "running"
  /\ recorded = DOMAIN document
  /\ phase' = "finished"
  /\ UNCHANGED <<document, recorded>>

Forget ==
  /\ phase' = "idle"
  /\ document' = <<>>
  /\ recorded' = {}

Next ==
  \/ Begin
  \/ \E entry \in DOMAIN document : Record(entry)
  \/ Finish
  \/ Forget

Spec == Init /\ [][Next]_vars
=============================================================================
