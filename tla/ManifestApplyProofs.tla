------------------------ MODULE ManifestApplyProofs -------------------------
(***************************************************************************)
(* Proofs about ManifestApply, for every set of components, manifests and  *)
(* bounds.  The stop test of the provider compares lengths, so the         *)
(* argument rests on counting: the records are as many as the entries they *)
(* stand for (Counted), because an entry waiting in a pass has no record   *)
(* (Fresh) although the snapshot it comes from is older than the records.  *)
(***************************************************************************)
EXTENDS ManifestApply, FiniteSetTheorems, TLAPS

Record == [entry : DOMAIN manifest, component : Component, state : AppliedState]

(* A record carries the component of its entry. *)
Linked ==
  \A k \in DOMAIN applied :
    applied[k].component = manifest[applied[k].entry].component

(* The entries a pass has still to visit have no record. *)
Fresh == todo \cap Recorded = {}

(* As many records as recorded entries. *)
Counted == IsFiniteSet(Recorded) /\ Cardinality(Recorded) = Len(applied)

(* Nothing is known before the fetch, nothing is under way after the end. *)
PhaseOK ==
  /\ pc = "fetch" => manifest = <<>> /\ applied = <<>> /\ todo = {} /\ passes = 0
  /\ pc = "done" => todo = {}

IInv == TypeOK /\ Linked /\ Fresh /\ Counted /\ PhaseOK

-----------------------------------------------------------------------------
(* A document is a sequence of entries. *)
LEMMA ManifestIsSeq ==
  ASSUME TypeOK
  PROVE  /\ manifest \in Seq(Entry)
         /\ Len(manifest) \in Nat
         /\ DOMAIN manifest = 1 .. Len(manifest)
         /\ \A i \in DOMAIN manifest : /\ manifest[i].component \in Component
                                       /\ manifest[i].dependsOn \subseteq Component
<1>1. manifest \in Seq(Entry)
  BY ManifestsAssumption DEF TypeOK
<1>2. Len(manifest) \in Nat /\ DOMAIN manifest = 1 .. Len(manifest)
  BY <1>1
<1>3. \A i \in DOMAIN manifest : manifest[i] \in Entry
  BY <1>1, <1>2
<1> QED BY <1>1, <1>2, <1>3 DEF Entry

(* What one more record changes. *)
LEMMA RecordEntryLemma ==
  ASSUME TypeOK, NEW entry \in todo, NEW state \in AppliedState,
         RecordEntry(entry, state)
  PROVE  /\ applied' \in Seq(Record)
         /\ Len(applied') = Len(applied) + 1
         /\ DOMAIN applied = 1 .. Len(applied)
         /\ DOMAIN applied' = 1 .. Len(applied) + 1
         /\ \A k \in DOMAIN applied : applied'[k] = applied[k]
         /\ applied'[Len(applied) + 1].entry = entry
         /\ applied'[Len(applied) + 1].component = manifest[entry].component
         /\ applied'[Len(applied) + 1].state = state
         /\ Recorded' = Recorded \cup {entry}
         /\ todo' \subseteq DOMAIN manifest
         /\ Len(applied) \in Nat
<1> DEFINE rec == [entry |-> entry, component |-> manifest[entry].component,
                   state |-> state]
<1>1. applied \in Seq(Record) /\ entry \in DOMAIN manifest
  BY DEF TypeOK, Record
<1>2. rec \in Record
  BY <1>1, ManifestIsSeq DEF Record
<1>3. applied' = Append(applied, rec) /\ todo' = todo \ {entry}
  BY DEF RecordEntry
<1> HIDE DEF rec
<1>4. /\ applied' \in Seq(Record)
      /\ Len(applied') = Len(applied) + 1
      /\ \A k \in 1 .. Len(applied) : applied'[k] = applied[k]
      /\ applied'[Len(applied) + 1] = rec
      /\ Len(applied) \in Nat
  BY <1>1, <1>2, <1>3
<1>5. DOMAIN applied = 1 .. Len(applied) /\ DOMAIN applied' = 1 .. Len(applied) + 1
  BY <1>1, <1>4
<1>6. rec.entry = entry /\ rec.component = manifest[entry].component /\ rec.state = state
  BY DEF rec
<1>7. Recorded' = Recorded \cup {entry}
  <2>1. \A x : x \in Recorded' <=> x \in Recorded \/ x = entry
    BY <1>4, <1>5, <1>6 DEF Recorded
  <2> QED BY <2>1
<1> QED BY <1>3, <1>4, <1>5, <1>6, <1>7 DEF TypeOK

-----------------------------------------------------------------------------
(* The four ways of visiting an entry either leave the records alone or    *)
(* add one; this is what every invariant needs to know of them.            *)
LEMMA VisitLemma ==
  ASSUME TypeOK, NEW entry \in todo, Visit(entry)
  PROVE  /\ UNCHANGED <<manifest, pc, passes, boots>>
         /\ todo' = todo \ {entry}
         /\ pc = "apply"
         /\ IsCurrent(entry)
         /\ inPlace' \subseteq Component
         /\ \/ ~DependenciesApplied(entry) /\ applied' = applied
            \/ /\ DependenciesApplied(entry)
               /\ \E state \in AppliedState : RecordEntry(entry, state)
<1>1. CASE Postpone(entry)
  BY <1>1 DEF Postpone, TypeOK
<1>2. CASE Skip(entry)
  BY <1>2 DEF Skip, RecordEntry, TypeOK, AppliedState
<1>3. entry \in DOMAIN manifest /\ manifest[entry].component \in Component
  BY ManifestIsSeq DEF TypeOK
<1>4. CASE Invoke(entry)
  BY <1>3, <1>4 DEF Invoke, RecordEntry, TypeOK, AppliedState
<1>5. CASE Fail(entry)
  BY <1>3, <1>5 DEF Fail, RecordEntry, TypeOK, AppliedState
<1> QED BY <1>1, <1>2, <1>4, <1>5 DEF Visit

LEMMA InitIInv == Init => IInv
<1> SUFFICES ASSUME Init PROVE IInv
  OBVIOUS
<1>1. Recorded = {}
  BY DEF Init, Recorded
<1>2. TypeOK
  BY ManifestsAssumption DEF Init, TypeOK
<1> QED BY <1>1, <1>2, FS_EmptySet DEF Init, IInv, Linked, Fresh, Counted, PhaseOK

-----------------------------------------------------------------------------
(* One step preserves each part of the invariant. *)
LEMMA TypeStep == TypeOK /\ PhaseOK /\ [Next]_vars => TypeOK'
<1> SUFFICES ASSUME TypeOK, PhaseOK, [Next]_vars PROVE TypeOK'
  OBVIOUS
<1>1. Len(manifest) \in Nat /\ DOMAIN manifest = 1 .. Len(manifest)
  BY ManifestIsSeq
<1>2. CASE Fetch
  <2>1. applied' = <<>> /\ todo' = {} /\ passes' = 0
    BY <1>2 DEF Fetch, PhaseOK
  <2>2. manifest' \in Manifests \cup {<<>>} /\ Len(manifest') \in Nat
    BY <1>2, ManifestsAssumption DEF Fetch
  <2> QED BY <1>2, <2>1, <2>2 DEF Fetch, TypeOK
<1>3. CASE StartPass
  BY <1>1, <1>3 DEF StartPass, TypeOK
<1>4. CASE Finish
  BY <1>4 DEF Finish, TypeOK
<1>5. ASSUME NEW entry \in todo, Visit(entry) PROVE TypeOK'
  <2>1. /\ UNCHANGED <<manifest, pc, passes, boots>>
        /\ todo' \subseteq DOMAIN manifest
        /\ inPlace' \subseteq Component
    BY <1>5, VisitLemma DEF TypeOK
  <2>2. applied' \in Seq(Record)
    BY <1>5, VisitLemma, RecordEntryLemma DEF TypeOK, Record
  <2> QED BY <2>1, <2>2 DEF TypeOK, Record
<1>6. CASE Reboot
  BY <1>6, ManifestsAssumption DEF Reboot, TypeOK
<1>7. CASE UNCHANGED vars
  BY <1>7 DEF vars, TypeOK
<1> QED BY <1>2, <1>3, <1>4, <1>5, <1>6, <1>7 DEF Next, Run, Done

LEMMA PhaseStep == TypeOK /\ PhaseOK /\ [Next]_vars => PhaseOK'
<1> SUFFICES ASSUME TypeOK, PhaseOK, [Next]_vars PROVE PhaseOK'
  OBVIOUS
<1>1. ASSUME NEW entry \in todo, Visit(entry) PROVE PhaseOK'
  BY <1>1, VisitLemma DEF PhaseOK
<1> QED BY <1>1 DEF Next, Run, Done, vars, Fetch, StartPass, Finish, Reboot, PhaseOK

(* An entry of the pass is not recorded yet, and the record it gets names  *)
(* its own component.                                                      *)
LEMMA LinkedStep == TypeOK /\ PhaseOK /\ Linked /\ [Next]_vars => Linked'
<1> SUFFICES ASSUME TypeOK, PhaseOK, Linked, [Next]_vars PROVE Linked'
  OBVIOUS
<1>1. CASE Fetch
  BY <1>1 DEF Fetch, PhaseOK, Linked
<1>2. ASSUME NEW entry \in todo, Visit(entry) PROVE Linked'
  <2>1. manifest' = manifest
    BY <1>2, VisitLemma
  <2>2. CASE applied' = applied
    BY <2>1, <2>2 DEF Linked
  <2>3. ASSUME NEW state \in AppliedState, RecordEntry(entry, state)
        PROVE  Linked'
    BY <2>1, <2>3, RecordEntryLemma DEF Linked
  <2> QED BY <1>2, <2>2, <2>3, VisitLemma
<1>3. CASE Reboot
  BY <1>3 DEF Reboot, Linked
<1>4. CASE StartPass \/ Finish \/ UNCHANGED vars
  BY <1>4 DEF StartPass, Finish, vars, Linked
<1> QED BY <1>1, <1>2, <1>3, <1>4 DEF Next, Run, Done

(* The snapshot of a new pass avoids every recorded entry, because the     *)
(* record names the component of the entry.                                *)
LEMMA FreshStep ==
  TypeOK /\ PhaseOK /\ Linked /\ Fresh /\ [Next]_vars => Fresh'
<1> SUFFICES ASSUME TypeOK, PhaseOK, Linked, Fresh, [Next]_vars PROVE Fresh'
  OBVIOUS
<1>1. CASE StartPass
  <2>1. ASSUME NEW entry \in todo' PROVE entry \notin Recorded
    BY <1>1, <2>1 DEF StartPass, IsApplied, Linked, Recorded
  <2> QED BY <1>1, <2>1 DEF StartPass, Fresh, Recorded
<1>2. ASSUME NEW entry \in todo, Visit(entry) PROVE Fresh'
  <2>1. todo' = todo \ {entry}
    BY <1>2, VisitLemma
  <2>2. CASE applied' = applied
    BY <2>1, <2>2 DEF Fresh, Recorded
  <2>3. ASSUME NEW state \in AppliedState, RecordEntry(entry, state)
        PROVE  Fresh'
    BY <2>1, <2>3, RecordEntryLemma DEF Fresh
  <2> QED BY <1>2, <2>2, <2>3, VisitLemma
<1>3. CASE Fetch \/ Reboot
  BY <1>3 DEF Fetch, Reboot, PhaseOK, Fresh
<1>4. CASE Finish \/ UNCHANGED vars
  BY <1>4 DEF Finish, vars, Fresh, Recorded
<1> QED BY <1>1, <1>2, <1>3, <1>4 DEF Next, Run, Done

LEMMA CountedStep ==
  TypeOK /\ PhaseOK /\ Fresh /\ Counted /\ [Next]_vars => Counted'
<1> SUFFICES ASSUME TypeOK, PhaseOK, Fresh, Counted, [Next]_vars PROVE Counted'
  OBVIOUS
<1>1. ASSUME NEW entry \in todo, Visit(entry) PROVE Counted'
  <2>1. CASE applied' = applied
    BY <2>1 DEF Counted, Recorded
  <2>2. ASSUME NEW state \in AppliedState, RecordEntry(entry, state)
        PROVE  Counted'
    <3>1. Recorded' = Recorded \cup {entry} /\ Len(applied') = Len(applied) + 1
      BY <2>2, RecordEntryLemma
    <3>2. entry \notin Recorded
      BY DEF Fresh
    <3> QED BY <3>1, <3>2, FS_AddElement DEF Counted
  <2> QED BY <1>1, <2>1, <2>2, VisitLemma
<1>2. CASE Reboot
  <2>1. Recorded' = {} /\ Len(applied') = 0
    BY <1>2 DEF Reboot, Recorded
  <2> QED BY <2>1, FS_EmptySet DEF Counted
<1>3. CASE Fetch \/ StartPass \/ Finish \/ UNCHANGED vars
  BY <1>3 DEF Fetch, StartPass, Finish, vars, Counted, Recorded
<1> QED BY <1>1, <1>2, <1>3 DEF Next, Run, Done

LEMMA IInvStep == IInv /\ [Next]_vars => IInv'
  BY TypeStep, PhaseStep, LinkedStep, FreshStep, CountedStep DEF IInv

(* The type invariant, with what it needs to be inductive. *)
THEOREM IInvHolds == Spec => []IInv
<1>1. Init => IInv
  BY InitIInv
<1>2. IInv /\ [Next]_vars => IInv'
  BY IInvStep
<1> QED BY <1>1, <1>2, PTL DEF Spec

(* The state of the provider keeps its type. *)
THEOREM TypeCorrect == Spec => []TypeOK
<1>1. IInv => TypeOK
  BY DEF IInv
<1> QED BY <1>1, IInvHolds, PTL

-----------------------------------------------------------------------------
(* Counting: as many records as entries means that all are recorded. *)
LEMMA RecordedInDomain ==
  ASSUME TypeOK
  PROVE  /\ \A k \in DOMAIN applied : applied[k].entry \in DOMAIN manifest
         /\ Recorded \subseteq DOMAIN manifest
<1>1. applied \in Seq(Record)
  BY DEF TypeOK, Record
<1>2. \A k \in DOMAIN applied : applied[k] \in Record
  BY <1>1
<1> QED BY <1>2 DEF Recorded, Record

LEMMA DomainCount ==
  ASSUME TypeOK
  PROVE  /\ IsFiniteSet(DOMAIN manifest)
         /\ Cardinality(DOMAIN manifest) = Len(manifest)
         /\ Len(manifest) \in Nat
<1>1. DOMAIN manifest = 1 .. Len(manifest) /\ Len(manifest) \in Nat
  BY ManifestIsSeq
<1>2. \A n \in Nat : IsFiniteSet(1 .. n) /\ Cardinality(1 .. n) = n
  <2> SUFFICES ASSUME NEW n \in Nat
               PROVE  IsFiniteSet(1 .. n) /\ Cardinality(1 .. n) = n
    OBVIOUS
  <2>1. /\ IsFiniteSet(1 .. n)
        /\ Cardinality(1 .. n) = IF 1 > n THEN 0 ELSE n - 1 + 1
    BY FS_Interval
  <2> QED BY <2>1
<1> QED BY <1>1, <1>2

LEMMA FullCount ==
  ASSUME TypeOK, Counted, Len(applied) >= Len(manifest)
  PROVE  Recorded = DOMAIN manifest
<1>1. /\ Cardinality(Recorded) <= Cardinality(DOMAIN manifest)
      /\ Cardinality(DOMAIN manifest) = Cardinality(Recorded) => DOMAIN manifest = Recorded
  BY RecordedInDomain, DomainCount, FS_Subset
<1>2. Len(applied) \in Nat
  BY DEF TypeOK
<1> QED BY <1>1, <1>2, DomainCount DEF Counted

LEMMA EndsCompleteStep ==
  IInv /\ EndsComplete /\ [Next]_vars => EndsComplete'
<1> SUFFICES ASSUME IInv, EndsComplete, [Next]_vars PROVE EndsComplete'
  OBVIOUS
<1>1. CASE Finish
  <2>1. Recorded = DOMAIN manifest
    BY <1>1, FullCount DEF Finish, IInv
  <2> QED BY <1>1, <2>1 DEF Finish, EndsComplete, Recorded
<1>2. ASSUME NEW entry \in todo, Visit(entry) PROVE EndsComplete'
  BY <1>2, VisitLemma DEF EndsComplete, IInv
<1>3. CASE Fetch \/ StartPass \/ Reboot
  BY <1>3 DEF Fetch, StartPass, Reboot, EndsComplete
<1>4. CASE UNCHANGED vars
  BY <1>4 DEF vars, EndsComplete, Recorded
<1> QED BY <1>1, <1>2, <1>3, <1>4 DEF Next, Run, Done

(* A run that ends has recorded every entry of its manifest, for every     *)
(* manifest: the stop test of the outer loop never fires early.            *)
THEOREM EndsCompleteHolds == Spec => []EndsComplete
<1>1. Init => IInv /\ EndsComplete
  BY InitIInv DEF Init, EndsComplete
<1>2. IInv /\ EndsComplete /\ [Next]_vars => IInv' /\ EndsComplete'
  BY IInvStep, EndsCompleteStep
<1> QED BY <1>1, <1>2, PTL DEF Spec

LEMMA RecordedOnceStep ==
  IInv /\ RecordedOnce /\ [Next]_vars => RecordedOnce'
<1> SUFFICES ASSUME IInv, RecordedOnce, [Next]_vars PROVE RecordedOnce'
  OBVIOUS
<1>1. ASSUME NEW entry \in todo, Visit(entry) PROVE RecordedOnce'
  <2>1. CASE applied' = applied
    BY <2>1 DEF RecordedOnce
  <2>2. ASSUME NEW state \in AppliedState, RecordEntry(entry, state)
        PROVE  RecordedOnce'
    <3>1. \A k \in DOMAIN applied : applied[k].entry # entry
      BY DEF IInv, Fresh, Recorded
    <3> QED BY <2>2, <3>1, RecordEntryLemma DEF IInv, RecordedOnce
  <2> QED BY <1>1, <2>1, <2>2, VisitLemma DEF IInv
<1>2. CASE Reboot
  BY <1>2 DEF Reboot, RecordedOnce
<1>3. CASE Fetch \/ StartPass \/ Finish \/ UNCHANGED vars
  BY <1>3 DEF Fetch, StartPass, Finish, vars, RecordedOnce
<1> QED BY <1>1, <1>2, <1>3 DEF Next, Run, Done

(* No entry is recorded twice in a run, for every manifest, the ones with  *)
(* two entries for one component included.                                 *)
THEOREM RecordedOnceHolds == Spec => []RecordedOnce
<1>1. Init => IInv /\ RecordedOnce
  BY InitIInv DEF Init, RecordedOnce
<1>2. IInv /\ RecordedOnce /\ [Next]_vars => IInv' /\ RecordedOnce'
  BY IInvStep, RecordedOnceStep
<1> QED BY <1>1, <1>2, PTL DEF Spec

(* Of every manifest, in every boot: at most one record for each component,   *)
(* and a record for each of them when the pass loop has ended.                *)
THEOREM RecordsAreCompleteHolds == Spec => []RecordsAreComplete
<1>1. RecordedOnce /\ EndsComplete => RecordsAreComplete
  BY DEF RecordsAreComplete
<1> QED BY <1>1, RecordedOnceHolds, EndsCompleteHolds, PTL

LEMMA DependencyOrderStep ==
  IInv /\ DependencyOrder /\ [Next]_vars => DependencyOrder'
<1> SUFFICES ASSUME IInv, DependencyOrder, [Next]_vars PROVE DependencyOrder'
  OBVIOUS
<1>1. ASSUME NEW entry \in todo, Visit(entry) PROVE DependencyOrder'
  <2>0. manifest' = manifest
    BY <1>1, VisitLemma DEF IInv
  <2>1. CASE applied' = applied
    BY <2>0, <2>1 DEF DependencyOrder
  <2>2. ASSUME NEW state \in AppliedState, RecordEntry(entry, state),
               DependenciesApplied(entry)
        PROVE  DependencyOrder'
    <3> SUFFICES ASSUME NEW k \in DOMAIN applied',
                        NEW component \in manifest[applied'[k].entry].dependsOn
                 PROVE  \E j \in 1 .. k - 1 : applied'[j].component = component
      BY <2>0 DEF DependencyOrder
    <3>0. DOMAIN applied = 1 .. Len(applied) /\ Len(applied) \in Nat
      BY <2>2, RecordEntryLemma DEF IInv
    <3>1. CASE k \in DOMAIN applied
      <4>1. PICK j \in 1 .. k - 1 : applied[j].component = component
        BY <2>2, <3>1, RecordEntryLemma DEF IInv, DependencyOrder
      <4>2. j \in DOMAIN applied
        BY <3>0, <3>1
      <4> QED BY <2>2, <4>1, <4>2, RecordEntryLemma DEF IInv
    <3>2. CASE k = Len(applied) + 1
      <4>1. applied'[k].entry = entry
        BY <2>2, <3>2, RecordEntryLemma DEF IInv
      <4>2. PICK j \in DOMAIN applied : applied[j].component = component
        BY <2>2, <4>1 DEF DependenciesApplied, IsApplied
      <4>3. j \in 1 .. k - 1
        BY <3>0, <3>2
      <4> QED BY <2>2, <4>2, <4>3, RecordEntryLemma DEF IInv
    <3> QED BY <2>2, <3>0, <3>1, <3>2, RecordEntryLemma DEF IInv
  <2> QED BY <1>1, <2>1, <2>2, VisitLemma DEF IInv
<1>2. CASE Fetch \/ Reboot
  BY <1>2 DEF Fetch, Reboot, DependencyOrder, IInv, PhaseOK
<1>3. CASE StartPass \/ Finish \/ UNCHANGED vars
  BY <1>3 DEF StartPass, Finish, vars, DependencyOrder
<1> QED BY <1>1, <1>2, <1>3 DEF Next, Run, Done

(* Every record comes after the records of its dependencies. *)
THEOREM DependencyOrderHolds == Spec => []DependencyOrder
<1>1. Init => IInv /\ DependencyOrder
  BY InitIInv DEF Init, DependencyOrder
<1>2. IInv /\ DependencyOrder /\ [Next]_vars => IInv' /\ DependencyOrder'
  BY IInvStep, DependencyOrderStep
<1> QED BY <1>1, <1>2, PTL DEF Spec

-----------------------------------------------------------------------------
(* A record of success stands for a component the host has, or for one of  *)
(* the two types that never fail: nothing is ever taken off the host, and  *)
(* the reboot that would make a record doubtful loses it.                  *)
Effective ==
  \A k \in DOMAIN applied :
    applied[k].state = "Success" =>
      applied[k].component \in inPlace \cup Unimplemented \cup Quiet

LEMMA EffectiveStep == IInv /\ Effective /\ [Next]_vars => Effective'
<1> SUFFICES ASSUME IInv, Effective, [Next]_vars PROVE Effective'
  OBVIOUS
<1>0. TypeOK
  BY DEF IInv
<1>1. ASSUME NEW entry \in todo, NEW state \in AppliedState,
             RecordEntry(entry, state), inPlace \subseteq inPlace',
             state = "Success" =>
               manifest[entry].component \in inPlace' \cup Unimplemented \cup Quiet
      PROVE  Effective'
  <2> SUFFICES ASSUME NEW k \in DOMAIN applied', applied'[k].state = "Success"
               PROVE  applied'[k].component \in inPlace' \cup Unimplemented \cup Quiet
    BY DEF Effective
  <2>1. CASE k \in DOMAIN applied
    BY <1>0, <1>1, <2>1, RecordEntryLemma DEF Effective
  <2>2. CASE k = Len(applied) + 1
    BY <1>0, <1>1, <2>2, RecordEntryLemma
  <2> QED BY <1>0, <1>1, <2>1, <2>2, RecordEntryLemma
<1>2. ASSUME NEW entry \in todo, Visit(entry) PROVE Effective'
  <2>1. CASE Postpone(entry)
    BY <2>1 DEF Postpone, Effective
  <2>2. CASE Skip(entry)
    BY <1>1, <2>2 DEF Skip, AppliedState
  <2>3. CASE Invoke(entry)
    BY <1>1, <2>3 DEF Invoke, AppliedState
  <2>4. CASE Fail(entry)
    BY <1>1, <2>4 DEF Fail, AppliedState
  <2> QED BY <1>2, <2>1, <2>2, <2>3, <2>4 DEF Visit
<1>3. CASE Fetch \/ StartPass \/ Finish \/ UNCHANGED vars
  BY <1>3 DEF Fetch, StartPass, Finish, vars, Effective
<1>4. CASE Reboot
  BY <1>4 DEF Reboot, Effective
<1> QED BY <1>2, <1>3, <1>4 DEF Next, Run, Done

LEMMA GapsFollow ==
  ASSUME IInv, DependencyOrder, Effective PROVE GapsAreExplained
<1> SUFFICES ASSUME NEW k \in DOMAIN applied,
                    NEW component \in manifest[applied[k].entry].dependsOn \ inPlace,
                    component \notin Unimplemented \cup Quiet
             PROVE  \E j \in 1 .. k - 1 : /\ applied[j].component = component
                                          /\ applied[j].state = "Failure"
  BY DEF GapsAreExplained
<1>1. PICK j \in 1 .. k - 1 : applied[j].component = component
  BY DEF DependencyOrder
<1>2. applied \in Seq(Record)
  BY DEF IInv, TypeOK, Record
<1>3. j \in DOMAIN applied
  BY <1>2
<1>4. applied[j].state \in AppliedState
  <2>1. applied[j] \in Record
    BY <1>2, <1>3
  <2> QED BY <2>1 DEF Record
<1>5. applied[j].state # "Success"
  BY <1>1, <1>3 DEF Effective
<1> QED BY <1>1, <1>4, <1>5 DEF AppliedState

(* Whatever fails and whenever the instance reboots, a dependent is        *)
(* recorded on a host without its dependency only after that dependency    *)
(* failed in the same run, or when its type reports no failure.            *)
THEOREM GapsAreExplainedHolds == Spec => []GapsAreExplained
<1>1. Init => Effective
  BY DEF Init, Effective
<1>2. Spec => []Effective
  BY <1>1, EffectiveStep, IInvHolds, PTL DEF Spec
<1>3. IInv /\ DependencyOrder /\ Effective => GapsAreExplained
  BY GapsFollow
<1> QED BY <1>2, <1>3, IInvHolds, DependencyOrderHolds, PTL

-----------------------------------------------------------------------------
(* The bound on passes.  During pass p every entry of rank below p is      *)
(* recorded already, and an entry of rank p is recorded or still to visit. *)
RankProgress(rank) ==
  \A i \in DOMAIN manifest \ Recorded :
    passes <= rank[i] /\ (i \in todo \/ passes < rank[i])

PassProgress ==
  UniqueComponents(manifest) =>
    \A rank \in Ranks(manifest) : Ranking(manifest, rank) => RankProgress(rank)

LEMMA RankType ==
  ASSUME TypeOK, NEW rank \in Ranks(manifest), NEW i \in DOMAIN manifest
  PROVE  rank[i] \in 1 .. Len(manifest) /\ rank[i] \in Nat /\ passes \in Nat
<1>1. rank[i] \in 1 .. Len(manifest)
  BY DEF Ranks
<1> QED BY <1>1, ManifestIsSeq DEF TypeOK

(* In a manifest without two entries for a component, a component is       *)
(* applied exactly when its entry is recorded.                             *)
LEMMA AppliedIsRecorded ==
  ASSUME TypeOK, Linked, UniqueComponents(manifest),
         NEW i \in DOMAIN manifest
  PROVE  IsApplied(manifest[i].component) <=> i \in Recorded
<1>1. \A k \in DOMAIN applied : applied[k].entry \in DOMAIN manifest
  BY RecordedInDomain
<1>2. ASSUME IsApplied(manifest[i].component) PROVE i \in Recorded
  <2>1. PICK k \in DOMAIN applied : applied[k].component = manifest[i].component
    BY <1>2 DEF IsApplied
  <2>2. manifest[applied[k].entry].component = manifest[i].component
    BY <2>1 DEF Linked
  <2>3. applied[k].entry = i
    BY <1>1, <2>2 DEF UniqueComponents
  <2> QED BY <2>3 DEF Recorded
<1>3. ASSUME i \in Recorded PROVE IsApplied(manifest[i].component)
  BY <1>3 DEF Recorded, Linked, IsApplied
<1> QED BY <1>2, <1>3

LEMMA PassProgressStep ==
  IInv /\ PassProgress /\ [Next]_vars => PassProgress'
<1> SUFFICES ASSUME IInv, PassProgress, [Next]_vars PROVE PassProgress'
  OBVIOUS
<1>0. TypeOK /\ Linked /\ PhaseOK
  BY DEF IInv
<1>1. CASE Fetch
  <2>1. passes' = 0
    BY <1>0, <1>1 DEF Fetch, PhaseOK
  <2>2. Len(manifest') \in Nat
    BY <1>1, ManifestsAssumption DEF Fetch
  <2> SUFFICES ASSUME NEW rank \in Ranks(manifest'), NEW i \in DOMAIN manifest'
               PROVE  passes' <= rank[i] /\ passes' < rank[i]
    BY DEF PassProgress, RankProgress
  <2>3. rank[i] \in 1 .. Len(manifest')
    BY DEF Ranks
  <2> QED BY <2>1, <2>2, <2>3
<1>2. CASE StartPass
  <2>1. UNCHANGED <<manifest, applied>> /\ Recorded' = Recorded
    BY <1>2 DEF StartPass, Recorded
  <2> SUFFICES ASSUME UniqueComponents(manifest), NEW rank \in Ranks(manifest),
                      Ranking(manifest, rank), NEW i \in DOMAIN manifest \ Recorded
               PROVE  passes' <= rank[i] /\ i \in todo'
    BY <2>1 DEF PassProgress, RankProgress
  <2>2. passes < rank[i]
    BY <1>2 DEF PassProgress, RankProgress, StartPass
  <2>3. passes' \in {passes, passes + 1}
    BY <1>2 DEF StartPass
  <2>4. i \in todo'
    BY <1>0, <1>2, AppliedIsRecorded DEF StartPass
  <2> QED BY <1>0, <2>2, <2>3, <2>4, RankType
<1>3. ASSUME NEW entry \in todo, Visit(entry) PROVE PassProgress'
  <2>1. UNCHANGED <<manifest, passes>> /\ todo' = todo \ {entry}
    BY <1>0, <1>3, VisitLemma
  <2> SUFFICES ASSUME UniqueComponents(manifest), NEW rank \in Ranks(manifest),
                      Ranking(manifest, rank), NEW i \in DOMAIN manifest \ Recorded'
               PROVE  passes <= rank[i] /\ (i \in todo' \/ passes < rank[i])
    BY <2>1 DEF PassProgress, RankProgress
  <2>2. RankProgress(rank)
    BY DEF PassProgress
  <2>3. CASE ~DependenciesApplied(entry) /\ applied' = applied
    <3>1. i \in DOMAIN manifest \ Recorded
      BY <2>3 DEF Recorded
    <3>2. CASE i # entry
      BY <2>1, <2>2, <3>1, <3>2 DEF RankProgress
    <3>3. CASE i = entry
      <4>1. PICK component \in manifest[i].dependsOn : ~IsApplied(component)
        BY <2>3, <3>3 DEF DependenciesApplied
      <4>2. PICK j \in DOMAIN manifest :
              manifest[j].component = component /\ rank[j] < rank[i]
        BY <3>1, <4>1 DEF Ranking
      <4>3. j \notin Recorded
        BY <1>0, <4>1, <4>2, AppliedIsRecorded
      <4>4. passes <= rank[j]
        BY <2>2, <4>3 DEF RankProgress
      <4>5. /\ rank[i] \in Nat /\ rank[j] \in Nat /\ passes \in Nat
        BY <1>0, <3>1, RankType
      <4> QED BY <4>2, <4>4, <4>5
    <3> QED BY <3>2, <3>3
  <2>4. ASSUME NEW state \in AppliedState, RecordEntry(entry, state)
        PROVE  passes <= rank[i] /\ (i \in todo' \/ passes < rank[i])
    <3>1. i # entry /\ i \in DOMAIN manifest \ Recorded
      BY <1>0, <2>4, RecordEntryLemma
    <3> QED BY <2>1, <2>2, <3>1 DEF RankProgress
  <2> QED BY <1>0, <1>3, <2>3, <2>4, VisitLemma
<1>4. CASE Reboot
  BY <1>4 DEF Reboot, PassProgress, RankProgress
<1>5. CASE Finish \/ UNCHANGED vars
  BY <1>5 DEF Finish, vars, PassProgress, RankProgress, Recorded
<1> QED BY <1>1, <1>2, <1>3, <1>4, <1>5 DEF Next, Run, Done

(* A pass begins only while an entry has no record; its rank is above the  *)
(* number of passes so far and at most the number of entries.              *)
LEMMA PassesAreFewStep ==
  IInv /\ PassProgress /\ PassesAreFew /\ [Next]_vars => PassesAreFew'
<1> SUFFICES ASSUME IInv, PassProgress, PassesAreFew, [Next]_vars,
                    WellFormed(manifest')
             PROVE  passes' <= Len(manifest')
  BY DEF PassesAreFew
<1>0. TypeOK /\ Counted /\ PhaseOK
  BY DEF IInv
<1>1. CASE Fetch
  <2>1. passes' = 0 /\ Len(manifest') \in Nat
    BY <1>0, <1>1, ManifestsAssumption DEF Fetch, PhaseOK
  <2> QED BY <2>1
<1>2. CASE StartPass
  <2>1. manifest' = manifest /\ todo = {}
    BY <1>2 DEF StartPass
  <2>2. PICK rank \in Ranks(manifest) : Ranking(manifest, rank)
    BY <2>1 DEF WellFormed
  <2>3. RankProgress(rank)
    BY <2>1, <2>2 DEF PassProgress, WellFormed
  <2>4. Recorded # DOMAIN manifest
    <3>1. Cardinality(Recorded) = Len(applied) /\ Len(applied) < Len(manifest)
      BY <1>0, <1>2 DEF Counted, StartPass
    <3>2. Cardinality(DOMAIN manifest) = Len(manifest) /\ Len(manifest) \in Nat
      BY <1>0, DomainCount
    <3> QED BY <3>1, <3>2
  <2>5. PICK i \in DOMAIN manifest : i \notin Recorded
    <3>1. Recorded \subseteq DOMAIN manifest
      BY <1>0, RecordedInDomain
    <3> QED BY <2>4, <3>1
  <2>6. passes < rank[i]
    BY <2>1, <2>3, <2>5 DEF RankProgress
  <2>7. passes' \in {passes, passes + 1}
    BY <1>2 DEF StartPass
  <2>8. rank[i] \in 1 .. Len(manifest) /\ passes \in Nat /\ Len(manifest) \in Nat
    BY <1>0, RankType, ManifestIsSeq
  <2> QED BY <2>1, <2>6, <2>7, <2>8
<1>3. ASSUME NEW entry \in todo, Visit(entry) PROVE passes' <= Len(manifest')
  <2>1. UNCHANGED <<manifest, passes>>
    BY <1>0, <1>3, VisitLemma
  <2> QED BY <2>1 DEF PassesAreFew
<1>4. CASE Reboot
  BY <1>4 DEF Reboot
<1>5. CASE Finish \/ UNCHANGED vars
  BY <1>5 DEF Finish, vars, PassesAreFew
<1> QED BY <1>1, <1>2, <1>3, <1>4, <1>5 DEF Next, Run, Done

(* A well-formed manifest is applied in at most as many passes as it has   *)
(* entries, in whatever order they are listed and whichever of them fail.  *)
THEOREM PassesAreFewHolds == Spec => []PassesAreFew
<1>1. Init => IInv /\ PassProgress /\ PassesAreFew
  <2>1. Init => PassProgress /\ PassesAreFew
    BY DEF Init, PassProgress, RankProgress, PassesAreFew
  <2> QED BY <2>1, InitIInv
<1>2. IInv /\ PassProgress /\ PassesAreFew /\ [Next]_vars
        => IInv' /\ PassProgress' /\ PassesAreFew'
  BY IInvStep, PassProgressStep, PassesAreFewStep
<1> QED BY <1>1, <1>2, PTL DEF Spec

-----------------------------------------------------------------------------
(* Refinement: a step of the provider is a step of DesiredState or leaves  *)
(* its variables alone.                                                    *)
LEMMA RefinementStep == IInv /\ [Next]_vars => [DS!Next]_(DS!vars)
<1> SUFFICES ASSUME IInv, [Next]_vars PROVE [DS!Next]_(DS!vars)
  OBVIOUS
<1>0. TypeOK /\ PhaseOK /\ Linked /\ Fresh /\ Counted
  BY DEF IInv
<1>1. CASE Fetch
  <2>1. Recorded' = {}
    BY <1>0, <1>1 DEF Fetch, PhaseOK, Recorded
  <2>2. DS!Begin
    BY <1>1, <2>1 DEF Fetch, DS!Begin
  <2> QED BY <2>2 DEF DS!Next
<1>2. CASE StartPass
  BY <1>2 DEF StartPass, DS!vars, Recorded
<1>3. CASE Finish
  <2>1. Recorded = DOMAIN manifest /\ Recorded' = Recorded
    BY <1>0, <1>3, FullCount DEF Finish, Recorded
  <2>2. DS!Finish
    BY <1>3, <2>1 DEF Finish, DS!Finish
  <2> QED BY <2>2 DEF DS!Next
<1>4. ASSUME NEW entry \in todo, Visit(entry) PROVE [DS!Next]_(DS!vars)
  <2>1. UNCHANGED <<manifest, pc>> /\ pc = "apply"
    BY <1>0, <1>4, VisitLemma
  <2>2. CASE applied' = applied
    BY <2>1, <2>2 DEF DS!vars, Recorded
  <2>3. ASSUME NEW state \in AppliedState, RecordEntry(entry, state),
               DependenciesApplied(entry)
        PROVE  DS!Next
    <3>1. entry \in DOMAIN manifest /\ entry \notin Recorded
      BY <1>0 DEF TypeOK, Fresh
    <3>2. Recorded' = Recorded \cup {entry}
      BY <1>0, <2>3, RecordEntryLemma
    <3>3. \A component \in manifest[entry].dependsOn : DS!Satisfied(component)
      BY <1>0, <2>3 DEF DependenciesApplied, IsApplied, Linked, Recorded, DS!Satisfied
    <3>4. DS!Record(entry)
      BY <2>1, <3>1, <3>2, <3>3 DEF DS!Record
    <3> QED BY <3>1, <3>4 DEF DS!Next
  <2> QED BY <1>0, <1>4, <2>2, <2>3, VisitLemma
<1>5. CASE Reboot
  <2>1. Recorded' = {}
    BY <1>5 DEF Reboot, Recorded
  <2>2. DS!Forget
    BY <1>5, <2>1 DEF Reboot, DS!Forget
  <2> QED BY <2>2 DEF DS!Next
<1>6. CASE UNCHANGED vars
  BY <1>6 DEF vars, DS!vars, Recorded
<1> QED BY <1>1, <1>2, <1>3, <1>4, <1>5, <1>6 DEF Next, Run, Done

(* The provider, snapshot passes, length test and all, does what           *)
(* DesiredState promises of a run.                                         *)
THEOREM Refinement == Spec => ImplementsDesiredState
<1>1. Init => DS!Init
  BY DEF Init, DS!Init, Recorded
<1> QED BY <1>1, RefinementStep, IInvHolds, PTL DEF Spec, DS!Spec, ImplementsDesiredState
=============================================================================
