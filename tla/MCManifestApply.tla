--------------------------- MODULE MCManifestApply --------------------------
(* Instances of ManifestApply for TLC. *)
EXTENDS ManifestApply

CONSTANTS a, b, c

E(component, dependsOn) == [component |-> component, dependsOn |-> dependsOn]

(* Every document over two components with up to two entries. *)
AllEntries == [component : {a, b}, dependsOn : SUBSET {a, b}]
SmallManifests == UNION {[1 .. n -> AllEntries] : n \in 1 .. 2}

(* A chain listed backwards, a diamond, a duplicate, a cycle, and a        *)
(* dependency that no entry provides.                                      *)
Backwards == << E(c, {b}), E(b, {a}), E(a, {}) >>
Fork      == << E(a, {}), E(c, {a, b}), E(b, {a}) >>
Repeated  == << E(a, {}), E(b, {}), E(a, {}) >>
Late      == << E(a, {b}), E(a, {}), E(b, {}) >>
Cycle     == << E(a, {}), E(b, {c}), E(c, {b}) >>
Dangling  == << E(b, {a}), E(c, {b}) >>

MixedManifests == SmallManifests
                  \cup {Backwards, Fork, Repeated, Late, Cycle, Dangling}

=============================================================================
