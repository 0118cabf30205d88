------------------------- MODULE SearchBuilderProofs -------------------------
(* The search builder keeps its tree sound, its page true to the tree and its *)
(* rows those that are meant, for every number of columns, conditions, rows   *)
(* and objects and for every depth limit.                                     *)
(*                                                                            *)
(* The invariant IInv says of the tree (TreeInv) that each node has one place *)
(* (Single, Apart), is as deep as it is nested (Nested), is at the index it   *)
(* is removed by (Placed), that what left the tree is as good as new and what *)
(* is in it is not empty (Kept), that no criterion is below the limit         *)
(* (Limited) and that the arrows are there (Arrows); and of the page (PageOf) *)
(* what is saved, counted and offered.  A handler may leave a tree that is    *)
(* Ready only: the redraw after it restores TreeInv.                          *)
(*                                                                            *)
(* Recursion over the tree is recursion over a rank, the depth of the nodes:  *)
(* the recursive functions of the module exist, and agree on trees of the     *)
(* same shape, because depths decrease downwards (Layered).                   *)
(*                                                                            *)
(* The second invariant, KInv, adds that a criterion is taken for complete    *)
(* when it is (Known) and that the rows on view are those that pass (Shows).  *)
(* It needs conditions that check their inputs (EveryInputIsChecked).         *)
EXTENDS SearchBuilder, FiniteSetTheorems, WellFoundedInduction, TLAPS

(* ----------------------- induction, and recursion ------------------------ *)

LEMMA Least ==
  ASSUME NEW S \in SUBSET Nat, S # {}
  PROVE  \E n \in S : \A m \in S : n <= m
<1>1. IsWellFoundedOn(OpToRel(<, Nat), Nat)
  BY NatLessThanWellFounded
<1>2. PICK x \in S : \A y \in S : <<y, x>> \notin OpToRel(<, Nat)
  BY <1>1, WFMin
<1>3. \A y \in Nat : <<y, x>> \in OpToRel(<, Nat) <=> y < x
  BY DEF OpToRel
<1>4. \A y \in S : ~(y < x)
  BY <1>2, <1>3
<1> QED BY <1>4

LEMMA Induction ==
  ASSUME NEW S, 0 \in S, \A n \in Nat : n \in S => n + 1 \in S
  PROVE  Nat \subseteq S
<1> SUFFICES ASSUME Nat \ S # {} PROVE FALSE
  OBVIOUS
<1>1. PICK n \in Nat \ S : \A m \in Nat \ S : n <= m
  BY Least
<1>2. n # 0 /\ n - 1 \in Nat
  BY <1>1
<1>3. n - 1 \in S
  BY <1>1, <1>2
<1>4. n \in S
  BY <1>2, <1>3
<1> QED BY <1>1, <1>4

LEMMA MaxIsLargest ==
  ASSUME NEW n \in Nat, NEW X \in SUBSET (1..n), X # {}
  PROVE  Max(X) \in X /\ \A m \in X : Max(X) >= m
<1> DEFINE away == {n - m : m \in X}
<1>1. away \in SUBSET Nat /\ away # {}
  <2>1. \A m \in X : n - m \in Nat /\ n - m \in away
    OBVIOUS
  <2>2. PICK m \in X : TRUE
    OBVIOUS
  <2> QED BY <2>1, <2>2
<1>2. PICK a \in away : \A b \in away : a <= b
  BY <1>1, Least
<1>3. PICK x \in X : a = n - x
  BY <1>2
<1>4. \A m \in X : x >= m
  <2> TAKE m \in X
  <2>1. n - m \in away
    OBVIOUS
  <2>2. n - x <= n - m
    BY <1>2, <1>3, <2>1
  <2> QED BY <2>2
<1>5. \E y \in X : \A m \in X : y >= m
  BY <1>3, <1>4
<1> QED BY <1>5, Zenon DEF Max

\* What holds of a node when it holds of all that come before it holds of all.
LEMMA RankInduction ==
  ASSUME NEW N, NEW r \in [N -> Nat], NEW S,
         \A n \in N : (\A k \in N : r[k] < r[n] => k \in S) => n \in S
  PROVE  N \subseteq S
<1> SUFFICES ASSUME NEW x \in N, x \notin S PROVE FALSE
  OBVIOUS
<1> DEFINE away == {r[n] : n \in N \ S}
<1>1. away \in SUBSET Nat /\ away # {}
  OBVIOUS
<1>2. PICK a \in away : \A b \in away : a <= b
  BY <1>1, Least
<1>3. PICK n \in N \ S : a = r[n]
  BY <1>2
<1>4. \A k \in N : r[k] < r[n] => k \in S
  <2> SUFFICES ASSUME NEW k \in N, r[k] < r[n], k \notin S PROVE FALSE
    OBVIOUS
  <2>1. r[k] \in away /\ r[k] \in Nat /\ r[n] \in Nat
    OBVIOUS
  <2>2. a <= r[k]
    BY <1>2, <2>1
  <2> HIDE DEF away
  <2>3. ~(r[k] < a)
    BY <1>3, <2>1, <2>2
  <2> QED BY <1>3, <2>3
<1> QED BY <1>3, <1>4

\* A step that looks only at nodes of lower rank.
Descends(N, T, E, r) ==
  \A f, g \in [N -> T] : \A n \in N :
    (\A k \in N : r[k] < r[n] => f[k] = g[k]) => E[<<f, n>>] = E[<<g, n>>]

IsStep(N, T, E, M, r) ==
  T # {} /\ E \in [[N -> T] \X N -> T] /\ M \in Nat /\ r \in [N -> 0..M] /\ Descends(N, T, E, r)

IsDefinedBy(f, N, T, E) == f \in [N -> T] /\ \A n \in N : f[n] = E[<<f, n>>]

\* A function that is defined by such a step exists, for ranks with a bound.
LEMMA RecursionExists ==
  ASSUME NEW N, NEW T, NEW E, NEW M, NEW r, IsStep(N, T, E, M, r)
  PROVE  \E f : IsDefinedBy(f, N, T, E)
<1>0. T # {} /\ E \in [[N -> T] \X N -> T] /\ M \in Nat /\ r \in [N -> 0..M] /\ Descends(N, T, E, r)
  BY DEF IsStep
<1> DEFINE Below(f, m) == f \in [N -> T] /\ \A n \in N : r[n] < m => f[n] = E[<<f, n>>]
           Exists(m) == \E f : Below(f, m)
           S == {m \in Nat : Exists(m)}
<1>1. 0 \in S
  <2>1. PICK x \in T : TRUE
    BY <1>0
  <2>2. Below([n \in N |-> x], 0)
    BY <1>0, <2>1
  <2> HIDE DEF Below
  <2> QED BY <2>2
<1>2. ASSUME NEW m \in Nat, m \in S PROVE m + 1 \in S
  <2>1. PICK f : Below(f, m)
    BY <1>2
  <2> DEFINE g == [n \in N |-> E[<<f, n>>]]
  <2>2. g \in [N -> T] /\ \A n \in N : g[n] = E[<<f, n>>]
    BY <1>0, <2>1
  <2> HIDE DEF g
  <2>3. ASSUME NEW n \in N, r[n] < m + 1 PROVE g[n] = E[<<g, n>>]
    <3>1. \A k \in N : r[k] < r[n] => f[k] = g[k]
      <4> SUFFICES ASSUME NEW k \in N, r[k] < r[n] PROVE f[k] = g[k]
        OBVIOUS
      <4>1. r[k] \in Nat /\ r[n] \in Nat
        BY <1>0
      <4>2. r[k] < m
        BY <2>3, <4>1
      <4> QED BY <2>1, <2>2, <4>2
    <3>2. E[<<f, n>>] = E[<<g, n>>]
      BY <1>0, <2>1, <2>2, <3>1, Zenon DEF Descends
    <3> QED BY <2>2, <3>2
  <2>4. Below(g, m + 1)
    BY <2>2, <2>3
  <2> HIDE DEF Below
  <2> QED BY <2>4
<1>3. M + 1 \in S
  <2> HIDE DEF S
  <2>1. Nat \subseteq S
    BY <1>1, <1>2, Induction
  <2> QED BY <1>0, <2>1
<1>4. PICK f : Below(f, M + 1)
  BY <1>3
<1>5. \A n \in N : r[n] < M + 1
  BY <1>0
<1> QED BY <1>4, <1>5 DEF IsDefinedBy

\* A finite set of nodes has a greatest rank.
LEMMA Bounded ==
  ASSUME NEW N, IsFiniteSet(N), NEW r \in [N -> Nat]
  PROVE  \E M \in Nat : \A n \in N : r[n] <= M
<1>1. PICK n \in Nat : ExistsBijection(1..n, N)
  BY FS_NatBijection
<1>2. PICK b \in Surjection(1..n, N) : TRUE
  BY <1>1 DEF ExistsBijection, Bijection
<1>3. b \in [1..n -> N] /\ \A x \in N : \E i \in 1..n : b[i] = x
  BY <1>2 DEF Surjection
<1> DEFINE To(m, M) == \A i \in 1..n : i <= m => r[b[i]] <= M
           Exists(m) == \E M \in Nat : To(m, M)
           S == {m \in Nat : Exists(m)}
<1>4. 0 \in S
  <2>1. To(0, 0)
    OBVIOUS
  <2> HIDE DEF To
  <2> QED BY <2>1
<1>5. ASSUME NEW m \in Nat, m \in S PROVE m + 1 \in S
  <2>1. PICK M \in Nat : To(m, M)
    BY <1>5
  <2>2. CASE m + 1 \in 1..n
    <3>1. r[b[m + 1]] \in Nat
      BY <1>3, <2>2
    <3> DEFINE L == IF M <= r[b[m + 1]] THEN r[b[m + 1]] ELSE M
    <3>2. L \in Nat /\ M <= L /\ r[b[m + 1]] <= L
      BY <3>1
    <3> HIDE DEF L
    <3>3. To(m + 1, L)
      <4> SUFFICES ASSUME NEW i \in 1..n, i <= m + 1 PROVE r[b[i]] <= L
        OBVIOUS
      <4>1. CASE i = m + 1
        BY <3>2, <4>1
      <4>2. CASE i <= m
        <5>1. r[b[i]] \in Nat /\ r[b[i]] <= M
          BY <1>3, <2>1, <4>2
        <5> QED BY <3>2, <5>1
      <4> QED BY <4>1, <4>2
    <3> HIDE DEF To
    <3> QED BY <3>2, <3>3
  <2>3. CASE m + 1 \notin 1..n
    <3>1. To(m + 1, M)
      BY <2>1, <2>3
    <3> HIDE DEF To
    <3> QED BY <3>1
  <2> QED BY <2>2, <2>3
<1>6. n \in S
  <2> HIDE DEF S
  <2> QED BY <1>4, <1>5, Induction
<1>7. PICK M \in Nat : To(n, M)
  BY <1>6
<1>8. \A x \in N : r[x] <= M
  BY <1>3, <1>7
<1> QED BY <1>8

(* ------------------------------ the invariant ---------------------------- *)

Entry == [node : Node, index : Nat]
Logic == {"AND", "OR", None}
Tree == [kids : [Group -> Seq(Entry)], index : [Node -> Nat], depth : [Node -> Nat],
         logic : [Group -> Logic], crit : [Crit -> CritRecord]]

\* A node has one place in one group.
Single(t, g) == \A i, j \in DOMAIN t.kids[g] : t.kids[g][i].node = t.kids[g][j].node => i = j
Apart(t) == \A g, h \in Group : g # h => Kids(t, g) \cap Kids(t, h) = {}

\* A node is as deep as it is nested: the tree has no cycles.
Nested(t) == \A g \in Group : \A n \in Kids(t, g) : t.depth[n] = DepthOf(t, g) + (IF n \in Sub THEN 1 ELSE 0)

Sound(t) == t \in Tree /\ (\A g \in Group : Single(t, g)) /\ Apart(t) /\ Nested(t)

\* The indexes that criteria are removed and replaced by are their places.
Placed(t) == \A g \in Group : \A i \in DOMAIN t.kids[g] :
               t.kids[g][i].index = i - 1 /\ t.index[t.kids[g][i].node] = i - 1

\* What is not in the tree is as good as new, and what is in it is not empty.
Kept(t) ==
  /\ \A g \in Sub : t.kids[g] # <<>> <=> g \in Live(t)
  /\ \A n \in Node \ Live(t) : t.depth[n] = 1
  /\ \A g \in Sub \ Live(t) : t.logic[g] = DefaultLogic
  /\ \A c \in Crit \ Live(t) : t.crit[c] = EmptyCrit

\* The right arrow is where another group may be, and no group is elsewhere.
Limited(t) ==
  DepthLimit # 0 => /\ \A n \in Live(t) : t.depth[n] <= DepthLimit
                    /\ \A c \in Live(t) \cap Crit : t.crit[c].right => t.depth[c] < DepthLimit
Arrows(t) ==
  \A g \in Group : \A c \in Kids(t, g) \cap Crit :
    Len(t.kids[g]) > 1 /\ (DepthLimit = 0 \/ t.depth[c] < DepthLimit) => t.crit[c].right

TreeInv(t) == Sound(t) /\ Placed(t) /\ Kept(t) /\ Limited(t) /\ Arrows(t)

LEMMA Nodes ==
  /\ Node = Crit \cup Sub /\ Group = {Top} \cup Sub /\ Top \notin Node /\ Crit \cap Sub = {}
  /\ IsFiniteSet(Node) /\ None \notin Column \cup Value \cup Condition
BY Assumptions DEF Node, Group

LEMMA TreeFields ==
  ASSUME NEW t \in Tree
  PROVE  /\ t.kids \in [Group -> Seq(Entry)] /\ t.index \in [Node -> Nat] /\ t.depth \in [Node -> Nat]
         /\ t.logic \in [Group -> Logic] /\ t.crit \in [Crit -> CritRecord]
         /\ t = [kids |-> t.kids, index |-> t.index, depth |-> t.depth, logic |-> t.logic, crit |-> t.crit]
BY DEF Tree

LEMMA Entries ==
  ASSUME NEW t \in Tree, NEW g \in Group
  PROVE  /\ t.kids[g] \in Seq(Entry) /\ DOMAIN t.kids[g] = 1..Len(t.kids[g]) /\ Len(t.kids[g]) \in Nat
         /\ \A i \in DOMAIN t.kids[g] : t.kids[g][i] \in Entry /\ t.kids[g][i].node \in Node /\ t.kids[g][i].index \in Nat
         /\ Kids(t, g) \subseteq Node
<1>1. t.kids[g] \in Seq(Entry)
  BY TreeFields
<1>2. DOMAIN t.kids[g] = 1..Len(t.kids[g]) /\ Len(t.kids[g]) \in Nat
  BY <1>1
<1>3. \A i \in DOMAIN t.kids[g] : t.kids[g][i] \in Entry
  BY <1>1
<1>4. \A e \in Entry : e.node \in Node /\ e.index \in Nat
  BY DEF Entry
<1>5. Kids(t, g) \subseteq Node
  BY <1>3, <1>4 DEF Kids
<1> QED BY <1>1, <1>2, <1>3, <1>4, <1>5

(* ------------------------------- sorting --------------------------------- *)

Ahead(t, s, kept, i) ==
  {j \in kept : \/ t.index[s[j].node] < t.index[s[i].node]
                \/ t.index[s[j].node] = t.index[s[i].node] /\ j < i}

\* The places that the entries get are as many as the entries that are kept.
LEMMA Places ==
  ASSUME NEW t, NEW s, NEW n \in Nat, NEW kept \in SUBSET (1..n),
         \A i \in kept : t.index[s[i].node] \in Nat
  PROVE  /\ IsFiniteSet(kept) /\ Cardinality(kept) \in Nat
         /\ \A i \in kept : Cardinality(Ahead(t, s, kept, i)) + 1 \in 1..Cardinality(kept)
         /\ \A i, j \in kept : Cardinality(Ahead(t, s, kept, i)) = Cardinality(Ahead(t, s, kept, j)) => i = j
         /\ \A p \in 1..Cardinality(kept) : \E i \in kept : Cardinality(Ahead(t, s, kept, i)) + 1 = p
<1>1. IsFiniteSet(kept)
  <2>1. IsFiniteSet(1..n)
    BY FS_Interval
  <2> QED BY <2>1, FS_Subset
<1>2. Cardinality(kept) \in Nat
  BY <1>1, FS_CardinalityType
<1>3. \A i \in kept : IsFiniteSet(Ahead(t, s, kept, i)) /\ Cardinality(Ahead(t, s, kept, i)) \in Nat
  <2> TAKE i \in kept
  <2>1. Ahead(t, s, kept, i) \in SUBSET kept
    BY DEF Ahead
  <2>2. IsFiniteSet(Ahead(t, s, kept, i))
    BY <1>1, <2>1, FS_Subset
  <2> QED BY <2>2, FS_CardinalityType
<1>4. \A i \in kept : Cardinality(Ahead(t, s, kept, i)) + 1 \in 1..Cardinality(kept)
  <2> TAKE i \in kept
  <2>1. Ahead(t, s, kept, i) \in SUBSET kept /\ i \notin Ahead(t, s, kept, i)
    BY DEF Ahead
  <2>2. Cardinality(Ahead(t, s, kept, i)) <= Cardinality(kept) /\ Cardinality(Ahead(t, s, kept, i)) # Cardinality(kept)
    BY <1>1, <2>1, FS_Subset
  <2> QED BY <1>2, <1>3, <2>2
<1>5. \A i, j \in kept : i # j => i \in Ahead(t, s, kept, j) \/ j \in Ahead(t, s, kept, i)
  <2> SUFFICES ASSUME NEW i \in kept, NEW j \in kept, i # j PROVE i \in Ahead(t, s, kept, j) \/ j \in Ahead(t, s, kept, i)
    OBVIOUS
  <2>1. t.index[s[i].node] \in Nat /\ t.index[s[j].node] \in Nat /\ i \in Nat /\ j \in Nat
    OBVIOUS
  <2> QED BY <2>1 DEF Ahead
<1>6. \A i, j \in kept : i \in Ahead(t, s, kept, j) => Cardinality(Ahead(t, s, kept, i)) # Cardinality(Ahead(t, s, kept, j))
  <2> SUFFICES ASSUME NEW i \in kept, NEW j \in kept, i \in Ahead(t, s, kept, j)
               PROVE  Cardinality(Ahead(t, s, kept, i)) # Cardinality(Ahead(t, s, kept, j))
    OBVIOUS
  <2>1. Ahead(t, s, kept, i) \in SUBSET Ahead(t, s, kept, j)
    <3> SUFFICES ASSUME NEW k \in Ahead(t, s, kept, i) PROVE k \in Ahead(t, s, kept, j)
      OBVIOUS
    <3> DEFINE x == t.index[s[i].node]
               y == t.index[s[j].node]
               z == t.index[s[k].node]
    <3>1. k \in kept /\ x \in Nat /\ y \in Nat /\ z \in Nat /\ i \in Nat /\ j \in Nat /\ k \in Nat
      BY DEF Ahead
    <3>2. (z < x \/ (z = x /\ k < i)) /\ (x < y \/ (x = y /\ i < j))
      BY Zenon DEF Ahead
    <3> HIDE DEF x, y, z
    <3>3. z < y \/ (z = y /\ k < j)
      BY <3>1, <3>2
    <3>4. k \in kept /\ (z < y \/ (z = y /\ k < j))
      BY <3>1, <3>3
    <3> QED BY <3>4, Zenon DEF Ahead, y, z
  <2>2. i \notin Ahead(t, s, kept, i)
    <3> DEFINE x == t.index[s[i].node]
    <3>1. x \in Nat /\ i \in Nat
      OBVIOUS
    <3> HIDE DEF x
    <3>2. ~(x < x) /\ ~(i < i)
      BY <3>1
    <3> QED BY <3>2, Zenon DEF Ahead, x
  <2>3. Ahead(t, s, kept, i) # Ahead(t, s, kept, j)
    BY <2>2
  <2>4. IsFiniteSet(Ahead(t, s, kept, j))
    BY <1>3
  <2> QED BY <2>1, <2>3, <2>4, FS_Subset
<1>7. \A i, j \in kept : Cardinality(Ahead(t, s, kept, i)) = Cardinality(Ahead(t, s, kept, j)) => i = j
  BY <1>5, <1>6
<1>8. \A p \in 1..Cardinality(kept) : \E i \in kept : Cardinality(Ahead(t, s, kept, i)) + 1 = p
  <2> DEFINE place == [i \in kept |-> Cardinality(Ahead(t, s, kept, i)) + 1]
             T == 1..Cardinality(kept)
  <2>1. place \in [kept -> T]
    BY <1>4
  <2>2. \A i, j \in kept : place[i] = place[j] => i = j
    <3> SUFFICES ASSUME NEW i \in kept, NEW j \in kept, place[i] = place[j] PROVE i = j
      OBVIOUS
    <3>1. Cardinality(Ahead(t, s, kept, i)) \in Nat /\ Cardinality(Ahead(t, s, kept, j)) \in Nat
      BY <1>3
    <3>2. Cardinality(Ahead(t, s, kept, i)) = Cardinality(Ahead(t, s, kept, j))
      BY <3>1
    <3> QED BY <1>7, <3>2
  <2>3. IsFiniteSet(T) /\ Cardinality(T) = Cardinality(kept)
    BY <1>2, FS_Interval
  <2> HIDE DEF place, T
  <2>4. place \in Injection(kept, T)
    BY <2>1, <2>2 DEF Injection, IsInjective
  <2>5. place \in Surjection(kept, T)
    BY <2>3, <2>4, FS_Injection
  <2>6. \A p \in T : \E i \in kept : place[i] = p
    BY <2>5 DEF Surjection
  <2> QED BY <2>6 DEF place, T
<1> QED BY <1>1, <1>2, <1>4, <1>7, <1>8

\* The entries of u are those of s at the places that are kept.
Arranged(u, s, kept) ==
  /\ u \in Seq(Entry) /\ Len(u) = Cardinality(kept)
  /\ \E q \in [1..Len(u) -> kept] :
       /\ \A p \in 1..Len(u) : u[p] = s[q[p]]
       /\ \A p, r \in 1..Len(u) : q[p] = q[r] => p = r
       /\ \A i \in kept : \E p \in 1..Len(u) : q[p] = i

LEMMA SortPlaces ==
  ASSUME NEW t \in Tree, NEW s \in Seq(Entry), NEW kept \in SUBSET DOMAIN s
  PROVE  \E q \in [1..Cardinality(kept) -> kept] :
           /\ SortByIndex(t, s, kept) = [p \in 1..Cardinality(kept) |-> s[q[p]]]
           /\ \A p \in 1..Cardinality(kept) : Cardinality(Ahead(t, s, kept, q[p])) + 1 = p
<1> DEFINE size == Cardinality(kept)
           q == [p \in 1..size |-> CHOOSE i \in kept : Cardinality(Ahead(t, s, kept, i)) + 1 = p]
<1>1. Len(s) \in Nat /\ kept \in SUBSET (1..Len(s)) /\ \A i \in DOMAIN s : s[i] \in Entry
  OBVIOUS
<1>2. \A i \in kept : t.index[s[i].node] \in Nat
  <2>1. \A e \in Entry : e.node \in Node
    BY DEF Entry
  <2> QED BY <1>1, <2>1, TreeFields
<1>3. \A p \in 1..size : \E i \in kept : Cardinality(Ahead(t, s, kept, i)) + 1 = p
  <2> HIDE DEF q
  <2> QED BY <1>1, <1>2, Places
<1>4. q \in [1..size -> kept] /\ \A p \in 1..size : Cardinality(Ahead(t, s, kept, q[p])) + 1 = p
  BY <1>3
<1>5. SortByIndex(t, s, kept) = [p \in 1..size |-> s[CHOOSE i \in kept : Cardinality(Ahead(t, s, kept, i)) + 1 = p]]
  BY Zenon DEF SortByIndex, Ahead
<1>6. SortByIndex(t, s, kept) = [p \in 1..size |-> s[q[p]]]
  BY <1>5, Zenon
<1> HIDE DEF q
<1> QED BY <1>4, <1>6

LEMMA SortArranges ==
  ASSUME NEW t \in Tree, NEW s \in Seq(Entry), NEW kept \in SUBSET DOMAIN s
  PROVE  Arranged(SortByIndex(t, s, kept), s, kept)
<1> DEFINE size == Cardinality(kept)
           Ahd(i) == Cardinality(Ahead(t, s, kept, i))
           u == SortByIndex(t, s, kept)
<1>1. Len(s) \in Nat /\ kept \in SUBSET (1..Len(s)) /\ \A i \in DOMAIN s : s[i] \in Entry
  OBVIOUS
<1>2. \A i \in kept : t.index[s[i].node] \in Nat
  <2>1. \A e \in Entry : e.node \in Node
    BY DEF Entry
  <2> QED BY <1>1, <2>1, TreeFields
<1>3. /\ size \in Nat
      /\ \A i \in kept : Ahd(i) + 1 \in 1..size
      /\ \A i, j \in kept : Ahd(i) = Ahd(j) => i = j
  BY <1>1, <1>2, Places
<1>4. \A i \in kept : Ahd(i) \in Nat
  <2> TAKE i \in kept
  <2>1. IsFiniteSet(kept) /\ Ahead(t, s, kept, i) \in SUBSET kept
    BY <1>1, <1>2, Places DEF Ahead
  <2>2. IsFiniteSet(Ahead(t, s, kept, i))
    BY <2>1, FS_Subset
  <2> QED BY <2>2, FS_CardinalityType
<1>5. PICK q \in [1..size -> kept] : u = [p \in 1..size |-> s[q[p]]] /\ \A p \in 1..size : Ahd(q[p]) + 1 = p
  BY SortPlaces
<1> HIDE DEF Ahd, size, u
<1>6. u \in Seq(Entry) /\ Len(u) = size /\ \A p \in 1..size : u[p] = s[q[p]]
  <2>1. \A p \in 1..size : s[q[p]] \in Entry
    BY <1>1
  <2> QED BY <1>3, <1>5, <2>1
<1>7. \A p, r \in 1..size : q[p] = q[r] => p = r
  <2> SUFFICES ASSUME NEW p \in 1..size, NEW r \in 1..size, q[p] = q[r] PROVE p = r
    OBVIOUS
  <2>1. Ahd(q[p]) + 1 = p /\ Ahd(q[r]) + 1 = r
    BY <1>5
  <2> QED BY <2>1
<1>8. \A i \in kept : \E p \in 1..size : q[p] = i
  <2> TAKE i \in kept
  <2> DEFINE p == Ahd(i) + 1
  <2>1. p \in 1..size
    BY <1>3
  <2>2. q[p] \in kept /\ Ahd(q[p]) + 1 = p
    BY <1>5, <2>1
  <2>3. Ahd(q[p]) = Ahd(i)
    BY <1>4, <2>2
  <2>4. q[p] = i
    BY <1>3, <2>2, <2>3
  <2> QED BY <2>1, <2>4
<1>9. Arranged(u, s, kept)
  <2>1. /\ q \in [1..Len(u) -> kept]
        /\ \A p \in 1..Len(u) : u[p] = s[q[p]]
        /\ \A p, r \in 1..Len(u) : q[p] = q[r] => p = r
        /\ \A i \in kept : \E p \in 1..Len(u) : q[p] = i
    BY <1>5, <1>6, <1>7, <1>8
  <2>2. Len(u) = Cardinality(kept)
    BY <1>6 DEF size
  <2> QED BY <1>6, <2>1, <2>2, Zenon DEF Arranged
<1> QED BY <1>9 DEF u

\* Entries that are in order stay where they are.
LEMMA SortStays ==
  ASSUME NEW t \in Tree, NEW s \in Seq(Entry), \A i \in DOMAIN s : t.index[s[i].node] = i - 1
  PROVE  SortByIndex(t, s, DOMAIN s) = s
<1> DEFINE n == Len(s)
           D == DOMAIN s
<1>1. n \in Nat /\ D = 1..n
  <2>1. Len(s) \in Nat /\ DOMAIN s = 1..Len(s)
    OBVIOUS
  <2> QED BY <2>1
<1>2. \A i \in D : Ahead(t, s, D, i) = 1..(i - 1)
  <2> TAKE i \in D
  <2>1. \A j \in D : t.index[s[j].node] = j - 1
    BY <1>1
  <2> HIDE DEF D, n
  <2>2. \A j \in D : j \in Ahead(t, s, D, i) <=> j < i
    BY <1>1, <2>1 DEF Ahead
  <2>3. Ahead(t, s, D, i) \subseteq D
    BY DEF Ahead
  <2>4. \A j : j \in 1..(i - 1) <=> j \in D /\ j < i
    BY <1>1
  <2> QED BY <2>2, <2>3, <2>4
<1>3. \A i \in D : Cardinality(Ahead(t, s, D, i)) + 1 = i
  <2> TAKE i \in D
  <2>1. Cardinality(1..(i - 1)) = i - 1
    BY <1>1, FS_Interval
  <2>2. Cardinality(Ahead(t, s, D, i)) = i - 1
    BY <1>2, <2>1
  <2> HIDE DEF D
  <2> QED BY <1>1, <2>2
<1>4. Cardinality(D) = n
  <2>1. Cardinality(1..n) = IF 1 > n THEN 0 ELSE n - 1 + 1
    BY <1>1, FS_Interval
  <2> HIDE DEF n, D
  <2> QED BY <1>1, <2>1
<1>5. PICK q \in [1..n -> D] :
        SortByIndex(t, s, D) = [p \in 1..n |-> s[q[p]]] /\ \A p \in 1..n : Cardinality(Ahead(t, s, D, q[p])) + 1 = p
  <2>1. t \in Tree /\ s \in Seq(Entry) /\ D \in SUBSET DOMAIN s
    OBVIOUS
  <2> HIDE DEF D, n
  <2> QED BY <1>4, <2>1, SortPlaces
<1>6. \A p \in 1..n : q[p] = p
  BY <1>3, <1>5
<1>7. SortByIndex(t, s, D) = [p \in 1..n |-> s[p]]
  BY <1>5, <1>6
<1>8. s = [p \in 1..n |-> s[p]]
  OBVIOUS
<1> QED BY <1>7, <1>8

LEMMA ArrangedNodes ==
  ASSUME NEW s \in Seq(Entry), NEW kept \in SUBSET DOMAIN s, NEW u, Arranged(u, s, kept),
         \A i, j \in DOMAIN s : s[i].node = s[j].node => i = j
  PROVE  /\ {u[i].node : i \in DOMAIN u} = {s[i].node : i \in kept}
         /\ \A i, j \in DOMAIN u : u[i].node = u[j].node => i = j
         /\ \A i \in DOMAIN u : \E j \in kept : u[i] = s[j]
<1>1. PICK q \in [1..Len(u) -> kept] :
        /\ \A p \in 1..Len(u) : u[p] = s[q[p]]
        /\ \A p, r \in 1..Len(u) : q[p] = q[r] => p = r
        /\ \A i \in kept : \E p \in 1..Len(u) : q[p] = i
  BY Zenon DEF Arranged
<1>2. DOMAIN u = 1..Len(u)
  BY DEF Arranged
<1>3. \A i \in DOMAIN u : q[i] \in kept /\ u[i] = s[q[i]]
  BY <1>1, <1>2
<1>4. {u[i].node : i \in DOMAIN u} = {s[i].node : i \in kept}
  BY <1>1, <1>2, <1>3
<1>5. \A i, j \in DOMAIN u : u[i].node = u[j].node => i = j
  BY <1>1, <1>2, <1>3
<1> QED BY <1>3, <1>4, <1>5

(* -------------------------- what can be reached -------------------------- *)

\* A group is deeper than the one it is in, so that nothing is inside itself.
Layered(t) == \A g \in Group : \A n \in Kids(t, g) \cap Sub : t.depth[n] > DepthOf(t, g)

LEMMA SoundIsLayered == ASSUME NEW t, Sound(t) PROVE t \in Tree /\ Layered(t)
<1>1. t \in Tree /\ Nested(t)
  BY DEF Sound
<1> SUFFICES ASSUME NEW g \in Group, NEW n \in Kids(t, g) \cap Sub PROVE t.depth[n] > DepthOf(t, g)
  BY <1>1 DEF Layered
<1>2. t.depth[n] = DepthOf(t, g) + 1
  BY <1>1 DEF Nested
<1>3. DepthOf(t, g) \in Nat
  BY <1>1, TreeFields, Nodes DEF DepthOf
<1> QED BY <1>2, <1>3

\* Ranks that fall from a group to what is in it.
Falls(t, r) == \A g \in Group : \A n \in Kids(t, g) : r[n] < r[g]

LEMMA DownRank ==
  ASSUME NEW t \in Tree, Layered(t)
  PROVE  \E M \in Nat : \E r \in [Node \cup Group -> 0..M] : Falls(t, r)
<1>1. PICK D \in Nat : \A n \in Node : t.depth[n] <= D
  BY Bounded, TreeFields, Nodes
<1> DEFINE M == D + 2
           r == [n \in Node \cup Group |-> IF n \in Crit THEN 0 ELSE M - DepthOf(t, n)]
<1>2. \A g \in Group : DepthOf(t, g) \in Nat /\ DepthOf(t, g) <= D + 1
  <2> TAKE g \in Group
  <2>1. CASE g = Top
    BY <2>1 DEF DepthOf
  <2>2. CASE g # Top
    <3>1. g \in Node /\ t.depth[g] \in Nat /\ t.depth[g] <= D
      BY <1>1, <2>2, Nodes, TreeFields
    <3> QED BY <2>2, <3>1 DEF DepthOf
  <2> QED BY <2>1, <2>2
<1>3. \A n \in Node \cup Group : n \in Crit \/ n \in Group
  BY Nodes
<1>4. \A n \in Node \cup Group : r[n] = IF n \in Crit THEN 0 ELSE M - DepthOf(t, n)
  OBVIOUS
<1>5. M \in Nat /\ \A n \in Node \cup Group : r[n] \in 0..M
  <2>1. ASSUME NEW n \in Node \cup Group PROVE r[n] \in 0..M
    <3>1. CASE n \in Crit
      BY <3>1, <1>4
    <3>2. CASE n \notin Crit
      <4>1. n \in Group
        BY <1>3, <3>2
      <4> HIDE DEF r
      <4>2. r[n] = M - DepthOf(t, n)
        BY <1>4, <3>2
      <4>3. DepthOf(t, n) \in Nat /\ DepthOf(t, n) <= D + 1
        BY <1>2, <4>1
      <4> QED BY <4>2, <4>3
    <3> QED BY <3>1, <3>2
  <2>2. M \in Nat
    OBVIOUS
  <2> HIDE DEF r, M
  <2> QED BY <2>1, <2>2
<1>6. Falls(t, r)
  <2> SUFFICES ASSUME NEW g \in Group, NEW n \in Kids(t, g) PROVE r[n] < r[g]
    BY Zenon DEF Falls
  <2>0. n \in Node /\ g \notin Crit
    BY Entries, Nodes
  <2>1. n \in Node /\ g \notin Crit /\ r[g] = M - DepthOf(t, g)
    <3> HIDE DEF r, M
    <3> QED BY <1>4, <2>0
  <2>2. CASE n \in Crit
    <3>1. r[n] = 0
      <4> HIDE DEF r
      <4> QED BY <1>4, <2>0, <2>2
    <3> HIDE DEF r
    <3> QED BY <1>2, <2>1, <3>1
  <2>3. CASE n \in Sub
    <3>1. t.depth[n] > DepthOf(t, g) /\ n # Top /\ n \notin Crit /\ n \in Group
      BY <2>3, Nodes DEF Layered
    <3>2. r[n] = M - DepthOf(t, n) /\ DepthOf(t, n) = t.depth[n]
      BY <1>4, <3>1 DEF DepthOf
    <3>3. DepthOf(t, n) \in Nat /\ DepthOf(t, g) \in Nat
      BY <1>2, <3>1
    <3> HIDE DEF r
    <3> QED BY <2>1, <3>1, <3>2, <3>3
  <2> QED BY <2>1, <2>2, <2>3, Nodes
<1> HIDE DEF r
<1>7. r \in [Node \cup Group -> 0..M]
  <2>1. r = [n \in Node \cup Group |-> r[n]]
    BY DEF r
  <2> QED BY <1>5, <2>1
<1> QED BY <1>5, <1>6, <1>7

\* What is below each group.
IsBelow(t, below) ==
  /\ below \in [Group -> SUBSET Node]
  /\ \A g \in Group : below[g] = UNION {{n} \cup (IF n \in Sub THEN below[n] ELSE {}) : n \in Kids(t, g)}

LEMMA BelowExists ==
  ASSUME NEW t \in Tree, Layered(t)
  PROVE  \E below : IsBelow(t, below)
<1>0. PICK M \in Nat : \E r \in [Node \cup Group -> 0..M] : Falls(t, r)
  BY DownRank
<1>1. PICK r \in [Node \cup Group -> 0..M] : Falls(t, r)
  BY <1>0
<1> DEFINE T == SUBSET Node
           Step(f, g) == UNION {{n} \cup (IF n \in Sub THEN f[n] ELSE {}) : n \in Kids(t, g)}
           E == [x \in [Group -> T] \X Group |-> Step(x[1], x[2])]
           rank == [g \in Group |-> r[g]]
<1>2. rank \in [Group -> 0..M]
  OBVIOUS
<1>3. ASSUME NEW f \in [Group -> T], NEW g \in Group PROVE E[<<f, g>>] = Step(f, g) /\ Step(f, g) \in T
  <2>1. E[<<f, g>>] = Step(f, g)
    BY Zenon
  <2>2. \A n \in Kids(t, g) : n \in Node /\ (n \in Sub => f[n] \in T)
    BY Entries, Nodes
  <2>3. Step(f, g) \in T
    BY <2>2
  <2> QED BY <2>1, <2>3
<1>4. E \in [[Group -> T] \X Group -> T]
  <2>1. \A x \in [Group -> T] \X Group : E[x] \in T
    <3> TAKE x \in [Group -> T] \X Group
    <3>1. PICK f \in [Group -> T], g \in Group : x = <<f, g>>
      OBVIOUS
    <3> HIDE DEF E, Step, T
    <3> QED BY <1>3, <3>1
  <2> HIDE DEF Step, T
  <2> QED BY <2>1
<1>5. Descends(Group, T, E, rank)
  <2> SUFFICES ASSUME NEW f \in [Group -> T], NEW h \in [Group -> T], NEW g \in Group,
                      \A k \in Group : rank[k] < rank[g] => f[k] = h[k]
               PROVE  E[<<f, g>>] = E[<<h, g>>]
    BY Zenon DEF Descends
  <2>1. \A n \in Kids(t, g) \cap Sub : f[n] = h[n]
    <3> TAKE n \in Kids(t, g) \cap Sub
    <3>1. n \in Group /\ r[n] < r[g]
      BY <1>1, Nodes DEF Falls
    <3> QED BY <3>1
  <2>2. Step(f, g) = Step(h, g)
    BY <2>1
  <2> HIDE DEF E, Step, T
  <2> QED BY <1>3, <2>2
<1>6. T # {}
  OBVIOUS
<1> HIDE DEF E, T, rank
<1>7. PICK f : IsDefinedBy(f, Group, T, E)
  <2>1. IsStep(Group, T, E, M, rank)
    BY <1>2, <1>4, <1>5, <1>6 DEF IsStep
  <2> QED BY <2>1, RecursionExists, Zenon
<1>8. f \in [Group -> T] /\ \A g \in Group : f[g] = E[<<f, g>>]
  BY <1>7, Zenon DEF IsDefinedBy
<1>9. \A g \in Group : f[g] = Step(f, g)
  BY <1>3, <1>8
<1> QED BY <1>8, <1>9 DEF IsBelow, T

LEMMA ReachedIs ==
  ASSUME NEW t \in Tree, Layered(t)
  PROVE  \E below : IsBelow(t, below) /\ Reached(t) = below[Top]
<1> DEFINE Step(f, g) == UNION {{n} \cup (IF n \in Sub THEN f[n] ELSE {}) : n \in Kids(t, g)}
           B == CHOOSE below : below = [g \in Group |-> Step(below, g)]
<1>1. PICK f : IsBelow(t, f)
  BY BelowExists
<1>2. f = [g \in Group |-> Step(f, g)]
  <2> HIDE DEF Step
  <2>1. \A g \in Group : f[g] = Step(f, g)
    BY <1>1 DEF IsBelow, Step
  <2> QED BY <1>1, <2>1 DEF IsBelow
<1>3. B = [g \in Group |-> Step(B, g)]
  <2> HIDE DEF Step
  <2> QED BY <1>2
<1>4. Reached(t) = B[Top]
  BY Zenon DEF Reached
<1>5. B = f
  <2> HIDE DEF B
  <2>0. PICK M \in Nat : \E r \in [Node \cup Group -> 0..M] : Falls(t, r)
    BY DownRank
  <2>1. PICK r \in [Node \cup Group -> 0..M] : Falls(t, r)
    BY <2>0
  <2> DEFINE S == {g \in Group : B[g] = f[g]}
             rank == [g \in Group |-> r[g]]
  <2>2. rank \in [Group -> Nat]
    OBVIOUS
  <2>3. ASSUME NEW g \in Group, \A k \in Group : rank[k] < rank[g] => k \in S PROVE g \in S
    <3>1. \A n \in Kids(t, g) \cap Sub : B[n] = f[n]
      <4> TAKE n \in Kids(t, g) \cap Sub
      <4>1. n \in Group /\ r[n] < r[g]
        BY <2>1, Nodes DEF Falls
      <4> QED BY <2>3, <4>1
    <3>2. Step(B, g) = Step(f, g)
      BY <3>1
    <3> HIDE DEF Step
    <3> QED BY <1>2, <1>3, <3>2
  <2>4. Group \subseteq S
    <3> HIDE DEF S, rank
    <3> QED BY <2>2, <2>3, RankInduction
  <2>5. \A g \in Group : B[g] = f[g]
    BY <2>4
  <2> HIDE DEF Step, S
  <2> QED BY <1>2, <1>3, <2>5
<1> QED BY <1>1, <1>4, <1>5

LEMMA BelowFacts ==
  ASSUME NEW t \in Tree, Layered(t), NEW below, IsBelow(t, below)
  PROVE  /\ \A g \in Group : Kids(t, g) \subseteq below[g]
         /\ \A g \in Group : \A n \in below[g] \cap Sub : below[n] \subseteq below[g]
         /\ \A g \in Group : \A n \in below[g] : \E h \in {g} \cup (below[g] \cap Sub) : n \in Kids(t, h)
         /\ \A L : (\A g \in L \cap Group : Kids(t, g) \subseteq L) => \A g \in L \cap Group : below[g] \subseteq L
<1>0. PICK M \in Nat : \E r \in [Node \cup Group -> 0..M] : Falls(t, r)
  BY DownRank
<1>1. PICK r \in [Node \cup Group -> 0..M] : Falls(t, r)
  BY <1>0
<1> DEFINE rank == [g \in Group |-> r[g]]
<1>2. rank \in [Group -> Nat] /\ \A g \in Group : \A n \in Kids(t, g) \cap Sub : n \in Group /\ rank[n] < rank[g]
  <2>1. \A g \in Group : \A n \in Kids(t, g) \cap Sub : n \in Group /\ r[n] < r[g]
    BY <1>1, Nodes DEF Falls
  <2> QED BY <2>1
<1> HIDE DEF rank
<1>3. \A g \in Group : \A n : n \in below[g] <=> n \in Kids(t, g) \/ \E k \in Kids(t, g) \cap Sub : n \in below[k]
  <2> TAKE g \in Group
  <2>1. below[g] = UNION {{n} \cup (IF n \in Sub THEN below[n] ELSE {}) : n \in Kids(t, g)}
    BY DEF IsBelow
  <2> QED BY <2>1
<1>4. \A g \in Group : Kids(t, g) \subseteq below[g] /\ below[g] \subseteq Node
  BY <1>3 DEF IsBelow
<1>5. \A g \in Group : \A n \in below[g] \cap Sub : below[n] \subseteq below[g]
  <2> DEFINE S == {g \in Group : \A n \in below[g] \cap Sub : below[n] \subseteq below[g]}
  <2>1. ASSUME NEW g \in Group, \A k \in Group : rank[k] < rank[g] => k \in S PROVE g \in S
    <3> SUFFICES ASSUME NEW n \in below[g] \cap Sub PROVE below[n] \subseteq below[g]
      OBVIOUS
    <3>1. \A k \in Kids(t, g) \cap Sub : below[k] \subseteq below[g]
      BY <1>3
    <3>2. CASE n \in Kids(t, g)
      BY <3>1, <3>2
    <3>3. CASE n \notin Kids(t, g)
      <4>1. PICK k \in Kids(t, g) \cap Sub : n \in below[k]
        BY <1>3, <3>3
      <4>2. below[n] \subseteq below[k]
        BY <1>2, <2>1, <4>1
      <4> QED BY <3>1, <4>2
    <3> QED BY <3>2, <3>3
  <2>2. Group \subseteq S
    <3> HIDE DEF S
    <3> QED BY <1>2, <2>1, RankInduction
  <2> QED BY <2>2
<1>6. \A g \in Group : \A n \in below[g] : \E h \in {g} \cup (below[g] \cap Sub) : n \in Kids(t, h)
  <2> DEFINE S == {g \in Group : \A n \in below[g] : \E h \in {g} \cup (below[g] \cap Sub) : n \in Kids(t, h)}
  <2>1. ASSUME NEW g \in Group, \A k \in Group : rank[k] < rank[g] => k \in S PROVE g \in S
    <3> SUFFICES ASSUME NEW n \in below[g] PROVE \E h \in {g} \cup (below[g] \cap Sub) : n \in Kids(t, h)
      OBVIOUS
    <3>1. CASE n \in Kids(t, g)
      BY <3>1
    <3>2. CASE n \notin Kids(t, g)
      <4>1. PICK k \in Kids(t, g) \cap Sub : n \in below[k]
        BY <1>3, <3>2
      <4>2. k \in S
        BY <1>2, <2>1
      <4>3. PICK h \in {k} \cup (below[k] \cap Sub) : n \in Kids(t, h)
        BY <4>1, <4>2
      <4>4. k \in below[g] \cap Sub /\ below[k] \subseteq below[g]
        BY <1>4, <1>5
      <4>5. h \in below[g] \cap Sub
        BY <4>3, <4>4
      <4> QED BY <4>3, <4>5
    <3> QED BY <3>1, <3>2
  <2>2. Group \subseteq S
    <3> HIDE DEF S
    <3> QED BY <1>2, <2>1, RankInduction
  <2> QED BY <2>2
<1>7. ASSUME NEW L, \A g \in L \cap Group : Kids(t, g) \subseteq L PROVE \A g \in L \cap Group : below[g] \subseteq L
  <2> DEFINE S == {g \in Group : g \in L => below[g] \subseteq L}
  <2>1. ASSUME NEW g \in Group, \A k \in Group : rank[k] < rank[g] => k \in S PROVE g \in S
    <3> SUFFICES ASSUME g \in L, NEW n \in below[g] PROVE n \in L
      OBVIOUS
    <3>1. Kids(t, g) \subseteq L
      BY <1>7
    <3>2. CASE n \in Kids(t, g)
      BY <3>1, <3>2
    <3>3. CASE n \notin Kids(t, g)
      <4>1. PICK k \in Kids(t, g) \cap Sub : n \in below[k]
        BY <1>3, <3>3
      <4>2. k \in S /\ k \in L
        BY <1>2, <2>1, <3>1
      <4> QED BY <4>1, <4>2
    <3> QED BY <3>2, <3>3
  <2>2. Group \subseteq S
    <3> HIDE DEF S
    <3> QED BY <1>2, <2>1, RankInduction
  <2> QED BY <2>2
<1> QED BY <1>4, <1>5, <1>6, <1>7, Zenon

\* What is reached: what the top group and the groups that are reached hold.
LEMMA ReachedFacts ==
  ASSUME NEW t \in Tree, Layered(t)
  PROVE  /\ Reached(t) \subseteq Node /\ Reached(t) \subseteq Live(t) /\ Kids(t, Top) \subseteq Reached(t)
         /\ \A g \in Reached(t) \cap Sub : Kids(t, g) \subseteq Reached(t)
         /\ \A n \in Reached(t) : \E g \in {Top} \cup (Reached(t) \cap Sub) : n \in Kids(t, g)
         /\ \A L : Top \in L /\ (\A g \in L \cap Group : Kids(t, g) \subseteq L) => Reached(t) \subseteq L
<1>1. PICK below : IsBelow(t, below) /\ Reached(t) = below[Top]
  BY ReachedIs
<1>2. Top \in Group /\ Sub \subseteq Group
  BY Nodes
<1>3. /\ \A g \in Group : Kids(t, g) \subseteq below[g]
      /\ \A g \in Group : \A n \in below[g] \cap Sub : below[n] \subseteq below[g]
      /\ \A g \in Group : \A n \in below[g] : \E h \in {g} \cup (below[g] \cap Sub) : n \in Kids(t, h)
      /\ \A L : (\A g \in L \cap Group : Kids(t, g) \subseteq L) => \A g \in L \cap Group : below[g] \subseteq L
  BY <1>1, BelowFacts, Zenon
<1>4. Reached(t) \subseteq Node
  BY <1>1, <1>2 DEF IsBelow
<1>5. Kids(t, Top) \subseteq Reached(t) /\ \A g \in Reached(t) \cap Sub : Kids(t, g) \subseteq Reached(t)
  BY <1>1, <1>2, <1>3
<1>6. \A n \in Reached(t) : \E g \in {Top} \cup (Reached(t) \cap Sub) : n \in Kids(t, g)
  BY <1>1, <1>2, <1>3
<1>7. Reached(t) \subseteq Live(t)
  BY <1>2, <1>6 DEF Live
<1>8. \A L : Top \in L /\ (\A g \in L \cap Group : Kids(t, g) \subseteq L) => Reached(t) \subseteq L
  BY <1>1, <1>2, <1>3
<1> QED BY <1>4, <1>5, <1>6, <1>7, <1>8

LEMMA KidsAre ==
  ASSUME NEW t, NEW g, NEW n
  PROVE  n \in Kids(t, g) <=> \E i \in DOMAIN t.kids[g] : t.kids[g][i].node = n
BY DEF Kids

LEMMA LiveAre == ASSUME NEW t, NEW n PROVE n \in Live(t) <=> \E g \in Group : n \in Kids(t, g)
BY DEF Live

LEMMA EmptyKids ==
  ASSUME NEW t \in Tree, NEW g \in Group
  PROVE  t.kids[g] = <<>> <=> Kids(t, g) = {}
<1>1. ASSUME NEW s \in Seq(Entry) PROVE s = <<>> <=> DOMAIN s = {}
  <2>1. Len(s) \in Nat /\ DOMAIN s = 1..Len(s) /\ (s = <<>> <=> Len(s) = 0)
    OBVIOUS
  <2>2. ASSUME NEW n \in Nat PROVE n = 0 <=> 1..n = {}
    <3>1. n # 0 => 1 \in 1..n
      OBVIOUS
    <3>2. n = 0 => \A x : x \notin 1..n
      OBVIOUS
    <3> QED BY <3>1, <3>2
  <2> QED BY <2>1, <2>2
<1>2. t.kids[g] \in Seq(Entry)
  BY TreeFields
<1>3. t.kids[g] = <<>> <=> DOMAIN t.kids[g] = {}
  BY <1>1, <1>2
<1> QED BY <1>3 DEF Kids

LEMMA LiveAreNodes == ASSUME NEW t \in Tree PROVE Live(t) \subseteq Node
BY Entries, LiveAre

\* Each node is in one group.
LEMMA ParentIs ==
  ASSUME NEW t, Apart(t), NEW g \in Group, NEW n \in Kids(t, g)
  PROVE  Parent(t, n) = g
<1>1. n \in Live(t)
  BY LiveAre
<1>2. \A h \in Group : n \in Kids(t, h) => h = g
  BY DEF Apart
<1> QED BY <1>1, <1>2 DEF Parent

LEMMA Records ==
  /\ EmptyCrit \in CritRecord
  /\ \A c \in CritRecord : Rebuild(c) \in CritRecord /\ Populate(c) \in CritRecord
  /\ \A c \in CritRecord : \A b \in BOOLEAN : [c EXCEPT !.right = b] \in CritRecord
<1>1. EmptyCrit \in CritRecord
  BY DEF EmptyCrit, CritRecord
<1>2. \A cond, value : Valid(cond, value) \in BOOLEAN
  BY DEF Valid
<1>3. ASSUME NEW c \in CritRecord, NEW b \in BOOLEAN
      PROVE  [c EXCEPT !.filled = b] \in CritRecord /\ [c EXCEPT !.right = b] \in CritRecord
  BY DEF CritRecord
<1>4. ASSUME NEW c \in CritRecord PROVE Rebuild(c) \in CritRecord /\ Populate(c) \in CritRecord
  <2>1. [c EXCEPT !.filled = Valid(c.cond, c.value)] \in CritRecord /\ [c EXCEPT !.filled = Valid(c.cond, None)] \in CritRecord
    BY <1>2, <1>3
  <2> QED BY <2>1 DEF Rebuild, Populate
<1> QED BY <1>1, <1>3, <1>4

\* What is the same in two trees is reached in both.
LEMMA SameReached ==
  ASSUME NEW t \in Tree, NEW u \in Tree, Layered(t), Layered(u), \A g \in Group : Kids(t, g) = Kids(u, g)
  PROVE  Reached(t) = Reached(u)
<1> DEFINE L(x) == {Top} \cup Reached(x)
<1>1. ASSUME NEW x \in Tree, Layered(x) PROVE Top \in L(x) /\ \A g \in L(x) \cap Group : Kids(x, g) \subseteq L(x)
  BY <1>1, ReachedFacts, Nodes
<1>2. ASSUME NEW x \in Tree, NEW y \in Tree, Layered(x), Layered(y), \A g \in Group : Kids(x, g) = Kids(y, g)
      PROVE  Reached(x) \subseteq Reached(y)
  <2>1. Top \in L(y) /\ \A g \in L(y) \cap Group : Kids(x, g) \subseteq L(y)
    BY <1>1, <1>2
  <2> HIDE DEF L
  <2>2. Reached(x) \subseteq L(y)
    BY <1>2, <2>1, ReachedFacts
  <2>3. Top \notin Reached(x)
    BY <1>2, ReachedFacts, Nodes
  <2> QED BY <2>2, <2>3 DEF L
<1> QED BY <1>2

(* -------------------------------- Tidy ----------------------------------- *)

LEMMA TidyIs ==
  ASSUME NEW t \in Tree, Layered(t), NEW u, u = Tidy(t), NEW live, live = Reached(t)
  PROVE  /\ u \in Tree
         /\ \A g \in Group : u.kids[g] = IF g \in live \cup {Top} THEN t.kids[g] ELSE <<>>
         /\ \A g \in Group : Kids(u, g) = IF g \in live \cup {Top} THEN Kids(t, g) ELSE {}
         /\ \A n \in Node : u.index[n] = (IF n \in live THEN t.index[n] ELSE 0)
                            /\ u.depth[n] = (IF n \in live THEN t.depth[n] ELSE 1)
         /\ \A g \in Group : u.logic[g] = IF g \in live \cup {Top} THEN t.logic[g] ELSE DefaultLogic
         /\ \A c \in Crit : u.crit[c] = IF c \in live THEN t.crit[c] ELSE EmptyCrit
         /\ Live(u) = live
<1>0. live \subseteq Node /\ Top \notin live
  BY ReachedFacts, Nodes
<1>1. /\ u.kids = [g \in Group |-> IF g \in live \cup {Top} THEN t.kids[g] ELSE <<>>]
      /\ u.index = [n \in Node |-> IF n \in live \cup {Top} THEN t.index[n] ELSE 0]
      /\ u.depth = [n \in Node |-> IF n \in live \cup {Top} THEN t.depth[n] ELSE 1]
      /\ u.logic = [g \in Group |-> IF g \in live \cup {Top} THEN t.logic[g] ELSE DefaultLogic]
      /\ u.crit = [c \in Crit |-> IF c \in live \cup {Top} THEN t.crit[c] ELSE EmptyCrit]
      /\ u = [kids |-> u.kids, index |-> u.index, depth |-> u.depth, logic |-> u.logic, crit |-> u.crit]
  BY Zenon DEF Tidy
<1>2. DefaultLogic \in Logic /\ <<>> \in Seq(Entry) /\ EmptyCrit \in CritRecord
  BY Assumptions, Records DEF Logic
<1>3. /\ u.kids \in [Group -> Seq(Entry)] /\ u.index \in [Node -> Nat] /\ u.depth \in [Node -> Nat]
      /\ u.logic \in [Group -> Logic] /\ u.crit \in [Crit -> CritRecord]
  <2>1. u.kids \in [Group -> Seq(Entry)]
    BY <1>1, <1>2, TreeFields
  <2>2. u.index \in [Node -> Nat] /\ u.depth \in [Node -> Nat]
    BY <1>1, TreeFields
  <2>3. u.logic \in [Group -> Logic]
    BY <1>1, <1>2, TreeFields
  <2>4. u.crit \in [Crit -> CritRecord]
    BY <1>1, <1>2, TreeFields
  <2> QED BY <2>1, <2>2, <2>3, <2>4
<1>4. u \in Tree
  BY <1>1, <1>3 DEF Tree
<1>5. \A g \in Group : u.kids[g] = IF g \in live \cup {Top} THEN t.kids[g] ELSE <<>>
  BY <1>1
<1>6. \A g \in Group : Kids(u, g) = IF g \in live \cup {Top} THEN Kids(t, g) ELSE {}
  BY <1>5 DEF Kids
<1>7. \A n \in Node : u.index[n] = (IF n \in live THEN t.index[n] ELSE 0)
                      /\ u.depth[n] = (IF n \in live THEN t.depth[n] ELSE 1)
  BY <1>0, <1>1, Nodes
<1>8. \A g \in Group : u.logic[g] = IF g \in live \cup {Top} THEN t.logic[g] ELSE DefaultLogic
  BY <1>1
<1>9. \A c \in Crit : u.crit[c] = IF c \in live THEN t.crit[c] ELSE EmptyCrit
  BY <1>0, <1>1, Nodes
<1>10. Live(u) = live
  <2>1. ASSUME NEW n \in Live(u) PROVE n \in live
    <3>1. PICK g \in Group : n \in Kids(u, g)
      BY <2>1, LiveAre
    <3>2. g \in live \cup {Top} /\ n \in Kids(t, g)
      BY <1>6, <3>1
    <3> QED BY <3>2, ReachedFacts, Nodes
  <2>2. ASSUME NEW n \in live PROVE n \in Live(u)
    <3>1. PICK g \in {Top} \cup (live \cap Sub) : n \in Kids(t, g)
      BY <2>2, ReachedFacts
    <3>2. g \in Group /\ n \in Kids(u, g)
      BY <1>6, <3>1, Nodes
    <3> QED BY <3>2, LiveAre
  <2> QED BY <2>1, <2>2
<1> QED BY <1>4, <1>5, <1>6, <1>7, <1>8, <1>9, <1>10

(* ------------------------------- Rebuilt --------------------------------- *)

\* The new numbers, before what is not in the tree is dropped.
Numbered(t) ==
  LET place(n) == LET s == t.kids[Parent(t, n)] IN CHOOSE i \in DOMAIN s : s[i].node = n
  IN [t EXCEPT
       !.kids = [g \in Group |-> [i \in DOMAIN @[g] |-> [@[g][i] EXCEPT !.index = i - 1]]],
       !.index = [n \in Node |-> IF n \in Live(t) THEN place(n) - 1 ELSE 0],
       !.crit = [c \in Crit |-> Rebuild(@[c])]]

LEMMA NumberedIs ==
  ASSUME NEW t, Sound(t), NEW v, v = Numbered(t)
  PROVE  /\ v \in Tree /\ Rebuilt(t) = Tidy(v)
         /\ \A g \in Group : /\ DOMAIN v.kids[g] = DOMAIN t.kids[g] /\ Len(v.kids[g]) = Len(t.kids[g])
                             /\ Kids(v, g) = Kids(t, g)
                             /\ \A i \in DOMAIN t.kids[g] :
                                  /\ v.kids[g][i].node = t.kids[g][i].node /\ v.kids[g][i].index = i - 1
                                  /\ v.index[t.kids[g][i].node] = i - 1
         /\ v.depth = t.depth /\ v.logic = t.logic
         /\ \A c \in Crit : v.crit[c] = Rebuild(t.crit[c])
<1>0. t \in Tree /\ (\A g \in Group : Single(t, g)) /\ Apart(t)
  BY DEF Sound
<1> DEFINE place(n) == LET s == t.kids[Parent(t, n)] IN CHOOSE i \in DOMAIN s : s[i].node = n
<1>1. Rebuilt(t) = Tidy(v)
  BY Zenon DEF Rebuilt, Numbered
<1>2. /\ v.kids = [g \in Group |-> [i \in DOMAIN t.kids[g] |-> [t.kids[g][i] EXCEPT !.index = i - 1]]]
      /\ v.index = [n \in Node |-> IF n \in Live(t) THEN place(n) - 1 ELSE 0]
      /\ v.depth = t.depth /\ v.logic = t.logic
      /\ v.crit = [c \in Crit |-> Rebuild(t.crit[c])]
      /\ v = [kids |-> v.kids, index |-> v.index, depth |-> v.depth, logic |-> v.logic, crit |-> v.crit]
  <2> HIDE DEF place
  <2>1. v = [t EXCEPT !.kids = [g \in Group |-> [i \in DOMAIN t.kids[g] |-> [t.kids[g][i] EXCEPT !.index = i - 1]]],
                      !.index = [n \in Node |-> IF n \in Live(t) THEN place(n) - 1 ELSE 0],
                      !.crit = [c \in Crit |-> Rebuild(t.crit[c])]]
    BY Zenon DEF Numbered, place
  <2> QED BY <1>0, <2>1, TreeFields
<1>3. ASSUME NEW g \in Group
      PROVE  /\ v.kids[g] \in Seq(Entry) /\ DOMAIN v.kids[g] = DOMAIN t.kids[g] /\ Len(v.kids[g]) = Len(t.kids[g])
             /\ \A i \in DOMAIN t.kids[g] : v.kids[g][i].node = t.kids[g][i].node /\ v.kids[g][i].index = i - 1
  <2>1. v.kids[g] = [i \in DOMAIN t.kids[g] |-> [t.kids[g][i] EXCEPT !.index = i - 1]]
    BY <1>2
  <2>2. DOMAIN t.kids[g] = 1..Len(t.kids[g]) /\ Len(t.kids[g]) \in Nat /\ \A i \in DOMAIN t.kids[g] : t.kids[g][i] \in Entry
    BY <1>0, Entries
  <2>3. ASSUME NEW e \in Entry, NEW i \in Nat \ {0}
        PROVE  [e EXCEPT !.index = i - 1] \in Entry /\ [e EXCEPT !.index = i - 1].node = e.node
               /\ [e EXCEPT !.index = i - 1].index = i - 1
    BY DEF Entry
  <2>4. \A i \in DOMAIN t.kids[g] : v.kids[g][i] \in Entry /\ v.kids[g][i].node = t.kids[g][i].node /\ v.kids[g][i].index = i - 1
    <3> TAKE i \in DOMAIN t.kids[g]
    <3>1. i \in Nat \ {0} /\ t.kids[g][i] \in Entry
      BY <2>2
    <3> QED BY <2>1, <2>3, <3>1
  <2>5. v.kids[g] \in [1..Len(t.kids[g]) -> Entry]
    BY <2>1, <2>2, <2>4
  <2>6. ASSUME NEW n \in Nat, NEW s \in [1..n -> Entry] PROVE s \in Seq(Entry) /\ Len(s) = n
    OBVIOUS
  <2>7. v.kids[g] \in Seq(Entry) /\ Len(v.kids[g]) = Len(t.kids[g])
    BY <2>2, <2>5, <2>6
  <2> QED BY <2>1, <2>4, <2>7
<1>4. ASSUME NEW g \in Group, NEW i \in DOMAIN t.kids[g] PROVE place(t.kids[g][i].node) = i
  <2>1. t.kids[g][i].node \in Kids(t, g)
    BY KidsAre
  <2>2. Parent(t, t.kids[g][i].node) = g
    BY <1>0, <2>1, ParentIs
  <2>3. \A j \in DOMAIN t.kids[g] : t.kids[g][j].node = t.kids[g][i].node => j = i
    BY <1>0 DEF Single
  <2> QED BY <2>2, <2>3
<1>5. ASSUME NEW g \in Group, NEW i \in DOMAIN t.kids[g] PROVE v.index[t.kids[g][i].node] = i - 1
  <2>1. t.kids[g][i].node \in Live(t) /\ t.kids[g][i].node \in Node
    BY <1>0, KidsAre, LiveAre, Entries
  <2> HIDE DEF place
  <2> QED BY <1>2, <1>4, <2>1
<1>6. v.index \in [Node -> Nat]
  <2>1. ASSUME NEW n \in Live(t) PROVE place(n) - 1 \in Nat
    <3>1. PICK g \in Group : n \in Kids(t, g)
      BY <2>1, LiveAre
    <3>2. PICK i \in DOMAIN t.kids[g] : t.kids[g][i].node = n
      BY <3>1, KidsAre
    <3>3. place(n) = i
      BY <1>4, <3>2
    <3>4. DOMAIN t.kids[g] = 1..Len(t.kids[g]) /\ Len(t.kids[g]) \in Nat
      BY <1>0, Entries
    <3> HIDE DEF place
    <3> QED BY <3>3, <3>4
  <2> HIDE DEF place
  <2> QED BY <1>2, <2>1
<1>7. v.kids \in [Group -> Seq(Entry)]
  BY <1>2, <1>3
<1>8. v.crit \in [Crit -> CritRecord] /\ \A c \in Crit : v.crit[c] = Rebuild(t.crit[c])
  BY <1>0, <1>2, Records, TreeFields
<1>9. v \in Tree
  BY <1>0, <1>2, <1>6, <1>7, <1>8, TreeFields DEF Tree
<1>10. \A g \in Group : Kids(v, g) = Kids(t, g)
  <2> TAKE g \in Group
  <2>1. DOMAIN v.kids[g] = DOMAIN t.kids[g] /\ \A i \in DOMAIN t.kids[g] : v.kids[g][i].node = t.kids[g][i].node
    BY <1>3
  <2> QED BY <2>1 DEF Kids
<1> HIDE DEF place
<1> QED BY <1>1, <1>2, <1>3, <1>5, <1>8, <1>9, <1>10

LEMMA RebuiltIs ==
  ASSUME NEW t, Sound(t), NEW u, u = Rebuilt(t), NEW live, live = Reached(t)
  PROVE  /\ u \in Tree /\ Live(u) = live /\ live \subseteq Node /\ Top \notin live
         /\ \A g \in Group \ ({Top} \cup live) : u.kids[g] = <<>> /\ Kids(u, g) = {} /\ u.logic[g] = DefaultLogic
         /\ \A g \in {Top} \cup (live \cap Sub) :
              /\ Kids(u, g) = Kids(t, g) /\ u.logic[g] = t.logic[g]
              /\ DOMAIN u.kids[g] = DOMAIN t.kids[g] /\ Len(u.kids[g]) = Len(t.kids[g])
              /\ \A i \in DOMAIN t.kids[g] : /\ u.kids[g][i].node = t.kids[g][i].node /\ u.kids[g][i].index = i - 1
                                             /\ u.index[t.kids[g][i].node] = i - 1
         /\ \A n \in Node : u.depth[n] = IF n \in live THEN t.depth[n] ELSE 1
         /\ \A c \in Crit : u.crit[c] = IF c \in live THEN Rebuild(t.crit[c]) ELSE EmptyCrit
<1> DEFINE v == Numbered(t)
<1>0. t \in Tree /\ Layered(t)
  BY SoundIsLayered
<1>1. /\ v \in Tree /\ u = Tidy(v)
      /\ \A g \in Group : /\ DOMAIN v.kids[g] = DOMAIN t.kids[g] /\ Len(v.kids[g]) = Len(t.kids[g])
                          /\ Kids(v, g) = Kids(t, g)
                          /\ \A i \in DOMAIN t.kids[g] :
                               /\ v.kids[g][i].node = t.kids[g][i].node /\ v.kids[g][i].index = i - 1
                               /\ v.index[t.kids[g][i].node] = i - 1
      /\ v.depth = t.depth /\ v.logic = t.logic
      /\ \A c \in Crit : v.crit[c] = Rebuild(t.crit[c])
  BY NumberedIs
<1> HIDE DEF v
<1>2. Layered(v)
  <2>1. \A g \in Group : DepthOf(v, g) = DepthOf(t, g)
    BY <1>1 DEF DepthOf
  <2> QED BY <1>0, <1>1, <2>1 DEF Layered
<1>3. Reached(v) = live
  BY <1>0, <1>1, <1>2, SameReached
<1>4. /\ u \in Tree
      /\ \A g \in Group : u.kids[g] = IF g \in live \cup {Top} THEN v.kids[g] ELSE <<>>
      /\ \A g \in Group : Kids(u, g) = IF g \in live \cup {Top} THEN Kids(v, g) ELSE {}
      /\ \A n \in Node : u.index[n] = (IF n \in live THEN v.index[n] ELSE 0)
                         /\ u.depth[n] = (IF n \in live THEN v.depth[n] ELSE 1)
      /\ \A g \in Group : u.logic[g] = IF g \in live \cup {Top} THEN v.logic[g] ELSE DefaultLogic
      /\ \A c \in Crit : u.crit[c] = IF c \in live THEN v.crit[c] ELSE EmptyCrit
      /\ Live(u) = live
  BY <1>1, <1>2, <1>3, TidyIs
<1>5. live \subseteq Node /\ Top \notin live
  BY <1>0, ReachedFacts, Nodes
<1>6. ASSUME NEW g \in Group \ ({Top} \cup live)
      PROVE  u.kids[g] = <<>> /\ Kids(u, g) = {} /\ u.logic[g] = DefaultLogic
  BY <1>4, <1>6
<1>7. ASSUME NEW g \in {Top} \cup (live \cap Sub)
      PROVE  /\ Kids(u, g) = Kids(t, g) /\ u.logic[g] = t.logic[g]
             /\ DOMAIN u.kids[g] = DOMAIN t.kids[g] /\ Len(u.kids[g]) = Len(t.kids[g])
             /\ \A i \in DOMAIN t.kids[g] : /\ u.kids[g][i].node = t.kids[g][i].node /\ u.kids[g][i].index = i - 1
                                            /\ u.index[t.kids[g][i].node] = i - 1
  <2>1. g \in Group /\ g \in live \cup {Top}
    BY Nodes
  <2>2. u.kids[g] = v.kids[g] /\ Kids(u, g) = Kids(v, g) /\ u.logic[g] = v.logic[g]
    BY <1>4, <2>1
  <2>3. Kids(t, g) \subseteq live /\ Kids(t, g) \subseteq Node
    BY <1>0, <2>1, ReachedFacts, Entries
  <2>4. \A i \in DOMAIN t.kids[g] : u.index[t.kids[g][i].node] = v.index[t.kids[g][i].node]
    BY <1>4, <2>3, KidsAre
  <2> QED BY <1>1, <2>1, <2>2, <2>4
<1>8. \A n \in Node : u.depth[n] = IF n \in live THEN t.depth[n] ELSE 1
  BY <1>1, <1>4
<1>9. \A c \in Crit : u.crit[c] = IF c \in live THEN Rebuild(t.crit[c]) ELSE EmptyCrit
  BY <1>1, <1>4
<1> QED BY <1>4, <1>5, <1>6, <1>7, <1>8, <1>9

(* --------------------------- before a redraw ----------------------------- *)

\* A tree that a handler leaves to dtsb-redrawContents: L holds the nodes that
\* are still below the top group, and none of its groups is empty.
Ready(t, L) ==
  /\ Sound(t) /\ Limited(t)
  /\ Top \in L /\ \A g \in L \cap Group : Kids(t, g) \subseteq L
  /\ \A g \in L \cap Sub : t.kids[g] # <<>>
  /\ \A g \in L \cap Group : \A c \in Kids(t, g) \cap Crit :
       Len(t.kids[g]) > 1 /\ (DepthLimit = 0 \/ t.depth[c] < DepthLimit) => t.crit[c].right

LEMMA RebuiltCrit ==
  ASSUME NEW c \in CritRecord
  PROVE  LET r == Rebuild(c) IN r.right = c.right /\ r.data = c.data /\ r.cond = c.cond /\ r.value = c.value
BY DEF Rebuild, CritRecord

LEMMA RebuiltInv ==
  ASSUME NEW t, NEW L, Ready(t, L)
  PROVE  TreeInv(Rebuilt(t))
<1> DEFINE u == Rebuilt(t)
           live == Reached(t)
<1>0. Sound(t) /\ t \in Tree /\ Layered(t) /\ Apart(t) /\ Nested(t) /\ Limited(t) /\ \A g \in Group : Single(t, g)
  BY SoundIsLayered DEF Ready, Sound
<1>1. /\ u \in Tree /\ Live(u) = live /\ live \subseteq Node /\ Top \notin live
      /\ \A g \in Group \ ({Top} \cup live) : u.kids[g] = <<>> /\ Kids(u, g) = {} /\ u.logic[g] = DefaultLogic
      /\ \A g \in {Top} \cup (live \cap Sub) :
           /\ Kids(u, g) = Kids(t, g) /\ u.logic[g] = t.logic[g]
           /\ DOMAIN u.kids[g] = DOMAIN t.kids[g] /\ Len(u.kids[g]) = Len(t.kids[g])
           /\ \A i \in DOMAIN t.kids[g] : /\ u.kids[g][i].node = t.kids[g][i].node /\ u.kids[g][i].index = i - 1
                                          /\ u.index[t.kids[g][i].node] = i - 1
      /\ \A n \in Node : u.depth[n] = IF n \in live THEN t.depth[n] ELSE 1
      /\ \A c \in Crit : u.crit[c] = IF c \in live THEN Rebuild(t.crit[c]) ELSE EmptyCrit
  BY <1>0, RebuiltIs
<1>2. /\ live \subseteq L \ {Top} /\ live \subseteq Live(t)
      /\ \A g \in {Top} \cup (live \cap Sub) : Kids(t, g) \subseteq live
  <2>1. live \subseteq L
    BY <1>0, ReachedFacts DEF Ready
  <2> QED BY <1>0, <1>1, <2>1, ReachedFacts
<1> HIDE DEF u, live
<1>g. \A g \in Group : g \in {Top} \cup (live \cap Sub) \/ g \in Group \ ({Top} \cup live)
  BY Nodes
<1>3. \A g \in Group : Single(u, g)
  <2> TAKE g \in Group
  <2>1. CASE g \in {Top} \cup (live \cap Sub)
    <3>1. /\ DOMAIN u.kids[g] = DOMAIN t.kids[g] /\ \A i \in DOMAIN t.kids[g] : u.kids[g][i].node = t.kids[g][i].node
      BY <1>1, <2>1
    <3> QED BY <1>0, <3>1 DEF Single
  <2>2. CASE g \in Group \ ({Top} \cup live)
    <3>1. DOMAIN u.kids[g] = {}
      BY <1>1, <2>2
    <3> QED BY <3>1 DEF Single
  <2> QED BY <1>g, <2>1, <2>2
<1>4. Apart(u)
  <2>1. \A g \in Group : Kids(u, g) \subseteq Kids(t, g)
    BY <1>1, <1>g
  <2> QED BY <1>0, <2>1 DEF Apart
<1>5. Nested(u)
  <2> SUFFICES ASSUME NEW g \in Group, NEW n \in Kids(u, g)
               PROVE  u.depth[n] = DepthOf(u, g) + (IF n \in Sub THEN 1 ELSE 0)
    BY DEF Nested
  <2>1. g \in {Top} \cup (live \cap Sub) /\ n \in Kids(t, g)
    BY <1>1, <1>g
  <2>2. n \in live /\ n \in Node
    BY <1>1, <1>2, <2>1
  <2>3. DepthOf(u, g) = DepthOf(t, g)
    BY <1>1, <2>1, Nodes DEF DepthOf
  <2>4. t.depth[n] = DepthOf(t, g) + (IF n \in Sub THEN 1 ELSE 0)
    BY <1>0, <2>1 DEF Nested
  <2> QED BY <1>1, <2>2, <2>3, <2>4
<1>6. Placed(u)
  <2> SUFFICES ASSUME NEW g \in Group, NEW i \in DOMAIN u.kids[g]
               PROVE  u.kids[g][i].index = i - 1 /\ u.index[u.kids[g][i].node] = i - 1
    BY DEF Placed
  <2>1. CASE g \in {Top} \cup (live \cap Sub)
    BY <1>1, <2>1
  <2>2. CASE g \in Group \ ({Top} \cup live)
    BY <1>1, <2>2
  <2> QED BY <1>g, <2>1, <2>2
<1>7. Kept(u)
  <2>1. ASSUME NEW g \in Sub PROVE u.kids[g] # <<>> <=> g \in Live(u)
    <3>1. CASE g \in live
      <4>1. t.kids[g] # <<>>
        BY <1>2, <3>1, Nodes DEF Ready
      <4>2. Kids(t, g) # {} /\ g \in Group
        BY <1>0, <4>1, EmptyKids, Nodes
      <4>3. Kids(u, g) # {}
        BY <1>1, <3>1, <4>2
      <4>4. u.kids[g] # <<>>
        BY <1>1, <4>2, <4>3, EmptyKids
      <4> QED BY <1>1, <3>1, <4>4
    <3>2. CASE g \notin live
      BY <1>1, <3>2, Nodes
    <3> QED BY <3>1, <3>2
  <2>2. /\ \A n \in Node \ Live(u) : u.depth[n] = 1
        /\ \A g \in Sub \ Live(u) : u.logic[g] = DefaultLogic
        /\ \A c \in Crit \ Live(u) : u.crit[c] = EmptyCrit
    BY <1>1, Nodes
  <2> QED BY <2>1, <2>2 DEF Kept
<1>8. \A c \in live \cap Crit : u.crit[c].right = t.crit[c].right /\ u.depth[c] = t.depth[c]
  <2> TAKE c \in live \cap Crit
  <2>1. t.crit[c] \in CritRecord
    BY <1>0, TreeFields
  <2> QED BY <1>1, <2>1, RebuiltCrit, Nodes
<1>9. Limited(u)
  <2>1. \A n \in live : u.depth[n] = t.depth[n] /\ n \in Live(t)
    BY <1>1, <1>2
  <2> QED BY <1>0, <1>1, <1>8, <2>1 DEF Limited
<1>10. Arrows(u)
  <2> SUFFICES ASSUME NEW g \in Group, NEW c \in Kids(u, g) \cap Crit,
                      Len(u.kids[g]) > 1 /\ (DepthLimit = 0 \/ u.depth[c] < DepthLimit)
               PROVE  u.crit[c].right
    BY DEF Arrows
  <2>1. g \in {Top} \cup (live \cap Sub) /\ c \in Kids(t, g) \cap Crit
    BY <1>1, <1>g
  <2>2. c \in live \cap Crit /\ g \in L \cap Group
    BY <1>2, <2>1, Nodes DEF Ready
  <2>3. Len(t.kids[g]) > 1 /\ (DepthLimit = 0 \/ t.depth[c] < DepthLimit)
    BY <1>1, <1>8, <2>1, <2>2
  <2>4. t.crit[c].right
    BY <2>1, <2>2, <2>3 DEF Ready
  <2> QED BY <1>8, <2>2, <2>4
<1>11. u \in Tree
  BY <1>1
<1>12. Sound(u)
  BY <1>3, <1>4, <1>5, <1>11 DEF Sound
<1> QED BY <1>6, <1>7, <1>9, <1>10, <1>12 DEF TreeInv, u

(* -------------------------------- Pruned --------------------------------- *)

\* The places of a group that redrawContents keeps.
Keeps(t, g) == {i \in DOMAIN t.kids[g] : t.kids[g][i].node \in Crit \/ t.kids[t.kids[g][i].node] # <<>>}

LEMMA PrunedIs ==
  ASSUME NEW t \in Tree, \A g \in Group : Single(t, g), NEW u, u = Pruned(t)
  PROVE  /\ u \in Tree /\ u.index = t.index /\ u.depth = t.depth /\ u.logic = t.logic /\ u.crit = t.crit
         /\ \A g \in Group : /\ u.kids[g] = SortByIndex(t, t.kids[g], Keeps(t, g))
                             /\ Kids(u, g) = {n \in Kids(t, g) : n \in Crit \/ t.kids[n] # <<>>}
                             /\ Len(u.kids[g]) = Cardinality(Keeps(t, g))
                             /\ Single(u, g)
<1> DEFINE keep(e) == e.node \in Crit \/ t.kids[e.node] # <<>>
<1>1. /\ u.kids = [g \in Group |-> SortByIndex(t, t.kids[g], {i \in DOMAIN t.kids[g] : keep(t.kids[g][i])})]
      /\ u.index = t.index /\ u.depth = t.depth /\ u.logic = t.logic /\ u.crit = t.crit
      /\ u = [kids |-> u.kids, index |-> u.index, depth |-> u.depth, logic |-> u.logic, crit |-> u.crit]
  <2> HIDE DEF keep
  <2>1. u = [t EXCEPT !.kids = [g \in Group |-> SortByIndex(t, t.kids[g], {i \in DOMAIN t.kids[g] : keep(t.kids[g][i])})]]
    BY Zenon DEF Pruned, keep
  <2> QED BY <2>1, TreeFields
<1>2. ASSUME NEW g \in Group
      PROVE  /\ u.kids[g] = SortByIndex(t, t.kids[g], Keeps(t, g))
             /\ u.kids[g] \in Seq(Entry)
             /\ Kids(u, g) = {n \in Kids(t, g) : n \in Crit \/ t.kids[n] # <<>>}
             /\ Len(u.kids[g]) = Cardinality(Keeps(t, g))
             /\ Single(u, g)
  <2>1. u.kids[g] = SortByIndex(t, t.kids[g], Keeps(t, g))
    BY <1>1 DEF Keeps
  <2>2. t.kids[g] \in Seq(Entry) /\ Keeps(t, g) \in SUBSET DOMAIN t.kids[g]
    BY TreeFields DEF Keeps
  <2>3. Arranged(u.kids[g], t.kids[g], Keeps(t, g))
    BY <2>1, <2>2, SortArranges
  <2>4. \A i, j \in DOMAIN t.kids[g] : t.kids[g][i].node = t.kids[g][j].node => i = j
    BY DEF Single
  <2>5. /\ {u.kids[g][i].node : i \in DOMAIN u.kids[g]} = {t.kids[g][i].node : i \in Keeps(t, g)}
        /\ \A i, j \in DOMAIN u.kids[g] : u.kids[g][i].node = u.kids[g][j].node => i = j
    <3> DEFINE s == t.kids[g]
               kept == Keeps(t, g)
               w == u.kids[g]
    <3>1. s \in Seq(Entry) /\ kept \in SUBSET DOMAIN s /\ Arranged(w, s, kept)
      BY <2>2, <2>3
    <3>2. \A i, j \in DOMAIN s : s[i].node = s[j].node => i = j
      BY <2>4
    <3> HIDE DEF s, kept, w
    <3>3. /\ {w[i].node : i \in DOMAIN w} = {s[i].node : i \in kept}
          /\ \A i, j \in DOMAIN w : w[i].node = w[j].node => i = j
      BY <3>1, <3>2, ArrangedNodes, ZenonT(60)
    <3> QED BY <3>3 DEF s, kept, w
  <2>6. Kids(u, g) = {n \in Kids(t, g) : n \in Crit \/ t.kids[n] # <<>>}
    BY <2>5 DEF Kids, Keeps
  <2>7. u.kids[g] \in Seq(Entry) /\ Len(u.kids[g]) = Cardinality(Keeps(t, g))
    BY <2>3 DEF Arranged
  <2> QED BY <2>1, <2>5, <2>6, <2>7 DEF Single
<1>3. u.kids \in [Group -> Seq(Entry)]
  BY <1>1, <1>2
<1>4. u \in Tree
  BY <1>1, <1>3, TreeFields DEF Tree
<1> QED BY <1>1, <1>2, <1>4

LEMMA PrunedReady ==
  ASSUME NEW t, NEW L, Ready(t, L), NEW u, u = Pruned(t)
  PROVE  /\ Ready(u, L)
         /\ \A g \in L \cap Group : Kids(u, g) = Kids(t, g) /\ Len(u.kids[g]) = Len(t.kids[g])
         /\ \A g \in L \cap Group : u.kids[g] = SortByIndex(t, t.kids[g], DOMAIN t.kids[g])
<1>0. t \in Tree /\ Apart(t) /\ Nested(t) /\ Limited(t) /\ \A g \in Group : Single(t, g)
  BY DEF Ready, Sound
<1>1. /\ u \in Tree /\ u.index = t.index /\ u.depth = t.depth /\ u.logic = t.logic /\ u.crit = t.crit
      /\ \A g \in Group : /\ u.kids[g] = SortByIndex(t, t.kids[g], Keeps(t, g))
                          /\ Kids(u, g) = {n \in Kids(t, g) : n \in Crit \/ t.kids[n] # <<>>}
                          /\ Len(u.kids[g]) = Cardinality(Keeps(t, g))
                          /\ Single(u, g)
  BY <1>0, PrunedIs
<1>2. /\ Top \in L
      /\ \A g \in L \cap Group : Kids(t, g) \subseteq L
      /\ \A g \in L \cap Sub : t.kids[g] # <<>>
      /\ \A g \in L \cap Group : \A c \in Kids(t, g) \cap Crit :
           Len(t.kids[g]) > 1 /\ (DepthLimit = 0 \/ t.depth[c] < DepthLimit) => t.crit[c].right
  BY DEF Ready
<1>3. ASSUME NEW g \in L \cap Group
      PROVE  /\ Kids(u, g) = Kids(t, g) /\ Len(u.kids[g]) = Len(t.kids[g])
             /\ u.kids[g] = SortByIndex(t, t.kids[g], DOMAIN t.kids[g])
  <2>1. \A n \in Kids(t, g) : n \in Crit \/ t.kids[n] # <<>>
    <3> TAKE n \in Kids(t, g)
    <3>1. n \in L /\ n \in Node
      BY <1>0, <1>2, Entries
    <3> QED BY <1>2, <3>1, Nodes
  <2>2. Keeps(t, g) = DOMAIN t.kids[g]
    BY <2>1, KidsAre DEF Keeps
  <2>3. DOMAIN t.kids[g] = 1..Len(t.kids[g]) /\ Len(t.kids[g]) \in Nat
    BY <1>0, Entries
  <2>4. Cardinality(DOMAIN t.kids[g]) = Len(t.kids[g])
    BY <2>3, FS_Interval
  <2> QED BY <1>1, <2>1, <2>2, <2>4
<1>4. Apart(u) /\ Nested(u)
  <2>1. \A g \in Group : Kids(u, g) \subseteq Kids(t, g) /\ DepthOf(u, g) = DepthOf(t, g)
    BY <1>1 DEF DepthOf
  <2>2. Apart(u)
    BY <1>0, <2>1 DEF Apart
  <2>3. Nested(u)
    BY <1>0, <1>1, <2>1 DEF Nested
  <2> QED BY <2>2, <2>3
<1>5. Sound(u)
  BY <1>1, <1>4 DEF Sound
<1>6. Limited(u)
  <2>1. Live(u) \subseteq Live(t)
    BY <1>1, LiveAre
  <2> QED BY <1>0, <1>1, <2>1 DEF Limited
<1>7. \A g \in L \cap Sub : u.kids[g] # <<>>
  <2> TAKE g \in L \cap Sub
  <2>1. g \in L \cap Group
    BY Nodes
  <2>2. Kids(u, g) = Kids(t, g) /\ t.kids[g] # <<>>
    BY <1>2, <1>3, <2>1
  <2> QED BY <1>0, <1>1, <2>1, <2>2, EmptyKids
<1>8. \A g \in L \cap Group : Kids(u, g) \subseteq L
  BY <1>2, <1>3
<1>9. \A g \in L \cap Group : \A c \in Kids(u, g) \cap Crit :
        Len(u.kids[g]) > 1 /\ (DepthLimit = 0 \/ u.depth[c] < DepthLimit) => u.crit[c].right
  BY <1>1, <1>2, <1>3
<1>10. Ready(u, L)
  BY <1>2, <1>5, <1>6, <1>7, <1>8, <1>9 DEF Ready
<1> QED BY <1>3, <1>10

LEMMA RedrawnInv ==
  ASSUME NEW t, NEW L, Ready(t, L)
  PROVE  TreeInv(Rebuilt(Pruned(t)))
BY PrunedReady, RebuiltInv

(* ------------------------------- removal --------------------------------- *)

LEMMA SameKids ==
  ASSUME NEW t, NEW u, t.kids = u.kids
  PROVE  /\ \A g : Kids(t, g) = Kids(u, g)
         /\ Live(t) = Live(u)
         /\ \A n : Parent(t, n) = Parent(u, n)
<1>1. \A g : Kids(t, g) = Kids(u, g)
  BY DEF Kids
<1>2. Live(t) = Live(u)
  BY <1>1 DEF Live
<1>3. \A n : Parent(t, n) = Parent(u, n)
  <2> DEFINE home(kids, n) == CHOOSE g \in Group : n \in {kids[g][i].node : i \in DOMAIN kids[g]}
  <2>1. ASSUME NEW x, NEW n PROVE Parent(x, n) = IF n \in Live(x) THEN home(x.kids, n) ELSE Top
    BY Zenon DEF Parent, Kids
  <2> HIDE DEF home
  <2> QED BY <1>2, <2>1
<1> QED BY <1>1, <1>2, <1>3

LEMMA ParentOf ==
  ASSUME NEW t, NEW n
  PROVE  /\ n \in Live(t) => Parent(t, n) \in Group /\ n \in Kids(t, Parent(t, n))
         /\ n \notin Live(t) => Parent(t, n) = Top
<1>1. ASSUME n \in Live(t) PROVE Parent(t, n) \in Group /\ n \in Kids(t, Parent(t, n))
  <2>1. \E g \in Group : n \in Kids(t, g)
    BY <1>1, LiveAre
  <2>2. Parent(t, n) = CHOOSE g \in Group : n \in Kids(t, g)
    BY <1>1 DEF Parent
  <2> QED BY <2>1, <2>2
<1> QED BY <1>1 DEF Parent

\* The place of one entry, the one that is found by the index of its node.
Found(t, g, n, j) ==
  /\ j \in DOMAIN t.kids[g] /\ t.kids[g][j].node = n
  /\ \A i \in DOMAIN t.kids[g] :
       t.kids[g][i].index = t.index[n] /\ (n \in Sub => t.kids[g][i].node \in Sub) <=> i = j

\* A tree that lost some entries.
Shrunk(t, u) ==
  /\ u \in Tree /\ u.depth = t.depth /\ u.logic = t.logic /\ u.crit = t.crit
  /\ \A g \in Group : /\ Kids(u, g) \subseteq Kids(t, g) /\ Len(u.kids[g]) <= Len(t.kids[g])
                      /\ Single(t, g) => Single(u, g)

LEMMA RenumberIs ==
  ASSUME NEW t \in Tree, NEW g \in Group, NEW s \in Seq(Entry), NEW u, u = Renumber(t, g, s)
  PROVE  /\ u \in Tree /\ u.depth = t.depth /\ u.logic = t.logic /\ u.crit = t.crit
         /\ \A h \in Group \ {g} : u.kids[h] = t.kids[h]
         /\ DOMAIN u.kids[g] = DOMAIN s /\ Len(u.kids[g]) = Len(s)
         /\ \A i \in DOMAIN s : u.kids[g][i].node = s[i].node /\ u.kids[g][i].index = i - 1
<1> DEFINE at(n) == CHOOSE i \in DOMAIN s : s[i].node = n
           r == [i \in DOMAIN s |-> [s[i] EXCEPT !.index = i - 1]]
           idx == [n \in Node |-> IF \E i \in DOMAIN s : s[i].node = n THEN at(n) - 1 ELSE t.index[n]]
<1>1. /\ u.kids = [t.kids EXCEPT ![g] = r] /\ u.index = idx
      /\ u.depth = t.depth /\ u.logic = t.logic /\ u.crit = t.crit
      /\ u = [kids |-> u.kids, index |-> u.index, depth |-> u.depth, logic |-> u.logic, crit |-> u.crit]
  <2>1. u = [t EXCEPT !.kids[g] = r, !.index = idx]
    BY Zenon DEF Renumber
  <2> HIDE DEF r, idx
  <2> QED BY <2>1, TreeFields
<1>2. DOMAIN s = 1..Len(s) /\ Len(s) \in Nat /\ \A i \in DOMAIN s : s[i] \in Entry
  OBVIOUS
<1>3. /\ r \in Seq(Entry) /\ DOMAIN r = DOMAIN s /\ Len(r) = Len(s)
      /\ \A i \in DOMAIN s : r[i].node = s[i].node /\ r[i].index = i - 1
  <2>1. ASSUME NEW e \in Entry, NEW i \in Nat \ {0}
        PROVE  [e EXCEPT !.index = i - 1] \in Entry /\ [e EXCEPT !.index = i - 1].node = e.node
               /\ [e EXCEPT !.index = i - 1].index = i - 1
    BY DEF Entry
  <2>2. \A i \in DOMAIN s : r[i] \in Entry /\ r[i].node = s[i].node /\ r[i].index = i - 1
    <3> TAKE i \in DOMAIN s
    <3>1. i \in Nat \ {0} /\ s[i] \in Entry
      BY <1>2
    <3> QED BY <2>1, <3>1
  <2>3. r \in [1..Len(s) -> Entry]
    BY <1>2, <2>2
  <2>4. ASSUME NEW n \in Nat, NEW x \in [1..n -> Entry] PROVE x \in Seq(Entry) /\ Len(x) = n
    OBVIOUS
  <2>5. r \in Seq(Entry) /\ Len(r) = Len(s)
    <3> HIDE DEF r
    <3> QED BY <1>2, <2>3, <2>4
  <2>6. DOMAIN r = DOMAIN s
    OBVIOUS
  <2> QED BY <2>2, <2>5, <2>6
<1>4. idx \in [Node -> Nat]
  <2>1. ASSUME NEW n, \E i \in DOMAIN s : s[i].node = n PROVE at(n) - 1 \in Nat
    <3>1. at(n) \in DOMAIN s
      BY <2>1
    <3> HIDE DEF at
    <3> QED BY <1>2, <3>1
  <2> HIDE DEF at
  <2> QED BY <2>1, TreeFields
<1> HIDE DEF r, idx
<1>5. u.kids \in [Group -> Seq(Entry)] /\ u.kids[g] = r /\ \A h \in Group \ {g} : u.kids[h] = t.kids[h]
  BY <1>1, <1>3, TreeFields
<1>6. u \in Tree
  BY <1>1, <1>4, <1>5, TreeFields DEF Tree
<1> QED BY <1>1, <1>3, <1>5, <1>6

\* An entry that is found by its index goes, and nothing else.
LEMMA SpliceIs ==
  ASSUME NEW t \in Tree, NEW g \in Group, Single(t, g), NEW n, NEW j, Found(t, g, n, j), NEW u, u = Splice(t, g, n)
  PROVE  /\ Shrunk(t, u)
         /\ \A h \in Group \ {g} : u.kids[h] = t.kids[h]
         /\ Kids(u, g) = Kids(t, g) \ {n}
         /\ Len(u.kids[g]) = Len(t.kids[g]) - 1
<1> DEFINE s == t.kids[g]
           hits == {i \in DOMAIN s : s[i].index = t.index[n] /\ (n \in Sub => s[i].node \in Sub)}
           rest == [i \in 1..(Len(s) - 1) |-> IF i < j THEN s[i] ELSE s[i + 1]]
<1>1. /\ s \in Seq(Entry) /\ DOMAIN s = 1..Len(s) /\ Len(s) \in Nat
      /\ \A i \in DOMAIN s : s[i] \in Entry
  BY Entries
<1>2. j \in DOMAIN s /\ s[j].node = n /\ hits = {j}
  BY DEF Found
<1>3. Max(hits) = j
  <2>1. hits \in SUBSET (1..Len(s)) /\ hits # {}
    BY <1>1, <1>2
  <2>2. Max(hits) \in hits
    <3> HIDE DEF hits
    <3> QED BY <1>1, <2>1, MaxIsLargest
  <2> HIDE DEF hits
  <2> QED BY <1>2, <2>2
<1>4. u = Renumber(t, g, rest)
  <2> DEFINE cut(last) == [i \in 1..(Len(s) - 1) |-> IF i < last THEN s[i] ELSE s[i + 1]]
  <2>1. u = Renumber(t, g, IF hits = {} THEN s ELSE cut(Max(hits)))
    BY Zenon DEF Splice
  <2>2. rest = cut(j)
    BY Zenon
  <2> HIDE DEF hits, rest, cut
  <2> QED BY <1>2, <1>3, <2>1, <2>2
<1>5. Len(s) >= 1 /\ j \in 1..Len(s) /\ Len(s) - 1 \in Nat
  BY <1>1, <1>2
<1>6. rest \in Seq(Entry) /\ Len(rest) = Len(s) - 1 /\ DOMAIN rest = 1..(Len(s) - 1)
  <2>1. \A i \in 1..(Len(s) - 1) : rest[i] \in Entry
    <3> TAKE i \in 1..(Len(s) - 1)
    <3>1. i \in DOMAIN s /\ i + 1 \in DOMAIN s
      BY <1>1, <1>5
    <3> HIDE DEF s
    <3> QED BY <1>1, <3>1
  <2>2. rest \in [1..(Len(s) - 1) -> Entry]
    <3> HIDE DEF s
    <3> QED BY <2>1
  <2>3. ASSUME NEW m \in Nat, NEW x \in [1..m -> Entry] PROVE x \in Seq(Entry) /\ Len(x) = m /\ DOMAIN x = 1..m
    OBVIOUS
  <2> HIDE DEF rest, s
  <2> QED BY <1>5, <2>2, <2>3
<1>7. \A i \in DOMAIN rest : rest[i] = (IF i < j THEN s[i] ELSE s[i + 1]) /\ i \in Nat
  <2> HIDE DEF s
  <2> QED BY <1>5, <1>6
<1> HIDE DEF rest
<1>8. /\ u \in Tree /\ u.depth = t.depth /\ u.logic = t.logic /\ u.crit = t.crit
      /\ \A h \in Group \ {g} : u.kids[h] = t.kids[h]
      /\ DOMAIN u.kids[g] = DOMAIN rest /\ Len(u.kids[g]) = Len(rest)
      /\ \A i \in DOMAIN rest : u.kids[g][i].node = rest[i].node
  <2> HIDE DEF s, hits
  <2>1. rest \in Seq(Entry)
    BY <1>6
  <2>2. u = Renumber(t, g, rest)
    BY <1>4
  <2> QED BY <2>1, <2>2, RenumberIs
<1>9. \A a, b \in DOMAIN s : s[a].node = s[b].node => a = b
  BY DEF Single
<1> HIDE DEF s, hits
<1>10. ASSUME NEW i \in DOMAIN rest
       PROVE  \E a \in DOMAIN s : a # j /\ rest[i] = s[a] /\ a = IF i < j THEN i ELSE i + 1
  <2>1. CASE i < j
    <3>1. i \in DOMAIN s /\ i # j /\ rest[i] = s[i]
      BY <1>1, <1>5, <1>6, <1>7, <2>1
    <3> QED BY <2>1, <3>1
  <2>2. CASE ~(i < j)
    <3>1. i + 1 \in DOMAIN s /\ i + 1 # j /\ rest[i] = s[i + 1]
      BY <1>1, <1>5, <1>6, <1>7, <2>2
    <3> QED BY <2>2, <3>1
  <2> QED BY <2>1, <2>2
<1>11. ASSUME NEW a \in DOMAIN s, a # j PROVE \E i \in DOMAIN rest : rest[i] = s[a]
  <2>1. CASE a < j
    <3>1. a \in DOMAIN rest
      BY <1>1, <1>5, <1>6, <2>1
    <3> QED BY <1>7, <2>1, <3>1
  <2>2. CASE ~(a < j)
    <3>1. a - 1 \in DOMAIN rest /\ ~(a - 1 < j) /\ (a - 1) + 1 = a
      BY <1>1, <1>5, <1>6, <1>11, <2>2
    <3> QED BY <1>7, <3>1
  <2> QED BY <2>1, <2>2
<1>12. Kids(u, g) = Kids(t, g) \ {n}
  <2>1. Kids(t, g) = {s[i].node : i \in DOMAIN s}
    BY DEF Kids, s
  <2>2. Kids(u, g) = {rest[i].node : i \in DOMAIN rest}
    BY <1>8 DEF Kids
  <2>3. ASSUME NEW x \in Kids(u, g) PROVE x \in Kids(t, g) /\ x # n
    <3>1. PICK i \in DOMAIN rest : x = rest[i].node
      BY <2>2, <2>3
    <3>2. PICK a \in DOMAIN s : a # j /\ rest[i] = s[a]
      BY <1>10
    <3> QED BY <1>2, <1>9, <2>1, <3>1, <3>2
  <2>4. ASSUME NEW x \in Kids(t, g), x # n PROVE x \in Kids(u, g)
    <3>1. PICK a \in DOMAIN s : x = s[a].node
      BY <2>1, <2>4
    <3>2. a # j
      BY <1>2, <2>4, <3>1
    <3>3. PICK i \in DOMAIN rest : rest[i] = s[a]
      BY <1>11, <3>2
    <3> QED BY <2>2, <3>1, <3>3
  <2> QED BY <2>3, <2>4
<1>13. Single(u, g)
  <2> SUFFICES ASSUME NEW p \in DOMAIN rest, NEW q \in DOMAIN rest, rest[p].node = rest[q].node PROVE p = q
    BY <1>8 DEF Single
  <2>1. PICK a \in DOMAIN s : a # j /\ rest[p] = s[a] /\ a = IF p < j THEN p ELSE p + 1
    BY <1>10
  <2>2. PICK b \in DOMAIN s : b # j /\ rest[q] = s[b] /\ b = IF q < j THEN q ELSE q + 1
    BY <1>10
  <2>3. a = b
    BY <1>9, <2>1, <2>2
  <2>4. p \in Nat /\ q \in Nat /\ j \in Nat
    BY <1>5, <1>7
  <2> QED BY <2>1, <2>2, <2>3, <2>4
<1>14. Len(u.kids[g]) = Len(t.kids[g]) - 1
  BY <1>6, <1>8 DEF s
<1>15. Shrunk(t, u)
  <2>1. ASSUME NEW h \in Group
        PROVE  /\ Kids(u, h) \subseteq Kids(t, h) /\ Len(u.kids[h]) <= Len(t.kids[h])
               /\ Single(t, h) => Single(u, h)
    <3>1. CASE h = g
      <4>1. Len(t.kids[g]) \in Nat
        BY Entries
      <4> QED BY <1>12, <1>13, <1>14, <3>1, <4>1
    <3>2. CASE h # g
      <4>1. u.kids[h] = t.kids[h] /\ Len(t.kids[h]) \in Nat
        BY <1>8, <3>2, Entries
      <4> QED BY <4>1 DEF Kids, Single
    <3> QED BY <3>1, <3>2
  <2> QED BY <1>8, <2>1 DEF Shrunk
<1> QED BY <1>8, <1>12, <1>14, <1>15

(* ------------------------------- Destroy --------------------------------- *)

\* The group that goes with a group: the last on the way up whose parent stays.
IsClimb(t, climb) ==
  \A h \in Sub : /\ climb[h] \in Sub
                 /\ climb[h] = LET p == Parent(t, h) IN IF p # Top /\ Len(t.kids[p]) <= 1 THEN climb[p] ELSE h

LEMMA ParentRank ==
  ASSUME NEW t \in Tree, Layered(t), NEW h \in Sub, Parent(t, h) # Top
  PROVE  Parent(t, h) \in Sub /\ t.depth[Parent(t, h)] < t.depth[h]
<1>1. Parent(t, h) \in Group /\ h \in Kids(t, Parent(t, h))
  BY ParentOf
<1>2. Parent(t, h) \in Sub /\ DepthOf(t, Parent(t, h)) = t.depth[Parent(t, h)]
  BY <1>1, Nodes DEF DepthOf
<1>3. t.depth[h] > DepthOf(t, Parent(t, h))
  BY <1>1 DEF Layered
<1>4. t.depth[h] \in Nat /\ t.depth[Parent(t, h)] \in Nat
  BY <1>2, TreeFields, Nodes
<1> QED BY <1>2, <1>3, <1>4

LEMMA ClimbIs ==
  ASSUME NEW t \in Tree, Layered(t), NEW g \in Sub
  PROVE  \E climb : /\ IsClimb(t, climb)
                    /\ Destroy(t, g) = [Splice(t, Parent(t, climb[g]), climb[g]) EXCEPT !.kids[g] = <<>>]
<1> DEFINE Up(h) == Parent(t, h) # Top /\ Len(t.kids[Parent(t, h)]) <= 1
           Step(f, h) == LET p == Parent(t, h) IN IF p # Top /\ Len(t.kids[p]) <= 1 THEN f[p] ELSE h
           B == CHOOSE climb : climb = [h \in Sub |-> Step(climb, h)]
           E == [x \in [Sub -> Sub] \X Sub |-> Step(x[1], x[2])]
           rank == [h \in Sub |-> t.depth[h]]
<1>0. \A f, h : Step(f, h) = IF Up(h) THEN f[Parent(t, h)] ELSE h
  BY Zenon
<1>1. PICK M \in Nat : \A n \in Node : t.depth[n] <= M
  BY Bounded, TreeFields, Nodes
<1>2. rank \in [Sub -> 0..M] /\ rank \in [Sub -> Nat]
  <2>1. \A h \in Sub : t.depth[h] \in Nat /\ t.depth[h] <= M
    BY <1>1, TreeFields, Nodes
  <2> QED BY <2>1
<1>3. \A h \in Sub : Up(h) => Parent(t, h) \in Sub /\ rank[Parent(t, h)] < rank[h]
  BY ParentRank
<1> HIDE DEF Up, Step, rank
<1>4. ASSUME NEW f \in [Sub -> Sub], NEW h \in Sub PROVE E[<<f, h>>] = Step(f, h) /\ Step(f, h) \in Sub
  <2>1. E[<<f, h>>] = Step(f, h)
    BY Zenon
  <2> QED BY <1>0, <1>3, <2>1
<1>5. E \in [[Sub -> Sub] \X Sub -> Sub]
  <2>1. \A x \in [Sub -> Sub] \X Sub : E[x] \in Sub
    <3> TAKE x \in [Sub -> Sub] \X Sub
    <3>1. PICK f \in [Sub -> Sub], h \in Sub : x = <<f, h>>
      OBVIOUS
    <3> HIDE DEF E
    <3> QED BY <1>4, <3>1
  <2> QED BY <2>1
<1>6. Descends(Sub, Sub, E, rank)
  <2> SUFFICES ASSUME NEW f \in [Sub -> Sub], NEW k \in [Sub -> Sub], NEW h \in Sub,
                      \A i \in Sub : rank[i] < rank[h] => f[i] = k[i]
               PROVE  E[<<f, h>>] = E[<<k, h>>]
    BY Zenon DEF Descends
  <2>1. Step(f, h) = Step(k, h)
    BY <1>0, <1>3
  <2> HIDE DEF E
  <2> QED BY <1>4, <2>1
<1> HIDE DEF E
<1>7. PICK f : IsDefinedBy(f, Sub, Sub, E)
  <2>1. IsStep(Sub, Sub, E, M, rank)
    BY <1>2, <1>5, <1>6 DEF IsStep
  <2> QED BY <2>1, RecursionExists, Zenon
<1>8. f \in [Sub -> Sub] /\ \A h \in Sub : f[h] = Step(f, h)
  <2>1. f \in [Sub -> Sub] /\ \A h \in Sub : f[h] = E[<<f, h>>]
    BY <1>7, Zenon DEF IsDefinedBy
  <2> QED BY <1>4, <2>1
<1>9. f = [h \in Sub |-> Step(f, h)]
  BY <1>8
<1>10. B = [h \in Sub |-> Step(B, h)]
  BY <1>9
<1>11. Destroy(t, g) = [Splice(t, Parent(t, B[g]), B[g]) EXCEPT !.kids[g] = <<>>]
  BY Zenon DEF Destroy, Step
<1> HIDE DEF B
<1>12. \A h \in Sub : B[h] \in Sub
  <2> DEFINE S == {h \in Sub : B[h] \in Sub}
  <2>1. ASSUME NEW h \in Sub, \A i \in Sub : rank[i] < rank[h] => i \in S PROVE h \in S
    <3>1. Up(h) => B[Parent(t, h)] \in Sub
      BY <1>3, <2>1
    <3>2. B[h] = Step(B, h)
      BY <1>10
    <3> QED BY <1>0, <3>1, <3>2
  <2>2. Sub \subseteq S
    <3> HIDE DEF S
    <3> QED BY <1>2, <2>1, RankInduction
  <2> QED BY <2>2
<1>13. IsClimb(t, B)
  BY <1>10, <1>12, Zenon DEF IsClimb, Step
<1> QED BY <1>11, <1>13

\* A tree in which the groups that go can be found.
Rooted(t) ==
  /\ t \in Tree /\ Layered(t) /\ \A g \in Group : Single(t, g)
  /\ \A g \in Group : \A n \in Kids(t, g) \cap Sub :
       Parent(t, n) = g /\ (g \in Sub => g \in Live(t)) /\ \E j : Found(t, g, n, j)

\* The groups U go with the group g.
IsDestroyed(t, g, u, U) ==
  /\ Shrunk(t, u) /\ g \in U /\ u.kids[g] = <<>>
  /\ \A h \in Group \ U : /\ Kids(u, h) \cap U = {} /\ Kids(t, h) \ U \subseteq Kids(u, h)
                          /\ h # Top /\ t.kids[h] # <<>> => u.kids[h] # <<>>
  /\ Parent(t, g) = Top \/ Len(t.kids[Parent(t, g)]) > 1 =>
       \A h \in Group \ {g} : Kids(u, h) = Kids(t, h) \ {g}

LEMMA DestroyIs ==
  ASSUME NEW t, Rooted(t), NEW g \in Sub \cap Live(t), NEW u, u = Destroy(t, g)
  PROVE  \E U \in SUBSET Sub : IsDestroyed(t, g, u, U)
<1>0. t \in Tree /\ Layered(t) /\ \A h \in Group : Single(t, h)
  BY DEF Rooted
<1>1. PICK climb : /\ IsClimb(t, climb)
                   /\ u = [Splice(t, Parent(t, climb[g]), climb[g]) EXCEPT !.kids[g] = <<>>]
  BY <1>0, ClimbIs
<1> DEFINE k == climb[g]
           p == Parent(t, k)
           v == Splice(t, p, k)
           U == {h \in Sub : climb[h] = k}
           Up(h) == Parent(t, h) # Top /\ Len(t.kids[Parent(t, h)]) <= 1
<1>2. \A h \in Sub : climb[h] \in Sub /\ climb[h] = IF Up(h) THEN climb[Parent(t, h)] ELSE h
  BY <1>1 DEF IsClimb
<1>3. \A h \in Sub : Up(h) => Parent(t, h) \in Sub /\ t.depth[Parent(t, h)] < t.depth[h]
  BY <1>0, ParentRank
<1>4. \A h \in Sub : climb[climb[h]] = climb[h] /\ ~Up(climb[h]) /\ (h \in Live(t) => climb[h] \in Live(t))
  <2> DEFINE S == {h \in Sub : climb[climb[h]] = climb[h] /\ ~Up(climb[h]) /\ (h \in Live(t) => climb[h] \in Live(t))}
             rank == [h \in Sub |-> t.depth[h]]
  <2>1. rank \in [Sub -> Nat]
    BY <1>0, TreeFields, Nodes
  <2>2. ASSUME NEW h \in Sub, \A i \in Sub : rank[i] < rank[h] => i \in S PROVE h \in S
    <3>1. CASE Up(h)
      <4>1. Parent(t, h) \in Sub /\ Parent(t, h) \in S
        BY <1>3, <2>2, <3>1
      <4>2. h \in Live(t) => Parent(t, h) \in Live(t)
        <5>1. h \in Live(t) => h \in Kids(t, Parent(t, h)) /\ Parent(t, h) \in Group
          BY ParentOf
        <5> QED BY <4>1, <5>1 DEF Rooted
      <4>3. climb[h] = climb[Parent(t, h)]
        BY <1>2, <3>1
      <4> HIDE DEF Up
      <4> QED BY <4>1, <4>2, <4>3
    <3>2. CASE ~Up(h)
      <4>1. climb[h] = h
        BY <1>2, <3>2
      <4> HIDE DEF Up
      <4> QED BY <3>2, <4>1
    <3> QED BY <3>1, <3>2
  <2>3. Sub \subseteq S
    <3> HIDE DEF S, rank
    <3> QED BY <2>1, <2>2, RankInduction
  <2> HIDE DEF Up
  <2> QED BY <2>3
<1>5. k \in Sub \cap Live(t) /\ climb[k] = k /\ ~Up(k)
  BY <1>2, <1>4
<1>6. p \in Group /\ k \in Kids(t, p) /\ \E j : Found(t, p, k, j)
  <2>1. p \in Group /\ k \in Kids(t, p)
    BY <1>5, ParentOf
  <2> QED BY <1>5, <2>1 DEF Rooted
<1>7. /\ Shrunk(t, v)
      /\ \A h \in Group \ {p} : v.kids[h] = t.kids[h]
      /\ Kids(v, p) = Kids(t, p) \ {k} /\ Len(v.kids[p]) = Len(t.kids[p]) - 1
  <2>1. PICK j : Found(t, p, k, j)
    BY <1>6
  <2> HIDE DEF p, k
  <2> QED BY <1>0, <1>6, <2>1, SpliceIs
<1>8. v \in Tree /\ \A h \in Group \ {p} : Kids(v, h) = Kids(t, h)
  BY <1>7 DEF Shrunk, Kids
<1>u. u = [v EXCEPT !.kids[g] = <<>>]
  BY <1>1
<1> HIDE DEF v
<1>9. g \in Group
  BY Nodes
<1>10. /\ u.kids = [v.kids EXCEPT ![g] = <<>>] /\ u.index = v.index /\ u.depth = v.depth /\ u.logic = v.logic /\ u.crit = v.crit
       /\ u = [kids |-> u.kids, index |-> u.index, depth |-> u.depth, logic |-> u.logic, crit |-> u.crit]
  BY <1>8, <1>u, TreeFields
<1>11. u.kids[g] = <<>> /\ u.kids \in [Group -> Seq(Entry)] /\ \A h \in Group \ {g} : u.kids[h] = v.kids[h]
  <2>1. <<>> \in Seq(Entry)
    OBVIOUS
  <2> QED BY <1>8, <1>9, <1>10, <2>1, TreeFields
<1>12. u \in Tree
  BY <1>8, <1>10, <1>11, TreeFields DEF Tree
<1>13. /\ Kids(u, g) = {} /\ Len(u.kids[g]) = 0
       /\ \A h \in Group \ {g} : Kids(u, h) = Kids(v, h)
  BY <1>11 DEF Kids
<1>14. Shrunk(t, u)
  <2>1. ASSUME NEW h \in Group
        PROVE  /\ Kids(u, h) \subseteq Kids(t, h) /\ Len(u.kids[h]) <= Len(t.kids[h])
               /\ Single(t, h) => Single(u, h)
    <3>1. CASE h = g
      <4>1. Len(t.kids[g]) \in Nat
        BY <1>0, <1>9, Entries
      <4>2. DOMAIN u.kids[g] = {}
        BY <1>11
      <4> QED BY <1>13, <3>1, <4>1, <4>2 DEF Single
    <3>2. CASE h # g
      <4>1. u.kids[h] = v.kids[h] /\ Kids(u, h) = Kids(v, h)
        BY <1>11, <1>13, <3>2
      <4> QED BY <1>7, <4>1 DEF Shrunk, Single
    <3> QED BY <3>1, <3>2
  <2> QED BY <1>7, <1>10, <1>12, <2>1 DEF Shrunk
<1>15. g \in U /\ k \in U /\ U \in SUBSET Sub
  BY <1>5
<1>16. ASSUME NEW h \in Group \ U, NEW n \in Kids(t, h) \cap U PROVE h = p /\ n = k
  <2>1. Parent(t, n) = h /\ n \in Sub /\ climb[n] = k
    BY <1>16 DEF Rooted
  <2>2. ~Up(n)
    <3> SUFFICES ASSUME Up(n) PROVE FALSE
      OBVIOUS
    <3>1. climb[h] = k /\ h \in Sub
      BY <1>2, <1>3, <2>1
    <3> QED BY <3>1
  <2>3. n = k
    BY <1>2, <2>1, <2>2
  <2> QED BY <2>1, <2>3
<1>17. ASSUME NEW h \in Group \ U
       PROVE  /\ Kids(u, h) \cap U = {} /\ Kids(t, h) \ U \subseteq Kids(u, h)
              /\ h # Top /\ t.kids[h] # <<>> => u.kids[h] # <<>>
  <2>0. h # g
    BY <1>15
  <2>1. Kids(u, h) = Kids(v, h) /\ u.kids[h] = v.kids[h]
    BY <1>11, <1>13, <2>0
  <2>2. CASE h = p
    <3>1. Kids(u, h) = Kids(t, h) \ {k}
      BY <1>7, <2>1, <2>2
    <3>2. Kids(u, h) \cap U = {}
      BY <1>16, <3>1
    <3>3. ASSUME h # Top PROVE u.kids[h] # <<>>
      <4>1. ~(Len(t.kids[h]) <= 1) /\ Len(t.kids[h]) \in Nat
        BY <1>0, <1>5, <2>2, <3>3, Entries
      <4>2. Len(u.kids[h]) # 0
        BY <1>7, <2>1, <2>2, <4>1
      <4> QED BY <4>2
    <3> QED BY <1>15, <3>1, <3>2, <3>3
  <2>3. CASE h # p
    <3>1. Kids(u, h) = Kids(t, h) /\ u.kids[h] = t.kids[h]
      BY <1>7, <1>8, <2>1, <2>3
    <3> QED BY <1>16, <2>3, <3>1
  <2> QED BY <2>2, <2>3
<1>18. ASSUME Parent(t, g) = Top \/ Len(t.kids[Parent(t, g)]) > 1, NEW h \in Group \ {g}
       PROVE  Kids(u, h) = Kids(t, h) \ {g}
  <2>1. ~Up(g)
    <3>1. Parent(t, g) \in Group
      BY ParentOf
    <3>2. Len(t.kids[Parent(t, g)]) \in Nat
      BY <1>0, <3>1, Entries
    <3> QED BY <1>18, <3>2
  <2>2. k = g
    BY <1>2, <2>1
  <2>3. g \in Kids(t, h) => h = p
    BY <2>2 DEF Rooted
  <2> QED BY <1>7, <1>8, <1>13, <2>2, <2>3
<1> HIDE DEF U
<1>19. IsDestroyed(t, g, u, U)
  BY <1>11, <1>14, <1>15, <1>17, <1>18 DEF IsDestroyed
<1> QED BY <1>15, <1>19

(* --------------------------- arrows, additions --------------------------- *)

Room(t, c) == DepthLimit = 0 \/ t.depth[c] < DepthLimit

LEMMA ArrowsAre ==
  ASSUME NEW t \in Tree, NEW gs \in SUBSET Group, NEW u, u = UpdateArrows(t, gs)
  PROVE  /\ u \in Tree /\ u.kids = t.kids /\ u.index = t.index /\ u.depth = t.depth /\ u.logic = t.logic
         /\ \A c \in Crit : [u.crit[c] EXCEPT !.right = FALSE] = [t.crit[c] EXCEPT !.right = FALSE]
         /\ \A c \in Crit : (\A g \in gs : c \notin Kids(t, g)) => u.crit[c] = t.crit[c]
         /\ \A g \in gs : \A c \in Kids(t, g) \cap Crit :
              u.crit[c].right <=> (\E h \in gs : c \in Kids(t, h) /\ Len(t.kids[h]) > 1) /\ Room(t, c)
<1> DEFINE homes(c) == {g \in gs : c \in Kids(t, g)}
           right(c) == /\ \E g \in homes(c) : Len(t.kids[g]) > 1
                       /\ DepthLimit = 0 \/ t.depth[c] < DepthLimit
           crit == [c \in Crit |-> IF homes(c) = {} THEN t.crit[c] ELSE [t.crit[c] EXCEPT !.right = right(c)]]
<1>1. /\ u.kids = t.kids /\ u.index = t.index /\ u.depth = t.depth /\ u.logic = t.logic /\ u.crit = crit
      /\ u = [kids |-> u.kids, index |-> u.index, depth |-> u.depth, logic |-> u.logic, crit |-> u.crit]
  <2>1. u = [t EXCEPT !.crit = crit]
    BY Zenon DEF UpdateArrows
  <2> HIDE DEF crit
  <2> QED BY <2>1, TreeFields
<1>2. \A c : right(c) \in BOOLEAN
  OBVIOUS
<1>3. \A c \in Crit : right(c) <=> (\E h \in gs : c \in Kids(t, h) /\ Len(t.kids[h]) > 1) /\ Room(t, c)
  BY DEF Room
<1>4. \A c \in Crit : crit[c] = IF homes(c) = {} THEN t.crit[c] ELSE [t.crit[c] EXCEPT !.right = right(c)]
  OBVIOUS
<1> HIDE DEF right
<1>5. ASSUME NEW r \in CritRecord, NEW b \in BOOLEAN
      PROVE  /\ [r EXCEPT !.right = b] \in CritRecord /\ [r EXCEPT !.right = b].right = b
             /\ [[r EXCEPT !.right = b] EXCEPT !.right = FALSE] = [r EXCEPT !.right = FALSE]
  BY DEF CritRecord
<1>6. \A c \in Crit : /\ crit[c] \in CritRecord
                      /\ [crit[c] EXCEPT !.right = FALSE] = [t.crit[c] EXCEPT !.right = FALSE]
  <2> TAKE c \in Crit
  <2>1. t.crit[c] \in CritRecord
    BY TreeFields
  <2>2. PICK b \in BOOLEAN : b = right(c)
    BY <1>2
  <2>3. crit[c] = IF homes(c) = {} THEN t.crit[c] ELSE [t.crit[c] EXCEPT !.right = b]
    BY <1>4, <2>2, Zenon
  <2> HIDE DEF crit, homes
  <2>4. CASE homes(c) = {}
    BY <2>1, <2>3, <2>4
  <2>5. CASE homes(c) # {}
    <3>1. PICK r : r = [t.crit[c] EXCEPT !.right = b]
      OBVIOUS
    <3>2. r \in CritRecord /\ [r EXCEPT !.right = FALSE] = [t.crit[c] EXCEPT !.right = FALSE]
      BY <1>5, <2>1, <3>1, Zenon
    <3> QED BY <2>3, <2>5, <3>1, <3>2
  <2> QED BY <2>4, <2>5
<1>7. \A c \in Crit : (\A g \in gs : c \notin Kids(t, g)) => crit[c] = t.crit[c]
  BY <1>4
<1>8. ASSUME NEW g \in gs, NEW c \in Kids(t, g) \cap Crit PROVE crit[c].right = right(c)
  <2>1. homes(c) # {} /\ t.crit[c] \in CritRecord
    BY TreeFields
  <2>2. PICK b \in BOOLEAN : b = right(c)
    BY <1>2
  <2>3. crit[c] = [t.crit[c] EXCEPT !.right = b]
    <3> HIDE DEF crit, homes
    <3> QED BY <1>4, <2>1, <2>2, Zenon
  <2> HIDE DEF crit, homes
  <2> QED BY <1>5, <2>1, <2>2, <2>3
<1>9. crit \in [Crit -> CritRecord]
  <2>1. crit = [c \in Crit |-> crit[c]]
    OBVIOUS
  <2> HIDE DEF crit
  <2> QED BY <1>6, <2>1
<1> HIDE DEF crit
<1>10. u \in Tree
  BY <1>1, <1>9, TreeFields DEF Tree
<1> QED BY <1>1, <1>3, <1>6, <1>7, <1>8, <1>10

LEMMA NewKids ==
  ASSUME NEW t \in Tree, NEW K \in [Group -> Seq(Entry)], NEW u, u = [t EXCEPT !.kids = K]
  PROVE  /\ u \in Tree /\ u.kids = K
         /\ u.index = t.index /\ u.depth = t.depth /\ u.logic = t.logic /\ u.crit = t.crit
BY DEF Tree

LEMMA NewDepth ==
  ASSUME NEW t \in Tree, NEW D \in [Node -> Nat], NEW u, u = [t EXCEPT !.depth = D]
  PROVE  /\ u \in Tree /\ u.depth = D
         /\ u.index = t.index /\ u.kids = t.kids /\ u.logic = t.logic /\ u.crit = t.crit
BY DEF Tree

LEMMA NewIndex ==
  ASSUME NEW t \in Tree, NEW I \in [Node -> Nat], NEW u, u = [t EXCEPT !.index = I]
  PROVE  /\ u \in Tree /\ u.index = I
         /\ u.kids = t.kids /\ u.depth = t.depth /\ u.logic = t.logic /\ u.crit = t.crit
BY DEF Tree

\* A tree with one more criterion in a group, whose entry is e.
Added(t, g, c, e, u) ==
  /\ u \in Tree /\ u.index = t.index /\ u.logic = t.logic
  /\ u.depth = [t.depth EXCEPT ![c] = DepthOf(t, g)]
  /\ \A h \in Group \ {g} : u.kids[h] = t.kids[h]
  /\ Kids(u, g) = Kids(t, g) \cup {c} /\ Len(u.kids[g]) = Len(t.kids[g]) + 1 /\ Single(u, g)
  /\ \A i \in DOMAIN u.kids[g] : u.kids[g][i] = e \/ \E j \in DOMAIN t.kids[g] : u.kids[g][i] = t.kids[g][j]
  /\ \A x \in Crit : [u.crit[x] EXCEPT !.right = FALSE] = [t.crit[x] EXCEPT !.right = FALSE]
  /\ \A x \in Crit : x \notin Kids(u, g) => u.crit[x] = t.crit[x]
  /\ \A x \in Kids(u, g) \cap Crit : u.crit[x].right <=> Len(u.kids[g]) > 1 /\ Room(u, x)
  /\ (\A i \in DOMAIN t.kids[g] : t.index[t.kids[g][i].node] = i - 1) /\ t.index[c] = Len(t.kids[g])
       => u.kids[g] = Append(t.kids[g], e)

LEMMA AddIs ==
  ASSUME NEW t \in Tree, NEW g \in Group, Single(t, g), NEW c \in Crit, c \notin Kids(t, g), NEW idx \in Nat,
         NEW u, u = AddCriteria(t, g, c, idx), NEW e, e = [node |-> c, index |-> idx]
  PROVE  Added(t, g, c, e, u)
<1> DEFINE s == Append(t.kids[g], e)
           in == [t EXCEPT !.kids[g] = s, !.depth[c] = DepthOf(t, g)]
           r == SortByIndex(in, s, DOMAIN s)
           v == [in EXCEPT !.kids[g] = r]
<1>1. u = UpdateArrows(v, {g})
  <2> DEFINE in1 == [t EXCEPT !.kids[g] = Append(@, [node |-> c, index |-> idx]), !.depth[c] = DepthOf(t, g)]
  <2>1. in1 = in
    BY Zenon
  <2>2. u = UpdateArrows([in1 EXCEPT !.kids[g] = SortByIndex(in1, in1.kids[g], DOMAIN in1.kids[g])], {g})
    BY Zenon DEF AddCriteria
  <2>3. in.kids[g] = s
    <3> HIDE DEF s
    <3> QED BY TreeFields
  <2> HIDE DEF in1, in, s
  <2> QED BY <2>1, <2>2, <2>3
<1>2. /\ t.kids[g] \in Seq(Entry) /\ Len(t.kids[g]) \in Nat /\ DOMAIN t.kids[g] = 1..Len(t.kids[g])
      /\ \A i \in DOMAIN t.kids[g] : t.kids[g][i] \in Entry /\ t.kids[g][i].node \in Node
  BY Entries
<1>3. e \in Entry /\ e.node = c /\ e.index = idx /\ c \in Node
  BY Nodes DEF Entry
<1>4. /\ s \in Seq(Entry) /\ Len(s) = Len(t.kids[g]) + 1 /\ DOMAIN s = 1..(Len(t.kids[g]) + 1)
      /\ s[Len(t.kids[g]) + 1] = e /\ \A i \in 1..Len(t.kids[g]) : s[i] = t.kids[g][i]
  <2>1. ASSUME NEW x \in Seq(Entry), NEW y \in Entry
        PROVE  /\ Append(x, y) \in Seq(Entry) /\ Len(Append(x, y)) = Len(x) + 1 /\ DOMAIN Append(x, y) = 1..(Len(x) + 1)
               /\ Append(x, y)[Len(x) + 1] = y /\ \A i \in 1..Len(x) : Append(x, y)[i] = x[i]
    OBVIOUS
  <2> QED BY <1>2, <1>3, <2>1
<1> HIDE DEF s
<1>d. DepthOf(t, g) \in Nat
  BY TreeFields, Nodes DEF DepthOf
<1>5. /\ in \in Tree /\ in.kids = [t.kids EXCEPT ![g] = s] /\ in.depth = [t.depth EXCEPT ![c] = DepthOf(t, g)]
      /\ in.index = t.index /\ in.logic = t.logic /\ in.crit = t.crit
  <2> DEFINE K == [t.kids EXCEPT ![g] = s]
             D == [t.depth EXCEPT ![c] = DepthOf(t, g)]
             w == [t EXCEPT !.kids = K]
  <2>1. K \in [Group -> Seq(Entry)] /\ D \in [Node -> Nat]
    BY <1>3, <1>4, <1>d, TreeFields
  <2>2. in = [w EXCEPT !.depth = D]
    BY Zenon
  <2> HIDE DEF K, D, in
  <2>3. w \in Tree /\ w.kids = K /\ w.index = t.index /\ w.depth = t.depth /\ w.logic = t.logic /\ w.crit = t.crit
    BY <2>1, NewKids
  <2> HIDE DEF w
  <2>4. in \in Tree /\ in.depth = D /\ in.kids = w.kids /\ in.index = w.index /\ in.logic = w.logic /\ in.crit = w.crit
    BY <2>1, <2>2, <2>3, NewDepth
  <2> QED BY <2>3, <2>4 DEF K, D
<1> HIDE DEF in
<1>6. in \in Tree
  BY <1>5
<1>7. Arranged(r, s, DOMAIN s)
  BY <1>4, <1>6, SortArranges
<1>8. Cardinality(DOMAIN s) = Len(s)
  <2>1. ASSUME NEW m \in Nat PROVE Cardinality(1..(m + 1)) = m + 1
    BY FS_Interval
  <2> QED BY <1>2, <1>4, <2>1
<1>9. ASSUME NEW i \in DOMAIN s, NEW j \in DOMAIN s, s[i].node = s[j].node PROVE i = j
  <2>1. \A m \in 1..Len(t.kids[g]) : s[m].node # c
    BY <1>2, <1>4, KidsAre
  <2>2. \A m \in DOMAIN s : m \in 1..Len(t.kids[g]) \/ m = Len(t.kids[g]) + 1
    BY <1>2, <1>4
  <2>3. CASE i \in 1..Len(t.kids[g]) /\ j \in 1..Len(t.kids[g])
    BY <1>2, <1>4, <1>9, <2>3 DEF Single
  <2> QED BY <1>3, <1>4, <1>9, <2>1, <2>2, <2>3
<1>10. /\ {r[i].node : i \in DOMAIN r} = {s[i].node : i \in DOMAIN s}
       /\ \A i, j \in DOMAIN r : r[i].node = r[j].node => i = j
       /\ \A i \in DOMAIN r : \E j \in DOMAIN s : r[i] = s[j]
  <2> HIDE DEF r
  <2>1. \A i, j \in DOMAIN s : s[i].node = s[j].node => i = j
    BY <1>9
  <2>2. s \in Seq(Entry) /\ DOMAIN s \in SUBSET DOMAIN s
    BY <1>4
  <2> QED BY <1>7, <2>1, <2>2, ArrangedNodes
<1>11. r \in Seq(Entry) /\ Len(r) = Len(t.kids[g]) + 1
  BY <1>4, <1>7, <1>8 DEF Arranged
<1>12. (\A i \in DOMAIN t.kids[g] : t.index[t.kids[g][i].node] = i - 1) /\ t.index[c] = Len(t.kids[g]) => r = s
  <2> SUFFICES ASSUME \A i \in DOMAIN t.kids[g] : t.index[t.kids[g][i].node] = i - 1, t.index[c] = Len(t.kids[g])
               PROVE  r = s
    OBVIOUS
  <2>1. \A i \in DOMAIN s : in.index[s[i].node] = i - 1
    <3> TAKE i \in DOMAIN s
    <3>1. CASE i \in 1..Len(t.kids[g])
      BY <1>2, <1>4, <1>5, <3>1
    <3>2. CASE i = Len(t.kids[g]) + 1
      BY <1>2, <1>3, <1>4, <1>5, <3>2
    <3> QED BY <1>2, <1>4, <3>1, <3>2
  <2> QED BY <1>4, <1>6, <2>1, SortStays
<1> HIDE DEF r
<1>13. /\ v \in Tree /\ v.kids = [in.kids EXCEPT ![g] = r]
       /\ v.depth = in.depth /\ v.index = in.index /\ v.logic = in.logic /\ v.crit = in.crit
  <2> DEFINE K == [in.kids EXCEPT ![g] = r]
  <2>1. v = [in EXCEPT !.kids = K]
    BY Zenon
  <2>2. K \in [Group -> Seq(Entry)]
    BY <1>6, <1>11, TreeFields
  <2> HIDE DEF K, v
  <2>3. v \in Tree /\ v.kids = K /\ v.depth = in.depth /\ v.index = in.index /\ v.logic = in.logic /\ v.crit = in.crit
    BY <1>6, <2>1, <2>2, NewKids
  <2> QED BY <2>3 DEF K
<1> HIDE DEF v
<1>14. v \in Tree
  BY <1>13
<1>15. v.kids[g] = r /\ \A h \in Group \ {g} : v.kids[h] = t.kids[h]
  BY <1>5, <1>13, TreeFields
<1>16. /\ u \in Tree /\ u.kids = v.kids /\ u.index = v.index /\ u.depth = v.depth /\ u.logic = v.logic
       /\ \A x \in Crit : [u.crit[x] EXCEPT !.right = FALSE] = [v.crit[x] EXCEPT !.right = FALSE]
       /\ \A x \in Crit : (\A h \in {g} : x \notin Kids(v, h)) => u.crit[x] = v.crit[x]
       /\ \A h \in {g} : \A x \in Kids(v, h) \cap Crit :
            u.crit[x].right <=> (\E k \in {g} : x \in Kids(v, k) /\ Len(v.kids[k]) > 1) /\ Room(v, x)
  <2> DEFINE gs == {g}
  <2>1. gs \in SUBSET Group /\ u = UpdateArrows(v, gs)
    BY <1>1
  <2> HIDE DEF gs
  <2>2. /\ u \in Tree /\ u.kids = v.kids /\ u.index = v.index /\ u.depth = v.depth /\ u.logic = v.logic
        /\ \A x \in Crit : [u.crit[x] EXCEPT !.right = FALSE] = [v.crit[x] EXCEPT !.right = FALSE]
        /\ \A x \in Crit : (\A h \in gs : x \notin Kids(v, h)) => u.crit[x] = v.crit[x]
        /\ \A h \in gs : \A x \in Kids(v, h) \cap Crit :
             u.crit[x].right <=> (\E k \in gs : x \in Kids(v, k) /\ Len(v.kids[k]) > 1) /\ Room(v, x)
    BY <1>14, <2>1, ArrowsAre
  <2> QED BY <2>2 DEF gs
<1>17. Kids(u, g) = Kids(v, g) /\ \A x : Room(u, x) <=> Room(v, x)
  BY <1>16 DEF Kids, Room
<1>18. Kids(u, g) = Kids(t, g) \cup {c} /\ Single(u, g)
  <2>1. Kids(u, g) = {s[i].node : i \in DOMAIN s}
    <3>1. u.kids[g] = r
      BY <1>15, <1>16
    <3>2. Kids(u, g) = {r[i].node : i \in DOMAIN r}
      BY <3>1, Zenon DEF Kids
    <3> QED BY <1>10, <3>2
  <2>2. {s[i].node : i \in DOMAIN s} = Kids(t, g) \cup {c}
    <3>1. ASSUME NEW i \in DOMAIN s PROVE s[i].node \in Kids(t, g) \cup {c}
      <4>1. i \in 1..Len(t.kids[g]) \/ i = Len(t.kids[g]) + 1
        BY <1>2, <1>4
      <4> QED BY <1>2, <1>3, <1>4, <4>1, KidsAre
    <3>2. ASSUME NEW n \in Kids(t, g) PROVE \E i \in DOMAIN s : s[i].node = n
      <4>1. PICK i \in DOMAIN t.kids[g] : t.kids[g][i].node = n
        BY KidsAre
      <4>2. i \in DOMAIN s /\ s[i] = t.kids[g][i]
        BY <1>2, <1>4
      <4> QED BY <4>1, <4>2
    <3>3. Len(t.kids[g]) + 1 \in DOMAIN s
      BY <1>2, <1>4
    <3>4. \E i \in DOMAIN s : s[i].node = c
      BY <1>3, <1>4, <3>3
    <3> QED BY <3>1, <3>2, <3>4
  <2> QED BY <1>10, <1>15, <1>16, <2>1, <2>2 DEF Single
<1>19. \A i \in DOMAIN u.kids[g] : u.kids[g][i] = e \/ \E j \in DOMAIN t.kids[g] : u.kids[g][i] = t.kids[g][j]
  <2> TAKE i \in DOMAIN u.kids[g]
  <2>1. PICK j \in DOMAIN s : u.kids[g][i] = s[j]
    BY <1>10, <1>15, <1>16
  <2>2. j \in 1..Len(t.kids[g]) \/ j = Len(t.kids[g]) + 1
    BY <1>2, <1>4
  <2> QED BY <1>2, <1>4, <2>1, <2>2
<1>20. \A x \in Kids(u, g) \cap Crit : u.crit[x].right <=> Len(u.kids[g]) > 1 /\ Room(u, x)
  BY <1>16, <1>17
<1>21. \A x \in Crit : x \notin Kids(u, g) => u.crit[x] = t.crit[x]
  BY <1>5, <1>13, <1>16, <1>17
<1>22. (\A i \in DOMAIN t.kids[g] : t.index[t.kids[g][i].node] = i - 1) /\ t.index[c] = Len(t.kids[g])
         => u.kids[g] = Append(t.kids[g], e)
  BY <1>12, <1>15, <1>16 DEF s
<1>23. /\ u \in Tree /\ u.index = t.index /\ u.logic = t.logic
       /\ u.depth = [t.depth EXCEPT ![c] = DepthOf(t, g)]
       /\ \A h \in Group \ {g} : u.kids[h] = t.kids[h]
       /\ Len(u.kids[g]) = Len(t.kids[g]) + 1
       /\ \A x \in Crit : [u.crit[x] EXCEPT !.right = FALSE] = [t.crit[x] EXCEPT !.right = FALSE]
  <2>1. u \in Tree /\ u.index = t.index /\ u.logic = t.logic /\ u.depth = [t.depth EXCEPT ![c] = DepthOf(t, g)]
    BY <1>5, <1>13, <1>16
  <2>2. \A h \in Group \ {g} : u.kids[h] = t.kids[h]
    BY <1>15, <1>16
  <2>3. Len(u.kids[g]) = Len(t.kids[g]) + 1
    BY <1>4, <1>8, <1>11, <1>15, <1>16
  <2>4. \A x \in Crit : [u.crit[x] EXCEPT !.right = FALSE] = [t.crit[x] EXCEPT !.right = FALSE]
    BY <1>5, <1>13, <1>16
  <2> QED BY <2>1, <2>2, <2>3, <2>4
<1> QED BY <1>18, <1>19, <1>20, <1>21, <1>22, <1>23, Zenon DEF Added

(* -------------------- what a handler leaves to a redraw ------------------- *)

LEMMA InvFacts ==
  ASSUME NEW t, TreeInv(t)
  PROVE  /\ t \in Tree /\ Layered(t) /\ Apart(t) /\ Nested(t) /\ \A g \in Group : Single(t, g)
         /\ Sound(t) /\ Placed(t) /\ Kept(t) /\ Limited(t) /\ Arrows(t)
         /\ Rooted(t)
         /\ \A g \in Group : \A n \in Kids(t, g) : n \in Live(t) /\ Parent(t, n) = g /\ \E j : Found(t, g, n, j)
<1>1. /\ t \in Tree /\ Layered(t) /\ Apart(t) /\ Nested(t) /\ \A g \in Group : Single(t, g)
      /\ Sound(t) /\ Placed(t) /\ Kept(t) /\ Limited(t) /\ Arrows(t)
  <2>1. Sound(t) /\ Placed(t) /\ Kept(t) /\ Limited(t) /\ Arrows(t)
    BY DEF TreeInv
  <2> QED BY <2>1, SoundIsLayered DEF Sound
<1>2. ASSUME NEW g \in Group, NEW n \in Kids(t, g) PROVE n \in Live(t) /\ Parent(t, n) = g /\ \E j : Found(t, g, n, j)
  <2>1. PICK j \in DOMAIN t.kids[g] : t.kids[g][j].node = n
    BY KidsAre
  <2>2. t.index[n] = j - 1 /\ \A i \in DOMAIN t.kids[g] : t.kids[g][i].index = i - 1
    BY <1>1, <2>1 DEF Placed
  <2>3. DOMAIN t.kids[g] = 1..Len(t.kids[g]) /\ Len(t.kids[g]) \in Nat
    BY <1>1, Entries
  <2>4. \A i \in DOMAIN t.kids[g] : t.kids[g][i].index = t.index[n] <=> i = j
    BY <2>1, <2>2, <2>3
  <2>5. Found(t, g, n, j)
    BY <2>1, <2>4 DEF Found
  <2> QED BY <1>1, <2>5, ParentIs, LiveAre
<1>3. Rooted(t)
  <2>1. ASSUME NEW g \in Group, NEW n \in Kids(t, g) \cap Sub
        PROVE  Parent(t, n) = g /\ (g \in Sub => g \in Live(t)) /\ \E j : Found(t, g, n, j)
    <3>1. g \in Sub => g \in Live(t)
      <4>1. t.kids[g] # <<>>
        BY <1>1, EmptyKids
      <4> QED BY <1>1, <4>1 DEF Kept
    <3> QED BY <1>2, <3>1
  <2> QED BY <1>1, <2>1 DEF Rooted
<1> QED BY <1>1, <1>2, <1>3

\* What is left of a tree, when nothing that is still in it is empty.
LEMMA ShrunkReady ==
  ASSUME NEW t, TreeInv(t), NEW u, Shrunk(t, u), NEW L, Top \in L,
         \A g \in L \cap Group : Kids(u, g) \subseteq L,
         \A g \in L \cap Sub : u.kids[g] # <<>>
  PROVE  Ready(u, L)
<1>1. t \in Tree /\ Apart(t) /\ Nested(t) /\ Limited(t) /\ Arrows(t) /\ \A g \in Group : Single(t, g)
  BY InvFacts
<1>2. /\ u \in Tree /\ u.depth = t.depth /\ u.crit = t.crit
      /\ \A g \in Group : Kids(u, g) \subseteq Kids(t, g) /\ Len(u.kids[g]) <= Len(t.kids[g]) /\ Single(u, g)
  BY <1>1 DEF Shrunk
<1>3. Apart(u)
  BY <1>1, <1>2 DEF Apart
<1>4. Nested(u)
  <2>1. \A g \in Group : DepthOf(u, g) = DepthOf(t, g)
    BY <1>2 DEF DepthOf
  <2> QED BY <1>1, <1>2, <2>1 DEF Nested
<1>5. Live(u) \subseteq Live(t)
  BY <1>2, LiveAre
<1>6. Limited(u)
  BY <1>1, <1>2, <1>5 DEF Limited
<1>7. \A g \in L \cap Group : \A c \in Kids(u, g) \cap Crit :
        Len(u.kids[g]) > 1 /\ (DepthLimit = 0 \/ u.depth[c] < DepthLimit) => u.crit[c].right
  <2> TAKE g \in L \cap Group
  <2>1. Len(u.kids[g]) \in Nat /\ Len(t.kids[g]) \in Nat
    BY <1>1, <1>2, Entries
  <2>2. Len(u.kids[g]) > 1 => Len(t.kids[g]) > 1
    BY <1>2, <2>1
  <2> QED BY <1>1, <1>2, <2>2 DEF Arrows
<1>8. Sound(u)
  BY <1>2, <1>3, <1>4 DEF Sound
<1> QED BY <1>6, <1>7, <1>8 DEF Ready

\* Ready, but for the arrows of some groups.
Unset(t, L, gs) ==
  /\ Sound(t) /\ Limited(t)
  /\ Top \in L /\ \A g \in L \cap Group : Kids(t, g) \subseteq L
  /\ \A g \in L \cap Sub : t.kids[g] # <<>>
  /\ \A g \in (L \cap Group) \ gs : \A c \in Kids(t, g) \cap Crit :
       Len(t.kids[g]) > 1 /\ (DepthLimit = 0 \/ t.depth[c] < DepthLimit) => t.crit[c].right

LEMMA ArrowsSet ==
  ASSUME NEW t, NEW L, NEW gs \in SUBSET Group, Unset(t, L, gs), NEW u, u = UpdateArrows(t, gs)
  PROVE  Ready(u, L)
<1>0. t \in Tree
  BY DEF Unset, Sound
<1>1. /\ u \in Tree /\ u.kids = t.kids /\ u.index = t.index /\ u.depth = t.depth /\ u.logic = t.logic
      /\ \A c \in Crit : (\A g \in gs : c \notin Kids(t, g)) => u.crit[c] = t.crit[c]
      /\ \A g \in gs : \A c \in Kids(t, g) \cap Crit :
           u.crit[c].right <=> (\E h \in gs : c \in Kids(t, h) /\ Len(t.kids[h]) > 1) /\ Room(t, c)
  BY <1>0, ArrowsAre
<1>2. (\A g : Kids(t, g) = Kids(u, g)) /\ Live(t) = Live(u)
  BY <1>1, SameKids
<1>3. Sound(u)
  <2>1. \A g \in Group : Single(u, g)
    BY <1>1 DEF Unset, Sound, Single
  <2>2. Apart(u)
    BY <1>2 DEF Unset, Sound, Apart
  <2>3. Nested(u)
    <3>1. \A g \in Group : DepthOf(u, g) = DepthOf(t, g)
      BY <1>1 DEF DepthOf
    <3> QED BY <1>1, <1>2, <3>1 DEF Unset, Sound, Nested
  <2> QED BY <1>1, <2>1, <2>2, <2>3 DEF Sound
<1>4. Limited(u)
  <2> SUFFICES ASSUME DepthLimit # 0 PROVE /\ \A n \in Live(u) : u.depth[n] <= DepthLimit
                                           /\ \A c \in Live(u) \cap Crit : u.crit[c].right => u.depth[c] < DepthLimit
    BY DEF Limited
  <2>1. /\ \A n \in Live(t) : t.depth[n] <= DepthLimit
        /\ \A c \in Live(t) \cap Crit : t.crit[c].right => t.depth[c] < DepthLimit
    BY DEF Unset, Limited
  <2>2. ASSUME NEW c \in Live(u) \cap Crit, u.crit[c].right PROVE u.depth[c] < DepthLimit
    <3>1. CASE \E g \in gs : c \in Kids(t, g)
      BY <1>1, <2>2, <3>1 DEF Room
    <3>2. CASE \A g \in gs : c \notin Kids(t, g)
      BY <1>1, <1>2, <2>1, <2>2, <3>2
    <3> QED BY <3>1, <3>2
  <2> QED BY <1>1, <1>2, <2>1, <2>2
<1>5. ASSUME NEW g \in L \cap Group, NEW c \in Kids(u, g) \cap Crit,
             Len(u.kids[g]) > 1, DepthLimit = 0 \/ u.depth[c] < DepthLimit
      PROVE  u.crit[c].right
  <2>1. c \in Kids(t, g) /\ Len(t.kids[g]) > 1 /\ Room(t, c)
    BY <1>1, <1>2, <1>5 DEF Room
  <2>2. CASE \E h \in gs : c \in Kids(t, h)
    <3>1. PICK h \in gs : c \in Kids(t, h)
      BY <2>2
    <3>2. h = g
      BY <2>1, <3>1 DEF Unset, Sound, Apart
    <3> QED BY <1>1, <2>1, <3>1, <3>2
  <2>3. CASE \A h \in gs : c \notin Kids(t, h)
    <3>1. t.crit[c].right
      BY <2>1, <2>3 DEF Unset, Room
    <3> QED BY <1>1, <2>3, <3>1
  <2> QED BY <2>2, <2>3
<1>6. Unset(t, L, gs)
  OBVIOUS
<1> QED BY <1>1, <1>2, <1>3, <1>4, <1>5, <1>6 DEF Ready, Unset

LEMMA ArrowsReady ==
  ASSUME NEW t, NEW L, Ready(t, L), NEW gs \in SUBSET Group, NEW u, u = UpdateArrows(t, gs)
  PROVE  Ready(u, L)
<1>1. Unset(t, L, gs)
  BY DEF Ready, Unset
<1> QED BY <1>1, ArrowsSet

LEMMA WholeReady ==
  ASSUME NEW t, TreeInv(t)
  PROVE  Ready(t, {Top} \cup Live(t))
<1> DEFINE L == {Top} \cup Live(t)
<1>1. t \in Tree /\ Kept(t) /\ \A g \in Group : Kids(t, g) \subseteq Live(t)
  BY InvFacts
<1>2. Shrunk(t, t)
  <2>1. \A g \in Group : Len(t.kids[g]) \in Nat
    BY <1>1, Entries
  <2>2. \A g \in Group : Len(t.kids[g]) <= Len(t.kids[g])
    BY <2>1
  <2> QED BY <1>1, <2>2 DEF Shrunk
<1>3. Top \in L /\ (\A g \in L \cap Group : Kids(t, g) \subseteq L) /\ \A g \in L \cap Sub : t.kids[g] # <<>>
  <2>1. \A g \in L \cap Sub : g \in Live(t)
    BY Nodes
  <2> QED BY <1>1, <2>1 DEF Kept
<1> HIDE DEF L
<1>4. Ready(t, L)
  BY <1>2, <1>3, ShrunkReady
<1> QED BY <1>4 DEF L

LEMMA DestroyReady ==
  ASSUME NEW t, TreeInv(t), NEW g \in Sub \cap Live(t), NEW u, u = Destroy(t, g)
  PROVE  \E L : Ready(u, L)
<1>1. t \in Tree /\ Rooted(t) /\ Kept(t)
  BY InvFacts
<1>d. PICK U \in SUBSET Sub : IsDestroyed(t, g, u, U)
  BY <1>1, DestroyIs
<1>2. /\ Shrunk(t, u) /\ g \in U
      /\ \A h \in Group \ U : /\ Kids(u, h) \cap U = {} /\ Kids(t, h) \ U \subseteq Kids(u, h)
                              /\ h # Top /\ t.kids[h] # <<>> => u.kids[h] # <<>>
  BY <1>d DEF IsDestroyed
<1> DEFINE L == {Top} \cup (Live(t) \ U)
<1>3. \A h \in L \cap Group : Kids(u, h) \subseteq L
  <2> TAKE h \in L \cap Group
  <2>1. h \in Group \ U
    BY Nodes
  <2>2. Kids(u, h) \subseteq Live(t)
    BY <1>2, <2>1, LiveAre DEF Shrunk
  <2> QED BY <1>2, <2>1, <2>2
<1>4. \A h \in L \cap Sub : u.kids[h] # <<>>
  <2> TAKE h \in L \cap Sub
  <2>1. h \in Group \ U /\ h # Top /\ h \in Live(t)
    BY Nodes
  <2> QED BY <1>1, <1>2, <2>1 DEF Kept
<1>5. Top \in L
  OBVIOUS
<1> HIDE DEF L
<1>6. Ready(u, L)
  BY <1>2, <1>3, <1>4, <1>5, ShrunkReady
<1> QED BY <1>6

LEMMA RemovedReady ==
  ASSUME NEW t, TreeInv(t), NEW c \in Crit \cap Live(t), NEW g, g = Parent(t, c), NEW u, u = RemoveCriteria(t, g, c)
  PROVE  g \in Group /\ \E L : Ready(u, L)
<1>1. t \in Tree /\ Kept(t) /\ \A h \in Group : Single(t, h) /\ Kids(t, h) \subseteq Live(t)
  BY InvFacts
<1>2. g \in Group /\ c \in Kids(t, g)
  BY ParentOf
<1>3. CASE g # Top /\ Len(t.kids[g]) <= 1
  <2>1. t.kids[g] # <<>> /\ g \in Sub
    BY <1>1, <1>2, <1>3, EmptyKids, Nodes
  <2>2. g \in Live(t)
    BY <1>1, <2>1 DEF Kept
  <2>3. u = Destroy(t, g)
    BY <1>3 DEF RemoveCriteria
  <2> QED BY <1>2, <2>1, <2>2, <2>3, DestroyReady
<1>4. CASE ~(g # Top /\ Len(t.kids[g]) <= 1)
  <2>1. u = Splice(t, g, c)
    BY <1>4 DEF RemoveCriteria
  <2>2. PICK j : Found(t, g, c, j)
    BY <1>2, InvFacts
  <2>3. /\ Shrunk(t, u) /\ Len(u.kids[g]) = Len(t.kids[g]) - 1
        /\ \A h \in Group \ {g} : u.kids[h] = t.kids[h]
    BY <1>1, <1>2, <2>1, <2>2, SpliceIs
  <2> DEFINE L == {Top} \cup Live(t)
  <2>4. \A h \in L \cap Group : Kids(u, h) \subseteq L
    BY <1>1, <2>3 DEF Shrunk
  <2>5. \A h \in L \cap Sub : u.kids[h] # <<>>
    <3> TAKE h \in L \cap Sub
    <3>1. h \in Group /\ h # Top /\ h \in Live(t) /\ t.kids[h] # <<>>
      BY <1>1, Nodes DEF Kept
    <3>2. CASE h = g
      <4>1. Len(t.kids[g]) > 1 /\ Len(t.kids[g]) \in Nat
        BY <1>1, <1>2, <1>4, <3>1, <3>2, Entries
      <4>2. Len(u.kids[g]) # 0
        <5>1. \A x \in Nat : x > 1 => x - 1 # 0
          OBVIOUS
        <5>2. Len(t.kids[g]) - 1 # 0
          BY <4>1, <5>1
        <5>3. Len(u.kids[g]) = Len(t.kids[g]) - 1
          BY <2>3
        <5> QED BY <5>2, <5>3, Zenon
      <4>3. Len(<<>>) = 0
        OBVIOUS
      <4> QED BY <3>2, <4>2, <4>3
    <3> QED BY <2>3, <3>1, <3>2
  <2>6. Top \in L
    OBVIOUS
  <2> HIDE DEF L
  <2>7. Ready(u, L)
    BY <2>3, <2>4, <2>5, <2>6, ShrunkReady
  <2> QED BY <1>2, <2>7
<1> QED BY <1>3, <1>4

(* ----------------------- the arrows of a criterion ----------------------- *)

LEMMA PopulatedCrit ==
  ASSUME NEW c \in CritRecord
  PROVE  LET r == Populate(c) IN /\ r \in CritRecord /\ r.right = c.right /\ r.data = c.data
                                 /\ r.cond = c.cond /\ r.value = c.value
<1>1. ASSUME NEW f PROVE [c EXCEPT !.filled = f].right = c.right /\ [c EXCEPT !.filled = f].data = c.data
                         /\ [c EXCEPT !.filled = f].cond = c.cond /\ [c EXCEPT !.filled = f].value = c.value
  BY DEF CritRecord
<1> QED BY <1>1, Records DEF Populate

\* The criterion is replaced by a new group that holds it.
Indented(s, c, n) ==
  LET g == Parent(s, c)
      emptied == [s EXCEPT !.crit[c] = Populate(@)]
  IN [emptied EXCEPT !.kids[g][s.index[c] + 1].node = n,
                     !.kids[n] = <<[node |-> c, index |-> s.index[c]]>>,
                     !.index[n] = s.index[c],
                     !.depth = [@ EXCEPT ![n] = DepthOf(s, g) + 1, ![c] = DepthOf(s, g) + 1],
                     !.logic[n] = DefaultLogic,
                     !.crit[c].right = FALSE]

LEMMA IndentIs ==
  ASSUME NEW s, TreeInv(s), NEW c \in Crit \cap Live(s), NEW n \in Sub \ Live(s), NEW g, g = Parent(s, c),
         NEW u, u = Indented(s, c, n)
  PROVE  /\ u \in Tree /\ g \in Group /\ c \in Kids(s, g) /\ g # n
         /\ \A h \in Group \ {g, n} : u.kids[h] = s.kids[h]
         /\ Kids(u, g) = (Kids(s, g) \ {c}) \cup {n} /\ Len(u.kids[g]) = Len(s.kids[g]) /\ Single(u, g)
         /\ Kids(u, n) = {c} /\ Len(u.kids[n]) = 1 /\ Single(u, n)
         /\ \A m \in Node : u.depth[m] = IF m \in {c, n} THEN DepthOf(s, g) + 1 ELSE s.depth[m]
         /\ \A h \in Group : u.logic[h] = s.logic[h]
         /\ \A x \in Crit : u.crit[x] = IF x = c THEN [Populate(s.crit[c]) EXCEPT !.right = FALSE] ELSE s.crit[x]
<1>0. s \in Tree /\ Placed(s) /\ Kept(s) /\ \A h \in Group : Single(s, h) /\ Kids(s, h) \subseteq Live(s)
  BY InvFacts
<1>1. g \in Group /\ c \in Kids(s, g)
  BY ParentOf
<1>2. n \in Group /\ n \in Node /\ c \in Node /\ n # c
  BY Nodes
<1>3. g # n
  <2>1. s.kids[g] # <<>>
    BY <1>0, <1>1, EmptyKids
  <2> QED BY <1>0, <2>1 DEF Kept
<1> DEFINE i == s.index[c] + 1
           d == DepthOf(s, g) + 1
           old == s.kids[g]
           new == [old[i] EXCEPT !.node = n]
           row == [old EXCEPT ![i] = new]
           one == <<[node |-> c, index |-> s.index[c]]>>
           K == [[s.kids EXCEPT ![g] = row] EXCEPT ![n] = one]
           I == [s.index EXCEPT ![n] = s.index[c]]
           D == [s.depth EXCEPT ![n] = d, ![c] = d]
           G == [s.logic EXCEPT ![n] = DefaultLogic]
           rec == [Populate(s.crit[c]) EXCEPT !.right = FALSE]
           C == [s.crit EXCEPT ![c] = rec]
<1>4. u = [kids |-> K, index |-> I, depth |-> D, logic |-> G, crit |-> C]
  <2> DEFINE sc == [s EXCEPT !.crit = [s.crit EXCEPT ![c] = Populate(s.crit[c])]]
  <2>1. /\ sc.kids = s.kids /\ sc.index = s.index /\ sc.depth = s.depth /\ sc.logic = s.logic
        /\ sc.crit = [s.crit EXCEPT ![c] = Populate(s.crit[c])]
        /\ DOMAIN sc = DOMAIN s
    BY <1>0, TreeFields
  <2>2. sc.crit[c] = Populate(s.crit[c]) /\ [sc.crit EXCEPT ![c] = rec] = C
    BY <1>0, <2>1, TreeFields
  <2>3. u = [sc EXCEPT !.kids[g][i].node = n, !.kids[n] = one, !.index[n] = s.index[c],
                       !.depth = [@ EXCEPT ![n] = d, ![c] = d],
                       !.logic[n] = DefaultLogic, !.crit[c].right = FALSE]
    BY Zenon DEF Indented
  <2> DEFINE K1 == [sc.kids EXCEPT ![g] = [sc.kids[g] EXCEPT ![i] = [sc.kids[g][i] EXCEPT !.node = n]]]
  <2>4. u = [sc EXCEPT !.kids = [K1 EXCEPT ![n] = one],
                       !.index = [sc.index EXCEPT ![n] = s.index[c]],
                       !.depth = [sc.depth EXCEPT ![n] = d, ![c] = d],
                       !.logic = [sc.logic EXCEPT ![n] = DefaultLogic],
                       !.crit = [sc.crit EXCEPT ![c] = [sc.crit[c] EXCEPT !.right = FALSE]]]
    BY <2>3, ZenonT(60)
  <2>5. u = [sc EXCEPT !.kids = K, !.index = I, !.depth = D, !.logic = G, !.crit = C]
    BY <2>1, <2>2, <2>4
  <2> HIDE DEF K, I, D, G, C, sc
  <2>6. DOMAIN s = {"kids", "index", "depth", "logic", "crit"}
    BY <1>0, TreeFields
  <2> QED BY <2>1, <2>5, <2>6
<1>5. old \in Seq(Entry) /\ DOMAIN old = 1..Len(old) /\ Len(old) \in Nat /\ \A j \in DOMAIN old : old[j] \in Entry
  BY <1>0, <1>1, Entries
<1>6. i \in DOMAIN old /\ old[i].node = c
  <2>1. PICK j \in DOMAIN old : old[j].node = c
    BY <1>1, KidsAre
  <2>2. s.index[c] = j - 1 /\ j \in Nat
    BY <1>0, <1>1, <1>5, <2>1 DEF Placed
  <2>3. i = j
    BY <2>2
  <2> QED BY <2>1, <2>3
<1>7. new \in Entry /\ new.node = n
  <2>1. ASSUME NEW e \in Entry PROVE [e EXCEPT !.node = n] \in Entry /\ [e EXCEPT !.node = n].node = n
    BY <1>2 DEF Entry
  <2> HIDE DEF old, i
  <2> QED BY <1>5, <1>6, <2>1
<1>8. d \in Nat /\ s.index[c] \in Nat
  <2>1. DepthOf(s, g) \in Nat
    BY <1>0, <1>1, TreeFields, Nodes DEF DepthOf
  <2> QED BY <1>0, <1>2, <2>1, TreeFields
<1> HIDE DEF d, i, new, old
<1>9. row \in Seq(Entry) /\ Len(row) = Len(old) /\ DOMAIN row = DOMAIN old /\ \A j \in DOMAIN old : row[j] = IF j = i THEN new ELSE old[j]
  <2>1. ASSUME NEW x \in Seq(Entry), NEW j \in DOMAIN x, NEW e \in Entry
        PROVE  [x EXCEPT ![j] = e] \in Seq(Entry) /\ Len([x EXCEPT ![j] = e]) = Len(x)
    OBVIOUS
  <2>2. row \in Seq(Entry) /\ Len(row) = Len(old)
    BY <1>5, <1>6, <1>7, <2>1
  <2> QED BY <2>2
<1>10. one \in Seq(Entry) /\ Len(one) = 1 /\ DOMAIN one = {1} /\ one[1].node = c
  <2>1. ASSUME NEW e \in Entry PROVE <<e>> \in Seq(Entry) /\ Len(<<e>>) = 1 /\ DOMAIN <<e>> = {1} /\ <<e>>[1] = e
    OBVIOUS
  <2>2. [node |-> c, index |-> s.index[c]] \in Entry
    BY <1>2, <1>8 DEF Entry
  <2> QED BY <2>1, <2>2
<1> HIDE DEF row, one
<1>11. rec \in CritRecord
  <2>1. Populate(s.crit[c]) \in CritRecord
    BY <1>0, TreeFields, PopulatedCrit
  <2>2. FALSE \in BOOLEAN
    OBVIOUS
  <2> QED BY <2>1, <2>2, Records
<1> HIDE DEF rec
<1>12. K \in [Group -> Seq(Entry)] /\ K[g] = row /\ K[n] = one /\ \A h \in Group \ {g, n} : K[h] = s.kids[h]
  BY <1>0, <1>1, <1>2, <1>3, <1>9, <1>10, TreeFields
<1>13. I \in [Node -> Nat] /\ D \in [Node -> Nat] /\ \A m \in Node : D[m] = IF m \in {c, n} THEN d ELSE s.depth[m]
  BY <1>0, <1>2, <1>8, TreeFields
<1>14. G \in [Group -> Logic] /\ \A h \in Group : G[h] = s.logic[h]
  <2>1. s.logic[n] = DefaultLogic
    BY <1>0 DEF Kept
  <2> QED BY <1>0, <1>2, <2>1, TreeFields
<1>15. C \in [Crit -> CritRecord] /\ \A x \in Crit : C[x] = IF x = c THEN rec ELSE s.crit[x]
  BY <1>0, <1>11, TreeFields
<1> HIDE DEF K, I, D, G, C
<1>16. u \in Tree /\ u.kids = K /\ u.index = I /\ u.depth = D /\ u.logic = G /\ u.crit = C
  <2>1. /\ K \in [Group -> Seq(Entry)] /\ I \in [Node -> Nat] /\ D \in [Node -> Nat]
        /\ G \in [Group -> Logic] /\ C \in [Crit -> CritRecord]
    BY <1>12, <1>13, <1>14, <1>15
  <2>2. u.kids = K /\ u.index = I /\ u.depth = D /\ u.logic = G /\ u.crit = C
    BY <1>4
  <2>3. u \in Tree
    BY <1>4, <2>1 DEF Tree
  <2> QED BY <2>2, <2>3
<1>17. n \notin Kids(s, g)
  BY <1>0, <1>1
<1>18. Kids(u, g) = (Kids(s, g) \ {c}) \cup {n} /\ Single(u, g)
  <2>1. u.kids[g] = row
    BY <1>12, <1>16
  <2>2. \A j \in DOMAIN old : old[j].node = c => j = i
    BY <1>0, <1>1, <1>6 DEF Single, old
  <2>3. \A j \in DOMAIN old : old[j].node # n
    BY <1>17, KidsAre DEF old
  <2>4. \A j \in DOMAIN old : row[j].node = IF j = i THEN n ELSE old[j].node
    BY <1>7, <1>9
  <2>5. \A a, b \in DOMAIN old : old[a].node = old[b].node => a = b
    BY <1>0, <1>1 DEF Single, old
  <2>6. Kids(s, g) = {old[j].node : j \in DOMAIN old} /\ Kids(u, g) = {row[j].node : j \in DOMAIN old}
    BY <1>9, <2>1, Zenon DEF Kids, old
  <2>7. ASSUME NEW m PROVE m \in Kids(u, g) <=> m \in (Kids(s, g) \ {c}) \cup {n}
    BY <1>2, <1>6, <2>2, <2>3, <2>4, <2>6
  <2>8. Single(u, g)
    BY <1>9, <2>1, <2>3, <2>4, <2>5 DEF Single
  <2> QED BY <2>7, <2>8
<1>19. Kids(u, n) = {c} /\ Len(u.kids[n]) = 1 /\ Single(u, n)
  <2>1. u.kids[n] = one
    BY <1>12, <1>16
  <2> QED BY <1>10, <2>1 DEF Kids, Single
<1>20. Len(u.kids[g]) = Len(s.kids[g])
  BY <1>9, <1>12, <1>16 DEF old
<1> QED BY <1>1, <1>3, <1>12, <1>13, <1>14, <1>15, <1>16, <1>18, <1>19, <1>20 DEF d, rec

LEMMA IndentReady ==
  ASSUME NEW s, TreeInv(s), NEW c \in Crit \cap Live(s), s.crit[c].right, NEW n \in Sub \ Live(s),
         NEW u, u = Indented(s, c, n)
  PROVE  \E L : Ready(u, L)
<1> DEFINE g == Parent(s, c)
           L == {Top} \cup Live(u)
<1>0. /\ s \in Tree /\ Apart(s) /\ Nested(s) /\ Kept(s) /\ Limited(s) /\ Arrows(s)
      /\ \A h \in Group : Single(s, h) /\ Kids(s, h) \subseteq Live(s)
  BY InvFacts
<1>1. /\ u \in Tree /\ g \in Group /\ c \in Kids(s, g) /\ g # n
      /\ \A h \in Group \ {g, n} : u.kids[h] = s.kids[h]
      /\ Kids(u, g) = (Kids(s, g) \ {c}) \cup {n} /\ Len(u.kids[g]) = Len(s.kids[g]) /\ Single(u, g)
      /\ Kids(u, n) = {c} /\ Len(u.kids[n]) = 1 /\ Single(u, n)
      /\ \A m \in Node : u.depth[m] = IF m \in {c, n} THEN DepthOf(s, g) + 1 ELSE s.depth[m]
      /\ \A x \in Crit : u.crit[x] = IF x = c THEN [Populate(s.crit[c]) EXCEPT !.right = FALSE] ELSE s.crit[x]
  BY IndentIs
<1> HIDE DEF g
<1>2. n \in Group /\ n \in Node /\ c \in Node /\ c \notin Sub /\ n \notin Crit /\ c \notin Group
  BY Nodes
<1>3. \A h \in Group \ {g, n} : Kids(u, h) = Kids(s, h) /\ (Single(s, h) => Single(u, h))
  BY <1>1 DEF Kids, Single
<1>4. \A h \in Group \ {g} : c \notin Kids(s, h)
  BY <1>0, <1>1 DEF Apart
<1>5. \A h \in Group : n \notin Kids(s, h)
  BY <1>0
<1>6. Kids(s, n) = {}
  <2>1. s.kids[n] = <<>>
    BY <1>0 DEF Kept
  <2> QED BY <1>0, <1>2, <2>1, EmptyKids
<1>7. Apart(u)
  <2> SUFFICES ASSUME NEW h \in Group, NEW k \in Group, NEW m \in Kids(u, h), m \in Kids(u, k) PROVE h = k
    BY DEF Apart
  <2>1. CASE m = n
    <3>1. \A f \in Group : n \in Kids(u, f) => f = g
      BY <1>1, <1>2, <1>3, <1>5
    <3> QED BY <2>1, <3>1
  <2>2. CASE m = c
    <3>1. \A f \in Group : c \in Kids(u, f) => f = n
      BY <1>1, <1>2, <1>3, <1>4
    <3> QED BY <2>2, <3>1
  <2>3. CASE m # n /\ m # c
    <3>1. \A f \in Group : m \in Kids(u, f) => m \in Kids(s, f)
      BY <1>1, <1>3, <2>3
    <3> QED BY <1>0, <3>1 DEF Apart
  <2> QED BY <2>1, <2>2, <2>3
<1>8. DepthOf(s, g) \in Nat /\ s.depth[c] = DepthOf(s, g)
  <2>1. DepthOf(s, g) \in Nat
    BY <1>0, <1>1, TreeFields, Nodes DEF DepthOf
  <2> QED BY <1>0, <1>1, <1>2, <2>1 DEF Nested
<1>9. DepthOf(u, n) = DepthOf(s, g) + 1 /\ \A h \in Group \ {n} : DepthOf(u, h) = DepthOf(s, h)
  BY <1>1, <1>2, Nodes DEF DepthOf
<1>10. Nested(u)
  <2> SUFFICES ASSUME NEW h \in Group, NEW m \in Kids(u, h)
               PROVE  u.depth[m] = DepthOf(u, h) + (IF m \in Sub THEN 1 ELSE 0)
    BY DEF Nested
  <2>1. CASE h = n
    BY <1>1, <1>2, <1>8, <1>9, <2>1
  <2>2. CASE m = n /\ h # n
    <3>1. h = g
      BY <1>1, <1>3, <1>5, <2>2
    <3> QED BY <1>1, <1>2, <1>9, <2>2, <3>1
  <2>3. CASE m # n /\ h # n
    <3>1. m \in Kids(s, h) /\ m # c
      BY <1>1, <1>3, <1>4, <2>3
    <3>2. m \in Node
      BY <1>0, <3>1, Entries
    <3> QED BY <1>0, <1>1, <1>9, <2>3, <3>1, <3>2 DEF Nested
  <2> QED BY <2>1, <2>2, <2>3
<1>11. Live(u) \subseteq Live(s) \cup {n} /\ \A h \in Group : Kids(u, h) \subseteq Live(u)
  <2>1. \A h \in Group : Kids(u, h) \subseteq Live(s) \cup {n}
    BY <1>0, <1>1, <1>3
  <2> QED BY <2>1, LiveAre
<1>12. Limited(u)
  <2> SUFFICES ASSUME DepthLimit # 0
               PROVE  /\ \A m \in Live(u) : u.depth[m] <= DepthLimit
                      /\ \A x \in Live(u) \cap Crit : u.crit[x].right => u.depth[x] < DepthLimit
    BY DEF Limited
  <2>1. /\ \A m \in Live(s) : s.depth[m] <= DepthLimit
        /\ \A x \in Live(s) \cap Crit : s.crit[x].right => s.depth[x] < DepthLimit
    BY <1>0 DEF Limited
  <2>2. DepthOf(s, g) + 1 <= DepthLimit
    <3>1. DepthOf(s, g) < DepthLimit
      BY <1>8, <2>1
    <3>2. DepthLimit \in Nat
      BY Assumptions
    <3> QED BY <1>8, <3>1, <3>2
  <2>3. \A m \in Live(u) : m \in Node /\ (m \in Live(s) \/ m = n)
    BY <1>1, <1>11, LiveAreNodes
  <2>4. \A m \in Live(u) : u.depth[m] <= DepthLimit
    BY <1>1, <2>1, <2>2, <2>3
  <2>5. ~u.crit[c].right
    <3>1. Populate(s.crit[c]) \in CritRecord
      BY <1>0, TreeFields, PopulatedCrit
    <3>2. [Populate(s.crit[c]) EXCEPT !.right = FALSE].right = FALSE
      BY <3>1 DEF CritRecord
    <3> QED BY <1>1, <3>2
  <2>6. \A x \in Live(u) \cap Crit : u.crit[x].right => u.depth[x] < DepthLimit
    <3> TAKE x \in Live(u) \cap Crit
    <3>1. CASE x = c
      BY <2>5, <3>1
    <3>2. CASE x # c
      <4>1. x \in Live(s) /\ x \in Node /\ x # n
        BY <1>2, <2>3
      <4> QED BY <1>1, <2>1, <3>2, <4>1
    <3> QED BY <3>1, <3>2
  <2> QED BY <2>4, <2>6
<1>13. \A h \in L \cap Sub : u.kids[h] # <<>>
  <2> TAKE h \in L \cap Sub
  <2>1. h \in Group /\ (h \in Live(s) \/ h = n)
    BY <1>11, Nodes
  <2>2. CASE h \in {g, n}
    <3>1. Kids(u, h) # {} /\ u \in Tree /\ h \in Group
      BY <1>1, <2>1, <2>2
    <3> QED BY <3>1, EmptyKids
  <2>3. CASE h \notin {g, n}
    <3>1. s.kids[h] # <<>>
      BY <1>0, <2>1, <2>3 DEF Kept
    <3> QED BY <1>1, <2>1, <2>3, <3>1
  <2> QED BY <2>2, <2>3
<1>14. ASSUME NEW h \in L \cap Group, NEW x \in Kids(u, h) \cap Crit,
              Len(u.kids[h]) > 1, DepthLimit = 0 \/ u.depth[x] < DepthLimit
       PROVE  u.crit[x].right
  <2>1. h # n
    <3>1. Len(u.kids[n]) = 1
      BY <1>1
    <3>2. ~(1 > 1)
      OBVIOUS
    <3> QED BY <1>14, <3>1, <3>2, Zenon
  <2>2. x # c /\ x # n /\ x \in Kids(s, h)
    BY <1>1, <1>2, <1>3, <1>4, <2>1
  <2>3. x \in Node /\ Len(s.kids[h]) > 1
    BY <1>0, <1>1, <1>14, <2>1, <2>2, Entries
  <2>4. DepthLimit = 0 \/ s.depth[x] < DepthLimit
    BY <1>1, <1>14, <2>2, <2>3
  <2>5. s.crit[x].right
    BY <1>0, <2>2, <2>3, <2>4 DEF Arrows
  <2> QED BY <1>1, <2>2, <2>5
<1>15. \A h \in Group : Single(u, h)
  BY <1>0, <1>1, <1>3
<1>16. Top \in L /\ \A h \in L \cap Group : Kids(u, h) \subseteq L
  BY <1>11
<1>17. Sound(u)
  BY <1>1, <1>7, <1>10, <1>15 DEF Sound
<1> HIDE DEF L
<1>18. Ready(u, L)
  BY <1>12, <1>13, <1>14, <1>16, <1>17 DEF Ready
<1> QED BY <1>18

\* The criterion is in two groups: dropped into the parent of its group, and
\* still in its group, with its old index.
Doubled(s, c) ==
  LET g == Parent(s, c)
      dropped == AddCriteria([s EXCEPT !.index[c] = s.index[g], !.crit[c] = Populate(@)],
                             Parent(s, g), c, s.index[g])
  IN [dropped EXCEPT !.index[c] = s.index[c]]

IsDoubled(s, c, g, p, w) ==
  /\ g \in Sub \cap Live(s) /\ p \in Group /\ p # g /\ g \in Kids(s, p) /\ c \in Kids(s, g) /\ c \notin Kids(s, p)
  /\ w \in Tree /\ w.index = s.index /\ w.logic = s.logic
  /\ w.depth = [s.depth EXCEPT ![c] = DepthOf(s, p)]
  /\ \A h \in Group \ {p} : w.kids[h] = s.kids[h]
  /\ Kids(w, p) = Kids(s, p) \cup {c} /\ Len(w.kids[p]) = Len(s.kids[p]) + 1 /\ Single(w, p)
  /\ \A i \in DOMAIN w.kids[p] :
       w.kids[p][i].node = c \/ \E j \in DOMAIN s.kids[p] : w.kids[p][i] = s.kids[p][j]
  /\ \A x \in Crit : [w.crit[x] EXCEPT !.right = FALSE]
                     = [(IF x = c THEN Populate(s.crit[c]) ELSE s.crit[x]) EXCEPT !.right = FALSE]
  /\ \A x \in Crit : x \notin Kids(w, p) => w.crit[x] = s.crit[x]
  /\ \A x \in Kids(w, p) \cap Crit : w.crit[x].right <=> Len(w.kids[p]) > 1 /\ Room(w, x)

LEMMA DoubledIs ==
  ASSUME NEW s, TreeInv(s), NEW c \in Crit \cap Live(s), s.depth[c] > 1, NEW g, g = Parent(s, c),
         NEW p, p = Parent(s, g), NEW w, w = Doubled(s, c)
  PROVE  IsDoubled(s, c, g, p, w)
<1>0. s \in Tree /\ Apart(s) /\ Nested(s) /\ Layered(s) /\ Kept(s) /\ \A h \in Group : Single(s, h) /\ Kids(s, h) \subseteq Live(s)
  BY InvFacts
<1>1. g \in Group /\ c \in Kids(s, g)
  BY ParentOf
<1>2. c \in Node /\ c \notin Sub /\ c \notin Group
  BY Nodes
<1>3. g \in Sub \cap Live(s)
  <2>1. s.depth[c] = DepthOf(s, g)
    <3>1. DepthOf(s, g) \in Nat
      BY <1>0, <1>1, TreeFields, Nodes DEF DepthOf
    <3> QED BY <1>0, <1>1, <1>2, <3>1 DEF Nested
  <2>2. g # Top
    BY <2>1 DEF DepthOf
  <2>3. g \in Sub /\ s.kids[g] # <<>>
    BY <1>0, <1>1, <2>2, EmptyKids, Nodes
  <2> QED BY <1>0, <2>3 DEF Kept
<1>4. p \in Group /\ g \in Kids(s, p)
  BY <1>3, ParentOf
<1>5. p # g
  <2>1. s.depth[g] > DepthOf(s, p)
    BY <1>0, <1>3, <1>4 DEF Layered
  <2>2. s.depth[g] \in Nat /\ g # Top
    BY <1>0, <1>3, TreeFields, Nodes
  <2> QED BY <2>1, <2>2 DEF DepthOf
<1>6. c \notin Kids(s, p)
  BY <1>0, <1>1, <1>4, <1>5 DEF Apart
<1> DEFINE I == [s.index EXCEPT ![c] = s.index[g]]
           C == [s.crit EXCEPT ![c] = Populate(s.crit[c])]
           b == [s EXCEPT !.index[c] = s.index[g], !.crit[c] = Populate(@)]
           v == AddCriteria(b, p, c, s.index[g])
           e == [node |-> c, index |-> s.index[g]]
<1>7. s.index[g] \in Nat /\ s.index[c] \in Nat /\ I \in [Node -> Nat] /\ C \in [Crit -> CritRecord]
  <2>1. Populate(s.crit[c]) \in CritRecord
    BY <1>0, TreeFields, PopulatedCrit
  <2> QED BY <1>0, <1>2, <1>3, <2>1, TreeFields, Nodes
<1>8. b \in Tree /\ b.kids = s.kids /\ b.depth = s.depth /\ b.logic = s.logic /\ b.index = I /\ b.crit = C
  <2>1. b = [s EXCEPT !.index = I, !.crit = C]
    BY Zenon
  <2> HIDE DEF b, I, C
  <2> QED BY <1>0, <1>7, <2>1 DEF Tree
<1>w. w = [v EXCEPT !.index[c] = s.index[c]]
  BY Zenon DEF Doubled
<1> HIDE DEF b, e
<1>9. (\A h : Kids(b, h) = Kids(s, h)) /\ \A h : DepthOf(b, h) = DepthOf(s, h)
  BY <1>8, SameKids DEF DepthOf
<1>10. /\ v \in Tree /\ v.index = b.index /\ v.logic = b.logic
       /\ v.depth = [b.depth EXCEPT ![c] = DepthOf(b, p)]
       /\ \A h \in Group \ {p} : v.kids[h] = b.kids[h]
       /\ Kids(v, p) = Kids(b, p) \cup {c} /\ Len(v.kids[p]) = Len(b.kids[p]) + 1 /\ Single(v, p)
       /\ \A i \in DOMAIN v.kids[p] : v.kids[p][i] = e \/ \E j \in DOMAIN b.kids[p] : v.kids[p][i] = b.kids[p][j]
       /\ \A x \in Crit : [v.crit[x] EXCEPT !.right = FALSE] = [b.crit[x] EXCEPT !.right = FALSE]
       /\ \A x \in Crit : x \notin Kids(v, p) => v.crit[x] = b.crit[x]
       /\ \A x \in Kids(v, p) \cap Crit : v.crit[x].right <=> Len(v.kids[p]) > 1 /\ Room(v, x)
  <2>1. c \notin Kids(b, p)
    BY <1>6, <1>9
  <2>2. Single(b, p)
    BY <1>0, <1>4, <1>8 DEF Single
  <2> DEFINE idx == s.index[g]
  <2>3. idx \in Nat /\ v = AddCriteria(b, p, c, idx) /\ e = [node |-> c, index |-> idx]
    BY <1>7 DEF e
  <2>4. b \in Tree /\ p \in Group
    BY <1>4, <1>8
  <2> HIDE DEF idx, v, C, I
  <2>5. Added(b, p, c, e, v)
    BY <2>1, <2>2, <2>3, <2>4, AddIs
  <2> QED BY <2>5 DEF Added
<1> HIDE DEF v
<1>11. /\ w \in Tree /\ w.kids = v.kids /\ w.depth = v.depth /\ w.logic = v.logic /\ w.crit = v.crit
       /\ w.index = [v.index EXCEPT ![c] = s.index[c]]
  <2> DEFINE J == [v.index EXCEPT ![c] = s.index[c]]
  <2>1. w = [v EXCEPT !.index = J]
    BY <1>w, Zenon
  <2>2. J \in [Node -> Nat]
    BY <1>7, <1>10, TreeFields
  <2> HIDE DEF J
  <2>3. /\ w \in Tree /\ w.kids = v.kids /\ w.depth = v.depth /\ w.logic = v.logic /\ w.crit = v.crit /\ w.index = J
    BY <1>10, <2>1, <2>2, NewIndex
  <2> QED BY <2>3 DEF J
<1>12. w.index = s.index
  <2>1. w.index = [I EXCEPT ![c] = s.index[c]]
    BY <1>8, <1>10, <1>11
  <2> QED BY <1>0, <1>2, <2>1, TreeFields
<1>13. (\A h : Kids(w, h) = Kids(v, h)) /\ (\A x : Room(w, x) <=> Room(v, x)) /\ (Single(v, p) => Single(w, p))
  BY <1>11, SameKids DEF Room, Single
<1>14. /\ w.logic = s.logic /\ w.depth = [s.depth EXCEPT ![c] = DepthOf(s, p)]
       /\ \A h \in Group \ {p} : w.kids[h] = s.kids[h]
  BY <1>8, <1>9, <1>10, <1>11
<1>15. Kids(w, p) = Kids(s, p) \cup {c} /\ Len(w.kids[p]) = Len(s.kids[p]) + 1 /\ Single(w, p)
  BY <1>8, <1>9, <1>10, <1>11, <1>13
<1>16. \A i \in DOMAIN w.kids[p] :
         w.kids[p][i].node = c \/ \E j \in DOMAIN s.kids[p] : w.kids[p][i] = s.kids[p][j]
  <2>1. e.node = c
    BY DEF e
  <2> QED BY <1>8, <1>10, <1>11, <2>1
<1>17. \A x \in Crit : C[x] = IF x = c THEN Populate(s.crit[c]) ELSE s.crit[x]
  BY <1>0, TreeFields
<1> HIDE DEF C
<1>18. \A x \in Crit : [w.crit[x] EXCEPT !.right = FALSE]
                       = [(IF x = c THEN Populate(s.crit[c]) ELSE s.crit[x]) EXCEPT !.right = FALSE]
  <2> TAKE x \in Crit
  <2>1. [w.crit[x] EXCEPT !.right = FALSE] = [C[x] EXCEPT !.right = FALSE]
    BY <1>8, <1>10, <1>11
  <2>2. C[x] = IF x = c THEN Populate(s.crit[c]) ELSE s.crit[x]
    BY <1>17
  <2> QED BY <2>1, <2>2, Zenon
<1>19. \A x \in Crit : x \notin Kids(w, p) => w.crit[x] = s.crit[x]
  BY <1>8, <1>10, <1>11, <1>13, <1>15, <1>17
<1>20. \A x \in Kids(w, p) \cap Crit : w.crit[x].right <=> Len(w.kids[p]) > 1 /\ Room(w, x)
  BY <1>10, <1>11, <1>13
<1> QED BY <1>1, <1>3, <1>4, <1>5, <1>6, <1>11, <1>12, <1>14, <1>15, <1>16, <1>18, <1>19, <1>20, Zenon DEF IsDoubled

\* The entries are found by their index before the groups are renumbered.
LEMMA DoubledRooted ==
  ASSUME NEW s, TreeInv(s), NEW c \in Crit \cap Live(s), s.depth[c] > 1, NEW g, g = Parent(s, c),
         NEW w, w = Doubled(s, c)
  PROVE  Rooted(w) /\ \E j : Found(w, g, c, j)
<1> DEFINE p == Parent(s, g)
<1>0. s \in Tree /\ Apart(s) /\ Placed(s) /\ Layered(s) /\ Rooted(s) /\ \A h \in Group : Single(s, h) /\ Kids(s, h) \subseteq Live(s)
  BY InvFacts
<1>1. /\ g \in Sub \cap Live(s) /\ p \in Group /\ p # g /\ g \in Kids(s, p) /\ c \in Kids(s, g)
      /\ w \in Tree /\ w.index = s.index
      /\ w.depth = [s.depth EXCEPT ![c] = DepthOf(s, p)]
      /\ \A h \in Group \ {p} : w.kids[h] = s.kids[h]
      /\ Kids(w, p) = Kids(s, p) \cup {c} /\ Single(w, p)
      /\ \A i \in DOMAIN w.kids[p] :
           w.kids[p][i].node = c \/ \E j \in DOMAIN s.kids[p] : w.kids[p][i] = s.kids[p][j]
  <2> HIDE DEF p
  <2>1. p = Parent(s, g)
    BY DEF p
  <2>2. IsDoubled(s, c, g, p, w)
    BY <2>1, DoubledIs
  <2> QED BY <2>2 DEF IsDoubled
<1> HIDE DEF p
<1>2. c \in Node /\ c \notin Sub /\ c \notin Group /\ g \in Group
  BY <1>1, Nodes
<1>3. \A h \in Group \ {p} : Kids(w, h) = Kids(s, h) /\ Single(w, h)
  BY <1>0, <1>1 DEF Kids, Single
<1>4. \A h \in Group : \A n \in Sub : n \in Kids(w, h) <=> n \in Kids(s, h)
  BY <1>1, <1>2, <1>3
<1>5. Layered(w)
  <2>1. \A n \in Node \ {c} : w.depth[n] = s.depth[n]
    BY <1>0, <1>1, TreeFields
  <2>2. \A h \in Group : DepthOf(w, h) = DepthOf(s, h)
    BY <1>2, <2>1, Nodes DEF DepthOf
  <2>3. ASSUME NEW h \in Group, NEW n \in Kids(w, h) \cap Sub PROVE w.depth[n] > DepthOf(w, h)
    <3>1. n \in Kids(s, h) /\ n \in Node \ {c}
      BY <1>2, <1>4, <2>3, Nodes
    <3> QED BY <1>0, <2>1, <2>2, <2>3, <3>1 DEF Layered
  <2> QED BY <2>3 DEF Layered
<1>6. \A h \in Group : \A n \in Kids(w, h) : n \in Live(w)
  BY DEF Live
<1>7. \A n \in Live(s) : n \in Live(w)
  <2> TAKE n \in Live(s)
  <2>1. PICK h \in Group : n \in Kids(s, h)
    BY LiveAre
  <2>2. n \in Kids(w, h)
    BY <1>1, <1>3, <2>1
  <2> QED BY <2>2, LiveAre
<1>8. ASSUME NEW h \in Group, NEW n \in Kids(w, h) \cap Sub
      PROVE  Parent(w, n) = h /\ (h \in Sub => h \in Live(w)) /\ \E j : Found(w, h, n, j)
  <2>1. n \in Kids(s, h) \cap Sub
    BY <1>4, <1>8
  <2>2. \A k \in Group : n \in Kids(w, k) => k = h
    BY <1>0, <1>4, <2>1 DEF Apart
  <2>3. Parent(w, n) = h
    <3>1. Parent(w, n) \in Group /\ n \in Kids(w, Parent(w, n))
      BY <1>6, <1>8, ParentOf
    <3> QED BY <2>2, <3>1
  <2>4. h \in Sub => h \in Live(w)
    BY <1>0, <1>7, <2>1 DEF Rooted
  <2>5. PICK m : Found(s, h, n, m)
    BY <1>0, <2>1 DEF Rooted
  <2>6. CASE h # p
    <3>1. w.kids[h] = s.kids[h] /\ w.index = s.index
      BY <1>1, <2>6
    <3>2. Found(w, h, n, m)
      BY <2>5, <3>1 DEF Found
    <3> QED BY <2>3, <2>4, <3>2
  <2>7. CASE h = p
    <3>1. PICK j \in DOMAIN w.kids[h] : w.kids[h][j].node = n
      BY <1>8, KidsAre
    <3>2. ASSUME NEW i \in DOMAIN w.kids[h], w.kids[h][i].index = w.index[n], w.kids[h][i].node \in Sub PROVE i = j
      <4>1. PICK a \in DOMAIN s.kids[h] : w.kids[h][i] = s.kids[h][a]
        BY <1>1, <1>2, <2>7, <3>2
      <4>2. a = m
        BY <1>1, <2>1, <2>5, <3>2, <4>1 DEF Found
      <4>3. w.kids[h][i].node = n
        BY <2>5, <4>1, <4>2 DEF Found
      <4> QED BY <1>1, <2>7, <3>1, <4>3 DEF Single
    <3>3. w.kids[h][j].index = w.index[n]
      <4>1. PICK a \in DOMAIN s.kids[h] : w.kids[h][j] = s.kids[h][a]
        BY <1>1, <1>2, <1>8, <2>7, <3>1
      <4>2. s.kids[h][a].node = n
        BY <3>1, <4>1
      <4>3. s.kids[h][a].index = s.index[n]
        BY <1>0, <4>2 DEF Placed
      <4> QED BY <1>1, <4>1, <4>3
    <3>4. Found(w, h, n, j)
      BY <1>8, <3>1, <3>2, <3>3 DEF Found
    <3> QED BY <2>3, <2>4, <3>4
  <2> QED BY <2>6, <2>7
<1>9. \A h \in Group : Single(w, h)
  BY <1>1, <1>3
<1>10. Rooted(w)
  BY <1>1, <1>5, <1>8, <1>9 DEF Rooted
<1>11. \E j : Found(w, g, c, j)
  <2>1. PICK j : Found(s, g, c, j)
    BY <1>1, <1>2, InvFacts
  <2>2. w.kids[g] = s.kids[g] /\ w.index = s.index
    BY <1>1, <1>2
  <2>3. Found(w, g, c, j)
    BY <2>1, <2>2 DEF Found
  <2> QED BY <2>3
<1> QED BY <1>10, <1>11

\* The criterion is in the parent of its group only, and a group that it leaves
\* empty is gone.
Outdented(s, c) == RemoveCriteria(Doubled(s, c), Parent(s, c), c)

LEMMA OutdentIs ==
  ASSUME NEW s, TreeInv(s), NEW c \in Crit \cap Live(s), s.depth[c] > 1, NEW g, g = Parent(s, c),
         NEW w, w = Doubled(s, c), NEW u, u = Outdented(s, c)
  PROVE  /\ Shrunk(w, u) /\ Kids(u, g) = Kids(s, g) \ {c}
         /\ \A h \in Group \ {g} : Kids(u, h) = IF Kids(u, g) = {} THEN Kids(w, h) \ {g} ELSE Kids(w, h)
<1> DEFINE p == Parent(s, g)
<1>0. s \in Tree /\ \A h \in Group : Single(s, h) /\ Kids(s, h) \subseteq Live(s)
  BY InvFacts
<1>1. /\ g \in Sub \cap Live(s) /\ p \in Group /\ p # g /\ g \in Kids(s, p) /\ c \in Kids(s, g)
      /\ w \in Tree
      /\ \A h \in Group \ {p} : w.kids[h] = s.kids[h]
      /\ Kids(w, p) = Kids(s, p) \cup {c} /\ Len(w.kids[p]) = Len(s.kids[p]) + 1 /\ Single(w, p)
  <2> HIDE DEF p
  <2>1. p = Parent(s, g)
    BY DEF p
  <2>2. IsDoubled(s, c, g, p, w)
    BY <2>1, DoubledIs
  <2> QED BY <2>2 DEF IsDoubled
<1> HIDE DEF p
<1>2. g \in Group /\ g # Top /\ c # g
  BY <1>1, Nodes
<1>3. w.kids[g] = s.kids[g] /\ Kids(w, g) = Kids(s, g) /\ Single(w, g)
  BY <1>0, <1>1, <1>2 DEF Kids, Single
<1>4. Rooted(w) /\ \E j : Found(w, g, c, j)
  BY DoubledRooted
<1>5. g \in Kids(w, p)
  BY <1>1
<1>6. Parent(w, g) = p /\ g \in Live(w)
  BY <1>1, <1>4, <1>5, LiveAre DEF Rooted
<1>7. u = RemoveCriteria(w, g, c)
  BY DEF Outdented
<1>8. CASE Len(w.kids[g]) <= 1
  <2>1. u = Destroy(w, g)
    BY <1>2, <1>7, <1>8 DEF RemoveCriteria
  <2>0. PICK U \in SUBSET Sub : IsDestroyed(w, g, u, U)
    BY <1>1, <1>4, <1>6, <2>1, DestroyIs
  <2>2. /\ Shrunk(w, u) /\ u.kids[g] = <<>>
        /\ Parent(w, g) = Top \/ Len(w.kids[Parent(w, g)]) > 1 => \A h \in Group \ {g} : Kids(u, h) = Kids(w, h) \ {g}
    BY <2>0 DEF IsDestroyed
  <2>3. Len(w.kids[p]) > 1
    <3>1. Len(s.kids[p]) \in Nat /\ Len(s.kids[p]) # 0
      <4>1. s.kids[p] \in Seq(Entry) /\ s.kids[p] # <<>>
        BY <1>0, <1>1, TreeFields, EmptyKids
      <4> QED BY <4>1
    <3>2. \A x \in Nat : x # 0 => x + 1 > 1
      OBVIOUS
    <3>3. Len(s.kids[p]) + 1 > 1
      BY <3>1, <3>2
    <3>4. Len(w.kids[p]) = Len(s.kids[p]) + 1
      BY <1>1
    <3> QED BY <3>3, <3>4, Zenon
  <2>4. \A h \in Group \ {g} : Kids(u, h) = Kids(w, h) \ {g}
    BY <1>6, <2>2, <2>3
  <2>5. Kids(u, g) = {}
    BY <2>2 DEF Kids
  <2>6. Kids(s, g) \ {c} = {}
    <3>1. Len(s.kids[g]) \in Nat /\ Len(s.kids[g]) <= 1 /\ DOMAIN s.kids[g] = 1..Len(s.kids[g])
      BY <1>0, <1>2, <1>3, <1>8, Entries
    <3>2. \A i, j \in DOMAIN s.kids[g] : i = j
      BY <3>1
    <3> QED BY <1>1, <3>2, KidsAre
  <2> QED BY <2>2, <2>4, <2>5, <2>6
<1>9. CASE ~(Len(w.kids[g]) <= 1)
  <2>1. u = Splice(w, g, c)
    BY <1>7, <1>9 DEF RemoveCriteria
  <2>2. PICK j : Found(w, g, c, j)
    BY <1>4
  <2>3. /\ Shrunk(w, u)
        /\ \A h \in Group \ {g} : u.kids[h] = w.kids[h]
        /\ Kids(u, g) = Kids(w, g) \ {c} /\ Len(u.kids[g]) = Len(w.kids[g]) - 1
    BY <1>1, <1>2, <1>3, <2>1, <2>2, SpliceIs
  <2>4. Kids(u, g) # {}
    <3>1. Len(w.kids[g]) \in Nat
      BY <1>1, <1>2, Entries
    <3>2. \A x \in Nat : ~(x <= 1) => x - 1 # 0
      OBVIOUS
    <3>3. Len(w.kids[g]) - 1 # 0
      BY <1>9, <3>1, <3>2
    <3>4. Len(u.kids[g]) = Len(w.kids[g]) - 1
      BY <2>3
    <3>5. Len(u.kids[g]) # 0
      BY <3>3, <3>4, Zenon
    <3>6. Len(<<>>) = 0
      OBVIOUS
    <3>7. u.kids[g] # <<>> /\ u \in Tree
      BY <2>3, <3>5, <3>6 DEF Shrunk
    <3> QED BY <1>2, <3>7, EmptyKids
  <2>5. \A h \in Group \ {g} : Kids(u, h) = Kids(w, h)
    BY <2>3 DEF Kids
  <2> QED BY <1>3, <2>3, <2>4, <2>5
<1> QED BY <1>8, <1>9

LEMMA OutdentReady ==
  ASSUME NEW s, TreeInv(s), NEW c \in Crit \cap Live(s), s.depth[c] > 1, NEW u, u = Outdented(s, c)
  PROVE  \E L : Ready(u, L)
<1> DEFINE g == Parent(s, c)
           p == Parent(s, g)
           w == Doubled(s, c)
           L == {Top} \cup Live(u)
<1>0. /\ s \in Tree /\ Apart(s) /\ Nested(s) /\ Kept(s) /\ Limited(s) /\ Arrows(s)
      /\ \A h \in Group : Single(s, h) /\ Kids(s, h) \subseteq Live(s)
  BY InvFacts
<1>g. g = Parent(s, c) /\ p = Parent(s, g) /\ w = Doubled(s, c)
  OBVIOUS
<1> HIDE DEF g, p, w
<1>1. /\ g \in Sub \cap Live(s) /\ p \in Group /\ p # g /\ g \in Kids(s, p) /\ c \in Kids(s, g) /\ c \notin Kids(s, p)
      /\ w \in Tree /\ w.depth = [s.depth EXCEPT ![c] = DepthOf(s, p)]
      /\ \A h \in Group \ {p} : w.kids[h] = s.kids[h]
      /\ Kids(w, p) = Kids(s, p) \cup {c} /\ Single(w, p)
      /\ \A x \in Crit : x \notin Kids(w, p) => w.crit[x] = s.crit[x]
      /\ \A x \in Kids(w, p) \cap Crit : w.crit[x].right <=> Len(w.kids[p]) > 1 /\ Room(w, x)
  <2>1. IsDoubled(s, c, g, p, w)
    BY <1>g, DoubledIs
  <2> QED BY <2>1 DEF IsDoubled
<1>2. /\ Shrunk(w, u) /\ Kids(u, g) = Kids(s, g) \ {c}
      /\ \A h \in Group \ {g} : Kids(u, h) = IF Kids(u, g) = {} THEN Kids(w, h) \ {g} ELSE Kids(w, h)
  BY <1>g, OutdentIs
<1>3. /\ u \in Tree /\ u.depth = w.depth /\ u.crit = w.crit
      /\ \A h \in Group : Len(u.kids[h]) <= Len(w.kids[h]) /\ (Single(w, h) => Single(u, h))
  BY <1>2 DEF Shrunk
<1>4. c \in Node /\ c \notin Sub /\ c \notin Group /\ g \in Group /\ g # Top
  BY <1>1, Nodes
<1>5. \A h \in Group \ {p} : Kids(w, h) = Kids(s, h) /\ Single(w, h)
  BY <1>0, <1>1 DEF Kids, Single
<1>6. \A h \in Group : Single(u, h)
  BY <1>1, <1>3, <1>5
<1>7. /\ \A h \in Group \ {p} : Kids(u, h) \subseteq Kids(s, h) /\ c \notin Kids(u, h)
      /\ Kids(u, p) \subseteq Kids(s, p) \cup {c} /\ c \in Kids(u, p)
  <2>1. ASSUME NEW h \in Group \ {p} PROVE Kids(u, h) \subseteq Kids(s, h) /\ c \notin Kids(u, h)
    <3>1. CASE h = g
      BY <1>2, <3>1
    <3>2. CASE h # g
      <4>1. c \notin Kids(s, h)
        BY <1>0, <1>1, <1>4, <3>2 DEF Apart
      <4> QED BY <1>2, <1>5, <3>2, <4>1
    <3> QED BY <3>1, <3>2
  <2>2. Kids(u, p) \subseteq Kids(s, p) \cup {c} /\ c \in Kids(u, p)
    BY <1>1, <1>2, <1>4
  <2> QED BY <2>1, <2>2
<1>8. Apart(u)
  <2> SUFFICES ASSUME NEW h \in Group, NEW k \in Group, NEW m \in Kids(u, h), m \in Kids(u, k) PROVE h = k
    BY DEF Apart
  <2>1. CASE m = c
    BY <1>7, <2>1
  <2>2. CASE m # c
    <3>1. m \in Kids(s, h) /\ m \in Kids(s, k)
      BY <1>7, <2>2
    <3> QED BY <1>0, <3>1 DEF Apart
  <2> QED BY <2>1, <2>2
<1>9. u.depth[c] = DepthOf(s, p) /\ \A n \in Node \ {c} : u.depth[n] = s.depth[n]
  BY <1>0, <1>1, <1>3, <1>4, TreeFields
<1>10. \A h \in Group : DepthOf(u, h) = DepthOf(s, h)
  BY <1>4, <1>9, Nodes DEF DepthOf
<1>11. DepthOf(s, p) \in Nat
  BY <1>0, <1>1, TreeFields, Nodes DEF DepthOf
<1>12. Nested(u)
  <2> SUFFICES ASSUME NEW h \in Group, NEW n \in Kids(u, h)
               PROVE  u.depth[n] = DepthOf(u, h) + (IF n \in Sub THEN 1 ELSE 0)
    BY DEF Nested
  <2>1. CASE n = c
    <3>1. h = p
      BY <1>7, <2>1
    <3> QED BY <1>4, <1>9, <1>10, <1>11, <2>1, <3>1
  <2>2. CASE n # c
    <3>1. n \in Kids(s, h) /\ n \in Node
      BY <1>3, <1>7, <2>2, Entries
    <3> QED BY <1>0, <1>9, <1>10, <2>2, <3>1 DEF Nested
  <2> QED BY <2>1, <2>2
<1>13. Live(u) \subseteq Live(s) /\ \A h \in Group : Kids(u, h) \subseteq Live(u)
  <2>1. \A h \in Group : Kids(u, h) \subseteq Live(s)
    BY <1>0, <1>1, <1>7
  <2> QED BY <2>1, LiveAre
<1>14. \A x \in Live(s) \cap Crit : x # c /\ x \notin Kids(w, p) => u.crit[x] = s.crit[x]
  BY <1>1, <1>3
<1>15. Limited(u)
  <2> SUFFICES ASSUME DepthLimit # 0
               PROVE  /\ \A m \in Live(u) : u.depth[m] <= DepthLimit
                      /\ \A x \in Live(u) \cap Crit : u.crit[x].right => u.depth[x] < DepthLimit
    BY DEF Limited
  <2>1. /\ \A m \in Live(s) : s.depth[m] <= DepthLimit
        /\ \A x \in Live(s) \cap Crit : s.crit[x].right => s.depth[x] < DepthLimit
    BY <1>0 DEF Limited
  <2>2. DepthOf(s, p) <= DepthLimit
    <3>1. CASE p = Top
      <4>1. DepthLimit \in Nat /\ DepthOf(s, p) = 1
        BY <3>1, Assumptions DEF DepthOf
      <4> QED BY <4>1
    <3>2. CASE p # Top
      <4>1. p \in Live(s)
        <5>1. s.kids[p] # <<>>
          BY <1>0, <1>1, EmptyKids
        <5> QED BY <1>0, <1>1, <3>2, <5>1, Nodes DEF Kept
      <4> QED BY <2>1, <3>2, <4>1 DEF DepthOf
    <3> QED BY <3>1, <3>2
  <2>3. \A m \in Live(u) : u.depth[m] <= DepthLimit
    <3> TAKE m \in Live(u)
    <3>1. m \in Live(s) /\ m \in Node
      BY <1>3, <1>13, LiveAreNodes
    <3> QED BY <1>9, <2>1, <2>2, <3>1
  <2>4. ASSUME NEW x \in Live(u) \cap Crit, u.crit[x].right PROVE u.depth[x] < DepthLimit
    <3>1. CASE x \in Kids(w, p)
      <4>1. Room(w, x)
        BY <1>1, <1>3, <2>4, <3>1
      <4> QED BY <1>3, <4>1 DEF Room
    <3>2. CASE x \notin Kids(w, p)
      <4>1. x \in Live(s) /\ x # c /\ x \in Node
        BY <1>1, <1>13, <3>2, Nodes
      <4> QED BY <1>1, <1>3, <1>9, <2>1, <2>4, <3>2, <4>1
    <3> QED BY <3>1, <3>2
  <2> QED BY <2>3, <2>4
<1>16. ASSUME NEW h \in L \cap Group, NEW x \in Kids(u, h) \cap Crit,
              Len(u.kids[h]) > 1, DepthLimit = 0 \/ u.depth[x] < DepthLimit
       PROVE  u.crit[x].right
  <2>1. Len(u.kids[h]) \in Nat /\ Len(w.kids[h]) \in Nat
    BY <1>1, <1>3, Entries
  <2>2. Len(w.kids[h]) > 1
    <3>1. \A a, b \in Nat : a > 1 /\ a <= b => b > 1
      OBVIOUS
    <3> QED BY <1>3, <1>16, <2>1, <3>1
  <2>3. CASE h = p
    <3>1. x \in Kids(w, p) /\ Room(w, x)
      BY <1>1, <1>3, <1>7, <1>16, <2>3 DEF Room
    <3> QED BY <1>1, <1>3, <2>2, <2>3, <3>1
  <2>4. CASE h # p
    <3>1. x \in Kids(s, h) /\ x # c /\ x \notin Kids(s, p) /\ x \in Node
      <4>1. x \in Kids(s, h) /\ x # c
        BY <1>7, <2>4
      <4>2. x \notin Kids(s, p)
        BY <1>0, <1>1, <2>4, <4>1 DEF Apart
      <4> QED BY <4>1, <4>2, Nodes
    <3>2. w.kids[h] = s.kids[h] /\ x \notin Kids(w, p)
      BY <1>1, <2>4, <3>1
    <3>3. s.crit[x].right
      BY <1>0, <1>9, <1>16, <2>2, <3>1, <3>2 DEF Arrows
    <3> QED BY <1>1, <1>3, <3>2, <3>3
  <2> QED BY <2>3, <2>4
<1>17. \A h \in L \cap Sub : u.kids[h] # <<>>
  <2> SUFFICES ASSUME NEW h \in Live(u) \cap Sub PROVE Kids(u, h) # {}
    BY <1>3, EmptyKids, Nodes
  <2>1. h \in Group /\ h \in Live(s)
    BY <1>13, Nodes
  <2>2. CASE h = p
    BY <1>7, <2>2
  <2>3. CASE h = g
    <3> SUFFICES ASSUME Kids(u, g) = {} PROVE FALSE
      BY <2>3
    <3>1. PICK k \in Group : g \in Kids(u, k)
      BY <2>3, LiveAre
    <3>2. k # g /\ g \notin Kids(u, k)
      BY <1>2, <3>1
    <3> QED BY <3>1, <3>2
  <2>4. CASE h # p /\ h # g
    <3>1. Kids(s, h) # {}
      <4>1. s.kids[h] # <<>>
        BY <1>0, <2>1 DEF Kept
      <4> QED BY <1>0, <2>1, <4>1, EmptyKids
    <3>2. g \notin Kids(s, h)
      BY <1>0, <1>1, <2>1, <2>4 DEF Apart
    <3> QED BY <1>2, <1>5, <2>1, <2>4, <3>1, <3>2
  <2> QED BY <2>2, <2>3, <2>4
<1>18. Top \in L /\ \A h \in L \cap Group : Kids(u, h) \subseteq L
  BY <1>13
<1>19. Sound(u)
  BY <1>3, <1>6, <1>8, <1>12 DEF Sound
<1> HIDE DEF L
<1>20. Ready(u, L)
  BY <1>15, <1>16, <1>17, <1>18, <1>19 DEF Ready
<1> QED BY <1>20

(* ----------------------- handlers without a redraw ----------------------- *)

LEMMA EmptyInv == TreeInv(EmptyTree)
<1> DEFINE t == EmptyTree
<1>1. /\ t \in Tree /\ (\A g \in Group : t.kids[g] = <<>> /\ t.logic[g] = DefaultLogic)
      /\ (\A n \in Node : t.depth[n] = 1) /\ \A c \in Crit : t.crit[c] = EmptyCrit
  <2>1. <<>> \in Seq(Entry) /\ DefaultLogic \in Logic /\ EmptyCrit \in CritRecord
    BY Records, Assumptions DEF Logic
  <2> QED BY <2>1, Zenon DEF EmptyTree, Tree
<1> HIDE DEF t
<1>2. (\A g \in Group : Kids(t, g) = {} /\ DOMAIN t.kids[g] = {}) /\ Live(t) = {}
  BY <1>1 DEF Kids, Live
<1>3. Sound(t)
  BY <1>1, <1>2 DEF Sound, Single, Apart, Nested
<1>4. Kept(t)
  BY <1>1, <1>2, Nodes DEF Kept
<1>5. Placed(t) /\ Limited(t) /\ Arrows(t)
  BY <1>2 DEF Placed, Limited, Arrows
<1> QED BY <1>3, <1>4, <1>5 DEF TreeInv, t

\* What the widgets of the criteria on the page, and the buttons of the logic,
\* change is not the shape of the tree.
LEMMA EditInv ==
  ASSUME NEW t, TreeInv(t), NEW u \in Tree, u.kids = t.kids, u.index = t.index, u.depth = t.depth,
         \A g \in Sub \ Live(t) : u.logic[g] = t.logic[g],
         \A c \in Crit : u.crit[c].right = t.crit[c].right,
         \A c \in Crit \ Live(t) : u.crit[c] = t.crit[c]
  PROVE  TreeInv(u)
<1>0. /\ t \in Tree /\ Apart(t) /\ Nested(t) /\ \A g \in Group : Single(t, g)
      /\ Placed(t) /\ Kept(t) /\ Limited(t) /\ Arrows(t)
  BY InvFacts
<1>1. (\A g : Kids(u, g) = Kids(t, g)) /\ Live(u) = Live(t) /\ \A g : DepthOf(u, g) = DepthOf(t, g)
  BY SameKids DEF DepthOf
<1>2. \A g \in Group : Single(u, g)
  BY <1>0 DEF Single
<1>3. Apart(u)
  BY <1>0, <1>1 DEF Apart
<1>4. Nested(u)
  BY <1>0, <1>1 DEF Nested
<1>5. Sound(u)
  BY <1>2, <1>3, <1>4 DEF Sound
<1>6. Placed(u)
  BY <1>0 DEF Placed
<1>7. Kept(u)
  BY <1>0, <1>1 DEF Kept
<1>8. Limited(u)
  BY <1>0, <1>1 DEF Limited
<1>9. Arrows(u)
  BY <1>0, <1>1 DEF Arrows
<1> QED BY <1>5, <1>6, <1>7, <1>8, <1>9 DEF TreeInv

\* "Add Condition": the new criterion is the last of its group.
AddedTo(s, g, c) == AddCriteria([s EXCEPT !.index[c] = Len(s.kids[g])], g, c, Len(s.kids[g]))

IsAdded(s, g, c, u) ==
  /\ TreeInv(u) /\ u.kids[g] # <<>> /\ (\A h \in Group \ {g} : u.kids[h] = s.kids[h])
  /\ Live(u) = Live(s) \cup {c} /\ Kids(u, g) = Kids(s, g) \cup {c} /\ u.logic = s.logic
  /\ \A x \in Crit : [u.crit[x] EXCEPT !.right = FALSE] = [s.crit[x] EXCEPT !.right = FALSE]

LEMMA AddInv ==
  ASSUME NEW s, TreeInv(s), NEW g \in LiveGroups(s), NEW c \in Crit \ Live(s), NEW u, u = AddedTo(s, g, c)
  PROVE  IsAdded(s, g, c, u)
<1> DEFINE n == Len(s.kids[g])
           I == [s.index EXCEPT ![c] = n]
           b == [s EXCEPT !.index[c] = n]
           e == [node |-> c, index |-> n]
<1>0. /\ s \in Tree /\ Apart(s) /\ Nested(s) /\ Placed(s) /\ Kept(s) /\ Limited(s) /\ Arrows(s)
      /\ \A h \in Group : Single(s, h) /\ Kids(s, h) \subseteq Live(s)
  BY InvFacts
<1>1. g \in Group /\ c \in Node /\ c \notin Sub /\ c \notin Group /\ (g = Top \/ g \in Sub \cap Live(s))
  BY Nodes DEF LiveGroups
<1>2. n \in Nat /\ DOMAIN s.kids[g] = 1..n /\ s.kids[g] \in Seq(Entry)
  BY <1>0, <1>1, Entries
<1>3. b \in Tree /\ b.kids = s.kids /\ b.depth = s.depth /\ b.logic = s.logic /\ b.crit = s.crit /\ b.index = I
  <2>1. b = [s EXCEPT !.index = I] /\ I \in [Node -> Nat]
    BY <1>0, <1>2, TreeFields
  <2> HIDE DEF b, I
  <2> QED BY <1>0, <2>1 DEF Tree
<1>u. u = AddCriteria(b, g, c, n)
  BY Zenon DEF AddedTo
<1> HIDE DEF b, n
<1>4. (\A h : Kids(b, h) = Kids(s, h)) /\ (\A h : DepthOf(b, h) = DepthOf(s, h)) /\ Single(b, g)
  BY <1>0, <1>1, <1>3, SameKids DEF DepthOf, Single
<1>5. c \notin Kids(b, g)
  BY <1>0, <1>1, <1>4
<1>6. Added(b, g, c, e, u)
  BY <1>1, <1>2, <1>3, <1>4, <1>5, <1>u, AddIs
<1>7. /\ u \in Tree /\ u.index = I /\ u.logic = s.logic
      /\ u.depth = [s.depth EXCEPT ![c] = DepthOf(s, g)]
      /\ \A h \in Group \ {g} : u.kids[h] = s.kids[h]
      /\ Kids(u, g) = Kids(s, g) \cup {c} /\ Single(u, g)
      /\ \A x \in Crit : x \notin Kids(u, g) => u.crit[x] = s.crit[x]
      /\ \A x \in Kids(u, g) \cap Crit : u.crit[x].right <=> Len(u.kids[g]) > 1 /\ Room(u, x)
      /\ (\A i \in DOMAIN s.kids[g] : I[s.kids[g][i].node] = i - 1) /\ I[c] = n => u.kids[g] = Append(s.kids[g], e)
  BY <1>3, <1>4, <1>6 DEF Added, n
<1>8. I[c] = n /\ \A m \in Node \ {c} : I[m] = s.index[m]
  BY <1>0, <1>1, TreeFields
<1>9. \A h \in Group : \A i \in DOMAIN s.kids[h] : s.kids[h][i].node \in Node \ {c} /\ s.kids[h][i].node \in Live(s)
  BY <1>0, KidsAre, Entries
<1>10. u.kids[g] = Append(s.kids[g], e)
  <2>1. \A i \in DOMAIN s.kids[g] : I[s.kids[g][i].node] = i - 1
    BY <1>0, <1>1, <1>8, <1>9 DEF Placed
  <2> QED BY <1>7, <1>8, <2>1
<1> HIDE DEF I
<1>11. \A h \in Group \ {g} : Kids(u, h) = Kids(s, h) /\ Single(u, h)
  BY <1>0, <1>7 DEF Kids, Single
<1>12. u.depth[c] = DepthOf(s, g) /\ \A m \in Node \ {c} : u.depth[m] = s.depth[m]
  BY <1>0, <1>1, <1>7, TreeFields
<1>13. \A h \in Group : DepthOf(u, h) = DepthOf(s, h)
  BY <1>1, <1>12, Nodes DEF DepthOf
<1>14. Live(u) = Live(s) \cup {c}
  <2>1. \A h \in Group : Kids(u, h) \subseteq Live(s) \cup {c} /\ Kids(s, h) \subseteq Kids(u, h)
    BY <1>0, <1>7, <1>11
  <2>2. c \in Kids(u, g)
    BY <1>7
  <2> QED BY <1>1, <2>1, <2>2, LiveAre
<1>15. Apart(u)
  <2> SUFFICES ASSUME NEW h \in Group, NEW k \in Group, NEW m \in Kids(u, h), m \in Kids(u, k) PROVE h = k
    BY DEF Apart
  <2>1. CASE m = c
    <3>1. \A f \in Group \ {g} : c \notin Kids(u, f)
      BY <1>0, <1>11
    <3> QED BY <2>1, <3>1
  <2>2. CASE m # c
    <3>1. m \in Kids(s, h) /\ m \in Kids(s, k)
      BY <1>7, <1>11, <2>2
    <3> QED BY <1>0, <3>1 DEF Apart
  <2> QED BY <2>1, <2>2
<1>16. DepthOf(s, g) \in Nat
  BY <1>0, <1>1, TreeFields, Nodes DEF DepthOf
<1>17. Nested(u)
  <2> SUFFICES ASSUME NEW h \in Group, NEW m \in Kids(u, h)
               PROVE  u.depth[m] = DepthOf(u, h) + (IF m \in Sub THEN 1 ELSE 0)
    BY DEF Nested
  <2>1. CASE m = c
    <3>1. h = g
      BY <1>0, <1>11, <2>1
    <3> QED BY <1>1, <1>12, <1>13, <1>16, <2>1, <3>1
  <2>2. CASE m # c
    <3>1. m \in Kids(s, h) /\ m \in Node
      BY <1>7, <1>11, <2>2, Entries
    <3> QED BY <1>0, <1>12, <1>13, <2>2, <3>1 DEF Nested
  <2> QED BY <2>1, <2>2
<1>18. Sound(u)
  BY <1>7, <1>11, <1>15, <1>17 DEF Sound
<1>19. Placed(u)
  <2> SUFFICES ASSUME NEW h \in Group, NEW i \in DOMAIN u.kids[h]
               PROVE  u.kids[h][i].index = i - 1 /\ u.index[u.kids[h][i].node] = i - 1
    BY DEF Placed
  <2>1. CASE h # g
    <3>1. u.kids[h] = s.kids[h] /\ s.kids[h][i].node \in Node \ {c}
      BY <1>7, <1>9, <2>1
    <3> QED BY <1>0, <1>7, <1>8, <3>1 DEF Placed
  <2>2. CASE h = g
    <3>1. ASSUME NEW x \in Seq(Entry), NEW y
          PROVE  /\ DOMAIN Append(x, y) = 1..(Len(x) + 1)
                 /\ Append(x, y)[Len(x) + 1] = y /\ \A j \in 1..Len(x) : Append(x, y)[j] = x[j]
      OBVIOUS
    <3>2. /\ DOMAIN u.kids[g] = 1..(n + 1)
          /\ u.kids[g][n + 1] = e /\ \A j \in 1..n : u.kids[g][j] = s.kids[g][j]
      BY <1>2, <1>10, <3>1 DEF n
    <3>3. CASE i = n + 1
      <4>1. u.kids[g][i] = e
        BY <3>2, <3>3
      <4>2. e.node = c /\ e.index = n /\ i - 1 = n
        BY <1>2, <3>3
      <4> QED BY <1>7, <1>8, <2>2, <4>1, <4>2
    <3>4. CASE i # n + 1
      <4>1. i \in 1..n
        BY <1>2, <2>2, <3>2, <3>4
      <4>2. u.kids[g][i] = s.kids[g][i] /\ i \in DOMAIN s.kids[g]
        BY <1>2, <3>2, <4>1
      <4>3. s.kids[g][i].index = i - 1 /\ s.index[s.kids[g][i].node] = i - 1
        BY <1>0, <1>1, <4>2 DEF Placed
      <4> QED BY <1>1, <1>7, <1>8, <1>9, <2>2, <4>2, <4>3
    <3> QED BY <3>3, <3>4
  <2> QED BY <2>1, <2>2
<1>20. Kept(u)
  <2>1. \A h \in Sub : u.kids[h] # <<>> <=> h \in Live(u)
    <3> TAKE h \in Sub
    <3>1. h \in Group /\ h # c
      BY <1>1, Nodes
    <3>2. CASE h = g
      <4>1. h \in Live(u)
        BY <1>1, <1>14, <3>2, Nodes
      <4>2. u.kids[h] # <<>>
        BY <1>7, <3>1, <3>2, EmptyKids
      <4> QED BY <4>1, <4>2
    <3>3. CASE h # g
      BY <1>0, <1>7, <1>14, <3>1, <3>3 DEF Kept
    <3> QED BY <3>2, <3>3
  <2>2. \A m \in Node \ Live(u) : u.depth[m] = 1
    BY <1>0, <1>12, <1>14 DEF Kept
  <2>3. \A h \in Sub \ Live(u) : u.logic[h] = DefaultLogic
    BY <1>0, <1>7, <1>14 DEF Kept
  <2>4. \A x \in Crit \ Live(u) : u.crit[x] = EmptyCrit
    <3> TAKE x \in Crit \ Live(u)
    <3>1. x \notin Kids(u, g) /\ x \notin Live(s)
      BY <1>1, <1>14, LiveAre
    <3> QED BY <1>0, <1>7, <3>1 DEF Kept
  <2> QED BY <2>1, <2>2, <2>3, <2>4 DEF Kept
<1>21. Limited(u)
  <2> SUFFICES ASSUME DepthLimit # 0
               PROVE  /\ \A m \in Live(u) : u.depth[m] <= DepthLimit
                      /\ \A x \in Live(u) \cap Crit : u.crit[x].right => u.depth[x] < DepthLimit
    BY DEF Limited
  <2>1. /\ \A m \in Live(s) : s.depth[m] <= DepthLimit
        /\ \A x \in Live(s) \cap Crit : s.crit[x].right => s.depth[x] < DepthLimit
    BY <1>0 DEF Limited
  <2>2. DepthOf(s, g) <= DepthLimit
    <3>1. CASE g = Top
      <4>1. DepthLimit \in Nat /\ DepthOf(s, g) = 1
        BY <3>1, Assumptions DEF DepthOf
      <4> QED BY <4>1
    <3>2. CASE g # Top
      BY <1>1, <2>1, <3>2 DEF DepthOf
    <3> QED BY <3>1, <3>2
  <2>3. \A m \in Live(u) : u.depth[m] <= DepthLimit
    <3> TAKE m \in Live(u)
    <3>1. m \in Node /\ (m = c \/ m \in Live(s))
      BY <1>7, <1>14, LiveAreNodes
    <3> QED BY <1>12, <2>1, <2>2, <3>1
  <2>4. ASSUME NEW x \in Live(u) \cap Crit, u.crit[x].right PROVE u.depth[x] < DepthLimit
    <3>1. CASE x \in Kids(u, g)
      BY <1>7, <2>4, <3>1 DEF Room
    <3>2. CASE x \notin Kids(u, g)
      <4>1. x \in Live(s) /\ x # c /\ x \in Node
        BY <1>7, <1>14, <3>2, Nodes
      <4> QED BY <1>7, <1>12, <2>1, <2>4, <3>2, <4>1
    <3> QED BY <3>1, <3>2
  <2> QED BY <2>3, <2>4
<1>22. Arrows(u)
  <2> SUFFICES ASSUME NEW h \in Group, NEW x \in Kids(u, h) \cap Crit,
                      Len(u.kids[h]) > 1 /\ (DepthLimit = 0 \/ u.depth[x] < DepthLimit)
               PROVE  u.crit[x].right
    BY DEF Arrows
  <2>1. CASE h = g
    BY <1>7, <2>1 DEF Room
  <2>2. CASE h # g
    <3>1. x \in Kids(s, h) /\ x # c /\ x \in Node /\ u.kids[h] = s.kids[h]
      BY <1>0, <1>7, <1>11, <2>2, Nodes
    <3>2. x \notin Kids(u, g)
      BY <1>1, <1>15, <2>2 DEF Apart
    <3>3. s.crit[x].right
      BY <1>0, <1>12, <3>1 DEF Arrows
    <3> QED BY <1>7, <3>2, <3>3
  <2> QED BY <2>1, <2>2
<1>23. u.kids[g] # <<>>
  BY <1>1, <1>7, EmptyKids
<1>24. \A x \in Crit : [u.crit[x] EXCEPT !.right = FALSE] = [s.crit[x] EXCEPT !.right = FALSE]
  <2>1. \A x \in Crit : [u.crit[x] EXCEPT !.right = FALSE] = [b.crit[x] EXCEPT !.right = FALSE]
    BY <1>6, Zenon DEF Added
  <2>2. b.crit = s.crit
    BY <1>3
  <2> QED BY <2>1, <2>2
<1>25. TreeInv(u)
  BY <1>18, <1>19, <1>20, <1>21, <1>22 DEF TreeInv
<1>26. (\A h \in Group \ {g} : u.kids[h] = s.kids[h]) /\ Kids(u, g) = Kids(s, g) \cup {c} /\ u.logic = s.logic
  BY <1>7
<1> QED BY <1>14, <1>23, <1>24, <1>25, <1>26, Zenon DEF IsAdded

(* ------------------------- lists of a script ----------------------------- *)

\* What a list says of a criterion.
Choice == [data : Column \cup {None}, cond : Condition \cup {None}, value : Value \cup {None}]

\* The record of a new criterion of a list.
Listed(r, x) ==
  /\ r \in CritRecord /\ r.right = FALSE /\ r.filled = FALSE
  /\ r.data = x.data /\ r.cond = x.cond /\ r.value = x.value

Extended(s, d, ids, u, new) ==
  /\ u \in Tree /\ u.depth = s.depth /\ new \in SUBSET (Crit \ Live(s)) /\ DOMAIN ids = 1..Len(d.criteria)
  /\ \A h \in Group \ {Top} : u.kids[h] = s.kids[h] /\ u.logic[h] = s.logic[h]
  /\ u.logic[Top] = d.logic
  /\ Kids(u, Top) = Kids(s, Top) \cup new /\ Single(u, Top)
  /\ Len(u.kids[Top]) = Len(s.kids[Top]) + Len(d.criteria)
  /\ \A i \in DOMAIN ids : u.kids[Top][Len(s.kids[Top]) + i].node = ids[i] /\ ids[i] \in new
  /\ \A c \in Crit \ new : u.crit[c] = s.crit[c]
  /\ \A i \in DOMAIN ids : Listed(u.crit[ids[i]], d.criteria[i])
  /\ \A c \in new : \E i \in DOMAIN ids : c = ids[i]

LEMMA ExtendIs ==
  ASSUME NEW s, TreeInv(s), NEW d \in Lists, NEW ids \in NewObjects(s, d), NEW u, u = Extend(s, d, ids)
  PROVE  \E new : Extended(s, d, ids, u, new)
<1> DEFINE new == {ids[i] : i \in DOMAIN ids}
<1> DEFINE fresh == {ids[i] : i \in DOMAIN ids}
           m == Len(d.criteria)
           n == Len(s.kids[Top])
           old == s.kids[Top]
           at(c) == CHOOSE i \in DOMAIN ids : ids[i] = c
           tail == [i \in DOMAIN ids |-> [node |-> ids[i], index |-> n + i - 1]]
           made(c) == [EmptyCrit EXCEPT !.data = d.criteria[at(c)].data, !.cond = d.criteria[at(c)].cond,
                                        !.value = d.criteria[at(c)].value]
           K == [s.kids EXCEPT ![Top] = s.kids[Top] \o tail]
           G == [s.logic EXCEPT ![Top] = d.logic]
           I == [k \in Node |-> IF k \in fresh THEN n + at(k) - 1 ELSE s.index[k]]
           C == [c \in Crit |-> IF c \notin fresh THEN s.crit[c] ELSE made(c)]
<1> HIDE DEF new
<1>0. s \in Tree /\ (\A h \in Group : Single(s, h) /\ Kids(s, h) \subseteq Live(s)) /\ Top \in Group
  BY InvFacts, Nodes
<1>1. d.logic \in Logic /\ m \in Nat /\ \A i \in 1..m : d.criteria[i] \in Choice
  <2>1. d.criteria \in Seq(Choice) /\ d.logic \in Logic
    BY DEF Lists, Logic, Choice
  <2>2. ASSUME NEW x \in Seq(Choice) PROVE Len(x) \in Nat /\ \A i \in 1..Len(x) : x[i] \in Choice
    OBVIOUS
  <2> QED BY <2>1, <2>2
<1>2. /\ ids \in [1..m -> Crit \ Live(s)] /\ DOMAIN ids = 1..m /\ \A i, j \in 1..m : ids[i] = ids[j] => i = j
      /\ new \in SUBSET (Crit \ Live(s)) /\ new = fresh
      /\ (\A i \in 1..m : ids[i] \in new) /\ \A c \in new : \E i \in 1..m : ids[i] = c
  BY DEF NewObjects, new
<1>3. ASSUME NEW i \in DOMAIN ids PROVE at(ids[i]) = i /\ ids[i] \in new
  BY <1>2, <1>3 DEF new
<1>4. \A c \in new : at(c) \in DOMAIN ids /\ ids[at(c)] = c
  <2> TAKE c \in new
  <2>1. PICK i \in DOMAIN ids : ids[i] = c
    BY DEF new
  <2>2. at(c) = i
    BY <1>3, <2>1
  <2> HIDE DEF at
  <2> QED BY <2>1, <2>2
<1>5. u = [s EXCEPT !.kids = K, !.logic = G, !.index = I, !.crit = C]
  <2>1. u = [s EXCEPT !.kids[Top] = @ \o tail, !.logic[Top] = d.logic, !.index = I, !.crit = C]
    BY Zenon DEF Extend
  <2> HIDE DEF tail, I, C, fresh
  <2> QED BY <1>0, <2>1, TreeFields
<1>6. old \in Seq(Entry) /\ n \in Nat /\ DOMAIN old = 1..n
  BY <1>0, Entries
<1> HIDE DEF m, n, at, fresh, new
<1>7. tail \in Seq(Entry) /\ Len(tail) = m /\ DOMAIN tail = 1..m /\ \A i \in 1..m : tail[i].node = ids[i]
  <2>1. \A i \in 1..m : tail[i] \in Entry /\ tail[i].node = ids[i]
    <3> TAKE i \in 1..m
    <3>1. n + i - 1 \in Nat /\ ids[i] \in Node
      BY <1>1, <1>2, <1>6, Nodes
    <3>2. tail[i] = [node |-> ids[i], index |-> n + i - 1]
      BY <1>2
    <3> HIDE DEF tail
    <3> QED BY <3>1, <3>2 DEF Entry
  <2>2. tail = [i \in 1..m |-> tail[i]]
    BY <1>2
  <2> HIDE DEF tail
  <2>3. ASSUME NEW x \in [1..m -> Entry] PROVE x \in Seq(Entry) /\ Len(x) = m /\ DOMAIN x = 1..m
    BY <1>1
  <2>4. tail \in [1..m -> Entry]
    BY <2>1, <2>2
  <2> QED BY <2>1, <2>3, <2>4
<1> HIDE DEF tail, old
<1>8. /\ old \o tail \in Seq(Entry) /\ Len(old \o tail) = n + m /\ DOMAIN (old \o tail) = 1..(n + m)
      /\ \A i \in 1..n : (old \o tail)[i] = old[i]
      /\ \A i \in 1..m : (old \o tail)[n + i] = tail[i]
  <2>1. ASSUME NEW x \in Seq(Entry), NEW y \in Seq(Entry)
        PROVE  /\ x \o y \in Seq(Entry) /\ Len(x \o y) = Len(x) + Len(y) /\ DOMAIN (x \o y) = 1..(Len(x) + Len(y))
               /\ \A i \in 1..Len(x) : (x \o y)[i] = x[i]
               /\ \A i \in 1..Len(y) : (x \o y)[Len(x) + i] = y[i]
    OBVIOUS
  <2>2. Len(old) = n
    BY DEF n, old
  <2> QED BY <1>6, <1>7, <2>1, <2>2
<1> DEFINE all == old \o tail
<1>9. K = [s.kids EXCEPT ![Top] = all] /\ all \in Seq(Entry) /\ DOMAIN all = 1..(n + m) /\ Len(all) = n + m
      /\ (\A i \in 1..n : all[i] = old[i]) /\ \A i \in 1..m : all[n + i].node = ids[i]
  BY <1>7, <1>8 DEF old
<1> HIDE DEF all
<1>10. K \in [Group -> Seq(Entry)] /\ K[Top] = all /\ \A h \in Group \ {Top} : K[h] = s.kids[h]
  BY <1>0, <1>9, TreeFields
<1>11. G \in [Group -> Logic] /\ G[Top] = d.logic /\ \A h \in Group \ {Top} : G[h] = s.logic[h]
  BY <1>0, <1>1, TreeFields
<1>12. I \in [Node -> Nat]
  <2>1. \A k \in new : n + at(k) - 1 \in Nat
    <3> TAKE k \in new
    <3>1. at(k) \in 1..m
      BY <1>2, <1>4
    <3> QED BY <1>1, <1>6, <3>1
  <2> QED BY <1>0, <1>2, <2>1, TreeFields
<1>13. ASSUME NEW i \in 1..m
       PROVE  Listed(made(ids[i]), d.criteria[i])
  <2>1. at(ids[i]) = i
    BY <1>2, <1>3
  <2>2. ASSUME NEW x \in Choice
        PROVE  Listed([EmptyCrit EXCEPT !.data = x.data, !.cond = x.cond, !.value = x.value], x)
    BY DEF EmptyCrit, CritRecord, Choice, Listed
  <2>3. made(ids[i]) = [EmptyCrit EXCEPT !.data = d.criteria[i].data, !.cond = d.criteria[i].cond,
                                         !.value = d.criteria[i].value]
    BY <2>1
  <2> HIDE DEF made
  <2> QED BY <1>1, <2>2, <2>3
<1>14. (\A c \in Crit \ new : C[c] = s.crit[c]) /\ \A i \in 1..m : C[ids[i]] = made(ids[i])
  BY <1>2, <1>3
<1> HIDE DEF made, C
<1>15. C \in [Crit -> CritRecord]
  <2>1. \A c \in Crit : C[c] \in CritRecord
    <3> TAKE c \in Crit
    <3>1. CASE c \in new
      <4>1. PICK i \in 1..m : ids[i] = c
        BY <1>2, <3>1
      <4> QED BY <1>13, <1>14, <4>1 DEF Listed
    <3>2. CASE c \notin new
      BY <1>0, <1>14, <3>2, TreeFields
    <3> QED BY <3>1, <3>2
  <2>2. C = [c \in Crit |-> C[c]]
    BY DEF C
  <2> QED BY <2>1, <2>2
<1> HIDE DEF K, G, I
<1>16. /\ u.kids = K /\ u.index = I /\ u.logic = G /\ u.crit = C /\ u.depth = s.depth /\ u \in Tree
  BY <1>0, <1>5, <1>10, <1>11, <1>12, <1>15 DEF Tree
<1>17. Kids(u, Top) = Kids(s, Top) \cup new /\ Single(u, Top)
  <2>1. u.kids[Top] = all
    BY <1>10, <1>16
  <2>2. Kids(s, Top) = {old[i].node : i \in 1..n}
    BY <1>6 DEF Kids, old
  <2>3. Kids(u, Top) = {all[i].node : i \in 1..(n + m)}
    BY <1>9, <2>1 DEF Kids
  <2>4. \A i \in 1..(n + m) : i \in 1..n \/ \E j \in 1..m : i = n + j
    <3> TAKE i \in 1..(n + m)
    <3>1. i \notin 1..n => i - n \in 1..m /\ i = n + (i - n)
      BY <1>1, <1>6
    <3> QED BY <3>1
  <2>5. ASSUME NEW x \in Kids(u, Top) PROVE x \in Kids(s, Top) \cup new
    <3>1. PICK i \in 1..(n + m) : x = all[i].node
      BY <2>3, <2>5
    <3>2. CASE i \in 1..n
      BY <1>9, <2>2, <3>1, <3>2
    <3>3. CASE \E j \in 1..m : i = n + j
      <4>1. PICK j \in 1..m : i = n + j
        BY <3>3
      <4>2. x = ids[j]
        BY <1>9, <3>1, <4>1
      <4> QED BY <1>2, <4>2
    <3> QED BY <2>4, <3>2, <3>3
  <2>6. ASSUME NEW x \in Kids(s, Top) PROVE x \in Kids(u, Top)
    <3>1. PICK i \in 1..n : x = old[i].node
      BY <2>2, <2>6
    <3>2. i \in 1..(n + m)
      BY <1>1, <1>6
    <3> QED BY <1>9, <2>3, <3>1, <3>2
  <2>7. ASSUME NEW x \in new PROVE x \in Kids(u, Top)
    <3>1. PICK j \in 1..m : x = ids[j]
      BY <1>2, <2>7
    <3>2. n + j \in 1..(n + m)
      BY <1>1, <1>6
    <3>3. x = all[n + j].node
      BY <1>9, <3>1
    <3> QED BY <2>3, <3>2, <3>3
  <2>8. ASSUME NEW a \in 1..(n + m), NEW b \in 1..(n + m), all[a].node = all[b].node PROVE a = b
    <3>1. \A i \in 1..n : all[i].node \in Live(s)
      BY <1>0, <1>9, <2>2
    <3>2. \A j \in 1..m : all[n + j].node \notin Live(s)
      BY <1>2, <1>9
    <3>3. CASE a \in 1..n /\ b \in 1..n
      <4>1. old[a].node = old[b].node
        BY <1>9, <2>8, <3>3
      <4> QED BY <1>0, <1>6, <3>3, <4>1 DEF Single, old
    <3>4. CASE a \notin 1..n /\ b \notin 1..n
      <4>1. PICK i \in 1..m : a = n + i
        BY <2>4, <3>4
      <4>2. PICK j \in 1..m : b = n + j
        BY <2>4, <3>4
      <4>3. ids[i] = ids[j]
        BY <1>9, <2>8, <4>1, <4>2
      <4>4. i = j
        BY <1>2, <4>3
      <4> QED BY <4>1, <4>2, <4>4
    <3>5. CASE (a \in 1..n /\ b \notin 1..n) \/ (a \notin 1..n /\ b \in 1..n)
      BY <2>4, <2>8, <3>1, <3>2, <3>5
    <3> QED BY <3>3, <3>4, <3>5
  <2>9. Single(u, Top)
    BY <1>9, <2>1, <2>8 DEF Single
  <2> QED BY <2>5, <2>6, <2>7, <2>9
<1>18. Len(u.kids[Top]) = Len(s.kids[Top]) + Len(d.criteria) /\ \A i \in DOMAIN ids : u.kids[Top][Len(s.kids[Top]) + i].node = ids[i]
  <2>1. u.kids[Top] = all
    BY <1>10, <1>16
  <2>2. Len(u.kids[Top]) = n + m /\ \A i \in DOMAIN ids : u.kids[Top][n + i].node = ids[i]
    BY <1>2, <1>9, <2>1
  <2> QED BY <2>2 DEF n, m
<1>19. \A i \in DOMAIN ids : Listed(u.crit[ids[i]], d.criteria[i])
  BY <1>2, <1>13, <1>14, <1>16
<1>20. \A h \in Group \ {Top} : u.kids[h] = s.kids[h] /\ u.logic[h] = s.logic[h]
  BY <1>10, <1>11, <1>16
<1>21. u.logic[Top] = d.logic /\ \A c \in Crit \ new : u.crit[c] = s.crit[c]
  BY <1>11, <1>14, <1>16
<1>22. DOMAIN ids = 1..Len(d.criteria) /\ new \in SUBSET (Crit \ Live(s))
  BY <1>2 DEF m
<1>23. (\A i \in DOMAIN ids : ids[i] \in new) /\ \A c \in new : \E i \in DOMAIN ids : c = ids[i]
  BY <1>2, <1>3, <1>4
<1>24. Extended(s, d, ids, u, new)
  <2> HIDE DEF C, K, G, I, new
  <2> QED BY <1>16, <1>17, <1>18, <1>19, <1>20, <1>21, <1>22, <1>23 DEF Extended
<1> QED BY <1>24

LEMMA ExtendReady ==
  ASSUME NEW s, TreeInv(s), NEW d \in Lists, NEW ids \in NewObjects(s, d), NEW u, u = Extend(s, d, ids)
  PROVE  \E L : Unset(u, L, {Top})
<1>e. PICK new : Extended(s, d, ids, u, new)
  BY ExtendIs
<1> DEFINE L == {Top} \cup Live(u)
<1>0. /\ s \in Tree /\ Apart(s) /\ Nested(s) /\ Kept(s) /\ Limited(s) /\ Arrows(s)
      /\ \A g \in Group : Single(s, g)
  BY InvFacts
<1>1. /\ u \in Tree /\ u.depth = s.depth /\ new \in SUBSET (Crit \ Live(s)) /\ DOMAIN ids = 1..Len(d.criteria)
      /\ \A h \in Group \ {Top} : u.kids[h] = s.kids[h] /\ u.logic[h] = s.logic[h]
      /\ Kids(u, Top) = Kids(s, Top) \cup new /\ Single(u, Top)
      /\ \A c \in Crit \ new : u.crit[c] = s.crit[c]
      /\ \A i \in DOMAIN ids : Listed(u.crit[ids[i]], d.criteria[i])
  BY <1>e DEF Extended
<1>2. \A c \in new : u.crit[c].right = FALSE
  BY <1>e DEF Extended, Listed
<1>3. Top \in Group /\ Node = Crit \cup Sub /\ Crit \cap Sub = {} /\ Group = {Top} \cup Sub /\ Top \notin Node
  BY Nodes
<1>4. \A h \in Group \ {Top} : Kids(u, h) = Kids(s, h)
  BY <1>1, SameKids DEF Kids
<1>5. Live(u) = Live(s) \cup new
  BY <1>1, <1>3, <1>4, LiveAre
<1>6. \A c \in new : s.depth[c] = 1
  BY <1>0, <1>1, <1>3 DEF Kept
<1>7. Sound(u)
  <2>1. \A g \in Group : Single(u, g)
    BY <1>0, <1>1 DEF Single
  <2>2. Apart(u)
    <3> SUFFICES ASSUME NEW h \in Group, NEW k \in Group, h # k, NEW n \in Kids(u, h) \cap Kids(u, k) PROVE FALSE
      BY DEF Apart
    <3>1. CASE n \in new
      <4>1. n \notin Kids(s, h) /\ n \notin Kids(s, k)
        BY <1>1, <3>1, LiveAre
      <4> QED BY <1>4, <4>1
    <3>2. CASE n \notin new
      <4>1. n \in Kids(s, h) /\ n \in Kids(s, k)
        BY <1>1, <1>4, <3>2
      <4> QED BY <1>0, <4>1 DEF Apart
    <3> QED BY <3>1, <3>2
  <2>3. Nested(u)
    <3>1. \A g \in Group : DepthOf(u, g) = DepthOf(s, g)
      BY <1>1 DEF DepthOf
    <3> SUFFICES ASSUME NEW g \in Group, NEW n \in Kids(u, g)
                 PROVE  s.depth[n] = DepthOf(s, g) + (IF n \in Sub THEN 1 ELSE 0)
      BY <1>1, <3>1 DEF Nested
    <3>2. CASE n \in Kids(s, g)
      BY <1>0, <3>2 DEF Nested
    <3>3. CASE n \notin Kids(s, g)
      <4>1. g = Top /\ n \in new
        BY <1>1, <1>4, <3>3
      <4>2. n \notin Sub /\ DepthOf(s, g) = 1 /\ s.depth[n] = 1
        BY <1>1, <1>3, <1>6, <4>1 DEF DepthOf
      <4> QED BY <4>2
    <3> QED BY <3>2, <3>3
  <2> QED BY <1>1, <2>1, <2>2, <2>3 DEF Sound
<1>8. Limited(u)
  <2> SUFFICES ASSUME DepthLimit # 0 PROVE /\ \A n \in Live(u) : u.depth[n] <= DepthLimit
                                           /\ \A c \in Live(u) \cap Crit : u.crit[c].right => u.depth[c] < DepthLimit
    BY DEF Limited
  <2>1. /\ \A n \in Live(s) : s.depth[n] <= DepthLimit
        /\ \A c \in Live(s) \cap Crit : s.crit[c].right => s.depth[c] < DepthLimit
    BY <1>0 DEF Limited
  <2>2. \A n \in new : s.depth[n] <= DepthLimit
    <3>1. DepthLimit \in Nat
      BY Assumptions
    <3> QED BY <1>6, <3>1
  <2> QED BY <1>1, <1>2, <1>5, <2>1, <2>2
<1>9. \A g \in L \cap Group : Kids(u, g) \subseteq L
  BY LiveAre
<1>10. \A g \in L \cap Sub : u.kids[g] # <<>>
  <2> TAKE g \in L \cap Sub
  <2>1. g \in Live(s) /\ g # Top /\ g \in Group
    BY <1>1, <1>3, <1>5
  <2> QED BY <1>0, <1>1, <2>1 DEF Kept
<1>11. \A g \in (L \cap Group) \ {Top} : \A c \in Kids(u, g) \cap Crit :
         Len(u.kids[g]) > 1 /\ (DepthLimit = 0 \/ u.depth[c] < DepthLimit) => u.crit[c].right
  <2> TAKE g \in (L \cap Group) \ {Top}
  <2> TAKE c \in Kids(u, g) \cap Crit
  <2>1. c \in Kids(s, g) /\ u.kids[g] = s.kids[g]
    BY <1>1, <1>4
  <2>2. c \notin new
    BY <1>1, <2>1, LiveAre
  <2>3. u.crit[c] = s.crit[c]
    BY <1>1, <2>2
  <2> QED BY <1>0, <1>1, <2>1, <2>3 DEF Arrows
<1> QED BY <1>7, <1>8, <1>9, <1>10, <1>11 DEF Unset

LEMMA ExtendInv ==
  ASSUME NEW s, TreeInv(s), NEW d \in Lists, NEW ids \in NewObjects(s, d)
  PROVE  TreeInv(Rebuilt(UpdateArrows(Extend(s, d, ids), {Top})))
<1>1. PICK L : Unset(Extend(s, d, ids), L, {Top})
  BY ExtendReady
<1>2. {Top} \in SUBSET Group
  BY Nodes
<1>3. Ready(UpdateArrows(Extend(s, d, ids), {Top}), L)
  BY <1>1, <1>2, ArrowsSet
<1> QED BY <1>3, RebuiltInv

(* ------------------- the tree from the state of a save -------------------- *)

\* The groups that hold a node, in what was saved.
Home(d, n) == {h \in Group : \E i \in DOMAIN d.kids[h] : d.kids[h][i] = n}

LEMMA DetailsAre ==
  ASSUME NEW s \in Tree, NEW d, d = Details(s)
  PROVE  /\ \A g \in Group : /\ DOMAIN d.kids[g] = DOMAIN s.kids[g]
                             /\ \A i \in DOMAIN s.kids[g] : d.kids[g][i] = s.kids[g][i].node
                             /\ d.logic[g] = IF s.kids[g] = <<>> THEN DefaultLogic ELSE s.logic[g]
         /\ d.logic \in [Group -> Logic]
         /\ \A c \in Crit : /\ d.crit[c].data = s.crit[c].data /\ d.crit[c].cond = s.crit[c].cond
                            /\ d.crit[c].value = s.crit[c].value
<1>1. /\ d.kids = [g \in Group |-> [i \in DOMAIN s.kids[g] |-> s.kids[g][i].node]]
      /\ d.logic = [g \in Group |-> IF s.kids[g] = <<>> THEN DefaultLogic ELSE s.logic[g]]
      /\ d.crit = [c \in Crit |-> [data |-> s.crit[c].data, cond |-> s.crit[c].cond, value |-> s.crit[c].value]]
  BY DEF Details
<1>2. \A g \in Group : d.logic[g] = IF s.kids[g] = <<>> THEN DefaultLogic ELSE s.logic[g]
  BY <1>1
<1>3. \A g \in Group : d.logic[g] \in Logic
  <2>1. DefaultLogic \in Logic /\ \A g \in Group : s.logic[g] \in Logic
    BY Assumptions, TreeFields DEF Logic
  <2> QED BY <1>2, <2>1
<1>4. d.logic \in [Group -> Logic]
  BY <1>1, <1>3
<1> QED BY <1>1, <1>2, <1>4

LEMMA HomeIs ==
  ASSUME NEW s \in Tree, Apart(s), NEW d, d = Details(s)
  PROVE  /\ \A h \in Group : \A n \in Kids(s, h) : Home(d, n) = {h}
         /\ \A n : n \notin Live(s) => Home(d, n) = {}
<1>1. \A h \in Group : \A n : (\E i \in DOMAIN d.kids[h] : d.kids[h][i] = n) <=> n \in Kids(s, h)
  BY DetailsAre, KidsAre
<1>2. \A h \in Group : \A n : h \in Home(d, n) <=> n \in Kids(s, h)
  BY <1>1 DEF Home
<1>3. \A n : Home(d, n) \subseteq Group
  BY DEF Home
<1> HIDE DEF Home
<1>4. \A h \in Group : \A n \in Kids(s, h) : Home(d, n) = {h}
  BY <1>2, <1>3 DEF Apart
<1>5. \A n : n \notin Live(s) => Home(d, n) = {}
  BY <1>2, <1>3, LiveAre
<1> QED BY <1>4, <1>5

\* Restore's levels, as they are computed.
Level(d) ==
  LET level[g \in Group] ==
        IF g = Top THEN 1
        ELSE LET up == {h \in Group : \E i \in DOMAIN d.kids[h] : d.kids[h][i] = g}
             IN IF up = {} THEN 1 ELSE level[CHOOSE h \in up : TRUE] + 1
  IN level

LEMMA LevelIs ==
  ASSUME NEW s, TreeInv(s)
  PROVE  \A g \in Group : Level(Details(s))[g] = DepthOf(s, g)
<1> DEFINE d == Details(s)
           Step(f, g) == IF g = Top THEN 1
                         ELSE LET up == {h \in Group : \E i \in DOMAIN d.kids[h] : d.kids[h][i] = g}
                              IN IF up = {} THEN 1 ELSE f[CHOOSE h \in up : TRUE] + 1
           B == CHOOSE level : level = [g \in Group |-> Step(level, g)]
           F == [g \in Group |-> DepthOf(s, g)]
<1>0. s \in Tree /\ Apart(s) /\ Nested(s) /\ Kept(s)
  BY InvFacts
<1>1. Level(d) = B
  BY Zenon DEF Level
<1>2. \A f, g : Step(f, g) = IF g = Top \/ Home(d, g) = {} THEN 1 ELSE f[CHOOSE h \in Home(d, g) : TRUE] + 1
  <2> TAKE f, g
  <2>1. Step(f, g) = IF g = Top THEN 1 ELSE IF Home(d, g) = {} THEN 1 ELSE f[CHOOSE h \in Home(d, g) : TRUE] + 1
    BY Zenon DEF Home
  <2> HIDE DEF Step, d
  <2> QED BY <2>1
<1> HIDE DEF d, Step, B
<1>3. \A g \in Group : \A h \in Group : g # Top /\ g \in Kids(s, h) => \A f : Step(f, g) = f[h] + 1
  <2> SUFFICES ASSUME NEW g \in Group, NEW h \in Group, g # Top, g \in Kids(s, h), NEW f PROVE Step(f, g) = f[h] + 1
    OBVIOUS
  <2>1. Home(d, g) = {h}
    BY <1>0, HomeIs DEF d
  <2>2. (CHOOSE k \in {h} : TRUE) = h
    OBVIOUS
  <2> QED BY <1>2, <2>1, <2>2
<1>4. \A g \in Group : g = Top \/ g \notin Live(s) => \A f : Step(f, g) = 1
  <2>1. \A g : g \notin Live(s) => Home(d, g) = {}
    BY <1>0, HomeIs DEF d
  <2> QED BY <1>2, <2>1
<1>5. \A g \in Group : DepthOf(s, g) \in Nat
  BY <1>0, TreeFields, Nodes DEF DepthOf
<1>6. \A g \in Group : \A h \in Group : g # Top /\ g \in Kids(s, h) => DepthOf(s, g) = DepthOf(s, h) + 1
  BY <1>0, Nodes DEF Nested, DepthOf
<1>7. \A g \in Group : g = Top \/ g \notin Live(s) => DepthOf(s, g) = 1
  BY <1>0, Nodes DEF Kept, DepthOf
<1>8. ASSUME NEW g \in Group PROVE F[g] = Step(F, g)
  <2>1. CASE g = Top \/ g \notin Live(s)
    BY <1>4, <1>7, <2>1
  <2>2. CASE g # Top /\ g \in Live(s)
    <3>1. PICK h \in Group : g \in Kids(s, h)
      BY <2>2, LiveAre
    <3>2. Step(F, g) = F[h] + 1
      BY <1>3, <2>2, <3>1
    <3> QED BY <1>6, <2>2, <3>1, <3>2
  <2> QED BY <2>1, <2>2
<1>9. F = [g \in Group |-> Step(F, g)]
  BY <1>8
<1>10. B = [g \in Group |-> Step(B, g)]
  <2> HIDE DEF F
  <2> QED BY <1>9 DEF B
<1>11. F \in [Group -> Nat] /\ \A g \in Group : F[g] = DepthOf(s, g)
  BY <1>5
<1> HIDE DEF F
<1> DEFINE S == {g \in Group : B[g] = DepthOf(s, g)}
<1>12. ASSUME NEW g \in Group, \A k \in Group : F[k] < F[g] => k \in S PROVE g \in S
  <2>0. B[g] = Step(B, g)
    BY <1>10
  <2>1. CASE g = Top \/ g \notin Live(s)
    BY <1>4, <1>7, <2>0, <2>1
  <2>2. CASE g # Top /\ g \in Live(s)
    <3>1. PICK h \in Group : g \in Kids(s, h)
      BY <2>2, LiveAre
    <3>2. Step(B, g) = B[h] + 1
      BY <1>3, <2>2, <3>1
    <3>3. F[h] < F[g]
      BY <1>5, <1>6, <1>11, <2>2, <3>1
    <3>4. B[h] = DepthOf(s, h)
      BY <1>12, <3>3
    <3> QED BY <1>6, <2>0, <2>2, <3>1, <3>2, <3>4
  <2> QED BY <2>1, <2>2
<1>13. Group \subseteq S
  <2> HIDE DEF S
  <2> QED BY <1>11, <1>12, RankInduction
<1> QED BY <1>1, <1>13 DEF d

\* The record of a criterion that is built from what was saved.
Again(c) == Rebuild([EmptyCrit EXCEPT !.data = c.data, !.cond = c.cond, !.value = c.value])

LEMMA AgainIs ==
  ASSUME NEW c \in CritRecord
  PROVE  /\ Again(c) \in CritRecord /\ Again(c).right = FALSE
         /\ Again(c).data = c.data /\ Again(c).cond = c.cond /\ Again(c).value = c.value
         /\ c = EmptyCrit => Again(c) = EmptyCrit
<1> DEFINE e == [EmptyCrit EXCEPT !.data = c.data, !.cond = c.cond, !.value = c.value]
<1>1. /\ e \in CritRecord /\ e.right = FALSE /\ e.data = c.data /\ e.cond = c.cond /\ e.value = c.value
      /\ c = EmptyCrit => e = EmptyCrit
  BY DEF EmptyCrit, CritRecord
<1>2. Again(c) = Rebuild(e)
  BY Zenon DEF Again
<1>3. Rebuild(EmptyCrit) = EmptyCrit
  BY DEF Rebuild, EmptyCrit
<1> HIDE DEF e
<1>4. Rebuild(e) \in CritRecord
  BY <1>1, Records
<1>5. Rebuild(e).right = e.right /\ Rebuild(e).data = e.data /\ Rebuild(e).cond = e.cond /\ Rebuild(e).value = e.value
  BY <1>1, RebuiltCrit
<1> QED BY <1>1, <1>2, <1>3, <1>4, <1>5

Restored(s, r) ==
  /\ r \in Tree /\ r.kids = s.kids /\ r.depth = s.depth
  /\ \A g \in Group : r.logic[g] = IF s.kids[g] = <<>> THEN DefaultLogic ELSE s.logic[g]
  /\ \A n \in Live(s) : r.index[n] = s.index[n]
  /\ \A c \in Crit : [r.crit[c] EXCEPT !.right = FALSE] = [Again(s.crit[c]) EXCEPT !.right = FALSE]
  /\ \A c \in Crit \ Live(s) : r.crit[c] = EmptyCrit
  /\ \A g \in Group : \A c \in Kids(s, g) \cap Crit : r.crit[c].right <=> Len(s.kids[g]) > 1 /\ Room(s, c)

LEMMA RestoreIs ==
  ASSUME NEW s, TreeInv(s)
  PROVE  Restored(s, Restore(Details(s)))
<1> DEFINE d == Details(s)
           r == Restore(d)
           L == Level(d)
           home(c) == {h \in Group : \E i \in DOMAIN d.kids[h] : d.kids[h][i] = c}
           place(n) == LET h == CHOOSE h \in home(n) : TRUE
                       IN CHOOSE i \in DOMAIN d.kids[h] : d.kids[h][i] = n
           K == [g \in Group |-> [i \in DOMAIN d.kids[g] |-> [node |-> d.kids[g][i], index |-> i - 1]]]
           I == [n \in Node |-> IF home(n) = {} THEN 0 ELSE place(n) - 1]
           D == [n \in Node |-> IF n \in Sub THEN L[n]
                                ELSE IF home(n) = {} THEN 1 ELSE L[CHOOSE h \in home(n) : TRUE]]
           C == [c \in Crit |-> Again(d.crit[c])]
           t == [kids |-> K, index |-> I, depth |-> D, logic |-> d.logic, crit |-> C]
<1>0. /\ s \in Tree /\ Apart(s) /\ Nested(s) /\ Kept(s) /\ Placed(s)
      /\ (\A g \in Group : Single(s, g) /\ Kids(s, g) \subseteq Live(s))
  BY InvFacts
<1>1. r = UpdateArrows(t, Group)
  BY Zenon DEF Restore, Level, Again
<1>2. /\ \A g \in Group : /\ DOMAIN d.kids[g] = DOMAIN s.kids[g]
                          /\ \A i \in DOMAIN s.kids[g] : d.kids[g][i] = s.kids[g][i].node
                          /\ d.logic[g] = IF s.kids[g] = <<>> THEN DefaultLogic ELSE s.logic[g]
      /\ d.logic \in [Group -> Logic]
      /\ \A c \in Crit : /\ d.crit[c].data = s.crit[c].data /\ d.crit[c].cond = s.crit[c].cond
                         /\ d.crit[c].value = s.crit[c].value
  BY <1>0, DetailsAre
<1>3. /\ \A h \in Group : \A n \in Kids(s, h) : Home(d, n) = {h}
      /\ \A n : n \notin Live(s) => Home(d, n) = {}
  BY <1>0, HomeIs
<1>4. \A g \in Group : L[g] = DepthOf(s, g)
  BY LevelIs
<1>5. K = s.kids
  <2> HIDE DEF d
  <2>1. ASSUME NEW g \in Group PROVE K[g] = s.kids[g]
    <3>1. s.kids[g] = [i \in DOMAIN s.kids[g] |-> s.kids[g][i]]
      <4>1. ASSUME NEW x \in Seq(Entry) PROVE x = [i \in DOMAIN x |-> x[i]]
        OBVIOUS
      <4> QED BY <1>0, <4>1, Entries
    <3>2. \A i \in DOMAIN s.kids[g] : s.kids[g][i] = [node |-> s.kids[g][i].node, index |-> i - 1]
      <4> TAKE i \in DOMAIN s.kids[g]
      <4>1. s.kids[g][i] \in Entry /\ s.kids[g][i].index = i - 1
        BY <1>0, Entries DEF Placed
      <4>2. \A x \in Entry : x = [node |-> x.node, index |-> x.index]
        BY DEF Entry
      <4> QED BY <4>1, <4>2
    <3>3. K[g] = [i \in DOMAIN d.kids[g] |-> [node |-> d.kids[g][i], index |-> i - 1]]
      OBVIOUS
    <3> HIDE DEF K
    <3> QED BY <1>2, <3>1, <3>2, <3>3
  <2>2. K = [g \in Group |-> K[g]]
    OBVIOUS
  <2> HIDE DEF K
  <2> QED BY <1>0, <2>1, <2>2, TreeFields
<1>6. \A n : home(n) = Home(d, n)
  BY Zenon DEF Home
<1>7. ASSUME NEW g \in Group, NEW i \in DOMAIN s.kids[g] PROVE home(s.kids[g][i].node) # {} /\ place(s.kids[g][i].node) = i
  <2> DEFINE n == s.kids[g][i].node
  <2>1. n \in Kids(s, g)
    BY KidsAre
  <2>2. home(n) = {g}
    BY <1>3, <1>6, <2>1
  <2>3. \A k \in DOMAIN d.kids[g] : d.kids[g][k] = n <=> k = i
    <3> HIDE DEF d
    <3> QED BY <1>0, <1>2 DEF Single
  <2>4. i \in DOMAIN d.kids[g]
    BY <1>2
  <2>5. place(n) = LET h == CHOOSE h \in home(n) : TRUE IN CHOOSE k \in DOMAIN d.kids[h] : d.kids[h][k] = n
    OBVIOUS
  <2> HIDE DEF home, d, n, place
  <2>6. (CHOOSE h \in home(n) : TRUE) = g
    BY <2>2
  <2>7. place(n) = CHOOSE k \in DOMAIN d.kids[g] : d.kids[g][k] = n
    BY <2>5, <2>6
  <2>8. place(n) = i
    BY <2>3, <2>4, <2>7
  <2> QED BY <2>2, <2>8 DEF n
<1>8. \A n \in Node : n \notin Live(s) => home(n) = {}
  BY <1>3, <1>6
<1>9. \A h \in Group : \A n \in Kids(s, h) : home(n) = {h}
  BY <1>3, <1>6
<1> HIDE DEF home, place, d, K, L
<1>10. ASSUME NEW g \in Group, NEW i \in DOMAIN s.kids[g] PROVE I[s.kids[g][i].node] = i - 1 /\ i - 1 \in Nat
  <2>1. s.kids[g][i].node \in Node /\ i - 1 \in Nat
    BY <1>0, Entries
  <2> QED BY <1>7, <2>1
<1>11. I \in [Node -> Nat] /\ \A n \in Live(s) : I[n] = s.index[n]
  <2>1. \A n \in Node : n \notin Live(s) => I[n] = 0
    BY <1>8
  <2>2. I = [n \in Node |-> I[n]]
    OBVIOUS
  <2> HIDE DEF I, K, r, D, C, t
  <2>3. ASSUME NEW n \in Live(s) PROVE I[n] = s.index[n] /\ I[n] \in Nat
    <3>1. PICK g \in Group : n \in Kids(s, g)
      BY LiveAre
    <3>2. PICK i \in DOMAIN s.kids[g] : s.kids[g][i].node = n
      BY <3>1, KidsAre
    <3>3. s.index[n] = i - 1
      BY <1>0, <3>2 DEF Placed
    <3>4. I[n] = i - 1 /\ i - 1 \in Nat
      BY <1>10, <3>2
    <3> QED BY <3>3, <3>4
  <2>4. \A n \in Node : I[n] \in Nat
    <3> TAKE n \in Node
    <3>1. CASE n \in Live(s)
      BY <2>3, <3>1
    <3>2. CASE n \notin Live(s)
      BY <2>1, <3>2
    <3> QED BY <3>1, <3>2
  <2> QED BY <2>2, <2>3, <2>4
<1>12. D = s.depth
  <2>1. ASSUME NEW n \in Node PROVE D[n] = s.depth[n]
    <3>1. CASE n \in Sub
      <4>1. n \in Group /\ n # Top
        BY <3>1, Nodes
      <4> QED BY <1>4, <3>1, <4>1 DEF DepthOf
    <3>2. CASE n \notin Sub /\ n \notin Live(s)
      BY <1>0, <1>8, <3>2 DEF Kept
    <3>3. CASE n \notin Sub /\ n \in Live(s)
      <4>1. PICK h \in Group : n \in Kids(s, h)
        BY <3>3, LiveAre
      <4>2. (CHOOSE k \in {h} : TRUE) = h
        OBVIOUS
      <4>3. D[n] = DepthOf(s, h)
        BY <1>4, <1>9, <3>3, <4>1, <4>2
      <4>4. s.depth[n] = DepthOf(s, h) + 0
        BY <1>0, <3>3, <4>1 DEF Nested
      <4>5. DepthOf(s, h) \in Nat
        BY <1>0, TreeFields, Nodes DEF DepthOf
      <4> QED BY <4>3, <4>4, <4>5
    <3> QED BY <3>1, <3>2, <3>3
  <2>2. D = [n \in Node |-> D[n]]
    OBVIOUS
  <2> HIDE DEF D
  <2> QED BY <1>0, <2>1, <2>2, TreeFields
<1>13. \A c \in Crit : C[c] = Again(s.crit[c])
  <2> TAKE c \in Crit
  <2>1. Again(d.crit[c]) = Again(s.crit[c])
    BY <1>2, Zenon DEF Again
  <2> QED BY <2>1
<1> HIDE DEF C, D, I
<1>14. C \in [Crit -> CritRecord]
  <2>1. \A c \in Crit : C[c] \in CritRecord
    BY <1>0, <1>13, AgainIs, TreeFields
  <2>2. C = [c \in Crit |-> C[c]]
    BY DEF C
  <2> QED BY <2>1, <2>2
<1>15. /\ t \in Tree /\ t.kids = s.kids /\ t.index = I /\ t.depth = s.depth /\ t.logic = d.logic /\ t.crit = C
  BY <1>0, <1>2, <1>5, <1>11, <1>12, <1>14, TreeFields DEF Tree
<1> HIDE DEF t
<1>16. /\ r \in Tree /\ r.kids = t.kids /\ r.index = t.index /\ r.depth = t.depth /\ r.logic = t.logic
       /\ \A c \in Crit : [r.crit[c] EXCEPT !.right = FALSE] = [t.crit[c] EXCEPT !.right = FALSE]
       /\ \A c \in Crit : (\A g \in Group : c \notin Kids(t, g)) => r.crit[c] = t.crit[c]
       /\ \A g \in Group : \A c \in Kids(t, g) \cap Crit :
            r.crit[c].right <=> (\E h \in Group : c \in Kids(t, h) /\ Len(t.kids[h]) > 1) /\ Room(t, c)
  <2> HIDE DEF r
  <2> QED BY <1>1, <1>15, ArrowsAre
<1> HIDE DEF r
<1>17. (\A g : Kids(t, g) = Kids(s, g)) /\ \A c : Room(t, c) <=> Room(s, c)
  BY <1>15, SameKids DEF Room
<1>18. \A c \in Crit \ Live(s) : r.crit[c] = EmptyCrit
  <2> TAKE c \in Crit \ Live(s)
  <2>1. s.crit[c] = EmptyCrit /\ s.crit[c] \in CritRecord
    BY <1>0, Records DEF Kept
  <2>2. C[c] = EmptyCrit
    BY <1>13, <2>1, AgainIs
  <2>3. \A g \in Group : c \notin Kids(t, g)
    BY <1>0, <1>17
  <2> QED BY <1>15, <1>16, <2>2, <2>3
<1>19. \A g \in Group : \A c \in Kids(s, g) \cap Crit : r.crit[c].right <=> Len(s.kids[g]) > 1 /\ Room(s, c)
  <2> TAKE g \in Group
  <2> TAKE c \in Kids(s, g) \cap Crit
  <2>1. \A h \in Group : c \in Kids(s, h) => h = g
    BY <1>0 DEF Apart
  <2> QED BY <1>15, <1>16, <1>17, <2>1
<1>20. Restored(s, r)
  BY <1>2, <1>11, <1>13, <1>15, <1>16, <1>18, <1>19 DEF Restored
<1> QED BY <1>20 DEF r, d

\* A reload brings back a sound tree, and what was saved is saved again.
LEMMA RestoreInv ==
  ASSUME NEW s, TreeInv(s), NEW r, r = Restore(Details(s))
  PROVE  TreeInv(r) /\ Details(r) = Details(s)
<1>0. /\ s \in Tree /\ Apart(s) /\ Nested(s) /\ Kept(s) /\ Placed(s) /\ Limited(s)
      /\ (\A g \in Group : Single(s, g) /\ Kids(s, g) \subseteq Live(s))
  BY InvFacts
<1>1. Restored(s, r)
  BY RestoreIs
<1>2. /\ r \in Tree /\ r.kids = s.kids /\ r.depth = s.depth
      /\ \A g \in Group : r.logic[g] = IF s.kids[g] = <<>> THEN DefaultLogic ELSE s.logic[g]
      /\ \A n \in Live(s) : r.index[n] = s.index[n]
      /\ \A c \in Crit : [r.crit[c] EXCEPT !.right = FALSE] = [Again(s.crit[c]) EXCEPT !.right = FALSE]
      /\ \A c \in Crit \ Live(s) : r.crit[c] = EmptyCrit
      /\ \A g \in Group : \A c \in Kids(s, g) \cap Crit : r.crit[c].right <=> Len(s.kids[g]) > 1 /\ Room(s, c)
  BY <1>1 DEF Restored
<1>3. (\A g : Kids(r, g) = Kids(s, g)) /\ Live(r) = Live(s) /\ \A g : DepthOf(r, g) = DepthOf(s, g)
  BY <1>2, SameKids DEF DepthOf
<1>4. Sound(r)
  <2>1. \A g \in Group : Single(r, g)
    BY <1>0, <1>2 DEF Single
  <2>2. Apart(r) /\ Nested(r)
    BY <1>0, <1>2, <1>3 DEF Apart, Nested
  <2> QED BY <1>2, <2>1, <2>2 DEF Sound
<1>5. Placed(r)
  <2>1. \A g \in Group : \A i \in DOMAIN s.kids[g] : s.kids[g][i].node \in Live(s)
    BY <1>0, KidsAre
  <2> QED BY <1>0, <1>2, <2>1 DEF Placed
<1>6. Kept(r)
  <2>1. \A g \in Sub \ Live(s) : g \in Group /\ s.kids[g] = <<>>
    BY <1>0, Nodes DEF Kept
  <2> QED BY <1>0, <1>2, <1>3, <2>1 DEF Kept
<1>7. Limited(r)
  <2> SUFFICES ASSUME DepthLimit # 0 PROVE /\ \A n \in Live(r) : r.depth[n] <= DepthLimit
                                           /\ \A c \in Live(r) \cap Crit : r.crit[c].right => r.depth[c] < DepthLimit
    BY DEF Limited
  <2>1. \A n \in Live(s) : s.depth[n] <= DepthLimit
    BY <1>0 DEF Limited
  <2>2. ASSUME NEW c \in Live(s) \cap Crit, r.crit[c].right PROVE s.depth[c] < DepthLimit
    <3>1. PICK g \in Group : c \in Kids(s, g)
      BY LiveAre
    <3> QED BY <1>2, <2>2, <3>1 DEF Room
  <2> QED BY <1>2, <1>3, <2>1, <2>2
<1>8. Arrows(r)
  BY <1>2, <1>3 DEF Arrows, Room
<1>9. TreeInv(r)
  BY <1>4, <1>5, <1>6, <1>7, <1>8 DEF TreeInv
<1>10. \A c \in Crit : /\ r.crit[c].data = s.crit[c].data /\ r.crit[c].cond = s.crit[c].cond
                       /\ r.crit[c].value = s.crit[c].value
  <2> TAKE c \in Crit
  <2>1. s.crit[c] \in CritRecord /\ r.crit[c] \in CritRecord
    BY <1>0, <1>2, TreeFields
  <2>2. \A x, y \in CritRecord : [x EXCEPT !.right = FALSE] = [y EXCEPT !.right = FALSE]
          => x.data = y.data /\ x.cond = y.cond /\ x.value = y.value
    BY DEF CritRecord
  <2>3. Again(s.crit[c]) \in CritRecord
    BY <2>1, AgainIs
  <2>4. /\ r.crit[c].data = Again(s.crit[c]).data /\ r.crit[c].cond = Again(s.crit[c]).cond
        /\ r.crit[c].value = Again(s.crit[c]).value
    BY <1>2, <2>1, <2>2, <2>3
  <2> QED BY <2>1, <2>4, AgainIs
<1>11. \A g \in Group : (IF r.kids[g] = <<>> THEN DefaultLogic ELSE r.logic[g])
                        = IF s.kids[g] = <<>> THEN DefaultLogic ELSE s.logic[g]
  BY <1>2
<1>12. Details(r) = Details(s)
  BY <1>2, <1>10, <1>11 DEF Details
<1> QED BY <1>9, <1>12

(* ----------------------- recursion down the tree -------------------------- *)

All == Node \cup Group
Inside(t, n) == IF n \in Group THEN Kids(t, n) ELSE {}

\* A step that looks only at what is inside the node.
LooksInside(t, T, E) ==
  \A f, g \in [All -> T] : \A n \in All : (\A k \in Inside(t, n) : f[k] = g[k]) => E[<<f, n>>] = E[<<g, n>>]

LEMMA TreeRank ==
  ASSUME NEW t \in Tree, Layered(t)
  PROVE  \E M \in Nat : \E r \in [All -> 0..M] : \A n \in All : \A k \in Inside(t, n) : k \in All /\ r[k] < r[n]
<1>0. PICK M \in Nat : \E r \in [All -> 0..M] : Falls(t, r)
  BY DownRank DEF All
<1>1. PICK r \in [All -> 0..M] : Falls(t, r)
  BY <1>0
<1>2. ASSUME NEW n \in All, NEW k \in Inside(t, n) PROVE k \in All /\ r[k] < r[n]
  <2>1. n \in Group /\ k \in Kids(t, n)
    BY DEF Inside
  <2> QED BY <1>1, <2>1, Entries DEF Falls, All
<1> QED BY <1>2

LEMMA TreeRecursion ==
  ASSUME NEW t \in Tree, Layered(t), NEW T, T # {}, NEW E \in [[All -> T] \X All -> T], LooksInside(t, T, E)
  PROVE  \E f : IsDefinedBy(f, All, T, E)
<1>0. PICK M \in Nat : \E r \in [All -> 0..M] : \A n \in All : \A k \in Inside(t, n) : k \in All /\ r[k] < r[n]
  BY TreeRank
<1>1. PICK r \in [All -> 0..M] : \A n \in All : \A k \in Inside(t, n) : k \in All /\ r[k] < r[n]
  BY <1>0
<1>2. Descends(All, T, E, r)
  <2> SUFFICES ASSUME NEW f \in [All -> T], NEW h \in [All -> T], NEW n \in All,
                      \A k \in All : r[k] < r[n] => f[k] = h[k]
               PROVE  E[<<f, n>>] = E[<<h, n>>]
    BY Zenon DEF Descends
  <2>1. \A k \in Inside(t, n) : f[k] = h[k]
    BY <1>1
  <2> QED BY <2>1, Zenon DEF LooksInside
<1>3. IsStep(All, T, E, M, r)
  BY <1>1, <1>2 DEF IsStep
<1> QED BY <1>3, RecursionExists, Zenon

\* What holds of a node when it holds of what is inside holds of all.
LEMMA TreeInduction ==
  ASSUME NEW t \in Tree, Layered(t), NEW S, \A n \in All : Inside(t, n) \subseteq S => n \in S
  PROVE  All \subseteq S
<1>0. PICK M \in Nat : \E r \in [All -> 0..M] : \A n \in All : \A k \in Inside(t, n) : k \in All /\ r[k] < r[n]
  BY TreeRank
<1>1. PICK r \in [All -> 0..M] : \A n \in All : \A k \in Inside(t, n) : k \in All /\ r[k] < r[n]
  BY <1>0
<1>2. r \in [All -> Nat]
  OBVIOUS
<1>3. ASSUME NEW n \in All, \A k \in All : r[k] < r[n] => k \in S PROVE n \in S
  <2>1. Inside(t, n) \subseteq S
    BY <1>1, <1>3
  <2> QED BY <2>1
<1> QED BY <1>2, <1>3, RankInduction

(* ------------------------- the rows that pass ---------------------------- *)

LEMMA CombineIs ==
  ASSUME NEW logic, NEW parts \in SUBSET (SUBSET Row)
  PROVE  /\ Combine(logic, parts) \in SUBSET Row
         /\ logic = "AND" => Combine(logic, parts) = {row \in Row : \A part \in parts : row \in part}
         /\ logic = "OR" /\ parts # {} => Combine(logic, parts) = UNION parts
         /\ logic = "OR" /\ parts = {} => Combine(logic, parts) = Row
<1>1. CASE logic = "AND"
  BY <1>1 DEF Combine
<1>2. CASE logic = "OR" /\ parts # {}
  <2>1. Combine(logic, parts) = UNION parts
    BY <1>2 DEF Combine
  <2> QED BY <1>2, <2>1
<1>3. CASE logic # "AND" /\ ~(logic = "OR" /\ parts # {})
  BY <1>3 DEF Combine
<1> QED BY <1>1, <1>2, <1>3

\* The rows of a node, from those of what is inside.
RowsOf(t, full, f, n) ==
  IF n \in Crit THEN {row \in Row : CritSearch(t.crit[n], row)}
  ELSE LET counted == IF t.logic[n] = "OR" THEN Kids(t, n) \cap full
                      ELSE Kids(t, n) \ (Crit \ full)
       IN Combine(t.logic[n], {f[k] : k \in counted})

IsRows(t, full, f) == f \in [All -> SUBSET Row] /\ \A n \in All : f[n] = RowsOf(t, full, f, n)

LEMMA RowsOfAre ==
  ASSUME NEW t \in Tree, NEW full, NEW f \in [All -> SUBSET Row], NEW n \in All
  PROVE  RowsOf(t, full, f, n) \in SUBSET Row
<1>1. CASE n \in Crit
  BY <1>1 DEF RowsOf
<1>2. CASE n \notin Crit
  <2> DEFINE counted == IF t.logic[n] = "OR" THEN Kids(t, n) \cap full ELSE Kids(t, n) \ (Crit \ full)
  <2>1. n \in Group
    BY <1>2, Nodes DEF All
  <2>2. counted \subseteq All
    BY <2>1, Entries DEF All
  <2>3. {f[k] : k \in counted} \in SUBSET (SUBSET Row)
    BY <2>2
  <2>4. RowsOf(t, full, f, n) = Combine(t.logic[n], {f[k] : k \in counted})
    BY <1>2 DEF RowsOf
  <2> HIDE DEF counted
  <2> QED BY <2>3, <2>4, CombineIs
<1> QED BY <1>1, <1>2

LEMMA RowsOfLook ==
  ASSUME NEW t \in Tree, NEW full, NEW f, NEW g, NEW n \in All, \A k \in Inside(t, n) : f[k] = g[k]
  PROVE  RowsOf(t, full, f, n) = RowsOf(t, full, g, n)
<1>1. CASE n \in Crit
  BY <1>1 DEF RowsOf
<1>2. CASE n \notin Crit
  <2> DEFINE counted == IF t.logic[n] = "OR" THEN Kids(t, n) \cap full ELSE Kids(t, n) \ (Crit \ full)
  <2>1. n \in Group
    BY <1>2, Nodes DEF All
  <2>2. counted \subseteq Inside(t, n)
    BY <2>1 DEF Inside
  <2>3. \A h : RowsOf(t, full, h, n) = Combine(t.logic[n], {h[k] : k \in counted})
    BY <1>2 DEF RowsOf
  <2> HIDE DEF counted
  <2>4. {f[k] : k \in counted} = {g[k] : k \in counted}
    BY <2>2
  <2> QED BY <2>3, <2>4
<1> QED BY <1>1, <1>2

LEMMA VisibleIs ==
  ASSUME NEW t \in Tree, Layered(t)
  PROVE  \E f : IsRows(t, Filled(t), f) /\ Visible(t) = f[Top]
<1> DEFINE full == Filled(t)
           T == SUBSET Row
           E == [x \in [All -> T] \X All |-> RowsOf(t, full, x[1], x[2])]
           B == CHOOSE rows : rows = [n \in All |-> RowsOf(t, full, rows, n)]
<1> HIDE DEF full
<1>1. ASSUME NEW f \in [All -> T], NEW n \in All
      PROVE  E[<<f, n>>] = RowsOf(t, full, f, n) /\ RowsOf(t, full, f, n) \in T
  <2>1. E[<<f, n>>] = RowsOf(t, full, f, n)
    OBVIOUS
  <2> HIDE DEF E
  <2> QED BY <2>1, RowsOfAre
<1>2. E \in [[All -> T] \X All -> T]
  <2>1. \A x \in [All -> T] \X All : E[x] \in T
    <3> TAKE x \in [All -> T] \X All
    <3>1. PICK f \in [All -> T], n \in All : x = <<f, n>>
      OBVIOUS
    <3> HIDE DEF E, T
    <3> QED BY <1>1, <3>1
  <2> HIDE DEF T
  <2> QED BY <2>1
<1>3. LooksInside(t, T, E)
  <2> SUFFICES ASSUME NEW f \in [All -> T], NEW h \in [All -> T], NEW n \in All,
                      \A k \in Inside(t, n) : f[k] = h[k]
               PROVE  E[<<f, n>>] = E[<<h, n>>]
    BY Zenon DEF LooksInside
  <2>1. RowsOf(t, full, f, n) = RowsOf(t, full, h, n)
    BY RowsOfLook
  <2> HIDE DEF E, T
  <2> QED BY <1>1, <2>1
<1>4. T # {}
  OBVIOUS
<1> HIDE DEF E
<1>5. PICK f : IsDefinedBy(f, All, T, E)
  <2> HIDE DEF T
  <2> QED BY <1>2, <1>3, <1>4, TreeRecursion
<1>6. f \in [All -> T] /\ \A n \in All : f[n] = E[<<f, n>>]
  BY <1>5, Zenon DEF IsDefinedBy
<1>7. \A n \in All : f[n] = RowsOf(t, full, f, n)
  BY <1>1, <1>6
<1>8. f = [n \in All |-> RowsOf(t, full, f, n)]
  BY <1>6, <1>7
<1>9. B = [n \in All |-> RowsOf(t, full, B, n)]
  BY <1>8
<1>10. Visible(t) = B[Top]
  BY Zenon DEF Visible, RowsOf, All, full
<1> HIDE DEF B
<1> DEFINE S == {n \in All : B[n] = f[n]}
<1>11. ASSUME NEW n \in All, Inside(t, n) \subseteq S PROVE n \in S
  <2>1. RowsOf(t, full, B, n) = RowsOf(t, full, f, n)
    BY <1>11, RowsOfLook
  <2> QED BY <1>7, <1>9, <2>1
<1>12. All \subseteq S
  <2> HIDE DEF S
  <2> QED BY <1>11, TreeInduction
<1>13. Top \in All
  BY Nodes DEF All
<1>14. B[Top] = f[Top]
  BY <1>12, <1>13
<1> QED BY <1>6, <1>7, <1>10, <1>14 DEF IsRows, full

LEMMA VisibleAreRows == ASSUME NEW t \in Tree, Layered(t) PROVE Visible(t) \in SUBSET Row
<1>1. PICK f : IsRows(t, Filled(t), f) /\ Visible(t) = f[Top]
  BY VisibleIs
<1> QED BY <1>1, Nodes DEF IsRows, All

(* ------------------------------- the page --------------------------------- *)

\* The criteria with deaf buttons are on the page, and none of their groups has
\* deaf buttons only.
Revivable(t, deaf) ==
  /\ deaf \subseteq LiveCrit(t)
  /\ \A g \in Group : Kids(t, g) \cap deaf # {} => \E c \in Kids(t, g) \cap Crit : c \notin deaf

\* What the page shows of a tree.
PageOf(t, p) ==
  /\ p \in [rows : SUBSET Row, saved : {Details(t)}, title : {Count(t)}, clearAll : BOOLEAN, addChecks : BOOLEAN,
            deafButtons : SUBSET Crit, deafValues : SUBSET Crit, cleared : BOOLEAN]
  /\ Revivable(t, p.deafButtons)
  /\ p.clearAll => t.kids[Top] # <<>>
  /\ p.addChecks /\ t.kids[Top] # <<>> => p.clearAll

IInv == TreeInv(sb) /\ PageOf(sb, page)

LEMMA CountIsNat == ASSUME NEW t, t \in Tree PROVE Count(t) \in Nat
<1>1. IsFiniteSet(LiveCrit(t))
  <2>1. LiveCrit(t) \subseteq Node
    BY LiveAreNodes DEF LiveCrit
  <2> QED BY <2>1, Nodes, FS_Subset
<1> QED BY <1>1, FS_CardinalityType DEF Count

LEMMA FreshIs ==
  ASSUME NEW t, TreeInv(t), NEW p, p = FreshPage(t)
  PROVE  PageOf(t, p) /\ p.rows = Visible(t) /\ p.cleared = FALSE
<1>1. Visible(t) \in SUBSET Row
  BY InvFacts, VisibleAreRows
<1>2. CheckClear(t) \in BOOLEAN
  BY DEF CheckClear
<1>3. Revivable(t, {})
  BY DEF Revivable
<1> QED BY <1>1, <1>2, <1>3 DEF FreshPage, PageOf, CheckClear

\* Other rows do not make a page wrong, nor do deaf value selectors, nor does a
\* button that stops looking.
LEMMA PageStays ==
  ASSUME NEW t, NEW p, PageOf(t, p), NEW rows \in SUBSET Row, NEW cleared \in BOOLEAN, NEW V \in SUBSET Crit
  PROVE  /\ PageOf(t, [p EXCEPT !.rows = rows, !.cleared = cleared])
         /\ PageOf(t, [p EXCEPT !.addChecks = FALSE])
         /\ PageOf(t, [p EXCEPT !.deafValues = V])
BY DEF PageOf

LEMMA ListIs ==
  ASSUME NEW t, TreeInv(t), NEW p, p = ListPage(t)
  PROVE  /\ PageOf(t, p) /\ PageOf(t, [p EXCEPT !.addChecks = FALSE])
         /\ p.rows = Visible(t) /\ p.cleared = FALSE
<1>1. PICK f, V : f = FreshPage(t) /\ V = Kids(t, Top) \cap Crit
  OBVIOUS
<1>2. PageOf(t, f) /\ f.rows = Visible(t) /\ f.cleared = FALSE
  BY <1>1, FreshIs
<1>3. p = [f EXCEPT !.deafValues = V] /\ V \in SUBSET Crit
  BY <1>1 DEF ListPage
<1>4. f.rows \in SUBSET Row /\ f.cleared \in BOOLEAN
  BY <1>2 DEF PageOf
<1>5. PageOf(t, p)
  <2>1. PageOf(t, [f EXCEPT !.deafValues = V])
    BY <1>2, <1>3, <1>4, PageStays
  <2> QED BY <1>3, <2>1
<1>6. p.rows = f.rows /\ p.cleared = f.cleared
  BY <1>2, <1>3 DEF PageOf
<1>7. p.rows \in SUBSET Row /\ p.cleared \in BOOLEAN
  BY <1>4, <1>6
<1>8. PageOf(t, [p EXCEPT !.addChecks = FALSE])
  BY <1>3, <1>5, <1>7, PageStays
<1> QED BY <1>2, <1>5, <1>6, <1>8

LEMMA SameShape ==
  ASSUME NEW s, NEW t, s.kids = t.kids
  PROVE  /\ Count(s) = Count(t) /\ LiveCrit(s) = LiveCrit(t)
         /\ \A deaf : Revivable(s, deaf) => Revivable(t, deaf)
<1>1. Count(s) = Count(t) /\ LiveCrit(s) = LiveCrit(t)
  BY SameKids DEF Count, LiveCrit
<1>2. \A g \in Group : Kids(s, g) = Kids(t, g)
  BY DEF Kids
<1> QED BY <1>1, <1>2 DEF Revivable

\* A tree of the same shape, saved again, with or without a draw.
LEMMA SavedIs ==
  ASSUME NEW s, NEW p, PageOf(s, p), NEW t, t.kids = s.kids
  PROVE  PageOf(t, [p EXCEPT !.saved = Details(t)])
<1>1. Count(s) = Count(t) /\ (Revivable(s, p.deafButtons) => Revivable(t, p.deafButtons))
  BY SameShape
<1> QED BY <1>1 DEF PageOf

LEMMA DrawnIs ==
  ASSUME NEW s, NEW p, PageOf(s, p), NEW t, TreeInv(t), t.kids = s.kids
  PROVE  /\ PageOf(t, Drawn(t, p))
         /\ Drawn(t, p).rows = Visible(t) /\ Drawn(t, p).cleared = FALSE
<1>1. Visible(t) \in SUBSET Row
  BY InvFacts, VisibleAreRows
<1>2. Count(s) = Count(t) /\ (Revivable(s, p.deafButtons) => Revivable(t, p.deafButtons))
  BY SameShape
<1> QED BY <1>1, <1>2 DEF PageOf, Drawn

\* The criterion that is new is not deaf.
LEMMA DeafenedIs ==
  ASSUME NEW s, NEW g \in Group, NEW c \in Crit \ Live(s), NEW t, IsAdded(s, g, c, t),
         NEW old, Revivable(s, old), NEW D, D = old \cup (Kids(s, g) \cap Crit)
  PROVE  Revivable(t, D)
<1>1. Apart(t)
  BY InvFacts DEF IsAdded
<1>2. Live(t) = Live(s) \cup {c} /\ Kids(t, g) = Kids(s, g) \cup {c}
  BY DEF IsAdded
<1>3. \A h \in Group \ {g} : Kids(t, h) = Kids(s, h)
  BY DEF IsAdded, Kids
<1>4. Kids(s, g) \subseteq Live(s)
  BY DEF Live
<1>5. c \notin D /\ D \subseteq LiveCrit(t)
  BY <1>2, <1>4 DEF Revivable, LiveCrit
<1>6. ASSUME NEW h \in Group, Kids(t, h) \cap D # {} PROVE \E x \in Kids(t, h) \cap Crit : x \notin D
  <2>1. CASE h = g
    BY <1>2, <1>5, <2>1
  <2>2. CASE h # g
    <3>1. Kids(t, h) \cap Kids(t, g) = {} /\ Kids(t, h) = Kids(s, h)
      BY <1>1, <1>3, <2>2 DEF Apart
    <3>2. Kids(s, h) \cap old # {}
      BY <1>2, <1>6, <3>1
    <3>3. PICK x \in Kids(s, h) \cap Crit : x \notin old
      BY <3>2 DEF Revivable
    <3> QED BY <1>2, <3>1, <3>3
  <2> QED BY <2>1, <2>2
<1> QED BY <1>5, <1>6 DEF Revivable

LEMMA AddedPage ==
  ASSUME NEW s, NEW p, PageOf(s, p), NEW g \in Group, NEW c \in Crit \ Live(s), NEW t, IsAdded(s, g, c, t), NEW b,
         b = (p.clearAll \/ (g = Top /\ p.addChecks)), NEW D, D = p.deafButtons \cup (Kids(s, g) \cap Crit),
         NEW V \in SUBSET Crit
  PROVE  PageOf(t, [p EXCEPT !.title = Count(t), !.saved = Details(t), !.clearAll = b,
                             !.deafButtons = D, !.deafValues = V])
<1>1. /\ p.clearAll \in BOOLEAN /\ p.addChecks \in BOOLEAN /\ b \in BOOLEAN
      /\ p.clearAll => s.kids[Top] # <<>>
      /\ p.addChecks /\ s.kids[Top] # <<>> => p.clearAll
  BY DEF PageOf
<1>2. t.kids[g] # <<>> /\ \A h \in Group \ {g} : t.kids[h] = s.kids[h]
  BY DEF IsAdded
<1>3. b => t.kids[Top] # <<>>
  BY <1>1, <1>2, Nodes
<1>4. p.addChecks /\ t.kids[Top] # <<>> => b
  BY <1>1, <1>2, Nodes
<1>5. Revivable(t, D)
  BY DeafenedIs DEF PageOf
<1> QED BY <1>1, <1>3, <1>4, <1>5 DEF PageOf, Revivable, LiveCrit

\* The redraw after a handler.
LEMMA RedrawKeeps ==
  ASSUME NEW t, NEW L, Ready(t, L), NEW STATE p, p.rows \in SUBSET Row, p.cleared \in BOOLEAN, NEW draw,
         Redraw(t, p, draw)
  PROVE  IInv'
<1>1. TreeInv(Rebuilt(Pruned(t)))
  BY RedrawnInv
<1>2. PICK u : u = Rebuilt(Pruned(t)) /\ sb' = u
               /\ (page' = FreshPage(u) \/ page' = [FreshPage(u) EXCEPT !.rows = p.rows, !.cleared = p.cleared])
  BY Zenon DEF Redraw
<1>3. PICK f : f = FreshPage(u)
  OBVIOUS
<1>4. TreeInv(u) /\ PageOf(u, f)
  BY <1>1, <1>2, <1>3, FreshIs
<1>5. PageOf(u, [f EXCEPT !.rows = p.rows, !.cleared = p.cleared])
  BY <1>4, PageStays
<1>6. PageOf(u, page')
  BY <1>2, <1>3, <1>4, <1>5
<1> QED BY <1>2, <1>4, <1>6 DEF IInv

(* ------------------------------ the handlers ------------------------------ *)

LEMMA InitHolds == ASSUME Init PROVE IInv
<1>1. TreeInv(EmptyTree)
  BY EmptyInv
<1>2. CASE PreDefined = None
  <2>1. sb = EmptyTree /\ page = FreshPage(EmptyTree)
    BY <1>2 DEF Init
  <2> QED BY <1>1, <2>1, FreshIs DEF IInv
<1>3. CASE PreDefined # None
  <2> DEFINE d == WithDefaults(PreDefined)
  <2>1. PICK ids \in NewObjects(EmptyTree, PreDefined) :
          /\ sb = Rebuilt(UpdateArrows(Extend(EmptyTree, d, ids), {Top}))
          /\ page = ListPage(sb)
    BY <1>3, Zenon DEF Init
  <2>2. PreDefined \in Lists
    BY <1>3, Assumptions
  <2>3. d \in Lists /\ d.criteria = PreDefined.criteria
    BY <2>2 DEF WithDefaults, Lists
  <2> HIDE DEF d
  <2>4. ids \in NewObjects(EmptyTree, d)
    BY <2>1, <2>3, Zenon DEF NewObjects
  <2>5. TreeInv(sb)
    BY <1>1, <2>1, <2>3, <2>4, ExtendInv
  <2>6. PICK t : t = sb
    OBVIOUS
  <2>7. TreeInv(t) /\ page = ListPage(t)
    BY <2>1, <2>5, <2>6
  <2>8. PageOf(t, page)
    BY <2>7, ListIs
  <2> QED BY <2>5, <2>6, <2>8 DEF IInv
<1> QED BY <1>2, <1>3

LEMMA AddKeeps == ASSUME IInv, NEW g \in Group, NEW c \in Crit, Add(g, c) PROVE IInv'
<1>0. TreeInv(sb) /\ PageOf(sb, page)
  BY DEF IInv
<1>1. PICK t : /\ t = AddedTo(sb, g, c) /\ g \in LiveGroups(sb) /\ c \notin Live(sb)
               /\ sb' = t /\ page' = [Deafened(g) EXCEPT !.title = Count(t), !.saved = Details(t),
                                                        !.clearAll = AfterAdd(g)]
  BY Zenon DEF Add, AddedTo
<1>2. IsAdded(sb, g, c, t)
  BY <1>0, <1>1, AddInv
<1>3. AfterAdd(g) = (page.clearAll \/ (g = Top /\ page.addChecks))
  BY DEF AfterAdd
<1>4. PageOf(t, page')
  <2>1. PICK D, V : D = page.deafButtons \cup (Kids(sb, g) \cap Crit) /\ V = page.deafValues \cup (Kids(sb, g) \cap Crit)
    OBVIOUS
  <2>2. page' = [page EXCEPT !.title = Count(t), !.saved = Details(t), !.clearAll = AfterAdd(g),
                             !.deafButtons = D, !.deafValues = V]
    BY <1>0, <1>1, <2>1 DEF PageOf, Deafened
  <2>3. V \in SUBSET Crit
    BY <1>0, <2>1 DEF PageOf
  <2>4. c \in Crit \ Live(sb)
    BY <1>1
  <2> QED BY <1>0, <1>2, <1>3, <2>1, <2>2, <2>3, <2>4, AddedPage
<1> QED BY <1>1, <1>2, <1>4 DEF IInv, IsAdded

\* What the widgets of a criterion write.
LEMMA CritEdit ==
  ASSUME NEW s, TreeInv(s), NEW c \in Crit \cap Live(s), NEW r \in CritRecord, r.right = s.crit[c].right,
         NEW t, t = [s EXCEPT !.crit[c] = r]
  PROVE  TreeInv(t) /\ t.kids = s.kids
<1> DEFINE C == [s.crit EXCEPT ![c] = r]
<1>0. s \in Tree
  BY InvFacts
<1>1. C \in [Crit -> CritRecord] /\ C[c] = r /\ \A x \in Crit \ {c} : C[x] = s.crit[x]
  BY <1>0, TreeFields
<1>2. t = [s EXCEPT !.crit = C]
  BY <1>0, TreeFields
<1> HIDE DEF C
<1>3. t \in Tree /\ t.kids = s.kids /\ t.index = s.index /\ t.depth = s.depth /\ t.logic = s.logic /\ t.crit = C
  BY <1>0, <1>1, <1>2 DEF Tree
<1>4. /\ \A x \in Crit : t.crit[x].right = s.crit[x].right
      /\ \A x \in Crit \ Live(s) : t.crit[x] = s.crit[x]
  BY <1>1, <1>3
<1> QED BY <1>3, <1>4, EditInv

LEMMA DataKeeps == ASSUME IInv, NEW c \in Crit, NEW column \in Column, ChooseData(c, column) PROVE IInv'
<1>0. TreeInv(sb) /\ PageOf(sb, page) /\ sb \in Tree
  BY InvFacts DEF IInv
<1> DEFINE r == [sb.crit[c] EXCEPT !.data = column, !.cond = None, !.value = None, !.filled = FALSE]
<1>1. PICK t : /\ t = [sb EXCEPT !.crit[c] = r] /\ c \in Live(sb) /\ sb' = t
               /\ page' = Drawn(t, page) \/ page' = [page EXCEPT !.saved = Details(t)]
  BY Zenon DEF ChooseData
<1>2. r \in CritRecord /\ r.right = sb.crit[c].right
  <2>1. sb.crit[c] \in CritRecord
    BY <1>0, TreeFields
  <2> QED BY <2>1 DEF CritRecord
<1> HIDE DEF r
<1>3. TreeInv(t) /\ t.kids = sb.kids
  BY <1>0, <1>1, <1>2, CritEdit
<1>4. PageOf(t, page')
  <2>1. PageOf(t, Drawn(t, page))
    BY <1>0, <1>3, DrawnIs
  <2>2. PageOf(t, [page EXCEPT !.saved = Details(t)])
    BY <1>0, <1>3, SavedIs
  <2> QED BY <1>1, <2>1, <2>2
<1> QED BY <1>1, <1>3, <1>4 DEF IInv

LEMMA ConditionKeeps == ASSUME IInv, NEW c \in Crit, NEW cond \in Condition, ChooseCondition(c, cond) PROVE IInv'
<1>0. TreeInv(sb) /\ PageOf(sb, page) /\ sb \in Tree
  BY InvFacts DEF IInv
<1> DEFINE r == [sb.crit[c] EXCEPT !.cond = cond, !.value = None, !.filled = cond \in NoValue]
<1>1. PICK t : /\ t = [sb EXCEPT !.crit[c] = r] /\ c \in Live(sb) /\ sb' = t
               /\ page' = [Drawn(t, page) EXCEPT !.deafValues = @ \ {c}]
  BY Zenon DEF ChooseCondition
<1>2. r \in CritRecord /\ r.right = sb.crit[c].right
  <2>1. sb.crit[c] \in CritRecord
    BY <1>0, TreeFields
  <2>2. PICK b \in BOOLEAN : b = (cond \in NoValue)
    <3>1. CASE cond \in NoValue
      <4>1. TRUE = (cond \in NoValue)
        BY <3>1, SMT
      <4> QED BY <4>1
    <3>2. CASE cond \notin NoValue
      <4>1. FALSE = (cond \in NoValue)
        BY <3>2, SMT
      <4> QED BY <4>1
    <3> QED BY <3>1, <3>2
  <2>3. r = [sb.crit[c] EXCEPT !.cond = cond, !.value = None, !.filled = b]
    BY <2>2
  <2> HIDE DEF r
  <2> QED BY <2>1, <2>3 DEF CritRecord
<1> HIDE DEF r
<1>3. TreeInv(t) /\ t.kids = sb.kids
  BY <1>0, <1>1, <1>2, CritEdit
<1>4. PageOf(t, page')
  <2>1. PICK q : q = Drawn(t, page)
    OBVIOUS
  <2>2. PageOf(t, q)
    BY <1>0, <1>3, <2>1, DrawnIs
  <2>3. q.rows \in SUBSET Row /\ q.cleared \in BOOLEAN /\ q.deafValues \ {c} \in SUBSET Crit
    BY <2>2 DEF PageOf
  <2>4. PageOf(t, [q EXCEPT !.deafValues = q.deafValues \ {c}])
    BY <2>2, <2>3, PageStays
  <2> QED BY <1>1, <2>1, <2>4
<1> QED BY <1>1, <1>3, <1>4 DEF IInv

LEMMA ValueKeeps == ASSUME IInv, NEW c \in Crit, NEW value \in Value \cup {None}, EnterValue(c, value) PROVE IInv'
<1>0. TreeInv(sb) /\ PageOf(sb, page) /\ sb \in Tree
  BY InvFacts DEF IInv
<1> DEFINE r == [sb.crit[c] EXCEPT !.value = value, !.filled = Valid(sb.crit[c].cond, value)]
<1>1. PICK t : /\ t = [sb EXCEPT !.crit[c] = r] /\ c \in Live(sb) /\ sb' = t /\ page' = Drawn(t, page)
  BY Zenon DEF EnterValue
<1>2. r \in CritRecord /\ r.right = sb.crit[c].right
  <2>1. sb.crit[c] \in CritRecord
    BY <1>0, TreeFields
  <2>2. PICK b \in BOOLEAN : b = Valid(sb.crit[c].cond, value)
    BY DEF Valid
  <2>3. r = [sb.crit[c] EXCEPT !.value = value, !.filled = b]
    BY <2>2
  <2> HIDE DEF r
  <2> QED BY <2>1, <2>3 DEF CritRecord
<1> HIDE DEF r
<1>3. TreeInv(t) /\ t.kids = sb.kids
  BY <1>0, <1>1, <1>2, CritEdit
<1>4. PageOf(t, page')
  BY <1>0, <1>1, <1>3, DrawnIs
<1> QED BY <1>1, <1>3, <1>4 DEF IInv

LEMMA LogicKeeps == ASSUME IInv, NEW g \in Group, ToggleLogic(g) PROVE IInv'
<1>0. TreeInv(sb) /\ PageOf(sb, page) /\ sb \in Tree
  BY InvFacts DEF IInv
<1> DEFINE l == CASE sb.logic[g] = "OR" -> "AND" [] sb.logic[g] = "AND" -> "OR" [] OTHER -> sb.logic[g]
           G == [sb.logic EXCEPT ![g] = l]
<1>1. PICK t : t = [sb EXCEPT !.logic[g] = l] /\ g \in LiveGroups(sb) /\ sb' = t /\ page' = Drawn(t, page)
  BY Zenon DEF ToggleLogic
<1>2. l \in Logic
  <2>1. sb.logic[g] \in Logic
    BY <1>0, TreeFields
  <2> QED BY <2>1 DEF Logic
<1> HIDE DEF l
<1>3. G \in [Group -> Logic] /\ (\A h \in Group \ {g} : G[h] = sb.logic[h]) /\ t = [sb EXCEPT !.logic = G]
  BY <1>0, <1>1, <1>2, TreeFields
<1> HIDE DEF G
<1>4. t \in Tree /\ t.kids = sb.kids /\ t.index = sb.index /\ t.depth = sb.depth /\ t.logic = G /\ t.crit = sb.crit
  BY <1>0, <1>3 DEF Tree
<1>5. \A h \in Sub \ Live(sb) : t.logic[h] = sb.logic[h]
  BY <1>1, <1>3, <1>4, Nodes DEF LiveGroups
<1>6. TreeInv(t)
  BY <1>0, <1>4, <1>5, EditInv
<1>7. PageOf(t, page')
  BY <1>0, <1>1, <1>4, <1>6, DrawnIs
<1> QED BY <1>1, <1>6, <1>7 DEF IInv

LEMMA DeleteKeeps == ASSUME IInv, NEW c \in Crit, Delete(c) PROVE IInv'
<1>0. TreeInv(sb) /\ page.rows \in SUBSET Row /\ page.cleared \in BOOLEAN
  BY DEF IInv, PageOf
<1>1. PICK g, w, t : /\ g = Parent(sb, c) /\ w = RemoveCriteria(sb, g, c) /\ t = UpdateArrows(w, {g})
                     /\ c \in Live(sb) /\ Redraw(t, page, TRUE)
  BY Zenon DEF Delete
<1>2. g \in Group /\ \E L : Ready(w, L)
  BY <1>0, <1>1, RemovedReady
<1>3. PICK L : Ready(w, L)
  BY <1>2
<1>4. Ready(t, L)
  BY <1>1, <1>2, <1>3, ArrowsReady
<1> QED BY <1>0, <1>1, <1>4, RedrawKeeps

\* The tree of Indent, before it is redrawn.
Grouped(s, emptied, g, c, n) ==
  [emptied EXCEPT !.kids[g][s.index[c] + 1].node = n,
                  !.kids[n] = <<[node |-> c, index |-> s.index[c]]>>,
                  !.index[n] = s.index[c],
                  !.depth = [@ EXCEPT ![n] = DepthOf(s, g) + 1, ![c] = DepthOf(s, g) + 1],
                  !.logic[n] = DefaultLogic,
                  !.crit[c].right = FALSE]

LEMMA IndentKeeps == ASSUME IInv, NEW c \in Crit, NEW n \in Sub, Indent(c, n) PROVE IInv'
<1>0. TreeInv(sb) /\ sb \in Tree /\ PageOf(sb, page)
  BY InvFacts DEF IInv
<1> DEFINE e == [sb EXCEPT !.crit[c] = Populate(@)]
           p == IF e.crit[c].filled # sb.crit[c].filled THEN Drawn(e, page) ELSE page
<1>1. PICK t : t = Indented(sb, c, n) /\ c \in Live(sb) /\ sb.crit[c].right /\ n \notin Live(sb) /\ Redraw(t, p, FALSE)
  <2>1. c \in Live(sb) /\ sb.crit[c].right /\ n \notin Live(sb)
    BY Zenon DEF Indent
  <2>2. \E g \in {Parent(sb, c)} : \E emptied \in {[sb EXCEPT !.crit[c] = Populate(@)]} :
        \E t \in {Grouped(sb, emptied, g, c, n)} :
          Redraw(t, IF emptied.crit[c].filled # sb.crit[c].filled THEN Drawn(emptied, page) ELSE page, FALSE)
    BY Zenon DEF Indent, Grouped
  <2>3. Indented(sb, c, n) = Grouped(sb, e, Parent(sb, c), c, n)
    BY Zenon DEF Indented, Grouped
  <2>4. \E t : t = Grouped(sb, e, Parent(sb, c), c, n) /\ Redraw(t, p, FALSE)
    BY <2>2
  <2> QED BY <2>1, <2>3, <2>4
<1>2. PICK L : Ready(t, L)
  BY <1>0, <1>1, IndentReady
<1>3. TreeInv(e) /\ e.kids = sb.kids
  <2>1. sb.crit[c] \in CritRecord
    BY <1>0, TreeFields
  <2>2. PICK r : r = Populate(sb.crit[c])
    OBVIOUS
  <2>3. e = [sb EXCEPT !.crit[c] = r]
    BY <2>2
  <2> HIDE DEF e
  <2>4. r \in CritRecord /\ r.right = sb.crit[c].right
    BY <2>1, <2>2, PopulatedCrit
  <2>5. TreeInv(sb) /\ c \in Crit \cap Live(sb)
    BY <1>0, <1>1
  <2> HIDE DEF p
  <2> QED BY <2>3, <2>4, <2>5, CritEdit
<1> HIDE DEF e
<1>4. PageOf(e, Drawn(e, page))
  BY <1>0, <1>3, DrawnIs
<1>5. p.rows \in SUBSET Row /\ p.cleared \in BOOLEAN
  BY <1>0, <1>4 DEF PageOf
<1> HIDE DEF p
<1> QED BY <1>1, <1>2, <1>5, RedrawKeeps

LEMMA OutdentKeeps == ASSUME IInv, NEW c \in Crit, Outdent(c) PROVE IInv'
<1>0. TreeInv(sb) /\ page.rows \in SUBSET Row /\ page.cleared \in BOOLEAN
  BY DEF IInv, PageOf
<1>1. PICK t : t = Outdented(sb, c) /\ c \in Live(sb) /\ sb.depth[c] > 1 /\ Redraw(t, page, TRUE)
  BY Zenon DEF Outdent, Outdented, Doubled
<1>2. PICK L : Ready(t, L)
  BY <1>0, <1>1, OutdentReady
<1> QED BY <1>0, <1>1, <1>2, RedrawKeeps

LEMMA ClearKeeps == ASSUME IInv, NEW g \in Sub, ClearGroup(g) PROVE IInv'
<1>0. TreeInv(sb) /\ PageOf(sb, page)
  BY DEF IInv
<1> DEFINE p == [page EXCEPT !.cleared = TRUE]
<1>1. PICK t : t = Destroy(sb, g) /\ g \in Live(sb) /\ Redraw(t, p, FALSE)
  BY Zenon DEF ClearGroup
<1>2. PICK L : Ready(t, L)
  BY <1>0, <1>1, DestroyReady
<1>3. p.rows \in SUBSET Row /\ p.cleared \in BOOLEAN
  BY <1>0 DEF PageOf
<1> HIDE DEF p
<1> QED BY <1>1, <1>2, <1>3, RedrawKeeps

LEMMA RelayoutKeeps == ASSUME IInv, Relayout PROVE IInv'
<1>0. TreeInv(sb) /\ page.rows \in SUBSET Row /\ page.cleared \in BOOLEAN
  BY DEF IInv, PageOf
<1>1. PICK t : t = sb
  OBVIOUS
<1>2. Redraw(t, page, FALSE) /\ TreeInv(t)
  BY <1>0, <1>1 DEF Relayout
<1>3. Ready(t, {Top} \cup Live(t))
  BY <1>2, WholeReady
<1> QED BY <1>0, <1>2, <1>3, RedrawKeeps

LEMMA EmptiedKeeps == ASSUME sb' = EmptyTree, page' = FreshPage(EmptyTree) PROVE IInv'
BY EmptyInv, FreshIs DEF IInv

LEMMA RebuildKeeps == ASSUME IInv, NEW d \in ApiDetails, ApiRebuild(d) PROVE IInv'
<1>0. TreeInv(sb) /\ PageOf(sb, page) /\ TreeInv(EmptyTree) /\ PageOf(EmptyTree, FreshPage(EmptyTree))
  BY EmptyInv, FreshIs DEF IInv
<1>1. PICK base, p :
        /\ base = IF page.clearAll THEN EmptyTree ELSE sb
        /\ p = IF page.clearAll THEN FreshPage(EmptyTree) ELSE page
        /\ IF d = None THEN sb' = base /\ page' = p
           ELSE IF d.criteria = <<>> THEN sb' = base /\ page' = [Drawn(base, p) EXCEPT !.addChecks = FALSE]
           ELSE \E ids \in NewObjects(base, d) : \E t \in {UpdateArrows(Extend(base, d, ids), {Top})} :
                \E u \in {Rebuilt(t)} :
                  sb' = u /\ page' = [ListPage(u) EXCEPT !.addChecks = FALSE]
  BY Zenon DEF ApiRebuild
<1>2. TreeInv(base) /\ PageOf(base, p)
  BY <1>0, <1>1
<1>3. CASE d = None
  BY <1>1, <1>2, <1>3 DEF IInv
<1>4. CASE d # None /\ d.criteria = <<>>
  <2>1. PICK q : q = Drawn(base, p)
    OBVIOUS
  <2>2. PageOf(base, q)
    BY <1>2, <2>1, DrawnIs
  <2>3. PageOf(base, [q EXCEPT !.addChecks = FALSE])
    <3>1. q.rows \in SUBSET Row /\ q.cleared \in BOOLEAN
      BY <2>2 DEF PageOf
    <3> QED BY <2>2, <3>1, PageStays
  <2> QED BY <1>1, <1>2, <1>4, <2>1, <2>3 DEF IInv
<1>5. CASE d # None /\ d.criteria # <<>>
  <2>1. PICK ids \in NewObjects(base, d) :
          \E u : /\ u = Rebuilt(UpdateArrows(Extend(base, d, ids), {Top}))
                 /\ sb' = u /\ page' = [ListPage(u) EXCEPT !.addChecks = FALSE]
    BY <1>1, <1>5, Zenon
  <2>2. PICK u : /\ u = Rebuilt(UpdateArrows(Extend(base, d, ids), {Top}))
                 /\ sb' = u /\ page' = [ListPage(u) EXCEPT !.addChecks = FALSE]
    BY <2>1
  <2>3. d \in Lists
    BY <1>5, Assumptions
  <2>4. TreeInv(u)
    BY <1>2, <2>1, <2>2, <2>3, ExtendInv
  <2>5. PICK q : q = ListPage(u)
    OBVIOUS
  <2>7. PageOf(u, [q EXCEPT !.addChecks = FALSE])
    BY <2>4, <2>5, ListIs
  <2> QED BY <2>2, <2>4, <2>5, <2>7 DEF IInv
<1> QED BY <1>3, <1>4, <1>5

LEMMA ReloadKeeps == ASSUME IInv, Reload PROVE IInv'
<1>1. TreeInv(sb) /\ page.saved = Details(sb)
  BY DEF IInv, PageOf
<1>2. PICK t : t = Restore(Details(sb)) /\ sb' = t /\ page' = FreshPage(t)
  BY <1>1, Zenon DEF Reload
<1>3. TreeInv(t)
  BY <1>1, <1>2, RestoreInv
<1>4. PageOf(t, page')
  BY <1>2, <1>3, FreshIs
<1> QED BY <1>2, <1>3, <1>4 DEF IInv

LEMMA NextKeeps == ASSUME IInv, [Next]_vars PROVE IInv'
<1>1. CASE UNCHANGED vars
  BY <1>1 DEF vars, IInv
<1>2. CASE Next
  BY <1>2, AddKeeps, DataKeeps, ConditionKeeps, ValueKeeps, LogicKeeps, DeleteKeeps, IndentKeeps, OutdentKeeps,
     ClearKeeps, RelayoutKeeps, EmptiedKeeps, RebuildKeeps, ReloadKeeps
     DEF Next, ClearTop, ClearAll
<1> QED BY <1>1, <1>2

THEOREM Inductive == Spec => []IInv
<1>1. Init => IInv
  BY InitHolds
<1>2. IInv /\ [Next]_vars => IInv'
  BY NextKeeps
<1> QED BY <1>1, <1>2, PTL DEF Spec

LEMMA TypeFollows == IInv => TypeOK
<1> SUFFICES ASSUME IInv PROVE TypeOK
  OBVIOUS
<1>1. sb \in Tree /\ PageOf(sb, page)
  BY InvFacts DEF IInv
<1>2. \A g \in Group : \A i \in DOMAIN sb.kids[g] : sb.kids[g][i].node \in Node /\ sb.kids[g][i].index \in Nat
  BY <1>1, Entries
<1>3. Count(sb) \in Nat
  BY <1>1, CountIsNat
<1>4. /\ page.rows \subseteq Row /\ page.title \in Nat /\ {page.clearAll, page.addChecks, page.cleared} \subseteq BOOLEAN
      /\ page.deafButtons \subseteq LiveCrit(sb) /\ page.deafValues \subseteq Crit
  BY <1>1, <1>3 DEF PageOf, Revivable
<1>5. /\ sb.index \in [Node -> Nat] /\ sb.depth \in [Node -> Nat]
      /\ sb.logic \in [Group -> {"AND", "OR", None}] /\ sb.crit \in [Crit -> CritRecord]
  BY <1>1, TreeFields DEF Logic
<1> QED BY <1>2, <1>4, <1>5 DEF TypeOK

LEMMA SoundFollows == IInv => TreeIsSound
<1> SUFFICES ASSUME IInv PROVE TreeIsSound
  OBVIOUS
<1>1. TypeOK
  BY TypeFollows
<1>2. sb \in Tree /\ Sound(sb) /\ Placed(sb) /\ Kept(sb) /\ Limited(sb)
  BY DEF IInv, TreeInv, Sound
<1>3. LiveGroups(sb) \subseteq Group /\ LiveGroups(sb) \ {Top} \subseteq Live(sb) \cap Sub
  BY Nodes DEF LiveGroups
<1>4. IndexIsPosition
  BY <1>2, <1>3 DEF Placed, IndexIsPosition
<1>5. \A g, h \in LiveGroups(sb) : \A i \in DOMAIN sb.kids[g], j \in DOMAIN sb.kids[h] :
        sb.kids[g][i].node = sb.kids[h][j].node => g = h /\ i = j
  <2> SUFFICES ASSUME NEW g \in LiveGroups(sb), NEW h \in LiveGroups(sb),
                      NEW i \in DOMAIN sb.kids[g], NEW j \in DOMAIN sb.kids[h],
                      sb.kids[g][i].node = sb.kids[h][j].node
               PROVE  g = h /\ i = j
    OBVIOUS
  <2>1. sb.kids[g][i].node \in Kids(sb, g) /\ sb.kids[h][j].node \in Kids(sb, h)
    BY DEF Kids
  <2>2. g = h
    BY <1>2, <1>3, <2>1 DEF Sound, Apart
  <2> QED BY <1>2, <1>3, <2>2 DEF Sound, Single
<1>6. \A g \in LiveGroups(sb) \ {Top} : sb.kids[g] # <<>>
  BY <1>2, <1>3 DEF Kept
<1>7. \A g \in LiveGroups(sb) : \A n \in Kids(sb, g) : sb.depth[n] = DepthOf(sb, g) + (IF n \in Sub THEN 1 ELSE 0)
  BY <1>2, <1>3 DEF Sound, Nested
<1>8. DepthLimit # 0 => \A c \in LiveCrit(sb) : sb.depth[c] <= DepthLimit
  BY <1>2 DEF Limited, LiveCrit
<1> QED BY <1>1, <1>4, <1>5, <1>6, <1>7, <1>8 DEF TreeIsSound

LEMMA PageFollows == IInv => PageFollowsTree
<1> SUFFICES ASSUME IInv PROVE PageFollowsTree
  OBVIOUS
<1>1. Arrows(sb) /\ PageOf(sb, page)
  BY DEF IInv, TreeInv
<1>2. LiveGroups(sb) \subseteq Group
  BY Nodes DEF LiveGroups
<1>3. SiblingsAreOffered
  BY <1>1, <1>2 DEF Arrows, SiblingsAreOffered
<1>5. ButtonsCanRevive
  BY <1>1, <1>2 DEF PageOf, Revivable, ButtonsCanRevive
<1>4. page.title = Count(sb)
  BY <1>1 DEF PageOf
<1> QED BY <1>1, <1>3, <1>4, <1>5 DEF PageOf, PageFollowsTree

\* Whatever is clicked, in any order and number, the tree and the page are made
\* of the right parts.
THEOREM TypeCorrect == Spec => []TypeOK
BY Inductive, TypeFollows, PTL

\* After every handler each criterion has one place, at the index it is removed
\* by, no sub group is empty, and each node is as deep as it is nested.
THEOREM TreeIsSoundHolds == Spec => []TreeIsSound
BY Inductive, SoundFollows, PTL

\* The count in the title, the arrows and Clear All follow the tree, and no group
\* is left with deaf buttons only.
THEOREM PageFollowsTreeHolds == Spec => []PageFollowsTree
BY Inductive, PageFollows, PTL

(* --------------------- complete criteria, and logics ---------------------- *)

\* A criterion is taken for complete when it is, or at least has a condition.
Known(t) == \A c \in Crit : t.crit[c].filled = Complete(t.crit[c])
Backed(t) == \A c \in Crit : t.crit[c].filled => t.crit[c].cond # None

Logical(t) == \A g \in Group : t.logic[g] \in {"AND", "OR"}

\* The conditions check their inputs, and lists have a logic.
EveryInputIsChecked == Unchecked = {}
EveryListHasLogic == \A d \in ApiDetails \ {None} : d.criteria # <<>> => d.logic # None

\* The same criterion, but for its arrow.
Alike(a, b) == [a EXCEPT !.right = FALSE] = [b EXCEPT !.right = FALSE]

LEMMA AlikeFacts ==
  ASSUME NEW a \in CritRecord, NEW b \in CritRecord, Alike(a, b)
  PROVE  a.data = b.data /\ a.cond = b.cond /\ a.value = b.value /\ a.filled = b.filled
<1>1. /\ [a EXCEPT !.right = FALSE].data = a.data /\ [b EXCEPT !.right = FALSE].data = b.data
      /\ [a EXCEPT !.right = FALSE].cond = a.cond /\ [b EXCEPT !.right = FALSE].cond = b.cond
      /\ [a EXCEPT !.right = FALSE].value = a.value /\ [b EXCEPT !.right = FALSE].value = b.value
      /\ [a EXCEPT !.right = FALSE].filled = a.filled /\ [b EXCEPT !.right = FALSE].filled = b.filled
  BY DEF CritRecord
<1> QED BY <1>1 DEF Alike

LEMMA CompleteIs ==
  ASSUME EveryInputIsChecked, NEW c \in CritRecord, c.cond # None
  PROVE  Complete(c) = Valid(c.cond, c.value)
BY DEF EveryInputIsChecked, Complete, Valid

\* A criterion that is rebuilt is taken for complete when it is.
LEMMA RebuiltKnown ==
  ASSUME EveryInputIsChecked, NEW c \in CritRecord, c.filled => c.cond # None
  PROVE  Rebuild(c).filled = Complete(Rebuild(c)) /\ (c.filled = Complete(c) => Rebuild(c) = c)
<1>1. CASE c.cond = None
  <2>1. Rebuild(c) = c /\ ~Complete(c) /\ c.filled = FALSE
    BY <1>1 DEF Rebuild, Complete, CritRecord
  <2> QED BY <2>1 DEF Complete
<1>2. CASE c.cond # None
  <2>1. PICK b \in BOOLEAN : b = Valid(c.cond, c.value)
    BY DEF Valid
  <2>2. Rebuild(c) = [c EXCEPT !.filled = b] /\ Complete(c) = b
    BY <1>2, <2>1, CompleteIs DEF Rebuild
  <2>3. PICK r : r = [c EXCEPT !.filled = b]
    OBVIOUS
  <2>4. r.filled = b /\ r.cond = c.cond /\ r.value = c.value /\ (c.filled = b => r = c)
    BY <2>3 DEF CritRecord
  <2>5. Complete(r) = Complete(c)
    BY <2>4 DEF Complete
  <2> QED BY <2>2, <2>3, <2>4, <2>5
<1> QED BY <1>1, <1>2

LEMMA EmptyCritIs == EmptyCrit \in CritRecord /\ EmptyCrit.filled = FALSE /\ EmptyCrit.cond = None /\ ~Complete(EmptyCrit)
BY Records DEF EmptyCrit, Complete

LEMMA KnownIsBacked == ASSUME NEW t, Known(t) PROVE Backed(t)
BY DEF Known, Backed, Complete

\* Whatever a handler did, the redraw knows which criteria are complete.
LEMMA RebuiltKnows ==
  ASSUME EveryInputIsChecked, NEW t, Sound(t), Backed(t), NEW u, u = Rebuilt(t)
  PROVE  Known(u) /\ (Logical(t) => Logical(u))
<1>1. t \in Tree
  BY DEF Sound
<1>2. \A c \in Crit : u.crit[c] = IF c \in Reached(t) THEN Rebuild(t.crit[c]) ELSE EmptyCrit
  BY RebuiltIs
<1>3. ASSUME NEW c \in Crit PROVE u.crit[c].filled = Complete(u.crit[c])
  <2>1. CASE c \in Reached(t)
    <3>1. t.crit[c] \in CritRecord /\ (t.crit[c].filled => t.crit[c].cond # None)
      BY <1>1, TreeFields DEF Backed
    <3> QED BY <1>2, <2>1, <3>1, RebuiltKnown
  <2>2. CASE c \notin Reached(t)
    <3>1. u.crit[c] = EmptyCrit
      BY <1>2, <2>2
    <3>2. FALSE = Complete(EmptyCrit)
      BY EmptyCritIs DEF Complete
    <3> QED BY <3>1, <3>2, EmptyCritIs
  <2> QED BY <2>1, <2>2
<1>4. ASSUME Logical(t), NEW g \in Group PROVE u.logic[g] \in {"AND", "OR"}
  <2>1. u.logic[g] = t.logic[g] \/ u.logic[g] = DefaultLogic
    BY RebuiltIs, Nodes
  <2> QED BY <1>4, <2>1, Assumptions DEF Logical
<1> QED BY <1>3, <1>4 DEF Known, Logical

LEMMA RedrawnKnows ==
  ASSUME EveryInputIsChecked, NEW t, NEW L, Ready(t, L), Backed(t), NEW u, u = Rebuilt(Pruned(t))
  PROVE  Known(u) /\ (Logical(t) => Logical(u))
<1>1. PICK q : q = Pruned(t)
  OBVIOUS
<1>2. Sound(t) /\ t \in Tree /\ \A g \in Group : Single(t, g)
  BY DEF Ready, Sound
<1>3. q.crit = t.crit /\ q.logic = t.logic
  BY <1>1, <1>2, PrunedIs
<1>4. Sound(q)
  BY <1>1, PrunedReady DEF Ready
<1>5. Backed(q) /\ (Logical(t) => Logical(q))
  BY <1>3 DEF Backed, Logical
<1> QED BY <1>1, <1>4, <1>5, RebuiltKnows

\* Trees with the same criteria, but for their arrows.
LEMMA AlikeBacked ==
  ASSUME NEW t \in Tree, NEW u \in Tree, Backed(t), \A c \in Crit : Alike(u.crit[c], t.crit[c])
  PROVE  Backed(u)
<1> SUFFICES ASSUME NEW c \in Crit PROVE u.crit[c].filled => u.crit[c].cond # None
  BY DEF Backed
<1>1. u.crit[c] \in CritRecord /\ t.crit[c] \in CritRecord /\ Alike(u.crit[c], t.crit[c])
  BY TreeFields
<1>2. u.crit[c].filled = t.crit[c].filled /\ u.crit[c].cond = t.crit[c].cond
  BY <1>1, AlikeFacts
<1> QED BY <1>2 DEF Backed

LEMMA AlikeKnown ==
  ASSUME NEW t \in Tree, NEW u \in Tree, Known(t), \A c \in Crit : Alike(u.crit[c], t.crit[c])
  PROVE  Known(u)
<1> SUFFICES ASSUME NEW c \in Crit PROVE u.crit[c].filled = Complete(u.crit[c])
  BY DEF Known
<1>1. u.crit[c] \in CritRecord /\ t.crit[c] \in CritRecord /\ Alike(u.crit[c], t.crit[c])
  BY TreeFields
<1>2. u.crit[c].filled = t.crit[c].filled /\ u.crit[c].cond = t.crit[c].cond /\ u.crit[c].value = t.crit[c].value
  BY <1>1, AlikeFacts
<1>3. Complete(u.crit[c]) = Complete(t.crit[c])
  BY <1>2 DEF Complete
<1> QED BY <1>2, <1>3 DEF Known

(* --------------------- the nodes with something to say -------------------- *)

\* A node has something to say when a criterion below it has: f says of which
\* nodes that is so, from what mark says of the criteria.
SaysOf(t, mark, f, n) == IF n \in Crit THEN mark[n] ELSE \E k \in Kids(t, n) : f[k]

IsSays(t, mark, f) == f \in [All -> BOOLEAN] /\ \A n \in All : f[n] = SaysOf(t, mark, f, n)

LEMMA SaysAre ==
  ASSUME NEW t, NEW mark \in [Crit -> BOOLEAN], NEW f, NEW n
  PROVE  SaysOf(t, mark, f, n) \in BOOLEAN
BY DEF SaysOf

LEMMA SaysLook ==
  ASSUME NEW t, NEW mark, NEW f, NEW g, NEW n \in All, \A k \in Inside(t, n) : f[k] = g[k]
  PROVE  SaysOf(t, mark, f, n) = SaysOf(t, mark, g, n)
<1>1. CASE n \in Crit
  BY <1>1 DEF SaysOf
<1>2. CASE n \notin Crit
  <2>1. n \in Group
    BY <1>2, Nodes DEF All
  <2>2. \A k \in Kids(t, n) : f[k] = g[k]
    BY <2>1 DEF Inside
  <2>3. \A h : SaysOf(t, mark, h, n) = (\E k \in Kids(t, n) : h[k])
    BY <1>2 DEF SaysOf
  <2>4. (\E k \in Kids(t, n) : f[k]) <=> (\E k \in Kids(t, n) : g[k])
    BY <2>2
  <2> QED BY <2>3, <2>4
<1> QED BY <1>1, <1>2

\* What is chosen by such a recursion is what it says.
LEMMA SaysExist ==
  ASSUME NEW t \in Tree, Layered(t), NEW mark \in [Crit -> BOOLEAN], NEW B,
         B = CHOOSE f : f = [n \in All |-> SaysOf(t, mark, f, n)]
  PROVE  IsSays(t, mark, B)
<1> DEFINE T == BOOLEAN
           E == [x \in [All -> T] \X All |-> SaysOf(t, mark, x[1], x[2])]
<1>1. ASSUME NEW f \in [All -> T], NEW n \in All
      PROVE  E[<<f, n>>] = SaysOf(t, mark, f, n) /\ SaysOf(t, mark, f, n) \in T
  <2>1. E[<<f, n>>] = SaysOf(t, mark, f, n)
    OBVIOUS
  <2> HIDE DEF E
  <2> QED BY <2>1, SaysAre
<1>2. E \in [[All -> T] \X All -> T]
  <2>1. \A x \in [All -> T] \X All : SaysOf(t, mark, x[1], x[2]) \in T
    BY SaysAre
  <2> HIDE DEF T
  <2> QED BY <2>1
<1>3. LooksInside(t, T, E)
  <2> SUFFICES ASSUME NEW f \in [All -> T], NEW h \in [All -> T], NEW n \in All,
                      \A k \in Inside(t, n) : f[k] = h[k]
               PROVE  E[<<f, n>>] = E[<<h, n>>]
    BY Zenon DEF LooksInside
  <2>1. SaysOf(t, mark, f, n) = SaysOf(t, mark, h, n)
    BY SaysLook
  <2> HIDE DEF E, T
  <2> QED BY <1>1, <2>1
<1>4. T # {}
  OBVIOUS
<1> HIDE DEF E
<1>5. PICK f : IsDefinedBy(f, All, T, E)
  <2> HIDE DEF T
  <2> QED BY <1>2, <1>3, <1>4, TreeRecursion
<1>6. f \in [All -> T] /\ \A n \in All : f[n] = E[<<f, n>>]
  BY <1>5, Zenon DEF IsDefinedBy
<1>7. \A n \in All : f[n] = SaysOf(t, mark, f, n)
  BY <1>1, <1>6
<1>8. f = [n \in All |-> SaysOf(t, mark, f, n)]
  BY <1>6, <1>7
<1>9. B = [n \in All |-> SaysOf(t, mark, B, n)]
  BY <1>8
<1>10. \A n \in All : B[n] = SaysOf(t, mark, B, n)
  BY <1>9
<1>11. B \in [All -> BOOLEAN]
  BY <1>9, SaysAre
<1> QED BY <1>10, <1>11 DEF IsSays

Marks(t) == [c \in Crit |-> t.crit[c].filled]

LEMMA FilledIs ==
  ASSUME NEW t \in Tree, Layered(t)
  PROVE  \E f : IsSays(t, Marks(t), f) /\ Filled(t) = {n \in Live(t) : f[n]}
<1> DEFINE B == CHOOSE f : f = [n \in All |-> SaysOf(t, Marks(t), f, n)]
           A == CHOOSE filled : filled = [n \in All |-> IF n \in Crit THEN t.crit[n].filled
                                                        ELSE \E k \in Kids(t, n) : filled[k]]
<1>1. Marks(t) \in [Crit -> BOOLEAN]
  BY TreeFields DEF Marks, CritRecord
<1>2. IsSays(t, Marks(t), B)
  BY <1>1, SaysExist
<1>3. Filled(t) = {n \in Live(t) : A[n]}
  BY Zenon DEF Filled, All
<1>4. A = B
  <2>1. \A n \in Crit : Marks(t)[n] = t.crit[n].filled
    BY DEF Marks
  <2> QED BY <2>1, ZenonT(60) DEF SaysOf
<1> QED BY <1>2, <1>3, <1>4

\* A criterion is in it when it is complete, and a group when something in it is.
LEMMA FilledFacts ==
  ASSUME NEW t \in Tree, Layered(t)
  PROVE  /\ Filled(t) \subseteq Live(t)
         /\ \A c \in Live(t) \cap Crit : c \in Filled(t) <=> t.crit[c].filled
         /\ \A n \in Live(t) \cap Sub : n \in Filled(t) <=> \E k \in Kids(t, n) : k \in Filled(t)
<1>1. PICK f : IsSays(t, Marks(t), f) /\ Filled(t) = {n \in Live(t) : f[n]}
  BY FilledIs
<1>2. \A c \in Crit : Marks(t)[c] = t.crit[c].filled
  BY DEF Marks
<1>3. ASSUME NEW c \in Live(t) \cap Crit PROVE c \in Filled(t) <=> t.crit[c].filled
  <2>1. f[c] = t.crit[c].filled
    BY <1>1, <1>2, Nodes DEF IsSays, SaysOf, All
  <2> QED BY <1>1, <2>1
<1>4. ASSUME NEW n \in Live(t) \cap Sub PROVE n \in Filled(t) <=> \E k \in Kids(t, n) : k \in Filled(t)
  <2>1. n \in All /\ n \notin Crit /\ n \in Group
    BY Nodes DEF All
  <2>2. f[n] = \E k \in Kids(t, n) : f[k]
    BY <1>1, <2>1 DEF IsSays, SaysOf
  <2>3. \A k \in Kids(t, n) : k \in Live(t)
    BY <2>1, LiveAre
  <2> QED BY <1>1, <2>2, <2>3
<1> QED BY <1>1, <1>3, <1>4

(* ------------------------- the same rows, twice --------------------------- *)

\* The parts of a group that are asked for their rows.
Counted(t, full, n) == IF t.logic[n] = "OR" THEN Kids(t, n) \cap full ELSE Kids(t, n) \ (Crit \ full)

CritRows(c) == {row \in Row : CritSearch(c, row)}
GroupRows(t, full, f, n) == Combine(t.logic[n], {f[k] : k \in Counted(t, full, n)})

LEMMA RowsOfCrit ==
  ASSUME NEW t, NEW full, NEW f, IsRows(t, full, f), NEW c \in Crit
  PROVE  f[c] = CritRows(t.crit[c])
<1>1. c \in All
  BY Nodes DEF All
<1>2. f[c] = RowsOf(t, full, f, c)
  BY <1>1 DEF IsRows
<1> QED BY <1>2 DEF RowsOf, CritRows

LEMMA RowsOfGroup ==
  ASSUME NEW t, NEW full, NEW f, IsRows(t, full, f), NEW g \in Group
  PROVE  f[g] = GroupRows(t, full, f, g)
<1>1. g \in All /\ g \notin Crit
  BY Nodes DEF All
<1>2. f[g] = RowsOf(t, full, f, g)
  BY <1>1 DEF IsRows
<1> QED BY <1>1, <1>2, Zenon DEF RowsOf, Counted, GroupRows

\* A criterion that says the same.
SaysSame(a, b) == a.data = b.data /\ a.cond = b.cond /\ a.value = b.value

\* Trees that ask the same nodes for their rows show the same rows.
SameAsked(s, t, L) ==
  /\ Top \in L
  /\ \A c \in L \cap Crit : SaysSame(s.crit[c], t.crit[c])
  /\ \A g \in L \cap Group : /\ Counted(s, Filled(s), g) = Counted(t, Filled(t), g)
                             /\ Counted(t, Filled(t), g) \subseteq L
                             /\ s.logic[g] = t.logic[g] \/ Kids(t, g) = {}

LEMMA CombineNone == ASSUME NEW logic PROVE Combine(logic, {}) = Row
<1>1. {} \in SUBSET (SUBSET Row)
  OBVIOUS
<1>2. CASE logic = "AND"
  BY <1>2 DEF Combine
<1>3. CASE logic # "AND"
  BY <1>3 DEF Combine
<1> QED BY <1>2, <1>3

LEMMA SameRows ==
  ASSUME NEW s \in Tree, NEW t \in Tree, Layered(s), Layered(t), NEW L, SameAsked(s, t, L)
  PROVE  Visible(s) = Visible(t)
<1>1. PICK f : IsRows(s, Filled(s), f) /\ Visible(s) = f[Top]
  BY VisibleIs
<1>2. PICK h : IsRows(t, Filled(t), h) /\ Visible(t) = h[Top]
  BY VisibleIs
<1> DEFINE S == {n \in All : n \in L => f[n] = h[n]}
<1>3. ASSUME NEW n \in All, Inside(t, n) \subseteq S PROVE n \in S
  <2> SUFFICES ASSUME n \in L PROVE f[n] = h[n]
    OBVIOUS
  <2>1. CASE n \in Crit
    <3>1. SaysSame(s.crit[n], t.crit[n])
      BY <2>1 DEF SameAsked
    <3>2. \A row : CritSearch(s.crit[n], row) <=> CritSearch(t.crit[n], row)
      BY <3>1 DEF SaysSame, CritSearch
    <3>3. f[n] = CritRows(s.crit[n])
      BY <1>1, <2>1, RowsOfCrit, Zenon
    <3>4. h[n] = CritRows(t.crit[n])
      BY <1>2, <2>1, RowsOfCrit, Zenon
    <3>5. CritRows(s.crit[n]) = CritRows(t.crit[n])
      BY <3>2 DEF CritRows
    <3> QED BY <3>3, <3>4, <3>5
  <2>2. CASE n \notin Crit
    <3>1. n \in Group
      BY <2>2, Nodes DEF All
    <3> DEFINE C == Counted(t, Filled(t), n)
    <3>2. Counted(s, Filled(s), n) = C /\ C \subseteq L /\ (s.logic[n] = t.logic[n] \/ Kids(t, n) = {})
      BY <3>1 DEF SameAsked
    <3>3. C \subseteq Kids(t, n)
      BY DEF Counted
    <3>9. f[n] = Combine(s.logic[n], {f[k] : k \in C})
      <4>1. f[n] = GroupRows(s, Filled(s), f, n)
        BY <1>1, <3>1, RowsOfGroup, Zenon
      <4>2. Counted(s, Filled(s), n) = C
        BY <3>2
      <4> HIDE DEF C
      <4> QED BY <4>1, <4>2, Zenon DEF GroupRows
    <3>10. h[n] = Combine(t.logic[n], {h[k] : k \in C})
      <4>1. h[n] = GroupRows(t, Filled(t), h, n)
        BY <1>2, <3>1, RowsOfGroup, Zenon
      <4> QED BY <4>1, Zenon DEF GroupRows
    <3>4. f[n] = Combine(s.logic[n], {f[k] : k \in C}) /\ h[n] = Combine(t.logic[n], {h[k] : k \in C})
      BY <3>9, <3>10
    <3> HIDE DEF C
    <3>5. \A k \in C : f[k] = h[k]
      <4> TAKE k \in C
      <4>1. k \in Inside(t, n)
        BY <3>1, <3>3 DEF Inside
      <4> QED BY <1>3, <3>2, <4>1
    <3>6. {f[k] : k \in C} = {h[k] : k \in C}
      BY <3>5
    <3>7. CASE s.logic[n] = t.logic[n]
      BY <3>4, <3>6, <3>7
    <3>8. CASE Kids(t, n) = {}
      <4>1. {f[k] : k \in C} = {} /\ {h[k] : k \in C} = {}
        BY <3>3, <3>8
      <4> QED BY <3>4, <4>1, CombineNone
    <3> QED BY <3>2, <3>7, <3>8
  <2> QED BY <2>1, <2>2
<1>4. All \subseteq S
  <2> HIDE DEF S
  <2> QED BY <1>3, TreeInduction
<1>5. f[Top] = h[Top]
  BY <1>4, Nodes DEF All, SameAsked
<1> QED BY <1>1, <1>2, <1>5

\* Trees of the same shape with the same complete criteria.
LEMMA SameFilled ==
  ASSUME NEW s \in Tree, NEW t \in Tree, Layered(s), Layered(t),
         \A g \in Group : Kids(s, g) = Kids(t, g), \A c \in Crit \cap Live(t) : s.crit[c].filled = t.crit[c].filled
  PROVE  Filled(s) = Filled(t) /\ Live(s) = Live(t)
<1>1. Live(s) = Live(t)
  BY LiveAre
<1> DEFINE S == {n \in All : n \in Live(t) => (n \in Filled(s) <=> n \in Filled(t))}
<1>2. ASSUME NEW n \in All, Inside(t, n) \subseteq S PROVE n \in S
  <2> SUFFICES ASSUME n \in Live(t) PROVE n \in Filled(s) <=> n \in Filled(t)
    OBVIOUS
  <2>1. CASE n \in Crit
    BY <1>1, <2>1, FilledFacts
  <2>2. CASE n \in Sub
    <3>1. n \in Group
      BY <2>2, Nodes
    <3>2. Kids(s, n) = Kids(t, n)
      BY <3>1
    <3>3. \A k \in Kids(t, n) : k \in Live(t) /\ k \in S
      BY <1>2, <3>1, LiveAre DEF Inside
    <3>4. \A k \in Kids(t, n) : k \in Filled(s) <=> k \in Filled(t)
      BY <3>3
    <3>5. n \in Filled(s) <=> \E k \in Kids(s, n) : k \in Filled(s)
      BY <1>1, <2>2, FilledFacts
    <3>6. n \in Filled(t) <=> \E k \in Kids(t, n) : k \in Filled(t)
      BY <2>2, FilledFacts
    <3> QED BY <3>2, <3>4, <3>5, <3>6
  <2> QED BY <2>1, <2>2, LiveAreNodes, Nodes
<1>3. All \subseteq S
  <2> HIDE DEF S
  <2> QED BY <1>2, TreeInduction
<1>4. \A n \in Live(t) : n \in Filled(s) <=> n \in Filled(t)
  BY <1>3, LiveAreNodes DEF All
<1>5. Filled(s) \subseteq Live(t) /\ Filled(t) \subseteq Live(t)
  BY <1>1, FilledFacts
<1> QED BY <1>1, <1>4, <1>5

LEMMA SameShapeSameRows ==
  ASSUME NEW s \in Tree, NEW t \in Tree, Layered(s), Layered(t),
         \A g \in Group : Kids(s, g) = Kids(t, g),
         \A g \in Group : s.logic[g] = t.logic[g] \/ Kids(t, g) = {},
         \A c \in Crit \cap Live(t) : s.crit[c].filled = t.crit[c].filled,
         \A c \in Crit \cap Live(t) : s.crit[c].filled => SaysSame(s.crit[c], t.crit[c])
  PROVE  Visible(s) = Visible(t)
<1> DEFINE L == {Top} \cup (Live(t) \cap Sub) \cup Filled(t)
<1>1. Filled(s) = Filled(t) /\ Live(s) = Live(t)
  BY SameFilled
<1>2. ASSUME NEW c \in L \cap Crit PROVE SaysSame(s.crit[c], t.crit[c])
  <2>1. c \in Filled(t) /\ c \in Live(t)
    BY Nodes, FilledFacts
  <2> QED BY <2>1, FilledFacts
<1>3. ASSUME NEW g \in L \cap Group
      PROVE  /\ Counted(s, Filled(s), g) = Counted(t, Filled(t), g) /\ Counted(t, Filled(t), g) \subseteq L
             /\ s.logic[g] = t.logic[g] \/ Kids(t, g) = {}
  <2>1. Kids(s, g) = Kids(t, g) /\ (s.logic[g] = t.logic[g] \/ Kids(t, g) = {}) /\ Kids(t, g) \subseteq Live(t)
    BY LiveAre
  <2>2. Counted(s, Filled(s), g) = Counted(t, Filled(t), g)
    BY <1>1, <2>1 DEF Counted
  <2>3. Counted(t, Filled(t), g) \subseteq L
    BY <2>1, LiveAreNodes, Nodes DEF Counted
  <2> QED BY <2>1, <2>2, <2>3
<1>4. SameAsked(s, t, L)
  <2>1. Top \in L
    OBVIOUS
  <2> HIDE DEF L
  <2> QED BY <1>2, <1>3, <2>1 DEF SameAsked
<1> HIDE DEF L
<1> QED BY <1>4, SameRows

(* -------------------------- what the user means --------------------------- *)

\* The groups and the criteria with something to say, as the user means it.
Stands(t) == [c \in Crit |-> Complete(t.crit[c])]

MeantCrit(c) == {row \in Row : Passes(c.data, c.cond, c.value, row)}
MeantGroup(logic, parts) ==
  CASE parts = {} -> Row
    [] logic = "AND" -> {row \in Row : \A part \in parts : row \in part}
    [] OTHER -> UNION parts
MeantOf(t, stands, f, n) ==
  IF n \in Crit THEN {row \in Row : Passes(t.crit[n].data, t.crit[n].cond, t.crit[n].value, row)}
  ELSE LET parts == {f[k] : k \in {k \in Kids(t, n) : stands[k]}}
       IN CASE parts = {} -> Row
            [] t.logic[n] = "AND" -> {row \in Row : \A part \in parts : row \in part}
            [] OTHER -> UNION parts

IsMeant(t, stands, f) == f \in [All -> SUBSET Row] /\ \A n \in All : f[n] = MeantOf(t, stands, f, n)

LEMMA MeantGroupIs ==
  ASSUME NEW logic, NEW parts \in SUBSET (SUBSET Row)
  PROVE  /\ MeantGroup(logic, parts) \in SUBSET Row
         /\ parts = {} => MeantGroup(logic, parts) = Row
         /\ parts # {} /\ logic = "AND" => MeantGroup(logic, parts) = {row \in Row : \A part \in parts : row \in part}
         /\ parts # {} /\ logic # "AND" => MeantGroup(logic, parts) = UNION parts
<1>1. CASE parts = {}
  <2>1. MeantGroup(logic, parts) = Row
    BY <1>1 DEF MeantGroup
  <2> QED BY <1>1, <2>1
<1>2. CASE parts # {} /\ logic = "AND"
  BY <1>2 DEF MeantGroup
<1>3. CASE parts # {} /\ logic # "AND"
  <2>1. MeantGroup(logic, parts) = UNION parts
    BY <1>3 DEF MeantGroup
  <2> QED BY <1>3, <2>1
<1> QED BY <1>1, <1>2, <1>3

Standing(t, stands, n) == {k \in Kids(t, n) : stands[k]}
GroupMeant(t, stands, f, n) == MeantGroup(t.logic[n], {f[k] : k \in Standing(t, stands, n)})

LEMMA MeantOfCrit ==
  ASSUME NEW t, NEW stands, NEW f, NEW c \in Crit
  PROVE  MeantOf(t, stands, f, c) = MeantCrit(t.crit[c])
BY DEF MeantOf, MeantCrit

LEMMA MeantOfGroup ==
  ASSUME NEW t, NEW stands, NEW f, NEW n, n \notin Crit
  PROVE  MeantOf(t, stands, f, n) = GroupMeant(t, stands, f, n)
BY Zenon DEF MeantOf, GroupMeant, MeantGroup, Standing

LEMMA MeantAre ==
  ASSUME NEW t \in Tree, NEW stands, NEW f \in [All -> SUBSET Row], NEW n \in All
  PROVE  MeantOf(t, stands, f, n) \in SUBSET Row
<1>1. CASE n \in Crit
  <2>1. MeantOf(t, stands, f, n) = MeantCrit(t.crit[n])
    BY <1>1, MeantOfCrit, Zenon
  <2> QED BY <2>1 DEF MeantCrit
<1>2. CASE n \notin Crit
  <2> DEFINE C == Standing(t, stands, n)
  <2>1. n \in Group
    BY <1>2, Nodes DEF All
  <2>2. C \subseteq All
    BY <2>1, Entries DEF All, Standing
  <2>3. {f[k] : k \in C} \in SUBSET (SUBSET Row)
    BY <2>2
  <2>4. MeantOf(t, stands, f, n) = MeantGroup(t.logic[n], {f[k] : k \in C})
    <3>1. MeantOf(t, stands, f, n) = GroupMeant(t, stands, f, n)
      BY <1>2, MeantOfGroup, Zenon
    <3> QED BY <3>1, Zenon DEF GroupMeant
  <2> HIDE DEF C
  <2> QED BY <2>3, <2>4, MeantGroupIs
<1> QED BY <1>1, <1>2

LEMMA MeantLook ==
  ASSUME NEW t \in Tree, NEW stands, NEW f, NEW g, NEW n \in All, \A k \in Inside(t, n) : f[k] = g[k]
  PROVE  MeantOf(t, stands, f, n) = MeantOf(t, stands, g, n)
<1>1. CASE n \in Crit
  <2>1. MeantOf(t, stands, f, n) = MeantCrit(t.crit[n])
    BY <1>1, MeantOfCrit, Zenon
  <2>2. MeantOf(t, stands, g, n) = MeantCrit(t.crit[n])
    BY <1>1, MeantOfCrit, Zenon
  <2> QED BY <2>1, <2>2
<1>2. CASE n \notin Crit
  <2> DEFINE C == Standing(t, stands, n)
  <2>1. n \in Group
    BY <1>2, Nodes DEF All
  <2>2. C \subseteq Inside(t, n)
    BY <2>1 DEF Inside, Standing
  <2>3. MeantOf(t, stands, f, n) = MeantGroup(t.logic[n], {f[k] : k \in C})
    <3>1. MeantOf(t, stands, f, n) = GroupMeant(t, stands, f, n)
      BY <1>2, MeantOfGroup, Zenon
    <3> QED BY <3>1, Zenon DEF GroupMeant
  <2>4. MeantOf(t, stands, g, n) = MeantGroup(t.logic[n], {g[k] : k \in C})
    <3>1. MeantOf(t, stands, g, n) = GroupMeant(t, stands, g, n)
      BY <1>2, MeantOfGroup, Zenon
    <3> QED BY <3>1, Zenon DEF GroupMeant
  <2> HIDE DEF C
  <2>5. {f[k] : k \in C} = {g[k] : k \in C}
    BY <2>2
  <2> QED BY <2>3, <2>4, <2>5
<1> QED BY <1>1, <1>2

LEMMA MeantExist ==
  ASSUME NEW t \in Tree, Layered(t), NEW stands, NEW B,
         B = CHOOSE f : f = [n \in All |-> MeantOf(t, stands, f, n)]
  PROVE  IsMeant(t, stands, B)
<1> DEFINE T == SUBSET Row
           E == [x \in [All -> T] \X All |-> MeantOf(t, stands, x[1], x[2])]
<1>1. ASSUME NEW f \in [All -> T], NEW n \in All
      PROVE  E[<<f, n>>] = MeantOf(t, stands, f, n) /\ MeantOf(t, stands, f, n) \in T
  <2>1. E[<<f, n>>] = MeantOf(t, stands, f, n)
    OBVIOUS
  <2> HIDE DEF E
  <2> QED BY <2>1, MeantAre
<1>2. E \in [[All -> T] \X All -> T]
  <2>1. \A x \in [All -> T] \X All : E[x] \in T
    <3> TAKE x \in [All -> T] \X All
    <3>1. PICK f \in [All -> T], n \in All : x = <<f, n>>
      OBVIOUS
    <3> HIDE DEF E, T
    <3> QED BY <1>1, <3>1
  <2> HIDE DEF T
  <2> QED BY <2>1
<1>3. LooksInside(t, T, E)
  <2> SUFFICES ASSUME NEW f \in [All -> T], NEW h \in [All -> T], NEW n \in All,
                      \A k \in Inside(t, n) : f[k] = h[k]
               PROVE  E[<<f, n>>] = E[<<h, n>>]
    BY Zenon DEF LooksInside
  <2>1. MeantOf(t, stands, f, n) = MeantOf(t, stands, h, n)
    BY MeantLook
  <2> HIDE DEF E, T
  <2> QED BY <1>1, <2>1
<1>4. T # {}
  OBVIOUS
<1> HIDE DEF E
<1>5. PICK f : IsDefinedBy(f, All, T, E)
  <2> HIDE DEF T
  <2> QED BY <1>2, <1>3, <1>4, TreeRecursion
<1>6. f \in [All -> T] /\ \A n \in All : f[n] = E[<<f, n>>]
  BY <1>5, Zenon DEF IsDefinedBy
<1>7. \A n \in All : f[n] = MeantOf(t, stands, f, n)
  BY <1>1, <1>6
<1>8. f = [n \in All |-> MeantOf(t, stands, f, n)]
  BY <1>6, <1>7
<1>9. B = [n \in All |-> MeantOf(t, stands, B, n)]
  BY <1>8
<1> DEFINE S == {n \in All : B[n] = f[n]}
<1>11. ASSUME NEW n \in All, Inside(t, n) \subseteq S PROVE n \in S
  <2>1. MeantOf(t, stands, B, n) = MeantOf(t, stands, f, n)
    BY <1>11, MeantLook
  <2> QED BY <1>7, <1>9, <2>1
<1>12. All \subseteq S
  <2> HIDE DEF S
  <2> QED BY <1>11, TreeInduction
<1>13. \A n \in All : B[n] = MeantOf(t, stands, B, n)
  BY <1>9
<1>14. B \in [All -> T]
  <2>1. \A n \in All : B[n] \in T
    BY <1>6, <1>12
  <2> QED BY <1>9, <2>1
<1> QED BY <1>13, <1>14 DEF IsMeant

LEMMA MeantIs ==
  ASSUME NEW t \in Tree, Layered(t)
  PROVE  \E stands, f : IsSays(t, Stands(t), stands) /\ IsMeant(t, stands, f) /\ Meant(t) = f[Top]
<1> DEFINE A == CHOOSE stands : stands = [n \in All |-> IF n \in Crit THEN Complete(t.crit[n])
                                                        ELSE \E k \in Kids(t, n) : stands[k]]
           Q == CHOOSE f : f = [n \in All |-> SaysOf(t, Stands(t), f, n)]
           B == CHOOSE f : f = [n \in All |-> MeantOf(t, A, f, n)]
<1>1. Stands(t) \in [Crit -> BOOLEAN]
  BY DEF Stands, Complete
<1>2. IsSays(t, Stands(t), Q)
  BY <1>1, SaysExist
<1>3. A = Q
  <2>1. \A n \in Crit : Stands(t)[n] = Complete(t.crit[n])
    BY DEF Stands
  <2> QED BY <2>1, ZenonT(60) DEF SaysOf
<1>4. Meant(t) = B[Top]
  BY Zenon DEF Meant, MeantOf, All
<1> HIDE DEF A, Q
<1>5. IsMeant(t, A, B)
  BY MeantExist
<1> HIDE DEF B
<1> QED BY <1>2, <1>3, <1>4, <1>5

\* What stands is what the search takes for complete.
LEMMA StandsFilled ==
  ASSUME NEW t \in Tree, Layered(t), Known(t), NEW stands, IsSays(t, Stands(t), stands)
  PROVE  \A n \in Live(t) : n \in Filled(t) <=> stands[n]
<1> DEFINE S == {n \in All : n \in Live(t) => (n \in Filled(t) <=> stands[n])}
<1>1. ASSUME NEW n \in All, Inside(t, n) \subseteq S PROVE n \in S
  <2> SUFFICES ASSUME n \in Live(t) PROVE n \in Filled(t) <=> stands[n]
    OBVIOUS
  <2>0. stands[n] = SaysOf(t, Stands(t), stands, n)
    BY DEF IsSays
  <2>1. CASE n \in Crit
    <3>1. stands[n] = Complete(t.crit[n])
      BY <2>0, <2>1 DEF SaysOf, Stands
    <3>2. t.crit[n].filled = Complete(t.crit[n])
      BY <2>1 DEF Known
    <3>3. n \in Filled(t) <=> t.crit[n].filled
      BY <2>1, FilledFacts
    <3> QED BY <3>1, <3>2, <3>3
  <2>2. CASE n \in Sub
    <3>1. n \in Group /\ n \notin Crit
      BY <2>2, Nodes
    <3>2. stands[n] = \E k \in Kids(t, n) : stands[k]
      BY <2>0, <3>1 DEF SaysOf
    <3>3. \A k \in Kids(t, n) : k \in Live(t) /\ k \in S
      BY <1>1, <3>1, LiveAre DEF Inside
    <3>4. \A k \in Kids(t, n) : k \in Filled(t) <=> stands[k]
      BY <3>3
    <3>5. n \in Filled(t) <=> \E k \in Kids(t, n) : k \in Filled(t)
      BY <2>2, FilledFacts
    <3> QED BY <3>2, <3>4, <3>5
  <2> QED BY <2>1, <2>2, LiveAreNodes, Nodes
<1>2. All \subseteq S
  <2> HIDE DEF S
  <2> QED BY <1>1, TreeInduction
<1> QED BY <1>2, LiveAreNodes DEF All

\* A group under AND: a part that lets every row pass does not matter.
LEMMA AndParts ==
  ASSUME NEW P, NEW Q, P \subseteq Q, \A part \in Q : part \in P \/ part = Row
  PROVE  {row \in Row : \A part \in P : row \in part} = {row \in Row : \A part \in Q : row \in part}
OBVIOUS

LEMMA GroupAgrees ==
  ASSUME NEW logic \in {"AND", "OR"}, NEW P \in SUBSET (SUBSET Row), NEW Q \in SUBSET (SUBSET Row), P \subseteq Q,
         \A part \in Q : part \in P \/ part = Row, logic = "OR" => Q = P
  PROVE  Combine(logic, Q) = MeantGroup(logic, P)
<1>1. CASE logic = "OR"
  <2>1. Q = P /\ logic # "AND"
    BY <1>1
  <2>2. CASE P = {}
    BY <1>1, <2>1, <2>2, CombineIs, MeantGroupIs
  <2>3. CASE P # {}
    <3>1. Combine(logic, Q) = UNION Q
      BY <1>1, <2>1, <2>3, CombineIs
    <3>2. MeantGroup(logic, P) = UNION P
      BY <2>1, <2>3, MeantGroupIs
    <3> QED BY <2>1, <3>1, <3>2
  <2> QED BY <2>2, <2>3
<1>2. CASE logic = "AND"
  <2>1. Combine(logic, Q) = {row \in Row : \A part \in Q : row \in part}
    BY <1>2, CombineIs
  <2>2. Combine(logic, Q) = {row \in Row : \A part \in P : row \in part}
    BY <2>1, AndParts
  <2>3. CASE P = {}
    BY <2>2, <2>3, MeantGroupIs
  <2>4. CASE P # {}
    BY <1>2, <2>2, <2>4, MeantGroupIs
  <2> QED BY <2>3, <2>4
<1> QED BY <1>1, <1>2

LEMMA CritAgrees ==
  ASSUME NEW c, Complete(c)
  PROVE  CritRows(c) = MeantCrit(c)
BY DEF Complete, CritRows, MeantCrit, CritSearch

LEMMA MeantRowsOf ==
  ASSUME NEW t, NEW stands, NEW h, IsMeant(t, stands, h), NEW n \in All
  PROVE  /\ h[n] \in SUBSET Row
         /\ n \in Crit => h[n] = MeantCrit(t.crit[n])
         /\ n \notin Crit => h[n] = GroupMeant(t, stands, h, n)
<1>1. h[n] = MeantOf(t, stands, h, n) /\ h[n] \in SUBSET Row
  BY DEF IsMeant
<1>2. n \in Crit => h[n] = MeantCrit(t.crit[n])
  BY <1>1, MeantOfCrit
<1>3. n \notin Crit => h[n] = GroupMeant(t, stands, h, n)
  BY <1>1, MeantOfGroup
<1> QED BY <1>1, <1>2, <1>3

\* The rows that pass are those of the complete criteria, combined by the logic
\* of their groups.
LEMMA VisibleIsMeant ==
  ASSUME NEW t \in Tree, Layered(t), Known(t), Logical(t)
  PROVE  Visible(t) = Meant(t)
<1>1. PICK f : IsRows(t, Filled(t), f) /\ Visible(t) = f[Top]
  BY VisibleIs
<1>2. PICK stands, h : IsSays(t, Stands(t), stands) /\ IsMeant(t, stands, h) /\ Meant(t) = h[Top]
  BY MeantIs
<1>3. \A n \in Live(t) : n \in Filled(t) <=> stands[n]
  BY <1>2, StandsFilled
<1>4. \A n \in All : stands[n] = SaysOf(t, Stands(t), stands, n) /\ f[n] \in SUBSET Row /\ h[n] \in SUBSET Row
  BY <1>1, <1>2 DEF IsSays, IsMeant, IsRows
<1> DEFINE Agrees(n) == IF n \in Crit THEN n \in Live(t) /\ stands[n] => f[n] = h[n]
                        ELSE f[n] = h[n] /\ (~stands[n] => h[n] = Row)
           S == {n \in All : Agrees(n)}
<1>5. ASSUME NEW n \in All, Inside(t, n) \subseteq S PROVE Agrees(n)
  <2>1. CASE n \in Crit
    <3> SUFFICES ASSUME stands[n] PROVE f[n] = h[n]
      BY <2>1
    <3>1. Complete(t.crit[n])
      BY <1>4, <2>1 DEF SaysOf, Stands
    <3>2. f[n] = CritRows(t.crit[n])
      <4>1. IsRows(t, Filled(t), f)
        BY <1>1
      <4> QED BY <2>1, <4>1, RowsOfCrit
    <3>3. h[n] = MeantCrit(t.crit[n])
      <4>1. IsMeant(t, stands, h)
        BY <1>2
      <4> QED BY <2>1, <4>1, MeantRowsOf
    <3> QED BY <3>1, <3>2, <3>3, CritAgrees
  <2>2. CASE n \notin Crit
    <3>1. n \in Group /\ Kids(t, n) \subseteq Live(t) /\ Kids(t, n) \subseteq All /\ t.logic[n] \in {"AND", "OR"}
      BY <2>2, Nodes, LiveAre, Entries DEF All, Logical
    <3> DEFINE C == Standing(t, stands, n)
               D == Counted(t, Filled(t), n)
               P == {h[k] : k \in C}
               Q == {f[k] : k \in D}
    <3>2. f[n] = Combine(t.logic[n], Q)
      <4>1. f[n] = GroupRows(t, Filled(t), f, n)
        BY <1>1, <3>1, RowsOfGroup, Zenon
      <4> QED BY <4>1, Zenon DEF GroupRows
    <3>3. h[n] = MeantGroup(t.logic[n], P)
      <4>1. h[n] = GroupMeant(t, stands, h, n)
        BY <1>2, <2>2, MeantRowsOf, Zenon
      <4> QED BY <4>1, Zenon DEF GroupMeant
    <3>4. /\ C \subseteq D /\ D \subseteq Kids(t, n)
          /\ \A k \in D : k \in C \/ (k \notin Crit /\ ~stands[k])
          /\ t.logic[n] = "OR" => D = C
      <4>1. \A k \in Kids(t, n) : k \in Filled(t) <=> stands[k]
        BY <1>3, <3>1
      <4> QED BY <3>1, <4>1 DEF Counted, Standing
    <3>5. \A k \in D : k \in All /\ Agrees(k) /\ (k \in Crit => k \in Live(t))
      <4> TAKE k \in D
      <4>1. k \in Inside(t, n)
        BY <3>1, <3>4 DEF Inside
      <4> HIDE DEF D, C, P, Q, Agrees
      <4> QED BY <1>5, <3>1, <3>4, <4>1
    <3>6. \A k \in C : f[k] = h[k]
      <4> TAKE k \in C
      <4>1. stands[k] /\ k \in D
        BY <3>4 DEF Standing
      <4> HIDE DEF D, C, P, Q
      <4> QED BY <3>5, <4>1
    <3>7. \A k \in D : k \in C \/ f[k] = Row
      <4> HIDE DEF D, C, P, Q
      <4> QED BY <3>4, <3>5
    <3> HIDE DEF D, C
    <3>8. P \subseteq Q /\ (\A part \in Q : part \in P \/ part = Row) /\ (t.logic[n] = "OR" => Q = P)
      BY <3>4, <3>6, <3>7
    <3>9. P \in SUBSET (SUBSET Row) /\ Q \in SUBSET (SUBSET Row)
      BY <1>4, <3>4, <3>5
    <3>10. ~stands[n] => h[n] = Row
      <4> SUFFICES ASSUME ~stands[n] PROVE h[n] = Row
        OBVIOUS
      <4>1. \A k \in Kids(t, n) : ~stands[k]
        BY <1>4, <2>2 DEF SaysOf
      <4>2. C = {}
        BY <4>1 DEF C, Standing
      <4>3. P = {}
        BY <4>2
      <4> HIDE DEF P
      <4> QED BY <3>3, <3>9, <4>3, MeantGroupIs
    <3> HIDE DEF P, Q
    <3>11. f[n] = h[n]
      BY <3>1, <3>2, <3>3, <3>8, <3>9, GroupAgrees
    <3> QED BY <2>2, <3>10, <3>11
  <2> QED BY <2>1, <2>2
<1>6. All \subseteq S
  <2>1. ASSUME NEW n \in All, Inside(t, n) \subseteq S PROVE n \in S
    <3> HIDE DEF Agrees
    <3> QED BY <1>5, <2>1
  <2> HIDE DEF S
  <2> QED BY <2>1, TreeInduction
<1>7. f[Top] = h[Top]
  BY <1>6, Nodes DEF All
<1> QED BY <1>1, <1>2, <1>7

(* ------------- what the widgets of a criterion leave behind --------------- *)

\* Which criteria are complete is known, and the logics are still logics.
Learned(s, t) == Known(t) /\ (EveryListHasLogic /\ Logical(s) => Logical(t))

\* The rows on view are those that pass, or a group was cleared.
Shows(t, p) == p.cleared \/ p.rows = Visible(t)

\* A tree with another record for one of its criteria.
Edited(s, c, r) == [s EXCEPT !.crit[c] = r]

LEMMA CritChanges ==
  ASSUME NEW s \in Tree, NEW c \in Crit, NEW r \in CritRecord, NEW t, t = Edited(s, c, r)
  PROVE  /\ t \in Tree /\ t.kids = s.kids /\ t.logic = s.logic
         /\ \A x \in Crit : t.crit[x] = IF x = c THEN r ELSE s.crit[x]
<1> DEFINE C == [s.crit EXCEPT ![c] = r]
<1>1. C \in [Crit -> CritRecord] /\ \A x \in Crit : C[x] = IF x = c THEN r ELSE s.crit[x]
  BY TreeFields
<1>2. t = [s EXCEPT !.crit = C]
  BY Zenon DEF Edited
<1> HIDE DEF C
<1>3. t \in Tree /\ t.kids = s.kids /\ t.logic = s.logic /\ t.crit = C
  BY <1>1, <1>2 DEF Tree
<1> QED BY <1>1, <1>3

LEMMA CritLearned ==
  ASSUME NEW s \in Tree, Known(s), NEW c \in Crit, NEW r \in CritRecord, r.filled = Complete(r),
         NEW t, t = Edited(s, c, r)
  PROVE  Learned(s, t)
<1>1. /\ t \in Tree /\ t.kids = s.kids /\ t.logic = s.logic
      /\ \A x \in Crit : t.crit[x] = IF x = c THEN r ELSE s.crit[x]
  BY CritChanges
<1>2. Known(t)
  <2> SUFFICES ASSUME NEW x \in Crit PROVE t.crit[x].filled = Complete(t.crit[x])
    BY DEF Known
  <2>1. CASE x = c
    BY <1>1, <2>1
  <2>2. CASE x # c
    BY <1>1, <2>2 DEF Known
  <2> QED BY <2>1, <2>2
<1> QED BY <1>1, <1>2 DEF Learned, Logical

LEMMA DataTells ==
  ASSUME IInv, Known(sb), Shows(sb, page), NEW c \in Crit, NEW column \in Column, ChooseData(c, column)
  PROVE  Learned(sb, sb') /\ Shows(sb', page')
<1>0. TreeInv(sb) /\ PageOf(sb, page) /\ sb \in Tree /\ Layered(sb) /\ sb.crit[c] \in CritRecord
  BY InvFacts, TreeFields DEF IInv
<1> DEFINE r == [sb.crit[c] EXCEPT !.data = column, !.cond = None, !.value = None, !.filled = FALSE]
<1>1. PICK t : /\ t = Edited(sb, c, r) /\ c \in Live(sb) /\ sb' = t
               /\ page' = IF sb.crit[c].filled THEN Drawn(t, page) ELSE [page EXCEPT !.saved = Details(t)]
  BY Zenon DEF ChooseData, Edited
<1>2. r \in CritRecord /\ r.right = sb.crit[c].right /\ r.filled = FALSE /\ r.cond = None
  BY <1>0 DEF CritRecord
<1>3. r.filled = Complete(r)
  BY <1>2 DEF Complete
<1> HIDE DEF r
<1>4. Learned(sb, t)
  BY <1>0, <1>1, <1>2, <1>3, CritLearned
<1>5. TreeInv(t) /\ t.kids = sb.kids
  BY <1>0, <1>1, <1>2, CritEdit DEF Edited
<1>6. CASE sb.crit[c].filled
  <2>1. Drawn(t, page).rows = Visible(t)
    BY <1>0, <1>5, DrawnIs
  <2> QED BY <1>1, <1>4, <1>6, <2>1 DEF Shows
<1>7. CASE ~sb.crit[c].filled
  <2>1. t \in Tree /\ t.logic = sb.logic /\ \A x \in Crit : t.crit[x] = IF x = c THEN r ELSE sb.crit[x]
    BY <1>0, <1>1, <1>2, CritChanges
  <2>2. Layered(t) /\ \A g \in Group : Kids(sb, g) = Kids(t, g)
    BY <1>5, InvFacts, SameKids
  <2>3. sb.crit[c].filled = FALSE
    BY <1>0, <1>7 DEF CritRecord
  <2>4. ASSUME NEW x \in Crit
        PROVE  sb.crit[x].filled = t.crit[x].filled /\ (sb.crit[x].filled => SaysSame(sb.crit[x], t.crit[x]))
    <3>1. CASE x = c
      BY <1>2, <2>1, <2>3, <3>1
    <3>2. CASE x # c
      BY <2>1, <3>2 DEF SaysSame
    <3> QED BY <3>1, <3>2
  <2>5. Visible(sb) = Visible(t)
    BY <1>0, <2>1, <2>2, <2>4, SameShapeSameRows
  <2>6. page' = [page EXCEPT !.saved = Details(t)]
    BY <1>1, <1>7
  <2>7. page'.rows = page.rows /\ page'.cleared = page.cleared
    BY <1>0, <2>6 DEF PageOf
  <2> QED BY <1>1, <1>4, <2>5, <2>7 DEF Shows
<1> QED BY <1>6, <1>7

LEMMA ConditionTells ==
  ASSUME IInv, Known(sb), NEW c \in Crit, NEW cond \in Condition, ChooseCondition(c, cond)
  PROVE  Learned(sb, sb') /\ Shows(sb', page')
<1>0. TreeInv(sb) /\ PageOf(sb, page) /\ sb \in Tree /\ sb.crit[c] \in CritRecord
  BY InvFacts, TreeFields DEF IInv
<1> DEFINE r == [sb.crit[c] EXCEPT !.cond = cond, !.value = None, !.filled = cond \in NoValue]
<1>1. PICK t : /\ t = Edited(sb, c, r) /\ c \in Live(sb) /\ sb' = t
               /\ page' = [Drawn(t, page) EXCEPT !.deafValues = @ \ {c}]
  BY Zenon DEF ChooseCondition, Edited
<1>2. r \in CritRecord /\ r.right = sb.crit[c].right /\ r.filled = Complete(r)
  <2>1. PICK b \in BOOLEAN : b = (cond \in NoValue)
    <3>1. CASE cond \in NoValue
      <4>1. TRUE = (cond \in NoValue)
        BY <3>1, SMT
      <4> QED BY <4>1
    <3>2. CASE cond \notin NoValue
      <4>1. FALSE = (cond \in NoValue)
        BY <3>2, SMT
      <4> QED BY <4>1
    <3> QED BY <3>1, <3>2
  <2>2. r = [sb.crit[c] EXCEPT !.cond = cond, !.value = None, !.filled = b]
    BY <2>1
  <2> HIDE DEF r
  <2>3. r \in CritRecord /\ r.right = sb.crit[c].right /\ r.cond = cond /\ r.value = None /\ r.filled = b
    BY <1>0, <2>2 DEF CritRecord
  <2>4. cond # None
    BY Nodes
  <2>5. CASE cond \in NoValue
    BY <2>1, <2>3, <2>4, <2>5 DEF Complete
  <2>6. CASE cond \notin NoValue
    BY <2>1, <2>3, <2>4, <2>6 DEF Complete
  <2> QED BY <2>3, <2>5, <2>6
<1> HIDE DEF r
<1>3. Learned(sb, t)
  BY <1>0, <1>1, <1>2, CritLearned
<1>4. TreeInv(t) /\ t.kids = sb.kids
  BY <1>0, <1>1, <1>2, CritEdit DEF Edited
<1>5. page'.rows = Visible(t)
  <2>1. PICK q : q = Drawn(t, page)
    OBVIOUS
  <2>2. PageOf(t, q) /\ q.rows = Visible(t)
    BY <1>0, <1>4, <2>1, DrawnIs
  <2> QED BY <1>1, <2>1, <2>2 DEF PageOf
<1> QED BY <1>1, <1>3, <1>5 DEF Shows

LEMMA ValueTells ==
  ASSUME EveryInputIsChecked, IInv, Known(sb), NEW c \in Crit, NEW value \in Value \cup {None}, EnterValue(c, value)
  PROVE  Learned(sb, sb') /\ Shows(sb', page')
<1>0. TreeInv(sb) /\ PageOf(sb, page) /\ sb \in Tree /\ sb.crit[c] \in CritRecord
  BY InvFacts, TreeFields DEF IInv
<1> DEFINE r == [sb.crit[c] EXCEPT !.value = value, !.filled = Valid(sb.crit[c].cond, value)]
<1>1. PICK t : /\ t = Edited(sb, c, r) /\ c \in Live(sb) /\ sb.crit[c].cond \in Condition \ NoValue
               /\ sb' = t /\ page' = Drawn(t, page)
  BY Zenon DEF EnterValue, Edited
<1>2. r \in CritRecord /\ r.right = sb.crit[c].right /\ r.filled = Complete(r)
  <2>1. PICK b \in BOOLEAN : b = Valid(sb.crit[c].cond, value)
    BY DEF Valid
  <2>2. r = [sb.crit[c] EXCEPT !.value = value, !.filled = b]
    BY <2>1
  <2> HIDE DEF r
  <2>3. r \in CritRecord /\ r.right = sb.crit[c].right /\ r.cond = sb.crit[c].cond /\ r.value = value /\ r.filled = b
    BY <1>0, <2>2 DEF CritRecord
  <2>4. r.cond # None
    BY <1>1, <2>3, Nodes
  <2>5. Complete(r) = Valid(r.cond, r.value)
    BY <2>3, <2>4, CompleteIs
  <2> QED BY <2>1, <2>3, <2>5
<1> HIDE DEF r
<1>3. Learned(sb, t)
  BY <1>0, <1>1, <1>2, CritLearned
<1>4. TreeInv(t) /\ t.kids = sb.kids
  BY <1>0, <1>1, <1>2, CritEdit DEF Edited
<1>5. Drawn(t, page).rows = Visible(t)
  BY <1>0, <1>4, DrawnIs
<1> QED BY <1>1, <1>3, <1>5 DEF Shows

LEMMA LogicTells ==
  ASSUME IInv, Known(sb), NEW g \in Group, ToggleLogic(g)
  PROVE  Learned(sb, sb') /\ Shows(sb', page')
<1>0. TreeInv(sb) /\ PageOf(sb, page) /\ sb \in Tree /\ sb.logic \in [Group -> Logic]
  BY InvFacts, TreeFields DEF IInv
<1> DEFINE l == CASE sb.logic[g] = "OR" -> "AND" [] sb.logic[g] = "AND" -> "OR" [] OTHER -> sb.logic[g]
           G == [sb.logic EXCEPT ![g] = l]
<1>1. PICK t : t = [sb EXCEPT !.logic[g] = l] /\ sb' = t /\ page' = Drawn(t, page)
  BY Zenon DEF ToggleLogic
<1>2. l \in Logic /\ (sb.logic[g] \in {"AND", "OR"} => l \in {"AND", "OR"})
  <2>1. sb.logic[g] \in Logic
    BY <1>0
  <2> QED BY <2>1 DEF Logic
<1> HIDE DEF l
<1>3. G \in [Group -> Logic] /\ (\A h \in Group : G[h] = IF h = g THEN l ELSE sb.logic[h]) /\ t = [sb EXCEPT !.logic = G]
  BY <1>0, <1>1, <1>2
<1> HIDE DEF G
<1>4. t.kids = sb.kids /\ t.logic = G /\ t.crit = sb.crit
  BY <1>0, <1>3 DEF Tree
<1>5. Known(t)
  BY <1>4 DEF Known
<1>6. Logical(sb) => Logical(t)
  BY <1>2, <1>3, <1>4 DEF Logical
<1>7. PageOf(t, page') /\ TreeInv(t)
  BY <1>1, LogicKeeps DEF IInv
<1>8. Drawn(t, page).rows = Visible(t)
  BY <1>0, <1>4, <1>7, DrawnIs
<1> QED BY <1>1, <1>5, <1>6, <1>8 DEF Learned, Shows

\* A criterion that is not complete changes nothing of what is shown.
LEMMA MoreUnfilled ==
  ASSUME NEW s \in Tree, Layered(s), NEW t \in Tree, Layered(t), NEW c \in Crit \ Live(s), ~t.crit[c].filled,
         \A h \in Group : Kids(s, h) \subseteq Kids(t, h) /\ Kids(t, h) \subseteq Kids(s, h) \cup {c},
         t.logic = s.logic, \A x \in Crit \ {c} : Alike(s.crit[x], t.crit[x])
  PROVE  Visible(s) = Visible(t)
<1>1. ASSUME NEW x \in Crit \ {c} PROVE s.crit[x].filled = t.crit[x].filled /\ SaysSame(s.crit[x], t.crit[x])
  <2>1. s.crit[x] \in CritRecord /\ t.crit[x] \in CritRecord /\ Alike(s.crit[x], t.crit[x])
    BY TreeFields
  <2>2. /\ s.crit[x].data = t.crit[x].data /\ s.crit[x].cond = t.crit[x].cond
        /\ s.crit[x].value = t.crit[x].value /\ s.crit[x].filled = t.crit[x].filled
    BY <2>1, AlikeFacts
  <2> QED BY <2>2 DEF SaysSame
<1>2. (\A n \in Live(s) : n \in Live(t)) /\ (\A n \in Live(t) : n \in Live(s) \/ n = c)
  BY LiveAre
<1>3. c \notin Filled(t) /\ c \notin Filled(s)
  BY FilledFacts
<1> DEFINE S == {n \in All : n \in Live(s) => (n \in Filled(s) <=> n \in Filled(t))}
<1>4. ASSUME NEW n \in All, Inside(s, n) \subseteq S PROVE n \in S
  <2> SUFFICES ASSUME n \in Live(s) PROVE n \in Filled(s) <=> n \in Filled(t)
    OBVIOUS
  <2>1. n \in Live(t) /\ n \in Node
    BY <1>2, LiveAreNodes
  <2>2. CASE n \in Crit
    <3>1. n \in Crit \ {c}
      BY <2>2
    <3> QED BY <1>1, <2>1, <2>2, <3>1, FilledFacts
  <2>3. CASE n \in Sub
    <3>1. n \in Group /\ Inside(s, n) = Kids(s, n) /\ Kids(s, n) \subseteq Kids(t, n) /\ Kids(t, n) \subseteq Kids(s, n) \cup {c}
      BY <2>3, Nodes DEF Inside
    <3>2. \A k \in Kids(s, n) : k \in Live(s) /\ k \in S
      BY <1>4, <3>1, LiveAre
    <3>3. \A k \in Kids(s, n) : k \in Filled(s) <=> k \in Filled(t)
      BY <3>2
    <3>4. (\E k \in Kids(s, n) : k \in Filled(s)) <=> \E k \in Kids(t, n) : k \in Filled(t)
      BY <1>3, <3>1, <3>3
    <3>5. n \in Filled(s) <=> \E k \in Kids(s, n) : k \in Filled(s)
      BY <2>3, FilledFacts
    <3>6. n \in Filled(t) <=> \E k \in Kids(t, n) : k \in Filled(t)
      BY <2>1, <2>3, FilledFacts
    <3> QED BY <3>4, <3>5, <3>6
  <2> QED BY <2>1, <2>2, <2>3, Nodes
<1>5. All \subseteq S
  <2> HIDE DEF S
  <2> QED BY <1>4, TreeInduction
<1>6. Filled(s) = Filled(t)
  <2>1. Filled(s) \subseteq Live(s) /\ Filled(t) \subseteq Live(t)
    BY FilledFacts
  <2>2. \A n \in Live(s) : n \in Filled(s) <=> n \in Filled(t)
    BY <1>5, LiveAreNodes DEF All
  <2> QED BY <1>2, <1>3, <2>1, <2>2
<1> DEFINE L == {Top} \cup (Live(s) \cap Sub) \cup Filled(s)
<1>7. ASSUME NEW x \in L \cap Crit PROVE SaysSame(s.crit[x], t.crit[x])
  <2>1. x \in Crit \ {c}
    BY <1>3, Nodes
  <2> QED BY <1>1, <2>1
<1>8. ASSUME NEW g \in L \cap Group
      PROVE  /\ Counted(s, Filled(s), g) = Counted(t, Filled(t), g) /\ Counted(t, Filled(t), g) \subseteq L
             /\ s.logic[g] = t.logic[g] \/ Kids(t, g) = {}
  <2>1. g \in Group /\ Kids(s, g) \subseteq Kids(t, g) /\ Kids(t, g) \subseteq Kids(s, g) \cup {c} /\ s.logic[g] = t.logic[g]
    OBVIOUS
  <2>2. Counted(s, Filled(s), g) = Counted(t, Filled(t), g)
    BY <1>3, <1>6, <2>1 DEF Counted
  <2>3. Counted(s, Filled(s), g) \subseteq L
    <3>1. Kids(s, g) \subseteq Live(s) /\ Live(s) \subseteq Node
      BY <2>1, LiveAre, LiveAreNodes
    <3> QED BY <3>1, Nodes DEF Counted
  <2> QED BY <2>1, <2>2, <2>3
<1>9. SameAsked(s, t, L)
  <2>1. Top \in L
    OBVIOUS
  <2> HIDE DEF L
  <2> QED BY <1>7, <1>8, <2>1 DEF SameAsked
<1> HIDE DEF L
<1> QED BY <1>9, SameRows

LEMMA AddTells ==
  ASSUME IInv, Known(sb), Shows(sb, page), NEW g \in Group, NEW c \in Crit, Add(g, c)
  PROVE  Learned(sb, sb') /\ Shows(sb', page')
<1>0. TreeInv(sb) /\ PageOf(sb, page) /\ sb \in Tree /\ Layered(sb) /\ Kept(sb)
  BY InvFacts DEF IInv
<1>1. PICK t : /\ t = AddedTo(sb, g, c) /\ g \in LiveGroups(sb) /\ c \notin Live(sb)
               /\ sb' = t /\ page' = [Deafened(g) EXCEPT !.title = Count(t), !.saved = Details(t),
                                                        !.clearAll = AfterAdd(g)]
  BY Zenon DEF Add, AddedTo
<1>2. IsAdded(sb, g, c, t)
  BY <1>0, <1>1, AddInv
<1>3. /\ TreeInv(t) /\ (\A h \in Group \ {g} : t.kids[h] = sb.kids[h]) /\ Kids(t, g) = Kids(sb, g) \cup {c}
      /\ t.logic = sb.logic
  BY <1>2, Zenon DEF IsAdded
<1>4. \A x \in Crit : Alike(t.crit[x], sb.crit[x])
  BY <1>2, Zenon DEF IsAdded, Alike
<1>5. t \in Tree /\ Layered(t)
  BY <1>3, InvFacts
<1>6. Known(t)
  BY <1>0, <1>4, <1>5, AlikeKnown
<1>7. Learned(sb, t)
  BY <1>3, <1>6 DEF Learned, Logical
<1>8. ~t.crit[c].filled
  <2>1. sb.crit[c] = EmptyCrit
    BY <1>0, <1>1 DEF Kept
  <2>2. t.crit[c] \in CritRecord /\ sb.crit[c] \in CritRecord /\ Alike(t.crit[c], sb.crit[c])
    BY <1>0, <1>4, <1>5, TreeFields
  <2>3. t.crit[c].filled = sb.crit[c].filled
    BY <2>2, AlikeFacts
  <2> QED BY <2>1, <2>3, EmptyCritIs
<1>9. \A h \in Group : Kids(sb, h) \subseteq Kids(t, h) /\ Kids(t, h) \subseteq Kids(sb, h) \cup {c}
  <2> TAKE h \in Group
  <2>1. CASE h = g
    BY <1>3, <2>1
  <2>2. CASE h # g
    BY <1>3, <2>2 DEF Kids
  <2> QED BY <2>1, <2>2
<1>10. \A x \in Crit \ {c} : Alike(sb.crit[x], t.crit[x])
  BY <1>4 DEF Alike
<1>11. Visible(sb) = Visible(t)
  BY <1>0, <1>1, <1>3, <1>5, <1>8, <1>9, <1>10, MoreUnfilled
<1>12. page'.rows = page.rows /\ page'.cleared = page.cleared
  BY <1>0, <1>1 DEF PageOf, Deafened
<1> QED BY <1>1, <1>7, <1>11, <1>12 DEF Shows

(* ------------------------- what a redraw leaves --------------------------- *)

\* Every group that holds something is in the tree.
Hung(t) == \A g \in Sub : Kids(t, g) # {} => g \in Live(t)

LEMMA LiveIsReached ==
  ASSUME NEW t \in Tree, Layered(t), Hung(t)
  PROVE  Live(t) = Reached(t)
<1> DEFINE S == {g \in Sub : g \in Live(t) => g \in Reached(t)}
           r == [g \in Sub |-> t.depth[g]]
<1>1. r \in [Sub -> Nat]
  BY TreeFields, Nodes
<1>2. ASSUME NEW n \in Sub, \A k \in Sub : r[k] < r[n] => k \in S PROVE n \in S
  <2> SUFFICES ASSUME n \in Live(t) PROVE n \in Reached(t)
    OBVIOUS
  <2>1. PICK h \in Group : n \in Kids(t, h)
    BY LiveAre
  <2>2. CASE h = Top
    BY <2>1, <2>2, ReachedFacts
  <2>3. CASE h # Top
    <3>1. h \in Sub /\ t.depth[h] < t.depth[n] /\ h \in Live(t)
      BY <2>1, <2>3, Nodes DEF Layered, DepthOf, Hung
    <3>2. h \in Reached(t)
      BY <1>2, <3>1
    <3> QED BY <2>1, <3>1, <3>2, ReachedFacts
  <2> QED BY <2>2, <2>3
<1> HIDE DEF S, r
<1>3. Sub \subseteq S
  BY <1>1, <1>2, RankInduction
<1>4. \A g \in Sub : g \in Live(t) => g \in Reached(t)
  BY <1>3 DEF S
<1>5. ASSUME NEW n \in Live(t) PROVE n \in Reached(t)
  <2>1. PICK h \in Group : n \in Kids(t, h)
    BY LiveAre
  <2>2. CASE h = Top
    BY <2>1, <2>2, ReachedFacts
  <2>3. CASE h # Top
    <3>1. h \in Sub /\ h \in Live(t)
      BY <2>1, <2>3, Nodes DEF Hung
    <3> QED BY <1>4, <2>1, <3>1, ReachedFacts
  <2> QED BY <2>2, <2>3
<1>6. Reached(t) \subseteq Live(t)
  BY ReachedFacts
<1> QED BY <1>5, <1>6

\* What a group keeps in a redraw: the criteria, and groups that hold something.
KeptKids(t, g) == {n \in Kids(t, g) : n \in Crit \/ t.kids[n] # <<>>}

Redrawn(t, u) ==
  /\ TreeInv(u)
  /\ \A g \in Group : Kids(u, g) = KeptKids(t, g) /\ (u.logic[g] = t.logic[g] \/ Kids(u, g) = {})
  /\ \A c \in Crit \cap Live(t) : u.crit[c] = Rebuild(t.crit[c])
  /\ \A c \in Crit : c \in Live(u) <=> c \in Live(t)

LEMMA RedrawnIs ==
  ASSUME NEW t, NEW L, Ready(t, L), Hung(t), NEW u, u = Rebuilt(Pruned(t))
  PROVE  Redrawn(t, u)
<1>1. PICK q : q = Pruned(t)
  OBVIOUS
<1>2. Sound(t) /\ t \in Tree /\ \A g \in Group : Single(t, g)
  BY DEF Ready, Sound
<1>3. /\ q \in Tree /\ q.crit = t.crit /\ q.logic = t.logic
      /\ \A g \in Group : Kids(q, g) = KeptKids(t, g)
  BY <1>1, <1>2, PrunedIs DEF KeptKids
<1>4. Sound(q)
  BY <1>1, PrunedReady DEF Ready
<1>5. Hung(q)
  <2> SUFFICES ASSUME NEW g \in Sub, Kids(q, g) # {} PROVE g \in Live(q)
    BY DEF Hung
  <2>1. g \in Group /\ Kids(t, g) # {}
    BY <1>3, Nodes DEF KeptKids
  <2>2. t.kids[g] # <<>>
    BY <1>2, <2>1, EmptyKids
  <2>3. PICK h \in Group : g \in Kids(t, h)
    BY <2>1, LiveAre DEF Hung
  <2> QED BY <1>3, <2>2, <2>3, LiveAre DEF KeptKids
<1>6. Live(q) = Reached(q)
  BY <1>4, <1>5, LiveIsReached, SoundIsLayered
<1>7. PICK live : live = Reached(q)
  OBVIOUS
<1>8. /\ Live(u) = live
      /\ \A g \in Group \ ({Top} \cup live) : Kids(u, g) = {}
      /\ \A g \in {Top} \cup (live \cap Sub) : Kids(u, g) = Kids(q, g) /\ u.logic[g] = q.logic[g]
      /\ \A c \in Crit : u.crit[c] = IF c \in live THEN Rebuild(q.crit[c]) ELSE EmptyCrit
  BY <1>1, <1>4, <1>7, RebuiltIs
<1>9. TreeInv(u)
  BY RedrawnInv
<1>10. ASSUME NEW g \in Group PROVE Kids(u, g) = KeptKids(t, g) /\ (u.logic[g] = t.logic[g] \/ Kids(u, g) = {})
  <2>1. CASE g \in {Top} \cup (live \cap Sub)
    BY <1>3, <1>8, <2>1
  <2>2. CASE g \notin {Top} \cup live
    <3>1. g \in Sub /\ g \notin Live(q)
      BY <1>6, <1>7, <2>2, Nodes
    <3>2. Kids(q, g) = {}
      BY <1>5, <3>1 DEF Hung
    <3> QED BY <1>3, <1>8, <2>2, <3>2
  <2> QED BY <2>1, <2>2, Nodes
<1>11. ASSUME NEW c \in Crit PROVE c \in Live(u) <=> c \in Live(t)
  <2>1. \A g \in Group : c \in Kids(u, g) <=> c \in Kids(t, g)
    BY <1>10 DEF KeptKids
  <2> QED BY <2>1, LiveAre
<1>12. ASSUME NEW c \in Crit \cap Live(t) PROVE u.crit[c] = Rebuild(t.crit[c])
  BY <1>3, <1>8, <1>11
<1> QED BY <1>9, <1>10, <1>11, <1>12 DEF Redrawn

\* A redraw draws the table, or leaves the rows on view.
LEMMA RedrawShows ==
  ASSUME NEW t, NEW STATE p, NEW draw, Redraw(t, p, draw), NEW u, u = Rebuilt(Pruned(t))
  PROVE  /\ sb' = u
         /\ \/ page'.rows = Visible(u)
            \/ /\ ~draw /\ page'.rows = p.rows /\ page'.cleared = p.cleared
               /\ \A c \in LiveCrit(u) : t.crit[c].filled = u.crit[c].filled
<1>1. PICK f : f = FreshPage(u)
  OBVIOUS
<1>2. /\ sb' = u
      /\ page' = IF draw \/ \E c \in LiveCrit(u) : t.crit[c].filled # u.crit[c].filled
                 THEN f ELSE [f EXCEPT !.rows = p.rows, !.cleared = p.cleared]
  BY <1>1, Zenon DEF Redraw
<1>3. f.rows = Visible(u) /\ [f EXCEPT !.rows = p.rows, !.cleared = p.cleared].rows = p.rows
      /\ [f EXCEPT !.rows = p.rows, !.cleared = p.cleared].cleared = p.cleared
  BY <1>1 DEF FreshPage
<1>4. CASE draw \/ \E c \in LiveCrit(u) : t.crit[c].filled # u.crit[c].filled
  BY <1>2, <1>3, <1>4
<1>5. CASE ~(draw \/ \E c \in LiveCrit(u) : t.crit[c].filled # u.crit[c].filled)
  <2>1. page' = [f EXCEPT !.rows = p.rows, !.cleared = p.cleared]
    BY <1>2, <1>5, Zenon
  <2> QED BY <1>2, <1>3, <1>5, <2>1
<1> QED BY <1>4, <1>5

LEMMA RedrawLearns ==
  ASSUME EveryInputIsChecked, NEW s, NEW t, NEW L, Ready(t, L), Backed(t), Logical(s) => Logical(t),
         NEW u, u = Rebuilt(Pruned(t))
  PROVE  Learned(s, u)
<1>1. Known(u) /\ (Logical(t) => Logical(u))
  BY RedrawnKnows
<1> QED BY <1>1 DEF Learned

LEMMA ArrowsAlike ==
  ASSUME NEW t \in Tree, NEW gs \in SUBSET Group, NEW u, u = UpdateArrows(t, gs)
  PROVE  u \in Tree /\ u.kids = t.kids /\ u.logic = t.logic /\ \A c \in Crit : Alike(u.crit[c], t.crit[c])
<1>1. /\ u \in Tree /\ u.kids = t.kids /\ u.index = t.index /\ u.depth = t.depth /\ u.logic = t.logic
      /\ \A c \in Crit : [u.crit[c] EXCEPT !.right = FALSE] = [t.crit[c] EXCEPT !.right = FALSE]
      /\ \A c \in Crit : (\A g \in gs : c \notin Kids(t, g)) => u.crit[c] = t.crit[c]
      /\ \A g \in gs : \A c \in Kids(t, g) \cap Crit :
           u.crit[c].right <=> (\E h \in gs : c \in Kids(t, h) /\ Len(t.kids[h]) > 1) /\ Room(t, c)
  BY ArrowsAre
<1> QED BY <1>1, Zenon DEF Alike

LEMMA DestroyedShrunk ==
  ASSUME NEW t, TreeInv(t), NEW g \in Sub \cap Live(t), NEW u, u = Destroy(t, g)
  PROVE  Shrunk(t, u)
<1>1. Rooted(t)
  BY InvFacts
<1>2. \E U \in SUBSET Sub : IsDestroyed(t, g, u, U)
  BY <1>1, DestroyIs
<1> QED BY <1>2 DEF IsDestroyed

LEMMA RemovedShrunk ==
  ASSUME NEW t, TreeInv(t), NEW c \in Crit \cap Live(t), NEW g, g = Parent(t, c), NEW u, u = RemoveCriteria(t, g, c)
  PROVE  Shrunk(t, u) /\ g \in Group
<1>1. t \in Tree /\ Kept(t) /\ \A h \in Group : Single(t, h)
  BY InvFacts
<1>2. g \in Group /\ c \in Kids(t, g)
  BY ParentOf
<1>3. CASE g # Top /\ Len(t.kids[g]) <= 1
  <2>1. t.kids[g] # <<>> /\ g \in Sub
    BY <1>1, <1>2, <1>3, EmptyKids, Nodes
  <2>2. g \in Live(t)
    BY <1>1, <2>1 DEF Kept
  <2>3. u = Destroy(t, g)
    BY <1>3 DEF RemoveCriteria
  <2> QED BY <1>2, <2>1, <2>2, <2>3, DestroyedShrunk
<1>4. CASE ~(g # Top /\ Len(t.kids[g]) <= 1)
  <2>1. u = Splice(t, g, c)
    BY <1>4 DEF RemoveCriteria
  <2>2. PICK j : Found(t, g, c, j)
    BY <1>2, InvFacts
  <2>3. Shrunk(t, u)
    BY <1>1, <1>2, <2>1, <2>2, SpliceIs
  <2> QED BY <1>2, <2>3
<1> QED BY <1>3, <1>4

LEMMA DeleteTells ==
  ASSUME EveryInputIsChecked, IInv, Known(sb), NEW c \in Crit, Delete(c)
  PROVE  Learned(sb, sb') /\ Shows(sb', page')
<1>0. TreeInv(sb) /\ sb \in Tree
  BY InvFacts DEF IInv
<1>1. PICK g, w, t : /\ g = Parent(sb, c) /\ w = RemoveCriteria(sb, g, c) /\ t = UpdateArrows(w, {g})
                     /\ c \in Live(sb) /\ Redraw(t, page, TRUE)
  BY Zenon DEF Delete
<1>2. g \in Group /\ (\E L : Ready(w, L)) /\ Shrunk(sb, w)
  BY <1>0, <1>1, RemovedReady, RemovedShrunk
<1>3. PICK L : Ready(w, L)
  BY <1>2
<1>4. Ready(t, L)
  BY <1>1, <1>2, <1>3, ArrowsReady
<1>5. w \in Tree /\ w.crit = sb.crit /\ w.logic = sb.logic
  BY <1>2 DEF Shrunk
<1>6. {g} \in SUBSET Group
  BY <1>2
<1>7. t \in Tree /\ t.logic = w.logic /\ \A x \in Crit : Alike(t.crit[x], w.crit[x])
  BY <1>1, <1>5, <1>6, ArrowsAlike
<1>8. Backed(t)
  <2>1. \A x \in Crit : Alike(t.crit[x], sb.crit[x])
    BY <1>5, <1>7
  <2>2. Backed(sb)
    BY KnownIsBacked
  <2> QED BY <1>0, <1>7, <2>1, <2>2, AlikeBacked
<1>9. Logical(sb) => Logical(t)
  BY <1>5, <1>7 DEF Logical
<1>10. PICK u : u = Rebuilt(Pruned(t))
  OBVIOUS
<1>11. Learned(sb, u)
  BY <1>4, <1>8, <1>9, <1>10, RedrawLearns
<1>12. sb' = u /\ page'.rows = Visible(u)
  BY <1>1, <1>10, RedrawShows
<1> QED BY <1>11, <1>12 DEF Shows

LEMMA ClearTells ==
  ASSUME EveryInputIsChecked, IInv, Known(sb), NEW g \in Sub, ClearGroup(g)
  PROVE  Learned(sb, sb') /\ Shows(sb', page')
<1>0. TreeInv(sb) /\ PageOf(sb, page) /\ Backed(sb)
  BY KnownIsBacked DEF IInv
<1> DEFINE p == [page EXCEPT !.cleared = TRUE]
<1>1. PICK t : t = Destroy(sb, g) /\ g \in Live(sb) /\ Redraw(t, p, FALSE)
  BY Zenon DEF ClearGroup
<1>2. PICK L : Ready(t, L)
  BY <1>0, <1>1, DestroyReady
<1>3. Shrunk(sb, t)
  BY <1>0, <1>1, DestroyedShrunk
<1>4. Backed(t) /\ (Logical(sb) => Logical(t))
  BY <1>0, <1>3 DEF Shrunk, Backed, Logical
<1>5. PICK u : u = Rebuilt(Pruned(t))
  OBVIOUS
<1>6. Learned(sb, u)
  BY <1>2, <1>4, <1>5, RedrawLearns
<1>7. p.cleared = TRUE
  BY <1>0 DEF PageOf
<1> HIDE DEF p
<1>8. sb' = u /\ (page'.rows = Visible(u) \/ page'.cleared = p.cleared)
  BY <1>1, <1>5, RedrawShows
<1> QED BY <1>6, <1>7, <1>8 DEF Shows

LEMMA RelayoutTells ==
  ASSUME EveryInputIsChecked, IInv, Known(sb), Shows(sb, page), Relayout
  PROVE  Learned(sb, sb') /\ Shows(sb', page')
<1>0. TreeInv(sb) /\ Backed(sb)
  BY KnownIsBacked DEF IInv
<1>1. PICK t : t = sb
  OBVIOUS
<1>2. Redraw(t, page, FALSE) /\ TreeInv(t) /\ Backed(t) /\ Known(t)
  BY <1>0, <1>1 DEF Relayout
<1>3. t \in Tree /\ Layered(t) /\ Kept(t)
  BY <1>2, InvFacts
<1>4. PICK L : Ready(t, L)
  BY <1>2, WholeReady
<1>5. PICK u : u = Rebuilt(Pruned(t))
  OBVIOUS
<1>6. Learned(sb, u)
  BY <1>1, <1>2, <1>4, <1>5, RedrawLearns
<1>7. Hung(t)
  BY <1>3, EmptyKids, Nodes DEF Hung, Kept
<1>8. Redrawn(t, u)
  BY <1>4, <1>5, <1>7, RedrawnIs
<1>9. u \in Tree /\ Layered(u)
  BY <1>8, InvFacts DEF Redrawn
<1>10. \A g \in Group : Kids(t, g) = Kids(u, g)
  <2> TAKE g \in Group
  <2>1. \A n \in Kids(t, g) : n \in Crit \/ t.kids[n] # <<>>
    BY <1>3, Entries, LiveAre, Nodes DEF Kept
  <2>2. Kids(u, g) = KeptKids(t, g)
    BY <1>8 DEF Redrawn
  <2> QED BY <2>1, <2>2 DEF KeptKids
<1>11. \A g \in Group : u.logic[g] = t.logic[g] \/ Kids(u, g) = {}
  BY <1>8 DEF Redrawn
<1>12. ASSUME NEW c \in Crit \cap Live(t) PROVE u.crit[c] = t.crit[c]
  <2>1. t.crit[c] \in CritRecord /\ t.crit[c].filled = Complete(t.crit[c]) /\ (t.crit[c].filled => t.crit[c].cond # None)
    BY <1>2, <1>3, TreeFields DEF Known, Backed
  <2>2. Rebuild(t.crit[c]) = t.crit[c]
    BY <2>1, RebuiltKnown
  <2> QED BY <1>8, <2>2 DEF Redrawn
<1>13. Visible(u) = Visible(t)
  <2>1. \A g \in Group : Kids(u, g) = Kids(t, g) /\ (u.logic[g] = t.logic[g] \/ Kids(t, g) = {})
    BY <1>10, <1>11
  <2>2. \A c \in Crit \cap Live(t) : u.crit[c].filled = t.crit[c].filled /\ (u.crit[c].filled => SaysSame(u.crit[c], t.crit[c]))
    BY <1>12 DEF SaysSame
  <2> QED BY <1>3, <1>9, <2>1, <2>2, SameShapeSameRows
<1>14. sb' = u /\ (page'.rows = Visible(u) \/ (page'.rows = page.rows /\ page'.cleared = page.cleared))
  BY <1>2, <1>5, RedrawShows
<1> QED BY <1>1, <1>6, <1>13, <1>14 DEF Shows

(* ------------------ trees that are made from scratch ---------------------- *)

LEMMA EmptyKnown == Known(EmptyTree) /\ Logical(EmptyTree)
<1>1. (\A c \in Crit : EmptyTree.crit[c] = EmptyCrit) /\ \A g \in Group : EmptyTree.logic[g] = DefaultLogic
  BY DEF EmptyTree
<1>2. EmptyCrit.filled = Complete(EmptyCrit)
  <2>1. Complete(EmptyCrit) = FALSE
    BY DEF Complete, EmptyCrit
  <2> QED BY <2>1, EmptyCritIs
<1> QED BY <1>1, <1>2, Assumptions DEF Known, Logical

LEMMA AgainComplete ==
  ASSUME EveryInputIsChecked, NEW c \in CritRecord, c.filled = Complete(c)
  PROVE  Again(c).filled = c.filled
<1> DEFINE e == [EmptyCrit EXCEPT !.data = c.data, !.cond = c.cond, !.value = c.value]
<1>1. e \in CritRecord /\ e.filled = FALSE
  BY DEF EmptyCrit, CritRecord
<1>2. Again(c) = Rebuild(e)
  BY Zenon DEF Again
<1> HIDE DEF e
<1>3. Again(c).filled = Complete(Again(c))
  BY <1>1, <1>2, RebuiltKnown
<1>4. Again(c).cond = c.cond /\ Again(c).value = c.value
  BY AgainIs
<1>5. Complete(Again(c)) = Complete(c)
  BY <1>4 DEF Complete
<1> QED BY <1>3, <1>5

\* A reload brings back the criteria and the rows.
LEMMA RestoredRows ==
  ASSUME EveryInputIsChecked, NEW s, TreeInv(s), Known(s), NEW r, r = Restore(Details(s))
  PROVE  Known(r) /\ (Logical(s) => Logical(r)) /\ Visible(r) = Visible(s)
<1>0. s \in Tree /\ Layered(s)
  BY InvFacts
<1>1. TreeInv(r)
  BY RestoreInv
<1>2. r \in Tree /\ Layered(r)
  BY <1>1, InvFacts
<1>3. Restored(s, r)
  BY RestoreIs
<1>4. /\ r.kids = s.kids
      /\ \A g \in Group : r.logic[g] = IF s.kids[g] = <<>> THEN DefaultLogic ELSE s.logic[g]
  BY <1>3 DEF Restored
<1>5. \A c \in Crit : Alike(r.crit[c], Again(s.crit[c]))
  BY <1>3, Zenon DEF Restored, Alike
<1>6. ASSUME NEW c \in Crit
      PROVE  r.crit[c].filled = s.crit[c].filled /\ SaysSame(r.crit[c], s.crit[c])
  <2>1. r.crit[c] \in CritRecord /\ s.crit[c] \in CritRecord /\ s.crit[c].filled = Complete(s.crit[c])
    BY <1>0, <1>2, TreeFields DEF Known
  <2>2. PICK a : a = Again(s.crit[c])
    OBVIOUS
  <2>3. /\ a \in CritRecord
        /\ a.data = s.crit[c].data /\ a.cond = s.crit[c].cond /\ a.value = s.crit[c].value
    BY <2>1, <2>2, AgainIs
  <2>4. a.filled = s.crit[c].filled
    BY <2>1, <2>2, AgainComplete
  <2>5. Alike(r.crit[c], a)
    BY <1>5, <2>2
  <2>6. r.crit[c].data = a.data /\ r.crit[c].cond = a.cond /\ r.crit[c].value = a.value /\ r.crit[c].filled = a.filled
    BY <2>1, <2>3, <2>5, AlikeFacts
  <2> QED BY <2>3, <2>4, <2>6 DEF SaysSame
<1>7. Known(r)
  <2> SUFFICES ASSUME NEW c \in Crit PROVE r.crit[c].filled = Complete(r.crit[c])
    BY DEF Known
  <2>1. Complete(r.crit[c]) = Complete(s.crit[c])
    BY <1>6 DEF SaysSame, Complete
  <2> QED BY <1>6, <2>1 DEF Known
<1>8. Logical(s) => Logical(r)
  BY <1>4, Assumptions DEF Logical
<1>9. \A g \in Group : Kids(r, g) = Kids(s, g) /\ (r.logic[g] = s.logic[g] \/ Kids(s, g) = {})
  BY <1>0, <1>4, SameKids, EmptyKids
<1>10. Visible(r) = Visible(s)
  BY <1>0, <1>2, <1>6, <1>9, SameShapeSameRows
<1> QED BY <1>7, <1>8, <1>10

\* The new criteria of a list are known once they are rebuilt.
LEMMA ListKnown ==
  ASSUME EveryInputIsChecked, NEW s, TreeInv(s), Known(s), NEW d \in Lists, NEW ids \in NewObjects(s, d),
         NEW u, u = Rebuilt(UpdateArrows(Extend(s, d, ids), {Top}))
  PROVE  Known(u) /\ (Logical(s) /\ d.logic \in {"AND", "OR"} => Logical(u))
<1>0. s \in Tree
  BY InvFacts
<1>1. PICK t : t = Extend(s, d, ids)
  OBVIOUS
<1>2. PICK v : v = UpdateArrows(t, {Top})
  OBVIOUS
<1>3. PICK L : Unset(t, L, {Top})
  BY <1>1, ExtendReady
<1>4. {Top} \in SUBSET Group
  BY Nodes
<1>5. Ready(v, L)
  BY <1>2, <1>3, <1>4, ArrowsSet
<1>6. PICK new : Extended(s, d, ids, t, new)
  BY <1>1, ExtendIs
<1>7. /\ t \in Tree /\ new \in SUBSET Crit /\ t.logic[Top] = d.logic
      /\ \A h \in Group \ {Top} : t.logic[h] = s.logic[h]
      /\ \A c \in Crit \ new : t.crit[c] = s.crit[c]
      /\ \A i \in DOMAIN ids : Listed(t.crit[ids[i]], d.criteria[i])
      /\ \A c \in new : \E i \in DOMAIN ids : c = ids[i]
  BY <1>6 DEF Extended
<1>8. Backed(t)
  <2> SUFFICES ASSUME NEW c \in Crit, t.crit[c].filled PROVE t.crit[c].cond # None
    BY DEF Backed
  <2>1. CASE c \in new
    <3>1. t.crit[c].filled = FALSE
      BY <1>7, <2>1 DEF Listed
    <3> QED BY <3>1
  <2>2. CASE c \notin new
    BY <1>7, <2>2, KnownIsBacked DEF Backed
  <2> QED BY <2>1, <2>2
<1>9. v \in Tree /\ v.logic = t.logic /\ \A c \in Crit : Alike(v.crit[c], t.crit[c])
  BY <1>2, <1>4, <1>7, ArrowsAlike
<1>10. Backed(v)
  BY <1>7, <1>8, <1>9, AlikeBacked
<1>11. Sound(v)
  BY <1>5 DEF Ready
<1>12. u = Rebuilt(v)
  BY <1>1, <1>2
<1>13. Known(u) /\ (Logical(v) => Logical(u))
  BY <1>10, <1>11, <1>12, RebuiltKnows
<1>14. ASSUME Logical(s), d.logic \in {"AND", "OR"} PROVE Logical(v)
  BY <1>7, <1>9, <1>14 DEF Logical
<1> QED BY <1>13, <1>14

LEMMA InitTells == ASSUME EveryInputIsChecked, Init PROVE Known(sb) /\ Logical(sb) /\ Shows(sb, page)
<1>1. CASE PreDefined = None
  <2>1. sb = EmptyTree /\ page = FreshPage(EmptyTree)
    BY <1>1 DEF Init
  <2>2. page.rows = Visible(EmptyTree)
    BY <2>1, EmptyInv, FreshIs
  <2> QED BY <2>1, <2>2, EmptyKnown DEF Shows
<1>2. CASE PreDefined # None
  <2> DEFINE d == WithDefaults(PreDefined)
  <2>1. PICK ids \in NewObjects(EmptyTree, PreDefined) :
          /\ sb = Rebuilt(UpdateArrows(Extend(EmptyTree, d, ids), {Top}))
          /\ page = ListPage(sb)
    BY <1>2, Zenon DEF Init
  <2>2. PreDefined \in Lists
    BY <1>2, Assumptions
  <2>3. d \in Lists /\ d.criteria = PreDefined.criteria /\ d.logic \in {"AND", "OR"}
    BY <2>2 DEF WithDefaults, Lists
  <2> HIDE DEF d
  <2>4. ids \in NewObjects(EmptyTree, d)
    BY <2>1, <2>3, Zenon DEF NewObjects
  <2>5. PICK u : u = Rebuilt(UpdateArrows(Extend(EmptyTree, d, ids), {Top}))
    OBVIOUS
  <2>6. Known(u) /\ (Logical(EmptyTree) /\ d.logic \in {"AND", "OR"} => Logical(u))
    BY <2>3, <2>4, <2>5, EmptyInv, EmptyKnown, ListKnown
  <2>7. TreeInv(u)
    BY <2>3, <2>4, <2>5, EmptyInv, ExtendInv
  <2>8. sb = u /\ page = ListPage(u)
    BY <2>1, <2>5
  <2>9. page.rows = Visible(u)
    BY <2>7, <2>8, ListIs
  <2> QED BY <2>3, <2>6, <2>8, <2>9, EmptyKnown DEF Shows
<1> QED BY <1>1, <1>2

LEMMA EmptiedTells ==
  ASSUME sb' = EmptyTree, page' = FreshPage(EmptyTree)
  PROVE  Learned(sb, sb') /\ Shows(sb', page')
<1>1. FreshPage(EmptyTree).rows = Visible(EmptyTree)
  BY EmptyInv, FreshIs
<1> QED BY <1>1, EmptyKnown DEF Learned, Shows

LEMMA ReloadTells == ASSUME EveryInputIsChecked, IInv, Known(sb), Reload PROVE Learned(sb, sb') /\ Shows(sb', page')
<1>1. TreeInv(sb) /\ page.saved = Details(sb)
  BY DEF IInv, PageOf
<1>2. PICK t : t = Restore(Details(sb)) /\ sb' = t /\ page' = FreshPage(t)
  BY <1>1, Zenon DEF Reload
<1>3. TreeInv(t) /\ Known(t) /\ (Logical(sb) => Logical(t))
  BY <1>1, <1>2, RestoreInv, RestoredRows
<1>4. page'.rows = Visible(t)
  BY <1>2, <1>3, FreshIs
<1> QED BY <1>2, <1>3, <1>4 DEF Learned, Shows

LEMMA RebuildTells ==
  ASSUME EveryInputIsChecked, IInv, Known(sb), Shows(sb, page), NEW d \in ApiDetails, ApiRebuild(d)
  PROVE  Learned(sb, sb') /\ Shows(sb', page')
<1>0. /\ TreeInv(sb) /\ TreeInv(EmptyTree) /\ PageOf(sb, page) /\ PageOf(EmptyTree, FreshPage(EmptyTree))
      /\ FreshPage(EmptyTree).rows = Visible(EmptyTree)
  BY EmptyInv, FreshIs DEF IInv
<1>1. PICK base, p :
        /\ base = IF page.clearAll THEN EmptyTree ELSE sb
        /\ p = IF page.clearAll THEN FreshPage(EmptyTree) ELSE page
        /\ IF d = None THEN sb' = base /\ page' = p
           ELSE IF d.criteria = <<>> THEN sb' = base /\ page' = [Drawn(base, p) EXCEPT !.addChecks = FALSE]
           ELSE \E ids \in NewObjects(base, d) : \E t \in {UpdateArrows(Extend(base, d, ids), {Top})} :
                \E u \in {Rebuilt(t)} :
                  sb' = u /\ page' = [ListPage(u) EXCEPT !.addChecks = FALSE]
  BY Zenon DEF ApiRebuild
<1>2. TreeInv(base) /\ PageOf(base, p) /\ Known(base) /\ (Logical(sb) => Logical(base)) /\ Shows(base, p)
  <2>1. CASE page.clearAll
    <3>1. base = EmptyTree /\ p = FreshPage(EmptyTree)
      BY <1>1, <2>1
    <3> QED BY <1>0, <3>1, EmptyKnown DEF Shows
  <2>2. CASE ~page.clearAll
    BY <1>0, <1>1, <2>2
  <2> QED BY <2>1, <2>2
<1>3. CASE d = None
  BY <1>1, <1>2, <1>3 DEF Learned
<1>4. CASE d # None /\ d.criteria = <<>>
  <2>1. PICK q : q = Drawn(base, p)
    OBVIOUS
  <2>2. PageOf(base, q) /\ q.rows = Visible(base)
    BY <1>2, <2>1, DrawnIs
  <2>3. sb' = base /\ page' = [q EXCEPT !.addChecks = FALSE]
    BY <1>1, <1>4, <2>1
  <2>4. page'.rows = Visible(base)
    BY <2>2, <2>3 DEF PageOf
  <2> QED BY <1>2, <2>3, <2>4 DEF Learned, Shows
<1>5. CASE d # None /\ d.criteria # <<>>
  <2>1. PICK ids \in NewObjects(base, d) :
          \E u : /\ u = Rebuilt(UpdateArrows(Extend(base, d, ids), {Top}))
                 /\ sb' = u /\ page' = [ListPage(u) EXCEPT !.addChecks = FALSE]
    BY <1>1, <1>5, Zenon
  <2>2. PICK u : /\ u = Rebuilt(UpdateArrows(Extend(base, d, ids), {Top}))
                 /\ sb' = u /\ page' = [ListPage(u) EXCEPT !.addChecks = FALSE]
    BY <2>1
  <2>3. d \in Lists
    BY <1>5, Assumptions
  <2>4. Known(u) /\ (Logical(base) /\ d.logic \in {"AND", "OR"} => Logical(u))
    BY <1>2, <2>1, <2>2, <2>3, ListKnown
  <2>5. EveryListHasLogic => d.logic \in {"AND", "OR"}
    BY <1>5, <2>3 DEF EveryListHasLogic, Lists
  <2>6. Learned(sb, u)
    BY <1>2, <2>4, <2>5 DEF Learned
  <2>7. page'.rows = Visible(u)
    <3>1. ListPage(u).rows = Visible(u) /\ [ListPage(u) EXCEPT !.addChecks = FALSE].rows = ListPage(u).rows
      BY DEF ListPage, FreshPage
    <3> QED BY <2>2, <3>1
  <2> QED BY <2>2, <2>6, <2>7 DEF Shows
<1> QED BY <1>3, <1>4, <1>5

LEMMA OutdentTells ==
  ASSUME EveryInputIsChecked, IInv, Known(sb), NEW c \in Crit, Outdent(c)
  PROVE  Learned(sb, sb') /\ Shows(sb', page')
<1>0. TreeInv(sb) /\ sb \in Tree
  BY InvFacts DEF IInv
<1>1. PICK t : t = Outdented(sb, c) /\ c \in Live(sb) /\ sb.depth[c] > 1 /\ Redraw(t, page, TRUE)
  BY Zenon DEF Outdent, Outdented, Doubled
<1>2. PICK L : Ready(t, L)
  BY <1>0, <1>1, OutdentReady
<1>3. PICK g, p, w : g = Parent(sb, c) /\ p = Parent(sb, g) /\ w = Doubled(sb, c)
  OBVIOUS
<1>4. IsDoubled(sb, c, g, p, w)
  BY <1>0, <1>1, <1>3, DoubledIs
<1>5. Shrunk(w, t)
  BY <1>0, <1>1, <1>3, OutdentIs
<1>6. w \in Tree /\ w.logic = sb.logic /\ t \in Tree /\ t.logic = w.logic /\ t.crit = w.crit
  BY <1>4, <1>5 DEF IsDoubled, Shrunk
<1>7. \A x \in Crit : Alike(w.crit[x], IF x = c THEN Populate(sb.crit[c]) ELSE sb.crit[x])
  BY <1>4, Zenon DEF IsDoubled, Alike
<1>8. Backed(t)
  <2> SUFFICES ASSUME NEW x \in Crit, w.crit[x].filled PROVE w.crit[x].cond # None
    BY <1>6 DEF Backed
  <2>1. w.crit[x] \in CritRecord /\ sb.crit[x] \in CritRecord /\ Populate(sb.crit[x]) \in CritRecord
    BY <1>0, <1>6, TreeFields, Records
  <2>2. sb.crit[x].filled => sb.crit[x].cond # None
    BY KnownIsBacked DEF Backed
  <2>3. Populate(sb.crit[x]).filled => Populate(sb.crit[x]).cond # None
    <3>1. CASE sb.crit[x].cond = None
      BY <2>2, <3>1 DEF Populate
    <3>2. CASE sb.crit[x].cond # None
      BY <2>1, <3>2, PopulatedCrit
    <3> QED BY <3>1, <3>2
  <2>4. CASE x = c
    <3>1. Alike(w.crit[x], Populate(sb.crit[x]))
      BY <1>7, <2>4
    <3>2. w.crit[x].cond = Populate(sb.crit[x]).cond /\ w.crit[x].filled = Populate(sb.crit[x]).filled
      BY <2>1, <3>1, AlikeFacts
    <3> QED BY <2>3, <3>2
  <2>5. CASE x # c
    <3>1. Alike(w.crit[x], sb.crit[x])
      BY <1>7, <2>5
    <3>2. w.crit[x].cond = sb.crit[x].cond /\ w.crit[x].filled = sb.crit[x].filled
      BY <2>1, <3>1, AlikeFacts
    <3> QED BY <2>2, <3>2
  <2> QED BY <2>4, <2>5
<1>9. Logical(sb) => Logical(t)
  BY <1>6 DEF Logical
<1>10. PICK u : u = Rebuilt(Pruned(t))
  OBVIOUS
<1>11. Learned(sb, u)
  BY <1>2, <1>8, <1>9, <1>10, RedrawLearns
<1>12. sb' = u /\ page'.rows = Visible(u)
  BY <1>1, <1>10, RedrawShows
<1> QED BY <1>11, <1>12 DEF Shows

(* ------------------------- a criterion is indented ------------------------ *)

LEMMA CombineMore ==
  ASSUME NEW logic, NEW P \in SUBSET (SUBSET Row), NEW Q \in SUBSET (SUBSET Row), Q \subseteq P,
         \A part \in P : part \in Q \/ part = Row, logic = "OR" => P = Q
  PROVE  Combine(logic, P) = Combine(logic, Q)
<1>1. CASE logic = "OR"
  <2>1. P = Q
    BY <1>1
  <2> QED BY <2>1
<1>2. CASE logic = "AND"
  <2>1. {row \in Row : \A part \in Q : row \in part} = {row \in Row : \A part \in P : row \in part}
    BY AndParts
  <2>2. Combine(logic, P) = {row \in Row : \A part \in P : row \in part}
    BY <1>2, CombineIs
  <2>3. Combine(logic, Q) = {row \in Row : \A part \in Q : row \in part}
    BY <1>2, CombineIs
  <2> QED BY <2>1, <2>2, <2>3
<1>3. CASE logic # "OR" /\ logic # "AND"
  <2>1. Combine(logic, P) = Row /\ Combine(logic, Q) = Row
    BY <1>3 DEF Combine
  <2> QED BY <2>1
<1> QED BY <1>1, <1>2, <1>3

LEMMA CombineOne ==
  ASSUME NEW logic \in {"AND", "OR"}, NEW part \in SUBSET Row
  PROVE  Combine(logic, {part}) = part
<1>1. {part} \in SUBSET (SUBSET Row) /\ {part} # {} /\ UNION {part} = part
  OBVIOUS
<1>2. {row \in Row : \A p \in {part} : row \in p} = part
  OBVIOUS
<1>3. CASE logic = "AND"
  <2>1. Combine(logic, {part}) = {row \in Row : \A p \in {part} : row \in p}
    BY <1>1, <1>3, CombineIs
  <2> QED BY <1>2, <2>1
<1>4. CASE logic = "OR"
  <2>1. Combine(logic, {part}) = UNION {part}
    BY <1>1, <1>4, CombineIs
  <2> QED BY <1>1, <2>1
<1> QED BY <1>3, <1>4

\* The tree s with the criterion c of the group g in a new group n.
Grown(s, u, c, g, n) ==
  /\ g \in Group /\ n \in Sub /\ c \in Crit /\ g # n /\ c \in Kids(s, g) /\ n \notin Live(s) /\ Kids(s, n) = {}
  /\ \A h \in Group : c \in Kids(s, h) => h = g
  /\ Kids(u, g) = (Kids(s, g) \ {c}) \cup {n} /\ Kids(u, n) = {c}
  /\ \A h \in Group \ {g, n} : Kids(u, h) = Kids(s, h)
  /\ \A h \in Group : u.logic[h] = s.logic[h] \/ Kids(u, h) = {}
  /\ u.logic[n] \in {"AND", "OR"}
  /\ \A x \in Crit \cap Live(s) : u.crit[x].filled = s.crit[x].filled /\ SaysSame(u.crit[x], s.crit[x])

LEMMA GrownFilled ==
  ASSUME NEW s \in Tree, Layered(s), NEW u \in Tree, Layered(u), NEW c, NEW g, NEW n, Grown(s, u, c, g, n)
  PROVE  (\A m \in Live(s) : m \in Filled(u) <=> m \in Filled(s)) /\ (n \in Filled(u) <=> c \in Filled(s))
<1>1. /\ g \in Group /\ n \in Sub /\ c \in Crit /\ g # n /\ c \in Kids(s, g) /\ n \notin Live(s)
      /\ Kids(u, g) = (Kids(s, g) \ {c}) \cup {n} /\ Kids(u, n) = {c}
      /\ \A h \in Group \ {g, n} : Kids(u, h) = Kids(s, h)
      /\ \A x \in Crit \cap Live(s) : u.crit[x].filled = s.crit[x].filled
  BY DEF Grown
<1>2. \A m \in Live(s) : m \in Live(u)
  <2> TAKE m \in Live(s)
  <2>1. PICK h \in Group : m \in Kids(s, h)
    BY LiveAre
  <2>2. h # n \/ m \in Kids(u, h)
    BY <1>1, <2>1, LiveAre DEF Grown
  <2>3. m \in Kids(u, h) \/ m \in Kids(u, n)
    BY <1>1, <2>1, <2>2
  <2> QED BY <1>1, <2>1, <2>3, LiveAre, Nodes
<1>3. c \in Live(s) /\ n \in Live(u)
  BY <1>1, LiveAre
<1> DEFINE S == {m \in All : /\ m \in Live(s) => (m \in Filled(u) <=> m \in Filled(s))
                             /\ m = n => (n \in Filled(u) <=> c \in Filled(s))}
<1>4. ASSUME NEW m \in All, Inside(u, m) \subseteq S PROVE m \in S
  <2>1. ASSUME m = n PROVE n \in Filled(u) <=> c \in Filled(s)
    <3>1. n \in Filled(u) <=> \E k \in {c} : k \in Filled(u)
      BY <1>1, <1>3, FilledFacts
    <3>2. c \in Inside(u, m)
      BY <1>1, <2>1, Nodes DEF Inside
    <3>3. c \in Filled(u) <=> c \in Filled(s)
      BY <1>3, <1>4, <3>2
    <3> QED BY <3>1, <3>3
  <2>2. ASSUME m \in Live(s) PROVE m \in Filled(u) <=> m \in Filled(s)
    <3>1. m \in Live(u) /\ m \in Node /\ m # n
      BY <1>1, <1>2, <2>2, LiveAreNodes
    <3>2. CASE m \in Crit
      BY <1>1, <2>2, <3>1, <3>2, FilledFacts
    <3>3. CASE m \in Sub
      <4>1. m \in Group /\ Inside(u, m) = Kids(u, m) /\ Kids(s, m) \subseteq Live(s)
        BY <3>3, LiveAre, Nodes DEF Inside
      <4>2. \A k \in Kids(u, m) : /\ k \in Live(s) => (k \in Filled(u) <=> k \in Filled(s))
                                  /\ k = n => (n \in Filled(u) <=> c \in Filled(s))
        BY <1>4, <4>1
      <4>3. (\E k \in Kids(u, m) : k \in Filled(u)) <=> \E k \in Kids(s, m) : k \in Filled(s)
        <5>1. CASE m = g
          <6>1. \A k \in Kids(s, g) \ {c} : k \in Filled(u) <=> k \in Filled(s)
            BY <1>1, <4>1, <4>2, <5>1
          <6>2. n \in Filled(u) <=> c \in Filled(s)
            BY <1>1, <4>2, <5>1
          <6> QED BY <1>1, <5>1, <6>1, <6>2
        <5>2. CASE m # g
          <6>1. Kids(u, m) = Kids(s, m)
            BY <1>1, <3>1, <4>1, <5>2
          <6> QED BY <4>1, <4>2, <6>1
        <5> QED BY <5>1, <5>2
      <4>4. m \in Filled(u) <=> \E k \in Kids(u, m) : k \in Filled(u)
        BY <3>1, <3>3, FilledFacts
      <4>5. m \in Filled(s) <=> \E k \in Kids(s, m) : k \in Filled(s)
        BY <2>2, <3>3, FilledFacts
      <4> QED BY <4>3, <4>4, <4>5
    <3> QED BY <3>1, <3>2, <3>3, Nodes
  <2> QED BY <2>1, <2>2
<1>5. All \subseteq S
  <2> HIDE DEF S
  <2> QED BY <1>4, TreeInduction
<1>6. \A m \in Live(s) : m \in All
  BY LiveAreNodes DEF All
<1>7. n \in All
  BY <1>1, Nodes DEF All
<1> QED BY <1>5, <1>6, <1>7

\* The new group lets the same rows pass as the criterion in it.
LEMMA GrownRows ==
  ASSUME NEW s \in Tree, Layered(s), NEW u \in Tree, Layered(u), NEW c, NEW g, NEW n, Grown(s, u, c, g, n)
  PROVE  Visible(u) = Visible(s)
<1>1. /\ g \in Group /\ n \in Sub /\ c \in Crit /\ g # n /\ c \in Kids(s, g) /\ n \notin Live(s)
      /\ \A h \in Group : c \in Kids(s, h) => h = g
      /\ Kids(u, g) = (Kids(s, g) \ {c}) \cup {n} /\ Kids(u, n) = {c}
      /\ \A h \in Group \ {g, n} : Kids(u, h) = Kids(s, h)
      /\ \A h \in Group : u.logic[h] = s.logic[h] \/ Kids(u, h) = {}
      /\ u.logic[n] \in {"AND", "OR"}
      /\ \A x \in Crit \cap Live(s) : u.crit[x].filled = s.crit[x].filled /\ SaysSame(u.crit[x], s.crit[x])
  BY DEF Grown
<1> DEFINE Fu == Filled(u)
           Fs == Filled(s)
<1>2. (\A m \in Live(s) : m \in Fu <=> m \in Fs) /\ (n \in Fu <=> c \in Fs)
  BY GrownFilled
<1>3. PICK f : IsRows(u, Fu, f) /\ Visible(u) = f[Top]
  BY VisibleIs
<1>4. PICK h : IsRows(s, Fs, h) /\ Visible(s) = h[Top]
  BY VisibleIs
<1> HIDE DEF Fu, Fs
<1>5. c \in Live(s) /\ n \notin Crit /\ n \in Group /\ n # Top /\ c \notin Group
  BY <1>1, LiveAre, Nodes
<1>6. \A m \in All : f[m] \in SUBSET Row /\ h[m] \in SUBSET Row
  BY <1>3, <1>4 DEF IsRows
<1> DEFINE S == {m \in All : /\ m \in Live(s) => f[m] = h[m]
                             /\ m \in Group \ {n} => f[m] = h[m]
                             /\ m = n => f[m] = IF c \in Fs THEN h[c] ELSE Row}
<1>7. ASSUME NEW m \in Crit \cap Live(s) PROVE f[m] = h[m]
  <2>1. \A row \in Row : CritSearch(u.crit[m], row) <=> CritSearch(s.crit[m], row)
    BY <1>1 DEF SaysSame, CritSearch
  <2>2. CritRows(u.crit[m]) = CritRows(s.crit[m])
    BY <2>1 DEF CritRows
  <2>3. f[m] = CritRows(u.crit[m])
    BY <1>3, RowsOfCrit, Zenon
  <2>4. h[m] = CritRows(s.crit[m])
    BY <1>4, RowsOfCrit, Zenon
  <2> QED BY <2>2, <2>3, <2>4
<1>8. f[n] = IF c \in Fs THEN h[c] ELSE Row
  <2>1. f[n] = Combine(u.logic[n], {f[k] : k \in Counted(u, Fu, n)})
    <3>1. IsRows(u, Fu, f) /\ n \in Group
      BY <1>3, <1>5
    <3>2. f[n] = GroupRows(u, Fu, f, n)
      BY <3>1, RowsOfGroup, Zenon
    <3> QED BY <3>2, Zenon DEF GroupRows
  <2>2. Counted(u, Fu, n) = IF c \in Fu THEN {c} ELSE {}
    BY <1>1 DEF Counted
  <2>3. c \in Fu <=> c \in Fs
    BY <1>2, <1>5
  <2>4. f[c] = h[c]
    BY <1>1, <1>5, <1>7
  <2>5. CASE c \in Fs
    <3>1. {f[k] : k \in Counted(u, Fu, n)} = {h[c]}
      BY <2>2, <2>3, <2>4, <2>5
    <3>2. h[c] \in SUBSET Row
      BY <1>1, <1>6, Nodes DEF All
    <3>3. Combine(u.logic[n], {h[c]}) = h[c]
      BY <1>1, <3>2, CombineOne
    <3> QED BY <2>1, <2>5, <3>1, <3>3
  <2>6. CASE c \notin Fs
    <3>1. {f[k] : k \in Counted(u, Fu, n)} = {}
      BY <2>2, <2>3, <2>6
    <3> QED BY <2>1, <2>6, <3>1, CombineNone
  <2> QED BY <2>5, <2>6
<1>9. ASSUME NEW m \in Group \ {n}, Kids(u, m) \subseteq S PROVE f[m] = h[m]
  <2> DEFINE P == {f[k] : k \in Counted(u, Fu, m)}
             Q == {h[k] : k \in Counted(s, Fs, m)}
  <2>1. f[m] = Combine(u.logic[m], P)
    <3>1. IsRows(u, Fu, f) /\ m \in Group
      BY <1>3
    <3>2. f[m] = GroupRows(u, Fu, f, m)
      BY <3>1, RowsOfGroup, Zenon
    <3> QED BY <3>2, Zenon DEF GroupRows
  <2>2. h[m] = Combine(s.logic[m], Q)
    <3>1. IsRows(s, Fs, h) /\ m \in Group
      BY <1>4
    <3>2. h[m] = GroupRows(s, Fs, h, m)
      BY <3>1, RowsOfGroup, Zenon
    <3> QED BY <3>2, Zenon DEF GroupRows
  <2>3. Counted(u, Fu, m) \subseteq Kids(u, m) /\ Counted(s, Fs, m) \subseteq Kids(s, m) /\ Kids(s, m) \subseteq Live(s)
    BY LiveAre DEF Counted
  <2>4. \A k \in Kids(u, m) : (k \in Live(s) => f[k] = h[k]) /\ (k = n => f[k] = IF c \in Fs THEN h[c] ELSE Row)
    BY <1>9
  <2>5. CASE m # g
    <3>1. Kids(u, m) = Kids(s, m)
      BY <1>1, <2>5
    <3>2. CASE Kids(s, m) = {}
      <4>1. P = {} /\ Q = {}
        BY <2>3, <3>1, <3>2
      <4> HIDE DEF P, Q
      <4> QED BY <2>1, <2>2, <4>1, CombineNone
    <3>3. CASE Kids(s, m) # {}
      <4>1. u.logic[m] = s.logic[m]
        BY <1>1, <3>1, <3>3
      <4>2. Counted(u, Fu, m) = Counted(s, Fs, m)
        BY <1>2, <2>3, <3>1, <4>1 DEF Counted
      <4>3. P = Q
        BY <2>3, <2>4, <3>1, <4>2
      <4> HIDE DEF P, Q
      <4> QED BY <2>1, <2>2, <4>1, <4>3
    <3> QED BY <3>2, <3>3
  <2>6. CASE m = g
    <3>1. u.logic[m] = s.logic[m]
      BY <1>1, <2>6
    <3>2. Kids(u, m) = (Kids(s, m) \ {c}) \cup {n} /\ c \in Kids(s, m)
      BY <1>1, <2>6
    <3>3. \A k \in Kids(s, m) \ {c} : f[k] = h[k] /\ (k \in Fu <=> k \in Fs)
      BY <1>2, <2>3, <2>4, <3>2
    <3>4. f[n] = IF c \in Fs THEN h[c] ELSE Row
      BY <1>8
    <3>5. n \notin Kids(s, m)
      BY <1>1, <2>3
    <3>6. \A k \in Kids(s, m) \ {c} : k \in Counted(u, Fu, m) <=> k \in Counted(s, Fs, m)
      BY <3>1, <3>2, <3>3 DEF Counted
    <3>7. /\ c \in Counted(s, Fs, m) <=> c \in Fs
          /\ n \in Counted(u, Fu, m) <=> (u.logic[m] # "OR" \/ c \in Fs)
      BY <1>1, <1>2, <1>5, <3>2 DEF Counted
    <3>8. Q \subseteq P
      <4> SUFFICES ASSUME NEW k \in Counted(s, Fs, m) PROVE h[k] \in P
        OBVIOUS
      <4>1. CASE k = c
        <5>1. c \in Fs /\ n \in Counted(u, Fu, m) /\ f[n] = h[c]
          BY <3>4, <3>7, <4>1
        <5> QED BY <4>1, <5>1
      <4>2. CASE k # c
        BY <2>3, <3>3, <3>6, <4>2
      <4> QED BY <4>1, <4>2
    <3>9. ASSUME NEW k \in Counted(u, Fu, m) PROVE f[k] \in Q \/ (f[k] = Row /\ u.logic[m] # "OR")
      <4>1. CASE k = n
        <5>1. CASE c \in Fs
          BY <3>4, <3>7, <4>1, <5>1
        <5>2. CASE c \notin Fs
          BY <3>4, <3>7, <3>9, <4>1, <5>2
        <5> QED BY <5>1, <5>2
      <4>2. CASE k # n
        <5>1. k \in Kids(s, m) \ {c}
          BY <2>3, <3>2, <4>2
        <5> QED BY <3>3, <3>6, <3>9, <5>1
      <4> QED BY <4>1, <4>2
    <3>10. P \in SUBSET (SUBSET Row) /\ Q \in SUBSET (SUBSET Row)
      <4>1. Kids(u, m) \subseteq All /\ Kids(s, m) \subseteq All
        BY Entries DEF All
      <4> QED BY <1>6, <2>3, <4>1
    <3>11. (\A part \in P : part \in Q \/ part = Row) /\ (u.logic[m] = "OR" => P = Q)
      BY <3>8, <3>9
    <3> HIDE DEF P, Q
    <3>12. Combine(u.logic[m], P) = Combine(u.logic[m], Q)
      BY <3>8, <3>10, <3>11, CombineMore
    <3> QED BY <2>1, <2>2, <3>1, <3>12
  <2> QED BY <2>5, <2>6
<1>10. ASSUME NEW m \in All, Inside(u, m) \subseteq S PROVE m \in S
  <2>1. CASE m \in Crit
    BY <1>5, <1>7, <2>1, Nodes
  <2>2. CASE m = n
    BY <1>1, <1>8, <2>2
  <2>3. CASE m \in Group \ {n}
    <3>1. Kids(u, m) \subseteq S
      BY <1>10, <2>3 DEF Inside
    <3>2. f[m] = h[m]
      BY <1>9, <2>3, <3>1
    <3> QED BY <2>3, <3>2
  <2> QED BY <2>1, <2>2, <2>3, Nodes DEF All
<1>11. All \subseteq S
  <2> HIDE DEF S
  <2> QED BY <1>10, TreeInduction
<1>12. f[Top] = h[Top]
  BY <1>5, <1>11, Nodes DEF All
<1> QED BY <1>3, <1>4, <1>12

\* A criterion that takes over the state of another is, once it is rebuilt,
\* the same criterion.
LEMMA PopulatedAgain ==
  ASSUME EveryInputIsChecked, NEW a \in CritRecord, a.filled = Complete(a), NEW r \in CritRecord,
         Alike(r, a) \/ Alike(r, Populate(a))
  PROVE  Rebuild(r).filled = a.filled /\ SaysSame(Rebuild(r), a)
<1>1. Populate(a) \in CritRecord /\ Populate(a).data = a.data /\ Populate(a).cond = a.cond /\ Populate(a).value = a.value
  BY PopulatedCrit, Records
<1>2. r.data = a.data /\ r.cond = a.cond /\ r.value = a.value /\ (r.filled = a.filled \/ r.filled = Populate(a).filled)
  <2>1. CASE Alike(r, a)
    BY <2>1, AlikeFacts
  <2>2. CASE Alike(r, Populate(a))
    BY <1>1, <2>2, AlikeFacts
  <2> QED BY <2>1, <2>2
<1>3. CASE a.cond = None
  <2>1. Populate(a) = a
    BY <1>3 DEF Populate
  <2>2. Rebuild(r) = r
    BY <1>2, <1>3 DEF Rebuild
  <2> QED BY <1>2, <2>1, <2>2 DEF SaysSame
<1>4. CASE a.cond # None
  <2>1. PICK b \in BOOLEAN : b = Valid(r.cond, r.value)
    BY DEF Valid
  <2>2. Rebuild(r) = [r EXCEPT !.filled = b]
    BY <1>2, <1>4, <2>1 DEF Rebuild
  <2>3. Complete(a) = Valid(a.cond, a.value)
    BY <1>4, CompleteIs
  <2>4. b = a.filled
    BY <1>2, <2>1, <2>3
  <2>5. PICK q : q = [r EXCEPT !.filled = b]
    OBVIOUS
  <2>6. q.filled = b /\ q.data = r.data /\ q.cond = r.cond /\ q.value = r.value
    BY <2>5 DEF CritRecord
  <2> QED BY <1>2, <2>2, <2>4, <2>5, <2>6 DEF SaysSame
<1> QED BY <1>3, <1>4

LEMMA SaysAlike ==
  ASSUME NEW a \in CritRecord, NEW b \in CritRecord, a.filled = b.filled, SaysSame(a, b)
  PROVE  Alike(a, b)
<1>1. a.data = b.data /\ a.cond = b.cond /\ a.value = b.value
  BY DEF SaysSame
<1>2. PICK r : r = [a EXCEPT !.right = b.right]
  OBVIOUS
<1>3. r = b
  BY <1>1, <1>2 DEF CritRecord
<1>4. [r EXCEPT !.right = FALSE] = [a EXCEPT !.right = FALSE]
  BY <1>2 DEF CritRecord
<1> QED BY <1>3, <1>4 DEF Alike

\* No criterion is lost, doubled, emptied or made incomplete.
Kin(s, u) == LiveCrit(u) = LiveCrit(s) /\ \A c \in LiveCrit(s) : Alike(u.crit[c], s.crit[c])

\* What the right arrow leaves.
LEMMA IndentedIs ==
  ASSUME EveryInputIsChecked, NEW s, TreeInv(s), Known(s), NEW c \in Crit \cap Live(s), s.crit[c].right,
         NEW n \in Sub \ Live(s), NEW g, g = Parent(s, c), NEW t, t = Indented(s, c, n), NEW u, u = Rebuilt(Pruned(t))
  PROVE  /\ TreeInv(u) /\ Grown(s, u, c, g, n) /\ Kin(s, u)
         /\ \A x \in LiveCrit(u) : u.crit[x].filled = s.crit[x].filled
<1>0. /\ s \in Tree /\ Apart(s) /\ Kept(s) /\ Layered(s) /\ \A h \in Group : Kids(s, h) \subseteq Live(s)
  BY InvFacts
<1>1. /\ t \in Tree /\ g \in Group /\ c \in Kids(s, g) /\ g # n
      /\ \A h \in Group \ {g, n} : t.kids[h] = s.kids[h]
      /\ Kids(t, g) = (Kids(s, g) \ {c}) \cup {n}
      /\ Kids(t, n) = {c}
      /\ \A h \in Group : t.logic[h] = s.logic[h]
      /\ \A x \in Crit : t.crit[x] = IF x = c THEN [Populate(s.crit[c]) EXCEPT !.right = FALSE] ELSE s.crit[x]
  BY IndentIs
<1>2. PICK L : Ready(t, L)
  BY IndentReady
<1>3. n \in Group /\ n \in Node /\ n \notin Crit /\ c \notin Sub /\ n # Top
  BY Nodes
<1>4. \A h \in Group \ {g, n} : Kids(t, h) = Kids(s, h)
  BY <1>1 DEF Kids
<1>5. Kids(s, n) = {}
  BY <1>0, <1>3, EmptyKids DEF Kept
<1>6. \A h \in Group : c \in Kids(s, h) => h = g
  BY <1>0, <1>1 DEF Apart
<1>7. ASSUME NEW m \in Live(s) PROVE \E h \in Group : m \in Kids(t, h)
  <2>1. PICK h \in Group : m \in Kids(s, h)
    BY LiveAre
  <2>2. CASE m = c
    BY <1>1, <1>3, <2>2
  <2>3. CASE m # c
    BY <1>1, <1>4, <1>5, <2>1, <2>3
  <2> QED BY <2>2, <2>3
<1>8. Hung(t)
  <2> SUFFICES ASSUME NEW h \in Sub, Kids(t, h) # {} PROVE h \in Live(t)
    BY DEF Hung
  <2>1. h \in Group
    BY Nodes
  <2>2. CASE h = n
    BY <1>1, <2>2, LiveAre
  <2>3. CASE h # n
    <3>1. Kids(s, h) # {}
      BY <1>1, <1>4, <2>1, <2>3
    <3>2. h \in Live(s)
      BY <1>0, <2>1, <3>1, EmptyKids DEF Kept
    <3> QED BY <1>7, <3>2, LiveAre
  <2> QED BY <2>2, <2>3
<1>9. Redrawn(t, u)
  BY <1>2, <1>8, RedrawnIs
<1>10. TreeInv(u) /\ u \in Tree
  BY <1>9, InvFacts DEF Redrawn
<1>11. ASSUME NEW h \in Group PROVE Kids(u, h) = Kids(t, h)
  <2>1. Kids(u, h) = KeptKids(t, h)
    BY <1>9 DEF Redrawn
  <2>2. ASSUME NEW m \in Kids(t, h) PROVE m \in Crit \/ t.kids[m] # <<>>
    <3>1. CASE m \in Crit
      BY <3>1
    <3>2. CASE m = n
      <4>1. Kids(t, n) # {}
        BY <1>1
      <4> QED BY <1>1, <1>3, <3>2, <4>1, EmptyKids
    <3>3. CASE m \in Sub /\ m # n
      <4>1. m \in Kids(s, h) \/ m \in Kids(s, g)
        BY <1>1, <1>3, <1>4, <1>5, <3>3
      <4>2. m \in Live(s) /\ m \in Group
        BY <1>0, <1>1, <3>3, <4>1, Nodes
      <4>3. s.kids[m] # <<>>
        BY <1>0, <3>3, <4>2 DEF Kept
      <4>4. CASE m = g
        <5>1. n \in Kids(t, g)
          BY <1>1
        <5> QED BY <1>1, <4>4, <5>1, EmptyKids
      <4>5. CASE m # g
        BY <1>1, <3>3, <4>2, <4>3, <4>5
      <4> QED BY <4>4, <4>5
    <3>4. m \in Node
      BY <1>1, Entries
    <3> QED BY <3>1, <3>2, <3>3, <3>4, Nodes
  <2> QED BY <2>1, <2>2 DEF KeptKids
<1>12. ASSUME NEW h \in Group PROVE u.logic[h] = s.logic[h] \/ Kids(u, h) = {}
  BY <1>1, <1>9 DEF Redrawn
<1>13. u.logic[n] \in {"AND", "OR"}
  <2>1. Kids(u, n) # {}
    BY <1>1, <1>3, <1>11
  <2>2. u.logic[n] = s.logic[n]
    BY <1>3, <1>12, <2>1
  <2>3. s.logic[n] = DefaultLogic
    BY <1>0 DEF Kept
  <2> QED BY <2>2, <2>3, Assumptions
<1>14. Crit \cap Live(s) \subseteq Live(t)
  BY <1>7, LiveAre
<1>15. ASSUME NEW x \in Crit \cap Live(s) PROVE u.crit[x].filled = s.crit[x].filled /\ SaysSame(u.crit[x], s.crit[x])
  <2>1. s.crit[x] \in CritRecord /\ t.crit[x] \in CritRecord /\ s.crit[x].filled = Complete(s.crit[x])
    BY <1>0, <1>1, TreeFields DEF Known
  <2>2. u.crit[x] = Rebuild(t.crit[x])
    BY <1>9, <1>14 DEF Redrawn
  <2>3. Alike(t.crit[x], s.crit[x]) \/ Alike(t.crit[x], Populate(s.crit[x]))
    <3>1. CASE x = c
      <4>1. PICK r : r = Populate(s.crit[x])
        OBVIOUS
      <4>2. t.crit[x] = [r EXCEPT !.right = FALSE] /\ r \in CritRecord
        BY <1>1, <2>1, <3>1, <4>1, Records
      <4>3. [[r EXCEPT !.right = FALSE] EXCEPT !.right = FALSE] = [r EXCEPT !.right = FALSE]
        BY <4>2 DEF CritRecord
      <4> QED BY <4>1, <4>2, <4>3 DEF Alike
    <3>2. CASE x # c
      BY <1>1, <3>2 DEF Alike
    <3> QED BY <3>1, <3>2
  <2> QED BY <2>1, <2>2, <2>3, PopulatedAgain
<1>16. Grown(s, u, c, g, n)
  <2>1. g \in Group /\ n \in Sub /\ c \in Crit /\ g # n /\ c \in Kids(s, g) /\ n \notin Live(s) /\ Kids(s, n) = {}
    BY <1>1, <1>5
  <2>2. Kids(u, g) = (Kids(s, g) \ {c}) \cup {n} /\ Kids(u, n) = {c} /\ \A h \in Group \ {g, n} : Kids(u, h) = Kids(s, h)
    BY <1>1, <1>3, <1>4, <1>11
  <2> QED BY <1>6, <1>12, <1>13, <1>15, <2>1, <2>2 DEF Grown
<1>17. LiveCrit(u) = LiveCrit(s)
  <2>1. ASSUME NEW x \in Crit, x \in Live(t) PROVE x \in Live(s)
    <3>1. PICK h \in Group : x \in Kids(t, h)
      BY <2>1, LiveAre
    <3> QED BY <1>0, <1>1, <1>3, <1>4, <2>1, <3>1
  <2>2. \A x \in Crit : x \in Live(u) <=> x \in Live(s)
    BY <1>9, <1>14, <2>1 DEF Redrawn
  <2> QED BY <2>2 DEF LiveCrit
<1>18. \A x \in LiveCrit(s) : Alike(u.crit[x], s.crit[x])
  BY <1>0, <1>10, <1>15, SaysAlike, TreeFields DEF LiveCrit
<1>19. \A x \in LiveCrit(u) : u.crit[x].filled = s.crit[x].filled
  BY <1>15, <1>17 DEF LiveCrit
<1> QED BY <1>10, <1>16, <1>17, <1>18, <1>19 DEF Kin

LEMMA RedrawDraws ==
  ASSUME NEW t, NEW STATE p, NEW draw, Redraw(t, p, draw), NEW u, u = Rebuilt(Pruned(t)),
         NEW x \in LiveCrit(u), page'.rows # Visible(u)
  PROVE  t.crit[x].filled = u.crit[x].filled
BY RedrawShows

\* The right arrow changes neither the criteria nor the rows that pass.
LEMMA IndentTells ==
  ASSUME EveryInputIsChecked, IInv, Known(sb), NEW c \in Crit, NEW n \in Sub, Indent(c, n)
  PROVE  /\ Learned(sb, sb') /\ (Shows(sb, page) => Shows(sb', page'))
         /\ Kin(sb, sb') /\ Visible(sb') = Visible(sb)
<1>0. TreeInv(sb) /\ sb \in Tree /\ Layered(sb) /\ Backed(sb)
  BY InvFacts, KnownIsBacked DEF IInv
<1> DEFINE e == [sb EXCEPT !.crit[c] = Populate(@)]
           p == IF e.crit[c].filled # sb.crit[c].filled THEN Drawn(e, page) ELSE page
<1>1. PICK t : t = Indented(sb, c, n) /\ c \in Live(sb) /\ sb.crit[c].right /\ n \notin Live(sb) /\ Redraw(t, p, FALSE)
  <2>1. c \in Live(sb) /\ sb.crit[c].right /\ n \notin Live(sb)
    BY Zenon DEF Indent
  <2>2. \E g \in {Parent(sb, c)} : \E emptied \in {[sb EXCEPT !.crit[c] = Populate(@)]} :
        \E t \in {Grouped(sb, emptied, g, c, n)} :
          Redraw(t, IF emptied.crit[c].filled # sb.crit[c].filled THEN Drawn(emptied, page) ELSE page, FALSE)
    BY Zenon DEF Indent, Grouped
  <2>3. Indented(sb, c, n) = Grouped(sb, e, Parent(sb, c), c, n)
    BY Zenon DEF Indented, Grouped
  <2>4. \E t : t = Grouped(sb, e, Parent(sb, c), c, n) /\ Redraw(t, p, FALSE)
    BY <2>2
  <2> QED BY <2>1, <2>3, <2>4
<1>2. PICK g : g = Parent(sb, c)
  OBVIOUS
<1>3. PICK u : u = Rebuilt(Pruned(t))
  OBVIOUS
<1>4. c \in Crit \cap Live(sb) /\ n \in Sub \ Live(sb)
  BY <1>1
<1>5. /\ TreeInv(u) /\ Grown(sb, u, c, g, n) /\ Kin(sb, u)
      /\ \A x \in LiveCrit(u) : u.crit[x].filled = sb.crit[x].filled
  BY <1>0, <1>1, <1>2, <1>3, <1>4, IndentedIs
<1>6. u \in Tree /\ Layered(u)
  BY <1>5, InvFacts
<1>7. Visible(u) = Visible(sb)
  BY <1>0, <1>5, <1>6, GrownRows
<1>8. /\ sb' = u
      /\ \/ page'.rows = Visible(u)
         \/ /\ page'.rows = p.rows /\ page'.cleared = p.cleared
            /\ t.crit[c].filled = u.crit[c].filled
  <2>1. Redraw(t, p, FALSE)
    BY <1>1
  <2> HIDE DEF e, p
  <2>5. sb' = u
    BY <1>3, <2>1, RedrawShows
  <2>2. \/ page'.rows = Visible(u)
        \/ page'.rows = p.rows
    BY <1>3, <2>1, RedrawShows
  <2>3. ASSUME page'.rows # Visible(u) PROVE t.crit[c].filled = u.crit[c].filled
    <3>1. c \in LiveCrit(u)
      BY <1>4, <1>5 DEF Kin, LiveCrit
    <3> QED BY <1>3, <2>1, <2>3, <3>1, RedrawDraws
  <2>4. \/ page'.rows = Visible(u)
        \/ page'.cleared = p.cleared
    BY <1>3, <2>1, RedrawShows
  <2> QED BY <2>5, <2>2, <2>3, <2>4
<1>9. PICK r : r = Populate(sb.crit[c])
  OBVIOUS
<1>10. r \in CritRecord /\ (r.filled => r.cond # None)
  <2>1. sb.crit[c] \in CritRecord /\ (sb.crit[c].filled => sb.crit[c].cond # None)
    BY <1>0, TreeFields DEF Backed
  <2>2. CASE sb.crit[c].cond = None
    BY <1>9, <2>1, <2>2 DEF Populate
  <2>3. CASE sb.crit[c].cond # None
    BY <1>9, <2>1, <2>3, PopulatedCrit
  <2> QED BY <2>2, <2>3
<1>a. t = Indented(sb, c, n) /\ sb.crit[c].right
  BY <1>1
<1>i. /\ \A h \in Group : t.logic[h] = sb.logic[h]
      /\ \A x \in Crit : t.crit[x] = IF x = c THEN [Populate(sb.crit[c]) EXCEPT !.right = FALSE] ELSE sb.crit[x]
  <2> HIDE DEF e, p
  <2> QED BY <1>0, <1>2, <1>4, <1>a, IndentIs
<1>11. t.crit[c] = [r EXCEPT !.right = FALSE] /\ \A x \in Crit \ {c} : t.crit[x] = sb.crit[x]
  BY <1>4, <1>9, <1>i
<1>12. t.crit[c].filled = r.filled /\ t.crit[c].cond = r.cond
  BY <1>10, <1>11 DEF CritRecord
<1>13. e.crit[c].filled = r.filled
  BY <1>0, <1>9 DEF Tree
<1>14. Shows(sb, page) => Shows(u, page')
  <2>1. CASE page'.rows = Visible(u)
    BY <2>1 DEF Shows
  <2>2. CASE /\ page'.rows = p.rows /\ page'.cleared = p.cleared
             /\ t.crit[c].filled = u.crit[c].filled
    <3>1. c \in LiveCrit(u)
      BY <1>4, <1>5 DEF Kin, LiveCrit
    <3>2. e.crit[c].filled = sb.crit[c].filled
      BY <1>5, <1>12, <1>13, <2>2, <3>1
    <3>3. p = page
      BY <3>2
    <3> QED BY <1>7, <2>2, <3>3 DEF Shows
  <2> QED BY <1>8, <2>1, <2>2
<1>15. Backed(t)
  BY <1>0, <1>10, <1>11, <1>12 DEF Backed
<1>16. PICK L : Ready(t, L)
  BY <1>0, <1>1, <1>4, IndentReady
<1>17. Logical(sb) => Logical(t)
  BY <1>i DEF Logical
<1>18. Learned(sb, u)
  BY <1>3, <1>15, <1>16, <1>17, RedrawLearns
<1> HIDE DEF e, p
<1> QED BY <1>5, <1>7, <1>8, <1>14, <1>18

(* --------------- which criteria are complete, and what is shown ------------ *)

\* What holds once every condition checks its input.
KInv == IInv /\ Known(sb) /\ Shows(sb, page)

LEMMA NextTells == ASSUME EveryInputIsChecked, KInv, [Next]_vars PROVE Learned(sb, sb') /\ Shows(sb', page')
<1>1. IInv /\ Known(sb) /\ Shows(sb, page)
  BY DEF KInv
<1>2. CASE UNCHANGED vars
  BY <1>1, <1>2 DEF vars, Learned
<1>3. ASSUME NEW g \in Group, NEW c \in Crit, Add(g, c) PROVE Learned(sb, sb') /\ Shows(sb', page')
  BY <1>1, <1>3, AddTells
<1>4. ASSUME NEW c \in Crit, NEW column \in Column, ChooseData(c, column) PROVE Learned(sb, sb') /\ Shows(sb', page')
  BY <1>1, <1>4, DataTells
<1>5. ASSUME NEW c \in Crit, NEW cond \in Condition, ChooseCondition(c, cond) PROVE Learned(sb, sb') /\ Shows(sb', page')
  BY <1>1, <1>5, ConditionTells
<1>6. ASSUME NEW c \in Crit, NEW value \in Value \cup {None}, EnterValue(c, value)
      PROVE  Learned(sb, sb') /\ Shows(sb', page')
  BY <1>1, <1>6, ValueTells
<1>7. ASSUME NEW g \in Group, ToggleLogic(g) PROVE Learned(sb, sb') /\ Shows(sb', page')
  BY <1>1, <1>7, LogicTells
<1>8. ASSUME NEW c \in Crit, Delete(c) PROVE Learned(sb, sb') /\ Shows(sb', page')
  BY <1>1, <1>8, DeleteTells
<1>9. ASSUME NEW c \in Crit, NEW n \in Sub, Indent(c, n) PROVE Learned(sb, sb') /\ Shows(sb', page')
  BY <1>1, <1>9, IndentTells
<1>10. ASSUME NEW c \in Crit, Outdent(c) PROVE Learned(sb, sb') /\ Shows(sb', page')
  BY <1>1, <1>10, OutdentTells
<1>11. ASSUME NEW g \in Sub, ClearGroup(g) PROVE Learned(sb, sb') /\ Shows(sb', page')
  BY <1>1, <1>11, ClearTells
<1>12. CASE ClearTop \/ ClearAll
  BY <1>12, EmptiedTells DEF ClearTop, ClearAll
<1>13. CASE Relayout
  BY <1>1, <1>13, RelayoutTells
<1>14. ASSUME NEW d \in ApiDetails, ApiRebuild(d) PROVE Learned(sb, sb') /\ Shows(sb', page')
  BY <1>1, <1>14, RebuildTells
<1>15. CASE Reload
  BY <1>1, <1>15, ReloadTells
<1>16. Next => Learned(sb, sb') /\ Shows(sb', page')
  BY <1>3, <1>4, <1>5, <1>6, <1>7, <1>8, <1>9, <1>10, <1>11, <1>12, <1>13, <1>14, <1>15 DEF Next
<1> QED BY <1>2, <1>16

LEMMA KnownInit == EveryInputIsChecked => (Init => KInv /\ Logical(sb))
BY InitHolds, InitTells DEF KInv

LEMMA KnownNext ==
  EveryInputIsChecked =>
    (KInv /\ [Next]_vars => KInv' /\ (EveryListHasLogic /\ Logical(sb) => Logical(sb')))
<1> SUFFICES ASSUME EveryInputIsChecked, KInv, [Next]_vars
             PROVE  KInv' /\ (EveryListHasLogic /\ Logical(sb) => Logical(sb'))
  OBVIOUS
<1>1. IInv'
  BY NextKeeps DEF KInv
<1>2. Learned(sb, sb') /\ Shows(sb', page')
  BY NextTells
<1> QED BY <1>1, <1>2 DEF KInv, Learned

\* If every condition checks its input, a criterion is taken for complete when
\* it is, and the rows on view are those that pass, until a group is cleared.
THEOREM ShownHolds == EveryInputIsChecked => (Spec => []KInv)
<1> SUFFICES ASSUME EveryInputIsChecked PROVE Spec => []KInv
  OBVIOUS
<1>1. Init => KInv
  BY KnownInit
<1>2. KInv /\ [Next]_vars => KInv'
  BY KnownNext
<1> QED BY <1>1, <1>2, PTL DEF Spec

LEMMA SavedFollows == EveryInputIsChecked => (KInv => SavedIsCurrent)
<1> SUFFICES ASSUME EveryInputIsChecked, KInv PROVE SavedIsCurrent
  OBVIOUS
<1>1. TreeInv(sb) /\ Known(sb) /\ page.saved = Details(sb)
  BY DEF KInv, IInv, PageOf
<1>2. PICK r : r = Restore(Details(sb))
  OBVIOUS
<1>3. Details(r) = Details(sb)
  BY <1>1, <1>2, RestoreInv
<1>4. Visible(r) = Visible(sb)
  BY <1>1, <1>2, RestoredRows
<1> QED BY <1>1, <1>2, <1>3, <1>4 DEF SavedIsCurrent

\* If every condition checks its input, what is saved is what is on the page,
\* and a reload at any time brings back the tree and the rows that pass it.
THEOREM SavedIsCurrentHolds == EveryInputIsChecked => (Spec => []SavedIsCurrent)
<1> SUFFICES ASSUME EveryInputIsChecked PROVE Spec => []SavedIsCurrent
  OBVIOUS
<1>1. Spec => []KInv
  BY ShownHolds
<1>2. KInv => SavedIsCurrent
  BY SavedFollows
<1> QED BY <1>1, <1>2, PTL

\* If, besides, every list of criteria comes with a logic, the rows that pass
\* are those that the user means, whatever was clicked.
THEOREM RowsAreMeantHolds == EveryInputIsChecked /\ EveryListHasLogic => (Spec => []RowsAreMeant)
<1> SUFFICES ASSUME EveryInputIsChecked, EveryListHasLogic PROVE Spec => []RowsAreMeant
  OBVIOUS
<1> DEFINE MInv == KInv /\ Logical(sb)
<1>1. Init => MInv
  BY KnownInit
<1>2. MInv /\ [Next]_vars => MInv'
  BY KnownNext
<1>3. MInv => RowsAreMeant
  <2> SUFFICES ASSUME KInv, Logical(sb) PROVE RowsAreMeant
    OBVIOUS
  <2>1. sb \in Tree /\ Layered(sb) /\ Known(sb) /\ Shows(sb, page)
    BY InvFacts DEF KInv, IInv
  <2>2. Visible(sb) = Meant(sb)
    BY <2>1, VisibleIsMeant
  <2> QED BY <2>1, <2>2 DEF RowsAreMeant, SearchIsMeant, ShownIsCurrent, Shows
<1> HIDE DEF MInv
<1> QED BY <1>1, <1>2, <1>3, PTL DEF Spec

(* ---------------------------- the moves ---------------------------------- *)

\* What the left arrow leaves: the same criteria.
LEMMA OutdentedKin ==
  ASSUME EveryInputIsChecked, NEW s, TreeInv(s), Known(s), NEW c \in Crit \cap Live(s), s.depth[c] > 1,
         NEW t, t = Outdented(s, c), NEW u, u = Rebuilt(Pruned(t))
  PROVE  Kin(s, u) /\ \A h \in Group : Kids(t, h) \subseteq Kids(s, h) \cup {c}
<1>0. /\ s \in Tree /\ Apart(s) /\ Kept(s) /\ \A h \in Group : Kids(s, h) \subseteq Live(s)
  BY InvFacts
<1>1. PICK g, p, w : g = Parent(s, c) /\ p = Parent(s, g) /\ w = Doubled(s, c)
  OBVIOUS
<1>2. IsDoubled(s, c, g, p, w)
  BY <1>1, DoubledIs
<1>3. /\ g \in Sub \cap Live(s) /\ p \in Group /\ p # g /\ g \in Kids(s, p) /\ c \in Kids(s, g) /\ c \notin Kids(s, p)
      /\ w \in Tree
      /\ \A h \in Group \ {p} : w.kids[h] = s.kids[h]
      /\ Kids(w, p) = Kids(s, p) \cup {c}
  BY <1>2 DEF IsDoubled
<1>4. /\ Shrunk(w, t) /\ Kids(t, g) = Kids(s, g) \ {c}
      /\ \A h \in Group \ {g} : Kids(t, h) = IF Kids(t, g) = {} THEN Kids(w, h) \ {g} ELSE Kids(w, h)
  BY <1>1, OutdentIs
<1>5. t \in Tree /\ t.crit = w.crit
  BY <1>4 DEF Shrunk
<1>6. \A h \in Group \ {p} : Kids(w, h) = Kids(s, h)
  BY <1>3 DEF Kids
<1>7. c \in Node /\ c \notin Sub /\ c \notin Group /\ g \in Group /\ g # Top /\ g \notin Crit
  BY <1>3, Nodes
<1>8. \A h \in Group : Kids(t, h) \subseteq Kids(s, h) \cup {c}
  BY <1>3, <1>4, <1>6
<1>9. c \in Kids(t, p)
  BY <1>3, <1>4, <1>7
<1>10. ASSUME NEW h \in Group, NEW m \in Kids(s, h), m # c, m = g => Kids(t, g) # {} PROVE m \in Kids(t, h)
  <2>1. CASE h = g
    BY <1>4, <1>10, <2>1
  <2>2. CASE h # g
    <3>1. m \in Kids(w, h)
      BY <1>3, <1>6, <1>10
    <3> QED BY <1>4, <1>10, <2>2, <3>1
  <2> QED BY <2>1, <2>2
<1>11. Hung(t)
  <2> SUFFICES ASSUME NEW h \in Sub, Kids(t, h) # {} PROVE h \in Live(t)
    BY DEF Hung
  <2>1. h \in Group
    BY Nodes
  <2>2. h \in Live(s)
    <3>1. Kids(s, h) # {}
      BY <1>3, <1>4, <1>6, <1>8, <2>1
    <3> QED BY <1>0, <2>1, <3>1, EmptyKids DEF Kept
  <2>3. PICK k \in Group : h \in Kids(s, k)
    BY <2>2, LiveAre
  <2>4. h \in Kids(t, k)
    BY <1>7, <1>10, <2>3
  <2> QED BY <2>4, LiveAre
<1>12. PICK L : Ready(t, L)
  BY OutdentReady
<1>13. Redrawn(t, u)
  BY <1>11, <1>12, RedrawnIs
<1>14. ASSUME NEW x \in Crit PROVE x \in Live(t) <=> x \in Live(s)
  <2>1. ASSUME x \in Live(t) PROVE x \in Live(s)
    BY <1>0, <1>8, <2>1, LiveAre
  <2>2. ASSUME x \in Live(s) PROVE x \in Live(t)
    <3>1. PICK h \in Group : x \in Kids(s, h)
      BY <2>2, LiveAre
    <3>2. CASE x = c
      BY <1>3, <1>9, <3>2, LiveAre
    <3>3. CASE x # c
      <4>1. x # g
        BY <1>7
      <4> QED BY <1>10, <3>1, <3>3, <4>1, LiveAre
    <3> QED BY <3>2, <3>3
  <2> QED BY <2>1, <2>2
<1>15. LiveCrit(u) = LiveCrit(s)
  BY <1>13, <1>14 DEF Redrawn, LiveCrit
<1>16. \A x \in Crit : Alike(w.crit[x], IF x = c THEN Populate(s.crit[c]) ELSE s.crit[x])
  BY <1>2, Zenon DEF IsDoubled, Alike
<1>17. ASSUME NEW x \in LiveCrit(s) PROVE Alike(u.crit[x], s.crit[x])
  <2>1. x \in Crit /\ x \in Live(s) /\ x \in Live(t)
    BY <1>14 DEF LiveCrit
  <2>2. s.crit[x] \in CritRecord /\ t.crit[x] \in CritRecord /\ s.crit[x].filled = Complete(s.crit[x])
    BY <1>0, <1>5, <2>1, TreeFields DEF Known
  <2>3. Alike(t.crit[x], s.crit[x]) \/ Alike(t.crit[x], Populate(s.crit[x]))
    BY <1>5, <1>16, <2>1
  <2>4. Rebuild(t.crit[x]).filled = s.crit[x].filled /\ SaysSame(Rebuild(t.crit[x]), s.crit[x])
    BY <2>2, <2>3, PopulatedAgain
  <2>5. u.crit[x] = Rebuild(t.crit[x]) /\ u.crit[x] \in CritRecord
    BY <1>13, <2>1, <2>2, Records DEF Redrawn
  <2> QED BY <2>2, <2>4, <2>5, SaysAlike
<1> QED BY <1>8, <1>15, <1>17 DEF Kin

\* Every group is one that was there, if no group got more than criteria.
LEMMA FewerGroups ==
  ASSUME NEW s, NEW u, \A h \in Group : Kids(u, h) \subseteq Kids(s, h) \cup Crit
  PROVE  LiveGroups(u) \subseteq LiveGroups(s)
<1>1. ASSUME NEW g \in Live(u) \cap Sub PROVE g \in Live(s)
  <2>1. PICK h \in Group : g \in Kids(u, h)
    BY LiveAre
  <2>2. g \in Kids(s, h)
    BY <2>1, Nodes
  <2> QED BY <2>2, LiveAre
<1> QED BY <1>1 DEF LiveGroups

LEMMA RebuiltFewer ==
  ASSUME NEW t, Sound(t), NEW u, u = Rebuilt(t)
  PROVE  \A h \in Group : Kids(u, h) \subseteq Kids(t, h)
<1>1. PICK live : live = Reached(t)
  OBVIOUS
<1>2. /\ \A g \in Group \ ({Top} \cup live) : Kids(u, g) = {}
      /\ \A g \in {Top} \cup (live \cap Sub) : Kids(u, g) = Kids(t, g)
  BY <1>1, RebuiltIs
<1> QED BY <1>2, Nodes

LEMMA RedrawnFewer ==
  ASSUME NEW t, NEW L, Ready(t, L), NEW u, u = Rebuilt(Pruned(t))
  PROVE  \A h \in Group : Kids(u, h) \subseteq Kids(t, h)
<1>1. PICK q : q = Pruned(t)
  OBVIOUS
<1>2. t \in Tree /\ \A g \in Group : Single(t, g)
  BY DEF Ready, Sound
<1>3. \A g \in Group : Kids(q, g) = KeptKids(t, g)
  BY <1>1, <1>2, PrunedIs DEF KeptKids
<1>4. Sound(q)
  BY <1>1, PrunedReady DEF Ready
<1>5. \A g \in Group : Kids(u, g) \subseteq Kids(q, g)
  BY <1>1, <1>4, RebuiltFewer
<1> QED BY <1>3, <1>5 DEF KeptKids

\* No group is given more than criteria.
Ungrouped(s, u) == \A h \in Group : Kids(u, h) \subseteq Kids(s, h) \cup Crit

LEMMA UngroupedRedraw ==
  ASSUME NEW s, NEW t, Ungrouped(s, t), \E L : Ready(t, L), NEW STATE p, NEW draw, Redraw(t, p, draw)
  PROVE  Ungrouped(s, sb')
<1>1. PICK L : Ready(t, L)
  OBVIOUS
<1>2. PICK u : u = Rebuilt(Pruned(t))
  OBVIOUS
<1>3. \A h \in Group : Kids(u, h) \subseteq Kids(t, h)
  BY <1>1, <1>2, RedrawnFewer
<1>4. sb' = u
  BY <1>2, RedrawShows
<1> QED BY <1>3, <1>4 DEF Ungrouped

LEMMA UngroupedShrunk == ASSUME NEW s, NEW t, Shrunk(s, t) PROVE Ungrouped(s, t)
BY DEF Shrunk, Ungrouped

LEMMA SameKidsUngrouped == ASSUME NEW s, NEW t, t.kids = s.kids PROVE Ungrouped(s, t)
BY DEF Ungrouped, Kids

LEMMA EmptyUngrouped == ASSUME NEW s PROVE Ungrouped(s, EmptyTree)
<1>1. \A h \in Group : EmptyTree.kids[h] = <<>>
  BY DEF EmptyTree
<1>2. \A h \in Group : Kids(EmptyTree, h) = {}
  BY <1>1 DEF Kids
<1> QED BY <1>2 DEF Ungrouped

LEMMA WidgetsUngrouped ==
  ASSUME IInv, NEW c \in Crit
  PROVE  /\ \A column \in Column : ChooseData(c, column) => Ungrouped(sb, sb')
         /\ \A cond \in Condition : ChooseCondition(c, cond) => Ungrouped(sb, sb')
         /\ \A value \in Value \cup {None} : EnterValue(c, value) => Ungrouped(sb, sb')
<1>0. sb \in Tree
  BY InvFacts DEF IInv
<1>1. ASSUME NEW r, sb' = [sb EXCEPT !.crit[c] = r] PROVE Ungrouped(sb, sb')
  <2>1. PICK t : t = [sb EXCEPT !.crit[c] = r]
    OBVIOUS
  <2>2. t.kids = sb.kids
    BY <1>0, <2>1 DEF Tree
  <2>3. Ungrouped(sb, t)
    BY <2>2, SameKidsUngrouped
  <2> QED BY <1>1, <2>1, <2>3
<1>2. ASSUME NEW column \in Column, ChooseData(c, column) PROVE Ungrouped(sb, sb')
  <2>1. PICK r : sb' = [sb EXCEPT !.crit[c] = r]
    BY <1>2, Zenon DEF ChooseData
  <2> QED BY <1>1, <2>1
<1>3. ASSUME NEW cond \in Condition, ChooseCondition(c, cond) PROVE Ungrouped(sb, sb')
  <2>1. PICK r : sb' = [sb EXCEPT !.crit[c] = r]
    BY <1>3, Zenon DEF ChooseCondition
  <2> QED BY <1>1, <2>1
<1>4. ASSUME NEW value \in Value \cup {None}, EnterValue(c, value) PROVE Ungrouped(sb, sb')
  <2>1. PICK r : sb' = [sb EXCEPT !.crit[c] = r]
    BY <1>4, Zenon DEF EnterValue
  <2> QED BY <1>1, <2>1
<1> QED BY <1>2, <1>3, <1>4

LEMMA AddUngrouped == ASSUME IInv, NEW g \in Group, NEW c \in Crit, Add(g, c) PROVE Ungrouped(sb, sb')
<1>0. TreeInv(sb)
  BY DEF IInv
<1>1. PICK t : t = AddedTo(sb, g, c) /\ g \in LiveGroups(sb) /\ c \notin Live(sb) /\ sb' = t
  BY Zenon DEF Add, AddedTo
<1>2. IsAdded(sb, g, c, t)
  BY <1>0, <1>1, AddInv
<1>3. (\A h \in Group \ {g} : t.kids[h] = sb.kids[h]) /\ Kids(t, g) = Kids(sb, g) \cup {c}
  BY <1>2, Zenon DEF IsAdded
<1>4. \A h \in Group \ {g} : Kids(t, h) = Kids(sb, h)
  BY <1>3 DEF Kids
<1> QED BY <1>1, <1>3, <1>4 DEF Ungrouped

LEMMA LogicUngrouped == ASSUME IInv, NEW g \in Group, ToggleLogic(g) PROVE Ungrouped(sb, sb')
<1>0. sb \in Tree
  BY InvFacts DEF IInv
<1>1. PICK r : sb' = [sb EXCEPT !.logic[g] = r]
  BY Zenon DEF ToggleLogic
<1>2. PICK t : t = [sb EXCEPT !.logic[g] = r]
  OBVIOUS
<1>3. t.kids = sb.kids
  BY <1>0, <1>2 DEF Tree
<1>4. Ungrouped(sb, t)
  BY <1>3, SameKidsUngrouped
<1> QED BY <1>1, <1>2, <1>4

LEMMA DeleteUngrouped == ASSUME IInv, NEW c \in Crit, Delete(c) PROVE Ungrouped(sb, sb')
<1>0. TreeInv(sb)
  BY DEF IInv
<1>1. PICK g, w, t : /\ g = Parent(sb, c) /\ w = RemoveCriteria(sb, g, c) /\ t = UpdateArrows(w, {g})
                     /\ c \in Live(sb) /\ Redraw(t, page, TRUE)
  BY Zenon DEF Delete
<1>2. g \in Group /\ (\E L : Ready(w, L)) /\ Shrunk(sb, w)
  BY <1>0, <1>1, RemovedReady, RemovedShrunk
<1>3. PICK L : Ready(w, L)
  BY <1>2
<1>4. Ready(t, L)
  BY <1>1, <1>2, <1>3, ArrowsReady
<1>5. t.kids = w.kids
  <2>1. w \in Tree /\ {g} \in SUBSET Group
    BY <1>2 DEF Shrunk
  <2> QED BY <1>1, <2>1, ArrowsAlike
<1>6. Ungrouped(sb, t)
  BY <1>2, <1>5, UngroupedShrunk DEF Ungrouped, Kids
<1> QED BY <1>1, <1>4, <1>6, UngroupedRedraw

LEMMA ClearUngrouped == ASSUME IInv, NEW g \in Sub, ClearGroup(g) PROVE Ungrouped(sb, sb')
<1>0. TreeInv(sb)
  BY DEF IInv
<1> DEFINE p == [page EXCEPT !.cleared = TRUE]
<1>1. PICK t : t = Destroy(sb, g) /\ g \in Live(sb) /\ Redraw(t, p, FALSE)
  BY Zenon DEF ClearGroup
<1>2. (\E L : Ready(t, L)) /\ Shrunk(sb, t)
  BY <1>0, <1>1, DestroyReady, DestroyedShrunk
<1>3. Ungrouped(sb, t)
  BY <1>2, UngroupedShrunk
<1> HIDE DEF p
<1> QED BY <1>1, <1>2, <1>3, UngroupedRedraw

LEMMA RelayoutUngrouped == ASSUME IInv, Relayout PROVE Ungrouped(sb, sb')
<1>1. PICK t : t = sb
  OBVIOUS
<1>2. Redraw(t, page, FALSE) /\ TreeInv(t)
  BY <1>1 DEF Relayout, IInv
<1>3. \E L : Ready(t, L)
  BY <1>2, WholeReady
<1>4. Ungrouped(t, t)
  BY SameKidsUngrouped
<1>5. Ungrouped(t, sb')
  BY <1>2, <1>3, <1>4, UngroupedRedraw
<1> QED BY <1>1, <1>5

LEMMA ReloadUngrouped == ASSUME IInv, Reload PROVE Ungrouped(sb, sb')
<1>1. TreeInv(sb) /\ page.saved = Details(sb)
  BY DEF IInv, PageOf
<1>2. PICK t : t = Restore(Details(sb)) /\ sb' = t
  BY <1>1, Zenon DEF Reload
<1>3. t.kids = sb.kids
  BY <1>1, <1>2, RestoreIs DEF Restored
<1> QED BY <1>2, <1>3, SameKidsUngrouped

LEMMA OutdentUngrouped == ASSUME EveryInputIsChecked, IInv, Known(sb), NEW c \in Crit, Outdent(c)
                          PROVE  Ungrouped(sb, sb') /\ Kin(sb, sb')
<1>0. TreeInv(sb)
  BY DEF IInv
<1>1. PICK t : t = Outdented(sb, c) /\ c \in Live(sb) /\ sb.depth[c] > 1 /\ Redraw(t, page, TRUE)
  BY Zenon DEF Outdent, Outdented, Doubled
<1>2. PICK u : u = Rebuilt(Pruned(t))
  OBVIOUS
<1>3. c \in Crit \cap Live(sb)
  BY <1>1
<1>4. Kin(sb, u) /\ \A h \in Group : Kids(t, h) \subseteq Kids(sb, h) \cup {c}
  BY <1>0, <1>1, <1>2, <1>3, OutdentedKin
<1>5. Ungrouped(sb, t)
  BY <1>4 DEF Ungrouped
<1>6. \E L : Ready(t, L)
  BY <1>0, <1>1, OutdentReady
<1>7. Ungrouped(sb, sb')
  BY <1>1, <1>5, <1>6, UngroupedRedraw
<1>8. sb' = u
  BY <1>1, <1>2, RedrawShows
<1> QED BY <1>4, <1>7, <1>8

LEMMA ListUngrouped ==
  ASSUME NEW s, TreeInv(s), NEW d \in Lists, NEW ids \in NewObjects(s, d),
         NEW u, u = Rebuilt(UpdateArrows(Extend(s, d, ids), {Top}))
  PROVE  Ungrouped(s, u)
<1>1. PICK t : t = Extend(s, d, ids)
  OBVIOUS
<1>2. PICK v : v = UpdateArrows(t, {Top})
  OBVIOUS
<1>3. PICK L : Unset(t, L, {Top})
  BY <1>1, ExtendReady
<1>4. {Top} \in SUBSET Group
  BY Nodes
<1>5. Sound(v)
  BY <1>2, <1>3, <1>4, ArrowsSet DEF Ready
<1>6. PICK new : Extended(s, d, ids, t, new)
  BY <1>1, ExtendIs
<1>7. /\ t \in Tree /\ new \in SUBSET Crit /\ Kids(t, Top) = Kids(s, Top) \cup new
      /\ \A h \in Group \ {Top} : t.kids[h] = s.kids[h]
  BY <1>6 DEF Extended
<1>8. v.kids = t.kids
  BY <1>2, <1>4, <1>7, ArrowsAlike
<1>9. \A h \in Group : Kids(v, h) \subseteq Kids(s, h) \cup new
  BY <1>7, <1>8 DEF Kids
<1>10. u = Rebuilt(v)
  BY <1>1, <1>2
<1>11. \A h \in Group : Kids(u, h) \subseteq Kids(v, h)
  BY <1>5, <1>10, RebuiltFewer
<1> QED BY <1>7, <1>9, <1>11 DEF Ungrouped

LEMMA RebuildUngrouped == ASSUME IInv, NEW d \in ApiDetails, ApiRebuild(d) PROVE Ungrouped(sb, sb')
<1>1. PICK base :
        /\ base = IF page.clearAll THEN EmptyTree ELSE sb
        /\ \/ sb' = base
           \/ d # None /\ \E ids \in NewObjects(base, d) : sb' = Rebuilt(UpdateArrows(Extend(base, d, ids), {Top}))
  BY Zenon DEF ApiRebuild
<1>2. TreeInv(base) /\ Ungrouped(sb, base)
  <2>1. TreeInv(sb) /\ TreeInv(EmptyTree) /\ Ungrouped(sb, EmptyTree) /\ Ungrouped(sb, sb)
    BY EmptyInv, EmptyUngrouped, SameKidsUngrouped DEF IInv
  <2>2. base = EmptyTree \/ base = sb
    BY <1>1
  <2> QED BY <2>1, <2>2
<1>3. CASE sb' = base
  BY <1>2, <1>3
<1>4. ASSUME d # None, NEW ids \in NewObjects(base, d), sb' = Rebuilt(UpdateArrows(Extend(base, d, ids), {Top}))
      PROVE  Ungrouped(sb, sb')
  <2>1. PICK u : u = Rebuilt(UpdateArrows(Extend(base, d, ids), {Top}))
    OBVIOUS
  <2>2. d \in Lists
    BY <1>4, Assumptions
  <2>3. Ungrouped(base, u)
    BY <1>2, <2>1, <2>2, ListUngrouped
  <2>4. Ungrouped(sb, u)
    BY <1>2, <2>3 DEF Ungrouped
  <2> QED BY <1>4, <2>1, <2>4
<1> QED BY <1>1, <1>3, <1>4

LEMMA KinIsSame == ASSUME Kin(sb, sb') PROVE SameCriteria
BY Zenon DEF Kin, SameCriteria, Alike

LEMMA MovesKeep ==
  ASSUME EveryInputIsChecked, KInv, [Next]_vars
  PROVE  /\ ~ LiveGroups(sb') \subseteq LiveGroups(sb) => SameCriteria /\ Visible(sb') = Visible(sb)
         /\ SameCriteria \/ ~\E c \in Crit : sb'.depth[c] < sb.depth[c] /\ Outdent(c)
<1>0. IInv /\ Known(sb)
  BY DEF KInv
<1>1. ASSUME NEW c \in Crit, Outdent(c) PROVE Ungrouped(sb, sb') /\ SameCriteria
  <2>1. Ungrouped(sb, sb') /\ Kin(sb, sb')
    BY <1>0, <1>1, OutdentUngrouped
  <2>2. SameCriteria
    BY <2>1, KinIsSame
  <2> QED BY <2>1, <2>2
<1>2. ASSUME NEW c \in Crit, NEW n \in Sub, Indent(c, n) PROVE SameCriteria /\ Visible(sb') = Visible(sb)
  <2>1. Kin(sb, sb') /\ Visible(sb') = Visible(sb)
    BY <1>0, <1>2, IndentTells
  <2>2. SameCriteria
    BY <2>1, KinIsSame
  <2> QED BY <2>1, <2>2
<1>3. ASSUME UNCHANGED vars PROVE Ungrouped(sb, sb')
  BY <1>3, SameKidsUngrouped DEF vars
<1>4. ASSUME NEW g \in Group, NEW c \in Crit, Add(g, c) PROVE Ungrouped(sb, sb')
  BY <1>0, <1>4, AddUngrouped
<1>5. ASSUME NEW c \in Crit,
             \/ \E column \in Column : ChooseData(c, column)
             \/ \E cond \in Condition : ChooseCondition(c, cond)
             \/ \E value \in Value \cup {None} : EnterValue(c, value)
      PROVE  Ungrouped(sb, sb')
  BY <1>0, <1>5, WidgetsUngrouped
<1>6. ASSUME NEW g \in Group, ToggleLogic(g) PROVE Ungrouped(sb, sb')
  BY <1>0, <1>6, LogicUngrouped
<1>7. ASSUME NEW c \in Crit, Delete(c) PROVE Ungrouped(sb, sb')
  BY <1>0, <1>7, DeleteUngrouped
<1>8. ASSUME NEW g \in Sub, ClearGroup(g) PROVE Ungrouped(sb, sb')
  BY <1>0, <1>8, ClearUngrouped
<1>9. ASSUME ClearTop \/ ClearAll PROVE Ungrouped(sb, sb')
  <2>1. sb' = EmptyTree
    BY <1>9 DEF ClearTop, ClearAll
  <2> QED BY <2>1, EmptyUngrouped
<1>10. ASSUME Relayout PROVE Ungrouped(sb, sb')
  BY <1>0, <1>10, RelayoutUngrouped
<1>11. ASSUME NEW d \in ApiDetails, ApiRebuild(d) PROVE Ungrouped(sb, sb')
  BY <1>0, <1>11, RebuildUngrouped
<1>12. ASSUME Reload PROVE Ungrouped(sb, sb')
  BY <1>0, <1>12, ReloadUngrouped
<1>13. Ungrouped(sb, sb') \/ \E c \in Crit, n \in Sub : Indent(c, n)
  BY <1>1, <1>3, <1>4, <1>5, <1>6, <1>7, <1>8, <1>9, <1>10, <1>11, <1>12 DEF Next
<1>14. Ungrouped(sb, sb') => LiveGroups(sb') \subseteq LiveGroups(sb)
  BY FewerGroups DEF Ungrouped
<1> QED BY <1>1, <1>2, <1>13, <1>14

\* If every condition checks its input, the arrows move criteria and lose,
\* double, empty or unfinish none, and a new group lets the same rows pass.
THEOREM MovesKeepCriteriaHolds == EveryInputIsChecked => (Spec => MovesKeepCriteria)
<1> SUFFICES ASSUME EveryInputIsChecked PROVE Spec => MovesKeepCriteria
  OBVIOUS
<1>1. Spec => []KInv
  BY ShownHolds
<1>2. KInv /\ [Next]_vars =>
        [/\ ~ LiveGroups(sb') \subseteq LiveGroups(sb) => SameCriteria /\ Visible(sb') = Visible(sb)
         /\ SameCriteria \/ ~\E c \in Crit : sb'.depth[c] < sb.depth[c] /\ Outdent(c)]_vars
  BY MovesKeep
<1> QED BY <1>1, <1>2, PTL DEF Spec, MovesKeepCriteria

(* ------------------------- a list from a script --------------------------- *)

LEMMA RebuildSays ==
  ASSUME NEW c \in CritRecord
  PROVE  Rebuild(c).data = c.data /\ Rebuild(c).cond = c.cond /\ Rebuild(c).value = c.value
<1>1. \A b : LET r == [c EXCEPT !.filled = b] IN r.data = c.data /\ r.cond = c.cond /\ r.value = c.value
  BY DEF CritRecord
<1> QED BY <1>1 DEF Rebuild

\* What a rebuild keeps of the top group.
TopIs(t, u, live) ==
  /\ DOMAIN u.kids[Top] = DOMAIN t.kids[Top]
  /\ \A i \in DOMAIN t.kids[Top] : u.kids[Top][i].node = t.kids[Top][i].node
  /\ \A c \in Crit : u.crit[c] = IF c \in live THEN Rebuild(t.crit[c]) ELSE EmptyCrit

LEMMA RebuiltTop ==
  ASSUME NEW t, Sound(t), NEW u, u = Rebuilt(t), NEW live, live = Reached(t)
  PROVE  TopIs(t, u, live)
<1>1. /\ \A g \in {Top} \cup (live \cap Sub) :
           /\ DOMAIN u.kids[g] = DOMAIN t.kids[g]
           /\ \A i \in DOMAIN t.kids[g] : u.kids[g][i].node = t.kids[g][i].node
      /\ \A c \in Crit : u.crit[c] = IF c \in live THEN Rebuild(t.crit[c]) ELSE EmptyCrit
  BY RebuiltIs
<1> QED BY <1>1 DEF TopIs

\* The criteria of the top group are those of the list.
Gives(u, d) ==
  /\ DOMAIN u.kids[Top] = DOMAIN d.criteria
  /\ \A i \in DOMAIN d.criteria :
       LET c == u.crit[u.kids[Top][i].node]
       IN c.data = d.criteria[i].data /\ c.cond = d.criteria[i].cond /\ c.value = d.criteria[i].value
          /\ c.filled = Complete(c)

LEMMA ListGives ==
  ASSUME EveryInputIsChecked, NEW s, TreeInv(s), Known(s), s.kids[Top] = <<>>,
         NEW d \in Lists, NEW ids \in NewObjects(s, d),
         NEW u, u = Rebuilt(UpdateArrows(Extend(s, d, ids), {Top}))
  PROVE  Gives(u, d)
<1>1. PICK t : t = Extend(s, d, ids)
  OBVIOUS
<1>2. PICK v : v = UpdateArrows(t, {Top})
  OBVIOUS
<1>3. PICK L : Unset(t, L, {Top})
  BY <1>1, ExtendReady
<1>4. {Top} \in SUBSET Group /\ Top \in Group
  BY Nodes
<1>5. Sound(v)
  BY <1>2, <1>3, <1>4, ArrowsSet DEF Ready
<1>6. PICK new : Extended(s, d, ids, t, new)
  BY <1>1, ExtendIs
<1>7. /\ t \in Tree /\ new \in SUBSET (Crit \ Live(s)) /\ Kids(t, Top) = Kids(s, Top) \cup new
      /\ DOMAIN ids = 1..Len(d.criteria) /\ Len(t.kids[Top]) = Len(s.kids[Top]) + Len(d.criteria)
      /\ \A i \in DOMAIN ids : t.kids[Top][Len(s.kids[Top]) + i].node = ids[i] /\ ids[i] \in new
      /\ \A i \in DOMAIN ids : Listed(t.crit[ids[i]], d.criteria[i])
  BY <1>6 DEF Extended
<1>8. v \in Tree /\ v.kids = t.kids /\ \A c \in Crit : Alike(v.crit[c], t.crit[c])
  BY <1>2, <1>4, <1>7, ArrowsAlike
<1>9. u = Rebuilt(v)
  BY <1>1, <1>2
<1>10. PICK live : live = Reached(v)
  OBVIOUS
<1>11. /\ DOMAIN u.kids[Top] = DOMAIN v.kids[Top]
       /\ \A i \in DOMAIN v.kids[Top] : u.kids[Top][i].node = v.kids[Top][i].node
       /\ \A c \in Crit : u.crit[c] = IF c \in live THEN Rebuild(v.crit[c]) ELSE EmptyCrit
  <2>1. TopIs(v, u, live)
    BY <1>5, <1>9, <1>10, RebuiltTop
  <2> QED BY <2>1, Zenon DEF TopIs
<1>12. t.kids[Top] \in Seq(Entry) /\ Len(s.kids[Top]) = 0
  BY <1>4, <1>7, TreeFields
<1>13. DOMAIN d.criteria = 1..Len(d.criteria) /\ Len(d.criteria) \in Nat
  BY DEF Lists
<1>14. DOMAIN u.kids[Top] = DOMAIN d.criteria
  BY <1>7, <1>8, <1>11, <1>12, <1>13
<1>15. Known(u)
  BY ListKnown
<1>16. ASSUME NEW i \in DOMAIN d.criteria, NEW c, c = u.crit[u.kids[Top][i].node]
       PROVE  /\ c.data = d.criteria[i].data /\ c.cond = d.criteria[i].cond /\ c.value = d.criteria[i].value
              /\ c.filled = Complete(c)
  <2>1. i \in DOMAIN ids /\ i \in Nat /\ i \in DOMAIN v.kids[Top]
    BY <1>7, <1>11, <1>13, <1>14
  <2>2. PICK k : k = ids[i]
    OBVIOUS
  <2>3. k \in Crit /\ k \in Kids(v, Top) /\ v.kids[Top][i].node = k
    <3>1. t.kids[Top][0 + i].node = k /\ k \in new
      BY <1>7, <1>12, <2>1, <2>2
    <3>2. v.kids[Top][i].node = k
      BY <1>8, <2>1, <3>1
    <3> QED BY <1>7, <2>1, <3>1, <3>2 DEF Kids
  <2>4. k \in live
    BY <1>4, <1>5, <1>8, <1>10, <2>3, ReachedFacts, SoundIsLayered
  <2>5. c = Rebuild(v.crit[k]) /\ c = u.crit[k]
    BY <1>11, <1>16, <2>1, <2>3, <2>4
  <2>6. v.crit[k] \in CritRecord /\ t.crit[k] \in CritRecord
    BY <1>7, <1>8, <2>3, TreeFields
  <2>7. c.data = t.crit[k].data /\ c.cond = t.crit[k].cond /\ c.value = t.crit[k].value
    <3>1. Alike(v.crit[k], t.crit[k])
      BY <1>8, <2>3
    <3>2. v.crit[k].data = t.crit[k].data /\ v.crit[k].cond = t.crit[k].cond /\ v.crit[k].value = t.crit[k].value
      BY <2>6, <3>1, AlikeFacts
    <3> QED BY <2>5, <2>6, <3>2, RebuildSays
  <2>8. Listed(t.crit[k], d.criteria[i])
    BY <1>7, <2>1, <2>2
  <2>9. c.filled = Complete(c)
    BY <1>15, <2>3, <2>5 DEF Known
  <2> QED BY <2>7, <2>8, <2>9 DEF Listed
<1> QED BY <1>14, <1>16 DEF Gives

LEMMA RebuildGives ==
  ASSUME EveryInputIsChecked, KInv, NEW d \in ApiDetails \ {None}, ApiRebuild(d),
         page.clearAll \/ sb.kids[Top] = <<>>
  PROVE  Gives(sb', d) /\ page'.rows = Visible(sb')
<1>0. /\ TreeInv(sb) /\ TreeInv(EmptyTree) /\ PageOf(sb, page) /\ PageOf(EmptyTree, FreshPage(EmptyTree))
      /\ Known(sb)
  BY EmptyInv, FreshIs DEF IInv, KInv
<1>1. PICK base, p :
        /\ base = IF page.clearAll THEN EmptyTree ELSE sb
        /\ p = IF page.clearAll THEN FreshPage(EmptyTree) ELSE page
        /\ IF d = None THEN sb' = base /\ page' = p
           ELSE IF d.criteria = <<>> THEN sb' = base /\ page' = [Drawn(base, p) EXCEPT !.addChecks = FALSE]
           ELSE \E ids \in NewObjects(base, d) : \E t \in {UpdateArrows(Extend(base, d, ids), {Top})} :
                \E u \in {Rebuilt(t)} :
                  sb' = u /\ page' = [ListPage(u) EXCEPT !.addChecks = FALSE]
  BY Zenon DEF ApiRebuild
<1>2. TreeInv(base) /\ PageOf(base, p) /\ Known(base) /\ base.kids[Top] = <<>>
  <2>1. CASE page.clearAll
    <3>1. base = EmptyTree /\ p = FreshPage(EmptyTree)
      BY <1>1, <2>1
    <3>2. EmptyTree.kids[Top] = <<>>
      BY Nodes DEF EmptyTree
    <3> QED BY <1>0, <3>1, <3>2, EmptyKnown
  <2>2. CASE ~page.clearAll
    BY <1>0, <1>1, <2>2
  <2> QED BY <2>1, <2>2
<1>3. d \in Lists
  BY Assumptions
<1>4. CASE d.criteria = <<>>
  <2>1. PICK q : q = Drawn(base, p)
    OBVIOUS
  <2>2. PageOf(base, q) /\ q.rows = Visible(base)
    BY <1>2, <2>1, DrawnIs
  <2>3. sb' = base /\ page' = [q EXCEPT !.addChecks = FALSE]
    BY <1>1, <1>4, <2>1
  <2>4. page'.rows = Visible(base)
    BY <2>2, <2>3 DEF PageOf
  <2>5. DOMAIN d.criteria = {} /\ DOMAIN base.kids[Top] = {}
    BY <1>2, <1>4
  <2>6. Gives(base, d)
    BY <2>5 DEF Gives
  <2> QED BY <2>3, <2>4, <2>6
<1>5. CASE d.criteria # <<>>
  <2>1. PICK ids \in NewObjects(base, d) :
          \E u : /\ u = Rebuilt(UpdateArrows(Extend(base, d, ids), {Top}))
                 /\ sb' = u /\ page' = [ListPage(u) EXCEPT !.addChecks = FALSE]
    BY <1>1, <1>5, Zenon
  <2>2. PICK u : /\ u = Rebuilt(UpdateArrows(Extend(base, d, ids), {Top}))
                 /\ sb' = u /\ page' = [ListPage(u) EXCEPT !.addChecks = FALSE]
    BY <2>1
  <2>3. Gives(u, d)
    BY <1>2, <1>3, <2>1, <2>2, ListGives
  <2>4. page'.rows = Visible(u)
    <3>1. ListPage(u).rows = Visible(u) /\ [ListPage(u) EXCEPT !.addChecks = FALSE].rows = ListPage(u).rows
      BY DEF ListPage, FreshPage
    <3> QED BY <2>2, <3>1
  <2> QED BY <2>2, <2>3, <2>4
<1> QED BY <1>4, <1>5

\* If every condition checks its input, a rebuild from a list gives the state
\* of the list, when Clear All is not late.
THEOREM RebuildGivesStateHolds == EveryInputIsChecked => (Spec => RebuildGivesState)
<1> SUFFICES ASSUME EveryInputIsChecked PROVE Spec => RebuildGivesState
  OBVIOUS
<1>1. Spec => []KInv
  BY ShownHolds
<1>2. ASSUME KInv
      PROVE  [\A d \in ApiDetails \ {None} :
                (page.clearAll \/ sb.kids[Top] = <<>>) /\ ~page'.addChecks /\ ApiRebuild(d) =>
                  LET c(i) == sb'.crit[sb'.kids[Top][i].node] IN
                  /\ DOMAIN sb'.kids[Top] = DOMAIN d.criteria
                  /\ \A i \in DOMAIN d.criteria :
                       /\ <<c(i).data, c(i).cond, c(i).value>> = <<d.criteria[i].data, d.criteria[i].cond, d.criteria[i].value>>
                       /\ c(i).filled = Complete(c(i))
                  /\ page'.rows = Visible(sb')]_vars
  <2> SUFFICES ASSUME NEW d \in ApiDetails \ {None}, page.clearAll \/ sb.kids[Top] = <<>>, ApiRebuild(d)
               PROVE  LET c(i) == sb'.crit[sb'.kids[Top][i].node] IN
                      /\ DOMAIN sb'.kids[Top] = DOMAIN d.criteria
                      /\ \A i \in DOMAIN d.criteria :
                           /\ <<c(i).data, c(i).cond, c(i).value>> = <<d.criteria[i].data, d.criteria[i].cond, d.criteria[i].value>>
                           /\ c(i).filled = Complete(c(i))
                      /\ page'.rows = Visible(sb')
    OBVIOUS
  <2>1. Gives(sb', d) /\ page'.rows = Visible(sb')
    BY <1>2, RebuildGives
  <2> QED BY <2>1 DEF Gives
<1> QED BY <1>1, <1>2, PTL DEF Spec, RebuildGivesState
=============================================================================
