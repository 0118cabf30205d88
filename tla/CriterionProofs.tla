--------------------------- MODULE CriterionProofs ---------------------------
(* What a criterion of the SearchBuilder promises, for any table, any texts  *)
(* and any conditions taken out: what it searches for is what it shows, what *)
(* is hidden is what it searches for, and redrawing it changes neither.      *)
EXTENDS Criterion, WellFoundedInduction, SequenceTheorems, TLAPS

(* ------------------- induction, and folds over a text -------------------- *)

LEMMA Least ==
  ASSUME NEW S \in SUBSET Nat, S # {}
  PROVE  \E n \in S : \A m \in S : n <= m
<1>1. IsWellFoundedOn(OpToRel(<, Nat), Nat)
  BY NatLessThanWellFounded
<1>2. PICK x \in S : \A y \in S : <<y, x>> \notin OpToRel(<, Nat)
  BY <1>1, WFMin
<1>3. \A y \in Nat : <<y, x>> \in OpToRel(<, Nat) <=> y < x
  BY DEF OpToRel
<1>4. \A y \in S : ~(y < x)
  BY <1>2, <1>3
<1> QED BY <1>4

LEMMA Induction ==
  ASSUME NEW S, 0 \in S, \A n \in Nat : n \in S => n + 1 \in S
  PROVE  Nat \subseteq S
<1> SUFFICES ASSUME Nat \ S # {} PROVE FALSE
  OBVIOUS
<1>1. PICK n \in Nat \ S : \A m \in Nat \ S : n <= m
  BY Least
<1>2. n # 0 /\ n - 1 \in Nat
  BY <1>1
<1>3. n - 1 \in S
  BY <1>1, <1>2
<1>4. n \in S
  BY <1>2, <1>3
<1> QED BY <1>1, <1>4

LEMMA MaxIsLargest ==
  ASSUME NEW n \in Nat, NEW X \in SUBSET (1..n), X # {}
  PROVE  Max(X) \in X /\ \A m \in X : Max(X) >= m
<1> DEFINE away == {n - m : m \in X}
<1>1. away \in SUBSET Nat /\ away # {}
  <2>1. \A m \in X : n - m \in Nat /\ n - m \in away
    OBVIOUS
  <2>2. PICK m \in X : TRUE
    OBVIOUS
  <2> QED BY <2>1, <2>2
<1>2. PICK a \in away : \A b \in away : a <= b
  BY <1>1, Least
<1>3. PICK x \in X : a = n - x
  BY <1>2
<1>4. \A m \in X : x >= m
  <2> TAKE m \in X
  <2>1. n - m \in away
    OBVIOUS
  <2>2. n - x <= n - m
    BY <1>2, <1>3, <2>1
  <2> QED BY <2>2
<1>5. \E y \in X : \A m \in X : y >= m
  BY <1>3, <1>4
<1> QED BY <1>5, Zenon DEF Max

LEMMA BeforeMax ==
  ASSUME NEW n \in Nat, NEW X \in SUBSET (1..(n + 1)), X # {}
  PROVE  Max(X) \in 1..(n + 1) /\ X \ {Max(X)} \in SUBSET (1..n)
<1>1. n + 1 \in Nat
  OBVIOUS
<1>2. Max(X) \in X /\ \A m \in X : Max(X) >= m
  BY <1>1, MaxIsLargest
<1>3. \A m \in X : m \in 1..(n + 1)
  OBVIOUS
<1>4. \A m \in X \ {Max(X)} : m \in 1..n
  <2> HIDE DEF Max
  <2> DEFINE top == Max(X)
  <2>1. top \in 1..(n + 1)
    BY <1>2, <1>3
  <2> HIDE DEF top
  <2>2. \A m \in X \ {top} : m \in 1..n
    BY <1>2, <1>3, <2>1 DEF top
  <2> QED BY <2>2 DEF top
<1> QED BY <1>2, <1>3, <1>4

LEMMA MaxInside ==
  ASSUME NEW n \in Nat
  PROVE  \A X \in SUBSET (1..n) : X # {} => Max(X) \in 1..n /\ X \ {Max(X)} \in SUBSET (1..n)
<1> TAKE X \in SUBSET (1..n)
<1> SUFFICES ASSUME X # {} PROVE Max(X) \in 1..n /\ X \ {Max(X)} \in SUBSET (1..n)
  OBVIOUS
<1>1. Max(X) \in X
  BY MaxIsLargest
<1> QED BY <1>1

\* The recursive function that FoldLeft is made of exists: for steps between
\* elements of T, given as a function E.
IsFold(f, T, base, E, n) ==
  /\ f \in [SUBSET (1..n) -> T]
  /\ \A X \in SUBSET (1..n) : f[X] = IF X = {} THEN base ELSE E[<<f[X \ {Max(X)}], Max(X)>>]

LEMMA FoldExists ==
  ASSUME NEW T, NEW base \in T, NEW n \in Nat, NEW E \in [T \X (1..n) -> T]
  PROVE  \E f : IsFold(f, T, base, E, n)
<1> DEFINE Step(f, X) == IF X = {} THEN base ELSE E[<<f[X \ {Max(X)}], Max(X)>>]
           Fold(f, m) == f \in [SUBSET (1..m) -> T] /\ \A X \in SUBSET (1..m) : f[X] = Step(f, X)
           Exists(m) == \E f : Fold(f, m)
           S == {m \in Nat : m <= n => Exists(m)}
<1>1. 0 \in S
  <2>1. \A X \in SUBSET (1..0) : X = {}
    OBVIOUS
  <2>2. Fold([X \in SUBSET (1..0) |-> base], 0)
    BY <2>1, Zenon
  <2> QED BY <2>2
<1>2. ASSUME NEW m \in Nat, m \in S PROVE m + 1 \in S
  <2> HIDE DEF Exists
  <2> SUFFICES ASSUME m + 1 <= n PROVE Exists(m + 1)
    OBVIOUS
  <2>0. Exists(m)
    BY <1>2
  <2>1. PICK f : Fold(f, m)
    BY <2>0 DEF Exists
  <2> DEFINE g == [X \in SUBSET (1..(m + 1)) |-> Step(f, X)]
  <2>2. \A X \in SUBSET (1..(m + 1)) : X # {} =>
          Max(X) \in 1..n /\ X \ {Max(X)} \in SUBSET (1..m)
    <3>1. 1..(m + 1) \subseteq 1..n
      OBVIOUS
    <3> QED BY <3>1, BeforeMax
  <2>3. \A X \in SUBSET (1..m) : X \in SUBSET (1..(m + 1))
    OBVIOUS
  <2>4. \A X \in SUBSET (1..m) : g[X] = f[X]
    BY <2>1, <2>3, Zenon
  <2>5. \A X \in SUBSET (1..(m + 1)) : Step(f, X) \in T
    <3> TAKE X \in SUBSET (1..(m + 1))
    <3>1. CASE X = {}
      BY <3>1
    <3>2. CASE X # {}
      <4>1. f[X \ {Max(X)}] \in T /\ Max(X) \in 1..n
        BY <2>1, <2>2, <3>2
      <4> QED BY <3>2, <4>1
    <3> QED BY <3>1, <3>2
  <2>6. \A X \in SUBSET (1..(m + 1)) : Step(g, X) = Step(f, X)
    <3> TAKE X \in SUBSET (1..(m + 1))
    <3>1. CASE X = {}
      BY <3>1
    <3>2. CASE X # {}
      <4>1. g[X \ {Max(X)}] = f[X \ {Max(X)}]
        BY <2>2, <2>4, <3>2
      <4> HIDE DEF g
      <4> QED BY <3>2, <4>1
    <3> QED BY <3>1, <3>2
  <2>7. g \in [SUBSET (1..(m + 1)) -> T] /\ \A X \in SUBSET (1..(m + 1)) : g[X] = Step(f, X)
    <3> HIDE DEF Step
    <3> QED BY <2>5, Zenon
  <2>8. Fold(g, m + 1)
    <3> HIDE DEF Step, g
    <3> QED BY <2>6, <2>7
  <2> QED BY <2>8 DEF Exists
<1>3. n \in S
  <2> HIDE DEF S
  <2> QED BY <1>1, <1>2, Induction
<1>4. Exists(n)
  <2> HIDE DEF Exists
  <2> QED BY <1>3
<1> QED BY <1>4, Zenon DEF IsFold

\* What holds of the empty fold and stays so from step to step holds of all.
LEMMA FoldInduction ==
  ASSUME NEW T, NEW n \in Nat, NEW f, f[{}] \in T,
         \A X \in SUBSET (1..n) : X # {} /\ f[X \ {Max(X)}] \in T => f[X] \in T
  PROVE  \A X \in SUBSET (1..n) : f[X] \in T
<1> DEFINE S == {m \in Nat : m <= n => \A X \in SUBSET (1..m) : f[X] \in T}
<1>1. 0 \in S
  <2>1. \A X \in SUBSET (1..0) : X = {}
    OBVIOUS
  <2> QED BY <2>1
<1>2. ASSUME NEW m \in Nat, m \in S PROVE m + 1 \in S
  <2> SUFFICES ASSUME m + 1 <= n, NEW X \in SUBSET (1..(m + 1)), X # {} PROVE f[X] \in T
    <3>1. m + 1 \in Nat
      OBVIOUS
    <3> QED BY <3>1, Zenon
  <2>1. X \in SUBSET (1..n)
    OBVIOUS
  <2>2. X \ {Max(X)} \in SUBSET (1..m)
    BY BeforeMax
  <2>3. f[X \ {Max(X)}] \in T
    BY <1>2, <2>2
  <2> QED BY <2>1, <2>3
<1>3. n \in S
  <2> HIDE DEF S
  <2> QED BY <1>1, <1>2, Induction
<1> QED BY <1>3

LEMMA DigitIsInt == \A ch \in Digits : Digit(ch) \in Int
<1> SUFFICES ASSUME NEW ch \in Digits PROVE Digit(ch) \in Int
  OBVIOUS
<1>1. PICK k \in 1..10 : ch = Numerals[k]
  BY DEF Digits
<1>2. k - 1 \in 0..9 /\ Numerals[(k - 1) + 1] = ch
  BY <1>1
<1>3. \E n \in 0..9 : Numerals[n + 1] = ch
  BY <1>2
<1>4. Digit(ch) \in 0..9
  BY <1>3, Zenon DEF Digit
<1> QED BY <1>4

\* The folds of a text: its digits as a number, its digits and points, and
\* texts joined by commas.
LEMMA WholeIsInt ==
  ASSUME NEW S, NEW t \in Seq(S)
  PROVE  Whole(t) \in Int
<1>1. PICK n \in Nat : DOMAIN t = 1..n
  OBVIOUS
<1> DEFINE op(a, i) == IF t[i] \in Digits THEN 10 * a + Digit(t[i]) ELSE a
           Step(f, X) == IF X = {} THEN 0 ELSE op(f[X \ {Max(X)}], Max(X))
           Fold == CHOOSE f : f = [X \in SUBSET (1..n) |-> Step(f, X)]
<1>2. \A a \in Int, i \in 1..n : op(a, i) \in Int
  BY DigitIsInt
<1>3. \E f : f = [X \in SUBSET (1..n) |-> Step(f, X)]
  <2>1. PICK E \in [Int \X (1..n) -> Int] : \A a \in Int, i \in 1..n : E[<<a, i>>] = op(a, i)
    <3> DEFINE F == [p \in Int \X (1..n) |-> op(p[1], p[2])]
    <3>1. F \in [Int \X (1..n) -> Int] /\ \A a \in Int, i \in 1..n : F[<<a, i>>] = op(a, i)
      BY <1>2
    <3> HIDE DEF F
    <3> QED BY <3>1
  <2> HIDE DEF op
  <2>2. PICK f : IsFold(f, Int, 0, E, n)
    <3> DEFINE zero == 0
    <3>1. zero \in Int
      OBVIOUS
    <3>2. \E f : IsFold(f, Int, zero, E, n)
      <4> HIDE DEF zero
      <4> QED BY <3>1, FoldExists
    <3> QED BY <3>2
  <2>3. \A X \in SUBSET (1..n) : X # {} => f[X \ {Max(X)}] \in Int /\ Max(X) \in 1..n
    BY <2>2, MaxInside DEF IsFold
  <2>4. \A X \in SUBSET (1..n) : f[X] = Step(f, X)
    BY <2>1, <2>2, <2>3 DEF IsFold
  <2>5. f = [X \in SUBSET (1..n) |-> Step(f, X)]
    <3> HIDE DEF Step
    <3> QED BY <2>2, <2>4 DEF IsFold
  <2> QED BY <2>5
<1>4. Fold = [X \in SUBSET (1..n) |-> Step(Fold, X)]
  <2> HIDE DEF Step
  <2> QED BY <1>3
<1>5. \A X \in SUBSET (1..n) : Fold[X] = Step(Fold, X)
  <2> HIDE DEF Step, Fold
  <2> QED BY <1>4
<1>6. \A X \in SUBSET (1..n) : Fold[X] \in Int
  <2> HIDE DEF Fold, op
  <2>1. Fold[{}] \in Int
    <3>1. Fold[{}] = 0
      BY <1>5, Zenon
    <3> QED BY <3>1
  <2>2. ASSUME NEW X \in SUBSET (1..n), X # {}, Fold[X \ {Max(X)}] \in Int PROVE Fold[X] \in Int
    <3>1. Fold[X] = op(Fold[X \ {Max(X)}], Max(X))
      BY <1>5, <2>2, Zenon
    <3>2. Max(X) \in 1..n
      BY <2>2, MaxInside
    <3> QED BY <1>2, <2>2, <3>1, <3>2
  <2> HIDE DEF Step
  <2> QED BY <1>1, <2>1, <2>2, FoldInduction
<1>7. Whole(t) = Fold[1..n]
  BY <1>1, Zenon DEF Whole, FoldLeft, MapThenFoldSet
<1> QED BY <1>6, <1>7

LEMMA FiguresAreText ==
  ASSUME NEW S, NEW t \in Seq(S)
  PROVE  Figures(t) \in Seq(S)
<1>1. PICK n \in Nat : DOMAIN t = 1..n
  OBVIOUS
<1> DEFINE op(a, i) == IF t[i] \in Digits \cup {"."} THEN Append(a, t[i]) ELSE a
           Step(f, X) == IF X = {} THEN <<>> ELSE op(f[X \ {Max(X)}], Max(X))
           Fold == CHOOSE f : f = [X \in SUBSET (1..n) |-> Step(f, X)]
<1>2. \A a \in Seq(S), i \in 1..n : op(a, i) \in Seq(S)
  <2> TAKE a \in Seq(S), i \in 1..n
  <2>1. t[i] \in S
    BY <1>1
  <2>2. Append(a, t[i]) \in Seq(S)
    BY <2>1, AppendProperties
  <2> QED BY <2>2, Zenon
<1>3. \E f : f = [X \in SUBSET (1..n) |-> Step(f, X)]
  <2>1. PICK E \in [Seq(S) \X (1..n) -> Seq(S)] : \A a \in Seq(S), i \in 1..n : E[<<a, i>>] = op(a, i)
    <3> DEFINE F == [p \in Seq(S) \X (1..n) |-> op(p[1], p[2])]
    <3>1. F \in [Seq(S) \X (1..n) -> Seq(S)] /\ \A a \in Seq(S), i \in 1..n : F[<<a, i>>] = op(a, i)
      BY <1>2
    <3> HIDE DEF F
    <3> QED BY <3>1
  <2> HIDE DEF op
  <2>2. PICK f : IsFold(f, Seq(S), <<>>, E, n)
    <3> DEFINE none == <<>>
    <3>1. none \in Seq(S)
      OBVIOUS
    <3>2. \E f : IsFold(f, Seq(S), none, E, n)
      <4> HIDE DEF none
      <4> QED BY <3>1, FoldExists
    <3> QED BY <3>2
  <2>3. \A X \in SUBSET (1..n) : X # {} => f[X \ {Max(X)}] \in Seq(S) /\ Max(X) \in 1..n
    BY <2>2, MaxInside DEF IsFold
  <2>4. \A X \in SUBSET (1..n) : f[X] = Step(f, X)
    BY <2>1, <2>2, <2>3 DEF IsFold
  <2>5. f = [X \in SUBSET (1..n) |-> Step(f, X)]
    <3> HIDE DEF Step
    <3> QED BY <2>2, <2>4 DEF IsFold
  <2> QED BY <2>5
<1>4. Fold = [X \in SUBSET (1..n) |-> Step(Fold, X)]
  <2> HIDE DEF Step
  <2> QED BY <1>3
<1>5. \A X \in SUBSET (1..n) : Fold[X] = Step(Fold, X)
  <2> HIDE DEF Step, Fold
  <2> QED BY <1>4
<1>6. \A X \in SUBSET (1..n) : Fold[X] \in Seq(S)
  <2> HIDE DEF Fold, op
  <2>1. Fold[{}] \in Seq(S)
    <3>1. Fold[{}] = <<>>
      BY <1>5, Zenon
    <3> QED BY <3>1
  <2>2. ASSUME NEW X \in SUBSET (1..n), X # {}, Fold[X \ {Max(X)}] \in Seq(S) PROVE Fold[X] \in Seq(S)
    <3>1. Fold[X] = op(Fold[X \ {Max(X)}], Max(X))
      BY <1>5, <2>2, Zenon
    <3>2. Max(X) \in 1..n
      BY <2>2, MaxInside
    <3> QED BY <1>2, <2>2, <3>1, <3>2
  <2> HIDE DEF Step
  <2> QED BY <1>1, <2>1, <2>2, FoldInduction
<1>7. Figures(t) = Fold[1..n]
  BY <1>1, Zenon DEF Figures, FoldLeft, MapThenFoldSet
<1> QED BY <1>6, <1>7

LEMMA JoinedIsText ==
  ASSUME NEW ts \in Seq(Text)
  PROVE  Joined(ts) \in Text
<1>1. PICK n \in Nat : DOMAIN ts = 1..n
  OBVIOUS
<1> DEFINE op(a, i) == IF a = <<>> THEN ts[i] ELSE a \o <<",">> \o ts[i]
           Step(f, X) == IF X = {} THEN <<>> ELSE op(f[X \ {Max(X)}], Max(X))
           Fold == CHOOSE f : f = [X \in SUBSET (1..n) |-> Step(f, X)]
<1>2. \A a \in Text, i \in 1..n : op(a, i) \in Text
  <2>1. "," \in Char
    BY Assumptions
  <2> TAKE a \in Text, i \in 1..n
  <2>2. ts[i] \in Text
    BY <1>1
  <2>3. <<",">> \in Text
    <3>1. \A ch \in Char : <<ch>> \in Seq(Char)
      OBVIOUS
    <3> QED BY <2>1, <3>1, Zenon DEF Text
  <2>4. a \o <<",">> \o ts[i] \in Text
    <3> DEFINE comma == <<",">>
    <3> HIDE DEF comma
    <3>1. \A u, v \in Text : u \o v \in Text
      BY ConcatProperties DEF Text
    <3>2. a \o comma \in Text
      BY <2>3, <3>1 DEF comma
    <3>3. (a \o comma) \o ts[i] \in Text
      BY <2>2, <3>1, <3>2
    <3> QED BY <3>3 DEF comma
  <2> QED BY <2>2, <2>4, Zenon
<1>3. \E f : f = [X \in SUBSET (1..n) |-> Step(f, X)]
  <2>1. PICK E \in [Text \X (1..n) -> Text] : \A a \in Text, i \in 1..n : E[<<a, i>>] = op(a, i)
    <3> DEFINE F == [p \in Text \X (1..n) |-> op(p[1], p[2])]
    <3>1. F \in [Text \X (1..n) -> Text] /\ \A a \in Text, i \in 1..n : F[<<a, i>>] = op(a, i)
      BY <1>2
    <3> HIDE DEF F
    <3> QED BY <3>1
  <2> HIDE DEF op
  <2>2. PICK f : IsFold(f, Text, <<>>, E, n)
    <3> DEFINE none == <<>>
    <3>1. none \in Text
      BY DEF Text
    <3>2. \E f : IsFold(f, Text, none, E, n)
      <4> HIDE DEF none
      <4> QED BY <3>1, FoldExists
    <3> QED BY <3>2
  <2>3. \A X \in SUBSET (1..n) : X # {} => f[X \ {Max(X)}] \in Text /\ Max(X) \in 1..n
    BY <2>2, MaxInside DEF IsFold
  <2>4. \A X \in SUBSET (1..n) : f[X] = Step(f, X)
    BY <2>1, <2>2, <2>3 DEF IsFold
  <2>5. f = [X \in SUBSET (1..n) |-> Step(f, X)]
    <3> HIDE DEF Step
    <3> QED BY <2>2, <2>4 DEF IsFold
  <2> QED BY <2>5
<1>4. Fold = [X \in SUBSET (1..n) |-> Step(Fold, X)]
  <2> HIDE DEF Step
  <2> QED BY <1>3
<1>5. \A X \in SUBSET (1..n) : Fold[X] = Step(Fold, X)
  <2> HIDE DEF Step, Fold
  <2> QED BY <1>4
<1>6. \A X \in SUBSET (1..n) : Fold[X] \in Text
  <2> HIDE DEF Fold, op
  <2>1. Fold[{}] \in Text
    <3>1. Fold[{}] = <<>>
      BY <1>5, Zenon
    <3> QED BY <3>1 DEF Text
  <2>2. ASSUME NEW X \in SUBSET (1..n), X # {}, Fold[X \ {Max(X)}] \in Text PROVE Fold[X] \in Text
    <3>1. Fold[X] = op(Fold[X \ {Max(X)}], Max(X))
      BY <1>5, <2>2, Zenon
    <3>2. Max(X) \in 1..n
      BY <2>2, MaxInside
    <3> QED BY <1>2, <2>2, <3>1, <3>2
  <2> HIDE DEF Step
  <2> QED BY <1>1, <2>1, <2>2, FoldInduction
<1>7. Joined(ts) = Fold[1..n]
  BY <1>1, Zenon DEF Joined, FoldLeft, MapThenFoldSet
<1> QED BY <1>6, <1>7

(* ------------------------------ the type --------------------------------- *)

Word == Text \cup {<<"valueTitle">>}
Entry == [array : {FALSE}, parts : Seq(Word)] \cup [array : {TRUE}, parts : Seq(Text)]

LEMMA EntryFields ==
  ASSUME NEW e \in Entry
  PROVE  /\ e = [array |-> e.array, parts |-> e.parts] /\ e.array \in BOOLEAN /\ e.parts \in Seq(Word)
         /\ e.array => e.parts \in Seq(Text)
<1>1. \A p \in Seq(Text) : p \in Seq(Word)
  BY DEF Word
<1> QED BY <1>1 DEF Entry

LEMMA StrIsEntry == \A w \in Word : Str(w) \in Entry
BY DEF Str, Entry

LEMMA TitleIsEntry == Title \in Entry
<1>1. <<"valueTitle">> \in Word
  BY DEF Word
<1> QED BY <1>1, StrIsEntry DEF Title

LEMMA EmptyIsWord == <<>> \in Text /\ <<>> \in Word
BY DEF Word, Text

LEMMA ColumnAssumption ==
  ASSUME NEW c \in Column
  PROVE  /\ TypeOf[c] \in Type /\ c # None
         /\ \A cell \in Cells[c] : cell \in Seq(Text) /\ cell # <<>> /\ 1 \in DOMAIN cell
         /\ \A t \in Typed[c] : t \in Text
<1>1. Cells[c] \subseteq Seq(Text) \ {<<>>} /\ Typed[c] \subseteq Text
  BY Assumptions
<1>2. \A cell \in Seq(Text) \ {<<>>} : 1 \in DOMAIN cell
  OBVIOUS
<1> QED BY <1>1, <1>2, Assumptions

LEMMA OptionsAreEntries ==
  ASSUME NEW c \in Column, NEW cond
  PROVE  Options(c, cond) \subseteq Entry
<1> SUFFICES ASSUME NEW o \in Options(c, cond) PROVE o \in Entry
  OBVIOUS
<1>1. \A cell \in Cells[c] : \A i \in DOMAIN cell : cell[i] \in Word
  BY ColumnAssumption DEF Word
<1>2. \A cell \in Cells[c] : cell \in Seq(Text)
  BY ColumnAssumption
<1>3. CASE \E cell \in Cells[c] : o = Arr(cell)
  BY <1>2, <1>3 DEF Arr, Entry
<1>4. CASE \E cell \in Cells[c] : \E i \in DOMAIN cell : o = Str(cell[i])
  BY <1>1, <1>4, StrIsEntry
<1> QED BY <1>3, <1>4, ColumnAssumption DEF Options

LEMMA SeqOfFunction ==
  ASSUME NEW S, NEW n \in Nat, NEW f \in [1..n -> S]
  PROVE  f \in Seq(S)
OBVIOUS

LEMMA OneOfSeq ==
  ASSUME NEW S
  PROVE  \A x \in S : <<x>> \in Seq(S)
OBVIOUS

LEMMA FunctionOfSeq ==
  ASSUME NEW S, NEW q \in Seq(S)
  PROVE  \E n \in Nat : DOMAIN q = 1..n /\ q = [i \in 1..n |-> q[i]] /\ \A i \in 1..n : q[i] \in S
<1>1. PICK n \in Nat : q \in [1..n -> S]
  BY SeqDef
<1> QED BY <1>1

LEMMA LocalisedIsWord == \A w \in Word : Localised(w) \in Word
<1> SUFFICES ASSUME NEW w \in Word PROVE Localised(w) \in Word
  OBVIOUS
<1>1. "." \in Char /\ "," \in Char
  BY Assumptions
<1>2. CASE w \in Text
  <2>1. PICK n \in Nat : DOMAIN w = 1..n /\ \A i \in 1..n : w[i] \in Char
    BY <1>2 DEF Text
  <2>2. Localised(w) \in [1..n -> Char]
    BY <1>1, <2>1, Zenon DEF Localised
  <2> QED BY <2>2, SeqOfFunction DEF Word, Text
<1>3. CASE w = <<"valueTitle">>
  <2>1. DOMAIN w = 1..1 /\ 1 \in Nat /\ w \in [1..1 -> {"valueTitle"}]
    BY <1>3
  <2>0. \A i \in 1..1 : i = 1
    OBVIOUS
  <2>2. Localised(w) \in [1..1 -> {".", ",", w[1]}]
    BY <2>0, <2>1, Zenon DEF Localised
  <2>3. CASE Localised(w)[1] = w[1]
    <3> DEFINE loc == Localised(w)
    <3> HIDE DEF loc
    <3>1. loc = [i \in 1..1 |-> loc[i]] /\ w = [i \in 1..1 |-> w[i]]
      BY <2>1, <2>2, Zenon DEF loc
    <3>2. \A i \in 1..1 : loc[i] = w[i]
      BY <2>0, <2>3, Zenon DEF loc
    <3>3. loc = w
      BY <3>1, <3>2, Zenon
    <3> QED BY <3>3 DEF loc
  <2>4. CASE Localised(w)[1] \in {".", ","}
    <3>2. Localised(w) \in [1..1 -> Char]
      BY <1>1, <2>0, <2>2, <2>4
    <3> QED BY <2>1, <3>2, SeqOfFunction DEF Word, Text
  <2>5. 1 \in 1..1
    OBVIOUS
  <2> QED BY <2>2, <2>3, <2>4, <2>5
<1> QED BY <1>2, <1>3 DEF Word

LEMMA LocalEntryIsEntry == \A type : \A e \in Entry : LocalEntry(type, e) \in Entry
<1> SUFFICES ASSUME NEW type, NEW e \in Entry PROVE LocalEntry(type, e) \in Entry
  OBVIOUS
<1>1. PICK n \in Nat : DOMAIN e.parts = 1..n /\ \A i \in 1..n : e.parts[i] \in Word
  <2>1. e.parts \in Seq(Word)
    BY EntryFields
  <2> QED BY <2>1
<1> DEFINE parts == [i \in DOMAIN e.parts |-> Localised(e.parts[i])]
<1>2. parts \in [1..n -> Word]
  BY <1>1, LocalisedIsWord
<1>3. parts \in Seq(Word)
  BY <1>2, SeqOfFunction
<1>4. ~e.array => [e EXCEPT !.parts = parts] \in Entry
  <2> HIDE DEF parts
  <2>1. [e EXCEPT !.parts = parts] = [array |-> e.array, parts |-> parts]
    BY EntryFields
  <2> QED BY <1>3, <2>1, EntryFields DEF Entry
<1> QED BY <1>4, Zenon DEF LocalEntry

LEMMA LocalValueType ==
  ASSUME NEW type, NEW v \in Seq(Entry)
  PROVE  LocalValue(type, v) \in Seq(Entry) /\ DOMAIN LocalValue(type, v) = DOMAIN v
<1>1. PICK n \in Nat : DOMAIN v = 1..n /\ \A i \in 1..n : v[i] \in Entry
  OBVIOUS
<1>2. LocalValue(type, v) \in [1..n -> Entry] /\ DOMAIN LocalValue(type, v) = DOMAIN v
  BY <1>1, LocalEntryIsEntry DEF LocalValue
<1> QED BY <1>2, SeqOfFunction

(* --------------------- what the elements show and keep -------------------- *)

\* Each condition of a column has an element, "two" only where values are
\* ordered, none only where there is no value.
LEMMA ElementIs ==
  ASSUME NEW c \in Column, NEW cond \in ConditionsOf(c)
  PROVE  /\ cond \in Condition /\ cond # None
         /\ ElementOf(c, cond) \in {"select", "input", "two", "nothing"}
         /\ ElementOf(c, cond) = "nothing" <=> cond \in NoValue
         /\ ElementOf(c, cond) = "two" =>
              cond \in {"between", "!between"} /\ TypeOf[c] \in {"num", "num-fmt", "date", "moment", "luxon"}
         /\ TypeOf[c] = "array" /\ ElementOf(c, cond) = "select" => cond \in {"=", "!=", "contains", "without"}
<1>1. TypeOf[c] \in Type
  BY ColumnAssumption
<1>2. CASE TypeOf[c] \in {"num", "num-fmt"}
  BY <1>2, Assumptions DEF ConditionsOf, ElementOf, ElementsOf, Numeric, NumElements, Elements, NoValue, Condition
<1>3. CASE TypeOf[c] \in {"date", "moment", "luxon"}
  BY <1>3, Assumptions DEF ConditionsOf, ElementOf, ElementsOf, Numeric, DateElements, Elements, NoValue, Condition
<1>4. CASE TypeOf[c] = "string"
  BY <1>4, Assumptions DEF ConditionsOf, ElementOf, ElementsOf, Numeric, StringElements, Elements, NoValue, Condition
<1>5. CASE TypeOf[c] = "array"
  BY <1>5, Assumptions DEF ConditionsOf, ElementOf, ElementsOf, Numeric, ArrayElements, Elements, NoValue, Condition
<1> QED BY <1>1, <1>2, <1>3, <1>4, <1>5 DEF Type

LEMMA ShowingType ==
  ASSUME NEW c \in Column, NEW cond \in ConditionsOf(c), NEW v \in Seq(Entry)
  PROVE  /\ Showing(c, cond, v) \in Seq(Entry)
         /\ Len(Showing(c, cond, v)) = Len(Showing(c, cond, <<>>))
<1> DEFINE text(u, i) == IF i \in DOMAIN u THEN u[i] ELSE Str(<<>>)
           same(u) == {o \in Options(c, cond) : u # <<>> /\ AsText(o) = AsText(u[1])}
           option(u) == IF same(u) = {} THEN Title ELSE CHOOSE o \in same(u) : TRUE
<1>1. \A u \in Seq(Entry), i \in {1, 2} : text(u, i) \in Entry
  BY EmptyIsWord, StrIsEntry
<1>2. \A u \in Seq(Entry) : option(u) \in Entry
  BY OptionsAreEntries, TitleIsEntry
<1>3. <<>> \in Seq(Entry)
  OBVIOUS
<1> HIDE DEF text, option
<1>4. CASE ElementOf(c, cond) = "select"
  <2>1. Showing(c, cond, v) = <<option(v)>> /\ Showing(c, cond, <<>>) = <<option(<<>>)>>
    BY <1>4, Zenon DEF Showing, option
  <2>2. option(v) \in Entry
    BY <1>2
  <2> QED BY <2>1, <2>2
<1>5. CASE ElementOf(c, cond) = "input"
  <2>1. Showing(c, cond, v) = <<text(v, 1)>> /\ Showing(c, cond, <<>>) = <<text(<<>>, 1)>>
    BY <1>5, Zenon DEF Showing, text
  <2>2. text(v, 1) \in Entry /\ text(v, 2) \in Entry
    BY <1>1
  <2> QED BY <2>1, <2>2
<1>6. CASE ElementOf(c, cond) = "two"
  <2>1. Showing(c, cond, v) = <<text(v, 1), text(v, 2)>> /\ Showing(c, cond, <<>>) = <<text(<<>>, 1), text(<<>>, 2)>>
    BY <1>6, Zenon DEF Showing, text
  <2>2. text(v, 1) \in Entry /\ text(v, 2) \in Entry
    BY <1>1
  <2> QED BY <2>1, <2>2
<1>7. CASE ElementOf(c, cond) = "nothing"
  <2>1. \A u : Showing(c, cond, u) = <<>>
    BY <1>7 DEF Showing
  <2> QED BY <1>3, <2>1
<1> QED BY <1>4, <1>5, <1>6, <1>7, ElementIs

State == [data : Column \cup {None}, cond : Condition \cup {None}, value : Seq(Entry), filled : BOOLEAN]

\* The invariant of the type: what the criterion keeps goes with its elements.
TypeInv ==
  /\ s \in State /\ ui \in [contents : Seq(Entry), heard : BOOLEAN]
  /\ late \in BOOLEAN /\ format \in Column \cup {None}
  /\ s.cond # None => /\ s.data \in Column /\ s.cond \in ConditionsOf(s.data)
                      /\ Len(ui.contents) = Len(Showing(s.data, s.cond, <<>>))
  /\ s.cond = None => s.value = <<>> /\ ui.contents = <<>> /\ ~s.filled
  /\ s.data # None => hidden \subseteq Cells[s.data]
  /\ ~s.filled => hidden = {}

LEMMA SavedType ==
  ASSUME NEW k \in State
  PROVE  /\ Saved(k) \in State /\ Saved(k).data = k.data /\ Saved(k).cond = k.cond
         /\ Saved(k).filled = k.filled /\ (k.value = <<>> => Saved(k).value = <<>>)
         /\ k.data # None => Saved(k).value = LocalValue(TypeOf[k.data], k.value)
<1>1. CASE k.data = None
  BY <1>1 DEF Saved
<1>2. CASE k.data # None
  <2> DEFINE v == LocalValue(TypeOf[k.data], k.value)
  <2>1. v \in Seq(Entry) /\ DOMAIN v = DOMAIN k.value
    BY LocalValueType DEF State
  <2>2. k.value = <<>> => v = <<>>
    BY <2>1
  <2>3. Saved(k) = [k EXCEPT !.value = v]
    BY <1>2, Zenon DEF Saved
  <2> HIDE DEF v
  <2>4. /\ Saved(k) \in State /\ Saved(k).data = k.data /\ Saved(k).cond = k.cond
        /\ Saved(k).filled = k.filled /\ Saved(k).value = v
    BY <2>1, <2>3 DEF State
  <2> QED BY <2>2, <2>4 DEF v
<1> QED BY <1>1, <1>2

LEMMA HiddenType ==
  ASSUME NEW k \in State
  PROVE  /\ k.data # None => Hidden(k) \subseteq Cells[k.data]
         /\ ~k.filled => Hidden(k) = {}
BY DEF Hidden, Through, State

LEMMA ValidType == \A c, cond, contents : Valid(c, cond, contents) \in BOOLEAN
BY DEF Valid, ValidSelect, ValidInput

LEMMA ReadType ==
  ASSUME NEW c, NEW cond, NEW contents \in Seq(Entry)
  PROVE  ReadValue(c, cond, contents) \in Seq(Entry)
<1>1. Undefined \in Entry
  BY DEF Undefined, Entry
<1> QED BY <1>1 DEF ReadValue

LEMMA KeptType ==
  ASSUME NEW c, NEW cond, NEW v \in Seq(Entry)
  PROVE  Kept(c, cond, v) \in Seq(Entry)
<1>1. CASE v # <<>> /\ v[1].array
  <2>1. v[1] \in Entry
    BY <1>1
  <2>2. Joined(v[1].parts) \in Word
    BY <1>1, <2>1, JoinedIsText DEF Word, Entry
  <2>3. Str(Joined(v[1].parts)) \in Entry
    BY <2>2, StrIsEntry
  <2>4. <<Str(Joined(v[1].parts))>> \in Seq(Entry)
    BY <2>3
  <2> QED BY <2>4, Zenon DEF Kept
<1>2. CASE ~(v # <<>> /\ v[1].array)
  BY <1>2 DEF Kept
<1> QED BY <1>1, <1>2

\* A draw leaves the criterion typed, and hides cells of its column only.
LEMMA DrawType ==
  ASSUME NEW k \in State, Draw(k)
  PROVE  /\ s' = Saved(k) /\ hidden' = Hidden(k)
         /\ s' \in State /\ s'.data = k.data /\ s'.cond = k.cond /\ s'.filled = k.filled
         /\ k.value = <<>> => s'.value = <<>>
         /\ s'.data # None => hidden' \subseteq Cells[s'.data]
         /\ ~s'.filled => hidden' = {}
BY SavedType, HiddenType DEF Draw

LEMMA FormatType ==
  ASSUME TypeInv, NEW c \in Column
  PROVE  Format(c) \in Column \cup {None}
BY DEF Format, TypeInv

\* The text fields that no user typed in are empty, and there are as many as
\* the condition has.
LEMMA NoContents ==
  /\ <<>> \in Seq(Entry) /\ NoElements \in [contents : Seq(Entry), heard : BOOLEAN]
  /\ NoElements.contents = <<>>
BY DEF NoElements

LEMMA ChooseDataType ==
  ASSUME TypeInv, NEW c \in Column, ChooseData(c)
  PROVE  TypeInv'
<1> DEFINE k == [data |-> c, cond |-> None, value |-> <<>>, filled |-> FALSE]
<1>1. k \in State /\ k.data = c /\ k.cond = None /\ k.value = <<>> /\ k.filled = FALSE
  BY DEF State
<1>2. /\ format' = Format(c) /\ ui' = NoElements /\ late' = late
      /\ IF s.filled THEN Draw(k) ELSE s' = Saved(k) /\ hidden' = hidden
  BY Zenon DEF ChooseData
<1> HIDE DEF k
<1>3. /\ s' \in State /\ s'.data = c /\ s'.cond = None /\ s'.value = <<>> /\ s'.filled = FALSE
  BY <1>1, <1>2, DrawType, SavedType
<1>4. hidden' = {}
  <2>1. CASE s.filled
    BY <1>1, <1>2, <2>1, DrawType
  <2>2. CASE ~s.filled
    BY <1>2, <2>2 DEF TypeInv
  <2> QED BY <2>1, <2>2
<1>5. format' \in Column \cup {None}
  BY <1>2, FormatType
<1>6. late' \in BOOLEAN
  BY <1>2 DEF TypeInv
<1> QED BY <1>2, <1>3, <1>4, <1>5, <1>6, NoContents DEF TypeInv

LEMMA ChooseConditionType ==
  ASSUME TypeInv, NEW cond \in ConditionsOf(s.data), ChooseCondition(cond)
  PROVE  TypeInv'
<1> DEFINE filled == cond \in NoValue
           k == [s EXCEPT !.cond = cond, !.value = <<>>, !.filled = filled]
<1>1. s.data \in Column /\ s \in State /\ s.data # None
  BY DEF TypeInv, State, ChooseCondition
<1>2. cond \in Condition /\ cond # None
  BY <1>1, ElementIs
<1>3. /\ format' = format /\ ui' = NewElements(s.data, cond, <<>>) /\ late' = late
      /\ Draw(k)
  BY Zenon DEF ChooseCondition
<1>0. filled \in BOOLEAN /\ <<>> \in Seq(Entry)
  OBVIOUS
<1> HIDE DEF filled
<1>4. k \in State /\ k.data = s.data /\ k.cond = cond
  BY <1>0, <1>1, <1>2 DEF State
<1> HIDE DEF k
<1>5. /\ s' \in State /\ s'.data = s.data /\ s'.cond = cond /\ hidden' = Hidden(k)
      /\ s'.data # None => hidden' \subseteq Cells[s'.data]
      /\ ~s'.filled => hidden' = {}
  BY <1>3, <1>4, DrawType
<1>6. Showing(s.data, cond, <<>>) \in Seq(Entry)
  BY <1>1, NoContents, ShowingType
<1>7. ui' \in [contents : Seq(Entry), heard : BOOLEAN] /\ ui'.contents = Showing(s.data, cond, <<>>)
  BY <1>3, <1>6 DEF NewElements
<1>8. late' \in BOOLEAN /\ format' \in Column \cup {None}
  BY <1>3 DEF TypeInv
<1> QED BY <1>1, <1>2, <1>5, <1>7, <1>8 DEF TypeInv

\* What a listener leaves: the same column and condition, a typed value, and
\* nothing hidden if the criterion is not complete.
LEMMA ListenerType ==
  ASSUME TypeInv, NEW contents \in Seq(Entry), Listener(contents),
         s.cond # None => Len(contents) = Len(Showing(s.data, s.cond, <<>>))
  PROVE  /\ s' \in State /\ s'.data = s.data /\ s'.cond = s.cond
         /\ s'.cond = None => s'.value = <<>> /\ ~s'.filled
         /\ s'.data # None => hidden' \subseteq Cells[s'.data]
         /\ ~s'.filled => hidden' = {}
<1>1. CASE s.cond = None
  <2>1. s' = s /\ hidden' = hidden
    BY <1>1 DEF Listener
  <2> QED BY <1>1, <2>1 DEF TypeInv
<1>2. CASE s.cond # None
  <2> DEFINE valid == Valid(s.data, s.cond, contents)
             value == LocalValue(TypeOf[s.data], ReadValue(s.data, s.cond, contents))
             read == [s EXCEPT !.filled = valid, !.value = value]
  <2>1. valid \in BOOLEAN /\ value \in Seq(Entry)
    BY ValidType, ReadType, LocalValueType
  <2>2. IF s.cond \in NoValue THEN s' = read /\ hidden' = hidden ELSE Draw(read)
    BY <1>2, Zenon DEF Listener
  <2>3. s.cond \in NoValue => valid
    <3> SUFFICES ASSUME s.cond \in NoValue PROVE valid
      OBVIOUS
    <3>1. s.data \in Column /\ s.cond \in ConditionsOf(s.data)
      BY <1>2 DEF TypeInv
    <3>2. ElementOf(s.data, s.cond) = "nothing"
      BY <3>1, ElementIs
    <3>3. Showing(s.data, s.cond, <<>>) = <<>>
      BY <3>2 DEF Showing
    <3>4. Len(contents) = 0
      BY <1>2, <3>3
    <3>5. DOMAIN contents = {}
      BY <3>4
    <3> QED BY <3>2, <3>5 DEF Valid, ValidInput
  <2> HIDE DEF valid, value
  <2>4. /\ read \in State /\ read.data = s.data /\ read.cond = s.cond /\ read.filled = valid
        /\ s.data # None => hidden \subseteq Cells[s.data]
    BY <2>1 DEF State, TypeInv
  <2> HIDE DEF read
  <2>5. CASE s.cond \in NoValue
    BY <1>2, <2>2, <2>3, <2>4, <2>5
  <2>6. CASE s.cond \notin NoValue
    BY <1>2, <2>2, <2>4, <2>6, DrawType
  <2> QED BY <2>5, <2>6
<1> QED BY <1>1, <1>2

\* What the user can put into the elements is a value of their length.
LEMMA EntriesType ==
  ASSUME TypeInv, s.cond # None, NEW contents \in Entries
  PROVE  contents \in Seq(Entry) /\ Len(contents) = Len(Showing(s.data, s.cond, <<>>))
<1>1. s.data \in Column /\ s.cond \in ConditionsOf(s.data)
  BY DEF TypeInv
<1>2. \A x \in {Str(t) : t \in Typed[s.data]} : x \in Entry
  BY <1>1, ColumnAssumption, StrIsEntry DEF Word
<1>3. \A o \in Options(s.data, s.cond) \cup {Title} : o \in Entry
  BY <1>1, OptionsAreEntries, TitleIsEntry
<1>4. CASE ElementOf(s.data, s.cond) = "select"
  <2>1. PICK o \in Options(s.data, s.cond) \cup {Title} : contents = <<o>>
    BY <1>4, Zenon DEF Entries
  <2>2. \E x : Showing(s.data, s.cond, <<>>) = <<x>>
    BY <1>4, Zenon DEF Showing
  <2> QED BY <1>3, <2>1, <2>2
<1>5. CASE ElementOf(s.data, s.cond) = "input"
  <2>1. PICK u \in {Str(t) : t \in Typed[s.data]} : contents = <<u>>
    BY <1>5, Zenon DEF Entries
  <2>2. \E x : Showing(s.data, s.cond, <<>>) = <<x>>
    BY <1>5, Zenon DEF Showing
  <2> QED BY <1>2, <2>1, <2>2
<1>6. CASE ElementOf(s.data, s.cond) = "two"
  <2> DEFINE text == {Str(t) : t \in Typed[s.data]}
  <2>1. contents \in text \X text
    BY <1>6, Zenon DEF Entries
  <2>2. \E x, y : Showing(s.data, s.cond, <<>>) = <<x, y>>
    BY <1>6, Zenon DEF Showing
  <2> HIDE DEF text
  <2>3. PICK x, y \in text : contents = <<x, y>>
    BY <2>1
  <2>4. x \in Entry /\ y \in Entry
    BY <1>2 DEF text
  <2> QED BY <2>2, <2>3, <2>4
<1>7. CASE ElementOf(s.data, s.cond) = "nothing"
  BY <1>7 DEF Entries
<1> QED BY <1>1, <1>4, <1>5, <1>6, <1>7, ElementIs

LEMMA EnterType ==
  ASSUME TypeInv, NEW contents \in Entries, Enter(contents)
  PROVE  TypeInv'
<1>1. s.cond # None /\ s.data \in Column /\ s.cond \in ConditionsOf(s.data)
  BY DEF TypeInv, Enter
<1>2. contents \in Seq(Entry) /\ Len(contents) = Len(Showing(s.data, s.cond, <<>>))
  BY <1>1, EntriesType
<1>3. ui' = [ui EXCEPT !.contents = contents] /\ format' = format
  BY DEF Enter
<1>4. ui' \in [contents : Seq(Entry), heard : BOOLEAN] /\ ui'.contents = contents
  BY <1>2, <1>3 DEF TypeInv
<1>5. late' \in BOOLEAN /\ format' \in Column \cup {None}
  BY <1>3 DEF Enter, TypeInv
<1>6. /\ s' \in State /\ s'.data = s.data /\ s'.cond = s.cond
      /\ s'.data # None => hidden' \subseteq Cells[s'.data]
      /\ ~s'.filled => hidden' = {}
  <2>1. CASE UNCHANGED <<s, hidden>>
    BY <2>1 DEF TypeInv
  <2>2. CASE Listener(contents)
    BY <1>2, <2>2, ListenerType
  <2> QED BY <2>1, <2>2 DEF Enter
<1> QED BY <1>1, <1>2, <1>4, <1>5, <1>6 DEF TypeInv

LEMMA LateCallType ==
  ASSUME TypeInv, LateCall
  PROVE  TypeInv'
<1>1. /\ ui.contents \in Seq(Entry)
      /\ s.cond # None => Len(ui.contents) = Len(Showing(s.data, s.cond, <<>>))
  BY DEF TypeInv
<1>2. /\ s' \in State /\ s'.data = s.data /\ s'.cond = s.cond
      /\ s'.cond = None => s'.value = <<>> /\ ~s'.filled
      /\ s'.data # None => hidden' \subseteq Cells[s'.data]
      /\ ~s'.filled => hidden' = {}
  BY <1>1, ListenerType DEF LateCall
<1>3. late' = FALSE /\ format' = format /\ ui' = ui
  BY DEF LateCall
<1> QED BY <1>2, <1>3 DEF TypeInv

LEMMA SiblingAddedType ==
  ASSUME TypeInv, SiblingAdded
  PROVE  TypeInv'
<1>1. /\ s' \in State /\ s'.data = s.data /\ s'.cond = s.cond /\ s'.filled = s.filled
      /\ s.value = <<>> => s'.value = <<>>
  BY SavedType DEF TypeInv, SiblingAdded
<1>2. /\ format' = format /\ late' = late /\ hidden' = hidden
      /\ ui' \in [contents : Seq(Entry), heard : BOOLEAN] /\ ui'.contents = ui.contents
  BY DEF TypeInv, SiblingAdded
<1> QED BY <1>1, <1>2 DEF TypeInv

LEMMA OtherDrawType ==
  ASSUME TypeInv, OtherDraw
  PROVE  TypeInv'
<1>1. format' = format /\ ui' = ui /\ late' = late /\ Draw(s) /\ s \in State
  BY DEF OtherDraw, TypeInv
<1>2. /\ s' \in State /\ s'.data = s.data /\ s'.cond = s.cond /\ s'.filled = s.filled
      /\ s.value = <<>> => s'.value = <<>>
      /\ s'.data # None => hidden' \subseteq Cells[s'.data]
      /\ ~s'.filled => hidden' = {}
  BY <1>1, DrawType
<1> QED BY <1>1, <1>2 DEF TypeInv

LEMMA RebuiltType ==
  ASSUME NEW k \in State
  PROVE  /\ Rebuilt(k) \in State /\ Rebuilt(k).data = k.data /\ Rebuilt(k).cond = k.cond
         /\ Rebuilt(k).filled = Valid(k.data, k.cond, Showing(k.data, k.cond, Saved(k).value))
         /\ Rebuilt(k).value = Kept(k.data, k.cond, Saved(k).value)
<1> DEFINE loaded == Saved(k)
           valid == Valid(k.data, k.cond, Showing(k.data, k.cond, loaded.value))
           value == Kept(k.data, k.cond, loaded.value)
<1>1. loaded \in State /\ loaded.data = k.data /\ loaded.cond = k.cond
  BY SavedType
<1>2. valid \in BOOLEAN
  BY ValidType
<1>3. value \in Seq(Entry)
  BY <1>1, KeptType DEF State
<1>4. Rebuilt(k) = [loaded EXCEPT !.filled = valid, !.value = value]
  BY Zenon DEF Rebuilt
<1> HIDE DEF loaded, valid, value
<1>5. /\ Rebuilt(k) \in State /\ Rebuilt(k).data = k.data /\ Rebuilt(k).cond = k.cond
      /\ Rebuilt(k).filled = valid /\ Rebuilt(k).value = value
  BY <1>1, <1>2, <1>3, <1>4 DEF State
<1> QED BY <1>5 DEF loaded, valid, value

LEMMA RedrawnType ==
  ASSUME TypeInv, Redrawn
  PROVE  TypeInv'
<1>1. format' = format /\ late' = late
  BY DEF Redrawn
<1>2. CASE s.cond = None
  <2>1. s' = Saved(s) /\ ui' = [ui EXCEPT !.heard = FALSE] /\ hidden' = hidden
    BY <1>2 DEF Redrawn
  <2>2. /\ s' \in State /\ s'.data = s.data /\ s'.cond = s.cond /\ s'.filled = s.filled
        /\ s.value = <<>> => s'.value = <<>>
    BY <2>1, SavedType DEF TypeInv
  <2>3. ui' \in [contents : Seq(Entry), heard : BOOLEAN] /\ ui'.contents = ui.contents
    BY <2>1 DEF TypeInv
  <2> QED BY <1>1, <2>1, <2>2, <2>3 DEF TypeInv
<1>3. CASE s.cond # None
  <2> DEFINE k == Rebuilt(s)
             value == Saved(s).value
  <2>1. /\ ui' = NewElements(s.data, s.cond, value)
        /\ IF k.filled # s.filled THEN s' = Saved(Saved(k)) /\ hidden' = Hidden(k)
           ELSE s' = Saved(k) /\ hidden' = hidden
    BY <1>3 DEF Redrawn
  <2>2. s \in State /\ s.data \in Column /\ s.cond \in ConditionsOf(s.data)
    BY <1>3 DEF TypeInv
  <2>3. k \in State /\ k.data = s.data /\ k.cond = s.cond
    BY <2>2, RebuiltType
  <2>4. value \in Seq(Entry)
    BY <2>2, SavedType DEF State
  <2> HIDE DEF k, value
  <2>5. /\ Showing(s.data, s.cond, value) \in Seq(Entry)
        /\ Len(Showing(s.data, s.cond, value)) = Len(Showing(s.data, s.cond, <<>>))
    BY <2>2, <2>4, ShowingType
  <2>6. /\ ui' \in [contents : Seq(Entry), heard : BOOLEAN]
        /\ Len(ui'.contents) = Len(Showing(s.data, s.cond, <<>>))
    <3>1. ui' = [contents |-> Showing(s.data, s.cond, value), heard |-> TRUE]
      BY <2>1 DEF NewElements
    <3> QED BY <2>5, <3>1
  <2>7. CASE k.filled # s.filled
    <3>1. Saved(k) \in State /\ Saved(k).data = s.data /\ Saved(k).cond = s.cond /\ Saved(k).filled = k.filled
      BY <2>3, SavedType
    <3>2. s' \in State /\ s'.data = s.data /\ s'.cond = s.cond /\ s'.filled = k.filled
      BY <2>1, <2>7, <3>1, SavedType
    <3>3. hidden' \subseteq Cells[s.data] /\ (~k.filled => hidden' = {})
      <4>1. k.data # None
        BY <2>2, <2>3, ColumnAssumption
      <4> QED BY <2>1, <2>3, <2>7, <4>1, HiddenType
    <3> QED BY <1>1, <1>3, <2>2, <2>6, <3>2, <3>3 DEF TypeInv
  <2>8. CASE k.filled = s.filled
    <3>1. s' = Saved(k) /\ hidden' = hidden
      BY <2>1, <2>8
    <3>2. s' \in State /\ s'.data = s.data /\ s'.cond = s.cond /\ s'.filled = s.filled
      BY <2>3, <2>8, <3>1, SavedType
    <3> QED BY <1>1, <1>3, <2>2, <2>6, <3>1, <3>2 DEF TypeInv
  <2> QED BY <2>7, <2>8
<1> QED BY <1>2, <1>3

LEMMA TypeInvInit == Init => TypeInv
<1> SUFFICES ASSUME Init PROVE TypeInv
  OBVIOUS
<1>1. s \in State /\ s.data = None /\ s.cond = None /\ s.value = <<>> /\ s.filled = FALSE
  BY DEF Init, State
<1> QED BY <1>1, NoContents DEF Init, TypeInv

LEMMA TypeInvStep == TypeInv /\ [Next]_vars => TypeInv'
<1> SUFFICES ASSUME TypeInv, [Next]_vars PROVE TypeInv'
  OBVIOUS
<1>1. ASSUME NEW c \in Column, ChooseData(c) PROVE TypeInv'
  BY <1>1, ChooseDataType
<1>2. ASSUME NEW cond \in ConditionsOf(s.data), ChooseCondition(cond) PROVE TypeInv'
  BY <1>2, ChooseConditionType
<1>3. ASSUME NEW contents \in Entries, Enter(contents) PROVE TypeInv'
  BY <1>3, EnterType
<1>4. CASE UNCHANGED vars
  BY <1>4 DEF TypeInv, vars
<1> QED BY <1>1, <1>2, <1>3, <1>4, LateCallType, SiblingAddedType, RedrawnType, OtherDrawType DEF Next

\* The condition is always one of the column's, with as many elements as it
\* asks for and a value of texts, and only cells of the column are hidden: for
\* any table, any separators and any conditions taken out.
THEOREM TypeCorrect == Spec => []TypeOK
<1>1. TypeInv => TypeOK
  <2> SUFFICES ASSUME TypeInv PROVE TypeOK
    OBVIOUS
  <2>1. s.data \in Column \cup {None} /\ s.filled \in BOOLEAN /\ s.value \in Seq(Entry)
    BY DEF TypeInv, State
  <2>2. \A i \in DOMAIN s.value : IsEntry(s.value[i])
    <3> SUFFICES ASSUME NEW i \in DOMAIN s.value PROVE IsEntry(s.value[i])
      OBVIOUS
    <3>1. s.value[i].array \in BOOLEAN /\ s.value[i].parts \in Seq(Word)
      BY <2>1, EntryFields
    <3>2. Title.parts[1] = <<"valueTitle">>
      BY DEF Title, Str
    <3> QED BY <3>1, <3>2 DEF IsEntry, Word
  <2>3. s.cond # None => s.data # None
    BY ColumnAssumption DEF TypeInv
  <2> QED BY <2>1, <2>2, <2>3 DEF TypeOK, TypeInv
<1> QED BY TypeInvInit, TypeInvStep, <1>1, PTL DEF Spec

(* ------------------------- the search it does ---------------------------- *)

\* Numbers are written the way DataTables' own language writes them, which the
\* conversion of the separators leaves alone.
DefaultSeparators ==
  (\E c \in Column : Numeric(TypeOf[c])) => sDecimal \in {None, "."} /\ sThousands \in {None, ","}

\* The arrays of a column are searched in, and never compared as a whole.
NoWholeArrays == \A c \in Column : TypeOf[c] = "array" => ConditionsOf(c) \cap {"=", "!="} = {}

\* Where whole arrays are compared: a redraw turns the array into its text.
WholeArray == s.cond # None /\ TypeOf[s.data] = "array" /\ s.cond \in {"=", "!="}

\* A value that the elements of a condition can have: one option or the title,
\* by its text, or as many texts as there are inputs.
Fits(c, cond, v) ==
  CASE ElementOf(c, cond) = "select" ->
         \E e \in {Str(w) : w \in Word} \cup Options(c, cond) :
           v = <<e>> /\ \E o \in Options(c, cond) \cup {Title} : AsText(e) = AsText(o)
    [] ElementOf(c, cond) = "input" -> \E t \in Text : v = <<Str(t)>>
    [] ElementOf(c, cond) = "two" -> \E t, u \in Text : v = <<Str(t), Str(u)>>
    [] OTHER -> TRUE

\* What the criterion searches for is a value of its elements, complete when
\* new elements that showed it would be.
SearchInv ==
  /\ s.cond # None /\ s.cond \notin NoValue =>
       /\ Fits(s.data, s.cond, ui.contents)
       /\ IF s.value = <<>> THEN s.filled => s.cond = "!="
          ELSE /\ Fits(s.data, s.cond, s.value)
               /\ s.filled = Valid(s.data, s.cond, Showing(s.data, s.cond, s.value))
  /\ s.cond \in NoValue => s.filled
  /\ WholeArray \/ HiddenIsCurrent
  /\ HeardIsSearched

LEMMA WordIsSeq == \A w \in Word : w \in Seq(Char \cup {"valueTitle"})
<1> DEFINE T == Char \cup {"valueTitle"}
<1> SUFFICES ASSUME NEW w \in Word PROVE w \in Seq(T)
  OBVIOUS
<1>1. CASE w \in Text
  <2>1. PICK n \in Nat : DOMAIN w = 1..n /\ w = [i \in 1..n |-> w[i]] /\ \A i \in 1..n : w[i] \in Char
    BY <1>1, FunctionOfSeq DEF Text
  <2>2. w \in [1..n -> T]
    BY <2>1
  <2> HIDE DEF T
  <2> QED BY <2>2, SeqOfFunction
<1>2. CASE w = <<"valueTitle">>
  <2>1. "valueTitle" \in T
    OBVIOUS
  <2>2. \A ch \in T : <<ch>> \in Seq(T)
    BY OneOfSeq, Zenon
  <2> HIDE DEF T
  <2> QED BY <1>2, <2>1, <2>2, Zenon
<1> QED BY <1>1, <1>2 DEF Word

LEMMA LocalisedSame ==
  ASSUME sDecimal \in {None, "."}, sThousands \in {None, ","}, NEW w \in Word
  PROVE  Localised(w) = w
<1>1. PICK n \in Nat : w = [i \in 1..n |-> w[i]] /\ \A i \in 1..n : w[i] \in Char \cup {"valueTitle"}
  <2> DEFINE T == Char \cup {"valueTitle"}
  <2>1. w \in Seq(T)
    BY WordIsSeq
  <2> HIDE DEF T
  <2>2. PICK n \in Nat : DOMAIN w = 1..n /\ w = [i \in 1..n |-> w[i]] /\ \A i \in 1..n : w[i] \in T
    BY <2>1, FunctionOfSeq
  <2> QED BY <2>2 DEF T
<1>2. None \notin Char \cup {"valueTitle"}
  BY Assumptions
<1>3. DOMAIN w = 1..n
  BY <1>1
<1>4. \A i \in 1..n : (w[i] = sDecimal => w[i] = ".") /\ (w[i] = sThousands => w[i] = ",")
  BY <1>1, <1>2
<1>5. Localised(w) = [i \in 1..n |-> w[i]]
  BY <1>3, <1>4, Zenon DEF Localised
<1> QED BY <1>1, <1>5

LEMMA LocalEntrySame ==
  ASSUME DefaultSeparators, NEW c \in Column, NEW e \in Entry
  PROVE  LocalEntry(TypeOf[c], e) = e
<1>1. CASE ~(Numeric(TypeOf[c]) /\ ~e.array)
  BY <1>1, Zenon DEF LocalEntry
<1>2. CASE Numeric(TypeOf[c]) /\ ~e.array
  <2>1. sDecimal \in {None, "."} /\ sThousands \in {None, ","}
    BY <1>2 DEF DefaultSeparators
  <2>2. PICK n \in Nat : e.parts = [i \in 1..n |-> e.parts[i]] /\ \A i \in 1..n : e.parts[i] \in Word
    <3>1. e.parts \in Seq(Word)
      BY EntryFields
    <3> QED BY <3>1, FunctionOfSeq
  <2>3. \A i \in 1..n : Localised(e.parts[i]) = e.parts[i]
    BY <2>1, <2>2, LocalisedSame
  <2>4. DOMAIN e.parts = 1..n
    BY <2>2
  <2>5. [i \in DOMAIN e.parts |-> Localised(e.parts[i])] = e.parts
    BY <2>2, <2>3, <2>4, Zenon
  <2>6. LocalEntry(TypeOf[c], e) = [e EXCEPT !.parts = e.parts]
    BY <1>2, <2>5, Zenon DEF LocalEntry
  <2> QED BY <2>6, EntryFields
<1> QED BY <1>1, <1>2

LEMMA LocalValueSame ==
  ASSUME DefaultSeparators, NEW c \in Column, NEW v \in Seq(Entry)
  PROVE  LocalValue(TypeOf[c], v) = v
<1>1. PICK n \in Nat : v = [i \in 1..n |-> v[i]] /\ DOMAIN v = 1..n /\ \A i \in 1..n : v[i] \in Entry
  OBVIOUS
<1>2. \A i \in 1..n : LocalEntry(TypeOf[c], v[i]) = v[i]
  BY <1>1, LocalEntrySame
<1>3. LocalValue(TypeOf[c], v) = [i \in 1..n |-> v[i]]
  BY <1>1, <1>2, Zenon DEF LocalValue
<1> QED BY <1>1, <1>3

\* Saving the state leaves the criterion what it was.
LEMMA SavedSame ==
  ASSUME DefaultSeparators, NEW k \in State
  PROVE  Saved(k) = k
<1>1. CASE k.data = None
  BY <1>1 DEF Saved
<1>2. CASE k.data # None
  <2>1. LocalValue(TypeOf[k.data], k.value) = k.value
    BY <1>2, LocalValueSame DEF State
  <2>2. Saved(k) = [k EXCEPT !.value = k.value]
    BY <1>2, <2>1, Zenon DEF Saved
  <2> QED BY <2>2 DEF State
<1> QED BY <1>1, <1>2

LEMMA TitleText == AsText(Title) = <<"valueTitle">> /\ <<"valueTitle">> \notin Text
<1>1. AsText(Title) = <<"valueTitle">>
  BY DEF AsText, Title, Str
<1>2. "valueTitle" \notin Char
  BY Assumptions
<1>3. \A x : <<x>> \in Seq(Char) => x \in Char
  OBVIOUS
<1> QED BY <1>1, <1>2, <1>3, Zenon DEF Text

\* An option is a text of the table, or an array where whole arrays are
\* compared, and never the title.
LEMMA OptionIs ==
  ASSUME NEW c \in Column, NEW cond, NEW o \in Options(c, cond)
  PROVE  /\ \/ \E t \in Text : o = Str(t)
            \/ o.array /\ TypeOf[c] = "array" /\ cond \in {"=", "!="}
         /\ AsText(o) \in Text /\ o # Title /\ o \in Entry
<1>1. \A cell \in Cells[c] : 1 \in DOMAIN cell /\ \A i \in DOMAIN cell : cell[i] \in Text
  BY ColumnAssumption
<1>2. o \in Entry
  BY OptionsAreEntries
<1>3. CASE \E t \in Text : o = Str(t)
  <2>1. PICK t \in Text : o = Str(t)
    BY <1>3
  <2>2. AsText(o) = t
    BY <2>1 DEF AsText, Str
  <2>3. t # <<"valueTitle">>
    BY TitleText
  <2> QED BY <1>2, <2>1, <2>2, <2>3 DEF Title, Str
<1>4. CASE \E cell \in Cells[c] : o = Arr(cell) /\ TypeOf[c] = "array" /\ cond \in {"=", "!="}
  <2>1. PICK cell \in Cells[c] : o = Arr(cell) /\ TypeOf[c] = "array" /\ cond \in {"=", "!="}
    BY <1>4
  <2>2. cell \in Seq(Text)
    BY ColumnAssumption
  <2>3. o.array /\ o.parts = cell
    BY <2>1 DEF Arr
  <2>4. AsText(o) \in Text
    BY <2>2, <2>3, JoinedIsText DEF AsText
  <2> QED BY <1>2, <2>1, <2>3, <2>4 DEF Title, Str
<1> QED BY <1>1, <1>3, <1>4, Zenon DEF Options

\* What a select shows for a value: an option with its text, or the title.
LEMMA SelectShows ==
  ASSUME NEW c \in Column, NEW cond, ElementOf(c, cond) = "select", NEW v
  PROVE  \E o \in Options(c, cond) \cup {Title} :
           /\ Showing(c, cond, v) = <<o>>
           /\ o = Title => v = <<>> \/ \A p \in Options(c, cond) : AsText(p) # AsText(v[1])
           /\ o # Title => v # <<>> /\ AsText(o) = AsText(v[1])
<1> DEFINE same == {o \in Options(c, cond) : v # <<>> /\ AsText(o) = AsText(v[1])}
           shown == IF same = {} THEN Title ELSE CHOOSE o \in same : TRUE
<1>1. Showing(c, cond, v) = <<shown>>
  BY Zenon DEF Showing
<1>2. CASE same = {}
  BY <1>1, <1>2, Zenon
<1>3. CASE same # {}
  <2>1. shown \in same
    BY <1>3
  <2> HIDE DEF shown
  <2>2. shown \in Options(c, cond) /\ v # <<>> /\ AsText(shown) = AsText(v[1])
    BY <2>1
  <2> QED BY <1>1, <2>2, OptionIs
<1> QED BY <1>2, <1>3

\* New elements show a value that fits as it is, which is as complete as it.
LEMMA ShowingFits ==
  ASSUME NEW c \in Column, NEW cond \in ConditionsOf(c), cond \notin NoValue, NEW v, Fits(c, cond, v)
  PROVE  /\ v # <<>> /\ v \in Seq(Entry) /\ Fits(c, cond, Showing(c, cond, v))
         /\ Valid(c, cond, Showing(c, cond, v)) = Valid(c, cond, v)
         /\ DOMAIN Showing(c, cond, v) = DOMAIN v
         /\ \A i \in DOMAIN v : AsText(v[i]) = AsText(Showing(c, cond, v)[i])
<1>1. CASE ElementOf(c, cond) = "select"
  <2>1. PICK e \in {Str(w) : w \in Word} \cup Options(c, cond) :
          v = <<e>> /\ \E p \in Options(c, cond) \cup {Title} : AsText(e) = AsText(p)
    BY <1>1, Zenon DEF Fits
  <2>2. PICK o \in Options(c, cond) \cup {Title} :
          /\ Showing(c, cond, v) = <<o>>
          /\ o = Title => v = <<>> \/ \A p \in Options(c, cond) : AsText(p) # AsText(v[1])
          /\ o # Title => v # <<>> /\ AsText(o) = AsText(v[1])
    BY <1>1, SelectShows
  <2>3. v # <<>> /\ v[1] = e /\ DOMAIN v = {1} /\ e \in Entry
    BY <2>1, StrIsEntry, OptionIs
  <2>4. AsText(o) = AsText(e)
    BY <2>1, <2>2, <2>3
  <2>5. o = Title <=> e = Title
    <3>1. CASE o = Title
      <4>1. AsText(e) = <<"valueTitle">>
        BY <2>4, <3>1, TitleText
      <4>2. PICK w \in Word : e = Str(w)
        BY <2>1, <2>4, <3>1, OptionIs, TitleText
      <4>3. AsText(e) = w
        BY <4>2 DEF AsText, Str
      <4> QED BY <3>1, <4>1, <4>2, <4>3 DEF Title
    <3>2. CASE e = Title /\ o # Title
      BY <2>2, <2>4, <3>2, OptionIs, TitleText
    <3> QED BY <3>1, <3>2
  <2>6. o \in {Str(w) : w \in Word} \cup Options(c, cond)
    <3>1. <<"valueTitle">> \in Word
      BY DEF Word
    <3> QED BY <3>1 DEF Title
  <2>7. Fits(c, cond, Showing(c, cond, v))
    BY <1>1, <2>2, <2>6, Zenon DEF Fits
  <2>8. Valid(c, cond, Showing(c, cond, v)) = Valid(c, cond, v)
    <3>1. <<o>>[1] = o
      OBVIOUS
    <3>2. ValidSelect(<<o>>) <=> ValidSelect(v)
      BY <2>3, <2>5, <3>1 DEF ValidSelect
    <3>3. ValidSelect(<<o>>) \in BOOLEAN /\ ValidSelect(v) \in BOOLEAN
      BY DEF ValidSelect
    <3> QED BY <1>1, <2>2, <3>2, <3>3, Zenon DEF Valid
  <2> QED BY <2>1, <2>2, <2>3, <2>4, <2>7, <2>8
<1>2. CASE ElementOf(c, cond) = "input"
  <2>1. PICK t \in Text : v = <<Str(t)>>
    BY <1>2, Zenon DEF Fits
  <2>2. Str(t) \in Entry
    BY StrIsEntry DEF Word
  <2>3. v # <<>> /\ DOMAIN v = {1} /\ v[1] = Str(t) /\ v \in Seq(Entry)
    BY <2>1, <2>2
  <2>4. Showing(c, cond, v) = v
    BY <1>2, <2>1, <2>3, Zenon DEF Showing
  <2> QED BY <2>3, <2>4
<1>3. CASE ElementOf(c, cond) = "two"
  <2>1. PICK t, u \in Text : v = <<Str(t), Str(u)>>
    BY <1>3, Zenon DEF Fits
  <2>2. Str(t) \in Entry /\ Str(u) \in Entry
    BY StrIsEntry DEF Word
  <2>3. v # <<>> /\ DOMAIN v = {1, 2} /\ v[1] = Str(t) /\ v[2] = Str(u) /\ v \in Seq(Entry)
    BY <2>1, <2>2
  <2>4. Showing(c, cond, v) = v
    BY <1>3, <2>1, <2>3, Zenon DEF Showing
  <2> QED BY <2>3, <2>4
<1> QED BY <1>1, <1>2, <1>3, ElementIs

\* Without a value they show the title or empty texts, complete for "!=" only.
LEMMA ShowingEmpty ==
  ASSUME NEW c \in Column, NEW cond \in ConditionsOf(c), cond \notin NoValue
  PROVE  /\ Fits(c, cond, Showing(c, cond, <<>>))
         /\ Valid(c, cond, Showing(c, cond, <<>>)) => cond = "!="
<1>1. CASE ElementOf(c, cond) = "select"
  <2>1. Showing(c, cond, <<>>) = <<Title>>
    BY <1>1, SelectShows
  <2>2. Title \in {Str(w) : w \in Word}
    <3>1. <<"valueTitle">> \in Word
      BY DEF Word
    <3> QED BY <3>1 DEF Title
  <2>3. Fits(c, cond, <<Title>>)
    BY <1>1, <2>2, Zenon DEF Fits
  <2>4. ~ValidSelect(<<Title>>)
    BY DEF ValidSelect
  <2> QED BY <1>1, <2>1, <2>3, <2>4, Zenon DEF Valid
<1>2. CASE ElementOf(c, cond) = "input"
  <2>1. Showing(c, cond, <<>>) = <<Str(<<>>)>>
    <3>1. DOMAIN <<>> = {}
      OBVIOUS
    <3> QED BY <1>2, <3>1, Zenon DEF Showing
  <2>2. Fits(c, cond, <<Str(<<>>)>>)
    BY <1>2, EmptyIsWord, Zenon DEF Fits
  <2>3. ~ValidInput(<<Str(<<>>)>>)
    BY DEF ValidInput
  <2> QED BY <1>2, <2>1, <2>2, <2>3, Zenon DEF Valid
<1>3. CASE ElementOf(c, cond) = "two"
  <2>1. Showing(c, cond, <<>>) = <<Str(<<>>), Str(<<>>)>>
    <3>1. DOMAIN <<>> = {}
      OBVIOUS
    <3> QED BY <1>3, <3>1, Zenon DEF Showing
  <2>2. Fits(c, cond, <<Str(<<>>), Str(<<>>)>>)
    BY <1>3, EmptyIsWord, Zenon DEF Fits
  <2>3. ~ValidInput(<<Str(<<>>), Str(<<>>)>>)
    BY DEF ValidInput
  <2> QED BY <1>3, <2>1, <2>2, <2>3, Zenon DEF Valid
<1> QED BY <1>1, <1>2, <1>3, ElementIs

\* What a redraw keeps of a value has the same text, and is the value itself
\* unless whole arrays are compared.
LEMMA KeptFits ==
  ASSUME NEW c \in Column, NEW cond \in ConditionsOf(c), cond \notin NoValue, NEW v, Fits(c, cond, v)
  PROVE  /\ Kept(c, cond, v) # <<>> /\ Fits(c, cond, Kept(c, cond, v))
         /\ Showing(c, cond, Kept(c, cond, v)) = Showing(c, cond, v)
         /\ DOMAIN Kept(c, cond, v) = DOMAIN v
         /\ \A i \in DOMAIN v : AsText(Kept(c, cond, v)[i]) = AsText(v[i])
         /\ ~(TypeOf[c] = "array" /\ cond \in {"=", "!="}) => Kept(c, cond, v) = v
<1>0. v # <<>> /\ v \in Seq(Entry)
  BY ShowingFits
<1>1. CASE ~(ElementOf(c, cond) = "select" /\ v[1].array)
  <2>1. Kept(c, cond, v) = v
    BY <1>1, Zenon DEF Kept
  <2> QED BY <1>0, <2>1
<1>2. CASE ElementOf(c, cond) = "select" /\ v[1].array
  <2>1. PICK e \in {Str(w) : w \in Word} \cup Options(c, cond) :
          v = <<e>> /\ \E p \in Options(c, cond) \cup {Title} : AsText(e) = AsText(p)
    BY <1>2, Zenon DEF Fits
  <2>2. v[1] = e /\ DOMAIN v = {1} /\ e.array
    BY <1>2, <2>1
  <2>3. e \in Options(c, cond) /\ ~(\E w \in Word : e = Str(w))
    BY <2>1, <2>2 DEF Str
  <2>4. TypeOf[c] = "array" /\ cond \in {"=", "!="} /\ AsText(e) \in Text
    BY <2>3, OptionIs DEF Word
  <2>5. AsText(e) = Joined(e.parts)
    BY <2>2 DEF AsText
  <2> DEFINE kept == Str(AsText(e))
  <2>6. Kept(c, cond, v) = <<kept>>
    BY <1>0, <1>2, <2>2, <2>5, Zenon DEF Kept
  <2>7. AsText(kept) = AsText(e) /\ kept \in {Str(w) : w \in Word}
    BY <2>4 DEF AsText, Str, Word
  <2> HIDE DEF kept
  <2>8. <<kept>> # <<>> /\ <<kept>>[1] = kept /\ DOMAIN <<kept>> = {1}
    OBVIOUS
  <2>9. Fits(c, cond, <<kept>>)
    BY <1>2, <2>1, <2>7, Zenon DEF Fits
  <2>10. Showing(c, cond, <<kept>>) = Showing(c, cond, v)
    <3> DEFINE A == {o \in Options(c, cond) : v # <<>> /\ AsText(o) = AsText(v[1])}
               B == {o \in Options(c, cond) : <<kept>> # <<>> /\ AsText(o) = AsText(<<kept>>[1])}
    <3>1. A = B
      BY <1>0, <2>2, <2>7, <2>8
    <3> DEFINE shown(S) == IF S = {} THEN Title ELSE CHOOSE o \in S : TRUE
    <3>2. Showing(c, cond, v) = <<shown(A)>>
      BY <1>2, Zenon DEF Showing
    <3>3. Showing(c, cond, <<kept>>) = <<shown(B)>>
      BY <1>2, Zenon DEF Showing
    <3> HIDE DEF A, B, shown
    <3> QED BY <3>1, <3>2, <3>3
  <2> QED BY <2>2, <2>4, <2>6, <2>7, <2>8, <2>9, <2>10
<1> QED BY <1>1, <1>2

LEMMA KeptEmpty == \A c, cond : Kept(c, cond, <<>>) = <<>>
BY DEF Kept

LEMMA LocalContents ==
  ASSUME DefaultSeparators, NEW c \in Column, NEW v \in Seq(Entry)
  PROVE  \A i \in DOMAIN v : LocalEntry(TypeOf[c], v[i]) = v[i]
BY LocalEntrySame

\* A value is looked at only by a complete criterion whose condition has one.
LEMMA HiddenOf ==
  ASSUME NEW k \in State, NEW m \in State, k.data = m.data, k.cond = m.cond, k.filled = m.filled,
         k.filled /\ k.cond \notin NoValue => k.value = m.value
  PROVE  Hidden(k) = Hidden(m)
<1>1. CASE ~k.filled
  BY <1>1, HiddenType
<1>2. CASE k.filled /\ k.cond \notin NoValue
  BY <1>2 DEF Hidden, Through
<1>3. CASE k.filled /\ k.cond \in NoValue
  <2>1. \A c, cell : Passes(c, k.cond, k.value, cell) = Passes(c, k.cond, m.value, cell)
    <3>1. \A c, v, cell : Passes(c, "null", v, cell) = Empty(c, cell)
      BY ZenonT(60) DEF Passes, NoValue
    <3>2. \A c, v, cell : Passes(c, "!null", v, cell) = ~Empty(c, cell)
      BY ZenonT(60) DEF Passes, NoValue
    <3> TAKE c, cell
    <3>3. CASE k.cond = "null"
      BY <3>1, <3>3
    <3>4. CASE k.cond = "!null"
      BY <3>2, <3>4
    <3> QED BY <1>3, <3>3, <3>4 DEF NoValue
  <2> QED BY <2>1 DEF Hidden, Through
<1> QED BY <1>1, <1>2, <1>3

LEMMA NoValueValid ==
  ASSUME NEW c \in Column, NEW cond \in ConditionsOf(c), cond \in NoValue
  PROVE  \A v : Showing(c, cond, v) = <<>> /\ Valid(c, cond, Showing(c, cond, v)) = TRUE
<1>1. ElementOf(c, cond) = "nothing"
  BY ElementIs
<1> TAKE v
<1>2. Showing(c, cond, v) = <<>>
  BY <1>1 DEF Showing
<1>3. DOMAIN <<>> = {}
  OBVIOUS
<1>4. ValidInput(<<>>) = TRUE
  BY <1>3, Zenon DEF ValidInput
<1>5. Valid(c, cond, <<>>) = ValidInput(<<>>)
  BY <1>1 DEF Valid
<1> QED BY <1>2, <1>4, <1>5

LEMMA TypeInvFacts ==
  ASSUME TypeInv
  PROVE  /\ s \in State /\ s.value \in Seq(Entry) /\ s.filled \in BOOLEAN /\ ui.contents \in Seq(Entry)
         /\ s.cond # None => s.data \in Column /\ s.data # None /\ s.cond \in ConditionsOf(s.data) /\ s.cond \in Condition
         /\ None \notin NoValue
<1>1. None \notin NoValue
  <2>1. NoValue \subseteq Condition
    BY DEF NoValue, Condition
  <2> QED BY <2>1, Assumptions
<1> QED BY <1>1, ColumnAssumption DEF TypeInv, State

LEMMA ChooseDataSearch ==
  ASSUME DefaultSeparators, TypeInv, SearchInv, NEW c \in Column, ChooseData(c)
  PROVE  SearchInv'
<1>1. TypeInv'
  BY ChooseDataType
<1>2. s'.cond = None /\ ~s'.filled
  <2> DEFINE k == [data |-> c, cond |-> None, value |-> <<>>, filled |-> FALSE]
  <2>1. k \in State /\ k.cond = None /\ ~k.filled
    BY DEF State
  <2>2. IF s.filled THEN Draw(k) ELSE s' = Saved(k) /\ hidden' = hidden
    BY Zenon DEF ChooseData
  <2> HIDE DEF k
  <2> QED BY <2>1, <2>2, DrawType, SavedType
<1>3. hidden' = {} /\ s' \in State
  BY <1>1, <1>2 DEF TypeInv
<1>4. hidden' = Hidden(s')
  BY <1>2, <1>3, HiddenType
<1> QED BY <1>2, <1>4, TypeInvFacts DEF SearchInv, HiddenIsCurrent, HeardIsSearched, SearchesWhatIsShown

LEMMA ChooseConditionSearch ==
  ASSUME DefaultSeparators, TypeInv, SearchInv, NEW cond \in ConditionsOf(s.data), ChooseCondition(cond)
  PROVE  SearchInv'
<1> DEFINE filled == cond \in NoValue
           k == [s EXCEPT !.cond = cond, !.value = <<>>, !.filled = filled]
<1>1. s.data \in Column /\ s \in State
  BY DEF TypeInv, State, ChooseCondition
<1>2. cond \in Condition /\ cond # None
  BY <1>1, ElementIs
<1>3. ui' = NewElements(s.data, cond, <<>>) /\ Draw(k)
  BY Zenon DEF ChooseCondition
<1>4. filled \in BOOLEAN /\ <<>> \in Seq(Entry)
  OBVIOUS
<1>5. k \in State /\ k.data = s.data /\ k.cond = cond /\ k.value = <<>> /\ k.filled = filled
  <2> HIDE DEF filled
  <2> QED BY <1>1, <1>2, <1>4 DEF State
<1>6. filled <=> cond \in NoValue
  OBVIOUS
<1> HIDE DEF k, filled
<1>7. s' = k /\ hidden' = Hidden(k)
  BY <1>3, <1>5, SavedSame DEF Draw
<1>8. ui'.contents = Showing(s.data, cond, <<>>)
  BY <1>3 DEF NewElements
<1>9. cond \notin NoValue => Fits(s.data, cond, ui'.contents) /\ ~s'.filled
  BY <1>1, <1>5, <1>6, <1>7, <1>8, ShowingEmpty
<1> QED BY <1>5, <1>6, <1>7, <1>9 DEF SearchInv, HiddenIsCurrent, HeardIsSearched, SearchesWhatIsShown

\* A listener searches for what it read.
LEMMA ListenerIs ==
  ASSUME DefaultSeparators, TypeInv, s.cond # None, NEW contents \in Seq(Entry), Listener(contents)
  PROVE  /\ s' \in State /\ s'.data = s.data /\ s'.cond = s.cond
         /\ s'.filled = Valid(s.data, s.cond, contents)
         /\ s.cond \notin NoValue => s'.value = contents
         /\ IF s.cond \in NoValue THEN hidden' = hidden ELSE hidden' = Hidden(s')
<1> DEFINE valid == Valid(s.data, s.cond, contents)
           value == LocalValue(TypeOf[s.data], ReadValue(s.data, s.cond, contents))
           read == [s EXCEPT !.filled = valid, !.value = value]
<1>1. valid \in BOOLEAN /\ value \in Seq(Entry)
  BY ValidType, ReadType, LocalValueType
<1>2. IF s.cond \in NoValue THEN s' = read /\ hidden' = hidden ELSE Draw(read)
  BY Zenon DEF Listener
<1>3. s.cond \notin NoValue => value = contents
  <2>1. s.cond \notin NoValue => ReadValue(s.data, s.cond, contents) = contents
    BY DEF ReadValue
  <2> QED BY <2>1, LocalValueSame, TypeInvFacts
<1> HIDE DEF valid, value
<1>4. /\ read \in State /\ read.data = s.data /\ read.cond = s.cond /\ read.filled = valid /\ read.value = value
  BY <1>1 DEF State, TypeInv
<1> HIDE DEF read
<1>5. Saved(read) = read
  BY <1>4, SavedSame
<1>6. s' = read /\ IF s.cond \in NoValue THEN hidden' = hidden ELSE hidden' = Hidden(read)
  BY <1>2, <1>5 DEF Draw
<1> QED BY <1>3, <1>4, <1>6 DEF valid

LEMMA ListenerSearch ==
  ASSUME DefaultSeparators, TypeInv, SearchInv, s.cond # None, NEW contents \in Seq(Entry), Listener(contents),
         Len(contents) = Len(Showing(s.data, s.cond, <<>>)),
         s.cond \notin NoValue => Fits(s.data, s.cond, contents),
         ui'.contents = contents
  PROVE  SearchInv'
<1>1. s \in State /\ s.data \in Column /\ s.cond \in ConditionsOf(s.data)
  BY TypeInvFacts
<1>2. /\ s' \in State /\ s'.data = s.data /\ s'.cond = s.cond
      /\ s'.filled = Valid(s.data, s.cond, contents)
      /\ s.cond \notin NoValue => s'.value = contents
      /\ IF s.cond \in NoValue THEN hidden' = hidden ELSE hidden' = Hidden(s')
  BY ListenerIs
<1>3. CASE s.cond \in NoValue
  <2>1. Showing(s.data, s.cond, <<>>) = <<>> /\ Valid(s.data, s.cond, <<>>) = TRUE
    BY <1>1, <1>3, NoValueValid
  <2>2. contents = <<>>
    BY <2>1
  <2>3. s'.filled = TRUE /\ s.filled = TRUE
    BY <1>2, <1>3, <2>1, <2>2, TypeInvFacts DEF SearchInv
  <2>4. hidden = Hidden(s)
    BY <1>3 DEF SearchInv, HiddenIsCurrent, WholeArray, NoValue
  <2>5. Hidden(s') = Hidden(s)
    BY <1>1, <1>2, <1>3, <2>3, HiddenOf
  <2>6. hidden' = Hidden(s')
    BY <1>2, <2>4, <2>5
  <2> QED BY <1>2, <1>3, <2>3, <2>6 DEF SearchInv, HiddenIsCurrent, HeardIsSearched, SearchesWhatIsShown
<1>4. CASE s.cond \notin NoValue
  <2>1. /\ contents # <<>>
        /\ Valid(s.data, s.cond, Showing(s.data, s.cond, contents)) = Valid(s.data, s.cond, contents)
    BY <1>1, <1>4, ShowingFits
  <2>2. \A i \in DOMAIN contents : LocalEntry(TypeOf[s.data], contents[i]) = contents[i]
    BY <1>1, LocalContents
  <2>3. hidden' = Hidden(s')
    BY <1>2, <1>4
  <2>4. /\ s'.filled = Valid(s'.data, s'.cond, contents)
        /\ s'.filled = Valid(s'.data, s'.cond, Showing(s'.data, s'.cond, s'.value))
        /\ s'.value = contents /\ Fits(s'.data, s'.cond, contents) /\ contents # <<>> /\ s'.cond \notin NoValue
    BY <1>2, <1>4, <2>1
  <2>5. HeardIsSearched'
    <3> SUFFICES /\ s'.filled => Valid(s'.data, s'.cond, ui'.contents)
                 /\ \A i \in DOMAIN ui'.contents :
                      AsText(s'.value[i]) = AsText(LocalEntry(TypeOf[s'.data], ui'.contents[i]))
      BY DEF HeardIsSearched, SearchesWhatIsShown
    <3> QED BY <1>2, <2>2, <2>4
  <2> QED BY <2>3, <2>4, <2>5 DEF SearchInv, HiddenIsCurrent
<1> QED BY <1>3, <1>4

\* What the user can enter fits the elements.
LEMMA EntriesFit ==
  ASSUME TypeInv, s.cond # None, NEW contents \in Entries
  PROVE  Fits(s.data, s.cond, contents)
<1>1. s.data \in Column /\ s.cond \in ConditionsOf(s.data)
  BY TypeInvFacts
<1>2. CASE ElementOf(s.data, s.cond) = "select"
  <2>1. PICK o \in Options(s.data, s.cond) \cup {Title} : contents = <<o>>
    BY <1>2, Zenon DEF Entries
  <2>2. Title \in {Str(w) : w \in Word}
    <3>1. <<"valueTitle">> \in Word
      BY DEF Word
    <3> QED BY <3>1 DEF Title
  <2> QED BY <1>2, <2>1, <2>2, Zenon DEF Fits
<1>3. CASE ElementOf(s.data, s.cond) = "input"
  <2>1. PICK x \in {Str(t) : t \in Typed[s.data]} : contents = <<x>>
    BY <1>3, Zenon DEF Entries
  <2>2. \E t \in Text : x = Str(t)
    BY <1>1, ColumnAssumption
  <2> QED BY <1>3, <2>1, <2>2, Zenon DEF Fits
<1>4. CASE ElementOf(s.data, s.cond) = "two"
  <2> DEFINE text == {Str(t) : t \in Typed[s.data]}
  <2>1. contents \in text \X text
    BY <1>4, Zenon DEF Entries
  <2>2. \A x \in text : \E t \in Text : x = Str(t)
    BY <1>1, ColumnAssumption
  <2> HIDE DEF text
  <2>3. PICK x, y \in text : contents = <<x, y>>
    BY <2>1
  <2>4. \E t, u \in Text : contents = <<Str(t), Str(u)>>
    BY <2>2, <2>3, Zenon
  <2> QED BY <1>4, <2>4, Zenon DEF Fits
<1>5. CASE ElementOf(s.data, s.cond) = "nothing"
  BY <1>5 DEF Fits
<1> QED BY <1>1, <1>2, <1>3, <1>4, <1>5, ElementIs

LEMMA EnterSearch ==
  ASSUME DefaultSeparators, TypeInv, SearchInv, NEW contents \in Entries, Enter(contents)
  PROVE  SearchInv'
<1>1. s.cond # None
  BY DEF Enter
<1>2. contents \in Seq(Entry) /\ Len(contents) = Len(Showing(s.data, s.cond, <<>>))
  BY <1>1, EntriesType
<1>3. Fits(s.data, s.cond, contents)
  BY <1>1, EntriesFit
<1>4. ui' = [ui EXCEPT !.contents = contents]
  BY DEF Enter
<1>5. ui'.contents = contents /\ ui'.heard = ui.heard
  BY <1>4 DEF TypeInv
<1>6. CASE Listener(contents)
  BY <1>1, <1>2, <1>3, <1>5, <1>6, ListenerSearch
<1>7. CASE ~Listener(contents)
  <2>1. s' = s /\ hidden' = hidden /\ (~ui'.heard \/ late')
    BY <1>5, <1>7 DEF Enter
  <2> QED BY <1>3, <1>5, <2>1 DEF SearchInv, HiddenIsCurrent, HeardIsSearched, SearchesWhatIsShown, WholeArray
<1> QED BY <1>6, <1>7

LEMMA LateCallSearch ==
  ASSUME DefaultSeparators, TypeInv, SearchInv, LateCall
  PROVE  SearchInv'
<1>1. Listener(ui.contents) /\ ui' = ui
  BY DEF LateCall
<1>2. CASE s.cond = None
  <2>1. s' = s /\ hidden' = hidden
    BY <1>1, <1>2 DEF Listener
  <2> QED BY <1>1, <1>2, <2>1 DEF SearchInv, HiddenIsCurrent, HeardIsSearched, SearchesWhatIsShown, WholeArray
<1>3. CASE s.cond # None
  <2>1. ui.contents \in Seq(Entry) /\ Len(ui.contents) = Len(Showing(s.data, s.cond, <<>>))
    BY <1>3 DEF TypeInv
  <2>2. s.cond \notin NoValue => Fits(s.data, s.cond, ui.contents)
    BY <1>3 DEF SearchInv
  <2> QED BY <1>1, <1>3, <2>1, <2>2, ListenerSearch
<1> QED BY <1>2, <1>3

LEMMA SiblingAddedSearch ==
  ASSUME DefaultSeparators, TypeInv, SearchInv, SiblingAdded
  PROVE  SearchInv'
<1>1. s' = s
  BY SavedSame, TypeInvFacts DEF SiblingAdded
<1>2. hidden' = hidden /\ ui' = [ui EXCEPT !.heard = FALSE]
  BY DEF SiblingAdded
<1>3. ui'.contents = ui.contents /\ ui'.heard = FALSE
  BY <1>2 DEF TypeInv
<1> QED BY <1>1, <1>2, <1>3 DEF SearchInv, HiddenIsCurrent, HeardIsSearched, SearchesWhatIsShown, WholeArray

LEMMA OtherDrawSearch ==
  ASSUME DefaultSeparators, TypeInv, SearchInv, OtherDraw
  PROVE  SearchInv'
<1>1. s' = s /\ hidden' = Hidden(s) /\ ui' = ui /\ late' = late
  BY SavedSame, TypeInvFacts DEF OtherDraw, Draw
<1> QED BY <1>1 DEF SearchInv, HiddenIsCurrent, HeardIsSearched, SearchesWhatIsShown, WholeArray

\* A redraw builds the criterion again, with new elements that show its value.
LEMMA RedrawnIs ==
  ASSUME DefaultSeparators, TypeInv, s.cond # None, Redrawn
  PROVE  /\ s' = Rebuilt(s) /\ late' = late
         /\ ui'.contents = Showing(s.data, s.cond, s.value)
         /\ IF Rebuilt(s).filled # s.filled THEN hidden' = Hidden(Rebuilt(s)) ELSE hidden' = hidden
<1> DEFINE k == Rebuilt(s)
<1>1. s \in State /\ Saved(s) = s
  BY SavedSame, TypeInvFacts
<1>2. k \in State
  BY <1>1, RebuiltType
<1>3. Saved(k) = k
  BY <1>2, SavedSame
<1>4. /\ ui' = NewElements(s.data, s.cond, s.value) /\ late' = late
      /\ IF k.filled # s.filled THEN s' = Saved(Saved(k)) /\ hidden' = Hidden(k)
         ELSE s' = Saved(k) /\ hidden' = hidden
  BY <1>1 DEF Redrawn
<1> HIDE DEF k
<1>5. s' = k /\ IF k.filled # s.filled THEN hidden' = Hidden(k) ELSE hidden' = hidden
  BY <1>3, <1>4
<1>6. ui'.contents = Showing(s.data, s.cond, s.value)
  BY <1>4 DEF NewElements
<1> QED BY <1>4, <1>5, <1>6 DEF k

\* What a criterion is after a redraw, and that it hides what it hid.
LEMMA RebuiltIs ==
  ASSUME DefaultSeparators, TypeInv, SearchInv, s.cond # None
  PROVE  /\ Rebuilt(s) \in State /\ Rebuilt(s).data = s.data /\ Rebuilt(s).cond = s.cond
         /\ s.cond \in NoValue => Rebuilt(s).filled = TRUE /\ s.filled = TRUE
         /\ s.cond \notin NoValue => Rebuilt(s).filled = Valid(s.data, s.cond, Showing(s.data, s.cond, s.value))
         /\ s.cond \notin NoValue /\ s.value = <<>> => Rebuilt(s).value = <<>>
         /\ s.cond \notin NoValue /\ s.value # <<>> =>
              /\ Rebuilt(s).value # <<>> /\ Fits(s.data, s.cond, Rebuilt(s).value)
              /\ Rebuilt(s).filled = s.filled
              /\ Showing(s.data, s.cond, Rebuilt(s).value) = Showing(s.data, s.cond, s.value)
              /\ \A i \in DOMAIN s.value : AsText(Rebuilt(s).value[i]) = AsText(s.value[i])
         /\ ~WholeArray => Hidden(Rebuilt(s)) = Hidden(s)
<1>1. s \in State /\ s.data \in Column /\ s.cond \in ConditionsOf(s.data) /\ s.filled \in BOOLEAN
  BY TypeInvFacts
<1>2. /\ Rebuilt(s) \in State /\ Rebuilt(s).data = s.data /\ Rebuilt(s).cond = s.cond
      /\ Rebuilt(s).filled = Valid(s.data, s.cond, Showing(s.data, s.cond, s.value))
      /\ Rebuilt(s).value = Kept(s.data, s.cond, s.value)
  BY <1>1, RebuiltType, SavedSame
<1>3. CASE s.cond \in NoValue
  <2>1. Rebuilt(s).filled = TRUE
    BY <1>1, <1>2, <1>3, NoValueValid
  <2>2. s.filled = TRUE
    BY <1>1, <1>3 DEF SearchInv
  <2>3. Hidden(Rebuilt(s)) = Hidden(s)
    BY <1>1, <1>2, <1>3, <2>1, <2>2, HiddenOf
  <2> QED BY <1>2, <1>3, <2>1, <2>2, <2>3
<1>4. CASE s.cond \notin NoValue /\ s.value = <<>>
  <2>1. Rebuilt(s).value = <<>>
    BY <1>2, <1>4, KeptEmpty
  <2>2. (s.filled => s.cond = "!=") /\ (Rebuilt(s).filled => s.cond = "!=")
    BY <1>1, <1>2, <1>4, ShowingEmpty DEF SearchInv
  <2>3. ASSUME NEW k \in State, k.data = s.data, k.cond = s.cond, k.value = <<>>, k.filled => s.cond = "!="
        PROVE  Hidden(k) = {}
    <3>1. CASE ~k.filled
      BY <3>1, HiddenType
    <3>2. CASE k.filled
      <4>1. \A c, cell : Passes(c, "!=", <<>>, cell) = TRUE
        BY Zenon DEF Passes, NoValue
      <4> QED BY <2>3, <3>2, <4>1 DEF Hidden, Through
    <3> QED BY <3>1, <3>2
  <2>4. Hidden(s) = {} /\ Hidden(Rebuilt(s)) = {}
    BY <1>1, <1>2, <1>4, <2>1, <2>2, <2>3
  <2> QED BY <1>2, <1>4, <2>1, <2>4
<1>5. CASE s.cond \notin NoValue /\ s.value # <<>>
  <2>1. /\ Fits(s.data, s.cond, s.value)
        /\ s.filled = Valid(s.data, s.cond, Showing(s.data, s.cond, s.value))
    BY <1>1, <1>5, TypeInvFacts DEF SearchInv
  <2>2. /\ Rebuilt(s).value # <<>> /\ Fits(s.data, s.cond, Rebuilt(s).value)
        /\ Showing(s.data, s.cond, Rebuilt(s).value) = Showing(s.data, s.cond, s.value)
        /\ \A i \in DOMAIN s.value : AsText(Rebuilt(s).value[i]) = AsText(s.value[i])
        /\ ~(TypeOf[s.data] = "array" /\ s.cond \in {"=", "!="}) => Rebuilt(s).value = s.value
    BY <1>1, <1>2, <1>5, <2>1, KeptFits
  <2>3. ~WholeArray => Rebuilt(s).value = s.value
    BY <2>2 DEF WholeArray
  <2>4. ~WholeArray => Hidden(Rebuilt(s)) = Hidden(s)
    BY <1>1, <1>2, <2>1, <2>3, HiddenOf
  <2> QED BY <1>2, <1>5, <2>1, <2>2, <2>4
<1> QED BY <1>3, <1>4, <1>5

LEMMA RedrawnSearch ==
  ASSUME DefaultSeparators, TypeInv, SearchInv, Redrawn
  PROVE  SearchInv'
<1>1. CASE s.cond = None
  <2>1. s' = s /\ ui' = [ui EXCEPT !.heard = FALSE] /\ hidden' = hidden
    BY <1>1, SavedSame, TypeInvFacts DEF Redrawn
  <2>2. ui'.heard = FALSE
    BY <2>1 DEF TypeInv
  <2> QED BY <1>1, <2>1, <2>2 DEF SearchInv, HiddenIsCurrent, HeardIsSearched, SearchesWhatIsShown, WholeArray
<1>2. CASE s.cond # None
  <2>1. /\ s' = Rebuilt(s)
        /\ ui'.contents = Showing(s.data, s.cond, s.value)
        /\ IF Rebuilt(s).filled # s.filled THEN hidden' = Hidden(Rebuilt(s)) ELSE hidden' = hidden
    BY <1>2, RedrawnIs
  <2>2. s.data \in Column /\ s.cond \in ConditionsOf(s.data) /\ s.value \in Seq(Entry)
    BY <1>2, TypeInvFacts
  <2>3. s'.data = s.data /\ s'.cond = s.cond /\ (s.cond \in NoValue => s'.filled)
    BY <1>2, <2>1, RebuiltIs
  <2>4. WholeArray' \/ HiddenIsCurrent'
    <3>1. ~WholeArray => Hidden(s') = Hidden(s) /\ hidden = Hidden(s)
      BY <1>2, <2>1, RebuiltIs DEF SearchInv, HiddenIsCurrent
    <3>2. ~WholeArray' => ~WholeArray
      BY <2>3 DEF WholeArray
    <3> QED BY <2>1, <3>1, <3>2 DEF HiddenIsCurrent
  <2>5. CASE s.cond \in NoValue
    BY <2>3, <2>4, <2>5 DEF SearchInv, HeardIsSearched, SearchesWhatIsShown
  <2>6. CASE s.cond \notin NoValue
    <3> DEFINE shown == Showing(s.data, s.cond, s.value)
    <3>1. shown \in Seq(Entry)
      BY <2>2, ShowingType
    <3>2. \A i \in DOMAIN shown : LocalEntry(TypeOf[s.data], shown[i]) = shown[i]
      BY <2>2, <3>1, LocalContents
    <3>3. s'.filled = Valid(s.data, s.cond, shown)
      BY <1>2, <2>1, <2>6, RebuiltIs
    <3>4. CASE s.value = <<>>
      <4>1. s'.value = <<>>
        BY <1>2, <2>1, <2>6, <3>4, RebuiltIs
      <4>2. Fits(s.data, s.cond, shown) /\ (Valid(s.data, s.cond, shown) => s.cond = "!=")
        BY <2>2, <2>6, <3>4, ShowingEmpty
      <4> HIDE DEF shown
      <4>3. ui'.contents = shown
        BY <2>1 DEF shown
      <4>4. HeardIsSearched'
        BY <2>3, <3>3, <4>1, <4>3 DEF HeardIsSearched, SearchesWhatIsShown
      <4> QED BY <2>3, <2>4, <2>6, <3>3, <4>1, <4>2, <4>3, <4>4 DEF SearchInv
    <3>5. CASE s.value # <<>>
      <4>1. /\ s'.value # <<>> /\ Fits(s.data, s.cond, s'.value)
            /\ Showing(s.data, s.cond, s'.value) = shown
            /\ \A i \in DOMAIN s.value : AsText(s'.value[i]) = AsText(s.value[i])
        BY <1>2, <2>1, <2>6, <3>5, RebuiltIs
      <4>2. Fits(s.data, s.cond, s.value)
        BY <1>2, <2>6, <3>5 DEF SearchInv
      <4>3. /\ Fits(s.data, s.cond, shown) /\ DOMAIN shown = DOMAIN s.value
            /\ \A i \in DOMAIN s.value : AsText(s.value[i]) = AsText(shown[i])
        BY <2>2, <2>6, <4>2, ShowingFits
      <4> HIDE DEF shown
      <4>4. ui'.contents = shown
        BY <2>1 DEF shown
      <4>5. HeardIsSearched'
        <5> SUFFICES /\ s'.filled => Valid(s'.data, s'.cond, ui'.contents)
                     /\ \A i \in DOMAIN ui'.contents :
                          AsText(s'.value[i]) = AsText(LocalEntry(TypeOf[s'.data], ui'.contents[i]))
          BY DEF HeardIsSearched, SearchesWhatIsShown
        <5> QED BY <2>3, <3>2, <3>3, <4>1, <4>3, <4>4
      <4> QED BY <2>3, <2>4, <2>6, <3>3, <4>1, <4>3, <4>4, <4>5 DEF SearchInv
    <3> QED BY <3>4, <3>5
  <2> QED BY <2>5, <2>6
<1> QED BY <1>1, <1>2

LEMMA SearchInvInit == TypeInv /\ Init => SearchInv
<1> SUFFICES ASSUME TypeInv, Init PROVE SearchInv
  OBVIOUS
<1>1. s.cond = None /\ s.filled = FALSE /\ hidden = {} /\ s \in State
  BY TypeInvFacts DEF Init
<1> QED BY <1>1, TypeInvFacts, HiddenType DEF SearchInv, HiddenIsCurrent, HeardIsSearched, SearchesWhatIsShown

LEMMA SearchInvStep == DefaultSeparators /\ TypeInv /\ SearchInv /\ [Next]_vars => SearchInv'
<1> SUFFICES ASSUME DefaultSeparators, TypeInv, SearchInv, [Next]_vars PROVE SearchInv'
  OBVIOUS
<1>1. ASSUME NEW c \in Column, ChooseData(c) PROVE SearchInv'
  BY <1>1, ChooseDataSearch
<1>2. ASSUME NEW cond \in ConditionsOf(s.data), ChooseCondition(cond) PROVE SearchInv'
  BY <1>2, ChooseConditionSearch
<1>3. ASSUME NEW contents \in Entries, Enter(contents) PROVE SearchInv'
  BY <1>3, EnterSearch
<1>4. CASE UNCHANGED vars
  <2>1. s' = s /\ ui' = ui /\ late' = late /\ hidden' = hidden
    BY <1>4 DEF vars
  <2> QED BY <2>1 DEF SearchInv, HiddenIsCurrent, HeardIsSearched, SearchesWhatIsShown, WholeArray
<1> QED BY <1>1, <1>2, <1>3, <1>4, LateCallSearch, SiblingAddedSearch, RedrawnSearch, OtherDrawSearch DEF Next

LEMMA SearchInvAlways == DefaultSeparators => (Spec => [](TypeInv /\ SearchInv))
<1> SUFFICES ASSUME DefaultSeparators PROVE Spec => [](TypeInv /\ SearchInv)
  OBVIOUS
<1>1. TypeInv /\ SearchInv /\ [Next]_vars => (TypeInv /\ SearchInv)'
  BY SearchInvStep, TypeInvStep
<1>2. Init => TypeInv /\ SearchInv
  BY SearchInvInit, TypeInvInit
<1> QED BY <1>1, <1>2, PTL DEF Spec

\* What a criterion searches for is what its elements show, once the call that
\* waits has run: with the separators of DataTables' own language, whatever
\* the user, a sibling and the redrawing of the builder do in between.
THEOREM HeardIsSearchedHolds == DefaultSeparators => (Spec => []HeardIsSearched)
<1> SUFFICES ASSUME DefaultSeparators PROVE Spec => []HeardIsSearched
  OBVIOUS
<1>1. SearchInv => HeardIsSearched
  BY DEF SearchInv
<1> QED BY <1>1, SearchInvAlways, PTL

LEMMA NoWholeArray == NoWholeArrays /\ TypeInv => ~WholeArray
BY TypeInvFacts DEF NoWholeArrays, WholeArray

\* Every handler that changes the search draws the table: what is hidden is
\* what the criterion hides, where whole arrays are not compared.
THEOREM HiddenIsCurrentHolds == DefaultSeparators /\ NoWholeArrays => (Spec => []HiddenIsCurrent)
<1> SUFFICES ASSUME DefaultSeparators, NoWholeArrays PROVE Spec => []HiddenIsCurrent
  OBVIOUS
<1>1. TypeInv /\ SearchInv => HiddenIsCurrent
  BY NoWholeArray DEF SearchInv
<1> QED BY <1>1, SearchInvAlways, PTL

\* Redrawing the builder, or opening the page with the saved state, hides the
\* same rows, where whole arrays are not compared.
THEOREM RedrawKeepsSearchHolds == DefaultSeparators /\ NoWholeArrays => (Spec => []RedrawKeepsSearch)
<1> SUFFICES ASSUME DefaultSeparators, NoWholeArrays PROVE Spec => []RedrawKeepsSearch
  OBVIOUS
<1>1. TypeInv /\ SearchInv => RedrawKeepsSearch
  BY RebuiltIs, NoWholeArray DEF RedrawKeepsSearch
<1> QED BY <1>1, SearchInvAlways, PTL

(* ---------------------- the keys that are compared ----------------------- *)

\* What a text is compared by: one number, or nothing.
Key == {{}} \cup {{n} : n \in Int}

LEMMA NumberIsKey ==
  ASSUME NEW S, NEW t \in Seq(S)
  PROVE  NumberOf(t) \in Key
<1> DEFINE minus == t # <<>> /\ t[1] = "-"
           body == IF minus THEN Tail(t) ELSE t
           point == {i \in DOMAIN body : body[i] = "."}
           number == Whole(body) * (IF point # {} /\ Last(body) # "." THEN 1 ELSE 10)
           wrong == \/ Cardinality(point) > 1
                    \/ Digits \cap ToSet(body) = {}
                    \/ ToSet(body) \ (Digits \cup {"."}) # {}
<1>1. body \in Seq(S)
  <2>1. t # <<>> => Tail(t) \in Seq(S)
    BY HeadTailProperties
  <2> QED BY <2>1, Zenon
<1>2. NumberOf(t) = IF t = <<>> THEN {0} ELSE IF wrong THEN {} ELSE {IF minus THEN 0 - number ELSE number}
  BY Zenon DEF NumberOf
<1>3. number \in Int
  <2> HIDE DEF body, point
  <2>1. Whole(body) \in Int
    BY <1>1, WholeIsInt
  <2>2. \A f \in {1, 10} : Whole(body) * f \in Int
    BY <2>1
  <2> QED BY <2>2
<1> HIDE DEF number, wrong, minus
<1> QED BY <1>2, <1>3 DEF Key

LEMMA StrippedIsText ==
  ASSUME NEW S, NEW t \in Seq(S)
  PROVE  Stripped(t) \in Seq(S)
<1>1. Figures(t) \in Seq(S)
  BY FiguresAreText
<1>2. CASE t # <<>> /\ t[1] = "-"
  <2> DEFINE sign == <<t[1]>>
  <2>1. t[1] \in S
    BY <1>2
  <2>2. sign \in Seq(S)
    BY <2>1
  <2> HIDE DEF sign
  <2>3. sign \o Figures(t) \in Seq(S)
    BY <1>1, <2>2, ConcatProperties
  <2>4. Stripped(t) = sign \o Figures(t)
    BY <1>2, Zenon DEF Stripped, sign
  <2> QED BY <2>3, <2>4
<1>3. CASE ~(t # <<>> /\ t[1] = "-")
  BY <1>1, <1>3, Zenon DEF Stripped
<1> QED BY <1>2, <1>3

LEMMA RankIsKey == \A t \in Text : Rank(t) \in Key
<1> SUFFICES ASSUME NEW t \in Text PROVE Rank(t) \in Key
  OBVIOUS
<1> DEFINE code(i) == IF i \in DOMAIN t THEN CHOOSE k \in DOMAIN Alphabet : Alphabet[k] = t[i] ELSE 0
           base == Len(Alphabet) + 1
<1>0. Alphabet \in Seq(STRING)
  BY Assumptions
<1>1. \A i \in Nat : code(i) \in Int
  <2> TAKE i \in Nat
  <2>1. CASE i \in DOMAIN t
    <3>1. t[i] \in Char
      BY <2>1 DEF Text
    <3>2. \E k \in DOMAIN Alphabet : Alphabet[k] = t[i]
      BY <3>1 DEF Char, ToSet
    <3>3. code(i) \in DOMAIN Alphabet
      BY <2>1, <3>2
    <3> HIDE DEF code
    <3> QED BY <1>0, <3>3
  <2>2. CASE i \notin DOMAIN t
    BY <2>2
  <2> QED BY <2>1, <2>2
<1>2. base \in Int
  BY <1>0
<1>3. Rank(t) = {code(1) * base * base + code(2) * base + code(3)}
  BY Zenon DEF Rank
<1> HIDE DEF code, base
<1>4. code(1) \in Int /\ code(2) \in Int /\ code(3) \in Int
  BY <1>1
<1>5. \A x, y, z, b \in Int : x * b * b + y * b + z \in Int
  OBVIOUS
<1>6. code(1) * base * base + code(2) * base + code(3) \in Int
  BY <1>2, <1>4, <1>5
<1> QED BY <1>3, <1>6 DEF Key

LEMMA DashedIsText == \A t \in Text : Dashed(t) \in Text
<1> SUFFICES ASSUME NEW t \in Text PROVE Dashed(t) \in Text
  OBVIOUS
<1>1. PICK n \in Nat : DOMAIN t = 1..n /\ t = [i \in 1..n |-> t[i]] /\ \A i \in 1..n : t[i] \in Char
  BY FunctionOfSeq DEF Text
<1>2. "-" \in Char
  BY Assumptions
<1>3. Dashed(t) \in [1..n -> Char]
  BY <1>1, <1>2, Zenon DEF Dashed
<1> QED BY <1>3, SeqOfFunction DEF Text

LEMMA ParsedDateIsKey == \A t \in Text : ParsedDate(t) \in Key
<1> SUFFICES ASSUME NEW t \in Text, Len(t) = 3 PROVE ParsedDate(t) \in Key
  BY DEF ParsedDate, Key
<1>1. t[1] \in Char /\ t[3] \in Char
  <2>1. t \in Seq(Char)
    BY DEF Text
  <2> QED BY <2>1
<1>2. <<t[1], t[3]>> \in Text
  <2>1. \A x, y \in Char : <<x, y>> \in Seq(Char)
    OBVIOUS
  <2> QED BY <1>1, <2>1 DEF Text
<1>3. Rank(<<t[1], t[3]>>) \in Key
  BY <1>2, RankIsKey
<1> QED BY <1>3 DEF ParsedDate, Key

LEMMA LuxonDateIsKey == \A t \in Text : LuxonDate(t) \in Key
<1>1. {Now} \in Key
  BY Assumptions DEF Key
<1> QED BY <1>1, ParsedDateIsKey DEF LuxonDate

\* The keys of a cell and of a value, in the columns that have "between".
Ordered == {"num", "num-fmt", "date", "moment", "luxon"}
CellKey(type, t) ==
  CASE type = "num" -> NumberOf(Localised(t))
    [] type = "num-fmt" -> NumberOf(Stripped(Localised(t)))
    [] type = "date" -> Rank(Dashed(t))
    [] type = "moment" -> ParsedDate(t)
    [] OTHER -> LuxonDate(t)
ValueKey(type, t) ==
  CASE type = "num" -> NumberOf(t)
    [] type = "num-fmt" -> NumberOf(Stripped(t))
    [] type = "date" -> Rank(t)
    [] type = "moment" -> ParsedDate(t)
    [] OTHER -> LuxonDate(t)

LEMMA KeysAreKeys ==
  ASSUME NEW type \in Ordered, NEW t \in Text
  PROVE  CellKey(type, t) \in Key /\ ValueKey(type, t) \in Key
<1> DEFINE S == Char \cup {"valueTitle"}
<1>1. t \in Seq(S) /\ Localised(t) \in Seq(S)
  <2>1. t \in Word /\ Localised(t) \in Word
    BY LocalisedIsWord DEF Word
  <2> QED BY <2>1, WordIsSeq
<1> HIDE DEF S
<1>2. Stripped(t) \in Seq(S) /\ Stripped(Localised(t)) \in Seq(S)
  BY <1>1, StrippedIsText
<1>3. /\ NumberOf(t) \in Key /\ NumberOf(Localised(t)) \in Key
      /\ NumberOf(Stripped(t)) \in Key /\ NumberOf(Stripped(Localised(t))) \in Key
  BY <1>1, <1>2, NumberIsKey
<1>4. Rank(t) \in Key /\ Rank(Dashed(t)) \in Key /\ ParsedDate(t) \in Key /\ LuxonDate(t) \in Key
  BY RankIsKey, DashedIsText, ParsedDateIsKey, LuxonDateIsKey
<1> QED BY <1>3, <1>4 DEF CellKey, ValueKey

\* A search in these columns compares keys.
LEMMA OrderedPasses ==
  ASSUME NEW c \in Column, TypeOf[c] \in Ordered, NEW cond, cond \notin NoValue,
         NEW v, v # <<>>, NEW cell
  PROVE  Passes(c, cond, v, cell) =
           Compare(cond, CellKey(TypeOf[c], cell[1]), [i \in DOMAIN v |-> ValueKey(TypeOf[c], v[i].parts[1])])
<1> DEFINE ts == [i \in DOMAIN v |-> v[i].parts[1]]
<1>1. cond # "null" /\ cond # "!null"
  BY DEF NoValue
<1>2. CASE TypeOf[c] = "num"
  <2>1. Passes(c, cond, v, cell) = NumSearch(cond, Localised(cell[1]), ts)
    BY <1>1, <1>2, Zenon DEF Passes, Numeric
  <2>2. [i \in DOMAIN ts |-> NumberOf(ts[i])] = [i \in DOMAIN v |-> ValueKey(TypeOf[c], v[i].parts[1])]
    BY <1>2, Zenon DEF ValueKey
  <2>3. CellKey(TypeOf[c], cell[1]) = NumberOf(Localised(cell[1]))
    BY <1>2 DEF CellKey
  <2> QED BY <2>1, <2>2, <2>3, Zenon DEF NumSearch
<1>3. CASE TypeOf[c] = "num-fmt"
  <2>1. Passes(c, cond, v, cell) = NumFmtSearch(cond, Localised(cell[1]), ts)
    BY <1>1, <1>3, Zenon DEF Passes, Numeric
  <2>2. [i \in DOMAIN ts |-> NumberOf(Stripped(ts[i]))] = [i \in DOMAIN v |-> ValueKey(TypeOf[c], v[i].parts[1])]
    BY <1>3, Zenon DEF ValueKey
  <2>3. CellKey(TypeOf[c], cell[1]) = NumberOf(Stripped(Localised(cell[1])))
    BY <1>3 DEF CellKey
  <2> QED BY <2>1, <2>2, <2>3, Zenon DEF NumFmtSearch
<1>4. CASE TypeOf[c] = "date"
  <2>1. Passes(c, cond, v, cell) = DateSearch(cond, cell[1], ts)
    BY <1>1, <1>4, Zenon DEF Passes, Numeric
  <2>2. [i \in DOMAIN ts |-> Rank(ts[i])] = [i \in DOMAIN v |-> ValueKey(TypeOf[c], v[i].parts[1])]
    BY <1>4, Zenon DEF ValueKey
  <2>3. CellKey(TypeOf[c], cell[1]) = Rank(Dashed(cell[1]))
    BY <1>4 DEF CellKey
  <2> QED BY <2>1, <2>2, <2>3, Zenon DEF DateSearch
<1>5. CASE TypeOf[c] = "moment"
  <2>1. Passes(c, cond, v, cell) = MomentSearch(cond, cell[1], ts)
    BY <1>1, <1>5, Zenon DEF Passes, Numeric
  <2>2. [i \in DOMAIN ts |-> ParsedDate(ts[i])] = [i \in DOMAIN v |-> ValueKey(TypeOf[c], v[i].parts[1])]
    BY <1>5, Zenon DEF ValueKey
  <2>3. CellKey(TypeOf[c], cell[1]) = ParsedDate(cell[1])
    BY <1>5 DEF CellKey
  <2> QED BY <2>1, <2>2, <2>3, Zenon DEF MomentSearch
<1>6. CASE TypeOf[c] = "luxon"
  <2>1. Passes(c, cond, v, cell) = LuxonSearch(cond, cell[1], ts)
    BY <1>1, <1>6, Zenon DEF Passes, Numeric
  <2>2. [i \in DOMAIN ts |-> LuxonDate(ts[i])] = [i \in DOMAIN v |-> ValueKey(TypeOf[c], v[i].parts[1])]
    BY <1>6, Zenon DEF ValueKey
  <2>3. CellKey(TypeOf[c], cell[1]) = LuxonDate(cell[1])
    BY <1>6 DEF CellKey
  <2> QED BY <2>1, <2>2, <2>3, Zenon DEF LuxonSearch
<1> QED BY <1>2, <1>3, <1>4, <1>5, <1>6 DEF Ordered

\* With two numbers, and a number for the cell, "between" is what it says.
LEMMA BetweenNumbers ==
  ASSUME NEW k \in Int, NEW x \in Int, NEW y \in Int
  PROVE  Between({k}, {x}, {y}) <=> \/ ~Lt({k}, {x}) /\ ~Lt({y}, {k})
                                    \/ ~Lt({k}, {y}) /\ ~Lt({x}, {k})
<1>1. \A i, j \in Int : (Lt({i}, {j}) <=> i < j) /\ (Le({i}, {j}) <=> i <= j)
  BY DEF Lt, Le
<1> QED BY <1>1 DEF Between

LEMMA KeysWithOrder ==
  ASSUME NEW k \in Key, NEW x \in Key, Lt(k, x) \/ Same(k, x) \/ Lt(x, k)
  PROVE  (\E n \in Int : k = {n}) /\ (\E n \in Int : x = {n})
BY DEF Key, Lt, Same

LEMMA PassesOne ==
  ASSUME NEW c \in Column, TypeOf[c] \in Ordered, NEW e, NEW cell
  PROVE  LET k == CellKey(TypeOf[c], cell[1])
             x == ValueKey(TypeOf[c], e.parts[1])
         IN /\ Passes(c, "<", <<e>>, cell) = Lt(k, x)
            /\ Passes(c, ">", <<e>>, cell) = Lt(x, k)
            /\ Passes(c, "=", <<e>>, cell) = Same(k, x)
<1> DEFINE k == CellKey(TypeOf[c], cell[1])
           keys == [i \in DOMAIN <<e>> |-> ValueKey(TypeOf[c], <<e>>[i].parts[1])]
<1>1. <<e>> # <<>> /\ {"<", ">", "="} \cap NoValue = {}
  BY DEF NoValue
<1>2. \A cond \in {"<", ">", "="} : Passes(c, cond, <<e>>, cell) = Compare(cond, k, keys)
  BY <1>1, OrderedPasses
<1>3. keys[1] = ValueKey(TypeOf[c], e.parts[1])
  <2>1. 1 \in DOMAIN <<e>> /\ <<e>>[1] = e
    OBVIOUS
  <2> QED BY <2>1, Zenon
<1> HIDE DEF k, keys
<1>4. /\ Compare("<", k, keys) = Lt(k, keys[1])
      /\ Compare(">", k, keys) = Lt(keys[1], k)
      /\ Compare("=", k, keys) = Same(k, keys[1])
  BY Zenon DEF Compare
<1> QED BY <1>2, <1>3, <1>4 DEF k

LEMMA PassesTwo ==
  ASSUME NEW c \in Column, TypeOf[c] \in Ordered, NEW e, NEW f, NEW cell
  PROVE  LET k == CellKey(TypeOf[c], cell[1])
             x == ValueKey(TypeOf[c], e.parts[1])
             y == ValueKey(TypeOf[c], f.parts[1])
         IN /\ Passes(c, "between", <<e, f>>, cell) = Between(k, x, y)
            /\ Passes(c, "!between", <<e, f>>, cell) = ~Between(k, x, y)
<1> DEFINE k == CellKey(TypeOf[c], cell[1])
           keys == [i \in DOMAIN <<e, f>> |-> ValueKey(TypeOf[c], <<e, f>>[i].parts[1])]
<1>1. <<e, f>> # <<>> /\ {"between", "!between"} \cap NoValue = {}
  BY DEF NoValue
<1>2. \A cond \in {"between", "!between"} : Passes(c, cond, <<e, f>>, cell) = Compare(cond, k, keys)
  BY <1>1, OrderedPasses
<1>3. keys[1] = ValueKey(TypeOf[c], e.parts[1]) /\ keys[2] = ValueKey(TypeOf[c], f.parts[1])
  <2>1. 1 \in DOMAIN <<e, f>> /\ <<e, f>>[1] = e /\ 2 \in DOMAIN <<e, f>> /\ <<e, f>>[2] = f
    OBVIOUS
  <2> QED BY <2>1, Zenon
<1> HIDE DEF k, keys
<1>4. /\ Compare("between", k, keys) = Between(k, keys[1], keys[2])
      /\ Compare("!between", k, keys) = ~Between(k, keys[1], keys[2])
  BY Zenon DEF Compare
<1> QED BY <1>2, <1>3, <1>4 DEF k

\* A cell that is a number, and two bounds that are, in any order and with any
\* look: the criterion hides it exactly when it is outside ("between") or
\* inside ("!between") of the bounds.
THEOREM BetweenIsBothBoundsHolds == DefaultSeparators => (Spec => []BetweenIsBothBounds)
<1> SUFFICES ASSUME DefaultSeparators PROVE Spec => []BetweenIsBothBounds
  OBVIOUS
<1>1. TypeInv /\ SearchInv => BetweenIsBothBounds
  <2> SUFFICES ASSUME TypeInv, SearchInv, s.filled, ElementOf(s.data, s.cond) = "two" PROVE BetweenIsBothBounds
    BY DEF BetweenIsBothBounds
  <2> DEFINE c == s.data
             in(cell) == \E i, j \in {1, 2} :
               /\ ~Passes(c, "<", <<s.value[i]>>, cell)
               /\ ~Passes(c, ">", <<s.value[j]>>, cell)
               /\ i # j
             number == {cell \in Cells[c] : \A i \in {1, 2} : \E cond \in {"<", "=", ">"} :
                          Passes(c, cond, <<s.value[i]>>, cell)}
  <2>1. s.cond # None /\ c \in Column /\ c # None /\ s.cond \in ConditionsOf(c)
    <3>1. s.cond # None
      BY DEF TypeInv
    <3> QED BY <3>1, TypeInvFacts
  <2>2. s.cond \in {"between", "!between"} /\ TypeOf[c] \in Ordered
    BY <2>1, ElementIs DEF Ordered
  <2>3. s.cond \notin NoValue
    BY <2>2 DEF NoValue
  <2>4. hidden = {cell \in Cells[c] : ~Passes(c, s.cond, s.value, cell)}
    <3>1. hidden = Hidden(s)
      BY <2>2 DEF SearchInv, HiddenIsCurrent, WholeArray
    <3> QED BY <2>1, <3>1 DEF Hidden, Through
  <2>5. PICK t, u \in Text : s.value = <<Str(t), Str(u)>>
    <3>1. Fits(c, s.cond, s.value)
      BY <2>1, <2>2, <2>3 DEF SearchInv
    <3> QED BY <3>1, Zenon DEF Fits
  <2> DEFINE x == ValueKey(TypeOf[c], t)
             y == ValueKey(TypeOf[c], u)
  <2>6. ASSUME NEW cell \in Cells[c], cell \in number
        PROVE  ~Passes(c, s.cond, s.value, cell) <=> (in(cell) <=> s.cond = "!between")
    <3> DEFINE k == CellKey(TypeOf[c], cell[1])
    <3>1. s.value[1] = Str(t) /\ s.value[2] = Str(u) /\ Str(t).parts[1] = t /\ Str(u).parts[1] = u
      BY <2>5 DEF Str
    <3>2. k \in Key /\ x \in Key /\ y \in Key
      <4>1. cell[1] \in Text
        BY <2>1, ColumnAssumption
      <4> QED BY <2>2, <4>1, KeysAreKeys
    <3>3. /\ Passes(c, "<", <<s.value[1]>>, cell) = Lt(k, x) /\ Passes(c, "<", <<s.value[2]>>, cell) = Lt(k, y)
          /\ Passes(c, ">", <<s.value[1]>>, cell) = Lt(x, k) /\ Passes(c, ">", <<s.value[2]>>, cell) = Lt(y, k)
          /\ Passes(c, "=", <<s.value[1]>>, cell) = Same(k, x) /\ Passes(c, "=", <<s.value[2]>>, cell) = Same(k, y)
      BY <2>1, <2>2, <3>1, PassesOne
    <3>4. /\ s.cond = "between" => Passes(c, s.cond, s.value, cell) = Between(k, x, y)
          /\ s.cond = "!between" => Passes(c, s.cond, s.value, cell) = ~Between(k, x, y)
      BY <2>1, <2>2, <2>5, <3>1, PassesTwo
    <3>5. /\ Lt(k, x) \/ Same(k, x) \/ Lt(x, k)
          /\ Lt(k, y) \/ Same(k, y) \/ Lt(y, k)
      <4>1. \A i \in {1, 2} : \E cond \in {"<", "=", ">"} : Passes(c, cond, <<s.value[i]>>, cell)
        BY <2>6
      <4> HIDE DEF k, x, y
      <4> QED BY <3>3, <4>1
    <3>6. in(cell) <=> \/ ~Lt(k, x) /\ ~Lt(y, k)
                       \/ ~Lt(k, y) /\ ~Lt(x, k)
      <4> HIDE DEF k, x, y
      <4>1. in(cell) <=> \/ ~Passes(c, "<", <<s.value[1]>>, cell) /\ ~Passes(c, ">", <<s.value[2]>>, cell)
                         \/ ~Passes(c, "<", <<s.value[2]>>, cell) /\ ~Passes(c, ">", <<s.value[1]>>, cell)
        OBVIOUS
      <4> QED BY <3>3, <4>1
    <3> HIDE DEF k, x, y, in
    <3>7. PICK m, n, o \in Int : k = {m} /\ x = {n} /\ y = {o}
      BY <3>2, <3>5, KeysWithOrder
    <3>8. in(cell) <=> Between(k, x, y)
      BY <3>6, <3>7, BetweenNumbers
    <3> QED BY <2>2, <3>4, <3>8
  <2>7. hidden \cap number = {cell \in number : in(cell) <=> s.cond = "!between"}
    <3>1. number \subseteq Cells[c]
      OBVIOUS
    <3> HIDE DEF number, in
    <3> QED BY <2>4, <2>6, <3>1
  <2> QED BY <2>7, Zenon DEF BetweenIsBothBounds
<1> QED BY <1>1, SearchInvAlways, PTL
=============================================================================
