----------------------------- MODULE FuzzyMatch ------------------------------
(* How the fuzzy search compares the words of the search box with the words  *)
(* in the cells of a row.  A word is a sequence of letters, a cell and a     *)
(* search are sequences of words: the empty words that the code removes are  *)
(* left out.  A score is a fraction <<n, m>>.                                *)
EXTENDS Integers, Sequences, SequencesExt

CONSTANT threshold   \* the option of the same name, a score

ASSUME ThresholdAssumption == threshold \in Nat \X (Nat \ {0})

(* ------------------------------ levenshtein ------------------------------ *)

\* The steps from s to t: the matrix of levenshtein().  The early exits of the
\* code are never taken: they compare a cell that is not filled yet, and
\* lengths with a limit that is above both.
Distance(s, t) ==
  LET d[p \in (0..Len(s)) \X (0..Len(t))] ==
        LET i == p[1]  j == p[2]
            cost == IF s[i] = t[j] THEN 0 ELSE 1
        IN IF i = 0 \/ j = 0 THEN i + j
           ELSE Min({d[<<i - 1, j>>] + 1, d[<<i, j - 1>>] + 1, d[<<i - 1, j - 1>>] + cost}
                    \cup IF i > 1 /\ j > 1 /\ s[i] = t[j - 1] /\ s[i - 1] = t[j]
                         THEN {d[<<i - 2, j - 2>>] + cost} ELSE {})
  IN d[<<Len(s), Len(t)>>]

Similarity(s, t) ==
  LET n == Max({Len(s), Len(t)}) IN IF n = 0 THEN <<1, 1>> ELSE <<n - Distance(s, t), n>>

(* ------------------------------ fuzzySearch ------------------------------ *)

Less(p, q) == p[1] * q[2] < q[1] * p[2]
BestOf(S) == CHOOSE p \in S : \A q \in S : ~Less(p, q)

\* The best that a cell has for a word: a word that starts with it passes.
Highest(word, cell) ==
  LET begins == {i \in DOMAIN cell : IsPrefix(word, cell[i])}
  IN [pass |-> begins # {},
      score |-> BestOf({<<0, 1>>} \cup {<<Len(word), Len(cell[i])>> : i \in begins}
                       \cup {Similarity(word, cell[i]) : i \in DOMAIN cell})]

(* Variant: the last cell decides. *)
CollateLast(best, highest) ==
  [pass |-> highest.pass \/ Less(threshold, highest.score), score |-> highest.score]

\* What a row has for a word so far, and its next cell.  Whether an earlier cell
\* has passed is looked up in the whole list, where it is undefined, instead
\* of in the entry of the word.
Collate(best, highest) ==
  IF Less(best.score, highest.score) \/ highest.pass
  THEN [pass |-> highest.pass \/ Less(threshold, highest.score), score |-> highest.score]
  ELSE best

Collated(word, row) ==
  FoldLeft(Collate, [pass |-> FALSE, score |-> <<0, 1>>], [i \in DOMAIN row |-> Highest(word, row[i])])

\* A row is shown when every word of the search has passed.
Verdict(search, row) == \A i \in DOMAIN search : Collated(search[i], row).pass

(* ------------------------------ properties ------------------------------- *)

\* What one edit makes of a word: a letter less, another letter, two letters
\* that change places.
Dropped(s) == {SubSeq(s, 1, i - 1) \o SubSeq(s, i + 1, Len(s)) : i \in DOMAIN s}
Edited(s, t) ==
  \/ s \in Dropped(t) \/ t \in Dropped(s)
  \/ Len(s) = Len(t) /\ \E i \in DOMAIN s : s[i] # t[i] /\ \A j \in DOMAIN s \ {i} : s[j] = t[j]
  \/ /\ Len(s) = Len(t)
     /\ \E i \in 1..(Len(s) - 1) :
          /\ s[i] = t[i + 1] /\ s[i + 1] = t[i] /\ s # t
          /\ \A j \in DOMAIN s \ {i, i + 1} : s[j] = t[j]

CountsEdits(s, t) ==
  LET n == Distance(s, t) IN
  /\ n = Distance(t, s)
  /\ (n = 0) <=> (s = t)
  /\ (n = 1) <=> Edited(s, t)
  /\ n <= Max({Len(s), Len(t)}) /\ n >= Len(s) - Len(t)

\* The last cell with a word that the given one begins has that word as it is.
EndsWithin(word, row) ==
  \E i \in DOMAIN row :
    /\ \E j \in DOMAIN row[i] : row[i][j] = word
    /\ \A k \in DOMAIN row : k > i => \A j \in DOMAIN row[k] : ~IsPrefix(word, row[k][j])
Begins(word, row) == \E i \in DOMAIN row : \E j \in DOMAIN row[i] : IsPrefix(word, row[i][j])
=============================================================================
