---------------------------- MODULE RowConditions ----------------------------
(* The conditional formatting of the rows of a table.  A text is a sequence  *)
(* of characters: digits are 0..9, a letter is a number from 10 on, an upper *)
(* case letter is negative.  The date of a cell is read with moment.js,      *)
(* which is not of the repository: a text that is a number stands for the    *)
(* date it names.                                                            *)
EXTENDS Integers, Sequences, SequencesExt

CONSTANTS Undefined, NaN

Text == Seq(Int)
Digits == 0..9
Comma == 1000
Lower(text) == [i \in DOMAIN text |-> IF text[i] < 0 THEN -text[i] ELSE text[i]]

(* Variant: Number(''). *)
NumberOfBlank(text) ==
  IF \A i \in DOMAIN text : text[i] \in Digits
  THEN FoldLeft(LAMBDA n, x : 10 * n + x, 0, text) ELSE NaN

\* "get rid of empty string which is normally treated as 0".
NumberOf(text) ==
  IF text = <<>> THEN Undefined
  ELSE IF \A i \in DOMAIN text : text[i] \in Digits
  THEN FoldLeft(LAMBDA n, x : 10 * n + x, 0, text) ELSE NaN

\* The comparisons of JavaScript: on texts by character, on numbers with NaN
\* and undefined, which only equals itself.
TextLess(a, b) ==
  \E k \in 0..Min({Len(a), Len(b)}) :
     /\ SubSeq(a, 1, k) = SubSeq(b, 1, k)
     /\ \/ k = Len(a) /\ k < Len(b)
        \/ k < Len(a) /\ k < Len(b) /\ a[k + 1] < b[k + 1]
Ordered(type, a, b) ==
  IF type \in {"number", "date"} THEN {a, b} \cap {Undefined, NaN} = {} /\ a < b ELSE TextLess(a, b)
\* Two Date objects are never the same one.
Equal(type, a, b) == type # "date" /\ a # NaN /\ a = b
IsIn(type, a, list) == \E i \in DOMAIN list : Equal(type, a, list[i])
HasPart(text, part) == \E i \in 0..(Len(text) - Len(part)) : SubSeq(text, i + 1, i + Len(part)) = part

\* A value that is a list loses its commas' meaning when its case is changed:
\* it becomes one text.
Joined(list) ==
  LET all == FoldLeft(LAMBDA text, x : text \o <<Comma>> \o x, <<>>, list)
  IN SubSeq(all, 2, Len(all))
ReadText(c, text) == IF c.type = "string" /\ c.caseSensitive THEN text ELSE Lower(text)
ReadCell(c, text) ==
  CASE c.type = "number" -> NumberOf(text)
    [] c.type = "date" -> IF NumberOf(text) = Undefined THEN NaN ELSE NumberOf(text)
    [] OTHER -> ReadText(c, text)
\* The value as the comparison sees it: is it a list, and of what.
ReadValue(c) ==
  IF ~c.list THEN ReadCell(c, c.value)
  ELSE IF c.type \in {"number", "date"} THEN [i \in DOMAIN c.value |-> ReadCell(c, c.value[i])]
  ELSE IF c.type = "string" /\ c.caseSensitive THEN c.value
  ELSE Lower(Joined(c.value))
IsList(c) == c.list /\ (c.type # "bool") /\ (c.type = "string" => c.caseSensitive)

\* The conditions of a table that are modelled.  A list of values is for the
\* operators that look into one, on the right, and a range has two bounds; parts
\* are looked for in texts.
IsCondition(c) ==
  /\ c = [column |-> c.column, type |-> c.type, operator |-> c.operator, value |-> c.value, list |-> c.list,
          reverse |-> c.reverse, caseSensitive |-> c.caseSensitive]
  /\ {c.list, c.reverse, c.caseSensitive} \subseteq BOOLEAN
  /\ c.type \in {"number", "date", "string", "bool"}
  /\ IF c.list THEN c.value \in Seq(Text) ELSE c.value \in Text
  /\ IsList(c) => /\ ~c.reverse /\ c.operator \in {"in", "notin", "between", "betweenInclusive"}
                  /\ c.operator \in {"between", "betweenInclusive"} => Len(c.value) = 2
  /\ ~IsList(c) /\ c.type \in {"number", "date"} => c.operator \notin {"in", "notin", "contains", "notcontains"}
\* A sequence, of things that TLC may not compare.
IsSequence(s) == Len(s) \in Nat /\ s = [i \in 1..Len(s) |-> s[i]]
IsContainer(container) ==
  /\ container.logic \in {"AND", "OR", "NONE"} /\ IsSequence(container.conditions)
  /\ \A i \in DOMAIN container.conditions : IsCondition(container.conditions[i])

\* sideLeft, operator, sideRight.  A list is on the right unless the sides are
\* exchanged, and then the operators for lists fail.
Compare(c, left, right) ==
  LET less(a, b) == Ordered(c.type, a, b)
      atMost(a, b) == less(a, b) \/ (a = b /\ {a, b} \cap {Undefined, NaN} = {})
  IN CASE c.operator = "eq" -> Equal(c.type, left, right)
       [] c.operator = "ne" -> ~Equal(c.type, left, right)
       [] c.operator = "gt" -> less(right, left)
       [] c.operator = "lt" -> less(left, right)
       [] c.operator = "le" -> atMost(left, right)
       [] c.operator = "ge" -> atMost(right, left)
       [] c.operator = "in" -> IF IsList(c) THEN IsIn(c.type, left, right) ELSE HasPart(right, left)
       [] c.operator = "notin" -> IF IsList(c) THEN ~IsIn(c.type, left, right) ELSE ~HasPart(right, left)
       [] c.operator = "contains" -> HasPart(left, right)
       [] c.operator = "notcontains" -> ~HasPart(left, right)
       [] c.operator = "betweenInclusive" -> IsList(c) /\ ~c.reverse /\ atMost(right[1], left) /\ atMost(left, right[2])
       [] c.operator = "between" -> IsList(c) /\ ~c.reverse /\ less(right[1], left) /\ less(left, right[2])
       [] OTHER -> FALSE

(* Variant: the sides are never exchanged. *)
CheckForwards(c, data) ==
  /\ c.column \in DOMAIN data
  /\ Compare(c, ReadCell(c, data[c.column]), ReadValue(c))

\* dataTablesCheckCondition.  A column the data has not fails.
CheckCondition(c, data) ==
  /\ c.column \in DOMAIN data
  /\ LET cell == ReadCell(c, data[c.column])  value == ReadValue(c)
     IN IF c.reverse THEN Compare(c, value, cell) ELSE Compare(c, cell, value)

(* Variant: NONE asks that not all match. *)
JudgeLoosely(logic, match, found) ==
  LET all(v) == \A i \in DOMAIN match : match[i] = v
  IN IF match = <<>> THEN found
     ELSE CASE logic = "AND" -> all(TRUE)
            [] logic = "OR" -> found \/ ~all(FALSE)
            [] logic = "NONE" -> ~all(TRUE)

\* A container's conditions are added to those of the containers before it, and
\* found keeps what they said when OR matches nothing.
Judge(logic, match, found) ==
  LET all(v) == \A i \in DOMAIN match : match[i] = v
  IN IF match = <<>> THEN found
     ELSE CASE logic = "AND" -> all(TRUE)
            [] logic = "OR" -> found \/ ~all(FALSE)
            [] logic = "NONE" -> all(FALSE)
Found(containers, data) ==
  FoldLeft(LAMBDA s, container :
             LET match == s.match \o [i \in DOMAIN container.conditions |-> CheckCondition(container.conditions[i], data)]
             IN [match |-> match, found |-> Judge(container.logic, match, s.found)],
           [match |-> <<>>, found |-> FALSE], containers).found

\* dataTablesConditionalFormatting: the style of the columns, which stays when
\* there is none for a row that fails.
Formatted(containers, failCss, data, style) ==
  IF Found(containers, data) THEN "css" ELSE IF failCss THEN "failCss" ELSE style

(* ------------------------------ properties ------------------------------- *)

Opposite == [eq |-> "ne", ne |-> "eq", gt |-> "le", le |-> "gt", lt |-> "ge", ge |-> "lt",
             in |-> "notin", notin |-> "in", contains |-> "notcontains", notcontains |-> "contains"]
Mirrored == [gt |-> "lt", lt |-> "gt", ge |-> "le", le |-> "ge", eq |-> "eq", ne |-> "ne"]
With(c, operator) == [c EXCEPT !.operator = operator]
Comparable(c, data) ==
  /\ c.column \in DOMAIN data
  /\ c.type \in {"number", "date"} =>
    /\ NumberOf(data[c.column]) \notin {Undefined, NaN}
    /\ c.list \/ NumberOf(c.value) \notin {Undefined, NaN}
=============================================================================
