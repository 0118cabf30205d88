------------------------------ MODULE Criterion ------------------------------
(* One criterion of the SearchBuilder: the column, condition and value       *)
(* elements on the page, what the criterion keeps of them, and the search it *)
(* does in each row.  The tree the criterion stands in is in SearchBuilder;  *)
(* what the tree does to it (a sibling is added, everything is redrawn) is   *)
(* an action here.  One action stands for one handler with all it calls.     *)
EXTENDS Integers, Sequences, FiniteSets, SequencesExt

CONSTANTS
  Column, TypeOf,   \* the columns of the table and their types
  Cells,            \* the cells of each column: sequences of texts, with more
                    \* than one text in columns of type "array" only (whose
                    \* arrays reach the search by the option orthogonal)
  Typed,            \* the texts the user types, by column
  Removed,          \* <<type, condition>> the page's script takes out (null)
  Alphabet,         \* a sequence: the characters, in the order of their codes
  sDecimal, sThousands,   \* the separators of the language
  Throttled,        \* the option searchDelay is set
  Now,              \* the present, as luxon counts it: one instant in the life
                    \* of a page
  None              \* JavaScript's undefined

Char == ToSet(Alphabet)
Text == Seq(Char)
Numerals == <<"0", "1", "2", "3", "4", "5", "6", "7", "8", "9">>
Digits == {Numerals[k] : k \in 1..10}
Type == {"num", "num-fmt", "date", "moment", "luxon", "string", "array"}
Condition == {"=", "!=", "<", "<=", ">", ">=", "between", "!between",
              "starts", "contains", "ends", "without", "null", "!null"}

ASSUME Assumptions ==
  /\ None \notin Column \cup Condition \cup Char \cup {"valueTitle"} /\ TypeOf \in [Column -> Type]
  /\ Alphabet \in Seq(STRING) /\ {",", ".", "-"} \subseteq Char /\ "valueTitle" \notin Char
  /\ DOMAIN Cells = Column /\ DOMAIN Typed = Column
  /\ \A c \in Column : Cells[c] \subseteq Seq(Text) \ {<<>>} /\ Typed[c] \subseteq Text
  /\ sDecimal # sThousands /\ Throttled \in BOOLEAN /\ Now \in Int

VARIABLES
  s,       \* what the criterion keeps: data, cond, value, filled
  format,  \* s.dateFormat: the column whose date format is in use, or None
  ui,      \* the value elements: what they show, and whether they are listened to
  late,    \* a throttled call of the listener is still to come
  hidden   \* the cells of the column that the last draw hid
vars == <<s, format, ui, late, hidden>>

(* ------------------------ conversions of a text -------------------------- *)

\* An entry of s.value and a cell: an array of texts, or one text.
Str(t) == [array |-> FALSE, parts |-> <<t>>]
Arr(ts) == [array |-> TRUE, parts |-> ts]
Undefined == [array |-> FALSE, parts |-> <<>>]
Title == Str(<<"valueTitle">>)

\* The value of an option made of an array: its texts joined by commas.
Joined(ts) == FoldLeft(LAMBDA done, t : IF done = <<>> THEN t ELSE done \o <<",">> \o t, <<>>, ts)

\* A number is a singleton and NaN is empty, so that a comparison with NaN is
\* false.  Numbers are in tenths: a text has at most one decimal here.
Digit(ch) == CHOOSE n \in 0..9 : Numerals[n + 1] = ch
Whole(t) == FoldLeft(LAMBDA n, ch : IF ch \in Digits THEN 10 * n + Digit(ch) ELSE n, 0, t)
NumberOf(t) ==
  LET minus == t # <<>> /\ t[1] = "-"
      body == IF minus THEN Tail(t) ELSE t
      point == {i \in DOMAIN body : body[i] = "."}
      number == Whole(body) * (IF point # {} /\ Last(body) # "." THEN 1 ELSE 10)
  IN IF t = <<>> THEN {0}
     ELSE IF \/ Cardinality(point) > 1
             \/ Digits \cap ToSet(body) = {}
             \/ ToSet(body) \ (Digits \cup {"."}) # {} THEN {}
     ELSE {IF minus THEN 0 - number ELSE number}

\* The texts of formatted numbers lose everything but digits and the point,
\* and keep the sign when it is the first character.
Figures(t) ==
  FoldLeft(LAMBDA done, ch : IF ch \in Digits \cup {"."} THEN Append(done, ch) ELSE done, <<>>, t)
Stripped(t) == IF t # <<>> /\ t[1] = "-" THEN <<"-">> \o Figures(t) ELSE Figures(t)

\* The order of JavaScript strings of at most three characters, as numbers.
Rank(t) ==
  LET code(i) == IF i \in DOMAIN t THEN CHOOSE k \in DOMAIN Alphabet : Alphabet[k] = t[i] ELSE 0
      base == Len(Alphabet) + 1
  IN {code(1) * base * base + code(2) * base + code(3)}

\* The separators of a date, in the cell only.
Dashed(t) == [i \in DOMAIN t |-> IF t[i] \in {"/", "-", ","} THEN "-" ELSE t[i]]

\* moment(text, format): month, separator, day; else no date.  What is no date
\* for luxon has the time at which it was read.
ParsedDate(t) ==
  IF Len(t) = 3 /\ t[1] \in Digits /\ t[3] \in Digits THEN Rank(<<t[1], t[3]>>) ELSE {}
LuxonDate(t) == IF ParsedDate(t) = {} THEN {Now} ELSE ParsedDate(t)

Lower(t) == [i \in DOMAIN t |-> IF t[i] = "A" THEN "a" ELSE t[i]]

\* The text of a number, split at the decimal separator, with the first
\* thousands separator of each piece replaced by a comma, joined by points.
Localised(t) ==
  LET first(i) == \A j \in 1..(i - 1) : t[j] = sThousands => \E k \in j..i : t[k] = sDecimal
  IN [i \in DOMAIN t |-> CASE t[i] = sDecimal -> "."
                           [] t[i] = sThousands /\ first(i) -> ","
                           [] OTHER -> t[i]]

Numeric(type) == type \in {"num", "num-fmt"}
LocalEntry(type, e) ==
  IF Numeric(type) /\ ~e.array THEN [e EXCEPT !.parts = [i \in DOMAIN @ |-> Localised(@[i])]] ELSE e
LocalValue(type, v) == [i \in DOMAIN v |-> LocalEntry(type, v[i])]

(* --------------------------- the conditions ------------------------------ *)

NoValue == {"null", "!null"}

\* The element each condition of a table asks its value with.
Elements(select, input, two) ==
  [c \in select \cup input \cup two \cup NoValue |->
     CASE c \in select -> "select" [] c \in input -> "input"
       [] c \in two -> "two" [] OTHER -> "nothing"]

DateElements == Elements({}, {"=", "!=", "<", ">"}, {"between", "!between"})
NumElements == Elements({"=", "!="}, {"<", "<=", ">=", ">"}, {"between", "!between"})
StringElements == Elements({"=", "!="}, {"starts", "contains", "ends"}, {})
ArrayElements == Elements({"contains", "without", "=", "!="}, {}, {})

\* The comparisons of keys, the same in all tables of ordered values.  The
\* bounds of "between" are given in either order.
Lt(a, b) == \E x \in a, y \in b : x < y
Le(a, b) == \E x \in a, y \in b : x <= y
Same(a, b) == a # {} /\ a = b
(* Variant: the bounds have to be in order. *)
BetweenInOrder(k, a, b) == Le(a, k) /\ Le(k, b)
Between(k, a, b) ==
  IF Lt(a, b) THEN Le(a, k) /\ Le(k, b) ELSE Le(b, k) /\ Le(k, a)
Compare(cond, k, v) ==
  CASE cond = "=" -> Same(k, v[1])
    [] cond = "!=" -> ~Same(k, v[1])
    [] cond = "<" -> Lt(k, v[1])
    [] cond = "<=" -> Le(k, v[1])
    [] cond = ">" -> Lt(v[1], k)
    [] cond = ">=" -> Le(v[1], k)
    [] cond = "between" -> Between(k, v[1], v[2])
    [] cond = "!between" -> ~Between(k, v[1], v[2])

DateSearch(cond, t, ts) == Compare(cond, Rank(Dashed(t)), [i \in DOMAIN ts |-> Rank(ts[i])])
MomentSearch(cond, t, ts) == Compare(cond, ParsedDate(t), [i \in DOMAIN ts |-> ParsedDate(ts[i])])
LuxonSearch(cond, t, ts) == Compare(cond, LuxonDate(t), [i \in DOMAIN ts |-> LuxonDate(ts[i])])
NumSearch(cond, t, ts) == Compare(cond, NumberOf(t), [i \in DOMAIN ts |-> NumberOf(ts[i])])
NumFmtSearch(cond, t, ts) ==
  Compare(cond, NumberOf(Stripped(t)), [i \in DOMAIN ts |-> NumberOf(Stripped(ts[i]))])
StringSearch(cond, t, ts) ==
  CASE cond = "=" -> t = ts[1]
    [] cond = "!=" -> t # ts[1]
    [] cond = "starts" -> IsPrefix(Lower(ts[1]), Lower(t))
    [] cond = "contains" -> Lower(ts[1]) \in SubSeqs(Lower(t)) \/ ts[1] = <<>>
    [] cond = "ends" -> IsSuffix(Lower(ts[1]), Lower(t))

\* An array is compared with an array text by text, and with a text, which is
\* an array too for JavaScript, character by character.
SameArray(ts, e) ==
  LET other == IF e.array THEN e.parts ELSE [i \in DOMAIN e.parts[1] |-> <<e.parts[1][i]>>]
  IN ts = other
ArraySearch(cond, ts, e) ==
  CASE cond = "contains" -> Contains(ts, e.parts[1])
    [] cond = "without" -> ~Contains(ts, e.parts[1])
    [] cond = "=" -> SameArray(ts, e)
    [] cond = "!=" -> ~SameArray(ts, e)

\* Which table a type uses (Criteria.defaults).
ElementsOf(type) ==
  CASE Numeric(type) -> NumElements
    [] type \in {"date", "moment", "luxon"} -> DateElements
    [] type = "string" -> StringElements
    [] type = "array" -> ArrayElements
ConditionsOf(c) == {k \in DOMAIN ElementsOf(TypeOf[c]) : <<TypeOf[c], k>> \notin Removed}
ElementOf(c, cond) == ElementsOf(TypeOf[c])[cond]

\* A blank cell.  In a column of arrays it is an array of one blank text by
\* then, which is not empty.
Empty(c, cell) == TypeOf[c] # "array" /\ cell = <<<<>>>>

\* Criteria.search in a cell of the column, with the conversions before it.
Passes(c, cond, value, cell) ==
  LET t == IF Numeric(TypeOf[c]) THEN Localised(cell[1]) ELSE cell[1]
      ts == [i \in DOMAIN value |-> value[i].parts[1]]
  IN CASE cond = "null" -> Empty(c, cell)
       [] cond = "!null" -> ~Empty(c, cell)
       [] cond \notin NoValue /\ value = <<>> -> cond = "!="
       [] OTHER -> CASE TypeOf[c] = "num" -> NumSearch(cond, t, ts)
                     [] TypeOf[c] = "num-fmt" -> NumFmtSearch(cond, t, ts)
                     [] TypeOf[c] = "date" -> DateSearch(cond, t, ts)
                     [] TypeOf[c] = "moment" -> MomentSearch(cond, t, ts)
                     [] TypeOf[c] = "luxon" -> LuxonSearch(cond, t, ts)
                     [] TypeOf[c] = "string" -> StringSearch(cond, t, ts)
                     [] OTHER -> ArraySearch(cond, cell, value[1])

\* A criterion that is not complete is skipped.
Through(k) ==
  IF k.data = None THEN {}
  ELSE {cell \in Cells[k.data] : k.filled => Passes(k.data, k.cond, k.value, cell)}
Hidden(k) == IF k.data = None THEN {} ELSE Cells[k.data] \ Through(k)

(* -------------------------- the value elements --------------------------- *)

\* The options of a select: the cells, or the texts in them (initSelectArray).
Options(c, cond) ==
  IF TypeOf[c] # "array" THEN {Str(cell[1]) : cell \in Cells[c]}
  ELSE IF cond \in {"=", "!="} THEN {Arr(cell) : cell \in Cells[c]}
  ELSE UNION {{Str(cell[i]) : i \in DOMAIN cell} : cell \in Cells[c]}

AsText(e) == IF e.array THEN Joined(e.parts) ELSE e.parts[1]

\* What new elements show for a value that is kept (initInput, initSelect ...);
\* an option is found by its text.
Showing(c, cond, value) ==
  LET text(i) == IF i \in DOMAIN value THEN value[i] ELSE Str(<<>>)
      same == {o \in Options(c, cond) : value # <<>> /\ AsText(o) = AsText(value[1])}
  IN CASE ElementOf(c, cond) = "select" -> <<IF same = {} THEN Title ELSE CHOOSE o \in same : TRUE>>
       [] ElementOf(c, cond) = "input" -> <<text(1)>>
       [] ElementOf(c, cond) = "two" -> <<text(1), text(2)>>
       [] OTHER -> <<>>

\* isInputValidSelect: not the title.  isInputValidInput: no empty input, which
\* is also what "!=" of strings asks, with a select and no input.
ValidSelect(contents) == contents[1] # Title
ValidInput(contents) == \A i \in DOMAIN contents : contents[i] # Str(<<>>)
Valid(c, cond, contents) ==
  IF ElementOf(c, cond) = "select" THEN (TypeOf[c] = "string" /\ cond = "!=") \/ ValidSelect(contents)
  ELSE ValidInput(contents)

\* inputValueInput, inputValueSelect, and the tables' function that returns
\* nothing: what the listener reads from the elements.
ReadValue(c, cond, contents) == IF cond \in NoValue THEN <<Undefined>> ELSE contents

\* initSelect joins the array it looks for, in the criterion's own value.
Kept(c, cond, value) ==
  IF ElementOf(c, cond) = "select" /\ value # <<>> /\ value[1].array
  THEN <<Str(Joined(value[1].parts))>> ELSE value

NoElements == [contents |-> <<>>, heard |-> FALSE]
NewElements(c, cond, value) == [contents |-> Showing(c, cond, value), heard |-> TRUE]

(* ------------------------------ the handlers ----------------------------- *)

\* getDetails, for the state that every draw saves, writes the converted
\* numbers back into the criterion.
Saved(k) == IF k.data = None THEN k ELSE [k EXCEPT !.value = LocalValue(TypeOf[k.data], @)]

\* A draw: the rows are filtered, then the state is saved.
Draw(k) == s' = Saved(k) /\ hidden' = Hidden(k)

\* _populateCondition: the format stays when the new column has none.
Format(c) == IF TypeOf[c] \in {"moment", "luxon"} THEN c ELSE format

(* Variants: the condition stays; the table is not drawn. *)
ChooseDataOnly(c) ==
  /\ c # s.data
  /\ format' = Format(c) /\ ui' = NoElements /\ UNCHANGED late
  /\ LET k == [s EXCEPT !.data = c, !.value = <<>>, !.filled = FALSE]
     IN s' = Saved(k) /\ hidden' = {}
ChooseDataQuietly(c) ==
  /\ c # s.data
  /\ format' = Format(c) /\ ui' = NoElements /\ UNCHANGED <<late, hidden>>
  /\ s' = [data |-> c, cond |-> None, value |-> <<>>, filled |-> FALSE]

\* A column is picked: condition and value start again (_clearCondition,
\* _clearValue), and a criterion that was in the search leaves it.
ChooseData(c) ==
  /\ c # s.data
  /\ format' = Format(c) /\ ui' = NoElements /\ UNCHANGED late
  /\ LET k == [data |-> c, cond |-> None, value |-> <<>>, filled |-> FALSE]
     IN IF s.filled THEN Draw(k) ELSE s' = Saved(k) /\ UNCHANGED hidden

(* Variant: the criterion stays in the search. *)
ChooseConditionOnly(cond) ==
  /\ s.data # None /\ cond \in ConditionsOf(s.data) \ {s.cond}
  /\ ui' = NewElements(s.data, cond, <<>>)
  /\ Draw([s EXCEPT !.cond = cond, !.value = <<>>, !.filled = @ \/ cond \in NoValue])
  /\ UNCHANGED <<format, late>>

\* A condition is picked: new elements (_clearValue, _populateValue); while
\* there is one on the page the criterion is not complete.
ChooseCondition(cond) ==
  /\ s.data # None /\ cond \in ConditionsOf(s.data) \ {s.cond}
  /\ ui' = NewElements(s.data, cond, <<>>)
  /\ Draw([s EXCEPT !.cond = cond, !.value = <<>>, !.filled = cond \in NoValue])
  /\ UNCHANGED <<format, late>>

\* updateListener: what the elements show now is searched for.  Without a
\* condition it throws, and nothing happens; for a condition without elements
\* it throws before the draw (at the text of a number, or at the element that
\* is not there).
Listener(contents) ==
  IF s.cond = None THEN UNCHANGED <<s, hidden>>
  ELSE LET read == [s EXCEPT !.filled = Valid(s.data, s.cond, contents),
                             !.value = LocalValue(TypeOf[s.data], ReadValue(s.data, s.cond, contents))]
       IN IF s.cond \in NoValue THEN s' = read /\ UNCHANGED hidden ELSE Draw(read)

\* What the user can put into the elements that are on the page.
Entries ==
  LET text == {Str(t) : t \in Typed[s.data]}
  IN CASE ElementOf(s.data, s.cond) = "select" -> {<<o>> : o \in Options(s.data, s.cond) \cup {Title}}
       [] ElementOf(s.data, s.cond) = "input" -> {<<t>> : t \in text}
       [] ElementOf(s.data, s.cond) = "two" -> text \X text
       [] OTHER -> {}

\* The user picks or types a value.  The listener of a text waits when it was
\* called a moment ago, if searchDelay is set; a select's does not.
Enter(contents) ==
  /\ s.cond # None /\ contents \in Entries \ {ui.contents}
  /\ ui' = [ui EXCEPT !.contents = contents]
  /\ \/ ~ui.heard /\ UNCHANGED <<s, hidden, late>>
     \/ ui.heard /\ Listener(contents) /\ UNCHANGED late
     \/ /\ ui.heard /\ Throttled /\ ElementOf(s.data, s.cond) # "select"
        /\ late' = TRUE /\ UNCHANGED <<s, hidden>>
  /\ UNCHANGED format

\* The call that waited runs, whatever became of its element.
LateCall ==
  /\ late /\ late' = FALSE
  /\ Listener(ui.contents)
  /\ UNCHANGED <<format, ui>>

\* A sibling is added: updateArrows empties the container and puts the same
\* elements back, which jQuery's empty() took the listeners off.
SiblingAdded ==
  /\ ui' = [ui EXCEPT !.heard = FALSE]
  /\ s' = Saved(s) /\ UNCHANGED <<format, late, hidden>>

(* Variant: the elements start again, as they do for a new condition. *)
RebuiltEmpty(k) ==
  LET loaded == Saved(k)
  IN [loaded EXCEPT !.filled = Valid(k.data, k.cond, Showing(k.data, k.cond, <<>>))]

\* Criteria.rebuild with the details of the criterion itself.
Rebuilt(k) ==
  LET loaded == Saved(k)
  IN [loaded EXCEPT !.filled = Valid(k.data, k.cond, Showing(k.data, k.cond, loaded.value)),
                    !.value = Kept(k.data, k.cond, @)]

\* Everything is redrawn, or the page is opened again with its saved state:
\* the elements are new, and the table is drawn if that completes the criterion
\* or makes it incomplete.
Redrawn ==
  /\ IF s.cond = None THEN s' = Saved(s) /\ ui' = [ui EXCEPT !.heard = FALSE] /\ UNCHANGED hidden
     ELSE \E k \in {Rebuilt(s)} :
            /\ ui' = NewElements(s.data, s.cond, Saved(s).value)
            /\ IF k.filled # s.filled THEN s' = Saved(Saved(k)) /\ hidden' = Hidden(k)
               ELSE s' = Saved(k) /\ UNCHANGED hidden
  /\ UNCHANGED <<format, late>>

\* Another part of the page draws the table.
OtherDraw == Draw(s) /\ UNCHANGED <<format, ui, late>>

Init ==
  /\ s = [data |-> None, cond |-> None, value |-> <<>>, filled |-> FALSE]
  /\ format = None /\ ui = NoElements /\ late = FALSE /\ hidden = {}

Next ==
  \/ \E c \in Column : ChooseData(c)
  \/ s.data # None /\ \E cond \in ConditionsOf(s.data) : ChooseCondition(cond)
  \/ s.cond # None /\ \E contents \in Entries : Enter(contents)
  \/ LateCall \/ SiblingAdded \/ Redrawn \/ OtherDraw

Spec == Init /\ [][Next]_vars

(* ----------------------------- properties -------------------------------- *)

IsEntry(e) == e.array \in BOOLEAN /\ \A i \in DOMAIN e.parts : e.parts[i] \in Text \cup {Title.parts[1]}

\* The condition is one of the column's, with elements that go with it.
TypeOK ==
  /\ s.data \in Column \cup {None} /\ s.filled \in BOOLEAN
  /\ IF s.cond = None THEN s.value = <<>> /\ ui.contents = <<>> /\ ~s.filled
     ELSE /\ s.data # None /\ s.cond \in ConditionsOf(s.data)
          /\ Len(ui.contents) = Len(Showing(s.data, s.cond, <<>>))
  /\ \A i \in DOMAIN s.value : IsEntry(s.value[i])
  /\ ui.heard \in BOOLEAN /\ late \in BOOLEAN /\ format \in Column \cup {None}
  /\ s.data # None => hidden \subseteq Cells[s.data]

\* What the criterion searches for is what its elements show, for elements
\* that are listened to, once the call that waits has run.
SearchesWhatIsShown ==
  s.cond # None /\ s.cond \notin NoValue /\ ~late =>
    /\ s.filled => Valid(s.data, s.cond, ui.contents)
    /\ s.filled /\ s.value # <<>> =>
         \A i \in DOMAIN ui.contents : AsText(s.value[i]) = AsText(LocalEntry(TypeOf[s.data], ui.contents[i]))
HeardIsSearched == ui.heard => SearchesWhatIsShown

\* "When the value is changed the criteria is now complete so can be included
\* in searches": a value that is shown is searched for.
PageIsSearched == SearchesWhatIsShown

\* Every handler that changes the search draws the table.
HiddenIsCurrent == hidden = Hidden(s)

\* Redrawing the builder, or opening the page again, hides the same rows.
RedrawKeepsSearch == s.cond # None => Hidden(Rebuilt(s)) = Hidden(s)

\* A cell is between two numbers, in whatever order they are given and whatever
\* the texts look like, if it is not below both and not above both.
BetweenIsBothBounds ==
  s.filled /\ ElementOf(s.data, s.cond) = "two" /\ ui.heard /\ ~late =>
    LET in(cell) == \E x, y \in {1, 2} :
          /\ ~Passes(s.data, "<", <<s.value[x]>>, cell)
          /\ ~Passes(s.data, ">", <<s.value[y]>>, cell)
          /\ x # y
        number == {cell \in Cells[s.data] : \A i \in {1, 2} : \E cond \in {"<", "=", ">"} :
                     Passes(s.data, cond, <<s.value[i]>>, cell)}
    IN hidden \cap number = {cell \in number : in(cell) <=> s.cond = "!between"}
=============================================================================
