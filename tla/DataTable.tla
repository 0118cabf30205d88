------------------------------ MODULE DataTable ------------------------------
(* A table of a page with its search box, the charts that filter it, and the *)
(* formatting of its rows.  DataTables itself is a minified library: its     *)
(* exact search, its 'search' event, its saved state and its draws are       *)
(* modelled as the scripts here use them.                                    *)
EXTENDS FuzzyMatch, RowConditions

CONSTANTS
  Rows,          \* the rows, each with
  Words,         \*   the words of its cells,
  Category,      \*   the name in the column of the charts,
  InLower,       \*   that name in lower case,
  Values,        \*   the values it shows that a chart may show too, which are numbers,
  Data,          \*   and the texts the conditions look at
  Texts,         \* what is typed and searched for: sequences of words
  ByScript,      \* those that scripts search for (bounds TLC's work)
  Points,        \* the points of the charts: [category, value]
  Zero,          \* the value 0 of a point
  Containers,    \* the containers of conditions a table may have
  toggleSmart,   \* the options: may the user choose between exact and fuzzy,
  searchReturn,  \*   and does a search wait for Enter?
  failCss,
  MaxListeners,  \* bound: handlers of a button of the tooltip
  None

Word == Seq(STRING) \ {<<>>}

ASSUME TableAssumptions ==
  /\ <<>> \in Texts /\ ByScript \subseteq Texts /\ Texts \subseteq Seq(Word) /\ None \notin Texts
  /\ \A r \in Rows : /\ Words[r] \in Seq(Seq(Word)) /\ None \notin Values[r] /\ Category[r] \in DOMAIN InLower
                     /\ \A column \in DOMAIN Data[r] : Data[r][column] \in Text
  /\ {Undefined, NaN} \cap (Int \cup Text) = {}
  /\ \A cs \in Containers : IsSequence(cs) /\ \A k \in DOMAIN cs : IsContainer(cs[k])
  /\ Points \subseteq [category : STRING, value : STRING \cup {Zero}]
  /\ {toggleSmart, searchReturn, failCss} \subseteq BOOLEAN /\ MaxListeners \in Nat \ {0}

VARIABLES
  containers,  \* the conditions of the table
  typed,       \* the text in the search box
  fuzzy,       \* toggle.attr('blurred'): the search is fuzzy
  search,      \* api.search(): the text of the exact search
  judged,      \* the text _fuzzySearch of the rows is for, or None
  lower,       \* the cells that the filters look at (_aFilterData) are in lower case
  fuzzyVal, searchVal, fromPlugin,   \* fuzzySearchVal, searchVal, fromPlugin
  filter,      \* dataTablesChartsEvents[tableid]: a point, its value None when it is falsy, or None
  shown,       \* the rows on view
  highlight,   \* the rows with a highlighted cell
  style,       \* the style of each row
  tip,         \* the tooltip is on the page
  picks,       \* the click handlers of its buttons
  saved,       \* the state DataTables keeps for the page
  byScript     \* a history: another script searched since the user did
box == <<typed, fuzzy, search, judged, lower, fuzzyVal, searchVal>>
view == <<shown, highlight, style, saved, fromPlugin>>
hover == <<tip, picks>>
vars == <<containers, box, filter, view, hover, byScript>>

(* --------------------------------- rows ---------------------------------- *)

VerdictOf == [t \in Texts |-> [r \in Rows |-> Verdict(t, Words[r])]]

\* The library's smart search: every word is part of the row.
ExactOf == [t \in Texts |-> [r \in Rows |->
  \A i \in DOMAIN t : \E c \in DOMAIN Words[r] : \E w \in DOMAIN Words[r][c] : HasPart(Words[r][c][w], t[i])]]

\* The rows that reach the filter of the charts, and those it lets through.
Searched(s, j) == {r \in Rows : ExactOf[s][r] /\ (j = None \/ VerdictOf[j][r])}
Name(r, low) == IF low THEN InLower[Category[r]] ELSE Category[r]
Through(f, s, j, low) == {r \in Searched(s, j) : f = None \/ Name(r, low) = f.category}

\* The value of a point that is 0 is not kept, and what is missing has no
\* toString(): the draw fails at the first row of the point's name.
DrawFails(f, s, j, low) == f # None /\ f.value = None /\ Through(f, s, j, low) # {}

(* Variant: only cells that are on the page are found. *)
LitOnPage(f, s, j, low) == IF f = None THEN {} ELSE {r \in Through(f, s, j, low) \cap shown : f.value \in Values[r]}

\* The cells that show the value of the point.
Lit(f, s, j, low) == IF f = None THEN {} ELSE {r \in Through(f, s, j, low) : f.value \in Values[r]}

(* --------------------------------- draws --------------------------------- *)

\* The listener of 'search': the box shows what is searched for.
Heard(t, s) == IF fromPlugin THEN t ELSE IF s # searchVal THEN s ELSE fuzzyVal

(* Variant: the kind of search is not saved. *)
DrawnWithoutMode(f, s, j, hl) ==
  /\ shown' = Through(f, s, j, lower')
  /\ highlight' = hl \cup Lit(f, s, j, lower')
  /\ style' = [r \in Rows |-> IF r \in shown' THEN Formatted(containers, failCss, Data[r], style[r]) ELSE style[r]]
  /\ saved' = [fuzzy |-> FALSE, typed |-> typed', search |-> s]

\* Rows on view are formatted by rowCallback, and the state is saved.
Drawn(f, s, j, hl) ==
  /\ shown' = Through(f, s, j, lower')
  /\ highlight' = hl \cup Lit(f, s, j, lower')
  /\ style' = [r \in Rows |-> IF r \in shown' THEN Formatted(containers, failCss, Data[r], style[r]) ELSE style[r]]
  /\ saved' = [fuzzy |-> fuzzy', typed |-> typed', search |-> s]

\* A draw that some script asks for, with the filter f and the highlights hl.
Redrawn(f, hl) ==
  /\ filter' = f
  /\ UNCHANGED <<containers, search, judged, lower, fuzzyVal, searchVal, fromPlugin, hover>>
  /\ IF DrawFails(f, search, judged, lower)
     THEN highlight' = hl /\ UNCHANGED <<typed, fuzzy, shown, style, saved>>
     ELSE typed' = Heard(typed, search) /\ fuzzy' = fuzzy /\ Drawn(f, search, judged, hl)

(* ----------------------------- the search box ---------------------------- *)

ByScore(m) == m \/ ~toggleSmart

(* Variant: the rows keep their fuzzy verdicts. *)
SearchForKept(t, m) ==
  /\ fuzzyVal' = t /\ typed' = t /\ fuzzy' = m
  /\ lower' = (lower \/ (ByScore(m) /\ t # <<>>))
  /\ IF ByScore(m) THEN judged' = t /\ search' = <<>>
     ELSE judged' = judged /\ search' = t
  /\ IF DrawFails(filter, search', judged', lower')
     THEN /\ fromPlugin' = TRUE /\ searchVal' = search'
          /\ UNCHANGED <<shown, highlight, style, saved, byScript>>
     ELSE /\ fromPlugin' = FALSE /\ searchVal' = <<>> /\ byScript' = FALSE
          /\ Drawn(filter, search', judged', highlight)
  /\ UNCHANGED <<containers, filter>>

\* triggerSearchFunction: a fuzzy search for a text leaves the cells it has looked
\* at in lower case, for whatever looks at them later.  When the draw fails
\* fromPlugin stays set, and the box hears of no other search until the user's
\* next one.
SearchFor(t, m) ==
  /\ fuzzyVal' = t /\ typed' = t /\ fuzzy' = m
  /\ lower' = (lower \/ (ByScore(m) /\ t # <<>>))
  /\ IF ByScore(m) THEN judged' = t /\ search' = <<>>
     ELSE judged' = None /\ search' = t
  /\ IF DrawFails(filter, search', judged', lower')
     THEN /\ fromPlugin' = TRUE /\ searchVal' = search'
          /\ UNCHANGED <<shown, highlight, style, saved, byScript>>
     ELSE /\ fromPlugin' = FALSE /\ searchVal' = <<>> /\ byScript' = FALSE
          /\ Drawn(filter, search', judged', highlight)
  /\ UNCHANGED <<containers, filter>>

\* The event input: the search waits for Enter when it is told to.
Type(t) ==
  /\ t # typed
  /\ IF searchReturn
     THEN typed' = t /\ UNCHANGED <<containers, fuzzy, search, judged, lower, fuzzyVal, searchVal, filter, view, byScript>>
     ELSE SearchFor(t, fuzzy)
  /\ UNCHANGED hover

Enter == SearchFor(typed, fuzzy) /\ UNCHANGED hover
Toggle == toggleSmart /\ SearchFor(typed, ~fuzzy) /\ UNCHANGED hover

\* The mouse comes to the box or to the button: the tooltip is put on the page
\* and its buttons get one more handler each.
Hover ==
  /\ toggleSmart /\ picks < MaxListeners /\ tip' = TRUE /\ picks' = picks + 1
  /\ UNCHANGED <<containers, box, filter, view, byScript>>

\* It leaves, or the timer of 250 ms fires: remove() takes the handlers along.
Leave ==
  /\ tip /\ tip' = FALSE /\ picks' = 0
  /\ UNCHANGED <<containers, box, filter, view, byScript>>

\* A button of the tooltip that is not highlighted: the first of its handlers
\* changes the mode and highlights it, and the others return at once, so that
\* all of them together are one search.
Pick(m) ==
  /\ tip /\ picks > 0 /\ m # fuzzy
  /\ SearchFor(typed, m) /\ UNCHANGED hover

(* ----------------------------- other scripts ----------------------------- *)

\* search.fuzzy(t): the rows are judged, and drawn by whoever calls it.
SearchFuzzy(t) ==
  /\ fuzzyVal' = t /\ searchVal' = search /\ typed' = t /\ judged' = t /\ byScript' = TRUE
  /\ lower' = (lower \/ t # <<>>)
  /\ UNCHANGED <<containers, fuzzy, search, filter, view, hover>>

\* search(t).draw().
Search(t) ==
  /\ search' = t /\ byScript' = TRUE
  /\ UNCHANGED <<containers, judged, lower, fuzzyVal, searchVal, fromPlugin, filter, hover>>
  /\ IF DrawFails(filter, t, judged, lower)
     THEN UNCHANGED <<typed, fuzzy, shown, highlight, style, saved>>
     ELSE typed' = Heard(typed, t) /\ fuzzy' = fuzzy /\ Drawn(filter, t, judged, highlight)

\* The table is drawn again, to be sorted for instance.
Redraw == Redrawn(filter, highlight) /\ UNCHANGED byScript

(* -------------------------------- charts --------------------------------- *)

Kept(p) == IF p.value = Zero THEN [p EXCEPT !.value = None] ELSE p

\* dataTablesSearchClear: the highlights are removed after the draw, from the
\* rows that are on the page then.
SearchClear ==
  /\ filter' = None
  /\ typed' = Heard(typed, search) /\ fuzzy' = fuzzy
  /\ shown' = Through(None, search, judged, lower)
  /\ highlight' = highlight \ shown'
  /\ style' = [r \in Rows |-> IF r \in shown' THEN Formatted(containers, failCss, Data[r], style[r]) ELSE style[r]]
  /\ saved' = [fuzzy |-> fuzzy', typed |-> typed', search |-> search]
  /\ UNCHANGED <<containers, search, judged, lower, fuzzyVal, searchVal, fromPlugin, hover>>

\* dataTablesFindMatch: the old highlights are removed from the rows on the page.
FindMatch(p) == Redrawn(Kept(p), highlight \ shown)

\* A click on a bar, or beside all of them.  When no row is left the table is
\* drawn once more, which changes nothing.
ClickBar(p) == FindMatch(p) /\ UNCHANGED byScript
ClickBeside == SearchClear /\ UNCHANGED byScript

\* A slice of a pie or a marker of a line: the value that was clicked before
\* clears the search.
ClickMarker(p) ==
  /\ IF filter # None /\ filter.value = p.value THEN SearchClear ELSE FindMatch(p)
  /\ UNCHANGED byScript

(* --------------------------------- pages --------------------------------- *)

\* The page is loaded again: DataTables draws with the search it kept, and the
\* box and the mode of the search are restored, the latter by a click.
Reload ==
  /\ filter' = None /\ tip' = FALSE /\ picks' = 0 /\ fromPlugin' = FALSE
  /\ searchVal' = <<>> /\ lower' = (toggleSmart /\ saved.fuzzy /\ saved.typed # <<>>)
  /\ IF toggleSmart /\ saved.fuzzy
     THEN fuzzy' = TRUE /\ typed' = saved.typed /\ fuzzyVal' = saved.typed /\ judged' = saved.typed /\ search' = <<>>
     ELSE /\ fuzzy' = FALSE /\ typed' = (IF toggleSmart THEN saved.typed ELSE saved.search)
          /\ fuzzyVal' = <<>> /\ judged' = None /\ search' = saved.search
  /\ shown' = Through(None, search', judged', lower') /\ highlight' = {}
  /\ LET drawn == Searched(saved.search, None) \cup shown'
     IN style' = [r \in Rows |-> IF r \in drawn THEN Formatted(containers, failCss, Data[r], "none") ELSE "none"]
  /\ saved' = [fuzzy |-> fuzzy', typed |-> IF fuzzy' THEN typed' ELSE search', search |-> search']
  /\ UNCHANGED <<containers, byScript>>

Init ==
  /\ containers \in Containers
  /\ typed = <<>> /\ fuzzy = FALSE /\ search = <<>> /\ judged = None /\ lower = FALSE
  /\ fuzzyVal = <<>> /\ searchVal = <<>> /\ fromPlugin = FALSE
  /\ filter = None /\ shown = Rows /\ highlight = {}
  /\ style = [r \in Rows |-> Formatted(containers, failCss, Data[r], "none")]
  /\ tip = FALSE /\ picks = 0
  /\ saved = [fuzzy |-> FALSE, typed |-> <<>>, search |-> <<>>] /\ byScript = FALSE

Next ==
  \/ \E t \in Texts : Type(t)
  \/ \E t \in ByScript : SearchFuzzy(t) \/ Search(t)
  \/ Enter \/ Toggle \/ Hover \/ Leave \/ Redraw \/ ClickBeside \/ Reload
  \/ \E m \in BOOLEAN : Pick(m)
  \/ \E p \in Points : ClickBar(p) \/ ClickMarker(p)
Spec == Init /\ [][Next]_vars

(* ------------------------------ properties ------------------------------- *)

\* The box and the saved box hold texts, verdicts are of texts that were
\* searched for, and only rows that can be drawn are on view.
TypeOK ==
  /\ {typed, search, fuzzyVal, searchVal, saved.typed, saved.search} \subseteq Texts
  /\ judged \in Texts \cup {None} /\ {fuzzy, fromPlugin, tip, lower, saved.fuzzy} \subseteq BOOLEAN
  /\ shown \subseteq Rows /\ highlight \subseteq Rows
  /\ style \in [Rows -> {"none", "css", "failCss"}]
  /\ picks \in 0..MaxListeners /\ (tip <=> picks > 0)
  /\ filter # None => [category |-> filter.category, value |-> filter.value] = filter

\* After the user's own searches, changes of the mode, clicks on charts and
\* reloads, in any order, the rows on view are those that match the text in the
\* box, by the kind of search the button shows, and have the name that was clicked
\* in the chart, except that a fuzzy search has made other names of them (Renamed):
\* fuzzySearch() changes the very cells that the filter of the chart compares, so
\* that a name with a capital is not found again until the page is reloaded.
Stuck == DrawFails(filter, search, judged, lower)
Renamed == /\ lower /\ filter # None
           /\ \E r \in Rows : (InLower[Category[r]] = filter.category) # (Category[r] = filter.category)
ShownIsSearched ==
  ~byScript /\ ~Stuck /\ ~Renamed /\ ~searchReturn /\ (toggleSmart \/ judged # None) =>
    shown = {r \in Rows : /\ IF ByScore(fuzzy) THEN VerdictOf[typed][r] ELSE ExactOf[typed][r]
                          /\ filter # None => Category[r] = filter.category}

\* The state of the page brings back the search: the same text, the same kind,
\* the same rows.  (A text that waits for Enter was not searched for.)
SearchIsKept ==
  [][Reload /\ toggleSmart /\ ~searchReturn /\ ~byScript /\ ~Stuck /\ filter = None
       => typed' = typed /\ fuzzy' = fuzzy /\ shown' = shown]_vars

\* While a point is clicked the rows on view show its value highlighted, through
\* searches that hide rows and show them again.
FilterIsHighlighted ==
  filter # None /\ ~Stuck => \A r \in shown : Category[r] = filter.category /\ filter.value \in Values[r] => r \in highlight

\* The steps between two words are the edits it takes, and a row passes when, for
\* every word of the search, the last cell that has a word it begins has the
\* word itself.  (A cell after it takes the pass away: PrefixPasses.)
ExactPasses ==
  /\ \A r \in Rows : (\A i \in DOMAIN typed : EndsWithin(typed[i], Words[r])) => VerdictOf[typed][r]
  /\ \A i \in DOMAIN typed : \A r \in Rows : \A c \in DOMAIN Words[r] : \A w \in DOMAIN Words[r][c] :
       CountsEdits(typed[i], Words[r][c][w])

\* "If this search Term word is the beginning of the word in the cell we want to
\* pass this word": a row with a word for each word of the search to begin passes.
PrefixPasses ==
  \A r \in Rows : (\A i \in DOMAIN typed : Begins(typed[i], Words[r])) => VerdictOf[typed][r]

\* A row on view has the style of its conditions as they are meant: AND wants
\* all, OR one, NONE none of them.
FormatIsMeant ==
  \A r \in shown :
    LET container == containers[1]
        hold == {i \in DOMAIN container.conditions : CheckCondition(container.conditions[i], Data[r])}
        meant == CASE container.logic = "AND" -> hold = DOMAIN container.conditions
                   [] container.logic = "OR" -> hold # {}
                   [] container.logic = "NONE" -> hold = {}
    IN Len(containers) = 1 /\ container.conditions # <<>> =>
         style[r] = IF meant THEN "css" ELSE IF failCss THEN "failCss" ELSE "none"

\* The operators agree with one another: opposites never both hold, exchanging
\* the sides mirrors them, and the bounds of a range belong to one kind of range.
OperatorsAgree ==
  \A r \in shown : \A k \in DOMAIN containers : \A i \in DOMAIN containers[k].conditions :
    LET c == containers[k].conditions[i]
        check(x) == CheckCondition(x, Data[r])
    IN Comparable(c, Data[r]) =>
         /\ c.operator \in DOMAIN Opposite => check(c) # check(With(c, Opposite[c.operator]))
         /\ c.operator \in DOMAIN Mirrored /\ ~c.list =>
              check(c) = check([With(c, Mirrored[c.operator]) EXCEPT !.reverse = ~c.reverse])
         /\ c.operator = "between" /\ IsList(c) /\ ~c.reverse =>
              LET bound(n, operator) == check([With(c, operator) EXCEPT !.list = FALSE, !.value = c.value[n]])
              IN /\ check(c) = (bound(1, "gt") /\ bound(2, "lt"))
                 /\ check(With(c, "betweenInclusive")) = (bound(1, "ge") /\ bound(2, "le"))

\* "get rid of empty string which is normally treated as 0": a blank cell is in
\* no relation to a number.
BlankIsNoNumber ==
  \A r \in shown : \A k \in DOMAIN containers : \A i \in DOMAIN containers[k].conditions :
    LET c == containers[k].conditions[i] IN
    c.type = "number" /\ c.column \in DOMAIN Data[r] /\ Data[r][c.column] = <<>> /\ c.operator \in {"gt", "ge", "lt", "le", "between", "betweenInclusive"}
      => ~CheckCondition(c, Data[r])

\* The comparisons are consistent, and blank cells take no part in them.
ComparisonsAreSound == OperatorsAgree /\ BlankIsNoNumber
=============================================================================
