--------------------------- MODULE DataTableProofs ---------------------------
(* What the search of a table, its charts, its reloads and its conditions     *)
(* promise, for any rows, texts, points and conditions.  The theorems on the  *)
(* search hold for every exact and every fuzzy comparison of texts; those on  *)
(* the conditions open how the texts and numbers of a row are compared, and   *)
(* the last one opens the fuzzy comparison: the matrix of levenshtein(), the  *)
(* best of the scores and the walk over the cells.                            *)
EXTENDS DataTable, SequenceTheorems, WellFoundedInduction, TLAPS

LEMMA EmptyIsEverywhere == ASSUME NEW r \in Rows PROVE ExactOf[<<>>][r]
BY TableAssumptions DEF ExactOf

LEMMA FormattedIsStyle ==
  ASSUME NEW c, NEW data, NEW old \in {"none", "css", "failCss"}
  PROVE  Formatted(c, failCss, data, old) \in {"none", "css", "failCss"}
BY DEF Formatted

(* ------------------------------ the type --------------------------------- *)

LEMMA DrawnType ==
  ASSUME TypeOK, NEW f, NEW s \in Texts, NEW j, NEW hl, hl \subseteq Rows,
         fuzzy' \in BOOLEAN, typed' \in Texts, Drawn(f, s, j, hl)
  PROVE  /\ shown' \subseteq Rows /\ highlight' \subseteq Rows
         /\ style' \in [Rows -> {"none", "css", "failCss"}]
         /\ {saved'.typed, saved'.search} \subseteq Texts /\ saved'.fuzzy \in BOOLEAN
<1>1. shown' \subseteq Rows /\ highlight' \subseteq Rows
  BY DEF Drawn, Through, Searched, Lit
<1>2. style' \in [Rows -> {"none", "css", "failCss"}]
  BY FormattedIsStyle DEF Drawn, TypeOK
<1>3. {saved'.typed, saved'.search} \subseteq Texts /\ saved'.fuzzy \in BOOLEAN
  BY DEF Drawn
<1> QED BY <1>1, <1>2, <1>3

LEMMA SearchForType ==
  ASSUME TypeOK, NEW t \in Texts, NEW m \in BOOLEAN, SearchFor(t, m), UNCHANGED hover
  PROVE  TypeOK'
<1>1. /\ {typed', search', fuzzyVal', searchVal'} \subseteq Texts /\ judged' \in Texts \cup {None}
      /\ {fuzzy', fromPlugin', lower'} \subseteq BOOLEAN /\ filter' = filter /\ tip' = tip /\ picks' = picks
  BY TableAssumptions DEF TypeOK, SearchFor, hover
<1>2. \/ shown' = shown /\ highlight' = highlight /\ style' = style /\ saved' = saved
      \/ Drawn(filter, search', judged', highlight)
  BY DEF SearchFor
<1>3. /\ shown' \subseteq Rows /\ highlight' \subseteq Rows
      /\ style' \in [Rows -> {"none", "css", "failCss"}]
      /\ {saved'.typed, saved'.search} \subseteq Texts /\ saved'.fuzzy \in BOOLEAN
  <2>1. CASE shown' = shown /\ highlight' = highlight /\ style' = style /\ saved' = saved
    BY <2>1 DEF TypeOK
  <2>2. CASE Drawn(filter, search', judged', highlight)
    <3>1. highlight \subseteq Rows /\ search' \in Texts /\ typed' \in Texts /\ fuzzy' \in BOOLEAN
      BY <1>1 DEF TypeOK
    <3> QED BY <2>2, <3>1, DrawnType
  <2> QED BY <1>2, <2>1, <2>2
<1> QED BY <1>1, <1>3 DEF TypeOK

LEMMA RedrawnType ==
  ASSUME TypeOK, NEW f, NEW hl, hl \subseteq Rows, Redrawn(f, hl),
         f # None => [category |-> f.category, value |-> f.value] = f
  PROVE  TypeOK'
<1>1. Heard(typed, search) \in Texts
  BY DEF Heard, TypeOK
<1>2. /\ {typed', search', fuzzyVal', searchVal'} \subseteq Texts /\ judged' \in Texts \cup {None}
      /\ {fuzzy', fromPlugin', lower'} \subseteq BOOLEAN /\ filter' = f /\ tip' = tip /\ picks' = picks
  BY <1>1 DEF TypeOK, Redrawn, hover
<1>3. /\ shown' \subseteq Rows /\ highlight' \subseteq Rows
      /\ style' \in [Rows -> {"none", "css", "failCss"}]
      /\ {saved'.typed, saved'.search} \subseteq Texts /\ saved'.fuzzy \in BOOLEAN
  <2>1. CASE highlight' = hl /\ shown' = shown /\ style' = style /\ saved' = saved
    BY <2>1 DEF TypeOK
  <2>2. CASE Drawn(f, search, judged, hl)
    <3>1. search \in Texts /\ typed' \in Texts /\ fuzzy' \in BOOLEAN
      BY <1>2 DEF TypeOK
    <3> QED BY <2>2, <3>1, DrawnType
  <2> QED BY <2>1, <2>2 DEF Redrawn
<1> QED BY <1>2, <1>3 DEF TypeOK

LEMMA FindMatchType ==
  ASSUME TypeOK, NEW p \in Points, FindMatch(p)
  PROVE  TypeOK'
<1>1. [category |-> Kept(p).category, value |-> Kept(p).value] = Kept(p)
  BY TableAssumptions DEF Kept
<1>2. highlight \ shown \subseteq Rows
  BY DEF TypeOK
<1> QED BY <1>1, <1>2, RedrawnType DEF FindMatch

LEMMA ClearType ==
  ASSUME TypeOK, SearchClear
  PROVE  TypeOK'
<1>1. Heard(typed, search) \in Texts
  BY DEF Heard, TypeOK
<1>2. style' \in [Rows -> {"none", "css", "failCss"}]
  BY FormattedIsStyle DEF SearchClear, TypeOK
<1>3. shown' \subseteq Rows /\ highlight' \subseteq Rows
  BY DEF SearchClear, TypeOK, Through, Searched
<1>4. {saved'.typed, saved'.search} \subseteq Texts /\ saved'.fuzzy \in BOOLEAN
  BY <1>1 DEF SearchClear, TypeOK
<1> QED BY <1>1, <1>2, <1>3, <1>4 DEF SearchClear, TypeOK, hover

LEMMA ReloadType ==
  ASSUME TypeOK, Reload
  PROVE  TypeOK'
<1>1. /\ {typed', search', fuzzyVal', searchVal'} \subseteq Texts /\ judged' \in Texts \cup {None}
      /\ {fuzzy', fromPlugin', tip', lower'} \subseteq BOOLEAN /\ filter' = None /\ ~tip' /\ picks' = 0
  BY TableAssumptions, ZenonT(60) DEF TypeOK, Reload
<1>2. style' \in [Rows -> {"none", "css", "failCss"}]
  BY FormattedIsStyle DEF Reload
<1>3. shown' \subseteq Rows /\ highlight' \subseteq Rows
  BY DEF Reload, Through, Searched
<1>4. {saved'.typed, saved'.search} \subseteq Texts /\ saved'.fuzzy \in BOOLEAN
  BY <1>1 DEF Reload
<1> QED BY <1>1, <1>2, <1>3, <1>4, TableAssumptions, SMTT(40) DEF TypeOK

LEMMA SearchType ==
  ASSUME TypeOK, NEW t \in ByScript, Search(t)
  PROVE  TypeOK'
<1>1. t \in Texts
  BY TableAssumptions
<1>2. Heard(typed, t) \in Texts
  BY <1>1 DEF Heard, TypeOK
<1>3. /\ {typed', search', fuzzyVal', searchVal'} \subseteq Texts /\ judged' \in Texts \cup {None}
      /\ {fuzzy', fromPlugin', lower'} \subseteq BOOLEAN /\ filter' = filter /\ tip' = tip /\ picks' = picks
  BY <1>1, <1>2 DEF TypeOK, Search, hover
<1>4. /\ shown' \subseteq Rows /\ highlight' \subseteq Rows
      /\ style' \in [Rows -> {"none", "css", "failCss"}]
      /\ {saved'.typed, saved'.search} \subseteq Texts /\ saved'.fuzzy \in BOOLEAN
  <2>1. CASE highlight' = highlight /\ shown' = shown /\ style' = style /\ saved' = saved
    BY <2>1 DEF TypeOK
  <2>2. CASE Drawn(filter, t, judged, highlight)
    <3>1. highlight \subseteq Rows /\ typed' \in Texts /\ fuzzy' \in BOOLEAN
      BY <1>3 DEF TypeOK
    <3> QED BY <1>1, <2>2, <3>1, DrawnType
  <2> QED BY <2>1, <2>2 DEF Search
<1> QED BY <1>3, <1>4 DEF TypeOK

LEMMA InitType == Init => TypeOK
<1> SUFFICES ASSUME Init PROVE TypeOK
  OBVIOUS
<1>1. style \in [Rows -> {"none", "css", "failCss"}]
  BY FormattedIsStyle DEF Init
<1>2. picks \in 0..MaxListeners /\ (tip <=> picks > 0)
  BY TableAssumptions DEF Init
<1>3. {typed, search, fuzzyVal, searchVal, saved.typed, saved.search} \subseteq Texts
  BY TableAssumptions DEF Init
<1>4. {fuzzy, fromPlugin, tip, saved.fuzzy} \subseteq BOOLEAN
  BY DEF Init
<1> QED BY <1>1, <1>2, <1>3, <1>4 DEF Init, TypeOK

LEMMA TypeStep == TypeOK /\ [Next]_vars => TypeOK'
<1> SUFFICES ASSUME TypeOK, [Next]_vars PROVE TypeOK'
  OBVIOUS
<1>1. ASSUME NEW t \in Texts, Type(t) PROVE TypeOK'
  <2>1. CASE searchReturn
    BY <1>1, <2>1 DEF Type, TypeOK, hover, view
  <2>2. CASE ~searchReturn
    <3>1. SearchFor(t, fuzzy) /\ UNCHANGED hover /\ fuzzy \in BOOLEAN
      BY <1>1, <2>2 DEF Type, TypeOK
    <3> QED BY <3>1, SearchForType
  <2> QED BY <2>1, <2>2
<1>2. ASSUME NEW t \in ByScript, SearchFuzzy(t) PROVE TypeOK'
  BY <1>2, TableAssumptions DEF SearchFuzzy, TypeOK, hover, view
<1>3. ASSUME Enter \/ Toggle \/ \E m \in BOOLEAN : Pick(m) PROVE TypeOK'
  <2>1. \E m \in BOOLEAN : SearchFor(typed, m) /\ UNCHANGED hover
    BY <1>3 DEF Enter, Toggle, Pick, TypeOK
  <2>2. typed \in Texts
    BY DEF TypeOK
  <2> QED BY <2>1, <2>2, SearchForType
<1>4. ASSUME Hover PROVE TypeOK'
  BY <1>4, TableAssumptions DEF Hover, TypeOK, box, view
<1>5. ASSUME Leave PROVE TypeOK'
  <2>1. picks' \in 0..MaxListeners /\ (tip' <=> picks' > 0) /\ tip' \in BOOLEAN
    <3>1. tip' = FALSE /\ picks' = 0 /\ MaxListeners \in Nat
      BY <1>5, TableAssumptions DEF Leave
    <3>2. picks' \in 0..MaxListeners /\ ~(picks' > 0)
      BY <3>1
    <3>3. ~tip' /\ tip' \in BOOLEAN
      BY <3>1, Zenon
    <3> QED BY <3>2, <3>3
  <2>2. UNCHANGED <<typed, fuzzy, search, judged, lower, fuzzyVal, searchVal, filter, shown, highlight, style, saved, fromPlugin>>
    BY <1>5 DEF Leave, box, view
  <2>3. {fuzzy, fromPlugin, tip', lower', saved.fuzzy} \subseteq BOOLEAN
    BY <2>1, <2>2 DEF TypeOK
  <2> QED BY <2>1, <2>2, <2>3 DEF TypeOK
<1>6. ASSUME Redraw PROVE TypeOK'
  BY <1>6, RedrawnType DEF Redraw, TypeOK
<1>7. ASSUME ClickBeside PROVE TypeOK'
  BY <1>7, ClearType DEF ClickBeside
<1>8. ASSUME NEW p \in Points, ClickBar(p) \/ ClickMarker(p) PROVE TypeOK'
  BY <1>8, ClearType, FindMatchType DEF ClickBar, ClickMarker
<1>9. ASSUME UNCHANGED vars PROVE TypeOK'
  BY <1>9 DEF vars, box, view, hover, TypeOK
<1> QED
  BY <1>1, <1>2, <1>3, <1>4, <1>5, <1>6, <1>7, <1>8, <1>9, SearchType, ReloadType DEF Next

(* The box, the verdicts and the saved state are always about texts that were *)
(* typed or searched for.                                                     *)
THEOREM TypeCorrect == Spec => []TypeOK
BY InitType, TypeStep, PTL DEF Spec

(* --------------------------- the rows on view ---------------------------- *)

\* The kind of search decides which of the two searches has the text.
Mode ==
  /\ toggleSmart => IF fuzzy THEN judged = typed /\ search = <<>> ELSE judged = None /\ search = typed
  /\ ~toggleSmart /\ judged # None => judged = typed /\ search = <<>>

\* The listener of 'search' finds what the box has already.
Heeded ==
  fromPlugin \/ (searchVal = <<>> /\ (search = <<>> => fuzzyVal = typed) /\ (search # <<>> => typed = search))

\* What was drawn and saved last is current, unless a draw fails.
Current ==
  ~Stuck => /\ shown = Through(filter, search, judged, lower)
            /\ saved = [fuzzy |-> fuzzy, typed |-> typed, search |-> search]

\* Why the rows on view stay those that are meant: a saved state without a mode
\* has one text for both searches.
SearchInv ==
  ~byScript /\ ~searchReturn =>
    /\ Mode /\ Heeded /\ Current
    /\ toggleSmart /\ ~saved.fuzzy => saved.typed = saved.search

LEMMA InitSearchInv == Init => SearchInv
<1> SUFFICES ASSUME Init PROVE SearchInv
  OBVIOUS
<1>1. Mode /\ Heeded
  BY DEF Init, Mode, Heeded
<1>2. Through(filter, search, judged, lower) = Rows
  BY EmptyIsEverywhere DEF Init, Through, Searched
<1>3. shown = Rows /\ saved = [fuzzy |-> fuzzy, typed |-> typed, search |-> search]
  BY DEF Init
<1>4. saved.typed = saved.search
  BY DEF Init
<1> QED BY <1>1, <1>2, <1>3, <1>4 DEF SearchInv, Current

LEMMA SearchForInv ==
  ASSUME TypeOK, SearchInv, NEW t \in Texts, NEW m \in BOOLEAN, SearchFor(t, m)
  PROVE  SearchInv'
<1>1. Mode' /\ Heeded'
  BY TableAssumptions DEF SearchFor, ByScore, Mode, Heeded
<1>2. CASE DrawFails(filter, search', judged', lower')
  <2>1. Stuck' /\ saved' = saved /\ byScript' = byScript
    BY <1>2 DEF SearchFor, Stuck
  <2> QED BY <1>1, <2>1 DEF SearchInv, Current
<1>3. CASE ~DrawFails(filter, search', judged', lower')
  <2>1. filter' = filter /\ Drawn(filter, search', judged', highlight)
    BY <1>3 DEF SearchFor
  <2>2. saved' = [fuzzy |-> fuzzy', typed |-> typed', search |-> search']
    BY <2>1 DEF Drawn
  <2>3. shown' = Through(filter, search', judged', lower')
    BY <2>1 DEF Drawn
  <2>4. Current'
    BY <2>1, <2>2, <2>3 DEF Current, Through, Searched, Name, Stuck
  <2>5. toggleSmart /\ ~saved'.fuzzy => saved'.typed = saved'.search
    BY <2>2 DEF SearchFor, ByScore
  <2> QED BY <1>1, <2>4, <2>5 DEF SearchInv
<1> QED BY <1>2, <1>3

LEMMA HeardIsTyped == ASSUME Heeded PROVE Heard(typed, search) = typed
BY DEF Heeded, Heard

LEMMA RedrawnInv ==
  ASSUME TypeOK, SearchInv, NEW f, NEW hl, Redrawn(f, hl), byScript' = byScript
  PROVE  SearchInv'
<1> SUFFICES ASSUME ~byScript, ~searchReturn
             PROVE  SearchInv'
  BY DEF SearchInv
<1>1. Mode /\ Heeded /\ (toggleSmart /\ ~saved.fuzzy => saved.typed = saved.search)
  BY DEF SearchInv
<1>2. typed' = typed /\ fuzzy' = fuzzy /\ search' = search /\ judged' = judged /\ lower' = lower
      /\ fromPlugin' = fromPlugin /\ searchVal' = searchVal /\ fuzzyVal' = fuzzyVal /\ filter' = f
  BY <1>1, HeardIsTyped DEF Redrawn
<1>3. Mode' /\ Heeded'
  BY <1>1, <1>2 DEF Mode, Heeded
<1>4. CASE DrawFails(f, search, judged, lower)
  <2>1. Stuck' /\ saved' = saved
    BY <1>2, <1>4 DEF Redrawn, Stuck, DrawFails, Through, Searched, Name
  <2> QED BY <1>1, <1>3, <2>1 DEF SearchInv, Current
<1>5. CASE ~DrawFails(f, search, judged, lower)
  <2>1. Drawn(f, search, judged, hl)
    BY <1>5 DEF Redrawn
  <2>2. shown' = Through(f, search, judged, lower) /\ saved' = [fuzzy |-> fuzzy', typed |-> typed', search |-> search]
    BY <1>2, <2>1 DEF Drawn
  <2>3. Current'
    BY <1>2, <2>2 DEF Current, Through, Searched, Name, Stuck
  <2>4. toggleSmart /\ ~saved'.fuzzy => saved'.typed = saved'.search
    BY <1>1, <1>2, <2>2 DEF Mode
  <2> QED BY <1>3, <2>3, <2>4 DEF SearchInv
<1> QED BY <1>4, <1>5

LEMMA ClearInv ==
  ASSUME TypeOK, SearchInv, SearchClear, byScript' = byScript
  PROVE  SearchInv'
<1> SUFFICES ASSUME ~byScript, ~searchReturn
             PROVE  SearchInv'
  BY DEF SearchInv
<1>1. Mode /\ Heeded
  BY DEF SearchInv
<1>2. typed' = typed /\ fuzzy' = fuzzy /\ search' = search /\ judged' = judged /\ lower' = lower
      /\ fromPlugin' = fromPlugin /\ searchVal' = searchVal /\ fuzzyVal' = fuzzyVal /\ filter' = None
  BY <1>1, HeardIsTyped DEF SearchClear
<1>3. Mode' /\ Heeded'
  BY <1>1, <1>2 DEF Mode, Heeded
<1>4. shown' = Through(None, search, judged, lower) /\ saved' = [fuzzy |-> fuzzy', typed |-> typed', search |-> search]
  BY DEF SearchClear
<1>5. Current'
  BY <1>2, <1>4 DEF Current, Through, Searched, Name, Stuck
<1>6. toggleSmart /\ ~saved'.fuzzy => saved'.typed = saved'.search
  BY <1>1, <1>2, <1>4 DEF Mode
<1> QED BY <1>3, <1>5, <1>6 DEF SearchInv

LEMMA ReloadInv ==
  ASSUME TypeOK, SearchInv, Reload
  PROVE  SearchInv'
<1> SUFFICES ASSUME ~byScript, ~searchReturn
             PROVE  SearchInv'
  BY DEF SearchInv, Reload
<1>1. toggleSmart /\ ~saved.fuzzy => saved.typed = saved.search
  BY DEF SearchInv
<1>2. Mode' /\ Heeded'
  BY <1>1, TableAssumptions DEF Reload, Mode, Heeded
<1>3. shown' = Through(None, search', judged', lower') /\ filter' = None
  BY DEF Reload
<1>4. saved' = [fuzzy |-> fuzzy', typed |-> typed', search |-> search']
  BY <1>1 DEF Reload
<1>5. Current'
  BY <1>3, <1>4 DEF Current, Through, Searched, Name, Stuck
<1>6. toggleSmart /\ ~saved'.fuzzy => saved'.typed = saved'.search
  BY <1>2, <1>4 DEF Mode
<1> QED BY <1>2, <1>5, <1>6 DEF SearchInv

LEMMA SearchInvStep == TypeOK /\ SearchInv /\ [Next]_vars => SearchInv'
<1> SUFFICES ASSUME TypeOK, SearchInv, [Next]_vars PROVE SearchInv'
  OBVIOUS
<1>1. ASSUME NEW t \in Texts, Type(t) PROVE SearchInv'
  <2>1. CASE searchReturn
    BY <2>1 DEF SearchInv
  <2>2. CASE ~searchReturn
    <3>1. SearchFor(t, fuzzy) /\ fuzzy \in BOOLEAN
      BY <1>1, <2>2 DEF Type, TypeOK
    <3> QED BY <3>1, SearchForInv
  <2> QED BY <2>1, <2>2
<1>2. ASSUME NEW t \in ByScript, SearchFuzzy(t) \/ Search(t) PROVE SearchInv'
  BY <1>2 DEF SearchFuzzy, Search, SearchInv
<1>3. ASSUME Enter \/ Toggle \/ \E m \in BOOLEAN : Pick(m) PROVE SearchInv'
  <2>1. \E m \in BOOLEAN : SearchFor(typed, m)
    BY <1>3 DEF Enter, Toggle, Pick, TypeOK
  <2>2. typed \in Texts
    BY DEF TypeOK
  <2> QED BY <2>1, <2>2, SearchForInv
<1>4. ASSUME UNCHANGED <<containers, box, filter, view, byScript>> PROVE SearchInv'
  BY <1>4 DEF box, view, SearchInv, Mode, Heeded, Current, Stuck, DrawFails, Through, Searched, Name
<1>5. ASSUME Redraw PROVE SearchInv'
  BY <1>5, RedrawnInv DEF Redraw
<1>6. ASSUME ClickBeside PROVE SearchInv'
  BY <1>6, ClearInv DEF ClickBeside
<1>7. ASSUME NEW p \in Points, ClickBar(p) \/ ClickMarker(p) PROVE SearchInv'
  BY <1>7, ClearInv, RedrawnInv DEF ClickBar, ClickMarker, FindMatch
<1> QED
  BY <1>1, <1>2, <1>3, <1>4, <1>5, <1>6, <1>7, ReloadInv DEF Next, Hover, Leave, vars

(* The mode, the verdicts, the rows and the saved state agree with the text in *)
(* the box between any two events.                                            *)
THEOREM SearchInOrder == Spec => []SearchInv
BY InitType, TypeStep, InitSearchInv, SearchInvStep, PTL DEF Spec

LEMMA MeantRows == TypeOK /\ SearchInv => ShownIsSearched
<1> SUFFICES ASSUME TypeOK, SearchInv, ~byScript, ~Stuck, ~Renamed, ~searchReturn, toggleSmart \/ judged # None
             PROVE  shown = {r \in Rows : /\ IF ByScore(fuzzy) THEN VerdictOf[typed][r] ELSE ExactOf[typed][r]
                                          /\ filter # None => Category[r] = filter.category}
  BY DEF ShownIsSearched
<1>1. Mode /\ shown = Through(filter, search, judged, lower)
  BY DEF SearchInv, Current
<1>2. typed # None
  BY TableAssumptions DEF TypeOK
<1>5. \A r \in Rows : filter # None => (Name(r, lower) = filter.category <=> Category[r] = filter.category)
  <2>1. CASE lower /\ filter # None
    BY <2>1, Zenon DEF Renamed, Name
  <2>2. CASE ~lower \/ filter = None
    BY <2>2 DEF Name
  <2> QED BY <2>1, <2>2
<1>3. CASE ByScore(fuzzy)
  <2>1. judged = typed /\ search = <<>>
    BY <1>1, <1>3 DEF Mode, ByScore
  <2> QED BY <1>1, <1>2, <1>3, <1>5, <2>1, EmptyIsEverywhere DEF Through, Searched
<1>4. CASE ~ByScore(fuzzy)
  <2>1. judged = None /\ search = typed
    BY <1>1, <1>4 DEF Mode, ByScore
  <2> QED BY <1>1, <1>4, <1>5, <2>1 DEF Through, Searched
<1> QED BY <1>3, <1>4

(* The rows on view match the text in the box by the kind of search that is    *)
(* shown, for all rows and texts and every comparison of them, after any       *)
(* sequence of searches, clicks on charts, draws that fail, and reloads.       *)
THEOREM ShownIsSearchedHolds == Spec => []ShownIsSearched
BY TypeCorrect, SearchInOrder, MeantRows, PTL

(* ------------------------------- highlights ------------------------------ *)

\* Also when a draw fails: the point's value is missing then, and no cell has it.
Lighted(f, rows, lit) ==
  f # None => \A r \in rows : Category[r] = f.category /\ f.value \in Values[r] => r \in lit

LEMMA DrawnLights ==
  ASSUME NEW f, NEW s, NEW j, NEW hl, Drawn(f, s, j, hl)
  PROVE  Lighted(f, shown', highlight')
BY DEF Drawn, Lit, Lighted

LEMMA NoValueLights ==
  ASSUME NEW f, NEW s, NEW j, NEW low, DrawFails(f, s, j, low), NEW rows, rows \subseteq Rows, NEW lit
  PROVE  Lighted(f, rows, lit)
BY TableAssumptions DEF DrawFails, Lighted

LEMMA SearchForLights ==
  ASSUME TypeOK, Lighted(filter, shown, highlight), NEW t, NEW m, SearchFor(t, m)
  PROVE  Lighted(filter, shown, highlight)'
<1>1. filter' = filter
  BY DEF SearchFor
<1>2. \/ shown' = shown /\ highlight' = highlight
      \/ Drawn(filter, search', judged', highlight)
  BY DEF SearchFor
<1> QED BY <1>1, <1>2, DrawnLights DEF Lighted

LEMMA RedrawnLights ==
  ASSUME TypeOK, NEW f, NEW hl, Redrawn(f, hl)
  PROVE  Lighted(filter, shown, highlight)'
<1>1. filter' = f /\ shown \subseteq Rows
  BY DEF Redrawn, TypeOK
<1>2. CASE DrawFails(f, search, judged, lower)
  <2>1. shown' = shown
    BY <1>2 DEF Redrawn
  <2>2. Lighted(f, shown, highlight')
    BY <1>1, <1>2, NoValueLights
  <2> QED BY <1>1, <2>1, <2>2 DEF Lighted
<1>3. CASE ~DrawFails(f, search, judged, lower)
  <2>1. Drawn(f, search, judged, hl)
    BY <1>3 DEF Redrawn
  <2> QED BY <1>1, <2>1, DrawnLights DEF Lighted
<1> QED BY <1>2, <1>3

LEMMA LightedStep == TypeOK /\ Lighted(filter, shown, highlight) /\ [Next]_vars => Lighted(filter, shown, highlight)'
<1> SUFFICES ASSUME TypeOK, Lighted(filter, shown, highlight), [Next]_vars
             PROVE  Lighted(filter, shown, highlight)'
  OBVIOUS
<1>1. ASSUME NEW t \in Texts, Type(t) PROVE Lighted(filter, shown, highlight)'
  <2>1. SearchFor(t, fuzzy) \/ UNCHANGED <<filter, shown, highlight>>
    BY <1>1 DEF Type, view
  <2> QED BY <2>1, SearchForLights DEF Lighted
<1>2. ASSUME NEW t \in ByScript, Search(t) PROVE Lighted(filter, shown, highlight)'
  <2>1. filter' = filter /\ (UNCHANGED <<shown, highlight>> \/ Drawn(filter, t, judged, highlight))
    BY <1>2 DEF Search
  <2> QED BY <2>1, DrawnLights DEF Lighted
<1>3. ASSUME Enter \/ Toggle \/ \E m \in BOOLEAN : Pick(m) PROVE Lighted(filter, shown, highlight)'
  <2>1. \E m : SearchFor(typed, m)
    BY <1>3 DEF Enter, Toggle, Pick
  <2> QED BY <2>1, SearchForLights
<1>4. ASSUME filter' = None PROVE Lighted(filter, shown, highlight)'
  BY <1>4 DEF Lighted
<1>5. ASSUME UNCHANGED <<filter, shown, highlight>> PROVE Lighted(filter, shown, highlight)'
  BY <1>5 DEF Lighted
<1>6. ASSUME \E f, hl : Redrawn(f, hl) PROVE Lighted(filter, shown, highlight)'
  BY <1>6, RedrawnLights
<1>7. ASSUME Next
      PROVE  \/ \E t \in Texts : Type(t)
             \/ \E t \in ByScript : Search(t)
             \/ Enter \/ Toggle \/ \E m \in BOOLEAN : Pick(m)
             \/ filter' = None
             \/ UNCHANGED <<filter, shown, highlight>>
             \/ \E f, hl : Redrawn(f, hl)
  BY <1>7 DEF Next, SearchFuzzy, Hover, Leave, Redraw, ClickBeside, SearchClear, Reload, ClickBar, ClickMarker, FindMatch, view
<1>8. ASSUME UNCHANGED vars PROVE UNCHANGED <<filter, shown, highlight>>
  BY <1>8 DEF vars, view
<1> QED BY <1>1, <1>2, <1>3, <1>4, <1>5, <1>6, <1>7, <1>8

(* While a point is clicked the rows on view show its value highlighted: for   *)
(* any points, values and rows, through searches that hide rows and show them  *)
(* again and through draws that fail.                                          *)
THEOREM FilterIsHighlightedHolds == Spec => []FilterIsHighlighted
<1>1. Init => Lighted(filter, shown, highlight)
  BY DEF Init, Lighted
<1>2. Lighted(filter, shown, highlight) => FilterIsHighlighted
  BY DEF Lighted, FilterIsHighlighted
<1> QED BY <1>1, <1>2, InitType, TypeStep, LightedStep, PTL DEF Spec

(* ------------------------------- the search ------------------------------ *)

LEMMA ReloadStep ==
  ASSUME TypeOK, SearchInv, Reload, toggleSmart, ~searchReturn, ~byScript, ~Stuck, filter = None
  PROVE  typed' = typed /\ fuzzy' = fuzzy /\ shown' = shown
<1>1. /\ Mode /\ shown = Through(None, search, judged, lower)
      /\ saved = [fuzzy |-> fuzzy, typed |-> typed, search |-> search]
  BY DEF SearchInv, Current
<1>2. CASE fuzzy
  <2>1. judged = typed /\ search = <<>>
    BY <1>1, <1>2 DEF Mode
  <2>2. saved.fuzzy /\ saved.typed = typed
    BY <1>1, <1>2
  <2>3. fuzzy' = TRUE /\ typed' = typed /\ judged' = judged /\ search' = search
    BY <2>1, <2>2 DEF Reload
  <2>4. fuzzy = TRUE
    BY <1>2 DEF TypeOK
  <2>5. shown' = Through(None, search', judged', lower')
    BY DEF Reload
  <2> QED BY <1>1, <2>3, <2>4, <2>5 DEF Through
<1>3. CASE ~fuzzy
  <2>1. judged = None /\ search = typed
    BY <1>1, <1>3 DEF Mode
  <2>2. ~saved.fuzzy /\ saved.typed = typed /\ saved.search = search
    BY <1>1, <1>3
  <2>3. fuzzy' = FALSE /\ typed' = typed /\ judged' = judged /\ search' = search
    BY <2>1, <2>2 DEF Reload
  <2>4. fuzzy = FALSE
    BY <1>3 DEF TypeOK
  <2>5. shown' = Through(None, search', judged', lower')
    BY DEF Reload
  <2> QED BY <1>1, <2>3, <2>4, <2>5 DEF Through
<1> QED BY <1>2, <1>3

(* A reload brings back the text, the mode and the rows, whatever came before. *)
THEOREM SearchIsKeptHolds == Spec => SearchIsKept
<1>1. TypeOK /\ SearchInv /\ [Next]_vars =>
        [Reload /\ toggleSmart /\ ~searchReturn /\ ~byScript /\ ~Stuck /\ filter = None
           => typed' = typed /\ fuzzy' = fuzzy /\ shown' = shown]_vars
  BY ReloadStep
<1> QED
  BY <1>1, TypeCorrect, SearchInOrder, PTL DEF Spec, SearchIsKept

(* -------------------------- the styles of the rows ------------------------ *)

LEMMA SequenceDomain ==
  ASSUME NEW s, IsSequence(s)
  PROVE  Len(s) \in Nat /\ DOMAIN s = 1..Len(s)
<1> DEFINE n == Len(s)
<1>1. n \in Nat /\ s = [i \in 1..n |-> s[i]]
  BY DEF IsSequence
<1>2. DOMAIN s = 1..n
  <2> HIDE DEF n
  <2> QED BY <1>1
<1> QED BY <1>1, <1>2

LEMMA SequenceIsSeq ==
  ASSUME NEW s, IsSequence(s)
  PROVE  s \in Seq({s[i] : i \in DOMAIN s})
<1> DEFINE n == Len(s)
           S == {s[i] : i \in DOMAIN s}
<1>1. n \in Nat /\ s = [i \in 1..n |-> s[i]] /\ DOMAIN s = 1..n
  BY SequenceDomain DEF IsSequence
<1>2. \A i \in 1..n : s[i] \in S
  BY <1>1
<1>3. s \in [1..n -> S]
  <2> HIDE DEF n, S
  <2> QED BY <1>1, <1>2
<1> HIDE DEF n, S
<1>4. s \in Seq(S)
  BY <1>1, <1>3
<1> QED BY <1>4 DEF S

LEMMA OneContainer ==
  ASSUME NEW cs, DOMAIN cs = 1..1, NEW data, IsContainer(cs[1])
  PROVE  Found(cs, data) =
           Judge(cs[1].logic, [i \in DOMAIN cs[1].conditions |-> CheckCondition(cs[1].conditions[i], data)], FALSE)
<1> DEFINE conditions == cs[1].conditions
           checks == [i \in DOMAIN conditions |-> CheckCondition(conditions[i], data)]
           base == [match |-> <<>>, found |-> FALSE]
           op(s, container) ==
             LET match == s.match \o [i \in DOMAIN container.conditions |-> CheckCondition(container.conditions[i], data)]
             IN [match |-> match, found |-> Judge(container.logic, match, s.found)]
           Step(f, X) == IF X = {} THEN base ELSE op(f[X \ {Max(X)}], cs[Max(X)])
           Fold == CHOOSE f : f = [X \in SUBSET (1..1) |-> Step(f, X)]
<1>0. 1..1 = {1}
  OBVIOUS
<1>1. \A X \in SUBSET (1..1) : X = {} \/ X = {1}
  <2>1. \A X \in SUBSET {1} : X = {} \/ X = {1}
    BY Zenon
  <2> QED BY <1>0, <2>1
<1>2. Max({1}) = 1
  BY DEF Max
<1>3. {1} \ {Max({1})} = {}
  BY <1>2
<1>4. \E f : f = [X \in SUBSET (1..1) |-> Step(f, X)]
  <2> DEFINE g == [X \in SUBSET (1..1) |-> IF X = {} THEN base ELSE op(base, cs[1])]
  <2> HIDE DEF op, base
  <2>1. g[{}] = base
    BY Zenon
  <2>2. \A X \in SUBSET (1..1) : Step(g, X) = IF X = {} THEN base ELSE op(base, cs[1])
    <3> TAKE X \in SUBSET (1..1)
    <3>1. CASE X = {}
      BY <3>1, Zenon
    <3>2. CASE X = {1}
      <4>1. X \ {Max(X)} = {} /\ Max(X) = 1 /\ X # {}
        BY <1>2, <1>3, <3>2
      <4> HIDE DEF g
      <4> QED BY <2>1, <4>1
    <3> QED BY <1>1, <3>1, <3>2
  <2>3. g = [X \in SUBSET (1..1) |-> Step(g, X)]
    <3> HIDE DEF Step
    <3> QED BY <2>2, Zenon
  <2> HIDE DEF g, Step
  <2> QED BY <2>3
<1>5. Fold = [X \in SUBSET (1..1) |-> Step(Fold, X)]
  <2> HIDE DEF Step
  <2> QED BY <1>4
<1>6. Fold[{}] = base
  <2> HIDE DEF base, op, Fold
  <2>1. {} \in SUBSET (1..1)
    OBVIOUS
  <2>2. Step(Fold, {}) = base
    BY Zenon
  <2> HIDE DEF Step
  <2> QED BY <1>5, <2>1, <2>2
<1>7. Fold[{1}] = op(base, cs[1])
  <2> HIDE DEF base, op, Fold
  <2>1. {1} \in SUBSET (1..1) /\ {1} # {}
    OBVIOUS
  <2>2. Step(Fold, {1}) = op(base, cs[1])
    BY <1>2, <1>3, <1>6, <2>1, Zenon
  <2> HIDE DEF Step
  <2> QED BY <1>5, <2>1, <2>2
<1>8. Found(cs, data) = Fold[1..1].found
  BY Zenon DEF Found, FoldLeft, MapThenFoldSet
<1>9. Found(cs, data) = op(base, cs[1]).found
  <2> HIDE DEF Fold, op, base
  <2> QED BY <1>0, <1>7, <1>8, Zenon
<1>10. <<>> \o checks = checks
  <2>1. PICK n \in Nat : DOMAIN conditions = 1..n
    BY SequenceDomain DEF IsContainer
  <2>2. checks \in Seq({checks[i] : i \in 1..n})
    <3>1. checks \in [1..n -> {checks[i] : i \in 1..n}]
      BY <2>1
    <3> HIDE DEF checks
    <3> QED BY <3>1
  <2> HIDE DEF checks
  <2> QED BY <2>2
<1>11. op(base, cs[1]) = [match |-> <<>> \o checks, found |-> Judge(cs[1].logic, <<>> \o checks, FALSE)]
  BY Zenon
<1> HIDE DEF Fold, op, base, checks
<1>12. Found(cs, data) = Judge(cs[1].logic, checks, FALSE)
  <2> DEFINE verdict == Judge(cs[1].logic, checks, FALSE)
  <2>1. op(base, cs[1]) = [match |-> checks, found |-> verdict]
    BY <1>10, <1>11, Zenon
  <2> HIDE DEF verdict
  <2>2. op(base, cs[1]).found = verdict
    BY <2>1
  <2> QED BY <1>9, <2>2, Zenon DEF verdict
<1> QED BY <1>12, Zenon DEF checks

LEMMA CompareIsBoolean == ASSUME NEW c, NEW a, NEW b PROVE Compare(c, a, b) \in BOOLEAN
BY DEF Compare, Ordered, Equal, IsIn, HasPart, TextLess, IsList

LEMMA CheckIsBoolean == ASSUME NEW c, NEW data PROVE CheckCondition(c, data) \in BOOLEAN
BY CompareIsBoolean DEF CheckCondition

\* What the logic of a container means when the conditions in hold are met, of all.
Means(logic, hold, all) ==
  CASE logic = "AND" -> hold = all
    [] logic = "OR" -> hold # {}
    [] logic = "NONE" -> hold = {}

LEMMA JudgedAsMeant ==
  \A logic \in {"AND", "OR", "NONE"} : \A match, all, hold :
    /\ match # <<>> /\ all = DOMAIN match
    /\ hold = {i \in all : match[i] = TRUE} /\ \A i \in all : match[i] \in BOOLEAN
    => (Judge(logic, match, FALSE) <=> Means(logic, hold, all))
<1> SUFFICES ASSUME NEW logic \in {"AND", "OR", "NONE"}, NEW match, match # <<>>, NEW all, all = DOMAIN match,
                    NEW hold, hold = {i \in all : match[i] = TRUE}, \A i \in all : match[i] \in BOOLEAN
             PROVE  Judge(logic, match, FALSE) <=> Means(logic, hold, all)
  BY Zenon
<1>1. CASE logic = "AND"
  BY <1>1 DEF Judge, Means
<1>2. CASE logic = "OR"
  BY <1>2 DEF Judge, Means
<1>3. CASE logic = "NONE"
  BY <1>3 DEF Judge, Means
<1> QED BY <1>1, <1>2, <1>3

\* The style that a row has when it is drawn for the first time.
Styled(r) == Formatted(containers, failCss, Data[r], "none")

\* Drawing a row again gives it the same style, so rows that were hidden and
\* come back, or were never drawn, are as good as new.
StyleInv ==
  /\ containers \in Containers /\ shown \subseteq Rows
  /\ \A r \in Rows : style[r] \in {"none", Styled(r)}
  /\ \A r \in shown : style[r] = Styled(r)

LEMMA StyleStep == TypeOK' /\ StyleInv /\ [Next]_vars => StyleInv'
<1> SUFFICES ASSUME TypeOK', StyleInv, [Next]_vars PROVE StyleInv'
  OBVIOUS
<1> DEFINE Restyled == style' = [r \in Rows |-> IF r \in shown' THEN Formatted(containers, failCss, Data[r], style[r]) ELSE style[r]]
<1>0. shown' \subseteq Rows
  BY DEF TypeOK
<1>1. ASSUME containers' = containers, Restyled PROVE StyleInv'
  <2>1. \A r \in Rows : Formatted(containers, failCss, Data[r], style[r]) = Styled(r)
    BY DEF StyleInv, Styled, Formatted
  <2> QED BY <1>0, <1>1, <2>1 DEF StyleInv, Styled
<1>2. ASSUME UNCHANGED <<containers, shown, style>> PROVE StyleInv'
  BY <1>2 DEF StyleInv, Styled
<1>3. ASSUME NEW f, NEW s, NEW j, NEW hl, Drawn(f, s, j, hl) PROVE Restyled
  BY <1>3 DEF Drawn
<1>4. ASSUME NEW t, NEW m, SearchFor(t, m) PROVE StyleInv'
  BY <1>1, <1>2, <1>3, <1>4 DEF SearchFor
<1>5. ASSUME NEW f, NEW hl, Redrawn(f, hl) PROVE StyleInv'
  BY <1>1, <1>2, <1>3, <1>5 DEF Redrawn
<1>6. ASSUME SearchClear PROVE StyleInv'
  BY <1>1, <1>6 DEF SearchClear
<1>7. ASSUME Reload PROVE StyleInv'
  <2>1. shown' \subseteq Searched(saved.search, None) \cup shown' /\ containers' = containers
    BY <1>7 DEF Reload
  <2>2. \A r \in Rows : style'[r] \in {"none", Styled(r)} /\ (r \in shown' => style'[r] = Styled(r))
    BY <1>7, <2>1 DEF Reload, Styled
  <2> QED BY <1>0, <2>1, <2>2 DEF StyleInv, Styled
<1>8. ASSUME NEW t \in Texts, Type(t) PROVE StyleInv'
  BY <1>2, <1>4, <1>8 DEF Type, view
<1>9. ASSUME NEW t \in ByScript, SearchFuzzy(t) \/ Search(t) PROVE StyleInv'
  BY <1>1, <1>2, <1>3, <1>9 DEF SearchFuzzy, Search, view
<1>10. ASSUME Enter \/ Toggle \/ Hover \/ Leave \/ Redraw \/ ClickBeside PROVE StyleInv'
  BY <1>2, <1>4, <1>5, <1>6, <1>10 DEF Enter, Toggle, Hover, Leave, Redraw, ClickBeside, view
<1>11. ASSUME NEW m \in BOOLEAN, Pick(m) PROVE StyleInv'
  BY <1>4, <1>11 DEF Pick
<1>12. ASSUME NEW p \in Points, ClickBar(p) \/ ClickMarker(p) PROVE StyleInv'
  BY <1>5, <1>6, <1>12 DEF ClickBar, ClickMarker, FindMatch
<1>13. ASSUME UNCHANGED vars PROVE StyleInv'
  BY <1>2, <1>13 DEF vars, view
<1> QED BY <1>7, <1>8, <1>9, <1>10, <1>11, <1>12, <1>13 DEF Next

LEMMA StyleIsMeant == StyleInv => FormatIsMeant
<1> SUFFICES ASSUME StyleInv, NEW r \in shown, Len(containers) = 1, containers[1].conditions # <<>>
             PROVE  LET container == containers[1]
                        hold == {i \in DOMAIN container.conditions : CheckCondition(container.conditions[i], Data[r])}
                        meant == CASE container.logic = "AND" -> hold = DOMAIN container.conditions
                                   [] container.logic = "OR" -> hold # {}
                                   [] container.logic = "NONE" -> hold = {}
                    IN style[r] = IF meant THEN "css" ELSE IF failCss THEN "failCss" ELSE "none"
  BY Zenon DEF FormatIsMeant
<1> DEFINE container == containers[1]
           conditions == container.conditions
           checks == [i \in DOMAIN conditions |-> CheckCondition(conditions[i], Data[r])]
           hold == {i \in DOMAIN conditions : CheckCondition(conditions[i], Data[r])}
           meant == CASE container.logic = "AND" -> hold = DOMAIN conditions
                      [] container.logic = "OR" -> hold # {}
                      [] container.logic = "NONE" -> hold = {}
<1>1. IsSequence(containers) /\ \A k \in DOMAIN containers : IsContainer(containers[k])
  BY TableAssumptions DEF StyleInv
<1>2. DOMAIN containers = 1..1 /\ IsContainer(container)
  BY <1>1, SequenceDomain
<1>3. IsSequence(conditions) /\ container.logic \in {"AND", "OR", "NONE"}
  BY <1>2 DEF IsContainer
<1>4. Len(conditions) \in Nat /\ DOMAIN conditions = 1..Len(conditions)
  BY <1>3, SequenceDomain
<1>5. DOMAIN conditions # {}
  <2>1. conditions \in Seq({conditions[i] : i \in DOMAIN conditions}) /\ conditions # <<>>
    BY <1>3, SequenceIsSeq
  <2> HIDE DEF conditions
  <2> QED BY <2>1
<1>6. DOMAIN checks = DOMAIN conditions /\ \A i \in DOMAIN conditions : checks[i] = CheckCondition(conditions[i], Data[r])
  OBVIOUS
<1>7. checks # <<>> /\ \A i \in DOMAIN checks : checks[i] \in BOOLEAN
  <2> HIDE DEF checks, conditions
  <2>1. \A i \in DOMAIN checks : checks[i] \in BOOLEAN
    BY <1>6, CheckIsBoolean
  <2>2. checks # <<>>
    BY <1>5, <1>6
  <2> QED BY <2>1, <2>2
<1>8. Judge(container.logic, checks, FALSE) <=> meant
  <2> DEFINE all == DOMAIN conditions
  <2>1. hold = {i \in all : checks[i] = TRUE} /\ all = DOMAIN checks
    BY <1>6, CheckIsBoolean
  <2> HIDE DEF checks, hold, all
  <2>2. Judge(container.logic, checks, FALSE) <=> Means(container.logic, hold, all)
    <3>1. container.logic \in {"AND", "OR", "NONE"} /\ checks # <<>>
      BY <1>3, <1>7
    <3>2. \A i \in all : checks[i] \in BOOLEAN
      BY <1>7, <2>1
    <3> QED BY <2>1, <3>1, <3>2, JudgedAsMeant, Zenon
  <2> QED BY <2>2, Zenon DEF Means, all
<1>9. Found(containers, Data[r]) <=> meant
  <2>1. Found(containers, Data[r]) = Judge(container.logic, checks, FALSE)
    BY <1>2, OneContainer, Zenon
  <2> QED BY <1>8, <2>1, Zenon
<1>10. style[r] = IF Found(containers, Data[r]) THEN "css" ELSE IF failCss THEN "failCss" ELSE "none"
  BY DEF StyleInv, Styled, Formatted
<1>11. style[r] = IF meant THEN "css" ELSE IF failCss THEN "failCss" ELSE "none"
  <2> HIDE DEF meant
  <2> QED BY <1>9, <1>10
<1> QED BY <1>11, Zenon

(* The rows on view have the style their conditions are meant to give them, *)
(* for any conditions and any data: through searches that hide rows and show *)
(* them again with the style they had, through failed draws and reloads.     *)
THEOREM FormatIsMeantHolds == Spec => []FormatIsMeant
<1>1. Init => StyleInv
  BY DEF Init, StyleInv, Styled, Formatted
<1> QED BY <1>1, InitType, TypeStep, StyleStep, StyleIsMeant, PTL DEF Spec

(* --------------------------- induction and folds ------------------------- *)

\* A set of numbers has a least one: what holds of 0 and of the next number
\* holds of all.
LEMMA Least ==
  ASSUME NEW S \in SUBSET Nat, S # {}
  PROVE  \E n \in S : \A m \in S : n <= m
<1>1. IsWellFoundedOn(OpToRel(<, Nat), Nat)
  BY NatLessThanWellFounded
<1>2. PICK x \in S : \A y \in S : <<y, x>> \notin OpToRel(<, Nat)
  BY <1>1, WFMin
<1>3. \A y \in Nat : <<y, x>> \in OpToRel(<, Nat) <=> y < x
  BY DEF OpToRel
<1>4. \A y \in S : ~(y < x)
  BY <1>2, <1>3
<1> QED BY <1>4

LEMMA Induction ==
  ASSUME NEW S, 0 \in S, \A n \in Nat : n \in S => n + 1 \in S
  PROVE  Nat \subseteq S
<1> SUFFICES ASSUME Nat \ S # {} PROVE FALSE
  OBVIOUS
<1>1. PICK n \in Nat \ S : \A m \in Nat \ S : n <= m
  BY Least
<1>2. n # 0 /\ n - 1 \in Nat
  BY <1>1
<1>3. n - 1 \in S
  BY <1>1, <1>2
<1>4. n \in S
  BY <1>2, <1>3
<1> QED BY <1>1, <1>4

LEMMA MaxIsLargest ==
  ASSUME NEW n \in Nat, NEW X \in SUBSET (1..n), X # {}
  PROVE  Max(X) \in X /\ \A m \in X : Max(X) >= m
<1> DEFINE away == {n - m : m \in X}
<1>1. away \in SUBSET Nat /\ away # {}
  <2>1. \A m \in X : n - m \in Nat /\ n - m \in away
    OBVIOUS
  <2>2. PICK m \in X : TRUE
    OBVIOUS
  <2> QED BY <2>1, <2>2
<1>2. PICK a \in away : \A b \in away : a <= b
  BY <1>1, Least
<1>3. PICK x \in X : a = n - x
  BY <1>2
<1>4. \A m \in X : x >= m
  <2> TAKE m \in X
  <2>1. n - m \in away
    OBVIOUS
  <2>2. n - x <= n - m
    BY <1>2, <1>3, <2>1
  <2> QED BY <2>2
<1>5. \E y \in X : \A m \in X : y >= m
  BY <1>3, <1>4
<1> QED BY <1>5, Zenon DEF Max

LEMMA BeforeMax ==
  ASSUME NEW n \in Nat, NEW X \in SUBSET (1..(n + 1)), X # {}
  PROVE  Max(X) \in 1..(n + 1) /\ X \ {Max(X)} \in SUBSET (1..n)
<1>1. n + 1 \in Nat
  OBVIOUS
<1>2. Max(X) \in X /\ \A m \in X : Max(X) >= m
  BY <1>1, MaxIsLargest
<1>3. \A m \in X : m \in 1..(n + 1)
  OBVIOUS
<1>4. \A m \in X \ {Max(X)} : m \in 1..n
  <2> HIDE DEF Max
  <2> DEFINE top == Max(X)
  <2>1. top \in 1..(n + 1)
    BY <1>2, <1>3
  <2> HIDE DEF top
  <2>2. \A m \in X \ {top} : m \in 1..n
    BY <1>2, <1>3, <2>1 DEF top
  <2> QED BY <2>2 DEF top
<1> QED BY <1>2, <1>3, <1>4

LEMMA MaxInside ==
  ASSUME NEW n \in Nat
  PROVE  \A X \in SUBSET (1..n) : X # {} => Max(X) \in 1..n /\ X \ {Max(X)} \in SUBSET (1..n)
<1> TAKE X \in SUBSET (1..n)
<1> SUFFICES ASSUME X # {} PROVE Max(X) \in 1..n /\ X \ {Max(X)} \in SUBSET (1..n)
  OBVIOUS
<1>1. Max(X) \in X
  BY MaxIsLargest
<1> QED BY <1>1

\* The recursive function that FoldLeft is made of exists: for steps between
\* elements of T, given as a function E.
IsFold(f, T, base, E, n) ==
  /\ f \in [SUBSET (1..n) -> T]
  /\ \A X \in SUBSET (1..n) : f[X] = IF X = {} THEN base ELSE E[<<f[X \ {Max(X)}], Max(X)>>]

LEMMA FoldExists ==
  ASSUME NEW T, NEW base \in T, NEW n \in Nat, NEW E \in [T \X (1..n) -> T]
  PROVE  \E f : IsFold(f, T, base, E, n)
<1> DEFINE Step(f, X) == IF X = {} THEN base ELSE E[<<f[X \ {Max(X)}], Max(X)>>]
           Fold(f, m) == f \in [SUBSET (1..m) -> T] /\ \A X \in SUBSET (1..m) : f[X] = Step(f, X)
           Exists(m) == \E f : Fold(f, m)
           S == {m \in Nat : m <= n => Exists(m)}
<1>1. 0 \in S
  <2>1. \A X \in SUBSET (1..0) : X = {}
    OBVIOUS
  <2>2. Fold([X \in SUBSET (1..0) |-> base], 0)
    BY <2>1, Zenon
  <2> QED BY <2>2
<1>2. ASSUME NEW m \in Nat, m \in S PROVE m + 1 \in S
  <2> HIDE DEF Exists
  <2> SUFFICES ASSUME m + 1 <= n PROVE Exists(m + 1)
    OBVIOUS
  <2>0. Exists(m)
    BY <1>2
  <2>1. PICK f : Fold(f, m)
    BY <2>0 DEF Exists
  <2> DEFINE g == [X \in SUBSET (1..(m + 1)) |-> Step(f, X)]
  <2>2. \A X \in SUBSET (1..(m + 1)) : X # {} =>
          Max(X) \in 1..n /\ X \ {Max(X)} \in SUBSET (1..m)
    <3>1. 1..(m + 1) \subseteq 1..n
      OBVIOUS
    <3> QED BY <3>1, BeforeMax
  <2>3. \A X \in SUBSET (1..m) : X \in SUBSET (1..(m + 1))
    OBVIOUS
  <2>4. \A X \in SUBSET (1..m) : g[X] = f[X]
    BY <2>1, <2>3, Zenon
  <2>5. \A X \in SUBSET (1..(m + 1)) : Step(f, X) \in T
    <3> TAKE X \in SUBSET (1..(m + 1))
    <3>1. CASE X = {}
      BY <3>1
    <3>2. CASE X # {}
      <4>1. f[X \ {Max(X)}] \in T /\ Max(X) \in 1..n
        BY <2>1, <2>2, <3>2
      <4> QED BY <3>2, <4>1
    <3> QED BY <3>1, <3>2
  <2>6. \A X \in SUBSET (1..(m + 1)) : Step(g, X) = Step(f, X)
    <3> TAKE X \in SUBSET (1..(m + 1))
    <3>1. CASE X = {}
      BY <3>1
    <3>2. CASE X # {}
      <4>1. g[X \ {Max(X)}] = f[X \ {Max(X)}]
        BY <2>2, <2>4, <3>2
      <4> HIDE DEF g
      <4> QED BY <3>2, <4>1
    <3> QED BY <3>1, <3>2
  <2>7. g \in [SUBSET (1..(m + 1)) -> T] /\ \A X \in SUBSET (1..(m + 1)) : g[X] = Step(f, X)
    <3> HIDE DEF Step
    <3> QED BY <2>5, Zenon
  <2>8. Fold(g, m + 1)
    <3> HIDE DEF Step, g
    <3> QED BY <2>6, <2>7
  <2> QED BY <2>8 DEF Exists
<1>3. n \in S
  <2> HIDE DEF S
  <2> QED BY <1>1, <1>2, Induction
<1>4. Exists(n)
  <2> HIDE DEF Exists
  <2> QED BY <1>3
<1> QED BY <1>4, Zenon DEF IsFold

\* What holds of the empty fold and stays so from step to step holds of all.
LEMMA FoldInduction ==
  ASSUME NEW T, NEW n \in Nat, NEW f, f[{}] \in T,
         \A X \in SUBSET (1..n) : X # {} /\ f[X \ {Max(X)}] \in T => f[X] \in T
  PROVE  \A X \in SUBSET (1..n) : f[X] \in T
<1> DEFINE S == {m \in Nat : m <= n => \A X \in SUBSET (1..m) : f[X] \in T}
<1>1. 0 \in S
  <2>1. \A X \in SUBSET (1..0) : X = {}
    OBVIOUS
  <2> QED BY <2>1
<1>2. ASSUME NEW m \in Nat, m \in S PROVE m + 1 \in S
  <2> SUFFICES ASSUME m + 1 <= n, NEW X \in SUBSET (1..(m + 1)), X # {} PROVE f[X] \in T
    <3>1. m + 1 \in Nat
      OBVIOUS
    <3> QED BY <3>1, Zenon
  <2>1. X \in SUBSET (1..n)
    OBVIOUS
  <2>2. X \ {Max(X)} \in SUBSET (1..m)
    BY BeforeMax
  <2>3. f[X \ {Max(X)}] \in T
    BY <1>2, <2>2
  <2> QED BY <2>1, <2>3
<1>3. n \in S
  <2> HIDE DEF S
  <2> QED BY <1>1, <1>2, Induction
<1> QED BY <1>3

(* ----------------------------- comparisons ------------------------------- *)

LEMMA NumberOfIsInt ==
  ASSUME NEW text \in Text
  PROVE  NumberOf(text) \in Int \cup {Undefined, NaN}
<1> SUFFICES ASSUME text # <<>>, \A i \in DOMAIN text : text[i] \in Digits
             PROVE  NumberOf(text) \in Int
  BY DEF NumberOf
<1>1. PICK n \in Nat : DOMAIN text = 1..n
  BY DEF Text
<1> DEFINE op(a, x) == 10 * a + x
           Step(f, X) == IF X = {} THEN 0 ELSE op(f[X \ {Max(X)}], text[Max(X)])
           Fold == CHOOSE f : f = [X \in SUBSET (1..n) |-> Step(f, X)]
<1>2. \A a \in Int, i \in 1..n : op(a, text[i]) \in Int
  BY <1>1 DEF Digits
<1>3. \E f : f = [X \in SUBSET (1..n) |-> Step(f, X)]
  <2>1. PICK E \in [Int \X (1..n) -> Int] : \A a \in Int, i \in 1..n : E[<<a, i>>] = op(a, text[i])
    <3> DEFINE F == [p \in Int \X (1..n) |-> op(p[1], text[p[2]])]
    <3>1. F \in [Int \X (1..n) -> Int] /\ \A a \in Int, i \in 1..n : F[<<a, i>>] = op(a, text[i])
      BY <1>2
    <3> HIDE DEF F
    <3> QED BY <3>1
  <2> HIDE DEF op
  <2>2. PICK f : IsFold(f, Int, 0, E, n)
    <3> DEFINE zero == 0
    <3>1. zero \in Int
      OBVIOUS
    <3>2. \E f : IsFold(f, Int, zero, E, n)
      <4> HIDE DEF zero
      <4> QED BY <3>1, FoldExists
    <3> QED BY <3>2
  <2>3. \A X \in SUBSET (1..n) : X # {} => f[X \ {Max(X)}] \in Int /\ Max(X) \in 1..n
    BY <2>2, MaxInside DEF IsFold
  <2>4. \A X \in SUBSET (1..n) : f[X] = Step(f, X)
    BY <2>1, <2>2, <2>3 DEF IsFold
  <2>5. f = [X \in SUBSET (1..n) |-> Step(f, X)]
    <3> HIDE DEF Step
    <3> QED BY <2>2, <2>4 DEF IsFold
  <2> QED BY <2>5
<1>4. Fold = [X \in SUBSET (1..n) |-> Step(Fold, X)]
  <2> HIDE DEF Step
  <2> QED BY <1>3
<1>5. \A X \in SUBSET (1..n) : Fold[X] = Step(Fold, X)
  <2> HIDE DEF Step, Fold
  <2> QED BY <1>4
<1>6. \A X \in SUBSET (1..n) : Fold[X] \in Int
  <2> HIDE DEF Fold, op
  <2>1. Fold[{}] \in Int
    <3>1. Fold[{}] = 0
      BY <1>5, Zenon
    <3> QED BY <3>1
  <2>2. ASSUME NEW X \in SUBSET (1..n), X # {}, Fold[X \ {Max(X)}] \in Int PROVE Fold[X] \in Int
    <3>1. Fold[X] = op(Fold[X \ {Max(X)}], text[Max(X)])
      BY <1>5, <2>2, Zenon
    <3>2. Max(X) \in 1..n
      BY <2>2, MaxInside
    <3> QED BY <1>2, <2>2, <3>1, <3>2
  <2> HIDE DEF Step
  <2> QED BY <1>1, <2>1, <2>2, FoldInduction
<1>7. NumberOf(text) = Fold[1..n]
  BY <1>1, Zenon DEF NumberOf, FoldLeft, MapThenFoldSet
<1> QED BY <1>6, <1>7

\* Texts are compared at the first character in which they differ.
Alike(a, b, k) == \A i \in 1..k : a[i] = b[i]

LEMMA LessAt ==
  ASSUME NEW a \in Text, NEW b \in Text
  PROVE  TextLess(a, b) <=>
           \E k \in Nat : /\ k <= Len(a) /\ k <= Len(b) /\ Alike(a, b, k)
                         /\ k < Len(b) /\ (k = Len(a) \/ (k < Len(a) /\ a[k + 1] < b[k + 1]))
<1>1. Len(a) \in Nat /\ Len(b) \in Nat
  BY DEF Text
<1>2. \A k : k \in 0..Min({Len(a), Len(b)}) <=> k \in Nat /\ k <= Len(a) /\ k <= Len(b)
  <2>1. Min({Len(a), Len(b)}) = IF Len(a) <= Len(b) THEN Len(a) ELSE Len(b)
    BY <1>1 DEF Min
  <2> QED BY <1>1, <2>1
<1>3. \A k \in Nat : k <= Len(a) /\ k <= Len(b) => (SubSeq(a, 1, k) = SubSeq(b, 1, k) <=> Alike(a, b, k))
  BY <1>1 DEF Text, Alike
<1> QED BY <1>1, <1>2, <1>3 DEF TextLess

LEMMA TextsAreOrdered ==
  ASSUME NEW a \in Text, NEW b \in Text
  PROVE  /\ TextLess(a, b) \/ TextLess(b, a) \/ a = b
         /\ ~(TextLess(a, b) /\ TextLess(b, a)) /\ ~(TextLess(a, b) /\ a = b)
<1>1. Len(a) \in Nat /\ Len(b) \in Nat
  BY DEF Text
<1>0. (\A i \in 1..Len(a) : a[i] \in Int) /\ (\A i \in 1..Len(b) : b[i] \in Int)
  BY DEF Text
<1>2. ASSUME TextLess(a, b), TextLess(b, a) \/ a = b PROVE FALSE
  <2>1. PICK k \in Nat : /\ k <= Len(a) /\ k <= Len(b) /\ Alike(a, b, k) /\ k < Len(b)
                         /\ k = Len(a) \/ (k < Len(a) /\ a[k + 1] < b[k + 1])
    BY <1>2, LessAt
  <2>2. TextLess(b, a)
    BY <1>0, <1>1, <1>2, <2>1
  <2>3. PICK m \in Nat : /\ m <= Len(b) /\ m <= Len(a) /\ Alike(b, a, m) /\ m < Len(a)
                         /\ m = Len(b) \/ (m < Len(b) /\ b[m + 1] < a[m + 1])
    BY <2>2, LessAt
  <2>5. CASE k < m
    <3>1. k + 1 \in 1..m
      BY <2>5
    <3>2. b[k + 1] = a[k + 1]
      BY <2>3, <3>1 DEF Alike
    <3>3. k # Len(a) /\ k + 1 \in 1..Len(a)
      BY <1>1, <2>3, <2>5
    <3> QED BY <1>0, <2>1, <3>2, <3>3
  <2>6. CASE m < k
    <3>1. m + 1 \in 1..k
      BY <2>6
    <3>2. a[m + 1] = b[m + 1]
      BY <2>1, <3>1 DEF Alike
    <3>3. m # Len(b) /\ m + 1 \in 1..Len(b)
      BY <1>1, <2>1, <2>6
    <3> QED BY <1>0, <2>3, <3>2, <3>3
  <2>7. CASE k = m
    <3>1. k # Len(a) /\ m # Len(b) /\ k + 1 \in 1..Len(a) /\ k + 1 \in 1..Len(b)
      BY <1>1, <2>1, <2>3, <2>7
    <3> QED BY <1>0, <2>1, <2>3, <2>7, <3>1
  <2> QED BY <2>5, <2>6, <2>7
<1>3. ASSUME ~TextLess(a, b), ~TextLess(b, a) PROVE a = b
  <2> DEFINE D == {k \in Nat : k >= Len(a) \/ k >= Len(b) \/ a[k + 1] # b[k + 1]}
  <2>1. Len(a) \in D
    BY <1>1
  <2>2. PICK k \in D : \A m \in D : k <= m
    BY <2>1, Least
  <2>3. k \in Nat /\ k <= Len(a) /\ k <= Len(b)
    <3>1. Len(b) \in D
      BY <1>1
    <3> QED BY <2>1, <2>2, <3>1
  <2>4. Alike(a, b, k)
    <3> SUFFICES ASSUME NEW i \in 1..k, a[i] # b[i] PROVE FALSE
      BY DEF Alike
    <3>1. i - 1 \in D
      BY <2>3
    <3>2. k <= i - 1
      BY <2>2, <3>1
    <3> QED BY <2>3, <3>2
  <2>5. Alike(b, a, k)
    BY <2>4 DEF Alike
  <2>6. k = Len(a) /\ k = Len(b)
    <3>1. k < Len(a) /\ k < Len(b) => a[k + 1] \in Int /\ b[k + 1] \in Int /\ a[k + 1] # b[k + 1]
      BY <1>1, <2>2, <2>3 DEF Text
    <3> QED BY <1>1, <1>3, <2>3, <2>4, <2>5, <3>1, LessAt
  <2>7. Len(a) = Len(b) /\ \A i \in 1..Len(a) : a[i] = b[i]
    BY <2>4, <2>6 DEF Alike
  <2> QED BY <2>7, SeqEqual DEF Text
<1> QED BY <1>2, <1>3

LEMMA LowerIsText == ASSUME NEW text \in Text PROVE Lower(text) \in Text
<1>1. PICK n \in Nat : DOMAIN text = 1..n /\ \A i \in 1..n : text[i] \in Int
  BY DEF Text
<1> DEFINE small == [i \in 1..n |-> IF text[i] < 0 THEN -text[i] ELSE text[i]]
<1>2. small \in [1..n -> Int]
  BY <1>1
<1>3. Lower(text) = small
  BY <1>1 DEF Lower
<1> HIDE DEF small
<1>4. small \in Seq(Int)
  BY <1>2
<1> QED BY <1>3, <1>4 DEF Text

LEMMA JoinedIsText ==
  ASSUME NEW ts \in Seq(Text)
  PROVE  Joined(ts) \in Text
<1>1. PICK n \in Nat : DOMAIN ts = 1..n
  OBVIOUS
<1> DEFINE op(a, x) == a \o <<Comma>> \o x
           Step(f, X) == IF X = {} THEN <<>> ELSE op(f[X \ {Max(X)}], ts[Max(X)])
           Fold == CHOOSE f : f = [X \in SUBSET (1..n) |-> Step(f, X)]
<1>2. \A a \in Text, i \in 1..n : op(a, ts[i]) \in Text
  <2> TAKE a \in Text, i \in 1..n
  <2>1. ts[i] \in Text
    BY <1>1
  <2> DEFINE comma == <<Comma>>
  <2>2. comma \in Text
    BY DEF Text, Comma
  <2> HIDE DEF comma
  <2>3. \A u, v \in Text : u \o v \in Text
    BY ConcatProperties DEF Text
  <2>4. (a \o comma) \o ts[i] \in Text
    BY <2>1, <2>2, <2>3
  <2> QED BY <2>4 DEF comma
<1>3. \E f : f = [X \in SUBSET (1..n) |-> Step(f, X)]
  <2>1. PICK E \in [Text \X (1..n) -> Text] : \A a \in Text, i \in 1..n : E[<<a, i>>] = op(a, ts[i])
    <3> DEFINE F == [p \in Text \X (1..n) |-> op(p[1], ts[p[2]])]
    <3> HIDE DEF op
    <3>1. F \in [Text \X (1..n) -> Text] /\ \A a \in Text, i \in 1..n : F[<<a, i>>] = op(a, ts[i])
      BY <1>2
    <3> HIDE DEF F
    <3> QED BY <3>1
  <2> HIDE DEF op
  <2>2. PICK f : IsFold(f, Text, <<>>, E, n)
    <3> DEFINE none == <<>>
    <3>1. none \in Text
      BY DEF Text
    <3>2. \E f : IsFold(f, Text, none, E, n)
      <4> HIDE DEF none
      <4> QED BY <3>1, FoldExists
    <3> QED BY <3>2
  <2>3. \A X \in SUBSET (1..n) : X # {} => f[X \ {Max(X)}] \in Text /\ Max(X) \in 1..n
    BY <2>2, MaxInside DEF IsFold
  <2>4. \A X \in SUBSET (1..n) : f[X] = Step(f, X)
    BY <2>1, <2>2, <2>3 DEF IsFold
  <2>5. f = [X \in SUBSET (1..n) |-> Step(f, X)]
    <3> HIDE DEF Step
    <3> QED BY <2>2, <2>4 DEF IsFold
  <2> QED BY <2>5
<1>4. Fold = [X \in SUBSET (1..n) |-> Step(Fold, X)]
  <2> HIDE DEF Step
  <2> QED BY <1>3
<1>5. \A X \in SUBSET (1..n) : Fold[X] = Step(Fold, X)
  <2> HIDE DEF Step, Fold
  <2> QED BY <1>4
<1>6. \A X \in SUBSET (1..n) : Fold[X] \in Text
  <2> HIDE DEF Fold, op
  <2>1. Fold[{}] \in Text
    <3>1. Fold[{}] = <<>>
      BY <1>5, Zenon
    <3> QED BY <3>1 DEF Text
  <2>2. ASSUME NEW X \in SUBSET (1..n), X # {}, Fold[X \ {Max(X)}] \in Text PROVE Fold[X] \in Text
    <3>1. Fold[X] = op(Fold[X \ {Max(X)}], ts[Max(X)])
      BY <1>5, <2>2, Zenon
    <3>2. Max(X) \in 1..n
      BY <2>2, MaxInside
    <3> QED BY <1>2, <2>2, <3>1, <3>2
  <2> HIDE DEF Step
  <2> QED BY <1>1, <2>1, <2>2, FoldInduction
<1>7. Joined(ts) = SubSeq(Fold[1..n], 2, Len(Fold[1..n]))
  BY <1>1, Zenon DEF Joined, FoldLeft, MapThenFoldSet
<1>8. \A text \in Text : SubSeq(text, 2, Len(text)) \in Text
  BY SubSeqProperties DEF Text
<1> QED BY <1>6, <1>7, <1>8

Numeric(c) == c.type \in {"number", "date"}
Readable(c, text) == Numeric(c) => NumberOf(text) \notin {Undefined, NaN}

LEMMA ReadCellType ==
  ASSUME NEW c, NEW text \in Text, Readable(c, text)
  PROVE  ReadCell(c, text) \in IF Numeric(c) THEN Int ELSE Text
<1>1. NumberOf(text) \in Int \cup {Undefined, NaN}
  BY NumberOfIsInt
<1>2. ReadText(c, text) \in Text
  BY LowerIsText DEF ReadText
<1> QED BY <1>1, <1>2 DEF ReadCell, Numeric, Readable

LEMMA ReadValueType ==
  ASSUME NEW c, IsCondition(c), ~IsList(c), ~c.list => Readable(c, c.value)
  PROVE  ReadValue(c) \in IF Numeric(c) THEN Int ELSE Text
<1>1. CASE ~c.list
  BY <1>1, ReadCellType DEF ReadValue, IsCondition
<1>2. CASE c.list
  <2>1. c.value \in Seq(Text) /\ ~Numeric(c) /\ ~(c.type = "string" /\ c.caseSensitive)
    BY <1>2 DEF IsCondition, IsList, Numeric
  <2>2. ReadValue(c) = Lower(Joined(c.value))
    BY <1>2, <2>1 DEF ReadValue, Numeric
  <2> QED BY <2>1, <2>2, JoinedIsText, LowerIsText
<1> QED BY <1>1, <1>2

LEMMA SidesAreOrdered ==
  ASSUME NEW c, NEW a, NEW b, {a, b} \subseteq IF Numeric(c) THEN Int ELSE Text
  PROVE  /\ Ordered(c.type, a, b) \/ Ordered(c.type, b, a) \/ a = b
         /\ ~(Ordered(c.type, a, b) /\ Ordered(c.type, b, a)) /\ ~(Ordered(c.type, a, b) /\ a = b)
         /\ {a, b} \cap {Undefined, NaN} = {}
<1>1. {a, b} \cap {Undefined, NaN} = {}
  BY TableAssumptions
<1>2. CASE Numeric(c)
  BY <1>1, <1>2 DEF Ordered, Numeric
<1>3. CASE ~Numeric(c)
  BY <1>1, <1>3, TextsAreOrdered DEF Ordered, Numeric
<1> QED BY <1>2, <1>3


AtMost(c, a, b) == Ordered(c.type, a, b) \/ (a = b /\ {a, b} \cap {Undefined, NaN} = {})

LEMMA Comparisons ==
  ASSUME NEW c, NEW a, NEW b
  PROVE  /\ c.operator = "eq" => (Compare(c, a, b) <=> Equal(c.type, a, b))
         /\ c.operator = "ne" => (Compare(c, a, b) <=> ~Equal(c.type, a, b))
         /\ c.operator = "gt" => (Compare(c, a, b) <=> Ordered(c.type, b, a))
         /\ c.operator = "lt" => (Compare(c, a, b) <=> Ordered(c.type, a, b))
         /\ c.operator = "le" => (Compare(c, a, b) <=> AtMost(c, a, b))
         /\ c.operator = "ge" => (Compare(c, a, b) <=> AtMost(c, b, a))
BY DEF Compare, AtMost, Ordered, Equal

LEMMA Lists ==
  ASSUME NEW c, NEW a, NEW b
  PROVE  /\ c.operator = "in" => (Compare(c, a, b) <=> IF IsList(c) THEN IsIn(c.type, a, b) ELSE HasPart(b, a))
         /\ c.operator = "notin" => (Compare(c, a, b) <=> ~(IF IsList(c) THEN IsIn(c.type, a, b) ELSE HasPart(b, a)))
         /\ c.operator = "contains" => (Compare(c, a, b) <=> HasPart(a, b))
         /\ c.operator = "notcontains" => (Compare(c, a, b) <=> ~HasPart(a, b))
         /\ c.operator = "between" /\ IsList(c) /\ ~c.reverse =>
              (Compare(c, a, b) <=> Ordered(c.type, b[1], a) /\ Ordered(c.type, a, b[2]))
         /\ c.operator = "betweenInclusive" /\ IsList(c) /\ ~c.reverse =>
              (Compare(c, a, b) <=> AtMost(c, b[1], a) /\ AtMost(c, a, b[2]))
BY DEF Compare, AtMost, IsIn, HasPart

\* A condition with another operator, or its sides exchanged, reads the same.
Alter(c, operator, reverse) ==
  [column |-> c.column, type |-> c.type, operator |-> operator, value |-> c.value,
   list |-> c.list, reverse |-> reverse, caseSensitive |-> c.caseSensitive]

LEMMA ReadsTheSame ==
  ASSUME NEW c, NEW d, d.type = c.type, d.caseSensitive = c.caseSensitive
  PROVE  /\ \A text : ReadCell(d, text) = ReadCell(c, text)
         /\ d.list = c.list /\ d.value = c.value => ReadValue(d) = ReadValue(c) /\ (IsList(d) <=> IsList(c))
<1>1. \A text : ReadCell(d, text) = ReadCell(c, text)
  BY DEF ReadCell, ReadText
<1> QED BY <1>1 DEF ReadValue, IsList

LEMMA AlteredCheck ==
  ASSUME NEW c, NEW data, c.column \in DOMAIN data, NEW operator, NEW reverse \in BOOLEAN,
         NEW d, d = Alter(c, operator, reverse), NEW a, NEW b,
         a = ReadCell(c, data[c.column]), b = ReadValue(c)
  PROVE  /\ CheckCondition(d, data) <=> IF reverse THEN Compare(d, b, a) ELSE Compare(d, a, b)
         /\ d.operator = operator /\ d.type = c.type /\ d.reverse = reverse /\ (IsList(d) <=> IsList(c))
<1>1. /\ d.column = c.column /\ d.type = c.type /\ d.operator = operator /\ d.value = c.value /\ d.list = c.list
      /\ d.reverse = reverse /\ d.caseSensitive = c.caseSensitive
  BY DEF Alter
<1>2. ReadCell(d, data[c.column]) = a /\ ReadValue(d) = b /\ (IsList(d) <=> IsList(c))
  BY <1>1, ReadsTheSame
<1> QED BY <1>1, <1>2 DEF CheckCondition

LEMMA ConditionIsAltered ==
  ASSUME NEW c, IsCondition(c)
  PROVE  /\ c = Alter(c, c.operator, c.reverse) /\ c.reverse \in BOOLEAN
         /\ \A operator : With(c, operator) = Alter(c, operator, c.reverse)
         /\ \A operator : [With(c, operator) EXCEPT !.reverse = ~c.reverse] = Alter(c, operator, ~c.reverse)
<1> DEFINE column == c.column  type == c.type  operator == c.operator  value == c.value
           list == c.list  reverse == c.reverse  caseSensitive == c.caseSensitive
<1>1. c = [column |-> column, type |-> type, operator |-> operator, value |-> value, list |-> list,
           reverse |-> reverse, caseSensitive |-> caseSensitive] /\ reverse \in BOOLEAN
  BY DEF IsCondition
<1>2. c = Alter(c, operator, reverse)
  BY <1>1 DEF Alter
<1> HIDE DEF column, type, operator, value, list, reverse, caseSensitive
<1>3. \A new : With(c, new) = [column |-> column, type |-> type, operator |-> new, value |-> value, list |-> list,
                               reverse |-> reverse, caseSensitive |-> caseSensitive]
  BY <1>1 DEF With
<1>4. \A new, other : [With(c, new) EXCEPT !.reverse = other] =
        [column |-> column, type |-> type, operator |-> new, value |-> value, list |-> list,
         reverse |-> other, caseSensitive |-> caseSensitive]
  BY <1>3
<1> QED BY <1>1, <1>2, <1>3, <1>4 DEF Alter, column, type, operator, value, list, reverse, caseSensitive

LEMMA OppositesDiffer ==
  ASSUME NEW c, NEW data, IsCondition(c), Comparable(c, data), data[c.column] \in Text,
         c.operator \in DOMAIN Opposite
  PROVE  CheckCondition(c, data) # CheckCondition(With(c, Opposite[c.operator]), data)
<1> DEFINE a == ReadCell(c, data[c.column])
           b == ReadValue(c)
           left == IF c.reverse THEN b ELSE a
           right == IF c.reverse THEN a ELSE b
           d == With(c, Opposite[c.operator])
<1>1. c.column \in DOMAIN data /\ c.reverse \in BOOLEAN
  BY DEF Comparable, IsCondition
<1>2. /\ CheckCondition(d, data) <=> Compare(d, left, right)
      /\ d.operator = Opposite[c.operator] /\ d.type = c.type /\ d.reverse = c.reverse /\ (IsList(d) <=> IsList(c))
  <2> DEFINE operator == Opposite[c.operator]
  <2>1. d = Alter(c, operator, c.reverse)
    BY ConditionIsAltered
  <2> HIDE DEF d, operator
  <2>2. /\ CheckCondition(d, data) <=> IF c.reverse THEN Compare(d, b, a) ELSE Compare(d, a, b)
        /\ d.operator = operator /\ d.type = c.type /\ d.reverse = c.reverse /\ (IsList(d) <=> IsList(c))
    <3> HIDE DEF a, b
    <3> QED BY <1>1, <2>1, AlteredCheck DEF a, b
  <2> QED BY <1>1, <2>2 DEF operator
<1>3. CheckCondition(c, data) <=> Compare(c, left, right)
  BY <1>1 DEF CheckCondition
<1>4. c.operator \in {"gt", "lt", "le", "ge"} => {left, right} \subseteq IF Numeric(c) THEN Int ELSE Text
  <2>1. SUFFICES ASSUME c.operator \in {"gt", "lt", "le", "ge"} PROVE {a, b} \subseteq IF Numeric(c) THEN Int ELSE Text
    BY <1>1
  <2>2. ~IsList(c)
    BY <2>1 DEF IsCondition
  <2>3. Readable(c, data[c.column]) /\ (~c.list => Readable(c, c.value))
    BY DEF Comparable, Readable, Numeric
  <2> QED BY <2>2, <2>3, ReadCellType, ReadValueType
<1>5. CheckCondition(c, data) \in BOOLEAN /\ CheckCondition(d, data) \in BOOLEAN
  BY CheckIsBoolean
<1> SUFFICES Compare(c, left, right) <=> ~Compare(d, left, right)
  <2> HIDE DEF d, left, right
  <2> QED BY <1>2, <1>3, <1>5 DEF d
<1> HIDE DEF a, b, left, right, d
<1>6. CASE c.operator \in {"eq", "ne"}
  <2>1. \/ c.operator = "eq" /\ d.operator = "ne"
        \/ c.operator = "ne" /\ d.operator = "eq"
    BY <1>2, <1>6 DEF Opposite
  <2> QED BY <1>2, <2>1, Comparisons
<1>7. CASE c.operator \in {"in", "notin", "contains", "notcontains"}
  <2>1. \/ c.operator = "in" /\ d.operator = "notin"
        \/ c.operator = "notin" /\ d.operator = "in"
        \/ c.operator = "contains" /\ d.operator = "notcontains"
        \/ c.operator = "notcontains" /\ d.operator = "contains"
    BY <1>2, <1>7 DEF Opposite
  <2> QED BY <1>2, <2>1, Lists
<1>8. CASE c.operator \in {"gt", "lt", "le", "ge"}
  <2>1. \/ c.operator = "gt" /\ d.operator = "le"
        \/ c.operator = "le" /\ d.operator = "gt"
        \/ c.operator = "lt" /\ d.operator = "ge"
        \/ c.operator = "ge" /\ d.operator = "lt"
    BY <1>2, <1>8 DEF Opposite
  <2>2. /\ Ordered(c.type, left, right) \/ Ordered(c.type, right, left) \/ left = right
        /\ ~(Ordered(c.type, left, right) /\ Ordered(c.type, right, left)) /\ ~(Ordered(c.type, left, right) /\ left = right)
        /\ {left, right} \cap {Undefined, NaN} = {} /\ ~(Ordered(c.type, right, left) /\ left = right)
    BY <1>4, <1>8, SidesAreOrdered
  <2>3. /\ AtMost(c, left, right) <=> ~Ordered(c.type, right, left)
        /\ AtMost(c, right, left) <=> ~Ordered(c.type, left, right)
        /\ AtMost(d, left, right) <=> AtMost(c, left, right)
        /\ AtMost(d, right, left) <=> AtMost(c, right, left)
    BY <1>2, <2>2 DEF AtMost
  <2> QED BY <1>2, <2>1, <2>3, Comparisons
<1> QED BY <1>6, <1>7, <1>8 DEF Opposite

LEMMA MirrorsAgree ==
  ASSUME NEW c, NEW data, IsCondition(c), Comparable(c, data), c.operator \in DOMAIN Mirrored
  PROVE  CheckCondition(c, data) = CheckCondition([With(c, Mirrored[c.operator]) EXCEPT !.reverse = ~c.reverse], data)
<1> DEFINE a == ReadCell(c, data[c.column])
           b == ReadValue(c)
           left == IF c.reverse THEN b ELSE a
           right == IF c.reverse THEN a ELSE b
           d == [With(c, Mirrored[c.operator]) EXCEPT !.reverse = ~c.reverse]
<1>1. c.column \in DOMAIN data /\ c.reverse \in BOOLEAN
  BY DEF Comparable, IsCondition
<1>2. /\ CheckCondition(d, data) <=> Compare(d, right, left)
      /\ d.operator = Mirrored[c.operator] /\ d.type = c.type
  <2> DEFINE operator == Mirrored[c.operator]
             reverse == ~c.reverse
  <2>1. d = Alter(c, operator, reverse) /\ reverse \in BOOLEAN
    BY ConditionIsAltered
  <2> HIDE DEF d, operator, reverse
  <2>2. /\ CheckCondition(d, data) <=> IF reverse THEN Compare(d, b, a) ELSE Compare(d, a, b)
        /\ d.operator = operator /\ d.type = c.type
    <3> HIDE DEF a, b
    <3> QED BY <1>1, <2>1, AlteredCheck DEF a, b
  <2> QED BY <1>1, <2>2 DEF operator, reverse
<1>3. CheckCondition(c, data) <=> Compare(c, left, right)
  BY <1>1 DEF CheckCondition
<1>4. CheckCondition(c, data) \in BOOLEAN /\ CheckCondition(d, data) \in BOOLEAN
  BY CheckIsBoolean
<1> SUFFICES Compare(c, left, right) <=> Compare(d, right, left)
  <2> HIDE DEF d, left, right
  <2> QED BY <1>2, <1>3, <1>4 DEF d
<1> HIDE DEF a, b, left, right, d
<1>5. \/ c.operator = "gt" /\ d.operator = "lt"
      \/ c.operator = "lt" /\ d.operator = "gt"
      \/ c.operator = "ge" /\ d.operator = "le"
      \/ c.operator = "le" /\ d.operator = "ge"
      \/ c.operator = "eq" /\ d.operator = "eq"
      \/ c.operator = "ne" /\ d.operator = "ne"
  BY <1>2 DEF Mirrored
<1>6. Equal(c.type, left, right) <=> Equal(c.type, right, left)
  BY DEF Equal
<1>7. AtMost(d, left, right) <=> AtMost(c, left, right)
  BY <1>2 DEF AtMost
<1>8. AtMost(d, right, left) <=> AtMost(c, right, left)
  BY <1>2 DEF AtMost
<1> QED BY <1>2, <1>5, <1>6, <1>7, <1>8, Comparisons

LEMMA RangeIsItsBounds ==
  ASSUME NEW c, NEW data, IsCondition(c), Comparable(c, data), c.operator = "between", IsList(c)
  PROVE  LET bound(n, operator) == CheckCondition([With(c, operator) EXCEPT !.list = FALSE, !.value = c.value[n]], data)
         IN /\ CheckCondition(c, data) = (bound(1, "gt") /\ bound(2, "lt"))
            /\ CheckCondition(With(c, "betweenInclusive"), data) = (bound(1, "ge") /\ bound(2, "le"))
<1> DEFINE a == ReadCell(c, data[c.column])
           b == ReadValue(c)
           Bound(n, operator) == [column |-> c.column, type |-> c.type, operator |-> operator, value |-> c.value[n],
                                  list |-> FALSE, reverse |-> FALSE, caseSensitive |-> c.caseSensitive]
           bound(n, operator) == CheckCondition([With(c, operator) EXCEPT !.list = FALSE, !.value = c.value[n]], data)
           d == With(c, "betweenInclusive")
<1>1. /\ c.column \in DOMAIN data /\ c.reverse = FALSE /\ c.list /\ c.value \in Seq(Text) /\ Len(c.value) = 2
      /\ Numeric(c) \/ (c.type = "string" /\ c.caseSensitive)
  BY DEF Comparable, IsCondition, IsList, Numeric
<1>2. \A n \in {1, 2} : b[n] = ReadCell(c, c.value[n])
  BY <1>1 DEF ReadValue, ReadCell, ReadText, Numeric
<1>3. \A n, operator : [With(c, operator) EXCEPT !.list = FALSE, !.value = c.value[n]] = Bound(n, operator)
  <2> TAKE n, operator
  <2> DEFINE column == c.column  type == c.type  value == c.value  caseSensitive == c.caseSensitive
             list == c.list  reverse == c.reverse  new == c.value[n]  no == FALSE  base == With(c, operator)
  <2>1. base = [column |-> column, type |-> type, operator |-> operator, value |-> value, list |-> list,
                reverse |-> reverse, caseSensitive |-> caseSensitive]
    BY ConditionIsAltered, Zenon DEF Alter
  <2>2. reverse = FALSE
    BY <1>1
  <2> HIDE DEF column, type, value, caseSensitive, list, reverse, new, no, base
  <2> DEFINE first == [base EXCEPT !.list = no]
  <2>3. first = [column |-> column, type |-> type, operator |-> operator, value |-> value, list |-> no,
                 reverse |-> reverse, caseSensitive |-> caseSensitive]
    BY <2>1
  <2>4. [base EXCEPT !.list = no, !.value = new] = [first EXCEPT !.value = new]
    OBVIOUS
  <2>5. [first EXCEPT !.value = new] =
          [column |-> column, type |-> type, operator |-> operator, value |-> new, list |-> no,
           reverse |-> reverse, caseSensitive |-> caseSensitive]
    <3> HIDE DEF first
    <3> QED BY <2>3
  <2>6. [base EXCEPT !.list = no, !.value = new] =
          [column |-> column, type |-> type, operator |-> operator, value |-> new, list |-> no,
           reverse |-> reverse, caseSensitive |-> caseSensitive]
    BY <2>4, <2>5
  <2> QED BY <2>2, <2>6, Zenon DEF column, type, value, caseSensitive, list, reverse, new, no, base
<1>4. ASSUME NEW n \in {1, 2}, NEW operator
      PROVE  bound(n, operator) <=> Compare(Bound(n, operator), a, b[n])
  <2> DEFINE e == Bound(n, operator)
  <2>1. e.column = c.column /\ e.type = c.type /\ e.value = c.value[n] /\ e.list = FALSE /\ e.reverse = FALSE
        /\ e.caseSensitive = c.caseSensitive
    OBVIOUS
  <2>2. bound(n, operator) <=> CheckCondition(e, data)
    BY <1>3
  <2> HIDE DEF e, a, b, bound
  <2>3. \A text : ReadCell(e, text) = ReadCell(c, text)
    BY <2>1, ReadsTheSame
  <2>4. ReadValue(e) = ReadCell(c, c.value[n])
    BY <2>1, <2>3 DEF ReadValue
  <2>5. ReadValue(e) = b[n]
    BY <1>2, <2>4
  <2>6. ReadCell(e, data[c.column]) = a
    BY <2>3 DEF a
  <2>7. CheckCondition(e, data) <=> Compare(e, a, b[n])
    BY <1>1, <2>1, <2>5, <2>6 DEF CheckCondition
  <2> QED BY <2>2, <2>7 DEF e
<1>5. \A n, operator : Bound(n, operator).operator = operator /\ Bound(n, operator).type = c.type
  OBVIOUS
<1>6. /\ bound(1, "gt") <=> Ordered(c.type, b[1], a)
      /\ bound(2, "lt") <=> Ordered(c.type, a, b[2])
      /\ bound(1, "ge") <=> AtMost(c, b[1], a)
      /\ bound(2, "le") <=> AtMost(c, a, b[2])
  <2> HIDE DEF a, b, bound, Bound
  <2>1. \A n, operator, x, y : AtMost(Bound(n, operator), x, y) <=> AtMost(c, x, y)
    BY <1>5 DEF AtMost
  <2> QED BY <1>4, <1>5, <2>1, Comparisons
<1>7. CheckCondition(c, data) <=> Ordered(c.type, b[1], a) /\ Ordered(c.type, a, b[2])
  <2>1. CheckCondition(c, data) <=> Compare(c, a, b)
    BY <1>1 DEF CheckCondition
  <2> HIDE DEF a, b
  <2> QED BY <1>1, <2>1, Lists
<1>8. CheckCondition(d, data) <=> AtMost(c, b[1], a) /\ AtMost(c, a, b[2])
  <2> DEFINE operator == "betweenInclusive"
  <2>1. d = Alter(c, operator, c.reverse) /\ c.reverse \in BOOLEAN
    BY ConditionIsAltered
  <2> HIDE DEF d, a, b, operator
  <2>2. /\ CheckCondition(d, data) <=> IF c.reverse THEN Compare(d, b, a) ELSE Compare(d, a, b)
        /\ d.operator = operator /\ d.type = c.type /\ d.reverse = c.reverse /\ (IsList(d) <=> IsList(c))
    <3>1. c.column \in DOMAIN data
      BY <1>1
    <3> QED BY <2>1, <3>1, AlteredCheck DEF a, b
  <2>3. \A x, y : AtMost(d, x, y) <=> AtMost(c, x, y)
    BY <2>2 DEF AtMost
  <2>4. Compare(d, a, b) <=> AtMost(d, b[1], a) /\ AtMost(d, a, b[2])
    BY <1>1, <2>2, Lists DEF operator
  <2> QED BY <1>1, <2>2, <2>3, <2>4
<1>9. /\ CheckCondition(c, data) \in BOOLEAN /\ CheckCondition(d, data) \in BOOLEAN
      /\ \A n, operator : bound(n, operator) \in BOOLEAN
  BY CheckIsBoolean
<1>10. CheckCondition(c, data) = (bound(1, "gt") /\ bound(2, "lt")) /\ CheckCondition(d, data) = (bound(1, "ge") /\ bound(2, "le"))
  <2> HIDE DEF a, b, d, bound
  <2> QED BY <1>6, <1>7, <1>8, <1>9
<1> QED BY <1>10, Zenon

LEMMA BlankIsUnordered ==
  ASSUME NEW c, NEW data, c.type = "number", c.column \in DOMAIN data, data[c.column] = <<>>,
         c.operator \in {"gt", "ge", "lt", "le", "between", "betweenInclusive"}
  PROVE  ~CheckCondition(c, data)
<1> DEFINE a == ReadCell(c, data[c.column])
           b == ReadValue(c)
<1>1. a = Undefined
  BY DEF ReadCell, NumberOf
<1>2. \A x : ~Ordered(c.type, a, x) /\ ~Ordered(c.type, x, a) /\ ~AtMost(c, a, x) /\ ~AtMost(c, x, a)
  BY <1>1 DEF Ordered, AtMost
<1>3. CheckCondition(c, data) <=> IF c.reverse THEN Compare(c, b, a) ELSE Compare(c, a, b)
  BY DEF CheckCondition
<1> HIDE DEF a, b
<1>4. CASE c.operator \in {"gt", "ge", "lt", "le"}
  BY <1>2, <1>3, <1>4, Comparisons
<1>5. CASE c.operator \in {"between", "betweenInclusive"}
  <2>1. \A x, y : Compare(c, x, y) => IsList(c) /\ ~c.reverse
    BY <1>5 DEF Compare
  <2> QED BY <1>2, <1>3, <1>5, <2>1, Lists
<1> QED BY <1>4, <1>5

LEMMA ComparisonsInOrder ==
  ASSUME containers \in Containers, shown \subseteq Rows
  PROVE  ComparisonsAreSound
<1>1. ASSUME NEW k \in DOMAIN containers, NEW i \in DOMAIN containers[k].conditions
      PROVE  IsCondition(containers[k].conditions[i])
  BY <1>1, TableAssumptions DEF IsContainer
<1>2. OperatorsAgree
  <2> SUFFICES ASSUME NEW r \in shown, NEW k \in DOMAIN containers, NEW i \in DOMAIN containers[k].conditions
               PROVE  LET c == containers[k].conditions[i]
                          check(x) == CheckCondition(x, Data[r])
                      IN Comparable(c, Data[r]) =>
                           /\ c.operator \in DOMAIN Opposite => check(c) # check(With(c, Opposite[c.operator]))
                           /\ c.operator \in DOMAIN Mirrored /\ ~c.list =>
                                check(c) = check([With(c, Mirrored[c.operator]) EXCEPT !.reverse = ~c.reverse])
                           /\ c.operator = "between" /\ IsList(c) /\ ~c.reverse =>
                                LET bound(n, operator) == check([With(c, operator) EXCEPT !.list = FALSE, !.value = c.value[n]])
                                IN /\ check(c) = (bound(1, "gt") /\ bound(2, "lt"))
                                   /\ check(With(c, "betweenInclusive")) = (bound(1, "ge") /\ bound(2, "le"))
    BY Zenon DEF OperatorsAgree
  <2> DEFINE c == containers[k].conditions[i]
             data == Data[r]
  <2>1. IsCondition(c)
    BY <1>1
  <2>2. Comparable(c, data) => data[c.column] \in Text
    BY TableAssumptions DEF Comparable
  <2> HIDE DEF c, data
  <2>3. ASSUME Comparable(c, data), c.operator \in DOMAIN Opposite
        PROVE  CheckCondition(c, data) # CheckCondition(With(c, Opposite[c.operator]), data)
    BY <2>1, <2>2, <2>3, OppositesDiffer
  <2>4. ASSUME Comparable(c, data), c.operator \in DOMAIN Mirrored
        PROVE  CheckCondition(c, data) = CheckCondition([With(c, Mirrored[c.operator]) EXCEPT !.reverse = ~c.reverse], data)
    BY <2>1, <2>4, MirrorsAgree
  <2>5. ASSUME Comparable(c, data), c.operator = "between", IsList(c)
        PROVE  LET bound(n, operator) == CheckCondition([With(c, operator) EXCEPT !.list = FALSE, !.value = c.value[n]], data)
               IN /\ CheckCondition(c, data) = (bound(1, "gt") /\ bound(2, "lt"))
                  /\ CheckCondition(With(c, "betweenInclusive"), data) = (bound(1, "ge") /\ bound(2, "le"))
    BY <2>1, <2>5, RangeIsItsBounds, Zenon
  <2> QED BY <2>3, <2>4, <2>5, Zenon DEF c, data
<1>3. BlankIsNoNumber
  BY BlankIsUnordered, Zenon DEF BlankIsNoNumber
<1> QED BY <1>2, <1>3 DEF ComparisonsAreSound

(* The operators of the conditions agree with one another on every text and *)
(* number, and a blank cell is in no order with a number.                    *)
THEOREM ComparisonsAreSoundHolds == Spec => []ComparisonsAreSound
<1>1. TypeOK /\ StyleInv => ComparisonsAreSound
  BY ComparisonsInOrder DEF TypeOK, StyleInv
<1>2. Init => StyleInv
  BY DEF Init, StyleInv, Styled, Formatted
<1> QED BY <1>1, <1>2, InitType, TypeStep, StyleStep, PTL DEF Spec

(* ------------------------------ levenshtein ------------------------------ *)

LEMMA MinIsLeast ==
  ASSUME NEW S \in SUBSET Nat, S # {}
  PROVE  Min(S) \in S /\ \A n \in S : Min(S) <= n
<1>1. \E n \in S : \A m \in S : n <= m
  BY Least
<1> QED BY <1>1, Zenon DEF Min

Indices(s, t) == (0..Len(s)) \X (0..Len(t))
Cost(s, t, i, j) == IF s[i] = t[j] THEN 0 ELSE 1
Swaps(s, t, i, j) == i > 1 /\ j > 1 /\ s[i] = t[j - 1] /\ s[i - 1] = t[j]
Steps(d, s, t, i, j) ==
  {d[<<i - 1, j>>] + 1, d[<<i, j - 1>>] + 1, d[<<i - 1, j - 1>>] + Cost(s, t, i, j)}
  \cup IF Swaps(s, t, i, j) THEN {d[<<i - 2, j - 2>>] + Cost(s, t, i, j)} ELSE {}
Filled(d, s, t, i, j) == IF i = 0 \/ j = 0 THEN i + j ELSE Min(Steps(d, s, t, i, j))
IsMatrix(d, s, t) ==
  /\ d \in [Indices(s, t) -> Nat]
  /\ \A i \in 0..Len(s), j \in 0..Len(t) : d[<<i, j>>] = Filled(d, s, t, i, j)

LEMMA StepsAreNat ==
  ASSUME NEW L, NEW s \in Seq(L), NEW t \in Seq(L), NEW d \in [Indices(s, t) -> Nat],
         NEW i \in 1..Len(s), NEW j \in 1..Len(t)
  PROVE  Steps(d, s, t, i, j) \in SUBSET Nat /\ Steps(d, s, t, i, j) # {}
<1>1. Len(s) \in Nat /\ Len(t) \in Nat
  OBVIOUS
<1>2. \A a \in 0..Len(s), b \in 0..Len(t) : d[<<a, b>>] \in Nat
  BY DEF Indices
<1>3. d[<<i - 1, j>>] \in Nat /\ d[<<i, j - 1>>] \in Nat /\ d[<<i - 1, j - 1>>] \in Nat
  BY <1>1, <1>2
<1>4. Swaps(s, t, i, j) => d[<<i - 2, j - 2>>] \in Nat
  BY <1>1, <1>2, SMTT(40) DEF Swaps
<1>5. Cost(s, t, i, j) \in Nat
  BY DEF Cost
<1> DEFINE rest == IF Swaps(s, t, i, j) THEN {d[<<i - 2, j - 2>>] + Cost(s, t, i, j)} ELSE {}
<1>6. rest \subseteq Nat
  BY <1>4, <1>5
<1>7. Steps(d, s, t, i, j) = {d[<<i - 1, j>>] + 1, d[<<i, j - 1>>] + 1, d[<<i - 1, j - 1>>] + Cost(s, t, i, j)} \cup rest
  BY Zenon DEF Steps
<1> DEFINE x == d[<<i - 1, j>>] + 1
           y == d[<<i, j - 1>>] + 1
           z == d[<<i - 1, j - 1>>] + Cost(s, t, i, j)
<1>8. x \in Nat /\ y \in Nat /\ z \in Nat
  <2> DEFINE a == d[<<i - 1, j>>]
             b == d[<<i, j - 1>>]
             c == d[<<i - 1, j - 1>>]
             cost == Cost(s, t, i, j)
  <2>1. a \in Nat /\ b \in Nat /\ c \in Nat /\ cost \in Nat
    BY <1>3, <1>5
  <2> HIDE DEF a, b, c, cost
  <2>2. a + 1 \in Nat /\ b + 1 \in Nat /\ c + cost \in Nat
    BY <2>1
  <2> QED BY <2>2, Zenon DEF a, b, c, cost
<1> HIDE DEF rest, x, y, z
<1>9. {x, y, z} \cup rest \in SUBSET Nat /\ {x, y, z} \cup rest # {}
  BY <1>6, <1>8
<1> QED BY <1>7, <1>9, Zenon DEF x, y, z

LEMMA FilledIsNat ==
  ASSUME NEW L, NEW s \in Seq(L), NEW t \in Seq(L), NEW d \in [Indices(s, t) -> Nat]
  PROVE  \A i \in 0..Len(s), j \in 0..Len(t) : Filled(d, s, t, i, j) \in Nat
<1> SUFFICES ASSUME NEW i \in 0..Len(s), NEW j \in 0..Len(t) PROVE Filled(d, s, t, i, j) \in Nat
  OBVIOUS
<1>1. CASE i = 0 \/ j = 0
  BY <1>1 DEF Filled
<1>2. CASE ~(i = 0 \/ j = 0)
  <2>1. i \in 1..Len(s) /\ j \in 1..Len(t)
    BY <1>2
  <2>2. Min(Steps(d, s, t, i, j)) \in Nat
    BY <2>1, StepsAreNat, MinIsLeast, SMTT(40)
  <2> QED BY <1>2, <2>2 DEF Filled
<1> QED BY <1>1, <1>2

SameBefore(d, e, s, t, i, j) ==
  \A a \in 0..Len(s), b \in 0..Len(t) : a + b < i + j => d[<<a, b>>] = e[<<a, b>>]

\* A cell is filled from cells that come before it.
LEMMA FilledFromBefore ==
  ASSUME NEW L, NEW s \in Seq(L), NEW t \in Seq(L), NEW i \in 0..Len(s), NEW j \in 0..Len(t)
  PROVE  \A d, e : SameBefore(d, e, s, t, i, j) => Filled(d, s, t, i, j) = Filled(e, s, t, i, j)
<1> SUFFICES ASSUME NEW d, NEW e, SameBefore(d, e, s, t, i, j)
             PROVE  Filled(d, s, t, i, j) = Filled(e, s, t, i, j)
  BY Zenon
<1>0. \A a \in 0..Len(s), b \in 0..Len(t) : a + b < i + j => d[<<a, b>>] = e[<<a, b>>]
  BY Zenon DEF SameBefore
<1>1. CASE i = 0 \/ j = 0
  BY <1>1 DEF Filled
<1>2. CASE ~(i = 0 \/ j = 0)
  <2>1. d[<<i - 1, j>>] = e[<<i - 1, j>>] /\ d[<<i, j - 1>>] = e[<<i, j - 1>>] /\ d[<<i - 1, j - 1>>] = e[<<i - 1, j - 1>>]
    BY <1>0, <1>2, SMTT(40)
  <2>2. Swaps(s, t, i, j) => d[<<i - 2, j - 2>>] = e[<<i - 2, j - 2>>]
    <3>1. Swaps(s, t, i, j) => i - 2 \in 0..Len(s) /\ j - 2 \in 0..Len(t) /\ (i - 2) + (j - 2) < i + j
      BY DEF Swaps
    <3> QED BY <1>0, <3>1
  <2>3. Steps(d, s, t, i, j) = Steps(e, s, t, i, j)
    BY <2>1, <2>2 DEF Steps
  <2> QED BY <2>3 DEF Filled
<1> QED BY <1>1, <1>2

LEMMA MatrixExists ==
  ASSUME NEW L, NEW s \in Seq(L), NEW t \in Seq(L)
  PROVE  \E d : IsMatrix(d, s, t)
<1> DEFINE n == Len(s)
           m == Len(t)
           UpTo(d, k) == d \in [Indices(s, t) -> Nat] /\
                           \A i \in 0..n, j \in 0..m : i + j <= k => d[<<i, j>>] = Filled(d, s, t, i, j)
           Exists(k) == \E d : UpTo(d, k)
           S == {k \in Nat : Exists(k)}
<1>1. n \in Nat /\ m \in Nat
  OBVIOUS
<1>2. 0 \in S
  <2> DEFINE d == [p \in Indices(s, t) |-> 0]
  <2>1. d \in [Indices(s, t) -> Nat] /\ \A i \in 0..n, j \in 0..m : d[<<i, j>>] = 0
    BY DEF Indices
  <2>2. \A i \in 0..n, j \in 0..m : i + j <= 0 => Filled(d, s, t, i, j) = 0
    BY DEF Filled
  <2>3. UpTo(d, 0)
    <3> HIDE DEF d
    <3> QED BY <2>1, <2>2
  <2> HIDE DEF UpTo
  <2> QED BY <2>3
<1>3. ASSUME NEW k \in Nat, k \in S PROVE k + 1 \in S
  <2>1. PICK d : UpTo(d, k)
    BY <1>3
  <2> DEFINE e == [p \in Indices(s, t) |-> IF p[1] + p[2] <= k THEN d[p] ELSE Filled(d, s, t, p[1], p[2])]
  <2>2. \A i \in 0..n, j \in 0..m : e[<<i, j>>] = IF i + j <= k THEN d[<<i, j>>] ELSE Filled(d, s, t, i, j)
    BY DEF Indices
  <2>3. \A i \in 0..n, j \in 0..m : Filled(d, s, t, i, j) \in Nat
    BY <2>1, FilledIsNat
  <2>4. e \in [Indices(s, t) -> Nat]
    BY <2>1, <2>3 DEF Indices
  <2>5. ASSUME NEW i \in 0..n, NEW j \in 0..m, i + j <= k + 1 PROVE e[<<i, j>>] = Filled(e, s, t, i, j)
    <3>1. \A a \in 0..n, b \in 0..m : a + b < i + j => d[<<a, b>>] = e[<<a, b>>]
      <4> SUFFICES ASSUME NEW a \in 0..n, NEW b \in 0..m, a + b < i + j PROVE d[<<a, b>>] = e[<<a, b>>]
        OBVIOUS
      <4> HIDE DEF e, n, m
      <4>1. a + b <= k
        BY <1>1, <2>5
      <4> QED BY <2>2, <4>1
    <3>2. Filled(d, s, t, i, j) = Filled(e, s, t, i, j)
      <4> HIDE DEF e
      <4>1. SameBefore(d, e, s, t, i, j)
        BY <3>1, Zenon DEF SameBefore
      <4> HIDE DEF n, m
      <4>2. i \in 0..Len(s) /\ j \in 0..Len(t)
        BY DEF n, m
      <4> QED BY <4>1, <4>2, FilledFromBefore, ZenonT(60)
    <3>3. e[<<i, j>>] = Filled(d, s, t, i, j)
      <4> HIDE DEF e
      <4> QED BY <2>1, <2>2
    <3> QED BY <3>2, <3>3
  <2>6. UpTo(e, k + 1)
    <3> HIDE DEF e
    <3> QED BY <2>4, <2>5
  <2> HIDE DEF UpTo, e
  <2> QED BY <2>6
<1>4. n + m \in S
  <2> HIDE DEF S
  <2>1. Nat \subseteq S
    BY <1>2, <1>3, Induction
  <2> QED BY <1>1, <2>1
<1>5. PICK d : UpTo(d, n + m)
  BY <1>4
<1>6. \A i \in 0..n, j \in 0..m : i + j <= n + m
  BY <1>1
<1> QED BY <1>5, <1>6 DEF IsMatrix

\* What holds of a cell when it holds of all before it holds of the matrix.
LEMMA MatrixInduction ==
  ASSUME NEW n \in Nat, NEW m \in Nat, NEW S,
         \A i \in 0..n, j \in 0..m :
           (\A a \in 0..n, b \in 0..m : a + b < i + j => <<a, b>> \in S) => <<i, j>> \in S
  PROVE  \A i \in 0..n, j \in 0..m : <<i, j>> \in S
<1> SUFFICES ASSUME NEW x \in 0..n, NEW y \in 0..m, <<x, y>> \notin S PROVE FALSE
  OBVIOUS
<1> DEFINE away == {k \in Nat : \E i \in 0..n, j \in 0..m : i + j = k /\ <<i, j>> \notin S}
<1>1. x + y \in away
  <2>1. x + y \in Nat
    OBVIOUS
  <2> QED BY <2>1, Zenon
<1>2. PICK k \in away : \A l \in away : k <= l
  BY <1>1, Least, ZenonT(60)
<1>3. PICK i \in 0..n, j \in 0..m : i + j = k /\ <<i, j>> \notin S
  BY <1>2
<1>4. ASSUME NEW a \in 0..n, NEW b \in 0..m, a + b < i + j PROVE <<a, b>> \in S
  <2> SUFFICES ASSUME <<a, b>> \notin S PROVE FALSE
    OBVIOUS
  <2>1. a + b \in away
    <3>1. a + b \in Nat
      OBVIOUS
    <3> QED BY <3>1, Zenon
  <2>2. k <= a + b
    BY <1>2, <2>1
  <2> QED BY <1>3, <1>4, <2>2
<1> QED BY <1>3, <1>4

\* levenshtein() reads its result off a matrix.
LEMMA DistanceIsInMatrix ==
  ASSUME NEW L, NEW s \in Seq(L), NEW t \in Seq(L)
  PROVE  \E d : IsMatrix(d, s, t) /\ Distance(s, t) = d[<<Len(s), Len(t)>>]
<1> DEFINE Row(d, p) == IF p[1] = 0 \/ p[2] = 0 THEN p[1] + p[2]
                        ELSE Min({d[<<p[1] - 1, p[2]>>] + 1, d[<<p[1], p[2] - 1>>] + 1, d[<<p[1] - 1, p[2] - 1>>] + (IF s[p[1]] = t[p[2]] THEN 0 ELSE 1)}
                                 \cup IF p[1] > 1 /\ p[2] > 1 /\ s[p[1]] = t[p[2] - 1] /\ s[p[1] - 1] = t[p[2]]
                                      THEN {d[<<p[1] - 2, p[2] - 2>>] + (IF s[p[1]] = t[p[2]] THEN 0 ELSE 1)} ELSE {})
           All == (0..Len(s)) \X (0..Len(t))
           D == CHOOSE d : d = [p \in All |-> Row(d, p)]
<1>1. \A d : \A i \in 0..Len(s), j \in 0..Len(t) : Row(d, <<i, j>>) = Filled(d, s, t, i, j)
  BY DEF Filled, Steps, Cost, Swaps
<1>2. PICK d : IsMatrix(d, s, t)
  BY MatrixExists
<1>3. d = [p \in All |-> Row(d, p)]
  <2>1. \A p \in All : \E i \in 0..Len(s), j \in 0..Len(t) : p = <<i, j>>
    OBVIOUS
  <2> HIDE DEF Row
  <2>2. \A p \in All : d[p] = Row(d, p)
    BY <1>1, <1>2, <2>1 DEF IsMatrix
  <2> QED BY <1>2, <2>2 DEF IsMatrix, Indices
<1>4. D = [p \in All |-> Row(D, p)]
  <2> HIDE DEF Row, All
  <2> QED BY <1>3
<1>5. Distance(s, t) = D[<<Len(s), Len(t)>>]
  BY Zenon DEF Distance
<1>6. \A i \in 0..Len(s), j \in 0..Len(t) : D[<<i, j>>] = Filled(D, s, t, i, j)
  <2> HIDE DEF D, Row
  <2>1. \A i \in 0..Len(s), j \in 0..Len(t) : D[<<i, j>>] = Row(D, <<i, j>>)
    BY <1>4
  <2> QED BY <1>1, <2>1
<1>7. D \in [Indices(s, t) -> Nat]
  <2> HIDE DEF D, Row
  <2> DEFINE S == {p \in Indices(s, t) : D[p] = d[p]}
  <2>1. Len(s) \in Nat /\ Len(t) \in Nat
    OBVIOUS
  <2>2. ASSUME NEW i \in 0..Len(s), NEW j \in 0..Len(t),
               \A a \in 0..Len(s), b \in 0..Len(t) : a + b < i + j => <<a, b>> \in S
        PROVE  <<i, j>> \in S
    <3>1. SameBefore(D, d, s, t, i, j)
      <4>1. \A a \in 0..Len(s), b \in 0..Len(t) : a + b < i + j => D[<<a, b>>] = d[<<a, b>>]
        BY <2>2
      <4> QED BY <4>1, Zenon DEF SameBefore
    <3>2. Filled(D, s, t, i, j) = Filled(d, s, t, i, j)
      <4> HIDE DEF S
      <4> QED BY <3>1, FilledFromBefore, ZenonT(60)
    <3> QED BY <1>2, <1>6, <3>2 DEF IsMatrix, Indices
  <2>3. \A i \in 0..Len(s), j \in 0..Len(t) : <<i, j>> \in S
    <3> HIDE DEF S
    <3> QED BY <2>1, <2>2, MatrixInduction
  <2>4. \A p \in Indices(s, t) : D[p] = d[p]
    BY <2>3 DEF Indices
  <2>5. DOMAIN D = Indices(s, t) /\ D = [p \in Indices(s, t) |-> D[p]]
    BY <1>4 DEF Indices
  <2> QED BY <1>2, <2>4, <2>5 DEF IsMatrix
<1> HIDE DEF D
<1> QED BY <1>5, <1>6, <1>7 DEF IsMatrix

LEMMA Border ==
  ASSUME NEW L, NEW s \in Seq(L), NEW t \in Seq(L), NEW d, IsMatrix(d, s, t)
  PROVE  /\ \A i \in 0..Len(s) : d[<<i, 0>>] = i
         /\ \A j \in 0..Len(t) : d[<<0, j>>] = j
<1>1. Len(s) \in Nat /\ Len(t) \in Nat
  OBVIOUS
<1>2. \A i \in 0..Len(s), j \in 0..Len(t) : i = 0 \/ j = 0 => d[<<i, j>>] = i + j
  BY Zenon DEF IsMatrix, Filled
<1>3. ASSUME NEW i \in 0..Len(s) PROVE d[<<i, 0>>] = i
  <2> DEFINE zero == 0
  <2>1. zero \in 0..Len(t) /\ i + zero = i /\ zero = 0
    BY <1>1
  <2> HIDE DEF zero
  <2>2. d[<<i, zero>>] = i + zero
    BY <1>2, <2>1, Zenon
  <2> QED BY <2>1, <2>2
<1>4. ASSUME NEW j \in 0..Len(t) PROVE d[<<0, j>>] = j
  <2> DEFINE zero == 0
  <2>1. zero \in 0..Len(s) /\ zero + j = j /\ zero = 0
    BY <1>1
  <2> HIDE DEF zero
  <2>2. d[<<zero, j>>] = zero + j
    BY <1>2, <2>1, Zenon
  <2> QED BY <2>1, <2>2
<1> QED BY <1>3, <1>4

\* A cell is the least of the steps that lead to it.
LEMMA Cell ==
  ASSUME NEW L, NEW s \in Seq(L), NEW t \in Seq(L), NEW d, IsMatrix(d, s, t),
         NEW i \in 1..Len(s), NEW j \in 1..Len(t)
  PROVE  /\ d[<<i, j>>] \in Nat /\ d[<<i - 1, j>>] \in Nat /\ d[<<i, j - 1>>] \in Nat /\ d[<<i - 1, j - 1>>] \in Nat
         /\ d[<<i, j>>] <= d[<<i - 1, j>>] + 1 /\ d[<<i, j>>] <= d[<<i, j - 1>>] + 1
         /\ d[<<i, j>>] <= d[<<i - 1, j - 1>>] + Cost(s, t, i, j)
         /\ Swaps(s, t, i, j) => d[<<i - 2, j - 2>>] \in Nat /\ d[<<i, j>>] <= d[<<i - 2, j - 2>>] + Cost(s, t, i, j)
         /\ \/ d[<<i, j>>] = d[<<i - 1, j>>] + 1 \/ d[<<i, j>>] = d[<<i, j - 1>>] + 1
            \/ d[<<i, j>>] = d[<<i - 1, j - 1>>] + Cost(s, t, i, j)
            \/ Swaps(s, t, i, j) /\ d[<<i, j>>] = d[<<i - 2, j - 2>>] + Cost(s, t, i, j)
<1> DEFINE all == Steps(d, s, t, i, j)
           a == d[<<i - 1, j>>]
           b == d[<<i, j - 1>>]
           c == d[<<i - 1, j - 1>>]
           e == d[<<i - 2, j - 2>>]
           v == d[<<i, j>>]
           cost == Cost(s, t, i, j)
           swaps == Swaps(s, t, i, j)
<1>1. Len(s) \in Nat /\ Len(t) \in Nat
  OBVIOUS
<1>2. d \in [Indices(s, t) -> Nat]
  BY DEF IsMatrix
<1>3. \A x \in 0..Len(s), y \in 0..Len(t) : d[<<x, y>>] \in Nat
  BY <1>2 DEF Indices
<1>4. v \in Nat /\ a \in Nat /\ b \in Nat /\ c \in Nat
  BY <1>1, <1>3
<1>5. swaps => e \in Nat
  BY <1>1, <1>3 DEF Swaps
<1>6. v = Min(all) /\ all \in SUBSET Nat /\ all # {}
  <2>1. all \in SUBSET Nat /\ all # {}
    BY <1>2, StepsAreNat, Zenon
  <2>2. i \in 0..Len(s) /\ j \in 0..Len(t) /\ ~(i = 0 \/ j = 0)
    BY <1>1
  <2>3. v = Filled(d, s, t, i, j)
    BY <2>2, Zenon DEF IsMatrix
  <2> QED BY <2>1, <2>2, <2>3, Zenon DEF Filled
<1>7. all = {a + 1, b + 1, c + cost} \cup IF swaps THEN {e + cost} ELSE {}
  BY Zenon DEF Steps
<1>8. v \in all /\ \A x \in all : v <= x
  <2> HIDE DEF all, v
  <2> QED BY <1>6, MinIsLeast
<1> HIDE DEF all, a, b, c, e, v, cost, swaps
<1>9. /\ v <= a + 1 /\ v <= b + 1 /\ v <= c + cost
      /\ swaps => v <= e + cost
      /\ v = a + 1 \/ v = b + 1 \/ v = c + cost \/ (swaps /\ v = e + cost)
  <2>1. a + 1 \in all /\ b + 1 \in all /\ c + cost \in all /\ (swaps => e + cost \in all)
    BY <1>7
  <2>2. v = a + 1 \/ v = b + 1 \/ v = c + cost \/ (swaps /\ v = e + cost)
    BY <1>7, <1>8
  <2> QED BY <1>8, <2>1, <2>2
<1> QED BY <1>4, <1>5, <1>9, Zenon DEF a, b, c, e, v, cost, swaps

\* No more steps than the longer word has letters, no fewer than it has more.
LEMMA StepsInBounds ==
  ASSUME NEW L, NEW s \in Seq(L), NEW t \in Seq(L), NEW d, IsMatrix(d, s, t)
  PROVE  \A i \in 0..Len(s), j \in 0..Len(t) :
           d[<<i, j>>] \in Nat /\ i - j <= d[<<i, j>>] /\ j - i <= d[<<i, j>>] /\ (d[<<i, j>>] <= i \/ d[<<i, j>>] <= j)
<1> DEFINE Inside(i, j, v) == v \in Nat /\ i - j <= v /\ j - i <= v /\ (v <= i \/ v <= j)
           S == {p \in Indices(s, t) : Inside(p[1], p[2], d[p])}
<1>1. Len(s) \in Nat /\ Len(t) \in Nat
  OBVIOUS
<1>2. \A i \in 0..Len(s), j \in 0..Len(t) : <<i, j>> \in S <=> Inside(i, j, d[<<i, j>>])
  BY DEF Indices
<1>3. ASSUME NEW i \in 0..Len(s), NEW j \in 0..Len(t),
             \A a \in 0..Len(s), b \in 0..Len(t) : a + b < i + j => <<a, b>> \in S
      PROVE  <<i, j>> \in S
  <2> HIDE DEF S
  <2>1. CASE i = 0 \/ j = 0
    <3>1. d[<<i, j>>] = i + j
      BY <2>1, Border
    <3>2. \A v : v = i + j => Inside(i, j, v)
      BY <1>1, <2>1
    <3> HIDE DEF Inside
    <3> QED BY <1>2, <3>1, <3>2, Zenon
  <2>2. CASE ~(i = 0 \/ j = 0)
    <3> DEFINE a == d[<<i - 1, j>>]
               b == d[<<i, j - 1>>]
               c == d[<<i - 1, j - 1>>]
               e == d[<<i - 2, j - 2>>]
               v == d[<<i, j>>]
               cost == Cost(s, t, i, j)
    <3>1. i \in 1..Len(s) /\ j \in 1..Len(t)
      BY <2>2
    <3>2. i - 1 \in 0..Len(s) /\ j - 1 \in 0..Len(t) /\ i \in Nat /\ j \in Nat /\ i >= 1 /\ j >= 1
      BY <1>1, <3>1
    <3>3. Inside(i - 1, j, a) /\ Inside(i, j - 1, b) /\ Inside(i - 1, j - 1, c)
      <4>1. (i - 1) + j < i + j /\ i + (j - 1) < i + j /\ (i - 1) + (j - 1) < i + j
        BY <3>2
      <4>2. <<i - 1, j>> \in S /\ <<i, j - 1>> \in S /\ <<i - 1, j - 1>> \in S
        BY <1>3, <3>2, <4>1, Zenon
      <4> HIDE DEF Inside
      <4> QED BY <1>2, <3>2, <4>2, Zenon
    <3>4. Swaps(s, t, i, j) => Inside(i - 2, j - 2, e) /\ i >= 2 /\ j >= 2
      <4>1. Swaps(s, t, i, j) => i - 2 \in 0..Len(s) /\ j - 2 \in 0..Len(t) /\ (i - 2) + (j - 2) < i + j /\ i >= 2 /\ j >= 2
        BY <1>1, <3>2 DEF Swaps
      <4>2. Swaps(s, t, i, j) => <<i - 2, j - 2>> \in S
        BY <1>3, <4>1, Zenon
      <4> HIDE DEF Inside
      <4> QED BY <1>2, <4>1, <4>2, Zenon
    <3>5. /\ v \in Nat /\ v <= c + cost
          /\ v = a + 1 \/ v = b + 1 \/ v = c + cost \/ (Swaps(s, t, i, j) /\ v = e + cost)
      BY <3>1, Cell, Zenon
    <3>6. cost \in {0, 1}
      BY DEF Cost
    <3> HIDE DEF a, b, c, e, v, cost
    <3>7. Inside(i, j, v)
      BY <3>2, <3>3, <3>4, <3>5, <3>6
    <3> HIDE DEF Inside
    <3>8. Inside(i, j, d[<<i, j>>])
      BY <3>7, Zenon DEF v
    <3> QED BY <1>2, <3>8, Zenon
  <2> QED BY <2>1, <2>2
<1>4. \A i \in 0..Len(s), j \in 0..Len(t) : <<i, j>> \in S
  <2> HIDE DEF S
  <2> QED BY <1>1, <1>3, MatrixInduction, Zenon
<1> QED BY <1>2, <1>4, Zenon

\* The neighbours of a cell come before it.
LEMMA Neighbours ==
  ASSUME NEW L, NEW s \in Seq(L), NEW t \in Seq(L), NEW i \in 0..Len(s), NEW j \in 0..Len(t), ~(i = 0 \/ j = 0), NEW S,
         \A a \in 0..Len(s), b \in 0..Len(t) : a + b < i + j => <<a, b>> \in S
  PROVE  /\ i \in 1..Len(s) /\ j \in 1..Len(t) /\ i - 1 \in 0..Len(s) /\ j - 1 \in 0..Len(t)
         /\ <<i - 1, j>> \in S /\ <<i, j - 1>> \in S /\ <<i - 1, j - 1>> \in S
         /\ Swaps(s, t, i, j) => i - 2 \in 0..Len(s) /\ j - 2 \in 0..Len(t) /\ <<i - 2, j - 2>> \in S
<1>1. Len(s) \in Nat /\ Len(t) \in Nat
  OBVIOUS
<1>2. i \in 1..Len(s) /\ j \in 1..Len(t) /\ i - 1 \in 0..Len(s) /\ j - 1 \in 0..Len(t)
  BY <1>1
<1>3. (i - 1) + j < i + j /\ i + (j - 1) < i + j /\ (i - 1) + (j - 1) < i + j
  BY <1>1
<1>4. Swaps(s, t, i, j) => i > 1 /\ j > 1
  BY Zenon DEF Swaps
<1>5. \A m, n \in Nat : \A a \in 0..m, b \in 0..n :
        a > 1 /\ b > 1 => a - 2 \in 0..m /\ b - 2 \in 0..n /\ (a - 2) + (b - 2) < a + b
  OBVIOUS
<1>6. Swaps(s, t, i, j) => i - 2 \in 0..Len(s) /\ j - 2 \in 0..Len(t) /\ (i - 2) + (j - 2) < i + j
  BY <1>1, <1>4, <1>5, Zenon
<1> QED BY <1>2, <1>3, <1>6, Zenon

Mirror(d, e, s, t) == \A i \in 0..Len(s), j \in 0..Len(t) : d[<<i, j>>] = e[<<j, i>>]

\* It takes as many steps back as there.
LEMMA StepsBack ==
  ASSUME NEW L, NEW s \in Seq(L), NEW t \in Seq(L)
  PROVE  \A d, e : IsMatrix(d, s, t) /\ IsMatrix(e, t, s) => Mirror(d, e, s, t)
<1> SUFFICES ASSUME NEW d, IsMatrix(d, s, t), NEW e, IsMatrix(e, t, s)
             PROVE  \A i \in 0..Len(s), j \in 0..Len(t) : d[<<i, j>>] = e[<<j, i>>]
  BY Zenon DEF Mirror
<1> DEFINE S == {p \in Indices(s, t) : d[p] = e[<<p[2], p[1]>>]}
<1>1. Len(s) \in Nat /\ Len(t) \in Nat
  OBVIOUS
<1>2. \A i \in 0..Len(s), j \in 0..Len(t) : <<i, j>> \in S <=> d[<<i, j>>] = e[<<j, i>>]
  BY DEF Indices
<1>3. ASSUME NEW i \in 0..Len(s), NEW j \in 0..Len(t),
             \A a \in 0..Len(s), b \in 0..Len(t) : a + b < i + j => <<a, b>> \in S
      PROVE  <<i, j>> \in S
  <2> HIDE DEF S
  <2>1. CASE i = 0 \/ j = 0
    <3>1. d[<<i, j>>] = i + j /\ e[<<j, i>>] = j + i
      BY <2>1, Border
    <3>2. i + j = j + i
      BY <1>1
    <3> QED BY <1>2, <3>1, <3>2, Zenon
  <2>2. CASE ~(i = 0 \/ j = 0)
    <3> DEFINE a == d[<<i - 1, j>>]
               b == d[<<i, j - 1>>]
               c == d[<<i - 1, j - 1>>]
               w == d[<<i - 2, j - 2>>]
               v == d[<<i, j>>]
               u == e[<<j, i>>]
               cost == Cost(s, t, i, j)
               swaps == Swaps(s, t, i, j)
    <3>1. /\ i \in 1..Len(s) /\ j \in 1..Len(t) /\ i - 1 \in 0..Len(s) /\ j - 1 \in 0..Len(t)
          /\ <<i - 1, j>> \in S /\ <<i, j - 1>> \in S /\ <<i - 1, j - 1>> \in S
          /\ swaps => i - 2 \in 0..Len(s) /\ j - 2 \in 0..Len(t) /\ <<i - 2, j - 2>> \in S
      BY <1>3, <2>2, Neighbours, Zenon
    <3>2. /\ a = e[<<j, i - 1>>] /\ b = e[<<j - 1, i>>] /\ c = e[<<j - 1, i - 1>>]
          /\ swaps => w = e[<<j - 2, i - 2>>]
      BY <1>2, <3>1, Zenon
    <3>3. cost = Cost(t, s, j, i) /\ (swaps <=> Swaps(t, s, j, i))
      BY DEF Cost, Swaps
    <3>4. /\ v \in Nat /\ a \in Nat /\ b \in Nat /\ c \in Nat /\ (swaps => w \in Nat)
          /\ v <= a + 1 /\ v <= b + 1 /\ v <= c + cost /\ (swaps => v <= w + cost)
          /\ v = a + 1 \/ v = b + 1 \/ v = c + cost \/ (swaps /\ v = w + cost)
      BY <3>1, Cell, ZenonT(60)
    <3>5. /\ u \in Nat
          /\ u <= b + 1 /\ u <= a + 1 /\ u <= c + cost /\ (swaps => u <= w + cost)
          /\ u = b + 1 \/ u = a + 1 \/ u = c + cost \/ (swaps /\ u = w + cost)
      <4>1. /\ u \in Nat
            /\ u <= e[<<j - 1, i>>] + 1 /\ u <= e[<<j, i - 1>>] + 1
            /\ u <= e[<<j - 1, i - 1>>] + Cost(t, s, j, i)
            /\ Swaps(t, s, j, i) => u <= e[<<j - 2, i - 2>>] + Cost(t, s, j, i)
            /\ \/ u = e[<<j - 1, i>>] + 1 \/ u = e[<<j, i - 1>>] + 1
               \/ u = e[<<j - 1, i - 1>>] + Cost(t, s, j, i)
               \/ Swaps(t, s, j, i) /\ u = e[<<j - 2, i - 2>>] + Cost(t, s, j, i)
        BY <3>1, Cell, ZenonT(60)
      <4> HIDE DEF a, b, c, w, u, cost, swaps
      <4> QED BY <3>2, <3>3, <4>1, Zenon
    <3>6. cost \in {0, 1}
      BY DEF Cost
    <3> HIDE DEF a, b, c, w, v, u, cost, swaps
    <3>7. v = u
      BY <3>4, <3>5, <3>6
    <3> QED BY <1>2, <3>7, Zenon DEF v, u
  <2> QED BY <2>1, <2>2
<1>4. \A i \in 0..Len(s), j \in 0..Len(t) : <<i, j>> \in S
  <2> HIDE DEF S
  <2> QED BY <1>1, <1>3, MatrixInduction, Zenon
<1> QED BY <1>2, <1>4, Zenon

\* The first i letters of s are the first j letters of t.
Same(s, t, i, j) == i = j /\ \A k \in 1..i : s[k] = t[k]

\* No step leads from a word to itself only.
LEMMA NoStep ==
  ASSUME NEW L, NEW s \in Seq(L), NEW t \in Seq(L), NEW d, IsMatrix(d, s, t)
  PROVE  \A i \in 0..Len(s), j \in 0..Len(t) : d[<<i, j>>] = 0 <=> Same(s, t, i, j)
<1> DEFINE S == {p \in Indices(s, t) : d[p] = 0 <=> Same(s, t, p[1], p[2])}
<1>1. Len(s) \in Nat /\ Len(t) \in Nat
  OBVIOUS
<1>2. \A i \in 0..Len(s), j \in 0..Len(t) : <<i, j>> \in S <=> (d[<<i, j>>] = 0 <=> Same(s, t, i, j))
  BY DEF Indices
<1>3. ASSUME NEW i \in 0..Len(s), NEW j \in 0..Len(t),
             \A a \in 0..Len(s), b \in 0..Len(t) : a + b < i + j => <<a, b>> \in S
      PROVE  <<i, j>> \in S
  <2> HIDE DEF S
  <2>1. CASE i = 0 \/ j = 0
    <3>1. d[<<i, j>>] = i + j
      BY <2>1, Border
    <3>2. i + j = 0 <=> Same(s, t, i, j)
      BY <1>1, <2>1 DEF Same
    <3> QED BY <1>2, <3>1, <3>2, Zenon
  <2>2. CASE ~(i = 0 \/ j = 0)
    <3> DEFINE a == d[<<i - 1, j>>]
               b == d[<<i, j - 1>>]
               c == d[<<i - 1, j - 1>>]
               w == d[<<i - 2, j - 2>>]
               v == d[<<i, j>>]
               cost == Cost(s, t, i, j)
               swaps == Swaps(s, t, i, j)
    <3>1. /\ i \in 1..Len(s) /\ j \in 1..Len(t) /\ i - 1 \in 0..Len(s) /\ j - 1 \in 0..Len(t)
          /\ <<i - 1, j>> \in S /\ <<i, j - 1>> \in S /\ <<i - 1, j - 1>> \in S
          /\ swaps => i - 2 \in 0..Len(s) /\ j - 2 \in 0..Len(t) /\ <<i - 2, j - 2>> \in S
      BY <1>3, <2>2, Neighbours, Zenon
    <3>2. (c = 0 <=> Same(s, t, i - 1, j - 1)) /\ (swaps => (w = 0 <=> Same(s, t, i - 2, j - 2)))
      BY <1>2, <3>1, Zenon
    <3>3. /\ v \in Nat /\ a \in Nat /\ b \in Nat /\ c \in Nat /\ (swaps => w \in Nat)
          /\ v <= c + cost
          /\ v = a + 1 \/ v = b + 1 \/ v = c + cost \/ (swaps /\ v = w + cost)
      BY <3>1, Cell, ZenonT(60)
    <3>4. (cost = 0 <=> s[i] = t[j]) /\ cost \in {0, 1}
      BY DEF Cost
    <3> HIDE DEF a, b, c, w, v, cost
    <3>5. ASSUME v = 0 PROVE Same(s, t, i, j)
      <4>1. (c = 0 \/ (swaps /\ w = 0)) /\ cost = 0
        BY <3>3, <3>4, <3>5
      <4>2. CASE c = 0
        BY <3>2, <3>4, <4>1, <4>2, <1>1, <3>1 DEF Same
      <4>3. CASE swaps /\ w = 0
        <5>1. i - 2 = j - 2 /\ \A k \in 1..(i - 2) : s[k] = t[k]
          BY <3>2, <4>3, Zenon DEF Same
        <5>2. s[i] = t[j] /\ s[i] = t[j - 1] /\ s[i - 1] = t[j]
          BY <3>4, <4>1, <4>3 DEF Swaps
        <5>a. i = j
          BY <1>1, <3>1, <5>1
        <5>3. i = j /\ s[i] = t[i] /\ s[i - 1] = t[i - 1]
          BY <5>a, <5>2
        <5>4. \A k \in 1..i : k \in 1..(i - 2) \/ k = i - 1 \/ k = i
          BY <3>1
        <5> HIDE DEF swaps
        <5> QED BY <5>1, <5>3, <5>4, Zenon DEF Same
      <4> QED BY <4>1, <4>2, <4>3
    <3>6. ASSUME Same(s, t, i, j) PROVE v = 0
      <4>1. s[i] = t[j] /\ Same(s, t, i - 1, j - 1)
        BY <1>1, <3>1, <3>6 DEF Same
      <4> QED BY <3>2, <3>3, <3>4, <4>1
    <3>7. v = 0 <=> Same(s, t, i, j)
      BY <3>5, <3>6
    <3> QED BY <1>2, <3>7, Zenon DEF v
  <2> QED BY <2>1, <2>2
<1>4. \A i \in 0..Len(s), j \in 0..Len(t) : <<i, j>> \in S
  <2> HIDE DEF S
  <2> QED BY <1>1, <1>3, MatrixInduction, Zenon
<1> QED BY <1>2, <1>4, Zenon

\* The first i letters of s are one edit away from the first j letters of t:
\* another letter, two that change places, a letter more.
Other(s, t, i, j) == i = j /\ \E k \in 1..i : s[k] # t[k] /\ \A l \in 1..i : l # k => s[l] = t[l]
Swapped(s, t, i, j) ==
  i = j /\ \E k \in 1..(i - 1) : /\ s[k] = t[k + 1] /\ s[k + 1] = t[k] /\ s[k] # t[k]
                                 /\ \A l \in 1..i : l # k /\ l # k + 1 => s[l] = t[l]
Shorter(s, t, i, j) ==
  j = i + 1 /\ \E k \in 1..j : (\A l \in 1..(k - 1) : s[l] = t[l]) /\ \A l \in k..i : s[l] = t[l + 1]
OneEdit(s, t, i, j) ==
  Other(s, t, i, j) \/ Swapped(s, t, i, j) \/ Shorter(s, t, i, j) \/ Shorter(t, s, j, i)

LEMMA SameAfter ==
  ASSUME NEW s, NEW t, NEW i \in Nat \ {0}, NEW j \in Nat \ {0}
  PROVE  /\ Same(s, t, i - 1, j - 1) /\ s[i] # t[j] => Other(s, t, i, j)
         /\ Same(s, t, i, j - 1) => Shorter(s, t, i, j)
         /\ Same(s, t, i - 1, j) => Shorter(t, s, j, i)
         /\ i > 1 /\ j > 1 /\ Same(s, t, i - 2, j - 2) /\ Swaps(s, t, i, j) /\ s[i] # t[j] => Swapped(s, t, i, j)
<1>1. ASSUME Same(s, t, i - 1, j - 1), s[i] # t[j] PROVE Other(s, t, i, j)
  <2>1. i = j /\ \A k \in 1..(i - 1) : s[k] = t[k]
    BY <1>1 DEF Same
  <2>2. i \in 1..i /\ \A l \in 1..i : l # i => l \in 1..(i - 1)
    OBVIOUS
  <2> QED BY <1>1, <2>1, <2>2, Zenon DEF Other
<1>2. \A a, b : \A x \in Nat, y \in Nat \ {0} : Same(a, b, x, y - 1) => Shorter(a, b, x, y)
  <2> SUFFICES ASSUME NEW a, NEW b, NEW x \in Nat, NEW y \in Nat \ {0}, Same(a, b, x, y - 1) PROVE Shorter(a, b, x, y)
    BY Zenon
  <2>1. x = y - 1 /\ \A k \in 1..x : a[k] = b[k]
    BY Zenon DEF Same
  <2>2. y = x + 1 /\ y \in 1..y /\ y - 1 = x /\ y..x = {}
    BY <2>1
  <2> QED BY <2>1, <2>2, Zenon DEF Shorter
<1>3. \A x, y : Same(s, t, x, y) => Same(t, s, y, x)
  BY Zenon DEF Same
<1>4. ASSUME i > 1, j > 1, Same(s, t, i - 2, j - 2), Swaps(s, t, i, j), s[i] # t[j] PROVE Swapped(s, t, i, j)
  <2>1. i - 2 = j - 2 /\ \A k \in 1..(i - 2) : s[k] = t[k]
    BY <1>4, Zenon DEF Same
  <2>2. i = j
    BY <2>1
  <2>3. i - 1 \in 1..(i - 1) /\ (i - 1) + 1 = i /\ \A l \in 1..i : l # i - 1 /\ l # i => l \in 1..(i - 2)
    BY <1>4
  <2>4. s[i] = t[j - 1] /\ s[i - 1] = t[j]
    BY <1>4, Zenon DEF Swaps
  <2>5. s[i - 1] = t[i] /\ s[i] = t[i - 1] /\ s[i - 1] # t[i - 1]
    BY <1>4, <2>2, <2>4
  <2> DEFINE k == i - 1
  <2>6. k \in 1..(i - 1) /\ k + 1 = i /\ s[k] = t[k + 1] /\ s[k + 1] = t[k] /\ s[k] # t[k]
    BY <2>3, <2>5
  <2>7. \A l \in 1..i : l # k /\ l # k + 1 => s[l] = t[l]
    BY <2>1, <2>3, Zenon
  <2> HIDE DEF k
  <2> QED BY <2>2, <2>6, <2>7, Zenon DEF Swapped
<1> QED BY <1>1, <1>2, <1>3, <1>4, Zenon

LEMMA OneMore ==
  ASSUME NEW s, NEW t, NEW i \in Nat \ {0}, NEW j \in Nat \ {0}, s[i] = t[j], OneEdit(s, t, i - 1, j - 1)
  PROVE  OneEdit(s, t, i, j)
<1>1. CASE Other(s, t, i - 1, j - 1)
  <2>1. i - 1 = j - 1
    BY <1>1, Zenon DEF Other
  <2>2. PICK k \in 1..(i - 1) : s[k] # t[k] /\ \A l \in 1..(i - 1) : l # k => s[l] = t[l]
    BY <1>1, Zenon DEF Other
  <2>3. i = j /\ k \in 1..i /\ \A l \in 1..i : l \in 1..(i - 1) \/ l = i
    BY <2>1, <2>2
  <2> QED BY <2>2, <2>3, Zenon DEF Other, OneEdit
<1>2. CASE Swapped(s, t, i - 1, j - 1)
  <2>1. i - 1 = j - 1
    BY <1>2, Zenon DEF Swapped
  <2>2. PICK k \in 1..((i - 1) - 1) : /\ s[k] = t[k + 1] /\ s[k + 1] = t[k] /\ s[k] # t[k]
                                      /\ \A l \in 1..(i - 1) : l # k /\ l # k + 1 => s[l] = t[l]
    BY <1>2, Zenon DEF Swapped
  <2>3. i = j /\ k \in 1..(i - 1) /\ \A l \in 1..i : l \in 1..(i - 1) \/ l = i
    BY <2>1, <2>2
  <2>4. \A l \in 1..i : l # k /\ l # k + 1 => s[l] = t[l]
    BY <2>2, <2>3, Zenon
  <2> QED BY <2>2, <2>3, <2>4, Zenon DEF Swapped, OneEdit
<1>3. \A a, b : \A x, y \in Nat \ {0} : a[x] = b[y] /\ Shorter(a, b, x - 1, y - 1) => Shorter(a, b, x, y)
  <2> SUFFICES ASSUME NEW a, NEW b, NEW x \in Nat \ {0}, NEW y \in Nat \ {0}, a[x] = b[y], Shorter(a, b, x - 1, y - 1)
               PROVE  Shorter(a, b, x, y)
    BY Zenon
  <2>1. y - 1 = (x - 1) + 1
    BY Zenon DEF Shorter
  <2>2. PICK k \in 1..(y - 1) : (\A l \in 1..(k - 1) : a[l] = b[l]) /\ \A l \in k..(x - 1) : a[l] = b[l + 1]
    BY Zenon DEF Shorter
  <2>3. y = x + 1 /\ k \in 1..y /\ \A l \in k..x : l \in k..(x - 1) \/ l = x
    BY <2>1, <2>2
  <2>4. \A l \in k..x : a[l] = b[l + 1]
    BY <2>2, <2>3, Zenon
  <2> QED BY <2>2, <2>3, <2>4, Zenon DEF Shorter
<1> QED BY <1>1, <1>2, <1>3, Zenon DEF OneEdit

LEMMA OneLess ==
  ASSUME NEW s, NEW t, NEW i \in Nat \ {0}, NEW j \in Nat \ {0}, OneEdit(s, t, i, j)
  PROVE  \/ s[i] = t[j] /\ OneEdit(s, t, i - 1, j - 1)
         \/ Same(s, t, i - 1, j - 1)
         \/ i > 1 /\ j > 1 /\ Swaps(s, t, i, j) /\ Same(s, t, i - 2, j - 2)
         \/ Same(s, t, i, j - 1) \/ Same(s, t, i - 1, j)
<1>1. CASE Other(s, t, i, j)
  <2>1. i = j
    BY <1>1, Zenon DEF Other
  <2>2. PICK k \in 1..i : s[k] # t[k] /\ \A l \in 1..i : l # k => s[l] = t[l]
    BY <1>1, Zenon DEF Other
  <2>3. CASE k = i
    <3>1. \A l \in 1..(i - 1) : l \in 1..i /\ l # k
      BY <2>3
    <3> QED BY <2>1, <2>2, <3>1, Zenon DEF Same
  <2>4. CASE k # i
    <3>1. k \in 1..(i - 1) /\ i \in 1..i /\ \A l \in 1..(i - 1) : l \in 1..i
      BY <2>4
    <3> QED BY <2>1, <2>2, <2>4, <3>1, Zenon DEF Other, OneEdit
  <2> QED BY <2>3, <2>4
<1>2. CASE Swapped(s, t, i, j)
  <2>1. i = j
    BY <1>2, Zenon DEF Swapped
  <2>2. PICK k \in 1..(i - 1) : /\ s[k] = t[k + 1] /\ s[k + 1] = t[k] /\ s[k] # t[k]
                                /\ \A l \in 1..i : l # k /\ l # k + 1 => s[l] = t[l]
    BY <1>2, Zenon DEF Swapped
  <2>3. CASE k = i - 1
    <3>1. i > 1 /\ k + 1 = i /\ \A l \in 1..(i - 2) : l \in 1..i /\ l # k /\ l # k + 1
      BY <2>3
    <3>2. Same(s, t, i - 2, j - 2)
      BY <2>1, <2>2, <3>1, Zenon DEF Same
    <3>3. Swaps(s, t, i, j)
      BY <2>1, <2>2, <2>3, <3>1, Zenon DEF Swaps
    <3> QED BY <2>1, <3>1, <3>2, <3>3
  <2>4. CASE k # i - 1
    <3>1. k \in 1..((i - 1) - 1) /\ i \in 1..i /\ i # k /\ i # k + 1 /\ \A l \in 1..(i - 1) : l \in 1..i
      BY <2>4
    <3>2. Swapped(s, t, i - 1, j - 1) /\ s[i] = t[j]
      BY <2>1, <2>2, <3>1, Zenon DEF Swapped
    <3> QED BY <3>2, Zenon DEF OneEdit
  <2> QED BY <2>3, <2>4
<1>3. \A a, b : \A x, y \in Nat \ {0} :
        Shorter(a, b, x, y) => (a[x] = b[y] /\ Shorter(a, b, x - 1, y - 1)) \/ Same(a, b, x, y - 1)
  <2> SUFFICES ASSUME NEW a, NEW b, NEW x \in Nat \ {0}, NEW y \in Nat \ {0}, Shorter(a, b, x, y)
               PROVE  (a[x] = b[y] /\ Shorter(a, b, x - 1, y - 1)) \/ Same(a, b, x, y - 1)
    BY Zenon
  <2>1. y = x + 1
    BY Zenon DEF Shorter
  <2>2. PICK k \in 1..y : (\A l \in 1..(k - 1) : a[l] = b[l]) /\ \A l \in k..x : a[l] = b[l + 1]
    BY Zenon DEF Shorter
  <2>3. CASE k = y
    <3>1. x = y - 1 /\ k - 1 = x
      BY <2>1, <2>3
    <3> QED BY <2>2, <3>1, Zenon DEF Same
  <2>4. CASE k # y
    <3>1. x \in k..x /\ k \in 1..(y - 1) /\ y - 1 = (x - 1) + 1 /\ \A l \in k..(x - 1) : l \in k..x
      BY <2>1, <2>4
    <3> QED BY <2>1, <2>2, <3>1, Zenon DEF Shorter
  <2> QED BY <2>3, <2>4
<1>4. \A x, y : Same(t, s, x, y) => Same(s, t, y, x)
  BY Zenon DEF Same
<1> QED BY <1>1, <1>2, <1>3, <1>4, Zenon DEF OneEdit

LEMMA EditedIsOther ==
  ASSUME NEW s, NEW t, NEW i \in Nat, NEW j \in Nat, OneEdit(s, t, i, j)
  PROVE  ~Same(s, t, i, j)
<1>1. Other(s, t, i, j) => ~Same(s, t, i, j)
  BY Zenon DEF Other, Same
<1>2. Swapped(s, t, i, j) => ~Same(s, t, i, j)
  <2>1. \A k \in 1..(i - 1) : k \in 1..i
    OBVIOUS
  <2> QED BY <2>1, Zenon DEF Swapped, Same
<1>3. Shorter(s, t, i, j) \/ Shorter(t, s, j, i) => i # j
  BY DEF Shorter
<1> QED BY <1>1, <1>2, <1>3, Zenon DEF OneEdit, Same

LEMMA BorderEdits ==
  ASSUME NEW s, NEW t, NEW i \in Nat, NEW j \in Nat, i = 0 \/ j = 0
  PROVE  i + j = 1 <=> OneEdit(s, t, i, j)
<1>1. ~Other(s, t, i, j) /\ ~Swapped(s, t, i, j)
  BY DEF Other, Swapped
<1>2. \A a, b : \A x, y \in Nat : Shorter(a, b, x, y) => y = x + 1
  BY DEF Shorter
<1>3. \A a, b : \A x, y \in Nat : x = 0 /\ y = 1 => Shorter(a, b, x, y)
  <2>1. \A x, y \in Nat : x = 0 /\ y = 1 => y = x + 1 /\ 1 \in 1..y /\ 1..(1 - 1) = {} /\ 1..x = {}
    OBVIOUS
  <2> QED BY <2>1, Zenon DEF Shorter
<1>4. i + j = 1 => (i = 0 /\ j = 1) \/ (j = 0 /\ i = 1)
  OBVIOUS
<1>5. ASSUME i + j = 1 PROVE OneEdit(s, t, i, j)
  BY <1>3, <1>4, <1>5, Zenon DEF OneEdit
<1>6. ASSUME OneEdit(s, t, i, j) PROVE i + j = 1
  <2>1. j = i + 1 \/ i = j + 1
    BY <1>1, <1>2, <1>6, Zenon DEF OneEdit
  <2> QED BY <2>1
<1> QED BY <1>5, <1>6

\* One step leads to the words that are one edit away, and to no other.
LEMMA OneStep ==
  ASSUME NEW L, NEW s \in Seq(L), NEW t \in Seq(L), NEW d, IsMatrix(d, s, t)
  PROVE  \A i \in 0..Len(s), j \in 0..Len(t) : d[<<i, j>>] = 1 <=> OneEdit(s, t, i, j)
<1> DEFINE S == {p \in Indices(s, t) : d[p] = 1 <=> OneEdit(s, t, p[1], p[2])}
<1>1. Len(s) \in Nat /\ Len(t) \in Nat
  OBVIOUS
<1>2. \A i \in 0..Len(s), j \in 0..Len(t) : <<i, j>> \in S <=> (d[<<i, j>>] = 1 <=> OneEdit(s, t, i, j))
  BY DEF Indices
<1>3. ASSUME NEW i \in 0..Len(s), NEW j \in 0..Len(t),
             \A a \in 0..Len(s), b \in 0..Len(t) : a + b < i + j => <<a, b>> \in S
      PROVE  <<i, j>> \in S
  <2> HIDE DEF S
  <2>1. CASE i = 0 \/ j = 0
    <3>1. d[<<i, j>>] = i + j
      BY <2>1, Border
    <3>2. i + j = 1 <=> OneEdit(s, t, i, j)
      BY <1>1, <2>1, BorderEdits
    <3> QED BY <1>2, <3>1, <3>2, Zenon
  <2>2. CASE ~(i = 0 \/ j = 0)
    <3> DEFINE a == d[<<i - 1, j>>]
               b == d[<<i, j - 1>>]
               c == d[<<i - 1, j - 1>>]
               w == d[<<i - 2, j - 2>>]
               v == d[<<i, j>>]
               cost == Cost(s, t, i, j)
               swaps == Swaps(s, t, i, j)
    <3>1. /\ i \in 1..Len(s) /\ j \in 1..Len(t) /\ i - 1 \in 0..Len(s) /\ j - 1 \in 0..Len(t)
          /\ <<i - 1, j>> \in S /\ <<i, j - 1>> \in S /\ <<i - 1, j - 1>> \in S
          /\ swaps => i - 2 \in 0..Len(s) /\ j - 2 \in 0..Len(t) /\ <<i - 2, j - 2>> \in S
      BY <1>3, <2>2, Neighbours, Zenon
    <3>2. i \in Nat \ {0} /\ j \in Nat \ {0}
      BY <1>1, <3>1
    <3>3. (c = 1 <=> OneEdit(s, t, i - 1, j - 1)) /\ (swaps => (w = 1 <=> OneEdit(s, t, i - 2, j - 2)))
      BY <1>2, <3>1, Zenon
    <3>4. /\ a = 0 <=> Same(s, t, i - 1, j)
          /\ b = 0 <=> Same(s, t, i, j - 1)
          /\ c = 0 <=> Same(s, t, i - 1, j - 1)
          /\ v = 0 <=> Same(s, t, i, j)
          /\ swaps => (w = 0 <=> Same(s, t, i - 2, j - 2))
      BY <3>1, NoStep, Zenon
    <3>5. /\ v \in Nat /\ a \in Nat /\ b \in Nat /\ c \in Nat /\ (swaps => w \in Nat)
          /\ v <= a + 1 /\ v <= b + 1 /\ v <= c + cost /\ (swaps => v <= w + cost)
          /\ v = a + 1 \/ v = b + 1 \/ v = c + cost \/ (swaps /\ v = w + cost)
      BY <3>1, Cell, ZenonT(60)
    <3>6. (cost = 0 <=> s[i] = t[j]) /\ cost \in {0, 1}
      BY DEF Cost
    <3>7. swaps => i > 1 /\ j > 1
      BY DEF Swaps
    <3> HIDE DEF a, b, c, w, v, cost, swaps
    <3>8. ASSUME v = 1 PROVE OneEdit(s, t, i, j)
      <4>1. \/ a = 0 \/ b = 0
            \/ cost = 1 /\ c = 0
            \/ cost = 0 /\ c = 1
            \/ swaps /\ cost = 1 /\ w = 0
            \/ swaps /\ cost = 0 /\ w = 1
        BY <3>5, <3>6, <3>8
      <4>2. CASE a = 0 \/ b = 0 \/ (cost = 1 /\ c = 0) \/ (swaps /\ cost = 1 /\ w = 0)
        <5>1. \/ Same(s, t, i - 1, j) \/ Same(s, t, i, j - 1)
              \/ Same(s, t, i - 1, j - 1) /\ s[i] # t[j]
              \/ swaps /\ i > 1 /\ j > 1 /\ Same(s, t, i - 2, j - 2) /\ s[i] # t[j]
          BY <3>4, <3>6, <3>7, <4>2
        <5> QED BY <3>2, <5>1, SameAfter, Zenon DEF OneEdit, swaps
      <4>3. CASE cost = 0 /\ c = 1
        BY <3>2, <3>3, <3>6, <4>3, OneMore, Zenon
      <4>4. CASE swaps /\ cost = 0 /\ w = 1
        <5>1. OneEdit(s, t, i - 2, j - 2) /\ s[i] = t[j] /\ s[i] = t[j - 1] /\ s[i - 1] = t[j] /\ i > 1 /\ j > 1
          BY <3>3, <3>6, <3>7, <4>4 DEF swaps, Swaps
        <5>a. s[i - 1] = t[j - 1]
          BY <5>1, Zenon
        <5>2. s[i - 1] = t[j - 1] /\ i - 1 \in Nat \ {0} /\ j - 1 \in Nat \ {0} /\ (i - 1) - 1 = i - 2 /\ (j - 1) - 1 = j - 2
          <6>1. i - 1 \in Nat \ {0} /\ j - 1 \in Nat \ {0} /\ (i - 1) - 1 = i - 2 /\ (j - 1) - 1 = j - 2
            BY <3>2, <5>1
          <6> QED BY <5>a, <6>1, Zenon
        <5>3. OneEdit(s, t, i - 1, j - 1)
          BY <5>1, <5>2, OneMore
        <5> QED BY <3>2, <5>1, <5>3, OneMore, Zenon
      <4> QED BY <4>1, <4>2, <4>3, <4>4
    <3>9. ASSUME OneEdit(s, t, i, j) PROVE v = 1
      <4>1. v # 0
        BY <3>2, <3>4, <3>9, EditedIsOther
      <4>2. \/ s[i] = t[j] /\ OneEdit(s, t, i - 1, j - 1)
            \/ Same(s, t, i - 1, j - 1)
            \/ i > 1 /\ j > 1 /\ Swaps(s, t, i, j) /\ Same(s, t, i - 2, j - 2)
            \/ Same(s, t, i, j - 1) \/ Same(s, t, i - 1, j)
        BY <3>2, <3>9, OneLess, Zenon
      <4>3. (cost = 0 /\ c = 1) \/ c = 0 \/ (swaps /\ w = 0) \/ b = 0 \/ a = 0
        BY <3>3, <3>4, <3>6, <4>2 DEF swaps
      <4> QED BY <3>5, <3>6, <4>1, <4>3
    <3>10. v = 1 <=> OneEdit(s, t, i, j)
      BY <3>8, <3>9
    <3> QED BY <1>2, <3>10, Zenon DEF v
  <2> QED BY <2>1, <2>2
<1>4. \A i \in 0..Len(s), j \in 0..Len(t) : <<i, j>> \in S
  <2> HIDE DEF S
  <2> QED BY <1>1, <1>3, MatrixInduction, Zenon
<1> QED BY <1>2, <1>4, Zenon

LEMMA SameWords ==
  ASSUME NEW L, NEW s \in Seq(L), NEW t \in Seq(L)
  PROVE  Same(s, t, Len(s), Len(t)) <=> s = t
<1>1. ASSUME Same(s, t, Len(s), Len(t)) PROVE s = t
  <2>1. Len(s) = Len(t) /\ \A k \in 1..Len(s) : s[k] = t[k]
    BY <1>1, Zenon DEF Same
  <2> QED BY <2>1, SeqEqual
<1>2. ASSUME s = t PROVE Same(s, t, Len(s), Len(t))
  BY <1>2 DEF Same
<1> QED BY <1>1, <1>2

\* What dropping the letter k of t leaves.
LEMMA DropOne ==
  ASSUME NEW L, NEW t \in Seq(L), NEW k \in 1..Len(t)
  PROVE  LET q == SubSeq(t, 1, k - 1) \o SubSeq(t, k + 1, Len(t))
         IN /\ q \in Seq(L) /\ Len(q) = Len(t) - 1
            /\ \A l \in 1..(k - 1) : q[l] = t[l]
            /\ \A l \in k..(Len(t) - 1) : q[l] = t[l + 1]
<1> DEFINE n == Len(t)
           a == SubSeq(t, 1, k - 1)
           b == SubSeq(t, k + 1, n)
           q == a \o b
<1>1. n \in Nat /\ k \in 1..n
  OBVIOUS
<1>2. a \in Seq(L) /\ Len(a) = k - 1 /\ \A l \in 1..(k - 1) : a[l] = t[l]
  BY <1>1
<1>3. b \in Seq(L) /\ Len(b) = n - k /\ \A l \in 1..(n - k) : b[l] = t[l + k]
  BY <1>1
<1> HIDE DEF a, b, n
<1>4. q \in Seq(L) /\ Len(q) = n - 1
  <2>1. q \in Seq(L) /\ Len(q) = Len(a) + Len(b)
    BY <1>2, <1>3, ConcatProperties
  <2>2. (k - 1) + (n - k) = n - 1
    BY <1>1
  <2> QED BY <1>2, <1>3, <2>1, <2>2, Zenon
<1>5. /\ \A l \in 1..(k - 1) : q[l] = a[l]
      /\ \A l \in k..(n - 1) : q[l] = b[l - (k - 1)]
  BY <1>1, <1>2, <1>3
<1> HIDE DEF q
<1>6. \A l \in 1..(k - 1) : q[l] = t[l]
  BY <1>2, <1>5
<1>7. \A l \in k..(n - 1) : q[l] = t[l + 1]
  <2> SUFFICES ASSUME NEW l \in k..(n - 1) PROVE q[l] = t[l + 1]
    OBVIOUS
  <2>1. l - (k - 1) \in 1..(n - k) /\ (l - (k - 1)) + k = l + 1
    BY <1>1
  <2> QED BY <1>3, <1>5, <2>1
<1> QED BY <1>4, <1>6, <1>7, Zenon DEF a, b, n, q

LEMMA DroppedIsShorter ==
  ASSUME NEW L, NEW s \in Seq(L), NEW t \in Seq(L)
  PROVE  s \in Dropped(t) <=> Shorter(s, t, Len(s), Len(t))
<1> DEFINE q(k) == SubSeq(t, 1, k - 1) \o SubSeq(t, k + 1, Len(t))
<1>1. \A k \in 1..Len(t) :
        /\ q(k) \in Seq(L) /\ Len(q(k)) = Len(t) - 1
        /\ \A l \in 1..(k - 1) : q(k)[l] = t[l]
        /\ \A l \in k..(Len(t) - 1) : q(k)[l] = t[l + 1]
  BY DropOne, Zenon
<1>2. s \in Dropped(t) <=> \E k \in 1..Len(t) : s = q(k)
  <2>1. DOMAIN t = 1..Len(t)
    OBVIOUS
  <2> QED BY <2>1, Zenon DEF Dropped
<1>3. Len(s) \in Nat /\ Len(t) \in Nat
  OBVIOUS
<1> HIDE DEF q
<1>4. ASSUME NEW k \in 1..Len(t), s = q(k) PROVE Shorter(s, t, Len(s), Len(t))
  <2>1. Len(t) = Len(s) + 1 /\ Len(t) - 1 = Len(s)
    BY <1>1, <1>3, <1>4
  <2>2. (\A l \in 1..(k - 1) : s[l] = t[l]) /\ \A l \in k..Len(s) : s[l] = t[l + 1]
    BY <1>1, <1>4, <2>1, Zenon
  <2> QED BY <2>1, <2>2, Zenon DEF Shorter
<1>5. ASSUME Shorter(s, t, Len(s), Len(t)) PROVE \E k \in 1..Len(t) : s = q(k)
  <2>1. Len(t) = Len(s) + 1
    BY <1>5, Zenon DEF Shorter
  <2>2. PICK k \in 1..Len(t) : (\A l \in 1..(k - 1) : s[l] = t[l]) /\ \A l \in k..Len(s) : s[l] = t[l + 1]
    BY <1>5, Zenon DEF Shorter
  <2>3. Len(q(k)) = Len(s) /\ Len(t) - 1 = Len(s)
    BY <1>1, <1>3, <2>1
  <2>4. \A l \in 1..Len(s) : l \in 1..(k - 1) \/ l \in k..Len(s)
    BY <1>3
  <2>5. \A l \in 1..Len(s) : s[l] = q(k)[l]
    BY <1>1, <2>2, <2>3, <2>4, Zenon
  <2>6. q(k) \in Seq(L)
    BY <1>1, Zenon
  <2>7. s = q(k)
    BY <2>3, <2>5, <2>6, SeqEqual
  <2> QED BY <2>7
<1> QED BY <1>2, <1>4, <1>5, Zenon

LEMMA EditedIsOneEdit ==
  ASSUME NEW L, NEW s \in Seq(L), NEW t \in Seq(L)
  PROVE  Edited(s, t) <=> OneEdit(s, t, Len(s), Len(t))
<1> DEFINE n == Len(s)
           m == Len(t)
<1>1. n \in Nat /\ m \in Nat /\ DOMAIN s = 1..n /\ DOMAIN t = 1..m
  OBVIOUS
<1>2. (s \in Dropped(t) <=> Shorter(s, t, n, m)) /\ (t \in Dropped(s) <=> Shorter(t, s, m, n))
  BY DroppedIsShorter, Zenon
<1>3. (n = m /\ \E i \in DOMAIN s : s[i] # t[i] /\ \A j \in DOMAIN s \ {i} : s[j] = t[j]) <=> Other(s, t, n, m)
  <2>1. \A i, j : j \in DOMAIN s \ {i} <=> j \in 1..n /\ j # i
    BY <1>1
  <2> HIDE DEF n, m
  <2>2. ASSUME n = m, NEW i \in DOMAIN s, s[i] # t[i], \A j \in DOMAIN s \ {i} : s[j] = t[j]
        PROVE  Other(s, t, n, m)
    BY <1>1, <2>1, <2>2, Zenon DEF Other
  <2>3. ASSUME Other(s, t, n, m)
        PROVE  n = m /\ \E i \in DOMAIN s : s[i] # t[i] /\ \A j \in DOMAIN s \ {i} : s[j] = t[j]
    <3>1. n = m
      BY <2>3, Zenon DEF Other
    <3>2. PICK k \in 1..n : s[k] # t[k] /\ \A l \in 1..n : l # k => s[l] = t[l]
      BY <2>3, Zenon DEF Other
    <3> QED BY <1>1, <2>1, <3>1, <3>2, Zenon
  <2> QED BY <2>2, <2>3, Zenon
<1>4. (n = m /\ \E i \in 1..(n - 1) : /\ s[i] = t[i + 1] /\ s[i + 1] = t[i] /\ s # t
                                      /\ \A j \in DOMAIN s \ {i, i + 1} : s[j] = t[j])
      <=> Swapped(s, t, n, m)
  <2>1. ASSUME n = m, NEW i \in 1..(n - 1), s[i] = t[i + 1], s[i + 1] = t[i], \A j \in DOMAIN s \ {i, i + 1} : s[j] = t[j]
        PROVE  s # t <=> s[i] # t[i]
    <3>1. ASSUME s[i] = t[i] PROVE s = t
      <4>1. \A j \in 1..n : s[j] = t[j]
        BY <1>1, <2>1, <3>1, Zenon
      <4> QED BY <2>1, <4>1, SeqEqual
    <3> QED BY <3>1, Zenon
  <2>2. \A i, j : j \in DOMAIN s \ {i, i + 1} <=> j \in 1..n /\ j # i /\ j # i + 1
    BY <1>1
  <2> HIDE DEF n, m
  <2>3. ASSUME n = m, NEW i \in 1..(n - 1), s[i] = t[i + 1], s[i + 1] = t[i], s # t, \A j \in DOMAIN s \ {i, i + 1} : s[j] = t[j]
        PROVE  Swapped(s, t, n, m)
    BY <2>1, <2>2, <2>3, Zenon DEF Swapped
  <2>4. ASSUME Swapped(s, t, n, m)
        PROVE  n = m /\ \E i \in 1..(n - 1) : /\ s[i] = t[i + 1] /\ s[i + 1] = t[i] /\ s # t
                                              /\ \A j \in DOMAIN s \ {i, i + 1} : s[j] = t[j]
    <3>1. n = m
      BY <2>4, Zenon DEF Swapped
    <3>2. PICK k \in 1..(n - 1) : /\ s[k] = t[k + 1] /\ s[k + 1] = t[k] /\ s[k] # t[k]
                                  /\ \A l \in 1..n : l # k /\ l # k + 1 => s[l] = t[l]
      BY <2>4, Zenon DEF Swapped
    <3> QED BY <2>1, <2>2, <3>1, <3>2, Zenon
  <2> QED BY <2>3, <2>4, Zenon
<1> QED BY <1>2, <1>3, <1>4, Zenon DEF Edited, OneEdit

LEMMA MaxOfTwo ==
  ASSUME NEW n \in Nat, NEW m \in Nat
  PROVE  n <= Max({n, m}) /\ m <= Max({n, m}) /\ Max({n, m}) \in {n, m} /\ Max({n, m}) \in Nat
<1>1. \E x \in {n, m} : \A y \in {n, m} : x >= y
  OBVIOUS
<1>2. Max({n, m}) \in {n, m} /\ \A y \in {n, m} : Max({n, m}) >= y
  BY <1>1, Zenon DEF Max
<1> QED BY <1>2

\* The steps between two words are the edits it takes.
LEMMA StepsCountEdits ==
  ASSUME NEW L, NEW s \in Seq(L), NEW t \in Seq(L)
  PROVE  Distance(s, t) \in Nat /\ CountsEdits(s, t)
<1> DEFINE n == Len(s)
           m == Len(t)
<1>1. PICK d : IsMatrix(d, s, t) /\ Distance(s, t) = d[<<n, m>>]
  BY DistanceIsInMatrix, Zenon
<1>2. PICK e : IsMatrix(e, t, s) /\ Distance(t, s) = e[<<m, n>>]
  BY DistanceIsInMatrix, Zenon
<1>3. n \in Nat /\ m \in Nat /\ n \in 0..n /\ m \in 0..m
  OBVIOUS
<1> DEFINE v == Distance(s, t)
<1>4. v = Distance(t, s)
  <2>1. \A i \in 0..Len(s), j \in 0..Len(t) : d[<<i, j>>] = e[<<j, i>>]
    <3>1. IsMatrix(d, s, t) /\ IsMatrix(e, t, s)
      BY <1>1, <1>2, Zenon
    <3>2. Mirror(d, e, s, t)
      BY <3>1, StepsBack, Zenon
    <3> QED BY <3>2, Zenon DEF Mirror
  <2> QED BY <1>1, <1>2, <1>3, <2>1, Zenon
<1>5. v = 0 <=> s = t
  <2>1. \A i \in 0..Len(s), j \in 0..Len(t) : d[<<i, j>>] = 0 <=> Same(s, t, i, j)
    BY <1>1, NoStep
  <2>2. v = 0 <=> Same(s, t, n, m)
    BY <1>1, <1>3, <2>1, Zenon
  <2>3. Same(s, t, n, m) <=> s = t
    BY SameWords, Zenon
  <2> QED BY <2>2, <2>3, Zenon
<1>6. v = 1 <=> Edited(s, t)
  <2>1. \A i \in 0..Len(s), j \in 0..Len(t) : d[<<i, j>>] = 1 <=> OneEdit(s, t, i, j)
    BY <1>1, OneStep
  <2> QED BY <1>1, <1>3, <2>1, EditedIsOneEdit, Zenon
<1>7. v \in Nat /\ n - m <= v /\ (v <= n \/ v <= m)
  <2>1. \A i \in 0..Len(s), j \in 0..Len(t) :
          d[<<i, j>>] \in Nat /\ i - j <= d[<<i, j>>] /\ j - i <= d[<<i, j>>] /\ (d[<<i, j>>] <= i \/ d[<<i, j>>] <= j)
    BY <1>1, StepsInBounds
  <2> QED BY <1>1, <1>3, <2>1, Zenon
<1>8. n <= Max({n, m}) /\ m <= Max({n, m}) /\ Max({n, m}) \in Nat
  BY <1>3, MaxOfTwo, Zenon
<1> HIDE DEF n, m, v
<1>9. v <= Max({n, m}) /\ v >= n - m
  BY <1>3, <1>7, <1>8
<1> QED BY <1>4, <1>5, <1>6, <1>7, <1>9, Zenon DEF CountsEdits, n, m, v

(* ------------------------------ fuzzySearch ------------------------------ *)

Score == Nat \X (Nat \ {0})

LEMMA Product == ASSUME NEW x \in Nat, NEW y \in Nat PROVE x * y \in Nat /\ x * y = y * x
OBVIOUS

LEMMA ProductKeepsOrder ==
  ASSUME NEW x \in Nat, NEW y \in Nat, NEW z \in Nat, x >= y
  PROVE  x * z >= y * z
OBVIOUS

LEMMA ProductKeepsLess ==
  ASSUME NEW x \in Nat, NEW y \in Nat, NEW z \in Nat \ {0}, x < y
  PROVE  x * z < y * z
OBVIOUS

LEMMA FractionsInOrder ==
  ASSUME NEW a \in Nat, NEW b \in Nat \ {0}, NEW c \in Nat, NEW d \in Nat \ {0}, NEW e \in Nat, NEW f \in Nat \ {0},
         ~(a * d < c * b), ~(c * f < e * d)
  PROVE  ~(a * f < e * b)
<1> SUFFICES ASSUME a * f < e * b PROVE FALSE
  OBVIOUS
<1>1. /\ a * d \in Nat /\ c * b \in Nat /\ c * f \in Nat /\ e * d \in Nat /\ a * f \in Nat /\ e * b \in Nat
      /\ b \in Nat /\ d \in Nat /\ f \in Nat
  BY Product
<1>2. (a * d) * f >= (c * b) * f
  BY <1>1, ProductKeepsOrder
<1>3. (c * f) * b >= (e * d) * b
  BY <1>1, ProductKeepsOrder
<1>4. (a * f) * d < (e * b) * d
  BY <1>1, ProductKeepsLess
<1>5. (a * f) * d = (a * d) * f /\ (e * b) * d = (e * d) * b /\ (c * f) * b = (c * b) * f
  OBVIOUS
<1>6. /\ (a * d) * f \in Nat /\ (c * b) * f \in Nat /\ (c * f) * b \in Nat /\ (e * d) * b \in Nat
  BY <1>1, Product
<1> QED BY <1>2, <1>3, <1>4, <1>5, <1>6

LEMMA ScoresInOrder ==
  ASSUME NEW p \in Score, NEW q \in Score, NEW r \in Score, ~Less(p, q), ~Less(q, r)
  PROVE  ~Less(p, r)
<1>1. PICK a \in Nat, b \in Nat \ {0} : p = <<a, b>>
  BY DEF Score
<1>2. PICK c \in Nat, d \in Nat \ {0} : q = <<c, d>>
  BY DEF Score
<1>3. PICK e \in Nat, f \in Nat \ {0} : r = <<e, f>>
  BY DEF Score
<1>4. ~(a * d < c * b) /\ ~(c * f < e * d)
  BY <1>1, <1>2, <1>3 DEF Less
<1>5. ~(a * f < e * b)
  BY <1>4, FractionsInOrder
<1> QED BY <1>1, <1>3, <1>5 DEF Less

LEMMA ScoresCompare ==
  ASSUME NEW p \in Score, NEW q \in Score
  PROVE  ~Less(p, p) /\ (~Less(p, q) \/ ~Less(q, p)) /\ Less(p, q) \in BOOLEAN
<1>1. p[1] * q[2] \in Nat /\ q[1] * p[2] \in Nat /\ p[1] * p[2] \in Nat
  BY Product DEF Score
<1> DEFINE x == p[1] * q[2]
           y == q[1] * p[2]
           z == p[1] * p[2]
<1>2. (Less(p, q) <=> x < y) /\ (Less(q, p) <=> y < x) /\ (Less(p, p) <=> z < z) /\ Less(p, q) \in BOOLEAN
  BY DEF Less
<1>3. x \in Nat /\ y \in Nat /\ z \in Nat
  BY <1>1
<1> HIDE DEF x, y, z
<1> QED BY <1>2, <1>3

HasBest(S) == \E p \in S : \A q \in S : ~Less(p, q)

LEMMA OneMoreScore ==
  ASSUME NEW S \in SUBSET Score, HasBest(S), NEW x \in Score
  PROVE  HasBest(S \cup {x})
<1>1. PICK p \in S : \A q \in S : ~Less(p, q)
  BY DEF HasBest
<1>2. p \in Score /\ ~Less(x, x)
  BY ScoresCompare
<1>3. CASE ~Less(p, x)
  BY <1>1, <1>3 DEF HasBest
<1>4. CASE Less(p, x)
  <2>1. ~Less(x, p)
    BY <1>2, <1>4, ScoresCompare
  <2>2. \A q \in S : ~Less(x, q)
    BY <1>1, <1>2, <2>1, ScoresInOrder
  <2> QED BY <1>2, <2>2 DEF HasBest
<1> QED BY <1>3, <1>4

\* The scores of the first n words of a cell.
ScoresOf(x, B, f, g, n) == {x} \cup {f[i] : i \in B \cap (1..n)} \cup {g[i] : i \in 1..n}
AreScores(B, f, g, n) == \A i \in 1..n : g[i] \in Score /\ (i \in B => f[i] \in Score)

LEMMA ScoresHaveBest ==
  ASSUME NEW n \in Nat, NEW B, NEW f, NEW g, NEW x \in Score, AreScores(B, f, g, n)
  PROVE  HasBest(ScoresOf(x, B, f, g, n))
<1>0. \A i \in 1..n : g[i] \in Score /\ (i \in B => f[i] \in Score)
  BY Zenon DEF AreScores
<1> DEFINE A(k) == {x} \cup {f[i] : i \in B \cap (1..k)} \cup {g[i] : i \in 1..k}
           S == {k \in Nat : k <= n => A(k) \in SUBSET Score /\ HasBest(A(k))}
<1>1. 0 \in S
  <2>1. A(0) = {x}
    OBVIOUS
  <2>2. HasBest({x})
    BY ScoresCompare DEF HasBest
  <2> QED BY <2>1, <2>2
<1>2. ASSUME NEW k \in Nat, k \in S PROVE k + 1 \in S
  <2> SUFFICES ASSUME k + 1 <= n PROVE A(k + 1) \in SUBSET Score /\ HasBest(A(k + 1))
    OBVIOUS
  <2>1. A(k) \in SUBSET Score /\ HasBest(A(k))
    BY <1>2
  <2>2. 1..(k + 1) = (1..k) \cup {k + 1} /\ k + 1 \in 1..n
    OBVIOUS
  <2>3. A(k + 1) = IF k + 1 \in B THEN (A(k) \cup {f[k + 1]}) \cup {g[k + 1]} ELSE A(k) \cup {g[k + 1]}
    BY <2>2
  <2> HIDE DEF A
  <2>4. CASE k + 1 \in B
    <3>1. A(k) \cup {f[k + 1]} \in SUBSET Score /\ HasBest(A(k) \cup {f[k + 1]})
      BY <1>0, <2>1, <2>2, <2>4, OneMoreScore
    <3> QED BY <1>0, <2>2, <2>3, <2>4, <3>1, OneMoreScore
  <2>5. CASE k + 1 \notin B
    BY <1>0, <2>1, <2>2, <2>3, <2>5, OneMoreScore
  <2> QED BY <2>4, <2>5
<1>3. n \in S
  <2> HIDE DEF S
  <2> QED BY <1>1, <1>2, Induction
<1>4. HasBest(A(n))
  BY <1>3
<1> QED BY <1>4, Zenon DEF ScoresOf

AtMostOne(p) == p \in Score /\ p[1] <= p[2]

LEMMA SimilarityIsScore ==
  ASSUME NEW s \in Word, NEW t \in Word
  PROVE  AtMostOne(Similarity(s, t))
<1> DEFINE n == Max({Len(s), Len(t)})
           v == Distance(s, t)
<1>1. s \in Seq(STRING) /\ t \in Seq(STRING) /\ s # <<>>
  BY DEF Word
<1>2. v \in Nat /\ v <= n
  BY <1>1, StepsCountEdits DEF CountsEdits
<1>3. n \in Nat /\ n >= Len(s) /\ Len(s) \in Nat /\ Len(s) # 0
  <2>1. Len(s) \in Nat /\ Len(t) \in Nat /\ Len(s) # 0
    BY <1>1
  <2> QED BY <2>1, MaxOfTwo
<1>4. Similarity(s, t) = IF n = 0 THEN <<1, 1>> ELSE <<n - v, n>>
  BY DEF Similarity
<1> HIDE DEF n, v
<1>5. n # 0 /\ n \in Nat \ {0} /\ n - v \in Nat /\ n - v <= n
  BY <1>2, <1>3
<1>6. Similarity(s, t) = <<n - v, n>>
  BY <1>4, <1>5
<1> QED BY <1>5, <1>6 DEF AtMostOne, Score

LEMMA PrefixIsScore ==
  ASSUME NEW s \in Word, NEW t \in Word, IsPrefix(s, t)
  PROVE  AtMostOne(<<Len(s), Len(t)>>)
<1>1. s \in Seq(STRING) /\ t \in Seq(STRING) /\ t # <<>>
  BY DEF Word
<1>2. Len(s) \in Nat /\ Len(t) \in Nat \ {0} /\ Len(s) <= Len(t)
  BY <1>1 DEF IsPrefix
<1> QED BY <1>2 DEF AtMostOne, Score

\* What a cell has for a word: it passes with a word that the given one begins,
\* and has the whole score with the word itself.
Rated(h, word, cell) ==
  /\ h.pass <=> \E j \in DOMAIN cell : IsPrefix(word, cell[j])
  /\ h.pass \in BOOLEAN /\ AtMostOne(h.score)
  /\ (\E j \in DOMAIN cell : cell[j] = word) => h.pass /\ h.score[1] >= h.score[2]

LEMMA HighestIsRated ==
  ASSUME NEW word \in Word, NEW cell \in Seq(Word)
  PROVE  Rated(Highest(word, cell), word, cell)
<1> DEFINE n == Len(cell)
           begins == {i \in DOMAIN cell : IsPrefix(word, cell[i])}
           f == [i \in 1..n |-> <<Len(word), Len(cell[i])>>]
           g == [i \in 1..n |-> Similarity(word, cell[i])]
           all == {<<0, 1>>} \cup {<<Len(word), Len(cell[i])>> : i \in begins} \cup {Similarity(word, cell[i]) : i \in DOMAIN cell}
           best == BestOf(all)
           h == Highest(word, cell)
<1>1. n \in Nat /\ DOMAIN cell = 1..n /\ \A i \in 1..n : cell[i] \in Word
  OBVIOUS
<1>2. h.pass <=> begins # {}
  BY DEF Highest
<1>3. h.score = best /\ h.pass \in BOOLEAN
  BY DEF Highest
<1>4. \A i \in 1..n : AtMostOne(g[i]) /\ (i \in begins => AtMostOne(f[i]))
  <2>1. \A i \in 1..n : g[i] = Similarity(word, cell[i]) /\ f[i] = <<Len(word), Len(cell[i])>>
    OBVIOUS
  <2>2. \A i \in begins : IsPrefix(word, cell[i])
    OBVIOUS
  <2> HIDE DEF f, g, begins
  <2> QED BY <1>1, <2>1, <2>2, SimilarityIsScore, PrefixIsScore
<1>5. AtMostOne(<<0, 1>>)
  BY DEF AtMostOne, Score
<1>6. all = {<<0, 1>>} \cup {f[i] : i \in begins \cap (1..n)} \cup {g[i] : i \in 1..n}
  <2>1. \A i \in 1..n : g[i] = Similarity(word, cell[i]) /\ f[i] = <<Len(word), Len(cell[i])>>
    OBVIOUS
  <2>2. begins \cap (1..n) = begins /\ begins \subseteq 1..n
    BY <1>1
  <2>3. {<<Len(word), Len(cell[i])>> : i \in begins} = {f[i] : i \in begins \cap (1..n)}
    <3> HIDE DEF f, g, begins
    <3> QED BY <2>1, <2>2
  <2>4. {Similarity(word, cell[i]) : i \in DOMAIN cell} = {g[i] : i \in 1..n}
    <3> HIDE DEF f, g, begins
    <3> QED BY <1>1, <2>1
  <2> HIDE DEF f, g, begins
  <2> QED BY <2>3, <2>4
<1>7. \A p \in all : AtMostOne(p)
  <2> HIDE DEF f, g, begins, all
  <2> QED BY <1>4, <1>5, <1>6
<1>8. HasBest(all)
  <2>1. AreScores(begins, f, g, n)
    <3> HIDE DEF f, g, begins
    <3> QED BY <1>4 DEF AtMostOne, AreScores
  <2> DEFINE zero == <<0, 1>>
  <2>2. zero \in Score
    BY DEF Score
  <2> HIDE DEF f, g, begins, all, zero
  <2>3. HasBest(ScoresOf(zero, begins, f, g, n))
    <3>1. n \in Nat
      BY <1>1
    <3> HIDE DEF n
    <3> QED BY <2>1, <2>2, <3>1, ScoresHaveBest, Zenon
  <2> QED BY <1>6, <2>3, Zenon DEF zero, ScoresOf
<1>9. best \in all /\ \A q \in all : ~Less(best, q)
  <2> HIDE DEF all
  <2> QED BY <1>8, Zenon DEF HasBest, BestOf
<1>10. AtMostOne(best)
  BY <1>7, <1>9
<1>11. ASSUME NEW j \in DOMAIN cell, cell[j] = word PROVE j \in begins /\ best[1] >= best[2]
  <2>1. IsPrefix(word, word)
    BY DEF IsPrefix, Word
  <2>2. j \in begins
    BY <1>11, <2>1
  <2> DEFINE m == Len(word)
  <2>3. <<m, m>> \in all
    BY <1>11, <2>2
  <2>4. m \in Nat \ {0}
    BY DEF Word
  <2> HIDE DEF best, begins, all, m
  <2>5. ~(best[1] * m < m * best[2])
    BY <1>9, <2>3 DEF Less
  <2>6. best[1] \in Nat /\ best[2] \in Nat
    BY <1>10 DEF AtMostOne, Score
  <2> DEFINE x == best[1]
             y == best[2]
  <2>7. x \in Nat /\ y \in Nat /\ ~(x * m < m * y)
    BY <2>5, <2>6
  <2> HIDE DEF x, y
  <2>8. m * y = y * m /\ (x < y => x * m < y * m)
    BY <2>4, <2>7, ProductKeepsLess
  <2>9. x >= y
    BY <2>7, <2>8
  <2> QED BY <2>2, <2>9 DEF x, y
<1> HIDE DEF best, h, all
<1>12. h.pass <=> \E j \in DOMAIN cell : IsPrefix(word, cell[j])
  BY <1>2
<1> HIDE DEF begins
<1>13. Rated(h, word, cell)
  BY <1>2, <1>3, <1>10, <1>11, <1>12 DEF Rated
<1> QED BY <1>13 DEF h

State == [pass : BOOLEAN, score : Score]

LEMMA CollateIsState ==
  ASSUME NEW best \in State, NEW h, h.pass \in BOOLEAN, h.score \in Score
  PROVE  Collate(best, h) \in State
<1> DEFINE pass == h.pass \/ Less(threshold, h.score)
           score == h.score
<1>1. pass \in BOOLEAN /\ score \in Score
  OBVIOUS
<1>2. Collate(best, h) = IF Less(best.score, h.score) \/ h.pass THEN [pass |-> pass, score |-> score] ELSE best
  BY Zenon DEF Collate
<1> HIDE DEF pass, score
<1> QED BY <1>1, <1>2 DEF State

\* What a row has for a word is collated cell after cell.
CollatedBy(f, word, row) ==
  /\ Collated(word, row) = f[1..Len(row)]
  /\ \A k \in 1..Len(row) : f[1..k] = Collate(f[1..(k - 1)], Highest(word, row[k]))

LEMMA CollatedInOrder ==
  ASSUME NEW word \in Word, NEW row \in Seq(Seq(Word))
  PROVE  \E f : CollatedBy(f, word, row)
<1> DEFINE n == Len(row)
           highest == [i \in DOMAIN row |-> Highest(word, row[i])]
           base == [pass |-> FALSE, score |-> <<0, 1>>]
           Step(f, X) == IF X = {} THEN base ELSE Collate(f[X \ {Max(X)}], highest[Max(X)])
           Fold == CHOOSE f : f = [X \in SUBSET (1..n) |-> Step(f, X)]
<1>1. n \in Nat /\ DOMAIN row = 1..n
  OBVIOUS
<1>2. base \in State
  BY DEF State, Score
<1>3. \A i \in 1..n : highest[i] = Highest(word, row[i]) /\ highest[i].pass \in BOOLEAN /\ highest[i].score \in Score
  <2>1. \A i \in 1..n : highest[i] = Highest(word, row[i]) /\ row[i] \in Seq(Word)
    BY <1>1
  <2>2. \A i \in 1..n : Rated(Highest(word, row[i]), word, row[i])
    BY <2>1, HighestIsRated
  <2> HIDE DEF highest
  <2> QED BY <2>1, <2>2 DEF Rated, AtMostOne
<1>4. \A b \in State, i \in 1..n : Collate(b, highest[i]) \in State
  <2> HIDE DEF highest
  <2> QED BY <1>3, CollateIsState
<1>5. \E f : f = [X \in SUBSET (1..n) |-> Step(f, X)]
  <2>1. PICK E \in [State \X (1..n) -> State] : \A b \in State, i \in 1..n : E[<<b, i>>] = Collate(b, highest[i])
    <3> DEFINE F == [p \in State \X (1..n) |-> Collate(p[1], highest[p[2]])]
    <3> HIDE DEF highest
    <3>1. F \in [State \X (1..n) -> State] /\ \A b \in State, i \in 1..n : F[<<b, i>>] = Collate(b, highest[i])
      BY <1>4
    <3> HIDE DEF F
    <3> QED BY <3>1
  <2> HIDE DEF highest, base
  <2>2. PICK f : IsFold(f, State, base, E, n)
    BY <1>1, <1>2, <2>1, FoldExists
  <2>3. \A X \in SUBSET (1..n) : X # {} => f[X \ {Max(X)}] \in State /\ Max(X) \in 1..n
    BY <1>1, <2>2, MaxInside DEF IsFold
  <2>4. \A X \in SUBSET (1..n) : f[X] = Step(f, X)
    BY <2>1, <2>2, <2>3 DEF IsFold
  <2>5. f = [X \in SUBSET (1..n) |-> Step(f, X)]
    <3> HIDE DEF Step
    <3> QED BY <2>2, <2>4 DEF IsFold
  <2> QED BY <2>5
<1>6. Fold = [X \in SUBSET (1..n) |-> Step(Fold, X)]
  <2> HIDE DEF Step
  <2> QED BY <1>5
<1>7. \A X \in SUBSET (1..n) : Fold[X] = Step(Fold, X)
  <2> HIDE DEF Step, Fold
  <2> QED BY <1>6
<1>8. Collated(word, row) = Fold[1..n]
  <2>1. DOMAIN highest = 1..n
    BY <1>1
  <2>2. Collated(word, row) = FoldLeft(Collate, base, highest)
    BY Zenon DEF Collated
  <2> HIDE DEF highest, base
  <2> QED BY <2>1, <2>2, Zenon DEF FoldLeft, MapThenFoldSet
<1>9. ASSUME NEW k \in 1..n PROVE Fold[1..k] = Collate(Fold[1..(k - 1)], Highest(word, row[k]))
  <2>1. 1..k \in SUBSET (1..n) /\ 1..k # {} /\ (1..k) \ {k} = 1..(k - 1) /\ k \in Nat
    <3> HIDE DEF n
    <3>1. k \in Nat /\ k >= 1 /\ k <= n
      BY <1>1
    <3>2. 1..k \in SUBSET (1..n) /\ k \in 1..k
      BY <1>1, <3>1
    <3>3. (1..k) \ {k} = 1..(k - 1)
      BY <3>1
    <3> QED BY <3>1, <3>2, <3>3
  <2>2. Max(1..k) = k
    <3>1. Max(1..k) \in 1..k /\ \A m \in 1..k : Max(1..k) >= m
      BY <2>1, MaxIsLargest
    <3>2. k \in 1..k
      BY <2>1
    <3> HIDE DEF Max
    <3> QED BY <3>1, <3>2, <2>1
  <2> HIDE DEF highest, base, Fold
  <2>3. Fold[1..k] = Collate(Fold[(1..k) \ {Max(1..k)}], highest[Max(1..k)])
    BY <1>7, <2>1, Zenon
  <2> QED BY <1>3, <2>1, <2>2, <2>3, Zenon
<1> HIDE DEF Fold
<1> QED BY <1>8, <1>9, Zenon DEF CollatedBy

\* A row that has passed with the whole score keeps its pass until another cell
\* passes.
LEMMA PassIsKept ==
  ASSUME NEW best, best.score \in Score, best.score[1] >= best.score[2], NEW h, ~h.pass, AtMostOne(h.score)
  PROVE  Collate(best, h) = best
<1> DEFINE a == best.score[1]
           b == best.score[2]
           c == h.score[1]
           d == h.score[2]
<1>1. a \in Nat /\ b \in Nat /\ c \in Nat /\ d \in Nat /\ a >= b /\ d >= c
  BY DEF AtMostOne, Score
<1> HIDE DEF a, b, c, d
<1>2. a * d >= b * d /\ d * b >= c * b
  BY <1>1, ProductKeepsOrder
<1>3. b * d = d * b /\ a * d \in Nat /\ b * d \in Nat /\ c * b \in Nat
  BY <1>1, Product
<1>4. ~(a * d < c * b)
  BY <1>2, <1>3
<1>5. ~Less(best.score, h.score)
  BY <1>4, Zenon DEF Less, a, b, c, d
<1> QED BY <1>5, Zenon DEF Collate

\* A word passes when the last cell that has a word it begins has the word.
LEMMA WordPasses ==
  ASSUME NEW word \in Word, NEW row \in Seq(Seq(Word)), EndsWithin(word, row)
  PROVE  Collated(word, row).pass
<1> DEFINE n == Len(row)
           H(k) == Highest(word, row[k])
<1>1. n \in Nat /\ DOMAIN row = 1..n /\ \A k \in 1..n : row[k] \in Seq(Word)
  OBVIOUS
<1>2. PICK i \in 1..n : /\ \E j \in DOMAIN row[i] : row[i][j] = word
                        /\ \A k \in 1..n : k > i => \A j \in DOMAIN row[k] : ~IsPrefix(word, row[k][j])
  BY <1>1, Zenon DEF EndsWithin
<1>3. PICK f : CollatedBy(f, word, row)
  BY CollatedInOrder
<1>4. \A k \in 1..n : f[1..k] = Collate(f[1..(k - 1)], H(k))
  BY <1>3, Zenon DEF CollatedBy
<1>5. \A k \in 1..n : Rated(H(k), word, row[k])
  BY <1>1, HighestIsRated
<1> HIDE DEF H
<1> DEFINE Good(best) == best.pass /\ best.score \in Score /\ best.score[1] >= best.score[2]
           S == {m \in Nat : i + m <= n => Good(f[1..(i + m)])}
<1>6. Good(f[1..i])
  <2>1. H(i).pass /\ H(i).score \in Score /\ H(i).score[1] >= H(i).score[2]
    BY <1>2, <1>5 DEF Rated, AtMostOne
  <2>2. f[1..i] = Collate(f[1..(i - 1)], H(i))
    BY <1>4
  <2> DEFINE pass == H(i).pass \/ Less(threshold, H(i).score)
             score == H(i).score
  <2>3. Collate(f[1..(i - 1)], H(i)) = [pass |-> pass, score |-> score]
    BY <2>1, Zenon DEF Collate
  <2>4. pass /\ score \in Score /\ score[1] >= score[2]
    BY <2>1, Zenon
  <2> HIDE DEF pass, score
  <2>5. [pass |-> pass, score |-> score].pass = pass /\ [pass |-> pass, score |-> score].score = score
    OBVIOUS
  <2> QED BY <2>2, <2>3, <2>4, <2>5, Zenon
<1>7. 0 \in S
  <2>1. i + 0 = i
    BY <1>1
  <2> QED BY <1>6, <2>1, Zenon
<1>8. ASSUME NEW m \in Nat, m \in S PROVE m + 1 \in S
  <2> SUFFICES ASSUME i + (m + 1) <= n PROVE Good(f[1..(i + (m + 1))])
    <3>1. m + 1 \in Nat
      OBVIOUS
    <3> QED BY <3>1, Zenon
  <2> DEFINE k == i + (m + 1)
  <2>1. k \in 1..n /\ k > i /\ k - 1 = i + m /\ i + m <= n
    BY <1>1
  <2>2. Good(f[1..(i + m)])
    BY <1>8, <2>1, Zenon
  <2> HIDE DEF k
  <2>3. f[1..k] = Collate(f[1..(k - 1)], H(k))
    BY <1>4, <2>1
  <2>4. ~H(k).pass /\ AtMostOne(H(k).score)
    BY <1>2, <1>5, <2>1, Zenon DEF Rated
  <2>5. Collate(f[1..(k - 1)], H(k)) = f[1..(k - 1)]
    <3> DEFINE best == f[1..(k - 1)]
    <3>1. best.score \in Score /\ best.score[1] >= best.score[2]
      BY <2>1, <2>2, Zenon
    <3> HIDE DEF best
    <3> QED BY <2>4, <3>1, PassIsKept, Zenon DEF best
  <2>6. f[1..k] = f[1..(i + m)]
    BY <2>1, <2>3, <2>5, Zenon
  <2> HIDE DEF Good
  <2> QED BY <2>2, <2>6, Zenon DEF k
<1>9. n - i \in S
  <2> HIDE DEF S
  <2>1. n - i \in Nat
    BY <1>1
  <2> QED BY <1>7, <1>8, <2>1, Induction
<1>10. Good(f[1..n])
  <2>1. i + (n - i) = n /\ n <= n
    BY <1>1
  <2> QED BY <1>9, <2>1, Zenon
<1> QED BY <1>3, <1>10, Zenon DEF CollatedBy

LEMMA JudgedExactly ==
  ASSUME typed \in Texts
  PROVE  ExactPasses
<1>1. typed \in Seq(Word) /\ \A r \in Rows : Words[r] \in Seq(Seq(Word))
  BY TableAssumptions
<1>2. \A i \in DOMAIN typed : typed[i] \in Word
  BY <1>1
<1>3. ASSUME NEW r \in Rows, \A i \in DOMAIN typed : EndsWithin(typed[i], Words[r]) PROVE VerdictOf[typed][r]
  <2>1. \A i \in DOMAIN typed : Collated(typed[i], Words[r]).pass
    BY <1>1, <1>2, <1>3, WordPasses
  <2>2. VerdictOf[typed][r] = Verdict(typed, Words[r])
    BY Zenon DEF VerdictOf
  <2> QED BY <2>1, <2>2, Zenon DEF Verdict
<1>4. ASSUME NEW i \in DOMAIN typed, NEW r \in Rows, NEW c \in DOMAIN Words[r], NEW w \in DOMAIN Words[r][c]
      PROVE  CountsEdits(typed[i], Words[r][c][w])
  <2>1. Words[r][c] \in Seq(Word)
    BY <1>1
  <2>2. Words[r][c][w] \in Word /\ typed[i] \in Word
    BY <1>2, <2>1
  <2>3. Words[r][c][w] \in Seq(STRING) /\ typed[i] \in Seq(STRING)
    BY <2>2 DEF Word
  <2> QED BY <2>3, StepsCountEdits
<1> QED BY <1>3, <1>4, Zenon DEF ExactPasses

(* The steps between a word that is searched for and a word of a cell are the *)
(* edits it takes, and a row passes when the last cell with a word that the   *)
(* searched one begins has that word itself: for any words and any threshold. *)
THEOREM ExactPassesHolds == Spec => []ExactPasses
<1>1. TypeOK => ExactPasses
  BY JudgedExactly DEF TypeOK
<1> QED BY <1>1, TypeCorrect, PTL
=============================================================================
