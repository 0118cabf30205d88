---------------------------- MODULE SearchBuilder ----------------------------
(* The SearchBuilder control of the tables of a report: a tree of criteria   *)
(* and groups which the user builds click by click, the rows the table       *)
(* shows, and the state kept in the browser from one visit to the next.      *)
(* One action stands for one event handler with everything it calls; a       *)
(* handler runs to its end before the next one starts.  The widgets of one   *)
(* criterion, and the text the user types, are in Criterion.                 *)
EXTENDS Integers, Sequences, FiniteSets, FiniteSetsExt

CONSTANTS
  Crit,            \* the criteria a session can hold at the same time
  Sub,             \* the groups below the top group
  Column, Value,   \* what a criterion is about and what it compares with
  Condition,       \* the conditions of the column's type
  NoValue,         \* those without a value (initNoValue): "null", "!null"
  Unchecked,       \* those whose selection is never checked: "!=" of strings
  Row,             \* the rows of the table
  Passes(_, _, _, _),   \* does a row pass (column, condition, value)?
  DefaultLogic,    \* the option "logic"
  DepthLimit,      \* the option "depthLimit", 0 for none
  ApiDetails,      \* what a script passes to searchBuilder.rebuild()
  PreDefined,      \* the option "preDefined", None when it is false
  None             \* JavaScript's undefined

Top == "top"
Group == {Top} \cup Sub
Node == Crit \cup Sub

\* What a script passes to rebuild(), or a page has as "preDefined".
Lists == [logic : {"AND", "OR", None},
          criteria : Seq([data : Column \cup {None}, cond : Condition \cup {None}, value : Value \cup {None}])]

ASSUME Assumptions ==
  /\ IsFiniteSet(Node) /\ (ApiDetails \cup {PreDefined}) \ {None} \subseteq Lists
  /\ Top \notin Node /\ Crit \cap Sub = {}
  /\ None \notin Column \cup Value \cup Condition \cup Node
  /\ NoValue \cup Unchecked \subseteq Condition /\ NoValue \cap Unchecked = {}
  /\ DefaultLogic \in {"AND", "OR"}
  /\ DepthLimit \in Nat

VARIABLES
  sb,      \* the tree: kids, index, depth, logic of the groups, criteria
  page     \* rows shown, state saved, title's count, Clear All, its listener;
           \* deafButtons, deafValues: the criteria whose delete and arrow
           \* buttons, or whose value selectors, have lost their listeners;
           \* cleared (a history): a group was cleared since the last draw
vars == <<sb, page>>

(* ------------------------------ the tree --------------------------------- *)

EmptyCrit == [data |-> None, cond |-> None, value |-> None, filled |-> FALSE, right |-> FALSE]

EmptyTree ==
  [kids  |-> [g \in Group |-> <<>>],
   index |-> [n \in Node |-> 0],
   depth |-> [n \in Node |-> 1],
   logic |-> [g \in Group |-> DefaultLogic],
   crit  |-> [c \in Crit |-> EmptyCrit]]

Kids(t, g) == {t.kids[g][i].node : i \in DOMAIN t.kids[g]}
Live(t) == UNION {Kids(t, g) : g \in Group}
LiveCrit(t) == Live(t) \cap Crit
LiveGroups(t) == {Top} \cup (Live(t) \cap Sub)
Parent(t, n) == IF n \in Live(t) THEN CHOOSE g \in Group : n \in Kids(t, g) ELSE Top
DepthOf(t, g) == IF g = Top THEN 1 ELSE t.depth[g]

\* Group.count: the criteria of the group and of its sub groups.
Count(t) == Cardinality(LiveCrit(t))

\* The nodes that can be reached from the top group.
Reached(t) ==
  LET below[g \in Group] ==
        UNION {{n} \cup (IF n \in Sub THEN below[n] ELSE {}) : n \in Kids(t, g)}
  IN below[Top]

\* Objects that left the tree are garbage: their names can be used again.
Tidy(t) ==
  LET live == Reached(t) \cup {Top} IN
  [kids  |-> [g \in Group |-> IF g \in live THEN t.kids[g] ELSE <<>>],
   index |-> [n \in Node |-> IF n \in live THEN t.index[n] ELSE 0],
   depth |-> [n \in Node |-> IF n \in live THEN t.depth[n] ELSE 1],
   logic |-> [g \in Group |-> IF g \in live THEN t.logic[g] ELSE DefaultLogic],
   crit  |-> [c \in Crit |-> IF c \in live THEN t.crit[c] ELSE EmptyCrit]]

(* ------------------------------ the search ------------------------------- *)

\* Criteria.search: no condition, no match.
CritSearch(c, row) == c.cond # None /\ Passes(c.data, c.cond, c.value, row)

(* Variant: a sub group counts only if it holds a complete criterion itself. *)
FilledHere(t) ==
  LET filled(n) == n \in Crit /\ t.crit[n].filled
  IN {n \in Live(t) : filled(n) \/ (n \in Sub /\ \E k \in Kids(t, n) : filled(k))}

\* Group.checkFilled: the nodes with a complete criterion.
Filled(t) ==
  LET filled[n \in Node \cup Group] ==
        IF n \in Crit THEN t.crit[n].filled ELSE \E k \in Kids(t, n) : filled[k]
  IN {n \in Live(t) : filled[n]}

\* Group.search: any other logic lets every row pass.
Combine(logic, parts) ==
  CASE logic = "AND" -> {row \in Row : \A part \in parts : row \in part}
    [] logic = "OR" /\ parts # {} -> UNION parts
    [] OTHER -> Row

\* _andSearch and _orSearch: both skip incomplete criteria, the second also
\* groups without a complete one.
Visible(t) ==
  LET full == Filled(t)
      rows[n \in Node \cup Group] ==
        IF n \in Crit THEN {row \in Row : CritSearch(t.crit[n], row)}
        ELSE LET counted == IF t.logic[n] = "OR" THEN Kids(t, n) \cap full
                            ELSE Kids(t, n) \ (Crit \ full)
             IN Combine(t.logic[n], {rows[k] : k \in counted})
  IN rows[Top]

(* -------------------------- arrows and order ----------------------------- *)

\* Criteria.updateArrows for the criteria of some groups: the right arrow is
\* there when there are siblings and the depth allows another group.
UpdateArrows(t, gs) ==
  LET homes(c) == {g \in gs : c \in Kids(t, g)}
      right(c) == /\ \E g \in homes(c) : Len(t.kids[g]) > 1
                  /\ DepthLimit = 0 \/ t.depth[c] < DepthLimit
  IN [t EXCEPT !.crit = [c \in Crit |-> IF homes(c) = {} THEN @[c]
                                        ELSE [@[c] EXCEPT !.right = right(c)]]]

\* Array.sort by the index of the criteria, which keeps the order of equals,
\* for the entries that are kept.
SortByIndex(t, s, kept) ==
  LET before(i, j) == \/ t.index[s[i].node] < t.index[s[j].node]
                      \/ t.index[s[i].node] = t.index[s[j].node] /\ i < j
      rank(i) == Cardinality({j \in kept : before(j, i)}) + 1
  IN [p \in 1..Cardinality(kept) |-> s[CHOOSE i \in kept : rank(i) = p]]

\* Every entry of a group and its node get their position as their index.
Renumber(t, g, s) ==
  [t EXCEPT !.kids[g] = [i \in DOMAIN s |-> [s[i] EXCEPT !.index = i - 1]],
            !.index = [n \in Node |-> IF \E i \in DOMAIN s : s[i].node = n
                                      THEN (CHOOSE i \in DOMAIN s : s[i].node = n) - 1
                                      ELSE @[n]]]

\* Group._removeCriteria without the destruction of the group: the last entry
\* with the index of the node goes (for a group, the last that is a group).
Splice(t, g, n) ==
  LET s == t.kids[g]
      hits == {i \in DOMAIN s : s[i].index = t.index[n] /\ (n \in Sub => s[i].node \in Sub)}
      rest == IF hits = {} THEN s
              ELSE LET last == Max(hits)
                   IN [i \in 1..(Len(s) - 1) |-> IF i < last THEN s[i] ELSE s[i + 1]]
  IN Renumber(t, g, rest)

\* Group.destroy of a sub group: its parent hears dtsb-destroy and removes it,
\* and is destroyed in turn when nothing else is left in it.
Destroy(t, g) ==
  LET climb[h \in Sub] == LET p == Parent(t, h)
                          IN IF p # Top /\ Len(t.kids[p]) <= 1 THEN climb[p] ELSE h
  IN [Splice(t, Parent(t, climb[g]), climb[g]) EXCEPT !.kids[g] = <<>>]

RemoveCriteria(t, g, c) ==
  IF g # Top /\ Len(t.kids[g]) <= 1 THEN Destroy(t, g) ELSE Splice(t, g, c)

(* Variant: only the new criterion gets its arrows. *)
AddAlone(t, g, c, entryIndex) ==
  LET in == [t EXCEPT !.kids[g] = Append(@, [node |-> c, index |-> entryIndex]),
                      !.depth[c] = DepthOf(t, g)]
      out == UpdateArrows([in EXCEPT !.kids[g] = SortByIndex(in, @, DOMAIN @)], {g})
  IN [out EXCEPT !.crit = [t.crit EXCEPT ![c] = out.crit[c]]]

\* Group.addCriteria: the new entry is sorted in by index, and the arrows of
\* the whole group are set again.
AddCriteria(t, g, c, entryIndex) ==
  LET in == [t EXCEPT !.kids[g] = Append(@, [node |-> c, index |-> entryIndex]),
                      !.depth[c] = DepthOf(t, g)]
  IN UpdateArrows([in EXCEPT !.kids[g] = SortByIndex(in, @, DOMAIN @)], {g})

(* ---------------------- rebuilding what is on the page ------------------- *)

\* isInputValid of the condition, for the value shown by the selector.
Valid(cond, value) == cond \in NoValue \cup Unchecked \/ value # None

\* Criteria.rebuild: the selectors are built again from the criterion's own
\* details, and the criterion is complete if they are.
Rebuild(c) == IF c.cond = None THEN c ELSE [c EXCEPT !.filled = Valid(c.cond, c.value)]

(* Variant: the new object does not take over the state of the old one. *)
PopulateFresh(c) == EmptyCrit

\* Criteria.populate of an object that takes over another one's state: the
\* value selector is a new, empty one until the criterion is rebuilt.
Populate(c) == IF c.cond = None THEN c ELSE [c EXCEPT !.filled = Valid(c.cond, None)]

\* Group.redrawContents, from the top group down: sort, drop the empty groups,
Pruned(t) ==
  LET keep(e) == e.node \in Crit \/ t.kids[e.node] # <<>>
  IN [t EXCEPT !.kids = [g \in Group |-> SortByIndex(t, @[g], {i \in DOMAIN @[g] : keep(@[g][i])})]]

(* Variant: no new numbers. *)
RebuiltInPlace(t) == Tidy([t EXCEPT !.crit = [c \in Crit |-> Rebuild(@[c])]])

\* number again, and rebuild every criterion.
Rebuilt(t) ==
  LET place(n) == LET s == t.kids[Parent(t, n)] IN CHOOSE i \in DOMAIN s : s[i].node = n
  IN Tidy([t EXCEPT
       !.kids = [g \in Group |-> [i \in DOMAIN @[g] |-> [@[g][i] EXCEPT !.index = i - 1]]],
       !.index = [n \in Node |-> IF n \in Live(t) THEN place(n) - 1 ELSE 0],
       !.crit = [c \in Crit |-> Rebuild(@[c])]])

(* -------------------- the state kept in the browser ---------------------- *)

\* getDetails: order, logic, column, condition and value.  An empty top group
\* is saved as {}: its logic is forgotten.
Details(t) ==
  [kids  |-> [g \in Group |-> [i \in DOMAIN t.kids[g] |-> t.kids[g][i].node]],
   logic |-> [g \in Group |-> IF t.kids[g] = <<>> THEN DefaultLogic ELSE t.logic[g]],
   crit  |-> [c \in Crit |-> [data |-> t.crit[c].data, cond |-> t.crit[c].cond,
                              value |-> t.crit[c].value]]]

\* Group.rebuild of a whole tree from saved details (_addPrevGroup,
\* _addPrevCriteria), arrows included.
Restore(d) ==
  LET level[g \in Group] ==
        IF g = Top THEN 1
        ELSE LET up == {h \in Group : \E i \in DOMAIN d.kids[h] : d.kids[h][i] = g}
             IN IF up = {} THEN 1 ELSE level[CHOOSE h \in up : TRUE] + 1
      home(c) == {h \in Group : \E i \in DOMAIN d.kids[h] : d.kids[h][i] = c}
      place(n) == LET h == CHOOSE h \in home(n) : TRUE
                  IN CHOOSE i \in DOMAIN d.kids[h] : d.kids[h][i] = n
      t == [kids  |-> [g \in Group |-> [i \in DOMAIN d.kids[g] |->
                                          [node |-> d.kids[g][i], index |-> i - 1]]],
            index |-> [n \in Node |-> IF home(n) = {} THEN 0 ELSE place(n) - 1],
            depth |-> [n \in Node |->
                         IF n \in Sub THEN level[n]
                         ELSE IF home(n) = {} THEN 1 ELSE level[CHOOSE h \in home(n) : TRUE]],
            logic |-> d.logic,
            crit  |-> [c \in Crit |-> Rebuild([EmptyCrit EXCEPT
                         !.data = d.crit[c].data, !.cond = d.crit[c].cond,
                         !.value = d.crit[c].value])]]
  IN UpdateArrows(t, Group)

(* ------------------------------ the page --------------------------------- *)

\* A draw of the table filters its rows and saves the state.
Drawn(t, p) == [p EXCEPT !.rows = Visible(t), !.saved = Details(t), !.cleared = FALSE]

\* _checkClear: Clear All is on the page while the top group has children.
CheckClear(t) == t.kids[Top] # <<>>

\* The page of a builder that was just set up, cleared or redrawn: listeners
\* are set on everything.
FreshPage(t) ==
  [rows |-> Visible(t), saved |-> Details(t), title |-> Count(t),
   clearAll |-> CheckClear(t), addChecks |-> TRUE,
   deafButtons |-> {}, deafValues |-> {}, cleared |-> FALSE]

\* The page after Group.rebuild with a list.  Each criterion of the list redraws
\* the page; at the end updateArrows empties the containers of the top group's
\* own criteria, and only their buttons are listened to again.
ListPage(t) == [FreshPage(t) EXCEPT !.deafValues = Kids(t, Top) \cap Crit]

\* The handler of dtsb-redrawContents with the draw, if any, of the handler it
\* is part of: a criterion that becomes complete, or stops being so, draws too.
Redraw(t, p, draw) ==
  \E pruned \in {Pruned(t)} : \E u \in {Rebuilt(pruned)} :
    /\ sb' = u
    /\ page' = IF draw \/ \E c \in LiveCrit(u) : t.crit[c].filled # u.crit[c].filled
               THEN FreshPage(u)
               ELSE [FreshPage(u) EXCEPT !.rows = p.rows, !.cleared = p.cleared]

(* ----------------------------- the handlers ------------------------------ *)

\* _setEmptyListener: the button of the top group also looks whether Clear All
\* has to be shown, while that listener is there.
AfterAdd(g) == page.clearAll \/ (g = Top /\ page.addChecks)

\* addCriteria updates the arrows of the whole group, and updateArrows empties
\* the container of each criterion, which takes the listeners off its buttons
\* and its value selectors; only the criterion that is new gets them again.
Deafened(g) ==
  LET siblings == Kids(sb, g) \cap Crit
  IN [page EXCEPT !.deafButtons = @ \cup siblings, !.deafValues = @ \cup siblings]

(* Variants: the state is not saved; sub groups do not pass dtsb-add on. *)
AddUnsaved(g, c) ==
  /\ g \in LiveGroups(sb) /\ c \notin Live(sb)
  /\ \E t \in {AddCriteria([sb EXCEPT !.index[c] = Len(sb.kids[g])], g, c, Len(sb.kids[g]))} :
       /\ sb' = t
       /\ page' = [Deafened(g) EXCEPT !.title = Count(t), !.clearAll = AfterAdd(g)]
AddUncounted(g, c) ==
  /\ g \in LiveGroups(sb) /\ c \notin Live(sb)
  /\ \E t \in {AddCriteria([sb EXCEPT !.index[c] = Len(sb.kids[g])], g, c, Len(sb.kids[g]))} :
       /\ sb' = t
       /\ page' = [Deafened(g) EXCEPT !.title = IF g = Top THEN Count(t) ELSE @, !.saved = Details(t),
                                      !.clearAll = AfterAdd(g)]

(* Variant: the new criterion does not get listeners either. *)
AddUnheard(g, c) ==
  /\ g \in LiveGroups(sb) /\ c \notin Live(sb)
  /\ \E t \in {AddCriteria([sb EXCEPT !.index[c] = Len(sb.kids[g])], g, c, Len(sb.kids[g]))} :
       /\ sb' = t
       /\ page' = [Deafened(g) EXCEPT !.title = Count(t), !.saved = Details(t),
                                      !.clearAll = AfterAdd(g), !.deafButtons = @ \cup {c}]

\* "Add Condition" of a group.  When the new arrows flip the layout, this is
\* Add and then Relayout.
Add(g, c) ==
  /\ g \in LiveGroups(sb) /\ c \notin Live(sb)
  /\ \E t \in {AddCriteria([sb EXCEPT !.index[c] = Len(sb.kids[g])], g, c, Len(sb.kids[g]))} :
       /\ sb' = t
       /\ page' = [Deafened(g) EXCEPT !.title = Count(t), !.saved = Details(t),
                                      !.clearAll = AfterAdd(g)]

\* Another column is picked: condition and value are cleared.
ChooseData(c, column) ==
  /\ c \in Live(sb) /\ sb.crit[c].data # column
  /\ \E t \in {[sb EXCEPT !.crit[c] = [@ EXCEPT !.data = column, !.cond = None,
                                                 !.value = None, !.filled = FALSE]]} :
       /\ sb' = t
       /\ page' = IF sb.crit[c].filled THEN Drawn(t, page) ELSE [page EXCEPT !.saved = Details(t)]

\* A condition is picked: the value is cleared, its selector a new one, and a
\* criterion whose value selector is on the page is not complete yet.
ChooseCondition(c, cond) ==
  /\ c \in Live(sb) /\ sb.crit[c].data # None /\ sb.crit[c].cond # cond
  /\ \E t \in {[sb EXCEPT !.crit[c] = [@ EXCEPT !.cond = cond, !.value = None,
                                                 !.filled = cond \in NoValue]]} :
       sb' = t /\ page' = [Drawn(t, page) EXCEPT !.deafValues = @ \ {c}]

\* A value is picked, typed or emptied (updateListener), in a selector that is
\* listened to: what is typed in another one is not read by anything.
EnterValue(c, value) ==
  /\ c \in Live(sb) \ page.deafValues /\ sb.crit[c].cond \in Condition \ NoValue
  /\ sb.crit[c].value # value
  /\ \E t \in {[sb EXCEPT !.crit[c] = [@ EXCEPT !.value = value, !.filled = Valid(sb.crit[c].cond, value)]]} :
       sb' = t /\ page' = Drawn(t, page)

(* Variants: the text of the button is taken for the logic; no draw. *)
ToggleText(g) ==
  /\ g \in LiveGroups(sb) /\ sb.kids[g] # <<>>
  /\ \E t \in {[sb EXCEPT !.logic[g] = IF @ = "OR" THEN "And" ELSE "Or"]} :
       sb' = t /\ page' = Drawn(t, page)
ToggleQuietly(g) ==
  /\ g \in LiveGroups(sb) /\ sb.kids[g] # <<>>
  /\ \E t \in {[sb EXCEPT !.logic[g] = IF @ = "OR" THEN "AND" ELSE "OR"]} :
       sb' = t /\ page' = [page EXCEPT !.saved = Details(t)]

\* The logic button of a group, which is there once the group has criteria.
ToggleLogic(g) ==
  /\ g \in LiveGroups(sb) /\ sb.kids[g] # <<>>
  /\ \E t \in {[sb EXCEPT !.logic[g] = CASE @ = "OR" -> "AND" [] @ = "AND" -> "OR" [] OTHER -> @]} :
       sb' = t /\ page' = Drawn(t, page)

\* The delete button of a criterion.
Delete(c) ==
  /\ c \in Live(sb) \ page.deafButtons
  /\ \E g \in {Parent(sb, c)} : \E t \in {UpdateArrows(RemoveCriteria(sb, g, c), {g})} :
       Redraw(t, page, TRUE)

\* The right arrow: a new group takes the place of the criterion, which goes
\* into it.  The entry to replace is found by the criterion's index.
Indent(c, n) ==
  /\ c \in Live(sb) \ page.deafButtons /\ sb.crit[c].right
  /\ n \notin Live(sb)
  /\ \E g \in {Parent(sb, c)} : \E emptied \in {[sb EXCEPT !.crit[c] = Populate(@)]} :
     \E t \in {[emptied EXCEPT !.kids[g][sb.index[c] + 1].node = n,
                               !.kids[n] = <<[node |-> c, index |-> sb.index[c]]>>,
                               !.index[n] = sb.index[c],
                               !.depth = [@ EXCEPT ![n] = DepthOf(sb, g) + 1, ![c] = DepthOf(sb, g) + 1],
                               !.logic[n] = DefaultLogic,
                               !.crit[c].right = FALSE]} :
       Redraw(t, IF emptied.crit[c].filled # sb.crit[c].filled THEN Drawn(emptied, page) ELSE page,
              FALSE)

(* Variant: the index that dtsb-dropCriteria changed is not put back. *)
OutdentUnrestored(c) ==
  /\ c \in Live(sb) \ page.deafButtons /\ sb.depth[c] > 1
  /\ \E g \in {Parent(sb, c)} :
     \E dropped \in {AddCriteria([sb EXCEPT !.index[c] = sb.index[g], !.crit[c] = Populate(@)],
                                 Parent(sb, g), c, sb.index[g])} :
     \E t \in {RemoveCriteria(dropped, g, c)} :
       Redraw(t, page, TRUE)

\* The left arrow: the criterion is dropped into the parent group at the index
\* of its group, gets its old index back so that it is found and removed from
\* the group, and everything is redrawn and drawn.
Outdent(c) ==
  /\ c \in Live(sb) \ page.deafButtons /\ sb.depth[c] > 1
  /\ \E g \in {Parent(sb, c)} :
     \E dropped \in {AddCriteria([sb EXCEPT !.index[c] = sb.index[g], !.crit[c] = Populate(@)],
                                 Parent(sb, g), c, sb.index[g])} :
     \E t \in {RemoveCriteria([dropped EXCEPT !.index[c] = sb.index[c]], g, c)} :
       Redraw(t, page, TRUE)

\* The clear button of a sub group: destroyed and redrawn, but not drawn.
ClearGroup(g) ==
  /\ g \in Live(sb)
  /\ \E t \in {Destroy(sb, g)} : Redraw(t, [page EXCEPT !.cleared = TRUE], FALSE)

\* The clear button of the top group (_setUp again), and Clear All.
ClearTop == sb.kids[Top] # <<>> /\ sb' = EmptyTree /\ page' = FreshPage(EmptyTree)
ClearAll == page.clearAll /\ sb' = EmptyTree /\ page' = FreshPage(EmptyTree)

\* _adjustCriteria when the layout flips on a resize or a draw, and the events
\* of an editor: everything is redrawn.
Relayout == Live(sb) # {} /\ Redraw(sb, page, FALSE)

\* Group.rebuild with a flat list of criteria, as a script writes them: they
\* are appended to what the top group holds.
Extend(t, d, ids) ==
  LET n == Len(t.kids[Top])
      new == {ids[i] : i \in DOMAIN ids}
      at(c) == CHOOSE i \in DOMAIN ids : ids[i] = c
  IN [t EXCEPT !.kids[Top] = @ \o [i \in DOMAIN ids |-> [node |-> ids[i], index |-> n + i - 1]],
               !.logic[Top] = d.logic,
               !.index = [k \in Node |-> IF k \in new THEN n + at(k) - 1 ELSE @[k]],
               !.crit = [c \in Crit |->
                 IF c \notin new THEN @[c]
                 ELSE [EmptyCrit EXCEPT !.data = d.criteria[at(c)].data,
                                        !.cond = d.criteria[at(c)].cond,
                                        !.value = d.criteria[at(c)].value]]]

\* The new objects of a list of criteria.
NewObjects(t, d) ==
  {f \in [1..Len(d.criteria) -> Crit \ Live(t)] : \A i, j \in DOMAIN f : i # j => f[i] # f[j]}

(* Variant: the list is added to what is there. *)
ApiExtend(d) ==
  IF d = None THEN sb' = sb /\ page' = page
  ELSE IF d.criteria = <<>> THEN sb' = sb /\ page' = [Drawn(sb, page) EXCEPT !.addChecks = FALSE]
  ELSE \E ids \in NewObjects(sb, d) : \E t \in {UpdateArrows(Extend(sb, d, ids), {Top})} :
       \E u \in {Rebuilt(t)} : sb' = u /\ page' = [ListPage(u) EXCEPT !.addChecks = FALSE]

\* searchBuilder.rebuild(details): Clear All is clicked first, which does
\* nothing while the button is not on the page, and the listeners of the top
\* group are set again at the end, which drops the look at Clear All.
ApiRebuild(d) ==
  \E base \in {IF page.clearAll THEN EmptyTree ELSE sb} :
  \E p \in {IF page.clearAll THEN FreshPage(EmptyTree) ELSE page} :
    IF d = None THEN sb' = base /\ page' = p
    ELSE IF d.criteria = <<>> THEN sb' = base /\ page' = [Drawn(base, p) EXCEPT !.addChecks = FALSE]
    ELSE \E ids \in NewObjects(base, d) : \E t \in {UpdateArrows(Extend(base, d, ids), {Top})} :
         \E u \in {Rebuilt(t)} : sb' = u /\ page' = [ListPage(u) EXCEPT !.addChecks = FALSE]

\* The page is left and opened again: _setUp with the state of the last save.
Reload == \E t \in {Restore(page.saved)} : sb' = t /\ page' = FreshPage(t)

\* _applyPreDefDefaults: a list without a logic is an AND.
WithDefaults(d) == IF d.logic = None THEN [d EXCEPT !.logic = "AND"] ELSE d

\* The first visit: nothing saved, the predefined criteria if there are any.
Init ==
  IF PreDefined = None
  THEN sb = EmptyTree /\ page = FreshPage(EmptyTree)
  ELSE \E ids \in NewObjects(EmptyTree, PreDefined) :
         /\ sb = Rebuilt(UpdateArrows(Extend(EmptyTree, WithDefaults(PreDefined), ids), {Top}))
         /\ page = ListPage(sb)

Next ==
  \/ \E g \in Group, c \in Crit : Add(g, c)
  \/ \E c \in Crit, column \in Column : ChooseData(c, column)
  \/ \E c \in Crit, cond \in Condition : ChooseCondition(c, cond)
  \/ \E c \in Crit, value \in Value \cup {None} : EnterValue(c, value)
  \/ \E g \in Group : ToggleLogic(g)
  \/ \E c \in Crit : Delete(c)
  \/ \E c \in Crit, n \in Sub : Indent(c, n)
  \/ \E c \in Crit : Outdent(c)
  \/ \E g \in Sub : ClearGroup(g)
  \/ ClearTop
  \/ ClearAll
  \/ Relayout
  \/ \E d \in ApiDetails : ApiRebuild(d)
  \/ Reload

Spec == Init /\ [][Next]_vars

(* ----------------------------- properties -------------------------------- *)

CritRecord == [data : Column \cup {None}, cond : Condition \cup {None},
               value : Value \cup {None}, filled : BOOLEAN, right : BOOLEAN]

\* The tree and the page are made of the right parts.
TypeOK ==
  /\ \A g \in Group : \A i \in DOMAIN sb.kids[g] :
       sb.kids[g][i].node \in Node /\ sb.kids[g][i].index \in Nat
  /\ sb.index \in [Node -> Nat] /\ sb.depth \in [Node -> Nat]
  /\ sb.logic \in [Group -> {"AND", "OR", None}]
  /\ sb.crit \in [Crit -> CritRecord]
  /\ page.rows \subseteq Row /\ page.title \in Nat
  /\ {page.clearAll, page.addChecks, page.cleared} \subseteq BOOLEAN
  /\ page.deafButtons \subseteq LiveCrit(sb) /\ page.deafValues \subseteq Crit

\* Criteria are removed and replaced by their index, never by identity: after
\* every handler the index of each node and of its entry is its position.
IndexIsPosition ==
  \A g \in LiveGroups(sb) : \A i \in DOMAIN sb.kids[g] :
    sb.kids[g][i].index = i - 1 /\ sb.index[sb.kids[g][i].node] = i - 1

\* Moving criteria through temporary objects leaves each in one group only, at
\* its index, no sub group empty, and each node as deep as it is nested (which
\* decides whether its left arrow is offered), never deeper than the option
\* allows.
TreeIsSound ==
  /\ TypeOK /\ IndexIsPosition
  /\ \A g, h \in LiveGroups(sb) : \A i \in DOMAIN sb.kids[g], j \in DOMAIN sb.kids[h] :
       sb.kids[g][i].node = sb.kids[h][j].node => g = h /\ i = j
  /\ \A g \in LiveGroups(sb) \ {Top} : sb.kids[g] # <<>>
  /\ \A g \in LiveGroups(sb) : \A n \in Kids(sb, g) :
       sb.depth[n] = DepthOf(sb, g) + (IF n \in Sub THEN 1 ELSE 0)
  /\ DepthLimit # 0 => \A c \in LiveCrit(sb) : sb.depth[c] <= DepthLimit

\* A criterion is complete once its column, its condition and the value the
\* condition needs are there.
Complete(c) == c.cond # None /\ (c.cond \in NoValue \/ c.value # None)

\* What the user means: the criteria that are complete, combined by the logic
\* of their groups, as if nothing else were on the page.
Meant(t) ==
  LET stands[n \in Node \cup Group] ==
        IF n \in Crit THEN Complete(t.crit[n]) ELSE \E k \in Kids(t, n) : stands[k]
      rows[n \in Node \cup Group] ==
        IF n \in Crit
        THEN {row \in Row : Passes(t.crit[n].data, t.crit[n].cond, t.crit[n].value, row)}
        ELSE LET parts == {rows[k] : k \in {k \in Kids(t, n) : stands[k]}}
             IN CASE parts = {} -> Row
                  [] t.logic[n] = "AND" -> {row \in Row : \A part \in parts : row \in part}
                  [] OTHER -> UNION parts
  IN rows[Top]

\* "If the criteria is not complete then skip it": the rows that pass the
\* search are those that pass the complete criteria, whatever was clicked.
SearchIsMeant == Visible(sb) = Meant(sb)

\* What is saved is what is on the page, after every handler, and a reload at
\* any time brings back the tree and the rows that pass it.
SavedIsCurrent ==
  /\ page.saved = Details(sb)
  /\ LET t == Restore(page.saved) IN Details(t) = Details(sb) /\ Visible(t) = Visible(sb)

\* A criterion with siblings is offered the right arrow unless it is at the limit.
SiblingsAreOffered ==
  \A g \in LiveGroups(sb) : \A c \in Kids(sb, g) \cap Crit :
    Len(sb.kids[g]) > 1 /\ (DepthLimit = 0 \/ sb.depth[c] < DepthLimit) => sb.crit[c].right

\* "Add Condition" makes the buttons of a group deaf until the next redraw, but
\* never all of them: a criterion with deaf buttons has a sibling whose buttons
\* work, and any of these redraws everything.
ButtonsCanRevive ==
  \A g \in LiveGroups(sb) : Kids(sb, g) \cap page.deafButtons # {} =>
    \E c \in Kids(sb, g) \cap Crit : c \notin page.deafButtons

\* The count in the title, Clear All and the arrows follow the tree, and no
\* group is left with buttons that are all deaf.  A script that
\* rebuilds from an empty list takes the look at Clear All away from the button
\* that adds: Clear All is late then, but never there for nothing.
PageFollowsTree ==
  /\ SiblingsAreOffered /\ ButtonsCanRevive
  /\ page.title = Count(sb)
  /\ page.clearAll => sb.kids[Top] # <<>>
  /\ page.addChecks /\ sb.kids[Top] # <<>> => page.clearAll

\* Every change of the rows that pass draws the table: the rows shown are those
\* that pass, until the clear button of a sub group is used, which does not draw.
ShownIsCurrent == page.cleared \/ page.rows = Visible(sb)

\* Whatever was clicked, the rows on view are those that are meant.
RowsAreMeant == SearchIsMeant /\ ShownIsCurrent

\* The arrows move criteria: none is lost, doubled, emptied or made incomplete,
\* and indenting one, the only step with a new group, does not change the rows
\* that pass.
SameCriteria ==
  /\ LiveCrit(sb') = LiveCrit(sb)
  /\ \A c \in LiveCrit(sb) : [sb'.crit[c] EXCEPT !.right = FALSE]
                             = [sb.crit[c] EXCEPT !.right = FALSE]
MovesKeepCriteria ==
  [][/\ ~ LiveGroups(sb') \subseteq LiveGroups(sb)
          => SameCriteria /\ Visible(sb') = Visible(sb)
     /\ SameCriteria \/ ~\E c \in Crit : sb'.depth[c] < sb.depth[c] /\ Outdent(c)]_vars

\* "Rebuilds the SearchBuilder to a state that is provided": all that was there
\* is gone, and the criteria are those of the list, searched for if they are
\* complete.  Excepted is the tree whose Clear All is late.
RebuildGivesState ==
  [][\A d \in ApiDetails \ {None} :
       (page.clearAll \/ sb.kids[Top] = <<>>) /\ ~page'.addChecks /\ ApiRebuild(d) =>
         LET c(i) == sb'.crit[sb'.kids[Top][i].node] IN
         /\ DOMAIN sb'.kids[Top] = DOMAIN d.criteria
         /\ \A i \in DOMAIN d.criteria :
              /\ <<c(i).data, c(i).cond, c(i).value>> = <<d.criteria[i].data, d.criteria[i].cond, d.criteria[i].value>>
              /\ c(i).filled = Complete(c(i))
         /\ page'.rows = Visible(sb')]_vars
=============================================================================
