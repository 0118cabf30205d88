----------------------------- MODULE PageContent -----------------------------
(* The contents of a generated page: groups of tabs that remember which of   *)
(* them was active, sections that collapse, and the tables, calendars and    *)
(* diagrams in them, which have to be fitted again when they come into view. *)
EXTENDS Integers, Sequences, FiniteSets

CONSTANTS
  Pages,     \* the pages of a site, each a record with
             \*   tabs, within, default: for each group of tabs how many it has, the
             \*     tab <<group, item>> its pane belongs to, and the active one,
             \*   objects: a sequence of [kind, tab, sections, broken, fixed],
             \*   open: the sections that are not collapsed at first,
             \*   stores: can the browser keep its localStorage?
  MaxGroups, \* bound: the groups that localStorage remembers
  None

Kinds == {"table", "calendar", "diagram"}
Groups(p) == DOMAIN p.tabs
Objects(p) == DOMAIN p.objects
Sections(p) == UNION {p.objects[o].sections : o \in Objects(p)}
ASSUME PagesAssumption == None \notin Nat /\ \A p \in Pages :
  /\ p.default = [g \in Groups(p) |-> p.default[g]]
  /\ Groups(p) \subseteq 1..MaxGroups /\ p.open \subseteq Sections(p)
  /\ \A g \in Groups(p) : p.tabs[g] \in Nat /\ p.default[g] \in {None} \cup 1..p.tabs[g]
  /\ \A o \in Objects(p) : p.objects[o].kind \in Kinds

VARIABLES
  page,      \* the page that is open
  active,    \* the active tab of each group, with its pane
  memory,    \* memory: the tab of each group that is remembered
  storage,   \* the memory in localStorage, shared by the pages of the site
  foreign,   \* a history: did another window write the storage last?
  expanded,  \* the sections on view
  ready,     \* the document is ready: its objects exist
  fitted,    \* the objects that fit the space they have
  floating   \* the tables whose fixed header floats over the page
tabs == <<active, memory, storage, foreign>>
objects == <<fitted, floating>>
content == <<page, tabs, expanded, ready, objects>>

Nothing == [g \in 1..MaxGroups |-> None]

(* ----------------------------- what is on view --------------------------- *)

\* A tab <<group, item>> is on view when it and those around it are active.
Around(p, g) ==
  LET around[h \in Groups(p)] ==
        IF p.within[h] = None THEN {} ELSE {p.within[h]} \cup around[p.within[h][1]]
  IN around[g]
OnView(p, tab, act) == tab # None => \A t \in {tab} \cup Around(p, tab[1]) : act[t[1]] = t[2]
Inside(p, tab, outer) ==
  tab # None /\ \E t \in {tab} \cup Around(p, tab[1]) : t[1] = outer[1] /\ t[2] = outer[2]

ASSUME NestingAssumption == \A p \in Pages : \A o \in Objects(p) :
  LET tab == p.objects[o].tab
  IN tab # None => \A t \in {tab} \cup Around(p, tab[1]) : t[1] \in Groups(p)

InActiveTab(o, act) == OnView(page, page.objects[o].tab, act)
Visible(act, exp) == {o \in Objects(page) : InActiveTab(o, act) /\ page.objects[o].sections \subseteq exp}

(* ------------------------------ redrawObjects ---------------------------- *)

\* redrawCalendar and redrawDiagram throw for what no tracker holds, which ends
\* the loop over that kind; resizeTable passes over what is no DataTable yet.
Reached(kind, S) ==
  LET stops == {o \in Objects(page) : page.objects[o].kind = kind /\ (page.objects[o].broken \/ ~ready)}
  IN {o \in S : page.objects[o].kind = kind /\ ready /\ (kind = "table" \/ \A b \in stops \cap S : o < b)}

\* What is redrawn fits if it is on view.
Refit(S, kinds) ==
  LET redrawn == UNION {Reached(kind, S) : kind \in kinds}
  IN fitted' = (fitted \ redrawn) \cup (redrawn \cap Visible(active', expanded'))

(* Variant: only the headers of the tab that is opened are looked at. *)
FixedHeadersOf(S) == floating' = floating \ (S \ Visible(active', expanded'))

\* redrawFixedHeaderFooter looks at the headers of the whole page.
FixedHeaders(S) == floating' = floating \cap Visible(active', expanded')

(* Variant: what is in a tab inside the tab is left to that tab. *)
FindObjectsShallow(tab) ==
  LET S == {o \in Objects(page) : page.objects[o].tab = tab}
  IN Refit(S, Kinds) /\ FixedHeaders(S)

FindObjectsToRedraw(tab) ==
  LET S == {o \in Objects(page) : Inside(page, page.objects[o].tab, tab)}
  IN Refit(S, Kinds) /\ FixedHeaders(S)

(* --------------------------------- tabbis -------------------------------- *)

\* setNodes: the tab and its pane become active and are remembered.
SelectTab(g, i) ==
  /\ OnView(page, page.within[g], active)
  /\ active' = [active EXCEPT ![g] = i] /\ memory' = [memory EXCEPT ![g] = i]
  /\ storage' = IF page.stores THEN memory' ELSE storage
  /\ foreign' = (foreign /\ ~page.stores)
  /\ UNCHANGED <<page, expanded, ready>>
  /\ FindObjectsToRedraw(<<g, i>>)

(* Variant: holes do not survive: the groups that are remembered move up. *)
RestoredDense(p) ==
  LET groups == {g \in 1..MaxGroups : storage[g] # None}
      place(n) == {g \in groups : Cardinality({h \in groups : h < g}) = n - 1}
  IN IF ~p.stores THEN Nothing
     ELSE [n \in 1..MaxGroups |-> IF place(n) = {} THEN None ELSE storage[CHOOSE g \in place(n) : TRUE]]

\* setMemory: JSON keeps the groups between as null.
Restored(p) == IF p.stores THEN storage ELSE Nothing

\* init: the tab that is remembered, if the page has it, takes the place of the
\* one the page was made with.  The handler of unload is undefined, so that
\* nothing is ever forgotten.
Remembered(p, mem) ==
  [g \in Groups(p) |-> IF mem[g] # None /\ mem[g] <= p.tabs[g] THEN mem[g] ELSE p.default[g]]

LoadContent(p) ==
  /\ page' = p /\ memory' = Restored(p) /\ storage' = storage /\ foreign' = FALSE
  /\ active' = Remembered(p, memory')
  /\ expanded' = p.open /\ ready' = FALSE /\ fitted' = {} /\ floating' = {}

\* A tab is clicked in a page of the site that is open in another window: all
\* that window remembers goes to the storage, be it what it found there just
\* now, or nothing, if it was opened before the rest was remembered.
OtherWindow(p, g, i) ==
  /\ Groups(page) # {} /\ p.stores
  /\ \E found \in {storage, Nothing} : storage' = [found EXCEPT ![g] = i]
  /\ foreign' = TRUE
  /\ UNCHANGED <<page, active, memory, expanded, ready, objects>>

\* The scripts of the tables, calendars and diagrams run.
Ready ==
  /\ ~ready /\ ready' = TRUE
  /\ fitted' = Visible(active, expanded)
  /\ UNCHANGED <<page, tabs, expanded, floating>>

(* -------------------------------- sections ------------------------------- *)

SectionOnView(s) ==
  \E o \in Objects(page) : s \in page.objects[o].sections /\ InActiveTab(o, active)
                           /\ page.objects[o].sections \subseteq expanded \cup {s}

\* show: diagrams are not redrawn, and fixed headers are not looked at.
ShowSection(s) ==
  /\ s \notin expanded /\ SectionOnView(s) /\ expanded' = expanded \cup {s} /\ active' = active
  /\ Refit({o \in Objects(page) : s \in page.objects[o].sections}, {"table", "calendar"})
  /\ UNCHANGED <<page, memory, storage, foreign, ready, floating>>

HideSection(s) ==
  /\ s \in expanded /\ SectionOnView(s) /\ expanded' = expanded \ {s}
  /\ UNCHANGED <<page, tabs, ready, objects>>

(* ------------------------------- libraries ------------------------------- *)

\* The window changes its size: the libraries fit what is on view.
Resize ==
  /\ ready /\ fitted' = Visible(active, expanded)
  /\ UNCHANGED <<page, tabs, expanded, ready, floating>>

\* The page is scrolled: the header of a table starts or stops to float.
Scroll(o) ==
  /\ ready /\ page.objects[o].fixed /\ o \in Visible(active, expanded)
  /\ floating' = IF o \in floating THEN floating \ {o} ELSE floating \cup {o}
  /\ UNCHANGED <<page, tabs, expanded, ready, fitted>>

InitContent ==
  /\ page \in Pages /\ storage = Nothing /\ memory = Nothing /\ foreign = FALSE
  /\ active = page.default /\ expanded = page.open
  /\ ready = FALSE /\ fitted = {} /\ floating = {}

(* ------------------------------- properties ------------------------------ *)

ContentTypeOK ==
  /\ page \in Pages /\ expanded \subseteq Sections(page)
  /\ \A g \in Groups(page) : active[g] \in {None} \cup 1..page.tabs[g]
  /\ fitted \cup floating \subseteq Objects(page)
  /\ ~ready => fitted = {} /\ floating = {}

\* Whatever tabs and sections were opened and closed, however the window was
\* resized in between, and whatever was clicked before the objects existed, what
\* is on view fits.  Excepted are diagrams in sections, which show() forgets,
\* and objects of a kind of which one is broken.
VisibleFits ==
  ready => \A o \in Visible(active, expanded) :
    \/ o \in fitted
    \/ \E b \in Objects(page) : page.objects[b].kind = page.objects[o].kind /\ page.objects[b].broken
    \/ page.objects[o].kind = "diagram" /\ page.objects[o].sections # {}

\* No fixed header of a table in another tab floats over the page.
NoStrayHeader == \A o \in floating : InActiveTab(o, active)

\* Both together: whatever was opened, nothing is cut off or in the way.
ContentFits == VisibleFits /\ NoStrayHeader
=============================================================================
