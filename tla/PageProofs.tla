----------------------------- MODULE PageProofs -----------------------------
(***************************************************************************)
(* Proofs about Page, for every site: any pages, tabs, objects, menus and  *)
(* options.                                                                *)
(*                                                                         *)
(* The menus: a fixed menu stays because its settings disable whatever     *)
(* would move it; the overlay, the panels and the marks follow one handler *)
(* each and the clicks outside of it.  The contents: fixed headers are     *)
(* those of tables in active tabs, and the active tabs are at all times    *)
(* those that a reload would open, so that a reload keeps them.            *)
(***************************************************************************)
EXTENDS Page, TLAPS

(* The side menu, the top menu and the floating panel in order. *)
SideInv ==
  /\ nav \in Navs /\ open \in BOOLEAN /\ dim \in BOOLEAN /\ raising \in Seq(BOOLEAN)
  /\ FixedMenuStays
  /\ "side" \in nav.kinds /\ ~Setting(nav).startMenuOpen => dim = (open /\ nav.options.bgFading)
  /\ \A p, q \in revealed : p = q
  /\ less \in BOOLEAN /\ less = high

TopInv ==
  /\ moves \in Seq({"open", "close"})
  /\ \A h, k \in menus : h = k
  /\ marked = menus
  /\ moves = <<>> /\ burger => drawer

MenuInv == SideInv /\ TopInv /\ penalDim = penal

(* The active tabs are those that are remembered, and the browser has them. *)
TabInv ==
  /\ page \in Pages
  /\ memory = [g \in 1..MaxGroups |-> memory[g]]
  /\ storage = [g \in 1..MaxGroups |-> storage[g]]
  /\ active = Remembered(page, memory)
  /\ page.stores /\ ~foreign => storage = memory

-----------------------------------------------------------------------------
(* What another window does not touch. *)
LEMMA OtherPageKeeps ==
  ASSUME Elsewhere
  PROVE  UNCHANGED <<page, active, memory, expanded, ready, fitted, floating, menuVars>>
BY DEF Elsewhere, OtherWindow, objects

(* What fixedMenu overrides. *)
LEMMA Settings ==
  ASSUME NEW n \in Navs
  PROVE  /\ n.options.fixedMenu \in BOOLEAN /\ n.options.bgFading \in BOOLEAN
         /\ n.options.fixedMenu => /\ Setting(n).startMenuOpen /\ Setting(n).resizeContent
                                   /\ Setting(n).disableHamburger /\ ~Setting(n).outClickToClose
         /\ ~n.options.fixedMenu => Setting(n) = n.options
         /\ Setting(n).bgFading = n.options.bgFading
BY MenusAssumption DEF Setting, Options

(* A page begins with its menus in order. *)
LEMMA MenusBegin ==
  ASSUME NEW n \in Navs, InitMenus(n)
  PROVE  MenuInv
<1>1. OpenFirst(n) \in BOOLEAN
  BY MenusAssumption DEF OpenFirst, Setting, Options
<1>2. <<>> \in Seq({"open", "close"}) /\ <<>> \in Seq(BOOLEAN)
  OBVIOUS
<1>3. FixedMenuStays
  BY Settings DEF InitMenus, FixedMenuStays, OpenFirst, MarginFirst
<1>4. SideInv
  BY <1>1, <1>2, <1>3 DEF InitMenus, SideInv, OpenFirst
<1>5. TopInv
  BY <1>2 DEF InitMenus, TopInv
<1> QED
  BY <1>4, <1>5 DEF InitMenus, MenuInv

(* So does the next page. *)
LEMMA MenusLoad ==
  ASSUME NEW n \in Navs, LoadMenus(n)
  PROVE  MenuInv'
<1>1. OpenFirst(n) \in BOOLEAN
  BY MenusAssumption DEF OpenFirst, Setting, Options
<1>2. <<>> \in Seq({"open", "close"}) /\ <<>> \in Seq(BOOLEAN)
  OBVIOUS
<1>3. FixedMenuStays'
  BY Settings DEF LoadMenus, FixedMenuStays, OpenFirst, MarginFirst
<1>4. SideInv'
  BY <1>1, <1>2, <1>3 DEF LoadMenus, SideInv, OpenFirst
<1>5. TopInv'
  BY <1>2 DEF LoadMenus, TopInv
<1> QED
  BY <1>4, <1>5 DEF LoadMenus, MenuInv

(* Every handler of the side menu, and a click outside of it. *)
LEMMA SideSteps ==
  ASSUME SideInv, nav' = nav,
         \/ Trigger \/ Raise \/ Widen \/ User \/ OutsideSide
         \/ \E panel \in Panels : Reveal(panel)
         \/ \E link \in Parents : Parent(link)
         \/ UNCHANGED <<open, dim, revealed, high, less, raising, width, margin>>
  PROVE  SideInv'
<1> USE DEF SideInv, FixedMenuStays
<1>1. CASE Trigger
  BY <1>1, Settings DEF Trigger
<1>2. CASE Raise
  <2>1. (~less) \in BOOLEAN
    OBVIOUS
  <2>2. \A b \in BOOLEAN : Append(raising, b) \in Seq(BOOLEAN)
    OBVIOUS
  <2>3. Append(raising, ~less) \in Seq(BOOLEAN)
    BY <2>1, <2>2, Zenon
  <2>4. raising' \in Seq(BOOLEAN)
    BY <1>2, <2>3 DEF Raise
  <2>5. UNCHANGED <<open, dim, revealed, high, less, width, margin>>
    BY <1>2 DEF Raise
  <2> QED
    BY <2>4, <2>5
<1>3. CASE Widen
  BY <1>3, Settings DEF Widen
<1>4. CASE User
  BY <1>4 DEF User
<1>5. CASE OutsideSide
  <2>1. CASE "side" \in nav.kinds /\ Setting(nav).outClickToClose
    <3>1. ~nav.options.fixedMenu
      BY <2>1, Settings
    <3>2. open' = FALSE /\ dim' = FALSE /\ revealed' = {} /\ UNCHANGED <<high, less, raising, width, margin>>
      BY <1>5, <2>1 DEF OutsideSide
    <3> QED
      BY <3>1, <3>2
  <2>2. CASE ~("side" \in nav.kinds /\ Setting(nav).outClickToClose)
    <3>1. UNCHANGED <<open, dim, revealed, high, less, raising, width, margin>>
      BY <1>5, <2>2 DEF OutsideSide
    <3> QED
      BY <3>1
  <2> QED
    BY <2>1, <2>2
<1>6. CASE \E panel \in Panels : Reveal(panel)
  BY <1>6 DEF Reveal
<1>7. CASE \E link \in Parents : Parent(link)
  BY <1>7 DEF Parent
<1>8. CASE UNCHANGED <<open, dim, revealed, high, less, raising, width, margin>>
  BY <1>8
<1> QED
  BY <1>1, <1>2, <1>3, <1>4, <1>5, <1>6, <1>7, <1>8

(* Every handler of the top menu, and a click outside of it. *)
LEMMA TopSteps ==
  ASSUME TopInv,
         \/ Hamburger \/ OutsideTop
         \/ \E h \in Headings : Heading(h)
         \/ \E s \in Sub : Submenu(s)
         \/ UNCHANGED <<marked, menus, burger, drawer, moves>>
  PROVE  TopInv'
<1> USE DEF TopInv
<1>0. \A move \in {"open", "close"} :
        Append(moves, move) \in Seq({"open", "close"}) /\ Append(moves, move) # <<>>
  OBVIOUS
<1>1. CASE Hamburger
  BY <1>0, <1>1 DEF Hamburger
<1>2. CASE OutsideTop
  BY <1>0, <1>2 DEF OutsideTop
<1>3. CASE \E h \in Headings : Heading(h)
  BY <1>3 DEF Heading
<1>4. CASE \E s \in Sub : Submenu(s)
  BY <1>4 DEF Submenu
<1>5. CASE UNCHANGED <<marked, menus, burger, drawer, moves>>
  BY <1>5
<1> QED
  BY <1>1, <1>2, <1>3, <1>4, <1>5
(* An animation of the side menu ends. *)
LEMMA RaisedKeeps ==
  ASSUME MenuInv, Raised
  PROVE  MenuInv'
<1>1. Head(raising) \in BOOLEAN /\ Tail(raising) \in Seq(BOOLEAN)
  BY DEF Raised, MenuInv, SideInv
<1>2. /\ nav' = nav /\ open' = open /\ dim' = dim /\ revealed' = revealed /\ width' = width /\ margin' = margin
      /\ UNCHANGED top /\ UNCHANGED float
      /\ raising' = Tail(raising) /\ less' = Head(raising) /\ high' = Head(raising)
  BY DEF Raised
<1>3. SideInv'
  BY <1>1, <1>2 DEF MenuInv, SideInv, FixedMenuStays
<1>4. TopInv'
  BY <1>2, TopSteps DEF MenuInv, top
<1> QED
  BY <1>2, <1>3, <1>4 DEF MenuInv, float

(* An animation of the drawer ends. *)
LEMMA MovedKeeps ==
  ASSUME MenuInv, Moved
  PROVE  MenuInv'
<1>1. Tail(moves) \in Seq({"open", "close"})
  BY DEF Moved, MenuInv, TopInv
<1>2. TopInv'
  BY <1>1 DEF Moved, MenuInv, TopInv
<1>3. nav' = nav /\ UNCHANGED side /\ UNCHANGED float
  BY DEF Moved
<1>4. SideInv'
  BY <1>3, SideSteps DEF MenuInv, side
<1> QED
  BY <1>2, <1>3, <1>4 DEF MenuInv, float

(* A click in one menu, in the contents or elsewhere. *)
LEMMA ClicksKeep ==
  ASSUME MenuInv, nav' = nav,
         /\ \/ Trigger \/ Raise \/ Widen \/ User \/ OutsideSide
            \/ \E panel \in Panels : Reveal(panel)
            \/ \E link \in Parents : Parent(link)
         /\ \/ Hamburger \/ OutsideTop
            \/ \E h \in Headings : Heading(h)
            \/ \E s \in Sub : Submenu(s)
         /\ UNCHANGED float \/ OpenPenal \/ ClosePenal
  PROVE  MenuInv'
<1>1. SideInv'
  BY SideSteps DEF MenuInv
<1>2. TopInv'
  BY TopSteps DEF MenuInv
<1>3. penalDim' = penal'
  <2>1. CASE OpenPenal
    BY <2>1 DEF OpenPenal
  <2>2. CASE ClosePenal
    BY <2>2 DEF ClosePenal
  <2>3. CASE UNCHANGED float
    BY <2>3 DEF MenuInv, float
  <2> QED
    BY <2>1, <2>2, <2>3
<1> QED
  BY <1>1, <1>2, <1>3 DEF MenuInv

(* Every step of the page keeps its menus in order. *)
LEMMA MenusStep ==
  ASSUME MenuInv, [Next]_vars
  PROVE  MenuInv'
<1>1. CASE \E p \in Pages : Load(p)
  BY <1>1, MenusLoad, NavsAssumption DEF Load
<1>2. CASE \/ \E g \in Groups(page) : \E i \in 1..page.tabs[g] : ClickTab(g, i)
           \/ \E s \in Sections(page) : ClickShow(s) \/ ClickHide(s)
           \/ ClickBody
  <2>1. Outside
    BY <1>2 DEF ClickTab, ClickShow, ClickHide, Click, ClickBody
  <2> QED
    BY <2>1, ClicksKeep DEF Outside
<1>3. CASE \/ ClickMenu(InSide(Trigger)) \/ ClickMenu(InSide(Raise)) \/ ClickMenu(InSide(Widen)) \/ ClickMenu(InSide(User))
           \/ \E panel \in Panels : ClickMenu(InSide(Reveal(panel)))
           \/ \E link \in Parents : ClickMenu(InSide(Parent(link)))
  BY <1>3, ClicksKeep DEF ClickMenu, InSide
<1>4. CASE \/ ClickMenu(InTop(Hamburger))
           \/ \E h \in Headings : ClickMenu(InTop(Heading(h)))
           \/ \E s \in Sub : ClickMenu(InTop(Submenu(s)))
  BY <1>4, ClicksKeep DEF ClickMenu, InTop
<1>5. CASE ClickMenu(InFloat(OpenPenal)) \/ ClickMenu(InFloat(ClosePenal))
  BY <1>5, ClicksKeep DEF ClickMenu, InFloat
<1>6. CASE ClickMenu(Raised) \/ ClickMenu(Moved)
  BY <1>6, RaisedKeeps, MovedKeeps DEF ClickMenu
<1>7. CASE Library \/ Elsewhere \/ UNCHANGED vars
  <2>1. UNCHANGED menuVars
    BY <1>7 DEF Library, Elsewhere, vars
  <2>2. nav' = nav /\ UNCHANGED side /\ UNCHANGED top /\ UNCHANGED float
    BY <2>1 DEF menuVars
  <2> QED
    BY <2>2, SideSteps, TopSteps DEF MenuInv, side, top, float
<1> QED
  BY <1>1, <1>2, <1>3, <1>4, <1>5, <1>6, <1>7 DEF Next

(* The menus are in order at all times. *)
THEOREM MenusInOrder == Spec => []MenuInv
<1>1. Init => MenuInv
  BY MenusBegin, NavsAssumption DEF Init, InitContent
<1>2. MenuInv /\ [Next]_vars => MenuInv'
  BY MenusStep
<1> QED
  BY <1>1, <1>2, PTL DEF Spec
(* A fixed menu stays open beside the page (the options that fixedMenu        *)
(* overrides).                                                              *)
THEOREM FixedMenuIsSafe == Spec => []FixedMenuStays
<1>1. MenuInv => FixedMenuStays
  BY DEF MenuInv, SideInv
<1> QED
  BY <1>1, MenusInOrder, PTL

(* The overlays are there exactly while a menu is open over the page (the     *)
(* toggles of the menu trigger and the clicks outside).                     *)
THEOREM DimIsSafe == Spec => []DimFollowsMenu
<1>1. MenuInv => DimFollowsMenu
  BY DEF MenuInv, SideInv, DimFollowsMenu
<1> QED
  BY <1>1, MenusInOrder, PTL

(* One panel and one menu are open at most (the handlers that close others).  *)
THEOREM OneMenuIsSafe == Spec => []OneMenuOpen
<1>1. MenuInv => OneMenuOpen
  BY DEF MenuInv, SideInv, TopInv, OneMenuOpen
<1> QED
  BY <1>1, MenusInOrder, PTL

(* The marks of the hamburger and of the button .nav-fixed are true when the  *)
(* animations are over, however many clicks fell into them.                 *)
THEOREM MarksAreSafe == Spec => []MarksAreTrue
<1>1. MenuInv => MarksAreTrue
  BY DEF MenuInv, SideInv, TopInv, MarksAreTrue
<1> QED
  BY <1>1, MenusInOrder, PTL

-----------------------------------------------------------------------------
(* The active tabs are those that are remembered.                           *)
LEMMA TabsBegin ==
  ASSUME InitContent
  PROVE  TabInv
<1>1. page \in Pages /\ memory = Nothing /\ storage = Nothing /\ active = page.default
  BY DEF InitContent
<1>2. \A g \in Groups(page) : Nothing[g] = None
  BY <1>1, PagesAssumption DEF Nothing
<1>3. Remembered(page, memory) = [g \in Groups(page) |-> page.default[g]]
  BY <1>1, <1>2 DEF Remembered
<1>4. Remembered(page, memory) = active
  BY <1>1, <1>3, PagesAssumption
<1> QED
  BY <1>1, <1>4 DEF TabInv, Nothing

LEMMA TabsLoad ==
  ASSUME TabInv, NEW p \in Pages, LoadContent(p)
  PROVE  TabInv'
<1>1. page' = p /\ storage' = storage /\ memory' = Restored(p) /\ active' = Remembered(p, memory')
  BY DEF LoadContent
<1>2. storage' = [g \in 1..MaxGroups |-> storage'[g]]
  BY <1>1 DEF TabInv
<1>3. memory' = [g \in 1..MaxGroups |-> memory'[g]]
  <2>1. CASE p.stores
    BY <1>1, <1>2, <2>1 DEF Restored
  <2>2. CASE ~p.stores
    BY <1>1, <2>2 DEF Restored, Nothing
  <2> QED
    BY <2>1, <2>2
<1>4. p.stores => storage' = memory'
  BY <1>1 DEF Restored
<1>5. active' = Remembered(page', memory')
  BY <1>1
<1> QED
  BY <1>1, <1>2, <1>3, <1>4, <1>5 DEF TabInv

(* What setNodes makes active is what init would find in the memory.        *)
LEMMA TabsSelect ==
  ASSUME TabInv, NEW g \in Groups(page), NEW i \in 1..page.tabs[g], SelectTab(g, i)
  PROVE  TabInv'
<1> DEFINE mem == [memory EXCEPT ![g] = i]
<1>1. page' = page /\ active' = [active EXCEPT ![g] = i] /\ memory' = mem
      /\ storage' = IF page.stores THEN memory' ELSE storage
  BY DEF SelectTab
<1>2. g \in 1..MaxGroups /\ Groups(page) \subseteq 1..MaxGroups /\ i # None /\ i <= page.tabs[g]
  <2>1. page \in Pages
    BY DEF TabInv
  <2>2. Groups(page) \subseteq 1..MaxGroups /\ None \notin Nat
    BY <2>1, PagesAssumption
  <2>3. i \in Nat /\ i <= page.tabs[g]
    OBVIOUS
  <2> QED
    BY <2>2, <2>3
<1>3. mem = [h \in 1..MaxGroups |-> IF h = g THEN i ELSE memory[h]]
  BY <1>2 DEF TabInv
<1>4. Remembered(page, mem) = [h \in Groups(page) |-> IF h = g THEN i ELSE Remembered(page, memory)[h]]
  BY <1>2, <1>3 DEF Remembered
<1>5. active = Remembered(page, memory)
  BY DEF TabInv
<1>6. [active EXCEPT ![g] = i] = [h \in Groups(page) |-> IF h = g THEN i ELSE active[h]]
  BY <1>5 DEF Remembered
<1>7. active' = Remembered(page, mem)
  BY <1>1, <1>4, <1>5, <1>6
<1>8. active' = Remembered(page', memory')
  BY <1>1, <1>7
<1> HIDE DEF mem
<1>9. memory' = [h \in 1..MaxGroups |-> memory'[h]] /\ storage' = [h \in 1..MaxGroups |-> storage'[h]]
  BY <1>1, <1>3 DEF TabInv
<1> QED
  BY <1>1, <1>8, <1>9 DEF TabInv

(* Another window writes to the storage only.                               *)
LEMMA TabsElsewhere ==
  ASSUME TabInv, Elsewhere
  PROVE  TabInv'
<1>1. UNCHANGED <<page, active, memory>>
  BY OtherPageKeeps
<1>2. PICK p \in Pages : \E g \in Groups(p) : \E i \in 1..p.tabs[g] : OtherWindow(p, g, i)
  BY DEF Elsewhere
<1>3. foreign' = TRUE /\ \E g, i : storage' = [storage EXCEPT ![g] = i] \/ storage' = [Nothing EXCEPT ![g] = i]
  BY <1>2 DEF OtherWindow
<1>4. storage' = [g \in 1..MaxGroups |-> storage'[g]]
  BY <1>3 DEF TabInv, Nothing
<1>5. active' = Remembered(page', memory')
  BY <1>1 DEF TabInv, Remembered, Groups
<1> QED
  BY <1>1, <1>3, <1>4, <1>5 DEF TabInv

(* Every step of the page keeps the tabs. *)
LEMMA TabsStep ==
  ASSUME TabInv, [Next]_vars
  PROVE  TabInv'
<1>1. CASE \E p \in Pages : Load(p)
  BY <1>1, TabsLoad DEF Load
<1>2. CASE \E g \in Groups(page) : \E i \in 1..page.tabs[g] : ClickTab(g, i)
  BY <1>2, TabsSelect DEF ClickTab, Click
<1>3. ASSUME UNCHANGED <<page, active, memory, storage, foreign>>
      PROVE  TabInv'
  BY <1>3 DEF TabInv, Remembered, Groups
<1>4. CASE \E s \in Sections(page) : ClickShow(s) \/ ClickHide(s)
  BY <1>3, <1>4 DEF ClickShow, ClickHide, Click, ShowSection, HideSection, tabs
<1>5. CASE Library
  BY <1>3, <1>5 DEF Library, Ready, Resize, Scroll, tabs
<1>6. ASSUME UNCHANGED content
      PROVE  TabInv'
  BY <1>3, <1>6 DEF content, tabs
<1>7. CASE ClickMenu(Raised) \/ ClickMenu(Moved)
  BY <1>6, <1>7 DEF ClickMenu
<1>8. CASE \/ ClickMenu(InSide(Trigger)) \/ ClickMenu(InSide(Raise)) \/ ClickMenu(InSide(Widen)) \/ ClickMenu(InSide(User))
           \/ \E panel \in Panels : ClickMenu(InSide(Reveal(panel)))
           \/ \E link \in Parents : ClickMenu(InSide(Parent(link)))
           \/ ClickMenu(InTop(Hamburger))
           \/ \E h \in Headings : ClickMenu(InTop(Heading(h)))
           \/ \E s \in Sub : ClickMenu(InTop(Submenu(s)))
           \/ ClickMenu(InFloat(OpenPenal)) \/ ClickMenu(InFloat(ClosePenal))
  BY <1>6, <1>8 DEF ClickMenu
<1>9. CASE ClickBody \/ UNCHANGED vars
  BY <1>6, <1>9 DEF ClickBody, vars
<1>10. CASE Elsewhere
  BY <1>10, TabsElsewhere
<1> QED
  BY <1>1, <1>2, <1>4, <1>5, <1>7, <1>8, <1>9, <1>10 DEF Next

(* Between any two clicks the active tabs are the ones that a reload of the  *)
(* page would open.                                                          *)
THEOREM TabsAreRemembered == Spec => []TabInv
<1>1. Init => TabInv
  BY TabsBegin DEF Init
<1>2. TabInv /\ [Next]_vars => TabInv'
  BY TabsStep
<1> QED
  BY <1>1, <1>2, PTL DEF Spec

(* A reload opens the tabs that were open (setNodes writes what init reads,  *)
(* over whatever another window wrote).                                     *)
THEOREM ReloadIsSafe == Spec => ReloadKeepsTabs
<1>1. TabInv /\ [Next]_vars => [Load(page) /\ page.stores /\ ~foreign => active' = active]_vars
  BY DEF TabInv, Load, LoadContent, Restored
<1> QED
  BY <1>1, TabsAreRemembered, PTL DEF Spec, ReloadKeepsTabs

-----------------------------------------------------------------------------
(* A tab that opens takes the headers of the others with it. *)
LEMMA HeadersStep ==
  ASSUME NoStrayHeader, [Next]_vars
  PROVE  NoStrayHeader'
<1>1. CASE \E p \in Pages : Load(p)
  BY <1>1 DEF Load, LoadContent, NoStrayHeader
<1>2. CASE \E g \in Groups(page) : \E i \in 1..page.tabs[g] : ClickTab(g, i)
  <2>1. page' = page /\ floating' = floating \cap Visible(active', expanded')
    BY <1>2 DEF ClickTab, Click, SelectTab, FindObjectsToRedraw, FixedHeaders
  <2>2. \A o \in floating' : OnView(page, page.objects[o].tab, active')
    BY <2>1 DEF Visible, InActiveTab
  <2>3. \A o \in floating' : OnView(page', page'.objects[o].tab, active')
    BY <2>1, <2>2
  <2> QED
    BY <2>3 DEF NoStrayHeader, InActiveTab
<1>3. ASSUME UNCHANGED <<page, active, floating>>
      PROVE  NoStrayHeader'
  <2>1. \A o \in floating : OnView(page, page.objects[o].tab, active)
    BY DEF NoStrayHeader, InActiveTab
  <2>2. \A o \in floating' : OnView(page', page'.objects[o].tab, active')
    BY <1>3, <2>1
  <2> QED
    BY <2>2 DEF NoStrayHeader, InActiveTab
<1>4. CASE \E s \in Sections(page) : ClickShow(s) \/ ClickHide(s)
  BY <1>3, <1>4 DEF ClickShow, ClickHide, Click, ShowSection, HideSection, tabs, objects
<1>5. CASE Library
  <2>1. CASE \E o \in Objects(page) : Scroll(o)
    <3>1. PICK o \in Objects(page) : Scroll(o)
      BY <2>1
    <3>2. page' = page /\ active' = active /\ o \in Visible(active, expanded)
          /\ (floating' = floating \ {o} \/ floating' = floating \cup {o})
      BY <3>1 DEF Scroll, tabs
    <3>3. \A q \in floating \cup {o} : OnView(page, page.objects[q].tab, active)
      BY <3>2 DEF Visible, NoStrayHeader, InActiveTab
    <3>4. \A q \in floating' : OnView(page', page'.objects[q].tab, active')
      BY <3>2, <3>3
    <3> QED
      BY <3>4 DEF NoStrayHeader, InActiveTab
  <2> QED
    BY <1>3, <1>5, <2>1 DEF Library, Ready, Resize, tabs
<1>6. ASSUME UNCHANGED content
      PROVE  NoStrayHeader'
  BY <1>3, <1>6 DEF content, tabs, objects
<1>7. CASE \/ ClickMenu(InSide(Trigger)) \/ ClickMenu(InSide(Raise)) \/ ClickMenu(InSide(Widen)) \/ ClickMenu(InSide(User))
           \/ \E panel \in Panels : ClickMenu(InSide(Reveal(panel)))
           \/ \E link \in Parents : ClickMenu(InSide(Parent(link)))
           \/ ClickMenu(InTop(Hamburger))
           \/ \E h \in Headings : ClickMenu(InTop(Heading(h)))
           \/ \E s \in Sub : ClickMenu(InTop(Submenu(s)))
           \/ ClickMenu(InFloat(OpenPenal)) \/ ClickMenu(InFloat(ClosePenal))
           \/ ClickMenu(Raised) \/ ClickMenu(Moved)
  BY <1>6, <1>7 DEF ClickMenu
<1>8. CASE ClickBody \/ UNCHANGED vars
  BY <1>6, <1>8 DEF ClickBody, vars
<1>9. CASE Elsewhere
  BY <1>3, <1>9, OtherPageKeeps
<1> QED
  BY <1>1, <1>2, <1>4, <1>5, <1>7, <1>8, <1>9 DEF Next

(* No fixed header of a table in another tab floats over the page             *)
(* (redrawFixedHeaderFooter).                                               *)
THEOREM HeadersAreSafe == Spec => []NoStrayHeader
<1>1. Init => NoStrayHeader
  BY DEF Init, InitContent, NoStrayHeader
<1>2. NoStrayHeader /\ [Next]_vars => NoStrayHeader'
  BY HeadersStep
<1> QED
  BY <1>1, <1>2, PTL DEF Spec
-----------------------------------------------------------------------------
(* What comes into view with a tab is inside it. *)
LEMMA OpenedInside ==
  ASSUME page \in Pages, active = Remembered(page, memory),
         NEW g \in Groups(page), NEW i, NEW o \in Objects(page), NEW exp,
         o \in Visible([active EXCEPT ![g] = i], exp), o \notin Visible(active, exp)
  PROVE  Inside(page, page.objects[o].tab, <<g, i>>)
<1> DEFINE tab == page.objects[o].tab
           after == [active EXCEPT ![g] = i]
           all == {tab} \cup Around(page, tab[1])
<1>1. page.objects[o].sections \subseteq exp
  BY DEF Visible
<1>2. tab # None /\ (\A t \in all : after[t[1]] = t[2]) /\ \E t \in all : active[t[1]] # t[2]
  BY <1>1 DEF Visible, InActiveTab, OnView
<1>3. PICK t \in all : active[t[1]] # t[2]
  BY <1>2
<1>4. t[1] \in Groups(page) /\ after[t[1]] = t[2]
  BY <1>2, NestingAssumption
<1>5. DOMAIN active = Groups(page)
  BY DEF Remembered
<1>6. t[1] = g /\ t[2] = i
  BY <1>3, <1>4, <1>5
<1> QED
  BY <1>2, <1>6 DEF Inside

(* What is redrawn fits if it is on view and nothing of its kind is broken.   *)
LEMMA RefitFits ==
  ASSUME page \in Pages, page' = page, ready, NEW S, S \subseteq Objects(page), NEW kinds, Refit(S, kinds),
         NEW o \in Objects(page), o \in Visible(active', expanded'),
         \/ o \in S /\ page.objects[o].kind \in kinds
         \/ o \in fitted
  PROVE  o \in fitted' \/ \E b \in Objects(page) : page.objects[b].kind = page.objects[o].kind /\ page.objects[b].broken
<1> DEFINE redrawn == UNION {Reached(kind, S) : kind \in kinds}
<1>1. fitted' = (fitted \ redrawn) \cup (redrawn \cap Visible(active', expanded'))
  BY DEF Refit
<1>2. o \in S /\ page.objects[o].kind \in kinds =>
        \/ o \in Reached(page.objects[o].kind, S)
        \/ \E b \in Objects(page) : page.objects[b].kind = page.objects[o].kind /\ page.objects[b].broken
  BY DEF Reached
<1> QED
  BY <1>1, <1>2

FitInv == TabInv /\ VisibleFits

LEMMA FitsSelect ==
  ASSUME FitInv, NEW g \in Groups(page), NEW i \in 1..page.tabs[g], SelectTab(g, i)
  PROVE  VisibleFits'
<1> DEFINE S == {o \in Objects(page) : Inside(page, page.objects[o].tab, <<g, i>>)}
<1>1. page' = page /\ ready' = ready /\ expanded' = expanded /\ active' = [active EXCEPT ![g] = i]
      /\ Refit(S, Kinds)
  BY DEF SelectTab, FindObjectsToRedraw
<1>2. page \in Pages /\ active = Remembered(page, memory)
  BY DEF FitInv, TabInv
<1>3. SUFFICES ASSUME ready, NEW o \in Objects(page), o \in Visible(active', expanded'),
                      ~\E b \in Objects(page) : page.objects[b].kind = page.objects[o].kind /\ page.objects[b].broken,
                      ~(page.objects[o].kind = "diagram" /\ page.objects[o].sections # {})
               PROVE  o \in fitted'
  BY <1>1 DEF VisibleFits, Visible, InActiveTab, Objects
<1>4. o \in S \/ o \in fitted
  BY <1>1, <1>2, <1>3, OpenedInside DEF FitInv, VisibleFits
<1>5. page.objects[o].kind \in Kinds
  BY <1>2, PagesAssumption
<1>6. S \subseteq Objects(page)
  OBVIOUS
<1> HIDE DEF S
<1>7. \/ o \in fitted'
      \/ \E b \in Objects(page) : page.objects[b].kind = page.objects[o].kind /\ page.objects[b].broken
  BY <1>1, <1>2, <1>3, <1>4, <1>5, <1>6, RefitFits, ZenonT(60)
<1> QED
  BY <1>3, <1>7

LEMMA FitsShow ==
  ASSUME FitInv, NEW s, ShowSection(s)
  PROVE  VisibleFits'
<1> DEFINE S == {o \in Objects(page) : s \in page.objects[o].sections}
<1>1. page' = page /\ ready' = ready /\ expanded' = expanded \cup {s} /\ active' = active
      /\ Refit(S, {"table", "calendar"})
  BY DEF ShowSection
<1>2. page \in Pages
  BY DEF FitInv, TabInv
<1>3. SUFFICES ASSUME ready, NEW o \in Objects(page), o \in Visible(active', expanded'),
                      ~\E b \in Objects(page) : page.objects[b].kind = page.objects[o].kind /\ page.objects[b].broken,
                      ~(page.objects[o].kind = "diagram" /\ page.objects[o].sections # {})
               PROVE  o \in fitted'
  BY <1>1 DEF VisibleFits, Visible, InActiveTab, Objects
<1>4. ASSUME s \in page.objects[o].sections
      PROVE  o \in S /\ page.objects[o].kind \in {"table", "calendar"}
  BY <1>2, <1>3, <1>4, PagesAssumption DEF Kinds
<1>5. ASSUME s \notin page.objects[o].sections
      PROVE  o \in fitted
  <2>1. o \in Visible(active, expanded)
    BY <1>1, <1>3, <1>5 DEF Visible
  <2> QED
    BY <1>3, <2>1 DEF FitInv, VisibleFits
<1>6. (o \in S /\ page.objects[o].kind \in {"table", "calendar"}) \/ o \in fitted
  BY <1>4, <1>5
<1>7. S \subseteq Objects(page)
  OBVIOUS
<1> HIDE DEF S
<1>8. \/ o \in fitted'
      \/ \E b \in Objects(page) : page.objects[b].kind = page.objects[o].kind /\ page.objects[b].broken
  BY <1>1, <1>2, <1>3, <1>6, <1>7, RefitFits
<1> QED
  BY <1>3, <1>8

(* Steps that change no tab and no section, and those that fit everything.  *)
LEMMA FitsSame ==
  ASSUME VisibleFits, page' = page, active' = active, expanded' \subseteq expanded,
         UNCHANGED <<ready, fitted>> \/ fitted' = Visible(active', expanded')
  PROVE  VisibleFits'
<1>1. \A o \in Objects(page) : o \in Visible(active', expanded') => o \in Visible(active, expanded)
  BY DEF Visible
<1> QED
  BY <1>1 DEF VisibleFits, Visible, InActiveTab, Objects

LEMMA FitsStep ==
  ASSUME FitInv, [Next]_vars
  PROVE  VisibleFits'
<1>1. CASE \E p \in Pages : Load(p)
  BY <1>1 DEF Load, LoadContent, VisibleFits
<1>2. CASE \E g \in Groups(page) : \E i \in 1..page.tabs[g] : ClickTab(g, i)
  BY <1>2, FitsSelect DEF ClickTab, Click
<1>3. CASE \E s \in Sections(page) : ClickShow(s)
  BY <1>3, FitsShow DEF ClickShow, Click
<1>4. CASE \E s \in Sections(page) : ClickHide(s)
  BY <1>4, FitsSame DEF ClickHide, Click, HideSection, FitInv, tabs, objects
<1>5. CASE Library
  BY <1>5, FitsSame DEF Library, Ready, Resize, Scroll, FitInv, tabs
<1>6. ASSUME UNCHANGED content
      PROVE  VisibleFits'
  BY <1>6, FitsSame DEF content, tabs, objects, FitInv
<1>7. CASE \/ ClickMenu(InSide(Trigger)) \/ ClickMenu(InSide(Raise)) \/ ClickMenu(InSide(Widen)) \/ ClickMenu(InSide(User))
           \/ \E panel \in Panels : ClickMenu(InSide(Reveal(panel)))
           \/ \E link \in Parents : ClickMenu(InSide(Parent(link)))
           \/ ClickMenu(InTop(Hamburger))
           \/ \E h \in Headings : ClickMenu(InTop(Heading(h)))
           \/ \E s \in Sub : ClickMenu(InTop(Submenu(s)))
           \/ ClickMenu(InFloat(OpenPenal)) \/ ClickMenu(InFloat(ClosePenal))
           \/ ClickMenu(Raised) \/ ClickMenu(Moved)
  BY <1>6, <1>7 DEF ClickMenu
<1>8. CASE ClickBody \/ UNCHANGED vars
  BY <1>6, <1>8 DEF ClickBody, vars
<1>9. CASE Elsewhere
  BY <1>9, OtherPageKeeps, FitsSame DEF FitInv
<1> QED
  BY <1>1, <1>2, <1>3, <1>4, <1>5, <1>7, <1>8, <1>9 DEF Next

(* What is on view fits (findObjectsToRedraw looks at all that a tab brings   *)
(* into view, and show() at all that a section does).                       *)
THEOREM VisibleIsFitted == Spec => []VisibleFits
<1>1. Init => FitInv
  BY TabsBegin DEF Init, FitInv, InitContent, VisibleFits
<1>2. FitInv /\ [Next]_vars => FitInv'
  BY FitsStep, TabsStep DEF FitInv
<1>3. FitInv => VisibleFits
  BY DEF FitInv
<1> QED
  BY <1>1, <1>2, <1>3, PTL DEF Spec

-----------------------------------------------------------------------------
(* Submenus are open along one path (.parent closes those that are not).      *)
THEOREM SubmenusAreSafe == Spec => []SubmenusAreAPath
<1> DEFINE Inv == subs \subseteq Sub /\ SubmenusAreAPath
<1>1. Init => Inv
  BY DEF Init, InitMenus, SubmenusAreAPath
<1>2. ASSUME Inv, NEW s \in Sub, Submenu(s)
      PROVE  Inv'
  <2>1. Ancestors(s) \subseteq subs /\ subs' = ({s} \ subs) \cup (subs \cap Ancestors(s))
    BY <1>2 DEF Submenu
  <2>2. subs' \subseteq {s} \cup Ancestors(s) /\ Ancestors(s) \subseteq subs'
    BY <2>1
  <2>3. subs' \subseteq Sub
    BY <2>2, SubmenusAssumption
  <2>4. \A t \in subs' : Ancestors(t) \subseteq subs'
    BY <2>2, SubmenusAssumption
  <2>5. \A t, u \in subs' : t = u \/ t \in Ancestors(u) \/ u \in Ancestors(t)
    BY <2>2, SubmenusAssumption
  <2> QED
    BY <2>3, <2>4, <2>5 DEF SubmenusAreAPath
<1>3. ASSUME Inv, subs' = subs \/ subs' = {}
      PROVE  Inv'
  BY <1>3 DEF SubmenusAreAPath
<1>4. ASSUME [Next]_vars
      PROVE  subs' = subs \/ subs' = {} \/ \E s \in Sub : Submenu(s)
  BY <1>4 DEF Next, vars, menuVars, top, Load, LoadMenus, ClickTab, ClickShow, ClickHide, Click, ClickBody, Outside,
              OutsideTop, Library, Elsewhere, ClickMenu, InSide, InTop, InFloat, Hamburger, Heading, Raised, Moved
<1>5. Inv /\ [Next]_vars => Inv'
  BY <1>2, <1>3, <1>4
<1> QED
  BY <1>1, <1>5, PTL DEF Spec

(* What is on view fits its frame, and no header of what is not floats over  *)
(* the page, for every site.                                                 *)
THEOREM ContentIsFitted == Spec => []ContentFits
<1>1. VisibleFits /\ NoStrayHeader => ContentFits
  BY DEF ContentFits
<1> QED BY <1>1, VisibleIsFitted, HeadersAreSafe, PTL

(* Whatever the options and the waiting animations, a fixed menu stays       *)
(* beside the page, and the page is dimmed under the others.                 *)
THEOREM MenusAreOverPage == Spec => []MenusOverPage
<1>1. FixedMenuStays /\ DimFollowsMenu => MenusOverPage
  BY DEF MenusOverPage
<1> QED BY <1>1, FixedMenuIsSafe, DimIsSafe, PTL

(* Of all the menus and panels, one is open; of all the submenus, one path.  *)
THEOREM MenusAreExclusive == Spec => []MenusExclude
<1>1. OneMenuOpen /\ SubmenusAreAPath => MenusExclude
  BY DEF MenusExclude
<1> QED BY <1>1, OneMenuIsSafe, SubmenusAreSafe, PTL

-----------------------------------------------------------------------------
(* The type: what each handler leaves in the variables it sets.             *)
SideType ==
  /\ downed \subseteq Parents /\ revealed \subseteq Panels
  /\ width \in {"menuWidth", "menuWidthExtended"}
  /\ IF Setting(nav).resizeContent THEN margin \in {width, "menuWidth", "none"} ELSE margin = "none"

TopType ==
  /\ burger \in BOOLEAN /\ drawer \in BOOLEAN /\ topDim \in BOOLEAN
  /\ Len(moves) <= MaxMoves
  /\ marked \subseteq Headings /\ menus \subseteq Headings /\ subs \subseteq Sub

MenusType == SideType /\ TopType /\ unfolded \subseteq Parents /\ penal \in BOOLEAN

LEMMA SideTypeSteps ==
  ASSUME SideType, nav' = nav,
         \/ Trigger \/ Raise \/ Widen \/ User \/ OutsideSide
         \/ \E panel \in Panels : Reveal(panel)
         \/ \E link \in Parents : Parent(link)
         \/ UNCHANGED <<downed, revealed, width, margin>>
  PROVE  SideType'
BY DEF SideType, Trigger, Raise, Widen, User, OutsideSide, Reveal, Parent

LEMMA TopTypeSteps ==
  ASSUME TopType, TopInv,
         \/ Hamburger \/ OutsideTop
         \/ \E h \in Headings : Heading(h)
         \/ \E s \in Sub : Submenu(s)
         \/ UNCHANGED top
  PROVE  TopType'
<1>1. \A move : Len(moves) < MaxMoves => Len(Append(moves, move)) <= MaxMoves
  BY MenusAssumption DEF TopInv
<1>2. CASE Hamburger
  BY <1>1, <1>2 DEF TopType, Hamburger
<1>3. CASE OutsideTop
  BY <1>1, <1>3 DEF TopType, OutsideTop
<1>4. CASE \E h \in Headings : Heading(h)
  BY <1>4 DEF TopType, Heading
<1>5. ASSUME NEW s \in Sub, Submenu(s)
      PROVE  TopType'
  <2>1. Ancestors(s) \subseteq Sub
    BY SubmenusAssumption
  <2> QED
    BY <1>5, <2>1 DEF TopType, Submenu
<1>6. CASE UNCHANGED top
  BY <1>6 DEF TopType, top
<1> QED
  BY <1>2, <1>3, <1>4, <1>5, <1>6

LEMMA MenusTypeBegin ==
  ASSUME NEW n \in Navs, InitMenus(n)
  PROVE  MenusType
<1>1. SideType
  BY DEF InitMenus, SideType, MarginFirst
<1>2. Len(moves) <= MaxMoves
  <2>1. MaxMoves \in Nat
    BY MenusAssumption
  <2>2. moves = <<>>
    BY DEF InitMenus
  <2>3. Len(<<>>) = 0
    OBVIOUS
  <2> QED
    BY <2>1, <2>2, <2>3
<1>3. TopType
  BY <1>2 DEF InitMenus, TopType
<1> QED
  BY <1>1, <1>3 DEF InitMenus, MenusType

LEMMA MenusTypeLoad ==
  ASSUME NEW n \in Navs, LoadMenus(n)
  PROVE  MenusType'
<1>1. SideType'
  BY DEF LoadMenus, SideType, MarginFirst
<1>2. Len(moves') <= MaxMoves
  <2>1. MaxMoves \in Nat
    BY MenusAssumption
  <2>2. moves' = <<>>
    BY DEF LoadMenus
  <2>3. Len(<<>>) = 0
    OBVIOUS
  <2> QED
    BY <2>1, <2>2, <2>3
<1>3. TopType'
  BY <1>2 DEF LoadMenus, TopType
<1> QED
  BY <1>1, <1>3 DEF LoadMenus, MenusType

LEMMA ClicksType ==
  ASSUME MenuInv, MenusType, nav' = nav,
         /\ \/ Trigger \/ Raise \/ Widen \/ User \/ OutsideSide
            \/ \E panel \in Panels : Reveal(panel)
            \/ \E link \in Parents : Parent(link)
         /\ \/ Hamburger \/ OutsideTop
            \/ \E h \in Headings : Heading(h)
            \/ \E s \in Sub : Submenu(s)
         /\ UNCHANGED float \/ OpenPenal \/ ClosePenal
         /\ unfolded' \subseteq Parents
  PROVE  MenusType'
<1>1. SideType'
  BY SideTypeSteps DEF MenusType
<1>2. TopType'
  BY TopTypeSteps DEF MenusType, MenuInv
<1>3. penal' \in BOOLEAN
  BY DEF MenusType, OpenPenal, ClosePenal, float
<1> QED
  BY <1>1, <1>2, <1>3 DEF MenusType

LEMMA MenusTypeStep ==
  ASSUME MenuInv, MenusType, [Next]_vars
  PROVE  MenusType'
<1>1. CASE \E p \in Pages : Load(p)
  BY <1>1, MenusTypeLoad, NavsAssumption DEF Load
<1>2. CASE \/ \E g \in Groups(page) : \E i \in 1..page.tabs[g] : ClickTab(g, i)
           \/ \E s \in Sections(page) : ClickShow(s) \/ ClickHide(s)
           \/ ClickBody
  <2>1. Outside
    BY <1>2 DEF ClickTab, ClickShow, ClickHide, Click, ClickBody
  <2> QED
    BY <2>1, ClicksType DEF Outside, MenusType
<1>3. CASE ClickMenu(InSide(Trigger)) \/ ClickMenu(InSide(Raise)) \/ ClickMenu(InSide(Widen)) \/ ClickMenu(InSide(User))
  <2>1. unfolded' = unfolded
    BY <1>3 DEF ClickMenu, InSide, Trigger, Raise, Widen, User
  <2> QED
    BY <1>3, <2>1, ClicksType DEF ClickMenu, InSide, MenusType
<1>4. CASE \E panel \in Panels : ClickMenu(InSide(Reveal(panel)))
  <2>1. unfolded' = unfolded
    BY <1>4 DEF ClickMenu, InSide, Reveal
  <2> QED
    BY <1>4, <2>1, ClicksType DEF ClickMenu, InSide, MenusType
<1>5. CASE \E link \in Parents : ClickMenu(InSide(Parent(link)))
  <2>1. unfolded' \subseteq Parents
    BY <1>5 DEF ClickMenu, InSide, Parent, MenusType
  <2> QED
    BY <1>5, <2>1, ClicksType DEF ClickMenu, InSide
<1>6. CASE \/ ClickMenu(InTop(Hamburger))
           \/ \E h \in Headings : ClickMenu(InTop(Heading(h)))
           \/ \E s \in Sub : ClickMenu(InTop(Submenu(s)))
  <2>1. unfolded' = unfolded \/ unfolded' = {}
    BY <1>6 DEF ClickMenu, InTop, Hamburger, Heading, Submenu
  <2> QED
    BY <1>6, <2>1, ClicksType DEF ClickMenu, InTop, MenusType
<1>7. CASE ClickMenu(InFloat(OpenPenal)) \/ ClickMenu(InFloat(ClosePenal))
  BY <1>7, ClicksType DEF ClickMenu, InFloat, MenusType
<1>8. CASE ClickMenu(Raised)
  <2>1. nav' = nav /\ UNCHANGED <<downed, revealed, width, margin, unfolded>> /\ UNCHANGED top /\ UNCHANGED float
    BY <1>8 DEF ClickMenu, Raised
  <2> QED
    BY <2>1, SideTypeSteps, TopTypeSteps DEF MenusType, MenuInv, float
<1>9. CASE ClickMenu(Moved)
  <2>1. nav' = nav /\ UNCHANGED side /\ UNCHANGED float /\ UNCHANGED <<marked, menus, subs, topDim>>
    BY <1>9 DEF ClickMenu, Moved
  <2>2. Len(moves') <= MaxMoves
    <3>1. moves \in Seq({"open", "close"}) /\ moves # <<>> /\ moves' = Tail(moves) /\ Len(moves) <= MaxMoves
      BY <1>9 DEF ClickMenu, Moved, MenuInv, TopInv, MenusType, TopType
    <3>2. Len(Tail(moves)) = Len(moves) - 1 /\ Len(moves) \in Nat
      BY <3>1
    <3> QED
      BY <3>1, <3>2, MenusAssumption
  <2>3. burger' \in BOOLEAN /\ drawer' \in BOOLEAN
    BY <1>9 DEF ClickMenu, Moved
  <2>4. TopType'
    BY <2>1, <2>2, <2>3 DEF MenusType, TopType
  <2> QED
    BY <2>1, <2>4, SideTypeSteps DEF MenusType, side, float
<1>10. CASE Library \/ Elsewhere \/ UNCHANGED vars
  <2>1. UNCHANGED menuVars
    BY <1>10 DEF Library, Elsewhere, vars
  <2>2. nav' = nav /\ UNCHANGED side /\ UNCHANGED top /\ UNCHANGED float
    BY <2>1 DEF menuVars
  <2> QED
    BY <2>2, SideTypeSteps, TopTypeSteps DEF MenusType, MenuInv, side, float
<1> QED
  BY <1>1, <1>2, <1>3, <1>4, <1>5, <1>6, <1>7, <1>8, <1>9, <1>10 DEF Next

(* The contents: what is remembered is the number of a tab. *)
Number == {None} \cup (Nat \ {0})
MemoryType == \A g \in 1..MaxGroups : memory[g] \in Number /\ storage[g] \in Number

ObjectsType ==
  /\ expanded \subseteq Sections(page)
  /\ fitted \cup floating \subseteq Objects(page)
  /\ ~ready => fitted = {} /\ floating = {}

LEMMA RememberedType ==
  ASSUME TabInv, MemoryType
  PROVE  \A g \in Groups(page) : active[g] \in {None} \cup 1..page.tabs[g]
<1> SUFFICES ASSUME NEW g \in Groups(page)
             PROVE  active[g] \in {None} \cup 1..page.tabs[g]
  OBVIOUS
<1>1. /\ g \in 1..MaxGroups /\ page.tabs[g] \in Nat
      /\ page.default[g] \in {None} \cup 1..page.tabs[g]
  BY PagesAssumption DEF TabInv
<1>2. active[g] = IF memory[g] # None /\ memory[g] <= page.tabs[g] THEN memory[g] ELSE page.default[g]
  BY DEF TabInv, Remembered
<1>3. memory[g] = None \/ memory[g] \in Nat \ {0}
  BY <1>1 DEF MemoryType, Number
<1> QED
  BY <1>1, <1>2, <1>3

LEMMA MemoryTypeStep ==
  ASSUME TabInv, MemoryType, [Next]_vars
  PROVE  MemoryType'
<1>1. ASSUME NEW p \in Pages, Load(p)
      PROVE  MemoryType'
  BY <1>1 DEF Load, LoadContent, Restored, Nothing, MemoryType, Number
<1>2. ASSUME NEW g \in Groups(page), NEW i \in 1..page.tabs[g], ClickTab(g, i)
      PROVE  MemoryType'
  <2>1. i \in Number
    <3>1. page.tabs[g] \in Nat
      BY PagesAssumption DEF TabInv
    <3> QED
      BY <3>1 DEF Number
  <2>2. /\ memory' = [memory EXCEPT ![g] = i]
        /\ storage' = memory' \/ storage' = storage
    BY <1>2 DEF ClickTab, Click, SelectTab
  <2>3. \A h \in 1..MaxGroups : memory'[h] \in Number
    BY <2>1, <2>2 DEF TabInv, MemoryType
  <2> QED
    BY <2>2, <2>3 DEF MemoryType
<1>3. CASE UNCHANGED <<memory, storage>>
  BY <1>3 DEF MemoryType
<1>5. ASSUME NEW p \in Pages, NEW g \in Groups(p), NEW i \in 1..p.tabs[g], OtherWindow(p, g, i)
      PROVE  MemoryType'
  <2>1. i \in Number /\ g \in 1..MaxGroups
    <3>1. p.tabs[g] \in Nat /\ Groups(p) \subseteq 1..MaxGroups
      BY PagesAssumption
    <3> QED
      BY <3>1 DEF Number
  <2>2. memory' = memory
    BY <1>5 DEF OtherWindow
  <2>3. storage' = [storage EXCEPT ![g] = i] \/ storage' = [Nothing EXCEPT ![g] = i]
    BY <1>5 DEF OtherWindow
  <2>4. \A h \in 1..MaxGroups : storage'[h] \in Number
    BY <2>1, <2>3 DEF TabInv, MemoryType, Nothing, Number
  <2> QED
    BY <2>2, <2>4 DEF MemoryType
<1>4. \/ \E p \in Pages : Load(p)
      \/ \E g \in Groups(page) : \E i \in 1..page.tabs[g] : ClickTab(g, i)
      \/ \E p \in Pages : \E g \in Groups(p) : \E i \in 1..p.tabs[g] : OtherWindow(p, g, i)
      \/ UNCHANGED <<memory, storage>>
  BY DEF Next, vars, content, tabs, ClickShow, ClickHide, Click, ShowSection, HideSection, ClickBody, Library,
         Ready, Resize, Scroll, ClickMenu, Elsewhere
<1> QED
  BY <1>1, <1>2, <1>3, <1>4, <1>5

LEMMA RefitType ==
  ASSUME NEW S, S \subseteq Objects(page), NEW kinds, Refit(S, kinds), ObjectsType, page' = page
  PROVE  fitted' \subseteq Objects(page') /\ (~ready => fitted' = {})
<1> DEFINE redrawn == UNION {Reached(kind, S) : kind \in kinds}
<1>1. fitted' = (fitted \ redrawn) \cup (redrawn \cap Visible(active', expanded'))
  BY DEF Refit
<1>2. \A kind \in kinds : Reached(kind, S) \subseteq S /\ (~ready => Reached(kind, S) = {})
  BY DEF Reached
<1>3. redrawn \subseteq S /\ (~ready => redrawn = {})
  BY <1>2
<1> HIDE DEF redrawn
<1>4. Objects(page') = Objects(page)
  OBVIOUS
<1> QED
  BY <1>1, <1>3, <1>4 DEF ObjectsType

LEMMA ObjectsTypeStep ==
  ASSUME TabInv, ObjectsType, [Next]_vars
  PROVE  ObjectsType'
<1>1. ASSUME NEW p \in Pages, Load(p)
      PROVE  ObjectsType'
  BY <1>1, PagesAssumption DEF Load, LoadContent, ObjectsType
<1>2. ASSUME NEW g \in Groups(page), NEW i \in 1..page.tabs[g], ClickTab(g, i)
      PROVE  ObjectsType'
  <2> DEFINE S == {o \in Objects(page) : Inside(page, page.objects[o].tab, <<g, i>>)}
  <2>1. page' = page /\ expanded' = expanded /\ ready' = ready /\ Refit(S, Kinds) /\ FixedHeaders(S)
    BY <1>2 DEF ClickTab, Click, SelectTab, FindObjectsToRedraw
  <2>2. fitted' \subseteq Objects(page') /\ (~ready => fitted' = {})
    BY <2>1, RefitType
  <2>3. floating' \subseteq floating
    BY <2>1 DEF FixedHeaders
  <2>4. Objects(page') = Objects(page) /\ Sections(page') = Sections(page)
    BY <2>1
  <2> QED
    BY <2>1, <2>2, <2>3, <2>4 DEF ObjectsType
<1>3. ASSUME NEW s \in Sections(page), ClickShow(s)
      PROVE  ObjectsType'
  <2> DEFINE S == {o \in Objects(page) : s \in page.objects[o].sections}
  <2>1. /\ page' = page /\ expanded' = expanded \cup {s} /\ ready' = ready /\ floating' = floating
        /\ Refit(S, {"table", "calendar"})
    BY <1>3 DEF ClickShow, Click, ShowSection
  <2>2. fitted' \subseteq Objects(page') /\ (~ready => fitted' = {})
    BY <2>1, RefitType
  <2>3. Objects(page') = Objects(page) /\ Sections(page') = Sections(page)
    BY <2>1
  <2> QED
    BY <2>1, <2>2, <2>3 DEF ObjectsType
<1>4. ASSUME NEW s \in Sections(page), ClickHide(s)
      PROVE  ObjectsType'
  <2>1. page' = page /\ expanded' \subseteq expanded /\ UNCHANGED <<ready, fitted, floating>>
    BY <1>4 DEF ClickHide, Click, HideSection, objects
  <2>2. Objects(page') = Objects(page) /\ Sections(page') = Sections(page)
    BY <2>1
  <2> QED
    BY <2>1, <2>2 DEF ObjectsType
<1>5. CASE Library
  <2>1. page' = page /\ expanded' = expanded /\ ready' = TRUE
    BY <1>5 DEF Library, Ready, Resize, Scroll
  <2>2. Visible(active, expanded) \subseteq Objects(page)
    BY DEF Visible
  <2>3. fitted' \subseteq Objects(page) /\ floating' \subseteq Objects(page)
    BY <1>5, <2>2 DEF Library, Ready, Resize, Scroll, ObjectsType
  <2>4. Objects(page') = Objects(page) /\ Sections(page') = Sections(page)
    BY <2>1
  <2> QED
    BY <2>1, <2>3, <2>4 DEF ObjectsType
<1>6. CASE Elsewhere \/ UNCHANGED content
  <2>1. page' = page /\ UNCHANGED <<expanded, ready, fitted, floating>>
    BY <1>6, OtherPageKeeps DEF content, objects
  <2>2. Objects(page') = Objects(page) /\ Sections(page') = Sections(page)
    BY <2>1
  <2> QED
    BY <2>1, <2>2 DEF ObjectsType
<1>7. \/ \E p \in Pages : Load(p)
      \/ \E g \in Groups(page) : \E i \in 1..page.tabs[g] : ClickTab(g, i)
      \/ \E s \in Sections(page) : ClickShow(s) \/ ClickHide(s)
      \/ Library \/ Elsewhere \/ UNCHANGED content
  BY DEF Next, vars, ClickBody, ClickMenu
<1> QED
  BY <1>1, <1>2, <1>3, <1>4, <1>5, <1>6, <1>7

(* The page that is open is the one whose menus are set up. *)
LEMMA NavStep ==
  ASSUME nav = page.nav, [Next]_vars
  PROVE  nav' = page'.nav
<1>1. (\E p \in Pages : Load(p)) \/ (nav' = nav /\ page' = page)
  BY DEF Next, vars, menuVars, content, ClickTab, SelectTab, ClickShow, ShowSection, ClickHide, HideSection, Click,
         Outside, ClickBody, Library, Elsewhere, OtherWindow, Ready, Resize, Scroll, ClickMenu, InSide, InTop, InFloat, Raised, Moved
<1> QED
  BY <1>1 DEF Load, LoadContent, LoadMenus

(* Whatever is clicked, remembered and animated, every variable keeps its    *)
(* type: no tab is selected that the page has not, no list of animations is  *)
(* longer than the bound.                                                     *)
THEOREM TypeCorrect == Spec => []TypeOK
<1> DEFINE Inv == /\ MenuInv /\ MenusType /\ TabInv /\ MemoryType /\ ObjectsType
                  /\ nav = page.nav
<1>1. Init => Inv
  <2> SUFFICES ASSUME Init PROVE Inv
    OBVIOUS
  <2>1. page \in Pages /\ page.nav \in Navs /\ nav = page.nav
    BY NavsAssumption DEF Init, InitContent, InitMenus
  <2>2. MenuInv /\ MenusType
    BY <2>1, MenusBegin, MenusTypeBegin DEF Init
  <2>3. TabInv
    BY TabsBegin DEF Init
  <2>4. MemoryType /\ ObjectsType
    BY PagesAssumption DEF Init, InitContent, Nothing, MemoryType, Number, ObjectsType
  <2> QED
    BY <2>1, <2>2, <2>3, <2>4
<1>2. Inv /\ [Next]_vars => Inv'
  BY MenusStep, MenusTypeStep, TabsStep, MemoryTypeStep, ObjectsTypeStep, NavStep
<1>3. Inv => TypeOK
  <2> SUFFICES ASSUME Inv PROVE TypeOK
    OBVIOUS
  <2>1. ContentTypeOK
    BY RememberedType DEF ContentTypeOK, TabInv, ObjectsType
  <2>2. MenusTypeOK
    BY DEF MenusTypeOK, MenuInv, SideInv, TopInv, MenusType, SideType, TopType
  <2> QED
    BY <2>1, <2>2 DEF TypeOK
<1> QED
  BY <1>1, <1>2, <1>3, PTL DEF Spec
=============================================================================
