------------------------------ MODULE PageMenus ------------------------------
(* The menus of a page: the bar with a side menu of jquery.hsmenu.js, the    *)
(* drop-down menus of jquery.hsmenu-dropdown.js, which become a drawer on a  *)
(* small screen, and the floating panel of jquery.hsmenu-sidepenal.js.       *)
(* Effects of jQuery on one element wait for each other, so that what a      *)
(* click starts is taken for done, except where the code itself acts when    *)
(* they end.  Left out is what only decorates (ripples, list animations).    *)
EXTENDS Integers, Sequences, FiniteSets

CONSTANTS
  Navs,      \* the navigation that pages have, each a record with
             \*   kinds: which of the menus, a subset of {"side", "top", "float"},
             \*   options: of hsMenu, small: is it a small screen?
  Panels,    \* what the buttons of the bar reveal, as far as pages have it
  Parents,   \* the links of the side menu that have children
  Headings,  \* the headings of the top menu
  Subs,      \* its submenus: [heading, within], within another submenu or None
  Sub,       \*   their names
  NoMenu,
  MaxMoves   \* bound: animations that wait

Options == {"bgFading", "outClickToClose", "navControls", "fixedMenu", "disableHamburger", "startMenuOpen", "resizeContent"}
ASSUME MenusAssumption ==
  /\ MaxMoves \in Nat
  /\ \A n \in Navs : n.kinds \subseteq {"side", "top", "float"} /\ n.small \in BOOLEAN
                     /\ n.options \in [Options -> BOOLEAN]

VARIABLES
  nav,       \* the navigation of the page
  open, dim,             \* side menu: it is open, the page behind it is dimmed
  revealed,              \*   the panels that are revealed
  downed, unfolded,      \*   the parents marked as open, and those whose children show
  high, less, raising,   \*   it reaches to the top, its button says so, animations that run
  width, margin,         \*   its width, and the space the page leaves for it
  marked, menus, subs,   \* top menu: headings marked, menus and submenus on view
  burger, drawer, moves, \*   the hamburger is marked, the drawer is out, animations that run
  topDim,                \*   the page behind it is dimmed
  penal, penalDim        \* the floating panel, and the dimmed page behind it
side == <<open, dim, revealed, downed, unfolded, high, less, raising, width, margin>>
top == <<marked, menus, subs, burger, drawer, moves, topDim>>
float == <<penal, penalDim>>
menuVars == <<nav, side, top, float>>

(* -------------------------------- side menu ------------------------------ *)

(* Variant: a fixed menu is closed by clicks outside of it. *)
SettingLoose(n) ==
  IF n.options.fixedMenu
  THEN [n.options EXCEPT !.startMenuOpen = TRUE, !.resizeContent = TRUE, !.disableHamburger = TRUE]
  ELSE n.options

\* "lets overwrite some settings to provide this functionality".
Setting(n) ==
  IF n.options.fixedMenu
  THEN [n.options EXCEPT !.startMenuOpen = TRUE, !.resizeContent = TRUE,
                         !.outClickToClose = FALSE, !.disableHamburger = TRUE]
  ELSE n.options

OpenFirst(n) == "side" \in n.kinds /\ Setting(n).startMenuOpen
MarginFirst(n) == IF OpenFirst(n) /\ Setting(n).resizeContent THEN "menuWidth" ELSE "none"

\* .menu-trigger.
Trigger ==
  /\ "side" \in nav.kinds /\ ~Setting(nav).disableHamburger
  /\ open' = ~open /\ dim' = (Setting(nav).bgFading /\ ~dim)
  /\ UNCHANGED <<revealed, downed, unfolded, high, less, raising, width, margin>>

\* .toggle: a panel is revealed or hidden, and the others are hidden.
Reveal(panel) ==
  /\ "side" \in nav.kinds
  /\ revealed' = {panel} \ revealed
  /\ UNCHANGED <<open, dim, downed, unfolded, high, less, raising, width, margin>>

\* .hs-user reveals .user-info, which no page has.
User == "side" \in nav.kinds /\ revealed' = {} /\ UNCHANGED <<open, dim, downed, unfolded, high, less, raising, width, margin>>

\* .its-parent.
Parent(link) ==
  /\ "side" \in nav.kinds /\ open
  /\ downed' = IF link \in downed THEN downed \ {link} ELSE downed \cup {link}
  /\ unfolded' = IF link \in unfolded THEN unfolded \ {link} ELSE unfolded \cup {link}
  /\ UNCHANGED <<open, dim, revealed, high, less, raising, width, margin>>

Controls == "side" \in nav.kinds /\ Setting(nav).navControls /\ open

\* .nav-fixed: which way the menu goes is read from the button, which changes
\* when the animation ends.
Raise ==
  /\ Controls /\ Len(raising) < MaxMoves
  /\ raising' = Append(raising, ~less)
  /\ UNCHANGED <<open, dim, revealed, downed, unfolded, high, less, width, margin>>

Raised ==
  /\ raising # <<>> /\ raising' = Tail(raising) /\ high' = Head(raising) /\ less' = Head(raising)
  /\ UNCHANGED <<nav, open, dim, revealed, downed, unfolded, width, margin, top, float>>

\* .nav-full.
Widen ==
  /\ Controls
  /\ width' = IF width = "menuWidth" THEN "menuWidthExtended" ELSE "menuWidth"
  /\ margin' = IF Setting(nav).resizeContent THEN width' ELSE margin
  /\ UNCHANGED <<open, dim, revealed, downed, unfolded, high, less, raising>>

(* Variant: the page stays dimmed. *)
OutsideSideDim ==
  /\ IF "side" \in nav.kinds /\ Setting(nav).outClickToClose
     THEN revealed' = {} /\ open' = FALSE /\ dim' = dim
     ELSE UNCHANGED <<revealed, open, dim>>
  /\ UNCHANGED <<downed, high, less, raising, width, margin>>

\* "Close user penal, hs navigation, user info or grid items if user click
\* outside of them".
OutsideSide ==
  /\ IF "side" \in nav.kinds /\ Setting(nav).outClickToClose
     THEN revealed' = {} /\ open' = FALSE /\ dim' = FALSE
     ELSE UNCHANGED <<revealed, open, dim>>
  /\ UNCHANGED <<downed, high, less, raising, width, margin>>

(* -------------------------------- top menu ------------------------------- *)

Reachable == "top" \in nav.kinds /\ (nav.small => drawer)

\* .dropdown-heading: its menu opens or closes, and the others close.
Heading(h) ==
  /\ Reachable
  /\ marked' = {h} \ marked /\ menus' = {h} \ menus
  /\ UNCHANGED <<unfolded, subs, burger, drawer, moves, topDim>>

Ancestors(s) ==
  LET above[t \in Sub] == IF Subs[t].within = NoMenu THEN {} ELSE {Subs[t].within} \cup above[Subs[t].within]
  IN above[s]

ASSUME SubmenusAssumption == \A s \in Sub : \A t \in Ancestors(s) :
  /\ t \in Sub /\ Ancestors(t) \subseteq Ancestors(s)
  /\ \A u \in Ancestors(s) : t = u \/ t \in Ancestors(u) \/ u \in Ancestors(t)

(* Variant: the submenus around it close. *)
SubmenuAlone(s) ==
  /\ Reachable /\ Subs[s].heading \in menus /\ Ancestors(s) \subseteq subs
  /\ subs' = {s} \ subs
  /\ unfolded' = {}
  /\ UNCHANGED <<marked, menus, burger, drawer, moves, topDim>>

\* .parent: "close other sub items if opened".  The selector takes in the
\* children of the side menu, whose parents stay marked.
Submenu(s) ==
  /\ Reachable /\ Subs[s].heading \in menus /\ Ancestors(s) \subseteq subs
  /\ subs' = ({s} \ subs) \cup (subs \cap Ancestors(s))
  /\ unfolded' = {}
  /\ UNCHANGED <<marked, menus, burger, drawer, moves, topDim>>

\* A click on the hamburger changes its mark and opens the drawer, whatever the
\* mark was.
Hamburger ==
  /\ "top" \in nav.kinds /\ nav.small /\ Len(moves) < MaxMoves
  /\ burger' = ~burger /\ moves' = Append(moves, "open") /\ topDim' = TRUE
  /\ UNCHANGED <<unfolded, marked, menus, subs, drawer>>

(* Variant: the mark is left as it is. *)
MovedMarked ==
  /\ moves # <<>> /\ moves' = Tail(moves)
  /\ drawer' = (Head(moves) = "open") /\ burger' = burger
  /\ UNCHANGED <<nav, side, marked, menus, subs, topDim, float>>

\* An animation of the drawer ends: the mark goes when it is closed.
Moved ==
  /\ moves # <<>> /\ moves' = Tail(moves)
  /\ drawer' = (Head(moves) = "open") /\ burger' = (burger /\ drawer')
  /\ UNCHANGED <<nav, side, marked, menus, subs, topDim, float>>

(* Variant: the headings stay marked. *)
OutsideTopMarked ==
  /\ burger => Len(moves) < MaxMoves
  /\ IF "top" \in nav.kinds
     THEN /\ moves' = IF burger THEN Append(moves, "close") ELSE moves
          /\ topDim' = FALSE /\ menus' = {} /\ marked' = marked
     ELSE UNCHANGED <<moves, topDim, menus, marked>>
  /\ UNCHANGED <<subs, burger, drawer>>

\* "close menu if user click outside of it": the drawer closes if the hamburger
\* is marked, the menus in any case; submenus stay open in the closed ones.
OutsideTop ==
  /\ burger => Len(moves) < MaxMoves
  /\ IF "top" \in nav.kinds
     THEN /\ moves' = IF burger THEN Append(moves, "close") ELSE moves
          /\ topDim' = FALSE /\ menus' = {} /\ marked' = {}
     ELSE UNCHANGED <<moves, topDim, menus, marked>>
  /\ UNCHANGED <<subs, burger, drawer>>

(* ----------------------------- floating panel ---------------------------- *)

OpenPenal == "float" \in nav.kinds /\ penal' = TRUE /\ penalDim' = TRUE
ClosePenal == penal /\ penal' = FALSE /\ penalDim' = FALSE

(* --------------------------------- clicks -------------------------------- *)

\* A click is outside of every menu it is not in.
InSide(click) == click /\ OutsideTop /\ UNCHANGED <<nav, float>>
InTop(click) == click /\ OutsideSide /\ UNCHANGED <<nav, float>>
InFloat(click) == click /\ OutsideSide /\ OutsideTop /\ UNCHANGED <<nav, unfolded>>
Outside == OutsideSide /\ OutsideTop /\ UNCHANGED <<nav, unfolded, float>>

\* hsMenu, CodehimDropdown and the panel are set up for a page.
InitMenus(n) ==
  /\ nav = n
  /\ open = OpenFirst(n) /\ margin = MarginFirst(n)
  /\ dim = FALSE /\ revealed = {} /\ downed = {} /\ unfolded = {}
  /\ high = FALSE /\ less = FALSE /\ raising = <<>> /\ width = "menuWidth"
  /\ marked = {} /\ menus = {} /\ subs = {}
  /\ burger = FALSE /\ drawer = FALSE /\ moves = <<>> /\ topDim = FALSE
  /\ penal = FALSE /\ penalDim = FALSE
LoadMenus(n) ==
  /\ nav' = n
  /\ open' = OpenFirst(n) /\ margin' = MarginFirst(n)
  /\ dim' = FALSE /\ revealed' = {} /\ downed' = {} /\ unfolded' = {}
  /\ high' = FALSE /\ less' = FALSE /\ raising' = <<>> /\ width' = "menuWidth"
  /\ marked' = {} /\ menus' = {} /\ subs' = {}
  /\ burger' = FALSE /\ drawer' = FALSE /\ moves' = <<>> /\ topDim' = FALSE
  /\ penal' = FALSE /\ penalDim' = FALSE


(* ------------------------------- properties ------------------------------ *)

MenusTypeOK ==
  /\ nav \in Navs /\ {open, dim, high, less, burger, drawer, topDim, penal, penalDim} \subseteq BOOLEAN
  /\ downed \cup unfolded \subseteq Parents /\ revealed \subseteq Panels
  /\ raising \in Seq(BOOLEAN) /\ moves \in Seq({"open", "close"}) /\ Len(moves) <= MaxMoves
  /\ width \in {"menuWidth", "menuWidthExtended"} /\ margin \in {width, "menuWidth", "none"}
  /\ marked \cup menus \subseteq Headings /\ subs \subseteq Sub

\* "provide this functionality": a fixed menu stays open beside the page, whatever
\* the other options are and whatever is clicked.
FixedMenuStays ==
  "side" \in nav.kinds /\ nav.options.fixedMenu => open /\ ~dim /\ margin = width

\* "background dim overlay when side navigation drawer open": the page is dimmed
\* when a menu is open over it and only then.  A menu that is open from the start
\* is excepted, since the overlay is toggled together with it.
DimFollowsMenu ==
  /\ "side" \in nav.kinds /\ ~Setting(nav).startMenuOpen => dim = (open /\ nav.options.bgFading)
  /\ penalDim = penal

\* The side menu is as it is set, and the page is dimmed as the menus are.
MenusOverPage == FixedMenuStays /\ DimFollowsMenu

\* At most one panel is revealed and one menu is open, the one that is marked.
OneMenuOpen ==
  /\ \A p, q \in revealed : p = q
  /\ \A h, k \in menus : h = k
  /\ marked = menus

\* Submenus are open along one path: with each those around it.
SubmenusAreAPath ==
  \A s \in subs : /\ Ancestors(s) \subseteq subs
                   /\ \A t \in subs : t = s \/ t \in Ancestors(s) \/ s \in Ancestors(t)

\* Whatever is opened closes what is not around it.
MenusExclude == OneMenuOpen /\ SubmenusAreAPath

\* When no animation runs a marked hamburger belongs to a drawer that is out,
\* and the button of the side menu tells how high it is: clicks during the
\* animations leave no mark that is wrong for ever.
MarksAreTrue ==
  /\ moves = <<>> /\ burger => drawer
  /\ raising = <<>> => less = high
=============================================================================
