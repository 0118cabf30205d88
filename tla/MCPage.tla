------------------------------- MODULE MCPage -------------------------------
(* A site of eight pages: one with tabs in its tabs, of which one group has  *)
(* none active at first, and with sections and objects; two with a calendar  *)
(* that is broken, one of them in a browser without storage; and pages with  *)
(* the menus, alone and together, on large and small screens, and with the   *)
(* options of the side menu.                                                 *)
EXTENDS Page

Object(kind, tab, sections, broken, fixed) ==
  [kind |-> kind, tab |-> tab, sections |-> sections, broken |-> broken, fixed |-> fixed]
Navigation(kinds, on, small) ==
  [kinds |-> kinds, options |-> [option \in Options |-> option \in on], small |-> small]
Usual == {"bgFading", "outClickToClose", "navControls"}
Plain == Navigation({}, {}, FALSE)
Fixed == Navigation({"side"}, Usual \cup {"fixedMenu"}, FALSE)
Started == Navigation({"side"}, Usual \cup {"startMenuOpen", "resizeContent"}, FALSE)
Bar == Navigation({"side"}, Usual, FALSE)
Both == Navigation({"side", "top"}, {"bgFading", "outClickToClose"}, FALSE)
Phone == Navigation({"top"}, {}, TRUE)
Floating == Navigation({"float"}, {}, FALSE)
AllNavs == {Plain, Fixed, Started, Bar, Both, Phone, Floating}

Empty(n) == [tabs |-> <<>>, within |-> <<>>, default |-> <<>>, objects |-> <<>>, open |-> {}, stores |-> TRUE, nav |-> n]
Nested ==
  [tabs |-> <<2, 2, 2>>, within |-> <<None, <<1, 1>>, <<1, 2>>>>, default |-> <<1, 1, None>>,
   objects |-> << Object("table", <<2, 2>>, {}, FALSE, TRUE), Object("table", <<3, 1>>, {"s1"}, FALSE, TRUE),
                  Object("calendar", <<1, 2>>, {"s1"}, FALSE, FALSE), Object("diagram", <<3, 2>>, {}, FALSE, FALSE) >>,
   open |-> {}, stores |-> TRUE, nav |-> Plain]
Broken ==
  [tabs |-> <<3>>, within |-> <<None>>, default |-> <<1>>,
   objects |-> << Object("calendar", <<1, 2>>, {}, TRUE, FALSE), Object("table", <<1, 2>>, {"s1"}, FALSE, FALSE),
                  Object("diagram", <<1, 2>>, {}, FALSE, FALSE), Object("calendar", <<1, 3>>, {}, FALSE, FALSE) >>,
   open |-> {"s1"}, stores |-> TRUE, nav |-> Floating]
Forgetful == [Broken EXCEPT !.stores = FALSE, !.nav = Plain]
Site == {Nested, Broken, Forgetful} \cup {Empty(n) : n \in {Fixed, Started, Bar, Both, Phone}}

AllPanels == {"user-penal", "grid-items"}
AllParents == {"link"}
AllHeadings == {"h1", "h2"}
Submenus == {"a", "b", "c"}
Tree == [a |-> [heading |-> "h1", within |-> None], b |-> [heading |-> "h1", within |-> "a"], c |-> [heading |-> "h2", within |-> None]]
=============================================================================
