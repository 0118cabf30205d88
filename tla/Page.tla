-------------------------------- MODULE Page --------------------------------
(* A page with its contents and its menus.  They share the clicks: whatever  *)
(* is clicked in the contents or in one menu is outside of the other menus.  *)
EXTENDS PageContent, PageMenus

ASSUME NavsAssumption == \A p \in Pages : p.nav \in Navs

vars == <<content, menuVars>>

\* A link to a page of the site, in a menu or elsewhere, or a reload.
Load(p) == LoadContent(p) /\ LoadMenus(p.nav)

\* The handlers of an element of the contents, then those of the window.
Click(handler) == handler /\ Outside
ClickTab(g, i) == Click(SelectTab(g, i))
ClickShow(s) == Click(ShowSection(s))
ClickHide(s) == Click(HideSection(s))
ClickBody == Outside /\ UNCHANGED content

\* The handlers of an element of a menu, then those of the window.
ClickMenu(handler) == handler /\ UNCHANGED content

\* Another window does what it does, which no handler here listens to.
Elsewhere == (\E p \in Pages : \E g \in Groups(p) : \E i \in 1..p.tabs[g] : OtherWindow(p, g, i)) /\ UNCHANGED menuVars

Library ==
  /\ Ready \/ Resize \/ \E o \in Objects(page) : Scroll(o)
  /\ UNCHANGED menuVars

Init == InitContent /\ InitMenus(page.nav)
Next ==
  \/ \E p \in Pages : Load(p)
  \/ \E g \in Groups(page) : \E i \in 1..page.tabs[g] : ClickTab(g, i)
  \/ \E s \in Sections(page) : ClickShow(s) \/ ClickHide(s)
  \/ ClickBody \/ Library \/ Elsewhere
  \/ ClickMenu(InSide(Trigger)) \/ ClickMenu(InSide(Raise)) \/ ClickMenu(InSide(Widen)) \/ ClickMenu(InSide(User))
  \/ \E panel \in Panels : ClickMenu(InSide(Reveal(panel)))
  \/ \E link \in Parents : ClickMenu(InSide(Parent(link)))
  \/ ClickMenu(InTop(Hamburger))
  \/ \E h \in Headings : ClickMenu(InTop(Heading(h)))
  \/ \E s \in Sub : ClickMenu(InTop(Submenu(s)))
  \/ ClickMenu(InFloat(OpenPenal)) \/ ClickMenu(InFloat(ClosePenal))
  \/ ClickMenu(Raised) \/ ClickMenu(Moved)
Spec == Init /\ [][Next]_vars

(* ------------------------------- properties ------------------------------ *)

TypeOK == ContentTypeOK /\ MenusTypeOK /\ nav = page.nav

\* A reload of a page opens the tabs that were open, of every group, nested or
\* not, whatever pages of the site came before it in this window, and whatever
\* another window remembered before a tab was clicked last in this one.  (What
\* another window remembers after that does change the tabs: they share one
\* item of the storage, and know their groups by number.)
ReloadKeepsTabs ==
  [][Load(page) /\ page.stores /\ ~foreign => active' = active]_vars
=============================================================================
