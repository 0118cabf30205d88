SPECIFICATION Spec
CONSTANTS
  Pages <- Site
  MaxGroups = 3
  None = None
  Navs <- AllNavs
  Panels <- AllPanels
  Parents <- AllParents
  Headings <- AllHeadings
  Subs <- Tree
  Sub <- Submenus
  NoMenu = None
  MaxMoves = 2
INVARIANTS
  ContentFits
  MenusOverPage
  MenusExclude
  MarksAreTrue
PROPERTIES
  ReloadKeepsTabs
