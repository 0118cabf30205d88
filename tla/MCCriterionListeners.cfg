SPECIFICATION Spec
CONSTANTS
  Column <- Columns
  TypeOf <- Types
  Cells <- Table
  Typed <- Keyboard
  Removed <- NoWholeArrays
  Alphabet <- Code
  sDecimal = None
  sThousands <- Comma
  Throttled = TRUE
  Now <- Today
  None = None
INVARIANT PageIsSearched
