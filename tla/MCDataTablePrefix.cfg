SPECIFICATION Spec
CONSTANTS
  Rows <- Row
  Words <- PrefixWords
  Category <- RowCategory
  InLower <- Small
  Values <- RowValues
  Data <- RowData
  Texts <- Begin
  ByScript <- Scripted
  Points <- Pairs
  Zero = Zero
  Containers <- Formats
  threshold <- Half
  toggleSmart = TRUE
  searchReturn = FALSE
  failCss = TRUE
  MaxListeners = 2
  Undefined = Undefined
  NaN = NaN
  None = None
INVARIANTS
  PrefixPasses
