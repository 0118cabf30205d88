SPECIFICATION Spec
CONSTANTS
  Typed <- Texts
  Now <- Present
  Clicked <- Days
  Hours <- One
  Minutes <- Some
  Bound <- Limits
  Pages <- Months
  yearRange = 2
  firstDay = 6
  disableDays <- Sunday
  hours12 = TRUE
  hoursAvailable <- AllHours
  minutesAvailable <- Quarters
  MaxTimers = 1
  Invalid = Invalid
  None = None
INVARIANTS
  CalendarIsCurrent
  PickedIsWritten
  PagesTurn
  OfferIsComplete
PROPERTIES
  PickerCloses
