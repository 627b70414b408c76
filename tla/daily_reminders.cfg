CONSTANTS
  Settings <- AllSettings
  AwayDays <- SomeAway
  MonthsShown = 15
SPECIFICATION Spec
INVARIANTS TypeOK NothingMissed NothingTwice
PROPERTIES BillsMoveAtCutoff
CHECK_DEADLOCK FALSE
