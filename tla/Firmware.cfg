SPECIFICATION Spec
CONSTANTS
  MaxArgs = 3
  MaxOthers = 1
INVARIANTS
  ReportComplete
  UnderOwnHeading
  SwitchFollows
PROPERTY StopsAtFirstFailure
