SPECIFICATION Spec
CONSTANTS
  Known <- MCKnown
  YearsByDay <- MCYearsByDay
  Documents <- MCDocuments
  Characterisations <- MCCharacterisations
  Padding <- MCPadding
  EarliestYear = 1
  OpenEndYear = 1600
INVARIANTS
  CalendarsAreCounted
  FoundIsWhatIsOn
