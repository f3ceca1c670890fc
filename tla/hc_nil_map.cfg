\* One call may find what another has just stored deleted by a third party.
SPECIFICATION Spec
CONSTANTS
  Dates <- MCDates
  Weekend <- MCWeekend
  Calls = {c1, c2}
  Imports <- MCImports
  Batch <- MCBatch
  InitialRows <- MCInitialRows
  MaxEvictions = 1
INVARIANT AlwaysAnswered
