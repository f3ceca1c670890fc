\* Two calls, again and again, two imports, and evictions at any time.
SPECIFICATION FairSpec
CONSTANTS
  Dates <- MCDates
  Weekend <- MCWeekend
  Calls = {c1, c2}
  Imports <- MCImports
  Batch <- MCBatch
  InitialRows <- MCInitialRows
  MaxEvictions = 2
INVARIANTS TypeOK OutOfDateOnlyWhenOvertaken AnsweredBeforeFirstExpiry
PROPERTY StaleAnswersCease
