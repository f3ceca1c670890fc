\* Four calls side by side, each of which may fail, around a new year.
SPECIFICATION Spec
CONSTANTS
  Calls = {"a1", "a2", "comp", "free"}
  TypeOf <- MCTypeOf
  Days <- MCDays
  Rows <- MCRows
  Total <- MCTotal
  Used <- MCUsed
  Years = {1, 2}
INVARIANTS TypeOK NoOverdraw BooksBalance
PROPERTY RefusedForCause
CHECK_DEADLOCK FALSE
