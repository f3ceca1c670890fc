---------------------------- MODULE WorkCalendar ----------------------------
(***************************************************************************)
(* How the code tells a working day from a day off.  A date is a natural   *)
(* number.  The holiday map of a year, which HolidayCache.Set builds from  *)
(* the rows of table holidays, is a function from some dates to BOOLEAN:   *)
(* TRUE for a public holiday, FALSE for a day worked to make up for one.   *)
(***************************************************************************)
EXTENDS Naturals, FiniteSets

CONSTANT Weekend   \* the dates that fall on a Saturday or a Sunday

\* The value of a Go map lookup holidays[d]: FALSE when the key is absent, and
\* for every key of a nil map.
Lookup(holidays, d) == d \in DOMAIN holidays /\ holidays[d]

\* The test in the loop of CalculateWorkingDays.
CountsAsWorkday(holidays, d) ==
  IF d \in Weekend THEN d \in DOMAIN holidays /\ ~holidays[d]
                   ELSE ~Lookup(holidays, d)

\* The number of working days from start to end, both included.
CalculateWorkingDays(holidays, start, end) ==
  Cardinality({d \in start .. end : CountsAsWorkday(holidays, d)})

\* HolidayService.IsWorkday and isCompensatoryWorkday, which answer the same
\* question in a second place.
isCompensatoryWorkday(holidays, d) ==
  d \in DOMAIN holidays /\ ~Lookup(holidays, d)

IsWorkday(holidays, d) ==
  IF d \in Weekend
  THEN ~Lookup(holidays, d) /\ isCompensatoryWorkday(holidays, d)
  ELSE ~Lookup(holidays, d)

=============================================================================
