------------------------- MODULE HolidayCache_proofs -------------------------
(***************************************************************************)
(* What holds of HolidayCache for any year, any number of calls and any    *)
(* imports.                                                                *)
(***************************************************************************)
EXTENDS HolidayCache, TLAPS

\* CalculateWorkingDays and IsWorkday call the same days working days, although
\* each has its own way of reading the map.
THEOREM OneNotionOfWorkday ==
  ASSUME NEW D, NEW map \in [D -> BOOLEAN], NEW d
  PROVE  CountsAsWorkday(map, d) <=> IsWorkday(map, d)
  BY DEF CountsAsWorkday, IsWorkday, isCompensatoryWorkday, Lookup

\* The map that Set builds means what the rows mean.
LEMMA ToMapAgrees ==
  ASSUME NEW rows \in Tables
  PROVE  ToMap(rows) \in Maps /\ Agrees(ToMap(rows), rows)
  <1> DEFINE D == {e \in Dates : rows[e] # "none"}
  <1>1. ToMap(rows) \in [D -> BOOLEAN] /\ D \in SUBSET Dates
    BY DEF ToMap
  <1>2. ToMap(rows) \in Maps
    BY <1>1 DEF Maps
  <1>3. ASSUME NEW d \in Dates
        PROVE  CountsAsWorkday(ToMap(rows), d) <=> Worked(rows, d)
    BY <1>3 DEF CountsAsWorkday, Worked, Lookup, ToMap, Tables, RowKinds
  <1>4. ASSUME NEW d \in Dates
        PROVE  CountsAsWorkday(ToMap(rows), d) <=> IsWorkday(ToMap(rows), d)
    BY <1>1, OneNotionOfWorkday
  <1> QED
    BY <1>2, <1>3, <1>4 DEF Agrees

LEMMA CutShortTyped ==
  ASSUME NEW rows \in Tables
  PROVE  CutShort(rows) \subseteq Tables
  BY DEF CutShort, Tables, RowKinds

LEMMA NilMapTyped == NilMap \in Maps
  <1>1. NilMap \in [{} -> BOOLEAN]
    BY DEF NilMap
  <1> QED
    BY <1>1 DEF Maps

-----------------------------------------------------------------------------
LEMMA InitTypeOK == Init => TypeOK
  <1> SUFFICES ASSUME Init PROVE TypeOK
    OBVIOUS
  <1>1. entry \in Entries
    BY DEF Init, Entries
  <1>2. call \in [Calls -> CallStates]
    BY DEF Init, CallStates
  <1>3. import \in [Imports -> ImportStates]
    BY DEF Init, ImportStates
  <1>4. evictions \in 0 .. MaxEvictions
    BY CacheAssumption DEF Init
  <1>5. holidays \in Tables
    BY CacheAssumption DEF Init
  <1>6. aged \in BOOLEAN /\ overtaken \in BOOLEAN
    BY DEF Init
  <1> QED
    BY <1>1, <1>2, <1>3, <1>4, <1>5, <1>6 DEF TypeOK

\* What the calls and the imports hold at each of their statements.
LEMMA Shapes ==
  ASSUME TypeOK
  PROVE  /\ entry.map \in Maps
         /\ entry.state \in {"missing", "fresh", "expired"}
         /\ \A c \in Calls : call[c].pc = "set" => call[c].rows \in Tables
         /\ \A i \in Imports : import[i].pc = "set" => import[i].rows \in Tables
  BY NilMapTyped DEF TypeOK, Entries, CallStates, ImportStates, Missing

\* Get, with whatever the caller does next on a miss.
LEMMA GetTypeOK ==
  ASSUME TypeOK, NEW c \in Calls, NEW miss \in CallStates, Get(c, miss)
  PROVE  TypeOK'
  <1>1. Answer(TRUE, entry.map) \in CallStates
    BY Shapes DEF Answer, CallStates
  <1>2. call' \in [Calls -> CallStates]
    BY <1>1 DEF Get, TypeOK
  <1>3. evictions' \in 0 .. MaxEvictions
    BY CacheAssumption DEF Get, TypeOK
  <1> QED
    BY <1>2, <1>3 DEF Get, TypeOK

LEMMA CallTypeOK ==
  ASSUME TypeOK, NEW c \in Calls,
         GetFirst(c) \/ Query(c) \/ QueryCutShort(c) \/ QueryFails(c) \/ Set(c)
           \/ GetAgain(c) \/ Return(c)
  PROVE  TypeOK'
  <1>1. CASE GetFirst(c)
    BY <1>1, GetTypeOK DEF GetFirst, CallStates
  <1>2. CASE Query(c)
    BY <1>2 DEF Query, TypeOK, CallStates
  <1>3. CASE QueryFails(c)
    BY <1>3 DEF QueryFails, TypeOK, CallStates
  <1>4. CASE Set(c)
    <2>1. entry' \in Entries
      BY <1>4, Shapes, ToMapAgrees DEF Set, Entries
    <2> QED
      BY <1>4, <2>1 DEF Set, TypeOK, CallStates
  <1>5. CASE GetAgain(c)
    <2>1. Answer(FALSE, NilMap) \in CallStates
      BY NilMapTyped DEF Answer, CallStates
    <2> QED
      BY <1>5, <2>1, GetTypeOK DEF GetAgain
  <1>6. CASE Return(c)
    BY <1>6 DEF Return, TypeOK, CallStates
  <1>7. CASE QueryCutShort(c)
    BY <1>7, CutShortTyped DEF QueryCutShort, TypeOK, CallStates
  <1> QED
    BY <1>1, <1>2, <1>3, <1>4, <1>5, <1>6, <1>7

LEMMA ImportTypeOK ==
  ASSUME TypeOK, NEW i \in Imports,
         Commit(i) \/ Reread(i) \/ RereadCutShort(i) \/ RereadFails(i)
           \/ Refresh(i)
  PROVE  TypeOK'
  <1>1. CASE Commit(i)
    <2>1. holidays' \in Tables
      BY <1>1, CacheAssumption DEF Commit, TypeOK, Tables
    <2>2. overtaken' \in BOOLEAN
      BY <1>1 DEF Commit
    <2> QED
      BY <1>1, <2>1, <2>2 DEF Commit, TypeOK, ImportStates
  <1>2. CASE Reread(i)
    BY <1>2 DEF Reread, TypeOK, ImportStates
  <1>3. CASE RereadFails(i)
    BY <1>3 DEF RereadFails, TypeOK, ImportStates
  <1>4. CASE Refresh(i)
    <2>1. entry' \in Entries
      BY <1>4, Shapes, ToMapAgrees DEF Refresh, Entries
    <2> QED
      BY <1>4, <2>1 DEF Refresh, TypeOK, ImportStates
  <1>5. CASE RereadCutShort(i)
    BY <1>5, CutShortTyped DEF RereadCutShort, TypeOK, ImportStates
  <1> QED
    BY <1>1, <1>2, <1>3, <1>4, <1>5

LEMMA NextTypeOK == TypeOK /\ [Next]_vars => TypeOK'
  <1> SUFFICES ASSUME TypeOK, [Next]_vars PROVE TypeOK'
    OBVIOUS
  <1>1. CASE Evict
    BY <1>1, CacheAssumption DEF Evict, TypeOK, Entries
  <1>2. CASE Expire
    <2>1. entry' \in Entries
      BY <1>2 DEF Expire, TypeOK, Entries, Missing
    <2> QED
      BY <1>2, <2>1 DEF Expire, TypeOK
  <1>3. CASE UNCHANGED vars
    BY <1>3 DEF TypeOK, vars
  <1> QED
    BY <1>1, <1>2, <1>3, CallTypeOK, ImportTypeOK DEF Next

\* Every variable keeps its type, the nil map of a lost answer included.
THEOREM TypeCorrect == Spec => []TypeOK
  BY InitTypeOK, NextTypeOK, PTL DEF Spec

-----------------------------------------------------------------------------
\* The rows in anybody's hands are those of the table until a commit overtakes
\* them, so the entry can only differ while the import is still refreshing it.
LEMMA NextRowsCurrent ==
  TypeOK /\ CachedRowsCurrent /\ [Next]_vars => CachedRowsCurrent'
  <1> SUFFICES ASSUME TypeOK, CachedRowsCurrent, [Next]_vars, ~overtaken'
      PROVE  /\ \A c \in Calls : call'[c].pc = "set" => call'[c].rows = holidays'
             /\ \A i \in Imports :
                  import'[i].pc = "set" => import'[i].rows = holidays'
             /\ ~Refreshing'
                  => entry'.state = "missing" \/ entry'.map = ToMap(holidays')
    BY DEF CachedRowsCurrent, ToMap
  <1>1. ~overtaken
    BY DEF Next, vars, GetFirst, Query, QueryFails, Set, GetAgain, Get, Return,
           Commit, Reread, RereadFails, Refresh, Evict, Expire,
           QueryCutShort, RereadCutShort
  <1> USE <1>1 DEF CachedRowsCurrent, Refreshing, ToMap
  <1>2. ASSUME NEW c \in Calls, NEW miss, Get(c, miss), miss.pc # "set"
        PROVE  /\ \A b \in Calls :
                    call'[b].pc = "set" => call'[b].rows = holidays'
               /\ UNCHANGED <<entry, import, holidays>>
    BY <1>2 DEF Get, TypeOK, Answer
  <1>3. ASSUME NEW c \in Calls, GetFirst(c) \/ GetAgain(c)
        PROVE  /\ \A b \in Calls :
                    call'[b].pc = "set" => call'[b].rows = holidays'
               /\ UNCHANGED <<entry, import, holidays>>
    BY <1>2, <1>3 DEF GetFirst, GetAgain, Answer
  <1>4. ASSUME NEW c \in Calls, Query(c) \/ QueryFails(c) \/ Set(c) \/ Return(c)
        PROVE  /\ \A b \in Calls :
                    call'[b].pc = "set" => call'[b].rows = holidays'
               /\ UNCHANGED <<import, holidays>>
               /\ entry' = entry \/ entry'.map = ToMap(holidays')
    BY <1>4 DEF Query, QueryFails, Set, Return, TypeOK
  <1>5. ASSUME NEW i \in Imports, Commit(i)
        PROVE  /\ \A b \in Calls : call'[b].pc # "set"
               /\ \A j \in Imports : import'[j].pc # "set"
               /\ Refreshing'
    BY <1>5 DEF Commit, TypeOK
  <1>6. ASSUME NEW i \in Imports, Reread(i)
        PROVE  /\ UNCHANGED <<entry, call, holidays>>
               /\ \A j \in Imports :
                    import'[j].pc = "set" => import'[j].rows = holidays'
               /\ Refreshing'
    BY <1>6 DEF Reread, TypeOK
  <1>7. ASSUME \/ \E i \in Imports : RereadFails(i) \/ RereadCutShort(i)
               \/ \E c \in Calls : QueryCutShort(c)
        PROVE  FALSE
    BY <1>7 DEF RereadFails, RereadCutShort, QueryCutShort
  <1>8. ASSUME NEW i \in Imports, Refresh(i)
        PROVE  /\ UNCHANGED <<call, holidays>>
               /\ \A j \in Imports :
                    import'[j].pc = "set" => import'[j].rows = holidays'
               /\ entry'.map = ToMap(holidays')
    BY <1>8 DEF Refresh, TypeOK
  <1>9. CASE Evict
    BY <1>9 DEF Evict, Missing
  <1>10. CASE Expire
    <2>1. entry'.map = entry.map /\ entry.state = "fresh"
      BY <1>10 DEF Expire, TypeOK, Entries, Missing
    <2> QED
      BY <1>10, <2>1 DEF Expire
  <1>11. CASE UNCHANGED vars
    BY <1>11 DEF vars
  <1> QED
    BY <1>3, <1>4, <1>5, <1>6, <1>7, <1>8, <1>9, <1>10, <1>11 DEF Next

LEMMA CurrentImpliesAgrees ==
  TypeOK /\ CachedRowsCurrent => OutOfDateOnlyWhenOvertaken
  BY ToMapAgrees DEF TypeOK, CachedRowsCurrent, OutOfDateOnlyWhenOvertaken

\* The calendar in the cache is right about every day of the year, except while
\* an import is refreshing it and after a race or a failure of that refresh.
THEOREM CachedCalendarIsRight == Spec => []OutOfDateOnlyWhenOvertaken
  <1>1. Init => CachedRowsCurrent
    BY DEF Init, CachedRowsCurrent, Missing
  <1> QED
    BY <1>1, InitTypeOK, NextTypeOK, NextRowsCurrent, CurrentImpliesAgrees, PTL
       DEF Spec

\* What Create stores as the days of a leave, the loop over such a map, is the
\* number of dates that the table says are worked: weekends that make up for a
\* holiday are counted, holidays are not.
CountedAsTheTableSays(start, end) ==
  entry.state # "missing" /\ ~overtaken /\ ~Refreshing
    => CalculateWorkingDays(entry.map, start, end)
         = Cardinality({d \in start .. end : Worked(holidays, d)})

THEOREM WorkingDaysAreRight ==
  ASSUME NEW start \in Nat, NEW end \in Nat, start .. end \subseteq Dates
  PROVE  Spec => []CountedAsTheTableSays(start, end)
  <1>1. OutOfDateOnlyWhenOvertaken => CountedAsTheTableSays(start, end)
    <2> SUFFICES ASSUME Agrees(entry.map, holidays)
                 PROVE  CalculateWorkingDays(entry.map, start, end)
                          = Cardinality({d \in start .. end : Worked(holidays, d)})
      BY DEF OutOfDateOnlyWhenOvertaken, CountedAsTheTableSays
    <2>1. {d \in start .. end : CountsAsWorkday(entry.map, d)}
            = {d \in start .. end : Worked(holidays, d)}
      BY DEF Agrees
    <2> QED
      BY <2>1 DEF CalculateWorkingDays
  <1> QED
    BY <1>1, CachedCalendarIsRight, PTL

-----------------------------------------------------------------------------
\* Before any entry has grown too old nobody starts an eviction, so what a call
\* stores stays there until it reads it again.
LEMMA NextNothingEvicted ==
  /\ TypeOK /\ NothingEvictedYet /\ AnsweredBeforeFirstExpiry /\ [Next]_vars
  => NothingEvictedYet' /\ AnsweredBeforeFirstExpiry'
  <1> SUFFICES ASSUME TypeOK, NothingEvictedYet, AnsweredBeforeFirstExpiry,
                      [Next]_vars, ~aged'
      PROVE  /\ evictions' = 0
             /\ entry'.state # "expired"
             /\ (\E c \in Calls : call'[c].pc = "reread")
                  => entry'.state = "fresh"
             /\ \A c \in Calls : call'[c].pc = "answered" => call'[c].hit
    BY DEF NothingEvictedYet, AnsweredBeforeFirstExpiry
  <1>1. ~aged
    BY DEF Next, vars, GetFirst, Query, QueryFails, Set, GetAgain, Get, Return,
           Commit, Reread, RereadFails, Refresh, Evict, Expire,
           QueryCutShort, RereadCutShort
  <1> USE <1>1, Shapes DEF NothingEvictedYet, AnsweredBeforeFirstExpiry
  <1>2. ASSUME NEW c \in Calls, GetFirst(c)
        PROVE  /\ evictions' = 0 /\ entry' = entry
               /\ \A b \in Calls : /\ call'[b].pc = "reread" => call[b].pc = "reread"
                                   /\ call'[b].pc = "answered" => call'[b].hit
    BY <1>2 DEF GetFirst, Get, Answer, TypeOK
  <1>3. ASSUME NEW c \in Calls, GetAgain(c)
        PROVE  /\ evictions' = 0 /\ entry' = entry
               /\ \A b \in Calls : /\ call'[b].pc = "reread" => call[b].pc = "reread"
                                   /\ call'[b].pc = "answered" => call'[b].hit
    BY <1>3 DEF GetAgain, Get, Answer, TypeOK
  <1>4. ASSUME NEW c \in Calls,
               Query(c) \/ QueryCutShort(c) \/ QueryFails(c) \/ Return(c)
        PROVE  /\ evictions' = 0 /\ entry' = entry
               /\ \A b \in Calls : /\ call'[b].pc = "reread" => call[b].pc = "reread"
                                   /\ call'[b].pc = "answered" => call'[b].hit
    BY <1>4 DEF Query, QueryCutShort, QueryFails, Return, TypeOK
  <1>5. ASSUME NEW c \in Calls, Set(c)
        PROVE  /\ evictions' = 0 /\ entry'.state = "fresh"
               /\ \A b \in Calls : call'[b].pc = "answered" => call'[b].hit
    BY <1>5 DEF Set, TypeOK
  <1>6. ASSUME NEW i \in Imports,
               Commit(i) \/ Reread(i) \/ RereadCutShort(i) \/ RereadFails(i)
        PROVE  UNCHANGED <<entry, call, evictions>>
    BY <1>6 DEF Commit, Reread, RereadCutShort, RereadFails
  <1>7. ASSUME NEW i \in Imports, Refresh(i)
        PROVE  UNCHANGED <<call, evictions>> /\ entry'.state = "fresh"
    BY <1>7 DEF Refresh
  <1>8. CASE Evict
    BY <1>8 DEF Evict
  <1>9. CASE Expire
    BY <1>9 DEF Expire
  <1>10. CASE UNCHANGED vars
    BY <1>10 DEF vars
  <1> QED
    BY <1>2, <1>3, <1>4, <1>5, <1>6, <1>7, <1>8, <1>9, <1>10 DEF Next

\* During the first 24 hours every call that returns without an error has a map.
THEOREM FirstDayAnswered == Spec => []AnsweredBeforeFirstExpiry
  <1>1. Init => NothingEvictedYet /\ AnsweredBeforeFirstExpiry
    BY DEF Init, NothingEvictedYet, AnsweredBeforeFirstExpiry, Missing
  <1> QED
    BY <1>1, InitTypeOK, NextTypeOK, NextNothingEvicted, PTL DEF Spec

=============================================================================
