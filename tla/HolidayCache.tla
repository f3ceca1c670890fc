----------------------------- MODULE HolidayCache ----------------------------
(***************************************************************************)
(* cache.HolidayCache and the two operations of HolidayService on it:      *)
(* GetHolidaysByYear, which fills it on a miss, and BatchImport, which     *)
(* refreshes it.  The entries of two years never touch each other, so the  *)
(* module has one year.  The mutex covers a single Get, Set or evict, and  *)
(* nothing covers a miss with the query and the Set that follow it; an     *)
(* expired entry is deleted by a goroutine of its own, at any later time.  *)
(***************************************************************************)
EXTENDS WorkCalendar

CONSTANTS
  Dates,         \* the dates of the year
  Calls,         \* the goroutines in GetHolidaysByYear
  Imports,       \* the BatchImport calls
  Batch,         \* the rows each import writes
  InitialRows,   \* table holidays at the start
  MaxEvictions   \* bound: eviction goroutines that have not run yet

\* What table holidays says of a date: no row, or one with is_workday = FALSE
\* or TRUE.
RowKinds == {"none", "holiday", "makeup"}
Tables == [Dates -> RowKinds]

ASSUME CacheAssumption ==
  /\ Batch \in [Imports -> Tables]
  /\ InitialRows \in Tables
  /\ MaxEvictions \in Nat

VARIABLES
  holidays,    \* the table, as committed
  entry,       \* data[year] and expiry[year]
  evictions,   \* the eviction goroutines that have not run yet
  call,        \* what each GetHolidaysByYear does next, or has answered
  import,      \* what each BatchImport does next
  aged,        \* ghost: some entry has lived its 24 hours
  overtaken    \* ghost: a commit overtook a read, or a read was cut short or
               \* a refresh failed

vars == <<holidays, entry, evictions, call, import, aged, overtaken>>

Maps == UNION {[D -> BOOLEAN] : D \in SUBSET Dates}
NilMap == [d \in {} |-> FALSE]
Missing == [state |-> "missing", map |-> NilMap]

Entries == {Missing} \cup [state : {"fresh", "expired"}, map : Maps]
CallStates == [pc : {"idle", "query", "reread"}]
                \cup [pc : {"set"}, rows : Tables]
                \cup [pc : {"answered"}, hit : BOOLEAN, map : Maps]
ImportStates == [pc : {"idle", "reread", "done"}]
                  \cup [pc : {"set"}, rows : Tables]

TypeOK ==
  /\ holidays \in Tables
  /\ entry \in Entries
  /\ evictions \in 0 .. MaxEvictions
  /\ call \in [Calls -> CallStates]
  /\ import \in [Imports -> ImportStates]
  /\ aged \in BOOLEAN
  /\ overtaken \in BOOLEAN

Init ==
  /\ holidays = InitialRows
  /\ entry = Missing
  /\ evictions = 0
  /\ call = [c \in Calls |-> [pc |-> "idle"]]
  /\ import = [i \in Imports |-> [pc |-> "idle"]]
  /\ aged = FALSE
  /\ overtaken = FALSE

\* The map HolidayCache.Set builds from the rows.
ToMap(rows) ==
  [d \in {e \in Dates : rows[e] # "none"} |-> rows[d] = "holiday"]

-----------------------------------------------------------------------------
\* HolidayCache.Get, for a caller that goes on with miss when there is no map.
\* The entry is copied under the lock and its age looked at afterwards; the
\* goroutine that deletes an expired entry only starts here.

Answer(hit, map) == [pc |-> "answered", hit |-> hit, map |-> map]

\* Mutants: an expired entry is answered; every miss starts an eviction.
GetAnyAge(c, miss) ==
  /\ call' = [call EXCEPT ![c] = IF entry.state = "missing" THEN miss
                                 ELSE Answer(TRUE, entry.map)]
  /\ UNCHANGED <<holidays, entry, evictions, import, aged, overtaken>>

GetEvictingAlways(c, miss) ==
  /\ entry.state = "fresh" \/ evictions < MaxEvictions
  /\ call' = [call EXCEPT ![c] = IF entry.state # "fresh" THEN miss
                                 ELSE Answer(TRUE, entry.map)]
  /\ evictions' = IF entry.state # "fresh" THEN evictions + 1 ELSE evictions
  /\ UNCHANGED <<holidays, entry, import, aged, overtaken>>

Get(c, miss) ==
  /\ entry.state = "expired" => evictions < MaxEvictions
  /\ call' = [call EXCEPT ![c] = IF entry.state # "fresh" THEN miss
                                 ELSE Answer(TRUE, entry.map)]
  /\ evictions' = IF entry.state = "expired" THEN evictions + 1 ELSE evictions
  /\ UNCHANGED <<holidays, entry, import, aged, overtaken>>

\* HolidayService.GetHolidaysByYear.
GetFirst(c) == call[c].pc = "idle" /\ Get(c, [pc |-> "query"])

Query(c) ==
  /\ call[c].pc = "query"
  /\ call' = [call EXCEPT ![c] = [pc |-> "set", rows |-> holidays]]
  /\ UNCHANGED <<holidays, entry, evictions, import, aged, overtaken>>

\* GetByYear reads row after row by date and never asks rows.Err: if the
\* connection breaks, or the caller's request is cancelled, between two of them,
\* those it has so far are the answer.
CutShort(rows) ==
  {[d \in Dates |-> IF d < cut THEN rows[d] ELSE "none"] : cut \in Dates}

QueryCutShort(c) ==
  /\ call[c].pc = "query"
  /\ \E rows \in CutShort(holidays) :
       call' = [call EXCEPT ![c] = [pc |-> "set", rows |-> rows]]
  /\ overtaken' = TRUE
  /\ UNCHANGED <<holidays, entry, evictions, import, aged>>

QueryFails(c) ==
  /\ call[c].pc = "query"
  /\ call' = [call EXCEPT ![c] = [pc |-> "idle"]]
  /\ UNCHANGED <<holidays, entry, evictions, import, aged, overtaken>>

Set(c) ==
  /\ call[c].pc = "set"
  /\ entry' = [state |-> "fresh", map |-> ToMap(call[c].rows)]
  /\ call' = [call EXCEPT ![c] = [pc |-> "reread"]]
  /\ UNCHANGED <<holidays, evictions, import, aged, overtaken>>

\* The map is taken from the cache again, and whether it was there ignored.
GetAgain(c) == call[c].pc = "reread" /\ Get(c, Answer(FALSE, NilMap))

\* The caller goes on with the map, and another one takes its place.
Return(c) ==
  /\ call[c].pc = "answered"
  /\ call' = [call EXCEPT ![c] = [pc |-> "idle"]]
  /\ UNCHANGED <<holidays, entry, evictions, import, aged, overtaken>>

\* Mutant: the map is left behind.
EvictAge ==
  /\ evictions > 0
  /\ entry' = [entry EXCEPT !.state = "missing"]
  /\ evictions' = evictions - 1
  /\ UNCHANGED <<holidays, call, import, aged, overtaken>>

Evict ==
  /\ evictions > 0
  /\ entry' = Missing
  /\ evictions' = evictions - 1
  /\ UNCHANGED <<holidays, call, import, aged, overtaken>>

\* The 24 hours of an entry are over.  No call takes as long as that from its
\* Set, which was no later than that of the entry, to its second Get.
Expire ==
  /\ entry.state = "fresh"
  /\ \A c \in Calls : call[c].pc # "reread"
  /\ entry' = [entry EXCEPT !.state = "expired"]
  /\ aged' = TRUE
  /\ UNCHANGED <<holidays, evictions, call, import, overtaken>>

-----------------------------------------------------------------------------
\* HolidayService.BatchImport.

\* The transaction of BatchUpsert; one that fails leaves nothing behind.
Commit(i) ==
  /\ import[i].pc = "idle"
  /\ holidays' = [d \in Dates |-> IF Batch[i][d] = "none" THEN holidays[d]
                                  ELSE Batch[i][d]]
  /\ import' = [import EXCEPT ![i] = [pc |-> "reread"]]
  /\ overtaken' = \/ overtaken
                  \/ \E c \in Calls : call[c].pc = "set"
                  \/ \E j \in Imports : import[j].pc = "set"
  /\ UNCHANGED <<entry, evictions, call, aged>>

Reread(i) ==
  /\ import[i].pc = "reread"
  /\ import' = [import EXCEPT ![i] = [pc |-> "set", rows |-> holidays]]
  /\ UNCHANGED <<holidays, entry, evictions, call, aged, overtaken>>

RereadCutShort(i) ==
  /\ import[i].pc = "reread"
  /\ \E rows \in CutShort(holidays) :
       import' = [import EXCEPT ![i] = [pc |-> "set", rows |-> rows]]
  /\ overtaken' = TRUE
  /\ UNCHANGED <<holidays, entry, evictions, call, aged>>

\* The import succeeds all the same.
RereadFails(i) ==
  /\ import[i].pc = "reread"
  /\ import' = [import EXCEPT ![i] = [pc |-> "done"]]
  /\ overtaken' = TRUE
  /\ UNCHANGED <<holidays, entry, evictions, call, aged>>

\* Mutant: an entry that is there is kept.
RefreshMissing(i) ==
  /\ import[i].pc = "set"
  /\ entry' = IF entry.state # "missing" THEN entry
              ELSE [state |-> "fresh", map |-> ToMap(import[i].rows)]
  /\ import' = [import EXCEPT ![i] = [pc |-> "done"]]
  /\ UNCHANGED <<holidays, evictions, call, aged, overtaken>>

Refresh(i) ==
  /\ import[i].pc = "set"
  /\ entry' = [state |-> "fresh", map |-> ToMap(import[i].rows)]
  /\ import' = [import EXCEPT ![i] = [pc |-> "done"]]
  /\ UNCHANGED <<holidays, evictions, call, aged, overtaken>>

-----------------------------------------------------------------------------
Next ==
  \/ \E c \in Calls : GetFirst(c) \/ Query(c) \/ QueryCutShort(c) \/ QueryFails(c)
                        \/ Set(c) \/ GetAgain(c) \/ Return(c)
  \/ \E i \in Imports : Commit(i) \/ Reread(i) \/ RereadCutShort(i)
                          \/ RereadFails(i) \/ Refresh(i)
  \/ Evict
  \/ Expire

Spec == Init /\ [][Next]_vars

\* Time passes, and whatever has begun runs on, well or not.
Fairness ==
  /\ WF_vars(Expire) /\ WF_vars(Evict)
  /\ \A c \in Calls : WF_vars(\/ Query(c) \/ QueryCutShort(c) \/ QueryFails(c)
                               \/ Set(c) \/ GetAgain(c))
  /\ \A i \in Imports : WF_vars(\/ Reread(i) \/ RereadCutShort(i)
                                 \/ RereadFails(i) \/ Refresh(i))

FairSpec == Spec /\ Fairness

-----------------------------------------------------------------------------
\* What the rows mean: a weekend is worked only to make up for a holiday, and
\* every other day unless it is one.
Worked(rows, d) ==
  IF d \in Weekend THEN rows[d] = "makeup" ELSE rows[d] # "holiday"

\* A map tells CalculateWorkingDays and IsWorkday what the rows mean.
Agrees(map, rows) ==
  \A d \in Dates : /\ CountsAsWorkday(map, d) <=> Worked(rows, d)
                   /\ IsWorkday(map, d) <=> Worked(rows, d)

Refreshing == \E i \in Imports : import[i].pc \in {"reread", "set"}

\* The cached calendar is right about every day, unless an import has still to
\* refresh it, or a commit overtook a query whose rows were stored after the
\* refresh, or a query was cut short or the refresh failed.
OutOfDateOnlyWhenOvertaken ==
  entry.state # "missing" /\ ~Agrees(entry.map, holidays)
    => overtaken \/ Refreshing

\* Why it holds, for the proof: rows that are about to be stored are those of
\* the table, and only an import that is not through makes the entry differ.
CachedRowsCurrent ==
  ~overtaken =>
    /\ \A c \in Calls : call[c].pc = "set" => call[c].rows = holidays
    /\ \A i \in Imports : import[i].pc = "set" => import[i].rows = holidays
    /\ ~Refreshing => entry.state = "missing" \/ entry.map = ToMap(holidays)

\* The map a call has just stored is still there when it reads it again, as
\* long as no entry has grown too old: only the goroutine that deletes an old
\* entry can come in between.
AnsweredBeforeFirstExpiry ==
  ~aged => \A c \in Calls : call[c].pc = "answered" => call[c].hit

\* ... for the proof.
NothingEvictedYet ==
  ~aged =>
    /\ evictions = 0
    /\ entry.state # "expired"
    /\ (\E c \in Calls : call[c].pc = "reread") => entry.state = "fresh"

\* GetHolidaysByYear returns the map of the year, as its comment says, and not
\* a nil map without an error.
AlwaysAnswered == \A c \in Calls : call[c].pc = "answered" => call[c].hit

\* After the last import, and after the last query that was cut short, no call
\* gets an old calendar for ever: the age limit mends whatever a lost race, a
\* broken connection or a failed refresh left behind.
NoReadCutShort ==
  [][\A c \in Calls : call[c].pc = "query" /\ call'[c].pc = "set"
                        => call'[c].rows = holidays]_vars
StaleAnswersCease ==
  <>NoReadCutShort =>
    <>[][\A c \in Calls : /\ call[c].pc # "answered"
                          /\ call'[c].pc = "answered" /\ call'[c].hit
                          => Agrees(call'[c].map, holidays)]_vars

=============================================================================
