---------------------------- MODULE Notifications ----------------------------
(***************************************************************************)
(* What becomes of a notice: NotificationService starts a goroutine that   *)
(* stores it in table notifications, and NotificationWorker, which polls   *)
(* the table, sends it and marks it as sent.  The goroutines, the batch in *)
(* the worker's hands and the time between a send and its mark are lost    *)
(* when the process ends; shutting down waits for none of them.            *)
(***************************************************************************)
EXTENDS Naturals, FiniteSets

CONSTANTS
  Notices,        \* the calls of a Notify function
  Addressed,      \* those whose receiver is a user, and not approver_id 0
  BatchLimit,     \* the most rows of a batch, 50 in the code
  MaxRetries,     \* how often a send may fail, 3 in the code
  Failing,        \* those that send may fail on; the channel shipped only logs
  MaxExits        \* bound: how often the process ends

ASSUME NotificationAssumption ==
  /\ Addressed \subseteq Notices /\ IsFiniteSet(Notices)
  /\ BatchLimit \in Nat \ {0}
  /\ MaxRetries \in Nat \ {0}
  /\ Failing \subseteq Notices
  /\ MaxExits \in Nat

VARIABLES
  notify,      \* the goroutine of each notice
  created,     \* created_at, which the goroutine reads first of all
  row,         \* notifications.status, "none" while there is no row
  retries,     \* notifications.retry_count
  worker,      \* what the worker does next
  batch,       \* the rows of the batch it has not dealt with
  server,      \* the process
  exits,       \* how often it has ended
  delivered,   \* ghost: notices that were sent
  unmarked     \* ghost: notices whose send was not followed by its mark

table == <<row, retries>>
goroutines == <<notify, created>>
ghosts == <<delivered, unmarked>>
vars == <<goroutines, table, worker, batch, server, exits, ghosts>>

TypeOK ==
  /\ notify \in [Notices -> {"quiet", "raised", "over"}]
  /\ created \in [Notices -> Nat]
  /\ row \in [Notices -> {"none", "pending", "sent"}]
  /\ retries \in [Notices -> 0 .. MaxRetries]
  /\ worker \in {"polling", "sending", "marking", "counting", "returned"}
  /\ batch \subseteq Notices
  /\ worker \in {"polling", "returned"} <=> batch = {}
  /\ server \in {"up", "stopping", "down"}
  /\ exits \in 0 .. MaxExits
  /\ delivered \subseteq Notices /\ unmarked \subseteq Notices

Init ==
  /\ notify = [n \in Notices |-> "quiet"]
  /\ created = [n \in Notices |-> 0]
  /\ row = [n \in Notices |-> "none"]
  /\ retries = [n \in Notices |-> 0]
  /\ worker = "polling" /\ batch = {}
  /\ server = "up" /\ exits = 0
  /\ delivered = {} /\ unmarked = {}

Running == server # "down"

-----------------------------------------------------------------------------
\* NotifyLeaveApproved and NotifyApprovalRequest.

Raised == {n \in Notices : notify[n] # "quiet"}

\* The go statement of AutoApprove, ProcessManualApproval or
\* initiateManualApproval, and the goroutine's reading of the clock.
Raise(n) ==
  /\ Running
  /\ notify[n] = "quiet"
  /\ notify' = [notify EXCEPT ![n] = "raised"]
  /\ created' = [created EXCEPT ![n] = Cardinality(Raised)]
  /\ UNCHANGED <<table, worker, batch, server, exits, ghosts>>

Store(n) ==
  /\ Running
  /\ notify[n] = "raised" /\ n \in Addressed
  /\ notify' = [notify EXCEPT ![n] = "over"]
  /\ row' = [row EXCEPT ![n] = "pending"]
  /\ UNCHANGED <<created, retries, worker, batch, server, exits, ghosts>>

\* An error of the INSERT, such as the foreign key's on a receiver who is no
\* user, is logged and the notice is gone.
StoreFails(n) ==
  /\ Running
  /\ notify[n] = "raised"
  /\ notify' = [notify EXCEPT ![n] = "over"]
  /\ UNCHANGED <<created, table, worker, batch, server, exits, ghosts>>

-----------------------------------------------------------------------------
\* NotificationWorker.

\* Mutants: one retry more; rows that were sent are taken again.
EligibleOnceMore ==
  {n \in Notices : row[n] = "pending" /\ retries[n] <= MaxRetries}
EligibleAnyStatus ==
  {n \in Notices : row[n] # "none" /\ retries[n] < MaxRetries}

Eligible == {n \in Notices : row[n] = "pending" /\ retries[n] < MaxRetries}

\* GetPendingBatch: the oldest rows first, BatchLimit of them at most.
PendingBatch ==
  {n \in Eligible :
     Cardinality({m \in Eligible : created[m] < created[n]}) < BatchLimit}

\* What the worker has of it: rows.Err is not asked, so when the connection breaks
\* between two rows, those it has read so far are the batch.
Fetched ==
  {rows \in SUBSET PendingBatch :
     \A n \in rows : \A m \in PendingBatch \ rows : created[n] < created[m]}

Oldest(n) == n \in batch /\ \A m \in batch : created[n] <= created[m]

\* A tick of the ticker with a query that brings something to do.  Once Stop has
\* closed the channel, select may still choose a tick that is due.
Poll ==
  /\ Running
  /\ worker = "polling"
  /\ batch' \in Fetched \ {{}}
  /\ worker' = "sending"
  /\ UNCHANGED <<goroutines, table, server, exits, ghosts>>

Send(n) ==
  /\ Running
  /\ worker = "sending" /\ Oldest(n)
  /\ worker' = "marking"
  /\ delivered' = delivered \cup {n}
  /\ UNCHANGED <<goroutines, table, batch, server, exits, unmarked>>

SendFails(n) ==
  /\ Running
  /\ worker = "sending" /\ Oldest(n) /\ n \in Failing
  /\ worker' = "counting"
  /\ UNCHANGED <<goroutines, table, batch, server, exits, ghosts>>

\* The loop goes on with the next row of the batch.
Done(n) ==
  /\ batch' = batch \ {n}
  /\ worker' = IF batch = {n} THEN "polling" ELSE "sending"

\* Mutant: the whole batch is marked after the first send.
MarkBatch(n) ==
  /\ Running
  /\ worker = "marking" /\ Oldest(n)
  /\ row' = [m \in Notices |-> IF m \in batch THEN "sent" ELSE row[m]]
  /\ batch' = {} /\ worker' = "polling"
  /\ UNCHANGED <<goroutines, retries, server, exits, ghosts>>

Mark(n) ==
  /\ Running
  /\ worker = "marking" /\ Oldest(n)
  /\ row' = [row EXCEPT ![n] = "sent"]
  /\ Done(n)
  /\ UNCHANGED <<goroutines, retries, server, exits, ghosts>>

\* The error of UpdateStatus is ignored, as is the one of IncrRetryCount; both
\* fail for the rest of the batch when its 30 seconds are over.
MarkFails(n) ==
  /\ Running
  /\ worker = "marking" /\ Oldest(n)
  /\ unmarked' = unmarked \cup {n}
  /\ Done(n)
  /\ UNCHANGED <<goroutines, table, server, exits, delivered>>

\* Mutants: the count of the whole batch is written; none is written.
CountBatch(n) ==
  /\ Running
  /\ worker = "counting" /\ Oldest(n)
  /\ retries' = [m \in Notices |-> retries[m] + IF m \in batch THEN 1 ELSE 0]
  /\ Done(n)
  /\ UNCHANGED <<goroutines, row, server, exits, ghosts>>
CountNothing(n) ==
  /\ Running
  /\ worker = "counting" /\ Oldest(n)
  /\ Done(n)
  /\ UNCHANGED <<goroutines, table, server, exits, ghosts>>

Count(n) ==
  /\ Running
  /\ worker = "counting" /\ Oldest(n)
  /\ retries' = [retries EXCEPT ![n] = @ + 1]
  /\ Done(n)
  /\ UNCHANGED <<goroutines, row, server, exits, ghosts>>

CountFails(n) ==
  /\ Running
  /\ worker = "counting" /\ Oldest(n)
  /\ Done(n)
  /\ UNCHANGED <<goroutines, table, server, exits, ghosts>>

WorkerReturns ==
  /\ server = "stopping" /\ worker = "polling"
  /\ worker' = "returned"
  /\ UNCHANGED <<goroutines, table, batch, server, exits, ghosts>>

-----------------------------------------------------------------------------
\* main.

Stop ==
  /\ server = "up" /\ exits < MaxExits
  /\ server' = "stopping"
  /\ UNCHANGED <<goroutines, table, worker, batch, exits, ghosts>>

\* main returns without waiting for the worker or for a goroutine; or a crash.
Exit ==
  /\ Running /\ exits < MaxExits
  /\ server' = "down"
  /\ exits' = exits + 1
  /\ notify' = [n \in Notices |->
                  IF notify[n] = "raised" THEN "over" ELSE notify[n]]
  /\ worker' = "polling" /\ batch' = {}
  /\ unmarked' = unmarked
                   \cup {n \in Notices : worker = "marking" /\ Oldest(n)}
  /\ UNCHANGED <<created, table, delivered>>

Restart ==
  /\ server = "down"
  /\ server' = "up"
  /\ UNCHANGED <<goroutines, table, worker, batch, exits, ghosts>>

Next ==
  \/ \E n \in Notices :
       \/ Raise(n) \/ Store(n) \/ StoreFails(n)
       \/ Send(n) \/ SendFails(n) \/ Mark(n) \/ MarkFails(n)
       \/ Count(n) \/ CountFails(n)
  \/ Poll \/ WorkerReturns \/ Stop \/ Exit \/ Restart

Spec == Init /\ [][Next]_vars

\* A process that runs goes on, one that was told to stop ends, and one that
\* ended is started again.  A statement may fail any number of times, but not
\* for ever on the same row: that the database answers again is strong fairness.
\* Nothing makes anybody raise a notice, store it, or end the process.
Fairness ==
  /\ WF_vars(Poll) /\ WF_vars(Restart)
  /\ WF_vars(server = "stopping" /\ Exit)
  /\ \A n \in Notices :
       /\ WF_vars(Send(n) \/ SendFails(n))
       /\ SF_vars(Mark(n)) /\ SF_vars(Count(n))

FairSpec == Spec /\ Fairness

-----------------------------------------------------------------------------
\* The row the worker has sent and not marked yet.
BeingMarked(n) == worker = "marking" /\ Oldest(n)

\* A notice that was sent is sent again only when its mark was lost, to an
\* error, the time limit or the end of the process: no row is in a batch that
\* a mark has settled, however batches and retries fall.
RepeatedOnlyIfUnmarked ==
  \A n \in batch \cap delivered : n \in unmarked \/ BeingMarked(n)

\* No notice is lost once it has a row: it is marked only when it was sent.
MarkedMeansSent == \A n \in Notices : row[n] = "sent" => n \in delivered

\* Why the two hold, for the proof.  The worker knows which row it has in hand:
\* no two notices are of the same age ...
AgesDiffer ==
  /\ \A n \in Notices : row[n] # "none" => notify[n] = "over"
  /\ \A n \in Raised : created[n] < Cardinality(Raised)
  /\ \A m, n \in Raised : created[m] = created[n] => m = n

\* ... a row that was sent and is not marked has lost its mark, and a batch has
\* rows only that may be sent.
UnsettledRows ==
  /\ \A n \in batch : BeingMarked(n) => n \in delivered
  /\ \A n \in delivered : row[n] # "none"
  /\ unmarked \subseteq delivered
  /\ \A n \in delivered : row[n] = "pending" => n \in unmarked \/ BeingMarked(n)
  /\ batch \subseteq Eligible

\* A stored notice is sent in the end, or failed to be sent MaxRetries times.  Rows
\* that keep failing do not hold up the younger ones for ever, although the
\* oldest come first and the batch is limited.
EveryRowSettled ==
  \A n \in Notices :
    row[n] = "pending" ~> row[n] = "sent" \/ retries[n] = MaxRetries

-----------------------------------------------------------------------------
\* A notice as NoticeDelivery sees it.  What a goroutine holds, or a batch that
\* was not sent yet, is not in sight.
Phase(n) ==
  CASE BeingMarked(n) -> "sent"
    [] ~ BeingMarked(n) /\ row[n] = "none" -> "none"
    [] ~ BeingMarked(n) /\ row[n] = "sent" -> "confirmed"
    [] ~ BeingMarked(n) /\ row[n] = "pending" ->
         IF n \in unmarked THEN "unconfirmed" ELSE "waiting"

Delivery == INSTANCE NoticeDelivery WITH
  phase <- [n \in Notices |-> Phase(n)],
  failures <- retries

\* The worker, its table and the process it dies with keep the promise of
\* NoticeDelivery: at least once, one at a time, never after the confirmation and
\* never after MaxRetries counted failures, although batches, crashes and
\* statements that fail leave the table and the batch out of step.
DeliveryKept == Delivery!Spec

=============================================================================
