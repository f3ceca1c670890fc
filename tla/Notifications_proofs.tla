------------------------- MODULE Notifications_proofs ------------------------
(***************************************************************************)
(* What holds of Notifications for any number of notices, any batch limit  *)
(* and any number of ends of the process.                                  *)
(***************************************************************************)
EXTENDS Notifications, FiniteSetTheorems, TLAPS

USE DEF table, goroutines, ghosts

LEMMA InitTypeOK == Init => TypeOK
  BY NotificationAssumption DEF Init, TypeOK

\* The steps that start and store a notice, and those of the worker on a row.
LEMMA NoticeTypeOK ==
  ASSUME TypeOK, NEW n \in Notices, Raise(n) \/ Store(n) \/ StoreFails(n)
  PROVE  TypeOK'
  <1>1. CASE Raise(n)
    <2>1. Cardinality(Raised) \in Nat
      BY NotificationAssumption, FS_Subset, FS_CardinalityType DEF Raised
    <2> QED
      BY <1>1, <2>1 DEF Raise, TypeOK
  <1>2. CASE Store(n)
    BY <1>2 DEF Store, TypeOK
  <1>3. CASE StoreFails(n)
    BY <1>3 DEF StoreFails, TypeOK
  <1> QED
    BY <1>1, <1>2, <1>3

LEMMA DoneTypeOK ==
  ASSUME TypeOK, NEW n \in Notices, Oldest(n), Done(n)
  PROVE  /\ worker' \in {"polling", "sending"}
         /\ batch' \subseteq Notices
         /\ worker' \in {"polling", "returned"} <=> batch' = {}
  BY DEF TypeOK, Done, Oldest

LEMMA RowTypeOK ==
  ASSUME TypeOK, NEW n \in Notices,
         Send(n) \/ SendFails(n) \/ Mark(n) \/ MarkFails(n) \/ Count(n)
           \/ CountFails(n), UnsettledRows
  PROVE  TypeOK'
  <1>1. CASE Send(n)
    BY <1>1 DEF Send, TypeOK, Oldest
  <1>2. CASE SendFails(n)
    BY <1>2 DEF SendFails, TypeOK, Oldest
  <1>3. CASE Mark(n)
    BY <1>3, DoneTypeOK DEF Mark, TypeOK
  <1>4. CASE MarkFails(n)
    BY <1>4, DoneTypeOK DEF MarkFails, TypeOK
  <1>5. CASE Count(n)
    <2>1. retries[n] < MaxRetries
      BY <1>5 DEF Count, Oldest, UnsettledRows, Eligible
    <2>2. retries' \in [Notices -> 0 .. MaxRetries]
      BY <1>5, <2>1, NotificationAssumption DEF Count, TypeOK
    <2> QED
      BY <1>5, <2>2, DoneTypeOK DEF Count, TypeOK
  <1>6. CASE CountFails(n)
    BY <1>6, DoneTypeOK DEF CountFails, TypeOK
  <1> QED
    BY <1>1, <1>2, <1>3, <1>4, <1>5, <1>6

LEMMA NextTypeOK == TypeOK /\ UnsettledRows /\ [Next]_vars => TypeOK'
  <1> SUFFICES ASSUME TypeOK, UnsettledRows, [Next]_vars PROVE TypeOK'
    OBVIOUS
  <1>1. CASE Poll
    BY <1>1 DEF Poll, Fetched, TypeOK, PendingBatch, Eligible
  <1>2. CASE WorkerReturns
    BY <1>2 DEF WorkerReturns, TypeOK
  <1>3. CASE Stop
    BY <1>3 DEF Stop, TypeOK
  <1>4. CASE Exit
    <2>1. exits' \in 0 .. MaxExits
      BY <1>4, NotificationAssumption DEF Exit, TypeOK
    <2> QED
      BY <1>4, <2>1 DEF Exit, TypeOK
  <1>5. CASE Restart
    BY <1>5 DEF Restart, TypeOK
  <1>6. CASE UNCHANGED vars
    BY <1>6 DEF vars, TypeOK
  <1> QED
    BY <1>1, <1>2, <1>3, <1>4, <1>5, <1>6, NoticeTypeOK, RowTypeOK DEF Next

-----------------------------------------------------------------------------
\* created is the number of notices raised before, so it grows with each.
LEMMA NextAgesDiffer ==
  TypeOK /\ AgesDiffer /\ UnsettledRows /\ [Next]_vars => AgesDiffer'
  <1> SUFFICES ASSUME TypeOK, AgesDiffer, UnsettledRows, [Next]_vars
      PROVE AgesDiffer'
    OBVIOUS
  <1>1. ASSUME NEW n \in Notices, Raise(n) PROVE AgesDiffer'
    <2>1. IsFiniteSet(Raised) /\ n \notin Raised
      BY <1>1, NotificationAssumption, FS_Subset DEF Raised, Raise
    <2>2. Raised' = Raised \cup {n}
      BY <1>1 DEF Raised, Raise, TypeOK
    <2>3. /\ Cardinality(Raised) \in Nat
          /\ Cardinality(Raised') = Cardinality(Raised) + 1
      BY <2>1, <2>2, FS_AddElement, FS_CardinalityType
    <2>4. \A m \in Notices : m # n => created'[m] = created[m]
      BY <1>1 DEF Raise, TypeOK
    <2>5. created'[n] = Cardinality(Raised) /\ row' = row
      BY <1>1 DEF Raise, TypeOK
    <2>6. \A m \in Raised : m \in Notices /\ created[m] \in Nat
      BY DEF Raised, TypeOK
    <2>7. \A m \in Raised : created[m] < Cardinality(Raised)
      BY DEF AgesDiffer
    <2>8. \A m \in Raised' : created'[m] < Cardinality(Raised')
      BY <2>1, <2>2, <2>3, <2>4, <2>5, <2>6, <2>7
    <2>9. \A m, k \in Raised' : created'[m] = created'[k] => m = k
      <3> SUFFICES ASSUME NEW m \in Raised', NEW k \in Raised',
                          created'[m] = created'[k]
                   PROVE  m = k
        OBVIOUS
      <3>1. CASE m = n
        BY <3>1, <2>1, <2>2, <2>3, <2>4, <2>5, <2>6, <2>7
      <3>2. CASE k = n
        BY <3>2, <2>1, <2>2, <2>3, <2>4, <2>5, <2>6, <2>7
      <3>3. CASE m # n /\ k # n
        BY <3>3, <2>2, <2>4, <2>6 DEF AgesDiffer
      <3> QED
        BY <3>1, <3>2, <3>3
    <2>10. \A m \in Notices : row'[m] # "none" => notify'[m] = "over"
      BY <1>1, <2>5 DEF Raise, AgesDiffer, TypeOK
    <2> QED
      BY <2>8, <2>9, <2>10 DEF AgesDiffer
  <1>2. ASSUME NEW n \in Notices, Store(n) PROVE AgesDiffer'
    <2>1. Raised' = Raised /\ created' = created
      BY <1>2 DEF Store, Raised, TypeOK
    <2>2. \A m \in Notices : row'[m] # "none" => notify'[m] = "over"
      BY <1>2 DEF Store, Raised, AgesDiffer, TypeOK
    <2> QED
      BY <2>1, <2>2 DEF AgesDiffer
  <1>3. ASSUME NEW n \in Notices, Mark(n) PROVE AgesDiffer'
    <2>1. Raised' = Raised /\ created' = created
      BY <1>3 DEF Mark, Raised
    <2>2. row[n] = "pending"
      BY <1>3 DEF Mark, Oldest, UnsettledRows, Eligible
    <2>3. \A m \in Notices : row'[m] # "none" => notify'[m] = "over"
      BY <1>3, <2>2 DEF Mark, AgesDiffer, TypeOK
    <2> QED
      BY <2>1, <2>3 DEF AgesDiffer
  <1>4. ASSUME Raised' = Raised, UNCHANGED <<created, row>>,
               \A m \in Notices : notify[m] = "over" => notify'[m] = "over"
        PROVE  AgesDiffer'
    BY <1>4 DEF AgesDiffer
  <1>5. ASSUME NEW n \in Notices,
               StoreFails(n) \/ Send(n) \/ SendFails(n) \/ MarkFails(n)
                 \/ Count(n) \/ CountFails(n)
        PROVE  AgesDiffer'
    BY <1>4, <1>5 DEF StoreFails, Send, SendFails, MarkFails, Count, CountFails,
                      Raised, TypeOK
  <1>6. CASE Poll \/ WorkerReturns \/ Stop \/ Restart \/ UNCHANGED vars
    BY <1>4, <1>6 DEF Poll, WorkerReturns, Stop, Restart, vars, Raised
  <1>7. CASE Exit
    BY <1>4, <1>7 DEF Exit, Raised, TypeOK
  <1> QED
    BY <1>1, <1>2, <1>3, <1>5, <1>6, <1>7 DEF Next

-----------------------------------------------------------------------------
\* A row in the worker's hands is older than every other of the batch.
LEMMA OldestIsOne ==
  ASSUME TypeOK, AgesDiffer, UnsettledRows,
         NEW m \in Notices, NEW n \in Notices, Oldest(m), Oldest(n)
  PROVE  m = n
  <1>1. row[m] # "none" /\ row[n] # "none"
    BY DEF Oldest, UnsettledRows, Eligible
  <1>2. created[m] \in Nat /\ created[n] \in Nat /\ created[m] = created[n]
    BY DEF Oldest, TypeOK
  <1> QED
    BY <1>1, <1>2 DEF AgesDiffer, Raised

\* A row leaves the batch when it is marked or has lost its mark, and a row
\* enters it only if it may be sent.
LEMMA NextUnsettledRows ==
  TypeOK /\ AgesDiffer /\ UnsettledRows /\ [Next]_vars => UnsettledRows'
  <1> SUFFICES ASSUME TypeOK, AgesDiffer, UnsettledRows, [Next]_vars
      PROVE  UnsettledRows'
    OBVIOUS
  <1> USE DEF UnsettledRows, BeingMarked, Eligible, Oldest
  <1>1. ASSUME NEW n \in Notices, Raise(n) PROVE UnsettledRows'
    <2>1. notify[n] = "quiet" /\ \A m \in batch : m # n
      BY <1>1 DEF Raise, AgesDiffer, Raised
    <2>2. \A m \in batch : created'[m] = created[m]
      BY <1>1, <2>1 DEF Raise, TypeOK
    <2> QED
      BY <1>1, <2>2 DEF Raise
  <1>2. ASSUME NEW n \in Notices, Store(n) PROVE UnsettledRows'
    BY <1>2 DEF Store, TypeOK, AgesDiffer
  <1>3. ASSUME NEW n \in Notices, Send(n) PROVE UnsettledRows'
    BY <1>3, OldestIsOne DEF Send, TypeOK
  <1>4. ASSUME NEW n \in Notices, SendFails(n) PROVE UnsettledRows'
    BY <1>4 DEF SendFails
  <1>5. ASSUME NEW n \in Notices, Mark(n) PROVE UnsettledRows'
    BY <1>5, OldestIsOne DEF Mark, Done, TypeOK
  <1>6. ASSUME NEW n \in Notices, MarkFails(n) PROVE UnsettledRows'
    BY <1>6, OldestIsOne DEF MarkFails, Done, TypeOK
  <1>7. ASSUME NEW n \in Notices, Count(n) PROVE UnsettledRows'
    BY <1>7 DEF Count, Done, TypeOK
  <1>8. ASSUME NEW n \in Notices, CountFails(n) PROVE UnsettledRows'
    BY <1>8 DEF CountFails, Done, TypeOK
  <1>9. CASE Poll
    BY <1>9 DEF Poll, Fetched, PendingBatch
  <1>10. CASE Exit
    BY <1>10 DEF Exit, TypeOK
  <1>11. ASSUME NEW n \in Notices, StoreFails(n) PROVE UnsettledRows'
    BY <1>11 DEF StoreFails
  <1>12. CASE WorkerReturns
    BY <1>12 DEF WorkerReturns, TypeOK
  <1>13. CASE Stop \/ Restart \/ UNCHANGED vars
    BY <1>13 DEF Stop, Restart, vars
  <1> QED
    BY <1>1, <1>2, <1>3, <1>4, <1>5, <1>6, <1>7, <1>8, <1>9, <1>10, <1>11,
       <1>12, <1>13 DEF Next

LEMMA InitRows == Init => AgesDiffer /\ UnsettledRows
  BY DEF Init, AgesDiffer, UnsettledRows, Raised

LEMMA RowsAreKept == Spec => [](TypeOK /\ AgesDiffer /\ UnsettledRows)
  BY InitTypeOK, InitRows, NextTypeOK, NextAgesDiffer, NextUnsettledRows, PTL
     DEF Spec

\* Every variable keeps its type; the retry count, which the code does not look
\* at when it adds to it, never passes the limit.
THEOREM TypeCorrect == Spec => []TypeOK
  BY RowsAreKept, PTL

\* Whatever fails and whenever the process ends, a notice is sent again only if
\* the mark of an earlier send was lost.
THEOREM RepeatsAreExplained == Spec => []RepeatedOnlyIfUnmarked
  <1>1. UnsettledRows => RepeatedOnlyIfUnmarked
    BY DEF UnsettledRows, RepeatedOnlyIfUnmarked, Eligible
  <1> QED
    BY <1>1, RowsAreKept, PTL

\* A row is marked only when its notice was sent, so that none is lost.
THEOREM MarksAreEarned == Spec => []MarkedMeansSent
  <1>1. Init => MarkedMeansSent
    BY DEF Init, MarkedMeansSent
  <1>2. ASSUME TypeOK, UnsettledRows, MarkedMeansSent, NEW n \in Notices, Mark(n)
        PROVE  MarkedMeansSent'
    BY <1>2 DEF Mark, MarkedMeansSent, UnsettledRows, BeingMarked, Oldest, TypeOK
  <1>3. TypeOK /\ UnsettledRows /\ MarkedMeansSent /\ [Next]_vars
          => MarkedMeansSent'
    BY <1>2 DEF Next, vars, MarkedMeansSent, TypeOK, Raise, Store, StoreFails,
       Send, SendFails, MarkFails, Count, CountFails, Poll, WorkerReturns, Stop,
       Exit, Restart
  <1> QED
    BY <1>1, <1>3, RowsAreKept, PTL DEF Spec

-----------------------------------------------------------------------------
\* The refinement of NoticeDelivery: the notice in its hand is the row the worker
\* has sent and not marked; what moves is seen when that row, the table or
\* unmarked changes.

\* At most one notice is in hand: the oldest of the batch, while it is marked.
LEMMA OneInHand ==
  ASSUME TypeOK, AgesDiffer, UnsettledRows, NEW n \in Notices, Oldest(n)
  PROVE  \A m \in Notices : BeingMarked(m) <=> worker = "marking" /\ m = n
  BY OldestIsOne DEF BeingMarked

LEMMA NoneInHand ==
  ASSUME worker # "marking"
  PROVE  \A m \in Notices : ~ BeingMarked(m)
  BY DEF BeingMarked

LEMMA Unseen ==
  ASSUME TypeOK, UNCHANGED <<row, unmarked>>,
         \A m \in Notices : BeingMarked(m)' <=> BeingMarked(m)
  PROVE  \A m \in Notices : Phase(m)' = Phase(m)
  BY DEF Phase, TypeOK

LEMMA OneMoves ==
  ASSUME NEW n \in Notices, NEW from, NEW to,
         Phase(n) \in from, Phase(n)' = to, retries' = retries,
         \A m \in Notices \ {n} : Phase(m)' = Phase(m)
  PROVE  Delivery!Move(n, from, to)
  BY DEF Delivery!Move

\* A row of a batch that is not being marked may be tried.
LEMMA OldestMayBeTried ==
  ASSUME TypeOK, AgesDiffer, UnsettledRows, NEW n \in Notices, Oldest(n),
         worker # "marking"
  PROVE  /\ Delivery!MayBeTried(n)
         /\ Phase(n) \in {"waiting", "unconfirmed"}
  <1>1. \A m \in Notices : ~ BeingMarked(m)
    BY NoneInHand
  <1>2. \A m \in Notices : Phase(m) # "sent"
    BY <1>1 DEF Phase, TypeOK
  <1>3. row[n] = "pending" /\ retries[n] < MaxRetries
    BY DEF Oldest, UnsettledRows, Eligible
  <1>4. Phase(n) \in {"waiting", "unconfirmed"}
    BY <1>1, <1>3 DEF Phase
  <1> QED
    BY <1>2, <1>3, <1>4 DEF Delivery!MayBeTried, Delivery!InHand

\* The goroutine's INSERT is Store.
LEMMA StoreIsStore ==
  ASSUME TypeOK, UnsettledRows, NEW n \in Notices, row[n] = "none", Store(n)
  PROVE  Delivery!Store(n)
  <1>1. \A m \in Notices : BeingMarked(m)' <=> BeingMarked(m)
    BY DEF Store, BeingMarked, Oldest
  <1>2. n \notin batch /\ n \notin unmarked
    BY DEF UnsettledRows, Eligible
  <1>3. ~ BeingMarked(n)
    BY <1>2 DEF BeingMarked, Oldest
  <1>4. row'[n] = "pending" /\ unmarked' = unmarked /\ retries' = retries
    BY DEF Store, TypeOK
  <1>5. Phase(n) = "none" /\ Phase(n)' = "waiting"
    BY <1>1, <1>2, <1>3, <1>4 DEF Phase
  <1>6. \A m \in Notices \ {n} : row'[m] = row[m]
    BY DEF Store, TypeOK
  <1>7. \A m \in Notices \ {n} : Phase(m)' = Phase(m)
    BY <1>1, <1>4, <1>6 DEF Phase, TypeOK
  <1> QED
    BY <1>4, <1>5, <1>7, OneMoves DEF Delivery!Store

LEMMA SendIsSend ==
  ASSUME TypeOK, AgesDiffer, UnsettledRows, NEW n \in Notices, Send(n)
  PROVE  Delivery!Send(n)
  <1>1. Oldest(n) /\ worker = "sending" /\ worker' = "marking"
    BY DEF Send
  <1>2. UNCHANGED <<created, row, retries, batch, unmarked>>
    BY DEF Send
  <1>3. \A m \in Notices : Oldest(m)' <=> Oldest(m)
    BY <1>2 DEF Oldest
  <1>4. \A m \in Notices : BeingMarked(m)' <=> m = n
    BY <1>1, <1>3, OldestIsOne DEF BeingMarked
  <1>5. \A m \in Notices : ~ BeingMarked(m)
    BY <1>1, NoneInHand
  <1>6. Phase(n)' = "sent"
    BY <1>4 DEF Phase
  <1>7. \A m \in Notices \ {n} : Phase(m)' = Phase(m)
    BY <1>2, <1>4, <1>5 DEF Phase, TypeOK
  <1> QED
    BY <1>1, <1>2, <1>6, <1>7, OldestMayBeTried, OneMoves DEF Delivery!Send

\* After a mark, written or lost, nothing is in hand.
LEMMA MarkIsConfirm ==
  ASSUME TypeOK, AgesDiffer, UnsettledRows, NEW n \in Notices
  PROVE  /\ Mark(n) => Delivery!Confirm(n)
         /\ MarkFails(n) => Delivery!LoseConfirmation(n)
  <1> SUFFICES ASSUME Mark(n) \/ MarkFails(n)
               PROVE  /\ Mark(n) => Delivery!Confirm(n)
                      /\ MarkFails(n) => Delivery!LoseConfirmation(n)
    OBVIOUS
  <1>1. Oldest(n) /\ worker = "marking" /\ worker' # "marking"
    BY DEF Mark, MarkFails, Done
  <1>2. \A m \in Notices : BeingMarked(m) <=> m = n
    BY <1>1, OneInHand
  <1>3. \A m \in Notices : ~ BeingMarked(m)'
    BY <1>1 DEF BeingMarked
  <1>4. Phase(n) = "sent"
    BY <1>2 DEF Phase
  <1>5. \A m \in Notices \ {n} : /\ row'[m] = row[m]
                                 /\ m \in unmarked' <=> m \in unmarked
    BY DEF Mark, MarkFails, TypeOK
  <1>6. \A m \in Notices \ {n} : Phase(m)' = Phase(m)
    BY <1>2, <1>3, <1>5 DEF Phase, TypeOK
  <1>7. retries' = retries
    BY DEF Mark, MarkFails
  <1>8. ASSUME Mark(n) PROVE Delivery!Confirm(n)
    <2>1. row'[n] = "sent"
      BY <1>8 DEF Mark, TypeOK
    <2>2. Phase(n)' = "confirmed"
      BY <2>1, <1>3 DEF Phase
    <2> QED
      BY <2>2, <1>4, <1>6, <1>7, OneMoves DEF Delivery!Confirm
  <1>9. ASSUME MarkFails(n) PROVE Delivery!LoseConfirmation(n)
    <2>1. row'[n] = "pending" /\ n \in unmarked'
      BY <1>1, <1>9 DEF MarkFails, Oldest, UnsettledRows, Eligible
    <2>2. Phase(n)' = "unconfirmed"
      BY <2>1, <1>3 DEF Phase
    <2> QED
      BY <2>2, <1>4, <1>6, <1>7, OneMoves DEF Delivery!LoseConfirmation
  <1> QED
    BY <1>8, <1>9

LEMMA CountIsFail ==
  ASSUME TypeOK, AgesDiffer, UnsettledRows, NEW n \in Notices, Count(n)
  PROVE  Delivery!Fail(n)
  <1>1. Oldest(n) /\ worker # "marking" /\ worker' # "marking"
    BY DEF Count, Done
  <1>2. \A m \in Notices : ~ BeingMarked(m) /\ ~ BeingMarked(m)'
    BY <1>1 DEF BeingMarked
  <1>3. \A m \in Notices : Phase(m)' = Phase(m)
    BY <1>2, Unseen DEF Count
  <1> QED
    BY <1>1, <1>3, OldestMayBeTried DEF Delivery!Fail, Count

\* The end of the process loses the mark of the row in hand, if there is one.
LEMMA ExitIsLoss ==
  ASSUME TypeOK, AgesDiffer, UnsettledRows, Exit
  PROVE  [Delivery!Next]_(Delivery!delivery)
  <1>1. worker' # "marking" /\ UNCHANGED <<row, retries>>
    BY DEF Exit
  <1>2. \A m \in Notices : ~ BeingMarked(m)'
    BY <1>1 DEF BeingMarked
  <1>3. unmarked' = unmarked \cup {m \in Notices : BeingMarked(m)}
    BY DEF Exit, BeingMarked
  <1>4. ASSUME NEW n \in Notices, BeingMarked(n)
        PROVE  Delivery!LoseConfirmation(n)
    <2>1. \A m \in Notices : BeingMarked(m) <=> m = n
      BY <1>4, OneInHand DEF BeingMarked
    <2>2. Phase(n) = "sent"
      BY <1>4 DEF Phase
    <2>3. row'[n] = "pending"
      BY <1>1, <1>4 DEF BeingMarked, Oldest, UnsettledRows, Eligible
    <2>4. Phase(n)' = "unconfirmed"
      BY <1>2, <1>3, <1>4, <2>3 DEF Phase
    <2>5. \A m \in Notices \ {n} : Phase(m)' = Phase(m)
      BY <1>1, <1>2, <1>3, <2>1 DEF Phase, TypeOK
    <2> QED
      BY <1>1, <2>2, <2>4, <2>5, OneMoves DEF Delivery!LoseConfirmation
  <1>5. ASSUME \A m \in Notices : ~ BeingMarked(m)
        PROVE  UNCHANGED Delivery!delivery
    <2>1. unmarked' = unmarked
      BY <1>3, <1>5
    <2>2. \A m \in Notices : Phase(m)' = Phase(m)
      BY <1>1, <1>2, <1>5, <2>1, Unseen
    <2> QED
      BY <1>1, <2>2 DEF Delivery!delivery
  <1> QED
    BY <1>4, <1>5 DEF Delivery!Next

\* Whatever else happens is not seen: notices that are raised, batches that are
\* fetched, sends that fail and counts that are lost.
LEMMA OtherStepsUnseen ==
  ASSUME TypeOK, AgesDiffer, UnsettledRows,
         \/ \E n \in Notices : \/ Raise(n) \/ StoreFails(n) \/ SendFails(n)
                               \/ CountFails(n)
         \/ Poll \/ WorkerReturns \/ Stop \/ Restart \/ UNCHANGED vars
  PROVE  UNCHANGED Delivery!delivery
  <1>1. SUFFICES \A m \in Notices : BeingMarked(m)' <=> BeingMarked(m)
    <2>1. UNCHANGED <<row, unmarked, retries>>
      BY DEF Raise, StoreFails, SendFails, CountFails, Poll, WorkerReturns,
             Stop, Restart, vars
    <2>2. \A m \in Notices : Phase(m)' = Phase(m)
      BY <1>1, <2>1, Unseen
    <2> QED
      BY <2>1, <2>2 DEF Delivery!delivery
  <1>2. ASSUME NEW n \in Notices, Raise(n)
        PROVE  \A m \in Notices : BeingMarked(m)' <=> BeingMarked(m)
    <2>1. batch' = batch /\ worker' = worker
      BY <1>2 DEF Raise
    <2>2. \A m \in batch : m \in Notices /\ m # n
      BY <1>2 DEF Raise, UnsettledRows, Eligible, AgesDiffer
    <2>3. \A m \in batch : created'[m] = created[m]
      BY <1>2, <2>2 DEF Raise, TypeOK
    <2> QED
      BY <2>1, <2>3 DEF BeingMarked, Oldest
  <1>3. ASSUME worker # "marking" /\ worker' # "marking"
        PROVE  \A m \in Notices : BeingMarked(m)' <=> BeingMarked(m)
    BY <1>3 DEF BeingMarked
  <1>4. ASSUME UNCHANGED <<worker, batch, created>>
        PROVE  \A m \in Notices : BeingMarked(m)' <=> BeingMarked(m)
    BY <1>4 DEF BeingMarked, Oldest
  <1> QED
    BY <1>2, <1>3, <1>4 DEF StoreFails, SendFails, CountFails, Done, Poll,
       WorkerReturns, Stop, Restart, vars

\* Notifications implements NoticeDelivery, for any notices, batch limit, number
\* of retries and ends of the process.
THEOREM ImplementsDelivery == Spec => DeliveryKept
  <1>1. Init => Delivery!Init
    BY DEF Init, Delivery!Init, Phase, BeingMarked
  <1>2. ASSUME TypeOK, AgesDiffer, UnsettledRows, [Next]_vars
        PROVE  [Delivery!Next]_(Delivery!delivery)
    <2> USE <1>2
    <2>1. ASSUME NEW n \in Notices, Store(n) PROVE Delivery!Next
      <3>1. row[n] = "none"
        BY <2>1 DEF Store, AgesDiffer
      <3> QED
        BY <2>1, <3>1, StoreIsStore DEF Delivery!Next
    <2>2. ASSUME NEW n \in Notices, Send(n) PROVE Delivery!Next
      BY <2>2, SendIsSend DEF Delivery!Next
    <2>3. ASSUME NEW n \in Notices, Mark(n) \/ MarkFails(n)
          PROVE  Delivery!Next
      BY <2>3, MarkIsConfirm DEF Delivery!Next
    <2>4. ASSUME NEW n \in Notices, Count(n) PROVE Delivery!Next
      BY <2>4, CountIsFail DEF Delivery!Next
    <2> QED
      BY <2>1, <2>2, <2>3, <2>4, ExitIsLoss, OtherStepsUnseen DEF Next
  <1> QED
    BY <1>1, <1>2, RowsAreKept, PTL DEF Spec, DeliveryKept, Delivery!Spec

=============================================================================
