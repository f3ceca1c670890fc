------------------------------ MODULE Migrate -------------------------------
(***************************************************************************)
(* database.Migrate, which main calls before it serves: it executes each   *)
(* file of migrations/ that table schema_migrations does not list, every   *)
(* one in a transaction of its own together with the row that lists it.    *)
(* No lock keeps two instances apart, and an error of any statement ends   *)
(* the process (logger.Fatal), as a crash or a shutdown does; whatever     *)
(* runs the container starts it again.  A transaction is visible to others *)
(* when it commits, but PostgreSQL makes them wait for the tables, indexes *)
(* and keys it creates.  A file is its rank in the order of the names; a   *)
(* release ships the files of the one before it and more.                  *)
(***************************************************************************)
EXTENDS Naturals

CONSTANTS
  Instances,   \* the processes that run on the database
  Ships,       \* how many files the release of each of them contains
  Tolerant     \* files that succeed a second time; 001 to 005 do not: each
               \* has a CREATE INDEX without IF NOT EXISTS

ASSUME MigrateAssumption == Ships \in [Instances -> Nat]

Files == UNION {1 .. Ships[i] : i \in Instances}

VARIABLES
  recorded,    \* schema_migrations.version
  times,       \* how often the statements of each file have been committed
  pc,          \* what each instance does next
  todo         \* the files the rest of its loop will not skip

vars == <<recorded, times, pc, todo>>

States == {"down", "read", "files", "record", "commit", "up"}
InLoop == {"files", "record", "commit"}

TypeOK ==
  /\ recorded \subseteq Files
  /\ times \in [Files -> Nat]
  /\ pc \in [Instances -> States]
  /\ todo \in [Instances -> SUBSET Files]
  /\ \A i \in Instances : /\ todo[i] \subseteq 1 .. Ships[i]
                          /\ pc[i] \notin InLoop => todo[i] = {}

Init ==
  /\ recorded = {}
  /\ times = [f \in Files |-> 0]
  /\ pc = [i \in Instances |-> "down"]
  /\ todo = [i \in Instances |-> {}]

Goto(i, next) == pc' = [pc EXCEPT ![i] = next]

\* Mutant: the names are not sorted.
FirstUnsorted(i, f) == f \in todo[i]

\* The file the loop of instance i is at.
First(i, f) == f \in todo[i] /\ \A g \in todo[i] : f <= g

\* Other instances whose open transaction has executed the file, or has
\* inserted its version.
Executed(i, f) ==
  {j \in Instances \ {i} : pc[j] \in {"record", "commit"} /\ First(j, f)}
Inserted(i, f) == {j \in Instances \ {i} : pc[j] = "commit" /\ First(j, f)}

\* The process starts and makes sure that schema_migrations is there.
Start(i) ==
  /\ pc[i] = "down"
  /\ Goto(i, "read")
  /\ UNCHANGED <<recorded, times, todo>>

\* The versions come in order.  When the connection breaks after file k the
\* list ends there, and nobody asks rows.Err whether it is complete.
Read(i, k) ==
  /\ pc[i] = "read"
  /\ todo' = [todo EXCEPT ![i] = {f \in 1 .. Ships[i] : f \in recorded => f > k}]
  /\ Goto(i, "files")
  /\ UNCHANGED <<recorded, times>>

ReadAll(i) == \E k \in Files \cup {0} : Read(i, k) /\ \A f \in Files : f <= k

Exec(i, f) ==
  /\ pc[i] = "files" /\ First(i, f)
  /\ f \in Tolerant \/ (times[f] = 0 /\ Executed(i, f) = {})
  /\ Goto(i, "record")
  /\ UNCHANGED <<recorded, times, todo>>

\* Mutant: INSERT ... ON CONFLICT DO NOTHING.
RecordUpsert(i, f) ==
  /\ pc[i] = "record" /\ First(i, f)
  /\ Inserted(i, f) = {}
  /\ Goto(i, "commit")
  /\ UNCHANGED <<recorded, times, todo>>

\* version is the primary key.
Record(i, f) ==
  /\ pc[i] = "record" /\ First(i, f)
  /\ f \notin recorded /\ Inserted(i, f) = {}
  /\ Goto(i, "commit")
  /\ UNCHANGED <<recorded, times, todo>>

Publish(f) ==
  /\ recorded' = recorded \cup {f}
  /\ times' = [times EXCEPT ![f] = @ + 1]

Commit(i, f) ==
  /\ pc[i] = "commit" /\ First(i, f)
  /\ Publish(f)
  /\ todo' = [todo EXCEPT ![i] = @ \ {f}]
  /\ Goto(i, "files")

Ends(i) == Goto(i, "down") /\ todo' = [todo EXCEPT ![i] = {}]

\* The database commits, but the answer does not arrive or finds nobody.
CommitUnheard(i, f) ==
  /\ pc[i] = "commit" /\ First(i, f)
  /\ Publish(f)
  /\ Ends(i)

\* Mutant: a file that cannot be executed is tried again.
RefusedRetried(i, f) ==
  /\ First(i, f) /\ pc[i] = "files" /\ f \notin Tolerant /\ times[f] > 0
  /\ UNCHANGED vars

\* The file, or its version, turns out to be there already.
Refused(i, f) ==
  /\ First(i, f)
  /\ \/ pc[i] = "files" /\ f \notin Tolerant /\ times[f] > 0
     \/ pc[i] = "record" /\ f \in recorded
  /\ Ends(i)
  /\ UNCHANGED <<recorded, times>>

\* Any error, a crash, or the end of a server: an open transaction is undone.
Fail(i) ==
  /\ pc[i] # "down"
  /\ Ends(i)
  /\ UNCHANGED <<recorded, times>>

\* Mutant: the first file that was applied before ends the loop.
ServeEarly(i) ==
  /\ pc[i] = "files"
  /\ \E f \in 1 .. Ships[i] : f \in recorded
  /\ Goto(i, "up")
  /\ UNCHANGED <<recorded, times, todo>>

Serve(i) ==
  /\ pc[i] = "files" /\ todo[i] = {}
  /\ Goto(i, "up")
  /\ UNCHANGED <<recorded, times, todo>>

Next ==
  \E i \in Instances :
    \/ Start(i) \/ Serve(i) \/ Fail(i)
    \/ \E k \in Files \cup {0} : Read(i, k)
    \/ \E f \in Files : \/ Exec(i, f) \/ Record(i, f) \/ Commit(i, f)
                        \/ CommitUnheard(i, f) \/ Refused(i, f)

Spec == Init /\ [][Next]_vars

\* What goes wrong from outside: an error, a crash or an end; a list cut short;
\* an answer that is lost.
Fault(i) ==
  \/ Fail(i) /\ ~ \E f \in Files : Refused(i, f)
  \/ \E k \in Files \cup {0} : Read(i, k) /\ ~ ReadAll(i)
  \/ \E f \in Files : CommitUnheard(i, f)

\* An instance that is down is started again, and one that runs goes on; there
\* may be any number of faults, but not for ever.
Fairness ==
  /\ \A i \in Instances :
       /\ WF_vars(Start(i) \/ ReadAll(i) \/ Serve(i))
       /\ WF_vars(\E f \in Files : \/ Exec(i, f) \/ Record(i, f)
                                   \/ Commit(i, f) \/ Refused(i, f))
  /\ <>[][\A i \in Instances : ~ Fault(i)]_vars

FairSpec == Spec /\ Fairness

-----------------------------------------------------------------------------
\* However instances start, run side by side and die, the statements of a file
\* are committed once, and schema_migrations lists exactly the files that were:
\* neither is the other instance's work repeated, nor a half-done file kept.
AppliedOnce == \A f \in Files : times[f] = IF f \in recorded THEN 1 ELSE 0

\* Why it holds, for the proof: what the loop will skip is listed, and of those
\* who are about to commit a file only one has got its version in.
SkipsRecorded ==
  \A i \in Instances : pc[i] \in InLoop => 1 .. Ships[i] \subseteq todo[i] \cup recorded
OneInserts ==
  \A i \in Instances, f \in Files :
    pc[i] = "commit" /\ First(i, f) => f \notin recorded /\ Inserted(i, f) = {}

IInv == TypeOK /\ AppliedOnce /\ SkipsRecorded /\ OneInserts

\* Every instance gets to serve again and again: a race with another one, a list
\* cut short or a transaction undone half-way never leaves a database on which
\* no instance can start.
EveryInstanceServes == \A i \in Instances : []<>(pc[i] = "up")

\* The promise of SchemaHistory: in order, once, and before serving.
History == INSTANCE SchemaHistory WITH
  runs <- times,
  serving <- {i \in Instances : pc[i] = "up"}
SchemaKept == History!Spec

=============================================================================
