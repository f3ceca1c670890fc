---------------------------- MODULE Migrate_proofs ---------------------------
(***************************************************************************)
(* Proofs that Migrate executes every file once and keeps the promise of   *)
(* SchemaHistory, for any number of instances and files.                   *)
(***************************************************************************)
EXTENDS Migrate, TLAPS

USE MigrateAssumption

\* Every file is a positive number, and a release consists of files.
LEMMA FilesOfReleases ==
  /\ Files \subseteq Nat \ {0}
  /\ \A i \in Instances : 1 .. Ships[i] \subseteq Files
BY DEF Files

\* The loop of an instance is at one file only.
LEMMA FirstIsOne ==
  ASSUME TypeOK, NEW i \in Instances, NEW f \in Files, NEW g \in Files,
         First(i, f), First(i, g)
  PROVE  f = g
<1>1. f \in Nat /\ g \in Nat
  BY FilesOfReleases
<1>2. f <= g /\ g <= f
  BY DEF First
<1>3. QED
  BY <1>1, <1>2

LEMMA InitInv == Init => IInv
<1>1. ASSUME Init PROVE TypeOK
  BY <1>1 DEF Init, TypeOK, States, InLoop
<1>2. ASSUME Init PROVE AppliedOnce /\ SkipsRecorded /\ OneInserts
  BY <1>2 DEF Init, AppliedOnce, SkipsRecorded, OneInserts, InLoop
<1>3. QED
  BY <1>1, <1>2 DEF IInv

-----------------------------------------------------------------------------
\* Steps that publish nothing.

\* An instance that ends, or is not in its transaction's last step, disturbs
\* none of the claims about the others.
LEMMA QuietStep ==
  ASSUME IInv, NEW i \in Instances, NEW next \in States,
         NEW rest \in SUBSET (1 .. Ships[i]),
         pc' = [pc EXCEPT ![i] = next], todo' = [todo EXCEPT ![i] = rest],
         next \notin InLoop => rest = {},
         next \in InLoop => 1 .. Ships[i] \subseteq rest \cup recorded,
         next # "commit",
         UNCHANGED <<recorded, times>>
  PROVE  IInv'
<1> USE DEF IInv
<1>1. TypeOK'
  BY FilesOfReleases DEF TypeOK
<1>2. AppliedOnce'
  BY DEF AppliedOnce
<1>3. SkipsRecorded'
  BY DEF SkipsRecorded, TypeOK
<1>4. OneInserts'
  <2> SUFFICES ASSUME NEW j \in Instances, NEW f \in Files,
                      pc'[j] = "commit", First(j, f)'
               PROVE  f \notin recorded /\ Inserted(j, f)' = {}
    BY DEF OneInserts
  <2>1. j # i /\ pc[j] = "commit" /\ First(j, f)
    BY DEF TypeOK, First
  <2>2. f \notin recorded /\ Inserted(j, f) = {}
    BY <2>1 DEF OneInserts
  <2>3. \A k \in Instances : pc'[k] = "commit" /\ First(k, f)'
                               => pc[k] = "commit" /\ First(k, f)
    BY DEF TypeOK, First
  <2>4. QED
    BY <2>2, <2>3 DEF Inserted
<1>5. QED
  BY <1>1, <1>2, <1>3, <1>4

\* A version is inserted where nobody has inserted it.
LEMMA RecordStep ==
  ASSUME IInv, NEW i \in Instances, NEW f \in Files, Record(i, f)
  PROVE  IInv'
<1> USE DEF IInv
<1>1. TypeOK'
  BY DEF Record, Goto, TypeOK, States, InLoop
<1>2. AppliedOnce' /\ SkipsRecorded'
  BY DEF Record, Goto, AppliedOnce, SkipsRecorded, TypeOK, InLoop
<1>3. OneInserts'
  <2> SUFFICES ASSUME NEW j \in Instances, NEW g \in Files,
                      pc'[j] = "commit", First(j, g)'
               PROVE  g \notin recorded /\ Inserted(j, g)' = {}
    BY DEF OneInserts, Record
  <2>1. \A k \in Instances, h \in Files : First(k, h)' <=> First(k, h)
    BY DEF Record, First
  <2>2. \A k \in Instances : k # i => pc'[k] = pc[k]
    BY DEF Record, Goto, TypeOK
  <2>3. CASE j = i
    <3>1. g = f
      BY <2>1, <2>3, FirstIsOne DEF Record
    <3>2. QED
      BY <2>1, <2>2, <2>3, <3>1 DEF Record, Inserted
  <2>4. CASE j # i
    <3>1. g \notin recorded /\ Inserted(j, g) = {}
      BY <2>1, <2>2, <2>4 DEF OneInserts
    <3>2. g # f
      BY <2>1, <2>2, <2>4 DEF Record, Inserted
    <3>3. ~ First(i, g)
      BY <3>2, FirstIsOne DEF Record
    <3>4. QED
      BY <2>1, <2>2, <3>1, <3>3 DEF Inserted
  <2>5. QED
    BY <2>3, <2>4
<1>4. QED
  BY <1>1, <1>2, <1>3

-----------------------------------------------------------------------------
\* Steps that publish a transaction.

\* Whoever commits a file has it in force for the first time.
LEMMA CommitsNew ==
  ASSUME IInv, NEW i \in Instances, NEW f \in Files,
         pc[i] = "commit", First(i, f)
  PROVE  f \notin recorded /\ times[f] = 0
BY DEF IInv, OneInserts, AppliedOnce

LEMMA PublishStep ==
  ASSUME IInv, NEW i \in Instances, NEW f \in Files, NEW next \in {"files", "down"},
         pc[i] = "commit", First(i, f), Publish(f),
         pc' = [pc EXCEPT ![i] = next],
         todo' = [todo EXCEPT ![i] = IF next = "files" THEN @ \ {f} ELSE {}]
  PROVE  IInv'
<1> USE DEF IInv
<1>1. f \notin recorded /\ times[f] = 0
  BY CommitsNew
<1>2. TypeOK'
  <2>1. times' \in [Files -> Nat] /\ recorded' \subseteq Files
    BY DEF Publish, TypeOK
  <2>2. pc' \in [Instances -> States]
    BY DEF TypeOK, States
  <2>3. todo' \in [Instances -> SUBSET Files]
    BY DEF TypeOK
  <2>4. \A j \in Instances : /\ todo'[j] \subseteq 1 .. Ships[j]
                             /\ pc'[j] \notin InLoop => todo'[j] = {}
    BY DEF TypeOK, InLoop
  <2>5. QED
    BY <2>1, <2>2, <2>3, <2>4 DEF TypeOK
<1>3. AppliedOnce'
  BY <1>1 DEF Publish, AppliedOnce, TypeOK
<1>4. SkipsRecorded'
  <2> SUFFICES ASSUME NEW j \in Instances, pc'[j] \in InLoop
               PROVE  1 .. Ships[j] \subseteq todo'[j] \cup recorded'
    BY DEF SkipsRecorded
  <2>1. 1 .. Ships[j] \subseteq todo[j] \cup recorded
    BY DEF SkipsRecorded, TypeOK, InLoop
  <2>2. todo[j] \subseteq todo'[j] \cup {f}
    BY DEF TypeOK, InLoop
  <2>3. QED
    BY <2>1, <2>2 DEF Publish
<1>5. OneInserts'
  <2> SUFFICES ASSUME NEW j \in Instances, NEW g \in Files,
                      pc'[j] = "commit", First(j, g)'
               PROVE  g \notin recorded' /\ Inserted(j, g)' = {}
    BY DEF OneInserts
  <2>1. \A k \in Instances : pc'[k] = "commit" =>
          k # i /\ pc[k] = "commit" /\ todo'[k] = todo[k]
    BY DEF TypeOK
  <2>2. \A k \in Instances : pc'[k] = "commit" /\ First(k, g)' => First(k, g)
    BY <2>1 DEF First
  <2>3. g \notin recorded /\ Inserted(j, g) = {}
    BY <2>1, <2>2 DEF OneInserts
  <2>4. g # f
    BY <2>1, <2>3 DEF Inserted
  <2>5. QED
    BY <2>1, <2>2, <2>3, <2>4 DEF Publish, Inserted
<1>6. QED
  BY <1>2, <1>3, <1>4, <1>5

LEMMA NextInv == IInv /\ [Next]_vars => IInv'
<1> SUFFICES ASSUME IInv, [Next]_vars PROVE IInv'
  OBVIOUS
<1> USE DEF Goto, Ends, States, InLoop
<1>1. ASSUME NEW i \in Instances PROVE todo[i] \subseteq 1 .. Ships[i]
  BY DEF IInv, TypeOK
<1>2. ASSUME NEW i \in Instances, NEW S, todo' = todo, S = todo[i]
      PROVE  todo' = [todo EXCEPT ![i] = S]
  BY <1>2 DEF IInv, TypeOK
<1>3. ASSUME NEW i \in Instances, Start(i) PROVE IInv'
  BY <1>1, <1>2, <1>3, QuietStep DEF Start, IInv, TypeOK
<1>4. ASSUME NEW i \in Instances, NEW k \in Files \cup {0}, Read(i, k)
      PROVE  IInv'
  <2> DEFINE rest == {f \in 1 .. Ships[i] : f \in recorded => f > k}
  <2>1. 1 .. Ships[i] \subseteq rest \cup recorded
    OBVIOUS
  <2>2. QED
    BY <1>4, <2>1, QuietStep DEF Read
<1>5. ASSUME NEW i \in Instances, NEW f \in Files, Exec(i, f) PROVE IInv'
  <2>1. 1 .. Ships[i] \subseteq todo[i] \cup recorded
    BY <1>5 DEF Exec, IInv, SkipsRecorded
  <2>2. QED
    BY <1>1, <1>2, <1>5, <2>1, QuietStep DEF Exec
<1>6. ASSUME NEW i \in Instances, NEW f \in Files, Record(i, f) PROVE IInv'
  BY <1>6, RecordStep
<1>7. ASSUME NEW i \in Instances, NEW f \in Files, Commit(i, f) PROVE IInv'
  BY <1>7, PublishStep DEF Commit
<1>8. ASSUME NEW i \in Instances, NEW f \in Files, CommitUnheard(i, f)
      PROVE  IInv'
  BY <1>8, PublishStep DEF CommitUnheard
<1>9. ASSUME NEW i \in Instances, Ends(i), UNCHANGED <<recorded, times>>
      PROVE  IInv'
  BY <1>9, QuietStep
<1>10. ASSUME NEW i \in Instances, Serve(i) PROVE IInv'
  BY <1>1, <1>2, <1>10, QuietStep DEF Serve
<1>11. CASE UNCHANGED vars
  BY <1>11 DEF vars, IInv, TypeOK, AppliedOnce, SkipsRecorded, OneInserts,
              First, Inserted
<1>12. QED
  BY <1>3, <1>4, <1>5, <1>6, <1>7, <1>8, <1>9, <1>10, <1>11
     DEF Next, Refused, Fail

-----------------------------------------------------------------------------
\* The inductive invariant holds in every reachable state.
LEMMA Invariance == Spec => []IInv
BY InitInv, NextInv, PTL DEF Spec

\* Every variable of the migration keeps its type, for any instances and files.
THEOREM TypeCorrect == Spec => []TypeOK
<1>1. IInv => TypeOK
  BY DEF IInv
<1>2. QED
  BY <1>1, Invariance, PTL

\* Whatever starts, races and dies, the statements of a file are committed once
\* and the table lists exactly the files whose were (migrate.go:66-81).
THEOREM EveryFileOnce == Spec => []AppliedOnce
<1>1. IInv => AppliedOnce
  BY DEF IInv
<1>2. QED
  BY <1>1, Invariance, PTL

\* An instance commits a file only when all the earlier ones are in force.
LEMMA CommitIsApply ==
  ASSUME IInv, NEW i \in Instances, NEW f \in Files,
         pc[i] = "commit", First(i, f), Publish(f),
         {j \in Instances : pc'[j] = "up"} = {j \in Instances : pc[j] = "up"}
  PROVE  History!Apply(f)
<1> USE DEF IInv
<1>1. f \notin recorded /\ times[f] = 0
  BY CommitsNew
<1>2. times' = [times EXCEPT ![f] = 1]
  BY <1>1 DEF Publish
<1>3. ASSUME NEW g \in Files, g < f PROVE times[g] = 1
  <2>1. f \in 1 .. Ships[i] /\ g \in 1 .. Ships[i]
    BY <1>3, FilesOfReleases DEF First, TypeOK
  <2>2. g \notin todo[i]
    BY <1>3, FilesOfReleases DEF First
  <2>3. g \in recorded
    BY <2>1, <2>2 DEF SkipsRecorded, InLoop
  <2>4. QED
    BY <2>3 DEF AppliedOnce
<1>4. QED
  BY <1>1, <1>2, <1>3 DEF History!Apply, History!InForce, History!Files, Files

LEMMA ServeIsServe ==
  ASSUME IInv, NEW i \in Instances, Serve(i)
  PROVE  History!Serve(i)
<1> USE DEF IInv
<1>1. \A f \in 1 .. Ships[i] : times[f] = 1
  BY FilesOfReleases DEF Serve, SkipsRecorded, AppliedOnce, InLoop
<1>2. {j \in Instances : pc'[j] = "up"} = {j \in Instances : pc[j] = "up"} \cup {i}
  BY DEF Serve, Goto, TypeOK
<1>3. QED
  BY <1>1, <1>2 DEF Serve, History!Serve, History!InForce

\* The migration implements SchemaHistory: files in order, each of them once,
\* and no server that answers on a schema older than its release.
THEOREM ImplementsHistory == Spec => SchemaKept
<1> DEFINE Serving == {j \in Instances : pc[j] = "up"}
<1>1. Init => History!Init
  BY DEF Init, History!Init, History!Files, Files
<1>2. ASSUME IInv, [Next]_vars PROVE [History!Next]_(History!history)
  <2> USE <1>2 DEF IInv
  <2>1. ASSUME NEW i \in Instances, NEW next \in States \ {"up"},
               Goto(i, next), pc[i] # "up", times' = times
        PROVE  UNCHANGED History!history
    BY <2>1 DEF Goto, TypeOK, History!history
  <2>2. ASSUME NEW i \in Instances, NEW f \in Files,
               Commit(i, f) \/ CommitUnheard(i, f)
        PROVE  History!Next
    <3>1. Serving' = Serving
      BY <2>2 DEF Commit, CommitUnheard, Goto, Ends, TypeOK
    <3>2. History!Apply(f)
      BY <2>2, <3>1, CommitIsApply DEF Commit, CommitUnheard
    <3>3. QED
      BY <3>2 DEF History!Next, History!Files, Files
  <2>3. ASSUME NEW i \in Instances, Serve(i) PROVE History!Next
    BY <2>3, ServeIsServe DEF History!Next
  <2>4. ASSUME NEW i \in Instances, Ends(i), times' = times
        PROVE  History!Next
    <3>1. Serving' = Serving \ {i}
      BY <2>4 DEF Ends, Goto, TypeOK
    <3>2. History!Leave(i)
      BY <2>4, <3>1 DEF History!Leave
    <3>3. QED
      BY <3>2 DEF History!Next
  <2>5. ASSUME NEW i \in Instances,
               \/ Start(i)
               \/ \E k \in Files \cup {0} : Read(i, k)
               \/ \E f \in Files : Exec(i, f) \/ Record(i, f)
        PROVE  UNCHANGED History!history
    BY <2>1, <2>5 DEF Start, Read, Exec, Record, States
  <2>6. CASE UNCHANGED vars
    BY <2>6 DEF vars, History!history
  <2>7. QED
    BY <1>2, <2>2, <2>3, <2>4, <2>5, <2>6 DEF Next, Refused, Fail
<1>3. QED
  BY <1>1, <1>2, Invariance, PTL DEF Spec, SchemaKept, History!Spec

=============================================================================
