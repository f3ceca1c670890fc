---------------------------- MODULE SchemaHistory ---------------------------
(***************************************************************************)
(* What database.Migrate promises to main, told without transactions,      *)
(* errors or restarts: the files of migrations/ come into force one by one *)
(* in the order of their names, each of them once, and a server answers    *)
(* requests only on the schema its release was written for.                *)
(***************************************************************************)
EXTENDS Naturals

CONSTANTS
  Instances,   \* the processes that run on the database
  Ships        \* how many files the release of each of them contains

Files == UNION {1 .. Ships[i] : i \in Instances}

VARIABLES
  runs,        \* how often each file has been executed
  serving      \* the instances that answer requests

history == <<runs, serving>>

Init ==
  /\ runs = [f \in Files |-> 0]
  /\ serving = {}

InForce(f) == runs[f] = 1

Apply(f) ==
  /\ runs[f] = 0
  /\ \A g \in Files : g < f => InForce(g)
  /\ runs' = [runs EXCEPT ![f] = 1]
  /\ UNCHANGED serving

Serve(i) ==
  /\ i \notin serving
  /\ \A f \in 1 .. Ships[i] : InForce(f)
  /\ serving' = serving \cup {i}
  /\ UNCHANGED runs

Leave(i) ==
  /\ serving' = serving \ {i}
  /\ UNCHANGED runs

Next ==
  \/ \E f \in Files : Apply(f)
  \/ \E i \in Instances : Serve(i) \/ Leave(i)

Spec == Init /\ [][Next]_history

=============================================================================
