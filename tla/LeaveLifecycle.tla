---------------------------- MODULE LeaveLifecycle --------------------------
(***************************************************************************)
(* What the approval of leaves promises, told without requests, statements *)
(* or tables: a leave is submitted with the signatures it calls for; each  *)
(* signature is given or refused once; the leave is approved when all of   *)
(* them, or the system's own, are given, rejected when one is refused, or  *)
(* withdrawn before that; and what is settled stays settled.               *)
(***************************************************************************)
EXTENDS ApprovalPolicy

CONSTANT Leaves

VARIABLES state,    \* where each leave stands
          demand,   \* the human signatures it calls for
          verdict   \* what has become of each signature

lifecycle == <<state, demand, verdict>>

\* The system signs only where no human has been asked to.
Signatures == [ApproverTypes -> {"open", "approved", "rejected"}]
Unsigned == [t \in ApproverTypes |-> "open"]

Init ==
  /\ state = [l \in Leaves |-> "none"]
  /\ demand = [l \in Leaves |-> {}]
  /\ verdict = [l \in Leaves |-> Unsigned]

Submit(l) ==
  /\ state[l] = "none"
  /\ state' = [state EXCEPT ![l] = "pending"]
  /\ \E D \in SUBSET ManualSteps :
       /\ "manager" \in D
       /\ demand' = [demand EXCEPT ![l] = D]
  /\ UNCHANGED verdict

Sign(l, t, v) ==
  /\ state[l] = "pending"
  /\ verdict[l][t] = "open"
  /\ IF t = "system" THEN v = "approved" /\ verdict[l] = Unsigned
                     ELSE t \in demand[l] /\ verdict[l]["system"] = "open"
  /\ verdict' = [verdict EXCEPT ![l][t] = v]
  /\ UNCHANGED <<state, demand>>

Settle(l, outcome) ==
  /\ state[l] = "pending"
  /\ state' = [state EXCEPT ![l] = outcome]
  /\ UNCHANGED <<demand, verdict>>

Approve(l) ==
  /\ \/ verdict[l]["system"] = "approved"
     \/ \A t \in demand[l] : verdict[l][t] = "approved"
  /\ Settle(l, "approved")

Reject(l) ==
  /\ \E t \in demand[l] : verdict[l][t] = "rejected"
  /\ Settle(l, "rejected")

Cancel(l) == Settle(l, "cancelled")

Next ==
  \E l \in Leaves :
    \/ Submit(l)
    \/ \E t \in ApproverTypes, v \in {"approved", "rejected"} : Sign(l, t, v)
    \/ Approve(l) \/ Reject(l) \/ Cancel(l)

Spec == Init /\ [][Next]_lifecycle

=============================================================================
