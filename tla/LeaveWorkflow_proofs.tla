------------------------ MODULE LeaveWorkflow_proofs ------------------------
(***************************************************************************)
(* What holds of LeaveWorkflow for any number of leaves, handlers, users   *)
(* and approvers, any calendar and any policy numbers.                     *)
(***************************************************************************)
EXTENDS LeaveWorkflow, SumLemmas

USE DEF table

\* Adding one element that is not there yet adds one to the size.
LEMMA OneMore ==
  ASSUME NEW S, IsFiniteSet(S), NEW x, x \notin S,
         NEW n \in Nat, Cardinality(S) = n
  PROVE  IsFiniteSet(S \cup {x}) /\ Cardinality(S \cup {x}) = n + 1
  BY FS_AddElement

LEMMA ApproverTypesFinite ==
  /\ IsFiniteSet(ManualSteps) /\ Cardinality(ManualSteps) = 3
  /\ IsFiniteSet(ApproverTypes) /\ Cardinality(ApproverTypes) = 4
  <1>1. IsFiniteSet({"manager"}) /\ Cardinality({"manager"}) = 1
    BY FS_Singleton
  <1>2. /\ IsFiniteSet({"manager"} \cup {"dept_head"})
        /\ Cardinality({"manager"} \cup {"dept_head"}) = 1 + 1
    <2> "dept_head" \notin {"manager"}
      OBVIOUS
    <2> QED
      BY <1>1, OneMore
  <1>3. IsFiniteSet(ManualSteps) /\ Cardinality(ManualSteps) = 2 + 1
    <2>1. ManualSteps = ({"manager"} \cup {"dept_head"}) \cup {"hr"}
      BY DEF ManualSteps
    <2>2. "hr" \notin {"manager"} \cup {"dept_head"}
      OBVIOUS
    <2> QED
      BY <1>2, <2>1, <2>2, OneMore
  <1>4. /\ IsFiniteSet(ManualSteps \cup {"system"})
        /\ Cardinality(ManualSteps \cup {"system"}) = 3 + 1
    <2> "system" \notin ManualSteps
      BY DEF ManualSteps
    <2> QED
      BY <1>3, OneMore
  <1> QED
    BY <1>3, <1>4 DEF ApproverTypes

\* initiateManualApproval creates as many rows as calculateRequiredApprovals
\* asks signatures for, whatever the length of the leave.
THEOREM StepsMatchRequired ==
  ASSUME NEW days \in Nat
  PROVE  /\ IsFiniteSet(buildApprovalSteps(days))
         /\ Cardinality(buildApprovalSteps(days))
              = calculateRequiredApprovals(days)
  <1>1. IsFiniteSet({"manager"}) /\ Cardinality({"manager"}) = 1
    BY FS_Singleton
  <1>2. CASE days <= 3
    <2>1. buildApprovalSteps(days) = {"manager"}
      BY <1>2 DEF buildApprovalSteps, ManualSteps
    <2> QED
      BY <1>1, <1>2, <2>1 DEF calculateRequiredApprovals
  <1>3. CASE days > 3 /\ days <= 7
    <2>1. buildApprovalSteps(days) = {"manager"} \cup {"dept_head"}
      BY <1>3 DEF buildApprovalSteps, ManualSteps
    <2>2. "dept_head" \notin {"manager"}
      OBVIOUS
    <2>3. calculateRequiredApprovals(days) = 1 + 1
      BY <1>3 DEF calculateRequiredApprovals
    <2> QED
      BY <1>1, <2>1, <2>2, <2>3, OneMore
  <1>4. CASE days > 7
    <2>1. buildApprovalSteps(days) = ManualSteps
      BY <1>4 DEF buildApprovalSteps, ManualSteps
    <2> QED
      BY <1>4, <2>1, ApproverTypesFinite DEF calculateRequiredApprovals
  <1> QED
    BY <1>2, <1>3, <1>4

-----------------------------------------------------------------------------
\* The type of the state.

LEMMA InitTypeOK == Init => TypeOK
  BY DEF Init, TypeOK, HandlerStates, Idle, CreatorPc

LEMMA CreatorTypeOK ==
  ASSUME TypeOK, NEW l \in Leaves,
         CreateBegin(l) \/ CreatorStep(l) \/ CreatorFails(l)
  PROVE  TypeOK'
  <1>1. CASE CreateBegin(l)
    BY <1>1 DEF TypeOK, CreateBegin, Goto, CreatorPc
  <1>2. CASE CheckOverlap(l)
    BY <1>2 DEF TypeOK, CheckOverlap, Goto, CreatorPc
  <1>3. CASE CheckBalance(l)
    BY <1>3 DEF TypeOK, CheckBalance, Goto, CreatorPc
  <1>4. CASE Insert(l)
    BY <1>4 DEF TypeOK, Insert, Goto, CreatorPc
  <1>5. CASE LoadForAuto(l)
    BY <1>5 DEF TypeOK, LoadForAuto, Goto, CreatorPc
  <1>6. CASE CheckOnSite(l)
    BY <1>6 DEF TypeOK, CheckOnSite, Goto, CreatorPc
  <1>7. CASE WriteSystemApproval(l)
    BY <1>7 DEF TypeOK, WriteSystemApproval, Goto, CreatorPc, Decisions,
                ApproverTypes
  <1>8. CASE AutoApproveLeave(l)
    BY <1>8 DEF TypeOK, AutoApproveLeave, Goto, CreatorPc
  <1>8a. CASE AutoApproveNotify(l)
    BY <1>8a DEF TypeOK, AutoApproveNotify, Goto, CreatorPc
  <1>9. ASSUME NEW t \in ManualSteps, CreateNode(l, t) PROVE TypeOK'
    BY <1>9 DEF TypeOK, CreateNode, Goto, CreatorPc, ApproverTypes
  <1>10. CASE CreatorFails(l)
    BY <1>10 DEF TypeOK, CreatorFails, Goto, CreatorPc
  <1> QED
    BY <1>1, <1>2, <1>3, <1>4, <1>5, <1>6, <1>7, <1>8, <1>8a, <1>9, <1>10
       DEF CreatorStep

\* What an in-flight request looks like at each of its statements.
LEMMA HandlerShape ==
  ASSUME TypeOK, NEW h \in Handlers
  PROVE  /\ act[h] # Idle => act[h].leave \in Leaves
         /\ act[h].pc \in {"record", "reject", "count", "approve", "notify"}
              => /\ act[h].step \in ManualSteps
                 /\ act[h].decision \in Decisions
                 /\ act[h] \in
                      [pc : {"record", "reject", "count", "approve", "notify"},
                       leave : Leaves, step : ManualSteps, decision : Decisions]
         /\ act[h].pc = "cancel" => act[h].leave \in Leaves
         /\ act[h].pc \in {"cancel", "record", "reject", "count", "approve",
                           "notify"}
              => act[h] # Idle
  BY DEF TypeOK, HandlerStates, Idle

LEMMA HandlerTypeOK ==
  ASSUME TypeOK, NEW h \in Handlers, HandlerStep(h) \/ HandlerFails(h)
  PROVE  TypeOK'
  <1> USE HandlerShape
  <1>1. CASE CancelWrite(h)
    BY <1>1 DEF TypeOK, CancelWrite, Continue, HandlerStates
  <1>2. CASE ActRecord(h)
    <2>1. act'[h] \in HandlerStates
      BY <1>2 DEF TypeOK, ActRecord, Continue, HandlerStates
    <2>2. act' \in [Handlers -> HandlerStates]
      BY <1>2, <2>1 DEF TypeOK, ActRecord, Continue
    <2>3. node' \in [Leaves -> [ApproverTypes -> {"none", "pending"} \cup Decisions]]
      BY <1>2 DEF TypeOK, ActRecord, ApproverTypes
    <2> QED
      BY <1>2, <2>2, <2>3 DEF TypeOK, ActRecord
  <1>3. CASE ActReject(h)
    BY <1>3 DEF TypeOK, ActReject, Continue, HandlerStates
  <1>4. CASE ActCount(h)
    <2>1. act'[h] \in HandlerStates
      BY <1>4 DEF TypeOK, ActCount, Continue, HandlerStates
    <2> QED
      BY <1>4, <2>1 DEF TypeOK, ActCount, Continue
  <1>5. CASE ActApprove(h)
    <2>1. act'[h] \in HandlerStates
      BY <1>5 DEF TypeOK, ActApprove, Continue, HandlerStates
    <2>2. status' \in [Leaves -> {"none", "pending", "approved", "rejected",
                                  "cancelled"}]
      BY <1>5 DEF TypeOK, ActApprove
    <2> QED
      BY <1>5, <2>1, <2>2 DEF TypeOK, ActApprove, Continue
  <1>5a. CASE ActNotify(h)
    BY <1>5a DEF TypeOK, ActNotify, Continue, HandlerStates
  <1>6. CASE HandlerFails(h)
    BY <1>6 DEF TypeOK, HandlerFails, Continue, HandlerStates
  <1> QED
    BY <1>1, <1>2, <1>3, <1>4, <1>5, <1>5a, <1>6 DEF HandlerStep

LEMMA NextTypeOK == TypeOK /\ [Next]_vars => TypeOK'
  <1> SUFFICES ASSUME TypeOK, [Next]_vars PROVE TypeOK'
    OBVIOUS
  <1>1. ASSUME NEW l \in Leaves,
               CreateBegin(l) \/ CreatorStep(l) \/ CreatorFails(l)
        PROVE  TypeOK'
    BY <1>1, CreatorTypeOK
  <1>2. ASSUME NEW h \in Handlers, HandlerStep(h) \/ HandlerFails(h)
        PROVE  TypeOK'
    BY <1>2, HandlerTypeOK
  <1>3. ASSUME NEW h \in Handlers, NEW l \in Leaves, CancelBegin(h, l)
        PROVE  TypeOK'
    BY <1>3 DEF TypeOK, CancelBegin, Continue, HandlerStates
  <1>4. ASSUME NEW h \in Handlers, NEW a \in Approvers, NEW l \in Leaves,
               NEW t \in ManualSteps, NEW d \in Decisions,
               ActBegin(h, a, l, t, d)
        PROVE  TypeOK'
    BY <1>4 DEF TypeOK, ActBegin, Continue, HandlerStates
  <1>5. ASSUME NEW l \in Leaves, NEW t \in ManualSteps, NEW a \in Approvers,
               AssignApprover(l, t, a)
        PROVE  TypeOK'
    BY <1>5 DEF TypeOK, AssignApprover, ApproverTypes
  <1>6. CASE NextDay
    BY <1>6 DEF TypeOK, NextDay
  <1>7. CASE UNCHANGED vars
    BY <1>7 DEF TypeOK, vars
  <1> QED
    BY <1>1, <1>2, <1>3, <1>4, <1>5, <1>6, <1>7 DEF Next

\* Every variable keeps its type; a request in flight always knows the leave,
\* and an Act the approval row, that it is about.
THEOREM TypeCorrect == Spec => []TypeOK
  BY InitTypeOK, NextTypeOK, PTL DEF Spec

-----------------------------------------------------------------------------
LEMMA WorkingDaysNat ==
  ASSUME NEW s \in Nat, NEW e \in Nat
  PROVE  CalculateWorkingDays(Calendar, s, e) \in Nat
  <1>1. IsFiniteSet(s .. e)
    BY FS_Interval
  <1>2. {d \in s .. e : CountsAsWorkday(Calendar, d)} \subseteq s .. e
    OBVIOUS
  <1> QED
    BY <1>1, <1>2, FS_Subset, FS_CardinalityType DEF CalculateWorkingDays

LEMMA StepsOfLeave ==
  ASSUME TypeOK, NEW l \in Leaves
  PROVE  /\ Days(l) \in Nat
         /\ IsFiniteSet(Steps(l)) /\ Steps(l) \subseteq ManualSteps
         /\ "manager" \in Steps(l)
         /\ Cardinality(Steps(l)) = calculateRequiredApprovals(Days(l))
         /\ Days(l) <= 3 => Steps(l) = {"manager"}
  <1>1. Days(l) \in Nat
    <2>1. req[l].start \in Nat /\ req[l].end \in Nat
      <3>1. req[l] \in Requests
        BY DEF TypeOK
      <3> QED
        BY <3>1, PolicyAssumption DEF PolicyAssumption
    <2> QED
      BY <2>1, WorkingDaysNat DEF Days
  <1>2. Days(l) <= 3 => Steps(l) = {"manager"}
    BY <1>1 DEF Steps, buildApprovalSteps, ManualSteps
  <1> QED
    BY <1>1, <1>2, StepsMatchRequired
       DEF Steps, buildApprovalSteps, ManualSteps

LEMMA ApprovedFinite ==
  ASSUME NEW l \in Leaves
  PROVE  IsFiniteSet(ApprovedSteps(l)) /\ CountApprovedSteps(l) \in Nat
  <1>2. ApprovedSteps(l) \subseteq ApproverTypes
    BY DEF ApprovedSteps
  <1> QED
    BY <1>2, ApproverTypesFinite, FS_Subset, FS_CardinalityType
       DEF CountApprovedSteps

\* Counting is as good as looking at each signature, as long as only rows the
\* leave calls for exist: a full count means that every one is approved.
LEMMA EnoughMeansDecided ==
  ASSUME AutoApproveMaxDays <= 3, TypeOK, NEW l \in Leaves,
         node[l]["system"] = "none",
         \A t \in ManualSteps : node[l][t] # "none" => t \in Steps(l),
         NEW s \in ManualSteps, node[l][s] \in Decisions,
         EnoughApprovals(l)
  PROVE  Decided(l) /\ (node[l][s] = "approved" => AllApproved(l))
  <1> USE StepsOfLeave, ApprovedFinite
  <1>1. CASE Days(l) > AutoApproveMaxDays
    <2>1. CountApprovedSteps(l) >= Cardinality(Steps(l))
      BY <1>1 DEF EnoughApprovals, RequiredApprovals
    <2>2. ApprovedSteps(l) \subseteq Steps(l)
      BY DEF ApprovedSteps, ApproverTypes, Decisions
    <2>3. ApprovedSteps(l) = Steps(l)
      <3>1. /\ Cardinality(ApprovedSteps(l)) <= Cardinality(Steps(l))
            /\ Cardinality(ApprovedSteps(l)) = Cardinality(Steps(l))
                 => ApprovedSteps(l) = Steps(l)
        BY <2>2, FS_Subset
      <3>2. Cardinality(Steps(l)) \in Nat
        BY FS_CardinalityType
      <3> QED
        BY <2>1, <3>1, <3>2 DEF CountApprovedSteps
    <2> QED
      BY <2>3 DEF Decided, AllApproved, ApprovedSteps, Decisions
  <1>2. CASE ~(Days(l) > AutoApproveMaxDays)
    <2>1. Steps(l) = {"manager"}
      BY <1>2, PolicyAssumption DEF PolicyAssumption
    <2>2. s \in Steps(l)
      BY DEF Decisions
    <2> QED
      BY <2>1, <2>2 DEF Decided, AllApproved
  <1> QED
    BY <1>1, <1>2

\* The other direction, for any policy: when every signature is there, the
\* count reaches what the leave requires.
LEMMA ApprovedMeansEnough ==
  ASSUME TypeOK, NEW l \in Leaves,
         \A t \in Steps(l) : node[l][t] = "approved"
  PROVE  EnoughApprovals(l)
  <1> USE StepsOfLeave, ApprovedFinite
  <1>1. Steps(l) \subseteq ApprovedSteps(l)
    BY DEF ApprovedSteps, ApproverTypes
  <1>2. Cardinality(Steps(l)) <= CountApprovedSteps(l)
    BY <1>1, FS_Subset DEF CountApprovedSteps
  <1>3. Cardinality(Steps(l)) \in Nat
    BY FS_CardinalityType
  <1> QED
    BY <1>2, <1>3 DEF EnoughApprovals, RequiredApprovals

-----------------------------------------------------------------------------
\* What a leave calls for never changes once it is posted.
LEMMA StepsFixed ==
  ASSUME [Next]_vars
  PROVE  req' = req /\ \A l \in Leaves : Steps(l)' = Steps(l)
  <1>1. req' = req
    BY DEF Next, vars, CreateBegin, CreatorStep, CheckOverlap, CheckBalance,
           Insert, LoadForAuto, CheckOnSite, WriteSystemApproval,
           AutoApproveLeave, AutoApproveNotify, CreateNode, CreatorFails,
           CancelBegin, HandlerStep, CancelWrite, ActBegin, ActRecord,
           ActReject, ActCount, ActApprove, ActNotify, HandlerFails,
           AssignApprover, NextDay
  <1> QED
    BY <1>1 DEF Steps, Days

\* The statements before the first row is written.
Early(l) == \/ CreateBegin(l) \/ CheckOverlap(l) \/ CheckBalance(l)
            \/ Insert(l) \/ LoadForAuto(l) \/ CheckOnSite(l)

LEMMA OneRouteStep ==
  ASSUME TypeOK, OneRoute, ActsOnRows, [Next]_vars
  PROVE  OneRoute'
  <1> USE StepsFixed
  <1>1. ASSUME NEW l \in Leaves, Early(l) PROVE OneRoute'
    <2>1. /\ node' = node
          /\ \A k \in Leaves : k # l => pc'[k] = pc[k]
          /\ pc[l] \notin {"approve", "notify", "nodes", "done", "failed"}
          /\ pc'[l] \notin {"approve", "notify"}
      BY <1>1 DEF Early, TypeOK, CreateBegin, CheckOverlap, CheckBalance,
                  Insert, LoadForAuto, CheckOnSite, Goto
    <2> QED
      BY <2>1 DEF OneRoute, ManualRow, SystemApproved
  <1>2. ASSUME NEW l \in Leaves, WriteSystemApproval(l) PROVE OneRoute'
    <2>1. /\ node'[l]["system"] = "approved"
          /\ \A t \in ManualSteps : node'[l][t] = node[l][t]
          /\ \A k \in Leaves : k # l => node'[k] = node[k] /\ pc'[k] = pc[k]
          /\ pc[l] = "system" /\ pc'[l] = "approve"
      BY <1>2 DEF WriteSystemApproval, Goto, TypeOK, ApproverTypes, ManualSteps
    <2> QED
      BY <2>1 DEF OneRoute, ManualRow, SystemApproved
  <1>3. ASSUME NEW l \in Leaves,
               AutoApproveLeave(l) \/ AutoApproveNotify(l) \/ CreatorFails(l)
        PROVE  OneRoute'
    <2>1. /\ node' = node
          /\ \A k \in Leaves : k # l => pc'[k] = pc[k]
          /\ \/ pc'[l] \in {"done", "failed"}
             \/ pc[l] = "approve" /\ pc'[l] = "notify"
      BY <1>3 DEF AutoApproveLeave, AutoApproveNotify, CreatorFails, Goto,
         TypeOK
    <2> QED
      BY <2>1 DEF OneRoute, ManualRow, SystemApproved
  <1>4. ASSUME NEW l \in Leaves, NEW s \in ManualSteps, CreateNode(l, s)
        PROVE  OneRoute'
    <2>1. /\ node'[l][s] = "pending" /\ s \in Steps(l)
          /\ \A t \in ApproverTypes : t # s => node'[l][t] = node[l][t]
          /\ \A k \in Leaves : k # l => node'[k] = node[k] /\ pc'[k] = pc[k]
          /\ pc[l] = "nodes" /\ pc'[l] \in {"nodes", "done"}
      BY <1>4 DEF CreateNode, Goto, TypeOK, ApproverTypes
    <2>2. s # "system" /\ "system" \in ApproverTypes
          /\ ManualSteps \subseteq ApproverTypes
      BY DEF ManualSteps, ApproverTypes
    <2> QED
      BY <2>1, <2>2 DEF OneRoute, ManualRow, SystemApproved
  <1>5. ASSUME NEW h \in Handlers, ActRecord(h) PROVE OneRoute'
    <2> DEFINE l == act[h].leave  s == act[h].step
    <2>1. l \in Leaves /\ s \in ManualSteps /\ node[l][s] # "none"
      BY <1>5, HandlerShape DEF ActRecord, ActsOnRows
    <2>2. /\ pc' = pc
          /\ \A k \in Leaves : k # l => node'[k] = node[k]
          /\ \A t \in ApproverTypes : t # s => node'[l][t] = node[l][t]
      BY <1>5, <2>1 DEF ActRecord, TypeOK
    <2>3. s # "system" /\ "system" \in ApproverTypes
          /\ ManualSteps \subseteq ApproverTypes
      BY <2>1 DEF ManualSteps, ApproverTypes
    <2> HIDE DEF l, s
    <2> QED
      BY <2>1, <2>2, <2>3 DEF OneRoute, ManualRow, SystemApproved
  <1>6. CASE UNCHANGED <<node, pc>>
    BY <1>6 DEF OneRoute, ManualRow, SystemApproved
  <1> QED
    BY <1>1, <1>2, <1>3, <1>4, <1>5, <1>6
       DEF Next, vars, Early, CreatorStep, HandlerStep, CancelBegin,
           CancelWrite, ActBegin, ActReject, ActCount, ActApprove, ActNotify,
           HandlerFails, AssignApprover, NextDay

\* A row never disappears and a decided row never becomes undecided, although
\* a late Act may turn its decision round.
LEMMA RowsStay ==
  ASSUME TypeOK, [Next]_vars, NEW l \in Leaves, NEW t \in ManualSteps
  PROVE  /\ node[l][t] # "none" => node'[l][t] # "none"
         /\ node[l][t] \in Decisions => node'[l][t] \in Decisions
  <1> t \in ApproverTypes /\ t # "system"
    BY DEF ApproverTypes, ManualSteps
  <1>1. ASSUME NEW k \in Leaves, WriteSystemApproval(k)
        PROVE  node'[l][t] = node[l][t]
    BY <1>1 DEF WriteSystemApproval, TypeOK
  <1>2. ASSUME NEW k \in Leaves, NEW s \in ManualSteps, CreateNode(k, s)
        PROVE  node'[l][t] = node[l][t] \/ node[l][t] = "none"
    BY <1>2 DEF CreateNode, TypeOK, ApproverTypes
  <1>3. ASSUME NEW h \in Handlers, ActRecord(h)
        PROVE  node'[l][t] = node[l][t] \/ node'[l][t] \in Decisions
    BY <1>3, HandlerShape DEF ActRecord, TypeOK, ApproverTypes
  <1>4. CASE UNCHANGED node
    BY <1>4
  <1> QED
    BY <1>1, <1>2, <1>3, <1>4
       DEF Next, vars, CreatorStep, HandlerStep, CancelBegin, CancelWrite,
           ActBegin, ActReject, ActCount, ActApprove, ActNotify, HandlerFails,
           AssignApprover, NextDay, CreateBegin, CheckOverlap, CheckBalance,
           Insert, LoadForAuto, CheckOnSite, AutoApproveLeave,
           AutoApproveNotify, CreatorFails, Decisions

LEMMA DecidedStays ==
  ASSUME TypeOK, [Next]_vars, NEW l \in Leaves, Decided(l)
  PROVE  Decided(l)'
  BY RowsStay, StepsFixed, StepsOfLeave DEF Decided

LEMMA SystemApprovedStays ==
  ASSUME TypeOK, [Next]_vars, NEW l \in Leaves, SystemApproved(l)
  PROVE  SystemApproved(l)'
  <1>1. "system" \in ApproverTypes /\ "system" \notin ManualSteps
    BY DEF ApproverTypes, ManualSteps
  <1>2. ASSUME NEW k \in Leaves, WriteSystemApproval(k)
        PROVE  SystemApproved(l)'
    BY <1>1, <1>2 DEF WriteSystemApproval, TypeOK, SystemApproved
  <1>3. ASSUME NEW k \in Leaves, NEW s \in ManualSteps, CreateNode(k, s)
        PROVE  SystemApproved(l)'
    BY <1>1, <1>3 DEF CreateNode, TypeOK, SystemApproved
  <1>4. ASSUME NEW h \in Handlers, ActRecord(h) PROVE SystemApproved(l)'
    BY <1>1, <1>4, HandlerShape DEF ActRecord, TypeOK, SystemApproved
  <1>5. CASE UNCHANGED node
    BY <1>5 DEF SystemApproved
  <1> QED
    BY <1>2, <1>3, <1>4, <1>5
       DEF Next, vars, CreatorStep, HandlerStep, CancelBegin, CancelWrite,
           ActBegin, ActReject, ActCount, ActApprove, ActNotify, HandlerFails,
           AssignApprover, NextDay, CreateBegin, CheckOverlap, CheckBalance,
           Insert, LoadForAuto, CheckOnSite, AutoApproveLeave,
           AutoApproveNotify, CreatorFails

\* What a step does to one handler.
LEMMA HandlerMoves ==
  ASSUME TypeOK, [Next]_vars, NEW h \in Handlers, act'[h] # act[h]
  PROVE  \/ act'[h].pc \in {"idle", "cancel"}
         \/ ActRecord(h)
         \/ ActApprove(h)
         \/ ActCount(h) /\ EnoughApprovals(act[h].leave)
         \/ \E a \in Approvers, l \in Leaves, t \in ManualSteps,
               d \in Decisions : ActBegin(h, a, l, t, d)
  <1>1. ASSUME NEW g \in Handlers, g # h,
               \/ HandlerStep(g) \/ HandlerFails(g)
               \/ \E l \in Leaves : CancelBegin(g, l)
               \/ \E a \in Approvers, l \in Leaves, t \in ManualSteps,
                     d \in Decisions : ActBegin(g, a, l, t, d)
        PROVE  FALSE
    BY <1>1 DEF HandlerStep, CancelWrite, ActRecord, ActReject, ActCount,
                ActApprove, ActNotify, HandlerFails, CancelBegin, ActBegin,
                Continue, TypeOK
  <1>2. ASSUME \/ CancelWrite(h) \/ ActReject(h) \/ ActNotify(h)
               \/ HandlerFails(h) \/ \E l \in Leaves : CancelBegin(h, l)
               \/ ActCount(h) /\ ~EnoughApprovals(act[h].leave)
        PROVE  act'[h].pc \in {"idle", "cancel"}
    BY <1>2 DEF CancelWrite, ActReject, ActCount, ActNotify, HandlerFails,
                CancelBegin, Continue, TypeOK, Idle
  <1>3. ~ UNCHANGED act
    OBVIOUS
  <1> QED
    BY <1>1, <1>2, <1>3
       DEF Next, vars, CreatorStep, HandlerStep, AssignApprover, NextDay,
           CreateBegin, CheckOverlap, CheckBalance, Insert, LoadForAuto,
           CheckOnSite, WriteSystemApproval, AutoApproveLeave,
           AutoApproveNotify, CreateNode, CreatorFails

LEMMA ActsOnRowsStep ==
  ASSUME TypeOK, ActsOnRows, [Next]_vars
  PROVE  ActsOnRows'
  <1> DEFINE Acts == {"record", "reject", "count", "approve"}
  <1> SUFFICES ASSUME NEW h \in Handlers, act'[h].pc \in Acts
      PROVE /\ node'[act'[h].leave][act'[h].step] # "none"
            /\ act'[h].pc # "record"
                 => node'[act'[h].leave][act'[h].step] \in Decisions
    BY DEF ActsOnRows
  <1>1. CASE act'[h] = act[h]
    BY <1>1, HandlerShape, RowsStay DEF ActsOnRows
  <1>2. CASE ActRecord(h)
    <2> DEFINE l == act[h].leave  s == act[h].step
    <2>1. l \in Leaves /\ s \in ApproverTypes /\ act[h].decision \in Decisions
      BY <1>2, HandlerShape DEF ActRecord, ApproverTypes
    <2>2. node'[l][s] = act[h].decision
      BY <1>2, <2>1 DEF ActRecord, TypeOK
    <2>3. act'[h].leave = l /\ act'[h].step = s
      BY <1>2, HandlerShape DEF ActRecord, Continue, TypeOK
    <2> HIDE DEF l, s
    <2> QED
      BY <2>1, <2>2, <2>3 DEF Decisions
  <1>3. CASE ActCount(h) /\ EnoughApprovals(act[h].leave)
    BY <1>3, HandlerShape DEF ActCount, ActsOnRows, Continue, TypeOK, Decisions
  <1>4. ASSUME NEW a \in Approvers, NEW l \in Leaves, NEW t \in ManualSteps,
               NEW d \in Decisions, ActBegin(h, a, l, t, d)
        PROVE  node'[act'[h].leave][act'[h].step] # "none"
               /\ act'[h].pc = "record"
    BY <1>4 DEF ActBegin, Continue, Listed, TypeOK
  <1>5. ASSUME ActApprove(h) PROVE FALSE
    BY <1>5, HandlerShape DEF ActApprove, Continue, TypeOK
  <1> QED
    BY <1>1, <1>2, <1>3, <1>4, <1>5, HandlerMoves

LEMMA ApprovesDecidedStep ==
  ASSUME AutoApproveMaxDays <= 3, TypeOK, OneRoute, ActsOnRows,
         ApprovesDecided, [Next]_vars
  PROVE  ApprovesDecided'
  <1> SUFFICES ASSUME NEW h \in Handlers, NEW l \in Leaves,
                      act'[h].pc = "approve", act'[h].leave = l
               PROVE  Decided(l)'
    BY DEF ApprovesDecided
  <1>1. CASE act'[h] = act[h]
    BY <1>1, HandlerShape, DecidedStays DEF ApprovesDecided
  <1>2. CASE ActCount(h) /\ EnoughApprovals(act[h].leave)
    <2> DEFINE s == act[h].step
    <2>1. /\ act[h].leave = l
          /\ s \in ManualSteps /\ node[l][s] \in Decisions
      BY <1>2, HandlerShape DEF ActCount, ActsOnRows, Continue, TypeOK
    <2>2. /\ node[l]["system"] = "none"
          /\ \A t \in ManualSteps : node[l][t] # "none" => t \in Steps(l)
      BY <2>1 DEF OneRoute, ManualRow, Decisions
    <2>3. EnoughApprovals(l)
      BY <1>2, <2>1
    <2> HIDE DEF s
    <2>4. Decided(l)
      BY <2>1, <2>2, <2>3, EnoughMeansDecided
    <2> QED
      BY <2>1, <2>4, DecidedStays
  <1>3. ASSUME ActRecord(h) \/ ActApprove(h) PROVE FALSE
    BY <1>3, HandlerShape DEF ActRecord, ActApprove, Continue, TypeOK
  <1>4. ASSUME NEW a \in Approvers, NEW k \in Leaves, NEW t \in ManualSteps,
               NEW d \in Decisions, ActBegin(h, a, k, t, d)
        PROVE  FALSE
    BY <1>4 DEF ActBegin, Continue, TypeOK
  <1> QED
    BY <1>1, <1>2, <1>3, <1>4, HandlerMoves

LEMMA ApprovedStep ==
  ASSUME TypeOK, OneRoute, ApprovesDecided, NodesDecidedBeforeApproval,
         [Next]_vars
  PROVE  NodesDecidedBeforeApproval'
  <1> SUFFICES ASSUME NEW l \in Leaves, status'[l] = "approved"
               PROVE  SystemApproved(l)' \/ Decided(l)'
    BY DEF NodesDecidedBeforeApproval
  <1>1. SUFFICES SystemApproved(l) \/ Decided(l)
    BY SystemApprovedStays, DecidedStays
  <1>2. CASE status'[l] = status[l]
    BY <1>2 DEF NodesDecidedBeforeApproval
  <1>3. ASSUME NEW h \in Handlers, ActApprove(h), status'[l] # status[l]
        PROVE  Decided(l)
    BY <1>3, HandlerShape DEF ActApprove, ApprovesDecided, TypeOK
  <1>4. ASSUME NEW k \in Leaves, AutoApproveLeave(k), status'[l] # status[l]
        PROVE  SystemApproved(l)
    BY <1>4 DEF AutoApproveLeave, OneRoute, TypeOK
  <1>5. ASSUME NEW h \in Handlers, CancelWrite(h) \/ ActReject(h)
        PROVE  status'[l] = status[l]
    BY <1>5, HandlerShape DEF CancelWrite, ActReject, TypeOK
  <1>6. ASSUME NEW k \in Leaves, Insert(k)
        PROVE  status'[l] = status[l]
    BY <1>6 DEF Insert, TypeOK
  <1>7. CASE UNCHANGED status
    BY <1>2, <1>7
  <1> QED
    BY <1>2, <1>3, <1>4, <1>5, <1>6, <1>7
       DEF Next, vars, CreatorStep, HandlerStep, CancelBegin, ActBegin,
           ActRecord, ActCount, ActNotify, HandlerFails, AssignApprover,
           NextDay, CreateBegin, CheckOverlap, CheckBalance, LoadForAuto,
           CheckOnSite, WriteSystemApproval, AutoApproveNotify, CreateNode,
           CreatorFails

-----------------------------------------------------------------------------
\* A step that leaves the rows, the status and the Acts of a leave alone.
LEMMA AwaitedFrame ==
  ASSUME [Next]_vars, NEW l \in Leaves, Awaited(l),
         node'[l] = node[l], status'[l] = status[l],
         l \in interrupted => l \in interrupted',
         \A h \in Handlers : \/ act'[h] = act[h]
                             \/ ~Approving(l, h) /\ ~Rejecting(l, h)
  PROVE  Awaited(l)'
  BY StepsFixed DEF Awaited, AllApproved, SomeRejected, Approving, Rejecting

\* A step that settles the leave.
LEMMA AwaitedSettled ==
  ASSUME NEW l \in Leaves, status'[l] # "pending" \/ l \in interrupted'
  PROVE  Awaited(l)'
  BY DEF Awaited

LEMMA SomeoneSettlesStep ==
  ASSUME TypeOK, OneRoute, SomeoneSettles, [Next]_vars
  PROVE  SomeoneSettles'
  <1> SUFFICES ASSUME NEW l \in Leaves PROVE Awaited(l)'
    BY DEF SomeoneSettles
  <1> Awaited(l)
    BY DEF SomeoneSettles
  <1> DEFINE Free(h) == ~Approving(l, h) /\ ~Rejecting(l, h)
  <1>1. ASSUME NEW k \in Leaves, Insert(k) PROVE Awaited(l)'
    <2>1. CASE k = l
      <3>1. /\ node' = node
            /\ \A t \in Steps(l) : node'[l][t] = "none"
        BY <1>1, <2>1, StepsOfLeave DEF Insert, OneRoute, ManualRow
      <3> QED
        BY <3>1, StepsFixed, StepsOfLeave DEF Awaited, AllApproved, SomeRejected
    <2>2. CASE k # l
      BY <1>1, <2>2, AwaitedFrame DEF Insert, TypeOK
    <2> QED
      BY <2>1, <2>2
  <1>2. ASSUME NEW k \in Leaves, AutoApproveLeave(k) PROVE Awaited(l)'
    <2>1. CASE k = l
      BY <1>2, <2>1, AwaitedSettled DEF AutoApproveLeave, TypeOK
    <2>2. CASE k # l
      BY <1>2, <2>2, AwaitedFrame DEF AutoApproveLeave, TypeOK
    <2> QED
      BY <2>1, <2>2
  <1>3. ASSUME NEW k \in Leaves, WriteSystemApproval(k) PROVE Awaited(l)'
    <2>1. \A t \in Steps(l) : node'[l][t] = node[l][t]
      BY <1>3, StepsOfLeave
         DEF WriteSystemApproval, TypeOK, ApproverTypes, ManualSteps
    <2> QED
      BY <1>3, <2>1, StepsFixed
         DEF WriteSystemApproval, Awaited, AllApproved, SomeRejected,
             Approving, Rejecting
  <1>4. ASSUME NEW k \in Leaves, NEW s \in ManualSteps, CreateNode(k, s)
        PROVE  Awaited(l)'
    <2>1. CASE k = l
      <3>1. /\ node'[l][s] = "pending" /\ s \in Steps(l)
            /\ \A t \in Steps(l) : t # s => node'[l][t] = node[l][t]
            /\ UNCHANGED <<status, act, interrupted>>
        BY <1>4, <2>1, StepsOfLeave DEF CreateNode, TypeOK, ApproverTypes
      <3>2. ~AllApproved(l)' /\ (SomeRejected(l)' => SomeRejected(l))
        BY <3>1, StepsFixed DEF AllApproved, SomeRejected
      <3> QED
        BY <3>1, <3>2 DEF Awaited, Rejecting
    <2>2. CASE k # l
      BY <1>4, <2>2, AwaitedFrame DEF CreateNode, TypeOK
    <2> QED
      BY <2>1, <2>2
  <1>5. ASSUME NEW h \in Handlers, ActRecord(h) PROVE Awaited(l)'
    <2>1. act[h].leave \in Leaves /\ act[h].decision \in Decisions
          /\ act[h].step \in ApproverTypes
      BY <1>5, HandlerShape DEF ActRecord, ApproverTypes
    <2>2. CASE act[h].leave = l
      <3>1. /\ act'[h].leave = l
            /\ act'[h].pc = IF act[h].decision = "rejected"
                            THEN "reject" ELSE "count"
            /\ \A g \in Handlers : g # h => act'[g] = act[g]
        BY <1>5, <2>2, HandlerShape DEF ActRecord, Continue, TypeOK
      <3>2. CASE act[h].decision = "rejected"
        <4>1. node'[l][act[h].step] = "rejected"
          BY <1>5, <2>1, <2>2, <3>2 DEF ActRecord, TypeOK
        <4>2. Rejecting(l, h)'
          BY <3>1, <3>2 DEF Rejecting
        <4>3. AllApproved(l)' => AllApproved(l) /\ act[h].step \notin Steps(l)
          <5>1. \A t \in ApproverTypes : t # act[h].step
                                           => node'[l][t] = node[l][t]
            BY <1>5, <2>1, <2>2 DEF ActRecord, TypeOK
          <5> QED
            BY <4>1, <5>1, StepsFixed, StepsOfLeave
               DEF AllApproved, ApproverTypes
        <4>4. \A g \in Handlers : Approving(l, g) => Approving(l, g)'
          BY <1>5, <3>1 DEF Approving, ActRecord
        <4> QED
          BY <1>5, <4>2, <4>3, <4>4 DEF Awaited, ActRecord
      <3>3. CASE act[h].decision = "approved"
        <4>1. Approving(l, h)'
          BY <3>1, <3>3 DEF Approving
        <4>2. SomeRejected(l)' => SomeRejected(l)
          <5>1. \A t \in ApproverTypes : node'[l][t] = node[l][t]
                                           \/ node'[l][t] = "approved"
            BY <1>5, <2>1, <2>2, <3>3 DEF ActRecord, TypeOK
          <5> QED
            BY <5>1, StepsFixed, StepsOfLeave DEF SomeRejected, ApproverTypes
        <4>3. \A g \in Handlers : Rejecting(l, g) => Rejecting(l, g)'
          BY <1>5, <3>1 DEF Rejecting, ActRecord
        <4> QED
          BY <1>5, <4>1, <4>2, <4>3 DEF Awaited, ActRecord
      <3> QED
        BY <2>1, <3>2, <3>3 DEF Decisions
    <2>3. CASE act[h].leave # l
      <3>1. /\ \A g \in Handlers : act'[g] = act[g] \/ Free(g)
            /\ node'[l] = node[l]
        BY <1>5, <2>1, <2>3
           DEF ActRecord, Continue, TypeOK, Approving, Rejecting
      <3> QED
        BY <1>5, <3>1, AwaitedFrame DEF ActRecord
    <2> QED
      BY <2>2, <2>3
  <1>6. ASSUME NEW h \in Handlers, ActCount(h) PROVE Awaited(l)'
    <2>1. UNCHANGED <<node, status, interrupted>>
          /\ \A g \in Handlers : g # h => act'[g] = act[g]
      BY <1>6 DEF ActCount, Continue, TypeOK
    <2>2. /\ AllApproved(l)' => AllApproved(l)
          /\ SomeRejected(l)' => SomeRejected(l)
      BY <2>1, StepsFixed DEF AllApproved, SomeRejected
    <2>3. \A g \in Handlers : Rejecting(l, g) => Rejecting(l, g)'
      BY <1>6, <2>1 DEF ActCount, Rejecting
    <2>4. ASSUME AllApproved(l), Approving(l, h) PROVE Approving(l, h)'
      <3>1. EnoughApprovals(l)
        BY <2>4, ApprovedMeansEnough DEF AllApproved
      <3> QED
        BY <1>6, <2>4, <3>1, HandlerShape
           DEF ActCount, Continue, Approving, TypeOK
    <2>5. \A g \in Handlers : AllApproved(l) /\ Approving(l, g)
                                => Approving(l, g)'
      BY <2>1, <2>4 DEF Approving
    <2> QED
      BY <2>1, <2>2, <2>3, <2>5 DEF Awaited
  <1>7. ASSUME NEW h \in Handlers, CancelWrite(h) \/ ActReject(h) \/ ActApprove(h)
        PROVE  Awaited(l)'
    <2>1. act[h].leave \in Leaves
      BY <1>7, HandlerShape DEF CancelWrite, ActReject, ActApprove
    <2>2. CASE act[h].leave = l
      <3>1. status'[l] # "pending"
        BY <1>7, <2>1, <2>2 DEF CancelWrite, ActReject, ActApprove, TypeOK
      <3> QED
        BY <3>1, AwaitedSettled
    <2>3. CASE act[h].leave # l
      <3>1. /\ \A g \in Handlers : act'[g] = act[g] \/ Free(g)
            /\ status'[l] = status[l]
            /\ UNCHANGED <<node, interrupted>>
        BY <1>7, <2>1, <2>3 DEF CancelWrite, ActReject, ActApprove, Continue,
                                TypeOK, Approving, Rejecting
      <3> QED
        BY <3>1, AwaitedFrame
    <2> QED
      BY <2>2, <2>3
  <1>8. ASSUME NEW h \in Handlers, HandlerFails(h) PROVE Awaited(l)'
    <2>1. CASE Free(h)
      BY <1>8, <2>1, AwaitedFrame DEF HandlerFails, Continue, TypeOK
    <2>2. CASE ~Free(h)
      <3>1. l \in interrupted'
        BY <1>8, <2>2 DEF HandlerFails, Approving, Rejecting
      <3> QED
        BY <3>1, AwaitedSettled
    <2> QED
      BY <2>1, <2>2
  <1>9. ASSUME NEW h \in Handlers,
               \/ ActNotify(h)
               \/ \E k \in Leaves : CancelBegin(h, k)
               \/ \E a \in Approvers, k \in Leaves, t \in ManualSteps,
                     d \in Decisions : ActBegin(h, a, k, t, d)
        PROVE  Awaited(l)'
    <2>1. /\ \A g \in Handlers : act'[g] = act[g] \/ Free(g)
          /\ UNCHANGED <<node, status, interrupted>>
      BY <1>9 DEF ActNotify, CancelBegin, ActBegin, Continue, TypeOK, Idle,
                  Approving, Rejecting
    <2> QED
      BY <2>1, AwaitedFrame
  <1>10. CASE UNCHANGED <<node, status, act, interrupted>>
    BY <1>10, AwaitedFrame
  <1> QED
    BY <1>1, <1>2, <1>3, <1>4, <1>5, <1>6, <1>7, <1>8, <1>9, <1>10
       DEF Next, vars, CreatorStep, HandlerStep, AssignApprover, NextDay,
           CreateBegin, CheckOverlap, CheckBalance, LoadForAuto, CheckOnSite,
           AutoApproveNotify, CreatorFails

-----------------------------------------------------------------------------
LEMMA InitInvariants ==
  ASSUME Init
  PROVE  /\ OneRoute /\ ActsOnRows /\ ApprovesDecided
         /\ NodesDecidedBeforeApproval /\ SomeoneSettles
  <1> "system" \in ApproverTypes /\ ManualSteps \subseteq ApproverTypes
    BY DEF ApproverTypes
  <1> QED
    BY DEF Init, OneRoute, ManualRow, SystemApproved, ActsOnRows, Idle,
           ApprovesDecided, NodesDecidedBeforeApproval, SomeoneSettles,
           Awaited, AllApproved, SomeRejected

\* The approval rows of a leave are the ones its route calls for, and every
\* Act in flight is about one of them.
THEOREM RowsAreKept == Spec => [](OneRoute /\ ActsOnRows)
  <1>1. Init => OneRoute /\ ActsOnRows
    BY InitInvariants
  <1>2. TypeOK /\ (OneRoute /\ ActsOnRows) /\ [Next]_vars
          => (OneRoute /\ ActsOnRows)'
    BY OneRouteStep, ActsOnRowsStep
  <1> QED
    BY <1>1, <1>2, TypeCorrect, PTL DEF Spec

\* However many requests interleave and fail, an approved leave was signed by
\* the system or has a decision on every signature its length calls for, as
\* long as the system signs at most three days.  Beyond that the fallback of
\* Start creates rows that nobody counts.
THEOREM ApprovedIsDecided ==
  ASSUME AutoApproveMaxDays <= 3
  PROVE  Spec => []NodesDecidedBeforeApproval
  <1> DEFINE Inv == ApprovesDecided /\ NodesDecidedBeforeApproval
  <1>1. Init => Inv
    BY InitInvariants
  <1>2. TypeOK /\ (OneRoute /\ ActsOnRows) /\ Inv /\ [Next]_vars => Inv'
    BY ApprovesDecidedStep, ApprovedStep
  <1>3. Inv => NodesDecidedBeforeApproval
    OBVIOUS
  <1> HIDE DEF Inv
  <1> QED
    BY <1>1, <1>2, <1>3, TypeCorrect, RowsAreKept, PTL DEF Spec

\* Whatever the policy, two approvers that act at the same time lose no
\* decision between them: the one that comes last sees the count complete.
THEOREM DecisionsAreKept == Spec => []NoLostDecision
  <1>1. Init => SomeoneSettles
    BY InitInvariants
  <1>2. TypeOK /\ (OneRoute /\ ActsOnRows) /\ SomeoneSettles /\ [Next]_vars
          => SomeoneSettles'
    BY SomeoneSettlesStep
  <1>3. SomeoneSettles => NoLostDecision
    BY DEF SomeoneSettles, Awaited, Approving, Rejecting, NoLostDecision,
           Acting
  <1> QED
    BY <1>1, <1>2, <1>3, TypeCorrect, RowsAreKept, PTL DEF Spec

-----------------------------------------------------------------------------
\* The statements of one creator.
Creates(l) == CreatorStep(l) \/ CreatorFails(l)
Begins(h) == \/ \E l \in Leaves : CancelBegin(h, l)
             \/ \E a \in Approvers, l \in Leaves, t \in ManualSteps,
                   d \in Decisions : ActBegin(h, a, l, t, d)

\* What a step of Create changes among the creators, and what it leaves alone.
LEMMA CreatorShape ==
  ASSUME TypeOK, NEW l \in Leaves, Creates(l)
  PROVE  /\ pc[l] \in CreatorBusy
         /\ \A k \in Leaves : k # l => pc'[k] = pc[k]
         /\ UNCHANGED <<req, act, assignee, interrupted, today>>
         /\ \A k \in Leaves : k # l => /\ status'[k] = status[k]
                                       /\ node'[k] = node[k]
                                       /\ notices'[k] = notices[k]
  BY DEF Creates, CreatorStep, CreatorFails, CheckOverlap, CheckBalance,
         Insert, LoadForAuto, CheckOnSite, WriteSystemApproval,
         AutoApproveLeave, AutoApproveNotify, CreateNode, Goto, CreatorBusy,
         CreatorPc, TypeOK

\* The same of a step of Cancel or Act, which stays with its leave.
LEMMA ActShape ==
  ASSUME TypeOK, NEW h \in Handlers, HandlerStep(h) \/ HandlerFails(h)
  PROVE  /\ act[h] # Idle /\ act[h].leave \in Leaves
         /\ \A g \in Handlers : g # h => act'[g] = act[g]
         /\ UNCHANGED <<req, pc, assignee, today>>
         /\ \A k \in Leaves : k # act[h].leave => /\ status'[k] = status[k]
                                                  /\ node'[k] = node[k]
                                                  /\ notices'[k] = notices[k]
         /\ act'[h] # Idle
              => /\ act[h].pc # "notify" /\ act'[h].leave = act[h].leave
                 /\ IF act'[h].pc = "notify" THEN ActApprove(h)
                                             ELSE status' = status
  <1>1. act[h] # Idle /\ act[h].leave \in Leaves
    BY HandlerShape DEF HandlerStep, HandlerFails, CancelWrite, ActRecord,
       ActReject, ActCount, ActApprove, ActNotify
  <1>2. act'[h] # Idle
          => /\ act[h].pc # "notify" /\ act'[h].leave = act[h].leave
             /\ IF act'[h].pc = "notify" THEN ActApprove(h)
                                         ELSE status' = status
    <2>1. CASE ActRecord(h)
      <3>1. act'[h] = [act[h] EXCEPT !.pc =
                         IF act[h].decision = "rejected" THEN "reject" ELSE "count"]
            /\ status' = status
        BY <2>1 DEF ActRecord, Continue, TypeOK
      <3>2. act'[h].leave = act[h].leave /\ act'[h].pc \in {"reject", "count"}
        BY <2>1, <3>1, HandlerShape DEF ActRecord
      <3> QED
        BY <2>1, <3>1, <3>2 DEF ActRecord
    <2>2. CASE ActCount(h)
      <3>1. act'[h] = Idle \/ act'[h] = [act[h] EXCEPT !.pc = "approve"]
        BY <2>2 DEF ActCount, Continue, TypeOK
      <3>2. act'[h] # Idle => /\ act'[h].leave = act[h].leave
                              /\ act'[h].pc = "approve"
        BY <2>2, <3>1, HandlerShape DEF ActCount
      <3> QED
        BY <2>2, <3>2 DEF ActCount
    <2>3. CASE ActApprove(h)
      <3>1. act'[h] = [act[h] EXCEPT !.pc = "notify"]
        BY <2>3 DEF ActApprove, Continue, TypeOK
      <3>2. act'[h].leave = act[h].leave /\ act'[h].pc = "notify"
        BY <2>3, <3>1, HandlerShape DEF ActApprove
      <3> QED
        BY <2>3, <3>2 DEF ActApprove
    <2>4. CASE CancelWrite(h) \/ ActReject(h) \/ ActNotify(h) \/ HandlerFails(h)
      BY <2>4 DEF HandlerFails, CancelWrite, ActReject, ActNotify, Continue,
                  TypeOK
    <2> QED
      BY <2>1, <2>2, <2>3, <2>4 DEF HandlerStep
  <1>3. /\ \A g \in Handlers : g # h => act'[g] = act[g]
        /\ UNCHANGED <<req, pc, assignee, today>>
        /\ \A k \in Leaves : k # act[h].leave => /\ status'[k] = status[k]
                                                 /\ node'[k] = node[k]
                                                 /\ notices'[k] = notices[k]
    BY <1>1 DEF HandlerStep, HandlerFails, CancelWrite, ActRecord, ActReject,
                ActCount, ActApprove, ActNotify, Continue, TypeOK
  <1> QED
    BY <1>1, <1>2, <1>3

\* What a new request changes.
LEMMA BeginShape ==
  ASSUME TypeOK, NEW h \in Handlers, Begins(h)
  PROVE  /\ MayBegin
         /\ act[h] = Idle /\ \A g \in Handlers : g # h => act'[g] = act[g]
         /\ UNCHANGED <<table, pc, notices, interrupted, today>>
         /\ act'[h].leave \in Leaves /\ status[act'[h].leave] = "pending"
         /\ act'[h].pc \in {"cancel", "record"}
         /\ act'[h].pc = "record"
              => node[act'[h].leave][act'[h].step] = "pending"
  BY DEF Begins, CancelBegin, ActBegin, Listed, Continue, TypeOK

LEMMA CreateBeginShape ==
  ASSUME TypeOK, NEW l \in Leaves, CreateBegin(l)
  PROVE  /\ MayBegin
         /\ \A k \in Leaves : k # l => pc'[k] = pc[k]
         /\ pc[l] = "idle" /\ pc'[l] \in {"refused", "overlap"}
         /\ UNCHANGED <<table, act, notices, interrupted, today>>
  BY DEF CreateBegin, Goto, TypeOK

-----------------------------------------------------------------------------
\* Create has written its row before anyone else can come to it, and all the
\* approval rows before it is through.
LEMMA CreatorStores ==
  ASSUME TypeOK, Stored, [Next]_vars, NEW l \in Leaves,
         Creates(l)
  PROVE  Stored'
  <1> USE DEF BeforeRow
  <1>1. /\ act' = act
        /\ \A k \in Leaves : /\ status[k] # "none" => status'[k] # "none"
                             /\ k # l => /\ pc'[k] = pc[k]
                                          /\ status'[k] = status[k]
    BY CreatorShape DEF Creates, CreatorStep, CreatorFails, CheckOverlap,
           CheckBalance, Insert, LoadForAuto, CheckOnSite, WriteSystemApproval,
           AutoApproveLeave, AutoApproveNotify, CreateNode, Goto, TypeOK
  <1>2. pc'[l] \in BeforeRow \cup {"refused"} => status'[l] = "none"
    BY DEF Stored, Creates, CreatorStep, CreatorFails, CheckOverlap,
           CheckBalance, Insert, LoadForAuto, CheckOnSite, WriteSystemApproval,
           AutoApproveLeave, AutoApproveNotify, CreateNode, Goto, TypeOK
  <1>3. ASSUME NEW t \in ManualSteps, CreateNode(l, t), pc'[l] = "done"
        PROVE  \A s \in Steps(l) : node'[l][s] # "none"
    <2>1. /\ ~ \E s \in Steps(l) : StepOrder(s) > StepOrder(t)
          /\ \A s \in Steps(l) : StepOrder(s) < StepOrder(t) => node[l][s] # "none"
          /\ node' = [node EXCEPT ![l][t] = "pending"]
      BY <1>3 DEF CreateNode
    <2>2. node'[l][t] = "pending"
          /\ \A s \in ApproverTypes : s # t => node'[l][s] = node[l][s]
      BY <2>1 DEF TypeOK, ApproverTypes
    <2> SUFFICES ASSUME NEW s \in Steps(l) PROVE node'[l][s] # "none"
      OBVIOUS
    <2>3. s \in ManualSteps /\ s \in ApproverTypes
      BY StepsOfLeave DEF ApproverTypes
    <2>4. s = t \/ StepOrder(s) < StepOrder(t)
      BY <2>1, <2>3 DEF StepOrder, ManualSteps
    <2> QED
      BY <2>1, <2>2, <2>3, <2>4
  <1>4. pc'[l] = "done"
          => \/ status'[l] # "pending"
             \/ \E t \in ManualSteps : CreateNode(l, t)
    BY DEF Stored, Creates, CreatorStep, CreatorFails, CheckOverlap,
           CheckBalance, Insert, LoadForAuto, CheckOnSite, WriteSystemApproval,
           AutoApproveLeave, AutoApproveNotify, Goto, TypeOK
  <1>5. ASSUME NEW k \in Leaves, status'[k] = "pending", pc'[k] = "done"
        PROVE  \A t \in Steps(k)' : node'[k][t] # "none"
    <2>1. Steps(k)' = Steps(k) /\ Steps(k) \subseteq ManualSteps
      BY StepsFixed, StepsOfLeave
    <2>2. CASE k = l
      BY <1>3, <1>4, <1>5, <2>1, <2>2
    <2>3. CASE k # l
      BY <1>1, <1>5, <2>1, <2>3, RowsStay DEF Stored
    <2> QED
      BY <2>2, <2>3
  <1>6. \A h \in Handlers : act'[h] # Idle => status'[act'[h].leave] # "none"
    BY <1>1, HandlerShape DEF Stored
  <1>7. \A k \in Leaves : pc'[k] \in BeforeRow \cup {"refused"} => status'[k] = "none"
    BY <1>1, <1>2 DEF Stored
  <1>8. pc'[l] = "notify" => status'[l] = "approved"
    BY DEF Creates, CreatorStep, CreatorFails, CheckOverlap, CheckBalance,
           Insert, LoadForAuto, CheckOnSite, WriteSystemApproval,
           AutoApproveLeave, AutoApproveNotify, CreateNode, Goto, TypeOK
  <1>9. \A k \in Leaves : pc'[k] = "notify" => status'[k] \notin {"none", "pending"}
    BY <1>1, <1>8 DEF Stored
  <1> QED
    BY <1>5, <1>6, <1>7, <1>9 DEF Stored

LEMMA StoredStep ==
  ASSUME TypeOK, Stored, [Next]_vars
  PROVE  Stored'
  <1>1. ASSUME pc' = pc,
               \A k \in Leaves : /\ status[k] = "none" <=> status'[k] = "none"
                                 /\ status'[k] = "pending" => status[k] = "pending",
               \A h \in Handlers : act'[h] # Idle
                 => act'[h].leave \in Leaves /\ status[act'[h].leave] # "none"
        PROVE  Stored'
    <2>1. ASSUME NEW k \in Leaves, status'[k] = "pending", pc'[k] = "done"
          PROVE  \A t \in Steps(k)' : node'[k][t] # "none"
      <3>1. Steps(k)' = Steps(k) /\ Steps(k) \subseteq ManualSteps
        BY StepsFixed, StepsOfLeave
      <3> QED
        BY <1>1, <2>1, <3>1, RowsStay DEF Stored
    <2> QED
      BY <1>1, <2>1 DEF Stored
  <1>2. ASSUME NEW l \in Leaves, Creates(l) PROVE Stored'
    BY <1>2, CreatorStores
  <1>3. ASSUME NEW l \in Leaves, CreateBegin(l) PROVE Stored'
    BY <1>3, CreateBeginShape DEF Stored, BeforeRow, Steps, Days
  <1>4. ASSUME NEW h \in Handlers, HandlerStep(h) \/ HandlerFails(h)
        PROVE  Stored'
    <2>1. act[h] # Idle /\ act[h].leave \in Leaves /\ status[act[h].leave] # "none"
      BY <1>4, ActShape DEF Stored
    <2>2. \/ status' = status
          \/ status'[act[h].leave] \in {"cancelled", "rejected", "approved"}
      BY <1>4, <2>1 DEF HandlerStep, HandlerFails, CancelWrite, ActRecord,
         ActReject, ActCount, ActApprove, ActNotify, TypeOK
    <2>3. \A k \in Leaves :
            /\ status[k] = "none" <=> status'[k] = "none"
            /\ status'[k] = "pending" => status[k] = "pending"
      BY <1>4, <2>1, <2>2, ActShape
    <2>4. \A g \in Handlers : act'[g] # Idle
            => act'[g].leave \in Leaves /\ status[act'[g].leave] # "none"
      BY <1>4, <2>1, ActShape, HandlerShape DEF Stored
    <2> QED
      BY <1>1, <1>4, <2>3, <2>4, ActShape
  <1>5. ASSUME NEW h \in Handlers, Begins(h) PROVE Stored'
    <2>1. \A g \in Handlers : act'[g] # Idle
            => act'[g].leave \in Leaves /\ status[act'[g].leave] # "none"
      BY <1>5, BeginShape, HandlerShape DEF Stored
    <2> QED
      BY <1>1, <1>5, <2>1, BeginShape
  <1>6. CASE UNCHANGED <<status, pc, act>>
    <2>1. \A g \in Handlers : act'[g] # Idle
            => act'[g].leave \in Leaves /\ status[act'[g].leave] # "none"
      BY <1>6, HandlerShape DEF Stored
    <2> QED
      BY <1>1, <1>6, <2>1
  <1> QED
    BY <1>2, <1>3, <1>4, <1>5, <1>6
       DEF Next, Creates, Begins, vars, AssignApprover, NextDay

\* NeverForgotten: a pending leave always has a request at work on it, or one
\* that died on it, or a row that an approver can decide, for every policy and
\* in every interleaving.
THEOREM PendingIsAttended == Spec => []NeverForgotten
  <1>1. Init => Stored
    BY DEF Init, Stored, Idle
  <1>2. TypeOK /\ Stored /\ [Next]_vars => Stored'
    BY StoredStep
  <1>3. ASSUME TypeOK, Stored, NoLostDecision PROVE NeverForgotten
    <2> SUFFICES ASSUME NEW l \in Leaves, status[l] = "pending",
                        pc[l] \notin CreatorBusy \cup {"failed"},
                        Acting(l) = {}, l \notin interrupted
                 PROVE  \E t \in Steps(l) : node[l][t] = "pending"
      BY <1>3 DEF NeverForgotten
    <2>1. pc[l] = "done"
      BY <1>3 DEF Stored, BeforeRow, CreatorBusy, CreatorPc, TypeOK
    <2>2. \A t \in Steps(l) : node[l][t] # "none"
      BY <1>3, <2>1 DEF Stored
    <2>3. ~ AllApproved(l) /\ ~ SomeRejected(l)
      BY <1>3 DEF NoLostDecision
    <2>4. PICK t \in Steps(l) : node[l][t] \notin {"none", "approved", "rejected"}
      BY <2>2, <2>3 DEF AllApproved, SomeRejected
    <2>5. node[l][t] \in {"none", "pending"} \cup Decisions
      <3>1. t \in ApproverTypes
        BY <1>3, StepsOfLeave DEF ApproverTypes
      <3>2. node \in [Leaves -> [ApproverTypes -> {"none", "pending"} \cup Decisions]]
        BY <1>3 DEF TypeOK
      <3> QED
        BY <3>1, <3>2
    <2> QED
      BY <2>4, <2>5 DEF Decisions
  <1>4. TypeOK /\ Stored /\ NoLostDecision => NeverForgotten
    BY <1>3
  <1> QED
    BY <1>1, <1>2, <1>4, TypeCorrect, DecisionsAreKept, PTL DEF Spec

-----------------------------------------------------------------------------
\* The program as it ships: with nobody in approver_id, no list of pending rows
\* has an entry, and no Act begins.
LEMMA NobodyActsStep ==
  ASSUME Approvers = {}, TypeOK, NobodyActs, [Next]_vars
  PROVE  NobodyActs'
  <1> SUFFICES ASSUME NEW h \in Handlers, act'[h] # act[h]
               PROVE  act'[h].pc \in {"idle", "cancel"}
    BY DEF NobodyActs
  <1>1. ~ ActRecord(h) /\ ~ ActCount(h) /\ ~ ActApprove(h)
    BY DEF NobodyActs, ActRecord, ActCount, ActApprove
  <1> QED
    BY <1>1, HandlerMoves

\* The system's row is written on one route, which short leaves take.
LEMMA ShortOnAutoRouteStep ==
  ASSUME TypeOK, NobodyActs, ShortOnAutoRoute, [Next]_vars
  PROVE  ShortOnAutoRoute'
  <1> SUFFICES ASSUME NEW l \in Leaves,
                      \/ SystemApproved(l)'
                      \/ pc'[l] \in {"load", "onsite", "system"}
               PROVE  (Days(l) <= AutoApproveMaxDays)'
    BY DEF ShortOnAutoRoute
  <1>1. Days(l)' = Days(l)
    BY StepsFixed DEF Days
  <1>2. SUFFICES Days(l) <= AutoApproveMaxDays
    BY <1>1
  <1> DEFINE Entered == SystemApproved(l) \/ pc[l] \in {"load", "onsite", "system"}
  <1>3. Entered => Days(l) <= AutoApproveMaxDays
    BY DEF ShortOnAutoRoute
  <1>4. ASSUME NEW k \in Leaves,
               CreateBegin(k) \/ CheckOverlap(k) \/ CheckBalance(k)
                 \/ LoadForAuto(k) \/ CheckOnSite(k) \/ AutoApproveLeave(k)
                 \/ AutoApproveNotify(k) \/ CreatorFails(k)
        PROVE  Entered
    BY <1>4 DEF CreateBegin, CheckOverlap, CheckBalance, LoadForAuto,
       CheckOnSite, AutoApproveLeave, AutoApproveNotify, CreatorFails, Goto,
       TypeOK, SystemApproved
  <1>5. ASSUME NEW k \in Leaves, WriteSystemApproval(k) PROVE Entered
    BY <1>5 DEF WriteSystemApproval, Goto, TypeOK, SystemApproved
  <1>6. ASSUME NEW k \in Leaves, NEW t \in ManualSteps, CreateNode(k, t)
        PROVE  Entered
    BY <1>6 DEF CreateNode, Goto, TypeOK, SystemApproved, ManualSteps
  <1>7. ASSUME NEW k \in Leaves, Insert(k)
        PROVE  Entered \/ Days(l) <= AutoApproveMaxDays
    BY <1>7 DEF Insert, Goto, TypeOK, SystemApproved
  <1>8. CASE UNCHANGED <<node, pc>>
    BY <1>3, <1>8 DEF SystemApproved
  <1>9. ASSUME NEW h \in Handlers, ActRecord(h) PROVE FALSE
    BY <1>9 DEF ActRecord, NobodyActs
  <1> HIDE DEF Entered
  <1> QED
    BY <1>3, <1>4, <1>5, <1>6, <1>7, <1>8, <1>9
       DEF Next, vars, CreatorStep, HandlerStep, CancelBegin, CancelWrite,
           ActBegin, ActReject, ActCount, ActApprove, ActNotify, HandlerFails,
           AssignApprover, NextDay

LEMMA OnlyTheSystemDecidesStep ==
  ASSUME TypeOK, OneRoute, NobodyActs, ShortOnAutoRoute, OnlyTheSystemDecides,
         [Next]_vars
  PROVE  OnlyTheSystemDecides'
  <1> SUFFICES ASSUME NEW l \in Leaves
               PROVE  /\ status'[l] # "rejected"
                      /\ status'[l] = "approved"
                           => /\ SystemApproved(l)'
                              /\ (Days(l) <= AutoApproveMaxDays)'
    BY DEF OnlyTheSystemDecides
  <1>1. Days(l)' = Days(l)
    BY StepsFixed DEF Days
  <1>2. ASSUME status'[l] = status[l]
        PROVE  /\ status'[l] # "rejected"
               /\ status'[l] = "approved" => SystemApproved(l)
    BY <1>2 DEF OnlyTheSystemDecides
  <1>3. ASSUME NEW k \in Leaves, Insert(k) \/ AutoApproveLeave(k)
        PROVE  /\ status'[l] # "rejected"
               /\ status'[l] = "approved" => SystemApproved(l)
    BY <1>3 DEF Insert, AutoApproveLeave, TypeOK, OneRoute, OnlyTheSystemDecides
  <1>4. ASSUME NEW h \in Handlers, CancelWrite(h)
        PROVE  /\ status'[l] # "rejected"
               /\ status'[l] = "approved" => SystemApproved(l)
    BY <1>4, HandlerShape DEF CancelWrite, TypeOK, OnlyTheSystemDecides
  <1>5. ASSUME NEW h \in Handlers, ActReject(h) \/ ActApprove(h) PROVE FALSE
    BY <1>5 DEF ActReject, ActApprove, NobodyActs
  <1>6. /\ status'[l] # "rejected"
        /\ status'[l] = "approved" => SystemApproved(l)
    BY <1>2, <1>3, <1>4, <1>5
       DEF Next, vars, CreatorStep, HandlerStep, CancelBegin, ActBegin,
           ActRecord, ActCount, ActNotify, HandlerFails, AssignApprover,
           NextDay, CreateBegin, CheckOverlap, CheckBalance, LoadForAuto,
           CheckOnSite, WriteSystemApproval, AutoApproveNotify, CreateNode,
           CreatorFails
  <1>7. SystemApproved(l) => /\ SystemApproved(l)'
                             /\ Days(l) <= AutoApproveMaxDays
    BY SystemApprovedStays DEF ShortOnAutoRoute
  <1> QED
    BY <1>1, <1>6, <1>7

LEMMA NobodyActsEver ==
  ASSUME Approvers = {}
  PROVE  Spec => []NobodyActs
  <1>1. Init => NobodyActs
    BY DEF Init, NobodyActs, Idle
  <1>2. TypeOK /\ NobodyActs /\ [Next]_vars => NobodyActs'
    BY NobodyActsStep
  <1> QED
    BY <1>1, <1>2, TypeCorrect, PTL DEF Spec

\* As long as approver_id is written by nobody, which is how the code stands, a
\* leave that takes the manual route is never decided, however many requests
\* interleave and fail and whatever the policy: those that are approved are the
\* short ones the system signed.
THEOREM ManualLeavesWait ==
  ASSUME Approvers = {}
  PROVE  Spec => []OnlyTheSystemDecides
  <1> DEFINE Inv == ShortOnAutoRoute /\ OnlyTheSystemDecides
  <1>1. Init => Inv
    BY DEF Init, ShortOnAutoRoute, OnlyTheSystemDecides, SystemApproved,
           ApproverTypes
  <1>2. TypeOK /\ (OneRoute /\ ActsOnRows) /\ NobodyActs /\ Inv /\ [Next]_vars
          => Inv'
    BY ShortOnAutoRouteStep, OnlyTheSystemDecidesStep
  <1>3. Inv => OnlyTheSystemDecides
    OBVIOUS
  <1> HIDE DEF Inv
  <1> QED
    BY <1>1, <1>2, <1>3, TypeCorrect, RowsAreKept, NobodyActsEver, PTL DEF Spec

=============================================================================
