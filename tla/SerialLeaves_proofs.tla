------------------------- MODULE SerialLeaves_proofs ------------------------
(***************************************************************************)
(* What LeaveWorkflow keeps when requests do not run into each other, for  *)
(* any number of them, each of which may still fail after any statement,   *)
(* and how far apart they have to be kept for it:                          *)
(*  - two requests never on the same leave: final decisions, at most one   *)
(*    notice and only of an approval that stands, the life cycle of        *)
(*    LeaveLifecycle (if the system signs no more than three days);        *)
(*  - nor on leaves of the same applicant: no two leaves on one date, the  *)
(*    balance behind what the system signs, as far as it has not begun;    *)
(*  - nor on leaves of the same department: the minimum on site.           *)
(* Requests that come one at a time (Serial) keep all of it.               *)
(***************************************************************************)
EXTENDS LeaveWorkflow_proofs

USE DEF table

-----------------------------------------------------------------------------
\* With Serial, no two requests are ever in flight together.

LEMMA OneAtATimeStep ==
  ASSUME Serial, TypeOK, OneAtATime, [Next]_vars
  PROVE  OneAtATime'
  <1>1. ASSUME NEW l \in Leaves, CreateBegin(l) PROVE OneAtATime'
    <2>1. Quiet /\ act' = act /\ \A k \in Leaves : k # l => pc'[k] = pc[k]
      BY <1>1, CreateBeginShape DEF MayBegin
    <2> QED
      BY <2>1 DEF OneAtATime, OnePerLeave, Busy, Quiet
  <1>2. ASSUME NEW l \in Leaves, Creates(l) PROVE OneAtATime'
    <2>1. /\ act' = act /\ pc[l] \in CreatorBusy
          /\ \A k \in Leaves : k # l => pc'[k] = pc[k]
      BY <1>2, CreatorShape
    <2>2. \A h \in Handlers : act[h] # Idle => act[h].leave \in Leaves
      BY HandlerShape
    <2> QED
      BY <2>1, <2>2 DEF OneAtATime, OnePerLeave, Busy
  <1>3. ASSUME NEW h \in Handlers, HandlerStep(h) \/ HandlerFails(h)
        PROVE  OneAtATime'
    <2>1. /\ pc' = pc /\ act[h] # Idle
          /\ \A g \in Handlers : g # h => act'[g] = act[g]
          /\ act'[h] # Idle => act'[h].leave = act[h].leave
      BY <1>3, ActShape
    <2> QED
      BY <2>1 DEF OneAtATime, OnePerLeave, Busy
  <1>4. ASSUME NEW h \in Handlers, Begins(h) PROVE OneAtATime'
    <2>1. Quiet /\ pc' = pc /\ act'[h].leave \in Leaves
          /\ \A g \in Handlers : g # h => act'[g] = act[g]
      BY <1>4, BeginShape DEF MayBegin
    <2> QED
      BY <2>1 DEF OneAtATime, OnePerLeave, Busy, Quiet
  <1>5. CASE UNCHANGED <<pc, act>>
    BY <1>5 DEF OneAtATime, OnePerLeave, Busy
  <1> QED
    BY <1>1, <1>2, <1>3, <1>4, <1>5
       DEF Next, Creates, Begins, vars, AssignApprover, NextDay

LEMMA SerialKeepsApart ==
  ASSUME Serial
  PROVE  Spec => [](OnePerLeave /\ OnePerUser /\ OnePerDept)
  <1>1. Init => OneAtATime
    BY DEF Init, OneAtATime, OnePerLeave, Busy, Idle, CreatorBusy
  <1>2. TypeOK /\ OneAtATime /\ [Next]_vars => OneAtATime'
    BY OneAtATimeStep
  <1>3. OneAtATime => OnePerLeave /\ OnePerUser /\ OnePerDept
    BY DEF OneAtATime, OnePerUser, OnePerDept
  <1> QED
    BY <1>1, <1>2, <1>3, TypeCorrect, PTL DEF Spec

-----------------------------------------------------------------------------
\* Two requests are never on the same leave: what each of them has read of the
\* leave is still there when it writes.

LEMMA Unannounced ==
  ASSUME TypeOK, NoticeFollowsApproval, NEW l \in Leaves, status[l] # "approved"
  PROVE  notices[l] = 0
  <1>1. notices[l] \in Nat /\ notices[l] <= 1 /\ notices[l] # 1
    BY DEF TypeOK, NoticeFollowsApproval
  <1> QED
    BY <1>1

LEMMA CreatorKeepsPending ==
  ASSUME TypeOK, OnePerLeave, OnPending, NoticeFollowsApproval,
         NEW l \in Leaves, Creates(l)
  PROVE  OnPending'
  <1> USE CreatorShape
  <1>1. \A h \in Handlers : act[h] # Idle => act[h].leave \in Leaves \ {l}
    BY HandlerShape DEF OnePerLeave
  <1>2. ASSUME NEW k \in Leaves, k # l
        PROVE  /\ pc'[k] = pc[k] /\ status'[k] = status[k]
               /\ node'[k] = node[k] /\ notices'[k] = notices[k]
    BY <1>2
  <1>3. /\ pc'[l] \in BeforeRow => status'[l] = "none"
        /\ pc'[l] \in AfterRow => status'[l] = "pending"
    BY DEF OnPending, BeforeRow, AfterRow, Creates, CreatorStep, CreatorFails,
           CheckOverlap, CheckBalance, Insert, LoadForAuto, CheckOnSite,
           WriteSystemApproval, AutoApproveLeave, AutoApproveNotify,
           CreateNode, Goto, TypeOK
  <1>4. pc'[l] \in BeforeRow \cup {"load", "onsite", "system"}
          => \A t \in ApproverTypes : node'[l][t] = "none"
    BY DEF OnPending, BeforeRow, Creates, CreatorStep, CreatorFails,
           CheckOverlap, CheckBalance, Insert, LoadForAuto, CheckOnSite,
           WriteSystemApproval, AutoApproveLeave, AutoApproveNotify,
           CreateNode, Goto, TypeOK
  <1>5. pc'[l] = "notify" => status'[l] = "approved" /\ notices'[l] = 0
    <2>1. pc'[l] = "notify" => AutoApproveLeave(l)
      BY DEF Creates, CreatorStep, CreatorFails, CheckOverlap, CheckBalance,
             Insert, LoadForAuto, CheckOnSite, WriteSystemApproval,
             AutoApproveNotify, CreateNode, Goto, TypeOK
    <2>2. AutoApproveLeave(l) => /\ status[l] = "pending"
                                 /\ status'[l] = "approved" /\ notices' = notices
      BY DEF AutoApproveLeave, OnPending, AfterRow, TypeOK
    <2> QED
      BY <2>1, <2>2, Unannounced
  <1>6. \A h \in Handlers :
          act'[h] # Idle =>
            IF act'[h].pc = "notify"
            THEN status'[act'[h].leave] = "approved" /\ notices'[act'[h].leave] = 0
            ELSE status'[act'[h].leave] = "pending"
    BY <1>1, <1>2 DEF OnPending
  <1>7. \A k \in Leaves :
          /\ pc'[k] \in BeforeRow => status'[k] = "none"
          /\ pc'[k] \in AfterRow => status'[k] = "pending"
          /\ pc'[k] = "notify" => status'[k] = "approved" /\ notices'[k] = 0
          /\ pc'[k] \in BeforeRow \cup {"load", "onsite", "system"}
               => \A t \in ApproverTypes : node'[k][t] = "none"
    BY <1>2, <1>3, <1>4, <1>5 DEF OnPending
  <1> QED
    BY <1>6, <1>7 DEF OnPending

LEMMA HandlerKeepsPending ==
  ASSUME TypeOK, OnePerLeave, OnPending, NoticeFollowsApproval,
         NEW h \in Handlers, HandlerStep(h) \/ HandlerFails(h)
  PROVE  OnPending'
  <1> USE ActShape
  <1>1. PICK l \in Leaves : act[h].leave = l
    OBVIOUS
  <1>2. pc' = pc /\ \A k \in Leaves : k # l => /\ status'[k] = status[k]
                                               /\ node'[k] = node[k]
                                               /\ notices'[k] = notices[k]
    BY <1>1
  <1>3. pc[l] \notin BeforeRow \cup AfterRow \cup {"notify"}
    BY <1>1 DEF OnePerLeave, OnPending, BeforeRow, AfterRow, CreatorBusy, CreatorPc
  <1>4. \A g \in Handlers : g # h /\ act[g] # Idle => act[g].leave \in Leaves \ {l}
    BY <1>1, HandlerShape DEF OnePerLeave
  <1>5. act'[h] # Idle =>
          /\ act'[h].leave = l
          /\ IF act'[h].pc = "notify"
             THEN status'[l] = "approved" /\ notices'[l] = 0
             ELSE status'[l] = "pending"
    <2> SUFFICES ASSUME act'[h] # Idle
                 PROVE  IF act'[h].pc = "notify"
                        THEN status'[l] = "approved" /\ notices'[l] = 0
                        ELSE status'[l] = "pending"
      BY <1>1
    <2>1. status[l] = "pending"
      BY <1>1 DEF OnPending
    <2>2. CASE act'[h].pc = "notify"
      <3>1. status'[l] = "approved" /\ notices' = notices
        BY <1>1, <2>2 DEF ActApprove, TypeOK
      <3> QED
        BY <2>1, <2>2, <3>1, Unannounced
    <2>3. CASE act'[h].pc # "notify"
      BY <2>1, <2>3
    <2> QED
      BY <2>2, <2>3
  <1>6. ASSUME NEW g \in Handlers, act'[g] # Idle
        PROVE  IF act'[g].pc = "notify"
               THEN status'[act'[g].leave] = "approved" /\ notices'[act'[g].leave] = 0
               ELSE status'[act'[g].leave] = "pending"
    <2>1. CASE g = h
      BY <1>5, <1>6, <2>1
    <2>2. CASE g # h
      BY <1>2, <1>4, <1>6, <2>2 DEF OnPending
    <2> QED
      BY <2>1, <2>2
  <1>7. \A k \in Leaves :
          /\ pc'[k] \in BeforeRow => status'[k] = "none"
          /\ pc'[k] \in AfterRow => status'[k] = "pending"
          /\ pc'[k] = "notify" => status'[k] = "approved" /\ notices'[k] = 0
          /\ pc'[k] \in BeforeRow \cup {"load", "onsite", "system"}
               => \A t \in ApproverTypes : node'[k][t] = "none"
    BY <1>2, <1>3 DEF OnPending, AfterRow
  <1> QED
    BY <1>6, <1>7 DEF OnPending

\* A step that leaves what is known of a leave's approval alone.
LEMMA NoticeFrame ==
  ASSUME NoticeFollowsApproval, NEW l \in Leaves,
         pc'[l] = pc[l], status'[l] = status[l], node'[l] = node[l],
         notices'[l] = notices[l], l \in interrupted => l \in interrupted',
         \A h \in Handlers : act[h].pc = "notify" /\ act[h].leave = l
                               => act'[h] = act[h]
  PROVE  /\ notices'[l] <= 1
         /\ notices'[l] = 1 => status'[l] = "approved"
         /\ status'[l] = "approved"
              => notices'[l] = 1 \/ Announcing(l)' \/ Unheard(l)'
  BY DEF NoticeFollowsApproval, Announcing, Unheard, SystemApproved

LEMMA CreatorKeepsNotice ==
  ASSUME TypeOK, OneRoute, OnPending, NoticeFollowsApproval,
         NEW l \in Leaves, Creates(l)
  PROVE  NoticeFollowsApproval'
  <1> USE CreatorShape
  <1> SUFFICES ASSUME NEW k \in Leaves
               PROVE  /\ notices'[k] <= 1
                      /\ notices'[k] = 1 => status'[k] = "approved"
                      /\ status'[k] = "approved"
                           => notices'[k] = 1 \/ Announcing(k)' \/ Unheard(k)'
    BY DEF NoticeFollowsApproval
  <1>1. CASE k # l
    BY <1>1, NoticeFrame
  <1>2. CASE k = l /\ AutoApproveLeave(l)
    <2>1. /\ status[l] = "pending" /\ notices' = notices
          /\ status'[l] = "approved" /\ pc'[l] = "notify"
      BY <1>2 DEF AutoApproveLeave, OnPending, AfterRow, Goto, TypeOK
    <2> QED
      BY <1>2, <2>1, Unannounced DEF Announcing
  <1>3. CASE k = l /\ AutoApproveNotify(l)
    BY <1>3 DEF AutoApproveNotify, OnPending, TypeOK
  <1>4. CASE k = l /\ CreatorFails(l) /\ pc[l] = "notify"
    <2>1. /\ notices'[l] = 0 /\ pc'[l] = "failed" /\ node' = node
          /\ SystemApproved(l)
      BY <1>4 DEF CreatorFails, Goto, OnPending, OneRoute, TypeOK
    <2> QED
      BY <1>4, <2>1 DEF Unheard, SystemApproved
  <1>5. CASE k = l /\ pc[l] # "notify" /\ ~ AutoApproveLeave(l)
    <2>1. status[l] # "approved"
      BY <1>5 DEF OnPending, BeforeRow, AfterRow, CreatorBusy, CreatorPc
    <2>2. notices' = notices /\ status'[l] # "approved"
      BY <1>5, <2>1 DEF Creates, CreatorStep, CreatorFails, CheckOverlap,
         CheckBalance, Insert, LoadForAuto, CheckOnSite, WriteSystemApproval,
         AutoApproveNotify, CreateNode, TypeOK
    <2> QED
      BY <1>5, <2>1, <2>2, Unannounced
  <1>6. pc[l] = "notify" => AutoApproveNotify(l) \/ CreatorFails(l)
    BY DEF Creates, CreatorStep, CheckOverlap, CheckBalance, Insert,
       LoadForAuto, CheckOnSite, WriteSystemApproval, AutoApproveLeave,
       CreateNode
  <1> QED
    BY <1>1, <1>2, <1>3, <1>4, <1>5, <1>6

LEMMA HandlerKeepsNotice ==
  ASSUME TypeOK, OnPending, NoticeFollowsApproval, NEW h \in Handlers,
         HandlerStep(h) \/ HandlerFails(h)
  PROVE  NoticeFollowsApproval'
  <1> USE ActShape
  <1>1. PICK l \in Leaves : act[h].leave = l
    OBVIOUS
  <1> SUFFICES ASSUME NEW k \in Leaves
               PROVE  /\ notices'[k] <= 1
                      /\ notices'[k] = 1 => status'[k] = "approved"
                      /\ status'[k] = "approved"
                           => notices'[k] = 1 \/ Announcing(k)' \/ Unheard(k)'
    BY DEF NoticeFollowsApproval
  <1>2. CASE k # l
    <2>1. interrupted \subseteq interrupted'
      BY DEF HandlerStep, HandlerFails, CancelWrite, ActRecord, ActReject,
             ActCount, ActApprove, ActNotify
    <2>2. \A g \in Handlers : act[g].pc = "notify" /\ act[g].leave = k
                                => act'[g] = act[g]
      BY <1>1, <1>2
    <2> QED
      BY <1>1, <1>2, <2>1, <2>2, NoticeFrame
  <1>3. CASE k = l /\ ActApprove(h)
    <2>1. status[l] = "pending" /\ status'[l] = "approved" /\ notices' = notices
      BY <1>1, <1>3 DEF ActApprove, OnPending, TypeOK
    <2>2. act'[h].leave = l /\ act'[h].pc = "notify"
      BY <1>1, <1>3, HandlerShape DEF ActApprove, Continue, TypeOK
    <2> QED
      BY <1>3, <2>1, <2>2, Unannounced DEF Announcing
  <1>4. CASE k = l /\ ActNotify(h)
    BY <1>1, <1>4 DEF ActNotify, OnPending, TypeOK
  <1>5. CASE k = l /\ HandlerFails(h) /\ act[h].pc = "notify"
    BY <1>1, <1>5 DEF HandlerFails, OnPending, Unheard
  <1>6. CASE k = l /\ act[h].pc # "notify" /\ ~ ActApprove(h)
    <2>1. status[l] = "pending"
      BY <1>1, <1>6 DEF OnPending
    <2>2. notices' = notices /\ status'[l] # "approved"
      BY <1>1, <1>6, <2>1 DEF HandlerStep, HandlerFails, CancelWrite,
         ActRecord, ActReject, ActCount, ActNotify, TypeOK
    <2> QED
      BY <1>6, <2>1, <2>2, Unannounced
  <1>7. act[h].pc = "notify" => ActNotify(h) \/ HandlerFails(h)
    BY DEF HandlerStep, CancelWrite, ActRecord, ActReject, ActCount, ActApprove
  <1> QED
    BY <1>2, <1>3, <1>4, <1>5, <1>6, <1>7

LEMMA LeaveInvStep ==
  ASSUME TypeOK, OneRoute, OnePerLeave, LeaveInv, [Next]_vars
  PROVE  LeaveInv'
  <1> USE DEF LeaveInv
  <1>1. ASSUME NEW l \in Leaves, Creates(l) PROVE LeaveInv'
    BY <1>1, CreatorKeepsPending, CreatorKeepsNotice
  <1>2. ASSUME NEW h \in Handlers, HandlerStep(h) \/ HandlerFails(h)
        PROVE  LeaveInv'
    BY <1>2, HandlerKeepsPending, HandlerKeepsNotice
  <1>3. ASSUME NEW l \in Leaves, CreateBegin(l) PROVE LeaveInv'
    <2>1. OnPending'
      BY <1>3, CreateBeginShape DEF OnPending, BeforeRow, AfterRow
    <2>2. NoticeFollowsApproval'
      BY <1>3, CreateBeginShape
         DEF NoticeFollowsApproval, Announcing, Unheard, SystemApproved
    <2> QED
      BY <2>1, <2>2
  <1>4. ASSUME NEW h \in Handlers, Begins(h) PROVE LeaveInv'
    <2>1. OnPending'
      BY <1>4, BeginShape DEF OnPending
    <2>2. \A g \in Handlers : act[g].pc = "notify" => act'[g] = act[g]
      BY <1>4, BeginShape DEF Idle
    <2>3. NoticeFollowsApproval'
      BY <1>4, <2>2, BeginShape
         DEF NoticeFollowsApproval, Announcing, Unheard, SystemApproved
    <2> QED
      BY <2>1, <2>3
  <1>5. CASE UNCHANGED <<status, req, node, pc, act, notices, interrupted>>
    BY <1>5 DEF OnPending, NoticeFollowsApproval, Announcing, Unheard,
                SystemApproved
  <1> QED
    BY <1>1, <1>2, <1>3, <1>4, <1>5
       DEF Next, Creates, Begins, vars, AssignApprover, NextDay

LEMMA InitLeaveInv == Init => LeaveInv
  BY DEF Init, LeaveInv, OnPending, NoticeFollowsApproval, Idle, BeforeRow,
         AfterRow

LEMMA KeepsLeaveInv == Spec /\ []OnePerLeave => []LeaveInv
  <1>1. TypeOK /\ (OneRoute /\ ActsOnRows) /\ OnePerLeave /\ LeaveInv
          /\ [Next]_vars => LeaveInv'
    BY LeaveInvStep
  <1> QED
    BY <1>1, InitLeaveInv, TypeCorrect, RowsAreKept, PTL DEF Spec

\* NoticeFollowsApproval: NotifyLeaveApproved is started once at most for a
\* leave, and only for one that stays approved; an approved leave goes without
\* its notice only if a request on it died, even after an UPDATE that took
\* effect.  It takes that no two requests meet on a leave.
THEOREM LeaveLockKeepsNotices == Spec /\ []OnePerLeave => []NoticeFollowsApproval
  <1>1. LeaveInv => NoticeFollowsApproval
    BY DEF LeaveInv
  <1> QED
    BY <1>1, KeepsLeaveInv, PTL

\* ... and so the notices follow when requests come one at a time.
THEOREM NoticesFollowApprovals ==
  ASSUME Serial
  PROVE  Spec => []NoticeFollowsApproval
  BY SerialKeepsApart, LeaveLockKeepsNotices, PTL

\* A Cancel or an Act writes only the status of a leave that is pending.
LEMMA ActOnPending ==
  ASSUME TypeOK, OnPending, NEW h \in Handlers, HandlerStep(h) \/ HandlerFails(h)
  PROVE  UNCHANGED status \/ status[act[h].leave] = "pending"
  <1>1. CASE act[h].pc = "notify"
    BY <1>1 DEF HandlerStep, HandlerFails, CancelWrite, ActRecord, ActReject,
                ActCount, ActApprove, ActNotify
  <1>2. CASE act[h].pc # "notify"
    BY <1>2, ActShape DEF OnPending
  <1> QED
    BY <1>1, <1>2

\* A status is written only over "none", by the INSERT, or over "pending".
LEMMA OnlyPendingChanges ==
  ASSUME TypeOK, OnPending, [Next]_vars, NEW l \in Leaves,
         status[l] \notin {"none", "pending"}
  PROVE  status'[l] = status[l]
  <1>1. ASSUME NEW k \in Leaves, Creates(k) PROVE status'[l] = status[l]
    <2>1. CASE k # l
      BY <1>1, <2>1, CreatorShape
    <2>2. CASE k = l
      BY <1>1, <2>2 DEF OnPending, BeforeRow, AfterRow, Creates, CreatorStep,
         CreatorFails, CheckOverlap, CheckBalance, Insert, LoadForAuto,
         CheckOnSite, WriteSystemApproval, AutoApproveLeave, AutoApproveNotify,
         CreateNode
    <2> QED
      BY <2>1, <2>2
  <1>2. ASSUME NEW h \in Handlers, HandlerStep(h) \/ HandlerFails(h)
        PROVE  status'[l] = status[l]
    BY <1>2, ActShape, ActOnPending
  <1>3. CASE UNCHANGED status
    BY <1>3
  <1> QED
    BY <1>1, <1>2, <1>3
       DEF Next, Creates, vars, AssignApprover, NextDay, CreateBegin,
           CancelBegin, ActBegin

\* DecisionIsFinal: a leave that Cancel, Act or Create has settled is never
\* settled differently unless two of them meet on it; the status each of them
\* has read is otherwise still the one it overwrites.
THEOREM LeaveLockKeepsDecisions == Spec /\ []OnePerLeave => DecisionIsFinal
  <1> DEFINE Final == \A l \in Leaves : status[l] \notin {"none", "pending"}
                                         => status'[l] = status[l]
  <1>1. TypeOK /\ LeaveInv /\ [Next]_vars => [Final]_vars
    BY OnlyPendingChanges DEF LeaveInv
  <1> QED
    BY <1>1, KeepsLeaveInv, TypeCorrect, PTL DEF Spec, DecisionIsFinal

\* ... and so it is when requests come one at a time.
THEOREM DecisionsAreFinal ==
  ASSUME Serial
  PROVE  Spec => DecisionIsFinal
  BY SerialKeepsApart, LeaveLockKeepsDecisions, PTL

\* An Act that nobody disturbs on its leave, under the policy that
\* EnoughMeansDecided needs, finds the row it decided as it wrote it.
LEMMA HandlerKeepsRow ==
  ASSUME AutoApproveMaxDays <= 3, TypeOK, OnePerLeave, OneRoute, ActsOnRows,
         ActsAlone, [Next]_vars, NEW h \in Handlers,
         HandlerStep(h) \/ HandlerFails(h)
  PROVE  ActsAlone'
  <1> USE ActShape
  <1>1. PICK l \in Leaves : act[h].leave = l
    OBVIOUS
  <1>2. PICK s : act[h].step = s
    OBVIOUS
  <1>3. act'[h].pc \in {"record", "reject", "count", "approve"} =>
          /\ act'[h].leave = l /\ act'[h].step = s
          /\ act'[h].pc = "record" => node'[l][s] = "pending"
          /\ act'[h].pc = "reject" => node'[l][s] = "rejected"
          /\ act'[h].pc \in {"count", "approve"} => node'[l][s] = "approved"
          /\ act'[h].pc = "approve" => AllApproved(l)'
    <2>1. CASE ActRecord(h)
      <3>1. s \in ApproverTypes /\ act[h].decision \in Decisions
        BY <1>2, <2>1, HandlerShape DEF ActRecord, ApproverTypes
      <3>2. node'[l][s] = act[h].decision
        BY <1>1, <1>2, <2>1, <3>1 DEF ActRecord, TypeOK
      <3>3. /\ act'[h].leave = l /\ act'[h].step = s
            /\ act'[h].pc = IF act[h].decision = "rejected" THEN "reject" ELSE "count"
        BY <1>1, <1>2, <2>1, HandlerShape DEF ActRecord, Continue, TypeOK
      <3> QED
        BY <3>1, <3>2, <3>3 DEF Decisions
    <2>2. CASE ActCount(h) /\ EnoughApprovals(l)
      <3>1. s \in ManualSteps /\ node[l][s] = "approved" /\ node' = node
        BY <1>1, <1>2, <2>2, HandlerShape DEF ActCount, ActsAlone
      <3>2. /\ node[l]["system"] = "none"
            /\ \A t \in ManualSteps : node[l][t] # "none" => t \in Steps(l)
        BY <3>1 DEF OneRoute, ManualRow
      <3>3. AllApproved(l)
        BY <2>2, <3>1, <3>2, EnoughMeansDecided DEF Decisions
      <3>4. AllApproved(l)'
        BY <3>1, <3>3, StepsFixed DEF AllApproved
      <3>5. act'[h].leave = l /\ act'[h].step = s /\ act'[h].pc = "approve"
        BY <1>1, <1>2, <2>2, HandlerShape DEF ActCount, Continue, TypeOK
      <3> QED
        BY <3>1, <3>4, <3>5
    <2>3. CASE act'[h] = Idle
      BY <2>3 DEF Idle
    <2>4. CASE ActApprove(h)
      BY <2>4, HandlerShape DEF ActApprove, Continue, TypeOK
    <2> QED
      BY <1>1, <2>1, <2>2, <2>3, <2>4
         DEF HandlerStep, HandlerFails, CancelWrite, ActReject, ActCount,
             ActNotify, Continue, TypeOK
  <1>4. ASSUME NEW g \in Handlers, g # h, act[g] # Idle
        PROVE  \E k \in Leaves : act[g].leave = k /\ node'[k] = node[k]
    BY <1>4, HandlerShape DEF OnePerLeave
  <1>5. ASSUME NEW k \in Leaves, node'[k] = node[k], AllApproved(k)
        PROVE  AllApproved(k)'
    BY <1>5, StepsFixed DEF AllApproved
  <1>6. ASSUME NEW g \in Handlers
        PROVE  /\ act'[g].pc = "record" => node'[act'[g].leave][act'[g].step] = "pending"
               /\ act'[g].pc = "reject" => node'[act'[g].leave][act'[g].step] = "rejected"
               /\ act'[g].pc \in {"count", "approve"}
                    => node'[act'[g].leave][act'[g].step] = "approved"
               /\ act'[g].pc = "approve"
                    => \E k \in Leaves : act'[g].leave = k /\ AllApproved(k)'
    <2>1. CASE g = h
      BY <1>3, <2>1
    <2>2. CASE g # h /\ act[g] = Idle
      BY <2>2 DEF Idle
    <2>3. CASE g # h /\ act[g] # Idle
      <3>1. PICK k \in Leaves : act[g].leave = k /\ node'[k] = node[k]
        BY <1>4, <2>3
      <3>2. act[g].pc = "approve" => AllApproved(k)
        BY <3>1 DEF ActsAlone
      <3>3. act[g].pc = "approve" => AllApproved(k)'
        BY <1>5, <3>1, <3>2
      <3> QED
        BY <2>3, <3>1, <3>3 DEF ActsAlone
    <2> QED
      BY <2>1, <2>2, <2>3
  <1> QED
    BY <1>6 DEF ActsAlone, AllApproved, Steps, Days

LEMMA ActsAloneStep ==
  ASSUME AutoApproveMaxDays <= 3, TypeOK, OneRoute, ActsOnRows, OnePerLeave,
         ActsAlone, [Next]_vars
  PROVE  ActsAlone'
  <1>1. ASSUME NEW l \in Leaves, Creates(l) PROVE ActsAlone'
    <2>1. \A h \in Handlers : act[h] # Idle
            => act[h].leave \in Leaves /\ node'[act[h].leave] = node[act[h].leave]
      BY <1>1, CreatorShape, HandlerShape DEF OnePerLeave
    <2>2. act' = act /\ \A h \in Handlers : act[h].pc # "idle" => act[h] # Idle
      BY <1>1, CreatorShape DEF Idle
    <2>3. \A k \in Leaves : node'[k] = node[k] /\ AllApproved(k) => AllApproved(k)'
      BY StepsFixed DEF AllApproved
    <2>4. ASSUME NEW h \in Handlers, act[h].pc = "approve"
          PROVE  \E k \in Leaves : act'[h].leave = k /\ AllApproved(k)'
      BY <2>1, <2>2, <2>3, <2>4 DEF ActsAlone
    <2> QED
      BY <2>1, <2>2, <2>4 DEF ActsAlone, AllApproved, Steps, Days
  <1>2. ASSUME NEW h \in Handlers, HandlerStep(h) \/ HandlerFails(h)
        PROVE  ActsAlone'
    BY <1>2, HandlerKeepsRow
  <1>3. ASSUME NEW h \in Handlers, Begins(h) PROVE ActsAlone'
    BY <1>3, BeginShape DEF ActsAlone, AllApproved, Steps, Days
  <1>4. CASE UNCHANGED <<status, req, node, act>>
    BY <1>4 DEF ActsAlone, AllApproved, Steps, Days
  <1> QED
    BY <1>1, <1>2, <1>3, <1>4
       DEF Next, Creates, Begins, vars, CreateBegin, AssignApprover, NextDay

LEMMA KeepsActsAlone ==
  ASSUME AutoApproveMaxDays <= 3
  PROVE  Spec /\ []OnePerLeave => []ActsAlone
  <1>1. Init => ActsAlone
    BY DEF Init, ActsAlone, Idle
  <1>2. TypeOK /\ (OneRoute /\ ActsOnRows) /\ OnePerLeave /\ ActsAlone
          /\ [Next]_vars => ActsAlone'
    BY ActsAloneStep
  <1> QED
    BY <1>1, <1>2, TypeCorrect, RowsAreKept, PTL DEF Spec

-----------------------------------------------------------------------------
\* While a Create call is under way, another step changes the status of no leave
\* but one that a request is busy with.
LEMMA OthersStep ==
  ASSUME TypeOK, OnePerLeave, [Next]_vars, NEW k \in Leaves,
         pc[k] \in CreatorBusy, ~ Creates(k)
  PROVE  /\ pc'[k] = pc[k] /\ status'[k] = status[k]
         /\ \A j \in Leaves : status'[j] # status[j] => Busy(j)
  <1>1. ASSUME NEW l \in Leaves, Creates(l)
        PROVE  /\ pc'[k] = pc[k] /\ status'[k] = status[k]
               /\ \A j \in Leaves : status'[j] # status[j] => Busy(j)
    BY <1>1, CreatorShape DEF Busy
  <1>2. ASSUME NEW h \in Handlers, HandlerStep(h) \/ HandlerFails(h)
        PROVE  /\ pc'[k] = pc[k] /\ status'[k] = status[k]
               /\ \A j \in Leaves : status'[j] # status[j] => Busy(j)
    BY <1>2, ActShape DEF Busy, OnePerLeave
  <1>3. ASSUME NEW l \in Leaves, CreateBegin(l)
        PROVE  status' = status /\ pc'[k] = pc[k]
    BY <1>3, CreateBeginShape DEF CreatorBusy
  <1>4. CASE UNCHANGED <<status, pc>>
    BY <1>4
  <1> QED
    BY <1>1, <1>2, <1>3, <1>4
       DEF Next, Creates, vars, AssignApprover, NextDay, CancelBegin, ActBegin

\* A Create call that has come past its first check was under way before.
LEMMA PastOverlap ==
  ASSUME TypeOK, OnePerLeave, [Next]_vars, NEW k \in Leaves,
         pc'[k] \in CreatorBusy \ {"overlap"}
  PROVE  pc[k] \in CreatorBusy
  <1>1. ASSUME NEW l \in Leaves, Creates(l) PROVE pc[k] \in CreatorBusy
    BY <1>1, CreatorShape
  <1>2. ASSUME NEW h \in Handlers, HandlerStep(h) \/ HandlerFails(h)
        PROVE  pc[k] \in CreatorBusy
    BY <1>2, ActShape
  <1>3. ASSUME NEW l \in Leaves, CreateBegin(l) PROVE pc[k] \in CreatorBusy
    BY <1>3, CreateBeginShape DEF CreatorBusy
  <1>4. CASE UNCHANGED pc
    BY <1>4
  <1> QED
    BY <1>1, <1>2, <1>3, <1>4
       DEF Next, Creates, vars, AssignApprover, NextDay, CancelBegin, ActBegin

LEMMA TimePasses ==
  ASSUME TypeOK, [Next]_vars
  PROVE  UNCHANGED req /\ today' \in {today, today + 1}
  <1>1. ASSUME NEW l \in Leaves, Creates(l) \/ CreateBegin(l) PROVE today' = today
    BY <1>1, CreatorShape, CreateBeginShape
  <1>2. ASSUME NEW h \in Handlers, HandlerStep(h) \/ HandlerFails(h) \/ Begins(h)
        PROVE  today' = today
    BY <1>2, ActShape, BeginShape
  <1>3. CASE today' \in {today, today + 1}
    BY <1>3, StepsFixed
  <1> QED
    BY <1>1, <1>2, <1>3, StepsFixed
       DEF Next, Creates, Begins, vars, AssignApprover, NextDay

\* What the requests of others change for an applicant.
LEMMA ApplicantApart ==
  ASSUME TypeOK, OnePerUser, [Next]_vars, NEW k \in Leaves,
         pc[k] \in CreatorBusy, ~ Creates(k), NEW j \in Leaves,
         req[j].user = req[k].user
  PROVE  status'[j] = status[j]
  BY OthersStep DEF OnePerUser, Busy

LEMMA DeptApart ==
  ASSUME TypeOK, OnePerDept, [Next]_vars, NEW k \in Leaves,
         pc[k] \in CreatorBusy, ~ Creates(k), NEW j \in Leaves,
         DeptOf[req[j].user] = DeptOf[req[k].user]
  PROVE  status'[j] = status[j]
  BY OthersStep DEF OnePerDept, Busy

-----------------------------------------------------------------------------
\* Two requests are never on leaves of the same applicant: what Create has found
\* out about the other leaves stays so.

LEMMA StillApartStep ==
  ASSUME TypeOK, OnePerUser, StillApart, [Next]_vars
  PROVE  StillApart'
  <1> SUFFICES ASSUME NEW k \in Leaves, pc'[k] \in {"balance", "insert"}
               PROVE  ~ HasOverlap(k)'
    BY DEF StillApart
  <1>1. pc[k] \in CreatorBusy /\ UNCHANGED req /\ OnePerLeave
    BY PastOverlap, StepsFixed DEF OnePerUser, CreatorBusy, CreatorPc
  <1>2. CASE Creates(k)
    <2>1. ~ HasOverlap(k) /\ status' = status
      BY <1>2 DEF StillApart, Creates, CreatorStep, CreatorFails, CheckOverlap,
             CheckBalance, Insert, LoadForAuto, CheckOnSite,
             WriteSystemApproval, AutoApproveLeave, AutoApproveNotify,
             CreateNode, Goto, TypeOK
    <2> QED
      BY <1>1, <2>1 DEF HasOverlap
  <1>3. CASE ~ Creates(k)
    <2>1. \A j \in Leaves : req[j].user = req[k].user => status'[j] = status[j]
      BY <1>1, <1>3, ApplicantApart
    <2>2. ~ HasOverlap(k)
      BY <1>1, <1>3, OthersStep DEF StillApart
    <2> QED
      BY <1>1, <2>1, <2>2 DEF HasOverlap
  <1> QED
    BY <1>2, <1>3

\* Only an INSERT brings a leave into the way of another one.
LEMMA FewerLeaves ==
  ASSUME NoOverlap, UNCHANGED req,
         \A l \in Leaves : status'[l] \in {"pending", "approved"}
                             => status[l] \in {"pending", "approved"}
  PROVE  NoOverlap'
  BY DEF NoOverlap

LEMMA CreatorKeepsDates ==
  ASSUME TypeOK, OnPending, StillApart, NoOverlap, NEW l \in Leaves, Creates(l)
  PROVE  NoOverlap'
  <1> USE CreatorShape
  <1>1. CASE Insert(l)
    <2>1. ~ HasOverlap(l) /\ UNCHANGED req
      BY <1>1 DEF Insert, StillApart
    <2>2. ASSUME NEW k \in Leaves, k # l, req[k].user = req[l].user,
                 status'[k] \in {"pending", "approved"}
          PROVE  ~ (req[k].start <= req[l].end /\ req[k].end >= req[l].start)
      BY <2>1, <2>2 DEF HasOverlap
    <2>3. ASSUME NEW k \in Leaves
          PROVE  req[k].start \in Nat /\ req[k].end \in Nat
      <3>1. req[k] \in Requests
        BY DEF TypeOK
      <3> QED
        BY <3>1, PolicyAssumption DEF PolicyAssumption
    <2> SUFFICES ASSUME NEW j \in Leaves, NEW k \in Leaves, j # k,
                        req[j].user = req[k].user,
                        {status'[j], status'[k]} \subseteq {"pending", "approved"}
                 PROVE  req[j].end < req[k].start \/ req[k].end < req[j].start
      BY <2>1 DEF NoOverlap
    <2>4. CASE j = l
      BY <2>2, <2>3, <2>4
    <2>5. CASE k = l
      BY <2>2, <2>3, <2>5
    <2>6. CASE j # l /\ k # l
      BY <2>6 DEF NoOverlap
    <2> QED
      BY <2>4, <2>5, <2>6
  <1>2. ASSUME AutoApproveLeave(l) \/ UNCHANGED status,
               NEW k \in Leaves, status'[k] \in {"pending", "approved"}
        PROVE  status[k] \in {"pending", "approved"}
    BY <1>2 DEF AutoApproveLeave, OnPending, AfterRow
  <1> QED
    BY <1>1, <1>2, FewerLeaves
       DEF Creates, CreatorStep, CreatorFails, CheckOverlap, CheckBalance,
           LoadForAuto, CheckOnSite, WriteSystemApproval, AutoApproveNotify,
           CreateNode

LEMMA NoOverlapStep ==
  ASSUME TypeOK, OnPending, StillApart, NoOverlap, [Next]_vars
  PROVE  NoOverlap'
  <1>1. ASSUME NEW l \in Leaves, Creates(l) PROVE NoOverlap'
    BY <1>1, CreatorKeepsDates
  <1>2. ASSUME NEW h \in Handlers, HandlerStep(h) \/ HandlerFails(h)
        PROVE  NoOverlap'
    BY <1>2, ActShape, ActOnPending, FewerLeaves
  <1>3. CASE UNCHANGED status
    BY <1>3, FewerLeaves, StepsFixed
  <1> QED
    BY <1>1, <1>2, <1>3
       DEF Next, Creates, vars, AssignApprover, NextDay, CreateBegin,
           CancelBegin, ActBegin

\* How many days are approved and not yet begun depends on nothing but the
\* leaves and the date ...
LEMMA ApprovedDays ==
  ASSUME TypeOK, OnPending, IsFiniteSet(Begun), NEW u, NEW type
  PROVE  /\ PendingApproved(u, type) \in SUBSET Leaves
         /\ IsFiniteSet(PendingApproved(u, type))
         /\ [k \in Leaves |-> Days(k)] \in [Leaves -> Nat]
         /\ DaysOf(PendingApproved(u, type)) \in Nat
  <1>1. PendingApproved(u, type) \in SUBSET Begun
    BY DEF PendingApproved, Begun, OnPending, BeforeRow
  <1>2. /\ PendingApproved(u, type) \in SUBSET Leaves
        /\ IsFiniteSet(PendingApproved(u, type))
    BY <1>1, FS_Subset DEF Begun
  <1>3. [k \in Leaves |-> Days(k)] \in [Leaves -> Nat]
    BY StepsOfLeave
  <1> QED
    BY <1>2, <1>3, SumIsNat DEF DaysOf

\* ... and does not grow unless a leave of the applicant is approved.
LEMMA PendingShrinks ==
  ASSUME TypeOK, NEW u, NEW type,
         UNCHANGED req, today' \in {today, today + 1},
         \A k \in Leaves : req[k].user = u /\ status'[k] = "approved"
                             => status[k] = "approved"
  PROVE  PendingApproved(u, type)' \in SUBSET PendingApproved(u, type)
  <1>1. \A k \in Leaves : req[k] \in Requests
    BY DEF TypeOK
  <1>2. \A k \in Leaves : req[k].start \in Nat
    BY <1>1, PolicyAssumption DEF PolicyAssumption
  <1> QED
    BY <1>2 DEF PendingApproved, TypeOK

LEMMA FewerDays ==
  ASSUME TypeOK, OnPending, IsFiniteSet(Begun), NEW u, NEW type, UNCHANGED req,
         PendingApproved(u, type)' \in SUBSET PendingApproved(u, type)
  PROVE  /\ DaysOf(PendingApproved(u, type))' <= DaysOf(PendingApproved(u, type))
         /\ DaysOf(PendingApproved(u, type))' \in Nat
  <1>1. PICK f : f = [k \in Leaves |-> Days(k)]
    OBVIOUS
  <1>2. [k \in Leaves |-> Days(k)]' = f
    BY <1>1 DEF Days
  <1>3. DaysOf(PendingApproved(u, type))'
          = SumFunctionOnSet(f, PendingApproved(u, type)')
    BY <1>2 DEF DaysOf
  <1>4. DaysOf(PendingApproved(u, type))
          = SumFunctionOnSet(f, PendingApproved(u, type))
    BY <1>1 DEF DaysOf
  <1>5. f \in [Leaves -> Nat] /\ IsFiniteSet(PendingApproved(u, type)')
        /\ PendingApproved(u, type)' \in SUBSET Leaves
    BY <1>1, ApprovedDays, FS_Subset
  <1> QED
    BY <1>3, <1>4, <1>5, ApprovedDays, SumOfFewer, SumIsNat

LEMMA BalanceOfRequest ==
  ASSUME TypeOK, NEW l \in Leaves, req[l].type # "compassion"
  PROVE  Balance[req[l].user][req[l].type] \in Int
  <1>1. req[l] \in Requests
    BY DEF TypeOK
  <1> QED
    BY <1>1, PolicyAssumption DEF PolicyAssumption

\* ... so that a balance found sufficient stays so.
LEMMA StaysSufficient ==
  ASSUME TypeOK, OnPending, IsFiniteSet(Begun), NEW l \in Leaves,
         UNCHANGED req, today' \in {today, today + 1},
         \A k \in Leaves : req[k].user = req[l].user /\ status'[k] = "approved"
                             => status[k] = "approved",
         HasSufficientBalance(l)
  PROVE  HasSufficientBalance(l)'
  <1> SUFFICES ASSUME req[l].type # "compassion" PROVE HasSufficientBalance(l)'
    BY DEF HasSufficientBalance
  <1>1. PICK u, type : u = req[l].user /\ type = req[l].type
    OBVIOUS
  <1>2. PICK b : b = Balance[u][type]
    OBVIOUS
  <1>3. b \in Int /\ Days(l) \in Nat /\ Days(l)' = Days(l)
    BY <1>1, <1>2, BalanceOfRequest, StepsOfLeave DEF Days
  <1>4. b >= DaysOf(PendingApproved(u, type)) + Days(l)
    BY <1>1, <1>2 DEF HasSufficientBalance
  <1>5. b >= DaysOf(PendingApproved(u, type))' + Days(l)
    BY <1>1, <1>3, <1>4, PendingShrinks, FewerDays, ApprovedDays
  <1>6. u = req'[l].user /\ type = req'[l].type
    BY <1>1
  <1> QED
    BY <1>2, <1>3, <1>5, <1>6 DEF HasSufficientBalance

\* A request that begins is one more at most.
LEMMA BegunStep ==
  ASSUME TypeOK, IsFiniteSet(Begun), [Next]_vars
  PROVE  IsFiniteSet(Begun')
  <1>1. ASSUME NEW l \in Leaves, CreateBegin(l) \/ Creates(l)
        PROVE  IsFiniteSet(Begun')
    <2>1. \A k \in Leaves : k # l => pc'[k] = pc[k]
      BY <1>1, CreatorShape, CreateBeginShape
    <2>2. Begun' \in SUBSET (Begun \cup {l})
      BY <2>1 DEF Begun
    <2> QED
      BY <2>2, FS_AddElement, FS_Subset
  <1>2. ASSUME UNCHANGED pc PROVE IsFiniteSet(Begun')
    BY <1>2 DEF Begun
  <1>3. ASSUME NEW h \in Handlers, HandlerStep(h) \/ HandlerFails(h) \/ Begins(h)
        PROVE  UNCHANGED pc
    BY <1>3, ActShape, BeginShape
  <1> QED
    BY <1>1, <1>2, <1>3 DEF Next, Creates, Begins, vars, AssignApprover, NextDay

\* From CheckBalance to the approval the balance is what it was found to be:
\* meanwhile nothing of the applicant is approved, and a leave that begins takes
\* no more.
LEMMA StillAffordableStep ==
  ASSUME TypeOK, OnePerUser, OnPending, IsFiniteSet(Begun), StillAffordable,
         [Next]_vars
  PROVE  StillAffordable'
  <1> SUFFICES ASSUME NEW k \in Leaves,
                      pc'[k] \in {"insert", "load", "onsite", "system", "approve"}
               PROVE  HasSufficientBalance(k)'
    BY DEF StillAffordable
  <1>1. pc[k] \in CreatorBusy /\ OnePerLeave
    BY PastOverlap DEF OnePerUser, CreatorBusy, CreatorPc
  <1>2. CASE Creates(k)
    <2>1. /\ HasSufficientBalance(k)
          /\ \A j \in Leaves : status'[j] = "approved" => status[j] = "approved"
      BY <1>2 DEF StillAffordable, Creates, CreatorStep, CreatorFails,
           CheckOverlap, CheckBalance, Insert, LoadForAuto, CheckOnSite,
           WriteSystemApproval, AutoApproveLeave, AutoApproveNotify,
           CreateNode, Goto, TypeOK
    <2> QED
      BY <2>1, TimePasses, StaysSufficient
  <1>3. CASE ~ Creates(k)
    <2>1. \A j \in Leaves : req[j].user = req[k].user => status'[j] = status[j]
      BY <1>1, <1>3, ApplicantApart
    <2>2. HasSufficientBalance(k)
      BY <1>1, <1>3, OthersStep DEF StillAffordable
    <2> QED
      BY <2>1, <2>2, TimePasses, StaysSufficient
  <1> QED
    BY <1>2, <1>3

LEMMA KeepsUserInv == Spec /\ []OnePerUser => []UserInv
  <1>1. Init => UserInv
    <2> SUFFICES ASSUME Init PROVE UserInv
      OBVIOUS
    <2>1. Begun = {}
      BY DEF Init, Begun
    <2> QED
      BY <2>1, InitLeaveInv, FS_EmptySet
         DEF Init, UserInv, StillApart, StillAffordable, NoOverlap
  <1>2. TypeOK /\ (OneRoute /\ ActsOnRows) /\ OnePerUser /\ UserInv
          /\ [Next]_vars => UserInv'
    <2> SUFFICES ASSUME TypeOK, OneRoute, OnePerUser, UserInv, [Next]_vars
                 PROVE  UserInv'
      OBVIOUS
    <2> USE DEF UserInv
    <2>1. LeaveInv'
      BY LeaveInvStep DEF OnePerUser
    <2>2. StillApart' /\ StillAffordable' /\ IsFiniteSet(Begun)' /\ NoOverlap'
      BY StillApartStep, StillAffordableStep, BegunStep, NoOverlapStep DEF LeaveInv
    <2> QED
      BY <2>1, <2>2
  <1> QED
    BY <1>1, <1>2, TypeCorrect, RowsAreKept, PTL DEF Spec

\* NoOverlap: an applicant never has two leaves on one date unless two of their
\* requests meet, because HasOverlap then sees each and every row it must.
THEOREM UserLockKeepsDates == Spec /\ []OnePerUser => []NoOverlap
  <1>1. UserInv => NoOverlap
    BY DEF UserInv
  <1> QED
    BY <1>1, KeepsUserInv, PTL

\* ... and so the dates are kept apart when requests come one at a time.
THEOREM DatesAreKept ==
  ASSUME Serial
  PROVE  Spec => []NoOverlap
  BY SerialKeepsApart, UserLockKeepsDates, PTL

-----------------------------------------------------------------------------
\* A leave the system is about to sign is approved by nobody else.
LEMMA SystemSigns ==
  ASSUME TypeOK, OnePerLeave, [Next]_vars, NEW l \in Leaves, pc[l] = "approve",
         status[l] # "approved", status'[l] = "approved"
  PROVE  AutoApproveLeave(l)
  <1>1. Creates(l)
    BY OthersStep DEF CreatorBusy, CreatorPc
  <1> QED
    BY <1>1 DEF Creates, CreatorStep, CreatorFails, CheckOverlap,
       CheckBalance, Insert, LoadForAuto, CheckOnSite, WriteSystemApproval,
       AutoApproveNotify, CreateNode

\* What is approved and not begun when the system has signed l was so before,
\* or is l itself.
LEMMA SystemStaysWithinBalance ==
  ASSUME TypeOK, OnPending, IsFiniteSet(Begun), StillAffordable,
         NEW l \in Leaves, AutoApproveLeave(l), req[l].type # "compassion"
  PROVE  WithinBalance(req[l].user, req[l].type)'
  <1>1. PICK u, type : u = req[l].user /\ type = req[l].type
    OBVIOUS
  <1>2. PICK f : f = [k \in Leaves |-> Days(k)]
    OBVIOUS
  <1>3. PICK before, after : /\ before = PendingApproved(u, type)
                             /\ after = PendingApproved(u, type)'
    OBVIOUS
  <1>4. /\ pc[l] = "approve" /\ UNCHANGED <<req, today>>
        /\ \A k \in Leaves : k # l => status'[k] = status[k]
    BY DEF AutoApproveLeave, TypeOK
  <1>5. Balance[u][type] \in Int
        /\ Balance[u][type] >= DaysOf(before) + Days(l)
    BY <1>1, <1>3, <1>4, BalanceOfRequest
       DEF StillAffordable, HasSufficientBalance
  <1>6. /\ before \in SUBSET Leaves /\ IsFiniteSet(before)
        /\ f \in [Leaves -> Nat] /\ f[l] = Days(l) /\ l \notin before
    <2>1. l \notin before
      BY <1>3, <1>4 DEF PendingApproved, OnPending, AfterRow
    <2>2. before \in SUBSET Leaves /\ IsFiniteSet(before)
      BY <1>3, ApprovedDays
    <2> QED
      BY <1>2, <2>1, <2>2, ApprovedDays
  <1>7. after \in SUBSET (before \cup {l})
    BY <1>3, <1>4 DEF PendingApproved
  <1>8. /\ IsFiniteSet(before \cup {l}) /\ before \cup {l} \in SUBSET Leaves
        /\ IsFiniteSet(after) /\ after \in SUBSET Leaves
    BY <1>6, <1>7, FS_AddElement, FS_Subset
  <1>9. SumFunctionOnSet(f, before \cup {l}) = DaysOf(before) + Days(l)
    BY <1>2, <1>6, SumWith DEF DaysOf
  <1>10. SumFunctionOnSet(f, after) <= DaysOf(before) + Days(l)
    BY <1>6, <1>7, <1>8, <1>9, SumOfFewer
  <1>11. /\ SumFunctionOnSet(f, after) \in Nat /\ DaysOf(before) \in Nat
         /\ Days(l) \in Nat
    BY <1>3, <1>6, <1>8, SumIsNat, ApprovedDays, StepsOfLeave
  <1>12. [k \in Leaves |-> Days(k)]' = f
    BY <1>2, <1>4 DEF Days
  <1>13. DaysOf(PendingApproved(u, type))' = SumFunctionOnSet(f, after)
    BY <1>3, <1>12 DEF DaysOf
  <1>14. Balance[u][type] >= DaysOf(PendingApproved(u, type))'
    BY <1>5, <1>10, <1>11, <1>13
  <1>15. u = req'[l].user /\ type = req'[l].type
    BY <1>1, <1>4
  <1> QED
    BY <1>14, <1>15 DEF WithinBalance

\* AutoApprovalWithinBalance: between HasSufficientBalance and the UPDATE of
\* AutoApprove nothing else of the applicant is approved, unless two of their
\* requests meet, so that the system never signs days they no longer have.
THEOREM UserLockKeepsBalance ==
  Spec /\ []OnePerUser => AutoApprovalWithinBalance
  <1>1. ASSUME TypeOK, OnePerUser, UserInv, [Next]_vars
        PROVE  SystemSignsWithinBalance
    <2> USE <1>1 DEF UserInv, LeaveInv, OnePerUser
    <2> SUFFICES ASSUME NEW l \in Leaves, pc[l] = "approve",
                        status'[l] = "approved", req[l].type # "compassion"
                 PROVE  WithinBalance(req[l].user, req[l].type)'
      BY DEF SystemSignsWithinBalance
    <2>1. status[l] # "approved"
      BY DEF OnPending, AfterRow
    <2> QED
      BY <2>1, SystemSigns, SystemStaysWithinBalance
  <1>2. TypeOK /\ OnePerUser /\ UserInv /\ [Next]_vars
          => [SystemSignsWithinBalance]_vars
    BY <1>1
  <1> QED
    BY <1>2, KeepsUserInv, TypeCorrect, PTL DEF Spec, AutoApprovalWithinBalance

\* ... and so it signs within the balance when requests come one at a time.
THEOREM BalanceIsKept ==
  ASSUME Serial
  PROVE  Spec => AutoApprovalWithinBalance
  BY SerialKeepsApart, UserLockKeepsBalance, PTL

-----------------------------------------------------------------------------
\* As the program ships nobody but the system approves, and what it approves
\* keeps the days to come within the balance; everything else only takes leaves
\* away.
LEMMA OnlyTheSystemApproves ==
  ASSUME TypeOK, NobodyActs, [Next]_vars
  PROVE  \/ \E k \in Leaves : AutoApproveLeave(k)
         \/ /\ UNCHANGED req /\ today' \in {today, today + 1}
            /\ \A k \in Leaves : status'[k] = "approved" => status[k] = "approved"
  <1>1. UNCHANGED req
    BY StepsFixed
  <1>2. ASSUME NEW k \in Leaves, Creates(k), ~ AutoApproveLeave(k)
        PROVE  /\ today' = today
               /\ \A j \in Leaves : status'[j] = "approved" => status[j] = "approved"
    BY <1>2 DEF Creates, CreatorStep, CreatorFails, CheckOverlap, CheckBalance,
       Insert, LoadForAuto, CheckOnSite, WriteSystemApproval,
       AutoApproveNotify, CreateNode, TypeOK
  <1>3. ASSUME NEW h \in Handlers, HandlerStep(h) \/ HandlerFails(h)
        PROVE  /\ today' = today
               /\ \A j \in Leaves : status'[j] = "approved" => status[j] = "approved"
    BY <1>3, HandlerShape DEF NobodyActs, HandlerStep, HandlerFails,
       CancelWrite, ActRecord, ActReject, ActCount, ActApprove, ActNotify,
       TypeOK
  <1>4. CASE UNCHANGED status /\ today' \in {today, today + 1}
    BY <1>1, <1>4
  <1> QED
    BY <1>1, <1>2, <1>3, <1>4
       DEF Next, Creates, vars, CreateBegin, CancelBegin, ActBegin,
           AssignApprover, NextDay

LEMMA UpcomingCoveredStep ==
  ASSUME TypeOK, NobodyActs, UserInv, BalanceCoversUpcoming, [Next]_vars
  PROVE  BalanceCoversUpcoming'
  <1> USE DEF UserInv, LeaveInv
  <1>1. UNCHANGED req
    BY StepsFixed
  <1> SUFFICES ASSUME NEW l \in Leaves, req[l].type # "compassion",
                      NEW u, NEW type, u = req[l].user, type = req[l].type
               PROVE  WithinBalance(u, type)'
    BY <1>1 DEF BalanceCoversUpcoming, WithinBalance
  <1>2. WithinBalance(u, type) /\ Balance[u][type] \in Int
    BY BalanceOfRequest DEF BalanceCoversUpcoming
  <1>3. ASSUME PendingApproved(u, type)' \in SUBSET PendingApproved(u, type)
        PROVE  WithinBalance(u, type)'
    BY <1>1, <1>2, <1>3, FewerDays, ApprovedDays DEF WithinBalance
  <1>4. ASSUME NEW k \in Leaves, AutoApproveLeave(k)
        PROVE  WithinBalance(u, type)'
    <2>1. CASE req[k].user = u /\ req[k].type = type
      <3>1. WithinBalance(req[k].user, req[k].type)'
        BY <1>4, <2>1, SystemStaysWithinBalance
      <3>2. req'[k].user = u /\ req'[k].type = type
        BY <1>1, <2>1
      <3> QED
        BY <3>1, <3>2 DEF WithinBalance
    <2>2. CASE req[k].user # u \/ req[k].type # type
      <3>1. \A j \in Leaves : j # k => status'[j] = status[j]
        BY <1>4 DEF AutoApproveLeave, TypeOK
      <3>2. today' = today
        BY <1>4 DEF AutoApproveLeave
      <3>3. PendingApproved(u, type)' \in SUBSET PendingApproved(u, type)
        BY <1>1, <2>2, <3>1, <3>2 DEF PendingApproved
      <3> QED
        BY <1>3, <3>3
    <2> QED
      BY <2>1, <2>2
  <1> QED
    BY <1>3, <1>4, OnlyTheSystemApproves, PendingShrinks

\* Two things break the promise of HasSufficientBalance: an approver who signs
\* long after the check, which lw_balance shows, and requests of one applicant
\* that interleave.  Without either, and with no balance below zero, which
\* NoOverdraw of BalanceLedger gives, the days approved and not yet begun fit
\* the balance on every day.  The theorem says nothing of the days of a leave once
\* it begins: Deduct, which should have taken them, is called by nobody, and in the
\* end more may have been taken than there was.
THEOREM UserLockCoversUpcoming ==
  ASSUME Approvers = {},
         \A r \in Requests : r.type # "compassion" => Balance[r.user][r.type] \in Nat
  PROVE  Spec /\ []OnePerUser => []BalanceCoversUpcoming
  <1>1. Init => BalanceCoversUpcoming
    <2> SUFFICES ASSUME Init, NEW l \in Leaves, req[l].type # "compassion"
                 PROVE  WithinBalance(req[l].user, req[l].type)
      BY DEF BalanceCoversUpcoming
    <2>1. PendingApproved(req[l].user, req[l].type) = {}
      BY DEF Init, PendingApproved
    <2>2. DaysOf({}) = 0
      BY SumOfNone DEF DaysOf
    <2>3. Balance[req[l].user][req[l].type] \in Nat
      <3>1. req[l] \in Requests
        BY DEF Init
      <3> QED
        BY <3>1
    <2> QED
      BY <2>1, <2>2, <2>3 DEF WithinBalance
  <1>2. TypeOK /\ NobodyActs /\ UserInv /\ BalanceCoversUpcoming
          /\ [Next]_vars => BalanceCoversUpcoming'
    BY UpcomingCoveredStep
  <1> QED
    BY <1>1, <1>2, KeepsUserInv, NobodyActsEver, TypeCorrect, PTL DEF Spec

\* ... and so they do when requests come one at a time.
THEOREM ShippedUpcomingIsCovered ==
  ASSUME Serial, Approvers = {},
         \A r \in Requests : r.type # "compassion" => Balance[r.user][r.type] \in Nat
  PROVE  Spec => []BalanceCoversUpcoming
  BY SerialKeepsApart, UserLockCoversUpcoming, PTL

-----------------------------------------------------------------------------
\* Two requests are never on leaves of the same department: as many people are
\* left on site as AutoApprove has counted.
LEMMA StillOnSiteStep ==
  ASSUME TypeOK, OnePerDept, StillOnSite, [Next]_vars
  PROVE  StillOnSite'
  <1> SUFFICES ASSUME NEW k \in Leaves, pc'[k] \in {"system", "approve"}
               PROVE  CheckMinimumOnSite(k)'
    BY DEF StillOnSite
  <1>1. pc[k] \in CreatorBusy /\ UNCHANGED req /\ OnePerLeave
    BY PastOverlap, StepsFixed DEF OnePerDept, CreatorBusy, CreatorPc
  <1>2. PICK dept, d : dept = DeptOf[req[k].user] /\ d = req[k].start
    OBVIOUS
  <1>3. ASSUME CheckMinimumOnSite(k),
               \A j \in Leaves : DeptOf[req[j].user] = dept
                                   => status'[j] = status[j]
        PROVE  CheckMinimumOnSite(k)'
    <2>1. OnLeave(dept, d)' = OnLeave(dept, d)
      BY <1>1, <1>3 DEF OnLeave, Covers
    <2>2. HeadCount[dept] > MinRequired(dept) + Cardinality(OnLeave(dept, d))
      BY <1>2, <1>3 DEF CheckMinimumOnSite
    <2>3. HeadCount[dept] > MinRequired(dept) + Cardinality(OnLeave(dept, d)')
      BY <2>1, <2>2
    <2> QED
      BY <1>1, <1>2, <2>3 DEF CheckMinimumOnSite
  <1>4. CASE Creates(k)
    <2>1. CheckMinimumOnSite(k) /\ status' = status
      BY <1>4 DEF StillOnSite, Creates, CreatorStep, CreatorFails,
             CheckOverlap, CheckBalance, Insert, LoadForAuto, CheckOnSite,
             WriteSystemApproval, AutoApproveLeave, AutoApproveNotify,
             CreateNode, Goto, TypeOK
    <2> QED
      BY <1>3, <2>1
  <1>5. CASE ~ Creates(k)
    <2>1. CheckMinimumOnSite(k)
      BY <1>1, <1>5, OthersStep DEF StillOnSite
    <2> QED
      BY <1>1, <1>2, <1>3, <1>5, <2>1, DeptApart
  <1> QED
    BY <1>4, <1>5

\* Whoever is on leave when the system has signed l was so before, or is the
\* applicant of l.
LEMMA OneMoreOnLeave ==
  ASSUME TypeOK, NEW l \in Leaves, AutoApproveLeave(l), NEW dept, NEW d
  PROVE  /\ IsFiniteSet(OnLeave(dept, d)) /\ IsFiniteSet(OnLeave(dept, d)')
         /\ Cardinality(OnLeave(dept, d)') <= Cardinality(OnLeave(dept, d)) + 1
  <1> DEFINE Before == OnLeave(dept, d)
             After == OnLeave(dept, d)'
             Most == Before \cup {req[l].user}
  <1>1. Before \subseteq Users /\ After \subseteq Users
    BY DEF OnLeave
  <1>2. IsFiniteSet(Before) /\ IsFiniteSet(After)
    BY <1>1, PolicyAssumption, FS_Subset DEF PolicyAssumption
  <1>3. /\ req' = req
        /\ \A k \in Leaves : k # l => status'[k] = status[k]
    BY DEF AutoApproveLeave, TypeOK
  <1>4. After \subseteq Most
    BY <1>3 DEF OnLeave, Covers
  <1>5. /\ IsFiniteSet(Most)
        /\ Cardinality(Most) = Cardinality(Before)
             \/ Cardinality(Most) = Cardinality(Before) + 1
    BY <1>2, FS_AddElement
  <1>6. Cardinality(After) <= Cardinality(Most)
    BY <1>4, <1>5, FS_Subset
  <1>7. /\ Cardinality(Before) \in Nat /\ Cardinality(After) \in Nat
        /\ Cardinality(Most) \in Nat
    BY <1>2, <1>5, FS_CardinalityType
  <1>8. Cardinality(After) <= Cardinality(Before) + 1
    BY <1>5, <1>6, <1>7
  <1> QED
    BY <1>2, <1>8

LEMMA SystemKeepsOnSite ==
  ASSUME TypeOK, StillOnSite, NEW l \in Leaves, AutoApproveLeave(l)
  PROVE  EnoughOnSite(DeptOf[req[l].user], req[l].start)'
  <1>1. PICK dept \in Depts : dept = DeptOf[req[l].user]
    <2>1. req[l] \in Requests
      BY DEF TypeOK
    <2>2. req[l].user \in Users
      BY <2>1, PolicyAssumption DEF PolicyAssumption
    <2> QED
      BY <2>2, PolicyAssumption DEF PolicyAssumption
  <1>2. PICK d : d = req[l].start
    OBVIOUS
  <1>3. HeadCount[dept] > MinRequired(dept) + Cardinality(OnLeave(dept, d))
    BY <1>1, <1>2 DEF StillOnSite, AutoApproveLeave, CheckMinimumOnSite
  <1>4. HeadCount[dept] \in Nat /\ MinRequired(dept) \in Nat
    BY PolicyAssumption DEF PolicyAssumption, MinRequired
  <1>5. /\ Cardinality(OnLeave(dept, d)) \in Nat
        /\ Cardinality(OnLeave(dept, d)') \in Nat
        /\ Cardinality(OnLeave(dept, d)') <= Cardinality(OnLeave(dept, d)) + 1
    BY OneMoreOnLeave, FS_CardinalityType
  <1>6. HeadCount[dept] >= MinRequired(dept) + Cardinality(OnLeave(dept, d)')
    BY <1>3, <1>4, <1>5
  <1>7. DeptOf[req[l].user]' = dept /\ req'[l].start = d
    BY <1>1, <1>2 DEF AutoApproveLeave
  <1> QED
    BY <1>1, <1>2, <1>6, <1>7 DEF EnoughOnSite

\* AutoApprovalKeepsOnSite: between the count of CheckMinimumOnSite and the
\* UPDATE of AutoApprove nobody else of the department goes on leave, unless two
\* of its requests meet, so the minimum on site outlives the approval.
THEOREM DeptLockKeepsOnSite == Spec /\ []OnePerDept => AutoApprovalKeepsOnSite
  <1>1. Init => StillOnSite
    BY DEF Init, StillOnSite
  <1>2. TypeOK /\ OnePerDept /\ StillOnSite /\ [Next]_vars => StillOnSite'
    BY StillOnSiteStep
  <1>3. ASSUME TypeOK, OnePerDept, StillOnSite, [Next]_vars
        PROVE  SystemSignsOnSite
    <2> USE <1>3 DEF OnePerDept
    <2> SUFFICES ASSUME NEW l \in Leaves, pc[l] = "approve",
                        status[l] # "approved", status'[l] = "approved"
                 PROVE  EnoughOnSite(DeptOf[req[l].user], req[l].start)'
      BY DEF SystemSignsOnSite
    <2>1. AutoApproveLeave(l)
      BY SystemSigns
    <2> QED
      BY <2>1, SystemKeepsOnSite
  <1>4. TypeOK /\ OnePerDept /\ StillOnSite /\ [Next]_vars
          => [SystemSignsOnSite]_vars
    BY <1>3
  <1> QED
    BY <1>1, <1>2, <1>4, TypeCorrect, PTL DEF Spec, AutoApprovalKeepsOnSite

\* ... and so it does when requests come one at a time.
THEOREM MinimumIsKept ==
  ASSUME Serial
  PROVE  Spec => AutoApprovalKeepsOnSite
  BY SerialKeepsApart, DeptLockKeepsOnSite, PTL

-----------------------------------------------------------------------------
\* What the abstract life cycle sees of the tables.
Demand == [l \in Leaves |-> IF status[l] = "none" THEN {} ELSE Steps(l)]
Verdict == [l \in Leaves |-> [t \in ApproverTypes |->
              IF node[l][t] \in Decisions THEN node[l][t] ELSE "open"]]

\* A statement that writes no decision and no status is not seen.
LEMMA Unseen ==
  ASSUME [Next]_vars, status' = status,
         \A l \in Leaves, t \in ApproverTypes :
            \/ node'[l][t] = node[l][t]
            \/ node'[l][t] \notin Decisions /\ node[l][t] \notin Decisions
  PROVE  UNCHANGED Lifecycle!lifecycle
  <1>1. Demand' = Demand
    BY StepsFixed DEF Demand
  <1>2. Verdict' = Verdict
    BY DEF Verdict
  <1> QED
    BY <1>1, <1>2 DEF Lifecycle!lifecycle, Demand, Verdict

\* A leave that is settled keeps its demand and its signatures.
LEMMA SettleSeen ==
  ASSUME TypeOK, [Next]_vars, NEW l \in Leaves, status[l] = "pending",
         node' = node, NEW s \in {"approved", "rejected", "cancelled"},
         status' = [status EXCEPT ![l] = s]
  PROVE  Lifecycle!Settle(l, s)
  <1>1. \A k \in Leaves : status'[k] = "none" <=> status[k] = "none"
    BY DEF TypeOK
  <1>2. Demand' = Demand
    BY <1>1, StepsFixed DEF Demand
  <1>3. Verdict' = Verdict
    BY DEF Verdict
  <1> QED
    BY <1>2, <1>3 DEF Lifecycle!Settle, Demand, Verdict

\* A row that is decided for the first time is a signature.
LEMMA SignSeen ==
  ASSUME TypeOK, [Next]_vars, NEW l \in Leaves, status[l] = "pending",
         status' = status, NEW t \in ApproverTypes, NEW v \in Decisions,
         node[l][t] \notin Decisions,
         node' = [node EXCEPT ![l][t] = v],
         IF t = "system"
         THEN v = "approved" /\ \A s \in ApproverTypes : node[l][s] \notin Decisions
         ELSE t \in Steps(l) /\ node[l]["system"] \notin Decisions
  PROVE  Lifecycle!Sign(l, t, v)
  <1>1. Demand' = Demand
    BY StepsFixed DEF Demand
  <1>2. Verdict' = [Verdict EXCEPT ![l][t] = v]
    BY DEF Verdict, TypeOK
  <1>3. Verdict[l][t] = "open"
    BY DEF Verdict
  <1>4. t = "system" => Verdict[l] = [s \in ApproverTypes |-> "open"]
    BY DEF Verdict
  <1>5. t # "system" => t \in Demand[l] /\ Verdict[l]["system"] = "open"
    BY DEF Demand, Verdict, ApproverTypes
  <1> QED
    BY <1>1, <1>2, <1>3, <1>4, <1>5
       DEF Lifecycle!Sign, Lifecycle!Unsigned, Lifecycle!ApproverTypes,
           Lifecycle!ManualSteps, ApproverTypes, ManualSteps, Demand, Verdict

\* The statements of Create and AutoApprove are steps of the life cycle ...
LEMMA CreatorSeen ==
  ASSUME TypeOK, OneRoute, OnPending, [Next]_vars, NEW l \in Leaves, Creates(l)
  PROVE  [Lifecycle!Next]_(Lifecycle!lifecycle)
  <1>1. CASE Insert(l)
    <2>1. /\ status[l] = "none" /\ status' = [status EXCEPT ![l] = "pending"]
          /\ node' = node
      BY <1>1 DEF Insert, OnPending, BeforeRow
    <2>2. Demand' = [Demand EXCEPT ![l] = Steps(l)]
      BY <2>1, StepsFixed DEF Demand, TypeOK
    <2>3. Verdict' = Verdict
      BY <2>1 DEF Verdict
    <2>4. Steps(l) \in SUBSET ManualSteps /\ "manager" \in Steps(l)
      BY StepsOfLeave
    <2>5. Lifecycle!Submit(l)
      BY <2>1, <2>2, <2>3, <2>4
         DEF Lifecycle!Submit, Lifecycle!ManualSteps, ManualSteps, Demand, Verdict
    <2> QED
      BY <2>5 DEF Lifecycle!Next
  <1>2. CASE WriteSystemApproval(l)
    <2>1. /\ status[l] = "pending" /\ status' = status
          /\ \A t \in ApproverTypes : node[l][t] \notin Decisions
          /\ node' = [node EXCEPT ![l]["system"] = "approved"]
      BY <1>2 DEF WriteSystemApproval, OnPending, BeforeRow, AfterRow, Decisions
    <2>2. "system" \in ApproverTypes /\ "approved" \in Decisions
      BY DEF ApproverTypes, Decisions
    <2>3. Lifecycle!Sign(l, "system", "approved")
      BY <2>1, <2>2, SignSeen
    <2> QED
      BY <2>2, <2>3 DEF Lifecycle!Next, Lifecycle!ApproverTypes,
                        Lifecycle!ManualSteps, ApproverTypes, ManualSteps
  <1>3. CASE AutoApproveLeave(l)
    <2>1. /\ status[l] = "pending" /\ node' = node
          /\ status' = [status EXCEPT ![l] = "approved"]
          /\ node[l]["system"] = "approved"
      BY <1>3 DEF AutoApproveLeave, OnPending, AfterRow, OneRoute, SystemApproved
    <2>2. Verdict[l]["system"] = "approved"
      BY <2>1 DEF Verdict, ApproverTypes, Decisions
    <2>3. Lifecycle!Approve(l)
      BY <2>1, <2>2, SettleSeen DEF Lifecycle!Approve, Verdict
    <2> QED
      BY <2>3 DEF Lifecycle!Next
  <1>4. ASSUME NEW t \in ManualSteps, CreateNode(l, t)
        PROVE  UNCHANGED Lifecycle!lifecycle
    <2>1. /\ status' = status /\ node[l][t] = "none"
          /\ node' = [node EXCEPT ![l][t] = "pending"]
      BY <1>4 DEF CreateNode
    <2> QED
      BY <2>1, Unseen DEF TypeOK, Decisions
  <1>5. CASE UNCHANGED <<status, node>>
    BY <1>5, Unseen
  <1> QED
    BY <1>1, <1>2, <1>3, <1>4, <1>5
       DEF Creates, CreatorStep, CreatorFails, CheckOverlap, CheckBalance,
           LoadForAuto, CheckOnSite, AutoApproveNotify

\* ... and so are those of Cancel and Act.
LEMMA HandlerSeen ==
  ASSUME TypeOK, OneRoute, OnPending, ActsAlone, [Next]_vars,
         NEW h \in Handlers, HandlerStep(h) \/ HandlerFails(h)
  PROVE  [Lifecycle!Next]_(Lifecycle!lifecycle)
  <1>1. PICK l \in Leaves : act[h].leave = l
    BY ActShape
  <1>2. PICK t : act[h].step = t
    OBVIOUS
  <1>3. act[h].pc # "notify" => status[l] = "pending"
    BY <1>1, ActShape DEF OnPending
  <1>4. ASSUME t \in ManualSteps, node[l][t] # "none"
        PROVE  t \in Steps(l) /\ node[l]["system"] = "none"
    BY <1>4 DEF OneRoute, ManualRow
  <1>5. CASE CancelWrite(h)
    <2>1. Lifecycle!Cancel(l)
      BY <1>1, <1>3, <1>5, SettleSeen DEF CancelWrite, Lifecycle!Cancel
    <2> QED
      BY <2>1 DEF Lifecycle!Next
  <1>6. CASE ActRecord(h)
    <2>1. /\ t \in ManualSteps /\ act[h].decision \in Decisions
          /\ node[l][t] = "pending" /\ status' = status
          /\ status[l] = "pending"
      BY <1>1, <1>2, <1>3, <1>6, HandlerShape DEF ActRecord, ActsAlone
    <2>2. PICK v \in Decisions : act[h].decision = v
      BY <2>1
    <2>3. /\ t \in ApproverTypes /\ t # "system"
          /\ node[l][t] \notin Decisions /\ "none" \notin Decisions
      BY <2>1 DEF ApproverTypes, ManualSteps, Decisions
    <2>4. node' = [node EXCEPT ![l][t] = v]
      BY <1>1, <1>2, <1>6, <2>2 DEF ActRecord
    <2>5. Lifecycle!Sign(l, t, v)
      BY <1>4, <2>1, <2>2, <2>3, <2>4, SignSeen
    <2> QED
      BY <2>2, <2>3, <2>5
         DEF Lifecycle!Next, Decisions, Lifecycle!ApproverTypes,
             Lifecycle!ManualSteps, ApproverTypes, ManualSteps
  <1>7. CASE ActReject(h)
    <2>1. /\ t \in ManualSteps /\ node[l][t] = "rejected" /\ node' = node
          /\ status' = [status EXCEPT ![l] = "rejected"] /\ status[l] = "pending"
      BY <1>1, <1>2, <1>3, <1>7, HandlerShape DEF ActReject, ActsAlone
    <2>2. t \in Demand[l] /\ Verdict[l][t] = "rejected"
      BY <1>4, <2>1 DEF Demand, Verdict, ApproverTypes, Decisions
    <2>3. Lifecycle!Reject(l)
      BY <2>1, <2>2, SettleSeen DEF Lifecycle!Reject, Demand, Verdict
    <2> QED
      BY <2>3 DEF Lifecycle!Next
  <1>8. CASE ActApprove(h)
    <2>1. /\ AllApproved(l) /\ node' = node /\ status[l] = "pending"
          /\ status' = [status EXCEPT ![l] = "approved"]
      BY <1>1, <1>3, <1>8 DEF ActApprove, ActsAlone
    <2>2. \A s \in Demand[l] : Verdict[l][s] = "approved"
      BY <2>1, StepsOfLeave
         DEF Demand, Verdict, ApproverTypes, AllApproved, Decisions
    <2>3. Lifecycle!Approve(l)
      BY <2>1, <2>2, SettleSeen DEF Lifecycle!Approve, Demand, Verdict
    <2> QED
      BY <2>3 DEF Lifecycle!Next
  <1>9. CASE ActCount(h) \/ ActNotify(h) \/ HandlerFails(h)
    BY <1>9, Unseen DEF ActCount, ActNotify, HandlerFails
  <1> QED
    BY <1>5, <1>6, <1>7, <1>8, <1>9 DEF HandlerStep

\* LifecycleKept: unless two requests meet on a leave the tables and statements
\* of the code implement the life cycle: one verdict for each signature, one
\* settlement for each leave, an approval only on the signatures its length
\* calls for.
THEOREM LeaveLockKeepsLifecycle ==
  ASSUME AutoApproveMaxDays <= 3
  PROVE  Spec /\ []OnePerLeave => LifecycleKept
  <1>1. Init => Lifecycle!Init
    BY DEF Init, Lifecycle!Init, Lifecycle!Unsigned, Lifecycle!ApproverTypes,
           Lifecycle!ManualSteps, ApproverTypes, ManualSteps, Decisions
  <1>2. ASSUME TypeOK, OneRoute /\ ActsOnRows, LeaveInv, ActsAlone, [Next]_vars
        PROVE  [Lifecycle!Next]_(Lifecycle!lifecycle)
    <2> USE <1>2 DEF LeaveInv
    <2>1. ASSUME NEW l \in Leaves, Creates(l)
          PROVE  [Lifecycle!Next]_(Lifecycle!lifecycle)
      BY <2>1, CreatorSeen
    <2>2. ASSUME NEW h \in Handlers, HandlerStep(h) \/ HandlerFails(h)
          PROVE  [Lifecycle!Next]_(Lifecycle!lifecycle)
      BY <2>2, HandlerSeen
    <2>3. CASE UNCHANGED <<status, node>>
      BY <2>3, Unseen
    <2> QED
      BY <2>1, <2>2, <2>3
         DEF Next, Creates, vars, AssignApprover, NextDay, CreateBegin,
             CancelBegin, ActBegin
  <1> QED
    BY <1>1, <1>2, KeepsLeaveInv, KeepsActsAlone, TypeCorrect, RowsAreKept,
       PTL DEF Spec, LifecycleKept, Lifecycle!Spec

\* ... and so they do when requests come one at a time.
THEOREM ImplementsLifecycle ==
  ASSUME Serial, AutoApproveMaxDays <= 3
  PROVE  Spec => LifecycleKept
  BY SerialKeepsApart, LeaveLockKeepsLifecycle, PTL

=============================================================================
