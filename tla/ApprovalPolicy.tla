--------------------------- MODULE ApprovalPolicy ---------------------------
(***************************************************************************)
(* The rule of services/leave_service.go and services/workflow_service.go  *)
(* that turns the length of a leave, in working days, into the people who  *)
(* have to sign it.  The rule is written twice in the code: once as a      *)
(* number stored with the leave, once as the list of approval rows.        *)
(***************************************************************************)
EXTENDS Naturals, FiniteSets

\* models.ApproverType: the three kinds of person who sign, and the system.
ManualSteps == {"manager", "dept_head", "hr"}
ApproverTypes == ManualSteps \cup {"system"}

\* Mutant: a leave of up to a working week needs one signature.
calculateRequiredApprovalsLenient(days) ==
  IF days <= 5 THEN 1 ELSE IF days <= 7 THEN 2 ELSE 3

\* The number of human signatures a leave of that many days asks for.
calculateRequiredApprovals(days) ==
  IF days <= 3 THEN 1 ELSE IF days <= 7 THEN 2 ELSE 3

\* What Create stores in leaves.required_approvals: zero whenever the length
\* allows the system to sign alone, whether or not it then does.
RequiredApprovals(days, autoMax) ==
  IF days > autoMax THEN calculateRequiredApprovals(days) ELSE 0

\* The rows initiateManualApproval inserts, as the set of their types ...
buildApprovalSteps(days) ==
  {t \in ManualSteps : \/ t = "manager"
                       \/ t = "dept_head" /\ days > 3
                       \/ t = "hr" /\ days > 7}

\* ... and their step_order.
StepOrder(t) ==
  IF t = "manager" THEN 1 ELSE IF t = "dept_head" THEN 2 ELSE 3

=============================================================================
