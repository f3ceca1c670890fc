---------------------------- MODULE LeaveWorkflow ---------------------------
(***************************************************************************)
(* The life of a leave request: LeaveService.Create and Cancel,            *)
(* WorkflowService.Start, AutoApprove, initiateManualApproval and          *)
(* ProcessManualApproval, with the tables leaves and approvals they work   *)
(* on.  Nothing in the code opens a transaction or takes a lock, so one    *)
(* action is one SQL statement with the Go code up to the next one, and    *)
(* any number of requests interleave between statements.  A request can    *)
(* stop after any statement: the client's disconnect cancels its context,  *)
(* a statement fails, or the process dies (which stops all of them).       *)
(***************************************************************************)
EXTENDS ApprovalPolicy, WorkCalendar, Functions

CONSTANTS
  Leaves,              \* the Create calls, each with the id its row may get
  Handlers,            \* the Cancel and Act requests in flight at a time
  Users, Depts,
  DeptOf,              \* users.dept_id
  HeadCount,           \* departments.head_count
  MinOnSite,           \* departments.min_on_site
  MinimumOnSiteCount,  \* config: the company-wide minimum
  AutoApproveMaxDays,  \* config: the longest leave the system signs
  Balance,             \* total_days - used_days of each user and leave type
  Requests,            \* the bodies posted: user, type, start, end
  Approvers,           \* the users an outside hand may write to approver_id
  Nobody,              \* approver_id 0, which is no user's id
  Calendar,            \* the holiday map of the years requested
  LastDay,             \* bound: the clock stops at this date
  Serial               \* TRUE: a request begins only when none is in flight

ASSUME PolicyAssumption ==
  /\ AutoApproveMaxDays \in Nat
  /\ Serial \in BOOLEAN
  /\ Nobody \notin Approvers
  /\ IsFiniteSet(Users) /\ DeptOf \in [Users -> Depts]
  /\ HeadCount \in [Depts -> Nat] /\ MinOnSite \in [Depts -> Nat]
  /\ MinimumOnSiteCount \in Nat
  /\ Requests \subseteq [user : Users, type : STRING, start : Nat, end : Nat]
  /\ \A r \in Requests : r.type # "compassion" => Balance[r.user][r.type] \in Int

VARIABLES
  status,       \* leaves.status, "none" while there is no row
  req,          \* the body of the Create call; the row keeps it unchanged
  node,         \* approvals.status by leave and approver_type
  assignee,     \* approvals.approver_id
  pc,           \* what each Create call does next
  act,          \* what each Cancel or Act request does next
  notices,      \* how often NotifyLeaveApproved was started for the leave
  interrupted,  \* leaves on which an Act died after it recorded a decision
  today         \* CURRENT_DATE

table == <<status, req, node, assignee>>
vars == <<table, pc, act, notices, interrupted, today>>

Decisions == {"approved", "rejected"}
Idle == [pc |-> "idle"]

CreatorPc == {"idle", "overlap", "balance", "insert", "load", "onsite",
              "system", "approve", "notify", "nodes", "done", "refused",
              "failed"}
CreatorBusy == CreatorPc \ {"idle", "done", "refused", "failed"}

HandlerStates ==
  {Idle} \cup [pc : {"cancel"}, leave : Leaves]
         \cup [pc : {"record", "reject", "count", "approve", "notify"},
               leave : Leaves, step : ManualSteps, decision : Decisions]

TypeOK ==
  /\ status \in [Leaves -> {"none", "pending", "approved", "rejected",
                            "cancelled"}]
  /\ req \in [Leaves -> Requests]
  /\ node \in [Leaves -> [ApproverTypes -> {"none", "pending"} \cup Decisions]]
  /\ assignee \in [Leaves -> [ApproverTypes -> Approvers \cup {Nobody}]]
  /\ pc \in [Leaves -> CreatorPc]
  /\ act \in [Handlers -> HandlerStates]
  /\ notices \in [Leaves -> Nat]
  /\ interrupted \subseteq Leaves
  /\ today \in Nat

Init ==
  /\ status = [l \in Leaves |-> "none"]
  /\ req \in [Leaves -> Requests]
  /\ node = [l \in Leaves |-> [t \in ApproverTypes |-> "none"]]
  /\ assignee = [l \in Leaves |-> [t \in ApproverTypes |-> Nobody]]
  /\ pc = [l \in Leaves |-> "idle"]
  /\ act = [h \in Handlers |-> Idle]
  /\ notices = [l \in Leaves |-> 0]
  /\ interrupted = {}
  /\ today = 0

-----------------------------------------------------------------------------
\* What the SQL statements compute.

Covers(l, d) == req[l].start <= d /\ d <= req[l].end

Days(l) == CalculateWorkingDays(Calendar, req[l].start, req[l].end)
Steps(l) == buildApprovalSteps(Days(l))

\* Mutant: a leave that is still pending does not count.
HasOverlapApproved(l) ==
  \E k \in Leaves : /\ status[k] = "approved"
                    /\ req[k].user = req[l].user
                    /\ req[k].start <= req[l].end
                    /\ req[k].end >= req[l].start

\* LeaveRepository.HasOverlap: some leave of the same user that is neither
\* rejected nor cancelled shares a date with the request of l.
HasOverlap(l) ==
  \E k \in Leaves : /\ status[k] \in {"pending", "approved"}
                    /\ req[k].user = req[l].user
                    /\ req[k].start <= req[l].end
                    /\ req[k].end >= req[l].start

\* LeaveRepository.GetPendingApprovedDaysByType: approved, not yet started.
PendingApproved(u, type) ==
  {k \in Leaves : /\ status[k] = "approved"
                  /\ req[k].user = u
                  /\ req[k].type = type
                  /\ req[k].start > today}

DaysOf(ks) == SumFunctionOnSet([k \in Leaves |-> Days(k)], ks)

\* Mutant: what is approved and not yet begun is forgotten.
HasBalanceLeft(l) ==
  \/ req[l].type = "compassion"
  \/ Balance[req[l].user][req[l].type] >= Days(l)

\* BalanceService.HasSufficientBalance.  A user without a balance row of that
\* type has nothing to take; personal leave needs no balance.
HasSufficientBalance(l) ==
  \/ req[l].type = "compassion"
  \/ Balance[req[l].user][req[l].type]
       >= DaysOf(PendingApproved(req[l].user, req[l].type)) + Days(l)

\* LeaveRepository.CountOnLeaveOnDate counts users, not leaves.
OnLeave(dept, d) ==
  {u \in Users : /\ DeptOf[u] = dept
                 /\ \E k \in Leaves : /\ status[k] = "approved"
                                      /\ req[k].user = u
                                      /\ Covers(k, d)}

MinRequired(dept) ==
  IF MinOnSite[dept] < MinimumOnSiteCount THEN MinimumOnSiteCount
                                          ELSE MinOnSite[dept]

\* Mutant: the applicant is not counted as leaving.
CheckOnSiteNow(l) ==
  LET dept == DeptOf[req[l].user]
  IN  HeadCount[dept] >= MinRequired(dept)
                           + Cardinality(OnLeave(dept, req[l].start))

\* DepartmentService.CheckMinimumOnSite, for the first day of the leave only.
CheckMinimumOnSite(l) ==
  LET dept == DeptOf[req[l].user]
  IN  HeadCount[dept] > MinRequired(dept)
                          + Cardinality(OnLeave(dept, req[l].start))

\* ApprovalRepository.CountApprovedSteps: every approved row, whatever its type.
ApprovedSteps(l) == {t \in ApproverTypes : node[l][t] = "approved"}
CountApprovedSteps(l) == Cardinality(ApprovedSteps(l))

-----------------------------------------------------------------------------
\* LeaveService.Create.

Quiet == /\ \A l \in Leaves : pc[l] \notin CreatorBusy
         /\ \A h \in Handlers : act[h] = Idle
MayBegin == Serial => Quiet

Goto(l, next) == pc' = [pc EXCEPT ![l] = next]

CreateBegin(l) ==
  /\ MayBegin
  /\ pc[l] = "idle"
  /\ Goto(l, IF req[l].end < req[l].start THEN "refused" ELSE "overlap")
  /\ UNCHANGED <<table, act, notices, interrupted, today>>

CheckOverlap(l) ==
  /\ pc[l] = "overlap"
  /\ Goto(l, IF HasOverlap(l) \/ Days(l) = 0 THEN "refused" ELSE "balance")
  /\ UNCHANGED <<table, act, notices, interrupted, today>>

CheckBalance(l) ==
  /\ pc[l] = "balance"
  /\ Goto(l, IF HasSufficientBalance(l) THEN "insert" ELSE "refused")
  /\ UNCHANGED <<table, act, notices, interrupted, today>>

\* The INSERT, after which Start takes the automatic or the manual route.
Insert(l) ==
  /\ pc[l] = "insert"
  /\ status' = [status EXCEPT ![l] = "pending"]
  /\ Goto(l, IF Days(l) <= AutoApproveMaxDays THEN "load" ELSE "nodes")
  /\ UNCHANGED <<req, node, assignee, act, notices, interrupted, today>>

\* AutoApprove reads the row back and gives up unless it is still pending.
LoadForAuto(l) ==
  /\ pc[l] = "load"
  /\ Goto(l, IF status[l] = "pending" THEN "onsite" ELSE "failed")
  /\ UNCHANGED <<table, act, notices, interrupted, today>>

\* Too few people left on site: Start falls back to the manual route.
CheckOnSite(l) ==
  /\ pc[l] = "onsite"
  /\ Goto(l, IF CheckMinimumOnSite(l) THEN "system" ELSE "nodes")
  /\ UNCHANGED <<table, act, notices, interrupted, today>>

WriteSystemApproval(l) ==
  /\ pc[l] = "system"
  /\ node' = [node EXCEPT ![l]["system"] = "approved"]
  /\ Goto(l, "approve")
  /\ UNCHANGED <<status, req, assignee, act, notices, interrupted, today>>

AutoApproveLeave(l) ==
  /\ pc[l] = "approve"
  /\ status' = [status EXCEPT ![l] = "approved"]
  /\ Goto(l, "notify")
  /\ UNCHANGED <<req, node, assignee, act, notices, interrupted, today>>

\* Only a request that has had the answer of the UPDATE gets here.
AutoApproveNotify(l) ==
  /\ pc[l] = "notify"
  /\ notices' = [notices EXCEPT ![l] = @ + 1]
  /\ Goto(l, "done")
  /\ UNCHANGED <<table, act, interrupted, today>>

\* Mutant: the loop ends a round early.
CreateNodeShort(l, t) ==
  /\ pc[l] = "nodes"
  /\ t \in Steps(l)
  /\ node[l][t] = "none"
  /\ \A s \in Steps(l) : StepOrder(s) < StepOrder(t) => node[l][s] # "none"
  /\ node' = [node EXCEPT ![l][t] = "pending"]
  /\ IF \E s \in Steps(l) : StepOrder(s) > StepOrder(t) + 1
     THEN pc' = pc
     ELSE Goto(l, "done")
  /\ UNCHANGED <<status, req, assignee, act, notices, interrupted, today>>

\* One round of the loop of initiateManualApproval: the row of lowest order
\* that is not there yet, with approver_id 0.  The notification it starts at
\* the end is addressed to user 0, so its insert always fails.
CreateNode(l, t) ==
  /\ pc[l] = "nodes"
  /\ t \in Steps(l)
  /\ node[l][t] = "none"
  /\ \A s \in Steps(l) : StepOrder(s) < StepOrder(t) => node[l][s] # "none"
  /\ node' = [node EXCEPT ![l][t] = "pending"]
  /\ IF \E s \in Steps(l) : StepOrder(s) > StepOrder(t)
     THEN pc' = pc
     ELSE Goto(l, "done")
  /\ UNCHANGED <<status, req, assignee, act, notices, interrupted, today>>

CreatorFails(l) ==
  /\ pc[l] \in CreatorBusy
  /\ Goto(l, "failed")
  /\ UNCHANGED <<table, act, notices, interrupted, today>>

CreatorStep(l) ==
  \/ CheckOverlap(l) \/ CheckBalance(l) \/ Insert(l) \/ LoadForAuto(l)
  \/ CheckOnSite(l) \/ WriteSystemApproval(l)
  \/ AutoApproveLeave(l) \/ AutoApproveNotify(l)
  \/ \E t \in ManualSteps : CreateNode(l, t)

-----------------------------------------------------------------------------
\* LeaveService.Cancel and WorkflowService.ProcessManualApproval.

Continue(h, next) == act' = [act EXCEPT ![h] = next]

\* Mutant: the status is not looked at.
CancelBeginAny(h, l) ==
  /\ MayBegin
  /\ act[h] = Idle
  /\ status[l] # "none"
  /\ Continue(h, [pc |-> "cancel", leave |-> l])
  /\ UNCHANGED <<table, pc, notices, interrupted, today>>

\* The row is read and found pending and the caller's own.
CancelBegin(h, l) ==
  /\ MayBegin
  /\ act[h] = Idle
  /\ status[l] = "pending"
  /\ Continue(h, [pc |-> "cancel", leave |-> l])
  /\ UNCHANGED <<table, pc, notices, interrupted, today>>

\* Mutant: the status is spelt in another way than models.LeaveStatus.
CancelWriteMisspelt(h) ==
  /\ act[h].pc = "cancel"
  /\ status' = [status EXCEPT ![act[h].leave] = "canceled"]
  /\ Continue(h, Idle)
  /\ UNCHANGED <<req, node, assignee, pc, notices, interrupted, today>>

\* The UPDATE has no condition on the status it overwrites.
CancelWrite(h) ==
  /\ act[h].pc = "cancel"
  /\ status' = [status EXCEPT ![act[h].leave] = "cancelled"]
  /\ Continue(h, Idle)
  /\ UNCHANGED <<req, node, assignee, pc, notices, interrupted, today>>

\* Mutant: the join with leaves is left out.
ListedUnjoined(a, l, t) == assignee[l][t] = a /\ node[l][t] = "pending"

\* The approver's pending list holds the row: assigned, undecided, on a leave
\* that is undecided.
Listed(a, l, t) ==
  assignee[l][t] = a /\ node[l][t] = "pending" /\ status[l] = "pending"

ActBegin(h, a, l, t, d) ==
  /\ MayBegin
  /\ act[h] = Idle
  /\ Listed(a, l, t)
  /\ Continue(h, [pc |-> "record", leave |-> l, step |-> t, decision |-> d])
  /\ UNCHANGED <<table, pc, notices, interrupted, today>>

\* The UPDATE of the approval row has no condition either.
ActRecord(h) ==
  /\ act[h].pc = "record"
  /\ node' = [node EXCEPT ![act[h].leave][act[h].step] = act[h].decision]
  /\ Continue(h, [act[h] EXCEPT !.pc =
                    IF act[h].decision = "rejected" THEN "reject" ELSE "count"])
  /\ UNCHANGED <<status, req, assignee, pc, notices, interrupted, today>>

ActReject(h) ==
  /\ act[h].pc = "reject"
  /\ status' = [status EXCEPT ![act[h].leave] = "rejected"]
  /\ Continue(h, Idle)
  /\ UNCHANGED <<req, node, assignee, pc, notices, interrupted, today>>

\* Mutants: the comparison is off by one, in either direction.
OneShort(l) ==
  CountApprovedSteps(l) + 1 >= RequiredApprovals(Days(l), AutoApproveMaxDays)
OneTooMany(l) ==
  CountApprovedSteps(l) > RequiredApprovals(Days(l), AutoApproveMaxDays)

EnoughApprovals(l) ==
  CountApprovedSteps(l) >= RequiredApprovals(Days(l), AutoApproveMaxDays)

ActCount(h) ==
  /\ act[h].pc = "count"
  /\ Continue(h, IF EnoughApprovals(act[h].leave)
                 THEN [act[h] EXCEPT !.pc = "approve"] ELSE Idle)
  /\ UNCHANGED <<table, pc, notices, interrupted, today>>

ActApprove(h) ==
  /\ act[h].pc = "approve"
  /\ status' = [status EXCEPT ![act[h].leave] = "approved"]
  /\ Continue(h, [act[h] EXCEPT !.pc = "notify"])
  /\ UNCHANGED <<req, node, assignee, pc, notices, interrupted, today>>

ActNotify(h) ==
  /\ act[h].pc = "notify"
  /\ notices' = [notices EXCEPT ![act[h].leave] = @ + 1]
  /\ Continue(h, Idle)
  /\ UNCHANGED <<table, pc, interrupted, today>>

HandlerFails(h) ==
  /\ act[h] # Idle
  /\ Continue(h, Idle)
  /\ interrupted' = IF act[h].pc \notin {"cancel", "record"}
                    THEN interrupted \cup {act[h].leave} ELSE interrupted
  /\ UNCHANGED <<table, pc, notices, today>>

HandlerStep(h) ==
  \/ CancelWrite(h)
  \/ ActRecord(h) \/ ActReject(h) \/ ActCount(h) \/ ActApprove(h) \/ ActNotify(h)

-----------------------------------------------------------------------------
\* Not in the code: something else writes approver_id, which buildApprovalSteps
\* leaves at 0.  With Approvers = {} the system runs exactly as it ships.
AssignApprover(l, t, a) ==
  /\ node[l][t] = "pending"
  /\ assignee[l][t] = Nobody
  /\ assignee' = [assignee EXCEPT ![l][t] = a]
  /\ UNCHANGED <<status, req, node, pc, act, notices, interrupted, today>>

NextDay ==
  /\ today < LastDay
  /\ today' = today + 1
  /\ UNCHANGED <<table, pc, act, notices, interrupted>>

Next ==
  \/ \E l \in Leaves : CreateBegin(l) \/ CreatorStep(l) \/ CreatorFails(l)
  \/ \E h \in Handlers : HandlerStep(h) \/ HandlerFails(h)
  \/ \E h \in Handlers, l \in Leaves : CancelBegin(h, l)
  \/ \E h \in Handlers, a \in Approvers, l \in Leaves, t \in ManualSteps,
        d \in Decisions : ActBegin(h, a, l, t, d)
  \/ \E l \in Leaves, t \in ManualSteps, a \in Approvers :
        AssignApprover(l, t, a)
  \/ NextDay

Spec == Init /\ [][Next]_vars

\* Every request that has begun runs on, and every approver eventually takes up
\* and gets through a decision on each row of the pending list.  Nobody has to
\* submit or to cancel.  Act is strongly fair: the handlers that happen to be
\* busy bound the model, not the server.
Fairness ==
  /\ \A l \in Leaves : WF_vars(CreatorStep(l))
  /\ \A h \in Handlers : WF_vars(HandlerStep(h))
  /\ \A l \in Leaves, t \in ManualSteps :
       /\ WF_vars(\E a \in Approvers : AssignApprover(l, t, a))
       /\ SF_vars(\E h \in Handlers, a \in Approvers, d \in Decisions :
                    ActBegin(h, a, l, t, d))
       /\ SF_vars(\E h \in Handlers : /\ ActRecord(h)
                                      /\ act[h].leave = l /\ act[h].step = t)

FairSpec == Spec /\ Fairness

-----------------------------------------------------------------------------
\* Properties of every interleaving.

Acting(l) == {h \in Handlers : /\ act[h].pc \in {"reject", "count", "approve"}
                               /\ act[h].leave = l}

SystemApproved(l) == node[l]["system"] = "approved"
Decided(l) == \A t \in Steps(l) : node[l][t] \in Decisions
AllApproved(l) == \A t \in Steps(l) : node[l][t] = "approved"
SomeRejected(l) == \E t \in Steps(l) : node[l][t] = "rejected"

\* However requests interleave and fail, a leave is approved only after the
\* system signed it or every signature its length calls for has been decided:
\* no signature can be skipped, although approvals are merely counted.
NodesDecidedBeforeApproval ==
  \A l \in Leaves : status[l] = "approved" => SystemApproved(l) \/ Decided(l)

\* No decision is lost between two approvers that act at the same time: once
\* the last signature is there, or one is refused, and no Act is under way or
\* died half-way, the leave is no longer pending.
NoLostDecision ==
  \A l \in Leaves :
    /\ Acting(l) = {} /\ l \notin interrupted
    /\ AllApproved(l) \/ SomeRejected(l)
    => status[l] # "pending"

\* A stored leave is never forgotten: while it is pending, Create or an Act is at
\* work on it, or has died on it, or one of its rows is there to be decided.
NeverForgotten ==
  \A l \in Leaves :
    status[l] = "pending" =>
      \/ pc[l] \in CreatorBusy \cup {"failed"}
      \/ Acting(l) # {} \/ l \in interrupted
      \/ \E t \in Steps(l) : node[l][t] = "pending"

\* Why the three hold, for the proofs: how the creator and the handlers keep the
\* approval rows.  A leave has rows of one kind only ...
ManualRow(l) == \E t \in ManualSteps : node[l][t] # "none"
OneRoute ==
  \A l \in Leaves :
    /\ \A t \in ManualSteps : node[l][t] # "none" => t \in Steps(l)
    /\ ManualRow(l) => pc[l] \in {"nodes", "done", "failed"}
                       /\ node[l]["system"] = "none"
    /\ node[l]["system"] # "none"
         => /\ SystemApproved(l)
            /\ pc[l] \in {"approve", "notify", "done", "failed"}
    /\ pc[l] \in {"approve", "notify"} => SystemApproved(l)

\* ... an Act works on a row that exists ...
ActsOnRows ==
  \A h \in Handlers :
    LET l == act[h].leave
    IN  /\ act[h].pc \in {"record", "reject", "count", "approve"}
             => node[l][act[h].step] # "none"
        /\ act[h].pc \in {"reject", "count", "approve"}
             => node[l][act[h].step] \in Decisions

\* ... it is about to approve only when every signature has been decided ...
ApprovesDecided ==
  \A h \in Handlers, l \in Leaves :
    act[h].pc = "approve" /\ act[h].leave = l => Decided(l)

\* ... and whoever gave the last signature, or refused one, is still at it for
\* as long as the leave is pending.
Approving(l, h) == act[h].pc \in {"count", "approve"} /\ act[h].leave = l
Rejecting(l, h) == act[h].pc = "reject" /\ act[h].leave = l

Awaited(l) ==
  status[l] = "pending" /\ l \notin interrupted =>
    /\ AllApproved(l) => \E h \in Handlers : Approving(l, h)
    /\ SomeRejected(l) => \E h \in Handlers : Rejecting(l, h)
SomeoneSettles == \A l \in Leaves : Awaited(l)

\* Create leaves no leave behind without its row, nor a leave without its rows.
BeforeRow == {"idle", "overlap", "balance", "insert"}
Stored ==
  /\ \A l \in Leaves :
       /\ pc[l] \in BeforeRow \cup {"refused"} => status[l] = "none"
       /\ pc[l] = "notify" => status[l] \notin {"none", "pending"}
       /\ status[l] = "pending" /\ pc[l] = "done"
            => \A t \in Steps(l) : node[l][t] # "none"
  /\ \A h \in Handlers : act[h] # Idle => status[act[h].leave] # "none"

\* As the program ships (Approvers = {}) nobody can act on a row: no leave is ever
\* rejected, and those that are approved were signed by the system and are short.
OnlyTheSystemDecides ==
  \A l \in Leaves :
    /\ status[l] # "rejected"
    /\ status[l] = "approved"
         => SystemApproved(l) /\ Days(l) <= AutoApproveMaxDays

\* ... for the proof.
NobodyActs == \A h \in Handlers : act[h].pc \in {"idle", "cancel"}
ShortOnAutoRoute ==
  \A l \in Leaves :
    SystemApproved(l) \/ pc[l] \in {"load", "onsite", "system"}
      => Days(l) <= AutoApproveMaxDays

\* A row that Cancel, Act or Create has settled is never settled differently.
\* The guard in Cancel and the one in AutoApprove are there for this.
DecisionIsFinal ==
  [][\A l \in Leaves : status[l] \notin {"none", "pending"}
                         => status'[l] = status[l]]_vars

-----------------------------------------------------------------------------
\* Properties of requests that do not run into each other.

\* The leave of an applicant never runs into another one of theirs.
NoOverlap ==
  \A k, l \in Leaves :
    /\ k # l /\ req[k].user = req[l].user
    /\ {status[k], status[l]} \subseteq {"pending", "approved"}
    => req[k].end < req[l].start \/ req[l].end < req[k].start

\* The applicant hears of an approval once at most, and only if it stands; and
\* an approval that stands is announced, or about to be, or a request died on the
\* leave: one whose UPDATE takes effect without an answer never announces it.
Announcing(l) ==
  \/ pc[l] = "notify"
  \/ \E h \in Handlers : act[h].pc = "notify" /\ act[h].leave = l
Unheard(l) == (pc[l] = "failed" /\ SystemApproved(l)) \/ l \in interrupted

NoticeFollowsApproval ==
  \A l \in Leaves :
    /\ notices[l] <= 1
    /\ notices[l] = 1 => status[l] = "approved"
    /\ status[l] = "approved" => notices[l] = 1 \/ Announcing(l) \/ Unheard(l)

\* How far apart requests have to be kept for that: no two of them at a time on
\* the same leave ...
Busy(l) ==
  pc[l] \in CreatorBusy \/ \E h \in Handlers : act[h] # Idle /\ act[h].leave = l
OnePerLeave ==
  \A h \in Handlers :
    act[h] # Idle =>
      /\ pc[act[h].leave] \notin CreatorBusy
      /\ \A g \in Handlers : act[g] # Idle /\ act[g].leave = act[h].leave => g = h

\* ... or on leaves of the same applicant, or of the same department.
OnePerUser ==
  OnePerLeave /\ \A k, l \in Leaves :
                   Busy(k) /\ Busy(l) /\ req[k].user = req[l].user => k = l
OnePerDept ==
  OnePerLeave /\ \A k, l \in Leaves :
                   /\ Busy(k) /\ Busy(l)
                   /\ DeptOf[req[k].user] = DeptOf[req[l].user]
                   => k = l

\* With Serial, no two of them at all.
OneAtATime ==
  /\ OnePerLeave
  /\ \A k, l \in Leaves : Busy(k) /\ Busy(l) => k = l

\* Why such requests keep their promises, for the proofs.  On a leave: it is
\* pending from the INSERT to the last statement of a request, and approved but
\* not announced when only the notice is left ...
AfterRow == {"load", "onsite", "system", "approve", "nodes"}
OnPending ==
  /\ \A l \in Leaves :
       /\ pc[l] \in BeforeRow => status[l] = "none"
       /\ pc[l] \in AfterRow => status[l] = "pending"
       /\ pc[l] = "notify" => status[l] = "approved" /\ notices[l] = 0
       /\ pc[l] \in BeforeRow \cup {"load", "onsite", "system"}
            => \A t \in ApproverTypes : node[l][t] = "none"
  /\ \A h \in Handlers :
       act[h] # Idle =>
         IF act[h].pc = "notify"
         THEN status[act[h].leave] = "approved" /\ notices[act[h].leave] = 0
         ELSE status[act[h].leave] = "pending"

\* ... the row an Act has decided stays as it wrote it ...
ActsAlone ==
  \A h \in Handlers :
    LET row == node[act[h].leave][act[h].step]
    IN  /\ act[h].pc = "record" => row = "pending"
        /\ act[h].pc = "reject" => row = "rejected"
        /\ act[h].pc \in {"count", "approve"} => row = "approved"
        /\ act[h].pc = "approve" => AllApproved(act[h].leave)

\* Of an applicant and of a department: what Create and AutoApprove have checked
\* still holds when they write.
StillApart ==
  \A l \in Leaves : pc[l] \in {"balance", "insert"} => ~ HasOverlap(l)
StillAffordable ==
  \A l \in Leaves :
    pc[l] \in {"insert", "load", "onsite", "system", "approve"}
      => HasSufficientBalance(l)
StillOnSite ==
  \A l \in Leaves : pc[l] \in {"system", "approve"} => CheckMinimumOnSite(l)

\* Requests without end may come, but only so many have begun.
Begun == {l \in Leaves : pc[l] # "idle"}

LeaveInv == OnPending /\ NoticeFollowsApproval
UserInv == /\ LeaveInv /\ StillApart /\ StillAffordable
           /\ IsFiniteSet(Begun) /\ NoOverlap

EnoughOnSite(dept, d) ==
  HeadCount[dept] >= MinRequired(dept) + Cardinality(OnLeave(dept, d))
SystemSignsOnSite ==
  \A l \in Leaves :
    /\ pc[l] = "approve" /\ status[l] # "approved" /\ status'[l] = "approved"
    => EnoughOnSite(DeptOf[req[l].user], req[l].start)'

\* When the system signs a leave, the department keeps its minimum of people
\* on site on the first day of the leave, the one it looked at.
AutoApprovalKeepsOnSite == [][SystemSignsOnSite]_vars

WithinBalance(u, type) == Balance[u][type] >= DaysOf(PendingApproved(u, type))
SystemSignsWithinBalance ==
  \A l \in Leaves :
    /\ pc[l] = "approve" /\ status'[l] = "approved"
    /\ req[l].type # "compassion"
    => WithinBalance(req[l].user, req[l].type)'

\* When the system signs a leave, the days approved and not yet begun stay
\* within what the applicant has.  Those of leaves that have begun do not count.
AutoApprovalWithinBalance == [][SystemSignsWithinBalance]_vars

\* The days approved and not yet begun fit what the applicant has, as the
\* comments of HasSufficientBalance promise for every leave.  Those of a leave
\* that has begun are counted nowhere: no code calls Deduct.
BalanceCoversUpcoming ==
  \A l \in Leaves :
    req[l].type # "compassion" => WithinBalance(req[l].user, req[l].type)

\* A leave that is stored is settled one day, unless a request on it died.
Settles ==
  \A l \in Leaves :
    status[l] = "pending"
      ~> \/ status[l] # "pending" \/ pc[l] = "failed" \/ l \in interrupted

-----------------------------------------------------------------------------
\* The abstract life cycle: a leave comes into it with its row, and a signature
\* when it has been decided.
Lifecycle == INSTANCE LeaveLifecycle WITH
  state <- status,
  demand <- [l \in Leaves |-> IF status[l] = "none" THEN {} ELSE Steps(l)],
  verdict <- [l \in Leaves |-> [t \in ApproverTypes |->
                IF node[l][t] \in Decisions THEN node[l][t] ELSE "open"]]

\* Requests that do not meet on a leave keep the promise of LeaveLifecycle: one
\* verdict for each signature, one settlement for each leave, and an approval
\* only on the signatures the length of the leave calls for.
LifecycleKept == Lifecycle!Spec

=============================================================================
