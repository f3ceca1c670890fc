\* Requests that come one at a time, each of which may still fail after any
\* statement; the system signs up to three days.
SPECIFICATION Spec
CONSTANTS
  Leaves = {l1, l2}
  Handlers = {h1}
  Users <- MCUsers
  Depts <- MCDepts
  DeptOf <- MCDeptOf
  HeadCount <- MCHeadCount
  MinOnSite <- MCMinOnSite
  MinimumOnSiteCount = 2
  Nobody = nobody
  Weekend <- MCWeekend
  Calendar <- MCCalendar
  AutoApproveMaxDays = 3
  Balance <- SerialBalance
  Requests <- SerialRequests
  Approvers = {boss}
  LastDay = 1
  Serial = TRUE
SYMMETRY Symmetry
INVARIANTS NoOverlap NoticeFollowsApproval
PROPERTIES AutoApprovalKeepsOnSite AutoApprovalWithinBalance DecisionIsFinal
           LifecycleKept
CHECK_DEADLOCK FALSE
