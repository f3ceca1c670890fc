\* One leave under fairness and two Cancel or Act requests at a time, in every
\* interleaving and with every request failing after any statement.
SPECIFICATION FairSpec
CONSTANTS
  Leaves = {l1}
  Handlers = {h1, h2}
  Users <- MCUsers
  Depts <- MCDepts
  DeptOf <- MCDeptOf
  HeadCount <- MCHeadCount
  MinOnSite <- MCMinOnSite
  MinimumOnSiteCount = 2
  Nobody = nobody
  Weekend <- MCWeekend
  Calendar <- MCCalendar
  AutoApproveMaxDays = 1
  Balance <- ConcurrentBalance
  Requests <- ConcurrentRequests
  Approvers = {boss}
  LastDay = 0
  Serial = FALSE
INVARIANTS TypeOK NodesDecidedBeforeApproval NoLostDecision NeverForgotten
PROPERTY Settles
CHECK_DEADLOCK FALSE
