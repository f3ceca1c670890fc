\* Two people of the three-person department ask for the same day at once.
SPECIFICATION Spec
CONSTANTS
  Leaves = {l1, l2}
  Handlers = {h1}
  Users <- MCUsers
  Depts <- MCDepts
  DeptOf <- MCDeptOf
  HeadCount <- MCHeadCount
  MinOnSite <- MCMinOnSite
  MinimumOnSiteCount = 2
  Nobody = nobody
  Weekend <- MCWeekend
  Calendar <- MCCalendar
  AutoApproveMaxDays = 1
  Balance <- ConcurrentBalance
  Requests <- SameDayRequests
  Approvers = {boss}
  LastDay = 0
  Serial = FALSE
PROPERTY AutoApprovalKeepsOnSite
CHECK_DEADLOCK FALSE
