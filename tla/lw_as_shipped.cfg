\* Nobody but the code writes approver_id.
SPECIFICATION FairSpec
CONSTANTS
  Leaves = {l1}
  Handlers = {h1}
  Users <- MCUsers
  Depts <- MCDepts
  DeptOf <- MCDeptOf
  HeadCount <- MCHeadCount
  MinOnSite <- MCMinOnSite
  MinimumOnSiteCount = 2
  Nobody = nobody
  Weekend <- MCWeekend
  Calendar <- MCCalendar
  AutoApproveMaxDays = 1
  Balance <- ConcurrentBalance
  Requests <- ConcurrentRequests
  Approvers = {}
  LastDay = 0
  Serial = TRUE
PROPERTY Settles
CHECK_DEADLOCK FALSE
