\* A Cancel that reads the status before an approval is written and writes after.
SPECIFICATION Spec
CONSTANTS
  Leaves = {l1}
  Handlers = {h1}
  Users <- MCUsers
  Depts <- MCDepts
  DeptOf <- MCDeptOf
  HeadCount <- MCHeadCount
  MinOnSite <- MCMinOnSite
  MinimumOnSiteCount = 2
  Nobody = nobody
  Weekend <- MCWeekend
  Calendar <- MCCalendar
  AutoApproveMaxDays = 1
  Balance <- ConcurrentBalance
  Requests <- SameDayRequests
  Approvers = {boss}
  LastDay = 0
  Serial = FALSE
PROPERTY DecisionIsFinal
CHECK_DEADLOCK FALSE
