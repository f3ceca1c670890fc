\* Two leaves of one applicant, both submitted before either is approved.
SPECIFICATION Spec
CONSTANTS
  Leaves = {l1, l2}
  Handlers = {h1}
  Users <- MCUsers
  Depts <- MCDepts
  DeptOf <- MCDeptOf
  HeadCount <- MCHeadCount
  MinOnSite <- MCMinOnSite
  MinimumOnSiteCount = 2
  Nobody = nobody
  Weekend <- MCWeekend
  Calendar <- MCCalendar
  AutoApproveMaxDays = 1
  Balance <- SerialBalance
  Requests <- SerialRequests
  Approvers = {boss}
  LastDay = 0
  Serial = TRUE
INVARIANT BalanceCoversUpcoming
CHECK_DEADLOCK FALSE
