\* Batches of two out of three notices; a channel that fails on one of them, a
\* database that fails on any, and a process that ends at any moment.
SPECIFICATION FairSpec
CONSTANTS
  Notices = {n1, n2, n3}
  Addressed = {n1, n2, n3}
  BatchLimit = 2
  MaxRetries = 2
  Failing = {n1}
  MaxExits = 1
INVARIANTS TypeOK RepeatedOnlyIfUnmarked MarkedMeansSent
PROPERTIES EveryRowSettled DeliveryKept
CHECK_DEADLOCK FALSE
