\* Three leases, one after the other, a queue of one, and a process that may die.
CONSTANTS
  NumRequests = 3
  QueueDepth = 1
SPECIFICATION CallSpec
INVARIANT CallTypeOK
 
PROPERTY CallEnds
CHECK_DEADLOCK FALSE
