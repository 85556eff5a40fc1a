\* A process that stops responding.
CONSTANTS
  NumRequests = 1
  QueueDepth = 1
SPECIFICATION CallSpec
PROPERTY NeverHangs
CHECK_DEADLOCK FALSE
