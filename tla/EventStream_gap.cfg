CONSTANTS
  Subscribers = {t1}
  Capacity = 2
  SubscriberBuffer = 2
  MaxEvents = 4
  WireCap = 2
  MaxDrops = 1
  MaxRestarts = 0
SPECIFICATION StreamSpec
INVARIANT NoHiddenGap
CHECK_DEADLOCK FALSE
