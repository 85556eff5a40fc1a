CONSTANTS
  Subscribers = {t1}
  Capacity = 2
  SubscriberBuffer = 1
  MaxEvents = 5
  WireCap = 2
  MaxDrops = 2
  MaxRestarts = 1
SPECIFICATION LiveStreamSpec
INVARIANT NothingAppliedTwice
PROPERTY FallBehindIsNoticed
PROPERTY Reconnects
CHECK_DEADLOCK FALSE
