SPECIFICATION FairSpec
CONSTANTS
  Message = {m1, m2, b1}
  Text = {m1, m2, b1}
  Delayed = {m1, m2}
  Timed = {m1, m2}
  Notifier = Notifier
  None = None
  MaxDepth = 3
PROPERTIES DelayedArrives
CHECK_DEADLOCK FALSE
