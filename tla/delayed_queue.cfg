SPECIFICATION Spec
CONSTANTS
  Message = {m1, m2, o1, b1, b2, n1}
  Text = {m1, m2, b1, b2}
  Delayed = {m1, m2, o1}
  Timed = {m1, m2}
  Notifier = Notifier
  None = None
  MaxDepth = 2
SYMMETRY Symmetry
INVARIANTS TypeOK NoTextForgotten DelayedInOrder WithFirstBroadcast
CHECK_DEADLOCK FALSE
