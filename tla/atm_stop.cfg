SPECIFICATION Spec
CONSTANTS
  Browser = {b1, b2}
  Push = {p1, p2}
  Iterations = 3
  MaxData = 1
INVARIANTS QuietAfterStop
PROPERTIES PushReturns
