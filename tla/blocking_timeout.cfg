SPECIFICATION Spec
CONSTANTS
  Request = {r1, r2}
  WithTimeout = {r2}
INVARIANTS TakenLatchOpens
PROPERTIES TimeoutReturns
CHECK_DEADLOCK FALSE
