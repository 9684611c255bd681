SPECIFICATION Spec
CONSTANTS
  Request = {r1}
  WithTimeout = {}
PROPERTIES ResumeCompletes
CHECK_DEADLOCK FALSE
