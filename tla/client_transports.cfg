SPECIFICATION ClientSpec
CONSTANTS
  Transport = {"streaming", "long-polling"}
  Splits = FALSE
  MaxRequest = 2
  MaxSubscribe = 3
  MaxPublish = 1
  MaxMessage = 1
INVARIANTS OneTransport
CHECK_DEADLOCK FALSE
