SPECIFICATION Spec
CONSTANTS
  Transport = {"streaming"}
  Splits = FALSE
  MaxRequest = 2
  MaxSubscribe = 1
  MaxPublish = 0
  MaxMessage = 2
  Window = 1
  Number = {0, 1, 2}
  Field <- HighThenLow
INVARIANTS KeepsDrawing
