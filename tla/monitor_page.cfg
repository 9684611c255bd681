SPECIFICATION FairSpec
CONSTANTS
  Transport = {"streaming"}
  Splits = TRUE
  MaxRequest = 2
  MaxSubscribe = 1
  MaxPublish = 1
  MaxMessage = 2
  Window = 0
  Number = {0, 1, 2}
  Field <- HighThenLow
INVARIANTS TypeOK OneConnection GivesUp SilentForAReason HeardInOrder ScaleCovers
PROPERTIES NothingUnheard LineComesIn StopsOnlyAlone NoRequestHangs Rescales
