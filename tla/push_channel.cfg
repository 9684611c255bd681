SPECIFICATION FairSpec
CONSTANTS
  r1 = r1
  r2 = r2
  Resource = {r1}
  Worker = {w1, w2, w3}
  Closer = {c1}
  Target <- AllTargets
  All = All
  Nil = Nil
  MaxBroadcast = 2
INVARIANTS OneLeader WriterOwnsMonitor TypeOK InScopeWhileWriting OutOfScopeIsForgotten OneLateWrite
PROPERTIES OrderedDelivery EveryMessageArrives CancelledLeaves
CHECK_DEADLOCK FALSE
