\* CRCs may be lost and the UE may come back through random access.
CONSTANTS
  h1 = h1
  h2 = h2
  h3 = h3
  Pid <- MCPid
  RoundMax = 2
  TbSize <- MCOneSize
  DtxThreshold = 2
  MaxAir = 3
  MaxBytes = 4
  MayLose = TRUE
  MayReaccess = TRUE
SPECIFICATION FairSpec
INVARIANTS
  ProcessesPartitioned
  WaitingMeansFeedback
  RoundsMatchLists
PROPERTIES
  ImplementsHarqProcess
  HandlingEnds
