\* Three processes, CRCs may be lost, the UE never restarts its access.
CONSTANTS
  h1 = h1
  h2 = h2
  h3 = h3
  Pid <- MCPid
  RoundMax = 3
  TbSize <- MCTbSize
  DtxThreshold = 2
  MaxAir = 3
  MaxBytes = 9
  MayLose = TRUE
  MayReaccess = FALSE
SPECIFICATION FairSpec
INVARIANTS
  BytesMatchPending
  CrcMatchesGrant
  BytesCoverAir
PROPERTIES
  NdiTogglesPerBlock
  BlocksConclude
\* a UE whose CRCs were all lost, or that failed, is no longer scheduled
CHECK_DEADLOCK FALSE
