CONSTANTS
  t1 = t1
  t2 = t2
  Thread <- TwoThreads
  Rnti <- TwoRnti
  Value <- OneValue
  Dir <- Uplink
  Reader <- Uplink
  MayClear = FALSE
  MayRestart = FALSE
  MaxRequests = 2
  MaxSec = 1
SPECIFICATION Spec
INVARIANTS
  NeverWrittenInPlace
\* with MaxRequests served and the tables loaded nothing is left to do
CHECK_DEADLOCK FALSE
