CONSTANTS
  t1 = t1
  t2 = t2
  Thread <- TwoThreads
  Rnti <- TwoRnti
  Value <- OneValue
  Dir <- BothWays
  Reader <- Uplink
  MayClear = TRUE
  MayRestart = TRUE
  MaxRequests = 3
  MaxSec = 1
SYMMETRY ThreadSymmetry
SPECIFICATION Spec
INVARIANTS
  NoInventedPosture
  LoneRequestPublishes
\* with MaxRequests served and the tables loaded nothing is left to do
CHECK_DEADLOCK FALSE
