CONSTANTS
  t1 = t1
  t2 = t2
  Thread <- OneThread
  Rnti <- TwoRnti
  Value <- TwoValues
  Dir <- BothWays
  Reader <- BothWays
  MayClear = TRUE
  MayRestart = FALSE
  MaxRequests = 2
  MaxSec = 2
SPECIFICATION FairSpec
PROPERTIES
  SchedulersConverge
  NoLapse
\* with MaxRequests served and the tables loaded nothing is left to do
CHECK_DEADLOCK FALSE
