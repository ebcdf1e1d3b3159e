CONSTANTS
  t1 = t1
  t2 = t2
  Thread <- TwoThreads
  NumNodes = 2
  Rnti <- OneRnti
  Bind <- TwoBinds
  Cmds <- SomeCmds
  Watched = 1
  AssocMax = 2
  MayTimeout = TRUE
  MayRaise = TRUE
  MaxRequests = 2
SPECIFICATION FairSpec
INVARIANTS
  NodesAgree
  ShownWasApplied
PROPERTIES
  EveryRequestAnswered
  UeListConverges
\* with MaxRequests answered nothing is left to do
CHECK_DEADLOCK FALSE
