CONSTANTS
  Period = 5
  DlSlots = {0, 1, 2, 3}
  UlSlots = {3, 4}
  NumDl = 3
  Wrap = 25
  MinRxTx = 2
  Tdas <- MCTdas
  MaxDci = 3
  MaxSched = 2
SPECIFICATION FairSpec
INVARIANTS TypeOK GrantsInOrder GrantsBetween
PROPERTIES RetxServed
