CONSTANTS
  NumUe = 3
  Carrier = 3
  BwpStart = 0
  BwpSize = 3
  MaxUe = 2
  MinRb <- MCMinRb
  RbFloor <- MCRbFloor
  RbCap <- MCRbCap
  MaxCg <- MCMaxCg
  Coefs = {1}
  RetxSizes = {2}
  Reserved <- MCReserved
  Gaps = {1, 2}
  Wrap = 3
  RunMax = 2
  RuntimeMax = 2
SPECIFICATION Spec
INVARIANTS
  OverlapOnlyUnmarked
  GrantsInBwp
  ExhaustedYield
