\* Two tool calls, one request of another client or one that fails.
CONSTANTS
  r1 = r1
  r2 = r2
  m1 = m1
  m2 = m2
  None = None
  Rnti <- MCRnti
  Mode <- MCMode
  MaxCalls = 2
  MaxUpsets = 1
SPECIFICATION Spec
SYMMETRY MCSymmetry
INVARIANTS
  OneAgent
  SceneOkMeansBound
  SceneOneUe
PROPERTY
  ToolsConclude
