\* Two processes, blocks are sent up to twice.
CONSTANTS
  h1 = h1
  h2 = h2
  Pid <- MCPid
  RoundMax = 2
  TbSize <- MCTbSize
  Frames = 3
  TaPeriod = 2
SPECIFICATION FairSpec
INVARIANTS
  ProcessesPartitioned
  HandOffSound
PROPERTIES
  NdiTogglesPerBlock
  ImplementsHarqProcess
  BlocksConclude
  TaRecurs
