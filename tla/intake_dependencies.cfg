SPECIFICATION Spec
CONSTANTS
  Listing <- TwoIssues
  Pollers = {w1, w2}
  ContractsOf <- PlainContracts
  MaxEdits = 0
  MaxPollFaults = 0
  MaxDisturbances = 0
INVARIANTS UnmergedDependencyBlocks
