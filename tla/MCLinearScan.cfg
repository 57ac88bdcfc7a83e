CONSTANTS
  Minterms = 2
  Automata <- Few
  Inputs <- MCInputs
  Capacities <- Scarce
  MaxCalls = 2
SPECIFICATION Spec
INVARIANTS
  ScanInv
  LinearExact
PROPERTY CallsReturn
CHECK_DEADLOCK FALSE
