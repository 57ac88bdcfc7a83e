CONSTANTS
  Minterms = 2
  Automata <- Sampled
  Inputs <- MCInputs
  Calls = {"optional", "all", "from"}
SPECIFICATION Spec
INVARIANTS
  ScanInv
  OptionalExact
  FromExactAlike
  AllExact
PROPERTY CallsReturn
