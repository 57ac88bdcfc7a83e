CONSTANTS
  Node <- MCNode
  Bot = "bot"
  Minterms = 2
  Regexes <- MCRegexes
  Capacities = {3, 4, 6}
  SkipMod = 3
SPECIFICATION Spec
INVARIANTS
  InBounds
  Coherent
  Answered
  CapacityRespected
  SkipSoundBelowLimit
PROPERTY Stable
CHECK_DEADLOCK FALSE
