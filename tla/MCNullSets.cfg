SPECIFICATION NullsSpec
CONSTANTS
  MaxRel = 3
  Tag = {0}
  NoTag = 1
  Mask <- MCMask
  Runs <- MCRuns
  MaxSets = 8
  MaxMemo = 2
INVARIANTS SetsWellFormed ResultsMean
PROPERTIES IdsKeepMeaning
