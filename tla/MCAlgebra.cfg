SPECIFICATION Spec
CONSTANTS
    Alphabet <- MCAlphabet
    Inf = 100
    Words <- MCWords
    Leaves <- MCLeaves
    Counts <- MCCounts
    MaxWeight = 6
    MaxUnary = 1
CHECK_DEADLOCK FALSE
INVARIANTS
    MeaningKept
    MetadataExact
    DerivativeExact
    ReverseExact
