SPECIFICATION BdfaSpec
CONSTANTS
    Alphabet <- MCAlphabet
    IndexLimit = 3
    BoundedRegexes <- MCRegexes
    Inputs <- MCInputs
    MaxPrefix = 3
    MaxFrontier = 4
    Spare = 1
CHECK_DEADLOCK FALSE
INVARIANTS
    ScanExact
    ClassesExact
PROPERTIES
    ScanAdvances
