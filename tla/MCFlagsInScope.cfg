CONSTANTS
    Inputs <- TwoFlags
    MaxDepth = 4
    MaxRepeat = 5
    MaxExpanded = 40
    MaxList = 10
    ImplicitCaptures = FALSE
    Extended = FALSE
    DotAll = FALSE
    Multiline = TRUE
    CaseInsensitive = FALSE
    Bytes <- MCBytes
    WordBytes <- MCWordBytes
    Words <- MCWords
    StartFlags <- MCStartFlags
SPECIFICATION AllSpec
INVARIANTS FlagsUntilGroupEnd
CHECK_DEADLOCK FALSE
