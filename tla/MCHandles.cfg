CONSTANTS
    None = None
    t1 = t1
    t2 = t2
    d1 = d1
    d2 = d2
    s1 = s1
    s2 = s2
    f1 = f1
    k1 = k1
    k2 = k2
    Threads   <- MCThreads
    Documents <- MCDocuments
    Decodes   <- MCDecodes
    Flags     <- MCFlags
    Tokens    <- MCTokens
SPECIFICATION Spec
SYMMETRY Symmetry
INVARIANTS
    HandlesInv
    NothingIsUsedAfterClose
    FlagsOutliveDecodes
    DocumentsTakeTheirDecodes
    DecodesGoFirst
CHECK_DEADLOCK FALSE
