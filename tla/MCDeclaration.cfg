CONSTANTS
    None      = None
    U32_MAX   = 255
    DigestLen = 2
    Defines <- MCDefines
    Worlds  <- MCWorlds
SPECIFICATION Spec
INVARIANTS
    OnlyLiveDefinitionsCount
    ReadsWhatIsWritten
    GlobIsExact
PROPERTY
    EveryTurnGetsOn
