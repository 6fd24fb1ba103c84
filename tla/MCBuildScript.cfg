CONSTANTS
    None        = None
    here        = here
    there       = there
    torn        = torn
    home        = home
    tornHome    = tornHome
    Target      = "x86_64-unknown-linux-gnu"
    Published   = {"x86_64-unknown-linux-gnu"}
    Paths        <- MCPaths
    CacheRoots   <- MCCacheRoots
    Unprintable  <- MCUnprintable
    Headers      <- MCHeaders
    Pins         <- MCPins
    Declarations <- MCDeclarations
    Manifests    <- MCManifests
    Archives     <- MCArchives
    Worlds       <- MCWorlds
    MaxEdits    = 3
SPECIFICATION Spec
INVARIANTS
    LinkedArchiveAgrees
    RequiredIsLinked
    ListedInputsSuffice
    LinesStayWhole
    RoutesCheckAlike
CHECK_DEADLOCK FALSE
