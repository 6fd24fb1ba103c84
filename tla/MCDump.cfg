CONSTANTS
    None                = None
    Decimals            = 2
    FORWARD_PROBE_FIRST = 32
    Views               <- MCViews
SPECIFICATION Spec
INVARIANTS
    WholeOrNothing
    TextsStayWhole
    NumbersAreRounded
CHECK_DEADLOCK FALSE
