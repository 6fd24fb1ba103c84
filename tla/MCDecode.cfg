CONSTANTS
    None              = None
    InitialBatchBytes = 20
    MaxBatchBytes     = 76
    MaxEmptyBatches   = 3
    HostMax           = 1000
    CounterLimit      = 1000
    Scripts           <- MCScripts
    PadMax            = 3
SPECIFICATION DecodeSpec
INVARIANTS
    CompleteIsWhole
    EverythingPulledComesOut
    NoFalseAlarm
    CancelIsNoticed
    NeverAsksAgain
PROPERTIES
    ImplementsDelivery
