CONSTANTS
    None              = None
    InitialBatchBytes = 20
    MaxBatchBytes     = 44
    MaxEmptyBatches   = 3
    HostMax           = 50
    CounterLimit      = 2
    Answers           <- MCAnswers
SPECIFICATION Spec
INVARIANTS
    ForeignWireIsRefused
