SPECIFICATION Spec
CONSTANTS
    CLIENTS_MAX = 2
    STREAMS_MAX = 3
    STREAMS_PER_CLIENT = 2
    NULL = NULL
    Setups <- DPSetups
    Unit = 2
    PERIOD = 2
    MaxSent = 3
    MaxBacklog = 1
INVARIANTS
    DPTypeOK
    OldDataOnlyWhenDry
PROPERTIES
    RefinesQueue
    ThruComplete
    DrainedAtEof
    CallersKeepStreams
    EndedStreamGoes
