SPECIFICATION DSpec
CONSTANTS
    CLIENTS_MAX = 3
    STREAMS_MAX = 3
    STREAMS_PER_CLIENT = 2
    NULL = NULL
    NewRequests <- StackRequests
    FhOutcomes = {"codec", "ready"}
    CodecKinds = {"wave"}
    AttachTargets = {}
    FlagRequests = {}
INVARIANTS
    DTypeOK
    NoUseAfterFree
PROPERTIES
    DeletionReturns
    RefinesRegistry
CHECK_DEADLOCK FALSE
