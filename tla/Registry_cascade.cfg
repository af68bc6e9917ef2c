SPECIFICATION Spec
CONSTANTS
    CLIENTS_MAX = 2
    STREAMS_MAX = 4
    STREAMS_PER_CLIENT = 3
    NULL = NULL
    NewRequests <- CascadeRequests
    FhOutcomes = {"codec", "nonblock", "ready"}
    CodecKinds = {"wave"}
    AttachTargets = {}
    FlagRequests = {}
INVARIANTS
    OwnershipAgrees
CHECK_DEADLOCK FALSE
