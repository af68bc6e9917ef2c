SPECIFICATION Spec
CONSTANTS
    CLIENTS_MAX = 2
    STREAMS_MAX = 3
    STREAMS_PER_CLIENT = 2
    NULL = NULL
    NewRequests <- AttachRequests
    FhOutcomes = {"ready"}
    CodecKinds = {"plain"}
    AttachTargets = {0, 1}
    FlagRequests = {}
INVARIANTS
    RelationsLive
CHECK_DEADLOCK FALSE
