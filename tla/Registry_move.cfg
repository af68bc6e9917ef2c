SPECIFICATION Spec
CONSTANTS
    CLIENTS_MAX = 3
    STREAMS_MAX = 3
    STREAMS_PER_CLIENT = 2
    NULL = NULL
    NewRequests <- AttachRequests
    FhOutcomes = {"codec", "nonblock", "ready"}
    CodecKinds = {"wave"}
    AttachTargets = {0, 1, 2}
    FlagRequests = {}
PROPERTIES
    StaysAttached
CHECK_DEADLOCK FALSE
