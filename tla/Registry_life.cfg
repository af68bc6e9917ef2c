SPECIFICATION Spec
CONSTANTS
    CLIENTS_MAX = 3
    STREAMS_MAX = 3
    STREAMS_PER_CLIENT = 2
    NULL = NULL
    NewRequests <- LifeRequests
    FhOutcomes = {"codec", "nonblock", "ready"}
    CodecKinds = {"wave"}
    AttachTargets = {}
    FlagRequests <- AllFlags
INVARIANTS
    TypeOK
    CountersExact
    RelationsLive
    OwnershipAgrees
    ExecedIsListed
PROPERTIES
    ImmutableOutlivesServer
    StaysAttached
CHECK_DEADLOCK FALSE
