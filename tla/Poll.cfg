SPECIFICATION Spec
CONSTANTS
    CLIENTS_MAX = 3
    STREAMS_MAX = 2
    STREAMS_PER_CLIENT = 1
    NULL = NULL
    MAX_STREAMLESS = 2
    LISTEN_MAX = 2
    FH_MAX = 5
    MaxChanges = 3
    Outcomes = {"codec", "ready"}
    Starts <- PollStarts
INVARIANTS
    PTypeOK
    HandlesOwned
    ReadsOnlyReady
PROPERTIES
    EveryoneServed
