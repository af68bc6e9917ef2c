SPECIFICATION Spec
CONSTANTS
    CLIENTS_MAX = 3
    STREAMS_MAX = 2
    STREAMS_PER_CLIENT = 1
    NULL = NULL
    Types = {"UNIX", "INET", "EXECED"}
    Keyrings <- MCKeyrings
    Outcomes = {"codec", "ready"}
INVARIANTS
    STypeOK
    InStep
    NoOrphans
    StreamIsOurs
PROPERTIES
    HurtsNobody
    CallsReturn
