SPECIFICATION Spec
CONSTANTS
    Conn = {c1, c2}
    Stream = {s1, s2}
    self = self
    NULL = NULL
    Options <- AnyOptions
INVARIANTS
    MTypeOK
    TermMeansAlone
PROPERTIES
    DrainedServerExits
    DeadServerExits
