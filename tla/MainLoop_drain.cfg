SPECIFICATION Spec
CONSTANTS
    Conn = {c1, c2}
    Stream = {s1, s2}
    self = self
    NULL = NULL
    Options <- PlainOptions
PROPERTIES
    QuitsAfterLastStream
