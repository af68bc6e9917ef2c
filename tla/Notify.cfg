SPECIFICATION Spec
CONSTANTS
    Client = {c1, c2, c3}
    Node = {n1, n2, n3, n4}
    new = new
    delete = delete
    cmd = cmd
    xrun = xrun
    any = any
    stream = stream
    b0 = b0
    b1 = b1
    Event = {new, delete, cmd, xrun, any, stream}
    Group = {any, stream}
    proxy <- MCProxy
    Bucket = {b0, b1}
    hash <- MCHash
    NewEvent = new
    DeleteEvent = delete
    WaitEvent = cmd
    WaitRequests <- MCRequests
    NIL = NIL
INVARIANTS
    NTypeOK
    SubscribersWait
    BlockedWhileWaiting
PROPERTIES
    CrashNeedsOverlap
    NobodyOversleeps
    AnswersMatch
