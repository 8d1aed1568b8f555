SPECIFICATION Spec
CONSTANTS
    Stream = {s1}
    Proc = {p, q}
    PmId = {id1, id2}
    Name = {web, worker}
    Bus = {b1, b2}
    BacklogLines = 1
    TailLines = 2
    MaxLines = 1
    None = None
    Gone = Gone
SYMMETRY Interchangeable
INVARIANTS
    ReleasedOnDisconnect
CHECK_DEADLOCK FALSE
