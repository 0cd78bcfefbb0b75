CONSTANTS
    Process = {p1}
    Fd = {f1}
    None = None
    Free = Free
    Absent = Absent
    Empty = Empty
SPECIFICATION FairSpec
PROPERTY HeartbeatLossIsLoud
