CONSTANTS
    Process = {p1, p2, p3}
    Fd = {f1}
    None = None
    Free = Free
    Absent = Absent
    Empty = Empty
SPECIFICATION FairSpec
INVARIANTS SingleEngine HeartbeatIsTheEngines LockIsNotStranded
PROPERTIES ImplementsOwnership SomeEngineServes
