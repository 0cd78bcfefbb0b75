CONSTANTS
    Process = {p1, p2, p3}
    Fd = {f1, f2}
    None = None
    Free = Free
    Absent = Absent
    Empty = Empty
SYMMETRY Symmetry
SPECIFICATION Spec
INVARIANTS TypeOK Exclusive HolderOwnsFlock FileNamesHolder
