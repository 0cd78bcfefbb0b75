CONSTANTS
    BASE = 3
    TIMESTAMP_CHARS = 2
    RANDOM_CHARS = 2
    TICKS = 2
    SKEW = 1
    MaxTime = 12
    MaxIds = 2
SPECIFICATION Spec
INVARIANTS TypeOK SortsUpToSkew CollideOnlyByChance
CHECK_DEADLOCK FALSE
