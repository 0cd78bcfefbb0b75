CONSTANTS
    Node = {a}
    MaxReplicas = 2
    None = None
SPECIFICATION CheckSpec
INVARIANT StayedReadyThroughout
