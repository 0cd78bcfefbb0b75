CONSTANTS
    Node = {a, b}
    MaxReplicas = 2
    None = None
SPECIFICATION FairSpec
INVARIANT OneEngineInVenue
PROPERTIES ImplementsOwnership SomeEngineReady
