CONSTANTS
    Node = {a, b}
    MaxReplicas = 2
    None = None
SPECIFICATION CheckSpec
INVARIANT AlarmMeansLoss
PROPERTY EngineZeroReturns
