CONSTANTS
    Peer = {engine, ledger}
    Threshold = 3
SPECIFICATION Spec
INVARIANTS AnswersAreWitnessed
PROPERTIES RotationHasCause LostPeerLeavesRotation PromptPeersEnterRotation EveryCheckEnds
