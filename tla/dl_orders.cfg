SPECIFICATION DLFairSpec
CONSTANTS
    Node = {"A", "B", "C"}
    Invalid = {3}
    MayCrash = {"B"}
    MaxLost = 1
    Length = 3
    Late = 1
    b0 <- TreeRoot
    Block <- TreeBlock
    parent <- TreeParent
    qc_ref <- TreeQc
    height <- TreeHeight
    chain <- TreeChain
    creator <- TreeCreator
    collector <- TreeCollector
INVARIANTS
    NeverThrown
    DeliveredIsSound
    WaitsAreServed
PROPERTIES
    ProposalsHandled
CHECK_DEADLOCK FALSE
