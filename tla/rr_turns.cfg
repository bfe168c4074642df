SPECIFICATION MCSpec
CONSTANTS
    Replica = {0, 1}
    Faulty = {}
    FetchOnly = {}
    Proposers = {0, 1}
    MaxBeats = 3
    MaxRotations = 2
    MaxHeight = 6
    MaxFree = 4
    FreeBeats = 2
    Passed <- OneAbove
    Long <- TwoTurns
    MaxSwitches = 1
    MaxGaps = 1
    MaxGap = 1
    Creators = 2
    b0 <- TreeRoot
    Block <- TreeBlock
    parent <- TreeParent
    qc_ref <- TreeQc
    height <- TreeHeight
    chain <- TreeChain
    creator <- TreeCreator
    collectors <- TreeCollectors
INVARIANTS
    LockedIsLive
    QueueServed
PROPERTIES
    ProposesInTurn
CHECK_DEADLOCK FALSE
