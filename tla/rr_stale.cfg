SPECIFICATION MCSpec
CONSTANTS
    Replica = {0, 1, 2, 3}
    Faulty = {3}
    FetchOnly = {}
    Proposers = {0, 1}
    MaxBeats = 3
    MaxRotations = 1
    MaxHeight = 2
    MaxFree = 2
    FreeBeats = 3
    Passed <- NoBranch
    Long <- NoBranch
    MaxSwitches = 0
    MaxGaps = 1
    MaxGap = 1
    Creators = 2
    b0 <- TreeRoot
    Block <- TreeBlock
    parent <- TreeParent
    qc_ref <- TreeQc
    height <- TreeHeight
    chain <- TreeChain
    creator <- TreeCreator
    collectors <- TreeCollectors
INVARIANT
    NeverStale
CHECK_DEADLOCK FALSE
