CONSTANTS
    r1 = r1
    r2 = r2
    r3 = r3
    r4 = r4
    Replica = {r1, r2, r3, r4}
    Faulty = {r4}
    FetchOnly = {}
    Proposers = {r1, r2}
    MaxHeight = 2
    MaxAlone = 3
    b0 <- TreeRoot
    Block <- TreeBlock
    parent <- TreeParent
    qc_ref <- TreeQc
    height <- TreeHeight
    chain <- TreeChain
    creator <- TreeCreator
    collectors <- TreeCollectors
SPECIFICATION MCSpec
INVARIANTS
    TailExtendsHqc
    TailsCoverDelivered
    SoleProposerNeverStale
    OneQCPerHeight
    QCsAreReal
    IInv
PROPERTIES
    VotesClimb
CHECK_DEADLOCK FALSE
