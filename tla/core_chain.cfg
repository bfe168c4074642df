CONSTANTS
    r1 = r1
    r2 = r2
    r3 = r3
    r4 = r4
    Replica = {r1, r2, r3, r4}
    Faulty = {r4}
    b0 = "b0"
    Block <- TreeBlock
    parent <- TreeParent
    qc_ref <- TreeQc
    height <- TreeHeight
    chain <- TreeChain
    FetchOnly <- TreeFetchOnly
    creator <- TreeCreator
    collectors <- TreeCollectors
SPECIFICATION MCSpec
SYMMETRY Symmetry
INVARIANTS
    NeverBreached
    DecisionMatchesExec
    ExecutedIsFinal
    CommittableIsFinal
    ExecBackedByLocks
PROPERTIES
    LedgerSpec
CHECK_DEADLOCK FALSE
