SPECIFICATION LateSpec
CONSTANTS
    r1 = r1
    r2 = r2
    r3 = r3
    r4 = r4
    Replica = {r1, r2}
    Faulty = {}
    Leader = r1
    Cmd <- Five
    blk_size = 1
    MaxRequests = 1
    FaultyOrders <- NoneForged
PROPERTY
    TransitionOnExecution
CHECK_DEADLOCK FALSE
