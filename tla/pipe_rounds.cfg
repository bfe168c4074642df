SPECIFICATION RoundsSpec
CONSTANTS
    r1 = r1
    r2 = r2
    r3 = r3
    r4 = r4
    Replica = {r1, r2, r3, r4}
    Faulty = {r4}
    Leader = r1
    Cmd <- Four
    blk_size = 1
    MaxRequests = 1
    FaultyOrders <- ForgedFour
SYMMETRY Symmetry
INVARIANTS
    RoundsKeepUp
    OrderedByMajorityIsChosen
CHECK_DEADLOCK FALSE
