SPECIFICATION HGSpec
CONSTANTS
    Command = {1, 2, 3, 4, 5, 6, 7}
    n_nodes = 4
    slack = 0
    max_number_cmds = 6
    Delta = {1, 2, 3}
    Rounds <- SmallRounds
INVARIANTS
    EachOnce
    SameOrderIsKept
    MostOrderIsKept
    DependenciesRespected
CHECK_DEADLOCK FALSE
