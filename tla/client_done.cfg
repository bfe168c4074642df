SPECIFICATION ClientFairSpec
CONSTANTS
    Replica = {r1, r2, r3, r4}
    Faulty = {r4}
    max_async_num = 2
    max_iter_num = 3
    fairness_parameter_percent = 100
INVARIANTS
    FinishedIsExecuted
    WindowIsFull
PROPERTIES
    ExecutedIsFinished
CHECK_DEADLOCK FALSE
