SPECIFICATION Spec
CONSTANTS
    Procs = {2, 3, 4}
    NEW_SLICE = 1
    SLICE = 2
    PRIO_SLICE = 1
    Prios = {0, 3}
INVARIANT TakenLeavesQueue
