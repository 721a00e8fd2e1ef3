SPECIFICATION Spec
CONSTANTS
    Lines = {0, 1, 8}
    Exceptions = {0, 14}
    Words = {0, 32, 33, 40, 128, 300}
INVARIANT HandlerFound
CHECK_DEADLOCK FALSE
