SPECIFICATION FilesSpec
CONSTANTS
    Blocks = {b1, b2, b3, b4}
    DriverNames = {"null", "disk"}
    MaxOwned = 1
    MAX_FILES = 3
    WORD = 2
    Paths = {"/", "/mnt", "/mnt/long"}
    Cut <- MCCut
    Inodes = {0, 3}
    Offsets <- MCOffsets
    MaxMounts = 1
INVARIANT HeapExact
PROPERTIES FailuresChangeNothing ImplementsRegistry
SYMMETRY MCSymmetry
