SPECIFICATION KernelSpec
CONSTANTS
    MAX_PROCESSES = 3
    MaxPid = 3
PROPERTY ExitNeverReturns
