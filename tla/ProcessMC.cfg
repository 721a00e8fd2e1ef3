SPECIFICATION FairSpec
CONSTANTS
    MAX_PROCESSES = 3
    MaxPid = 4
INVARIANTS QueueExact SingleRunning PidsUnique
PROPERTIES CallsReturn ImplementsRunQueue
