SPECIFICATION TimerFairSpec
CONSTANTS
    WORD = 32
    BASE = 60
    PIT = 16
    SECOND = 20
    DEFAULT = 5
    Freqs = {0, 7, 10}
    Delays = {0, 1, 3, 7, 20}
PROPERTIES DelayExact DelayEnds
