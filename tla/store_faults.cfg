CONSTANTS
    Dlrs = {d1, d2}
    Cap = 4
    DateOf <- MixedDates
    MaxRestarts = 1
    MaxFaults = 1
    MaxRefused = 1
    MaxOld = 1
SPECIFICATION StoreFairSpec
CHECK_DEADLOCK FALSE
INVARIANTS StoredIsQueued QueuedIsStored
PROPERTY Expires
