CONSTANTS
    Dlrs = {d1, d2, d3}
    Cap = 2
    DateOf <- EpochDates
    MaxRestarts = 1
    MaxFaults = 0
    MaxRefused = 1
    MaxOld = 0
SPECIFICATION StoreSpec
CHECK_DEADLOCK FALSE
SYMMETRY DlrSymmetry
INVARIANT SentInOrder
PROPERTY IsMailbox
