CONSTANTS
    Dlrs = {d1}
    Sessions = {s1, s2}
    User = User
    NoSession = NoSession
    Keys = {User}
    KeyOf <- OneKey
    Receivers = {s1}
    RowOf <- SmppRows
    DateOf <- EpochDates
    Cap = 4
    MaxOld = 0
    MaxRestarts = 1
    MaxFaults = 1
    MaxRefused = 1
SPECIFICATION Spec
CONSTRAINT OneTrouble
CHECK_DEADLOCK FALSE
VIEW LiveView
INVARIANTS LatestBindTracked NothingVanishes
PROPERTY RecoveryReaches
