SPECIFICATION PartySpec
CONSTANTS
    Sessions = {1, 2, 3}
    NoSession = 0
    Calls = {c1, c2}
    c1 = c1
    c2 = c2
    Modes = {"trx", "dual"}
    MaxAdmin <- OncePerTrx
    MaxFaults <- OncePerTrx
    PartySessions = {1, 2}
    Kinds = {"client", "server"}
INVARIANTS Pursued TrackedAlive
PROPERTIES NoFalseUnbind Retried ColumnHeals
CHECK_DEADLOCK FALSE
