CONSTANTS
    Msgs = {m1, m2}
    Entry <- MixedEntries
    Flushes = {f1, f2}
    Receipts = {r1}
    Stats = {"DELIVRD", "UNDELIV"}
    ClientModes = {"on_submit", "on_dlr"}
    SupplierModes = {"on_dlr"}
    MaxQueue = 1
    MaxRestarts = 1
    MaxFaults = 1
    NoMsg = NoMsg
SPECIFICATION Spec
CHECK_DEADLOCK FALSE
SYMMETRY FlushSymmetry
INVARIANTS PaidOnDelivery
