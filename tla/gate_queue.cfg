CONSTANTS
    Msgs = {m1, m2, m3}
    Entry <- AndroidEntries
    Flushes = {f1, f2}
    Receipts = {}
    Stats = {"DELIVRD"}
    ClientModes = {"on_submit"}
    SupplierModes = {"on_submit"}
    MaxQueue = 2
    MaxRestarts = 0
    MaxFaults = 0
    NoMsg = NoMsg
SPECIFICATION FairSpec
CHECK_DEADLOCK FALSE
PROPERTY OfflineExpires
INVARIANTS HeldOnce QueuedChargedOnce
