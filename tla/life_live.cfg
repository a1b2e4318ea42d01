CONSTANTS
    Msgs = {m1}
    Receipts = {r1}
    Stats = {"DELIVRD", "PENDING"}
    Sweeps = {s1, s2}
    NoMsg = NoMsg
    Destination <- SameDestination
    Addressings = {TRUE}
    ClientModes = {"on_dlr"}
    SupplierModes = {"on_dlr", "force_dlr_timeout"}
    ClientRate = 3
    SupplierRate = 1
    SweepLimit = 1
    MaxBacklog = 1
    MaxRestarts = 1
    MaxFaults = 1
SPECIFICATION FairSpec
CHECK_DEADLOCK FALSE
PROPERTIES StaleResolved
