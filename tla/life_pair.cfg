CONSTANTS
    Msgs = {m1, m2}
    Receipts = {r1, r2}
    Stats = {"DELIVRD", "UNDELIV", "ACCEPTD"}
    Sweeps = {}
    NoMsg = NoMsg
    Destination <- OwnDestination
    Addressings = {TRUE, FALSE}
    ClientModes = {"on_dlr"}
    SupplierModes = {"on_submit", "on_dlr"}
    ClientRate = 3
    SupplierRate = 1
    SweepLimit = 1
    MaxBacklog = 0
    MaxRestarts = 1
    MaxFaults = 0
SPECIFICATION Spec
CHECK_DEADLOCK FALSE
SYMMETRY PairSymmetry
INVARIANTS DlrChargedOnce NoChargeWithoutDelivery
