CONSTANTS
    Msgs = {m1}
    Receipts = {r1, r2}
    Stats = {"DELIVRD", "PENDING"}
    Sweeps = {s1, s2}
    NoMsg = NoMsg
    Destination <- SameDestination
    Addressings = {TRUE}
    ClientModes = {"on_submit", "on_dlr", "force_dlr", "force_dlr_timeout"}
    SupplierModes = {"on_submit", "on_dlr", "force_dlr", "force_dlr_timeout"}
    ClientRate = 3
    SupplierRate = 1
    SweepLimit = 1
    MaxBacklog = 0
    MaxRestarts = 0
    MaxFaults = 1
SPECIFICATION Spec
SYMMETRY HandlerSymmetry
CHECK_DEADLOCK FALSE
INVARIANTS SubmitChargedOnce MarginIsolation ProfitConsistent BilledRowPriced SweptOnce
