CONSTANTS
    Msgs = {m1, m2}
    Results = {r1, r2}
    MaxQueue = 1
    MaxAttempts = 2
    MaxRestarts = 1
    NoMsg = NoMsg
SPECIFICATION FairSpec
CHECK_DEADLOCK FALSE
INVARIANTS ClaimedOnce TriesEnd ToldOnce
PROPERTIES FinalRowStands ClaimExpires
