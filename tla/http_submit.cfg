SPECIFICATION FairSpec
CONSTANTS
    r1 = r1
    r2 = r2
    text1 = text1
    p1 = p1
    p2 = p2
    NoRequest = NoRequest
    Requests = {r1, r2}
    Keys = {text1}
    TheKey = text1
    KeyOf <- OneContent
    Passes = {p1, p2}
    Routes = {"smpp", "custom", "business", "voice"}
    ClientModes = {"on_submit", "on_dlr"}
    SupplierModes = {"on_submit", "force_dlr", "force_dlr_timeout"}
    Loads <- RepeatsOrPolls
    MaxWindows = 1
    MaxFaults = 1
INVARIANTS MarkerJustified RepeatRefused CountedOnce PricedForOutcome
PROPERTIES StatusStands PollResolves
CHECK_DEADLOCK FALSE
