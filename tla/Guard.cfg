SPECIFICATION GuardedFairSpec
CONSTANTS
    hot = hot  good = good  bad = bad  sel1 = sel1  sel2 = sel2
    Instances = {i1}
    Operators = {op1}
    Mode = "paper"
    Cooldown = 2
    Protected = {hot}
    Trusted = {good}
    Selectors = {sel1}
    SetCodeTxs <- HarmlessAndUnknown
    Delegates = {good, bad}
    Codes = {c1, c2}
    NoCode = NoCode
    MaxTime = 2
    MaxFaults = 1
    MaxCrashes = 1
INVARIANTS GuardedTypeOK FailClosed
PROPERTIES NoneBeginsAfterAlarm OnlyBeforeBoot ThreatLocks
CHECK_DEADLOCK FALSE
