SPECIFICATION GuardedSpec
CONSTANTS
    hot = hot  good = good  bad = bad  sel1 = sel1  sel2 = sel2
    Instances = {i1}
    Operators = {op1}
    Mode = "paper"
    Cooldown = 1
    Protected = {hot}
    Trusted = {good}
    Selectors = {sel1}
    SetCodeTxs <- OnlyUnknown
    Delegates = {good, bad}
    Codes = {c1}
    NoCode = NoCode
    MaxTime = 2
    MaxFaults = 0
    MaxCrashes = 0
INVARIANTS IncidentLocks
CHECK_DEADLOCK FALSE
