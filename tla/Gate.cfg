SPECIFICATION Spec
CONSTANTS
    i1 = i1  i2 = i2  d1 = d1  d2 = d2  d3 = d3  n1 = n1  c1 = c1
    NoNonce = NoNonce  Shared = Shared
    Instances = {i1, i2}
    Deliveries = {d1, d2, d3}
    Nonces = {n1}
    Clients = {c1}
    Skew = 1
    RateLimit = 1
    RateWindow = 10
    MaxDrift = 1
    MaxDelay = 2
    MaxTime = 9
    MaxFaults = 1
    MaxCrashes = 1
    Msg <- Arrivals
    Host <- Hosts
    Offset <- Ahead
    Configs <- Deployments
INVARIANTS TypeOK AdmittedOnce AdmittedAuthentic RateBound
CHECK_DEADLOCK FALSE
