SPECIFICATION Spec
CONSTANTS
    q1 = q1  q2 = q2  q3 = q3
    Requests = {q1, q2, q3}
    Kinds = {"rateLimited", "capacityExhausted"}
    N = 2
    BurstWindow = 1
    BurstLimit = 2
    BurstCooldown = 1
    FailureDecay = 2
    RemoteCooldown = 1
    TransportCooldown = 1
    TimeoutUnit = 1
    TimeoutShift = 1
    RateUnit = 1
    RateShift = 1
    ExhaustedCooldown = 9
    MaxCooldown = 3
    MaxInFlight = 2
    MaxTime = 2
SYMMETRY RequestSymmetry
INVARIANTS TypeOK NeverEmptyHanded DisabledStaysOut CooldownRespected CooldownBounded
CHECK_DEADLOCK FALSE
