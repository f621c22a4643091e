SPECIFICATION Spec
CONSTANTS
    k1 = k1  k2 = k2  NoKey = NoKey  NoTx = NoTx
    i1 = i1  i2 = i2  r1 = r1  r2 = r2  r3 = r3
    pay1 = pay1  pay2 = pay2  pay3 = pay3  usdt = usdt  lower = lower
    Keys = {k1, k2}
    Networks = {"BSC"}
    Tokens = {usdt, lower}
    Payloads = {pay1, pay2, pay3}
    StoreKind = "postgres"
    MaxNonce = 4
    MaxDay = 0
    OpenLimit = 2
    Instances = {i1}
    Requests = {r1, r2}
    Candidates = 2
    Overlap = TRUE
    ContractOf <- Spellings
    AllowedNetworks = {"BSC", "EVM"}
    AllowedContracts = {usdt}
    MaxTransferAmount = 1
    DailyLimit = 1
    LockThreshold = 0
    RawScale = 10
    MaxLag = 1
    MaxFaults = 0
    MaxCancels = 0
    MaxCrashes = 0
    Req <- TwoOrders
INVARIANTS OutflowWithinLimit
