SPECIFICATION Spec
CONSTANTS
    k1 = k1  k2 = k2  NoKey = NoKey  NoTx = NoTx
    i1 = i1  i2 = i2  r1 = r1  r2 = r2  r3 = r3
    pay1 = pay1  pay2 = pay2  pay3 = pay3  usdt = usdt  lower = lower
    Keys = {k1, k2}
    Networks = {"BSC", "EVM"}
    Tokens = {usdt, lower}
    Payloads = {pay1, pay2, pay3}
    StoreKind = "memory"
    MaxNonce = 4
    MaxDay = 1
    OpenLimit = 2
    Instances = {i1}
    Requests = {r1, r2, r3}
    Candidates = 1
    Overlap = TRUE
    ContractOf <- Spellings
    AllowedNetworks = {"BSC", "EVM"}
    AllowedContracts = {usdt}
    MaxTransferAmount = 1
    DailyLimit = 0
    LockThreshold = 0
    RawScale = 10
    MaxLag = 1
    MaxFaults = 2
    MaxCancels = 0
    MaxCrashes = 0
    Req <- SettlementAndKeyless
INVARIANTS NonceUnique OutflowCounted SingleSend SameAnswer
CHECK_DEADLOCK FALSE
