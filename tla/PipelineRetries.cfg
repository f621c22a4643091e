SPECIFICATION FairSpec
CONSTANTS
    k1 = k1  k2 = k2  NoKey = NoKey  NoTx = NoTx
    i1 = i1  i2 = i2  r1 = r1  r2 = r2  r3 = r3
    pay1 = pay1  pay2 = pay2  pay3 = pay3  usdt = usdt  lower = lower
    Keys = {k1}
    Networks = {"BSC"}
    Tokens = {usdt, lower}
    Payloads = {pay1, pay2, pay3}
    StoreKind = "postgres"
    MaxNonce = 2
    MaxDay = 0
    OpenLimit = 1
    Instances = {i1}
    Requests = {r1, r2, r3}
    Candidates = 1
    Overlap = FALSE
    ContractOf <- Spellings
    AllowedNetworks = {"BSC", "EVM"}
    AllowedContracts = {usdt}
    MaxTransferAmount = 1
    DailyLimit = 1
    LockThreshold = 2
    RawScale = 10
    MaxLag = 0
    MaxFaults = 1
    MaxCancels = 0
    MaxCrashes = 1
    Req <- RetryAndAnother
INVARIANTS SameAnswer
PROPERTIES SentAtMostOnce EveryRequestEnds LockFreed ExecutionReported
CHECK_DEADLOCK FALSE
