CONSTANTS
    p1 = p1
    v1 = v1
    o1 = p1
    Agents <- FirstAgents
    Contracts <- BothContracts
    Guarantors = {g1}
    Beneficiaries = {b1}
    LedgerAddr = ledger
    EngineAddr = engine
    VaultAddr = vault
    Settlements = {settle1}
    FirstSettlement = settle1
    MayFreeze = {}
    None = none
    Amounts = {1, 2}
    Fees = {0}
    Supply = 2
    BaseLtvBps = 10000
    MinLtvBps = 10000
    SafetyBufferBps = 500
    GracePeriod = 1
    MaxInstallments = 2
    MinInterval = 1
    MaxInterval = 2
    MaxTenor = 2
    Scores = {0}
    Principals = {2}
    InstallmentCounts = {1, 2}
    Intervals = {1, 2}
    MaxI128 = 2000000000
    MaxU64 = 2000000000
    MaxLoans = 1
    MaxTime = 5
    Threshold = 1
    ExtendTo = 2
    MinLifetime = 2
    LastOrigination = 0
SPECIFICATION StorageSpec
INVARIANTS
    UsedEntriesStayLive
    EveryLoanEndsInTime
PROPERTIES
    LoansCloseDespiteArchival
