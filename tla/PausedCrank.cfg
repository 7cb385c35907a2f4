CONSTANTS
    p1 = p1
    v1 = v1
    o1 = o1
    Agents <- FirstAgents
    Contracts <- BothContracts
    Guarantors = {g1}
    Beneficiaries = {b1}
    LedgerAddr = ledger
    EngineAddr = engine
    VaultAddr = vault
    Settlements = {settle1}
    FirstSettlement = settle1
    MayFreeze = {}
    None = none
    Amounts = {0, 1, 2, 3}
    Fees = {0}
    Supply = 4
    BaseLtvBps = 15000
    MinLtvBps = 11000
    SafetyBufferBps = 500
    GracePeriod = 1
    MaxInstallments = 2
    MinInterval = 1
    MaxInterval = 2
    MaxTenor = 3
    Scores = {0}
    Principals = {2}
    InstallmentCounts = {0, 1, 2, 3}
    Intervals = {0, 1, 2, 3}
    MaxI128 = 2000000000
    MaxU64 = 2000000000
    MaxLoans = 1
    MaxTime = 5
SPECIFICATION LifecycleSpec
INVARIANTS
    CrankFixedByLoanState
