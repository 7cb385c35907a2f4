CONSTANTS
    p1 = p1
    v1 = v1
    o1 = o1
    Agents <- FirstAgents
    Contracts <- BothContracts
    Guarantors = {g1}
    Beneficiaries = {b1}
    LedgerAddr = ledger
    EngineAddr = engine
    VaultAddr = vault
    Settlements = {settle1}
    FirstSettlement = settle1
    MayFreeze = {}
    None = none
    Amounts = {1, 4, 5, 9, 29, 45}
    Fees = {0}
    Supply = 45
    BaseLtvBps = 15000
    MinLtvBps = 11000
    SafetyBufferBps = 2000
    GracePeriod = 1
    MaxInstallments = 5
    MinInterval = 1
    MaxInterval = 2
    MaxTenor = 3
    Scores = {0, 3333, 10000, 20000}
    Principals = {7, 12, 30}
    InstallmentCounts = {1, 4}
    Intervals = {1}
    MaxI128 = 2000000
    MaxU64 = 2000000000
    MaxLoans = 1
    MaxTime = 0
SPECIFICATION RepaymentSpec
INVARIANTS
    OutstandingCovered
    ReleaseFollowsTheCurve
    LtvWithinBand
    AlwaysRepayableInFull
