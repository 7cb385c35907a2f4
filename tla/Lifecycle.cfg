CONSTANTS
    p1 = p1
    v1 = v1
    o1 = o1
    Agents <- FirstAgents
    Contracts <- BothContracts
    Guarantors = {g1}
    Beneficiaries = {b1, b2}
    LedgerAddr = ledger
    EngineAddr = engine
    VaultAddr = vault
    Settlements = {settle1}
    FirstSettlement = settle1
    MayFreeze = {g1}
    None = none
    Amounts = {0, 1, 4}
    Fees = {0}
    Supply = 4
    BaseLtvBps = 8000
    MinLtvBps = 5000
    SafetyBufferBps = 500
    GracePeriod = 2
    MaxInstallments = 3
    MinInterval = 1
    MaxInterval = 2
    MaxTenor = 3
    Scores = {0}
    Principals = {0, 3}
    InstallmentCounts = {0, 1, 3, 4}
    Intervals = {0, 1, 2, 3}
    MaxI128 = 2000000000
    MaxU64 = 2000000000
    MaxLoans = 2
    MaxTime = 6
SPECIFICATION LifecycleSpec
INVARIANTS
    ScheduleAnchored
    GraceMeansBehind
    LiquidationNeverStuck
PROPERTIES
    GraceIsOneFullPeriod
SYMMETRY Symmetry
