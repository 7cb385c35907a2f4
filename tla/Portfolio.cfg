CONSTANTS
    p1 = p1
    v1 = v1
    o1 = o1
    Agents <- FirstAgents
    Contracts <- BothContracts
    Guarantors = {g1, g2}
    Beneficiaries = {b1, b2}
    LedgerAddr = ledger
    EngineAddr = engine
    VaultAddr = vault
    Settlements = {settle1}
    FirstSettlement = settle1
    MayFreeze = {}
    None = none
    Amounts = {1, 2, 4}
    Fees = {0}
    Supply = 4
    BaseLtvBps = 15000
    MinLtvBps = 11000
    SafetyBufferBps = 500
    GracePeriod = 1
    MaxInstallments = 2
    MinInterval = 1
    MaxInterval = 2
    MaxTenor = 3
    Scores = {0}
    Principals = {1, 2}
    InstallmentCounts = {1}
    Intervals = {1}
    MaxI128 = 2000000000
    MaxU64 = 2000000000
    MaxLoans = 2
    MaxTime = 4
SPECIFICATION LifecycleSpec
INVARIANTS
    LockedBacksLoans
    GuarantorLosesOwnDebtOnly
    OpenMarkerExact
PROPERTIES
    ImplementsEscrow
SYMMETRY Symmetry
