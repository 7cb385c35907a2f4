CONSTANTS
    p1 = p1
    v1 = v1
    o1 = o1
    Agents <- FirstAgents
    Contracts <- BothContracts
    Guarantors = {g1}
    Beneficiaries = {b1, b2}
    LedgerAddr = ledger
    EngineAddr = engine
    VaultAddr = vault
    Settlements = {settle1, settle2}
    FirstSettlement = settle1
    MayFreeze = {settle1}
    None = none
    Amounts = {1, 6}
    Fees = {0}
    Supply = 6
    BaseLtvBps = 15000
    MinLtvBps = 11000
    SafetyBufferBps = 500
    GracePeriod = 1
    MaxInstallments = 2
    MinInterval = 1
    MaxInterval = 2
    MaxTenor = 4
    Scores = {0}
    Principals = {2}
    InstallmentCounts = {1, 2}
    Intervals = {1}
    MaxI128 = 2000000000
    MaxU64 = 2000000000
    MaxLoans = 2
    MaxTime = 5
    Addresses = {council}
    Holders = {council}
    FirstAdmin = council
    Codes = {wasm1, unknown}
    Uploaded = {wasm1}
    FirstCode = wasm1
    TimelockSecs = 1
    Patience = 2
    LastOrigination = 0
SPECIFICATION TimelySpec
INVARIANTS
    RecordedOnTime
PROPERTIES
    OverdueIsRecorded
    EveryLoanCloses
