CONSTANTS
    Governed = {vault, ledger}
    VaultAddr = vault
    Addresses = {deployer, council, typo}
    Holders = {deployer, council}
    FirstAdmin = deployer
    Codes = {wasm1, wasm2, unknown}
    Uploaded = {wasm1, wasm2}
    FirstCode = wasm1
    Settlements = {settle1, settle2}
    FirstSettlement = settle1
    TimelockSecs = 2
    MaxU64 = 5
    MaxTime = 4
    None = none
SPECIFICATION WatchedSpec
INVARIANTS
    GovernanceTypeOK
    NeverLockedOut
    ProposalIsTheAdmins
PROPERTIES
    EveryChangeWasSeenComing
