CONSTANTS
    ledger = ledger
    engine = engine
    Governed <- ThreeContracts
    Order <- DocumentedOrder
    VaultAddr = vault
    Addresses = {deployer, council, typo}
    Holders = {deployer, council}
    FirstAdmin = deployer
    Multisig = council
    Codes = {wasm1}
    Uploaded = {wasm1}
    FirstCode = wasm1
    Settlements = {settle1}
    FirstSettlement = settle1
    TimelockSecs = 2
    MaxU64 = 5
    MaxFailures = 6
    None = none
SPECIFICATION HandoverSpec
INVARIANTS
    NothingLeftOut
PROPERTIES
    HandoverCompletes
CHECK_DEADLOCK FALSE
