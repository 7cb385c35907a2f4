CONSTANTS
    Guarantors = {g1, g2}
    Contracts = {c1, c2, c3}
    VaultAddr = vault
    Settlements = {settle1, vault}
    FirstSettlement = settle1
    MayFreeze = {settle1}
    None = none
    Amounts <- SmallAmounts
    Fees = {0, 1}
    Supply = 3
SPECIFICATION CallbackSpec
INVARIANTS
    SaveAssertionsHold
    VaultSolvent
    NothingLockedBeforeTheLedger
    LockedDuringOneCall
PROPERTY
    CollateralLeavesTwoWays
