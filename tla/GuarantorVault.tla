--------------------------- MODULE GuarantorVault ---------------------------
(***************************************************************************)
(* contracts/guarantor_vault: custody of the guarantors' USDC.             *)
(*                                                                         *)
(* A Soroban invocation is atomic and the host refuses re-entry, so each   *)
(* entry point is one action; a call that panics changes nothing and is    *)
(* the action's guard.  `x.require_auth()` makes x a parameter: only x can *)
(* take the step.  The admin always exists and entry points for the admin  *)
(* carry no caller.  The asserts in `save` are not guards here: they are   *)
(* the invariant SaveAssertionsHold, shown never to fire.                  *)
(***************************************************************************)
EXTENDS Integers, FiniteSets, FiniteSetsExt

CONSTANTS
    Guarantors,   \* addresses that deposit collateral
    Contracts,    \* addresses that may be registered as ledger or engine
    VaultAddr,    \* current_contract_address() of the vault
    Settlements,  \* addresses forfeited collateral may be sent to
    FirstSettlement, \* the one the constructor is given
    None,         \* an instance-storage key that is not set
    Amounts,      \* i128 arguments of the entry points, negative ones too
    Fees,         \* what the token may keep of a transfer; {0} for USDC
    Supply,       \* USDC each guarantor starts with: the bound on deposits
    MayFreeze     \* accounts whose standing with the token may change

ASSUME AddressAssumption ==
    /\ IsFiniteSet(Guarantors) /\ VaultAddr \notin Guarantors
    /\ None \notin Contracts
    /\ FirstSettlement \in Settlements
ASSUME AmountAssumption ==
    /\ Amounts \subseteq Int
    /\ Fees \subseteq Nat
    /\ Supply \in Nat

VARIABLES
    vaults,          \* DataKey::Vault(g); an absent entry reads as zeros
    usdc,            \* token balances of all accounts
    settlement,      \* DataKey::SettlementAddress
    frozen,          \* accounts without a trustline or deauthorized
    vaultLoanLedger, \* DataKey::LoanLedger
    vaultEngine      \* DataKey::LiquidationEngine

custody == <<vaults, usdc>>
vaultWiring == <<vaultLoanLedger, vaultEngine, settlement, frozen>>
vaultVars == <<vaults, usdc, vaultLoanLedger, vaultEngine, settlement, frozen>>

Accounts == Guarantors \cup {VaultAddr} \cup Settlements
Vault == [collateral_balance : Int, locked_amount : Int]
EmptyVault == [collateral_balance |-> 0, locked_amount |-> 0]

VaultInit ==
    /\ vaults = [g \in Guarantors |-> EmptyVault]
    /\ usdc = [a \in Accounts |-> IF a \in Guarantors THEN Supply ELSE 0]
    /\ vaultLoanLedger = None
    /\ vaultEngine = None
    /\ settlement = FirstSettlement
    /\ frozen = {}

-----------------------------------------------------------------------------
\* The token.

\* The token refuses a transfer it cannot debit or cannot credit.
CanTransfer(from, to, amount, fee) ==
    /\ amount \in 0 .. usdc[from] /\ fee <= amount
    /\ from \notin frozen /\ to \notin frozen

\* The token balances after a transfer that loses `fee` on the way.
Transfer(from, to, amount, fee) ==
    LET paid == [usdc EXCEPT ![from] = @ - amount]
    IN  [paid EXCEPT ![to] = @ + amount - fee]

\* An account drops its trustline or is deauthorized, and comes back.
Freeze(a) == frozen' = frozen \cup {a}
Thaw(a)   == frozen' = frozen \ {a}

-----------------------------------------------------------------------------
\* A vault record before and after each kind of movement.

Available(v) == v.collateral_balance - v.locked_amount

CanWithdraw(v, amount) == amount > 0 /\ amount <= Available(v)

\* Mutant: collateral already locked counts again.
CanLockTwice(v, amount) == amount > 0 /\ amount <= v.collateral_balance

CanLock(v, amount)     == amount > 0 /\ amount <= Available(v)
CanRelease(v, amount)  == amount > 0 /\ amount <= v.locked_amount
CanForfeit(v, amount)  == amount > 0 /\ amount <= v.locked_amount

AfterLock(v, amount)    == [v EXCEPT !.locked_amount = @ + amount]
AfterRelease(v, amount) == [v EXCEPT !.locked_amount = @ - amount]

\* Mutant: the lock outlives the collateral.
AfterForfeitStillLocked(v, amount) == [v EXCEPT !.collateral_balance = @ - amount]

AfterForfeit(v, amount) ==
    [collateral_balance |-> v.collateral_balance - amount,
     locked_amount |-> v.locked_amount - amount]

IsLedger(caller) == vaultLoanLedger # None /\ caller = vaultLoanLedger
IsEngine(caller) == vaultEngine # None /\ caller = vaultEngine
IsLedgerOrEngine(caller) == IsLedger(caller) \/ IsEngine(caller)

-----------------------------------------------------------------------------
\* Wiring, by the admin, once.

SetLoanLedger(ledger) ==
    /\ vaultLoanLedger = None
    /\ vaultLoanLedger' = ledger
    /\ UNCHANGED <<custody, vaultEngine, settlement, frozen>>

SetVaultEngine(engine) ==
    /\ vaultEngine = None
    /\ vaultEngine' = engine
    /\ UNCHANGED <<custody, vaultLoanLedger, settlement, frozen>>

\* What execute_action does for SetSettlement; Governance says when it may.
SetSettlement(a) ==
    /\ settlement' = a
    /\ UNCHANGED <<custody, vaultLoanLedger, vaultEngine, frozen>>

TokenStanding(a) ==
    /\ Freeze(a) \/ Thaw(a)
    /\ UNCHANGED <<custody, vaultLoanLedger, vaultEngine, settlement>>

-----------------------------------------------------------------------------
\* Guarantor operations.

\* The transfer is checked by the vault's balance before and after it.
Deposit(guarantor, amount, fee) ==
    /\ amount > 0
    /\ CanTransfer(guarantor, VaultAddr, amount, fee)
    /\ usdc' = Transfer(guarantor, VaultAddr, amount, fee)
    /\ usdc'[VaultAddr] - usdc[VaultAddr] = amount
    /\ vaults' = [vaults EXCEPT ![guarantor].collateral_balance = @ + amount]
    /\ UNCHANGED vaultWiring

Withdraw(guarantor, amount, fee) ==
    /\ CanWithdraw(vaults[guarantor], amount)
    /\ CanTransfer(VaultAddr, guarantor, amount, fee)
    /\ vaults' = [vaults EXCEPT ![guarantor].collateral_balance = @ - amount]
    /\ usdc' = Transfer(VaultAddr, guarantor, amount, fee)
    /\ UNCHANGED vaultWiring

-----------------------------------------------------------------------------
\* Protocol operations.

\* Mutant: the engine may lock too.
LockByEither(caller, guarantor, amount) ==
    /\ IsLedgerOrEngine(caller)
    /\ CanLock(vaults[guarantor], amount)
    /\ vaults' = [vaults EXCEPT ![guarantor] = AfterLock(@, amount)]
    /\ UNCHANGED <<usdc, vaultWiring>>

LockCollateral(caller, guarantor, amount) ==
    /\ IsLedger(caller)
    /\ CanLock(vaults[guarantor], amount)
    /\ vaults' = [vaults EXCEPT ![guarantor] = AfterLock(@, amount)]
    /\ UNCHANGED <<usdc, vaultWiring>>

ReleaseCollateral(caller, guarantor, amount) ==
    /\ IsLedgerOrEngine(caller)
    /\ CanRelease(vaults[guarantor], amount)
    /\ vaults' = [vaults EXCEPT ![guarantor] = AfterRelease(@, amount)]
    /\ UNCHANGED <<usdc, vaultWiring>>

ForfeitCollateral(caller, guarantor, amount, fee) ==
    /\ IsEngine(caller)
    /\ CanForfeit(vaults[guarantor], amount)
    /\ CanTransfer(VaultAddr, settlement, amount, fee)
    /\ vaults' = [vaults EXCEPT ![guarantor] = AfterForfeit(@, amount)]
    /\ usdc' = Transfer(VaultAddr, settlement, amount, fee)
    /\ UNCHANGED vaultWiring

\* Anyone may send USDC to the vault's address without calling the vault.
TransferToVault(guarantor, amount, fee) ==
    /\ CanTransfer(guarantor, VaultAddr, amount, fee)
    /\ usdc' = Transfer(guarantor, VaultAddr, amount, fee)
    /\ UNCHANGED <<vaults, vaultWiring>>

-----------------------------------------------------------------------------
\* The vault on its own, called by arbitrary contracts.

VaultNext ==
    \/ \E c \in Contracts : SetLoanLedger(c) \/ SetVaultEngine(c)
    \/ \E g \in Guarantors, amount \in Amounts, fee \in Fees :
          \/ Deposit(g, amount, fee)
          \/ Withdraw(g, amount, fee)
          \/ TransferToVault(g, amount, fee)
          \/ \E c \in Contracts : ForfeitCollateral(c, g, amount, fee)
    \/ \E g \in Guarantors, amount \in Amounts, c \in Contracts :
          LockCollateral(c, g, amount) \/ ReleaseCollateral(c, g, amount)
    \/ \E a \in Settlements : SetSettlement(a)
    \/ \E a \in MayFreeze : TokenStanding(a)

VaultSpec == VaultInit /\ [][VaultNext]_vaultVars

-----------------------------------------------------------------------------
\* What the vault promises whatever contracts are wired to it.

\* Every variable of the vault has the type of its storage entry.
VaultTypeOK ==
    /\ vaults \in [Guarantors -> Vault]
    /\ usdc \in [Accounts -> Nat]
    /\ vaultLoanLedger \in Contracts \cup {None}
    /\ vaultEngine \in Contracts \cup {None}
    /\ settlement \in Settlements
    /\ frozen \subseteq MayFreeze

\* The three asserts of `save` (lib.rs 501-515) can never fire: whatever the
\* ledger and the engine ask for, and in whatever order, no vault record has
\* more locked than it holds, nor a negative amount.
SaveAssertionsHold ==
    \A g \in Guarantors :
        /\ vaults[g].locked_amount >= 0
        /\ vaults[g].collateral_balance >= vaults[g].locked_amount

\* All the collateral that the vault's records say it holds.
RecordedIn(records) ==
    SumFunction([g \in Guarantors |-> records[g].collateral_balance])

\* The vault's token balance covers every guarantor's recorded collateral, so
\* each withdrawal and forfeiture can be paid even if all are asked at once.
VaultSolvent == RecordedIn(vaults) <= usdc[VaultAddr]

\* Collateral is only ever locked through the registered ledger: before one
\* is registered nothing is locked, the engine registered or not.
NothingLockedBeforeTheLedger ==
    vaultLoanLedger = None =>
        \A g \in Guarantors : vaults[g].locked_amount = 0

\* Never pooled: whatever a step does to one guarantor's record, a deposit, a
\* lock and a rollback included, it leaves every other record as it is.  And a
\* record's collateral falls only by one transfer of that amount out of the
\* vault: from the unlocked part to that guarantor, or from the locked part to
\* the address registered for settlement at that moment.
CollateralLeavesTwoWays ==
    [][\A g \in Guarantors :
         LET drop == vaults[g].collateral_balance - vaults'[g].collateral_balance
             unlocked == vaults[g].locked_amount - vaults'[g].locked_amount
         IN  /\ vaults'[g] # vaults[g] =>
                  \A h \in Guarantors \ {g} : vaults'[h] = vaults[h]
             /\ drop > 0 =>
                  \E fee \in Fees :
                     \/ unlocked = 0 /\ usdc' = Transfer(VaultAddr, g, drop, fee)
                     \/ /\ unlocked = drop
                        /\ usdc' = Transfer(VaultAddr, settlement, drop, fee)]_vaultVars

=============================================================================
