------------------------ MODULE GuarantorVaultProofs ------------------------
(***************************************************************************)
(* The vault's promises for every set of guarantors, contracts, amounts    *)
(* and token fees.  Each operation's effect on VaultInv is a lemma of its  *)
(* own: RemitProofs cites them for the composed system.                    *)
(***************************************************************************)
EXTENDS GuarantorVault, ArithmeticProofs, TLAPS

\* The inductive invariant: the vault's types and the asserts of `save`, and
\* that nothing is locked before there is a ledger to lock it.
VaultInv == VaultTypeOK /\ SaveAssertionsHold /\ NothingLockedBeforeTheLedger

\* A freshly constructed vault has consistent books.
LEMMA VaultInitInv == VaultInit => VaultInv
BY AmountAssumption, AddressAssumption
   DEF VaultInit, VaultInv, VaultTypeOK, SaveAssertionsHold,
       NothingLockedBeforeTheLedger, Vault, EmptyVault, Accounts

\* A transfer that can be made leaves every balance a natural.
LEMMA TransferType ==
    ASSUME usdc \in [Accounts -> Nat], NEW from \in Accounts, NEW to \in Accounts,
           NEW amount \in Int, NEW fee \in Nat, CanTransfer(from, to, amount, fee)
    PROVE  Transfer(from, to, amount, fee) \in [Accounts -> Nat]
<1> DEFINE paid == [usdc EXCEPT ![from] = @ - amount]
<1>1. amount \in Nat /\ amount <= usdc[from] /\ fee <= amount
  BY DEF CanTransfer
<1>2. paid \in [Accounts -> Nat]
  BY <1>1
<1>3. paid[to] + amount - fee \in Nat
  BY <1>1, <1>2
<1>4. Transfer(from, to, amount, fee)
        = [paid EXCEPT ![to] = paid[to] + amount - fee]
  BY DEF Transfer
<1> HIDE DEF paid
<1> QED
  BY <1>2, <1>3, <1>4

\* A deposit credits what arrived, so the books stay consistent.
LEMMA DepositInv ==
    ASSUME VaultInv, NEW g \in Guarantors, NEW amount \in Int, NEW fee \in Nat,
           Deposit(g, amount, fee)
    PROVE  VaultInv'
<1>1. usdc' \in [Accounts -> Nat]
  BY TransferType DEF Deposit, VaultInv, VaultTypeOK, Accounts
<1>2. vaults' \in [Guarantors -> Vault]
  BY DEF Deposit, VaultInv, VaultTypeOK, Vault
<1> QED
  BY <1>1, <1>2
     DEF Deposit, VaultInv, VaultTypeOK, SaveAssertionsHold,
         NothingLockedBeforeTheLedger, Vault, vaultWiring

\* A withdrawal takes no more than is free, so locked stays within deposits.
LEMMA WithdrawInv ==
    ASSUME VaultInv, NEW g \in Guarantors, NEW amount \in Int, NEW fee \in Nat,
           Withdraw(g, amount, fee)
    PROVE  VaultInv'
<1>1. usdc' \in [Accounts -> Nat]
  BY TransferType DEF Withdraw, VaultInv, VaultTypeOK, Accounts
<1>2. vaults' \in [Guarantors -> Vault]
  BY DEF Withdraw, VaultInv, VaultTypeOK, Vault
<1> QED
  BY <1>1, <1>2
     DEF Withdraw, CanWithdraw, Available, VaultInv, VaultTypeOK,
         SaveAssertionsHold, NothingLockedBeforeTheLedger, Vault, vaultWiring

\* A lock takes no more than is free and only through a registered ledger.
LEMMA LockCollateralInv ==
    ASSUME VaultInv, NEW c, NEW g \in Guarantors, NEW amount \in Int,
           LockCollateral(c, g, amount)
    PROVE  VaultInv'
<1>1. vaults' \in [Guarantors -> Vault]
  BY DEF LockCollateral, AfterLock, VaultInv, VaultTypeOK, Vault
<1>2. vaultLoanLedger' # None
  BY DEF LockCollateral, IsLedger, vaultWiring
<1> QED
  BY <1>1, <1>2
     DEF LockCollateral, CanLock, AfterLock, Available, VaultInv, VaultTypeOK,
         SaveAssertionsHold, NothingLockedBeforeTheLedger, Vault, vaultWiring

\* A release unlocks no more than is locked.
LEMMA ReleaseCollateralInv ==
    ASSUME VaultInv, NEW c, NEW g \in Guarantors, NEW amount \in Int,
           ReleaseCollateral(c, g, amount)
    PROVE  VaultInv'
<1>1. vaults' \in [Guarantors -> Vault]
  BY DEF ReleaseCollateral, AfterRelease, VaultInv, VaultTypeOK, Vault
<1>2. vaultLoanLedger # None
  BY DEF ReleaseCollateral, CanRelease, VaultInv, NothingLockedBeforeTheLedger
<1> QED
  BY <1>1, <1>2
     DEF ReleaseCollateral, CanRelease, AfterRelease, VaultInv, VaultTypeOK,
         SaveAssertionsHold, NothingLockedBeforeTheLedger, Vault, vaultWiring

\* A forfeiture takes the same amount from locked and from deposits.
LEMMA ForfeitCollateralInv ==
    ASSUME VaultInv, NEW c, NEW g \in Guarantors, NEW amount \in Int,
           NEW fee \in Nat, ForfeitCollateral(c, g, amount, fee)
    PROVE  VaultInv'
<1>1. usdc' \in [Accounts -> Nat]
  BY TransferType DEF ForfeitCollateral, VaultInv, VaultTypeOK, Accounts
<1>2. vaults' \in [Guarantors -> Vault]
  BY DEF ForfeitCollateral, AfterForfeit, VaultInv, VaultTypeOK, Vault
<1>3. vaultLoanLedger # None
  BY DEF ForfeitCollateral, CanForfeit, VaultInv, NothingLockedBeforeTheLedger
<1> QED
  BY <1>1, <1>2, <1>3
     DEF ForfeitCollateral, CanForfeit, AfterForfeit, VaultInv, VaultTypeOK,
         SaveAssertionsHold, NothingLockedBeforeTheLedger, Vault, vaultWiring

\* Tokens sent to the vault directly do not touch its books.
LEMMA TransferToVaultInv ==
    ASSUME VaultInv, NEW g \in Guarantors, NEW amount \in Int, NEW fee \in Nat,
           TransferToVault(g, amount, fee)
    PROVE  VaultInv'
<1>1. usdc' \in [Accounts -> Nat]
  BY TransferType DEF TransferToVault, VaultInv, VaultTypeOK, Accounts
<1> QED
  BY <1>1
     DEF TransferToVault, VaultInv, VaultTypeOK, SaveAssertionsHold,
         NothingLockedBeforeTheLedger, vaultWiring

\* Registering the ledger or the engine does not touch the books.
LEMMA VaultWiringInv ==
    ASSUME VaultInv, NEW c \in Contracts, SetLoanLedger(c) \/ SetVaultEngine(c)
    PROVE  VaultInv'
BY AddressAssumption
   DEF SetLoanLedger, SetVaultEngine, VaultInv, VaultTypeOK, SaveAssertionsHold,
       NothingLockedBeforeTheLedger, custody

\* Changing the settlement address, or an account's standing with the token,
\* does not touch the books.
LEMMA ExternalInv ==
    ASSUME VaultInv,
           \/ \E a \in Settlements : SetSettlement(a)
           \/ \E a \in MayFreeze : TokenStanding(a)
    PROVE  VaultInv'
BY DEF SetSettlement, TokenStanding, Freeze, Thaw, VaultInv, VaultTypeOK,
       SaveAssertionsHold, NothingLockedBeforeTheLedger, custody

\* A step that changes nothing of the vault keeps its books consistent.
LEMMA VaultStutterInv ==
    ASSUME VaultInv, UNCHANGED vaultVars
    PROVE  VaultInv'
BY DEF vaultVars, VaultInv, VaultTypeOK, SaveAssertionsHold,
       NothingLockedBeforeTheLedger

\* No step of the vault breaks the consistency of its books.
LEMMA VaultNextInv == VaultInv /\ [VaultNext]_vaultVars => VaultInv'
<1> SUFFICES ASSUME VaultInv, [VaultNext]_vaultVars PROVE VaultInv'
  OBVIOUS
<1> USE AmountAssumption
<1>1. ASSUME NEW c \in Contracts, SetLoanLedger(c) \/ SetVaultEngine(c)
      PROVE  VaultInv'
  BY <1>1, VaultWiringInv
<1>2. ASSUME NEW g \in Guarantors, NEW amount \in Amounts, NEW fee \in Fees,
             Deposit(g, amount, fee)
      PROVE  VaultInv'
  BY <1>2, DepositInv
<1>3. ASSUME NEW g \in Guarantors, NEW amount \in Amounts, NEW fee \in Fees,
             Withdraw(g, amount, fee)
      PROVE  VaultInv'
  BY <1>3, WithdrawInv
<1>4. ASSUME NEW g \in Guarantors, NEW amount \in Amounts, NEW fee \in Fees,
             TransferToVault(g, amount, fee)
      PROVE  VaultInv'
  BY <1>4, TransferToVaultInv
<1>5. ASSUME NEW g \in Guarantors, NEW amount \in Amounts, NEW fee \in Fees,
             NEW c \in Contracts, ForfeitCollateral(c, g, amount, fee)
      PROVE  VaultInv'
  BY <1>5, ForfeitCollateralInv
<1>6. ASSUME NEW g \in Guarantors, NEW amount \in Amounts, NEW c \in Contracts,
             LockCollateral(c, g, amount)
      PROVE  VaultInv'
  BY <1>6, LockCollateralInv
<1>7. ASSUME NEW g \in Guarantors, NEW amount \in Amounts, NEW c \in Contracts,
             ReleaseCollateral(c, g, amount)
      PROVE  VaultInv'
  BY <1>7, ReleaseCollateralInv
<1>8. CASE \/ \E a \in Settlements : SetSettlement(a)
          \/ \E a \in MayFreeze : TokenStanding(a)
  BY <1>8, ExternalInv
<1>9. CASE UNCHANGED vaultVars
  BY <1>9, VaultStutterInv
<1> QED
  BY <1>1, <1>2, <1>3, <1>4, <1>5, <1>6, <1>7, <1>8, <1>9 DEF VaultNext

\* The books of the vault on its own are consistent in every reachable state.
LEMMA VaultInvariance == VaultSpec => []VaultInv
BY VaultInitInv, VaultNextInv, PTL DEF VaultSpec

\* Whatever the registered contracts ask of the vault, its entries keep their
\* types.
THEOREM VaultTypeCorrect == VaultSpec => []VaultTypeOK
<1>1. VaultInv => VaultTypeOK
  BY DEF VaultInv
<1> QED
  BY <1>1, VaultInvariance, PTL

\* The asserts of `save` never fire, whatever the registered ledger and engine
\* ask for and whatever fee the token keeps.
THEOREM SaveNeverAsserts == VaultSpec => []SaveAssertionsHold
<1>1. VaultInv => SaveAssertionsHold
  BY DEF VaultInv
<1> QED
  BY <1>1, VaultInvariance, PTL

\* Nothing is locked before a ledger is registered.
THEOREM LockingNeedsALedger == VaultSpec => []NothingLockedBeforeTheLedger
<1>1. VaultInv => NothingLockedBeforeTheLedger
  BY DEF VaultInv
<1> QED
  BY <1>1, VaultInvariance, PTL

-----------------------------------------------------------------------------
\* Solvency.

\* One record that changes changes the recorded collateral by as much.
LEMMA RecordedChanges ==
    ASSUME NEW records \in [Guarantors -> Vault],
           NEW g \in Guarantors, NEW v \in Vault
    PROVE  /\ RecordedIn(records) \in Int
           /\ RecordedIn([records EXCEPT ![g] = v])
                = RecordedIn(records) - records[g].collateral_balance
                                      + v.collateral_balance
<1> DEFINE f == [h \in Guarantors |-> records[h].collateral_balance]
           k == [h \in Guarantors |->
                   [records EXCEPT ![g] = v][h].collateral_balance]
<1>1. RecordedIn(records) = SumFunctionOnSet(f, Guarantors)
  BY DEF RecordedIn, SumFunction
<1>2. RecordedIn([records EXCEPT ![g] = v]) = SumFunctionOnSet(k, Guarantors)
  BY DEF RecordedIn, SumFunction
<1>3. /\ \A h \in Guarantors : f[h] \in Int
      /\ \A h \in Guarantors \ {g} : k[h] = f[h]
      /\ f[g] = records[g].collateral_balance
      /\ k[g] = v.collateral_balance /\ k[g] \in Int
  BY DEF Vault
<1> HIDE DEF f, k
<1>4. IsFiniteSet(Guarantors)
  BY AddressAssumption
<1>5. SumFunctionOnSet(f, Guarantors) \in Int
  BY <1>3, <1>4, SumType
<1>6. SumFunctionOnSet(k, Guarantors)
        = SumFunctionOnSet(f, Guarantors) - f[g] + k[g]
  BY <1>3, <1>4, SumChange
<1> QED
  BY <1>1, <1>2, <1>3, <1>5, <1>6

\* Whatever the token keeps, a transfer into the vault never lowers its tokens
\* and one out of it takes at most the amount.
LEMMA VaultTokens ==
    ASSUME usdc \in [Accounts -> Nat], NEW amount \in Int, NEW fee \in Nat
    PROVE  /\ \A g \in Guarantors :
                CanTransfer(g, VaultAddr, amount, fee) =>
                   Transfer(g, VaultAddr, amount, fee)[VaultAddr]
                      = usdc[VaultAddr] + amount - fee
           /\ \A a \in Accounts :
                CanTransfer(VaultAddr, a, amount, fee) =>
                   Transfer(VaultAddr, a, amount, fee)[VaultAddr]
                      >= usdc[VaultAddr] - amount
<1>1. VaultAddr \in Accounts /\ VaultAddr \notin Guarantors
  BY AddressAssumption DEF Accounts
<1>2. ASSUME NEW g \in Guarantors, CanTransfer(g, VaultAddr, amount, fee)
      PROVE  Transfer(g, VaultAddr, amount, fee)[VaultAddr]
                = usdc[VaultAddr] + amount - fee
  BY <1>1, <1>2 DEF Transfer, Accounts
<1>3. ASSUME NEW a \in Accounts, CanTransfer(VaultAddr, a, amount, fee)
      PROVE  Transfer(VaultAddr, a, amount, fee)[VaultAddr]
                >= usdc[VaultAddr] - amount
  <2>1. amount \in Nat /\ fee <= amount /\ usdc[VaultAddr] \in Nat
    BY <1>1, <1>3 DEF CanTransfer
  <2>2. CASE a = VaultAddr
    BY <1>1, <2>1, <2>2 DEF Transfer
  <2>3. CASE a # VaultAddr
    BY <1>1, <2>1, <2>3 DEF Transfer
  <2> QED
    BY <2>2, <2>3
<1> QED
  BY <1>2, <1>3

\* A record that is debited what is paid out leaves the rest backed.
LEMMA PaymentBacked ==
    ASSUME VaultInv, VaultSolvent, NEW g \in Guarantors, NEW v \in Vault,
           NEW amount \in Int, NEW fee \in Nat, NEW a \in Accounts,
           CanTransfer(VaultAddr, a, amount, fee),
           v.collateral_balance = vaults[g].collateral_balance - amount,
           vaults' = [vaults EXCEPT ![g] = v],
           usdc' = Transfer(VaultAddr, a, amount, fee)
    PROVE  VaultSolvent'
<1>1. /\ vaults \in [Guarantors -> Vault] /\ usdc \in [Accounts -> Nat]
      /\ VaultAddr \in Accounts
  BY DEF VaultInv, VaultTypeOK, Accounts
<1>2. /\ RecordedIn(vaults) \in Int
      /\ RecordedIn(vaults') = RecordedIn(vaults)
                                 - vaults[g].collateral_balance + v.collateral_balance
  BY <1>1, RecordedChanges
<1>3. vaults[g].collateral_balance \in Int
  BY <1>1 DEF Vault
<1>4. usdc'[VaultAddr] >= usdc[VaultAddr] - amount /\ usdc[VaultAddr] \in Int
  BY <1>1, VaultTokens
<1>5. usdc'[VaultAddr] \in Nat
  BY <1>1, TransferType
<1> QED
  BY <1>2, <1>3, <1>4, <1>5 DEF VaultSolvent

\* A record whose lock alone changes says nothing new of the collateral.
LEMMA LockingBacked ==
    ASSUME VaultInv, VaultSolvent, NEW g \in Guarantors, NEW v \in Vault,
           v.collateral_balance = vaults[g].collateral_balance,
           vaults' = [vaults EXCEPT ![g] = v], UNCHANGED usdc
    PROVE  VaultSolvent'
<1>1. /\ vaults \in [Guarantors -> Vault] /\ vaults[g].collateral_balance \in Int
      /\ RecordedIn(vaults) \in Int
  BY RecordedChanges DEF VaultInv, VaultTypeOK, Vault
<1>2. RecordedIn(vaults') = RecordedIn(vaults)
                              - vaults[g].collateral_balance + v.collateral_balance
  BY <1>1, RecordedChanges
<1> QED
  BY <1>1, <1>2 DEF VaultSolvent

\* A deposit credits exactly what arrived.
LEMMA DepositBacked ==
    ASSUME VaultInv, VaultSolvent, NEW g \in Guarantors, NEW amount \in Int,
           NEW fee \in Nat, Deposit(g, amount, fee)
    PROVE  VaultSolvent'
<1> DEFINE v == [vaults[g] EXCEPT !.collateral_balance = @ + amount]
<1>1. /\ vaults \in [Guarantors -> Vault] /\ usdc \in [Accounts -> Nat]
      /\ vaults' = [vaults EXCEPT ![g] = v]
      /\ usdc'[VaultAddr] - usdc[VaultAddr] = amount
      /\ usdc' \in [Accounts -> Nat] /\ VaultAddr \in Accounts
  BY DepositInv DEF Deposit, VaultInv, VaultTypeOK, Accounts
<1>2. /\ v \in Vault /\ vaults[g].collateral_balance \in Int
      /\ v.collateral_balance = vaults[g].collateral_balance + amount
  BY <1>1 DEF Vault
<1> HIDE DEF v
<1>3. /\ RecordedIn(vaults) \in Int
      /\ RecordedIn(vaults') = RecordedIn(vaults)
                                 - vaults[g].collateral_balance + v.collateral_balance
  BY <1>1, <1>2, RecordedChanges
<1> QED
  BY <1>1, <1>2, <1>3 DEF VaultSolvent

\* A withdrawal debits what it pays.
LEMMA WithdrawBacked ==
    ASSUME VaultInv, VaultSolvent, NEW g \in Guarantors, NEW amount \in Int,
           NEW fee \in Nat, Withdraw(g, amount, fee)
    PROVE  VaultSolvent'
<1> DEFINE v == [vaults[g] EXCEPT !.collateral_balance = @ - amount]
<1>1. /\ vaults \in [Guarantors -> Vault] /\ g \in Accounts
      /\ vaults' = [vaults EXCEPT ![g] = v]
      /\ CanTransfer(VaultAddr, g, amount, fee)
      /\ usdc' = Transfer(VaultAddr, g, amount, fee)
  BY DEF Withdraw, VaultInv, VaultTypeOK, Accounts
<1>2. /\ v \in Vault
      /\ v.collateral_balance = vaults[g].collateral_balance - amount
  BY <1>1 DEF Vault
<1> HIDE DEF v
<1> QED
  BY <1>1, <1>2, PaymentBacked

\* A forfeiture debits what it pays, to the vault itself even.
LEMMA ForfeitBacked ==
    ASSUME VaultInv, VaultSolvent, NEW c, NEW g \in Guarantors,
           NEW amount \in Int, NEW fee \in Nat,
           ForfeitCollateral(c, g, amount, fee)
    PROVE  VaultSolvent'
<1> DEFINE v == AfterForfeit(vaults[g], amount)
<1>1. /\ vaults \in [Guarantors -> Vault] /\ settlement \in Accounts
      /\ vaults' = [vaults EXCEPT ![g] = v]
      /\ CanTransfer(VaultAddr, settlement, amount, fee)
      /\ usdc' = Transfer(VaultAddr, settlement, amount, fee)
  BY DEF ForfeitCollateral, VaultInv, VaultTypeOK, Accounts
<1>2. /\ v \in Vault
      /\ v.collateral_balance = vaults[g].collateral_balance - amount
  BY <1>1 DEF AfterForfeit, Vault
<1> HIDE DEF v
<1> QED
  BY <1>1, <1>2, PaymentBacked

\* A lock and a release move no tokens and no collateral.
LEMMA LockReleaseBacked ==
    ASSUME VaultInv, VaultSolvent, NEW c, NEW g \in Guarantors, NEW amount \in Int,
           LockCollateral(c, g, amount) \/ ReleaseCollateral(c, g, amount)
    PROVE  VaultSolvent'
<1>1. vaults[g] \in Vault
  BY DEF VaultInv, VaultTypeOK
<1>2. PICK v \in {AfterLock(vaults[g], amount), AfterRelease(vaults[g], amount)} :
         vaults' = [vaults EXCEPT ![g] = v] /\ UNCHANGED usdc
  BY DEF LockCollateral, ReleaseCollateral
<1>3. v \in Vault /\ v.collateral_balance = vaults[g].collateral_balance
  BY <1>1, <1>2 DEF AfterLock, AfterRelease, Vault
<1> QED
  BY <1>2, <1>3, LockingBacked

\* Tokens that no deposit recorded back what is recorded all the more.
LEMMA TransferToVaultBacked ==
    ASSUME VaultInv, VaultSolvent, NEW g \in Guarantors, NEW amount \in Int,
           NEW fee \in Nat, TransferToVault(g, amount, fee)
    PROVE  VaultSolvent'
<1>1. /\ usdc'[VaultAddr] = usdc[VaultAddr] + amount - fee
      /\ usdc[VaultAddr] \in Nat /\ amount \in Nat /\ fee <= amount
      /\ UNCHANGED vaults
  BY VaultTokens
     DEF TransferToVault, CanTransfer, VaultInv, VaultTypeOK, Accounts
<1>2. RecordedIn(vaults) \in Int
  BY RecordedChanges DEF VaultInv, VaultTypeOK, Vault
<1> QED
  BY <1>1, <1>2 DEF VaultSolvent

\* A vault without records and tokens is solvent.
LEMMA InitBacked == VaultInit => VaultSolvent
<1> SUFFICES ASSUME VaultInit PROVE VaultSolvent
  OBVIOUS
<1> DEFINE f == [g \in Guarantors |-> vaults[g].collateral_balance]
           zeros == [g \in Guarantors |-> 0]
<1>1. usdc[VaultAddr] = 0
  BY AddressAssumption DEF VaultInit, Accounts
<1>2. f = zeros
  BY DEF VaultInit, EmptyVault
<1>3. SumFunctionOnSet(zeros, Guarantors) = 0
  BY AddressAssumption, SumOfZeros
<1> QED
  BY <1>1, <1>2, <1>3 DEF VaultSolvent, RecordedIn, SumFunction

\* No step of the vault leaves recorded collateral without tokens.
LEMMA SolventNext == VaultInv /\ VaultSolvent /\ [VaultNext]_vaultVars => VaultSolvent'
<1> SUFFICES ASSUME VaultInv, VaultSolvent, [VaultNext]_vaultVars
             PROVE  VaultSolvent'
  OBVIOUS
<1> USE AmountAssumption
<1>1. ASSUME NEW g \in Guarantors, NEW amount \in Amounts, NEW fee \in Fees,
             \/ Deposit(g, amount, fee)
             \/ Withdraw(g, amount, fee)
             \/ TransferToVault(g, amount, fee)
             \/ \E c \in Contracts : ForfeitCollateral(c, g, amount, fee)
      PROVE  VaultSolvent'
  BY <1>1, DepositBacked, WithdrawBacked, TransferToVaultBacked, ForfeitBacked
<1>2. ASSUME NEW g \in Guarantors, NEW amount \in Amounts, NEW c \in Contracts,
             LockCollateral(c, g, amount) \/ ReleaseCollateral(c, g, amount)
      PROVE  VaultSolvent'
  BY <1>2, LockReleaseBacked
<1>3. ASSUME \/ \E c \in Contracts : SetLoanLedger(c) \/ SetVaultEngine(c)
             \/ \E a \in Settlements : SetSettlement(a)
             \/ \E a \in MayFreeze : TokenStanding(a)
             \/ UNCHANGED vaultVars
      PROVE  VaultSolvent'
  <2>1. UNCHANGED <<vaults, usdc>>
    BY <1>3 DEF SetLoanLedger, SetVaultEngine, SetSettlement, TokenStanding,
                custody, vaultVars
  <2> QED
    BY <2>1 DEF VaultSolvent
<1> QED
  BY <1>1, <1>2, <1>3 DEF VaultNext

\* Whatever contracts are wired to the vault and whatever the token keeps of a
\* transfer, the vault's tokens cover every record at once.
THEOREM AlwaysSolvent == VaultSpec => []VaultSolvent
<1>1. VaultInit => VaultInv /\ VaultSolvent
  BY VaultInitInv, InitBacked
<1>2. (VaultInv /\ VaultSolvent) /\ [VaultNext]_vaultVars
        => (VaultInv /\ VaultSolvent)'
  BY VaultNextInv, SolventNext
<1> QED
  BY <1>1, <1>2, PTL DEF VaultSpec

-----------------------------------------------------------------------------
\* Where collateral goes.

\* What CollateralLeavesTwoWays says of one guarantor's record, and its two
\* halves.
KeptApart(g) ==
    LET drop == vaults[g].collateral_balance - vaults'[g].collateral_balance
        unlocked == vaults[g].locked_amount - vaults'[g].locked_amount
    IN  /\ vaults'[g] # vaults[g] =>
             \A h \in Guarantors \ {g} : vaults'[h] = vaults[h]
        /\ drop > 0 =>
             \E fee \in Fees :
                \/ unlocked = 0 /\ usdc' = Transfer(VaultAddr, g, drop, fee)
                \/ /\ unlocked = drop
                   /\ usdc' = Transfer(VaultAddr, settlement, drop, fee)

MovesAlone(g) ==
    vaults'[g] # vaults[g] => \A h \in Guarantors \ {g} : vaults'[h] = vaults[h]

LeavesTwoWays(g) ==
    LET drop == vaults[g].collateral_balance - vaults'[g].collateral_balance
        unlocked == vaults[g].locked_amount - vaults'[g].locked_amount
    IN  drop > 0 =>
          \E fee \in Fees :
             \/ unlocked = 0 /\ usdc' = Transfer(VaultAddr, g, drop, fee)
             \/ /\ unlocked = drop
                /\ usdc' = Transfer(VaultAddr, settlement, drop, fee)

\* An entry point writes the record of the guarantor it is called for.
LEMMA OneRecordWritten ==
    ASSUME VaultInv, NEW h \in Guarantors, NEW amount \in Int, NEW fee \in Nat, NEW c,
           \/ Deposit(h, amount, fee)
           \/ Withdraw(h, amount, fee)
           \/ LockCollateral(c, h, amount)
           \/ ReleaseCollateral(c, h, amount)
           \/ ForfeitCollateral(c, h, amount, fee)
    PROVE  \A x \in Guarantors \ {h} : vaults'[x] = vaults[x]
BY DEF Deposit, Withdraw, LockCollateral, ReleaseCollateral, ForfeitCollateral,
       VaultInv, VaultTypeOK

\* Records that are the same but for one move alone.
LEMMA OneMovesAlone ==
    ASSUME NEW h \in Guarantors, NEW g \in Guarantors,
           \A x \in Guarantors \ {h} : vaults'[x] = vaults[x]
    PROVE  MovesAlone(g)
BY DEF MovesAlone

\* A step that lowers no record's balance sends nothing out of the vault.
LEMMA NothingLeaves ==
    ASSUME VaultInv, NEW g \in Guarantors, NEW h \in Guarantors, NEW v,
           vaults' = [vaults EXCEPT ![h] = v],
           v.collateral_balance \in Int,
           v.collateral_balance >= vaults[h].collateral_balance
    PROVE  LeavesTwoWays(g)
<1>1. vaults[g].collateral_balance \in Int /\ vaults[h].collateral_balance \in Int
  BY DEF VaultInv, VaultTypeOK, Vault
<1>2. vaults'[g] = IF g = h THEN v ELSE vaults[g]
  BY DEF VaultInv, VaultTypeOK
<1> QED
  BY <1>1, <1>2 DEF LeavesTwoWays

\* A withdrawal goes to the guarantor whose record it lowers.
LEMMA WithdrawalLeaves ==
    ASSUME VaultInv, NEW g \in Guarantors, NEW h \in Guarantors,
           NEW amount \in Int, NEW fee \in Fees, Withdraw(h, amount, fee)
    PROVE  LeavesTwoWays(g)
<1>1. /\ vaults \in [Guarantors -> Vault]
      /\ vaults' = [vaults EXCEPT ![h].collateral_balance = @ - amount]
      /\ usdc' = Transfer(VaultAddr, h, amount, fee)
  BY DEF Withdraw, VaultInv, VaultTypeOK
<1>2. \A x \in Guarantors \ {h} : vaults'[x] = vaults[x]
  BY <1>1
<1>3. CASE g = h
  <2>1. /\ vaults[g].collateral_balance - vaults'[g].collateral_balance = amount
        /\ vaults[g].locked_amount - vaults'[g].locked_amount = 0
    BY <1>1, <1>3 DEF Vault
  <2> QED
    BY <1>1, <1>3, <2>1 DEF LeavesTwoWays
<1>4. CASE g # h
  <2>1. vaults[g].collateral_balance - vaults'[g].collateral_balance = 0
    BY <1>1, <1>2, <1>4 DEF Vault
  <2> QED
    BY <2>1 DEF LeavesTwoWays
<1> QED
  BY <1>3, <1>4

\* A forfeiture goes to the settlement address registered at that moment.
LEMMA ForfeitureLeaves ==
    ASSUME VaultInv, NEW g \in Guarantors, NEW h \in Guarantors, NEW c,
           NEW amount \in Int, NEW fee \in Fees,
           ForfeitCollateral(c, h, amount, fee)
    PROVE  LeavesTwoWays(g)
<1>1. /\ vaults \in [Guarantors -> Vault]
      /\ vaults' = [vaults EXCEPT ![h] = AfterForfeit(@, amount)]
      /\ usdc' = Transfer(VaultAddr, settlement, amount, fee)
  BY DEF ForfeitCollateral, VaultInv, VaultTypeOK
<1>2. \A x \in Guarantors \ {h} : vaults'[x] = vaults[x]
  BY <1>1
<1>3. CASE g = h
  <2>1. /\ vaults[g].collateral_balance - vaults'[g].collateral_balance = amount
        /\ vaults[g].locked_amount - vaults'[g].locked_amount = amount
    BY <1>1, <1>3 DEF Vault, AfterForfeit
  <2> QED
    BY <1>1, <1>3, <2>1 DEF LeavesTwoWays
<1>4. CASE g # h
  <2>1. vaults[g].collateral_balance - vaults'[g].collateral_balance = 0
    BY <1>1, <1>2, <1>4 DEF Vault
  <2> QED
    BY <2>1 DEF LeavesTwoWays
<1> QED
  BY <1>3, <1>4

\* Whatever contracts are wired to the vault, a guarantor's collateral leaves
\* only by its own withdrawal or by a forfeiture to the settlement address,
\* and no entry point touches two guarantors' records.
THEOREM CollateralGoesWhereItMay == VaultSpec => CollateralLeavesTwoWays
<1>1. ASSUME VaultInv, VaultNext, NEW g \in Guarantors
      PROVE  LeavesTwoWays(g)
  <2>1. CASE UNCHANGED vaults
    <3>1. vaults[g].collateral_balance \in Int
      BY <1>1 DEF VaultInv, VaultTypeOK, Vault
    <3> QED
      BY <2>1, <3>1 DEF LeavesTwoWays
  <2>2. ASSUME NEW h \in Guarantors, NEW amount \in Amounts, NEW fee \in Fees,
               Deposit(h, amount, fee)
        PROVE  LeavesTwoWays(g)
    <3> DEFINE v == [vaults[h] EXCEPT !.collateral_balance = @ + amount]
    <3>1. vaults' = [vaults EXCEPT ![h] = v] /\ amount > 0 /\ amount \in Int
      BY <2>2, AmountAssumption DEF Deposit
    <3>2. /\ v.collateral_balance \in Int
          /\ v.collateral_balance >= vaults[h].collateral_balance
      BY <1>1, <3>1 DEF VaultInv, VaultTypeOK, Vault
    <3> QED
      BY <1>1, <3>1, <3>2, NothingLeaves
  <2>3. ASSUME NEW h \in Guarantors, NEW amount \in Amounts, NEW fee \in Fees,
               Withdraw(h, amount, fee)
        PROVE  LeavesTwoWays(g)
    BY <1>1, <2>3, WithdrawalLeaves, AmountAssumption
  <2>4. ASSUME NEW h \in Guarantors, NEW amount \in Amounts, NEW fee \in Fees,
               NEW c \in Contracts, ForfeitCollateral(c, h, amount, fee)
        PROVE  LeavesTwoWays(g)
    BY <1>1, <2>4, ForfeitureLeaves, AmountAssumption
  <2>5. ASSUME NEW h \in Guarantors, NEW amount \in Amounts, NEW c \in Contracts,
               LockCollateral(c, h, amount) \/ ReleaseCollateral(c, h, amount)
        PROVE  LeavesTwoWays(g)
    <3>1. vaults[h] \in Vault /\ amount \in Int
      BY <1>1, AmountAssumption DEF VaultInv, VaultTypeOK
    <3>2. CASE LockCollateral(c, h, amount)
      <4>1. /\ AfterLock(vaults[h], amount).collateral_balance \in Int
            /\ AfterLock(vaults[h], amount).collateral_balance
                  >= vaults[h].collateral_balance
        BY <3>1 DEF AfterLock, Vault
      <4>2. vaults' = [vaults EXCEPT ![h] = AfterLock(vaults[h], amount)]
        BY <3>2 DEF LockCollateral
      <4> QED
        BY <1>1, <4>1, <4>2, NothingLeaves
    <3>3. CASE ReleaseCollateral(c, h, amount)
      <4>1. /\ AfterRelease(vaults[h], amount).collateral_balance \in Int
            /\ AfterRelease(vaults[h], amount).collateral_balance
                  >= vaults[h].collateral_balance
        BY <3>1 DEF AfterRelease, Vault
      <4>2. vaults' = [vaults EXCEPT ![h] = AfterRelease(vaults[h], amount)]
        BY <3>3 DEF ReleaseCollateral
      <4> QED
        BY <1>1, <4>1, <4>2, NothingLeaves
    <3> QED
      BY <2>5, <3>2, <3>3
  <2>6. ASSUME \/ \E c \in Contracts : SetLoanLedger(c) \/ SetVaultEngine(c)
               \/ \E h \in Guarantors, amount \in Amounts, fee \in Fees :
                     TransferToVault(h, amount, fee)
               \/ \E a \in Settlements : SetSettlement(a)
               \/ \E a \in MayFreeze : TokenStanding(a)
        PROVE  UNCHANGED vaults
    BY <2>6 DEF SetLoanLedger, SetVaultEngine, TransferToVault, SetSettlement,
                TokenStanding, custody
  <2> QED
    BY <1>1, <2>1, <2>2, <2>3, <2>4, <2>5, <2>6 DEF VaultNext
<1>2. ASSUME VaultInv, VaultNext, NEW g \in Guarantors
      PROVE  MovesAlone(g)
  <2>1. ASSUME NEW h \in Guarantors, NEW amount \in Amounts, NEW c,
               NEW fee \in Nat,
               \/ Deposit(h, amount, fee)
               \/ Withdraw(h, amount, fee)
               \/ LockCollateral(c, h, amount)
               \/ ReleaseCollateral(c, h, amount)
               \/ ForfeitCollateral(c, h, amount, fee)
        PROVE  MovesAlone(g)
    BY <1>2, <2>1, OneRecordWritten, OneMovesAlone, AmountAssumption
  <2>2. CASE UNCHANGED vaults
    BY <2>2 DEF MovesAlone
  <2> QED
    BY <1>2, <2>1, <2>2, AmountAssumption
       DEF VaultNext, SetLoanLedger, SetVaultEngine, TransferToVault,
           SetSettlement, TokenStanding, custody
<1>3. VaultInv /\ [VaultNext]_vaultVars
        => [\A g \in Guarantors : KeptApart(g)]_vaultVars
  BY <1>1, <1>2 DEF MovesAlone, LeavesTwoWays, KeptApart
<1> QED
  BY <1>3, VaultInvariance, PTL DEF VaultSpec, CollateralLeavesTwoWays, KeptApart

=============================================================================
