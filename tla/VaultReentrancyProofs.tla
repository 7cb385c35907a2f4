----------------------- MODULE VaultReentrancyProofs -----------------------
(***************************************************************************)
(* The re-entrancy guard, for every set of guarantors, contracts, amounts  *)
(* and fees: the lock and the stack of calls agree, so at most one call    *)
(* waits for the token, what it saw when it began is what a panic          *)
(* restores, and the vault is solvent at every moment of it.               *)
(***************************************************************************)
EXTENDS VaultReentrancy, GuarantorVaultProofs

\* What a waiting call would restore has consistent books, holds no less for
\* any guarantor than the vault holds now, and was taken outside any call; it
\* differs from what the vault holds now in the caller's record only.
Restorable(b) ==
    /\ b.lock = FALSE
    /\ \A g \in Guarantors :
          /\ b.vaults[g].locked_amount >= 0
          /\ b.vaults[g].collateral_balance >= b.vaults[g].locked_amount
          /\ b.vaults[g].collateral_balance >= vaults[g].collateral_balance
          /\ vaultLoanLedger = None => b.vaults[g].locked_amount = 0

Outside == lock = FALSE /\ frames = <<>>

Inside ==
    /\ lock = TRUE
    /\ \E call \in Frame :
          /\ frames = <<call>>
          /\ call.amount > 0
          /\ Restorable(call.start)
          /\ \A g \in Guarantors \ {call.guarantor} :
                call.start.vaults[g] = vaults[g]

CallbackInv == VaultInv /\ (Outside \/ Inside)

\* The only call there is returns or is rolled back: none is left.
LEMMA Innermost ==
    ASSUME NEW call \in Frame, frames = <<call>>
    PROVE  Head(frames) = call /\ Tail(frames) = <<>> /\ frames # <<>>
OBVIOUS

\* A call that finds the guard free is the only one in progress, and its
\* snapshot is the vault as it was.
LEMMA WaitsInv ==
    ASSUME VaultInv, Outside, NEW pays \in BOOLEAN, NEW g \in Guarantors,
           NEW amount \in Int, amount > 0, Waits(pays, g, amount),
           UNCHANGED vaultLoanLedger, vaults' \in [Guarantors -> Vault],
           \A h \in Guarantors :
              vaults[h].collateral_balance >= vaults'[h].collateral_balance,
           \A h \in Guarantors \ {g} : vaults'[h] = vaults[h]
    PROVE  Inside'
<1> DEFINE start == [vaults |-> vaults, usdc |-> usdc, lock |-> lock]
           call == [pays |-> pays, guarantor |-> g, amount |-> amount,
                    balance_before |-> usdc[VaultAddr], start |-> start]
<1>1. start \in Books /\ usdc[VaultAddr] \in Nat
  BY DEF VaultInv, VaultTypeOK, Outside, Books, Accounts
<1>2. call \in Frame
  BY <1>1 DEF Frame
<1>3. lock' = TRUE /\ frames' = <<call>> \o frames /\ frames = <<>>
  BY DEF Waits, Outside
<1>4. frames' = <<call>>
  BY <1>3
<1>5. /\ start.lock = FALSE /\ start.vaults = vaults
      /\ call.start = start /\ call.amount = amount /\ call.guarantor = g
  BY DEF Outside
<1> HIDE DEF call, start
<1>6. PICK c \in Frame : /\ frames' = <<c>>
                        /\ c.amount > 0
                        /\ c.guarantor = g
                        /\ c.start.lock = FALSE
                        /\ c.start.vaults = vaults
  BY <1>2, <1>4, <1>5
<1>7. Restorable(c.start)'
  BY <1>6 DEF Restorable, VaultInv, SaveAssertionsHold, NothingLockedBeforeTheLedger
<1> QED
  BY <1>3, <1>6, <1>7 DEF Inside

\* A deposit in progress has moved tokens and no record.
LEMMA BeginDepositInv ==
    ASSUME CallbackInv, NEW g \in Guarantors, NEW amount \in Int, NEW fee \in Nat,
           BeginDeposit(g, amount, fee)
    PROVE  CallbackInv'
<1>1. VaultInv /\ Outside
  BY DEF CallbackInv, Inside, BeginDeposit, GuardFree
<1>2. usdc' \in [Accounts -> Nat]
  BY <1>1, TransferType DEF BeginDeposit, VaultInv, VaultTypeOK, Accounts
<1>3. VaultInv'
  BY <1>1, <1>2
     DEF BeginDeposit, VaultInv, VaultTypeOK, SaveAssertionsHold,
         NothingLockedBeforeTheLedger, vaultWiring
<1>4. \A h \in Guarantors :
         vaults[h].collateral_balance >= vaults'[h].collateral_balance
  BY <1>1 DEF BeginDeposit, VaultInv, VaultTypeOK, Vault
<1>5. vaults' \in [Guarantors -> Vault] /\ UNCHANGED vaultLoanLedger
  BY <1>3 DEF VaultInv, VaultTypeOK, BeginDeposit, vaultWiring
<1>6. Inside'
  BY <1>1, <1>4, <1>5, WaitsInv DEF BeginDeposit
<1> QED
  BY <1>3, <1>6 DEF CallbackInv

\* A payment in progress has lowered one record and moved the tokens.
LEMMA BeginPaymentInv ==
    ASSUME CallbackInv, NEW g \in Guarantors, NEW amount \in Int, NEW fee \in Nat,
           BeginPayment(g, amount, fee)
    PROVE  CallbackInv'
<1>1. VaultInv /\ Outside
  BY DEF CallbackInv, Inside, BeginPayment, GuardFree
<1>2. VaultInv'
  BY <1>1, WithdrawInv, ForfeitCollateralInv DEF BeginPayment
<1>3. /\ vaults \in [Guarantors -> Vault]
      /\ vaults' \in [Guarantors -> Vault]
      /\ UNCHANGED vaultLoanLedger
      /\ amount > 0
  BY <1>1, <1>2
     DEF VaultInv, VaultTypeOK, BeginPayment, Withdraw, ForfeitCollateral,
         CanWithdraw, CanForfeit, vaultWiring
<1>4. \A h \in Guarantors :
         vaults[h].collateral_balance >= vaults'[h].collateral_balance
  BY <1>3 DEF BeginPayment, Withdraw, ForfeitCollateral, AfterForfeit, Vault
<1>5. \A h \in Guarantors \ {g} : vaults'[h] = vaults[h]
  BY <1>1, OneRecordWritten DEF BeginPayment
<1>6. Inside'
  BY <1>1, <1>3, <1>4, <1>5, WaitsInv DEF BeginPayment
<1> QED
  BY <1>2, <1>6 DEF CallbackInv

\* The deposit returns: its record grows by what arrived.
LEMMA EndDepositInv == CallbackInv /\ EndDeposit => CallbackInv'
<1> SUFFICES ASSUME CallbackInv, EndDeposit PROVE CallbackInv'
  OBVIOUS
<1>1. PICK call \in Frame : frames = <<call>> /\ call.amount > 0
  BY DEF CallbackInv, Outside, Inside, EndDeposit, Returns
<1>2. Head(frames) = call /\ Tail(frames) = <<>>
  BY <1>1, Innermost
<1>3. Outside'
  BY <1>2 DEF EndDeposit, Returns, Outside
<1>4. /\ call.guarantor \in Guarantors /\ call.amount \in Int
      /\ vaults' = [vaults EXCEPT ![call.guarantor].collateral_balance
                                    = @ + call.amount]
      /\ UNCHANGED <<usdc, vaultWiring>>
  BY <1>2 DEF EndDeposit, Frame
<1>5. vaults' \in [Guarantors -> Vault]
  BY <1>4 DEF CallbackInv, VaultInv, VaultTypeOK, Vault
<1>6. VaultInv'
  BY <1>1, <1>4, <1>5
     DEF CallbackInv, VaultInv, VaultTypeOK, SaveAssertionsHold,
         NothingLockedBeforeTheLedger, Vault, vaultWiring
<1> QED
  BY <1>3, <1>6 DEF CallbackInv

\* The payment returns: its record was saved before the token was called.
LEMMA EndPaymentInv == CallbackInv /\ EndPayment => CallbackInv'
<1> SUFFICES ASSUME CallbackInv, EndPayment PROVE CallbackInv'
  OBVIOUS
<1>1. PICK call \in Frame : frames = <<call>>
  BY DEF CallbackInv, Outside, Inside, EndPayment, Returns
<1>2. Outside'
  BY <1>1, Innermost DEF EndPayment, Returns, Outside
<1>3. VaultInv'
  BY VaultStutterInv DEF CallbackInv, EndPayment
<1> QED
  BY <1>2, <1>3 DEF CallbackInv

\* A panic restores the vault the call began with.
LEMMA RolledBackInv == CallbackInv /\ RolledBack => CallbackInv'
<1> SUFFICES ASSUME CallbackInv, RolledBack PROVE CallbackInv'
  OBVIOUS
<1>1. PICK call \in Frame : frames = <<call>> /\ Restorable(call.start)
  BY DEF CallbackInv, Outside, Inside, RolledBack
<1>2. Head(frames) = call /\ Tail(frames) = <<>>
  BY <1>1, Innermost
<1>3. /\ vaults' = call.start.vaults /\ usdc' = call.start.usdc
      /\ lock' = call.start.lock /\ frames' = <<>>
      /\ UNCHANGED vaultWiring
  BY <1>2 DEF RolledBack
<1>4. Outside'
  BY <1>1, <1>3 DEF Outside, Restorable
<1>5. call.start.vaults \in [Guarantors -> Vault] /\ call.start.usdc \in [Accounts -> Nat]
  BY DEF Frame, Books
<1>6. VaultInv'
  BY <1>1, <1>3, <1>5
     DEF CallbackInv, VaultInv, VaultTypeOK, SaveAssertionsHold,
         NothingLockedBeforeTheLedger, Restorable, vaultWiring
<1> QED
  BY <1>4, <1>6 DEF CallbackInv

\* Locking and releasing happen outside any call.
LEMMA CollateralCallInv ==
    ASSUME CallbackInv, NEW c \in Contracts, NEW g \in Guarantors,
           NEW amount \in Int, CollateralCall(c, g, amount)
    PROVE  CallbackInv'
<1>1. VaultInv'
  BY LockCollateralInv, ReleaseCollateralInv DEF CallbackInv, CollateralCall
<1>2. Outside'
  BY DEF CallbackInv, Outside, Inside, CollateralCall, GuardFree
<1> QED
  BY <1>1, <1>2 DEF CallbackInv

\* Tokens sent to the vault while a call waits change no record.
LEMMA StrayTransferInv ==
    ASSUME CallbackInv, NEW g \in Guarantors, NEW amount \in Int, NEW fee \in Nat,
           TransferToVault(g, amount, fee), UNCHANGED <<lock, frames>>
    PROVE  CallbackInv'
<1>1. VaultInv'
  BY TransferToVaultInv DEF CallbackInv
<1>2. UNCHANGED <<vaults, vaultLoanLedger>>
  BY DEF TransferToVault, vaultWiring
<1> QED
  BY <1>1, <1>2 DEF CallbackInv, Outside, Inside, Restorable

\* The admin and the issuer act while no call waits.
LEMMA BetweenTransactionsInv == CallbackInv /\ BetweenTransactions => CallbackInv'
<1> SUFFICES ASSUME CallbackInv, BetweenTransactions PROVE CallbackInv'
  OBVIOUS
<1>1. VaultInv'
  BY VaultWiringInv, ExternalInv DEF CallbackInv, BetweenTransactions
<1>2. Outside'
  BY DEF CallbackInv, Outside, Inside, BetweenTransactions
<1> QED
  BY <1>1, <1>2 DEF CallbackInv

\* No step, of a call or within one, breaks the agreement.
LEMMA CallbackNextInv == CallbackInv /\ [CallbackNext]_callbackVars => CallbackInv'
<1> SUFFICES ASSUME CallbackInv, [CallbackNext]_callbackVars PROVE CallbackInv'
  OBVIOUS
<1> USE AmountAssumption
<1>1. ASSUME NEW g \in Guarantors, NEW amount \in Amounts, NEW fee \in Fees,
             BeginDeposit(g, amount, fee)
      PROVE  CallbackInv'
  BY <1>1, BeginDepositInv
<1>2. ASSUME NEW g \in Guarantors, NEW amount \in Amounts, NEW fee \in Fees,
             BeginPayment(g, amount, fee)
      PROVE  CallbackInv'
  BY <1>2, BeginPaymentInv
<1>3. ASSUME NEW g \in Guarantors, NEW amount \in Amounts, NEW fee \in Fees,
             TransferToVault(g, amount, fee), UNCHANGED <<lock, frames>>
      PROVE  CallbackInv'
  BY <1>3, StrayTransferInv
<1>4. ASSUME NEW g \in Guarantors, NEW amount \in Amounts, NEW c \in Contracts,
             CollateralCall(c, g, amount)
      PROVE  CallbackInv'
  BY <1>4, CollateralCallInv
<1>5. CASE UNCHANGED callbackVars
  <2>1. VaultInv'
    BY <1>5, VaultStutterInv DEF CallbackInv, callbackVars
  <2>2. UNCHANGED <<vaults, vaultLoanLedger, lock, frames>>
    BY <1>5 DEF callbackVars, vaultVars
  <2> QED
    BY <2>1, <2>2 DEF CallbackInv, Outside, Inside, Restorable
<1> QED
  BY <1>1, <1>2, <1>3, <1>4, <1>5, EndDepositInv, EndPaymentInv, RolledBackInv,
     BetweenTransactionsInv
     DEF CallbackNext

\* The agreement holds whatever the token does during a transfer.
LEMMA CallbackInvariance == CallbackSpec => []CallbackInv
<1>1. CallbackInit => CallbackInv
  BY VaultInitInv DEF CallbackInit, CallbackInv, Outside
<1> QED
  BY <1>1, CallbackNextInv, PTL DEF CallbackSpec

-----------------------------------------------------------------------------
\* The lock is set exactly while one call waits for the token: no call finds it
\* set and goes on, and no way out of a call leaves it set.
THEOREM GuardIsOneCall == CallbackSpec => []LockedDuringOneCall
<1>1. CallbackInv => LockedDuringOneCall
  <2> SUFFICES ASSUME CallbackInv PROVE LockedDuringOneCall
    OBVIOUS
  <2>1. CASE Outside
    BY <2>1 DEF Outside, LockedDuringOneCall
  <2>2. CASE Inside
    <3>1. PICK call \in Frame : frames = <<call>>
      BY <2>2 DEF Inside
    <3> QED
      BY <2>2, <3>1 DEF Inside, LockedDuringOneCall
  <2> QED
    BY <2>1, <2>2 DEF CallbackInv
<1> QED
  BY <1>1, CallbackInvariance, PTL

\* The asserts of `save` never fire even when the token calls the vault back in
\* the middle of a deposit, a withdrawal or a forfeiture.
THEOREM SaveNeverAssertsInCallbacks == CallbackSpec => []SaveAssertionsHold
<1>1. CallbackInv => SaveAssertionsHold
  BY DEF CallbackInv, VaultInv
<1> QED
  BY <1>1, CallbackInvariance, PTL

\* A callback is no way to lock collateral before a ledger is registered.
THEOREM LockingNeedsALedgerInCallbacks ==
    CallbackSpec => []NothingLockedBeforeTheLedger
<1>1. CallbackInv => NothingLockedBeforeTheLedger
  BY DEF CallbackInv, VaultInv
<1> QED
  BY <1>1, CallbackInvariance, PTL

-----------------------------------------------------------------------------
\* Solvency while a call waits.

\* The tokens a waiting call would restore back the records it would restore,
\* and those a deposit found in the vault back the records without it.
WaitingBacked ==
    frames # <<>> =>
        LET call == Head(frames)
        IN  /\ RecordedIn(call.start.vaults) <= call.start.usdc[VaultAddr]
            /\ ~call.pays => RecordedIn(vaults) <= call.balance_before

SolventThroughout == VaultSolvent /\ WaitingBacked

\* A call that begins with the records backed can be undone to that.
LEMMA WaitsBacked ==
    ASSUME VaultInv, VaultSolvent, Outside, NEW pays \in BOOLEAN,
           NEW g \in Guarantors, NEW amount \in Int, Waits(pays, g, amount),
           pays \/ UNCHANGED vaults
    PROVE  WaitingBacked'
<1> DEFINE start == [vaults |-> vaults, usdc |-> usdc, lock |-> lock]
           call == [pays |-> pays, guarantor |-> g, amount |-> amount,
                    balance_before |-> usdc[VaultAddr], start |-> start]
<1>1. frames' = <<call>>
  <2>1. frames' = <<call>> \o frames /\ frames = <<>>
    BY DEF Waits, Outside
  <2> QED
    BY <2>1
<1>2. /\ call.start.vaults = vaults /\ call.start.usdc = usdc
      /\ call.pays = pays /\ call.balance_before = usdc[VaultAddr]
  OBVIOUS
<1> HIDE DEF call
<1>3. Head(frames') = call
  BY <1>1
<1>4. CASE UNCHANGED vaults
  BY <1>2, <1>3, <1>4 DEF WaitingBacked, VaultSolvent
<1>5. CASE pays
  BY <1>2, <1>3, <1>5 DEF WaitingBacked, VaultSolvent
<1> QED
  BY <1>4, <1>5

\* The tokens of a deposit arrive before its record is written.
LEMMA BeginDepositBacked ==
    ASSUME CallbackInv, SolventThroughout, NEW g \in Guarantors,
           NEW amount \in Int, NEW fee \in Nat, BeginDeposit(g, amount, fee)
    PROVE  SolventThroughout'
<1>1. VaultInv /\ Outside /\ UNCHANGED vaults /\ Waits(FALSE, g, amount)
  BY DEF CallbackInv, Inside, BeginDeposit, GuardFree
<1>2. WaitingBacked'
  BY <1>1, WaitsBacked DEF SolventThroughout
<1>3. /\ usdc'[VaultAddr] = usdc[VaultAddr] + amount - fee
      /\ usdc[VaultAddr] \in Nat /\ amount \in Nat /\ fee <= amount
  BY <1>1, VaultTokens
     DEF BeginDeposit, CanTransfer, VaultInv, VaultTypeOK, Accounts
<1>4. RecordedIn(vaults) \in Int
  BY <1>1, RecordedChanges DEF VaultInv, VaultTypeOK, Vault
<1>5. VaultSolvent'
  BY <1>1, <1>3, <1>4 DEF VaultSolvent, SolventThroughout
<1> QED
  BY <1>2, <1>5 DEF SolventThroughout

\* A payment has lowered its record when the tokens leave.
LEMMA BeginPaymentBacked ==
    ASSUME CallbackInv, SolventThroughout, NEW g \in Guarantors,
           NEW amount \in Int, NEW fee \in Nat, BeginPayment(g, amount, fee)
    PROVE  SolventThroughout'
<1>1. VaultInv /\ VaultSolvent /\ Outside /\ Waits(TRUE, g, amount)
  BY DEF CallbackInv, Inside, BeginPayment, GuardFree, SolventThroughout
<1>2. VaultSolvent'
  BY <1>1, WithdrawBacked, ForfeitBacked DEF BeginPayment
<1>3. WaitingBacked'
  BY <1>1, WaitsBacked
<1> QED
  BY <1>2, <1>3 DEF SolventThroughout

\* A deposit that returns records what the vault holds more than when it began.
LEMMA EndDepositBacked ==
    ASSUME CallbackInv, SolventThroughout, EndDeposit
    PROVE  SolventThroughout'
<1>1. PICK call \in Frame : frames = <<call>>
  BY DEF CallbackInv, Outside, Inside, EndDeposit, Returns
<1>2. Head(frames) = call /\ Tail(frames) = <<>> /\ frames # <<>>
  BY <1>1, Innermost
<1> DEFINE g == call.guarantor
           v == [vaults[g] EXCEPT !.collateral_balance = @ + call.amount]
<1>3. /\ g \in Guarantors /\ call.amount \in Int /\ call.balance_before \in Nat
      /\ RecordedIn(vaults) <= call.balance_before
      /\ usdc[VaultAddr] - call.balance_before = call.amount
      /\ vaults' = [vaults EXCEPT ![g] = v]
      /\ UNCHANGED usdc /\ frames' = <<>>
  BY <1>2 DEF EndDeposit, Returns, Frame, SolventThroughout, WaitingBacked
<1>4. /\ vaults \in [Guarantors -> Vault] /\ usdc[VaultAddr] \in Nat
  BY DEF CallbackInv, VaultInv, VaultTypeOK, Accounts
<1>5. /\ v \in Vault /\ vaults[g].collateral_balance \in Int
      /\ v.collateral_balance = vaults[g].collateral_balance + call.amount
  BY <1>3, <1>4, SMTT(30) DEF Vault
<1> HIDE DEF v, g
<1>6. /\ RecordedIn(vaults) \in Int
      /\ RecordedIn(vaults') = RecordedIn(vaults)
                                 - vaults[g].collateral_balance + v.collateral_balance
  BY <1>3, <1>4, <1>5, RecordedChanges
<1>7. VaultSolvent'
  BY <1>3, <1>4, <1>5, <1>6 DEF VaultSolvent
<1> QED
  BY <1>3, <1>7 DEF SolventThroughout, WaitingBacked

\* A panic gives back the tokens together with the records.
LEMMA RolledBackBacked ==
    ASSUME CallbackInv, SolventThroughout, RolledBack
    PROVE  SolventThroughout'
<1>1. PICK call \in Frame : frames = <<call>>
  BY DEF CallbackInv, Outside, Inside, RolledBack
<1>2. Head(frames) = call /\ Tail(frames) = <<>> /\ frames # <<>>
  BY <1>1, Innermost
<1>3. /\ vaults' = call.start.vaults /\ usdc' = call.start.usdc /\ frames' = <<>>
      /\ RecordedIn(call.start.vaults) <= call.start.usdc[VaultAddr]
  BY <1>2 DEF RolledBack, SolventThroughout, WaitingBacked
<1> QED
  BY <1>3 DEF SolventThroughout, WaitingBacked, VaultSolvent

\* While a call waits, what else can happen changes no record and takes no
\* tokens from the vault; when none waits, each step keeps the records backed.
LEMMA OtherCallbacksBacked ==
    ASSUME CallbackInv, SolventThroughout,
           \/ \E g \in Guarantors, amount \in Int, fee \in Nat :
                 TransferToVault(g, amount, fee) /\ UNCHANGED <<lock, frames>>
           \/ \E g \in Guarantors, amount \in Int, c \in Contracts :
                 CollateralCall(c, g, amount)
           \/ EndPayment
           \/ BetweenTransactions
           \/ UNCHANGED callbackVars
    PROVE  SolventThroughout'
<1>1. VaultInv /\ VaultSolvent
  BY DEF CallbackInv, SolventThroughout
<1>2. ASSUME NEW g \in Guarantors, NEW amount \in Int, NEW fee \in Nat,
             TransferToVault(g, amount, fee), UNCHANGED <<lock, frames>>
      PROVE  SolventThroughout'
  <2>1. VaultSolvent'
    BY <1>1, <1>2, TransferToVaultBacked
  <2>2. UNCHANGED <<vaults, frames>>
    BY <1>2 DEF TransferToVault
  <2> QED
    BY <2>1, <2>2 DEF SolventThroughout, WaitingBacked
<1>3. ASSUME NEW g \in Guarantors, NEW amount \in Int, NEW c \in Contracts,
             CollateralCall(c, g, amount)
      PROVE  SolventThroughout'
  <2>1. VaultSolvent'
    BY <1>1, <1>3, LockReleaseBacked DEF CollateralCall
  <2>2. frames' = <<>>
    BY <1>3 DEF CollateralCall, GuardFree, CallbackInv, Outside, Inside
  <2> QED
    BY <2>1, <2>2 DEF SolventThroughout, WaitingBacked
<1>4. CASE EndPayment
  <2>1. PICK call \in Frame : frames = <<call>>
    BY <1>4 DEF CallbackInv, Outside, Inside, EndPayment, Returns
  <2>2. frames' = <<>> /\ UNCHANGED <<vaults, usdc>>
    BY <1>4, <2>1, Innermost DEF EndPayment, Returns, vaultVars
  <2> QED
    BY <1>1, <2>2 DEF SolventThroughout, WaitingBacked, VaultSolvent
<1>5. ASSUME BetweenTransactions \/ UNCHANGED callbackVars
      PROVE  SolventThroughout'
  <2>1. UNCHANGED <<vaults, usdc, frames>>
    BY <1>5 DEF BetweenTransactions, SetLoanLedger, SetVaultEngine, SetSettlement,
                TokenStanding, custody, callbackVars, vaultVars
  <2> QED
    BY <2>1 DEF SolventThroughout, WaitingBacked, VaultSolvent
<1> QED
  BY <1>2, <1>3, <1>4, <1>5

\* Every guarantor's recorded collateral is in the vault at every moment of
\* every call, those at which the token runs included: no call back and no
\* refusal caught in the middle lets one deposit be credited twice or a payment
\* be undone on one side only.
THEOREM SolventInCallbacks == CallbackSpec => []VaultSolvent
<1>1. CallbackInit => CallbackInv /\ SolventThroughout
  <2>1. CallbackInit => CallbackInv
    BY VaultInitInv DEF CallbackInit, CallbackInv, Outside
  <2>2. CallbackInit => SolventThroughout
    BY InitBacked DEF CallbackInit, SolventThroughout, WaitingBacked
  <2> QED
    BY <2>1, <2>2
<1>2. CallbackInv /\ SolventThroughout /\ [CallbackNext]_callbackVars
        => SolventThroughout'
  <2> SUFFICES ASSUME CallbackInv, SolventThroughout, [CallbackNext]_callbackVars
               PROVE  SolventThroughout'
    OBVIOUS
  <2> USE AmountAssumption
  <2>1. ASSUME NEW g \in Guarantors, NEW amount \in Amounts, NEW fee \in Fees,
               BeginDeposit(g, amount, fee) \/ BeginPayment(g, amount, fee)
        PROVE  SolventThroughout'
    BY <2>1, BeginDepositBacked, BeginPaymentBacked
  <2>2. ASSUME NEW g \in Guarantors, NEW amount \in Amounts, NEW fee \in Fees,
               TransferToVault(g, amount, fee), UNCHANGED <<lock, frames>>
        PROVE  SolventThroughout'
    BY <2>2, OtherCallbacksBacked
  <2>3. ASSUME NEW g \in Guarantors, NEW amount \in Amounts, NEW c \in Contracts,
               CollateralCall(c, g, amount)
        PROVE  SolventThroughout'
    BY <2>3, OtherCallbacksBacked
  <2> QED
    BY <2>1, <2>2, <2>3, EndDepositBacked, RolledBackBacked, OtherCallbacksBacked
       DEF CallbackNext
<1>3. (CallbackInv /\ SolventThroughout) /\ [CallbackNext]_callbackVars
        => (CallbackInv /\ SolventThroughout)'
  BY <1>2, CallbackNextInv
<1>4. SolventThroughout => VaultSolvent
  BY DEF SolventThroughout
<1> QED
  BY <1>1, <1>3, <1>4, PTL DEF CallbackSpec

-----------------------------------------------------------------------------
\* Where collateral goes.

\* Whatever the token does in between, collateral leaves a record only when a
\* withdrawal or a forfeiture begins; a rollback never takes any, and undoes
\* what was done to the record of one guarantor.
THEOREM CollateralGoesWhereItMayInCallbacks == CallbackSpec => CollateralLeavesTwoWays
<1>1. ASSUME CallbackInv, CallbackNext, NEW g \in Guarantors
      PROVE  LeavesTwoWays(g)
  <2>1. vaults[g].collateral_balance \in Int /\ VaultInv
    BY <1>1 DEF CallbackInv, VaultInv, VaultTypeOK, Vault
  <2>2. CASE UNCHANGED vaults
    BY <2>1, <2>2 DEF LeavesTwoWays
  <2>3. ASSUME NEW h \in Guarantors, NEW amount \in Amounts, NEW fee \in Fees,
               BeginPayment(h, amount, fee)
        PROVE  LeavesTwoWays(g)
    BY <2>1, <2>3, WithdrawalLeaves, ForfeitureLeaves, AmountAssumption
       DEF BeginPayment
  <2>4. ASSUME NEW h \in Guarantors, NEW amount \in Amounts, NEW c \in Contracts,
               CollateralCall(c, h, amount)
        PROVE  LeavesTwoWays(g)
    <3>1. vaults[h] \in Vault /\ amount \in Int
      BY <2>1, AmountAssumption DEF VaultInv, VaultTypeOK
    <3>2. PICK v \in {AfterLock(vaults[h], amount), AfterRelease(vaults[h], amount)} :
             vaults' = [vaults EXCEPT ![h] = v]
      BY <2>4 DEF CollateralCall, LockCollateral, ReleaseCollateral
    <3>3. v.collateral_balance \in Int /\ v.collateral_balance >= vaults[h].collateral_balance
      BY <3>1, <3>2 DEF AfterLock, AfterRelease, Vault
    <3> QED
      BY <2>1, <3>2, <3>3, NothingLeaves
  <2>5. CASE EndDeposit
    <3>1. PICK call \in Frame : frames = <<call>> /\ call.amount > 0
      BY <1>1, <2>5 DEF CallbackInv, Outside, Inside, EndDeposit, Returns
    <3>2. /\ call.guarantor \in Guarantors /\ call.amount \in Int
          /\ vaults' = [vaults EXCEPT ![call.guarantor].collateral_balance
                                        = @ + call.amount]
      BY <2>5, <3>1, Innermost DEF EndDeposit, Frame
    <3>3. /\ vaults[call.guarantor] \in Vault
          /\ vaults \in [Guarantors -> Vault]
      BY <2>1, <3>2 DEF VaultInv, VaultTypeOK
    <3>4. vaults'[g].collateral_balance >= vaults[g].collateral_balance
      BY <2>1, <3>1, <3>2, <3>3 DEF Vault
    <3>5. vaults'[g].collateral_balance \in Int
      BY <2>1, <3>1, <3>2, <3>3 DEF Vault
    <3> QED
      BY <2>1, <3>4, <3>5 DEF LeavesTwoWays
  <2>6. CASE RolledBack
    <3>1. PICK call \in Frame : frames = <<call>> /\ Restorable(call.start)
      BY <1>1, <2>6 DEF CallbackInv, Outside, Inside, RolledBack
    <3>2. vaults' = call.start.vaults /\ call.start.vaults \in [Guarantors -> Vault]
      BY <2>6, <3>1, Innermost DEF RolledBack, Frame, Books
    <3>3. /\ vaults'[g].collateral_balance \in Int
          /\ vaults'[g].collateral_balance >= vaults[g].collateral_balance
      BY <3>1, <3>2 DEF Restorable, Vault
    <3> QED
      BY <2>1, <3>3 DEF LeavesTwoWays
  <2>7. ASSUME \/ \E h \in Guarantors, amount \in Amounts, fee \in Fees :
                     BeginDeposit(h, amount, fee) \/ TransferToVault(h, amount, fee)
               \/ EndPayment
               \/ BetweenTransactions
        PROVE  UNCHANGED vaults
    BY <2>7 DEF BeginDeposit, TransferToVault, EndPayment, BetweenTransactions,
                SetLoanLedger, SetVaultEngine, SetSettlement, TokenStanding,
                custody, vaultVars
  <2> QED
    BY <1>1, <2>2, <2>3, <2>4, <2>5, <2>6, <2>7 DEF CallbackNext
<1>2. ASSUME CallbackInv, CallbackNext, NEW g \in Guarantors
      PROVE  MovesAlone(g)
  <2>1. ASSUME NEW h \in Guarantors,
               \/ \E amount \in Amounts, fee \in Fees : BeginPayment(h, amount, fee)
               \/ \E amount \in Amounts, c \in Contracts : CollateralCall(c, h, amount)
        PROVE  MovesAlone(g)
    <3>1. VaultInv /\ 0 \in Nat
      BY <1>2 DEF CallbackInv
    <3>2. \A x \in Guarantors \ {h} : vaults'[x] = vaults[x]
      BY <2>1, <3>1, OneRecordWritten, AmountAssumption
         DEF BeginPayment, CollateralCall
    <3> QED
      BY <3>2, OneMovesAlone
  <2>2. CASE EndDeposit \/ RolledBack
    <3>1. PICK call \in Frame :
             /\ frames = <<call>>
             /\ \A x \in Guarantors \ {call.guarantor} :
                   call.start.vaults[x] = vaults[x]
      BY <1>2, <2>2 DEF CallbackInv, Outside, Inside, EndDeposit, Returns, RolledBack
    <3>2. /\ call.guarantor \in Guarantors
          /\ vaults \in [Guarantors -> Vault]
      BY <1>2 DEF Frame, CallbackInv, VaultInv, VaultTypeOK
    <3>3. \A x \in Guarantors \ {call.guarantor} : vaults'[x] = vaults[x]
      BY <2>2, <3>1, <3>2, Innermost DEF EndDeposit, RolledBack
    <3> QED
      BY <3>2, <3>3, OneMovesAlone
  <2>3. CASE UNCHANGED vaults
    BY <2>3 DEF MovesAlone
  <2> QED
    BY <1>2, <2>1, <2>2, <2>3
       DEF CallbackNext, BeginDeposit, TransferToVault, EndPayment,
           BetweenTransactions, SetLoanLedger, SetVaultEngine, SetSettlement,
           TokenStanding, custody, vaultVars
<1>3. CallbackInv /\ [CallbackNext]_callbackVars
        => [\A g \in Guarantors : KeptApart(g)]_vaultVars
  BY <1>1, <1>2 DEF callbackVars, MovesAlone, LeavesTwoWays, KeptApart
<1> QED
  BY <1>3, CallbackInvariance, PTL
     DEF CallbackSpec, CollateralLeavesTwoWays, KeptApart

=============================================================================
