-------------------------- MODULE VaultReentrancy --------------------------
(***************************************************************************)
(* The vault with a token that runs other code during a transfer, which    *)
(* may call the vault again and catch the refusal: what the re-entrancy    *)
(* guard is for, were the host to allow re-entry.                          *)
(*                                                                         *)
(* An entry point that moves tokens is broken where the token has moved    *)
(* them and the vault waits for it to return; what happens in that time    *)
(* commutes with the movement itself.  Calls in progress are a stack.  A   *)
(* call that panics is rolled back by the host with all it nested.  The    *)
(* admin and the token's issuer act between transactions.                  *)
(***************************************************************************)
EXTENDS GuarantorVault, Sequences

VARIABLES lock,  \* DataKey::ReentrancyLock is set
          frames \* the calls that wait for the token, innermost first

callbackVars == <<vaultVars, lock, frames>>

Books == [vaults : [Guarantors -> Vault], usdc : [Accounts -> Nat], lock : BOOLEAN]
Frame == [pays : BOOLEAN, guarantor : Guarantors, amount : Int,
          balance_before : Nat, start : Books]

CallbackInit ==
    /\ VaultInit
    /\ lock = FALSE
    /\ frames = <<>>

\* Mutant: whoever calls.
AlwaysFree == TRUE

\* ReentrancyGuard::enter: no call that holds the guard is in progress.
GuardFree == ~lock

\* The guard is taken for a call that now waits for the token.
Waits(pays, g, amount) ==
    LET start == [vaults |-> vaults, usdc |-> usdc, lock |-> lock]
    IN  /\ lock' = TRUE
        /\ frames' = <<[pays |-> pays, guarantor |-> g, amount |-> amount,
                        balance_before |-> usdc[VaultAddr], start |-> start]>>
                       \o frames

\* Mutant: nothing removes the key.
StaysTaken == frames # <<>> /\ frames' = Tail(frames) /\ UNCHANGED lock

\* The innermost call returns and drops its guard.
Returns == frames # <<>> /\ frames' = Tail(frames) /\ lock' = FALSE

-----------------------------------------------------------------------------
BeginDeposit(guarantor, amount, fee) ==
    /\ GuardFree
    /\ amount > 0
    /\ CanTransfer(guarantor, VaultAddr, amount, fee)
    /\ usdc' = Transfer(guarantor, VaultAddr, amount, fee)
    /\ Waits(FALSE, guarantor, amount)
    /\ UNCHANGED <<vaults, vaultWiring>>

\* The record is read and written only now, after the balance was compared.
EndDeposit ==
    LET call == Head(frames)
    IN  /\ Returns
        /\ ~call.pays
        /\ usdc[VaultAddr] - call.balance_before = call.amount
        /\ vaults' = [vaults EXCEPT ![call.guarantor].collateral_balance
                                      = @ + call.amount]
        /\ UNCHANGED <<usdc, vaultWiring>>

\* withdraw and forfeit_collateral save the record before the token is called.
BeginPayment(guarantor, amount, fee) ==
    /\ GuardFree
    /\ \/ Withdraw(guarantor, amount, fee)
       \/ \E c \in Contracts : ForfeitCollateral(c, guarantor, amount, fee)
    /\ Waits(TRUE, guarantor, amount)

EndPayment == Returns /\ Head(frames).pays /\ UNCHANGED vaultVars

\* The innermost call panics, or the token does: the host undoes what happened
\* since the call began, and the transaction fails or the caller goes on.
RolledBack ==
    /\ frames # <<>>
    /\ LET start == Head(frames).start
       IN  /\ vaults' = start.vaults /\ usdc' = start.usdc /\ lock' = start.lock
    /\ frames' = Tail(frames)
    /\ UNCHANGED vaultWiring

\* lock_collateral and release_collateral call nobody.
CollateralCall(c, guarantor, amount) ==
    /\ GuardFree
    /\ LockCollateral(c, guarantor, amount) \/ ReleaseCollateral(c, guarantor, amount)
    /\ UNCHANGED <<lock, frames>>

BetweenTransactions ==
    /\ frames = <<>>
    /\ \/ \E c \in Contracts : SetLoanLedger(c) \/ SetVaultEngine(c)
       \/ \E a \in Settlements : SetSettlement(a)
       \/ \E a \in MayFreeze : TokenStanding(a)
    /\ UNCHANGED <<lock, frames>>

CallbackNext ==
    \/ \E g \in Guarantors, amount \in Amounts, fee \in Fees :
          \/ BeginDeposit(g, amount, fee)
          \/ BeginPayment(g, amount, fee)
          \/ TransferToVault(g, amount, fee) /\ UNCHANGED <<lock, frames>>
    \/ \E g \in Guarantors, amount \in Amounts, c \in Contracts :
          CollateralCall(c, g, amount)
    \/ EndDeposit
    \/ EndPayment
    \/ RolledBack
    \/ BetweenTransactions

CallbackSpec == CallbackInit /\ [][CallbackNext]_callbackVars

-----------------------------------------------------------------------------
\* The lock is set exactly while one call waits for the token: no way out of a
\* call, by return or by panic, caught or not, leaves it set, and none clears
\* it while an outer call still needs it.
LockedDuringOneCall ==
    /\ Len(frames) <= 1
    /\ lock <=> frames # <<>>

=============================================================================
