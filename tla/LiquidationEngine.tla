-------------------------- MODULE LiquidationEngine --------------------------
(***************************************************************************)
(* contracts/liquidation_engine: the permissionless cranks.  A crank is    *)
(* one transaction across the three contracts: a vault or ledger call that *)
(* fails reverts all of it, so every callee's guard guards the crank.      *)
(***************************************************************************)
EXTENDS LoanLedger

CONSTANT EngineAddr \* current_contract_address() of the engine

ASSUME EngineAssumption == EngineAddr # None /\ EngineAddr # LedgerAddr

VARIABLE isPaused \* DataKey::IsPaused; an absent entry reads as FALSE

EngineInit == isPaused = FALSE

Pause == isPaused' = TRUE
Unpause == isPaused' = FALSE

-----------------------------------------------------------------------------
\* How a liquidation divides the collateral still locked.

\* Mutants: the whole remainder; what is owed, locked or not.
ForfeitedWhole(loan) == Remaining(loan)
ForfeitedUncapped(loan) == Outstanding(loan)

ForfeitedOf(loan) == Smaller(Outstanding(loan), Remaining(loan))

\* Mutant: the forfeited part is returned too.
ReturnedWhole(loan) == Remaining(loan)

ReturnedOf(loan) == Remaining(loan) - ForfeitedOf(loan)

\* The guarantor's vault record once the forfeited part is gone, and once the
\* rest is returned.  The vault is called only for positive amounts.
AfterSeizure(loan) ==
    LET vault == vaults[loan.guarantor]
    IN  IF ForfeitedOf(loan) > 0 THEN AfterForfeit(vault, ForfeitedOf(loan)) ELSE vault

AfterReturn(loan) ==
    IF ReturnedOf(loan) > 0
    THEN AfterRelease(AfterSeizure(loan), ReturnedOf(loan))
    ELSE AfterSeizure(loan)

-----------------------------------------------------------------------------
\* Everything that can refuse each crank, whichever contract refuses.

CanFlag(id) == ~isPaused /\ Overdue(id) /\ CanMarkGrace(EngineAddr, id)

CanLiquidate(id, fee) ==
    LET loan      == loans[id]
        forfeited == ForfeitedOf(loan)
        returned  == ReturnedOf(loan)
    IN  /\ ~isPaused /\ GraceExpired(id) /\ IsRegisteredEngine(EngineAddr)
        /\ forfeited > 0 => /\ IsEngine(EngineAddr)
                            /\ CanForfeit(vaults[loan.guarantor], forfeited)
                            /\ CanTransfer(VaultAddr, settlement, forfeited, fee)
        /\ returned > 0 => /\ IsLedgerOrEngine(EngineAddr)
                           /\ CanRelease(AfterSeizure(loan), returned)

\* Start the grace period of an overdue loan.
FlagOverdue(id) ==
    /\ CanFlag(id)
    /\ MarkGrace(EngineAddr, id)
    /\ UNCHANGED <<vaultVars, isPaused>>

\* Mutant: the vault's refusals are ignored.
LiquidateWithoutVault(id, fee) ==
    /\ ~isPaused
    /\ MarkDefaulted(EngineAddr, id)
    /\ UNCHANGED <<vaultVars, isPaused>>

\* Forfeit what is owed, return the rest, then close the loan.
Liquidate(id, fee) ==
    LET loan == loans[id]
    IN  /\ CanLiquidate(id, fee)
        /\ vaults' = [vaults EXCEPT ![loan.guarantor] = AfterReturn(loan)]
        /\ usdc' = IF ForfeitedOf(loan) > 0
                   THEN Transfer(VaultAddr, settlement, ForfeitedOf(loan), fee)
                   ELSE usdc
        /\ MarkDefaulted(EngineAddr, id)
        /\ UNCHANGED <<vaultWiring, isPaused>>

\* Whichever transition the loan is due for; a poke that finds none, or finds
\* the engine paused, returns false and changes nothing.
Poke(id, fee) ==
    \/ Overdue(id) /\ FlagOverdue(id)
    \/ ~Overdue(id) /\ GraceExpired(id) /\ Liquidate(id, fee)

=============================================================================
