-------------------------- MODULE EscrowRefinement --------------------------
(***************************************************************************)
(* The three contracts implement CollateralEscrow.  A guarantor's free     *)
(* collateral is what the vault lets it withdraw; a loan's escrow is in no *)
(* single contract's storage: the vault pools a guarantor's locks in one   *)
(* locked_amount, the ledger keeps what each loan has locked and released, *)
(* and the engine divides the rest.                                        *)
(***************************************************************************)
EXTENDS RemitProperties

\* The escrow a loan record stands for.
EscrowOf(loan) ==
    [owner  |-> loan.guarantor,
     debt   |-> Outstanding(loan),
     held   |-> Remaining(loan),
     seized |-> IF loan.status = "Defaulted" THEN LossOn(loan) ELSE 0,
     open   |-> IsOpen(loan)]

freeCollateral == [g \in Guarantors |-> Available(vaults[g])]
EscrowsOf(records) == [id \in 1 .. Len(records) |-> EscrowOf(records[id])]
loanEscrows == EscrowsOf(loans)

Escrow == INSTANCE CollateralEscrow
            WITH free <- freeCollateral, escrows <- loanEscrows,
                 FullyBacked <- (MinLtvBps >= BPS)

\* Every step of guarantors, borrowers, cranks and admins is one of the
\* escrows' own steps or leaves them alone: collateral moves between a free
\* part and the escrow of one loan, never between two loans or guarantors,
\* and a liquidation seizes what that loan still owed, or all its escrow held
\* when that is less.
ImplementsEscrow == Escrow!EscrowSpec

=============================================================================
