-------------------------- MODULE CollateralEscrow --------------------------
(***************************************************************************)
(* What guarantors and borrowers are promised, without contracts, token,   *)
(* roles, clock or roundings.  A guarantor has free collateral and, for    *)
(* each debt it backs, an escrow of its own.  An escrow only shrinks: part *)
(* by part into the guarantor's free collateral while the debt is paid, or *)
(* at once when it is not, less no more than what is still owed.           *)
(***************************************************************************)
EXTENDS Integers, Sequences

CONSTANTS
    Guarantors,
    Amounts,     \* what may be funded at once
    Principals,  \* what may be owed
    FullyBacked  \* no debt is ever more than what its escrow holds

VARIABLES free, escrows

escrowVars == <<free, escrows>>

EscrowInit ==
    /\ free = [g \in Guarantors |-> 0]
    /\ escrows = <<>>

Holding(owner, debt, held, seized, open) ==
    [owner |-> owner, debt |-> debt, held |-> held, seized |-> seized, open |-> open]

Backs(held, debt) == FullyBacked => debt <= held

Fund(g, amount) ==
    /\ amount > 0
    /\ free' = [free EXCEPT ![g] = @ + amount]
    /\ UNCHANGED escrows

TakeBack(g) ==
    /\ \E amount \in 1 .. free[g] : free' = [free EXCEPT ![g] = @ - amount]
    /\ UNCHANGED escrows

OpenEscrow(g, debt) ==
    \E held \in 1 .. free[g] :
        /\ debt > 0 /\ Backs(held, debt)
        /\ free' = [free EXCEPT ![g] = @ - held]
        /\ escrows' = Append(escrows, Holding(g, debt, held, 0, TRUE))

\* A payment of `paid` earns back some of the escrow, the last one all of it.
EarnBack(i) ==
    LET e == escrows[i]
    IN  \E paid \in 1 .. e.debt, back \in 0 .. e.held :
          /\ e.open
          /\ paid = e.debt => back = e.held
          /\ Backs(e.held - back, e.debt - paid)
          /\ escrows' = [escrows EXCEPT ![i] =
                           Holding(e.owner, e.debt - paid, e.held - back,
                                   0, paid # e.debt)]
          /\ free' = [free EXCEPT ![e.owner] = @ + back]

\* The debt is written off against its own escrow; what is left goes back.
Seize(i) ==
    LET e    == escrows[i]
        loss == IF e.debt < e.held THEN e.debt ELSE e.held
    IN  /\ e.open
        /\ escrows' = [escrows EXCEPT ![i] =
                         Holding(e.owner, e.debt, 0, loss, FALSE)]
        /\ free' = [free EXCEPT ![e.owner] = @ + (e.held - loss)]

EscrowNext ==
    \/ \E g \in Guarantors, amount \in Amounts : Fund(g, amount)
    \/ \E g \in Guarantors : TakeBack(g)
    \/ \E g \in Guarantors, debt \in Principals : OpenEscrow(g, debt)
    \/ \E i \in 1 .. Len(escrows) : EarnBack(i) \/ Seize(i)

EscrowSpec == EscrowInit /\ [][EscrowNext]_escrowVars

=============================================================================
