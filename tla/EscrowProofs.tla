---------------------------- MODULE EscrowProofs ----------------------------
(***************************************************************************)
(* What becomes of the collateral, for every configuration the constructor *)
(* accepts, every set of users, inputs and bounds.  A handful of kinds of  *)
(* step touch the vault's records, its tokens or the loans; what each does *)
(* to all three is one lemma.  From these: the protocol implements         *)
(* CollateralEscrow, the vault stays solvent, its book and the ledger's    *)
(* agree, and each guarantor pays for its own defaulted loans only.        *)
(***************************************************************************)
EXTENDS EscrowRefinement, RemitProofs

-----------------------------------------------------------------------------
\* What a step does to a loan and to its guarantor's vault record.

\* An open loan owes something, its escrow is not overdrawn, and with a floor
\* of at least 100% the escrow backs the debt.
LEMMA OpenLoanBooks ==
    ASSUME NEW loan \in Loan, LoanInv(loan), IsOpen(loan)
    PROVE  /\ Outstanding(loan) = loan.principal_usd - loan.total_repaid_usd
           /\ Outstanding(loan) \in Nat \ {0}
           /\ Remaining(loan) \in Nat
           /\ loan.collateral_released = Releasable(loan, loan.total_repaid_usd)
           /\ MinLtvBps >= BPS => Outstanding(loan) <= Remaining(loan)
<1> DEFINE P == loan.principal_usd
           L == loan.collateral_locked
           r == loan.total_repaid_usd
           q == Earned(L, r, P, SafetyBufferBps)
<1>1. /\ P \in Nat /\ L \in Nat /\ r \in Nat /\ r < P /\ loan.ltv_bps \in Nat
      /\ loan.collateral_released = Releasable(loan, r)
      /\ Releasable(loan, r) = q
      /\ SafetyBufferBps \in Nat /\ SafetyBufferBps < BPS
  <2>1. /\ P \in Nat /\ L \in Nat /\ r \in Nat /\ loan.ltv_bps \in Nat
        /\ SafetyBufferBps \in Nat /\ SafetyBufferBps < BPS
    BY ConfigAssumption DEF Loan
  <2>2. r < P /\ loan.collateral_released = Releasable(loan, r)
    BY Zenon DEF LoanInv, ProgressInv
  <2>3. ~(r >= P)
    BY <2>1, <2>2
  <2>4. Releasable(loan, r) = q
    BY <2>3, Zenon DEF Releasable
  <2> QED
    BY <2>1, <2>2, <2>4, Zenon
<1>2. q \in Nat /\ q * P <= L * r /\ L * r <= L * P
  <2> HIDE DEF P, L, r
  <2>1. q \in Nat /\ q * P <= L * r
    BY <1>1, EarnedAtMostShare
  <2>2. L * r <= L * P
    BY <1>1, ProductMonotone
  <2> QED
    BY <2>1, <2>2
<1>3. ASSUME MinLtvBps >= BPS PROVE P - r <= L - q
  <2>1. loan.ltv_bps >= BPS
    BY <1>1, <1>3, ConfigAssumption DEF LoanInv, TermsInv, BPS
  <2>2. L >= P
    BY <1>1, <2>1, CollateralCoversPrincipal DEF LoanInv, TermsInv
  <2> QED
    BY <1>1, <2>2, EarnedLeavesTheDebtCovered
<1> HIDE DEF P, L, r, q
<1>4. q <= L
  <2>1. q * P <= L * P
    <3>1. L * r \in Nat /\ L * P \in Nat /\ q * P \in Nat
      BY <1>1, <1>2, ProductIsNat
    <3> QED
      BY <1>2, <3>1
  <2> QED
    BY <1>1, <1>2, <2>1
<1> QED
  BY <1>1, <1>2, <1>3, <1>4 DEF Outstanding, Remaining, P, L, r

\* What a repayment leaves in the record of the loan's money.
LEMMA RepaidBooks ==
    ASSUME now \in Nat, NEW loan \in Loan, LoanInv(loan), IsOpen(loan),
           NEW amount \in Int, amount > 0,
           loan.total_repaid_usd + amount <= loan.principal_usd
    PROVE  LET new == Settled(Credited(loan, amount))
           IN  /\ new.guarantor = loan.guarantor
               /\ new.principal_usd = loan.principal_usd
               /\ new.collateral_locked = loan.collateral_locked
               /\ new.total_repaid_usd = loan.total_repaid_usd + amount
               /\ new.collateral_released =
                     Releasable(loan, loan.total_repaid_usd + amount)
               /\ new.collateral_released >= loan.collateral_released
               /\ new.status # "Defaulted"
               /\ IsOpen(new) <=> loan.total_repaid_usd + amount # loan.principal_usd
<1> DEFINE mid   == Credited(loan, amount)
           new   == Settled(mid)
           total == loan.total_repaid_usd + amount
           due   == NextDue(mid, mid.installments_paid)
<1>1. /\ mid \in Loan
      /\ mid = [loan EXCEPT !.total_repaid_usd = total,
                   !.installments_paid = mid.installments_paid,
                   !.collateral_released = mid.collateral_released]
      /\ mid.total_repaid_usd = total
      /\ mid.collateral_released = Releasable(loan, total)
  BY CreditedFields
<1>2. mid.collateral_released >= loan.collateral_released
  <2> DEFINE releasable == Releasable(loan, total)
  <2>1. mid.collateral_released =
           IF releasable > loan.collateral_released
           THEN releasable ELSE loan.collateral_released
    BY DEF Credited, Loan
  <2>2. mid.collateral_released \in Int /\ loan.collateral_released \in Int
        /\ mid.collateral_released = releasable
    BY <1>1 DEF Loan
  <2> HIDE DEF releasable, mid
  <2> QED
    BY <2>1, <2>2
<1>3. new = IF mid.total_repaid_usd >= mid.principal_usd
            THEN [mid EXCEPT !.status = "Repaid", !.grace_expires_at = 0]
            ELSE IF now <= due
            THEN [mid EXCEPT !.next_due = due, !.status = "Active",
                             !.grace_expires_at = 0]
            ELSE [mid EXCEPT !.next_due = due]
  BY DEF Settled
<1> HIDE DEF mid, new, due
<1>4. /\ total \in Int /\ total <= loan.principal_usd /\ loan.principal_usd \in Nat
      /\ loan.status \in {"Active", "Grace"}
  BY DEF Loan, IsOpen
<1> HIDE DEF total
<1>5. /\ mid.guarantor = loan.guarantor /\ mid.status = loan.status
      /\ mid.principal_usd = loan.principal_usd
      /\ mid.collateral_locked = loan.collateral_locked
  BY <1>1 DEF Loan
<1>6. /\ new.guarantor = mid.guarantor /\ new.principal_usd = mid.principal_usd
      /\ new.collateral_locked = mid.collateral_locked
      /\ new.total_repaid_usd = mid.total_repaid_usd
      /\ new.collateral_released = mid.collateral_released
  BY <1>1, <1>3 DEF Loan
<1>7. CASE total = loan.principal_usd
  <2>1. new.status = "Repaid"
    BY <1>1, <1>3, <1>4, <1>5, <1>7 DEF Loan
  <2> QED
    BY <1>1, <1>2, <1>5, <1>6, <1>7, <2>1 DEF IsOpen, total, new, mid
<1>8. CASE total # loan.principal_usd
  <2>1. new.status \in {"Active", "Grace"}
    BY <1>1, <1>3, <1>4, <1>5, <1>8 DEF Loan
  <2> QED
    BY <1>1, <1>2, <1>5, <1>6, <1>8, <2>1 DEF IsOpen, total, new, mid
<1> QED
  BY <1>7, <1>8

\* The kinds of step that move collateral, and no others.
Originates ==
    \E g \in Guarantors, b \in Beneficiaries, a \in Agents,
       principal \in Principals, count \in InstallmentCounts,
       interval \in Intervals :
          Originate(g, b, a, principal, count, interval)

Repays ==
    \E p, v \in Agents, id \in LoanIds, amount \in Amounts :
       AttestRepayment(p, v, id, amount)

Liquidates == \E id \in LoanIds, fee \in Fees : Liquidate(id, fee)

MovesFreely ==
    /\ UNCHANGED loans
    /\ \E g \in Guarantors, amount \in Amounts, fee \in Fees :
          Deposit(g, amount, fee) \/ Withdraw(g, amount, fee)

\* A loan's partner or its standing changes, and none of its money.
ChangesStanding ==
    /\ UNCHANGED <<vaults, usdc>>
    /\ \E id \in LoanIds, new \in Loan :
          /\ loans' = [loans EXCEPT ![id] = new]
          /\ IsOpen(loans[id]) /\ IsOpen(new)
          /\ new.guarantor = loans[id].guarantor
          /\ Outstanding(new) = Outstanding(loans[id])
          /\ Remaining(new) = Remaining(loans[id])

MovesNothing == UNCHANGED <<vaults, usdc, loans>>

\* A reassignment and a flag change the standing of one loan.
LEMMA StandingOnly ==
    ASSUME IInv, NEW id \in LoanIds,
           \/ \E a \in Agents : ReassignPartner(id, a) /\ UNCHANGED vaultVars
           \/ FlagOverdue(id)
    PROVE  ChangesStanding
<1>1. UNCHANGED <<vaults, usdc>>
  BY DEF vaultVars, FlagOverdue
<1>2. ASSUME NEW new \in Loan,
             loans' = [loans EXCEPT ![id] = new], IsOpen(new), IsOpen(loans[id]),
             /\ new.guarantor = loans[id].guarantor
             /\ new.principal_usd = loans[id].principal_usd
             /\ new.total_repaid_usd = loans[id].total_repaid_usd
             /\ new.collateral_locked = loans[id].collateral_locked
             /\ new.collateral_released = loans[id].collateral_released
      PROVE  ChangesStanding
  <2>1. /\ Outstanding(new) = Outstanding(loans[id])
        /\ Remaining(new) = Remaining(loans[id])
    BY <1>2 DEF Outstanding, Remaining
  <2> QED
    BY <1>1, <1>2, <2>1, Zenon DEF ChangesStanding
<1>3. ASSUME NEW a \in Agents, ReassignPartner(id, a)
      PROVE  ChangesStanding
  <2> DEFINE new == [loans[id] EXCEPT !.partner = a]
  <2>1. /\ loans[id] \in Loan /\ LoanInv(loans[id]) /\ IsOpen(loans[id])
        /\ loans' = [loans EXCEPT ![id] = new]
    BY <1>3, LoanIsTyped DEF IInv, ReassignPartner
  <2>2. new \in Loan /\ IsOpen(new)
    BY <2>1, ReassignedInv
  <2>3. /\ new.guarantor = loans[id].guarantor
        /\ new.principal_usd = loans[id].principal_usd
        /\ new.total_repaid_usd = loans[id].total_repaid_usd
        /\ new.collateral_locked = loans[id].collateral_locked
        /\ new.collateral_released = loans[id].collateral_released
    BY <2>1 DEF Loan
  <2> HIDE DEF new
  <2> QED
    BY <1>2, <2>1, <2>2, <2>3
<1>4. CASE FlagOverdue(id)
  <2> DEFINE new == InGrace(loans[id])
  <2>1. /\ loans[id] \in Loan /\ LoanInv(loans[id]) /\ IsOpen(loans[id])
        /\ loans[id].status = "Active" /\ now > loans[id].next_due /\ now \in Nat
        /\ loans' = [loans EXCEPT ![id] = new]
    BY <1>4, LoanIsTyped DEF IInv, LedgerInv, FlagOverdue, CanFlag, MarkGrace, Overdue, IsOpen
  <2>2. new \in Loan /\ IsOpen(new)
    BY <2>1, InGraceInv
  <2>3. /\ new.guarantor = loans[id].guarantor
        /\ new.principal_usd = loans[id].principal_usd
        /\ new.total_repaid_usd = loans[id].total_repaid_usd
        /\ new.collateral_locked = loans[id].collateral_locked
        /\ new.collateral_released = loans[id].collateral_released
    BY <2>1 DEF Loan, InGrace
  <2> HIDE DEF new
  <2> QED
    BY <1>2, <2>1, <2>2, <2>3
<1> QED
  BY <1>3, <1>4

\* Every step of the protocol is of one of these kinds.
LEMMA CollateralSteps ==
    ASSUME IInv, [Next]_vars
    PROVE  \/ Originates \/ Repays \/ Liquidates
           \/ MovesFreely \/ ChangesStanding \/ MovesNothing
<1>1. CASE UseVault
  BY <1>1 DEF UseVault, ledgerVars, MovesFreely
<1>2. CASE OpenLoan \/ Repay
  BY <1>2 DEF OpenLoan, Repay, Originates, Repays
<1>3. CASE Crank
  <2>1. PICK id \in LoanIds :
           FlagOverdue(id) \/ \E fee \in Fees : Liquidate(id, fee) \/ Poke(id, fee)
    BY <1>3 DEF Crank
  <2>2. FlagOverdue(id) \/ \E fee \in Fees : Liquidate(id, fee)
    BY <2>1 DEF Poke
  <2> QED
    BY <2>2, StandingOnly DEF Liquidates
<1>4. CASE ManageRoles
  <2>1. CASE \E id \in LoanIds, a \in Agents : ReassignPartner(id, a)
    BY <1>4, <2>1, StandingOnly DEF ManageRoles
  <2>2. CASE ~(\E id \in LoanIds, a \in Agents : ReassignPartner(id, a))
    BY <1>4, <2>2
       DEF ManageRoles, SetOracle, SetPartner, SetVerifier, vaultVars, MovesNothing
  <2> QED
    BY <2>1, <2>2
<1>5. CASE \/ Tick \/ WireVault \/ WireLedger \/ PauseEngine \/ PublishScore
          \/ ChangeSettlement \/ ChangeStanding \/ UNCHANGED vars
  BY <1>5
     DEF Tick, WireVault, SetLoanLedger, SetVaultEngine, WireLedger,
         SetLedgerEngine, PauseEngine, PublishScore, SetReputation,
         ChangeSettlement, SetSettlement, ChangeStanding, TokenStanding,
         vars, vaultVars, custody, ledgerVars, MovesNothing
<1> QED
  BY <1>1, <1>2, <1>3, <1>4, <1>5 DEF Next, UserNext

\* An origination locks the whole of what it records.
LEMMA OriginationLocks ==
    ASSUME IInv, Originates
    PROVE  \E g \in Guarantors, new \in Loan :
              /\ LoanInv(new) /\ IsOpen(new)
              /\ new.guarantor = g
              /\ Outstanding(new) \in Principals
              /\ Remaining(new) > 0 /\ Remaining(new) <= Available(vaults[g])
              /\ loans' = Append(loans, new)
              /\ LockCollateral(LedgerAddr, g, Remaining(new))
<1> PICK g \in Guarantors, b \in Beneficiaries, a \in Agents,
         principal \in Principals, count \in InstallmentCounts,
         interval \in Intervals :
            Originate(g, b, a, principal, count, interval)
  BY DEF Originates
<1> DEFINE new  == NewLoan(g, b, a, principal, count, interval)
           held == new.collateral_locked
<1>1. principal \in Int /\ count \in Nat /\ interval \in Nat
  BY InputAssumption
<1>2. /\ principal > 0 /\ ScheduleAllowed(count, interval)
      /\ OriginationFits(new)
      /\ LockCollateral(LedgerAddr, g, held)
      /\ loans' = Append(loans, new)
  BY DEF Originate
<1>3. new \in Loan /\ LoanInv(new) /\ IsOpen(new)
  BY <1>1, <1>2, NewLoanInv DEF IInv, NewLoan, IsOpen
<1>4. /\ new.guarantor = g /\ new.principal_usd = principal
      /\ new.total_repaid_usd = 0 /\ new.collateral_released = 0
  BY DEF NewLoan
<1> HIDE DEF new
<1>5. held \in Nat
  BY <1>3 DEF Loan
<1>6. Outstanding(new) = principal /\ Remaining(new) = held
  BY <1>1, <1>2, <1>4, <1>5 DEF Outstanding, Remaining
<1>7. held > 0 /\ held <= Available(vaults[g])
  BY <1>2 DEF LockCollateral, CanLock
<1> QED
  BY <1>2, <1>3, <1>4, <1>6, <1>7

\* A repayment lowers the debt by the amount and frees some of the collateral,
\* all of it when it closes the loan.
LEMMA RepaidMoney ==
    ASSUME now \in Nat, NEW loan \in Loan, LoanInv(loan), IsOpen(loan),
           NEW amount \in Int, amount > 0,
           loan.total_repaid_usd + amount <= loan.principal_usd
    PROVE  LET new  == Settled(Credited(loan, amount))
               back == new.collateral_released - loan.collateral_released
           IN  /\ new \in Loan /\ new.guarantor = loan.guarantor
               /\ new.status # "Defaulted"
               /\ amount \in 1 .. Outstanding(loan)
               /\ Outstanding(new) = Outstanding(loan) - amount
               /\ IsOpen(new) <=> amount # Outstanding(loan)
               /\ Remaining(loan) \in Nat /\ back \in 0 .. Remaining(loan)
               /\ Remaining(new) = Remaining(loan) - back
               /\ ~IsOpen(new) => Remaining(new) = 0
               /\ MinLtvBps >= BPS => Outstanding(new) <= Remaining(new)
<1> DEFINE new  == Settled(Credited(loan, amount))
           back == new.collateral_released - loan.collateral_released
<1>1. /\ new.guarantor = loan.guarantor
      /\ new.principal_usd = loan.principal_usd
      /\ new.collateral_locked = loan.collateral_locked
      /\ new.total_repaid_usd = loan.total_repaid_usd + amount
      /\ new.collateral_released = Releasable(loan, loan.total_repaid_usd + amount)
      /\ new.collateral_released >= loan.collateral_released
      /\ new.status # "Defaulted"
      /\ IsOpen(new) <=> loan.total_repaid_usd + amount # loan.principal_usd
  BY RepaidBooks
<1>2. new \in Loan /\ LoanInv(new)
  BY RepaidInv
<1>3. /\ Outstanding(loan) = loan.principal_usd - loan.total_repaid_usd
      /\ Outstanding(loan) \in Nat \ {0} /\ Remaining(loan) \in Nat
  BY OpenLoanBooks
<1> HIDE DEF new
<1>4. /\ loan.principal_usd \in Nat /\ loan.total_repaid_usd \in Nat
      /\ loan.collateral_locked \in Nat /\ loan.collateral_released \in Nat
      /\ new.collateral_released \in Nat
  BY <1>2 DEF Loan
<1>5. /\ back \in Nat
      /\ Outstanding(new) = Outstanding(loan) - amount
      /\ Remaining(new) = Remaining(loan) - back
  <2>1. back \in Nat
    BY <1>1, <1>4
  <2>2. Outstanding(new) = Outstanding(loan) - amount
    <3>1. Outstanding(new) =
             IF loan.principal_usd > loan.total_repaid_usd + amount
             THEN loan.principal_usd - (loan.total_repaid_usd + amount) ELSE 0
      BY <1>1, Zenon DEF Outstanding
    <3> QED
      BY <1>3, <1>4, <3>1
  <2>3. Remaining(new) = loan.collateral_locked - new.collateral_released
    BY <1>1, Zenon DEF Remaining
  <2>4. Remaining(loan) = loan.collateral_locked - loan.collateral_released
    BY DEF Remaining
  <2> QED
    BY <1>4, <2>1, <2>2, <2>3, <2>4
<1>6. /\ amount \in 1 .. Outstanding(loan)
      /\ IsOpen(new) <=> amount # Outstanding(loan)
  BY <1>1, <1>3, <1>4
<1>7. /\ Remaining(new) \in Nat
      /\ ~IsOpen(new) => Remaining(new) = 0
      /\ MinLtvBps >= BPS => Outstanding(new) <= Remaining(new)
  <2>1. CASE IsOpen(new)
    BY <1>2, <2>1, OpenLoanBooks
  <2>2. CASE ~IsOpen(new)
    <3>1. new.collateral_released = loan.collateral_locked
      BY <1>1, <1>4, <2>2 DEF Releasable
    <3>2. Remaining(new) = 0 /\ Outstanding(new) = 0
      BY <1>1, <1>3, <1>4, <1>5, <1>6, <2>2, <3>1 DEF Remaining
    <3> QED
      BY <3>2
  <2> QED
    BY <2>1, <2>2
<1> HIDE DEF back
<1>8. back \in 0 .. Remaining(loan)
  BY <1>3, <1>5, <1>7
<1> QED
  BY <1>1, <1>2, <1>3, <1>5, <1>6, <1>7, <1>8 DEF new, back

\* attest_repayment releases from the vault's record what the loan frees.
LEMMA RepaymentMoves ==
    ASSUME IInv, Repays
    PROVE  \E id \in LoanIds, new \in Loan, amount, back \in Nat :
              LET loan == loans[id]
              IN  /\ loan \in Loan /\ IsOpen(loan)
                  /\ new.guarantor = loan.guarantor /\ new.status # "Defaulted"
                  /\ amount \in 1 .. Outstanding(loan)
                  /\ Outstanding(new) = Outstanding(loan) - amount
                  /\ IsOpen(new) <=> amount # Outstanding(loan)
                  /\ Remaining(loan) \in Nat /\ back <= Remaining(loan)
                  /\ Remaining(new) = Remaining(loan) - back
                  /\ ~IsOpen(new) => Remaining(new) = 0
                  /\ MinLtvBps >= BPS => Outstanding(new) <= Remaining(new)
                  /\ loans' = [loans EXCEPT ![id] = new]
                  /\ IF back > 0
                     THEN ReleaseCollateral(LedgerAddr, loan.guarantor, back)
                     ELSE UNCHANGED vaultVars
<1> PICK p \in Agents, v \in Agents, id \in LoanIds, amount \in Amounts :
       AttestRepayment(p, v, id, amount)
  BY DEF Repays
<1> DEFINE loan == loans[id]
           new  == Settled(Credited(loan, amount))
           back == new.collateral_released - loan.collateral_released
<1>1. loan \in Loan /\ LoanInv(loan) /\ amount \in Int /\ now \in Nat
  BY LoanIsTyped, AmountAssumption DEF IInv, LedgerInv
<1>2. /\ amount > 0 /\ IsOpen(loan)
      /\ loan.total_repaid_usd + amount <= loan.principal_usd
      /\ IF back > 0 THEN ReleaseCollateral(LedgerAddr, loan.guarantor, back)
                     ELSE UNCHANGED vaultVars
      /\ loans' = [loans EXCEPT ![id] = new]
  BY DEF AttestRepayment, CanAttest
<1>3. /\ new \in Loan /\ new.guarantor = loan.guarantor
      /\ new.status # "Defaulted"
      /\ amount \in 1 .. Outstanding(loan)
      /\ Outstanding(new) = Outstanding(loan) - amount
      /\ IsOpen(new) <=> amount # Outstanding(loan)
      /\ Remaining(loan) \in Nat /\ back \in 0 .. Remaining(loan)
      /\ Remaining(new) = Remaining(loan) - back
      /\ ~IsOpen(new) => Remaining(new) = 0
      /\ MinLtvBps >= BPS => Outstanding(new) <= Remaining(new)
  BY <1>1, <1>2, RepaidMoney
<1> HIDE DEF new, back, loan
<1>4. amount \in Nat /\ back \in Nat /\ back <= Remaining(loan)
  BY <1>1, <1>2, <1>3
<1> QED
  BY <1>1, <1>2, <1>3, <1>4, Zenon DEF loan

\* How a liquidation divides what an open loan still has locked.
LEMMA Division ==
    ASSUME NEW loan \in Loan, LoanInv(loan), IsOpen(loan)
    PROVE  /\ ForfeitedOf(loan) = IF Outstanding(loan) < Remaining(loan)
                                  THEN Outstanding(loan) ELSE Remaining(loan)
           /\ ForfeitedOf(loan) \in Nat /\ ReturnedOf(loan) \in Nat
           /\ Remaining(loan) \in Nat
           /\ ForfeitedOf(loan) + ReturnedOf(loan) = Remaining(loan)
<1>1. Outstanding(loan) \in Nat /\ Remaining(loan) \in Nat
  BY OpenLoanBooks
<1>2. ForfeitedOf(loan) = IF Outstanding(loan) < Remaining(loan)
                          THEN Outstanding(loan) ELSE Remaining(loan)
  BY DEF ForfeitedOf, Smaller
<1>3. ReturnedOf(loan) = Remaining(loan) - ForfeitedOf(loan)
  BY DEF ReturnedOf
<1> QED
  BY <1>1, <1>2, <1>3

\* liquidate pays the forfeited part out of the record and unlocks the rest.
LEMMA LiquidationMoves ==
    ASSUME IInv, Liquidates
    PROVE  \E id \in LoanIds, new \in Loan, fee \in Fees, v \in Vault :
              LET loan == loans[id]
                  g    == loan.guarantor
              IN  /\ loan \in Loan /\ LoanInv(loan) /\ IsOpen(loan)
                  /\ g \in Guarantors /\ new.guarantor = g
                  /\ new.status = "Defaulted" /\ ~IsOpen(new)
                  /\ Outstanding(new) = Outstanding(loan)
                  /\ Remaining(new) = 0
                  /\ LossOn(new) = ForfeitedOf(loan)
                  /\ loans' = [loans EXCEPT ![id] = new]
                  /\ v.collateral_balance
                        = vaults[g].collateral_balance - ForfeitedOf(loan)
                  /\ v.locked_amount = vaults[g].locked_amount - Remaining(loan)
                  /\ vaults' = [vaults EXCEPT ![g] = v]
                  /\ IF ForfeitedOf(loan) > 0
                     THEN /\ CanTransfer(VaultAddr, settlement, ForfeitedOf(loan), fee)
                          /\ usdc' = Transfer(VaultAddr, settlement,
                                              ForfeitedOf(loan), fee)
                     ELSE UNCHANGED usdc
<1> PICK id \in LoanIds, fee \in Fees : Liquidate(id, fee)
  BY DEF Liquidates
<1> DEFINE loan      == loans[id]
           g         == loan.guarantor
           new       == AfterDefault(loan)
           vault     == vaults[g]
           forfeited == ForfeitedOf(loan)
           returned  == ReturnedOf(loan)
           seized    == AfterSeizure(loan)
           settled   == AfterReturn(loan)
<1>1. /\ loan \in Loan /\ LoanInv(loan) /\ IsOpen(loan) /\ g \in Guarantors
      /\ vaults \in [Guarantors -> Vault] /\ vault \in Vault
  BY LoanIsTyped
     DEF IInv, VaultInv, VaultTypeOK, Loan, Liquidate, CanLiquidate, GraceExpired, IsOpen
<1>2. /\ vaults' = [vaults EXCEPT ![g] = settled]
      /\ loans' = [loans EXCEPT ![id] = new]
      /\ IF forfeited > 0
         THEN /\ CanTransfer(VaultAddr, settlement, forfeited, fee)
              /\ usdc' = Transfer(VaultAddr, settlement, forfeited, fee)
         ELSE UNCHANGED usdc
  BY DEF Liquidate, CanLiquidate, MarkDefaulted
<1>3. /\ forfeited = IF Outstanding(loan) < Remaining(loan)
                     THEN Outstanding(loan) ELSE Remaining(loan)
      /\ forfeited \in Nat /\ returned \in Nat /\ Remaining(loan) \in Nat
      /\ forfeited + returned = Remaining(loan)
  BY <1>1, Division
<1>4. new \in Loan /\ ~IsOpen(new)
  BY <1>1, AfterDefaultInv
<1>5. /\ new.guarantor = g /\ new.principal_usd = loan.principal_usd
      /\ new.total_repaid_usd = loan.total_repaid_usd
      /\ new.collateral_locked = loan.collateral_locked
      /\ new.collateral_released = loan.collateral_locked
      /\ new.status = "Defaulted"
      /\ loan.collateral_locked \in Int
  BY <1>1 DEF AfterDefault, Loan
<1> HIDE DEF new
<1>6. /\ Outstanding(new) = Outstanding(loan)
      /\ Remaining(new) = 0
      /\ LossOn(new) = forfeited
  <2>1. Outstanding(new) = Outstanding(loan) /\ Remaining(new) = 0
    BY <1>5 DEF Outstanding, Remaining
  <2>2. Releasable(new, new.total_repaid_usd) = loan.collateral_released
    <3>1. loan.collateral_released = Releasable(loan, loan.total_repaid_usd)
      BY <1>1, OpenLoanBooks
    <3> QED
      BY <1>5, <3>1 DEF Releasable
  <2>3. new.collateral_locked - Releasable(new, new.total_repaid_usd)
          = Remaining(loan)
    BY <1>5, <2>2 DEF Remaining
  <2> QED
    BY <2>1, <2>3, Zenon DEF LossOn, ForfeitedOf
<1>7. /\ seized = IF forfeited > 0 THEN AfterForfeit(vault, forfeited) ELSE vault
      /\ settled = IF returned > 0 THEN AfterRelease(seized, returned) ELSE seized
  BY Zenon DEF AfterSeizure, AfterReturn
<1> HIDE DEF forfeited, returned, vault, seized, settled
<1>8. /\ seized \in Vault
      /\ seized.collateral_balance = vault.collateral_balance - forfeited
      /\ seized.locked_amount = vault.locked_amount - forfeited
  <2>1. CASE forfeited > 0
    <3>1. seized = AfterForfeit(vault, forfeited)
      BY <1>7, <2>1, Zenon
    <3> QED
      BY <1>1, <1>3, <3>1 DEF AfterForfeit, Vault
  <2>2. CASE ~(forfeited > 0)
    <3>1. seized = vault
      BY <1>7, <2>2, Zenon
    <3>2. forfeited = 0 /\ vault \in Vault
      BY <1>1, <1>3, <2>2
    <3> QED
      BY <3>1, <3>2 DEF Vault
  <2> QED
    BY <2>1, <2>2
<1>9. /\ settled \in Vault
      /\ settled.collateral_balance = seized.collateral_balance
      /\ settled.locked_amount = seized.locked_amount - returned
  <2>1. CASE returned > 0
    <3>1. settled = AfterRelease(seized, returned)
      BY <1>7, <2>1, Zenon
    <3> QED
      BY <1>3, <1>8, <3>1 DEF AfterRelease, Vault
  <2>2. CASE ~(returned > 0)
    <3>1. settled = seized
      BY <1>7, <2>2, Zenon
    <3> QED
      BY <1>3, <1>8, <2>2, <3>1 DEF Vault
  <2> QED
    BY <2>1, <2>2
<1>10. /\ settled.collateral_balance = vault.collateral_balance - forfeited
      /\ settled.locked_amount = vault.locked_amount - Remaining(loan)
  BY <1>1, <1>3, <1>8, <1>9 DEF Vault
<1> HIDE DEF loan
<1> QED
  BY <1>1, <1>2, <1>4, <1>5, <1>6, <1>9, <1>10, Zenon DEF loan, forfeited, vault

-----------------------------------------------------------------------------
\* The protocol implements CollateralEscrow: the two halves of the mapping.

\* The escrows of a sequence of loan records are a sequence.
LEMMA EscrowsAreASequence ==
    ASSUME NEW records \in Seq(Loan)
    PROVE  /\ EscrowsOf(records) \in Seq({EscrowOf(loan) : loan \in Loan})
           /\ Len(EscrowsOf(records)) = Len(records)
           /\ DOMAIN EscrowsOf(records) = 1 .. Len(records)
           /\ \A id \in 1 .. Len(records) :
                 EscrowsOf(records)[id] = EscrowOf(records[id])
<1> DEFINE S == {EscrowOf(loan) : loan \in Loan}
           n == Len(records)
<1>1. n \in Nat /\ \A id \in 1 .. n : records[id] \in Loan
  BY LenProperties, ElementOfSeq
<1>2. EscrowsOf(records) \in [1 .. n -> S]
  BY <1>1 DEF EscrowsOf
<1>3. EscrowsOf(records) \in Seq(S)
  BY <1>1, <1>2, SeqDef
<1>4. DOMAIN EscrowsOf(records) = 1 .. n
  BY DEF EscrowsOf
<1>5. Len(EscrowsOf(records)) = n
  <2>1. /\ DOMAIN EscrowsOf(records) = 1 .. Len(EscrowsOf(records))
        /\ Len(EscrowsOf(records)) \in Nat
    BY <1>3, LenProperties
  <2> QED
    BY <1>1, <1>4, <2>1
<1> QED
  BY <1>3, <1>4, <1>5 DEF EscrowsOf

\* Updating one loan record updates one escrow.
LEMMA OneEscrowChanges ==
    ASSUME loans \in Seq(Loan), NEW id \in LoanIds, NEW new \in Loan,
           loans' = [loans EXCEPT ![id] = new]
    PROVE  loanEscrows' = [loanEscrows EXCEPT ![id] = EscrowOf(new)]
<1>1. /\ Len(loans') = Len(loans)
      /\ \A j \in 1 .. Len(loans) : loans'[j] = IF j = id THEN new ELSE loans[j]
  BY ExceptSeq DEF LoanIds
<1>2. loanEscrows' = [j \in 1 .. Len(loans) |-> EscrowOf(loans'[j])]
  BY <1>1 DEF loanEscrows, EscrowsOf
<1>3. [loanEscrows EXCEPT ![id] = EscrowOf(new)] =
         [j \in 1 .. Len(loans) |-> IF j = id THEN EscrowOf(new)
                                             ELSE EscrowOf(loans[j])]
  BY DEF loanEscrows, EscrowsOf
<1>4. \A j \in 1 .. Len(loans) :
         EscrowOf(loans'[j]) = IF j = id THEN EscrowOf(new) ELSE EscrowOf(loans[j])
  BY <1>1
<1> QED
  BY <1>2, <1>3, <1>4

\* A new loan record opens a new escrow.
LEMMA OneEscrowMore ==
    ASSUME loans \in Seq(Loan), NEW new \in Loan, loans' = Append(loans, new)
    PROVE  loanEscrows' = Append(loanEscrows, EscrowOf(new))
<1> DEFINE S == {EscrowOf(loan) : loan \in Loan}
           n == Len(loans)
<1>1. /\ loans' \in Seq(Loan) /\ n \in Nat /\ Len(loans') = n + 1
      /\ \A j \in 1 .. n : loans'[j] = loans[j]
      /\ loans'[n + 1] = new
  BY AppendProperties, LenProperties
<1>2. /\ loanEscrows' \in Seq(S) /\ Len(loanEscrows') = n + 1
      /\ \A j \in 1 .. n + 1 : loanEscrows'[j] = EscrowOf(loans'[j])
  BY <1>1, EscrowsAreASequence DEF loanEscrows
<1>3. /\ loanEscrows \in Seq(S) /\ Len(loanEscrows) = n
      /\ \A j \in 1 .. n : loanEscrows[j] = EscrowOf(loans[j])
  BY EscrowsAreASequence DEF loanEscrows
<1>4. EscrowOf(new) \in S
  OBVIOUS
<1>5. /\ Append(loanEscrows, EscrowOf(new)) \in Seq(S)
      /\ Len(Append(loanEscrows, EscrowOf(new))) = n + 1
      /\ \A j \in 1 .. n :
            Append(loanEscrows, EscrowOf(new))[j] = loanEscrows[j]
      /\ Append(loanEscrows, EscrowOf(new))[n + 1] = EscrowOf(new)
  <2> HIDE DEF S
  <2> QED
    BY <1>3, <1>4, AppendProperties
<1> HIDE DEF S, n
<1>6. \A j \in 1 .. n :
         loanEscrows'[j] = Append(loanEscrows, EscrowOf(new))[j]
  <2>1. \A j \in 1 .. n : j \in 1 .. n + 1
    BY <1>1
  <2> QED
    BY <1>1, <1>2, <1>3, <1>5, <2>1
<1>7. loanEscrows'[n + 1] = Append(loanEscrows, EscrowOf(new))[n + 1]
  <2>1. n + 1 \in 1 .. n + 1
    BY <1>1
  <2> QED
    BY <1>1, <1>2, <1>5, <2>1
<1>8. \A j \in 1 .. n + 1 :
         loanEscrows'[j] = Append(loanEscrows, EscrowOf(new))[j]
  <2>1. \A j \in 1 .. n + 1 : j \in 1 .. n \/ j = n + 1
    BY <1>1
  <2> QED
    BY <1>6, <1>7, <2>1
<1> QED
  BY <1>2, <1>5, <1>8, SeqEqual

\* A guarantor's free collateral moves by what its vault record makes available.
LEMMA FreeCollateralMoves ==
    ASSUME vaults \in [Guarantors -> Vault], NEW g \in Guarantors,
           NEW v \in Vault, vaults' = [vaults EXCEPT ![g] = v],
           NEW delta \in Int, Available(v) = Available(vaults[g]) + delta
    PROVE  freeCollateral' = [freeCollateral EXCEPT ![g] = freeCollateral[g] + delta]
<1>1. \A h \in Guarantors :
         Available(vaults'[h]) = IF h = g THEN freeCollateral[g] + delta
                                          ELSE freeCollateral[h]
  BY DEF freeCollateral
<1>2. freeCollateral' = [h \in Guarantors |-> Available(vaults'[h])]
  BY DEF freeCollateral, Available
<1>3. [freeCollateral EXCEPT ![g] = freeCollateral[g] + delta] =
         [h \in Guarantors |-> IF h = g THEN freeCollateral[g] + delta
                                        ELSE freeCollateral[h]]
  BY DEF freeCollateral
<1> QED
  BY <1>1, <1>2, <1>3

\* A change of a loan's standing or partner is none of its escrow.
LEMMA StandingIsNoneOfTheEscrow ==
    ASSUME IInv, ChangesStanding
    PROVE  UNCHANGED <<freeCollateral, loanEscrows>>
<1> PICK id \in LoanIds, new \in Loan :
       /\ loans' = [loans EXCEPT ![id] = new]
       /\ IsOpen(loans[id]) /\ IsOpen(new)
       /\ new.guarantor = loans[id].guarantor
       /\ Outstanding(new) = Outstanding(loans[id])
       /\ Remaining(new) = Remaining(loans[id])
  BY DEF ChangesStanding
<1>1. UNCHANGED freeCollateral
  BY DEF ChangesStanding, freeCollateral, Available
<1>2. EscrowOf(new) = EscrowOf(loans[id])
  <2>1. IsOpen(new) = TRUE /\ IsOpen(loans[id]) = TRUE
        /\ new.status # "Defaulted" /\ loans[id].status # "Defaulted"
    BY DEF IsOpen
  <2> QED
    BY <2>1 DEF EscrowOf
<1>3. loanEscrows' = [loanEscrows EXCEPT ![id] = EscrowOf(loans[id])]
  BY <1>2, OneEscrowChanges DEF IInv, LedgerInv
<1>4. loanEscrows = [j \in 1 .. Len(loans) |-> EscrowOf(loans[j])]
  BY DEF loanEscrows, EscrowsOf
<1> QED
  BY <1>1, <1>3, <1>4 DEF LoanIds

-----------------------------------------------------------------------------
\* Each kind of step is one step of the escrows.

\* A deposit funds.
LEMMA DepositFunds ==
    ASSUME IInv, NEW g \in Guarantors, NEW amount \in Amounts, NEW fee \in Fees,
           Deposit(g, amount, fee), UNCHANGED loans
    PROVE  Escrow!Fund(g, amount)
<1> DEFINE v == [vaults[g] EXCEPT !.collateral_balance = @ + amount]
<1>1. /\ amount \in Int /\ amount > 0
      /\ vaults \in [Guarantors -> Vault] /\ vaults[g] \in Vault
      /\ vaults' = [vaults EXCEPT ![g] = v]
  BY AmountAssumption DEF Deposit, IInv, VaultInv, VaultTypeOK
<1>2. v \in Vault /\ Available(v) = Available(vaults[g]) + amount
  BY <1>1 DEF Vault, Available
<1> HIDE DEF v
<1>3. freeCollateral' = [freeCollateral EXCEPT ![g] = freeCollateral[g] + amount]
  BY <1>1, <1>2, FreeCollateralMoves
<1>4. UNCHANGED loanEscrows
  BY DEF loanEscrows, EscrowsOf
<1> QED
  BY <1>1, <1>3, <1>4 DEF Escrow!Fund

\* A withdrawal takes back.
LEMMA WithdrawTakesBack ==
    ASSUME IInv, NEW g \in Guarantors, NEW amount \in Amounts, NEW fee \in Fees,
           Withdraw(g, amount, fee), UNCHANGED loans
    PROVE  Escrow!TakeBack(g)
<1> DEFINE v == [vaults[g] EXCEPT !.collateral_balance = @ - amount]
<1>1. /\ amount \in Int /\ amount > 0 /\ amount <= Available(vaults[g])
      /\ vaults \in [Guarantors -> Vault] /\ vaults[g] \in Vault
      /\ vaults' = [vaults EXCEPT ![g] = v]
  BY AmountAssumption DEF Withdraw, CanWithdraw, IInv, VaultInv, VaultTypeOK
<1>2. v \in Vault /\ Available(v) = Available(vaults[g]) + (-amount)
  BY <1>1 DEF Vault, Available
<1> HIDE DEF v
<1>3. freeCollateral' =
         [freeCollateral EXCEPT ![g] = freeCollateral[g] + (-amount)]
  <2>1. -amount \in Int
    BY <1>1
  <2> QED
    BY <1>1, <1>2, <2>1, FreeCollateralMoves, Zenon
<1>4. freeCollateral[g] = Available(vaults[g]) /\ freeCollateral[g] \in Int
  BY <1>1 DEF freeCollateral, Available, Vault
<1>5. freeCollateral' = [freeCollateral EXCEPT ![g] = freeCollateral[g] - amount]
      /\ amount \in 1 .. freeCollateral[g]
  <2>1. freeCollateral[g] + (-amount) = freeCollateral[g] - amount
        /\ amount \in 1 .. freeCollateral[g]
    BY <1>1, <1>4
  <2> QED
    BY <1>3, <2>1, Zenon
<1>6. UNCHANGED loanEscrows
  BY DEF loanEscrows, EscrowsOf
<1> QED
  BY <1>5, <1>6 DEF Escrow!TakeBack

\* An origination opens an escrow, for the whole of the debt.
LEMMA OriginationOpens ==
    ASSUME IInv, Originates
    PROVE  \E g \in Guarantors, debt \in Principals : Escrow!OpenEscrow(g, debt)
<1>1. PICK g \in Guarantors, new \in Loan :
         /\ LoanInv(new) /\ IsOpen(new)
         /\ new.guarantor = g
         /\ Outstanding(new) \in Principals
         /\ Remaining(new) > 0 /\ Remaining(new) <= Available(vaults[g])
         /\ loans' = Append(loans, new)
         /\ LockCollateral(LedgerAddr, g, Remaining(new))
  BY OriginationLocks
<1> DEFINE principal == Outstanding(new)
           held      == Remaining(new)
           v         == AfterLock(vaults[g], held)
<1>2. /\ principal > 0 /\ held \in Nat
      /\ MinLtvBps >= BPS => principal <= held
  <2>1. principal \in Nat \ {0} /\ held \in Nat
        /\ (MinLtvBps >= BPS => principal <= held)
    BY <1>1, OpenLoanBooks
  <2> QED
    BY <2>1
<1>3. EscrowOf(new) = [owner |-> g, debt |-> principal, held |-> held,
                       seized |-> 0, open |-> TRUE]
  <2>1. IsOpen(new) = TRUE /\ new.status # "Defaulted"
    BY <1>1 DEF IsOpen
  <2> QED
    BY <1>1, <2>1 DEF EscrowOf
<1>4. loanEscrows' = Append(loanEscrows,
                            [owner |-> g, debt |-> principal, held |-> held,
                             seized |-> 0, open |-> TRUE])
  BY <1>1, <1>3, OneEscrowMore DEF IInv, LedgerInv
<1>5. /\ vaults' = [vaults EXCEPT ![g] = v]
      /\ vaults \in [Guarantors -> Vault] /\ vaults[g] \in Vault
  BY <1>1 DEF LockCollateral, IInv, VaultInv, VaultTypeOK
<1> HIDE DEF principal, held
<1>6. v \in Vault /\ Available(v) = Available(vaults[g]) + (-held)
  BY <1>2, <1>5 DEF AfterLock, Vault, Available
<1> HIDE DEF v
<1>7. freeCollateral' =
         [freeCollateral EXCEPT ![g] = freeCollateral[g] + (-held)]
  <2>1. -held \in Int
    BY <1>2
  <2> QED
    BY <1>5, <1>6, <2>1, FreeCollateralMoves, Zenon
<1>8. freeCollateral[g] = Available(vaults[g]) /\ freeCollateral[g] \in Int
  BY <1>5 DEF freeCollateral, Available, Vault
<1>9. freeCollateral' = [freeCollateral EXCEPT ![g] = freeCollateral[g] - held]
      /\ held \in 1 .. freeCollateral[g]
  <2>1. freeCollateral[g] + (-held) = freeCollateral[g] - held
        /\ held \in 1 .. freeCollateral[g]
    BY <1>1, <1>2, <1>8 DEF held
  <2> QED
    BY <1>7, <2>1, Zenon
<1>10. Escrow!OpenEscrow(g, principal)
  BY <1>2, <1>4, <1>9 DEF Escrow!OpenEscrow, Escrow!Backs, Escrow!Holding
<1> QED
  BY <1>1, <1>10 DEF principal

\* A repayment earns back.
LEMMA RepaymentEarnsBack ==
    ASSUME IInv, Repays
    PROVE  \E id \in LoanIds : Escrow!EarnBack(id)
<1>1. PICK id \in LoanIds, new \in Loan, amount \in Nat, back \in Nat :
         LET loan == loans[id]
         IN  /\ loan \in Loan /\ IsOpen(loan)
             /\ new.guarantor = loan.guarantor /\ new.status # "Defaulted"
             /\ amount \in 1 .. Outstanding(loan)
             /\ Outstanding(new) = Outstanding(loan) - amount
             /\ IsOpen(new) <=> amount # Outstanding(loan)
             /\ Remaining(loan) \in Nat /\ back <= Remaining(loan)
             /\ Remaining(new) = Remaining(loan) - back
             /\ ~IsOpen(new) => Remaining(new) = 0
             /\ MinLtvBps >= BPS => Outstanding(new) <= Remaining(new)
             /\ loans' = [loans EXCEPT ![id] = new]
             /\ IF back > 0
                THEN ReleaseCollateral(LedgerAddr, loan.guarantor, back)
                ELSE UNCHANGED vaultVars
  BY RepaymentMoves
<1> DEFINE loan == loans[id]
           g    == loan.guarantor
           e    == loanEscrows[id]
<1>2. e = [owner |-> g, debt |-> Outstanding(loan), held |-> Remaining(loan),
           seized |-> 0, open |-> TRUE]
  <2>1. e = EscrowOf(loan)
    BY DEF loanEscrows, EscrowsOf, LoanIds
  <2>2. loan.status # "Defaulted" /\ IsOpen(loan) = TRUE
    BY <1>1 DEF IsOpen
  <2> QED
    BY <2>1, <2>2 DEF EscrowOf
<1>3. EscrowOf(new) = [owner |-> g, debt |-> Outstanding(loan) - amount,
                       held |-> Remaining(loan) - back,
                       seized |-> 0, open |-> amount # Outstanding(loan)]
  <2>1. IsOpen(new) = (amount # Outstanding(loan))
    BY <1>1 DEF IsOpen
  <2> QED
    BY <1>1, <2>1 DEF EscrowOf
<1>4. loanEscrows' =
         [loanEscrows EXCEPT ![id] =
            Escrow!Holding(e.owner, e.debt - amount, e.held - back, 0,
                           amount # e.debt)]
  <2>1. loanEscrows' = [loanEscrows EXCEPT ![id] = EscrowOf(new)]
    BY <1>1, OneEscrowChanges DEF IInv, LedgerInv
  <2>2. e.owner = g /\ e.debt = Outstanding(loan) /\ e.held = Remaining(loan)
    BY <1>2
  <2> HIDE DEF e, g, loan
  <2> QED
    BY <1>3, <2>1, <2>2, Zenon DEF Escrow!Holding
<1>5. g \in Guarantors
  BY <1>1 DEF Loan
<1>6. freeCollateral' = [freeCollateral EXCEPT ![g] = freeCollateral[g] + back]
  <2>1. vaults \in [Guarantors -> Vault] /\ vaults[g] \in Vault
    BY <1>5 DEF IInv, VaultInv, VaultTypeOK
  <2>2. PICK w \in Vault : /\ vaults' = [vaults EXCEPT ![g] = w]
                           /\ Available(w) = Available(vaults[g]) + back
    <3>1. CASE back > 0
      <4> DEFINE w == AfterRelease(vaults[g], back)
      <4>1. vaults' = [vaults EXCEPT ![g] = w]
        BY <1>1, <3>1 DEF ReleaseCollateral
      <4>2. w \in Vault /\ Available(w) = Available(vaults[g]) + back
        BY <2>1 DEF AfterRelease, Vault, Available
      <4> HIDE DEF w
      <4> QED
        BY <4>1, <4>2
    <3>2. CASE ~(back > 0)
      <4>1. back = 0 /\ vaults' = [vaults EXCEPT ![g] = vaults[g]]
        BY <1>1, <2>1, <3>2 DEF vaultVars
      <4>2. Available(vaults[g]) = Available(vaults[g]) + back
        BY <2>1, <4>1 DEF Vault, Available
      <4> QED
        BY <2>1, <4>1, <4>2
    <3> QED
      BY <3>1, <3>2
  <2>3. back \in Int
    OBVIOUS
  <2> HIDE DEF g
  <2> QED
    BY <1>5, <2>1, <2>2, <2>3, FreeCollateralMoves, Zenon
<1> HIDE DEF e, g
<1>7. /\ amount \in 1 .. e.debt /\ back \in 0 .. e.held /\ e.open
      /\ e.owner = g
      /\ amount = e.debt => back = e.held
      /\ MinLtvBps >= BPS => e.debt - amount <= e.held - back
  BY <1>1, <1>2
<1> QED
  BY <1>4, <1>6, <1>7 DEF Escrow!EarnBack, Escrow!Backs, e

\* A liquidation seizes what is owed, and no more than was locked.
LEMMA LiquidationSeizes ==
    ASSUME IInv, Liquidates
    PROVE  \E id \in LoanIds : Escrow!Seize(id)
<1>1. PICK id \in LoanIds, new \in Loan, v \in Vault :
         LET loan == loans[id]
             g    == loan.guarantor
         IN  /\ loan \in Loan /\ LoanInv(loan) /\ IsOpen(loan)
             /\ g \in Guarantors /\ new.guarantor = g
             /\ new.status = "Defaulted" /\ ~IsOpen(new)
             /\ Outstanding(new) = Outstanding(loan)
             /\ Remaining(new) = 0
             /\ LossOn(new) = ForfeitedOf(loan)
             /\ loans' = [loans EXCEPT ![id] = new]
             /\ v.collateral_balance
                   = vaults[g].collateral_balance - ForfeitedOf(loan)
             /\ v.locked_amount = vaults[g].locked_amount - Remaining(loan)
             /\ vaults' = [vaults EXCEPT ![g] = v]
  BY LiquidationMoves
<1> DEFINE loan      == loans[id]
           g         == loan.guarantor
           forfeited == ForfeitedOf(loan)
           returned  == ReturnedOf(loan)
           e         == loanEscrows[id]
           loss      == IF e.debt < e.held THEN e.debt ELSE e.held
<1>2. /\ forfeited = IF Outstanding(loan) < Remaining(loan)
                     THEN Outstanding(loan) ELSE Remaining(loan)
      /\ forfeited \in Nat /\ returned \in Nat /\ Remaining(loan) \in Nat
      /\ forfeited + returned = Remaining(loan)
  BY <1>1, Division
<1>3. e = [owner |-> g, debt |-> Outstanding(loan), held |-> Remaining(loan),
           seized |-> 0, open |-> TRUE]
  <2>1. e = EscrowOf(loan)
    BY DEF loanEscrows, EscrowsOf, LoanIds
  <2>2. loan.status # "Defaulted" /\ IsOpen(loan) = TRUE
    BY <1>1 DEF IsOpen
  <2> QED
    BY <2>1, <2>2 DEF EscrowOf
<1>4. EscrowOf(new) = [owner |-> g, debt |-> Outstanding(loan), held |-> 0,
                       seized |-> forfeited, open |-> FALSE]
  <2>1. IsOpen(new) = FALSE
    BY <1>1 DEF IsOpen
  <2> QED
    BY <1>1, <2>1 DEF EscrowOf
<1>5. loanEscrows' = [loanEscrows EXCEPT ![id] = EscrowOf(new)]
  BY <1>1, OneEscrowChanges DEF IInv, LedgerInv
<1> HIDE DEF forfeited, returned
<1>6. vaults \in [Guarantors -> Vault] /\ vaults[g] \in Vault
  BY <1>1 DEF IInv, VaultInv, VaultTypeOK
<1>7. Available(v) = Available(vaults[g]) + returned
  BY <1>1, <1>2, <1>6 DEF Available, Vault, forfeited
<1>8. freeCollateral' =
         [freeCollateral EXCEPT ![g] = freeCollateral[g] + returned]
  <2>1. returned \in Int /\ g \in Guarantors /\ vaults' = [vaults EXCEPT ![g] = v]
    BY <1>1, <1>2
  <2> HIDE DEF g
  <2> QED
    BY <1>6, <1>7, <2>1, FreeCollateralMoves, Zenon
<1> HIDE DEF e, loan, g
<1>9. /\ e.open /\ e.owner = g
      /\ e.debt = Outstanding(loan) /\ e.held = Remaining(loan)
  BY <1>3
<1>10. loss = forfeited
  BY <1>2, <1>9, Zenon
<1>11. e.held - loss = returned
  BY <1>2, <1>9, <1>10
<1>12. EscrowOf(new) = Escrow!Holding(e.owner, e.debt, 0, loss, FALSE)
  <2> HIDE DEF loss
  <2> QED
    BY <1>4, <1>9, <1>10, Zenon DEF Escrow!Holding
<1> QED
  BY <1>5, <1>8, <1>9, <1>10, <1>11, <1>12 DEF Escrow!Seize, e

\* The contracts start with no collateral and no loans.
LEMMA InitHasNoEscrow == Init => Escrow!EscrowInit
<1> SUFFICES ASSUME Init PROVE Escrow!EscrowInit
  OBVIOUS
<1>1. /\ vaults = [g \in Guarantors |-> EmptyVault] /\ loans = <<>>
  BY DEF Init, VaultInit, LedgerInit
<1>2. freeCollateral = [g \in Guarantors |-> 0]
  BY <1>1 DEF freeCollateral, Available, EmptyVault
<1>3. loanEscrows = <<>>
  <2>1. loanEscrows \in Seq({EscrowOf(loan) : loan \in Loan})
        /\ Len(loanEscrows) = 0
    BY <1>1, EmptySeq, EscrowsAreASequence DEF loanEscrows
  <2> QED
    BY <2>1, EmptySeq
<1> QED
  BY <1>2, <1>3 DEF Escrow!EscrowInit

\* Every step of the protocol is a step of the escrows, or leaves them alone.
LEMMA StepsAreEscrowSteps ==
    IInv /\ [Next]_vars => [Escrow!EscrowNext]_(Escrow!escrowVars)
<1> SUFFICES ASSUME IInv, [Next]_vars
             PROVE  [Escrow!EscrowNext]_(Escrow!escrowVars)
  OBVIOUS
<1>1. Len(loanEscrows) = Len(loans)
  BY EscrowsAreASequence DEF loanEscrows, IInv, LedgerInv
<1>2. CASE Originates
  BY <1>2, OriginationOpens DEF Escrow!EscrowNext
<1>3. CASE Repays
  BY <1>1, <1>3, RepaymentEarnsBack DEF Escrow!EscrowNext, LoanIds
<1>4. CASE Liquidates
  BY <1>1, <1>4, LiquidationSeizes DEF Escrow!EscrowNext, LoanIds
<1>5. CASE MovesFreely
  BY <1>5, DepositFunds, WithdrawTakesBack DEF Escrow!EscrowNext, MovesFreely
<1>6. CASE ChangesStanding
  BY <1>6, StandingIsNoneOfTheEscrow DEF Escrow!escrowVars
<1>7. CASE MovesNothing
  BY <1>7 DEF MovesNothing, Escrow!escrowVars, freeCollateral, Available,
              loanEscrows, EscrowsOf
<1> QED
  BY <1>2, <1>3, <1>4, <1>5, <1>6, <1>7, CollateralSteps

\* The three contracts implement the escrow promise: whatever the roundings,
\* the slices, the order of the calls and the state of the wiring, collateral
\* moves only between a guarantor's free part and the escrow of one of its own
\* loans, and a liquidation seizes what that loan still owed, or all that its
\* escrow held when that is less.
THEOREM ContractsImplementEscrow == Spec => ImplementsEscrow
BY InitHasNoEscrow, StepsAreEscrowSteps, Invariance, PTL
   DEF Spec, ImplementsEscrow, Escrow!EscrowSpec

-----------------------------------------------------------------------------
\* Sums over the loans.

\* The sum over a sequence of loan records of what `value` gives each.
SumOver(records, value) ==
    SumFunction([id \in 1 .. Len(records) |-> value[records[id]]])

\* A sum over loan records is one over the interval of their ids.
LEMMA SumOverIds ==
    ASSUME NEW records \in Seq(Loan), NEW value \in [Loan -> Int]
    PROVE  LET f == [id \in 1 .. Len(records) |-> value[records[id]]]
           IN  /\ SumOver(records, value) = SumFunctionOnSet(f, 1 .. Len(records))
               /\ SumOver(records, value) \in Int
               /\ IsFiniteSet(1 .. Len(records))
               /\ \A id \in 1 .. Len(records) : f[id] \in Int
<1> DEFINE f == [id \in 1 .. Len(records) |-> value[records[id]]]
<1>1. Len(records) \in Nat /\ \A id \in 1 .. Len(records) : records[id] \in Loan
  BY LenProperties, ElementOfSeq
<1>2. IsFiniteSet(1 .. Len(records))
  BY <1>1, FS_Interval
<1>3. \A id \in 1 .. Len(records) : f[id] \in Int
  BY <1>1
<1>4. SumOver(records, value) = SumFunctionOnSet(f, 1 .. Len(records))
  BY DEF SumOver, SumFunction
<1> HIDE DEF f
<1>5. SumFunctionOnSet(f, 1 .. Len(records)) \in Int
  BY <1>2, <1>3, SumType
<1> QED
  BY <1>2, <1>3, <1>4, <1>5 DEF f

\* Replacing one record changes the sum by the difference of its values.
LEMMA SumOverUpdate ==
    ASSUME NEW records \in Seq(Loan), NEW value \in [Loan -> Int],
           NEW id \in 1 .. Len(records), NEW new \in Loan
    PROVE  SumOver([records EXCEPT ![id] = new], value)
              = SumOver(records, value) - value[records[id]] + value[new]
<1> DEFINE later == [records EXCEPT ![id] = new]
           f == [j \in 1 .. Len(records) |-> value[records[j]]]
           h == [j \in 1 .. Len(later) |-> value[later[j]]]
<1>1. /\ later \in Seq(Loan) /\ Len(later) = Len(records)
      /\ \A j \in 1 .. Len(records) :
            later[j] = IF j = id THEN new ELSE records[j]
  BY ExceptSeq
<1>2. /\ SumOver(records, value) = SumFunctionOnSet(f, 1 .. Len(records))
      /\ IsFiniteSet(1 .. Len(records))
      /\ \A j \in 1 .. Len(records) : f[j] \in Int
  BY SumOverIds
<1>3. /\ SumOver(later, value) = SumFunctionOnSet(h, 1 .. Len(later))
      /\ \A j \in 1 .. Len(later) : h[j] \in Int
  <2> HIDE DEF later
  <2> QED
    BY <1>1, SumOverIds
<1>4. /\ h[id] = value[new] /\ f[id] = value[records[id]]
      /\ \A j \in (1 .. Len(records)) \ {id} : h[j] = f[j]
  BY <1>1
<1> HIDE DEF later, f, h
<1>5. SumFunctionOnSet(h, 1 .. Len(records))
        = SumFunctionOnSet(f, 1 .. Len(records)) - f[id] + h[id]
  <2> DEFINE S == 1 .. Len(records)
  <2>1. /\ IsFiniteSet(S) /\ id \in S /\ h[id] \in Int
        /\ \A j \in S : f[j] \in Int
        /\ \A j \in S : h[j] \in Int
        /\ \A j \in S \ {id} : h[j] = f[j]
    BY <1>1, <1>2, <1>3, <1>4
  <2> HIDE DEF S
  <2>2. /\ SumFunctionOnSet(f, S) = f[id] + SumFunctionOnSet(f, S \ {id})
        /\ SumFunctionOnSet(f, S \ {id}) \in Int
        /\ SumFunctionOnSet(h, S) = h[id] + SumFunctionOnSet(h, S \ {id})
    BY <2>1, SumTakeOut
  <2>3. IsFiniteSet(S \ {id})
    BY <2>1, FS_RemoveElement
  <2>4. SumFunctionOnSet(h, S \ {id}) = SumFunctionOnSet(f, S \ {id})
    BY <2>1, <2>3, SumSame
  <2> QED
    BY <2>1, <2>2, <2>4 DEF S
<1> QED
  BY <1>1, <1>2, <1>3, <1>4, <1>5 DEF later

\* One more record adds its value.
LEMMA SumOverAppend ==
    ASSUME NEW records \in Seq(Loan), NEW value \in [Loan -> Int], NEW new \in Loan
    PROVE  SumOver(Append(records, new), value)
              = SumOver(records, value) + value[new]
<1> DEFINE later == Append(records, new)
           n == Len(records)
           f == [j \in 1 .. n |-> value[records[j]]]
           h == [j \in 1 .. Len(later) |-> value[later[j]]]
<1>1. /\ later \in Seq(Loan) /\ n \in Nat /\ Len(later) = n + 1
      /\ \A j \in 1 .. n : later[j] = records[j]
      /\ later[n + 1] = new
  BY AppendProperties, LenProperties
<1>2. /\ SumOver(records, value) = SumFunctionOnSet(f, 1 .. n)
      /\ IsFiniteSet(1 .. n)
      /\ \A j \in 1 .. n : f[j] \in Int
  BY SumOverIds
<1>3. /\ SumOver(later, value) = SumFunctionOnSet(h, 1 .. n + 1)
      /\ \A j \in 1 .. n + 1 : h[j] \in Int
  <2> HIDE DEF later, n
  <2> QED
    BY <1>1, SumOverIds
<1>4. /\ h[n + 1] = value[new]
      /\ \A j \in 1 .. n : h[j] = f[j]
  <2> HIDE DEF later, n
  <2> QED
    BY <1>1
<1> HIDE DEF later, f, h, n
<1>5. 1 .. n + 1 = (1 .. n) \cup {n + 1} /\ n + 1 \notin 1 .. n
  BY <1>1
<1>6. SumFunctionOnSet(h, 1 .. n + 1) = SumFunctionOnSet(h, 1 .. n) + h[n + 1]
  <2> DEFINE S == 1 .. n
             k == n + 1
  <2>1. /\ IsFiniteSet(S) /\ k \notin S /\ h[k] \in Int
        /\ \A j \in S : h[j] \in Int
    BY <1>1, <1>2, <1>3, <1>5
  <2> HIDE DEF S, k
  <2>2. SumFunctionOnSet(h, S \cup {k}) = SumFunctionOnSet(h, S) + h[k]
    BY <2>1, SumWithOneMore
  <2> QED
    BY <1>5, <2>2 DEF S, k
<1>7. SumFunctionOnSet(h, 1 .. n) = SumFunctionOnSet(f, 1 .. n)
  BY <1>2, <1>4, SumSame
<1> QED
  BY <1>2, <1>3, <1>4, <1>6, <1>7 DEF later

-----------------------------------------------------------------------------
\* The vault's book and the ledger's.

\* What each loan has locked of a guarantor's collateral, and what it cost it.
LockedOf(g) == [loan \in Loan |-> LockedFor(g, loan)]
CostOf(g) == [loan \in Loan |-> CostTo(g, loan)]

\* The guarantor's book in the vault agrees with the ledger's.
BooksAgree(g) == vaults[g].locked_amount = SumOver(loans, LockedOf(g))

\* What a guarantor has, and what its defaulted loans took from it.
Worth(g) == usdc[g] + vaults[g].collateral_balance + SumOver(loans, CostOf(g))

\* A loss on a loan is an integer.
LEMMA LossIsInt == ASSUME NEW loan \in Loan PROVE LossOn(loan) \in Int
<1> DEFINE P == loan.principal_usd
           L == loan.collateral_locked
           r == loan.total_repaid_usd
<1>1. /\ P \in Nat /\ L \in Nat /\ r \in Nat
      /\ SafetyBufferBps \in Nat /\ SafetyBufferBps < BPS
  BY ConfigAssumption DEF Loan
<1>2. Outstanding(loan) \in Int
  BY <1>1 DEF Outstanding
<1>3. Releasable(loan, r) \in Int
  <2>1. CASE r >= P
    BY <1>1, <2>1 DEF Releasable
  <2>2. CASE ~(r >= P)
    <3>1. Releasable(loan, r) = Earned(L, r, P, SafetyBufferBps)
      BY <2>2, Zenon DEF Releasable
    <3> HIDE DEF P, L, r
    <3>2. r < P
      BY <1>1, <2>2
    <3> QED
      BY <1>1, <3>1, <3>2, EarnedAtMostShare
  <2> QED
    BY <2>1, <2>2
<1>4. LossOn(loan) \in {Outstanding(loan), L - Releasable(loan, r)}
  BY DEF LossOn, Smaller
<1> HIDE DEF P, L, r
<1> QED
  BY <1>1, <1>2, <1>3, <1>4

\* The two books are sums over the loans.
LEMMA BooksAreSums ==
    ASSUME NEW records \in Seq(Loan), NEW g
    PROVE  /\ LockedOf(g) \in [Loan -> Int] /\ CostOf(g) \in [Loan -> Int]
           /\ SumFunction([id \in 1 .. Len(records) |-> LockedFor(g, records[id])])
                = SumOver(records, LockedOf(g))
           /\ SumFunction([id \in 1 .. Len(records) |-> CostTo(g, records[id])])
                = SumOver(records, CostOf(g))
<1>1. \A id \in 1 .. Len(records) : records[id] \in Loan
  BY LenProperties, ElementOfSeq
<1>2. LockedOf(g) \in [Loan -> Int]
  <2>1. \A loan \in Loan : LockedFor(g, loan) \in Int
    BY DEF LockedFor, Remaining, Loan
  <2> QED
    BY <2>1 DEF LockedOf
<1>3. CostOf(g) \in [Loan -> Int]
  <2>1. \A loan \in Loan : CostTo(g, loan) \in Int
    BY LossIsInt DEF CostTo
  <2> QED
    BY <2>1 DEF CostOf
<1>4. [id \in 1 .. Len(records) |-> LockedFor(g, records[id])]
        = [id \in 1 .. Len(records) |-> LockedOf(g)[records[id]]]
  BY <1>1 DEF LockedOf
<1>5. [id \in 1 .. Len(records) |-> CostTo(g, records[id])]
        = [id \in 1 .. Len(records) |-> CostOf(g)[records[id]]]
  BY <1>1 DEF CostOf
<1> QED
  BY <1>2, <1>3, <1>4, <1>5 DEF SumOver

\* A loan and its guarantor's record that change together keep the books.
LEMMA OneLoanOneRecord ==
    ASSUME IInv, NEW id \in LoanIds, NEW new \in Loan, NEW v \in Vault,
           new.guarantor = loans[id].guarantor,
           loans' = [loans EXCEPT ![id] = new],
           vaults' = [vaults EXCEPT ![loans[id].guarantor] = v],
           v.locked_amount = vaults[loans[id].guarantor].locked_amount
                               - LockedFor(loans[id].guarantor, loans[id])
                               + LockedFor(loans[id].guarantor, new),
           NEW g \in Guarantors, BooksAgree(g)
    PROVE  BooksAgree(g)'
<1> DEFINE h == loans[id].guarantor
<1>1. /\ loans \in Seq(Loan) /\ loans[id] \in Loan /\ h \in Guarantors
      /\ vaults \in [Guarantors -> Vault] /\ vaults[g] \in Vault
  BY LoanIsTyped DEF IInv, LedgerInv, VaultInv, VaultTypeOK, Loan
<1>2. LockedOf(g) \in [Loan -> Int]
  BY <1>1, BooksAreSums
<1>3. SumOver(loans', LockedOf(g))
        = SumOver(loans, LockedOf(g)) - LockedOf(g)[loans[id]] + LockedOf(g)[new]
  BY <1>1, <1>2, SumOverUpdate DEF LoanIds
<1>4. /\ LockedOf(g)[loans[id]] = LockedFor(g, loans[id])
      /\ LockedOf(g)[new] = LockedFor(g, new)
  BY <1>1 DEF LockedOf
<1>5. /\ LockedOf(g)[loans[id]] \in Int /\ LockedOf(g)[new] \in Int
      /\ SumOver(loans, LockedOf(g)) \in Int /\ vaults[g].locked_amount \in Int
  BY <1>1, <1>2, SumOverIds DEF Vault
<1>6. vaults'[g].locked_amount
        = vaults[g].locked_amount - LockedFor(g, loans[id]) + LockedFor(g, new)
  <2>1. CASE g = h
    BY <1>1, <2>1
  <2>2. CASE g # h
    <3>1. LockedFor(g, loans[id]) = 0 /\ LockedFor(g, new) = 0
      BY <2>2 DEF LockedFor
    <3> QED
      BY <1>1, <1>5, <2>2, <3>1
  <2> QED
    BY <2>1, <2>2
<1> QED
  BY <1>3, <1>4, <1>5, <1>6 DEF BooksAgree

\* Every step that moves a lock in one book moves it in the other.
LEMMA BooksKeepAgreeing ==
    ASSUME IInv, [Next]_vars, NEW g \in Guarantors, BooksAgree(g)
    PROVE  BooksAgree(g)'
<1>1. /\ loans \in Seq(Loan) /\ vaults \in [Guarantors -> Vault]
      /\ LockedOf(g) \in [Loan -> Int]
  BY BooksAreSums DEF IInv, LedgerInv, VaultInv, VaultTypeOK
<1>2. CASE Originates
  <2>1. PICK h \in Guarantors, new \in Loan :
           /\ IsOpen(new) /\ new.guarantor = h
           /\ loans' = Append(loans, new)
           /\ LockCollateral(LedgerAddr, h, Remaining(new))
    BY <1>2, OriginationLocks
  <2>2. SumOver(loans', LockedOf(g)) = SumOver(loans, LockedOf(g)) + LockedFor(g, new)
    BY <1>1, <2>1, SumOverAppend DEF LockedOf
  <2>3. Remaining(new) \in Int
    BY DEF Remaining, Loan
  <2>4. vaults'[g].locked_amount = vaults[g].locked_amount + LockedFor(g, new)
    <3>1. CASE g = h
      BY <1>1, <2>1, <3>1 DEF LockCollateral, AfterLock, LockedFor, Vault
    <3>2. CASE g # h
      BY <1>1, <2>1, <3>2 DEF LockCollateral, LockedFor, Vault
    <3> QED
      BY <3>1, <3>2
  <2> QED
    BY <2>2, <2>4 DEF BooksAgree
<1>3. CASE Repays
  <2>1. PICK id \in LoanIds, new \in Loan, back \in Nat :
           /\ loans[id] \in Loan /\ IsOpen(loans[id])
           /\ new.guarantor = loans[id].guarantor
           /\ Remaining(loans[id]) \in Nat
           /\ Remaining(new) = Remaining(loans[id]) - back
           /\ ~IsOpen(new) => Remaining(new) = 0
           /\ loans' = [loans EXCEPT ![id] = new]
           /\ IF back > 0
              THEN ReleaseCollateral(LedgerAddr, loans[id].guarantor, back)
              ELSE UNCHANGED vaultVars
    BY <1>3, RepaymentMoves
  <2> DEFINE h == loans[id].guarantor
             v == AfterRelease(vaults[h], back)
  <2>2. h \in Guarantors /\ vaults[h] \in Vault
    BY <1>1, <2>1 DEF Loan
  <2>3. v \in Vault /\ v.locked_amount = vaults[h].locked_amount - back
    BY <2>2 DEF AfterRelease, Vault
  <2>4. vaults' = [vaults EXCEPT ![h] = v]
    <3>1. CASE back > 0
      BY <2>1, <3>1 DEF ReleaseCollateral
    <3>2. CASE ~(back > 0)
      <4>1. back = 0 /\ UNCHANGED vaults
        BY <2>1, <3>2 DEF vaultVars
      <4>2. v = vaults[h]
        BY <2>2, <4>1 DEF AfterRelease, Vault
      <4> QED
        BY <1>1, <2>2, <4>1, <4>2
    <3> QED
      BY <3>1, <3>2
  <2>5. /\ LockedFor(h, loans[id]) = Remaining(loans[id])
        /\ LockedFor(h, new) = Remaining(loans[id]) - back
    BY <2>1 DEF LockedFor
  <2>6. vaults[h].locked_amount \in Int
    BY <2>2 DEF Vault
  <2> HIDE DEF v
  <2>7. v.locked_amount = vaults[h].locked_amount - LockedFor(h, loans[id])
                             + LockedFor(h, new)
    BY <2>1, <2>3, <2>5, <2>6
  <2> QED
    BY <2>1, <2>3, <2>4, <2>7, OneLoanOneRecord
<1>4. CASE Liquidates
  <2>1. PICK id \in LoanIds, new \in Loan, v \in Vault :
           /\ loans[id] \in Loan /\ LoanInv(loans[id]) /\ IsOpen(loans[id])
           /\ new.guarantor = loans[id].guarantor /\ ~IsOpen(new)
           /\ loans' = [loans EXCEPT ![id] = new]
           /\ v.locked_amount = vaults[loans[id].guarantor].locked_amount
                                  - Remaining(loans[id])
           /\ vaults' = [vaults EXCEPT ![loans[id].guarantor] = v]
    BY <1>4, LiquidationMoves
  <2> DEFINE h == loans[id].guarantor
  <2>2. /\ LockedFor(h, loans[id]) = Remaining(loans[id])
        /\ LockedFor(h, new) = 0
    BY <2>1 DEF LockedFor
  <2>3. vaults[h].locked_amount \in Int /\ Remaining(loans[id]) \in Int
    <3>1. h \in Guarantors /\ Remaining(loans[id]) \in Int
      BY <2>1 DEF Loan, Remaining
    <3> QED
      BY <1>1, <3>1 DEF Vault
  <2>4. v.locked_amount = vaults[h].locked_amount - LockedFor(h, loans[id])
                             + LockedFor(h, new)
    BY <2>1, <2>2, <2>3
  <2> QED
    BY <2>1, <2>4, OneLoanOneRecord
<1>5. CASE MovesFreely
  <2>1. UNCHANGED loans
    BY <1>5 DEF MovesFreely
  <2>2. PICK h \in Guarantors, amount \in Amounts, fee \in Fees :
           Deposit(h, amount, fee) \/ Withdraw(h, amount, fee)
    BY <1>5 DEF MovesFreely
  <2>3. PICK balance :
           vaults' = [vaults EXCEPT ![h] =
                        [vaults[h] EXCEPT !.collateral_balance = balance]]
    <3>1. CASE Deposit(h, amount, fee)
      BY <3>1 DEF Deposit
    <3>2. CASE Withdraw(h, amount, fee)
      BY <3>2 DEF Withdraw
    <3> QED
      BY <2>2, <3>1, <3>2
  <2>4. vaults'[g].locked_amount = vaults[g].locked_amount
    <3>1. CASE g = h
      BY <1>1, <2>3, <3>1 DEF Vault
    <3>2. CASE g # h
      BY <1>1, <2>3, <3>2
    <3> QED
      BY <3>1, <3>2
  <2> QED
    BY <2>1, <2>4 DEF BooksAgree
<1>6. CASE ChangesStanding
  <2>1. PICK id \in LoanIds, new \in Loan :
           /\ loans' = [loans EXCEPT ![id] = new]
           /\ IsOpen(loans[id]) /\ IsOpen(new)
           /\ new.guarantor = loans[id].guarantor
           /\ Remaining(new) = Remaining(loans[id])
    BY <1>6 DEF ChangesStanding
  <2> DEFINE h == loans[id].guarantor
             v == vaults[h]
  <2>2. loans[id] \in Loan /\ h \in Guarantors /\ v \in Vault
    BY <1>1, LoanIsTyped DEF IInv, Loan
  <2>3. vaults' = [vaults EXCEPT ![h] = v]
    BY <1>1, <1>6, <2>2 DEF ChangesStanding
  <2>4. LockedFor(h, new) = LockedFor(h, loans[id])
    BY <2>1 DEF LockedFor
  <2>5. v.locked_amount \in Int /\ LockedFor(h, new) \in Int
    BY <2>2 DEF Vault, LockedFor, Remaining, Loan
  <2>6. v.locked_amount = vaults[h].locked_amount - LockedFor(h, loans[id])
                             + LockedFor(h, new)
    BY <2>4, <2>5
  <2> QED
    BY <2>1, <2>2, <2>3, <2>6, OneLoanOneRecord
<1>7. CASE MovesNothing
  BY <1>7 DEF MovesNothing, BooksAgree
<1> QED
  BY <1>2, <1>3, <1>4, <1>5, <1>6, <1>7, CollateralSteps

\* With no loans there is nothing in the ledger's book.
LEMMA SumOverNothing == ASSUME NEW value PROVE SumOver(<<>>, value) = 0
<1>1. Len(<<>>) = 0 /\ 1 .. 0 = {}
  BY EmptySeq
<1>2. SumOver(<<>>, value) = SumFunctionOnSet([id \in {} |-> value[<<>>[id]]], {})
  BY <1>1 DEF SumOver, SumFunction
<1> QED
  BY <1>2, SumOfNone

\* The vault's locked_amount of each guarantor is at all times the sum of what
\* the ledger's and the engine's calls have left locked against its open loans:
\* no rounding, partial repayment, closing, liquidation or handover leaves a
\* unit locked for no loan, or a loan without its lock.
THEOREM TwoBooksAgree == Spec => []LockedBacksLoans
<1> DEFINE Agree == \A g \in Guarantors : BooksAgree(g)
<1>1. Init => Agree
  <2> SUFFICES ASSUME Init, NEW g \in Guarantors PROVE BooksAgree(g)
    OBVIOUS
  <2>1. vaults[g].locked_amount = 0 /\ loans = <<>>
    BY DEF Init, VaultInit, LedgerInit, EmptyVault
  <2> QED
    BY <2>1, SumOverNothing DEF BooksAgree
<1>2. IInv /\ Agree /\ [Next]_vars => Agree'
  BY BooksKeepAgreeing
<1>3. IInv /\ Agree => LockedBacksLoans
  BY BooksAreSums DEF IInv, LedgerInv, BooksAgree, LockedBacksLoans, LoanIds
<1> HIDE DEF Agree
<1> QED
  BY <1>1, <1>2, <1>3, Invariance, PTL DEF Spec

-----------------------------------------------------------------------------
\* Solvency of the vault in the protocol.

\* The vault's operations keep it solvent when the ledger and the engine call
\* them, a liquidation's two calls together too.
LEMMA ProtocolKeepsSolvent ==
    ASSUME IInv, VaultSolvent, [Next]_vars
    PROVE  VaultSolvent'
<1> USE AmountAssumption
<1>1. VaultInv /\ settlement \in Accounts
  BY DEF IInv, VaultInv, VaultTypeOK, Accounts
<1>2. CASE Originates
  <2>1. PICK g \in Guarantors, new \in Loan :
           LockCollateral(LedgerAddr, g, Remaining(new))
    BY <1>2, OriginationLocks
  <2>2. Remaining(new) \in Int
    BY DEF Remaining, Loan
  <2> QED
    BY <1>1, <2>1, <2>2, LockReleaseBacked
<1>3. CASE Repays
  <2>1. PICK id \in LoanIds, back \in Nat :
           /\ loans[id] \in Loan
           /\ IF back > 0
              THEN ReleaseCollateral(LedgerAddr, loans[id].guarantor, back)
              ELSE UNCHANGED vaultVars
    BY <1>3, RepaymentMoves
  <2>2. loans[id].guarantor \in Guarantors
    BY <2>1 DEF Loan
  <2>3. CASE back > 0
    BY <1>1, <2>1, <2>2, <2>3, LockReleaseBacked
  <2>4. CASE ~(back > 0)
    BY <2>1, <2>4 DEF vaultVars, VaultSolvent
  <2> QED
    BY <2>3, <2>4
<1>4. CASE Liquidates
  <2>1. PICK id \in LoanIds, fee \in Fees, v \in Vault :
           LET loan == loans[id]
               g    == loan.guarantor
           IN  /\ loan \in Loan /\ LoanInv(loan) /\ IsOpen(loan) /\ g \in Guarantors
               /\ v.collateral_balance
                     = vaults[g].collateral_balance - ForfeitedOf(loan)
               /\ vaults' = [vaults EXCEPT ![g] = v]
               /\ IF ForfeitedOf(loan) > 0
                  THEN /\ CanTransfer(VaultAddr, settlement, ForfeitedOf(loan), fee)
                       /\ usdc' = Transfer(VaultAddr, settlement,
                                           ForfeitedOf(loan), fee)
                  ELSE UNCHANGED usdc
    BY <1>4, LiquidationMoves
  <2> DEFINE g == loans[id].guarantor
             forfeited == ForfeitedOf(loans[id])
  <2>2. forfeited \in Nat
    BY <2>1, Division
  <2>3. g \in Guarantors /\ vaults[g].collateral_balance \in Int
    BY <1>1, <2>1 DEF VaultInv, VaultTypeOK, Vault
  <2> HIDE DEF g, forfeited
  <2>4. CASE forfeited > 0
    <3>1. v.collateral_balance = vaults[g].collateral_balance - forfeited
      BY <2>1 DEF g, forfeited
    <3>2. /\ vaults' = [vaults EXCEPT ![g] = v]
          /\ CanTransfer(VaultAddr, settlement, forfeited, fee)
          /\ usdc' = Transfer(VaultAddr, settlement, forfeited, fee)
      BY <2>1, <2>4 DEF g, forfeited
    <3>3. fee \in Nat /\ forfeited \in Int
      BY <2>2
    <3> QED
      BY <1>1, <2>3, <3>1, <3>2, <3>3, PaymentBacked
  <2>5. CASE ~(forfeited > 0)
    <3>1. v.collateral_balance = vaults[g].collateral_balance
      BY <2>1, <2>2, <2>3, <2>5 DEF g, forfeited
    <3>2. vaults' = [vaults EXCEPT ![g] = v] /\ UNCHANGED usdc
      BY <2>1, <2>5 DEF g, forfeited
    <3> QED
      BY <1>1, <2>3, <3>1, <3>2, LockingBacked
  <2> QED
    BY <2>4, <2>5
<1>5. CASE MovesFreely
  BY <1>1, <1>5, DepositBacked, WithdrawBacked DEF MovesFreely
<1>6. CASE ChangesStanding \/ MovesNothing
  BY <1>6 DEF ChangesStanding, MovesNothing, VaultSolvent
<1> QED
  BY <1>2, <1>3, <1>4, <1>5, <1>6, CollateralSteps

\* In the protocol too, the vault can pay every guarantor's record at once.
THEOREM SolventInProtocol == Spec => []VaultSolvent
<1>1. Init => VaultSolvent
  BY InitBacked DEF Init
<1>2. IInv /\ VaultSolvent /\ [Next]_vars => VaultSolvent'
  BY ProtocolKeepsSolvent
<1> QED
  BY <1>1, <1>2, Invariance, PTL DEF Spec

-----------------------------------------------------------------------------
\* What a guarantor can lose.

\* A loan that changes takes from its guarantor's record what it costs more.
LEMMA WorthOfOneLoan ==
    ASSUME IInv, NEW id \in LoanIds, NEW new \in Loan, NEW v \in Vault,
           new.guarantor = loans[id].guarantor,
           loans' = [loans EXCEPT ![id] = new],
           vaults' = [vaults EXCEPT ![loans[id].guarantor] = v],
           v.collateral_balance = vaults[loans[id].guarantor].collateral_balance
                                    + CostTo(loans[id].guarantor, loans[id])
                                    - CostTo(loans[id].guarantor, new),
           NEW g \in Guarantors, usdc'[g] = usdc[g]
    PROVE  Worth(g)' = Worth(g)
<1> DEFINE h == loans[id].guarantor
<1>1. /\ loans \in Seq(Loan) /\ loans[id] \in Loan /\ h \in Guarantors
      /\ vaults \in [Guarantors -> Vault] /\ vaults[g] \in Vault
      /\ usdc[g] \in Int
  <2>1. loans \in Seq(Loan)
    BY DEF IInv, LedgerInv
  <2>2. loans[id] \in Loan
    BY <2>1 DEF LoanIds
  <2>3. vaults \in [Guarantors -> Vault] /\ usdc \in [Accounts -> Nat]
    BY DEF IInv, VaultInv, VaultTypeOK
  <2>4. h \in Guarantors
    BY <2>2 DEF Loan
  <2>5. g \in Accounts
    BY DEF Accounts
  <2> QED
    BY <2>1, <2>2, <2>3, <2>4, <2>5
<1>2. CostOf(g) \in [Loan -> Int]
  BY <1>1, BooksAreSums
<1>3. SumOver(loans', CostOf(g))
        = SumOver(loans, CostOf(g)) - CostOf(g)[loans[id]] + CostOf(g)[new]
  BY <1>1, <1>2, SumOverUpdate DEF LoanIds
<1>4. /\ CostOf(g)[loans[id]] = CostTo(g, loans[id])
      /\ CostOf(g)[new] = CostTo(g, new)
  BY <1>1 DEF CostOf
<1>5. /\ CostOf(g)[loans[id]] \in Int /\ CostOf(g)[new] \in Int
      /\ SumOver(loans, CostOf(g)) \in Int /\ vaults[g].collateral_balance \in Int
  BY <1>1, <1>2, SumOverIds DEF Vault
<1>6. vaults'[g].collateral_balance
        = vaults[g].collateral_balance + CostTo(g, loans[id]) - CostTo(g, new)
  <2>1. CASE g = h
    BY <1>1, <2>1
  <2>2. CASE g # h
    <3>1. CostTo(g, loans[id]) = 0 /\ CostTo(g, new) = 0
      BY <2>2 DEF CostTo
    <3> QED
      BY <1>1, <1>5, <2>2, <3>1
  <2> QED
    BY <2>1, <2>2
<1> QED
  BY <1>1, <1>3, <1>4, <1>5, <1>6 DEF Worth

\* A deposit and a withdrawal move tokens between a guarantor and its record.
LEMMA WorthMovesFreely ==
    ASSUME IInv, Fees = {0}, MovesFreely, NEW g \in Guarantors
    PROVE  Worth(g)' = Worth(g)
<1>1. PICK h \in Guarantors, amount \in Amounts :
         Deposit(h, amount, 0) \/ Withdraw(h, amount, 0)
  BY DEF MovesFreely
<1>2. /\ vaults \in [Guarantors -> Vault] /\ usdc \in [Accounts -> Nat]
      /\ amount \in Int /\ VaultAddr \in Accounts /\ VaultAddr \notin Guarantors
      /\ Guarantors \subseteq Accounts
  BY AmountAssumption, AddressAssumption DEF IInv, VaultInv, VaultTypeOK, Accounts
<1>3. /\ vaults[g] \in Vault /\ vaults[g].collateral_balance \in Int
      /\ usdc[g] \in Int
  BY <1>2 DEF Vault
<1>4. usdc'[g] + vaults'[g].collateral_balance
        = usdc[g] + vaults[g].collateral_balance
  <2>1. CASE g # h
    BY <1>1, <1>2, <1>3, <2>1 DEF Deposit, Withdraw, Transfer, Vault
  <2>2. CASE g = h /\ Deposit(h, amount, 0)
    <3>1. usdc'[g] = usdc[g] - amount
      BY <1>2, <1>3, <2>2 DEF Deposit, Transfer
    <3>2. vaults'[g].collateral_balance = vaults[g].collateral_balance + amount
      BY <1>2, <1>3, <2>2 DEF Deposit, Vault
    <3> QED
      BY <1>2, <1>3, <3>1, <3>2
  <2>3. CASE g = h /\ Withdraw(h, amount, 0)
    <3>1. usdc'[g] = usdc[g] + amount
      BY <1>2, <1>3, <2>3 DEF Withdraw, Transfer
    <3>2. vaults'[g].collateral_balance = vaults[g].collateral_balance - amount
      BY <1>2, <1>3, <2>3 DEF Withdraw, Vault
    <3> QED
      BY <1>2, <1>3, <3>1, <3>2
  <2> QED
    BY <1>1, <2>1, <2>2, <2>3
<1>5. UNCHANGED loans
  BY DEF MovesFreely
<1> QED
  BY <1>4, <1>5 DEF Worth

\* No step changes what a guarantor has and lost together, if the token keeps
\* no fee and no guarantor is paid the forfeited collateral.
LEMMA WorthIsKept ==
    ASSUME IInv, [Next]_vars, Fees = {0}, Settlements \cap Guarantors = {},
           NEW g \in Guarantors
    PROVE  Worth(g)' = Worth(g)
<1>1. /\ loans \in Seq(Loan) /\ vaults \in [Guarantors -> Vault]
      /\ usdc \in [Accounts -> Nat] /\ usdc[g] \in Int
      /\ CostOf(g) \in [Loan -> Int]
  <2>1. loans \in Seq(Loan)
    BY DEF IInv, LedgerInv
  <2>2. vaults \in [Guarantors -> Vault] /\ usdc \in [Accounts -> Nat]
    BY DEF IInv, VaultInv, VaultTypeOK
  <2>3. g \in Accounts
    BY DEF Accounts
  <2>4. CostOf(g) \in [Loan -> Int]
    BY <2>1, BooksAreSums
  <2> QED
    BY <2>1, <2>2, <2>3, <2>4
<1>2. CASE Originates
  <2>1. PICK h \in Guarantors, new \in Loan :
           /\ IsOpen(new) /\ new.guarantor = h
           /\ loans' = Append(loans, new)
           /\ LockCollateral(LedgerAddr, h, Remaining(new))
    BY <1>2, OriginationLocks
  <2>2. CostTo(g, new) = 0
    BY <2>1 DEF CostTo, IsOpen
  <2>3. SumOver(loans', CostOf(g)) = SumOver(loans, CostOf(g)) + CostTo(g, new)
    BY <1>1, <2>1, SumOverAppend DEF CostOf
  <2>4. SumOver(loans, CostOf(g)) \in Int
    BY <1>1, SumOverIds
  <2>5. /\ vaults'[g].collateral_balance = vaults[g].collateral_balance
        /\ UNCHANGED usdc
    BY <1>1, <2>1 DEF LockCollateral, AfterLock, Vault
  <2> QED
    BY <2>2, <2>3, <2>4, <2>5 DEF Worth
<1>3. CASE Repays
  <2>1. PICK id \in LoanIds, new \in Loan, back \in Nat :
           /\ loans[id] \in Loan /\ IsOpen(loans[id])
           /\ new.guarantor = loans[id].guarantor /\ new.status # "Defaulted"
           /\ loans' = [loans EXCEPT ![id] = new]
           /\ IF back > 0
              THEN ReleaseCollateral(LedgerAddr, loans[id].guarantor, back)
              ELSE UNCHANGED vaultVars
    BY <1>3, RepaymentMoves
  <2> DEFINE h == loans[id].guarantor
             v == AfterRelease(vaults[h], back)
  <2>2. h \in Guarantors /\ vaults[h] \in Vault
    BY <1>1, <2>1 DEF Loan
  <2>3. v \in Vault /\ v.collateral_balance = vaults[h].collateral_balance
    BY <2>2 DEF AfterRelease, Vault
  <2>4. vaults' = [vaults EXCEPT ![h] = v] /\ UNCHANGED usdc
    <3>1. CASE back > 0
      BY <2>1, <3>1 DEF ReleaseCollateral
    <3>2. CASE ~(back > 0)
      <4>1. back = 0 /\ UNCHANGED <<vaults, usdc>>
        BY <2>1, <3>2 DEF vaultVars
      <4>2. v = vaults[h]
        BY <2>2, <4>1 DEF AfterRelease, Vault
      <4> QED
        BY <1>1, <2>2, <4>1, <4>2
    <3> QED
      BY <3>1, <3>2
  <2>5. CostTo(h, loans[id]) = 0 /\ CostTo(h, new) = 0
    BY <2>1 DEF CostTo, IsOpen
  <2>6. vaults[h].collateral_balance \in Int
    BY <2>2 DEF Vault
  <2> HIDE DEF v
  <2>7. v.collateral_balance = vaults[h].collateral_balance
                                 + CostTo(h, loans[id]) - CostTo(h, new)
    BY <2>3, <2>5, <2>6
  <2> QED
    BY <2>1, <2>3, <2>4, <2>7, WorthOfOneLoan
<1>4. CASE Liquidates
  <2>1. PICK id \in LoanIds, new \in Loan, fee \in Fees, v \in Vault :
           LET loan == loans[id]
               h    == loan.guarantor
           IN  /\ loan \in Loan /\ LoanInv(loan) /\ IsOpen(loan)
               /\ h \in Guarantors /\ new.guarantor = h
               /\ new.status = "Defaulted"
               /\ LossOn(new) = ForfeitedOf(loan)
               /\ loans' = [loans EXCEPT ![id] = new]
               /\ v.collateral_balance
                     = vaults[h].collateral_balance - ForfeitedOf(loan)
               /\ vaults' = [vaults EXCEPT ![h] = v]
               /\ IF ForfeitedOf(loan) > 0
                  THEN /\ CanTransfer(VaultAddr, settlement, ForfeitedOf(loan), fee)
                       /\ usdc' = Transfer(VaultAddr, settlement,
                                           ForfeitedOf(loan), fee)
                  ELSE UNCHANGED usdc
    BY <1>4, LiquidationMoves
  <2> DEFINE h == loans[id].guarantor
  <2>2. CostTo(h, loans[id]) = 0 /\ CostTo(h, new) = ForfeitedOf(loans[id])
    BY <2>1 DEF CostTo, IsOpen
  <2>3. vaults[h].collateral_balance \in Int /\ ForfeitedOf(loans[id]) \in Int
    <3>1. ForfeitedOf(loans[id]) \in Nat
      BY <2>1, Division
    <3> QED
      BY <1>1, <2>1, <3>1, SMTT(30) DEF Vault
  <2>4. v.collateral_balance = vaults[h].collateral_balance
                                 + CostTo(h, loans[id]) - CostTo(h, new)
    BY <2>1, <2>2, <2>3
  <2>5. usdc'[g] = usdc[g]
    <3>1. g # VaultAddr /\ g # settlement
      BY AddressAssumption DEF IInv, VaultInv, VaultTypeOK
    <3>2. ASSUME NEW amount, usdc' = Transfer(VaultAddr, settlement, amount, fee)
          PROVE  usdc'[g] = usdc[g]
      BY <1>1, <3>1, <3>2 DEF Transfer, Accounts
    <3> QED
      BY <2>1, <3>2
  <2> QED
    BY <2>1, <2>4, <2>5, WorthOfOneLoan
<1>5. CASE MovesFreely
  BY <1>5, WorthMovesFreely
<1>6. CASE ChangesStanding
  <2>1. PICK id \in LoanIds, new \in Loan :
           /\ loans' = [loans EXCEPT ![id] = new]
           /\ IsOpen(loans[id]) /\ IsOpen(new)
           /\ new.guarantor = loans[id].guarantor
    BY <1>6 DEF ChangesStanding
  <2> DEFINE h == loans[id].guarantor
             v == vaults[h]
  <2>2. loans[id] \in Loan /\ h \in Guarantors /\ v \in Vault
    BY <1>1, LoanIsTyped DEF IInv, Loan
  <2>3. vaults' = [vaults EXCEPT ![h] = v] /\ UNCHANGED usdc
    BY <1>1, <1>6, <2>2 DEF ChangesStanding
  <2>4. CostTo(h, loans[id]) = 0 /\ CostTo(h, new) = 0
    BY <2>1 DEF CostTo, IsOpen
  <2>5. v.collateral_balance \in Int
    BY <2>2 DEF Vault
  <2>6. v.collateral_balance = vaults[h].collateral_balance
                                 + CostTo(h, loans[id]) - CostTo(h, new)
    BY <2>4, <2>5
  <2> QED
    BY <2>1, <2>2, <2>3, <2>6, WorthOfOneLoan
<1>7. CASE MovesNothing
  BY <1>7 DEF MovesNothing, Worth
<1> QED
  BY <1>2, <1>3, <1>4, <1>5, <1>6, <1>7, CollateralSteps

\* Never pooled: whatever other guarantors' loans do, and in whatever order
\* loans are repaid and cranked, a guarantor's tokens and collateral together
\* fall short of what it started with by the debt of its own defaulted loans.
THEOREM OwnDebtOnly == Spec => []GuarantorLosesOwnDebtOnly
<1> DEFINE NoFees == Fees = {0} /\ Settlements \cap Guarantors = {}
           Kept == NoFees => \A g \in Guarantors : Worth(g) = Supply
<1>1. Init => Kept
  <2> SUFFICES ASSUME Init, NEW g \in Guarantors PROVE Worth(g) = Supply
    OBVIOUS
  <2>1. /\ usdc[g] = Supply /\ vaults[g].collateral_balance = 0
        /\ loans = <<>> /\ Supply \in Int
    BY AmountAssumption DEF Init, VaultInit, LedgerInit, EmptyVault, Accounts
  <2> QED
    BY <2>1, SumOverNothing DEF Worth
<1>2. IInv /\ Kept /\ [Next]_vars => Kept'
  <2> SUFFICES ASSUME IInv, Kept, [Next]_vars, NoFees, NEW g \in Guarantors
               PROVE  Worth(g)' = Supply
    OBVIOUS
  <2> QED
    BY WorthIsKept
<1>3. IInv /\ Kept => GuarantorLosesOwnDebtOnly
  BY BooksAreSums
     DEF IInv, LedgerInv, Worth, GuarantorLosesOwnDebtOnly, LoanIds
<1> HIDE DEF Kept
<1> QED
  BY <1>1, <1>2, <1>3, Invariance, PTL DEF Spec

-----------------------------------------------------------------------------
\* What nothing in the contracts can refuse.  CanLiquidate and CanAttest are
\* complete: where they hold the action has a next state, which is given here,
\* one value to each variable.

LEMMA LiquidationGuardsSuffice ==
    ASSUME NEW id \in LoanIds, NEW fee \in Fees, CanLiquidate(id, fee),
           LET loan == loans[id]
           IN  /\ vaults' = [vaults EXCEPT ![loan.guarantor] = AfterReturn(loan)]
               /\ usdc' = IF ForfeitedOf(loan) > 0
                          THEN Transfer(VaultAddr, settlement, ForfeitedOf(loan), fee)
                          ELSE usdc
               /\ loans' = [loans EXCEPT ![id] = AfterDefault(@)]
               /\ openLoan' = WithoutMarker(loan),
           UNCHANGED <<vaultWiring, reputation, roles, ledgerEngine, now, isPaused>>
    PROVE  Liquidate(id, fee)
BY DEF CanLiquidate, Liquidate, MarkDefaulted

\* So are those of the repayment.
LEMMA AttestationGuardsSuffice ==
    ASSUME NEW p \in Agents, NEW v \in Agents, NEW id \in LoanIds, NEW amount,
           CanAttest(p, v, id, amount),
           LET loan  == loans[id]
               after == Settled(Credited(loan, amount))
               back  == after.collateral_released - loan.collateral_released
               g     == loan.guarantor
           IN  /\ vaults' = IF back > 0
                            THEN [vaults EXCEPT ![g] = AfterRelease(@, back)]
                            ELSE vaults
               /\ loans' = [loans EXCEPT ![id] = after]
               /\ openLoan' = IF after.status = "Repaid" THEN WithoutMarker(loan)
                                                         ELSE openLoan,
           UNCHANGED <<usdc, vaultWiring, reputation, roles, ledgerEngine, now>>
    PROVE  AttestRepayment(p, v, id, amount)
<1> DEFINE loan   == loans[id]
           after  == Settled(Credited(loan, amount))
           back   == after.collateral_released - loan.collateral_released
<1>1. IF back > 0 THEN ReleaseCollateral(LedgerAddr, loan.guarantor, back)
                  ELSE UNCHANGED vaultVars
  <2>1. CASE back > 0
    <3>1. IsLedgerOrEngine(LedgerAddr) /\ CanRelease(vaults[loan.guarantor], back)
      BY <2>1, Zenon DEF CanAttest
    <3>2. /\ vaults' = [vaults EXCEPT ![loan.guarantor] = AfterRelease(@, back)]
          /\ UNCHANGED <<usdc, vaultWiring>>
      BY <2>1, Zenon
    <3> HIDE DEF back, loan
    <3> QED
      BY <2>1, <3>1, <3>2 DEF ReleaseCollateral
  <2>2. CASE ~(back > 0)
    <3>1. vaults' = vaults /\ UNCHANGED <<usdc, vaultWiring>>
      BY <2>2, Zenon
    <3> HIDE DEF back, loan
    <3> QED
      BY <2>2, <3>1 DEF vaultVars, vaultWiring
  <2> QED
    BY <2>1, <2>2
<1>2. /\ loans' = [loans EXCEPT ![id] = after]
      /\ openLoan' = IF after.status = "Repaid" THEN WithoutMarker(loan)
                                                ELSE openLoan
      /\ UNCHANGED <<reputation, roles, ledgerEngine, now>>
  BY Zenon
<1> QED
  BY <1>1, <1>2, Zenon DEF AttestRepayment

\* The vault's record covers the lock of each open loan, and its tokens the
\* record.
LEMMA LockIsThere ==
    ASSUME IInv, VaultSolvent, LockedBacksLoans,
           NEW id \in LoanIds, IsOpen(loans[id])
    PROVE  LET loan == loans[id]
               v    == vaults[loan.guarantor]
           IN  /\ loan \in Loan /\ LoanInv(loan) /\ v \in Vault
               /\ Remaining(loan) \in Nat
               /\ Remaining(loan) <= v.locked_amount
               /\ Remaining(loan) <= usdc[VaultAddr]
               /\ usdc[VaultAddr] \in Nat
<1> DEFINE loan == loans[id]
           g    == loan.guarantor
           v    == vaults[g]
<1>1. loan \in Loan /\ LoanInv(loan)
  BY LoanIsTyped DEF IInv
<1>2. /\ g \in Guarantors /\ vaults \in [Guarantors -> Vault]
      /\ usdc \in [Accounts -> Nat] /\ VaultAddr \in Accounts
  BY <1>1 DEF IInv, VaultInv, VaultTypeOK, Loan, Accounts
<1>3. /\ v \in Vault /\ v.locked_amount \in Nat /\ v.collateral_balance \in Nat
      /\ v.locked_amount <= v.collateral_balance
  BY <1>2 DEF IInv, VaultInv, SaveAssertionsHold, Vault
<1>4. Remaining(loan) \in Nat
  BY <1>1, OpenLoanBooks
<1>5. Remaining(loan) <= v.locked_amount
  <2> DEFINE f == [j \in LoanIds |-> LockedFor(g, loans[j])]
  <2>1. v.locked_amount = SumFunctionOnSet(f, LoanIds)
    BY <1>2 DEF LockedBacksLoans, SumFunction
  <2>2. \A j \in LoanIds : f[j] \in Nat
    <3> SUFFICES ASSUME NEW j \in LoanIds PROVE LockedFor(g, loans[j]) \in Nat
      OBVIOUS
    <3> QED
      BY LoanIsTyped, OpenLoanBooks DEF IInv, LockedFor
  <2>3. IsFiniteSet(LoanIds)
    <3>1. Len(loans) \in Nat
      BY LenProperties DEF IInv, LedgerInv
    <3> QED
      BY <3>1, FS_Interval DEF LoanIds
  <2>4. f[id] = Remaining(loan)
    BY DEF LockedFor
  <2> HIDE DEF f, loan, v
  <2> QED
    BY <2>1, <2>2, <2>3, <2>4, SumBoundsEach
<1>6. v.collateral_balance <= usdc[VaultAddr]
  <2> DEFINE f == [h \in Guarantors |-> vaults[h].collateral_balance]
  <2>1. SumFunctionOnSet(f, Guarantors) <= usdc[VaultAddr]
    BY DEF VaultSolvent, RecordedIn, SumFunction
  <2>2. \A h \in Guarantors : f[h] \in Nat
    BY <1>2 DEF IInv, VaultInv, SaveAssertionsHold, Vault
  <2>3. f[g] = v.collateral_balance
    BY <1>2
  <2>4. usdc[VaultAddr] \in Nat
    BY <1>2
  <2> HIDE DEF f, g, v
  <2>5. /\ SumFunctionOnSet(f, Guarantors) \in Nat
        /\ f[g] <= SumFunctionOnSet(f, Guarantors)
    BY <1>2, <2>2, AddressAssumption, SumBoundsEach
  <2> QED
    BY <1>3, <2>1, <2>3, <2>4, <2>5
<1>7. usdc[VaultAddr] \in Nat
  BY <1>2
<1> QED
  BY <1>1, <1>3, <1>4, <1>5, <1>6, <1>7

\* The books that make the guards true.
LEMMA BooksHold == Spec => [](IInv /\ VaultSolvent /\ LockedBacksLoans)
BY Invariance, SolventInProtocol, TwoBooksAgree, PTL

\* A liquidation that is due is never refused while the token serves the two
\* addresses: the vault holds the lock and the tokens, whatever other loans
\* the guarantor has, and the two calls share the lock exactly.
THEOREM LiquidationNeverRefused == Spec => []LiquidationNeverStuck
<1>1. IInv /\ VaultSolvent /\ LockedBacksLoans => LiquidationNeverStuck
  <2> SUFFICES ASSUME IInv, VaultSolvent, LockedBacksLoans,
                      vaultEngine = EngineAddr, ledgerEngine = EngineAddr, ~isPaused,
                      VaultAddr \notin frozen, settlement \notin frozen,
                      NEW id \in LoanIds, GraceExpired(id)
               PROVE  CanLiquidate(id, 0)
    BY DEF LiquidationNeverStuck
  <2> DEFINE loan      == loans[id]
             vault     == vaults[loan.guarantor]
             forfeited == ForfeitedOf(loan)
             returned  == ReturnedOf(loan)
             seized    == AfterSeizure(loan)
  <2>1. IsOpen(loan)
    BY DEF GraceExpired, IsOpen
  <2>2. /\ loan \in Loan /\ LoanInv(loan) /\ vault \in Vault
        /\ Remaining(loan) \in Nat /\ Remaining(loan) <= vault.locked_amount
        /\ Remaining(loan) <= usdc[VaultAddr] /\ usdc[VaultAddr] \in Nat
    BY <2>1, LockIsThere
  <2>3. /\ forfeited \in Nat /\ returned \in Nat
        /\ forfeited + returned = Remaining(loan)
    BY <2>1, <2>2, Division
  <2>4. /\ IsRegisteredEngine(EngineAddr) /\ IsEngine(EngineAddr)
        /\ IsLedgerOrEngine(EngineAddr)
    BY EngineAssumption DEF IsRegisteredEngine, IsEngine, IsLedgerOrEngine
  <2>5. seized = IF forfeited > 0 THEN AfterForfeit(vault, forfeited) ELSE vault
    BY Zenon DEF AfterSeizure
  <2> HIDE DEF loan, vault, forfeited, returned, seized
  <2>6. ASSUME forfeited > 0
        PROVE  /\ CanForfeit(vault, forfeited)
               /\ CanTransfer(VaultAddr, settlement, forfeited, 0)
    BY <2>2, <2>3, <2>6 DEF CanForfeit, CanTransfer, Vault
  <2>7. ASSUME returned > 0 PROVE CanRelease(seized, returned)
    <3>1. CASE forfeited > 0
      BY <2>2, <2>3, <2>5, <2>7, <3>1 DEF CanRelease, AfterForfeit, Vault
    <3>2. CASE ~(forfeited > 0)
      BY <2>2, <2>3, <2>5, <2>7, <3>2 DEF CanRelease, Vault
    <3> QED
      BY <3>1, <3>2
  <2> QED
    BY <2>4, <2>6, <2>7, Zenon
       DEF CanLiquidate, loan, vault, forfeited, returned, seized
<1> QED
  BY <1>1, BooksHold, PTL

\* Nothing but the borrower's two roles is ever needed to close a loan: the
\* vault has the lock to give back, and the closing arithmetic fits.
THEOREM ClosingNeverRefused == Spec => []AlwaysRepayableInFull
<1>1. IInv /\ VaultSolvent /\ LockedBacksLoans => AlwaysRepayableInFull
  <2> SUFFICES ASSUME IInv, VaultSolvent, LockedBacksLoans,
                      vaultLoanLedger = LedgerAddr, MinLtvBps >= MaxInstallments,
                      NEW id \in LoanIds, NEW p \in Agents, NEW v \in Agents,
                      IsOpen(loans[id]), Authorized(loans[id], p, v)
               PROVE  CanAttest(p, v, id, Outstanding(loans[id]))
    BY DEF AlwaysRepayableInFull
  <2> DEFINE loan   == loans[id]
             amount == Outstanding(loan)
             after  == Settled(Credited(loan, amount))
             back   == after.collateral_released - loan.collateral_released
  <2>1. /\ loan \in Loan /\ LoanInv(loan) /\ vaults[loan.guarantor] \in Vault
        /\ Remaining(loan) \in Nat
        /\ Remaining(loan) <= vaults[loan.guarantor].locked_amount
    BY LockIsThere
  <2>2. /\ amount \in Int /\ amount > 0
        /\ loan.total_repaid_usd + amount = loan.principal_usd
        /\ loan.total_repaid_usd + amount <= loan.principal_usd
    <3>1. amount = loan.principal_usd - loan.total_repaid_usd /\ amount \in Nat \ {0}
      BY <2>1, OpenLoanBooks
    <3> HIDE DEF amount
    <3> QED
      BY <2>1, <3>1 DEF Loan
  <2>3. RepaymentFits(loan, after)
    BY ClosingAlwaysFits DEF ClosingFits
  <2>4. back \in 0 .. Remaining(loan)
    <3>1. now \in Nat
      BY DEF IInv, LedgerInv
    <3> HIDE DEF loan, amount
    <3> QED
      BY <2>1, <2>2, <3>1, RepaidMoney DEF loan
  <2>5. IsLedgerOrEngine(LedgerAddr)
    BY RoleAssumption DEF IsLedgerOrEngine, IsLedger
  <2> HIDE DEF back
  <2>6. back > 0 => CanRelease(vaults[loan.guarantor], back)
    BY <2>1, <2>4 DEF CanRelease, Vault
  <2> QED
    BY <2>2, <2>3, <2>5, <2>6, Zenon DEF CanAttest, back
<1> QED
  BY <1>1, BooksHold, PTL

=============================================================================
