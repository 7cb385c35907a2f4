----------------------------- MODULE RemitProofs -----------------------------
(***************************************************************************)
(* The protocol's safety for every set of users and inputs, every          *)
(* configuration the constructor accepts and every bound.  The inductive   *)
(* invariant IInv has one part per contract; a loan's part, LoanInv, says  *)
(* that everything mutable in its record is a function of what was repaid. *)
(***************************************************************************)
EXTENDS RemitProperties, GuarantorVaultProofs, ArithmeticProofs, SequenceTheorems

\* What origination fixed.
TermsInv(loan) ==
    /\ loan.principal_usd > 0
    /\ loan.installment_count > 0
    /\ loan.ltv_bps \in MinLtvBps .. BaseLtvBps
    /\ loan.collateral_locked = CollateralFor(loan.principal_usd, loan.ltv_bps)
    /\ loan.principal_usd * loan.ltv_bps <= MaxI128
    /\ loan.installment_count <= MaxInstallments

\* What repayments have made of an open loan.
ProgressInv(loan) ==
    IsOpen(loan) =>
        /\ loan.total_repaid_usd < loan.principal_usd
        /\ loan.collateral_released = Releasable(loan, loan.total_repaid_usd)
        /\ loan.installments_paid =
              InstallmentsCovered(loan.total_repaid_usd,
                                  loan.installment_count, loan.principal_usd)
        /\ loan.next_due = NextDue(loan, loan.installments_paid)

\* Where the loan stands in time.
GraceInv(loan) ==
    /\ loan.status = "Grace" =>
          /\ loan.next_due < now
          /\ loan.grace_expires_at \in GracePeriod + 1 .. now + GracePeriod
    /\ loan.status \in {"Active", "Repaid"} => loan.grace_expires_at = 0

LoanInv(loan) == TermsInv(loan) /\ ProgressInv(loan) /\ GraceInv(loan)

LedgerInv ==
    /\ loans \in Seq(Loan)
    /\ openLoan \in [Guarantors \X Beneficiaries -> Nat]
    /\ now \in Nat
    /\ \A id \in LoanIds : LoanInv(loans[id])
    /\ OpenMarkerExact

RoleInv ==
    /\ reputation \in [Beneficiaries -> 0 .. BPS]
    /\ partners \subseteq Agents /\ verifiers \subseteq Agents
    /\ oracle \in Agents \cup {None}
    /\ ledgerEngine \in {EngineAddr, None}
    /\ isPaused \in BOOLEAN
    /\ RolesDisjoint

IInv == VaultInv /\ LedgerInv /\ RoleInv

-----------------------------------------------------------------------------
\* One loan.

\* A loan as originated satisfies its invariant.
LEMMA NewLoanInv ==
    ASSUME LedgerInv, RoleInv,
           NEW g \in Guarantors, NEW b \in Beneficiaries, NEW a \in Agents,
           NEW principal \in Int, NEW count \in Nat, NEW interval \in Nat,
           principal > 0, ScheduleAllowed(count, interval),
           OriginationFits(NewLoan(g, b, a, principal, count, interval))
    PROVE  LET loan == NewLoan(g, b, a, principal, count, interval)
           IN  loan \in Loan /\ LoanInv(loan)
<1> DEFINE loan == NewLoan(g, b, a, principal, count, interval)
           ltv  == RequiredLtvBps(BaseLtvBps, MinLtvBps, reputation[b])
<1>1. principal \in Nat /\ count > 0 /\ now \in Nat /\ interval \in Nat
  BY DEF ScheduleAllowed, LedgerInv
<1>2. ltv \in MinLtvBps .. BaseLtvBps /\ ltv \in Nat
  BY RequiredLtvInBand, ConfigAssumption DEF RoleInv
<1> HIDE DEF ltv
<1>3. CollateralFor(principal, ltv) \in Nat
  BY <1>1, <1>2, ProductIsNat, QuotientIsNat DEF CollateralFor, BPS
<1>4. InstallmentAmount(principal, count) \in Nat
  BY <1>1, QuotientIsNat DEF InstallmentAmount
<1>5. loan = [guarantor |-> g, beneficiary |-> b, partner |-> a,
              principal_usd |-> principal, ltv_bps |-> ltv,
              collateral_locked |-> CollateralFor(principal, ltv),
              collateral_released |-> 0, installment_count |-> count,
              installment_amount |-> InstallmentAmount(principal, count),
              interval_secs |-> interval, originated_at |-> now,
              installments_paid |-> 0, total_repaid_usd |-> 0,
              next_due |-> now + interval, grace_expires_at |-> 0,
              status |-> "Active"]
  BY DEF NewLoan, ltv
<1> HIDE DEF loan
<1>6. loan \in Loan
  BY <1>1, <1>2, <1>3, <1>4, <1>5 DEF Loan, Status
<1>7. TermsInv(loan)
  <2>1. loan.principal_usd * loan.ltv_bps <= MaxI128
    BY DEF OriginationFits, loan
  <2>2. count <= MaxInstallments
    BY LimitAssumption DEF ScheduleAllowed
  <2> QED
    BY <1>1, <1>2, <1>5, <2>1, <2>2 DEF TermsInv
<1>8. /\ Earned(CollateralFor(principal, ltv), 0, principal, SafetyBufferBps) = 0
      /\ InstallmentsCovered(0, count, principal) = 0
  <2>1. \A d \in Nat \ {0} : 0 \div d = 0
    OBVIOUS
  <2>2. principal * BPS \in Nat \ {0}
    BY <1>1 DEF BPS
  <2>3. (CollateralFor(principal, ltv) * 0) * (BPS - SafetyBufferBps) = 0
    BY <1>3, ConfigAssumption DEF BPS
  <2> QED
    BY <1>1, <2>1, <2>2, <2>3 DEF Earned, InstallmentsCovered
<1>9. ProgressInv(loan)
  BY <1>1, <1>5, <1>8 DEF ProgressInv, Releasable, NextDue
<1>10. GraceInv(loan)
  BY <1>5 DEF GraceInv
<1> QED
  BY <1>6, <1>7, <1>9, <1>10 DEF LoanInv, loan

\* Crediting a repayment updates the three fields that follow the money.
LEMMA CreditedFields ==
    ASSUME NEW loan \in Loan, LoanInv(loan), IsOpen(loan),
           NEW amount \in Int, amount > 0,
           loan.total_repaid_usd + amount <= loan.principal_usd
    PROVE  LET new   == Credited(loan, amount)
               total == loan.total_repaid_usd + amount
           IN  /\ new \in Loan
               /\ new = [loan EXCEPT !.total_repaid_usd = total,
                            !.installments_paid = new.installments_paid,
                            !.collateral_released = new.collateral_released]
               /\ new.total_repaid_usd = total
               /\ new.installments_paid =
                     InstallmentsCovered(total, loan.installment_count,
                                         loan.principal_usd)
               /\ new.collateral_released = Releasable(loan, total)
<1> DEFINE new   == Credited(loan, amount)
           total == loan.total_repaid_usd + amount
           old   == loan.total_repaid_usd
           P     == loan.principal_usd
           L     == loan.collateral_locked
           paid  == InstallmentsCovered(total, loan.installment_count, P)
<1>1. /\ old \in Nat /\ P \in Nat /\ P > 0 /\ L \in Nat
      /\ total \in Nat /\ old <= total /\ old < P
      /\ loan.installment_count \in Nat
      /\ SafetyBufferBps \in Nat /\ SafetyBufferBps < BPS
  BY ConfigAssumption DEF Loan, LoanInv, TermsInv, ProgressInv
<1>2. paid \in Nat
  BY <1>1, ProductIsNat, QuotientIsNat DEF InstallmentsCovered
<1>3. loan.collateral_released = Earned(L, old, P, SafetyBufferBps)
  BY <1>1 DEF LoanInv, ProgressInv, Releasable
<1>4. Releasable(loan, total) \in Nat
      /\ Releasable(loan, total) >= loan.collateral_released
  <2>1. CASE total >= P
    <3>1. Earned(L, old, P, SafetyBufferBps) \in Nat
          /\ Earned(L, old, P, SafetyBufferBps) * P <= L * old
      BY <1>1, EarnedAtMostShare
    <3>2. L * old <= L * P
      BY <1>1, ProductMonotone
    <3>3. Earned(L, old, P, SafetyBufferBps) <= L
      <4> DEFINE q == Earned(L, old, P, SafetyBufferBps)
      <4>1. q \in Nat /\ q * P <= L * P
        BY <1>1, <3>1, <3>2
      <4> HIDE DEF q
      <4>2. q <= L
        BY <1>1, <4>1
      <4> QED
        BY <4>2 DEF q
    <3> QED
      BY <1>1, <1>3, <2>1, <3>3 DEF Releasable
  <2>2. CASE total < P
    <3>1. Earned(L, total, P, SafetyBufferBps) \in Nat
      BY <1>1, EarnedAtMostShare
    <3>2. Earned(L, old, P, SafetyBufferBps) <= Earned(L, total, P, SafetyBufferBps)
      BY <1>1, EarnedMonotone
    <3> QED
      BY <1>1, <1>3, <2>2, <3>1, <3>2 DEF Releasable
  <2> QED
    BY <1>1, <2>1, <2>2
<1>5. loan.collateral_released \in Nat
  BY DEF Loan
<1>6. new = [loan EXCEPT !.total_repaid_usd = total,
                !.installments_paid = paid,
                !.collateral_released = Releasable(loan, total)]
  <2> DEFINE rel == Releasable(loan, total)
  <2>1. (IF rel > loan.collateral_released THEN rel ELSE loan.collateral_released)
          = rel
    <3> HIDE DEF rel
    <3> QED
      BY <1>4, <1>5 DEF rel
  <2> QED
    BY <2>1, Zenon DEF Credited
<1> HIDE DEF new, total, paid
<1>7. new \in Loan
  BY <1>1, <1>2, <1>4, <1>6 DEF Loan
<1>8. /\ new.total_repaid_usd = total /\ new.installments_paid = paid
      /\ new.collateral_released = Releasable(loan, total)
  BY <1>6 DEF Loan
<1> QED
  BY <1>6, <1>7, <1>8 DEF new, total, paid

\* A repayment keeps the loan's invariant, whether it closes the loan, brings
\* it current or leaves it behind.
LEMMA RepaidInv ==
    ASSUME now \in Nat, NEW loan \in Loan, LoanInv(loan), IsOpen(loan),
           NEW amount \in Int, amount > 0,
           loan.total_repaid_usd + amount <= loan.principal_usd
    PROVE  LET new == Settled(Credited(loan, amount))
           IN  /\ new \in Loan /\ LoanInv(new)
               /\ new.guarantor = loan.guarantor
               /\ new.beneficiary = loan.beneficiary
               /\ IsOpen(new) <=> new.status # "Repaid"
<1> DEFINE mid   == Credited(loan, amount)
           new   == Settled(mid)
           total == loan.total_repaid_usd + amount
           due   == NextDue(mid, mid.installments_paid)
<1>1. /\ mid \in Loan
      /\ mid = [loan EXCEPT !.total_repaid_usd = total,
                   !.installments_paid = mid.installments_paid,
                   !.collateral_released = mid.collateral_released]
      /\ mid.total_repaid_usd = total
      /\ mid.installments_paid =
            InstallmentsCovered(total, loan.installment_count, loan.principal_usd)
      /\ mid.collateral_released = Releasable(loan, total)
  BY CreditedFields
<1>2. new = IF mid.total_repaid_usd >= mid.principal_usd
            THEN [mid EXCEPT !.status = "Repaid", !.grace_expires_at = 0]
            ELSE IF now <= due
            THEN [mid EXCEPT !.next_due = due, !.status = "Active",
                             !.grace_expires_at = 0]
            ELSE [mid EXCEPT !.next_due = due]
  BY DEF Settled
<1> HIDE DEF mid, new, total
<1>3. /\ mid.guarantor = loan.guarantor /\ mid.beneficiary = loan.beneficiary
      /\ mid.principal_usd = loan.principal_usd /\ mid.ltv_bps = loan.ltv_bps
      /\ mid.collateral_locked = loan.collateral_locked
      /\ mid.installment_count = loan.installment_count
      /\ mid.status = loan.status
      /\ mid.grace_expires_at = loan.grace_expires_at
  BY <1>1, ZenonT(60) DEF Loan
<1>4. due \in Nat
  <2>1. mid.interval_secs \in Nat /\ mid.installments_paid + 1 \in Nat
        /\ mid.originated_at \in Nat
    BY <1>1 DEF Loan
  <2>2. (mid.installments_paid + 1) * mid.interval_secs \in Nat
    BY <2>1, ProductIsNat
  <2> QED
    BY <2>1, <2>2 DEF NextDue
<1> HIDE DEF due
<1>5. new \in Loan
  BY <1>1, <1>2, <1>4, ZenonT(60) DEF Loan, Status
<1>6. /\ new.guarantor = mid.guarantor /\ new.beneficiary = mid.beneficiary
      /\ new.principal_usd = mid.principal_usd /\ new.ltv_bps = mid.ltv_bps
      /\ new.collateral_locked = mid.collateral_locked
      /\ new.collateral_released = mid.collateral_released
      /\ new.installment_count = mid.installment_count
      /\ new.installments_paid = mid.installments_paid
      /\ new.total_repaid_usd = mid.total_repaid_usd
      /\ new.originated_at = mid.originated_at
      /\ new.interval_secs = mid.interval_secs
  BY <1>1, <1>2 DEF Loan
<1>7. loan.status \in {"Active", "Grace"}
  BY DEF IsOpen
<1>8. TermsInv(new)
  BY <1>3, <1>6 DEF TermsInv, LoanInv
<1>9. CASE mid.total_repaid_usd >= mid.principal_usd
  <2>1. new.status = "Repaid" /\ new.grace_expires_at = 0
    BY <1>1, <1>2, <1>9 DEF Loan
  <2>2. ProgressInv(new) /\ GraceInv(new) /\ ~IsOpen(new)
    BY <2>1 DEF ProgressInv, GraceInv, IsOpen
  <2> QED
    BY <1>3, <1>5, <1>6, <1>8, <2>1, <2>2 DEF LoanInv, new, mid
<1>10. CASE ~(mid.total_repaid_usd >= mid.principal_usd)
  <2>1. new.next_due = due
        /\ IF now <= due
           THEN new.status = "Active" /\ new.grace_expires_at = 0
           ELSE new.status = loan.status
                /\ new.grace_expires_at = loan.grace_expires_at
    BY <1>1, <1>2, <1>3, <1>10 DEF Loan
  <2>2. new.total_repaid_usd < new.principal_usd
    BY <1>1, <1>6, <1>10 DEF Loan
  <2>3. new.collateral_released = Releasable(new, new.total_repaid_usd)
    BY <1>1, <1>3, <1>6 DEF Releasable
  <2>4. new.installments_paid =
           InstallmentsCovered(new.total_repaid_usd, new.installment_count,
                               new.principal_usd)
    BY <1>1, <1>3, <1>6
  <2>5. new.next_due = NextDue(new, new.installments_paid)
    BY <2>1, <1>6 DEF due, NextDue
  <2>6. ProgressInv(new)
    BY <2>2, <2>3, <2>4, <2>5 DEF ProgressInv
  <2>7. GraceInv(new)
    BY <1>4, <1>7, <2>1 DEF GraceInv, LoanInv
  <2>8. IsOpen(new) /\ new.status # "Repaid"
    BY <1>7, <2>1 DEF IsOpen
  <2> QED
    BY <1>3, <1>5, <1>6, <1>8, <2>6, <2>7, <2>8 DEF LoanInv, new, mid
<1> QED
  BY <1>9, <1>10

\* What a repayment does to the loan's standing: the deadline survives unless
\* the loan leaves grace, and leaving it while open takes a further installment.
LEMMA RepaidStanding ==
    ASSUME now \in Nat, NEW loan \in Loan, LoanInv(loan), IsOpen(loan),
           NEW amount \in Int, amount > 0,
           loan.total_repaid_usd + amount <= loan.principal_usd
    PROVE  LET new == Settled(Credited(loan, amount))
           IN  /\ new.total_repaid_usd > loan.total_repaid_usd
               /\ new.status = "Grace" =>
                     /\ loan.status = "Grace"
                     /\ new.grace_expires_at = loan.grace_expires_at
               /\ new.status \in {"Active", "Grace", "Repaid"}
               /\ loan.status = "Grace" /\ new.status = "Active" =>
                     new.installments_paid > loan.installments_paid
<1> DEFINE mid   == Credited(loan, amount)
           new   == Settled(mid)
           total == loan.total_repaid_usd + amount
           due   == NextDue(mid, mid.installments_paid)
<1>1. /\ mid \in Loan
      /\ mid = [loan EXCEPT !.total_repaid_usd = total,
                   !.installments_paid = mid.installments_paid,
                   !.collateral_released = mid.collateral_released]
      /\ mid.total_repaid_usd = total
  BY CreditedFields
<1>2. new = IF mid.total_repaid_usd >= mid.principal_usd
            THEN [mid EXCEPT !.status = "Repaid", !.grace_expires_at = 0]
            ELSE IF now <= due
            THEN [mid EXCEPT !.next_due = due, !.status = "Active",
                             !.grace_expires_at = 0]
            ELSE [mid EXCEPT !.next_due = due]
  BY DEF Settled
<1>3. /\ loan.total_repaid_usd \in Nat /\ total > loan.total_repaid_usd
      /\ loan.installments_paid \in Nat /\ mid.installments_paid \in Nat
      /\ loan.interval_secs \in Nat /\ loan.originated_at \in Nat
      /\ loan.status \in {"Active", "Grace"}
  BY <1>1 DEF Loan, IsOpen, total
<1> HIDE DEF mid, new, total
<1>4. /\ mid.status = loan.status
      /\ mid.grace_expires_at = loan.grace_expires_at
      /\ mid.interval_secs = loan.interval_secs
      /\ mid.originated_at = loan.originated_at
  BY <1>1 DEF Loan
<1>5. /\ new.total_repaid_usd = total
      /\ new.installments_paid = mid.installments_paid
  BY <1>1, <1>2 DEF Loan
<1>6. CASE mid.total_repaid_usd >= mid.principal_usd
  <2>1. new.status = "Repaid"
    BY <1>1, <1>2, <1>6 DEF Loan
  <2> QED
    BY <1>3, <1>5, <2>1 DEF new, mid
<1>7. CASE ~(mid.total_repaid_usd >= mid.principal_usd) /\ now <= due
  <2>1. new.status = "Active"
    BY <1>1, <1>2, <1>7 DEF Loan
  <2>2. ASSUME loan.status = "Grace"
        PROVE  mid.installments_paid > loan.installments_paid
    <3>1. loan.originated_at + (loan.installments_paid + 1) * loan.interval_secs < now
      BY <2>2 DEF LoanInv, ProgressInv, GraceInv, IsOpen, NextDue
    <3>2. now <= loan.originated_at + (mid.installments_paid + 1) * loan.interval_secs
      BY <1>4, <1>7 DEF due, NextDue
    <3>3. CASE mid.installments_paid <= loan.installments_paid
      <4>1. loan.interval_secs * (mid.installments_paid + 1)
              <= loan.interval_secs * (loan.installments_paid + 1)
        BY <1>3, <3>3, ProductMonotone
      <4>2. (mid.installments_paid + 1) * loan.interval_secs
              <= (loan.installments_paid + 1) * loan.interval_secs
        BY <1>3, <4>1
      <4>3. /\ (mid.installments_paid + 1) * loan.interval_secs \in Nat
            /\ (loan.installments_paid + 1) * loan.interval_secs \in Nat
        BY <1>3, ProductIsNat
      <4> QED
        BY <1>3, <3>1, <3>2, <4>2, <4>3
    <3> QED
      BY <1>3, <3>3
  <2> QED
    BY <1>3, <1>5, <2>1, <2>2 DEF new, mid
<1>8. CASE ~(mid.total_repaid_usd >= mid.principal_usd) /\ ~(now <= due)
  <2>1. new.status = loan.status /\ new.grace_expires_at = loan.grace_expires_at
    BY <1>1, <1>2, <1>4, <1>8 DEF Loan
  <2> QED
    BY <1>3, <1>5, <2>1 DEF new, mid
<1> QED
  BY <1>6, <1>7, <1>8

\* Entering grace, being written off and changing partner keep the loan's
\* invariant.
LEMMA InGraceInv ==
    ASSUME now \in Nat, NEW loan \in Loan, LoanInv(loan),
           loan.status = "Active", now > loan.next_due
    PROVE  LET new == InGrace(loan)
           IN  /\ new \in Loan /\ LoanInv(new) /\ IsOpen(new)
               /\ new.guarantor = loan.guarantor
               /\ new.beneficiary = loan.beneficiary
<1> DEFINE new == InGrace(loan)
<1>1. GracePeriod \in Nat /\ loan.next_due \in Nat
  BY ConfigAssumption DEF Loan
<1>2. new \in Loan
  <2> DEFINE deadline == now + GracePeriod
  <2>1. deadline \in Nat
    BY <1>1
  <2>2. new = [loan EXCEPT !.status = "Grace", !.grace_expires_at = deadline]
    BY DEF InGrace
  <2> HIDE DEF new, deadline
  <2> QED
    BY <2>1, <2>2 DEF Loan, Status
<1>3. /\ new.guarantor = loan.guarantor /\ new.beneficiary = loan.beneficiary
      /\ new.principal_usd = loan.principal_usd /\ new.ltv_bps = loan.ltv_bps
      /\ new.collateral_locked = loan.collateral_locked
      /\ new.collateral_released = loan.collateral_released
      /\ new.installment_count = loan.installment_count
      /\ new.installments_paid = loan.installments_paid
      /\ new.total_repaid_usd = loan.total_repaid_usd
      /\ new.originated_at = loan.originated_at
      /\ new.interval_secs = loan.interval_secs
      /\ new.next_due = loan.next_due
      /\ new.status = "Grace"
      /\ new.grace_expires_at = now + GracePeriod
  BY DEF InGrace, Loan
<1> HIDE DEF new
<1>4. TermsInv(new)
  BY <1>3 DEF TermsInv, LoanInv
<1>5. ProgressInv(new)
  BY <1>3 DEF ProgressInv, LoanInv, IsOpen, Releasable, NextDue
<1>6. GraceInv(new)
  BY <1>1, <1>3 DEF GraceInv
<1> QED
  BY <1>2, <1>3, <1>4, <1>5, <1>6 DEF LoanInv, IsOpen, new

\* A loan that is liquidated satisfies the invariant of a closed loan.
LEMMA AfterDefaultInv ==
    ASSUME NEW loan \in Loan, LoanInv(loan)
    PROVE  LET new == AfterDefault(loan)
           IN  /\ new \in Loan /\ LoanInv(new) /\ ~IsOpen(new)
               /\ new.guarantor = loan.guarantor
               /\ new.beneficiary = loan.beneficiary
<1> DEFINE new == AfterDefault(loan)
<1>1. new \in Loan
  BY DEF AfterDefault, Loan, Status
<1>2. /\ new.guarantor = loan.guarantor /\ new.beneficiary = loan.beneficiary
      /\ new.principal_usd = loan.principal_usd /\ new.ltv_bps = loan.ltv_bps
      /\ new.collateral_locked = loan.collateral_locked
      /\ new.installment_count = loan.installment_count
      /\ new.status = "Defaulted"
  BY DEF AfterDefault, Loan
<1> HIDE DEF new
<1>3. TermsInv(new)
  BY <1>2 DEF TermsInv, LoanInv
<1>4. ProgressInv(new) /\ GraceInv(new) /\ ~IsOpen(new)
  BY <1>2 DEF ProgressInv, GraceInv, IsOpen
<1> QED
  BY <1>1, <1>2, <1>3, <1>4 DEF LoanInv, new

\* Changing the partner of a loan leaves its invariant alone.
LEMMA ReassignedInv ==
    ASSUME NEW loan \in Loan, LoanInv(loan), IsOpen(loan), NEW a \in Agents
    PROVE  LET new == [loan EXCEPT !.partner = a]
           IN  /\ new \in Loan /\ LoanInv(new) /\ IsOpen(new)
               /\ new.guarantor = loan.guarantor
               /\ new.beneficiary = loan.beneficiary
<1> DEFINE new == [loan EXCEPT !.partner = a]
<1>1. new \in Loan
  BY DEF Loan
<1>2. /\ new.guarantor = loan.guarantor /\ new.beneficiary = loan.beneficiary
      /\ new.principal_usd = loan.principal_usd /\ new.ltv_bps = loan.ltv_bps
      /\ new.collateral_locked = loan.collateral_locked
      /\ new.collateral_released = loan.collateral_released
      /\ new.installment_count = loan.installment_count
      /\ new.installments_paid = loan.installments_paid
      /\ new.total_repaid_usd = loan.total_repaid_usd
      /\ new.originated_at = loan.originated_at
      /\ new.interval_secs = loan.interval_secs
      /\ new.next_due = loan.next_due
      /\ new.status = loan.status
      /\ new.grace_expires_at = loan.grace_expires_at
  BY DEF Loan
<1> HIDE DEF new
<1>3. TermsInv(new) /\ GraceInv(new) /\ IsOpen(new)
  BY <1>2 DEF TermsInv, GraceInv, LoanInv, IsOpen
<1>4. ProgressInv(new)
  BY <1>2 DEF ProgressInv, LoanInv, IsOpen, Releasable, NextDue
<1> QED
  BY <1>1, <1>2, <1>3, <1>4 DEF LoanInv, new

-----------------------------------------------------------------------------
\* The ledger's records.

\* The marker of a loan's pair, when the pair is the loan's.
LEMMA LoanPair ==
    ASSUME NEW loan \in Loan
    PROVE  <<loan.guarantor, loan.beneficiary>> \in Guarantors \X Beneficiaries
BY DEF Loan

\* Time alone never breaks a loan's invariant.
LEMMA LoanInvInTime ==
    ASSUME now \in Nat, now' \in Nat, now' >= now, NEW loan \in Loan, LoanInv(loan)
    PROVE  LoanInv(loan)'
<1>1. TermsInv(loan)' /\ ProgressInv(loan)'
  BY DEF LoanInv, TermsInv, ProgressInv, IsOpen, Releasable, NextDue
<1>2. GraceInv(loan)'
  <2>1. loan.next_due \in Nat /\ loan.grace_expires_at \in Nat
    BY DEF Loan
  <2>2. GracePeriod \in Nat
    BY ConfigAssumption
  <2> QED
    BY <2>1, <2>2 DEF LoanInv, GraceInv
<1> QED
  BY <1>1, <1>2 DEF LoanInv

\* When no loan, marker or role changes, the ledger stays consistent over time.
LEMMA LedgerUnchangedInv ==
    ASSUME LedgerInv, UNCHANGED <<loans, openLoan>>, now' \in Nat, now' >= now
    PROVE  LedgerInv'
<1>1. OpenMarkerExact'
  BY DEF LedgerInv, OpenMarkerExact, LoanIds, IsOpen
<1>2. ASSUME NEW id \in LoanIds' PROVE LoanInv(loans[id])'
  <2>1. loans[id] \in Loan /\ LoanInv(loans[id])
    BY <1>2, LenProperties DEF LedgerInv, LoanIds
  <2>2. SUFFICES ASSUME NEW loan, loan = loans[id] PROVE LoanInv(loan)'
    BY DEF LoanInv, TermsInv, ProgressInv, GraceInv, IsOpen, Releasable, NextDue
  <2> QED
    BY <2>1, <2>2, LoanInvInTime DEF LedgerInv
<1> QED
  BY <1>1, <1>2 DEF LedgerInv

\* Replacing an open loan by a later version of itself, its marker removed
\* exactly when it closes.
LEMMA LoanUpdateInv ==
    ASSUME LedgerInv, NEW id \in LoanIds, IsOpen(loans[id]),
           NEW new \in Loan, LoanInv(new),
           new.guarantor = loans[id].guarantor,
           new.beneficiary = loans[id].beneficiary,
           loans' = [loans EXCEPT ![id] = new],
           openLoan' = IF IsOpen(new) THEN openLoan ELSE WithoutMarker(loans[id]),
           now' = now
    PROVE  LedgerInv'
<1>1. /\ loans' \in Seq(Loan) /\ LoanIds' = LoanIds
      /\ \A j \in LoanIds : loans'[j] = IF j = id THEN new ELSE loans[j]
      /\ \A j \in LoanIds : loans[j] \in Loan
  BY ExceptSeq, LenProperties DEF LedgerInv, LoanIds
<1> DEFINE pair == <<loans[id].guarantor, loans[id].beneficiary>>
<1>2. pair \in Guarantors \X Beneficiaries /\ openLoan[pair] = id
  BY <1>1, LoanPair DEF LedgerInv, OpenMarkerExact
<1>3. openLoan' \in [Guarantors \X Beneficiaries -> Nat]
  BY <1>2 DEF LedgerInv, WithoutMarker
<1>4. \A p \in Guarantors \X Beneficiaries :
         openLoan'[p] = IF p = pair /\ ~IsOpen(new) THEN 0 ELSE openLoan[p]
  BY <1>2 DEF LedgerInv, WithoutMarker
<1>5. ASSUME NEW j \in LoanIds' PROVE LoanInv(loans[j])'
  <2>1. SUFFICES ASSUME NEW loan, loan = loans'[j] PROVE LoanInv(loan)'
    BY DEF LoanInv, TermsInv, ProgressInv, GraceInv, IsOpen, Releasable, NextDue
  <2>2. loan \in Loan /\ LoanInv(loan)
    BY <1>1, <1>5, <2>1 DEF LedgerInv
  <2> QED
    BY <2>2, LoanInvInTime DEF LedgerInv
<1>6. OpenMarkerExact'
  <2>1. ASSUME NEW p \in Guarantors \X Beneficiaries, openLoan'[p] # 0
        PROVE  /\ openLoan'[p] \in LoanIds
               /\ IsOpen(loans'[openLoan'[p]])
               /\ p = <<loans'[openLoan'[p]].guarantor,
                        loans'[openLoan'[p]].beneficiary>>
    <3>1. /\ openLoan'[p] = openLoan[p] /\ openLoan[p] \in LoanIds
          /\ IsOpen(loans[openLoan[p]])
          /\ p = <<loans[openLoan[p]].guarantor, loans[openLoan[p]].beneficiary>>
      BY <1>4, <2>1 DEF LedgerInv, OpenMarkerExact
    <3>2. CASE openLoan[p] = id
      <4>1. p = pair
        BY <3>1, <3>2
      <4>2. IsOpen(new)
        BY <1>4, <2>1, <4>1
      <4> QED
        BY <1>1, <3>1, <3>2, <4>2
    <3>3. CASE openLoan[p] # id
      BY <1>1, <3>1, <3>3
    <3> QED
      BY <3>2, <3>3
  <2>2. ASSUME NEW j \in LoanIds, IsOpen(loans'[j])
        PROVE  openLoan'[<<loans'[j].guarantor, loans'[j].beneficiary>>] = j
    <3>1. CASE j = id
      BY <1>1, <1>2, <1>4, <2>2, <3>1
    <3>2. CASE j # id
      <4>1. /\ loans'[j] = loans[j]
            /\ openLoan[<<loans[j].guarantor, loans[j].beneficiary>>] = j
        BY <1>1, <2>2, <3>2 DEF LedgerInv, OpenMarkerExact
      <4>2. <<loans[j].guarantor, loans[j].beneficiary>> # pair
        BY <1>2, <3>2, <4>1
      <4>3. <<loans[j].guarantor, loans[j].beneficiary>>
               \in Guarantors \X Beneficiaries
        BY <1>1, LoanPair
      <4> QED
        BY <1>4, <4>1, <4>2, <4>3
    <3> QED
      BY <3>1, <3>2
  <2>3. /\ \A p \in Guarantors \X Beneficiaries :
             openLoan'[p] # 0 =>
                /\ openLoan'[p] \in LoanIds'
                /\ IsOpen(loans'[openLoan'[p]])
                /\ p = <<loans'[openLoan'[p]].guarantor,
                         loans'[openLoan'[p]].beneficiary>>
        /\ \A j \in LoanIds' :
             IsOpen(loans'[j]) =>
                openLoan'[<<loans'[j].guarantor, loans'[j].beneficiary>>] = j
    BY <1>1, <2>1, <2>2
  <2> QED
    BY <2>3 DEF OpenMarkerExact, IsOpen
<1> QED
  BY <1>1, <1>3, <1>5, <1>6 DEF LedgerInv

\* Recording a new loan for a pair that has no open one.
LEMMA LoanAppendInv ==
    ASSUME LedgerInv, NEW new \in Loan, LoanInv(new), IsOpen(new),
           NEW pair, pair = <<new.guarantor, new.beneficiary>>,
           openLoan[pair] = 0,
           loans' = Append(loans, new),
           openLoan' = [openLoan EXCEPT ![pair] = Len(loans) + 1],
           now' = now
    PROVE  LedgerInv'
<1> DEFINE id == Len(loans) + 1
<1>1. /\ loans' \in Seq(Loan) /\ Len(loans) \in Nat
      /\ LoanIds' = LoanIds \cup {id} /\ id \notin LoanIds /\ id \in Nat /\ id # 0
      /\ loans'[id] = new
      /\ \A j \in LoanIds : loans'[j] = loans[j] /\ loans[j] \in Loan
  BY AppendProperties, LenProperties DEF LedgerInv, LoanIds
<1>2. pair \in Guarantors \X Beneficiaries
  BY LoanPair
<1> HIDE DEF id
<1>3. openLoan' = [openLoan EXCEPT ![pair] = id]
  BY DEF id
<1>4. openLoan' \in [Guarantors \X Beneficiaries -> Nat]
  BY <1>1, <1>2, <1>3 DEF LedgerInv
<1>5. \A p \in Guarantors \X Beneficiaries :
         openLoan'[p] = IF p = pair THEN id ELSE openLoan[p]
  BY <1>2, <1>3 DEF LedgerInv
<1>6. ASSUME NEW j \in LoanIds' PROVE LoanInv(loans[j])'
  <2>1. SUFFICES ASSUME NEW loan, loan = loans'[j] PROVE LoanInv(loan)'
    BY DEF LoanInv, TermsInv, ProgressInv, GraceInv, IsOpen, Releasable, NextDue
  <2>2. loan \in Loan /\ LoanInv(loan)
    BY <1>1, <1>6, <2>1 DEF LedgerInv
  <2> QED
    BY <2>2, LoanInvInTime DEF LedgerInv
<1>7. OpenMarkerExact'
  <2>1. ASSUME NEW p \in Guarantors \X Beneficiaries, openLoan'[p] # 0
        PROVE  /\ openLoan'[p] \in LoanIds'
               /\ IsOpen(loans'[openLoan'[p]])
               /\ p = <<loans'[openLoan'[p]].guarantor,
                        loans'[openLoan'[p]].beneficiary>>
    <3>1. CASE p = pair
      BY <1>1, <1>5, <3>1
    <3>2. CASE p # pair
      <4>1. openLoan'[p] = openLoan[p]
        BY <1>5, <3>2
      <4>2. /\ openLoan[p] \in LoanIds /\ IsOpen(loans[openLoan[p]])
            /\ p = <<loans[openLoan[p]].guarantor, loans[openLoan[p]].beneficiary>>
        BY <2>1, <4>1 DEF LedgerInv, OpenMarkerExact
      <4>3. /\ openLoan[p] \in LoanIds'
            /\ loans'[openLoan[p]] = loans[openLoan[p]]
        BY <1>1, <4>2
      <4> QED
        BY <4>1, <4>2, <4>3
    <3> QED
      BY <3>1, <3>2
  <2>2. ASSUME NEW j \in LoanIds', IsOpen(loans'[j])
        PROVE  openLoan'[<<loans'[j].guarantor, loans'[j].beneficiary>>] = j
    <3>1. CASE j = id
      BY <1>1, <1>2, <1>5, <3>1
    <3>2. CASE j # id
      <4>1. /\ j \in LoanIds /\ loans'[j] = loans[j]
            /\ openLoan[<<loans[j].guarantor, loans[j].beneficiary>>] = j
        BY <1>1, <2>2, <3>2 DEF LedgerInv, OpenMarkerExact
      <4>2. <<loans[j].guarantor, loans[j].beneficiary>> # pair
        <5>1. j # 0
          BY <1>1, <4>1 DEF LoanIds
        <5> QED
          BY <4>1, <5>1, Zenon
      <4>3. <<loans[j].guarantor, loans[j].beneficiary>>
               \in Guarantors \X Beneficiaries
        BY <1>1, <4>1, LoanPair
      <4> QED
        BY <1>5, <4>1, <4>2, <4>3
    <3> QED
      BY <3>1, <3>2
  <2>3. /\ \A p \in Guarantors \X Beneficiaries :
             openLoan'[p] # 0 =>
                /\ openLoan'[p] \in LoanIds'
                /\ IsOpen(loans'[openLoan'[p]])
                /\ p = <<loans'[openLoan'[p]].guarantor,
                         loans'[openLoan'[p]].beneficiary>>
        /\ \A j \in LoanIds' :
             IsOpen(loans'[j]) =>
                openLoan'[<<loans'[j].guarantor, loans'[j].beneficiary>>] = j
    BY <2>1, <2>2
  <2> QED
    BY <2>3 DEF OpenMarkerExact, IsOpen
<1> QED
  BY <1>1, <1>4, <1>6, <1>7 DEF LedgerInv

-----------------------------------------------------------------------------
\* The steps of the protocol.

\* Every loan of a consistent ledger is a typed record.
LEMMA LoanIsTyped ==
    ASSUME LedgerInv, NEW id \in LoanIds
    PROVE  loans[id] \in Loan /\ LoanInv(loans[id])
BY LenProperties DEF LedgerInv, LoanIds

\* Roles that do not change stay disjoint.
LEMMA RoleUnchangedInv ==
    ASSUME RoleInv, UNCHANGED <<reputation, roles, ledgerEngine, isPaused>>
    PROVE  RoleInv'
BY DEF RoleInv, RolesDisjoint, roles

\* The constructed and not yet wired contracts satisfy the invariant.
LEMMA InitInv == Init => IInv
<1> SUFFICES ASSUME Init PROVE IInv
  OBVIOUS
<1>1. VaultInv
  BY VaultInitInv DEF Init
<1>2. LedgerInv
  <2>1. loans = <<>> /\ loans \in Seq(Loan) /\ LoanIds = {}
    BY DEF Init, LedgerInit, LoanIds
  <2> QED
    BY <2>1 DEF Init, LedgerInit, LedgerInv, OpenMarkerExact
<1>3. RoleInv
  <2>1. reputation \in [Beneficiaries -> 0 .. BPS]
    BY DEF Init, LedgerInit, BPS
  <2>2. partners \cap verifiers = {}
    BY DEF Init, LedgerInit
  <2>3. isPaused \in BOOLEAN
    BY DEF Init, EngineInit
  <2> QED
    BY <2>1, <2>2, <2>3 DEF Init, LedgerInit, RoleInv, RolesDisjoint
<1> QED
  BY <1>1, <1>2, <1>3 DEF IInv

\* Registering the contracts with each other preserves the invariant.
LEMMA WireInv ==
    ASSUME IInv, WireVault \/ WireLedger
    PROVE  IInv'
<1>1. LedgerAddr \in Contracts /\ EngineAddr \in Contracts
  BY ProtocolAssumption
<1>2. CASE WireVault
  <2>1. VaultInv'
    BY <1>1, <1>2, VaultWiringInv DEF IInv, WireVault
  <2>2. LedgerInv'
    BY <1>2, LedgerUnchangedInv DEF IInv, LedgerInv, ledgerVars, WireVault
  <2>3. RoleInv'
    BY <1>2, RoleUnchangedInv DEF IInv, ledgerVars, roles, WireVault
  <2> QED
    BY <2>1, <2>2, <2>3 DEF IInv
<1>3. CASE WireLedger
  <2>1. VaultInv'
    BY <1>3, VaultStutterInv DEF IInv, WireLedger
  <2>2. LedgerInv'
    BY <1>3, LedgerUnchangedInv DEF IInv, LedgerInv, SetLedgerEngine, WireLedger
  <2>3. RoleInv'
    BY <1>3 DEF IInv, RoleInv, RolesDisjoint, SetLedgerEngine, roles, WireLedger
  <2> QED
    BY <2>1, <2>2, <2>3 DEF IInv
<1> QED
  BY <1>2, <1>3

\* reassign_partner preserves the invariant.
LEMMA ReassignPartnerInv ==
    ASSUME IInv, NEW id \in LoanIds, NEW a \in Agents, ReassignPartner(id, a),
           UNCHANGED <<vaultVars, isPaused>>
    PROVE  IInv'
<1> DEFINE new == [loans[id] EXCEPT !.partner = a]
<1>1. IsOpen(loans[id]) /\ loans' = [loans EXCEPT ![id] = new]
      /\ openLoan' = openLoan /\ now' = now
  BY DEF ReassignPartner
<1>2. /\ new \in Loan /\ LoanInv(new) /\ IsOpen(new)
      /\ new.guarantor = loans[id].guarantor
      /\ new.beneficiary = loans[id].beneficiary
  BY <1>1, LoanIsTyped, ReassignedInv DEF IInv
<1> HIDE DEF new
<1>3. LedgerInv'
  BY <1>1, <1>2, LoanUpdateInv DEF IInv
<1>4. RoleInv'
  BY RoleUnchangedInv DEF IInv, ReassignPartner
<1>5. VaultInv'
  BY VaultStutterInv DEF IInv
<1> QED
  BY <1>3, <1>4, <1>5 DEF IInv

\* Adding and removing partners and verifiers preserves the invariant.
LEMMA ManageRolesInv ==
    ASSUME IInv, ManageRoles
    PROVE  IInv'
<1>1. VaultInv'
  BY VaultStutterInv DEF IInv, ManageRoles
<1>2. ASSUME NEW a \in Agents, SetOracle(a) PROVE IInv'
  <2>1. LedgerInv'
    BY <1>2, LedgerUnchangedInv DEF IInv, LedgerInv, SetOracle
  <2>2. RoleInv'
    BY <1>2 DEF IInv, RoleInv, RolesDisjoint, SetOracle, ManageRoles
  <2> QED
    BY <1>1, <2>1, <2>2 DEF IInv
<1>3. ASSUME NEW a \in Agents, NEW authorized \in BOOLEAN,
             SetPartner(a, authorized) \/ SetVerifier(a, authorized)
      PROVE  IInv'
  <2>1. LedgerInv'
    BY <1>3, LedgerUnchangedInv DEF IInv, LedgerInv, SetPartner, SetVerifier
  <2>2. partners' \subseteq Agents /\ verifiers' \subseteq Agents
    BY <1>3 DEF IInv, RoleInv, SetPartner, SetVerifier
  <2>3. RolesDisjoint'
    BY <1>3 DEF IInv, RoleInv, RolesDisjoint, SetPartner, SetVerifier
  <2>4. UNCHANGED <<reputation, oracle, ledgerEngine, isPaused>>
    BY <1>3 DEF SetPartner, SetVerifier, ManageRoles
  <2> QED
    BY <1>1, <2>1, <2>2, <2>3, <2>4 DEF IInv, RoleInv
<1>4. ASSUME NEW id \in LoanIds, NEW a \in Agents, ReassignPartner(id, a)
      PROVE  IInv'
  BY <1>4, ReassignPartnerInv DEF ManageRoles
<1> QED
  BY <1>2, <1>3, <1>4 DEF ManageRoles

\* Pausing and unpausing preserve the invariant.
LEMMA PauseInv ==
    ASSUME IInv, PauseEngine
    PROVE  IInv'
<1>1. VaultInv'
  BY VaultStutterInv DEF IInv, PauseEngine
<1>2. LedgerInv'
  BY LedgerUnchangedInv DEF IInv, LedgerInv, PauseEngine, ledgerVars
<1>3. RoleInv'
  BY DEF IInv, RoleInv, RolesDisjoint, PauseEngine, Pause, Unpause, ledgerVars
<1> QED
  BY <1>1, <1>2, <1>3 DEF IInv

\* A new score of the oracle preserves the invariant.
LEMMA PublishScoreInv ==
    ASSUME IInv, PublishScore
    PROVE  IInv'
<1> PICK a \in Agents, b \in Beneficiaries, score \in Scores :
       SetReputation(a, b, score)
  BY DEF PublishScore
<1>1. VaultInv'
  BY VaultStutterInv DEF IInv, PublishScore
<1>2. LedgerInv'
  BY LedgerUnchangedInv DEF IInv, LedgerInv, SetReputation
<1>3. reputation' \in [Beneficiaries -> 0 .. BPS]
  <2>1. score \in 0 .. BPS
    BY InputAssumption, SMTT(30) DEF SetReputation, BPS
  <2> QED
    BY <2>1 DEF IInv, RoleInv, SetReputation
<1>4. RoleInv'
  BY <1>3 DEF IInv, RoleInv, RolesDisjoint, SetReputation, PublishScore, roles
<1> QED
  BY <1>1, <1>2, <1>4 DEF IInv

\* The calls guarantors make to the vault preserve the invariant.
LEMMA UseVaultInv ==
    ASSUME IInv, UseVault
    PROVE  IInv'
<1>1. VaultInv'
  <2> PICK g \in Guarantors, amount \in Amounts, fee \in Fees :
         Deposit(g, amount, fee) \/ Withdraw(g, amount, fee)
    BY DEF UseVault
  <2> QED
    BY DepositInv, WithdrawInv, AmountAssumption DEF IInv
<1>2. LedgerInv'
  BY LedgerUnchangedInv DEF IInv, LedgerInv, UseVault, ledgerVars
<1>3. RoleInv'
  BY RoleUnchangedInv DEF IInv, UseVault, ledgerVars, roles
<1> QED
  BY <1>1, <1>2, <1>3 DEF IInv

\* The passing of time preserves the invariant.
LEMMA TickInv ==
    ASSUME IInv, Tick
    PROVE  IInv'
<1>1. VaultInv'
  BY VaultStutterInv DEF IInv, Tick
<1>2. LedgerInv'
  BY LedgerUnchangedInv DEF IInv, LedgerInv, Tick
<1>3. RoleInv'
  BY RoleUnchangedInv DEF IInv, Tick
<1> QED
  BY <1>1, <1>2, <1>3 DEF IInv

\* originate, with its lock in the vault, preserves the invariant.
LEMMA OpenLoanInv ==
    ASSUME IInv, OpenLoan
    PROVE  IInv'
<1> PICK g \in Guarantors, b \in Beneficiaries, a \in Agents,
         principal \in Principals, count \in InstallmentCounts,
         interval \in Intervals :
            Originate(g, b, a, principal, count, interval)
  BY DEF OpenLoan
<1> DEFINE new == NewLoan(g, b, a, principal, count, interval)
<1>1. principal \in Int /\ count \in Nat /\ interval \in Nat
  BY InputAssumption
<1>2. /\ principal > 0 /\ ScheduleAllowed(count, interval)
      /\ OriginationFits(new)
      /\ openLoan[<<g, b>>] = 0
      /\ LockCollateral(LedgerAddr, g, new.collateral_locked)
      /\ loans' = Append(loans, new)
      /\ openLoan' = [openLoan EXCEPT ![<<g, b>>] = Len(loans) + 1]
      /\ UNCHANGED <<reputation, roles, ledgerEngine, now>>
  BY DEF Originate
<1>3. new \in Loan /\ LoanInv(new)
  BY <1>1, <1>2, NewLoanInv DEF IInv
<1>4. new.guarantor = g /\ new.beneficiary = b /\ IsOpen(new)
  BY DEF NewLoan, IsOpen
<1> HIDE DEF new
<1>5. VaultInv'
  <2>1. new.collateral_locked \in Int
    BY <1>3 DEF Loan
  <2> QED
    BY <1>2, <2>1, LockCollateralInv DEF IInv
<1>6. LedgerInv'
  BY <1>2, <1>3, <1>4, LoanAppendInv DEF IInv
<1>7. RoleInv'
  BY <1>2, RoleUnchangedInv DEF IInv, OpenLoan
<1> QED
  BY <1>5, <1>6, <1>7 DEF IInv

\* attest_repayment, with its release in the vault, preserves the invariant.
LEMMA RepayInv ==
    ASSUME IInv, Repay
    PROVE  IInv'
<1> PICK p \in Agents, v \in Agents, id \in LoanIds, amount \in Amounts :
       AttestRepayment(p, v, id, amount)
  BY DEF Repay
<1> DEFINE loan       == loans[id]
           new        == Settled(Credited(loan, amount))
           releaseNow == new.collateral_released - loan.collateral_released
<1>1. loan \in Loan /\ LoanInv(loan) /\ amount \in Int /\ now \in Nat
  BY LoanIsTyped, AmountAssumption DEF IInv, LedgerInv
<1>2. /\ amount > 0 /\ IsOpen(loan)
      /\ loan.total_repaid_usd + amount <= loan.principal_usd
      /\ IF releaseNow > 0
         THEN ReleaseCollateral(LedgerAddr, loan.guarantor, releaseNow)
         ELSE UNCHANGED vaultVars
      /\ loans' = [loans EXCEPT ![id] = new]
      /\ openLoan' = IF new.status = "Repaid" THEN WithoutMarker(loan)
                                              ELSE openLoan
      /\ UNCHANGED <<reputation, roles, ledgerEngine, now>>
  BY DEF AttestRepayment, CanAttest
<1>3. /\ new \in Loan /\ LoanInv(new)
      /\ new.guarantor = loan.guarantor
      /\ new.beneficiary = loan.beneficiary
      /\ IsOpen(new) <=> new.status # "Repaid"
  BY <1>1, <1>2, RepaidInv
<1> HIDE DEF new
<1>4. VaultInv'
  <2>1. releaseNow \in Int /\ loan.guarantor \in Guarantors
    BY <1>1, <1>3 DEF Loan
  <2> HIDE DEF releaseNow
  <2> QED
    BY <1>2, <2>1, ReleaseCollateralInv, VaultStutterInv DEF IInv
<1>5. LedgerInv'
  BY <1>2, <1>3, LoanUpdateInv DEF IInv
<1>6. RoleInv'
  BY <1>2, RoleUnchangedInv DEF IInv, Repay
<1> QED
  BY <1>4, <1>5, <1>6 DEF IInv

\* A liquidation leaves the vault within the asserts of `save`, and touches
\* it only through a registered ledger.
LEMMA SettlementInv ==
    ASSUME IInv, NEW id \in LoanIds, NEW fee \in Nat, Liquidate(id, fee)
    PROVE  VaultInv'
<1> DEFINE loan      == loans[id]
           g         == loan.guarantor
           vault     == vaults[g]
           forfeited == ForfeitedOf(loan)
           returned  == ReturnedOf(loan)
           seized    == AfterSeizure(loan)
           settled   == AfterReturn(loan)
<1>1. loan \in Loan /\ g \in Guarantors
  BY LoanIsTyped DEF IInv, Loan
<1>2. forfeited \in Int /\ returned \in Int
  BY <1>1 DEF ForfeitedOf, ReturnedOf, Outstanding, Remaining, Smaller, Loan
<1>3. /\ vault \in Vault
      /\ vault.locked_amount >= 0
      /\ vault.collateral_balance >= vault.locked_amount
  BY <1>1 DEF IInv, VaultInv, VaultTypeOK, SaveAssertionsHold
<1>4. /\ forfeited > 0 => CanForfeit(vault, forfeited)
                          /\ CanTransfer(VaultAddr, settlement, forfeited, fee)
      /\ returned > 0 => CanRelease(seized, returned)
      /\ vaults' = [vaults EXCEPT ![g] = settled]
      /\ usdc' = IF forfeited > 0 THEN Transfer(VaultAddr, settlement, forfeited, fee)
                                  ELSE usdc
      /\ UNCHANGED vaultWiring
  BY DEF Liquidate, CanLiquidate
<1>5. /\ seized = IF forfeited > 0 THEN AfterForfeit(vault, forfeited) ELSE vault
      /\ settled = IF returned > 0 THEN AfterRelease(seized, returned) ELSE seized
  BY Zenon DEF AfterSeizure, AfterReturn
<1> HIDE DEF forfeited, returned, vault, seized, settled
<1>6. /\ seized \in Vault
      /\ seized.locked_amount >= 0
      /\ seized.collateral_balance >= seized.locked_amount
      /\ seized # vault => vault.locked_amount > 0
  BY <1>2, <1>3, <1>4, <1>5 DEF CanForfeit, AfterForfeit, Vault
<1>7. /\ settled \in Vault
      /\ settled.locked_amount >= 0
      /\ settled.collateral_balance >= settled.locked_amount
      /\ settled # seized => seized.locked_amount > 0
  BY <1>2, <1>4, <1>5, <1>6 DEF CanRelease, AfterRelease, Vault
<1> HIDE DEF g
<1>8. usdc' \in [Accounts -> Nat]
  <2>1. usdc \in [Accounts -> Nat] /\ VaultAddr \in Accounts /\ settlement \in Accounts
    BY DEF IInv, VaultInv, VaultTypeOK, Accounts
  <2> QED
    BY <1>2, <1>4, <2>1, TransferType
<1>9. VaultTypeOK' /\ SaveAssertionsHold'
  BY <1>1, <1>4, <1>7, <1>8
     DEF IInv, VaultInv, VaultTypeOK, SaveAssertionsHold, vaultWiring
<1>10. NothingLockedBeforeTheLedger'
  <2>1. SUFFICES ASSUME vaultLoanLedger = None
                 PROVE  \A h \in Guarantors : vaults'[h].locked_amount = 0
    BY <1>4 DEF NothingLockedBeforeTheLedger, vaultWiring
  <2>2. \A h \in Guarantors : vaults[h].locked_amount = 0
    BY <2>1 DEF IInv, VaultInv, NothingLockedBeforeTheLedger
  <2>3. vault.locked_amount = 0
    BY <1>1, <2>2 DEF vault
  <2>4. settled = vault
    BY <1>6, <1>7, <2>3
  <2> QED
    BY <1>1, <1>4, <2>2, <2>3, <2>4 DEF IInv, VaultInv, VaultTypeOK
<1> QED
  BY <1>9, <1>10 DEF VaultInv

\* liquidate preserves the invariant.
LEMMA LiquidateInv ==
    ASSUME IInv, NEW id \in LoanIds, NEW fee \in Nat, Liquidate(id, fee)
    PROVE  IInv'
<1> DEFINE new == AfterDefault(loans[id])
<1>1. /\ IsOpen(loans[id])
      /\ loans' = [loans EXCEPT ![id] = new]
      /\ openLoan' = WithoutMarker(loans[id])
      /\ UNCHANGED <<reputation, roles, ledgerEngine, isPaused, now>>
  BY DEF Liquidate, CanLiquidate, MarkDefaulted, GraceExpired, IsOpen
<1>2. /\ new \in Loan /\ LoanInv(new) /\ ~IsOpen(new)
      /\ new.guarantor = loans[id].guarantor
      /\ new.beneficiary = loans[id].beneficiary
  BY LoanIsTyped, AfterDefaultInv DEF IInv
<1> HIDE DEF new
<1>3. LedgerInv'
  BY <1>1, <1>2, LoanUpdateInv DEF IInv
<1>4. RoleInv'
  BY <1>1, RoleUnchangedInv DEF IInv
<1>5. VaultInv'
  BY SettlementInv
<1> QED
  BY <1>3, <1>4, <1>5 DEF IInv

\* flag_overdue preserves the invariant.
LEMMA FlagOverdueInv ==
    ASSUME IInv, NEW id \in LoanIds, FlagOverdue(id)
    PROVE  IInv'
<1> DEFINE new == InGrace(loans[id])
<1>1. /\ loans[id].status = "Active" /\ now > loans[id].next_due
      /\ IsOpen(loans[id])
      /\ loans' = [loans EXCEPT ![id] = new]
      /\ UNCHANGED <<vaultVars, openLoan, reputation, roles, ledgerEngine, isPaused, now>>
  BY DEF FlagOverdue, CanFlag, MarkGrace, Overdue, IsOpen
<1>2. /\ new \in Loan /\ LoanInv(new) /\ IsOpen(new)
      /\ new.guarantor = loans[id].guarantor
      /\ new.beneficiary = loans[id].beneficiary
  <2>1. now \in Nat /\ loans[id] \in Loan /\ LoanInv(loans[id])
    BY LoanIsTyped DEF IInv, LedgerInv
  <2> QED
    BY <1>1, <2>1, InGraceInv
<1> HIDE DEF new
<1>3. LedgerInv'
  BY <1>1, <1>2, LoanUpdateInv DEF IInv
<1>4. RoleInv'
  BY <1>1, RoleUnchangedInv DEF IInv
<1>5. VaultInv'
  BY <1>1, VaultStutterInv DEF IInv
<1> QED
  BY <1>3, <1>4, <1>5 DEF IInv

\* poke, whichever way it goes, preserves the invariant.
LEMMA CrankInv ==
    ASSUME IInv, Crank
    PROVE  IInv'
<1> PICK id \in LoanIds :
       FlagOverdue(id) \/ \E fee \in Fees : Liquidate(id, fee) \/ Poke(id, fee)
  BY DEF Crank
<1>1. FlagOverdue(id) \/ \E fee \in Fees : Liquidate(id, fee)
  BY DEF Poke
<1> QED
  BY <1>1, FlagOverdueInv, LiquidateInv, AmountAssumption

\* A new settlement address, or an account's standing with the token,
\* preserves the invariant.
LEMMA SettlementChangeInv ==
    ASSUME IInv, ChangeSettlement \/ ChangeStanding
    PROVE  IInv'
<1>1. VaultInv'
  BY ExternalInv DEF IInv, ChangeSettlement, ChangeStanding
<1>2. UNCHANGED <<ledgerVars, isPaused>>
  BY DEF ChangeSettlement, ChangeStanding
<1>3. LedgerInv' /\ RoleInv'
  BY <1>2, LedgerUnchangedInv, RoleUnchangedInv
     DEF IInv, LedgerInv, ledgerVars, roles
<1> QED
  BY <1>1, <1>3 DEF IInv

\* No step of the protocol breaks the invariant.
LEMMA NextInv == IInv /\ [Next]_vars => IInv'
<1> SUFFICES ASSUME IInv, [Next]_vars PROVE IInv'
  OBVIOUS
<1>1. CASE UserNext
  BY <1>1, UseVaultInv, OpenLoanInv, RepayInv, CrankInv, TickInv DEF UserNext
<1>2. CASE WireVault \/ WireLedger
  BY <1>2, WireInv
<1>3. CASE ManageRoles
  BY <1>3, ManageRolesInv
<1>4. CASE PauseEngine
  BY <1>4, PauseInv
<1>5. CASE PublishScore
  BY <1>5, PublishScoreInv
<1>6. CASE ChangeSettlement \/ ChangeStanding
  BY <1>6, SettlementChangeInv
<1>7. CASE UNCHANGED vars
  <2>1. VaultInv' /\ RoleInv'
    BY <1>7, VaultStutterInv, RoleUnchangedInv DEF IInv, vars, ledgerVars, roles
  <2>2. LedgerInv'
    BY <1>7, LedgerUnchangedInv DEF IInv, LedgerInv, vars, ledgerVars
  <2> QED
    BY <2>1, <2>2 DEF IInv
<1> QED
  BY <1>1, <1>2, <1>3, <1>4, <1>5, <1>6, <1>7 DEF Next

\* The inductive invariant holds in every reachable state.
LEMMA Invariance == Spec => []IInv
BY InitInv, NextInv, PTL DEF Spec

-----------------------------------------------------------------------------
\* The state properties.

\* Every storage entry keeps its declared type, so no quantity an i128 or u64
\* stores unsigned in the model ever goes negative.
THEOREM TypeCorrect == Spec => []TypeOK
<1>1. IInv => TypeOK
  BY DEF IInv, VaultInv, LedgerInv, RoleInv, TypeOK
<1> QED
  BY <1>1, Invariance, PTL

\* The asserts of the vault's `save` never fire in the composed protocol: the
\* ledger and the engine never ask for more than is there.
THEOREM SaveNeverAssertsInProtocol == Spec => []SaveAssertionsHold
<1>1. IInv => SaveAssertionsHold
  BY DEF IInv, VaultInv
<1> QED
  BY <1>1, Invariance, PTL

\* With a floor of at least 100%, liquidation is never short of the debt,
\* whatever the principal, the LTV, the buffer and the slicing of repayments.
THEOREM DebtAlwaysCovered == Spec => []OutstandingCovered
<1>1. IInv => OutstandingCovered
  <2> SUFFICES ASSUME IInv, MinLtvBps >= BPS, NEW id \in LoanIds, IsOpen(loans[id])
               PROVE  Outstanding(loans[id]) <= Remaining(loans[id])
    BY DEF OutstandingCovered
  <2> DEFINE loan == loans[id]
             q == Earned(loan.collateral_locked, loan.total_repaid_usd,
                         loan.principal_usd, SafetyBufferBps)
  <2>1. loan \in Loan /\ LoanInv(loan)
    BY LoanIsTyped DEF IInv
  <2> HIDE DEF loan
  <2>2. /\ loan.total_repaid_usd \in Nat /\ loan.principal_usd \in Nat
        /\ loan.collateral_locked \in Nat /\ loan.ltv_bps \in Nat
        /\ loan.total_repaid_usd < loan.principal_usd
        /\ loan.collateral_released = q
    BY <2>1 DEF loan, Loan, LoanInv, ProgressInv, Releasable
  <2>3. loan.ltv_bps >= BPS
    BY <2>1, <2>2, ConfigAssumption DEF LoanInv, TermsInv, BPS
  <2>4. loan.collateral_locked >= loan.principal_usd
    BY <2>1, <2>2, <2>3, CollateralCoversPrincipal DEF LoanInv, TermsInv
  <2>5. loan.principal_usd - loan.total_repaid_usd <= loan.collateral_locked - q
    BY <2>2, <2>4, ConfigAssumption, EarnedLeavesTheDebtCovered
  <2> QED
    BY <2>2, <2>5 DEF loan, Outstanding, Remaining
<1> QED
  BY <1>1, Invariance, PTL

\* What an open loan released depends on the total repaid alone, and at least
\* the safety buffer is withheld.
THEOREM CurveFollowed == Spec => []ReleaseFollowsTheCurve
<1>1. IInv => ReleaseFollowsTheCurve
  <2> SUFFICES ASSUME IInv, NEW id \in LoanIds, IsOpen(loans[id])
               PROVE  /\ loans[id].collateral_released =
                            Releasable(loans[id], loans[id].total_repaid_usd)
                      /\ loans[id].collateral_released * BPS
                            <= loans[id].collateral_locked * (BPS - SafetyBufferBps)
    BY DEF ReleaseFollowsTheCurve
  <2> DEFINE loan == loans[id]
  <2>1. loan \in Loan /\ LoanInv(loan)
    BY LoanIsTyped DEF IInv
  <2>2. /\ loan.total_repaid_usd \in Nat /\ loan.principal_usd \in Nat
        /\ loan.collateral_locked \in Nat
        /\ loan.total_repaid_usd < loan.principal_usd
        /\ loan.collateral_released = Releasable(loan, loan.total_repaid_usd)
        /\ Releasable(loan, loan.total_repaid_usd) =
             Earned(loan.collateral_locked, loan.total_repaid_usd,
                    loan.principal_usd, SafetyBufferBps)
    BY <2>1 DEF Loan, LoanInv, ProgressInv, Releasable
  <2> HIDE DEF loan
  <2> QED
    BY <2>2, ConfigAssumption, EarnedWithholdsBuffer DEF loan
<1> QED
  BY <1>1, Invariance, PTL

\* Markers and open loans match one to one.
THEOREM MarkersExact == Spec => []OpenMarkerExact
<1>1. IInv => OpenMarkerExact
  BY DEF IInv, LedgerInv
<1> QED
  BY <1>1, Invariance, PTL

\* Every due date is derived from the origination time and the money repaid.
THEOREM SchedulesAnchored == Spec => []ScheduleAnchored
<1>1. IInv => ScheduleAnchored
  <2> SUFFICES ASSUME IInv, NEW id \in LoanIds, IsOpen(loans[id])
               PROVE  loans[id].installments_paid < loans[id].installment_count
    BY LoanIsTyped DEF IInv, ScheduleAnchored, LoanInv, ProgressInv
  <2> DEFINE loan == loans[id]
  <2>1. loan \in Loan /\ LoanInv(loan)
    BY LoanIsTyped DEF IInv
  <2>2. /\ loan.total_repaid_usd \in Nat /\ loan.principal_usd \in Nat
        /\ loan.installment_count \in Nat /\ loan.installment_count > 0
        /\ loan.total_repaid_usd < loan.principal_usd
        /\ loan.installments_paid =
              InstallmentsCovered(loan.total_repaid_usd,
                                  loan.installment_count, loan.principal_usd)
    BY <2>1 DEF Loan, LoanInv, TermsInv, ProgressInv
  <2> HIDE DEF loan
  <2>3. loan.installments_paid \in 0 .. loan.installment_count - 1
    BY <2>2, CoveredBelowCount
  <2> QED
    BY <2>2, <2>3 DEF loan
<1> QED
  BY <1>1, Invariance, PTL

\* Only a loan that is behind is in grace.
THEOREM GraceOnlyWhenBehind == Spec => []GraceMeansBehind
<1>1. IInv => GraceMeansBehind
  BY LoanIsTyped DEF IInv, LoanInv, GraceInv, GraceMeansBehind
<1> QED
  BY <1>1, Invariance, PTL

\* No oracle moves a loan's LTV out of the configured band.
THEOREM LtvAlwaysInBand == Spec => []LtvWithinBand
<1>1. IInv => LtvWithinBand
  BY LoanIsTyped DEF IInv, LoanInv, TermsInv, LtvWithinBand
<1> QED
  BY <1>1, Invariance, PTL

\* No key is ever both partner and verifier.
THEOREM RolesAlwaysDisjoint == Spec => []RolesDisjoint
<1>1. IInv => RolesDisjoint
  BY DEF IInv, RoleInv
<1> QED
  BY <1>1, Invariance, PTL

\* The arithmetic half of AlwaysRepayableInFull: the repayment that closes an
\* open loan never overflows, however large the principal that was accepted.
ClosingFits ==
    MinLtvBps >= MaxInstallments =>
        \A id \in LoanIds :
            LET loan == loans[id]
            IN  IsOpen(loan) =>
                  RepaymentFits(loan, Settled(Credited(loan, Outstanding(loan))))

\* A loan that may be originated may be closed.
LEMMA ClosingAlwaysFits == IInv => ClosingFits
<1> SUFFICES ASSUME IInv, MinLtvBps >= MaxInstallments,
                    NEW id \in LoanIds, IsOpen(loans[id])
             PROVE  RepaymentFits(loans[id],
                        Settled(Credited(loans[id], Outstanding(loans[id]))))
  BY DEF ClosingFits
<1> DEFINE loan == loans[id]
           amount == Outstanding(loan)
           mid == Credited(loan, amount)
           after == Settled(mid)
<1>1. loan \in Loan /\ LoanInv(loan) /\ IsOpen(loan)
  BY LoanIsTyped DEF IInv
<1> HIDE DEF loan
<1>2. /\ loan.principal_usd \in Nat /\ loan.total_repaid_usd \in Nat
      /\ loan.installment_count \in Nat /\ loan.ltv_bps \in Nat
      /\ loan.total_repaid_usd < loan.principal_usd
      /\ amount = loan.principal_usd - loan.total_repaid_usd
  BY <1>1 DEF Loan, LoanInv, ProgressInv, Outstanding
<1>3. /\ mid \in Loan
      /\ mid.total_repaid_usd = loan.principal_usd
      /\ mid.principal_usd = loan.principal_usd
  <2>1. /\ amount \in Int /\ amount > 0
        /\ loan.total_repaid_usd + amount = loan.principal_usd
        /\ loan.total_repaid_usd + amount <= loan.principal_usd
    BY <1>2
  <2> HIDE DEF amount
  <2>2. /\ mid \in Loan
        /\ mid = [loan EXCEPT !.total_repaid_usd = loan.total_repaid_usd + amount,
                     !.installments_paid = mid.installments_paid,
                     !.collateral_released = mid.collateral_released]
        /\ mid.total_repaid_usd = loan.total_repaid_usd + amount
    BY <1>1, <2>1, CreditedFields
  <2> HIDE DEF mid
  <2> QED
    BY <1>1, <2>1, <2>2 DEF Loan
<1> HIDE DEF mid, amount
<1>4. after.status = "Repaid" /\ after.total_repaid_usd = loan.principal_usd
  BY <1>2, <1>3 DEF Settled, Loan
<1>5. loan.principal_usd * loan.installment_count
        <= loan.principal_usd * loan.ltv_bps
  <2>1. loan.installment_count <= loan.ltv_bps
    BY <1>1, <1>2, ConfigAssumption, LimitAssumption DEF LoanInv, TermsInv
  <2> QED
    BY <1>2, <2>1, ProductMonotone
<1>6. loan.principal_usd * loan.installment_count <= MaxI128
  <2>1. /\ loan.principal_usd * loan.ltv_bps <= MaxI128
        /\ loan.principal_usd * loan.ltv_bps \in Nat
        /\ loan.principal_usd * loan.installment_count \in Nat
        /\ MaxI128 \in Nat
    BY <1>1, <1>2, ProductIsNat, InputAssumption DEF LoanInv, TermsInv
  <2> QED
    BY <1>5, <2>1
<1> HIDE DEF after
<1>7. RepaymentFits(loan, after)
  BY <1>4, <1>6 DEF RepaymentFits
<1> QED
  BY <1>7 DEF after, mid, amount, loan

\* Whatever i128 holds at origination, it holds at the closing repayment.
THEOREM ClosingNeverOverflows == Spec => []ClosingFits
BY ClosingAlwaysFits, Invariance, PTL

-----------------------------------------------------------------------------
\* The action properties.

\* What a step can do to one loan.
LoanStep(id) ==
    \/ loans'[id] = loans[id]
    \/ \E a \in Agents : ReassignPartner(id, a)
    \/ \E p, v \in Agents, amount \in Amounts : AttestRepayment(p, v, id, amount)
    \/ FlagOverdue(id)
    \/ \E fee \in Fees : Liquidate(id, fee)

\* Updating one loan keeps every other as it was.
LEMMA OtherLoansKept ==
    ASSUME LedgerInv, NEW id \in LoanIds, NEW j \in LoanIds, j # id,
           NEW new, loans' = [loans EXCEPT ![j] = new]
    PROVE  loans'[id] = loans[id]
BY LenProperties DEF LedgerInv, LoanIds

\* The complete list of what a step can do to a loan that exists.
LEMMA EveryLoanStep ==
    ASSUME IInv, [Next]_vars, NEW id \in LoanIds
    PROVE  LoanStep(id)
<1>1. CASE UNCHANGED loans
  BY <1>1 DEF LoanStep
<1>2. CASE OpenLoan
  <2>1. PICK new : loans' = Append(loans, new)
    BY <1>2 DEF OpenLoan, Originate
  <2> QED
    BY <2>1, LenProperties DEF LoanStep, IInv, LedgerInv, LoanIds
<1>3. CASE Repay
  <2>1. PICK p \in Agents, v \in Agents, j \in LoanIds, amount \in Amounts :
           AttestRepayment(p, v, j, amount)
    BY <1>3 DEF Repay
  <2>2. CASE j = id
    BY <2>1, <2>2 DEF LoanStep
  <2>3. CASE j # id
    BY <2>1, <2>3, OtherLoansKept DEF LoanStep, IInv, AttestRepayment
  <2> QED
    BY <2>2, <2>3
<1>4. CASE Crank
  <2>1. PICK j \in LoanIds :
           FlagOverdue(j) \/ \E fee \in Fees : Liquidate(j, fee) \/ Poke(j, fee)
    BY <1>4 DEF Crank
  <2>2. FlagOverdue(j) \/ \E fee \in Fees : Liquidate(j, fee)
    BY <2>1 DEF Poke
  <2>3. CASE j = id
    BY <2>2, <2>3 DEF LoanStep
  <2>4. CASE j # id
    BY <2>2, <2>4, OtherLoansKept
       DEF LoanStep, IInv, FlagOverdue, MarkGrace, Liquidate, MarkDefaulted
  <2> QED
    BY <2>3, <2>4
<1>5. CASE ManageRoles
  <2>1. CASE \E j \in LoanIds, a \in Agents : ReassignPartner(j, a)
    <3>1. PICK j \in LoanIds, a \in Agents : ReassignPartner(j, a)
      BY <2>1
    <3>2. CASE j = id
      BY <3>1, <3>2 DEF LoanStep
    <3>3. CASE j # id
      BY <3>1, <3>3, OtherLoansKept DEF LoanStep, IInv, ReassignPartner
    <3> QED
      BY <3>2, <3>3
  <2>2. CASE ~(\E j \in LoanIds, a \in Agents : ReassignPartner(j, a))
    BY <1>1, <1>5, <2>2 DEF ManageRoles, SetOracle, SetPartner, SetVerifier
  <2> QED
    BY <2>1, <2>2
<1>6. CASE \/ UseVault \/ Tick \/ WireVault \/ WireLedger
          \/ PauseEngine \/ PublishScore \/ ChangeSettlement \/ ChangeStanding \/ UNCHANGED vars
  BY <1>1, <1>6
     DEF UseVault, Tick, WireVault, WireLedger, SetLedgerEngine, PauseEngine,
         PublishScore, SetReputation, ChangeSettlement, ChangeStanding, vars, ledgerVars
<1> QED
  BY <1>2, <1>3, <1>4, <1>5, <1>6 DEF Next, UserNext

\* No step changes a loan that is repaid or defaulted.
THEOREM ClosedIsFinal == Spec => ClosedLoansStayClosed
<1>1. ASSUME IInv, [Next]_vars, NEW id \in LoanIds, ~IsOpen(loans[id])
      PROVE  loans'[id] = loans[id]
  BY <1>1, EveryLoanStep
     DEF LoanStep, ReassignPartner, AttestRepayment, CanAttest, FlagOverdue,
         CanFlag, Overdue, Liquidate, CanLiquidate, GraceExpired, IsOpen
<1>2. IInv /\ [Next]_vars =>
        [\A id \in LoanIds : ~IsOpen(loans[id]) => loans'[id] = loans[id]]_vars
  BY <1>1
<1> QED
  BY <1>2, Invariance, PTL DEF Spec, ClosedLoansStayClosed

\* What one loan's step may do to its money and to its standing: the bodies of
\* RepaymentNeedsBothRoles and GraceIsOneFullPeriod.
MoneyStep(old, new) ==
    \/ new.status = "Defaulted"
    \/ /\ new.total_repaid_usd = old.total_repaid_usd
       /\ new.collateral_released = old.collateral_released
    \/ /\ old.partner \in partners
       /\ verifiers \ {old.partner} # {}
       /\ new.total_repaid_usd > old.total_repaid_usd

StandingStep(old, new) ==
    /\ old.status # "Grace" /\ new.status = "Grace" =>
           new.grace_expires_at = now + GracePeriod
    /\ old.status = "Grace" /\ new.status = "Grace" =>
           new.grace_expires_at = old.grace_expires_at
    /\ old.status = "Grace" /\ new.status = "Active" =>
           new.installments_paid > old.installments_paid
    /\ old.status # "Defaulted" /\ new.status = "Defaulted" =>
           old.status = "Grace" /\ now > old.grace_expires_at

\* Every way a step touches a loan is authorised and keeps its standing.
LEMMA EveryStepIsSound ==
    ASSUME IInv, [Next]_vars, NEW id \in LoanIds
    PROVE  MoneyStep(loans[id], loans'[id]) /\ StandingStep(loans[id], loans'[id])
<1>1. loans[id] \in Loan /\ LoanInv(loans[id]) /\ now \in Nat
  BY LoanIsTyped DEF IInv, LedgerInv
<1>2. ASSUME NEW new, loans' = [loans EXCEPT ![id] = new]
      PROVE  loans'[id] = new
  BY <1>2, LenProperties DEF IInv, LedgerInv, LoanIds
<1>3. CASE loans'[id] = loans[id]
  BY <1>3 DEF MoneyStep, StandingStep
<1>4. ASSUME NEW a \in Agents, ReassignPartner(id, a)
      PROVE  MoneyStep(loans[id], loans'[id]) /\ StandingStep(loans[id], loans'[id])
  <2>1. loans'[id] = [loans[id] EXCEPT !.partner = a]
    BY <1>2, <1>4 DEF ReassignPartner
  <2>2. /\ loans'[id].status = loans[id].status
        /\ loans'[id].grace_expires_at = loans[id].grace_expires_at
        /\ loans'[id].total_repaid_usd = loans[id].total_repaid_usd
        /\ loans'[id].collateral_released = loans[id].collateral_released
    BY <1>1, <2>1 DEF Loan
  <2>3. IsOpen(loans[id])
    BY <1>4 DEF ReassignPartner
  <2> QED
    BY <2>2, <2>3 DEF MoneyStep, StandingStep, IsOpen
<1>5. ASSUME NEW p \in Agents, NEW v \in Agents, NEW amount \in Amounts,
             AttestRepayment(p, v, id, amount)
      PROVE  MoneyStep(loans[id], loans'[id]) /\ StandingStep(loans[id], loans'[id])
  <2> DEFINE new == Settled(Credited(loans[id], amount))
  <2>1. /\ Authorized(loans[id], p, v)
        /\ amount \in Int /\ amount > 0 /\ IsOpen(loans[id])
        /\ loans[id].total_repaid_usd + amount <= loans[id].principal_usd
        /\ loans' = [loans EXCEPT ![id] = new]
    BY <1>5, AmountAssumption DEF AttestRepayment, CanAttest
  <2>2. /\ new.total_repaid_usd > loans[id].total_repaid_usd
        /\ new.status = "Grace" =>
              /\ loans[id].status = "Grace"
              /\ new.grace_expires_at = loans[id].grace_expires_at
        /\ new.status \in {"Active", "Grace", "Repaid"}
        /\ loans[id].status = "Grace" /\ new.status = "Active" =>
              new.installments_paid > loans[id].installments_paid
    BY <1>1, <2>1, RepaidStanding
  <2> HIDE DEF new
  <2>3. loans'[id] = new
    BY <1>2, <2>1
  <2>4. loans[id].partner \in partners /\ verifiers \ {loans[id].partner} # {}
    BY <2>1 DEF Authorized
  <2> QED
    BY <2>2, <2>3, <2>4 DEF MoneyStep, StandingStep
<1>6. CASE FlagOverdue(id)
  <2>1. loans[id].status = "Active" /\ loans'[id] = InGrace(loans[id])
    BY <1>2, <1>6 DEF FlagOverdue, CanFlag, MarkGrace, Overdue
  <2>2. /\ loans'[id].status = "Grace"
        /\ loans'[id].grace_expires_at = now + GracePeriod
        /\ loans'[id].total_repaid_usd = loans[id].total_repaid_usd
        /\ loans'[id].collateral_released = loans[id].collateral_released
    BY <1>1, <2>1 DEF InGrace, Loan
  <2> QED
    BY <2>1, <2>2 DEF MoneyStep, StandingStep
<1>7. ASSUME NEW fee \in Fees, Liquidate(id, fee)
      PROVE  MoneyStep(loans[id], loans'[id]) /\ StandingStep(loans[id], loans'[id])
  <2>1. /\ loans[id].status = "Grace" /\ now > loans[id].grace_expires_at
        /\ loans'[id] = AfterDefault(loans[id])
    BY <1>2, <1>7 DEF Liquidate, CanLiquidate, MarkDefaulted, GraceExpired
  <2>2. loans'[id].status = "Defaulted"
    BY <1>1, <2>1 DEF AfterDefault, Loan
  <2> QED
    BY <2>1, <2>2 DEF MoneyStep, StandingStep
<1> QED
  BY <1>3, <1>4, <1>5, <1>6, <1>7, EveryLoanStep DEF LoanStep

\* Repayments and releases take a registered partner and a registered,
\* different verifier at that moment, whatever happened to the roles before.
THEOREM RepaymentTakesBothRoles == Spec => RepaymentNeedsBothRoles
<1>1. IInv /\ [Next]_vars =>
        [\A id \in LoanIds : MoneyStep(loans[id], loans'[id])]_vars
  BY EveryStepIsSound
<1> QED
  BY <1>1, Invariance, PTL DEF Spec, RepaymentNeedsBothRoles, MoneyStep

\* A loan gets one whole grace period, which no payment restarts and only an
\* installment ends, before it can default.
THEOREM OneFullGracePeriod == Spec => GraceIsOneFullPeriod
<1>1. IInv /\ [Next]_vars =>
        [\A id \in LoanIds : StandingStep(loans[id], loans'[id])]_vars
  BY EveryStepIsSound
<1> QED
  BY <1>1, Invariance, PTL DEF Spec, GraceIsOneFullPeriod, StandingStep

-----------------------------------------------------------------------------
\* A loan's time: what payments and cranks can do to its dates.

\* An open loan is due within its term.
LEMMA DueWithinTerm ==
    ASSUME NEW loan \in Loan, LoanInv(loan), IsOpen(loan)
    PROVE  loan.next_due \in Nat /\ TermEnd(loan) \in Nat
           /\ loan.next_due <= TermEnd(loan)
<1>1. /\ loan.total_repaid_usd \in Nat /\ loan.principal_usd \in Nat
      /\ loan.installment_count \in Nat /\ loan.installment_count > 0
      /\ loan.total_repaid_usd < loan.principal_usd
      /\ loan.installments_paid =
            InstallmentsCovered(loan.total_repaid_usd,
                                loan.installment_count, loan.principal_usd)
      /\ loan.next_due = NextDue(loan, loan.installments_paid)
      /\ loan.interval_secs \in Nat /\ loan.originated_at \in Nat
  BY DEF Loan, LoanInv, TermsInv, ProgressInv
<1>2. loan.installments_paid \in 0 .. loan.installment_count - 1
  BY <1>1, CoveredBelowCount
<1>3. loan.interval_secs * (loan.installments_paid + 1)
        <= loan.interval_secs * loan.installment_count
  BY <1>1, <1>2, ProductMonotone
<1>4. /\ (loan.installments_paid + 1) * loan.interval_secs
            = loan.interval_secs * (loan.installments_paid + 1)
      /\ loan.installment_count * loan.interval_secs
            = loan.interval_secs * loan.installment_count
  BY <1>1, <1>2
<1>5. /\ loan.interval_secs * (loan.installments_paid + 1) \in Nat
      /\ loan.interval_secs * loan.installment_count \in Nat
  BY <1>1, <1>2, ProductIsNat
<1> QED
  BY <1>1, <1>3, <1>4, <1>5 DEF NextDue, TermEnd

\* A payment moves the due date forward only, within the same term, and ends
\* grace only for a due date that is still ahead.
LEMMA RepaidSchedule ==
    ASSUME now \in Nat, NEW loan \in Loan, LoanInv(loan), IsOpen(loan),
           NEW amount \in Int, amount > 0,
           loan.total_repaid_usd + amount <= loan.principal_usd
    PROVE  LET new == Settled(Credited(loan, amount))
           IN  /\ TermEnd(new) = TermEnd(loan)
               /\ new.status = "Active" =>
                     \/ loan.status = "Active" /\ loan.next_due <= new.next_due
                     \/ now <= new.next_due
<1> DEFINE mid   == Credited(loan, amount)
           new   == Settled(mid)
           total == loan.total_repaid_usd + amount
           due   == NextDue(mid, mid.installments_paid)
<1>1. /\ mid \in Loan
      /\ mid = [loan EXCEPT !.total_repaid_usd = total,
                   !.installments_paid = mid.installments_paid,
                   !.collateral_released = mid.collateral_released]
      /\ mid.total_repaid_usd = total
      /\ mid.installments_paid =
            InstallmentsCovered(total, loan.installment_count, loan.principal_usd)
  BY CreditedFields
<1>2. new = IF mid.total_repaid_usd >= mid.principal_usd
            THEN [mid EXCEPT !.status = "Repaid", !.grace_expires_at = 0]
            ELSE IF now <= due
            THEN [mid EXCEPT !.next_due = due, !.status = "Active",
                             !.grace_expires_at = 0]
            ELSE [mid EXCEPT !.next_due = due]
  BY DEF Settled
<1>3. /\ loan.total_repaid_usd \in Nat /\ total \in Nat
      /\ loan.total_repaid_usd <= total
      /\ loan.principal_usd \in Nat /\ loan.principal_usd > 0
      /\ loan.installment_count \in Nat
      /\ loan.installments_paid \in Nat /\ mid.installments_paid \in Nat
      /\ loan.interval_secs \in Nat /\ loan.originated_at \in Nat
      /\ loan.status \in {"Active", "Grace"}
  BY <1>1 DEF Loan, IsOpen, LoanInv, TermsInv, total
<1> HIDE DEF mid, new, total
<1>4. /\ mid.status = loan.status
      /\ mid.interval_secs = loan.interval_secs
      /\ mid.originated_at = loan.originated_at
      /\ mid.installment_count = loan.installment_count
  BY <1>1 DEF Loan
<1>5. TermEnd(new) = TermEnd(loan)
  <2>1. /\ new.originated_at = mid.originated_at
        /\ new.installment_count = mid.installment_count
        /\ new.interval_secs = mid.interval_secs
    BY <1>1, <1>2 DEF Loan
  <2> QED
    BY <1>4, <2>1 DEF TermEnd
<1>6. loan.next_due <= due
  <2>1. loan.installments_paid <= mid.installments_paid
    <3>1. loan.installment_count * loan.total_repaid_usd
             <= loan.installment_count * total
      BY <1>3, ProductMonotone
    <3>2. /\ loan.total_repaid_usd * loan.installment_count
               = loan.installment_count * loan.total_repaid_usd
          /\ total * loan.installment_count = loan.installment_count * total
          /\ loan.installment_count * loan.total_repaid_usd \in Int
          /\ loan.installment_count * total \in Int
      BY <1>3
    <3>3. (loan.total_repaid_usd * loan.installment_count) \div loan.principal_usd
             <= (total * loan.installment_count) \div loan.principal_usd
      BY <1>3, <3>1, <3>2, QuotientMonotone
    <3>4. loan.installments_paid =
             InstallmentsCovered(loan.total_repaid_usd,
                                 loan.installment_count, loan.principal_usd)
      BY DEF LoanInv, ProgressInv
    <3> QED
      BY <1>1, <3>3, <3>4 DEF InstallmentsCovered
  <2>2. loan.interval_secs * (loan.installments_paid + 1)
          <= loan.interval_secs * (mid.installments_paid + 1)
    BY <1>3, <2>1, ProductMonotone
  <2>3. /\ (loan.installments_paid + 1) * loan.interval_secs
              = loan.interval_secs * (loan.installments_paid + 1)
        /\ (mid.installments_paid + 1) * loan.interval_secs
              = loan.interval_secs * (mid.installments_paid + 1)
        /\ loan.interval_secs * (loan.installments_paid + 1) \in Nat
        /\ loan.interval_secs * (mid.installments_paid + 1) \in Nat
    BY <1>3, ProductIsNat
  <2>4. loan.next_due = loan.originated_at
                          + (loan.installments_paid + 1) * loan.interval_secs
    BY DEF LoanInv, ProgressInv, NextDue
  <2>5. due = loan.originated_at + (mid.installments_paid + 1) * loan.interval_secs
    BY <1>4 DEF NextDue
  <2> HIDE DEF due
  <2> QED
    BY <1>3, <2>2, <2>3, <2>4, <2>5
<1> HIDE DEF due
<1>7. CASE mid.total_repaid_usd >= mid.principal_usd
  <2>1. new.status = "Repaid"
    BY <1>1, <1>2, <1>7 DEF Loan
  <2> QED
    BY <1>5, <2>1 DEF new, mid
<1>8. CASE ~(mid.total_repaid_usd >= mid.principal_usd)
  <2>1. new.next_due = due /\ (now <= due \/ new.status = loan.status)
    BY <1>1, <1>2, <1>4, <1>8 DEF Loan
  <2> QED
    BY <1>3, <1>5, <1>6, <2>1 DEF new, mid
<1> QED
  BY <1>7, <1>8

\* What one step may do to a loan's dates.
TimeStep(old, new) ==
    /\ TermEnd(new) = TermEnd(old)
    /\ new.status = "Active" =>
          \/ old.status = "Active" /\ old.next_due <= new.next_due
          \/ now <= new.next_due
    /\ new.status = "Grace" => old.status \in {"Active", "Grace"}

LEMMA EveryStepKeepsTime ==
    ASSUME IInv, [Next]_vars, NEW id \in LoanIds
    PROVE  TimeStep(loans[id], loans'[id])
<1>1. loans[id] \in Loan /\ LoanInv(loans[id]) /\ now \in Nat
  BY LoanIsTyped DEF IInv, LedgerInv
<1>2. ASSUME NEW new, loans' = [loans EXCEPT ![id] = new]
      PROVE  loans'[id] = new
  BY <1>2, LenProperties DEF IInv, LedgerInv, LoanIds
<1> DEFINE DatesKept ==
             /\ loans'[id].originated_at = loans[id].originated_at
             /\ loans'[id].installment_count = loans[id].installment_count
             /\ loans'[id].interval_secs = loans[id].interval_secs
             /\ loans'[id].next_due = loans[id].next_due
<1>3. ASSUME DatesKept,
             \/ loans'[id].status = loans[id].status
             \/ loans'[id].status = "Defaulted"
             \/ loans'[id].status = "Grace" /\ loans[id].status = "Active"
      PROVE  TimeStep(loans[id], loans'[id])
  <2>1. loans[id].next_due \in Nat
    BY <1>1 DEF Loan
  <2> QED
    BY <1>3, <2>1 DEF TimeStep, TermEnd
<1>4. CASE loans'[id] = loans[id]
  BY <1>3, <1>4
<1>5. ASSUME NEW a \in Agents, ReassignPartner(id, a)
      PROVE  TimeStep(loans[id], loans'[id])
  <2>1. loans'[id] = [loans[id] EXCEPT !.partner = a]
    BY <1>2, <1>5 DEF ReassignPartner
  <2>2. DatesKept /\ loans'[id].status = loans[id].status
    BY <1>1, <2>1 DEF Loan
  <2> QED
    BY <1>3, <2>2
<1>6. ASSUME NEW p \in Agents, NEW v \in Agents, NEW amount \in Amounts,
             AttestRepayment(p, v, id, amount)
      PROVE  TimeStep(loans[id], loans'[id])
  <2> DEFINE new == Settled(Credited(loans[id], amount))
  <2>1. /\ amount \in Int /\ amount > 0 /\ IsOpen(loans[id])
        /\ loans[id].total_repaid_usd + amount <= loans[id].principal_usd
        /\ loans' = [loans EXCEPT ![id] = new]
    BY <1>6, AmountAssumption DEF AttestRepayment, CanAttest
  <2>2. /\ TermEnd(new) = TermEnd(loans[id])
        /\ new.status = "Active" =>
              \/ loans[id].status = "Active" /\ loans[id].next_due <= new.next_due
              \/ now <= new.next_due
        /\ new.status = "Grace" => loans[id].status = "Grace"
    BY <1>1, <2>1, RepaidSchedule, RepaidStanding
  <2> HIDE DEF new
  <2> QED
    BY <1>2, <2>1, <2>2 DEF TimeStep
<1>7. CASE FlagOverdue(id)
  <2>1. loans[id].status = "Active" /\ loans'[id] = InGrace(loans[id])
    BY <1>2, <1>7 DEF FlagOverdue, CanFlag, MarkGrace, Overdue
  <2>2. DatesKept /\ loans'[id].status = "Grace"
    BY <1>1, <2>1 DEF InGrace, Loan
  <2> QED
    BY <1>3, <2>1, <2>2
<1>8. ASSUME NEW fee \in Fees, Liquidate(id, fee)
      PROVE  TimeStep(loans[id], loans'[id])
  <2>1. loans'[id] = AfterDefault(loans[id])
    BY <1>2, <1>8 DEF Liquidate, MarkDefaulted
  <2>2. DatesKept /\ loans'[id].status = "Defaulted"
    BY <1>1, <2>1 DEF AfterDefault, Loan
  <2> QED
    BY <1>3, <2>2
<1> QED
  BY <1>4, <1>5, <1>6, <1>7, <1>8, EveryLoanStep DEF LoanStep

\* Apart from originations a step replaces at most one record, and only Tick
\* moves the clock.
LEMMA OneRecordAtATime ==
    ASSUME [Next]_vars, ~OpenLoan
    PROVE  /\ \/ loans' = loans
              \/ \E id \in LoanIds : \E new : loans' = [loans EXCEPT ![id] = new]
           /\ Tick \/ now' = now
<1>1. CASE Repay
  BY <1>1 DEF Repay, AttestRepayment
<1>2. CASE Crank
  <2>1. PICK id \in LoanIds :
           FlagOverdue(id) \/ \E fee \in Fees : Liquidate(id, fee) \/ Poke(id, fee)
    BY <1>2 DEF Crank
  <2>2. FlagOverdue(id) \/ \E fee \in Fees : Liquidate(id, fee)
    BY <2>1 DEF Poke
  <2> QED
    BY <2>2 DEF FlagOverdue, MarkGrace, Liquidate, MarkDefaulted
<1>3. CASE ManageRoles
  BY <1>3 DEF ManageRoles, SetOracle, SetPartner, SetVerifier, ReassignPartner
<1>4. CASE \/ UseVault \/ Tick \/ WireVault \/ WireLedger \/ PauseEngine
          \/ PublishScore \/ ChangeSettlement \/ ChangeStanding \/ UNCHANGED vars
  BY <1>4
     DEF UseVault, Tick, WireVault, WireLedger, SetLedgerEngine, PauseEngine,
         PublishScore, SetReputation, ChangeSettlement, ChangeStanding, vars, ledgerVars
<1> QED
  BY <1>1, <1>2, <1>3, <1>4 DEF Next, UserNext

\* Only Tick moves the clock, and it changes no loan; a loan that a step adds
\* starts with its first due date ahead.
LEMMA ClockStep ==
    ASSUME IInv, [Next]_vars
    PROVE  /\ Tick \/ now' = now
           /\ Tick => loans' = loans /\ now' = now + 1
           /\ \A id \in LoanIds' \ LoanIds :
                 loans'[id].status = "Active" /\ now' <= loans'[id].next_due
<1>1. Tick => loans' = loans /\ now' = now + 1
  BY DEF Tick
<1>2. CASE OpenLoan
  <2>1. PICK g \in Guarantors, b \in Beneficiaries, a \in Agents,
             principal \in Principals, count \in InstallmentCounts,
             interval \in Intervals :
                Originate(g, b, a, principal, count, interval)
    BY <1>2 DEF OpenLoan
  <2> DEFINE new == NewLoan(g, b, a, principal, count, interval)
  <2>2. loans' = Append(loans, new) /\ now' = now
    BY <2>1 DEF Originate
  <2>3. new.status = "Active" /\ new.next_due = now + interval
    BY DEF NewLoan
  <2>4. now \in Nat /\ interval \in Nat
    BY InputAssumption DEF IInv, LedgerInv
  <2> HIDE DEF new
  <2>5. \A id \in LoanIds' \ LoanIds : loans'[id] = new
    BY <2>2, LenProperties DEF IInv, LedgerInv, LoanIds
  <2>6. now' <= new.next_due
    BY <2>2, <2>3, <2>4
  <2> QED
    BY <1>1, <2>2, <2>3, <2>5, <2>6, Zenon
<1>3. CASE ~OpenLoan
  <2>1. LoanIds' = LoanIds
    <3>1. CASE \E j \in LoanIds : \E new : loans' = [loans EXCEPT ![j] = new]
      BY <3>1, LenProperties DEF IInv, LedgerInv, LoanIds
    <3>2. CASE loans' = loans
      BY <3>2 DEF LoanIds
    <3> QED
      BY <1>3, <3>1, <3>2, OneRecordAtATime
  <2> QED
    BY <1>1, <1>3, <2>1, OneRecordAtATime
<1> QED
  BY <1>2, <1>3

\* Every missed installment is on record one tick after it was due, except
\* while the clock is within a limit.
Prompt(limit) ==
    \A id \in LoanIds :
        loans[id].status = "Active" =>
            now <= limit \/ now <= loans[id].next_due + 1

\* That lasts if the clock waits, beyond the limit, for the flags that are due:
\* no payment takes a loan back behind it.
LEMMA PromptKept ==
    ASSUME IInv, [Next]_vars, NEW limit \in Nat, Prompt(limit),
           Tick => now < limit \/ \A id \in LoanIds : ~Overdue(id)
    PROVE  Prompt(limit)'
<1> SUFFICES ASSUME NEW id \in LoanIds', loans'[id].status = "Active"
             PROVE  now' <= limit \/ now' <= loans'[id].next_due + 1
  BY DEF Prompt
<1>1. now \in Nat /\ now' \in Nat /\ loans'[id].next_due \in Nat
  <2>1. IInv'
    BY NextInv
  <2>2. loans'[id] \in Loan
    BY <2>1, ElementOfSeq DEF IInv, LedgerInv, LoanIds
  <2> QED
    BY <2>1, <2>2 DEF IInv, LedgerInv, Loan
<1>2. CASE id \notin LoanIds
  BY <1>1, <1>2, ClockStep
<1>3. CASE id \in LoanIds /\ Tick
  <2>1. loans' = loans /\ now' = now + 1
    BY <1>3, ClockStep
  <2>2. now < limit \/ ~(now > loans[id].next_due)
    BY <1>3, <2>1 DEF Overdue
  <2> QED
    BY <1>1, <2>1, <2>2
<1>4. CASE id \in LoanIds /\ now' = now
  <2>1. \/ loans[id].status = "Active" /\ loans[id].next_due <= loans'[id].next_due
        \/ now <= loans'[id].next_due
    BY <1>4, EveryStepKeepsTime DEF TimeStep
  <2>2. loans[id].next_due \in Nat
    BY <1>4, LoanIsTyped DEF IInv, Loan
  <2>3. loans[id].status = "Active" =>
          now <= limit \/ now <= loans[id].next_due + 1
    BY <1>4 DEF Prompt
  <2> QED
    BY <1>1, <1>4, <2>1, <2>2, <2>3
<1> QED
  BY <1>2, <1>3, <1>4, ClockStep

\* The deadline of a loan in grace is one grace period after its term at the
\* latest, and the clock is at most one second past it.
EndsAhead ==
    \A id \in LoanIds :
        loans[id].status = "Grace" =>
            /\ loans[id].grace_expires_at <= TermEnd(loans[id]) + 1 + GracePeriod
            /\ now <= loans[id].grace_expires_at + 1

\* That lasts if every missed installment is on record in time and the clock
\* waits for the liquidations that are due.
LEMMA DeadlinesKept ==
    ASSUME IInv, [Next]_vars, Prompt(0), EndsAhead,
           Tick => \A id \in LoanIds : ~GraceExpired(id)
    PROVE  EndsAhead'
<1> SUFFICES ASSUME NEW id \in LoanIds', loans'[id].status = "Grace"
             PROVE  /\ loans'[id].grace_expires_at
                          <= TermEnd(loans'[id]) + 1 + GracePeriod
                    /\ now' <= loans'[id].grace_expires_at + 1
  BY DEF EndsAhead
<1>1. id \in LoanIds
  BY ClockStep
<1>2. /\ TermEnd(loans'[id]) = TermEnd(loans[id])
      /\ loans[id].status \in {"Active", "Grace"}
  BY <1>1, EveryStepKeepsTime DEF TimeStep
<1>3. /\ loans[id].status # "Grace" =>
             loans'[id].grace_expires_at = now + GracePeriod
      /\ loans[id].status = "Grace" =>
             loans'[id].grace_expires_at = loans[id].grace_expires_at
  BY <1>1, EveryStepIsSound DEF StandingStep
<1>4. /\ loans[id] \in Loan /\ LoanInv(loans[id]) /\ now \in Nat
      /\ GracePeriod \in Nat
  BY <1>1, LoanIsTyped, ConfigAssumption DEF IInv, LedgerInv
<1>5. /\ loans[id].next_due \in Nat /\ TermEnd(loans[id]) \in Nat
      /\ loans[id].next_due <= TermEnd(loans[id])
      /\ loans[id].grace_expires_at \in Nat
  <2>1. IsOpen(loans[id])
    BY <1>2 DEF IsOpen
  <2> QED
    BY <1>4, <2>1, DueWithinTerm DEF Loan
<1>6. CASE loans[id].status = "Active"
  <2>1. now' = now
    BY <1>1, <1>6, ClockStep
  <2>2. now <= 0 \/ now <= loans[id].next_due + 1
    BY <1>1, <1>6 DEF Prompt
  <2> QED
    BY <1>2, <1>3, <1>4, <1>5, <1>6, <2>1, <2>2
<1>7. CASE loans[id].status = "Grace"
  <2>1. /\ loans[id].grace_expires_at <= TermEnd(loans[id]) + 1 + GracePeriod
        /\ now <= loans[id].grace_expires_at + 1
    BY <1>1, <1>7 DEF EndsAhead
  <2>2. CASE Tick
    <3>1. now' = now + 1 /\ ~(now > loans[id].grace_expires_at)
      BY <1>1, <1>7, <2>2, ClockStep DEF GraceExpired
    <3> QED
      BY <1>2, <1>3, <1>4, <1>5, <1>7, <2>1, <3>1
  <2>3. CASE now' = now
    BY <1>2, <1>3, <1>7, <2>1, <2>3
  <2> QED
    BY <2>2, <2>3, ClockStep
<1> QED
  BY <1>2, <1>6, <1>7

\* So an open loan is over one grace period after its term at the latest.
LEMMA OpenWithinTerm ==
    ASSUME IInv, Prompt(0), EndsAhead, NEW id \in LoanIds, IsOpen(loans[id])
    PROVE  now <= TermEnd(loans[id]) + GracePeriod + 2
<1>1. /\ loans[id] \in Loan /\ LoanInv(loans[id]) /\ now \in Nat
      /\ GracePeriod \in Nat
  BY LoanIsTyped, ConfigAssumption DEF IInv, LedgerInv
<1>2. /\ loans[id].next_due \in Nat /\ TermEnd(loans[id]) \in Nat
      /\ loans[id].next_due <= TermEnd(loans[id])
      /\ loans[id].grace_expires_at \in Nat
  BY <1>1, DueWithinTerm DEF Loan
<1>3. CASE loans[id].status = "Active"
  BY <1>1, <1>2, <1>3 DEF Prompt
<1>4. CASE loans[id].status = "Grace"
  <2>1. /\ loans[id].grace_expires_at <= TermEnd(loans[id]) + 1 + GracePeriod
        /\ now <= loans[id].grace_expires_at + 1
    BY <1>4 DEF EndsAhead
  <2> QED
    BY <1>1, <1>2, <2>1
<1> QED
  BY <1>3, <1>4 DEF IsOpen

=============================================================================
