--------------------------- MODULE RemitProperties ---------------------------
(***************************************************************************)
(* What the three contracts promise together.                              *)
(***************************************************************************)
EXTENDS RemitProtocol

\* Every storage entry of the three contracts has its declared type.
TypeOK ==
    /\ VaultTypeOK
    /\ loans \in Seq(Loan)
    /\ openLoan \in [Guarantors \X Beneficiaries -> Nat]
    /\ reputation \in [Beneficiaries -> 0 .. BPS]
    /\ partners \subseteq Agents /\ verifiers \subseteq Agents
    /\ oracle \in Agents \cup {None}
    /\ ledgerEngine \in {EngineAddr, None}
    /\ now \in Nat
    /\ isPaused \in BOOLEAN

-----------------------------------------------------------------------------
\* Collateral.

\* What is still locked of a guarantor's collateral against one loan.
LockedFor(g, loan) ==
    IF loan.guarantor = g /\ IsOpen(loan) THEN Remaining(loan) ELSE 0

\* The vault's locked_amount and the ledger's loan records are two books of
\* one thing, kept in two contracts: a guarantor's locked_amount is always the
\* sum of what is still locked against each of its open loans.
LockedBacksLoans ==
    \A g \in Guarantors :
        vaults[g].locked_amount =
            SumFunction([id \in LoanIds |-> LockedFor(g, loans[id])])

\* With a floor of at least 100%, what is still locked against an open loan
\* covers what is still owed on it, whatever was repaid, in whatever slices,
\* and however the roundings fall: liquidation is never short.
OutstandingCovered ==
    MinLtvBps >= BPS =>
        \A id \in LoanIds :
            IsOpen(loans[id]) => Outstanding(loans[id]) <= Remaining(loans[id])

\* What an open loan has released depends on the total repaid and not on how
\* it was sliced into attestations, and is short of everything at least by
\* the safety buffer (loan_ledger test.rs 845-852, "INVARIANT 3").
ReleaseFollowsTheCurve ==
    \A id \in LoanIds :
        LET loan == loans[id]
        IN  IsOpen(loan) =>
              /\ loan.collateral_released = Releasable(loan, loan.total_repaid_usd)
              /\ loan.collateral_released * BPS
                    <= loan.collateral_locked * (BPS - SafetyBufferBps)

\* What a loan that defaulted cost its guarantor: what was owed, or what was
\* still locked if that was less.
LossOn(loan) ==
    Smaller(Outstanding(loan),
            loan.collateral_locked - Releasable(loan, loan.total_repaid_usd))

\* What one loan has cost a guarantor.
CostTo(g, loan) ==
    IF loan.guarantor = g /\ loan.status = "Defaulted" THEN LossOn(loan) ELSE 0

\* Never pooled: with a token that keeps no fee, a guarantor's tokens and
\* collateral together are what it started with less the debt of its own
\* defaulted loans.  Neither repayments, other guarantors' defaults nor any
\* order of cranks costs it more, and the settlement address got the rest.
GuarantorLosesOwnDebtOnly ==
    Fees = {0} /\ Settlements \cap Guarantors = {} =>
        \A g \in Guarantors :
            usdc[g] + vaults[g].collateral_balance
              + SumFunction([id \in LoanIds |-> CostTo(g, loans[id])])
            = Supply

\* Once wired and unpaused, a liquidation that is due can run as long as the
\* token serves the vault and the settlement address: no vault check, no
\* token balance and no overflow ever stands in its way.
LiquidationNeverStuck ==
    (/\ vaultEngine = EngineAddr /\ ledgerEngine = EngineAddr
     /\ ~isPaused /\ Fees = {0}
     /\ VaultAddr \notin frozen /\ settlement \notin frozen)
    => \A id \in LoanIds : GraceExpired(id) => CanLiquidate(id, 0)

\* A borrower can always pay the rest at once and get the loan closed: with a
\* floor of more basis points than a loan has installments, any open loan
\* whose two roles are registered accepts it.  Neither the vault nor an
\* overflow refuses, though amounts this large do overflow when part of the
\* loan is repaid.
AlwaysRepayableInFull ==
    vaultLoanLedger = LedgerAddr /\ MinLtvBps >= MaxInstallments =>
        \A id \in LoanIds, p, v \in Agents :
            IsOpen(loans[id]) /\ Authorized(loans[id], p, v) =>
                CanAttest(p, v, id, Outstanding(loans[id]))

-----------------------------------------------------------------------------
\* The ledger's own books.

\* When the last installment of a loan is due.
TermEnd(loan) == loan.originated_at + loan.installment_count * loan.interval_secs

\* The OpenLoan marker of a pair names its open loan, and there is one open
\* loan for each marker: no marker outlives its loan and none is missing.
OpenMarkerExact ==
    /\ \A pair \in Guarantors \X Beneficiaries :
         openLoan[pair] # 0 =>
            /\ openLoan[pair] \in LoanIds
            /\ IsOpen(loans[openLoan[pair]])
            /\ pair = <<loans[openLoan[pair]].guarantor,
                        loans[openLoan[pair]].beneficiary>>
    /\ \A id \in LoanIds :
         IsOpen(loans[id]) =>
            openLoan[<<loans[id].guarantor, loans[id].beneficiary>>] = id

\* Due dates are derived from the origination time and the installments that
\* the money covers, never from when or how often payments were attested; an
\* open loan always has an installment left to pay.
ScheduleAnchored ==
    \A id \in LoanIds :
        LET loan == loans[id]
        IN  IsOpen(loan) =>
              /\ loan.installments_paid =
                    InstallmentsCovered(loan.total_repaid_usd,
                                        loan.installment_count, loan.principal_usd)
              /\ loan.installments_paid < loan.installment_count
              /\ loan.next_due = NextDue(loan, loan.installments_paid)

\* A loan is in grace only while it is behind, and only then has a deadline.
GraceMeansBehind ==
    \A id \in LoanIds :
        LET loan == loans[id]
        IN  /\ loan.status = "Grace" =>
                  /\ loan.next_due < now
                  /\ loan.grace_expires_at \in GracePeriod + 1 .. now + GracePeriod
            /\ loan.status \in {"Active", "Repaid"} => loan.grace_expires_at = 0

\* Whatever scores the oracle published and when, a loan's LTV is within the
\* configured band: "the floor bounds the damage" (README, known limitations).
LtvWithinBand ==
    \A id \in LoanIds : loans[id].ltv_bps \in MinLtvBps .. BaseLtvBps

\* No key is ever partner and verifier at once, whatever the order in which
\* the admin registered and revoked.
RolesDisjoint == partners \cap verifiers = {}

-----------------------------------------------------------------------------
\* What a step may never do.

\* A loan's repayments and releases move only when its own partner and an
\* independent verifier are both registered at that moment, or when it
\* defaults: revocation bites on the next invocation.
RepaymentNeedsBothRoles ==
    [][\A id \in LoanIds :
         \/ loans'[id].status = "Defaulted"
         \/ /\ loans'[id].total_repaid_usd = loans[id].total_repaid_usd
            /\ loans'[id].collateral_released = loans[id].collateral_released
         \/ /\ loans[id].partner \in partners
            /\ verifiers \ {loans[id].partner} # {}
            /\ loans'[id].total_repaid_usd > loans[id].total_repaid_usd]_vars

\* A loan gets one whole grace period before it can default, and a payment
\* that leaves it behind neither restarts the clock nor ends grace.
GraceIsOneFullPeriod ==
    [][\A id \in LoanIds :
         LET old == loans[id]
             new == loans'[id]
         IN  /\ old.status # "Grace" /\ new.status = "Grace" =>
                    new.grace_expires_at = now + GracePeriod
             /\ old.status = "Grace" /\ new.status = "Grace" =>
                    new.grace_expires_at = old.grace_expires_at
             /\ old.status = "Grace" /\ new.status = "Active" =>
                    new.installments_paid > old.installments_paid
             /\ old.status # "Defaulted" /\ new.status = "Defaulted" =>
                    old.status = "Grace" /\ now > old.grace_expires_at]_vars

\* A closed loan is final: an attestation that arrives after the liquidation,
\* a crank or a reassignment to another partner that races it, changes nothing
\* (loan_ledger lib.rs 269, 495, 567, 588).
ClosedLoansStayClosed ==
    [][\A id \in LoanIds : ~IsOpen(loans[id]) => loans'[id] = loans[id]]_vars

-----------------------------------------------------------------------------
\* What the repository says and the code does not do.

\* "Installments fully covered by principal repaid" (loan_ledger lib.rs 93-95):
\* a loan whose repayments add up to k installments of the recorded
\* installment_amount counts k of them paid.  The code counts
\* repaid * count / principal instead, and installment_amount is rounded
\* down, so paying exactly the recorded installment may count as none.
RecordedInstallmentsCount ==
    \A id \in LoanIds :
        LET loan == loans[id]
        IN  loan.installment_amount > 0 =>
              loan.installments_paid >=
                  Smaller(loan.total_repaid_usd \div loan.installment_amount,
                          loan.installment_count)

\* "what they do is determined entirely by the loan's own state and the ledger
\* clock" (liquidation_engine lib.rs 3-7): a loan that is overdue can always be
\* flagged.  The code also reads the admin's pause flag.
CrankFixedByLoanState ==
    \A id \in LoanIds : Overdue(id) => CanFlag(id)

=============================================================================
