----------------------------- MODULE LoanLedger -----------------------------
(***************************************************************************)
(* contracts/loan_ledger: loan records, roles, origination, attested       *)
(* repayments and the default transitions the engine drives.               *)
(*                                                                         *)
(* Each entry point is one action that includes the vault calls it makes.  *)
(* `loans` is the Loan(id) storage: ids are 1 .. LoanCount, so the loan's  *)
(* id is its index and LoanCount is Len(loans).  Storage lifetimes         *)
(* (touch, extend_ttl) are StorageLifetime's.                              *)
(***************************************************************************)
EXTENDS GuarantorVault, LoanMath, Sequences

CONSTANTS
    Beneficiaries,     \* 32-byte handles
    Agents,            \* addresses that may be partner, verifier or oracle
    LedgerAddr,        \* current_contract_address() of the ledger
    BaseLtvBps,        \* Config, fixed by the constructor
    MinLtvBps,
    SafetyBufferBps,
    GracePeriod,
    MaxInstallments,   \* the limits of origination, in the model's time unit
    MinInterval,
    MaxInterval,
    MaxTenor,
    Scores,            \* u32 scores the oracle may publish
    Principals,        \* i128 principals asked for
    InstallmentCounts, \* u32 installment counts asked for
    Intervals,         \* u64 intervals asked for
    MaxI128,           \* the largest i128
    MaxU64,            \* the largest u64
    MaxLoans           \* bound on the loans ever originated

\* What the constructor accepts, and the shape of the limits.
ASSUME ConfigAssumption ==
    /\ BaseLtvBps \in Nat /\ MinLtvBps \in Nat /\ MinLtvBps <= BaseLtvBps
    /\ SafetyBufferBps \in Nat /\ SafetyBufferBps < BPS
    /\ GracePeriod \in Nat /\ GracePeriod # 0
ASSUME LimitAssumption ==
    /\ MaxInstallments \in Nat /\ MaxTenor \in Nat
    /\ MinInterval \in Nat \ {0} /\ MaxInterval \in Nat
ASSUME InputAssumption ==
    /\ Scores \subseteq Nat /\ Principals \subseteq Int
    /\ InstallmentCounts \subseteq Nat /\ Intervals \subseteq Nat
    /\ MaxLoans \in Nat
    /\ MaxI128 \in Nat /\ MaxU64 \in Nat
ASSUME RoleAssumption == None \notin Agents /\ LedgerAddr # None

VARIABLES
    loans,        \* DataKey::Loan(1 .. LoanCount)
    openLoan,     \* DataKey::OpenLoan(g, b); 0 when absent
    reputation,   \* DataKey::Reputation(b); an absent entry reads as 0
    partners,     \* the addresses whose DataKey::Partner entry is true
    verifiers,    \* the addresses whose DataKey::Verifier entry is true
    oracle,       \* DataKey::Oracle
    ledgerEngine, \* DataKey::LiquidationEngine
    now           \* the ledger timestamp

roles == <<partners, verifiers, oracle>>
ledgerVars ==
    <<loans, openLoan, reputation, partners, verifiers, oracle, ledgerEngine, now>>

Status == {"Active", "Grace", "Repaid", "Defaulted"}
Loan == [guarantor : Guarantors, beneficiary : Beneficiaries, partner : Agents,
         principal_usd : Nat, ltv_bps : Nat,
         collateral_locked : Nat, collateral_released : Nat,
         installment_count : Nat, installment_amount : Nat,
         interval_secs : Nat, originated_at : Nat,
         installments_paid : Nat, total_repaid_usd : Nat,
         next_due : Nat, grace_expires_at : Nat, status : Status]

LoanIds == 1 .. Len(loans)
IsOpen(loan) == loan.status \in {"Active", "Grace"}

\* Mutant: the entry stays behind.
MarkerKept(loan) == openLoan

\* The OpenLoan entries once this loan's is removed.
WithoutMarker(loan) ==
    [openLoan EXCEPT ![<<loan.guarantor, loan.beneficiary>>] = 0]

LedgerInit ==
    /\ loans = <<>>
    /\ openLoan = [pair \in Guarantors \X Beneficiaries |-> 0]
    /\ reputation = [b \in Beneficiaries |-> 0]
    /\ partners = {}
    /\ verifiers = {}
    /\ oracle = None
    /\ ledgerEngine = None
    /\ now = 0

-----------------------------------------------------------------------------
\* Administration.

SetOracle(o) ==
    /\ oracle' = o
    /\ UNCHANGED <<loans, openLoan, reputation, partners, verifiers, ledgerEngine, now>>

SetLedgerEngine(engine) ==
    /\ ledgerEngine = None
    /\ ledgerEngine' = engine
    /\ UNCHANGED <<loans, openLoan, reputation, roles, now>>

SetPartner(partner, authorized) ==
    /\ authorized => partner \notin verifiers
    /\ partners' = IF authorized THEN partners \cup {partner}
                                 ELSE partners \ {partner}
    /\ UNCHANGED <<loans, openLoan, reputation, verifiers, oracle, ledgerEngine, now>>

\* Mutant: no look at the partners.
SetVerifierUnchecked(verifier, authorized) ==
    /\ verifiers' = IF authorized THEN verifiers \cup {verifier}
                                  ELSE verifiers \ {verifier}
    /\ UNCHANGED <<loans, openLoan, reputation, partners, oracle, ledgerEngine, now>>

SetVerifier(verifier, authorized) ==
    /\ authorized => verifier \notin partners
    /\ verifiers' = IF authorized THEN verifiers \cup {verifier}
                                  ELSE verifiers \ {verifier}
    /\ UNCHANGED <<loans, openLoan, reputation, partners, oracle, ledgerEngine, now>>

\* Mutant: no bound on the score.
SetReputationUnbounded(caller, beneficiary, score) ==
    /\ oracle # None /\ caller = oracle
    /\ reputation' = [reputation EXCEPT ![beneficiary] = score]
    /\ UNCHANGED <<loans, openLoan, roles, ledgerEngine, now>>

SetReputation(caller, beneficiary, score) ==
    /\ oracle # None /\ caller = oracle
    /\ score <= BPS
    /\ reputation' = [reputation EXCEPT ![beneficiary] = score]
    /\ UNCHANGED <<loans, openLoan, roles, ledgerEngine, now>>

ReassignPartner(id, newPartner) ==
    /\ newPartner \in partners
    /\ IsOpen(loans[id])
    /\ loans' = [loans EXCEPT ![id] = [@ EXCEPT !.partner = newPartner]]
    /\ UNCHANGED <<openLoan, reputation, roles, ledgerEngine, now>>

-----------------------------------------------------------------------------
\* Origination.

ScheduleAllowed(count, interval) ==
    /\ count \in 1 .. MaxInstallments
    /\ interval \in MinInterval .. MaxInterval
    /\ count * interval <= MaxTenor

NewLoan(guarantor, beneficiary, partner, principal, count, interval) ==
    LET ltv == RequiredLtvBps(BaseLtvBps, MinLtvBps, reputation[beneficiary])
    IN  [guarantor |-> guarantor, beneficiary |-> beneficiary,
         partner |-> partner, principal_usd |-> principal, ltv_bps |-> ltv,
         collateral_locked |-> CollateralFor(principal, ltv),
         collateral_released |-> 0, installment_count |-> count,
         installment_amount |-> InstallmentAmount(principal, count),
         interval_secs |-> interval, originated_at |-> now,
         installments_paid |-> 0, total_repaid_usd |-> 0,
         next_due |-> now + interval, grace_expires_at |-> 0,
         status |-> "Active"]

\* The products and sums of originate that could overflow.
OriginationFits(loan) ==
    /\ loan.principal_usd * loan.ltv_bps <= MaxI128
    /\ loan.next_due <= MaxU64

Originate(guarantor, beneficiary, partner, principal, count, interval) ==
    LET loan == NewLoan(guarantor, beneficiary, partner, principal, count, interval)
    IN  /\ Len(loans) < MaxLoans
        /\ principal > 0
        /\ ScheduleAllowed(count, interval)
        /\ partner \in partners
        /\ openLoan[<<guarantor, beneficiary>>] = 0
        /\ OriginationFits(loan)
        /\ LockCollateral(LedgerAddr, guarantor, loan.collateral_locked)
        /\ loans' = Append(loans, loan)
        /\ openLoan' =
               [openLoan EXCEPT ![<<guarantor, beneficiary>>] = Len(loans) + 1]
        /\ UNCHANGED <<reputation, roles, ledgerEngine, now>>

-----------------------------------------------------------------------------
\* Repayment.

\* What the loan's collateral releases add up to after `repaid` in total.
Releasable(loan, repaid) ==
    IF repaid >= loan.principal_usd
    THEN loan.collateral_locked
    ELSE Earned(loan.collateral_locked, repaid, loan.principal_usd, SafetyBufferBps)

\* Mutant: an interval from the attestation.
NextDueFromNow(loan, paid) == now + loan.interval_secs

NextDue(loan, paid) == loan.originated_at + (paid + 1) * loan.interval_secs

\* The loan with `amount` more repaid, the installments that covers counted
\* and what it earns back released.
Credited(loan, amount) ==
    LET total      == loan.total_repaid_usd + amount
        releasable == Releasable(loan, total)
    IN  [loan EXCEPT
           !.total_repaid_usd = total,
           !.installments_paid =
               InstallmentsCovered(total, loan.installment_count, loan.principal_usd),
           !.collateral_released =
               IF releasable > loan.collateral_released
               THEN releasable
               ELSE loan.collateral_released]

\* Mutant: any payment ends grace.
SettledAlwaysActive(loan) ==
    [loan EXCEPT !.next_due = NextDue(loan, loan.installments_paid),
                 !.grace_expires_at = 0,
                 !.status = IF loan.total_repaid_usd >= loan.principal_usd
                            THEN "Repaid" ELSE "Active"]

\* A loan repaid in full closes.  Any other is due at the first installment
\* not covered, and leaves grace only if that brings it current.
Settled(loan) ==
    LET due == NextDue(loan, loan.installments_paid)
    IN  IF loan.total_repaid_usd >= loan.principal_usd
        THEN [loan EXCEPT !.status = "Repaid", !.grace_expires_at = 0]
        ELSE IF now <= due
        THEN [loan EXCEPT !.next_due = due, !.status = "Active",
                          !.grace_expires_at = 0]
        ELSE [loan EXCEPT !.next_due = due]

\* Mutant: the loan's partner, registered or not.
AuthorizedOnce(loan, partner, verifier) ==
    /\ partner = loan.partner
    /\ verifier # partner /\ verifier \in verifiers

\* The partner services this loan, the verifier is someone else, and both are
\* registered now.
Authorized(loan, partner, verifier) ==
    /\ partner = loan.partner /\ partner \in partners
    /\ verifier # partner /\ verifier \in verifiers

\* Mutant: the earned share is computed before the loan is seen to close.
RepaymentAlwaysFits(loan, after) ==
    /\ after.total_repaid_usd * loan.installment_count <= MaxI128
    /\ (loan.collateral_locked * after.total_repaid_usd)
             * (BPS - SafetyBufferBps) <= MaxI128
    /\ loan.principal_usd * BPS <= MaxI128
    /\ after.next_due <= MaxU64

\* The products and sums of attest_repayment that could overflow: a repayment
\* that closes the loan computes neither the earned share nor a due date.
RepaymentFits(loan, after) ==
    /\ after.total_repaid_usd * loan.installment_count <= MaxI128
    /\ after.status # "Repaid" =>
          /\ (loan.collateral_locked * after.total_repaid_usd)
                   * (BPS - SafetyBufferBps) <= MaxI128
          /\ loan.principal_usd * BPS <= MaxI128
          /\ after.next_due <= MaxU64

\* Everything that can refuse an attestation, the vault's checks included.
CanAttest(partner, verifier, id, amount) ==
    LET loan       == loans[id]
        after      == Settled(Credited(loan, amount))
        releaseNow == after.collateral_released - loan.collateral_released
    IN  /\ amount > 0
        /\ Authorized(loan, partner, verifier)
        /\ IsOpen(loan)
        /\ loan.total_repaid_usd + amount <= loan.principal_usd
        /\ RepaymentFits(loan, after)
        /\ releaseNow > 0 => /\ IsLedgerOrEngine(LedgerAddr)
                             /\ CanRelease(vaults[loan.guarantor], releaseNow)

AttestRepayment(partner, verifier, id, amount) ==
    LET loan       == loans[id]
        after      == Settled(Credited(loan, amount))
        releaseNow == after.collateral_released - loan.collateral_released
    IN  /\ CanAttest(partner, verifier, id, amount)
        /\ IF releaseNow > 0
           THEN ReleaseCollateral(LedgerAddr, loan.guarantor, releaseNow)
           ELSE UNCHANGED vaultVars
        /\ loans' = [loans EXCEPT ![id] = after]
        /\ openLoan' = IF after.status = "Repaid" THEN WithoutMarker(loan)
                                                  ELSE openLoan
        /\ UNCHANGED <<reputation, roles, ledgerEngine, now>>

-----------------------------------------------------------------------------
\* Default transitions, called by the engine, and the views it reads.

\* Mutants: the due date itself is late; the status is not looked at.
DueAlready(id) == loans[id].status = "Active" /\ now >= loans[id].next_due
PastDue(id) == now > loans[id].next_due

Overdue(id) == loans[id].status = "Active" /\ now > loans[id].next_due
GraceExpired(id) == loans[id].status = "Grace" /\ now > loans[id].grace_expires_at

IsRegisteredEngine(caller) == ledgerEngine # None /\ caller = ledgerEngine

\* Mutant: the deadline without the status.
DeadlineOnly(loan) == [loan EXCEPT !.grace_expires_at = now + GracePeriod]

InGrace(loan) ==
    [loan EXCEPT !.status = "Grace", !.grace_expires_at = now + GracePeriod]

\* Mutant: a grace period only while it would not be over already.
GraceStillAhead(caller, id) ==
    /\ IsRegisteredEngine(caller) /\ Overdue(id)
    /\ now < loans[id].next_due + GracePeriod

CanMarkGrace(caller, id) ==
    IsRegisteredEngine(caller) /\ Overdue(id) /\ now + GracePeriod <= MaxU64

MarkGrace(caller, id) ==
    /\ CanMarkGrace(caller, id)
    /\ loans' = [loans EXCEPT ![id] = InGrace(@)]
    /\ UNCHANGED <<openLoan, reputation, roles, ledgerEngine, now>>

\* Mutant: the record keeps its collateral.
AfterDefaultUnsettled(loan) == [loan EXCEPT !.status = "Defaulted"]

\* All of the collateral is accounted for: the engine has settled it.
AfterDefault(loan) ==
    [loan EXCEPT !.status = "Defaulted",
                 !.collateral_released = loan.collateral_locked]

MarkDefaulted(caller, id) ==
    /\ IsRegisteredEngine(caller)
    /\ GraceExpired(id)
    /\ loans' = [loans EXCEPT ![id] = AfterDefault(@)]
    /\ openLoan' = WithoutMarker(loans[id])
    /\ UNCHANGED <<reputation, roles, ledgerEngine, now>>

\* Principal still owed, and collateral still locked against the loan.
Outstanding(loan) ==
    IF loan.principal_usd > loan.total_repaid_usd
    THEN loan.principal_usd - loan.total_repaid_usd
    ELSE 0
Remaining(loan) == loan.collateral_locked - loan.collateral_released

=============================================================================
