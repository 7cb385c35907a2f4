------------------------------ MODULE LoanMath ------------------------------
(***************************************************************************)
(* The integer arithmetic of loan_ledger and liquidation_engine.  Every    *)
(* dividend and divisor is non-negative in the states the contracts reach, *)
(* where Rust's truncating i128 division and \div agree.  Cargo.toml builds *)
(* with overflow-checks: a result that does not fit aborts the call, which *)
(* is a guard of the entry point (LoanLedger) and never a wrapped value.   *)
(***************************************************************************)
EXTENDS Integers

\* Basis points in one.
BPS == 10000

\* Mutant: the discount alone.
LtvWithoutBase(base, floor, score) == ((base - floor) * score) \div BPS

\* The LTV for a reputation score: base_ltv_bps at 0, min_ltv_bps at BPS.
RequiredLtvBps(base, floor, score) == base - (((base - floor) * score) \div BPS)

\* Collateral locked for a principal, rounded down.
CollateralFor(principal, ltv) == (principal * ltv) \div BPS

\* The installment recorded at origination, rounded down.
InstallmentAmount(principal, count) == principal \div count

\* Installments fully covered by the principal repaid.
InstallmentsCovered(repaid, count, principal) == (repaid * count) \div principal

\* Mutant: no safety buffer.
EarnedUnbuffered(locked, repaid, principal, buffer) == (locked * repaid) \div principal

\* What `repaid` has earned back of `locked` before the loan closes: its
\* proportional share less the safety buffer, rounded down.
Earned(locked, repaid, principal, buffer) ==
    ((locked * repaid) * (BPS - buffer)) \div (principal * BPS)

Smaller(a, b) == IF a < b THEN a ELSE b

=============================================================================
