---------------------------- MODULE RemitLiveness ----------------------------
(***************************************************************************)
(* What must eventually happen, from the end of deploy.sh and the handover *)
(* to the council on.  The cranks are permissionless: someone who wants a  *)
(* due transition recorded can always record it, so a crank that stays     *)
(* possible is taken, and taken before the clock moves on.  The admin may  *)
(* pause the engine at any time, over and over.  The settlement account    *)
(* may come to refuse the token, and every liquidation that forfeits with  *)
(* it; the council answers through the timelock.  The clock stops for a    *)
(* pause and for an unanswered refusal at Patience, refusals begin before  *)
(* it, and loans are opened until LastOrigination, so that MaxTime leaves  *)
(* room for every loan to end.  Nobody is obliged to repay anything.       *)
(***************************************************************************)
EXTENDS GovernedProtocol

CONSTANTS Patience, LastOrigination, \* bounds on pauses and originations
          p1, v1, o1                 \* the roles deploy.sh registers

ASSUME TimelyAssumption ==
    /\ Patience \in Nat /\ LastOrigination \in Nat
    /\ {p1, v1, o1} \subseteq Agents
    /\ p1 # v1 \* set_verifier refuses a partner

FirstAgents == {p1, v1, o1}
BothContracts == {LedgerAddr, EngineAddr}

TimelyInit ==
    /\ Deployed(p1, v1, o1)
    /\ Gov!GovernanceInit
    /\ standsSince = [c \in Governed |-> 0]
    /\ proposer = [c \in Governed |-> FirstAdmin]

-----------------------------------------------------------------------------
\* The council.

Blocked == settlement \in frozen
Replacements == {Gov!SetSettlement(a) : a \in Settlements \ frozen}

\* What is scheduled at the vault will send forfeitures where they arrive.
Helpful ==
    /\ scheduled[VaultAddr] # None
    /\ scheduled[VaultAddr].action \in Replacements

\* It answers a refusing account: clears the slot of anything else, schedules
\* an account that works, and executes that.
Repair ==
    /\ Blocked
    /\ \E member \in Addresses :
          \/ ~Helpful /\ Gov!CancelAction(VaultAddr, member)
          \/ \E action \in Replacements :
                Gov!ScheduleAction(VaultAddr, member, action)
          \/ Helpful /\ Gov!ExecuteAction(VaultAddr, member)
    /\ Gov!Watch
    /\ AdminSideOnly

\* The slot may already be taken by something else when that happens, even by
\* an upgrade that can never be executed.
ScheduleUpgrade ==
    /\ now <= LastOrigination
    /\ \E member \in Addresses, action \in Gov!UpgradeActions :
          Gov!ScheduleAction(VaultAddr, member, action)
    /\ Gov!Watch
    /\ AdminSideOnly

-----------------------------------------------------------------------------
TimelyTick ==
    /\ ~CanCrank
    /\ isPaused \/ (Blocked /\ ~Helpful) => now < Patience
    /\ Tick

Users ==
    \/ UseVault
    \/ now <= LastOrigination /\ OpenLoan
    \/ now < Patience /\ ChangeStanding
    \/ Repay
    \/ Crank
    \/ TimelyTick
    \/ PauseEngine

TimelyNext == (Users /\ UNCHANGED adminSide) \/ Repair \/ ScheduleUpgrade

\* No fairness on borrowers, guarantors or pauses.
TimelySpec ==
    /\ TimelyInit
    /\ [][TimelyNext]_governedVars
    /\ WF_governedVars(TimelyTick /\ UNCHANGED adminSide)
    /\ WF_governedVars(Crank /\ UNCHANGED adminSide)
    /\ WF_governedVars(Repair)

\* A grace period that fits the clock's type is recorded at once: where no
\* pause held the cranks back, an overdue loan is one second late at most,
\* whatever was paid on it before.  Nothing but the pause and an addition that
\* overflows can refuse the flag (loan_ledger lib.rs 562-576).
RecordedOnTime ==
    MaxTime + GracePeriod <= MaxU64 =>
        \A id \in LoanIds :
            Overdue(id) => now <= Patience \/ now = loans[id].next_due + 1

PausesEnd == <>[]~isPaused

OverdueLoan(id) == id \in LoanIds /\ Overdue(id)

\* A missed installment does not stay unrecorded: an overdue loan enters grace
\* or is paid up (liquidation_engine lib.rs 4-7), pauses permitting.
OverdueIsRecorded ==
    PausesEnd => \A id \in 1 .. MaxLoans :
        OverdueLoan(id) ~> ~OverdueLoan(id)

\* Every loan ends, repaid or defaulted: no sequence of partial payments, late
\* cranks or pauses, and no settlement account that refuses the token, keeps a
\* loan, and the collateral behind it, open for good.
EveryLoanCloses ==
    PausesEnd => \A id \in 1 .. MaxLoans :
        id \in LoanIds ~> (id \in LoanIds /\ ~IsOpen(loans[id]))
=============================================================================
