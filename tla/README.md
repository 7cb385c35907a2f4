# Verification of the RemitCollateral contracts

TLA+ models of the three Soroban contracts in `contracts/`, model-checked with
TLC and proved with TLAPS. Source locations below are relative to the
repository root; V, L and E stand for `src/lib.rs` of `guarantor_vault`,
`loan_ledger` and `liquidation_engine`.

## 1. The system

A guarantor deposits USDC in its own vault record. It opens a loan for a
beneficiary; the ledger locks a multiple of the principal in the vault. A
partner and an independent verifier co-sign each repayment, which releases
collateral in proportion. A missed installment can be flagged by anyone, which
starts a grace period; when that expires anyone can liquidate: what is owed goes
to the settlement address and the rest back to the guarantor.

| Component | State | Operations | Calls |
|---|---|---|---|
| GuarantorVault (V) | `Vault(g)`: collateral_balance, locked_amount; registered ledger and engine; settlement address; re-entrancy lock | deposit, withdraw (guarantor); lock, release, forfeit (contracts); one-time wiring (admin) | the USDC token |
| LoanLedger (L) | `Loan(id)`, LoanCount, `OpenLoan(g, b)` markers, `Reputation(b)`, `Partner(a)`, `Verifier(a)`, oracle, engine, config | originate, attest_repayment, mark_grace, mark_defaulted, role administration, set_reputation, reassign_partner | vault: lock, release |
| LiquidationEngine (E) | IsPaused, addresses of the other two | flag_overdue, liquidate, poke (anyone); pause, unpause (admin) | ledger: views, mark_*; vault: forfeit, release |
| Governance (in all three) | Admin, PendingAdmin, Scheduled, TimelockSecs | propose/accept admin; schedule/execute/cancel | the vault's settlement address |
| Re-entrancy guard (V) | ReentrancyLock | taken by the five custody entry points, dropped on return | – |
| Storage lifetimes (in all three) | the TTL of the instance and of each persistent entry | renewed by use; archived; restored by anyone | – |
| Scripts | – | deploy, handover to the council, attestation, smoke test | all entry points |

Every invocation is one atomic transaction: a panic in a callee reverts the
caller too, and the host refuses re-entry. So the concurrency is between
*transactions*: guarantors, partners, verifiers, the oracle, the admin and
anonymous crankers, in any order, and the ledger clock. The exceptions are
modelled on their own: a token that calls the vault back in the middle of a
transfer, and a script of six transactions that can stop between any two.

What is hard, and what makes each component correct:

* **Two books of one thing.** The vault knows one locked_amount per guarantor,
  the ledger knows what each loan still has locked. Nothing in either contract
  compares them. They must agree after every transaction, also half-wired, and
  one loan may never consume another's lock.
* **Rounding.** The collateral, the earned share and the installments covered
  are rounded separately. The debt must stay covered and the release must not
  depend on how a repayment is sliced.
* **Races in time.** A payment may land before, during or after grace, and
  after grace expired but before the crank. Token payments must not defer
  default; closed loans are final.
* **Roles over time.** Partners and verifiers come and go while loans they are
  named in live on.
* **Progress.** Nobody is obliged to act, and the engine can be paused. Overdue
  loans must still be recorded and closed.
* **Custody.** The vault must be solvent and its asserts unreachable whatever
  its registered contracts ask, also while a transfer is under way.
* **A token that refuses.** A liquidation that forfeits pays the settlement
  account in the same transaction. While that account cannot receive the token,
  nothing is liquidated; only the timelock can change the account.
* **Changing hands.** Proposals, acceptances, schedules, cancellations and
  executions interleave over three contracts. Nothing may take effect that was
  not announced for a whole delay, and no contract may end up without an admin
  who can sign.
* **Edges of the integers.** An overflow aborts. It must not be the one call that
  would close a loan.
* **Entries with clocks of their own.** A loan lives in four entries (loan,
  marker, partner, vault record), each archived on its own clock.

`PROJECT.json` lists the hazards one by one with their lines and the properties
that cover them.

## 2. The modules

| Module | Models | Correspondence |
|---|---|---|
| `LoanMath` | the integer arithmetic of L and E | one operator per expression |
| `GuarantorVault` | V | `vaults`, `usdc`, `settlement`, `frozen`, `vaultLoanLedger`, `vaultEngine`; one action per entry point |
| `LoanLedger` | L | one variable per kind of storage key; one action per entry point, with the vault calls it makes |
| `LiquidationEngine` | E | one action per crank, with every ledger and vault call it makes |
| `RemitProtocol` | the composition, `deploy.sh`, the clock | `Init` is the state after the constructors, `Deployed` after `deploy.sh` |
| `RemitProperties` | safety and action properties of the composition | |
| `CollateralEscrow` | what guarantors and borrowers are promised, abstractly | one escrow for each debt |
| `EscrowRefinement` | the mapping from the contracts to `CollateralEscrow` | free = what the vault lets go; an escrow = what the ledger's record has left |
| `VaultReentrancy` | V with a token that calls back | each entry point that moves tokens is broken at the token call; calls in progress are a stack, a panic rolls back |
| `Governance` | the admin side of the three contracts | the storage of contract c is the value at c of each variable; one action per entry point |
| `GovernanceProperties` | what timelock and handover promise | two history variables: since when a schedule has stood, who proposed |
| `HandoverScript` | `handover-to-multisig.sh` against `Governance` | each transaction a step; it can be cut short, mistyped, repeated |
| `GovernedProtocol` | `RemitProtocol` and `Governance` together | admin steps take the present admin's signature, the settlement address the timelock |
| `StorageLifetime` | `RemitProtocol` with a clock for every storage entry | each action is the protocol's and what it touches |
| `RemitLiveness` | `GovernedProtocol`, a timely environment, liveness | |
| `MCRemit`, `MCGuarantorVault`, `MCHandover`, `MCStorage` | inputs and sub-specifications for TLC | |
| `ArithmeticProofs`, `GuarantorVaultProofs`, `RemitProofs`, `VaultReentrancyProofs`, `GovernanceProofs`, `GovernedProofs`, `EscrowProofs`, `StorageProofs` | theorems | |

The core modules form one chain of EXTENDS, `LoanMath`, `GuarantorVault`,
`LoanLedger`, `LiquidationEngine`, `RemitProtocol`, `RemitProperties`, because a
ledger transaction contains vault steps and an engine transaction contains both.
`EscrowRefinement`, `GovernedProtocol` and `StorageLifetime` each build on that
chain and say one more thing about it, each by a refinement: the contracts
implement the escrows, and the protocol with admins, or with archival, is still
the protocol.

Conventions:

* A call that panics changes nothing: panics are guards. The exception is the
  asserts in `save` (V 501-515). They are left out of the actions and stated
  as the invariant `SaveAssertionsHold`, so that reaching one would be seen.
* `x.require_auth()` makes x a parameter of the action: only x can take the
  step. In `RemitProtocol` the admin's actions carry no caller and the
  settlement address may change at any time; `GovernedProtocol` adds who signs
  and the delay.
* `caller.require_auth()` for contract callers: the composed modules pass
  `LedgerAddr` or `EngineAddr`; the vault alone is called by any of `Contracts`.
* In `Liquidate` the two vault calls are written out as updates of one record
  (`AfterSeizure`, then `AfterReturn`), since one transaction makes both.
* Where a property asks whether a call can be refused, all that can refuse it,
  in whichever contract, is one state predicate and the action's first conjunct:
  `CanAttest`, `CanMarkGrace`, `CanFlag`, `CanLiquidate`, `CanCrank`.
* `loans` is a sequence and a loan's id its index; the id field is left out.
* The token is external. A transfer is refused for a negative amount, one above
  the balance, and when either end is in `frozen` (no trustline, or
  deauthorized), which `MayFreeze` lets happen to an account at any moment. It
  may keep a fee; USDC keeps none. `TransferToVault` is USDC sent to the
  vault's address without a deposit: it is in the vault's own specification, and
  in the composition would only add to the vault's tokens.
* Time is an integer clock. The origination limits are constants, given in the
  model's unit by each configuration.
* The release profile builds with overflow checks, so an overflow aborts.
  `OriginationFits`, `RepaymentFits` and the deadline in `CanMarkGrace` are those
  checks, on the products and sums that can be out of range when their operands
  are in it. Elsewhere (vault balances, which the token's supply bounds) none is
  needed.
* An upgrade replaces the code and keeps the storage; new code is taken to
  behave like the old, as nothing can be said of code not yet written. Any hash
  can be scheduled; the host refuses to execute one that is not in `Uploaded`, and
  it stays scheduled. `Uploaded` is constant: code uploaded later is code nobody
  has executed yet.
* In `VaultReentrancy` the admin and the token's issuer act between
  transactions only: what they change commutes with a call in progress. What
  other code does during a transfer is placed after the tokens have moved, with
  which it commutes.
* Definitions whose comment begins with "Mutant" are deliberately wrong
  variants of the definition that follows. No specification uses them. Each
  property of a passing run is shown to fail when the mutant named for it in
  `PROJECT.json` takes the definition's place.

## 3. The runs

Bounds are in the cfg files: `Supply` and `Amounts` bound money, `MaxLoans`
loans, `MaxTime` the clock, `MaxFailures` the script's failures, `Patience` and
`LastOrigination` how late a pause, a refusal and an origination may come; the
finite input sets bound everything else. Deadlock is checked in every run but
`handover`, where the script is done when it is done.

| Run | Specification | Shows | Instance |
|---|---|---|---|
| custody | `CallbackSpec` | `SaveAssertionsHold`, `VaultSolvent`, `NothingLockedBeforeTheLedger`, `LockedDuringOneCall`, `CollateralLeavesTwoWays` | 2 guarantors, 3 contracts of which any two (or one twice) get wired, amounts -1..2, fees 0..1, callbacks and rollbacks |
| protocol | `Spec` | `TypeOK`, `LockedBacksLoans`, `RolesDisjoint`, `RepaymentNeedsBothRoles`, `ClosedLoansStayClosed` | from bare constructors, wiring in any order, 3 keys in all roles, one loan |
| portfolio | `LifecycleSpec` | `LockedBacksLoans`, `GuarantorLosesOwnDebtOnly`, `OpenMarkerExact`, `ImplementsEscrow` | 2 guarantors, 2 beneficiaries, 2 loans |
| lifecycle | `LifecycleSpec` | `ScheduleAnchored`, `GraceMeansBehind`, `GraceIsOneFullPeriod`, `LiquidationNeverStuck` | 2 loans on one vault, base 80%, floor 50%, 1 to 3 installments, inputs on both sides of every limit, a guarantor who may refuse the token |
| repayment | `RepaymentSpec` | `OutstandingCovered`, `ReleaseFollowsTheCurve`, `LtvWithinBand`, `AlwaysRepayableInFull` | principals 7, 12 and 30 against an i128 of 2,000,000, scores up to beyond full scale |
| governance | `WatchedSpec` | `GovernanceTypeOK`, `NeverLockedOut`, `ProposalIsTheAdmins`, `EveryChangeWasSeenComing` | 2 contracts, 3 addresses of which nobody holds one, 3 hashes of which one was never uploaded, delay 2, u64 of 5 |
| handover | `HandoverSpec` | `NothingLeftOut`, `HandoverCompletes` | 3 contracts, up to 6 runs cut short or mistyped |
| liveness | `TimelySpec` | `RecordedOnTime`, `OverdueIsRecorded`, `EveryLoanCloses` | 2 beneficiaries, 2 loans, pauses, a settlement account that refuses, a delay of 1 |
| storage | `StorageSpec` | `UsedEntriesStayLive`, `EveryLoanEndsInTime`, `LoansCloseDespiteArchival` | one loan, renewal to 2 at a threshold of 1, clock to 5 |
| recorded_installment | `LifecycleSpec` | `RecordedInstallmentsCount` is violated | |
| paused_crank | `LifecycleSpec` | `CrankFixedByLoanState` is violated | |
| kept_alive | `StorageSpec` | `KeptLoansStayWhole` is violated | the code's lifetimes in units of 30 days |

Why the bounds are enough to mean something:

* *custody*: a supply of 3 with amounts up to 2 lets a guarantor hold locked
  and free collateral at once and be asked for more than either; a fee of 1
  separates what is sent from what arrives; with three contracts the ledger and
  the engine can be the same address, different ones, or not set. The vault's
  own address may be made the settlement address. With the guard dropped, two
  nested deposits credit the same tokens twice within these bounds, which is how
  `VaultSolvent` fails for its mutant.
* *protocol*: three keys are enough for one to be partner, then revoked, then
  verifier, while another takes its loan over, before or after it closed;
  half-wired states arise because
  the wiring calls are interleaved with everything else.
* *portfolio*: the two loans may share a guarantor, a beneficiary, neither, or
  be one pair twice in turn; principals 1 and 2 at 150% lock 1 and 3, so both
  loans fit in one vault and the splits of a liquidation differ. Guarantors and
  beneficiaries are interchangeable in every definition the run evaluates, the
  abstract specification's too, so symmetry is sound; no property of the run is
  about liveness.
* *lifecycle*: 3 installments of interval 1 with grace 2 leave room, up to time
  6, for a grace period, partial recovery, liquidation, and another loan between
  the same two. At 80% a principal of 3 locks 2: the collateral is short of the
  debt, forfeitures are capped, and `LiquidationNeverStuck` is not trivial.
* *repayment*: 7 at 110% locks 7 (7.7 rounded down), the tightest cover. The
  product of L 516 for 30 at 150% with a buffer of 20% is 360,000 for each unit
  repaid: below 2,000,000 up to 5 and above it from 6 on. Partial repayments
  that overflow are aborted, and the loan must remain repayable at once.
* *governance*: the delay of 2 leaves room to cancel and schedule again inside
  it; at time 4 the sum in schedule_action exceeds the u64 of 5 and aborts.
  The two contracts are one with and one without a settlement address. The third
  runs the same code as the second and shares nothing with either.
* *handover*: six failures are one for each transaction of the script.
* *liveness*: loans are opened at time 0 and due within 2 intervals of 1, grace
  1, pauses and refusals stop the clock by time 2 until they are resolved.
  `MaxTime` 5 leaves room for the longest of these; with too small a clock the
  liveness properties fail, as it stops before the loans do. A loan of two
  installments, the first paid, is due at 2 and flagged at 3, past `Patience`, so
  `RecordedOnTime` is not about pauses only.
* *storage*: the lifetime of an entry (2) is shorter than a loan with grace (up
  to 3 after its origination), so any entry can be archived in the middle of
  one. What a call renews depends only on whether it is past the threshold (1).
  A loan of one installment is due at 1, flagged at 2, past its deadline and
  liquidated at 4, which is the last time `EveryLoanEndsInTime` allows; the clock
  goes one further.
* *kept_alive*: threshold 3 and extension 4 are the code's 90 and 120 days, the
  interval 3 its longest.

`LifecycleSpec` and `RepaymentSpec` in `MCRemit` are the steps of the protocol
that a run is about, from the state `deploy.sh` leaves; `StorageSpec` is the
deployment followed by the life of a loan. The theorems hold for `Spec` and
`LifetimeSpec`, every step from the bare constructors; two are about the schedules
`TimelySpec` and `StorageSpec` themselves.

`GovernedSpec` has no run of its own. It is proved to implement both
`RemitProtocol`'s `Spec` and `GovernanceProperties`' `WatchedSpec`, so it
inherits what their runs and theorems show; `RemitLiveness` runs the council's part
of it.

### Findings

* `recorded_installment`: the loan records `installment_amount` rounded down
  (L 440) but counts `repaid * count / principal` installments (L 725). On a
  principal that does not divide evenly, paying exactly the recorded amount on
  time covers no installment, and the loan can be put in grace over a
  remainder of fewer units than it has installments. The tests use amounts that divide evenly.
* `paused_crank`: the engine's documentation says that what a crank does is
  determined entirely by the loan's state and the clock (E 4-6, README "Roles").
  The admin's pause flag also decides (E 229). Deadlines keep running during a
  pause.
* `kept_alive`: the views are said to keep an idle loan from being archived
  before it can be liquidated (L 735-737, `loan_ledger/src/test.rs` 598). They
  renew the loan's own entry (L 746) but not its OpenLoan marker, which only
  `save_loan` renews (L 759) and which both cranks touch. A loan whose first of
  two 90-day installments is paid at once is due after 180 days; its marker was
  archived after 120, and `flag_overdue` fails until someone restores it. The
  guarantor's vault record and the vault's instance keep clocks of their own in
  the same way, a failing crank renews nothing, a poke during a pause renews the
  engine only, and `get_loan` and `get_loans_range` renew nothing. What is lost
  is time and a fee, not the loan: `LoansCloseDespiteArchival`, and a
  network that restores entries automatically would hide it.

### Fairness

Three specifications have fairness, and none assumes it of borrowers, guarantors,
partners, pauses or the token.

`TimelySpec` (`RemitLiveness`):

* WF of `Crank`: a due transition that stays possible is eventually made. The
  cranks take no authorization and no argument but the loan's id, so the party
  who wants the transition, at least the protocol's operator, can make it.
* WF of `TimelyTick`: the ledger closes. `TimelyTick` does not pass over a
  due crank unless the engine is paused: transitions are cranked within a clock
  unit of becoming due. The unit is arbitrary. Past `Patience` it waits for a
  pause to end and a refusal to be answered, which bounds how long those last.
* WF of `Repair`: the council answers a settlement account that refuses the
  token: it clears the slot of anything else, schedules an account that works,
  and executes it after the delay. Something else may stand scheduled when the
  refusal begins, even an upgrade to code that was never uploaded, which nothing
  but a cancellation removes. This is the only power in the code that unblocks liquidation,
  so without it the loans of a refusing account do not close.
* `PausesEnd` is the premise of both properties.

`HandoverSpec`: WF of the script's steps and of `Retry`: the operator runs it
again after a failure, of which there are finitely many. It is run with the
contracts it did not reach: with the same list it stops at the first one
already handed over, since its former admin can propose nothing.

`StorageSpec`: WF of the cranks, of the clock, and of `RestoreAll`: restoring an
entry takes no authorization either, so whoever wants the crank can restore what
it needs.

## 4. The theorems

All eight proof modules are proved completely by TLAPS, for every value of the
constants that satisfies the named assumptions: `AddressAssumption`,
`AmountAssumption`, `ConfigAssumption` (what the ledger's constructor accepts),
`LimitAssumption`, `InputAssumption`, `RoleAssumption`, `EngineAssumption`,
`ProtocolAssumption`, `AdminAssumption`, `TimelockAssumption`,
`WatchAssumption`, `ScriptAssumption`, `LifetimeAssumption`, `TimelyAssumption`. TLC evaluates each of them for the
instances it checks.

**The vault alone** (`GuarantorVaultProofs`). `VaultInv` is inductive as it
stands: the types, the asserts of `save`, and that nothing is locked before
there is a ledger. Each entry point's effect on it is a lemma, which the
protocol's proof cites. `CollateralGoesWhereItMay` proves the action property:
a record loses collateral only with one transfer of that amount, to its
guarantor out of the free part or to the present settlement address out of the
locked part, and a step that changes one record, in any way, leaves every other
as it is (`OneRecordWritten`). `AlwaysSolvent` proves
`VaultSolvent`, an inequality between a balance and a sum over all guarantors:
a step changes one record and one balance by the same amount
(`RecordedChanges`), or the balance grows alone.

**Callbacks** (`VaultReentrancyProofs`). `CallbackInv` says that the lock is set
exactly while one call waits, that the stack is then that one call, and that
what `VaultInv` says of books holds of those it started from, and that these
differ from the present ones in the caller's record only, so that a rollback
restores both.
`GuardIsOneCall`, `SaveNeverAssertsInCallbacks`, `LockingNeedsALedgerInCallbacks`
and `CollateralGoesWhereItMayInCallbacks` follow. Solvency needs more, because a
deposit credits the difference of two balances read before and after the
callbacks, and a panic restores an old state: `WaitingBacked` adds that the
state a rollback would restore was solvent, and that the balance a deposit
found already covered the records as they are now, so that whatever arrived
since is free to be credited. `SolventInCallbacks` follows. Without the lock this
strengthening is not inductive, and the property does fail (the mutant of the
run `custody`).

**Arithmetic** (`ArithmeticProofs`). The floor of a quotient is characterised by
two inequalities (`DivisionRoundsDown`); all else follows by multiplying them
out. The lemmas the protocol needs: the LTV stays in its band; with an LTV of
at least 100% the collateral covers the principal; what is earned back grows
with what is repaid, stays below its proportional share and withholds the
buffer; what it leaves covers the debt.

The second half is about `SumFunctionOnSet`, which the community modules define
by recursion over a CHOOSE from the set. Induction over the set is out of the
prover's reach, so these lemmas take a minimal counterexample among the subsets
of a finite set in its place. `SumTakeOut`: the sum is any one member's value plus
the sum of the others. From it `SumSame`, `SumChange` (one value changed),
`SumWithOneMore`, `SumOfZeros`, `SumType` and `SumBoundsEach` (no summand of
naturals exceeds the sum).

**The protocol** (`RemitProofs`). The properties checked by TLC are not
inductive: that the debt is covered after one more repayment does not follow
from its being covered now, since a release is a *difference* of two rounded
values. The strengthening, `LoanInv`, is that everything mutable in an open
loan is a function of the total repaid: `collateral_released`,
`installments_paid` and `next_due` are the values of `Releasable`,
`InstallmentsCovered` and `NextDue` there (`ProgressInv`), over terms fixed at
origination (`TermsInv`), plus where it stands in time (`GraceInv`). `IInv` adds
the vault's invariant, the exactness of the markers and the disjointness of the
roles. One lemma per disjunct of `Next` shows that it preserves `IInv`
(`NextInv`). From `Invariance` follow

* `TypeCorrect`, `SaveNeverAssertsInProtocol`;
* `DebtAlwaysCovered`, `CurveFollowed`: the collateral arithmetic;
* `SchedulesAnchored`, `GraceOnlyWhenBehind`: the schedule;
* `MarkersExact`, `LtvAlwaysInBand`, `RolesAlwaysDisjoint`;
* `ClosingNeverOverflows`: nothing that closing a loan computes is out of range,
  given a floor of at least as many basis points as a loan has installments.
  The arithmetic half of `AlwaysRepayableInFull`;
* `ClosedIsFinal`, `RepaymentTakesBothRoles`, `OneFullGracePeriod`, action
  properties, by the list of all ways in which a step touches a loan
  (`EveryLoanStep`, `EveryStepIsSound`).

Its last section is about a loan's dates. An open loan is due within its term
(`DueWithinTerm`), and a payment moves the due date forward only
(`RepaidSchedule`). So two invariants last on conditions on the clock alone:
every missed installment is on record one tick after it was due (`Prompt`,
`PromptKept`), and the deadline of a loan in grace is one grace period after
its term at the latest (`EndsAhead`, `DeadlinesKept`). The two modules that fix a
schedule of the cranks show that it meets those conditions.

**What becomes of the collateral** (`EscrowProofs`). `CollateralSteps` sorts every
step of the protocol into six kinds: one that originates, repays or liquidates a
loan, that moves a guarantor's free collateral, that changes only a loan's
standing, and that touches no book. What each does to the vault's record, to the
tokens and to the loan, in terms of `Outstanding` and `Remaining`, is proved once
(`OriginationLocks`, `RepaymentMoves`, `LiquidationMoves`, ...) and used for all of:

* `ContractsImplementEscrow`, the refinement of `CollateralEscrow`, with `IInv` as
  its invariant: every action is one of the abstract steps or leaves free parts
  and escrows alone. The abstract specification has no pool, so one loan cannot
  consume another's collateral. What is seized from an escrow is what is owed, or
  all it holds when that is less, which with a floor of at least 100% it never is.
* `TwoBooksAgree` (`LockedBacksLoans`): each kind of step changes a guarantor's
  `locked_amount` and one summand of the ledger's book, `LockedFor` of one loan, by
  the same amount; the roundings cancel because both books are moved by the one
  difference that was rounded.
* `SolventInProtocol` (`VaultSolvent`), where the two vault calls of a liquidation
  are one step.
* `OwnDebtOnly` (`GuarantorLosesOwnDebtOnly`): what a guarantor has in tokens and
  collateral, plus the losses on its own defaulted loans, is never changed by
  any step (`WorthIsKept`). Here a liquidation's summand is `LossOn`, which is
  written with the total repaid and not with what was released;
  `ProgressInv` shows that it is what was seized.
* `LiquidationNeverRefused` (`LiquidationNeverStuck`) and `ClosingNeverRefused`
  (`AlwaysRepayableInFull`): `CanLiquidate` and `CanAttest` hold in every reachable
  state the two properties speak of. The reason is `LockIsThere`: one loan's lock is
  no more than the sum `TwoBooksAgree` equates with the vault's `locked_amount`,
  which is no more than the record, which is no more than the sum
  `SolventInProtocol` bounds by the vault's tokens. That the two predicates leave
  out nothing is shown by `LiquidationGuardsSuffice` and
  `AttestationGuardsSuffice`, which give the next state that the action then has.

The theorems about sums need finitely many guarantors: `AddressAssumption` says
so, as storage holds finitely many records.

**Admins** (`GovernanceProofs`, `GovernedProofs`). `GovernanceInv` relates each
scheduled action's `eta` to how long it has stood unaltered, and each proposal
to who was admin when it was made. `NoChangeWithoutTheFullDelay`,
`AdminCanAlwaysSign`, `OldProposalsDie`. Two theorems of `GovernedProofs` are
refinements: with signatures and timelocks the contracts do nothing that
`RemitProtocol` does not, and nothing outside timelock and handover changes an
admin, a schedule or the settlement address. So every theorem above holds of the
governed protocol; `GovernedUsersAreSafe` collects those that users rely on.

`FlagsAreOnTime` is about `TimelySpec`, from the state `deploy.sh` leaves
(`DeployedInv`): each step of that schedule, the council's included, is one of
`RemitProtocol`'s, and past `Patience` the clock moves only when no flag is due, as
there `CanFlag` is `Overdue` and nothing more. With `Prompt(Patience)` as the
invariant `RecordedOnTime` follows. It needs no fairness: it says not that
cranks come but that nothing can refuse them.

`HandoverLeavesNothingOut` is about the script, for any number of contracts and
failures. `ScriptInv` adds to the property that the address of a run is the
multisig or one that nobody can sign for, so that a mistyped run hands over
nothing; that the list of a retry names every contract that is left is a fact
about `Listings` (`ListingNamesAll`).

**Lifetimes** (`StorageProofs`). `LifetimesImplementProtocol`: archival and
restoring only ever take behaviours away, so every theorem of `RemitProofs` holds
with them. `UsedEntriesAreLive` is for every threshold, extension and initial
lifetime. Liveness of an entry is not inductive; `ClockInv` is: what is left to
an entry plus the time since its record changed exceeds the threshold. The clock
moves both by one, and renewals and restores only add.

`LoansEndInTime` is about `StorageSpec`. Once the deployment is complete
(`ReadyInv`) a crank that is due can run, by `LiquidationNeverRefused` and since no
deadline overflows, so the clock waits for it (`NothingDueAtATick`) and `Prompt(0)`
and `EndsAhead` last. A loan is then over by the end of its term, one grace
period and the two seconds of the strict comparisons. This is the safety
counterpart of `EveryLoanCloses`, which bounds no time.

**Only model-checked.** The liveness properties `OverdueIsRecorded`,
`EveryLoanCloses`, `LoansCloseDespiteArchival` and `HandoverCompletes`, which need
fairness and so ENABLED, which the prover does not know. Every invariant and
every action property of the passing runs is proved. The three properties
that runs refute, of course, have no theorem.

## 5. Not modelled

* **Events and getters.** No state-changing call reads them. The views that
  renew what they read are in `StorageLifetime` (`Look`).
* **The scripts' I/O**: building, uploading, the CLI, `attest.mjs`, the smoke
  test, setting up the multisig account and collecting signatures. The calls
  they make are modelled entry points; the signature checks below
  `require_auth` are the network's.
* **Test suites and CI**, read for what they state.
* **Clawback** by the token's issuer, which takes tokens from the vault that no
  call of the vault moved. No property of the contracts can survive it.
* **New code.** An upgrade is modelled as far as its announcement.
* **The lifetimes of governance calls and of the token's entries.** The former
  renew the instance only, as `InstanceCalls` do; the latter are not the
  contracts'.
* **A grace period near the largest u64.** The constructor accepts it, and no
  loan could then be flagged, because the deadline overflows (L 576). The guard is
  in `CanMarkGrace`. No document promises anything for such a configuration, and
  no property covers it:
  `RecordedOnTime` and `EveryLoanEndsInTime` have its absence as their premise, and
  show that it is the only one.
* **Re-entry in the composition.** The host refuses it before the vault's lock
  would, so the composed modules keep transactions atomic, and
  `VaultReentrancy` shows what the lock is worth alone.
