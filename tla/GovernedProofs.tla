--------------------------- MODULE GovernedProofs ---------------------------
(***************************************************************************)
(* The protocol under its admins implements RemitProtocol, whatever its    *)
(* theorems say of any admin, and the admin side watched on its own.  Then *)
(* RemitLiveness: what its users, who crank in time, can count on.         *)
(***************************************************************************)
EXTENDS RemitLiveness, EscrowProofs

\* What the two refinements need to know of the state: an action in a slot is
\* one of its contract's, and the history variables are functions.
SlotInv ==
    /\ \A c \in Governed : scheduled[c] # None =>
          scheduled[c].action \in Gov!Action(c)
    /\ scheduled = [c \in Governed |-> scheduled[c]]
    /\ standsSince = [c \in Governed |-> standsSince[c]]
    /\ proposer = [c \in Governed |-> proposer[c]]
    /\ now \in Nat

\* What a step of the admin side does to the slots, the settlement address
\* and the clock.
LEMMA AdminStep ==
    ASSUME SlotInv, AdminSide
    PROVE  /\ SlotInv'
           /\ now' = now
           /\ \/ settlement' = settlement
              \/ settlement' \in Settlements
<1>1. PICK c \in Governed : Gov!Timelocked(c) \/ Gov!Handover(c)
  BY DEF AdminSide, AdminSideOnly, Gov!AdminNext
<1>2. /\ standsSince' = [d \in Governed |-> standsSince'[d]]
      /\ proposer' = [d \in Governed |-> proposer'[d]]
  BY DEF AdminSide, AdminSideOnly, Gov!Watch
<1>3. CASE \E caller \in Addresses, action \in Gov!Action(c) :
              Gov!ScheduleAction(c, caller, action)
  BY <1>1, <1>2, <1>3 DEF SlotInv, Gov!ScheduleAction
<1>4. CASE \E caller \in Addresses : Gov!ExecuteAction(c, caller)
  <2>1. scheduled[c] # None /\ scheduled[c].action \in Gov!Action(c)
    BY <1>1, <1>4 DEF SlotInv, Gov!ExecuteAction
  <2>2. \/ settlement' = settlement
        \/ settlement' \in Settlements
    BY <1>4, <2>1 DEF Gov!ExecuteAction, Gov!Action, Gov!UpgradeActions, Gov!Upgrade, Gov!SetSettlement
  <2> QED
    BY <1>1, <1>2, <1>4, <2>2 DEF SlotInv, Gov!ExecuteAction
<1>5. CASE \E caller \in Addresses : Gov!CancelAction(c, caller)
  BY <1>1, <1>2, <1>5 DEF SlotInv, Gov!CancelAction
<1>6. CASE Gov!Handover(c)
  BY <1>1, <1>2, <1>6 DEF SlotInv, Gov!Handover, Gov!ProposeAdmin, Gov!AcceptAdmin
<1> QED
  BY <1>1, <1>3, <1>4, <1>5, <1>6 DEF Gov!Timelocked

\* No step of the protocol proper moves the settlement address, and only Tick
\* moves the clock.
LEMMA ProtocolStep ==
    ASSUME UserNext \/ AdminCalls \/ PublishScore \/ ChangeStanding
    PROVE  settlement' = settlement /\ (Tick \/ now' = now)
<1>1. CASE UseVault
  BY <1>1 DEF UseVault, Deposit, Withdraw, vaultWiring, ledgerVars
<1>2. CASE OpenLoan
  BY <1>2 DEF OpenLoan, Originate, LockCollateral, vaultWiring
<1>3. CASE Repay
  BY <1>3 DEF Repay, AttestRepayment, ReleaseCollateral, vaultWiring, vaultVars
<1>4. CASE Crank
  BY <1>4 DEF Crank, FlagOverdue, Liquidate, Poke, MarkGrace, MarkDefaulted,
              vaultWiring, vaultVars
<1>5. CASE Tick
  BY <1>5 DEF Tick, vaultVars
<1>6. CASE AdminCalls
  BY <1>6 DEF AdminCalls, WireVault, WireLedger, SetLoanLedger, SetVaultEngine,
              SetLedgerEngine, ManageRoles, SetOracle, SetPartner, SetVerifier,
              ReassignPartner, PauseEngine, vaultVars, ledgerVars
<1>7. CASE PublishScore
  BY <1>7 DEF PublishScore, SetReputation, vaultVars
<1>8. CASE ChangeStanding
  BY <1>8 DEF ChangeStanding, TokenStanding, ledgerVars
<1> QED
  BY <1>1, <1>2, <1>3, <1>4, <1>5, <1>6, <1>7, <1>8 DEF UserNext

LEMMA SlotInvariance == GovernedSpec => []SlotInv
<1>1. GovernedInit => SlotInv
  BY DEF GovernedInit, Init, LedgerInit, Gov!GovernanceInit, SlotInv
<1>2. SlotInv /\ [GovernedNext]_governedVars => SlotInv'
  <2> SUFFICES ASSUME SlotInv, [GovernedNext]_governedVars PROVE SlotInv'
    OBVIOUS
  <2>1. CASE AdminSide
    BY <2>1, AdminStep
  <2>2. CASE /\ UserNext \/ AdminCalls \/ PublishScore \/ ChangeStanding
             /\ UNCHANGED adminSide
    <3>1. now' \in Nat
      BY <2>2, ProtocolStep DEF SlotInv, Tick
    <3> QED
      BY <2>2, <3>1 DEF SlotInv, adminSide, Gov!Action
  <2>3. CASE UNCHANGED governedVars
    BY <2>3 DEF governedVars, adminSide, vars, ledgerVars, SlotInv, Gov!Action
  <2> QED
    BY <2>1, <2>2, <2>3 DEF GovernedNext
<1> QED
  BY <1>1, <1>2, PTL DEF GovernedSpec

\* To RemitProtocol the admin side changes the settlement address or nothing.
LEMMA AdminSideStep ==
    ASSUME SlotInv, AdminSide
    PROVE  [Next]_vars
<1>1. CASE settlement' = settlement
  BY <1>1, AdminStep
     DEF AdminSide, AdminSideOnly, vars, vaultVars, custody, ledgerVars, roles
<1>2. CASE settlement' \in Settlements
  BY <1>2, AdminStep
     DEF AdminSide, AdminSideOnly, Next, ChangeSettlement, SetSettlement, ledgerVars, roles
<1> QED
  BY <1>1, <1>2, AdminStep

\* Under its admins' signatures and timelocks the protocol does nothing that
\* RemitProtocol does not: the theorems about Spec carry over.
THEOREM GovernedImplementsProtocol == GovernedSpec => ImplementsProtocol
<1>1. GovernedInit => Init
  BY DEF GovernedInit
<1>2. SlotInv /\ [GovernedNext]_governedVars => [Next]_vars
  <2> SUFFICES ASSUME SlotInv, GovernedNext PROVE [Next]_vars
    BY DEF governedVars
  <2>1. CASE AdminSide
    BY <2>1, AdminSideStep
  <2>2. CASE AdminCalls
    BY <2>2 DEF AdminCalls, Next
  <2> QED
    BY <2>1, <2>2 DEF GovernedNext, Next
<1> QED
  BY <1>1, <1>2, SlotInvariance, PTL DEF GovernedSpec, ImplementsProtocol, Spec

\* So what the users of the contracts rely on holds under the admins as they
\* are: liquidation covers the debt, the vault can pay, the two contracts'
\* books agree, a guarantor pays for its own defaults only, and nothing but
\* the pause, the token and the roles refuses a liquidation or a closing.
THEOREM GovernedUsersAreSafe ==
    GovernedSpec => [](/\ OutstandingCovered /\ VaultSolvent /\ LockedBacksLoans
                       /\ GuarantorLosesOwnDebtOnly
                       /\ LiquidationNeverStuck /\ AlwaysRepayableInFull)
<1>1. GovernedSpec => Spec
  BY GovernedImplementsProtocol DEF ImplementsProtocol
<1> QED
  BY <1>1, DebtAlwaysCovered, SolventInProtocol, TwoBooksAgree, OwnDebtOnly,
     LiquidationNeverRefused, ClosingNeverRefused, PTL

\* Nothing the protocol's users, oracle or admins do apart from the timelock
\* and the handover touches what those two promise: the settlement address
\* has no other way to change.
THEOREM GovernedImplementsGovernance == GovernedSpec => ImplementsGovernance
<1>1. GovernedInit => Gov!WatchedInit
  BY DEF GovernedInit, Init, VaultInit, LedgerInit, Gov!WatchedInit
<1>2. SlotInv /\ [GovernedNext]_governedVars => [Gov!WatchedNext]_(Gov!watched)
  <2> SUFFICES ASSUME SlotInv, GovernedNext
               PROVE  [Gov!WatchedNext]_(Gov!watched)
    BY DEF governedVars, adminSide, vars, vaultVars, ledgerVars, Gov!watched,
           Gov!governanceVars, Gov!adminVars
  <2>1. CASE AdminSide
    BY <2>1 DEF AdminSide, Gov!WatchedNext
  <2>2. CASE /\ UserNext \/ AdminCalls \/ PublishScore \/ ChangeStanding
             /\ UNCHANGED adminSide
    <3>1. CASE now' = now
      BY <2>2, <3>1, ProtocolStep
         DEF adminSide, Gov!watched, Gov!governanceVars, Gov!adminVars
    <3>2. CASE Tick
      <4>1. Gov!Tick
        BY <2>2, <3>2, ProtocolStep DEF Tick, adminSide, Gov!Tick, Gov!adminVars
      <4>2. \A c \in Governed : ~Gov!Proposing(c)
        BY <3>2 DEF Tick, SlotInv, Gov!Proposing, Gov!ProposeAdmin
      <4>3. Gov!Watch
        BY <2>2, <4>2 DEF adminSide, SlotInv, Gov!Watch
      <4> QED
        BY <4>1, <4>3 DEF Gov!WatchedNext
    <3> QED
      BY <2>2, <3>1, <3>2, ProtocolStep
  <2> QED
    BY <2>1, <2>2 DEF GovernedNext
<1> QED
  BY <1>1, <1>2, SlotInvariance, PTL
     DEF GovernedSpec, ImplementsGovernance, Gov!WatchedSpec

-----------------------------------------------------------------------------
\* From the deployment on, cranked in time.

\* deploy.sh leaves the protocol consistent, given different keys for the
\* first partner and the first verifier.
LEMMA DeployedInv ==
    ASSUME NEW p \in Agents, NEW v \in Agents, NEW o \in Agents, p # v,
           Deployed(p, v, o)
    PROVE  IInv
<1>1. VaultInv
  BY AmountAssumption, AddressAssumption, ProtocolAssumption, EngineAssumption,
     RoleAssumption
     DEF Deployed, VaultInv, VaultTypeOK, SaveAssertionsHold,
         NothingLockedBeforeTheLedger, Vault, EmptyVault, Accounts
<1>2. LedgerInv
  <2>1. loans = <<>> /\ loans \in Seq(Loan) /\ LoanIds = {}
    BY DEF Deployed, LoanIds
  <2> QED
    BY <2>1 DEF Deployed, LedgerInv, OpenMarkerExact
<1>3. RoleInv
  <2>1. reputation \in [Beneficiaries -> 0 .. BPS]
    BY DEF Deployed, BPS
  <2>2. partners \cap verifiers = {}
    BY DEF Deployed
  <2> QED
    BY <2>1, <2>2 DEF Deployed, RoleInv, RolesDisjoint
<1> QED
  BY <1>1, <1>2, <1>3 DEF IInv

\* The council's answer to a refusing account, and an upgrade, are steps of
\* the admin side.
LEMMA CouncilStep ==
    ASSUME Repair \/ ScheduleUpgrade
    PROVE  AdminSide
<1>1. VaultAddr \in Governed
  BY DEF Governed
<1>2. CASE Repair
  <2>1. PICK member \in Addresses :
           \/ Gov!CancelAction(VaultAddr, member)
           \/ \E action \in Replacements :
                 Gov!ScheduleAction(VaultAddr, member, action)
           \/ Gov!ExecuteAction(VaultAddr, member)
    BY <1>2 DEF Repair
  <2>2. Replacements \subseteq Gov!Action(VaultAddr)
    BY DEF Replacements, Gov!Action
  <2>3. Gov!Timelocked(VaultAddr)
    BY <2>1, <2>2 DEF Gov!Timelocked
  <2> QED
    BY <1>1, <1>2, <2>3 DEF Repair, AdminSide, Gov!AdminNext
<1>3. CASE ScheduleUpgrade
  <2>1. Gov!UpgradeActions \subseteq Gov!Action(VaultAddr)
    BY DEF Gov!Action
  <2>2. Gov!Timelocked(VaultAddr)
    BY <1>3, <2>1 DEF ScheduleUpgrade, Gov!Timelocked
  <2> QED
    BY <1>1, <1>3, <2>2 DEF ScheduleUpgrade, AdminSide, Gov!AdminNext
<1> QED
  BY <1>2, <1>3

\* A step of the schedule is one of the protocol's, leaves the engine wired,
\* and moves the clock only when that is due.
LEMMA TimelyStep ==
    ASSUME SlotInv, [TimelyNext]_governedVars
    PROVE  /\ [Next]_vars /\ SlotInv'
           /\ ledgerEngine' = ledgerEngine
           /\ now' = now \/ TimelyTick
<1>1. CASE Repair \/ ScheduleUpgrade
  <2>1. AdminSide
    BY <1>1, CouncilStep
  <2> QED
    BY <2>1, AdminStep, AdminSideStep DEF AdminSide, AdminSideOnly
<1>2. CASE Users /\ UNCHANGED adminSide
  <2>1. [Next]_vars
    BY <1>2 DEF Users, TimelyTick, Next, UserNext
  <2>2. ledgerEngine' = ledgerEngine /\ (now' = now \/ TimelyTick)
    <3>1. CASE UseVault
      BY <3>1 DEF UseVault, ledgerVars
    <3>2. CASE OpenLoan
      BY <3>2 DEF OpenLoan, Originate
    <3>3. CASE ChangeStanding
      BY <3>3 DEF ChangeStanding, ledgerVars
    <3>4. CASE Repay
      BY <3>4 DEF Repay, AttestRepayment
    <3>5. CASE Crank
      BY <3>5 DEF Crank, FlagOverdue, Liquidate, Poke, MarkGrace, MarkDefaulted
    <3>6. CASE TimelyTick
      BY <3>6 DEF TimelyTick, Tick
    <3>7. CASE PauseEngine
      BY <3>7 DEF PauseEngine, ledgerVars
    <3> QED
      BY <1>2, <3>1, <3>2, <3>3, <3>4, <3>5, <3>6, <3>7 DEF Users
  <2>3. now' \in Nat
    BY <2>2 DEF SlotInv, TimelyTick, Tick
  <2> QED
    BY <1>2, <2>1, <2>2, <2>3 DEF SlotInv, adminSide, Gov!Action
<1>3. CASE UNCHANGED governedVars
  BY <1>3 DEF governedVars, adminSide, vars, ledgerVars, SlotInv, Gov!Action
<1> QED
  BY <1>1, <1>2, <1>3 DEF TimelyNext

\* A missed installment is on record within the second after its due date:
\* nothing but a pause, which the schedule ends by Patience, and an addition
\* that overflows can refuse the flag, and no payment makes a loan late that
\* was not.
THEOREM FlagsAreOnTime == TimelySpec => []RecordedOnTime
<1> DEFINE Fits  == MaxTime + GracePeriod <= MaxU64
           TInv  == /\ IInv /\ SlotInv /\ ledgerEngine = EngineAddr
                    /\ Fits => Prompt(Patience)
<1>1. TimelyInit => TInv
  <2> SUFFICES ASSUME TimelyInit PROVE TInv
    OBVIOUS
  <2>1. IInv
    BY DeployedInv, TimelyAssumption DEF TimelyInit
  <2>2. SlotInv
    BY DEF TimelyInit, Deployed, Gov!GovernanceInit, SlotInv
  <2>3. LoanIds = {} /\ ledgerEngine = EngineAddr
    BY DEF TimelyInit, Deployed, LoanIds
  <2> QED
    BY <2>1, <2>2, <2>3 DEF Prompt
<1>2. TInv /\ [TimelyNext]_governedVars => TInv'
  <2> SUFFICES ASSUME TInv, [TimelyNext]_governedVars PROVE TInv'
    OBVIOUS
  <2>1. /\ [Next]_vars /\ SlotInv' /\ ledgerEngine' = ledgerEngine
        /\ now' = now \/ TimelyTick
    BY TimelyStep
  <2>2. IInv'
    BY <2>1, NextInv
  <2>3. ASSUME Fits PROVE Prompt(Patience)'
    <3>1. ASSUME Tick, ~(now < Patience), NEW id \in LoanIds PROVE ~Overdue(id)
      <4>1. now \in Nat /\ Patience \in Nat /\ MaxTime \in Nat
            /\ GracePeriod \in Nat /\ MaxU64 \in Nat
        BY TimelyAssumption, ProtocolAssumption, ConfigAssumption, InputAssumption
           DEF SlotInv
      <4>2. now < MaxTime /\ now' = now + 1
        BY <3>1 DEF Tick
      <4>3. ~CanCrank /\ ~isPaused
        BY <2>1, <3>1, <4>1, <4>2 DEF TimelyTick
      <4>4. now + GracePeriod <= MaxU64
        BY <2>3, <4>1, <4>2
      <4>5. IsRegisteredEngine(EngineAddr)
        BY EngineAssumption DEF IsRegisteredEngine
      <4> QED
        BY <4>3, <4>4, <4>5 DEF CanCrank, CanFlag, CanMarkGrace
    <3> QED
      BY <2>1, <2>3, <3>1, PromptKept, TimelyAssumption
  <2> QED
    BY <2>1, <2>2, <2>3
<1>3. TInv => RecordedOnTime
  <2> SUFFICES ASSUME IInv, Prompt(Patience), NEW id \in LoanIds, Overdue(id)
               PROVE  now <= Patience \/ now = loans[id].next_due + 1
    BY DEF RecordedOnTime
  <2>1. now \in Nat /\ loans[id].next_due \in Nat
    BY LoanIsTyped DEF IInv, LedgerInv, Loan
  <2>2. now > loans[id].next_due
        /\ (now <= Patience \/ now <= loans[id].next_due + 1)
    BY DEF Overdue, Prompt
  <2> QED
    BY <2>1, <2>2
<1> HIDE DEF TInv
<1>4. TimelySpec => TimelyInit /\ [][TimelyNext]_governedVars
  BY PTL DEF TimelySpec
<1> QED
  BY <1>1, <1>2, <1>3, <1>4, PTL

=============================================================================
