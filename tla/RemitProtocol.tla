---------------------------- MODULE RemitProtocol ----------------------------
(***************************************************************************)
(* The three contracts, their users and the ledger clock.                  *)
(***************************************************************************)
EXTENDS LiquidationEngine

CONSTANT MaxTime \* bound on the ledger clock

ASSUME ProtocolAssumption ==
    /\ MaxTime \in Nat
    /\ {LedgerAddr, EngineAddr} \subseteq Contracts

vars == <<vaultVars, ledgerVars, isPaused>>

\* The constructors have run and nothing is wired.
Init == VaultInit /\ LedgerInit /\ EngineInit

\* The state deploy.sh leaves: everything wired, with the first oracle,
\* partner and verifier.
Deployed(firstPartner, firstVerifier, firstOracle) ==
    /\ vaults = [g \in Guarantors |-> EmptyVault]
    /\ usdc = [a \in Accounts |-> IF a \in Guarantors THEN Supply ELSE 0]
    /\ vaultLoanLedger = LedgerAddr
    /\ vaultEngine = EngineAddr
    /\ settlement = FirstSettlement
    /\ frozen = {}
    /\ loans = <<>>
    /\ openLoan = [pair \in Guarantors \X Beneficiaries |-> 0]
    /\ reputation = [b \in Beneficiaries |-> 0]
    /\ partners = {firstPartner}
    /\ verifiers = {firstVerifier}
    /\ oracle = firstOracle
    /\ ledgerEngine = EngineAddr
    /\ now = 0
    /\ isPaused = FALSE

-----------------------------------------------------------------------------
\* The steps of each kind of user.

WireVault ==
    /\ SetLoanLedger(LedgerAddr) \/ SetVaultEngine(EngineAddr)
    /\ UNCHANGED <<ledgerVars, isPaused>>

WireLedger ==
    /\ SetLedgerEngine(EngineAddr)
    /\ UNCHANGED <<vaultVars, isPaused>>

ManageRoles ==
    /\ \/ \E a \in Agents : SetOracle(a)
       \/ \E a \in Agents, authorized \in BOOLEAN :
             SetPartner(a, authorized) \/ SetVerifier(a, authorized)
       \/ \E id \in LoanIds, a \in Agents : ReassignPartner(id, a)
    /\ UNCHANGED <<vaultVars, isPaused>>

PauseEngine == (Pause \/ Unpause) /\ UNCHANGED <<vaultVars, ledgerVars>>

PublishScore ==
    /\ \E a \in Agents, b \in Beneficiaries, score \in Scores :
          SetReputation(a, b, score)
    /\ UNCHANGED <<vaultVars, isPaused>>

\* (USDC sent to the vault's address without a deposit is GuarantorVault's.)
UseVault ==
    /\ \E g \in Guarantors, amount \in Amounts, fee \in Fees :
          \/ Deposit(g, amount, fee)
          \/ Withdraw(g, amount, fee)
    /\ UNCHANGED <<ledgerVars, isPaused>>

OpenLoan ==
    /\ \E g \in Guarantors, b \in Beneficiaries, a \in Agents,
          principal \in Principals, count \in InstallmentCounts,
          interval \in Intervals :
             Originate(g, b, a, principal, count, interval)
    /\ UNCHANGED isPaused

Repay ==
    /\ \E p, v \in Agents, id \in LoanIds, amount \in Amounts :
          AttestRepayment(p, v, id, amount)
    /\ UNCHANGED isPaused

Crank ==
    \E id \in LoanIds :
        \/ FlagOverdue(id)
        \/ \E fee \in Fees : Liquidate(id, fee) \/ Poke(id, fee)

\* Someone could record something now.
CanCrank ==
    \E id \in LoanIds : CanFlag(id) \/ \E fee \in Fees : CanLiquidate(id, fee)

Tick ==
    /\ now < MaxTime
    /\ now' = now + 1
    /\ UNCHANGED <<vaultVars, loans, openLoan, reputation, roles, ledgerEngine, isPaused>>

\* The admin's timelocked change, at any time: Governance adds the guard.
ChangeSettlement ==
    /\ \E a \in Settlements : SetSettlement(a)
    /\ UNCHANGED <<ledgerVars, isPaused>>

\* The issuer and the account holders, outside the protocol.
ChangeStanding ==
    /\ \E a \in MayFreeze : TokenStanding(a)
    /\ UNCHANGED <<ledgerVars, isPaused>>

\* Everything but the admin's and the oracle's own steps.
UserNext == UseVault \/ OpenLoan \/ Repay \/ Crank \/ Tick

Next == \/ UserNext \/ WireVault \/ WireLedger \/ ManageRoles \/ PauseEngine
        \/ PublishScore \/ ChangeSettlement \/ ChangeStanding

Spec == Init /\ [][Next]_vars

=============================================================================
