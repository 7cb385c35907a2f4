-------------------------- MODULE GovernedProtocol --------------------------
(***************************************************************************)
(* The protocol under its admins: what RemitProtocol lets the admin do at  *)
(* any moment now takes the signature of the contract's present admin, and *)
(* the settlement address changes only through the vault's timelock.       *)
(*                                                                         *)
(* An upgrade keeps address and storage; the new code is taken to behave   *)
(* like the old one, as nothing can be said of code not yet written.       *)
(***************************************************************************)
EXTENDS RemitProperties

CONSTANTS Addresses, Holders, FirstAdmin, Codes, Uploaded, FirstCode,
          TimelockSecs

VARIABLES admin, pendingAdmin, scheduled, code, \* the admin side's storage
          standsSince, proposer                 \* and its history variables

Governed == {VaultAddr, LedgerAddr, EngineAddr}

Gov == INSTANCE GovernanceProperties

adminSide == <<admin, pendingAdmin, scheduled, code, standsSince, proposer>>
governedVars == <<vars, adminSide>>

GovernedInit ==
    /\ Init
    /\ Gov!GovernanceInit
    /\ standsSince = [c \in Governed |-> 0]
    /\ proposer = [c \in Governed |-> FirstAdmin]

\* The present admin of the contract signs.
Signed(c) == Gov!IsAdmin(c, admin[c])

\* The admins' instant powers.
AdminCalls ==
    \/ Signed(VaultAddr) /\ WireVault
    \/ Signed(LedgerAddr) /\ (ManageRoles \/ WireLedger)
    \/ Signed(EngineAddr) /\ PauseEngine

\* All but the admins' storage and the settlement address they may change.
AdminSideOnly ==
    UNCHANGED <<custody, vaultLoanLedger, vaultEngine, frozen, loans,
                openLoan, reputation, roles, ledgerEngine, isPaused>>

\* Handovers and timelocked actions, executed ones included.
AdminSide ==
    /\ Gov!AdminNext
    /\ Gov!Watch
    /\ AdminSideOnly

GovernedNext ==
    \/ (UserNext \/ AdminCalls \/ PublishScore \/ ChangeStanding)
          /\ UNCHANGED adminSide
    \/ AdminSide

GovernedSpec == GovernedInit /\ [][GovernedNext]_governedVars

-----------------------------------------------------------------------------
\* The composition implements both of its parts.

\* Every behaviour of the governed protocol is one of RemitProtocol, so
\* whatever holds there under any admin and any settlement change holds here.
ImplementsProtocol == Spec

\* And one of the admin side watched on its own: no step of the protocol
\* changes an admin, a proposal, a scheduled action or the settlement address.
ImplementsGovernance == Gov!WatchedSpec

=============================================================================
