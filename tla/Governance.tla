----------------------------- MODULE Governance -----------------------------
(***************************************************************************)
(* The admin side the three contracts share, each with storage of its own: *)
(* a two-step handover of the admin role, and actions that wait out a      *)
(* timelock.  schedule_action, execute_action, cancel_action,              *)
(* propose_admin and accept_admin are the same code in guarantor_vault,    *)
(* loan_ledger and liquidation_engine, but for SetSettlement, which only   *)
(* the vault has.  The storage of contract c is the value at c of each     *)
(* variable.                                                               *)
(***************************************************************************)
EXTENDS Integers

CONSTANTS
    Governed,     \* the contracts
    VaultAddr,    \* the one with a settlement address
    Addresses,    \* addresses that may be named as admin
    Holders,      \* those somebody can sign for
    FirstAdmin,   \* the deploying key
    Codes,        \* hashes that an upgrade may name
    Uploaded,     \* those of code that is on the network
    FirstCode,
    Settlements, FirstSettlement,
    TimelockSecs, \* DataKey::TimelockSecs, fixed by the constructor
    MaxU64,       \* the largest u64
    None          \* an instance-storage key that is not set

ASSUME AdminAssumption ==
    /\ VaultAddr \in Governed
    /\ Holders \subseteq Addresses /\ FirstAdmin \in Holders
    /\ None \notin Addresses
ASSUME TimelockAssumption ==
    /\ TimelockSecs \in Nat /\ MaxU64 \in Nat
    /\ FirstCode \in Uploaded /\ Uploaded \subseteq Codes
    /\ FirstSettlement \in Settlements

VARIABLES
    admin,        \* DataKey::Admin
    pendingAdmin, \* DataKey::PendingAdmin
    scheduled,    \* DataKey::Scheduled
    code,         \* the contract's wasm
    settlement,   \* DataKey::SettlementAddress of the vault
    now           \* the ledger timestamp

adminVars == <<admin, pendingAdmin, scheduled, code>>
governanceVars == <<adminVars, settlement, now>>

Upgrade(hash) == [kind |-> "Upgrade", hash |-> hash]
SetSettlement(a) == [kind |-> "SetSettlement", to |-> a]

\* The Action enums: the same in ledger and engine, the vault's has one more.
UpgradeActions == {Upgrade(hash) : hash \in Codes}
Action(c) ==
    UpgradeActions
        \cup (IF c = VaultAddr THEN {SetSettlement(a) : a \in Settlements} ELSE {})

\* The constructors have run.
GovernanceInit ==
    /\ admin = [c \in Governed |-> FirstAdmin]
    /\ pendingAdmin = [c \in Governed |-> None]
    /\ scheduled = [c \in Governed |-> None]
    /\ code = [c \in Governed |-> FirstCode]

\* What require_admin lets through: a signature, and of the present admin.
IsAdmin(c, caller) == caller \in Holders /\ caller = admin[c]

-----------------------------------------------------------------------------
\* Timelocked actions.

\* Mutant: a second action takes the place, and the eta, of the first.
ScheduleOver(c, caller, action) ==
    /\ IsAdmin(c, caller)
    /\ now + TimelockSecs <= MaxU64
    /\ scheduled' = [scheduled EXCEPT ![c] =
           [action |-> action,
            eta |-> IF @ = None THEN now + TimelockSecs ELSE @.eta]]
    /\ UNCHANGED <<admin, pendingAdmin, code, settlement, now>>

\* Mutant: the eta is not checked.
ScheduleUnchecked(c, caller, action) ==
    /\ IsAdmin(c, caller)
    /\ scheduled[c] = None
    /\ scheduled' = [scheduled EXCEPT ![c] =
                        [action |-> action, eta |-> now + TimelockSecs]]
    /\ UNCHANGED <<admin, pendingAdmin, code, settlement, now>>

ScheduleAction(c, caller, action) ==
    /\ IsAdmin(c, caller)
    /\ scheduled[c] = None
    /\ now + TimelockSecs <= MaxU64
    /\ scheduled' = [scheduled EXCEPT ![c] =
                        [action |-> action, eta |-> now + TimelockSecs]]
    /\ UNCHANGED <<admin, pendingAdmin, code, settlement, now>>

\* The host refuses an upgrade to a hash it has no code for, and with it the
\* removal of what is scheduled: it stays until it is cancelled.
ExecuteAction(c, caller) ==
    /\ IsAdmin(c, caller)
    /\ scheduled[c] # None
    /\ now >= scheduled[c].eta
    /\ scheduled' = [scheduled EXCEPT ![c] = None]
    /\ LET action == scheduled[c].action
       IN  IF action.kind = "Upgrade"
           THEN /\ action.hash \in Uploaded
                /\ code' = [code EXCEPT ![c] = action.hash]
                /\ UNCHANGED settlement
           ELSE /\ settlement' = action.to
                /\ UNCHANGED code
    /\ UNCHANGED <<admin, pendingAdmin, now>>

\* Mutant: too late once the timelock has elapsed.
CancelInTime(c, caller) ==
    /\ IsAdmin(c, caller)
    /\ scheduled[c] # None
    /\ now < scheduled[c].eta
    /\ scheduled' = [scheduled EXCEPT ![c] = None]
    /\ UNCHANGED <<admin, pendingAdmin, code, settlement, now>>

CancelAction(c, caller) ==
    /\ IsAdmin(c, caller)
    /\ scheduled[c] # None
    /\ scheduled' = [scheduled EXCEPT ![c] = None]
    /\ UNCHANGED <<admin, pendingAdmin, code, settlement, now>>

-----------------------------------------------------------------------------
\* Handover.

\* Mutant: one proposal at a time.
ProposeOnce(c, caller, newAdmin) ==
    /\ IsAdmin(c, caller)
    /\ pendingAdmin[c] = None
    /\ pendingAdmin' = [pendingAdmin EXCEPT ![c] = newAdmin]
    /\ UNCHANGED <<admin, scheduled, code, settlement, now>>

\* A later proposal takes the place of an earlier one.
ProposeAdmin(c, caller, newAdmin) ==
    /\ IsAdmin(c, caller)
    /\ pendingAdmin' = [pendingAdmin EXCEPT ![c] = newAdmin]
    /\ UNCHANGED <<admin, scheduled, code, settlement, now>>

\* Mutants: nobody signs for the new admin; the proposal outlives it.
AcceptUnsigned(c, newAdmin) ==
    /\ newAdmin = pendingAdmin[c]
    /\ admin' = [admin EXCEPT ![c] = newAdmin]
    /\ pendingAdmin' = [pendingAdmin EXCEPT ![c] = None]
    /\ UNCHANGED <<scheduled, code, settlement, now>>
AcceptAndKeep(c, newAdmin) ==
    /\ newAdmin \in Holders
    /\ newAdmin = pendingAdmin[c]
    /\ admin' = [admin EXCEPT ![c] = newAdmin]
    /\ UNCHANGED <<pendingAdmin, scheduled, code, settlement, now>>

\* A scheduled action stays as it is: the new admin inherits it.
AcceptAdmin(c, newAdmin) ==
    /\ newAdmin \in Holders
    /\ newAdmin = pendingAdmin[c]
    /\ admin' = [admin EXCEPT ![c] = newAdmin]
    /\ pendingAdmin' = [pendingAdmin EXCEPT ![c] = None]
    /\ UNCHANGED <<scheduled, code, settlement, now>>

-----------------------------------------------------------------------------

Timelocked(c) ==
    \E caller \in Addresses :
        \/ \E action \in Action(c) : ScheduleAction(c, caller, action)
        \/ ExecuteAction(c, caller)
        \/ CancelAction(c, caller)

Handover(c) ==
    \E newAdmin \in Addresses :
        \/ \E caller \in Addresses : ProposeAdmin(c, caller, newAdmin)
        \/ AcceptAdmin(c, newAdmin)

AdminNext == \E c \in Governed : Timelocked(c) \/ Handover(c)

=============================================================================
