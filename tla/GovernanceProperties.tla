------------------------ MODULE GovernanceProperties ------------------------
(***************************************************************************)
(* What the timelock and the two-step handover promise, seen by someone    *)
(* who watches get_scheduled_action and the proposals: two history         *)
(* variables remember since when the scheduled action has stood as it is,  *)
(* and who proposed the pending admin.  No step reads them.                *)
(***************************************************************************)
EXTENDS Governance

CONSTANT MaxTime \* bound on the ledger clock

ASSUME WatchAssumption == MaxTime \in Nat

VARIABLES standsSince, \* when scheduled[c] last changed
          proposer     \* admin[c] when pendingAdmin[c] was last proposed

watched == <<governanceVars, standsSince, proposer>>

\* One more second on the ledger clock.
Tick == now < MaxTime /\ now' = now + 1 /\ UNCHANGED <<adminVars, settlement>>

\* A propose_admin call; the same address may be proposed again.
Proposing(c) ==
    \E caller, newAdmin \in Addresses : ProposeAdmin(c, caller, newAdmin)

Watch ==
    /\ standsSince' = [c \in Governed |->
           IF scheduled'[c] = scheduled[c] THEN standsSince[c] ELSE now]
    /\ proposer' = [c \in Governed |->
           IF Proposing(c) THEN admin[c] ELSE proposer[c]]

WatchedInit ==
    /\ GovernanceInit
    /\ settlement = FirstSettlement
    /\ now = 0
    /\ standsSince = [c \in Governed |-> 0]
    /\ proposer = [c \in Governed |-> FirstAdmin]

WatchedNext == (AdminNext \/ Tick) /\ Watch

WatchedSpec == WatchedInit /\ [][WatchedNext]_watched

-----------------------------------------------------------------------------

\* The ScheduledAction struct of each contract.
Scheduled(c) == [action : Action(c), eta : 0 .. MaxU64]

\* Every variable has the type of its storage entry, and the contracts run
\* code that is there.
GovernanceTypeOK ==
    /\ admin \in [Governed -> Addresses]
    /\ pendingAdmin \in [Governed -> Addresses \cup {None}]
    /\ scheduled = [c \in Governed |-> scheduled[c]]
    /\ \A c \in Governed : scheduled[c] \in Scheduled(c) \cup {None}
    /\ code \in [Governed -> Uploaded]
    /\ settlement \in Settlements
    /\ now \in Nat

\* "guarantors and the admin's other signers see every such change coming"
\* (guarantor_vault lib.rs 175-177): code and settlement address change only
\* to what has stood scheduled, unaltered and without a break, for the whole
\* timelock, through whatever cancellations, reschedulings and handovers came
\* before; and what has run must be announced anew to run again.
EveryChangeWasSeenComing ==
    [][\A c \in Governed :
         LET stood(action) ==
               /\ scheduled[c] # None
               /\ scheduled[c].action = action
               /\ now >= standsSince[c] + TimelockSecs
               /\ scheduled'[c] = None
         IN  /\ code'[c] # code[c] => stood(Upgrade(code'[c]))
             /\ c = VaultAddr /\ settlement' # settlement =>
                   stood(SetSettlement(settlement'))]_watched

\* "a mistyped address cannot lock the protocol out" (guarantor_vault lib.rs
\* 239-240): whatever is proposed, each contract's admin is always an address
\* somebody can sign for.
NeverLockedOut == \A c \in Governed : admin[c] \in Holders

\* A pending proposal is the present admin's own: once the role has moved on,
\* nothing a former admin proposed can be accepted any more.
ProposalIsTheAdmins ==
    \A c \in Governed : pendingAdmin[c] # None => proposer[c] = admin[c]

=============================================================================
