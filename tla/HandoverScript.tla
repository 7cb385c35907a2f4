--------------------------- MODULE HandoverScript ---------------------------
(***************************************************************************)
(* scripts/handover-to-multisig.sh: for each contract of its argument list *)
(* propose_admin by the old admin, then accept_admin by the multisig, each *)
(* a transaction of its own.  Under `set -e` whatever fails stops the      *)
(* script where it is.  The operator runs it again, perhaps with the wrong *)
(* address first.                                                          *)
(***************************************************************************)
EXTENDS Governance, Sequences, FiniteSets

CONSTANTS
    Multisig,   \* the council account
    Order,      \* $VAULT $LEDGER $ENGINE, the first run's list
    MaxFailures \* bound on the runs that are cut short or mistyped

\* The orders in which an argument list can name some contracts.
Listings(S) ==
    {list \in [1 .. Cardinality(S) -> S] :
        \A c \in S : \E i \in 1 .. Cardinality(S) : list[i] = c}

ASSUME ScriptAssumption ==
    /\ Multisig \in Holders \ {FirstAdmin}
    /\ IsFiniteSet(Governed)
    /\ Order \in Listings(Governed)
    /\ MaxFailures \in Nat

VARIABLES todo,    \* the contracts this run has still to hand over
          target,  \* MS_ADDR of this run
          calling, \* the call it makes next: "propose_admin" or "accept_admin"
          failures

scriptVars == <<todo, target, calling, failures>>
handoverVars == <<governanceVars, scriptVars>>

Running == todo # <<>>

ScriptInit ==
    /\ GovernanceInit
    /\ settlement = FirstSettlement
    /\ now = 0
    /\ todo = <<>>
    /\ target = Multisig
    /\ calling = "propose_admin"
    /\ failures = 0

\* The operator starts the script on a list of contracts.
Start(list, address) ==
    /\ ~Running
    /\ todo' = list /\ target' = address /\ calling' = "propose_admin"
    /\ UNCHANGED governanceVars

ScriptProposes ==
    /\ Running /\ calling = "propose_admin"
    /\ ProposeAdmin(Head(todo), FirstAdmin, target)
    /\ calling' = "accept_admin"
    /\ UNCHANGED <<todo, target, failures>>

ScriptAccepts ==
    /\ Running /\ calling = "accept_admin"
    /\ AcceptAdmin(Head(todo), target)
    /\ todo' = Tail(todo)
    /\ calling' = "propose_admin"
    /\ UNCHANGED <<target, failures>>

Stops == todo' = <<>> /\ UNCHANGED <<governanceVars, target, calling>>

\* Mutant: whatever fails, the script goes on with the next contract.
RefusedPassesOver ==
    /\ Running
    /\ ~ENABLED (ScriptProposes \/ ScriptAccepts)
    /\ todo' = Tail(todo)
    /\ calling' = "propose_admin"
    /\ UNCHANGED <<governanceVars, target, failures>>

\* The contract refuses the next call, or nobody can sign it.
ScriptRefused ==
    /\ Running
    /\ ~ENABLED (ScriptProposes \/ ScriptAccepts)
    /\ Stops
    /\ UNCHANGED failures

ScriptStep == ScriptProposes \/ ScriptAccepts \/ ScriptRefused

\* The network fails, before or after the transaction before it was applied.
ScriptCutShort ==
    /\ Running /\ failures < MaxFailures
    /\ failures' = failures + 1
    /\ Stops

Mistyped ==
    /\ failures < MaxFailures
    /\ failures' = failures + 1
    /\ \E address \in Addresses \ Holders : Start(Order, address)

\* The contracts that are not the multisig's yet.
Rest == {c \in Governed : admin[c] # Multisig}
HandedOver == \A c \in Governed : admin[c] = Multisig

\* The operator runs it again with those the last run did not reach.  (With
\* the same list it would stop at the first contract already handed over, whose
\* former admin can propose nothing.)
Retry ==
    /\ ~HandedOver
    /\ \E list \in Listings(Rest) : Start(list, Multisig)
    /\ UNCHANGED failures

ScriptNext == ScriptStep \/ ScriptCutShort \/ Mistyped \/ Retry

HandoverSpec ==
    /\ ScriptInit /\ [][ScriptNext]_handoverVars
    /\ WF_handoverVars(ScriptStep) /\ WF_handoverVars(Retry)

-----------------------------------------------------------------------------
\* "Hand the admin role of every contract to a multisig account"
\* (handover-to-multisig.sh line 2): however often the script is cut short
\* between any two of its transactions, or run with an address nobody can
\* sign for, running it again ends with every contract the multisig's.
HandoverCompletes == <>HandedOver

\* "Nothing changes until it accepts" (handover-to-multisig.sh lines 7-8): the
\* two admins share the contracts among them wherever a run stops, and what is
\* still the old admin's is on the list of the run that is under way.  So the
\* run that comes to the end of its list has handed over everything, and no
\* refusal in the middle is passed over.
NothingLeftOut ==
    \A c \in Governed :
        \/ admin[c] = Multisig
        \/ /\ admin[c] = FirstAdmin
           /\ Running => \E i \in 1 .. Len(todo) : todo[i] = c

=============================================================================
