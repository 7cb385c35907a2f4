------------------------------- MODULE MCRemit -------------------------------
(***************************************************************************)
(* Small instances of the protocol: sets of inputs, and the parts of Next  *)
(* that a run exercises.                                                   *)
(***************************************************************************)
EXTENDS EscrowRefinement, TLC

CONSTANTS p1, v1, o1 \* the first partner, verifier and oracle of deploy.sh

FirstAgents == {p1, v1, o1}
BothContracts == {LedgerAddr, EngineAddr}

\* Guarantors and beneficiaries are interchangeable in every definition.
Symmetry == Permutations(Guarantors) \cup Permutations(Beneficiaries)

DeployedInit == Deployed(p1, v1, o1)

\* Guarantors, borrowers and cranks, after deployment.
LifecycleSpec ==
    DeployedInit /\ [][UserNext \/ PauseEngine \/ ChangeSettlement \/ ChangeStanding]_vars

\* One loan repaid in every way under every score, the clock standing still.
RepaymentSpec ==
    DeployedInit /\ [][UseVault \/ OpenLoan \/ Repay \/ PublishScore]_vars
=============================================================================
