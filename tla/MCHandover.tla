----------------------------- MODULE MCHandover -----------------------------
(***************************************************************************)
(* The script against the three contracts deploy.sh leaves.                *)
(***************************************************************************)
EXTENDS HandoverScript

CONSTANTS ledger, engine

ThreeContracts == {VaultAddr, ledger, engine}
DocumentedOrder == <<VaultAddr, ledger, engine>>
=============================================================================
