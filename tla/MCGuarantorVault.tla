-------------------------- MODULE MCGuarantorVault --------------------------
(***************************************************************************)
(* The vault alone: its registered ledger and engine are arbitrary, call   *)
(* it in any order, and the token may keep a fee and call back.            *)
(***************************************************************************)
EXTENDS VaultReentrancy

SmallAmounts == -1 .. 2
=============================================================================
