------------------------------- MODULE MCVault -------------------------------
(***************************************************************************)
(* Vault for TLC: more accounts than entries, so that saves are refused,   *)
(* and an id width small enough for ids to reach their limit.              *)
(***************************************************************************)
EXTENDS Vault
=============================================================================
