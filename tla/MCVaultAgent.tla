---------------------------- MODULE MCVaultAgent ----------------------------
(* Two commands at a time and two agents: enough for two starters, an       *)
(* orphan and its successor.                                                *)
EXTENDS VaultAsRegisters
=============================================================================
