---------------------------- MODULE MCVaultSync ----------------------------
(* VaultSync for TLC: two facts with their files, at most five of each, and  *)
(* a mass_delete hold from the second file that goes missing.                *)
EXTENDS VaultSync
=============================================================================
