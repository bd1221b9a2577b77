------------------------------- MODULE MCVault -------------------------------
(* The operator alone, two passphrases, one secret; enough salts for a     *)
(* vault that is rotated twice, and enough interruptions for both to be.   *)
EXTENDS Vault
=============================================================================
