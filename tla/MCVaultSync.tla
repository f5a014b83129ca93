---------------------------- MODULE MCVaultSync ----------------------------
(* Instances of VaultSync for TLC. *)
EXTENDS VaultSync, TLC

EditSymmetry == Permutations(Edits)
Unexposed == exposed = {}
=============================================================================
