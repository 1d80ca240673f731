---------------------------- MODULE MCLocalStore ----------------------------
(* Symmetry of LocalStore for the run that checks invariants only: the     *)
(* accounts receive notes alike, and their order in the accounts table is  *)
(* part of the state.                                                      *)
EXTENDS LocalStore, TLC

AccountSymmetry == Permutations(Accounts)
=============================================================================
