------------------------------ MODULE MCVault ------------------------------
(***************************************************************************)
(* TLC instance of Vault.  Two aliases show that a failed seal of one      *)
(* reaches the disk with the next seal of the other, two secrets show      *)
(* stale against new contents, two passwords a wrong one.                  *)
(***************************************************************************)
EXTENDS Vault, TLC

Symmetry == Permutations(Keys) \cup Permutations(Values) \cup Permutations(Passwords)
=============================================================================
