----------------------------- MODULE MCTenants -----------------------------
(***************************************************************************)
(* TLC instance of Tenants.  Two tenants with a certificate each, so that  *)
(* a lock, a freeze or a drop of one meets the calls for the other; two    *)
(* connections make one be admitted or hang up while the other is being    *)
(* severed, of the same tenant or of the other.                            *)
(***************************************************************************)
EXTENDS Tenants, TLC

CONSTANTS a1, b1, A, B

TwoTenants == (a1 :> A) @@ (b1 :> B)

Symmetry == Permutations(Conns)
=============================================================================
