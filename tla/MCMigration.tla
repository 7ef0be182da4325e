---------------------------- MODULE MCMigration ----------------------------
(***************************************************************************)
(* TLC instance of Migration: every version of one to four chunks out of   *)
(* two contents, so that trees have even, odd and doubly odd levels and    *)
(* versions that differ only in a repeated tail meet.                      *)
(***************************************************************************)
EXTENDS Migration, TLC

AllFiles == UNION {[1..n -> Chunks] : n \in 1..MaxLen}

Symmetry == Permutations(Chunks)
=============================================================================
