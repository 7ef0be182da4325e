-------------------------- MODULE MCDeadManSwitch --------------------------
(***************************************************************************)
(* TLC instance of DeadManSwitch.  Two callers make every pair of calls    *)
(* overlap; two thread objects let a monitor end while the next one is     *)
(* started, or two overlapping calls of arm start one each.                *)
(***************************************************************************)
EXTENDS DeadManSwitch
=============================================================================
