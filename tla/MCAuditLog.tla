----------------------------- MODULE MCAuditLog -----------------------------
(***************************************************************************)
(* TLC instance of AuditLog.  A log is full with three lines, the least    *)
(* for which a rotation that a log call triggered does not make its own    *)
(* EPOCH_SEALED entry trigger the next one.  Three entries and one call of *)
(* rotate give up to three rotations, whose workers run at once, in one    *)
(* second or in several; one access raises and one crash comes anywhere.   *)
(* A fifth log is never begun.                                             *)
(***************************************************************************)
EXTENDS AuditLog
=============================================================================
