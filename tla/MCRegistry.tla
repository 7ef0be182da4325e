----------------------------- MODULE MCRegistry ----------------------------
(***************************************************************************)
(* TLC instance of Registry.  Two threads cross their answers or tear a    *)
(* message, and after an interrupt a second call gets what the first one   *)
(* left; two names and two processes make a plugin replace another one, or *)
(* come under a new name, while shutdown_all is in its loop.               *)
(***************************************************************************)
EXTENDS Registry, TLC
=============================================================================
