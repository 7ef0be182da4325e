---------------------------- MODULE SealedStore ----------------------------
(***************************************************************************)
(* What koot's encrypted ledger promises to the gateway that uses it: one  *)
(* map from aliases to secrets, of which the disk always holds an entire   *)
(* sealed version or none at all.                                          *)
(*                                                                         *)
(* "store" is the map that survives a restart, "view" the decrypted map in *)
(* the daemon's memory.  The disk moves from one whole map to another only *)
(* by sealing the view, and loses its map only when the open session was   *)
(* condemned by an explicit order to destroy it, or when its owner         *)
(* discards it while no session is open.  Vault.tla implements this        *)
(* specification.                                                          *)
(***************************************************************************)
CONSTANTS
    Keys,      \* aliases of secrets
    Values,    \* secrets
    NoValue,   \* an alias that has no secret
    Absent,    \* the disk holds no readable map
    Closed     \* the daemon holds no decrypted map

VARIABLES store, view, condemned

vars == <<store, view, condemned>>

Contents == [Keys -> Values \cup {NoValue}]
Blank == [k \in Keys |-> NoValue]

Init ==
    /\ store = Absent
    /\ view = Closed
    /\ condemned = FALSE

\* A new vault starts out blank, and only where there is none and none is open.
Birth ==
    /\ store = Absent
    /\ view = Closed
    /\ store' = Blank
    /\ UNCHANGED <<view, condemned>>

\* Opening, or opening again, always shows exactly what was sealed last.
Open ==
    /\ store # Absent
    /\ ~condemned
    /\ view' = store
    /\ UNCHANGED <<store, condemned>>

Change(k, v) ==
    /\ view # Closed
    /\ ~condemned
    /\ view' = [view EXCEPT ![k] = v]
    /\ UNCHANGED <<store, condemned>>

\* The whole view replaces the whole stored map in one step.
Seal ==
    /\ view # Closed
    /\ ~condemned
    /\ store' = view
    /\ UNCHANGED <<view, condemned>>

Condemn ==
    /\ view # Closed
    /\ condemned' = TRUE
    /\ UNCHANGED <<store, view>>

Destroy ==
    /\ condemned
    /\ store' = Absent
    /\ UNCHANGED <<view, condemned>>

\* The owner discards the disk while nobody has the map open.
Discard ==
    /\ view = Closed
    /\ store' = Absent
    /\ UNCHANGED <<view, condemned>>

\* The end of a session: a restart, a crash, or the end of a nuke.
Close ==
    /\ view' = Closed
    /\ condemned' = FALSE
    /\ UNCHANGED store

Next ==
    \/ Birth
    \/ Open
    \/ \E k \in Keys, v \in Values \cup {NoValue} : Change(k, v)
    \/ Seal
    \/ Condemn
    \/ Destroy
    \/ Discard
    \/ Close

Spec == Init /\ [][Next]_vars
=============================================================================
