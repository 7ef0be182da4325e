-------------------------- MODULE MCKeysAndDefence --------------------------
(***************************************************************************)
(* TLC instance of Unlock, Enclave and Defence.  They share neither state  *)
(* nor a step, so part says which of them moves in a behaviour, beside the *)
(* others at rest.                                                         *)
(*                                                                         *)
(* Unlock: an owner's, a terminal and a duress password, RAM of 2, 8 and   *)
(* 9 GB, two hostnames, one change of the machine and two callbacks, of    *)
(* which the one before the shredder raises.                               *)
(*                                                                         *)
(* Enclave: a page with three keys and one with a key of its own, of which *)
(* one at a time may be locked.                                            *)
(*                                                                         *)
(* Defence: Shipped is config/heuristics_manifest.json, with the velocity  *)
(* scaled down; Known gives the actions the names the defender knows;      *)
(* Partial leaves two limits and an action to the code.  Each metric comes *)
(* below, at and above its limits.                                         *)
(***************************************************************************)
EXTENDS Unlock, Enclave, Defence, TLC

CONSTANTS w, x, y, z, shared, own

VARIABLE part

Placed == (w :> shared) @@ (x :> shared) @@ (y :> shared) @@ (z :> own)

Rule(v, s, b, onV, onS, onB) ==
    [limit |-> [t \in Threats |-> CASE t = Checks[1] -> v [] t = Checks[2] -> s [] t = Checks[3] -> b],
     action |-> [t \in Threats |-> CASE t = Checks[1] -> onV [] t = Checks[2] -> onS
                                     [] t = Checks[3] -> onB]]

Shipped == Rule(2, 3, 5, "trigger_localized_freeze", "trigger_localized_freeze",
                "alert_admin_and_ip_ban")
Known == Rule(1, 2, 4, "freeze", "freeze", "ip_ban")
Partial == Rule(Unset, Unset, 6, "log", "freeze", "ip_ban")

AllManifests == {Shipped, Known, Partial}

SomeMetrics ==
    {[t \in Threats |-> CASE t = Checks[1] -> n[1] [] t = Checks[2] -> n[2] [] t = Checks[3] -> n[3]] :
        n \in {<<1, 1, 3>>, <<2, 2, 4>>, <<2, 3, 5>>, <<3, 4, 6>>, <<3, 2, 7>>}}

-----------------------------------------------------------------------------
Unlocks == part = "unlock" /\ UNCHANGED <<part, enclaveVars, defenceVars>>
Locks == part = "enclave" /\ UNCHANGED <<part, vars, defenceVars>>
Defends == part = "defence" /\ UNCHANGED <<part, vars, enclaveVars>>

\* A component at rest is in one of its initial states.
MCInit ==
    /\ part \in {"unlock", "enclave", "defence"}
    /\ Init /\ EnclaveInit /\ DefenceInit
    /\ part # "unlock" => enclave /\ machine = CHOOSE m \in Machines : TRUE
    /\ part # "defence" => file = {Shipped}

MCNext ==
    \/ \E m \in Machines : Unlocks /\ MachineChanges(m)
    \/ \E pw \in Passwords :
        \/ Unlocks /\ Birth(pw)
        \/ Unlocks /\ Unlock(pw)
        \/ Unlocks /\ Derive(pw)
        \/ Unlocks /\ Nuke(pw)
    \/ Unlocks /\ Restart
    \/ Unlocks /\ NukeExits
    \/ Unlocks /\ GoCold
    \/ \E b \in Blocks :
        \/ Locks /\ Malloc(b)
        \/ Locks /\ Mlock(b)
        \/ Locks /\ MlockFails(b)
        \/ Locks /\ Memmove(b)
        \/ Locks /\ SecureWipe(b)
        \/ Locks /\ Munlock(b)
        \/ Locks /\ Free(b)
    \/ \E content \in {{}} \union {{m} : m \in Manifests} : Defends /\ EditManifest(content)
    \/ Defends /\ Reload
    \/ Defends /\ ReloadRaises
    \/ Defends /\ SetBaselines
    \/ Defends /\ SetThreats
    \/ \E n \in Metrics : Defends /\ Evaluate(n)
    \/ Defends /\ Pass
    \/ Defends /\ Breach
    \/ Defends /\ Alert
    \/ Defends /\ Return
    \/ \E a \in handing, address \in BOOLEAN : Defends /\ Handle(a, address)

MCSpec == MCInit /\ [][MCNext]_<<part, vars, enclaveVars, defenceVars>>
=============================================================================
