------------------------------- MODULE Unlock ------------------------------
(***************************************************************************)
(* From a password to an open vault: the identity of the machine           *)
(* (koot/identity/machine), EntropyPipeline (koot/identity/derivation),    *)
(* and the birth of a vault by init_koot.py and vault.unlock of the daemon *)
(* (koot/network/ipc/server.py), which share one formula.                  *)
(*                                                                         *)
(* Keys are what they are derived from.  None of it is kept with the vault *)
(* but the salt: the machine is asked again at every unlock, and it may    *)
(* have changed.  The bindings of the pipeline pass the key where the      *)
(* library expects a size: malloc refuses as many bytes as an address is   *)
(* large, so that the pipeline is told the id 0 and nothing is locked; and *)
(* destroying 0 does nothing.  Enclave models locking by an EnclaveManager. *)
(***************************************************************************)
EXTENDS Naturals, FiniteSets

CONSTANTS
    Passwords,
    Terminal, Duress,   \* the passwords registered with a pipeline
    Sizes,              \* RAM in GiB
    Names, Ids,         \* hostnames, contents of /etc/machine-id
    Callbacks,          \* how many nuke_callbacks there are
    Failing,            \* those of them that raise
    Shredder,           \* the one that is ledger.shred
    MaxChanges          \* bound: changes of the machine

ASSUME UnlockAssumption ==
    /\ Sizes \subseteq Nat /\ Callbacks \in Nat /\ MaxChanges \in Nat
    /\ Shredder \in 1..Callbacks
    /\ Terminal \in Passwords /\ Duress \in Passwords \ {Terminal}

VARIABLES
    machine,    \* ram, tpm (found), name, id ({} when the file is not there)
    enclave,    \* the shared library was built
    vault,      \* {} or {the key it was sealed with}
    session,    \* the daemon has an active ledger
    outcome,    \* {the last unlock: the password, the machine, and how it went}
    id,         \* active_key_id of an embedding program's pipeline, {} or {0}
    duressMode,
    nuking,     \* callbacks of the terminal password run so far
    exited,     \* sys.exit(86)
    changes,
    \* history, in no variable of the code
    born        \* {the password and the machine of the birth}

daemon == <<vault, session, outcome, born>>
pipeline == <<id, duressMode, nuking, exited>>
vars == <<machine, changes, enclave, daemon, pipeline>>

-----------------------------------------------------------------------------
\* EntropyPipeline.__init__: memory_cost and parallelism.
Cost(ram) == IF ram <= 2 THEN "65536/2" ELSE IF ram <= 8 THEN "262144/4" ELSE "524288/8"

\* Faulty variant: a TPM signs the salt alone.
SignaturesNameless(m) ==
    IF m.tpm THEN {<<"tpm">>} ELSE {<<"os", i>> : i \in m.id}

\* create_identity_signature: a TPM signs the hostname and the salt, and without
\* one it is the machine-id that counts, or it raises: no signature.
Signatures(m) ==
    IF m.tpm THEN {<<"tpm", m.name>>} ELSE {<<"os", i>> : i \in m.id}

\* generate_vault_key stretches the signature at the cost of the machine.
Factors(m) == {[signature |-> s, cost |-> Cost(m.ram)] : s \in Signatures(m)}

\* The master key: Argon2id of password and factor, again at that cost.
Keys(m, pw) == {[password |-> pw, factor |-> f, cost |-> Cost(m.ram)] : f \in Factors(m)}

-----------------------------------------------------------------------------
\* RAM is added or taken, a TPM fails or comes back, the host is renamed, or
\* /etc/machine-id written anew.
MachineChanges(m) ==
    /\ changes < MaxChanges /\ m # machine
    /\ machine' = m /\ changes' = changes + 1
    /\ UNCHANGED <<enclave, daemon, pipeline>>

\* init_koot.py of an empty directory; what becomes of it half-way is in Vault.
Birth(pw) ==
    /\ vault = {} /\ born = {} /\ nuking = 0     \* bound: one vault, born before a nuke
    /\ \E k \in Keys(machine, pw) : vault' = {k}
    /\ born' = {[password |-> pw, on |-> machine]}
    /\ UNCHANGED <<machine, changes, enclave, session, outcome, pipeline>>

\* vault.unlock: without a signature, or an enclave, it fails before there is a
\* session.
Unlock(pw) ==
    /\ vault # {}
    /\ LET right == Keys(machine, pw) = vault IN
        /\ session' = (session \/ (right /\ enclave))
        /\ outcome' = {[password |-> pw, on |-> machine,
                        result |-> IF right /\ enclave THEN "success"
                                   ELSE IF right \/ Keys(machine, pw) = {} THEN "internal"
                                   ELSE "invalid"]}
    /\ UNCHANGED <<machine, changes, enclave, vault, born, pipeline>>

\* The daemon restarts.
Restart ==
    /\ session
    /\ session' = FALSE
    /\ UNCHANGED <<machine, changes, enclave, vault, outcome, born, pipeline>>

-----------------------------------------------------------------------------
\* derive_and_lock_key of a pipeline with a terminal and a duress password: any
\* other password than the terminal one is derived.
Derive(pw) ==
    /\ ~exited /\ nuking = 0
    /\ pw # Terminal /\ enclave
    /\ duressMode' = (pw = Duress)
    /\ id' = {0}
    /\ UNCHANGED <<machine, changes, enclave, daemon, nuking, exited>>

\* Faulty variant: a callback that raises ends the loop.
NukeUncaught(pw) ==
    /\ ~exited /\ nuking < Callbacks
    /\ nuking = 0 => pw = Terminal
    /\ nuking' = IF nuking + 1 \in Failing THEN Callbacks ELSE nuking + 1
    /\ vault' = IF nuking' = Shredder /\ nuking + 1 \notin Failing THEN {} ELSE vault
    /\ UNCHANGED <<machine, changes, enclave, session, outcome, born, id, duressMode, exited>>

\* The terminal one runs the callbacks, each whatever the others did, ...
Nuke(pw) ==
    /\ ~exited /\ nuking < Callbacks
    /\ nuking = 0 => pw = Terminal
    /\ nuking' = nuking + 1
    /\ vault' = IF nuking' = Shredder /\ Shredder \notin Failing THEN {} ELSE vault
    /\ UNCHANGED <<machine, changes, enclave, session, outcome, born, id, duressMode, exited>>

\* ... forgets the key, and ends the process.
NukeExits ==
    /\ ~exited /\ nuking = Callbacks
    /\ id' = IF enclave THEN {} ELSE id
    /\ exited' = TRUE
    /\ UNCHANGED <<machine, changes, enclave, daemon, duressMode, nuking>>

\* go_cold
GoCold ==
    /\ ~exited /\ nuking = 0 /\ enclave
    /\ id' = {}
    /\ UNCHANGED <<machine, changes, enclave, daemon, duressMode, nuking, exited>>
-----------------------------------------------------------------------------
Machines == [ram : Sizes, tpm : BOOLEAN, name : Names, id : {{}} \union {{i} : i \in Ids}]

Init ==
    /\ machine \in Machines /\ enclave \in BOOLEAN
    /\ vault = {} /\ session = FALSE /\ outcome = {} /\ born = {}
    /\ id = {} /\ duressMode = FALSE /\ nuking = 0 /\ exited = FALSE /\ changes = 0

Next ==
    \/ \E m \in Machines : MachineChanges(m)
    \/ \E pw \in Passwords : Birth(pw) \/ Unlock(pw) \/ Derive(pw) \/ Nuke(pw)
    \/ Restart \/ NukeExits \/ GoCold

Spec == Init /\ [][Next]_vars

-----------------------------------------------------------------------------
Results == {"success", "invalid", "internal"}

TypeOK ==
    /\ machine \in Machines /\ enclave \in BOOLEAN /\ session \in BOOLEAN
    /\ Cardinality(vault) <= 1 /\ Cardinality(outcome) <= 1 /\ Cardinality(born) <= 1
    /\ outcome \subseteq [password : Passwords, on : Machines, result : Results]
    /\ born \subseteq [password : Passwords, on : Machines]
    /\ id \subseteq {0} /\ duressMode \in BOOLEAN /\ exited \in BOOLEAN
    /\ nuking \in 0..Callbacks /\ changes \in Nat

\* What an unlock takes for the same machine: its TPM and hostname, or without a
\* TPM its machine-id, and RAM of the same class.
Alike(m, n) ==
    /\ m.tpm = n.tpm
    /\ IF m.tpm THEN m.name = n.name ELSE m.id = n.id
    /\ m.ram <= 2 <=> n.ram <= 2
    /\ m.ram <= 8 <=> n.ram <= 8

\* The owner gets in, whatever happened to the machine and was tried since the
\* birth, exactly when the machine is like itself again; a TPM that is not
\* found for once, or RAM of another class, makes a right password "Invalid".
OwnerIsAdmitted ==
    \A o \in outcome, b \in born :
        /\ o.result = "success" <=>
                enclave /\ o.password = b.password /\ Alike(o.on, b.on)
        /\ o.result = "invalid" => o.password # b.password \/ ~Alike(o.on, b.on)

\* A nuke by the terminal password reaches the ledger, though other callbacks
\* raise, and the process does not end before it has.
NukeReachesLedger == exited /\ Shredder \notin Failing => vault = {}
=============================================================================
