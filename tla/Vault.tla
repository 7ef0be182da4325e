------------------------------- MODULE Vault -------------------------------
(***************************************************************************)
(* The life of one koot vault: scripts/init_koot.py creates it, the daemon *)
(* (LocalIPCGateway, koot/network/ipc/server.py) opens it and serves add,  *)
(* delete and nuke requests, and ShadowLedger (koot/identity/ledger.py)    *)
(* seals every change to ~/.koot/ledger.shadow through a temporary file.   *)
(*                                                                         *)
(* Two processes share the disk: the daemon, whose handler has no await    *)
(* between reading a request and its reply and therefore runs one request  *)
(* at a time, and the interactive script.  A step is one access to the     *)
(* file system; between any two steps a process may die.                   *)
(*                                                                         *)
(* The master key is Argon2 of password, hardware factor and salt.  A      *)
(* vault gets one salt and a host has one hardware factor, so the key is   *)
(* represented by the password.  One init_koot.py runs at a time.  When it *)
(* refuses to run, the operator may empty ~/.koot, as it tells him to.     *)
(***************************************************************************)
CONSTANTS
    Keys,        \* aliases of secrets
    Values,      \* secrets
    Passwords,   \* what an operator may type
    NoValue,     \* an alias without a secret
    NoFile,      \* the path does not exist
    Noise,       \* a file no key opens: torn, or overwritten with random bytes
    NoSession,   \* LocalIPCGateway.active_ledger is None
    NoRequest    \* the handler is not inside ShadowLedger._save_db

Contents == [Keys -> Values \cup {NoValue}]
Sealed == [key : Passwords, db : Contents]

ASSUME VaultAssumption ==
    /\ NoValue \notin Values
    /\ {NoFile, Noise, NoSession} \cap (Sealed \cup Contents) = {}
    /\ NoFile # Noise
    /\ NoRequest \notin [key : Keys, value : Values \cup {NoValue}]

VARIABLES
    \* ~/.koot on disk
    salt,       \* BOOLEAN: .salt exists
    ledger,     \* ledger.shadow
    tmp,        \* ledger.shadow.tmp
    \* the daemon
    session,    \* active_ledger: its master_key and its decrypted db
    step,       \* where the handler stands in the request it serves
    req,        \* the change _save_db is sealing
    \* scripts/init_koot.py
    init,       \* where the script stands, or how its last run ended
    password,   \* the password its last run that passed the check was given
    \* history, in no variable of the code
    acked,      \* the secret of each alias after the last change reported done
    unacked,    \* what was requested of the alias since, and not reported done
    nuked       \* a nuke of this vault was reported as success

disk == <<salt, ledger, tmp>>
daemon == <<session, step, req>>
script == <<init, password>>
history == <<acked, unacked, nuked>>
vars == <<disk, daemon, script, history>>

Steps == {"idle", "seal", "swap", "shredLedger", "shredTmp"}
Running == {"checked", "salted", "sealing", "swapping", "born"}
Ended == {"never", "success", "failed", "refused"}
Requests == [key : Keys, value : Values \cup {NoValue}]
Blank == [k \in Keys |-> NoValue]

\* What a process that dies while it writes the temporary file leaves there.
TornTmp(writing) == IF writing THEN {tmp, Noise} ELSE {tmp}

-----------------------------------------------------------------------------
\* scripts/init_koot.py

\* Faulty variant: the script overwrites a vault that is there.
InitCheckUnguarded(p) ==
    /\ init \in Ended
    /\ init' = "checked"
    /\ password' = p
    /\ UNCHANGED <<disk, daemon, history>>

\* The password prompts and the check that ~/.koot is empty.
InitCheck(p) ==
    /\ init \in Ended
    /\ ledger = NoFile /\ ~salt
    /\ init' = "checked"
    /\ password' = p
    /\ UNCHANGED <<disk, daemon, history>>

InitRefuse ==
    /\ init \in Ended
    /\ ledger # NoFile \/ salt
    /\ init' = "refused"
    /\ UNCHANGED <<disk, daemon, password, history>>

InitSalt ==
    /\ init = "checked"
    /\ salt' = TRUE
    /\ init' = "salted"
    /\ UNCHANGED <<ledger, tmp, daemon, password, history>>

\* ShadowLedger.__init__ on a path that does not exist: _initialize_db.
InitLedger ==
    /\ init = "salted"
    /\ ledger = NoFile
    /\ init' = "sealing"
    /\ UNCHANGED <<disk, daemon, password, history>>

InitWriteTmp ==
    /\ init = "sealing"
    /\ tmp' = [key |-> password, db |-> Blank]
    /\ init' = "swapping"
    /\ UNCHANGED <<salt, ledger, daemon, password, history>>

InitSwap ==
    /\ init = "swapping"
    /\ ledger' = tmp
    /\ tmp' = NoFile
    /\ init' = "born"
    /\ nuked' = FALSE
    /\ UNCHANGED <<salt, daemon, password, acked, unacked>>

\* derive_and_lock_key and the success message.
InitDone ==
    /\ init = "born"
    /\ init' = "success"
    /\ UNCHANGED <<disk, daemon, password, history>>

\* The script is killed or raises: a full disk, no TPM, no C-Enclave.
InitDies ==
    /\ init \in Running
    /\ init' = "failed"
    /\ tmp' \in TornTmp(init = "sealing")
    /\ UNCHANGED <<salt, ledger, daemon, password, history>>

Script ==
    \/ \E p \in Passwords : InitCheck(p)
    \/ InitRefuse
    \/ InitSalt
    \/ InitLedger
    \/ InitWriteTmp
    \/ InitSwap
    \/ InitDone
    \/ InitDies

-----------------------------------------------------------------------------
\* LocalIPCGateway._dispatch_to_bus

\* AES-GCM authentication in ShadowLedger._load_db.
Opens(p, file) == file \in Sealed /\ file.key = p

\* vault.unlock that succeeds.  Every other outcome (files missing, wrong
\* password, no C-Enclave) is an error reply that leaves active_ledger alone.
\* Unlocking an open vault replaces the session by a fresh copy of the disk.
Unlock(p) ==
    /\ step = "idle"
    /\ salt
    /\ Opens(p, ledger)
    /\ session' = ledger
    /\ UNCHANGED <<disk, step, req, script, history>>

\* ShadowLedger.set and .delete change the decrypted map before they seal it.
Change(k, v) ==
    /\ session' = [key |-> session.key, db |-> [session.db EXCEPT ![k] = v]]
    /\ step' = "seal"
    /\ req' = [key |-> k, value |-> v]
    /\ unacked' = [unacked EXCEPT ![k] = @ \cup {v}]
    /\ UNCHANGED <<disk, script, acked, nuked>>

Add(k, v) ==
    /\ step = "idle"
    /\ session # NoSession
    /\ Change(k, v)

Delete(k) ==
    /\ step = "idle"
    /\ session # NoSession
    /\ session.db[k] # NoValue
    /\ Change(k, NoValue)

\* vault.delete reports success whether ShadowLedger.delete returned True or
\* False; for an alias the map does not hold nothing is sealed.
DeleteAbsent(k) ==
    /\ step = "idle"
    /\ session # NoSession
    /\ session.db[k] = NoValue
    /\ acked' = [acked EXCEPT ![k] = NoValue]
    /\ unacked' = [unacked EXCEPT ![k] = {}]
    /\ UNCHANGED <<disk, daemon, script, nuked>>

\* ShadowLedger._save_db: encrypt the map, write it to the temporary file ...
WriteTmp ==
    /\ step = "seal"
    /\ tmp' = session
    /\ step' = "swap"
    /\ UNCHANGED <<salt, ledger, session, req, script, history>>

\* ... and os.replace it over the ledger; the handler reports success.
Swap ==
    /\ step = "swap"
    /\ ledger' = tmp
    /\ tmp' = NoFile
    /\ step' = "idle"
    /\ req' = NoRequest
    /\ acked' = [acked EXCEPT ![req.key] = req.value]
    /\ unacked' = [unacked EXCEPT ![req.key] = {}]
    /\ UNCHANGED <<salt, session, script, nuked>>

\* Faulty variant: the exception is swallowed and success reported.
SealFailsSilently ==
    /\ step \in {"seal", "swap"}
    /\ tmp' \in TornTmp(step = "seal")
    /\ step' = "idle"
    /\ req' = NoRequest
    /\ acked' = [acked EXCEPT ![req.key] = req.value]
    /\ unacked' = [unacked EXCEPT ![req.key] = {}]
    /\ UNCHANGED <<salt, ledger, session, script, nuked>>

\* Faulty variant: the map is written to the ledger's own path.
SealFailsInPlace ==
    /\ step \in {"seal", "swap"}
    /\ ledger' = Noise
    /\ step' = "idle"
    /\ req' = NoRequest
    /\ UNCHANGED <<salt, tmp, session, script, history>>

\* Writing or replacing raised: RuntimeError, an error reply, and a decrypted
\* map that keeps the change.
SealFails ==
    /\ step \in {"seal", "swap"}
    /\ tmp' \in TornTmp(step = "seal")
    /\ step' = "idle"
    /\ req' = NoRequest
    /\ UNCHANGED <<salt, ledger, session, script, history>>

\* Faulty variant: the session is dropped before the files are shredded.
NukeDropsFirst ==
    /\ step = "idle"
    /\ session # NoSession
    /\ session' = NoSession
    /\ step' = "shredLedger"
    /\ unacked' = [k \in Keys |-> unacked[k] \cup {NoValue}]
    /\ UNCHANGED <<disk, req, script, acked, nuked>>

\* system.override nuke on an open vault: ShadowLedger.shred, one file at a
\* time.  An exception while overwriting or removing is swallowed.
Nuke ==
    /\ step = "idle"
    /\ session # NoSession
    /\ step' = "shredLedger"
    /\ unacked' = [k \in Keys |-> unacked[k] \cup {NoValue}]
    /\ UNCHANGED <<disk, session, req, script, acked, nuked>>

ShredLedger ==
    /\ step = "shredLedger"
    /\ \/ ledger' = NoFile
       \/ ledger # NoFile /\ ledger' \in {ledger, Noise}
    /\ step' = "shredTmp"
    /\ UNCHANGED <<salt, tmp, session, req, script, history>>

\* ... after which the session is dropped and success is reported.
ShredTmp ==
    /\ step = "shredTmp"
    /\ \/ tmp' = NoFile
       \/ tmp # NoFile /\ tmp' \in {tmp, Noise}
    /\ nuked' = TRUE
    /\ session' = NoSession
    /\ step' = "idle"
    /\ UNCHANGED <<salt, ledger, req, script, acked, unacked>>

\* The same request while active_ledger is None: nothing has a shred method,
\* and success is reported.
NukeLocked ==
    /\ step = "idle"
    /\ session = NoSession
    /\ nuked' = (nuked \/ ledger # NoFile)
    /\ UNCHANGED <<disk, daemon, script, acked, unacked>>

\* The daemon is killed at any point and started again.
Crash ==
    /\ session' = NoSession
    /\ step' = "idle"
    /\ req' = NoRequest
    /\ tmp' \in TornTmp(step = "seal")
    /\ UNCHANGED <<salt, ledger, script, history>>

Daemon ==
    \/ \E p \in Passwords : Unlock(p)
    \/ \E k \in Keys, v \in Values : Add(k, v)
    \/ \E k \in Keys : Delete(k) \/ DeleteAbsent(k)
    \/ WriteTmp
    \/ Swap
    \/ SealFails
    \/ Nuke
    \/ ShredLedger
    \/ ShredTmp
    \/ NukeLocked
    \/ Crash

-----------------------------------------------------------------------------
\* "Wipe ~/.koot/ to start fresh": what the operator does by hand after the
\* script has refused to run.  The old vault and its promises are gone.
Wipe ==
    /\ init = "refused"
    /\ step = "idle"
    /\ salt' = FALSE
    /\ ledger' = NoFile
    /\ tmp' = NoFile
    /\ acked' = Blank
    /\ unacked' = [k \in Keys |-> {}]
    /\ nuked' = FALSE
    /\ UNCHANGED <<daemon, script>>

\* He stops the daemon first, or has not unlocked it.
WipeLocked ==
    /\ session = NoSession
    /\ Wipe

-----------------------------------------------------------------------------
Init ==
    /\ salt = FALSE
    /\ ledger = NoFile
    /\ tmp = NoFile
    /\ session = NoSession
    /\ step = "idle"
    /\ req = NoRequest
    /\ init = "never"
    /\ password \in Passwords
    /\ acked = Blank
    /\ unacked = [k \in Keys |-> {}]
    /\ nuked = FALSE

Next ==
    \/ Script
    \/ Daemon
    \/ WipeLocked

Spec == Init /\ [][Next]_vars

-----------------------------------------------------------------------------
\* Types, and what the handler's position says: a request that is being
\* served has a session, and a change is being sealed exactly when
\* ShadowLedger._save_db runs (a crash ends both).
TypeOK ==
    /\ salt \in BOOLEAN
    /\ ledger \in Sealed \cup {NoFile, Noise}
    /\ tmp \in Sealed \cup {NoFile, Noise}
    /\ session \in Sealed \cup {NoSession}
    /\ step \in Steps
    /\ step # "idle" => session # NoSession
    /\ IF step \in {"seal", "swap"} THEN req \in Requests ELSE req = NoRequest
    /\ init \in Running \cup Ended
    /\ password \in Passwords
    /\ acked \in Contents
    /\ unacked \in [Keys -> SUBSET (Values \cup {NoValue})]
    /\ nuked \in BOOLEAN

DiskValue(k) == IF ledger \in Sealed THEN ledger.db[k] ELSE NoValue

\* A ledger on disk can be opened again, after any crash and any failed
\* seal, with the password its vault was created with: the salt is there
\* and no request ever seals the map under another key.
OpensWithBirthPassword ==
    ledger \in Sealed => salt /\ ledger.key = password

\* A secret whose add was reported as saved is on disk, unless something was
\* requested for the same alias later; then the disk holds the saved secret
\* or what that request asked for.  It survives failed seals of other
\* aliases, crashes inside _save_db and sessions opened over a stale map.
AddsAreDurable ==
    \A k \in Keys :
        acked[k] \in Values => DiskValue(k) \in {acked[k]} \cup unacked[k]

\* When a client was told that the vault is nuked, the ledger, its temporary
\* copy and the salt are gone, as the handler announces ("Shred physical
\* database and salt") and its test asserts.  The code does otherwise: nothing
\* removes the salt, a nuke of a locked vault removes nothing, and an
\* exception in shred leaves the file it was raised for.
NukeShredsAll ==
    nuked => ledger = NoFile /\ tmp = NoFile /\ ~salt

-----------------------------------------------------------------------------
\* The vault implements SealedStore: whatever is not a readable ledger is no
\* stored map, the session's map is the view, and the session is condemned
\* from the moment shred starts.
Store == INSTANCE SealedStore WITH
    store <- IF ledger \in Sealed THEN ledger.db ELSE NoFile,
    view <- IF session = NoSession THEN NoSession ELSE session.db,
    condemned <- step \in {"shredLedger", "shredTmp"},
    Absent <- NoFile,
    Closed <- NoSession

\* Failed seals, crashes between the write and the replace, half-finished
\* shreds and the two processes' interleavings show the gateway nothing but
\* whole sealed maps.
ImplementsSealedStore == Store!Spec
=============================================================================
