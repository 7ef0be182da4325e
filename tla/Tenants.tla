------------------------------ MODULE Tenants ------------------------------
(***************************************************************************)
(* How an operative is admitted and thrown out: the tenant table of        *)
(* ShadowLedger (koot/identity/ledger.py), the sessions of ZeroTrustGateway*)
(* (koot/network/gateway/mtls_server.py) that is given this ledger, and    *)
(* OverrideMatrix.trigger_localized_freeze (koot/governance/override/      *)
(* interlock.py) with a freeze callback that schedules                     *)
(* drop_tenant_sessions on the gateway's event loop, which is how the      *)
(* gateway offers it.                                                      *)
(*                                                                         *)
(* A ledger method holds the ledger's lock and seals the whole table, as   *)
(* Vault does it: the step that seals either replaces the table on disk or *)
(* fails and leaves it.  The gateway is a set of coroutines that change    *)
(* places where they await.  A certificate belongs to one tenant; a tenant *)
(* may be given several.  A drop of a tenant's sessions that is scheduled  *)
(* while another one of the same tenant runs starts after it.              *)
(***************************************************************************)
EXTENDS FiniteSets

CONSTANTS
    Certs,      \* certificate hashes
    Tenants,    \* tenant ids
    TenantOf,   \* the tenant_id each certificate is provisioned for
    Conns,      \* connections the gateway serves at a time
    NoCert      \* the certificate of a connection that is not served

ASSUME TenantsAssumption ==
    /\ TenantOf \in [Certs -> Tenants]
    /\ NoCert \notin Certs

VARIABLES
    disk,       \* the sealed table: the entry of each certificate
    ram,        \* the decrypted table
    at,         \* where handle_client stands for each connection
    cert,       \* the certificate each connection was admitted with
    sessions,   \* active_sessions
    due,        \* tenants whose drop_tenant_sessions is scheduled
    dropping,   \* tenants whose drop_tenant_sessions is running
    writers,    \* the writers it has still to close
    \* history, in no variable of the code
    promised,   \* what the last call that returned made of each certificate,
                \* and what calls that raised since were to make of it
    frozen,     \* tenants that were frozen and not unlocked since
    raced,      \* a tenant was admitted while its sessions were dropped
    shut        \* certificates locked since before a drop, or restart, that has ended

table == <<disk, ram>>
gateway == <<at, cert, sessions, due, dropping, writers>>
history == <<promised, frozen, raced, shut>>
vars == <<table, gateway, history>>

Entries == {"absent", "open", "locked"}
CertsOf(t) == {c \in Certs : TenantOf[c] = t}
Open(k) == at[k] = "open"

\* A certificate that is not locked any more has to be shut anew.
StillShut == shut' = [c \in Certs |-> IF ram'[c] = "locked" THEN shut[c] ELSE "no"]

-----------------------------------------------------------------------------
\* ShadowLedger

\* _save_db: the table in memory was changed, and is sealed or not.
Save(saved) == disk' = IF saved THEN ram' ELSE disk

\* Faulty variant: a seal that failed is not reported.
ReportAlways(c, e, saved) ==
    promised' = [promised EXCEPT ![c] = {e}]

\* A method that sets the entry of one certificate returned, or raised.
Report(c, e, saved) ==
    promised' = [promised EXCEPT ![c] = IF saved THEN {e} ELSE @ \cup {e}]

Set(c, e, saved) ==
    /\ ram' = [ram EXCEPT ![c] = e]
    /\ Save(saved)
    /\ Report(c, e, saved)
    /\ frozen' = IF e = "open" THEN frozen \ {TenantOf[c]} ELSE frozen
    /\ StillShut
    /\ UNCHANGED <<gateway, raced>>

\* add_tenant, which overwrites an entry that is there.
AddTenant(c) == \E saved \in BOOLEAN : Set(c, "open", saved)

\* update_tenant_status; an unknown certificate raises before any change.
UpdateTenantStatus(c, e) ==
    /\ ram[c] # "absent"
    /\ \E saved \in BOOLEAN : Set(c, e, saved)

\* set, delete or update_index: any other method seals the whole table too.
SealOther ==
    /\ disk' = ram
    /\ UNCHANGED <<ram, gateway, history>>

-----------------------------------------------------------------------------
\* OverrideMatrix.trigger_localized_freeze

\* lock_tenant_by_id reads the table from disk again, locks the first entry
\* of the tenant in memory, and raises: _save_db takes no argument.  Nothing
\* catches the exception, so no freeze callback is called.
Freeze(t) ==
    /\ \E c \in CertsOf(t) :
        /\ disk[c] # "absent"
        /\ ram' = [disk EXCEPT ![c] = "locked"]
        /\ promised' = [promised EXCEPT ![c] = @ \cup {"locked"}]
    /\ frozen' = frozen \cup {t}
    /\ StillShut
    /\ UNCHANGED <<disk, gateway, raced>>

\* The ledger does not know the tenant: the table is read again all the same,
\* and the callbacks are called.
FreezeUnknown(t) ==
    /\ \A c \in CertsOf(t) : disk[c] = "absent"
    /\ ram' = disk
    /\ due' = due \cup {t}
    /\ StillShut
    /\ UNCHANGED <<disk, at, cert, sessions, dropping, writers, promised, frozen, raced>>

\* The defender passes no ledger unless its caller has one.
FreezeWithoutLedger(t) ==
    /\ due' = due \cup {t}
    /\ UNCHANGED <<table, at, cert, sessions, dropping, writers, history>>

-----------------------------------------------------------------------------
\* ZeroTrustGateway

\* Faulty variant: the lock is not looked at.
AdmitLocked(k, c) ==
    /\ at[k] = "none"
    /\ \A t \in Tenants : k \notin writers[t]
    /\ ram[c] # "absent"
    /\ at' = [at EXCEPT ![k] = "open"]
    /\ cert' = [cert EXCEPT ![k] = c]
    /\ sessions' = [sessions EXCEPT ![TenantOf[c]] = @ \cup {k}]
    /\ raced' = (raced \/ TenantOf[c] \in dropping)
    /\ UNCHANGED <<table, due, dropping, writers, promised, frozen, shut>>

\* handle_client up to its first await: look the certificate up, admit it and
\* register the session.  Unknown and locked certificates are turned away.  A
\* writer that drop_tenant_sessions still holds is not that of a new client.
Admit(k, c) ==
    /\ at[k] = "none"
    /\ \A t \in Tenants : k \notin writers[t]
    /\ ram[c] = "open"
    /\ at' = [at EXCEPT ![k] = "open"]
    /\ cert' = [cert EXCEPT ![k] = c]
    /\ sessions' = [sessions EXCEPT ![TenantOf[c]] = @ \cup {k}]
    /\ raced' = (raced \/ TenantOf[c] \in dropping)
    /\ UNCHANGED <<table, due, dropping, writers, promised, frozen, shut>>

\* Faulty variant: the handler ends without unregistering its session.
DisconnectRegistered(k) ==
    /\ at[k] # "none"
    /\ at' = [at EXCEPT ![k] = "none"]
    /\ cert' = [cert EXCEPT ![k] = NoCert]
    /\ UNCHANGED <<table, sessions, due, dropping, writers, history>>

\* The client hangs up, or the handler of a severed connection reads its end.
Disconnect(k) ==
    /\ at[k] # "none"
    /\ at' = [at EXCEPT ![k] = "none"]
    /\ cert' = [cert EXCEPT ![k] = NoCert]
    /\ sessions' = [sessions EXCEPT ![TenantOf[cert[k]]] = @ \ {k}]
    /\ UNCHANGED <<table, due, dropping, writers, history>>

Sever(k) == at' = [at EXCEPT ![k] = IF @ = "none" THEN "none" ELSE "severed"]

Locked(t) == {c \in CertsOf(t) : ram[c] = "locked"}

\* drop_tenant_sessions copies the writers and closes the first one ...
DropFirst(t) ==
    /\ t \in due
    /\ t \notin dropping
    /\ due' = due \ {t}
    /\ \E k \in sessions[t] :
        /\ Sever(k)
        /\ writers' = [writers EXCEPT ![t] = sessions[t] \ {k}]
    /\ dropping' = dropping \cup {t}
    /\ shut' = [c \in Certs |-> IF c \in Locked(t) THEN "closing" ELSE shut[c]]
    /\ UNCHANGED <<table, cert, sessions, promised, frozen, raced>>

\* ... of a tenant that has sessions at all ...
DropNobody(t) ==
    /\ t \in due
    /\ t \notin dropping
    /\ sessions[t] = {}
    /\ due' = due \ {t}
    /\ shut' = [c \in Certs |-> IF c \in Locked(t) THEN "shut" ELSE shut[c]]
    /\ UNCHANGED <<table, at, cert, sessions, dropping, writers, promised, frozen, raced>>

\* ... awaits that it is closed, and closes the next one ...
DropNext(t) ==
    /\ \E k \in writers[t] :
        /\ Sever(k)
        /\ writers' = [writers EXCEPT ![t] = @ \ {k}]
    /\ UNCHANGED <<table, cert, sessions, due, dropping, history>>

\* Faulty variant: the registry is cleared after the first writer.
DropEndEarly(t) ==
    /\ t \in dropping
    /\ dropping' = dropping \ {t}
    /\ writers' = [writers EXCEPT ![t] = {}]
    /\ sessions' = [sessions EXCEPT ![t] = {}]
    /\ shut' = [c \in Certs |->
                  IF c \in CertsOf(t) /\ shut[c] = "closing" THEN "shut" ELSE shut[c]]
    /\ UNCHANGED <<table, at, cert, due, promised, frozen, raced>>

\* ... and clears the registry, whoever is in it by now.
DropEnd(t) ==
    /\ t \in dropping
    /\ writers[t] = {}
    /\ dropping' = dropping \ {t}
    /\ sessions' = [sessions EXCEPT ![t] = {}]
    /\ shut' = [c \in Certs |->
                  IF c \in CertsOf(t) /\ shut[c] = "closing" THEN "shut" ELSE shut[c]]
    /\ UNCHANGED <<table, at, cert, due, writers, promised, frozen, raced>>

\* The daemon is killed, started and unlocked again, which drops everybody.
Crash ==
    /\ ram' = disk
    /\ at' = [k \in Conns |-> "none"]
    /\ cert' = [k \in Conns |-> NoCert]
    /\ sessions' = [t \in Tenants |-> {}]
    /\ due' = {}
    /\ dropping' = {}
    /\ writers' = [t \in Tenants |-> {}]
    /\ shut' = [c \in Certs |-> IF ram'[c] = "locked" THEN "shut" ELSE "no"]
    /\ UNCHANGED <<disk, promised, frozen, raced>>

-----------------------------------------------------------------------------
Init ==
    /\ disk = [c \in Certs |-> "absent"]
    /\ ram = disk
    /\ at = [k \in Conns |-> "none"]
    /\ cert = [k \in Conns |-> NoCert]
    /\ sessions = [t \in Tenants |-> {}]
    /\ due = {}
    /\ dropping = {}
    /\ writers = [t \in Tenants |-> {}]
    /\ promised = [c \in Certs |-> {"absent"}]
    /\ frozen = {}
    /\ raced = FALSE
    /\ shut = [c \in Certs |-> "no"]

Ledger ==
    \/ \E c \in Certs : AddTenant(c)
    \/ \E c \in Certs, e \in {"open", "locked"} : UpdateTenantStatus(c, e)
    \/ SealOther

Override == \E t \in Tenants : Freeze(t) \/ FreezeUnknown(t) \/ FreezeWithoutLedger(t)

Gateway ==
    \/ \E k \in Conns, c \in Certs : Admit(k, c)
    \/ \E k \in Conns : Disconnect(k)
    \/ \E t \in Tenants : DropFirst(t) \/ DropNobody(t) \/ DropNext(t) \/ DropEnd(t)

Next ==
    \/ Ledger
    \/ Override
    \/ Gateway
    \/ Crash

Spec == Init /\ [][Next]_vars

-----------------------------------------------------------------------------
\* Types, and: the registry holds only connections of the tenant itself whose
\* handler has not ended, so that nothing is ever severed in their place.
TypeOK ==
    /\ disk \in [Certs -> Entries]
    /\ ram \in [Certs -> Entries]
    /\ at \in [Conns -> {"none", "open", "severed"}]
    /\ cert \in [Conns -> Certs \cup {NoCert}]
    /\ \A k \in Conns : at[k] = "none" <=> cert[k] = NoCert
    /\ sessions \in [Tenants -> SUBSET Conns]
    /\ \A t \in Tenants : \A k \in sessions[t] : cert[k] # NoCert /\ TenantOf[cert[k]] = t
    /\ due \subseteq Tenants
    /\ dropping \subseteq Tenants
    /\ writers \in [Tenants -> SUBSET Conns]
    /\ promised \in [Certs -> SUBSET Entries]
    /\ frozen \subseteq Tenants
    /\ raced \in BOOLEAN
    /\ shut \in [Certs -> {"no", "closing", "shut"}]

\* What the last method that returned made of a tenant is what the gateway
\* sees and what a restart finds, unless a later call for the same tenant
\* raised; the calls for other tenants, their failed seals and the reload in
\* lock_tenant_by_id never undo it.
StatusIsDurable ==
    \A c \in Certs : {disk[c], ram[c]} \subseteq promised[c]

\* Unless a tenant was admitted while its sessions were being dropped, every
\* connection that is served is in the registry, where a drop finds it.
SessionsTracked ==
    ~raced => \A k \in Conns : Open(k) => k \in sessions[TenantOf[cert[k]]]

\* Under the same condition, locking first and dropping then is enough: a
\* certificate that was locked before the drop began, and still is after the
\* drop has ended, has no open connection; nor has one that was locked when
\* the daemon started.
LockThenSever ==
    ~raced => \A k \in Conns : Open(k) => shut[cert[k]] # "shut"

\* "Silently neutralizes a single user by locking the ledger and severing
\* sockets" (interlock.py:65): a tenant that was frozen through the ledger, and
\* not unlocked since, is locked, and its connections are severed or a drop of
\* its sessions is on the way.
FreezeNeutralizes ==
    \A t \in frozen :
        /\ \E c \in CertsOf(t) : ram[c] = "locked"
        /\ \A k \in Conns :
              Open(k) /\ TenantOf[cert[k]] = t => t \in due \cup dropping
=============================================================================
