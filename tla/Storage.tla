------------------------------ MODULE Storage ------------------------------
(***************************************************************************)
(* How a secret is kept in parts: StoragePipeline (koot/storage/pipeline.py)*)
(* over a storage adapter (adapters/local_fs.py, sqlite_db.py) and the     *)
(* index of ShadowLedger, with GhostPlugin (koot/plugins/ghost.py) wiping  *)
(* expired envelopes in the same store.  Nothing locks a secret: callers   *)
(* work on it at the same time, one step for each call of the adapter.     *)
(*                                                                         *)
(* A payload is cut into parts as the RAM of the moment allows, so that    *)
(* parts fit together only when they are of the same cut.  The class       *)
(* SecretEnvelope that is shipped has no wrap, which then raises before    *)
(* the first part is written; tests put a complete one in its place.       *)
(* GhostPlugin calls a storage that knows the tenant already, as the one   *)
(* of its tests does; with a StorageDriver its first read raises.          *)
(***************************************************************************)
EXTENDS Integers, Sequences

CONSTANTS
    Secrets,        \* pairs of a tenant and a key
    Tenants, TenantOf,
    Payloads,       \* payloads that are not empty
    Mortal,         \* those whose envelope has an expires_at in the past
    Empty,          \* the empty payload
    Absent, Torn, Noise,    \* no part; part of a part; a part that was wiped
    MaxParts,       \* bound: parts of a payload
    Workers,        \* threads that save, retrieve or purge
    MaxSaves,       \* bound: saves
    MaxFaults       \* bound: failed writes and seals, and crashes

NoCut == [p |-> Empty, n |-> 0]
Cuts == [p : Payloads, n : 1..MaxParts] \union {NoCut}

\* The i-th part of a cut, in its envelope.
Part(c, i) == [cut |-> c, i |-> i]
Parts == {Part(c, i) : c \in Cuts, i \in 1..MaxParts}

ASSUME StorageAssumption ==
    /\ TenantOf \in [Secrets -> Tenants] /\ MaxParts \in Nat
    /\ Mortal \subseteq Payloads /\ Absent \notin Cuts
    /\ Parts \intersect {Absent, Torn, Noise} = {} /\ Noise # Absent

VARIABLES
    envelope,   \* "shipped" or "complete"
    driver,     \* "local_fs" or "sqlite"
    store,      \* what the adapter holds
    ram, disk,  \* how many parts the manifest of each secret lists, here and sealed
    job,        \* what each worker is at
    saves, faults,
    \* history, in no variable of the code
    good,       \* the cut a secret was saved in, by a save nothing disturbed
    lost        \* secrets with a failed write, a torn part or a purge

given == <<envelope, driver>>
index == <<ram, disk>>
bounds == <<saves, faults>>
vars == <<given, store, index, job, bounds, good, lost>>

Unlisted == -1

\* Faulty variant: the name of a part leaves out whose it is.
ChunkIdOfAll(s, i) == <<i>>

\* blake2b of tenant and key, the number of the part, and the prefix that
\* derive_secure_key makes of the tenant.
ChunkId(s, i) == <<TenantOf[s], s, i>>
Chunks == {ChunkId(s, i) : s \in Secrets, i \in 1..MaxParts}

Job(op, s, cut, n, calm) ==
    [op |-> op, s |-> s, cut |-> cut, at |-> 0, n |-> n, got |-> <<>>, calm |-> calm]

\* Nothing that was begun is saving s.
Calm(s) == \A w \in Workers : job[w].op = "save" => job[w].s # s

Become(w, j) == job' = [job EXCEPT ![w] = j]

\* Whoever else is at the same secret is disturbed.
Upset(w, j) == job' = [x \in Workers |->
                         IF x = w THEN j ELSE [job[x] EXCEPT !.calm = @ /\ job[x].s # j.s]]

Proceed(w) == Become(w, [job[w] EXCEPT !.at = @ + 1])
Idle(w) == Job("idle", job[w].s, NoCut, 0, FALSE)
Rest(w) == Become(w, Idle(w))
Fault == faults < MaxFaults /\ faults' = faults + 1

\* _save_db seals the whole table, or raises.
Seal == disk' = ram' /\ UNCHANGED faults
SealFails == UNCHANGED disk /\ Fault

-----------------------------------------------------------------------------
\* StoragePipeline.save_secret

\* Faulty variant: the index is written before the parts.
BeginSaveIndexed(w, s, c) ==
    /\ job[w].op = "idle" /\ saves < MaxSaves
    /\ envelope = "complete" \/ c.n = 0
    /\ Upset(w, Job("save", s, c, c.n, Calm(s)))
    /\ saves' = saves + 1
    /\ ram' = [ram EXCEPT ![s] = c.n] /\ disk' = ram'
    /\ UNCHANGED <<given, store, faults, good, lost>>

\* The chunker cuts the payload, and the parts follow.
BeginSave(w, s, c) ==
    /\ job[w].op = "idle" /\ saves < MaxSaves
    /\ envelope = "complete" \/ c.n = 0
    /\ Upset(w, Job("save", s, c, c.n, Calm(s)))
    /\ saves' = saves + 1
    /\ UNCHANGED <<given, store, index, faults, good, lost>>

Saving(w) == job[w].op = "save" /\ job[w].at < job[w].n
Target(w) == ChunkId(job[w].s, job[w].at + 1)

WritePart(w) ==
    /\ Saving(w)
    /\ store' = [store EXCEPT ![Target(w)] = Part(job[w].cut, job[w].at + 1)]
    /\ Proceed(w)
    /\ good' = [good EXCEPT ![job[w].s] = Absent]
    /\ UNCHANGED <<given, index, bounds, lost>>

\* What a write that fails makes of the part that was there: SQLite rolls back;
\* the file was truncated, unless it could not be opened.
RowAfter(c) == {c}
FileAfter(c) == {c, Torn}

\* write returns False, which nobody looks at.
WriteFails(w) ==
    /\ Saving(w) /\ Fault
    /\ \E c \in IF driver = "sqlite" THEN RowAfter(store[Target(w)]) ELSE FileAfter(store[Target(w)]) :
            store' = [store EXCEPT ![Target(w)] = c]
    /\ Become(w, [job[w] EXCEPT !.at = @ + 1, !.calm = FALSE])
    /\ good' = [good EXCEPT ![job[w].s] = Absent]
    /\ lost' = lost \union {job[w].s}
    /\ UNCHANGED <<given, index, saves>>

\* update_index, last, in the first entry of the tenant, or one made for it.
UpdateIndex(w) ==
    LET s == job[w].s IN
    /\ job[w].op = "save" /\ job[w].at = job[w].n
    /\ ram' = [ram EXCEPT ![s] = job[w].n]
    /\ Rest(w)
    /\ \/ Seal /\ good' = [good EXCEPT ![s] = IF job[w].calm THEN job[w].cut ELSE Absent]
       \/ SealFails /\ good' = [good EXCEPT ![s] = Absent]
    /\ UNCHANGED <<given, store, saves, lost>>

-----------------------------------------------------------------------------
\* StoragePipeline.retrieve_secret

\* Faulty variant: the last part is left out.
BeginReadShort(w, s) ==
    /\ job[w].op = "idle" /\ ram[s] > 0
    /\ Become(w, Job("read", s, NoCut, ram[s] - 1, Calm(s)))
    /\ UNCHANGED <<given, store, index, bounds, good, lost>>

\* "Secret not found." unless the manifest lists something.
BeginRead(w, s) ==
    /\ job[w].op = "idle" /\ ram[s] > 0
    /\ Become(w, Job("read", s, NoCut, ram[s], Calm(s)))
    /\ UNCHANGED <<given, store, index, bounds, good, lost>>

\* SecretEnvelope.deserialize raises for anything but an envelope.
Deserializes(x) == x \in Parts

ReadPart(w) ==
    /\ job[w].op = "read" /\ job[w].at < job[w].n
    /\ IF Deserializes(store[Target(w)])
       THEN Become(w, [job[w] EXCEPT !.at = @ + 1, !.got = Append(@, store[Target(w)])])
       ELSE Rest(w)
    /\ UNCHANGED <<given, store, index, bounds, good, lost>>

Return(w) ==
    /\ job[w].op = "read" /\ job[w].at = job[w].n
    /\ Rest(w)
    /\ UNCHANGED <<given, store, index, bounds, good, lost>>

-----------------------------------------------------------------------------
\* GhostPlugin.scan_and_purge of one key: an envelope whose MAC holds and whose
\* time is over is overwritten at random, then with zeros, and deleted.
Expired(x) == x \in Parts /\ x.cut.p \in Mortal

\* Faulty variant: the time in the envelope is not looked at.
BeginPurgeAny(w, s, i) ==
    /\ job[w].op = "idle" /\ store[ChunkId(s, i)] \in Parts
    /\ Become(w, Job("purge", s, NoCut, i, Calm(s)))
    /\ UNCHANGED <<given, store, index, bounds, good, lost>>

BeginPurge(w, s, i) ==
    /\ job[w].op = "idle" /\ Expired(store[ChunkId(s, i)])
    /\ Become(w, Job("purge", s, NoCut, i, Calm(s)))
    /\ UNCHANGED <<given, store, index, bounds, good, lost>>

Wipe(w) ==
    /\ job[w].op = "purge"
    /\ store' = [store EXCEPT ![ChunkId(job[w].s, job[w].n)] =
                    IF job[w].at < 2 THEN Noise ELSE Absent]
    /\ Upset(w, IF job[w].at < 2 THEN [job[w] EXCEPT !.at = @ + 1] ELSE Idle(w))
    /\ good' = [good EXCEPT ![job[w].s] = Absent]
    /\ lost' = lost \union {job[w].s}
    /\ UNCHANGED <<given, index, bounds>>

-----------------------------------------------------------------------------
\* ShadowLedger.add_tenant of a certificate that the ledger has: its entry is
\* replaced, and the manifests are in it if it is the first of the tenant.
AddTenant(t) ==
    LET Keep(f, none) == [s \in Secrets |-> IF TenantOf[s] = t THEN none ELSE f[s]] IN
    /\ ram' = Keep(ram, Unlisted)
    /\ Seal \/ SealFails
    /\ good' = Keep(good, Absent)
    /\ UNCHANGED <<given, store, job, saves, lost>>

\* The process dies; a file that was being written stays torn.
Crash ==
    /\ Fault
    /\ \E cut \in SUBSET {w \in Workers : driver = "local_fs" /\ Saving(w)} :
        LET torn == {Target(w) : w \in cut} IN
        /\ store' = [c \in Chunks |-> IF c \in torn THEN Torn ELSE store[c]]
        /\ good' = [s \in Secrets |-> IF \E w \in cut : job[w].s = s THEN Absent ELSE good[s]]
        /\ lost' = lost \union {job[w].s : w \in cut}
    /\ ram' = disk
    /\ job' = [w \in Workers |-> Idle(w)]
    /\ UNCHANGED <<given, disk, saves>>
-----------------------------------------------------------------------------
Init ==
    /\ envelope \in {"shipped", "complete"}
    /\ driver \in {"local_fs", "sqlite"}
    /\ store = [c \in Chunks |-> Absent]
    /\ ram = [s \in Secrets |-> Unlisted] /\ disk = ram
    /\ \E s \in Secrets : job = [w \in Workers |-> Job("idle", s, NoCut, 0, FALSE)]
    /\ saves = 0 /\ faults = 0
    /\ good = [s \in Secrets |-> Absent] /\ lost = {}

Step(w) ==
    \/ WritePart(w) \/ WriteFails(w) \/ UpdateIndex(w)
    \/ ReadPart(w) \/ Return(w)
    \/ Wipe(w)

Begin(w, s) ==
    \/ \E c \in Cuts : BeginSave(w, s, c)
    \/ BeginRead(w, s)
    \/ \E i \in 1..MaxParts : BeginPurge(w, s, i)

Next ==
    \/ \E w \in Workers : Step(w) \/ \E s \in Secrets : Begin(w, s)
    \/ \E t \in Tenants : AddTenant(t)
    \/ Crash

Spec == Init /\ [][Next]_vars

-----------------------------------------------------------------------------
Jobs == [op : {"idle", "save", "read", "purge"}, s : Secrets, cut : Cuts, at : Nat, n : Nat,
         got : Seq(Parts), calm : BOOLEAN]

TypeOK ==
    /\ envelope \in {"shipped", "complete"} /\ driver \in {"local_fs", "sqlite"}
    /\ store \in [Chunks -> Parts \union {Absent, Torn, Noise}]
    /\ {ram, disk} \subseteq [Secrets -> {Unlisted} \union (0..MaxParts)]
    /\ job \in [Workers -> Jobs]
    /\ \A w \in Workers : job[w].op = "save" => job[w].at <= job[w].n /\ job[w].n = job[w].cut.n
    /\ saves \in Nat /\ faults \in Nat
    /\ good \in [Secrets -> Cuts \union {Absent}] /\ lost \subseteq Secrets

\* A save that returned is what is read from then on, here and after a restart,
\* until the next save of the same secret writes its first part: if no write of
\* it failed, no other save or purge of that secret overlapped it, the seal held,
\* and the tenant was not provisioned again nor the secret purged since.
SavedIsReadable ==
    \A s \in Secrets : good[s] # Absent =>
        /\ ram[s] = good[s].n /\ disk[s] = good[s].n
        /\ \A i \in 1..good[s].n : store[ChunkId(s, i)] = Part(good[s], i)

\* What the index lists is stored: a save that dies half-way leaves the index
\* as it was, and whatever it lists can be read, unless a write failed, a file
\* was torn, or the secret was purged, on SQLite only by the first and the last.
IndexedIsStored ==
    \A s \in Secrets \ lost :
        \A i \in 1..MaxParts : i <= ram[s] \/ i <= disk[s] => store[ChunkId(s, i)] \in Parts

\* A retrieve with which no save overlaps returns the parts of one payload, each
\* of them once and in order, if the secret was saved well: parts of two saves
\* are never mixed then.
ReadsAreWhole ==
    \A w \in Workers :
        LET j == job[w] IN
        j.op = "read" /\ j.calm /\ j.at = j.n /\ good[j.s] # Absent =>
            /\ Len(j.got) = good[j.s].n
            /\ \A i \in 1..good[j.s].n : j.got[i] = Part(good[j.s], i)

\* A purge, unless a save of the secret overlapped it, is never at a part of a
\* payload that was saved well and has not expired; and as long as nothing
\* fails, whatever is wiped is what a purge is at, and will be deleted: no other
\* part is overwritten on the way.
PurgeHitsExpired ==
    /\ \A w \in Workers :
        LET j == job[w] IN
        j.op = "purge" /\ j.calm /\ good[j.s] # Absent /\ j.n <= good[j.s].n =>
            good[j.s].p \in Mortal
    /\ faults = 0 =>
        \A c \in Chunks : store[c] = Noise =>
            \E w \in Workers :
                job[w].op = "purge" /\ job[w].at > 0 /\ ChunkId(job[w].s, job[w].n) = c
=============================================================================
