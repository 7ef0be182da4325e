# TLA+ models of koot

This directory holds a verification development of koot: TLA+ modules translated
from the Python sources, TLC configurations that check them on small instances,
and proofs of the main results for every instance, checked by TLAPS. Paths like
`identity/ledger.py` are relative to `koot/` in the repository.

- `*.tla` without a prefix: the specifications, one per component, and their
  abstract specifications.
- `MC*.tla`, `*.cfg`: instances for TLC. Small components that share nothing are checked
  by one instance, in which one of them moves beside the others at rest (`part`).
- `*Proofs.tla`: theorems and proofs. `StorageProofs` also covers Chunkers,
  `GovernanceProofs` AuditLog and Defence, `KeyProofs` Unlock and Enclave; of each pair one
  module has the component's name in `Init`, `Next` and `Spec`, so that both can be extended.
- `PROJECT.json`: components, runs, mutants, the source lines of every definition,
  findings, hazards, theorems.

To check a run: `tlc -config MCVault.cfg MCVault`. To check a proof:
`tlapm VaultProofs.tla`.

## 1. Inventory

koot is a local secrets vault with a daemon. A Unix socket serves the owner, an mTLS
port serves "operatives" (tenants), a governance layer watches and can freeze, halt
or destroy. Most components are small classes that share files and attributes; the
difficulty is in what happens between two of their statements.

| Component | State it keeps | Operations | Talks to | Module |
|---|---|---|---|---|
| Shadow Ledger (`identity/ledger.py`) | decrypted map in RAM (secrets, tenants), `ledger.shadow` and `.tmp` on disk | load, seal, set/get/delete, tenants: add, lock, index; shred | IPC gateway, mTLS gateway, interlock, storage pipeline | Vault, Tenants, Storage |
| Initialisation (`scripts/init_koot.py`) | `~/.koot/.salt`, birth file of the ledger | one interactive run | disk shared with the daemon | Vault, Unlock |
| IPC gateway (`network/ipc/server.py`) | the open ledger (`active_ledger`) | unlock, add, read, delete, nuke | ledger, machine identity | Vault, Unlock |
| mTLS gateway (`network/gateway/mtls_server.py`) | sockets per tenant (`active_sessions`) | admit, serve, drop a tenant's sessions | tenant table of the ledger | Tenants |
| Override interlock (`governance/override/interlock.py`) | halt flag, callbacks | halt, reset, abort, localized freeze, provision | ledger, gateways (callbacks), dead man's switch (flag) | DeadManSwitch, Tenants |
| Dead man's switch (`governance/override/nuke.py`) | armed flag, timeout, last heartbeat, stop event, monitor thread | arm, heartbeat, disarm, trigger, monitor loop | interlock, file system | DeadManSwitch |
| Audit log (`governance/audit/log.py`) | `audit.log`, renamed logs, a lock | log, rotate, seal in a worker | file system | AuditLog |
| Heuristics, defender (`governance/analytics/`) | limits and actions in force | reload, evaluate, handle a threat | interlock | Defence |
| Registry bus (`core/bus/registry.py`) | mounted plugins: processes and pipes | mount, dispatch, shut down | plugins | Registry |
| Storage pipeline and adapters (`storage/`) | chunk store, index in the ledger | save, retrieve | ledger, file system or SQLite | Storage |
| Ghost plugin (`plugins/ghost.py`) | none | purge what has expired | chunk store | Storage |
| Chunkers (`storage/chunking/`) | read size, stable reads, buffer | stream of blocks | hardware sensor, Merkle tree | Chunkers |
| Merkle integrity (`storage/integrity/merkle.py`) | the table of nodes | build, proof, verification | migration | Merkle |
| Migration (`storage/migration/differ.py`) | none between calls | differential sync | two stores | Migration |
| C enclave (`crypto/enclave/`) | locked pages with keys | allocate, destroy | entropy pipeline | Enclave |
| Entropy pipeline, machine identity (`identity/derivation`, `identity/machine`) | duress flag, callbacks, key id | derive, sign, nuke | unlock, initialisation | Unlock |
| Analytics engine, environment sensor, schema matrix, ciphers, packager, other plugins, CLI, REST bridge, scripts | counters, or none | conversions, queries | - | - |

Behaviours that are hard, and the properties that answer them:

- **Two processes, one directory, no lock** (initialisation and daemon), **crashes
  between two file accesses**, **seals that fail after RAM was changed**: a ledger on
  disk always opens with its birth password; an acknowledged add is durable; the disk only
  ever holds whole versions of the map. That a nuke destroys what it announces does not hold.
- **Threads without a lock** (dead man's switch): one monitor; silence is noticed;
  a halt disarms.
- **Threads with a lock and workers without it, accesses that raise, a crash** (audit
  log): an entry is lost only with a log that shares its second with another, and never
  doubled; the chain of hashes is true and has no gap that no failure explains; rotation
  comes to an end.
- **Coroutines that change state across `await`** (mTLS gateway) against **a table
  whose seals fail** (tenants): a reported status is durable; the registry knows every
  served connection; lock and then drop leaves nothing open.
- **Part by part writes with the index last** (storage), against concurrent saves,
  retrieves, purges, failing writes and crashes: what a save that nothing disturbed
  stored is readable, the index lists only what is stored, a read is of one payload.
- **A generator that its consumer may drop, over a buffer that outlives it**
  (chunkers): nothing is lost or repeated; the leaves of the Merkle tree do not depend
  on the RAM of the moment.
- **A source that changes, chunks that are lost, an engine that dies** during a copy
  (migration): success means chunks that match the manifest; how much a root tells.
- **Several threads on one pipe, processes that die, a shutdown that does not wait**
  (registry bus): calls that do not cross get their own answers; every call ends unless a
  message was torn; whatever shutdown found goes down.
- **A reload between two look-ups** (heuristics): alerts are those of one manifest;
  nobody is frozen for failed authentications.
- **System calls that do not count** (`munlock` of a page that keys share) at **the limit
  of locked memory** (enclave).
- **A key made anew at each unlock of what the machine is like today** (unlock): exactly
  the owner, on a machine like the one of the birth, is admitted.

The full list, each at its line, is under `hazards` in `PROJECT.json`.

## 2. Modules

### SealedStore and Vault

`SealedStore` is what the ledger promises: a stored map, a view of it in memory, and
the order to destroy. The stored map changes only from one whole map to another by
sealing the view; it disappears only after an explicit order, or when its owner
discards it with no session open.

`Vault` is the code: `init_koot.py`, the request handler of the IPC gateway and the
ledger they use.

| Variable | Code |
|---|---|
| `salt`, `ledger`, `tmp` | `~/.koot/.salt`, `ledger.shadow`, `ledger.shadow.tmp` |
| `session` | `LocalIPCGateway.active_ledger`: its `master_key` and `db` |
| `step`, `req` | where the handler stands in `_save_db` or `shred`, and for which change |
| `init`, `password` | where the script stands; the password it was given |
| `acked`, `unacked` | history: the adds clients were told of, and those that raised |
| `nuked` | history: a client was told that this vault is nuked |

One action is one access to the file system (`InitSalt`, `WriteTmp`, `Swap`,
`ShredLedger`, ...); `Crash` and `InitDies` come at any point, and a process that
dies in the middle of writing the temporary file leaves a torn one. A seal may fail at
either of its two steps; the map in memory then keeps the change, as in the code.
`vault.read` changes nothing and is left out, and so is every unlock that fails: it
leaves the state alone. `WipeLocked` is the operator emptying `~/.koot`, as the script's
refusal advises, while no session is open.

`Vault` implements `SealedStore`: the stored map is the readable ledger file (torn or
shredded files are no map), the view is the session's map, and the session is
condemned from the first step of a shred.

### DeadManSwitch

`NukeProtocol` with its shared attributes as variables: `armed`, `stop`, `timeout`,
`age` (time since the last heartbeat), `thread`. `pc` is where each operator thread
stands, `mon` where each monitor thread stands, `elapsed` the value it read. One
action is one access to one attribute, since no lock protects them. `IsAlive` is true
until the thread has really ended (`Exit`), which is later than its decision to end.
`Halt` is the interlock's flag going up or down. Calls with wrong credentials change
nothing and are left out.

### EpochLog and AuditLog

`EpochLog` is what the audit log promises: a chain of logs. An entry goes into the last
log, and only if it is in none yet; the hash of a log is recorded at most once, in a later
log, when nothing is written to the first any more. Nothing is taken out of a log, with one
exception: a log that ended in the same second as another may vanish as a whole, and its
hash be recorded twice (`Shared`, `Lose`, `End`).

`AuditLog` is the code, `AuditLogger`: `active`, `processing` and `sealed` are the files,
named by the second of their rotation; `lock` is the lock; `pc` and `entry` belong to the
loggers and to the workers of rotations. `Acquire ... Write` is `log`, `Rename`, `Begin`,
`Spawn` is `_rotate_unsafe`, `Hash` and `Seal` is `_async_seal`, which then logs an
`EPOCH_SEALED` entry through the same `log`. A log never changes once renamed, so its
content and its hash are both represented by the number of its epoch; sizes are numbers of
lines. `second` is the second of the last rotation: the next one falls into it or into a
later one, and `os.rename` and the seal replace what is there under their name. The clock is
not set back.

`Raise` is an access that raises, wherever one is made: the lock is released, the call ends
with the exception, and a worker swallows it (log.py:110-112). It leaves what the code
leaves: a renamed log without a worker, no `audit.log`, or one that the failing access had
created and that has no `EPOCH_START` line (`Headless`). A line that was written in part
counts as none. `Crash` kills the process and starts it again; nobody looks for
`.processing` files, as in `__init__`. `when`, `acked`, `linked` and `failed` are history:
the second of each log, the log of each acknowledged entry and of each hash, and the logs
whose worker raised or was not started.

`AuditLog` implements `EpochLog`: a log of the chain is what the files hold of its epoch, be it
in `audit.log`, a `.processing` or a `.sealed` file, so that a seal that replaces nothing, an
access that raises, a crash, and the gap between a rename and the new `audit.log` change
nothing.

### Tenants

The tenant table of the ledger (`disk`, `ram`), the mTLS gateway (`at`, `cert`,
`sessions`) and `trigger_localized_freeze` with a callback that schedules
`drop_tenant_sessions`. A ledger method runs under the ledger's lock and is one action
with two outcomes: sealed, or raised with the change left in memory (how a seal goes
inside is `Vault`'s matter). The gateway's coroutines change places where they await:
`Admit` is everything up to the first read, `DropFirst`, `DropNext` and `DropEnd` are
the loop of `drop_tenant_sessions` between its awaits. `Freeze` is what the code does:
it reads the table from disk, locks the entry in memory, and raises, because
`_save_db` takes no argument. No freeze callback is registered anywhere in the
repository outside a test; the model uses the gateway the way it offers itself. It
also gives the gateway a ledger, which `start_core.py` announces for later and nothing
does.

### Storage

`StoragePipeline` over an adapter, the index of the ledger, and `GhostPlugin` in the
same store. `store` is what the adapter holds under each chunk id, `ram` and `disk` how
many parts the manifest of each secret lists, `job` where each thread stands. One action
is one call of the adapter: `BeginSave`, `WritePart` or `WriteFails` (whose result nobody
looks at), `UpdateIndex`; `BeginRead`, `ReadPart`, `Return`; `BeginPurge` and the three
steps of `Wipe`. `AddTenant` is a certificate provisioned again, whose new entry has no
manifests. `Crash` may leave the file that is being written torn, on the local file system
only; SQLite rolls back. A *cut* is a payload together with the number of parts that the
RAM of the moment made of it, since parts fit together only if they are of one cut; a part is a
cut and a number in it, and a read gathers a sequence of parts. `good`
and `lost` are history: the cut a secret was last saved in by a save nothing disturbed,
and the secrets whose parts may be missing.

`envelope` says whether `SecretEnvelope` is the shipped class, which has no `wrap` and makes
every save of a payload that is not empty raise, or a complete one as tests put in its place.

### Chunkers

Both generators, resumed by their consumer. Blocks are intervals of the file in units of
16 KiB. `BufferedAdaptiveChunker` goes `Fill`, `Drain`, `ClearTail`; `AdaptiveChunker`
reads and grows or shrinks `span`. The evaluation of the hardware before each read is a
choice of the environment, and an operator may force a size. A consumer may drop a
generator at a yield and a read may raise; the chunker and its buffer stay.

### Merkle and Migration

`Merkle` is the hash tree as operators: `Levels` builds the table of nodes bottom up,
`RootHash`, `Proof` and `VerifyChunk` read it. A digest is the term it was made of.
`Ancestors` are the indices of `get_proof` on its way up, `Climb` the hashes of `verify_chunk`
on the same way. A level of odd length repeats its last node, as in the code. `Migration` is `sync_envelope`: comparison of roots, delta, transfer
of one chunk after the other, manifest last. Between two chunks the source may publish
a version or lose a chunk, a read may fail, and the engine may die. No adapter in the
repository has the methods that the engine calls, so that both stores are modelled from
those calls.

### Registry

`AdaptiveRegistry` with a queue each way for every pipe: `Mount`, `Send`, the two reads
of `recv` (`ReadHeader`, `ReadBody`), `ReceiveEnd` (the process is gone and `recv` raises),
`Interrupt` (a signal in `recv`), `Serve` (the actor loop), processes that die or that get
SIGTERM (`Terminate`), and `shutdown_all` step by step: `ShutdownSend`, `ShutdownJoin`, which
signals a process that is still up and does not wait for it, and what a broken pipe or a
dictionary that changed during the loop raises. Nothing locks the pipe between the two
reads: another thread that reads the length in between, or an interrupt there, tears the
message (`Tear`). From then on the pipe is in `torn`: what is in it is no message any more, and
`recv` raises (`Garbled`) or waits for ever. `mixed` remembers processes with
overlapping or interrupted calls, whose answers may cross, and `owed` the processes that
`shutdown_all` found mounted.

### Defence

`HeuristicEvaluator` and `AutonomousDefender`. `Reload`, `SetBaselines`, `SetThreats` are
the steps of `reload_rules`; `Pass`, `Breach`, `Alert` those of each check of
`evaluate_tenant_metrics`, which looks up the limit and the action separately; `Handle`
is `handle_threat` with and without a source address.

### Enclave

`allocate_secure_key` and `destroy_secure_key`, one system call at a time, for the threads
of `EnclaveManager`: ctypes releases the GIL. Blocks are smaller than pages and share
them; `mlock` and `munlock` work on pages and do not count; `PinLimit` is the limit of
locked memory, at which `mlock` fails and the block is freed.

### Unlock

The formula for the master key that `init_koot.py` and `vault.unlock` share: the signature
of the machine (a TPM over hostname and salt, or `/etc/machine-id`), the cost class of its
RAM, the password. The machine may change between two unlocks. Beside it runs the
pipeline of an embedding program with duress and terminal passwords, whose callbacks may
raise. Keys are what they are derived from.

## 3. Runs

| Run | Expected | Properties |
|---|---|---|
| `vault` | pass | types, `OpensWithBirthPassword`, `AddsAreDurable`, `ImplementsSealedStore` |
| `vault_nuke` | violated | `NukeShredsAll` |
| `switch` | pass | `OneMonitor`, `SilenceIsNoticed`, `HaltDisarms` |
| `audit` | pass | `EntriesPersist`, `SealRecordsTruthful`, `ChainComplete`, `RotationsSettle`, `ImplementsEpochLog` |
| `audit_second` | violated | `EveryActionRecorded` |
| `tenants` | pass | types, `StatusIsDurable`, `SessionsTracked`, `LockThenSever` |
| `tenants_freeze` | violated | `FreezeNeutralizes` |
| `storage` | pass | `SavedIsReadable`, `IndexedIsStored`, `ReadsAreWhole`, `PurgeHitsExpired` (Storage); `NothingLost`, `CutsAreFixed`, `StreamsEnd` (Chunkers) |
| `migration` | pass | `SuccessIsExact`, `RootFixesChunks`, `ProofsBind` |
| `migration_roots` | violated | `EqualRootsEqualFiles` |
| `registry` | pass | `AnswersMatch`, `ShutdownIsComplete`, `EveryCallEnds`, `ShutdownEnds` |
| `keys_defence` | pass | `OwnerIsAdmitted`, `NukeReachesLedger` (Unlock); `KeysArePinned`, `PinsAreReturned` (Enclave); `AlertsAreOfOneManifest`, `NotFrozenForAuth` (Defence) |

Every property of a passing run has a mutant: a plausible mistake in one action (the
operators commented "Faulty variant") under which TLC finds the property violated. The
type invariants of the modules that no run lists (`DeadManSwitch`, `AuditLog`, `Storage`,
`Chunkers`, `Migration`, `Registry`, `Defence`, `Enclave`, `Unlock`) are proved instead, see
section 6.

### What the violated runs found

- **A freeze that does not hold** (`tenants_freeze`). `lock_tenant_by_id` raises a
  TypeError after it locked in memory; no socket is severed, and the next freeze reads
  the table from disk again and drops the lock.
- **A nuke that leaves things behind** (`vault_nuke`). The handler announces to shred
  database and salt, and its test asserts that both are gone. Nothing removes the salt. While no vault
  is unlocked it does not call `shred` at all and still reports "System Nuked. Ledger
  destroyed". And `shred` swallows what goes wrong with a file, so that the ledger, or a
  temporary copy of it, may outlive a nuke that was reported as done.
- **A log that is lost** (`audit_second`). The audit log claims that every action is
  recorded. Renamed logs are named by whole seconds: of two that are rotated in one second
  one replaces the other, with the entries whose `log` calls had returned.
- **Equal roots, different files** (`migration_roots`). `differ.py` takes files with equal
  roots for identical. An odd level repeats its last node, so that a file and the same
  file with a repeated tail have one root, and the sync returns at once.

### What the conditions in the properties stand for

Many properties hold under a condition that the code does not ensure. Each condition
names a case in which the modelled code goes wrong, or does what its reader would not
expect:

- **A purged secret comes back** (`Vault`). `delete` removes the alias from memory before
  it seals. If that seal fails, the client is told so; its second attempt finds nothing to
  remove, seals nothing and is told "purged". After a restart the secret is there.
- **"Wipe ~/.koot/ to start fresh"**. Done under an unlocked daemon, the next add writes
  the old map back under the old key, over a new vault if there is one; the salt of that
  key is gone. `WipeLocked` leaves this out.
- **A switch fires after disarm, or after a heartbeat** (`DeadManSwitch`). The monitor
  looked at `is_armed`, or at the last heartbeat, earlier and does not look again before it
  wipes.
- **An armed switch nobody watches** (`Watched` in `SilenceIsNoticed`). `disarm`, then
  `arm` while the old monitor is ending: it is still alive, so none is started.
- **Two monitors** (`contended` in `OneMonitor`). Two threads that arm at once both find no
  live monitor; the thread object of the first is replaced by that of the second, and two
  monitors run, or one of the two `start` calls raises.
- **Logs of one second** (`Clashing` in `EntriesPersist`, `SealRecordsTruthful` and
  `ChainComplete`). See `audit_second`: such a log may be lost, a record may name the file of the
  other one, and the worker of one may find nothing left to seal.
- **A chain that breaks** (`failed`, and no crash, in `ChainComplete`). A crash between rename and
  seal leaves a `.processing` file for ever, and so does a worker that raises, or that
  was never started because `_start_new_epoch` or `start` raised. No one is told.
- **A connection nobody can drop** (`raced` in `SessionsTracked` and `LockThenSever`). While
  `drop_tenant_sessions` awaits a close, a connection of the same tenant registers; the
  `clear` at the end forgets it, and it is still served.
- **Saves that overlap, writes that fail, certificates provisioned again** (`good`,
  `lost` in `Storage`). `write` returning False is ignored and the index lists a part that
  was never stored; two saves of one secret mix their parts; a save over an existing
  secret destroys the old version before the index changes, so that a reader (`calm` in
  `ReadsAreWhole`), or whoever comes after a crash, gets parts of both. A certificate
  provisioned again gets an entry without manifests; the parts stay in the store and
  nothing lists them.
- **A purge that wipes a fresh secret** (`calm` in `PurgeHitsExpired`): the time is
  checked once, the wipe takes three calls. What a purge does without a save beside it is
  to wipe parts of an expired secret; that it wipes no other part holds in any case.
- **A stream that was dropped** (`stale`, `dropped` in `Chunkers`) leaves its bytes in the
  buffer, and the next file begins with them.
- **"Integrity verified"** (`drifted` in `SuccessIsExact`). `differ.py` line 57 logs this for
  what it copied without looking at it: a source that changes during the sync leaves
  chunks that do not match the manifest.
- **Answers that cross** (`mixed` in `AnswersMatch`). Two threads that dispatch to one
  plugin take the first answer in the pipe, whosever it is.
- **A call that waits for ever** (`torn` in `EveryCallEnds`). Two threads that read the
  lengths before either has read the bytes, or an interrupt between the two reads, leave
  bytes that are no message; whoever takes a length from them may wait for bytes that
  nobody sends.
- **Mounted during or over** (`owed` in `ShutdownIsComplete`). A plugin mounted under a
  used name forgets the old process, which runs on after `shutdown_all`; one mounted
  during `shutdown_all` makes its loop raise or is missed. And a process that was sent
  SIGTERM may still run when `shutdown_all` has returned; `ShutdownEnds` says that it goes
  down later.
- **Rules of two manifests** (`crossed` in `AlertsAreOfOneManifest`): a reload between two
  look-ups gives the limit of one manifest and the action of another. What is left then is
  proved as `AlertsFounded`: each alert is of limits and actions some manifest had.
- **A page unlocked under a neighbour** (`exposed` in `KeysArePinned`): `munlock` of one
  key unlocks the page for all that share it.
- **The right password is "Invalid"** (`Alike` in `OwnerIsAdmitted`): a TPM that is not
  found for once, another hostname, or RAM of another class.

Reading the code for the models turned up the following too, which no property states:

- The shipped `config/heuristics_manifest.json` names the actions
  `trigger_localized_freeze` and `alert_admin_and_ip_ban`; the defender knows `freeze` and
  `ip_ban`, and only logs all others.
- The pipeline passes the key where the C library expects a size. `malloc` refuses, the
  pipeline is given the id 0, and nothing it derives is ever locked.
- `provision_agent` calls `generate_tenant_master_key`, which the pipeline does not have.
- The packager identifies a certificate by the hash of its PEM text, the mTLS gateway by
  the hash of its DER form.
- `SecretEnvelope` has no `wrap` or `unwrap`, which the storage pipeline and tests of it
  count on; `GhostPlugin` calls a storage with other parameters than the adapters have.

## 4. Bounds

- `vault`, `vault_nuke`: two aliases, two secrets, two passwords. Two aliases let a failed
  seal of one be written by a request for the other; two secrets tell an old value from a
  new one; two passwords are a right and a wrong one. Numbers of requests, crashes, nukes
  and initialisations are unbounded. The state space (0.85 million states) is finite
  without any cap.
- `switch`: two callers and two monitor threads (a second monitor is what `OneMonitor`
  forbids; thread objects are reused after their thread has ended), one timeout of one
  tick. 0.54 million states; calls unbounded. `MaxAge` caps the age where every timeout
  has expired, so that nothing more can be told apart.
- `audit`: two loggers, three `log` calls, one `rotate`, one access that raises, one crash, logs
  full at three lines. That fills logs by entries and by `EPOCH_SEALED` entries, gives up to
  three rotations, in one second or in several, and lets workers overlap. `MaxEpochs` disables `Rename`;
  `RotationsSettle` shows that it is never the reason a thread stops, as a thread waiting
  there would not be quiet. With `max_size` below three lines `RotationsSettle` fails:
  every seal entry fills the log it is written to. Real limits are megabytes, so that three
  is the smallest realistic value. 68,304 states. `audit_second` is the same instance without
  faults and crashes.
- `tenants`, `tenants_freeze`: two tenants with one certificate each, two connections; a
  freeze of one tenant meets the table entry and the connection of the other. Two
  connections of one tenant make `drop_tenant_sessions` await between them. Calls and
  crashes unbounded, 1.02 million states. Two drops of one tenant do not overlap: the
  second starts when the first has ended.
- `storage`: Storage and Chunkers, 0.77 million states. Two secrets of two tenants, two
  payloads of which one has expired, up to two parts, two threads, two saves, one fault (a
  failing write or seal, or a crash). An overwrite, two concurrent saves, and a read or a
  purge beside a save all fit; two parts are the least that can be mixed. `saves` and
  `faults` are capped by the guards of the saves and of `Fault`; retrieves, purges and
  provisioning are unbounded. For the chunkers, sizes 0, 1, 3, 4, 5, 9 and 67 units of 16 KiB lie
  around one block (4) and one read under critical, constrained and abundant RAM (1, 4, 64);
  `AdaptiveChunker` ranges from 1 to 4, or to 6 while RAM is plentiful, a bound low
  enough to be reached and left in these sizes. Two streams of one chunker show what the first
  leaves to the second.
- `migration`, `migration_roots`: every version of one to four chunks of two contents, so
  that trees of all shapes up to three levels occur, odd levels included; two changes of
  the source. 0.31 million states.
- `registry`: two names, two processes, two threads, two calls: a process may replace
  another, calls of two threads cross on a pipe or tear a message there, and a call after an
  interrupted one meets what that left. 0.13 million states. The theorems hold for any number of calls.
- `keys_defence`: Unlock, Enclave and Defence, 0.52 million states. RAM of each class and
  on a boundary (2, 8, 9 GiB), two hostnames, a machine-id or none, a TPM or none, one
  change of the machine (theorem `Admitted` is for any number), three passwords, two
  callbacks of which the first raises; three blocks on one page and one on another, and a
  limit of one page, so that the limit is met with and without a page that is locked
  already, calls unbounded; three manifests (the shipped one with its velocity scaled down, one
  with names the defender knows, one that leaves limits to the code), metrics below, at
  and above each limit, two reloads, two evaluations.

Where a run takes several components, they share neither state nor a step: `part` says
which one moves, and the others stay in one of their initial states. Its actions are those of the
components' own next-state relations, one by one.

Deadlock is checked except for `audit`, `audit_second`, `storage`, `registry` and
`keys_defence`, where the system stops once the bounded calls have been made. Symmetry is
used in `vault` (aliases, secrets, passwords), `tenants` (connections), `storage` (workers) and
`migration` (chunks). Of these only `storage` checks liveness: `StreamsEnd` and its fairness do
not speak of workers, which are idle while the chunkers move, so that the symmetry is
sound for it.

## 5. Fairness

- `DeadManSwitch`: weak fairness of each thread inside a method, of each monitor, and of
  the clock. Python schedules every runnable thread, and time passes. No call is fair:
  nobody has to arm, disarm or halt. `SilenceIsNoticed` assumes that heartbeats and
  calls of arm end at some time (`HolderFallsSilent`), and that somebody watches the
  switch.
- `AuditLog`: weak fairness of each thread inside a call and of each worker. Weak
  fairness is enough for the lock since there are finitely many calls. Nothing has to raise.
- `Registry`: weak fairness of each thread whose answer is there or whose process is gone
  (`Recv`), of each plugin's loop, of the end of a process that was sent SIGTERM, whose default no
  plugin changes, and of `shutdown_all` once it was called. Processes that run are
  scheduled. Nobody has to call, mount or shut down, and nobody has to send the bytes a
  torn pipe is short of.
- `Chunkers`: weak fairness of the consumer's next resumption. `for` loops over the
  generator resume it until it ends or they drop it; dropping is never forced.
- All other modules have safety properties only and no fairness: a client may always
  stay away.

## 6. Proofs

`VaultProofs` (for any sets of aliases, secrets and passwords) rests on
`VaultAssumption`: the values that mean "no secret", "no file", "noise", "no session"
and "no request" are none of the things they stand in for. The properties are not
inductive. `IndInv` adds two parts to the types:

- *Birth*: ledger, session and temporary file belong to the one vault that `password`
  was given for, the salt is there whenever a ledger or a session is, and while the
  script runs up to its replace there is neither.
- *Promises*: the decrypted map keeps the acknowledged adds as the disk does. Without
  this the next seal could write a map that has lost one.

Each part has one lemma on steps, with a case per action. From `Inductive` follow
`TypeCorrect`, `AlwaysOpens`, `AddsDurable`, and with `RefinementInit` and
`RefinementStep` the refinement `Refinement == Spec => ImplementsSealedStore`.

`DeadManSwitchProofs` (any callers, thread objects and timeouts) rests on
`SwitchAssumption`: timeouts lie within `MaxAge`. `TypeCorrect` is proved as it
stands. `SingleMonitor` needs `Exclusive`: without overlapping calls of `arm`, at most
one caller is inside, the only living or new thread is the one `_monitor_thread` names,
and it is not alive between `ArmCheck` and `ArmStart`.

`TenantsProofs` (any certificates, tenants and connections, several certificates to a
tenant) rests on `TenantsAssumption`: every certificate belongs to a tenant, and the
value for "none" is no certificate. `StatusIsDurable` is inductive on its types.
`SessionsTracked` and `LockThenSever` need *Covered*: while a tenant's sessions are
dropped, its open connections are among the writers still to be closed, so that the
`clear` at the end forgets nobody; and *Shut*: a certificate counts as shut or being shut only
while it is locked, and as being shut only while its tenant is dropped. One lemma per action of the gateway.

`StorageProofs` (any secrets, tenants, payloads, workers, numbers of parts, saves and faults)
rests on `StorageAssumption`: every secret has a tenant, and the marks for a part that is
absent, torn or wiped are no parts. `SavedIsReadable` speaks of saves that returned, so that
the invariant has to speak of those under way too: *Undisturbed* says that a save nothing has
disturbed is the only one of its secret and that the parts it has written are in the store.
That parts of different secrets have different names (`ChunkFacts`) keeps the other
workers out. `ReadsAreWhole`, `PurgeHitsExpired` and `IndexedIsStored` follow from *CallInv*,
which is inductive relative to it: what a save has written so far is stored unless the secret lost
a part (*Written*), a calm call has no save of its secret beside it (*Alone*), what a calm
read has gathered is the sequence of the first parts of the good cut (*WholeAt*), and what a calm purge
is at has expired, or is wiped or absent by now (*HitAt*). That a purge wipes no other part is
`WipedByPurge`: noise in the store is of a purge that is in the middle of this very part. `OnePart` is
the step of every action that touches one part; the lemmas of `WritePart`, `WriteFails` and
`Wipe` reduce to it, those of reads to `OnlyTheCall`.

`GovernanceProofs` takes the audit log (any loggers, workers, limits, entries and numbers of
crashes) and the heuristics (any manifests, metrics and numbers of reloads and evaluations).

- AuditLog rests on `AuditAssumption`: loggers are no workers, and "free", "no file" and "no
  entry" are none of the things they stand in for; nothing is assumed of seconds, crashes or
  accesses that raise. Its types need *Locked* (who stands between `Acquire` and the end of
  its call holds the lock, and while it rotates there is the log to rename, or none) and *Numbered* (the
  logs before the one in use were renamed, each in a second no later than the last, and a
  worker has the second of its log). *Filed*: a file named by a second is of a log
  that was renamed in it. *Kept*: an acknowledged entry is in the log it went to, unless
  that one shares its second with another; no entry is in two; what a call still has to
  write is in none. *Owned*: a log that shares its second with no other is there, first for
  the thread that is going to start its worker and then for the worker, until that has sealed
  it. *Told*: a record of such a log is true, and its worker has ended. *OnItsWay*: without
  a crash, a log that was rotated out is with its worker, or with the thread that is going
  to start that worker, until it is linked, unless one of them raised. What steps
  do is said once for all properties: one that appends no line keeps every log that shares its
  second with no other (`NextFaded`), and threads move between few places (`NextMoves`).
  From these follow `Persistence`, `Truthful` and `Chaining`.
  `AuditRefinement` is `Spec => ImplementsEpochLog`: a `Write` of a caller is a `Note`, as
  *Kept* says that the entry is new; a `Write` of a worker is a `Record`, as *Told* says that the
  hash is new, or else of a shared second; a `Rename` is an `End`, with the loss of the file it
  replaces; a `Seal` that replaces a file is a `Lose`; every other step, crashes and
  accesses that raise included, stutters (`ContentStays`).
- Defence rests on `DefenceAssumption`, the types of manifests and metrics. *Settled*: outside a
  reload one manifest is in force, and between its two steps the limits are those just read.
  *Uncrossed*: an evaluation that no reload crosses has gathered exactly the alerts of the
  checks it has made. *ReadBefore*: the breached limit was one of a manifest that was read,
  from which `AlertsAreFounded` and, with it, `NotFrozenForAuth` follow.

`RegistryProofs` (any plugins, processes, threads and numbers of calls) rests on
`RegistryAssumption`: the names are finitely many, as `shutdown_all` loops over them.
*OneCall*: the two pipes of a process that no calls have crossed hold at most one
message, the question of the one thread that waits on it or the answer to that question;
a pipe is torn only where calls have crossed (*Uncrossed*); from this follows `Matched`.
*StillOwed*: until the loop of `shutdown_all` ends, what it found mounted is down or was sent SIGTERM,
is being joined, or is under a name the loop has yet to come to; with *Started* (a process
is mounted after it was started) it gives `ShutdownComplete`. That such a process goes down
is `ShutdownEnds`, a liveness property.

`KeyProofs` takes the making of the master key (any passwords, machines and callbacks) and the
locked memory it is kept in (any blocks, pages and limit).

- Unlock rests on `UnlockAssumption`: the shredder is one of the callbacks, duress and terminal
  password differ. `SameKeys` shows that two unlocks derive the same key exactly when password,
  signature and cost class are the same, which the formula, with its two kinds of signature and three
  classes, does not show at once. *OneBirth* and *OneOutcome*: there is one birth to
  compare an unlock with. *NukeGoesOn*: the callbacks have been run up to where the pipeline
  stands, whichever of them raised.
- Enclave rests on `EnclaveAssumption`: every block is on a page. The page is locked before the
  key arrives, so the invariant speaks of blocks from `mlock` on, and says that exactly
  the held ones have a key.

`MigrationProofs` (any chunks, versions, number of edits) rests on `MigrationAssumption`:
versions are sequences of at most `MaxLen` chunks, and what a store gives for a missing
chunk is no chunk. *SourceExact*: the source keeps of the version it lists each
chunk or none. *Settled*: while the source holds still, a chunk of the destination is one
the source lists if it was copied since the last commit, and one the destination
lists otherwise, and what differs is copied or about to be. This is why a retry repairs
what a lost sync left.

`RootBinds` and `Binding`, in the same module, are about the hash tree for versions of any
length. They take inductions over levels. The library's induction theorems have an operator as
parameter, which the provers cannot instantiate; `Induct` and `Least` say the same of sets of
numbers and follow from `WFMin`. With them the recursive functions of `Merkle` are shown to exist and
to satisfy their equations (`LevelsDef`, `AncestorsDef`, `ClimbDef`), levels to shrink to one node
(`Shrinks`, `Top`), and then:

- *RootBinds*: lists of the same length with the same root are the same. The levels of two such
  lists have the same lengths (`SameLengths`), so that their roots are at the same height
  (`SameHeight`), and two levels agree if the levels above them do (`AgreeDown`); hence they
  agree from the roots down to the leaves (`LevelsAgree`, `SameLists`). Without the same length it is false, as
  `migration_roots` shows.
- *Binding*: on each level the climb has the hash of the node above the leaf exactly when it
  had it one level below (`Joined`, `Binds`).

Neither needs a leaf to be told from an inner node, which the code hashes alike.

`StorageProofs` also has the chunkers (any sizes, bounds and number of streams), which rest on
`ChunkersAssumption`: block and read sizes are positive. *Loops*: what the loop that the generator is
in says about the buffer. *Clean*: as long as no stream was dropped, none inherits anything.
*WholeBlocks*: what was delivered before the tail is a number of whole blocks, which gives
`CutsAreFixed`.

Every safety property that a passing run checks is proved. Model-checked only are the liveness
properties `SilenceIsNoticed`, `HaltDisarms`, `RotationsSettle`, `EveryCallEnds`, `ShutdownEnds` and
`StreamsEnd`, which rest on fairness and are out of the prover's reach.

## 7. What is abstracted, what is left out

Abstractions. In `Vault` the master key is represented by the password, since a vault has
one salt and a host one hardware factor; `Unlock` takes the formula apart. A sealed file
opens with its key only (AES-GCM), and digests collide for equal inputs only. Processes
die, machines do not: what a file system keeps of unsynced writes is not modelled.
`os.replace` is atomic, as POSIX has it. One `init_koot.py` runs at a time. The emergency
callback of the dead man's switch is its owner's code. A certificate belongs to one tenant.
Lengths of files are in units of 16 KiB, and quantities of metrics are small numbers
around the limits.

Not modelled: cipher arithmetic, the layout of envelopes, certificates and the packager,
generators, secret sharing, import and export, the command line, the REST bridge, setup
and build scripts. They hold no state that others share, or are calls of libraries. The
analytics engine and the environment sensor are counters and queries whose numbers the
models take as choices of the environment. The schema matrix has three states per schema and
is used by one caller at a time, so that a model would repeat its assignments. The TLS
context and the listener of the mTLS gateway, and its mode without a ledger, keep no
registry. The duress mode of the ledger only selects another path.
