------------------------------ MODULE AuditLog ------------------------------
(***************************************************************************)
(* AuditLogger (koot/governance/audit/log.py): threads append entries to   *)
(* audit.log under one lock; a full log, or a call of rotate, is renamed   *)
(* to audit_<second>.processing, a new log is begun, and a worker thread   *)
(* hashes the old one, renames it to audit_<second>.sealed and logs its    *)
(* hash in an EPOCH_SEALED entry of its own.                               *)
(*                                                                         *)
(* A log never changes once it was renamed, so its content and its SHA-256 *)
(* are both represented by the number of its epoch, of which there is one  *)
(* more with every renaming.  Two renamings may fall in one second, and    *)
(* then the files have one name.  Sizes are numbers of lines, and a line   *)
(* that was written in part is no line.  A step is one access to the file  *)
(* system, which may raise; the process may be killed between two steps    *)
(* and is started again.                                                   *)
(***************************************************************************)
EXTENDS Naturals, FiniteSets

CONSTANTS
    Loggers,      \* threads that call log and rotate
    MaxEntries,   \* bound on the calls of log
    MaxRotates,   \* bound on the calls of rotate
    MaxEpochs,    \* bound on the logs ever begun
    MaxCrashes,   \* bound on the crashes
    MaxFaults,    \* bound on the accesses that raise
    MaxLines,     \* max_size: a log of this many lines is full
    NoFile,       \* the path does not exist
    Free,         \* nobody holds _lock
    NoEntry       \* rotate appends nothing

VARIABLES
    active,       \* audit.log
    processing,   \* audit_<second>.processing
    sealed,       \* audit_<second>.sealed
    second,       \* int(time.time()) of the last rotation
    lock,         \* _lock: its holder
    pc,           \* where each thread stands
    entry,        \* what each logger or worker is going to append
    stamp,        \* the second each worker got from _rotate_unsafe
    calls,        \* calls of log and of rotate made so far
    epoch,        \* number of the log in use, or of the next one where there is none
    when,         \* history: the second in which each log was renamed, or 0
    acked,        \* history: the log each entry went to whose log call returned, or 0
    linked,       \* history: the log each worker's EPOCH_SEALED entry went to, or 0
    failed,       \* history: logs whose worker raised, or was never started
    crashes,      \* number of crashes so far
    faults        \* number of accesses that raised

files == <<active, processing, sealed>>
threads == <<lock, pc, entry, stamp>>
history == <<when, acked, linked, failed>>
counts == <<calls, crashes, faults>>
vars == <<files, second, threads, epoch, history, counts>>

Entries == 1 .. MaxEntries
Workers == 1 .. MaxEpochs     \* the worker of a rotation is named by the epoch it seals
Seconds == 0 .. MaxEpochs
Threads == Loggers \cup Workers

\* An EPOCH_SEALED entry: the name of the sealed file and its hash.
SealRecords == [file : Seconds, hash : Workers]
Logs == [epoch : 1 .. MaxEpochs, head : {0, 1},
         entries : SUBSET Entries, seals : SUBSET SealRecords]

\* _start_new_epoch writes an EPOCH_START line; a log that an append has
\* created, or of which that line failed, has none.
NewLog(e) == [epoch |-> e, head |-> 1, entries |-> {}, seals |-> {}]
Headless(e) == [NewLog(e) EXCEPT !.head = 0]

ASSUME AuditAssumption ==
    /\ MaxLines \in Nat \ {0} /\ MaxEpochs \in Nat \ {0} /\ MaxEntries \in Nat
    /\ Loggers \cap Workers = {} /\ Free \notin Threads
    /\ NoFile \notin Logs /\ NoEntry \notin Entries \cup SealRecords

Full(log) == log.head + Cardinality(log.entries) + Cardinality(log.seals) >= MaxLines

-----------------------------------------------------------------------------
\* log and rotate; the lock is held from Acquire to Write, or to Spawn in rotate.

CallLog(t) ==
    /\ pc[t] = "idle"
    /\ calls.log < MaxEntries
    /\ calls' = [calls EXCEPT !.log = @ + 1]
    /\ entry' = [entry EXCEPT ![t] = calls.log + 1]
    /\ pc' = [pc EXCEPT ![t] = "acquire"]
    /\ UNCHANGED <<files, second, lock, stamp, epoch, history, crashes, faults>>

CallRotate(t) ==
    /\ pc[t] = "idle"
    /\ calls.rotate < MaxRotates
    /\ calls' = [calls EXCEPT !.rotate = @ + 1]
    /\ entry' = [entry EXCEPT ![t] = NoEntry]
    /\ pc' = [pc EXCEPT ![t] = "acquire"]
    /\ UNCHANGED <<files, second, lock, stamp, epoch, history, crashes, faults>>

\* Faulty variant: a worker rotates the log before it logs its hash.
AcquireRotating(t) ==
    /\ pc[t] = "acquire"
    /\ lock = Free
    /\ pc' = [pc EXCEPT ![t] =
                IF t \in Workers \/ entry[t] = NoEntry \/ (active # NoFile /\ Full(active))
                  THEN "rename" ELSE "append"]
    /\ lock' = t
    /\ UNCHANGED <<files, second, entry, stamp, epoch, history, counts>>

\* A log call rotates a full log first; rotate returns where there is none.
Acquire(t) ==
    /\ pc[t] = "acquire"
    /\ lock = Free
    /\ IF entry[t] = NoEntry /\ active = NoFile
         THEN pc' = [pc EXCEPT ![t] = "idle"] /\ UNCHANGED lock
         ELSE /\ pc' = [pc EXCEPT ![t] =
                          IF entry[t] = NoEntry \/ (active # NoFile /\ Full(active))
                            THEN "rename" ELSE "append"]
              /\ lock' = t
    /\ UNCHANGED <<files, second, entry, stamp, epoch, history, counts>>

\* Faulty variant: the name of the renamed log has no second in it.
RenameUnstamped(t) ==
    /\ pc[t] = "rename"
    /\ epoch < MaxEpochs
    /\ second' = 1
    /\ processing' = [processing EXCEPT ![1] = active]
    /\ active' = NoFile
    /\ when' = [when EXCEPT ![epoch] = epoch]
    /\ epoch' = epoch + 1
    /\ pc' = [pc EXCEPT ![t] = "begin"]
    /\ UNCHANGED <<sealed, lock, entry, stamp, acked, linked, failed, counts>>

\* os.rename replaces a file that a rotation of the same second left there.
Rename(t) ==
    /\ pc[t] = "rename"
    /\ epoch < MaxEpochs
    /\ second' \in {second, second + 1} \ {0}
    /\ processing' = [processing EXCEPT ![second'] = active]
    /\ active' = NoFile
    /\ when' = [when EXCEPT ![epoch] = second']
    /\ epoch' = epoch + 1
    /\ pc' = [pc EXCEPT ![t] = "begin"]
    /\ UNCHANGED <<sealed, lock, entry, stamp, acked, linked, failed, counts>>

\* _start_new_epoch.
Begin(t) ==
    /\ pc[t] = "begin"
    /\ active' = NewLog(epoch)
    /\ pc' = [pc EXCEPT ![t] = "spawn"]
    /\ UNCHANGED <<processing, sealed, second, lock, entry, stamp, epoch, history, counts>>

\* The worker of the log that was renamed; rotate returns here.
Spawn(t) ==
    /\ pc[t] = "spawn"
    /\ LET w == epoch - 1 IN
        /\ stamp' = [stamp EXCEPT ![w] = second]
        /\ pc' = [pc EXCEPT ![w] = "hash", ![t] = IF entry[t] = NoEntry THEN "idle" ELSE "append"]
    /\ lock' = IF entry[t] = NoEntry THEN Free ELSE lock
    /\ UNCHANGED <<files, second, entry, epoch, history, counts>>

\* The log that is appended to: open creates one where there is none.
Opened == IF active = NoFile THEN Headless(epoch) ELSE active

Write(t) ==
    /\ pc[t] = "append"
    /\ IF t \in Loggers
         THEN /\ active' = [Opened EXCEPT !.entries = @ \cup {entry[t]}]
              /\ acked' = [acked EXCEPT ![entry[t]] = epoch]
              /\ UNCHANGED linked
         ELSE /\ active' = [Opened EXCEPT !.seals = @ \cup {entry[t]}]
              /\ linked' = [linked EXCEPT ![t] = epoch]
              /\ UNCHANGED acked
    /\ lock' = Free
    /\ pc' = [pc EXCEPT ![t] = "idle"]
    /\ UNCHANGED <<processing, sealed, second, entry, stamp, epoch, when, failed, counts>>

-----------------------------------------------------------------------------
\* _async_seal, without the lock until it logs.  A file that another worker
\* has already moved away raises, which ends the worker silently.

\* Faulty variant: the worker hashes audit.log.
HashActive(w) ==
    /\ pc[w] = "hash"
    /\ pc' = [pc EXCEPT ![w] = "seal"]
    /\ entry' = [entry EXCEPT ![w] = [file |-> stamp[w], hash |-> epoch]]
    /\ UNCHANGED <<files, second, lock, stamp, epoch, history, counts>>

Hash(w) ==
    /\ pc[w] = "hash"
    /\ IF processing[stamp[w]] = NoFile
         THEN /\ pc' = [pc EXCEPT ![w] = "idle"]
              /\ UNCHANGED entry
         ELSE /\ pc' = [pc EXCEPT ![w] = "seal"]
              /\ entry' = [entry EXCEPT ![w] =
                             [file |-> stamp[w], hash |-> processing[stamp[w]].epoch]]
    /\ UNCHANGED <<files, second, lock, stamp, epoch, history, counts>>

\* Faulty variant: the worker seals the log without recording its hash.
SealUnlogged(w) ==
    /\ pc[w] = "seal"
    /\ processing[stamp[w]] # NoFile
    /\ pc' = [pc EXCEPT ![w] = "idle"]
    /\ sealed' = [sealed EXCEPT ![stamp[w]] = processing[stamp[w]]]
    /\ processing' = [processing EXCEPT ![stamp[w]] = NoFile]
    /\ UNCHANGED <<active, second, lock, entry, stamp, epoch, history, counts>>

\* os.rename replaces what another worker has sealed under the same second.
Seal(w) ==
    /\ pc[w] = "seal"
    /\ IF processing[stamp[w]] = NoFile
         THEN /\ pc' = [pc EXCEPT ![w] = "idle"]
              /\ UNCHANGED <<processing, sealed>>
         ELSE /\ pc' = [pc EXCEPT ![w] = "acquire"]
              /\ sealed' = [sealed EXCEPT ![stamp[w]] = processing[stamp[w]]]
              /\ processing' = [processing EXCEPT ![stamp[w]] = NoFile]
    /\ UNCHANGED <<active, second, lock, entry, stamp, epoch, history, counts>>

-----------------------------------------------------------------------------
\* An access that raises: the lock is released, the call of log or rotate ends
\* with the exception, and a worker swallows it.  Nothing is made up for: the
\* log that was renamed has no worker, and there may be no log in use, or one
\* without a line.
Raise(t) ==
    /\ pc[t] \in {"rename", "begin", "spawn", "append", "hash", "seal"}
    /\ faults < MaxFaults
    /\ faults' = faults + 1
    /\ active' \in IF pc[t] \in {"begin", "append"} /\ active = NoFile
                     THEN {NoFile, Headless(epoch)} ELSE {active}
    /\ failed' = failed \cup ({t} \cap Workers)
                        \cup (IF pc[t] \in {"begin", "spawn"} THEN {epoch - 1} ELSE {})
    /\ pc' = [pc EXCEPT ![t] = "idle"]
    /\ lock' = IF lock = t THEN Free ELSE lock
    /\ UNCHANGED <<processing, sealed, second, entry, stamp, epoch,
                   when, acked, linked, calls, crashes>>

\* Faulty variant: a restarted logger begins a log over the one that is there.
CrashTruncates ==
    /\ crashes < MaxCrashes
    /\ crashes' = crashes + 1
    /\ pc' = [t \in Threads |-> "idle"]
    /\ lock' = Free
    /\ active' = NewLog(epoch)
    /\ UNCHANGED <<processing, sealed, second, entry, stamp, epoch, history, calls, faults>>

\* The process is killed and started again: __init__ begins a log only where
\* there is none, and nobody looks for .processing files.
Crash ==
    /\ crashes < MaxCrashes
    /\ crashes' = crashes + 1
    /\ pc' = [t \in Threads |-> "idle"]
    /\ lock' = Free
    /\ active' = IF active = NoFile THEN NewLog(epoch) ELSE active
    /\ UNCHANGED <<processing, sealed, second, entry, stamp, epoch, history, calls, faults>>

Init ==
    /\ active = NewLog(1)
    /\ processing = [s \in Seconds |-> NoFile]
    /\ sealed = [s \in Seconds |-> NoFile]
    /\ second = 0
    /\ lock = Free
    /\ pc = [t \in Threads |-> "idle"]
    /\ entry = [t \in Threads |-> NoEntry]
    /\ stamp = [w \in Workers |-> 0]
    /\ calls = [log |-> 0, rotate |-> 0]
    /\ epoch = 1
    /\ when = [e \in Workers |-> 0]
    /\ acked = [x \in Entries |-> 0]
    /\ linked = [w \in Workers |-> 0]
    /\ failed = {}
    /\ crashes = 0
    /\ faults = 0

\* What a thread does without being called.
Work(t) ==
    \/ Acquire(t) \/ Rename(t) \/ Begin(t) \/ Spawn(t) \/ Write(t)
    \/ t \in Workers /\ (Hash(t) \/ Seal(t))

Next ==
    \/ \E t \in Loggers : CallLog(t) \/ CallRotate(t)
    \/ \E t \in Threads : Work(t) \/ Raise(t)
    \/ Crash

\* Threads that are inside a call or a worker are scheduled, and with finitely
\* many calls the lock comes to everybody who waits for it.
Spec == Init /\ [][Next]_vars /\ \A t \in Threads : WF_vars(Work(t))

-----------------------------------------------------------------------------
TypeOK ==
    /\ active \in Logs \cup {NoFile}
    /\ processing \in [Seconds -> Logs \cup {NoFile}]
    /\ sealed \in [Seconds -> Logs \cup {NoFile}]
    /\ second \in Seconds
    /\ lock \in Threads \cup {Free}
    /\ pc \in [Threads -> {"idle", "acquire", "rename", "begin", "spawn", "append", "hash", "seal"}]
    /\ \A t \in Loggers : entry[t] \in Entries \cup {NoEntry}
    /\ \A w \in Workers : entry[w] \in SealRecords \cup {NoEntry}
    /\ stamp \in [Workers -> Seconds]
    /\ epoch \in 1 .. MaxEpochs
    /\ when \in [Workers -> Seconds]
    /\ acked \in [Entries -> 0 .. MaxEpochs]
    /\ linked \in [Workers -> 0 .. MaxEpochs]
    /\ failed \subseteq Workers

AllLogs ==
    ({active} \cup {processing[s] : s \in Seconds} \cup {sealed[s] : s \in Seconds}) \ {NoFile}

\* The logs whose second is that of another log: their files have one name,
\* and one of them replaces the other.
Clashing == {e \in Workers : when[e] # 0 /\ \E f \in Workers \ {e} : when[f] = when[e]}

\* An entry whose log call returned is in one file, whatever was rotated,
\* sealed, raised or killed around it, and is never in two: it is lost only
\* with a log that shares its second with another one.
EntriesPersist ==
    \A x \in Entries : acked[x] # 0 =>
        LET holders == {log \in AllLogs : x \in log.entries} IN
        /\ Cardinality(holders) <= 1
        /\ acked[x] \notin Clashing => Cardinality(holders) = 1

\* The class claims that every action is recorded: the entry of a log call
\* that returned is in a file, in whatever seconds the logs were rotated.
EveryActionRecorded ==
    \A x \in Entries : acked[x] # 0 => \E log \in AllLogs : x \in log.entries

\* An EPOCH_SEALED entry with the hash of a log that shares its second with
\* no other one names a sealed file that exists and that has this very hash.
SealRecordsTruthful ==
    \A log \in AllLogs : \A r \in log.seals :
        r.hash \notin Clashing => sealed[r.file] # NoFile /\ sealed[r.file].epoch = r.hash

Quiet == \A t \in Threads : pc[t] = "idle"

\* The log of this epoch is sealed, and its hash was recorded, in a log that is
\* still there unless that one shares its second with another.
Chained(e) ==
    /\ sealed[when[e]] # NoFile
    /\ sealed[when[e]].epoch = e
    /\ linked[e] # 0
    /\ linked[e] \notin Clashing =>
        \E log \in AllLogs : [file |-> when[e], hash |-> e] \in log.seals

\* A rotation is forgotten only where the process was killed, its own worker
\* raised or was not started, or another rotation fell in the same second:
\* when all threads have ended, concurrent rotations and cascading seals
\* included, the chain of hashes has no other gap.
ChainComplete ==
    crashes = 0 /\ Quiet => \A e \in (1 .. epoch - 1) \ (Clashing \cup failed) : Chained(e)

\* The EPOCH_SEALED entries do not fill log after log on their own: when
\* nobody calls any more, the rotations come to an end.
RotationsSettle == <>[]Quiet

\* What the files hold of the log of an epoch, whatever the file is called.
Content(e) ==
    LET parts == {log \in AllLogs : log.epoch = e} IN
    [entries |-> UNION {log.entries : log \in parts},
     hashes  |-> {r.hash : r \in UNION {log.seals : log \in parts}}]

Chronicle == INSTANCE EpochLog WITH
    Epochs <- 1 .. MaxEpochs,
    logs <- [e \in 1 .. MaxEpochs |-> Content(e)],
    last <- epoch

\* Whatever raises, is killed and restarted, the files are a chain of logs: an
\* entry goes once into the last one, what is in a log stays in it, and the
\* hash of a log is recorded once, when nothing is written to it any more;
\* but a log that shares its second with another may vanish as a whole, and
\* the hash of such a log may be recorded twice.
ImplementsEpochLog == Chronicle!Spec
=============================================================================
