-------------------------- MODULE GovernanceProofs --------------------------
(***************************************************************************)
(* Proofs about AuditLog, for any threads and numbers of calls, rotations, *)
(* crashes and accesses that raise, and about Defence, for any manifests,  *)
(* metrics and numbers of reloads and evaluations.                         *)
(*                                                                         *)
(* AuditLog: one thread is between Acquire and the release of the lock     *)
(* (Locked), and a log is renamed once, with its number (Numbered), so     *)
(* that a file with the name of a second is a log renamed in that second   *)
(* (Filed), and a rename replaces only a log that shares its second        *)
(* (Faded).  An entry is then in one log, and those still to be written    *)
(* are in none (Kept).  A worker whose second is its own finds the file of *)
(* its own epoch, and what it is going to record is true of it (Owned);    *)
(* what was recorded stays true, and is not recorded again (Told); and     *)
(* without a crash a log that was rotated out is with its worker, or with  *)
(* the thread that is about to start it, until it is linked, unless one of *)
(* them raised (OnItsWay).  A step of the files is then one of the chain   *)
(* of logs that EpochLog describes.                                        *)
(*                                                                         *)
(* Defence: what is in force is always of manifests that were read, the    *)
(* limits and the actions perhaps of different ones; they are of one and   *)
(* the same unless a reload is under way. An evaluation that no reload     *)
(* crosses then meets the rules that were last read in whole, and the      *)
(* alerts it has gathered are those of the checks it has made.             *)
(***************************************************************************)
EXTENDS AuditLog, Defence, FiniteSetTheorems, TLAPS

Rotating == {"rename", "begin", "spawn", "append"}
Logging == {"acquire"} \cup Rotating
Where == Logging \cup {"idle", "hash", "seal"}

\* One thread is between Acquire and the release of the lock; it renames a log
\* that is there, and audit.log is away until it has begun the next one.
Locked ==
    /\ \A t \in Threads : pc[t] \in Rotating <=> lock = t
    /\ \A t \in Threads : pc[t] = "rename" => active # NoFile
    /\ \A t \in Threads : pc[t] = "begin" => active = NoFile
    /\ \A t \in Threads : pc[t] = "append" => entry[t] # NoEntry
    /\ \A w \in Workers : pc[w] \in Logging \cup {"seal"} => entry[w] # NoEntry

\* The logs up to the one in use were renamed, each in a second no later than
\* the last; a worker has the second of its log, and the one that is about to
\* be started is not there yet.
Numbered ==
    /\ active # NoFile => active.epoch = epoch
    /\ second < epoch
    /\ \A e \in Workers : when[e] # 0 <=> e < epoch
    /\ \A w \in Workers : pc[w] # "idle" => w < epoch /\ stamp[w] = when[w]
    /\ \A t \in Threads : pc[t] \in {"begin", "spawn"} =>
          epoch > 1 /\ pc[epoch - 1] = "idle" /\ when[epoch - 1] = second

\* The types of what TypeOK leaves open.
Shape ==
    /\ entry = [t \in Threads |-> entry[t]]
    /\ calls \in [log : Nat, rotate : Nat] /\ calls.log <= MaxEntries
    /\ crashes \in Nat /\ faults \in Nat

AuditTypeInv == TypeOK /\ Shape /\ Locked /\ Numbered

\* A file with the name of a second is of a log that was renamed in it, and
\* the two files with one name are of two logs.
Filed ==
    /\ \A s \in Seconds : processing[s] # NoFile =>
          processing[s].epoch < epoch /\ when[processing[s].epoch] = s
    /\ \A s \in Seconds : sealed[s] # NoFile =>
          sealed[s].epoch < epoch /\ when[sealed[s].epoch] = s
    /\ \A s \in Seconds : processing[s] # NoFile /\ sealed[s] # NoFile =>
          processing[s].epoch # sealed[s].epoch

\* An entry that was acknowledged is in the log it went to, every entry is in
\* one log at most, and none is there that a call still has to write.
Kept ==
    /\ \A x \in Entries : acked[x] # 0 /\ acked[x] \notin Clashing =>
          \E log \in AllLogs : log.epoch = acked[x] /\ x \in log.entries
    /\ \A x \in Entries : \A log1, log2 \in AllLogs :
          x \in log1.entries /\ x \in log2.entries => log1 = log2
    /\ \A log \in AllLogs : \A x \in log.entries : x <= calls.log
    /\ \A t \in Loggers : pc[t] # "idle" /\ entry[t] # NoEntry =>
          /\ entry[t] <= calls.log
          /\ \A log \in AllLogs : entry[t] \notin log.entries
          /\ \A u \in Loggers \ {t} : pc[u] # "idle" => entry[u] # entry[t]

Held(e) == processing[when[e]] # NoFile /\ processing[when[e]].epoch = e
Sealed(e) == sealed[when[e]] # NoFile /\ sealed[when[e]].epoch = e
Record(e) == [file |-> when[e], hash |-> e]

\* A log that shares its second with no other is there for the thread that is
\* about to start its worker, then for the worker, until that has sealed it;
\* the hash the worker has is of a log of this second.
Owned ==
    /\ \A t \in Threads : pc[t] \in {"begin", "spawn"} =>
          epoch - 1 \in Clashing \/ Held(epoch - 1)
    /\ \A w \in Workers \ Clashing : pc[w] \in {"hash", "seal"} => Held(w)
    /\ \A w \in Workers \ Clashing : pc[w] \in Logging => Sealed(w)
    /\ \A w \in Workers : pc[w] \in Logging \cup {"seal"} =>
          entry[w].file = when[w] /\ when[entry[w].hash] = when[w]

\* A record of a log that shares its second with no other is true; its worker
\* has ended, and none is started again.
Told ==
    \A log \in AllLogs : \A r \in log.seals :
        /\ r.hash < epoch
        /\ r.hash \notin Clashing =>
              /\ r = Record(r.hash) /\ Sealed(r.hash) /\ pc[r.hash] = "idle"
              /\ \A t \in Threads : pc[t] \in {"begin", "spawn"} => r.hash # epoch - 1

\* The log is sealed, and its record is in the log it was written to.
Linked(e) ==
    /\ Sealed(e) /\ linked[e] # 0
    /\ linked[e] \notin Clashing =>
          \E log \in AllLogs : log.epoch = linked[e] /\ Record(e) \in log.seals

Underway(e) ==
    \/ e = epoch - 1 /\ \E t \in Threads : pc[t] \in {"begin", "spawn"}
    \/ pc[e] # "idle"
    \/ Linked(e)

\* Without a crash, the log of an epoch that is over is on its way into the chain.
OnItsWay ==
    crashes = 0 => \A e \in 1..(epoch - 1) : e \in Clashing \cup failed \/ Underway(e)

FileInv == AuditTypeInv /\ Filed
AuditInv == FileInv /\ Kept /\ Owned /\ Told /\ OnItsWay
-----------------------------------------------------------------------------
LEMMA LogFacts ==
    /\ \A e \in 1..MaxEpochs : \A log \in {NewLog(e), Headless(e)} :
          log \in Logs /\ log.epoch = e /\ log.entries = {} /\ log.seals = {}
    /\ \A log \in Logs :
          /\ log # NoFile /\ log.epoch \in 1..MaxEpochs
          /\ log.entries \subseteq Entries /\ log.seals \subseteq SealRecords
    /\ \A log \in Logs, x \in Entries : [log EXCEPT !.entries = @ \cup {x}] \in Logs
    /\ \A log \in Logs, r \in SealRecords : [log EXCEPT !.seals = @ \cup {r}] \in Logs
<1>1. \A e \in 1..MaxEpochs : \A log \in {NewLog(e), Headless(e)} :
          log \in Logs /\ log.epoch = e /\ log.entries = {} /\ log.seals = {}
  BY DEF NewLog, Headless, Logs
<1>2. \A log \in Logs :
          /\ log # NoFile /\ log.epoch \in 1..MaxEpochs
          /\ log.entries \subseteq Entries /\ log.seals \subseteq SealRecords
  BY AuditAssumption DEF AuditAssumption, Logs
<1>3. \A log \in Logs, x \in Entries : [log EXCEPT !.entries = @ \cup {x}] \in Logs
  BY DEF Logs
<1>4. \A log \in Logs, r \in SealRecords : [log EXCEPT !.seals = @ \cup {r}] \in Logs
  BY DEF Logs
<1> QED
  BY <1>1, <1>2, <1>3, <1>4

LEMMA NameFacts ==
    /\ \A t \in Threads : t \in Loggers \/ t \in Workers
    /\ \A t \in Loggers : t \notin Workers
    /\ Loggers \subseteq Threads /\ Workers \subseteq Threads
    /\ Free \notin Threads /\ NoEntry \notin Entries /\ NoEntry \notin SealRecords
    /\ MaxEpochs \in Nat \ {0} /\ MaxEntries \in Nat /\ MaxLines \in Nat \ {0}
    /\ \A w \in Workers : w \in Nat /\ 1 <= w /\ w <= MaxEpochs
    /\ \A s \in Seconds : s \in Nat /\ s <= MaxEpochs
BY AuditAssumption DEF AuditAssumption, Threads, Workers, Seconds

\* Who holds the lock when a thread is there, and the logs there are.
LEMMA HolderFacts ==
    ASSUME AuditTypeInv
    PROVE  /\ epoch \in 1..MaxEpochs /\ epoch \in Workers /\ second \in Seconds
           /\ epoch > 1 => epoch - 1 \in Workers
           /\ active # NoFile => active \in Logs /\ active.epoch = epoch
           /\ \A t \in Threads : pc[t] = "rename" => active \in Logs
           /\ \A t \in Threads : pc[t] \in {"begin", "spawn"} => epoch - 1 \in Workers
           /\ \A t, u \in Threads : pc[t] \in Rotating /\ pc[u] \in Rotating => t = u
           /\ \A w \in Workers : pc[w] # "idle" => w \in 1..(epoch - 1) /\ w # epoch
<1>1. epoch \in 1..MaxEpochs /\ epoch \in Workers /\ second \in Seconds
  BY DEF AuditTypeInv, TypeOK, Workers
<1>2. epoch > 1 => epoch - 1 \in Workers
  BY <1>1, NameFacts DEF Workers
<1>3. active # NoFile => active \in Logs /\ active.epoch = epoch
  BY DEF AuditTypeInv, TypeOK, Numbered
<1>4. \A t \in Threads : pc[t] = "rename" => active \in Logs
  BY <1>3 DEF AuditTypeInv, Locked
<1>5. \A t \in Threads : pc[t] \in {"begin", "spawn"} => epoch - 1 \in Workers
  BY <1>2 DEF AuditTypeInv, Numbered
<1>6. \A t, u \in Threads : pc[t] \in Rotating /\ pc[u] \in Rotating => t = u
  BY DEF AuditTypeInv, Locked
<1>7. \A w \in Workers : pc[w] # "idle" => w \in 1..(epoch - 1) /\ w # epoch
  BY <1>1, NameFacts DEF AuditTypeInv, Numbered
<1> QED
  BY <1>1, <1>2, <1>3, <1>4, <1>5, <1>6, <1>7

LEMMA InitTypeInv == Init => AuditTypeInv
<1> SUFFICES ASSUME Init PROVE AuditTypeInv
  OBVIOUS
<1>0. 1 \in 1..MaxEpochs
  BY NameFacts
<1>1. TypeOK
  <2>1. /\ active \in Logs \cup {NoFile} /\ 0 \in Seconds /\ 0 \in 0..MaxEpochs
        /\ processing \in [Seconds -> {NoFile}] /\ sealed \in [Seconds -> {NoFile}]
    BY <1>0, LogFacts, NameFacts DEF Init, Seconds
  <2>2. /\ pc \in [Threads -> {"idle"}] /\ entry \in [Threads -> {NoEntry}]
        /\ stamp \in [Workers -> {0}] /\ when \in [Workers -> {0}]
        /\ acked \in [Entries -> {0}] /\ linked \in [Workers -> {0}]
        /\ second = 0 /\ lock = Free /\ epoch = 1 /\ failed = {}
    BY DEF Init
  <2> QED
    BY <1>0, <2>1, <2>2, NameFacts DEF TypeOK
<1>2. Shape
  BY NameFacts DEF Init, Shape
<1>3. Locked
  BY LogFacts, NameFacts DEF Init, Locked, Rotating, Logging
<1>4. Numbered
  BY <1>0, LogFacts, NameFacts DEF Init, Numbered
<1> QED
  BY <1>1, <1>2, <1>3, <1>4 DEF AuditTypeInv

\* The log that is written is one of this epoch, and holds what it held and the line.
LEMMA WriteFacts ==
    ASSUME AuditTypeInv, NEW t \in Threads, Write(t)
    PROVE  /\ Opened \in Logs /\ Opened.epoch = epoch
           /\ active = NoFile => Opened.entries = {} /\ Opened.seals = {}
           /\ active' \in Logs /\ active'.epoch = epoch
           /\ t \in Loggers => /\ entry[t] \in Entries
                               /\ active'.entries = Opened.entries \cup {entry[t]}
                               /\ active'.seals = Opened.seals
                               /\ acked' = [acked EXCEPT ![entry[t]] = epoch]
                               /\ linked' = linked
           /\ t \in Workers => /\ entry[t] \in SealRecords
                               /\ active'.entries = Opened.entries
                               /\ active'.seals = Opened.seals \cup {entry[t]}
                               /\ linked' = [linked EXCEPT ![t] = epoch]
                               /\ acked' = acked
<1>1. /\ Opened \in Logs /\ Opened.epoch = epoch
      /\ active = NoFile => Opened.entries = {} /\ Opened.seals = {}
  BY HolderFacts, LogFacts DEF Opened
<1>2. entry[t] # NoEntry
  BY DEF Write, AuditTypeInv, Locked
<1>3. \/ /\ t \in Loggers /\ t \notin Workers /\ entry[t] \in Entries
         /\ active' = [Opened EXCEPT !.entries = @ \cup {entry[t]}]
         /\ acked' = [acked EXCEPT ![entry[t]] = epoch] /\ linked' = linked
      \/ /\ t \in Workers /\ t \notin Loggers /\ entry[t] \in SealRecords
         /\ active' = [Opened EXCEPT !.seals = @ \cup {entry[t]}]
         /\ linked' = [linked EXCEPT ![t] = epoch] /\ acked' = acked
  BY <1>2, NameFacts DEF Write, AuditTypeInv, TypeOK
<1>4. active' \in Logs
  BY <1>1, <1>3, LogFacts
<1>5. /\ active'.epoch = Opened.epoch
      /\ t \in Loggers => /\ active'.entries = Opened.entries \cup {entry[t]}
                          /\ active'.seals = Opened.seals
      /\ t \in Workers => /\ active'.entries = Opened.entries
                          /\ active'.seals = Opened.seals \cup {entry[t]}
  BY <1>1, <1>3 DEF Logs
<1> QED
  BY <1>1, <1>3, <1>4, <1>5

\* A step that raises leaves the log in use, or one without a line.
LEMMA RaiseFacts ==
    ASSUME AuditTypeInv, NEW t \in Threads, Raise(t)
    PROVE  /\ \/ active' = active
              \/ active = NoFile /\ active' = Headless(epoch)
           /\ active' \in Logs \cup {NoFile} /\ (active' # NoFile => active'.epoch = epoch)
           /\ failed' \subseteq Workers /\ failed \subseteq failed'
           /\ pc[t] \in {"begin", "spawn"} => epoch - 1 \in failed'
           /\ t \in Workers => t \in failed'
           /\ pc[t] # "idle" /\ pc'[t] = "idle" /\ \A u \in Threads \ {t} : pc'[u] = pc[u]
<1>1. \/ active' = active
      \/ active = NoFile /\ active' = Headless(epoch)
  BY DEF Raise
<1>2. active' \in Logs \cup {NoFile} /\ (active' # NoFile => active'.epoch = epoch)
  BY <1>1, HolderFacts, LogFacts
<1>3. /\ pc[t] # "idle" /\ pc'[t] = "idle" /\ \A u \in Threads \ {t} : pc'[u] = pc[u]
  BY DEF Raise, AuditTypeInv, TypeOK
<1>4. pc[t] \in {"begin", "spawn"} => epoch - 1 \in Workers
  BY HolderFacts
<1>5. /\ failed \subseteq failed' /\ (t \in Workers => t \in failed')
      /\ pc[t] \in {"begin", "spawn"} => epoch - 1 \in failed'
  BY DEF Raise
<1>6. failed' \subseteq Workers
  BY <1>4 DEF Raise, AuditTypeInv, TypeOK
<1> QED
  BY <1>1, <1>2, <1>3, <1>5, <1>6

LEMMA NextTypeOK == AuditTypeInv /\ [Next]_vars => TypeOK' /\ Shape'
<1> SUFFICES ASSUME AuditTypeInv, [Next]_vars PROVE TypeOK' /\ Shape'
  OBVIOUS
<1> USE NameFacts DEF AuditTypeInv, files, threads, history, counts
<1>1. ASSUME NEW t \in Loggers, CallLog(t) \/ CallRotate(t) PROVE TypeOK' /\ Shape'
  <2>1. /\ calls' \in [log : Nat, rotate : Nat] /\ calls'.log <= MaxEntries
        /\ CallLog(t) => calls.log + 1 \in Entries
    BY <1>1 DEF CallLog, CallRotate, Shape, Entries
  <2>2. PICK x \in Entries \cup {NoEntry} : entry' = [entry EXCEPT ![t] = x]
    BY <1>1, <2>1 DEF CallLog, CallRotate
  <2>3. /\ entry' = [u \in Threads |-> entry'[u]]
        /\ \A u \in Loggers : entry'[u] \in Entries \cup {NoEntry}
        /\ \A w \in Workers : entry'[w] \in SealRecords \cup {NoEntry}
    BY <2>2 DEF TypeOK, Shape
  <2>4. /\ pc' = [pc EXCEPT ![t] = "acquire"]
        /\ UNCHANGED <<files, second, lock, stamp, epoch, history, crashes, faults>>
    BY <1>1 DEF CallLog, CallRotate
  <2> QED
    BY <2>1, <2>3, <2>4 DEF TypeOK, Shape
<1>2. ASSUME NEW t \in Threads, Acquire(t) PROVE TypeOK' /\ Shape'
  BY <1>2 DEF Acquire, TypeOK, Shape
<1>3. ASSUME NEW t \in Threads, Rename(t) PROVE TypeOK' /\ Shape'
  <2>1. active \in Logs /\ epoch + 1 \in 1..MaxEpochs
    BY <1>3, HolderFacts DEF Rename
  <2>2. second' \in Seconds
    BY <1>3, <2>1 DEF Rename, TypeOK, Numbered, Seconds
  <2> QED
    BY <1>3, <2>1, <2>2 DEF Rename, TypeOK, Shape
<1>4. ASSUME NEW t \in Threads, Begin(t) PROVE TypeOK' /\ Shape'
  BY <1>4, HolderFacts, LogFacts DEF Begin, TypeOK, Shape
<1>5. ASSUME NEW t \in Threads, Spawn(t) PROVE TypeOK' /\ Shape'
  <2>1. epoch - 1 \in Workers
    BY <1>5, HolderFacts DEF Spawn
  <2> QED
    BY <1>5, <2>1 DEF Spawn, TypeOK, Shape
<1>6. ASSUME NEW t \in Threads, Write(t) PROVE TypeOK' /\ Shape'
  <2>1. /\ active' \in Logs /\ acked' \in [Entries -> 0..MaxEpochs]
        /\ linked' \in [Workers -> 0..MaxEpochs]
    <3>1. epoch \in 0..MaxEpochs
      BY HolderFacts
    <3> QED
      BY <1>6, <3>1, WriteFacts DEF TypeOK
  <2>2. /\ lock' = Free /\ pc' = [pc EXCEPT ![t] = "idle"]
        /\ UNCHANGED <<processing, sealed, second, entry, stamp, epoch, when, failed, counts>>
    BY <1>6 DEF Write
  <2> QED
    BY <2>1, <2>2 DEF TypeOK, Shape
<1>7. ASSUME NEW w \in Workers, Hash(w) PROVE TypeOK' /\ Shape'
  <2>1. processing[stamp[w]] # NoFile =>
          [file |-> stamp[w], hash |-> processing[stamp[w]].epoch] \in SealRecords
    BY LogFacts DEF TypeOK, SealRecords, Workers
  <2>2. \A v \in Workers : entry'[v] \in SealRecords \cup {NoEntry}
    BY <1>7, <2>1 DEF Hash, TypeOK, Shape
  <2> QED
    BY <1>7, <2>2 DEF Hash, TypeOK, Shape
<1>8. ASSUME NEW w \in Workers, Seal(w) PROVE TypeOK' /\ Shape'
  <2>1. /\ processing' \in [Seconds -> Logs \cup {NoFile}]
        /\ sealed' \in [Seconds -> Logs \cup {NoFile}]
    BY <1>8 DEF Seal, TypeOK
  <2>2. pc' \in [Threads -> Where]
    BY <1>8 DEF Seal, TypeOK, Where, Logging, Rotating
  <2>3. UNCHANGED <<active, second, lock, entry, stamp, epoch, history, counts>>
    BY <1>8 DEF Seal
  <2> QED
    BY <2>1, <2>2, <2>3 DEF TypeOK, Shape, Where, Logging, Rotating
<1>9. ASSUME NEW t \in Threads, Raise(t) PROVE TypeOK' /\ Shape'
  <2>1. active' \in Logs \cup {NoFile} /\ failed' \subseteq Workers
    BY <1>9, RaiseFacts
  <2>2. /\ pc' = [pc EXCEPT ![t] = "idle"] /\ lock' \in Threads \cup {Free} /\ faults' \in Nat
        /\ UNCHANGED <<processing, sealed, second, entry, stamp, epoch,
                       when, acked, linked, calls, crashes>>
    BY <1>9 DEF Raise, TypeOK, Shape
  <2>3. pc' \in [Threads -> Where]
    BY <2>2 DEF TypeOK, Where, Logging, Rotating
  <2> QED
    BY <2>1, <2>2, <2>3 DEF TypeOK, Shape, Where, Logging, Rotating
<1>10. CASE Crash
  <2>1. active' \in Logs
    BY <1>10, HolderFacts, LogFacts DEF Crash
  <2>2. /\ pc' \in [Threads -> Where] /\ lock' = Free /\ crashes' \in Nat
        /\ UNCHANGED <<processing, sealed, second, entry, stamp, epoch, history, calls, faults>>
    BY <1>10 DEF Crash, Shape, Where
  <2> QED
    BY <2>1, <2>2 DEF TypeOK, Shape, Where, Logging, Rotating
<1>11. CASE UNCHANGED vars
  BY <1>11 DEF vars, TypeOK, Shape
<1> QED
  BY <1>1, <1>2, <1>3, <1>4, <1>5, <1>6, <1>7, <1>8, <1>9, <1>10, <1>11 DEF Next, Work

LEMMA NextLocked == AuditTypeInv /\ [Next]_vars => Locked'
<1> SUFFICES ASSUME AuditTypeInv, [Next]_vars PROVE Locked'
  OBVIOUS
<1> USE NameFacts DEF AuditTypeInv, Locked, Rotating, Logging, files, threads
<1>1. ASSUME NEW t \in Loggers, CallLog(t) \/ CallRotate(t) PROVE Locked'
  <2>1. /\ UNCHANGED <<active, lock>> /\ pc[t] = "idle" /\ pc'[t] = "acquire"
        /\ \A u \in Threads : u # t => pc'[u] = pc[u]
    BY <1>1 DEF CallLog, CallRotate, TypeOK
  <2>2. \A u \in Threads : u # t => entry'[u] = entry[u]
    BY <1>1 DEF CallLog, CallRotate, Shape
  <2> QED
    BY <2>1, <2>2
<1>2. ASSUME NEW t \in Threads, Acquire(t) PROVE Locked'
  BY <1>2 DEF Acquire, TypeOK
<1>3. ASSUME NEW t \in Threads, Rename(t) PROVE Locked'
  BY <1>3 DEF Rename, TypeOK
<1>4. ASSUME NEW t \in Threads, Begin(t) PROVE Locked'
  BY <1>4 DEF Begin, TypeOK
<1>5. ASSUME NEW t \in Threads, Spawn(t) PROVE Locked'
  BY <1>5, HolderFacts DEF Spawn, TypeOK, Numbered
<1>6. ASSUME NEW t \in Threads, Write(t) PROVE Locked'
  BY <1>6 DEF Write, TypeOK
<1>7. ASSUME NEW w \in Workers, Hash(w) PROVE Locked'
  <2>1. NoEntry # [file |-> stamp[w], hash |-> processing[stamp[w]].epoch]
        \/ processing[stamp[w]] = NoFile
    BY LogFacts DEF TypeOK, SealRecords, Workers
  <2>2. \/ pc'[w] = "idle" /\ entry' = entry
        \/ pc'[w] = "seal" /\ entry'[w] # NoEntry
    BY <1>7, <2>1 DEF Hash, TypeOK, Shape
  <2>3. /\ \A t \in Threads : t # w => entry'[t] = entry[t] /\ pc'[t] = pc[t]
        /\ pc[w] = "hash" /\ UNCHANGED <<active, lock>>
    BY <1>7 DEF Hash, TypeOK, Shape
  <2> QED
    BY <2>2, <2>3
<1>8. ASSUME NEW w \in Workers, Seal(w) PROVE Locked'
  BY <1>8 DEF Seal, TypeOK
<1>9. ASSUME NEW t \in Threads, Raise(t) PROVE Locked'
  <2>1. /\ pc[t] # "idle" /\ pc'[t] = "idle" /\ \A u \in Threads \ {t} : pc'[u] = pc[u]
        /\ entry' = entry /\ lock' = IF lock = t THEN Free ELSE lock
    BY <1>9, RaiseFacts DEF Raise
  <2>2. active' = active \/ (active = NoFile /\ pc[t] \in {"begin", "append"})
    BY <1>9 DEF Raise
  <2>3. pc[t] \in {"begin", "append"} => \A u \in Threads \ {t} : pc[u] \notin Rotating
    BY HolderFacts
  <2> QED
    BY <2>1, <2>2, <2>3
<1>10. CASE Crash
  BY <1>10 DEF Crash
<1>11. CASE UNCHANGED vars
  BY <1>11 DEF vars
<1> QED
  BY <1>1, <1>2, <1>3, <1>4, <1>5, <1>6, <1>7, <1>8, <1>9, <1>10, <1>11 DEF Next, Work

\* A step that leaves the numbers alone and starts no worker.
LEMMA NumberedStays ==
    ASSUME AuditTypeInv, UNCHANGED <<second, epoch, stamp, when>>,
           active' # NoFile => active'.epoch = epoch,
           \A w \in Workers : pc'[w] # "idle" => pc[w] # "idle",
           \A t \in Threads : pc'[t] \in {"begin", "spawn"} => pc[t] \in {"begin", "spawn"}
    PROVE  Numbered'
<1>1. \A t \in Threads : pc[t] \in {"begin", "spawn"} => epoch - 1 \in Workers
  BY HolderFacts
<1> QED
  BY <1>1, NameFacts DEF AuditTypeInv, Numbered

LEMMA NextNumbered == AuditTypeInv /\ [Next]_vars => Numbered'
<1> SUFFICES ASSUME AuditTypeInv, [Next]_vars PROVE Numbered'
  OBVIOUS
<1> USE NameFacts, HolderFacts DEF files, threads, history, counts
<1>1. ASSUME NEW t \in Loggers, CallLog(t) \/ CallRotate(t) PROVE Numbered'
  BY <1>1, NumberedStays DEF CallLog, CallRotate, AuditTypeInv, TypeOK
<1>2. ASSUME NEW t \in Threads, Acquire(t) PROVE Numbered'
  BY <1>2, NumberedStays DEF Acquire, AuditTypeInv, TypeOK
<1>3. ASSUME NEW t \in Threads, Rename(t) PROVE Numbered'
  <2>1. /\ active' = NoFile /\ epoch' = epoch + 1 /\ epoch \in Workers
        /\ second' \in {second, second + 1} /\ second' # 0 /\ stamp' = stamp
        /\ when' = [when EXCEPT ![epoch] = second']
    BY <1>3 DEF Rename
  <2>2. /\ pc[t] = "rename" /\ pc'[t] = "begin" /\ \A u \in Threads \ {t} : pc'[u] = pc[u]
    BY <1>3 DEF Rename, AuditTypeInv, TypeOK
  <2>3. second < epoch /\ second \in Nat /\ epoch \in Nat
    BY DEF AuditTypeInv, Numbered
  <2>4. second' < epoch' /\ second' \in Nat
    BY <2>1, <2>3
  <2>5. /\ when'[epoch] = second' /\ \A e \in Workers \ {epoch} : when'[e] = when[e]
    BY <2>1 DEF AuditTypeInv, TypeOK
  <2>6. \A e \in Workers : when'[e] # 0 <=> e < epoch'
    <3>1. \A e \in Workers \ {epoch} : e < epoch' <=> e < epoch
      BY <2>1
    <3> QED
      BY <2>1, <2>3, <2>5, <3>1 DEF AuditTypeInv, Numbered
  <2>7. \A w \in Workers : pc[w] # "idle" => w < epoch /\ stamp[w] = when[w]
    BY DEF AuditTypeInv, Numbered
  <2>8. pc[epoch] = "idle" /\ epoch # t
    BY <2>2, <2>7
  <2>9. \A w \in Workers : pc'[w] # "idle" => w < epoch' /\ stamp'[w] = when'[w]
    <3>1. \A w \in Workers : pc'[w] # "idle" => pc[w] # "idle"
      BY <2>2
    <3>2. \A w \in Workers : w < epoch => w < epoch' /\ w # epoch
      BY <2>1, <2>3
    <3> QED
      BY <2>1, <2>5, <2>7, <3>1, <3>2
  <2>10. \A u \in Threads \ {t} : pc'[u] \notin {"begin", "spawn"}
    BY <2>2 DEF Rotating
  <2>11. epoch' > 1 /\ epoch' - 1 = epoch /\ pc'[epoch] = "idle"
    BY <2>1, <2>2, <2>3, <2>8
  <2> QED
    BY <2>1, <2>4, <2>5, <2>6, <2>9, <2>11 DEF Numbered
<1>4. ASSUME NEW t \in Threads, Begin(t) PROVE Numbered'
  BY <1>4, NumberedStays, LogFacts DEF Begin, AuditTypeInv, TypeOK
<1>5. ASSUME NEW t \in Threads, Spawn(t) PROVE Numbered'
  <2>1. /\ epoch - 1 \in Workers /\ pc[t] = "spawn" /\ when[epoch - 1] = second
        /\ pc[epoch - 1] = "idle" /\ epoch > 1
    BY <1>5 DEF Spawn, AuditTypeInv, Numbered
  <2>2. /\ UNCHANGED <<active, second, epoch, when>> /\ stamp'[epoch - 1] = second
        /\ \A w \in Workers \ {epoch - 1} : stamp'[w] = stamp[w]
        /\ \A u \in Threads \ {t, epoch - 1} : pc'[u] = pc[u]
        /\ pc'[t] \in {"idle", "append"} /\ pc'[epoch - 1] = "hash"
    BY <1>5, <2>1 DEF Spawn, AuditTypeInv, TypeOK
  <2>3. \A u \in Threads : pc'[u] \notin {"begin", "spawn"}
    BY <2>1, <2>2 DEF Rotating
  <2>4. \A w \in Workers : pc'[w] # "idle" => w < epoch /\ stamp'[w] = when[w]
    <3>1. \A w \in Workers \ {epoch - 1} : pc'[w] # "idle" => pc[w] # "idle"
      BY <2>1, <2>2
    <3> QED
      BY <2>1, <2>2, <3>1 DEF AuditTypeInv, Numbered
  <2> QED
    BY <2>2, <2>3, <2>4 DEF AuditTypeInv, Numbered
<1>6. ASSUME NEW t \in Threads, Write(t) PROVE Numbered'
  BY <1>6, NumberedStays, WriteFacts DEF Write, AuditTypeInv, TypeOK
<1>7. ASSUME NEW w \in Workers, Hash(w) PROVE Numbered'
  BY <1>7, NumberedStays DEF Hash, AuditTypeInv, TypeOK
<1>8. ASSUME NEW w \in Workers, Seal(w) PROVE Numbered'
  BY <1>8, NumberedStays DEF Seal, AuditTypeInv, TypeOK
<1>9. ASSUME NEW t \in Threads, Raise(t) PROVE Numbered'
  BY <1>9, NumberedStays, RaiseFacts DEF Raise
<1>10. CASE Crash
  <2>1. active' # NoFile => active'.epoch = epoch
    BY <1>10, LogFacts DEF Crash
  <2> QED
    BY <1>10, <2>1, NumberedStays DEF Crash
<1>11. CASE UNCHANGED vars
  BY <1>11, NumberedStays DEF vars
<1> QED
  BY <1>1, <1>2, <1>3, <1>4, <1>5, <1>6, <1>7, <1>8, <1>9, <1>10, <1>11 DEF Next, Work

LEMMA NextTypeInv == AuditTypeInv /\ [Next]_vars => AuditTypeInv'
BY NextTypeOK, NextLocked, NextNumbered DEF AuditTypeInv
-----------------------------------------------------------------------------
\* The logs that the files are.
LEMMA LogsHere ==
    ASSUME AuditTypeInv
    PROVE  /\ AllLogs \subseteq Logs
           /\ \A log : log \in AllLogs <=>
                 log # NoFile /\ \/ log = active
                                 \/ \E s \in Seconds : log = processing[s] \/ log = sealed[s]
BY DEF AuditTypeInv, TypeOK, AllLogs

LEMMA LogsThere ==
    ASSUME AuditTypeInv, [Next]_vars
    PROVE  /\ AllLogs' \subseteq Logs
           /\ \A log : log \in AllLogs' <=>
                 log # NoFile /\ \/ log = active'
                                 \/ \E s \in Seconds : log = processing'[s] \/ log = sealed'[s]
BY NextTypeInv DEF AuditTypeInv, TypeOK, AllLogs

\* An epoch has one file, and only the log in use is of the last one.
LEMMA OneFile ==
    ASSUME AuditTypeInv, Filed
    PROVE  /\ \A log \in AllLogs :
                 /\ log \in Logs /\ log.epoch \in Workers /\ log.epoch <= epoch
                 /\ log.epoch = epoch => log = active
                 /\ log # active => log.epoch < epoch
           /\ \A log1, log2 \in AllLogs : log1.epoch = log2.epoch => log1 = log2
<1>1. \A log \in AllLogs : log \in Logs /\ log.epoch \in Workers
  BY LogsHere, LogFacts DEF Workers
<1>2. \A log \in AllLogs : log # active => log.epoch < epoch
  BY LogsHere DEF Filed
<1>3. \A log \in AllLogs : log = active => log.epoch = epoch
  BY LogsHere, HolderFacts
<1>4. \A log \in AllLogs : log.epoch <= epoch /\ (log.epoch = epoch => log = active)
  BY <1>1, <1>2, <1>3, HolderFacts, NameFacts
<1>5. ASSUME NEW log1 \in AllLogs, NEW log2 \in AllLogs, log1.epoch = log2.epoch
      PROVE  log1 = log2
  <2>1. CASE log1 = active \/ log2 = active
    BY <1>3, <1>4, <1>5, <2>1
  <2>2. CASE log1 # active /\ log2 # active
    <3>1. PICK s1 \in Seconds : log1 = processing[s1] \/ log1 = sealed[s1]
      BY <2>2, LogsHere
    <3>2. PICK s2 \in Seconds : log2 = processing[s2] \/ log2 = sealed[s2]
      BY <2>2, LogsHere
    <3>3. when[log1.epoch] = s1 /\ when[log2.epoch] = s2 /\ log1 # NoFile /\ log2 # NoFile
      BY <3>1, <3>2, LogsHere DEF Filed
    <3>4. s1 = s2
      BY <1>5, <3>3
    <3> QED
      BY <1>5, <3>1, <3>2, <3>3, <3>4 DEF Filed
  <2> QED
    BY <2>1, <2>2
<1> QED
  BY <1>1, <1>2, <1>4, <1>5

\* The second of a log that was renamed never changes, nor does what it shares.
LEMMA NextWhen ==
    ASSUME AuditTypeInv, [Next]_vars
    PROVE  /\ \A e \in Workers : when[e] # 0 => when'[e] = when[e]
           /\ Clashing \subseteq Clashing'
           /\ UNCHANGED when \/ \E t \in Threads : Rename(t)
           /\ UNCHANGED epoch \/ \E t \in Threads : Rename(t)
<1>1. /\ UNCHANGED when \/ \E t \in Threads : Rename(t)
      /\ UNCHANGED epoch \/ \E t \in Threads : Rename(t)
  BY NameFacts DEF Next, Work, CallLog, CallRotate, Acquire, Begin, Spawn, Write, Hash, Seal, Raise,
                   Crash, vars, history
<1>2. ASSUME NEW t \in Threads, Rename(t), NEW e \in Workers, when[e] # 0 PROVE when'[e] = when[e]
  <2>1. when' = [when EXCEPT ![epoch] = second']
    BY <1>2 DEF Rename
  <2>2. e # epoch
    BY <1>2, HolderFacts, NameFacts DEF AuditTypeInv, Numbered
  <2> QED
    BY <2>1, <2>2 DEF AuditTypeInv, TypeOK
<1>3. \A e \in Workers : when[e] # 0 => when'[e] = when[e]
  BY <1>1, <1>2
<1>4. Clashing \subseteq Clashing'
  BY <1>3 DEF Clashing
<1> QED
  BY <1>1, <1>3, <1>4

LEMMA RenameFacts ==
    ASSUME AuditTypeInv, NEW t \in Threads, Rename(t)
    PROVE  /\ active \in Logs /\ active.epoch = epoch /\ active' = NoFile
           /\ second' \in Seconds /\ second' # 0 /\ epoch \in Workers /\ epoch' = epoch + 1
           /\ processing'[second'] = active /\ sealed' = sealed
           /\ \A s \in Seconds \ {second'} : processing'[s] = processing[s]
           /\ when'[epoch] = second'
           /\ \A e \in Workers \ {epoch} : when'[e] = when[e]
           /\ pc[t] = "rename" /\ pc'[t] = "begin"
           /\ \A u \in Threads \ {t} : pc'[u] = pc[u] /\ pc[u] \notin {"begin", "spawn"}
<1>1. active \in Logs /\ active.epoch = epoch /\ epoch \in Workers
  BY HolderFacts DEF Rename, AuditTypeInv, Locked
<1>2. second' \in Seconds
  BY NextTypeOK DEF Next, Work, AuditTypeInv, TypeOK
<1>3. \A u \in Threads \ {t} : pc[u] \notin {"begin", "spawn"}
  BY HolderFacts DEF Rename, Rotating
<1>4. /\ processing'[second'] = active
      /\ \A s \in Seconds \ {second'} : processing'[s] = processing[s]
      /\ when'[epoch] = second'
      /\ \A e \in Workers \ {epoch} : when'[e] = when[e]
      /\ pc'[t] = "begin" /\ \A u \in Threads \ {t} : pc'[u] = pc[u]
  BY <1>1, <1>2 DEF Rename, AuditTypeInv, TypeOK
<1> QED
  BY <1>1, <1>2, <1>3, <1>4 DEF Rename

LEMMA SealFacts ==
    ASSUME AuditTypeInv, NEW w \in Workers, Seal(w)
    PROVE  /\ stamp[w] \in Seconds /\ stamp[w] = when[w] /\ active' = active /\ pc[w] = "seal"
           /\ UNCHANGED <<second, lock, entry, stamp, epoch, when, acked, linked, failed>>
           /\ \A s \in Seconds \ {stamp[w]} : processing'[s] = processing[s] /\ sealed'[s] = sealed[s]
           /\ \A u \in Threads \ {w} : pc'[u] = pc[u]
           /\ \/ /\ processing[stamp[w]] = NoFile /\ UNCHANGED <<processing, sealed>>
                 /\ pc'[w] = "idle"
              \/ /\ processing[stamp[w]] # NoFile /\ pc'[w] = "acquire"
                 /\ processing'[stamp[w]] = NoFile /\ sealed'[stamp[w]] = processing[stamp[w]]
<1>1. stamp[w] \in Seconds /\ stamp[w] = when[w]
  BY DEF Seal, AuditTypeInv, TypeOK, Numbered
<1> QED
  BY <1>1, NameFacts DEF Seal, AuditTypeInv, TypeOK, history

LEMMA NextFiled == FileInv /\ [Next]_vars => Filed'
<1> SUFFICES ASSUME FileInv, [Next]_vars PROVE Filed'
  OBVIOUS
<1> USE NameFacts DEF FileInv
<1>1. ASSUME UNCHANGED <<processing, sealed, epoch, when>> PROVE Filed'
  BY <1>1 DEF Filed
<1>2. ASSUME NEW t \in Threads, Rename(t) PROVE Filed'
  <2>1. /\ \A s \in Seconds : processing[s] # NoFile => processing[s].epoch \in Workers
        /\ \A s \in Seconds : sealed[s] # NoFile => sealed[s].epoch \in Workers
    BY LogFacts DEF AuditTypeInv, TypeOK, Workers
  <2>2. epoch \in Workers /\ epoch' = epoch + 1 /\ epoch < epoch'
    BY <1>2, RenameFacts
  <2>3. \A s \in Seconds : processing[s] # NoFile =>
            processing[s].epoch \in Workers \ {epoch} /\ processing[s].epoch < epoch'
    BY <2>1, <2>2 DEF Filed
  <2>4. \A s \in Seconds : sealed[s] # NoFile =>
            sealed[s].epoch \in Workers \ {epoch} /\ sealed[s].epoch < epoch'
    BY <2>1, <2>2 DEF Filed
  <2> QED
    BY <1>2, <2>2, <2>3, <2>4, RenameFacts DEF Filed
<1>3. ASSUME NEW w \in Workers, Seal(w) PROVE Filed'
  <2>1. \A s \in Seconds \ {stamp[w]} : processing'[s] = processing[s] /\ sealed'[s] = sealed[s]
    BY <1>3, SealFacts
  <2>2. epoch' = epoch /\ when' = when /\ stamp[w] \in Seconds
    BY <1>3, SealFacts
  <2>3. \/ UNCHANGED <<processing, sealed>>
        \/ processing'[stamp[w]] = NoFile /\ sealed'[stamp[w]] = processing[stamp[w]]
    BY <1>3, SealFacts
  <2> QED
    BY <1>1, <2>1, <2>2, <2>3 DEF Filed
<1> QED
  BY <1>1, <1>2, <1>3
     DEF Next, Work, CallLog, CallRotate, Acquire, Begin, Spawn, Write, Hash, Raise, Crash,
         vars, files, history

\* What a step other than Write does to the logs: none gets a line, a new one
\* has none, one that is no more shares its second, and what is sealed stays.
Faded ==
    /\ \A log \in AllLogs' : log \in AllLogs \/ (log.entries = {} /\ log.seals = {})
    /\ \A log \in AllLogs : log \in AllLogs' \/ log.epoch \in Clashing'
    /\ \A e \in Workers \ Clashing' : Sealed(e) => Sealed(e)'

LEMMA NextFaded ==
    ASSUME FileInv, [Next]_vars, ~ \E t \in Threads : Write(t)
    PROVE  Faded
<1> USE NameFacts, LogsHere, LogsThere, NextWhen DEF FileInv
<1>1. \A e \in Workers : Sealed(e) => when[e] # 0 /\ when[e] \in Seconds
  BY DEF Sealed, Filed, AuditTypeInv, TypeOK, Numbered
<1>2. \A e \in Workers : Sealed(e) /\ sealed' = sealed => Sealed(e)'
  BY <1>1 DEF Sealed
<1>3. ASSUME UNCHANGED <<processing, sealed>>,
             active' = active \/ (active = NoFile /\ active' \in {NewLog(epoch), Headless(epoch)})
      PROVE  Faded
  <2>1. active' = active \/ (active'.entries = {} /\ active'.seals = {})
    BY <1>3, HolderFacts, LogFacts
  <2> QED
    BY <1>2, <1>3, <2>1 DEF Faded
<1>4. ASSUME NEW t \in Threads, Rename(t) PROVE Faded
  <2>1. \A log \in AllLogs' : log \in AllLogs
    BY <1>4, RenameFacts
  <2>2. ASSUME NEW log \in AllLogs, log \notin AllLogs' PROVE log.epoch \in Clashing'
    <3>1. log = processing[second'] /\ second' \in Seconds /\ log # NoFile
      BY <1>4, <2>2, RenameFacts
    <3>2. log.epoch \in Workers /\ log.epoch < epoch /\ when[log.epoch] = second'
      BY <3>1, LogFacts DEF Filed, AuditTypeInv, TypeOK, Workers
    <3>3. log.epoch # epoch /\ when'[log.epoch] = second'
      BY <1>4, <3>2, RenameFacts
    <3> QED
      BY <1>4, <3>2, <3>3, RenameFacts DEF Clashing
  <2>3. sealed' = sealed
    BY <1>4, RenameFacts
  <2> QED
    BY <1>2, <2>1, <2>2, <2>3 DEF Faded
<1>5. ASSUME NEW w \in Workers, Seal(w) PROVE Faded
  <2>1. CASE UNCHANGED <<processing, sealed>>
    BY <1>3, <1>5, <2>1, SealFacts
  <2>2. CASE ~ UNCHANGED <<processing, sealed>>
    <3>1. /\ processing[stamp[w]] # NoFile /\ stamp[w] \in Seconds
          /\ processing'[stamp[w]] = NoFile /\ sealed'[stamp[w]] = processing[stamp[w]]
          /\ active' = active /\ when' = when
          /\ \A s \in Seconds \ {stamp[w]} : processing'[s] = processing[s] /\ sealed'[s] = sealed[s]
      BY <1>5, <2>2, SealFacts
    <3>2. \A log \in AllLogs' : log \in AllLogs
      BY <3>1
    <3>3. sealed[stamp[w]] # NoFile =>
              /\ sealed[stamp[w]].epoch \in Clashing'
              /\ when[sealed[stamp[w]].epoch] = stamp[w]
      <4>1. /\ processing[stamp[w]].epoch \in Workers
            /\ when[processing[stamp[w]].epoch] = stamp[w]
        BY <3>1, LogFacts DEF Filed, AuditTypeInv, TypeOK, Workers
      <4>2. stamp[w] # 0
        BY <3>1, <4>1 DEF Filed, AuditTypeInv, Numbered
      <4>3. ASSUME sealed[stamp[w]] # NoFile
            PROVE  /\ sealed[stamp[w]].epoch \in Workers
                   /\ when[sealed[stamp[w]].epoch] = stamp[w]
                   /\ sealed[stamp[w]].epoch # processing[stamp[w]].epoch
        BY <3>1, <4>3, LogFacts DEF Filed, AuditTypeInv, TypeOK, Workers
      <4> QED
        BY <3>1, <4>1, <4>2, <4>3 DEF Clashing
    <3>4. \A log \in AllLogs : log \in AllLogs' \/ log.epoch \in Clashing'
      <4>1. ASSUME NEW log \in AllLogs, log \notin AllLogs' PROVE log = sealed[stamp[w]]
        BY <3>1, <4>1
      <4> QED
        BY <3>3, <4>1
    <3>5. ASSUME NEW e \in Workers \ Clashing', Sealed(e) PROVE Sealed(e)'
      <4>1. when[e] # stamp[w] /\ when[e] \in Seconds
        BY <1>1, <3>3, <3>5 DEF Sealed
      <4> QED
        BY <3>1, <3>5, <4>1 DEF Sealed
    <3> QED
      BY <3>2, <3>4, <3>5 DEF Faded
  <2> QED
    BY <2>1, <2>2
<1>6. ASSUME NEW t \in Threads, Raise(t) PROVE Faded
  BY <1>3, <1>6, RaiseFacts DEF Raise
<1>7. ASSUME NEW t \in Threads, Begin(t) PROVE Faded
  <2>1. active = NoFile /\ active' = NewLog(epoch) /\ UNCHANGED <<processing, sealed>>
    BY <1>7 DEF Begin, AuditTypeInv, Locked
  <2> QED
    BY <1>3, <2>1
<1>8. CASE Crash
  BY <1>3, <1>8 DEF Crash
<1> QED
  BY <1>3, <1>4, <1>5, <1>6, <1>7, <1>8
     DEF Next, Work, CallLog, CallRotate, Acquire, Spawn, Hash, vars, files

\* A line is written into the log of the last epoch; no other log is touched.
LEMMA WriteLogs ==
    ASSUME FileInv, NEW t \in Threads, Write(t)
    PROVE  /\ active' \in AllLogs' /\ active'.epoch = epoch /\ epoch' = epoch /\ epoch \in Workers
           /\ \A log \in AllLogs' : log = active' \/ (log \in AllLogs /\ log.epoch # epoch)
           /\ \A log \in AllLogs : log \in AllLogs' \/ (log.epoch = epoch /\ log = Opened)
           /\ \A log \in AllLogs : log.epoch = epoch => log = Opened
           /\ Opened \in AllLogs \/ (Opened.entries = {} /\ Opened.seals = {})
           /\ UNCHANGED <<processing, sealed, when, calls, entry, failed, crashes>>
           /\ Clashing' = Clashing /\ \A e : Sealed(e)' <=> Sealed(e)
           /\ pc[t] = "append" /\ pc'[t] = "idle"
           /\ \A u \in Threads \ {t} : pc'[u] = pc[u] /\ pc[u] \notin Rotating
<1> USE NameFacts DEF FileInv
<1>1. [Next]_vars
  BY DEF Next, Work
<1>2. /\ active' \in Logs /\ active' # NoFile /\ active'.epoch = epoch /\ epoch' = epoch
      /\ UNCHANGED <<processing, sealed, when, calls, entry, failed, crashes>>
  BY WriteFacts, LogFacts DEF Write, counts
<1>3. active' \in AllLogs'
  BY <1>1, <1>2, LogsThere
<1>4. \A s \in Seconds : /\ processing[s] # NoFile => processing[s].epoch # epoch
                         /\ sealed[s] # NoFile => sealed[s].epoch # epoch
  BY HolderFacts DEF Filed
<1>5. ASSUME NEW log \in AllLogs'
      PROVE  log = active' \/ (log \in AllLogs /\ log.epoch # epoch)
  <2>1. CASE log # active'
    <3>1. \E s \in Seconds : log = processing[s] \/ log = sealed[s]
      BY <1>1, <1>2, <1>5, <2>1, LogsThere
    <3> QED
      BY <1>1, <1>4, <1>5, <3>1, LogsHere, LogsThere
  <2> QED
    BY <2>1
<1>6. \A log \in AllLogs : log.epoch = epoch => log = active /\ log = Opened
  BY OneFile, LogsHere DEF Opened
<1>7. ASSUME NEW log \in AllLogs, log.epoch # epoch PROVE log \in AllLogs'
  <2>1. log # NoFile /\ log # active
    BY <1>7, LogsHere, HolderFacts
  <2>2. \E s \in Seconds : log = processing'[s] \/ log = sealed'[s]
    BY <1>2, <1>7, <2>1, LogsHere
  <2> QED
    BY <1>1, <2>1, <2>2, LogsThere
<1>8. Opened \in AllLogs \/ (Opened.entries = {} /\ Opened.seals = {})
  BY WriteFacts, LogsHere DEF Opened
<1>9. Clashing' = Clashing /\ \A e : Sealed(e)' <=> Sealed(e)
  BY <1>2 DEF Clashing, Sealed
<1>10. /\ pc[t] = "append" /\ pc'[t] = "idle"
       /\ \A u \in Threads \ {t} : pc'[u] = pc[u] /\ pc[u] \notin Rotating
  BY HolderFacts DEF Write, AuditTypeInv, TypeOK, Rotating
<1> QED
  BY <1>2, <1>3, <1>5, <1>6, <1>7, <1>8, <1>9, <1>10, HolderFacts
-----------------------------------------------------------------------------
\* A step that writes no entry and takes none to write.
LEMMA KeptStays ==
    ASSUME FileInv, Kept, Faded, Clashing \subseteq Clashing', acked' = acked, calls' = calls,
           \A t \in Loggers : pc'[t] # "idle" => pc[t] # "idle" /\ entry'[t] = entry[t]
    PROVE  Kept'
<1>1. \A x : \A log \in AllLogs' : x \in log.entries => log \in AllLogs
  BY DEF Faded
<1>2. ASSUME NEW x \in Entries, acked[x] # 0, acked[x] \notin Clashing'
      PROVE  \E log \in AllLogs' : log.epoch = acked[x] /\ x \in log.entries
  <2>1. PICK log \in AllLogs : log.epoch = acked[x] /\ x \in log.entries
    BY <1>2 DEF Kept
  <2> QED
    BY <1>2, <2>1 DEF Faded
<1>3. \A x \in Entries : \A log1, log2 \in AllLogs' :
          x \in log1.entries /\ x \in log2.entries => log1 = log2
  BY <1>1 DEF Kept
<1>4. \A log \in AllLogs' : \A x \in log.entries : x <= calls.log
  BY <1>1 DEF Kept
<1>5. ASSUME NEW t \in Loggers, pc'[t] # "idle", entry'[t] # NoEntry
      PROVE  /\ entry'[t] <= calls.log
             /\ \A log \in AllLogs' : entry'[t] \notin log.entries
             /\ \A u \in Loggers \ {t} : pc'[u] # "idle" => entry'[u] # entry'[t]
  BY <1>1, <1>5 DEF Kept
<1> QED
  BY <1>2, <1>3, <1>4, <1>5 DEF Kept

LEMMA CallKept ==
    ASSUME FileInv, Kept, NEW t \in Loggers, CallLog(t) \/ CallRotate(t)
    PROVE  Kept'
<1> USE DEF FileInv
<1>1. /\ AllLogs' = AllLogs /\ acked' = acked /\ Clashing' = Clashing
      /\ pc[t] = "idle" /\ \A u \in Loggers \ {t} : pc'[u] = pc[u] /\ entry'[u] = entry[u]
  BY NameFacts DEF CallLog, CallRotate, AllLogs, Clashing, files, history, AuditTypeInv, TypeOK, Shape
<1>2. calls.log \in Nat /\ \A x \in Entries : x \in Nat
  BY DEF AuditTypeInv, Shape, Entries
<1>3. calls'.log = calls.log \/ calls'.log = calls.log + 1
  BY DEF CallLog, CallRotate, AuditTypeInv, Shape
<1>4. \/ entry'[t] = NoEntry
      \/ entry'[t] = calls.log + 1 /\ calls'.log = calls.log + 1
  BY NameFacts DEF CallLog, CallRotate, AuditTypeInv, Shape
<1>5. \A log \in AllLogs : \A x \in log.entries : x \in Nat /\ x <= calls.log /\ x <= calls'.log
  BY <1>2, <1>3, LogsHere, LogFacts DEF Kept
<1>6. \A u \in Loggers \ {t} : pc[u] # "idle" /\ entry[u] # NoEntry =>
          /\ entry[u] \in Nat /\ entry[u] <= calls.log /\ entry[u] <= calls'.log
          /\ entry[u] # entry'[t]
  <2>1. \A u \in Loggers : entry[u] \in Entries \cup {NoEntry}
    BY DEF AuditTypeInv, TypeOK
  <2> QED
    BY <1>2, <1>3, <1>4, <2>1 DEF Kept
<1>7. entry'[t] # NoEntry =>
          /\ entry'[t] <= calls'.log
          /\ \A log \in AllLogs : entry'[t] \notin log.entries
          /\ \A u \in Loggers \ {t} : pc[u] # "idle" => entry[u] # entry'[t]
  <2>1. ASSUME entry'[t] # NoEntry, NEW log \in AllLogs PROVE entry'[t] \notin log.entries
    BY <1>2, <1>4, <1>5, <2>1
  <2> QED
    BY <1>2, <1>4, <1>6, <2>1
<1> QED
  BY <1>1, <1>5, <1>6, <1>7 DEF Kept

LEMMA WriteKept ==
    ASSUME FileInv, Kept, NEW t \in Threads, Write(t)
    PROVE  Kept'
<1> USE NameFacts, WriteLogs DEF FileInv
<1>1. \A x : x \in Opened.entries => Opened \in AllLogs
  OBVIOUS
<1>2. CASE t \in Workers
  <2>1. active'.entries = Opened.entries /\ acked' = acked
    BY <1>2, WriteFacts
  <2>2. \A x : \A log \in AllLogs : x \in log.entries =>
            \E new \in AllLogs' : new.epoch = log.epoch /\ x \in new.entries
    BY <2>1
  <2>3. \A x : \A new \in AllLogs' : x \in new.entries =>
            \E log \in AllLogs : /\ log.epoch = new.epoch /\ x \in log.entries
                                 /\ new = active' \/ (new = log /\ log.epoch # epoch)
    BY <1>1, <2>1, WriteFacts
  <2>4. \A x \in Entries : \A log1, log2 \in AllLogs' :
            x \in log1.entries /\ x \in log2.entries => log1 = log2
    BY <2>3 DEF Kept
  <2>5. \A x \in Entries : acked'[x] # 0 /\ acked'[x] \notin Clashing' =>
            \E log \in AllLogs' : log.epoch = acked'[x] /\ x \in log.entries
    BY <2>1, <2>2 DEF Kept
  <2>6. \A u \in Loggers : pc'[u] = pc[u] /\ entry'[u] = entry[u]
    BY <1>2
  <2>7. /\ \A new \in AllLogs' : \A x \in new.entries : x <= calls.log
        /\ \A u \in Loggers : pc[u] # "idle" /\ entry[u] # NoEntry =>
              \A new \in AllLogs' : entry[u] \notin new.entries
    BY <2>3 DEF Kept
  <2> QED
    BY <2>4, <2>5, <2>6, <2>7 DEF Kept
<1>3. CASE t \in Loggers
  <2>1. /\ active'.entries = Opened.entries \cup {entry[t]} /\ acked' = [acked EXCEPT ![entry[t]] = epoch]
        /\ entry[t] \in Entries /\ entry[t] # NoEntry
    BY <1>3, WriteFacts
  <2>2. /\ entry[t] <= calls.log /\ \A log \in AllLogs : entry[t] \notin log.entries
        /\ \A u \in Loggers \ {t} : pc[u] # "idle" => entry[u] # entry[t]
    BY <1>3, <2>1 DEF Kept
  <2>3. ASSUME NEW x \in Entries, acked'[x] # 0, acked'[x] \notin Clashing'
        PROVE  \E log \in AllLogs' : log.epoch = acked'[x] /\ x \in log.entries
    <3>1. CASE x = entry[t]
      BY <2>1, <3>1 DEF AuditTypeInv, TypeOK
    <3>2. CASE x # entry[t]
      <4>1. acked'[x] = acked[x]
        BY <2>1, <3>2 DEF AuditTypeInv, TypeOK
      <4>2. PICK log \in AllLogs : log.epoch = acked[x] /\ x \in log.entries
        BY <2>3, <4>1 DEF Kept
      <4> QED
        BY <2>1, <4>1, <4>2
    <3> QED
      BY <3>1, <3>2
  <2>4. ASSUME NEW x, NEW new \in AllLogs', x \in new.entries, x # entry[t]
        PROVE  \E log \in AllLogs : /\ log.epoch = new.epoch /\ x \in log.entries
                                    /\ new = active' \/ (new = log /\ log.epoch # epoch)
    BY <1>1, <2>1, <2>4, WriteFacts
  <2>5. \A new \in AllLogs' : entry[t] \in new.entries => new = active'
    BY <2>2
  <2>6. ASSUME NEW x \in Entries, NEW log1 \in AllLogs', NEW log2 \in AllLogs',
               x \in log1.entries, x \in log2.entries
        PROVE  log1 = log2
    <3>1. CASE x = entry[t]
      BY <2>5, <2>6, <3>1
    <3>2. CASE x # entry[t]
      BY <2>4, <2>6, <3>2 DEF Kept
    <3> QED
      BY <3>1, <3>2
  <2>7. \A log \in AllLogs' : \A x \in log.entries : x <= calls'.log
    BY <2>2, <2>4 DEF Kept
  <2>8. ASSUME NEW u \in Loggers, pc'[u] # "idle", entry'[u] # NoEntry
        PROVE  /\ entry'[u] <= calls'.log
               /\ \A log \in AllLogs' : entry'[u] \notin log.entries
               /\ \A v \in Loggers \ {u} : pc'[v] # "idle" => entry'[v] # entry'[u]
    <3>1. u # t /\ pc[u] # "idle" /\ entry'[u] = entry[u] /\ entry[u] # entry[t]
      BY <2>2, <2>8
    <3>2. /\ entry[u] <= calls.log /\ \A log \in AllLogs : entry[u] \notin log.entries
          /\ \A v \in Loggers \ {u} : pc[v] # "idle" => entry[v] # entry[u]
      BY <2>8, <3>1 DEF Kept
    <3>3. \A log \in AllLogs' : entry[u] \notin log.entries
      BY <2>4, <3>1, <3>2
    <3>4. \A v \in Loggers : pc'[v] # "idle" => pc[v] # "idle"
      OBVIOUS
    <3> QED
      BY <3>1, <3>2, <3>3, <3>4
  <2> QED
    BY <2>3, <2>6, <2>7, <2>8 DEF Kept
<1> QED
  BY <1>2, <1>3

\* Only Write writes; a step of a worker that is none leaves the loggers alone.
LEMMA NextKept == FileInv /\ Kept /\ [Next]_vars => Kept'
<1> SUFFICES ASSUME FileInv, Kept, [Next]_vars PROVE Kept'
  OBVIOUS
<1> USE NameFacts DEF FileInv
<1>1. ASSUME NEW t \in Loggers, CallLog(t) \/ CallRotate(t) PROVE Kept'
  BY <1>1, CallKept
<1>2. ASSUME NEW t \in Threads, Write(t) PROVE Kept'
  BY <1>2, WriteKept
<1>3. ASSUME ~ \E t \in Loggers : CallLog(t) \/ CallRotate(t), ~ \E t \in Threads : Write(t)
      PROVE  Kept'
  <2>1. Faded /\ Clashing \subseteq Clashing'
    BY <1>3, NextFaded, NextWhen
  <2>2. acked' = acked /\ calls' = calls
    BY <1>3 DEF Next, Work, Acquire, Rename, Begin, Spawn, Hash, Seal, Raise, Crash, vars, history, counts
  <2>3. \A u \in Loggers : entry'[u] = entry[u]
    BY <1>3 DEF Next, Work, Acquire, Rename, Begin, Spawn, Hash, Seal, Raise, Crash, vars, threads,
                AuditTypeInv, Shape
  <2>4. \A u \in Loggers : pc'[u] # "idle" => pc[u] # "idle"
    <3>1. ASSUME NEW t \in Threads, Acquire(t) \/ Rename(t) \/ Begin(t)
          PROVE  \A u \in Loggers : pc'[u] # "idle" => pc[u] # "idle"
      BY <3>1 DEF Acquire, Rename, Begin, AuditTypeInv, TypeOK
    <3>2. ASSUME NEW t \in Threads, Spawn(t)
          PROVE  \A u \in Loggers : pc'[u] # "idle" => pc[u] # "idle"
      <4>1. epoch - 1 \in Workers
        BY <3>2, HolderFacts DEF Spawn
      <4> QED
        BY <3>2, <4>1 DEF Spawn, AuditTypeInv, TypeOK
    <3>3. ASSUME NEW w \in Workers, Hash(w) \/ Seal(w)
          PROVE  \A u \in Loggers : pc'[u] # "idle" => pc[u] # "idle"
      BY <3>3 DEF Hash, Seal, AuditTypeInv, TypeOK
    <3>4. ASSUME NEW t \in Threads, Raise(t)
          PROVE  \A u \in Loggers : pc'[u] # "idle" => pc[u] # "idle"
      BY <3>4, RaiseFacts
    <3>5. Crash \/ UNCHANGED vars => \A u \in Loggers : pc'[u] # "idle" => pc[u] # "idle"
      BY DEF Crash, vars, threads
    <3> QED
      BY <1>3, <3>1, <3>2, <3>3, <3>4, <3>5 DEF Next, Work
  <2> QED
    BY <2>1, <2>2, <2>3, <2>4, KeptStays
<1> QED
  BY <1>1, <1>2, <1>3
-----------------------------------------------------------------------------
\* How a step moves the threads: who comes to where something is owned, and
\* who leaves it.
Moves ==
    /\ \A w \in Workers : pc'[w] \in {"hash", "seal"} =>
          pc[w] \in {"hash", "seal"} \/ (w = epoch - 1 /\ \E t \in Threads : Spawn(t))
    /\ \A w \in Workers : pc'[w] \in Logging =>
          pc[w] \in Logging \/ (Seal(w) /\ processing[stamp[w]] # NoFile)
    /\ \A w \in Workers : pc'[w] \in Logging \cup {"seal"} =>
          Hash(w) \/ (pc[w] \in Logging \cup {"seal"} /\ entry'[w] = entry[w])
    /\ \A w \in Workers : pc'[w] # "idle" =>
          pc[w] # "idle" \/ (w = epoch - 1 /\ \E t \in Threads : Spawn(t))
    /\ \A w \in Workers : pc'[w] = "idle" =>
          \/ pc[w] = "idle" \/ Write(w) \/ Raise(w) \/ Crash
          \/ pc[w] \in {"hash", "seal"} /\ processing[stamp[w]] = NoFile
    /\ \A t \in Threads : pc'[t] \in {"begin", "spawn"} => pc[t] \in {"begin", "spawn"} \/ Rename(t)
    /\ \A t \in Threads : pc[t] \in {"begin", "spawn"} =>
          pc'[t] \in {"begin", "spawn"} \/ Spawn(t) \/ Raise(t) \/ Crash

LEMMA NextMoves == AuditTypeInv /\ [Next]_vars => Moves
<1> SUFFICES ASSUME AuditTypeInv, [Next]_vars PROVE Moves
  OBVIOUS
<1> USE NameFacts DEF Logging, Rotating
<1>1. ASSUME NEW t \in Loggers, CallLog(t) \/ CallRotate(t) PROVE Moves
  <2>1. /\ \A u \in Threads \ {t} : pc'[u] = pc[u] /\ entry'[u] = entry[u]
        /\ pc[t] = "idle" /\ pc'[t] = "acquire"
    BY <1>1 DEF CallLog, CallRotate, AuditTypeInv, TypeOK, Shape
  <2> QED
    BY <2>1 DEF Moves
<1>2. ASSUME NEW t \in Threads, Acquire(t) PROVE Moves
  <2>1. /\ \A u \in Threads \ {t} : pc'[u] = pc[u]
        /\ entry' = entry /\ pc[t] = "acquire"
        /\ \/ pc'[t] = "idle" /\ entry[t] = NoEntry
           \/ pc'[t] \in {"rename", "append"}
    BY <1>2 DEF Acquire, AuditTypeInv, TypeOK
  <2>2. t \in Workers => entry[t] # NoEntry
    BY <2>1 DEF AuditTypeInv, Locked
  <2> QED
    BY <2>1, <2>2 DEF Moves
<1>3. ASSUME NEW t \in Threads, Rename(t) PROVE Moves
  <2>1. /\ \A u \in Threads \ {t} : pc'[u] = pc[u]
        /\ entry' = entry /\ pc[t] = "rename" /\ pc'[t] = "begin"
    BY <1>3 DEF Rename, AuditTypeInv, TypeOK
  <2> QED
    BY <1>3, <2>1 DEF Moves
<1>4. ASSUME NEW t \in Threads, Begin(t) PROVE Moves
  <2>1. /\ \A u \in Threads \ {t} : pc'[u] = pc[u]
        /\ entry' = entry /\ pc[t] = "begin" /\ pc'[t] = "spawn"
    BY <1>4 DEF Begin, AuditTypeInv, TypeOK
  <2> QED
    BY <2>1 DEF Moves
<1>5. ASSUME NEW t \in Threads, Spawn(t) PROVE Moves
  <2>1. epoch - 1 \in Workers /\ pc[epoch - 1] = "idle" /\ pc[t] = "spawn"
    BY <1>5, HolderFacts DEF Spawn, AuditTypeInv, Numbered
  <2>2. /\ \A u \in Threads \ {t, epoch - 1} : pc'[u] = pc[u]
        /\ entry' = entry /\ pc'[epoch - 1] = "hash"
        /\ pc'[t] = IF entry[t] = NoEntry THEN "idle" ELSE "append"
    BY <1>5, <2>1 DEF Spawn, AuditTypeInv, TypeOK
  <2>3. t \in Workers => entry[t] # NoEntry
    BY <2>1 DEF AuditTypeInv, Locked
  <2> QED
    BY <1>5, <2>1, <2>2, <2>3 DEF Moves
<1>6. ASSUME NEW t \in Threads, Write(t) PROVE Moves
  <2>1. /\ \A u \in Threads \ {t} : pc'[u] = pc[u]
        /\ entry' = entry /\ pc[t] = "append" /\ pc'[t] = "idle"
    BY <1>6 DEF Write, AuditTypeInv, TypeOK
  <2> QED
    BY <1>6, <2>1 DEF Moves
<1>7. ASSUME NEW w \in Workers, Hash(w) PROVE Moves
  <2>1. /\ \A u \in Threads \ {w} : pc'[u] = pc[u] /\ entry'[u] = entry[u]
        /\ pc[w] = "hash"
        /\ \/ pc'[w] = "seal"
           \/ pc'[w] = "idle" /\ processing[stamp[w]] = NoFile
    BY <1>7 DEF Hash, AuditTypeInv, TypeOK, Shape
  <2> QED
    BY <1>7, <2>1 DEF Moves
<1>8. ASSUME NEW w \in Workers, Seal(w) PROVE Moves
  <2>1. /\ \A u \in Threads \ {w} : pc'[u] = pc[u]
        /\ entry' = entry /\ pc[w] = "seal"
        /\ \/ pc'[w] = "acquire" /\ processing[stamp[w]] # NoFile
           \/ pc'[w] = "idle" /\ processing[stamp[w]] = NoFile
    BY <1>8, SealFacts
  <2> QED
    BY <1>8, <2>1 DEF Moves
<1>9. ASSUME NEW t \in Threads, Raise(t) PROVE Moves
  <2>1. /\ pc[t] # "idle" /\ pc'[t] = "idle" /\ \A u \in Threads \ {t} : pc'[u] = pc[u]
        /\ entry' = entry
    BY <1>9, RaiseFacts DEF Raise
  <2> QED
    BY <1>9, <2>1 DEF Moves
<1>10. CASE Crash
  <2>1. \A u \in Threads : pc'[u] = "idle"
    BY <1>10 DEF Crash
  <2> QED
    BY <1>10, <2>1 DEF Moves
<1>11. CASE UNCHANGED vars
  BY <1>11 DEF vars, threads, Moves
<1> QED
  BY <1>1, <1>2, <1>3, <1>4, <1>5, <1>6, <1>7, <1>8, <1>9, <1>10, <1>11 DEF Next, Work

\* Of two logs of one second neither is alone in it.
LEMMA Alone ==
    ASSUME AuditTypeInv, NEW e \in Workers \ Clashing, NEW f \in Workers,
           when[f] = when[e], when[f] # 0
    PROVE  f = e
BY DEF Clashing

\* A log that shares its second with no other stays where it is until its own
\* worker seals it, and stays sealed then.
LEMMA HeldStays ==
    ASSUME FileInv, [Next]_vars, NEW e \in Workers \ Clashing', Held(e), ~ Seal(e)
    PROVE  Held(e)'
<1> USE NameFacts, NextWhen DEF FileInv
<1>1. when[e] # 0 /\ when'[e] = when[e] /\ e < epoch /\ when[e] \in Seconds
  BY DEF Held, Filed, AuditTypeInv, TypeOK, Numbered
<1>2. ASSUME UNCHANGED processing PROVE Held(e)'
  BY <1>1, <1>2 DEF Held
<1>3. ASSUME NEW t \in Threads, Rename(t) PROVE Held(e)'
  <2>1. e # epoch /\ epoch \in Workers
    BY <1>1, HolderFacts
  <2>2. when[e] # second'
    BY <1>1, <1>3, <2>1, RenameFacts DEF Clashing
  <2> QED
    BY <1>1, <1>3, <2>2, RenameFacts DEF Held
<1>4. ASSUME NEW w \in Workers, Seal(w) PROVE Held(e)'
  <2>1. when[w] # 0 /\ stamp[w] = when[w]
    BY <1>4 DEF Seal, AuditTypeInv, Numbered
  <2>2. w # e
    BY <1>4
  <2>3. stamp[w] # when[e]
    BY <2>1, <2>2, Alone
  <2> QED
    BY <1>1, <1>4, <2>3, SealFacts DEF Held
<1> QED
  BY <1>2, <1>3, <1>4
     DEF Next, Work, CallLog, CallRotate, Acquire, Begin, Spawn, Write, Hash, Raise, Crash, vars, files

LEMMA SealedStays ==
    ASSUME FileInv, [Next]_vars, NEW e \in Workers \ Clashing', Sealed(e)
    PROVE  Sealed(e)'
BY NextFaded, WriteLogs DEF Faded

LEMMA NextOwned == FileInv /\ Owned /\ [Next]_vars => Owned'
<1> SUFFICES ASSUME FileInv, Owned, [Next]_vars PROVE Owned'
  OBVIOUS
<1> USE NameFacts, NextWhen, HolderFacts DEF FileInv
<1>1. Moves
  BY NextMoves
<1>2. ASSUME NEW t \in Threads, pc[t] \in {"begin", "spawn"}
      PROVE  /\ ~ \E u \in Threads : Rename(u)
             /\ epoch' = epoch /\ (epoch - 1 \in Clashing \/ Held(epoch - 1))'
  <2>1. ~ \E u \in Threads : Rename(u)
    BY <1>2 DEF Rename, Rotating
  <2>2. PICK e \in Workers : e = epoch - 1 /\ pc[e] = "idle"
    BY <1>2 DEF AuditTypeInv, Numbered
  <2>3. ~ Seal(e) /\ epoch' = epoch
    BY <2>1, <2>2 DEF Seal
  <2>4. e \in Clashing' \/ Held(e)'
    BY <1>2, <2>2, <2>3, HeldStays DEF Owned
  <2> QED
    BY <2>1, <2>2, <2>3, <2>4
<1>3. ASSUME NEW t \in Threads, pc'[t] \in {"begin", "spawn"}
      PROVE  (epoch - 1 \in Clashing \/ Held(epoch - 1))'
  <2>1. CASE pc[t] \in {"begin", "spawn"}
    BY <1>2, <2>1
  <2>2. CASE Rename(t)
    <3>1. epoch' - 1 = epoch
      BY <2>2, RenameFacts
    <3>2. processing'[when'[epoch]] = active /\ active # NoFile /\ active.epoch = epoch
      BY <2>2, RenameFacts, LogFacts
    <3> QED
      BY <3>1, <3>2 DEF Held
  <2> QED
    BY <1>1, <1>3, <2>1, <2>2 DEF Moves
<1>4. ASSUME NEW w \in Workers \ Clashing', pc'[w] \in {"hash", "seal"} PROVE Held(w)'
  <2>1. CASE pc[w] \in {"hash", "seal"}
    <3>1. ~ Seal(w)
      BY <1>4, SealFacts
    <3> QED
      BY <1>4, <2>1, <3>1, HeldStays DEF Owned
  <2>2. CASE w = epoch - 1 /\ \E t \in Threads : Spawn(t)
    BY <1>2, <1>4, <2>2 DEF Spawn
  <2> QED
    BY <1>1, <1>4, <2>1, <2>2 DEF Moves
<1>5. ASSUME NEW w \in Workers \ Clashing', pc'[w] \in Logging PROVE Sealed(w)'
  <2>1. CASE pc[w] \in Logging
    BY <1>5, <2>1, SealedStays DEF Owned
  <2>2. CASE Seal(w) /\ processing[stamp[w]] # NoFile
    <3>1. Held(w)
      BY <1>5, <2>2 DEF Owned, Seal
    <3> QED
      BY <2>2, <3>1, SealFacts DEF Held, Sealed
  <2> QED
    BY <1>1, <1>5, <2>1, <2>2 DEF Moves
<1>6. ASSUME NEW w \in Workers, pc'[w] \in Logging \cup {"seal"}
      PROVE  entry'[w].file = when'[w] /\ when'[entry'[w].hash] = when'[w]
  <2>1. CASE pc[w] \in Logging \cup {"seal"} /\ entry'[w] = entry[w]
    <3>1. when[w] # 0
      BY <2>1 DEF AuditTypeInv, Numbered, Logging, Rotating
    <3>2. entry[w].hash \in Workers
      BY <2>1 DEF AuditTypeInv, TypeOK, Locked, SealRecords
    <3> QED
      BY <2>1, <3>1, <3>2 DEF Owned
  <2>2. CASE Hash(w)
    <3>1. /\ pc[w] = "hash" /\ processing[stamp[w]] # NoFile /\ stamp[w] \in Seconds
          /\ entry'[w] = [file |-> stamp[w], hash |-> processing[stamp[w]].epoch]
      BY <1>6, <2>2 DEF Hash, AuditTypeInv, TypeOK, Shape, Logging, Rotating
    <3>2. when[w] # 0 /\ stamp[w] = when[w]
      BY <3>1 DEF AuditTypeInv, Numbered
    <3>3. /\ processing[stamp[w]].epoch \in Workers
          /\ when[processing[stamp[w]].epoch] = stamp[w]
      BY <3>1, LogFacts DEF Filed, AuditTypeInv, TypeOK, Workers
    <3> QED
      BY <3>1, <3>2, <3>3
  <2> QED
    BY <1>1, <1>6, <2>1, <2>2 DEF Moves
<1> QED
  BY <1>3, <1>4, <1>5, <1>6 DEF Owned

\* What a worker records of a log that shares its second with no other.
LEMMA RecordFacts ==
    ASSUME FileInv, Owned, NEW w \in Workers, pc[w] = "append", entry[w].hash \notin Clashing
    PROVE  entry[w] = Record(w) /\ entry[w].hash = w /\ Sealed(w) /\ w < epoch
<1> USE NameFacts DEF FileInv
<1>1. entry[w] \in SealRecords /\ entry[w].hash \in Workers
  BY DEF AuditTypeInv, TypeOK, Locked, SealRecords
<1>2. /\ entry[w].file = when[w] /\ when[entry[w].hash] = when[w]
      /\ w < epoch /\ when[w] # 0
  BY DEF Owned, AuditTypeInv, Numbered, Logging, Rotating
<1>3. entry[w].hash = w
  BY <1>1, <1>2, Alone
<1>4. entry[w] = Record(w)
  BY <1>1, <1>2, <1>3 DEF Record, SealRecords
<1> QED
  BY <1>2, <1>3, <1>4 DEF Owned, Logging, Rotating

LEMMA NextTold == FileInv /\ Owned /\ Told /\ [Next]_vars => Told'
<1> SUFFICES ASSUME FileInv, Owned, Told, [Next]_vars,
                    NEW new \in AllLogs', NEW r \in new.seals
             PROVE  /\ r.hash < epoch'
                    /\ r.hash \notin Clashing' =>
                          /\ r = Record(r.hash)' /\ Sealed(r.hash)' /\ pc'[r.hash] = "idle"
                          /\ \A t \in Threads : pc'[t] \in {"begin", "spawn"} => r.hash # epoch' - 1
  BY DEF Told
<1> USE NameFacts, NextWhen, HolderFacts DEF FileInv
<1>1. Moves
  BY NextMoves
<1>2. epoch' \in Nat /\ epoch <= epoch'
  BY RenameFacts
<1>3. r \in SealRecords /\ r.hash \in Workers
  BY LogsThere, LogFacts DEF SealRecords
<1>4. CASE \E log \in AllLogs : r \in log.seals
  <2>1. /\ r.hash < epoch
        /\ r.hash \notin Clashing =>
              /\ r = Record(r.hash) /\ Sealed(r.hash) /\ pc[r.hash] = "idle"
              /\ \A t \in Threads : pc[t] \in {"begin", "spawn"} => r.hash # epoch - 1
    BY <1>4 DEF Told
  <2>2. when'[r.hash] = when[r.hash]
    BY <1>3, <2>1 DEF AuditTypeInv, Numbered
  <2>3. ASSUME r.hash \notin Clashing' PROVE pc'[r.hash] = "idle"
    BY <1>1, <1>3, <2>1, <2>3 DEF Moves, Spawn
  <2>4. ASSUME r.hash \notin Clashing', NEW t \in Threads, pc'[t] \in {"begin", "spawn"}
        PROVE  r.hash # epoch' - 1
    <3>1. CASE pc[t] \in {"begin", "spawn"}
      <4>1. ~ \E u \in Threads : Rename(u)
        BY <3>1 DEF Rename, Rotating
      <4> QED
        BY <2>1, <2>4, <3>1, <4>1
    <3>2. CASE Rename(t)
      BY <1>3, <2>1, <3>2, RenameFacts
    <3> QED
      BY <1>1, <2>4, <3>1, <3>2 DEF Moves
  <2>5. ASSUME r.hash \notin Clashing' PROVE r = Record(r.hash)' /\ Sealed(r.hash)'
    BY <1>3, <2>1, <2>2, <2>5, SealedStays DEF Record
  <2> QED
    BY <1>2, <1>3, <2>1, <2>3, <2>4, <2>5
<1>5. CASE ~ \E log \in AllLogs : r \in log.seals
  <2>1. PICK t \in Threads : Write(t)
    BY <1>5, NextFaded DEF Faded
  <2>2. new = active'
    BY <1>5, <2>1, WriteLogs
  <2>3. t \in Workers /\ r = entry[t] /\ pc[t] = "append" /\ pc'[t] = "idle"
    BY <1>5, <2>1, <2>2, WriteFacts, WriteLogs
  <2>4. r.hash < epoch /\ epoch' = epoch /\ Clashing' = Clashing /\ when' = when
    <3>1. when[r.hash] = when[t] /\ when[t] # 0
      BY <2>3 DEF Owned, AuditTypeInv, Numbered, Logging, Rotating
    <3> QED
      BY <1>3, <2>1, <3>1, WriteLogs DEF AuditTypeInv, Numbered
  <2>5. ASSUME r.hash \notin Clashing'
        PROVE  r = Record(r.hash)' /\ Sealed(r.hash)' /\ pc'[r.hash] = "idle"
    <3>1. r = Record(t) /\ r.hash = t /\ Sealed(t)
      BY <2>3, <2>4, <2>5, RecordFacts
    <3>2. Sealed(t)'
      BY <2>1, <3>1, WriteLogs
    <3> QED
      BY <2>3, <2>4, <3>1, <3>2 DEF Record
  <2>6. \A u \in Threads : pc'[u] \notin {"begin", "spawn"}
    BY <2>1, <2>3, WriteLogs DEF Rotating
  <2> QED
    BY <2>4, <2>5, <2>6
<1> QED
  BY <1>4, <1>5

\* A link stays as long as the log it is in.
LEMMA LinkedStays ==
    ASSUME FileInv, [Next]_vars, NEW e \in Workers \ Clashing', Linked(e), ~ Write(e)
    PROVE  Linked(e)'
<1> USE NameFacts, NextWhen, HolderFacts DEF FileInv
<1>1. linked'[e] = linked[e]
  <2>1. ASSUME NEW t \in Threads, Write(t) PROVE linked'[e] = linked[e]
    BY <2>1, WriteFacts DEF AuditTypeInv, TypeOK
  <2> QED
    BY <2>1 DEF Next, Work, CallLog, CallRotate, Acquire, Rename, Begin, Spawn, Hash, Seal, Raise, Crash,
                vars, history
<1>2. when[e] # 0 /\ when'[e] = when[e]
  BY DEF Linked, Sealed, Filed, AuditTypeInv, TypeOK, Numbered
<1>3. Sealed(e)'
  BY SealedStays DEF Linked
<1>4. ASSUME linked[e] \notin Clashing'
      PROVE  \E new \in AllLogs' : new.epoch = linked[e] /\ Record(e) \in new.seals
  <2>1. PICK log \in AllLogs : log.epoch = linked[e] /\ Record(e) \in log.seals
    BY <1>4 DEF Linked
  <2>2. ASSUME ~ \E t \in Threads : Write(t) PROVE log \in AllLogs'
    BY <1>4, <2>1, <2>2, NextFaded DEF Faded
  <2>3. ASSUME NEW t \in Threads, Write(t), log \notin AllLogs'
        PROVE  active' \in AllLogs' /\ active'.epoch = log.epoch /\ log.seals \subseteq active'.seals
    BY <2>3, WriteLogs, WriteFacts
  <2> QED
    BY <2>1, <2>2, <2>3
<1> QED
  BY <1>1, <1>2, <1>3, <1>4 DEF Linked, Record

LEMMA NextOnItsWay == FileInv /\ Owned /\ OnItsWay /\ [Next]_vars => OnItsWay'
<1> SUFFICES ASSUME FileInv, Owned, OnItsWay, [Next]_vars, crashes' = 0,
                    NEW e \in 1..(epoch' - 1), e \notin Clashing' \cup failed'
             PROVE  Underway(e)'
  BY DEF OnItsWay
<1> USE NameFacts, NextWhen, HolderFacts DEF FileInv
<1>1. Moves
  BY NextMoves
<1>2. crashes = 0 /\ ~Crash /\ failed \subseteq failed'
  <2>1. \/ Crash /\ crashes' = crashes + 1
        \/ crashes' = crashes /\ failed \subseteq failed'
    BY RaiseFacts DEF Next, Work, CallLog, CallRotate, Acquire, Rename, Begin, Spawn, Write, Hash, Seal,
                      Raise, Crash, vars, counts, history
  <2>2. Crash => crashes' = crashes + 1
    BY DEF Crash
  <2>3. crashes \in Nat
    BY DEF AuditTypeInv, Shape
  <2> QED
    BY <2>1, <2>2, <2>3
<1>3. CASE \E t \in Threads : Rename(t) /\ e = epoch
  BY <1>3, RenameFacts DEF Underway
<1>4. CASE ~ \E t \in Threads : Rename(t) /\ e = epoch
  <2>1. e \in 1..(epoch - 1) /\ e \in Workers
    BY <1>4, RenameFacts DEF Workers
  <2>2. Underway(e)
    BY <1>2, <2>1 DEF OnItsWay
  <2>3. ASSUME NEW t \in Threads, pc[t] \in {"begin", "spawn"}, e = epoch - 1 PROVE Underway(e)'
    <3>1. epoch' = epoch
      BY <2>3 DEF Rename, Rotating
    <3>2. CASE pc'[t] \in {"begin", "spawn"}
      BY <2>3, <3>1, <3>2 DEF Underway
    <3>3. CASE Spawn(t)
      <4>1. pc'[e] = "hash"
        BY <2>1, <2>3, <3>3 DEF Spawn, AuditTypeInv, TypeOK, Numbered
      <4> QED
        BY <4>1 DEF Underway
    <3>4. ~ Raise(t)
      BY <2>3, RaiseFacts
    <3> QED
      BY <1>1, <1>2, <2>3, <3>2, <3>3, <3>4 DEF Moves
  <2>4. ASSUME pc[e] # "idle", pc'[e] = "idle" PROVE Underway(e)'
    <3>1. ~ Raise(e)
      BY <2>1, RaiseFacts
    <3>2. ~ (pc[e] \in {"hash", "seal"} /\ processing[stamp[e]] = NoFile)
      BY <2>1 DEF Owned, Held, AuditTypeInv, Numbered
    <3>3. Write(e)
      BY <1>1, <1>2, <2>1, <2>4, <3>1, <3>2 DEF Moves
    <3>4. pc[e] = "append" /\ e \notin Clashing /\ epoch \in Workers
      BY <3>3 DEF Write
    <3>5. entry[e] = Record(e) /\ Sealed(e)
      <4>1. /\ when[entry[e].hash] = when[e] /\ when[e] # 0
            /\ entry[e] \in SealRecords /\ entry[e].hash \in Workers
        BY <2>1, <3>4 DEF Owned, AuditTypeInv, TypeOK, Locked, Numbered, Logging, Rotating, SealRecords
      <4>2. entry[e].hash = e
        BY <2>1, <3>4, <4>1, Alone
      <4> QED
        BY <2>1, <3>4, <4>2, RecordFacts
    <3>6. /\ linked'[e] = epoch /\ epoch # 0
          /\ active' \in AllLogs' /\ active'.epoch = epoch /\ entry[e] \in active'.seals
          /\ when' = when /\ Sealed(e)'
      BY <2>1, <3>3, <3>5, WriteFacts, WriteLogs DEF AuditTypeInv, TypeOK
    <3> QED
      BY <3>5, <3>6 DEF Underway, Linked, Record
  <2>5. ASSUME Linked(e), pc[e] = "idle" PROVE Underway(e)'
    <3>1. ~ Write(e)
      BY <2>5 DEF Write
    <3> QED
      BY <2>1, <2>5, <3>1, LinkedStays DEF Underway
  <2>6. pc'[e] # "idle" => Underway(e)'
    BY DEF Underway
  <2> QED
    BY <2>2, <2>3, <2>4, <2>5, <2>6 DEF Underway
<1> QED
  BY <1>3, <1>4
-----------------------------------------------------------------------------
LEMMA InitIndInv == Init => AuditInv
<1> SUFFICES ASSUME Init PROVE AuditInv
  OBVIOUS
<1>1. AuditTypeInv
  BY InitTypeInv
<1>2. AllLogs = {NewLog(1)} /\ NewLog(1).entries = {} /\ NewLog(1).seals = {}
  BY LogFacts, NameFacts DEF Init, AllLogs
<1>3. Filed /\ Kept
  BY <1>2, NameFacts DEF Init, Filed, Kept
<1>4. Owned /\ Told /\ OnItsWay
  BY <1>2, NameFacts DEF Init, Owned, Told, OnItsWay, Logging, Rotating
<1> QED
  BY <1>1, <1>3, <1>4 DEF FileInv, AuditInv

\* Every variable keeps its type, whatever raises and whenever the process is
\* killed: the record of a log that is hashed is one, and the number of the log
\* in use does not exceed that of the logs there may be.
THEOREM AuditTypeCorrect == Spec => []TypeOK
<1>1. Init => AuditTypeInv
  BY InitTypeInv
<1>2. AuditTypeInv /\ [Next]_vars => AuditTypeInv'
  BY NextTypeInv
<1>3. AuditTypeInv => TypeOK
  BY DEF AuditTypeInv
<1> QED
  BY <1>1, <1>2, <1>3, PTL DEF Spec

\* AuditInv holds throughout, in whatever seconds the logs are renamed.
THEOREM AuditInductive == Spec => []AuditInv
<1>1. Init => AuditInv
  BY InitIndInv
<1>2. AuditInv /\ [Next]_vars => AuditInv'
  BY NextTypeInv, NextFiled, NextKept, NextOwned, NextTold, NextOnItsWay DEF AuditInv, FileInv
<1> QED
  BY <1>1, <1>2, PTL DEF Spec

\* An entry whose log call returned is in one file through any number of
\* rotations, seals, crashes and accesses that raise, and is lost only with a
\* log that shares its second with another one.
THEOREM Persistence == Spec => []EntriesPersist
<1>1. AuditInv => EntriesPersist
  <2> SUFFICES ASSUME AuditInv, NEW x \in Entries, acked[x] # 0
               PROVE  LET holders == {log \in AllLogs : x \in log.entries} IN
                      /\ Cardinality(holders) <= 1
                      /\ acked[x] \notin Clashing => Cardinality(holders) = 1
    BY DEF EntriesPersist
  <2> DEFINE holders == {log \in AllLogs : x \in log.entries}
  <2>1. CASE holders = {}
    <3>1. Cardinality(holders) = 0
      BY <2>1, FS_EmptySet
    <3>2. acked[x] \in Clashing
      BY <2>1 DEF AuditInv, Kept
    <3> QED
      BY <3>1, <3>2
  <2>2. CASE holders # {}
    <3>1. PICK log \in AllLogs : x \in log.entries
      BY <2>2
    <3>2. \A new \in AllLogs : x \in new.entries => new = log
      BY <3>1 DEF AuditInv, Kept
    <3>3. holders = {log}
      BY <3>1, <3>2, Zenon
    <3>4. Cardinality(holders) = 1
      BY <3>3, FS_Singleton
    <3> QED
      BY <3>4
  <2> QED
    BY <2>1, <2>2
<1> QED
  BY <1>1, AuditInductive, PTL

\* What an EPOCH_SEALED entry says of a file is true of it ever after, unless
\* the log it is about shares its second with another one.
THEOREM Truthful == Spec => []SealRecordsTruthful
<1>1. AuditInv => SealRecordsTruthful
  <2> SUFFICES ASSUME AuditInv, NEW log \in AllLogs, NEW r \in log.seals, r.hash \notin Clashing
               PROVE  sealed[r.file] # NoFile /\ sealed[r.file].epoch = r.hash
    BY DEF SealRecordsTruthful
  <2>1. r = Record(r.hash) /\ Sealed(r.hash)
    BY DEF AuditInv, Told
  <2>2. r.file = when[r.hash]
    BY <2>1 DEF Record
  <2> QED
    BY <2>1, <2>2 DEF Sealed
<1> QED
  BY <1>1, AuditInductive, PTL

\* Without a crash the chain of hashes has no gap when all threads have ended,
\* for any number of rotations at once, but for the logs whose worker raised or
\* was not started, and those that share their second with another one.
THEOREM Chaining == Spec => []ChainComplete
<1>1. AuditInv => ChainComplete
  <2> SUFFICES ASSUME AuditInv, crashes = 0, Quiet, NEW e \in (1..(epoch - 1)) \ (Clashing \cup failed)
               PROVE  Chained(e)
    BY DEF ChainComplete
  <2>1. Underway(e)
    BY DEF AuditInv, OnItsWay
  <2>2. e \in Threads
    BY HolderFacts, NameFacts DEF AuditInv, FileInv, Workers
  <2>3. Linked(e)
    BY <2>1, <2>2 DEF Underway, Quiet
  <2> QED
    BY <2>3 DEF Linked, Sealed, Record, Chained
<1> QED
  BY <1>1, AuditInductive, PTL
-----------------------------------------------------------------------------
\* The chain of logs that the files of a state stand for.
Contents == [e \in 1..MaxEpochs |-> Content(e)]

Hashes(log) == {r.hash : r \in log.seals}
None == [entries |-> {}, hashes |-> {}]

LEMMA ContentFacts ==
    ASSUME NEW e
    PROVE  /\ \A x : x \in Content(e).entries <=>
                        \E log \in AllLogs : log.epoch = e /\ x \in log.entries
           /\ \A h : h \in Content(e).hashes <=>
                        \E log \in AllLogs : log.epoch = e /\ \E r \in log.seals : h = r.hash
BY DEF Content

\* The files say the same, whatever was renamed or begun.
LEMMA ContentStays ==
    ASSUME \/ AllLogs' = AllLogs
           \/ \E log : AllLogs' = AllLogs \cup {log} /\ log.entries = {} /\ log.seals = {}
    PROVE  Contents' = Contents
<1>1. ASSUME NEW e
      PROVE  /\ UNION {log.entries : log \in {l \in AllLogs' : l.epoch = e}}
                  = UNION {log.entries : log \in {l \in AllLogs : l.epoch = e}}
             /\ UNION {log.seals : log \in {l \in AllLogs' : l.epoch = e}}
                  = UNION {log.seals : log \in {l \in AllLogs : l.epoch = e}}
  OBVIOUS
<1>2. \A e : Content(e)' = Content(e)
  BY <1>1 DEF Content
<1> QED
  BY <1>2 DEF Contents

\* A log that is replaced is all there was of its epoch.
LEMMA ContentLoss ==
    ASSUME FileInv, NEW gone \in AllLogs, AllLogs' = AllLogs \ {gone}
    PROVE  Contents' = [Contents EXCEPT ![gone.epoch] = None]
<1>1. \A log \in AllLogs : log.epoch = gone.epoch => log = gone
  BY OneFile DEF FileInv
<1>2. ASSUME NEW f, f # gone.epoch PROVE Content(f)' = Content(f)
  <2>1. {l \in AllLogs' : l.epoch = f} = {l \in AllLogs : l.epoch = f}
    BY <1>2
  <2> QED
    BY <2>1 DEF Content
<1>3. ASSUME NEW f, f = gone.epoch PROVE Content(f)' = None
  <2>1. {l \in AllLogs' : l.epoch = f} = {}
    BY <1>1, <1>3
  <2>2. /\ UNION {l.entries : l \in {}} = {} /\ UNION {l.seals : l \in {}} = {}
        /\ {r.hash : r \in {}} = {}
    OBVIOUS
  <2> QED
    BY <2>1, <2>2 DEF Content, None
<1> QED
  BY <1>2, <1>3 DEF Contents

\* A written line is in the log in use and in no other.
LEMMA ContentWrite ==
    ASSUME FileInv, NEW t \in Threads, Write(t)
    PROVE  /\ t \in Loggers =>
                Contents' = [Contents EXCEPT ![epoch].entries = @ \cup {entry[t]}]
           /\ t \in Workers =>
                Contents' = [Contents EXCEPT ![epoch].hashes = @ \cup {entry[t].hash}]
<1>1. PICK e \in 1..MaxEpochs : e = epoch
  BY HolderFacts DEF FileInv
<1>2. \A f : f # e => Content(f)' = Content(f)
  <2>1. \A f : f # e => {l \in AllLogs' : l.epoch = f} = {l \in AllLogs : l.epoch = f}
    BY <1>1, WriteLogs
  <2> QED
    BY <2>1 DEF Content
<1>3. /\ Content(e) = [entries |-> Opened.entries, hashes |-> Hashes(Opened)]
      /\ Content(e)' = [entries |-> active'.entries, hashes |-> Hashes(active')]
  <2>1. {l \in AllLogs' : l.epoch = e} = {active'}
    BY <1>1, WriteLogs
  <2>2. \/ {l \in AllLogs : l.epoch = e} = {Opened}
        \/ {l \in AllLogs : l.epoch = e} = {} /\ Opened.entries = {} /\ Opened.seals = {}
    BY <1>1, WriteLogs, WriteFacts DEF FileInv
  <2>3. /\ \A log : /\ UNION {l.entries : l \in {log}} = log.entries
                    /\ UNION {l.seals : l \in {log}} = log.seals
        /\ UNION {l.entries : l \in {}} = {} /\ UNION {l.seals : l \in {}} = {}
    OBVIOUS
  <2>4. Content(e)' = [entries |-> active'.entries, hashes |-> Hashes(active')]
    BY <2>1, <2>3 DEF Content, Hashes
  <2>5. Content(e) = [entries |-> Opened.entries, hashes |-> Hashes(Opened)]
    BY <2>2, <2>3 DEF Content, Hashes
  <2> QED
    BY <2>4, <2>5
<1>4. Contents' = [Contents EXCEPT ![e] = Content(e)'] /\ Contents[e] = Content(e)
  BY <1>2 DEF Contents
<1>5. ASSUME t \in Loggers
      PROVE  Contents' = [Contents EXCEPT ![epoch].entries = @ \cup {entry[t]}]
  <2>1. active'.entries = Opened.entries \cup {entry[t]} /\ Hashes(active') = Hashes(Opened)
    BY <1>5, WriteFacts DEF Hashes, FileInv
  <2>2. Content(e)' = [Content(e) EXCEPT !.entries = @ \cup {entry[t]}]
    <3>1. Content(e)' = [entries |-> Opened.entries \cup {entry[t]}, hashes |-> Hashes(Opened)]
      BY <1>3, <2>1
    <3> QED
      BY <1>3, <3>1
  <2> QED
    BY <1>1, <1>4, <2>2
<1>6. ASSUME t \in Workers
      PROVE  Contents' = [Contents EXCEPT ![epoch].hashes = @ \cup {entry[t].hash}]
  <2>1. active'.entries = Opened.entries /\ active'.seals = Opened.seals \cup {entry[t]}
    BY <1>6, WriteFacts DEF FileInv
  <2>2. Hashes(active') = Hashes(Opened) \cup {entry[t].hash}
    BY <2>1 DEF Hashes
  <2>3. Content(e)' = [Content(e) EXCEPT !.hashes = @ \cup {entry[t].hash}]
    BY <1>3, <2>1, <2>2
  <2> QED
    BY <1>1, <1>4, <2>3
<1> QED
  BY <1>5, <1>6

LEMMA ChronicleInit == Init => Chronicle!Init
<1> SUFFICES ASSUME Init PROVE Chronicle!Init
  OBVIOUS
<1>1. AllLogs = {NewLog(1)} /\ NewLog(1).entries = {} /\ NewLog(1).seals = {}
  BY LogFacts, NameFacts DEF Init, AllLogs
<1>2. \A e : Content(e) = [entries |-> {}, hashes |-> {}]
  BY <1>1 DEF Content
<1> QED
  BY <1>2 DEF Init, Workers, Chronicle!Init, Chronicle!Empty

LEMMA RenameChronicle ==
    ASSUME FileInv, NEW t \in Threads, Rename(t)
    PROVE  Chronicle!Next
<1> USE NameFacts DEF FileInv
<1>1. PICK now \in 1..MaxEpochs : now = second' /\ now \in Seconds /\ now # 0
  BY RenameFacts DEF Seconds
<1>2. /\ epoch + 1 \in 1..MaxEpochs /\ epoch' = epoch + 1
      /\ when' = [when EXCEPT ![epoch] = now]
  BY <1>1, HolderFacts DEF Rename
<1>3. /\ active' = NoFile /\ sealed' = sealed /\ processing'[now] = active /\ active # NoFile
      /\ active.epoch = epoch /\ \A s \in Seconds \ {now} : processing'[s] = processing[s]
  BY <1>1, RenameFacts, LogFacts
<1>4. \A log : log \in AllLogs' <=>
          log # NoFile /\ \/ log = active
                          \/ \E s \in Seconds : log = sealed[s] \/ (s # now /\ log = processing[s])
  <2>1. \A log : log \in AllLogs' <=>
            log # NoFile /\ \E s \in Seconds : log = processing'[s] \/ log = sealed[s]
    BY <1>3 DEF AllLogs
  <2> QED
    BY <1>1, <1>3, <2>1
<1>5. CASE processing[now] = NoFile
  <2>1. \A log : log \in AllLogs' <=> log \in AllLogs
    BY <1>4, <1>5, LogsHere
  <2>2. Contents' = Contents
    BY <2>1, ContentStays
  <2>3. Chronicle!End(now)
    BY <1>1, <1>2, <2>2 DEF Chronicle!End, Contents
  <2> QED
    BY <2>3 DEF Chronicle!Next
<1>6. CASE processing[now] # NoFile
  <2>1. PICK gone \in AllLogs : gone = processing[now]
    BY <1>1, <1>6, LogsHere
  <2>2. when[gone.epoch] = now /\ gone.epoch < epoch /\ gone.epoch \in 1..MaxEpochs
    BY <1>1, <1>6, <2>1, OneFile DEF Filed, Workers
  <2>3. gone \notin AllLogs'
    <3>1. gone # active
      BY <1>3, <2>2, HolderFacts
    <3>2. \A s \in Seconds : gone # sealed[s] /\ (s # now => gone # processing[s])
      BY <1>6, <2>1, <2>2, LogsHere DEF Filed
    <3> QED
      BY <1>4, <3>1, <3>2
  <2>4. \A log : log \in AllLogs' <=> log \in AllLogs /\ log # gone
    BY <1>4, <2>1, <2>3, LogsHere
  <2>5. AllLogs' = AllLogs \ {gone}
    BY <2>4
  <2>6. Contents' = [Contents EXCEPT ![gone.epoch] = None]
    BY <2>5, ContentLoss
  <2>7. Chronicle!End(now)
    BY <1>1, <1>2, <2>2, <2>6 DEF Chronicle!End, Chronicle!Empty, Contents, None
  <2> QED
    BY <2>7 DEF Chronicle!Next
<1> QED
  BY <1>5, <1>6

LEMMA SealChronicle ==
    ASSUME FileInv, NEW w \in Workers, Seal(w)
    PROVE  Chronicle!Next \/ UNCHANGED <<Contents, epoch, when>>
<1> USE NameFacts DEF FileInv
<1>1. active' = active /\ UNCHANGED <<epoch, when>> /\ stamp[w] \in Seconds
  BY SealFacts
<1>2. CASE UNCHANGED <<processing, sealed>>
  <2>1. AllLogs' = AllLogs
    BY <1>1, <1>2 DEF AllLogs
  <2> QED
    BY <1>1, <2>1, ContentStays
<1>3. CASE ~ UNCHANGED <<processing, sealed>>
  <2>1. /\ processing[stamp[w]] # NoFile
        /\ processing'[stamp[w]] = NoFile /\ sealed'[stamp[w]] = processing[stamp[w]]
        /\ \A s \in Seconds \ {stamp[w]} : processing'[s] = processing[s] /\ sealed'[s] = sealed[s]
    BY <1>3, SealFacts
  <2>2. \A log : log \in AllLogs' <=>
            log # NoFile /\ \/ log = active
                            \/ \E s \in Seconds : log = processing[s] \/ (s # stamp[w] /\ log = sealed[s])
    BY <1>1, <2>1 DEF AllLogs
  <2>3. CASE sealed[stamp[w]] = NoFile
    <3>1. AllLogs' = AllLogs
      BY <2>2, <2>3, LogsHere
    <3> QED
      BY <1>1, <3>1, ContentStays
  <2>4. CASE sealed[stamp[w]] # NoFile
    <3>1. PICK gone \in AllLogs : gone = sealed[stamp[w]]
      BY <1>1, <2>4, LogsHere
    <3>2. /\ when[gone.epoch] = stamp[w] /\ gone.epoch < epoch /\ gone.epoch \in 1..MaxEpochs
          /\ when[gone.epoch] # 0
      BY <1>1, <2>4, <3>1, OneFile DEF Filed, Workers, AuditTypeInv, Numbered
    <3>3. PICK other \in 1..MaxEpochs : other # gone.epoch /\ when[other] = stamp[w]
      <4>1. processing[stamp[w]] \in AllLogs
        BY <1>1, <2>1, LogsHere
      <4> QED
        BY <1>1, <2>1, <2>4, <3>1, <4>1, OneFile DEF Filed, Workers
    <3>4. gone \notin AllLogs'
      <4>1. gone # active
        BY <3>2, LogsHere, HolderFacts
      <4>2. \A s \in Seconds : gone # processing[s] /\ (s # stamp[w] => gone # sealed[s])
        BY <1>1, <2>4, <3>1, <3>2, LogsHere DEF Filed
      <4> QED
        BY <2>2, <4>1, <4>2
    <3>5. AllLogs' = AllLogs \ {gone}
      BY <2>2, <3>1, <3>4, LogsHere
    <3>6. Contents' = [Contents EXCEPT ![gone.epoch] = None]
      BY <3>5, ContentLoss
    <3>7. Chronicle!Lose(gone.epoch)
      BY <1>1, <3>2, <3>3, <3>6 DEF Chronicle!Lose, Chronicle!Shared, Chronicle!Empty, Contents, None
    <3> QED
      BY <3>2, <3>7 DEF Chronicle!Next
  <2> QED
    BY <2>3, <2>4
<1> QED
  BY <1>2, <1>3

LEMMA WriteChronicle ==
    ASSUME AuditInv, NEW t \in Threads, Write(t)
    PROVE  Chronicle!Next
<1> USE NameFacts DEF AuditInv, FileInv
<1>1. epoch' = epoch /\ when' = when /\ pc[t] = "append" /\ entry[t] # NoEntry
  BY WriteLogs DEF AuditTypeInv, Locked
<1>2. CASE t \in Loggers
  <2>1. entry[t] \in Entries /\ \A log \in AllLogs : entry[t] \notin log.entries
    BY <1>1, <1>2 DEF AuditTypeInv, TypeOK, Kept
  <2>2. \A e \in 1..MaxEpochs : entry[t] \notin Contents[e].entries
    BY <2>1, ContentFacts DEF Contents
  <2>3. Contents' = [Contents EXCEPT ![epoch].entries = @ \cup {entry[t]}]
    BY <1>2, ContentWrite
  <2>4. Chronicle!Note(entry[t])
    BY <1>1, <2>2, <2>3 DEF Chronicle!Note, Contents
  <2> QED
    BY <2>1, <2>4 DEF Chronicle!Next
<1>3. CASE t \in Workers
  <2>1. PICK h \in Workers : h = entry[t].hash
    BY <1>1, <1>3 DEF AuditTypeInv, TypeOK, SealRecords
  <2>2. when[h] # 0 /\ h < epoch /\ h \in 1..MaxEpochs
    <3>1. when[h] = when[t] /\ when[t] # 0
      BY <1>1, <1>3, <2>1 DEF Owned, AuditTypeInv, Numbered, Logging, Rotating
    <3> QED
      BY <2>1, <3>1 DEF AuditTypeInv, Numbered, Workers
  <2>3. Contents' = [Contents EXCEPT ![epoch].hashes = @ \cup {h}]
    BY <1>3, <2>1, ContentWrite
  <2>4. CASE h \in Clashing
    <3>1. Chronicle!Shared(h)
      BY <2>4 DEF Clashing, Chronicle!Shared, Workers
    <3>2. Chronicle!Record(h)
      BY <1>1, <2>2, <2>3, <3>1 DEF Chronicle!Record, Contents
    <3> QED
      BY <2>2, <3>2 DEF Chronicle!Next
  <2>5. CASE h \notin Clashing
    <3>1. h = t
      BY <1>1, <1>3, <2>1, <2>5, RecordFacts
    <3>2. \A log \in AllLogs : \A r \in log.seals : r.hash # h
      BY <1>1, <2>5, <3>1 DEF Told
    <3>3. \A e \in 1..MaxEpochs : h \notin Contents[e].hashes
      BY <3>2, ContentFacts DEF Contents
    <3>4. Chronicle!Record(h)
      BY <1>1, <2>2, <2>3, <3>3 DEF Chronicle!Record, Contents
    <3> QED
      BY <2>2, <3>4 DEF Chronicle!Next
  <2> QED
    BY <2>4, <2>5
<1> QED
  BY <1>2, <1>3

\* Every step of the audit log is a step of EpochLog or leaves its state alone.
LEMMA ChronicleStep ==
    AuditInv /\ [Next]_vars => [Chronicle!Next]_(Chronicle!vars)
<1> SUFFICES ASSUME AuditInv, [Next]_vars
             PROVE  Chronicle!Next \/ UNCHANGED <<Contents, epoch, when>>
  BY DEF Chronicle!vars, Contents
<1> USE NameFacts DEF AuditInv, FileInv
<1>1. ASSUME NEW t \in Threads, Write(t) \/ Rename(t) PROVE Chronicle!Next
  BY <1>1, WriteChronicle, RenameChronicle
<1>2. ASSUME NEW w \in Workers, Seal(w) PROVE Chronicle!Next \/ UNCHANGED <<Contents, epoch, when>>
  BY <1>2, SealChronicle
<1>3. ASSUME UNCHANGED <<processing, sealed, epoch, when>>,
             active' = active \/ (active = NoFile /\ active' \in {NewLog(epoch), Headless(epoch)})
      PROVE  UNCHANGED <<Contents, epoch, when>>
  <2>1. CASE active' = active
    <3>1. AllLogs' = AllLogs
      BY <1>3, <2>1 DEF AllLogs
    <3> QED
      BY <1>3, <3>1, ContentStays
  <2>2. CASE active = NoFile /\ active' \in {NewLog(epoch), Headless(epoch)}
    <3>1. active' # NoFile /\ active'.entries = {} /\ active'.seals = {}
      BY <2>2, HolderFacts, LogFacts
    <3>2. AllLogs' = AllLogs \cup {active'}
      BY <1>3, <2>2, <3>1, LogsHere, LogsThere
    <3> QED
      BY <1>3, <3>1, <3>2, ContentStays
  <2> QED
    BY <1>3, <2>1, <2>2
<1>4. ASSUME NEW t \in Threads, Begin(t) PROVE UNCHANGED <<Contents, epoch, when>>
  <2>1. active = NoFile /\ active' = NewLog(epoch) /\ UNCHANGED <<processing, sealed, epoch, when>>
    BY <1>4 DEF Begin, AuditTypeInv, Locked, history
  <2> QED
    BY <1>3, <2>1
<1>5. ASSUME NEW t \in Threads, Raise(t) PROVE UNCHANGED <<Contents, epoch, when>>
  BY <1>3, <1>5, RaiseFacts DEF Raise
<1>6. CASE Crash
  BY <1>3, <1>6 DEF Crash, history
<1> QED
  BY <1>1, <1>2, <1>3, <1>4, <1>5, <1>6
     DEF Next, Work, CallLog, CallRotate, Acquire, Spawn, Hash, vars, files, history

\* Through rotations in whatever seconds, seals, crashes and accesses that raise,
\* the files are a chain of logs as EpochLog has it.
THEOREM AuditRefinement == Spec => ImplementsEpochLog
<1>1. Init => Chronicle!Init
  BY ChronicleInit
<1>2. AuditInv /\ [Next]_vars => [Chronicle!Next]_(Chronicle!vars)
  BY ChronicleStep
<1> QED
  BY <1>1, <1>2, AuditInductive, PTL DEF Spec, ImplementsEpochLog, Chronicle!Spec
-----------------------------------------------------------------------------
\* Defence

Done(k) == {Checks[i] : i \in 1..k}

AlertOf(m, t) == [threat |-> t, max |-> Limit(m.limit, t), action |-> m.action[t]]

VerdictOf(m, k) == {AlertOf(m, t) : t \in {u \in Done(k) : Breaches(metrics[u], u, Limit(m.limit, u))}}

\* The manifests in hand were read, and the breached limit was one of theirs.
ReadBefore ==
    /\ loaded \in seen /\ rules \in seen
    /\ \A max \in limit :
        /\ \E m \in seen : max = Limit(m.limit, Checks[check])
        /\ Breaches(metrics[Checks[check]], Checks[check], max)

\* Outside a reload, one manifest is in force.
Settled ==
    /\ reload = "idle" => baselines = rules.limit /\ threats = rules.action
    /\ reload = "threats" => baselines = loaded.limit

\* What an evaluation has come to that no reload crosses.
Uncrossed ==
    check # 0 /\ ~crossed =>
        /\ reload = "idle"
        /\ alerts = VerdictOf(rules, check - 1)
        /\ \A max \in limit : max = Limit(rules.limit, Checks[check])

DefenceInv ==
    /\ DefenceTypeOK /\ ReadBefore /\ Settled /\ Uncrossed
    /\ AlertsAreFounded /\ NotFrozenForAuth

-----------------------------------------------------------------------------
LEMMA ChecksFacts ==
    /\ Len(Checks) = 3
    /\ \A i \in 1..3 : Checks[i] \in Threats
    /\ Done(3) = Threats
<1>1. Len(Checks) = 3 /\ Checks[1] = "MASS_DOWNLOAD" /\ Checks[2] = "SCHEMA_VIOLATION"
      /\ Checks[3] = "BRUTE_FORCE_OR_STOLEN_CERT"
  BY DEF Checks
<1>2. \A i \in 1..3 : i = 1 \/ i = 2 \/ i = 3
  OBVIOUS
<1>3. \A i \in 1..3 : Checks[i] \in Threats
  BY <1>1, <1>2 DEF Threats
<1>4. Done(3) = {Checks[1], Checks[2], Checks[3]}
  BY <1>2 DEF Done
<1> QED
  BY <1>1, <1>3, <1>4 DEF Threats

LEMMA ManifestFacts ==
    ASSUME NEW m \in Manifests, NEW t \in Threats
    PROVE Limit(m.limit, t) \in Int /\ m.action[t] \in STRING
<1>1. m \in [limit : [Threats -> Nat \union {Unset}], action : [Threats -> STRING]]
  BY DefenceAssumption DEF DefenceAssumption
<1>2. m.limit[t] \in Int /\ m.action[t] \in STRING
  BY <1>1 DEF Unset
<1>3. Default(t) \in Int
  BY DEF Default, Unset, Threats
<1> QED
  BY <1>2, <1>3 DEF Limit

LEMMA InitHolds == DefenceInit => DefenceInv
<1> SUFFICES ASSUME DefenceInit PROVE DefenceInv
  OBVIOUS
<1>1. metrics \in [Threats -> Nat]
  BY DEF DefenceInit
<1>2. PICK m \in Manifests :
        /\ file = {m} /\ rules = m /\ loaded = m /\ seen = {m}
        /\ baselines = m.limit /\ threats = m.action
  BY DEF DefenceInit
<1>3. /\ alerts = {} /\ handing = {} /\ limit = {} /\ check = 0 /\ reload = "idle"
      /\ reloads = 0 /\ evaluations = 0 /\ freezing = FALSE /\ banned = FALSE /\ crossed = FALSE
  BY DEF DefenceInit
<1>4. check \in 0..(Len(Checks) + 1)
  BY <1>3, ChecksFacts
<1>5. DefenceTypeOK
  BY <1>1, <1>2, <1>3, <1>4 DEF DefenceTypeOK
<1>6. ReadBefore /\ Settled /\ Uncrossed
  BY DEF DefenceInit, ReadBefore, Settled, Uncrossed
<1>7. AlertsAreFounded /\ NotFrozenForAuth
  BY DEF DefenceInit, AlertsAreFounded, NotFrozenForAuth
<1> QED
  BY <1>5, <1>6, <1>7 DEF DefenceInv

-----------------------------------------------------------------------------
\* One lemma for each action.

LEMMA WriteStep ==
    ASSUME DefenceInv, NEW content \in {{}} \union {{m} : m \in Manifests}, EditManifest(content)
    PROVE DefenceInv'
<1> USE DEF DefenceInv, EditManifest, inForce, evaluating, defending
<1>1. DefenceTypeOK'
  BY DEF DefenceTypeOK
<1>2. ReadBefore' /\ Settled' /\ Uncrossed'
  BY DEF ReadBefore, Settled, Uncrossed, VerdictOf
<1>3. AlertsAreFounded' /\ NotFrozenForAuth'
  BY DEF AlertsAreFounded, NotFrozenForAuth
<1> QED
  BY <1>1, <1>2, <1>3

LEMMA ReloadStep ==
    ASSUME DefenceInv, Reload
    PROVE DefenceInv'
<1> USE DEF DefenceInv, Reload, inForce, evaluating, defending
<1>1. PICK m \in file : loaded' = m /\ seen' = seen \union {m}
  OBVIOUS
<1>2. m \in Manifests
  BY DEF DefenceTypeOK
<1>3. DefenceTypeOK'
  BY <1>1, <1>2 DEF DefenceTypeOK
<1>4. ReadBefore' /\ Settled' /\ Uncrossed'
  BY <1>1 DEF ReadBefore, Settled, Uncrossed
<1>5. AlertsAreFounded' /\ NotFrozenForAuth'
  BY <1>1 DEF AlertsAreFounded, NotFrozenForAuth
<1> QED
  BY <1>3, <1>4, <1>5

LEMMA ReloadRaisesStep ==
    ASSUME DefenceInv, ReloadRaises
    PROVE DefenceInv'
<1> USE DEF DefenceInv, ReloadRaises, inForce, evaluating, defending
<1>1. DefenceTypeOK'
  BY DEF DefenceTypeOK
<1>2. ReadBefore' /\ Settled' /\ Uncrossed'
  BY DEF ReadBefore, Settled, Uncrossed, VerdictOf
<1>3. AlertsAreFounded' /\ NotFrozenForAuth'
  BY DEF AlertsAreFounded, NotFrozenForAuth
<1> QED
  BY <1>1, <1>2, <1>3

LEMMA SetBaselinesStep ==
    ASSUME DefenceInv, SetBaselines
    PROVE DefenceInv'
<1> USE DEF DefenceInv, SetBaselines, evaluating, defending
<1>1. DefenceTypeOK'
  BY DEF DefenceTypeOK, ReadBefore
<1>2. ReadBefore' /\ Settled' /\ Uncrossed'
  BY DEF ReadBefore, Settled, Uncrossed
<1>3. AlertsAreFounded' /\ NotFrozenForAuth'
  BY DEF AlertsAreFounded, NotFrozenForAuth
<1> QED
  BY <1>1, <1>2, <1>3

LEMMA SetThreatsStep ==
    ASSUME DefenceInv, SetThreats
    PROVE DefenceInv'
<1> USE DEF DefenceInv, SetThreats, evaluating, defending
<1>1. DefenceTypeOK'
  BY DEF DefenceTypeOK, ReadBefore
<1>2. check = 0 \/ crossed
  BY DEF Uncrossed
<1>3. Uncrossed'
  BY <1>2 DEF Uncrossed
<1>4. ReadBefore' /\ Settled'
  BY DEF ReadBefore, Settled
<1>5. AlertsAreFounded' /\ NotFrozenForAuth'
  BY DEF AlertsAreFounded, NotFrozenForAuth
<1> QED
  BY <1>1, <1>3, <1>4, <1>5

LEMMA EvaluateStep ==
    ASSUME DefenceInv, NEW n \in Metrics, Evaluate(n)
    PROVE DefenceInv'
<1> USE DEF DefenceInv, Evaluate, inForce, loading
<1>1. n \in [Threats -> Nat]
  BY DefenceAssumption DEF DefenceAssumption
<1>2. limit = {}
  BY DEF DefenceTypeOK
<1>3. /\ UNCHANGED <<file, baselines, threats, reload, loaded, reloads, rules, seen>>
      /\ check' = 1 /\ metrics' = n /\ alerts' = {} /\ evaluations' = evaluations + 1
      /\ freezing' = FALSE /\ banned' = FALSE /\ handing' = {} /\ limit' = {}
  BY <1>2
<1>4. check' \in 0..(Len(Checks) + 1) /\ crossed' \in BOOLEAN
  BY <1>3, ChecksFacts
<1>5. DefenceTypeOK'
  <2> HIDE DEF Evaluate, inForce, loading
  <2>1. evaluations' \in Nat
    BY <1>3 DEF DefenceTypeOK
  <2>2. file' \in {{}} \union {{m} : m \in Manifests}
    BY <1>3 DEF DefenceTypeOK
  <2> QED
    BY <1>1, <1>3, <1>4, <2>1, <2>2 DEF DefenceTypeOK
<1>6. VerdictOf(rules, check - 1)' = {}
  BY <1>3 DEF VerdictOf, Done
<1>7. Uncrossed'
  BY <1>3, <1>6 DEF Uncrossed
<1>8. ReadBefore' /\ Settled'
  BY <1>3 DEF ReadBefore, Settled
<1>9. AlertsAreFounded' /\ NotFrozenForAuth'
  BY DEF AlertsAreFounded, NotFrozenForAuth
<1> QED
  BY <1>5, <1>7, <1>8, <1>9

\* The checks made so far, after one more.
LEMMA DoneOneMore ==
    ASSUME NEW k \in 1..3
    PROVE Done(k) = Done(k - 1) \union {Checks[k]}
  BY DEF Done

LEMMA PassStep ==
    ASSUME DefenceInv, Pass
    PROVE DefenceInv'
<1> USE DEF DefenceInv, Pass, Checking, inForce, loading, defending
<1>1. check \in 1..3 /\ limit = {}
  BY ChecksFacts
<1>2. DefenceTypeOK'
  BY <1>1, ChecksFacts DEF DefenceTypeOK
<1>3. ASSUME ~crossed
      PROVE reload = "idle" /\ alerts = VerdictOf(rules, check)
  <2>1. reload = "idle" /\ alerts = VerdictOf(rules, check - 1) /\ baselines = rules.limit
    BY <1>1, <1>3 DEF Uncrossed, Settled
  <2>2. ~Breaches(metrics[Checks[check]], Checks[check], Limit(rules.limit, Checks[check]))
    BY <2>1
  <2>3. Done(check) = Done(check - 1) \union {Checks[check]}
    BY <1>1, DoneOneMore
  <2>4. VerdictOf(rules, check) = VerdictOf(rules, check - 1)
    BY <2>2, <2>3 DEF VerdictOf
  <2> QED
    BY <2>1, <2>4
<1>4. check' - 1 = check /\ VerdictOf(rules, check)' = VerdictOf(rules, check)'
  BY <1>1
<1>5. Uncrossed'
  BY <1>1, <1>3, <1>4 DEF Uncrossed, VerdictOf
<1>6. ReadBefore' /\ Settled'
  BY <1>1 DEF ReadBefore, Settled
<1>7. AlertsAreFounded' /\ NotFrozenForAuth'
  BY DEF AlertsAreFounded, NotFrozenForAuth
<1> QED
  BY <1>2, <1>5, <1>6, <1>7

LEMMA BreachStep ==
    ASSUME DefenceInv, Breach
    PROVE DefenceInv'
<1> USE DEF DefenceInv, Breach, Checking, inForce, loading, defending
<1>1. check \in 1..3 /\ limit = {} /\ Checks[check] \in Threats
  BY ChecksFacts
<1>2. PICK m \in seen : baselines = m.limit
  BY DEF DefenceTypeOK
<1>3. Limit(baselines, Checks[check]) \in Int
  BY <1>1, <1>2, ManifestFacts DEF DefenceTypeOK
<1>4. DefenceTypeOK'
  BY <1>1, <1>3, ChecksFacts DEF DefenceTypeOK
<1>5. ReadBefore' /\ Settled'
  BY <1>2 DEF ReadBefore, Settled
<1>6. Uncrossed'
  BY DEF Uncrossed, VerdictOf, Settled
<1>7. AlertsAreFounded' /\ NotFrozenForAuth'
  BY DEF AlertsAreFounded, NotFrozenForAuth
<1> QED
  BY <1>4, <1>5, <1>6, <1>7

LEMMA AlertStep ==
    ASSUME DefenceInv, Alert
    PROVE DefenceInv'
<1> DEFINE t == Checks[check]
<1> USE DEF DefenceInv, Alert, inForce, loading, defending
<1>1. PICK max \in limit :
        alerts' = alerts \union {[threat |-> t, max |-> max, action |-> threats[t]]}
  OBVIOUS
<1>2. check \in 1..3 /\ t \in Threats /\ max \in Int
  BY <1>1, ChecksFacts DEF DefenceTypeOK
<1>3. PICK m \in seen : threats = m.action
  BY DEF DefenceTypeOK
<1>4. threats[t] \in STRING
  BY <1>2, <1>3, ManifestFacts DEF DefenceTypeOK
<1>5. DefenceTypeOK'
  BY <1>1, <1>2, <1>4, ChecksFacts DEF DefenceTypeOK
<1>6. ASSUME ~crossed
      PROVE reload = "idle" /\ alerts' = VerdictOf(rules, check)
  <2>1. /\ reload = "idle" /\ alerts = VerdictOf(rules, check - 1) /\ threats = rules.action
        /\ max = Limit(rules.limit, t)
    BY <1>1, <1>2, <1>6 DEF Uncrossed, Settled
  <2>2. Breaches(metrics[t], t, Limit(rules.limit, t))
    BY <1>1, <2>1 DEF ReadBefore
  <2>3. Done(check) = Done(check - 1) \union {t}
    BY <1>2, DoneOneMore
  <2>4. VerdictOf(rules, check) = VerdictOf(rules, check - 1) \union {AlertOf(rules, t)}
    BY <2>2, <2>3 DEF VerdictOf
  <2>5. alerts' = alerts \union {AlertOf(rules, t)}
    BY <1>1, <2>1 DEF AlertOf
  <2> QED
    BY <2>1, <2>4, <2>5
<1>7. Uncrossed'
  BY <1>2, <1>6 DEF Uncrossed, VerdictOf
<1>8. ReadBefore' /\ Settled'
  BY DEF ReadBefore, Settled
<1>9. AlertsAreFounded'
  <2>1. /\ \E k \in seen : max = Limit(k.limit, t)
        /\ Breaches(metrics[t], t, max)
    BY <1>1 DEF ReadBefore
  <2> QED
    BY <1>1, <1>3, <2>1 DEF AlertsAreFounded
<1>10. NotFrozenForAuth'
  BY <1>1 DEF NotFrozenForAuth
<1> QED
  BY <1>5, <1>7, <1>8, <1>9, <1>10

LEMMA ReturnStep ==
    ASSUME DefenceInv, Return
    PROVE DefenceInv'
<1> USE DEF DefenceInv, Return, inForce, loading
<1>1. limit = {} /\ check' = 0
  BY ChecksFacts DEF DefenceTypeOK
<1>2. DefenceTypeOK'
  BY <1>1, ChecksFacts DEF DefenceTypeOK
<1>3. ReadBefore' /\ Settled' /\ Uncrossed'
  BY <1>1 DEF ReadBefore, Settled, Uncrossed
<1>4. AlertsAreFounded' /\ NotFrozenForAuth'
  BY DEF AlertsAreFounded, NotFrozenForAuth
<1> QED
  BY <1>2, <1>3, <1>4

LEMMA HandleStep ==
    ASSUME DefenceInv, NEW a \in handing, NEW address \in BOOLEAN, Handle(a, address)
    PROVE DefenceInv'
<1> USE DEF DefenceInv, Handle, inForce, loading, evaluating
<1>1. DefenceTypeOK'
  BY DEF DefenceTypeOK
<1>2. ReadBefore' /\ Settled' /\ Uncrossed'
  BY DEF ReadBefore, Settled, Uncrossed, VerdictOf
<1>3. AlertsAreFounded'
  BY DEF AlertsAreFounded
<1>4. a \in alerts
  BY DEF DefenceTypeOK
<1>5. a.action = "freeze" => \E m \in seen : m.action[a.threat] = "freeze"
  BY <1>4 DEF AlertsAreFounded
<1>6. NotFrozenForAuth'
  BY <1>4, <1>5 DEF NotFrozenForAuth
<1> QED
  BY <1>1, <1>2, <1>3, <1>6

LEMMA StutterStep ==
    ASSUME DefenceInv, UNCHANGED defenceVars
    PROVE DefenceInv'
<1> USE DEF DefenceInv, defenceVars, inForce, loading, evaluating, defending
<1>1. DefenceTypeOK'
  BY DEF DefenceTypeOK
<1>2. ReadBefore' /\ Settled' /\ Uncrossed'
  BY DEF ReadBefore, Settled, Uncrossed, VerdictOf
<1>3. AlertsAreFounded' /\ NotFrozenForAuth'
  BY DEF AlertsAreFounded, NotFrozenForAuth
<1> QED
  BY <1>1, <1>2, <1>3

-----------------------------------------------------------------------------
\* The inductive invariant of the rules, the evaluation and the defender.
THEOREM DefenceInductive == DefenceSpec => []DefenceInv
<1>1. ASSUME DefenceInv, DefenceNext PROVE DefenceInv'
  <2>1. CASE Rules
    BY <1>1, <2>1, WriteStep, ReloadStep, ReloadRaisesStep, SetBaselinesStep, SetThreatsStep
       DEF Rules
  <2>2. ASSUME NEW n \in Metrics, Evaluate(n) PROVE DefenceInv'
    BY <1>1, <2>2, EvaluateStep
  <2>3. CASE Pass \/ Breach \/ Alert \/ Return
    BY <1>1, <2>3, PassStep, BreachStep, AlertStep, ReturnStep
  <2>4. ASSUME NEW a \in handing, NEW address \in BOOLEAN, Handle(a, address) PROVE DefenceInv'
    BY <1>1, <2>4, HandleStep
  <2> QED
    BY <1>1, <2>1, <2>2, <2>3, <2>4 DEF DefenceNext
<1>2. DefenceInv /\ [DefenceNext]_defenceVars => DefenceInv'
  BY <1>1, StutterStep
<1> QED
  BY <1>2, InitHolds, PTL DEF DefenceSpec

\* The variables keep their types, and what is in force is always of manifests
\* that were read (reload_rules).
THEOREM DefenceTypeCorrect == DefenceSpec => []DefenceTypeOK
<1>1. DefenceInv => DefenceTypeOK
  BY DEF DefenceInv
<1> QED
  BY <1>1, DefenceInductive, PTL

\* An evaluation that no reload crosses gives the alerts that the manifest last
\* read in whole makes of the metrics, all of them and no other
\* (evaluate_tenant_metrics, reload_rules).
THEOREM OneManifest == DefenceSpec => []AlertsAreOfOneManifest
<1>1. DefenceInv => AlertsAreOfOneManifest
  <2> SUFFICES ASSUME DefenceInv, check = Len(Checks) + 1, ~crossed PROVE alerts = Verdict(rules)
    BY DEF AlertsAreOfOneManifest
  <2>1. check = 4 /\ Done(3) = Threats
    BY ChecksFacts
  <2>2. alerts = VerdictOf(rules, 3)
    BY <2>1 DEF DefenceInv, Uncrossed
  <2> QED
    BY <2>1, <2>2 DEF Verdict, VerdictOf, AlertOf
<1> QED
  BY <1>1, DefenceInductive, PTL

\* Even when a reload crosses the evaluation, an alert is about a limit, and
\* names an action, that some manifest really had for that threat.
THEOREM AlertsFounded == DefenceSpec => []AlertsAreFounded
<1>1. DefenceInv => AlertsAreFounded
  BY DEF DefenceInv
<1> QED
  BY <1>1, DefenceInductive, PTL

\* The defender freezes an operative only for a threat that some manifest
\* punishes so: the anti-DoS rule (handle_threat).
THEOREM NeverFrozenForAuth == DefenceSpec => []NotFrozenForAuth
<1>1. DefenceInv => NotFrozenForAuth
  BY DEF DefenceInv
<1> QED
  BY <1>1, DefenceInductive, PTL
=============================================================================
