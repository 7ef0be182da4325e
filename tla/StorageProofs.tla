--------------------------- MODULE StorageProofs ---------------------------
(***************************************************************************)
(* Proofs about Storage, for any secrets, tenants, payloads, workers and   *)
(* numbers of parts, saves and faults.                                     *)
(*                                                                         *)
(* SavedIsReadable speaks of saves that returned.  That their parts are    *)
(* stored then has to be known while they are being written: a save that   *)
(* nothing has disturbed is the only one of its secret, and the parts it   *)
(* has written are there.  Parts of different secrets have different names *)
(* (ChunkId), so that no other call touches them.                          *)
(*                                                                         *)
(* CallInv, on top of it, is about the calls that read and purge: what a   *)
(* save has written is stored unless its secret lost a part (Written), a   *)
(* calm call has no save of its secret beside it (Alone), what a read has  *)
(* gathered is the good cut, part by part (WholeAt), and what a purge is   *)
(* at has expired or is wiped (HitAt); WipedByPurge finds for each part    *)
(* that is wiped the purge that is at it.                                  *)
(*                                                                         *)
(* Chunkers, for any files, sizes of reads and blocks, and number of       *)
(* streams: a stream that was never dropped leaves an empty buffer to the  *)
(* next one (Clean), from which the rest follows. Then what it was given   *)
(* before its tail is a number of whole blocks (WholeBlocks).              *)
(***************************************************************************)
EXTENDS Storage, Chunkers, SequenceTheorems, TLAPS

Saves(w) == job[w].op = "save"

Undisturbed ==
    \A w \in Workers : Saves(w) /\ job[w].calm =>
        /\ \A x \in Workers \ {w} : Saves(x) => job[x].s # job[w].s
        /\ \A i \in 1..job[w].at : store[ChunkId(job[w].s, i)] = Part(job[w].cut, i)

IndInv == TypeOK /\ Undisturbed /\ SavedIsReadable

\* What the call of a worker keeps while another one moves.
Same(x) ==
    /\ job'[x].op = job[x].op /\ job'[x].s = job[x].s /\ job'[x].cut = job[x].cut
    /\ job'[x].at = job[x].at /\ job'[x].n = job[x].n /\ job'[x].got = job[x].got
    /\ job'[x].calm => job[x].calm

-----------------------------------------------------------------------------
LEMMA CutFacts ==
    ASSUME NEW c \in Cuts
    PROVE c.n \in 0..MaxParts /\ c # Absent
  BY StorageAssumption DEF Cuts, NoCut, StorageAssumption

LEMMA PartFacts ==
    ASSUME NEW c \in Cuts, NEW i \in 1..MaxParts
    PROVE /\ Part(c, i) \in Parts /\ Part(c, i).cut = c
          /\ Part(c, i) \notin {Absent, Torn, Noise}
<1>1. Part(c, i) \in Parts
  BY DEF Parts
<1> QED
  BY <1>1, StorageAssumption DEF Part, StorageAssumption

LEMMA ChunkFacts ==
    ASSUME NEW s \in Secrets, NEW t \in Secrets, NEW i \in Nat, NEW k \in Nat,
           ChunkId(s, i) = ChunkId(t, k)
    PROVE s = t /\ i = k
  BY DEF ChunkId

LEMMA JobFacts ==
    ASSUME NEW op \in {"idle", "save", "read", "purge"}, NEW s \in Secrets, NEW c \in Cuts,
           NEW n \in Nat, NEW calm \in BOOLEAN
    PROVE /\ Job(op, s, c, n, calm) \in Jobs
          /\ Job(op, s, c, n, calm).op = op /\ Job(op, s, c, n, calm).s = s
          /\ Job(op, s, c, n, calm).cut = c /\ Job(op, s, c, n, calm).at = 0
          /\ Job(op, s, c, n, calm).n = n /\ Job(op, s, c, n, calm).calm = calm
          /\ Job(op, s, c, n, calm).got = <<>>
  BY DEF Job, Jobs

LEMMA IdleFacts ==
    ASSUME TypeOK, NEW w \in Workers
    PROVE /\ Idle(w) \in Jobs /\ Idle(w).op = "idle" /\ Idle(w).at = 0 /\ Idle(w).n = 0
          /\ Idle(w).s = job[w].s /\ ~Idle(w).calm
<1>1. job[w].s \in Secrets /\ NoCut \in Cuts
  BY DEF TypeOK, Jobs, Cuts
<1> QED
  BY <1>1 DEF Idle, Job, Jobs

LEMMA OthersKeep ==
    ASSUME TypeOK, NEW w \in Workers, NEW j \in Jobs, Become(w, j) \/ Upset(w, j)
    PROVE /\ job' \in [Workers -> Jobs] /\ job'[w] = j
          /\ \A x \in Workers \ {w} : Same(x)
<1>1. CASE Become(w, j)
  BY <1>1 DEF Become, TypeOK, Same
<1>2. CASE Upset(w, j)
  <2>1. ASSUME NEW x \in Workers
        PROVE [job[x] EXCEPT !.calm = @ /\ job[x].s # j.s] \in Jobs
    BY DEF TypeOK, Jobs
  <2>2. job' \in [Workers -> Jobs] /\ job'[w] = j
    BY <1>2, <2>1 DEF Upset
  <2>3. ASSUME NEW x \in Workers \ {w} PROVE Same(x)
    <3>1. job'[x] = [job[x] EXCEPT !.calm = job[x].calm /\ job[x].s # j.s]
      BY <1>2 DEF Upset
    <3>2. job[x] \in Jobs
      BY DEF TypeOK
    <3> QED
      BY <3>1, <3>2 DEF Same, Jobs
  <2> QED
    BY <2>2, <2>3
<1> QED
  BY <1>1, <1>2

LEMMA UpsetDisturbs ==
    ASSUME TypeOK, NEW w \in Workers, NEW j \in Jobs, Upset(w, j), NEW x \in Workers \ {w},
           job'[x].calm
    PROVE job[x].s # j.s
<1>1. job'[x] = [job[x] EXCEPT !.calm = job[x].calm /\ job[x].s # j.s]
  BY DEF Upset
<1>2. job[x] \in Jobs
  BY DEF TypeOK
<1> QED
  BY <1>1, <1>2 DEF Jobs

LEMMA ChunkIn ==
    ASSUME NEW s \in Secrets, NEW i \in 1..MaxParts
    PROVE ChunkId(s, i) \in Chunks
  BY DEF Chunks

LEMMA TargetFacts ==
    ASSUME TypeOK, NEW w \in Workers, Saving(w)
    PROVE /\ job[w].at + 1 \in 1..MaxParts /\ Target(w) \in Chunks
          /\ job[w].s \in Secrets /\ job[w].cut \in Cuts
          /\ job[w].n \in Nat /\ job[w].at \in Nat
<1>1. job[w] \in Jobs /\ job[w].at < job[w].n /\ job[w].n = job[w].cut.n
  BY DEF TypeOK, Saving
<1>2. job[w].s \in Secrets /\ job[w].cut \in Cuts /\ job[w].n \in Nat /\ job[w].at \in Nat
  BY <1>1 DEF Jobs
<1>3. job[w].cut.n \in 0..MaxParts
  BY <1>2, CutFacts
<1>4. job[w].at + 1 \in 1..MaxParts
  BY <1>1, <1>2, <1>3, StorageAssumption DEF StorageAssumption
<1> QED
  BY <1>2, <1>4, ChunkIn DEF Target

-----------------------------------------------------------------------------
\* The types.

JobTyped == /\ job \in [Workers -> Jobs]
            /\ \A w \in Workers : Saves(w) => job[w].at <= job[w].n /\ job[w].n = job[w].cut.n

LEMMA JobsTyped ==
    ASSUME TypeOK, NEW w \in Workers, NEW j \in Jobs, Become(w, j) \/ Upset(w, j),
           j.op = "save" => j.at <= j.n /\ j.n = j.cut.n
    PROVE JobTyped'
<1>1. job' \in [Workers -> Jobs] /\ job'[w] = j /\ \A x \in Workers \ {w} : Same(x)
  BY OthersKeep
<1>2. \A x \in Workers : job[x].op = "save" => job[x].at <= job[x].n /\ job[x].n = job[x].cut.n
  BY DEF TypeOK
<1>3. ASSUME NEW x \in Workers, job'[x].op = "save"
      PROVE job'[x].at <= job'[x].n /\ job'[x].n = job'[x].cut.n
  <2>1. CASE x = w
    BY <1>1, <1>3, <2>1
  <2>2. CASE x # w
    BY <1>1, <1>2, <1>3, <2>2 DEF Same
  <2> QED
    BY <2>1, <2>2
<1> QED
  BY <1>1, <1>3 DEF JobTyped, Saves

-----------------------------------------------------------------------------
\* The saves of the other workers stay undisturbed.

LEMMA OthersUndisturbed ==
    ASSUME TypeOK, Undisturbed, NEW w \in Workers, NEW j \in Jobs, Become(w, j) \/ Upset(w, j),
           NEW x \in Workers \ {w}, Saves(x)', job'[x].calm,
           j.op = "save" => j.s # job[x].s,
           \A i \in 1..job[x].at :
              store'[ChunkId(job[x].s, i)] = store[ChunkId(job[x].s, i)]
    PROVE /\ \A y \in Workers \ {x} : Saves(y)' => job'[y].s # job'[x].s
          /\ \A i \in 1..job'[x].at : store'[ChunkId(job'[x].s, i)] = Part(job'[x].cut, i)
<1>1. job'[w] = j /\ \A y \in Workers \ {w} : Same(y)
  BY OthersKeep
<1>2. Saves(x) /\ job[x].calm /\ Same(x)
  BY <1>1 DEF Saves, Same
<1>3. /\ \A y \in Workers \ {x} : Saves(y) => job[y].s # job[x].s
      /\ \A i \in 1..job[x].at : store[ChunkId(job[x].s, i)] = Part(job[x].cut, i)
  BY <1>2 DEF Undisturbed
<1>4. ASSUME NEW y \in Workers \ {x}, Saves(y)' PROVE job'[y].s # job'[x].s
  <2>1. CASE y = w
    BY <1>1, <1>2, <1>4, <2>1 DEF Saves, Same
  <2>2. CASE y # w
    BY <1>1, <1>2, <1>3, <1>4, <2>2 DEF Saves, Same
  <2> QED
    BY <2>1, <2>2
<1>5. \A i \in 1..job'[x].at : store'[ChunkId(job'[x].s, i)] = Part(job'[x].cut, i)
  BY <1>2, <1>3 DEF Same, ChunkId
<1> QED
  BY <1>4, <1>5

\* What a read, a return or the start of one changes: the call alone.
LEMMA OnlyTheCall ==
    ASSUME IndInv, NEW w \in Workers, NEW j \in Jobs, Become(w, j), j.op # "save",
           UNCHANGED <<given, store, index, bounds, good, lost>>
    PROVE IndInv'
<1>1. job'[w] = j
  BY OthersKeep DEF IndInv
<1>2. JobTyped'
  BY JobsTyped DEF IndInv
<1>3. TypeOK'
  BY <1>2 DEF IndInv, TypeOK, JobTyped, Saves, given, index, bounds
<1>4. ASSUME NEW x \in Workers, Saves(x)', job'[x].calm
      PROVE /\ \A y \in Workers \ {x} : Saves(y)' => job'[y].s # job'[x].s
            /\ \A i \in 1..job'[x].at : store'[ChunkId(job'[x].s, i)] = Part(job'[x].cut, i)
  <2>1. x # w
    BY <1>1, <1>4 DEF Saves
  <2>2. \A i \in 1..job[x].at : store'[ChunkId(job[x].s, i)] = store[ChunkId(job[x].s, i)]
    OBVIOUS
  <2> QED
    BY <1>4, <2>1, <2>2, OthersUndisturbed DEF IndInv
<1>5. Undisturbed'
  BY <1>4 DEF Undisturbed
<1>6. SavedIsReadable'
  BY DEF IndInv, SavedIsReadable, index, ChunkId
<1> QED
  BY <1>3, <1>5, <1>6 DEF IndInv

\* A call that touches one part of s, and is alone at s or is no save any more,
\* and after which s is not good.
OneTouched(s, k) == \E c : store' = [store EXCEPT ![ChunkId(s, k)] = c]
Spoils(s) == good' = [good EXCEPT ![s] = Absent] /\ UNCHANGED index
OthersElsewhere(w, s) == \A x \in Workers \ {w} : Saves(x)' /\ job'[x].calm => job[x].s # s
StaysUndisturbed(w, s, j) ==
    Saves(w)' /\ j.calm =>
        /\ \A x \in Workers \ {w} : Saves(x)' => job'[x].s # s
        /\ \A i \in 1..j.at : store'[ChunkId(s, i)] = Part(j.cut, i)

LEMMA OnePart ==
    ASSUME IndInv, TypeOK', NEW w \in Workers, NEW j \in Jobs, Become(w, j) \/ Upset(w, j),
           NEW s \in Secrets, NEW k \in Nat, j.s = s,
           OneTouched(s, k), Spoils(s), OthersElsewhere(w, s), StaysUndisturbed(w, s, j)
    PROVE IndInv'
<1>0. PICK c : store' = [store EXCEPT ![ChunkId(s, k)] = c]
  BY DEF OneTouched
<1>1. job'[w] = j /\ \A y \in Workers \ {w} : Same(y)
  BY OthersKeep DEF IndInv
<1>2. \A u \in Secrets : \A i \in 1..MaxParts :
        u # s => store'[ChunkId(u, i)] = store[ChunkId(u, i)]
  <2> SUFFICES ASSUME NEW u \in Secrets, NEW i \in 1..MaxParts, u # s
               PROVE store'[ChunkId(u, i)] = store[ChunkId(u, i)]
    OBVIOUS
  <2>1. i \in Nat
    BY StorageAssumption DEF StorageAssumption
  <2>2. ChunkId(u, i) # ChunkId(s, k)
    BY <2>1, ChunkFacts
  <2>3. ChunkId(u, i) \in Chunks
    BY ChunkIn
  <2> QED
    BY <1>0, <2>2, <2>3 DEF IndInv, TypeOK
<1>3. ASSUME NEW x \in Workers, Saves(x)', job'[x].calm
      PROVE /\ \A y \in Workers \ {x} : Saves(y)' => job'[y].s # job'[x].s
            /\ \A i \in 1..job'[x].at : store'[ChunkId(job'[x].s, i)] = Part(job'[x].cut, i)
  <2>1. CASE x = w
    BY <1>1, <1>3, <2>1 DEF StaysUndisturbed
  <2>2. CASE x # w
    <3>1. job[x].s # s /\ Saves(x)
      BY <1>1, <1>3, <2>2 DEF Saves, Same, OthersElsewhere
    <3>2. /\ job[x].s \in Secrets /\ job[x].cut \in Cuts /\ job[x].at \in Nat
          /\ job[x].at <= job[x].n /\ job[x].n = job[x].cut.n
      BY <3>1 DEF IndInv, TypeOK, Jobs, Saves
    <3>3. job[x].cut.n \in 0..MaxParts
      BY <3>2, CutFacts
    <3>4. \A i \in 1..job[x].at : i \in 1..MaxParts
      BY <3>2, <3>3, StorageAssumption DEF StorageAssumption
    <3>5. \A i \in 1..job[x].at :
             store'[ChunkId(job[x].s, i)] = store[ChunkId(job[x].s, i)]
      BY <1>2, <3>1, <3>2, <3>4
    <3> QED
      BY <1>3, <2>2, <3>1, <3>5, OthersUndisturbed DEF IndInv
  <2> QED
    BY <2>1, <2>2
<1>4. Undisturbed'
  BY <1>3 DEF Undisturbed
<1>5. ASSUME NEW u \in Secrets, good'[u] # Absent
      PROVE /\ ram'[u] = good'[u].n /\ disk'[u] = good'[u].n
            /\ \A i \in 1..good'[u].n : store'[ChunkId(u, i)] = Part(good'[u], i)
  <2>1. u # s /\ good'[u] = good[u]
    BY <1>5 DEF IndInv, TypeOK, Spoils
  <2>2. /\ ram[u] = good[u].n /\ disk[u] = good[u].n
        /\ \A i \in 1..good[u].n : store[ChunkId(u, i)] = Part(good[u], i)
    BY <1>5, <2>1 DEF IndInv, SavedIsReadable
  <2>3. good[u] \in Cuts
    BY <1>5, <2>1 DEF IndInv, TypeOK
  <2>4. good[u].n \in 0..MaxParts
    BY <2>3, CutFacts
  <2>5. \A i \in 1..good[u].n : i \in 1..MaxParts
    BY <2>4, StorageAssumption DEF StorageAssumption
  <2>6. \A i \in 1..good[u].n : store'[ChunkId(u, i)] = Part(good[u], i)
    BY <1>2, <2>1, <2>2, <2>5
  <2> QED
    BY <2>1, <2>2, <2>6 DEF index, Spoils
<1>6. SavedIsReadable'
  BY <1>5 DEF SavedIsReadable, ChunkId
<1> QED
  BY <1>4, <1>6 DEF IndInv

-----------------------------------------------------------------------------
\* One lemma for each action.

LEMMA BeginReadStep ==
    ASSUME IndInv, NEW w \in Workers, NEW s \in Secrets, BeginRead(w, s)
    PROVE IndInv'
<1>1. NoCut \in Cuts /\ Calm(s) \in BOOLEAN
  BY DEF Cuts, Calm
<1>2. ram[s] \in Nat
  BY StorageAssumption DEF IndInv, TypeOK, BeginRead, Unlisted, StorageAssumption
<1>3. Job("read", s, NoCut, ram[s], Calm(s)) \in Jobs
  BY <1>1, <1>2 DEF Job, Jobs
<1>4. Job("read", s, NoCut, ram[s], Calm(s)).op # "save"
  BY DEF Job
<1> QED
  BY <1>3, <1>4, OnlyTheCall DEF BeginRead

LEMMA ReadPartStep ==
    ASSUME IndInv, NEW w \in Workers, ReadPart(w)
    PROVE IndInv'
<1>1. job[w] \in Jobs /\ job[w].op = "read"
  BY DEF IndInv, TypeOK, ReadPart
<1>2. CASE Deserializes(store[Target(w)])
  <2> DEFINE j == [job[w] EXCEPT !.at = job[w].at + 1,
                                 !.got = Append(job[w].got, store[Target(w)])]
  <2>1. job[w].at + 1 \in Nat /\ Append(job[w].got, store[Target(w)]) \in Seq(Parts)
    BY <1>1, <1>2 DEF Jobs, Deserializes
  <2>2. j \in Jobs /\ j.op # "save"
    BY <1>1, <2>1 DEF Jobs
  <2>3. Become(w, j)
    BY <1>2 DEF ReadPart
  <2> QED
    BY <2>2, <2>3, OnlyTheCall DEF ReadPart
<1>3. CASE ~Deserializes(store[Target(w)])
  BY <1>3, IdleFacts, OnlyTheCall DEF ReadPart, Rest, IndInv
<1> QED
  BY <1>2, <1>3

LEMMA ReturnStep ==
    ASSUME IndInv, NEW w \in Workers, Return(w)
    PROVE IndInv'
  BY IdleFacts, OnlyTheCall DEF Return, Rest, IndInv

LEMMA BeginPurgeStep ==
    ASSUME IndInv, NEW w \in Workers, NEW s \in Secrets, NEW i \in 1..MaxParts,
           BeginPurge(w, s, i)
    PROVE IndInv'
<1> DEFINE j == Job("purge", s, NoCut, i, Calm(s))
<1>1. NoCut \in Cuts /\ Calm(s) \in BOOLEAN /\ i \in Nat
  BY StorageAssumption DEF Cuts, Calm, StorageAssumption
<1>2. j \in Jobs /\ j.op # "save"
  BY <1>1 DEF Job, Jobs
<1>3. Become(w, j)
  BY DEF BeginPurge
<1> QED
  BY <1>2, <1>3, OnlyTheCall DEF BeginPurge

LEMMA BeginSaveStep ==
    ASSUME IndInv, NEW w \in Workers, NEW s \in Secrets, NEW c \in Cuts, BeginSave(w, s, c)
    PROVE IndInv'
<1> DEFINE j == Job("save", s, c, c.n, Calm(s))
<1>1. c.n \in 0..MaxParts /\ c.n \in Nat /\ Calm(s) \in BOOLEAN
  BY CutFacts, StorageAssumption DEF Calm, StorageAssumption
<1>2. /\ j \in Jobs /\ j.op = "save" /\ j.s = s /\ j.cut = c /\ j.at = 0 /\ j.n = c.n
      /\ j.calm = Calm(s)
  BY <1>1 DEF Job, Jobs
<1>3. Upset(w, j)
  BY DEF BeginSave
<1> HIDE DEF j
<1>4. JobTyped'
  BY <1>1, <1>2, <1>3, JobsTyped DEF IndInv
<1>5. TypeOK'
  BY <1>4 DEF IndInv, TypeOK, JobTyped, Saves, BeginSave, given, index
<1>6. job'[w] = j /\ \A y \in Workers \ {w} : Same(y)
  BY <1>2, <1>3, OthersKeep DEF IndInv
<1>7. ASSUME NEW x \in Workers, Saves(x)', job'[x].calm
      PROVE /\ \A y \in Workers \ {x} : Saves(y)' => job'[y].s # job'[x].s
            /\ \A i \in 1..job'[x].at : store'[ChunkId(job'[x].s, i)] = Part(job'[x].cut, i)
  <2>1. CASE x = w
    <3>1. \A y \in Workers : job[y].op = "save" => job[y].s # s
      BY <1>2, <1>6, <1>7, <2>1 DEF Calm
    <3>2. ASSUME NEW y \in Workers \ {x}, Saves(y)' PROVE job'[y].s # job'[x].s
      BY <1>2, <1>6, <2>1, <3>1, <3>2 DEF Saves, Same
    <3>3. job'[x].at = 0
      BY <1>2, <1>6, <2>1
    <3> QED
      BY <3>2, <3>3
  <2>2. CASE x # w
    <3>1. job[x].s # s
      BY <1>2, <1>3, <1>7, <2>2, UpsetDisturbs DEF IndInv
    <3>2. \A i \in 1..job[x].at : store'[ChunkId(job[x].s, i)] = store[ChunkId(job[x].s, i)]
      BY DEF BeginSave
    <3> QED
      BY <1>2, <1>3, <1>7, <2>2, <3>1, <3>2, OthersUndisturbed DEF IndInv
  <2> QED
    BY <2>1, <2>2
<1>8. Undisturbed'
  BY <1>7 DEF Undisturbed
<1>9. SavedIsReadable'
  BY DEF IndInv, SavedIsReadable, BeginSave, index, ChunkId
<1> QED
  BY <1>5, <1>8, <1>9 DEF IndInv

LEMMA WritePartStep ==
    ASSUME IndInv, NEW w \in Workers, WritePart(w)
    PROVE IndInv'
<1> DEFINE s == job[w].s
           k == job[w].at + 1
           j == [job[w] EXCEPT !.at = job[w].at + 1]
<1>1. Saving(w) /\ job[w] \in Jobs /\ job[w].op = "save" /\ job[w].n = job[w].cut.n
  BY DEF IndInv, TypeOK, WritePart, Saving
<1>2. /\ k \in 1..MaxParts /\ Target(w) \in Chunks /\ Target(w) = ChunkId(s, k)
      /\ s \in Secrets /\ job[w].cut \in Cuts /\ job[w].n \in Nat /\ job[w].at \in Nat
  BY <1>1, TargetFacts DEF IndInv, Target
<1>3. k \in Nat /\ k <= job[w].n
  BY <1>1, <1>2 DEF Saving
<1>4. /\ j \in Jobs /\ j.op = "save" /\ j.s = s /\ j.cut = job[w].cut /\ j.at = k
      /\ j.n = job[w].n /\ j.calm = job[w].calm
  BY <1>1, <1>2 DEF Jobs
<1>5. Become(w, j)
  BY DEF WritePart, Proceed
<1> HIDE DEF j
<1>6. JobTyped'
  BY <1>1, <1>3, <1>4, <1>5, JobsTyped DEF IndInv
<1>7. store' = [store EXCEPT ![ChunkId(s, k)] = Part(job[w].cut, k)]
      /\ good' = [good EXCEPT ![s] = Absent]
  BY <1>2 DEF WritePart
<1>8. store' \in [Chunks -> Parts \union {Absent, Torn, Noise}]
      /\ good' \in [Secrets -> Cuts \union {Absent}]
  <2>1. Part(job[w].cut, k) \in Parts
    BY <1>2, PartFacts
  <2> QED
    BY <1>2, <1>7, <2>1 DEF IndInv, TypeOK
<1>9. TypeOK'
  BY <1>6, <1>8 DEF IndInv, TypeOK, JobTyped, Saves, WritePart, given, index, bounds
<1>10. job'[w] = j /\ \A y \in Workers \ {w} : Same(y)
  BY <1>4, <1>5, OthersKeep DEF IndInv
<1>11. ASSUME NEW x \in Workers \ {w}, Saves(x)', job'[x].calm PROVE job[x].s # s
  <2>1. Saves(x) /\ job[x].calm
    BY <1>10, <1>11 DEF Saves, Same
  <2>2. \A y \in Workers \ {x} : Saves(y) => job[y].s # job[x].s
    BY <2>1 DEF IndInv, Undisturbed
  <2> QED
    BY <1>1, <2>2 DEF Saves
<1>12. ASSUME Saves(w)', j.calm
       PROVE /\ \A x \in Workers \ {w} : Saves(x)' => job'[x].s # s
             /\ \A i \in 1..j.at : store'[ChunkId(s, i)] = Part(j.cut, i)
  <2>1. /\ \A x \in Workers \ {w} : Saves(x) => job[x].s # s
        /\ \A i \in 1..job[w].at : store[ChunkId(s, i)] = Part(job[w].cut, i)
    BY <1>1, <1>4, <1>12 DEF IndInv, Undisturbed, Saves
  <2>2. \A x \in Workers \ {w} : Saves(x)' => job'[x].s # s
    BY <1>10, <2>1 DEF Saves, Same
  <2>3. ASSUME NEW i \in 1..k PROVE store'[ChunkId(s, i)] = Part(job[w].cut, i)
    <3>1. i \in 1..MaxParts /\ i \in Nat
      BY <1>2, StorageAssumption DEF StorageAssumption
    <3>2. ChunkId(s, i) \in Chunks
      BY <1>2, <3>1, ChunkIn
    <3>3. CASE i = k
      BY <1>7, <3>2, <3>3 DEF IndInv, TypeOK
    <3>4. CASE i # k
      <4>1. ChunkId(s, i) # ChunkId(s, k)
        BY <1>2, <1>3, <3>1, <3>4, ChunkFacts
      <4>2. i \in 1..job[w].at
        BY <1>2, <3>4
      <4> QED
        BY <1>7, <2>1, <3>2, <4>1, <4>2 DEF IndInv, TypeOK
    <3> QED
      BY <3>3, <3>4
  <2> QED
    BY <1>4, <2>2, <2>3
<1>13. OneTouched(s, k)
  BY <1>7 DEF OneTouched
<1>14. Spoils(s)
  BY <1>7 DEF WritePart, Spoils
<1>15. OthersElsewhere(w, s)
  BY <1>11 DEF OthersElsewhere
<1>16. StaysUndisturbed(w, s, j)
  BY <1>12 DEF StaysUndisturbed
<1> HIDE DEF s, k
<1> QED
  BY <1>2, <1>3, <1>4, <1>5, <1>9, <1>13, <1>14, <1>15, <1>16, OnePart

LEMMA WriteFailsStep ==
    ASSUME IndInv, NEW w \in Workers, WriteFails(w)
    PROVE IndInv'
<1> DEFINE s == job[w].s
           k == job[w].at + 1
           j == [job[w] EXCEPT !.at = job[w].at + 1, !.calm = FALSE]
<1>1. Saving(w) /\ job[w] \in Jobs /\ job[w].op = "save" /\ job[w].n = job[w].cut.n
  BY DEF IndInv, TypeOK, WriteFails, Saving
<1>2. /\ k \in 1..MaxParts /\ Target(w) \in Chunks /\ Target(w) = ChunkId(s, k)
      /\ s \in Secrets /\ job[w].cut \in Cuts /\ job[w].n \in Nat /\ job[w].at \in Nat
  BY <1>1, TargetFacts DEF IndInv, Target
<1>3. k \in Nat /\ k <= job[w].n
  BY <1>1, <1>2 DEF Saving
<1>4. /\ j \in Jobs /\ j.op = "save" /\ j.s = s /\ j.cut = job[w].cut /\ j.at = k
      /\ j.n = job[w].n /\ ~j.calm
  <2>1. job[w].at + 1 \in Nat /\ FALSE \in BOOLEAN
    BY <1>2
  <2> QED
    BY <1>1, <2>1 DEF Jobs
<1>5. Become(w, j)
  BY DEF WriteFails
<1> HIDE DEF j
<1>6. JobTyped'
  BY <1>1, <1>3, <1>4, <1>5, JobsTyped DEF IndInv
<1>7. PICK c \in {store[Target(w)], Torn} : store' = [store EXCEPT ![Target(w)] = c]
  BY DEF WriteFails, RowAfter, FileAfter
<1>8. good' = [good EXCEPT ![s] = Absent] /\ lost' = lost \union {s} /\ UNCHANGED index
  BY DEF WriteFails
<1>9. store' \in [Chunks -> Parts \union {Absent, Torn, Noise}]
  BY <1>2, <1>7 DEF IndInv, TypeOK
<1>10. good' \in [Secrets -> Cuts \union {Absent}] /\ lost' \subseteq Secrets
  BY <1>2, <1>8 DEF IndInv, TypeOK
<1>11. faults' \in Nat
  BY DEF WriteFails, Fault, IndInv, TypeOK
<1>12. TypeOK'
  BY <1>6, <1>9, <1>10, <1>11 DEF IndInv, TypeOK, JobTyped, Saves, WriteFails, given, index
<1>13. job'[w] = j /\ \A y \in Workers \ {w} : Same(y)
  BY <1>4, <1>5, OthersKeep DEF IndInv
<1>14. ASSUME NEW x \in Workers \ {w}, Saves(x)', job'[x].calm PROVE job[x].s # s
  <2>1. Saves(x) /\ job[x].calm
    BY <1>13, <1>14 DEF Saves, Same
  <2>2. \A y \in Workers \ {x} : Saves(y) => job[y].s # job[x].s
    BY <2>1 DEF IndInv, Undisturbed
  <2> QED
    BY <1>1, <2>2 DEF Saves
<1>15. store' = [store EXCEPT ![ChunkId(s, k)] = c]
  BY <1>2, <1>7
<1>16. OneTouched(s, k)
  BY <1>15 DEF OneTouched
<1>17. Spoils(s)
  BY <1>8 DEF Spoils
<1>18. OthersElsewhere(w, s)
  BY <1>14 DEF OthersElsewhere
<1>19. StaysUndisturbed(w, s, j)
  BY <1>4 DEF StaysUndisturbed
<1> HIDE DEF s, k
<1> QED
  BY <1>2, <1>3, <1>4, <1>5, <1>12, <1>16, <1>17, <1>18, <1>19, OnePart

LEMMA WipeStep ==
    ASSUME IndInv, NEW w \in Workers, Wipe(w)
    PROVE IndInv'
<1> DEFINE s == job[w].s
           k == job[w].n
           j == IF job[w].at < 2 THEN [job[w] EXCEPT !.at = job[w].at + 1] ELSE Idle(w)
           c == IF job[w].at < 2 THEN Noise ELSE Absent
<1>1. job[w] \in Jobs /\ job[w].op = "purge"
  BY DEF IndInv, TypeOK, Wipe
<1>2. s \in Secrets /\ k \in Nat
  BY <1>1 DEF Jobs
<1>3. j \in Jobs /\ j.op # "save" /\ j.s = s
  <2>1. CASE job[w].at < 2
    BY <1>1, <2>1 DEF Jobs
  <2>2. CASE ~(job[w].at < 2)
    BY <2>2, IdleFacts DEF IndInv
  <2> QED
    BY <2>1, <2>2
<1>4. Upset(w, j)
  BY DEF Wipe
<1>5. store' = [store EXCEPT ![ChunkId(s, k)] = c]
  BY DEF Wipe
<1>6. good' = [good EXCEPT ![s] = Absent] /\ lost' = lost \union {s} /\ UNCHANGED index
  BY DEF Wipe
<1>7. c \in {Noise, Absent}
  OBVIOUS
<1> HIDE DEF s, k, j, c
<1>8. JobTyped'
  BY <1>3, <1>4, JobsTyped DEF IndInv
<1>9. store' \in [Chunks -> Parts \union {Absent, Torn, Noise}]
  BY <1>5, <1>7 DEF IndInv, TypeOK
<1>10. good' \in [Secrets -> Cuts \union {Absent}] /\ lost' \subseteq Secrets
  BY <1>2, <1>6 DEF IndInv, TypeOK
<1>11. TypeOK'
  BY <1>8, <1>9, <1>10 DEF IndInv, TypeOK, JobTyped, Saves, Wipe, given, index, bounds
<1>12. job'[w] = j
  BY <1>3, <1>4, OthersKeep DEF IndInv
<1>13. ASSUME NEW x \in Workers \ {w}, Saves(x)', job'[x].calm PROVE job[x].s # s
  BY <1>3, <1>4, <1>13, UpsetDisturbs DEF IndInv
<1>14. ~Saves(w)'
  BY <1>3, <1>12 DEF Saves
<1>15. OneTouched(s, k)
  BY <1>5 DEF OneTouched
<1>16. Spoils(s)
  BY <1>6 DEF Spoils
<1>17. OthersElsewhere(w, s)
  BY <1>13 DEF OthersElsewhere
<1>18. StaysUndisturbed(w, s, j)
  BY <1>14 DEF StaysUndisturbed
<1> QED
  BY <1>2, <1>3, <1>4, <1>11, <1>15, <1>16, <1>17, <1>18, OnePart

LEMMA UpdateIndexStep ==
    ASSUME IndInv, NEW w \in Workers, UpdateIndex(w)
    PROVE IndInv'
<1> DEFINE s == job[w].s
           j == Idle(w)
           n == job[w].n
<1>1. job[w] \in Jobs /\ Saves(w) /\ job[w].at = n /\ n = job[w].cut.n
  BY DEF IndInv, TypeOK, UpdateIndex, Saves
<1>2. s \in Secrets /\ job[w].cut \in Cuts /\ n \in 0..MaxParts /\ n \in Int
  <2>1. s \in Secrets /\ job[w].cut \in Cuts
    BY <1>1 DEF Jobs
  <2> QED
    BY <1>1, <2>1, CutFacts, StorageAssumption DEF StorageAssumption
<1>3. j \in Jobs /\ j.op # "save"
  BY IdleFacts DEF IndInv
<1>4. Become(w, j)
  BY DEF UpdateIndex, Rest
<1> HIDE DEF j
<1>5. /\ ram' = [ram EXCEPT ![s] = n] /\ UNCHANGED store
      /\ \/ disk' = ram' /\ good' = [good EXCEPT ![s] = IF job[w].calm THEN job[w].cut ELSE Absent]
         \/ disk' = disk /\ good' = [good EXCEPT ![s] = Absent]
  BY DEF UpdateIndex, Seal, SealFails
<1>6. JobTyped'
  BY <1>3, <1>4, JobsTyped DEF IndInv
<1>7. ram' \in [Secrets -> {Unlisted} \union (0..MaxParts)]
  BY <1>2, <1>5 DEF IndInv, TypeOK
<1>8. disk' \in [Secrets -> {Unlisted} \union (0..MaxParts)]
  BY <1>5, <1>7 DEF IndInv, TypeOK
<1>9. good' \in [Secrets -> Cuts \union {Absent}]
  BY <1>2, <1>5 DEF IndInv, TypeOK
<1>10. faults' \in Nat
  BY DEF UpdateIndex, Seal, SealFails, Fault, IndInv, TypeOK
<1>11. TypeOK'
  BY <1>6, <1>7, <1>8, <1>9, <1>10 DEF IndInv, TypeOK, JobTyped, Saves, UpdateIndex, given
<1>12. job'[w] = j
  BY <1>3, <1>4, OthersKeep DEF IndInv
<1>13. ASSUME NEW x \in Workers, Saves(x)', job'[x].calm
       PROVE /\ \A y \in Workers \ {x} : Saves(y)' => job'[y].s # job'[x].s
             /\ \A i \in 1..job'[x].at : store'[ChunkId(job'[x].s, i)] = Part(job'[x].cut, i)
  <2>1. x # w
    BY <1>3, <1>12, <1>13 DEF Saves
  <2>2. \A i \in 1..job[x].at : store'[ChunkId(job[x].s, i)] = store[ChunkId(job[x].s, i)]
    BY <1>5
  <2> QED
    BY <1>3, <1>4, <1>13, <2>1, <2>2, OthersUndisturbed DEF IndInv
<1>14. Undisturbed'
  BY <1>13 DEF Undisturbed
<1>15. ASSUME NEW u \in Secrets, good'[u] # Absent
       PROVE /\ ram'[u] = good'[u].n /\ disk'[u] = good'[u].n
             /\ \A i \in 1..good'[u].n : store'[ChunkId(u, i)] = Part(good'[u], i)
  <2>1. CASE u = s
    <3>1. good'[u] = job[w].cut /\ job[w].calm /\ disk' = ram'
      BY <1>2, <1>5, <1>15, <2>1 DEF IndInv, TypeOK
    <3>2. ram'[u] = n
      BY <1>2, <1>5, <2>1 DEF IndInv, TypeOK
    <3>3. \A i \in 1..n : store[ChunkId(s, i)] = Part(job[w].cut, i)
      BY <1>1, <3>1 DEF IndInv, Undisturbed
    <3> QED
      BY <1>1, <1>5, <2>1, <3>1, <3>2, <3>3
  <2>2. CASE u # s
    <3>1. good'[u] = good[u] /\ ram'[u] = ram[u] /\ disk'[u] \in {ram[u], disk[u]}
      BY <1>2, <1>5, <2>2 DEF IndInv, TypeOK
    <3>2. /\ ram[u] = good[u].n /\ disk[u] = good[u].n
          /\ \A i \in 1..good[u].n : store[ChunkId(u, i)] = Part(good[u], i)
      BY <1>15, <3>1 DEF IndInv, SavedIsReadable
    <3> QED
      BY <1>5, <3>1, <3>2
  <2> QED
    BY <2>1, <2>2
<1>16. SavedIsReadable'
  BY <1>15 DEF SavedIsReadable, ChunkId
<1> QED
  BY <1>11, <1>14, <1>16 DEF IndInv

LEMMA AddTenantStep ==
    ASSUME IndInv, NEW t \in Tenants, AddTenant(t)
    PROVE IndInv'
<1>1. /\ ram' = [s \in Secrets |-> IF TenantOf[s] = t THEN Unlisted ELSE ram[s]]
      /\ good' = [s \in Secrets |-> IF TenantOf[s] = t THEN Absent ELSE good[s]]
      /\ disk' = ram' \/ disk' = disk
      /\ UNCHANGED <<store, job>>
  BY DEF AddTenant, Seal, SealFails
<1>2. ram' \in [Secrets -> {Unlisted} \union (0..MaxParts)]
  BY <1>1 DEF IndInv, TypeOK
<1>3. disk' \in [Secrets -> {Unlisted} \union (0..MaxParts)]
  BY <1>1, <1>2 DEF IndInv, TypeOK
<1>4. good' \in [Secrets -> Cuts \union {Absent}]
  BY <1>1 DEF IndInv, TypeOK
<1>5. faults' \in Nat
  BY DEF AddTenant, Seal, SealFails, Fault, IndInv, TypeOK
<1>6. TypeOK'
  BY <1>1, <1>2, <1>3, <1>4, <1>5 DEF IndInv, TypeOK, AddTenant, given
<1>7. Undisturbed'
  BY <1>1 DEF IndInv, Undisturbed, Saves, ChunkId
<1>8. ASSUME NEW u \in Secrets, good'[u] # Absent
      PROVE /\ ram'[u] = good'[u].n /\ disk'[u] = good'[u].n
            /\ \A i \in 1..good'[u].n : store'[ChunkId(u, i)] = Part(good'[u], i)
  <2>1. TenantOf[u] # t /\ good'[u] = good[u] /\ ram'[u] = ram[u]
    BY <1>1, <1>8
  <2>2. /\ ram[u] = good[u].n /\ disk[u] = good[u].n
        /\ \A i \in 1..good[u].n : store[ChunkId(u, i)] = Part(good[u], i)
    BY <1>8, <2>1 DEF IndInv, SavedIsReadable
  <2>3. disk'[u] = good[u].n
    BY <1>1, <2>1, <2>2
  <2> QED
    BY <1>1, <2>1, <2>2, <2>3
<1>9. SavedIsReadable'
  BY <1>8 DEF SavedIsReadable, ChunkId
<1> QED
  BY <1>6, <1>7, <1>9 DEF IndInv

LEMMA CrashStep ==
    ASSUME IndInv, Crash
    PROVE IndInv'
<1> DEFINE Writers == {w \in Workers : driver = "local_fs" /\ Saving(w)}
<1>1. PICK cut \in SUBSET Writers :
        /\ store' = [c \in Chunks |-> IF c \in {Target(w) : w \in cut} THEN Torn ELSE store[c]]
        /\ good' = [s \in Secrets |-> IF \E w \in cut : job[w].s = s THEN Absent ELSE good[s]]
        /\ lost' = lost \union {job[w].s : w \in cut}
  BY DEF Crash
<1>2. ram' = disk /\ disk' = disk /\ job' = [w \in Workers |-> Idle(w)] /\ faults' \in Nat
  BY DEF Crash, Fault, IndInv, TypeOK
<1>3. \A w \in Workers : Idle(w) \in Jobs /\ Idle(w).op = "idle"
  BY IdleFacts DEF IndInv
<1>4. \A w \in cut : w \in Workers /\ Saving(w) /\ job[w].s \in Secrets /\ job[w].at + 1 \in 1..MaxParts
  BY TargetFacts DEF IndInv
<1>5. store' \in [Chunks -> Parts \union {Absent, Torn, Noise}]
  BY <1>1 DEF IndInv, TypeOK
<1>6. good' \in [Secrets -> Cuts \union {Absent}] /\ lost' \subseteq Secrets
  BY <1>1, <1>4 DEF IndInv, TypeOK
<1>7. disk \in [Secrets -> {Unlisted} \union (0..MaxParts)]
  BY DEF IndInv, TypeOK
<1>8. TypeOK'
  BY <1>2, <1>3, <1>5, <1>6, <1>7 DEF IndInv, TypeOK, Crash, given
<1>9. Undisturbed'
  BY <1>2, <1>3 DEF Undisturbed, Saves
<1>10. ASSUME NEW u \in Secrets, good'[u] # Absent
       PROVE /\ ram'[u] = good'[u].n /\ disk'[u] = good'[u].n
             /\ \A i \in 1..good'[u].n : store'[ChunkId(u, i)] = Part(good'[u], i)
  <2>1. good'[u] = good[u] /\ \A w \in cut : job[w].s # u
    BY <1>1, <1>10
  <2>2. /\ disk[u] = good[u].n /\ \A i \in 1..good[u].n : store[ChunkId(u, i)] = Part(good[u], i)
    BY <1>10, <2>1 DEF IndInv, SavedIsReadable
  <2>3. good[u] \in Cuts
    BY <1>10, <2>1 DEF IndInv, TypeOK
  <2>4. good[u].n \in 0..MaxParts
    BY <2>3, CutFacts
  <2>5. ASSUME NEW i \in 1..good[u].n PROVE store'[ChunkId(u, i)] = Part(good[u], i)
    <3>1. i \in 1..MaxParts /\ i \in Nat
      BY <2>4, StorageAssumption DEF StorageAssumption
    <3>2. ChunkId(u, i) \in Chunks
      BY <3>1, ChunkIn
    <3>3. ASSUME NEW w \in cut PROVE Target(w) # ChunkId(u, i)
      <4>1. job[w].at + 1 \in Nat
        BY <1>4, StorageAssumption DEF StorageAssumption
      <4> QED
        BY <1>4, <2>1, <3>1, <4>1, ChunkFacts DEF Target
    <3>4. store'[ChunkId(u, i)] = store[ChunkId(u, i)]
      BY <1>1, <3>2, <3>3
    <3> QED
      BY <2>2, <3>4
  <2> QED
    BY <1>2, <2>1, <2>2, <2>5
<1>11. SavedIsReadable'
  BY <1>10 DEF SavedIsReadable, ChunkId
<1> QED
  BY <1>8, <1>9, <1>11 DEF IndInv

LEMMA InitHolds == Init => IndInv
<1> SUFFICES ASSUME Init PROVE IndInv
  OBVIOUS
<1>1. NoCut \in Cuts /\ 0 \in Nat /\ FALSE \in BOOLEAN
  BY DEF Cuts
<1>2. PICK s \in Secrets : job = [w \in Workers |-> Job("idle", s, NoCut, 0, FALSE)]
  BY DEF Init
<1>3. \A w \in Workers : job[w] \in Jobs /\ job[w].op = "idle"
  BY <1>1, <1>2 DEF Job, Jobs
<1>4. job \in [Workers -> Jobs]
  BY <1>2, <1>3
<1>5. {ram, disk} \subseteq [Secrets -> {Unlisted} \union (0..MaxParts)]
  BY DEF Init, Unlisted
<1>6. TypeOK
  BY <1>3, <1>4, <1>5 DEF Init, TypeOK
<1>7. Undisturbed
  BY <1>3 DEF Undisturbed, Saves
<1>8. SavedIsReadable
  BY DEF Init, SavedIsReadable
<1> QED
  BY <1>6, <1>7, <1>8 DEF IndInv

LEMMA StepHolds ==
    ASSUME IndInv, [Next]_vars
    PROVE IndInv'
<1>1. ASSUME NEW w \in Workers, Step(w) PROVE IndInv'
  BY <1>1, WritePartStep, WriteFailsStep, UpdateIndexStep, ReadPartStep, ReturnStep, WipeStep
     DEF Step
<1>2. ASSUME NEW w \in Workers, NEW s \in Secrets, Begin(w, s) PROVE IndInv'
  BY <1>2, BeginSaveStep, BeginReadStep, BeginPurgeStep DEF Begin
<1>3. ASSUME NEW t \in Tenants, AddTenant(t) PROVE IndInv'
  BY <1>3, AddTenantStep
<1>4. CASE Crash
  BY <1>4, CrashStep
<1>5. CASE UNCHANGED vars
  BY <1>5 DEF vars, given, index, bounds, IndInv, TypeOK, Undisturbed, SavedIsReadable, Saves,
              ChunkId
<1> QED
  BY <1>1, <1>2, <1>3, <1>4, <1>5 DEF Next

-----------------------------------------------------------------------------
\* The inductive invariant of the store of parts.
THEOREM Inductive == Spec => []IndInv
<1>1. IndInv /\ [Next]_vars => IndInv'
  BY StepHolds
<1> QED
  BY <1>1, InitHolds, PTL DEF Spec

\* The variables keep their types: parts are written one after the other, up
\* to the number the chunker made, whatever else is at the store.
THEOREM TypeCorrect == Spec => []TypeOK
<1>1. IndInv => TypeOK
  BY DEF IndInv
<1> QED
  BY <1>1, Inductive, PTL

\* What a save that nothing disturbed has stored is listed, here and on disk,
\* and every part of it is there, however many workers save, read and purge,
\* and wherever the process dies (save_secret, retrieve_secret, update_index).
THEOREM SavedReadable == Spec => []SavedIsReadable
<1>1. IndInv => SavedIsReadable
  BY DEF IndInv
<1> QED
  BY <1>1, Inductive, PTL

-----------------------------------------------------------------------------
\* What is indexed is stored: the parts that a save has written so far are
\* there, unless the secret has lost one.

Written ==
    \A w \in Workers : Saves(w) /\ job[w].s \notin lost =>
        \A i \in 1..job[w].at : store[ChunkId(job[w].s, i)] \in Parts

LEMMA InRange ==
    ASSUME TypeOK, NEW w \in Workers, Saves(w), NEW i \in 1..job[w].at
    PROVE job[w].s \in Secrets /\ i \in 1..MaxParts /\ i \in Nat
<1>1. /\ job[w].s \in Secrets /\ job[w].cut \in Cuts /\ job[w].at \in Nat
      /\ job[w].at <= job[w].n /\ job[w].n = job[w].cut.n
  BY DEF TypeOK, Jobs, Saves
<1>2. job[w].cut.n \in 0..MaxParts
  BY <1>1, CutFacts
<1> QED
  BY <1>1, <1>2, StorageAssumption DEF StorageAssumption

LEMMA Elsewhere ==
    ASSUME TypeOK, NEW s \in Secrets, NEW k \in Nat, OneTouched(s, k),
           NEW u \in Secrets, NEW i \in 1..MaxParts, u # s
    PROVE store'[ChunkId(u, i)] = store[ChunkId(u, i)]
<1>1. i \in Nat
  BY StorageAssumption DEF StorageAssumption
<1>2. ChunkId(u, i) # ChunkId(s, k)
  BY <1>1, ChunkFacts
<1>3. ChunkId(u, i) \in Chunks
  BY ChunkIn
<1> QED
  BY <1>2, <1>3 DEF OneTouched, TypeOK

\* A call that writes nothing, and is no save unless it has just begun.
LEMMA StoredByCall ==
    ASSUME TypeOK, Written, IndexedIsStored, NEW w \in Workers, NEW j \in Jobs,
           Become(w, j) \/ Upset(w, j), j.op = "save" => j.at = 0,
           UNCHANGED <<store, index, lost>>
    PROVE Written' /\ IndexedIsStored'
<1>1. job'[w] = j /\ \A x \in Workers \ {w} : Same(x)
  BY OthersKeep
<1>2. ASSUME NEW x \in Workers, Saves(x)', job'[x].s \notin lost', NEW i \in 1..job'[x].at
      PROVE store'[ChunkId(job'[x].s, i)] \in Parts
  <2>1. CASE x = w
    BY <1>1, <1>2, <2>1 DEF Saves
  <2>2. CASE x # w
    BY <1>1, <1>2, <2>2 DEF Written, Saves, Same, ChunkId
  <2> QED
    BY <2>1, <2>2
<1>3. Written'
  BY <1>2 DEF Written
<1>4. IndexedIsStored'
  BY DEF IndexedIsStored, index, ChunkId
<1> QED
  BY <1>3, <1>4

\* A part that is lost.
LEMMA StoredByLoss ==
    ASSUME TypeOK, Written, IndexedIsStored, NEW w \in Workers, NEW j \in Jobs,
           Become(w, j) \/ Upset(w, j), NEW s \in Secrets, NEW k \in Nat, j.s = s,
           OneTouched(s, k), Spoils(s), lost' = lost \union {s}
    PROVE Written' /\ IndexedIsStored'
<1>1. job'[w] = j /\ \A x \in Workers \ {w} : Same(x)
  BY OthersKeep
<1>2. ASSUME NEW x \in Workers, Saves(x)', job'[x].s \notin lost', NEW i \in 1..job'[x].at
      PROVE store'[ChunkId(job'[x].s, i)] \in Parts
  <2>1. x # w /\ Same(x) /\ Saves(x) /\ job[x].s \notin lost /\ job[x].s # s
    BY <1>1, <1>2 DEF Saves, Same
  <2>2. i \in 1..job[x].at /\ store[ChunkId(job[x].s, i)] \in Parts
    BY <1>2, <2>1 DEF Same, Written
  <2>3. job[x].s \in Secrets /\ i \in 1..MaxParts
    BY <2>1, <2>2, InRange
  <2>4. store'[ChunkId(job[x].s, i)] = store[ChunkId(job[x].s, i)]
    BY <2>1, <2>3, Elsewhere
  <2> QED
    BY <2>1, <2>2, <2>4 DEF Same, ChunkId
<1>3. Written'
  BY <1>2 DEF Written
<1>4. ASSUME NEW u \in Secrets \ lost', NEW i \in 1..MaxParts, i <= ram'[u] \/ i <= disk'[u]
      PROVE store'[ChunkId(u, i)] \in Parts
  <2>1. u # s /\ u \notin lost /\ ram'[u] = ram[u] /\ disk'[u] = disk[u]
    BY DEF Spoils, index
  <2>2. store[ChunkId(u, i)] \in Parts
    BY <1>4, <2>1 DEF IndexedIsStored
  <2> QED
    BY <2>1, <2>2, Elsewhere
<1>5. IndexedIsStored'
  BY <1>4 DEF IndexedIsStored, ChunkId
<1> QED
  BY <1>3, <1>5

-----------------------------------------------------------------------------
\* What reads have gathered and purges are at, as long as they are calm: no
\* save of the same secret is under way.

Alone ==
    \A w \in Workers : job[w].calm =>
        \A x \in Workers \ {w} : Saves(x) => job[x].s # job[w].s

WholeAt(w) ==
    LET j == job[w] IN
    j.op = "read" /\ j.calm /\ good[j.s] # Absent =>
        /\ j.n = good[j.s].n /\ j.n > 0 /\ j.at <= j.n
        /\ Len(j.got) = j.at
        /\ \A i \in 1..j.at : j.got[i] = Part(good[j.s], i)

Hit(x) == Expired(x) \/ x \in {Noise, Absent}
HitAt(w) ==
    LET j == job[w] IN
    j.op = "purge" /\ j.calm => j.n \in 1..MaxParts /\ Hit(store[ChunkId(j.s, j.n)])

CallInv == /\ Written /\ IndexedIsStored
           /\ Alone /\ \A w \in Workers : WholeAt(w) /\ HitAt(w)

JoinsCalmly(w, j) ==
    /\ j.calm => Calm(j.s) \/ (job[w].calm /\ j.s = job[w].s)
    /\ j.op = "save" => Upset(w, j) \/ (Saves(w) /\ j.s = job[w].s)

GoodKept(w) ==
    \A x \in Workers \ {w} : job'[x].calm /\ job[x].op = "read" =>
        good'[job[x].s] \in {good[job[x].s], Absent}

HitKept(w) ==
    \A x \in Workers \ {w} : job'[x].calm /\ job[x].op = "purge" /\ job[x].n \in 1..MaxParts =>
        store'[ChunkId(job[x].s, job[x].n)] = store[ChunkId(job[x].s, job[x].n)]

LEMMA CallsStep ==
    ASSUME TypeOK, CallInv, NEW w \in Workers, NEW j \in Jobs, Become(w, j) \/ Upset(w, j),
           JoinsCalmly(w, j), GoodKept(w), HitKept(w), WholeAt(w)', HitAt(w)',
           Written' /\ IndexedIsStored'
    PROVE CallInv'
<1>1. job'[w] = j /\ \A x \in Workers \ {w} : Same(x)
  BY OthersKeep
<1>2. ASSUME NEW y \in Workers, job'[y].calm, NEW x \in Workers \ {y}, Saves(x)'
      PROVE job'[x].s # job'[y].s
  <2>1. CASE y = w
    <3>1. Same(x) /\ Saves(x)
      BY <1>1, <1>2, <2>1 DEF Same, Saves
    <3>2. CASE Calm(j.s)
      BY <1>1, <2>1, <3>1, <3>2 DEF Calm, Same, Saves
    <3>3. CASE job[w].calm /\ j.s = job[w].s
      BY <1>1, <2>1, <3>1, <3>3 DEF CallInv, Alone, Same
    <3> QED
      BY <1>1, <1>2, <2>1, <3>2, <3>3 DEF JoinsCalmly
  <2>2. CASE y # w /\ x = w
    <3>1. Same(y) /\ job[y].calm /\ j.op = "save"
      BY <1>1, <1>2, <2>2 DEF Same, Saves
    <3>2. CASE Upset(w, j)
      BY <1>1, <1>2, <2>2, <3>1, <3>2, UpsetDisturbs DEF Same
    <3>3. CASE Saves(w) /\ j.s = job[w].s
      BY <1>1, <2>2, <3>1, <3>3 DEF CallInv, Alone, Same
    <3> QED
      BY <3>1, <3>2, <3>3 DEF JoinsCalmly
  <2>3. CASE y # w /\ x # w
    BY <1>1, <1>2, <2>3 DEF CallInv, Alone, Same, Saves
  <2> QED
    BY <2>1, <2>2, <2>3
<1>3. Alone'
  BY <1>2 DEF Alone
<1>4. ASSUME NEW x \in Workers \ {w} PROVE WholeAt(x)'
  <2>1. WholeAt(x) /\ Same(x)
    BY <1>1 DEF CallInv
  <2>2. SUFFICES ASSUME job'[x].op = "read", job'[x].calm, good'[job'[x].s] # Absent
                 PROVE /\ job'[x].n = good'[job'[x].s].n /\ job'[x].n > 0
                       /\ job'[x].at <= job'[x].n
                       /\ Len(job'[x].got) = job'[x].at
                       /\ \A i \in 1..job'[x].at : job'[x].got[i] = Part(good'[job'[x].s], i)
    BY DEF WholeAt
  <2>3. job[x].op = "read" /\ job[x].calm /\ good'[job'[x].s] = good[job[x].s]
    BY <2>1, <2>2 DEF Same, GoodKept
  <2> QED
    BY <2>1, <2>2, <2>3 DEF WholeAt, Same
<1>5. ASSUME NEW x \in Workers \ {w} PROVE HitAt(x)'
  <2>1. HitAt(x) /\ Same(x)
    BY <1>1 DEF CallInv
  <2>2. SUFFICES ASSUME job'[x].op = "purge", job'[x].calm
                 PROVE /\ job'[x].n \in 1..MaxParts
                       /\ Hit(store'[ChunkId(job'[x].s, job'[x].n)])
    BY DEF HitAt, Hit, Expired, Parts, ChunkId
  <2>3. job[x].n \in 1..MaxParts /\ Hit(store[ChunkId(job[x].s, job[x].n)])
    BY <2>1, <2>2 DEF HitAt, Same
  <2>4. store'[ChunkId(job[x].s, job[x].n)] = store[ChunkId(job[x].s, job[x].n)]
    BY <2>1, <2>2, <2>3 DEF HitKept, Same
  <2> QED
    BY <2>1, <2>3, <2>4 DEF Same
<1>6. \A x \in Workers : WholeAt(x)' /\ HitAt(x)'
  BY <1>4, <1>5
<1> QED
  BY <1>3, <1>6 DEF CallInv

LEMMA SpoilsKeepsGood ==
    ASSUME TypeOK, NEW w \in Workers, NEW s \in Secrets, Spoils(s)
    PROVE GoodKept(w)
  BY DEF TypeOK, Jobs, Spoils, GoodKept

LEMMA TouchKeepsHits ==
    ASSUME TypeOK, NEW w \in Workers, NEW s \in Secrets, NEW k \in Nat, OneTouched(s, k),
           \A x \in Workers \ {w} : job'[x].calm => job[x].s # s
    PROVE HitKept(w)
<1> SUFFICES ASSUME NEW x \in Workers \ {w}, job'[x].calm, job[x].n \in 1..MaxParts
             PROVE store'[ChunkId(job[x].s, job[x].n)] = store[ChunkId(job[x].s, job[x].n)]
  BY DEF HitKept
<1>1. job[x].s \in Secrets
  BY DEF TypeOK, Jobs
<1> QED
  BY <1>1, Elsewhere

\* A call of w that leaves store and index alone.
LEMMA CallsAfterNoWrite ==
    ASSUME TypeOK, CallInv, NEW w \in Workers, NEW j \in Jobs, Become(w, j) \/ Upset(w, j),
           JoinsCalmly(w, j), WholeAt(w)', HitAt(w)', j.op = "save" => j.at = 0,
           UNCHANGED <<store, index, good, lost>>
    PROVE CallInv'
<1>1. GoodKept(w) /\ HitKept(w)
  BY DEF GoodKept, HitKept
<1>2. Written' /\ IndexedIsStored'
  BY StoredByCall DEF CallInv
<1> QED
  BY <1>1, <1>2, CallsStep

\* The call of w ends, and it is none any more.
LEMMA CallsAfterEnd ==
    ASSUME IndInv, CallInv, NEW w \in Workers, Rest(w), UNCHANGED <<store, index, good, lost>>
    PROVE CallInv'
<1> DEFINE j == Idle(w)
<1>1. j \in Jobs /\ j.op = "idle" /\ ~j.calm /\ Become(w, j)
  BY IdleFacts DEF IndInv, Rest
<1> HIDE DEF j
<1>2. job'[w] = j
  BY <1>1, OthersKeep DEF IndInv
<1>3. JoinsCalmly(w, j) /\ WholeAt(w)' /\ HitAt(w)'
  BY <1>1, <1>2 DEF JoinsCalmly, WholeAt, HitAt
<1> QED
  BY <1>1, <1>3, CallsAfterNoWrite DEF IndInv

LEMMA CallsAfterBeginSave ==
    ASSUME IndInv, CallInv, NEW w \in Workers, NEW s \in Secrets, NEW c \in Cuts,
           BeginSave(w, s, c)
    PROVE CallInv'
<1> DEFINE j == Job("save", s, c, c.n, Calm(s))
<1>1. c.n \in Nat /\ Calm(s) \in BOOLEAN
  BY CutFacts, StorageAssumption DEF Calm, StorageAssumption
<1>2. j \in Jobs /\ j.op = "save" /\ j.s = s /\ j.at = 0 /\ j.calm = Calm(s)
  BY <1>1 DEF Job, Jobs
<1>3. Upset(w, j)
  BY DEF BeginSave
<1> HIDE DEF j
<1>4. job'[w] = j
  BY <1>2, <1>3, OthersKeep DEF IndInv
<1>5. JoinsCalmly(w, j) /\ WholeAt(w)' /\ HitAt(w)'
  BY <1>2, <1>3, <1>4 DEF JoinsCalmly, WholeAt, HitAt
<1> QED
  BY <1>2, <1>3, <1>5, CallsAfterNoWrite DEF IndInv, BeginSave

LEMMA CallsAfterBeginRead ==
    ASSUME IndInv, CallInv, NEW w \in Workers, NEW s \in Secrets, BeginRead(w, s)
    PROVE CallInv'
<1> DEFINE j == Job("read", s, NoCut, ram[s], Calm(s))
<1>1. NoCut \in Cuts /\ Calm(s) \in BOOLEAN /\ ram[s] > 0
  BY DEF Cuts, Calm, BeginRead
<1>2. ram[s] \in Nat
  BY StorageAssumption DEF IndInv, TypeOK, BeginRead, Unlisted, StorageAssumption
<1>3. /\ j \in Jobs /\ j.op = "read" /\ j.s = s /\ j.at = 0 /\ j.n = ram[s]
      /\ j.calm = Calm(s) /\ j.got = <<>>
  BY <1>1, <1>2 DEF Job, Jobs
<1>4. Become(w, j)
  BY DEF BeginRead
<1> HIDE DEF j
<1>5. job'[w] = j
  BY <1>3, <1>4, OthersKeep DEF IndInv
<1>6. good[s] # Absent => ram[s] = good[s].n
  BY DEF IndInv, SavedIsReadable
<1>7. WholeAt(w)'
  BY <1>1, <1>2, <1>3, <1>5, <1>6 DEF WholeAt, BeginRead
<1>8. JoinsCalmly(w, j) /\ HitAt(w)'
  BY <1>3, <1>5 DEF JoinsCalmly, HitAt
<1> QED
  BY <1>3, <1>4, <1>7, <1>8, CallsAfterNoWrite DEF IndInv, BeginRead

LEMMA CallsAfterReadPart ==
    ASSUME IndInv, CallInv, NEW w \in Workers, ReadPart(w)
    PROVE CallInv'
<1>1. CASE ~Deserializes(store[Target(w)])
  BY <1>1, CallsAfterEnd DEF ReadPart
<1>2. CASE Deserializes(store[Target(w)])
  <2> DEFINE c == store[Target(w)]
             g == Append(job[w].got, c)
             j == [job[w] EXCEPT !.at = job[w].at + 1, !.got = g]
  <2>1. job[w] \in Jobs /\ job[w].op = "read" /\ job[w].at < job[w].n
    BY DEF IndInv, TypeOK, ReadPart
  <2>2. /\ job[w].at \in Nat /\ job[w].n \in Nat /\ job[w].s \in Secrets /\ g \in Seq(Parts)
        /\ job[w].at + 1 \in Nat /\ job[w].got \in Seq(Parts)
    BY <1>2, <2>1 DEF Jobs, Deserializes
  <2> HIDE DEF c, g
  <2>3. /\ j \in Jobs /\ j.op = "read" /\ j.s = job[w].s /\ j.at = job[w].at + 1
        /\ j.n = job[w].n /\ j.got = g /\ j.calm = job[w].calm
    BY <2>1, <2>2 DEF Jobs
  <2>4. Become(w, j)
    BY <1>2 DEF ReadPart, c, g
  <2> HIDE DEF j
  <2>5. job'[w] = j
    BY <2>3, <2>4, OthersKeep DEF IndInv
  <2>6. UNCHANGED <<store, index, good, lost>>
    BY DEF ReadPart
  <2>7. ASSUME j.calm, good[j.s] # Absent
        PROVE /\ j.n = good[j.s].n /\ j.n > 0 /\ j.at <= j.n /\ Len(j.got) = j.at
              /\ \A i \in 1..j.at : j.got[i] = Part(good[j.s], i)
    <3>1. /\ job[w].n = good[j.s].n /\ Len(job[w].got) = job[w].at
          /\ \A i \in 1..job[w].at : job[w].got[i] = Part(good[j.s], i)
      BY <2>1, <2>3, <2>7 DEF CallInv, WholeAt
    <3>2. job[w].at + 1 \in 1..good[j.s].n
      BY <2>1, <2>2, <3>1
    <3>3. c = Part(good[j.s], job[w].at + 1)
      BY <2>2, <2>3, <2>7, <3>2 DEF IndInv, SavedIsReadable, Target, c
    <3>4. Len(g) = job[w].at + 1 /\ \A i \in 1..job[w].at + 1 : g[i] = Part(good[j.s], i)
      BY <2>2, <3>1, <3>3, AppendProperties DEF g
    <3> QED
      BY <2>1, <2>2, <2>3, <3>1, <3>2, <3>4
  <2>8. WholeAt(w)'
    BY <2>3, <2>5, <2>6, <2>7 DEF WholeAt
  <2>9. JoinsCalmly(w, j) /\ HitAt(w)'
    BY <2>3, <2>5 DEF JoinsCalmly, HitAt
  <2> QED
    BY <2>3, <2>4, <2>6, <2>8, <2>9, CallsAfterNoWrite DEF IndInv
<1> QED
  BY <1>1, <1>2

LEMMA CallsAfterBeginPurge ==
    ASSUME IndInv, CallInv, NEW w \in Workers, NEW s \in Secrets, NEW i \in 1..MaxParts,
           BeginPurge(w, s, i)
    PROVE CallInv'
<1> DEFINE j == Job("purge", s, NoCut, i, Calm(s))
<1>1. NoCut \in Cuts /\ Calm(s) \in BOOLEAN /\ i \in Nat
  BY StorageAssumption DEF Cuts, Calm, StorageAssumption
<1>2. UNCHANGED <<store, index, good, lost>>
  BY DEF BeginPurge
<1>3. Become(w, j)
  BY DEF BeginPurge
<1>4. /\ j \in Jobs /\ j.op = "purge" /\ j.s = s /\ j.n = i /\ j.calm = Calm(s)
  BY <1>1 DEF Job, Jobs
<1> HIDE DEF j
<1>5. job'[w] = j
  BY <1>3, <1>4, OthersKeep DEF IndInv
<1>6. HitAt(w)'
  BY <1>2, <1>4, <1>5 DEF HitAt, Hit, BeginPurge, Expired, Parts, ChunkId
<1>7. JoinsCalmly(w, j) /\ WholeAt(w)'
  BY <1>4, <1>5 DEF JoinsCalmly, WholeAt
<1> QED
  BY <1>2, <1>3, <1>4, <1>6, <1>7, CallsAfterNoWrite DEF IndInv

LEMMA CallsAfterWritePart ==
    ASSUME IndInv, CallInv, NEW w \in Workers, WritePart(w)
    PROVE CallInv'
<1> DEFINE s == job[w].s
           k == job[w].at + 1
           j == [job[w] EXCEPT !.at = job[w].at + 1]
<1>1. Saving(w) /\ job[w] \in Jobs /\ job[w].op = "save" /\ Saves(w)
  BY DEF IndInv, TypeOK, WritePart, Saving, Saves
<1>2. /\ k \in 1..MaxParts /\ Target(w) \in Chunks /\ Target(w) = ChunkId(s, k)
      /\ s \in Secrets /\ job[w].cut \in Cuts /\ job[w].at \in Nat /\ k \in Nat
  BY <1>1, TargetFacts DEF IndInv, Target
<1>3. /\ j \in Jobs /\ j.op = "save" /\ j.s = s /\ j.at = k /\ j.calm = job[w].calm
  BY <1>1, <1>2 DEF Jobs
<1>4. Become(w, j)
  BY DEF WritePart, Proceed
<1>5. /\ store' = [store EXCEPT ![ChunkId(s, k)] = Part(job[w].cut, k)] /\ OneTouched(s, k)
      /\ Spoils(s) /\ UNCHANGED lost /\ Part(job[w].cut, k) \in Parts
  <2>1. Part(job[w].cut, k) \in Parts
    BY <1>1, <1>2, TargetFacts, PartFacts DEF IndInv
  <2> QED
    BY <1>2, <2>1 DEF WritePart, OneTouched, Spoils
<1>6. k = job[w].at + 1
  OBVIOUS
<1> HIDE DEF j, s, k
<1>7. job'[w] = j /\ \A x \in Workers \ {w} : Same(x)
  BY <1>3, <1>4, OthersKeep DEF IndInv
<1>8. ASSUME NEW c \in Chunks, store[c] \in Parts PROVE store'[c] \in Parts
  BY <1>2, <1>5, <1>8 DEF IndInv, TypeOK
<1>9. ASSUME NEW x \in Workers, Saves(x)', job'[x].s \notin lost', NEW i \in 1..job'[x].at
      PROVE store'[ChunkId(job'[x].s, i)] \in Parts
  <2>1. Saves(x) /\ job'[x].s = job[x].s /\ job[x].s \notin lost
    BY <1>1, <1>3, <1>5, <1>7, <1>9 DEF Saves, Same, s
  <2>2. CASE i \in 1..job[x].at
    <3>1. ChunkId(job[x].s, i) \in Chunks
      BY <2>1, <2>2, InRange, ChunkIn DEF IndInv
    <3>2. store[ChunkId(job[x].s, i)] \in Parts
      BY <2>1, <2>2 DEF CallInv, Written
    <3> QED
      BY <1>8, <2>1, <3>1, <3>2 DEF ChunkId
  <2>3. CASE i \notin 1..job[x].at
    <3>1. x = w
      BY <1>7, <1>9, <2>3 DEF Same
    <3>2. i = k
      BY <1>2, <1>3, <1>6, <1>7, <1>9, <2>3, <3>1
    <3>3. ChunkId(s, k) \in Chunks
      BY <1>2
    <3> QED
      BY <1>2, <1>5, <2>1, <3>1, <3>2, <3>3 DEF IndInv, TypeOK, s, ChunkId
  <2> QED
    BY <2>2, <2>3
<1>10. Written'
  BY <1>9 DEF Written
<1>11. ASSUME NEW u \in Secrets \ lost', NEW i \in 1..MaxParts, i <= ram'[u] \/ i <= disk'[u]
       PROVE store'[ChunkId(u, i)] \in Parts
  <2>1. store[ChunkId(u, i)] \in Parts
    BY <1>5, <1>11 DEF CallInv, IndexedIsStored, Spoils, index
  <2> QED
    BY <1>8, <2>1, ChunkIn
<1>12. IndexedIsStored'
  BY <1>11 DEF IndexedIsStored, ChunkId
<1>13. \A x \in Workers \ {w} : job'[x].calm => job[x].s # s
  BY <1>1, <1>7 DEF CallInv, Alone, Same, s
<1>14. GoodKept(w) /\ HitKept(w)
  BY <1>2, <1>5, <1>13, SpoilsKeepsGood, TouchKeepsHits DEF IndInv
<1>15. JoinsCalmly(w, j) /\ WholeAt(w)' /\ HitAt(w)'
  BY <1>1, <1>3, <1>7 DEF JoinsCalmly, WholeAt, HitAt, s
<1> QED
  BY <1>3, <1>4, <1>10, <1>12, <1>14, <1>15, CallsStep DEF IndInv

LEMMA CallsAfterWriteFails ==
    ASSUME IndInv, CallInv, NEW w \in Workers, WriteFails(w)
    PROVE CallInv'
<1> DEFINE s == job[w].s
           k == job[w].at + 1
           j == [job[w] EXCEPT !.at = job[w].at + 1, !.calm = FALSE]
<1>1. Saving(w) /\ job[w] \in Jobs /\ job[w].op = "save" /\ Saves(w)
  BY DEF IndInv, TypeOK, WriteFails, Saving, Saves
<1>2. /\ Target(w) = ChunkId(s, k) /\ s \in Secrets /\ job[w].at \in Nat /\ k \in Nat
  BY <1>1, TargetFacts DEF IndInv, Target
<1>3. j \in Jobs /\ j.op = "save" /\ j.s = s /\ ~j.calm
  <2>1. job[w].at + 1 \in Nat /\ FALSE \in BOOLEAN
    BY <1>2
  <2> QED
    BY <1>1, <2>1 DEF Jobs
<1>4. Become(w, j)
  BY DEF WriteFails
<1>5. OneTouched(s, k) /\ Spoils(s) /\ lost' = lost \union {s}
  BY <1>2 DEF WriteFails, OneTouched, Spoils
<1> HIDE DEF j, s, k
<1>6. job'[w] = j /\ \A x \in Workers \ {w} : Same(x)
  BY <1>3, <1>4, OthersKeep DEF IndInv
<1>7. Written' /\ IndexedIsStored'
  BY <1>2, <1>3, <1>4, <1>5, StoredByLoss DEF IndInv, CallInv
<1>8. \A x \in Workers \ {w} : job'[x].calm => job[x].s # s
  BY <1>1, <1>6 DEF CallInv, Alone, Same, s
<1>9. GoodKept(w) /\ HitKept(w)
  BY <1>2, <1>5, <1>8, SpoilsKeepsGood, TouchKeepsHits DEF IndInv
<1>10. JoinsCalmly(w, j) /\ WholeAt(w)' /\ HitAt(w)'
  BY <1>1, <1>3, <1>6 DEF JoinsCalmly, WholeAt, HitAt, s
<1> QED
  BY <1>3, <1>4, <1>7, <1>9, <1>10, CallsStep DEF IndInv

LEMMA CallsAfterWipe ==
    ASSUME IndInv, CallInv, NEW w \in Workers, Wipe(w)
    PROVE CallInv'
<1> DEFINE s == job[w].s
           k == job[w].n
           j == IF job[w].at < 2 THEN [job[w] EXCEPT !.at = job[w].at + 1] ELSE Idle(w)
           c == IF job[w].at < 2 THEN Noise ELSE Absent
<1>1. job[w] \in Jobs /\ job[w].op = "purge"
  BY DEF IndInv, TypeOK, Wipe
<1>2. s \in Secrets /\ k \in Nat
  BY <1>1 DEF Jobs
<1>3. /\ j \in Jobs /\ j.op # "save" /\ j.op # "read" /\ j.s = s
      /\ j.calm => job[w].calm /\ j.n = k
  <2>1. CASE job[w].at < 2
    BY <1>1, <2>1 DEF Jobs
  <2>2. CASE ~(job[w].at < 2)
    BY <2>2, IdleFacts DEF IndInv
  <2> QED
    BY <2>1, <2>2
<1>4. Upset(w, j)
  BY DEF Wipe
<1>5. store' = [store EXCEPT ![ChunkId(s, k)] = c] /\ c \in {Noise, Absent}
  BY DEF Wipe
<1>6. OneTouched(s, k) /\ Spoils(s) /\ lost' = lost \union {s}
  BY <1>5 DEF Wipe, OneTouched, Spoils
<1> HIDE DEF s, k, j, c
<1>7. job'[w] = j
  BY <1>3, <1>4, OthersKeep DEF IndInv
<1>8. Written' /\ IndexedIsStored'
  BY <1>2, <1>3, <1>4, <1>6, StoredByLoss DEF IndInv, CallInv
<1>9. \A x \in Workers \ {w} : job'[x].calm => job[x].s # s
  BY <1>3, <1>4, UpsetDisturbs DEF IndInv
<1>10. GoodKept(w) /\ HitKept(w)
  BY <1>2, <1>6, <1>9, SpoilsKeepsGood, TouchKeepsHits DEF IndInv
<1>11. ASSUME j.calm PROVE k \in 1..MaxParts /\ store'[ChunkId(s, k)] \in {Noise, Absent}
  <2>1. k \in 1..MaxParts
    BY <1>1, <1>3, <1>11 DEF CallInv, HitAt, k
  <2>2. ChunkId(s, k) \in Chunks
    BY <1>2, <2>1, ChunkIn
  <2> QED
    BY <1>5, <2>1, <2>2 DEF IndInv, TypeOK
<1>12. HitAt(w)'
  BY <1>3, <1>7, <1>11 DEF HitAt, Hit, ChunkId
<1>13. JoinsCalmly(w, j) /\ WholeAt(w)'
  BY <1>3, <1>7 DEF JoinsCalmly, WholeAt, s
<1> QED
  BY <1>3, <1>4, <1>8, <1>10, <1>12, <1>13, CallsStep DEF IndInv

LEMMA CallsAfterUpdateIndex ==
    ASSUME IndInv, CallInv, NEW w \in Workers, UpdateIndex(w)
    PROVE CallInv'
<1> DEFINE s == job[w].s
           n == job[w].n
           j == Idle(w)
<1>1. job[w] \in Jobs /\ Saves(w) /\ job[w].at = n /\ s \in Secrets /\ n \in Nat
  BY DEF IndInv, TypeOK, UpdateIndex, Saves, Jobs
<1>2. j \in Jobs /\ j.op = "idle" /\ ~j.calm
  BY IdleFacts DEF IndInv
<1>3. Become(w, j)
  BY DEF UpdateIndex, Rest
<1>4. /\ ram' = [ram EXCEPT ![s] = n]
      /\ disk' = ram' \/ disk' = disk
      /\ UNCHANGED <<store, lost>>
      /\ good' = [good EXCEPT ![s] = good'[s]]
  BY DEF UpdateIndex, Seal, SealFails, IndInv, TypeOK
<1> HIDE DEF s, n, j
<1>5. job'[w] = j /\ \A x \in Workers \ {w} : Same(x)
  BY <1>2, <1>3, OthersKeep DEF IndInv
<1>6. ASSUME NEW x \in Workers, Saves(x)', job'[x].s \notin lost', NEW i \in 1..job'[x].at
      PROVE store'[ChunkId(job'[x].s, i)] \in Parts
  <2>1. x # w /\ Saves(x) /\ Same(x)
    BY <1>2, <1>5, <1>6 DEF Saves, Same
  <2> QED
    BY <1>4, <1>6, <2>1 DEF CallInv, Written, Same, ChunkId
<1>7. Written'
  BY <1>6 DEF Written
<1>8. ASSUME NEW u \in Secrets \ lost', NEW i \in 1..MaxParts, i <= ram'[u] \/ i <= disk'[u]
      PROVE store'[ChunkId(u, i)] \in Parts
  <2>1. CASE i <= ram[u] \/ i <= disk[u]
    BY <1>4, <2>1 DEF CallInv, IndexedIsStored
  <2>2. CASE ~(i <= ram[u] \/ i <= disk[u])
    <3>1. i <= ram'[u] /\ ~(i <= ram[u])
      BY <1>4, <1>8, <2>2
    <3>2. u = s
      BY <1>4, <3>1 DEF IndInv, TypeOK
    <3>3. ram'[u] = n
      BY <1>4, <3>2 DEF IndInv, TypeOK
    <3>4. i \in 1..job[w].at
      BY <1>1, <3>1, <3>3
    <3> QED
      BY <1>1, <1>4, <3>2, <3>4 DEF CallInv, Written, s
  <2> QED
    BY <2>1, <2>2
<1>9. IndexedIsStored'
  BY <1>8 DEF IndexedIsStored, ChunkId
<1>10. ASSUME NEW x \in Workers \ {w}, job'[x].calm PROVE good'[job[x].s] = good[job[x].s]
  <2>1. job[x].s # s /\ job[x].s \in Secrets
    BY <1>1, <1>5, <1>10 DEF CallInv, Alone, Same, s, IndInv, TypeOK, Jobs
  <2> QED
    BY <1>4, <2>1 DEF IndInv, TypeOK
<1>11. GoodKept(w)
  BY <1>10 DEF GoodKept
<1>12. HitKept(w)
  BY <1>4 DEF HitKept
<1>13. JoinsCalmly(w, j) /\ WholeAt(w)' /\ HitAt(w)'
  BY <1>2, <1>5 DEF JoinsCalmly, WholeAt, HitAt
<1> QED
  BY <1>2, <1>3, <1>7, <1>9, <1>11, <1>12, <1>13, CallsStep DEF IndInv

LEMMA CallsAfterAddTenant ==
    ASSUME IndInv, CallInv, NEW t \in Tenants, AddTenant(t)
    PROVE CallInv'
<1>1. /\ ram' = [s \in Secrets |-> IF TenantOf[s] = t THEN Unlisted ELSE ram[s]]
      /\ good' = [s \in Secrets |-> IF TenantOf[s] = t THEN Absent ELSE good[s]]
      /\ disk' = ram' \/ disk' = disk
      /\ UNCHANGED <<store, job, lost>>
  BY DEF AddTenant, Seal, SealFails
<1>2. Written' /\ Alone'
  BY <1>1 DEF CallInv, Written, Alone, Saves, ChunkId
<1>3. ASSUME NEW u \in Secrets \ lost', NEW i \in 1..MaxParts, i <= ram'[u] \/ i <= disk'[u]
      PROVE store'[ChunkId(u, i)] \in Parts
  <2>1. i <= ram[u] \/ i <= disk[u]
    BY <1>1, <1>3, StorageAssumption DEF Unlisted, StorageAssumption
  <2> QED
    BY <1>1, <2>1 DEF CallInv, IndexedIsStored
<1>4. IndexedIsStored'
  BY <1>3 DEF IndexedIsStored, ChunkId
<1>5. ASSUME NEW w \in Workers PROVE WholeAt(w)' /\ HitAt(w)'
  <2>1. WholeAt(w) /\ HitAt(w) /\ job[w].s \in Secrets
    BY DEF CallInv, IndInv, TypeOK, Jobs
  <2>2. HitAt(w)'
    BY <1>1, <2>1 DEF HitAt, Hit, Expired, Parts, ChunkId
  <2>3. good'[job[w].s] \in {good[job[w].s], Absent}
    BY <1>1, <2>1
  <2>4. WholeAt(w)'
    BY <1>1, <2>1, <2>3 DEF WholeAt
  <2> QED
    BY <2>2, <2>4
<1> QED
  BY <1>2, <1>4, <1>5 DEF CallInv

LEMMA CallsAfterCrash ==
    ASSUME IndInv, CallInv, Crash
    PROVE CallInv'
<1> DEFINE Writers == {w \in Workers : driver = "local_fs" /\ Saving(w)}
<1>1. PICK cut \in SUBSET Writers :
        /\ store' = [c \in Chunks |-> IF c \in {Target(w) : w \in cut} THEN Torn ELSE store[c]]
        /\ lost' = lost \union {job[w].s : w \in cut}
  BY DEF Crash
<1>2. ram' = disk /\ disk' = disk /\ job' = [w \in Workers |-> Idle(w)]
  BY DEF Crash
<1>3. \A w \in Workers : job'[w].op = "idle" /\ ~job'[w].calm
  BY <1>2, IdleFacts DEF IndInv
<1>4. \A w \in cut : /\ w \in Workers /\ Saving(w) /\ job[w].s \in Secrets
                     /\ job[w].at + 1 \in 1..MaxParts
  BY TargetFacts DEF IndInv
<1>5. Written' /\ Alone' /\ \A w \in Workers : WholeAt(w)' /\ HitAt(w)'
  BY <1>3 DEF Written, Saves, Alone, WholeAt, HitAt
<1>6. ASSUME NEW u \in Secrets \ lost', NEW i \in 1..MaxParts, i <= ram'[u] \/ i <= disk'[u]
      PROVE store'[ChunkId(u, i)] \in Parts
  <2>1. u \notin lost /\ \A w \in cut : job[w].s # u
    BY <1>1
  <2>2. store[ChunkId(u, i)] \in Parts
    BY <1>2, <1>6, <2>1 DEF CallInv, IndexedIsStored
  <2>3. ChunkId(u, i) \in Chunks /\ i \in Nat
    BY ChunkIn, StorageAssumption DEF StorageAssumption
  <2>4. ASSUME NEW w \in cut PROVE Target(w) # ChunkId(u, i)
    <3>1. job[w].at + 1 \in Nat
      BY <1>4, StorageAssumption DEF StorageAssumption
    <3> QED
      BY <1>4, <2>1, <2>3, <3>1, ChunkFacts DEF Target
  <2> QED
    BY <1>1, <2>2, <2>3, <2>4
<1>7. IndexedIsStored'
  BY <1>6 DEF IndexedIsStored, ChunkId
<1> QED
  BY <1>5, <1>7 DEF CallInv

LEMMA InitCalls == Init => CallInv
<1> SUFFICES ASSUME Init PROVE CallInv
  OBVIOUS
<1>1. PICK s \in Secrets : job = [w \in Workers |-> Job("idle", s, NoCut, 0, FALSE)]
  BY DEF Init
<1>2. \A w \in Workers : job[w].op = "idle" /\ ~job[w].calm
  BY <1>1 DEF Job
<1>3. Written /\ Alone /\ \A w \in Workers : WholeAt(w) /\ HitAt(w)
  BY <1>2 DEF Written, Saves, Alone, WholeAt, HitAt
<1>4. ASSUME NEW u \in Secrets, NEW i \in 1..MaxParts PROVE ~(i <= ram[u] \/ i <= disk[u])
  BY StorageAssumption DEF Init, Unlisted, StorageAssumption
<1>5. IndexedIsStored
  BY <1>4 DEF IndexedIsStored
<1> QED
  BY <1>3, <1>5 DEF CallInv

LEMMA CallsHold ==
    ASSUME IndInv, CallInv, [Next]_vars
    PROVE CallInv'
<1>1. ASSUME NEW w \in Workers, Step(w) PROVE CallInv'
  <2>1. CASE Return(w)
    BY <2>1, CallsAfterEnd DEF Return
  <2> QED
    BY <1>1, <2>1, CallsAfterWritePart, CallsAfterWriteFails, CallsAfterUpdateIndex,
       CallsAfterReadPart, CallsAfterWipe DEF Step
<1>2. ASSUME NEW w \in Workers, NEW s \in Secrets, Begin(w, s) PROVE CallInv'
  BY <1>2, CallsAfterBeginSave, CallsAfterBeginRead, CallsAfterBeginPurge DEF Begin
<1>3. ASSUME NEW t \in Tenants, AddTenant(t) PROVE CallInv'
  BY <1>3, CallsAfterAddTenant
<1>4. CASE Crash
  BY <1>4, CallsAfterCrash
<1>5. CASE UNCHANGED vars
  <2>1. UNCHANGED <<store, ram, disk, job, good, lost>>
    BY <1>5 DEF vars, index
  <2>2. Written' /\ Alone' /\ IndexedIsStored'
    BY <2>1 DEF CallInv, Written, Saves, Alone, IndexedIsStored, ChunkId
  <2>3. \A w \in Workers : WholeAt(w)' /\ HitAt(w)'
    BY <2>1 DEF CallInv, WholeAt, HitAt, Hit, Expired, Parts, ChunkId
  <2> QED
    BY <2>2, <2>3 DEF CallInv
<1> QED
  BY <1>1, <1>2, <1>3, <1>4, <1>5 DEF Next

\* The inductive invariant of the calls that are under way.
THEOREM CallsInductive == Spec => [](IndInv /\ CallInv)
<1>1. IndInv /\ CallInv /\ [Next]_vars => (IndInv /\ CallInv)'
  BY StepHolds, CallsHold
<1>2. Init => IndInv /\ CallInv
  BY InitHolds, InitCalls
<1> QED
  BY <1>1, <1>2, PTL DEF Spec

\* What the index lists is stored, here and on disk, unless a part was lost to a
\* failed write, a torn file or a purge: parts first, index last (save_secret).
THEOREM IndexedStored == Spec => []IndexedIsStored
<1>1. IndInv /\ CallInv => IndexedIsStored
  BY DEF CallInv
<1> QED
  BY <1>1, CallsInductive, PTL

\* A retrieve that no save overlaps returns the one payload that was saved well,
\* each part of it once and in order (retrieve_secret).
THEOREM ReadWhole == Spec => []ReadsAreWhole
<1>1. IndInv /\ CallInv => ReadsAreWhole
  <2> SUFFICES ASSUME IndInv, CallInv, NEW w \in Workers, job[w].op = "read", job[w].calm,
                      job[w].at = job[w].n, good[job[w].s] # Absent
               PROVE /\ Len(job[w].got) = good[job[w].s].n
                     /\ \A i \in 1..good[job[w].s].n : job[w].got[i] = Part(good[job[w].s], i)
    BY DEF ReadsAreWhole
  <2>1. WholeAt(w)
    BY DEF CallInv
  <2> QED
    BY <2>1 DEF WholeAt
<1> QED
  BY <1>1, CallsInductive, PTL

\* What is wiped, as long as nothing failed, is what a purge is at.
WipedByPurge ==
    faults = 0 =>
        \A c \in Chunks : store[c] = Noise =>
            \E w \in Workers :
                job[w].op = "purge" /\ job[w].at > 0 /\ ChunkId(job[w].s, job[w].n) = c

\* A call of w that wipes nothing, and leaves no wipe behind.
LEMMA WipedByOthers ==
    ASSUME IndInv, WipedByPurge, NEW w \in Workers, NEW j \in Jobs, Become(w, j) \/ Upset(w, j),
           job[w].op # "purge", faults' = 0 => faults = 0,
           \A c \in Chunks : store'[c] = Noise => store[c] = Noise
    PROVE WipedByPurge'
<1>1. \A x \in Workers \ {w} : Same(x)
  BY OthersKeep DEF IndInv
<1> SUFFICES ASSUME faults' = 0, NEW c \in Chunks', store'[c] = Noise
             PROVE \E x \in Workers :
                      job'[x].op = "purge" /\ job'[x].at > 0 /\ ChunkId(job'[x].s, job'[x].n) = c
  BY DEF WipedByPurge, ChunkId
<1>2. c \in Chunks
  BY DEF Chunks, ChunkId
<1>3. PICK x \in Workers :
         job[x].op = "purge" /\ job[x].at > 0 /\ ChunkId(job[x].s, job[x].n) = c
  BY <1>2 DEF WipedByPurge
<1> QED
  BY <1>1, <1>3 DEF Same, ChunkId

LEMMA WipedAfterWrite ==
    ASSUME IndInv, WipedByPurge, NEW w \in Workers, WritePart(w)
    PROVE WipedByPurge'
<1> DEFINE j == [job[w] EXCEPT !.at = job[w].at + 1]
<1>1. job[w] \in Jobs /\ job[w].op = "save" /\ Saving(w)
  BY DEF WritePart, Saving, IndInv, TypeOK
<1>2. job[w].at + 1 \in 1..MaxParts /\ job[w].cut \in Cuts /\ job[w].at \in Nat
  BY <1>1, TargetFacts DEF IndInv
<1>3. j \in Jobs /\ Become(w, j)
  BY <1>1, <1>2 DEF Jobs, WritePart, Proceed
<1>4. Part(job[w].cut, job[w].at + 1) # Noise
  BY <1>2, PartFacts
<1>5. \A c \in Chunks : store'[c] = Noise => store[c] = Noise
  BY <1>4 DEF WritePart, IndInv, TypeOK
<1> QED
  BY <1>1, <1>3, <1>5, WipedByOthers DEF WritePart, bounds

LEMMA WipedAfterWipe ==
    ASSUME IndInv, WipedByPurge, NEW w \in Workers, Wipe(w)
    PROVE WipedByPurge'
<1> DEFINE j == IF job[w].at < 2 THEN [job[w] EXCEPT !.at = job[w].at + 1] ELSE Idle(w)
           hit == ChunkId(job[w].s, job[w].n)
<1>1. job[w] \in Jobs /\ job[w].op = "purge" /\ Upset(w, j) /\ faults' = faults
  BY DEF Wipe, IndInv, TypeOK, bounds
<1>2. j \in Jobs
  <2>1. CASE job[w].at < 2
    BY <1>1, <2>1 DEF Jobs
  <2>2. CASE ~(job[w].at < 2)
    BY <2>2, IdleFacts DEF IndInv
  <2> QED
    BY <2>1, <2>2
<1>3. job'[w] = j /\ \A x \in Workers \ {w} : Same(x)
  BY <1>1, <1>2, OthersKeep DEF IndInv
<1> SUFFICES ASSUME faults' = 0, NEW c \in Chunks', store'[c] = Noise
             PROVE \E x \in Workers :
                      job'[x].op = "purge" /\ job'[x].at > 0 /\ ChunkId(job'[x].s, job'[x].n) = c
  BY DEF WipedByPurge, ChunkId
<1>4. c \in Chunks
  BY DEF Chunks, ChunkId
<1>5. CASE c = hit
  <2>1. job[w].at < 2
    BY <1>4, <1>5, StorageAssumption DEF Wipe, IndInv, TypeOK, StorageAssumption
  <2>2. job'[w].op = "purge" /\ job'[w].at = job[w].at + 1 /\ job'[w].s = job[w].s
        /\ job'[w].n = job[w].n /\ job[w].at \in Nat
    BY <1>1, <1>3, <2>1 DEF Jobs
  <2>3. job'[w].at > 0
    BY <2>2
  <2> QED
    BY <1>5, <2>2, <2>3 DEF ChunkId
<1>6. CASE c # hit
  <2>1. store[c] = Noise
    BY <1>4, <1>6 DEF Wipe, IndInv, TypeOK
  <2>2. PICK x \in Workers :
           job[x].op = "purge" /\ job[x].at > 0 /\ ChunkId(job[x].s, job[x].n) = c
    BY <1>1, <1>4, <2>1 DEF WipedByPurge
  <2> QED
    BY <1>3, <1>6, <2>2 DEF Same, ChunkId
<1> QED
  BY <1>5, <1>6

LEMMA WipedHolds ==
    ASSUME IndInv, WipedByPurge, [Next]_vars
    PROVE WipedByPurge'
<1>1. ASSUME NEW w \in Workers, Step(w) PROVE WipedByPurge'
  <2>1. CASE WritePart(w)
    BY <2>1, WipedAfterWrite
  <2>2. CASE Wipe(w)
    BY <2>2, WipedAfterWipe
  <2>3. CASE WriteFails(w)
    BY <2>3 DEF WriteFails, Fault, IndInv, TypeOK, WipedByPurge
  <2>4. CASE UpdateIndex(w)
    <3>1. Idle(w) \in Jobs /\ Become(w, Idle(w)) /\ job[w].op # "purge" /\ UNCHANGED store
      BY <2>4, IdleFacts DEF UpdateIndex, Rest, IndInv
    <3>2. faults' = 0 => faults = 0
      BY <2>4 DEF UpdateIndex, Seal, SealFails, Fault, IndInv, TypeOK
    <3> QED
      BY <3>1, <3>2, WipedByOthers
  <2>5. CASE ReadPart(w)
    <3>1. job[w] \in Jobs /\ job[w].op = "read" /\ UNCHANGED store /\ faults' = faults
      BY <2>5 DEF ReadPart, IndInv, TypeOK, bounds
    <3>2. CASE Deserializes(store[Target(w)])
      <4> DEFINE j == [job[w] EXCEPT !.at = job[w].at + 1,
                                     !.got = Append(job[w].got, store[Target(w)])]
      <4>1. job[w].at + 1 \in Nat /\ Append(job[w].got, store[Target(w)]) \in Seq(Parts)
        BY <3>1, <3>2 DEF Jobs, Deserializes
      <4>2. j \in Jobs
        BY <3>1, <4>1 DEF Jobs
      <4>3. Become(w, j)
        BY <2>5, <3>2 DEF ReadPart
      <4> QED
        BY <3>1, <4>2, <4>3, WipedByOthers
    <3>3. CASE ~Deserializes(store[Target(w)])
      BY <2>5, <3>1, <3>3, IdleFacts, WipedByOthers DEF ReadPart, Rest, IndInv
    <3> QED
      BY <3>2, <3>3
  <2>6. CASE Return(w)
    BY <2>6, IdleFacts, WipedByOthers DEF Return, Rest, IndInv, bounds
  <2> QED
    BY <1>1, <2>1, <2>2, <2>3, <2>4, <2>5, <2>6 DEF Step
<1>2. ASSUME NEW w \in Workers, NEW s \in Secrets, Begin(w, s) PROVE WipedByPurge'
  <2>1. NoCut \in Cuts /\ Calm(s) \in BOOLEAN
    BY DEF Cuts, Calm
  <2>2. ASSUME NEW c \in Cuts, BeginSave(w, s, c) PROVE WipedByPurge'
    <3>1. c.n \in Nat
      BY CutFacts, StorageAssumption DEF StorageAssumption
    <3>2. Job("save", s, c, c.n, Calm(s)) \in Jobs
      BY <2>1, <3>1, JobFacts
    <3> QED
      BY <2>2, <3>2, WipedByOthers DEF BeginSave
  <2>3. CASE BeginRead(w, s)
    <3>1. ram[s] \in Nat
      BY <2>3, StorageAssumption DEF IndInv, TypeOK, BeginRead, Unlisted, StorageAssumption
    <3>2. Job("read", s, NoCut, ram[s], Calm(s)) \in Jobs
      BY <2>1, <3>1, JobFacts
    <3> QED
      BY <2>3, <3>2, WipedByOthers DEF BeginRead, bounds
  <2>4. ASSUME NEW i \in 1..MaxParts, BeginPurge(w, s, i) PROVE WipedByPurge'
    <3>1. i \in Nat
      BY StorageAssumption DEF StorageAssumption
    <3>2. Job("purge", s, NoCut, i, Calm(s)) \in Jobs
      BY <2>1, <3>1, JobFacts
    <3> QED
      BY <2>4, <3>2, WipedByOthers DEF BeginPurge, bounds
  <2> QED
    BY <1>2, <2>2, <2>3, <2>4 DEF Begin
<1>3. ASSUME NEW t \in Tenants, AddTenant(t) PROVE WipedByPurge'
  <2>1. UNCHANGED <<store, job>> /\ (faults' = 0 => faults = 0)
    BY <1>3 DEF AddTenant, Seal, SealFails, Fault, IndInv, TypeOK
  <2> QED
    BY <2>1 DEF WipedByPurge, Chunks, ChunkId
<1>4. CASE Crash
  BY <1>4 DEF Crash, Fault, IndInv, TypeOK, WipedByPurge
<1>5. CASE UNCHANGED vars
  BY <1>5 DEF vars, bounds, WipedByPurge, Chunks, ChunkId
<1> QED
  BY <1>1, <1>2, <1>3, <1>4, <1>5 DEF Next

\* A purge that no save overlaps is at no part of a payload that was saved well
\* and has not expired, and, as long as nothing fails, nothing is wiped but what
\* a purge is at (scan_and_purge).
THEOREM PurgeHits == Spec => []PurgeHitsExpired
<1>1. Init => WipedByPurge
  BY StorageAssumption DEF Init, WipedByPurge, StorageAssumption
<1>2. IndInv /\ WipedByPurge /\ [Next]_vars => WipedByPurge'
  BY WipedHolds
<1>3. IndInv /\ CallInv /\ WipedByPurge => PurgeHitsExpired
  <2> SUFFICES ASSUME IndInv, CallInv, NEW w \in Workers, job[w].op = "purge", job[w].calm,
                      good[job[w].s] # Absent, job[w].n <= good[job[w].s].n
               PROVE good[job[w].s].p \in Mortal
    BY DEF PurgeHitsExpired, WipedByPurge
  <2> DEFINE c == good[job[w].s]
  <2>1. HitAt(w) /\ job[w].s \in Secrets /\ c \in Cuts
    BY DEF CallInv, IndInv, TypeOK, Jobs
  <2>2. job[w].n \in 1..MaxParts /\ job[w].n \in 1..c.n
    BY <2>1, CutFacts DEF HitAt
  <2>3. store[ChunkId(job[w].s, job[w].n)] = Part(c, job[w].n)
    BY <2>1, <2>2 DEF IndInv, SavedIsReadable
  <2>4. Expired(Part(c, job[w].n))
    BY <2>1, <2>2, <2>3, PartFacts DEF HitAt, Hit
  <2> QED
    BY <2>1, <2>2, <2>4, PartFacts DEF Expired
<1> QED
  BY <1>1, <1>2, <1>3, Inductive, CallsInductive, PTL DEF Spec
-----------------------------------------------------------------------------
\* Chunkers

\* What the loop the generator is in says about the buffer.
Loops ==
    /\ kind = "adaptive" => pc \in {"idle", "read"} /\ buffer = 0
    /\ pc = "drain" => buffer >= Logical
    /\ pc = "tail" => pos = size /\ delivered = stale + size

\* While no stream was dropped, no stream inherits anything, and the buffer
\* stays below a block between two bursts.
Clean ==
    ~dropped =>
        /\ stale = 0
        /\ pc = "idle" => buffer = 0
        /\ kind = "buffered" /\ pc \in {"read", "tail"} => buffer < Logical

StreamInv == ChunkersTypeOK /\ Loops /\ Clean /\ NothingLost

-----------------------------------------------------------------------------
LEMMA LeastOf ==
    ASSUME NEW a \in Nat, NEW b \in Nat
    PROVE  Least(a, b) \in Nat /\ Least(a, b) <= a /\ Least(a, b) <= b
BY DEF Least

LEMMA StreamInitInv == ChunkersInit => StreamInv
<1> SUFFICES ASSUME ChunkersInit PROVE StreamInv
    OBVIOUS
<1>1. BaseMin \in Nat
  BY ChunkersAssumption DEF ChunkersAssumption
<1>2. last = [at |-> 0, len |-> 0] /\ last \in [at : Int, len : Nat]
  BY DEF ChunkersInit, Block
<1>3. ChunkersTypeOK
  <2>1. 0 \in 0..0
    OBVIOUS
  <2>2. size \in Sizes \union {0} /\ pos \in 0..size
    BY <2>1 DEF ChunkersInit
  <2> QED
    BY <1>1, <1>2, <2>2 DEF ChunkersInit, ChunkersTypeOK
<1>4. Loops /\ Clean /\ NothingLost
  BY <1>2, ChunkersAssumption DEF ChunkersAssumption, ChunkersInit, Loops, Clean, NothingLost
<1> QED
  BY <1>3, <1>4 DEF StreamInv

LEMMA EvaluationType ==
    ASSUME ChunkersTypeOK, NEW e \in Evaluations
    PROVE  e.span \in Nat /\ e.stable \in Nat
<1>1. /\ span \in Nat /\ 2 * span \in Nat /\ stable \in Nat
      /\ BaseMin \in Nat /\ BaseMax \in Nat /\ HighMax \in Nat /\ Forced \subseteq Nat
  BY ChunkersAssumption DEF ChunkersAssumption, ChunkersTypeOK
<1>2. Least(2 * span, BaseMax) \in Nat /\ Least(2 * span, HighMax) \in Nat
  BY <1>1, LeastOf
<1>3. CASE e \in {[span |-> n, stable |-> stable] : n \in Forced}
  BY <1>1, <1>3
<1>4. ASSUME NEW low \in BOOLEAN, NEW plenty \in BOOLEAN, e = Adapted(low, plenty)
      PROVE  e.span \in Nat /\ e.stable \in Nat
  <2>1. CASE low
    BY <1>1, <1>4, <2>1 DEF Adapted
  <2>2. CASE ~low /\ plenty
    BY <1>1, <1>2, <1>4, <2>2 DEF Adapted
  <2>3. CASE ~low /\ ~plenty
    BY <1>1, <1>2, <1>4, <2>3 DEF Adapted
  <2> QED
    BY <2>1, <2>2, <2>3
<1> QED
  BY <1>3, <1>4 DEF Evaluations

LEMMA OpenInv == ASSUME StreamInv, NEW n \in Sizes, Open(n) PROVE StreamInv'
BY ChunkersAssumption
   DEF ChunkersAssumption, Open, StreamInv, ChunkersTypeOK, Loops, Clean, NothingLost, Block

LEMMA DropInv == ASSUME StreamInv, Drop PROVE StreamInv'
BY DEF Drop, yielded, StreamInv, ChunkersTypeOK, Loops, Clean, NothingLost

LEMMA FillInv == ASSUME StreamInv, NEW p \in Physical, Fill(p) PROVE StreamInv'
<1>1. /\ p \in Nat /\ size \in Nat /\ pos \in Nat /\ pos <= size
      /\ Logical \in Nat \ {0} /\ buffer \in Nat
  BY ChunkersAssumption DEF ChunkersAssumption, StreamInv, ChunkersTypeOK
<1> DEFINE read == Least(p, size - pos)
<1>2. read \in Nat /\ read <= size - pos
  BY <1>1, LeastOf
<1>3. pos' = pos + read /\ buffer' = buffer + read /\ pos' \in 0..size'
  BY <1>1, <1>2 DEF Fill
<1> QED
  BY <1>1, <1>2, <1>3 DEF Fill, yielded, StreamInv, ChunkersTypeOK, Loops, Clean, NothingLost

LEMMA DrainInv == ASSUME StreamInv, Drain PROVE StreamInv'
BY ChunkersAssumption
   DEF ChunkersAssumption, Drain, Yield, Block, StreamInv, ChunkersTypeOK, Loops, Clean, NothingLost

LEMMA TailInv ==
    ASSUME StreamInv, NEW p \in Physical, YieldTail(p) \/ NoTail(p) \/ ClearTail
    PROVE  StreamInv'
<1> USE ChunkersAssumption
    DEF ChunkersAssumption, yielded, Yield, Block, StreamInv, ChunkersTypeOK, Loops, Clean, NothingLost
<1>1. CASE YieldTail(p)
  BY <1>1 DEF YieldTail
<1>2. CASE NoTail(p)
  BY <1>2 DEF NoTail
<1>3. CASE ClearTail
  BY <1>3 DEF ClearTail
<1> QED
  BY <1>1, <1>2, <1>3

LEMMA AdaptiveInv ==
    ASSUME StreamInv, NEW e \in Evaluations, ReadAndYield(e) \/ End(e)
    PROVE  StreamInv'
<1>1. e.span \in Nat /\ e.stable \in Nat /\ size \in Nat /\ pos \in 0..size
  BY EvaluationType, ChunkersAssumption DEF ChunkersAssumption, StreamInv, ChunkersTypeOK
<1>2. Least(e.span, size - pos) \in Nat /\ Least(e.span, size - pos) <= size - pos
  BY <1>1, LeastOf
<1> USE DEF yielded, Block, StreamInv, ChunkersTypeOK, Loops, Clean, NothingLost
<1>3. CASE ReadAndYield(e)
  BY <1>1, <1>2, <1>3 DEF ReadAndYield
<1>4. CASE End(e)
  BY <1>1, <1>4 DEF End
<1> QED
  BY <1>3, <1>4

LEMMA StreamInductive == StreamInv /\ [ChunkersNext]_chunkerVars => StreamInv'
<1> SUFFICES ASSUME StreamInv, [ChunkersNext]_chunkerVars PROVE StreamInv'
    OBVIOUS
<1>1. CASE UNCHANGED chunkerVars
  BY <1>1 DEF chunkerVars, yielded, StreamInv, ChunkersTypeOK, Loops, Clean, NothingLost
<1>2. Physical # {}
  BY ChunkersAssumption DEF ChunkersAssumption
<1>3. CASE ChunkersNext
  BY <1>2, <1>3, OpenInv, DropInv, FillInv, DrainInv, TailInv, AdaptiveInv DEF ChunkersNext, Resume
<1> QED
  BY <1>1, <1>3

LEMMA Invariance == ChunkersSpec => []StreamInv
BY StreamInitInv, StreamInductive, PTL DEF ChunkersSpec

-----------------------------------------------------------------------------
\* The state of both chunkers keeps its type.
THEOREM ChunkersTypeCorrect == ChunkersSpec => []ChunkersTypeOK
<1>1. StreamInv => ChunkersTypeOK
  BY DEF StreamInv
<1> QED
  BY <1>1, Invariance, PTL

\* No byte of a stream is lost, repeated or reordered, whatever the RAM does.
THEOREM StreamIsWhole == ChunkersSpec => []NothingLost
<1>1. StreamInv => NothingLost
  BY DEF StreamInv
<1> QED
  BY <1>1, Invariance, PTL

-----------------------------------------------------------------------------
\* Where buffered streams are cut: what was delivered before the tail is a
\* number of whole blocks.

Multiples == {q * Logical : q \in Nat}

WholeBlocks ==
    kind = "buffered" /\ ~dropped =>
        /\ pc = "read" => buffer < Logical
        /\ pc \in {"read", "drain"} => delivered \in Multiples
        /\ delivered > 0 =>
              /\ last.at \in Multiples
              /\ last.len = Logical \/ (last.len < Logical /\ last.at + last.len = size)

LEMMA MultiplesOf ==
    /\ 0 \in Multiples
    /\ \A a \in Multiples : a \in Nat /\ a + Logical \in Multiples /\ a % Logical = 0
<1>1. Logical \in Nat \ {0}
  BY ChunkersAssumption DEF ChunkersAssumption
<1>2. 0 = 0 * Logical
  BY <1>1
<1>3. ASSUME NEW a \in Multiples PROVE a \in Nat /\ a + Logical \in Multiples /\ a % Logical = 0
  <2>1. PICK q \in Nat : a = q * Logical
    BY DEF Multiples
  <2>2. a + Logical = (q + 1) * Logical /\ q + 1 \in Nat /\ a \in Nat
    BY <1>1, <2>1
  <2>3. (q * Logical) % Logical = 0
    BY <1>1
  <2> QED
    BY <2>1, <2>2, <2>3 DEF Multiples
<1> QED
  BY <1>2, <1>3 DEF Multiples

LEMMA WholeBlocksStep == StreamInv /\ WholeBlocks /\ [ChunkersNext]_chunkerVars => WholeBlocks'
<1> SUFFICES ASSUME StreamInv, WholeBlocks, [ChunkersNext]_chunkerVars PROVE WholeBlocks'
  OBVIOUS
<1> USE MultiplesOf DEF WholeBlocks
<1>1. Logical \in Nat \ {0} /\ Physical \subseteq Nat /\ Physical # {}
  BY ChunkersAssumption DEF ChunkersAssumption
<1>2. CASE UNCHANGED chunkerVars
  BY <1>2 DEF chunkerVars, yielded
<1>3. ASSUME NEW n \in Sizes, Open(n) PROVE WholeBlocks'
  BY <1>1, <1>3 DEF Open, StreamInv, Clean
<1>4. CASE Drop
  BY <1>4 DEF Drop
<1>5. ASSUME NEW p \in Physical, Fill(p) PROVE WholeBlocks'
  <2> DEFINE r == Least(p, size - pos)
  <2>1. /\ kind' = kind /\ dropped' = dropped /\ size' = size /\ pc = "read"
        /\ last' = last /\ delivered' = delivered
        /\ buffer' = buffer + r /\ pc' = (IF buffer' >= Logical THEN "drain" ELSE "read")
    BY <1>5 DEF Fill, yielded
  <2>2. p \in Nat /\ size - pos \in Nat /\ buffer \in Nat
    BY <1>1, ChunkersAssumption DEF StreamInv, ChunkersTypeOK, ChunkersAssumption
  <2>3. r \in Nat
    BY <2>2, LeastOf
  <2> HIDE DEF r
  <2>4. pc' = "read" => buffer' < Logical
    BY <1>1, <2>1, <2>2, <2>3
  <2> QED
    BY <2>1, <2>4
<1>6. ASSUME NEW p \in Physical, YieldTail(p) PROVE WholeBlocks'
  <2>1. /\ kind' = kind /\ dropped' = dropped /\ size' = size /\ pc' = "tail" /\ pos = size
        /\ last' = [at |-> pos - buffer, len |-> buffer] /\ kind = "buffered" /\ pc = "read"
    BY <1>6 DEF YieldTail, Yield, Block
  <2>2. CASE ~dropped
    <3>1. /\ stale = 0 /\ buffer < Logical /\ delivered \in Multiples /\ delivered + buffer = stale + pos
          /\ buffer \in Nat /\ pos \in Int /\ delivered \in Nat
      BY <2>1, <2>2, ChunkersAssumption
         DEF StreamInv, Clean, NothingLost, ChunkersTypeOK, ChunkersAssumption
    <3>2. pos - buffer = delivered /\ delivered + buffer = size
      BY <2>1, <3>1
    <3>3. last'.at = delivered /\ last'.len = buffer
      BY <2>1, <3>2
    <3> QED
      BY <2>1, <3>1, <3>2, <3>3
  <2> QED
    BY <2>1, <2>2
<1>7. ASSUME NEW p \in Physical, NoTail(p) PROVE WholeBlocks'
  BY <1>7 DEF NoTail, yielded
<1>8. CASE Drain
  <2>1. /\ kind' = kind /\ dropped' = dropped /\ pc = "drain" /\ buffer' = buffer - Logical
        /\ pc' = (IF buffer' >= Logical THEN "drain" ELSE "read")
        /\ last' = [at |-> pos - buffer, len |-> Logical] /\ delivered' = delivered + Logical
    BY <1>8 DEF Drain, Yield, Block
  <2>2. CASE kind = "buffered" /\ ~dropped
    <3>1. /\ stale = 0 /\ delivered \in Multiples /\ delivered + buffer = stale + pos
          /\ buffer \in Nat /\ pos \in Int /\ delivered \in Nat
      BY <2>1, <2>2, ChunkersAssumption
         DEF StreamInv, Clean, NothingLost, ChunkersTypeOK, ChunkersAssumption
    <3>2. pos - buffer = delivered
      BY <3>1
    <3>3. last'.at = delivered /\ last'.len = Logical
      BY <2>1, <3>2
    <3>4. pc' = "read" => buffer' < Logical
      BY <1>1, <2>1, <3>1
    <3> QED
      BY <2>1, <2>2, <3>1, <3>3, <3>4
  <2> QED
    BY <2>1, <2>2
<1>9. CASE ClearTail
  BY <1>9 DEF ClearTail, yielded
<1>10. ASSUME NEW e \in Evaluations, ReadAndYield(e) \/ End(e) PROVE WholeBlocks'
  BY <1>10 DEF ReadAndYield, End
<1> QED
  BY <1>1, <1>2, <1>3, <1>4, <1>5, <1>6, <1>7, <1>8, <1>9, <1>10 DEF ChunkersNext, Resume

\* Buffered streams are cut at multiples of 64 KiB whatever the RAM does, and
\* only the last block is shorter, as long as no stream was dropped
\* (process_stream).
THEOREM CutsFixed == ChunkersSpec => []CutsAreFixed
<1>1. ChunkersInit => WholeBlocks
  BY MultiplesOf DEF ChunkersInit, WholeBlocks
<1>2. StreamInv /\ WholeBlocks => CutsAreFixed
  BY MultiplesOf DEF WholeBlocks, CutsAreFixed
<1> QED
  BY <1>1, <1>2, WholeBlocksStep, Invariance, PTL DEF ChunkersSpec
=============================================================================
