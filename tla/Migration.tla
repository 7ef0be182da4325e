----------------------------- MODULE Migration -----------------------------
(***************************************************************************)
(* LiveMigrationEngine.sync_envelope (koot/storage/migration/differ.py)    *)
(* for one envelope.  It is handed two stores that give and take a         *)
(* manifest (the Merkle root and the hash of each chunk) and chunks; no    *)
(* adapter under koot/storage/adapters has these methods, so the stores    *)
(* are modelled from the calls the engine makes.  Meanwhile the source is  *)
(* in use: a new version may be published there, a chunk may be lost, and  *)
(* the engine may die between two chunks.                                  *)
(***************************************************************************)
EXTENDS Merkle

CONSTANTS
    Chunks,     \* contents of a chunk
    Missing,    \* what read_chunk gives for a chunk that is not there
    Files,      \* the versions of the envelope, as sequences of chunks
    MaxLen,     \* bound: chunks in a version
    MaxEdits    \* bound: changes of the source

ASSUME MigrationAssumption ==
    /\ Missing \notin Chunks
    /\ MaxLen \in Nat
    /\ \A f \in Files : f \in Seq(Chunks) /\ Len(f) \in 1..MaxLen

VARIABLES
    srcManifest, srcChunks,     \* the source store
    dstManifest, dstChunks,     \* the destination store
    pc,         \* where sync_envelope stands: "idle" or "copy"
    held,       \* source_manifest
    todo,       \* the rest of chunk_ids
    result,     \* how the last sync ended: "none", "true", "false", "raised"
    edits,      \* changes of the source so far
    \* history, in no variable of the code
    copied,     \* chunks written since the manifest of the destination was
    drifted     \* the source changed during a sync, or after a sync that never
                \* finished had copied chunks of it

source == <<srcManifest, srcChunks, edits>>
destination == <<dstManifest, dstChunks>>
vars == <<source, destination, pc, held, todo, result, copied, drifted>>

Ids == 1..MaxLen
Manifest(file) == [root |-> RootHash(Leaves(file)), hashes |-> Leaves(file)]
NoManifest == [root |-> NoHash, hashes |-> <<>>]
Manifests == {Manifest(f) : f \in Files} \union {NoManifest}
Stored(file) == [id \in Ids |-> IF id \in DOMAIN file THEN file[id] ELSE Missing]
NothingStored == [id \in Ids |-> Missing]

-----------------------------------------------------------------------------
\* The source store

Edit ==
    /\ edits < MaxEdits
    /\ edits' = edits + 1
    /\ UNCHANGED <<destination, pc, held, todo, result, copied>>

Publish(file) ==
    /\ Edit
    /\ srcManifest' = Manifest(file)
    /\ srcChunks' = Stored(file)
    /\ drifted' = (drifted \/ pc = "copy" \/ copied # {})

Lose(id) ==
    /\ Edit
    /\ srcChunks[id] # Missing
    /\ srcChunks' = [srcChunks EXCEPT ![id] = Missing]
    /\ UNCHANGED <<srcManifest, drifted>>

-----------------------------------------------------------------------------
\* sync_envelope

\* _calculate_delta; all chunks when the destination has no manifest.
Delta(from, to) ==
    {id \in DOMAIN from.hashes :
        id \notin DOMAIN to.hashes \/ to.hashes[id] # from.hashes[id]}

Return(r) ==
    /\ pc' = "idle"
    /\ result' = r
    /\ held' = NoManifest
    /\ todo' = {}

NotFound ==
    /\ pc = "idle" /\ srcManifest = NoManifest
    /\ Return("false")
    /\ UNCHANGED <<source, destination, copied, drifted>>

Bypass ==
    /\ pc = "idle" /\ srcManifest # NoManifest
    /\ dstManifest # NoManifest /\ srcManifest.root = dstManifest.root
    /\ Return("true")
    /\ UNCHANGED <<source, destination, copied, drifted>>

\* Faulty variant: the manifest is written before the chunks.
BeginCommitted ==
    /\ pc = "idle" /\ srcManifest # NoManifest
    /\ dstManifest = NoManifest \/ srcManifest.root # dstManifest.root
    /\ pc' = "copy"
    /\ held' = srcManifest /\ dstManifest' = srcManifest
    /\ todo' = Delta(srcManifest, dstManifest)
    /\ UNCHANGED <<source, dstChunks, result, copied, drifted>>

Begin ==
    /\ pc = "idle" /\ srcManifest # NoManifest
    /\ dstManifest = NoManifest \/ srcManifest.root # dstManifest.root
    /\ pc' = "copy"
    /\ held' = srcManifest
    /\ todo' = Delta(srcManifest, dstManifest)
    /\ UNCHANGED <<source, destination, result, copied, drifted>>

\* The iteration of _pipeline_chunks for the next chunk.
IsNext(id) == pc = "copy" /\ id \in todo /\ \A other \in todo : id <= other

Copy(id) ==
    /\ IsNext(id) /\ srcChunks[id] # Missing
    /\ dstChunks' = [dstChunks EXCEPT ![id] = srcChunks[id]]
    /\ todo' = todo \ {id}
    /\ copied' = copied \union {id}
    /\ UNCHANGED <<source, dstManifest, pc, held, result, drifted>>

CopyFails(id) ==
    /\ IsNext(id) /\ srcChunks[id] = Missing
    /\ Return("raised")
    /\ UNCHANGED <<source, destination, copied, drifted>>

Commit ==
    /\ pc = "copy" /\ todo = {}
    /\ dstManifest' = held
    /\ copied' = {}
    /\ Return("true")
    /\ UNCHANGED <<source, dstChunks, drifted>>

Die ==
    /\ pc = "copy"
    /\ Return("none")
    /\ UNCHANGED <<source, destination, copied, drifted>>

-----------------------------------------------------------------------------
Init ==
    /\ srcManifest = NoManifest /\ srcChunks = NothingStored
    /\ \/ dstManifest = NoManifest /\ dstChunks = NothingStored
       \/ \E f \in Files : dstManifest = Manifest(f) /\ dstChunks = Stored(f)
    /\ pc = "idle" /\ held = NoManifest /\ todo = {} /\ result = "none"
    /\ edits = 0 /\ copied = {} /\ drifted = FALSE

Next ==
    \/ \E f \in Files : Publish(f)
    \/ \E id \in Ids : Lose(id) \/ Copy(id) \/ CopyFails(id)
    \/ NotFound \/ Bypass \/ Begin \/ Commit \/ Die

Spec == Init /\ [][Next]_vars

-----------------------------------------------------------------------------
TypeOK ==
    /\ srcManifest \in Manifests /\ dstManifest \in Manifests /\ held \in Manifests
    /\ srcChunks \in [Ids -> Chunks \union {Missing}]
    /\ dstChunks \in [Ids -> Chunks \union {Missing}]
    /\ pc \in {"idle", "copy"}
    /\ todo \subseteq Ids /\ copied \subseteq Ids
    /\ result \in {"none", "true", "false", "raised"}
    /\ edits \in Nat
    /\ drifted \in BOOLEAN

\* A sync that reports success has left a destination whose every chunk has the
\* hash its manifest says, however many earlier syncs died or raised between
\* two chunks: the manifest is written last, and a retry copies again what the
\* lost sync had copied.  This needs a source that did not change meanwhile.
SuccessIsExact ==
    result = "true" /\ pc = "idle" /\ ~drifted =>
        \A id \in DOMAIN dstManifest.hashes :
            HashChunk(dstChunks[id]) = dstManifest.hashes[id]

\* What a root does tell: two versions of the same number of chunks have the
\* same root only if they are the same, chunk by chunk, at every shape of tree.
RootFixesChunks ==
    srcManifest.root = dstManifest.root /\ Len(srcManifest.hashes) = Len(dstManifest.hashes)
        => srcManifest.hashes = dstManifest.hashes

\* "If the Merkle Roots match, the files are identical", for which sync_envelope
\* returns at once.  The code does otherwise: the last node of an odd level is
\* hashed with itself, so that a file and the same file with its tail repeated
\* have one root, and the destination is left without the repeated chunks.
EqualRootsEqualFiles ==
    srcManifest.root = dstManifest.root => srcManifest.hashes = dstManifest.hashes

\* get_proof and verify_chunk bind a chunk to its place: against the root of a
\* manifest the path of an index accepts the chunk that is there and no other.
ProofsBind ==
    \A i \in DOMAIN srcManifest.hashes, c \in Chunks :
        VerifyChunk(c, Proof(srcManifest.hashes, i - 1), srcManifest.root)
            <=> HashChunk(c) = srcManifest.hashes[i]
=============================================================================
