----------------------------- MODULE Chunkers ------------------------------
(***************************************************************************)
(* The two chunkers of koot/storage/chunking as generators that are        *)
(* resumed by whoever consumes the blocks: BufferedAdaptiveChunker, which  *)
(* reads as much as the free RAM allows and yields blocks of one size, for *)
(* the Merkle tree; and AdaptiveChunker, which yields what it reads.       *)
(*                                                                         *)
(* Lengths are in units of 16 KiB.  Of the bytes only their places count:  *)
(* a block is the interval of the file it carries, [at, at + len), which   *)
(* starts below 0 when its first bytes were left behind by another stream. *)
(* A consumer may drop the generator at a yield, and a read may raise; the *)
(* chunker, and what it remembers, then serves the next stream.            *)
(***************************************************************************)
EXTENDS Integers, Sequences

CONSTANTS
    Sizes,          \* sizes of the files and payloads
    Logical,        \* logical_chunk_size, 64 KiB
    Physical,       \* reads for critical, constrained, abundant RAM
    BaseMin, BaseMax,   \* AdaptiveChunker's bounds
    HighMax,        \* its upper bound while RAM is plentiful
    RampUp,         \* ramp_up_threshold
    Forced,         \* chunk sizes an operator may force
    MaxStreams      \* bound: streams of one chunker

ASSUME ChunkersAssumption ==
    /\ Sizes \subseteq Nat /\ Logical \in Nat \ {0}
    /\ Physical \subseteq Nat \ {0} /\ Physical # {}
    /\ BaseMin \in Nat \ {0} /\ BaseMax \in Nat /\ BaseMin <= BaseMax
    /\ HighMax \in Nat /\ BaseMax <= HighMax
    /\ RampUp \in Nat /\ Forced \subseteq Nat \ {0}

VARIABLES
    kind,       \* "buffered" or "adaptive"
    pc,         \* "idle", "read", "drain" or "tail": the loop the generator is in
    size,       \* of the file
    pos,        \* bytes read of it
    span,       \* current_physical_size, current_chunk
    stable,     \* stable_reads
    buffer,     \* length of BufferedAdaptiveChunker.buffer
    last,       \* the block last yielded of this stream
    streams,    \* streams begun
    \* history, in no variable of the code
    delivered,  \* bytes yielded of this stream
    stale,      \* bytes of other streams in the buffer when this one began
    dropped     \* a stream of this chunker did not reach its end

yielded == <<last, delivered>>
chunkerVars == <<kind, pc, size, pos, span, stable, buffer, yielded, streams, stale, dropped>>

Least(a, b) == IF a <= b THEN a ELSE b
Block(at, len) == [at |-> at, len |-> len]

\* A block of the first len bytes of what was read and not yielded yet.
Yield(len) ==
    /\ last' = Block(pos - buffer, len)
    /\ delivered' = delivered + len

-----------------------------------------------------------------------------
\* Opening a stream; the consumer asks for the first block.
Open(n) ==
    /\ pc = "idle" /\ streams < MaxStreams
    /\ pc' = "read" /\ size' = n /\ pos' = 0
    /\ last' = Block(-buffer, 0) /\ delivered' = 0
    /\ stale' = buffer /\ streams' = streams + 1
    /\ UNCHANGED <<kind, span, stable, buffer, dropped>>

\* The consumer drops the generator, or the read raises.
Drop ==
    /\ pc # "idle"
    /\ pc' = "idle" /\ dropped' = TRUE
    /\ UNCHANGED <<kind, size, pos, span, stable, buffer, yielded, streams, stale>>

-----------------------------------------------------------------------------
\* BufferedAdaptiveChunker.process_stream

\* _evaluate_hardware, and the read of the block it allows.
Fill(physical) ==
    LET read == Least(physical, size - pos) IN
    /\ kind = "buffered" /\ pc = "read"
    /\ read > 0
    /\ span' = physical
    /\ pos' = pos + read
    /\ buffer' = buffer + read
    /\ pc' = IF buffer' >= Logical THEN "drain" ELSE "read"
    /\ UNCHANGED <<kind, size, stable, yielded, streams, stale, dropped>>

\* Faulty variant: all that is buffered is yielded at once.
DrainAll ==
    /\ pc = "drain"
    /\ Yield(buffer)
    /\ buffer' = 0 /\ pc' = "read"
    /\ UNCHANGED <<kind, size, pos, span, stable, streams, stale, dropped>>

Drain ==
    /\ pc = "drain"
    /\ Yield(Logical)
    /\ buffer' = buffer - Logical
    /\ pc' = IF buffer' >= Logical THEN "drain" ELSE "read"
    /\ UNCHANGED <<kind, size, pos, span, stable, streams, stale, dropped>>

\* The end of the file: what the buffer holds is yielded, and cleared when the
\* consumer comes back.
YieldTail(physical) ==
    /\ kind = "buffered" /\ pc = "read" /\ pos = size
    /\ span' = physical
    /\ buffer > 0
    /\ Yield(buffer)
    /\ pc' = "tail"
    /\ UNCHANGED <<kind, size, pos, stable, buffer, streams, stale, dropped>>

\* Faulty variants: the tail stays in the buffer; or it is looked at for ever.
ClearTailNever ==
    /\ pc = "tail"
    /\ pc' = "idle"
    /\ UNCHANGED <<kind, size, pos, span, stable, buffer, yielded, streams, stale, dropped>>

ClearTailAgain ==
    /\ pc = "tail"
    /\ buffer' = 0
    /\ UNCHANGED <<kind, pc, size, pos, span, stable, yielded, streams, stale, dropped>>

ClearTail ==
    /\ pc = "tail"
    /\ buffer' = 0
    /\ pc' = "idle"
    /\ UNCHANGED <<kind, size, pos, span, stable, yielded, streams, stale, dropped>>

NoTail(physical) ==
    /\ kind = "buffered" /\ pc = "read" /\ pos = size
    /\ span' = physical
    /\ buffer = 0
    /\ pc' = "idle"
    /\ UNCHANGED <<kind, size, pos, stable, buffer, yielded, streams, stale, dropped>>

-----------------------------------------------------------------------------
\* AdaptiveChunker._stream_generator

\* _evaluate_hardware, by what RAM there is; an operator may force a size.
Adapted(low, plenty) ==
    LET max == IF plenty THEN HighMax ELSE BaseMax IN
    IF low THEN [span |-> BaseMin, stable |-> 0]
    ELSE IF stable >= RampUp /\ span < max
         THEN [span |-> Least(2 * span, max), stable |-> 0]
         ELSE [span |-> span, stable |-> stable]

Evaluations ==
    {Adapted(low, plenty) : low \in BOOLEAN, plenty \in BOOLEAN}
        \union {[span |-> n, stable |-> stable] : n \in Forced}

ReadAndYield(e) ==
    LET read == Least(e.span, size - pos) IN
    /\ kind = "adaptive" /\ pc = "read" /\ read > 0
    /\ pos' = pos + read
    /\ last' = Block(pos, read) /\ delivered' = delivered + read
    /\ span' = e.span /\ stable' = e.stable + 1
    /\ UNCHANGED <<kind, pc, size, buffer, streams, stale, dropped>>

End(e) ==
    /\ kind = "adaptive" /\ pc = "read" /\ pos = size
    /\ span' = e.span /\ stable' = e.stable
    /\ pc' = "idle"
    /\ UNCHANGED <<kind, size, pos, buffer, yielded, streams, stale, dropped>>

-----------------------------------------------------------------------------
\* The names tell this specification from the other that its proofs extend.
ChunkersInit ==
    /\ kind \in {"buffered", "adaptive"}
    /\ pc = "idle" /\ size = 0 /\ pos = 0
    /\ last = Block(0, 0) /\ delivered = 0
    /\ span = BaseMin /\ stable = 0 /\ buffer = 0
    /\ streams = 0 /\ stale = 0 /\ dropped = FALSE

Resume ==
    \/ \E p \in Physical : Fill(p) \/ YieldTail(p) \/ NoTail(p)
    \/ Drain \/ ClearTail
    \/ \E e \in Evaluations : ReadAndYield(e) \/ End(e)

ChunkersNext == Resume \/ Drop \/ \E n \in Sizes : Open(n)

\* A consumer that does not drop the stream asks for the next block.
ChunkersSpec == ChunkersInit /\ [][ChunkersNext]_chunkerVars /\ WF_chunkerVars(Resume)

-----------------------------------------------------------------------------
ChunkersTypeOK ==
    /\ kind \in {"buffered", "adaptive"}
    /\ pc \in {"idle", "read", "drain", "tail"}
    /\ size \in Sizes \union {0} /\ pos \in 0..size
    /\ span \in Nat /\ stable \in Nat /\ buffer \in Nat /\ stale \in Nat
    /\ streams \in Nat /\ dropped \in BOOLEAN
    /\ last \in [at : Int, len : Nat] /\ delivered \in Nat

\* Whatever the RAM does during and between the streams, nothing of a file is
\* lost, repeated or reordered: each block begins where the last one ended, the
\* yielded blocks and the buffer make up what was read, and when the generator
\* ends by itself they are the whole file.
NothingLost ==
    /\ last.at + last.len = delivered - stale
    /\ pc \in {"read", "drain"} => delivered + buffer = stale + pos
    /\ pc = "idle" /\ ~dropped => delivered = size

\* The Merkle tree gets the same leaves for the same file however much RAM there
\* was: the blocks of a buffered stream are cut at multiples of 64 KiB from the
\* start of the file, and only the last may be shorter.  A chunker one of whose
\* streams was dropped is excepted: it begins with what that stream left.
CutsAreFixed ==
    kind = "buffered" /\ ~dropped /\ delivered > 0 =>
        /\ last.at % Logical = 0
        /\ last.len = Logical \/ (last.len < Logical /\ last.at + last.len = size)

\* A stream that is not dropped comes to its end, however the RAM changes.
StreamsEnd == [](pc # "idle" => <>(pc = "idle"))
=============================================================================
