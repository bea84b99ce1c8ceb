------------------------------ MODULE CdcCutter ------------------------------
(***************************************************************************)
(* The cutter run over one file of any content, a byte at a time: how      *)
(* large its chunks get, and why two files that share a tail share chunks. *)
(***************************************************************************)
EXTENDS GearCutter

CONSTANT MaxLen   \* bound: bytes of the file

ASSUME LengthAssumption == MaxLen \in Nat

VARIABLES
    content,    \* the bytes of the file
    cutter,     \* [pos, start, hash] of the cutter
    chunks,     \* [start, size] of the chunks closed so far
    finished    \* the last chunk has been flushed

cutterVars == <<content, cutter, chunks, finished>>

-----------------------------------------------------------------------------
CutterInit ==
    /\ \E n \in 0 .. MaxLen : content \in [1 .. n -> Byte]
    /\ cutter = Fresh
    /\ chunks = <<>> /\ finished = FALSE

FeedByte ==
    /\ cutter.pos < Len(content)
    /\ cutter' = Feed(cutter, content[cutter.pos + 1], Len(content))
    /\ chunks' = IF cutter'.start = cutter.start THEN chunks
                 ELSE Append(chunks, ClosedChunk(cutter, cutter'))
    /\ UNCHANGED <<content, finished>>

(* What is left after the last cut, or the whole file if it never cut.        *)
FlushLast ==
    /\ cutter.pos = Len(content) /\ ~finished
    /\ chunks' = Append(chunks, [start |-> cutter.start,
                                 size |-> Len(content) - cutter.start])
    /\ finished' = TRUE
    /\ UNCHANGED <<content, cutter>>

CutterNext == FeedByte \/ FlushLast

CutterSpec == CutterInit /\ [][CutterNext]_cutterVars

-----------------------------------------------------------------------------
CutterTypeOK ==
    /\ content \in Seq(Byte)
    /\ cutter \in [pos : Nat, start : Nat, hash : Nat]
    /\ chunks \in Seq([start : Nat, size : Nat])
    /\ finished \in BOOLEAN

(* "max_chunk is a true hard cap, min_chunk a true floor, on every chunk      *)
(* including the last" (src/README.md): every chunk has MIN_CHUNK to          *)
(* MAX_CHUNK bytes, but for the only chunk of a file shorter than MIN_CHUNK.  *)
ChunkBounds ==
    \A i \in 1 .. Len(chunks) :
        /\ chunks[i].size <= MAX_CHUNK
        /\ chunks[i].size >= MIN_CHUNK \/ Len(content) < MIN_CHUNK

Shifted(cs, by) == [i \in 1 .. Len(cs) |-> [cs[i] EXCEPT !.start = @ + by]]

(* What makes chunks worth sharing (core.py, CHUNKABLE_EXTS: "a small edit    *)
(* only shifts the chunks touching it"): from any cut on, the chunks are      *)
(* those of the rest of the file cut as a file of its own. Two files with one *)
(* tail that both cut where it starts share every chunk of the tail.          *)
TailCutsAlone ==
    finished => \A i \in 1 .. Len(chunks) :
        LET from == chunks[i].start
            tail == SubSeq(content, from + 1, Len(content)) IN
        SubSeq(chunks, i, Len(chunks)) = Shifted(ChunksOf(tail, Len(tail)), from)
=============================================================================
