------------------------------ MODULE GearCutter -----------------------------
(***************************************************************************)
(* Content-defined chunking (src/core.cpp, CdcCutter): where the cut       *)
(* points of a file fall, found byte by byte with a gear rolling hash.     *)
(***************************************************************************)
EXTENDS Integers, Sequences, SequencesExt

CONSTANTS
    Byte,
    Gear,         \* Gear[b]: the random word of the byte b
    Word,         \* the hash is kept modulo Word (2^64)
    MIN_CHUNK, AVG_CHUNK, MAX_CHUNK

(* chunk_and_hash_file_core rejects the other orders; MAX_CHUNK is 16 times   *)
(* MIN_CHUNK in every call of the program.                                    *)
ASSUME CutterAssumption ==
    /\ Gear \in [Byte -> Nat] /\ Word \in Nat \ {0}
    /\ MIN_CHUNK \in Nat \ {0} /\ AVG_CHUNK \in Nat /\ MAX_CHUNK \in Nat
    /\ MIN_CHUNK <= AVG_CHUNK /\ AVG_CHUNK <= MAX_CHUNK
    /\ 2 * MIN_CHUNK - 1 <= MAX_CHUNK

-----------------------------------------------------------------------------
(* mask + 1: the largest power of two up to AVG_CHUNK.                        *)
Pow2 == CHOOSE p \in {2 ^ k : k \in 0 .. AVG_CHUNK} : p <= AVG_CHUNK /\ 2 * p > AVG_CHUNK

Fresh == [pos |-> 0, start |-> 0, hash |-> 0]

Rolled(hash, b) == (2 * hash + Gear[b]) % Word
Trips(hash) == hash % Pow2 = 0

(* May a cut fall at pos, in a file of size bytes? (When pos is beyond size   *)
(* the unsigned difference wraps, and pos < size is what says no.)            *)
EnoughLeft(pos, size) == pos < size /\ size - pos >= MIN_CHUNK

(* The reasons to cut after a chunk of n bytes: the content, the cap, or the  *)
(* last position at which the tail is not too short. The variant has no such  *)
(* last chance.                                                               *)
WantsCutNoLastChance(n, pos, size, hash) ==
    (Trips(hash) /\ n >= MIN_CHUNK /\ n < MAX_CHUNK) \/ n >= MAX_CHUNK
WantsCut(n, pos, size, hash) ==
    \/ Trips(hash) /\ n >= MIN_CHUNK /\ n < MAX_CHUNK
    \/ n >= MAX_CHUNK
    \/ size > MIN_CHUNK /\ pos = size - MIN_CHUNK /\ n >= MIN_CHUNK
       /\ n + MIN_CHUNK > MAX_CHUNK

(* CdcCutter::feed, and a variant that carries the hash over a cut.           *)
FeedKeepsHash(c, b, size) ==
    LET pos == c.pos + 1
        hash == Rolled(c.hash, b) IN
    IF WantsCut(pos - c.start, pos, size, hash) /\ EnoughLeft(pos, size)
    THEN [pos |-> pos, start |-> pos, hash |-> hash]
    ELSE [pos |-> pos, start |-> c.start, hash |-> hash]
Feed(c, b, size) ==
    LET pos == c.pos + 1
        hash == Rolled(c.hash, b) IN
    IF WantsCut(pos - c.start, pos, size, hash) /\ EnoughLeft(pos, size)
    THEN [pos |-> pos, start |-> pos, hash |-> 0]
    ELSE [pos |-> pos, start |-> c.start, hash |-> hash]

(* The chunk [start, size] that ends where the cutter moved from c to d.      *)
ClosedChunk(c, d) == [start |-> c.start, size |-> d.start - c.start]

(* One more byte for a cutter and the chunks that it has closed.              *)
FedOne(acc, b, size) ==
    LET d == Feed(acc.cutter, b, size) IN
    [cutter |-> d,
     chunks |-> IF d.start = acc.cutter.start THEN acc.chunks
                ELSE Append(acc.chunks, ClosedChunk(acc.cutter, d))]

(* A new cutter, told the file has size bytes, after each of the first bytes. *)
Cutting(bytes, size) ==
    LET fed[n \in 0 .. Len(bytes)] ==
            IF n = 0 THEN [cutter |-> Fresh, chunks |-> <<>>]
            ELSE FedOne(fed[n - 1], bytes[n], size)
    IN fed

(* The chunks of bytes, found in one pass; the last one takes what is left    *)
(* after the last cut.                                                        *)
ChunksOf(bytes, size) ==
    LET end == Cutting(bytes, size)[Len(bytes)] IN
    Append(end.chunks, [start |-> end.cutter.start, size |-> size - end.cutter.start])
=============================================================================
