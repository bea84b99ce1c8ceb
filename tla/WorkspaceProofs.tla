-------------------------- MODULE WorkspaceProofs ---------------------------
(***************************************************************************)
(* The client's files: the bounds of every chunk, backups that restore in  *)
(* full once they verify, keys that are not lost, a push queue that the    *)
(* doctor leaves complete, a working tree whose index tells its bytes and  *)
(* whose files a checkout spares, exports that list all they found, and    *)
(* entries that give back what was added, for any files, layer tables,     *)
(* gear tables, keys, commits and failures.                                *)
(***************************************************************************)
EXTENDS CdcCutter, Backup, SigningKeys, Doctor, WorkTree, Transfer, Staging, OrderLemmas,
        FiniteSetTheorems, TLAPS

-----------------------------------------------------------------------------
(* The chunk cutter.                                                        *)

(* Up to the last position where a cut may fall the open chunk is below the   *)
(* cap, and from there on it and the tail together are within it.             *)
InReach ==
    /\ cutter.start <= cutter.pos /\ cutter.pos <= Len(content)
    /\ cutter.start # 0 => Len(content) - cutter.start >= MIN_CHUNK
    /\ cutter.pos <= Len(content) - MIN_CHUNK => cutter.pos - cutter.start < MAX_CHUNK
    /\ cutter.pos >= Len(content) - MIN_CHUNK => Len(content) - cutter.start <= MAX_CHUNK

CutterInv == CutterTypeOK /\ InReach /\ ChunkBounds

-----------------------------------------------------------------------------
(* The rolling hash stays a number (CdcCutter::feed).                         *)
LEMMA RolledIsNat ==
    ASSUME NEW h \in Nat, NEW b \in Byte
    PROVE  Rolled(h, b) \in Nat
<1>1. Gear[b] \in Nat
  BY CutterAssumption
<1>2. 2 * h + Gear[b] \in Nat
  BY <1>1
<1> DEFINE n == 2 * h + Gear[b]
<1> HIDE DEF n
<1>3. n % Word \in Nat
  BY <1>2, CutterAssumption DEF n
<1> QED
  BY <1>3 DEF n, Rolled

(* A cut by feed leaves at least MIN_CHUNK bytes and closes a chunk of at     *)
(* least MIN_CHUNK bytes; at the last chance it is taken if it has to be.     *)
LEMMA FeedCuts ==
    ASSUME NEW c \in [pos : Nat, start : Nat, hash : Nat], NEW b \in Byte,
           NEW size \in Nat, c.start <= c.pos, c.pos < size
    PROVE  /\ Feed(c, b, size) \in [pos : Nat, start : Nat, hash : Nat]
           /\ Feed(c, b, size).pos = c.pos + 1
           /\ \/ /\ Feed(c, b, size).start = c.start
                 /\ ~(/\ WantsCut(c.pos + 1 - c.start, c.pos + 1, size, Rolled(c.hash, b))
                      /\ EnoughLeft(c.pos + 1, size))
              \/ /\ Feed(c, b, size).start = c.pos + 1
                 /\ c.pos + 1 - c.start >= MIN_CHUNK
                 /\ c.pos + 1 <= size - MIN_CHUNK
<1> DEFINE hash == Rolled(c.hash, b)
           pos  == c.pos + 1
           cut  == WantsCut(pos - c.start, pos, size, hash) /\ EnoughLeft(pos, size)
<1>1. hash \in Nat
  BY RolledIsNat
<1>2. CASE cut
  <2>1. Feed(c, b, size) = [pos |-> pos, start |-> pos, hash |-> 0]
    BY <1>2 DEF Feed
  <2>2. pos - c.start >= MIN_CHUNK
    BY <1>2, CutterAssumption DEF WantsCut
  <2>3. pos <= size - MIN_CHUNK
    BY <1>2, CutterAssumption DEF EnoughLeft
  <2> QED
    BY <2>1, <2>2, <2>3
<1>3. CASE ~cut
  <2>1. Feed(c, b, size) = [pos |-> pos, start |-> c.start, hash |-> hash]
    BY <1>3 DEF Feed
  <2> QED
    BY <2>1, <1>1, <1>3
<1> QED
  BY <1>2, <1>3

(* feed cuts whenever it wants to and enough is left.                         *)
LEMMA FeedTakesCut ==
    ASSUME NEW c \in [pos : Nat, start : Nat, hash : Nat], NEW b \in Byte,
           NEW size \in Nat, c.start <= c.pos, Feed(c, b, size).start = c.start
    PROVE  ~(/\ WantsCut(c.pos + 1 - c.start, c.pos + 1, size, Rolled(c.hash, b))
             /\ EnoughLeft(c.pos + 1, size))
<1> DEFINE cut == /\ WantsCut(c.pos + 1 - c.start, c.pos + 1, size, Rolled(c.hash, b))
                  /\ EnoughLeft(c.pos + 1, size)
<1> SUFFICES ASSUME cut PROVE FALSE
  OBVIOUS
<1>1. Feed(c, b, size) = [pos |-> c.pos + 1, start |-> c.pos + 1, hash |-> 0]
  BY DEF Feed
<1>2. c.start = c.pos + 1
  BY <1>1
<1> QED
  BY <1>2

-----------------------------------------------------------------------------
(* A new file is in reach of its end.                                         *)
LEMMA CutterInitially == CutterInit => CutterInv
<1> SUFFICES ASSUME CutterInit PROVE CutterInv
  OBVIOUS
<1>1. PICK n \in 0 .. MaxLen : content \in [1 .. n -> Byte]
  BY DEF CutterInit
<1>2. content \in Seq(Byte) /\ Len(content) = n
  BY <1>1, LengthAssumption
<1>3. cutter = [pos |-> 0, start |-> 0, hash |-> 0] /\ chunks = <<>> /\ finished = FALSE
  BY DEF CutterInit, Fresh
<1>4. CutterTypeOK
  <2>1. cutter \in [pos : Nat, start : Nat, hash : Nat]
    BY <1>3
  <2>2. chunks \in Seq([start : Nat, size : Nat])
    BY <1>3
  <2>3. finished \in BOOLEAN
    BY <1>3
  <2> QED
    BY <1>2, <2>1, <2>2, <2>3 DEF CutterTypeOK
<1>5. InReach
  BY <1>2, <1>3, CutterAssumption DEF InReach
<1>6. ChunkBounds
  BY <1>3 DEF ChunkBounds
<1> QED
  BY <1>4, <1>5, <1>6 DEF CutterInv

(* Appending a chunk within the bounds keeps every chunk within them.         *)
LEMMA AppendWithin ==
    ASSUME NEW cs \in Seq([start : Nat, size : Nat]), NEW x \in [start : Nat, size : Nat],
           NEW len \in Nat,
           \A i \in 1 .. Len(cs) : cs[i].size <= MAX_CHUNK
                                   /\ (cs[i].size >= MIN_CHUNK \/ len < MIN_CHUNK),
           x.size <= MAX_CHUNK, x.size >= MIN_CHUNK \/ len < MIN_CHUNK
    PROVE  \A i \in 1 .. Len(Append(cs, x)) :
               /\ Append(cs, x)[i].size <= MAX_CHUNK
               /\ Append(cs, x)[i].size >= MIN_CHUNK \/ len < MIN_CHUNK
<1> TAKE i \in 1 .. Len(Append(cs, x))
<1>1. CASE i = Len(cs) + 1
  BY <1>1
<1>2. CASE i # Len(cs) + 1
  <2>1. i \in 1 .. Len(cs) /\ Append(cs, x)[i] = cs[i]
    BY <1>2
  <2> QED
    BY <2>1
<1> QED
  BY <1>1, <1>2

(* One more byte: a chunk closed by it is within the bounds, and the rest of  *)
(* the file stays in reach.                                                   *)
LEMMA FeedByteInReach ==
    ASSUME CutterInv, FeedByte
    PROVE  CutterInv'
<1> DEFINE size == Len(content)
           b    == content[cutter.pos + 1]
<1>1. /\ cutter \in [pos : Nat, start : Nat, hash : Nat]
      /\ content \in Seq(Byte) /\ size \in Nat
      /\ cutter.pos < size /\ cutter.start <= cutter.pos
      /\ content' = content /\ finished' = finished
  BY DEF CutterInv, CutterTypeOK, InReach, FeedByte
<1>2. b \in Byte
  BY <1>1
<1>3. cutter' = Feed(cutter, b, size)
  BY DEF FeedByte
<1> HIDE DEF b
<1>4. /\ cutter' \in [pos : Nat, start : Nat, hash : Nat]
      /\ cutter'.pos = cutter.pos + 1
  BY <1>1, <1>2, <1>3, FeedCuts
<1>5. CASE cutter'.start # cutter.start
  <2>1. /\ cutter'.start = cutter.pos + 1
        /\ cutter.pos + 1 - cutter.start >= MIN_CHUNK
        /\ cutter.pos + 1 <= size - MIN_CHUNK
    BY <1>1, <1>2, <1>3, <1>5, FeedCuts
  <2>2. cutter.pos - cutter.start < MAX_CHUNK
    BY <1>1, <2>1, CutterAssumption DEF CutterInv, InReach
  <2>3. InReach'
    <3>1. MIN_CHUNK \in Nat /\ MAX_CHUNK \in Nat /\ MIN_CHUNK <= MAX_CHUNK /\ 0 < MAX_CHUNK
      BY CutterAssumption
    <3>2. /\ cutter'.start = cutter'.pos /\ cutter'.pos \in Nat /\ size \in Nat
          /\ cutter'.pos <= size - MIN_CHUNK
      BY <1>1, <1>4, <2>1
    <3>3. /\ cutter'.pos - cutter'.start < MAX_CHUNK /\ size - cutter'.start >= MIN_CHUNK
          /\ cutter'.pos >= size - MIN_CHUNK => size - cutter'.start <= MAX_CHUNK
          /\ cutter'.start <= cutter'.pos /\ cutter'.pos <= size
      BY <3>1, <3>2
    <3> QED BY <1>1, <3>3 DEF InReach
  <2> DEFINE x == ClosedChunk(cutter, cutter')
  <2> DEFINE n == cutter.pos + 1 - cutter.start
  <2>3a. x = [start |-> cutter.start, size |-> n]
    <3>1. cutter'.start - cutter.start = n
      BY <1>1, <2>1
    <3> QED
      BY <3>1 DEF ClosedChunk
  <2>3b. n \in Nat /\ n <= MAX_CHUNK /\ n >= MIN_CHUNK /\ cutter.start \in Nat
    BY <1>1, <2>1, <2>2, CutterAssumption
  <2> HIDE DEF n
  <2>4. /\ x \in [start : Nat, size : Nat]
        /\ x.size <= MAX_CHUNK /\ x.size >= MIN_CHUNK
    BY <2>3a, <2>3b
  <2>5. chunks' = Append(chunks, x)
    BY <1>5 DEF FeedByte
  <2> HIDE DEF x
  <2>6. chunks \in Seq([start : Nat, size : Nat])
    BY DEF CutterInv, CutterTypeOK
  <2>7. chunks' \in Seq([start : Nat, size : Nat])
    BY <2>4, <2>5, <2>6
  <2>8. ChunkBounds'
    BY <1>1, <2>4, <2>5, <2>6, AppendWithin, Zenon DEF CutterInv, ChunkBounds
  <2> QED
    <3>1. CutterTypeOK'
      BY <1>1, <1>4, <2>7 DEF CutterInv, CutterTypeOK
    <3> QED
      BY <2>3, <2>8, <3>1 DEF CutterInv
<1>6. CASE cutter'.start = cutter.start
  <2>1. ~(/\ WantsCut(cutter.pos + 1 - cutter.start, cutter.pos + 1, size,
                      Rolled(cutter.hash, b))
          /\ EnoughLeft(cutter.pos + 1, size))
    BY <1>1, <1>2, <1>3, <1>6, FeedTakesCut
  <2>2. InReach'
    <3>1. ASSUME cutter.pos + 1 <= size - MIN_CHUNK
          PROVE  cutter.pos + 1 - cutter.start < MAX_CHUNK
      BY <1>1, <2>1, <3>1, CutterAssumption DEF WantsCut, EnoughLeft
    <3>2. ASSUME cutter.pos + 1 >= size - MIN_CHUNK
          PROVE  size - cutter.start <= MAX_CHUNK
      <4>1. CASE cutter.pos >= size - MIN_CHUNK
        BY <1>1, <4>1, CutterAssumption DEF CutterInv, InReach
      <4>2. CASE cutter.pos < size - MIN_CHUNK
        <5> DEFINE n == cutter.pos + 1 - cutter.start
        <5>0. /\ cutter.pos \in Nat /\ cutter.start \in Nat /\ size \in Nat
              /\ MIN_CHUNK \in Nat \ {0}
          BY <1>1, CutterAssumption
        <5> HIDE DEF size
        <5>1. /\ cutter.pos + 1 = size - MIN_CHUNK /\ size > MIN_CHUNK
              /\ n \in Nat /\ size - cutter.start = n + MIN_CHUNK
          BY <1>1, <3>2, <4>2, <5>0
        <5>2. EnoughLeft(cutter.pos + 1, size)
          BY <1>1, <5>1, CutterAssumption DEF EnoughLeft
        <5>3. ~WantsCut(n, cutter.pos + 1, size, Rolled(cutter.hash, b))
          BY <2>1, <5>2
        <5> HIDE DEF n
        <5>4. ~(n >= MIN_CHUNK /\ n + MIN_CHUNK > MAX_CHUNK)
          BY <5>1, <5>3 DEF WantsCut
        <5> QED
          BY <5>1, <5>4, CutterAssumption
      <4> QED
        BY <1>1, <4>1, <4>2, CutterAssumption
    <3>3. /\ Len(content') = size /\ cutter'.start = cutter.start
          /\ cutter'.pos = cutter.pos + 1
      BY <1>1, <1>4, <1>6
    <3>4. cutter.start # 0 => size - cutter.start >= MIN_CHUNK
      BY DEF CutterInv, InReach
    <3>5. cutter.start <= cutter.pos + 1 /\ cutter.pos + 1 <= size
      BY <1>1
    <3>6. cutter'.pos <= Len(content') - MIN_CHUNK
          => cutter'.pos - cutter'.start < MAX_CHUNK
      <4> SUFFICES ASSUME cutter'.pos <= Len(content') - MIN_CHUNK
                   PROVE  cutter'.pos - cutter'.start < MAX_CHUNK
        OBVIOUS
      <4>1. cutter.pos + 1 <= size - MIN_CHUNK
        BY <3>3
      <4>2. cutter.pos + 1 - cutter.start < MAX_CHUNK
        BY <3>1, <4>1
      <4> QED
        BY <1>1, <1>4, <3>3, <4>2
    <3>7. cutter'.pos >= Len(content') - MIN_CHUNK
          => Len(content') - cutter'.start <= MAX_CHUNK
      <4> SUFFICES ASSUME cutter'.pos >= Len(content') - MIN_CHUNK
                   PROVE  Len(content') - cutter'.start <= MAX_CHUNK
        OBVIOUS
      <4>1. cutter.pos + 1 >= size - MIN_CHUNK
        BY <3>3
      <4> QED
        BY <3>2, <3>3, <4>1
    <3>8. /\ cutter'.start <= cutter'.pos /\ cutter'.pos <= Len(content')
          /\ cutter'.start # 0 => Len(content') - cutter'.start >= MIN_CHUNK
      BY <3>3, <3>4, <3>5
    <3> QED
      BY <3>6, <3>7, <3>8, Zenon DEF InReach
  <2>3. chunks' = chunks
    BY <1>6 DEF FeedByte
  <2> QED
    BY <1>1, <1>4, <2>2, <2>3 DEF CutterInv, CutterTypeOK, ChunkBounds
<1> QED
  BY <1>5, <1>6

(* The last flush closes what is left of the file, which was in reach.        *)
LEMMA FlushLastInReach ==
    ASSUME CutterInv, FlushLast
    PROVE  CutterInv'
<1> DEFINE x == [start |-> cutter.start, size |-> Len(content) - cutter.start]
<1>1. /\ cutter \in [pos : Nat, start : Nat, hash : Nat]
      /\ content \in Seq(Byte) /\ Len(content) \in Nat
      /\ cutter.pos = Len(content) /\ cutter.start <= cutter.pos
      /\ content' = content /\ cutter' = cutter /\ finished' = TRUE
  BY DEF CutterInv, CutterTypeOK, InReach, FlushLast
<1>2. /\ x \in [start : Nat, size : Nat]
      /\ x.size <= MAX_CHUNK /\ (x.size >= MIN_CHUNK \/ Len(content) < MIN_CHUNK)
  BY <1>1, CutterAssumption DEF CutterInv, InReach
<1>3. chunks \in Seq([start : Nat, size : Nat]) /\ chunks' = Append(chunks, x)
  BY DEF CutterInv, CutterTypeOK, FlushLast
<1> HIDE DEF x
<1>4. chunks' \in Seq([start : Nat, size : Nat])
  BY <1>2, <1>3
<1>5. ChunkBounds'
  BY <1>1, <1>2, <1>3, AppendWithin DEF CutterInv, ChunkBounds
<1> QED
  BY <1>1, <1>4, <1>5 DEF CutterInv, CutterTypeOK, InReach

(* The types, the reach of the cutter and the bounds hold throughout.         *)
LEMMA CutterInvariant == CutterSpec => []CutterInv
<1>1. CutterInit => CutterInv
  BY CutterInitially
<1>2. CutterInv /\ [CutterNext]_cutterVars => CutterInv'
  <2> SUFFICES ASSUME CutterInv, [CutterNext]_cutterVars PROVE CutterInv'
    OBVIOUS
  <2>1. CASE FeedByte
    BY <2>1, FeedByteInReach
  <2>2. CASE FlushLast
    BY <2>2, FlushLastInReach
  <2>3. CASE UNCHANGED cutterVars
    BY <2>3 DEF cutterVars, CutterInv, CutterTypeOK, InReach, ChunkBounds
  <2> QED
    BY <2>1, <2>2, <2>3 DEF CutterNext
<1> QED
  BY <1>1, <1>2, PTL DEF CutterSpec

(* Every chunk of every file has MIN_CHUNK to MAX_CHUNK bytes, but for a file *)
(* shorter than MIN_CHUNK (core.cpp, CdcCutter::feed).                        *)
THEOREM ChunksWithinBounds == CutterSpec => []ChunkBounds
<1>1. CutterInv => ChunkBounds
  BY DEF CutterInv
<1> QED
  BY <1>1, CutterInvariant, PTL

-----------------------------------------------------------------------------
(* From a cut on, the chunks are those of the rest of the file by itself.    *)

(* A new cutter, and a cutter after each of the first n bytes. *)
Begun == [cutter |-> Fresh, chunks |-> <<>>]
IsCutting(f, n, bytes, size) ==
    f = [k \in 0 .. n |-> IF k = 0 THEN Begun ELSE FedOne(f[k - 1], bytes[k], size)]

(* Cutting is the choice of such a function... *)
LEMMA CuttingIsCutting ==
    ASSUME NEW bytes, NEW size
    PROVE  Cutting(bytes, size) = CHOOSE f : IsCutting(f, Len(bytes), bytes, size)
  BY DEF Cutting, IsCutting, Begun

(* ... one exists, for any number of bytes... *)
LEMMA CuttingExists ==
    ASSUME NEW bytes, NEW size, NEW n \in Nat
    PROVE  \E f : IsCutting(f, n, bytes, size)
  <1> DEFINE bad == {m \in Nat : ~ \E f : IsCutting(f, m, bytes, size)}
  <1> SUFFICES ASSUME bad # {} PROVE FALSE
    OBVIOUS
  <1>1. PICK m \in bad : \A k \in bad : m <= k
    BY LeastNat
  <1>2. m # 0
    <2> DEFINE f == [k \in 0 .. 0 |-> Begun]
    <2>1. IsCutting(f, 0, bytes, size)
      BY DEF IsCutting
    <2> QED
      BY <1>1, <2>1
  <1>3. m \in Nat /\ m - 1 \in Nat /\ m - 1 \notin bad
    BY <1>1, <1>2
  <1>4. PICK g : IsCutting(g, m - 1, bytes, size)
    BY <1>3
  <1> DEFINE f == [k \in 0 .. m |-> IF k = m THEN FedOne(g[m - 1], bytes[m], size) ELSE g[k]]
  <1>5. \A k \in 0 .. m - 1 : f[k] = g[k]
    BY <1>3
  <1>6. ASSUME NEW k \in 0 .. m
        PROVE  f[k] = IF k = 0 THEN Begun ELSE FedOne(f[k - 1], bytes[k], size)
    <2>1. CASE k = m
      BY <1>2, <1>3, <1>5, <2>1
    <2>2. CASE k # m
      <3>1. k \in 0 .. m - 1 /\ (k # 0 => k - 1 \in 0 .. m - 1)
        BY <1>3, <2>2
      <3>2. g[k] = IF k = 0 THEN Begun ELSE FedOne(g[k - 1], bytes[k], size)
        BY <1>4, <3>1, Zenon DEF IsCutting
      <3> QED
        BY <1>5, <3>1, <3>2
    <2> QED
      BY <2>1, <2>2
  <1>7. f = [k \in 0 .. m |-> f[k]]
    OBVIOUS
  <1> HIDE DEF f
  <1>8. IsCutting(f, m, bytes, size)
    BY <1>6, <1>7 DEF IsCutting
  <1> QED
    BY <1>1, <1>8

(* ... so Cutting starts from a new cutter and feeds it the bytes in turn *)
(* (chunk_and_hash_file_core, the first pass). *)
LEMMA CuttingFeeds ==
    ASSUME NEW bytes \in Seq(Byte), NEW size
    PROVE  /\ Cutting(bytes, size)[0] = Begun
           /\ \A k \in 1 .. Len(bytes) :
                 Cutting(bytes, size)[k] = FedOne(Cutting(bytes, size)[k - 1], bytes[k], size)
  <1>1. Len(bytes) \in Nat
    OBVIOUS
  <1> DEFINE w == Cutting(bytes, size)
  <1>2. IsCutting(w, Len(bytes), bytes, size)
    <2>1. \E f : IsCutting(f, Len(bytes), bytes, size)
      BY <1>1, CuttingExists
    <2> QED
      BY <2>1, CuttingIsCutting, Zenon
  <1>3. w = [k \in 0 .. Len(bytes) |-> IF k = 0 THEN Begun ELSE FedOne(w[k - 1], bytes[k], size)]
    BY <1>2, Zenon DEF IsCutting
  <1> HIDE DEF w
  <1>4. w[0] = Begun /\ \A k \in 1 .. Len(bytes) : w[k] = FedOne(w[k - 1], bytes[k], size)
    <2>1. 0 \in 0 .. Len(bytes) /\ \A k \in 1 .. Len(bytes) : k \in 0 .. Len(bytes) /\ k # 0
      BY <1>1
    <2> QED
      BY <1>3, <2>1, Zenon
  <1> QED
    BY <1>4 DEF w

(* A cutter and its chunks from the i-th on, as a cutter that was started s   *)
(* bytes later has them.                                                      *)
Later(c, s) == [pos |-> c.pos - s, start |-> c.start - s, hash |-> c.hash]
LaterFrom(cs, i, s) ==
    [j \in 1 .. Len(cs) + 1 - i |-> [start |-> cs[i + j - 1].start - s, size |-> cs[i + j - 1].size]]
AfterStart(c, cs, i, s) == [cutter |-> Later(c, s), chunks |-> LaterFrom(cs, i, s)]

(* feed decides alike for the file and for its rest: every condition is about *)
(* the open chunk or the bytes left (CdcCutter::feed). *)
LEMMA FeedLater ==
    ASSUME NEW c \in [pos : Nat, start : Nat, hash : Nat], NEW b \in Byte,
           NEW size \in Nat, NEW s \in Nat, s <= c.start, c.start <= c.pos, c.pos < size
    PROVE  Feed(Later(c, s), b, size - s) = Later(Feed(c, b, size), s)
<1> DEFINE p == c.pos + 1
           n == p - c.start
           h == Rolled(c.hash, b)
           d == Later(c, s)
<1>1. /\ d.pos + 1 = p - s /\ d.start = c.start - s /\ d.hash = c.hash
      /\ (p - s) - (c.start - s) = n
      /\ p \in Nat /\ n \in Nat /\ p >= s + 1
  BY DEF Later
<1>2. MIN_CHUNK \in Nat
  BY CutterAssumption
<1>3. WantsCut(n, p - s, size - s, h) <=> WantsCut(n, p, size, h)
  <2>1. (size - s > MIN_CHUNK /\ p - s = (size - s) - MIN_CHUNK)
        <=> (size > MIN_CHUNK /\ p = size - MIN_CHUNK)
    <3> HIDE DEF p
    <3> QED BY <1>1, <1>2
  <2> HIDE DEF p, n, h
  <2> QED BY <2>1 DEF WantsCut
<1>4. EnoughLeft(p - s, size - s) <=> EnoughLeft(p, size)
  <2> HIDE DEF p
  <2> QED BY <1>1, <1>2 DEF EnoughLeft
<1> DEFINE cut == WantsCut(n, p, size, h) /\ EnoughLeft(p, size)
<1>5. Feed(c, b, size) = IF cut THEN [pos |-> p, start |-> p, hash |-> 0]
                         ELSE [pos |-> p, start |-> c.start, hash |-> h]
  BY DEF Feed
<1>6. Feed(d, b, size - s) = IF cut THEN [pos |-> p - s, start |-> p - s, hash |-> 0]
                             ELSE [pos |-> p - s, start |-> c.start - s, hash |-> h]
  <2>1. Feed(d, b, size - s) =
           IF WantsCut((d.pos + 1) - d.start, d.pos + 1, size - s, Rolled(d.hash, b))
              /\ EnoughLeft(d.pos + 1, size - s)
           THEN [pos |-> d.pos + 1, start |-> d.pos + 1, hash |-> 0]
           ELSE [pos |-> d.pos + 1, start |-> d.start, hash |-> Rolled(d.hash, b)]
    BY DEF Feed
  <2> HIDE DEF d, p, n
  <2> QED BY <1>1, <1>3, <1>4, <2>1
<1> HIDE DEF cut, p, n, h, d
<1> QED BY <1>5, <1>6 DEF Later, d

Chunk == [start : Nat, size : Nat]

(* A function on 1 .. k is a sequence of length k. *)
LEMMA FunctionIsSeq ==
    ASSUME NEW T, NEW k \in Nat, NEW f \in [1 .. k -> T]
    PROVE  f \in Seq(T) /\ Len(f) = k
  OBVIOUS

(* A chunk that is closed in the file is closed in its rest. *)
LEMMA LaterAppend ==
    ASSUME NEW cs \in Seq(Chunk), NEW x \in Chunk, NEW s \in Nat, NEW i \in 1 .. Len(cs) + 1
    PROVE  /\ LaterFrom(Append(cs, x), i, s)
                = Append(LaterFrom(cs, i, s), [start |-> x.start - s, size |-> x.size])
           /\ LaterFrom(cs, i, s) \in Seq([start : Int, size : Nat])
           /\ Len(LaterFrom(cs, i, s)) = Len(cs) + 1 - i
<1> DEFINE n == Len(cs) + 1 - i
           l == LaterFrom(cs, i, s)
           y == [start |-> x.start - s, size |-> x.size]
           m == LaterFrom(Append(cs, x), i, s)
<1>1. Len(cs) \in Nat /\ i \in Nat /\ i >= 1 /\ n \in Nat
  OBVIOUS
<1>2. \A j \in 1 .. n : i + j - 1 \in 1 .. Len(cs)
  BY <1>1
<1>3. \A k \in 1 .. Len(cs) : cs[k] \in Chunk
  OBVIOUS
<1>4. y \in [start : Int, size : Nat]
  BY DEF Chunk
<1>5. /\ l = [j \in 1 .. n |-> [start |-> cs[i + j - 1].start - s, size |-> cs[i + j - 1].size]]
      /\ \A j \in 1 .. n : l[j] \in [start : Int, size : Nat]
  <2>1. \A j \in 1 .. n : cs[i + j - 1].start \in Nat /\ cs[i + j - 1].size \in Nat
    BY <1>2, <1>3 DEF Chunk
  <2> HIDE DEF n
  <2>2. l = [j \in 1 .. n |-> [start |-> cs[i + j - 1].start - s, size |-> cs[i + j - 1].size]]
    BY DEF n, LaterFrom
  <2> QED BY <2>1, <2>2
<1>6. l \in Seq([start : Int, size : Nat]) /\ Len(l) = n
  <2> HIDE DEF l
  <2> QED BY <1>1, <1>5
<1>7. /\ Append(cs, x) \in Seq(Chunk) /\ Len(Append(cs, x)) = Len(cs) + 1
      /\ Append(cs, x)[Len(cs) + 1] = x
      /\ \A k \in 1 .. Len(cs) : Append(cs, x)[k] = cs[k]
  OBVIOUS
<1> DEFINE a == Append(cs, x)
<1> HIDE DEF a
<1>8. m = [j \in 1 .. n + 1 |-> [start |-> a[i + j - 1].start - s, size |-> a[i + j - 1].size]]
  <2>1. Len(a) + 1 - i = n + 1
    BY <1>1, <1>7 DEF a
  <2> HIDE DEF n
  <2> QED BY <2>1 DEF LaterFrom, a
<1> HIDE DEF l, y, m
<1>9. /\ Append(l, y) \in Seq([start : Int, size : Nat]) /\ Len(Append(l, y)) = n + 1
      /\ Append(l, y)[n + 1] = y /\ \A j \in 1 .. n : Append(l, y)[j] = l[j]
  BY <1>1, <1>4, <1>6
<1>10. m \in Seq([start : Int, size : Nat]) /\ Len(m) = n + 1 /\ m[n + 1] = y
       /\ \A j \in 1 .. n : m[j] = l[j]
  <2>1. \A j \in 1 .. n : m[j] = l[j]
    BY <1>1, <1>2, <1>5, <1>7, <1>8 DEF a
  <2>2. m[n + 1] = y
    <3>1. i + (n + 1) - 1 = Len(cs) + 1 /\ n + 1 \in 1 .. n + 1
      BY <1>1
    <3>2. a[i + (n + 1) - 1] = x
      BY <1>7, <3>1 DEF a
    <3> HIDE DEF n
    <3> QED BY <1>8, <3>1, <3>2 DEF y
  <2>3. ASSUME NEW j \in 1 .. n + 1 PROVE m[j] \in [start : Int, size : Nat]
    <3>1. j \in 1 .. n \/ j = n + 1
      BY <1>1
    <3> HIDE DEF n
    <3> QED BY <1>4, <1>5, <2>1, <2>2, <3>1
  <2> HIDE DEF n
  <2>4. m \in [1 .. n + 1 -> [start : Int, size : Nat]]
    <3>1. m = [j \in 1 .. n + 1 |-> m[j]]
      BY <1>8
    <3> QED BY <2>3, <3>1
  <2>5. PICK k \in Nat : k = n + 1
    BY <1>1
  <2>6. m \in Seq([start : Int, size : Nat]) /\ Len(m) = n + 1
    <3>1. m \in [1 .. k -> [start : Int, size : Nat]]
      BY <2>4, <2>5
    <3>2. m \in Seq([start : Int, size : Nat]) /\ Len(m) = k
      BY <3>1, FunctionIsSeq
    <3> QED BY <2>5, <3>2
  <2> QED BY <2>1, <2>2, <2>6
<1>11. m = Append(l, y)
  <2>1. \A j \in 1 .. n + 1 : m[j] = Append(l, y)[j]
    <3> HIDE DEF n
    <3>1. \A j \in 1 .. n + 1 : j \in 1 .. n \/ j = n + 1
      BY <1>1
    <3>2. /\ m[n + 1] = y /\ \A j \in 1 .. n : m[j] = l[j]
          /\ Append(l, y)[n + 1] = y /\ \A j \in 1 .. n : Append(l, y)[j] = l[j]
      BY <1>9, <1>10
    <3> DEFINE a2 == Append(l, y)
    <3> HIDE DEF a2
    <3>3. a2[n + 1] = y /\ \A j \in 1 .. n : a2[j] = l[j]
      BY <3>2 DEF a2
    <3>4. \A j \in 1 .. n + 1 : m[j] = a2[j]
      BY <3>1, <3>2, <3>3
    <3> QED BY <3>4 DEF a2
  <2> HIDE DEF n
  <2> QED BY <1>9, <1>10, <2>1, SeqEqual
<1> QED BY <1>6, <1>11 DEF l, y, m

(* The chunks of the rest, moved back, are those of the file. *)
LEMMA LaterShifted ==
    ASSUME NEW cs \in Seq(Chunk), NEW s \in Nat, NEW i \in 1 .. Len(cs)
    PROVE  SubSeq(cs, i, Len(cs)) = Shifted(LaterFrom(cs, i, s), s)
<1> DEFINE n == Len(cs) + 1 - i
           l == LaterFrom(cs, i, s)
           t == SubSeq(cs, i, Len(cs))
<1>1. Len(cs) \in Nat /\ i \in Nat /\ i >= 1 /\ n \in Nat /\ i <= Len(cs) + 1
  OBVIOUS
<1>2. \A j \in 1 .. n : i + j - 1 \in 1 .. Len(cs) /\ cs[i + j - 1] \in Chunk
  BY <1>1
<1>3. t = [j \in 1 .. n |-> cs[i + j - 1]]
  BY <1>1
<1>4. l = [j \in 1 .. n |-> [start |-> cs[i + j - 1].start - s, size |-> cs[i + j - 1].size]]
  BY DEF LaterFrom
<1>5. Len(l) = n
  <2> HIDE DEF l
  <2>1. \A j \in 1 .. n : cs[i + j - 1].start \in Nat /\ cs[i + j - 1].size \in Nat
    BY <1>2 DEF Chunk
  <2> HIDE DEF n
  <2>2. \A j \in 1 .. n : l[j] \in [start : Int, size : Nat]
    BY <1>4, <2>1
  <2>3. l \in [1 .. n -> [start : Int, size : Nat]]
    BY <1>4, <2>2
  <2> QED BY <1>1, <2>3, FunctionIsSeq
<1> HIDE DEF n, l
<1>6. Shifted(l, s) = [j \in 1 .. n |-> [l[j] EXCEPT !.start = @ + s]]
  BY <1>5 DEF Shifted
<1>7. ASSUME NEW j \in 1 .. n PROVE [l[j] EXCEPT !.start = @ + s] = cs[i + j - 1]
  <2>1. PICK c \in Chunk : c = cs[i + j - 1]
    BY <1>2
  <2>2. l[j] = [start |-> c.start - s, size |-> c.size]
    BY <1>4, <2>1
  <2>3. c.start \in Nat /\ (c.start - s) + s = c.start
    BY DEF Chunk
  <2>4. c = [start |-> c.start, size |-> c.size]
    BY DEF Chunk
  <2>5. [l[j] EXCEPT !.start = @ + s] = [start |-> (c.start - s) + s, size |-> c.size]
    BY <2>2
  <2> QED BY <2>1, <2>3, <2>4, <2>5
<1> QED BY <1>3, <1>6, <1>7 DEF l

(* The bytes of the file from s on. *)
BytesFrom(bytes, s) == SubSeq(bytes, s + 1, Len(bytes))

(* The rest of a file is a file. *)
LEMMA TailIsSeq ==
    ASSUME NEW bytes \in Seq(Byte), NEW s \in 0 .. Len(bytes)
    PROVE  /\ BytesFrom(bytes, s) \in Seq(Byte) /\ Len(BytesFrom(bytes, s)) = Len(bytes) - s
           /\ \A k \in 1 .. Len(bytes) - s : BytesFrom(bytes, s)[k] = bytes[s + k]
<1>1. Len(bytes) \in Nat
  OBVIOUS
<1>2. \A k \in s + 1 .. Len(bytes) : bytes[k] \in Byte
  BY <1>1
<1>3. s + 1 \in 1 .. Len(bytes) + 1 /\ Len(bytes) \in s .. Len(bytes)
  BY <1>1
<1> QED BY <1>1, <1>2, <1>3, SubSeqProperties DEF BytesFrom

(* Where the i-th chunk starts, the open one included. *)
StartAt(cs, c, i) == IF i <= Len(cs) THEN cs[i].start ELSE c.start

(* A cutter run on the rest of the file from any cut on, up to the same byte,  *)
(* has closed the same chunks and stands at the same place.                   *)
CutsAlike(bytes, c, cs) ==
    \A i \in 1 .. Len(cs) + 1 :
        LET s == StartAt(cs, c, i) IN
        /\ s \in 0 .. c.start
        /\ Cutting(BytesFrom(bytes, s), Len(bytes) - s)[c.pos - s]
               = AfterStart(c, cs, i, s)

TailInv ==
    /\ CutterInv
    /\ IF finished THEN cutter.pos = Len(content) /\ TailCutsAlone
       ELSE CutsAlike(content, cutter, chunks)

(* One more byte keeps the two alike. *)
LEMMA FedLater ==
    ASSUME NEW c \in [pos : Nat, start : Nat, hash : Nat], NEW b \in Byte, NEW cs \in Seq(Chunk),
           NEW size \in Nat, NEW s \in 0 .. c.start, c.start <= c.pos, c.pos < size,
           NEW i \in 1 .. Len(cs) + 1
    PROVE  LET fed == FedOne([cutter |-> c, chunks |-> cs], b, size)
           IN  FedOne(AfterStart(c, cs, i, s), b, size - s) = AfterStart(fed.cutter, fed.chunks, i, s)
<1> DEFINE acc == AfterStart(c, cs, i, s)
           fed == FedOne([cutter |-> c, chunks |-> cs], b, size)
<1>0. acc = [cutter |-> Later(c, s), chunks |-> LaterFrom(cs, i, s)]
  BY DEF AfterStart
<1> SUFFICES FedOne(acc, b, size - s)
                = [cutter |-> Later(fed.cutter, s), chunks |-> LaterFrom(fed.chunks, i, s)]
  BY DEF AfterStart
<1> DEFINE d == Feed(c, b, size)
           e == Feed(Later(c, s), b, size - s)
<1>1. e = Later(d, s) /\ s \in Nat
  BY FeedLater
<1>2. /\ d \in [pos : Nat, start : Nat, hash : Nat]
      /\ d.start = c.start \/ d.start = c.pos + 1
  BY FeedCuts
<1> HIDE DEF d, acc
<1>3. fed = [cutter |-> d, chunks |-> IF d.start = c.start THEN cs ELSE Append(cs, ClosedChunk(c, d))]
  BY DEF FedOne, d
<1> HIDE DEF fed
<1>4. FedOne(acc, b, size - s) =
          [cutter |-> e, chunks |-> IF e.start = acc.cutter.start THEN acc.chunks
                                    ELSE Append(acc.chunks, ClosedChunk(acc.cutter, e))]
  BY <1>0 DEF FedOne
<1> HIDE DEF e
<1>5. e.start = acc.cutter.start <=> d.start = c.start
  BY <1>0, <1>1, <1>2 DEF Later
<1>6. CASE d.start = c.start
  BY <1>0, <1>1, <1>3, <1>4, <1>5, <1>6
<1>7. CASE d.start # c.start
  <2> DEFINE x == ClosedChunk(c, d)
  <2>1. x \in Chunk /\ x.start = c.start /\ x.size = d.start - c.start
    BY <1>2, <1>7 DEF ClosedChunk, Chunk
  <2>2. ClosedChunk(acc.cutter, e) = [start |-> x.start - s, size |-> x.size]
    <3>1. ClosedChunk(acc.cutter, e) = [start |-> acc.cutter.start, size |-> e.start - acc.cutter.start]
      BY DEF ClosedChunk
    <3>2. acc.cutter.start = c.start - s /\ e.start = d.start - s
      BY <1>0, <1>1 DEF Later
    <3>3. (d.start - s) - (c.start - s) = d.start - c.start
      BY <1>1, <1>2
    <3> QED BY <2>1, <3>1, <3>2, <3>3
  <2> HIDE DEF x
  <2>3. LaterFrom(Append(cs, x), i, s) = Append(acc.chunks, ClosedChunk(acc.cutter, e))
    <3>1. LaterFrom(Append(cs, x), i, s)
            = Append(LaterFrom(cs, i, s), [start |-> x.start - s, size |-> x.size])
      BY <1>1, <2>1, LaterAppend
    <3>2. acc.chunks = LaterFrom(cs, i, s)
      BY <1>0
    <3> QED BY <2>2, <3>1, <3>2
  <2>4. fed.cutter = d /\ fed.chunks = Append(cs, x)
    BY <1>3, <1>7 DEF x
  <2>5. FedOne(acc, b, size - s)
          = [cutter |-> e, chunks |-> Append(acc.chunks, ClosedChunk(acc.cutter, e))]
    BY <1>4, <1>5, <1>7
  <2> QED BY <1>1, <2>3, <2>4, <2>5
<1> QED BY <1>6, <1>7

(* Each start of a chunk stays one, and a new cut starts a cutter afresh. *)
LEMMA FeedByteCutsAlike ==
    ASSUME TailInv, FeedByte
    PROVE  TailInv'
<1> DEFINE c == cutter
           cs == chunks
           N == Len(content)
           b == content[c.pos + 1]
           fed == FedOne([cutter |-> c, chunks |-> cs], b, N)
<1>1. /\ c \in [pos : Nat, start : Nat, hash : Nat] /\ cs \in Seq(Chunk)
      /\ content \in Seq(Byte) /\ N \in Nat /\ c.start <= c.pos /\ c.pos < N
  BY DEF TailInv, CutterInv, CutterTypeOK, InReach, FeedByte, Chunk
<1>2. b \in Byte
  BY <1>1
<1>3. ~finished /\ CutsAlike(content, c, cs) /\ finished' = finished /\ content' = content
  BY <1>1 DEF TailInv, FeedByte
<1>4. CutterInv'
  BY FeedByteInReach DEF TailInv
<1>5. cutter' = fed.cutter /\ chunks' = fed.chunks
  BY DEF FedOne, FeedByte
<1>6. /\ cutter' = Feed(c, b, N) /\ cutter'.pos = c.pos + 1
      /\ cutter' \in [pos : Nat, start : Nat, hash : Nat]
      /\ cutter'.start = c.start \/ cutter'.start = c.pos + 1
  BY <1>1, <1>2, FeedCuts DEF FeedByte
<1>7. cutter'.start # c.start => cutter' = [pos |-> c.pos + 1, start |-> c.pos + 1, hash |-> 0]
  BY <1>6 DEF Feed
<1>8. /\ cutter'.start = c.start /\ chunks' = cs /\ Len(chunks') = Len(cs)
      \/ /\ cutter'.start # c.start /\ Len(chunks') = Len(cs) + 1
         /\ chunks'[Len(cs) + 1].start = c.start
         /\ \A k \in 1 .. Len(cs) : chunks'[k] = cs[k]
  <2>1. CASE cutter'.start = c.start
    BY <2>1 DEF FeedByte
  <2>2. CASE cutter'.start # c.start
    <3> DEFINE x == ClosedChunk(c, cutter')
    <3>1. chunks' = Append(cs, x) /\ x.start = c.start
      BY <2>2 DEF FeedByte, ClosedChunk
    <3> HIDE DEF x
    <3> QED BY <1>1, <2>2, <3>1
  <2> QED BY <2>1, <2>2
<1>9. Len(cs) \in Nat
  BY <1>1
<1> HIDE DEF b, fed, N
<1>10. CutsAlike(content, cutter', chunks')
  <2> SUFFICES ASSUME NEW i \in 1 .. Len(chunks') + 1, NEW s, s = StartAt(chunks', cutter', i)
               PROVE  /\ s \in 0 .. cutter'.start
                      /\ Cutting(BytesFrom(content, s), N - s)[cutter'.pos - s]
                            = AfterStart(cutter', chunks', i, s)
    BY DEF CutsAlike, N
  <2>1. CASE i \in 1 .. Len(cs) + 1
    <3>1. s = StartAt(cs, c, i)
      BY <1>8, <1>9, <2>1 DEF StartAt
    <3>2. /\ s \in 0 .. c.start
          /\ Cutting(BytesFrom(content, s), N - s)[c.pos - s]
                = AfterStart(c, cs, i, s)
      BY <1>3, <2>1, <3>1, Zenon DEF CutsAlike, N
    <3> DEFINE k == c.pos + 1 - s
               rest == BytesFrom(content, s)
               size == N - s
    <3>3. /\ k \in 1 .. size /\ k - 1 = c.pos - s /\ cutter'.pos - s = k /\ s + k = c.pos + 1
          /\ s \in 0 .. Len(content)
      <4>1. /\ s \in Nat /\ s <= c.start /\ c.start \in Nat /\ c.pos \in Nat /\ N \in Nat
            /\ c.start <= c.pos /\ c.pos < N /\ N = Len(content)
        BY <1>1, <3>2 DEF N
      <4>2. cutter'.pos = c.pos + 1
        BY <1>6
      <4> QED BY <4>1, <4>2
    <3> HIDE DEF k, size
    <3>4. rest \in Seq(Byte) /\ Len(rest) = size /\ rest[k] = b
      BY <1>1, <3>3, TailIsSeq DEF N, size, b
    <3> HIDE DEF rest
    <3>5. Cutting(rest, size)[k] = FedOne(Cutting(rest, size)[k - 1], b, size)
      BY <3>3, <3>4, CuttingFeeds
    <3> DEFINE acc == Cutting(rest, size)[k - 1]
    <3>6. FedOne(acc, b, size) = AfterStart(fed.cutter, fed.chunks, i, s)
      <4>1. acc = AfterStart(c, cs, i, s)
        BY <3>2, <3>3 DEF rest, size, AfterStart
      <4>2. FedOne(AfterStart(c, cs, i, s), b, N - s) = AfterStart(fed.cutter, fed.chunks, i, s)
        <5>1. /\ c \in [pos : Nat, start : Nat, hash : Nat] /\ b \in Byte /\ cs \in Seq(Chunk)
              /\ N \in Nat /\ s \in 0 .. c.start /\ c.start <= c.pos /\ c.pos < N
              /\ i \in 1 .. Len(cs) + 1
          BY <1>1, <1>2, <2>1, <3>2
        <5> HIDE DEF c, cs
        <5> QED BY <5>1, FedLater DEF fed
      <4> HIDE DEF acc
      <4>3. FedOne(acc, b, N - s) = AfterStart(fed.cutter, fed.chunks, i, s)
        BY <4>1, <4>2 DEF AfterStart
      <4> QED BY <4>3 DEF size
    <3>7. Cutting(rest, size)[cutter'.pos - s]
            = AfterStart(cutter', chunks', i, s)
      BY <1>5, <3>3, <3>5, <3>6
    <3>8. s \in 0 .. cutter'.start
      BY <1>1, <1>6, <3>2
    <3> QED BY <3>7, <3>8 DEF rest, size
  <2>2. CASE i \notin 1 .. Len(cs) + 1
    <3>1. /\ cutter'.start # c.start /\ i = Len(chunks') + 1 /\ Len(chunks') \in Nat
      BY <1>8, <1>9, <2>2
    <3>2. s = c.pos + 1 /\ cutter' = [pos |-> c.pos + 1, start |-> c.pos + 1, hash |-> 0]
      BY <1>7, <3>1 DEF StartAt
    <3>3. s \in 0 .. Len(content) /\ s \in 0 .. cutter'.start /\ cutter'.pos - s = 0
      BY <1>1, <3>2 DEF N
    <3>4. Cutting(BytesFrom(content, s), N - s)[0] = Begun
      BY <1>1, <3>3, TailIsSeq, CuttingFeeds
    <3>5. Later(cutter', s) = Fresh
      BY <1>1, <3>2 DEF Later, Fresh
    <3>6. LaterFrom(chunks', i, s) = <<>>
      <4>1. Len(chunks') + 1 - i = 0
        BY <3>1
      <4> QED BY <4>1 DEF LaterFrom
    <3> QED BY <3>3, <3>4, <3>5, <3>6 DEF Begun, AfterStart
  <2> QED BY <2>1, <2>2
<1> QED BY <1>3, <1>4, <1>10 DEF TailInv

(* The last chunk of the file is the last chunk of its rest. *)
LEMMA FlushLastCutsAlike ==
    ASSUME TailInv, FlushLast
    PROVE  TailInv'
<1> DEFINE c == cutter
           cs == chunks
           N == Len(content)
           x == [start |-> c.start, size |-> N - c.start]
<1>1. /\ c \in [pos : Nat, start : Nat, hash : Nat] /\ cs \in Seq(Chunk)
      /\ content \in Seq(Byte) /\ N \in Nat /\ c.start <= c.pos /\ c.pos = N
      /\ CutsAlike(content, c, cs) /\ Len(cs) \in Nat
  BY DEF TailInv, CutterInv, CutterTypeOK, InReach, FlushLast, Chunk
<1>2. CutterInv'
  BY FlushLastInReach DEF TailInv
<1>3. /\ chunks' = Append(cs, x) /\ content' = content /\ cutter' = c /\ finished'
  BY DEF FlushLast
<1>4. x \in Chunk /\ x.start = c.start /\ x.size = N - c.start
  BY <1>1 DEF Chunk
<1> HIDE DEF x
<1>5. /\ chunks' \in Seq(Chunk) /\ Len(chunks') = Len(cs) + 1
      /\ \A i \in 1 .. Len(cs) + 1 : chunks'[i].start = StartAt(cs, c, i)
  BY <1>1, <1>3, <1>4 DEF StartAt
<1>6. ASSUME NEW i \in 1 .. Len(chunks'), NEW from, from = chunks'[i].start
      PROVE  SubSeq(chunks', i, Len(chunks'))
                = Shifted(ChunksOf(BytesFrom(content, from), Len(BytesFrom(content, from))), from)
  <2> DEFINE rest == BytesFrom(content, from)
             size == N - from
             end == Cutting(rest, size)[size]
  <2>1. i \in 1 .. Len(cs) + 1 /\ from = StartAt(cs, c, i)
    BY <1>5, <1>6
  <2>2. /\ from \in 0 .. c.start
        /\ Cutting(rest, size)[c.pos - from]
               = AfterStart(c, cs, i, from)
    BY <1>1, <2>1, Zenon DEF CutsAlike
  <2>3. from \in 0 .. Len(content) /\ from \in Nat /\ c.pos - from = size
    BY <1>1, <2>2
  <2>4. Len(rest) = size
    BY <1>1, <2>3, TailIsSeq
  <2> HIDE DEF rest, size
  <2>5. end = AfterStart(c, cs, i, from)
    BY <2>2, <2>3
  <2>6. ChunksOf(rest, size)
          = Append(end.chunks, [start |-> end.cutter.start, size |-> size - end.cutter.start])
    BY <2>4 DEF ChunksOf
  <2> HIDE DEF end
  <2>7. [start |-> end.cutter.start, size |-> size - end.cutter.start]
          = [start |-> x.start - from, size |-> x.size]
    <3>1. end.cutter.start = c.start - from
      BY <2>5 DEF Later, AfterStart
    <3>2. size - (c.start - from) = N - c.start
      BY <1>1, <2>3 DEF size
    <3> QED BY <1>4, <3>1, <3>2
  <2>8. ChunksOf(rest, size) = LaterFrom(chunks', i, from)
    BY <1>1, <1>3, <1>4, <2>1, <2>3, <2>5, <2>6, <2>7, LaterAppend DEF AfterStart
  <2>9. SubSeq(chunks', i, Len(chunks')) = Shifted(LaterFrom(chunks', i, from), from)
    BY <1>5, <2>3, LaterShifted
  <2> QED BY <2>4, <2>8, <2>9 DEF rest
<1>7. TailCutsAlone'
  BY <1>3, <1>6 DEF TailCutsAlone, BytesFrom
<1> QED BY <1>1, <1>2, <1>3, <1>7 DEF TailInv

(* What the cutter has closed is alike throughout. *)
LEMMA TailInvariant == CutterSpec => []TailInv
<1>1. CutterInit => TailInv
  <2> SUFFICES ASSUME CutterInit PROVE TailInv
    OBVIOUS
  <2>1. CutterInv
    BY CutterInitially
  <2>2. cutter = Fresh /\ chunks = <<>> /\ finished = FALSE
    BY DEF CutterInit
  <2>3. content \in Seq(Byte) /\ Len(content) \in Nat
    BY <2>1 DEF CutterInv, CutterTypeOK
  <2>4. CutsAlike(content, cutter, chunks)
    <3> SUFFICES ASSUME NEW i \in 1 .. Len(chunks) + 1, NEW s, s = StartAt(chunks, cutter, i)
                 PROVE  /\ s \in 0 .. cutter.start
                        /\ Cutting(BytesFrom(content, s), Len(content) - s)[cutter.pos - s]
                              = AfterStart(cutter, chunks, i, s)
      BY DEF CutsAlike
    <3>1. i = 1 /\ s = 0 /\ cutter.pos = 0 /\ cutter.start = 0 /\ cutter.hash = 0 /\ Len(chunks) = 0
      BY <2>2 DEF StartAt, Fresh
    <3>2. Cutting(BytesFrom(content, s), Len(content) - s)[0] = Begun
      BY <2>3, <3>1, TailIsSeq, CuttingFeeds
    <3>3. Later(cutter, s) = Fresh
      BY <3>1 DEF Later, Fresh
    <3>4. LaterFrom(chunks, i, s) = <<>>
      <4>1. Len(chunks) + 1 - i = 0
        BY <3>1
      <4> QED BY <4>1 DEF LaterFrom
    <3> QED BY <3>1, <3>2, <3>3, <3>4 DEF Begun, AfterStart
  <2> QED BY <2>1, <2>2, <2>4 DEF TailInv
<1>2. TailInv /\ [CutterNext]_cutterVars => TailInv'
  <2> SUFFICES ASSUME TailInv, [CutterNext]_cutterVars PROVE TailInv'
    OBVIOUS
  <2>1. CASE FeedByte
    BY <2>1, FeedByteCutsAlike
  <2>2. CASE FlushLast
    BY <2>2, FlushLastCutsAlike
  <2>3. CASE UNCHANGED cutterVars
    BY <2>3 DEF cutterVars, TailInv, CutterInv, CutterTypeOK, InReach, ChunkBounds,
                TailCutsAlone, CutsAlike, StartAt
  <2> QED
    BY <2>1, <2>2, <2>3 DEF CutterNext
<1> QED
  BY <1>1, <1>2, PTL DEF CutterSpec

(* From any cut on, the chunks of any file are those of the rest of the file  *)
(* cut as a file of its own, for any gear table and chunk sizes (core.cpp,    *)
(* CdcCutter): two files with a common tail that cut where it starts share    *)
(* every chunk of the tail.                                                   *)
THEOREM TailsCutAlone == CutterSpec => []TailCutsAlone
<1>1. TailInv => TailCutsAlone
  BY DEF TailInv, TailCutsAlone
<1> QED
  BY <1>1, TailInvariant, PTL

-----------------------------------------------------------------------------
(* Backups.                                                                 *)

(* Files, and the records of the state. *)
DumpFile == [is : {"dump"}, commits : SUBSET Revision]
ArchiveFiles == [is : {"archive"}, files : SUBSET Blob]
Manifest == [is : {"manifest"}, database : DumpFile, objects : ArchiveFiles]
Directory == [database : {NoFile, Torn} \union DumpFile,
              objects : {NoFile, Torn} \union ArchiveFiles,
              manifest : {NoFile} \union Manifest]
BackupTyped ==
    /\ live \in Registry /\ target \in Target
    /\ doomed \in [rows : SUBSET Blob, files : SUBSET Blob] /\ broken \in SUBSET Revision
    /\ dir \in Directory
    /\ create \in [part : 0..3, todo : SUBSET Blob]
    /\ restore \in [step : {"away", "objects", "done"}, verified : BOOLEAN]

(* The registry keeps the files of the commits that were whole when they     *)
(* landed, whatever a collection unlinks; a commit is broken from the start.  *)
RegistryWhole ==
    /\ \A v \in live.commits \ broken : BlobsOf[v] \subseteq live.files \ doomed.files
    /\ broken \subseteq live.commits

(* Every commit of a dump that landed whole has all its objects in these files. *)
WholeIn(dump, files) == \A v \in dump.commits \ broken : BlobsOf[v] \subseteq files

(* The create that runs: the dump is behind the registry, and what its       *)
(* commits need is archived or still to be.                                  *)
CreateOnItsWay ==
    /\ create.part = 1 => dir.database = Torn
    /\ create.part = 2 => /\ dir.database \in DumpFile /\ dir.objects # NoFile
                          /\ dir.database.commits \subseteq live.commits
                          /\ WholeIn(dir.database, Archived \union create.todo)
    /\ create.part = 3 => /\ dir.database \in DumpFile /\ dir.objects \in ArchiveFiles
                          /\ WholeIn(dir.database, dir.objects.files)

ManifestWhole ==
    dir.manifest # NoFile => WholeIn(dir.manifest.database, dir.manifest.objects.files)

(* A restore that began with a backup that verified still has it before it. *)
RestoreOnItsWay ==
    restore.step = "objects" /\ restore.verified =>
        Verified /\ target.commits = dir.database.commits

OneCommand == create # NoCreate => restore.step # "objects"

BackupInv ==
    /\ BackupTyped /\ OneCommand /\ RegistryWhole /\ CreateOnItsWay /\ ManifestWhole
    /\ RestoreOnItsWay /\ VerifiedRestoreIsWhole

LEMMA FilesDiffer ==
    /\ NoFile # Torn
    /\ NoFile \notin DumpFile /\ NoFile \notin ArchiveFiles /\ NoFile \notin Manifest
    /\ Torn \notin DumpFile /\ Torn \notin ArchiveFiles
    /\ NoFile.is # "archive" /\ Torn.is # "archive" /\ NoFile.is # "dump" /\ Torn.is # "dump"
    /\ \A f \in DumpFile : f.is = "dump"
    /\ \A f \in ArchiveFiles : f.is = "archive"
  BY DEF NoFile, Torn, DumpFile, ArchiveFiles, Manifest

LEMMA PartNames ==
    ASSUME create.part \in 0..3
    PROVE  /\ Parts[1] = "database"
           /\ Part = "database" => create.part = 1
           /\ Part = "objects" => create.part = 2
  BY DEF Part, Parts

(* What is archived so far. *)
LEMMA ArchivedTypes ==
    ASSUME dir \in Directory
    PROVE  /\ Archived \in SUBSET Blob
           /\ dir.objects = Torn => Archived = {}
           /\ dir.objects \in ArchiveFiles => Archived = dir.objects.files
  BY FilesDiffer DEF Archived, Directory, ArchiveFiles

LEMMA BackupInitInv == BackupInit => BackupInv
<1> SUFFICES ASSUME BackupInit PROVE BackupInv
    OBVIOUS
<1>1. BackupTyped
    BY DEF BackupInit, BackupTyped, Registry, Target, EmptyRegistry, NoCollection, Directory, NoCreate,
           NoRestore
<1>2. RegistryWhole
    BY DEF BackupInit, RegistryWhole, EmptyRegistry, NoCollection
<1>3. CreateOnItsWay /\ ManifestWhole
    BY DEF BackupInit, CreateOnItsWay, ManifestWhole, NoCreate
<1>4. OneCommand /\ RestoreOnItsWay /\ VerifiedRestoreIsWhole
    BY DEF BackupInit, OneCommand, RestoreOnItsWay, VerifiedRestoreIsWhole, NoRestore
<1> QED BY <1>1, <1>2, <1>3, <1>4 DEF BackupInv

(* A step of the registry leaves what it needs, and forgets no commit. *)
LEMMA LiveStep ==
    ASSUME BackupInv, OnlyLive, live' \in Registry,
           doomed' \in [rows : SUBSET Blob, files : SUBSET Blob], broken' \in SUBSET Revision,
           RegistryWhole', live.commits \subseteq live'.commits, broken \subseteq broken'
    PROVE  BackupInv'
<1>1. BackupTyped'
    BY DEF BackupInv, BackupTyped, OnlyLive
<1>2. CreateOnItsWay'
    BY DEF BackupInv, CreateOnItsWay, OnlyLive, WholeIn, Archived
<1>3. OneCommand' /\ ManifestWhole' /\ RestoreOnItsWay' /\ VerifiedRestoreIsWhole'
    BY DEF BackupInv, OneCommand, ManifestWhole, RestoreOnItsWay, VerifiedRestoreIsWhole, OnlyLive, WholeIn,
           Verified, VerifiedDatabase
<1> QED BY <1>1, <1>2, <1>3 DEF BackupInv

(* A step of a create, while no restore has its files to read. *)
LEMMA CreateStep ==
    ASSUME BackupInv, OnlyCreate, dir' \in Directory,
           create' \in [part : 0..3, todo : SUBSET Blob],
           restore.step # "objects",
           CreateOnItsWay', ManifestWhole'
    PROVE  BackupInv'
<1>1. BackupTyped' /\ RegistryWhole'
    BY DEF BackupInv, BackupTyped, RegistryWhole, OnlyCreate
<1>2. OneCommand' /\ RestoreOnItsWay' /\ VerifiedRestoreIsWhole'
    BY DEF BackupInv, OneCommand, RestoreOnItsWay, VerifiedRestoreIsWhole, OnlyCreate, Verified,
           VerifiedDatabase
<1> QED BY <1>1, <1>2 DEF BackupInv

LEMMA BackupStepInv == BackupInv /\ [BackupNext]_backupVars => BackupInv'
<1> SUFFICES ASSUME BackupInv, [BackupNext]_backupVars PROVE BackupInv'
    OBVIOUS
<1>0. /\ BackupTyped /\ OneCommand /\ RegistryWhole /\ CreateOnItsWay /\ ManifestWhole
      /\ RestoreOnItsWay /\ VerifiedRestoreIsWhole
    BY DEF BackupInv
<1>1. ASSUME NEW b \in Blob, StoreFile(b) PROVE BackupInv'
  <2>1. /\ live' = [live EXCEPT !.files = @ \union {b}]
        /\ live' \in Registry /\ doomed' = doomed /\ broken' = broken /\ OnlyLive /\ b \notin live.files
      BY <1>0, <1>1 DEF StoreFile, BackupTyped, Registry
  <2>2. RegistryWhole' /\ live.commits \subseteq live'.commits
      BY <1>0, <2>1 DEF RegistryWhole, BackupTyped, Registry
  <2> QED BY <1>0, <2>1, <2>2, LiveStep DEF BackupTyped
<1>2. ASSUME NEW b \in Blob, AddRow(b) PROVE BackupInv'
  <2>1. /\ live' = [live EXCEPT !.rows = @ \union {b}]
        /\ live' \in Registry /\ doomed' = doomed /\ broken' = broken /\ OnlyLive
      BY <1>0, <1>2 DEF AddRow, BackupTyped, Registry
  <2>2. RegistryWhole' /\ live.commits \subseteq live'.commits
      BY <1>0, <2>1 DEF RegistryWhole, BackupTyped, Registry
  <2> QED BY <1>0, <2>1, <2>2, LiveStep DEF BackupTyped
<1>3. ASSUME NEW v \in Revision, LandRevision(v) PROVE BackupInv'
  <2>1. /\ live' = [live EXCEPT !.commits = @ \union {v}] /\ v \notin live.commits
        /\ live' \in Registry /\ doomed' = doomed /\ OnlyLive
        /\ broken' = IF Keeps(v) THEN broken ELSE broken \union {v}
      BY <1>0, <1>3 DEF LandRevision, BackupTyped, Registry
  <2>2. broken' \in SUBSET Revision /\ broken \subseteq broken'
      BY <1>0, <2>1 DEF BackupTyped
  <2>3. /\ live'.files = live.files /\ live'.commits = live.commits \union {v}
      BY <1>0, <2>1 DEF BackupTyped, Registry
  <2>4. ASSUME NEW u \in live'.commits \ broken'
        PROVE  BlobsOf[u] \subseteq live.files \ doomed.files
    <3>1. CASE u = v
        BY <2>1, <2>4, <3>1 DEF Keeps
    <3>2. CASE u # v
        BY <1>0, <2>2, <2>3, <2>4, <3>2 DEF RegistryWhole
    <3> QED BY <3>1, <3>2
  <2>5. broken' \subseteq live'.commits
      BY <1>0, <2>1, <2>3 DEF RegistryWhole
  <2>6. RegistryWhole'
      BY <2>1, <2>3, <2>4, <2>5 DEF RegistryWhole
  <2>7. \A u \in broken' \ broken : u = v
      BY <2>1
  <2> QED BY <1>0, <2>1, <2>2, <2>3, <2>6, LiveStep DEF BackupTyped
<1>4. ASSUME SelectUnused PROVE BackupInv'
  <2>1. /\ live' = live /\ broken' = broken /\ OnlyLive
        /\ doomed' \in [rows : SUBSET (live.rows \intersect Unused),
                        files : SUBSET (live.files \intersect Unused)]
      BY <1>4 DEF SelectUnused
  <2>2. /\ doomed' \in [rows : SUBSET Blob, files : SUBSET Blob]
        /\ doomed'.files \subseteq Unused
      BY <2>1 DEF Unused
  <2>3. \A v \in live.commits : BlobsOf[v] \intersect doomed'.files = {}
      BY <2>2 DEF Unused
  <2>4. \A v \in live.commits \ broken : BlobsOf[v] \subseteq live.files
      BY <1>0 DEF RegistryWhole
  <2>5. RegistryWhole'
      BY <1>0, <2>1, <2>3, <2>4 DEF RegistryWhole
  <2> QED BY <1>0, <2>1, <2>2, <2>5, LiveStep DEF BackupTyped
<1>5. ASSUME NEW b \in Blob, PurgeUnused(b) PROVE BackupInv'
  <2>1. /\ live' = [live EXCEPT !.files = @ \ {b}] /\ b \in doomed.files
        /\ live' \in Registry /\ broken' = broken /\ OnlyLive
        /\ doomed' = [doomed EXCEPT !.files = @ \ {b}]
        /\ doomed' \in [rows : SUBSET Blob, files : SUBSET Blob]
      BY <1>0, <1>5 DEF PurgeUnused, BackupTyped, Registry
  <2>2. /\ live'.files = live.files \ {b} /\ live'.commits = live.commits
        /\ doomed'.files \subseteq doomed.files
      BY <1>0, <2>1 DEF BackupTyped, Registry
  <2>3. RegistryWhole'
      BY <1>0, <2>1, <2>2 DEF RegistryWhole
  <2> QED BY <1>0, <2>1, <2>2, <2>3, LiveStep DEF BackupTyped
<1>6. ASSUME CommitPurge \/ CollectionFails PROVE BackupInv'
  <2>1. /\ live'.files = live.files /\ live'.commits = live.commits
        /\ live' \in Registry /\ doomed' = NoCollection /\ broken' = broken /\ OnlyLive
      BY <1>0, <1>6 DEF CommitPurge, CollectionFails, BackupTyped, Registry
  <2>2. doomed' \in [rows : SUBSET Blob, files : SUBSET Blob] /\ doomed'.files = {}
      BY <2>1 DEF NoCollection
  <2>3. RegistryWhole'
      BY <1>0, <2>1, <2>2 DEF RegistryWhole
  <2> QED BY <1>0, <2>1, <2>2, <2>3, LiveStep DEF BackupTyped
<1>7. ASSUME BeginCreate PROVE BackupInv'
  <2>0. create.part = 0 /\ Parts[1] = "database" /\ NextPart = [part |-> 1, todo |-> live.files]
      BY <1>7, PartNames DEF BeginCreate, NextPart, NoCreate
  <2>1. /\ OnlyCreate /\ restore.step # "objects" /\ dir' = [dir EXCEPT !.database = Torn]
        /\ create' = [part |-> 1, todo |-> live.files]
      BY <1>7, <2>0 DEF BeginCreate
  <2>2. dir' \in Directory /\ create' \in [part : 0..3, todo : SUBSET Blob]
      BY <1>0, <2>1 DEF BackupTyped, Directory, Registry
  <2>3. CreateOnItsWay' /\ ManifestWhole'
      BY <1>0, <2>1 DEF OnlyCreate, CreateOnItsWay, ManifestWhole, BackupTyped, Directory, WholeIn
  <2> QED BY <2>1, <2>2, <2>3, LiveStep, CreateStep
<1>8. ASSUME DumpDatabase PROVE BackupInv'
  <2>1. create.part = 1 /\ restore.step # "objects"
      BY <1>0, <1>8, PartNames DEF DumpDatabase, BackupTyped, OneCommand, NoCreate
  <2> DEFINE dumped == [dir EXCEPT !.database = Dump(live)]
  <2>2. /\ OnlyCreate
        /\ dir' = [dumped EXCEPT !.objects = Torn]
        /\ create' = [part |-> 2, todo |-> live.files]
    <3>1. NextPart = [part |-> 2, todo |-> live.files]
        BY <2>1 DEF NextPart
    <3>2. OpensNext(dumped, "objects") = [dumped EXCEPT !.objects = Torn]
        BY <2>1 DEF OpensNext
    <3> QED BY <1>8, <3>1, <3>2 DEF DumpDatabase
  <2>3. Dump(live) \in DumpFile /\ Dump(live).commits = live.commits
      BY <1>0 DEF Dump, DumpFile, BackupTyped, Registry
  <2>4. /\ dir' \in Directory /\ create' \in [part : 0..3, todo : SUBSET Blob]
        /\ dir'.database = Dump(live) /\ dir'.objects = Torn /\ dir'.manifest = dir.manifest
    <3>1. /\ dumped \in Directory /\ dumped.database = Dump(live)
          /\ dumped.manifest = dir.manifest
        BY <1>0, <2>3 DEF BackupTyped, Directory
    <3> HIDE DEF dumped
    <3> QED BY <1>0, <2>2, <2>3, <3>1 DEF BackupTyped, Directory, Registry
  <2>5. WholeIn(Dump(live), live.files)
      BY <1>0, <2>3 DEF WholeIn, RegistryWhole
  <2>6. CreateOnItsWay'
    <3>1. /\ create'.part = 2 /\ create'.todo = live.files /\ live' = live
        BY <2>2 DEF OnlyCreate
    <3> QED BY <2>2, <2>3, <2>4, <2>5, <3>1, FilesDiffer DEF OnlyCreate, CreateOnItsWay, WholeIn
  <2>7. ManifestWhole'
      BY <1>0, <2>2, <2>4 DEF OnlyCreate, ManifestWhole, WholeIn
  <2> QED BY <2>1, <2>2, <2>4, <2>6, <2>7, CreateStep
<1>9. ASSUME NEW b \in Blob, ArchiveFile(b) PROVE BackupInv'
  <2>1. create.part = 2 /\ restore.step # "objects"
      BY <1>0, <1>9, PartNames DEF ArchiveFile, BackupTyped, OneCommand, NoCreate
  <2> DEFINE new == Archive(Archived \union {b})
  <2>2. new \in ArchiveFiles /\ new.files = Archived \union {b}
      BY <1>0, ArchivedTypes DEF Archive, ArchiveFiles, BackupTyped
  <2>3. /\ OnlyCreate /\ dir' = [dir EXCEPT !.objects = new]
        /\ create' = [create EXCEPT !.todo = @ \ {b}]
      BY <1>9 DEF ArchiveFile
  <2> HIDE DEF new
  <2>4. /\ dir' \in Directory /\ create' \in [part : 0..3, todo : SUBSET Blob]
        /\ dir'.database = dir.database /\ dir'.objects = new /\ dir'.manifest = dir.manifest
        /\ create'.part = 2 /\ create'.todo = create.todo \ {b} /\ live' = live
      BY <1>0, <2>1, <2>2, <2>3 DEF BackupTyped, Directory, OnlyCreate
  <2>5. Archived' = Archived \union {b}
      BY <2>2, <2>4, ArchivedTypes, FilesDiffer DEF Archived
  <2>6. CreateOnItsWay'
      BY <1>0, <2>1, <2>2, <2>3, <2>4, <2>5, FilesDiffer DEF OnlyCreate, CreateOnItsWay, WholeIn
  <2>7. ManifestWhole'
      BY <1>0, <2>3, <2>4 DEF OnlyCreate, ManifestWhole, WholeIn
  <2> QED BY <2>1, <2>3, <2>4, <2>6, <2>7, CreateStep
<1>10. ASSUME NEW b \in Blob, SkipFile(b) PROVE BackupInv'
  <2>1. create.part = 2 /\ restore.step # "objects"
      BY <1>0, <1>10, PartNames DEF SkipFile, BackupTyped, OneCommand, NoCreate
  <2>2. /\ OnlyCreate /\ dir' = dir /\ create' = [create EXCEPT !.todo = @ \ {b}]
        /\ b \notin live.files
      BY <1>10 DEF SkipFile
  <2>3. /\ dir' \in Directory /\ create' \in [part : 0..3, todo : SUBSET Blob]
        /\ create'.part = 2 /\ create'.todo = create.todo \ {b} /\ live' = live
      BY <1>0, <2>1, <2>2 DEF BackupTyped, OnlyCreate
  <2>4. \A v \in dir.database.commits \ broken : b \notin BlobsOf[v]
      BY <1>0, <2>1, <2>2 DEF CreateOnItsWay, RegistryWhole
  <2>5. CreateOnItsWay' /\ ManifestWhole'
      BY <1>0, <2>1, <2>2, <2>3, <2>4 DEF OnlyCreate, CreateOnItsWay, WholeIn, Archived, ManifestWhole
  <2> QED BY <2>1, <2>2, <2>3, <2>5, CreateStep
<1>11. ASSUME EndArchive PROVE BackupInv'
  <2>1. create.part = 2 /\ restore.step # "objects"
      BY <1>0, <1>11, PartNames DEF EndArchive, BackupTyped, OneCommand, NoCreate
  <2> DEFINE new == Archive(Archived)
  <2>2. new \in ArchiveFiles /\ new.files = Archived
      BY <1>0, ArchivedTypes DEF Archive, ArchiveFiles, BackupTyped
  <2>3. /\ OnlyCreate /\ dir' = [dir EXCEPT !.objects = new] /\ create.todo = {}
        /\ create' = [part |-> 3, todo |-> live.files]
      BY <1>11, <2>1 DEF EndArchive, OpensNext, NextPart
  <2> HIDE DEF new
  <2>4. /\ dir' \in Directory /\ create' \in [part : 0..3, todo : SUBSET Blob]
        /\ dir'.database = dir.database /\ dir'.objects = new /\ dir'.manifest = dir.manifest
        /\ create'.part = 3
      BY <1>0, <2>2, <2>3 DEF BackupTyped, Directory, Registry
  <2>5. CreateOnItsWay' /\ ManifestWhole'
      BY <1>0, <2>1, <2>2, <2>3, <2>4 DEF OnlyCreate, CreateOnItsWay, ManifestWhole, WholeIn
  <2> QED BY <2>1, <2>3, <2>4, <2>5, CreateStep
<1>12. ASSUME WriteManifest PROVE BackupInv'
  <2> DEFINE new == [is |-> "manifest", database |-> dir.database, objects |-> dir.objects]
  <2>1. /\ OnlyCreate /\ dir' = [dir EXCEPT !.manifest = new] /\ create' = NoCreate
        /\ create.part = 3 /\ restore.step # "objects"
      BY <1>0, <1>12 DEF WriteManifest, OneCommand, NoCreate
  <2>2. /\ new \in Manifest /\ WholeIn(new.database, new.objects.files)
      BY <1>0, <2>1 DEF CreateOnItsWay, Manifest
  <2> HIDE DEF new
  <2>3. dir' \in Directory /\ dir'.manifest = new
      BY <1>0, <2>1, <2>2 DEF BackupTyped, Directory
  <2>4. create' \in [part : 0..3, todo : SUBSET Blob] /\ create'.part = 0
      BY <2>1 DEF NoCreate
  <2>5. CreateOnItsWay' /\ ManifestWhole'
      BY <2>1, <2>2, <2>3, <2>4 DEF OnlyCreate, CreateOnItsWay, ManifestWhole, WholeIn
  <2> QED BY <2>1, <2>3, <2>4, <2>5, CreateStep
<1>13. ASSUME CreateFails PROVE BackupInv'
  <2>1. OnlyCreate /\ dir' = dir /\ create' = NoCreate /\ restore.step # "objects"
      BY <1>0, <1>13 DEF CreateFails, OneCommand
  <2>2. create' \in [part : 0..3, todo : SUBSET Blob] /\ create'.part = 0 /\ dir' \in Directory
      BY <1>0, <2>1 DEF NoCreate, BackupTyped
  <2>3. CreateOnItsWay' /\ ManifestWhole'
      BY <1>0, <2>1, <2>2 DEF OnlyCreate, CreateOnItsWay, ManifestWhole, WholeIn
  <2> QED BY <2>1, <2>2, <2>3, CreateStep
<1>14. ASSUME RestoreDatabase PROVE BackupInv'
  <2>1. /\ OnlyRestore /\ create = NoCreate /\ dir.database \in DumpFile
        /\ target' = [target EXCEPT !.commits = dir.database.commits]
        /\ restore' = [step |-> "objects", verified |-> Verified]
      BY <1>0, <1>14, FilesDiffer DEF RestoreDatabase, BackupTyped, Directory
  <2>2. Verified \in BOOLEAN
      BY DEF Verified, VerifiedDatabase
  <2>3. BackupTyped'
      BY <1>0, <2>1, <2>2 DEF BackupTyped, OnlyRestore, Target, DumpFile
  <2>4. RegistryWhole' /\ CreateOnItsWay' /\ ManifestWhole' /\ OneCommand'
      BY <1>0, <2>1 DEF OnlyRestore, RegistryWhole, CreateOnItsWay, ManifestWhole, WholeIn,
         Archived, OneCommand
  <2>5. Verified' <=> Verified
      BY <2>1 DEF OnlyRestore, Verified, VerifiedDatabase
  <2>6. restore'.step = "objects" /\ restore'.verified = Verified
      BY <2>1
  <2>7. target'.commits = dir.database.commits /\ dir' = dir
      BY <1>0, <2>1 DEF BackupTyped, Target, OnlyRestore
  <2>8. RestoreOnItsWay' /\ VerifiedRestoreIsWhole'
      BY <2>5, <2>6, <2>7 DEF RestoreOnItsWay, VerifiedRestoreIsWhole
  <2> QED BY <2>3, <2>4, <2>8 DEF BackupInv
<1>15. ASSUME RestoreObjects PROVE BackupInv'
  <2>1. /\ OnlyRestore /\ create = NoCreate /\ restore.step = "objects"
        /\ target' = [target EXCEPT !.files = @ \union Archived]
        /\ restore' = [restore EXCEPT !.step = "done"]
      BY <1>15 DEF RestoreObjects
  <2>2. BackupTyped' /\ restore'.step = "done" /\ restore'.verified = restore.verified
      BY <1>0, <2>1, ArchivedTypes DEF BackupTyped, OnlyRestore, Target
  <2>3. RegistryWhole' /\ CreateOnItsWay' /\ ManifestWhole' /\ OneCommand'
      BY <1>0, <2>1 DEF OnlyRestore, RegistryWhole, CreateOnItsWay, ManifestWhole, WholeIn,
         Archived, OneCommand
  <2>4. ASSUME restore.verified
        PROVE  WholeIn(dir.database, Archived)
    <3>1. dir.manifest # NoFile /\ dir.manifest.database = dir.database
          /\ dir.manifest.objects = dir.objects
        BY <1>0, <2>1, <2>4 DEF RestoreOnItsWay, Verified, VerifiedDatabase
    <3>2. dir.objects \in ArchiveFiles
        BY <1>0, <3>1 DEF BackupTyped, Directory, Manifest
    <3> QED BY <1>0, <3>1, <3>2, ArchivedTypes DEF ManifestWhole, BackupTyped
  <2>5. target'.commits = target.commits /\ Archived \subseteq target'.files
      BY <1>0, <2>1 DEF BackupTyped, Target
  <2>6. VerifiedRestoreIsWhole'
      BY <1>0, <2>1, <2>2, <2>4, <2>5 DEF OnlyRestore, VerifiedRestoreIsWhole, RestoreOnItsWay, WholeIn
  <2>7. RestoreOnItsWay'
      BY <2>2 DEF RestoreOnItsWay
  <2> QED BY <2>2, <2>3, <2>6, <2>7 DEF BackupInv
<1>16. ASSUME RestoreFails PROVE BackupInv'
  <2>1. OnlyRestore /\ target' = target /\ restore' = NoRestore
      BY <1>16 DEF RestoreFails
  <2>2. BackupTyped' /\ OneCommand'
      BY <1>0, <2>1 DEF BackupTyped, OnlyRestore, NoRestore, OneCommand
  <2>3. RegistryWhole' /\ CreateOnItsWay' /\ ManifestWhole'
      BY <1>0, <2>1 DEF OnlyRestore, RegistryWhole, CreateOnItsWay, ManifestWhole, WholeIn, Archived
  <2>4. RestoreOnItsWay' /\ VerifiedRestoreIsWhole'
      BY <2>1 DEF NoRestore, RestoreOnItsWay, VerifiedRestoreIsWhole
  <2> QED BY <2>2, <2>3, <2>4 DEF BackupInv
<1>17. ASSUME UNCHANGED backupVars PROVE BackupInv'
    BY <1>0, <1>17 DEF backupVars, BackupInv, BackupTyped, OneCommand, RegistryWhole, CreateOnItsWay,
       ManifestWhole, RestoreOnItsWay, VerifiedRestoreIsWhole, WholeIn, Archived, Verified,
       VerifiedDatabase
<1> QED BY <1>1, <1>2, <1>3, <1>4, <1>5, <1>6, <1>7, <1>8, <1>9, <1>10, <1>11, <1>12, <1>13,
           <1>14, <1>15, <1>16, <1>17 DEF BackupNext

(* A backup that verifies restores every commit of its dump that was whole    *)
(* when it landed, with all its objects, for any blobs and revisions, although *)
(* pushes and collections run and fail between the dump and the archive, and  *)
(* any step of the backup may have failed.                                    *)
THEOREM VerifiedBackupsRestore == BackupSpec => [](BackupTypeOK /\ VerifiedRestoreIsWhole)
<1>1. BackupInv => BackupTypeOK /\ VerifiedRestoreIsWhole
    BY DEF BackupInv, BackupTyped, BackupTypeOK
<1> QED BY <1>1, BackupInitInv, BackupStepInv, PTL DEF BackupSpec
-----------------------------------------------------------------------------
(* Signing keys.                                                            *)

(* What the two files hold at each step of a command. *)
FilesAtStep ==
    /\ keyStep = "write pem" => pem = Empty /\ pub = Absent /\ fresh \in SigningKey \ minted
    /\ keyStep = "open pub" => pem = fresh /\ pub = Absent /\ fresh \in minted \ whole
    /\ keyStep = "write pub" => pem = fresh /\ pub = Empty /\ fresh \in minted
    /\ keyStep = "move pub" => pem = Absent /\ slot = SlotFor(pub)
    /\ keyStep = "generate" => pem = Absent /\ pub = Absent

(* A private half has its public one beside it from when it is whole, and    *)
(* an opened one has none.                                                   *)
HalvesGrow ==
    /\ pem = Empty => pub = Absent
    /\ pem \in SigningKey => pem \in minted
    /\ pem \in whole => pub = pem

(* Where a key is held: the slots it may lie in. *)
HeldInPlace(k) == pem = k \/ filed[k].pem = k \/ filed[Unknown].pem = k
FinishedInPlace == \A k \in whole : pem = k \/ filed[k].pem = k
WrittenInPlace == kills <= 1 => \A k \in minted : HeldInPlace(k)

(* A private half without a public one, and a used slot Unknown, took one    *)
(* killed command each.                                                      *)
Marred == keyStep = "none" /\ pem # Absent /\ pub \notin SigningKey
UnknownUsed == filed[Unknown].pem # Absent
KillsPaid ==
    /\ Marred \/ UnknownUsed => kills >= 1
    /\ Marred /\ UnknownUsed => kills >= 2

(* With no command killed, a rotation that runs has filed the private half.  *)
PairsSoFar ==
    kills = 0 =>
        \A k \in whole : \/ pem = k /\ pub = k
                         \/ filed[k] = [pem |-> k, pub |-> k]
                         \/ keyStep = "move pub" /\ pub = k /\ filed[k].pem = k

KeysInv ==
    /\ KeysTypeOK /\ FilesAtStep /\ HalvesGrow /\ HalvesMatch /\ FiledByFingerprint
    /\ FinishedInPlace /\ WrittenInPlace /\ KillsPaid /\ PairsSoFar

-----------------------------------------------------------------------------
(* The count of killed commands is a natural number.                        *)
LEMMA KillsCounted == KeysTypeOK => kills \in 0..MaxKills /\ kills \in Nat
<1>1. KeysTypeOK => kills \in 0..MaxKills
    BY DEF KeysTypeOK
<1> QED BY <1>1, KeysAssumption DEF KeysAssumption

LEMMA KeysInitInv == KeysInit => KeysInv
BY KeysAssumption DEF KeysAssumption, KeysInit, KeysInv, KeysTypeOK, FilesAtStep, HalvesGrow, HalvesMatch,
   FiledByFingerprint, FinishedInPlace, WrittenInPlace, KillsPaid, Marred, UnknownUsed,
   PairsSoFar, Slot

LEMMA KeysStepInv == KeysInv /\ [KeysNext]_keyVars => KeysInv'
<1> SUFFICES ASSUME KeysInv, [KeysNext]_keyVars PROVE KeysInv'
    OBVIOUS
<1> USE KeysAssumption DEF KeysAssumption
<1>1. ASSUME NEW k \in SigningKey, Keygen(k) \/ GenerateNext(k) PROVE KeysInv'
    <2>0. /\ keyStep \in {"none", "generate"} /\ pem = Absent /\ pub = Absent /\ k \notin minted
         /\ pem' = Empty /\ fresh' = k /\ keyStep' = "write pem"
         /\ UNCHANGED <<pub, filed, slot, minted, whole, signers, kills>>
        BY <1>1 DEF Keygen, GenerateNext, BeginGenerate, Vacant
    <2>1. KeysTypeOK'
        BY <2>0 DEF KeysInv, KeysTypeOK
    <2>2. FilesAtStep'
        BY <2>0 DEF KeysInv, FilesAtStep
    <2>3. HalvesGrow'
        BY <2>0 DEF KeysInv, KeysTypeOK, HalvesGrow
    <2>4. HalvesMatch'
        BY <2>0 DEF KeysInv, HalvesMatch
    <2>5. FiledByFingerprint'
        BY <2>0 DEF KeysInv, FiledByFingerprint
    <2>6. FinishedInPlace'
        BY <2>0 DEF KeysInv, KeysTypeOK, FinishedInPlace
    <2>7. WrittenInPlace'
        BY <2>0 DEF KeysInv, KeysTypeOK, WrittenInPlace, HeldInPlace
    <2>8. KillsPaid'
        BY <2>0 DEF KeysInv, KillsPaid, Marred, UnknownUsed
    <2>9. PairsSoFar'
        BY <2>0 DEF KeysInv, KeysTypeOK, PairsSoFar
    <2> QED BY <2>1, <2>2, <2>3, <2>4, <2>5, <2>6, <2>7, <2>8, <2>9 DEF KeysInv
<1>2. ASSUME WritePem PROVE KeysInv'
    <2>1. KeysTypeOK'
        BY <1>2 DEF KeysInv, KeysTypeOK, FilesAtStep, WritePem
    <2>2. FilesAtStep'
        BY <1>2 DEF KeysInv, KeysTypeOK, FilesAtStep, WritePem
    <2>3. HalvesGrow'
        BY <1>2 DEF KeysInv, KeysTypeOK, FilesAtStep, HalvesGrow, WritePem
    <2>4. HalvesMatch'
        BY <1>2 DEF KeysInv, FilesAtStep, HalvesMatch, WritePem
    <2>5. FiledByFingerprint'
        BY <1>2 DEF KeysInv, FiledByFingerprint, WritePem
    <2>6. FinishedInPlace'
        BY <1>2 DEF KeysInv, KeysTypeOK, FilesAtStep, FinishedInPlace, WritePem
    <2>7. WrittenInPlace'
        BY <1>2 DEF KeysInv, KeysTypeOK, FilesAtStep, WrittenInPlace, HeldInPlace, WritePem
    <2>8. KillsPaid'
        BY <1>2 DEF KeysInv, KillsPaid, Marred, UnknownUsed, WritePem
    <2>9. PairsSoFar'
        BY <1>2 DEF KeysInv, FilesAtStep, PairsSoFar, WritePem
    <2> QED BY <2>1, <2>2, <2>3, <2>4, <2>5, <2>6, <2>7, <2>8, <2>9 DEF KeysInv
<1>3. ASSUME OpenPub PROVE KeysInv'
    <2>1. KeysTypeOK'
        BY <1>3 DEF KeysInv, KeysTypeOK, OpenPub
    <2>2. FilesAtStep'
        BY <1>3 DEF KeysInv, FilesAtStep, OpenPub
    <2>3. HalvesGrow'
        BY <1>3 DEF KeysInv, KeysTypeOK, FilesAtStep, HalvesGrow, OpenPub
    <2>4. HalvesMatch'
        BY <1>3 DEF KeysInv, HalvesMatch, OpenPub
    <2>5. FiledByFingerprint'
        BY <1>3 DEF KeysInv, FiledByFingerprint, OpenPub
    <2>6. FinishedInPlace'
        BY <1>3 DEF KeysInv, FinishedInPlace, OpenPub
    <2>7. WrittenInPlace'
        BY <1>3 DEF KeysInv, WrittenInPlace, HeldInPlace, OpenPub
    <2>8. KillsPaid'
        BY <1>3 DEF KeysInv, KillsPaid, Marred, UnknownUsed, OpenPub
    <2>9. PairsSoFar'
        BY <1>3 DEF KeysInv, FilesAtStep, PairsSoFar, OpenPub
    <2> QED BY <2>1, <2>2, <2>3, <2>4, <2>5, <2>6, <2>7, <2>8, <2>9 DEF KeysInv
<1>4. ASSUME WritePub PROVE KeysInv'
    <2>1. KeysTypeOK'
        BY <1>4 DEF KeysInv, KeysTypeOK, FilesAtStep, WritePub
    <2>2. FilesAtStep'
        BY <1>4 DEF KeysInv, FilesAtStep, WritePub
    <2>3. HalvesGrow'
        BY <1>4 DEF KeysInv, FilesAtStep, HalvesGrow, WritePub
    <2>4. HalvesMatch'
        BY <1>4 DEF KeysInv, FilesAtStep, HalvesMatch, WritePub
    <2>5. FiledByFingerprint'
        BY <1>4 DEF KeysInv, FiledByFingerprint, WritePub
    <2>6. FinishedInPlace'
        BY <1>4 DEF KeysInv, FilesAtStep, FinishedInPlace, WritePub
    <2>7. WrittenInPlace'
        BY <1>4 DEF KeysInv, WrittenInPlace, HeldInPlace, WritePub
    <2>8. KillsPaid'
        BY <1>4 DEF KeysInv, KeysTypeOK, FilesAtStep, KillsPaid, Marred, UnknownUsed, WritePub
    <2>9. PairsSoFar'
        BY <1>4 DEF KeysInv, FilesAtStep, PairsSoFar, WritePub
    <2> QED BY <2>1, <2>2, <2>3, <2>4, <2>5, <2>6, <2>7, <2>8, <2>9 DEF KeysInv
<1>5. ASSUME Rotate PROVE KeysInv'
    <2>1. KeysTypeOK'
        BY <1>5 DEF KeysInv, KeysTypeOK, SlotFor, Slot, Rotate, Filing
    <2>2. FilesAtStep'
        BY <1>5 DEF KeysInv, FilesAtStep, Rotate, Filing
    <2>3. HalvesGrow'
        BY <1>5 DEF KeysInv, KeysTypeOK, HalvesGrow, Rotate, Filing
    <2>4. HalvesMatch'
        BY <1>5 DEF KeysInv, HalvesMatch, Rotate, Filing
    <2>5. FiledByFingerprint'
        BY <1>5 DEF KeysInv, KeysTypeOK, HalvesGrow, HalvesMatch, FiledByFingerprint, SlotFor,
           Slot, Rotate, Filing
    <2>6. FinishedInPlace'
        BY <1>5 DEF KeysInv, KeysTypeOK, HalvesGrow, HalvesMatch, FinishedInPlace, SlotFor, Slot,
           Rotate, Filing
    <2>7. WrittenInPlace'
        <3> SUFFICES ASSUME kills <= 1, NEW k \in minted PROVE HeldInPlace(k)'
            BY <1>5 DEF Rotate, WrittenInPlace
        <3>0. /\ pem # Absent /\ keyStep = "none" /\ SlotFor(pub) \in Slot /\ UNCHANGED minted
              /\ filed' = [filed EXCEPT ![SlotFor(pub)] =
                                 [pem |-> pem, pub |-> filed[SlotFor(pub)].pub]]
            BY <1>5 DEF Rotate, Filing, SlotFor, Slot
        <3>1. filed'[SlotFor(pub)].pem = pem
              /\ \A s \in Slot \ {SlotFor(pub)} : filed'[s] = filed[s]
            BY <3>0 DEF KeysInv, KeysTypeOK
        <3>2. HeldInPlace(k) /\ k \in SigningKey /\ k \in Slot /\ Unknown \in Slot
            BY DEF KeysInv, KeysTypeOK, WrittenInPlace, Slot
        <3>3. CASE pub \in SigningKey
            <4>1. pem = pub /\ SlotFor(pub) = pub
                BY <3>0, <3>3 DEF KeysInv, KeysTypeOK, HalvesGrow, HalvesMatch, SlotFor
            <4> QED BY <3>1, <3>2, <3>3, <4>1 DEF HeldInPlace
        <3>4. CASE pub \notin SigningKey
            <4>1. SlotFor(pub) = Unknown /\ Marred
                BY <3>0, <3>4 DEF SlotFor, Marred
            <4>2. filed[Unknown].pem = Absent
                BY <4>1, KillsCounted DEF KeysInv, KillsPaid, UnknownUsed
            <4> QED BY <3>1, <3>2, <4>1, <4>2 DEF HeldInPlace
        <3> QED BY <3>3, <3>4
    <2>8. KillsPaid'
        BY <1>5 DEF KeysInv, KeysTypeOK, KillsPaid, Marred, UnknownUsed, SlotFor, Slot, Rotate,
           Filing
    <2>9. PairsSoFar'
        BY <1>5 DEF KeysInv, KeysTypeOK, HalvesGrow, HalvesMatch, PairsSoFar, SlotFor, Slot,
           Rotate, Filing
    <2> QED BY <2>1, <2>2, <2>3, <2>4, <2>5, <2>6, <2>7, <2>8, <2>9 DEF KeysInv
<1>6. ASSUME MovePub PROVE KeysInv'
    <2>1. KeysTypeOK'
        BY <1>6 DEF KeysInv, KeysTypeOK, MovePub, Filing
    <2>2. FilesAtStep'
        BY <1>6 DEF KeysInv, FilesAtStep, MovePub, Filing
    <2>3. HalvesGrow'
        BY <1>6 DEF KeysInv, FilesAtStep, HalvesGrow, MovePub, Filing
    <2>4. HalvesMatch'
        BY <1>6 DEF KeysInv, HalvesMatch, MovePub, Filing
    <2>5. FiledByFingerprint'
        BY <1>6 DEF KeysInv, KeysTypeOK, FilesAtStep, FiledByFingerprint, SlotFor, Slot, MovePub,
           Filing
    <2>6. FinishedInPlace'
        BY <1>6 DEF KeysInv, KeysTypeOK, FinishedInPlace, Slot, MovePub, Filing
    <2>7. WrittenInPlace'
        BY <1>6 DEF KeysInv, KeysTypeOK, WrittenInPlace, HeldInPlace, Slot, MovePub, Filing
    <2>8. KillsPaid'
        BY <1>6 DEF KeysInv, KeysTypeOK, KillsPaid, Marred, UnknownUsed, Slot, MovePub, Filing
    <2>9. PairsSoFar'
        BY <1>6 DEF KeysInv, KeysTypeOK, FilesAtStep, FinishedInPlace, PairsSoFar, SlotFor, Slot,
           MovePub, Filing
    <2> QED BY <2>1, <2>2, <2>3, <2>4, <2>5, <2>6, <2>7, <2>8, <2>9 DEF KeysInv
<1>7. ASSUME SignCommit PROVE KeysInv'
    <2>1. KeysTypeOK'
        BY <1>7 DEF KeysInv, KeysTypeOK, HalvesGrow, SignCommit
    <2>2. FilesAtStep'
        BY <1>7 DEF KeysInv, FilesAtStep, SignCommit
    <2>3. HalvesGrow'
        BY <1>7 DEF KeysInv, HalvesGrow, SignCommit
    <2>4. HalvesMatch'
        BY <1>7 DEF KeysInv, HalvesMatch, SignCommit
    <2>5. FiledByFingerprint'
        BY <1>7 DEF KeysInv, FiledByFingerprint, SignCommit
    <2>6. FinishedInPlace'
        BY <1>7 DEF KeysInv, FinishedInPlace, SignCommit
    <2>7. WrittenInPlace'
        BY <1>7 DEF KeysInv, WrittenInPlace, HeldInPlace, SignCommit
    <2>8. KillsPaid'
        BY <1>7 DEF KeysInv, KillsPaid, Marred, UnknownUsed, SignCommit
    <2>9. PairsSoFar'
        BY <1>7 DEF KeysInv, PairsSoFar, SignCommit
    <2> QED BY <2>1, <2>2, <2>3, <2>4, <2>5, <2>6, <2>7, <2>8, <2>9 DEF KeysInv
<1>8. ASSUME DeleteLeftover PROVE KeysInv'
    <2>1. KeysTypeOK'
        BY <1>8 DEF KeysInv, KeysTypeOK, DeleteLeftover
    <2>2. FilesAtStep'
        BY <1>8 DEF KeysInv, FilesAtStep, DeleteLeftover
    <2>3. HalvesGrow'
        BY <1>8 DEF KeysInv, HalvesGrow, DeleteLeftover
    <2>4. HalvesMatch'
        BY <1>8 DEF KeysInv, HalvesMatch, DeleteLeftover
    <2>5. FiledByFingerprint'
        BY <1>8 DEF KeysInv, FiledByFingerprint, DeleteLeftover
    <2>6. FinishedInPlace'
        BY <1>8 DEF KeysInv, FinishedInPlace, DeleteLeftover
    <2>7. WrittenInPlace'
        BY <1>8 DEF KeysInv, WrittenInPlace, HeldInPlace, DeleteLeftover
    <2>8. KillsPaid'
        BY <1>8 DEF KeysInv, KillsPaid, Marred, UnknownUsed, DeleteLeftover
    <2>9. PairsSoFar'
        BY <1>8 DEF KeysInv, PairsSoFar, DeleteLeftover
    <2> QED BY <2>1, <2>2, <2>3, <2>4, <2>5, <2>6, <2>7, <2>8, <2>9 DEF KeysInv
<1>9. ASSUME Kill PROVE KeysInv'
    <2>1. kills \in Nat /\ kills < MaxKills /\ kills' = kills + 1
        BY <1>9, KillsCounted DEF Kill, KeysInv
    <2>2. /\ kills' \in 0..MaxKills /\ kills' >= 1
          /\ kills' <= 1 => kills <= 1
          /\ kills >= 1 => kills' >= 2
        BY <2>1, KeysAssumption DEF KeysAssumption
    <2>3. /\ keyStep' = "none" /\ UNCHANGED <<pem, pub, filed, slot, fresh, minted, whole, signers>>
        BY <1>9 DEF Kill
    <2>4. KeysTypeOK'
        BY <2>1, <2>2, <2>3 DEF KeysInv, KeysTypeOK
    <2>5. FilesAtStep'
        BY <2>1, <2>2, <2>3 DEF KeysInv, FilesAtStep
    <2>6. HalvesGrow'
        BY <2>1, <2>2, <2>3 DEF KeysInv, HalvesGrow
    <2>7. HalvesMatch'
        BY <2>1, <2>2, <2>3 DEF KeysInv, HalvesMatch
    <2>8. FiledByFingerprint'
        BY <2>1, <2>2, <2>3 DEF KeysInv, FiledByFingerprint
    <2>9. FinishedInPlace'
        BY <2>1, <2>2, <2>3 DEF KeysInv, FinishedInPlace
    <2>10. WrittenInPlace'
        BY <2>1, <2>2, <2>3 DEF KeysInv, WrittenInPlace, HeldInPlace
    <2>11. KillsPaid'
        BY <2>1, <2>2, <2>3 DEF KeysInv, KillsPaid, UnknownUsed
    <2>12. PairsSoFar'
        BY <2>1, <2>2, <2>3 DEF PairsSoFar
    <2> QED BY <2>4, <2>5, <2>6, <2>7, <2>8, <2>9, <2>10, <2>11, <2>12 DEF KeysInv
<1>10. CASE UNCHANGED keyVars
    <2>1. UNCHANGED <<pem, pub, filed, slot, keyStep, fresh, minted, whole, signers, kills>>
        BY <1>10 DEF keyVars
    <2>2. KeysTypeOK'
        BY <2>1 DEF KeysInv, KeysTypeOK
    <2>3. FilesAtStep'
        BY <2>1 DEF KeysInv, FilesAtStep, SlotFor
    <2>4. HalvesGrow'
        BY <2>1 DEF KeysInv, HalvesGrow
    <2>5. HalvesMatch'
        BY <2>1 DEF KeysInv, HalvesMatch, Marred
    <2>6. FiledByFingerprint'
        BY <2>1 DEF KeysInv, FiledByFingerprint
    <2>7. FinishedInPlace'
        BY <2>1 DEF KeysInv, FinishedInPlace
    <2>8. WrittenInPlace'
        BY <2>1 DEF KeysInv, WrittenInPlace, HeldInPlace
    <2>9. KillsPaid'
        BY <2>1 DEF KeysInv, KillsPaid, UnknownUsed, Marred
    <2>10. PairsSoFar'
        BY <2>1 DEF KeysInv, PairsSoFar
    <2> QED BY <2>2, <2>3, <2>4, <2>5, <2>6, <2>7, <2>8, <2>9, <2>10 DEF KeysInv
<1> QED BY <1>1, <1>2, <1>3, <1>4, <1>5, <1>6, <1>7, <1>8, <1>9, <1>10 DEF KeysNext

LEMMA IInvKeeps == KeysInv => KeysTypeOK /\ KeysKept
BY KeysAssumption DEF KeysAssumption, KeysInv, KeysTypeOK, KeysKept, FinishedKeysHeld, WrittenKeysHeld, Held,
   HeldInPlace, FinishedInPlace, WrittenInPlace, PairsTogether, PairsSoFar, Slot

(* A finished key is never lost, and one killed command loses none, whatever *)
(* keys are minted and however many generations and rotations are killed.      *)
THEOREM KeysAreKept == KeysSpec => []KeysKept
<1>1. KeysSpec => []KeysInv
    BY KeysInitInv, KeysStepInv, PTL DEF KeysSpec
<1> QED BY <1>1, IInvKeeps, PTL

-----------------------------------------------------------------------------
(* The doctor.                                                              *)

TempFile == Nat \X {"file", "queue", "push", "doctor", "merge"}
DoctorAt == [pc : {"away", "orphans", "pointers", "queue", "flush", "flushing", "list", "sweep"},
             index : SUBSET Artifact, rebuilt : SUBSET Artifact, queue : SUBSET CommitId,
             temps : SUBSET Object, unrenamed : SUBSET TempFile]
CommandAt == [pc : {"away", "file", "queue", "write", "ref"}, id : Nat, queue : SUBSET CommitId]
PushAt == [pc : {"away", "land", "rewrite", "remove", "write"}, taken : SUBSET CommitId,
           parents : SUBSET CommitId, queue : SUBSET CommitId]

IndexTyped ==
    /\ tracked \union relinked \union pointers \subseteq Artifact
    /\ local \union remote \union temps \subseteq Object
    /\ unrenamed \subseteq TempFile
    /\ doctor \in DoctorAt /\ doctor.queue \subseteq made

QueueTyped ==
    /\ committing \in CommandAt /\ pusher \in [Pusher -> PushAt]
    /\ commitFiles \union pushQueue \union delivered \union moved \subseteq made
    /\ made \subseteq CommitId
    /\ committing.queue \subseteq made
    /\ committing.pc = "file" => committing.id \in CommitId \ made
    /\ committing.pc \in {"queue", "write", "ref"} => committing.id \in made
    /\ \A q \in Pusher : pusher[q].taken \union pusher[q].queue \subseteq made

(* What must not leave the queue: commits queued by a commit that moves, or   *)
(* moved, its branch, but for those the property excepts.                     *)
Excused == delivered \union overwritten \union superseded
Committed == IF committing.pc = "ref" THEN moved \union {committing.id} ELSE moved
Due == (Committed \intersect commitFiles) \ Excused

(* It is in the queue, and in what whoever holds queue.lock will write back;  *)
(* only one of a commit and a removal holds it; what a removal takes away was *)
(* delivered.                                                                 *)
QueueSafe ==
    /\ Due \subseteq pushQueue
    /\ committing.pc = "write" => Due \subseteq committing.queue
    /\ \A q \in Pusher : pusher[q].pc = "write" => Due \subseteq pusher[q].queue
    /\ \A q \in Pusher : committing.pc = "write" => pusher[q].pc # "write"
    /\ \A q \in Pusher : pusher[q].pc # "land" =>
           pusher[q].taken \intersect commitFiles \subseteq delivered

DoctorInv == IndexTyped /\ QueueTyped /\ QueueSafe

LEMMA ObjectsAreObjects == \A p \in Artifact : Whole[p] \in Object
  BY DEF Object

LEMMA UploadTypes ==
    ASSUME IndexTyped PROVE Upload \subseteq Object
  BY DEF IndexTyped, Upload

LEMMA DoctorInitInv == DoctorInit => DoctorInv
<1> SUFFICES ASSUME DoctorInit PROVE DoctorInv
    OBVIOUS
<1>1. IndexTyped
    BY DEF DoctorInit, IndexTyped, DoctorAt, Away
<1>2. QueueTyped
    BY DEF DoctorInit, QueueTyped, CommandAt, PushAt, NoCommand, NoPush
<1>3. QueueSafe
    BY DEF DoctorInit, QueueSafe, Due, Committed, NoCommand, NoPush
<1> QED BY <1>1, <1>2, <1>3 DEF DoctorInv

(* A step that leaves commits and queue alone. *)
LEMMA QueueUntouched ==
    ASSUME QueueTyped, QueueSafe, UNCHANGED <<commitVars, queueVars>>
    PROVE  QueueTyped' /\ QueueSafe'
  BY DEF QueueTyped, QueueSafe, Due, Committed, Excused, commitVars, queueVars

(* A step that changes neither index, objects nor doctor. *)
LEMMA IndexUntouched ==
    ASSUME IndexTyped, UNCHANGED <<indexVars, objectVars, doctor>>,
           unrenamed' \subseteq TempFile, made \subseteq made'
    PROVE  IndexTyped'
  BY DEF IndexTyped, indexVars, objectVars

(* The steps of a commit. *)
LEMMA CommitSteps ==
    ASSUME DoctorInv,
           \/ \E c \in CommitId : BeginCommit(c)
           \/ \E ps \in SUBSET CommitId : MoveRef(ps)
           \/ StoreCommit \/ ReadToQueue \/ QueueCommit \/ CommitFails
    PROVE  DoctorInv'
<1>0. IndexTyped /\ QueueTyped /\ QueueSafe
    BY DEF DoctorInv
<1>1. ASSUME NEW c \in CommitId, BeginCommit(c) PROVE DoctorInv'
  <2>1. /\ committing' = [pc |-> "file", id |-> c, queue |-> {}] /\ c \notin made
        /\ unrenamed' = unrenamed \union {<<c, "file">>} /\ committing.pc = "away"
        /\ UNCHANGED <<made, moved, commitFiles, queueVars, indexVars, objectVars, doctor>>
      BY <1>1 DEF BeginCommit, ElsewhereQueue, Elsewhere, queueVars
  <2>2. IndexTyped'
      BY <1>0, <2>1, IndexUntouched DEF CommitId, IndexTyped, TempFile
  <2>3. QueueTyped'
      BY <1>0, <2>1 DEF QueueTyped, CommandAt, CommitId, queueVars
  <2>4. Due' = Due
      BY <2>1 DEF Due, Committed, Excused, queueVars
  <2>5. QueueSafe'
      BY <1>0, <2>1, <2>4 DEF QueueSafe, queueVars
  <2> QED BY <2>2, <2>3, <2>5 DEF DoctorInv
<1>2. ASSUME NEW ps \in SUBSET CommitId, MoveRef(ps) PROVE DoctorInv'
  <2>1. /\ committing' = NoCommand /\ moved' = moved \union {committing.id} /\ committing.pc = "ref"
        /\ ps \subseteq moved
        /\ UNCHANGED <<made, commitFiles, pushQueue, delivered, overwritten, superseded, unrenamed,
                       indexVars, objectVars, doctor>>
      BY <1>2 DEF MoveRef, Elsewhere
  <2>2. IndexTyped'
      BY <1>0, <2>1, IndexUntouched DEF IndexTyped
  <2>3. committing.id \in made /\ committing.id \in CommitId /\ ps \subseteq made
      BY <1>0, <2>1 DEF QueueTyped
  <2>4. committing' \in CommandAt /\ committing'.pc = "away" /\ committing'.queue = {}
      BY <2>1 DEF NoCommand, CommandAt
  <2> DEFINE landing == [NoPush EXCEPT !.pc = "land", !.taken = {committing.id}, !.parents = ps]
  <2>5. /\ landing \in PushAt /\ landing.pc = "land" /\ landing.taken = {committing.id}
        /\ landing.queue = {}
      BY <2>3 DEF NoPush, PushAt
  <2>6. pusher' = pusher \/ pusher' = [pusher EXCEPT !["merge"] = landing]
      BY <1>2 DEF MoveRef
  <2> HIDE DEF landing
  <2>7. /\ pusher' \in [Pusher -> PushAt]
        /\ \A q \in Pusher : pusher'[q] = pusher[q] \/ pusher'[q] = landing
      BY <1>0, <2>5, <2>6 DEF QueueTyped
  <2>8. QueueTyped'
      BY <1>0, <2>1, <2>3, <2>4, <2>5, <2>7 DEF QueueTyped
  <2>9. Due' = Due
      BY <2>1, <2>4 DEF Due, Committed, Excused
  <2>10. QueueSafe'
      BY <1>0, <2>1, <2>4, <2>5, <2>7, <2>9 DEF QueueSafe
  <2> QED BY <2>2, <2>8, <2>10 DEF DoctorInv
<1>3. ASSUME StoreCommit PROVE DoctorInv'
  <2>1. /\ committing.pc = "file" /\ committing' = [committing EXCEPT !.pc = "queue"]
        /\ made' = made \union {committing.id} /\ commitFiles' = commitFiles \union {committing.id}
        /\ unrenamed' \subseteq unrenamed
        /\ UNCHANGED <<moved, queueVars, indexVars, objectVars, doctor>>
      BY <1>3 DEF StoreCommit, ElsewhereQueue, Elsewhere, queueVars
  <2>2. IndexTyped'
      BY <1>0, <2>1, IndexUntouched DEF IndexTyped
  <2>3. committing.id \in CommitId \ made
      BY <1>0, <2>1 DEF QueueTyped
  <2>4. /\ committing' \in CommandAt /\ committing'.pc = "queue" /\ committing'.id = committing.id
        /\ committing'.queue = committing.queue
      BY <1>0, <2>1 DEF QueueTyped, CommandAt
  <2>5. QueueTyped'
      BY <1>0, <2>1, <2>3, <2>4 DEF QueueTyped, queueVars
  <2>6. Due' = Due
      BY <1>0, <2>1, <2>3, <2>4 DEF Due, Committed, Excused, QueueTyped, queueVars
  <2>7. \A q \in Pusher : committing.id \notin pusher[q].taken
      BY <1>0, <2>3 DEF QueueTyped
  <2>8. QueueSafe'
      BY <1>0, <2>1, <2>4, <2>6, <2>7 DEF QueueSafe, queueVars
  <2> QED BY <2>2, <2>5, <2>8 DEF DoctorInv
<1>4. ASSUME ReadToQueue PROVE DoctorInv'
  <2>1. /\ committing.pc = "queue" /\ ~QueueLocked
        /\ committing' = [committing EXCEPT !.pc = "write", !.queue = pushQueue]
        /\ unrenamed' = unrenamed \union {<<committing.id, "queue">>}
        /\ UNCHANGED <<made, moved, commitFiles, queueVars, indexVars, objectVars, doctor>>
      BY <1>4 DEF ReadToQueue, ElsewhereQueue, Elsewhere, queueVars
  <2>2. <<committing.id, "queue">> \in TempFile
      BY <1>0 DEF QueueTyped, CommandAt, TempFile
  <2>3. IndexTyped'
      BY <1>0, <2>1, <2>2, IndexUntouched DEF IndexTyped
  <2>4. /\ committing' \in CommandAt /\ committing'.pc = "write" /\ committing'.id = committing.id
        /\ committing'.queue = pushQueue
      BY <1>0, <2>1 DEF QueueTyped, CommandAt
  <2>5. QueueTyped'
      BY <1>0, <2>1, <2>4 DEF QueueTyped, queueVars
  <2>6. Due' = Due
      BY <2>1, <2>4 DEF Due, Committed, Excused, queueVars
  <2>7. \A q \in Pusher : pusher[q].pc # "write"
      BY <2>1 DEF QueueLocked
  <2>8. QueueSafe'
      BY <1>0, <2>1, <2>4, <2>6, <2>7 DEF QueueSafe, queueVars
  <2> QED BY <2>3, <2>5, <2>8 DEF DoctorInv
<1>5. ASSUME QueueCommit PROVE DoctorInv'
  <2>1. /\ committing.pc = "write" /\ committing' = [committing EXCEPT !.pc = "ref"]
        /\ pushQueue' = committing.queue \union {committing.id} /\ unrenamed' \subseteq unrenamed
        /\ UNCHANGED <<made, moved, commitFiles, pusher, delivered, overwritten, superseded,
                       indexVars, objectVars, doctor>>
      BY <1>5 DEF QueueCommit, ElsewhereQueue, Elsewhere
  <2>2. IndexTyped'
      BY <1>0, <2>1, IndexUntouched DEF IndexTyped
  <2>3. /\ committing' \in CommandAt /\ committing'.pc = "ref" /\ committing'.id = committing.id
        /\ committing'.queue = committing.queue
      BY <1>0, <2>1 DEF QueueTyped, CommandAt
  <2>4. QueueTyped'
      BY <1>0, <2>1, <2>3 DEF QueueTyped
  <2>5. Due' \subseteq Due \union {committing.id}
      BY <2>1, <2>3 DEF Due, Committed, Excused
  <2>6. \A q \in Pusher : pusher[q].pc # "write"
      BY <1>0, <2>1 DEF QueueSafe
  <2>7. QueueSafe'
      BY <1>0, <2>1, <2>3, <2>5, <2>6 DEF QueueSafe
  <2> QED BY <2>2, <2>4, <2>7 DEF DoctorInv
<1>6. ASSUME CommitFails PROVE DoctorInv'
  <2>1. committing' = NoCommand
        /\ UNCHANGED <<made, moved, commitFiles, queueVars, unrenamed, indexVars, objectVars, doctor>>
      BY <1>6 DEF CommitFails
  <2>2. IndexTyped'
      BY <1>0, <2>1, IndexUntouched DEF IndexTyped
  <2>3. committing' \in CommandAt /\ committing'.pc = "away" /\ committing'.queue = {}
      BY <2>1 DEF NoCommand, CommandAt
  <2>4. QueueTyped'
      BY <1>0, <2>1, <2>3 DEF QueueTyped, queueVars
  <2>5. Due' \subseteq Due
      BY <2>1, <2>3 DEF Due, Committed, Excused, queueVars
  <2>6. QueueSafe'
      BY <1>0, <2>1, <2>3, <2>5 DEF QueueSafe, queueVars
  <2> QED BY <2>2, <2>4, <2>6 DEF DoctorInv
<1> QED BY <1>1, <1>2, <1>3, <1>4, <1>5, <1>6

(* Doctor's record where it flushes. *)
LEMMA DrainedTypes ==
    ASSUME NEW q \in Pusher, NEW at \in {"list", "flushing"}, IndexTyped
    PROVE  Drained(q, at) \in DoctorAt /\ Drained(q, at).queue = doctor.queue
  BY DEF Drained, IndexTyped, DoctorAt

(* The steps of a flush, of a merge that landed, and of a removal. *)
LEMMA PushSteps ==
    ASSUME DoctorInv,
           \/ \E q \in Pusher : Deliver(q) \/ ReadToRemove(q) \/ RemoveDelivered(q) \/ PushFails(q)
           \/ LandMerge \/ DropParents
    PROVE  DoctorInv'
<1>0. IndexTyped /\ QueueTyped /\ QueueSafe
    BY DEF DoctorInv
<1>1. ASSUME NEW q \in Pusher, Deliver(q) PROVE DoctorInv'
  <2>1. PICK took \in SUBSET (pushQueue \intersect commitFiles) :
          /\ delivered' = delivered \union took
          /\ pusher' = [pusher EXCEPT ![q] =
                [NoPush EXCEPT !.pc = "remove", !.taken = took \union (pushQueue \ commitFiles)]]
      BY <1>1 DEF Deliver
  <2>2. /\ remote' = Upload /\ doctor' = Drained(q, "flushing")
        /\ UNCHANGED <<indexVars, local, temps, commitVars, pushQueue, overwritten, superseded, unrenamed>>
      BY <1>1 DEF Deliver
  <2>3. IndexTyped'
      BY <1>0, <2>2, UploadTypes, DrainedTypes DEF IndexTyped, indexVars, commitVars
  <2> DEFINE new == [NoPush EXCEPT !.pc = "remove", !.taken = took \union (pushQueue \ commitFiles)]
  <2>4. /\ new \in PushAt /\ new.pc = "remove" /\ new.taken = took \union (pushQueue \ commitFiles)
        /\ new.queue = {}
      BY <1>0, <2>1 DEF NoPush, PushAt, QueueTyped
  <2>5. pusher' = [pusher EXCEPT ![q] = new]
      BY <2>1
  <2> HIDE DEF new
  <2>6. /\ pusher' \in [Pusher -> PushAt] /\ pusher'[q] = new
        /\ \A r \in Pusher : r # q => pusher'[r] = pusher[r]
      BY <1>0, <2>4, <2>5 DEF QueueTyped
  <2>7. QueueTyped'
      BY <1>0, <2>1, <2>2, <2>4, <2>6 DEF QueueTyped, commitVars
  <2>8. Due' \subseteq Due
      BY <2>1, <2>2 DEF Due, Committed, Excused, commitVars
  <2>9. QueueSafe'
      BY <1>0, <2>1, <2>2, <2>4, <2>6, <2>8 DEF QueueSafe, commitVars
  <2> QED BY <2>3, <2>7, <2>9 DEF DoctorInv
<1>2. ASSUME NEW q \in Pusher, ReadToRemove(q) PROVE DoctorInv'
  <2> DEFINE new == [pusher[q] EXCEPT !.pc = "write", !.queue = pushQueue]
  <2>1. /\ pusher[q].pc = "remove" /\ ~QueueLocked /\ pusher' = [pusher EXCEPT ![q] = new]
        /\ unrenamed' = unrenamed \union {<<0, q>>}
        /\ UNCHANGED <<commitVars, pushQueue, delivered, overwritten, superseded, indexVars,
                       objectVars, doctor>>
      BY <1>2 DEF ReadToRemove, Elsewhere
  <2>2. IndexTyped'
    <3>1. <<0, q>> \in TempFile
        BY DEF Pusher, TempFile
    <3> QED BY <1>0, <2>1, <3>1, IndexUntouched DEF IndexTyped, commitVars
  <2>3. pusher[q] \in PushAt
      BY <1>0 DEF QueueTyped
  <2>4. /\ new \in PushAt /\ new.pc = "write" /\ new.taken = pusher[q].taken /\ new.queue = pushQueue
      BY <1>0, <2>3 DEF PushAt, QueueTyped
  <2> HIDE DEF new
  <2>5. /\ pusher' \in [Pusher -> PushAt] /\ pusher'[q] = new
        /\ \A r \in Pusher : r # q => pusher'[r] = pusher[r]
      BY <1>0, <2>1, <2>4 DEF QueueTyped
  <2>6. QueueTyped'
      BY <1>0, <2>1, <2>4, <2>5 DEF QueueTyped, commitVars
  <2>7. Due' = Due /\ committing.pc # "write"
      BY <2>1 DEF Due, Committed, Excused, commitVars, QueueLocked
  <2>8. QueueSafe'
      BY <1>0, <2>1, <2>4, <2>5, <2>7 DEF QueueSafe, commitVars
  <2> QED BY <2>2, <2>6, <2>8 DEF DoctorInv
<1>3. ASSUME NEW q \in Pusher, RemoveDelivered(q) PROVE DoctorInv'
  <2>1. /\ pusher[q].pc = "write" /\ pushQueue' = pusher[q].queue \ pusher[q].taken
        /\ pusher' = [pusher EXCEPT ![q] = NoPush] /\ unrenamed' \subseteq unrenamed
        /\ doctor' = Drained(q, "list")
        /\ UNCHANGED <<indexVars, objectVars, commitVars, delivered, overwritten, superseded>>
      BY <1>3 DEF RemoveDelivered
  <2>2. IndexTyped'
      BY <1>0, <2>1, DrainedTypes DEF IndexTyped, indexVars, objectVars, commitVars
  <2>3. NoPush \in PushAt /\ NoPush.pc = "away" /\ NoPush.taken = {} /\ NoPush.queue = {}
      BY DEF NoPush, PushAt
  <2>4. /\ pusher' \in [Pusher -> PushAt] /\ pusher'[q] = NoPush
        /\ \A r \in Pusher : r # q => pusher'[r] = pusher[r]
      BY <1>0, <2>1, <2>3 DEF QueueTyped
  <2>5. QueueTyped'
      BY <1>0, <2>1, <2>3, <2>4 DEF QueueTyped, commitVars
  <2>6. Due' = Due /\ Due \intersect delivered = {} /\ Due \subseteq commitFiles
      BY <2>1 DEF Due, Committed, Excused, commitVars
  <2>7. Due \subseteq pushQueue'
    <3>1. Due \subseteq pusher[q].queue /\ pusher[q].taken \intersect commitFiles \subseteq delivered
        BY <1>0, <2>1 DEF QueueSafe
    <3> QED BY <2>1, <2>6, <3>1
  <2>8. QueueSafe'
      BY <1>0, <2>1, <2>3, <2>4, <2>6, <2>7 DEF QueueSafe, commitVars
  <2> QED BY <2>2, <2>5, <2>8 DEF DoctorInv
<1>4. ASSUME NEW q \in Pusher, PushFails(q) PROVE DoctorInv'
  <2>1. /\ pusher' = [pusher EXCEPT ![q] = NoPush]
        /\ doctor' = IF q = "doctor" THEN Away ELSE doctor
        /\ UNCHANGED <<indexVars, objectVars, commitVars, pushQueue, delivered, overwritten,
                       superseded, unrenamed>>
      BY <1>4 DEF PushFails
  <2>2. doctor' \in DoctorAt /\ doctor'.queue \subseteq made
      BY <1>0, <2>1 DEF IndexTyped, Away, DoctorAt
  <2>3. IndexTyped'
      BY <1>0, <2>1, <2>2 DEF IndexTyped, indexVars, objectVars, commitVars
  <2>4. NoPush \in PushAt /\ NoPush.pc = "away" /\ NoPush.taken = {} /\ NoPush.queue = {}
      BY DEF NoPush, PushAt
  <2>5. /\ pusher' \in [Pusher -> PushAt] /\ pusher'[q] = NoPush
        /\ \A r \in Pusher : r # q => pusher'[r] = pusher[r]
      BY <1>0, <2>1, <2>4 DEF QueueTyped
  <2>6. QueueTyped'
      BY <1>0, <2>1, <2>4, <2>5 DEF QueueTyped, commitVars
  <2>7. Due' = Due
      BY <2>1 DEF Due, Committed, Excused, commitVars
  <2>8. QueueSafe'
      BY <1>0, <2>1, <2>4, <2>5, <2>7 DEF QueueSafe, commitVars
  <2> QED BY <2>3, <2>6, <2>8 DEF DoctorInv
<1>5. ASSUME LandMerge PROVE DoctorInv'
  <2> DEFINE new == [pusher["merge"] EXCEPT !.pc = "rewrite", !.queue = pushQueue]
  <2>1. /\ pusher["merge"].pc = "land" /\ delivered' = delivered \union pusher["merge"].taken
        /\ pusher' = [pusher EXCEPT !["merge"] = new]
        /\ UNCHANGED <<indexVars, objectVars, commitVars, pushQueue, overwritten, superseded,
                       unrenamed, doctor>>
      BY <1>5 DEF LandMerge
  <2>2. IndexTyped'
      BY <1>0, <2>1, IndexUntouched DEF IndexTyped, commitVars
  <2>3. "merge" \in Pusher /\ pusher["merge"] \in PushAt
      BY <1>0 DEF QueueTyped, Pusher
  <2>4. /\ new \in PushAt /\ new.pc = "rewrite" /\ new.taken = pusher["merge"].taken
        /\ new.queue = pushQueue
      BY <1>0, <2>3 DEF PushAt, QueueTyped
  <2> HIDE DEF new
  <2>5. /\ pusher' \in [Pusher -> PushAt] /\ pusher'["merge"] = new
        /\ \A r \in Pusher : r # "merge" => pusher'[r] = pusher[r]
      BY <1>0, <2>1, <2>3, <2>4 DEF QueueTyped
  <2>6. QueueTyped'
      BY <1>0, <2>1, <2>3, <2>4, <2>5 DEF QueueTyped, commitVars
  <2>7. Due' \subseteq Due
      BY <2>1 DEF Due, Committed, Excused, commitVars
  <2>8. QueueSafe'
      BY <1>0, <2>1, <2>3, <2>4, <2>5, <2>7 DEF QueueSafe, commitVars
  <2> QED BY <2>2, <2>6, <2>8 DEF DoctorInv
<1>6. ASSUME DropParents PROVE DoctorInv'
  <2> DEFINE new == [pusher["merge"] EXCEPT !.pc = "remove"]
             m == pusher["merge"]
  <2>1. /\ m.pc = "rewrite" /\ pusher' = [pusher EXCEPT !["merge"] = new]
        /\ UNCHANGED <<indexVars, objectVars, commitVars, delivered, unrenamed, doctor>>
      BY <1>6 DEF DropParents
  <2>2. \/ /\ pushQueue' = m.queue \ m.parents /\ superseded' = superseded \union m.parents
           /\ overwritten' = overwritten \union (pushQueue \ m.queue)
        \/ UNCHANGED <<pushQueue, superseded, overwritten>>
      BY <1>6 DEF DropParents
  <2>3. IndexTyped'
      BY <1>0, <2>1, IndexUntouched DEF IndexTyped, commitVars
  <2>4. "merge" \in Pusher /\ m \in PushAt
      BY <1>0 DEF QueueTyped, Pusher
  <2>5. /\ new \in PushAt /\ new.pc = "remove" /\ new.taken = m.taken /\ new.queue = m.queue
      BY <1>0, <2>4 DEF PushAt, QueueTyped
  <2> HIDE DEF new
  <2>6. /\ pusher' \in [Pusher -> PushAt] /\ pusher'["merge"] = new
        /\ \A r \in Pusher : r # "merge" => pusher'[r] = pusher[r]
      BY <1>0, <2>1, <2>4, <2>5 DEF QueueTyped
  <2>7. m.queue \subseteq made
      BY <1>0, <2>4 DEF QueueTyped
  <2> HIDE DEF m
  <2>8. QueueTyped'
    <3>1. pushQueue' \subseteq made
        BY <1>0, <2>2, <2>7 DEF QueueTyped
    <3> QED BY <1>0, <2>1, <2>4, <2>5, <2>6, <2>7, <3>1 DEF QueueTyped, commitVars, m
  <2>9. Due' \subseteq Due
      BY <2>1, <2>2 DEF Due, Committed, Excused, commitVars
  <2>10. Due' \subseteq pushQueue'
    <3>1. Due \subseteq pushQueue
        BY <1>0 DEF QueueSafe
    <3>2. Due' \intersect (superseded' \union overwritten') = {}
        BY DEF Due, Excused
    <3> QED BY <2>2, <2>9, <3>1, <3>2
  <2>11. QueueSafe'
      BY <1>0, <2>1, <2>4, <2>5, <2>6, <2>9, <2>10 DEF QueueSafe, commitVars, m
  <2> QED BY <2>3, <2>8, <2>11 DEF DoctorInv
<1> QED BY <1>1, <1>2, <1>3, <1>4, <1>5, <1>6

(* The steps of doctor, and what leaves the queue alone. *)
LEMMA DoctorSteps ==
    ASSUME DoctorInv,
           \/ \E p \in Artifact : RelinkPointer(p)
           \/ StartDoctor \/ RepairOrphans \/ ReadQueue \/ PruneQueue \/ SkipPush
           \/ ListTemps \/ SweepTemps \/ KillDoctor
    PROVE  DoctorInv'
<1>0. IndexTyped /\ QueueTyped /\ QueueSafe
    BY DEF DoctorInv
<1>1. ASSUME NEW p \in Artifact, RelinkPointer(p) PROVE DoctorInv'
  <2>1. UNCHANGED <<pointers, remote, temps, commitVars, queueVars, unrenamed>>
      BY <1>1 DEF RelinkPointer
  <2>2. doctor' \in DoctorAt /\ doctor'.queue = doctor.queue
      BY <1>0, <1>1 DEF RelinkPointer, DoctorAt, IndexTyped
  <2>3. /\ tracked' = doctor'.index /\ relinked' = doctor'.rebuilt
        /\ local' = local \union {Whole[p]}
      BY <1>1 DEF RelinkPointer
  <2>4. tracked' \subseteq Artifact /\ relinked' \subseteq Artifact
      BY <2>2, <2>3 DEF DoctorAt
  <2>5. IndexTyped'
      BY <1>0, <2>1, <2>2, <2>3, <2>4, ObjectsAreObjects DEF IndexTyped, commitVars
  <2> QED BY <1>0, <2>1, <2>5, QueueUntouched DEF DoctorInv
<1>2. ASSUME RepairOrphans PROVE DoctorInv'
  <2>1. local' \subseteq Object
      BY <1>0, <1>2 DEF RepairOrphans, IndexTyped
  <2>2. /\ doctor' = [doctor EXCEPT !.pc = "pointers"]
        /\ UNCHANGED <<indexVars, remote, temps, commitVars, queueVars, unrenamed>>
      BY <1>2 DEF RepairOrphans
  <2>3. IndexTyped'
      BY <1>0, <2>1, <2>2 DEF IndexTyped, DoctorAt, indexVars, commitVars
  <2> QED BY <1>0, <2>2, <2>3, QueueUntouched DEF DoctorInv
<1>3. ASSUME PruneQueue PROVE DoctorInv'
  <2>1. /\ doctor' = [doctor EXCEPT !.pc = "flush"]
        /\ UNCHANGED <<indexVars, objectVars, commitVars, pusher, delivered, superseded, unrenamed>>
      BY <1>3 DEF PruneQueue
  <2>2. \/ UNCHANGED <<pushQueue, overwritten>>
        \/ /\ pushQueue' = doctor.queue \intersect commitFiles
           /\ overwritten' = overwritten \union (pushQueue \ doctor.queue)
      BY <1>3 DEF PruneQueue, Kept
  <2>3. IndexTyped'
      BY <1>0, <2>1 DEF IndexTyped, DoctorAt, indexVars, objectVars, commitVars
  <2>4. QueueTyped'
    <3>1. pushQueue' \subseteq made
        BY <1>0, <2>2 DEF QueueTyped, IndexTyped
    <3> QED BY <1>0, <2>1, <3>1 DEF QueueTyped, commitVars
  <2>5. Due' \subseteq Due
      BY <2>1, <2>2 DEF Due, Committed, Excused, commitVars
  <2>6. Due' \subseteq pushQueue'
    <3>1. Due \subseteq pushQueue
        BY <1>0 DEF QueueSafe
    <3>2. Due' \intersect overwritten' = {} /\ Due \subseteq commitFiles
        BY DEF Due, Excused
    <3> QED BY <2>2, <2>5, <3>1, <3>2
  <2>7. QueueSafe'
      BY <1>0, <2>1, <2>5, <2>6 DEF QueueSafe, commitVars
  <2> QED BY <2>3, <2>4, <2>7 DEF DoctorInv
<1>4. ASSUME StartDoctor \/ ReadQueue \/ SkipPush \/ ListTemps \/ SweepTemps \/ KillDoctor PROVE DoctorInv'
  <2>1. /\ UNCHANGED <<indexVars, local, remote, commitVars, queueVars>>
        /\ temps' \subseteq temps /\ unrenamed' \subseteq unrenamed
      BY <1>4 DEF StartDoctor, ReadQueue, SkipPush, ListTemps, SweepTemps, KillDoctor, objectVars
  <2>2. doctor' \in DoctorAt /\ doctor'.queue \subseteq made
    <3>1. CASE StartDoctor
        BY <1>0, <3>1 DEF StartDoctor, Away, DoctorAt, IndexTyped
    <3>2. CASE ReadQueue
        BY <1>0, <3>2 DEF ReadQueue, DoctorAt, IndexTyped, QueueTyped
    <3>3. CASE SkipPush
        BY <1>0, <3>3 DEF SkipPush, DoctorAt, IndexTyped
    <3>4. CASE ListTemps
        BY <1>0, <3>4 DEF ListTemps, DoctorAt, IndexTyped
    <3>5. CASE SweepTemps \/ KillDoctor
        BY <1>0, <3>5 DEF SweepTemps, KillDoctor, Away, DoctorAt
    <3> QED BY <1>4, <3>1, <3>2, <3>3, <3>4, <3>5
  <2>3. IndexTyped'
      BY <1>0, <2>1, <2>2 DEF IndexTyped, indexVars, commitVars
  <2> QED BY <1>0, <2>1, <2>3, QueueUntouched DEF DoctorInv
<1> QED BY <1>1, <1>2, <1>3, <1>4

LEMMA DoctorStepInv == DoctorInv /\ [DoctorNext]_doctorVars => DoctorInv'
<1> SUFFICES ASSUME DoctorInv, [DoctorNext]_doctorVars PROVE DoctorInv'
    OBVIOUS
<1>0. IndexTyped /\ QueueTyped /\ QueueSafe
    BY DEF DoctorInv
<1>1. ASSUME NEW o \in Object, BeginPublish(o) \/ EndPublish(o) PROVE DoctorInv'
  <2>1. /\ UNCHANGED <<indexVars, remote, commitVars, queueVars, unrenamed, doctor>>
        /\ local' \union temps' \subseteq Object
      BY <1>0, <1>1 DEF BeginPublish, EndPublish, IndexTyped
  <2>2. IndexTyped'
      BY <1>0, <2>1 DEF IndexTyped, indexVars, commitVars
  <2> QED BY <1>0, <2>1, <2>2, QueueUntouched DEF DoctorInv
<1>2. ASSUME NEW p \in Artifact, SaveEntry(p) PROVE DoctorInv'
  <2>1. /\ UNCHANGED <<objectVars, commitVars, queueVars, unrenamed, doctor>>
        /\ tracked' \union relinked' \union pointers' \subseteq Artifact
      BY <1>0, <1>2 DEF SaveEntry, IndexTyped
  <2>2. IndexTyped'
      BY <1>0, <2>1 DEF IndexTyped, objectVars, commitVars
  <2> QED BY <1>0, <2>1, <2>2, QueueUntouched DEF DoctorInv
<1>3. ASSUME Fault PROVE DoctorInv'
  <2>1. /\ local' \subseteq local /\ tracked' \subseteq tracked /\ commitFiles' \subseteq commitFiles
        /\ UNCHANGED <<relinked, pointers, remote, temps, made, moved, committing, queueVars, unrenamed,
                       doctor>>
      BY <1>3 DEF Fault
  <2>2. IndexTyped'
      BY <1>0, <2>1 DEF IndexTyped
  <2>3. QueueTyped'
      BY <1>0, <2>1 DEF QueueTyped, queueVars
  <2>4. Due' \subseteq Due
      BY <2>1 DEF Due, Committed, Excused, queueVars
  <2>5. QueueSafe'
      BY <1>0, <2>1, <2>4 DEF QueueSafe, queueVars
  <2> QED BY <2>2, <2>3, <2>5 DEF DoctorInv
<1>4. ASSUME UNCHANGED doctorVars PROVE DoctorInv'
  <2>1. IndexTyped'
      BY <1>0, <1>4 DEF doctorVars, indexVars, objectVars, commitVars, IndexTyped
  <2> QED BY <1>0, <1>4, <2>1, QueueUntouched DEF doctorVars, DoctorInv
<1> QED BY <1>1, <1>2, <1>3, <1>4, CommitSteps, PushSteps, DoctorSteps DEF DoctorNext

(* Doctor loses no commit a branch was moved to from the push queue, but those *)
(* queued between an unlocked read of the queue and the write of what was read *)
(* and parents of a merge that landed: for any commits and artifacts, whatever *)
(* doctor sweeps and wherever a command stops.                                *)
THEOREM QueueKeptByDoctor == DoctorSpec => [](DoctorTypeOK /\ MovedStaysQueued)
<1>1. DoctorInv => DoctorTypeOK /\ MovedStaysQueued
  <2> SUFFICES ASSUME DoctorInv PROVE DoctorTypeOK /\ MovedStaysQueued
      OBVIOUS
  <2>1. DoctorTypeOK
      BY DEF DoctorInv, IndexTyped, QueueTyped, DoctorTypeOK, DoctorAt
  <2>2. Due \subseteq pushQueue
      BY DEF DoctorInv, QueueSafe
  <2>3. moved \subseteq Committed
      BY DEF Committed
  <2> QED BY <2>1, <2>2, <2>3 DEF MovedStaysQueued, Due, Excused
<1> QED BY <1>1, DoctorInitInv, DoctorStepInv, PTL DEF DoctorSpec

-----------------------------------------------------------------------------
(* The working tree.                                                        *)

LEMMA StowedMore ==
    ASSUME NEW c, NEW c2, c \subseteq c2, NEW f, NEW x, Stowed(c, f, x)
    PROVE  Stowed(c2, f, x)
  BY DEF Stowed

(* Files that are written lose the stats that an index has of them.          *)
LEMMA StaleTrusty ==
    ASSUME NEW d, NEW d2, NEW c, NEW c2, NEW e, NEW F, Trusty(d, c, e), c \subseteq c2,
           \A f \in Path \ F : d2[f] = d[f]
    PROVE  /\ Trusty(d2, c2, Stale(e, F))
           /\ DOMAIN Stale(e, F) = DOMAIN e
           /\ \A f \in DOMAIN e : Stale(e, F)[f].blind = e[f].blind
<1> DEFINE s == Stale(e, F)
<1>1. DOMAIN s = DOMAIN e
  BY DEF Stale
<1>2. ASSUME NEW f \in DOMAIN e
      PROVE  /\ f \in Path /\ s[f] \in Entry /\ Stowed(c2, f, s[f])
             /\ s[f].fresh /\ ~s[f].blind => d2[f] = Bytes(s[f])
             /\ s[f].blind = e[f].blind
  <2>1. f \in Path /\ e[f] \in Entry /\ Stowed(c, f, e[f])
        /\ (e[f].fresh /\ ~e[f].blind => d[f] = Bytes(e[f]))
    BY DEF Trusty
  <2>2. s[f] = IF f \in F THEN [e[f] EXCEPT !.fresh = FALSE] ELSE e[f]
    BY DEF Stale
  <2>3. CASE f \in F
    <3>1. s[f] \in Entry /\ s[f].h = e[f].h /\ s[f].parts = e[f].parts /\ s[f].blind = e[f].blind
          /\ s[f].fresh = FALSE
      BY <2>1, <2>2, <2>3 DEF Entry
    <3> QED BY <2>1, <3>1 DEF Stowed
  <2>4. CASE f \notin F
    BY <2>1, <2>2, <2>4, StowedMore
  <2> QED BY <2>3, <2>4
<1> QED BY <1>1, <1>2 DEF Trusty

LEMMA TrustyMore ==
    ASSUME NEW d, NEW d2, NEW c, NEW c2, NEW e, Trusty(d, c, e), c \subseteq c2,
           \A f \in Path : d2[f] = d[f]
    PROVE  Trusty(d2, c2, e)
  BY StowedMore DEF Trusty

LEMMA RecordedMore ==
    ASSUME NEW c, NEW c2, c \subseteq c2, NEW t, Recorded(c, t)
    PROVE  Recorded(c2, t)
  BY StowedMore DEF Recorded

LEMMA NothingHolds ==
    ASSUME NEW d, NEW c
    PROVE  /\ DOMAIN Nothing = {} /\ Trusty(d, c, Nothing) /\ Recorded(c, Nothing)
           /\ Nothing \in FileTree /\ Nothing \in Shelf
<1>1. DOMAIN Nothing = {}
  BY DEF Nothing
<1>2. Nothing \in [{} -> TreeEntry] /\ Nothing \in [{} -> StashEntry]
  BY DEF Nothing
<1>3. Nothing \in FileTree /\ Nothing \in Shelf
  BY <1>2 DEF FileTree, Shelf
<1> QED BY <1>1, <1>3 DEF Trusty, Recorded

(* What a process remembers outlives the steps of others.                    *)
Staled(m, F) == [m EXCEPT !.e = Stale(@, F), !.saved = Stale(@, F), !.st = @ /\ m.file \notin F,
                          !.sure = @ \ F]

(* A path that a checkout may still write stays so while others write others. *)
LEMMA SparedMore ==
    ASSUME NEW d, NEW d2, NEW c, NEW c2, c \subseteq c2, NEW s, NEW f, d2[f] = d[f], Spared(d, c, s, f)
    PROVE  Spared(d2, c2, s, f)
  BY DEF Spared

LEMMA SparedStale ==
    ASSUME NEW d, NEW d2, NEW c, NEW c2, c \subseteq c2, NEW s, NEW F, NEW f, f \notin F,
           d2[f] = d[f], Spared(d, c, s, f)
    PROVE  Spared(d2, c2, Stale(s, F), f)
  BY DEF Spared, Stale

LEMMA RemembersMore ==
    ASSUME NEW p, NEW m, NEW d, NEW d2, NEW c, NEW c2, NEW n \in Nat, NEW n2 \in Nat,
           Remembers(p, m, d, c, n), c \subseteq c2, n <= n2, \A f \in Path : d2[f] = d[f]
    PROVE  Remembers(p, m, d2, c2, n2)
<1>1. Trusty(d2, c2, m.e) /\ Trusty(d2, c2, m.saved)
  BY TrustyMore DEF Remembers
<1>2. Recorded(c, m.rec) => Recorded(c2, m.rec)
  BY RecordedMore
<1>3. ASSUME p = "checked", NEW f \in m.sure \cap m.todo
      PROVE  Spared(d2, c2, m.saved, f)
  <2>1. f \in Path /\ Spared(d, c, m.saved, f)
    BY <1>3 DEF Remembers
  <2> QED BY <2>1, SparedMore
<1> QED BY <1>1, <1>2, <1>3 DEF Remembers

LEMMA RemembersStale ==
    ASSUME NEW p, NEW m, NEW d, NEW d2, NEW c, NEW c2, NEW n \in Nat, NEW n2 \in Nat, NEW F,
           Remembers(p, m, d, c, n), c \subseteq c2, n <= n2, \A f \in Path \ F : d2[f] = d[f]
    PROVE  Remembers(p, Staled(m, F), d2, c2, n2)
<1> DEFINE s == Staled(m, F)
<1>1. DOMAIN m = {"e", "gone", "saved", "file", "st", "target", "name", "force", "todo", "sure",
                  "rec"}
  BY DEF Remembers, Blank
<1>2. /\ DOMAIN s = DOMAIN m
      /\ s.e = Stale(m.e, F) /\ s.saved = Stale(m.saved, F) /\ s.file = m.file
      /\ s.st = (m.st /\ m.file \notin F)
      /\ s.target = m.target /\ s.name = m.name /\ s.todo = m.todo /\ s.rec = m.rec
      /\ s.sure = m.sure \ F
  BY <1>1 DEF Staled
<1>3. Trusty(d, c, m.e) /\ Trusty(d, c, m.saved)
  BY DEF Remembers
<1>4. Trusty(d2, c2, s.e) /\ DOMAIN s.e = DOMAIN m.e
      /\ \A f \in DOMAIN m.e : s.e[f].blind = m.e[f].blind
  <2>1. Trusty(d2, c2, Stale(m.e, F))
    BY <1>3, StaleTrusty
  <2>2. DOMAIN Stale(m.e, F) = DOMAIN m.e
    BY DEF Stale
  <2>3. ASSUME NEW f \in DOMAIN m.e
        PROVE  Stale(m.e, F)[f].blind = m.e[f].blind
    <3>1. m.e[f] \in Entry
      BY <1>3 DEF Trusty
    <3> QED BY <3>1 DEF Stale, Entry
  <2> QED BY <1>2, <2>1, <2>2, <2>3
<1>5. Trusty(d2, c2, s.saved)
  <2>1. Trusty(d2, c2, Stale(m.saved, F))
    BY <1>3, StaleTrusty
  <2> QED BY <1>2, <2>1
<1>6. Recorded(c, m.rec) => Recorded(c2, m.rec)
  BY RecordedMore
<1>7. s.st \in BOOLEAN
  BY <1>2 DEF Remembers
<1>8. ASSUME p = "checked", NEW f \in s.sure \cap s.todo
      PROVE  Spared(d2, c2, s.saved, f)
  <2>1. f \in Path /\ f \notin F /\ Spared(d, c, m.saved, f)
    BY <1>2, <1>8 DEF Remembers
  <2>2. d2[f] = d[f]
    BY <2>1
  <2> QED BY <1>2, <2>1, <2>2, SparedStale
<1>9. p = "checked" => s.todo \subseteq Path
  BY <1>2 DEF Remembers
<1> SUFFICES Remembers(p, s, d2, c2, n2)
  OBVIOUS
<1> HIDE DEF s
<1> QED BY <1>2, <1>4, <1>5, <1>6, <1>7, <1>8, <1>9 DEF Remembers

LEMMA BlankRemembers ==
    ASSUME NEW d, NEW c, NEW n
    PROVE  Remembers("idle", Blank, d, c, n)
  BY NothingHolds DEF Remembers, Blank, AtFile, Staging

(* A step of q that writes the files F and grows the store keeps what every  *)
(* other process remembers.                                                  *)
LEMMA SessionWrites ==
    ASSUME WorkTreeInv, NEW q \in Proc, NEW F,
           cas \subseteq cas', Len(commits') \in Nat, Len(commits) <= Len(commits'),
           \A f \in Path \ F : disk'[f] = disk[f],
           DOMAIN pc' = Proc, \A r \in Proc \ {q} : pc'[r] = pc[r],
           DOMAIN mem' = Proc, \A r \in Proc \ {q} : mem'[r] = Staled(mem[r], F),
           Remembers(pc'[q], mem'[q], disk', cas', Len(commits'))
    PROVE  \A r \in Proc : Remembers(pc'[r], mem'[r], disk', cas', Len(commits'))
<1>1. Len(commits) \in Nat
  BY DEF WorkTreeInv
<1>2. ASSUME NEW r \in Proc \ {q}
      PROVE  Remembers(pc'[r], mem'[r], disk', cas', Len(commits'))
  <2>1. Remembers(pc[r], mem[r], disk, cas, Len(commits))
    BY DEF WorkTreeInv
  <2>2. Remembers(pc[r], Staled(mem[r], F), disk', cas', Len(commits'))
    BY <1>1, <2>1, RemembersStale
  <2> QED BY <2>2
<1> QED BY <1>2

LEMMA SessionMoves ==
    ASSUME WorkTreeInv, NEW q \in Proc,
           cas \subseteq cas', Len(commits') \in Nat, Len(commits) <= Len(commits'), disk' = disk,
           DOMAIN pc' = Proc, \A r \in Proc \ {q} : pc'[r] = pc[r],
           DOMAIN mem' = Proc, \A r \in Proc \ {q} : mem'[r] = mem[r],
           Remembers(pc'[q], mem'[q], disk', cas', Len(commits'))
    PROVE  \A r \in Proc : Remembers(pc'[r], mem'[r], disk', cas', Len(commits'))
<1>1. Len(commits) \in Nat
  BY DEF WorkTreeInv
<1>2. ASSUME NEW r \in Proc \ {q}
      PROVE  Remembers(pc'[r], mem'[r], disk', cas', Len(commits'))
  <2>1. Remembers(pc[r], mem[r], disk, cas, Len(commits))
    BY DEF WorkTreeInv
  <2>2. Remembers(pc[r], mem[r], disk', cas', Len(commits'))
    BY <1>1, <2>1, RemembersMore
  <2> QED BY <2>2
<1> QED BY <1>2

(* The tree of HEAD is one of the commits', or empty.                        *)
LEMMA HeadIsStowed ==
    ASSUME WorkTreeInv
    PROVE  /\ HeadTree \in FileTree /\ Recorded(cas, HeadTree)
           /\ HeadCommit \in {0} \cup DOMAIN commits
<1>1. HeadCommit \in {0} \cup DOMAIN commits
  BY DEF WorkTreeInv, HeadCommit
<1>2. CASE HeadCommit = 0
  BY <1>2, NothingHolds DEF HeadTree
<1>3. CASE HeadCommit \in DOMAIN commits /\ HeadCommit # 0
  <2>1. commits[HeadCommit] \in FileTree /\ Recorded(cas, commits[HeadCommit])
    BY <1>3 DEF WorkTreeInv
  <2> QED BY <1>1, <1>3, <2>1 DEF HeadTree
<1> QED BY <1>1, <1>2, <1>3

LEMMA TreeEntries ==
    ASSUME NEW t \in FileTree, NEW f \in DOMAIN t
    PROVE  f \in Path /\ t[f] \in TreeEntry
  BY DEF FileTree

LEMMA ShelfEntries ==
    ASSUME NEW t \in Shelf, NEW f \in DOMAIN t
    PROVE  f \in Path /\ t[f] \in StashEntry
  BY DEF Shelf

(* An index of files that were just written.                                 *)
LEMMA CleanEntryStowed ==
    ASSUME NEW c, NEW f, NEW x \in TreeEntry, Stowed(c, f, x)
    PROVE  LET z == CleanEntry(x)
           IN  /\ z \in Entry /\ Stowed(c, f, z) /\ Bytes(z) = Bytes(x) /\ ~z.blind
               /\ z.h = x.h /\ z.parts = x.parts
<1> DEFINE z == CleanEntry(x)
<1>1. z = [h |-> x.h, parts |-> x.parts, fresh |-> TRUE, staged |-> FALSE, blind |-> FALSE]
  BY DEF CleanEntry
<1>2. x.h \in Content /\ x.parts \in Piece
  BY DEF TreeEntry
<1>3. z \in Entry /\ z.h = x.h /\ z.parts = x.parts /\ ~z.blind
  BY <1>1, <1>2 DEF Entry
<1> QED BY <1>3 DEF Stowed, Bytes

LEMMA CleanTrusty ==
    ASSUME NEW t, NEW c, NEW d, Recorded(c, t),
           \A f \in DOMAIN t : f \in Path /\ t[f] \in TreeEntry /\ d[f] = Bytes(t[f])
    PROVE  Trusty(d, c, CleanIndex(t)) /\ DOMAIN CleanIndex(t) = DOMAIN t
<1> DEFINE s == CleanIndex(t)
<1>1. DOMAIN s = DOMAIN t
  BY DEF CleanIndex
<1>2. ASSUME NEW f \in DOMAIN t
      PROVE  f \in Path /\ s[f] \in Entry /\ Stowed(c, f, s[f]) /\ d[f] = Bytes(s[f])
  <2>1. s[f] = CleanEntry(t[f])
    BY DEF CleanIndex
  <2>2. Stowed(c, f, t[f]) /\ t[f] \in TreeEntry
    BY DEF Recorded
  <2> QED BY <2>1, <2>2, CleanEntryStowed
<1> QED BY <1>1, <1>2 DEF Trusty

(* A commit of an index, and the index after it.                             *)
LEMMA TreeOfStowed ==
    ASSUME NEW e, NEW d, NEW c, Trusty(d, c, e)
    PROVE  /\ TreeOf(e) \in FileTree /\ Recorded(c, TreeOf(e))
           /\ Trusty(d, c, ClearStaged(e)) /\ DOMAIN ClearStaged(e) = DOMAIN e
<1>1. \A f \in DOMAIN e : TreeOf(e)[f] = [h |-> e[f].h, parts |-> e[f].parts]
  BY DEF TreeOf
<1>2. \A f \in DOMAIN e : f \in Path /\ e[f] \in Entry /\ Stowed(c, f, e[f])
  BY DEF Trusty
<1>3. \A f \in DOMAIN e : [h |-> e[f].h, parts |-> e[f].parts] \in TreeEntry
  BY <1>2 DEF Entry, TreeEntry
<1>4. TreeOf(e) \in [DOMAIN e -> TreeEntry] /\ DOMAIN TreeOf(e) = DOMAIN e
  BY <1>3 DEF TreeOf
<1>5. TreeOf(e) \in FileTree
  BY <1>2, <1>4 DEF FileTree
<1>6. Recorded(c, TreeOf(e))
  BY <1>1, <1>2, <1>4 DEF Recorded, Stowed
<1>7. ASSUME NEW f \in DOMAIN e
      PROVE  /\ ClearStaged(e)[f] \in Entry /\ Stowed(c, f, ClearStaged(e)[f])
             /\ ClearStaged(e)[f].fresh = e[f].fresh /\ ClearStaged(e)[f].blind = e[f].blind
             /\ Bytes(ClearStaged(e)[f]) = Bytes(e[f])
  <2>1. ClearStaged(e)[f] = [e[f] EXCEPT !.staged = FALSE]
    BY DEF ClearStaged
  <2>2. ClearStaged(e)[f] \in Entry /\ ClearStaged(e)[f].h = e[f].h
        /\ ClearStaged(e)[f].parts = e[f].parts
        /\ ClearStaged(e)[f].fresh = e[f].fresh /\ ClearStaged(e)[f].blind = e[f].blind
    BY <1>2, <2>1 DEF Entry
  <2> QED BY <1>2, <2>2 DEF Stowed, Bytes
<1>8. DOMAIN ClearStaged(e) = DOMAIN e
  BY DEF ClearStaged
<1>9. Trusty(d, c, ClearStaged(e))
  BY <1>7, <1>8 DEF Trusty
<1> QED BY <1>5, <1>6, <1>8, <1>9

(* The entry of a file that was read, hashed and stored.                     *)
LEMMA NewEntryTrusty ==
    ASSUME NEW old, NEW f \in Path, NEW x \in Content, NEW st \in BOOLEAN, NEW c, Stored(f, x) \in c
    PROVE  /\ NewEntry(old, f, x, st) \in Entry /\ Stowed(c, f, NewEntry(old, f, x, st))
           /\ Bytes(NewEntry(old, f, x, st)) = x /\ NewEntry(old, f, x, st).fresh = st
           /\ NewEntry(old, f, x, st).h = x /\ NewEntry(old, f, x, st).blind = FALSE
<1> DEFINE y == NewEntry(old, f, x, st)
<1>1. PartsOf(f, x) \in Piece
  BY DEF PartsOf, Piece
<1>2. (f \notin DOMAIN old \/ old[f].h # x) \in BOOLEAN
  OBVIOUS
<1>3. y \in Entry /\ y.h = x /\ y.parts = PartsOf(f, x) /\ y.fresh = st /\ y.blind = FALSE
  BY <1>1, <1>2 DEF NewEntry, Entry
<1>4. x # "none"
  BY WorkTreeAssumption
<1>5. Bytes(y) = x
  BY <1>3, <1>4 DEF Bytes, PartsOf
<1>6. Stowed(c, f, y)
  BY <1>3, <1>4 DEF Stowed, Stored, PartsOf
<1> QED BY <1>3, <1>5, <1>6

LEMMA PutTrusty ==
    ASSUME NEW d, NEW c, NEW e, Trusty(d, c, e), NEW f \in Path, NEW x \in Entry, Stowed(c, f, x),
           x.fresh /\ ~x.blind => d[f] = Bytes(x)
    PROVE  Trusty(d, c, PutEntry(e, f, x)) /\ DOMAIN PutEntry(e, f, x) = DOMAIN e \cup {f}
<1>1. DOMAIN PutEntry(e, f, x) = DOMAIN e \cup {f}
  BY DEF PutEntry
<1>2. \A g \in DOMAIN e \cup {f} : PutEntry(e, f, x)[g] = IF g = f THEN x ELSE e[g]
  BY DEF PutEntry
<1>3. \A g \in DOMAIN e : g \in Path /\ e[g] \in Entry /\ Stowed(c, g, e[g])
                          /\ (e[g].fresh /\ ~e[g].blind => d[g] = Bytes(e[g]))
  BY DEF Trusty
<1>4. ASSUME NEW g \in DOMAIN e \cup {f}
      PROVE  LET z == PutEntry(e, f, x)[g]
             IN  /\ g \in Path /\ z \in Entry /\ Stowed(c, g, z)
                 /\ (z.fresh /\ ~z.blind => d[g] = Bytes(z))
  <2>1. CASE g = f
    BY <1>2, <2>1
  <2>2. CASE g # f
    BY <1>2, <1>3, <2>2
  <2> QED BY <2>1, <2>2
<1> QED BY <1>1, <1>4 DEF Trusty

LEMMA OverTrusty ==
    ASSUME NEW d, NEW c, NEW e, NEW s, Trusty(d, c, e), Trusty(d, c, s)
    PROVE  Trusty(d, c, Over(e, s)) /\ DOMAIN Over(e, s) = DOMAIN e \cup DOMAIN s
<1>1. DOMAIN Over(e, s) = DOMAIN e \cup DOMAIN s
  BY DEF Over
<1>2. \A g \in DOMAIN e \cup DOMAIN s : Over(e, s)[g] = IF g \in DOMAIN e THEN e[g] ELSE s[g]
  BY DEF Over
<1>3. ASSUME NEW g \in DOMAIN e \cup DOMAIN s
      PROVE  LET z == Over(e, s)[g]
             IN  /\ g \in Path /\ z \in Entry /\ Stowed(c, g, z)
                 /\ (z.fresh /\ ~z.blind => d[g] = Bytes(z))
  <2>1. CASE g \in DOMAIN e
    BY <1>2, <2>1 DEF Trusty
  <2>2. CASE g \notin DOMAIN e
    BY <1>2, <2>2 DEF Trusty
  <2> QED BY <2>1, <2>2
<1> QED BY <1>1, <1>3 DEF Trusty

LEMMA RestrictTrusty ==
    ASSUME NEW d, NEW c, NEW e, NEW S, S \subseteq DOMAIN e, Trusty(d, c, e)
    PROVE  Trusty(d, c, Restrict(e, S)) /\ DOMAIN Restrict(e, S) = S
  BY DEF Trusty, Restrict

Histories ==
    /\ commits \in Seq(FileTree) /\ \A i \in DOMAIN commits : Recorded(cas, commits[i])
    /\ stash \in Seq(Shelf) /\ \A i \in DOMAIN stash : Recorded(cas, stash[i])
    /\ \A b \in DOMAIN tip : tip[b] \in DOMAIN commits
    /\ DOMAIN head = {"branch", "at"} /\ head.at \in {0} \cup DOMAIN commits

Sessions ==
    /\ DOMAIN pc = Proc /\ DOMAIN mem = Proc
    /\ \A q \in Proc : Remembers(pc[q], mem[q], disk, cas, Len(commits))

Files == disk \in [Path -> Piece] /\ Trusty(disk, cas, index)

LEMMA InParts == WorkTreeInv <=> Files /\ Histories /\ Sessions
  BY DEF WorkTreeInv, Files, Histories, Sessions

LEMMA InPartsLater == WorkTreeInv' <=> Files' /\ Histories' /\ Sessions'
  BY DEF WorkTreeInv, Files, Histories, Sessions

LEMMA HistoryStays ==
    ASSUME WorkTreeInv, cas \subseteq cas', commits' = commits, stash' = stash, tip' = tip,
           head' = head
    PROVE  Histories'
<1>1. \A i \in DOMAIN commits : Recorded(cas', commits[i])
  BY RecordedMore DEF WorkTreeInv
<1>2. \A i \in DOMAIN stash : Recorded(cas', stash[i])
  BY RecordedMore DEF WorkTreeInv
<1> QED BY <1>1, <1>2 DEF WorkTreeInv, Histories

(* The end of a command, alone or with files that it wrote.                  *)
LEMMA DoneKeeps ==
    ASSUME WorkTreeInv, NEW q \in Proc, Done(q), cas \subseteq cas', Len(commits') \in Nat,
           Len(commits) <= Len(commits'), disk' = disk
    PROVE  Sessions'
<1>1. DOMAIN pc = Proc /\ DOMAIN mem = Proc
  BY DEF WorkTreeInv
<1>2. /\ DOMAIN pc' = Proc /\ pc'[q] = "idle" /\ \A r \in Proc \ {q} : pc'[r] = pc[r]
      /\ DOMAIN mem' = Proc /\ mem'[q] = Blank /\ \A r \in Proc \ {q} : mem'[r] = mem[r]
  BY <1>1 DEF Done
<1>3. Remembers(pc'[q], mem'[q], disk', cas', Len(commits'))
  BY <1>2, BlankRemembers
<1>4. \A r \in Proc : Remembers(pc'[r], mem'[r], disk', cas', Len(commits'))
  BY <1>2, <1>3, SessionMoves
<1> QED BY <1>2, <1>4 DEF Sessions

LEMMA DoneWritingKeeps ==
    ASSUME WorkTreeInv, NEW q \in Proc, NEW F, DoneWriting(q, F), cas \subseteq cas',
           commits' = commits, \A f \in Path \ F : disk'[f] = disk[f]
    PROVE  Sessions'
<1>1. DOMAIN pc = Proc /\ DOMAIN mem = Proc /\ Len(commits) \in Nat
  BY DEF WorkTreeInv
<1>2. /\ DOMAIN pc' = Proc /\ pc'[q] = "idle" /\ \A r \in Proc \ {q} : pc'[r] = pc[r]
      /\ DOMAIN mem' = Proc /\ mem'[q] = Blank
      /\ \A r \in Proc \ {q} : mem'[r] = Staled(mem[r], F)
  BY <1>1 DEF DoneWriting, StaleMem, Staled
<1>3. Remembers(pc'[q], mem'[q], disk', cas', Len(commits'))
  BY <1>2, BlankRemembers
<1>4. Len(commits') \in Nat /\ Len(commits) <= Len(commits')
  BY <1>1
<1>5. \A r \in Proc : Remembers(pc'[r], mem'[r], disk', cas', Len(commits'))
  BY <1>2, <1>3, <1>4, SessionWrites
<1> QED BY <1>2, <1>5 DEF Sessions

(* A write to files with every session going on.                             *)
LEMMA WritingKeeps ==
    ASSUME WorkTreeInv, NEW F, mem' = StaleMem(F), pc' = pc, cas \subseteq cas',
           commits' = commits, \A f \in Path \ F : disk'[f] = disk[f]
    PROVE  Sessions'
<1>1. DOMAIN pc = Proc /\ DOMAIN mem = Proc /\ Len(commits) \in Nat
  BY DEF WorkTreeInv
<1>2. DOMAIN mem' = Proc /\ \A r \in Proc : mem'[r] = Staled(mem[r], F)
  BY DEF StaleMem, Staled
<1>3. ASSUME NEW r \in Proc
      PROVE  Remembers(pc'[r], mem'[r], disk', cas', Len(commits'))
  <2>1. Remembers(pc[r], mem[r], disk, cas, Len(commits))
    BY DEF WorkTreeInv
  <2>2. Remembers(pc[r], Staled(mem[r], F), disk', cas', Len(commits'))
    BY <1>1, <2>1, RemembersStale
  <2> QED BY <1>2, <2>2
<1> QED BY <1>1, <1>2, <1>3 DEF Sessions

(* Nothing in the sessions changes.                                          *)
LEMMA IdleKeeps ==
    ASSUME WorkTreeInv, mem' = mem, pc' = pc, cas \subseteq cas', Len(commits') \in Nat,
           Len(commits) <= Len(commits'), disk' = disk
    PROVE  Sessions'
<1>1. DOMAIN pc = Proc /\ DOMAIN mem = Proc /\ Len(commits) \in Nat
  BY DEF WorkTreeInv
<1>2. ASSUME NEW r \in Proc
      PROVE  Remembers(pc'[r], mem'[r], disk', cas', Len(commits'))
  <2>1. Remembers(pc[r], mem[r], disk, cas, Len(commits))
    BY DEF WorkTreeInv
  <2> QED BY <1>1, <2>1, RemembersMore
<1> QED BY <1>1, <1>2 DEF Sessions

(* A command goes to its next step.                                          *)
LEMMA StepKeeps ==
    ASSUME WorkTreeInv, NEW q \in Proc, NEW p, NEW m, pc' = [pc EXCEPT ![q] = p],
           mem' = [mem EXCEPT ![q] = m], cas \subseteq cas', Len(commits') \in Nat,
           Len(commits) <= Len(commits'), disk' = disk, Remembers(p, m, disk', cas', Len(commits'))
    PROVE  Sessions'
<1>1. DOMAIN pc = Proc /\ DOMAIN mem = Proc
  BY DEF WorkTreeInv
<1>2. /\ DOMAIN pc' = Proc /\ pc'[q] = p /\ \A r \in Proc \ {q} : pc'[r] = pc[r]
      /\ DOMAIN mem' = Proc /\ mem'[q] = m /\ \A r \in Proc \ {q} : mem'[r] = mem[r]
  BY <1>1
<1>3. Remembers(pc'[q], mem'[q], disk', cas', Len(commits'))
  BY <1>2
<1>4. \A r \in Proc : Remembers(pc'[r], mem'[r], disk', cas', Len(commits'))
  BY <1>2, <1>3, SessionMoves
<1> QED BY <1>2, <1>4 DEF Sessions

(* The index as it was read.                                                 *)
LEMMA HoldingRemembers ==
    ASSUME WorkTreeInv, NEW p, p \notin AtFile, p \notin {"resolved", "checked", "statted", "stashing",
                                       "reverted", "popping", "applying"}
    PROVE  Remembers(p, Holding, disk, cas, Len(commits))
<1>1. /\ DOMAIN Holding = DOMAIN Blank /\ Holding.e = index /\ Holding.saved = Nothing
      /\ Holding.st = FALSE
  BY DEF Holding, Blank
<1>2. Trusty(disk, cas, index) /\ Trusty(disk, cas, Nothing)
  BY NothingHolds DEF WorkTreeInv
<1> QED BY <1>1, <1>2 DEF Remembers

LEMMA EditKeeps ==
    ASSUME WorkTreeInv, NEW f \in Path, NEW c \in Content \cup {"none"}, Edit(f, c)
    PROVE  WorkTreeInv'
<1>1. disk \in [Path -> Piece] /\ disk' = [disk EXCEPT ![f] = c] /\ cas' = cas
      /\ index' = Stale(index, {f}) /\ mem' = StaleMem({f}) /\ pc' = pc
      /\ commits' = commits /\ stash' = stash /\ tip' = tip /\ head' = head
  BY DEF Edit, WorkTreeInv
<1>2. disk' \in [Path -> Piece] /\ \A g \in Path \ {f} : disk'[g] = disk[g]
  BY <1>1 DEF Piece
<1>3. Trusty(disk', cas', index')
  BY <1>1, <1>2, StaleTrusty DEF WorkTreeInv
<1>4. Sessions'
  BY <1>1, <1>2, WritingKeeps
<1>5. Histories'
  BY <1>1, HistoryStays
<1> QED BY <1>2, <1>3, <1>4, <1>5, InPartsLater DEF Files

LEMMA StageStartKeeps ==
    ASSUME WorkTreeInv, NEW q \in Proc, NEW way \in Staging, NEW f \in Path,
           NEW saved \in {Nothing, index}, StageStart(q, way, f, saved)
    PROVE  WorkTreeInv'
<1> DEFINE m == [Holding EXCEPT !.saved = saved, !.file = f, !.st = TRUE]
<1>1. /\ pc' = [pc EXCEPT ![q] = way] /\ mem' = [mem EXCEPT ![q] = m]
      /\ disk' = disk /\ cas' = cas /\ index' = index
      /\ commits' = commits /\ stash' = stash /\ tip' = tip /\ head' = head
  BY DEF StageStart
<1>2. /\ DOMAIN m = DOMAIN Blank /\ m.e = index /\ m.saved = saved /\ m.st = TRUE /\ m.file = f
  BY DEF Holding, Blank
<1>3. Trusty(disk, cas, index) /\ Trusty(disk, cas, saved) /\ Len(commits) \in Nat
  BY NothingHolds DEF WorkTreeInv
<1> HIDE DEF m
<1>4. Remembers(way, m, disk', cas', Len(commits'))
  BY <1>1, <1>2, <1>3 DEF Remembers, Staging
<1>5. Len(commits') \in Nat /\ Len(commits) <= Len(commits') /\ cas \subseteq cas'
  BY <1>1, <1>3
<1>6. Sessions'
  BY <1>1, <1>4, <1>5, StepKeeps
<1>7. Histories'
  BY <1>1, HistoryStays
<1>8. Files'
  BY <1>1 DEF Files, WorkTreeInv
<1> QED BY <1>6, <1>7, <1>8, InPartsLater

LEMMA CommitsSame ==
    ASSUME WorkTreeInv, commits' = commits
    PROVE  Len(commits') \in Nat /\ Len(commits) <= Len(commits')
  BY DEF WorkTreeInv

LEMMA StageHashKeeps ==
    ASSUME WorkTreeInv, NEW q \in Proc, StageHash(q)
    PROVE  WorkTreeInv'
<1>1. /\ disk' = disk /\ index' = index
      /\ commits' = commits /\ stash' = stash /\ tip' = tip /\ head' = head
      /\ pc[q] \in Staging
  BY DEF StageHash
<1>2. /\ Remembers(pc[q], mem[q], disk, cas, Len(commits)) /\ mem[q].file \in Path
      /\ disk \in [Path -> Piece] /\ Trusty(disk, cas, index)
      /\ DOMAIN pc = Proc /\ DOMAIN mem = Proc
  BY <1>1 DEF WorkTreeInv, Remembers, AtFile
<1>3. Len(commits') \in Nat /\ Len(commits) <= Len(commits')
  BY <1>1, CommitsSame
<1>4. PICK f \in Path : f = mem[q].file
  BY <1>2
<1>5. CASE disk[f] = "none"
  <2>1. Done(q) /\ cas' = cas
    BY <1>4, <1>5 DEF StageHash
  <2>2. Sessions'
    BY <1>1, <1>3, <2>1, DoneKeeps
  <2>3. Histories'
    BY <1>1, <2>1, HistoryStays
  <2> QED BY <1>1, <1>2, <2>1, <2>2, <2>3, InPartsLater DEF Files
<1>6. CASE disk[f] # "none"
  <2>1. /\ cas' = cas \cup {Stored(f, disk[f])}
        /\ pc' = [pc EXCEPT ![q] = AfterHash[@]]
        /\ mem' = [mem EXCEPT ![q].e = PutEntry(@, f, NewEntry(@, f, disk[f], mem[q].st)),
                              ![q].gone = @ \ {f}]
    BY <1>4, <1>6 DEF StageHash
  <2>2. disk[f] \in Content /\ mem[q].st \in BOOLEAN /\ Trusty(disk, cas', mem[q].e)
        /\ Trusty(disk, cas', mem[q].saved) /\ DOMAIN mem[q] = DOMAIN Blank
    BY <1>2, <1>6, <2>1, TrustyMore DEF Remembers, Piece
  <2>3. Stored(f, disk[f]) \in cas'
    BY <2>1
  <2>4. PICK x \in Entry :
              /\ x = NewEntry(mem[q].e, f, disk[f], mem[q].st) /\ Stowed(cas', f, x)
              /\ Bytes(x) = disk[f]
    <3> DEFINE y == NewEntry(mem[q].e, f, disk[f], mem[q].st)
    <3>1. y \in Entry /\ Stowed(cas', f, y) /\ Bytes(y) = disk[f]
      BY <2>2, <2>3, NewEntryTrusty
    <3> HIDE DEF y
    <3>2. \E x \in Entry : x = y /\ Stowed(cas', f, x) /\ Bytes(x) = disk[f]
      BY <3>1
    <3> QED BY <3>2 DEF y
  <2>5. Trusty(disk, cas', PutEntry(mem[q].e, f, x)) /\ f \in DOMAIN PutEntry(mem[q].e, f, x)
    <3>1. Stowed(cas', f, x) /\ Bytes(x) = disk[f] /\ Trusty(disk, cas', mem[q].e)
      BY <2>2, <2>4
    <3>2. Trusty(disk, cas', PutEntry(mem[q].e, f, x))
      BY <3>1, PutTrusty
    <3> QED BY <3>2 DEF PutEntry
  <2>6. /\ DOMAIN mem' = Proc /\ \A r \in Proc \ {q} : mem'[r] = mem[r]
        /\ DOMAIN mem'[q] = DOMAIN Blank /\ mem'[q].e = PutEntry(mem[q].e, f, x)
        /\ mem'[q].saved = mem[q].saved /\ mem'[q].st = mem[q].st /\ mem'[q].file = f
    BY <1>2, <1>4, <2>1, <2>2, <2>4 DEF Blank
  <2>7. /\ DOMAIN pc' = Proc /\ \A r \in Proc \ {q} : pc'[r] = pc[r]
        /\ pc'[q] \in {"hashed", "sdkHashed", "watchHashed", "scopedHashed"}
    BY <1>1, <1>2, <2>1 DEF AfterHash, Staging
  <2>8. Remembers(pc'[q], mem'[q], disk', cas', Len(commits'))
    BY <1>1, <2>2, <2>5, <2>6, <2>7 DEF Remembers, AtFile, Staging
  <2>9. cas \subseteq cas'
    BY <2>1
  <2>10. \A r \in Proc : Remembers(pc'[r], mem'[r], disk', cas', Len(commits'))
    BY <1>1, <1>3, <2>6, <2>7, <2>8, <2>9, SessionMoves
  <2>11. Histories'
    BY <1>1, <2>9, HistoryStays
  <2>12. Trusty(disk', cas', index')
    BY <1>1, <1>2, <2>9, TrustyMore
  <2> QED BY <1>1, <1>2, <2>6, <2>7, <2>10, <2>11, <2>12, InPartsLater DEF Files, Sessions
<1> QED BY <1>5, <1>6

LEMMA AddMergeKeeps ==
    ASSUME WorkTreeInv, NEW q \in Proc, AddMerge(q)
    PROVE  WorkTreeInv'
<1> DEFINE f == mem[q].file
<1>1. /\ disk' = disk /\ cas' = cas /\ index' = PutEntry(index, f, mem[q].e[f]) /\ Done(q)
      /\ commits' = commits /\ stash' = stash /\ tip' = tip /\ head' = head
      /\ pc[q] = "hashed"
  BY DEF AddMerge
<1>2. /\ f \in DOMAIN mem[q].e /\ Trusty(disk, cas, mem[q].e)
      /\ disk \in [Path -> Piece] /\ Trusty(disk, cas, index)
  BY <1>1 DEF WorkTreeInv, Remembers, AtFile, Staging
<1>3. /\ f \in Path /\ mem[q].e[f] \in Entry /\ Stowed(cas, f, mem[q].e[f])
      /\ (mem[q].e[f].fresh /\ ~mem[q].e[f].blind => disk[f] = Bytes(mem[q].e[f]))
  BY <1>2 DEF Trusty
<1>4. Trusty(disk', cas', index')
  BY <1>1, <1>2, <1>3, PutTrusty
<1>5. Sessions'
  BY <1>1, CommitsSame, DoneKeeps
<1>6. Histories'
  BY <1>1, HistoryStays
<1> QED BY <1>1, <1>2, <1>4, <1>5, <1>6, InPartsLater DEF Files

LEMMA SdkAddSaveKeeps ==
    ASSUME WorkTreeInv, NEW q \in Proc, SdkAddSave(q)
    PROVE  WorkTreeInv'
<1>1. /\ disk' = disk /\ cas' = cas /\ index' = mem[q].e /\ Done(q)
      /\ commits' = commits /\ stash' = stash /\ tip' = tip /\ head' = head
  BY DEF SdkAddSave, SaveCopy
<1>2. disk \in [Path -> Piece] /\ Trusty(disk', cas', index')
  BY <1>1 DEF WorkTreeInv, Remembers
<1>3. Sessions'
  BY <1>1, CommitsSame, DoneKeeps
<1>4. Histories'
  BY <1>1, HistoryStays
<1> QED BY <1>1, <1>2, <1>3, <1>4, InPartsLater DEF Files

LEMMA WatchSaveKeeps ==
    ASSUME WorkTreeInv, NEW q \in Proc, WatchSave(q)
    PROVE  WorkTreeInv'
<1>1. /\ disk' = disk /\ cas' = cas /\ index' = mem[q].e /\ mem' = mem
      /\ pc' = [pc EXCEPT ![q] = "loaded"]
      /\ commits' = commits /\ stash' = stash /\ tip' = tip /\ head' = head
  BY DEF WatchSave, SaveCopy
<1>2. /\ disk \in [Path -> Piece] /\ DOMAIN pc = Proc /\ DOMAIN mem = Proc
      /\ Remembers(pc[q], mem[q], disk, cas, Len(commits))
  BY DEF WorkTreeInv
<1>3. Trusty(disk', cas', index')
  BY <1>1, <1>2 DEF Remembers
<1>4. Remembers("loaded", mem[q], disk', cas', Len(commits'))
  BY <1>1, <1>2 DEF Remembers, AtFile, Staging
<1>5. /\ DOMAIN pc' = Proc /\ pc'[q] = "loaded" /\ \A r \in Proc \ {q} : pc'[r] = pc[r]
  BY <1>1, <1>2
<1>6. \A r \in Proc : Remembers(pc'[r], mem'[r], disk', cas', Len(commits'))
  BY <1>1, <1>2, <1>4, <1>5, CommitsSame, SessionMoves
<1>7. Histories'
  BY <1>1, HistoryStays
<1> QED BY <1>1, <1>2, <1>3, <1>5, <1>6, <1>7, InPartsLater DEF Files, Sessions

LEMMA CommitIndexKeeps ==
    ASSUME WorkTreeInv, NEW e, Trusty(disk, cas, e), CommitIndex(e), cas' = cas, disk' = disk,
           stash' = stash
    PROVE  Histories' /\ Files' /\ Len(commits') \in Nat /\ Len(commits) <= Len(commits')
<1>1. /\ commits' = Append(commits, TreeOf(e)) /\ index' = ClearStaged(e)
      /\ \/ head' = [head EXCEPT !.at = Len(commits) + 1] /\ tip' = tip
         \/ tip' = PutEntry(tip, head.branch, Len(commits) + 1) /\ head' = head
  BY DEF CommitIndex
<1>2. /\ commits \in Seq(FileTree) /\ Len(commits) \in Nat /\ disk \in [Path -> Piece]
      /\ \A i \in DOMAIN commits : Recorded(cas, commits[i])
      /\ stash \in Seq(Shelf) /\ \A i \in DOMAIN stash : Recorded(cas, stash[i])
      /\ \A b \in DOMAIN tip : tip[b] \in DOMAIN commits
      /\ DOMAIN head = {"branch", "at"} /\ head.at \in {0} \cup DOMAIN commits
  BY DEF WorkTreeInv
<1>3. /\ TreeOf(e) \in FileTree /\ Recorded(cas, TreeOf(e)) /\ Trusty(disk, cas, ClearStaged(e))
  BY TreeOfStowed
<1>4. /\ commits' \in Seq(FileTree) /\ Len(commits') = Len(commits) + 1
      /\ DOMAIN commits' = 1 .. Len(commits) + 1 /\ DOMAIN commits = 1 .. Len(commits)
      /\ commits'[Len(commits) + 1] = TreeOf(e)
      /\ \A i \in DOMAIN commits : commits'[i] = commits[i]
  BY <1>1, <1>2, <1>3
<1>5. \A i \in DOMAIN commits' : Recorded(cas, commits'[i])
  <2>1. ASSUME NEW i \in DOMAIN commits' PROVE Recorded(cas, commits'[i])
    <3>1. CASE i = Len(commits) + 1
      BY <1>3, <1>4, <3>1
    <3>2. CASE i \in DOMAIN commits
      BY <1>2, <1>4, <3>2
    <3> QED BY <1>2, <1>4, <3>1, <3>2
  <2> QED BY <2>1
<1>6. \A b \in DOMAIN tip' : tip'[b] \in DOMAIN commits'
  <2>1. CASE tip' = tip
    BY <1>2, <1>4, <2>1
  <2>2. CASE tip' = PutEntry(tip, head.branch, Len(commits) + 1)
    BY <1>2, <1>4, <2>2 DEF PutEntry
  <2> QED BY <1>1, <2>1, <2>2
<1>7. DOMAIN head' = {"branch", "at"} /\ head'.at \in {0} \cup DOMAIN commits'
  BY <1>1, <1>2, <1>4
<1>8. Histories'
  BY <1>2, <1>4, <1>5, <1>6, <1>7 DEF Histories
<1> QED BY <1>1, <1>2, <1>3, <1>4, <1>8 DEF Files

LEMMA CommitNowKeeps ==
    ASSUME WorkTreeInv, NEW q \in Proc, CommitNow(q)
    PROVE  WorkTreeInv'
<1>1. /\ CommitIndex(index) /\ cas' = cas /\ disk' = disk /\ stash' = stash
      /\ mem' = mem /\ pc' = pc /\ Trusty(disk, cas, index)
  BY DEF CommitNow, WorkTreeInv
<1>2. Histories' /\ Files' /\ Len(commits') \in Nat /\ Len(commits) <= Len(commits')
  BY <1>1, CommitIndexKeeps
<1>3. Sessions'
  BY <1>1, <1>2, IdleKeeps
<1> QED BY <1>2, <1>3, InPartsLater

LEMMA SdkCommitLoadKeeps ==
    ASSUME WorkTreeInv, NEW q \in Proc, SdkCommitLoad(q)
    PROVE  WorkTreeInv'
<1>1. /\ pc' = [pc EXCEPT ![q] = "loaded"] /\ mem' = [mem EXCEPT ![q] = Holding]
      /\ disk' = disk /\ cas' = cas /\ index' = index
      /\ commits' = commits /\ stash' = stash /\ tip' = tip /\ head' = head
  BY DEF SdkCommitLoad
<1>2. Remembers("loaded", Holding, disk', cas', Len(commits'))
  BY <1>1, HoldingRemembers DEF AtFile, Staging
<1>3. Sessions'
  BY <1>1, <1>2, CommitsSame, StepKeeps
<1>4. Histories'
  BY <1>1, HistoryStays
<1> QED BY <1>1, <1>3, <1>4, InPartsLater DEF Files, WorkTreeInv

LEMMA CommitCopyKeeps ==
    ASSUME WorkTreeInv, NEW q \in Proc, CommitCopy(q)
    PROVE  WorkTreeInv'
<1>1. /\ Done(q) /\ cas' = cas /\ disk' = disk /\ stash' = stash
      /\ \/ CommitIndex(mem[q].e)
         \/ commits' = commits /\ tip' = tip /\ head' = head /\ index' = index
      /\ Trusty(disk, cas, mem[q].e)
  BY DEF CommitCopy, WorkTreeInv, Remembers
<1>2. Histories' /\ Files' /\ Len(commits') \in Nat /\ Len(commits) <= Len(commits')
  <2>1. CASE CommitIndex(mem[q].e)
    BY <1>1, <2>1, CommitIndexKeeps
  <2>2. CASE commits' = commits /\ tip' = tip /\ head' = head /\ index' = index
    BY <1>1, <2>2, CommitsSame, HistoryStays DEF Files, WorkTreeInv
  <2> QED BY <1>1, <2>1, <2>2
<1>3. Sessions'
  BY <1>1, <1>2, DoneKeeps
<1> QED BY <1>2, <1>3, InPartsLater

LEMMA ScopedTrusty ==
    ASSUME NEW q, Trusty(disk, cas, mem[q].e), mem[q].file \in DOMAIN mem[q].e
    PROVE  Trusty(disk, cas, Scoped(q))
<1> DEFINE f == mem[q].file
           touched == \/ f \notin DOMAIN mem[q].saved
                      \/ mem[q].e[f].h # mem[q].saved[f].h
                      \/ mem[q].e[f].staged /\ ~mem[q].saved[f].staged
<1>1. Scoped(q) = [g \in {h \in {f} : touched} |-> mem[q].e[g]]
  BY DEF Scoped
<1> HIDE DEF touched
<1>2. DOMAIN Scoped(q) \subseteq DOMAIN mem[q].e
      /\ \A g \in DOMAIN Scoped(q) : Scoped(q)[g] = mem[q].e[g]
  BY <1>1
<1> QED BY <1>2 DEF Trusty

LEMMA ScopedCommitKeeps ==
    ASSUME WorkTreeInv, NEW q \in Proc, ScopedCommit(q)
    PROVE  WorkTreeInv'
<1>1. /\ cas' = cas /\ disk' = disk /\ stash' = stash /\ pc[q] = "scopedHashed"
      /\ pc' = [pc EXCEPT ![q] = "scopedSaved"]
      /\ \/ /\ CommitIndex(Scoped(q))
            /\ mem' = [mem EXCEPT ![q].e = ClearStaged(Scoped(q)), ![q].gone = {}]
         \/ /\ commits' = commits /\ tip' = tip /\ head' = head /\ index' = index
            /\ mem' = [mem EXCEPT ![q].e = Scoped(q)]
  BY DEF ScopedCommit
<1>2. /\ Remembers(pc[q], mem[q], disk, cas, Len(commits)) /\ DOMAIN pc = Proc /\ DOMAIN mem = Proc
  BY DEF WorkTreeInv
<1>3. Trusty(disk, cas, Scoped(q)) /\ DOMAIN mem[q] = DOMAIN Blank
  BY <1>1, <1>2, ScopedTrusty DEF Remembers, AtFile, Staging
<1>4. Trusty(disk, cas, ClearStaged(Scoped(q)))
  BY <1>3, TreeOfStowed
<1>5. Histories' /\ Files' /\ Len(commits') \in Nat /\ Len(commits) <= Len(commits')
  <2>1. CASE CommitIndex(Scoped(q))
    BY <1>1, <1>3, <2>1, CommitIndexKeeps
  <2>2. CASE commits' = commits /\ tip' = tip /\ head' = head /\ index' = index
    BY <1>1, <2>2, CommitsSame, HistoryStays DEF Files, WorkTreeInv
  <2> QED BY <1>1, <2>1, <2>2
<1>6. /\ DOMAIN mem' = Proc /\ \A r \in Proc \ {q} : mem'[r] = mem[r]
      /\ DOMAIN mem'[q] = DOMAIN Blank /\ mem'[q].e \in {Scoped(q), ClearStaged(Scoped(q))}
      /\ mem'[q].saved = mem[q].saved /\ mem'[q].st = mem[q].st
  <2>1. CASE mem' = [mem EXCEPT ![q].e = ClearStaged(Scoped(q)), ![q].gone = {}]
    BY <1>2, <1>3, <2>1 DEF Blank
  <2>2. CASE mem' = [mem EXCEPT ![q].e = Scoped(q)]
    BY <1>2, <1>3, <2>2 DEF Blank
  <2> QED BY <1>1, <2>1, <2>2
<1>7. /\ DOMAIN pc' = Proc /\ pc'[q] = "scopedSaved" /\ \A r \in Proc \ {q} : pc'[r] = pc[r]
  BY <1>1, <1>2
<1>8. Remembers(pc'[q], mem'[q], disk', cas', Len(commits'))
  BY <1>1, <1>2, <1>3, <1>4, <1>6, <1>7 DEF Remembers, AtFile, Staging
<1>9. \A r \in Proc : Remembers(pc'[r], mem'[r], disk', cas', Len(commits'))
  BY <1>1, <1>5, <1>6, <1>7, <1>8, SessionMoves
<1> QED BY <1>5, <1>6, <1>7, <1>9, InPartsLater DEF Sessions

LEMMA ScopedMergeBackKeeps ==
    ASSUME WorkTreeInv, NEW q \in Proc, ScopedMergeBack(q)
    PROVE  WorkTreeInv'
<1>1. /\ disk' = disk /\ cas' = cas /\ index' = Over(mem[q].e, mem[q].saved) /\ Done(q)
      /\ commits' = commits /\ stash' = stash /\ tip' = tip /\ head' = head
  BY DEF ScopedMergeBack
<1>2. disk \in [Path -> Piece] /\ Trusty(disk, cas, mem[q].e) /\ Trusty(disk, cas, mem[q].saved)
  BY DEF WorkTreeInv, Remembers
<1>3. Trusty(disk', cas', index')
  BY <1>1, <1>2, OverTrusty
<1>4. Sessions'
  BY <1>1, CommitsSame, DoneKeeps
<1>5. Histories'
  BY <1>1, HistoryStays
<1> QED BY <1>1, <1>2, <1>3, <1>4, <1>5, InPartsLater DEF Files

(* Commands on the index.                                                    *)
LEMMA RmKeeps ==
    ASSUME WorkTreeInv, NEW q \in Proc, NEW f \in Path, NEW cached \in BOOLEAN, Rm(q, f, cached)
    PROVE  WorkTreeInv'
<1> DEFINE F == IF cached THEN {} ELSE {f}
<1>1. /\ disk' = [g \in Path |-> IF g \in F THEN "none" ELSE disk[g]]
      /\ index' = Stale(Restrict(index, Tracked \ {f}), F) /\ mem' = StaleMem(F) /\ pc' = pc
      /\ cas' = cas /\ commits' = commits /\ stash' = stash /\ tip' = tip /\ head' = head
  BY DEF Rm
<1>2. disk \in [Path -> Piece] /\ Trusty(disk, cas, index)
  BY DEF WorkTreeInv
<1>3. disk' \in [Path -> Piece] /\ \A g \in Path \ F : disk'[g] = disk[g]
  BY <1>1, <1>2 DEF Piece
<1> HIDE DEF F
<1>4. Trusty(disk, cas, Restrict(index, Tracked \ {f}))
  BY <1>2, RestrictTrusty DEF Tracked
<1>5. Trusty(disk', cas', index')
  BY <1>1, <1>3, <1>4, StaleTrusty
<1>6. Sessions'
  BY <1>1, <1>3, WritingKeeps
<1>7. Histories'
  BY <1>1, HistoryStays
<1> QED BY <1>3, <1>5, <1>6, <1>7, InPartsLater DEF Files

LEMMA UnstageKeeps ==
    ASSUME WorkTreeInv, NEW q \in Proc, NEW F \in SUBSET Path, Unstage(q, F)
    PROVE  WorkTreeInv'
<1>1. /\ F \subseteq Tracked
      /\ index' = [f \in Tracked \ (F \ DOMAIN HeadTree) |->
                       IF f \in F THEN Unstaged(f, HeadTree[f]) ELSE index[f]]
      /\ disk' = disk /\ cas' = cas /\ mem' = mem /\ pc' = pc
      /\ commits' = commits /\ stash' = stash /\ tip' = tip /\ head' = head
  BY DEF Unstage
<1>2. disk \in [Path -> Piece] /\ Trusty(disk, cas, index)
  BY DEF WorkTreeInv
<1>3. HeadTree \in FileTree /\ Recorded(cas, HeadTree)
  BY HeadIsStowed
<1>4. ASSUME NEW f \in DOMAIN index'
      PROVE  /\ f \in Path /\ index'[f] \in Entry /\ Stowed(cas, f, index'[f])
             /\ index'[f].fresh /\ ~index'[f].blind => disk[f] = Bytes(index'[f])
  <2>1. CASE f \in F
    <3>1. f \in DOMAIN HeadTree /\ index'[f] = Unstaged(f, HeadTree[f])
      BY <1>1, <2>1
    <3>2. f \in Path /\ HeadTree[f] \in TreeEntry /\ Stowed(cas, f, HeadTree[f])
      BY <1>3, <3>1, TreeEntries DEF Recorded
    <3>3. /\ index'[f] \in Entry /\ index'[f].h = HeadTree[f].h /\ index'[f].parts = "none"
          /\ index'[f].fresh = FALSE
      BY <3>1, <3>2 DEF Unstaged, TreeEntry, Entry, Piece
    <3> QED BY <3>2, <3>3 DEF Stowed
  <2>2. CASE f \notin F
    <3>1. f \in DOMAIN index /\ index'[f] = index[f]
      BY <1>1, <2>2 DEF Tracked
    <3> QED BY <1>2, <3>1 DEF Trusty
  <2> QED BY <2>1, <2>2
<1>5. Trusty(disk', cas', index')
  BY <1>1, <1>4 DEF Trusty
<1>6. Sessions'
  BY <1>1, CommitsSame, IdleKeeps
<1>7. Histories'
  BY <1>1, HistoryStays
<1> QED BY <1>1, <1>2, <1>5, <1>6, <1>7, InPartsLater DEF Files

LEMMA CreateBranchKeeps ==
    ASSUME WorkTreeInv, NEW q \in Proc, NEW b \in Branch, CreateBranch(q, b)
    PROVE  WorkTreeInv'
<1>1. /\ HeadCommit # 0 /\ tip' = PutEntry(tip, b, HeadCommit)
      /\ disk' = disk /\ cas' = cas /\ index' = index /\ mem' = mem /\ pc' = pc
      /\ commits' = commits /\ stash' = stash /\ head' = head
  BY DEF CreateBranch
<1>2. HeadCommit \in DOMAIN commits
  BY <1>1, HeadIsStowed
<1>3. \A a \in DOMAIN tip' : tip'[a] \in DOMAIN commits
  BY <1>1, <1>2 DEF PutEntry, WorkTreeInv
<1>4. Sessions'
  BY <1>1, CommitsSame, IdleKeeps
<1>5. Histories'
  BY <1>1, <1>3 DEF Histories, WorkTreeInv
<1> QED BY <1>1, <1>4, <1>5, InPartsLater DEF Files, WorkTreeInv

(* Checkout.                                                                 *)
LEMMA CheckoutStartKeeps ==
    ASSUME WorkTreeInv, NEW q \in Proc, NEW n \in 1 .. MaxCommits, NEW b \in Branch \cup {"none"},
           NEW force \in BOOLEAN, CheckoutStart(q, n, b, force)
    PROVE  WorkTreeInv'
<1> DEFINE m == [Blank EXCEPT !.target = n, !.name = b, !.force = force]
<1>1. /\ pc' = [pc EXCEPT ![q] = "resolved"] /\ mem' = [mem EXCEPT ![q] = m]
      /\ n \in DOMAIN commits
      /\ disk' = disk /\ cas' = cas /\ index' = index
      /\ commits' = commits /\ stash' = stash /\ tip' = tip /\ head' = head
  BY DEF CheckoutStart
<1>2. /\ DOMAIN m = DOMAIN Blank /\ m.e = Nothing /\ m.saved = Nothing /\ m.st = FALSE
      /\ m.target = n /\ m.name = b
  BY DEF Blank
<1>3. DOMAIN commits = 1 .. Len(commits) /\ Trusty(disk, cas, Nothing)
  BY NothingHolds DEF WorkTreeInv
<1> HIDE DEF m
<1>4. Remembers("resolved", m, disk', cas', Len(commits'))
  BY <1>1, <1>2, <1>3 DEF Remembers, AtFile, Staging
<1>5. Sessions'
  BY <1>1, <1>4, CommitsSame, StepKeeps
<1>6. Histories'
  BY <1>1, HistoryStays
<1> QED BY <1>1, <1>5, <1>6, InPartsLater DEF Files, WorkTreeInv

(* The commit that a checkout is about to write.                             *)
LEMMA TargetIsStowed ==
    ASSUME WorkTreeInv, NEW q \in Proc, pc[q] \in {"resolved", "checked"}
    PROVE  /\ mem[q].target \in DOMAIN commits /\ commits[mem[q].target] \in FileTree
           /\ Recorded(cas, commits[mem[q].target])
           /\ mem[q].name \in Branch \cup {"none"}
<1>1. mem[q].target \in 1 .. Len(commits) /\ mem[q].name \in Branch \cup {"none"}
  BY DEF WorkTreeInv, Remembers
<1>2. DOMAIN commits = 1 .. Len(commits)
  BY DEF WorkTreeInv
<1> QED BY <1>1, <1>2 DEF WorkTreeInv

(* An intact entry's bytes are the content that it names.                    *)
LEMMA IntactBytes ==
    ASSUME NEW x, Intact(x)
    PROVE  Bytes(x) = x.h
  BY DEF Intact, Bytes

LEMMA CheckoutCheckKeeps ==
    ASSUME WorkTreeInv, NEW q \in Proc, CheckoutCheck(q)
    PROVE  WorkTreeInv'
<1>1. PICK tree : tree = commits[mem[q].target]
  OBVIOUS
<1> DEFINE F == DOMAIN tree \cup Tracked
           S == IF mem[q].force THEN {} ELSE Path
           m == [mem[q] EXCEPT !.saved = index, !.e = Nothing, !.todo = F, !.sure = S]
<1>2. /\ pc[q] = "resolved" /\ cas' = cas /\ disk' = disk /\ index' = index
      /\ commits' = commits /\ stash' = stash /\ tip' = tip /\ head' = head
  BY DEF CheckoutCheck
<1>3. /\ mem[q].target \in DOMAIN commits /\ tree \in FileTree /\ Recorded(cas, tree)
      /\ mem[q].name \in Branch \cup {"none"}
  BY <1>1, <1>2, TargetIsStowed
<1>4. /\ disk \in [Path -> Piece] /\ DOMAIN pc = Proc /\ DOMAIN mem = Proc /\ Trusty(disk, cas, index)
      /\ Remembers(pc[q], mem[q], disk, cas, Len(commits)) /\ DOMAIN commits = 1 .. Len(commits)
  BY DEF WorkTreeInv
<1>5. Len(commits') \in Nat /\ Len(commits) <= Len(commits')
  BY <1>2, CommitsSame
<1>6. Histories'
  BY <1>2, HistoryStays
<1>7. CASE Done(q)
  BY <1>2, <1>4, <1>5, <1>6, <1>7, DoneKeeps, InPartsLater DEF Files
<1>8. CASE /\ ~(~mem[q].force /\ Dirty(tree) # {})
           /\ mem' = [mem EXCEPT ![q].saved = index, ![q].e = Nothing, ![q].todo = F, ![q].sure = S]
           /\ pc' = [pc EXCEPT ![q] = "checked"]
  <2>1. F \subseteq Path
    BY <1>3, <1>4 DEF FileTree, Trusty, Tracked
  <2>2. ASSUME NEW f \in S \cap F
        PROVE  Spared(disk, cas, index, f)
    <3>1. Dirty(tree) = {}
      BY <1>8, <2>2
    <3>2. CASE f \in Tracked
      BY <3>1, <3>2 DEF Dirty, Spared, Tracked
    <3>3. CASE f \notin Tracked
      <4>1. f \in DOMAIN tree /\ (disk[f] = "none" \/ disk[f] = tree[f].h)
        BY <2>2, <3>1, <3>3 DEF Dirty
      <4>2. Stored(f, tree[f].h) \in cas
        BY <1>3, <4>1 DEF Recorded, Stowed
      <4> QED BY <3>3, <4>1, <4>2 DEF Spared, Tracked
    <3> QED BY <3>2, <3>3
  <2>3. /\ DOMAIN m = DOMAIN mem[q] /\ m.e = Nothing /\ m.saved = index /\ m.todo = F /\ m.sure = S
        /\ m.st = mem[q].st /\ m.target = mem[q].target /\ m.name = mem[q].name
    BY <1>4 DEF Remembers, Blank
  <2>4. mem' = [mem EXCEPT ![q] = m]
    BY <1>4, <1>8
  <2> HIDE DEF m, F, S
  <2>5. Remembers("checked", m, disk', cas', Len(commits'))
    BY <1>2, <1>4, <2>1, <2>2, <2>3, NothingHolds DEF Remembers, AtFile, Staging
  <2>6. Sessions'
    BY <1>2, <1>5, <1>8, <2>4, <2>5, StepKeeps
  <2> QED BY <1>2, <1>4, <1>6, <2>6, InPartsLater DEF Files
<1> QED BY <1>1, <1>7, <1>8 DEF CheckoutCheck

LEMMA CheckoutFileKeeps ==
    ASSUME WorkTreeInv, NEW q \in Proc, NEW f \in Path, CheckoutFile(q, f)
    PROVE  WorkTreeInv'
<1>1. PICK tree : tree = commits[mem[q].target]
  OBVIOUS
<1>2. /\ pc[q] = "checked" /\ cas' = cas /\ index' = Stale(index, {f})
      /\ disk' = [disk EXCEPT ![f] = IF f \in DOMAIN tree /\ Intact(tree[f])
                                     THEN tree[f].h ELSE "none"]
      /\ commits' = commits /\ stash' = stash /\ tip' = tip /\ head' = head
  BY <1>1 DEF CheckoutFile
<1>3. /\ mem[q].target \in DOMAIN commits /\ tree \in FileTree /\ Recorded(cas, tree)
      /\ mem[q].name \in Branch \cup {"none"}
  BY <1>1, <1>2, TargetIsStowed
<1>4. /\ disk \in [Path -> Piece] /\ DOMAIN pc = Proc /\ DOMAIN mem = Proc /\ Trusty(disk, cas, index)
      /\ Remembers(pc[q], mem[q], disk, cas, Len(commits)) /\ DOMAIN commits = 1 .. Len(commits)
  BY DEF WorkTreeInv
<1>5. Len(commits') \in Nat /\ Len(commits) <= Len(commits')
  BY <1>2, CommitsSame
<1>6. Histories'
  BY <1>2, HistoryStays
<1>7. f \in DOMAIN tree => tree[f] \in TreeEntry /\ Stowed(cas, f, tree[f])
  BY <1>3, TreeEntries DEF Recorded
<1>8. disk' \in [Path -> Piece] /\ \A g \in Path \ {f} : disk'[g] = disk[g]
  BY <1>2, <1>4, <1>7 DEF TreeEntry, Piece
<1>9. Trusty(disk', cas', index')
  BY <1>2, <1>4, <1>8, StaleTrusty
<1>10. CASE DoneWriting(q, {f})
  <2>1. Sessions'
    BY <1>2, <1>8, <1>10, DoneWritingKeeps
  <2> QED BY <1>6, <1>8, <1>9, <2>1, InPartsLater DEF Files
<1>11. CASE /\ ~(f \in DOMAIN tree /\ ~Intact(tree[f]))
            /\ mem' = [StaleMem({f}) EXCEPT
                          ![q].todo = @ \ {f},
                          ![q].e = IF f \in DOMAIN tree
                                   THEN PutEntry(@, f, CleanEntry(tree[f])) ELSE @]
            /\ pc' = pc
  <2> DEFINE old == Staled(mem[q], {f})
             e == IF f \in DOMAIN tree THEN PutEntry(old.e, f, CleanEntry(tree[f])) ELSE old.e
  <2>1. Remembers("checked", old, disk', cas', Len(commits'))
    BY <1>2, <1>4, <1>5, <1>8, RemembersStale
  <2>2. /\ DOMAIN mem' = Proc /\ \A r \in Proc \ {q} : mem'[r] = Staled(mem[r], {f})
        /\ mem'[q] = [old EXCEPT !.todo = @ \ {f}, !.e = e]
    BY <1>4, <1>11 DEF StaleMem, Staled
  <2> HIDE DEF old
  <2>3. Trusty(disk', cas', e) /\ \A g \in DOMAIN e : ~e[g].blind
    <3>1. Trusty(disk', cas', old.e) /\ \A g \in DOMAIN old.e : ~old.e[g].blind
      BY <2>1 DEF Remembers
    <3>2. CASE f \in DOMAIN tree
      <4>1. disk'[f] = tree[f].h /\ Intact(tree[f])
        BY <1>2, <1>4, <1>11, <3>2
      <4>2. disk'[f] = Bytes(tree[f])
        BY <4>1, IntactBytes
      <4>3. PICK z : z = CleanEntry(tree[f])
        OBVIOUS
      <4>4. z \in Entry /\ Stowed(cas', f, z) /\ Bytes(z) = Bytes(tree[f]) /\ ~z.blind
        BY <1>2, <1>7, <3>2, <4>3, CleanEntryStowed
      <4>5. Trusty(disk', cas', PutEntry(old.e, f, z))
        BY <3>1, <4>2, <4>4, PutTrusty
      <4>6. \A g \in DOMAIN PutEntry(old.e, f, z) : ~PutEntry(old.e, f, z)[g].blind
        BY <3>1, <4>4 DEF PutEntry
      <4> QED BY <3>2, <4>3, <4>5, <4>6
    <3>3. CASE f \notin DOMAIN tree
      BY <3>1, <3>3
    <3> QED BY <3>2, <3>3
  <2> HIDE DEF e
  <2>4. /\ DOMAIN mem'[q] = DOMAIN Blank /\ mem'[q].e = e /\ mem'[q].todo = old.todo \ {f}
        /\ mem'[q].saved = old.saved /\ mem'[q].sure = old.sure /\ mem'[q].st = old.st
        /\ mem'[q].target = old.target /\ mem'[q].name = old.name
    BY <2>1, <2>2 DEF Remembers, Blank
  <2>5. Remembers("checked", mem'[q], disk', cas', Len(commits'))
    BY <2>1, <2>3, <2>4 DEF Remembers, AtFile, Staging
  <2>6. cas \subseteq cas' /\ DOMAIN pc' = Proc /\ \A r \in Proc \ {q} : pc'[r] = pc[r]
    BY <1>2, <1>4, <1>11
  <2>7. Remembers(pc'[q], mem'[q], disk', cas', Len(commits'))
    BY <1>2, <1>11, <2>5
  <2>8. \A r \in Proc : Remembers(pc'[r], mem'[r], disk', cas', Len(commits'))
    BY <1>5, <1>8, <2>2, <2>6, <2>7, SessionWrites
  <2> QED BY <1>4, <1>6, <1>8, <1>9, <1>11, <2>2, <2>8, InPartsLater DEF Files, Sessions
<1> QED BY <1>1, <1>10, <1>11 DEF CheckoutFile

LEMMA CheckoutStatKeeps ==
    ASSUME WorkTreeInv, NEW q \in Proc, CheckoutStat(q)
    PROVE  WorkTreeInv'
<1>1. /\ pc[q] = "checked" /\ pc' = [pc EXCEPT ![q] = "statted"] /\ mem' = mem
      /\ index' = [f \in DOMAIN mem[q].e |->
                      [mem[q].e[f] EXCEPT !.fresh = disk[f] # "none", !.blind = ~mem[q].e[f].fresh]]
      /\ disk' = disk /\ cas' = cas
      /\ commits' = commits /\ stash' = stash /\ tip' = tip /\ head' = head
  BY DEF CheckoutStat
<1>2. /\ disk \in [Path -> Piece] /\ DOMAIN pc = Proc /\ DOMAIN mem = Proc
      /\ Remembers(pc[q], mem[q], disk, cas, Len(commits))
  BY DEF WorkTreeInv
<1>3. Trusty(disk, cas, mem[q].e) /\ \A f \in DOMAIN mem[q].e : ~mem[q].e[f].blind
  BY <1>1, <1>2 DEF Remembers
<1>4. ASSUME NEW f \in DOMAIN index'
      PROVE  /\ f \in Path /\ index'[f] \in Entry /\ Stowed(cas, f, index'[f])
             /\ index'[f].fresh /\ ~index'[f].blind => disk[f] = Bytes(index'[f])
  <2>1. /\ f \in DOMAIN mem[q].e
        /\ index'[f] = [mem[q].e[f] EXCEPT !.fresh = disk[f] # "none",
                                           !.blind = ~mem[q].e[f].fresh]
    BY <1>1
  <2>2. /\ f \in Path /\ mem[q].e[f] \in Entry /\ Stowed(cas, f, mem[q].e[f])
        /\ (mem[q].e[f].fresh /\ ~mem[q].e[f].blind => disk[f] = Bytes(mem[q].e[f]))
    BY <1>3, <2>1 DEF Trusty
  <2>3. /\ index'[f] \in Entry /\ index'[f].h = mem[q].e[f].h
        /\ index'[f].parts = mem[q].e[f].parts /\ index'[f].blind = ~mem[q].e[f].fresh
    BY <2>1, <2>2 DEF Entry
  <2>4. Bytes(index'[f]) = Bytes(mem[q].e[f]) /\ Stowed(cas, f, index'[f])
    BY <2>2, <2>3 DEF Bytes, Stowed
  <2> QED BY <1>3, <2>1, <2>2, <2>3, <2>4
<1>5. Trusty(disk', cas', index')
  BY <1>1, <1>4 DEF Trusty
<1>6. Remembers("statted", mem[q], disk', cas', Len(commits'))
  BY <1>1, <1>2 DEF Remembers, AtFile, Staging
<1>7. /\ DOMAIN pc' = Proc /\ pc'[q] = "statted" /\ \A r \in Proc \ {q} : pc'[r] = pc[r]
  BY <1>1, <1>2
<1>8. \A r \in Proc : Remembers(pc'[r], mem'[r], disk', cas', Len(commits'))
  BY <1>1, <1>2, <1>6, <1>7, CommitsSame, SessionMoves
<1>9. Histories'
  BY <1>1, HistoryStays
<1> QED BY <1>1, <1>2, <1>5, <1>7, <1>8, <1>9, InPartsLater DEF Files, Sessions

LEMMA CheckoutHeadKeeps ==
    ASSUME WorkTreeInv, NEW q \in Proc, CheckoutHead(q)
    PROVE  WorkTreeInv'
<1>1. /\ pc[q] = "statted" /\ Done(q)
      /\ head' = [branch |-> mem[q].name,
                  at |-> IF mem[q].name = "none" THEN mem[q].target ELSE 0]
      /\ disk' = disk /\ cas' = cas /\ index' = index
      /\ commits' = commits /\ stash' = stash /\ tip' = tip
  BY DEF CheckoutHead
<1>2. mem[q].target \in 1 .. Len(commits) /\ DOMAIN commits = 1 .. Len(commits)
  BY <1>1 DEF WorkTreeInv, Remembers
<1>3. DOMAIN head' = {"branch", "at"} /\ head'.at \in {0} \cup DOMAIN commits'
  BY <1>1, <1>2
<1>4. Histories'
  BY <1>1, <1>3 DEF Histories, WorkTreeInv
<1>5. Sessions'
  BY <1>1, CommitsSame, DoneKeeps
<1> QED BY <1>1, <1>4, <1>5, InPartsLater DEF Files, WorkTreeInv

LEMMA RestoreKeeps ==
    ASSUME WorkTreeInv, NEW q \in Proc, NEW n \in 1 .. MaxCommits, NEW f \in Path, Restore(q, n, f)
    PROVE  WorkTreeInv'
<1>1. /\ n \in DOMAIN commits /\ f \in DOMAIN commits[n] /\ disk' = [disk EXCEPT ![f] = commits[n][f].h]
      /\ index' = Stale(index, {f}) /\ mem' = StaleMem({f}) /\ pc' = pc
      /\ cas' = cas /\ commits' = commits /\ stash' = stash /\ tip' = tip /\ head' = head
  BY DEF Restore
<1>2. disk \in [Path -> Piece] /\ Trusty(disk, cas, index) /\ commits[n] \in FileTree
  BY <1>1 DEF WorkTreeInv
<1>3. commits[n][f].h \in Content
  BY <1>1, <1>2, TreeEntries DEF TreeEntry
<1>4. disk' \in [Path -> Piece] /\ \A g \in Path \ {f} : disk'[g] = disk[g]
  BY <1>1, <1>2, <1>3 DEF Piece
<1>5. Trusty(disk', cas', index')
  BY <1>1, <1>2, <1>4, StaleTrusty
<1>6. Sessions'
  BY <1>1, <1>4, WritingKeeps
<1>7. Histories'
  BY <1>1, HistoryStays
<1> QED BY <1>4, <1>5, <1>6, <1>7, InPartsLater DEF Files

LEMMA KilledKeeps ==
    ASSUME WorkTreeInv, NEW q \in Proc, Killed(q)
    PROVE  WorkTreeInv'
<1>1. /\ Done(q) /\ disk' = disk /\ cas' = cas /\ index' = index
      /\ commits' = commits /\ stash' = stash /\ tip' = tip /\ head' = head
  BY DEF Killed
<1>2. Sessions'
  BY <1>1, CommitsSame, DoneKeeps
<1>3. Histories'
  BY <1>1, HistoryStays
<1> QED BY <1>1, <1>2, <1>3, InPartsLater DEF Files, WorkTreeInv

(* Stash.                                                                    *)
LEMMA StashStartKeeps ==
    ASSUME WorkTreeInv, NEW q \in Proc, StashStart(q)
    PROVE  WorkTreeInv'
<1> DEFINE F == StagedFiles(index) \cup ModifiedFiles(index)
           m == [Holding EXCEPT !.todo = F]
<1>1. /\ pc' = [pc EXCEPT ![q] = "stashing"] /\ mem' = [mem EXCEPT ![q] = m]
      /\ disk' = disk /\ cas' = cas /\ index' = index
      /\ commits' = commits /\ stash' = stash /\ tip' = tip /\ head' = head
  BY DEF StashStart
<1>2. F \subseteq DOMAIN index
  BY DEF StagedFiles, ModifiedFiles
<1> HIDE DEF F
<1>3. /\ DOMAIN m = DOMAIN Blank /\ m.e = index /\ m.saved = Nothing /\ m.st = FALSE /\ m.todo = F
  BY DEF Holding, Blank
<1>4. Trusty(disk, cas, index) /\ Trusty(disk, cas, Nothing)
  BY NothingHolds DEF WorkTreeInv
<1> HIDE DEF m
<1>5. Remembers("stashing", m, disk', cas', Len(commits'))
  BY <1>1, <1>2, <1>3, <1>4 DEF Remembers, AtFile, Staging
<1>6. Sessions'
  BY <1>1, <1>5, CommitsSame, StepKeeps
<1>7. Histories'
  BY <1>1, HistoryStays
<1> QED BY <1>1, <1>6, <1>7, InPartsLater DEF Files, WorkTreeInv

(* Files that become HEAD's, or go.                                          *)
LEMMA RevertedFiles ==
    ASSUME WorkTreeInv, NEW F
    PROVE  /\ Reverted(F) \in [Path -> Piece]
           /\ \A f \in Path \ F : Reverted(F)[f] = disk[f]
           /\ \A f \in F \cap DOMAIN HeadTree : f \in Path /\ HeadTree[f] \in TreeEntry
                                                /\ Reverted(F)[f] = Bytes(HeadTree[f])
<1>1. disk \in [Path -> Piece] /\ HeadTree \in FileTree
  BY HeadIsStowed DEF WorkTreeInv
<1>2. \A f \in DOMAIN HeadTree : f \in Path /\ HeadTree[f] \in TreeEntry
  BY <1>1, TreeEntries
<1>3. \A f \in DOMAIN HeadTree : Bytes(HeadTree[f]) \in Piece
  BY <1>2 DEF TreeEntry, Bytes, Piece
<1>4. Reverted(F) = [f \in Path |-> IF f \notin F THEN disk[f]
                                    ELSE IF f \in DOMAIN HeadTree THEN Bytes(HeadTree[f])
                                    ELSE "none"]
  BY DEF Reverted
<1>5. "none" \in Piece
  BY DEF Piece
<1> QED BY <1>1, <1>2, <1>3, <1>4, <1>5

LEMMA StashFailsKeeps ==
    ASSUME WorkTreeInv, NEW q \in Proc, StashFails(q)
    PROVE  WorkTreeInv'
<1>1. PICK W : /\ cas \subseteq cas' /\ disk' = Reverted(W) /\ index' = Stale(index, W)
               /\ DoneWriting(q, W)
  BY DEF StashFails
<1>2. commits' = commits /\ stash' = stash /\ tip' = tip /\ head' = head
  BY DEF StashFails
<1>3. disk' \in [Path -> Piece] /\ \A f \in Path \ W : disk'[f] = disk[f]
  BY <1>1, RevertedFiles
<1>4. Trusty(disk', cas', index')
  BY <1>1, <1>3, StaleTrusty DEF WorkTreeInv
<1>5. Sessions'
  BY <1>1, <1>2, <1>3, DoneWritingKeeps
<1>6. Histories'
  BY <1>1, <1>2, HistoryStays
<1> QED BY <1>3, <1>4, <1>5, <1>6, InPartsLater DEF Files

LEMMA StashRecordKeeps ==
    ASSUME WorkTreeInv, NEW q \in Proc, StashRecord(q)
    PROVE  WorkTreeInv'
<1>1. /\ pc[q] = "reverted" /\ index' = mem[q].e /\ stash' = Append(stash, mem[q].rec) /\ Done(q)
      /\ disk' = disk /\ cas' = cas /\ commits' = commits /\ tip' = tip /\ head' = head
  BY DEF StashRecord
<1>2. /\ Trusty(disk, cas, mem[q].e) /\ mem[q].rec \in Shelf /\ Recorded(cas, mem[q].rec)
      /\ stash \in Seq(Shelf) /\ \A i \in DOMAIN stash : Recorded(cas, stash[i])
      /\ disk \in [Path -> Piece]
  BY <1>1 DEF WorkTreeInv, Remembers
<1>3. /\ stash' \in Seq(Shelf) /\ DOMAIN stash' = 1 .. Len(stash) + 1
      /\ DOMAIN stash = 1 .. Len(stash) /\ Len(stash) \in Nat
      /\ stash'[Len(stash) + 1] = mem[q].rec /\ \A i \in DOMAIN stash : stash'[i] = stash[i]
  BY <1>1, <1>2
<1>4. ASSUME NEW i \in DOMAIN stash' PROVE Recorded(cas, stash'[i])
  <2>1. CASE i = Len(stash) + 1
    BY <1>2, <1>3, <2>1
  <2>2. CASE i \in DOMAIN stash
    BY <1>2, <1>3, <2>2
  <2> QED BY <1>3, <2>1, <2>2
<1>5. Histories'
  BY <1>1, <1>3, <1>4 DEF Histories, WorkTreeInv
<1>6. Sessions'
  BY <1>1, CommitsSame, DoneKeeps
<1> QED BY <1>1, <1>2, <1>5, <1>6, InPartsLater DEF Files

LEMMA PopStartKeeps ==
    ASSUME WorkTreeInv, NEW q \in Proc, NEW k \in DOMAIN stash, NEW drop \in BOOLEAN,
           PopStart(q, k, drop)
    PROVE  WorkTreeInv'
<1> DEFINE m == [Holding EXCEPT !.target = k, !.rec = stash[k]]
           p == IF drop THEN "popping" ELSE "applying"
<1>1. /\ pc' = [pc EXCEPT ![q] = p] /\ mem' = [mem EXCEPT ![q] = m]
      /\ disk' = disk /\ cas' = cas /\ index' = index
      /\ commits' = commits /\ stash' = stash /\ tip' = tip /\ head' = head
  BY DEF PopStart
<1>2. /\ DOMAIN m = DOMAIN Blank /\ m.e = index /\ m.saved = Nothing /\ m.st = FALSE
      /\ m.rec = stash[k]
  BY DEF Holding, Blank
<1>3. /\ Trusty(disk, cas, index) /\ Trusty(disk, cas, Nothing)
      /\ stash[k] \in Shelf /\ Recorded(cas, stash[k])
  BY NothingHolds DEF WorkTreeInv
<1>4. p \in {"popping", "applying"}
  OBVIOUS
<1> HIDE DEF m, p
<1>5. Remembers(p, m, disk', cas', Len(commits'))
  BY <1>1, <1>2, <1>3, <1>4 DEF Remembers, AtFile, Staging
<1>6. Sessions'
  BY <1>1, <1>5, CommitsSame, StepKeeps
<1>7. Histories'
  BY <1>1, HistoryStays
<1> QED BY <1>1, <1>6, <1>7, InPartsLater DEF Files, WorkTreeInv

(* A record that is popped or dropped leaves the others as they are.         *)
LEMMA StashWithout ==
    ASSUME WorkTreeInv, NEW k, stash' = [stash EXCEPT ![k] = Nothing]
    PROVE  stash' \in Seq(Shelf) /\ \A i \in DOMAIN stash' : Recorded(cas, stash'[i])
<1>1. stash \in Seq(Shelf) /\ \A i \in DOMAIN stash : Recorded(cas, stash[i])
  BY DEF WorkTreeInv
<1>2. Nothing \in Shelf /\ Recorded(cas, Nothing)
  BY NothingHolds
<1>3. DOMAIN stash' = DOMAIN stash
      /\ \A i \in DOMAIN stash : stash'[i] = IF i = k THEN Nothing ELSE stash[i]
  OBVIOUS
<1>4. CASE k \in DOMAIN stash
  <2>1. k \in 1 .. Len(stash)
    BY <1>1, <1>4
  <2>2. stash' \in Seq(Shelf)
    BY <1>1, <1>2, <2>1, ExceptSeq
  <2> QED BY <1>1, <1>2, <1>3, <2>2
<1>5. CASE k \notin DOMAIN stash
  <2>1. stash' = stash
    BY <1>1, <1>3, <1>5
  <2> QED BY <1>1, <2>1
<1> QED BY <1>4, <1>5

LEMMA StashDropKeeps ==
    ASSUME WorkTreeInv, NEW q \in Proc, NEW k \in DOMAIN stash, StashDrop(q, k)
    PROVE  WorkTreeInv'
<1>1. /\ stash' = [stash EXCEPT ![k] = Nothing] /\ mem' = mem /\ pc' = pc
      /\ disk' = disk /\ cas' = cas /\ index' = index
      /\ commits' = commits /\ tip' = tip /\ head' = head
  BY DEF StashDrop
<1>2. stash' \in Seq(Shelf) /\ \A i \in DOMAIN stash' : Recorded(cas, stash'[i])
  BY <1>1, StashWithout
<1>3. Histories'
  BY <1>1, <1>2 DEF Histories, WorkTreeInv
<1>4. Sessions'
  BY <1>1, CommitsSame, IdleKeeps
<1> QED BY <1>1, <1>3, <1>4, InPartsLater DEF Files, WorkTreeInv

(* What a record brings back into the index.                                 *)
LEMMA PoppedTrusty ==
    ASSUME WorkTreeInv, NEW rec \in Shelf, Recorded(cas, rec), NEW f \in DOMAIN rec
    PROVE  /\ Popped(rec[f], f) \in Entry /\ Stowed(cas, f, Popped(rec[f], f))
           /\ Popped(rec[f], f).fresh => Bytes(Popped(rec[f], f)) = Bytes(rec[f])
<1>1. f \in Path /\ rec[f] \in StashEntry /\ Stowed(cas, f, rec[f])
  BY ShelfEntries DEF Recorded
<1>2. CASE rec[f].staged
  <2>1. Popped(rec[f], f) = [h |-> rec[f].h, parts |-> rec[f].parts, fresh |-> TRUE,
                             staged |-> TRUE, blind |-> FALSE]
    BY <1>2 DEF Popped
  <2>2. Popped(rec[f], f) \in Entry /\ Popped(rec[f], f).h = rec[f].h
        /\ Popped(rec[f], f).parts = rec[f].parts
    BY <1>1, <2>1 DEF StashEntry, Entry
  <2> QED BY <1>1, <2>2 DEF Stowed, Bytes
<1>3. CASE ~rec[f].staged
  <2> DEFINE h == IF f \in DOMAIN HeadTree THEN HeadTree[f].h ELSE rec[f].h
  <2>1. h \in Content /\ Stored(f, h) \in cas
    <3>1. CASE f \in DOMAIN HeadTree
      <4>1. HeadTree[f] \in TreeEntry /\ Stowed(cas, f, HeadTree[f])
        BY <3>1, HeadIsStowed, TreeEntries DEF Recorded
      <4> QED BY <3>1, <4>1 DEF TreeEntry, Stowed
    <3>2. CASE f \notin DOMAIN HeadTree
      BY <1>1, <3>2 DEF StashEntry, Stowed
    <3> QED BY <3>1, <3>2
  <2>2. Popped(rec[f], f) = [h |-> h, parts |-> rec[f].parts, fresh |-> FALSE,
                             staged |-> FALSE, blind |-> FALSE]
    BY <1>3 DEF Popped
  <2> HIDE DEF h
  <2>3. Popped(rec[f], f) \in Entry /\ Popped(rec[f], f).h = h
        /\ Popped(rec[f], f).parts = rec[f].parts /\ Popped(rec[f], f).fresh = FALSE
    BY <1>1, <2>1, <2>2 DEF StashEntry, Entry
  <2> QED BY <1>1, <2>1, <2>3 DEF Stowed
<1> QED BY <1>2, <1>3

LEMMA PopFinishKeeps ==
    ASSUME WorkTreeInv, NEW q \in Proc, PopFinish(q)
    PROVE  WorkTreeInv'
<1>1. PICK rec : rec = mem[q].rec
  OBVIOUS
<1> DEFINE F == DOMAIN rec
           new == [f \in F |-> Popped(rec[f], f)]
<1>2. /\ pc[q] \in {"popping", "applying"}
      /\ disk' = [f \in Path |-> IF f \in F THEN Bytes(rec[f]) ELSE disk[f]]
      /\ index' = Over(new, mem[q].e) /\ DoneWriting(q, F)
      /\ stash' = stash \/ stash' = [stash EXCEPT ![mem[q].target] = Nothing]
      /\ cas' = cas /\ commits' = commits /\ tip' = tip /\ head' = head
  BY <1>1 DEF PopFinish
<1>3. /\ rec \in Shelf /\ Recorded(cas, rec) /\ Trusty(disk, cas, mem[q].e)
      /\ disk \in [Path -> Piece]
  BY <1>1, <1>2 DEF WorkTreeInv, Remembers
<1>4. \A f \in F : f \in Path /\ rec[f] \in StashEntry
  BY <1>3, ShelfEntries
<1>5. disk' \in [Path -> Piece] /\ \A f \in Path \ F : disk'[f] = disk[f]
  BY <1>2, <1>3, <1>4 DEF StashEntry, Bytes, Piece
<1>6. DOMAIN index' = F \cup DOMAIN mem[q].e
      /\ \A f \in DOMAIN index' : index'[f] = IF f \in F THEN Popped(rec[f], f) ELSE mem[q].e[f]
  BY <1>2 DEF Over
<1>7. ASSUME NEW f \in DOMAIN index'
      PROVE  /\ f \in Path /\ index'[f] \in Entry /\ Stowed(cas, f, index'[f])
             /\ index'[f].fresh /\ ~index'[f].blind => disk'[f] = Bytes(index'[f])
  <2>1. CASE f \in F
    <3>1. /\ Popped(rec[f], f) \in Entry /\ Stowed(cas, f, Popped(rec[f], f))
          /\ Popped(rec[f], f).fresh => Bytes(Popped(rec[f], f)) = Bytes(rec[f])
      BY <1>3, <2>1, PoppedTrusty
    <3>2. index'[f] = Popped(rec[f], f) /\ disk'[f] = Bytes(rec[f]) /\ f \in Path
      BY <1>2, <1>4, <1>6, <2>1
    <3> QED BY <3>1, <3>2
  <2>2. CASE f \notin F
    <3>1. f \in DOMAIN mem[q].e /\ index'[f] = mem[q].e[f]
      BY <1>6, <2>2
    <3>2. /\ f \in Path /\ index'[f] \in Entry /\ Stowed(cas, f, index'[f])
          /\ (index'[f].fresh /\ ~index'[f].blind => disk[f] = Bytes(index'[f]))
      BY <1>3, <3>1 DEF Trusty
    <3> QED BY <1>5, <2>2, <3>2
  <2> QED BY <2>1, <2>2
<1>8. Trusty(disk', cas', index')
  BY <1>2, <1>7 DEF Trusty
<1>9. stash' \in Seq(Shelf) /\ \A i \in DOMAIN stash' : Recorded(cas, stash'[i])
  BY <1>2, StashWithout DEF WorkTreeInv
<1>10. Histories'
  BY <1>2, <1>9 DEF Histories, WorkTreeInv
<1> HIDE DEF F, new
<1>11. Sessions'
  BY <1>2, <1>5, DoneWritingKeeps
<1> QED BY <1>5, <1>8, <1>10, <1>11, InPartsLater DEF Files

LEMMA StashRevertKeeps ==
    ASSUME WorkTreeInv, NEW q \in Proc, StashRevert(q)
    PROVE  WorkTreeInv'
<1>1. PICK F : F = mem[q].todo
  OBVIOUS
<1>2. PICK M : M = {f \in F : ~mem[q].e[f].staged}
  OBVIOUS
<1> DEFINE E == [f \in F |-> IF f \in M THEN NewEntry(mem[q].e, f, disk[f], TRUE) ELSE mem[q].e[f]]
           rec == [f \in F |-> [h |-> E[f].h, parts |-> E[f].parts, staged |-> f \notin M]]
           head0 == Restrict(HeadTree, F \cap DOMAIN HeadTree)
           rest == Restrict(Stale(mem[q].e, F), DOMAIN Stale(mem[q].e, F) \ F)
<1>3. /\ pc[q] = "stashing" /\ \A f \in F : CanRevert(f)
      /\ cas' = cas \cup {Stored(f, disk[f]) : f \in M}
      /\ disk' = Reverted(F) /\ index' = Stale(index, F)
      /\ mem' = [StaleMem(F) EXCEPT
                    ![q].e = Over(CleanIndex(head0), Restrict(@, DOMAIN @ \ F)), ![q].rec = rec]
      /\ pc' = [pc EXCEPT ![q] = "reverted"]
      /\ commits' = commits /\ stash' = stash /\ tip' = tip /\ head' = head
  BY <1>1, <1>2 DEF StashRevert
<1>4. /\ Remembers(pc[q], mem[q], disk, cas, Len(commits)) /\ F \subseteq DOMAIN mem[q].e
      /\ DOMAIN pc = Proc /\ DOMAIN mem = Proc /\ disk \in [Path -> Piece]
      /\ Trusty(disk, cas, index)
  BY <1>1, <1>3 DEF WorkTreeInv, Remembers
<1>5. Len(commits') \in Nat /\ Len(commits) <= Len(commits') /\ cas \subseteq cas'
  BY <1>3, CommitsSame
<1>6. /\ disk' \in [Path -> Piece] /\ \A f \in Path \ F : disk'[f] = disk[f]
      /\ \A f \in F \cap DOMAIN HeadTree : f \in Path /\ HeadTree[f] \in TreeEntry
                                           /\ disk'[f] = Bytes(HeadTree[f])
  BY <1>3, RevertedFiles
<1>7. Trusty(disk', cas', index')
  BY <1>3, <1>4, <1>5, <1>6, StaleTrusty
<1>8. Histories'
  BY <1>3, <1>5, HistoryStays
<1>9. ASSUME NEW f \in F
      PROVE  f \in Path /\ E[f] \in Entry /\ Stowed(cas', f, E[f])
  <2>1. f \in Path /\ mem[q].e[f] \in Entry /\ Stowed(cas, f, mem[q].e[f])
    BY <1>4 DEF Remembers, Trusty
  <2>2. CASE f \in M
    <3>1. disk[f] \in Content /\ Stored(f, disk[f]) \in cas'
      BY <1>3, <1>4, <2>1, <2>2 DEF CanRevert, Piece
    <3>2. E[f] = NewEntry(mem[q].e, f, disk[f], TRUE)
      BY <2>2
    <3>3. /\ NewEntry(mem[q].e, f, disk[f], TRUE) \in Entry
          /\ Stowed(cas', f, NewEntry(mem[q].e, f, disk[f], TRUE))
      BY <2>1, <3>1, NewEntryTrusty
    <3> QED BY <2>1, <3>2, <3>3
  <2>3. CASE f \notin M
    <3>1. E[f] = mem[q].e[f]
      BY <2>3
    <3>2. Stowed(cas', f, mem[q].e[f])
      BY <1>5, <2>1, StowedMore
    <3> QED BY <2>1, <3>1, <3>2
  <2> QED BY <2>2, <2>3
<1> HIDE DEF E
<1>10. rec \in Shelf /\ Recorded(cas', rec)
  <2>1. \A f \in F : [h |-> E[f].h, parts |-> E[f].parts, staged |-> f \notin M] \in StashEntry
    BY <1>9 DEF Entry, StashEntry
  <2>2. rec \in [F -> StashEntry]
    BY <2>1
  <2>3. F \in SUBSET Path
    BY <1>9
  <2>4. rec \in Shelf
    BY <2>2, <2>3 DEF Shelf
  <2>5. DOMAIN rec = F /\ \A f \in F : rec[f].h = E[f].h /\ rec[f].parts = E[f].parts
    OBVIOUS
  <2> HIDE DEF rec
  <2>6. Recorded(cas', rec)
    BY <1>9, <2>5 DEF Recorded, Stowed
  <2> QED BY <2>4, <2>6
<1>11. Trusty(disk', cas', CleanIndex(head0))
  <2>1. Recorded(cas', HeadTree)
    BY <1>5, HeadIsStowed, RecordedMore
  <2>2. DOMAIN head0 = F \cap DOMAIN HeadTree
        /\ \A f \in F \cap DOMAIN HeadTree : head0[f] = HeadTree[f]
    BY DEF Restrict
  <2> HIDE DEF head0
  <2>3. Recorded(cas', head0)
    BY <2>1, <2>2 DEF Recorded
  <2>4. \A f \in DOMAIN head0 : f \in Path /\ head0[f] \in TreeEntry /\ disk'[f] = Bytes(head0[f])
    BY <1>6, <2>2
  <2> QED BY <2>3, <2>4, CleanTrusty
<1>12. Trusty(disk', cas', rest)
  <2>1. Trusty(disk', cas', Stale(mem[q].e, F))
    BY <1>4, <1>5, <1>6, StaleTrusty DEF Remembers
  <2> QED BY <2>1, RestrictTrusty
<1> HIDE DEF head0, rec
<1>13. /\ DOMAIN mem' = Proc /\ \A r \in Proc \ {q} : mem'[r] = Staled(mem[r], F)
       /\ mem'[q] = [Staled(mem[q], F) EXCEPT !.e = Over(CleanIndex(head0), Restrict(@, DOMAIN @ \ F)),
                                              !.rec = rec]
  BY <1>3, <1>4 DEF StaleMem, Staled
<1>14. Remembers(pc[q], Staled(mem[q], F), disk', cas', Len(commits'))
  BY <1>4, <1>5, <1>6, <1>3, CommitsSame, RemembersStale DEF WorkTreeInv
<1>15. DOMAIN Staled(mem[q], F) = DOMAIN Blank /\ Staled(mem[q], F).e = Stale(mem[q].e, F)
  BY <1>4 DEF Staled, Remembers, Blank
<1>16. /\ DOMAIN mem'[q] = DOMAIN Blank /\ mem'[q].e = Over(CleanIndex(head0), rest)
       /\ mem'[q].rec = rec
       /\ Trusty(disk', cas', mem'[q].saved) /\ mem'[q].st \in BOOLEAN
  BY <1>13, <1>14, <1>15 DEF Remembers, Blank
<1>17. Trusty(disk', cas', mem'[q].e)
  BY <1>11, <1>12, <1>16, OverTrusty
<1>18. /\ DOMAIN pc' = Proc /\ pc'[q] = "reverted" /\ \A r \in Proc \ {q} : pc'[r] = pc[r]
  BY <1>3, <1>4
<1>19. Remembers(pc'[q], mem'[q], disk', cas', Len(commits'))
  BY <1>10, <1>16, <1>17, <1>18 DEF Remembers, AtFile, Staging
<1>20. \A r \in Proc : Remembers(pc'[r], mem'[r], disk', cas', Len(commits'))
  BY <1>5, <1>6, <1>13, <1>18, <1>19, SessionWrites
<1> QED BY <1>6, <1>7, <1>8, <1>13, <1>18, <1>20, InPartsLater DEF Files, Sessions

LEMMA WorkTreeStarts == WtInit => WorkTreeInv
<1> SUFFICES ASSUME WtInit PROVE WorkTreeInv
  OBVIOUS
<1>1. PICK c \in Content :
        /\ disk = [f \in Path |-> c] /\ cas = {Stored(f, c) : f \in Path}
        /\ index = CleanIndex([f \in Path |-> [h |-> c, parts |-> PartsOf(f, c)]])
        /\ commits = <<TreeOf(index)>>
  BY DEF WtInit
<1>2. /\ tip = [b \in {Main} |-> 1] /\ head = [branch |-> Main, at |-> 0] /\ stash = <<>>
      /\ pc = [q \in Proc |-> "idle"] /\ mem = [q \in Proc |-> Blank]
  BY DEF WtInit
<1> DEFINE t == [f \in Path |-> [h |-> c, parts |-> PartsOf(f, c)]]
<1>3. c # "none" /\ c \in Piece
  BY WorkTreeAssumption DEF Piece
<1>4. ASSUME NEW f \in Path
      PROVE  t[f] \in TreeEntry /\ disk[f] = Bytes(t[f]) /\ Stowed(cas, f, t[f])
  <2>1. t[f] = [h |-> c, parts |-> PartsOf(f, c)] /\ disk[f] = c
    BY <1>1
  <2>2. t[f] \in TreeEntry
    BY <1>3, <2>1 DEF TreeEntry, PartsOf, Piece
  <2>3. disk[f] = Bytes(t[f])
    BY <1>3, <2>1 DEF Bytes, PartsOf
  <2>4. Stowed(cas, f, t[f])
    BY <1>1, <1>3, <2>1 DEF Stowed, Stored, PartsOf
  <2> QED BY <2>2, <2>3, <2>4
<1>5. DOMAIN t = Path
  OBVIOUS
<1>6. index = CleanIndex(t)
  BY <1>1
<1> HIDE DEF t
<1>7. Trusty(disk, cas, index)
  <2>1. Recorded(cas, t)
    BY <1>4, <1>5 DEF Recorded
  <2> QED BY <1>4, <1>5, <1>6, <2>1, CleanTrusty
<1>8. TreeOf(index) \in FileTree /\ Recorded(cas, TreeOf(index))
  BY <1>7, TreeOfStowed
<1>9. commits \in Seq(FileTree) /\ Len(commits) = 1 /\ DOMAIN commits = {1}
      /\ \A i \in DOMAIN commits : Recorded(cas, commits[i])
  <2>1. PICK t0 \in FileTree : t0 = TreeOf(index)
    BY <1>8
  <2>2. commits = <<t0>> /\ Recorded(cas, t0)
    BY <1>1, <1>8, <2>1
  <2>3. commits \in Seq(FileTree) /\ Len(commits) = 1 /\ commits[1] = t0
    BY <2>2
  <2>4. DOMAIN commits = {1}
    BY <2>3
  <2> QED BY <2>2, <2>3, <2>4
<1>10. Histories
  BY <1>2, <1>9 DEF Histories
<1>11. Sessions
  BY <1>2, BlankRemembers DEF Sessions
<1>12. Files
  BY <1>1, <1>3, <1>7 DEF Files
<1> QED BY <1>10, <1>11, <1>12, InParts

LEMMA WorkTreeStutters ==
    ASSUME WorkTreeInv, UNCHANGED wtVars
    PROVE  WorkTreeInv'
<1>1. /\ disk' = disk /\ cas' = cas /\ index' = index /\ mem' = mem /\ pc' = pc
      /\ commits' = commits /\ stash' = stash /\ tip' = tip /\ head' = head
  BY DEF wtVars
<1>2. Sessions'
  BY <1>1, CommitsSame, IdleKeeps
<1>3. Histories'
  BY <1>1, HistoryStays
<1> QED BY <1>1, <1>2, <1>3, InPartsLater DEF Files, WorkTreeInv

LEMMA WorkTreeSteps == WorkTreeInv /\ [WtNext]_wtVars => WorkTreeInv'
<1> SUFFICES ASSUME WorkTreeInv, [WtNext]_wtVars PROVE WorkTreeInv'
  OBVIOUS
<1>1. CASE UNCHANGED wtVars
  BY <1>1, WorkTreeStutters
<1>2. CASE \E f \in Path, c \in Content \cup {"none"} : Edit(f, c)
  BY <1>2, EditKeeps
<1>3. ASSUME NEW q \in Proc, StagingStep(q) PROVE WorkTreeInv'
  <2>1. ASSUME NEW f \in Path,
               AddStart(q, f) \/ SdkAddStart(q, f) \/ WatchStart(q, f) \/ ScopedStart(q, f)
        PROVE  WorkTreeInv'
    BY <2>1, StageStartKeeps DEF AddStart, SdkAddStart, WatchStart, ScopedStart, Staging
  <2> QED BY <1>3, <2>1, StageHashKeeps, AddMergeKeeps, SdkAddSaveKeeps, WatchSaveKeeps
         DEF StagingStep
<1>4. ASSUME NEW q \in Proc, CommitStep(q) PROVE WorkTreeInv'
  BY <1>4, CommitNowKeeps, SdkCommitLoadKeeps, CommitCopyKeeps, ScopedCommitKeeps,
     ScopedMergeBackKeeps DEF CommitStep
<1>5. ASSUME NEW q \in Proc, IndexStep(q) PROVE WorkTreeInv'
  BY <1>5, RmKeeps, UnstageKeeps, CreateBranchKeeps DEF IndexStep
<1>6. ASSUME NEW q \in Proc, CheckoutStep(q) PROVE WorkTreeInv'
  BY <1>6, CheckoutStartKeeps, CheckoutCheckKeeps, CheckoutFileKeeps, CheckoutStatKeeps,
     CheckoutHeadKeeps, RestoreKeeps DEF CheckoutStep
<1>7. ASSUME NEW q \in Proc, StashStep(q) PROVE WorkTreeInv'
  BY <1>7, StashStartKeeps, StashRevertKeeps, StashFailsKeeps, StashRecordKeeps, PopStartKeeps,
     PopFinishKeeps, StashDropKeeps DEF StashStep
<1> QED BY <1>1, <1>2, <1>3, <1>4, <1>5, <1>6, <1>7, KilledKeeps DEF WtNext

LEMMA WorkTreeAlways == WtSpec => []WorkTreeInv
  BY WorkTreeStarts, WorkTreeSteps, PTL DEF WtSpec

(* status, add, checkout and stash may trust the stat of a file: whatever any *)
(* number of processes stage, unstage, shelve, switch and write back without  *)
(* the lock, an entry that reads clean names the content of the file, save    *)
(* the two exceptions that CleanIsTrue names.                                 *)
THEOREM CleanStaysTrue == WtSpec => []CleanIsTrue
<1>1. WorkTreeInv => CleanIsTrue
  BY DEF WorkTreeInv, Trusty, CleanIsTrue, Tracked, Bytes
<1> QED BY <1>1, WorkTreeAlways, PTL

(* A checkout gets on with its files, and one changes: it was its own write. *)
LEMMA OnlyCheckoutWrites ==
    ASSUME WorkTreeInv, WtNext, NEW q \in Proc, pc[q] = "checked", disk' # disk,
           mem'[q].todo # mem[q].todo
    PROVE  \E g \in Path : CheckoutFile(q, g)
<1>1. /\ DOMAIN pc = Proc /\ DOMAIN mem = Proc /\ DOMAIN mem[q] = DOMAIN Blank
  BY DEF WorkTreeInv, Remembers
<1>2. ASSUME NEW F, mem'[q] = Staled(mem[q], F) PROVE FALSE
  BY <1>1, <1>2 DEF Staled, Blank
<1>3. ASSUME NEW F, mem' = StaleMem(F) PROVE FALSE
  <2>1. mem'[q] = Staled(mem[q], F)
    BY <1>3 DEF StaleMem, Staled
  <2> QED BY <1>2, <2>1
<1>4. ASSUME NEW r \in Proc \ {q}, NEW F, DoneWriting(r, F) PROVE FALSE
  <2>1. mem'[q] = Staled(mem[q], F)
    BY <1>4 DEF DoneWriting, StaleMem, Staled
  <2> QED BY <1>2, <2>1
<1>5. ASSUME NEW f, NEW c, Edit(f, c) PROVE FALSE
  BY <1>3, <1>5 DEF Edit
<1>6. ASSUME NEW r \in Proc, StagingStep(r) PROVE FALSE
  BY <1>6 DEF StagingStep, AddStart, SdkAddStart, WatchStart, ScopedStart, StageStart, StageHash,
     AddMerge, SdkAddSave, WatchSave, SaveCopy
<1>7. ASSUME NEW r \in Proc, CommitStep(r) PROVE FALSE
  BY <1>7 DEF CommitStep, CommitNow, SdkCommitLoad, CommitCopy, ScopedCommit, ScopedMergeBack
<1>8. ASSUME NEW r \in Proc, IndexStep(r) PROVE FALSE
  <2>1. ASSUME NEW f, NEW cached, Rm(r, f, cached) PROVE FALSE
    <3>1. PICK F : mem' = StaleMem(F)
      BY <2>1 DEF Rm
    <3> QED BY <1>3, <3>1
  <2> QED BY <1>8, <2>1 DEF IndexStep, Unstage, CreateBranch
<1>9. ASSUME NEW r \in Proc, CheckoutStep(r) PROVE \E g \in Path : CheckoutFile(q, g)
  <2>1. ASSUME NEW g \in Path, CheckoutFile(r, g), r # q PROVE FALSE
    <3>1. CASE DoneWriting(r, {g})
      BY <1>4, <2>1, <3>1
    <3>2. CASE mem' = [StaleMem({g}) EXCEPT
                         ![r].todo = @ \ {g},
                         ![r].e = IF g \in DOMAIN commits[mem[r].target]
                                  THEN PutEntry(@, g, CleanEntry(commits[mem[r].target][g])) ELSE @]
      <4>1. mem'[q] = Staled(mem[q], {g})
        BY <2>1, <3>2 DEF StaleMem, Staled
      <4> QED BY <1>2, <4>1
    <3> QED BY <2>1, <3>1, <3>2 DEF CheckoutFile
  <2>2. ASSUME NEW n, NEW f, Restore(r, n, f) PROVE FALSE
    BY <1>3, <2>2 DEF Restore
  <2> QED BY <1>9, <2>1, <2>2 DEF CheckoutStep, CheckoutStart, CheckoutCheck, CheckoutStat,
         CheckoutHead
<1>10. ASSUME NEW r \in Proc, StashStep(r) PROVE FALSE
  <2>1. CASE StashRevert(r)
    <3>1. r # q
      BY <2>1 DEF StashRevert
    <3>2. mem'[q] = Staled(mem[q], mem[r].todo)
      BY <2>1, <3>1 DEF StashRevert, StaleMem, Staled
    <3> QED BY <1>2, <3>2
  <2>2. CASE StashFails(r)
    <3>1. r # q /\ \E W : DoneWriting(r, W)
      BY <2>2 DEF StashFails
    <3> QED BY <1>4, <3>1
  <2>3. CASE PopFinish(r)
    <3>1. r # q /\ \E W : DoneWriting(r, W)
      BY <2>3 DEF PopFinish
    <3> QED BY <1>4, <3>1
  <2> QED BY <1>10, <2>1, <2>2, <2>3 DEF StashStep, StashStart, StashRecord, PopStart, StashDrop
<1>11. ASSUME NEW r \in Proc, Killed(r) PROVE FALSE
  BY <1>11 DEF Killed
<1> QED BY <1>5, <1>6, <1>7, <1>8, <1>9, <1>10, <1>11 DEF WtNext

(* What the guard passed, and nobody wrote since, is stored.                 *)
LEMMA CheckoutSpares ==
    ASSUME WorkTreeInv, NEW q \in Proc, pc[q] = "checked", NEW f \in mem[q].todo, f \in mem[q].sure,
           ~Misled(q, f), disk[f] # "none"
    PROVE  Stored(f, disk[f]) \in cas
<1>1. Spared(disk, cas, mem[q].saved, f) /\ Trusty(disk, cas, mem[q].saved)
  BY DEF WorkTreeInv, Remembers
<1>2. CASE f \in DOMAIN mem[q].saved
  <2>1. mem[q].saved[f].fresh /\ ~mem[q].saved[f].blind
    BY <1>1, <1>2 DEF Spared, Misled
  <2>2. disk[f] = Bytes(mem[q].saved[f]) /\ Stowed(cas, f, mem[q].saved[f])
    BY <1>1, <1>2, <2>1 DEF Trusty
  <2> QED BY <2>2 DEF Bytes, Stowed, Stored
<1>3. CASE f \notin DOMAIN mem[q].saved
  BY <1>1, <1>3 DEF Spared
<1> QED BY <1>2, <1>3

(* checkout without --force (the guard of _collect_dirty_paths and the writes *)
(* of _materialize_tree): of the files that nobody has written since the      *)
(* guard, what it overwrites or deletes is stored, and it touches no others.  *)
THEOREM CheckoutSparesWork == WtSpec => CheckoutKeepsWork
<1> DEFINE Spares ==
      \A q \in Proc, f \in Path :
         Overwrites(q, f) /\ f \in mem[q].sure /\ ~Misled(q, f)
         => Stored(f, disk[f]) \in cas
<1>1. WorkTreeInv /\ [WtNext]_wtVars => [Spares]_wtVars
  <2> SUFFICES ASSUME WorkTreeInv, WtNext, NEW q \in Proc, NEW f \in Path, Overwrites(q, f),
                      f \in mem[q].sure, ~Misled(q, f)
               PROVE  Stored(f, disk[f]) \in cas
    OBVIOUS
  <2>1. /\ pc[q] = "checked" /\ mem'[q].todo # mem[q].todo
        /\ disk'[f] # disk[f] /\ disk[f] # "none"
    BY DEF Overwrites
  <2>2. PICK g \in Path : CheckoutFile(q, g)
    BY <2>1, OnlyCheckoutWrites
  <2>3. g \in mem[q].todo /\ \A x \in Path \ {g} : disk'[x] = disk[x]
    BY <2>2 DEF CheckoutFile, WorkTreeInv
  <2> QED BY <2>1, <2>3, CheckoutSpares
<1>2. WtSpec => [][Spares]_wtVars
  BY <1>1, WorkTreeAlways, PTL DEF WtSpec
<1> QED BY <1>2 DEF CheckoutKeepsWork

(* Parts that are those of the content.                                      *)
AlignedFiles == Aligned(index)
AlignedHistory == \A i \in DOMAIN commits : Aligned(commits[i])
AlignedSessions == \A q \in Proc : /\ pc[q] \notin {"popping", "applying"}
                                   /\ Aligned(mem[q].e) /\ Aligned(mem[q].saved)

LEMMA AlignedInParts == AlignedInv <=> AlignedFiles /\ AlignedHistory /\ AlignedSessions
  BY DEF AlignedInv, AlignedFiles, AlignedHistory, AlignedSessions

LEMMA AlignedInPartsLater == AlignedInv' <=> AlignedFiles' /\ AlignedHistory' /\ AlignedSessions'
  BY DEF AlignedInv, AlignedFiles, AlignedHistory, AlignedSessions

LEMMA NothingAligned == Aligned(Nothing)
  BY DEF Aligned, Nothing

LEMMA StaleAligned ==
    ASSUME NEW d, NEW c, NEW e, NEW F, Trusty(d, c, e), Aligned(e)
    PROVE  Aligned(Stale(e, F))
<1>1. DOMAIN Stale(e, F) = DOMAIN e
  BY DEF Stale
<1>2. ASSUME NEW f \in DOMAIN e
      PROVE  Stale(e, F)[f].h = e[f].h /\ Stale(e, F)[f].parts = e[f].parts
  <2>1. e[f] \in Entry
    BY DEF Trusty
  <2>2. Stale(e, F)[f] = IF f \in F THEN [e[f] EXCEPT !.fresh = FALSE] ELSE e[f]
    BY DEF Stale
  <2> QED BY <2>1, <2>2 DEF Entry
<1> QED BY <1>1, <1>2 DEF Aligned

LEMMA PutAligned ==
    ASSUME NEW e, NEW f, NEW x, Aligned(e), x.parts = PartsOf(f, x.h)
    PROVE  Aligned(PutEntry(e, f, x))
  BY DEF Aligned, PutEntry

LEMMA OverAligned ==
    ASSUME NEW e, NEW s, Aligned(e), Aligned(s)
    PROVE  Aligned(Over(e, s))
  BY DEF Aligned, Over

LEMMA RestrictAligned ==
    ASSUME NEW e, NEW S, S \subseteq DOMAIN e, Aligned(e)
    PROVE  Aligned(Restrict(e, S))
  BY DEF Aligned, Restrict

LEMMA CleanAligned ==
    ASSUME NEW t, Aligned(t)
    PROVE  Aligned(CleanIndex(t))
  BY DEF Aligned, CleanIndex, CleanEntry

LEMMA CommittedAligned ==
    ASSUME NEW d, NEW c, NEW e, Trusty(d, c, e), Aligned(e)
    PROVE  Aligned(TreeOf(e)) /\ Aligned(ClearStaged(e))
<1>1. Aligned(TreeOf(e))
  BY DEF Aligned, TreeOf
<1>2. ASSUME NEW f \in DOMAIN e
      PROVE  ClearStaged(e)[f].h = e[f].h /\ ClearStaged(e)[f].parts = e[f].parts
  <2>1. e[f] \in Entry
    BY DEF Trusty
  <2>2. ClearStaged(e)[f] = [e[f] EXCEPT !.staged = FALSE]
    BY DEF ClearStaged
  <2> QED BY <2>1, <2>2 DEF Entry
<1>3. DOMAIN ClearStaged(e) = DOMAIN e
  BY DEF ClearStaged
<1> QED BY <1>1, <1>2, <1>3 DEF Aligned

LEMMA NewEntryAligned ==
    ASSUME NEW old, NEW f, NEW x, NEW st
    PROVE  NewEntry(old, f, x, st).parts = PartsOf(f, NewEntry(old, f, x, st).h)
  BY DEF NewEntry

LEMMA HeadAligned ==
    ASSUME WorkTreeInv, AlignedInv
    PROVE  Aligned(HeadTree)
  BY HeadIsStowed, NothingAligned DEF HeadTree, AlignedInv

(* A process goes on, while others stay or learn that files were written.    *)
LEMMA SessionsAligned ==
    ASSUME WorkTreeInv, AlignedInv, NEW q \in Proc, NEW F,
           \A r \in Proc \ {q} : pc'[r] = pc[r] /\ mem'[r] \in {mem[r], Staled(mem[r], F)},
           pc'[q] \notin {"popping", "applying"}, Aligned(mem'[q].e), Aligned(mem'[q].saved)
    PROVE  AlignedSessions'
<1>1. ASSUME NEW r \in Proc \ {q}
      PROVE  /\ pc'[r] \notin {"popping", "applying"}
             /\ Aligned(mem'[r].e) /\ Aligned(mem'[r].saved)
  <2>1. /\ pc[r] \notin {"popping", "applying"} /\ Aligned(mem[r].e) /\ Aligned(mem[r].saved)
        /\ DOMAIN mem[r] = DOMAIN Blank
        /\ Trusty(disk, cas, mem[r].e) /\ Trusty(disk, cas, mem[r].saved)
    BY DEF AlignedInv, WorkTreeInv, Remembers
  <2>2. Staled(mem[r], F).e = Stale(mem[r].e, F) /\ Staled(mem[r], F).saved = Stale(mem[r].saved, F)
    BY <2>1 DEF Staled, Blank
  <2>3. Aligned(Stale(mem[r].e, F)) /\ Aligned(Stale(mem[r].saved, F))
    BY <2>1, StaleAligned
  <2>4. CASE mem'[r] = mem[r]
    BY <2>1, <2>4
  <2>5. CASE mem'[r] = Staled(mem[r], F)
    BY <2>1, <2>2, <2>3, <2>5
  <2> QED BY <2>4, <2>5
<1>2. ASSUME NEW r \in Proc
      PROVE  /\ pc'[r] \notin {"popping", "applying"}
             /\ Aligned(mem'[r].e) /\ Aligned(mem'[r].saved)
  BY <1>1
<1> QED BY <1>2 DEF AlignedSessions

LEMMA IdleAligned ==
    ASSUME AlignedInv, pc' = pc, mem' = mem
    PROVE  AlignedSessions'
  BY DEF AlignedInv, AlignedSessions

LEMMA StepAligned ==
    ASSUME WorkTreeInv, AlignedInv, NEW q \in Proc, NEW p, NEW m, pc' = [pc EXCEPT ![q] = p],
           mem' = [mem EXCEPT ![q] = m], p # "popping", p # "applying", Aligned(m.e), Aligned(m.saved)
    PROVE  AlignedSessions'
<1>1. DOMAIN pc = Proc /\ DOMAIN mem = Proc
  BY DEF WorkTreeInv
<1>2. /\ pc'[q] = p /\ \A r \in Proc \ {q} : pc'[r] = pc[r]
      /\ mem'[q] = m /\ \A r \in Proc \ {q} : mem'[r] = mem[r]
  BY <1>1
<1> QED BY <1>2, SessionsAligned

LEMMA DoneAligned ==
    ASSUME WorkTreeInv, AlignedInv, NEW q \in Proc, Done(q)
    PROVE  AlignedSessions'
<1>1. Aligned(Blank.e) /\ Aligned(Blank.saved)
  BY NothingAligned DEF Blank
<1>2. pc' = [pc EXCEPT ![q] = "idle"] /\ mem' = [mem EXCEPT ![q] = Blank]
  BY DEF Done
<1> QED BY <1>1, <1>2, StepAligned

LEMMA WritingAligned ==
    ASSUME WorkTreeInv, AlignedInv, NEW F, mem' = StaleMem(F), pc' = pc
    PROVE  AlignedSessions'
<1>1. ASSUME NEW q \in Proc
      PROVE  /\ pc'[q] \notin {"popping", "applying"}
             /\ Aligned(mem'[q].e) /\ Aligned(mem'[q].saved)
  <2>1. /\ pc[q] \notin {"popping", "applying"} /\ Aligned(mem[q].e) /\ Aligned(mem[q].saved)
        /\ DOMAIN mem[q] = DOMAIN Blank
        /\ Trusty(disk, cas, mem[q].e) /\ Trusty(disk, cas, mem[q].saved)
    BY DEF AlignedInv, WorkTreeInv, Remembers
  <2>2. mem'[q].e = Stale(mem[q].e, F) /\ mem'[q].saved = Stale(mem[q].saved, F)
    BY <2>1 DEF StaleMem, Blank
  <2> QED BY <2>1, <2>2, StaleAligned
<1> QED BY <1>1 DEF AlignedSessions

LEMMA DoneWritingAligned ==
    ASSUME WorkTreeInv, AlignedInv, NEW q \in Proc, NEW F, DoneWriting(q, F)
    PROVE  AlignedSessions'
<1>1. DOMAIN pc = Proc
  BY DEF WorkTreeInv
<1>2. /\ pc'[q] = "idle" /\ mem'[q] = Blank
      /\ \A r \in Proc \ {q} : pc'[r] = pc[r] /\ mem'[r] = Staled(mem[r], F)
  BY <1>1 DEF DoneWriting, StaleMem, Staled
<1>3. Aligned(Blank.e) /\ Aligned(Blank.saved)
  BY NothingAligned DEF Blank
<1> QED BY <1>2, <1>3, SessionsAligned

(* Files are written, and nothing else of the index changes.                 *)
LEMMA IndexStaleAligned ==
    ASSUME WorkTreeInv, AlignedInv, NEW F, index' = Stale(index, F)
    PROVE  AlignedFiles'
  BY StaleAligned DEF AlignedInv, WorkTreeInv, AlignedFiles

LEMMA SameAligned ==
    ASSUME AlignedInv, commits' = commits
    PROVE  AlignedHistory'
  BY DEF AlignedInv, AlignedHistory

LEMMA StageStartAligned ==
    ASSUME WorkTreeInv, AlignedInv, NEW q \in Proc, NEW way \in Staging, NEW f,
           NEW saved \in {Nothing, index}, StageStart(q, way, f, saved)
    PROVE  AlignedInv'
<1> DEFINE m == [Holding EXCEPT !.saved = saved, !.file = f, !.st = TRUE]
<1>1. /\ pc' = [pc EXCEPT ![q] = way] /\ mem' = [mem EXCEPT ![q] = m]
      /\ index' = index /\ commits' = commits
  BY DEF StageStart
<1>2. m.e = index /\ m.saved = saved
  BY DEF Holding, Blank
<1>3. Aligned(index) /\ Aligned(saved)
  BY NothingAligned DEF AlignedInv
<1> HIDE DEF m
<1>4. way # "popping" /\ way # "applying"
  BY DEF Staging
<1>5. AlignedSessions'
  BY <1>1, <1>2, <1>3, <1>4, StepAligned
<1> QED BY <1>1, <1>3, <1>5, SameAligned, AlignedInPartsLater DEF AlignedFiles

LEMMA StageHashAligned ==
    ASSUME WorkTreeInv, AlignedInv, NEW q \in Proc, StageHash(q)
    PROVE  AlignedInv'
<1>1. index' = index /\ commits' = commits /\ pc[q] \in Staging
  BY DEF StageHash
<1>2. PICK f : f = mem[q].file
  OBVIOUS
<1>3. /\ DOMAIN mem = Proc /\ DOMAIN pc = Proc /\ DOMAIN mem[q] = DOMAIN Blank
      /\ Aligned(index) /\ Aligned(mem[q].e) /\ Aligned(mem[q].saved)
  BY DEF WorkTreeInv, Remembers, AlignedInv
<1>4. AlignedSessions'
  <2>1. CASE disk[f] = "none"
    BY <1>2, <2>1, DoneAligned DEF StageHash
  <2>2. CASE disk[f] # "none"
    <3>1. PICK x : x = NewEntry(mem[q].e, f, disk[f], mem[q].st)
      OBVIOUS
    <3>2. /\ pc' = [pc EXCEPT ![q] = AfterHash[@]]
          /\ mem' = [mem EXCEPT ![q].e = PutEntry(@, f, NewEntry(@, f, disk[f], mem[q].st)),
                                ![q].gone = @ \ {f}]
      BY <1>2, <2>2 DEF StageHash
    <3>3. /\ \A r \in Proc \ {q} : mem'[r] = mem[r]
          /\ mem'[q].e = PutEntry(mem[q].e, f, x) /\ mem'[q].saved = mem[q].saved
      BY <1>3, <3>1, <3>2 DEF Blank
    <3>4. /\ \A r \in Proc \ {q} : pc'[r] = pc[r]
          /\ pc'[q] \in {"hashed", "sdkHashed", "watchHashed", "scopedHashed"}
      BY <1>1, <1>3, <3>2 DEF AfterHash, Staging
    <3>5. Aligned(mem'[q].e)
      BY <1>3, <3>1, <3>3, NewEntryAligned, PutAligned
    <3> QED BY <1>3, <3>3, <3>4, <3>5, SessionsAligned
  <2> QED BY <2>1, <2>2
<1> QED BY <1>1, <1>3, <1>4, SameAligned, AlignedInPartsLater DEF AlignedFiles

LEMMA StagingAligned ==
    ASSUME WorkTreeInv, AlignedInv, NEW q \in Proc, StagingStep(q)
    PROVE  AlignedInv'
<1>1. ASSUME NEW f \in Path, AddStart(q, f) \/ SdkAddStart(q, f) \/ WatchStart(q, f) \/ ScopedStart(q, f)
      PROVE  AlignedInv'
  BY <1>1, StageStartAligned DEF AddStart, SdkAddStart, WatchStart, ScopedStart, Staging
<1>2. CASE AddMerge(q)
  <2>1. /\ index' = PutEntry(index, mem[q].file, mem[q].e[mem[q].file]) /\ Done(q)
        /\ commits' = commits /\ pc[q] = "hashed"
    BY <1>2 DEF AddMerge
  <2>2. mem[q].file \in DOMAIN mem[q].e
    BY <2>1 DEF WorkTreeInv, Remembers, AtFile, Staging
  <2>3. Aligned(index')
    BY <2>1, <2>2, PutAligned DEF AlignedInv, Aligned
  <2> QED BY <2>1, <2>3, DoneAligned, SameAligned, AlignedInPartsLater DEF AlignedFiles
<1>3. CASE SdkAddSave(q)
  <2>1. index' = mem[q].e /\ commits' = commits /\ Done(q)
    BY <1>3 DEF SdkAddSave, SaveCopy
  <2>2. Aligned(index')
    BY <2>1 DEF AlignedInv
  <2> QED BY <2>1, <2>2, DoneAligned, SameAligned, AlignedInPartsLater DEF AlignedFiles
<1>4. CASE WatchSave(q)
  <2>1. /\ index' = mem[q].e /\ commits' = commits /\ mem' = mem /\ pc' = [pc EXCEPT ![q] = "loaded"]
        /\ DOMAIN pc = Proc /\ Aligned(mem[q].e) /\ Aligned(mem[q].saved)
    BY <1>4 DEF WatchSave, SaveCopy, WorkTreeInv, AlignedInv
  <2>2. pc'[q] = "loaded" /\ \A r \in Proc \ {q} : pc'[r] = pc[r] /\ mem'[r] = mem[r]
    BY <2>1
  <2>3. AlignedSessions'
    BY <2>1, <2>2, SessionsAligned
  <2> QED BY <2>1, <2>3, SameAligned, AlignedInPartsLater DEF AlignedFiles
<1> QED BY <1>1, <1>2, <1>3, <1>4, StageHashAligned DEF StagingStep

LEMMA CommitIndexAligned ==
    ASSUME WorkTreeInv, AlignedInv, NEW e, Trusty(disk, cas, e), Aligned(e), CommitIndex(e)
    PROVE  AlignedFiles' /\ AlignedHistory'
<1>1. commits' = Append(commits, TreeOf(e)) /\ index' = ClearStaged(e)
  BY DEF CommitIndex
<1>2. commits \in Seq(FileTree) /\ Len(commits) \in Nat /\ \A i \in DOMAIN commits : Aligned(commits[i])
  BY DEF WorkTreeInv, AlignedInv
<1>3. Aligned(TreeOf(e)) /\ Aligned(ClearStaged(e)) /\ TreeOf(e) \in FileTree
  BY CommittedAligned, TreeOfStowed
<1>4. /\ DOMAIN commits' = 1 .. Len(commits) + 1 /\ DOMAIN commits = 1 .. Len(commits)
      /\ commits'[Len(commits) + 1] = TreeOf(e)
      /\ \A i \in DOMAIN commits : commits'[i] = commits[i]
  BY <1>1, <1>2, <1>3
<1>5. ASSUME NEW i \in DOMAIN commits' PROVE Aligned(commits'[i])
  <2>1. CASE i = Len(commits) + 1
    BY <1>3, <1>4, <2>1
  <2>2. CASE i \in DOMAIN commits
    BY <1>2, <1>4, <2>2
  <2> QED BY <1>2, <1>4, <2>1, <2>2
<1> QED BY <1>1, <1>3, <1>5 DEF AlignedFiles, AlignedHistory

LEMMA ScopedAligned ==
    ASSUME NEW q, Aligned(mem[q].e), mem[q].file \in DOMAIN mem[q].e
    PROVE  Aligned(Scoped(q))
<1> DEFINE f == mem[q].file
           touched == \/ f \notin DOMAIN mem[q].saved
                      \/ mem[q].e[f].h # mem[q].saved[f].h
                      \/ mem[q].e[f].staged /\ ~mem[q].saved[f].staged
<1>1. Scoped(q) = [g \in {h \in {f} : touched} |-> mem[q].e[g]]
  BY DEF Scoped
<1> HIDE DEF touched
<1>2. DOMAIN Scoped(q) \subseteq DOMAIN mem[q].e
      /\ \A g \in DOMAIN Scoped(q) : Scoped(q)[g] = mem[q].e[g]
  BY <1>1
<1> QED BY <1>2 DEF Aligned

LEMMA ScopedCommitAligned ==
    ASSUME WorkTreeInv, AlignedInv, NEW q \in Proc, ScopedCommit(q)
    PROVE  AlignedInv'
<1>1. /\ pc[q] = "scopedHashed" /\ pc' = [pc EXCEPT ![q] = "scopedSaved"]
      /\ \/ /\ CommitIndex(Scoped(q))
            /\ mem' = [mem EXCEPT ![q].e = ClearStaged(Scoped(q)), ![q].gone = {}]
         \/ /\ commits' = commits /\ index' = index
            /\ mem' = [mem EXCEPT ![q].e = Scoped(q)]
  BY DEF ScopedCommit
<1>2. /\ DOMAIN pc = Proc /\ DOMAIN mem = Proc /\ DOMAIN mem[q] = DOMAIN Blank
      /\ Trusty(disk, cas, mem[q].e) /\ mem[q].file \in DOMAIN mem[q].e
      /\ Aligned(mem[q].e) /\ Aligned(mem[q].saved)
  BY <1>1 DEF WorkTreeInv, Remembers, AtFile, Staging, AlignedInv
<1>3. Trusty(disk, cas, Scoped(q)) /\ Aligned(Scoped(q))
  BY <1>2, ScopedTrusty, ScopedAligned
<1>4. Aligned(ClearStaged(Scoped(q)))
  BY <1>3, CommittedAligned
<1>5. AlignedFiles' /\ AlignedHistory'
  <2>1. CASE CommitIndex(Scoped(q))
    BY <1>3, <2>1, CommitIndexAligned
  <2>2. CASE commits' = commits /\ index' = index
    BY <2>2, SameAligned DEF AlignedInv, AlignedFiles
  <2> QED BY <1>1, <2>1, <2>2
<1>6. /\ \A r \in Proc \ {q} : mem'[r] = mem[r]
      /\ mem'[q].e \in {Scoped(q), ClearStaged(Scoped(q))} /\ mem'[q].saved = mem[q].saved
  <2>1. CASE mem' = [mem EXCEPT ![q].e = ClearStaged(Scoped(q)), ![q].gone = {}]
    BY <1>2, <2>1 DEF Blank
  <2>2. CASE mem' = [mem EXCEPT ![q].e = Scoped(q)]
    BY <1>2, <2>2 DEF Blank
  <2> QED BY <1>1, <2>1, <2>2
<1>7. pc'[q] = "scopedSaved" /\ \A r \in Proc \ {q} : pc'[r] = pc[r]
  BY <1>1, <1>2
<1>8. AlignedSessions'
  BY <1>2, <1>3, <1>4, <1>6, <1>7, SessionsAligned
<1> QED BY <1>5, <1>8, AlignedInPartsLater

LEMMA CommitAligned ==
    ASSUME WorkTreeInv, AlignedInv, NEW q \in Proc, CommitStep(q)
    PROVE  AlignedInv'
<1>1. /\ Trusty(disk, cas, index) /\ Trusty(disk, cas, mem[q].e)
      /\ Aligned(index) /\ Aligned(mem[q].e) /\ Aligned(mem[q].saved)
  BY DEF WorkTreeInv, Remembers, AlignedInv
<1>2. CASE CommitNow(q)
  BY <1>1, <1>2, CommitIndexAligned, IdleAligned, AlignedInPartsLater DEF CommitNow
<1>3. CASE SdkCommitLoad(q)
  <2>1. Aligned(Holding.e) /\ Aligned(Holding.saved)
    BY <1>1, NothingAligned DEF Holding, Blank
  <2>2. /\ pc' = [pc EXCEPT ![q] = "loaded"] /\ mem' = [mem EXCEPT ![q] = Holding]
        /\ index' = index /\ commits' = commits
    BY <1>3 DEF SdkCommitLoad
  <2>3. AlignedSessions'
    BY <2>1, <2>2, StepAligned
  <2> QED BY <1>1, <2>2, <2>3, SameAligned, AlignedInPartsLater DEF AlignedFiles
<1>4. CASE CommitCopy(q)
  <2>1. Done(q) /\ (CommitIndex(mem[q].e) \/ (commits' = commits /\ index' = index))
    BY <1>4 DEF CommitCopy
  <2>2. AlignedFiles' /\ AlignedHistory'
    BY <1>1, <2>1, CommitIndexAligned, SameAligned DEF AlignedFiles
  <2> QED BY <2>1, <2>2, DoneAligned, AlignedInPartsLater
<1>5. CASE ScopedMergeBack(q)
  <2>1. index' = Over(mem[q].e, mem[q].saved) /\ commits' = commits /\ Done(q)
    BY <1>5 DEF ScopedMergeBack
  <2>2. Aligned(index')
    BY <1>1, <2>1, OverAligned
  <2> QED BY <2>1, <2>2, DoneAligned, SameAligned, AlignedInPartsLater DEF AlignedFiles
<1> QED BY <1>2, <1>3, <1>4, <1>5, ScopedCommitAligned DEF CommitStep

LEMMA IndexAligned ==
    ASSUME WorkTreeInv, AlignedInv, NeverBack, NEW q \in Proc, IndexStep(q)
    PROVE  AlignedInv'
<1>1. ASSUME NEW f \in Path, NEW cached \in BOOLEAN, Rm(q, f, cached)
      PROVE  AlignedInv'
  <2> DEFINE F == IF cached THEN {} ELSE {f}
  <2>1. /\ index' = Stale(Restrict(index, Tracked \ {f}), F) /\ mem' = StaleMem(F) /\ pc' = pc
        /\ commits' = commits
    BY <1>1 DEF Rm
  <2> HIDE DEF F
  <2>2. /\ Trusty(disk, cas, Restrict(index, Tracked \ {f}))
        /\ Aligned(Restrict(index, Tracked \ {f}))
    BY RestrictTrusty, RestrictAligned DEF Tracked, WorkTreeInv, AlignedInv
  <2>3. Aligned(index')
    BY <2>1, <2>2, StaleAligned
  <2> QED BY <2>1, <2>3, WritingAligned, SameAligned, AlignedInPartsLater DEF AlignedFiles
<1>2. ASSUME NEW F, Unstage(q, F)
      PROVE  AlignedInv'
  BY <1>2 DEF Unstage, Begin, NeverBack
<1>3. ASSUME NEW b \in Branch, CreateBranch(q, b)
      PROVE  AlignedInv'
  BY <1>3, IdleAligned, SameAligned, AlignedInPartsLater DEF CreateBranch, AlignedFiles, AlignedInv
<1> QED BY <1>1, <1>2, <1>3 DEF IndexStep

LEMMA CheckoutCheckAligned ==
    ASSUME WorkTreeInv, AlignedInv, NEW q \in Proc, CheckoutCheck(q)
    PROVE  AlignedInv'
<1>1. PICK tree : tree = commits[mem[q].target]
  OBVIOUS
<1> DEFINE F == DOMAIN tree \cup Tracked
           S == IF mem[q].force THEN {} ELSE Path
<1>2. pc[q] = "resolved" /\ commits' = commits /\ index' = index
  BY DEF CheckoutCheck
<1>3. /\ DOMAIN pc = Proc /\ DOMAIN mem = Proc /\ DOMAIN mem[q] = DOMAIN Blank /\ Aligned(index)
  BY DEF WorkTreeInv, Remembers, AlignedInv
<1>4. CASE Done(q)
  BY <1>2, <1>4, DoneAligned, SameAligned, AlignedInPartsLater DEF AlignedFiles, AlignedInv
<1>5. CASE /\ mem' = [mem EXCEPT ![q].saved = index, ![q].e = Nothing, ![q].todo = F, ![q].sure = S]
           /\ pc' = [pc EXCEPT ![q] = "checked"]
  <2> HIDE DEF F, S
  <2>1. mem'[q].e = Nothing /\ mem'[q].saved = index
    BY <1>3, <1>5 DEF Blank
  <2>2. pc'[q] = "checked" /\ \A r \in Proc \ {q} : pc'[r] = pc[r] /\ mem'[r] = mem[r]
    BY <1>3, <1>5
  <2>3. AlignedSessions'
    BY <1>3, <2>1, <2>2, NothingAligned, SessionsAligned
  <2> QED BY <1>2, <1>3, <2>3, SameAligned, AlignedInPartsLater DEF AlignedFiles
<1> QED BY <1>1, <1>4, <1>5 DEF CheckoutCheck

LEMMA CheckoutFileAligned ==
    ASSUME WorkTreeInv, AlignedInv, NEW q \in Proc, NEW f \in Path, CheckoutFile(q, f)
    PROVE  AlignedInv'
<1>1. PICK tree : tree = commits[mem[q].target]
  OBVIOUS
<1>2. pc[q] = "checked" /\ commits' = commits /\ index' = Stale(index, {f})
  BY DEF CheckoutFile
<1>3. Aligned(tree)
  BY <1>1, <1>2, TargetIsStowed DEF AlignedInv
<1>4. /\ DOMAIN pc = Proc /\ DOMAIN mem = Proc /\ DOMAIN mem[q] = DOMAIN Blank
      /\ Trusty(disk, cas, mem[q].saved) /\ Aligned(mem[q].saved)
      /\ Trusty(disk, cas, mem[q].e) /\ Aligned(mem[q].e)
  BY DEF WorkTreeInv, Remembers, AlignedInv
<1>5. CASE DoneWriting(q, {f})
  BY <1>2, <1>5, DoneWritingAligned, IndexStaleAligned, SameAligned, AlignedInPartsLater
<1>6. CASE /\ mem' = [StaleMem({f}) EXCEPT
                         ![q].todo = @ \ {f},
                         ![q].e = IF f \in DOMAIN tree
                                  THEN PutEntry(@, f, CleanEntry(tree[f])) ELSE @]
           /\ pc' = pc
  <2> DEFINE e == IF f \in DOMAIN tree THEN PutEntry(Stale(mem[q].e, {f}), f, CleanEntry(tree[f]))
                  ELSE Stale(mem[q].e, {f})
  <2>1. /\ \A r \in Proc \ {q} : mem'[r] = Staled(mem[r], {f})
        /\ mem'[q].e = e /\ mem'[q].saved = Stale(mem[q].saved, {f})
    BY <1>4, <1>6 DEF StaleMem, Staled, Blank
  <2>2. Aligned(Stale(mem[q].e, {f})) /\ Aligned(mem'[q].saved)
    BY <1>4, <2>1, StaleAligned
  <2>3. Aligned(e)
    BY <1>3, <2>2 DEF Aligned, PutEntry, CleanEntry
  <2> HIDE DEF e
  <2>4. pc'[q] = "checked" /\ \A r \in Proc \ {q} : pc'[r] = pc[r]
    BY <1>2, <1>6
  <2>5. AlignedSessions'
    BY <2>1, <2>2, <2>3, <2>4, SessionsAligned
  <2> QED BY <1>2, <2>5, IndexStaleAligned, SameAligned, AlignedInPartsLater
<1> QED BY <1>1, <1>5, <1>6 DEF CheckoutFile

LEMMA CheckoutAligned ==
    ASSUME WorkTreeInv, AlignedInv, NEW q \in Proc, CheckoutStep(q)
    PROVE  AlignedInv'
<1>1. ASSUME NEW n, NEW b, NEW force, CheckoutStart(q, n, b, force)
      PROVE  AlignedInv'
  <2> DEFINE m == [Blank EXCEPT !.target = n, !.name = b, !.force = force]
  <2>1. /\ pc' = [pc EXCEPT ![q] = "resolved"] /\ mem' = [mem EXCEPT ![q] = m]
        /\ index' = index /\ commits' = commits
    BY <1>1 DEF CheckoutStart
  <2>2. Aligned(m.e) /\ Aligned(m.saved)
    BY NothingAligned DEF Blank
  <2> HIDE DEF m
  <2>3. AlignedSessions'
    BY <2>1, <2>2, StepAligned
  <2> QED BY <2>1, <2>3, SameAligned, AlignedInPartsLater DEF AlignedFiles, AlignedInv
<1>2. CASE CheckoutStat(q)
  <2>1. /\ pc' = [pc EXCEPT ![q] = "statted"] /\ mem' = mem /\ commits' = commits
        /\ index' = [f \in DOMAIN mem[q].e |->
                        [mem[q].e[f] EXCEPT !.fresh = disk[f] # "none", !.blind = ~mem[q].e[f].fresh]]
    BY <1>2 DEF CheckoutStat
  <2>2. /\ Aligned(mem[q].e) /\ Aligned(mem[q].saved) /\ DOMAIN pc = Proc
        /\ \A f \in DOMAIN mem[q].e : mem[q].e[f] \in Entry
    BY DEF WorkTreeInv, Remembers, Trusty, AlignedInv
  <2>3. ASSUME NEW f \in DOMAIN mem[q].e
        PROVE  index'[f].parts = PartsOf(f, index'[f].h)
    <3>1. index'[f].h = mem[q].e[f].h /\ index'[f].parts = mem[q].e[f].parts
      BY <2>1, <2>2 DEF Entry
    <3> QED BY <2>2, <3>1 DEF Aligned
  <2>4. Aligned(index')
    BY <2>1, <2>3 DEF Aligned
  <2>5. pc'[q] = "statted" /\ \A r \in Proc \ {q} : pc'[r] = pc[r] /\ mem'[r] = mem[r]
    BY <2>1, <2>2
  <2>6. AlignedSessions'
    BY <2>1, <2>2, <2>5, SessionsAligned
  <2> QED BY <2>1, <2>4, <2>6, SameAligned, AlignedInPartsLater DEF AlignedFiles
<1>3. CASE CheckoutHead(q)
  BY <1>3, DoneAligned, SameAligned, AlignedInPartsLater DEF CheckoutHead, AlignedFiles, AlignedInv
<1>4. ASSUME NEW n, NEW f, Restore(q, n, f)
      PROVE  AlignedInv'
  BY <1>4, WritingAligned, IndexStaleAligned, SameAligned, AlignedInPartsLater DEF Restore
<1> QED BY <1>1, <1>2, <1>3, <1>4, CheckoutCheckAligned, CheckoutFileAligned DEF CheckoutStep

LEMMA StashRevertAligned ==
    ASSUME WorkTreeInv, AlignedInv, NEW q \in Proc, StashRevert(q)
    PROVE  AlignedInv'
<1>1. PICK F : F = mem[q].todo
  OBVIOUS
<1> DEFINE head0 == Restrict(HeadTree, F \cap DOMAIN HeadTree)
           rest == Restrict(Stale(mem[q].e, F), DOMAIN Stale(mem[q].e, F) \ F)
<1>2. PICK rec :
        /\ index' = Stale(index, F) /\ commits' = commits
        /\ mem' = [StaleMem(F) EXCEPT
                      ![q].e = Over(CleanIndex(head0), Restrict(@, DOMAIN @ \ F)), ![q].rec = rec]
        /\ pc' = [pc EXCEPT ![q] = "reverted"]
  BY <1>1 DEF StashRevert
<1>3. /\ DOMAIN pc = Proc /\ DOMAIN mem = Proc /\ DOMAIN mem[q] = DOMAIN Blank
      /\ Trusty(disk, cas, mem[q].e) /\ Trusty(disk, cas, mem[q].saved)
      /\ Aligned(mem[q].e) /\ Aligned(mem[q].saved)
  BY DEF WorkTreeInv, Remembers, AlignedInv
<1>4. Aligned(CleanIndex(head0))
  BY HeadAligned, RestrictAligned, CleanAligned
<1>5. Aligned(rest)
  BY <1>3, StaleAligned, RestrictAligned
<1> HIDE DEF head0
<1>6. /\ \A r \in Proc \ {q} : mem'[r] = Staled(mem[r], F)
      /\ mem'[q] = [Staled(mem[q], F) EXCEPT !.e = Over(CleanIndex(head0), Restrict(@, DOMAIN @ \ F)),
                                             !.rec = rec]
  BY <1>2, <1>3 DEF StaleMem, Staled
<1>7. /\ DOMAIN Staled(mem[q], F) = DOMAIN Blank /\ Staled(mem[q], F).e = Stale(mem[q].e, F)
      /\ Staled(mem[q], F).saved = Stale(mem[q].saved, F)
  BY <1>3 DEF Staled, Blank
<1>8. mem'[q].e = Over(CleanIndex(head0), rest) /\ mem'[q].saved = Stale(mem[q].saved, F)
  BY <1>6, <1>7 DEF Blank
<1> HIDE DEF rest
<1>9. Aligned(mem'[q].e) /\ Aligned(mem'[q].saved)
  BY <1>3, <1>4, <1>5, <1>8, OverAligned, StaleAligned
<1>10. pc'[q] = "reverted" /\ \A r \in Proc \ {q} : pc'[r] = pc[r]
  BY <1>2, <1>3
<1>11. AlignedSessions'
  BY <1>6, <1>9, <1>10, SessionsAligned
<1> QED BY <1>2, <1>11, IndexStaleAligned, SameAligned, AlignedInPartsLater

LEMMA StashAligned ==
    ASSUME WorkTreeInv, AlignedInv, NeverBack, NEW q \in Proc, StashStep(q)
    PROVE  AlignedInv'
<1>1. CASE StashStart(q)
  <2> DEFINE m == [Holding EXCEPT !.todo = StagedFiles(index) \cup ModifiedFiles(index)]
  <2>1. /\ pc' = [pc EXCEPT ![q] = "stashing"] /\ mem' = [mem EXCEPT ![q] = m]
        /\ index' = index /\ commits' = commits
    BY <1>1 DEF StashStart
  <2>2. Aligned(index)
    BY DEF AlignedInv
  <2>3. Aligned(m.e) /\ Aligned(m.saved)
    BY <2>2, NothingAligned DEF Holding, Blank
  <2> HIDE DEF m
  <2>4. AlignedSessions'
    BY <2>1, <2>3, StepAligned
  <2> QED BY <2>1, <2>2, <2>4, SameAligned, AlignedInPartsLater DEF AlignedFiles
<1>2. CASE StashFails(q)
  <2>1. PICK W : index' = Stale(index, W) /\ DoneWriting(q, W)
    BY <1>2 DEF StashFails
  <2>2. commits' = commits
    BY <1>2 DEF StashFails
  <2> QED BY <2>1, <2>2, DoneWritingAligned, IndexStaleAligned, SameAligned, AlignedInPartsLater
<1>3. CASE StashRecord(q)
  <2>1. index' = mem[q].e /\ commits' = commits /\ Done(q) /\ Aligned(mem[q].e)
    BY <1>3 DEF StashRecord, AlignedInv
  <2> QED BY <2>1, DoneAligned, SameAligned, AlignedInPartsLater DEF AlignedFiles
<1>4. ASSUME NEW k, NEW drop, PopStart(q, k, drop)
      PROVE  AlignedInv'
  BY <1>4 DEF PopStart, Begin, NeverBack
<1>5. CASE PopFinish(q)
  BY <1>5 DEF PopFinish, AlignedInv
<1>6. ASSUME NEW k, StashDrop(q, k)
      PROVE  AlignedInv'
  BY <1>6 DEF StashDrop, Begin, NeverBack
<1> QED BY <1>1, <1>2, <1>3, <1>4, <1>5, <1>6, StashRevertAligned DEF StashStep

LEMMA AlignedStarts == WtInit => AlignedInv
<1> SUFFICES ASSUME WtInit PROVE AlignedInv
  OBVIOUS
<1>1. PICK c \in Content :
        /\ index = CleanIndex([f \in Path |-> [h |-> c, parts |-> PartsOf(f, c)]])
        /\ commits = <<TreeOf(index)>>
  BY DEF WtInit
<1>2. pc = [q \in Proc |-> "idle"] /\ mem = [q \in Proc |-> Blank]
  BY DEF WtInit
<1>3. Aligned([f \in Path |-> [h |-> c, parts |-> PartsOf(f, c)]])
  BY DEF Aligned
<1>4. Aligned(index)
  BY <1>1, <1>3, CleanAligned
<1>5. Aligned(TreeOf(index))
  BY <1>4, WorkTreeStarts, CommittedAligned DEF WorkTreeInv
<1>6. \A i \in DOMAIN commits : commits[i] = TreeOf(index)
  BY <1>1
<1>7. Blank.e = Nothing /\ Blank.saved = Nothing
  BY DEF Blank
<1> QED BY <1>2, <1>4, <1>5, <1>6, <1>7, NothingAligned DEF AlignedInv

LEMMA AlignedSteps == NeverBack /\ WorkTreeInv /\ AlignedInv /\ [WtNext]_wtVars => AlignedInv'
<1> SUFFICES ASSUME NeverBack, WorkTreeInv, AlignedInv, [WtNext]_wtVars PROVE AlignedInv'
  OBVIOUS
<1>1. CASE UNCHANGED wtVars
  BY <1>1, IdleAligned, SameAligned, AlignedInPartsLater DEF wtVars, AlignedFiles, AlignedInv
<1>2. ASSUME NEW f, NEW c, Edit(f, c) PROVE AlignedInv'
  BY <1>2, WritingAligned, IndexStaleAligned, SameAligned, AlignedInPartsLater DEF Edit
<1>3. ASSUME NEW q \in Proc, Killed(q) PROVE AlignedInv'
  BY <1>3, DoneAligned, SameAligned, AlignedInPartsLater DEF Killed, AlignedFiles, AlignedInv
<1> QED BY <1>1, <1>2, <1>3, StagingAligned, CommitAligned, IndexAligned, CheckoutAligned,
       StashAligned DEF WtNext

LEMMA AlignedAlways == NeverBack /\ WtSpec => []AlignedInv
<1> SUFFICES ASSUME NeverBack PROVE WtSpec => []AlignedInv
  OBVIOUS
<1> QED BY AlignedStarts, AlignedSteps, WorkTreeAlways, PTL DEF WtSpec

(* A stored file whose parts are those of its content, or that has none.     *)
LEMMA StowedIntact ==
    ASSUME NEW f, NEW x, Stowed(cas, f, x), x.h \in Content,
           f \notin Split \/ x.parts = PartsOf(f, x.h)
    PROVE  Intact(x)
<1>1. x.h # "none"
  BY WorkTreeAssumption
<1> QED BY <1>1 DEF Stowed, Stored, PartsOf, Intact, Here

LEMMA CommittedFiles ==
    ASSUME WorkTreeInv, NEW i \in DOMAIN commits, NEW f \in DOMAIN commits[i]
    PROVE  Stowed(cas, f, commits[i][f]) /\ commits[i][f].h \in Content
<1>1. commits[i] \in FileTree /\ Recorded(cas, commits[i])
  BY DEF WorkTreeInv
<1> QED BY <1>1, TreeEntries DEF Recorded, TreeEntry

(* Every commit can be restored as it was, whatever any number of processes  *)
(* add, commit, switch, shelve and kill, as long as no file is split into    *)
(* chunks or nothing is unstaged and no stash is popped. What unstage (and a *)
(* pop) writes for a chunked file (cmd_staging.py:346) is the one way in     *)
(* which a commit loses it.                                                  *)
THEOREM CommitsStayRestorable == (Split = {} \/ NeverBack) /\ WtSpec => []CommitsRestorable
<1>1. Split = {} /\ WorkTreeInv => CommitsRestorable
  BY CommittedFiles, StowedIntact DEF CommitsRestorable
<1>2. WorkTreeInv /\ AlignedInv => CommitsRestorable
  BY CommittedFiles, StowedIntact DEF AlignedInv, Aligned, CommitsRestorable
<1>3. ASSUME Split = {} PROVE WtSpec => []CommitsRestorable
  BY <1>1, <1>3, WorkTreeAlways, PTL
<1>4. ASSUME NeverBack PROVE WtSpec => []CommitsRestorable
  BY <1>2, <1>4, AlignedAlways, WorkTreeAlways, PTL
<1> QED BY <1>3, <1>4
-----------------------------------------------------------------------------
(* Clone, export and restore.                                               *)

(* A listing numbers its rows, and each once.                                *)
LEMMA ListingNumbers ==
    ASSUME NEW rows, IsFiniteSet(DOMAIN rows), NEW all \in Listings(rows)
    PROVE  /\ all \in Seq(DOMAIN rows) /\ DOMAIN all = 1 .. Len(all)
           /\ \A c \in DOMAIN rows : \E i \in 1 .. Len(all) : all[i] = c
           /\ \A i, j \in 1 .. Len(all) : i < j => all[i] # all[j] /\ rows[all[i]].at >= rows[all[j]].at
<1>1. Cardinality(DOMAIN rows) \in Nat
  BY FS_CardinalityType
<1>2. all \in [1 .. Cardinality(DOMAIN rows) -> DOMAIN rows]
  BY DEF Listings
<1>3. all \in Seq(DOMAIN rows) /\ Len(all) = Cardinality(DOMAIN rows)
  BY <1>1, <1>2
<1>4. DOMAIN all = 1 .. Len(all)
  BY <1>2, <1>3
<1> QED BY <1>3, <1>4 DEF Listings

(* Without ties the place of a row is the number of rows up to it.           *)
LEMMA PlaceIsCount ==
    ASSUME NEW rows, IsFiniteSet(DOMAIN rows),
           \A c \in DOMAIN rows : rows[c].at \in Int,
           \A c, d \in DOMAIN rows : rows[c].at = rows[d].at => c = d,
           NEW all \in Listings(rows), NEW i \in 1 .. Len(all)
    PROVE  Cardinality(UpTo(rows, all[i])) = i
<1>1. /\ all \in Seq(DOMAIN rows)
      /\ \A c \in DOMAIN rows : \E x \in 1 .. Len(all) : all[x] = c
      /\ \A x, y \in 1 .. Len(all) : x < y => all[x] # all[y] /\ rows[all[x]].at >= rows[all[y]].at
  BY ListingNumbers
<1>2. i \in Nat /\ Len(all) \in Nat
  BY <1>1
<1> DEFINE f == [k \in 1 .. i |-> all[k]]
<1>3. ASSUME NEW k \in 1 .. i
      PROVE  f[k] = all[k] /\ all[k] \in UpTo(rows, all[i]) /\ k \in 1 .. Len(all)
  <2>1. k \in 1 .. Len(all) /\ all[k] \in DOMAIN rows /\ all[i] \in DOMAIN rows /\ f[k] = all[k]
    BY <1>1, <1>2
  <2>2. CASE k = i
    BY <2>1, <2>2 DEF UpTo
  <2>3. CASE k < i
    BY <1>1, <2>1, <2>3 DEF UpTo
  <2> QED BY <1>2, <2>1, <2>2, <2>3
<1>4. ASSUME NEW c \in UpTo(rows, all[i])
      PROVE  \E k \in 1 .. i : f[k] = c
  <2>1. c \in DOMAIN rows /\ rows[c].at >= rows[all[i]].at /\ all[i] \in DOMAIN rows
    BY <1>1 DEF UpTo
  <2>2. PICK k \in 1 .. Len(all) : all[k] = c
    BY <1>1, <2>1
  <2>3. CASE i < k
    <3>1. rows[all[i]].at >= rows[c].at /\ all[i] # c
      BY <1>1, <2>2, <2>3
    <3>2. rows[c].at = rows[all[i]].at
      BY <2>1, <3>1
    <3> QED BY <2>1, <3>1, <3>2
  <2>4. CASE k <= i
    BY <1>2, <2>2, <2>4
  <2> QED BY <1>2, <2>3, <2>4
<1>5. f \in [1 .. i -> UpTo(rows, all[i])]
  BY <1>3
<1>6. ASSUME NEW x \in 1 .. i, NEW y \in 1 .. i, f[x] = f[y]
      PROVE  x = y
  <2>1. all[x] = all[y] /\ x \in 1 .. Len(all) /\ y \in 1 .. Len(all)
    BY <1>3, <1>6
  <2> QED BY <1>1, <2>1
<1> HIDE DEF f
<1>7. f \in Bijection(1 .. i, UpTo(rows, all[i]))
  <2>1. f \in Injection(1 .. i, UpTo(rows, all[i]))
    BY <1>5, <1>6 DEF Injection, IsInjective
  <2>2. f \in Surjection(1 .. i, UpTo(rows, all[i]))
    BY <1>4, <1>5 DEF Surjection
  <2> QED BY <2>1, <2>2 DEF Bijection
<1>8. IsFiniteSet(1 .. i) /\ Cardinality(1 .. i) = i
  BY <1>2, FS_Interval
<1>9. ExistsBijection(1 .. i, UpTo(rows, all[i]))
  BY <1>7 DEF ExistsBijection
<1> QED BY <1>8, <1>9, FS_Bijection

(* What is behind the offset is on the page, or behind the page, which is    *)
(* then full.                                                                *)
LEMMA OnPageOrBehind ==
    ASSUME NEW D, NEW all \in Seq(D), NEW offset \in Nat, NEW i \in 1 .. Len(all), offset < i
    PROVE  /\ Page(all, offset) \in Seq(D)
           /\ \/ all[i] \in ToSet(Page(all, offset))
              \/ offset + Limit < i /\ Len(Page(all, offset)) = Limit
<1>1. Limit \in Nat \ {0} /\ Len(all) \in Nat /\ i <= Len(all)
  BY TransferAssumption
<1> DEFINE page == Page(all, offset)
<1>2. ASSUME NEW n \in Nat, page = SubSeq(all, offset + 1, offset + n), i <= offset + n,
             offset + n <= Len(all)
      PROVE  page \in Seq(D) /\ Len(page) = n /\ all[i] \in ToSet(page)
  <2>1. /\ page \in Seq(D) /\ Len(page) = n /\ DOMAIN page = 1 .. n
        /\ \A k \in 1 .. n : page[k] = all[offset + k]
    BY <1>1, <1>2
  <2>2. i - offset \in 1 .. n /\ offset + (i - offset) = i
    BY <1>1, <1>2
  <2> HIDE DEF page
  <2>3. PICK k \in 1 .. n : k = i - offset
    BY <2>2
  <2>4. page[k] = all[i]
    BY <2>1, <2>2, <2>3
  <2> QED BY <2>1, <2>4 DEF ToSet
<1>3. ASSUME offset + Limit < Len(all)
      PROVE  page \in Seq(D) /\ Len(page) = Limit
  <2>1. page = SubSeq(all, offset + 1, offset + Limit)
    BY <1>3 DEF Page
  <2> QED BY <1>1, <1>3, <2>1
<1>4. offset + Limit < Len(all) => page = SubSeq(all, offset + 1, offset + Limit)
  BY DEF Page
<1>5. CASE offset + Limit < Len(all) /\ i <= offset + Limit
  <2>1. PICK n \in Nat : n = Limit
    BY <1>1
  <2>2. page = SubSeq(all, offset + 1, offset + n) /\ i <= offset + n /\ offset + n <= Len(all)
    BY <1>1, <1>4, <1>5, <2>1
  <2> HIDE DEF page
  <2>3. page \in Seq(D) /\ all[i] \in ToSet(page)
    BY <1>2, <2>2
  <2> QED BY <2>3 DEF page
<1>6. CASE ~(offset + Limit < Len(all))
  <2>1. PICK n \in Nat : n = Len(all) - offset
    BY <1>1
  <2>2. offset + n = Len(all)
    BY <1>1, <2>1
  <2>3. page = SubSeq(all, offset + 1, offset + n)
    BY <1>6, <2>2 DEF Page
  <2>4. i <= offset + n /\ offset + n <= Len(all)
    BY <1>1, <2>2
  <2> HIDE DEF page
  <2>5. page \in Seq(D) /\ all[i] \in ToSet(page)
    BY <1>2, <2>3, <2>4
  <2> QED BY <2>5 DEF page
<1>7. CASE offset + Limit < Len(all) /\ ~(i <= offset + Limit)
  <2>1. offset + Limit < i
    BY <1>1, <1>7
  <2> QED BY <1>3, <1>7, <2>1
<1> QED BY <1>5, <1>6, <1>7
LEMMA PageOfRows ==
    ASSUME NEW D, NEW all \in Seq(D), NEW offset \in Nat
    PROVE  Page(all, offset) \in Seq(D)
<1>1. Limit \in Nat /\ Len(all) \in Nat
  BY TransferAssumption
<1> QED BY <1>1 DEF Page

LEMMA ListedTogether ==
    ASSUME NEW a \in Seq(ListedCommit), NEW b \in Seq(ListedCommit)
    PROVE  a \o b \in Seq(ListedCommit) /\ Listed(a \o b) = Listed(a) \cup Listed(b)
<1>1. /\ a \o b \in Seq(ListedCommit) /\ Len(a \o b) = Len(a) + Len(b)
      /\ \A i \in 1 .. Len(a) : (a \o b)[i] = a[i]
      /\ \A i \in 1 .. Len(b) : (a \o b)[Len(a) + i] = b[i]
  OBVIOUS
<1>2. Len(a) \in Nat /\ Len(b) \in Nat
  OBVIOUS
<1>3. ASSUME NEW i \in 1 .. Len(a \o b)
      PROVE  (a \o b)[i] \in ToSet(a) \cup ToSet(b)
  <2>1. CASE i <= Len(a)
    BY <1>1, <1>2, <2>1 DEF ToSet
  <2>2. CASE Len(a) < i
    <3>1. PICK k \in 1 .. Len(b) : i = Len(a) + k
      <4>1. i - Len(a) \in 1 .. Len(b) /\ i = Len(a) + (i - Len(a))
        BY <1>1, <1>2, <2>2
      <4> QED BY <4>1
    <3> QED BY <1>1, <3>1 DEF ToSet
  <2> QED BY <1>1, <1>2, <2>1, <2>2
<1>4. ASSUME NEW i \in 1 .. Len(a)
      PROVE  a[i] \in ToSet(a \o b)
  <2>1. i \in 1 .. Len(a \o b) /\ (a \o b)[i] = a[i]
    BY <1>1, <1>2
  <2> QED BY <1>1, <2>1 DEF ToSet
<1>5. ASSUME NEW i \in 1 .. Len(b)
      PROVE  b[i] \in ToSet(a \o b)
  <2>1. PICK k \in 1 .. Len(a \o b) : k = Len(a) + i
    BY <1>1, <1>2
  <2>2. (a \o b)[k] = b[i]
    BY <1>1, <2>1
  <2> QED BY <1>1, <2>2 DEF ToSet
<1>6. ToSet(a \o b) = ToSet(a) \cup ToSet(b)
  <2>1. \A s \in Seq(ListedCommit) : ToSet(s) = {s[i] : i \in 1 .. Len(s)}
    BY DEF ToSet
  <2>2. /\ ToSet(a) = {a[i] : i \in 1 .. Len(a)} /\ ToSet(b) = {b[i] : i \in 1 .. Len(b)}
        /\ ToSet(a \o b) = {(a \o b)[i] : i \in 1 .. Len(a \o b)}
    BY <1>1, <2>1
  <2>3. ToSet(a \o b) \subseteq ToSet(a) \cup ToSet(b)
    BY <1>3, <2>2
  <2>4. ToSet(a) \subseteq ToSet(a \o b) /\ ToSet(b) \subseteq ToSet(a \o b)
    BY <1>4, <1>5, <2>2
  <2> QED BY <2>3, <2>4
<1> QED BY <1>1, <1>6 DEF Listed

LEMMA OldStays ==
    ASSUME OldRowsStay, DOMAIN registry' = DOMAIN registry, registry'["old"] = registry["old"]
    PROVE  OldRowsStay'
  BY DEF OldRowsStay, RowOf

(* A command other than export, or none.                                     *)
LEMMA OtherCommand ==
    ASSUME ArchiveInv, DOMAIN registry' = DOMAIN registry, registry'["old"] = registry["old"],
           "cmd" \in DOMAIN running', running'.cmd # "export", archive' = archive
    PROVE  ArchiveInv'
<1>1. OldRowsStay'
  BY OldStays DEF ArchiveInv
<1>2. CommandShape' /\ ListingComplete' /\ ArchiveIsClosed'
  BY DEF ArchiveInv, CommandShape, ListingComplete, ArchiveIsClosed
<1> QED BY <1>1, <1>2 DEF ArchiveInv

(* The registry's rows are added to, while a listing may be under way.       *)
LEMMA RowsMoreKeep ==
    ASSUME ArchiveInv, OldRowsStay', running' = running, archive' = archive,
           DOMAIN registry["old"].rows \subseteq DOMAIN registry'["old"].rows
    PROVE  ArchiveInv'
<1>1. CommandShape' /\ ArchiveIsClosed'
  BY DEF ArchiveInv, CommandShape, ArchiveIsClosed
<1> DEFINE rows == registry["old"].rows
           more == registry'["old"].rows
<1>2. /\ IsFiniteSet(DOMAIN more) /\ DOMAIN rows \subseteq DOMAIN more
      /\ \A c \in DOMAIN rows : more[c] = rows[c]
  <2>1. \A c \in DOMAIN more : more[c] = RowOf(c)
    BY DEF OldRowsStay, RowOf
  <2> QED BY <2>1 DEF ArchiveInv, OldRowsStay
<1>3. ASSUME NEW c \in DOMAIN rows, NEW offset \in Nat, StillAhead(c, offset)
      PROVE  c \in DOMAIN more /\ StillAhead(c, offset)'
  <2>1. Cardinality(UpTo(rows, c)) > offset
    BY <1>3 DEF StillAhead
  <2>2. UpTo(rows, c) \subseteq UpTo(more, c) /\ UpTo(more, c) \subseteq DOMAIN more
    BY <1>2 DEF UpTo
  <2>3. IsFiniteSet(UpTo(more, c))
    BY <1>2, <2>2, FS_Subset
  <2>4. /\ Cardinality(UpTo(rows, c)) <= Cardinality(UpTo(more, c))
        /\ Cardinality(UpTo(rows, c)) \in Nat /\ Cardinality(UpTo(more, c)) \in Nat
    BY <2>2, <2>3, FS_Subset, FS_CardinalityType
  <2>5. Cardinality(UpTo(more, c)) > offset
    BY <2>1, <2>4
  <2> QED BY <1>2, <2>5 DEF StillAhead, UpTo
<1>4. ListingComplete'
  <2> SUFFICES ASSUME running.cmd = "export" /\ running.step # "objects",
                      NEW c \in running.before \ Listed(running.commits)
               PROVE  running.step = "commits" /\ c \in DOMAIN more /\ StillAhead(c, running.offset)'
    BY DEF ListingComplete, ArchiveInv
  <2>1. running.step = "commits" /\ c \in DOMAIN rows /\ StillAhead(c, running.offset)
    BY DEF ListingComplete, ArchiveInv
  <2>2. running.offset \in Nat
    BY <2>1 DEF CommandShape, ArchiveInv, Listing
  <2> QED BY <1>3, <2>1, <2>2
<1> QED BY <1>1, <1>4 DEF ArchiveInv

LEMMA OldRowsGrow ==
    ASSUME OldRowsStay, NEW c \in Version, LandCommit(c)
    PROVE  /\ OldRowsStay' /\ DOMAIN registry' = DOMAIN registry
           /\ DOMAIN registry'["old"].rows = DOMAIN registry["old"].rows \cup {c}
<1> DEFINE rows == registry["old"].rows
           more == registry'["old"].rows
<1>1. /\ DOMAIN registry = {"old", "new"} /\ {"rows", "objects", "ref"} \subseteq DOMAIN registry["old"]
      /\ DOMAIN rows \subseteq Version /\ IsFiniteSet(DOMAIN rows)
      /\ \A d \in DOMAIN rows : rows[d] = RowOf(d)
  BY DEF OldRowsStay
<1>2. /\ DOMAIN registry' = DOMAIN registry /\ DOMAIN registry'["old"] = DOMAIN registry["old"]
      /\ more = WithRows([d \in {c} |-> RowOf(d)], rows)
  BY <1>1 DEF LandCommit
<1>3. /\ DOMAIN more = DOMAIN rows \cup {c}
      /\ \A d \in DOMAIN more : more[d] = RowOf(d)
  BY <1>1, <1>2 DEF WithRows
<1>4. IsFiniteSet(DOMAIN more)
  BY <1>1, <1>3, FS_AddElement
<1>5. OldRowsStay'
  BY <1>1, <1>2, <1>3, <1>4 DEF OldRowsStay, RowOf
<1> QED BY <1>2, <1>3, <1>5

LEMMA LandCommitKeeps ==
    ASSUME ArchiveInv, NEW c \in Version, LandCommit(c)
    PROVE  ArchiveInv'
  BY OldRowsGrow, RowsMoreKeep DEF LandCommit, ArchiveInv

LEMMA AdvanceRefKeeps ==
    ASSUME ArchiveInv, NEW c \in Version, AdvanceRef(c)
    PROVE  ArchiveInv'
<1>1. DOMAIN registry' = DOMAIN registry /\ registry'["old"].rows = registry["old"].rows
      /\ DOMAIN registry'["old"] = DOMAIN registry["old"]
  BY DEF AdvanceRef, ArchiveInv, OldRowsStay
<1>2. OldRowsStay'
  BY <1>1 DEF ArchiveInv, OldRowsStay, RowOf
<1> QED BY <1>1, <1>2, RowsMoreKeep DEF AdvanceRef

LEMMA LoseNewKeeps ==
    ASSUME ArchiveInv, LoseNew
    PROVE  ArchiveInv'
<1>1. DOMAIN registry' = DOMAIN registry /\ registry'["old"] = registry["old"]
  BY DEF LoseNew, ArchiveInv, OldRowsStay
<1> QED BY <1>1, OtherCommand DEF LoseNew, NoTransfer

LEMMA ArchiveCloneKeeps ==
    ASSUME ArchiveInv, \/ \E r \in {"old", "new"} : CloneStart(r)
                       \/ ClonePage \/ ClonePageFails \/ CloneFinish \/ Interrupt
    PROVE  ArchiveInv'
<1>1. registry' = registry /\ archive' = archive
  BY DEF CloneStart, ClonePage, ClonePageFails, CloneFinish, Interrupt
<1>2. "cmd" \in DOMAIN running' /\ running'.cmd # "export"
  <2>1. ASSUME NEW r, CloneStart(r) PROVE "cmd" \in DOMAIN running' /\ running'.cmd # "export"
    BY <2>1 DEF CloneStart
  <2>2. CASE ClonePage \/ ClonePageFails
    BY <2>2 DEF ClonePage, ClonePageFails, ArchiveInv, CommandShape
  <2>3. CASE CloneFinish \/ Interrupt
    BY <2>3 DEF CloneFinish, Interrupt, NoTransfer
  <2> QED BY <2>1, <2>2, <2>3
<1> QED BY <1>1, <1>2, OtherCommand

LEMMA ArchiveRestoreKeeps ==
    ASSUME ArchiveInv, \/ \E again \in BOOLEAN : RestoreStart(again)
                       \/ RestoreObject \/ RestoreCommit \/ RestoreRef \/ RestoreEnd
    PROVE  ArchiveInv'
<1>1. DOMAIN registry = {"old", "new"} /\ "cmd" \in DOMAIN running
  BY DEF ArchiveInv, OldRowsStay, CommandShape
<1>2. CASE \E again \in BOOLEAN : RestoreStart(again)
  BY <1>2, OtherCommand DEF RestoreStart
<1>3. CASE RestoreObject
  <2>1. DOMAIN registry' = DOMAIN registry /\ registry'["old"] = registry["old"]
        /\ "cmd" \in DOMAIN running' /\ running'.cmd # "export" /\ archive' = archive
    BY <1>1, <1>3 DEF RestoreObject
  <2> QED BY <2>1, OtherCommand
<1>4. CASE RestoreCommit
  <2>1. DOMAIN registry' = DOMAIN registry /\ registry'["old"] = registry["old"]
        /\ "cmd" \in DOMAIN running' /\ running'.cmd # "export" /\ archive' = archive
    BY <1>1, <1>4 DEF RestoreCommit
  <2> QED BY <2>1, OtherCommand
<1>5. CASE RestoreRef
  <2>1. DOMAIN registry' = DOMAIN registry /\ registry'["old"] = registry["old"]
        /\ "cmd" \in DOMAIN running' /\ running'.cmd # "export" /\ archive' = archive
    BY <1>1, <1>5 DEF RestoreRef
  <2> QED BY <2>1, OtherCommand
<1>6. CASE RestoreEnd
  BY <1>6, OtherCommand DEF RestoreEnd, NoTransfer
<1> QED BY <1>2, <1>3, <1>4, <1>5, <1>6

LEMMA ExportStartKeeps ==
    ASSUME ArchiveInv, ExportStart
    PROVE  ArchiveInv'
<1> DEFINE rows == registry["old"].rows
<1>1. /\ registry' = registry /\ archive' = archive
      /\ running' = [cmd |-> "export", step |-> "commits", offset |-> 0, commits |-> <<>>, before |-> DOMAIN rows]
  BY DEF ExportStart
<1>2. OldRowsStay'
  BY <1>1, OldStays DEF ArchiveInv
<1>3. IsFiniteSet(DOMAIN rows) /\ DOMAIN rows \subseteq Version
      /\ \A c \in DOMAIN rows : rows[c].at \in Int
  BY TransferAssumption DEF ArchiveInv, OldRowsStay, RowOf
<1>4. <<>> \in Seq(ListedCommit)
  OBVIOUS
<1>5. running' \in Listing
  BY <1>1, <1>3, <1>4 DEF Listing
<1>6. CommandShape' /\ ArchiveIsClosed'
  BY <1>1, <1>5 DEF CommandShape, ArchiveIsClosed, ArchiveInv
<1>7. ASSUME NEW c \in DOMAIN rows
      PROVE  StillAhead(c, 0)
  <2>1. c \in UpTo(rows, c) /\ UpTo(rows, c) \subseteq DOMAIN rows
    BY <1>3 DEF UpTo
  <2>2. IsFiniteSet(UpTo(rows, c)) /\ Cardinality(UpTo(rows, c)) \in Nat
    BY <1>3, <2>1, FS_Subset, FS_CardinalityType
  <2>3. Cardinality(UpTo(rows, c)) # 0
    BY <2>1, <2>2, FS_EmptySet
  <2> QED BY <2>2, <2>3 DEF StillAhead
<1>8. ListingComplete'
  <2>1. \A c \in DOMAIN rows : StillAhead(c, 0)'
    BY <1>1, <1>7 DEF StillAhead
  <2> QED BY <1>1, <2>1 DEF ListingComplete
<1> QED BY <1>2, <1>6, <1>8 DEF ArchiveInv

(* One page more: what it held is put behind what is listed.                 *)
PutBehind(page, more) ==
    /\ DOMAIN more = 1 .. Len(page) /\ \A i \in 1 .. Len(page) : more[i].hash = page[i]
    /\ running' \in Listing /\ running'.offset = running.offset + Limit
    /\ running'.commits = running.commits \o more /\ running'.before = running.before
    /\ running'.step = IF LastPage(page) THEN "refs" ELSE "commits"

LEMMA ListingGoesOn ==
    ASSUME OldRowsStay, running \in Listing, ExportPage
    PROVE  \E all \in Listings(registry["old"].rows), page \in Seq(DOMAIN registry["old"].rows),
              more \in Seq(ListedCommit) :
               page = Page(all, running.offset) /\ PutBehind(page, more)
<1> DEFINE rows == registry["old"].rows
<1>1. /\ IsFiniteSet(DOMAIN rows) /\ DOMAIN rows \subseteq Version
      /\ \A c \in DOMAIN rows : rows[c] = RowOf(c) /\ rows[c].at \in Int
  BY TransferAssumption DEF OldRowsStay, RowOf
<1>2. running.step = "commits" /\ running.cmd = "export"
  BY DEF ExportPage
<1>3. PICK all \in Listings(rows) :
        running' = [running EXCEPT !.step = IF LastPage(Page(all, running.offset)) THEN "refs" ELSE @,
              !.offset = @ + Limit,
              !.commits = @ \o [i \in 1 .. Len(Page(all, running.offset)) |->
                    [hash |-> Page(all, running.offset)[i], row |-> rows[Page(all, running.offset)[i]]]]]
  BY DEF ExportPage
<1>4. PICK offset \in Nat : offset = running.offset
  BY DEF Listing
<1>5. PICK earlier \in Seq(ListedCommit) : earlier = running.commits
  BY DEF Listing
<1>6. PICK before \in SUBSET Version : before = running.before
  BY DEF Listing
<1>7. all \in Seq(DOMAIN rows)
  BY <1>1, ListingNumbers
<1>8. PICK page \in Seq(DOMAIN rows) : page = Page(all, offset)
  BY <1>7, PageOfRows
<1> DEFINE more == [i \in 1 .. Len(page) |-> [hash |-> page[i], row |-> rows[page[i]]]]
<1>9. /\ more \in Seq(ListedCommit) /\ DOMAIN more = 1 .. Len(page)
      /\ \A i \in 1 .. Len(page) : more[i].hash = page[i]
  <2>1. \A i \in 1 .. Len(page) : page[i] \in DOMAIN rows
    BY <1>8
  <2>2. \A c \in DOMAIN rows : [hash |-> c, row |-> rows[c]] \in ListedCommit
    <3>1. ASSUME NEW c \in DOMAIN rows
          PROVE  rows[c] \in [at : Int, changed : SUBSET {"run_id", "author", "timestamp"}]
      <4>1. RowOf(c).changed \in SUBSET {"run_id", "author", "timestamp"}
        BY DEF RowOf
      <4>2. RowOf(c).at \in Int /\ DOMAIN RowOf(c) = {"at", "changed"}
        BY <1>1, TransferAssumption DEF RowOf
      <4>3. rows[c] = RowOf(c) /\ RowOf(c) = [at |-> RowOf(c).at, changed |-> RowOf(c).changed]
        BY <1>1 DEF RowOf
      <4> QED BY <4>1, <4>2, <4>3
    <3> QED BY <1>1, <3>1 DEF ListedCommit
  <2>3. \A i \in 1 .. Len(page) : more[i] \in ListedCommit /\ more[i].hash = page[i]
    BY <2>1, <2>2
  <2>4. Len(page) \in Nat
    BY <1>8
  <2> QED BY <2>3, <2>4
<1>10. running' = [running EXCEPT !.step = IF LastPage(page) THEN "refs" ELSE @,
                                  !.offset = @ + Limit, !.commits = @ \o more]
  BY <1>3, <1>4, <1>8
<1> HIDE DEF more
<1>11. earlier \o more \in Seq(ListedCommit)
  BY <1>5, <1>9, ListedTogether
<1>12. DOMAIN running = {"cmd", "step", "offset", "commits", "before"}
  BY DEF Listing
<1>13. /\ running'.offset = offset + Limit /\ running'.commits = earlier \o more
       /\ running'.before = before /\ running'.cmd = "export"
       /\ running'.step = IF LastPage(page) THEN "refs" ELSE "commits"
  BY <1>2, <1>4, <1>5, <1>6, <1>10, <1>12
<1>14. running' = [cmd |-> "export", step |-> running'.step, offset |-> running'.offset,
                   commits |-> running'.commits, before |-> running'.before]
  BY <1>2, <1>10 DEF Listing
<1>15. offset + Limit \in Nat
  BY TransferAssumption
<1>16. running' \in Listing
  BY <1>11, <1>13, <1>14, <1>15 DEF Listing
<1>17. /\ running'.offset = running.offset + Limit /\ running'.commits = running.commits \o more
       /\ running'.before = running.before
  BY <1>4, <1>5, <1>6, <1>13
<1>18. PutBehind(page, more)
  BY <1>9, <1>13, <1>16, <1>17 DEF PutBehind
<1>19. page = Page(all, running.offset)
  BY <1>4, <1>8
<1> QED BY <1>9, <1>18, <1>19

LEMMA ExportPageKeeps ==
    ASSUME DistinctStamps, ArchiveInv, ExportPage
    PROVE  ArchiveInv'
<1> DEFINE rows == registry["old"].rows
<1>1. registry' = registry /\ archive' = archive
  BY DEF ExportPage
<1>2. OldRowsStay'
  BY <1>1, OldStays DEF ArchiveInv
<1>3. /\ IsFiniteSet(DOMAIN rows) /\ DOMAIN rows \subseteq Version
      /\ \A c \in DOMAIN rows : rows[c] = RowOf(c) /\ rows[c].at \in Int
      /\ \A c, d \in DOMAIN rows : rows[c].at = rows[d].at => c = d
  BY TransferAssumption DEF ArchiveInv, OldRowsStay, RowOf, DistinctStamps
<1>4. running \in Listing /\ running.cmd = "export" /\ running.step = "commits"
  BY DEF ExportPage, ArchiveInv, CommandShape
<1>5. PICK all \in Listings(rows), page \in Seq(DOMAIN rows), more \in Seq(ListedCommit) :
         page = Page(all, running.offset) /\ PutBehind(page, more)
  BY <1>4, ListingGoesOn DEF ArchiveInv
<1>6. PICK offset \in Nat : offset = running.offset
  BY <1>4 DEF Listing
<1>7. PICK earlier \in Seq(ListedCommit) : earlier = running.commits
  BY <1>4 DEF Listing
<1>8. PICK before \in SUBSET Version : before = running.before
  BY <1>4 DEF Listing
<1>9. /\ all \in Seq(DOMAIN rows)
      /\ \A c \in DOMAIN rows : \E i \in 1 .. Len(all) : all[i] = c
  BY <1>3, ListingNumbers
<1>10. Listed(earlier \o more) = Listed(earlier) \cup Listed(more)
  BY <1>7, ListedTogether
<1>11. Limit \in Nat \ {0}
  BY TransferAssumption
<1>12. /\ running'.cmd = "export" /\ running'.offset = offset + Limit
       /\ running'.commits = earlier \o more /\ running'.before = before
  BY <1>5, <1>6, <1>7, <1>8 DEF Listing, PutBehind
<1>13. CommandShape' /\ ArchiveIsClosed'
  <2>1. "cmd" \in DOMAIN running'
    BY <1>5 DEF Listing, PutBehind
  <2> QED BY <1>1, <1>5, <1>12, <2>1 DEF PutBehind, CommandShape, ArchiveIsClosed, ArchiveInv
<1>14. ASSUME NEW c \in before, c \notin Listed(earlier \o more)
       PROVE  ~LastPage(page) /\ c \in DOMAIN rows /\ Cardinality(UpTo(rows, c)) > offset + Limit
  <2>1. c \notin Listed(earlier) /\ c \notin Listed(more)
    BY <1>10, <1>14
  <2>2. c \in DOMAIN rows /\ StillAhead(c, offset)
    BY <1>4, <1>6, <1>7, <1>8, <2>1 DEF ArchiveInv, ListingComplete
  <2>3. PICK i \in 1 .. Len(all) : all[i] = c
    BY <1>9, <2>2
  <2>4. Cardinality(UpTo(rows, c)) = i
    BY <1>3, <2>3, PlaceIsCount
  <2>5. offset < i
    BY <2>2, <2>4 DEF StillAhead
  <2>6. c \in ToSet(page) \/ (offset + Limit < i /\ Len(page) = Limit)
    BY <1>5, <1>6, <1>9, <2>3, <2>5, OnPageOrBehind
  <2>7. c \notin ToSet(page)
    <3>1. SUFFICES ASSUME NEW k \in DOMAIN page, page[k] = c PROVE FALSE
      BY DEF ToSet
    <3>2. k \in 1 .. Len(page) /\ more[k].hash = c /\ k \in DOMAIN more
      BY <1>5, <3>1 DEF PutBehind
    <3> QED BY <2>1, <3>2 DEF Listed, ToSet
  <2> QED BY <1>11, <2>2, <2>4, <2>6, <2>7 DEF LastPage
<1>15. ListingComplete'
  <2>1. running'.step # "objects"
    BY <1>5 DEF PutBehind
  <2>2. \A c \in before \ Listed(earlier \o more) :
           running'.step = "commits" /\ c \in DOMAIN registry'["old"].rows /\ StillAhead(c, offset + Limit)'
    BY <1>1, <1>5, <1>14 DEF PutBehind, StillAhead
  <2> QED BY <1>12, <2>1, <2>2 DEF ListingComplete, StillAhead
<1> QED BY <1>2, <1>13, <1>15 DEF ArchiveInv

LEMMA ExportRefsKeeps ==
    ASSUME ArchiveInv, ExportRefs
    PROVE  ArchiveInv'
<1>1. registry' = registry /\ archive' = archive
  BY DEF ExportRefs
<1>2. OldRowsStay'
  BY <1>1, OldStays DEF ArchiveInv
<1>3. running \in Listing /\ running.cmd = "export" /\ running.step = "refs"
  BY DEF ExportRefs, ArchiveInv, CommandShape
<1>4. PICK earlier \in Seq(ListedCommit) : earlier = running.commits
  BY <1>3 DEF Listing
<1>5. PICK before \in SUBSET Version : before = running.before
  BY <1>3 DEF Listing
<1>6. before \subseteq Listed(earlier)
  BY <1>3, <1>4, <1>5 DEF ArchiveInv, ListingComplete
<1> DEFINE wanted == Exportable(earlier)
           m == [commits |-> earlier, ref |-> registry["old"].ref, objects |-> wanted, before |-> before]
<1>7. running' = [cmd |-> "export", step |-> "objects", todo |-> wanted, manifest |-> m]
  BY <1>4, <1>5 DEF ExportRefs
<1>8. wanted = {BlobOf[c] : c \in Listed(earlier)}
  BY DEF Exportable, Listed
<1>9. Closed(m)
  BY <1>6, <1>8 DEF Closed
<1>10. CommandShape'
  BY <1>1, <1>7 DEF ArchiveInv, CommandShape
<1> HIDE DEF m, wanted
<1>11. ListingComplete' /\ ArchiveIsClosed'
  BY <1>1, <1>7, <1>9 DEF ListingComplete, ArchiveIsClosed, ArchiveInv
<1> QED BY <1>2, <1>10, <1>11 DEF ArchiveInv

LEMMA ExportObjectKeeps ==
    ASSUME ArchiveInv, ExportObject
    PROVE  ArchiveInv'
<1>1. registry' = registry /\ archive'.manifest = archive.manifest /\ DOMAIN archive' = DOMAIN archive
  BY DEF ExportObject, ArchiveInv, CommandShape
<1>2. OldRowsStay'
  BY <1>1, OldStays DEF ArchiveInv
<1>3. /\ running.cmd = "export" /\ running.step = "objects"
      /\ DOMAIN running = {"cmd", "step", "todo", "manifest"} /\ Closed(running.manifest)
  BY DEF ExportObject, ListingComplete, ArchiveInv, CommandShape, Listing
<1>4. PICK h : running' = [running EXCEPT !.todo = @ \ {h}]
  BY DEF ExportObject
<1>5. running'.cmd = "export" /\ running'.step = "objects" /\ running'.manifest = running.manifest
      /\ "cmd" \in DOMAIN running'
  BY <1>3, <1>4
<1>6. CommandShape' /\ ListingComplete' /\ ArchiveIsClosed'
  <2>1. DOMAIN running' = {"cmd", "step", "todo", "manifest"} /\ Closed(running'.manifest)
    BY <1>3, <1>4, <1>5
  <2> QED BY <1>1, <1>5, <2>1 DEF ArchiveInv, CommandShape, ListingComplete, ArchiveIsClosed
<1> QED BY <1>2, <1>6 DEF ArchiveInv

LEMMA ExportWriteKeeps ==
    ASSUME ArchiveInv, ExportWrite
    PROVE  ArchiveInv'
<1>1. /\ registry' = registry /\ DOMAIN archive' = DOMAIN archive
      /\ archive'.manifest = running.manifest /\ Closed(running.manifest)
      /\ "cmd" \in DOMAIN running' /\ running'.cmd # "export"
  BY DEF ExportWrite, ArchiveInv, CommandShape, ListingComplete, NoTransfer
<1>2. OldRowsStay'
  BY <1>1, OldStays DEF ArchiveInv
<1>3. CommandShape' /\ ListingComplete' /\ ArchiveIsClosed'
  BY <1>1 DEF ArchiveInv, CommandShape, ListingComplete, ArchiveIsClosed
<1> QED BY <1>2, <1>3 DEF ArchiveInv

LEMMA ArchiveStarts == TransferInit => ArchiveInv
<1> SUFFICES ASSUME TransferInit PROVE ArchiveInv
  OBVIOUS
<1>1. /\ registry = [r \in {"old", "new"} |-> NewRegistry] /\ running = NoTransfer
      /\ archive = [objects |-> {}, manifest |-> NoManifest]
  BY DEF TransferInit
<1>2. DOMAIN NewRegistry = {"rows", "objects", "ref"} /\ DOMAIN NewRegistry.rows = {}
  BY DEF NewRegistry, NoRows
<1>3. OldRowsStay
  BY <1>1, <1>2, FS_EmptySet DEF OldRowsStay
<1>4. CommandShape /\ ListingComplete
  BY <1>1 DEF CommandShape, ListingComplete, NoTransfer
<1>5. Listed(<<>>) = {}
  BY DEF Listed, ToSet
<1>6. ArchiveIsClosed
  BY <1>1, <1>5 DEF ArchiveIsClosed, Closed, NoManifest
<1> QED BY <1>3, <1>4, <1>6 DEF ArchiveInv

LEMMA ArchiveSteps == DistinctStamps /\ ArchiveInv /\ [TransferNext]_transferVars => ArchiveInv'
<1> SUFFICES ASSUME DistinctStamps, ArchiveInv, [TransferNext]_transferVars PROVE ArchiveInv'
  OBVIOUS
<1>1. CASE UNCHANGED transferVars
  BY <1>1 DEF transferVars, ArchiveInv, OldRowsStay, RowOf, CommandShape, ListingComplete, StillAhead,
              ArchiveIsClosed
<1>2. CASE \E c \in Version : LandCommit(c) \/ AdvanceRef(c)
  BY <1>2, LandCommitKeeps, AdvanceRefKeeps
<1>3. CASE LoseNew
  BY <1>3, LoseNewKeeps
<1>4. CASE (\E r \in {"old", "new"} : CloneStart(r)) \/ ClonePage \/ ClonePageFails \/ CloneFinish \/ Interrupt
  BY <1>4, ArchiveCloneKeeps
<1>5. CASE ExportStart \/ ExportPage \/ ExportRefs \/ ExportObject \/ ExportWrite
  BY <1>5, ExportStartKeeps, ExportPageKeeps, ExportRefsKeeps, ExportObjectKeeps, ExportWriteKeeps
<1>6. CASE (\E again \in BOOLEAN : RestoreStart(again)) \/ RestoreObject \/ RestoreCommit \/ RestoreRef \/ RestoreEnd
  BY <1>6, ArchiveRestoreKeeps
<1> QED BY <1>1, <1>2, <1>3, <1>4, <1>5, <1>6 DEF TransferNext

(* "an export must be complete": whatever others push while `av registry     *)
(* export` walks the pages, an archive whose manifest is written lists every *)
(* commit that was there at its start, with its object. The listing is       *)
(* ordered by timestamps alone, hence the hypothesis.                        *)
THEOREM ExportsAreComplete == DistinctStamps /\ TransferSpec => []ArchiveIsClosed
<1>1. ArchiveInv => ArchiveIsClosed
  BY DEF ArchiveInv
<1> SUFFICES ASSUME DistinctStamps PROVE TransferSpec => []ArchiveIsClosed
  OBVIOUS
<1>2. ArchiveInv /\ [TransferNext]_transferVars => ArchiveInv'
  BY ArchiveSteps
<1> QED BY <1>1, <1>2, ArchiveStarts, PTL DEF TransferSpec

(* Restores.                                                                *)

(* Nothing that a restore did is touched, and none runs that did not before. *)
LEMMA RestoreUntouched ==
    ASSUME RestoreInv, OldRowsStay', TransferTyped',
           registry'["new"] = registry["new"], archive'.manifest = archive.manifest, resume' = resume,
           registry["old"].ref # Nil => registry'["old"].ref # Nil,
           running' = running \/ running'.cmd \in {"none", "clone"}
             \/ (/\ running'.cmd = "export" /\ (running'.step = "objects" =>
                      \/ running.cmd = "export" /\ running.step = "objects"
                         /\ running'.manifest = running.manifest
                      \/ running'.manifest.ref = registry["old"].ref)
                 /\ registry'["old"] = registry["old"])
    PROVE  RestoreInv'
<1>1. BranchFollows'
  BY DEF BranchFollows, RestoreInv
<1>2. ResumeSound'
  BY DEF ResumeSound, RestoreInv
<1>3. RestoreSound'
  BY DEF RestoreSound, RestoreInv
<1> QED BY <1>1, <1>2, <1>3 DEF RestoreInv

LEMMA RestoreLandCommit ==
    ASSUME RestoreInv, NEW c \in Version, LandCommit(c) \/ AdvanceRef(c)
    PROVE  RestoreInv'
<1>1. /\ DOMAIN registry = {"old", "new"} /\ UNCHANGED <<running, archive, resume, repo>>
      /\ \A r \in {"old", "new"} : {"rows", "objects", "ref"} \subseteq DOMAIN registry[r]
  BY DEF LandCommit, AdvanceRef, RestoreInv, TransferTyped
<1>2. /\ OldRowsStay' /\ DOMAIN registry' = {"old", "new"} /\ registry'["new"] = registry["new"]
      /\ DOMAIN registry'["old"] = DOMAIN registry["old"]
      /\ DOMAIN registry["old"].rows \subseteq DOMAIN registry'["old"].rows
      /\ registry'["old"].ref \in DOMAIN registry'["old"].rows \cup {Nil}
      /\ registry["old"].ref # Nil => registry'["old"].ref # Nil
  <2>1. registry["old"].ref \in DOMAIN registry["old"].rows \cup {Nil}
    BY DEF RestoreInv, TransferTyped, TransferTypeOK
  <2>2. CASE LandCommit(c)
    <3>1. registry'["old"].ref = registry["old"].ref /\ registry'["new"] = registry["new"]
          /\ DOMAIN registry'["old"] = DOMAIN registry["old"]
      BY <1>1, <2>2 DEF LandCommit
    <3> QED BY <1>1, <2>1, <2>2, <3>1, OldRowsGrow DEF RestoreInv
  <2>3. CASE AdvanceRef(c)
    <3>1. registry'["old"].ref = c /\ registry'["new"] = registry["new"] /\ DOMAIN registry' = DOMAIN registry
          /\ DOMAIN registry'["old"] = DOMAIN registry["old"] /\ registry'["old"].rows = registry["old"].rows
      BY <1>1, <2>3 DEF AdvanceRef
    <3>2. OldRowsStay'
      BY <3>1 DEF RestoreInv, OldRowsStay, RowOf
    <3>3. c \in DOMAIN registry["old"].rows /\ c # Nil
      BY <2>3, TransferAssumption DEF AdvanceRef
    <3> QED BY <1>1, <3>1, <3>2, <3>3
  <2> QED BY <2>2, <2>3
<1>3. TransferTyped'
  <2>1. DOMAIN registry'["old"].rows \subseteq Version
    BY <1>2 DEF OldRowsStay
  <2>2. TransferTypeOK'
    BY <1>1, <1>2, <2>1 DEF RestoreInv, TransferTyped, TransferTypeOK
  <2> QED BY <1>1, <1>2, <2>2 DEF RestoreInv, TransferTyped
<1> QED BY <1>1, <1>2, <1>3, RestoreUntouched

LEMMA RestoreLoseNew ==
    ASSUME RestoreInv, LoseNew
    PROVE  RestoreInv'
<1>1. /\ DOMAIN registry = {"old", "new"} /\ UNCHANGED <<running, archive, repo>> /\ running = NoTransfer
      /\ \A r \in {"old", "new"} : {"rows", "objects", "ref"} \subseteq DOMAIN registry[r]
      /\ resume' = StaleResume
  BY DEF LoseNew, RestoreInv, TransferTyped
<1>2. /\ DOMAIN registry' = {"old", "new"} /\ registry'["old"] = registry["old"]
      /\ {"rows", "objects", "ref"} \subseteq DOMAIN registry'["new"]
      /\ DOMAIN registry'["new"].rows \subseteq Version
      /\ registry'["new"].ref \in DOMAIN registry'["new"].rows \cup {Nil}
      /\ registry'["new"].ref # Nil => registry["new"].ref # Nil
  <2>1. registry["new"].ref \in DOMAIN registry["new"].rows \cup {Nil}
        /\ DOMAIN registry["new"].rows \subseteq Version
    BY DEF RestoreInv, TransferTyped, TransferTypeOK
  <2>2. CASE registry' = [registry EXCEPT !["new"].objects =
                              @ \cap {BlobOf[c] : c \in DOMAIN registry["new"].rows}]
    BY <1>1, <2>1, <2>2
  <2>3. CASE registry' = [registry EXCEPT !["new"] = NewRegistry]
    BY <1>1, <2>3 DEF NewRegistry, NoRows
  <2> QED BY <2>2, <2>3 DEF LoseNew
<1>3. OldRowsStay'
  BY <1>1, <1>2, OldStays DEF RestoreInv
<1>4. /\ resume \in [objects : SUBSET Objects, commits : SUBSET Version, ref : BOOLEAN, stale : BOOLEAN]
      /\ resume' \in [objects : SUBSET Objects, commits : SUBSET Version, ref : BOOLEAN, stale : BOOLEAN]
      /\ resume'.stale \/ resume' = NothingDone
  <2>1. resume \in [objects : SUBSET Objects, commits : SUBSET Version, ref : BOOLEAN, stale : BOOLEAN]
    BY DEF RestoreInv, TransferTyped
  <2>2. CASE resume = NothingDone
    BY <1>1, <2>1, <2>2 DEF StaleResume, NothingDone
  <2>3. CASE resume # NothingDone
    BY <1>1, <2>1, <2>3 DEF StaleResume
  <2> QED BY <2>1, <2>2, <2>3
<1>5. TransferTyped'
  <2>1. TransferTypeOK'
    BY <1>1, <1>2, <1>4 DEF RestoreInv, TransferTyped, TransferTypeOK
  <2>2. \A r \in {"old", "new"} : {"rows", "objects", "ref"} \subseteq DOMAIN registry'[r]
    BY <1>1, <1>2
  <2> QED BY <1>1, <1>2, <1>4, <2>1, <2>2 DEF RestoreInv, TransferTyped
<1>6. BranchFollows'
  BY <1>1, <1>2 DEF RestoreInv, BranchFollows
<1>7. ResumeSound' /\ RestoreSound'
  BY <1>1, <1>4 DEF ResumeSound, NothingDone, RestoreSound, NoTransfer
<1> QED BY <1>3, <1>5, <1>6, <1>7 DEF RestoreInv

LEMMA RestoreOthers ==
    ASSUME RestoreInv, \/ \E r \in {"old", "new"} : CloneStart(r)
                       \/ ClonePage \/ ClonePageFails \/ CloneFinish \/ Interrupt \/ RestoreEnd
    PROVE  RestoreInv'
<1>1. registry' = registry /\ archive' = archive /\ resume' = resume
  BY DEF CloneStart, ClonePage, ClonePageFails, CloneFinish, Interrupt, RestoreEnd
<1>2. "cmd" \in DOMAIN running' /\ running'.cmd \in {"none", "clone"}
  <2>1. ASSUME NEW r, CloneStart(r) PROVE "cmd" \in DOMAIN running' /\ running'.cmd \in {"none", "clone"}
    BY <2>1 DEF CloneStart
  <2>2. CASE ClonePage \/ ClonePageFails
    BY <2>2 DEF ClonePage, ClonePageFails, RestoreInv, TransferTyped
  <2>3. CASE CloneFinish \/ Interrupt \/ RestoreEnd
    BY <2>3 DEF CloneFinish, Interrupt, RestoreEnd, NoTransfer
  <2> QED BY <2>1, <2>2, <2>3
<1>3. repo'.ready \in BOOLEAN
  <2>1. repo.ready \in BOOLEAN
    BY DEF RestoreInv, TransferTyped, TransferTypeOK
  <2>2. CASE CloneFinish
    BY <2>1, <2>2 DEF CloneFinish
  <2>3. CASE ~CloneFinish
    BY <2>1, <2>3 DEF CloneStart, ClonePage, ClonePageFails, Interrupt, RestoreEnd
  <2> QED BY <2>2, <2>3
<1>4. OldRowsStay' /\ TransferTyped'
  <2>1. TransferTypeOK'
    BY <1>1, <1>2, <1>3 DEF RestoreInv, TransferTyped, TransferTypeOK
  <2> QED BY <1>1, <1>2, <2>1, OldStays DEF RestoreInv, TransferTyped
<1> QED BY <1>1, <1>2, <1>4, RestoreUntouched

(* An export reads and downloads.                                            *)
LEMMA ExportReads ==
    ASSUME RestoreInv, registry' = registry, resume' = resume, repo' = repo,
           archive' \in [objects : SUBSET Objects, manifest : Manifests], archive'.manifest = archive.manifest,
           running' \in Listing \cup Fetching,
           running'.step = "objects" =>
                      \/ running.cmd = "export" /\ running.step = "objects"
                         /\ running'.manifest = running.manifest
                      \/ running'.manifest.ref = registry["old"].ref
    PROVE  RestoreInv'
<1>1. "cmd" \in DOMAIN running' /\ running'.cmd = "export"
  BY DEF Listing, Fetching
<1>2. OldRowsStay' /\ TransferTyped'
  <2>1. TransferTypeOK'
    BY <1>1 DEF RestoreInv, TransferTyped, TransferTypeOK, Objects
  <2> QED BY <1>1, <2>1, OldStays DEF RestoreInv, TransferTyped
<1> QED BY <1>1, <1>2, RestoreUntouched

LEMMA RestoreExportStart ==
    ASSUME RestoreInv, ExportStart
    PROVE  RestoreInv'
<1>1. /\ UNCHANGED <<registry, archive, resume, repo>>
      /\ running' = [cmd |-> "export", step |-> "commits", offset |-> 0, commits |-> <<>>,
                     before |-> DOMAIN registry["old"].rows]
  BY DEF ExportStart
<1>2. running' \in Listing
  <2>1. <<>> \in Seq(ListedCommit) /\ DOMAIN registry["old"].rows \subseteq Version
    BY DEF RestoreInv, OldRowsStay
  <2> QED BY <1>1, <2>1 DEF Listing
<1>3. archive \in [objects : SUBSET Objects, manifest : Manifests]
  BY DEF RestoreInv, TransferTyped
<1> QED BY <1>1, <1>2, <1>3, ExportReads

LEMMA RestoreExportPage ==
    ASSUME RestoreInv, ExportPage
    PROVE  RestoreInv'
<1>1. UNCHANGED <<registry, archive, resume, repo>>
  BY DEF ExportPage
<1>2. running \in Listing
  BY DEF ExportPage, RestoreInv, TransferTyped, TransferTypeOK, Fetching
<1>3. running' \in Listing
  BY <1>2, ListingGoesOn DEF RestoreInv, PutBehind
<1>4. running'.step # "objects"
  BY <1>3 DEF Listing
<1>5. archive \in [objects : SUBSET Objects, manifest : Manifests]
  BY DEF RestoreInv, TransferTyped
<1> QED BY <1>1, <1>3, <1>4, <1>5, ExportReads

LEMMA RestoreExportRefs ==
    ASSUME RestoreInv, ExportRefs
    PROVE  RestoreInv'
<1>1. UNCHANGED <<registry, archive, resume, repo>>
  BY DEF ExportRefs
<1>2. running \in Listing
  BY DEF ExportRefs, RestoreInv, TransferTyped, TransferTypeOK, Fetching
<1>3. PICK earlier \in Seq(ListedCommit) : earlier = running.commits
  BY <1>2 DEF Listing
<1>4. PICK before \in SUBSET Version : before = running.before
  BY <1>2 DEF Listing
<1> DEFINE wanted == Exportable(earlier)
           m == [commits |-> earlier, ref |-> registry["old"].ref, objects |-> wanted, before |-> before]
<1>5. running' = [cmd |-> "export", step |-> "objects", todo |-> wanted, manifest |-> m]
  BY <1>3, <1>4 DEF ExportRefs
<1>6. wanted \in SUBSET Objects
  <2>1. \A i \in DOMAIN earlier : earlier[i] \in ListedCommit
    BY <1>3
  <2>2. \A l \in ListedCommit : l.hash \in Version
    BY DEF ListedCommit
  <2> QED BY <2>1, <2>2 DEF Exportable, ToSet, Objects
<1>7. registry["old"].ref \in Version \cup {Nil}
  BY DEF RestoreInv, TransferTyped, TransferTypeOK
<1>8. m \in Manifests
  BY <1>3, <1>4, <1>6, <1>7 DEF Manifests, Objects
<1>9. m.ref = registry["old"].ref
  OBVIOUS
<1> HIDE DEF m, wanted
<1>10. running' \in Fetching
  BY <1>5, <1>6, <1>8 DEF Fetching, Objects
<1>11. archive \in [objects : SUBSET Objects, manifest : Manifests]
  BY DEF RestoreInv, TransferTyped
<1> QED BY <1>1, <1>5, <1>9, <1>10, <1>11, ExportReads

LEMMA RestoreExportObject ==
    ASSUME RestoreInv, ExportObject
    PROVE  RestoreInv'
<1>1. running \in Fetching /\ running.cmd = "export" /\ running.step = "objects"
  BY DEF ExportObject, RestoreInv, TransferTyped, TransferTypeOK, Listing
<1>2. PICK h \in running.todo :
         /\ running' = [running EXCEPT !.todo = @ \ {h}]
         /\ archive' \in {[archive EXCEPT !.objects = @ \cup {h}], archive}
         /\ UNCHANGED <<registry, resume, repo>>
  BY DEF ExportObject
<1>3. archive \in [objects : SUBSET Objects, manifest : Manifests] /\ h \in Objects
  BY <1>1, <1>2 DEF RestoreInv, TransferTyped, Fetching, Objects
<1>4. archive' \in [objects : SUBSET Objects, manifest : Manifests] /\ archive'.manifest = archive.manifest
  BY <1>2, <1>3
<1>5. running' \in Fetching /\ running'.manifest = running.manifest
  BY <1>1, <1>2 DEF Fetching
<1> QED BY <1>1, <1>2, <1>4, <1>5, ExportReads

LEMMA RestoreExportWrite ==
    ASSUME RestoreInv, ExportWrite
    PROVE  RestoreInv'
<1>1. running \in Fetching /\ running.cmd = "export" /\ running.step = "objects"
  BY DEF ExportWrite, RestoreInv, TransferTyped, TransferTypeOK, Listing
<1>2. /\ archive' = [archive EXCEPT !.manifest = running.manifest]
      /\ resume' = StaleResume /\ running' = NoTransfer /\ UNCHANGED <<registry, repo>>
  BY DEF ExportWrite
<1>3. archive \in [objects : SUBSET Objects, manifest : Manifests] /\ running.manifest \in Manifests
  BY <1>1 DEF RestoreInv, TransferTyped, Fetching
<1>4. archive' \in [objects : SUBSET Objects, manifest : Manifests] /\ archive'.manifest = running.manifest
  BY <1>2, <1>3
<1>5. /\ resume' \in [objects : SUBSET Objects, commits : SUBSET Version, ref : BOOLEAN, stale : BOOLEAN]
      /\ resume'.stale \/ resume' = NothingDone
  <2>1. resume \in [objects : SUBSET Objects, commits : SUBSET Version, ref : BOOLEAN, stale : BOOLEAN]
    BY DEF RestoreInv, TransferTyped
  <2>2. CASE resume = NothingDone
    BY <1>2, <2>1, <2>2 DEF StaleResume, NothingDone
  <2>3. CASE resume # NothingDone
    BY <1>2, <2>1, <2>3 DEF StaleResume
  <2> QED BY <2>2, <2>3
<1>6. OldRowsStay' /\ TransferTyped'
  <2>1. running'.cmd = "none" /\ "cmd" \in DOMAIN running'
    BY <1>2 DEF NoTransfer
  <2>2. TransferTypeOK'
    BY <1>2, <1>4, <1>5, <2>1 DEF RestoreInv, TransferTyped, TransferTypeOK, Objects
  <2> QED BY <1>2, <1>4, <1>5, <2>1, <2>2, OldStays DEF RestoreInv, TransferTyped
<1>7. BranchFollows'
  <2>1. running'.cmd # "export"
    BY <1>2 DEF NoTransfer
  <2> QED BY <1>1, <1>2, <1>4, <2>1 DEF RestoreInv, BranchFollows
<1>8. ResumeSound' /\ RestoreSound'
  BY <1>2, <1>5 DEF ResumeSound, NothingDone, RestoreSound, NoTransfer
<1> QED BY <1>6, <1>7, <1>8 DEF RestoreInv

LEMMA RestoreBegins ==
    ASSUME RestoreInv, NEW again \in BOOLEAN, RestoreStart(again)
    PROVE  RestoreInv'
<1>1. /\ UNCHANGED <<registry, archive, repo>> /\ resume' \in {resume, NothingDone}
      /\ running' = [cmd |-> "restore", step |-> "objects", todo |-> archive.manifest.objects,
                     next |-> 1, failed |-> FALSE]
  BY DEF RestoreStart
<1>2. OldRowsStay' /\ TransferTyped'
  <2>1. archive.manifest \in Manifests /\ archive.manifest.objects \in SUBSET Objects
    BY DEF RestoreInv, TransferTyped, TransferTypeOK, Manifests, Objects
  <2>2. running' \in Restoring /\ "cmd" \in DOMAIN running' /\ running'.cmd = "restore"
    BY <1>1, <2>1 DEF Restoring
  <2>3. resume' \in [objects : SUBSET Objects, commits : SUBSET Version, ref : BOOLEAN, stale : BOOLEAN]
    <3>1. resume \in [objects : SUBSET Objects, commits : SUBSET Version, ref : BOOLEAN, stale : BOOLEAN]
      BY DEF RestoreInv, TransferTyped
    <3>2. NothingDone \in [objects : SUBSET Objects, commits : SUBSET Version, ref : BOOLEAN, stale : BOOLEAN]
      BY DEF NothingDone
    <3> QED BY <1>1, <3>1, <3>2
  <2>4. TransferTypeOK'
    BY <1>1, <2>2, <2>3 DEF RestoreInv, TransferTyped, TransferTypeOK
  <2> QED BY <1>1, <2>2, <2>3, <2>4, OldStays DEF RestoreInv, TransferTyped
<1>3. BranchFollows' /\ ResumeSound'
  BY <1>1 DEF RestoreInv, BranchFollows, ResumeSound, NothingDone
<1>4. RestoreSound'
  BY <1>1 DEF RestoreSound
<1> QED BY <1>2, <1>3, <1>4 DEF RestoreInv

(* One step of a restore: the new registry and the resume file only gain.    *)
LEMMA RestoreGoesOn ==
    ASSUME RestoreInv, running.cmd = "restore", UNCHANGED <<archive, repo>>,
           DOMAIN registry' = DOMAIN registry, registry'["old"] = registry["old"],
           {"rows", "objects", "ref"} \subseteq DOMAIN registry'["new"],
           DOMAIN registry'["new"].rows \subseteq Version,
           registry'["new"].ref \in DOMAIN registry'["new"].rows \cup {Nil},
           registry'["new"].ref # registry["new"].ref => archive.manifest.ref # Nil,
           running' \in Restoring,
           resume' \in [objects : SUBSET Objects, commits : SUBSET Version, ref : BOOLEAN, stale : BOOLEAN]
    PROVE  OldRowsStay' /\ TransferTyped' /\ BranchFollows'
<1>1. "cmd" \in DOMAIN running' /\ running'.cmd = "restore"
  BY DEF Restoring
<1>2. TransferTyped'
  <2>1. DOMAIN registry = {"old", "new"}
    BY DEF RestoreInv, TransferTyped
  <2>2. TransferTypeOK'
    BY <1>1, <2>1 DEF RestoreInv, TransferTyped, TransferTypeOK
  <2> QED BY <1>1, <2>1, <2>2 DEF RestoreInv, TransferTyped
<1>3. BranchFollows'
  BY <1>1 DEF RestoreInv, BranchFollows
<1> QED BY <1>2, <1>3, OldStays DEF RestoreInv

LEMMA RestoringTyped ==
    ASSUME RestoreInv, running.cmd = "restore"
    PROVE  /\ running \in Restoring
           /\ DOMAIN registry = {"old", "new"}
           /\ {"rows", "objects", "ref"} \subseteq DOMAIN registry["new"]
           /\ DOMAIN registry["new"].rows \subseteq Version
           /\ registry["new"].ref \in DOMAIN registry["new"].rows \cup {Nil}
           /\ archive.manifest.commits \in Seq(ListedCommit)
           /\ resume \in [objects : SUBSET Objects, commits : SUBSET Version, ref : BOOLEAN, stale : BOOLEAN]
<1>1. archive.manifest.commits \in Seq(ListedCommit)
  <2>1. archive.manifest \in Manifests
    BY DEF RestoreInv, TransferTyped
  <2> QED BY <2>1 DEF Manifests
<1> QED BY <1>1 DEF RestoreInv, TransferTyped, TransferTypeOK

LEMMA RestoreObjectKeeps ==
    ASSUME RestoreInv, RestoreObject
    PROVE  RestoreInv'
<1>1. running.cmd = "restore" /\ running.step = "objects" /\ UNCHANGED <<archive, repo>>
  BY DEF RestoreObject
<1> DEFINE new == registry["new"]
           m == archive.manifest
<1>2. /\ running \in Restoring /\ DOMAIN registry = {"old", "new"}
      /\ {"rows", "objects", "ref"} \subseteq DOMAIN new /\ DOMAIN new.rows \subseteq Version
      /\ new.ref \in DOMAIN new.rows \cup {Nil}
      /\ resume \in [objects : SUBSET Objects, commits : SUBSET Version, ref : BOOLEAN, stale : BOOLEAN]
  BY <1>1, RestoringTyped
<1>3. PICK h \in running.todo :
         \/ /\ running' = [running EXCEPT !.todo = @ \ {h}, !.failed = TRUE]
            /\ registry' \in {registry, [registry EXCEPT !["new"].objects = @ \cup {h}]}
            /\ UNCHANGED resume
         \/ /\ h \in resume.objects /\ running' = [running EXCEPT !.todo = @ \ {h}]
            /\ UNCHANGED <<registry, resume>>
         \/ /\ registry' = [registry EXCEPT !["new"].objects = @ \cup {h}]
            /\ resume' = [resume EXCEPT !.objects = @ \cup {h}]
            /\ running' = [running EXCEPT !.todo = @ \ {h}]
  BY DEF RestoreObject
<1>4. /\ running' \in Restoring /\ running'.todo = running.todo \ {h} /\ running'.step = running.step
      /\ running'.next = running.next
      /\ running.failed => running'.failed
  BY <1>2, <1>3 DEF Restoring
<1>5. /\ resume' \in [objects : SUBSET Objects, commits : SUBSET Version, ref : BOOLEAN, stale : BOOLEAN]
      /\ resume'.commits = resume.commits /\ resume'.ref = resume.ref /\ resume'.stale = resume.stale
  <2>1. h \in Objects
    BY <1>2 DEF Restoring
  <2> QED BY <1>2, <1>3, <2>1
<1>6. /\ DOMAIN registry' = DOMAIN registry /\ registry'["old"] = registry["old"]
      /\ {"rows", "objects", "ref"} \subseteq DOMAIN registry'["new"]
      /\ registry'["new"].rows = new.rows /\ registry'["new"].ref = new.ref
      /\ new.objects \subseteq registry'["new"].objects
      /\ resume'.objects \subseteq resume.objects \cup registry'["new"].objects
  BY <1>2, <1>3
<1>7. OldRowsStay' /\ TransferTyped' /\ BranchFollows'
  BY <1>1, <1>2, <1>4, <1>5, <1>6, RestoreGoesOn
<1>8. ResumeSound'
  BY <1>1, <1>5, <1>6 DEF RestoreInv, ResumeSound
<1>9. RestoreSound'
  <2> SUFFICES ASSUME ~running'.failed, ~resume'.stale
               PROVE  /\ m.objects \ running'.todo \subseteq registry'["new"].objects
                      /\ \A i \in 1 .. Len(m.commits) :
                            i < running'.next => m.commits[i].hash \in DOMAIN registry'["new"].rows
                      /\ running'.step # "end"
    BY <1>1 DEF RestoreSound
  <2>1. /\ m.objects \ running.todo \subseteq new.objects
        /\ \A i \in 1 .. Len(m.commits) : i < running.next => m.commits[i].hash \in DOMAIN new.rows
    BY <1>1, <1>4, <1>5 DEF RestoreInv, RestoreSound, Restoring
  <2>2. h \in registry'["new"].objects
    <3>1. ~resume.stale => resume.objects \subseteq new.objects
      BY DEF RestoreInv, ResumeSound
    <3>2. CASE running' = [running EXCEPT !.todo = @ \ {h}, !.failed = TRUE]
      <4>1. running'.failed
        BY <1>2, <3>2 DEF Restoring
      <4> QED BY <4>1
    <3>3. CASE h \in resume.objects
      BY <1>5, <1>6, <3>1, <3>3
    <3>4. CASE registry' = [registry EXCEPT !["new"].objects = @ \cup {h}]
      BY <1>2, <3>4
    <3> QED BY <1>3, <3>2, <3>3, <3>4
  <2> QED BY <1>1, <1>4, <1>6, <2>1, <2>2
<1> QED BY <1>7, <1>8, <1>9 DEF RestoreInv

LEMMA RestoreCommitKeeps ==
    ASSUME RestoreInv, RestoreCommit
    PROVE  RestoreInv'
<1> DEFINE new == registry["new"]
           m == archive.manifest
           c == m.commits[running.next].hash
           landed == [registry EXCEPT !["new"].rows =
                          WithRows(@, [d \in {c} |-> Restamped(m.commits[running.next].row)])]
<1>1. /\ running.cmd = "restore" /\ running.todo = {} /\ running.next <= Len(m.commits)
      /\ UNCHANGED <<archive, repo>>
  BY DEF RestoreCommit
<1>2. /\ running \in Restoring /\ DOMAIN registry = {"old", "new"}
      /\ {"rows", "objects", "ref"} \subseteq DOMAIN new /\ DOMAIN new.rows \subseteq Version
      /\ new.ref \in DOMAIN new.rows \cup {Nil} /\ m.commits \in Seq(ListedCommit)
      /\ resume \in [objects : SUBSET Objects, commits : SUBSET Version, ref : BOOLEAN, stale : BOOLEAN]
  BY <1>1, RestoringTyped
<1>3. \/ /\ c \in resume.commits /\ running' = [running EXCEPT !.next = @ + 1]
         /\ UNCHANGED <<registry, resume>>
      \/ /\ running' = [running EXCEPT !.next = @ + 1]
         /\ registry' = landed
         /\ resume' = [resume EXCEPT !.commits = @ \cup {c}]
      \/ /\ running' = [running EXCEPT !.next = @ + 1, !.failed = TRUE]
         /\ registry' \in {registry, landed} /\ UNCHANGED resume
  BY DEF RestoreCommit, Accepted
<1>4. c \in Version
  <2>1. running.next \in 1 .. Len(m.commits)
    BY <1>1, <1>2 DEF Restoring
  <2>2. m.commits[running.next] \in ListedCommit
    BY <1>2, <2>1
  <2> QED BY <2>2 DEF ListedCommit
<1> HIDE DEF c
<1>5. /\ running' \in Restoring /\ running'.todo = {} /\ running'.step = running.step
      /\ running'.next = running.next + 1
      /\ running.failed => running'.failed
  <2>1. running.next + 1 \in Nat \ {0}
    BY <1>2 DEF Restoring
  <2>2. PICK n \in Nat \ {0} : n = running.next + 1
    BY <2>1
  <2>3. running' \in {[running EXCEPT !.next = n], [running EXCEPT !.next = n, !.failed = TRUE]}
    BY <1>3, <2>2
  <2>4. /\ running' \in Restoring /\ running'.todo = running.todo /\ running'.step = running.step
        /\ running'.next = n
        /\ running.failed => running'.failed
    BY <1>2, <2>3 DEF Restoring
  <2> QED BY <1>1, <2>2, <2>4
<1>6. /\ resume' \in [objects : SUBSET Objects, commits : SUBSET Version, ref : BOOLEAN, stale : BOOLEAN]
      /\ resume'.objects = resume.objects /\ resume'.ref = resume.ref /\ resume'.stale = resume.stale
  BY <1>2, <1>3, <1>4
<1>7. /\ DOMAIN registry' = DOMAIN registry /\ registry'["old"] = registry["old"]
      /\ {"rows", "objects", "ref"} \subseteq DOMAIN registry'["new"]
      /\ registry'["new"].objects = new.objects /\ registry'["new"].ref = new.ref
      /\ DOMAIN new.rows \subseteq DOMAIN registry'["new"].rows
      /\ DOMAIN registry'["new"].rows \subseteq DOMAIN new.rows \cup {c}
      /\ resume'.commits \subseteq resume.commits \cup DOMAIN registry'["new"].rows
      /\ c \in resume.commits \cup DOMAIN registry'["new"].rows \/ running'.failed
  <2>1. registry' \in {registry, landed}
    BY <1>3
  <2>2. registry'["new"].rows \in
           {new.rows, WithRows(new.rows, [d \in {c} |-> Restamped(m.commits[running.next].row)])}
    BY <1>2, <2>1
  <2>3. /\ DOMAIN new.rows \subseteq DOMAIN registry'["new"].rows
        /\ DOMAIN registry'["new"].rows \subseteq DOMAIN new.rows \cup {c}
    BY <2>2 DEF WithRows
  <2>4. /\ DOMAIN registry' = DOMAIN registry /\ registry'["old"] = registry["old"]
        /\ {"rows", "objects", "ref"} \subseteq DOMAIN registry'["new"]
        /\ registry'["new"].objects = new.objects /\ registry'["new"].ref = new.ref
    BY <1>2, <2>1
  <2>5. registry' = landed => c \in DOMAIN registry'["new"].rows
    <3>1. registry' = landed => registry'["new"].rows =
             WithRows(new.rows, [d \in {c} |-> Restamped(m.commits[running.next].row)])
      BY <1>2
    <3> QED BY <3>1 DEF WithRows
  <2>6. /\ resume' = resume \/ (registry' = landed /\ resume' = [resume EXCEPT !.commits = @ \cup {c}])
        /\ c \in resume.commits \/ registry' = landed
              \/ running' = [running EXCEPT !.next = @ + 1, !.failed = TRUE]
    BY <1>3
  <2>7. running' = [running EXCEPT !.next = @ + 1, !.failed = TRUE] => running'.failed
    BY <1>2 DEF Restoring
  <2>8. resume'.commits \subseteq resume.commits \cup DOMAIN registry'["new"].rows
    <3>1. CASE resume' = resume
      BY <3>1
    <3>2. CASE registry' = landed /\ resume' = [resume EXCEPT !.commits = @ \cup {c}]
      BY <1>2, <2>5, <3>2
    <3> QED BY <2>6, <3>1, <3>2
  <2> QED BY <2>3, <2>4, <2>5, <2>6, <2>7, <2>8
<1>8. OldRowsStay' /\ TransferTyped' /\ BranchFollows'
  BY <1>1, <1>2, <1>4, <1>5, <1>6, <1>7, RestoreGoesOn
<1>9. ResumeSound'
  BY <1>1, <1>6, <1>7 DEF RestoreInv, ResumeSound
<1>10. RestoreSound'
  <2> SUFFICES ASSUME ~running'.failed, ~resume'.stale
               PROVE  /\ m.objects \subseteq registry'["new"].objects
                      /\ \A i \in 1 .. Len(m.commits) :
                            i < running'.next => m.commits[i].hash \in DOMAIN registry'["new"].rows
                      /\ running'.step # "end"
    BY <1>1, <1>5 DEF RestoreSound
  <2>1. /\ m.objects \subseteq new.objects
        /\ \A i \in 1 .. Len(m.commits) : i < running.next => m.commits[i].hash \in DOMAIN new.rows
        /\ running.step = "end" => running.next > Len(m.commits)
    BY <1>1, <1>5, <1>6 DEF RestoreInv, RestoreSound, Restoring
  <2>2. c \in DOMAIN registry'["new"].rows
    BY <1>6, <1>7 DEF RestoreInv, ResumeSound
  <2>3. running.step # "end"
    BY <1>1, <1>2, <2>1 DEF Restoring
  <2>4. ASSUME NEW i \in 1 .. Len(m.commits), i < running'.next
        PROVE  m.commits[i].hash \in DOMAIN registry'["new"].rows
    <3>1. i < running.next \/ i = running.next
      BY <1>2, <1>5, <2>4 DEF Restoring
    <3> QED BY <1>7, <2>1, <2>2, <3>1 DEF c
  <2> QED BY <1>5, <1>7, <2>1, <2>3, <2>4
<1> QED BY <1>8, <1>9, <1>10 DEF RestoreInv

LEMMA RestoreRefKeeps ==
    ASSUME RestoreInv, RestoreRef
    PROVE  RestoreInv'
<1> DEFINE new == registry["new"]
           m == archive.manifest
<1>1. /\ running.cmd = "restore" /\ running.step = "objects" /\ running.todo = {}
      /\ running.next > Len(m.commits) /\ UNCHANGED <<archive, repo>>
  BY DEF RestoreRef
<1>2. /\ running \in Restoring /\ DOMAIN registry = {"old", "new"}
      /\ {"rows", "objects", "ref"} \subseteq DOMAIN new /\ DOMAIN new.rows \subseteq Version
      /\ new.ref \in DOMAIN new.rows \cup {Nil} /\ m.commits \in Seq(ListedCommit)
      /\ resume \in [objects : SUBSET Objects, commits : SUBSET Version, ref : BOOLEAN, stale : BOOLEAN]
  BY <1>1, RestoringTyped
<1>3. \/ /\ m.ref = Nil \/ resume.ref
         /\ running' = [running EXCEPT !.step = "end"] /\ UNCHANGED <<registry, resume>>
      \/ /\ m.ref \in DOMAIN new.rows /\ registry' = [registry EXCEPT !["new"].ref = m.ref]
         /\ resume' = [resume EXCEPT !.ref = TRUE] /\ running' = [running EXCEPT !.step = "end"]
      \/ /\ running' = [running EXCEPT !.step = "end", !.failed = TRUE] /\ UNCHANGED resume
         /\ \/ UNCHANGED registry
            \/ m.ref \in DOMAIN new.rows /\ registry' = [registry EXCEPT !["new"].ref = m.ref]
  BY DEF RestoreRef
<1>4. /\ running' \in Restoring /\ running'.todo = {} /\ running'.next = running.next
      /\ running.failed => running'.failed
  BY <1>1, <1>2, <1>3 DEF Restoring
<1>5. /\ resume' \in [objects : SUBSET Objects, commits : SUBSET Version, ref : BOOLEAN, stale : BOOLEAN]
      /\ resume'.objects = resume.objects /\ resume'.commits = resume.commits
      /\ resume'.stale = resume.stale
  BY <1>2, <1>3
<1>6. /\ DOMAIN registry' = DOMAIN registry /\ registry'["old"] = registry["old"]
      /\ {"rows", "objects", "ref"} \subseteq DOMAIN registry'["new"]
      /\ registry'["new"].objects = new.objects /\ registry'["new"].rows = new.rows
      /\ registry'["new"].ref # new.ref => m.ref # Nil
      /\ registry'["new"].ref \in {new.ref, m.ref} /\ registry'["new"].ref \in DOMAIN new.rows \cup {Nil}
      /\ \/ resume'.ref = resume.ref /\ registry'["new"].ref = new.ref
         \/ registry'["new"].ref = m.ref
      /\ \/ registry'["new"].ref = m.ref \/ running'.failed
         \/ registry'["new"].ref = new.ref /\ (m.ref = Nil \/ resume.ref)
  <2>1. CASE UNCHANGED registry
    <3>1. running' = [running EXCEPT !.step = "end", !.failed = TRUE] => running'.failed
      BY <1>2 DEF Restoring
    <3>2. registry' = [registry EXCEPT !["new"].ref = m.ref] => new.ref = m.ref
      BY <1>2, <2>1
    <3>3. new.ref = m.ref /\ m.ref \in DOMAIN new.rows => m.ref # Nil
      BY <1>2, TransferAssumption
    <3> QED BY <1>2, <1>3, <2>1, <3>1, <3>2, <3>3
  <2>2. CASE m.ref \in DOMAIN new.rows /\ registry' = [registry EXCEPT !["new"].ref = m.ref]
    <3>1. m.ref # Nil
      BY <1>2, <2>2, TransferAssumption
    <3> QED BY <1>2, <2>2, <3>1
  <2> QED BY <1>3, <2>1, <2>2
<1>7. OldRowsStay' /\ TransferTyped' /\ BranchFollows'
  BY <1>1, <1>2, <1>4, <1>5, <1>6, RestoreGoesOn
<1>8. ResumeSound'
  BY <1>1, <1>5, <1>6 DEF RestoreInv, ResumeSound
<1>9. RestoreSound'
  <2> SUFFICES ASSUME ~running'.failed, ~resume'.stale
               PROVE  /\ m.objects \subseteq registry'["new"].objects
                      /\ \A i \in 1 .. Len(m.commits) :
                            i < running'.next => m.commits[i].hash \in DOMAIN registry'["new"].rows
                      /\ registry'["new"].ref = m.ref
    BY <1>1, <1>4 DEF RestoreSound
  <2>1. /\ m.objects \subseteq new.objects
        /\ \A i \in 1 .. Len(m.commits) : i < running.next => m.commits[i].hash \in DOMAIN new.rows
    BY <1>1, <1>4, <1>5 DEF RestoreInv, RestoreSound, Restoring
  <2>2. registry'["new"].ref = m.ref
    <3>1. m.ref = Nil => new.ref = Nil
      BY DEF RestoreInv, BranchFollows
    <3>2. resume.ref => new.ref = m.ref
      BY <1>5 DEF RestoreInv, ResumeSound
    <3> QED BY <1>6, <3>1, <3>2
  <2> QED BY <1>4, <1>6, <2>1, <2>2
<1> QED BY <1>7, <1>8, <1>9 DEF RestoreInv

LEMMA RestoreStarts == TransferInit => RestoreInv
<1> SUFFICES ASSUME TransferInit PROVE RestoreInv
  OBVIOUS
<1>1. /\ registry = [r \in {"old", "new"} |-> NewRegistry] /\ running = NoTransfer /\ repo = NoRepo
      /\ archive = [objects |-> {}, manifest |-> NoManifest] /\ resume = NothingDone
  BY DEF TransferInit
<1>2. /\ DOMAIN NewRegistry = {"rows", "objects", "ref"} /\ DOMAIN NewRegistry.rows = {}
      /\ NewRegistry.ref = Nil
  BY DEF NewRegistry, NoRows
<1>3. OldRowsStay
  BY ArchiveStarts DEF ArchiveInv
<1>4. NoManifest \in Manifests
  <2>1. <<>> \in Seq(ListedCommit)
    OBVIOUS
  <2> QED BY <2>1 DEF NoManifest, Manifests
<1>5. TransferTyped
  BY <1>1, <1>2, <1>4 DEF TransferTyped, TransferTypeOK, NoTransfer, NoRepo, NothingDone
<1>6. BranchFollows
  BY <1>1, <1>2 DEF BranchFollows, NoTransfer, NoManifest
<1>7. ResumeSound /\ RestoreSound
  BY <1>1 DEF ResumeSound, RestoreSound, NoTransfer, NothingDone
<1> QED BY <1>3, <1>5, <1>6, <1>7 DEF RestoreInv

LEMMA RestoreSteps == RestoreInv /\ [TransferNext]_transferVars => RestoreInv'
<1> SUFFICES ASSUME RestoreInv, [TransferNext]_transferVars PROVE RestoreInv'
  OBVIOUS
<1>1. CASE UNCHANGED transferVars
  BY <1>1 DEF transferVars, RestoreInv, OldRowsStay, RowOf, TransferTyped, TransferTypeOK, BranchFollows,
              ResumeSound, RestoreSound
<1>2. CASE \E c \in Version : LandCommit(c) \/ AdvanceRef(c)
  BY <1>2, RestoreLandCommit
<1>3. CASE LoseNew
  BY <1>3, RestoreLoseNew
<1>4. CASE \/ \E r \in {"old", "new"} : CloneStart(r)
           \/ ClonePage \/ ClonePageFails \/ CloneFinish \/ Interrupt \/ RestoreEnd
  BY <1>4, RestoreOthers
<1>5. CASE ExportStart \/ ExportPage \/ ExportRefs \/ ExportObject \/ ExportWrite
  BY <1>5, RestoreExportStart, RestoreExportPage, RestoreExportRefs, RestoreExportObject,
     RestoreExportWrite
<1>6. CASE (\E again \in BOOLEAN : RestoreStart(again)) \/ RestoreObject \/ RestoreCommit \/ RestoreRef
  BY <1>6, RestoreBegins, RestoreObjectKeeps, RestoreCommitKeeps, RestoreRefKeeps
<1> QED BY <1>1, <1>2, <1>3, <1>4, <1>5, <1>6 DEF TransferNext

(* `av registry restore`, interrupted and resumed as often as may be, beside *)
(* pushes, collections and new exports: one that reports no failure, with a  *)
(* resume file of this manifest and registry or with none, has brought every *)
(* commit of the manifest, its objects and its branch. Timestamps may tie.   *)
THEOREM RestoresLand == TransferSpec => []RestoreHasLanded
<1>1. RestoreInv => RestoreHasLanded
  <2> SUFFICES ASSUME RestoreInv, Reported, ~resume.stale
               PROVE  Landed(archive.manifest, registry["new"])
    BY DEF RestoreHasLanded
  <2> DEFINE m == archive.manifest
             new == registry["new"]
  <2>1. m.commits \in Seq(ListedCommit)
    BY RestoringTyped DEF Reported
  <2>2. /\ m.objects \ running.todo \subseteq new.objects /\ running.todo = {}
        /\ \A i \in 1 .. Len(m.commits) : i < running.next => m.commits[i].hash \in DOMAIN new.rows
        /\ running.next > Len(m.commits) /\ new.ref = m.ref
    BY DEF RestoreInv, RestoreSound, Reported
  <2>3. running.next \in Nat
    BY RestoringTyped DEF Reported, Restoring
  <2>4. Listed(m.commits) \subseteq DOMAIN new.rows
    <3>1. ASSUME NEW i \in DOMAIN m.commits PROVE m.commits[i].hash \in DOMAIN new.rows
      <4>1. i \in 1 .. Len(m.commits) /\ i < running.next
        BY <2>1, <2>2, <2>3, <3>1
      <4> QED BY <2>2, <4>1
    <3> QED BY <3>1 DEF Listed, ToSet
  <2> QED BY <2>2, <2>4 DEF Landed
<1> QED BY <1>1, RestoreStarts, RestoreSteps, PTL DEF TransferSpec

(* The commits and branches of both registries, the files of an export and   *)
(* of a resumed restore, and the commands that move them keep their types.   *)
THEOREM TransferTypes == TransferSpec => []TransferTypeOK
<1>1. RestoreInv => TransferTypeOK
  BY DEF RestoreInv, TransferTyped
<1> QED BY <1>1, RestoreStarts, RestoreSteps, PTL DEF TransferSpec

-----------------------------------------------------------------------------
(* Staging one file, and materialising it from its entry.                  *)

(* The function FlattenSeq is defined with: the first n sequences of ss put   *)
(* together, one after the other.                                             *)
IsFlat(f, n, ss) == f = [i \in 1 .. n |-> IF i = 1 THEN ss[i] ELSE f[i - 1] \o ss[i]]

(* There is such a function for every n (the concatenation of materialize_file). *)
LEMMA FlatExists ==
    ASSUME NEW ss, NEW n \in Nat
    PROVE  \E f : IsFlat(f, n, ss)
  <1> DEFINE bad == {m \in Nat : ~ \E f : IsFlat(f, m, ss)}
  <1> SUFFICES ASSUME bad # {} PROVE FALSE
    OBVIOUS
  <1>1. PICK m \in bad : \A k \in bad : m <= k
    BY LeastNat
  <1>2. m # 0
    <2> DEFINE f == [i \in 1 .. 0 |-> ss[i]]
    <2>1. IsFlat(f, 0, ss)
      <3>1. 1 .. 0 = {}
        OBVIOUS
      <3> QED BY <3>1 DEF IsFlat
    <2> QED
      BY <1>1, <2>1
  <1>3. m \in Nat /\ m - 1 \in Nat /\ m - 1 \notin bad
    BY <1>1, <1>2
  <1>4. PICK g : IsFlat(g, m - 1, ss)
    BY <1>3
  <1> DEFINE f == [i \in 1 .. m |-> IF i = m THEN (IF m = 1 THEN ss[i] ELSE g[m - 1] \o ss[m]) ELSE g[i]]
  <1>5. \A i \in 1 .. m - 1 : f[i] = g[i]
    BY <1>3
  <1>6. ASSUME NEW i \in 1 .. m
        PROVE  f[i] = IF i = 1 THEN ss[i] ELSE f[i - 1] \o ss[i]
    <2>1. CASE i = m
      <3>1. f[m] = IF m = 1 THEN ss[m] ELSE g[m - 1] \o ss[m]
        BY <1>2, <1>3
      <3>2. m # 1 => f[m - 1] = g[m - 1]
        BY <1>2, <1>3, <1>5
      <3> HIDE DEF f
      <3> QED BY <2>1, <3>1, <3>2
    <2>2. CASE i # m
      <3>1. i \in 1 .. m - 1 /\ (i # 1 => i - 1 \in 1 .. m - 1)
        BY <1>3, <2>2
      <3>2. g[i] = IF i = 1 THEN ss[i] ELSE g[i - 1] \o ss[i]
        BY <1>4, <3>1, Zenon DEF IsFlat
      <3> HIDE DEF f
      <3> QED
        BY <1>5, <3>1, <3>2
    <2> QED
      BY <2>1, <2>2
  <1>7. f = [i \in 1 .. m |-> f[i]]
    OBVIOUS
  <1> HIDE DEF f
  <1>8. IsFlat(f, m, ss)
    BY <1>6, <1>7 DEF IsFlat
  <1> QED
    BY <1>1, <1>8

(* What such a function does, sequence by sequence.                           *)
FlatSteps(f, n, ss) == \A i \in 1 .. n : f[i] = IF i = 1 THEN ss[i] ELSE f[i - 1] \o ss[i]

(* FlattenSeq gives the last step.                                            *)
LEMMA FlattenIs ==
    ASSUME NEW ss, Len(ss) \in Nat \ {0}
    PROVE  \E f : FlatSteps(f, Len(ss), ss) /\ FlattenSeq(ss) = f[Len(ss)]
<1> DEFINE g == CHOOSE f : IsFlat(f, Len(ss), ss)
<1>1. IsFlat(g, Len(ss), ss)
  <2>1. \E f : IsFlat(f, Len(ss), ss)
    BY FlatExists
  <2> QED BY <2>1, Zenon
<1>2. FlattenSeq(ss) = g[Len(ss)]
  <2>1. Len(ss) # 0
    OBVIOUS
  <2> QED BY <2>1, Zenon DEF FlattenSeq, IsFlat
<1> HIDE DEF g
<1>3. FlatSteps(g, Len(ss), ss)
  BY <1>1, Zenon DEF IsFlat, FlatSteps
<1> QED BY <1>2, <1>3

(* Steps over the same sequences lead to the same.                            *)
LEMMA FlatUnique ==
    ASSUME NEW n \in Nat, NEW f, NEW g, NEW ss, NEW tt, FlatSteps(f, n, ss), FlatSteps(g, n, tt),
           \A i \in 1 .. n : ss[i] = tt[i]
    PROVE  \A i \in 1 .. n : f[i] = g[i]
<1> DEFINE bad == {i \in 1 .. n : f[i] # g[i]}
<1> SUFFICES ASSUME bad # {} PROVE FALSE
  OBVIOUS
<1>1. bad \subseteq Nat
  OBVIOUS
<1>2. PICK i \in bad : \A k \in bad : i <= k
  BY <1>1, LeastNat
<1>3. i \in 1 .. n /\ f[i] # g[i]
  BY <1>2
<1>4. /\ f[i] = IF i = 1 THEN ss[i] ELSE f[i - 1] \o ss[i]
      /\ g[i] = IF i = 1 THEN tt[i] ELSE g[i - 1] \o tt[i]
  BY <1>3, Zenon DEF FlatSteps
<1>5. i # 1
  BY <1>3, <1>4
<1>6. i - 1 \in 1 .. n /\ i - 1 \notin bad
  BY <1>2, <1>3, <1>5
<1> QED BY <1>3, <1>4, <1>5, <1>6

(* One more part adds its bytes at the end (parts.append in the fused routes). *)
LEMMA FlattenAppend ==
    ASSUME NEW S, NEW ss \in Seq(Seq(S)), NEW s \in Seq(S), FlattenSeq(ss) \in Seq(S)
    PROVE  FlattenSeq(Append(ss, s)) = FlattenSeq(ss) \o s
<1> DEFINE tt == Append(ss, s)
           n == Len(ss)
<1>1. /\ n \in Nat /\ tt \in Seq(Seq(S)) /\ Len(tt) = n + 1 /\ tt[n + 1] = s
      /\ \A i \in 1 .. n : tt[i] = ss[i]
  BY AppendProperties, LenProperties
<1> HIDE DEF tt
<1>2. PICK f : FlatSteps(f, n + 1, tt) /\ FlattenSeq(tt) = f[n + 1]
  <2>1. Len(tt) \in Nat \ {0}
    BY <1>1
  <2> QED BY <1>1, <2>1, FlattenIs
<1>3. f[n + 1] = IF n + 1 = 1 THEN s ELSE f[n] \o s
  <2>1. n + 1 \in 1 .. n + 1 /\ (n + 1) - 1 = n
    BY <1>1
  <2>2. f[n + 1] = IF n + 1 = 1 THEN tt[n + 1] ELSE f[(n + 1) - 1] \o tt[n + 1]
    BY <1>2, <2>1, Zenon DEF FlatSteps
  <2> QED BY <1>1, <2>1, <2>2
<1>4. CASE n = 0
  <2>1. ss = <<>> /\ FlattenSeq(ss) = <<>>
    BY <1>4, EmptySeq DEF FlattenSeq
  <2> QED BY <1>2, <1>3, <1>4, <2>1, ConcatEmptySeq DEF tt
<1>5. CASE n # 0
  <2>1. PICK g : FlatSteps(g, n, ss) /\ FlattenSeq(ss) = g[n]
    BY <1>1, <1>5, FlattenIs
  <2>2. FlatSteps(f, n, tt)
    <3>1. \A i \in 1 .. n : i \in 1 .. n + 1
      BY <1>1
    <3> QED BY <1>2, <3>1, Zenon DEF FlatSteps
  <2>3. f[n] = g[n]
    <3>1. n \in 1 .. n
      BY <1>1, <1>5
    <3> QED BY <1>1, <2>1, <2>2, <3>1, FlatUnique
  <2> QED BY <1>1, <1>2, <1>3, <1>5, <2>1, <2>3 DEF tt
<1> QED BY <1>4, <1>5

(* The first n layers follow each other without a gap, from byte 0 on.        *)
Contiguous(ls, n) ==
    \A i \in 1 .. n : ls[i].start = IF i = 1 THEN 0 ELSE LastByte(ls[i - 1])

(* Layers that follow each other to the end of a file and the bytes read in   *)
(* them: put together, these are the file (what makes materialize_file right). *)
LEMMA FlattenTiles ==
    ASSUME NEW bytes \in Seq(Byte), NEW ls \in Seq(Chunk), NEW ss, Len(ls) # 0,
           Len(ss) = Len(ls), Contiguous(ls, Len(ls)), LastByte(ls[Len(ls)]) = Len(bytes),
           \A i \in 1 .. Len(ls) : LastByte(ls[i]) <= Len(bytes),
           \A i \in 1 .. Len(ls) : ss[i] = SubSeq(bytes, ls[i].start + 1, LastByte(ls[i]))
    PROVE  FlattenSeq(ss) = bytes
<1> DEFINE n == Len(ls)
<1>1. /\ n \in Nat \ {0} /\ Len(bytes) \in Nat
      /\ \A i \in 1 .. n : ls[i].start \in Nat /\ ls[i].size \in Nat
  <2>1. \A i \in 1 .. n : ls[i] \in Chunk
    BY ElementOfSeq
  <2> QED BY <2>1, LenProperties DEF Chunk
<1>2. \A i \in 1 .. n : LastByte(ls[i]) = ls[i].start + ls[i].size
  BY DEF LastByte
<1>3. PICK f : FlatSteps(f, n, ss) /\ FlattenSeq(ss) = f[n]
  BY <1>1, FlattenIs
<1> DEFINE bad == {i \in 1 .. n : f[i] # SubSeq(bytes, 1, LastByte(ls[i]))}
<1>4. ASSUME bad # {} PROVE FALSE
  <2>1. bad \subseteq Nat
    OBVIOUS
  <2>2. PICK i \in bad : \A k \in bad : i <= k
    BY <1>4, <2>1, LeastNat
  <2>3. i \in 1 .. n /\ f[i] # SubSeq(bytes, 1, LastByte(ls[i]))
    BY <2>2
  <2>4. f[i] = IF i = 1 THEN ss[i] ELSE f[i - 1] \o ss[i]
    BY <1>3, <2>3, Zenon DEF FlatSteps
  <2>5. /\ ss[i] = SubSeq(bytes, ls[i].start + 1, LastByte(ls[i]))
        /\ ls[i].start = IF i = 1 THEN 0 ELSE LastByte(ls[i - 1])
    BY <2>3, Zenon DEF Contiguous
  <2>6. i # 1
    <3> SUFFICES ASSUME i = 1 PROVE FALSE
      OBVIOUS
    <3>1. ls[i].start = 0 /\ ls[i].start + 1 = 1
      BY <2>5
    <3>2. ss[i] = SubSeq(bytes, 1, LastByte(ls[i]))
      BY <2>5, <3>1
    <3> QED BY <2>3, <2>4, <3>2
  <2>7. i - 1 \in 1 .. n /\ i - 1 \notin bad
    BY <2>2, <2>3, <2>6
  <2>8. PICK a \in Nat, z \in Nat : a = ls[i].start /\ z = LastByte(ls[i]) /\ a <= z /\ z <= Len(bytes)
    BY <1>1, <1>2, <2>3
  <2>9. f[i] = SubSeq(bytes, 1, a) \o SubSeq(bytes, a + 1, z)
    BY <2>4, <2>5, <2>6, <2>7, <2>8
  <2>10. /\ 1 \in 1 .. Len(bytes) + 1 /\ a \in 1 - 1 .. Len(bytes) /\ z \in a .. Len(bytes)
    BY <1>1, <2>8
  <2>11. SubSeq(bytes, 1, a) \o SubSeq(bytes, a + 1, z) = SubSeq(bytes, 1, z)
    BY <2>10, ConcatAdjacentSubSeq
  <2> QED BY <2>3, <2>8, <2>9, <2>11
<1>5. n \in 1 .. n
  BY <1>1
<1> QED BY <1>3, <1>4, <1>5, SubSeqFull

(* A cutter and the chunks it closed in k bytes: each chunk begins where the last *)
(* one ended, and the open one begins there too.                              *)
TiledTo(r, k) ==
    /\ r.cutter \in [pos : Nat, start : Nat, hash : Nat] /\ r.cutter.pos = k
    /\ r.cutter.start <= k
    /\ r.chunks \in Seq(Chunk) /\ Contiguous(r.chunks, Len(r.chunks))
    /\ r.cutter.start = IF Len(r.chunks) = 0 THEN 0 ELSE LastByte(r.chunks[Len(r.chunks)])

(* A layer that begins where the last one ends goes on the row.               *)
LEMMA ContiguousAppend ==
    ASSUME NEW ls \in Seq(Chunk), NEW x \in Chunk, Contiguous(ls, Len(ls)),
           x.start = IF Len(ls) = 0 THEN 0 ELSE LastByte(ls[Len(ls)])
    PROVE  /\ Append(ls, x) \in Seq(Chunk) /\ Len(Append(ls, x)) = Len(ls) + 1
           /\ Append(ls, x)[Len(ls) + 1] = x
           /\ Contiguous(Append(ls, x), Len(ls) + 1)
<1> DEFINE a == Append(ls, x)
           n == Len(ls)
<1>1. /\ n \in Nat /\ a \in Seq(Chunk) /\ Len(a) = n + 1 /\ a[n + 1] = x
      /\ \A i \in 1 .. n : a[i] = ls[i]
  BY AppendProperties, LenProperties
<1> HIDE DEF a
<1>2. ASSUME NEW i \in 1 .. n + 1 PROVE a[i].start = IF i = 1 THEN 0 ELSE LastByte(a[i - 1])
  <2>1. CASE i = n + 1
    <3>1. n # 0 => n \in 1 .. n /\ i - 1 = n
      BY <1>1, <2>1
    <3> QED BY <1>1, <2>1, <3>1
  <2>2. CASE i # n + 1
    <3>1. i \in 1 .. n /\ (i # 1 => i - 1 \in 1 .. n)
      BY <1>1, <2>2
    <3> QED BY <1>1, <3>1 DEF Contiguous
  <2> QED BY <2>1, <2>2
<1>3. Contiguous(a, n + 1)
  BY <1>2 DEF Contiguous
<1> QED BY <1>1, <1>3 DEF a

(* Feeding a byte keeps the chunks in a row (CdcCutter::feed).                *)
LEMMA FedTiles ==
    ASSUME NEW r, NEW k \in Nat, TiledTo(r, k), NEW b \in Byte, NEW size \in Nat, k < size
    PROVE  TiledTo(FedOne(r, b, size), k + 1)
<1> DEFINE d == Feed(r.cutter, b, size)
           c == r.cutter
           x == ClosedChunk(c, d)
           t == FedOne(r, b, size)
<1>1. /\ c \in [pos : Nat, start : Nat, hash : Nat] /\ c.pos = k /\ c.start <= k
      /\ r.chunks \in Seq(Chunk) /\ Contiguous(r.chunks, Len(r.chunks))
      /\ c.start = IF Len(r.chunks) = 0 THEN 0 ELSE LastByte(r.chunks[Len(r.chunks)])
  BY DEF TiledTo
<1> HIDE DEF c
<1>2. /\ d \in [pos : Nat, start : Nat, hash : Nat] /\ d.pos = k + 1
      /\ d.start = c.start \/ d.start = k + 1
  BY <1>1, FeedCuts DEF c
<1> HIDE DEF d
<1>3. t = [cutter |-> d, chunks |-> IF d.start = c.start THEN r.chunks ELSE Append(r.chunks, x)]
  BY DEF FedOne, d, c
<1> HIDE DEF t
<1>4. CASE d.start = c.start
  <2>1. t.cutter = d /\ t.chunks = r.chunks
    BY <1>3, <1>4
  <2> QED BY <1>1, <1>2, <1>4, <2>1 DEF TiledTo, t
<1>5. CASE d.start # c.start
  <2>1. t.cutter = d /\ t.chunks = Append(r.chunks, x)
    BY <1>3, <1>5
  <2>2. x \in Chunk /\ x.start = c.start /\ x.size = d.start - c.start /\ LastByte(x) = d.start
    <3>1. x = [start |-> c.start, size |-> d.start - c.start]
      BY DEF ClosedChunk
    <3>2. /\ c.start \in Nat /\ d.start \in Nat /\ d.start - c.start \in Nat
          /\ c.start + (d.start - c.start) = d.start
      BY <1>1, <1>2, <1>5
    <3> QED BY <3>1, <3>2 DEF Chunk, LastByte
  <2> HIDE DEF x
  <2>3. /\ t.chunks \in Seq(Chunk) /\ Len(t.chunks) = Len(r.chunks) + 1
        /\ t.chunks[Len(r.chunks) + 1] = x /\ Contiguous(t.chunks, Len(r.chunks) + 1)
    BY <1>1, <2>1, <2>2, ContiguousAppend
  <2>4. Len(r.chunks) + 1 # 0
    BY <1>1, LenProperties
  <2> QED BY <1>1, <1>2, <1>5, <2>1, <2>2, <2>3, <2>4 DEF TiledTo, t
<1> QED BY <1>4, <1>5

(* So they are after any number of bytes ...                                  *)
LEMMA CuttingTiles ==
    ASSUME NEW bytes \in Seq(Byte)
    PROVE  \A k \in 0 .. Len(bytes) : TiledTo(Cutting(bytes, Len(bytes))[k], k)
<1> DEFINE n == Len(bytes)
           w == Cutting(bytes, n)
           bad == {k \in 0 .. n : ~TiledTo(w[k], k)}
<1> SUFFICES ASSUME bad # {} PROVE FALSE
  OBVIOUS
<1>1. n \in Nat /\ bad \subseteq Nat
  OBVIOUS
<1>2. PICK k \in bad : \A j \in bad : k <= j
  BY <1>1, LeastNat
<1>3. w[0] = Begun /\ \A j \in 1 .. n : w[j] = FedOne(w[j - 1], bytes[j], n)
  BY CuttingFeeds
<1> HIDE DEF w
<1>4. TiledTo(w[0], 0)
  <2>1. w[0].cutter = [pos |-> 0, start |-> 0, hash |-> 0] /\ w[0].chunks = <<>>
    BY <1>3 DEF Begun, Fresh
  <2>2. w[0].chunks \in Seq(Chunk) /\ Len(w[0].chunks) = 0
    BY <2>1, EmptySeq
  <2>3. Contiguous(w[0].chunks, Len(w[0].chunks))
    BY <2>2 DEF Contiguous
  <2> QED BY <2>1, <2>2, <2>3 DEF TiledTo
<1>5. k \in 1 .. n /\ k - 1 \in 0 .. n /\ k - 1 \notin bad
  BY <1>1, <1>2, <1>4
<1>6. TiledTo(w[k - 1], k - 1) /\ bytes[k] \in Byte /\ k - 1 \in Nat /\ k - 1 < n
  BY <1>1, <1>5
<1>7. TiledTo(FedOne(w[k - 1], bytes[k], n), (k - 1) + 1)
  BY <1>1, <1>6, FedTiles
<1> QED BY <1>1, <1>2, <1>3, <1>5, <1>7

(* ... and the chunks of a file follow each other from its first byte to its last *)
(* (chunk_and_hash_file).                                                     *)
LEMMA ChunksTile ==
    ASSUME NEW bytes \in Seq(Byte)
    PROVE  LET ls == ChunksOf(bytes, Len(bytes))
           IN  /\ ls \in Seq(Chunk) /\ Len(ls) \in Nat \ {0} /\ Contiguous(ls, Len(ls))
               /\ LastByte(ls[Len(ls)]) = Len(bytes)
<1> DEFINE n == Len(bytes)
           r == Cutting(bytes, n)[n]
           x == [start |-> r.cutter.start, size |-> n - r.cutter.start]
           ls == ChunksOf(bytes, n)
<1>1. n \in Nat
  OBVIOUS
<1>2. TiledTo(r, n)
  <2>1. n \in 0 .. n
    BY <1>1
  <2> QED BY <2>1, CuttingTiles
<1>3. ls = Append(r.chunks, x)
  BY DEF ChunksOf
<1> HIDE DEF r, ls
<1>4. /\ x \in Chunk /\ LastByte(x) = n
      /\ x.start = IF Len(r.chunks) = 0 THEN 0 ELSE LastByte(r.chunks[Len(r.chunks)])
  <2>1. /\ r.cutter.start \in Nat /\ r.cutter.start <= n
        /\ r.cutter.start = IF Len(r.chunks) = 0 THEN 0 ELSE LastByte(r.chunks[Len(r.chunks)])
    BY <1>2 DEF TiledTo
  <2>2. x.start = r.cutter.start /\ x.size = n - r.cutter.start
    OBVIOUS
  <2>3. x \in Chunk
    BY <1>1, <2>1 DEF Chunk
  <2>4. LastByte(x) = n
    BY <1>1, <2>1, <2>2 DEF LastByte
  <2> QED BY <2>1, <2>2, <2>3, <2>4
<1> HIDE DEF x
<1>5. /\ r.chunks \in Seq(Chunk) /\ Contiguous(r.chunks, Len(r.chunks)) /\ Len(r.chunks) \in Nat
  BY <1>2, LenProperties DEF TiledTo
<1>6. /\ ls \in Seq(Chunk) /\ Len(ls) = Len(r.chunks) + 1
      /\ ls[Len(r.chunks) + 1] = x /\ Contiguous(ls, Len(r.chunks) + 1)
  BY <1>3, <1>4, <1>5, ContiguousAppend
<1> QED BY <1>4, <1>5, <1>6 DEF ls

(* Every byte fed moves the cutter on by one place.                           *)
LEMMA FeedMoves ==
    ASSUME NEW c \in [pos : Nat, start : Nat, hash : Nat], NEW b \in Byte, NEW size
    PROVE  /\ Feed(c, b, size) \in [pos : Nat, start : Nat, hash : Nat]
           /\ Feed(c, b, size).pos = c.pos + 1
<1>1. Rolled(c.hash, b) \in Nat
  BY RolledIsNat
<1> DEFINE h == Rolled(c.hash, b)
           cut == WantsCut(c.pos + 1 - c.start, c.pos + 1, size, h) /\ EnoughLeft(c.pos + 1, size)
<1>2. Feed(c, b, size) = IF cut THEN [pos |-> c.pos + 1, start |-> c.pos + 1, hash |-> 0]
                         ELSE [pos |-> c.pos + 1, start |-> c.start, hash |-> h]
  BY DEF Feed
<1> HIDE DEF cut, h
<1> QED BY <1>1, <1>2 DEF h

(* The states a cutter can be in.                                             *)
CutterState == [pos : Nat, start : Nat, hash : Nat]
(* The function Fed is defined with: the cutter c after each of n bytes.      *)
IsFed(f, n, c, bytes, size) ==
    f = [k \in 0 .. n |-> IF k = 0 THEN c ELSE Feed(f[k - 1], bytes[k], size)]

(* There is such a function for every n.                                      *)
LEMMA FedExists ==
    ASSUME NEW c, NEW bytes, NEW size, NEW n \in Nat
    PROVE  \E f : IsFed(f, n, c, bytes, size)
  <1> DEFINE bad == {m \in Nat : ~ \E f : IsFed(f, m, c, bytes, size)}
  <1> SUFFICES ASSUME bad # {} PROVE FALSE
    OBVIOUS
  <1>1. PICK m \in bad : \A k \in bad : m <= k
    BY LeastNat
  <1>2. m # 0
    <2> DEFINE f == [k \in 0 .. 0 |-> c]
    <2>1. IsFed(f, 0, c, bytes, size)
      BY DEF IsFed
    <2> QED
      BY <1>1, <2>1
  <1>3. m \in Nat /\ m - 1 \in Nat /\ m - 1 \notin bad
    BY <1>1, <1>2
  <1>4. PICK g : IsFed(g, m - 1, c, bytes, size)
    BY <1>3
  <1> DEFINE f == [k \in 0 .. m |-> IF k = m THEN Feed(g[m - 1], bytes[m], size) ELSE g[k]]
  <1>5. \A k \in 0 .. m - 1 : f[k] = g[k]
    BY <1>3
  <1>6. ASSUME NEW k \in 0 .. m
        PROVE  f[k] = IF k = 0 THEN c ELSE Feed(f[k - 1], bytes[k], size)
    <2>1. CASE k = m
      BY <1>2, <1>3, <1>5, <2>1
    <2>2. CASE k # m
      <3>1. k \in 0 .. m - 1 /\ (k # 0 => k - 1 \in 0 .. m - 1)
        BY <1>3, <2>2
      <3>2. g[k] = IF k = 0 THEN c ELSE Feed(g[k - 1], bytes[k], size)
        BY <1>4, <3>1, Zenon DEF IsFed
      <3> QED
        BY <1>5, <3>1, <3>2
    <2> QED
      BY <2>1, <2>2
  <1>7. f = [k \in 0 .. m |-> f[k]]
    OBVIOUS
  <1> HIDE DEF f
  <1>8. IsFed(f, m, c, bytes, size)
    BY <1>6, <1>7 DEF IsFed
  <1> QED
    BY <1>1, <1>8

(* The cutter fed from c is k places on after k bytes.                        *)
LEMMA FedMoves ==
    ASSUME NEW c \in CutterState, NEW bytes \in Seq(Byte), NEW size
    PROVE  \A k \in 0 .. Len(bytes) :
              /\ Fed(c, bytes, size)[k] \in CutterState
              /\ Fed(c, bytes, size)[k].pos = c.pos + k
<1> DEFINE n == Len(bytes)
           w == Fed(c, bytes, size)
           bad == {k \in 0 .. n : ~(w[k] \in CutterState /\ w[k].pos = c.pos + k)}
<1> SUFFICES ASSUME bad # {} PROVE FALSE
  OBVIOUS
<1>1. n \in Nat /\ bad \subseteq Nat /\ c.pos \in Nat
  BY DEF CutterState
<1>2. PICK k \in bad : \A j \in bad : k <= j
  BY <1>1, LeastNat
<1>3. w = CHOOSE f : IsFed(f, n, c, bytes, size)
  BY DEF Fed, IsFed
<1>4. IsFed(w, n, c, bytes, size)
  <2>1. \E f : IsFed(f, n, c, bytes, size)
    BY <1>1, FedExists
  <2> HIDE DEF w
  <2> QED BY <1>3, <2>1, Zenon
<1> HIDE DEF w
<1>5. w = [j \in 0 .. n |-> IF j = 0 THEN c ELSE Feed(w[j - 1], bytes[j], size)]
  BY <1>4, Zenon DEF IsFed
<1>6. w[0] = c /\ \A j \in 1 .. n : w[j] = Feed(w[j - 1], bytes[j], size)
  <2>1. 0 \in 0 .. n /\ \A j \in 1 .. n : j \in 0 .. n /\ j # 0
    BY <1>1
  <2> QED BY <1>5, <2>1, Zenon
<1>7. 0 \notin bad
  BY <1>1, <1>6
<1>8. k \in 1 .. n /\ k - 1 \in 0 .. n /\ k - 1 \notin bad
  BY <1>1, <1>2, <1>7
<1>9. w[k - 1] \in CutterState /\ w[k - 1].pos = c.pos + (k - 1) /\ bytes[k] \in Byte
  BY <1>1, <1>8
<1>10. w[k] \in CutterState /\ w[k].pos = w[k - 1].pos + 1
  <2>1. w[k] = Feed(w[k - 1], bytes[k], size)
    BY <1>6, <1>8
  <2> QED BY <1>9, <2>1, FeedMoves DEF CutterState
<1>11. w[k].pos = c.pos + k
  BY <1>1, <1>8, <1>9, <1>10
<1> QED BY <1>2, <1>10, <1>11

(* What stage_cdc reads as the next chunk: the bytes from the place of the cutter *)
(* on, which moves by as many; the last chunk takes all that is left.         *)
LEMMA NextChunkReads ==
    ASSUME file \in Seq(Byte), job.cutter \in CutterState
    PROVE  LET rest == SubSeq(file, job.cutter.pos + 1, Len(file))
           IN  /\ rest \in Seq(Byte)
               /\ \E n \in 0 .. Len(rest) :
                     /\ NextChunk.bytes = SubSeq(rest, 1, n) /\ NextChunk.bytes \in Seq(Byte)
                     /\ NextChunk.cutter \in CutterState
                     /\ NextChunk.cutter.pos = job.cutter.pos + n
                     /\ NextChunk.last \in BOOLEAN /\ NextChunk.last => n = Len(rest)
<1> DEFINE rest == SubSeq(file, job.cutter.pos + 1, Len(file))
           after == Fed(job.cutter, rest, job.size)
           cuts == {n \in 1 .. Len(rest) : after[n].start # job.cutter.start}
           n == IF cuts = {} THEN Len(rest) ELSE CHOOSE c \in cuts : \A d \in cuts : c <= d
<1>1. job.cutter.pos \in Nat /\ Len(file) \in Nat
  BY DEF CutterState
<1>2. rest \in Seq(Byte) /\ Len(rest) \in Nat
  <2>1. \A i \in job.cutter.pos + 1 .. Len(file) : file[i] \in Byte
    BY <1>1
  <2>2. rest \in Seq(Byte)
    BY <1>1, <2>1, SubSeqProperties
  <2> HIDE DEF rest
  <2> QED BY <2>2
<1>3. NextChunk = [bytes |-> SubSeq(rest, 1, n), cutter |-> after[n], last |-> cuts = {}]
  BY DEF NextChunk
<1> HIDE DEF rest, after
<1>4. n \in 0 .. Len(rest)
  <2>1. CASE cuts = {}
    BY <1>2, <2>1
  <2>2. CASE cuts # {}
    <3>1. cuts \subseteq Nat /\ cuts \subseteq 1 .. Len(rest)
      OBVIOUS
    <3> HIDE DEF cuts
    <3>2. \E c \in cuts : \A d \in cuts : c <= d
      BY <2>2, <3>1, LeastNat
    <3>3. n \in cuts
      BY <2>2, <3>2, Zenon
    <3> HIDE DEF n
    <3> QED BY <1>2, <3>1, <3>3
  <2> QED BY <2>1, <2>2
<1>5. cuts = {} => n = Len(rest)
  OBVIOUS
<1> HIDE DEF cuts, n
<1>6. after[n] \in CutterState /\ after[n].pos = job.cutter.pos + n
  BY <1>2, <1>4, FedMoves DEF after
<1>7. SubSeq(rest, 1, n) \in Seq(Byte)
  <2>1. \A i \in 1 .. n : rest[i] \in Byte
    BY <1>2, <1>4
  <2>2. 1 \in Int /\ n \in Int
    BY <1>4
  <2> QED BY <2>1, <2>2, SubSeqProperties
<1>8. \E x \in BOOLEAN : x = (cuts = {})
  OBVIOUS
<1>9. PICK x \in BOOLEAN : x = (cuts = {})
  BY <1>8
<1>10. /\ NextChunk.bytes = SubSeq(rest, 1, n) /\ NextChunk.cutter = after[n] /\ NextChunk.last = x
  BY <1>3, <1>9
<1> QED BY <1>2, <1>4, <1>5, <1>6, <1>7, <1>9, <1>10 DEF rest

(* What is left of a sequence after its first k members.                      *)
LEMMA Suffix ==
    ASSUME NEW S, NEW ls \in Seq(S), NEW k \in 0 .. Len(ls), NEW t, t = SubSeq(ls, k + 1, Len(ls))
    PROVE  /\ t \in Seq(S) /\ Len(t) = Len(ls) - k
           /\ t # <<>> => /\ k + 1 \in 1 .. Len(ls) /\ Head(t) = ls[k + 1]
                          /\ Tail(t) = SubSeq(ls, k + 2, Len(ls))
<1>1. Len(ls) \in Nat /\ \A i \in k + 1 .. Len(ls) : ls[i] \in S
  BY LenProperties, ElementOfSeq
<1>2. t \in Seq(S) /\ Len(t) = Len(ls) - k
  <2>1. /\ k + 1 \in Int /\ Len(ls) \in Int
        /\ (IF k + 1 <= Len(ls) THEN Len(ls) - (k + 1) + 1 ELSE 0) = Len(ls) - k
    BY <1>1
  <2> QED BY <1>1, <2>1, SubSeqProperties
<1>3. ASSUME t # <<>>
      PROVE  k + 1 \in 1 .. Len(ls) /\ Head(t) = ls[k + 1] /\ Tail(t) = SubSeq(ls, k + 2, Len(ls))
  <2>1. Len(t) # 0
    BY <1>2, <1>3, EmptySeq
  <2>2. k + 1 \in 1 .. Len(ls) /\ Len(ls) \in k + 1 .. Len(ls) /\ (k + 1) + 1 = k + 2
    BY <1>1, <1>2, <2>1
  <2> QED BY <2>2, HeadTailOfSubSeq
<1> QED BY <1>2, <1>3

(* Where a staging can be.                                                    *)
Label == {"idle", "hashAndPublish", "fusedLayers", "walk", "splitLayers", "hashLayers", "copyLayers",
          "fusedChunks", "cutting", "splitChunks", "hashChunks", "copyChunks", "rehash",
          "hashWhole", "copyWhole"}
(* The types of a staging and of an entry.                                    *)
JobState == [pc : Label, size : Nat, cutter : CutterState, parts : Seq(Seq(Byte)),
             whole : Seq(Byte), todo : Seq(Chunk), seen : Nat]
SplitName == {"none", "layers", "chunks", "whole", "small"}
EntryState == [whole : Seq(Byte), parts : Seq(Seq(Byte)), split : SplitName, seen : Nat]

(* The types of the state. What was seen was written; the header is in the file. *)
StagingTyped ==
    /\ file \in Seq(Byte) /\ layout \in Seq(Chunk) /\ writes \in Nat
    /\ job \in JobState /\ job.seen <= writes
    /\ entry \in EntryState /\ entry.seen <= writes
    /\ kind \in {"layers", "chunks", "whole", "small"} /\ raced \in BOOLEAN
    /\ kind = "layers" => Base <= Len(file)

(* Every object holds the bytes it is named after.                            *)
Named(o) == \A name \in DOMAIN o : o[name] = name

(* In what follows f is the file, ls its layers (or chunks), D the names of the *)
(* objects, w the number of writes and k the kind of the file: every part named is *)
(* in the store; what a layer holds; the parts are what the layers hold; the layers *)
(* lie in the file; the file begins with these bytes.                         *)
Findable(parts, D) == \A i \in 1 .. Len(parts) : parts[i] \in D
Slice(f, l) == SubSeq(f, l.start + 1, LastByte(l))
Sliced(parts, f, ls) == /\ Len(parts) = Len(ls)
                        /\ \A i \in 1 .. Len(ls) : parts[i] = Slice(f, ls[i])
Inside(ls, f) == \A i \in 1 .. Len(ls) : LastByte(ls[i]) <= Len(f)
Begins(f, bytes) == Len(bytes) <= Len(f) /\ bytes = SubSeq(f, 1, Len(bytes))

(* stage_safetensors between two layers: what was read ends with the last layer *)
(* stored, which are the first ones of the header; without a gap so far the parts *)
(* are what was read; and if nobody wrote, the file begins with it.           *)
Walking(j, D, f, ls, w) ==
    /\ ~Overlapping(ls) /\ Len(j.parts) \in 1 .. Len(ls)
    /\ j.todo = SubSeq(ls, Len(j.parts) + 1, Len(ls))
    /\ Len(j.whole) = LastByte(ls[Len(j.parts)]) /\ Findable(j.parts, D)
    /\ Contiguous(ls, Len(j.parts)) => FlattenSeq(j.parts) = j.whole
    /\ j.seen = w => j.size = Len(f) /\ Begins(f, j.whole)

(* stage_cdc between two chunks: the parts are what was read, and if nobody wrote, *)
(* the file begins with it and the cutter stands at its end.                  *)
CuttingOn(j, D, f, w) ==
    /\ Findable(j.parts, D) /\ FlattenSeq(j.parts) = j.whole
    /\ j.seen = w => Begins(f, j.whole) /\ j.cutter.pos = Len(j.whole)

(* The second read of a split: the parts were hashed from the layers as they still *)
(* are, and those before the ones to do are in the store.                     *)
Copying(j, D, f, ls) ==
    /\ Inside(ls, f) /\ Sliced(j.parts, f, ls) /\ Len(j.todo) \in 1 .. Len(ls)
    /\ j.todo = SubSeq(ls, Len(ls) - Len(j.todo) + 1, Len(ls))
    /\ \A i \in 1 .. Len(ls) - Len(j.todo) : j.parts[i] \in D

(* After it: the parts are all stored, and they are those of the file, unless some *)
(* layers were left out for want of room.                                     *)
Copied(j, D, f, k, ls) ==
    /\ Findable(j.parts, D) /\ j.parts # <<>> /\ k \in {"layers", "chunks"}
    /\ k = "layers" /\ Len(j.parts) = Len(ls) => Inside(ls, f) /\ Sliced(j.parts, f, ls)
    /\ k = "chunks" => /\ Inside(ChunksOf(f, Len(f)), f) /\ Sliced(j.parts, f, ChunksOf(f, Len(f)))

(* What each route has done so far, if nobody wrote between its two reads.    *)
JobSound(j, D, f, k, ls, w) ==
    /\ j.pc \in {"fusedLayers", "walk", "splitLayers", "hashLayers", "copyLayers"} => k = "layers"
    /\ j.pc \in {"fusedChunks", "cutting", "splitChunks", "hashChunks", "copyChunks"} => k = "chunks"
    /\ j.pc = "fusedChunks" => j.parts = <<>> /\ j.whole = <<>> /\ j.cutter = Fresh
    /\ j.pc = "walk" => Walking(j, D, f, ls, w)
    /\ j.pc = "cutting" => CuttingOn(j, D, f, w)
    /\ j.pc = "hashLayers" => j.todo = ls
    /\ j.pc = "hashChunks" => j.todo = ChunksOf(f, Len(f))
    /\ j.pc = "copyLayers" => Copying(j, D, f, ls)
    /\ j.pc = "copyChunks" => Copying(j, D, f, ChunksOf(f, Len(f)))
    /\ j.pc = "rehash" => Copied(j, D, f, k, ls)
    /\ j.pc = "copyWhole" => j.whole = f

(* What an entry names is in the store, is the file if nobody wrote since, and its *)
(* parts put together are the whole it names.                                 *)
EntryKept(e, D, f, ls, w) ==
    /\ e.parts = <<>> => e.whole \in D
    /\ Findable(e.parts, D)
    /\ e.seen = w => e.whole = f
    /\ e.parts # <<>> /\ (e.split = "layers" => Tiled(ls, Len(e.whole)) /\ Len(e.parts) = Len(ls))
       => FlattenSeq(e.parts) = e.whole

(* The inductive invariant of a staging.                                      *)
StagingInv ==
    /\ StagingTyped
    /\ ~raced => /\ Named(objects)
                 /\ JobSound(job, DOMAIN objects, file, kind, LayersOf, writes)
                 /\ entry # NoEntry => EntryKept(entry, DOMAIN objects, file, LayersOf, writes)

(* With it, materialize_file of the entry gives back what was added.          *)
LEMMA RestoredWhole == StagingInv => EntryRestores
<1> SUFFICES ASSUME StagingInv, entry # NoEntry, ~raced,
                    entry.split = "layers" => /\ Tiled(LayersOf, Len(entry.whole))
                                              /\ Len(entry.parts) = Len(LayersOf)
             PROVE  Restored(entry) = entry.whole /\ (entry.seen = writes => entry.whole = file)
  BY DEF EntryRestores
<1>1. Named(objects) /\ EntryKept(entry, DOMAIN objects, file, LayersOf, writes) /\ entry \in EntryState
  BY DEF StagingInv, StagingTyped
<1>2. CASE entry.parts = <<>>
  BY <1>1, <1>2 DEF Restored, EntryKept, Named
<1>3. CASE entry.parts # <<>>
  <2> DEFINE ps == entry.parts
             os == [i \in 1 .. Len(ps) |-> objects[ps[i]]]
  <2>1. ps \in Seq(Seq(Byte)) /\ Len(ps) \in Nat /\ ps = [i \in 1 .. Len(ps) |-> ps[i]]
    BY <1>1 DEF EntryState
  <2>2. \A i \in 1 .. Len(ps) : objects[ps[i]] = ps[i]
    BY <1>1 DEF Named, EntryKept, Findable
  <2>3. os = ps
    <3> HIDE DEF ps
    <3> QED BY <2>1, <2>2
  <2>4. FlattenSeq(ps) = entry.whole
    BY <1>1, <1>3 DEF EntryKept
  <2>5. Restored(entry) = FlattenSeq(os)
    BY <1>3 DEF Restored
  <2> HIDE DEF os
  <2> QED BY <1>1, <2>3, <2>4, <2>5 DEF EntryKept
<1> QED BY <1>2, <1>3

(* The layers of a file: its header first.                                    *)
LEMMA LayersTyped ==
    ASSUME StagingTyped
    PROVE  /\ LayersOf \in Seq(Chunk) /\ Len(LayersOf) = Len(layout) + 1 /\ Len(LayersOf) \in Nat \ {0}
           /\ LayersOf[1] = [start |-> 0, size |-> Base] /\ LastByte(LayersOf[1]) = Base /\ Base \in Nat
           /\ Header \in Seq(Byte)
<1>1. Header \in Seq(Byte) /\ Base \in Nat
  BY StagingAssumption DEF Base
<1>2. [start |-> 0, size |-> Base] \in Chunk /\ layout \in Seq(Chunk)
  BY <1>1 DEF Chunk, StagingTyped
<1> DEFINE h == [start |-> 0, size |-> Base]
<1>3. LayersOf = <<h>> \o layout
  BY DEF LayersOf
<1>4. LastByte(h) = Base
  BY <1>1 DEF LastByte
<1> HIDE DEF h
<1>5. <<h>> \in Seq(Chunk) /\ Len(<<h>>) = 1 /\ <<h>>[1] = h
  BY <1>2 DEF h
<1>6. LayersOf \in Seq(Chunk) /\ Len(LayersOf) = 1 + Len(layout) /\ LayersOf[1] = h /\ Len(layout) \in Nat
  BY <1>2, <1>3, <1>5, ConcatProperties, LenProperties
<1> QED BY <1>1, <1>4, <1>6 DEF h

(* Publishing adds the name, and bytes under their own name keep the store named. *)
LEMMA PublishedAdds ==
    ASSUME NEW name, NEW bytes
    PROVE  /\ DOMAIN Published(name, bytes) = DOMAIN objects \union {name}
           /\ Named(objects) /\ bytes = name => Named(Published(name, bytes))
BY DEF Published, Named

(* More objects keep an entry restorable.                                     *)
LEMMA EntryStaysKept ==
    ASSUME NEW e, NEW D, NEW E, D \subseteq E, NEW f, NEW ls, NEW w, EntryKept(e, D, f, ls, w)
    PROVE  EntryKept(e, E, f, ls, w)
BY DEF EntryKept, Findable

(* A step of a staging that leaves the file and its entry alone.              *)
Still == UNCHANGED <<file, kind, layout, entry, raced, writes>>

(* Such a step keeps the invariant if the staging is sound after it.          *)
LEMMA JobMoves ==
    ASSUME StagingInv, Still, job' \in JobState, job'.seen <= writes,
           DOMAIN objects \subseteq DOMAIN objects',
           ~raced => /\ Named(objects')
                     /\ JobSound(job', DOMAIN objects', file, kind, LayersOf, writes)
    PROVE  StagingInv'
<1>1. /\ file' = file /\ kind' = kind /\ layout' = layout /\ entry' = entry /\ raced' = raced
      /\ writes' = writes /\ LayersOf' = LayersOf
  BY DEF Still, LayersOf
<1>2. StagingTyped'
  BY <1>1 DEF StagingInv, StagingTyped
<1>3. ASSUME ~raced, entry # NoEntry PROVE EntryKept(entry, DOMAIN objects', file, LayersOf, writes)
  BY <1>3, EntryStaysKept DEF StagingInv
<1> QED BY <1>1, <1>2, <1>3 DEF StagingInv

(* No staging is a staging in its types.                                      *)
LEMMA IdleTyped == IdleJob \in JobState /\ IdleJob.seen = 0 /\ IdleJob.pc = "idle"
<1>1. <<>> \in Seq(Seq(Byte)) /\ <<>> \in Seq(Byte) /\ <<>> \in Seq(Chunk)
  BY EmptySeq
<1>2. Fresh \in CutterState
  BY DEF Fresh, CutterState
<1> DEFINE none == <<>>
<1>3. IdleJob = [pc |-> "idle", size |-> 0, cutter |-> Fresh, parts |-> none,
                 whole |-> none, todo |-> none, seen |-> 0]
  BY DEF IdleJob
<1>4. none \in Seq(Seq(Byte)) /\ none \in Seq(Byte) /\ none \in Seq(Chunk)
  BY <1>1
<1>5. "idle" \in Label /\ 0 \in Nat
  BY DEF Label
<1> HIDE DEF none
<1> QED BY <1>2, <1>3, <1>4, <1>5 DEF JobState

(* A step that ends a staging keeps the invariant if the entry it makes is sound. *)
LEMMA EntryMade ==
    ASSUME StagingInv, NEW bytes \in Seq(Byte), NEW parts \in Seq(Seq(Byte)), NEW split \in SplitName,
           Staged(bytes, parts, split),
           ~raced => /\ Named(objects')
                     /\ EntryKept([whole |-> bytes, parts |-> parts, split |-> split, seen |-> job.seen],
                                  DOMAIN objects', file, LayersOf, writes)
    PROVE  StagingInv'
<1>1. /\ file' = file /\ kind' = kind /\ layout' = layout /\ raced' = raced
      /\ writes' = writes /\ LayersOf' = LayersOf /\ job' = IdleJob
      /\ entry' = [whole |-> bytes, parts |-> parts, split |-> split, seen |-> job.seen]
  BY DEF Staged, LayersOf
<1>2. job.seen \in Nat /\ job.seen <= writes /\ writes \in Nat
  BY DEF StagingInv, StagingTyped, JobState
<1>3. entry' \in EntryState /\ entry'.seen <= writes
  BY <1>1, <1>2 DEF EntryState
<1>4. job' \in JobState /\ job'.seen <= writes /\ job'.pc = "idle"
  BY <1>1, <1>2, IdleTyped
<1>5. StagingTyped'
  BY <1>1, <1>3, <1>4 DEF StagingInv, StagingTyped
<1>6. JobSound(job', DOMAIN objects', file, kind, LayersOf, writes)
  BY <1>4 DEF JobSound
<1> QED BY <1>1, <1>5, <1>6 DEF StagingInv

(* A route that starts over is in its types, with nothing read.               *)
LEMMA RestartTyped ==
    ASSUME StagingTyped, NEW l \in Label
    PROVE  /\ Restart(l) \in JobState /\ Restart(l).seen = job.seen /\ Restart(l).pc = l
           /\ Restart(l).parts = <<>> /\ Restart(l).whole = <<>> /\ Restart(l).cutter = Fresh
           /\ Restart(l).todo = <<>>
<1> DEFINE none == <<>>
<1>1. Restart(l) = [pc |-> l, size |-> 0, cutter |-> Fresh, parts |-> none,
                    whole |-> none, todo |-> none, seen |-> job.seen]
  <2>1. IdleJob = [pc |-> "idle", size |-> 0, cutter |-> Fresh, parts |-> none,
                   whole |-> none, todo |-> none, seen |-> 0]
    BY DEF IdleJob
  <2>2. Restart(l) = [IdleJob EXCEPT !.pc = l, !.seen = job.seen]
    BY DEF Restart
  <2> HIDE DEF none
  <2> QED BY <2>1, <2>2
<1>2. none \in Seq(Seq(Byte)) /\ none \in Seq(Byte) /\ none \in Seq(Chunk)
  BY EmptySeq
<1>3. Fresh \in CutterState /\ job.seen \in Nat /\ 0 \in Nat
  BY DEF Fresh, CutterState, StagingTyped, JobState
<1> HIDE DEF none
<1>4. Restart(l) \in JobState
  BY <1>1, <1>2, <1>3 DEF JobState
<1> QED BY <1>1, <1>4 DEF none

(* A route given up for another one of the same kind, or for the whole file, keeps *)
(* the invariant (the fallbacks of _compute_stage_result).                    *)
LEMMA RestartMoves ==
    ASSUME StagingInv, Still, NEW l \in Label, job' = Restart(l), UNCHANGED objects,
           \/ l \in {"idle", "hashAndPublish", "hashWhole"}
           \/ l \in {"fusedLayers", "splitLayers"} /\ (~raced => kind = "layers")
           \/ l \in {"fusedChunks", "splitChunks"} /\ (~raced => kind = "chunks")
    PROVE  StagingInv'
<1>1. StagingTyped /\ job.seen <= writes
  BY DEF StagingInv, StagingTyped
<1>2. /\ job' \in JobState /\ job'.seen = job.seen /\ job'.pc = l
      /\ job'.parts = <<>> /\ job'.whole = <<>> /\ job'.cutter = Fresh
  BY <1>1, RestartTyped
<1>3. ~raced => JobSound(job', DOMAIN objects', file, kind, LayersOf, writes)
  BY <1>2 DEF JobSound
<1>4. ~raced => Named(objects')
  BY DEF StagingInv
<1> QED BY <1>1, <1>2, <1>3, <1>4, JobMoves

(* Each step keeps the invariant: `av add` of a file starts.                  *)
LEMMA StartAddKeeps == ASSUME StagingInv, StartAdd PROVE StagingInv'
<1>1. /\ file' = file /\ kind' = kind /\ layout' = layout /\ raced' = raced
      /\ writes' = writes /\ LayersOf' = LayersOf /\ entry' = entry /\ objects' = objects
      /\ job' = [IdleJob EXCEPT !.pc = FirstRoute, !.seen = writes]
  BY DEF StartAdd, LayersOf
<1>2. StagingTyped /\ writes \in Nat
  BY DEF StagingInv, StagingTyped
<1>3. /\ FirstRoute \in {"hashWhole", "hashAndPublish", "fusedLayers", "splitLayers",
                         "fusedChunks", "splitChunks"}
      /\ FirstRoute \in {"fusedLayers", "splitLayers"} => kind = "layers"
      /\ FirstRoute \in {"fusedChunks", "splitChunks"} => kind = "chunks"
  BY DEF FirstRoute
<1>4. FirstRoute \in Label
  BY <1>3 DEF Label
<1> DEFINE none == <<>>
<1>5. job' = [pc |-> FirstRoute, size |-> 0, cutter |-> Fresh, parts |-> none,
              whole |-> none, todo |-> none, seen |-> writes]
  BY <1>1 DEF IdleJob
<1>6. none \in Seq(Seq(Byte)) /\ none \in Seq(Byte) /\ none \in Seq(Chunk)
  BY EmptySeq
<1>7. Fresh \in CutterState /\ 0 \in Nat
  BY DEF Fresh, CutterState
<1> HIDE DEF none
<1>8. job' \in JobState /\ job'.seen <= writes
  BY <1>2, <1>4, <1>5, <1>6, <1>7 DEF JobState
<1>9. JobSound(job', DOMAIN objects, file, kind, LayersOf, writes)
  BY <1>3, <1>5 DEF JobSound, none
<1>10. StagingTyped'
  BY <1>1, <1>2, <1>8 DEF StagingTyped
<1> QED BY <1>1, <1>9, <1>10 DEF StagingInv

(* A read of a layer that lies in the file gives its bytes, all of them.      *)
LEMMA ReadIsSlice ==
    ASSUME StagingTyped, NEW l \in Chunk
    PROVE  /\ BytesOf(l.start, l.size) \in Seq(Byte)
           /\ LastByte(l) <= Len(file) => /\ BytesOf(l.start, l.size) = Slice(file, l)
                                           /\ Len(Slice(file, l)) = l.size
<1>1. /\ l.start \in Nat /\ l.size \in Nat /\ Len(file) \in Nat /\ file \in Seq(Byte)
      /\ \A i \in 1 .. Len(file) : file[i] \in Byte
  BY ElementOfSeq, LenProperties DEF StagingTyped, Chunk
<1> DEFINE z == IF l.start + l.size < Len(file) THEN l.start + l.size ELSE Len(file)
<1>2. z \in Int /\ l.start + 1 \in Int /\ \A i \in l.start + 1 .. z : file[i] \in Byte
  BY <1>1
<1>3. LastByte(l) <= Len(file) =>
         /\ z = LastByte(l)
         /\ (IF l.start + 1 <= z THEN z - (l.start + 1) + 1 ELSE 0) = l.size
  BY <1>1 DEF LastByte
<1>4. BytesOf(l.start, l.size) = SubSeq(file, l.start + 1, z)
  BY DEF BytesOf
<1> HIDE DEF z
<1>5. /\ BytesOf(l.start, l.size) \in Seq(Byte)
      /\ Len(BytesOf(l.start, l.size)) = IF l.start + 1 <= z THEN z - (l.start + 1) + 1 ELSE 0
  BY <1>2, <1>4, SubSeqProperties
<1> QED BY <1>3, <1>4, <1>5 DEF Slice

(* Any read gives bytes.                                                      *)
LEMMA ReadTyped ==
    ASSUME StagingTyped, NEW a \in Nat, NEW n \in Int
    PROVE  BytesOf(a, n) \in Seq(Byte)
<1>1. /\ Len(file) \in Nat /\ \A i \in 1 .. Len(file) : file[i] \in Byte
  BY ElementOfSeq, LenProperties DEF StagingTyped
<1> DEFINE z == IF a + n < Len(file) THEN a + n ELSE Len(file)
<1>2. z \in Int /\ a + 1 \in Int /\ \A i \in a + 1 .. z : file[i] \in Byte
  BY <1>1
<1>3. BytesOf(a, n) = SubSeq(file, a + 1, z)
  BY DEF BytesOf
<1> HIDE DEF z
<1> QED BY <1>2, <1>3, SubSeqProperties

(* A small file is read once (hash_and_publish_whole_file).                   *)
LEMMA HashAndPublishKeeps == ASSUME StagingInv, HashAndPublish PROVE StagingInv'
<1>1. objects' = Published(file, file) /\ Staged(file, <<>>, "whole") /\ file \in Seq(Byte)
  BY DEF HashAndPublish, StagingInv, StagingTyped
<1>2. DOMAIN objects' = DOMAIN objects \union {file} /\ (Named(objects) => Named(objects'))
  BY <1>1, PublishedAdds
<1> DEFINE none == <<>>
<1>3. none \in Seq(Seq(Byte)) /\ Len(none) = 0
  BY EmptySeq
<1> DEFINE e == [whole |-> file, parts |-> none, split |-> "whole", seen |-> job.seen]
<1>4. EntryKept(e, DOMAIN objects', file, LayersOf, writes)
  BY <1>2, <1>3 DEF EntryKept, Findable
<1>5. ~raced => Named(objects')
  BY <1>2 DEF StagingInv
<1>7. "whole" \in SplitName
  BY DEF SplitName
<1> QED BY <1>1, <1>3, <1>4, <1>5, <1>7, EntryMade

(* An artifact stored whole is hashed ...                                     *)
LEMMA HashWholeKeeps == ASSUME StagingInv, HashWhole PROVE StagingInv'
<1>1. /\ job \in JobState /\ file \in Seq(Byte) /\ job.seen <= writes /\ objects' = objects
      /\ Still
  BY DEF StagingInv, StagingTyped, HashWhole, Quiet, Still
<1>2. job' \in JobState /\ job'.seen = job.seen /\ job'.pc = "copyWhole" /\ job'.whole = file
  BY <1>1 DEF HashWhole, JobState, Label
<1>3. JobSound(job', DOMAIN objects', file, kind, LayersOf, writes)
  BY <1>2 DEF JobSound
<1>4. ~raced => Named(objects')
  BY <1>1 DEF StagingInv
<1> QED BY <1>1, <1>2, <1>3, <1>4, JobMoves

(* ... and copied from a second read.                                         *)
LEMMA CopyWholeKeeps == ASSUME StagingInv, CopyWhole PROVE StagingInv'
<1> DEFINE name == job.whole
<1>1. /\ objects' = Published(name, file) /\ Staged(name, <<>>, "whole") /\ name \in Seq(Byte)
      /\ ~raced => name = file /\ Named(objects)
  BY DEF CopyWhole, StagingInv, StagingTyped, JobState, JobSound
<1> HIDE DEF name
<1>2. /\ DOMAIN objects' = DOMAIN objects \union {name}
      /\ Named(objects) /\ file = name => Named(objects')
  BY <1>1, PublishedAdds
<1> DEFINE none == <<>>
<1>3. none \in Seq(Seq(Byte)) /\ Len(none) = 0
  BY EmptySeq
<1> DEFINE e == [whole |-> name, parts |-> none, split |-> "whole", seen |-> job.seen]
<1>4. ~raced => EntryKept(e, DOMAIN objects', file, LayersOf, writes)
  BY <1>1, <1>2, <1>3 DEF EntryKept, Findable
<1>5. ~raced => Named(objects')
  BY <1>1, <1>2
<1>7. "whole" \in SplitName
  BY DEF SplitName
<1> QED BY <1>1, <1>3, <1>4, <1>5, <1>7, EntryMade

(* The layers are those of the header (split_and_hash_safetensors).           *)
LEMMA SplitLayersKeeps == ASSUME StagingInv, SplitLayers PROVE StagingInv'
<1>1. /\ StagingTyped /\ job.pc = "splitLayers" /\ UNCHANGED objects /\ Still
      /\ job.seen <= writes
      /\ ~raced => kind = "layers" /\ Named(objects)
  BY DEF StagingInv, SplitLayers, JobSound, StagingTyped, Quiet, Still
<1>2. CASE job' = Restart("hashWhole")
  <2>1. "hashWhole" \in Label
    BY DEF Label
  <2> QED BY <1>1, <1>2, <2>1, RestartMoves
<1>3. CASE job' = [Restart("hashLayers") EXCEPT !.todo = LayersOf]
  <2>1. "hashLayers" \in Label
    BY DEF Label
  <2>2. /\ Restart("hashLayers") \in JobState /\ Restart("hashLayers").pc = "hashLayers"
        /\ Restart("hashLayers").seen = job.seen
    BY <1>1, <2>1, RestartTyped
  <2>3. LayersOf \in Seq(Chunk)
    BY <1>1, LayersTyped
  <2>4. job' \in JobState /\ job'.pc = "hashLayers" /\ job'.todo = LayersOf /\ job'.seen = job.seen
    BY <1>3, <2>2, <2>3 DEF JobState
  <2>5. ~raced => JobSound(job', DOMAIN objects', file, kind, LayersOf, writes)
    BY <1>1, <2>4 DEF JobSound
  <2> QED BY <1>1, <2>4, <2>5, JobMoves
<1> QED BY <1>2, <1>3 DEF SplitLayers

(* The chunks are those of the cutter (chunk_and_hash_file).                  *)
LEMMA SplitChunksKeeps == ASSUME StagingInv, SplitChunks PROVE StagingInv'
<1>1. /\ StagingTyped /\ job.pc = "splitChunks" /\ UNCHANGED objects /\ Still
      /\ job.seen <= writes /\ file \in Seq(Byte)
      /\ ~raced => kind = "chunks" /\ Named(objects)
  BY DEF StagingInv, SplitChunks, JobSound, StagingTyped, Quiet, Still
<1> DEFINE ls == ChunksOf(file, Len(file))
<1>2. job' = [Restart("hashChunks") EXCEPT !.todo = ls]
  BY DEF SplitChunks
<1>3. ls \in Seq(Chunk)
  BY <1>1, ChunksTile
<1>4. "hashChunks" \in Label
  BY DEF Label
<1>5. /\ Restart("hashChunks") \in JobState /\ Restart("hashChunks").pc = "hashChunks"
      /\ Restart("hashChunks").seen = job.seen
  BY <1>1, <1>4, RestartTyped
<1>6. job' \in JobState /\ job'.pc = "hashChunks" /\ job'.todo = ls /\ job'.seen = job.seen
  <2> HIDE DEF ls
  <2> QED BY <1>2, <1>3, <1>5 DEF JobState
<1>7. ~raced => JobSound(job', DOMAIN objects', file, kind, LayersOf, writes)
  BY <1>1, <1>6 DEF JobSound
<1> QED BY <1>1, <1>6, <1>7, JobMoves

(* One part put together is that part.                                        *)
LEMMA FlattenSingle ==
    ASSUME NEW S, NEW s \in Seq(S)
    PROVE  FlattenSeq(<<s>>) = s
<1> DEFINE ss == <<s>>
<1>1. Len(ss) = 1 /\ ss[1] = s
  OBVIOUS
<1> HIDE DEF ss
<1>2. PICK f : FlatSteps(f, 1, ss) /\ FlattenSeq(ss) = f[1]
  <2>1. Len(ss) \in Nat \ {0}
    BY <1>1
  <2> QED BY <1>1, <2>1, FlattenIs
<1>3. 1 \in 1 .. 1
  OBVIOUS
<1> QED BY <1>1, <1>2, <1>3 DEF FlatSteps, ss

(* stage_safetensors stores the header.                                       *)
LEMMA FusedHeaderKeeps == ASSUME StagingInv, FusedHeader PROVE StagingInv'
<1>1. /\ StagingTyped /\ job.pc = "fusedLayers" /\ Still
      /\ job.seen <= writes /\ file \in Seq(Byte)
      /\ job \in JobState
      /\ kind = "layers" => Base <= Len(file)
      /\ ~raced => kind = "layers" /\ Named(objects)
  BY DEF StagingInv, FusedHeader, JobSound, StagingTyped, Quiet, Still
<1>2. CASE job' = Restart("splitLayers") /\ UNCHANGED objects
  <2>1. "splitLayers" \in Label
    BY DEF Label
  <2> QED BY <1>1, <1>2, <2>1, RestartMoves
<1>3. CASE ~(Overlapping(LayersOf) \/ ExceedsFile(LayersOf))
  <2> DEFINE header == BytesOf(0, Base)
             ls == LayersOf
  <2>1. /\ objects' = Published(header, header)
        /\ job' = [job EXCEPT !.pc = "walk", !.whole = header, !.parts = <<header>>,
                              !.todo = Tail(ls), !.size = Len(file)]
    BY <1>3 DEF FusedHeader
  <2>2. /\ ls \in Seq(Chunk) /\ Len(ls) \in Nat \ {0} /\ ls[1] = [start |-> 0, size |-> Base]
        /\ LastByte(ls[1]) = Base /\ Base \in Nat
    BY <1>1, LayersTyped
  <2>3. header \in Seq(Byte) /\ (Base <= Len(file) => header = SubSeq(file, 1, Base) /\ Len(header) = Base)
    <3> DEFINE l == [start |-> 0, size |-> Base]
    <3>1. l \in Chunk /\ l.start = 0 /\ l.size = Base /\ LastByte(l) = Base
      BY <2>2 DEF Chunk, LastByte
    <3> HIDE DEF l
    <3>2. /\ BytesOf(l.start, l.size) \in Seq(Byte)
          /\ Base <= Len(file) => BytesOf(l.start, l.size) = Slice(file, l) /\ Len(Slice(file, l)) = Base
      BY <1>1, <3>1, ReadIsSlice
    <3>3. Slice(file, l) = SubSeq(file, 0 + 1, Base) /\ 0 + 1 = 1
      BY <3>1 DEF Slice
    <3> QED BY <3>1, <3>2, <3>3
  <2> HIDE DEF header, ls
  <2>4. <<header>> \in Seq(Seq(Byte)) /\ Len(<<header>>) = 1 /\ <<header>>[1] = header
    BY <2>3
  <2>5. Tail(ls) = SubSeq(ls, 2, Len(ls)) /\ Tail(ls) \in Seq(Chunk)
    <3>1. ls # <<>>
      BY <2>2, EmptySeq
    <3> QED BY <2>2, <3>1, TailIsSubSeq, HeadTailProperties
  <2> DEFINE j == job'
             single == <<header>>
  <2>6. /\ j \in JobState /\ j.pc = "walk" /\ j.whole = header /\ j.parts = single
        /\ j.todo = Tail(ls) /\ j.size = Len(file) /\ j.seen = job.seen
    <3>1. "walk" \in Label /\ Len(file) \in Nat
      BY <1>1, LenProperties DEF Label
    <3> HIDE DEF single
    <3>2. single \in Seq(Seq(Byte)) /\ job' = [job EXCEPT !.pc = "walk", !.whole = header, !.parts = single,
                              !.todo = Tail(ls), !.size = Len(file)]
      BY <2>1, <2>4 DEF single
    <3> QED BY <1>1, <2>3, <2>5, <3>1, <3>2 DEF JobState
  <2>7. /\ DOMAIN objects' = DOMAIN objects \union {header}
        /\ Named(objects) => Named(objects')
    BY <2>1, PublishedAdds
  <2>8. FlattenSeq(single) = header
    BY <2>3, FlattenSingle
  <2>9. ASSUME ~raced PROVE Walking(j, DOMAIN objects', file, ls, writes)
    <3>1. Base <= Len(file) /\ header = SubSeq(file, 1, Base) /\ Len(header) = Base
      BY <1>1, <2>3, <2>9
    <3>2. Begins(file, header)
      BY <3>1 DEF Begins
    <3>3. Findable(single, DOMAIN objects')
      BY <2>4, <2>7 DEF Findable
    <3>4. ~Overlapping(ls)
      BY <1>3 DEF ls
    <3>5. Len(single) = 1 /\ 1 \in 1 .. Len(ls) /\ 1 + 1 = 2
      BY <2>2, <2>4
    <3> HIDE DEF j, single
    <3> QED BY <2>2, <2>5, <2>6, <2>8, <3>1, <3>2, <3>3, <3>4, <3>5 DEF Walking
  <2>10. ~raced => JobSound(j, DOMAIN objects', file, kind, LayersOf, writes)
    <3>1. ls = LayersOf
      BY DEF ls
    <3>2. j.pc = "walk"
      BY <2>6
    <3> HIDE DEF j
    <3> QED BY <1>1, <2>9, <3>1, <3>2 DEF JobSound
  <2>11. DOMAIN objects \subseteq DOMAIN objects'
    BY <1>1, <2>3, <2>7
  <2> QED BY <1>1, <2>6, <2>7, <2>10, <2>11, JobMoves
<1> QED BY <1>2, <1>3 DEF FusedHeader

(* The next layer of a walk that lies in the file, and the gap before it.     *)
LEMMA WalkedOn ==
    ASSUME StagingTyped, NEW j \in JobState, Walking(j, DOMAIN objects, file, LayersOf, writes),
           j.todo # <<>>, LastByte(Head(j.todo)) <= Len(file)
    PROVE  LET l == Head(j.todo)
               k == Len(j.parts)
               gap == BytesOf(Len(j.whole), l.start - Len(j.whole))
               bytes == BytesOf(l.start, l.size)
           IN  /\ l \in Chunk /\ k \in 1 .. Len(LayersOf) /\ k + 1 \in 1 .. Len(LayersOf) /\ l = LayersOf[k + 1]
               /\ Tail(j.todo) = SubSeq(LayersOf, k + 2, Len(LayersOf)) /\ Tail(j.todo) \in Seq(Chunk)
               /\ gap = SubSeq(file, Len(j.whole) + 1, l.start) /\ bytes = SubSeq(file, l.start + 1, LastByte(l))
               /\ gap \in Seq(Byte) /\ bytes \in Seq(Byte)
               /\ Len(gap) = l.start - Len(j.whole) /\ Len(bytes) = l.size
               /\ Len(j.whole) <= l.start /\ l.start <= LastByte(l) /\ LastByte(l) = l.start + l.size
<1> DEFINE l == Head(j.todo)
           k == Len(j.parts)
           W == Len(j.whole)
           ls == LayersOf
<1>1. /\ ls \in Seq(Chunk) /\ Len(ls) \in Nat \ {0} /\ k \in 1 .. Len(ls) /\ k \in 0 .. Len(ls)
      /\ j.todo = SubSeq(ls, k + 1, Len(ls)) /\ W = LastByte(ls[k]) /\ ~Overlapping(ls)
  BY LayersTyped DEF Walking
<1>2. k + 1 \in 1 .. Len(ls) /\ l = ls[k + 1] /\ Tail(j.todo) = SubSeq(ls, k + 2, Len(ls))
  BY <1>1, Suffix
<1>3. j.todo \in Seq(Chunk) /\ Tail(j.todo) \in Seq(Chunk) /\ l \in Chunk
  BY HeadTailProperties DEF JobState
<1>4. /\ l.start \in Nat /\ l.size \in Nat /\ LastByte(l) = l.start + l.size /\ W \in Nat
      /\ file \in Seq(Byte) /\ Len(file) \in Nat
  BY <1>3, LenProperties DEF Chunk, LastByte, JobState, StagingTyped
<1> HIDE DEF ls, l
<1>5. W <= l.start
  <2>1. k \in 1 .. Len(ls) - 1
    BY <1>1, <1>2
  <2>2. ~(ls[k + 1].start < LastByte(ls[k]))
    BY <1>1, <2>1 DEF Overlapping
  <2> QED BY <1>1, <1>2, <1>4, <2>2
<1> DEFINE g == [start |-> W, size |-> l.start - W]
<1>6. g \in Chunk /\ LastByte(g) = l.start /\ g.start = W /\ g.size = l.start - W /\ l.start <= Len(file)
  <2>1. l.start - W \in Nat /\ W + (l.start - W) = l.start /\ l.start <= Len(file)
    BY <1>4, <1>5 DEF l
  <2> QED BY <1>4, <2>1 DEF Chunk, LastByte
<1> HIDE DEF g
<1>7. /\ BytesOf(g.start, g.size) \in Seq(Byte) /\ BytesOf(g.start, g.size) = Slice(file, g)
      /\ Len(Slice(file, g)) = g.size
  BY <1>6, ReadIsSlice
<1>8. /\ BytesOf(l.start, l.size) \in Seq(Byte) /\ BytesOf(l.start, l.size) = Slice(file, l)
      /\ Len(Slice(file, l)) = l.size
  BY <1>3, ReadIsSlice DEF l
<1>9. Slice(file, g) = SubSeq(file, W + 1, l.start) /\ Slice(file, l) = SubSeq(file, l.start + 1, LastByte(l))
  BY <1>6 DEF Slice
<1>10. l.start <= LastByte(l)
  BY <1>4
<1> QED BY <1>1, <1>2, <1>3, <1>4, <1>5, <1>6, <1>7, <1>8, <1>9, <1>10 DEF l, ls

(* stage_safetensors stores the next layer.                                   *)
LEMMA WalkLayerKeeps == ASSUME StagingInv, WalkLayer PROVE StagingInv'
<1>1. /\ StagingTyped /\ job.pc = "walk" /\ Still /\ job.todo # <<>>
      /\ job.seen <= writes /\ file \in Seq(Byte)
      /\ job \in JobState
      /\ ~raced => /\ kind = "layers" /\ Named(objects)
                   /\ Walking(job, DOMAIN objects, file, LayersOf, writes)
  BY DEF StagingInv, WalkLayer, JobSound, StagingTyped, Quiet, Still
<1> DEFINE l == Head(job.todo)
           gap == BytesOf(Len(job.whole), l.start - Len(job.whole))
           bytes == BytesOf(l.start, l.size)
<1>2. CASE job' = Restart("splitLayers") /\ UNCHANGED objects
  <2>1. "splitLayers" \in Label
    BY DEF Label
  <2> QED BY <1>1, <1>2, <2>1, RestartMoves
<1>3. CASE ~(LastByte(l) > Len(file))
  <2> DEFINE k == Len(job.parts)
             W == Len(job.whole)
             ls == LayersOf
             read == job.whole \o gap \o bytes
             more == Append(job.parts, bytes)
  <2>1. /\ objects' = Published(bytes, bytes)
        /\ job' = [job EXCEPT !.whole = @ \o gap \o bytes, !.parts = Append(@, bytes), !.todo = Tail(@)]
    BY <1>1, <1>3 DEF WalkLayer
  <2>2. /\ job.todo \in Seq(Chunk) /\ l \in Chunk /\ Tail(job.todo) \in Seq(Chunk)
        /\ job.whole \in Seq(Byte) /\ W \in Nat /\ job.parts \in Seq(Seq(Byte)) /\ k \in Nat
    BY <1>1, HeadTailProperties, LenProperties DEF JobState
  <2>3. /\ l.start \in Nat /\ l.size \in Nat /\ Len(file) \in Nat /\ l.start - W \in Int
        /\ LastByte(l) = l.start + l.size
    BY <1>1, <2>2, LenProperties DEF Chunk, LastByte
  <2>4. gap \in Seq(Byte) /\ bytes \in Seq(Byte) /\ LastByte(l) <= Len(file)
    <3>1. LastByte(l) <= Len(file)
      BY <1>3, <2>3
    <3> QED BY <1>1, <2>2, <2>3, <3>1, ReadTyped, ReadIsSlice
  <2>5. ~raced => /\ k \in 1 .. Len(ls) /\ k + 1 \in 1 .. Len(ls) /\ l = ls[k + 1]
                  /\ Tail(job.todo) = SubSeq(ls, k + 2, Len(ls))
                  /\ gap = SubSeq(file, W + 1, l.start) /\ bytes = SubSeq(file, l.start + 1, LastByte(l))
                  /\ Len(gap) = l.start - W /\ Len(bytes) = l.size
                  /\ W <= l.start /\ l.start <= LastByte(l)
    BY <1>1, <2>4, WalkedOn
  <2> HIDE DEF gap, bytes, l, ls
  <2>6. /\ read \in Seq(Byte) /\ Len(read) = W + Len(gap) + Len(bytes)
        /\ job.whole \o gap \in Seq(Byte)
    <3>1. job.whole \o gap \in Seq(Byte) /\ Len(job.whole \o gap) = W + Len(gap)
      BY <2>2, <2>4, ConcatProperties
    <3> QED BY <2>4, <3>1, ConcatProperties
  <2>7. /\ more \in Seq(Seq(Byte)) /\ Len(more) = k + 1 /\ more[k + 1] = bytes
        /\ \A i \in 1 .. k : more[i] = job.parts[i]
    BY <2>2, <2>4, AppendProperties
  <2>8. /\ job' \in JobState /\ job'.pc = "walk" /\ job'.whole = read /\ job'.parts = more
        /\ job'.todo = Tail(job.todo) /\ job'.size = job.size /\ job'.seen = job.seen
    <3>1. job' = [job EXCEPT !.whole = read, !.parts = more, !.todo = Tail(job.todo)]
      BY <1>1, <2>1 DEF JobState
    <3> HIDE DEF read, more
    <3> QED BY <1>1, <2>2, <2>6, <2>7, <3>1 DEF JobState
  <2>9. /\ DOMAIN objects' = DOMAIN objects \union {bytes}
        /\ Named(objects) => Named(objects')
    BY <2>1, PublishedAdds
  <2>10. ASSUME ~raced PROVE Walking(job', DOMAIN objects', file, ls, writes)
    <3>1. Walking(job, DOMAIN objects, file, ls, writes)
      BY <1>1, <2>10 DEF ls
    <3>2. Findable(more, DOMAIN objects')
      <4>1. \A i \in 1 .. k : job.parts[i] \in DOMAIN objects
        BY <3>1 DEF Walking, Findable
      <4> HIDE DEF more, k
      <4>4. k \in Nat
        BY <2>2
      <4>2. \A i \in 1 .. k + 1 : i \in 1 .. k \/ i = k + 1
        BY <4>4
      <4>3. \A i \in 1 .. k + 1 : more[i] \in DOMAIN objects'
        BY <2>7, <2>9, <4>1, <4>2
      <4> QED BY <2>7, <4>3 DEF Findable
    <3>3. Len(read) = LastByte(l)
      <4>1. Len(gap) = l.start - W /\ Len(bytes) = l.size
        BY <2>5, <2>10
      <4>2. Len(read) = W + (l.start - W) + l.size
        BY <2>6, <4>1
      <4> HIDE DEF read, W
      <4> QED BY <2>2, <2>3, <4>2
    <3>4. ASSUME Contiguous(ls, k + 1) PROVE FlattenSeq(more) = read
      <4>1. Contiguous(ls, k) /\ l.start = LastByte(ls[k])
        <5>1. ls[k + 1].start = IF k + 1 = 1 THEN 0 ELSE LastByte(ls[(k + 1) - 1])
          BY <2>2, <2>5, <2>10, <3>4 DEF Contiguous
        <5>2. (k + 1) - 1 = k /\ k + 1 # 1
          BY <2>2, <2>5, <2>10
        <5>3. \A i \in 1 .. k : i \in 1 .. k + 1
          BY <2>2
        <5> QED BY <2>5, <2>10, <3>4, <5>1, <5>2, <5>3 DEF Contiguous
      <4>2. FlattenSeq(job.parts) = job.whole /\ W = LastByte(ls[k])
        BY <3>1, <4>1 DEF Walking
      <4>3. gap = <<>>
        <5>1. l.start < W + 1 /\ W + 1 \in Int /\ l.start \in Int
          BY <2>2, <2>3, <4>1, <4>2
        <5> QED BY <2>5, <2>10, <5>1, SubSeqEmpty
      <4>4. job.whole \o gap = job.whole
        BY <2>2, <4>3, ConcatEmptySeq
      <4> QED BY <2>2, <2>4, <4>2, <4>4, FlattenAppend
    <3>5. ASSUME job.seen = writes PROVE job.size = Len(file) /\ Begins(file, read)
      <4>1. job.size = Len(file) /\ W <= Len(file) /\ job.whole = SubSeq(file, 1, W)
        BY <3>1, <3>5 DEF Walking, Begins
      <4>2. job.whole \o gap = SubSeq(file, 1, l.start)
        <5>2. W <= l.start /\ l.start <= LastByte(l) /\ LastByte(l) <= Len(file) /\ LastByte(l) \in Nat
          BY <2>3, <2>4, <2>5, <2>10
        <5>3. W \in Nat /\ l.start \in Nat /\ Len(file) \in Nat
          BY <2>2, <2>3
        <5>1. 1 \in 1 .. Len(file) + 1 /\ W \in 1 - 1 .. Len(file) /\ l.start \in W .. Len(file)
          <6> HIDE DEF W
          <6> QED BY <5>2, <5>3
        <5> QED BY <1>1, <2>5, <2>10, <4>1, <5>1, ConcatAdjacentSubSeq
      <4>3. read = SubSeq(file, 1, LastByte(l))
        <5>0. l.start <= LastByte(l) /\ LastByte(l) \in Nat
          BY <2>3, <2>5, <2>10
        <5>1. 1 \in 1 .. Len(file) + 1 /\ l.start \in 1 - 1 .. Len(file) /\ LastByte(l) \in l.start .. Len(file)
          BY <2>3, <2>4, <5>0
        <5>2. SubSeq(file, 1, l.start) \o SubSeq(file, l.start + 1, LastByte(l)) = SubSeq(file, 1, LastByte(l))
          BY <1>1, <5>1, ConcatAdjacentSubSeq
        <5> QED BY <2>5, <2>10, <4>2, <5>2
      <4> QED BY <2>4, <3>3, <4>1, <4>3 DEF Begins
    <3>6. ~Overlapping(ls) /\ (k + 1) + 1 = k + 2
      BY <2>2, <3>1 DEF Walking
    <3> HIDE DEF read, more
    <3> QED BY <2>5, <2>7, <2>8, <2>10, <3>2, <3>3, <3>4, <3>5, <3>6 DEF Walking
  <2>11. ~raced => JobSound(job', DOMAIN objects', file, kind, LayersOf, writes)
    <3>1. ls = LayersOf
      BY DEF ls
    <3> QED BY <1>1, <2>8, <2>10, <3>1 DEF JobSound
  <2>12. DOMAIN objects \subseteq DOMAIN objects'
    BY <1>1, <2>4, <2>9
  <2>13. ~raced => Named(objects')
    BY <1>1, <2>9
  <2> QED BY <1>1, <2>8, <2>11, <2>12, <2>13, JobMoves
<1> QED BY <1>2, <1>3 DEF WalkLayer

(* stage_safetensors reads what follows the last layer and makes the entry.   *)
LEMMA WalkRestKeeps == ASSUME StagingInv, WalkRest PROVE StagingInv'
<1>1. /\ StagingTyped /\ job.pc = "walk" /\ job.todo = <<>> /\ file \in Seq(Byte) /\ job \in JobState
      /\ ~raced => /\ kind = "layers" /\ Named(objects)
                   /\ Walking(job, DOMAIN objects, file, LayersOf, writes)
  BY DEF StagingInv, WalkRest, JobSound, StagingTyped
<1> DEFINE W == Len(job.whole)
           rest == BytesOf(W, job.size - W)
           all == job.whole \o rest
           k == Len(job.parts)
           ls == LayersOf
<1>2. CASE /\ job' = Restart("splitLayers") /\ UNCHANGED <<objects, entry>>
           /\ UNCHANGED <<file, kind, layout, fused, raced, failures, writes, adds>>
  <2>1. "splitLayers" \in Label /\ Still /\ UNCHANGED objects
    BY <1>2 DEF Label, Still
  <2> QED BY <1>1, <1>2, <2>1, RestartMoves
<1>3. CASE Staged(all, job.parts, "layers") /\ UNCHANGED objects
  <2>1. /\ job.whole \in Seq(Byte) /\ W \in Nat /\ job.size \in Nat /\ job.size - W \in Int
        /\ job.parts \in Seq(Seq(Byte)) /\ k \in Nat /\ Len(file) \in Nat
    BY <1>1, LenProperties DEF JobState
  <2>2. rest \in Seq(Byte) /\ all \in Seq(Byte) /\ Len(all) = W + Len(rest) /\ Len(rest) \in Nat
    <3>1. rest \in Seq(Byte)
      BY <1>1, <2>1, ReadTyped
    <3> HIDE DEF rest
    <3> QED BY <2>1, <3>1, ConcatProperties, LenProperties
  <2> DEFINE e == [whole |-> all, parts |-> job.parts, split |-> "layers", seen |-> job.seen]
  <2>3. ASSUME ~raced PROVE EntryKept(e, DOMAIN objects, file, LayersOf, writes)
    <3>1. /\ Walking(job, DOMAIN objects, file, ls, writes) /\ ls \in Seq(Chunk)
          /\ Len(ls) \in Nat \ {0} /\ k \in 1 .. Len(ls)
      BY <1>1, <2>3, LayersTyped DEF Walking
    <3>2. k = Len(ls)
      <4>1. job.todo = SubSeq(ls, k + 1, Len(ls)) /\ k \in 0 .. Len(ls)
        BY <3>1 DEF Walking
      <4>3. Len(job.todo) = 0
        BY <1>1, EmptySeq
      <4> HIDE DEF ls, k
      <4> DEFINE t == SubSeq(ls, k + 1, Len(ls))
      <4>4. Len(t) = Len(ls) - k
        BY <3>1, <4>1, Suffix
      <4>2. Len(job.todo) = Len(ls) - k
        BY <4>1, <4>4
      <4> QED BY <2>1, <3>1, <4>2, <4>3
    <3>3. Findable(job.parts, DOMAIN objects) /\ W = LastByte(ls[k])
      BY <3>1 DEF Walking
    <3>4. ASSUME job.seen = writes PROVE all = file
      <4>1. job.size = Len(file) /\ W <= Len(file) /\ job.whole = SubSeq(file, 1, W)
        BY <3>1, <3>4 DEF Walking, Begins
      <4> DEFINE g == [start |-> W, size |-> Len(file) - W]
      <4>2. g \in Chunk /\ g.start = W /\ g.size = Len(file) - W /\ LastByte(g) = Len(file)
        <5>1. Len(file) - W \in Nat /\ W + (Len(file) - W) = Len(file)
          BY <2>1, <4>1
        <5> QED BY <2>1, <5>1 DEF Chunk, LastByte
      <4> HIDE DEF g
      <4>3. BytesOf(g.start, g.size) = Slice(file, g)
        BY <1>1, <2>1, <4>2, ReadIsSlice
      <4>4. rest = SubSeq(file, W + 1, Len(file))
        BY <4>1, <4>2, <4>3 DEF Slice
      <4>5. 1 \in 1 .. Len(file) + 1 /\ W \in 1 - 1 .. Len(file) /\ Len(file) \in W .. Len(file)
        BY <2>1, <4>1
      <4>6. all = SubSeq(file, 1, Len(file))
        BY <1>1, <4>1, <4>4, <4>5, ConcatAdjacentSubSeq
      <4> QED BY <1>1, <4>6, SubSeqFull
    <3>5. ASSUME Tiled(ls, Len(all)) PROVE FlattenSeq(job.parts) = all
      <4>1. Contiguous(ls, Len(ls)) /\ LastByte(ls[Len(ls)]) = Len(all)
        BY <3>5 DEF Tiled, Contiguous
      <4>2. FlattenSeq(job.parts) = job.whole
        BY <3>1, <3>2, <4>1 DEF Walking
      <4>3. Len(rest) = 0
        <5>1. W + Len(rest) = W
          BY <2>2, <3>2, <3>3, <4>1
        <5> HIDE DEF rest, W
        <5> QED BY <2>1, <2>2, <5>1
      <4>4. rest = <<>>
        BY <2>2, <4>3, EmptySeq
      <4> HIDE DEF rest
      <4> QED BY <2>1, <4>2, <4>4, ConcatEmptySeq
    <3>6. job.parts # <<>>
      <4>1. k # 0
        BY <3>1
      <4> QED BY <4>1, EmptySeq
    <3> HIDE DEF all, ls
    <3> QED BY <3>3, <3>4, <3>5, <3>6 DEF EntryKept, ls
  <2>4. ~raced => Named(objects')
    BY <1>1, <1>3
  <2>5. "layers" \in SplitName
    BY DEF SplitName
  <2> HIDE DEF all
  <2> QED BY <1>3, <2>1, <2>2, <2>3, <2>4, <2>5, EntryMade
<1> QED BY <1>2, <1>3 DEF WalkRest

(* stage_cdc opens the file.                                                  *)
LEMMA FusedOpenKeeps == ASSUME StagingInv, FusedOpen PROVE StagingInv'
<1>1. /\ StagingTyped /\ job.pc = "fusedChunks" /\ Still /\ objects' = objects
      /\ job.seen <= writes /\ file \in Seq(Byte) /\ job \in JobState
      /\ ~raced => /\ kind = "chunks" /\ Named(objects)
                   /\ job.parts = <<>> /\ job.whole = <<>> /\ job.cutter = Fresh
  BY DEF StagingInv, FusedOpen, JobSound, StagingTyped, Quiet, Still
<1>2. job' = [job EXCEPT !.pc = "cutting", !.size = Len(file)]
  BY DEF FusedOpen
<1>3. "cutting" \in Label /\ Len(file) \in Nat
  BY <1>1, LenProperties DEF Label
<1>4. /\ job' \in JobState /\ job'.pc = "cutting" /\ job'.parts = job.parts /\ job'.whole = job.whole
      /\ job'.cutter = job.cutter /\ job'.seen = job.seen
  BY <1>1, <1>2, <1>3 DEF JobState
<1>5. ASSUME ~raced PROVE CuttingOn(job', DOMAIN objects', file, writes)
  <2> DEFINE none == <<>>
  <2>1. /\ job'.parts = none /\ job'.whole = none /\ job'.cutter.pos = 0
    BY <1>1, <1>4, <1>5 DEF Fresh
  <2>2. Len(none) = 0 /\ FlattenSeq(none) = none
    BY EmptySeq DEF FlattenSeq
  <2>3. none = SubSeq(file, 1, 0)
    BY SubSeqEmpty
  <2> HIDE DEF none
  <2> QED BY <1>3, <2>1, <2>2, <2>3 DEF CuttingOn, Findable, Begins
<1>6. ~raced => JobSound(job', DOMAIN objects', file, kind, LayersOf, writes)
  BY <1>1, <1>4, <1>5 DEF JobSound
<1> QED BY <1>1, <1>4, <1>6, JobMoves

(* The first W bytes of a file and the first n of its rest are its first W + n. *)
LEMMA PrefixOfRest ==
    ASSUME NEW f \in Seq(Byte), NEW W \in 0 .. Len(f), NEW n \in 0 .. Len(f) - W
    PROVE  /\ Len(SubSeq(f, W + 1, Len(f))) = Len(f) - W
           /\ SubSeq(f, 1, W) \o SubSeq(SubSeq(f, W + 1, Len(f)), 1, n) = SubSeq(f, 1, W + n)
           /\ Len(SubSeq(f, 1, W + n)) = W + n
<1> DEFINE r == SubSeq(f, W + 1, Len(f))
<1>1. Len(f) \in Nat /\ \A i \in 1 .. Len(f) : f[i] \in Byte
  BY LenProperties, ElementOfSeq
<1>2. Len(r) = Len(f) - W
  <2>1. W \in 0 .. Len(f)
    OBVIOUS
  <2> QED BY <2>1, Suffix
<1>3. SubSeq(r, 1, n) = SubSeq(f, W + 1, W + n)
  <2>1. CASE n = 0
    <3>1. SubSeq(r, 1, n) = <<>>
      BY <2>1, SubSeqEmpty
    <3>2. W + n < W + 1 /\ W + n \in Int /\ W + 1 \in Int
      BY <2>1
    <3> QED BY <3>1, <3>2, SubSeqEmpty
  <2>2. CASE n # 0
    <3>1. /\ W + 1 \in 1 .. Len(f) /\ Len(f) \in 1 .. Len(f) /\ 1 \in 1 .. Len(f) - (W + 1) + 1
          /\ n \in 1 .. Len(f) - (W + 1) + 1 /\ (W + 1) + 1 - 1 = W + 1 /\ (W + 1) + n - 1 = W + n
      BY <1>1, <2>2
    <3>2. SubSeq(r, 1, n) = SubSeq(f, (W + 1) + 1 - 1, (W + 1) + n - 1)
      BY <3>1, SubSeqOfSubSeq
    <3> QED BY <3>1, <3>2
  <2> QED BY <2>1, <2>2
<1>4. SubSeq(f, 1, W) \o SubSeq(f, W + 1, W + n) = SubSeq(f, 1, W + n)
  <2>1. 1 \in 1 .. Len(f) + 1 /\ W \in 1 - 1 .. Len(f) /\ W + n \in W .. Len(f)
    BY <1>1
  <2> QED BY <2>1, ConcatAdjacentSubSeq
<1>5. Len(SubSeq(f, 1, W + n)) = W + n
  <2>1. /\ 1 \in Int /\ W + n \in Int /\ \A i \in 1 .. W + n : f[i] \in Byte
        /\ (IF 1 <= W + n THEN W + n - 1 + 1 ELSE 0) = W + n
    BY <1>1
  <2> QED BY <2>1, SubSeqProperties
<1> QED BY <1>2, <1>3, <1>4, <1>5

(* stage_cdc stores the next chunk, and with the last one makes the entry.    *)
LEMMA FusedChunkKeeps == ASSUME StagingInv, FusedChunk PROVE StagingInv'
<1> DEFINE c == NextChunk
           W == job.cutter.pos
           rest == SubSeq(file, W + 1, Len(file))
           bytes == c.bytes
           all == job.whole \o bytes
           more == Append(job.parts, bytes)
           k == Len(job.parts)
<1>1. /\ StagingTyped /\ job.pc = "cutting" /\ job.seen <= writes /\ file \in Seq(Byte) /\ job \in JobState
      /\ job.whole \in Seq(Byte) /\ job.parts \in Seq(Seq(Byte)) /\ job.cutter \in CutterState
      /\ ~raced => /\ kind = "chunks" /\ Named(objects) /\ CuttingOn(job, DOMAIN objects, file, writes)
  BY DEF StagingInv, FusedChunk, JobSound, StagingTyped, JobState
<1>2. PICK n \in 0 .. Len(rest) :
         /\ bytes = SubSeq(rest, 1, n) /\ bytes \in Seq(Byte)
         /\ c.cutter \in CutterState /\ c.cutter.pos = W + n
         /\ c.last \in BOOLEAN /\ c.last => n = Len(rest)
  BY <1>1, NextChunkReads
<1>3. objects' = Published(bytes, bytes)
  BY DEF FusedChunk
<1>4. \/ c.last /\ Staged(all, more, "chunks")
      \/ /\ ~c.last /\ Still
         /\ job' = [job EXCEPT !.whole = all, !.cutter = c.cutter, !.parts = more]
  <2>1. /\ job.whole \o c.bytes = all /\ Append(job.parts, c.bytes) = more
    OBVIOUS
  <2> HIDE DEF c
  <2> QED BY <1>1, <1>2 DEF FusedChunk, Quiet, Still, c, JobState
<1> HIDE DEF c, bytes
<1>5. all \in Seq(Byte)
  BY <1>1, <1>2, ConcatProperties
<1>6. /\ more \in Seq(Seq(Byte)) /\ Len(more) = k + 1 /\ k \in Nat /\ more[k + 1] = bytes /\ more # <<>>
      /\ \A i \in 1 .. k : more[i] = job.parts[i]
  <2>1. bytes \in Seq(Byte) /\ job.parts \in Seq(Seq(Byte))
    BY <1>1, <1>2
  <2>2. /\ more \in Seq(Seq(Byte)) /\ Len(more) = k + 1 /\ more[k + 1] = bytes
        /\ \A i \in 1 .. k : more[i] = job.parts[i]
    BY <2>1, AppendProperties
  <2>3. k \in Nat /\ k + 1 # 0
    BY <2>1, LenProperties
  <2> HIDE DEF more, k
  <2> QED BY <2>2, <2>3, EmptySeq
<1>7. /\ DOMAIN objects' = DOMAIN objects \union {bytes}
      /\ Named(objects) => Named(objects')
  BY <1>3, PublishedAdds
<1>8. ~raced => Findable(more, DOMAIN objects') /\ FlattenSeq(more) = all
  <2> SUFFICES ASSUME ~raced PROVE Findable(more, DOMAIN objects') /\ FlattenSeq(more) = all
    OBVIOUS
  <2>1. Findable(job.parts, DOMAIN objects) /\ FlattenSeq(job.parts) = job.whole
    BY <1>1 DEF CuttingOn
  <2>2. Findable(more, DOMAIN objects')
    <3>1. \A i \in 1 .. k : job.parts[i] \in DOMAIN objects
      BY <2>1 DEF Findable
    <3> HIDE DEF more, k
    <3>2. ASSUME NEW i \in 1 .. k + 1 PROVE more[i] \in DOMAIN objects'
      <4>1. CASE i = k + 1
        BY <1>6, <1>7, <4>1
      <4>2. CASE i # k + 1
        <5>1. i \in 1 .. k
          BY <1>6, <4>2
        <5> QED BY <1>6, <1>7, <3>1, <5>1
      <4> QED BY <4>1, <4>2
    <3> QED BY <1>6, <3>2 DEF Findable
  <2>3. FlattenSeq(more) = all
    BY <1>1, <1>2, <2>1, FlattenAppend
  <2> QED BY <2>2, <2>3
<1>9. ~raced /\ job.seen = writes => /\ W + n <= Len(file) /\ Len(all) = W + n
                                     /\ all = SubSeq(file, 1, W + n) /\ Len(rest) = Len(file) - W
  <2> SUFFICES ASSUME ~raced, job.seen = writes
               PROVE  /\ W + n <= Len(file) /\ Len(all) = W + n
                      /\ all = SubSeq(file, 1, W + n) /\ Len(rest) = Len(file) - W
    OBVIOUS
  <2>1. /\ W = Len(job.whole) /\ W <= Len(file) /\ job.whole = SubSeq(file, 1, W)
    BY <1>1 DEF CuttingOn, Begins
  <2>2. W \in 0 .. Len(file) /\ Len(file) \in Nat
    BY <1>1, <2>1, LenProperties DEF CutterState
  <2>3. Len(rest) = Len(file) - W
    BY <1>1, <2>2, Suffix
  <2>4. n \in 0 .. Len(file) - W /\ W + n <= Len(file)
    <3> HIDE DEF rest, W
    <3> QED BY <2>2, <2>3
  <2>5. all = SubSeq(file, 1, W + n) /\ Len(SubSeq(file, 1, W + n)) = W + n
    <3> HIDE DEF W
    <3> DEFINE r == SubSeq(file, W + 1, Len(file))
    <3>1. /\ SubSeq(file, 1, W) \o SubSeq(r, 1, n) = SubSeq(file, 1, W + n)
          /\ Len(SubSeq(file, 1, W + n)) = W + n
      BY <1>1, <2>2, <2>4, PrefixOfRest
    <3> QED BY <1>2, <2>1, <3>1
  <2> QED BY <2>3, <2>4, <2>5
<1> HIDE DEF all, more, rest, W
<1>10. CASE c.last /\ Staged(all, more, "chunks")
  <2> DEFINE e == [whole |-> all, parts |-> more, split |-> "chunks", seen |-> job.seen]
  <2>1. ASSUME ~raced, job.seen = writes PROVE all = file
    <3>1. n = Len(file) - W /\ W \in Nat /\ Len(file) \in Nat
      BY <1>1, <1>2, <1>9, <1>10, <2>1, LenProperties DEF CutterState, W
    <3>2. W + n = Len(file)
      BY <3>1
    <3> QED BY <1>1, <1>9, <2>1, <3>2, SubSeqFull
  <2>2. ~raced => EntryKept(e, DOMAIN objects', file, LayersOf, writes)
    BY <1>6, <1>8, <2>1 DEF EntryKept
  <2>3. ~raced => Named(objects')
    BY <1>1, <1>7
  <2>4. "chunks" \in SplitName
    BY DEF SplitName
  <2> QED BY <1>5, <1>6, <1>10, <2>2, <2>3, <2>4, EntryMade
<1>11. CASE Still /\ job' = [job EXCEPT !.whole = all, !.cutter = c.cutter, !.parts = more]
  <2>1. /\ job' \in JobState /\ job'.pc = "cutting" /\ job'.whole = all /\ job'.parts = more
        /\ job'.cutter = c.cutter /\ job'.seen = job.seen
    BY <1>1, <1>2, <1>5, <1>6, <1>11 DEF JobState
  <2>2. ~raced => CuttingOn(job', DOMAIN objects', file, writes)
    BY <1>2, <1>8, <1>9, <2>1 DEF CuttingOn, Begins
  <2>3. ~raced => JobSound(job', DOMAIN objects', file, kind, LayersOf, writes)
    BY <1>1, <2>1, <2>2 DEF JobSound
  <2>4. ~raced => Named(objects')
    BY <1>1, <1>7
  <2>5. DOMAIN objects \subseteq DOMAIN objects'
    BY <1>7
  <2> QED BY <1>1, <1>11, <2>1, <2>3, <2>4, <2>5, JobMoves
<1> QED BY <1>4, <1>10, <1>11

(* Every layer or chunk of a split is read and hashed.                        *)
LEMMA HashPartsKeeps ==
    ASSUME StagingInv, NEW at, NEW next, HashParts(at, next),
           \/ at = "hashLayers" /\ next = "copyLayers"
           \/ at = "hashChunks" /\ next = "copyChunks"
    PROVE  StagingInv'
<1> DEFINE ls == job.todo
           read(i) == BytesOf(ls[i].start, ls[i].size)
           parts == [i \in 1 .. Len(ls) |-> read(i)]
<1>1. /\ StagingTyped /\ job.pc = at /\ Still /\ objects' = objects
      /\ job.seen <= writes /\ job \in JobState /\ file \in Seq(Byte) /\ ls \in Seq(Chunk)
      /\ ~raced => Named(objects) /\ JobSound(job, DOMAIN objects, file, kind, LayersOf, writes)
  BY DEF StagingInv, HashParts, StagingTyped, JobState, Quiet, Still
<1>2. Len(ls) \in Nat /\ \A i \in 1 .. Len(ls) : ls[i] \in Chunk
  BY <1>1, LenProperties, ElementOfSeq
<1>3. CASE job' = Restart("hashWhole")
  <2>1. "hashWhole" \in Label
    BY DEF Label
  <2> QED BY <1>1, <1>3, <2>1, RestartMoves
<1>4. CASE /\ ~ \E i \in 1 .. Len(ls) : LastByte(ls[i]) > Len(file)
           /\ job' = [job EXCEPT !.pc = next, !.parts = parts]
  <2>1. \A i \in 1 .. Len(ls) : read(i) \in Seq(Byte)
    BY <1>1, <1>2, ReadIsSlice
  <2>2. Inside(ls, file)
    <3>1. \A i \in 1 .. Len(ls) : LastByte(ls[i]) \in Nat /\ Len(file) \in Nat
      BY <1>1, <1>2, LenProperties DEF Chunk, LastByte
    <3> QED BY <1>4, <3>1 DEF Inside
  <2>3. \A i \in 1 .. Len(ls) : read(i) = Slice(file, ls[i])
    BY <1>1, <1>2, <2>2, ReadIsSlice DEF Inside
  <2> HIDE DEF read
  <2>4. parts \in Seq(Seq(Byte)) /\ Len(parts) = Len(ls)
    <3>1. parts \in [1 .. Len(ls) -> Seq(Byte)]
      BY <2>1
    <3> DEFINE n == Len(ls)
    <3>2. n \in Nat /\ parts \in [1 .. n -> Seq(Byte)]
      BY <1>2, <3>1
    <3> HIDE DEF parts, n
    <3>3. parts \in Seq(Seq(Byte)) /\ Len(parts) = n
      BY <3>2, FunctionIsSeq
    <3> QED BY <3>3 DEF n
  <2>5. Sliced(parts, file, ls)
    BY <2>3, <2>4 DEF Sliced
  <2> HIDE DEF parts
  <2>6. next \in Label
    BY DEF Label
  <2>7. /\ job' \in JobState /\ job'.pc = next /\ job'.parts = parts /\ job'.todo = ls
        /\ job'.seen = job.seen
    BY <1>1, <1>4, <2>4, <2>6 DEF JobState
  <2>8. ASSUME ls # <<>> PROVE Copying(job', DOMAIN objects', file, ls)
    <3>1. Len(ls) # 0
      BY <1>1, <2>8, EmptySeq
    <3>2. SubSeq(ls, 1, Len(ls)) = ls
      BY <1>1, SubSeqFull
    <3>3. Len(ls) - Len(ls) = 0 /\ Len(ls) - Len(ls) + 1 = 1 /\ Len(ls) \in 1 .. Len(ls)
      BY <1>2, <3>1
    <3> HIDE DEF ls
    <3> QED BY <2>2, <2>5, <2>7, <3>2, <3>3 DEF Copying
  <2>9. ~raced => JobSound(job', DOMAIN objects', file, kind, LayersOf, writes)
    <3> SUFFICES ASSUME ~raced PROVE JobSound(job', DOMAIN objects', file, kind, LayersOf, writes)
      OBVIOUS
    <3>1. CASE at = "hashLayers" /\ next = "copyLayers"
      <4>1. ls = LayersOf /\ kind = "layers"
        BY <1>1, <3>1 DEF JobSound
      <4>2. ls # <<>>
        BY <1>1, <4>1, LayersTyped, EmptySeq
      <4> HIDE DEF ls
      <4> QED BY <2>7, <2>8, <3>1, <4>1, <4>2 DEF JobSound
    <3>2. CASE at = "hashChunks" /\ next = "copyChunks"
      <4>1. ls = ChunksOf(file, Len(file)) /\ kind = "chunks"
        BY <1>1, <3>2 DEF JobSound
      <4>2. ls # <<>>
        BY <1>1, <4>1, ChunksTile, EmptySeq
      <4> HIDE DEF ls
      <4> QED BY <2>7, <2>8, <3>2, <4>1, <4>2 DEF JobSound
    <3> QED BY <3>1, <3>2
  <2>10. ~raced => Named(objects')
    BY <1>1
  <2> QED BY <1>1, <2>7, <2>9, <2>10, JobMoves
<1> QED BY <1>3, <1>4 DEF HashParts

(* The next one is copied from a second read.                                 *)
LEMMA CopyPartKeeps ==
    ASSUME StagingInv, NEW at \in {"copyLayers", "copyChunks"}, CopyPart(at)
    PROVE  StagingInv'
<1> DEFINE todo == job.todo
           l == Head(todo)
           name == job.parts[Len(job.parts) - Len(todo) + 1]
           bytes == BytesOf(l.start, l.size)
           next == IF Len(todo) = 1 THEN "rehash" ELSE at
           ls == IF at = "copyLayers" THEN LayersOf ELSE ChunksOf(file, Len(file))
<1>1. /\ StagingTyped /\ job.pc = at /\ Still /\ todo # <<>> /\ objects' = Published(name, bytes)
      /\ job' = [job EXCEPT !.todo = Tail(@), !.pc = IF Len(todo) = 1 THEN "rehash" ELSE @]
      /\ job.seen <= writes /\ job \in JobState /\ file \in Seq(Byte) /\ todo \in Seq(Chunk)
      /\ job.parts \in Seq(Seq(Byte))
      /\ ~raced => Named(objects) /\ JobSound(job, DOMAIN objects, file, kind, LayersOf, writes)
  BY DEF StagingInv, CopyPart, StagingTyped, JobState, Quiet, Still
<1>2. ~raced => Copying(job, DOMAIN objects, file, ls) /\ kind = (IF at = "copyLayers" THEN "layers" ELSE "chunks")
  BY <1>1 DEF JobSound
<1>3. ls \in Seq(Chunk) /\ Len(ls) \in Nat
  BY <1>1, LayersTyped, ChunksTile, LenProperties
<1>4. next \in Label /\ Tail(todo) \in Seq(Chunk) /\ Len(Tail(todo)) = Len(todo) - 1 /\ Len(todo) \in Nat \ {0}
  BY <1>1, HeadTailProperties, LenProperties, EmptySeq DEF Label
<1>5. /\ job' \in JobState /\ job'.pc = next /\ job'.parts = job.parts /\ job'.todo = Tail(todo)
      /\ job'.seen = job.seen
  <2>1. job' = [job EXCEPT !.todo = Tail(todo), !.pc = next]
    BY <1>1 DEF JobState
  <2> HIDE DEF todo, next
  <2> QED BY <1>1, <1>4, <2>1 DEF JobState
<1>6. /\ DOMAIN objects' = DOMAIN objects \union {name}
      /\ Named(objects) /\ bytes = name => Named(objects')
  BY <1>1, PublishedAdds
<1> DEFINE p == Len(ls) - Len(todo)
<1>7. ASSUME ~raced
      PROVE  /\ Named(objects') /\ p \in Nat /\ p + 1 \in 1 .. Len(ls)
             /\ Tail(todo) = SubSeq(ls, p + 2, Len(ls))
             /\ \A i \in 1 .. p + 1 : job.parts[i] \in DOMAIN objects'
  <2>1. /\ Inside(ls, file) /\ Sliced(job.parts, file, ls) /\ Len(todo) \in 1 .. Len(ls)
        /\ todo = SubSeq(ls, p + 1, Len(ls))
        /\ \A i \in 1 .. p : job.parts[i] \in DOMAIN objects
    BY <1>2, <1>7 DEF Copying
  <2> HIDE DEF ls
  <2>2. p \in 0 .. Len(ls) /\ p \in Nat
    BY <1>3, <2>1
  <2>3. p + 1 \in 1 .. Len(ls) /\ l = ls[p + 1] /\ Tail(todo) = SubSeq(ls, p + 2, Len(ls))
    <3> HIDE DEF p
    <3> DEFINE t == SubSeq(ls, p + 1, Len(ls))
    <3>1. t # <<>> => /\ p + 1 \in 1 .. Len(ls) /\ Head(t) = ls[p + 1]
                      /\ Tail(t) = SubSeq(ls, p + 2, Len(ls))
      BY <1>3, <2>2, Suffix
    <3> QED BY <1>1, <2>1, <3>1
  <2>4. name = Slice(file, l) /\ name = job.parts[p + 1]
    BY <2>1, <2>3 DEF Sliced
  <2>5. bytes = Slice(file, l)
    <3>1. l \in Chunk /\ LastByte(l) <= Len(file)
      BY <1>3, <2>1, <2>3, ElementOfSeq DEF Inside
    <3> HIDE DEF l
    <3> QED BY <1>1, <3>1, ReadIsSlice
  <2>6. Named(objects')
    BY <1>1, <1>6, <1>7, <2>4, <2>5
  <2>7. ASSUME NEW i \in 1 .. p + 1 PROVE job.parts[i] \in DOMAIN objects'
    <3>1. CASE i = p + 1
      BY <1>6, <2>4, <3>1
    <3>2. CASE i # p + 1
      <4>1. i \in 1 .. p
        BY <2>2, <3>2
      <4> QED BY <1>6, <2>1, <4>1
    <3> QED BY <3>1, <3>2
  <2> QED BY <2>2, <2>3, <2>6, <2>7
<1>8. ASSUME ~raced PROVE JobSound(job', DOMAIN objects', file, kind, LayersOf, writes)
  <2>1. /\ Inside(ls, file) /\ Sliced(job.parts, file, ls)
        /\ kind = (IF at = "copyLayers" THEN "layers" ELSE "chunks")
    BY <1>2, <1>8 DEF Copying
  <2>2. CASE Len(todo) = 1
    <3>1. p + 1 = Len(ls)
      BY <1>3, <2>2
    <3>2. Len(job.parts) = Len(ls)
      BY <2>1 DEF Sliced
    <3>3. Findable(job.parts, DOMAIN objects')
      <4> HIDE DEF ls, p
      <4> QED BY <1>7, <1>8, <3>1, <3>2 DEF Findable
    <3>4. job.parts # <<>>
      <4> HIDE DEF ls, p
      <4>1. Len(job.parts) # 0
        BY <1>3, <1>7, <1>8, <3>2
      <4> QED BY <4>1, EmptySeq
    <3>5. Copied(job', DOMAIN objects', file, kind, LayersOf)
      BY <1>5, <2>1, <3>3, <3>4 DEF Copied
    <3>6. job'.pc = "rehash"
      BY <1>5, <2>2
    <3> QED BY <3>5, <3>6 DEF JobSound
  <2>3. CASE Len(todo) # 1
    <3> DEFINE m == Len(ls) - Len(Tail(todo))
    <3>1. m = p + 1 /\ m + 1 = p + 2 /\ Len(Tail(todo)) \in 1 .. Len(ls)
      <4>1. Len(todo) \in 1 .. Len(ls)
        BY <1>2, <1>8 DEF Copying
      <4> HIDE DEF ls, todo
      <4> QED BY <1>3, <1>4, <2>3, <4>1
    <3> HIDE DEF m, p, ls, todo
    <3>2. /\ Tail(todo) = SubSeq(ls, m + 1, Len(ls))
          /\ \A i \in 1 .. m : job'.parts[i] \in DOMAIN objects'
      BY <1>5, <1>7, <1>8, <3>1
    <3>3. Copying(job', DOMAIN objects', file, ls)
      BY <1>5, <2>1, <3>1, <3>2 DEF Copying, m
    <3>4. job'.pc = at
      BY <1>5, <2>3
    <3> QED BY <2>1, <3>3, <3>4 DEF JobSound, ls
  <2> QED BY <2>2, <2>3
<1>9. ~raced => Named(objects')
  BY <1>7
<1>10. DOMAIN objects \subseteq DOMAIN objects'
  BY <1>6
<1> QED BY <1>1, <1>5, <1>8, <1>9, <1>10, JobMoves

(* No room for an object: the route is given up for another, or the layers stored *)
(* so far are all the entry gets.                                             *)
LEMMA PublishFailsKeeps == ASSUME StagingInv, PublishFails PROVE StagingInv'
<1> DEFINE D == DOMAIN objects
           n == Len(job.parts) - Len(job.todo)
           done == SubSeq(job.parts, 1, n)
<1>1. /\ StagingTyped /\ Still /\ objects' = objects /\ UNCHANGED objects
      /\ job.seen <= writes /\ job \in JobState /\ writes \in Nat
      /\ job.parts \in Seq(Seq(Byte)) /\ job.todo \in Seq(Chunk)
      /\ ~raced => Named(objects) /\ JobSound(job, D, file, kind, LayersOf, writes)
  BY DEF StagingInv, PublishFails, StagingTyped, JobState, Still
<1>2. job' = AfterFailure
  BY DEF PublishFails
<1>3. CASE job.pc = "walk"
  <2>1. job' = Restart("splitLayers") /\ "splitLayers" \in Label
    BY <1>2, <1>3 DEF AfterFailure, Label
  <2>2. ~raced => kind = "layers"
    BY <1>1, <1>3 DEF JobSound
  <2> QED BY <1>1, <2>1, <2>2, RestartMoves
<1>4. CASE job.pc = "cutting"
  <2>1. job' = Restart("splitChunks") /\ "splitChunks" \in Label
    BY <1>2, <1>4 DEF AfterFailure, Label
  <2>2. ~raced => kind = "chunks"
    BY <1>1, <1>4 DEF JobSound
  <2> QED BY <1>1, <2>1, <2>2, RestartMoves
<1>5. CASE job' = Restart("hashWhole")
  <2>1. "hashWhole" \in Label
    BY DEF Label
  <2> QED BY <1>1, <1>5, <2>1, RestartMoves
<1>6. CASE /\ job.pc = "copyLayers" /\ done # <<>>
           /\ job' = [job EXCEPT !.pc = "rehash", !.parts = done]
  <2>1. Len(job.parts) \in Nat /\ Len(job.todo) \in Nat /\ n \in Int /\ n <= Len(job.parts)
    <3>1. Len(job.parts) \in Nat /\ Len(job.todo) \in Nat
      BY <1>1, LenProperties
    <3>2. \A a, b \in Nat : a - b \in Int /\ a - b <= a
      OBVIOUS
    <3> QED BY <3>1, <3>2, Zenon
  <2>2. /\ done \in Seq(Seq(Byte)) /\ Len(done) = (IF 1 <= n THEN n - 1 + 1 ELSE 0)
        /\ \A i \in 1 .. Len(done) : done[i] = job.parts[i]
    <3>1. \A i \in 1 .. n : job.parts[i] \in Seq(Byte)
      BY <1>1, <2>1, ElementOfSeq
    <3> HIDE DEF n
    <3>2. /\ SubSeq(job.parts, 1, n) \in Seq(Seq(Byte))
          /\ Len(SubSeq(job.parts, 1, n)) = (IF 1 <= n THEN n - 1 + 1 ELSE 0)
          /\ \A i \in 1 .. n - 1 + 1 : SubSeq(job.parts, 1, n)[i] = job.parts[1 + i - 1]
      BY <2>1, <3>1, SubSeqProperties
    <3> HIDE DEF done
    <3>3. \A i \in 1 .. Len(done) : i \in 1 .. n - 1 + 1 /\ 1 + i - 1 = i
      BY <2>1, <3>2 DEF done
    <3> QED BY <3>2, <3>3 DEF done
  <2>3. Len(done) = n /\ n \in Nat
    <3>1. Len(done) # 0
      BY <1>6, <2>2, EmptySeq
    <3> HIDE DEF done, n
    <3> QED BY <2>1, <2>2, <3>1
  <2> HIDE DEF done
  <2>4. job' \in JobState /\ job'.pc = "rehash" /\ job'.parts = done /\ job'.seen = job.seen
    BY <1>1, <1>6, <2>2 DEF JobState, Label
  <2>5. ASSUME ~raced PROVE JobSound(job', D, file, kind, LayersOf, writes)
    <3> DEFINE ls == LayersOf
    <3>1. Copying(job, D, file, ls) /\ kind = "layers" /\ ls \in Seq(Chunk) /\ Len(ls) \in Nat
      BY <1>1, <1>6, <2>5, LayersTyped, LenProperties DEF JobSound
    <3> HIDE DEF ls
    <3>2. /\ Len(job.parts) = Len(ls) /\ Len(job.todo) \in 1 .. Len(ls)
          /\ \A i \in 1 .. Len(ls) - Len(job.todo) : job.parts[i] \in D
      BY <3>1 DEF Copying, Sliced
    <3>3. n = Len(ls) - Len(job.todo) /\ n # Len(ls)
      BY <3>1, <3>2
    <3>4. Findable(done, D)
      <4> HIDE DEF n
      <4> QED BY <2>2, <2>3, <3>2, <3>3 DEF Findable
    <3>5. Copied(job', D, file, kind, ls)
      <4> HIDE DEF n
      <4> QED BY <1>6, <2>3, <2>4, <3>1, <3>3, <3>4 DEF Copied
    <3> QED BY <2>4, <3>1, <3>5 DEF JobSound, ls
  <2>6. ~raced => Named(objects')
    BY <1>1
  <2> QED BY <1>1, <2>4, <2>5, <2>6, JobMoves
<1>7. CASE job' = IdleJob
  <2>1. job' \in JobState /\ job'.seen <= writes /\ job'.pc = "idle"
    BY <1>1, <1>7, IdleTyped
  <2>2. JobSound(job', D, file, kind, LayersOf, writes)
    BY <2>1 DEF JobSound
  <2>3. ~raced => Named(objects')
    BY <1>1
  <2> QED BY <1>1, <2>1, <2>2, <2>3, JobMoves
<1> HIDE DEF D, done
<1>8. \/ job.pc \in {"walk", "cutting"} \/ job' \in {Restart("hashWhole"), IdleJob}
      \/ /\ job.pc = "copyLayers" /\ done # <<>>
         /\ job' = [job EXCEPT !.pc = "rehash", !.parts = done]
  BY <1>2 DEF AfterFailure, done
<1> QED BY <1>3, <1>4, <1>5, <1>6, <1>7, <1>8

(* The whole file is hashed for an entry with parts.                          *)
LEMMA RehashKeeps == ASSUME StagingInv, Rehash PROVE StagingInv'
<1> DEFINE D == DOMAIN objects
           parts == job.parts
           e == [whole |-> file, parts |-> parts, split |-> kind, seen |-> job.seen]
<1>1. /\ StagingTyped /\ file \in Seq(Byte) /\ parts \in Seq(Seq(Byte))
      /\ kind \in SplitName
      /\ objects' = objects /\ Staged(file, parts, kind)
      /\ ~raced => Named(objects) /\ Copied(job, D, file, kind, LayersOf)
  BY DEF StagingInv, Rehash, StagingTyped, JobState, JobSound, SplitName
<1>2. ASSUME NEW ls \in Seq(Chunk), Len(ls) # 0, Contiguous(ls, Len(ls)),
             LastByte(ls[Len(ls)]) = Len(file), Inside(ls, file), Sliced(parts, file, ls)
      PROVE  FlattenSeq(parts) = file
  <2> HIDE DEF parts
  <2> QED BY <1>1, <1>2, FlattenTiles DEF Inside, Sliced, Slice
<1>3. ASSUME ~raced, kind = "layers" => Tiled(LayersOf, Len(file)) /\ Len(parts) = Len(LayersOf)
      PROVE  FlattenSeq(parts) = file
  <2>1. CASE kind = "layers"
    <3> DEFINE ls == LayersOf
    <3>1. Tiled(ls, Len(file)) /\ Inside(ls, file) /\ Sliced(parts, file, ls)
      BY <1>1, <1>3, <2>1 DEF Copied
    <3>2. ls \in Seq(Chunk) /\ Len(ls) # 0
      BY <1>1, LayersTyped
    <3> HIDE DEF ls
    <3>3. Contiguous(ls, Len(ls)) /\ LastByte(ls[Len(ls)]) = Len(file)
      BY <3>1 DEF Tiled, Contiguous
    <3> QED BY <1>2, <3>1, <3>2, <3>3
  <2>2. CASE kind = "chunks"
    <3> DEFINE ls == ChunksOf(file, Len(file))
    <3>1. Inside(ls, file) /\ Sliced(parts, file, ls)
      BY <1>1, <1>3, <2>2 DEF Copied
    <3>2. /\ ls \in Seq(Chunk) /\ Len(ls) # 0 /\ Contiguous(ls, Len(ls))
          /\ LastByte(ls[Len(ls)]) = Len(file)
      BY <1>1, ChunksTile
    <3> HIDE DEF ls
    <3> QED BY <1>2, <3>1, <3>2
  <2> QED BY <1>1, <1>3, <2>1, <2>2 DEF Copied
<1>4. ~raced => Findable(parts, D) /\ parts # <<>>
  BY <1>1 DEF Copied
<1> HIDE DEF parts
<1>5. ~raced => EntryKept(e, D, file, LayersOf, writes)
  BY <1>3, <1>4 DEF EntryKept
<1> QED BY <1>1, <1>5, EntryMade

(* What the owner of the file writes is a file, and keeps its header.         *)
LEMMA RewritesTyped ==
    ASSUME StagingTyped, NEW f \in Rewrites
    PROVE  f \in Seq(Byte) /\ (kind = "layers" => Base <= Len(f))
<1> DEFINE h == HeaderKept
           n == Len(file)
<1>1. /\ file \in Seq(Byte) /\ n \in Nat /\ Base \in Nat
      /\ kind = "layers" => Base <= n /\ h = Base
      /\ h \in Nat
  BY LayersTyped, LenProperties DEF StagingTyped, HeaderKept
<1>2. \/ \E i \in h + 1 .. n, b \in Byte : f = [file EXCEPT ![i] = b]
      \/ \E b \in Byte : f = Append(file, b)
      \/ h + 1 <= n /\ f = SubSeq(file, 1, n - 1)
  BY <1>1 DEF Rewrites
<1> HIDE DEF h
<1>3. CASE \E i \in h + 1 .. n, b \in Byte : f = [file EXCEPT ![i] = b]
  <2>1. PICK i \in h + 1 .. n, b \in Byte : f = [file EXCEPT ![i] = b]
    BY <1>3
  <2>2. i \in 1 .. n
    BY <1>1
  <2>3. f \in Seq(Byte) /\ Len(f) = n
    BY <1>1, <2>1, <2>2, ExceptSeq
  <2> QED BY <1>1, <2>3
<1>4. CASE \E b \in Byte : f = Append(file, b)
  <2>1. f \in Seq(Byte) /\ Len(f) = n + 1
    BY <1>1, <1>4, AppendProperties
  <2> QED BY <1>1, <2>1
<1>5. CASE h + 1 <= n /\ f = SubSeq(file, 1, n - 1)
  <2>1. /\ 1 \in Int /\ n - 1 \in Int /\ \A i \in 1 .. n - 1 : i \in 1 .. n
        /\ (IF 1 <= n - 1 THEN n - 1 - 1 + 1 ELSE 0) = n - 1
    <3> HIDE DEF n
    <3> QED BY <1>1, <1>5
  <2>3. \A i \in 1 .. n - 1 : file[i] \in Byte
    BY <1>1, <2>1, ElementOfSeq
  <2>2. f \in Seq(Byte) /\ Len(f) = n - 1
    BY <1>5, <2>1, <2>3, SubSeqProperties
  <2> QED BY <1>1, <1>5, <2>2
<1> QED BY <1>2, <1>3, <1>4, <1>5

(* The owner of the file writes: a route that reads twice is raced from here on, one *)
(* that reads once goes on with a file it has not seen.                       *)
LEMMA WriteFileKeeps == ASSUME StagingInv, WriteFile PROVE StagingInv'
<1>1. /\ StagingTyped /\ kind' = kind /\ layout' = layout /\ objects' = objects /\ job' = job
      /\ entry' = entry /\ LayersOf' = LayersOf /\ file' \in Rewrites /\ writes' = writes + 1
      /\ writes \in Nat /\ job.seen \in Nat /\ job.seen <= writes /\ entry.seen \in Nat /\ entry.seen <= writes
      /\ raced' = (raced \/ job.pc \in TwoReads) /\ raced \in BOOLEAN
  BY DEF StagingInv, StagingTyped, JobState, EntryState, WriteFile, LayersOf
<1>2. file' \in Seq(Byte) /\ (kind = "layers" => Base <= Len(file'))
  BY <1>1, RewritesTyped
<1>3. raced' \in BOOLEAN
  BY <1>1
<1>4. StagingTyped'
  BY <1>1, <1>2, <1>3 DEF StagingTyped
<1>5. ASSUME ~raced'
      PROVE  /\ Named(objects)
             /\ JobSound(job, DOMAIN objects, file', kind, LayersOf, writes + 1)
             /\ entry # NoEntry => EntryKept(entry, DOMAIN objects, file', LayersOf, writes + 1)
  <2>1. ~raced /\ job.pc \notin TwoReads
    BY <1>1, <1>5
  <2>2. job.seen # writes + 1 /\ entry.seen # writes + 1
    BY <1>1
  <2>3. /\ Named(objects) /\ JobSound(job, DOMAIN objects, file, kind, LayersOf, writes)
        /\ entry # NoEntry => EntryKept(entry, DOMAIN objects, file, LayersOf, writes)
    BY <2>1 DEF StagingInv
  <2>4. entry # NoEntry => EntryKept(entry, DOMAIN objects, file', LayersOf, writes + 1)
    BY <2>2, <2>3 DEF EntryKept
  <2>5. job.pc = "walk" => Walking(job, DOMAIN objects, file', LayersOf, writes + 1)
    BY <2>2, <2>3 DEF JobSound, Walking
  <2>6. job.pc = "cutting" => CuttingOn(job, DOMAIN objects, file', writes + 1)
    BY <2>2, <2>3 DEF JobSound, CuttingOn
  <2>7. JobSound(job, DOMAIN objects, file', kind, LayersOf, writes + 1)
    BY <2>1, <2>3, <2>5, <2>6 DEF JobSound, TwoReads
  <2> QED BY <2>3, <2>4, <2>7
<1> QED BY <1>1, <1>4, <1>5 DEF StagingInv

(* The invariant holds at first ...                                           *)
LEMMA StagingStarts == StagingInit => StagingInv
<1> SUFFICES ASSUME StagingInit PROVE StagingInv
  OBVIOUS
<1>1. PICK c \in Contents :
         /\ file = IF kind = "layers" THEN Header \o c ELSE c
         /\ layout \in (IF kind = "layers" THEN {l \in Layouts : ~ExceedsFile(l)} ELSE {<<>>})
  BY DEF StagingInit
<1>2. c \in Seq(Byte) /\ Header \in Seq(Byte) /\ Base \in Nat /\ Len(c) \in Nat
  BY StagingAssumption, LenProperties DEF Base
<1>3. file \in Seq(Byte) /\ (kind = "layers" => Base <= Len(file))
  <2>1. Header \o c \in Seq(Byte) /\ Len(Header \o c) = Base + Len(c)
    BY <1>2, ConcatProperties DEF Base
  <2> QED BY <1>1, <1>2, <2>1
<1>4. layout \in Seq(Chunk)
  BY <1>1, StagingAssumption, EmptySeq DEF Chunk
<1>5. job = IdleJob /\ entry = NoEntry /\ objects = <<>> /\ writes = 0 /\ raced = FALSE
  BY DEF StagingInit
<1>6. job \in JobState /\ job.seen = 0 /\ job.pc = "idle"
  BY <1>5, IdleTyped
<1>7. entry \in EntryState /\ entry.seen = 0
  <2> DEFINE none == <<>>
  <2>1. NoEntry = [whole |-> none, parts |-> none, split |-> "none", seen |-> 0]
    BY DEF NoEntry
  <2>2. none \in Seq(Seq(Byte)) /\ none \in Seq(Byte) /\ 0 \in Nat
    BY EmptySeq
  <2> HIDE DEF none
  <2> QED BY <1>5, <2>1, <2>2 DEF EntryState, SplitName
<1>8. StagingTyped
  <2>3. writes = 0 /\ job.seen = 0 /\ entry.seen = 0
    BY <1>5, <1>6, <1>7
  <2>4. raced \in BOOLEAN
    BY <1>5
  <2>1. writes \in Nat /\ 0 <= writes /\ job.seen <= writes /\ entry.seen <= writes /\ raced \in BOOLEAN
    BY <2>3, <2>4
  <2>2. kind \in {"layers", "chunks", "whole", "small"}
    BY DEF StagingInit
  <2> QED BY <1>3, <1>4, <1>6, <1>7, <2>1, <2>2 DEF StagingTyped
<1>9. Named(objects)
  BY <1>5 DEF Named
<1>10. JobSound(job, DOMAIN objects, file, kind, LayersOf, writes)
  BY <1>6 DEF JobSound
<1> QED BY <1>5, <1>8, <1>9, <1>10 DEF StagingInv

(* ... and every step keeps it.                                               *)
LEMMA StagingKeeps == StagingInv /\ [StagingNext]_stagingVars => StagingInv'
<1> SUFFICES ASSUME StagingInv, [StagingNext]_stagingVars PROVE StagingInv'
  OBVIOUS
<1>1. CASE UNCHANGED stagingVars
  <2>1. /\ file' = file /\ kind' = kind /\ layout' = layout /\ objects' = objects /\ job' = job
        /\ entry' = entry /\ raced' = raced /\ writes' = writes /\ LayersOf' = LayersOf
    BY <1>1 DEF stagingVars, LayersOf
  <2>2. StagingTyped'
    BY <2>1 DEF StagingInv, StagingTyped
  <2> QED BY <2>1, <2>2 DEF StagingInv
<1>2. CASE StartAdd \/ HashAndPublish
  BY <1>2, StartAddKeeps, HashAndPublishKeeps
<1>3. CASE FusedHeader \/ WalkLayer \/ WalkRest
  BY <1>3, FusedHeaderKeeps, WalkLayerKeeps, WalkRestKeeps
<1>4. CASE FusedOpen \/ FusedChunk
  BY <1>4, FusedOpenKeeps, FusedChunkKeeps
<1>5. CASE SplitLayers \/ SplitChunks
  BY <1>5, SplitLayersKeeps, SplitChunksKeeps
<1>6. CASE HashLayers \/ HashChunks
  BY <1>6, HashPartsKeeps DEF HashLayers, HashChunks
<1>7. CASE CopyLayer \/ CopyChunk
  BY <1>7, CopyPartKeeps DEF CopyLayer, CopyChunk
<1>8. CASE Rehash \/ HashWhole \/ CopyWhole
  BY <1>8, RehashKeeps, HashWholeKeeps, CopyWholeKeeps
<1>9. CASE PublishFails \/ WriteFile
  BY <1>9, PublishFailsKeeps, WriteFileKeeps
<1> QED BY <1>1, <1>2, <1>3, <1>4, <1>5, <1>6, <1>7, <1>8, <1>9 DEF StagingNext

(* What `av add` recorded is what `av checkout` gives back (materialize_file over *)
(* _compute_stage_result): through every route and every fallback, for any file, *)
(* layer table, gear table and any number of writes by the program that owns the *)
(* file, as long as none fell between the two reads of a route that reads twice. *)
THEOREM EntriesRestore == StagingSpec => []EntryRestores
<1>1. StagingInit => StagingInv
  BY StagingStarts
<1>2. StagingInv /\ [StagingNext]_stagingVars => StagingInv'
  BY StagingKeeps
<1>3. StagingInv => EntryRestores
  BY RestoredWhole
<1> QED BY <1>1, <1>2, <1>3, PTL DEF StagingSpec
=============================================================================
