------------------------------- MODULE Staging -------------------------------
(***************************************************************************)
(* `av add` of one file (src/python/av_cli/core.py, _compute_stage_result, *)
(* over src/core.cpp) and its way back (materialize_file): a large file is *)
(* stored as safetensors layers, as content-defined chunks or whole, each  *)
(* object under the bytes that were hashed. Some routes read the file once,*)
(* the others read it again to copy what they hashed, and the program that *)
(* writes the checkpoint may run meanwhile.                                *)
(***************************************************************************)
EXTENDS GearCutter, FiniteSets

CONSTANTS
    Header,      \* the header of a safetensors file, a sequence of bytes
    Layouts,     \* the layer tables it may declare: sequences of [start, size]
    Contents,    \* what the file may hold when it is first added
    MaxWrites, MaxSplitFaults, MaxAdds   \* bounds

(* The offsets of a layer are checked: a size is never negative.              *)
ASSUME StagingAssumption ==
    /\ Header \in Seq(Byte) /\ Contents \subseteq Seq(Byte)
    /\ Layouts \subseteq Seq([start : Nat, size : Nat])
    /\ {MaxWrites, MaxSplitFaults, MaxAdds} \subseteq Nat

VARIABLES
    file,        \* the bytes of the file in the working tree
    kind,        \* "layers", "chunks", "whole" or "small": what the name, the size
                 \* and the attributes make of it
    layout,      \* the layers its header declares, in the order of their offsets
    fused,       \* AV_FUSED_STAGING
    objects,     \* .av/objects: the bytes stored under each name
    job,         \* the staging that is running
    entry,       \* the index entry of the file, or NoEntry
    raced,       \* the file was written between the two reads of a staging
    failures,    \* publications that failed for lack of disk
    writes, adds \* bounds

stagingVars == <<file, kind, layout, fused, objects, job, entry, raced, failures, writes, adds>>

-----------------------------------------------------------------------------
NoEntry == [whole |-> <<>>, parts |-> <<>>, split |-> "none", seen |-> 0]
IdleJob == [pc |-> "idle", size |-> 0, cutter |-> Fresh, parts |-> <<>>,
            whole |-> <<>>, todo |-> <<>>, seen |-> 0]

Base == Len(Header)
LastByte(l) == l.start + l.size
BytesOf(from, n) == SubSeq(file, from + 1, IF from + n < Len(file) THEN from + n ELSE Len(file))

(* The layers of a file: its header, then what the header declares.           *)
LayersOf == <<[start |-> 0, size |-> Base]>> \o layout
Overlapping(ls) == \E i \in 1 .. Len(ls) - 1 : ls[i + 1].start < LastByte(ls[i])
ExceedsFile(ls) == \E i \in 1 .. Len(ls) : LastByte(ls[i]) > Len(file)

(* Do the layers hold every byte of the file, once and in order?              *)
Tiled(ls, n) ==
    /\ \A i \in 1 .. Len(ls) : ls[i].start = IF i = 1 THEN 0 ELSE LastByte(ls[i - 1])
    /\ LastByte(ls[Len(ls)]) = n

(* _atomic_publish_object, publish_object_bytes: an object that exists under  *)
(* the name is left alone.                                                    *)
Published(name, bytes) ==
    IF name \in DOMAIN objects THEN objects
    ELSE [n \in DOMAIN objects \union {name} |-> IF n = name THEN bytes ELSE objects[n]]

Quiet == UNCHANGED <<file, kind, layout, fused, entry, raced, failures, writes, adds>>
Restart(l) == [IdleJob EXCEPT !.pc = l, !.seen = job.seen]

(* Where a staging starts, and where it goes on when a route failed: layers   *)
(* are tried fused, then in two passes, then as any file; chunks likewise.    *)
FirstRoute ==
    CASE kind = "layers" -> IF fused THEN "fusedLayers" ELSE "splitLayers"
      [] kind = "chunks" -> IF fused THEN "fusedChunks" ELSE "splitChunks"
      [] kind = "whole"  -> "hashWhole"
      [] OTHER           -> "hashAndPublish"

(* The routes that read the file a second time.                               *)
TwoReads == {"splitLayers", "hashLayers", "copyLayers", "splitChunks", "hashChunks",
             "copyChunks", "hashWhole", "copyWhole", "rehash"}

-----------------------------------------------------------------------------
StagingInit ==
    /\ kind \in {"layers", "chunks", "whole", "small"} /\ fused \in BOOLEAN
    /\ \E c \in Contents :
         /\ kind # "small" => c # <<>>
         /\ file = IF kind = "layers" THEN Header \o c ELSE c
         /\ layout \in (IF kind = "layers" THEN {l \in Layouts : ~ExceedsFile(l)} ELSE {<<>>})
    /\ objects = <<>>
    /\ job = IdleJob /\ entry = NoEntry
    /\ raced = FALSE /\ failures = 0 /\ writes = 0 /\ adds = 0

(* `av add` of a file whose size or time differs from its entry's.            *)
StartAdd ==
    /\ job.pc = "idle" /\ adds < MaxAdds
    /\ entry = NoEntry \/ entry.seen # writes
    /\ job' = [IdleJob EXCEPT !.pc = FirstRoute, !.seen = writes]
    /\ adds' = adds + 1
    /\ UNCHANGED <<file, kind, layout, fused, objects, entry, raced, failures, writes>>

(* The file gets its index entry; the names of its parts are what restores it.*)
Staged(whole, parts, split) ==
    /\ entry' = [whole |-> whole, parts |-> parts, split |-> split, seen |-> job.seen]
    /\ job' = IdleJob
    /\ UNCHANGED <<file, kind, layout, fused, raced, failures, writes, adds>>

(* hash_and_publish_whole_file: one read, hashed as it is copied.             *)
HashAndPublish ==
    /\ job.pc = "hashAndPublish"
    /\ objects' = Published(file, file)
    /\ Staged(file, <<>>, "whole")

-----------------------------------------------------------------------------
(* stage_safetensors: the header is parsed and published from memory; what    *)
(* cannot be walked once, in order, is left to the two-pass split. The        *)
(* variant reads the header again, from where the parser left the file.       *)
FusedHeaderReread ==
    /\ job.pc = "fusedLayers"
    /\ IF Overlapping(LayersOf) \/ ExceedsFile(LayersOf)
       THEN job' = Restart("splitLayers") /\ UNCHANGED objects
       ELSE LET header == BytesOf(Base, Base) IN
            /\ objects' = Published(header, header)
            /\ job' = [job EXCEPT !.pc = "walk", !.whole = header, !.parts = <<header>>,
                                  !.todo = Tail(LayersOf), !.size = Len(file)]
    /\ Quiet
FusedHeader ==
    /\ job.pc = "fusedLayers"
    /\ IF Overlapping(LayersOf) \/ ExceedsFile(LayersOf)
       THEN job' = Restart("splitLayers") /\ UNCHANGED objects
       ELSE LET header == BytesOf(0, Base) IN
            /\ objects' = Published(header, header)
            /\ job' = [job EXCEPT !.pc = "walk", !.whole = header, !.parts = <<header>>,
                                  !.todo = Tail(LayersOf), !.size = Len(file)]
    /\ Quiet

(* The bytes up to the next layer go into the hash of the file alone, the     *)
(* layer's into both, and the layer is published. A file that ends early is   *)
(* split again.                                                               *)
WalkLayer ==
    /\ job.pc = "walk" /\ job.todo # <<>>
    /\ LET l == Head(job.todo)
           gap == BytesOf(Len(job.whole), l.start - Len(job.whole))
           bytes == BytesOf(l.start, l.size) IN
       IF LastByte(l) > Len(file)
       THEN job' = Restart("splitLayers") /\ UNCHANGED objects
       ELSE /\ objects' = Published(bytes, bytes)
            /\ job' = [job EXCEPT !.whole = @ \o gap \o bytes, !.parts = Append(@, bytes),
                                  !.todo = Tail(@)]
    /\ Quiet

WalkRest ==
    /\ job.pc = "walk" /\ job.todo = <<>>
    /\ IF Len(file) < job.size
       THEN job' = Restart("splitLayers") /\ UNCHANGED <<objects, entry>>
            /\ UNCHANGED <<file, kind, layout, fused, raced, failures, writes, adds>>
       ELSE /\ Staged(job.whole \o BytesOf(Len(job.whole), job.size - Len(job.whole)),
                      job.parts, "layers")
            /\ UNCHANGED objects

-----------------------------------------------------------------------------
(* stage_cdc: a chunk is read, hashed and published before the next is read;  *)
(* the cutter keeps the size the file had when it was opened.                 *)
FusedOpen ==
    /\ job.pc = "fusedChunks"
    /\ job' = [job EXCEPT !.pc = "cutting", !.size = Len(file)]
    /\ UNCHANGED objects /\ Quiet

(* The cutter c after each of the first bytes.                                *)
Fed(c, bytes, size) ==
    LET after[n \in 0 .. Len(bytes)] ==
            IF n = 0 THEN c ELSE Feed(after[n - 1], bytes[n], size)
    IN after

(* The next chunk of the file from the cutter's place on: to the next cut, or *)
(* to the end of the file.                                                    *)
NextChunk ==
    LET rest == SubSeq(file, job.cutter.pos + 1, Len(file))
        after == Fed(job.cutter, rest, job.size)
        cuts == {n \in 1 .. Len(rest) : after[n].start # job.cutter.start}
        n == IF cuts = {} THEN Len(rest) ELSE CHOOSE c \in cuts : \A d \in cuts : c <= d IN
    [bytes |-> SubSeq(rest, 1, n), cutter |-> after[n], last |-> cuts = {}]

FusedChunk ==
    /\ job.pc = "cutting"
    /\ LET c == NextChunk IN
       /\ objects' = Published(c.bytes, c.bytes)
       /\ IF c.last
          THEN Staged(job.whole \o c.bytes, Append(job.parts, c.bytes), "chunks")
          ELSE /\ job' = [job EXCEPT !.whole = @ \o c.bytes, !.cutter = c.cutter,
                                     !.parts = Append(@, c.bytes)]
               /\ Quiet

-----------------------------------------------------------------------------
(* split_and_hash_safetensors and chunk_and_hash_file: where the parts lie ... *)
SplitLayers ==
    /\ job.pc = "splitLayers"
    /\ job' = IF ExceedsFile(LayersOf) THEN Restart("hashWhole")
              ELSE [Restart("hashLayers") EXCEPT !.todo = LayersOf]
    /\ UNCHANGED objects /\ Quiet

SplitChunks ==
    /\ job.pc = "splitChunks"
    /\ job' = [Restart("hashChunks") EXCEPT !.todo = ChunksOf(file, Len(file))]
    /\ UNCHANGED objects /\ Quiet

(* ... then every part is read and hashed, by threads of a pool, and a part   *)
(* that ends early fails the whole split.                                     *)
HashParts(at, next) ==
    /\ job.pc = at
    /\ job' = IF \E i \in 1 .. Len(job.todo) : LastByte(job.todo[i]) > Len(file)
              THEN Restart("hashWhole")
              ELSE [job EXCEPT !.pc = next,
                       !.parts = [i \in 1 .. Len(job.todo) |->
                                    BytesOf(job.todo[i].start, job.todo[i].size)]]
    /\ UNCHANGED objects /\ Quiet

(* ... then copied, one by one, from a second read under the name of the      *)
(* first. A copy that ends early stores what there is.                        *)
CopyPart(at) ==
    /\ job.pc = at /\ job.todo # <<>>
    /\ LET l == Head(job.todo)
           name == job.parts[Len(job.parts) - Len(job.todo) + 1] IN
       objects' = Published(name, BytesOf(l.start, l.size))
    /\ job' = [job EXCEPT !.todo = Tail(@), 
                          !.pc = IF Len(job.todo) = 1 THEN "rehash" ELSE @]
    /\ Quiet

(* No room for an object: a fused route goes over to the two passes, chunks   *)
(* are given up for the whole file, and what is stored whole fails the add.   *)
(* The layers named so far stay the layers of the entry; if there is none yet *)
(* the whole file is stored.                                                  *)
AfterFailure ==
    LET done == SubSeq(job.parts, 1, Len(job.parts) - Len(job.todo)) IN
    CASE job.pc = "walk"       -> Restart("splitLayers")
      [] job.pc = "cutting"    -> Restart("splitChunks")
      [] job.pc = "copyChunks" -> Restart("hashWhole")
      [] job.pc = "copyLayers" -> IF done = <<>> THEN Restart("hashWhole")
                                  ELSE [job EXCEPT !.pc = "rehash", !.parts = done]
      [] OTHER                 -> IdleJob

PublishFails ==
    /\ job.pc \in {"walk", "cutting", "copyLayers", "copyChunks", "copyWhole", "hashAndPublish"}
    /\ failures < MaxSplitFaults
    /\ job' = AfterFailure
    /\ failures' = failures + 1
    /\ UNCHANGED <<file, kind, layout, fused, objects, entry, raced, writes, adds>>

(* hash_file_safe of the whole file, for an entry that has parts.             *)
Rehash ==
    /\ job.pc = "rehash"
    /\ Staged(file, job.parts, kind)
    /\ UNCHANGED objects

(* An artifact stored whole: hashed, then copied.                             *)
HashWhole ==
    /\ job.pc = "hashWhole"
    /\ job' = [job EXCEPT !.pc = "copyWhole", !.whole = file]
    /\ UNCHANGED objects /\ Quiet

CopyWhole ==
    /\ job.pc = "copyWhole"
    /\ objects' = Published(job.whole, file)
    /\ Staged(job.whole, <<>>, "whole")

-----------------------------------------------------------------------------
(* The program that owns the file overwrites, appends or truncates a byte; it *)
(* leaves the header alone.                                                   *)
HeaderKept == IF kind = "layers" THEN Base ELSE 0
Rewrites ==
    {[file EXCEPT ![i] = b] : i \in HeaderKept + 1 .. Len(file), b \in Byte}
    \union {Append(file, b) : b \in Byte}
    \union {SubSeq(file, 1, Len(file) - 1) : i \in HeaderKept + 1 .. Len(file)}

WriteFile ==
    /\ writes < MaxWrites
    /\ file' \in Rewrites \ {file}
    /\ raced' = (raced \/ job.pc \in TwoReads)
    /\ writes' = writes + 1
    /\ UNCHANGED <<kind, layout, fused, objects, job, entry, failures, adds>>

HashLayers == HashParts("hashLayers", "copyLayers")
HashChunks == HashParts("hashChunks", "copyChunks")
CopyLayer  == CopyPart("copyLayers")
CopyChunk  == CopyPart("copyChunks")

StagingNext ==
    \/ StartAdd \/ HashAndPublish
    \/ FusedHeader \/ WalkLayer \/ WalkRest \/ FusedOpen \/ FusedChunk
    \/ SplitLayers \/ HashLayers \/ CopyLayer
    \/ SplitChunks \/ HashChunks \/ CopyChunk
    \/ Rehash \/ HashWhole \/ CopyWhole
    \/ PublishFails \/ WriteFile

StagingSpec == StagingInit /\ [][StagingNext]_stagingVars

-----------------------------------------------------------------------------
StagingTypeOK ==
    /\ file \in Seq(Byte) /\ DOMAIN objects \subseteq Seq(Byte)
    /\ kind \in {"layers", "chunks", "whole", "small"} /\ fused \in BOOLEAN
    /\ entry.whole \in Seq(Byte) /\ Len(job.todo) <= Len(LayersOf) + Len(job.parts) + Len(file)
    /\ raced \in BOOLEAN /\ failures \in 0 .. MaxSplitFaults
    /\ writes \in 0 .. MaxWrites /\ adds \in 0 .. MaxAdds

(* materialize_file: the bytes an entry gives back, from the objects alone.   *)
Restored(e) ==
    IF e.parts = <<>> THEN objects[e.whole]
    ELSE FlattenSeq([i \in 1 .. Len(e.parts) |-> objects[e.parts[i]]])

(* What `av add` recorded is the file, `av checkout` gives it back, and its   *)
(* check of the hash passes - whatever the program that owns the file wrote   *)
(* between or during the steps of a route that reads once, and through every  *)
(* fallback - provided that the layers a header declares hold every byte of   *)
(* the file and were all stored.                                              *)
EntryRestores ==
    /\ entry # NoEntry /\ ~raced
    /\ entry.split = "layers" => /\ Tiled(LayersOf, Len(entry.whole))
                                 /\ Len(entry.parts) = Len(LayersOf)
    => /\ Restored(entry) = entry.whole
       /\ entry.seen = writes => entry.whole = file

(* "one atomic commit that checks out identically on any machine" (README.md):*)
(* a file that nobody touched while it was staged can be restored.            *)
ChecksOutIdentically ==
    entry # NoEntry /\ writes = 0 /\ failures = 0 => Restored(entry) = entry.whole

(* "Layer splitting failed for ..., falling back to whole-file" (the warning  *)
(* of _compute_stage_result): a file stays restorable when storing its parts  *)
(* failed.                                                                    *)
FallbackRestores ==
    entry # NoEntry /\ writes = 0 /\ (entry.split = "layers" =>
        Tiled(LayersOf, Len(entry.whole))) => Restored(entry) = entry.whole
=============================================================================
