------------------------------ MODULE MCClient ------------------------------
(***************************************************************************)
(* Small instances of the components of the command line that share no     *)
(* state: the working tree and its index, the walk that finds its files,   *)
(* staging, the cutter of chunks, trees and their rows, signing keys,      *)
(* doctor, export, restore and clone, backups. One run checks them side    *)
(* by side: `part`, chosen at first, is the one that moves.                *)
(***************************************************************************)
EXTENDS WorkTree, IgnoreRules, SigningKeys, Doctor, Transfer, CdcCutter, Staging, TreeRows, Backup

VARIABLE part

(* WorkTree: a terminal, and a training process with the SDK and watch.      *)
DoesDef == [q \in Proc |-> IF q = "terminal" THEN Command \ {"sdk", "watch", "scoped"}
                                             ELSE {"sdk", "watch", "scoped", "sdkCommit"}]
QuotaDef == [q \in Proc |-> IF q = "terminal" THEN 2 ELSE 1]

EverythingDef == [q \in Proc |-> Command]
FiveCommandsDef == [q \in Proc |-> 5]

(* Doctor: one artifact, stored whole.                                       *)
ObjectsOfDef == [p \in Artifact |-> {"x"}]
WholeDef == [p \in Artifact |-> "x"]

(* Transfer: c1 <- c2 <- c3, whose clocks are not in order; two blobs.       *)
ParentOfDef == [c \in Version |-> CASE c = "c1" -> Nil [] c = "c2" -> "c1" [] c = "c3" -> "c2"]
BlobOfDef == [c \in Version |-> IF c = "c1" THEN "x" ELSE "y"]
AuthoredAtDef == [c \in Version |-> CASE c = "c1" -> 1 [] c = "c2" -> 3 [] c = "c3" -> 2]

(* CdcCutter and Staging: bytes of two values; a header and layers that      *)
(* touch, leave a gap or overlap; contents of up to seven bytes.             *)
GearDef == [b \in Byte |-> IF b = 0 THEN 1 ELSE 2]
HeaderDef == <<0>>
Layer(at0, n) == [start |-> at0, size |-> n]
LayoutsDef == {<<Layer(1, 2), Layer(3, 2)>>, <<Layer(1, 2)>>, <<Layer(1, 2), Layer(4, 1)>>,
               <<Layer(1, 3), Layer(2, 3)>>}
ContentsDef == {<<>>, <<0, 1, 1>>, <<1, 0, 1, 1>>, <<0, 0, 1, 0, 0, 1, 0>>}

(* TreeRows: a file, a folder, a folder with the same content one level      *)
(* deeper, and a folder in the file's place; entries that share a layer or a *)
(* chunk.                                                                    *)
TreePathDef == {<<"a">>, <<"d", "a">>, <<"e", "d", "a">>, <<"a", "b">>}
LegacyPathDef == {<<"a">>, <<"code">>}
LayerOf(n, h) == [name |-> n, hash |-> h]
ChunkOf(h) == [hash |-> h]
RowEntryDef ==
    {[hash |-> "m1", size |-> 3, layers |-> {LayerOf("u", "x"), LayerOf("v", "y")}, chunks |-> {}],
     [hash |-> "m2", size |-> 4, layers |-> {LayerOf("u", "x"), LayerOf("v", "z")}, chunks |-> {}],
     [hash |-> "c1", size |-> 2, layers |-> {}, chunks |-> {ChunkOf("x"), ChunkOf("y")}]}
SizeOfDef == [h \in {"x", "y", "z"} |-> CASE h = "x" -> 1 [] h = "y" -> 2 [] h = "z" -> 3]
DatasetDef == {<<"d", "a">>}

(* Backup: the second revision keeps the first one's blob.                   *)
BlobsOfDef == [v \in Revision |-> IF v = "v1" THEN {"b1"} ELSE {"b1", "b2"}]

(* IgnoreRules: "1" with a compiled "6", every directory, inside of "2", what *)
(* is taken back, "2/1" anywhere, "/2", a blank line; a directory "4" that is *)
(* skipped by default, and "5" that always is.                               *)
Pattern(negate, lead, segments, trail) ==
    [negate |-> negate, lead |-> lead, segments |-> segments, trail |-> trail]
GitLineDef ==
    {Pattern(FALSE, FALSE, <<{1, 6}>>, FALSE), Pattern(FALSE, FALSE, <<{1, 2, 3}>>, TRUE),
     Pattern(FALSE, FALSE, <<{2}, AnySegments>>, FALSE), Pattern(TRUE, FALSE, <<{2}, {1}>>, FALSE),
     Pattern(TRUE, FALSE, <<{2}>>, FALSE), Pattern(FALSE, FALSE, <<AnySegments, {2}, {1}>>, FALSE),
     Pattern(FALSE, TRUE, <<{2}>>, FALSE), Pattern(FALSE, TRUE, <<>>, FALSE)}
TreeFileDef == {<<1>>, <<3>>, <<2, 1>>, <<2, 3>>, <<2, 6>>, <<2, 2, 1>>, <<3, 2, 1>>, <<4, 1>>, <<5, 1>>}
WalkRootDef == {<<>>, <<2>>}
NameGlobsDef == {{}, {3}}

ClientInit ==
    /\ part \in {"tree", "walk", "keys", "doctor", "transfer", "cutter", "staging", "rows", "backup"}
    /\ WtInit /\ (part # "tree" => \A f \in Path : disk[f] = "a")
    /\ WalkInit
    /\ part # "walk" => gitignore = <<>> /\ avignored = {} /\ ~defaults /\ walkRoot = <<>>
    /\ CutterInit /\ (part # "cutter" => content = <<>>)
    /\ StagingInit /\ (part # "staging" => kind = "whole" /\ ~fused /\ file = <<0, 1, 1>>)
    /\ KeysInit /\ DoctorInit /\ TransferInit /\ TreeInit /\ BackupInit

clientVars == <<part, wtVars, walkVars, keyVars, doctorVars, transferVars, cutterVars, stagingVars,
                treeVars, backupVars>>

ClientNext ==
    /\ UNCHANGED part
    /\ \/ part = "tree" /\ WtNext
       \/ part # "tree" /\ UNCHANGED wtVars
    /\ \/ part = "walk" /\ WalkNext
       \/ part # "walk" /\ UNCHANGED walkVars
    /\ \/ part = "keys" /\ KeysNext
       \/ part # "keys" /\ UNCHANGED keyVars
    /\ \/ part = "doctor" /\ DoctorNext
       \/ part # "doctor" /\ UNCHANGED doctorVars
    /\ \/ part = "transfer" /\ TransferNext
       \/ part # "transfer" /\ UNCHANGED transferVars
    /\ \/ part = "cutter" /\ CutterNext
       \/ part # "cutter" /\ UNCHANGED cutterVars
    /\ \/ part = "staging" /\ StagingNext
       \/ part # "staging" /\ UNCHANGED stagingVars
    /\ \/ part = "rows" /\ TreeNext
       \/ part # "rows" /\ UNCHANGED treeVars
    /\ \/ part = "backup" /\ BackupNext
       \/ part # "backup" /\ UNCHANGED backupVars

ClientSpec == ClientInit /\ [][ClientNext]_clientVars
=============================================================================
