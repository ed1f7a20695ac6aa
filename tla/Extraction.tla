----------------------------- MODULE Extraction -----------------------------
(***************************************************************************)
(* The extraction of a world: the files of an archive come in the order of *)
(* the archive, and the directory that is the world is known only once its *)
(* level.dat has come.  What comes before goes to a temporary directory    *)
(* and is moved at the end, what comes later goes to gamedata/world.       *)
(*                                                                         *)
(* The archive is one that writeTar made of a world (level.dat is put in   *)
(* front), or one that a user uploaded, in any order.  A path is the       *)
(* sequence of its names, and a path is in an archive once.                *)
(***************************************************************************)
EXTENDS Naturals, SequencesExt

CONSTANTS
    WalkOrder,     \* what a world may hold, in the order of fs.WalkDir
    UploadEntries, \* what an uploaded archive may hold
    MaxEntries,    \* bound on the entries of an uploaded archive
    MaxDiskFaults  \* bound on reads and writes that fail

ASSUME ExtractionAssumption ==
    /\ {MaxEntries, MaxDiskFaults} \subseteq Nat
    /\ WalkOrder \in Seq([path : Seq(STRING), type : {"file", "dir"}])
    /\ \A i \in 1..Len(WalkOrder) : WalkOrder[i].path # << >>

VARIABLES
    saved,      \* the files of the world that was archived; {} for an upload
    format,     \* "tar", "zip"
    archive,    \* the entries of the archive
    next,       \* the entry that is read next
    worldFound, worldRoot,
    tmp,        \* entries in FileCreator.tmpDir
    out,        \* files in gamedata/world, which is empty at first
    extraction, \* "entries", "finalize", "moving", "ok", "error"
    diskFaults

extractVars == <<saved, format, archive, next, worldFound, worldRoot, tmp, out, extraction,
                 diskFaults>>
archiveVars == <<saved, format, archive>>

\* An entry of an archive: a regular file, a directory or, in a tar, something else.
\* The name of a directory ends in a slash in every zip, and in a tar it may.
Entry(p, t) == [path |-> p, type |-> t]
Files(entries) == {e.path : e \in {f \in entries : f.type # "dir"}}
IsLevelDat(e) == Last(e.path) = "level.dat"

\* TrimSuffix(path, "level.dat"), which trims nothing of a name that ends in a slash.
RootsOf(e) ==
    (IF e.type = "dir" THEN {e.path} ELSE {})
    \cup (IF e.type = "dir" /\ format = "zip" THEN {} ELSE {Front(e.path)})

ExtractTypeOK ==
    /\ next \in 1..(Len(archive) + 1)
    /\ format \in {"tar", "zip"}
    /\ worldFound \in BOOLEAN
    /\ extraction \in {"entries", "finalize", "moving", "ok", "error"}
    /\ tmp \subseteq ToSet(archive)
    /\ diskFaults \in 0..MaxDiskFaults

DiskFault == diskFaults < MaxDiskFaults /\ diskFaults' = diskFaults + 1

-----------------------------------------------------------------------------
(***************************************************************************)
(* writeTar                                                                *)
(***************************************************************************)

World == <<"world">>
LevelDat == <<"level.dat">>

\* The elements of a sequence that are in S, in their order.
SelectUpTo(s, S) ==
    LET upTo[n \in 0..Len(s)] ==
            IF n = 0 THEN << >>
            ELSE IF s[n] \in S THEN Append(upTo[n - 1], s[n]) ELSE upTo[n - 1]
    IN upTo
Select(s, S) == SelectUpTo(s, S)[Len(s)]

\* The walk meets a directory before what is in it.
Walk(tree) ==
    Select(WalkOrder, {e \in ToSet(WalkOrder) :
                           \/ e.path \in tree
                           \/ e.type = "dir" /\ \E f \in tree : IsPrefix(e.path, f)})

\* Mutation of WriteTar: the walk from the beginning to the end.
WriteTarAsWalked(tree) ==
    <<Entry(World, "dir")>>
    \o [i \in 1..Len(Walk(tree)) |-> [Walk(tree)[i] EXCEPT !.path = World \o @]]

\* The directory and its level.dat first, then the walk without them.
WriteTar(tree) ==
    LET rest == Select(Walk(tree), {e \in ToSet(Walk(tree)) : e.path # LevelDat})
        first == IF LevelDat \in tree THEN <<Entry(LevelDat, "file")>> ELSE << >>
        all == first \o rest
    IN <<Entry(World, "dir")>> \o [i \in 1..Len(all) |-> [all[i] EXCEPT !.path = World \o @]]

Trees == SUBSET Files(ToSet(WalkOrder))
Uploads == {s \in SeqOf(UploadEntries, MaxEntries) : IsInjective(s)}

\* ExtractionPipeline and FileCreator as they are made: nothing is read yet.
PipelineInit ==
    /\ next = 1 /\ worldFound = FALSE /\ worldRoot = << >>
    /\ tmp = {} /\ out = {}
    /\ extraction = "entries" /\ diskFaults = 0

ExtractInit ==
    /\ \/ \E tree \in Trees : saved = tree /\ archive = WriteTar(tree) /\ format = "tar"
       \/ saved = {} /\ archive \in Uploads /\ format \in {"tar", "zip"}
    /\ PipelineInit

-----------------------------------------------------------------------------
(***************************************************************************)
(* ExtractionPipeline.Run                                                  *)
(***************************************************************************)

\* strings.HasPrefix(path, worldRoot): worldRoot ends in a slash, or is empty.
UnderRoot(root, path) == IsStrictPrefix(root, path)
TrimRoot(root, path) == SubSeq(path, Len(root) + 1, Len(path))

\* FileCreator.CreateFile
CreateFile(e) ==
    LET found == ~worldFound /\ IsLevelDat(e)
    IN \E root \in IF found THEN RootsOf(e) ELSE {worldRoot} :
        /\ worldFound' = (worldFound \/ found)
        /\ worldRoot' = root
        /\ IF ~worldFound'
           THEN tmp' = tmp \cup {e} /\ UNCHANGED out
           ELSE /\ out' = IF e.type # "dir" /\ UnderRoot(root, e.path)
                          THEN out \cup {TrimRoot(root, e.path)} ELSE out
                /\ UNCHANGED tmp

\* One turn of the loop of Unarchive; a zip has been written to a file first.
UnarchiveEntry ==
    /\ extraction = "entries" /\ next <= Len(archive)
    /\ LET e == archive[next] IN
          \/ /\ e.type \in {"file", "dir"} \/ format = "zip"
             /\ CreateFile(e)
             /\ next' = next + 1
             /\ UNCHANGED <<extraction, diskFaults>>
          \/ /\ (e.type = "other" /\ format = "tar" /\ UNCHANGED diskFaults) \/ DiskFault
             /\ extraction' = "error"
             /\ UNCHANGED <<next, worldFound, worldRoot, tmp, out>>
    /\ UNCHANGED archiveVars

EndOfArchive ==
    /\ extraction = "entries" /\ next > Len(archive)
    /\ extraction' = "finalize"
    /\ UNCHANGED <<archiveVars, next, worldFound, worldRoot, tmp, out, diskFaults>>

\* Files and directories of tmpDir that are in the root of the world.
InTmpRoot == {e \in tmp : UnderRoot(worldRoot, e.path)}

\* FileCreator.Finalize
Finalize ==
    /\ extraction = "finalize"
    /\ extraction' = IF ~worldFound THEN "error"
                     ELSE IF worldRoot = << >> \/ InTmpRoot # {}
                             \/ \E e \in tmp : e.type = "dir" /\ e.path = worldRoot
                     THEN "moving" ELSE "ok"
    /\ UNCHANGED <<archiveVars, next, worldFound, worldRoot, tmp, out, diskFaults>>

\* MoveAll: gamedata/world was made for the level.dat, so that rename(2) of the directory
\* itself fails and its files are moved one by one, by rename(2) or by a copy; at the
\* end the old directory is removed.
MoveAll ==
    /\ extraction = "moving"
    /\ \/ \E e \in InTmpRoot :
             /\ e.type # "dir"
             /\ out' = out \cup {TrimRoot(worldRoot, e.path)} /\ tmp' = tmp \ {e}
             /\ UNCHANGED <<extraction, diskFaults>>
       \/ /\ \A e \in InTmpRoot : e.type = "dir"
          /\ tmp' = tmp \ InTmpRoot
          /\ extraction' = "ok" /\ UNCHANGED <<out, diskFaults>>
       \/ /\ DiskFault
          /\ extraction' = "error" /\ UNCHANGED <<tmp, out>>
    /\ UNCHANGED <<archiveVars, next, worldFound, worldRoot>>

ExtractNext == UnarchiveEntry \/ EndOfArchive \/ Finalize \/ MoveAll

-----------------------------------------------------------------------------

\* Every file under the root that the archive's first level.dat gives, and nothing else.
WorldOfArchive ==
    \E i \in 1..Len(archive) :
        /\ IsLevelDat(archive[i])
        /\ \A j \in 1..(i - 1) : ~IsLevelDat(archive[j])
        /\ \E root \in RootsOf(archive[i]) :
              out = {TrimRoot(root, p) :
                         p \in {q \in Files(ToSet(archive)) : UnderRoot(root, q)}}

\* A world that is extracted without an error is every file under the root that the
\* archive's first level.dat gives, wherever in the archive it was, and nothing else: the
\* directory of a file of this name, but what is in it if a directory has the name.
\* A world archived by writeTar comes back file for file, even with another level.dat
\* deeper in it.
ExtractedWhole ==
    extraction = "ok" => WorldOfArchive /\ (LevelDat \in saved => out = saved)
=============================================================================
