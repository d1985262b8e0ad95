------------------------------ MODULE MCStorage ------------------------------
(***************************************************************************)
(* The models of Kernel/FileSystem, checked in one run: a behaviour uses a    *)
(* disk cache or a pipe, works on the clusters of FAT32 files, on the entries *)
(* of a FAT32 directory or on paths, and the other models stay as they were.  *)
(***************************************************************************)
EXTENDS DiskCache, TLC

CONSTANTS
    Streams, Bytes, PipeCapacity,
    Files, m_cluster_count, bytes_per_cluster, MaxSize, MaxRefs, Hints, FreeCounts,
    entries_per_cluster, MaxClusters, Threads, MaxLeaked

VARIABLES
    exercised,
    side, m_is_closed, reader_count, writer_count, read_offset, write_offset,
    size, buffer, read_waiters, write_waiters, phase, result, copied,
    fat, volume, m_free_clusters, m_last_free_cluster, entry, file, dirOp, wr, written, fileDefect,
    slots, names, dirDefect,
    exists, refcount, owner, pathCall, handle, leaked, pathDefect

pipeVars == <<side, m_is_closed, reader_count, writer_count, read_offset, write_offset,
              size, buffer, read_waiters, write_waiters, phase, result, copied>>
fileVars == <<fat, volume, m_free_clusters, m_last_free_cluster, entry, file, dirOp, wr, written, fileDefect>>
dirVars == <<slots, names, dirDefect>>
pathVars == <<exists, refcount, owner, pathCall, handle, leaked, pathDefect>>
MCVars == <<vars, pipeVars, fileVars, dirVars, pathVars, exercised>>

MCWrites == {<<0, 1>>, <<1, 2>>, <<2, 1>>}

MCNames == {"short", "one", "two"}
MCSequences == [n \in MCNames |-> CASE n = "short" -> 0 [] n = "one" -> 1 [] n = "two" -> 2]

MCObjects == {"d", "s", "f"}
MCDirectories == {"d", "s"}
MCParent == [o \in MCObjects |-> IF o = "d" THEN "root" ELSE "d"]
C(fn, path, create) == [fn |-> fn, path |-> path, create |-> create]
MCCalls ==
    {C("open", <<"d", "f">>, FALSE), C("open", <<"d", "s", "..", "f">>, TRUE), C("open", <<".">>, FALSE),
     C("open", <<"d", "s">>, FALSE),
     C("create", <<"d">>, FALSE), C("create", <<"d", ".", "s">>, FALSE),
     C("create", <<"d", "f", "d">>, FALSE),
     C("remove", <<"d">>, FALSE), C("remove", <<"d", "s">>, FALSE), C("remove", <<"d", "f">>, FALSE),
     C("remove", <<"d", "..">>, FALSE)}

ThePipe == INSTANCE Pipe WITH capacity <- PipeCapacity
Volume == INSTANCE FAT32 WITH Writes <- MCWrites, data <- volume, defect <- fileDefect
Dir == INSTANCE FAT32Directory WITH Names <- MCNames, Sequences <- MCSequences, defect <- dirDefect
Path == INSTANCE FAT32Path WITH Objects <- MCObjects, Directories <- MCDirectories, Parent <- MCParent,
                                Calls <- MCCalls, call <- pathCall, defect <- pathDefect

\* What a disk and the buffer of a pipe hold at first does not matter to the others.
MCInit ==
    /\ exercised \in {"cache", "pipe", "files", "directory", "paths"}
    /\ Init /\ disk = [b \in Blocks |-> Zero]
    /\ ThePipe!Init
    /\ exercised # "pipe" => /\ reader_count = 1 /\ \A s \in Files : side[s] = "none"
                              /\ buffer = [p \in ThePipe!Positions |-> Zero]
    /\ Volume!Init
    /\ Dir!Init /\ (exercised # "directory" => names = {} /\ DOMAIN slots = 0..entries_per_cluster - 1)
    /\ Path!Init /\ (exercised # "paths" => exists = {})

MCNext ==
    /\ UNCHANGED exercised
    /\ \/ exercised = "cache" /\ Next /\ UNCHANGED <<pipeVars, fileVars, dirVars, pathVars>>
       \/ exercised = "pipe" /\ ThePipe!Next /\ UNCHANGED <<vars, fileVars, dirVars, pathVars>>
       \/ exercised = "files" /\ Volume!Next /\ UNCHANGED <<vars, pipeVars, dirVars, pathVars>>
       \/ exercised = "directory" /\ Dir!Next /\ UNCHANGED <<vars, pipeVars, fileVars, pathVars>>
       \/ exercised = "paths" /\ Path!Next /\ UNCHANGED <<vars, pipeVars, fileVars, dirVars>>

MCSpec == MCInit /\ [][MCNext]_MCVars

\* The two files, the two threads, and two of the three streams have the same names.
Symmetry == Permutations(Files)

\* The type invariants of the five.
TypesOK ==
    CASE exercised = "cache" -> TypeOK
      [] exercised = "pipe" -> ThePipe!TypeOK
      [] exercised = "files" -> Volume!TypeOK
      [] exercised = "directory" -> Dir!TypeOK
      [] exercised = "paths" -> Path!TypeOK

\* List, map, order of use and dirtiness of the cached blocks agree; whoever waits at a pipe has
\* a reason to and will be woken, and no list holds the blocker of a call that has returned.
BuffersExact ==
    /\ exercised = "cache" => MapMatchesList /\ HoldsMostRecent /\ FlushAllIsDurable
    /\ exercised = "pipe" => ThePipe!NoLostWakeup /\ ThePipe!WaitersAreAlive

\* Pipe!ImplementsByteStream: the ring buffer is a first-in first-out stream.
ImplementsByteStream == ThePipe!ImplementsByteStream

\* The file allocation table and the count of free clusters agree with the files.
TableExact == exercised = "files" => Volume!ChainsExact /\ Volume!FreeCountNeverOverstates

\* What was written to a file stays there until it is overwritten (FAT32!WrittenStays).
WrittenStays == exercised = "files" => Volume!WrittenStays

\* create_file and remove_file keep the directory readable, wherever the entries of the
\* names lie: a search finds every name once and whole, nothing else, and may stop at the
\* end mark.
DirectoryExact ==
    exercised = "directory" /\ dirDefect = "none" => Dir!DirectoryExact /\ Dir!NothingBehindTheEnd

\* Walks along paths count their references exactly and never wait for a directory while
\* they have another one locked; what somebody has open is not removed, and neither are the
\* directories above it.
WalksExact ==
    /\ exercised = "paths" => Path!ReferencesExact /\ Path!WaitsEmptyHanded /\ Path!OpenExists
    /\ exercised = "files" => Volume!OpenFilesExist
==============================================================================
