-------------------------------- MODULE FAT32 --------------------------------
(***************************************************************************)
(* The files of a FAT32 volume (Kernel/FileSystem/FAT32): the file            *)
(* allocation table, the table of open files, File::read and File::write,     *)
(* creating and removing files of one directory.                             *)
(*                                                                         *)
(* A file has a lock, so one call of read or write works on it at a time;      *)
(* calls on different files interleave at every release of m_fat_cache_lock    *)
(* and m_data_lock.  Opening, creating and removing hold the lock of the       *)
(* directory, and a call that has read a directory entry has not yet looked    *)
(* at the table of open files: dirOp is what it has read.                     *)
(*                                                                         *)
(* A byte of the volume is the file and the offset it was last written for,    *)
(* or ZeroByte.  Where the code goes wrong the model records the defect and        *)
(* stops: what it would do next is the overwriting of unrelated data.          *)
(***************************************************************************)
EXTENDS Integers, Sequences, FiniteSets, FiniteSetsExt

CONSTANTS Files, m_cluster_count, bytes_per_cluster, MaxSize, MaxRefs,
          Writes,     \* the offsets and sizes of the writes
          Hints,      \* where the search may begin after mounting
          FreeCounts  \* the free counts FSINFO may hold (it may lag behind)

VARIABLES
    fat,                    \* the file allocation table
    data,                   \* the data blocks, block b being cluster b + 2
    m_free_clusters,
    m_last_free_cluster,    \* where the next search for a free cluster begins
    entry,                  \* the directory entry of every file
    file,                   \* m_identifier_to_file: the open files
    dirOp,                  \* the call that holds the directory, and the entry it has read
    wr,                     \* the call of File::write in progress on every file
    written,                \* history: the offsets of every file that have been written
    defect                  \* "none", or what went wrong

vars == <<fat, data, m_free_clusters, m_last_free_cluster, entry, file, dirOp, wr, written, defect>>

free_cluster == 0
reserved_cluster_count == 2
m_end_of_chain == m_cluster_count + reserved_cluster_count
root_dir_cluster == reserved_cluster_count
Clusters == reserved_cluster_count .. m_end_of_chain - 1
ZeroByte == <<>>

ceiling_divide(a, b) == (a + b - 1) \div b
pure_cluster_value(c) == c - reserved_cluster_count

NoEntry == [exists |-> FALSE, first |-> 0, size |-> 0]
NewEntry == [exists |-> TRUE, first |-> 0, size |-> 0]
Closed == [refcount |-> 0, first |-> 0, size |-> 0, ranges |-> <<>>]
NoOp == [op |-> "none"]
NoWrite == [pc |-> "idle", offset |-> 0, size |-> 0, chain |-> <<>>]

----------------------------------------------------------------------------
(* Chains and the ranges a File caches of its chain.                        *)

\* The clusters linked from c on, up to the end of the chain (or <<>> if it has none).
Chain(c) ==
    LET nth[n \in 0..m_end_of_chain] ==
            IF n = 0 THEN c
            ELSE LET current == nth[n - 1]
                 IN  IF current = m_end_of_chain THEN current ELSE fat[current]
        ends == {n \in 1..m_end_of_chain : nth[n] = m_end_of_chain}
    IN  IF ends = {} THEN <<>> ELSE [i \in 1..Min(ends) |-> nth[i - 1]]

\* A range begins with the first cluster and wherever a link is not to the next cluster.
compute_contiguous_ranges(first) ==
    LET chain == Chain(first)
        begins == SelectSeq([i \in 1..Len(chain) |-> i - 1],
                            LAMBDA i : i = 0 \/ chain[i + 1] # chain[i] + 1)
    IN  [k \in 1..Len(begins) |->
            [file_offset_cluster |-> IF begins[k] = 0 THEN 0 ELSE begins[k] + 1,
             global_cluster |-> chain[begins[k] + 1]]]

RangesOf(f) == IF file[f].ranges = <<>> THEN compute_contiguous_ranges(file[f].first)
               ELSE file[f].ranges

\* The range the binary search ends in is the last one that begins at or before offset.
cluster_from_offset(ranges, offset) ==
    LET r == ranges[Max({k \in DOMAIN ranges : ranges[k].file_offset_cluster <= offset})]
    IN  r.global_cluster + (offset - r.file_offset_cluster)

last_cluster(f, ranges) ==
    IF file[f].size < bytes_per_cluster THEN file[f].first
    ELSE LET r == ranges[Len(ranges)]
         IN  r.global_cluster
                + (ceiling_divide(file[f].size, bytes_per_cluster) - 1 - r.file_offset_cluster)

\* The clusters the search looks at: from the hint on, then before it.  The last two
\* clusters of the volume are not among them.
SearchOrder(hint) ==
    LET after == IF hint < m_cluster_count THEN m_cluster_count - hint ELSE 0
        before == IF hint > reserved_cluster_count THEN hint - reserved_cluster_count ELSE 0
    IN  [i \in 1..after + before |->
            IF i <= after THEN hint + i - 1 ELSE reserved_cluster_count + (i - after) - 1]

FreeInOrder == SelectSeq(SearchOrder(m_last_free_cluster), LAMBDA c : fat[c] = free_cluster)

\* The table with chain linked behind link_to (free_cluster: behind nothing).
Linked(table, chain, link_to) ==
    [c \in DOMAIN table |->
        CASE \E i \in DOMAIN chain : chain[i] = c ->
                LET i == CHOOSE i \in DOMAIN chain : chain[i] = c
                IN  IF i = Len(chain) THEN m_end_of_chain ELSE chain[i + 1]
          [] c = link_to /\ link_to # free_cluster -> chain[1]
          [] OTHER -> table[c]]

----------------------------------------------------------------------------
(* Mounting: the free count comes from FSINFO or from a scan of the table,    *)
(* the hint from FSINFO (or is the 0 the scan stores).  The root directory    *)
(* has one cluster.                                                         *)

Init ==
    /\ fat = [c \in 0..m_end_of_chain - 1 |->
                 IF c \in {0, 1, root_dir_cluster} THEN m_end_of_chain ELSE free_cluster]
    /\ data = [b \in 0..m_cluster_count - 1 |-> [i \in 0..bytes_per_cluster - 1 |-> ZeroByte]]
    /\ m_free_clusters \in FreeCounts
    /\ m_last_free_cluster \in Hints
    /\ entry = [f \in Files |-> NoEntry]
    /\ file = [f \in Files |-> Closed]
    /\ dirOp = NoOp
    /\ wr = [f \in Files |-> NoWrite]
    /\ written = [f \in Files |-> {}]
    /\ defect = "none"

DiskUnchanged == UNCHANGED <<fat, data, m_free_clusters, m_last_free_cluster>>

----------------------------------------------------------------------------
(* The directory: create_file, open_file_from_path, remove_file, close.       *)

create_file(f) ==
    /\ dirOp = NoOp /\ ~entry[f].exists
    /\ entry' = [entry EXCEPT ![f] = NewEntry]
    /\ written' = [written EXCEPT ![f] = {}]
    /\ DiskUnchanged /\ UNCHANGED <<file, dirOp, wr, defect>>

\* next_native() has found the entry of f.
lookup(f, op) ==
    /\ dirOp = NoOp /\ entry[f].exists /\ file[f].refcount < MaxRefs
    /\ dirOp' = [op |-> op, f |-> f, first |-> entry[f].first, size |-> entry[f].size]
    /\ DiskUnchanged /\ UNCHANGED <<entry, file, wr, written, defect>>

\* A File that is not open yet is made from the entry that was read.
open_or_incref ==
    /\ dirOp.op = "open"
    /\ LET f == dirOp.f
           opened == [Closed EXCEPT !.refcount = 1, !.first = dirOp.first, !.size = dirOp.size]
       IN  /\ file' = [file EXCEPT ![f] = IF @.refcount > 0 THEN [@ EXCEPT !.refcount = @ + 1]
                                          ELSE opened]
           /\ defect' = IF file[f].refcount = 0
                           /\ <<dirOp.first, dirOp.size>> # <<entry[f].first, entry[f].size>>
                        THEN "stale entry" ELSE defect
    /\ dirOp' = NoOp
    /\ DiskUnchanged /\ UNCHANGED <<entry, wr, written>>

\* Mutant: the first cluster stays allocated.
free_keeps_first(first) ==
    fat' = [c \in DOMAIN fat |->
               IF \E i \in DOMAIN Chain(first) : i > 1 /\ Chain(first)[i] = c THEN free_cluster ELSE fat[c]]

\* The freed clusters are not added to m_free_clusters.
free_cluster_chain_starting_at(first) ==
    fat' = [c \in DOMAIN fat |->
               IF \E i \in DOMAIN Chain(first) : Chain(first)[i] = c THEN free_cluster ELSE fat[c]]

remove_file ==
    /\ dirOp.op = "remove"
    /\ LET f == dirOp.f IN
       IF file[f].refcount > 0
       THEN UNCHANGED <<fat, entry, written, defect>>      \* FILE_IS_BUSY
       ELSE /\ IF dirOp.first # 0 THEN free_cluster_chain_starting_at(dirOp.first)
               ELSE UNCHANGED fat
            /\ entry' = [entry EXCEPT ![f] = NoEntry]
            /\ written' = [written EXCEPT ![f] = {}]
            /\ defect' = IF dirOp.first # entry[f].first THEN "stale entry" ELSE defect
    /\ dirOp' = NoOp
    /\ UNCHANGED <<data, m_free_clusters, m_last_free_cluster, file, wr>>

\* The last reference deletes the File.
close(f) ==
    /\ file[f].refcount > IF wr[f].pc = "idle" THEN 0 ELSE 1
    /\ file' = [file EXCEPT ![f] = IF @.refcount = 1 THEN Closed
                                   ELSE [@ EXCEPT !.refcount = @ - 1]]
    /\ DiskUnchanged /\ UNCHANGED <<entry, dirOp, wr, written, defect>>

----------------------------------------------------------------------------
(* File::read and File::write.                                              *)

\* What read leaves behind: the ranges.
read(f) ==
    /\ file[f].size > 0 /\ wr[f].pc = "idle" /\ file[f].ranges = <<>>
    /\ file' = [file EXCEPT ![f].ranges = compute_contiguous_ranges(file[f].first)]
    /\ DiskUnchanged /\ UNCHANGED <<entry, dirOp, wr, written, defect>>

ClustersOf(f) == ceiling_divide(file[f].size, bytes_per_cluster)
NeededClusters(f) == ceiling_divide(wr[f].offset + wr[f].size, bytes_per_cluster)

\* allocate_cluster_chain compares with m_free_clusters before it takes the lock.
write(f, offset, size) ==
    /\ file[f].refcount > 0 /\ wr[f].pc = "idle"
    /\ file' = [file EXCEPT ![f].ranges = RangesOf(f)]
    /\ LET needed == ceiling_divide(offset + size, bytes_per_cluster)
           grows == ClustersOf(f) < needed
       IN  /\ wr' = [wr EXCEPT ![f] = [NoWrite EXCEPT !.offset = offset, !.size = size,
                                                     !.pc = IF grows THEN "allocate" ELSE "meta"]]
           /\ defect' = IF grows /\ needed - ClustersOf(f) > m_free_clusters THEN "panic" ELSE defect
    /\ DiskUnchanged /\ UNCHANGED <<entry, dirOp, written>>

allocate_cluster_chain(f) ==
    /\ wr[f].pc = "allocate"
    /\ LET count == NeededClusters(f) - ClustersOf(f)
           link_to == last_cluster(f, file[f].ranges)
           chain == SubSeq(FreeInOrder, 1, count)
           mine == Chain(file[f].first)
       IN  IF Len(FreeInOrder) < count
           THEN defect' = "panic" /\ UNCHANGED <<fat, m_free_clusters, m_last_free_cluster, wr>>
           ELSE /\ fat' = Linked(fat, chain, link_to)
                /\ m_free_clusters' = m_free_clusters - count
                /\ m_last_free_cluster' = chain[count] + 1
                /\ wr' = [wr EXCEPT ![f].chain = chain, ![f].pc = "zero"]
                /\ defect' = IF link_to # mine[Len(mine)] THEN "ranges"
                             ELSE IF count > m_free_clusters THEN "free count" ELSE defect
    /\ UNCHANGED <<data, entry, file, dirOp, written>>

\* Block b holds a byte that some file can still read.
HoldsWritten(b) ==
    /\ fat[b + reserved_cluster_count] # free_cluster
    /\ \E f \in Files : \E o \in written[f] : \E i \in DOMAIN data[b] : data[b][i] = <<f, o>>

\* Mutant: the numbers of the clusters are taken for the numbers of their blocks.
GapBlocks_unshifted(chain, gap) == {chain[i] : i \in 1..gap}

\* The blocks of the first gap clusters of the new chain.
GapBlocks(chain, gap) == {pure_cluster_value(chain[i]) : i \in 1..gap}

ZeroBlock == [i \in 0..bytes_per_cluster - 1 |-> ZeroByte]

\* The new clusters before the offset are zeroed, and for an unaligned write the block
\* whose index is the last new cluster (which is the data of the second cluster after it).
zero_fill(f) ==
    /\ wr[f].pc = "zero"
    /\ LET chain == wr[f].chain
           gap == ceiling_divide(wr[f].offset, bytes_per_cluster) - ClustersOf(f)
           unaligned == (wr[f].size - (wr[f].offset % bytes_per_cluster)) % bytes_per_cluster # 0
           last == chain[Len(chain)]
           zeroed == GapBlocks(chain, gap) \cup IF unaligned THEN {last} ELSE {}
       IN  /\ data' = [b \in DOMAIN data |-> IF b \in zeroed THEN ZeroBlock ELSE data[b]]
           /\ file' = [file EXCEPT ![f].first = IF @ = 0 THEN chain[1] ELSE @]
           /\ defect' = IF unaligned /\ HoldsWritten(last) THEN "zero fill" ELSE defect
    /\ wr' = [wr EXCEPT ![f].pc = "meta"]
    /\ UNCHANGED <<fat, m_free_clusters, m_last_free_cluster, entry, dirOp, written>>

\* set_size, flush_meta_modifications and the new ranges, when the file has grown.
set_size(f) ==
    /\ wr[f].pc = "meta"
    /\ wr' = [wr EXCEPT ![f].pc = "copy"]
    /\ LET end_of_write == wr[f].offset + wr[f].size IN
       IF end_of_write > file[f].size
       THEN /\ file' = [file EXCEPT ![f].size = end_of_write,
                                    ![f].ranges = compute_contiguous_ranges(file[f].first)]
            /\ entry' = [entry EXCEPT ![f].first = file[f].first, ![f].size = end_of_write]
       ELSE UNCHANGED <<file, entry>>
    /\ DiskUnchanged /\ UNCHANGED <<dirOp, written, defect>>

\* The bytes go to the clusters cluster_from_offset names, up to the cluster before the
\* one whose copy faults on the caller's buffer (count: the bytes copied).
copy(f, count) ==
    /\ wr[f].pc = "copy"
    /\ LET offsets == wr[f].offset .. wr[f].offset + count - 1
           Cluster(o) == cluster_from_offset(file[f].ranges, o \div bytes_per_cluster)
           mine == Chain(file[f].first)
       IN  /\ IF \A o \in offsets : Cluster(o) = mine[o \div bytes_per_cluster + 1]
              THEN /\ data' = [b \in DOMAIN data |-> [i \in DOMAIN data[b] |->
                                  LET here == {o \in offsets : o % bytes_per_cluster = i
                                                 /\ pure_cluster_value(Cluster(o)) = b}
                                  IN  IF here = {} THEN data[b][i] ELSE <<f, Max(here)>>]]
                   /\ UNCHANGED defect
              ELSE defect' = "ranges" /\ UNCHANGED data
           /\ written' = [written EXCEPT ![f] = @ \cup offsets]
    /\ wr' = [wr EXCEPT ![f] = NoWrite]
    /\ UNCHANGED <<fat, m_free_clusters, m_last_free_cluster, entry, file, dirOp>>

\* How many bytes a write may have copied: all, or those before some cluster boundary.
CopiedCounts(f) ==
    {n \in 0..wr[f].size : n = wr[f].size \/ (wr[f].offset + n) % bytes_per_cluster = 0 \/ n = 0}

----------------------------------------------------------------------------

Next ==
    /\ defect = "none"
    /\ \/ \E f \in Files :
             \/ create_file(f)
             \/ \E op \in {"open", "remove"} : lookup(f, op)
             \/ close(f) \/ read(f)
             \/ \E w \in Writes : write(f, w[1], w[2])
             \/ allocate_cluster_chain(f) \/ zero_fill(f) \/ set_size(f)
             \/ \E count \in CopiedCounts(f) : copy(f, count)
       \/ open_or_incref \/ remove_file

Spec == Init /\ [][Next]_vars

----------------------------------------------------------------------------
(* Properties.                                                              *)

Defects == {"none", "panic", "stale entry", "ranges", "zero fill", "free count"}
Ranges == [file_offset_cluster : 0..m_cluster_count, global_cluster : DOMAIN fat]
FileBytes == {ZeroByte} \cup (Files \X (0..MaxSize - 1))

\* The types of the variables.
TypeOK ==
    /\ fat \in [0..m_end_of_chain - 1 -> {free_cluster, m_end_of_chain} \cup Clusters]
    /\ data \in [0..m_cluster_count - 1 -> [0..bytes_per_cluster - 1 -> FileBytes]]
    /\ m_last_free_cluster \in 0..m_cluster_count
    /\ entry \in [Files -> [exists : BOOLEAN, first : {0} \cup Clusters, size : 0..MaxSize]]
    /\ \A f \in Files :
          /\ file[f].refcount \in 0..MaxRefs /\ file[f].first \in {0} \cup Clusters
          /\ file[f].size \in 0..MaxSize /\ file[f].ranges \in Seq(Ranges)
          /\ wr[f].pc \in {"idle", "allocate", "zero", "meta", "copy"}
          /\ wr[f].chain \in Seq(Clusters) /\ written[f] \subseteq 0..MaxSize - 1
    /\ dirOp = NoOp \/ (dirOp.op \in {"open", "remove"} /\ dirOp.f \in Files)
    /\ defect \in Defects

\* Where the chain of f begins, and how many clusters it should have.
FirstOf(f) ==
    CASE wr[f].pc = "zero" /\ file[f].first = 0 -> wr[f].chain[1]
      [] file[f].refcount > 0 -> file[f].first
      [] OTHER -> entry[f].first
LengthOf(f) ==
    CASE file[f].refcount = 0 -> ceiling_divide(entry[f].size, bytes_per_cluster)
      [] wr[f].pc \in {"zero", "meta"} -> Max({ClustersOf(f), NeededClusters(f)})
      [] OTHER -> ClustersOf(f)
ClustersIn(chain) == {chain[i] : i \in DOMAIN chain}
Owned(f) == IF FirstOf(f) = 0 THEN {} ELSE ClustersIn(Chain(FirstOf(f)))

\* allocate_cluster_chain, free_cluster_chain_starting_at and write keep the table exact,
\* whatever calls on other files run between their steps: the chain of a file has as many
\* clusters as its size needs, no cluster is in two chains, and a cluster that is not
\* free is in the chain of a file or is the root directory's.
ChainsExact ==
    LET chains == {<<f, Owned(f)>> : f \in Files}
    IN  defect = "none" =>
            /\ \A p \in chains : Cardinality(p[2]) = LengthOf(p[1]) /\ root_dir_cluster \notin p[2]
            /\ \A p, q \in chains : p # q => p[2] \cap q[2] = {}
            /\ {c \in Clusters : fat[c] # free_cluster} = {root_dir_cluster} \cup UNION {p[2] : p \in chains}

\* The count of free clusters, which allocate_cluster_chain trusts, never promises a
\* cluster that is not there.
FreeCountNeverOverstates ==
    defect = "none" =>
        m_free_clusters \in 0..Cardinality({c \in Clusters : fat[c] = free_cluster})

\* What write stored at an offset of a file stays there, through writes that grow this
\* file and others, until the file is removed; a File whose clusters are consecutive
\* finds it.
WrittenStays ==
    defect = "none" =>
        \A f \in Files :
            LET chain == Chain(FirstOf(f))
                contiguous == \A i \in 1..Len(chain) - 1 : chain[i + 1] = chain[i] + 1
            IN  \A o \in written[f] :
                   LET n == o \div bytes_per_cluster
                   IN  /\ data[pure_cluster_value(chain[n + 1])][o % bytes_per_cluster] = <<f, o>>
                       /\ file[f].ranges # <<>> /\ contiguous =>
                             cluster_from_offset(file[f].ranges, n) = chain[n + 1]

\* remove_file never takes the entry of a file that somebody has open, even when the file
\* is opened, written and closed while it looks.
OpenFilesExist == \A f \in Files : file[f].refcount > 0 => entry[f].exists

\* flush_meta_modifications: an open File that nobody is writing to says about its size
\* and its first cluster what its directory entry says.
OpenIsCurrent ==
    \A f \in Files : file[f].refcount > 0 /\ wr[f].pc = "idle" =>
        file[f].first = entry[f].first /\ file[f].size = entry[f].size

\* m_contiguous_ranges: range i spans the clusters of the file from its
\* file_offset_cluster on, up to the next one's.
RangesSpan ==
    \A f \in Files : \A k \in DOMAIN file[f].ranges :
        LET r == file[f].ranges[k]
            chain == Chain(file[f].first)
        IN  wr[f].pc = "idle" /\ file[f].size > 0 =>
               r.file_offset_cluster < Len(chain)
               /\ chain[r.file_offset_cluster + 1] = r.global_cluster
==============================================================================
