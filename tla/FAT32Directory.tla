---------------------------- MODULE FAT32Directory ----------------------------
(***************************************************************************)
(* The entries of one FAT32 directory: finding, creating and removing a name, *)
(* each under the lock of the directory.  A name takes one entry of metadata   *)
(* preceded by Sequences[name] entries of its long name, which may go on into   *)
(* the next cluster of the directory.                                        *)
(*                                                                         *)
(* slots numbers the entries of the whole chain; a directory may come from     *)
(* another system, so it begins with any layout.  The model stops where the    *)
(* kernel does (an ASSERT or panic), and where an entry is lost.              *)
(***************************************************************************)
EXTENDS Integers, Sequences, FiniteSets, FiniteSetsExt

CONSTANTS
    Names,
    Sequences,              \* [Names -> Nat]: the long entries of a name
    entries_per_cluster,
    MaxClusters

VARIABLES
    slots,      \* the entries of the directory, 0 .. clusters * entries_per_cluster - 1
    names,      \* history: the names created and not removed
    defect      \* "none", "panic" or "lost"

vars == <<slots, names, defect>>

\* The first byte tells a free entry (end of directory, deleted) from a used one.
End == [kind |-> "end"]
Deleted == [kind |-> "deleted"]
Metadata(n) == [kind |-> "metadata", name |-> n]
Long(n, i) == [kind |-> "long", name |-> n, sequence |-> i]
Empty(e) == e.kind \in {"end", "deleted"}

Size == Cardinality(DOMAIN slots)
ClusterOf(p) == p \div entries_per_cluster
OffsetOf(p) == p % entries_per_cluster
LastCluster == ClusterOf(Size - 1)

\* The entries of n, in the order they are written: the last piece of the name first.
EntriesOf(n) ==
    [i \in 0..Sequences[n] |-> IF i = Sequences[n] THEN Metadata(n) ELSE Long(n, Sequences[n] - i)]

----------------------------------------------------------------------------
(* next_native: the entries in order.  What follows a long entry is taken to   *)
(* be its rest; a chain that ends before that is an assertion failure.         *)

Bad == [name |-> "bad"]
AllEntries ==
    LET from[p \in 0..Size] ==
            IF p = Size \/ (p < Size /\ slots[p] = End) THEN <<>>
            ELSE IF slots[p] = Deleted THEN from[p + 1]
            ELSE LET count == IF slots[p].kind = "long" THEN slots[p].sequence ELSE 0
                     n == slots[p].name
                 IN  IF p + count >= Size \/ (count > 0 /\ count # Sequences[n]) THEN <<Bad>>
                     ELSE <<[name |-> n, first |-> p, metadata |-> p + count]>> \o from[p + count + 1]
    IN  from[0]

Found(n) == {i \in DOMAIN AllEntries : AllEntries[i].name = n}

----------------------------------------------------------------------------

\* Any layout: the names at disjoint places, deleted entries between them.
Init ==
    \E clusters \in 1..MaxClusters :
    LET size == clusters * entries_per_cluster IN
    \E present \in SUBSET Names : \E at \in [present -> 0..size - 1] :
        LET Places(n) == at[n] .. at[n] + Sequences[n]
            used == UNION {Places(n) : n \in present}
        IN  /\ used \subseteq 0..size - 1
            /\ \A m, n \in present : m # n => Places(m) \cap Places(n) = {}
            /\ slots = [p \in 0..size - 1 |->
                           IF p \in used
                           THEN LET n == CHOOSE n \in present : p \in Places(n) IN EntriesOf(n)[p - at[n]]
                           ELSE IF \E q \in used : q > p THEN Deleted ELSE End]
            /\ names = present
            /\ defect = "none"

----------------------------------------------------------------------------
(* create_file.                                                             *)

\* Mutant: one entry too few is looked at.
Fits_one_less(count, p) ==
    /\ p + count <= entries_per_cluster
    /\ \A q \in p .. p + count - 2 : Empty(slots[q])

\* allocate_entries never returns to offset 0 behind the first cluster, and a directory
\* has no ranges to find its last cluster by: the search succeeds in the first cluster.
Fits(count, p) ==
    /\ p + count <= entries_per_cluster
    /\ \A q \in p .. p + count - 1 : Empty(slots[q])
allocate_entries(count) == {p \in 0..entries_per_cluster - 1 : Fits(count, p)}

create_file(n) ==
    /\ Found(n) = {}
    /\ LET free == allocate_entries(Sequences[n] + 1)
           at == Min(free)
       IN  IF free = {} THEN defect' = "panic" /\ UNCHANGED <<slots, names>>
           ELSE /\ slots' = [p \in DOMAIN slots |->
                                IF p \in at .. at + Sequences[n] THEN EntriesOf(n)[p - at] ELSE slots[p]]
                /\ names' = names \cup {n}
                /\ UNCHANGED defect

----------------------------------------------------------------------------
(* remove_file.                                                             *)

is_last_file_in_directory(e) == e.metadata = Size - 1 \/ slots[e.metadata + 1] = End

\* free_cluster_chain_starting_at(.., KEEP_FIRST).  For the last cluster of a chain it
\* takes the end-of-chain mark for a cluster, which the cache of the table refuses.
Truncated(s, cluster) == [p \in 0..(cluster + 1) * entries_per_cluster - 1 |-> s[p]]

\* next_native notes a further cluster of an entry only when a long entry is in it.
KnowsClusters(e) == e.first = e.metadata \/ OffsetOf(e.metadata) # 0

\* The metadata was the last entry of a cluster that has just been freed: going on with
\* the search reads the free mark as a link.
SearchGoesAstray(e) ==
    ClusterOf(e.metadata) # ClusterOf(e.first) /\ OffsetOf(e.metadata) = entries_per_cluster - 1

remove_entries(e, last) ==
    LET marked == {p \in e.first .. e.metadata : last => ClusterOf(p) = ClusterOf(e.first)}
        cleared == [p \in DOMAIN slots |->
                       IF p \in marked THEN IF last THEN End ELSE Deleted ELSE slots[p]]
    IN  CASE ~last /\ ~KnowsClusters(e) ->
                defect' = "panic" /\ UNCHANGED <<slots, names>>
          [] ~last -> slots' = cleared /\ names' = names \ {e.name} /\ UNCHANGED defect
          [] last /\ (ClusterOf(e.first) = LastCluster \/ SearchGoesAstray(e)) ->
                defect' = "panic" /\ UNCHANGED <<slots, names>>
          [] OTHER -> /\ slots' = Truncated(cleared, ClusterOf(e.first))
                      /\ names' = names \ {e.name} /\ UNCHANGED defect

\* The entry fills its own clusters: everything behind the cluster the previous entry
\* begins in is freed.
Lost(previous, e) ==
    \/ ClusterOf(e.first) <= previous
    \/ \E i \in DOMAIN AllEntries :
          AllEntries[i].name # e.name /\ ClusterOf(AllEntries[i].metadata) > previous

remove_clusters(e, previous) ==
    IF previous = LastCluster THEN defect' = "panic" /\ UNCHANGED <<slots, names>>
    ELSE /\ slots' = Truncated(slots, previous)
         /\ names' = names \ {e.name}
         /\ defect' = IF Lost(previous, e) THEN "lost" ELSE defect

remove_file(n) ==
    \E i \in Found(n) :
        LET e == AllEntries[i]
            previous == IF i = 1 THEN 0 ELSE ClusterOf(AllEntries[i - 1].first)
            last == is_last_file_in_directory(e)
        IN  IF last /\ OffsetOf(e.first) = 0 THEN remove_clusters(e, previous)
            ELSE remove_entries(e, last)

----------------------------------------------------------------------------

Next ==
    /\ defect = "none"
    /\ \E n \in Names : create_file(n) \/ remove_file(n)

Spec == Init /\ [][Next]_vars

----------------------------------------------------------------------------
(* Properties.                                                              *)

\* The types of the variables.
TypeOK ==
    /\ \A p \in DOMAIN slots :
          slots[p] \in {End, Deleted} \cup {Metadata(n) : n \in Names}
                          \cup UNION {{Long(n, i) : i \in 1..Sequences[n]} : n \in Names}
    /\ \E c \in 1..MaxClusters : DOMAIN slots = 0..c * entries_per_cluster - 1
    /\ names \subseteq Names /\ defect \in {"none", "panic", "lost"}

\* create_file and remove_file keep the directory readable, wherever the entries of the
\* names lie: next_native returns each name that exists once, with all its pieces, and
\* nothing else.
DirectoryExact ==
    defect = "none" =>
        /\ \A i \in DOMAIN AllEntries :
              /\ AllEntries[i] # Bad /\ AllEntries[i].name \in names
              /\ \A p \in AllEntries[i].first .. AllEntries[i].metadata :
                    slots[p] = EntriesOf(AllEntries[i].name)[p - AllEntries[i].first]
        /\ \A n \in names : Cardinality(Found(n)) = 1

\* An entry behind the end of the directory is free: a search may stop at the end mark.
NothingBehindTheEnd ==
    \A p, q \in DOMAIN slots : slots[p] = End /\ q > p => Empty(slots[q])

\* "Directory entry is located entirely in its own cluster, so we can afford to free the
\* entire entry chain": removing a name takes its entry and no other.
RemoveTakesItsEntry == defect # "lost"
==============================================================================
