------------------------------- MODULE DiskCache -------------------------------
(***************************************************************************)
(* The write-back block cache of a file system (FileSystem/DiskCache.cpp).   *)
(* A cache block holds blocks_per_io file system blocks; the least recently   *)
(* used one is evicted.  The file system serialises all calls with a mutex   *)
(* (m_fat_cache_lock, m_data_lock), so there is one caller.  A block's        *)
(* content is one value; no device of the repository is a RAM disk, so        *)
(* m_io_size is never no_caching_required.                                   *)
(***************************************************************************)
EXTENDS Integers, Sequences

CONSTANTS
    BlockCount,     \* blocks of the file system's LBA range
    blocks_per_io,  \* m_fs_blocks_per_io
    capacity,       \* m_capacity
    Values,
    Zero,
    WriteBlocks     \* the blocks that are written to

ASSUME BlocksAssumption == BlockCount \in Nat \ {0} /\ blocks_per_io \in Nat \ {0}
ASSUME CapacityAssumption == capacity \in Nat \ {0}
ASSUME ZeroAssumption == Zero \in Values
ASSUME WriteBlocksAssumption == WriteBlocks \subseteq 0 .. BlockCount - 1

VARIABLES
    disk,
    m_cached_blocks,    \* list of cache blocks, most recently used first
    m_block_to_cache,   \* cache block of every cached index, 0 where there is none
    first_block, dirty, data,   \* the cache blocks
    pc, call, itr,
    current,            \* the cache block cached_block works on
    recent              \* history: cached indices in the order of their last use

cacheVars == <<m_cached_blocks, m_block_to_cache, first_block, dirty, data>>
vars == <<disk, cacheVars, pc, call, itr, current, recent>>

Blocks == 0 .. BlockCount - 1
CacheBlocks == 1..capacity
Offsets == 0 .. blocks_per_io - 1

\* "block_index & ~(m_fs_blocks_per_io - 1)": the index of the first block of the IO.
block_index_to_cached_index(b) == (b \div blocks_per_io) * blocks_per_io

CachedIndices == {block_index_to_cached_index(b) : b \in Blocks}

\* m_fs_lba_range.contains(block_to_lba_range(index)).
Contains(index) == index + blocks_per_io <= BlockCount

NoCall == [op |-> "none", block |-> 0, value |-> Zero]

Without(seq, x) == SelectSeq(seq, LAMBDA y : y # x)

Init ==
    /\ disk \in [Blocks -> Values]
    /\ m_cached_blocks = <<>>
    /\ m_block_to_cache = [i \in CachedIndices |-> 0]
    /\ first_block = [c \in CacheBlocks |-> 0]
    /\ dirty = [c \in CacheBlocks |-> FALSE]
    /\ data = [c \in CacheBlocks |-> [o \in Offsets |-> Zero]]
    /\ pc = "idle" /\ call = NoCall
    /\ itr = 1 /\ current = 1
    /\ recent = <<>>
------------------------------------------------------------------------------
Index == block_index_to_cached_index(call.block)

\* What flush_block leaves on the disk.
Flushed(c) ==
    [b \in Blocks |->
        IF b - first_block[c] \in Offsets THEN data[c][b - first_block[c]] ELSE disk[b]]

\* Mutant: the block is marked clean but not written.
flush_block_clean_only(c) == dirty' = [dirty EXCEPT ![c] = FALSE] /\ UNCHANGED disk

flush_block(c) ==
    /\ disk' = IF dirty[c] THEN Flushed(c) ELSE disk
    /\ dirty' = [dirty EXCEPT ![c] = FALSE]

Call(op, b, v) ==
    /\ pc = "idle"
    /\ call' = [op |-> op, block |-> b, value |-> v]
    /\ pc' = "find"
    /\ UNCHANGED <<disk, cacheVars, itr, current, recent>>

\* Mutant: a hit does not count as a use.
cached_block_hit_in_place ==
    /\ pc = "find" /\ m_block_to_cache[Index] # 0
    /\ current' = m_block_to_cache[Index]
    /\ pc' = "access"
    /\ UNCHANGED <<disk, cacheVars, call, itr, recent>>

\* cached_block: the block is cached, and becomes the most recently used.
cached_block_hit ==
    LET c == m_block_to_cache[Index] IN
    /\ pc = "find" /\ c # 0
    /\ m_cached_blocks' = <<c>> \o Without(m_cached_blocks, c)
    /\ current' = c
    /\ pc' = "access"
    /\ UNCHANGED <<disk, m_block_to_cache, first_block, dirty, data, call, itr, recent>>

\* evict_one.
cached_block_evict ==
    LET c == m_cached_blocks[Len(m_cached_blocks)] IN
    /\ pc = "find" /\ m_block_to_cache[Index] = 0
    /\ Len(m_cached_blocks) = capacity
    /\ m_cached_blocks' = SubSeq(m_cached_blocks, 1, capacity - 1)
    /\ flush_block(c)
    /\ m_block_to_cache' = [m_block_to_cache EXCEPT ![first_block[c]] = 0]
    /\ first_block' = [first_block EXCEPT ![c] = 0]
    /\ current' = c
    /\ pc' = "fetch"
    /\ UNCHANGED <<data, call, itr, recent>>

\* allocate_next_block_buffer: the buffers of the region are taken in order.
cached_block_new ==
    /\ pc = "find" /\ m_block_to_cache[Index] = 0
    /\ Len(m_cached_blocks) < capacity
    /\ current' = Len(m_cached_blocks) + 1
    /\ pc' = "fetch"
    /\ UNCHANGED <<disk, cacheVars, call, itr, recent>>

\* ASSERT, the read request, and the bookkeeping of the new block.
cached_block_fetch ==
    /\ pc = "fetch" /\ Contains(Index)
    /\ data' = [data EXCEPT ![current] = [o \in Offsets |-> disk[Index + o]]]
    /\ first_block' = [first_block EXCEPT ![current] = Index]
    /\ m_cached_blocks' = <<current>> \o m_cached_blocks
    /\ m_block_to_cache' = [m_block_to_cache EXCEPT ![Index] = current]
    /\ pc' = "access"
    /\ UNCHANGED <<disk, dirty, call, itr, current, recent>>

Return ==
    /\ pc' = "idle" /\ call' = NoCall /\ current' = 1
    /\ recent' = <<Index>> \o Without(recent, Index)

read_one ==
    /\ pc = "access" /\ call.op = "read"
    /\ Return
    /\ UNCHANGED <<disk, cacheVars, itr>>

\* write_one and zero_fill_one; a copy that faults leaves the block dirty and
\* changed or not.
write_one ==
    LET o == call.block - Index IN
    /\ pc = "access" /\ call.op \in {"write", "zero_fill"}
    /\ dirty' = [dirty EXCEPT ![current] = TRUE]
    /\ \/ data' = [data EXCEPT ![current][o] = IF call.op = "write" THEN call.value ELSE Zero]
       \/ call.op = "write" /\ UNCHANGED data
    /\ Return
    /\ UNCHANGED <<disk, m_cached_blocks, m_block_to_cache, first_block, itr>>
------------------------------------------------------------------------------
flush_all ==
    /\ pc = "idle"
    /\ pc' = "flush" /\ itr' = 1
    /\ UNCHANGED <<disk, cacheVars, call, current, recent>>

flush_all_next ==
    /\ pc = "flush" /\ itr <= Len(m_cached_blocks)
    /\ flush_block(m_cached_blocks[itr])
    /\ itr' = itr + 1
    /\ UNCHANGED <<m_cached_blocks, m_block_to_cache, first_block, data, pc, call, current, recent>>

flush_all_returns ==
    /\ pc = "flush" /\ itr > Len(m_cached_blocks)
    /\ pc' = "idle" /\ itr' = 1
    /\ UNCHANGED <<disk, cacheVars, call, current, recent>>

flush_specific(b) ==
    LET c == m_block_to_cache[block_index_to_cached_index(b)] IN
    /\ pc = "idle" /\ c # 0
    /\ flush_block(c)
    /\ UNCHANGED <<m_cached_blocks, m_block_to_cache, first_block, data, pc, call, itr, current,
                   recent>>

Next ==
    \/ \E b \in WriteBlocks : Call("zero_fill", b, Zero) \/ \E v \in Values : Call("write", b, v)
    \/ \E b \in Blocks : Call("read", b, Zero) \/ flush_specific(b)
    \/ cached_block_hit \/ cached_block_evict \/ cached_block_new \/ cached_block_fetch
    \/ read_one \/ write_one
    \/ flush_all \/ flush_all_next \/ flush_all_returns

Spec == Init /\ [][Next]_vars
------------------------------------------------------------------------------
Range(f) == {f[x] : x \in DOMAIN f}

TypeOK ==
    /\ disk \in [Blocks -> Values]
    /\ m_cached_blocks \in Seq(CacheBlocks)
    /\ m_block_to_cache \in [CachedIndices -> 0..capacity]
    /\ first_block \in [CacheBlocks -> CachedIndices]
    /\ dirty \in [CacheBlocks -> BOOLEAN]
    /\ data \in [CacheBlocks -> [Offsets -> Values]]
    /\ pc \in {"idle", "find", "fetch", "access", "flush"}
    /\ call \in [op : {"none", "read", "write", "zero_fill"}, block : Blocks, value : Values]
    /\ itr \in 1 .. capacity + 1 /\ current \in CacheBlocks
    /\ recent \in Seq(CachedIndices)

\* The content of a block as read_one returns it.
Content(b) ==
    LET c == m_block_to_cache[block_index_to_cached_index(b)] IN
    IF c = 0 THEN disk[b] ELSE data[c][b - block_index_to_cached_index(b)]

\* The cache is transparent: a read returns the last value written, whatever was
\* evicted, flushed or fetched in between, and only written values reach the disk.
Abstract == INSTANCE AbstractDisk WITH
    content <- [b \in Blocks |-> Content(b)],
    durable <- disk,
    request <- call,
    NoRequest <- NoCall

ImplementsDisk == Abstract!Spec

\* List and map agree: a cached index has one cache block, which is in the list
\* (once), and carries that index.
MapMatchesList ==
    /\ \A i, j \in DOMAIN m_cached_blocks : m_cached_blocks[i] = m_cached_blocks[j] => i = j
    /\ \A c \in Range(m_cached_blocks) : m_block_to_cache[first_block[c]] = c
    /\ \A i \in CachedIndices :
          LET c == m_block_to_cache[i] IN c # 0 => c \in Range(m_cached_blocks) /\ first_block[c] = i

\* DiskCache.h: "the first block to be evicted is the block, which happens to be the
\* least recently used".  Between calls the cache holds the most recently used
\* blocks, in that order.
HoldsMostRecent ==
    pc = "idle" =>
        [i \in DOMAIN m_cached_blocks |-> first_block[m_cached_blocks[i]]]
            = SubSeq(recent, 1, Len(m_cached_blocks))

\* When flush_all returns, the disk holds what was written: nothing in the cache
\* is newer than the disk, whether or not it is still marked dirty.
FlushAllIsDurable ==
    pc = "flush" /\ itr > Len(m_cached_blocks) => \A b \in Blocks : Content(b) = disk[b]

\* ASSERT(m_fs_lba_range.contains(lba_range)) of cached_block.
FetchIsInRange == pc = "fetch" => Contains(Index)
==============================================================================
