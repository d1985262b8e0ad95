---------------------------- MODULE HeapAllocator ----------------------------
(***************************************************************************)
(* HeapAllocator: the kernel heap.  A list of blocks, each cut into chunks, *)
(* with a two bit id per chunk; an allocation is a run of chunks with one id *)
(* that differs from the ids on both sides, which is how free finds its end. *)
(*                                                                         *)
(* allocation_lock covers the search and free.  The refill in front of it has *)
(* a lock of its own that is only ever tried: whoever fails goes on with what *)
(* is there, and so do the allocations the refill itself makes.             *)
(*                                                                         *)
(* Sizes are counted in chunks (free_bytes is a multiple of chunk_size, so the *)
(* comparison with bytes is one of chunks).  Blocks are numbered in the order *)
(* in which they are fed.  Offset[b] is the address of b's data in chunks.   *)
(***************************************************************************)
EXTENDS Integers, FiniteSets, FiniteSetsExt, Sequences

CONSTANTS
    CPUs,
    Chunks,             \* chunk_count of every block
    Offset,             \* where the data of every block begins
    Threshold,          \* upper_allocation_threshold
    Requests,           \* what callers ask for: <<chunks, alignment>>, at most Threshold
    RefillNeeds         \* the allocations allocate_kernel_private_anywhere makes

VARIABLES
    blocks,             \* the list s_heap_block -> next -> ..., by number
    ids,                \* the bitmap of every block, one chunk of zero behind it
    free_chunks,
    total_free_bytes,   \* in chunks
    refill_lock,        \* its holder, or NoCPU
    initialized,        \* MemoryManager and AddressSpace are
    pc,                 \* what every CPU does
    live,               \* history: the allocations handed out and not freed
    failure             \* "none", "out of memory", "double free"

vars == <<blocks, ids, free_chunks, total_free_bytes, refill_lock, initialized, pc, live, failure>>

NoCPU == 0
Idle == [at |-> "idle"]
Blocks == DOMAIN Chunks

\* initialize: the block that exists before the memory manager does.
Init ==
    /\ blocks = <<1>>
    /\ ids = [b \in Blocks |-> IF b = 1 THEN [c \in 0..Chunks[1] |-> 0] ELSE << >>]
    /\ free_chunks = [b \in Blocks |-> IF b = 1 THEN Chunks[1] ELSE 0]
    /\ total_free_bytes = Chunks[1]
    /\ refill_lock = NoCPU
    /\ initialized = FALSE
    /\ pc = [c \in CPUs |-> Idle]
    /\ live = {}
    /\ failure = "none"

\* A new block goes behind the first one.
feed_block(b) ==
    /\ blocks' = <<blocks[1], b>> \o Tail(blocks)
    /\ ids' = [ids EXCEPT ![b] = [c \in 0..Chunks[b] |-> 0]]
    /\ free_chunks' = [free_chunks EXCEPT ![b] = Chunks[b]]
    /\ total_free_bytes' = total_free_bytes + Chunks[b]

----------------------------------------------------------------------------
(* Finding and marking a run.                                                *)

aligned_offset(b, alignment) == (alignment - (Offset[b] % alignment)) % alignment

\* Where a run of n free chunks may begin: the scan moves on to the next aligned
\* chunk behind every taken one it meets.
Runs(b, n, alignment) ==
    {s \in aligned_offset(b, alignment) .. Chunks[b] - n :
        /\ (s - aligned_offset(b, alignment)) % alignment = 0
        /\ \A c \in s .. s + n - 1 : ids[b][c] = 0}

HasRoom(b, n, alignment) == free_chunks[b] >= n /\ Runs(b, n, alignment) # {}

\* Mutant: the id on the right is not looked at.
unique_from_left(b, s, n) ==
    LET left == IF s = 0 THEN 0 ELSE ids[b][s - 1]
    IN  Min({1, 2, 3} \ {left})

this_id(b, s, n) ==
    LET left == IF s = 0 THEN 0 ELSE ids[b][s - 1]
        right == ids[b][s + n]
    IN  Min({1, 2, 3} \ {left, right})

\* The search under allocation_lock, for the first block of the list that has a run.
take(n, alignment) ==
    LET b == blocks[Min({i \in 1..Len(blocks) : HasRoom(blocks[i], n, alignment)})]
        s == Min(Runs(b, n, alignment))
        id == this_id(b, s, n)
    IN  /\ ids' = [ids EXCEPT ![b] = [c \in DOMAIN @ |-> IF c \in s .. s + n - 1 THEN id ELSE @[c]]]
        /\ free_chunks' = [free_chunks EXCEPT ![b] = @ - n]
        /\ total_free_bytes' = total_free_bytes - n
        /\ live' = live \cup {[block |-> b, at |-> s, chunks |-> n, alignment |-> alignment]}

take_or_panic(n, alignment) ==
    IF \E i \in 1..Len(blocks) : HasRoom(blocks[i], n, alignment)
    THEN take(n, alignment) /\ UNCHANGED failure
    ELSE failure' = "out of memory" /\ UNCHANGED <<ids, free_chunks, total_free_bytes, live>>

----------------------------------------------------------------------------
(* allocate.                                                                 *)

allocate(c, n, alignment) ==
    /\ pc[c] = Idle
    /\ IF refill_lock = NoCPU
       THEN refill_lock' = c /\ pc' = [pc EXCEPT ![c] = [at |-> "refill_if_needed", chunks |-> n, alignment |-> alignment]]
       ELSE pc' = [pc EXCEPT ![c] = [at |-> "search", chunks |-> n, alignment |-> alignment]] /\ UNCHANGED refill_lock
    /\ UNCHANGED <<blocks, ids, free_chunks, total_free_bytes, initialized, live, failure>>

bytes_left(c) == IF pc[c].chunks > total_free_bytes THEN 0 ELSE total_free_bytes - pc[c].chunks

\* Enough is left, or the memory manager is not up yet; or the heap is refilled.  The
\* number of blocks stands for the memory there is: without any the manager panics.
refill_if_needed(c) ==
    LET needed == bytes_left(c) <= Threshold
        panic == needed /\ IF initialized THEN Len(blocks) = Len(Chunks) ELSE bytes_left(c) = 0
    IN  /\ pc[c].at = "refill_if_needed"
        /\ failure' = IF panic THEN "out of memory" ELSE failure
        /\ IF needed /\ initialized
           THEN pc' = [pc EXCEPT ![c].at = "refilling"] /\ UNCHANGED refill_lock
           ELSE pc' = [pc EXCEPT ![c].at = "search"] /\ refill_lock' = NoCPU
        /\ UNCHANGED <<blocks, ids, free_chunks, total_free_bytes, initialized, live>>

\* The region's own bookkeeping comes from the heap: allocate again, with
\* refill_lock taken, so without a refill.
refill_allocates(c) ==
    /\ pc[c].at = "refilling"
    /\ take_or_panic(RefillNeeds, 1)
    /\ pc' = IF failure' = "none" THEN [pc EXCEPT ![c].at = "feeding"] ELSE pc
    /\ UNCHANGED <<blocks, refill_lock, initialized>>

refill_feeds(c) ==
    /\ pc[c].at = "feeding"
    /\ feed_block(Len(blocks) + 1)
    /\ refill_lock' = NoCPU
    /\ pc' = [pc EXCEPT ![c].at = "search"]
    /\ UNCHANGED <<initialized, live, failure>>

search(c) ==
    /\ pc[c].at = "search"
    /\ take_or_panic(pc[c].chunks, pc[c].alignment)
    /\ pc' = [pc EXCEPT ![c] = Idle]
    /\ UNCHANGED <<blocks, refill_lock, initialized>>

\* free: every chunk with the id of the first, up to one with another.
free(c, a) ==
    LET b == a.block
        id == ids[b][a.at]
        run == {i \in a.at .. Chunks[b] : \A j \in a.at .. i : ids[b][j] = id}
    IN  /\ pc[c] = Idle
        /\ IF id = 0
           THEN failure' = "double free" /\ UNCHANGED <<ids, free_chunks, total_free_bytes, live>>
           ELSE /\ ids' = [ids EXCEPT ![b] = [i \in DOMAIN @ |-> IF i \in run THEN 0 ELSE @[i]]]
                /\ free_chunks' = [free_chunks EXCEPT ![b] = @ + Cardinality(run)]
                /\ total_free_bytes' = total_free_bytes + Cardinality(run)
                /\ live' = live \ {a}
                /\ UNCHANGED failure
        /\ UNCHANGED <<blocks, refill_lock, initialized, pc>>

\* MemoryManager::inititalize and AddressSpace::inititalize, on the only CPU there is then.
initialize_memory_manager ==
    /\ ~initialized /\ \A c \in CPUs : pc[c] = Idle
    /\ initialized' = TRUE
    /\ UNCHANGED <<blocks, ids, free_chunks, total_free_bytes, refill_lock, pc, live, failure>>

\* The other CPUs are started later.
Running == IF initialized THEN CPUs ELSE {Min(CPUs)}

Next ==
    /\ failure = "none"
    /\ \/ initialize_memory_manager
       \/ \E c \in Running :
          \/ \E r \in Requests : allocate(c, r[1], r[2])
          \/ refill_if_needed(c) \/ refill_allocates(c) \/ refill_feeds(c) \/ search(c)
          \/ \E a \in live : free(c, a)

Spec == Init /\ [][Next]_vars

----------------------------------------------------------------------------

\* The types of the variables; a chunk behind the last is never marked.
TypeOK ==
    /\ \A i \in 1..Len(blocks) :
          ids[blocks[i]] \in [0..Chunks[blocks[i]] -> 0..3] /\ ids[blocks[i]][Chunks[blocks[i]]] = 0
    /\ free_chunks \in [Blocks -> Nat] /\ total_free_bytes \in Nat
    /\ refill_lock \in CPUs \cup {NoCPU}
    /\ failure \in {"none", "out of memory", "double free"}

Covers(a, b, c) == a.block = b /\ c \in a.at .. a.at + a.chunks - 1

\* Whatever the order of allocate, free and refills on several CPUs: every allocation
\* is a run of its own, aligned as asked and inside its block; its id differs from its
\* neighbours', so that free returns exactly its chunks; nobody frees twice what was
\* handed out once; and the counters that decide on refills say what is free.
HeapExact ==
    /\ failure # "double free"
    /\ \A i \in 1..Len(blocks) : LET b == blocks[i] IN
          /\ \A c \in 0 .. Chunks[b] - 1 :
                /\ Cardinality({a \in live : Covers(a, b, c)}) = (IF ids[b][c] = 0 THEN 0 ELSE 1)
                /\ \A a, o \in live : Covers(a, b, c) /\ Covers(o, b, c + 1)
                      => (ids[b][c] = ids[b][c + 1]) <=> (a = o)
          /\ free_chunks[b] = Cardinality({c \in 0 .. Chunks[b] - 1 : ids[b][c] = 0})
    /\ \A a \in live : a.at + a.chunks <= Chunks[a.block] /\ (Offset[a.block] + a.at) % a.alignment = 0
    /\ total_free_bytes = MapThenSumSet(LAMBDA b : free_chunks[b], Blocks)
==============================================================================
