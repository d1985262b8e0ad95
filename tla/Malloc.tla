-------------------------------- MODULE Malloc --------------------------------
(***************************************************************************)
(* Userland/LibC/malloc.c: the heap of a process.  A heap block is an array   *)
(* of chunks with a bitmap, read in units of BITS_PER_UNIT bits; the block    *)
(* list is linked through structures that are allocated from the blocks       *)
(* themselves.                                                              *)
(*                                                                         *)
(* Sizes are in chunks, header included; requests of MALLOC_THRESHOLD or more *)
(* go to the kernel and are not modelled.  Where the code goes wrong the      *)
(* model records the defect and stops.                                       *)
(***************************************************************************)
EXTENDS Integers, Sequences, FiniteSets, FiniteSetsExt

CONSTANTS
    BITS_PER_UNIT, Units,   \* the size of a unit, and how many a bitmap has
    ClzBits,                \* the widths of unsigned long long that __builtin_clzll may see
    Sizes                   \* of the requests, in chunks

VARIABLES
    blocks,         \* the heap blocks: the reserved chunks and what bytes_left says
    allocations,    \* what has been allocated and not freed
    clzBits,        \* the width of unsigned long long
    defect          \* "none", or what went wrong

vars == <<blocks, allocations, clzBits, defect>>

BlockSize == BITS_PER_UNIT * Units
heap_block_size == 2    \* the chunks of a heap_block and its header
None == -1

A(b, first, count) == [block |-> b, first |-> first, count |-> count]

\* malloc_init: the main block, which holds the structure of the next one.
Init ==
    /\ blocks = <<[reserved |-> 0..heap_block_size - 1, left |-> BlockSize - heap_block_size]>>
    /\ allocations = {A(1, 0, heap_block_size)}
    /\ clzBits \in ClzBits
    /\ defect = "none"

Unit(reserved, i) == {b \in 0..BITS_PER_UNIT - 1 : i * BITS_PER_UNIT + b \in reserved}

find_hole_in_unit(unit, count) ==
    Min({b \in 0..BITS_PER_UNIT - count : b .. b + count - 1 \cap unit = {}} \cup {BITS_PER_UNIT})

\* What the loop of find_contiguous_bits knows after the units before i: the run of free
\* bits it is in, where it began (None: nowhere), and the result once it has returned.
\* A single free unit that would do is answered with the beginning of no run, None.
Scanned(reserved, count) ==
    LET NoRun == [length |-> 0, unit |-> None, bit |-> None]
        scan[i \in 0..Units] ==
            IF i = 0 THEN [run |-> NoRun, returned |-> FALSE, result |-> None]
            ELSE LET before == scan[i - 1]
                     run == before.run
                     unit == Unit(reserved, i - 1)
                     hole == find_hole_in_unit(unit, count)
                     small == count < BITS_PER_UNIT /\ hole < BITS_PER_UNIT
                     \* __builtin_clzll counts from the top of an unsigned long long
                     trailing == IF unit = {} THEN BITS_PER_UNIT ELSE clzBits - 1 - Max(unit)
                     leading == IF unit = {} THEN BITS_PER_UNIT ELSE 0
                     new == [length |-> trailing, unit |-> i - 1, bit |-> BITS_PER_UNIT - trailing]
                 IN  CASE before.returned -> before
                       [] ~before.returned /\ Cardinality(unit) = BITS_PER_UNIT ->
                             [before EXCEPT !.run = NoRun]
                       [] ~before.returned /\ Cardinality(unit) # BITS_PER_UNIT /\ small ->
                             [before EXCEPT !.returned = TRUE, !.result = (i - 1) * BITS_PER_UNIT + hole]
                       [] ~before.returned /\ Cardinality(unit) # BITS_PER_UNIT /\ ~small ->
                             IF run.length + leading >= count
                             THEN [before EXCEPT !.returned = TRUE,
                                                 !.result = IF run.unit = None THEN None
                                                            ELSE run.unit * BITS_PER_UNIT + run.bit]
                             ELSE [before EXCEPT !.run = IF run.length # 0 /\ trailing = BITS_PER_UNIT
                                                         THEN [run EXCEPT !.length = @ + BITS_PER_UNIT]
                                                         ELSE new]
    IN  scan[Units]

find_contiguous_bits(reserved, count) == Scanned(reserved, count).result

\* Mutant: one bit too few.
mark_short(first, count) == first .. first + count - 2

mark_bits_starting_at(first, count) == first .. first + count - 1

\* The blocks do_alloc finds room in.
Roomy(count) ==
    {b \in DOMAIN blocks : /\ blocks[b].left >= count
                           /\ find_contiguous_bits(blocks[b].reserved, count) # None}

\* The blocks with count chunks of the first roomy one taken, and what was taken.
Taken(count) == A(Min(Roomy(count)), find_contiguous_bits(blocks[Min(Roomy(count))].reserved, count), count)
WithTaken(a) ==
    [blocks EXCEPT ![a.block].reserved = @ \cup mark_bits_starting_at(a.first, a.count),
                   ![a.block].left = @ - a.count]

IsFree(a) ==
    /\ a.first .. a.first + a.count - 1 \subseteq 0..BlockSize - 1
    /\ a.first .. a.first + a.count - 1 \cap blocks[a.block].reserved = {}

malloc(count) ==
    /\ Roomy(count) # {}
    /\ LET a == Taken(count)
       IN  IF IsFree(a) THEN /\ blocks' = WithTaken(a) /\ allocations' = allocations \cup {a}
                             /\ UNCHANGED defect
           ELSE defect' = "not free" /\ UNCHANGED <<blocks, allocations>>
    /\ UNCHANGED clzBits

\* add_heap_block: the structure of the block after the new one is allocated while the new
\* one cannot be found yet, and without room for it the two functions call each other for
\* ever.  do_alloc then gives out the first chunks of the new block and does not mark them.
malloc_in_new_block(count) ==
    /\ Roomy(count) = {}
    /\ IF Roomy(heap_block_size) = {}
       THEN defect' = "endless recursion" /\ UNCHANGED <<blocks, allocations>>
       ELSE LET structure == Taken(heap_block_size)
                new == Len(blocks) + 1
            IN  /\ blocks' = Append(WithTaken(structure), [reserved |-> {}, left |-> BlockSize - count])
                /\ allocations' = allocations \cup {structure, A(new, 0, count)}
                /\ defect' = "not marked"
    /\ UNCHANGED clzBits

\* The structures of the blocks are never freed.
free(a) ==
    /\ a \in allocations /\ a # A(1, 0, heap_block_size)
    /\ blocks' = [blocks EXCEPT ![a.block].reserved = @ \ mark_bits_starting_at(a.first, a.count),
                                ![a.block].left = @ + a.count]
    /\ allocations' = allocations \ {a}
    /\ UNCHANGED <<clzBits, defect>>

Next ==
    /\ defect = "none"
    /\ \/ \E count \in Sizes : malloc(count) \/ malloc_in_new_block(count)
       \/ \E a \in allocations : free(a)

Spec == Init /\ [][Next]_vars

----------------------------------------------------------------------------
(* Properties.                                                              *)

\* The types of the variables.
TypeOK ==
    /\ \A b \in DOMAIN blocks : blocks[b].reserved \subseteq 0..BlockSize - 1 /\ blocks[b].left \in 0..BlockSize
    /\ \A a \in allocations : a.block \in DOMAIN blocks /\ a.first \in 0..BlockSize - 1
    /\ clzBits \in ClzBits
    /\ defect \in {"none", "not free", "not marked", "endless recursion"}

ChunksOf(a) == a.first .. a.first + a.count - 1

\* malloc and free keep the bitmap: a chunk is marked exactly if it is part of something
\* allocated, nothing allocated overlaps, and bytes_left counts what is not allocated.
\* The search for free bits finds free ones whenever units are unsigned long longs.
HeapKept ==
    /\ defect = "none" =>
          \A b \in DOMAIN blocks :
              LET mine == {a \in allocations : a.block = b}
              IN  /\ blocks[b].reserved = UNION {ChunksOf(a) : a \in mine}
                  /\ \A a, c \in mine : a # c => ChunksOf(a) \cap ChunksOf(c) = {}
                  /\ blocks[b].left = BlockSize - Cardinality(blocks[b].reserved)
    /\ clzBits = BITS_PER_UNIT => defect # "not free"

\* In a bitmap 0 is free and 1 is reserved.
ReservedIsMarked == \A a \in allocations : ChunksOf(a) \subseteq blocks[a.block].reserved
==============================================================================
