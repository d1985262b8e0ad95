------------------------------ MODULE MCMemory ------------------------------
(***************************************************************************)
(* The models of memory management, checked in one run: a behaviour works  *)
(* on page tables and regions, on the boot memory map and the physical     *)
(* pages behind it, on the kernel heap, on the ranges of an address space   *)
(* or on the heap of a process, and the other models stay as they were.     *)
(***************************************************************************)
EXTENDS AddressSpace, Sequences, TLC

CONSTANTS CPUs

VARIABLES
    exercised,
    raw, m_entries, position, reserved, phase, mapFailure,
    m_physical_regions, m_free_physical_bytes, asking, held,
    blocks, ids, free_chunks, total_free_bytes, refill_lock, initialized, cpu, live, heapFailure,
    m_allocated_ranges, handedOut, rangeFailure,
    heapBlocks, allocations, clzBits, mallocDefect

\* Two buffers' worth of kernel addresses below one table, one below another.
MCKernelRegions == ({"buffer"} \X Buffers) \union ({"surface"} \X Processes)
MCMiddleOf == [r \in MCKernelRegions |-> IF r = <<"surface", 2>> THEN 1 ELSE 0]
MCLeafOf == [r \in MCKernelRegions |-> IF r[1] = "buffer" THEN 1 ELSE 0]

\* Memory maps of one to three entries that begin and end inside pages, touch,
\* nest and overlap.
Entry(b, e, t) == [b |-> b, e |-> e, t |-> t]
MCEntries ==
    {Entry(0, 14, 1), Entry(0, 5, 1), Entry(2, 4, 2), Entry(3, 6, 2), Entry(4, 14, 1),
     Entry(5, 7, 5), Entry(10, 11, 2), Entry(1, 9, 1), Entry(3, 8, 5)}
MCRawMaps == UNION {[1 .. n -> MCEntries] : n \in 1 .. 3}
MCReservations ==
    <<[pages |-> 1, lower |-> 4, upper |-> 6, tag |-> 6],
      [pages |-> 1, lower |-> 2, upper |-> 14, tag |-> 7]>>

Physical ==
    INSTANCE PhysicalMemory WITH PageSize <- 2, RawMaps <- MCRawMaps, Reservations <- MCReservations,
        Lowest <- 2, Highest <- 14, MinimumPages <- 2, BitsPerUnit <- 2, failure <- mapFailure
Heap ==
    INSTANCE HeapAllocator WITH Chunks <- <<4, 3>>, Offset <- <<1, 0>>, Threshold <- 1,
        Requests <- {<<1, 1>>, <<2, 2>>}, RefillNeeds <- 1, pc <- cpu, failure <- heapFailure
Ranges ==
    INSTANCE VirtualAllocator WITH PageSize <- 2, BaseBegin <- 2, BaseEnd <- 16, Lengths <- {1, 2, 5},
        Alignments <- {1, 4}, Ranges <- {<<4, 6>>, <<6, 7>>, <<9, 11>>, <<3, 13>>},
        owned <- handedOut, failure <- rangeFailure

LibC ==
    INSTANCE Malloc WITH BITS_PER_UNIT <- 3, Units <- 4, ClzBits <- {3, 6}, Sizes <- {1, 3, 5},
        blocks <- heapBlocks, defect <- mallocDefect

physicalVars == <<raw, m_entries, position, reserved, phase, mapFailure,
                  m_physical_regions, m_free_physical_bytes, asking, held>>
heapVars == <<blocks, ids, free_chunks, total_free_bytes, refill_lock, initialized, cpu, live, heapFailure>>
rangeVars == <<m_allocated_ranges, handedOut, rangeFailure>>
mallocVars == <<heapBlocks, allocations, clzBits, mallocDefect>>
MCVars == <<vars, physicalVars, heapVars, rangeVars, mallocVars, exercised>>

MCInit ==
    /\ exercised \in {"spaces", "pages", "heap", "ranges", "malloc"}
    /\ Init /\ Heap!Init /\ Ranges!Init
    /\ Physical!Init /\ (exercised # "pages" => raw = <<Entry(0, 14, 1)>>)
    /\ LibC!Init /\ (exercised # "malloc" => clzBits = 3)

MCNext ==
    /\ UNCHANGED exercised
    /\ \/ exercised = "spaces" /\ Next /\ UNCHANGED <<physicalVars, heapVars, rangeVars, mallocVars>>
       \/ exercised = "pages" /\ Physical!Next /\ UNCHANGED <<vars, heapVars, rangeVars, mallocVars>>
       \/ exercised = "heap" /\ Heap!Next /\ UNCHANGED <<vars, physicalVars, rangeVars, mallocVars>>
       \/ exercised = "ranges" /\ Ranges!Next /\ UNCHANGED <<vars, physicalVars, heapVars, mallocVars>>
       \/ exercised = "malloc" /\ LibC!Next /\ UNCHANGED <<vars, physicalVars, heapVars, rangeVars>>

MCSpec == MCInit /\ [][MCNext]_MCVars

\* The type invariants of the six.
TypesOK ==
    CASE exercised = "spaces" -> TypeOK
      [] exercised = "pages" -> Physical!TypeOK
      [] exercised = "heap" -> Heap!TypeOK
      [] exercised = "ranges" -> Ranges!TypeOK
      [] exercised = "malloc" -> LibC!TypeOK

\* No range of addresses, no chunk of the kernel heap or of the heap of a process is in two
\* allocations or lost, over refills, splits and frees (VirtualAllocator, HeapAllocator, Malloc).
AllocatorsExact ==
    /\ exercised = "ranges" => Ranges!RangesExact
    /\ exercised = "heap" => Heap!HeapExact
    /\ exercised = "malloc" => LibC!HeapKept

\* After correct_overlapping_ranges every page has the type that wins, as long as no more
\* than two reported ranges meet; BootAllocator only takes free pages; and allocate_page and
\* free_page of several CPUs hand out every usable page once.
PhysicalExact == exercised = "pages" => Physical!MapExact /\ Physical!PagesExact
=============================================================================
