---------------------------- MODULE AddressSpace ----------------------------
(***************************************************************************)
(* Page tables and the virtual regions mapped through them: address        *)
(* spaces, page faults, window surfaces shared by a kernel and a user      *)
(* region, the release of regions and of whole processes                   *)
(* (Memory/AddressSpace, Memory/MemoryManager, Memory/*VirtualRegion).     *)
(*                                                                         *)
(* The kernel runs with four levels of tables.  The top one is each        *)
(* space's own; its kernel half is copied from the creator's and points to *)
(* tables allocated once at boot.  Every level below is made on demand by  *)
(* the same lines, so the model keeps one of the two: top, middle, leaf.   *)
(* A region is one page.  A process has one thread, as the code enforces   *)
(* for user processes.  A space is locked by map_page and unmap, but the   *)
(* lock is the space's own: two processes that map kernel addresses hold   *)
(* different locks and write the same tables.                              *)
(***************************************************************************)
EXTENDS Integers

CONSTANTS
    Processes,      \* user processes, each with an address space and a thread
    Windowed,       \* the processes that open a window
    Allocating,     \* the processes that touch private memory of their own
    PageCount,      \* physical pages, numbered from 1
    Indices,        \* entries of a table, numbered from 0
    Buffers,        \* kernel private regions: pipe buffers, disk caches
    MiddleOf,       \* the middle table index of every kernel region's address
    LeafOf          \* and its index in the leaf table

(***************************************************************************)
(* Regions: the kernel's buffers, and for each process p a private one     *)
(* <<"private", p>>, a window's surface <<"surface", p>> in the kernel     *)
(* half and its clone <<"clone", p>> in the process.  Surfaces have the    *)
(* kernel region's tables to themselves or share them as MiddleOf says.    *)
(***************************************************************************)
KernelRegions == {"buffer"} \X Buffers
Regions == KernelRegions \union ({"private", "surface", "clone"} \X Processes)
Surfaces == {"surface"} \X Processes
UserRegions == {"private", "clone"} \X Processes
KernelHalf == KernelRegions \union Surfaces

Private(p) == <<"private", p>>
Surface(p) == <<"surface", p>>
Clone(p) == <<"clone", p>>

ASSUME PagesAssumption == PageCount \in Nat
ASSUME IndicesAssumption == {0, 1} \subseteq Indices
\* The regions of the kernel half are at addresses of their own.
ASSUME AddressAssumption ==
    /\ MiddleOf \in [KernelHalf -> Indices] /\ LeafOf \in [KernelHalf -> Indices]
    /\ \A r, s \in KernelHalf : MiddleOf[r] = MiddleOf[s] /\ LeafOf[r] = LeafOf[s] => r = s

\* The two pages every boot has: the kernel's base table and the table its
\* one kernel entry points to.
KernelMain == PageCount + 1
KernelTable == PageCount + 2
Pages == 1 .. PageCount
NoTable == [i \in Indices |-> 0]
UserTop == 0
KernelTop == 1

IsKernel(r) == r \notin UserRegions
OwnerOf(r) == r[2]

\* virtual_address_as_paging_indices
Top(r) == IF IsKernel(r) THEN KernelTop ELSE UserTop
Middle(r) == IF IsKernel(r) THEN MiddleOf[r] ELSE 0
Leaf(r) ==
    CASE IsKernel(r) -> LeafOf[r]
      [] r \in {"private"} \X Processes -> 0
      [] OTHER -> 1

VARIABLES
    memory,     \* what the tables hold: entry i of page f, 0 if not present
    free,       \* physical pages nobody owns
    main,       \* m_main_page of every process's space, 0 when there is none
    owned,      \* m_physical_pages of every process's space
    state,      \* "none", "live", "released" of every region
    page,       \* the page stored in a region, 0 if none
    references, \* ref_count of the block a surface and its clone share
    pc,         \* what each process's thread is doing
    defect      \* "none", or what went wrong; the model stops there

vars == <<memory, free, main, owned, state, page, references, pc, defect>>

Idle == [at |-> "idle"]

\* AddressSpace::inititalize: every kernel entry of the top table has a table.
Init ==
    /\ memory = [f \in 1 .. KernelTable |->
                   IF f = KernelMain THEN [NoTable EXCEPT ![KernelTop] = KernelTable] ELSE NoTable]
    /\ free = Pages
    /\ main = [p \in Processes |-> 0]
    /\ owned = [p \in Processes |-> {}]
    /\ state = [r \in Regions |-> "none"]
    /\ page = [r \in Regions |-> 0]
    /\ references = [r \in Surfaces |-> 0]
    /\ pc = [p \in Processes |-> [at |-> "none"]]
    /\ defect = "none"

\* physical_address_of, and the processor's walk: 0 when an entry is missing.
Walk(top, r) ==
    LET table == memory[top][Top(r)]
        leaf == IF table = 0 THEN 0 ELSE memory[table][Middle(r)]
    IN  IF leaf = 0 THEN 0 ELSE memory[leaf][Leaf(r)]

\* allocate_page: which page is the business of PhysicalMemory.
NewPage == CHOOSE f \in free : \A g \in free : f <= g

\* The block of a surface holds its page; the clone has the same one.
BlockOf(r) == IF r \in {"clone"} \X Processes THEN Surface(OwnerOf(r)) ELSE r

\* Process::create_user, AddressSpace::AddressSpace and inititalize(directory)
create_address_space(p) ==
    /\ pc[p].at = "none" /\ free # {}
    /\ main' = [main EXCEPT ![p] = NewPage]
    /\ memory' = [memory EXCEPT ![NewPage] =
                    [NoTable EXCEPT ![KernelTop] = memory[KernelMain][KernelTop]]]
    /\ free' = free \ {NewPage}
    /\ pc' = [pc EXCEPT ![p] = Idle]
    /\ state' = [state EXCEPT ![Private(p)] = IF p \in Allocating THEN "live" ELSE "none"]
    /\ UNCHANGED <<owned, page, references, defect>>

\* Pipe or DiskCache: allocate_kernel_private_anywhere
allocate_kernel_private(p, r) ==
    /\ pc[p] = Idle /\ r \in KernelRegions /\ state[r] = "none"
    /\ state' = [state EXCEPT ![r] = "live"]
    /\ UNCHANGED <<memory, free, main, owned, page, references, pc, defect>>

(***************************************************************************)
(* A page fault: the processor found no translation for an address of a    *)
(* live private region.  handle_page_fault then waits for the region's     *)
(* lock and holds it to the end; the thread that comes second finds the    *)
(* page stored and returns without mapping anything, so the access faults  *)
(* for ever unless the first has mapped it.                                *)
(***************************************************************************)
Uses(p, r) == pc[p].at \in {"fault", "top", "middle", "link", "leaf", "release"} /\ pc[p].r = r
LockedBy(r) == {p \in Processes : Uses(p, r) /\ pc[p].at \in {"top", "middle", "link", "leaf"}}

page_fault(p, r) ==
    /\ pc[p] = Idle /\ state[r] = "live"
    /\ r \in KernelRegions \/ r = Private(p)
    /\ Walk(main[p], r) = 0
    /\ pc' = [pc EXCEPT ![p] = [at |-> "fault", r |-> r]]
    /\ UNCHANGED <<memory, free, main, owned, state, page, references, defect>>

handle_page_fault(p) ==
    /\ pc[p].at = "fault" /\ LockedBy(pc[p].r) = {}
    /\ LET r == pc[p].r
       IN  IF page[r] # 0
           THEN /\ defect' = IF Walk(main[p], r) = 0 THEN "spurious" ELSE "none"
                /\ pc' = [pc EXCEPT ![p] = Idle]
                /\ UNCHANGED <<page, free>>
           ELSE /\ free # {}
                /\ page' = [page EXCEPT ![r] = NewPage]
                /\ free' = free \ {NewPage}
                /\ pc' = [pc EXCEPT ![p].at = "top"]
                /\ UNCHANGED defect
    /\ UNCHANGED <<memory, main, owned, state, references>>

\* Window::Window: allocate_kernel_shared, then preallocate_entire.
allocate_kernel_shared(p) ==
    LET r == Surface(p)
    IN  /\ pc[p] = Idle /\ p \in Windowed /\ free # {}
        /\ state[r] = "none" /\ references[r] = 0
        /\ state' = [state EXCEPT ![r] = "live"]
        /\ references' = [references EXCEPT ![r] = 1]
        /\ page' = [page EXCEPT ![r] = NewPage]
        /\ free' = free \ {NewPage}
        /\ pc' = [pc EXCEPT ![p] = [at |-> "top", r |-> r]]
        /\ UNCHANGED <<memory, main, owned, defect>>

\* WindowManager: allocate_user_shared clones the surface and maps its page.
allocate_user_shared(p) ==
    LET r == Clone(p)
        s == Surface(p)
    IN  /\ pc[p] = Idle /\ state[r] = "none" /\ state[s] = "live" /\ references[s] = 1
        /\ state' = [state EXCEPT ![r] = "live"]
        /\ references' = [references EXCEPT ![s] = @ + 1]
        /\ pc' = [pc EXCEPT ![p] = [at |-> "top", r |-> r]]
        /\ UNCHANGED <<memory, free, main, owned, page, defect>>

(***************************************************************************)
(* map_page in the current space.  A missing table is allocated, entered   *)
(* in the space's m_physical_pages and linked; between the test and the    *)
(* link the same entry of a kernel table may be linked by another process, *)
(* whose lock is another one.                                              *)
(***************************************************************************)
map_top(p) ==
    /\ pc[p].at = "top"
    /\ LET missing == memory[main[p]][Top(pc[p].r)] = 0
       IN  /\ missing => free # {}
           /\ IF missing
              THEN /\ memory' = [memory EXCEPT ![NewPage] = NoTable,
                                               ![main[p]][Top(pc[p].r)] = NewPage]
                   /\ free' = free \ {NewPage}
                   /\ owned' = [owned EXCEPT ![p] = @ \union {NewPage}]
              ELSE UNCHANGED <<memory, free, owned>>
    /\ pc' = [pc EXCEPT ![p].at = "middle"]
    /\ UNCHANGED <<main, state, page, references, defect>>

map_middle(p) ==
    /\ pc[p].at = "middle"
    /\ LET r == pc[p].r
           missing == memory[memory[main[p]][Top(r)]][Middle(r)] = 0
       IN  /\ missing => free # {}
           /\ IF missing
              THEN /\ memory' = [memory EXCEPT ![NewPage] = NoTable]
                   /\ free' = free \ {NewPage}
                   /\ owned' = [owned EXCEPT ![p] = @ \union {NewPage}]
                   /\ pc' = [pc EXCEPT ![p] = [at |-> "link", r |-> r, new |-> NewPage]]
              ELSE /\ pc' = [pc EXCEPT ![p].at = "leaf"]
                   /\ UNCHANGED <<memory, free, owned>>
    /\ UNCHANGED <<main, state, page, references, defect>>

map_link(p) ==
    /\ pc[p].at = "link"
    /\ LET r == pc[p].r
           table == memory[main[p]][Top(r)]
       IN  /\ memory' = [memory EXCEPT ![table][Middle(r)] = pc[p].new]
           /\ defect' = IF memory[table][Middle(r)] # 0 THEN "replaced" ELSE "none"
           /\ pc' = [pc EXCEPT ![p] = [at |-> "leaf", r |-> r]]
    /\ UNCHANGED <<free, main, owned, state, page, references>>

map_leaf(p) ==
    /\ pc[p].at = "leaf"
    /\ LET r == pc[p].r
           leaf == memory[memory[main[p]][Top(r)]][Middle(r)]
       IN  memory' = [memory EXCEPT ![leaf][Leaf(r)] = page[BlockOf(r)]]
    /\ pc' = [pc EXCEPT ![p] = Idle]
    /\ UNCHANGED <<free, main, owned, state, page, references, defect>>

(***************************************************************************)
(* free_virtual_region: marked, taken out of the tree and unmapped first,  *)
(* its pages released after.  A user region is unmapped from the current   *)
(* space, a kernel one from the kernel's.  local_unmap_page walks down     *)
(* without looking whether a table is there.                               *)
(***************************************************************************)
UnmapTop(r) == IF IsKernel(r) THEN KernelMain ELSE main[OwnerOf(r)]

MissingTable(r) ==
    LET table == memory[UnmapTop(r)][Top(r)]
    IN  IF table = 0 THEN TRUE ELSE memory[table][Middle(r)] = 0

\* Mutant: the entry stays.
Unmapped_nothing(r) == memory

Unmapped(r) ==
    LET leaf == memory[memory[UnmapTop(r)][Top(r)]][Middle(r)]
    IN  [memory EXCEPT ![leaf][Leaf(r)] = 0]

\* The last pipe end closes, a window is destroyed, a program calls
\* VIRTUAL_FREE: nobody uses the region any more.
free_virtual_region(p, r) ==
    /\ pc[p] = Idle
    /\ r \in KernelRegions \union ({"surface", "private", "clone"} \X {p})
    /\ state[r] = "live" /\ \A q \in Processes : ~Uses(q, r)
    /\ state' = [state EXCEPT ![r] = "released"]
    /\ IF MissingTable(r)
       THEN defect' = "missing" /\ UNCHANGED <<memory, pc>>
       ELSE /\ memory' = Unmapped(r)
            /\ pc' = [pc EXCEPT ![p] = [at |-> "release", r |-> r]]
            /\ UNCHANGED defect
    /\ UNCHANGED <<free, main, owned, page, references>>

\* release_all_pages, for a shared region only by the last to drop the block
IsShared(r) == BlockOf(r) \in Surfaces
IsLast(r) == IsShared(r) => references[BlockOf(r)] = 1

\* Mutant: the pages go whoever else has the block.
Dropped_always(r) == {page[BlockOf(r)]} \ {0}

Dropped(r) == IF IsLast(r) THEN {page[BlockOf(r)]} \ {0} ELSE {}

PagesWithout(r) == [page EXCEPT ![BlockOf(r)] = IF IsLast(r) THEN 0 ELSE @]

\* Mutant: two references are dropped.
decref_twice(r) == [references EXCEPT ![BlockOf(r)] = @ - 2]

decref(r) == [references EXCEPT ![BlockOf(r)] = @ - 1]

release_all_pages(p) ==
    /\ pc[p].at = "release"
    /\ LET r == pc[p].r
       IN  /\ free' = free \union Dropped(r)
           /\ page' = PagesWithout(r)
           /\ references' = IF IsShared(r) THEN decref(r) ELSE references
           /\ state' = [state EXCEPT ![r] = "none"]
           \* The system call holds the process's lock, which is not recursive
           \* and is taken again to drop the region from the process's tree.
           /\ pc' = [pc EXCEPT ![p] = IF IsKernel(r) THEN Idle ELSE [at |-> "stuck"]]
    /\ UNCHANGED <<memory, main, owned, defect>>

(***************************************************************************)
(* TaskFinalizer: the windows of the dead thread are closed, then the      *)
(* process's regions are released while its tables still map them, then    *)
(* the tables go.                                                          *)
(***************************************************************************)
exit(p) ==
    /\ pc[p] = Idle
    /\ pc' = [pc EXCEPT ![p] = [at |-> "dead"]]
    /\ UNCHANGED <<memory, free, main, owned, state, page, references, defect>>

do_free_thread(p) ==
    LET s == Surface(p)
    IN  /\ pc[p].at = "dead"
        /\ IF state[s] = "live"
           THEN /\ memory' = Unmapped(s)
                /\ free' = free \union Dropped(s)
                /\ page' = PagesWithout(s)
                /\ references' = decref(s)
                /\ state' = [state EXCEPT ![s] = "none"]
           ELSE UNCHANGED <<memory, free, page, references, state>>
        /\ pc' = [pc EXCEPT ![p] = [at |-> "regions"]]
        /\ UNCHANGED <<main, owned, defect>>

free_all_virtual_regions(p) ==
    LET u == Private(p)
        c == Clone(p)
        cloned == state[c] = "live"
    IN  /\ pc[p].at = "regions"
        /\ free' = free \union Dropped(u) \union (IF cloned THEN Dropped(c) ELSE {})
        /\ page' = [(IF cloned THEN PagesWithout(c) ELSE page) EXCEPT ![u] = 0]
        /\ references' = IF cloned THEN decref(c) ELSE references
        /\ state' = [state EXCEPT ![u] = "none", ![c] = "none"]
        /\ pc' = [pc EXCEPT ![p] = [at |-> "space"]]
        /\ UNCHANGED <<memory, main, owned, defect>>

\* Tables that the kernel half of every space still points to
Linked == {memory[KernelTable][i] : i \in Indices} \ {0}

free_address_space(p) ==
    /\ pc[p].at = "space"
    /\ free' = free \union owned[p] \union {main[p]}
    /\ defect' = IF owned[p] \intersect Linked # {} THEN "freed" ELSE "none"
    /\ owned' = [owned EXCEPT ![p] = {}]
    /\ main' = [main EXCEPT ![p] = 0]
    /\ pc' = [pc EXCEPT ![p] = [at |-> "gone"]]
    \* What a free page holds is never read: allocate_page zeroes it again.
    /\ memory' = [f \in DOMAIN memory |-> IF f \in owned[p] \union {main[p]} THEN NoTable ELSE memory[f]]
    /\ UNCHANGED <<state, page, references>>

Map(p) == map_top(p) \/ map_middle(p) \/ map_link(p) \/ map_leaf(p)

Next ==
    /\ defect = "none"
    /\ \E p \in Processes :
         \/ create_address_space(p)
         \/ \E r \in KernelRegions : allocate_kernel_private(p, r)
         \/ \E r \in Regions : page_fault(p, r) \/ free_virtual_region(p, r)
         \/ allocate_kernel_shared(p) \/ allocate_user_shared(p)
         \/ handle_page_fault(p) \/ Map(p)
         \/ release_all_pages(p)
         \/ exit(p) \/ do_free_thread(p) \/ free_all_virtual_regions(p) \/ free_address_space(p)

Spec == Init /\ [][Next]_vars

Stages == {"none", "idle", "fault", "top", "middle", "link", "leaf", "release",
           "stuck", "dead", "regions", "space", "gone"}

\* Pages are pages, states are states.
TypeOK ==
    /\ memory \in [1 .. KernelTable -> [Indices -> 0 .. KernelTable]]
    /\ free \subseteq Pages
    /\ main \in [Processes -> 0 .. PageCount]
    /\ owned \in [Processes -> SUBSET Pages]
    /\ state \in [Regions -> {"none", "live", "released"}]
    /\ page \in [Regions -> 0 .. PageCount]
    /\ references \in [Surfaces -> 0 .. 2]
    /\ \A p \in Processes : pc[p].at \in Stages
    /\ defect \in {"none", "spurious", "replaced", "missing", "freed"}

Running(p) == pc[p].at \notin {"none", "dead", "regions", "space", "gone"}

(***************************************************************************)
(* A live region that nobody is mapping translates, in every running space *)
(* that can see it and for a kernel region in all of them, to the page the *)
(* region stores, and one that is not live translates to nothing:          *)
(* free_virtual_region unmaps before it gives the page back, a clone maps  *)
(* the page of its surface, and a fault that returns because the page is   *)
(* there leaves it mapped.                                                 *)
(***************************************************************************)
Tops(r) ==
    {main[p] : p \in {q \in Processes : Running(q) /\ (IsKernel(r) \/ OwnerOf(r) = q)}}
    \union (IF IsKernel(r) THEN {KernelMain} ELSE {})

TranslationExact ==
    defect = "none" =>
        \A r \in Regions : LockedBy(r) = {} =>
            \A top \in Tops(r) :
                Walk(top, r) = IF state[r] = "live" THEN page[BlockOf(r)] ELSE 0

(***************************************************************************)
(* Every physical page has exactly one owner: it is free, or the top table *)
(* of one space, or a table of one space, or the page of one region or     *)
(* block.  So releasing regions, dropping the last reference to a block    *)
(* and freeing a space neither lose a page nor return one twice.           *)
(***************************************************************************)
Owners(f) ==
    ({"free"} \X ({f} \intersect free))
    \union ({"main"} \X {p \in Processes : main[p] = f})
    \union ({"table"} \X {p \in Processes : f \in owned[p]})
    \union ({"region"} \X {r \in Regions : page[r] = f})

RegionsExact == defect = "none" => \A f \in Pages : \E o \in Owners(f) : Owners(f) = {o}

(***************************************************************************)
(* AddressSpace.cpp says of the kernel's tables that all are preallocated. *)
(* Only the entries of the top table are: what is below is made by the     *)
(* process that happens to fault and goes when that process goes.          *)
(***************************************************************************)
KernelTablesStay == Linked \intersect free = {}
=============================================================================
