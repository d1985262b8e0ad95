----------------------- MODULE AddressSpaceInvariant -----------------------
(***************************************************************************)
(* Page tables and regions for any number of processes, buffers, pages and   *)
(* table entries.  The invariant is stated about five things the tables say:  *)
(* which table a kernel index has (KernelLeaf), which tables a process has    *)
(* below its top one (UserTable, UserLeaf), which page an address translates  *)
(* to (Translation) and who owns a page.                                     *)
(***************************************************************************)
EXTENDS AddressSpace, TLAPS

\* The leaf table that an index of the kernel's middle table has, or 0.
KernelLeaf(i) == memory[KernelTable][i]

\* The middle table of a process's own half, or 0, and the one leaf table below it.
UserTable(p) == memory[main[p]][UserTop]
UserLeaf(p) == IF UserTable(p) = 0 THEN 0 ELSE memory[UserTable(p)][0]

LeafTable(r) == IF IsKernel(r) THEN KernelLeaf(MiddleOf[r]) ELSE UserLeaf(OwnerOf(r))
Translation(r) == IF LeafTable(r) = 0 THEN 0 ELSE memory[LeafTable(r)][Leaf(r)]

\* The space of p exists.
Alive(p) == pc[p].at \notin {"none", "gone"}

\* The numbers of pages, and what an entry of a table or of a region may hold.
Frames == 1 .. KernelTable
Entries == 0 .. KernelTable
MaybePages == 0 .. PageCount

Places ==
    [at : {"none", "idle", "stuck", "dead", "regions", "space", "gone"}]
    \union [at : {"fault", "top", "middle", "leaf", "release"}, r : Regions]
    \union [at : {"link"}, r : Regions, new : Pages]

Types ==
    /\ memory \in [Frames -> [Indices -> Entries]]
    /\ free \subseteq Pages
    /\ main \in [Processes -> MaybePages]
    /\ owned \in [Processes -> SUBSET Pages]
    /\ state \in [Regions -> {"none", "live", "released"}]
    /\ page \in [Regions -> MaybePages]
    /\ references \in [Surfaces -> 0 .. 2]
    /\ pc \in [Processes -> Places]
    /\ defect \in {"none", "spurious", "replaced", "missing", "freed"}

\* The tables below the kernel's middle table are tables of some process, one per index.
KernelOK ==
    /\ memory[KernelMain][KernelTop] = KernelTable
    /\ \A i \in Indices : KernelLeaf(i) # 0 => \E p \in Processes : KernelLeaf(i) \in owned[p]
    /\ \A i, j \in Indices : KernelLeaf(i) # 0 /\ KernelLeaf(i) = KernelLeaf(j) => i = j

\* A space points to the kernel's middle table and to tables of its own, which the kernel does
\* not use; one that is being linked is empty and is used nowhere yet.
SpaceOK(p) ==
    /\ Alive(p) =>
         /\ main[p] \in Pages /\ memory[main[p]][KernelTop] = KernelTable
         /\ UserTable(p) # 0 => UserTable(p) \in owned[p]
         /\ UserLeaf(p) # 0 => UserLeaf(p) \in owned[p] /\ UserLeaf(p) # UserTable(p)
         /\ \A i \in Indices : KernelLeaf(i) # 0 => KernelLeaf(i) # UserTable(p) /\ KernelLeaf(i) # UserLeaf(p)
    /\ ~Alive(p) => main[p] = 0 /\ owned[p] = {}
    /\ pc[p].at = "link" =>
         /\ pc[p].new \in owned[p] /\ memory[pc[p].new] = NoTable
         /\ pc[p].new # UserTable(p) /\ pc[p].new # UserLeaf(p)
         /\ \A i \in Indices : KernelLeaf(i) # pc[p].new
    /\ pc[p].at \in {"middle", "link"} => IsKernel(pc[p].r) \/ UserTable(p) # 0
    /\ \A r \in Regions : pc[p].at = "leaf" /\ pc[p].r = r => LeafTable(r) # 0

SpacesOK == \A p \in Processes : SpaceOK(p)

\* Every page has an owner, and one only.
PagesOK ==
    /\ \A f \in Pages :
          \/ f \in free
          \/ \E p \in Processes : main[p] = f \/ f \in owned[p]
          \/ \E r \in Regions : page[r] = f
    /\ \A p \in Processes :
          /\ main[p] \notin free /\ owned[p] \intersect free = {}
          /\ \A q \in Processes :
                /\ main[p] \notin owned[q]
                /\ p # q => (main[p] # 0 => main[p] # main[q]) /\ owned[p] \intersect owned[q] = {}
          /\ \A r \in Regions : page[r] \notin owned[p] /\ (page[r] # 0 => page[r] # main[p])
    /\ \A r \in Regions :
          /\ page[r] \notin free
          /\ \A s \in Regions : r # s /\ page[r] # 0 => page[r] # page[s]

Unshared == KernelRegions \union {Private(p) : p \in Processes}

One(r) == IF state[r] = "none" THEN 0 ELSE 1

\* A block lives while its surface or its clone does, and counts the two; only regions that
\* exist have pages; a process has regions from when its space is made to when they are freed.
BlockOK(p) ==
    /\ page[Clone(p)] = 0
    /\ references[Surface(p)] = One(Surface(p)) + One(Clone(p))
    /\ page[Surface(p)] # 0 <=> references[Surface(p)] # 0

RegionsOf(p) ==
    /\ BlockOK(p)
    /\ pc[p].at \in {"none", "space", "gone"} =>
          state[Private(p)] = "none" /\ state[Surface(p)] = "none" /\ state[Clone(p)] = "none"
    /\ pc[p].at = "regions" => state[Surface(p)] = "none"

RegionsOK ==
    /\ \A p \in Processes : RegionsOf(p)
    /\ \A r \in Unshared : state[r] = "none" => page[r] = 0

Works(p) == pc[p].at \in {"fault", "top", "middle", "link", "leaf"}
Locks(p) == pc[p].at \in {"top", "middle", "link", "leaf"}

\* Whoever maps a region maps a live one of its own or of the kernel, alone, and has its page;
\* whoever releases one is alone, too.
WorkOK ==
    /\ \A p \in Processes :
          /\ Works(p) => state[pc[p].r] = "live"
          /\ Works(p) \/ pc[p].at = "release" =>
                pc[p].r \in KernelRegions \union {Private(p), Surface(p), Clone(p)}
          /\ pc[p].at = "fault" => pc[p].r \in KernelRegions \union {Private(p)}
          /\ Locks(p) => page[BlockOf(pc[p].r)] # 0
          /\ pc[p].at = "release" => state[pc[p].r] = "released"
          /\ \A q \in Processes :
                /\ Locks(p) /\ Locks(q) /\ pc[p].r = pc[q].r => p = q
                /\ pc[p].at = "release" /\ pc[q].at = "release" /\ pc[p].r = pc[q].r => p = q
    /\ \A r \in Regions : state[r] = "released" =>
          \E p \in Processes : pc[p].at = "release" /\ pc[p].r = r

Unlocked(r) == \A p \in Processes : Locks(p) => pc[p].r # r

\* TranslationExact, without the walk.
TranslationOK ==
    \A r \in Regions :
        Unlocked(r) /\ (IsKernel(r) \/ Running(OwnerOf(r))) =>
            Translation(r) = IF state[r] = "live" THEN page[BlockOf(r)] ELSE 0

Good == KernelOK /\ SpacesOK /\ PagesOK /\ RegionsOK /\ WorkOK /\ TranslationOK

\* The model stops at a defect: nothing is claimed of what follows one.
IInv == Types /\ (defect = "none" => Good)

-----------------------------------------------------------------------------
(* Constants. *)

\* The boot's two tables are none of the pages that are handed out.
LEMMA PageFacts ==
    /\ 0 \notin Pages /\ KernelMain \notin Pages /\ KernelTable \notin Pages
    /\ KernelMain # KernelTable /\ 0 # KernelTable /\ 0 # KernelMain
    /\ Pages \subseteq Frames /\ KernelMain \in Frames /\ KernelTable \in Frames
    /\ 0 \notin Frames /\ MaybePages = Pages \union {0} /\ Entries = Frames \union {0}
    /\ UserTop \in Indices /\ KernelTop \in Indices /\ UserTop # KernelTop /\ 0 \in Indices /\ 1 \in Indices
  BY PagesAssumption, IndicesAssumption
     DEF Pages, KernelMain, KernelTable, Frames, Entries, MaybePages, UserTop, KernelTop

\* A region is a buffer, or the private one, the surface or the clone of one process.
LEMMA RegionKinds ==
    /\ KernelRegions \subseteq Regions
    /\ \A p \in Processes : {Private(p), Surface(p), Clone(p)} \subseteq Regions
    /\ \A r \in Regions : r \in KernelRegions
          \/ \E p \in Processes : r \in {Private(p), Surface(p), Clone(p)}
    /\ \A r \in KernelRegions, p \in Processes : r \notin {Private(p), Surface(p), Clone(p)}
    /\ \A p, q \in Processes :
          /\ Private(p) \notin {Surface(q), Clone(q)} /\ Surface(p) # Clone(q)
          /\ Private(p) = Private(q) \/ Surface(p) = Surface(q) \/ Clone(p) = Clone(q) => p = q
  BY DEF KernelRegions, Regions, Private, Surface, Clone

\* How many references a block has.
LEMMA SmallNumbers == 1 + 1 = 2 /\ 1 \in 0 .. 2 /\ 2 \in 0 .. 2
  OBVIOUS

\* Where a process is that does nothing with its memory.
LEMMA IdlePlace == Idle.at = "idle"
  BY DEF Idle

\* The three regions of a process, as a set of pairs.
LEMMA OwnRegions ==
    ASSUME NEW p \in Processes, NEW r \in {"surface", "private", "clone"} \X {p}
    PROVE  r \in {Private(p), Surface(p), Clone(p)}
  BY DEF Private, Surface, Clone

\* What the operators on regions say of the four kinds.
LEMMA RegionOperators ==
    /\ \A r \in KernelRegions : IsKernel(r) /\ BlockOf(r) = r /\ ~IsShared(r)
    /\ \A p \in Processes :
          /\ IsKernel(Surface(p)) /\ ~IsKernel(Private(p)) /\ ~IsKernel(Clone(p))
          /\ OwnerOf(Private(p)) = p /\ OwnerOf(Surface(p)) = p /\ OwnerOf(Clone(p)) = p
          /\ BlockOf(Private(p)) = Private(p) /\ BlockOf(Surface(p)) = Surface(p)
          /\ BlockOf(Clone(p)) = Surface(p)
          /\ ~IsShared(Private(p)) /\ IsShared(Surface(p)) /\ IsShared(Clone(p))
          /\ Leaf(Private(p)) = 0 /\ Leaf(Clone(p)) = 1
          /\ Surface(p) \in Surfaces
    /\ \A s \in Surfaces : \E p \in Processes : s = Surface(p)
    /\ \A r \in Regions :
          /\ IsKernel(r) <=> r \in KernelHalf
          /\ ~IsKernel(r) => OwnerOf(r) \in Processes /\ r \in {Private(OwnerOf(r)), Clone(OwnerOf(r))}
          /\ Top(r) = IF IsKernel(r) THEN KernelTop ELSE UserTop
          /\ Middle(r) \in Indices /\ Leaf(r) \in Indices
          /\ IsKernel(r) => Leaf(r) = LeafOf[r] /\ Middle(r) = MiddleOf[r]
          /\ ~IsKernel(r) => Middle(r) = 0
          /\ BlockOf(r) \in Regions
<1> USE DEF KernelRegions, Regions, Private, Surface, Clone, IsKernel, UserRegions, OwnerOf, Surfaces
<1>1. \A r \in KernelRegions : IsKernel(r) /\ BlockOf(r) = r /\ ~IsShared(r)
  BY Zenon DEF BlockOf, IsShared
<1>2. \A p \in Processes :
          /\ IsKernel(Surface(p)) /\ ~IsKernel(Private(p)) /\ ~IsKernel(Clone(p))
          /\ OwnerOf(Private(p)) = p /\ OwnerOf(Surface(p)) = p /\ OwnerOf(Clone(p)) = p
          /\ BlockOf(Private(p)) = Private(p) /\ BlockOf(Surface(p)) = Surface(p)
          /\ BlockOf(Clone(p)) = Surface(p) /\ Surface(p) \in Surfaces
  BY Zenon DEF BlockOf
<1>3. \A p \in Processes :
          /\ ~IsShared(Private(p)) /\ IsShared(Surface(p)) /\ IsShared(Clone(p))
  BY Zenon DEF BlockOf, IsShared
<1>4. \A p \in Processes : Leaf(Private(p)) = 0 /\ Leaf(Clone(p)) = 1
  BY Zenon DEF Leaf
<1>5. \A s \in Surfaces : \E p \in Processes : s = Surface(p)
  OBVIOUS
<1>6. \A r \in Regions :
          /\ IsKernel(r) <=> r \in KernelHalf
          /\ ~IsKernel(r) => OwnerOf(r) \in Processes /\ r \in {Private(OwnerOf(r)), Clone(OwnerOf(r))}
          /\ BlockOf(r) \in Regions
  BY DEF KernelHalf, BlockOf
<1>7. \A r \in Regions :
          /\ Top(r) = IF IsKernel(r) THEN KernelTop ELSE UserTop
          /\ IsKernel(r) => Leaf(r) = LeafOf[r] /\ Middle(r) = MiddleOf[r]
          /\ ~IsKernel(r) => Middle(r) = 0 /\ Leaf(r) \in {0, 1}
  BY Zenon DEF Top, Leaf, Middle
<1>8. \A r \in Regions : Middle(r) \in Indices /\ Leaf(r) \in Indices
  BY <1>6, <1>7, IndicesAssumption, AddressAssumption
<1> QED
  BY <1>1, <1>2, <1>3, <1>4, <1>5, <1>6, <1>7, <1>8

\* Buffers and private regions have their pages to themselves.
LEMMA UnsharedRegions ==
    /\ \A r \in Regions : r \in Unshared <=> ~IsShared(r)
    /\ \A r \in Unshared : r \in Regions /\ BlockOf(r) = r
                             /\ \A q \in Processes : r \notin {Surface(q), Clone(q)}
<1>1. \A r \in Unshared : r \in Regions /\ BlockOf(r) = r /\ ~IsShared(r)
                            /\ \A q \in Processes : r \notin {Surface(q), Clone(q)}
  BY RegionKinds, RegionOperators DEF Unshared
<1>2. \A r \in Regions : r \notin Unshared => IsShared(r)
  BY RegionKinds, RegionOperators DEF Unshared
<1> QED
  BY Zenon, <1>1, <1>2

\* What the allocator of pages needs, a fact about numbers that is shown at the end.
LowestExists == \A S \in SUBSET Pages : S # {} => \E f \in S : \A g \in S : f <= g

\* The page that the allocator hands out is a free one.
LEMMA NewPageIsFree ==
    ASSUME LowestExists, free \subseteq Pages, free # {}
    PROVE  NewPage \in free
  BY Zenon DEF LowestExists, NewPage

\* What threads work on are regions.
LEMMA WorkedRegions ==
    WorkOK => \A q \in Processes : Works(q) \/ pc[q].at = "release" => pc[q].r \in Regions
  BY RegionKinds DEF WorkOK

\* The regions of a process, and the blocks of the others.
LEMMA RegionBlocks ==
    \A t \in Regions, p \in Processes :
        /\ t \in {Private(p), Clone(p)} => ~IsKernel(t) /\ OwnerOf(t) = p
        /\ t \notin {Private(p), Surface(p), Clone(p)} => BlockOf(t) \notin {Private(p), Surface(p)}
        /\ BlockOf(t) \in Regions /\ Leaf(t) \in Indices
<1>1. \A t \in Regions, p \in Processes :
          t \notin {Private(p), Surface(p), Clone(p)} => BlockOf(t) \notin {Private(p), Surface(p)}
  <2> SUFFICES ASSUME NEW t \in Regions, NEW p \in Processes, t \notin {Private(p), Surface(p), Clone(p)}
               PROVE  BlockOf(t) \notin {Private(p), Surface(p)}
    BY Zenon
  <2>1. CASE t \in KernelRegions
    BY Zenon, <2>1, RegionKinds, RegionOperators
  <2>2. CASE \E q \in Processes : t \in {Private(q), Surface(q), Clone(q)}
    <3>1. PICK q \in Processes : t \in {Private(q), Surface(q), Clone(q)}
      BY Zenon, <2>2
    <3>2. p # q
      BY Zenon, <3>1
    <3>3. BlockOf(t) \in {Private(q), Surface(q)}
      BY Zenon, <3>1, RegionOperators
    <3> QED
      BY Zenon, <3>2, <3>3, RegionKinds
  <2> QED
    BY Zenon, <2>1, <2>2, RegionKinds
<1> QED
  BY ZenonT(40), <1>1, RegionOperators

\* Nobody else has the block of a region that shares none.
LEMMA UnsharedBlocks ==
    ASSUME NEW r \in Unshared
    PROVE  r \in Regions /\ BlockOf(r) = r /\ \A t \in Regions : t # r => BlockOf(t) # r /\ BlockOf(t) \in Regions
  BY UnsharedRegions, RegionKinds, RegionOperators

\* The block of a surface is its own and its clone's.
LEMMA SharedBlocks ==
    ASSUME NEW p \in Processes, NEW t \in Regions, BlockOf(t) = Surface(p)
    PROVE  t \in {Surface(p), Clone(p)}
  BY RegionKinds, RegionOperators

\* The regions of two processes are not the same.
LEMMA OthersRegions ==
    ASSUME NEW p \in Processes, NEW q \in Processes, q # p
    PROVE  /\ Private(q) \in Regions /\ Surface(q) \in Regions /\ Clone(q) \in Regions /\ Surface(q) \in Surfaces
           /\ Private(q) # Private(p) /\ Private(q) # Surface(p) /\ Private(q) # Clone(p)
           /\ Surface(q) # Private(p) /\ Surface(q) # Surface(p) /\ Surface(q) # Clone(p)
           /\ Clone(q) # Private(p) /\ Clone(q) # Surface(p) /\ Clone(q) # Clone(p)
  BY RegionKinds, RegionOperators

\* The invariant holds after the boot, before any process.
LEMMA InitIsGood == Init => IInv
<1> SUFFICES ASSUME Init PROVE IInv
  BY Zenon
<1>1. /\ memory = [f \in Frames |-> IF f = KernelMain THEN [NoTable EXCEPT ![KernelTop] = KernelTable] ELSE NoTable]
      /\ free = Pages /\ main = [p \in Processes |-> 0] /\ owned = [p \in Processes |-> {}]
      /\ state = [r \in Regions |-> "none"] /\ page = [r \in Regions |-> 0]
      /\ references = [r \in Surfaces |-> 0] /\ pc = [p \in Processes |-> [at |-> "none"]] /\ defect = "none"
  BY Zenon DEF Init, Frames
<1>2. \A p \in Processes : pc[p].at = "none" /\ ~Alive(p) /\ ~Works(p) /\ ~Locks(p) /\ ~Running(p)
  BY Zenon, <1>1 DEF Alive, Works, Locks, Running
<1>3. memory \in [Frames -> [Indices -> Entries]]
  <2>1. NoTable \in [Indices -> Entries] /\ [NoTable EXCEPT ![KernelTop] = KernelTable] \in [Indices -> Entries]
    BY Zenon, PageFacts DEF NoTable
  <2> QED
    BY Zenon, <1>1, <2>1
<1>4. Types
  BY <1>1, <1>3, PageFacts DEF Types, Places
<1>5. \A i \in Indices : KernelLeaf(i) = 0
  BY Zenon, <1>1, PageFacts DEF KernelLeaf, NoTable
<1>6. KernelOK
  <2>1. memory[KernelMain][KernelTop] = KernelTable
    BY Zenon, <1>1, PageFacts DEF NoTable
  <2> QED
    BY Zenon, <1>5, <2>1 DEF KernelOK
<1>7. SpacesOK
  BY Zenon, <1>1, <1>2 DEF SpacesOK, SpaceOK
<1>8. PagesOK
  BY Zenon, <1>1, PageFacts DEF PagesOK
<1>9. RegionsOK
  BY <1>1, RegionKinds, RegionOperators, UnsharedRegions DEF RegionsOK, RegionsOf, BlockOK, One
<1>10. WorkOK
  BY Zenon, <1>1, <1>2 DEF WorkOK
<1>11. TranslationOK
  <2>1. \A r \in Regions : IsKernel(r) \/ Running(OwnerOf(r)) => Translation(r) = 0
    BY <1>2, <1>5, RegionOperators DEF Translation, LeafTable
  <2> QED
    BY Zenon, <1>1, <2>1 DEF TranslationOK
<1> QED
  BY Zenon, <1>4, <1>6, <1>7, <1>8, <1>9, <1>10, <1>11 DEF IInv, Good

\* A step of something else changes nothing that the invariant looks at.
LEMMA StutterIsGood ==
    ASSUME IInv, UNCHANGED vars
    PROVE  IInv'
<1>1. UNCHANGED <<memory, free, main, owned, state, page, references, pc, defect>>
  BY Zenon DEF vars
<1>2. Types' <=> Types
  BY Zenon, <1>1 DEF Types
<1>3. KernelOK' <=> KernelOK
  BY Zenon, <1>1 DEF KernelOK, KernelLeaf
<1>4. \A p \in Processes : SpaceOK(p)' <=> SpaceOK(p)
  BY <1>1 DEF SpaceOK, Alive, LeafTable, KernelLeaf, UserLeaf, UserTable
<1>5. PagesOK' <=> PagesOK
  BY Zenon, <1>1 DEF PagesOK
<1>6. RegionsOK' <=> RegionsOK
  BY Zenon, <1>1 DEF RegionsOK, RegionsOf, BlockOK, One
<1>7. WorkOK' <=> WorkOK
  BY <1>1 DEF WorkOK, Works, Locks
<1>8. \A r \in Regions : /\ Unlocked(r)' <=> Unlocked(r)
                         /\ Running(OwnerOf(r))' <=> Running(OwnerOf(r))
                         /\ Translation(r)' = Translation(r)
  BY Zenon, <1>1 DEF Unlocked, Locks, Running, Translation, LeafTable, KernelLeaf, UserLeaf, UserTable
<1>9. TranslationOK' <=> TranslationOK
  BY Zenon, <1>1, <1>8 DEF TranslationOK
<1> QED
  BY Zenon, <1>1, <1>2, <1>3, <1>4, <1>5, <1>6, <1>7, <1>9 DEF IInv, Good, SpacesOK

-----------------------------------------------------------------------------
(* What a step leaves alone. *)

Visible(r) == IsKernel(r) \/ Alive(OwnerOf(r))

\* The tables of the kernel and of the processes Q say the same after the step as before, but
\* for where the regions of T are.
SameTables(Q, T) ==
    /\ memory'[KernelMain] = memory[KernelMain]
    /\ \A i \in Indices : KernelLeaf(i)' = KernelLeaf(i)
    /\ \A q \in Q : Alive(q) =>
          /\ main'[q] = main[q] /\ memory'[main[q]][KernelTop] = memory[main[q]][KernelTop]
          /\ UserTable(q)' = UserTable(q) /\ UserLeaf(q)' = UserLeaf(q)
    /\ \A q \in Q : pc[q].at = "link" => memory'[pc[q].new] = memory[pc[q].new]
    /\ \A r \in Regions : Visible(r) /\ (IsKernel(r) \/ OwnerOf(r) \in Q) =>
          LeafTable(r)' = LeafTable(r) /\ (r \notin T => Translation(r)' = Translation(r))

\* A step that writes no table keeps them all.
LEMMA TablesUnchanged ==
    ASSUME memory' = memory, main' = main
    PROVE  SameTables(Processes, {})
  BY Zenon DEF SameTables, KernelLeaf, UserTable, UserLeaf, LeafTable, Translation

\* A leaf table is a table of the process whose region it maps, or of some process.
LEMMA LeafTableOwned ==
    ASSUME KernelOK, SpacesOK, NEW r \in Regions, Visible(r), LeafTable(r) # 0
    PROVE  /\ IsKernel(r) => \E p \in Processes : LeafTable(r) \in owned[p]
           /\ ~IsKernel(r) => LeafTable(r) \in owned[OwnerOf(r)]
<1>1. CASE IsKernel(r)
  BY Zenon, <1>1, RegionOperators, AddressAssumption DEF LeafTable, KernelOK
<1>2. CASE ~IsKernel(r)
  BY Zenon, <1>2, RegionOperators DEF LeafTable, SpacesOK, SpaceOK, Visible
<1> QED
  BY Zenon, <1>1, <1>2

\* A step that writes only pages which are no tables of the kernel nor of the processes Q
\* leaves their translations alone.
LEMMA OffTables ==
    ASSUME Types, KernelOK, SpacesOK, PagesOK, NEW Q \in SUBSET Processes, NEW F,
           \A g \in Frames : g \notin F => memory'[g] = memory[g],
           KernelMain \notin F, KernelTable \notin F,
           \A i \in Indices : KernelLeaf(i) # 0 => KernelLeaf(i) \notin F,
           \A q \in Q : main'[q] = main[q] /\ main[q] \notin F /\ owned[q] \intersect F = {}
    PROVE  SameTables(Q, {})
<1>1. memory'[KernelMain] = memory[KernelMain] /\ \A i \in Indices : KernelLeaf(i)' = KernelLeaf(i)
  BY Zenon, PageFacts DEF KernelLeaf
<1>2. ASSUME NEW q \in Q, Alive(q)
      PROVE  /\ main'[q] = main[q] /\ memory'[main[q]][KernelTop] = memory[main[q]][KernelTop]
             /\ UserTable(q)' = UserTable(q) /\ UserLeaf(q)' = UserLeaf(q)
  <2>1. main[q] \in Frames /\ memory'[main[q]] = memory[main[q]]
    BY Zenon, <1>2, PageFacts DEF SpacesOK, SpaceOK
  <2>2. UserTable(q)' = UserTable(q)
    BY Zenon, <2>1 DEF UserTable
  <2>3. UserTable(q) # 0 => UserTable(q) \in Frames /\ UserTable(q) \notin F
    BY Zenon, <1>2, PageFacts DEF SpacesOK, SpaceOK, Types
  <2> QED
    BY Zenon, <2>1, <2>2, <2>3 DEF UserLeaf
<1>3. ASSUME NEW q \in Q, pc[q].at = "link" PROVE memory'[pc[q].new] = memory[pc[q].new]
  BY Zenon, <1>3, PageFacts DEF SpacesOK, SpaceOK, Types
<1>4. ASSUME NEW r \in Regions, Visible(r), IsKernel(r) \/ OwnerOf(r) \in Q
      PROVE  LeafTable(r)' = LeafTable(r) /\ Translation(r)' = Translation(r)
  <2>1. LeafTable(r)' = LeafTable(r)
    BY Zenon, <1>1, <1>2, <1>4, RegionOperators, AddressAssumption DEF LeafTable, Visible
  <2>2. LeafTable(r) # 0 => LeafTable(r) \in Frames /\ LeafTable(r) \notin F
    <3>1. CASE IsKernel(r)
      BY <3>1, <1>4, LeafTableOwned, PageFacts, RegionOperators, AddressAssumption DEF Types, LeafTable
    <3>2. CASE ~IsKernel(r)
      BY Zenon, <3>2, <1>4, LeafTableOwned, PageFacts DEF Types
    <3> QED
      BY Zenon, <3>1, <3>2
  <2> QED
    BY Zenon, <2>1, <2>2 DEF Translation
<1> QED
  BY Zenon, <1>1, <1>2, <1>3, <1>4 DEF SameTables

\* Writing an entry of a leaf table changes one translation.
LEMMA LeafWrite ==
    ASSUME Types, KernelOK, SpacesOK, PagesOK,
           NEW t \in Regions, Visible(t), LeafTable(t) # 0, NEW v \in Entries,
           memory' = [memory EXCEPT ![LeafTable(t)][Leaf(t)] = v], main' = main
    PROVE  /\ memory' \in [Frames -> [Indices -> Entries]]
           /\ SameTables(Processes, {t}) /\ Translation(t)' = v
<1> PICK f : f = LeafTable(t)
  BY Zenon
<1> PICK e : e = Leaf(t)
  BY Zenon
<1>1. e \in Indices /\ memory' = [memory EXCEPT ![f][e] = v]
  BY Zenon, RegionOperators
<1> DEFINE Apart ==
        /\ f \in Pages /\ \A q \in Processes : main[q] # f
        /\ \A q \in Processes : Alive(q) => UserTable(q) # f
        /\ \A q \in Processes : pc[q].at = "link" => pc[q].new # f
        /\ \A r \in Regions : Visible(r) /\ LeafTable(r) = f /\ r # t => Leaf(r) # e
<1>2. ASSUME IsKernel(t) PROVE Apart
  <2> PICK m \in Indices : m = MiddleOf[t]
    BY Zenon, <1>2, RegionOperators
  <2>1. f = KernelLeaf(m) /\ f # 0
    BY Zenon, <1>2 DEF LeafTable
  <2> PICK p \in Processes : f \in owned[p]
    BY Zenon, <2>1 DEF KernelOK
  <2>2. f \in Pages /\ \A q \in Processes : main[q] # f
    BY DEF Types, PagesOK
  <2>3. \A q \in Processes : Alive(q) => UserTable(q) # f /\ UserLeaf(q) # f
    BY Zenon, <2>1 DEF SpacesOK, SpaceOK
  <2>4. \A q \in Processes : pc[q].at = "link" => pc[q].new # f
    BY Zenon, <2>1 DEF SpacesOK, SpaceOK
  <2>5. \A r \in Regions : Visible(r) /\ LeafTable(r) = f /\ r # t => Leaf(r) # e
    <3> SUFFICES ASSUME NEW r \in Regions, Visible(r), LeafTable(r) = f, r # t PROVE Leaf(r) # e
      BY Zenon
    <3>1. IsKernel(r)
      BY Zenon, <2>3, RegionOperators DEF Visible, LeafTable
    <3>2. MiddleOf[r] = m
      BY <3>1, <2>1, RegionOperators DEF LeafTable, KernelOK
    <3> QED
      BY <3>1, <3>2, <1>2, RegionOperators, AddressAssumption
  <2> QED
    BY Zenon, <2>2, <2>3, <2>4, <2>5
<1>3. ASSUME ~IsKernel(t) PROVE Apart
  <2> PICK p \in Processes : p = OwnerOf(t)
    BY Zenon, <1>3, RegionOperators
  <2>1. f = UserLeaf(p) /\ f # 0 /\ Alive(p)
    BY Zenon, <1>3 DEF LeafTable, Visible
  <2>2. f \in owned[p] /\ f # UserTable(p)
    BY Zenon, <2>1 DEF SpacesOK, SpaceOK
  <2>3. f \in Pages /\ \A q \in Processes : main[q] # f /\ (q # p => f \notin owned[q])
    BY <2>2 DEF Types, PagesOK
  <2>4. \A i \in Indices : KernelLeaf(i) # f
    BY Zenon, <2>1 DEF SpacesOK, SpaceOK
  <2>5. \A q \in Processes : Alive(q) => UserTable(q) # f /\ (q # p => UserLeaf(q) # f)
    BY Zenon, <2>1, <2>2, <2>3 DEF SpacesOK, SpaceOK
  <2>6. \A q \in Processes : pc[q].at = "link" => pc[q].new # f
    BY Zenon, <2>1, <2>2, <2>3 DEF SpacesOK, SpaceOK
  <2>7. \A r \in Regions : Visible(r) /\ LeafTable(r) = f /\ r # t => Leaf(r) # e
    <3> SUFFICES ASSUME NEW r \in Regions, Visible(r), LeafTable(r) = f, r # t PROVE Leaf(r) # e
      BY Zenon
    <3>1. ~IsKernel(r)
      BY Zenon, <2>4, RegionOperators, AddressAssumption DEF LeafTable
    <3>2. OwnerOf(r) = p
      BY Zenon, <3>1, <2>5, RegionOperators DEF LeafTable, Visible
    <3> QED
      BY <3>1, <3>2, <1>3, RegionOperators
  <2> QED
    BY Zenon, <2>3, <2>5, <2>6, <2>7
<1>4. Apart
  BY Zenon, <1>2, <1>3
<1> HIDE DEF Apart
<1>5. f \in Frames /\ f # KernelMain /\ f # KernelTable
  BY Zenon, <1>4, PageFacts DEF Apart
<1>6. /\ memory' \in [Frames -> [Indices -> Entries]]
      /\ \A g \in Frames : g # f => memory'[g] = memory[g]
      /\ \A i \in Indices : memory'[f][i] = IF i = e THEN v ELSE memory[f][i]
  BY <1>1, <1>5 DEF Types
<1>7. memory'[KernelMain] = memory[KernelMain] /\ \A i \in Indices : KernelLeaf(i)' = KernelLeaf(i)
  BY Zenon, <1>5, <1>6, PageFacts DEF KernelLeaf
<1>8. ASSUME NEW q \in Processes, Alive(q)
      PROVE  /\ main'[q] = main[q] /\ memory'[main[q]][KernelTop] = memory[main[q]][KernelTop]
             /\ UserTable(q)' = UserTable(q) /\ UserLeaf(q)' = UserLeaf(q)
  <2>1. main[q] \in Frames /\ memory'[main[q]] = memory[main[q]]
    BY Zenon, <1>4, <1>6, <1>8, PageFacts DEF Apart, SpacesOK, SpaceOK
  <2>2. UserTable(q)' = UserTable(q)
    BY Zenon, <2>1 DEF UserTable
  <2>3. UserTable(q) # 0 => UserTable(q) \in Frames /\ UserTable(q) # f
    BY Zenon, <1>4, <1>8, PageFacts DEF Apart, SpacesOK, SpaceOK, Types
  <2> QED
    BY Zenon, <2>1, <2>2, <2>3, <1>6 DEF UserLeaf
<1>9. ASSUME NEW q \in Processes, pc[q].at = "link" PROVE memory'[pc[q].new] = memory[pc[q].new]
  BY Zenon, <1>4, <1>6, <1>9, PageFacts DEF Apart, SpacesOK, SpaceOK, Types
<1>10. ASSUME NEW r \in Regions, Visible(r) PROVE LeafTable(r)' = LeafTable(r)
  BY Zenon, <1>7, <1>8, <1>10, RegionOperators, AddressAssumption DEF LeafTable, Visible
<1>11. ASSUME NEW r \in Regions, Visible(r), LeafTable(r) # 0 PROVE LeafTable(r) \in Frames
  BY Zenon, <1>11, LeafTableOwned, RegionOperators, PageFacts DEF Types
<1>12. ASSUME NEW r \in Regions, Visible(r), r # t PROVE Translation(r)' = Translation(r)
  <2>1. Leaf(r) \in Indices
    BY Zenon, RegionOperators
  <2>2. LeafTable(r) = f => Leaf(r) # e
    BY Zenon, <1>4, <1>12 DEF Apart
  <2> QED
    BY Zenon, <2>1, <2>2, <1>6, <1>10, <1>11, <1>12 DEF Translation
<1>13. Translation(t)' = v
  BY Zenon, <1>1, <1>5, <1>6, <1>10, PageFacts DEF Translation
<1> QED
  BY Zenon, <1>6, <1>7, <1>8, <1>9, <1>10, <1>12, <1>13 DEF SameTables

-----------------------------------------------------------------------------
(* The parts of the invariant that a step of p with few effects keeps. *)

\* No process but p goes on.
OnlyMoves(p) == \A q \in Processes : q # p => pc'[q] = pc[q]

\* The kernel's own half is kept by a step that keeps the tables and takes none away.
LEMMA KernelKept ==
    ASSUME KernelOK, NEW Q, NEW T, SameTables(Q, T),
           \A q \in Processes : owned[q] \subseteq owned'[q]
    PROVE  KernelOK'
<1>1. memory'[KernelMain] = memory[KernelMain] /\ \A i \in Indices : KernelLeaf(i)' = KernelLeaf(i)
  BY Zenon DEF SameTables
<1>2. memory'[KernelMain][KernelTop] = KernelTable
  BY Zenon, <1>1 DEF KernelOK
<1>3. ASSUME NEW i \in Indices, KernelLeaf(i)' # 0 PROVE \E q \in Processes : KernelLeaf(i)' \in owned'[q]
  <2>1. PICK q \in Processes : KernelLeaf(i) \in owned[q]
    BY Zenon, <1>1, <1>3 DEF KernelOK
  <2> QED
    BY Zenon, <1>1, <2>1
<1>4. ASSUME NEW i \in Indices, NEW j \in Indices, KernelLeaf(i)' # 0, KernelLeaf(i)' = KernelLeaf(j)'
      PROVE  i = j
  <2>1. KernelLeaf(i)' = KernelLeaf(i) /\ KernelLeaf(j)' = KernelLeaf(j)
    BY Zenon, <1>1
  <2> QED
    BY Zenon, <2>1, <1>4 DEF KernelOK
<1> QED
  BY Zenon, <1>2, <1>3, <1>4 DEF KernelOK

\* The region a process maps is one it can see.
LEMMA WorkedIsVisible ==
    ASSUME WorkOK, NEW q \in Processes, NEW r \in Regions, Works(q), pc[q].r = r
    PROVE  Visible(r) /\ (IsKernel(r) \/ OwnerOf(r) = q) /\ Alive(q)
  BY Zenon, RegionOperators DEF WorkOK, Visible, Alive, Works

\* So is the space of a process that the step leaves where it is ...
LEMMA SpaceKept ==
    ASSUME WorkOK, NEW q \in Processes, SpaceOK(q), NEW Q, q \in Q, NEW T, SameTables(Q, T),
           main'[q] = main[q], owned'[q] = owned[q], pc'[q] = pc[q]
    PROVE  SpaceOK(q)'
<1>1. Alive(q)' <=> Alive(q)
  BY Zenon DEF Alive
<1>2. ASSUME Alive(q)
      PROVE  /\ main'[q] \in Pages /\ memory'[main'[q]][KernelTop] = KernelTable
             /\ UserTable(q)' # 0 => UserTable(q)' \in owned'[q]
             /\ UserLeaf(q)' # 0 => UserLeaf(q)' \in owned'[q] /\ UserLeaf(q)' # UserTable(q)'
             /\ \A i \in Indices : KernelLeaf(i)' # 0 =>
                    KernelLeaf(i)' # UserTable(q)' /\ KernelLeaf(i)' # UserLeaf(q)'
  BY <1>2 DEF SpaceOK, SameTables
<1>3. ASSUME pc'[q].at = "link"
      PROVE  /\ pc'[q].new \in owned'[q] /\ memory'[pc'[q].new] = NoTable
             /\ pc'[q].new # UserTable(q)' /\ pc'[q].new # UserLeaf(q)'
             /\ \A i \in Indices : KernelLeaf(i)' # pc'[q].new
  <2>1. Alive(q)
    BY Zenon, <1>3 DEF Alive
  <2> QED
    BY Zenon, <2>1, <1>3 DEF SpaceOK, SameTables
<1>4. ASSUME pc'[q].at \in {"middle", "link"}
      PROVE  IsKernel(pc'[q].r) \/ UserTable(q)' # 0
  <2>1. Alive(q)
    BY Zenon, <1>4 DEF Alive
  <2> QED
    BY Zenon, <2>1, <1>4 DEF SpaceOK, SameTables
<1>5. ASSUME NEW r \in Regions, pc'[q].at = "leaf", pc'[q].r = r
      PROVE  LeafTable(r)' # 0
  <2>1. Works(q)
    BY Zenon, <1>5 DEF Works
  <2>2. Visible(r) /\ (IsKernel(r) \/ OwnerOf(r) \in Q)
    BY Zenon, <2>1, <1>5, WorkedIsVisible
  <2> QED
    BY Zenon, <2>2, <1>5 DEF SpaceOK, SameTables
<1>6. ~Alive(q) => main'[q] = 0 /\ owned'[q] = {}
  BY Zenon DEF SpaceOK
<1> QED
  BY Zenon, <1>1, <1>2, <1>3, <1>4, <1>5, <1>6 DEF SpaceOK

\* ... and so are all, if p moves to a place that asks nothing of the tables.
LEMMA SpacesKept ==
    ASSUME SpacesOK, WorkOK, NEW p \in Processes, NEW T, SameTables(Processes, T),
           UNCHANGED <<main, owned>>,
           OnlyMoves(p), Alive(p), pc'[p].at \notin {"none", "gone", "middle", "link", "leaf"}
    PROVE  SpacesOK'
<1>1. \A q \in Processes : q # p => SpaceOK(q)'
  BY Zenon, SpaceKept DEF SpacesOK, OnlyMoves
<1>2. Alive(p)'
  BY Zenon DEF Alive
<1>3. SpaceOK(p)'
  BY <1>2 DEF SpacesOK, SpaceOK, SameTables
<1> QED
  BY Zenon, <1>1, <1>3 DEF SpacesOK

\* Pages stay with their owners if no owner changes.
LEMMA PagesKept ==
    ASSUME PagesOK, UNCHANGED <<free, main, owned, page>>
    PROVE  PagesOK'
  BY Zenon DEF PagesOK

\* Regions stay as they are if none changes, and p neither makes nor ends its space.
LEMMA RegionsKept ==
    ASSUME RegionsOK, NEW p \in Processes, UNCHANGED <<state, page, references>>,
           OnlyMoves(p), pc'[p].at \notin {"none", "space", "gone", "regions"}
    PROVE  RegionsOK'
  BY Zenon DEF RegionsOK, RegionsOf, BlockOK, OnlyMoves, One

\* A block has a page while somebody refers to it, and then only.
LEMMA LiveBlocks ==
    ASSUME RegionsOK, NEW p \in Processes, NEW s, s = Surface(p)
    PROVE  /\ references[s] = 0 => page[s] = 0 /\ state[s] = "none" /\ state[Clone(p)] = "none"
           /\ references[s] = 1 => page[s] # 0
<1>1. BlockOK(p)
  BY Zenon DEF RegionsOK, RegionsOf
<1> QED
  BY <1>1 DEF BlockOK, One

\* The regions of one process, if none of them comes or goes.
LEMMA RegionsOfKept ==
    ASSUME RegionsOK, NEW q \in Processes,
           references'[Surface(q)] = references[Surface(q)],
           page'[Surface(q)] = page[Surface(q)], page'[Clone(q)] = page[Clone(q)],
           state'[Private(q)] = "none" <=> state[Private(q)] = "none",
           state'[Surface(q)] = "none" <=> state[Surface(q)] = "none",
           state'[Clone(q)] = "none" <=> state[Clone(q)] = "none",
           pc'[q].at \in {"none", "space", "gone"} => pc[q].at \in {"none", "space", "gone"},
           pc'[q].at = "regions" => pc[q].at = "regions"
    PROVE  RegionsOf(q)'
<1>1. One(Surface(q))' = One(Surface(q)) /\ One(Clone(q))' = One(Clone(q))
  BY Zenon DEF One
<1>2. BlockOK(q)'
  BY Zenon, <1>1 DEF RegionsOK, RegionsOf, BlockOK
<1> QED
  BY Zenon, <1>2 DEF RegionsOK, RegionsOf

\* A block with a page that counts its surface, and its clone if there is one.
LEMMA BlockMade ==
    ASSUME NEW q \in Processes, page'[Surface(q)] # 0, page'[Clone(q)] = 0, state'[Surface(q)] # "none",
           references'[Surface(q)] = IF state'[Clone(q)] = "none" THEN 1 ELSE 2
    PROVE  BlockOK(q)'
  BY DEF BlockOK, One

\* A step of p after which it works on no region, and that leaves the others' regions to them.
LEMMA WorkLeft ==
    ASSUME WorkOK, NEW p \in Processes, OnlyMoves(p), ~Works(p)', pc'[p].at # "release",
           \A q \in Processes : q # p /\ (Works(q) \/ pc[q].at = "release") =>
               state'[pc[q].r] = state[pc[q].r],
           \A q \in Processes : q # p /\ Locks(q) => page'[BlockOf(pc[q].r)] # 0,
           \A r \in Regions : state'[r] = "released" =>
               state[r] = "released" /\ ~(pc[p].at = "release" /\ pc[p].r = r)
    PROVE  WorkOK'
<1>1. \A q \in Processes : q # p => (Works(q)' <=> Works(q)) /\ (Locks(q)' <=> Locks(q))
  BY Zenon DEF Works, Locks, OnlyMoves
<1>2. ~Locks(p)' /\ pc'[p].at # "fault"
  BY Zenon DEF Locks, Works
<1>3. ASSUME NEW q \in Processes, q # p
      PROVE  /\ Works(q)' => state'[pc'[q].r] = "live"
             /\ Works(q)' \/ pc'[q].at = "release" =>
                   pc'[q].r \in KernelRegions \union {Private(q), Surface(q), Clone(q)}
             /\ pc'[q].at = "fault" => pc'[q].r \in KernelRegions \union {Private(q)}
             /\ Locks(q)' => page'[BlockOf(pc'[q].r)] # 0
             /\ pc'[q].at = "release" => state'[pc'[q].r] = "released"
  BY <1>1, <1>3 DEF WorkOK, OnlyMoves
<1>4. ASSUME NEW q \in Processes, NEW o \in Processes
      PROVE  /\ Locks(q)' /\ Locks(o)' /\ pc'[q].r = pc'[o].r => q = o
             /\ pc'[q].at = "release" /\ pc'[o].at = "release" /\ pc'[q].r = pc'[o].r => q = o
  BY <1>1, <1>2 DEF WorkOK, OnlyMoves
<1>5. ASSUME NEW r \in Regions, state'[r] = "released"
      PROVE  \E q \in Processes : pc'[q].at = "release" /\ pc'[q].r = r
  BY <1>5 DEF WorkOK, OnlyMoves
<1> QED
  BY <1>2, <1>3, <1>4, <1>5 DEF WorkOK

\* A step of p that takes no lock and touches no region.
LEMMA WorkKept ==
    ASSUME WorkOK, NEW p \in Processes, UNCHANGED <<state, page>>, OnlyMoves(p),
           pc[p].at # "release", ~Works(p)', pc'[p].at # "release"
    PROVE  WorkOK'
  BY Zenon, WorkLeft DEF WorkOK

\* A step of p from one part of map_page to the next.
LEMMA WorkGoesOn ==
    ASSUME WorkOK, NEW p \in Processes, UNCHANGED <<state, page>>, OnlyMoves(p),
           Locks(p), Locks(p)', pc'[p].r = pc[p].r
    PROVE  WorkOK'
<1>1. \A q \in Processes : /\ Works(q)' <=> Works(q)
                           /\ Locks(q)' <=> Locks(q)
                           /\ pc'[q].at = "fault" <=> pc[q].at = "fault"
                           /\ pc'[q].at = "release" <=> pc[q].at = "release"
                           /\ pc'[q].r = pc[q].r \/ ~(Works(q) \/ pc[q].at = "release")
  BY Zenon DEF Works, Locks, OnlyMoves
<1>2. \A q \in Processes : Locks(q) => Works(q)
  BY Zenon DEF Works, Locks
<1>3. ASSUME NEW q \in Processes
      PROVE  /\ Works(q)' => state'[pc'[q].r] = "live"
             /\ Works(q)' \/ pc'[q].at = "release" =>
                   pc'[q].r \in KernelRegions \union {Private(q), Surface(q), Clone(q)}
             /\ pc'[q].at = "fault" => pc'[q].r \in KernelRegions \union {Private(q)}
             /\ Locks(q)' => page'[BlockOf(pc'[q].r)] # 0
             /\ pc'[q].at = "release" => state'[pc'[q].r] = "released"
  <2>1. CASE q = p
    BY <1>1, <1>2, <2>1 DEF WorkOK
  <2>2. CASE q # p
    BY <1>1, <2>2 DEF WorkOK, OnlyMoves
  <2> QED
    BY Zenon, <2>1, <2>2
<1>4. ASSUME NEW q \in Processes, NEW o \in Processes
      PROVE  /\ Locks(q)' /\ Locks(o)' /\ pc'[q].r = pc'[o].r => q = o
             /\ pc'[q].at = "release" /\ pc'[o].at = "release" /\ pc'[q].r = pc'[o].r => q = o
  BY <1>1, <1>2 DEF WorkOK
<1>5. ASSUME NEW r \in Regions, state'[r] = "released"
      PROVE  \E q \in Processes : pc'[q].at = "release" /\ pc'[q].r = r
  BY <1>1, <1>5 DEF WorkOK
<1> QED
  BY Zenon, <1>3, <1>4, <1>5 DEF WorkOK

\* A step of p into map_page, for a region whose lock nobody has.
LEMMA WorkBegins ==
    ASSUME WorkOK, NEW p \in Processes, NEW r \in KernelRegions \union {Private(p), Surface(p), Clone(p)},
           OnlyMoves(p), pc[p].at # "release", pc'[p].at = "top", pc'[p].r = r,
           state'[r] = "live", page'[BlockOf(r)] # 0, \A q \in Processes : Locks(q) => pc[q].r # r,
           \A q \in Processes : q # p /\ (Works(q) \/ pc[q].at = "release") => state'[pc[q].r] = state[pc[q].r],
           \A q \in Processes : q # p /\ Locks(q) => page'[BlockOf(pc[q].r)] # 0,
           \A t \in Regions : state'[t] = "released" => state[t] = "released"
    PROVE  WorkOK'
<1>1. \A q \in Processes : q # p => pc'[q] = pc[q] /\ (Works(q)' <=> Works(q)) /\ (Locks(q)' <=> Locks(q))
  BY Zenon DEF Works, Locks, OnlyMoves
<1>2. Locks(p)' /\ Works(p)' /\ pc'[p].at # "fault" /\ pc'[p].at # "release"
  BY Zenon DEF Locks, Works
<1>3. ASSUME NEW q \in Processes
      PROVE  /\ Works(q)' => state'[pc'[q].r] = "live"
             /\ Works(q)' \/ pc'[q].at = "release" =>
                   pc'[q].r \in KernelRegions \union {Private(q), Surface(q), Clone(q)}
             /\ pc'[q].at = "fault" => pc'[q].r \in KernelRegions \union {Private(q)}
             /\ Locks(q)' => page'[BlockOf(pc'[q].r)] # 0
             /\ pc'[q].at = "release" => state'[pc'[q].r] = "released"
  BY <1>1, <1>2 DEF WorkOK
<1>4. ASSUME NEW q \in Processes, NEW o \in Processes
      PROVE  /\ Locks(q)' /\ Locks(o)' /\ pc'[q].r = pc'[o].r => q = o
             /\ pc'[q].at = "release" /\ pc'[o].at = "release" /\ pc'[q].r = pc'[o].r => q = o
  BY <1>1, <1>2 DEF WorkOK
<1>5. \A t \in Regions : state'[t] = "released" => \E q \in Processes : pc'[q].at = "release" /\ pc'[q].r = t
  <2> SUFFICES ASSUME NEW t \in Regions, state[t] = "released"
               PROVE  \E q \in Processes : pc'[q].at = "release" /\ pc'[q].r = t
    BY Zenon
  <2>1. PICK q \in Processes : pc[q].at = "release" /\ pc[q].r = t
    BY Zenon DEF WorkOK
  <2>2. q # p
    BY Zenon, <2>1
  <2> QED
    BY Zenon, <1>1, <2>1, <2>2
<1> QED
  BY Zenon, <1>3, <1>4, <1>5 DEF WorkOK

\* Whoever begins to release a region that nobody uses is alone.
LEMMA WorkReleased ==
    ASSUME WorkOK, NEW p \in Processes, NEW r \in KernelRegions \union {Private(p), Surface(p), Clone(p)},
           \A q \in Processes : ~Uses(q, r), OnlyMoves(p),
           pc[p].at = "idle", pc'[p].at = "release", pc'[p].r = r,
           state'[r] = "released", \A t \in Regions : t # r => state'[t] = state[t], page' = page
    PROVE  WorkOK'
<1>1. \A q \in Processes : q # p => pc'[q] = pc[q] /\ (Works(q)' <=> Works(q)) /\ (Locks(q)' <=> Locks(q))
  BY Zenon DEF Works, Locks, OnlyMoves
<1>2. ~Locks(p)' /\ ~Works(p)'
  BY Zenon DEF Locks, Works
<1>3. ASSUME NEW q \in Processes, Works(q) \/ pc[q].at = "release"
      PROVE  pc[q].r # r /\ state'[pc[q].r] = state[pc[q].r]
  <2>1. pc[q].r # r
    BY <1>3 DEF Works, Uses
  <2> QED
    BY Zenon, <1>3, <2>1, WorkedRegions
<1>4. \A q \in Processes : q # p =>
          /\ Works(q)' => state'[pc'[q].r] = "live"
          /\ Works(q)' \/ pc'[q].at = "release" => pc'[q].r # r /\
                pc'[q].r \in KernelRegions \union {Private(q), Surface(q), Clone(q)}
          /\ pc'[q].at = "fault" => pc'[q].r \in KernelRegions \union {Private(q)}
          /\ Locks(q)' => page'[BlockOf(pc'[q].r)] # 0
          /\ pc'[q].at = "release" => state'[pc'[q].r] = "released"
  BY <1>1, <1>3 DEF WorkOK, Works, Locks
<1>5. \A q, o \in Processes :
          /\ Locks(q)' /\ Locks(o)' /\ pc'[q].r = pc'[o].r => q = o
          /\ pc'[q].at = "release" /\ pc'[o].at = "release" /\ pc'[q].r = pc'[o].r => q = o
  BY <1>1, <1>2, <1>4 DEF WorkOK
<1>6. \A t \in Regions : state'[t] = "released" => \E q \in Processes : pc'[q].at = "release" /\ pc'[q].r = t
  <2> SUFFICES ASSUME NEW t \in Regions, t # r, state[t] = "released"
               PROVE  \E q \in Processes : pc'[q].at = "release" /\ pc'[q].r = t
    BY Zenon
  <2>1. PICK q \in Processes : pc[q].at = "release" /\ pc[q].r = t
    BY Zenon DEF WorkOK
  <2>2. q # p
    BY <2>1
  <2> QED
    BY Zenon, <1>1, <2>1, <2>2
<1> QED
  BY <1>2, <1>4, <1>5, <1>6 DEF WorkOK

\* The translations are right after a step that left them and the regions alone, and unlocked
\* no region.
LEMMA TranslationStays ==
    ASSUME TranslationOK, UNCHANGED <<state, page>>,
           \A r \in Regions : Unlocked(r)' => Unlocked(r),
           \A q \in Processes : Running(q)' => Running(q),
           \A r \in Regions : IsKernel(r) \/ Running(OwnerOf(r))' => Translation(r)' = Translation(r)
    PROVE  TranslationOK'
<1>1. \A r \in Regions : Running(OwnerOf(r))' /\ ~IsKernel(r) => Running(OwnerOf(r))
  BY Zenon, RegionOperators
<1> QED
  BY Zenon, <1>1 DEF TranslationOK

\* The same for a step that keeps the tables.
LEMMA TranslationKept ==
    ASSUME TranslationOK, NEW p \in Processes, SameTables(Processes, {}),
           UNCHANGED <<state, page>>, OnlyMoves(p), ~Locks(p), Running(p)' => Running(p)
    PROVE  TranslationOK'
<1>1. \A r \in Regions : Unlocked(r)' => Unlocked(r)
  BY Zenon DEF Unlocked, OnlyMoves, Locks
<1>2. \A q \in Processes : Running(q)' => Running(q) /\ Alive(q)
  BY Zenon DEF Running, OnlyMoves, Alive
<1>3. \A r \in Regions : IsKernel(r) \/ Running(OwnerOf(r))' => Translation(r)' = Translation(r)
  BY Zenon, <1>2, RegionOperators DEF SameTables, Visible
<1> QED
  BY Zenon, <1>1, <1>2, <1>3, TranslationStays

-----------------------------------------------------------------------------
(* Pages that change hands. *)

\* A free page becomes the page of a region that has none ...
LEMMA PageForRegion ==
    ASSUME Types, PagesOK, NEW r \in Regions, page[r] = 0, NEW n \in free,
           free' = free \ {n}, page' = [page EXCEPT ![r] = n], UNCHANGED <<main, owned>>
    PROVE  PagesOK'
<1>1. page'[r] = n /\ \A s \in Regions : s # r => page'[s] = page[s]
  BY Zenon DEF Types
<1>2. n # 0 /\ n \in Pages
  BY Zenon, PageFacts DEF Types
<1>3. /\ \A q \in Processes : main[q] # n /\ n \notin owned[q]
      /\ \A s \in Regions : page[s] # n
  BY Zenon DEF PagesOK
<1>4. \A f \in Pages :
          \/ f \in free'
          \/ \E q \in Processes : main'[q] = f \/ f \in owned'[q]
          \/ \E s \in Regions : page'[s] = f
  <2> SUFFICES ASSUME NEW f \in Pages, f \notin free',
                      ~\E q \in Processes : main'[q] = f \/ f \in owned'[q]
               PROVE  \E s \in Regions : page'[s] = f
    BY Zenon
  <2>1. f = n \/ \E s \in Regions : page[s] = f
    BY Zenon DEF PagesOK
  <2> QED
    BY Zenon, <1>1, <2>1, PageFacts
<1> QED
  BY <1>1, <1>2, <1>3, <1>4 DEF PagesOK

\* ... or a table below the top one of a process ...
LEMMA PageForTable ==
    ASSUME Types, PagesOK, NEW p \in Processes, NEW n \in free,
           free' = free \ {n}, owned' = [owned EXCEPT ![p] = @ \union {n}], UNCHANGED <<main, page>>
    PROVE  PagesOK'
<1>1. owned'[p] = owned[p] \union {n} /\ \A q \in Processes : q # p => owned'[q] = owned[q]
  BY Zenon DEF Types
<1>2. /\ \A q \in Processes : main[q] # n /\ n \notin owned[q]
      /\ \A s \in Regions : page[s] # n
  BY Zenon DEF PagesOK
<1> QED
  BY <1>1, <1>2 DEF PagesOK

\* ... or the top table of a new space.
LEMMA PageForSpace ==
    ASSUME Types, PagesOK, NEW p \in Processes, main[p] = 0, NEW n \in free,
           free' = free \ {n}, main' = [main EXCEPT ![p] = n], UNCHANGED <<owned, page>>
    PROVE  PagesOK'
<1>1. main'[p] = n /\ \A q \in Processes : q # p => main'[q] = main[q]
  BY Zenon DEF Types
<1>2. /\ n # 0
      /\ \A q \in Processes : main[q] # n /\ n \notin owned[q]
      /\ \A s \in Regions : page[s] # n
  BY PageFacts DEF PagesOK, Types
<1>3. \A f \in Pages :
          \/ f \in free'
          \/ \E q \in Processes : main'[q] = f \/ f \in owned'[q]
          \/ \E s \in Regions : page'[s] = f
  <2> SUFFICES ASSUME NEW f \in Pages, f \notin free', ~\E s \in Regions : page'[s] = f
               PROVE  \E q \in Processes : main'[q] = f \/ f \in owned'[q]
    BY Zenon
  <2>1. f = n \/ \E q \in Processes : main[q] = f \/ f \in owned[q]
    BY Zenon DEF PagesOK
  <2> QED
    BY Zenon, <1>1, <2>1, PageFacts
<1> QED
  BY <1>1, <1>2, <1>3 DEF PagesOK

\* The regions and blocks of B give their pages back, those that have one.
LEMMA PagesReturned ==
    ASSUME Types, PagesOK, NEW B \in SUBSET Regions,
           free' = free \union ({page[r] : r \in B} \ {0}),
           page' = [r \in Regions |-> IF r \in B THEN 0 ELSE page[r]],
           UNCHANGED <<main, owned>>
    PROVE  PagesOK' /\ free' \subseteq Pages /\ page' \in [Regions -> MaybePages]
<1>1. /\ \A s \in B : page'[s] = 0
      /\ \A s \in Regions : s \notin B => page'[s] = page[s]
  BY Zenon
<1>2. /\ \A f \in free' : f \in free \/ (f # 0 /\ \E r \in B : f = page[r])
      /\ free \subseteq free' /\ \A r \in B : page[r] # 0 => page[r] \in free'
  BY Zenon
<1>3. free' \subseteq Pages /\ page' \in [Regions -> MaybePages]
  BY <1>2, PageFacts DEF Types
<1>4. 0 \notin free' /\ \A q \in Processes : 0 \notin owned[q]
  BY Zenon, <1>3, PageFacts DEF Types
<1>5. \A f \in Pages :
          \/ f \in free'
          \/ \E q \in Processes : main'[q] = f \/ f \in owned'[q]
          \/ \E s \in Regions : page'[s] = f
  <2> SUFFICES ASSUME NEW f \in Pages, f \notin free',
                      ~\E q \in Processes : main'[q] = f \/ f \in owned'[q]
               PROVE  \E s \in Regions : page'[s] = f
    BY Zenon
  <2>1. PICK s \in Regions : page[s] = f
    BY Zenon, <1>2 DEF PagesOK
  <2>2. s \notin B
    BY Zenon, <1>2, <2>1, PageFacts
  <2> QED
    BY Zenon, <1>1, <2>1, <2>2
<1>6. \A q \in Processes : main[q] \notin free' /\ owned[q] \intersect free' = {}
  BY <1>2 DEF PagesOK
<1>7. \A s \in Regions : page'[s] \notin free'
  BY <1>1, <1>2, <1>4 DEF PagesOK
<1>8. \A s \in Regions : page'[s] = 0 \/ page'[s] = page[s]
  BY Zenon, <1>1
<1>9. /\ \A q \in Processes, r \in Regions : page'[r] \notin owned[q] /\ (page'[r] # 0 => page'[r] # main[q])
      /\ \A r, s \in Regions : r # s /\ page'[r] # 0 => page'[r] # page'[s]
  BY Zenon, <1>4, <1>8 DEF PagesOK
<1> QED
  BY <1>3, <1>5, <1>6, <1>7, <1>9 DEF PagesOK

\* A region gives up its block: the pages of the block are free after its last reference.
LEMMA PagesDropped ==
    ASSUME Types, PagesOK, NEW r \in Regions, NEW b \in Regions, b = BlockOf(r),
           free' = free \union Dropped(r), page' = PagesWithout(r), UNCHANGED <<main, owned>>
    PROVE  /\ free' \subseteq Pages /\ page' \in [Regions -> MaybePages] /\ PagesOK'
           /\ \A t \in Regions : page'[t] = IF t = b /\ IsLast(r) THEN 0 ELSE page[t]
<1>1. \A t \in Regions : page'[t] = IF t = b /\ IsLast(r) THEN 0 ELSE page[t]
  BY Zenon DEF Types, PagesWithout
<1>2. PICK B \in SUBSET Regions : B = IF IsLast(r) THEN {b} ELSE {}
  BY Zenon
<1>3. /\ free' = free \union ({page[t] : t \in B} \ {0})
      /\ page' = [t \in Regions |-> IF t \in B THEN 0 ELSE page[t]]
  <2>1. CASE IsLast(r)
    <3>1. B = {b} /\ {page[t] : t \in B} = {page[b]}
      BY Zenon, <1>2, <2>1
    <3>2. page' = [page EXCEPT ![b] = 0] /\ free' = free \union ({page[b]} \ {0})
      BY Zenon, <2>1 DEF PagesWithout, Dropped
    <3> QED
      BY Zenon, <3>1, <3>2 DEF Types
  <2>2. CASE ~IsLast(r)
    <3>1. B = {} /\ {page[t] : t \in B} = {}
      BY Zenon, <1>2, <2>2
    <3>2. page' = page /\ free' = free
      BY Zenon, <2>2 DEF PagesWithout, Dropped, Types
    <3> QED
      BY Zenon, <3>1, <3>2 DEF Types
  <2> QED
    BY Zenon, <2>1, <2>2
<1> QED
  BY Zenon, <1>1, <1>3, PagesReturned

\* What that means to the counts and pages of the others, for a region with a block of its own ...
LEMMA UnsharedDropped ==
    ASSUME Types, RegionsOK, NEW r \in Unshared, references' = references,
           state'[r] = "none", \A t \in Regions : t # r => state'[t] = state[t],
           page'[r] = 0, \A t \in Regions : t # r => page'[t] = page[t]
    PROVE  /\ \A t \in Regions : t # r => page'[BlockOf(t)] = page[BlockOf(t)]
           /\ \A q \in Processes : BlockOK(q)'
           /\ \A t \in Unshared : state'[t] = "none" => page'[t] = 0
<1>1. \A t \in Regions : t # r => BlockOf(t) # r /\ BlockOf(t) \in Regions
  BY Zenon, UnsharedBlocks
<1>2. ASSUME NEW q \in Processes PROVE BlockOK(q)'
  <2>1. r # Surface(q) /\ r # Clone(q) /\ Surface(q) \in Regions /\ Clone(q) \in Regions
    BY Zenon, UnsharedRegions, RegionKinds
  <2>2. BlockOK(q)
    BY Zenon DEF RegionsOK, RegionsOf
  <2> QED
    BY Zenon, <2>1, <2>2 DEF BlockOK, One
<1>3. \A t \in Unshared : state'[t] = "none" => page'[t] = 0
  BY Zenon, UnsharedRegions DEF RegionsOK
<1> QED
  BY Zenon, <1>1, <1>2, <1>3

\* ... and for a surface or its clone.
LEMMA SharedDropped ==
    ASSUME Types, RegionsOK, NEW p \in Processes, NEW s, s = Surface(p),
           NEW r \in {s, Clone(p)}, state[r] # "none", references' = [references EXCEPT ![s] = @ - 1],
           state'[r] = "none", \A t \in Regions : t # r => state'[t] = state[t],
           \A t \in Regions : page'[t] = IF t = s /\ references[s] = 1 THEN 0 ELSE page[t]
    PROVE  /\ references' \in [Surfaces -> 0 .. 2]
           /\ \A t \in Regions : t # r /\ state[t] # "none" => page'[BlockOf(t)] = page[BlockOf(t)]
           /\ \A q \in Processes : BlockOK(q)'
           /\ \A t \in Unshared : state'[t] = "none" => page'[t] = 0
<1>1. /\ s \in Surfaces /\ s \in Regions /\ Clone(p) \in Regions /\ Clone(p) # s
      /\ page[Clone(p)] = 0 /\ references[s] = One(s) + One(Clone(p)) /\ (page[s] # 0 <=> references[s] # 0)
  BY Zenon, RegionKinds, RegionOperators DEF RegionsOK, RegionsOf, BlockOK
<1>2. /\ references[s] \in {1, 2}
      /\ references[s] = 2 <=> state[s] # "none" /\ state[Clone(p)] # "none"
  BY <1>1 DEF One
<1>3. /\ references' \in [Surfaces -> 0 .. 2] /\ references'[s] = references[s] - 1
      /\ \A t \in Surfaces : t # s => references'[t] = references[t]
  BY <1>1, <1>2 DEF Types
<1>4. ASSUME NEW t \in Regions, t # r, state[t] # "none" PROVE page'[BlockOf(t)] = page[BlockOf(t)]
  <2>1. BlockOf(t) = s => t \in {s, Clone(p)}
    BY Zenon, SharedBlocks
  <2>2. BlockOf(t) = s => references[s] = 2
    <3>1. BlockOf(t) = s => state[s] # "none" /\ state[Clone(p)] # "none"
      BY <1>4, <2>1
    <3> QED
      BY Zenon, <1>2, <3>1
  <2>3. BlockOf(t) = s => references[s] # 1
    BY <2>2
  <2> QED
    BY Zenon, <2>3, RegionOperators
<1>5. ASSUME NEW q \in Processes, q # p PROVE BlockOK(q)'
  <2>1. /\ Surface(q) # s /\ Surface(q) \in Surfaces /\ Clone(q) # s
        /\ Surface(q) # r /\ Clone(q) # r /\ Surface(q) \in Regions /\ Clone(q) \in Regions
    <3>1. Surface(q) # s /\ Clone(q) # Clone(p) /\ Clone(q) # s /\ Surface(q) # Clone(p)
      BY Zenon, <1>5, RegionKinds
    <3> QED
      BY Zenon, <3>1, RegionKinds, RegionOperators
  <2>2. BlockOK(q)
    BY Zenon DEF RegionsOK, RegionsOf
  <2> QED
    BY Zenon, <1>3, <2>1, <2>2 DEF BlockOK, One
<1>6. BlockOK(p)'
  <2>1. page'[Clone(p)] = 0 /\ (page'[s] # 0 <=> references'[s] # 0)
    BY <1>1, <1>2, <1>3
  <2>2. references'[s] = One(s)' + One(Clone(p))'
    BY <1>1, <1>2, <1>3 DEF One
  <2> QED
    BY Zenon, <2>1, <2>2 DEF BlockOK
<1>7. \A t \in Unshared : state'[t] = "none" => page'[t] = 0
  BY Zenon, <1>1, UnsharedRegions DEF RegionsOK
<1> QED
  BY Zenon, <1>3, <1>4, <1>5, <1>6, <1>7

(***************************************************************************)
(* A region that exists drops its block: the reference count follows, the   *)
(* page goes with the last of surface and clone, and whoever else has the    *)
(* block keeps its page.                                                     *)
(***************************************************************************)
LEMMA BlockDropped ==
    ASSUME Types, RegionsOK, PagesOK, NEW r \in Regions, state[r] # "none",
           free' = free \union Dropped(r), page' = PagesWithout(r),
           references' = IF IsShared(r) THEN decref(r) ELSE references,
           state' = [state EXCEPT ![r] = "none"], UNCHANGED <<main, owned>>
    PROVE  /\ free' \subseteq Pages /\ page' \in [Regions -> MaybePages]
           /\ references' \in [Surfaces -> 0 .. 2]
           /\ state' \in [Regions -> {"none", "live", "released"}]
           /\ PagesOK'
           /\ state'[r] = "none" /\ \A t \in Regions : t # r => state'[t] = state[t]
           /\ \A t \in Regions : t # r /\ state[t] # "none" => page'[BlockOf(t)] = page[BlockOf(t)]
           /\ \A q \in Processes : BlockOK(q)'
           /\ \A t \in Unshared : state'[t] = "none" => page'[t] = 0
<1>1. PICK b \in Regions : b = BlockOf(r)
  BY Zenon, RegionOperators
<1>2. /\ state' \in [Regions -> {"none", "live", "released"}]
      /\ state'[r] = "none" /\ \A t \in Regions : t # r => state'[t] = state[t]
  BY Zenon DEF Types
<1>3. /\ free' \subseteq Pages /\ page' \in [Regions -> MaybePages] /\ PagesOK'
      /\ \A t \in Regions : page'[t] = IF t = b /\ IsLast(r) THEN 0 ELSE page[t]
  BY Zenon, <1>1, PagesDropped
<1>4. CASE r \in Unshared
  <2>1. b = r /\ IsLast(r) /\ references' = references
    BY Zenon, <1>1, <1>4, UnsharedRegions DEF IsLast
  <2>2. page'[r] = 0 /\ \A t \in Regions : t # r => page'[t] = page[t]
    BY Zenon, <1>3, <2>1
  <2>3. references' \in [Surfaces -> 0 .. 2]
    BY Zenon, <2>1 DEF Types
  <2> QED
    BY Zenon, <1>2, <1>3, <1>4, <2>1, <2>2, <2>3, UnsharedDropped
<1>5. CASE r \notin Unshared
  <2>1. PICK p \in Processes : r \in {Surface(p), Clone(p)}
    BY Zenon, <1>5, RegionKinds DEF Unshared
  <2>2. PICK s : s = Surface(p)
    BY Zenon
  <2>3. BlockOf(r) = s /\ IsShared(r) /\ r \in {s, Clone(p)}
    BY Zenon, <2>1, <2>2, RegionOperators
  <2>4. /\ references' = [references EXCEPT ![s] = @ - 1]
        /\ \A t \in Regions : page'[t] = IF t = s /\ references[s] = 1 THEN 0 ELSE page[t]
    <3>1. b = s /\ (IsLast(r) <=> references[s] = 1)
      BY Zenon, <1>1, <2>3 DEF IsLast
    <3>2. references' = [references EXCEPT ![s] = @ - 1]
      BY Zenon, <2>3 DEF decref
    <3> QED
      BY Zenon, <1>3, <3>1, <3>2
  <2>5. /\ references' \in [Surfaces -> 0 .. 2]
        /\ \A t \in Regions : t # r /\ state[t] # "none" => page'[BlockOf(t)] = page[BlockOf(t)]
        /\ \A q \in Processes : BlockOK(q)'
        /\ \A t \in Unshared : state'[t] = "none" => page'[t] = 0
    <3>1. r \in {s, Clone(p)} /\ state'[r] = "none" /\ \A t \in Regions : t # r => state'[t] = state[t]
      BY Zenon, <1>2, <2>3
    <3> QED
      BY <2>2, <2>4, <3>1, SharedDropped
  <2> QED
    BY Zenon, <1>2, <1>3, <2>5
<1> QED
  BY Zenon, <1>4, <1>5

-----------------------------------------------------------------------------
(* One lemma for each action. *)

\* exit: the process no longer runs.
LEMMA ExitKeeps ==
    ASSUME IInv, defect = "none", NEW p \in Processes, exit(p)
    PROVE  IInv'
<1>1. /\ Types' /\ OnlyMoves(p) /\ pc[p].at = "idle" /\ pc'[p].at = "dead"
      /\ UNCHANGED <<memory, free, main, owned, state, page, references, defect>>
  BY DEF exit, IInv, Types, Places, OnlyMoves, Idle
<1>2. Alive(p) /\ ~Locks(p) /\ ~Works(p)' /\ ~Running(p)'
  BY Zenon, <1>1 DEF Alive, Locks, Works, Running
<1>3. Good
  BY Zenon DEF IInv
<1>4. SameTables(Processes, {}) /\ \A q \in Processes : owned[q] \subseteq owned'[q]
  BY Zenon, <1>1, TablesUnchanged
<1>5. KernelOK' /\ PagesOK' /\ TranslationOK'
  BY Zenon, <1>1, <1>2, <1>3, <1>4, KernelKept, PagesKept, TranslationKept DEF Good
<1>6. SpacesOK'
  BY Zenon, <1>1, <1>2, <1>3, <1>4, SpacesKept DEF Good
<1>7. RegionsOK' /\ WorkOK'
  BY Zenon, <1>1, <1>2, <1>3, RegionsKept, WorkKept DEF Good
<1> QED
  BY Zenon, <1>1, <1>5, <1>6, <1>7 DEF IInv, Good

\* The fault on a live region, up to the lock of the region.
LEMMA PageFaultKeeps ==
    ASSUME IInv, defect = "none", NEW p \in Processes, NEW r \in Regions, page_fault(p, r)
    PROVE  IInv'
<1>1. /\ Types' /\ OnlyMoves(p) /\ pc[p].at = "idle"
      /\ pc'[p].at = "fault" /\ pc'[p].r = r
      /\ UNCHANGED <<memory, free, main, owned, state, page, references, defect>>
  BY DEF page_fault, IInv, Types, Places, OnlyMoves, Idle
<1>2. Alive(p) /\ ~Locks(p) /\ ~Locks(p)' /\ Running(p)
  BY Zenon, <1>1 DEF Alive, Locks, Running
<1>3. Good
  BY Zenon DEF IInv
<1>4. SameTables(Processes, {}) /\ \A q \in Processes : owned[q] \subseteq owned'[q]
  BY Zenon, <1>1, TablesUnchanged
<1>5. KernelOK' /\ PagesOK' /\ TranslationOK'
  BY Zenon, <1>1, <1>2, <1>3, <1>4, KernelKept, PagesKept, TranslationKept DEF Good
<1>6. SpacesOK'
  BY Zenon, <1>1, <1>2, <1>3, <1>4, SpacesKept DEF Good
<1>7. RegionsOK'
  BY Zenon, <1>1, <1>2, <1>3, RegionsKept DEF Good
<1>8. WorkOK'
  <2>1. \A q \in Processes : q # p => (Works(q)' <=> Works(q)) /\ (Locks(q)' <=> Locks(q))
    BY Zenon, <1>1 DEF Works, Locks, OnlyMoves
  <2>2. state[r] = "live" /\ r \in KernelRegions \union {Private(p)}
    BY Zenon DEF page_fault
  <2> QED
    BY <1>1, <1>2, <1>3, <2>1, <2>2 DEF WorkOK, OnlyMoves, Good
<1> QED
  BY Zenon, <1>1, <1>5, <1>6, <1>7, <1>8 DEF IInv, Good

\* handle_page_fault: the region gets a page if it has none, and mapping begins.
LEMMA HandlePageFaultKeeps ==
    ASSUME LowestExists, IInv, defect = "none", NEW p \in Processes, handle_page_fault(p)
    PROVE  IInv'
<1> PICK r : r = pc[p].r
  BY Zenon
<1>1. Good /\ Types
  BY Zenon DEF IInv
<1>2. /\ pc[p].at = "fault" /\ r \in Regions /\ state[r] = "live"
      /\ r \in KernelRegions \union {Private(p)} /\ BlockOf(r) = r
  BY <1>1, RegionKinds, RegionOperators DEF handle_page_fault, Good, WorkOK, Works
<1>3. Alive(p) /\ ~Locks(p) /\ Running(p)
  BY Zenon, <1>2 DEF Alive, Locks, Running
<1>4. UNCHANGED <<memory, main, owned, state, references>>
  BY Zenon DEF handle_page_fault
<1>5. SameTables(Processes, {}) /\ \A q \in Processes : owned[q] \subseteq owned'[q]
  BY Zenon, <1>4, TablesUnchanged
<1>6. CASE page[r] # 0
  <2>1. /\ Types' /\ OnlyMoves(p) /\ pc'[p].at = "idle" /\ UNCHANGED <<page, free>>
    BY <1>1, <1>6 DEF handle_page_fault, Types, Places, OnlyMoves, Idle
  <2>2. ~Works(p)'
    BY Zenon, <2>1 DEF Works
  <2>3. KernelOK' /\ PagesOK' /\ TranslationOK'
    BY Zenon, <1>1, <1>3, <1>4, <1>5, <2>1, KernelKept, PagesKept, TranslationKept DEF Good
  <2>4. SpacesOK'
    BY Zenon, <1>1, <1>3, <1>4, <1>5, <2>1, SpacesKept DEF Good
  <2>5. RegionsOK' /\ WorkOK'
    BY Zenon, <1>1, <1>2, <1>4, <2>1, <2>2, RegionsKept, WorkKept DEF Good
  <2> QED
    BY Zenon, <2>1, <2>3, <2>4, <2>5 DEF IInv, Good
<1>7. CASE page[r] = 0
  <2>1. /\ free # {} /\ free' = free \ {NewPage} /\ page' = [page EXCEPT ![r] = NewPage]
        /\ pc' = [pc EXCEPT ![p].at = "top"] /\ defect' = defect
    BY Zenon, <1>7 DEF handle_page_fault
  <2>2. PICK n \in free : n = NewPage
    BY Zenon, <1>1, <2>1, NewPageIsFree DEF Types
  <2>3. n \in Pages /\ n # 0 /\ n \in MaybePages
    BY Zenon, <1>1, PageFacts DEF Types
  <2>4. OnlyMoves(p) /\ pc'[p].at = "top" /\ pc'[p].r = r /\ pc' \in [Processes -> Places]
    BY <1>1, <1>2, <2>1 DEF Types, Places, OnlyMoves
  <2>5. Types'
    BY Zenon, <1>1, <1>2, <1>4, <2>1, <2>2, <2>3, <2>4 DEF Types
  <2>6. KernelOK' /\ PagesOK'
    BY Zenon, <1>1, <1>2, <1>4, <1>5, <1>7, <2>1, <2>2, KernelKept, PageForRegion DEF Good
  <2>7. SpacesOK'
    BY Zenon, <1>1, <1>3, <1>4, <1>5, <2>4, SpacesKept DEF Good
  <2>8. page'[r] = n /\ \A s \in Regions : s # r => page'[s] = page[s]
    BY Zenon, <1>1, <1>2, <2>1, <2>2 DEF Types
  <2>9. RegionsOK'
    <3>1. \A q \in Processes : page'[Clone(q)] = page[Clone(q)] /\ page'[Surface(q)] = page[Surface(q)]
      BY Zenon, <1>2, <2>8, RegionKinds
    <3>2. \A s \in Unshared : s \in Regions
      BY Zenon, UnsharedRegions
    <3>3. \A q \in Processes :
              /\ pc'[q].at \in {"none", "space", "gone"} => pc[q].at \in {"none", "space", "gone"}
              /\ pc'[q].at = "regions" => pc[q].at = "regions"
      BY Zenon, <2>4 DEF OnlyMoves
    <3>4. \A q \in Processes : RegionsOf(q)'
      BY Zenon, <1>1, <1>4, <3>1, <3>3, RegionsOfKept DEF Good
    <3> QED
      BY Zenon, <1>1, <1>2, <1>4, <2>8, <3>2, <3>4 DEF Good, RegionsOK
  <2>10. WorkOK'
    <3>1. \A q \in Processes : Locks(q) => pc[q].r # r /\ Works(q)
      BY Zenon DEF handle_page_fault, LockedBy, Uses, Locks, Works
    <3>2. \A s \in Regions : page[BlockOf(s)] # 0 => page'[BlockOf(s)] # 0
      BY Zenon, <2>3, <2>8, RegionOperators
    <3>3. \A q \in Processes : Locks(q) => page'[BlockOf(pc[q].r)] # 0
      BY Zenon, <1>1, <3>1, <3>2, WorkedRegions DEF Good, WorkOK
    <3>4. /\ r \in KernelRegions \union {Private(p), Surface(p), Clone(p)} /\ page'[BlockOf(r)] # 0
          /\ pc[p].at # "release"
      BY Zenon, <1>2, <2>3, <2>8
    <3> QED
      BY Zenon, <1>1, <1>2, <1>4, <2>4, <3>1, <3>3, <3>4, WorkBegins DEF Good
  <2>11. TranslationOK'
    <3>1. \A s \in Regions : Unlocked(s)' => Unlocked(s) /\ s # r
      BY Zenon, <1>3, <2>4 DEF Unlocked, OnlyMoves, Locks
    <3>2. \A q \in Processes : Running(q)' => Running(q) /\ Alive(q)
      BY Zenon, <1>3, <2>4 DEF Running, OnlyMoves, Alive
    <3>3. \A s \in Regions : s # r => page'[BlockOf(s)] = page[BlockOf(s)]
      <4>1. r \in Unshared
        BY Zenon, <1>2 DEF Unshared
      <4> QED
        BY Zenon, <2>8, <4>1, UnsharedBlocks
    <3>4. \A s \in Regions : IsKernel(s) \/ Running(OwnerOf(s))' =>
              (IsKernel(s) \/ Running(OwnerOf(s))) /\ Translation(s)' = Translation(s)
      BY Zenon, <1>5, <3>2, RegionOperators DEF SameTables, Visible
    <3> QED
      BY Zenon, <1>1, <1>4, <3>1, <3>3, <3>4 DEF Good, TranslationOK
  <2> QED
    BY Zenon, <2>5, <2>6, <2>7, <2>9, <2>10, <2>11 DEF IInv, Good
<1> QED
  BY Zenon, <1>6, <1>7

\* A buffer of the kernel is allocated and not mapped yet.
LEMMA AllocatePrivateKeeps ==
    ASSUME IInv, defect = "none", NEW p \in Processes, NEW r \in KernelRegions,
           allocate_kernel_private(p, r)
    PROVE  IInv'
<1>1. /\ Types' /\ pc[p].at = "idle" /\ state[r] = "none" /\ r \in Regions
      /\ state'[r] = "live" /\ \A s \in Regions : s # r => state'[s] = state[s]
      /\ UNCHANGED <<memory, free, main, owned, page, references, pc, defect>>
  BY RegionKinds DEF allocate_kernel_private, IInv, Types, Idle
<1>2. Alive(p) /\ OnlyMoves(p)
  BY Zenon, <1>1 DEF Alive, OnlyMoves
<1>3. Good
  BY Zenon DEF IInv
<1>4. SameTables(Processes, {}) /\ \A q \in Processes : owned[q] \subseteq owned'[q]
  BY Zenon, <1>1, TablesUnchanged
<1>5. KernelOK' /\ PagesOK'
  BY Zenon, <1>1, <1>3, <1>4, KernelKept, PagesKept DEF Good
<1>6. SpacesOK'
  BY Zenon, <1>1, <1>2, <1>3, <1>4, SpacesKept DEF Good
<1>7. \A q \in Processes : /\ state'[Private(q)] = state[Private(q)]
                           /\ state'[Surface(q)] = state[Surface(q)] /\ state'[Clone(q)] = state[Clone(q)]
  BY Zenon, <1>1, RegionKinds
<1>8. RegionsOK'
  <2>1. \A s \in Unshared : s \in Regions
    BY Zenon, UnsharedRegions
  <2> QED
    BY <1>1, <1>3, <1>7, <2>1 DEF Good, RegionsOK, RegionsOf, BlockOK, One
<1>9. WorkOK'
  <2>1. \A q \in Processes : Works(q) \/ pc[q].at = "release" => pc[q].r # r
    BY Zenon, <1>1, <1>3 DEF Good, WorkOK
  <2>2. \A q \in Processes : Works(q) \/ pc[q].at = "release" => state'[pc[q].r] = state[pc[q].r]
    BY Zenon, <1>1, <1>3, <2>1, WorkedRegions DEF Good
  <2>3. \A q \in Processes : Locks(q) => page'[BlockOf(pc[q].r)] # 0
    BY Zenon, <1>1, <1>3 DEF Good, WorkOK
  <2>4. ~Works(p)' /\ pc'[p].at # "release" /\ pc[p].at # "release"
    BY Zenon, <1>1 DEF Works
  <2>5. \A t \in Regions : state'[t] = "released" => state[t] = "released"
    BY Zenon, <1>1
  <2> QED
    BY Zenon, <1>2, <1>3, <2>2, <2>3, <2>4, <2>5, WorkLeft DEF Good
<1>10. TranslationOK'
  <2>1. \A s \in Regions : (Unlocked(s)' <=> Unlocked(s)) /\ Translation(s)' = Translation(s)
    BY Zenon, <1>1 DEF Unlocked, Locks, Translation, LeafTable, KernelLeaf, UserLeaf, UserTable
  <2>2. \A q \in Processes : Running(q)' <=> Running(q)
    BY Zenon, <1>1 DEF Running
  <2>3. page[BlockOf(r)] = 0
    BY Zenon, <1>1, <1>3, UnsharedBlocks DEF Good, RegionsOK, Unshared
  <2> SUFFICES ASSUME NEW t \in Regions, Unlocked(t)', IsKernel(t) \/ Running(OwnerOf(t))'
               PROVE  Translation(t)' = IF state'[t] = "live" THEN page'[BlockOf(t)] ELSE 0
    BY Zenon DEF TranslationOK
  <2>4. Translation(t) = IF state[t] = "live" THEN page[BlockOf(t)] ELSE 0
    BY Zenon, <1>3, <2>1, <2>2, RegionOperators DEF Good, TranslationOK
  <2> QED
    BY Zenon, <1>1, <2>1, <2>3, <2>4
<1> QED
  BY Zenon, <1>1, <1>3, <1>5, <1>6, <1>8, <1>9, <1>10 DEF IInv, Good

\* The shared region of a window, its block and the page of the block.
LEMMA AllocateSharedKeeps ==
    ASSUME LowestExists, IInv, defect = "none", NEW p \in Processes, allocate_kernel_shared(p)
    PROVE  IInv'
<1> PICK s : s = Surface(p)
  BY Zenon
<1>1. /\ pc[p].at = "idle" /\ state[s] = "none" /\ references[s] = 0 /\ free # {}
      /\ state' = [state EXCEPT ![s] = "live"] /\ references' = [references EXCEPT ![s] = 1]
      /\ page' = [page EXCEPT ![s] = NewPage] /\ free' = free \ {NewPage}
      /\ pc' = [pc EXCEPT ![p] = [at |-> "top", r |-> s]]
      /\ UNCHANGED <<memory, main, owned, defect>>
  BY Zenon, IdlePlace DEF allocate_kernel_shared
<1>2. Good /\ Types
  BY Zenon DEF IInv
<1>3. s \in Regions /\ s \in Surfaces
  BY Zenon, RegionKinds, RegionOperators
<1>4. PICK n \in free : n = NewPage
  BY Zenon, <1>1, <1>2, NewPageIsFree DEF Types
<1>5. n \in Pages /\ n # 0 /\ n \in MaybePages
  BY Zenon, <1>2, PageFacts DEF Types
<1>6. OnlyMoves(p) /\ pc'[p].at = "top" /\ pc'[p].r = s /\ pc' \in [Processes -> Places]
  BY Zenon, <1>1, <1>2, <1>3 DEF Types, Places, OnlyMoves
<1>7. /\ page'[s] = n /\ state'[s] = "live" /\ references'[s] = 1
      /\ \A r \in Regions : r # s => page'[r] = page[r] /\ state'[r] = state[r]
      /\ \A r \in Surfaces : r # s => references'[r] = references[r]
  BY Zenon, <1>1, <1>2, <1>3, <1>4 DEF Types
<1>8. Types'
  BY Zenon, <1>1, <1>2, <1>3, <1>4, <1>5, <1>6, SmallNumbers DEF Types
<1>9. page[s] = 0 /\ state[Clone(p)] = "none"
  BY Zenon, <1>1, <1>2, LiveBlocks DEF Good
<1>10. Alive(p) /\ ~Locks(p) /\ Running(p)
  BY Zenon, <1>1 DEF Alive, Locks, Running
<1>11. SameTables(Processes, {}) /\ \A q \in Processes : owned[q] \subseteq owned'[q]
  BY Zenon, <1>1, TablesUnchanged
<1>12. KernelOK' /\ PagesOK'
  BY Zenon, <1>1, <1>2, <1>3, <1>4, <1>9, <1>11, KernelKept, PageForRegion DEF Good
<1>13. SpacesOK'
  BY Zenon, <1>1, <1>2, <1>6, <1>10, <1>11, SpacesKept DEF Good
<1>14. RegionsOK'
  <2>1. ASSUME NEW q \in Processes, q # p
        PROVE  /\ Surface(q) # s /\ Surface(q) \in Surfaces
               /\ state'[Private(q)] = state[Private(q)] /\ state'[Surface(q)] = state[Surface(q)]
               /\ state'[Clone(q)] = state[Clone(q)]
               /\ page'[Clone(q)] = page[Clone(q)] /\ page'[Surface(q)] = page[Surface(q)]
               /\ references'[Surface(q)] = references[Surface(q)] /\ pc'[q] = pc[q]
    BY Zenon, <1>6, <1>7, <2>1, OthersRegions DEF OnlyMoves
  <2>2. page'[Clone(p)] = page[Clone(p)] /\ state'[Clone(p)] = "none"
    BY Zenon, <1>7, <1>9, RegionKinds
  <2>3. \A r \in Unshared : page'[r] = page[r] /\ state'[r] = state[r]
    BY Zenon, <1>7, UnsharedRegions
  <2>4. \A q \in Processes : q # p => RegionsOf(q)'
    BY Zenon, <1>2, <2>1, RegionsOfKept DEF Good
  <2>5. RegionsOf(p)'
    <3>1. page[Clone(p)] = 0 /\ s = Surface(p) /\ page'[s] # 0
      BY Zenon, <1>2, <1>5, <1>7 DEF Good, RegionsOK, RegionsOf, BlockOK
    <3>2. BlockOK(p)'
      BY Zenon, <1>7, <2>2, <3>1, BlockMade
    <3> QED
      BY Zenon, <1>6, <3>2 DEF RegionsOf
  <2> QED
    BY Zenon, <1>2, <2>3, <2>4, <2>5 DEF Good, RegionsOK
<1>15. WorkOK'
  <2>1. \A q \in Processes : Works(q) \/ pc[q].at = "release" => pc[q].r # s
    BY Zenon, <1>1, <1>2 DEF Good, WorkOK
  <2>2. \A q \in Processes : Works(q) \/ pc[q].at = "release" => state'[pc[q].r] = state[pc[q].r]
    BY Zenon, <1>2, <1>7, <2>1, WorkedRegions DEF Good
  <2>3. \A r \in Regions : page[BlockOf(r)] # 0 => page'[BlockOf(r)] # 0
    BY Zenon, <1>5, <1>7, RegionOperators
  <2>4. \A q \in Processes : Locks(q) => Works(q) /\ pc[q].r # s /\ page'[BlockOf(pc[q].r)] # 0
    BY Zenon, <1>2, <2>1, <2>3, WorkedRegions DEF Good, WorkOK, Works, Locks
  <2>5. /\ page'[BlockOf(s)] # 0 /\ s \in KernelRegions \union {Private(p), Surface(p), Clone(p)}
        /\ pc[p].at # "release"
    BY Zenon, <1>1, <1>5, <1>7, RegionOperators
  <2>6. \A r \in Regions : state'[r] = "released" => state[r] = "released"
    BY Zenon, <1>7
  <2> QED
    BY Zenon, <1>2, <1>6, <1>7, <2>2, <2>4, <2>5, <2>6, WorkBegins DEF Good
<1>16. TranslationOK'
  <2>1. \A r \in Regions : Unlocked(r)' => Unlocked(r) /\ r # s
    BY Zenon, <1>6, <1>10 DEF Unlocked, OnlyMoves, Locks
  <2>2. \A q \in Processes : Running(q)' => Running(q) /\ Alive(q)
    BY Zenon, <1>6, <1>10 DEF Running, OnlyMoves, Alive
  <2>3. \A r \in Regions : r # s => state'[r] = state[r]
                                 /\ (state[r] = "live" => page'[BlockOf(r)] = page[BlockOf(r)])
    <3>1. \A r \in Regions : BlockOf(r) = s => r = s \/ r = Clone(p)
      BY Zenon, SharedBlocks
    <3>2. \A r \in Regions : r # s /\ state[r] = "live" => BlockOf(r) # s /\ BlockOf(r) \in Regions
      BY Zenon, <1>9, <3>1, RegionOperators
    <3> QED
      BY Zenon, <1>7, <3>2
  <2>4. \A r \in Regions : IsKernel(r) \/ Running(OwnerOf(r))' =>
            (IsKernel(r) \/ Running(OwnerOf(r))) /\ Translation(r)' = Translation(r)
    BY Zenon, <1>11, <2>2, RegionOperators DEF SameTables, Visible
  <2> QED
    BY Zenon, <1>2, <2>1, <2>3, <2>4 DEF Good, TranslationOK
<1> QED
  BY Zenon, <1>8, <1>12, <1>13, <1>14, <1>15, <1>16 DEF IInv, Good

\* The clone of that region in the process, which counts a reference to the block.
LEMMA AllocateCloneKeeps ==
    ASSUME IInv, defect = "none", NEW p \in Processes, allocate_user_shared(p)
    PROVE  IInv'
<1> PICK c : c = Clone(p)
  BY Zenon
<1> PICK s : s = Surface(p)
  BY Zenon
<1>1. /\ pc[p].at = "idle" /\ state[c] = "none" /\ state[s] = "live" /\ references[s] = 1
      /\ state' = [state EXCEPT ![c] = "live"] /\ references' = [references EXCEPT ![s] = @ + 1]
      /\ pc' = [pc EXCEPT ![p] = [at |-> "top", r |-> c]]
      /\ UNCHANGED <<memory, free, main, owned, page, defect>>
  BY Zenon, IdlePlace DEF allocate_user_shared
<1>2. Good /\ Types
  BY Zenon DEF IInv
<1>3. c \in Regions /\ s \in Regions /\ s \in Surfaces /\ s # c
  BY Zenon, RegionKinds, RegionOperators
<1>4. OnlyMoves(p) /\ pc'[p].at = "top" /\ pc'[p].r = c /\ pc' \in [Processes -> Places]
  BY Zenon, <1>1, <1>2, <1>3 DEF Types, Places, OnlyMoves
<1> references' = [references EXCEPT ![s] = 2]
  BY Zenon, <1>1, SmallNumbers
<1>5. /\ state'[c] = "live" /\ references'[s] = 2
      /\ \A r \in Regions : r # c => state'[r] = state[r]
      /\ \A r \in Surfaces : r # s => references'[r] = references[r]
  BY Zenon, <1>1, <1>2, <1>3 DEF Types
<1>6. Types'
  BY Zenon, <1>1, <1>2, <1>3, <1>4, SmallNumbers DEF Types
<1>7. page[s] # 0
  BY Zenon, <1>1, <1>2, LiveBlocks DEF Good
<1>8. Alive(p) /\ ~Locks(p) /\ Running(p)
  BY Zenon, <1>1 DEF Alive, Locks, Running
<1>9. SameTables(Processes, {}) /\ \A q \in Processes : owned[q] \subseteq owned'[q]
  BY Zenon, <1>1, TablesUnchanged
<1>10. KernelOK' /\ PagesOK'
  BY Zenon, <1>1, <1>2, <1>9, KernelKept, PagesKept DEF Good
<1>11. SpacesOK'
  BY Zenon, <1>1, <1>2, <1>4, <1>8, <1>9, SpacesKept DEF Good
<1>12. RegionsOK'
  <2>1. ASSUME NEW q \in Processes, q # p
        PROVE  /\ Surface(q) \in Surfaces
               /\ state'[Private(q)] = state[Private(q)] /\ state'[Surface(q)] = state[Surface(q)]
               /\ state'[Clone(q)] = state[Clone(q)]
               /\ references'[Surface(q)] = references[Surface(q)] /\ pc'[q] = pc[q]
    <3>1. /\ Private(q) \in Regions /\ Surface(q) \in Regions /\ Clone(q) \in Regions /\ Surface(q) \in Surfaces
          /\ Private(q) # c /\ Surface(q) # c /\ Clone(q) # c /\ Surface(q) # s
      BY Zenon, <2>1, OthersRegions
    <3> QED
      BY Zenon, <1>4, <1>5, <2>1, <3>1 DEF OnlyMoves
  <2>2. \A r \in Unshared : state'[r] = state[r]
    BY Zenon, <1>5, UnsharedRegions
  <2>3. \A q \in Processes : q # p => RegionsOf(q)'
    BY Zenon, <1>1, <1>2, <2>1, RegionsOfKept DEF Good
  <2>4. RegionsOf(p)'
    <3>1. page[c] = 0 /\ state'[s] # "none"
      BY Zenon, <1>1, <1>2, <1>3, <1>5 DEF Good, RegionsOK, RegionsOf, BlockOK
    <3>2. BlockOK(p)'
      BY Zenon, <1>1, <1>5, <1>7, <3>1, BlockMade
    <3> QED
      BY Zenon, <1>4, <3>2 DEF RegionsOf
  <2> QED
    BY Zenon, <1>1, <1>2, <2>2, <2>3, <2>4 DEF Good, RegionsOK
<1>13. WorkOK'
  <2>1. \A q \in Processes : Works(q) \/ pc[q].at = "release" => pc[q].r # c
    BY Zenon, <1>1, <1>2 DEF Good, WorkOK
  <2>2. \A q \in Processes : Works(q) \/ pc[q].at = "release" => state'[pc[q].r] = state[pc[q].r]
    BY Zenon, <1>2, <1>5, <2>1, WorkedRegions DEF Good
  <2>3. \A q \in Processes : Locks(q) => Works(q) /\ pc[q].r # c /\ page'[BlockOf(pc[q].r)] # 0
    BY Zenon, <1>1, <1>2, <2>1 DEF Good, WorkOK, Works, Locks
  <2>4. /\ page'[BlockOf(c)] # 0 /\ c \in KernelRegions \union {Private(p), Surface(p), Clone(p)}
        /\ pc[p].at # "release"
    BY Zenon, <1>1, <1>7, RegionOperators
  <2>5. \A r \in Regions : state'[r] = "released" => state[r] = "released"
    BY Zenon, <1>5
  <2> QED
    BY Zenon, <1>2, <1>4, <1>5, <2>2, <2>3, <2>4, <2>5, WorkBegins DEF Good
<1>14. TranslationOK'
  <2>1. \A r \in Regions : Unlocked(r)' => Unlocked(r) /\ r # c
    BY Zenon, <1>4, <1>8 DEF Unlocked, OnlyMoves, Locks
  <2>2. \A q \in Processes : Running(q)' => Running(q) /\ Alive(q)
    BY Zenon, <1>4, <1>8 DEF Running, OnlyMoves, Alive
  <2>3. \A r \in Regions : IsKernel(r) \/ Running(OwnerOf(r))' =>
            (IsKernel(r) \/ Running(OwnerOf(r))) /\ Translation(r)' = Translation(r)
    BY Zenon, <1>9, <2>2, RegionOperators DEF SameTables, Visible
  <2> QED
    BY Zenon, <1>1, <1>2, <1>5, <2>1, <2>3 DEF Good, TranslationOK
<1> QED
  BY Zenon, <1>1, <1>6, <1>10, <1>11, <1>12, <1>13, <1>14 DEF IInv, Good

\* A new space shares the kernel's half.
LEMMA CreateKeeps ==
    ASSUME LowestExists, IInv, defect = "none", NEW p \in Processes, create_address_space(p)
    PROVE  IInv'
<1>1. Good /\ Types
  BY Zenon DEF IInv
<1> PICK u : u = Private(p)
  BY Zenon
<1>2. /\ pc[p].at = "none" /\ free # {} /\ free' = free \ {NewPage}
      /\ main' = [main EXCEPT ![p] = NewPage]
      /\ memory' = [memory EXCEPT ![NewPage] = [NoTable EXCEPT ![KernelTop] = memory[KernelMain][KernelTop]]]
      /\ pc' = [pc EXCEPT ![p] = Idle]
      /\ state' = [state EXCEPT ![u] = IF p \in Allocating THEN "live" ELSE "none"]
      /\ UNCHANGED <<owned, page, references, defect>>
  BY Zenon DEF create_address_space
<1>3. PICK n \in free : n = NewPage
  BY Zenon, <1>1, <1>2, NewPageIsFree DEF Types
<1>4. n \in Pages /\ n \in Frames /\ n # 0 /\ n \in MaybePages
  BY Zenon, <1>1, PageFacts DEF Types
<1>5. OnlyMoves(p) /\ pc'[p].at = "idle" /\ pc' \in [Processes -> Places]
  BY Zenon, <1>1, <1>2 DEF Types, Places, OnlyMoves, Idle
<1>6. ~Alive(p) /\ ~Locks(p) /\ Alive(p)' /\ ~Works(p)' /\ ~Locks(p)'
  BY Zenon, <1>2, <1>5 DEF Alive, Works, Locks
<1>7. main[p] = 0 /\ owned[p] = {}
  BY Zenon, <1>1, <1>6 DEF Good, SpacesOK, SpaceOK
<1>8. /\ memory' \in [Frames -> [Indices -> Entries]]
      /\ \A f \in Frames : f \notin {n} => memory'[f] = memory[f]
      /\ \A i \in Indices : memory'[n][i] = IF i = KernelTop THEN KernelTable ELSE 0
  <2>1. memory[KernelMain][KernelTop] = KernelTable
    BY Zenon, <1>1 DEF Good, KernelOK
  <2>2. PICK new : new = [NoTable EXCEPT ![KernelTop] = KernelTable]
    BY Zenon
  <2>3. new \in [Indices -> Entries] /\ \A i \in Indices : new[i] = IF i = KernelTop THEN KernelTable ELSE 0
    BY Zenon, <2>2, PageFacts DEF NoTable
  <2>4. memory' = [memory EXCEPT ![n] = new]
    BY Zenon, <1>2, <1>3, <2>1, <2>2
  <2> QED
    BY Zenon, <1>1, <1>4, <2>3, <2>4 DEF Types
<1>9. main'[p] = n /\ \A q \in Processes : q # p => main'[q] = main[q]
  BY Zenon, <1>1, <1>2, <1>3 DEF Types
<1>10. u \in Regions /\ u \in Unshared /\ state[u] = "none" /\ state[Clone(p)] = "none" /\ page[u] = 0
  BY Zenon, <1>1, <1>2, RegionKinds DEF Good, RegionsOK, RegionsOf, Unshared
<1>11. /\ state' \in [Regions -> {"none", "live", "released"}]
       /\ state'[u] \in {"none", "live"} /\ \A r \in Regions : r # u => state'[r] = state[r]
  BY Zenon, <1>1, <1>2, <1>10 DEF Types
<1>12. Types'
  <2>1. main' \in [Processes -> MaybePages]
    BY Zenon, <1>1, <1>2, <1>3, <1>4 DEF Types
  <2> QED
    BY Zenon, <1>1, <1>2, <1>5, <1>8, <1>11, <2>1 DEF Types
<1>13. SameTables(Processes \ {p}, {})
  <2>1. \A i \in Indices : KernelLeaf(i) # 0 => KernelLeaf(i) \notin {n}
    BY Zenon, <1>1 DEF Good, KernelOK, PagesOK
  <2>2. \A q \in Processes \ {p} : main'[q] = main[q] /\ main[q] \notin {n} /\ owned[q] \intersect {n} = {}
    <3>1. \A q \in Processes \ {p} : main'[q] = main[q]
      BY Zenon, <1>9
    <3>2. \A q \in Processes : main[q] \notin free /\ owned[q] \intersect free = {}
      BY Zenon, <1>1 DEF Good, PagesOK
    <3>3. \A q \in Processes : main[q] \notin {n} /\ owned[q] \intersect {n} = {}
      BY Zenon, <3>2
    <3> QED
      BY Zenon, <3>1, <3>3
  <2>3. KernelMain \notin {n} /\ KernelTable \notin {n} /\ Processes \ {p} \in SUBSET Processes
    BY Zenon, <1>4, PageFacts
  <2> QED
    BY Zenon, <1>1, <1>8, <2>1, <2>2, <2>3, OffTables DEF Good
<1>14. KernelOK'
  <2>1. \A q \in Processes : owned[q] \subseteq owned'[q]
    BY Zenon, <1>2
  <2> QED
    BY Zenon, <1>1, <1>13, <2>1, KernelKept DEF Good
<1>15. UserTable(p)' = 0 /\ UserLeaf(p)' = 0 /\ memory'[main'[p]][KernelTop] = KernelTable
  BY Zenon, <1>8, <1>9, PageFacts DEF UserTable, UserLeaf
<1>16. SpacesOK'
  <2>1. \A q \in Processes : q # p => SpaceOK(q)'
    BY Zenon, <1>1, <1>2, <1>5, <1>9, <1>13, SpaceKept DEF Good, SpacesOK, OnlyMoves
  <2>2. SpaceOK(p)'
    BY Zenon, <1>4, <1>5, <1>6, <1>9, <1>15 DEF SpaceOK
  <2> QED
    BY Zenon, <2>1, <2>2 DEF SpacesOK
<1>17. PagesOK'
  BY Zenon, <1>1, <1>2, <1>3, <1>7, PageForSpace DEF Good
<1>18. RegionsOK'
  <2>1. ASSUME NEW q \in Processes, q # p PROVE RegionsOf(q)'
    <3>1. /\ state'[Private(q)] = state[Private(q)] /\ state'[Surface(q)] = state[Surface(q)]
          /\ state'[Clone(q)] = state[Clone(q)] /\ pc'[q] = pc[q]
      BY Zenon, <1>5, <1>11, <2>1, OthersRegions DEF OnlyMoves
    <3> QED
      BY Zenon, <1>1, <1>2, <3>1, RegionsOfKept DEF Good
  <2>2. RegionsOf(p)'
    <3>1. state'[Surface(p)] = state[Surface(p)] /\ state'[Clone(p)] = state[Clone(p)]
      BY Zenon, <1>11, RegionKinds
    <3> QED
      BY Zenon, <1>1, <1>2, <1>5, <3>1 DEF Good, RegionsOK, RegionsOf, BlockOK, One
  <2>3. \A r \in Unshared : state'[r] = "none" => page'[r] = 0
    BY Zenon, <1>1, <1>2, <1>10, <1>11, UnsharedRegions DEF Good, RegionsOK
  <2> QED
    BY Zenon, <2>1, <2>2, <2>3 DEF RegionsOK
<1>19. WorkOK'
  <2>1. \A q \in Processes : q # p /\ (Works(q) \/ pc[q].at = "release") => state'[pc[q].r] = state[pc[q].r]
    <3>1. \A q \in Processes : Works(q) \/ pc[q].at = "release" => pc[q].r # u
      BY Zenon, <1>1, <1>10 DEF Good, WorkOK
    <3> QED
      BY Zenon, <1>1, <1>11, <3>1, WorkedRegions DEF Good
  <2>2. \A q \in Processes : q # p /\ Locks(q) => page'[BlockOf(pc[q].r)] # 0
    BY Zenon, <1>1, <1>2 DEF Good, WorkOK
  <2>3. \A r \in Regions : state'[r] = "released" => state[r] = "released"
    BY Zenon, <1>11
  <2> QED
    BY Zenon, <1>1, <1>2, <1>5, <1>6, <2>1, <2>2, <2>3, WorkLeft DEF Good
<1>20. TranslationOK'
  <2>1. \A r \in Regions : Unlocked(r)' => Unlocked(r)
    BY Zenon, <1>5, <1>6 DEF Unlocked, OnlyMoves, Locks
  <2>2. \A q \in Processes : Running(q)' /\ q # p => Running(q) /\ Alive(q)
    BY Zenon, <1>5 DEF Running, OnlyMoves, Alive
  <2> SUFFICES ASSUME NEW t \in Regions, Unlocked(t)', IsKernel(t) \/ Running(OwnerOf(t))'
               PROVE  Translation(t)' = IF state'[t] = "live" THEN page'[BlockOf(t)] ELSE 0
    BY Zenon DEF TranslationOK
  <2>3. CASE t \in {Private(p), Clone(p)}
    <3>1. Translation(t)' = 0
      BY Zenon, <1>15, <2>3, RegionBlocks DEF Translation, LeafTable
    <3>2. state'[t] = "live" => t = u
      BY Zenon, <1>10, <1>11, <2>3, RegionKinds
    <3>3. BlockOf(u) = u
      BY Zenon, RegionOperators
    <3> QED
      BY Zenon, <1>2, <1>10, <3>1, <3>2, <3>3
  <2>4. CASE t \notin {Private(p), Clone(p)}
    <3>1. IsKernel(t) \/ (OwnerOf(t) \in Processes \ {p} /\ Running(OwnerOf(t)) /\ Alive(OwnerOf(t)))
      BY Zenon, <2>2, <2>4, RegionOperators
    <3>2. Translation(t)' = Translation(t)
      BY Zenon, <1>13, <3>1 DEF SameTables, Visible
    <3>3. Translation(t) = IF state[t] = "live" THEN page[BlockOf(t)] ELSE 0
      BY Zenon, <1>1, <2>1, <3>1 DEF Good, TranslationOK
    <3> QED
      BY Zenon, <1>2, <1>11, <2>4, <3>2, <3>3
  <2> QED
    BY Zenon, <2>3, <2>4
<1> QED
  BY Zenon, <1>12, <1>14, <1>16, <1>17, <1>18, <1>19, <1>20 DEF IInv, Good

\* release_all_pages: the pages go to the allocator with the last reference.
LEMMA ReleaseKeeps ==
    ASSUME IInv, defect = "none", NEW p \in Processes, release_all_pages(p)
    PROVE  IInv'
<1> PICK r : r = pc[p].r
  BY Zenon
<1>1. Good /\ Types
  BY Zenon DEF IInv
<1>2. /\ pc[p].at = "release"
      /\ free' = free \union Dropped(r) /\ page' = PagesWithout(r)
      /\ references' = IF IsShared(r) THEN decref(r) ELSE references
      /\ state' = [state EXCEPT ![r] = "none"]
      /\ pc' = [pc EXCEPT ![p] = IF IsKernel(r) THEN Idle ELSE [at |-> "stuck"]]
      /\ UNCHANGED <<memory, main, owned, defect>>
  BY Zenon DEF release_all_pages
<1>3. /\ r \in KernelRegions \union {Private(p), Surface(p), Clone(p)}
      /\ r \in Regions /\ state[r] = "released"
  BY Zenon, <1>1, <1>2, WorkedRegions DEF Good, WorkOK
<1>4. /\ free' \subseteq Pages /\ page' \in [Regions -> MaybePages]
      /\ references' \in [Surfaces -> 0 .. 2]
      /\ state' \in [Regions -> {"none", "live", "released"}]
      /\ PagesOK'
      /\ state'[r] = "none" /\ \A t \in Regions : t # r => state'[t] = state[t]
      /\ \A t \in Regions : t # r /\ state[t] # "none" => page'[BlockOf(t)] = page[BlockOf(t)]
      /\ \A q \in Processes : BlockOK(q)'
      /\ \A t \in Unshared : state'[t] = "none" => page'[t] = 0
  <2>1. state[r] # "none"
    BY Zenon, <1>3
  <2> QED
    BY Zenon, <1>1, <1>2, <1>3, <2>1, BlockDropped DEF Good
<1>5. OnlyMoves(p) /\ pc'[p].at \in {"idle", "stuck"} /\ pc' \in [Processes -> Places]
  BY Zenon, <1>1, <1>2 DEF Types, Places, OnlyMoves, Idle
<1>6. Types'
  BY Zenon, <1>1, <1>2, <1>4, <1>5 DEF Types
<1>7. Alive(p) /\ ~Locks(p) /\ Running(p)
  BY Zenon, <1>2 DEF Alive, Locks, Running
<1>8. SameTables(Processes, {}) /\ \A q \in Processes : owned[q] \subseteq owned'[q]
  BY Zenon, <1>2, TablesUnchanged
<1>9. KernelOK'
  BY Zenon, <1>1, <1>8, KernelKept DEF Good
<1>10. SpacesOK'
  BY Zenon, <1>1, <1>2, <1>5, <1>7, <1>8, SpacesKept DEF Good
<1>11. RegionsOK'
  <2>1. \A q \in Processes : pc'[q].at \in {"none", "space", "gone", "regions"} => pc'[q].at = pc[q].at
    BY Zenon, <1>5 DEF OnlyMoves
  <2>2. \A t \in Regions : state[t] = "none" => state'[t] = "none"
    BY Zenon, <1>4
  <2>3. \A q \in Processes : RegionsOf(q)'
    BY Zenon, <1>1, <1>4, <2>1, <2>2, RegionKinds DEF Good, RegionsOK, RegionsOf
  <2> QED
    BY Zenon, <1>4, <2>3 DEF RegionsOK
<1>12. WorkOK'
  <2>1. \A q \in Processes : q # p => (Works(q)' <=> Works(q)) /\ (Locks(q)' <=> Locks(q))
    BY Zenon, <1>5 DEF Works, Locks, OnlyMoves
  <2>2. ~Locks(p)' /\ ~Works(p)' /\ pc'[p].at # "release"
    BY Zenon, <1>5 DEF Locks, Works
  <2>3. \A q \in Processes : q # p /\ (Works(q) \/ pc[q].at = "release") =>
            pc[q].r \in Regions /\ pc[q].r # r /\ state'[pc[q].r] = state[pc[q].r]
    <3>1. \A q \in Processes : q # p /\ (Works(q) \/ pc[q].at = "release") => pc[q].r # r
      BY Zenon, <1>1, <1>2, <1>3 DEF Good, WorkOK
    <3> QED
      BY Zenon, <1>1, <1>4, <3>1, WorkedRegions DEF Good
  <2>4. \A q \in Processes : Locks(q) => Works(q)
    BY Zenon DEF Locks, Works
  <2>5. \A q \in Processes : q # p /\ Locks(q) => page'[BlockOf(pc[q].r)] = page[BlockOf(pc[q].r)]
    BY Zenon, <1>1, <1>4, <2>3, <2>4 DEF Good, WorkOK
  <2>6. \A q \in Processes : q # p /\ Locks(q) => page'[BlockOf(pc[q].r)] # 0
    BY Zenon, <1>1, <2>5 DEF Good, WorkOK
  <2>7. \A t \in Regions : state'[t] = "released" => state[t] = "released" /\ t # r
    BY Zenon, <1>4
  <2> QED
    BY Zenon, <1>1, <1>5, <2>2, <2>3, <2>6, <2>7, WorkLeft DEF Good
<1>13. TranslationOK'
  <2>1. \A t \in Regions : Unlocked(t)' => Unlocked(t)
    BY Zenon, <1>5, <1>7 DEF Unlocked, OnlyMoves, Locks
  <2>2. \A q \in Processes : Running(q)' => Running(q) /\ Alive(q)
    BY Zenon, <1>5, <1>7 DEF Running, OnlyMoves, Alive
  <2>3. \A t \in Regions : IsKernel(t) \/ Running(OwnerOf(t))' =>
            (IsKernel(t) \/ Running(OwnerOf(t))) /\ Translation(t)' = Translation(t)
    BY Zenon, <1>8, <2>2, RegionOperators DEF SameTables, Visible
  <2> SUFFICES ASSUME NEW t \in Regions, Unlocked(t)', IsKernel(t) \/ Running(OwnerOf(t))'
               PROVE  Translation(t)' = IF state'[t] = "live" THEN page'[BlockOf(t)] ELSE 0
    BY Zenon DEF TranslationOK
  <2>4. Translation(t)' = IF state[t] = "live" THEN page[BlockOf(t)] ELSE 0
    BY Zenon, <1>1, <2>1, <2>3 DEF Good, TranslationOK
  <2> QED
    BY Zenon, <1>3, <1>4, <2>4
<1> QED
  BY Zenon, <1>6, <1>4, <1>9, <1>10, <1>11, <1>12, <1>13 DEF IInv, Good

(* Walking the tables, as map_page, unmap_page and the processor do. *)

\* The top table of the kernel and of every live space leads to the right middle table.
LEMMA TopEntries ==
    ASSUME KernelOK, SpacesOK, NEW r \in Regions
    PROVE  /\ IsKernel(r) => memory[KernelMain][Top(r)] = KernelTable
           /\ \A p \in Processes : Alive(p) /\ IsKernel(r) => memory[main[p]][Top(r)] = KernelTable
           /\ \A p \in Processes : ~IsKernel(r) => memory[main[p]][Top(r)] = UserTable(p)
  BY Zenon, RegionOperators DEF KernelOK, SpacesOK, SpaceOK, UserTable

\* The middle table leads to the leaf table.
LEMMA MiddleEntries ==
    ASSUME NEW r \in Regions, NEW table, table = IF IsKernel(r) THEN KernelTable ELSE UserTable(OwnerOf(r))
    PROVE  (IF table = 0 THEN 0 ELSE memory[table][Middle(r)]) = LeafTable(r)
  BY Zenon, RegionOperators, PageFacts DEF LeafTable, KernelLeaf, UserLeaf

\* unmap_page finds the leaf table of a region that somebody can see.
LEMMA UnmapWalk ==
    ASSUME KernelOK, SpacesOK, NEW r \in Regions, Visible(r)
    PROVE  /\ MissingTable(r) <=> LeafTable(r) = 0
           /\ LeafTable(r) # 0 => Unmapped(r) = [memory EXCEPT ![LeafTable(r)][Leaf(r)] = 0]
<1>1. PICK table : table = memory[UnmapTop(r)][Top(r)]
  BY Zenon
<1>2. table = IF IsKernel(r) THEN KernelTable ELSE UserTable(OwnerOf(r))
  BY ZenonT(40), <1>1, TopEntries, RegionOperators DEF UnmapTop
<1>3. (IF table = 0 THEN 0 ELSE memory[table][Middle(r)]) = LeafTable(r)
  BY Zenon, <1>2, MiddleEntries
<1>4. MissingTable(r) <=> LeafTable(r) = 0
  BY Zenon, <1>1, <1>3 DEF MissingTable
<1>5. LeafTable(r) # 0 => memory[table][Middle(r)] = LeafTable(r)
  BY Zenon, <1>3
<1> QED
  BY Zenon, <1>1, <1>4, <1>5 DEF Unmapped

\* free_virtual_region: the entry goes first, the pages later.
LEMMA FreeRegionKeeps ==
    ASSUME IInv, defect = "none", NEW p \in Processes, NEW r \in Regions, free_virtual_region(p, r)
    PROVE  IInv'
<1>1. Good /\ Types
  BY Zenon DEF IInv
<1>2. /\ pc[p].at = "idle" /\ state[r] = "live" /\ state' = [state EXCEPT ![r] = "released"]
      /\ \A q \in Processes : ~Uses(q, r)
      /\ UNCHANGED <<free, main, owned, page, references>>
  BY Zenon, IdlePlace DEF free_virtual_region
<1>3. r \in KernelRegions \union {Private(p), Surface(p), Clone(p)}
  BY Zenon, OwnRegions DEF free_virtual_region
<1>4. Alive(p) /\ ~Locks(p) /\ Running(p) /\ Visible(r)
  BY Zenon, <1>2, <1>3, RegionOperators DEF Alive, Locks, Running, Visible
<1>5. /\ state' \in [Regions -> {"none", "live", "released"}]
      /\ state'[r] = "released" /\ \A t \in Regions : t # r => state'[t] = state[t]
  BY Zenon, <1>1, <1>2 DEF Types
<1>6. CASE MissingTable(r)
  <2>1. defect' = "missing" /\ UNCHANGED <<memory, pc>>
    BY Zenon, <1>6 DEF free_virtual_region
  <2> QED
    BY Zenon, <1>1, <1>2, <1>5, <2>1 DEF IInv, Types
<1>7. CASE ~MissingTable(r)
  <2>1. memory' = Unmapped(r) /\ pc' = [pc EXCEPT ![p] = [at |-> "release", r |-> r]] /\ defect' = defect
    BY Zenon, <1>7 DEF free_virtual_region
  <2>2. LeafTable(r) # 0 /\ memory' = [memory EXCEPT ![LeafTable(r)][Leaf(r)] = 0]
    BY Zenon, <1>1, <1>4, <1>7, <2>1, UnmapWalk DEF Good
  <2>3. /\ memory' \in [Frames -> [Indices -> Entries]]
        /\ SameTables(Processes, {r}) /\ Translation(r)' = 0
    <3>1. 0 \in Entries
      BY Zenon, PageFacts
    <3> QED
      BY Zenon, <1>1, <1>2, <1>4, <2>2, <3>1, LeafWrite DEF Good
  <2>4. OnlyMoves(p) /\ pc'[p].at = "release" /\ pc'[p].r = r /\ pc' \in [Processes -> Places]
    BY Zenon, <1>1, <2>1 DEF Types, Places, OnlyMoves
  <2>5. Types'
    BY Zenon, <1>1, <1>2, <1>5, <2>1, <2>3, <2>4 DEF Types
  <2>6. KernelOK' /\ PagesOK'
    BY Zenon, <1>1, <1>2, <2>3, KernelKept, PagesKept DEF Good
  <2>7. SpacesOK'
    BY Zenon, <1>1, <1>2, <1>4, <2>3, <2>4, SpacesKept DEF Good
  <2>8. RegionsOK'
    <3>1. \A t \in Regions : state'[t] = "none" <=> state[t] = "none"
      BY Zenon, <1>2, <1>5
    <3>2. \A q \in Processes :
              /\ pc'[q].at \in {"none", "space", "gone"} => pc[q].at \in {"none", "space", "gone"}
              /\ pc'[q].at = "regions" => pc[q].at = "regions"
      BY Zenon, <2>4 DEF OnlyMoves
    <3>3. ASSUME NEW q \in Processes PROVE RegionsOf(q)'
      <4>1. Private(q) \in Regions /\ Surface(q) \in Regions /\ Clone(q) \in Regions
        BY Zenon, RegionKinds
      <4> QED
        BY Zenon, <1>1, <1>2, <3>1, <3>2, <4>1, RegionsOfKept DEF Good
    <3>4. \A t \in Unshared : state'[t] = "none" => page'[t] = 0
      BY Zenon, <1>1, <1>2, <3>1, UnsharedRegions DEF Good, RegionsOK
    <3> QED
      BY Zenon, <3>3, <3>4 DEF RegionsOK
  <2>9. WorkOK'
    BY Zenon, <1>1, <1>2, <1>3, <1>4, <1>5, <2>4, WorkReleased DEF Good
  <2>10. TranslationOK'
    <3>1. \A t \in Regions : Unlocked(t)' => Unlocked(t)
      BY Zenon, <1>4, <2>4 DEF Unlocked, OnlyMoves, Locks
    <3>2. \A q \in Processes : Running(q)' => Running(q) /\ Alive(q)
      BY Zenon, <1>4, <2>4 DEF Running, OnlyMoves, Alive
    <3>3. \A t \in Regions : t # r /\ (IsKernel(t) \/ Running(OwnerOf(t))') =>
              (IsKernel(t) \/ Running(OwnerOf(t))) /\ Translation(t)' = Translation(t)
      BY Zenon, <2>3, <3>2, RegionOperators DEF SameTables, Visible
    <3> SUFFICES ASSUME NEW t \in Regions, Unlocked(t)', IsKernel(t) \/ Running(OwnerOf(t))'
                 PROVE  Translation(t)' = IF state'[t] = "live" THEN page'[BlockOf(t)] ELSE 0
      BY Zenon DEF TranslationOK
    <3>4. CASE t = r
      BY Zenon, <3>4, <1>5, <2>3
    <3>5. CASE t # r
      BY Zenon, <3>5, <1>1, <1>2, <1>5, <3>1, <3>3 DEF Good, TranslationOK
    <3> QED
      BY Zenon, <3>4, <3>5
  <2> QED
    BY Zenon, <2>5, <2>6, <2>7, <2>8, <2>9, <2>10 DEF IInv, Good
<1> QED
  BY Zenon, <1>6, <1>7
=============================================================================
