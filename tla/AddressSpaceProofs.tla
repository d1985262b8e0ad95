------------------------- MODULE AddressSpaceProofs -------------------------
(***************************************************************************)
(* The steps that map pages and those that take a process apart keep the     *)
(* invariant of AddressSpaceInvariant, too; what follows from it.            *)
(***************************************************************************)
EXTENDS AddressSpaceInvariant

\* Where a thread is in map_page, and the tables it looks at.
LEMMA MapFacts ==
    ASSUME Good, Types, NEW p \in Processes, Locks(p), NEW r, r = pc[p].r
    PROVE  /\ Works(p) /\ Alive(p) /\ Running(p)
           /\ r \in Regions /\ Visible(r) /\ (IsKernel(r) \/ OwnerOf(r) = p)
           /\ main[p] \in Pages
           /\ memory[main[p]][Top(r)] = IF IsKernel(r) THEN KernelTable ELSE UserTable(p)
           /\ memory[main[p]][Top(r)] # 0 => memory[memory[main[p]][Top(r)]][Middle(r)] = LeafTable(r)
<1>1. Works(p) /\ Alive(p) /\ Running(p)
  BY Zenon DEF Locks, Works, Alive, Running
<1>2. r \in Regions
  BY Zenon, <1>1, WorkedRegions DEF Good
<1>3. Visible(r) /\ (IsKernel(r) \/ OwnerOf(r) = p)
  BY Zenon, <1>1, <1>2, WorkedIsVisible DEF Good
<1>4. main[p] \in Pages
  BY Zenon, <1>1 DEF Good, SpacesOK, SpaceOK
<1>5. PICK table : table = memory[main[p]][Top(r)]
  BY Zenon
<1>6. table = IF IsKernel(r) THEN KernelTable ELSE UserTable(p)
  BY Zenon, <1>1, <1>2, <1>5, TopEntries DEF Good
<1>7. (IF table = 0 THEN 0 ELSE memory[table][Middle(r)]) = LeafTable(r)
  BY Zenon, <1>2, <1>3, <1>6, MiddleEntries
<1> QED
  BY Zenon, <1>1, <1>2, <1>3, <1>4, <1>5, <1>6, <1>7

\* map_page, first part: the middle table, made if there is none.
LEMMA MapTopKeeps ==
    ASSUME LowestExists, IInv, defect = "none", NEW p \in Processes, map_top(p)
    PROVE  IInv'
<1> PICK r : r = pc[p].r
  BY Zenon
<1>1. Good /\ Types
  BY Zenon DEF IInv
<1>2. /\ pc[p].at = "top" /\ pc' = [pc EXCEPT ![p].at = "middle"]
      /\ UNCHANGED <<main, state, page, references, defect>>
  BY Zenon DEF map_top
<1>3. Locks(p)
  BY Zenon, <1>2 DEF Locks
<1>4. /\ Works(p) /\ Alive(p) /\ Running(p) /\ r \in Regions /\ Visible(r)
      /\ main[p] \in Pages
      /\ memory[main[p]][Top(r)] = IF IsKernel(r) THEN KernelTable ELSE UserTable(p)
  BY Zenon, <1>1, <1>3, MapFacts
<1>5. OnlyMoves(p) /\ pc'[p].at = "middle" /\ pc'[p].r = r /\ pc' \in [Processes -> Places]
  BY <1>1, <1>2, <1>4 DEF Types, Places, OnlyMoves
<1>6. Locks(p)' /\ Alive(p)' /\ pc'[p].at # "link" /\ pc'[p].at # "leaf"
  BY Zenon, <1>5 DEF Locks, Alive
<1>7. RegionsOK'
  BY Zenon, <1>1, <1>2, <1>5, RegionsKept DEF Good
<1>8. WorkOK'
  BY Zenon, <1>1, <1>2, <1>3, <1>5, <1>6, WorkGoesOn DEF Good
<1>9. /\ \A t \in Regions : Unlocked(t)' => Unlocked(t)
      /\ \A q \in Processes : Running(q)' => Running(q) /\ Alive(q)
  BY Zenon, <1>3, <1>4, <1>5, <1>6 DEF Unlocked, OnlyMoves, Running, Alive, Locks
<1>10. CASE memory[main[p]][Top(r)] # 0
  <2>1. UNCHANGED <<memory, free, owned>>
    BY Zenon, <1>10 DEF map_top
  <2>2. Types'
    BY Zenon, <1>1, <1>2, <1>5, <2>1 DEF Types
  <2>3. SameTables(Processes, {}) /\ \A q \in Processes : owned[q] \subseteq owned'[q]
    BY Zenon, <1>2, <2>1, TablesUnchanged
  <2>4. KernelOK' /\ PagesOK'
    BY Zenon, <1>1, <1>2, <2>1, <2>3, KernelKept, PagesKept DEF Good
  <2>5. \A q \in Processes : q # p => SpaceOK(q)'
    BY Zenon, <1>1, <1>2, <1>5, <2>1, <2>3, SpaceKept DEF Good, SpacesOK, OnlyMoves
  <2>6. SpaceOK(p)'
    BY <1>1, <1>2, <1>4, <1>5, <1>6, <1>10, <2>1, <2>3 DEF Good, SpacesOK, SpaceOK, SameTables
  <2>7. TranslationOK'
    <3>1. \A t \in Regions : IsKernel(t) \/ Running(OwnerOf(t))' => Translation(t)' = Translation(t)
      BY Zenon, <1>9, <2>3, RegionOperators DEF SameTables, Visible
    <3> QED
      BY Zenon, <1>1, <1>2, <1>9, <3>1, TranslationStays DEF Good
  <2> QED
    BY Zenon, <1>7, <1>8, <2>2, <2>4, <2>5, <2>6, <2>7 DEF IInv, Good, SpacesOK
<1>11. CASE memory[main[p]][Top(r)] = 0
  <2>1. UserTable(p) = 0 /\ UserLeaf(p) = 0 /\ ~IsKernel(r) /\ Top(r) = UserTop
    BY Zenon, <1>4, <1>11, PageFacts, RegionOperators DEF UserLeaf
  <2>2. /\ free # {} /\ free' = free \ {NewPage}
        /\ memory' = [memory EXCEPT ![NewPage] = NoTable, ![main[p]][UserTop] = NewPage]
        /\ owned' = [owned EXCEPT ![p] = @ \union {NewPage}]
    BY Zenon, <1>11, <2>1 DEF map_top
  <2>3. PICK n \in free : n = NewPage
    BY Zenon, <1>1, <2>2, NewPageIsFree DEF Types
  <2>4. n \in Pages /\ n \in Frames /\ n # 0 /\ n \in Entries /\ n # main[p] /\ main[p] \in Frames
    BY <1>1, <1>4, PageFacts DEF Types, Good, PagesOK
  <2>5. /\ memory' \in [Frames -> [Indices -> Entries]]
        /\ \A f \in Frames : f \notin {n, main[p]} => memory'[f] = memory[f]
        /\ memory'[n] = NoTable
        /\ \A i \in Indices : memory'[main[p]][i] = IF i = UserTop THEN n ELSE memory[main[p]][i]
    <3>1. NoTable \in [Indices -> Entries]
      BY Zenon, PageFacts DEF NoTable
    <3>2. memory' = [[memory EXCEPT ![n] = NoTable] EXCEPT ![main[p]][UserTop] = n]
      BY Zenon, <2>2, <2>3
    <3>3. PICK m \in [Frames -> [Indices -> Entries]] : m = [memory EXCEPT ![n] = NoTable]
      BY Zenon, <1>1, <2>4, <3>1 DEF Types
    <3>4. /\ m[n] = NoTable /\ \A f \in Frames : f # n => m[f] = memory[f]
          /\ memory' = [m EXCEPT ![main[p]][UserTop] = n]
      BY Zenon, <1>1, <2>4, <3>2, <3>3 DEF Types
    <3> QED
      BY Zenon, <2>4, <3>4, PageFacts
  <2>6. owned'[p] = owned[p] \union {n} /\ \A q \in Processes : q # p => owned'[q] = owned[q]
    BY Zenon, <1>1, <2>2, <2>3 DEF Types
  <2>7. Types'
    <3>1. owned' \in [Processes -> SUBSET Pages]
      BY Zenon, <1>1, <2>2, <2>3, <2>4 DEF Types
    <3> QED
      BY Zenon, <1>1, <1>2, <1>5, <2>2, <2>5, <3>1 DEF Types
  <2>8. \A i \in Indices : KernelLeaf(i) # 0 => KernelLeaf(i) \notin {n, main[p]}
    BY <1>1 DEF Good, KernelOK, PagesOK
  <2>9. SameTables(Processes \ {p}, {})
    <3>1. \A q \in Processes \ {p} :
             /\ main'[q] = main[q] /\ main[q] \notin {n, main[p]}
             /\ owned[q] \intersect {n, main[p]} = {}
      BY <1>1, <1>2, <1>4, PageFacts DEF Good, PagesOK
    <3>2. KernelMain \notin {n, main[p]} /\ KernelTable \notin {n, main[p]} /\ Processes \ {p} \in SUBSET Processes
      BY Zenon, <1>4, <2>4, PageFacts
    <3> QED
      BY Zenon, <1>1, <2>5, <2>8, <3>1, <3>2, OffTables DEF Good
  <2>10. KernelOK' /\ PagesOK'
    <3>1. \A q \in Processes : owned[q] \subseteq owned'[q]
      BY Zenon, <2>6
    <3> QED
      BY Zenon, <1>1, <1>2, <2>2, <2>3, <2>9, <3>1, KernelKept, PageForTable DEF Good
  <2>11. UserTable(p)' = n /\ UserLeaf(p)' = 0 /\ memory'[main'[p]][KernelTop] = KernelTable
    <3>1. memory'[main[p]][UserTop] = n /\ memory'[main[p]][KernelTop] = memory[main[p]][KernelTop]
      BY Zenon, <2>5, PageFacts
    <3>2. memory'[n][0] = 0
      BY Zenon, <2>5, PageFacts DEF NoTable
    <3> QED
      BY Zenon, <1>1, <1>2, <1>4, <3>1, <3>2 DEF UserTable, UserLeaf, Good, SpacesOK, SpaceOK
  <2>12. \A q \in Processes : q # p => SpaceOK(q)'
    BY Zenon, <1>1, <1>2, <1>5, <2>6, <2>9, SpaceKept DEF Good, SpacesOK, OnlyMoves
  <2>13. SpaceOK(p)'
    <3>1. \A i \in Indices : KernelLeaf(i)' = KernelLeaf(i)
      BY Zenon, <2>9 DEF SameTables
    <3> QED
      BY Zenon, <1>2, <1>4, <1>5, <1>6, <2>4, <2>6, <2>8, <2>11, <3>1 DEF SpaceOK
  <2>14. TranslationOK'
    <3>1. ASSUME NEW t \in Regions, IsKernel(t) \/ Running(OwnerOf(t))' PROVE Translation(t)' = Translation(t)
      <4>1. CASE IsKernel(t) \/ OwnerOf(t) # p
        BY Zenon, <3>1, <4>1, <1>9, <2>9, RegionOperators DEF SameTables, Visible
      <4>2. CASE ~IsKernel(t) /\ OwnerOf(t) = p
        BY Zenon, <4>2, <2>1, <2>11 DEF Translation, LeafTable
      <4> QED
        BY Zenon, <4>1, <4>2
    <3> QED
      BY Zenon, <1>1, <1>2, <1>9, <3>1, TranslationStays DEF Good
  <2> QED
    BY Zenon, <1>7, <1>8, <2>7, <2>10, <2>12, <2>13, <2>14 DEF IInv, Good, SpacesOK
<1> QED
  BY Zenon, <1>10, <1>11

\* map_page, second part: the leaf table is looked up, or a page taken for a new one.
LEMMA MapMiddleKeeps ==
    ASSUME LowestExists, IInv, defect = "none", NEW p \in Processes, map_middle(p)
    PROVE  IInv'
<1> PICK r : r = pc[p].r
  BY Zenon
<1>1. Good /\ Types
  BY Zenon DEF IInv
<1>2. pc[p].at = "middle" /\ UNCHANGED <<main, state, page, references, defect>>
  BY Zenon DEF map_middle
<1>3. Locks(p)
  BY Zenon, <1>2 DEF Locks
<1>4. /\ Works(p) /\ Alive(p) /\ Running(p) /\ r \in Regions /\ Visible(r)
      /\ main[p] \in Pages
      /\ memory[main[p]][Top(r)] = IF IsKernel(r) THEN KernelTable ELSE UserTable(p)
      /\ memory[main[p]][Top(r)] # 0 => memory[memory[main[p]][Top(r)]][Middle(r)] = LeafTable(r)
  BY Zenon, <1>1, <1>3, MapFacts
<1>5. IsKernel(r) \/ UserTable(p) # 0
  BY Zenon, <1>1, <1>2 DEF Good, SpacesOK, SpaceOK
<1>6. memory[memory[main[p]][Top(r)]][Middle(r)] = LeafTable(r)
  BY Zenon, <1>4, <1>5, PageFacts
<1>7. CASE LeafTable(r) # 0
  <2>1. pc' = [pc EXCEPT ![p].at = "leaf"] /\ UNCHANGED <<memory, free, owned>>
    BY Zenon, <1>6, <1>7 DEF map_middle
  <2>2. OnlyMoves(p) /\ pc'[p].at = "leaf" /\ pc'[p].r = r /\ pc' \in [Processes -> Places]
    BY <1>1, <1>2, <1>4, <2>1 DEF Types, Places, OnlyMoves
  <2>3. Locks(p)' /\ Alive(p)'
    BY Zenon, <2>2 DEF Locks, Alive
  <2>4. Types'
    BY Zenon, <1>1, <1>2, <2>1, <2>2 DEF Types
  <2>5. SameTables(Processes, {}) /\ \A q \in Processes : owned[q] \subseteq owned'[q]
    BY Zenon, <1>2, <2>1, TablesUnchanged
  <2>6. KernelOK' /\ PagesOK'
    BY Zenon, <1>1, <1>2, <2>1, <2>5, KernelKept, PagesKept DEF Good
  <2>7. RegionsOK' /\ WorkOK'
    BY Zenon, <1>1, <1>2, <1>3, <2>2, <2>3, RegionsKept, WorkGoesOn DEF Good
  <2>8. \A q \in Processes : q # p => SpaceOK(q)'
    BY Zenon, <1>1, <1>2, <2>1, <2>2, <2>5, SpaceKept DEF Good, SpacesOK, OnlyMoves
  <2>9. SpaceOK(p)'
    <3>1. LeafTable(r)' # 0
      BY Zenon, <1>4, <1>7, <2>1, <1>2 DEF LeafTable, KernelLeaf, UserLeaf, UserTable
    <3> QED
      BY <1>1, <1>2, <1>4, <2>1, <2>2, <2>3, <2>5, <3>1 DEF Good, SpacesOK, SpaceOK, SameTables
  <2>10. TranslationOK'
    <3>1. /\ \A t \in Regions : Unlocked(t)' => Unlocked(t)
          /\ \A q \in Processes : Running(q)' => Running(q) /\ Alive(q)
      BY Zenon, <1>3, <1>4, <2>2, <2>3 DEF Unlocked, OnlyMoves, Running, Alive, Locks
    <3>2. \A t \in Regions : IsKernel(t) \/ Running(OwnerOf(t))' => Translation(t)' = Translation(t)
      BY Zenon, <2>5, <3>1, RegionOperators DEF SameTables, Visible
    <3> QED
      BY Zenon, <1>1, <1>2, <3>1, <3>2, TranslationStays DEF Good
  <2> QED
    BY Zenon, <2>4, <2>6, <2>7, <2>8, <2>9, <2>10 DEF IInv, Good, SpacesOK
<1>8. CASE LeafTable(r) = 0
  <2>1. /\ free # {} /\ free' = free \ {NewPage} /\ memory' = [memory EXCEPT ![NewPage] = NoTable]
        /\ owned' = [owned EXCEPT ![p] = @ \union {NewPage}]
        /\ pc' = [pc EXCEPT ![p] = [at |-> "link", r |-> r, new |-> NewPage]]
    BY Zenon, <1>6, <1>8 DEF map_middle
  <2>2. PICK n \in free : n = NewPage
    BY Zenon, <1>1, <2>1, NewPageIsFree DEF Types
  <2>3. n \in Pages /\ n \in Frames /\ n # 0
    BY Zenon, <1>1, PageFacts DEF Types
  <2>4. /\ OnlyMoves(p) /\ pc'[p].at = "link" /\ pc'[p].r = r /\ pc'[p].new = n
        /\ pc' \in [Processes -> Places]
    BY Zenon, <1>1, <1>4, <2>1, <2>2, <2>3 DEF Types, Places, OnlyMoves
  <2>5. Locks(p)' /\ Alive(p)'
    BY Zenon, <2>4 DEF Locks, Alive
  <2>6. /\ memory' \in [Frames -> [Indices -> Entries]]
        /\ \A f \in Frames : f \notin {n} => memory'[f] = memory[f]
        /\ memory'[n] = NoTable
    <3>1. NoTable \in [Indices -> Entries]
      BY Zenon, PageFacts DEF NoTable
    <3> QED
      BY Zenon, <1>1, <2>1, <2>2, <2>3, <3>1 DEF Types
  <2>7. owned'[p] = owned[p] \union {n} /\ \A q \in Processes : q # p => owned'[q] = owned[q]
    BY Zenon, <1>1, <2>1, <2>2 DEF Types
  <2>8. Types'
    <3>1. owned' \in [Processes -> SUBSET Pages]
      BY Zenon, <1>1, <2>1, <2>2, <2>3 DEF Types
    <3> QED
      BY Zenon, <1>1, <1>2, <2>1, <2>4, <2>6, <3>1 DEF Types
  <2>9. \A i \in Indices : KernelLeaf(i) # n
    BY Zenon, <1>1, <2>3 DEF Good, KernelOK, PagesOK
  <2>10. SameTables(Processes, {})
    <3>1. \A q \in Processes : main'[q] = main[q] /\ main[q] \notin {n} /\ owned[q] \intersect {n} = {}
      BY <1>1, <1>2 DEF Good, PagesOK
    <3>2. /\ KernelMain \notin {n} /\ KernelTable \notin {n} /\ Processes \in SUBSET Processes
          /\ \A i \in Indices : KernelLeaf(i) # 0 => KernelLeaf(i) \notin {n}
      BY Zenon, <2>3, <2>9, PageFacts
    <3> QED
      BY Zenon, <1>1, <2>6, <3>1, <3>2, OffTables DEF Good
  <2>11. KernelOK' /\ PagesOK'
    <3>1. \A q \in Processes : owned[q] \subseteq owned'[q]
      BY Zenon, <2>7
    <3> QED
      BY Zenon, <1>1, <1>2, <2>1, <2>2, <2>10, <3>1, KernelKept, PageForTable DEF Good
  <2>12. RegionsOK' /\ WorkOK'
    BY Zenon, <1>1, <1>2, <1>3, <2>4, <2>5, RegionsKept, WorkGoesOn DEF Good
  <2>13. \A q \in Processes : q # p => SpaceOK(q)'
    BY Zenon, <1>1, <1>2, <2>4, <2>7, <2>10, SpaceKept DEF Good, SpacesOK, OnlyMoves
  <2>14. SpaceOK(p)'
    <3>1. UserTable(p)' = UserTable(p) /\ UserLeaf(p)' = UserLeaf(p) /\ \A i \in Indices : KernelLeaf(i)' = KernelLeaf(i)
      BY Zenon, <1>4, <2>10 DEF SameTables
    <3>2. n # UserTable(p) /\ n # UserLeaf(p)
      <4>1. n \notin owned[p]
        BY Zenon, <1>1, <1>4 DEF Good, PagesOK
      <4> QED
        BY Zenon, <1>1, <1>4, <2>3, <4>1 DEF Good, SpacesOK, SpaceOK
    <3>3. main'[p] \in Pages /\ memory'[main'[p]][KernelTop] = KernelTable
      BY Zenon, <1>1, <1>2, <1>4, <2>10 DEF SameTables, Good, SpacesOK, SpaceOK
    <3>4. SpaceOK(p)
      BY Zenon, <1>1 DEF Good, SpacesOK
    <3>5. Alive(p) => /\ main'[p] \in Pages /\ memory'[main'[p]][KernelTop] = KernelTable
                      /\ UserTable(p)' # 0 => UserTable(p)' \in owned'[p]
                      /\ UserLeaf(p)' # 0 => UserLeaf(p)' \in owned'[p] /\ UserLeaf(p)' # UserTable(p)'
                      /\ \A i \in Indices : KernelLeaf(i)' # 0 =>
                            KernelLeaf(i)' # UserTable(p)' /\ KernelLeaf(i)' # UserLeaf(p)'
      BY Zenon, <2>7, <3>1, <3>3, <3>4 DEF SpaceOK
    <3>6. /\ pc'[p].new \in owned'[p] /\ memory'[pc'[p].new] = NoTable
          /\ pc'[p].new # UserTable(p)' /\ pc'[p].new # UserLeaf(p)'
          /\ \A i \in Indices : KernelLeaf(i)' # pc'[p].new
      BY Zenon, <2>4, <2>6, <2>7, <2>9, <3>1, <3>2
    <3>7. IsKernel(pc'[p].r) \/ UserTable(p)' # 0
      BY Zenon, <1>2, <1>5, <2>4, <3>1, <3>4 DEF SpaceOK
    <3> QED
      BY Zenon, <1>4, <2>4, <2>5, <3>5, <3>6, <3>7 DEF SpaceOK
  <2>15. TranslationOK'
    <3>1. /\ \A t \in Regions : Unlocked(t)' => Unlocked(t)
          /\ \A q \in Processes : Running(q)' => Running(q) /\ Alive(q)
      BY Zenon, <1>3, <1>4, <2>4, <2>5 DEF Unlocked, OnlyMoves, Running, Alive, Locks
    <3>2. \A t \in Regions : IsKernel(t) \/ Running(OwnerOf(t))' => Translation(t)' = Translation(t)
      BY Zenon, <2>10, <3>1, RegionOperators DEF SameTables, Visible
    <3> QED
      BY Zenon, <1>1, <1>2, <3>1, <3>2, TranslationStays DEF Good
  <2> QED
    BY Zenon, <2>8, <2>11, <2>12, <2>13, <2>14, <2>15 DEF IInv, Good, SpacesOK
<1> QED
  BY Zenon, <1>7, <1>8

\* A middle entry that is still missing when the new table is linked: the tables change there
\* and nowhere else, and what is translated stays, for the new table is empty.
LEMMA MapLinkKeeps ==
    ASSUME IInv, defect = "none", NEW p \in Processes, map_link(p)
    PROVE  IInv'
<1> PICK r : r = pc[p].r
  BY Zenon
<1> PICK n : n = pc[p].new
  BY Zenon
<1>1. Good /\ Types
  BY Zenon DEF IInv
<1>2. /\ pc[p].at = "link" /\ pc' = [pc EXCEPT ![p] = [at |-> "leaf", r |-> r]]
      /\ UNCHANGED <<free, main, owned, state, page, references>>
  BY Zenon DEF map_link
<1>3. Locks(p)
  BY Zenon, <1>2 DEF Locks
<1>4. /\ Works(p) /\ Alive(p) /\ Running(p) /\ r \in Regions /\ Visible(r)
      /\ (IsKernel(r) \/ OwnerOf(r) = p) /\ main[p] \in Pages
      /\ memory[main[p]][Top(r)] = IF IsKernel(r) THEN KernelTable ELSE UserTable(p)
      /\ memory[main[p]][Top(r)] # 0 => memory[memory[main[p]][Top(r)]][Middle(r)] = LeafTable(r)
  BY Zenon, <1>1, <1>3, MapFacts
<1>5. /\ IsKernel(r) \/ UserTable(p) # 0
      /\ n \in owned[p] /\ memory[n] = NoTable /\ n # UserTable(p) /\ n # UserLeaf(p)
      /\ \A i \in Indices : KernelLeaf(i) # n
  BY Zenon, <1>1, <1>2 DEF Good, SpacesOK, SpaceOK
<1> PICK table : table = IF IsKernel(r) THEN KernelTable ELSE UserTable(p)
  BY Zenon
<1>6. table # 0 /\ table = memory[main[p]][Top(r)] /\ memory[table][Middle(r)] = LeafTable(r)
  BY Zenon, <1>4, <1>5, PageFacts
<1>7. /\ memory' = [memory EXCEPT ![table][Middle(r)] = n]
      /\ defect' = IF LeafTable(r) # 0 THEN "replaced" ELSE "none"
  BY Zenon, <1>6 DEF map_link
<1>8. n \in Pages /\ n \in Frames /\ n # 0 /\ n \in Entries /\ \A q \in Processes : main[q] # n
  BY <1>1, <1>5, PageFacts DEF Types, Good, PagesOK
<1>9. OnlyMoves(p) /\ pc'[p].at = "leaf" /\ pc'[p].r = r /\ pc' \in [Processes -> Places]
  BY Zenon, <1>1, <1>2, <1>4 DEF Types, Places, OnlyMoves
<1>10. table \in Frames /\ table # n /\ table # KernelMain /\ \A q \in Processes : main[q] # table
  <2>1. CASE IsKernel(r)
    <3>1. \A q \in Processes : main[q] # KernelTable
      BY Zenon, <1>1, PageFacts DEF Types
    <3> QED
      BY Zenon, <1>8, <2>1, <3>1, PageFacts
  <2>2. CASE ~IsKernel(r)
    <3>1. table = UserTable(p) /\ table \in owned[p]
      BY Zenon, <1>1, <1>4, <1>5, <2>2 DEF Good, SpacesOK, SpaceOK
    <3> QED
      BY <1>1, <1>5, <3>1, PageFacts DEF Types, Good, PagesOK
  <2> QED
    BY Zenon, <2>1, <2>2
<1>11. /\ memory' \in [Frames -> [Indices -> Entries]]
       /\ \A f \in Frames : f # table => memory'[f] = memory[f]
       /\ \A i \in Indices : memory'[table][i] = IF i = Middle(r) THEN n ELSE memory[table][i]
  <2>1. Middle(r) \in Indices
    BY Zenon, <1>4, RegionOperators
  <2> QED
    BY Zenon, <1>1, <1>7, <1>8, <1>10, <2>1 DEF Types
<1>12. Types'
  BY Zenon, <1>1, <1>2, <1>7, <1>9, <1>11 DEF Types
<1> SUFFICES ASSUME defect' = "none" PROVE Good'
  BY Zenon, <1>12 DEF IInv
<1>13. LeafTable(r) = 0
  BY Zenon, <1>7
<1>14. Locks(p)' /\ Alive(p)'
  BY Zenon, <1>9 DEF Locks, Alive
<1>15. PagesOK' /\ RegionsOK' /\ WorkOK'
  BY Zenon, <1>1, <1>2, <1>3, <1>9, <1>14, PagesKept, RegionsKept, WorkGoesOn DEF Good
<1>16. /\ \A t \in Regions : Unlocked(t)' => Unlocked(t)
       /\ \A q \in Processes : Running(q)' => Running(q) /\ Alive(q)
  BY Zenon, <1>3, <1>4, <1>9, <1>14 DEF Unlocked, OnlyMoves, Running, Alive, Locks
<1>17. \A q \in Processes : q # p => owned[q] \intersect owned[p] = {}
  BY Zenon, <1>1 DEF Good, PagesOK
<1>18. CASE IsKernel(r)
  <2> PICK m \in Indices : m = MiddleOf[r]
    BY Zenon, <1>4, <1>18, RegionOperators
  <2>1. table = KernelTable /\ Middle(r) = m
    BY Zenon, <1>4, <1>18, RegionOperators
  <2>2. KernelLeaf(m) = 0 /\ KernelLeaf(m)' = n /\ \A i \in Indices : i # m => KernelLeaf(i)' = KernelLeaf(i)
    BY Zenon, <1>11, <1>13, <1>18, <2>1 DEF KernelLeaf, LeafTable
  <2>3. ASSUME NEW q \in Processes, Alive(q)
        PROVE  /\ memory'[main[q]] = memory[main[q]]
               /\ UserTable(q)' = UserTable(q) /\ UserLeaf(q)' = UserLeaf(q)
    <3>1. main[q] \in Frames /\ memory'[main[q]] = memory[main[q]]
      BY Zenon, <1>1, <1>10, <1>11, <2>3, PageFacts DEF Good, SpacesOK, SpaceOK
    <3>2. UserTable(q)' = UserTable(q)
      BY Zenon, <1>2, <3>1 DEF UserTable
    <3>3. UserTable(q) # 0 => UserTable(q) \in Frames /\ UserTable(q) # table
      <4>1. UserTable(q) # 0 => UserTable(q) \in Pages
        BY Zenon, <1>1, <2>3 DEF Good, SpacesOK, SpaceOK, Types
      <4> QED
        BY Zenon, <2>1, <4>1, PageFacts
    <3> QED
      BY Zenon, <1>11, <3>1, <3>2, <3>3 DEF UserLeaf
  <2>4. KernelOK'
    <3>1. memory'[KernelMain][KernelTop] = KernelTable
      BY Zenon, <1>1, <1>10, <1>11, PageFacts DEF Good, KernelOK
    <3>2. \A i \in Indices : KernelLeaf(i)' # 0 => \E q \in Processes : KernelLeaf(i)' \in owned'[q]
      BY Zenon, <1>1, <1>2, <1>5, <2>2 DEF Good, KernelOK
    <3>3. \A i, j \in Indices : KernelLeaf(i)' # 0 /\ KernelLeaf(i)' = KernelLeaf(j)' => i = j
      BY <1>1, <1>5, <2>2 DEF Good, KernelOK
    <3> QED
      BY Zenon, <3>1, <3>2, <3>3 DEF KernelOK
  <2>5. \A t \in Regions : IsKernel(t) => MiddleOf[t] \in Indices
    BY Zenon, RegionOperators
  <2>6. \A t \in Regions : Visible(t) /\ LeafTable(t) # 0 => LeafTable(t)' = LeafTable(t)
    BY Zenon, <2>2, <2>3, <2>5, RegionOperators DEF LeafTable, Visible
  <2>7. ASSUME NEW t \in Regions, Visible(t) PROVE Translation(t)' = Translation(t)
    <3>1. CASE LeafTable(t) # 0
      <4>1. LeafTable(t) \in Frames /\ LeafTable(t) # table
        <5>1. \E q \in Processes : LeafTable(t) \in owned[q]
          BY Zenon, <1>1, <2>7, <3>1, LeafTableOwned, RegionOperators DEF Good
        <5>2. LeafTable(t) \in Pages
          BY Zenon, <1>1, <5>1 DEF Types
        <5> QED
          BY Zenon, <2>1, <5>2, PageFacts
      <4> QED
        BY Zenon, <1>11, <2>6, <2>7, <3>1, <4>1 DEF Translation
    <3>2. CASE LeafTable(t) = 0
      <4>1. LeafTable(t)' \in {0, n}
        BY Zenon, <2>2, <2>3, <2>5, <2>7, <3>2, RegionOperators DEF LeafTable, Visible
      <4>2. Leaf(t) \in Indices /\ memory'[n][Leaf(t)] = 0
        <5>1. Leaf(t) \in Indices /\ memory'[n] = NoTable
          BY Zenon, <1>4, <1>5, <1>8, <1>10, <1>11, <2>7, RegionBlocks
        <5> QED
          BY Zenon, <5>1 DEF NoTable
      <4> QED
        BY Zenon, <3>2, <4>1, <4>2 DEF Translation
    <3> QED
      BY Zenon, <3>1, <3>2
  <2>8. ASSUME NEW q \in Processes PROVE SpaceOK(q)'
    <3>1. SpaceOK(q) /\ main'[q] = main[q] /\ owned'[q] = owned[q]
      BY Zenon, <1>1, <1>2 DEF Good, SpacesOK
    <3>2. Alive(q)' <=> Alive(q)
      BY Zenon, <1>4, <1>9, <1>14 DEF Alive, OnlyMoves
    <3>3. Alive(q) => n # UserTable(q) /\ n # UserLeaf(q)
      BY Zenon, <1>1, <1>5, <1>8, <1>17, <3>1 DEF SpaceOK
    <3>4. ASSUME Alive(q)
          PROVE  /\ main'[q] \in Pages /\ memory'[main'[q]][KernelTop] = KernelTable
                 /\ UserTable(q)' # 0 => UserTable(q)' \in owned'[q]
                 /\ UserLeaf(q)' # 0 => UserLeaf(q)' \in owned'[q] /\ UserLeaf(q)' # UserTable(q)'
                 /\ \A i \in Indices : KernelLeaf(i)' # 0 =>
                        KernelLeaf(i)' # UserTable(q)' /\ KernelLeaf(i)' # UserLeaf(q)'
      BY Zenon, <2>2, <2>3, <3>1, <3>3, <3>4 DEF SpaceOK
    <3>5. ASSUME pc'[q].at \in {"middle", "link"} PROVE q # p /\ pc'[q] = pc[q] /\ Alive(q)
      BY Zenon, <1>9, <3>5 DEF OnlyMoves, Alive
    <3>6. ASSUME pc'[q].at = "link"
          PROVE  /\ pc'[q].new \in owned'[q] /\ memory'[pc'[q].new] = NoTable
                 /\ pc'[q].new # UserTable(q)' /\ pc'[q].new # UserLeaf(q)'
                 /\ \A i \in Indices : KernelLeaf(i)' # pc'[q].new
      <4>1. q # p /\ pc'[q] = pc[q] /\ Alive(q)
        BY Zenon, <3>5, <3>6
      <4>2. pc[q].new \in owned[q] /\ pc[q].new \in Pages /\ pc[q].new # n
        BY Zenon, <1>1, <1>5, <1>17, <3>1, <3>6, <4>1 DEF SpaceOK, Types
      <4>3. memory'[pc[q].new] = memory[pc[q].new]
        <5>1. pc[q].new \in Frames /\ pc[q].new # table
          BY Zenon, <2>1, <4>2, PageFacts
        <5> QED
          BY Zenon, <1>11, <5>1
      <4> QED
        BY Zenon, <2>2, <2>3, <3>1, <3>6, <4>1, <4>2, <4>3 DEF SpaceOK
    <3>7. pc'[q].at \in {"middle", "link"} => IsKernel(pc'[q].r) \/ UserTable(q)' # 0
      BY Zenon, <2>3, <3>1, <3>5 DEF SpaceOK
    <3>8. ASSUME NEW t \in Regions, pc'[q].at = "leaf", pc'[q].r = t PROVE LeafTable(t)' # 0
      <4>1. CASE q = p
        BY Zenon, <1>8, <1>9, <1>18, <2>2, <3>8, <4>1 DEF LeafTable
      <4>2. CASE q # p
        <5>1. pc'[q] = pc[q] /\ Works(q)
          BY Zenon, <1>9, <3>8, <4>2 DEF OnlyMoves, Works
        <5>2. Visible(t) /\ LeafTable(t) # 0
          BY Zenon, <1>1, <3>1, <3>8, <5>1, WorkedIsVisible DEF Good, SpaceOK
        <5> QED
          BY Zenon, <2>6, <5>2
      <4> QED
        BY Zenon, <4>1, <4>2
    <3> QED
      BY Zenon, <3>1, <3>2, <3>4, <3>6, <3>7, <3>8 DEF SpaceOK
  <2>9. TranslationOK'
    <3>1. \A t \in Regions : IsKernel(t) \/ Running(OwnerOf(t))' => Translation(t)' = Translation(t)
      BY Zenon, <1>16, <2>7, RegionOperators DEF Visible
    <3> QED
      BY Zenon, <1>1, <1>2, <1>16, <3>1, TranslationStays DEF Good
  <2> QED
    BY Zenon, <1>15, <2>4, <2>8, <2>9 DEF Good, SpacesOK
<1>19. CASE ~IsKernel(r)
  <2>1. table = UserTable(p) /\ table \in owned[p] /\ Middle(r) = 0 /\ UserLeaf(p) = 0
    BY Zenon, <1>1, <1>4, <1>5, <1>13, <1>19, RegionOperators DEF Good, SpacesOK, SpaceOK, LeafTable
  <2>2. SameTables(Processes \ {p}, {})
    <3>1. \A q \in Processes \ {p} : main'[q] = main[q] /\ main[q] \notin {table} /\ owned[q] \intersect {table} = {}
      BY Zenon, <1>2, <1>10, <1>17, <2>1
    <3>2. /\ KernelMain \notin {table} /\ KernelTable \notin {table} /\ Processes \ {p} \in SUBSET Processes
          /\ \A f \in Frames : f \notin {table} => memory'[f] = memory[f]
      BY <1>1, <1>10, <1>11, <2>1, PageFacts DEF Types
    <3>3. \A i \in Indices : KernelLeaf(i) # 0 => KernelLeaf(i) \notin {table}
      BY Zenon, <1>1, <1>4, <2>1 DEF Good, SpacesOK, SpaceOK
    <3> QED
      BY Zenon, <1>1, <3>1, <3>2, <3>3, OffTables DEF Good
  <2>3. KernelOK'
    <3>1. \A q \in Processes : owned[q] \subseteq owned'[q]
      BY Zenon, <1>2
    <3> QED
      BY Zenon, <1>1, <2>2, <3>1, KernelKept DEF Good
  <2>4. UserTable(p)' = table /\ UserLeaf(p)' = n /\ memory'[main'[p]][KernelTop] = KernelTable
    <3>1. main[p] \in Frames /\ memory'[main[p]] = memory[main[p]]
      BY Zenon, <1>4, <1>10, <1>11, PageFacts
    <3>2. memory'[table][0] = n
      BY Zenon, <1>11, <2>1, PageFacts
    <3>3. memory[main[p]][KernelTop] = KernelTable
      BY Zenon, <1>1, <1>4 DEF Good, SpacesOK, SpaceOK
    <3> QED
      BY Zenon, <1>2, <1>6, <2>1, <3>1, <3>2, <3>3 DEF UserTable, UserLeaf
  <2>5. \A q \in Processes : q # p => SpaceOK(q)'
    BY Zenon, <1>1, <1>2, <1>9, <2>2, SpaceKept DEF Good, SpacesOK, OnlyMoves
  <2>6. SpaceOK(p)'
    <3>1. \A i \in Indices : KernelLeaf(i)' = KernelLeaf(i)
      BY Zenon, <2>2 DEF SameTables
    <3>2. \A i \in Indices : KernelLeaf(i) # 0 => KernelLeaf(i) # table /\ KernelLeaf(i) # n
      BY Zenon, <1>1, <1>4, <1>5, <2>1 DEF Good, SpacesOK, SpaceOK
    <3>3. LeafTable(r)' # 0
      BY Zenon, <1>4, <1>8, <1>19, <2>4 DEF LeafTable
    <3> QED
      BY Zenon, <1>2, <1>4, <1>5, <1>9, <1>10, <1>14, <2>1, <2>4, <3>1, <3>2, <3>3 DEF SpaceOK
  <2>7. TranslationOK'
    <3>1. ASSUME NEW t \in Regions, IsKernel(t) \/ Running(OwnerOf(t))' PROVE Translation(t)' = Translation(t)
      <4>1. CASE IsKernel(t) \/ OwnerOf(t) # p
        BY Zenon, <3>1, <4>1, <1>16, <2>2, RegionOperators DEF SameTables, Visible
      <4>2. CASE ~IsKernel(t) /\ OwnerOf(t) = p
        <5>1. LeafTable(t) = 0 /\ LeafTable(t)' = n
          BY Zenon, <4>2, <2>1, <2>4 DEF LeafTable
        <5>2. Leaf(t) \in Indices /\ memory'[n][Leaf(t)] = 0
          <6>1. Leaf(t) \in Indices /\ memory'[n] = NoTable
            BY Zenon, <1>4, <1>5, <1>8, <1>10, <1>11, <3>1, RegionBlocks
          <6> QED
            BY Zenon, <6>1 DEF NoTable
        <5> QED
          BY Zenon, <1>8, <5>1, <5>2 DEF Translation
      <4> QED
        BY Zenon, <4>1, <4>2
    <3> QED
      BY Zenon, <1>1, <1>2, <1>16, <3>1, TranslationStays DEF Good
  <2> QED
    BY Zenon, <1>15, <2>3, <2>5, <2>6, <2>7 DEF Good, SpacesOK
<1> QED
  BY Zenon, <1>18, <1>19

\* map_page, last part: the entry of the leaf table.
LEMMA MapLeafKeeps ==
    ASSUME IInv, defect = "none", NEW p \in Processes, map_leaf(p)
    PROVE  IInv'
<1> PICK r : r = pc[p].r
  BY Zenon
<1>1. Good /\ Types
  BY Zenon DEF IInv
<1>2. /\ pc[p].at = "leaf" /\ pc' = [pc EXCEPT ![p] = Idle]
      /\ UNCHANGED <<free, main, owned, state, page, references, defect>>
  BY Zenon DEF map_leaf
<1>3. Works(p) /\ Locks(p) /\ Alive(p) /\ Running(p)
  BY Zenon, <1>2 DEF Works, Locks, Alive, Running
<1>4. r \in Regions /\ state[r] = "live"
  BY <1>1, <1>3, RegionKinds DEF Good, WorkOK
<1>5. Visible(r) /\ (IsKernel(r) \/ OwnerOf(r) = p)
  BY Zenon, <1>1, <1>3, <1>4, WorkedIsVisible DEF Good
<1>6. LeafTable(r) # 0
  BY Zenon, <1>1, <1>2, <1>4 DEF Good, SpacesOK, SpaceOK
<1>7. memory' = [memory EXCEPT ![LeafTable(r)][Leaf(r)] = page[BlockOf(r)]]
  <2>1. PICK table : table = memory[main[p]][Top(r)]
    BY Zenon
  <2>2. table = IF IsKernel(r) THEN KernelTable ELSE UserTable(OwnerOf(r))
    BY Zenon, <1>1, <1>3, <1>4, <1>5, <2>1, TopEntries DEF Good
  <2>3. memory[table][Middle(r)] = LeafTable(r)
    BY Zenon, <1>4, <1>6, <2>2, MiddleEntries
  <2> QED
    BY Zenon, <2>1, <2>3 DEF map_leaf
<1>8. page[BlockOf(r)] \in Entries
  <2>1. page[BlockOf(r)] \in MaybePages
    BY Zenon, <1>1, <1>4, RegionOperators DEF Types
  <2> QED
    BY Zenon, <2>1, PageFacts
<1>9. /\ memory' \in [Frames -> [Indices -> Entries]]
      /\ SameTables(Processes, {r}) /\ Translation(r)' = page[BlockOf(r)]
  BY Zenon, <1>1, <1>2, <1>4, <1>5, <1>6, <1>7, <1>8, LeafWrite DEF Good
<1>10. OnlyMoves(p) /\ pc'[p].at = "idle" /\ pc' \in [Processes -> Places]
  BY Zenon, <1>1, <1>2 DEF Types, Places, OnlyMoves, Idle
<1>11. Types'
  BY Zenon, <1>1, <1>2, <1>9, <1>10 DEF Types
<1>12. KernelOK' /\ PagesOK'
  BY Zenon, <1>1, <1>2, <1>9, KernelKept, PagesKept DEF Good
<1>13. SpacesOK'
  BY Zenon, <1>1, <1>2, <1>3, <1>9, <1>10, SpacesKept DEF Good
<1>14. RegionsOK' /\ WorkOK'
  <2>1. ~Works(p)'
    BY Zenon, <1>10 DEF Works
  <2> QED
    BY Zenon, <1>1, <1>2, <1>10, <2>1, RegionsKept, WorkKept DEF Good
<1>15. TranslationOK'
  <2>1. \A t \in Regions : t # r /\ Unlocked(t)' => Unlocked(t)
    BY Zenon, <1>10 DEF Unlocked, OnlyMoves, Locks
  <2>2. \A q \in Processes : Running(q)' => Running(q) /\ Alive(q)
    BY Zenon, <1>3, <1>10 DEF Running, OnlyMoves, Alive
  <2>3. \A t \in Regions : t # r /\ (IsKernel(t) \/ Running(OwnerOf(t))') =>
            (IsKernel(t) \/ Running(OwnerOf(t))) /\ Translation(t)' = Translation(t)
    BY Zenon, <1>9, <2>2, RegionOperators DEF SameTables, Visible
  <2> SUFFICES ASSUME NEW t \in Regions, Unlocked(t)', IsKernel(t) \/ Running(OwnerOf(t))'
               PROVE  Translation(t)' = IF state'[t] = "live" THEN page'[BlockOf(t)] ELSE 0
    BY Zenon DEF TranslationOK
  <2>4. CASE t = r
    BY Zenon, <2>4, <1>2, <1>4, <1>9
  <2>5. CASE t # r
    BY Zenon, <2>5, <1>1, <1>2, <2>1, <2>3 DEF Good, TranslationOK
  <2> QED
    BY Zenon, <2>4, <2>5
<1> QED
  BY Zenon, <1>11, <1>12, <1>13, <1>14, <1>15 DEF IInv, Good

\* Only the process itself works on its regions, so when it is dead they are none or live.
LEMMA DeadRegions ==
    ASSUME Types, WorkOK, NEW p \in Processes, pc[p].at \in {"dead", "regions"}
    PROVE  /\ \A r \in {Private(p), Surface(p), Clone(p)} : r \in Regions /\ state[r] \in {"none", "live"} /\ Unlocked(r)
           /\ \A q \in Processes : Works(q) \/ pc[q].at = "release" =>
                 pc[q].r \in Regions /\ pc[q].r \notin {Private(p), Surface(p), Clone(p)}
<1>1. \A q \in Processes : Works(q) \/ pc[q].at = "release" =>
          pc[q].r \in Regions /\ pc[q].r \notin {Private(p), Surface(p), Clone(p)}
  BY RegionKinds DEF WorkOK, Works
<1>2. \A q \in Processes : Locks(q) => Works(q)
  BY Zenon DEF Works, Locks
<1>3. \A r \in {Private(p), Surface(p), Clone(p)} : r \in Regions /\ Unlocked(r)
  BY <1>1, <1>2, RegionKinds DEF Unlocked
<1>4. \A r \in {Private(p), Surface(p), Clone(p)} : state[r] # "released"
  BY <1>1, <1>3 DEF WorkOK
<1> QED
  BY Zenon, <1>1, <1>3, <1>4 DEF Types

\* do_free_thread: the window of a dead process gives up its surface.
LEMMA FreeThreadKeeps ==
    ASSUME IInv, defect = "none", NEW p \in Processes, do_free_thread(p)
    PROVE  IInv'
<1> PICK s : s = Surface(p)
  BY Zenon
<1>1. Good /\ Types
  BY Zenon DEF IInv
<1>2. /\ pc[p].at = "dead" /\ pc' = [pc EXCEPT ![p] = [at |-> "regions"]]
      /\ UNCHANGED <<main, owned, defect>>
  BY Zenon DEF do_free_thread
<1>3. /\ s \in Regions /\ state[s] \in {"none", "live"} /\ Unlocked(s)
      /\ \A q \in Processes : Works(q) \/ pc[q].at = "release" => pc[q].r \in Regions /\ pc[q].r # s
  BY Zenon, <1>1, <1>2, DeadRegions DEF Good
<1>4. OnlyMoves(p) /\ pc'[p].at = "regions" /\ pc' \in [Processes -> Places]
  BY Zenon, <1>1, <1>2 DEF Types, Places, OnlyMoves
<1>5. Alive(p) /\ ~Locks(p) /\ ~Running(p)' /\ ~Works(p)' /\ ~Locks(p)'
  BY Zenon, <1>2, <1>4 DEF Alive, Locks, Running, Works
<1>6. CASE state[s] # "live"
  <2>1. state[s] = "none" /\ UNCHANGED <<memory, free, page, references, state>>
    BY Zenon, <1>3, <1>6 DEF do_free_thread
  <2>2. Types'
    BY Zenon, <1>1, <1>2, <1>4, <2>1 DEF Types
  <2>3. SameTables(Processes, {}) /\ \A q \in Processes : owned[q] \subseteq owned'[q]
    BY Zenon, <1>2, <2>1, TablesUnchanged
  <2>4. KernelOK' /\ PagesOK' /\ TranslationOK'
    BY Zenon, <1>1, <1>2, <1>4, <1>5, <2>1, <2>3, KernelKept, PagesKept, TranslationKept DEF Good
  <2>5. SpacesOK'
    BY Zenon, <1>1, <1>2, <1>4, <1>5, <2>3, SpacesKept DEF Good
  <2>6. RegionsOK'
    BY Zenon, <1>1, <1>4, <2>1 DEF Good, RegionsOK, RegionsOf, BlockOK, One, OnlyMoves
  <2>7. WorkOK'
    BY Zenon, <1>1, <1>2, <1>4, <1>5, <2>1, WorkKept DEF Good
  <2> QED
    BY Zenon, <2>2, <2>4, <2>5, <2>6, <2>7 DEF IInv, Good
<1>7. CASE state[s] = "live"
  <2>1. /\ memory' = Unmapped(s)
        /\ free' = free \union Dropped(s) /\ page' = PagesWithout(s)
        /\ references' = decref(s) /\ state' = [state EXCEPT ![s] = "none"]
    BY Zenon, <1>7 DEF do_free_thread
  <2>2. IsShared(s) /\ IsKernel(s) /\ BlockOf(s) = s /\ Visible(s)
    BY Zenon, RegionOperators DEF Visible
  <2>3. /\ free' \subseteq Pages /\ page' \in [Regions -> MaybePages]
        /\ references' \in [Surfaces -> 0 .. 2]
        /\ state' \in [Regions -> {"none", "live", "released"}]
        /\ PagesOK'
        /\ state'[s] = "none" /\ \A t \in Regions : t # s => state'[t] = state[t]
        /\ \A t \in Regions : t # s /\ state[t] # "none" => page'[BlockOf(t)] = page[BlockOf(t)]
        /\ \A q \in Processes : BlockOK(q)'
        /\ \A t \in Unshared : state'[t] = "none" => page'[t] = 0
    <3>1. state[s] # "none" /\ references' = IF IsShared(s) THEN decref(s) ELSE references
      BY Zenon, <1>7, <2>1, <2>2
    <3> QED
      BY Zenon, <1>1, <1>2, <1>3, <2>1, <3>1, BlockDropped DEF Good
  <2>4. LeafTable(s) # 0
    <3>1. page[s] # 0
      BY <1>1, <1>7 DEF Good, RegionsOK, RegionsOf, BlockOK, One
    <3>2. Translation(s) = page[s]
      BY Zenon, <1>1, <1>3, <1>7, <2>2 DEF Good, TranslationOK
    <3> QED
      BY Zenon, <3>1, <3>2 DEF Translation
  <2>5. memory' = [memory EXCEPT ![LeafTable(s)][Leaf(s)] = 0]
    BY Zenon, <1>1, <1>3, <2>1, <2>2, <2>4, UnmapWalk DEF Good
  <2>6. /\ memory' \in [Frames -> [Indices -> Entries]]
        /\ SameTables(Processes, {s}) /\ Translation(s)' = 0
    <3>1. 0 \in Entries
      BY Zenon, PageFacts
    <3> QED
      BY Zenon, <1>1, <1>2, <1>3, <2>2, <2>4, <2>5, <3>1, LeafWrite DEF Good
  <2>7. Types'
    BY Zenon, <1>1, <1>2, <1>4, <2>3, <2>6 DEF Types
  <2>8. KernelOK'
    BY Zenon, <1>1, <1>2, <2>6, KernelKept DEF Good
  <2>9. SpacesOK'
    BY Zenon, <1>1, <1>2, <1>4, <1>5, <2>6, SpacesKept DEF Good
  <2>10. RegionsOK'
    <3>1. \A q \in Processes : q # p => pc'[q].at = pc[q].at
      BY Zenon, <1>4 DEF OnlyMoves
    <3>2. \A t \in Regions : state[t] = "none" => state'[t] = "none"
      BY Zenon, <2>3
    <3>3. \A q \in Processes : RegionsOf(q)'
      BY Zenon, <1>1, <1>4, <2>3, <3>1, <3>2, RegionKinds DEF Good, RegionsOK, RegionsOf
    <3> QED
      BY Zenon, <2>3, <3>3 DEF RegionsOK
  <2>11. WorkOK'
    <3>2. \A q \in Processes : Works(q) \/ pc[q].at = "release" => state'[pc[q].r] = state[pc[q].r]
      BY Zenon, <1>3, <2>3
    <3>3. \A q \in Processes : Locks(q) => Works(q)
      BY Zenon DEF Locks, Works
    <3>4. \A q \in Processes : Locks(q) => page'[BlockOf(pc[q].r)] = page[BlockOf(pc[q].r)]
      BY Zenon, <1>1, <1>3, <2>3, <3>3 DEF Good, WorkOK
    <3>5. \A q \in Processes : Locks(q) => page'[BlockOf(pc[q].r)] # 0
      BY Zenon, <1>1, <3>4 DEF Good, WorkOK
    <3>6. \A r \in Regions : state'[r] = "released" => state[r] = "released"
      BY Zenon, <2>3
    <3> QED
      BY Zenon, <1>1, <1>2, <1>4, <1>5, <3>2, <3>5, <3>6, WorkLeft DEF Good
  <2>12. TranslationOK'
    <3>1. \A t \in Regions : Unlocked(t)' => Unlocked(t)
      BY Zenon, <1>4, <1>5 DEF Unlocked, OnlyMoves, Locks
    <3>2. \A q \in Processes : Running(q)' => Running(q) /\ Alive(q)
      BY Zenon, <1>4, <1>5 DEF Running, OnlyMoves, Alive
    <3>3. \A t \in Regions : t # s /\ (IsKernel(t) \/ Running(OwnerOf(t))') =>
              (IsKernel(t) \/ Running(OwnerOf(t))) /\ Translation(t)' = Translation(t)
      BY Zenon, <2>6, <3>2, RegionOperators DEF SameTables, Visible
    <3> SUFFICES ASSUME NEW t \in Regions, Unlocked(t)', IsKernel(t) \/ Running(OwnerOf(t))'
                 PROVE  Translation(t)' = IF state'[t] = "live" THEN page'[BlockOf(t)] ELSE 0
      BY Zenon DEF TranslationOK
    <3>4. CASE t = s
      BY Zenon, <3>4, <2>3, <2>6
    <3>5. CASE t # s
      <4>1. Translation(t)' = IF state[t] = "live" THEN page[BlockOf(t)] ELSE 0
        BY Zenon, <3>5, <1>1, <3>1, <3>3 DEF Good, TranslationOK
      <4> QED
        BY Zenon, <3>5, <2>3, <4>1
    <3> QED
      BY Zenon, <3>4, <3>5
  <2> QED
    BY Zenon, <2>3, <2>7, <2>8, <2>9, <2>10, <2>11, <2>12 DEF IInv, Good
<1> QED
  BY Zenon, <1>6, <1>7

\* The regions of a dead process go with their pages.
LEMMA FreeAllRegionsKeeps ==
    ASSUME IInv, defect = "none", NEW p \in Processes, free_all_virtual_regions(p)
    PROVE  IInv'
<1> PICK u : u = Private(p)
  BY Zenon
<1> PICK s : s = Surface(p)
  BY Zenon
<1> PICK c : c = Clone(p)
  BY Zenon
<1>1. Good /\ Types
  BY Zenon DEF IInv
<1>2. /\ pc[p].at = "regions" /\ pc' = [pc EXCEPT ![p] = [at |-> "space"]]
      /\ state' = [state EXCEPT ![u] = "none", ![c] = "none"]
      /\ UNCHANGED <<memory, main, owned, defect>>
  BY Zenon DEF free_all_virtual_regions
<1>3. /\ \A r \in {u, s, c} : r \in Regions /\ state[r] \in {"none", "live"}
      /\ \A q \in Processes : Works(q) \/ pc[q].at = "release" => pc[q].r \in Regions /\ pc[q].r \notin {u, s, c}
  BY Zenon, <1>1, <1>2, DeadRegions DEF Good
<1>4. /\ u # s /\ u # c /\ s # c /\ s \in Surfaces /\ u \in Unshared
      /\ BlockOf(u) = u /\ BlockOf(c) = s /\ ~IsShared(u) /\ IsShared(c)
  BY Zenon, RegionKinds, RegionOperators DEF Unshared
<1>5. state[s] = "none" /\ page[c] = 0 /\ references[s] = One(c) /\ (page[s] # 0 <=> references[s] # 0)
  BY <1>1, <1>2 DEF Good, RegionsOK, RegionsOf, BlockOK, One
<1>6. /\ free' = free \union ({page[r] : r \in {u, s}} \ {0})
      /\ page' = [r \in Regions |-> IF r \in {u, s} THEN 0 ELSE page[r]]
      /\ references' \in [Surfaces -> 0 .. 2] /\ references'[s] = 0
      /\ \A r \in Surfaces : r # s => references'[r] = references[r]
  <2>1. Dropped(u) = {page[u]} \ {0}
    BY Zenon, <1>4 DEF Dropped, IsLast
  <2>2. {page[r] : r \in {u, s}} = {page[u], page[s]}
    BY Zenon
  <2>3. CASE state[c] = "live"
    <3>1. /\ free' = free \union Dropped(u) \union Dropped(c)
          /\ page' = [PagesWithout(c) EXCEPT ![u] = 0]
          /\ references' = decref(c)
      BY Zenon, <2>3 DEF free_all_virtual_regions
    <3>2. references[s] = 1
      BY Zenon, <1>5, <2>3 DEF One
    <3>3. Dropped(c) = {page[s]} \ {0} /\ PagesWithout(c) = [page EXCEPT ![s] = 0]
      BY Zenon, <1>4, <3>2 DEF Dropped, IsLast, PagesWithout
    <3>4. references' = [references EXCEPT ![s] = @ - 1]
      BY Zenon, <1>4, <3>1 DEF decref
    <3>5. free' = free \union ({page[r] : r \in {u, s}} \ {0})
      BY Zenon, <2>1, <2>2, <3>1, <3>3
    <3>6. page' = [r \in Regions |-> IF r \in {u, s} THEN 0 ELSE page[r]]
      BY Zenon, <1>1, <1>3, <3>1, <3>3 DEF Types
    <3> QED
      BY <1>1, <1>4, <3>2, <3>4, <3>5, <3>6 DEF Types
  <2>4. CASE state[c] # "live"
    <3>1. /\ free' = free \union Dropped(u)
          /\ page' = [page EXCEPT ![u] = 0]
          /\ references' = references
      BY Zenon, <2>4 DEF free_all_virtual_regions
    <3>2. references[s] = 0 /\ page[s] = 0
      BY Zenon, <1>3, <1>5, <2>4 DEF One
    <3>3. free' = free \union ({page[r] : r \in {u, s}} \ {0})
      BY Zenon, <2>1, <2>2, <3>1, <3>2
    <3>4. page' = [r \in Regions |-> IF r \in {u, s} THEN 0 ELSE page[r]]
      BY Zenon, <1>1, <1>3, <3>1, <3>2 DEF Types
    <3> QED
      BY Zenon, <1>1, <3>1, <3>2, <3>3, <3>4 DEF Types
  <2> QED
    BY Zenon, <2>3, <2>4
<1>7. PagesOK' /\ free' \subseteq Pages /\ page' \in [Regions -> MaybePages]
  <2>1. {u, s} \in SUBSET Regions
    BY Zenon, <1>3
  <2> QED
    BY Zenon, <1>1, <1>2, <1>6, <2>1, PagesReturned DEF Good
<1>8. OnlyMoves(p) /\ pc'[p].at = "space" /\ pc' \in [Processes -> Places]
  BY Zenon, <1>1, <1>2 DEF Types, Places, OnlyMoves
<1>9. /\ state' \in [Regions -> {"none", "live", "released"}]
      /\ state'[u] = "none" /\ state'[c] = "none"
      /\ \A r \in Regions : r \notin {u, c} => state'[r] = state[r]
  BY Zenon, <1>1, <1>2, <1>3 DEF Types
<1>10. Types'
  BY Zenon, <1>1, <1>2, <1>6, <1>7, <1>8, <1>9 DEF Types
<1>11. Alive(p) /\ ~Locks(p) /\ ~Running(p)' /\ ~Works(p)'
  BY Zenon, <1>2, <1>8 DEF Alive, Locks, Running, Works
<1>12. SameTables(Processes, {}) /\ \A q \in Processes : owned[q] \subseteq owned'[q]
  BY Zenon, <1>2, TablesUnchanged
<1>13. KernelOK'
  BY Zenon, <1>1, <1>12, KernelKept DEF Good
<1>14. SpacesOK'
  BY Zenon, <1>1, <1>2, <1>8, <1>11, <1>12, SpacesKept DEF Good
<1>15. RegionsOK'
  <2>1. ASSUME NEW q \in Processes, q # p PROVE RegionsOf(q)'
    <3>1. /\ Surface(q) \in Surfaces /\ Surface(q) # s
          /\ \A r \in {Private(q), Surface(q), Clone(q)} : r \in Regions /\ r \notin {u, s, c}
      BY <2>1, RegionKinds, RegionOperators
    <3>2. /\ \A r \in {Private(q), Surface(q), Clone(q)} : state'[r] = state[r] /\ page'[r] = page[r]
          /\ references'[Surface(q)] = references[Surface(q)] /\ pc'[q] = pc[q]
      BY Zenon, <1>6, <1>8, <1>9, <2>1, <3>1 DEF OnlyMoves
    <3> QED
      BY Zenon, <1>1, <3>2 DEF Good, RegionsOK, RegionsOf, BlockOK, One
  <2>2. RegionsOf(p)'
    BY <1>3, <1>4, <1>5, <1>6, <1>8, <1>9 DEF RegionsOf, BlockOK, One
  <2>3. \A r \in Unshared : state'[r] = "none" => page'[r] = 0
    <3>1. \A r \in Unshared : r \in Regions /\ r # c
      BY Zenon, UnsharedRegions
    <3> QED
      BY Zenon, <1>1, <1>6, <1>9, <3>1 DEF Good, RegionsOK
  <2> QED
    BY Zenon, <2>1, <2>2, <2>3 DEF RegionsOK
<1>16. WorkOK'
  <2>1. \A q \in Processes : Works(q) \/ pc[q].at = "release" => state'[pc[q].r] = state[pc[q].r]
    BY Zenon, <1>3, <1>9
  <2>2. \A q \in Processes : Locks(q) => Works(q)
    BY Zenon DEF Locks, Works
  <2>3. \A r \in Regions : r \notin {u, s, c} => BlockOf(r) \notin {u, s} /\ BlockOf(r) \in Regions
    BY Zenon, RegionBlocks
  <2>4. \A q \in Processes : Locks(q) => page'[BlockOf(pc[q].r)] # 0
    BY Zenon, <1>1, <1>3, <1>6, <2>2, <2>3 DEF Good, WorkOK
  <2>5. \A r \in Regions : state'[r] = "released" => state[r] = "released"
    BY Zenon, <1>9
  <2> QED
    BY Zenon, <1>1, <1>2, <1>8, <1>11, <2>1, <2>4, <2>5, WorkLeft DEF Good
<1>17. TranslationOK'
  <2>1. \A t \in Regions : Unlocked(t)' => Unlocked(t)
    BY Zenon, <1>8, <1>11 DEF Unlocked, OnlyMoves, Locks
  <2>2. \A q \in Processes : Running(q)' => Running(q) /\ Alive(q) /\ q # p
    BY Zenon, <1>8, <1>11 DEF Running, OnlyMoves, Alive
  <2>3. \A t \in Regions : IsKernel(t) \/ Running(OwnerOf(t))' =>
            (IsKernel(t) \/ Running(OwnerOf(t))) /\ Translation(t)' = Translation(t)
    BY Zenon, <1>12, <2>2, RegionOperators DEF SameTables, Visible
  <2> SUFFICES ASSUME NEW t \in Regions, Unlocked(t)', IsKernel(t) \/ Running(OwnerOf(t))'
               PROVE  Translation(t)' = IF state'[t] = "live" THEN page'[BlockOf(t)] ELSE 0
    BY Zenon DEF TranslationOK
  <2>4. Translation(t)' = IF state[t] = "live" THEN page[BlockOf(t)] ELSE 0
    BY Zenon, <1>1, <2>1, <2>3 DEF Good, TranslationOK
  <2>5. t \notin {u, c}
    BY Zenon, <2>2, RegionBlocks
  <2>6. t # s => BlockOf(t) \notin {u, s} /\ BlockOf(t) \in Regions
    BY Zenon, <2>5, RegionBlocks
  <2> QED
    BY Zenon, <1>5, <1>6, <1>9, <2>4, <2>5, <2>6
<1> QED
  BY Zenon, <1>7, <1>10, <1>13, <1>14, <1>15, <1>16, <1>17 DEF IInv, Good

\* ~AddressSpace: the tables of a dead process go, but those it made for the kernel's half.
LEMMA FreeSpaceKeeps ==
    ASSUME IInv, defect = "none", NEW p \in Processes, free_address_space(p)
    PROVE  IInv'
<1>1. Good /\ Types
  BY Zenon DEF IInv
<1> PICK F : F = owned[p] \union {main[p]}
  BY Zenon
<1>2. /\ pc[p].at = "space" /\ free' = free \union F
      /\ defect' = IF owned[p] \intersect Linked # {} THEN "freed" ELSE "none"
      /\ owned' = [owned EXCEPT ![p] = {}] /\ main' = [main EXCEPT ![p] = 0]
      /\ pc' = [pc EXCEPT ![p] = [at |-> "gone"]]
      /\ memory' = [f \in DOMAIN memory |-> IF f \in F THEN NoTable ELSE memory[f]]
      /\ UNCHANGED <<state, page, references>>
  <2>1. free \union owned[p] \union {main[p]} = free \union F
    BY Zenon
  <2> QED
    BY Zenon, <2>1 DEF free_address_space
<1>3. Alive(p) /\ ~Locks(p)
  BY Zenon, <1>2 DEF Alive, Locks
<1>4. main[p] \in Pages /\ F \subseteq Pages
  BY Zenon, <1>1, <1>3 DEF Good, SpacesOK, SpaceOK, Types
<1>5. OnlyMoves(p) /\ pc'[p].at = "gone" /\ pc' \in [Processes -> Places]
  BY Zenon, <1>1, <1>2 DEF Types, Places, OnlyMoves
<1>6. ~Alive(p)' /\ ~Works(p)' /\ ~Running(p)' /\ ~Locks(p)'
  BY Zenon, <1>5 DEF Alive, Works, Running, Locks
<1>7. /\ memory' \in [Frames -> [Indices -> Entries]]
      /\ \A f \in Frames : f \notin F => memory'[f] = memory[f]
  <2>1. NoTable \in [Indices -> Entries]
    BY Zenon, PageFacts DEF NoTable
  <2> QED
    BY Zenon, <1>1, <1>2, <2>1 DEF Types
<1>8. /\ main'[p] = 0 /\ owned'[p] = {}
      /\ \A q \in Processes : q # p => main'[q] = main[q] /\ owned'[q] = owned[q]
  BY Zenon, <1>1, <1>2 DEF Types
<1>9. Types'
  <2>1. main' \in [Processes -> MaybePages] /\ owned' \in [Processes -> SUBSET Pages]
    BY Zenon, <1>1, <1>2, PageFacts DEF Types
  <2> QED
    BY Zenon, <1>1, <1>2, <1>4, <1>5, <1>7, <2>1 DEF Types
<1> SUFFICES ASSUME defect' = "none" PROVE Good'
  BY Zenon, <1>9 DEF IInv
<1>10. \A i \in Indices : KernelLeaf(i) # 0 => KernelLeaf(i) \notin F
  <2>1. owned[p] \intersect Linked = {}
    BY Zenon, <1>2
  <2>2. \A i \in Indices : KernelLeaf(i) # 0 => KernelLeaf(i) \notin owned[p]
    BY Zenon, <2>1 DEF Linked, KernelLeaf
  <2>3. \A i \in Indices : KernelLeaf(i) # 0 => KernelLeaf(i) # main[p]
    BY <1>1 DEF Good, KernelOK, PagesOK
  <2> QED
    BY Zenon, <2>2, <2>3
<1>11. \A q \in Processes \ {p} : main'[q] = main[q] /\ main[q] \notin F /\ owned[q] \intersect F = {}
  BY <1>1, <1>4, <1>8, PageFacts DEF Good, PagesOK
<1>12. KernelMain \notin F /\ KernelTable \notin F /\ Processes \ {p} \in SUBSET Processes
  BY Zenon, <1>4, PageFacts
<1>13. SameTables(Processes \ {p}, {})
  BY Zenon, <1>1, <1>7, <1>10, <1>11, <1>12, OffTables DEF Good
<1>14. KernelOK'
  <2>1. memory'[KernelMain] = memory[KernelMain] /\ \A i \in Indices : KernelLeaf(i)' = KernelLeaf(i)
    BY Zenon, <1>13 DEF SameTables
  <2>2. ASSUME NEW i \in Indices, KernelLeaf(i)' # 0 PROVE \E q \in Processes : KernelLeaf(i)' \in owned'[q]
    <3>1. PICK q \in Processes : KernelLeaf(i) \in owned[q]
      BY Zenon, <1>1, <2>1, <2>2 DEF Good, KernelOK
    <3> QED
      BY Zenon, <1>8, <1>10, <2>1, <2>2, <3>1
  <2>3. ASSUME NEW i \in Indices, NEW j \in Indices, KernelLeaf(i)' # 0, KernelLeaf(i)' = KernelLeaf(j)'
        PROVE  i = j
    <3>1. KernelLeaf(i)' = KernelLeaf(i) /\ KernelLeaf(j)' = KernelLeaf(j)
      BY Zenon, <2>1
    <3> QED
      BY Zenon, <1>1, <2>3, <3>1 DEF Good, KernelOK
  <2>4. memory'[KernelMain][KernelTop] = KernelTable
    BY Zenon, <1>1, <2>1 DEF Good, KernelOK
  <2> QED
    BY Zenon, <2>2, <2>3, <2>4 DEF KernelOK
<1>15. SpacesOK'
  <2>1. \A q \in Processes : q # p => SpaceOK(q)'
    BY Zenon, <1>1, <1>5, <1>8, <1>13, SpaceKept DEF Good, SpacesOK, OnlyMoves
  <2>2. SpaceOK(p)'
    BY Zenon, <1>5, <1>6, <1>8 DEF SpaceOK
  <2> QED
    BY Zenon, <2>1, <2>2 DEF SpacesOK
<1>16. PagesOK'
  <2>1. \A f \in Pages :
          \/ f \in free'
          \/ \E q \in Processes : main'[q] = f \/ f \in owned'[q]
          \/ \E r \in Regions : page'[r] = f
    <3> SUFFICES ASSUME NEW f \in Pages, f \notin free', ~\E r \in Regions : page'[r] = f
                 PROVE  \E q \in Processes : main'[q] = f \/ f \in owned'[q]
      BY Zenon
    <3>1. PICK q \in Processes : main[q] = f \/ f \in owned[q]
      BY Zenon, <1>1, <1>2 DEF Good, PagesOK
    <3>2. q # p
      BY Zenon, <1>2, <3>1
    <3> QED
      BY Zenon, <1>8, <3>1, <3>2
  <2>2. \A q \in Processes : main'[q] \notin free' /\ owned'[q] \intersect free' = {}
    <3>1. 0 \notin free'
      BY Zenon, <1>1, <1>2, <1>4, PageFacts DEF Types
    <3> QED
      BY <1>1, <1>2, <1>8, <1>11, <3>1 DEF Good, PagesOK
  <2>3. \A q, o \in Processes :
          /\ main'[q] \notin owned'[o]
          /\ q # o => (main'[q] # 0 => main'[q] # main'[o]) /\ owned'[q] \intersect owned'[o] = {}
    <3>1. \A o \in Processes : 0 \notin owned[o]
      BY Zenon, <1>1, PageFacts DEF Types
    <3> QED
      BY <1>1, <1>8, <3>1 DEF Good, PagesOK
  <2>4. \A q \in Processes, r \in Regions : page[r] \notin owned'[q] /\ (page[r] # 0 => page[r] # main'[q])
    BY <1>1, <1>8 DEF Good, PagesOK
  <2>5. \A r \in Regions : page[r] \notin free'
    BY Zenon, <1>1, <1>2, <1>4, PageFacts DEF Good, PagesOK
  <2> QED
    BY <1>1, <1>2, <2>1, <2>2, <2>3, <2>4, <2>5 DEF Good, PagesOK
<1>17. RegionsOK'
  BY Zenon, <1>1, <1>2, <1>5 DEF Good, RegionsOK, RegionsOf, BlockOK, One, OnlyMoves
<1>18. WorkOK'
  BY Zenon, <1>1, <1>2, <1>5, <1>6, WorkKept DEF Good
<1>19. TranslationOK'
  <2>1. \A r \in Regions : Unlocked(r)' => Unlocked(r)
    BY Zenon, <1>3, <1>5 DEF Unlocked, OnlyMoves, Locks
  <2>2. \A q \in Processes : Running(q)' => Running(q) /\ Alive(q) /\ q # p
    BY Zenon, <1>5, <1>6 DEF Running, OnlyMoves, Alive
  <2>3. \A r \in Regions : IsKernel(r) \/ Running(OwnerOf(r))' => Translation(r)' = Translation(r)
    BY Zenon, <1>13, <2>2, RegionOperators DEF SameTables, Visible
  <2> QED
    BY Zenon, <1>1, <1>2, <2>1, <2>2, <2>3, TranslationStays DEF Good
<1> QED
  BY Zenon, <1>14, <1>15, <1>16, <1>17, <1>18, <1>19 DEF Good

\* Every step keeps the invariant.
LEMMA NextIsGood == LowestExists /\ IInv /\ [Next]_vars => IInv'
<1> SUFFICES ASSUME LowestExists, IInv, [Next]_vars PROVE IInv'
  BY Zenon
<1>1. CASE Next
  <2>1. defect = "none"
    BY Zenon, <1>1 DEF Next
  <2>2. PICK p \in Processes :
           \/ create_address_space(p)
           \/ \E r \in KernelRegions : allocate_kernel_private(p, r)
           \/ \E r \in Regions : page_fault(p, r) \/ free_virtual_region(p, r)
           \/ allocate_kernel_shared(p) \/ allocate_user_shared(p)
           \/ handle_page_fault(p) \/ Map(p)
           \/ release_all_pages(p)
           \/ exit(p) \/ do_free_thread(p) \/ free_all_virtual_regions(p) \/ free_address_space(p)
    BY Zenon, <1>1 DEF Next
  <2> QED
    BY Zenon, <2>1, <2>2, CreateKeeps, AllocatePrivateKeeps, PageFaultKeeps, FreeRegionKeeps,
       AllocateSharedKeeps, AllocateCloneKeeps, HandlePageFaultKeeps, MapTopKeeps, MapMiddleKeeps,
       MapLinkKeeps, MapLeafKeeps, ReleaseKeeps, ExitKeeps, FreeThreadKeeps, FreeAllRegionsKeeps,
       FreeSpaceKeeps DEF Map
<1>2. CASE UNCHANGED vars
  BY Zenon, <1>2, StutterIsGood
<1> QED
  BY Zenon, <1>1, <1>2

\* The invariant says of a walk through the tables what TranslationExact does.
LEMMA GoodTranslates == IInv => TranslationExact
<1> SUFFICES ASSUME IInv, defect = "none", NEW r \in Regions, LockedBy(r) = {}, NEW top \in Tops(r)
             PROVE  Walk(top, r) = IF state[r] = "live" THEN page[BlockOf(r)] ELSE 0
  BY Zenon DEF TranslationExact
<1>1. Good
  BY Zenon DEF IInv
<1>2. Unlocked(r)
  BY Zenon DEF LockedBy, Uses, Unlocked, Locks
<1>3. /\ IsKernel(r) \/ (OwnerOf(r) \in Processes /\ Running(OwnerOf(r)))
      /\ memory[top][Top(r)] = IF IsKernel(r) THEN KernelTable ELSE UserTable(OwnerOf(r))
  <2>1. CASE top = KernelMain /\ IsKernel(r)
    BY Zenon, <1>1, <2>1, TopEntries DEF Good
  <2>2. CASE ~(top = KernelMain /\ IsKernel(r))
    <3>1. PICK q \in Processes : top = main[q] /\ Running(q) /\ (IsKernel(r) \/ OwnerOf(r) = q)
      BY Zenon, <2>2 DEF Tops
    <3>2. Alive(q)
      BY Zenon, <3>1 DEF Alive, Running
    <3> QED
      BY Zenon, <1>1, <3>1, <3>2, TopEntries DEF Good
  <2> QED
    BY Zenon, <2>1, <2>2
<1>4. Translation(r) = IF state[r] = "live" THEN page[BlockOf(r)] ELSE 0
  BY Zenon, <1>1, <1>2, <1>3 DEF Good, TranslationOK
<1>5. PICK table : table = memory[top][Top(r)]
  BY Zenon
<1>6. (IF table = 0 THEN 0 ELSE memory[table][Middle(r)]) = LeafTable(r)
  BY Zenon, <1>3, <1>5, MiddleEntries
<1>7. Walk(top, r) = Translation(r)
  BY Zenon, <1>5, <1>6 DEF Walk, Translation
<1> QED
  BY Zenon, <1>4, <1>7

\* And of the owners of a page what RegionsExact does.
LEMMA GoodOwners == IInv => RegionsExact
<1> SUFFICES ASSUME IInv, defect = "none", NEW f \in Pages
             PROVE  \E o \in Owners(f) : Owners(f) = {o}
  BY Zenon DEF RegionsExact
<1>1. PagesOK /\ f # 0
  BY Zenon, PageFacts DEF IInv, Good
<1>2. \A o : o \in Owners(f) <=>
          \/ o = <<"free", f>> /\ f \in free
          \/ \E p \in Processes : o = <<"main", p>> /\ main[p] = f
          \/ \E p \in Processes : o = <<"table", p>> /\ f \in owned[p]
          \/ \E r \in Regions : o = <<"region", r>> /\ page[r] = f
  BY DEF Owners
<1>3. \E o : o \in Owners(f)
  BY Zenon, <1>1, <1>2 DEF PagesOK
<1>4. ASSUME NEW o \in Owners(f), NEW w \in Owners(f) PROVE o = w
  <2>1. CASE f \in free
    BY <1>1, <1>2, <2>1 DEF PagesOK
  <2>2. CASE f \notin free /\ \E p \in Processes : main[p] = f
    <3>1. PICK p \in Processes : main[p] = f
      BY Zenon, <2>2
    <3>2. /\ \A q \in Processes : f \notin owned[q] /\ (main[q] = f => q = p)
          /\ \A r \in Regions : page[r] # f
      BY Zenon, <1>1, <3>1 DEF PagesOK
    <3> QED
      BY <1>2, <2>2, <3>2
  <2>3. CASE f \notin free /\ ~\E p \in Processes : main[p] = f
    <3>1. CASE \E p \in Processes : f \in owned[p]
      <4>1. PICK p \in Processes : f \in owned[p]
        BY Zenon, <3>1
      <4>2. /\ \A q \in Processes : f \in owned[q] => q = p
            /\ \A r \in Regions : page[r] # f
        BY <1>1, <4>1 DEF PagesOK
      <4> QED
        BY <1>2, <2>3, <4>2
    <3>2. CASE ~\E p \in Processes : f \in owned[p]
      <4>1. \A r, s \in Regions : page[r] = f /\ page[s] = f => r = s
        BY Zenon, <1>1 DEF PagesOK
      <4> QED
        BY <1>2, <2>3, <3>2, <4>1
    <3> QED
      BY Zenon, <3>1, <3>2
  <2> QED
    BY Zenon, <2>1, <2>2, <2>3
<1> QED
  BY Zenon, <1>3, <1>4

-----------------------------------------------------------------------------
(* The least of a set of pages, by well-founded induction. *)

INSTANCE WellFoundedInduction

\* Pages are numbers, so a set of them has a least one.
LEMMA PagesAreOrdered == LowestExists
<1> SUFFICES ASSUME NEW S \in SUBSET Pages, S # {} PROVE \E f \in S : \A g \in S : f <= g
  BY Zenon DEF LowestExists
<1>1. S \subseteq Nat
  BY PagesAssumption DEF Pages
<1>2. \E f \in S : \A g \in S : <<g, f>> \notin OpToRel(<, Nat)
  BY Zenon, <1>1, NatLessThanWellFounded, WFMin
<1>3. \A g, f \in Nat : <<g, f>> \notin OpToRel(<, Nat) => f <= g
  BY DEF OpToRel
<1> QED
  BY Zenon, <1>1, <1>2, <1>3

\* The invariant holds in every state.
LEMMA InvariantHolds == Spec => []IInv
  BY InitIsGood, NextIsGood, PagesAreOrdered, PTL DEF Spec

(***************************************************************************)
(* Until a defect shows, every live region that nobody is mapping           *)
(* translates to its page in every running space that can see it, and every  *)
(* other region translates to nothing: for any number of processes, buffers, *)
(* pages and indices, whichever kernel regions share a leaf table.           *)
(***************************************************************************)
THEOREM TranslationsExact == Spec => []TranslationExact
  BY InvariantHolds, GoodTranslates, PTL

(***************************************************************************)
(* Until a defect shows, no page is lost, and none is given out or returned  *)
(* twice, by faults, shared surfaces, releases and the end of processes.     *)
(***************************************************************************)
THEOREM PagesHaveOneOwner == Spec => []RegionsExact
  BY InvariantHolds, GoodOwners, PTL
==============================================================================
