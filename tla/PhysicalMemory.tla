---------------------------- MODULE PhysicalMemory ----------------------------
(***************************************************************************)
(* From the firmware's memory map to pages.  MemoryMap::generate_from copies,   *)
(* sorts and untangles the ranges, and BootAllocator takes the kernel image and *)
(* the first heap block out of them; one step of the model is one pass of the   *)
(* loop of correct_overlapping_ranges.  The MemoryManager makes regions of the  *)
(* free ranges, with PhysicalRegion's bitmap in each of them, and allocate_page *)
(* and free_page on top.  A region has a lock of its own; allocate_page asks    *)
(* one region after the other, so the regions may change behind it.         *)
(*                                                                         *)
(* A range is [b, e, t]: the addresses b .. e - 1 and their type, a number as   *)
(* in the code: the greater type wins where ranges overlap.                 *)
(***************************************************************************)
EXTENDS Integers, FiniteSets, Sequences, SequencesExt

CONSTANTS
    PageSize,
    RawMaps,            \* the E820 maps the firmware may report
    Reservations,       \* reserve_contiguous: [pages, lower, upper, tag], in the order of early_initialize
    CPUs,
    Lowest, Highest,    \* lowest_allowed_physical_address, highest_allowed_physical_address
    MinimumPages,       \* minimum_viable_range_length
    BitsPerUnit         \* of DynamicBitArray

VARIABLES
    raw,                    \* the map that was reported
    m_entries,
    position,               \* i of correct_overlapping_ranges, from one
    reserved,               \* history: the ranges BootAllocator has handed out
    phase,                  \* "copy", "correct", "reserve", "release", "running"
    failure,                \* "none", "panic", or "assert"
    m_physical_regions,     \* [begin, pages, taken: the set bits, m_next_hint, m_free_pages]
    m_free_physical_bytes,  \* in pages
    asking,                 \* every CPU: the region allocate_page asks, or 0
    held                    \* history: the pages handed out and not freed

map_vars == <<raw, m_entries, position, reserved, phase, failure>>
page_vars == <<m_physical_regions, m_free_physical_bytes, asking, held>>
vars == <<raw, m_entries, position, reserved, phase, failure,
          m_physical_regions, m_free_physical_bytes, asking, held>>

FREE == 1
RESERVED == 2
Nothing == [b |-> 0, e |-> 0, t |-> RESERVED]

length(r) == r.e - r.b
empty(r) == r.b = r.e
contains(r, a) == r.b <= a /\ a < r.e
overlaps(r, s) == ~empty(r) /\ ~empty(s) /\ (contains(r, s.b) \/ contains(s, r.b))
round_down(n) == n - (n % PageSize)
aligned_to(r) ==
    LET from == round_down(r.b + PageSize - 1)
    IN  IF from >= r.e THEN [b |-> 0, e |-> 0, t |-> r.t] ELSE [r EXCEPT !.b = from]

\* Only the whole pages of free memory are of use.
OnlyPages(r) ==
    LET a == aligned_to(r) IN IF r.t = FREE THEN [a EXCEPT !.e = a.b + round_down(length(a))] ELSE r
Usable(r) == ~empty(r) /\ (length(r) >= PageSize \/ r.t # FREE)

MapInit ==
    /\ raw \in RawMaps
    /\ m_entries = << >> /\ position = 0 /\ reserved = << >>
    /\ phase = "copy" /\ failure = "none"

Fail(how) == failure' = how /\ UNCHANGED <<raw, m_entries, position, reserved, phase>>

----------------------------------------------------------------------------

copy_aligned_from(map) == SelectSeq([i \in DOMAIN map |-> OnlyPages(map[i])], LAMBDA r : r.t # FREE \/ Usable(r))

\* insertion_sort is stable.
sort_by_address(s) ==
    LET order == SetToSortSeq(DOMAIN s, LAMBDA i, j : s[i].b < s[j].b \/ (s[i].b = s[j].b /\ i < j))
    IN  [k \in DOMAIN s |-> s[order[k]]]

generate_from ==
    LET sorted == sort_by_address(copy_aligned_from(raw))
    IN  /\ phase = "copy"
        /\ IF sorted = << >> THEN Fail("assert")
           ELSE /\ m_entries' = sorted /\ position' = 1 /\ phase' = "correct"
                /\ UNCHANGED <<raw, reserved, failure>>

\* Mutant: the range on the left wins whatever its type.
shatter_left(r, o) ==
    IF r.t = o.t THEN <<[r EXCEPT !.e = IF r.e > o.e THEN r.e ELSE o.e], Nothing, Nothing>>
    ELSE <<r, IF r.e <= o.e THEN [o EXCEPT !.b = r.e] ELSE Nothing, Nothing>>

\* What becomes of two ranges when the second begins inside the first.
shatter_against(r, o) ==
    CASE r.t = o.t -> <<[r EXCEPT !.e = IF r.e > o.e THEN r.e ELSE o.e], Nothing, Nothing>>
      [] r.t > o.t -> <<r, IF r.e <= o.e THEN [o EXCEPT !.b = r.e] ELSE Nothing, Nothing>>
      [] r.t < o.t -> <<[r EXCEPT !.e = o.b], o, IF o.e <= r.e THEN [r EXCEPT !.b = o.e] ELSE Nothing>>

\* entries with the ranges at from .. to replaced.
Replaced(from, to, ranges) == SubSeq(m_entries, 1, from - 1) \o ranges \o SubSeq(m_entries, to + 1, Len(m_entries))

\* One pass: two neighbours are joined, or untangled and the step taken back, or passed.
correct_overlapping_ranges ==
    LET i == position
        l == m_entries[i]
        r == m_entries[i + 1]
        mergeable == l.e = r.b /\ l.t = r.t
        pieces == shatter_against(l, r)
        valid == SelectSeq([j \in 1..3 |-> OnlyPages(pieces[j])], Usable)
    IN  /\ phase = "correct"
        /\ IF i >= Len(m_entries)
           THEN phase' = "reserve" /\ UNCHANGED <<raw, m_entries, position, reserved, failure>>
           ELSE IF ~mergeable /\ ~overlaps(l, r)
           THEN position' = i + 1 /\ UNCHANGED <<raw, m_entries, reserved, phase, failure>>
           ELSE IF mergeable
           THEN /\ m_entries' = Replaced(i, i + 1, <<[l EXCEPT !.e = r.e]>>)
                /\ UNCHANGED <<raw, position, reserved, phase, failure>>
           ELSE IF ~contains(l, r.b) THEN Fail("assert")
           ELSE IF valid = << >> THEN Fail("panic")
           ELSE /\ m_entries' = Replaced(i, i + 1, valid)
                /\ position' = IF i = 1 THEN 1 ELSE i - 1
                /\ UNCHANGED <<raw, reserved, phase, failure>>

----------------------------------------------------------------------------
(* BootAllocator.                                                            *)

lower_bound(a) ==
    LET from == {i \in DOMAIN m_entries : m_entries[i].b >= a}
    IN  IF from = {} THEN Len(m_entries) + 1 ELSE CHOOSE i \in from : \A j \in from : i <= j

\* The difference of two addresses is unsigned: a range that ends below the limit looks long.
is_bad_range(q, r) ==
    LET to == IF r.e < q.upper THEN r.e ELSE q.upper
        from == IF r.b > q.lower THEN r.b ELSE q.lower
    IN  r.t # FREE \/ (from <= to /\ to - from < q.pages * PageSize)

should_look_further(q, r) == r.e < q.upper /\ q.upper - r.e >= q.pages * PageSize

\* The first good range at or behind the lower limit; 0 if the search fails, and one
\* more than there are if it runs past the last.
picked_range(q) ==
    LET at == lower_bound(q.lower)
        first == IF at <= Len(m_entries) /\ m_entries[at].b = q.lower THEN at ELSE at - 1
        stops == {i \in first .. Len(m_entries) :
                     ~is_bad_range(q, m_entries[i]) \/ ~should_look_further(q, m_entries[i])}
        stop == CHOOSE i \in stops : \A j \in stops : i <= j
    IN  CASE first = 0 -> 0
          [] first # 0 /\ stops = {} -> Len(m_entries) + 1
          [] first # 0 /\ stops # {} -> IF is_bad_range(q, m_entries[stop]) THEN 0 ELSE stop

reserve_contiguous ==
    LET q == Reservations[Len(reserved) + 1]
        at == picked_range(q)
        picked == m_entries[at]
        from == IF q.lower > picked.b THEN q.lower ELSE picked.b
        range == [b |-> from, e |-> from + q.pages * PageSize, t |-> q.tag]
        valid == SelectSeq(shatter_against(picked, range), Usable)
    IN  /\ phase = "reserve" /\ Len(reserved) < Len(Reservations)
        /\ IF q.lower >= q.upper \/ q.lower + q.pages * PageSize > q.upper \/ at = 0 THEN Fail("panic")
           ELSE IF at > Len(m_entries) \/ ~contains(picked, from) THEN Fail("assert")
           ELSE /\ m_entries' = Replaced(at, at, valid)
                /\ position' = IF at = 1 THEN 1 ELSE at - 1
                /\ reserved' = Append(reserved, range)
                /\ phase' = "correct"
                /\ UNCHANGED <<raw, failure>>

release ==
    /\ phase = "reserve" /\ Len(reserved) = Len(Reservations)
    /\ phase' = "release"
    /\ UNCHANGED <<raw, m_entries, position, reserved, failure>>

MapNext == failure = "none" /\ (generate_from \/ correct_overlapping_ranges \/ reserve_contiguous \/ release)

----------------------------------------------------------------------------
(* Pages.                                                                   *)

\* BasicRange::constrained_by.
constrained_by(r) ==
    CASE r.b > Highest -> [r EXCEPT !.e = r.b]
      [] r.e < Lowest -> [r EXCEPT !.b = r.e]
      [] r.b <= Highest /\ r.e >= Lowest ->
            [r EXCEPT !.b = IF @ < Lowest THEN Lowest ELSE @, !.e = IF @ > Highest THEN Highest ELSE @]

NewRegion(r) ==
    [begin |-> r.b, pages |-> length(r) \div PageSize, taken |-> {}, m_next_hint |-> 0,
     m_free_pages |-> length(r) \div PageSize]

\* The constructor: from the range the lowest address lies in, every free range of use.
MemoryManager ==
    LET at == lower_bound(Lowest)
        first == IF at > Len(m_entries) \/ (at # 1 /\ m_entries[at].b # Lowest) THEN at - 1 ELSE at
        viable(r) == r.t = FREE /\ length(r) >= MinimumPages * PageSize /\ length(constrained_by(r)) >= PageSize
        ranges == SelectSeq(SubSeq(m_entries, first, Len(m_entries)), viable)
        regions == [i \in DOMAIN ranges |-> NewRegion(constrained_by(ranges[i]))]
    IN  /\ phase = "release"
        /\ m_physical_regions' = regions
        /\ m_free_physical_bytes' = FoldSeq(LAMBDA r, n : n + r.pages, 0, regions)
        /\ phase' = "running"
        /\ UNCHANGED <<raw, m_entries, position, reserved, failure, asking, held>>

\* Mutant: the search ends where the array does.
find_bit_behind(taken, size, hint) ==
    LET clear == {b \in 0 .. size - 1 : b \notin taken /\ b >= hint}
    IN  IF clear = {} THEN -1 ELSE CHOOSE b \in clear : \A d \in clear : b <= d

\* DynamicBitArray::find_bit(false, hint): from the unit of the hint to the end, then the units in front.
find_bit(taken, size, hint) ==
    LET start == (hint \div BitsPerUnit) * BitsPerUnit
        clear == {b \in 0 .. size - 1 : b \notin taken}
        behind == {b \in clear : b >= start}
        within == IF behind # {} THEN behind ELSE clear
    IN  IF clear = {} THEN -1 ELSE CHOOSE b \in within : \A d \in within : b <= d

\* MemoryManager::allocate_page, and PhysicalRegion::allocate_page of the region it asks.
allocate_page(c) ==
    /\ asking[c] = 0
    /\ asking' = [asking EXCEPT ![c] = 1]
    /\ UNCHANGED <<map_vars, m_physical_regions, m_free_physical_bytes, held>>

allocate_from_region(c) ==
    LET n == asking[c]
        r == m_physical_regions[n]
        bit == find_bit(r.taken, r.pages, r.m_next_hint)
    IN  /\ n # 0
        /\ IF n > Len(m_physical_regions) THEN Fail("panic") /\ UNCHANGED page_vars
           ELSE /\ IF r.m_free_pages = 0 \/ bit = -1
                   THEN asking' = [asking EXCEPT ![c] = n + 1] /\ UNCHANGED <<m_physical_regions, m_free_physical_bytes, held>>
                   ELSE /\ m_physical_regions' = [m_physical_regions EXCEPT ![n] =
                              [r EXCEPT !.taken = @ \cup {bit}, !.m_free_pages = @ - 1,
                                        !.m_next_hint = IF bit + 1 = r.pages THEN 0 ELSE bit + 1]]
                        /\ m_free_physical_bytes' = m_free_physical_bytes - 1
                        /\ held' = held \cup {r.begin + bit * PageSize}
                        /\ asking' = [asking EXCEPT ![c] = 0]
                /\ UNCHANGED map_vars

\* The last region that begins at or below the page, if it holds it; 0 if none.
physical_region_responsible_for_page(page) ==
    LET below == {i \in DOMAIN m_physical_regions : m_physical_regions[i].begin <= page}
        last == CHOOSE i \in below : \A j \in below : j <= i
        r == m_physical_regions[last]
    IN  IF below = {} THEN 0 ELSE IF page < r.begin + r.pages * PageSize THEN last ELSE 0

\* The panic for a page of no region is an assert here: both mean that the page was lost.
free_page(c, page) ==
    LET n == physical_region_responsible_for_page(page)
        r == m_physical_regions[n]
        bit == (page - r.begin) \div PageSize
    IN  /\ asking[c] = 0
        /\ IF n = 0 \/ bit \notin r.taken THEN Fail("assert") /\ UNCHANGED page_vars
           ELSE /\ m_physical_regions' = [m_physical_regions EXCEPT ![n].taken = @ \ {bit}, ![n].m_free_pages = @ + 1]
                /\ m_free_physical_bytes' = m_free_physical_bytes + 1
                /\ held' = held \ {page}
                /\ UNCHANGED <<map_vars, asking>>

Init ==
    /\ MapInit
    /\ m_physical_regions = << >> /\ m_free_physical_bytes = 0
    /\ asking = [c \in CPUs |-> 0] /\ held = {}

PagesNext ==
    /\ failure = "none" /\ phase = "running"
    /\ \E c \in CPUs : allocate_page(c) \/ allocate_from_region(c) \/ \E page \in held : free_page(c, page)

Next == (MapNext /\ UNCHANGED page_vars) \/ (failure = "none" /\ MemoryManager) \/ PagesNext

Spec == Init /\ [][Next]_vars

----------------------------------------------------------------------------

\* The types of the variables.
TypeOK ==
    /\ \A i \in DOMAIN m_entries : m_entries[i].b <= m_entries[i].e
    /\ phase \in {"copy", "correct", "reserve", "release", "running"}
    /\ failure \in {"none", "panic", "assert"}
    /\ Len(reserved) <= Len(Reservations)
    /\ \A i \in DOMAIN m_physical_regions : LET r == m_physical_regions[i] IN
          r.taken \subseteq 0 .. r.pages - 1 /\ r.m_next_hint \in 0 .. r.pages - 1
    /\ asking \in [CPUs -> 0 .. Len(m_physical_regions) + 1]

Corrected == phase \in {"reserve", "release", "running"}
Claims(a) == {i \in DOMAIN raw : contains(raw[i], a)}
\* At most two ranges of the firmware meet at an address.
Pairwise == \A i, j, k \in DOMAIN raw : Cardinality({i, j, k}) = 3 =>
               \A a \in raw[i].b .. raw[i].e - 1 : ~({i, j, k} \subseteq Claims(a))

\* "PhysicalRange entries are all unique and are sorted in ascending order" (MemoryMap.h:39),
\* once correct_overlapping_ranges is through.
EntriesSortedAndUnique ==
    Corrected => \A i \in 1 .. Len(m_entries) - 1 : m_entries[i].e <= m_entries[i + 1].b

\* Whatever ranges the firmware reports, as long as only two of them meet at a time: once
\* they are corrected, and again after every reservation, they are sorted, do not overlap,
\* and those that touch have been joined; an address is free only if the firmware said so
\* and nothing else claims it, where several ranges claim it the greatest type has won, and
\* no reserved address is forgotten.
MapExact ==
    LET claims(a) == {raw[i].t : i \in Claims(a)}
                        \cup {r.t : r \in {reserved[i] : i \in {j \in DOMAIN reserved : contains(reserved[j], a)}}}
        greatest(a) == CHOOSE t \in claims(a) : \A u \in claims(a) : u <= t
    IN  Pairwise /\ Corrected =>
          /\ \A i \in 1 .. Len(m_entries) - 1 : LET l == m_entries[i] r == m_entries[i + 1] IN
                l.e < r.b \/ (l.e = r.b /\ l.t # r.t)
          /\ \A i \in DOMAIN m_entries : \A a \in m_entries[i].b .. m_entries[i].e - 1 :
                claims(a) # {} /\ m_entries[i].t = greatest(a)
          /\ \A i \in DOMAIN raw : raw[i].t # FREE =>
                \A a \in raw[i].b .. raw[i].e - 1 : \E j \in DOMAIN m_entries : contains(m_entries[j], a)

\* A page that was handed out is memory the firmware reported as free, none of it claimed
\* by another of its ranges, by the kernel image or by the first heap block; no page has two
\* owners, freeing one always finds it again, a region refuses a page only when none is left,
\* and the counters say how many are.
PagesExact ==
    Pairwise =>
        /\ phase = "running" => failure # "assert"
        /\ \A p \in held : \A a \in p .. p + PageSize - 1 :
              /\ Claims(a) # {} /\ \A i \in Claims(a) : raw[i].t = FREE
              /\ \A i \in DOMAIN reserved : ~contains(reserved[i], a)
        /\ held = UNION {{m_physical_regions[i].begin + b * PageSize : b \in m_physical_regions[i].taken}
                            : i \in DOMAIN m_physical_regions}
        /\ \A i \in DOMAIN m_physical_regions : LET r == m_physical_regions[i] IN
              /\ r.m_free_pages = r.pages - Cardinality(r.taken)
              /\ find_bit(r.taken, r.pages, r.m_next_hint) = -1 => r.m_free_pages = 0
        /\ m_free_physical_bytes + Cardinality(held) = FoldSeq(LAMBDA r, n : n + r.pages, 0, m_physical_regions)
==============================================================================
