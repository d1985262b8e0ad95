--------------------------- MODULE VirtualAllocator ---------------------------
(***************************************************************************)
(* VirtualAllocator: the ranges of an address space that are in use, kept as   *)
(* an ordered set of ranges that do not touch.  Every call holds m_lock.       *)
(*                                                                         *)
(* A range is <<begin, end>>.  Addresses are numbered from the first page of    *)
(* memory; the base range does not reach the end of the address space, so no    *)
(* sum wraps.                                                               *)
(***************************************************************************)
EXTENDS Integers, FiniteSets, FiniteSetsExt

CONSTANTS
    PageSize,
    BaseBegin, BaseEnd,     \* m_base_range
    Lengths, Alignments,    \* what callers ask for
    Ranges                  \* the ranges callers ask for

VARIABLES
    m_allocated_ranges,
    owned,      \* history: the ranges handed out and not returned
    failure     \* "none", "panic", or "overlap": a range that is in use was handed out

vars == <<m_allocated_ranges, owned, failure>>

begin(r) == r[1]
end(r) == r[2]
length(r) == end(r) - begin(r)
round_down(a) == a - (a % PageSize)
round_up(a) == IF a = 0 THEN PageSize ELSE round_down(a + PageSize - 1)
contains(r, a) == begin(r) <= a /\ a < end(r)
overlaps(r, s) == begin(r) < end(s) /\ begin(s) < end(r)

\* BasicRange::aligned_to: an empty range if nothing is left.
aligned_to(r, alignment) ==
    LET aligned_begin == ((begin(r) + alignment - 1) \div alignment) * alignment
    IN  IF aligned_begin >= end(r) THEN <<0, 0>> ELSE <<aligned_begin, end(r)>>

Init == m_allocated_ranges = {} /\ owned = {} /\ failure = "none"

Nothing == <<-1, -1>>
Before(a) == {r \in m_allocated_ranges : begin(r) < a}
\* The ordered set: the last range that begins before a, the first that does not.
LastBefore(a) == IF Before(a) = {} THEN Nothing
                 ELSE CHOOSE r \in Before(a) : \A s \in Before(a) : begin(s) <= begin(r)
lower_bound(a) ==
    LET rest == m_allocated_ranges \ Before(a)
    IN  IF rest = {} THEN Nothing ELSE CHOOSE r \in rest : \A s \in rest : begin(r) <= begin(s)

\* Mutant: a range that fills a gap is joined with the one before it only.
merge_one_side(before, after, new) ==
    LET joined == {r \in {before} : r # Nothing /\ end(r) = begin(new)}
        all == joined \cup {new}
    IN  m_allocated_ranges' = (m_allocated_ranges \ (joined \cup {s \in {after} : begin(s) = end(new)}))
                                 \cup {<<Min({begin(r) : r \in all}), Max({end(r) : r \in all})>>}

merge_and_emplace(before, after, new) ==
    LET joined == {r \in {before} : r # Nothing /\ end(r) = begin(new)}
                     \cup {r \in {after} : r # Nothing /\ begin(r) = end(new)}
        all == joined \cup {new}
    IN  m_allocated_ranges' = (m_allocated_ranges \ joined)
                                 \cup {<<Min({begin(r) : r \in all}), Max({end(r) : r \in all})>>}

Panic == failure' = "panic" /\ UNCHANGED <<m_allocated_ranges, owned>>

----------------------------------------------------------------------------

\* The gaps in order: before every allocated range, and behind the last one.
Gaps ==
    {<<IF LastBefore(begin(r)) = Nothing THEN BaseBegin ELSE end(LastBefore(begin(r))), begin(r)>>
        : r \in m_allocated_ranges}
        \cup {<<IF m_allocated_ranges = {} THEN BaseBegin ELSE end(LastBefore(BaseEnd)), BaseEnd>>}

allocate(len, align) ==
    LET alignment == IF align < PageSize THEN PageSize ELSE align
        rounded == round_up(len)
        fitting == {g \in Gaps : length(aligned_to(g, alignment)) >= rounded}
        gap == CHOOSE g \in fitting : \A h \in fitting : begin(g) <= begin(h)
        at == begin(aligned_to(gap, alignment))
        new == <<at, at + rounded>>
    IN  IF fitting = {} THEN Panic
        ELSE /\ merge_and_emplace(LastBefore(at), lower_bound(at), new)
             /\ owned' = owned \cup {new}
             /\ UNCHANGED failure

\* allocate(Range): the range after this one is only asked for the last address.
allocate_range(range) ==
    LET from == round_down(begin(range))
        new == <<from, from + round_up(length(range) + begin(range) - from)>>
        at == lower_bound(from)
        same == at # Nothing /\ begin(at) = from
        before == IF same THEN at ELSE LastBefore(from)
        after == IF same THEN lower_bound(from + 1) ELSE at
        refused == \/ after # Nothing /\ contains(after, end(new) - 1)
                   \/ before # Nothing /\ (begin(before) = from \/ contains(before, from))
    IN  IF refused THEN Panic
        ELSE /\ merge_and_emplace(before, after, new)
             /\ owned' = owned \cup {new}
             /\ failure' = IF \E r \in owned : overlaps(r, new) THEN "overlap" ELSE failure

deallocate(range) ==
    LET at == lower_bound(begin(range))
        it == IF at # Nothing /\ begin(at) = begin(range) THEN at ELSE LastBefore(begin(range))
    IN  IF it = Nothing \/ ~contains(it, begin(range)) \/ end(range) > end(it) THEN Panic
        ELSE /\ m_allocated_ranges' =
                    (m_allocated_ranges \ {it})
                       \cup {r \in {<<begin(it), begin(range)>>, <<end(range), end(it)>>} : begin(r) # end(r)}
             /\ owned' = owned \ {range}
             /\ UNCHANGED failure

is_allocated(a) ==
    LET at == lower_bound(a)
        it == IF at # Nothing /\ begin(at) = a THEN at ELSE LastBefore(a)
    IN  it # Nothing /\ contains(it, a)

Next ==
    /\ failure = "none"
    /\ \/ \E len \in Lengths, align \in Alignments : allocate(len, align)
       \/ \E r \in Ranges : allocate_range(r)
       \/ \E r \in owned : deallocate(r)

Spec == Init /\ [][Next]_vars

----------------------------------------------------------------------------

\* The types of the variables.
TypeOK ==
    /\ \A r \in m_allocated_ranges \cup owned :
          /\ begin(r) < end(r) /\ BaseBegin <= begin(r) /\ end(r) <= BaseEnd
          /\ begin(r) % PageSize = 0 /\ end(r) % PageSize = 0
    /\ failure \in {"none", "panic", "overlap"}

\* allocate never hands out an address twice, merging and splitting ranges loses and
\* invents nothing: what is in use is what callers own, every address is found again by
\* is_allocated, and ranges that touch have been joined.
RangesExact ==
    failure # "overlap" =>
        /\ \A a \in BaseBegin .. BaseEnd - 1 : is_allocated(a) <=> \E r \in owned : contains(r, a)
        /\ \A r, s \in owned : r # s => ~overlaps(r, s)
        /\ \A r, s \in m_allocated_ranges : r # s => end(r) < begin(s) \/ end(s) < begin(r)
==============================================================================
