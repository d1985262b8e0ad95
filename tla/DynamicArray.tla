---------------------------- MODULE DynamicArray ----------------------------
(***************************************************************************)
(* Kernel/Common/DynamicArray.h: elements built in place in a raw buffer.     *)
(*                                                                         *)
(* A cell of a buffer is Raw until an element is constructed in it and after  *)
(* the element's destructor ran. The size and the capacity are the code's;    *)
(* `meant` is the sequence each array stands for.                            *)
(***************************************************************************)
EXTENDS Integers, Sequences, SequencesExt

CONSTANTS Arrays, Values, Default, Raw, MaxSize

VARIABLES
    array,          \* per array: m_data (its cells), m_size
    meant,
    miscopied       \* a copy into an existing buffer went wrong: nothing is asked of the arrays from here on

arrayVars == <<array, meant, miscopied>>

Nothing == << >>

\* A new buffer is an array of raw cells; m_capacity is its length.
Buffer(count) == [i \in 1 .. count |-> Raw]
capacity(a) == Len(a.m_data)

Init ==
    /\ array = [a \in Arrays |-> [m_data |-> Nothing, m_size |-> 0]]
    /\ meant = [a \in Arrays |-> Nothing]
    /\ miscopied = FALSE

-----------------------------------------------------------------------------
\* The elements move to the new buffer, and the old ones are destroyed with the old one.
reserve(a, count) ==
    IF count <= capacity(a) THEN a
    ELSE [a EXCEPT !.m_data = [i \in 1 .. count |-> IF i <= a.m_size THEN @[i] ELSE Raw]]

ensure_space(a) ==
    IF a.m_size # capacity(a) THEN a
    ELSE reserve(a, capacity(a) + (IF capacity(a) \div 2 > 2 THEN capacity(a) \div 2 ELSE 2))

emplace(a, value) ==
    LET roomy == ensure_space(a)
    IN  [m_data |-> [roomy.m_data EXCEPT ![a.m_size + 1] = value], m_size |-> a.m_size + 1]

expand_to(a, count) ==
    IF count <= a.m_size THEN a
    ELSE [m_data |-> [i \in DOMAIN reserve(a, count).m_data |->
                         IF i \in a.m_size + 1 .. count THEN Default ELSE reserve(a, count).m_data[i]],
          m_size |-> count]

clear(a) ==
    [m_data |-> [i \in DOMAIN a.m_data |-> IF i <= a.m_size THEN Raw ELSE a.m_data[i]], m_size |-> 0]

\* Mutant: the element that the last one moved out of is never destroyed.
erase_leaves_last(a, i) ==
    [m_data |-> [j \in DOMAIN a.m_data |-> IF j \in i .. a.m_size - 1 THEN a.m_data[j + 1] ELSE a.m_data[j]],
     m_size |-> a.m_size - 1]

\* Every later element moves one index down; the last cell, moved out of, is destroyed.
erase_at_unchecked(a, i) ==
    [m_data |-> [j \in DOMAIN a.m_data |->
                    IF j \in i .. a.m_size - 1 THEN a.m_data[j + 1] ELSE IF j = a.m_size THEN Raw ELSE a.m_data[j]],
     m_size |-> a.m_size - 1]

\* The copy constructor, and the path of operator= that needs a new buffer after clear().
CopiedIntoNew(a, other) ==
    [m_data |-> [i \in DOMAIN reserve(clear(a), other.m_size).m_data |->
                    IF i <= other.m_size THEN other.m_data[i] ELSE Raw],
     m_size |-> other.m_size]

\* operator=(const DynamicArray&) in the buffer there is: one index runs through three loops, the second
\* up to the NUMBER of elements to construct and the third up to the number to destroy.
CopiedInPlace(a, other) ==
    LET replaced == IF a.m_size < other.m_size THEN a.m_size ELSE other.m_size
        toConstruct == other.m_size - replaced
        constructed == IF replaced < toConstruct THEN toConstruct ELSE replaced
        toDestroy == IF other.m_size < a.m_size THEN a.m_size - other.m_size ELSE 0
    IN  [m_data |-> [i \in DOMAIN a.m_data |->
                        IF i <= constructed THEN other.m_data[i]
                        ELSE IF i <= toDestroy THEN Raw
                        ELSE a.m_data[i]],
         m_size |-> other.m_size]

Assigned(a, other) ==
    IF other.m_size = 0 THEN clear(a)
    ELSE IF capacity(a) < other.m_size THEN CopiedIntoNew(a, other)
    ELSE CopiedInPlace(a, other)

-----------------------------------------------------------------------------
\* The array and what it stands for; nothing constructed is left in the cells past the size.
Exact(a, contents) ==
    /\ SubSeq(a.m_data, 1, a.m_size) = contents
    /\ \A i \in a.m_size + 1 .. capacity(a) : a.m_data[i] = Raw

Becomes(a, state, contents) ==
    /\ array' = [array EXCEPT ![a] = state]
    /\ meant' = [meant EXCEPT ![a] = contents]
    /\ UNCHANGED miscopied

Append1(a) ==
    /\ array[a].m_size < MaxSize
    /\ \E v \in Values : Becomes(a, emplace(array[a], v), Append(meant[a], v))

Reserve(a) == \E n \in 0 .. MaxSize : Becomes(a, reserve(array[a], n), meant[a])

ExpandTo(a) ==
    \E n \in 0 .. MaxSize :
        Becomes(a, expand_to(array[a], n),
                meant[a] \o [i \in 1 .. (IF n > Len(meant[a]) THEN n - Len(meant[a]) ELSE 0) |-> Default])

EraseAt(a) == \E i \in 1 .. array[a].m_size : Becomes(a, erase_at_unchecked(array[a], i), RemoveAt(meant[a], i))

Clear(a) == Becomes(a, clear(array[a]), Nothing)

CopyAssign(a, b) ==
    /\ a # b
    /\ array' = [array EXCEPT ![a] = Assigned(array[a], array[b])]
    /\ meant' = [meant EXCEPT ![a] = meant[b]]
    /\ miscopied' = /\ array[b].m_size \in 1 .. capacity(array[a])
                    /\ ~Exact(CopiedInPlace(array[a], array[b]), meant[b])

\* operator=(DynamicArray&&) and the move constructor swap the buffers.
MoveAssign(a, b) ==
    /\ a # b
    /\ array' = [array EXCEPT ![a] = array[b], ![b] = array[a]]
    /\ meant' = [meant EXCEPT ![a] = meant[b], ![b] = meant[a]]
    /\ UNCHANGED miscopied

\* The destructor, and a new array in its place.
Destroy(a) == Becomes(a, [m_data |-> Nothing, m_size |-> 0], Nothing)

Next ==
    /\ ~miscopied
    /\ \/ \E a \in Arrays : \/ Append1(a) \/ Reserve(a) \/ ExpandTo(a) \/ EraseAt(a) \/ Clear(a) \/ Destroy(a)
       \/ \E a, b \in Arrays : CopyAssign(a, b) \/ MoveAssign(a, b)

-----------------------------------------------------------------------------
TypeOK ==
    /\ \A a \in Arrays : /\ array[a].m_data \in Seq(Values \union {Default, Raw})
                         /\ array[a].m_size \in 0 .. capacity(array[a])
    /\ meant \in [Arrays -> Seq(Values \union {Default})]

\* Every operation but the copy into an existing buffer leaves, below the size, exactly the elements it
\* should, and above it none that was constructed and never destroyed.
ArraysExact == miscopied \/ \A a \in Arrays : Exact(array[a], meant[a])

\* A copy has the elements of its source: what the test of copying asserts of a copy into an empty array.
CopiesExact == \A a \in Arrays : SubSeq(array[a].m_data, 1, array[a].m_size) = meant[a]
=============================================================================
