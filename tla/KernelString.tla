---------------------------- MODULE KernelString ----------------------------
(***************************************************************************)
(* Kernel/Common/String.h: class String. A short text lives inside the        *)
(* object (SmallString), a longer one in a buffer of the heap (BigString);    *)
(* the two share their memory, and bit 0 of the first byte tells them apart:  *)
(* the mode bit of a small string is the lowest bit of a big one's capacity.  *)
(*                                                                         *)
(* characters is the whole buffer, a cell past what was ever written being    *)
(* Raw; a copy of n cells out of a shorter buffer would be an error of the    *)
(* evaluation. `meant` is the text each string stands for.                   *)
(***************************************************************************)
EXTENDS Integers, Sequences

CONSTANTS
    Strings,
    Views,              \* the texts that are written
    Space,              \* the character that strip() removes
    SmallCapacity,      \* SmallString::capacity, an even number
    MaxLength

Nul == "nul"
Raw == "raw"

VARIABLES
    string,             \* per string: meta_bit, capacity (of a big string), size, characters
    meant

stringVars == <<string, meant>>

Larger(a, b) == IF a > b THEN a ELSE b

\* copy_memory() of the first n cells; cell 1 is characters[0].
Over(from, to, n) == [i \in DOMAIN to |-> IF i <= n THEN from[i] ELSE to[i]]
Terminated(s, n) == [s EXCEPT !.size = n, !.characters[n + 1] = Nul]

reset_small_string ==
    [meta_bit |-> 1, capacity |-> 0, size |-> 0, characters |-> [i \in 1 .. SmallCapacity + 1 |-> Nul]]

is_small(s) == s.meta_bit = 1
capacity(s) == IF is_small(s) THEN SmallCapacity ELSE s.capacity

Init ==
    /\ string = [s \in Strings |-> reset_small_string]
    /\ meant = [s \in Strings |-> << >>]

-----------------------------------------------------------------------------
\* Mutant: the capacity is not aligned up to two.
Aligned_not(n) == n

Aligned(n) == n + (n % 2)

Big(s, count) ==
    [meta_bit |-> count % 2, capacity |-> count, size |-> s.size,
     characters |-> Over(s.characters, [i \in 1 .. count + 1 |-> Raw], s.size + 1)]

\* A big string that grows gets a new buffer and keeps its old capacity.
reserve(s, count) ==
    LET wanted == Larger(Aligned(count), capacity(s) * 2)
    IN  IF capacity(s) >= Aligned(count) THEN s
        ELSE IF is_small(s) THEN Big(s, wanted)
        ELSE [s EXCEPT !.characters = Over(s.characters, [i \in 1 .. wanted + 1 |-> Raw], s.size + 1)]

\* write(): the characters of the view and a terminator after them.
write(s, view) ==
    LET roomy == reserve(s, s.size + Len(view))
        end == s.size + Len(view)
    IN  IF view = << >> THEN s
        ELSE Terminated([roomy EXCEPT !.characters =
                            [i \in DOMAIN @ |-> IF i \in s.size + 1 .. end THEN view[i - s.size] ELSE @[i]]], end)

clear(s) == IF is_small(s) THEN reset_small_string ELSE Terminated(s, 0)

\* operator=(const String&) and the copy constructor: size + 1 cells, the terminator with the rest.
Copied(s, other) ==
    IF other.size = 0 THEN clear(s)
    ELSE [reserve(s, other.size) EXCEPT !.characters = Over(other.characters, @, other.size + 1), !.size = other.size]

\* operator=(String&&): what becomes of this string and of the other one.
MovedInto(s, other) ==
    IF other.size = 0 THEN clear(s)
    ELSE IF is_small(other) /\ is_small(s) THEN other
    ELSE IF is_small(other)
    THEN [s EXCEPT !.characters = Over(other.characters, @, other.size + 1), !.size = other.size]
    ELSE other
MovedFrom(s, other) == IF other.size # 0 /\ ~is_small(other) THEN reset_small_string ELSE other

Text(s) == SubSeq(s.characters, 1, s.size)

\* The first and last position that strip() keeps, as its two loops find them.
FirstKept(s) == CHOOSE i \in 1 .. s.size : s.characters[i] # Space /\ \A k \in 1 .. i - 1 : s.characters[k] = Space
LastKept(s) == CHOOSE j \in 1 .. s.size : s.characters[j] # Space /\ \A k \in j + 1 .. s.size : s.characters[k] = Space
Blank(s) == \A i \in 1 .. s.size : s.characters[i] = Space

\* move_memory() carries everything from the first kept character on down to the beginning.
strip(s) ==
    LET first == FirstKept(s)
        moved == [i \in DOMAIN s.characters |->
                     IF i <= s.size - first + 1 THEN s.characters[i + first - 1] ELSE s.characters[i]]
    IN  IF s.size = 0 THEN s
        ELSE IF Blank(s) THEN clear(s)
        ELSE IF first = 1 /\ LastKept(s) = s.size THEN s
        ELSE Terminated([s EXCEPT !.characters = moved], LastKept(s) - first + 1)

rstrip(s) ==
    IF s.size = 0 THEN s
    ELSE IF Blank(s) THEN clear(s)
    ELSE IF LastKept(s) = s.size THEN s
    ELSE Terminated(s, LastKept(s))

pop_back(s) == Terminated(s, s.size - 1)

-----------------------------------------------------------------------------
\* The text without the spaces around it, or only after it.
Kept(text) == {i \in DOMAIN text : text[i] # Space}
Before(text) == IF Kept(text) = {} THEN 0 ELSE CHOOSE i \in Kept(text) : \A k \in Kept(text) : k <= i
After(text) == IF Kept(text) = {} THEN 1 ELSE CHOOSE i \in Kept(text) : \A k \in Kept(text) : k >= i

Becomes(s, state, text) ==
    /\ string' = [string EXCEPT ![s] = state]
    /\ meant' = [meant EXCEPT ![s] = text]

Write(s) ==
    \E view \in Views : /\ string[s].size + Len(view) <= MaxLength
                        /\ Becomes(s, write(string[s], view), meant[s] \o view)

\* operator=(const char*) and operator=(StringView).
AssignView(s) == \E view \in Views : Becomes(s, write(clear(string[s]), view), view)

Reserve(s) == \E n \in 1 .. MaxLength : Becomes(s, reserve(string[s], n), meant[s])
Clear(s) == Becomes(s, clear(string[s]), << >>)
Strip(s) == Becomes(s, strip(string[s]), SubSeq(meant[s], After(meant[s]), Before(meant[s])))
RStrip(s) == Becomes(s, rstrip(string[s]), SubSeq(meant[s], 1, Before(meant[s])))
PopBack(s) == string[s].size # 0 /\ Becomes(s, pop_back(string[s]), SubSeq(meant[s], 1, Len(meant[s]) - 1))

\* The destructor, and a new string in its place: built empty, or from a string by copy or by move.
Destroy(s) == Becomes(s, reset_small_string, << >>)
CopyAssign(s, o) == s # o /\ Becomes(s, Copied(string[s], string[o]), meant[o])

MoveAssign(s, o) ==
    /\ s # o
    /\ string' = [string EXCEPT ![s] = MovedInto(string[s], string[o]), ![o] = MovedFrom(string[s], string[o])]
    /\ meant' = [meant EXCEPT ![s] = meant[o], ![o] = IF is_small(string[o]) \/ meant[o] = << >> THEN @ ELSE << >>]

Next ==
    \/ \E s \in Strings : \/ Write(s) \/ AssignView(s) \/ Reserve(s) \/ Clear(s) \/ Strip(s) \/ RStrip(s)
                          \/ PopBack(s) \/ Destroy(s)
    \/ \E s, o \in Strings : CopyAssign(s, o) \/ MoveAssign(s, o)

-----------------------------------------------------------------------------
TypeOK ==
    \A s \in Strings :
        /\ string[s].meta_bit \in 0 .. 1
        /\ string[s].capacity \in Nat
        /\ string[s].size \in 0 .. MaxLength

\* Through every change of representation a string holds the text it should, terminated where its
\* C string is read; its buffer is as large as its capacity says, and a string is small, by its mode
\* bit, exactly when it has no buffer of its own.
StringsExact ==
    \A s \in Strings :
        /\ Text(string[s]) = meant[s]
        /\ string[s].characters[string[s].size + 1] = Nul
        /\ Len(string[s].characters) > capacity(string[s])
        /\ is_small(string[s]) <=> string[s].capacity = 0
=============================================================================
