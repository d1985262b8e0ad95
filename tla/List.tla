--------------------------------- MODULE List ---------------------------------
(***************************************************************************)
(* Kernel/Common/List.h: circular doubly linked lists.  The list that owns    *)
(* its nodes and the list of standalone nodes link them in the same way; the  *)
(* second also tells every node the list it is on (m_my_list).               *)
(* The end of list l, its m_end, is called l.                                *)
(***************************************************************************)
EXTENDS Integers, Sequences, SequencesExt

CONSTANTS Lists, ListNodes   \* disjoint sets of strings without "null"

VARIABLES
    next, previous,     \* the links of the nodes and of the ends
    m_size, m_my_list,
    contents            \* history: what the calls so far have put on every list

vars == <<next, previous, m_size, m_my_list, contents>>

Anchors == ListNodes \cup Lists
On(l) == {n \in ListNodes : m_my_list[n] = l}

Init ==
    /\ next = [a \in Anchors |-> IF a \in Lists THEN a ELSE "null"]
    /\ previous = next
    /\ m_size = [l \in Lists |-> 0]
    /\ m_my_list = [n \in ListNodes |-> "null"]
    /\ contents = [l \in Lists |-> <<>>]

\* n is linked between its neighbours and enters l.
Linked(l, before, n, after) ==
    /\ next' = [next EXCEPT ![before] = n, ![n] = after]
    /\ previous' = [previous EXCEPT ![n] = before, ![after] = n]
    /\ m_my_list' = [m_my_list EXCEPT ![n] = l]
    /\ m_size' = [m_size EXCEPT ![l] = @ + 1]

insert_back(l, n) ==
    /\ m_my_list[n] = "null"
    /\ Linked(l, previous[l], n, l)
    /\ contents' = [contents EXCEPT ![l] = Append(@, n)]

insert_front(l, n) ==
    /\ m_my_list[n] = "null"
    /\ Linked(l, l, n, next[l])
    /\ contents' = [contents EXCEPT ![l] = <<n>> \o @]

\* pop, pop_off, erase; pop_front and pop_back for the nodes at the ends.
pop(n) ==
    /\ m_my_list[n] # "null"
    /\ next' = [next EXCEPT ![previous[n]] = next[n], ![n] = "null"]
    /\ previous' = [previous EXCEPT ![next[n]] = previous[n], ![n] = "null"]
    /\ m_size' = [m_size EXCEPT ![m_my_list[n]] = @ - 1]
    /\ m_my_list' = [m_my_list EXCEPT ![n] = "null"]
    /\ contents' = [contents EXCEPT ![m_my_list[n]] = Remove(@, n)]

\* Mutant: the sizes stay.
Resized_not(l, source) == m_size

Resized(l, source) == [m_size EXCEPT ![source] = @ - 1, ![l] = @ + 1]

\* n of list source goes in front of destination, a node or the end of l.
splice(l, destination, source, n) ==
    /\ m_my_list[n] = source /\ destination \in On(l) \cup {l}
    /\ IF l = source /\ (destination = n \/ next[n] = destination)
       THEN UNCHANGED vars
       ELSE LET prev == previous[n]
                after == next[n]
                closed == [previous EXCEPT ![after] = prev]
                before == closed[destination]
                others == Remove(contents[l], n)
                place == IF destination = l THEN Len(others) + 1
                         ELSE CHOOSE i \in DOMAIN others : others[i] = destination
            IN  /\ next' = [[next EXCEPT ![prev] = after] EXCEPT ![n] = destination, ![before] = n]
                /\ previous' = [closed EXCEPT ![n] = before, ![destination] = n]
                /\ m_size' = IF l = source THEN m_size ELSE Resized(l, source)
                /\ m_my_list' = [m_my_list EXCEPT ![n] = l]
                /\ contents' = [[contents EXCEPT ![source] = Remove(@, n)] EXCEPT
                                    ![l] = InsertAt(others, place, n)]

\* The nodes keep their links.
clear(l) ==
    /\ next' = [next EXCEPT ![l] = l] /\ previous' = [previous EXCEPT ![l] = l]
    /\ m_my_list' = [n \in ListNodes |-> IF n \in On(l) THEN "null" ELSE m_my_list[n]]
    /\ m_size' = [m_size EXCEPT ![l] = 0]
    /\ contents' = [contents EXCEPT ![l] = <<>>]

\* operator=(List&&): clear, then become the other one.
move_assign(l, other) ==
    /\ l # other
    /\ IF m_size[other] = 0 THEN clear(l)
       ELSE /\ next' = [next EXCEPT ![l] = next[other], ![other] = other, ![previous[other]] = l]
            /\ previous' = [previous EXCEPT ![l] = previous[other], ![other] = other,
                                            ![next[other]] = l]
            /\ m_my_list' = [n \in ListNodes |-> CASE n \in On(l) -> "null"
                                                   [] n \in On(other) -> l
                                                   [] OTHER -> m_my_list[n]]
            /\ m_size' = [m_size EXCEPT ![l] = m_size[other], ![other] = 0]
            /\ contents' = [contents EXCEPT ![l] = contents[other], ![other] = <<>>]

Next ==
    \/ \E l \in Lists, n \in ListNodes : insert_back(l, n) \/ insert_front(l, n)
    \/ \E n \in ListNodes : pop(n)
    \/ \E l, source \in Lists : \E n \in On(source) : \E destination \in Anchors :
          splice(l, destination, source, n)
    \/ \E l \in Lists : clear(l) \/ \E other \in Lists : move_assign(l, other)

Spec == Init /\ [][Next]_vars

----------------------------------------------------------------------------
(* Properties.                                                              *)

\* The links lead to nodes, to ends or nowhere.
TypeOK ==
    /\ next \in [Anchors -> Anchors \cup {"null"}] /\ previous \in [Anchors -> Anchors \cup {"null"}]
    /\ m_size \in [Lists -> 0..Len(SetToSeq(ListNodes))]
    /\ m_my_list \in [ListNodes -> Lists \cup {"null"}]
    /\ \A l \in Lists : contents[l] \in Seq(ListNodes)

\* The nodes that count steps along the links lead to from the end of l.
Walk(l, links, count) ==
    LET nth[i \in 0..count] == IF i = 0 THEN l ELSE links[nth[i - 1]]
    IN  [i \in 1..count |-> nth[i]]

\* However nodes are inserted, popped, spliced within a list or between lists and lists
\* moved into one another: following the links in either direction from the end visits
\* what was put on the list and comes back to the end, m_size counts it, and m_my_list,
\* which pop_off trusts, names the list of a node.
ListsExact ==
    \A l \in Lists :
        LET count == Len(contents[l])
        IN  /\ Walk(l, next, count + 1) = Append(contents[l], l)
            /\ Walk(l, previous, count + 1) = Append(Reverse(contents[l]), l)
            /\ m_size[l] = count
            /\ On(l) = ToSet(contents[l])
==============================================================================
