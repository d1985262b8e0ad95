----------------------------- MODULE RedBlackTree -----------------------------
(***************************************************************************)
(* Kernel/Common/RedBlackTree.h, under Set, MultiSet and Map: nodes with      *)
(* parent and child pointers, and a super root which is end(), the parent of  *)
(* the root, and remembers the left-most and the right-most node.             *)
(*                                                                         *)
(* A node is a key and a copy number; a node that is not allocated has no     *)
(* parent.  emplace reads the values of the two ends: where one of them has    *)
(* been freed the model records the defect and stops.                         *)
(***************************************************************************)
EXTENDS Integers, Sequences, FiniteSets, FiniteSetsExt

CONSTANTS
    Keys,                   \* naturals
    Copies, DuplicateKeys   \* how many equal values a MultiSet may have, and its keys

VARIABLES
    tree,       \* root, size, the pointers of the nodes, and the set of the red ones
    allow_duplicates,
    freedEnd    \* emplace has read a value of a freed node

vars == <<tree, allow_duplicates, freedEnd>>

Nil == <<>>
SuperRoot == <<0>>
Nodes == (Keys \X {1}) \cup (DuplicateKeys \X (1..Copies))
key(n) == n[1]
Live(t) == {n \in Nodes : t.parent[n] # Nil}

EmptyTree ==
    LET nil == [n \in Nodes \cup {SuperRoot} |-> Nil]
    IN  [root |-> Nil, size |-> 0, parent |-> nil, left |-> nil, right |-> nil, red |-> {}]

Init == tree = EmptyTree /\ allow_duplicates \in BOOLEAN /\ freedEnd = FALSE

----------------------------------------------------------------------------
(* Node.                                                                    *)

is_left_child(t, n) == t.parent[n] \in {Nil, SuperRoot} \/ t.left[t.parent[n]] = n
sibling(t, n) == IF is_left_child(t, n) THEN t.right[t.parent[n]] ELSE t.left[t.parent[n]]
grandparent(t, n) == IF t.parent[n] \in {Nil, SuperRoot} THEN Nil ELSE t.parent[t.parent[n]]
aunt(t, n) ==
    IF grandparent(t, n) = Nil THEN Nil
    ELSE IF is_left_child(t, t.parent[n]) THEN t.right[grandparent(t, n)]
    ELSE t.left[grandparent(t, n)]

Colored(t, reds, blacks) == [t EXCEPT !.red = (@ \cup reds) \ blacks]

\* Mutant: the inner child keeps its parent.
Rotated_inner_lost(t, n, d, o) ==
    LET up == t.parent[n]
        pivot == t[o][n]
        side == IF is_left_child(t, n) THEN "left" ELSE "right"
        turned == [t EXCEPT ![o][n] = t[d][pivot], ![d][pivot] = n,
                            !.parent[pivot] = up, !.parent[n] = pivot]
    IN  IF up = SuperRoot THEN [turned EXCEPT !.root = pivot]
        ELSE [turned EXCEPT ![side][up] = pivot]

\* n goes down on side d and the child on the other side, o, takes its place.
Rotated(t, n, d, o) ==
    LET up == t.parent[n]
        pivot == t[o][n]
        inner == t[d][pivot]
        side == IF is_left_child(t, n) THEN "left" ELSE "right"
        turned == [t EXCEPT ![o][n] = inner, ![d][pivot] = n,
                            !.parent = [m \in DOMAIN @ |-> CASE m = pivot -> up
                                                             [] m = n -> pivot
                                                             [] m = inner -> n
                                                             [] OTHER -> @[m]]]
    IN  IF up = SuperRoot THEN [turned EXCEPT !.root = pivot]
        ELSE [turned EXCEPT ![side][up] = pivot]

rotate_left(t, n) == Rotated(t, n, "left", "right")
rotate_right(t, n) == Rotated(t, n, "right", "left")

----------------------------------------------------------------------------
(* Searching.                                                               *)

RECURSIVE Extreme(_, _, _)
Extreme(t, n, side) == IF t[side][n] = Nil THEN n ELSE Extreme(t, t[side][n], side)

\* Up from n until n is not the child on the given side of its parent.
RECURSIVE Ascended(_, _, _)
Ascended(t, n, fromRight) ==
    LET up == t.parent[n]
    IN  IF up # SuperRoot /\ is_left_child(t, n) = ~fromRight THEN Ascended(t, up, fromRight) ELSE up

inorder_successor_of(t, n) ==
    IF t.right[n] # Nil THEN Extreme(t, t.right[n], "left") ELSE Ascended(t, n, TRUE)
inorder_predecessor_of(t, n) ==
    IF t.left[n] # Nil THEN Extreme(t, t.left[n], "right") ELSE Ascended(t, n, FALSE)

RECURSIVE FindFrom(_, _, _)
FindFrom(t, n, k) ==
    IF n = Nil THEN SuperRoot
    ELSE IF key(n) < k THEN FindFrom(t, t.right[n], k)
    ELSE IF k < key(n) THEN FindFrom(t, t.left[n], k)
    ELSE n
find_node(t, k) == FindFrom(t, t.root, k)

\* The last node on the way down that the key belongs to the left of.
RECURSIVE BoundFrom(_, _, _, _, _)
BoundFrom(t, n, k, passEqual, result) ==
    IF n = Nil THEN result
    ELSE IF key(n) < k \/ (passEqual /\ key(n) = k) THEN BoundFrom(t, t.right[n], k, passEqual, result)
    ELSE BoundFrom(t, t.left[n], k, passEqual, n)
lower_bound_node(t, k) == BoundFrom(t, t.root, k, FALSE, SuperRoot)
upper_bound_node(t, k) == BoundFrom(t, t.root, k, TRUE, SuperRoot)

----------------------------------------------------------------------------
(* emplace.                                                                 *)

RECURSIVE fix_insertion_violations(_, _)
fix_insertion_violations(t, n) ==
    IF n \in {SuperRoot, t.root} \/ t.parent[n] \notin t.red \/ n \notin t.red THEN t
    ELSE LET above == grandparent(t, n)
             parentLeft == is_left_child(t, t.parent[n])
             straight == parentLeft = is_left_child(t, n)
             \* A bent path is first straightened; the former parent is then the lower node.
             straightened == CASE straight -> t
                               [] ~straight /\ parentLeft -> rotate_left(t, t.parent[n])
                               [] ~straight /\ ~parentLeft -> rotate_right(t, t.parent[n])
             lower == IF straight THEN n ELSE t.parent[n]
             colored == Colored(straightened, {above, lower}, {straightened.parent[lower]})
         IN  IF aunt(t, n) \in t.red
             THEN fix_insertion_violations(
                     Colored(t, IF above = t.root THEN {} ELSE {above}, {t.left[above], t.right[above]}),
                     above)
             ELSE fix_insertion_violations(
                     IF parentLeft THEN rotate_right(colored, above) ELSE rotate_left(colored, above),
                     above)

\* Where the walk from m down ends: equal values go to the left.
RECURSIVE Attached(_, _, _)
Attached(t, m, n) ==
    LET side == IF key(m) < key(n) THEN "right" ELSE "left"
    IN  IF t[side][m] # Nil THEN Attached(t, t[side][m], n)
        ELSE [t EXCEPT ![side][m] = n, !.parent[n] = m, !.red = @ \cup {n}]

\* The ends of t when n is added.
WithEnds(t, n) ==
    LET first == t.left[SuperRoot]
        last == t.right[SuperRoot]
        smaller == first = Nil \/ key(n) < key(first)
        greater == last = Nil \/ key(last) < key(n)
    IN  [t EXCEPT
            !.left[SuperRoot] = IF smaller \/ (~greater /\ ~(key(first) < key(n))) THEN n ELSE first,
            !.right[SuperRoot] = IF greater \/ (~smaller /\ ~(key(n) < key(last))) THEN n ELSE last]

Emplaced(t, n) ==
    LET ended == WithEnds(t, n)
    IN  IF t.root = Nil
        THEN [ended EXCEPT !.root = n, !.parent[n] = SuperRoot, !.size = 1]
        ELSE [fix_insertion_violations(Attached(ended, t.root, n), n) EXCEPT !.size = @ + 1]

emplace(k) ==
    /\ UNCHANGED allow_duplicates
    /\ \/ ~allow_duplicates /\ find_node(tree, k) # SuperRoot /\ UNCHANGED <<tree, freedEnd>>
       \/ /\ allow_duplicates \/ find_node(tree, k) = SuperRoot
          /\ {tree.left[SuperRoot], tree.right[SuperRoot]} \subseteq Live(tree) \cup {Nil}
          /\ \E c \in 1..Copies :
                /\ <<k, c>> \in Nodes \ Live(tree)
                /\ \A d \in 1..c - 1 : <<k, d>> \in Live(tree)
                /\ tree' = Emplaced(tree, <<k, c>>)
          /\ UNCHANGED freedEnd
       \/ /\ allow_duplicates
          /\ ~({tree.left[SuperRoot], tree.right[SuperRoot]} \subseteq Live(tree) \cup {Nil})
          /\ freedEnd' = TRUE /\ UNCHANGED tree

----------------------------------------------------------------------------
(* remove.                                                                  *)

RECURSIVE fix_double_black(_, _)
fix_double_black(t, n) ==
    LET up == t.parent[n]
        s == sibling(t, n)
        onLeft == is_left_child(t, n)
        near == IF s = Nil THEN Nil ELSE IF onLeft THEN t.left[s] ELSE t.right[s]
        far == IF s = Nil THEN Nil ELSE IF onLeft THEN t.right[s] ELSE t.left[s]
        Toward(u, m) == IF onLeft THEN rotate_left(u, m) ELSE rotate_right(u, m)
        Away(u, m) == IF onLeft THEN rotate_right(u, m) ELSE rotate_left(u, m)
        nephewsBlack == near \notin t.red /\ far \notin t.red
    IN  CASE n = t.root -> Colored(t, {}, {n})
          [] n # t.root /\ up \notin t.red /\ s \in t.red /\ nephewsBlack ->
                fix_double_black(Toward(Colored(t, {up}, {s}), up), n)
          [] n # t.root /\ up \notin t.red /\ s \notin t.red /\ nephewsBlack ->
                fix_double_black(Colored(t, {s} \ {Nil}, {n}), up)
          [] n # t.root /\ up \in t.red /\ s \notin t.red /\ nephewsBlack ->
                Colored(t, {s} \ {Nil}, {up, n})
          [] n # t.root /\ s \notin t.red /\ near \in t.red /\ far \notin t.red ->
                fix_double_black(Away(Colored(t, {s}, {near}), s), n)
          [] n # t.root /\ s \notin t.red /\ far \in t.red ->
                Toward(Colored(t, IF up \in t.red THEN {s} ELSE {},
                                  {up, far, n} \cup IF up \in t.red THEN {} ELSE {s}), up)

Deleted(t, n) == [Colored(t, {}, {n}) EXCEPT !.parent[n] = Nil, !.left[n] = Nil, !.right[n] = Nil]

\* The two nodes change places, colours included; the ends stay.
swap_node_with_successor(t, n, s) ==
    LET Other(m) == CASE m = n -> s [] m = s -> n [] OTHER -> m
        Exchanged(links) == [m \in DOMAIN links |-> IF m = SuperRoot THEN links[m]
                                                    ELSE Other(links[Other(m)])]
    IN  [t EXCEPT !.parent = Exchanged(@), !.left = Exchanged(@), !.right = Exchanged(@),
                  !.red = {Other(m) : m \in @}, !.root = Other(@)]

\* A node with at most one child.
RemovedOuter(t, n) ==
    LET child == IF t.left[n] # Nil THEN t.left[n] ELSE t.right[n]
        up == t.parent[n]
        side == IF is_left_child(t, n) THEN "left" ELSE "right"
        wasRed == n \in t.red
        linked == [Deleted(t, n) EXCEPT ![side][up] = child, !.parent[child] = up, !.size = @ - 1]
        \* A node without children stays until the colours are right.
        kept == [Colored(t, {}, {n}) EXCEPT !.size = @ - 1]
        fixed == IF wasRed THEN kept ELSE fix_double_black(kept, n)
        lastSide == IF is_left_child(fixed, n) THEN "left" ELSE "right"
    IN  CASE n = t.root /\ child = Nil -> [Deleted(t, n) EXCEPT !.root = Nil, !.size = 0]
          [] n = t.root /\ child # Nil ->
                [Colored(Deleted(t, n), {}, {child}) EXCEPT
                    !.root = child, !.parent[child] = SuperRoot, !.size = 1]
          [] n # t.root /\ child # Nil ->
                IF wasRed \/ child \in t.red THEN Colored(linked, {}, {child})
                ELSE fix_double_black(linked, child)
          [] n # t.root /\ child = Nil -> Deleted([fixed EXCEPT ![lastSide][fixed.parent[n]] = Nil], n)

remove_node(t, n) ==
    IF t.left[n] = Nil \/ t.right[n] = Nil THEN RemovedOuter(t, n)
    ELSE RemovedOuter(swap_node_with_successor(t, n, inorder_successor_of(t, n)), n)

\* The ends of t when n is removed.
WithoutEnd(t, n) ==
    CASE n = t.root /\ t.size = 1 -> [t EXCEPT !.left[SuperRoot] = Nil, !.right[SuperRoot] = Nil]
      [] ~(n = t.root /\ t.size = 1) /\ n = t.left[SuperRoot] ->
            [t EXCEPT !.left[SuperRoot] = inorder_successor_of(t, n)]
      [] ~(n = t.root /\ t.size = 1) /\ n # t.left[SuperRoot] /\ n = t.right[SuperRoot] ->
            [t EXCEPT !.right[SuperRoot] = inorder_predecessor_of(t, n)]
      [] OTHER -> t

remove(n) ==
    /\ n \in Live(tree)
    /\ tree' = remove_node(WithoutEnd(tree, n), n)
    /\ UNCHANGED <<allow_duplicates, freedEnd>>

clear ==
    /\ tree.size > 0
    /\ tree' = EmptyTree
    /\ UNCHANGED <<allow_duplicates, freedEnd>>

Next ==
    /\ ~freedEnd
    /\ \/ \E k \in IF allow_duplicates THEN DuplicateKeys ELSE Keys : emplace(k)
       \/ \E n \in Live(tree) : remove(n)
       \/ clear

Spec == Init /\ [][Next]_vars

----------------------------------------------------------------------------
(* Properties.                                                              *)

\* The pointers lead to nodes.
TypeOK ==
    LET Links == Nodes \cup {SuperRoot, Nil}
    IN  /\ tree.root \in Nodes \cup {Nil} /\ tree.size \in Nat /\ tree.red \subseteq Nodes
        /\ \A links \in {tree.parent, tree.left, tree.right} :
              links \in [Nodes \cup {SuperRoot} -> Links]
        /\ allow_duplicates \in BOOLEAN /\ freedEnd \in BOOLEAN

RECURSIVE InOrder(_)
InOrder(n) == IF n = Nil THEN <<>> ELSE InOrder(tree.left[n]) \o <<n>> \o InOrder(tree.right[n])

\* Black nodes on every way from n down, or -1 if two ways differ or two red nodes meet.
RECURSIVE BlackHeight(_)
BlackHeight(n) ==
    IF n = Nil THEN 0
    ELSE LET l == BlackHeight(tree.left[n])
             r == BlackHeight(tree.right[n])
             redMeet == n \in tree.red /\ {tree.left[n], tree.right[n]} \cap tree.red # {}
         IN  IF l = -1 \/ r = -1 \/ l # r \/ redMeet THEN -1 ELSE IF n \in tree.red THEN l ELSE l + 1

\* Whatever is added and removed, the tree holds its nodes in the order of their values,
\* child and parent pointers agree, no red node has a red child, all ways down have as many
\* black nodes, the root is black, and m_size counts the nodes.
Balanced ==
    LET order == InOrder(tree.root)
    IN  /\ {order[i] : i \in DOMAIN order} = Live(tree) /\ Len(order) = tree.size
        /\ tree.size = Cardinality(Live(tree))
        /\ \A i \in 1..Len(order) - 1 : key(order[i]) <= key(order[i + 1])
        /\ \A n \in Live(tree) : \A side \in {"left", "right"} :
              tree[side][n] # Nil => tree.parent[tree[side][n]] = n
        /\ BlackHeight(tree.root) # -1
        /\ tree.root # Nil => tree.root \notin tree.red /\ tree.parent[tree.root] = SuperRoot

\* begin(), ++ and -- visit the nodes in order, and end() behind the last; lower_bound,
\* upper_bound and find give the first node that is not smaller, that is greater, that has
\* the key, whatever the shape of the tree.
SearchesExact ==
    LET order == InOrder(tree.root)
        At(i) == IF i \in DOMAIN order THEN order[i] ELSE SuperRoot
        FirstWith(P(_)) == At(Min({i \in DOMAIN order : P(order[i])} \cup {Len(order) + 1}))
    IN  /\ tree.left[SuperRoot] = IF order = <<>> THEN Nil ELSE order[1]
        /\ \A i \in DOMAIN order :
              /\ inorder_successor_of(tree, order[i]) = At(i + 1)
              /\ inorder_predecessor_of(tree, order[i]) = At(i - 1)
        /\ \A k \in Keys :
              /\ lower_bound_node(tree, k) = FirstWith(LAMBDA n : key(n) >= k)
              /\ upper_bound_node(tree, k) = FirstWith(LAMBDA n : key(n) > k)
              /\ LET found == find_node(tree, k)
                 IN  IF \E n \in Live(tree) : key(n) = k THEN found # SuperRoot /\ key(found) = k
                     ELSE found = SuperRoot

\* -- from end() gives the last node: m_super_root.right is the right-most node of the tree.
LastIsLast ==
    LET order == InOrder(tree.root)
    IN  tree.right[SuperRoot] = IF order = <<>> THEN Nil ELSE order[Len(order)]

\* In a Set or a Map it is.
SetLastIsLast == ~allow_duplicates => LastIsLast

\* m_super_root.right, whose value the next emplace reads, is a node of the tree.
EndIsAlive == tree.right[SuperRoot] \in Live(tree) \cup {Nil}
==============================================================================
