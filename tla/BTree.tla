------------------------------- MODULE BTree -------------------------------
(***************************************************************************)
(* Put and Get of the B+tree (btree.go) on its nodes (node.go), in memory. *)
(*                                                                         *)
(* A node keeps its cells in the order in which they were added and sorts  *)
(* them by a list of offsets.  A split shortens the list and leaves the    *)
(* cells it has copied where they are; findLeafCell searches all cells.    *)
(*                                                                         *)
(* The first page is a leaf and the root.  Its split makes an internal     *)
(* root; an internal root that overflows is split with a nil parent, which *)
(* panics, so the tree never has more than two levels.  A page is known by *)
(* the order of its allocation.                                            *)
(***************************************************************************)
EXTENDS Integers, Sequences, SequencesExt

CONSTANTS
    Key,                    \* a set of integers, ordered as bytes.Compare does
    Value,
    None,                   \* no value
    maxLeafNodeCells,       \* 9
    maxInternalNodeCells    \* 290

ASSUME BTreeAssumption ==
    /\ Key \subseteq Int /\ None \notin Value
    /\ maxLeafNodeCells \in Nat \ {0, 1} /\ maxInternalNodeCells \in Nat \ {0, 1}

VARIABLES
    leaf,        \* the leaf pages
    root,        \* the internal root; without cells while leaf[1] is the root
    panicked,
    stored       \* history: the last value put for each key

vars == <<leaf, root, panicked, stored>>

Empty == [offsets |-> << >>, cells |-> << >>]

Init ==
    /\ leaf = <<Empty>> /\ root = Empty /\ panicked = FALSE
    /\ stored = [k \in Key |-> None]
-----------------------------------------------------------------------------
(* Nodes.  Offsets are positions in cells. *)
keyAt(n, i) == n.cells[n.offsets[i]].key

\* Mutant: a leaf is split one cell late.
leafFullLate(n) == Len(n.offsets) > maxLeafNodeCells

leafFull(n)     == Len(n.offsets) >= maxLeafNodeCells
internalFull(n) == Len(n.offsets) > maxInternalNodeCells

appendCell(n, cell) ==
    [offsets |-> Append(n.offsets, Len(n.offsets) + 1), cells |-> Append(n.cells, cell)]

\* insertLeafCell and insertInternalCell: the cell goes to the end, its offset
\* to position i of the list.
insertCell(n, i, cell) ==
    [offsets |-> InsertAt(n.offsets, i, Len(n.cells) + 1), cells |-> Append(n.cells, cell)]

\* Mutant: every key goes to the end.
findInsPointAtEnd(n, key) == Len(n.offsets) + 1

\* The binary search for the place of a key among the offsets, between the
\* positions low and high.
findInsPointForKey(n, key) ==
    LET search[range \in (1 .. Len(n.offsets) + 1) \X (0 .. Len(n.offsets))] ==
            LET low  == range[1]
                high == range[2]
                mid  == low + (high - low) \div 2
            IN  IF low > high THEN low
                ELSE IF key < keyAt(n, mid) THEN search[<<low, mid - 1>>]
                ELSE IF key > keyAt(n, mid) THEN search[<<mid + 1, high>>]
                ELSE mid
    IN  search[<<1, Len(n.offsets)>>]

\* Mutant: a key equal to a separator is looked for to the left of it.
findChildPageLeft(n, key) ==
    LET greater == SelectInSeq(n.offsets, LAMBDA o : n.cells[o].key >= key)
    IN  CASE greater = 1 -> 1
          [] greater > 1 -> n.offsets[greater - 1]
          [] greater = 0 -> Last(n.offsets)

\* The last cell, in order, whose key is not greater; the first one added if
\* there is none.
findChildPage(n, key) ==
    LET greater == SelectInSeq(n.offsets, LAMBDA o : n.cells[o].key > key)
    IN  CASE greater = 1 -> 1
          [] greater > 1 -> n.offsets[greater - 1]
          [] greater = 0 -> Last(n.offsets)

\* The first cell with the key, or 0; also a cell that no offset points to.
findLeafCell(n, key) == SelectInSeq(n.cells, LAMBDA c : c.key = key)

\* split: the upper half of the offsets goes to a new page.
splitpt(n) == Len(n.offsets) \div 2
lower(n)   == [n EXCEPT !.offsets = SubSeq(@, 1, splitpt(n))]
upper(n)   ==
    LET k == Len(n.offsets) - splitpt(n)
    IN  [offsets |-> [i \in 1 .. k |-> i],
         cells   |-> [i \in 1 .. k |-> n.cells[n.offsets[splitpt(n) + i]]]]
-----------------------------------------------------------------------------
\* The leaf a key is looked up in.
child(key) ==
    IF root = Empty THEN 1 ELSE root.cells[findChildPage(root, key)].page

get(key) ==
    LET n == leaf[child(key)]
        c == findLeafCell(n, key)
    IN  IF c = 0 THEN None ELSE n.cells[c].val

\* The separator of the new page reaches the parent.
addSeparator(sep, page) ==
    LET i == findInsPointForKey(root, sep) IN
    IF i = Len(root.offsets) + 1
    THEN appendCell(root, [key |-> sep, page |-> page])
    ELSE insertCell(root, i, [key |-> sep, page |-> page])

\* insertLeaf, when page p is full with n.
Split(p, n) ==
    LET sep  == keyAt(upper(n), 1)
        page == Len(leaf) + 1
    IN
    /\ leaf' = Append([leaf EXCEPT ![p] = lower(n)], upper(n))
    /\ root' = IF root = Empty
               THEN appendCell(appendCell(Empty, [key |-> keyAt(lower(n), 1), page |-> p]),
                               [key |-> sep, page |-> page])
               ELSE addSeparator(sep, page)
    /\ panicked' = internalFull(root')

Put(key, val) ==
    LET p   == child(key)
        n   == leaf[p]
        c   == findLeafCell(n, key)
        new == insertCell(n, findInsPointForKey(n, key), [key |-> key, val |-> val])
    IN
    /\ ~panicked
    /\ \/ /\ c # 0
          /\ leaf' = [leaf EXCEPT ![p].cells[c].val = val]
          /\ UNCHANGED <<root, panicked>>
       \/ /\ c = 0 /\ ~leafFull(new)
          /\ leaf' = [leaf EXCEPT ![p] = new]
          /\ UNCHANGED <<root, panicked>>
       \/ /\ c = 0 /\ leafFull(new)
          /\ Split(p, new)
    /\ stored' = [stored EXCEPT ![key] = val]

Next == \E key \in Key, val \in Value : Put(key, val)

Spec == Init /\ [][Next]_vars
-----------------------------------------------------------------------------
Sorted(n) == \A i, j \in DOMAIN n.offsets : i < j => keyAt(n, i) <= keyAt(n, j)

TypeOK ==
    /\ \A p \in DOMAIN leaf :
          /\ Len(leaf[p].offsets) \in 0 .. maxLeafNodeCells - 1
          /\ ToSet(leaf[p].offsets) \subseteq DOMAIN leaf[p].cells
    /\ {root.cells[c].page : c \in DOMAIN root.cells} \subseteq DOMAIN leaf
    /\ panicked \in BOOLEAN

\* A Get returns what the last Put of its key stored: the separator that a
\* split adds makes the new page "searchable in the btree".
GetsLastPut == ~panicked => \A key \in Key : get(key) = stored[key]

\* The key of the root's first cell is the smallest one put so far.
firstCellLowest ==
    root # Empty => \A key \in Key : stored[key] # None => key >= root.cells[1].key

\* The same, and that no Get meets a cell left behind by a split, as long as no
\* key is put below the first one that was known when the root split: with
\* any order of puts and updates above it the routing is right.
GetsLastPutAboveFirst ==
    firstCellLowest =>
        /\ GetsLastPut
        /\ \A key \in Key : LET n == leaf[child(key)]
                                 c == findLeafCell(n, key)
                             IN  c # 0 => c \in ToSet(n.offsets)

\* The binary searches rest on it: offsets list the keys in order, in leaves and
\* in the root.
OffsetsSorted == Sorted(root) /\ \A p \in DOMAIN leaf : Sorted(leaf[p])

=============================================================================
