------------------------------ MODULE LinkedMap ------------------------------
(***************************************************************************)
(* linked_map: the list of the pairs in their order, and the index from a  *)
(* key to its place in the list, in two maps that are copied, moved and    *)
(* swapped.  A node of a list is a number; "end" is the end of the list    *)
(* the node would be in.  Copying a value may throw.                       *)
(***************************************************************************)
EXTENDS Integers, Sequences, SequencesExt

CONSTANTS Keys, Values, Maps, MaxNodes

VARIABLES
    list,                \* m_list: <<node, key, value>> in order
    index,               \* m_map: node of a key
    torn                 \* keys of which an insertion threw, since the map was last empty

vars == <<list, index, torn>>

End == 0
Node(item) == item[1]
Key(item) == item[2]
NodesOf(l) == {Node(l[i]) : i \in 1..Len(l)}
Used == UNION {NodesOf(list[m]) : m \in Maps}
\* What the allocator may answer n times, and what it does.
Allocations(n) ==
    {nodes \in [1..n -> (1..MaxNodes) \ Used] : \A i, j \in 1..n : nodes[i] = nodes[j] => i = j}
Allocated(n) == CHOOSE nodes \in Allocations(n) : TRUE
Position(l, n) == CHOOSE i \in 1..Len(l) : Node(l[i]) = n
WithKey(f, k, n) == [j \in DOMAIN f \cup {k} |-> IF j = k THEN n ELSE f[j]]
WithoutKey(f, k) == [j \in DOMAIN f \ {k} |-> f[j]]

Empty == [list |-> <<>>, index |-> <<>>]
Of(m) == [list |-> list[m], index |-> index[m]]
Update(m, new) ==
    /\ list' = [list EXCEPT ![m] = new.list] /\ index' = [index EXCEPT ![m] = new.index]

Init ==
    /\ list = [m \in Maps |-> <<>>] /\ index = [m \in Maps |-> <<>>]
    /\ torn = [m \in Maps |-> {}]

-----------------------------------------------------------------------------
\* Mutant: the list without asking the index.
InsertTwice(map, place, n, k, v) ==
    [list |-> InsertAt(map.list, place, <<n, k, v>>), index |-> WithKey(map.index, k, n)]

\* The index first, then the list before the place given; a key that is there stays as it is.
InsertImpl(map, place, n, k, v) ==
    IF k \in DOMAIN map.index THEN map
    ELSE [list |-> InsertAt(map.list, place, <<n, k, v>>), index |-> WithKey(map.index, k, n)]

\* append(), prepend(), insert() and operator[].
Insert(m) ==
    \E k \in Keys, v \in Values, place \in 1..(Len(list[m]) + 1) :
       /\ k \notin torn[m] /\ Allocations(1) # {}
       /\ Update(m, InsertImpl(Of(m), place, Allocated(1)[1], k, v))
       /\ UNCHANGED torn

\* The copy of the value throws when the index has the key.
InsertThrows(m) ==
    \E k \in Keys \ DOMAIN index[m] :
       /\ Update(m, [list |-> list[m], index |-> WithKey(index[m], k, End)])
       /\ torn' = [torn EXCEPT ![m] = @ \cup {k}]

\* Mutant: the first of the list goes.
RemoveFront(map, k) ==
    IF k \in DOMAIN map.index
    THEN [list |-> Tail(map.list), index |-> WithoutKey(map.index, k)]
    ELSE map

RemoveKey(map, k) ==
    IF k \in DOMAIN map.index
    THEN [list |-> RemoveAt(map.list, Position(map.list, map.index[k])),
          index |-> WithoutKey(map.index, k)]
    ELSE map
\* remove(), erase() of a key and of an iterator.  A torn key has no node to erase.
RemoveOne(m) ==
    \E k \in Keys \ torn[m] : Update(m, RemoveKey(Of(m), k)) /\ UNCHANGED torn

Clear(m) == Update(m, Empty) /\ torn' = [torn EXCEPT ![m] = {}]

\* What is copied is the list, item by item.
AppendAll(map, l, nodes) ==
    LET copied[i \in 0..Len(l)] ==
            IF i = 0 THEN map
            ELSE InsertImpl(copied[i - 1], Len(copied[i - 1].list) + 1, nodes[i], Key(l[i]), l[i][3])
    IN  copied[Len(l)]
CopyAssign(m) ==
    \E other \in Maps \ {m} :
       /\ Allocations(Len(list[other])) # {}
       /\ Update(m, AppendAll(Empty, list[other], Allocated(Len(list[other]))))
       /\ torn' = [torn EXCEPT ![m] = {}]

\* List and index are moved; the index's places are still places of the list.
MoveAssign(m) ==
    \E other \in Maps \ {m} :
       /\ list' = [list EXCEPT ![m] = list[other], ![other] = <<>>]
       /\ index' = [index EXCEPT ![m] = index[other], ![other] = <<>>]
       /\ torn' = [torn EXCEPT ![m] = torn[other], ![other] = {}]

Swap(m) ==
    \E other \in Maps \ {m} :
       /\ list' = [list EXCEPT ![m] = list[other], ![other] = list[m]]
       /\ index' = [index EXCEPT ![m] = index[other], ![other] = index[m]]
       /\ torn' = [torn EXCEPT ![m] = torn[other], ![other] = torn[m]]

Next == \E m \in Maps :
    Insert(m) \/ InsertThrows(m) \/ RemoveOne(m) \/ Clear(m)
    \/ CopyAssign(m) \/ MoveAssign(m) \/ Swap(m)

Spec == Init /\ [][Next]_vars

-----------------------------------------------------------------------------
(* Properties. *)

\* find(), value() and contains() ask the index, size(), keys() and the iterators the list:
\* they speak of the same pairs, each key once and the index at its node, and no node is in two
\* maps.  A key whose insertion threw is the exception: it is contained and nowhere.
IndexIsTheList ==
    \A m \in Maps :
       /\ DOMAIN index[m] = {Key(list[m][i]) : i \in 1..Len(list[m])} \cup torn[m]
       /\ \A i \in 1..Len(list[m]) : index[m][Key(list[m][i])] = Node(list[m][i])
       /\ \A k \in torn[m] : index[m][k] = End
       /\ \A other \in Maps \ {m} : NodesOf(list[m]) \cap NodesOf(list[other]) = {}
=============================================================================
