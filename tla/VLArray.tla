------------------------------- MODULE VLArray -------------------------------
(***************************************************************************)
(* vlarray: two arrays, each with a buffer of its own for a few elements   *)
(* and the heap for more, down to the construction and the destruction of  *)
(* each element; beside them (promised) what two std::vectors would hold.  *)
(*                                                                         *)
(* A buffer's cells hold an element, or "raw" where there is none, or      *)
(* "moved" for an element whose value was taken.  A value is handed over   *)
(* by reference: <<v>> outside the arrays, <<b, i>> the cell i of buffer b *)
(* -- what is there when it is read, which may be no longer what it was.   *)
(* The caller hands no range of an array to the array itself, and no       *)
(* element of it to resize().  Copies and moves do not throw.              *)
(***************************************************************************)
EXTENDS Integers, Sequences

CONSTANTS
    Elements,            \* values
    Inline,              \* the two arrays, each with the capacity of its own buffer
    HeapBuffers,         \* addresses the allocator hands out
    MinHeapCapacity,
    MaxSize              \* bound: elements in an array

\* A placeholder is no value, and no address is inside an array and on the heap.  The third
\* buffer of the heap is the one that grows while both arrays have one.
ArrayAssumption ==
    /\ \E x, y \in DOMAIN Inline : x # y /\ DOMAIN Inline = {x, y}
    /\ \A x \in DOMAIN Inline : Inline[x] \in Nat
    /\ DOMAIN Inline \cap HeapBuffers = {}
    /\ \E b, c, d \in HeapBuffers : b # c /\ b # d /\ c # d
    /\ {"raw", "moved"} \cap Elements = {}
    /\ MinHeapCapacity \in Nat /\ MaxSize \in Nat

VARIABLES
    s,                   \* memory and arrays: see Init
    promised             \* what std::vector would hold

vars == <<s, promised>>

Arrays == DOMAIN Inline
Raw == "raw"
Moved == "moved"
Cells == 0..(2 * MaxSize + MinHeapCapacity)
AllRaw == [i \in Cells |-> Raw]
Larger(m, n) == IF m > n THEN m ELSE n

At(m, x) == m.arr[x].at
Size(m, x) == m.arr[x].size
Capacity(m, x) == m.arr[x].capacity
IsInline(m, x) == At(m, x) = x
Other(x) == CHOOSE y \in Arrays : y # x

\* The buffer in the array has the array's name.
Init ==
    /\ s = [cells |-> [b \in Arrays \cup HeapBuffers |-> AllRaw],
            heap |-> {},
            arr |-> [x \in Arrays |-> [at |-> x, size |-> 0, capacity |-> Inline[x]]],
            fault |-> FALSE]
    /\ promised = [x \in Arrays |-> <<>>]

-----------------------------------------------------------------------------
(* Elements.  A fault: construction over an element, destruction of none,  *)
(* reading where there is none.                                            *)

Read(m, ref) == IF Len(ref) = 1 THEN ref[1] ELSE m.cells[ref[1]][ref[2]]

Construct(m, b, i, v) ==
    [m EXCEPT !.cells[b][i] = v, !.fault = @ \/ m.cells[b][i] # Raw \/ v = Raw]

\* One after the other, copies of the values (a row of cells) or what was moved out of the other
\* buffer's cells.
ConstructRange(m, b, from, to, values) ==
    [m EXCEPT !.cells[b] = [i \in Cells |-> IF from <= i /\ i < to THEN values[i] ELSE @[i]],
              !.fault = @ \/ \E i \in from..(to - 1) : m.cells[b][i] # Raw \/ values[i] = Raw]
MoveRange(m, b, from, to, c) ==
    [ConstructRange(m, b, from, to, m.cells[c]) EXCEPT
        !.cells[c] = [i \in Cells |-> IF from <= i /\ i < to THEN Moved ELSE @[i]]]

DestroyRange(m, b, from, to) ==
    [m EXCEPT !.cells[b] = [i \in Cells |-> IF from <= i /\ i < to THEN Raw ELSE @[i]],
              !.fault = @ \/ \E i \in from..(to - 1) : m.cells[b][i] = Raw]

SetSize(m, x, n) == [m EXCEPT !.arr[x].size = n]

FillTo(m, x, n, v) ==
    SetSize(ConstructRange(m, At(m, x), Size(m, x), n, [i \in Cells |-> v]), x, n)

-----------------------------------------------------------------------------
(* Buffers. *)

Fresh(m) == CHOOSE b \in HeapBuffers : b \notin m.heap

ComputeNewCapacity(m, x, n) == Larger(Larger(2 * Capacity(m, x), n), MinHeapCapacity)

RelocateTo(m, x, b) ==
    [m EXCEPT !.cells = [m.cells EXCEPT
                  ![b] = [i \in Cells |->
                      IF i < Size(m, x) THEN m.cells[At(m, x)][i] ELSE m.cells[b][i]],
                  ![At(m, x)] = [i \in Cells |->
                      IF i < Size(m, x) THEN Raw ELSE m.cells[At(m, x)][i]]],
              !.fault = @ \/ \E i \in 0..(Size(m, x) - 1) :
                                 m.cells[At(m, x)][i] = Raw \/ m.cells[b][i] # Raw]

MoveInto(m, x, b, capacity) ==
    [RelocateTo(m, x, b) EXCEPT !.heap = (@ \ {At(m, x)}) \cup {b},
                                !.arr[x].at = b, !.arr[x].capacity = capacity]

Reserve(m, x, n) ==
    IF n > Capacity(m, x) THEN MoveInto(m, x, Fresh(m), ComputeNewCapacity(m, x, n)) ELSE m

ResetToInline(m, x) ==
    [DestroyRange(m, At(m, x), 0, Size(m, x)) EXCEPT
        !.heap = @ \ {At(m, x)},
        !.arr[x] = [at |-> x, size |-> 0,
                    capacity |-> IF IsInline(m, x) THEN @.capacity ELSE Inline[x]]]

-----------------------------------------------------------------------------
(* Operations. *)

\* Mutant: reserve(), then construct.
ReserveAndEmplaceBack(m, x, ref) ==
    LET grown == Reserve(m, x, Size(m, x) + 1) IN
    SetSize(Construct(grown, At(grown, x), Size(m, x), Read(grown, ref)), x, Size(m, x) + 1)

\* The element is built in the new buffer while the old one is still alive.
GrowAndEmplaceBack(m, x, ref) ==
    SetSize(MoveInto(Construct(m, Fresh(m), Size(m, x), Read(m, ref)), x, Fresh(m),
                     ComputeNewCapacity(m, x, Size(m, x) + 1)),
            x, Size(m, x) + 1)

EmplaceBack(m, x, ref) ==
    IF Size(m, x) = Capacity(m, x) THEN GrowAndEmplaceBack(m, x, ref)
    ELSE SetSize(Construct(m, At(m, x), Size(m, x), Read(m, ref)), x, Size(m, x) + 1)

\* The elements from middle on come before those from first on.
Rotate(m, x, first, middle) ==
    [m EXCEPT !.cells[At(m, x)] = [i \in Cells |->
        CASE first <= i /\ i < first + Size(m, x) - middle -> @[i + middle - first]
          [] first + Size(m, x) - middle <= i /\ i < Size(m, x) -> @[i - (Size(m, x) - middle)]
          [] OTHER -> @[i]]]

InsertOne(m, x, index, ref) == Rotate(EmplaceBack(m, x, ref), x, index, Size(m, x))

\* The value is copied before reserve() moves it.
InsertCount(m, x, index, count, ref) ==
    Rotate(FillTo(Reserve(m, x, Size(m, x) + count), x, Size(m, x) + count, Read(m, ref)),
           x, index, Size(m, x))

\* Of an array the elements, one by one.
AppendAll(m, x, y) ==
    LET appended[n \in 0..MaxSize] ==
            IF n = 0 THEN m ELSE EmplaceBack(appended[n - 1], x, <<At(m, y), n - 1>>)
    IN  appended[Size(m, y)]
InsertRange(m, x, index, y) == Rotate(AppendAll(m, x, y), x, index, Size(m, x))

EraseRange(m, x, from, to) ==
    IF from = to THEN m ELSE
    SetSize(DestroyRange([m EXCEPT !.cells[At(m, x)] = [i \in Cells |->
                              IF from <= i /\ i < Size(m, x) - (to - from) THEN @[i + to - from]
                              ELSE @[i]]],
                         At(m, x), Size(m, x) - (to - from), Size(m, x)),
            x, Size(m, x) - (to - from))

Clear(m, x) == SetSize(DestroyRange(m, At(m, x), 0, Size(m, x)), x, 0)

Resize(m, x, n, v) ==
    IF n < Size(m, x) THEN SetSize(DestroyRange(m, At(m, x), n, Size(m, x)), x, n)
    ELSE FillTo(Reserve(m, x, n), x, n, v)

MoveOver(m, x, y) ==
    SetSize(MoveRange(m, At(m, x), Size(m, x), Size(m, y), At(m, y)), x, Size(m, y))
SwapShared(m, x, y, n) ==
    LET Front(a, b) == [i \in Cells |-> IF i < n THEN m.cells[a][i] ELSE m.cells[b][i]] IN
    [m EXCEPT !.cells = [m.cells EXCEPT ![At(m, x)] = Front(At(m, y), At(m, x)),
                                        ![At(m, y)] = Front(At(m, x), At(m, y))]]
\* The longer one's tail is moved over.
SwapTail(m, longer, shorter) ==
    LET shared == Size(m, shorter)
        moved == MoveOver(SwapShared(m, longer, shorter, shared), shorter, longer)
    IN  SetSize(DestroyRange(moved, At(m, longer), shared, Size(m, longer)), longer, shared)
SwapElements(m, x, y) ==
    IF Size(m, x) >= Size(m, y) THEN SwapTail(m, x, y) ELSE SwapTail(m, y, x)
Swap(m, x, y) ==
    IF ~IsInline(m, x) /\ ~IsInline(m, y)
    THEN [m EXCEPT !.arr[x] = m.arr[y], !.arr[y] = m.arr[x]]
    ELSE SwapElements(Reserve(Reserve(m, x, Size(m, y)), y, Size(m, x)), x, y)

AssignCopy(m, x, y) ==
    LET room == Reserve(Clear(m, x), x, Size(m, y)) IN
    SetSize(ConstructRange(room, At(room, x), 0, Size(m, y), m.cells[At(m, y)]), x, Size(m, y))

\* The heap buffer of the other is taken as it is.
Steal(m, x, y) ==
    [m EXCEPT !.arr[x] = m.arr[y], !.arr[y] = [at |-> y, size |-> 0, capacity |-> Inline[y]]]
AssignMove(m, x, y) ==
    LET reset == ResetToInline(m, x) IN
    IF IsInline(m, y) THEN Clear(MoveOver(Reserve(reset, x, Size(m, y)), x, y), y)
    ELSE Steal(reset, x, y)

-----------------------------------------------------------------------------
(* The caller. *)

\* A value of its own, or any element of either array.
Refs == {<<v>> : v \in Elements}
        \cup UNION {{<<At(s, x), i>> : i \in 0..(Size(s, x) - 1)} : x \in Arrays}
Fits(n) == n <= MaxSize
Promise(x, elements) == promised' = [promised EXCEPT ![x] = elements]
Repeated(v, n) == [i \in 1..n |-> v]
InsertedAt(q, index, new) ==
    SubSeq(q, 1, index) \o new \o SubSeq(q, index + 1, Len(q))

PushBackOrInsert(x) ==
    /\ Fits(Size(s, x) + 1)
    /\ \E ref \in Refs, index \in 0..Size(s, x) :
         /\ s' = InsertOne(s, x, index, ref)
         /\ Promise(x, InsertedAt(promised[x], index, <<Read(s, ref)>>))
InsertMany(x) ==
    \E ref \in Refs, index \in 0..Size(s, x) :
       /\ Fits(Size(s, x) + 2)
       /\ s' = InsertCount(s, x, index, 2, ref)
       /\ Promise(x, InsertedAt(promised[x], index, Repeated(Read(s, ref), 2)))
InsertOther(x) ==
    \E index \in 0..Size(s, x) :
       /\ Fits(Size(s, x) + Size(s, Other(x)))
       /\ s' = InsertRange(s, x, index, Other(x))
       /\ Promise(x, InsertedAt(promised[x], index, promised[Other(x)]))
Erase(x) ==
    \E to \in 0..Size(s, x) : \E from \in 0..to :
       /\ s' = EraseRange(s, x, from, to)
       /\ Promise(x, SubSeq(promised[x], 1, from) \o SubSeq(promised[x], to + 1, Len(promised[x])))
ClearOrResize(x) ==
    \/ s' = Clear(s, x) /\ Promise(x, <<>>)
    \/ \E n \in 0..MaxSize, v \in Elements :
          /\ s' = Resize(s, x, n, v)
          /\ Promise(x, [i \in 1..n |-> IF i <= Size(s, x) THEN promised[x][i] ELSE v])
SwapBoth(x) ==
    /\ s' = Swap(s, x, Other(x))
    /\ promised' = [y \in Arrays |-> promised[Other(y)]]
Assign(x) ==
    \/ s' = AssignCopy(s, x, Other(x)) /\ Promise(x, promised[Other(x)])
    \/ /\ s' = AssignMove(s, x, Other(x))
       /\ promised' = [y \in Arrays |-> IF y = x THEN promised[Other(x)] ELSE <<>>]
\* The array goes out of scope, and another one is made in its place.
Renew(x) == s' = ResetToInline(s, x) /\ Promise(x, <<>>)

Next == \E x \in Arrays :
    \/ PushBackOrInsert(x) \/ InsertMany(x) \/ InsertOther(x) \/ Erase(x)
    \/ ClearOrResize(x) \/ SwapBoth(x) \/ Assign(x) \/ Renew(x)

Spec == Init /\ [][Next]_vars

-----------------------------------------------------------------------------
(* Properties. *)

\* The arrays hold what std::vectors would, whatever moved between the buffers and whichever
\* element was handed over by reference; each element is constructed once and destroyed once,
\* and a buffer of the heap belongs to one array or is given back.
ElementsAreKept ==
    /\ ~s.fault
    /\ s.heap = {At(s, x) : x \in Arrays} \cap HeapBuffers
    /\ \A x, y \in Arrays : x # y => At(s, x) # At(s, y)
    /\ \A x \in Arrays :
         /\ Size(s, x) = Len(promised[x]) /\ Size(s, x) <= Capacity(s, x)
         /\ \A i \in Cells :
              s.cells[At(s, x)][i] = IF i < Size(s, x) THEN promised[x][i + 1] ELSE Raw
=============================================================================
