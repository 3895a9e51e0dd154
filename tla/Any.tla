--------------------------------- MODULE Any ---------------------------------
(***************************************************************************)
(* any: anys that hold a value each in their buffer, or on the heap if its *)
(* type does not fit or may throw when it is moved, are assigned, swapped  *)
(* and reset.  Values are objects with a number; an any may be copied, and *)
(* copying the value may throw.                                            *)
(***************************************************************************)
EXTENDS Integers, FiniteSets

CONSTANTS
    Anys,                \* the variables of the program
    HeldTypes,           \* what is held
    Inlined,             \* the types with any_fits_inline
    HeldObjects          \* bound: objects there are at a time

VARIABLES
    s,                   \* objects and anys: see Init
    meant                \* the type each any should hold, or "empty"

vars == <<s, meant>>

None == 0
\* The parameter of operator=, the temporary of swap().
Param == "other"
Temp == "temp"
Places == Anys \cup {Param, Temp}
NoVtable == "null"

\* type: what is alive; storage: the object in the buffer or behind the pointer.
Init ==
    /\ s = [type |-> [o \in HeldObjects \cup {None} |-> "raw"],
            vtable |-> [a \in Places |-> NoVtable],
            storage |-> [a \in Places |-> None],
            fault |-> FALSE]
    /\ meant = [a \in Anys |-> "empty"]

Fresh(m) == CHOOSE o \in HeldObjects : m.type[o] = "raw"
HasRoom(m, n) == Cardinality({o \in HeldObjects : m.type[o] = "raw"}) >= n
HasValue(m, a) == m.vtable[a] # NoVtable

-----------------------------------------------------------------------------
(* any_handler *)

Construct(m, a, t) ==
    [m EXCEPT !.type[Fresh(m)] = t, !.storage[a] = Fresh(m), !.fault = @ \/ HasValue(m, a)]

Destroy(m, a) ==
    [m EXCEPT !.type[m.storage[a]] = "raw", !.storage[a] = None,
              !.fault = @ \/ m.type[m.storage[a]] # m.vtable[a]]

\* The constructor of the value throws: what it was to live in, room in the buffer or what new
\* has allocated, is taken and given back, and nothing of the any but its storage was touched.
Unwind(m, a) == [m EXCEPT !.type[m.storage[a]] = "raw", !.storage[a] = None]
ConstructThrows(m, a) == Unwind(Construct(m, a, "unbuilt"), a)

\* Out of a buffer into another: a new object, and the old one destroyed.
MoveInline(m, from, to) == Destroy(Construct(m, to, m.vtable[from]), from)
\* On the heap the object stays where it is.
MoveHeap(m, from, to) ==
    [m EXCEPT !.storage = [@ EXCEPT ![to] = m.storage[from], ![from] = None]]
Move(m, from, to) ==
    IF m.vtable[from] \in Inlined THEN MoveInline(m, from, to) ELSE MoveHeap(m, from, to)

-----------------------------------------------------------------------------
(* any *)

Reset(m, a) == IF HasValue(m, a) THEN [Destroy(m, a) EXCEPT !.vtable[a] = NoVtable] ELSE m

\* Mutant: the vtable of what was moved out stays.
AdoptKeeping(m, a, from) ==
    IF HasValue(m, from)
    THEN [Move(m, from, a) EXCEPT !.vtable[a] = m.vtable[from]]
    ELSE m

Adopt(m, a, from) ==
    IF HasValue(m, from)
    THEN [Move(m, from, a) EXCEPT !.vtable = [@ EXCEPT ![a] = m.vtable[from],
                                                       ![from] = NoVtable]]
    ELSE m
Swap(m, a, b) ==
    IF a = b THEN m ELSE Adopt(Adopt(Adopt(m, Temp, a), a, b), b, Temp)

CopyOf(m, a, from) ==
    IF HasValue(m, from)
    THEN [Construct(m, a, m.vtable[from]) EXCEPT !.vtable[a] = m.vtable[from]]
    ELSE m

Holding(m, a, t) == [Construct(m, a, t) EXCEPT !.vtable[a] = t]

\* operator=(any other): other is made by the caller, takes the old value and dies with it.
AssignFrom(m, a) == Reset(Swap(m, a, Param), Param)

-----------------------------------------------------------------------------
(* The program. *)

Means(a, what) == meant' = [meant EXCEPT ![a] = what]

AssignValue(a) ==
    \E t \in HeldTypes :
       /\ HasRoom(s, 2)
       /\ s' = AssignFrom(Holding(s, Param, t), a) /\ Means(a, t)
AssignCopy(a) ==
    \E b \in Anys :
       /\ HasRoom(s, 2)
       /\ s' = AssignFrom(CopyOf(s, Param, b), a) /\ Means(a, meant[b])
\* Mutant: the old value goes first, and the copy is made where it was.
AssignInPlace(a) ==
    \E b \in Anys :
       /\ HasValue(s, b) /\ HasRoom(s, 1)
       /\ s' = ConstructThrows(Reset(s, a), a) /\ UNCHANGED meant

\* The copy throws while the parameter is made: its vtable is not set yet, its destructor does
\* not run, and the body is not entered.
AssignThrows(a) ==
    \E b \in Anys :
       /\ HasValue(s, b) /\ HasRoom(s, 1)
       /\ s' = ConstructThrows(s, Param) /\ UNCHANGED meant
AssignMove(a) ==
    \E b \in Anys :
       /\ HasRoom(s, 1)
       /\ s' = AssignFrom(Adopt(s, Param, b), a)
       /\ meant' = [c \in Anys |-> IF c = a THEN meant[b] ELSE IF c = b THEN "empty" ELSE meant[c]]
SwapWith(a) ==
    \E b \in Anys :
       /\ HasRoom(s, 1)
       /\ s' = Swap(s, a, b)
       /\ meant' = [meant EXCEPT ![a] = meant[b], ![b] = meant[a]]
ResetOne(a) == s' = Reset(s, a) /\ Means(a, "empty")

\* holds() and any_cast(): what is in there if it is a T.
Holds(a, t) == HasValue(s, a) /\ s.vtable[a] = t
AnyCast(a, t) == IF Holds(a, t) THEN s.storage[a] ELSE None

Next == \E a \in Anys :
    \/ AssignValue(a) \/ AssignCopy(a) \/ AssignThrows(a) \/ AssignMove(a)
    \/ SwapWith(a) \/ ResetOne(a)

Spec == Init /\ [][Next]_vars

-----------------------------------------------------------------------------
(* Properties. *)

\* An any holds what it was last given, assigned from itself or not, and casts to that type
\* alone; each object is destroyed once, as what it is, and belongs to one any.
OwnedOnce ==
    /\ ~s.fault
    /\ \A a \in Anys, t \in HeldTypes :
          IF meant[a] = t THEN AnyCast(a, t) # None /\ s.type[AnyCast(a, t)] = t
          ELSE AnyCast(a, t) = None
    /\ {o \in HeldObjects : s.type[o] # "raw"} = {s.storage[a] : a \in Anys} \ {None}
    /\ \A a, b \in Anys : a # b /\ s.storage[a] = s.storage[b] => s.storage[a] = None
    /\ ~HasValue(s, Param) /\ ~HasValue(s, Temp)
=============================================================================
