--------------------------- MODULE SharedLibrary ---------------------------
(***************************************************************************)
(* stdc::SharedLibrary objects over the loader, which counts the users of  *)
(* each library: open(), close(), release(), resolve(), the moves and the  *)
(* destructor, whose loader calls may fail.                                *)
(*                                                                         *)
(* A handle is the library it stands for, and so is a path; the null       *)
(* pointer and the empty path are the empty set.                           *)
(***************************************************************************)
EXTENDS Integers, FiniteSets

CONSTANTS
    Objects,      \* the SharedLibrary objects of the program
    Libraries,    \* the files it may open
    MaxUsers      \* the loader's count for one library, at most

VARIABLES
    there,        \* objects that have an Impl: constructed, not moved from, not destroyed
    hDll, path, released, error,
    users,        \* the loader's count of the users of each library
    forgotten,    \* handles of each library that were given up and then let go of
    given         \* objects whose present handle was given up by release()

impl == <<hDll, path, released, error>>
vars == <<there, impl, users, forgotten, given>>

TypeOK ==
    /\ there \subseteq Objects /\ given \subseteq Objects
    /\ \A o \in Objects :
           /\ hDll[o] \in SUBSET Libraries /\ Cardinality(hDll[o]) <= 1
           /\ path[o] = hDll[o]
           /\ released[o] \in BOOLEAN
           /\ error[o] \in {"", "already open", "not open", "why"}
    /\ users \in [Libraries -> 0..MaxUsers] /\ forgotten \in [Libraries -> 0..MaxUsers]

Init ==
    /\ there = {}
    /\ hDll = [o \in Objects |-> {}] /\ path = [o \in Objects |-> {}]
    /\ released = [o \in Objects |-> FALSE] /\ error = [o \in Objects |-> ""]
    /\ users = [l \in Libraries |-> 0] /\ forgotten = [l \in Libraries |-> 0]
    /\ given = {}

\* Every call but release() clears lastError() first, and says why when it fails.
Answer(o, why) == error' = [error EXCEPT ![o] = why]

Open(o, l) ==
    /\ o \in there
    /\ \/ /\ hDll[o] # {}
          /\ Answer(o, "already open") /\ UNCHANGED <<hDll, path, users, given>>
       \/ /\ hDll[o] = {}
          /\ Answer(o, "why")
          /\ path' = [path EXCEPT ![o] = {}] /\ UNCHANGED <<hDll, users, given>>
       \/ /\ hDll[o] = {} /\ users[l] < MaxUsers
          /\ Answer(o, "")
          /\ hDll' = [hDll EXCEPT ![o] = {l}] /\ path' = [path EXCEPT ![o] = {l}]
          /\ users' = [users EXCEPT ![l] = @ + 1] /\ given' = given \ {o}
    /\ UNCHANGED <<there, released, forgotten>>

\* dlclose() of whatever handle there is.
Unload(o) == users' = [l \in Libraries |-> IF l \in hDll[o] THEN users[l] - 1 ELSE users[l]]

Close(o) ==
    /\ o \in there
    /\ \/ /\ released[o]
          /\ released' = [released EXCEPT ![o] = FALSE]
          /\ hDll' = [hDll EXCEPT ![o] = {}] /\ path' = [path EXCEPT ![o] = {}]
          /\ forgotten' = [l \in Libraries |-> forgotten[l] + IF l \in hDll[o] THEN 1 ELSE 0]
          /\ Answer(o, "") /\ given' = given \ {o} /\ UNCHANGED users
       \/ /\ ~released[o] /\ hDll[o] # {}
          /\ Answer(o, "why") /\ UNCHANGED <<hDll, path, released, users, forgotten, given>>
       \/ /\ ~released[o]
          /\ Unload(o)
          /\ hDll' = [hDll EXCEPT ![o] = {}] /\ path' = [path EXCEPT ![o] = {}]
          /\ Answer(o, "") /\ given' = given \ {o} /\ UNCHANGED <<released, forgotten>>
    /\ UNCHANGED there

Release(o) ==
    /\ o \in there
    /\ released' = [released EXCEPT ![o] = TRUE]
    /\ given' = IF hDll[o] # {} THEN given \cup {o} ELSE given
    /\ UNCHANGED <<there, hDll, path, error, users, forgotten>>

Resolve(o) ==
    /\ o \in there
    /\ \/ hDll[o] = {} /\ Answer(o, "not open")
       \/ hDll[o] # {} /\ Answer(o, "why")
       \/ hDll[o] # {} /\ Answer(o, "")
    /\ UNCHANGED <<there, hDll, path, released, users, forgotten, given>>

-----------------------------------------------------------------------------
(* Construction, destruction, moves. *)

Construct(o) ==
    /\ o \notin there /\ there' = there \cup {o}
    /\ hDll' = [hDll EXCEPT ![o] = {}] /\ path' = [path EXCEPT ![o] = {}]
    /\ released' = [released EXCEPT ![o] = FALSE] /\ error' = [error EXCEPT ![o] = ""]
    /\ given' = given \ {o}
    /\ UNCHANGED <<users, forgotten>>

\* ~Impl: the result of the close is ignored, and a handle dlclose() refused is lost.
DestroyImpl(o) ==
    \/ Unload(o) /\ UNCHANGED forgotten
    \/ /\ UNCHANGED users
       /\ forgotten' = [l \in Libraries |-> forgotten[l] + IF l \in hDll[o] THEN 1 ELSE 0]

Destroy(o) ==
    /\ o \in there /\ there' = there \ {o}
    /\ DestroyImpl(o)
    /\ hDll' = [hDll EXCEPT ![o] = {}] /\ path' = [path EXCEPT ![o] = {}]
    /\ given' = given \ {o} /\ UNCHANGED <<released, error>>

\* Mutant: the target's Impl is copied over and never destroyed.
MoveOver(o, p) ==
    /\ o \in there /\ o # p
    /\ there' = (there \ {o}) \cup {p}
    /\ UNCHANGED <<users, forgotten>>
    /\ hDll' = [hDll EXCEPT ![p] = hDll[o], ![o] = {}]
    /\ path' = [path EXCEPT ![p] = path[o], ![o] = {}]
    /\ released' = [released EXCEPT ![p] = released[o]]
    /\ error' = [error EXCEPT ![p] = error[o]]
    /\ given' = (given \ {o, p}) \cup {q \in {p} : o \in given}

\* p is constructed from o or assigned it; the Impl p had is destroyed.
Move(o, p) ==
    /\ o \in there /\ o # p
    /\ there' = (there \ {o}) \cup {p}
    /\ DestroyImpl(p)
    /\ hDll' = [hDll EXCEPT ![p] = hDll[o], ![o] = {}]
    /\ path' = [path EXCEPT ![p] = path[o], ![o] = {}]
    /\ released' = [released EXCEPT ![p] = released[o]]
    /\ error' = [error EXCEPT ![p] = error[o]]
    /\ given' = (given \ {o, p}) \cup {q \in {p} : o \in given}

Next ==
    \E o \in Objects :
        \/ Construct(o) \/ Destroy(o) \/ Close(o) \/ Release(o) \/ Resolve(o)
        \/ \E l \in Libraries : Open(o, l)
        \/ \E p \in Objects : Move(o, p)

Spec == Init /\ [][Next]_vars

-----------------------------------------------------------------------------
(* Properties. *)

\* The loader's count of a library is the objects that hold it and the handles that were
\* given up: no handle is closed twice, and none is lost on the way through opens that fail,
\* closes that fail and moves.  In particular no object holds a library not mapped.
CountIsRight ==
    \A l \in Libraries :
        users[l] = Cardinality({o \in there : l \in hDll[o]}) + forgotten[l]

\* release() has given up the handle: destroying the object, the only one here, unloads nothing.
ReleasedStaysLoaded ==
    [][\A o \in given : (there = {o} /\ there' = {}) => users' = users]_vars

=============================================================================
