------------------------------ MODULE TypeIds ------------------------------
(***************************************************************************)
(* type_id.cpp, type_id.h: one address for every type, by its name.  Each  *)
(* module of the program has an entry of its own for a type, which caches  *)
(* the answer of the one table; modules come and go while threads compare. *)
(***************************************************************************)
EXTENDS Integers, FiniteSets

CONSTANTS
    Threads,
    Entries,         \* type_entry objects, one per type per module
    TypeOf,          \* [Entries -> types], by the name the compiler gives them
    MaxAddress       \* bound: nodes the table allocates


VARIABLES
    pc,              \* "idle", "load", "lock", "find", "emplace", "store", "answered"
    asked,           \* [Threads -> the entry being resolved, as a set of at most one]
    found,           \* [Threads -> the address found, or 0]
    loaded,          \* the entries whose module is loaded
    id,              \* [Entries -> the cached address, or 0]
    lock,            \* who holds the table's lock
    names,           \* the table: <<type, address of the stored name>>
    nextAddress,
    answers          \* history: <<type, address>> every caller was given

vars == <<pc, asked, found, loaded, id, lock, names, nextAddress, answers>>

Init ==
    /\ pc = [t \in Threads |-> "idle"]
    /\ asked = [t \in Threads |-> {}] /\ found = [t \in Threads |-> 0]
    /\ loaded = {} /\ id = [e \in Entries |-> 0]
    /\ lock = {} /\ names = {} /\ nextAddress = 1 /\ answers = {}

\* A module is loaded with its entry empty, and unloaded when nobody uses it.  The table stays.
Load(e) ==
    /\ e \notin loaded
    /\ loaded' = loaded \union {e}
    /\ id' = [id EXCEPT ![e] = 0]
    /\ UNCHANGED <<pc, asked, found, lock, names, nextAddress, answers>>

Unload(e) ==
    /\ e \in loaded /\ \A t \in Threads : e \notin asked[t]
    /\ loaded' = loaded \ {e}
    /\ UNCHANGED <<pc, asked, found, id, lock, names, nextAddress, answers>>

\* operator== of two entries that differ, or a hash: resolve_type_id() of an entry.
Ask(t, e) ==
    /\ pc[t] = "idle" /\ e \in loaded
    /\ asked' = [asked EXCEPT ![t] = {e}]
    /\ pc' = [pc EXCEPT ![t] = "load"]
    /\ UNCHANGED <<found, loaded, id, lock, names, nextAddress, answers>>

\* The cached id is read without the lock.
LoadCached(t) ==
    /\ pc[t] = "load"
    /\ \E e \in asked[t] :
        /\ found' = [found EXCEPT ![t] = id[e]]
        /\ pc' = [pc EXCEPT ![t] = IF id[e] # 0 THEN "answered" ELSE "lock"]
    /\ UNCHANGED <<asked, loaded, id, lock, names, nextAddress, answers>>

\* Mutant: nobody waits for the lock.
LockNothing(t) ==
    /\ pc[t] = "lock"
    /\ lock' = {t}
    /\ pc' = [pc EXCEPT ![t] = "find"]
    /\ UNCHANGED <<asked, found, loaded, id, names, nextAddress, answers>>

Lock(t) ==
    /\ pc[t] = "lock" /\ lock = {}
    /\ lock' = {t}
    /\ pc' = [pc EXCEPT ![t] = "find"]
    /\ UNCHANGED <<asked, found, loaded, id, names, nextAddress, answers>>

\* Mutant: who has waited for the lock puts the name in without looking for it.
FindNothing(t) ==
    /\ pc[t] = "find"
    /\ pc' = [pc EXCEPT ![t] = "emplace"]
    /\ UNCHANGED <<asked, found, loaded, id, lock, names, nextAddress, answers>>

\* The name is looked for again now that the lock is held.
Find(t) ==
    /\ pc[t] = "find"
    /\ \E e \in asked[t] :
        \/ \E n \in names :
            /\ n[1] = TypeOf[e]
            /\ found' = [found EXCEPT ![t] = n[2]]
            /\ pc' = [pc EXCEPT ![t] = "store"]
        \/ /\ \A n \in names : n[1] # TypeOf[e]
           /\ pc' = [pc EXCEPT ![t] = "emplace"]
           /\ UNCHANGED found
    /\ UNCHANGED <<asked, loaded, id, lock, names, nextAddress, answers>>

\* ... and put in at an address of its own.
Emplace(t) ==
    /\ pc[t] = "emplace" /\ nextAddress <= MaxAddress
    /\ \E e \in asked[t] : names' = names \union {<<TypeOf[e], nextAddress>>}
    /\ found' = [found EXCEPT ![t] = nextAddress]
    /\ nextAddress' = nextAddress + 1
    /\ pc' = [pc EXCEPT ![t] = "store"]
    /\ UNCHANGED <<asked, loaded, id, lock, answers>>

Store(t) ==
    /\ pc[t] = "store"
    /\ \E e \in asked[t] : id' = [id EXCEPT ![e] = found[t]]
    /\ lock' = {}
    /\ pc' = [pc EXCEPT ![t] = "answered"]
    /\ UNCHANGED <<asked, found, loaded, names, nextAddress, answers>>

Answer(t) ==
    /\ pc[t] = "answered"
    /\ \E e \in asked[t] : answers' = answers \union {<<TypeOf[e], found[t]>>}
    /\ asked' = [asked EXCEPT ![t] = {}]
    /\ pc' = [pc EXCEPT ![t] = "idle"]
    /\ UNCHANGED <<found, loaded, id, lock, names, nextAddress>>

Next ==
    \/ \E e \in Entries : Load(e) \/ Unload(e)
    \/ \E t \in Threads :
        \/ \E e \in Entries : Ask(t, e)
        \/ LoadCached(t) \/ Lock(t) \/ Find(t) \/ Emplace(t) \/ Store(t) \/ Answer(t)

Spec == Init /\ [][Next]_vars

-----------------------------------------------------------------------------
TypeOK ==
    /\ pc \in [Threads -> {"idle", "load", "lock", "find", "emplace", "store", "answered"}]
    /\ loaded \subseteq Entries
    /\ id \in [Entries -> 0..MaxAddress] /\ found \in [Threads -> 0..MaxAddress]
    /\ lock \subseteq Threads

\* Two ids are the same address exactly when they name the same type, whichever module and
\* whichever time they were made in: threads that ask first together, a module unloaded and
\* loaded again (type_id.cpp 31-49).
OneIdPerType == \A a, b \in answers : a[1] = b[1] <=> a[2] = b[2]
=============================================================================
