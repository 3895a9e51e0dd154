-------------------------- MODULE StaticRegistry ---------------------------
(***************************************************************************)
(* staticregistry.h: the list static objects link themselves into, before  *)
(* main and whenever a plugin is loaded.  A registration reads the tail,   *)
(* links and moves the tail; nothing is locked.  Readers walk the list     *)
(* while plugins are loaded.                                               *)
(***************************************************************************)
EXTENDS Integers, Sequences, SequencesExt, Functions

CONSTANTS
    Nodes,           \* the nodes, each inside an Add or AddFactory object
    Loaders,         \* threads that load plugins
    Readers,         \* threads that walk the list
    Serialized       \* TRUE if loads do not overlap, which the caller has to see to

VARIABLES
    pc,              \* [Loaders -> "idle", "link" or "tail"]
    adding,          \* [Loaders -> the node being added, as a set of at most one]
    seenTail,        \* [Loaders -> the tail read, as a set of at most one]
    head, tail,      \* sets of at most one node
    next,            \* [Nodes -> set of at most one node]
    registered,      \* history: the nodes whose constructor has returned, in order
    at,              \* [Readers -> the node the iterator is on, as a set of at most one]
    read,            \* [Readers -> the entries read in this walk]
    before           \* history: [Readers -> what was registered when the walk began]

vars == <<pc, adding, seenTail, head, tail, next, registered, at, read, before>>

Added == {registered[i] : i \in DOMAIN registered} \union UNION {adding[l] : l \in Loaders}

Init ==
    /\ pc = [l \in Loaders |-> "idle"]
    /\ adding = [l \in Loaders |-> {}] /\ seenTail = [l \in Loaders |-> {}]
    /\ head = {} /\ tail = {} /\ next = [n \in Nodes |-> {}]
    /\ registered = <<>>
    /\ at = [r \in Readers |-> {}] /\ read = [r \in Readers |-> <<>>]
    /\ before = [r \in Readers |-> <<>>]

\* add_node() begins: the tail is read.
AddNode(l, n) ==
    /\ pc[l] = "idle" /\ n \notin Added
    /\ Serialized => \A other \in Loaders : pc[other] = "idle"
    /\ adding' = [adding EXCEPT ![l] = {n}]
    /\ seenTail' = [seenTail EXCEPT ![l] = tail]
    /\ pc' = [pc EXCEPT ![l] = "link"]
    /\ UNCHANGED <<head, tail, next, registered, at, read, before>>

\* Mutant: the new node goes in front.
LinkInFront(l) ==
    /\ pc[l] = "link"
    /\ head' = adding[l]
    /\ next' = [n \in Nodes |-> IF n \in adding[l] THEN head ELSE next[n]]
    /\ pc' = [pc EXCEPT ![l] = "tail"]
    /\ UNCHANGED <<adding, seenTail, tail, registered, at, read, before>>

\* The node goes behind the tail, or becomes the head.
Link(l) ==
    /\ pc[l] = "link"
    /\ \/ /\ seenTail[l] # {}
          /\ next' = [n \in Nodes |-> IF n \in seenTail[l] THEN adding[l] ELSE next[n]]
          /\ UNCHANGED head
       \/ /\ seenTail[l] = {}
          /\ head' = adding[l]
          /\ UNCHANGED next
    /\ pc' = [pc EXCEPT ![l] = "tail"]
    /\ UNCHANGED <<adding, seenTail, tail, registered, at, read, before>>

MoveTail(l) ==
    /\ pc[l] = "tail"
    /\ tail' = adding[l]
    /\ \E n \in adding[l] : registered' = Append(registered, n)
    /\ adding' = [adding EXCEPT ![l] = {}]
    /\ pc' = [pc EXCEPT ![l] = "idle"]
    /\ UNCHANGED <<seenTail, head, next, at, read, before>>

\* begin(), and ++ until end().
BeginWalk(r) ==
    /\ at[r] = {}
    /\ at' = [at EXCEPT ![r] = head]
    /\ read' = [read EXCEPT ![r] = <<>>]
    /\ before' = [before EXCEPT ![r] = registered]
    /\ UNCHANGED <<pc, adding, seenTail, head, tail, next, registered>>

Increment(r) ==
    /\ \E n \in at[r] :
        /\ read' = [read EXCEPT ![r] = Append(@, n)]
        /\ at' = [at EXCEPT ![r] = next[n]]
    /\ UNCHANGED <<pc, adding, seenTail, head, tail, next, registered, before>>

Next ==
    \/ \E l \in Loaders : \/ \E n \in Nodes : AddNode(l, n)
                          \/ Link(l) \/ MoveTail(l)
    \/ \E r \in Readers : BeginWalk(r) \/ Increment(r)

Spec == Init /\ [][Next]_vars

-----------------------------------------------------------------------------
TypeOK ==
    /\ pc \in [Loaders -> {"idle", "link", "tail"}]
    /\ head \subseteq Nodes /\ tail \subseteq Nodes
    /\ next \in [Nodes -> SUBSET Nodes]

\* A walk that has ended has read everything registered before it began, in the order of
\* registration, each once (staticregistry.h 166-173).
EveryNodeIsRead ==
    \A r \in Readers : at[r] = {} =>
        /\ IsPrefix(before[r], read[r])
        /\ IsInjective(read[r])

-----------------------------------------------------------------------------
=============================================================================
