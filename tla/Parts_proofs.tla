---------------------------- MODULE Parts_proofs ----------------------------
(***************************************************************************)
(* What the parts guarantee, for any number of threads, objects, files and *)
(* modules.  Each section is one part: its inductive invariant, the steps  *)
(* of the part that keep it, and the theorem about every behaviour of the  *)
(* whole, in which another part's step leaves this part's variables alone. *)
(***************************************************************************)
EXTENDS Parts, Stores_proofs

\* Every step of the whole is, of each part, one of its own or none.
LEMMA EveryPartSteps ==
    ASSUME [Next]_vars
    PROVE  /\ [ChildFds!Next]_(ChildFds!vars) /\ [Guard!Next]_(Guard!vars)
           /\ [Library!Next]_(Library!vars) /\ [Console!Next]_(Console!vars)
           /\ [Registry!Next]_(Registry!vars) /\ [Types!Next]_(Types!vars)
           /\ [Static!Next]_(Static!vars) /\ [StoresNext]_storesVars
<1>1. [ChildFds!Next]_fdsVars /\ [Guard!Next]_guardVars /\ [Library!Next]_libraryVars
      /\ [Console!Next]_consoleVars /\ [Registry!Next]_registryVars
      /\ [Types!Next]_typeVars /\ [Static!Next]_staticVars /\ [StoresNext]_storesVars
      BY DEF Next, vars
<1>2. (UNCHANGED fdsVars => UNCHANGED ChildFds!vars) /\ (UNCHANGED guardVars => UNCHANGED Guard!vars)
      BY DEF fdsVars, ChildFds!vars, ChildFds!settings, guardVars, Guard!vars
<1>3. (UNCHANGED libraryVars => UNCHANGED Library!vars) /\ (UNCHANGED consoleVars => UNCHANGED Console!vars)
      BY DEF libraryVars, Library!vars, Library!impl, consoleVars, Console!vars, Console!calls
<1>4. UNCHANGED registryVars => UNCHANGED Registry!vars  BY DEF registryVars, Registry!vars
<1>5. (UNCHANGED typeVars => UNCHANGED Types!vars) /\ (UNCHANGED staticVars => UNCHANGED Static!vars)
      BY DEF typeVars, Types!vars, staticVars, Static!vars
<1>. QED  BY <1>1, <1>2, <1>3, <1>4, <1>5

LEMMA EveryPartBegins ==
    ASSUME Init
    PROVE  /\ ChildFds!Init /\ Guard!Init /\ Library!Init /\ Console!Init /\ Registry!Init
           /\ Types!Init /\ Static!Init /\ StoresInit
BY DEF Init

\* What the stores do as a part of the whole they do by themselves: the theorems about them hold
\* here.
THEOREM StoresAreParts == Spec => StoresSpec
<1>1. Init => StoresInit  BY EveryPartBegins
<1>2. [Next]_vars => [StoresNext]_storesVars  BY EveryPartSteps
<1>. QED  BY <1>1, <1>2, PTL DEF Spec, StoresSpec

-----------------------------------------------------------------------------
(* sigpipe_guard: with calls one at a time.  When they overlap, neither holds. *)

\* One guard at a time, which holds what the program wants while SIGPIPE is ignored.
GuardInv ==
    /\ Guard!TypeOK /\ guardAlive
    /\ \A t, u \in Callers : Guard!Inside(t) /\ Guard!Inside(u) => t = u
    /\ \A t \in Callers : Guard!Inside(t) => disposition = Ignore /\ old[t] = wanted
    /\ (\A t \in Callers : ~Guard!Inside(t)) => disposition = wanted

LEMMA GuardInit ==
  Guard!Init => GuardInv
  BY PartsAssumption DEF Guard!Init, GuardInv, Guard!TypeOK, Guard!Inside

LEMMA GuardStep ==
  GuardInv /\ [Guard!Next]_(Guard!vars) => GuardInv'
  <1> SUFFICES ASSUME GuardInv, [Guard!Next]_(Guard!vars) PROVE GuardInv'
    OBVIOUS
  <1> USE PartsAssumption DEF GuardInv, Guard!TypeOK, Guard!Inside
  <1>1. CASE UNCHANGED Guard!vars
    BY <1>1 DEF Guard!vars
  <1>2. CASE Guard!ProgramSets
    BY <1>2 DEF Guard!ProgramSets
  <1>3. ASSUME NEW t \in Callers, Guard!Install(t) PROVE GuardInv'
    BY <1>3 DEF Guard!Install
  <1>4. ASSUME NEW t \in Callers, Guard!PollWritable(t) PROVE GuardInv'
    BY <1>4 DEF Guard!PollWritable
  <1>5. ASSUME NEW t \in Callers, Guard!ChildStopsReading(t) PROVE GuardInv'
    BY <1>5 DEF Guard!ChildStopsReading
  <1>6. ASSUME NEW t \in Callers, Guard!Write(t) PROVE GuardInv'
    BY <1>6 DEF Guard!Write
  <1>7. ASSUME NEW t \in Callers, Guard!Restore(t) PROVE GuardInv'
    BY <1>7 DEF Guard!Restore
  <1>8. QED
    BY <1>1, <1>2, <1>3, <1>4, <1>5, <1>6, <1>7 DEF Guard!Next

\* A child that stops reading does not end the process, and between calls SIGPIPE is what the
\* program made it (popen_unix.cpp, sigpipe_guard), when calls do not overlap.
THEOREM SigpipeIsBorrowedHolds == Spec => []SigpipeIsBorrowed
<1>1. Init => GuardInv  BY EveryPartBegins, GuardInit
<1>2. GuardInv /\ [Next]_vars => GuardInv'  BY EveryPartSteps, GuardStep
<1>3. GuardInv => SigpipeIsBorrowed
      BY DEF GuardInv, SigpipeIsBorrowed, Guard!ProcessSurvives, Guard!PutBack
<1>. QED  BY <1>1, <1>2, <1>3, PTL DEF Spec

-----------------------------------------------------------------------------
(* SharedLibrary: the loader's count of every library is what the objects account for. *)

Holders(l) == {o \in there : l \in hDll[o]}

Shape ==
    /\ there \subseteq Objects
    /\ hDll \in [Objects -> SUBSET Libraries]
    /\ users \in [Libraries -> Int] /\ forgotten \in [Libraries -> Int]

\* Only an object that has an Impl has a handle: the one moved from, or destroyed, has not.
NoImplNoHandle == \A o \in Objects : o \notin there => hDll[o] = {}

\* The loader counts the objects that hold a library and the handles given up.
HoldersCounted ==
    \A l \in Libraries : users[l] = Cardinality(Holders(l)) + forgotten[l]

CountInv == Shape /\ NoImplNoHandle /\ HoldersCounted

\* What close(), the destructor and a move do to the count: the handle of o goes, and either
\* the loader's count goes down with it or it is given up.
Gone(o) ==
    \/ Library!Unload(o) /\ UNCHANGED forgotten
    \/ /\ UNCHANGED users
       /\ forgotten' = [l \in Libraries |-> forgotten[l] + IF l \in hDll[o] THEN 1 ELSE 0]

-----------------------------------------------------------------------------
(* Cardinalities. *)

\* The part counts with the same Cardinality.
LEMMA SameCardinality == \A S : Library!Cardinality(S) = Cardinality(S)
BY DEF Library!Cardinality, Cardinality

LEMMA HoldersFinite ==
    ASSUME Shape, NEW l \in Libraries
    PROVE  IsFiniteSet(Holders(l)) /\ Cardinality(Holders(l)) \in Nat
<1>1. Holders(l) \subseteq Objects  BY DEF Holders, Shape
<1>2. IsFiniteSet(Holders(l))  BY <1>1, FS_Subset, PartsAssumption
<1>. QED  BY <1>2, FS_CardinalityType

LEMMA CountAdd ==
    ASSUME NEW S, IsFiniteSet(S), NEW x, x \notin S
    PROVE  Cardinality(S \cup {x}) = Cardinality(S) + 1
BY FS_AddElement

LEMMA CountRemove ==
    ASSUME NEW S, IsFiniteSet(S), NEW x
    PROVE  /\ IsFiniteSet(S \ {x})
           /\ Cardinality(S \ {x}) = Cardinality(S) - IF x \in S THEN 1 ELSE 0
BY FS_RemoveElement, FS_CardinalityType

\* One object's handle goes, and nothing else changes.
LEMMA HandleGone ==
    ASSUME CountInv, NEW o \in Objects, Gone(o),
           NEW l \in Libraries
    PROVE  /\ users' \in [Libraries -> Int] /\ forgotten' \in [Libraries -> Int]
           /\ users[l]' = Cardinality(Holders(l) \ {o}) + forgotten[l]'
<1>1. IsFiniteSet(Holders(l)) /\ Cardinality(Holders(l)) \in Nat
      BY HoldersFinite DEF CountInv
<1>2. users[l] = Cardinality(Holders(l)) + forgotten[l]
      BY DEF CountInv, HoldersCounted, Holders
<1>3. Cardinality(Holders(l) \ {o})
        = Cardinality(Holders(l)) - IF o \in Holders(l) THEN 1 ELSE 0
      BY <1>1, CountRemove
<1>4. o \in Holders(l) <=> l \in hDll[o]
      BY DEF Holders, CountInv, NoImplNoHandle
<1>5. users \in [Libraries -> Int] /\ forgotten \in [Libraries -> Int]
      BY DEF CountInv, Shape
<1>6. CASE Library!Unload(o) /\ UNCHANGED forgotten
      BY <1>1, <1>2, <1>3, <1>4, <1>5, <1>6 DEF Library!Unload
<1>7. CASE /\ UNCHANGED users
           /\ forgotten' = [k \in Libraries |-> forgotten[k] + IF k \in hDll[o] THEN 1 ELSE 0]
      BY <1>1, <1>2, <1>3, <1>4, <1>5, <1>7
<1>. QED  BY <1>6, <1>7 DEF Gone

-----------------------------------------------------------------------------
(* The invariant. *)

\* A call that lets o's handle go and leaves the other objects alone.
LEMMA LetGo ==
    ASSUME CountInv, NEW o \in Objects, Gone(o),
           hDll' = [hDll EXCEPT ![o] = {}], there' \in {there, there \ {o}}
    PROVE  CountInv'
<1>1. ASSUME NEW l \in Libraries
      PROVE  users[l]' = Cardinality(Holders(l)') + forgotten[l]'
  <2>1. Holders(l)' = Holders(l) \ {o}  BY DEF Holders, CountInv, Shape
  <2>. QED  BY <2>1, HandleGone
<1>2. Shape'
  <2>1. CASE Libraries = {}
        BY <2>1 DEF Gone, Library!Unload, CountInv, Shape
  <2>2. CASE Libraries # {}
    <3>1. PICK l \in Libraries : TRUE  BY <2>2
    <3>. QED  BY <3>1, HandleGone DEF CountInv, Shape
  <2>. QED  BY <2>1, <2>2
<1>3. NoImplNoHandle'  BY DEF CountInv, NoImplNoHandle, Shape
<1>. QED  BY <1>1, <1>2, <1>3 DEF CountInv, HoldersCounted, Holders

LEMMA CountStep ==
    ASSUME CountInv, [Library!Next]_(Library!vars)
    PROVE  CountInv'
<1>1. CASE UNCHANGED Library!vars
      BY <1>1 DEF Library!vars, Library!impl, CountInv, Shape, NoImplNoHandle, HoldersCounted, Holders
<1>2. CASE Library!Next
  <2>1. PICK o \in Objects :
            \/ Library!Construct(o) \/ Library!Destroy(o) \/ Library!Close(o) \/ Library!Release(o) \/ Library!Resolve(o)
            \/ \E l \in Libraries : Library!Open(o, l)
            \/ \E p \in Objects : Library!Move(o, p)
        BY <1>2 DEF Library!Next
  <2>2. CASE Library!Construct(o)
    <3>1. hDll' = hDll  BY <2>2 DEF Library!Construct, CountInv, NoImplNoHandle, Shape
    <3>2. \A l \in Libraries : Holders(l)' = Holders(l)
          BY <2>2, <3>1 DEF Library!Construct, Holders, CountInv, NoImplNoHandle
    <3>3. Shape' /\ NoImplNoHandle'
          BY <2>2, <3>1 DEF Library!Construct, CountInv, Shape, NoImplNoHandle
    <3>4. HoldersCounted'
          BY <2>2, <3>2 DEF Library!Construct, CountInv, HoldersCounted, Holders
    <3>. QED  BY <3>3, <3>4 DEF CountInv
  <2>3. CASE Library!Destroy(o)
        BY <2>3, LetGo DEF Library!Destroy, Library!DestroyImpl, Gone
  <2>4. CASE Library!Close(o)
    <3>1. CASE UNCHANGED <<hDll, users, forgotten>>
          BY <2>4, <3>1 DEF Library!Close, CountInv, Shape, NoImplNoHandle, HoldersCounted, Holders
    <3>2. CASE Gone(o) /\ hDll' = [hDll EXCEPT ![o] = {}]
          BY <2>4, <3>2, LetGo DEF Library!Close
    <3>. QED  BY <2>4, <3>1, <3>2 DEF Library!Close, Gone
  <2>5. CASE Library!Release(o) \/ Library!Resolve(o)
        BY <2>5 DEF Library!Release, Library!Resolve, CountInv, Shape, NoImplNoHandle, HoldersCounted, Holders
  <2>6. ASSUME NEW l \in Libraries, Library!Open(o, l)  PROVE CountInv'
    <3>1. CASE UNCHANGED <<hDll, users>>
          BY <2>6, <3>1 DEF Library!Open, CountInv, Shape, NoImplNoHandle, HoldersCounted, Holders
    <3>2. CASE /\ hDll[o] = {} /\ hDll' = [hDll EXCEPT ![o] = {l}]
               /\ users' = [users EXCEPT ![l] = @ + 1]
      <4>1. o \in there /\ there' = there /\ forgotten' = forgotten  BY <2>6 DEF Library!Open
      <4>2. Shape' /\ NoImplNoHandle'
            BY <3>2, <4>1 DEF CountInv, Shape, NoImplNoHandle
      <4>3. ASSUME NEW k \in Libraries
            PROVE  users[k]' = Cardinality(Holders(k)') + forgotten[k]'
        <5>1. IsFiniteSet(Holders(k)) /\ Cardinality(Holders(k)) \in Nat
              BY HoldersFinite DEF CountInv
        <5>2. users[k] = Cardinality(Holders(k)) + forgotten[k]
              BY DEF CountInv, HoldersCounted, Holders
        <5>3. users[k] \in Int /\ forgotten[k] \in Int  BY DEF CountInv, Shape
        <5>4. o \notin Holders(k)  BY <3>2 DEF Holders
        <5>5. CASE k = l
          <6>1. Holders(k)' = Holders(k) \cup {o}
                BY <3>2, <4>1, <5>5 DEF Holders, CountInv, Shape
          <6>2. Cardinality(Holders(k)') = Cardinality(Holders(k)) + 1
                BY <5>1, <5>4, <6>1, CountAdd
          <6>. QED  BY <3>2, <4>1, <5>1, <5>2, <5>3, <5>5, <6>2 DEF CountInv, Shape
        <5>6. CASE k # l
          <6>1. Holders(k)' = Holders(k)
                BY <3>2, <4>1, <5>6 DEF Holders, CountInv, Shape
          <6>. QED  BY <3>2, <4>1, <5>2, <5>6, <6>1 DEF CountInv, Shape
        <5>. QED  BY <5>5, <5>6
      <4>. QED  BY <4>2, <4>3 DEF CountInv, HoldersCounted, Holders
    <3>. QED  BY <2>6, <3>1, <3>2 DEF Library!Open
  <2>7. ASSUME NEW p \in Objects, Library!Move(o, p)  PROVE CountInv'
    <3>1. /\ o \in there /\ o # p /\ there' = (there \ {o}) \cup {p} /\ Gone(p)
          /\ hDll' = [hDll EXCEPT ![p] = hDll[o], ![o] = {}]
          BY <2>7 DEF Library!Move, Library!DestroyImpl, Gone
    <3>2. hDll \in [Objects -> SUBSET Libraries]  BY DEF CountInv, Shape
    <3>3. hDll'[p] = hDll[o] /\ hDll'[o] = {}
          /\ \A q \in Objects \ {o, p} : hDll'[q] = hDll[q]
          BY <3>1, <3>2
    <3>4. ASSUME NEW l \in Libraries
          PROVE  users[l]' = Cardinality(Holders(l)') + forgotten[l]'
      <4>. DEFINE Rest == Holders(l) \ {p}
      <4>1. users[l]' = Cardinality(Rest) + forgotten[l]'
            BY <3>1, HandleGone
      <4>2. IsFiniteSet(Holders(l)) /\ IsFiniteSet(Rest) /\ Cardinality(Rest) \in Nat
            BY HoldersFinite, CountRemove, FS_CardinalityType DEF CountInv
      <4>3. CASE l \in hDll[o]
        <5>1. Holders(l)' = (Rest \ {o}) \cup {p} /\ p \notin Rest \ {o} /\ o \in Rest
              BY <3>1, <3>3, <4>3 DEF Holders, CountInv, Shape
        <5>2. IsFiniteSet(Rest \ {o}) /\ Cardinality(Rest \ {o}) = Cardinality(Rest) - 1
              BY <4>2, <5>1, CountRemove
        <5>3. Cardinality((Rest \ {o}) \cup {p}) = Cardinality(Rest \ {o}) + 1
              BY <5>1, <5>2, CountAdd
        <5>4. Cardinality(Holders(l)') = Cardinality(Rest)
              BY <4>2, <5>1, <5>2, <5>3
        <5>. QED  BY <4>1, <5>4
      <4>4. CASE l \notin hDll[o]
        <5>1. Holders(l)' = Rest
              BY <3>1, <3>3, <4>4 DEF Holders, CountInv, Shape
        <5>. QED  BY <4>1, <5>1
      <4>. QED  BY <4>3, <4>4
    <3>5. Shape'
      <4>1. there' \subseteq Objects /\ hDll' \in [Objects -> SUBSET Libraries]
            BY <3>1, <3>2 DEF CountInv, Shape
      <4>2. users' \in [Libraries -> Int] /\ forgotten' \in [Libraries -> Int]
            BY <3>1 DEF Gone, Library!Unload, CountInv, Shape
      <4>. QED  BY <4>1, <4>2 DEF Shape
    <3>6. NoImplNoHandle'
          BY <3>1, <3>3 DEF CountInv, NoImplNoHandle
    <3>. QED  BY <3>4, <3>5, <3>6 DEF CountInv, HoldersCounted, Holders
  <2>. QED  BY <2>1, <2>2, <2>3, <2>4, <2>5, <2>6, <2>7
<1>. QED  BY <1>1, <1>2

LEMMA CountInit ==
    ASSUME Library!Init
    PROVE  CountInv
<1>1. Shape /\ NoImplNoHandle
  <2>1. there = {} /\ hDll = [o \in Objects |-> {}]  BY DEF Library!Init
  <2>2. users = [l \in Libraries |-> 0] /\ forgotten = [l \in Libraries |-> 0]
        BY DEF Library!Init
  <2>3. users \in [Libraries -> Int] /\ forgotten \in [Libraries -> Int]  BY <2>2
  <2>4. there \subseteq Objects /\ hDll \in [Objects -> SUBSET Libraries]  BY <2>1
  <2>5. NoImplNoHandle  BY <2>1 DEF NoImplNoHandle
  <2>. QED  BY <2>3, <2>4, <2>5 DEF Shape
<1>2. there = {} /\ \A l \in Libraries : users[l] = 0 /\ forgotten[l] = 0
      BY DEF Library!Init
<1>3. \A l \in Libraries : {o \in there : l \in hDll[o]} = {}  BY <1>2
<1>4. Cardinality({}) = 0  BY FS_EmptySet
<1>5. HoldersCounted  BY <1>2, <1>3, <1>4 DEF HoldersCounted, Holders
<1>. QED  BY <1>1, <1>5 DEF CountInv

\* What the loader counts as users of a library is the objects that hold it and the handles
\* given up by release(), through every open(), close(), move and destruction.
THEOREM CountHolds == Spec => []CountIsRight
<1>1. Init => CountInv  BY EveryPartBegins, CountInit
<1>2. CountInv /\ [Next]_vars => CountInv'  BY EveryPartSteps, CountStep
<1>3. CountInv => CountIsRight
      BY SameCardinality DEF CountInv, HoldersCounted, Holders, CountIsRight, Library!CountIsRight
<1>. QED  BY <1>1, <1>2, <1>3, PTL DEF Spec

\* A handle is one library's, its path is that library's, no count goes below what it was given
\* up by and none above the loader's bound.
LibraryTypes ==
    /\ path = hDll
    /\ \A o \in Objects : hDll[o] = {} \/ \E l \in Libraries : hDll[o] = {l}
    /\ released \in [Objects -> BOOLEAN]
    /\ error \in [Objects -> {"", "already open", "not open", "why"}]
    /\ given \subseteq Objects
    /\ \A l \in Libraries : forgotten[l] >= 0 /\ users[l] <= MaxUsers

LEMMA LibraryBegins ==
    ASSUME Library!Init
    PROVE  LibraryTypes
<1>1. \A l \in Libraries : forgotten[l] = 0 /\ users[l] = 0  BY DEF Library!Init
<1>2. 0 >= 0 /\ 0 <= MaxUsers  BY PartsAssumption
<1>3. \A l \in Libraries : forgotten[l] >= 0 /\ users[l] <= MaxUsers  BY <1>1, <1>2, Zenon
<1>. QED  BY <1>3 DEF Library!Init, LibraryTypes

\* Handles go and are given up: the loader's count does not grow, that of the others does not shrink.
LEMMA GoneCounts ==
    ASSUME Shape, LibraryTypes, NEW o \in Objects, Gone(o)
    PROVE  \A l \in Libraries : forgotten'[l] >= 0 /\ users'[l] <= MaxUsers
<1>1. users \in [Libraries -> Int] /\ forgotten \in [Libraries -> Int]  BY DEF Shape
<1>2. \A l \in Libraries : users[l] \in Int /\ forgotten[l] \in Int  BY <1>1
<1>3. \A l \in Libraries : forgotten[l] >= 0 /\ users[l] <= MaxUsers  BY DEF LibraryTypes
<1>4. ASSUME NEW l \in Libraries
      PROVE  \/ users'[l] \in {users[l], users[l] - 1} /\ forgotten'[l] = forgotten[l]
             \/ users'[l] = users[l] /\ forgotten'[l] \in {forgotten[l], forgotten[l] + 1}
      BY <1>1, <1>2 DEF Gone, Library!Unload
<1>5. MaxUsers \in Nat  BY PartsAssumption
<1>. QED  BY <1>2, <1>3, <1>4, <1>5

LEMMA LibraryTypesStep ==
    ASSUME CountInv, LibraryTypes, [Library!Next]_(Library!vars)
    PROVE  LibraryTypes'
<1>1. CASE UNCHANGED Library!vars
      BY <1>1 DEF Library!vars, Library!impl, LibraryTypes
<1>2. CASE Library!Next
  <2>1. PICK o \in Objects :
            \/ Library!Construct(o) \/ Library!Destroy(o) \/ Library!Close(o) \/ Library!Release(o) \/ Library!Resolve(o)
            \/ \E l \in Libraries : Library!Open(o, l)
            \/ \E p \in Objects : Library!Move(o, p)
        BY <1>2 DEF Library!Next
  <2>2. /\ Shape /\ hDll \in [Objects -> SUBSET Libraries]
        /\ users \in [Libraries -> Int] /\ forgotten \in [Libraries -> Int]
        BY DEF CountInv, Shape
  <2>3. CASE Library!Construct(o)
        BY <2>2, <2>3 DEF Library!Construct, LibraryTypes
  <2>4. CASE Library!Destroy(o)
    <3>1. Gone(o)  BY <2>4 DEF Library!Destroy, Library!DestroyImpl, Gone
    <3>2. \A l \in Libraries : forgotten'[l] >= 0 /\ users'[l] <= MaxUsers
          BY <2>2, <3>1, GoneCounts
    <3>. QED  BY <2>2, <2>4, <3>2 DEF Library!Destroy, LibraryTypes
  <2>5. CASE Library!Close(o)
    <3>1. \A l \in Libraries : forgotten'[l] >= 0 /\ users'[l] <= MaxUsers
      <4>1. CASE Gone(o)  BY <2>2, <4>1, GoneCounts
      <4>2. CASE UNCHANGED <<users, forgotten>>  BY <4>2 DEF LibraryTypes
      <4>. QED  BY <2>5, <4>1, <4>2 DEF Library!Close, Gone
    <3>2. error' \in [Objects -> {"", "already open", "not open", "why"}]
          BY <2>5 DEF Library!Close, Library!Answer, LibraryTypes
    <3>3. released' \in [Objects -> BOOLEAN] /\ given' \subseteq Objects
          BY <2>5 DEF Library!Close, LibraryTypes
    <3>4. /\ path' = hDll'
          /\ \A q \in Objects : hDll'[q] = {} \/ \E l \in Libraries : hDll'[q] = {l}
          BY <2>2, <2>5 DEF Library!Close, LibraryTypes
    <3>. QED  BY <3>1, <3>2, <3>3, <3>4 DEF LibraryTypes
  <2>6. CASE Library!Release(o) \/ Library!Resolve(o)
        BY <2>6 DEF Library!Release, Library!Resolve, Library!Answer, LibraryTypes
  <2>7. ASSUME NEW l \in Libraries, Library!Open(o, l)  PROVE LibraryTypes'
    <3>1. CASE UNCHANGED <<hDll, users, given>>
      <4>1. path' = hDll'
        <5>1. path = hDll  BY DEF LibraryTypes
        <5>2. CASE path' = path  BY <3>1, <5>1, <5>2
        <5>3. CASE hDll[o] = {} /\ path' = [path EXCEPT ![o] = {}]
              BY <2>2, <3>1, <5>1, <5>3
        <5>4. CASE users' = [users EXCEPT ![l] = @ + 1]
          <6>1. users[l] \in Int /\ users'[l] = users[l] + 1  BY <2>2, <5>4
          <6>. QED  BY <3>1, <6>1
        <5>. QED  BY <2>7, <5>2, <5>3, <5>4 DEF Library!Open
      <4>2. error' \in [Objects -> {"", "already open", "not open", "why"}]
            BY <2>7 DEF Library!Open, Library!Answer, LibraryTypes
      <4>. QED  BY <2>7, <3>1, <4>1, <4>2 DEF Library!Open, LibraryTypes
    <3>2. CASE /\ users[l] < MaxUsers
               /\ hDll' = [hDll EXCEPT ![o] = {l}] /\ path' = [path EXCEPT ![o] = {l}]
               /\ users' = [users EXCEPT ![l] = @ + 1] /\ given' = given \ {o}
      <4>1. \A k \in Libraries : users[k] \in Int  BY <2>2
      <4>2. ASSUME NEW k \in Libraries  PROVE users'[k] <= MaxUsers
        <5>1. users'[k] = IF k = l THEN users[l] + 1 ELSE users[k]  BY <2>2, <3>2
        <5>2. users[k] <= MaxUsers  BY DEF LibraryTypes
        <5>. QED  BY <3>2, <4>1, <5>1, <5>2, PartsAssumption
      <4>3. error' \in [Objects -> {"", "already open", "not open", "why"}]
            BY <2>7 DEF Library!Open, Library!Answer, LibraryTypes
      <4>4. released' = released /\ forgotten' = forgotten  BY <2>7 DEF Library!Open
      <4>5. /\ path' = hDll'
            /\ \A q \in Objects : hDll'[q] = {} \/ \E k \in Libraries : hDll'[q] = {k}
            BY <2>2, <3>2 DEF LibraryTypes
      <4>. QED  BY <3>2, <4>2, <4>3, <4>4, <4>5 DEF LibraryTypes
    <3>. QED  BY <2>7, <3>1, <3>2 DEF Library!Open
  <2>8. ASSUME NEW p \in Objects, Library!Move(o, p)  PROVE LibraryTypes'
    <3>1. Gone(p)  BY <2>8 DEF Library!Move, Library!DestroyImpl, Gone
    <3>2. \A l \in Libraries : forgotten'[l] >= 0 /\ users'[l] <= MaxUsers
          BY <2>2, <3>1, GoneCounts
    <3>3. /\ hDll' = [hDll EXCEPT ![p] = hDll[o], ![o] = {}]
          /\ path' = [path EXCEPT ![p] = path[o], ![o] = {}]
          BY <2>8 DEF Library!Move
    <3>4. released' \in [Objects -> BOOLEAN] /\ error' \in [Objects -> {"", "already open", "not open", "why"}]
          BY <2>8 DEF Library!Move, LibraryTypes
    <3>5. given' \subseteq Objects  BY <2>8 DEF Library!Move, LibraryTypes
    <3>6. /\ path' = hDll'
          /\ \A q \in Objects : hDll'[q] = {} \/ \E k \in Libraries : hDll'[q] = {k}
          BY <2>2, <3>3 DEF LibraryTypes
    <3>. QED  BY <3>2, <3>4, <3>5, <3>6 DEF LibraryTypes
  <2>. QED  BY <2>1, <2>3, <2>4, <2>5, <2>6, <2>7, <2>8
<1>. QED  BY <1>1, <1>2

LEMMA LibraryTypeCorrect ==
    ASSUME CountInv, LibraryTypes
    PROVE  Library!TypeOK
<1>1. ASSUME NEW o \in Objects
      PROVE  hDll[o] \in SUBSET Libraries /\ Library!Cardinality(hDll[o]) <= 1
  <2>1. \A l : Cardinality({l}) = 1  BY FS_Singleton
  <2>2. Cardinality({}) = 0  BY FS_EmptySet
  <2>3. Cardinality(hDll[o]) = 0 \/ Cardinality(hDll[o]) = 1  BY <2>1, <2>2 DEF LibraryTypes
  <2>4. \A n : n = 0 \/ n = 1 => n <= 1  OBVIOUS
  <2>5. Library!Cardinality(hDll[o]) <= 1  BY <2>3, <2>4, SameCardinality
  <2>. QED  BY <2>5 DEF CountInv, Shape
<1>2. ASSUME NEW l \in Libraries
      PROVE  users[l] \in 0..MaxUsers /\ forgotten[l] \in 0..MaxUsers
  <2>1. Cardinality(Holders(l)) \in Nat  BY HoldersFinite DEF CountInv
  <2>2. users[l] = Cardinality(Holders(l)) + forgotten[l]
        BY DEF CountInv, HoldersCounted, Holders
  <2>3. users[l] \in Int /\ forgotten[l] \in Int  BY DEF CountInv, Shape
  <2>4. forgotten[l] >= 0 /\ users[l] <= MaxUsers  BY DEF LibraryTypes
  <2>. HIDE DEF Holders
  <2>. QED  BY <2>1, <2>2, <2>3, <2>4, PartsAssumption
<1>3. users \in [Libraries -> 0..MaxUsers] /\ forgotten \in [Libraries -> 0..MaxUsers]
      BY <1>2 DEF CountInv, Shape
<1>. QED  BY <1>1, <1>3 DEF Library!TypeOK, LibraryTypes, CountInv, Shape

-----------------------------------------------------------------------------
(* Type identity: the table of names is read and written under its lock. *)

\* A thread inside resolve_type_id() is there for one entry.
AskedInv ==
    /\ typeAsked \in [Threads -> SUBSET Entries]
    /\ \A t \in Threads : typePc[t] # "idle" => \E e \in Entries : typeAsked[t] = {e}

\* Who is between the lock and the unlock is the holder.
LockHeld == \A t \in Threads : typePc[t] \in {"find", "emplace", "store"} => typeLock = {t}

\* A name is in the table once, every name at an address of its own, and the next one is fresh.
TableInv ==
    /\ nextAddress \in 1..(MaxAddress + 1)
    /\ \A n \in names : n = <<n[1], n[2]>> /\ n[2] \in 1..MaxAddress /\ n[2] < nextAddress
    /\ \A n, m \in names : n[1] = m[1] <=> n[2] = m[2]

\* Who found no name still finds none when it puts its own in.
StillMissing ==
    \A t \in Threads : typePc[t] = "emplace" => \A e \in typeAsked[t], n \in names : n[1] # TypeOf[e]

\* An address that is cached, about to be handed out or handed out is that of the name.
FoundInv ==
    /\ \A t \in Threads : typePc[t] \in {"store", "answered"} =>
           \A e \in typeAsked[t] : <<TypeOf[e], found[t]>> \in names
    /\ \A e \in Entries : typeId[e] # 0 => <<TypeOf[e], typeId[e]>> \in names
    /\ answers \subseteq names

TypesInv ==
    /\ Types!TypeOK /\ AskedInv /\ LockHeld
    /\ TableInv /\ StillMissing /\ FoundInv

LEMMA TypesInit ==
  Types!Init => TypesInv
  BY PartsAssumption DEF Types!Init, TypesInv, Types!TypeOK, AskedInv, LockHeld, TableInv, StillMissing, FoundInv

LEMMA TypesStep ==
  TypesInv /\ [Types!Next]_(Types!vars) => TypesInv'
  <1> SUFFICES ASSUME TypesInv, [Types!Next]_(Types!vars) PROVE TypesInv'
    OBVIOUS
  <1> USE PartsAssumption DEF TypesInv
  <1>1. CASE UNCHANGED Types!vars
    BY <1>1 DEF Types!vars, Types!TypeOK, AskedInv, LockHeld, TableInv, StillMissing, FoundInv
  <1>2. ASSUME NEW e \in Entries, Types!Load(e) \/ Types!Unload(e) PROVE TypesInv'
    <2>1. Types!TypeOK' /\ AskedInv'
      BY <1>2 DEF Types!Load, Types!Unload, Types!TypeOK, AskedInv
    <2>2. LockHeld'
      BY <1>2 DEF Types!Load, Types!Unload, Types!TypeOK, LockHeld
    <2>3. TableInv'
      BY <1>2 DEF Types!Load, Types!Unload, Types!TypeOK, TableInv
    <2>4. StillMissing'
      BY <1>2 DEF Types!Load, Types!Unload, Types!TypeOK, LockHeld, AskedInv, StillMissing
    <2>5. FoundInv'
      BY <1>2 DEF Types!Load, Types!Unload, Types!TypeOK, AskedInv, FoundInv
    <2> QED
      BY <2>1, <2>2, <2>3, <2>4, <2>5
  <1>3. ASSUME NEW t \in Threads, NEW e \in Entries, Types!Ask(t, e) PROVE TypesInv'
    <2>1. Types!TypeOK' /\ AskedInv'
      BY <1>3 DEF Types!Ask, Types!TypeOK, AskedInv
    <2>2. LockHeld'
      BY <1>3 DEF Types!Ask, Types!TypeOK, LockHeld
    <2>3. TableInv'
      BY <1>3 DEF Types!Ask, Types!TypeOK, TableInv
    <2>4. StillMissing'
      BY <1>3 DEF Types!Ask, Types!TypeOK, LockHeld, AskedInv, StillMissing
    <2>5. FoundInv'
      BY <1>3 DEF Types!Ask, Types!TypeOK, AskedInv, FoundInv
    <2> QED
      BY <2>1, <2>2, <2>3, <2>4, <2>5
  <1>4. ASSUME NEW t \in Threads, Types!LoadCached(t) PROVE TypesInv'
    <2>1. Types!TypeOK' /\ AskedInv'
      BY <1>4 DEF Types!LoadCached, Types!TypeOK, AskedInv
    <2>2. LockHeld'
      BY <1>4 DEF Types!LoadCached, Types!TypeOK, LockHeld
    <2>3. TableInv'
      BY <1>4 DEF Types!LoadCached, Types!TypeOK, TableInv
    <2>4. StillMissing'
      BY <1>4 DEF Types!LoadCached, Types!TypeOK, LockHeld, AskedInv, StillMissing
    <2>5. FoundInv'
      BY <1>4, SMTT(30) DEF Types!LoadCached, Types!TypeOK, AskedInv, FoundInv
    <2> QED
      BY <2>1, <2>2, <2>3, <2>4, <2>5
  <1>5. ASSUME NEW t \in Threads, Types!Lock(t) PROVE TypesInv'
    <2>1. Types!TypeOK' /\ AskedInv'
      BY <1>5 DEF Types!Lock, Types!TypeOK, AskedInv
    <2>2. LockHeld'
      BY <1>5 DEF Types!Lock, Types!TypeOK, LockHeld
    <2>3. TableInv'
      BY <1>5 DEF Types!Lock, Types!TypeOK, TableInv
    <2>4. StillMissing'
      BY <1>5 DEF Types!Lock, Types!TypeOK, LockHeld, AskedInv, StillMissing
    <2>5. FoundInv'
      BY <1>5 DEF Types!Lock, Types!TypeOK, AskedInv, FoundInv
    <2> QED
      BY <2>1, <2>2, <2>3, <2>4, <2>5
  <1>6. ASSUME NEW t \in Threads, Types!Find(t) PROVE TypesInv'
    <2>1. Types!TypeOK' /\ AskedInv'
      <3>1. \A n \in names : n[2] \in 0..MaxAddress
        BY DEF TableInv
      <3> QED
        BY <1>6, <3>1 DEF Types!Find, Types!TypeOK, AskedInv
    <2>2. LockHeld'
      BY <1>6 DEF Types!Find, Types!TypeOK, LockHeld
    <2>3. TableInv'
      BY <1>6 DEF Types!Find, Types!TypeOK, TableInv
    <2>4. StillMissing'
      BY <1>6 DEF Types!Find, Types!TypeOK, LockHeld, AskedInv, StillMissing
    <2>5. FoundInv'
      <3>1. \A n \in names : n = <<n[1], n[2]>>
        BY DEF TableInv
      <3>2. PICK e \in Entries : typeAsked[t] = {e}
        BY <1>6 DEF Types!Find, AskedInv
      <3>3. typePc'[t] = "store" => <<TypeOf[e], found'[t]>> \in names
        BY <1>6, <3>1, <3>2 DEF Types!Find, Types!TypeOK
      <3> QED
        BY <1>6, <3>2, <3>3 DEF Types!Find, Types!TypeOK, FoundInv
    <2> QED
      BY <2>1, <2>2, <2>3, <2>4, <2>5
  <1>7. ASSUME NEW t \in Threads, Types!Emplace(t) PROVE TypesInv'
    <2> PICK e \in Entries : typeAsked[t] = {e}
      BY <1>7 DEF Types!Emplace, AskedInv
    <2> DEFINE new == <<TypeOf[e], nextAddress>>
    <2>0. names' = names \union {new} /\ nextAddress \in 1..MaxAddress
      BY <1>7 DEF Types!Emplace, TableInv
    <2>1. Types!TypeOK' /\ AskedInv'
      BY <1>7, <2>0 DEF Types!Emplace, Types!TypeOK, AskedInv
    <2>2. LockHeld'
      BY <1>7 DEF Types!Emplace, Types!TypeOK, LockHeld
    <2>3. TableInv'
      <3>1. new = <<new[1], new[2]>> /\ new[2] = nextAddress
        OBVIOUS
      <3>2. \A n \in names : n[1] # new[1] /\ n[2] # new[2]
        BY <1>7, <2>0 DEF Types!Emplace, TableInv, StillMissing
      <3>3. \A n, m \in names' : n[1] = m[1] <=> n[2] = m[2]
        BY <2>0, <3>2 DEF TableInv
      <3>4. nextAddress' = nextAddress + 1
        BY <1>7 DEF Types!Emplace
      <3>5. \A n \in names' : n = <<n[1], n[2]>> /\ n[2] \in 1..MaxAddress /\ n[2] < nextAddress'
        BY <2>0, <3>1, <3>4 DEF TableInv
      <3> QED
        BY <2>0, <3>3, <3>4, <3>5 DEF TableInv
    <2>4. StillMissing'
      BY <1>7, SMTT(30) DEF Types!Emplace, Types!TypeOK, LockHeld, AskedInv, StillMissing
    <2>5. FoundInv'
      BY <1>7 DEF Types!Emplace, Types!TypeOK, AskedInv, FoundInv
    <2> QED
      BY <2>1, <2>2, <2>3, <2>4, <2>5
  <1>8. ASSUME NEW t \in Threads, Types!Store(t) PROVE TypesInv'
    <2>1. Types!TypeOK' /\ AskedInv'
      BY <1>8 DEF Types!Store, Types!TypeOK, AskedInv
    <2>2. LockHeld'
      BY <1>8 DEF Types!Store, Types!TypeOK, LockHeld
    <2>3. TableInv'
      BY <1>8 DEF Types!Store, Types!TypeOK, TableInv
    <2>4. StillMissing'
      BY <1>8 DEF Types!Store, Types!TypeOK, LockHeld, AskedInv, StillMissing
    <2>5. FoundInv'
      BY <1>8, SMTT(30) DEF Types!Store, Types!TypeOK, AskedInv, FoundInv
    <2> QED
      BY <2>1, <2>2, <2>3, <2>4, <2>5
  <1>9. ASSUME NEW t \in Threads, Types!Answer(t) PROVE TypesInv'
    <2>1. Types!TypeOK' /\ AskedInv'
      BY <1>9 DEF Types!Answer, Types!TypeOK, AskedInv
    <2>2. LockHeld'
      BY <1>9 DEF Types!Answer, Types!TypeOK, LockHeld
    <2>3. TableInv'
      BY <1>9 DEF Types!Answer, Types!TypeOK, TableInv
    <2>4. StillMissing'
      BY <1>9 DEF Types!Answer, Types!TypeOK, LockHeld, AskedInv, StillMissing
    <2>5. FoundInv'
      BY <1>9 DEF Types!Answer, Types!TypeOK, AskedInv, FoundInv
    <2> QED
      BY <2>1, <2>2, <2>3, <2>4, <2>5
  <1> QED
    BY <1>1, <1>2, <1>3, <1>4, <1>5, <1>6, <1>7, <1>8, <1>9 DEF Types!Next

\* Two ids are equal exactly when they are of one type, whichever module and thread asked first
\* (type_id.cpp 31-49).
THEOREM OneIdHolds == Spec => []OneIdPerType
<1>1. Init => TypesInv  BY EveryPartBegins, TypesInit
<1>2. TypesInv /\ [Next]_vars => TypesInv'  BY EveryPartSteps, TypesStep
<1>3. TypesInv => OneIdPerType
      BY DEF TypesInv, TableInv, FoundInv, OneIdPerType, Types!OneIdPerType
<1>. QED  BY <1>1, <1>2, <1>3, PTL DEF Spec

-----------------------------------------------------------------------------
(* What the writers remember about their targets. *)

TargetTypes ==
    /\ fileno \in [Files -> ConsoleFds \cup {Console!None}] /\ behind \in [ConsoleFds -> Console!Kinds]
    /\ cache \in Seq(Console!Slot)
    /\ consolePc \in [Threads -> {"out", "readId", "lookUp"}]
    /\ target \in [Threads -> Files \cup {Console!AnyFile}] /\ id \in [Threads -> ConsoleFds \cup {Console!None}]
    /\ kind \in [Threads -> Console!Kinds]

\* A descriptor has one FILE.
OneFile == \A f, g \in Files : fileno[f] = fileno[g] /\ fileno[f] # Console!None => f = g

\* The FILE of a write stays open, under the number read, and is not redirected meanwhile.
UseInv ==
    \A t \in Threads :
        /\ consolePc[t] # "out" =>
               target[t] \in Files /\ fileno[target[t]] # Console!None /\ target[t] \notin redirected
        /\ consolePc[t] = "lookUp" => id[t] = fileno[target[t]]

\* An entry that would be trusted is true, unless set_color_mode() is still to be called or the
\* FILE has come back at its address and number.
CacheInv ==
    \A i \in 1..Len(cache) :
        fileno[cache[i].file] = cache[i].id /\ cache[i].file \notin redirected
            => cache[i].kind = behind[cache[i].id] \/ <<cache[i].file, cache[i].id>> \in recurred

TargetInv == TargetTypes /\ OneFile /\ UseInv /\ CacheInv

-----------------------------------------------------------------------------
\* What Remember() leaves in the table: what was there, and the new entry.
LEMMA Remembered ==
    ASSUME cache \in Seq(Console!Slot), NEW t \in Threads, NEW e \in Console!Slot, Console!Remember(t, e)
    PROVE  /\ cache' \in Seq(Console!Slot)
           /\ \A i \in 1..Len(cache') : cache'[i] = e \/ \E j \in 1..Len(cache) : cache'[i] = cache[j]
<1>1. Len(cache) \in Nat /\ \A i \in 1..Len(cache) : cache[i] \in Console!Slot
      BY ElementOfSeq
<1>2. CASE cache' = [i \in 1..Len(cache) |-> IF cache[i].file = target[t] THEN e ELSE cache[i]]
  <2>. DEFINE n == Len(cache)
              r == [i \in 1..n |-> IF cache[i].file = target[t] THEN e ELSE cache[i]]
  <2>1. r \in [1..n -> Console!Slot]  BY <1>1
  <2>2. r \in Seq(Console!Slot)  BY <1>1, <2>1, SeqDef
  <2>3. \A i \in 1..n : r[i] = e \/ r[i] = cache[i]  OBVIOUS
  <2>4. DOMAIN r = 1..n /\ DOMAIN r = 1..Len(r)  BY <2>2, LenProperties
  <2>. HIDE DEF r, n
  <2>5. \A i \in 1..Len(r) : i \in 1..n /\ (r[i] = e \/ r[i] = cache[i])  BY <2>3, <2>4
  <2>6. cache' = r  BY <1>2 DEF r, n
  <2>. QED  BY <2>2, <2>5, <2>6 DEF n
<1>3. CASE cache' = Append(cache, e)
  <2>1. /\ Append(cache, e) \in Seq(Console!Slot) /\ Len(Append(cache, e)) = Len(cache) + 1
        /\ \A i \in 1..(Len(cache) + 1) :
               Append(cache, e)[i] = IF i <= Len(cache) THEN cache[i] ELSE e
        BY AppendProperties
  <2>2. \A i \in 1..(Len(cache) + 1) : i \in 1..Len(cache) \/ ~(i <= Len(cache))  BY <1>1
  <2>. QED  BY <1>1, <1>3, <2>1, <2>2
<1>4. CASE cache' = cache  BY <1>4
<1>. QED  BY <1>2, <1>3, <1>4 DEF Console!Remember

LEMMA NoneIsNoFd == Console!None \notin ConsoleFds
BY PartsAssumption DEF Console!None

LEMMA TargetStep ==
    ASSUME TargetInv, [Console!Next]_(Console!vars)
    PROVE  TargetInv'
<1>. USE NoneIsNoFd
<1>1. CASE UNCHANGED Console!vars
      BY <1>1 DEF Console!vars, Console!calls, TargetInv, TargetTypes, OneFile, UseInv, CacheInv
<1>2. ASSUME NEW f \in Files, Console!Fopen(f)  PROVE TargetInv'
  <2>1. PICK n \in ConsoleFds :
            /\ fileno[f] = Console!None /\ \A g \in Files : fileno[g] # n
            /\ fileno' = [fileno EXCEPT ![f] = n]
            /\ \E k \in Console!Kinds : behind' = [behind EXCEPT ![n] = k]
            /\ recurred' = recurred \cup ({<<f, n>>} \cap Console!Remembered(cache))
        BY <1>2 DEF Console!Fopen
  <2>2. UNCHANGED <<cache, consolePc, target, id, kind, redirected>>  BY <1>2 DEF Console!Fopen, Console!calls
  <2>3. TargetTypes'  BY <2>1, <2>2 DEF TargetInv, TargetTypes
  <2>4. fileno \in [Files -> ConsoleFds \cup {Console!None}] /\ behind \in [ConsoleFds -> Console!Kinds]
        /\ cache \in Seq(Console!Slot)
        BY DEF TargetInv, TargetTypes
  <2>5. fileno'[f] = n /\ n # Console!None /\ \A g \in Files : g # f => fileno'[g] = fileno[g]
        BY <2>1, <2>4
  <2>6. OneFile'  BY <2>1, <2>5 DEF TargetInv, OneFile
  <2>7. UseInv'
        BY <2>1, <2>2, <2>5 DEF TargetInv, UseInv
  <2>9. CacheInv'
    <3>. SUFFICES ASSUME NEW i \in 1..Len(cache), fileno'[cache[i].file] = cache[i].id,
                         cache[i].file \notin redirected, <<cache[i].file, cache[i].id>> \notin recurred'
                  PROVE  cache[i].kind = behind'[cache[i].id]
         BY <2>2 DEF CacheInv
    <3>1. cache[i] \in Console!Slot  BY <2>4, ElementOfSeq
    <3>2. cache[i].file \in Files /\ cache[i].id \in ConsoleFds  BY <3>1 DEF Console!Slot
    <3>3. cache[i].file # f /\ <<cache[i].file, cache[i].id>> \notin recurred
      <4>1. <<cache[i].file, cache[i].id>> \in Console!Remembered(cache)  BY DEF Console!Remembered
      <4>. QED  BY <2>1, <2>5, <4>1
    <3>4. fileno[cache[i].file] = cache[i].id  BY <2>5, <3>2, <3>3
    <3>5. cache[i].id # n  BY <2>1, <3>2, <3>4
    <3>6. behind'[cache[i].id] = behind[cache[i].id]  BY <2>1, <2>4, <3>2, <3>5
    <3>. QED  BY <3>3, <3>4, <3>6 DEF TargetInv, CacheInv
  <2>. QED  BY <2>3, <2>6, <2>7, <2>9 DEF TargetInv
<1>3. ASSUME NEW f \in Files, Console!Fclose(f)  PROVE TargetInv'
  <2>1. /\ ~Console!InUse(f) /\ fileno' = [fileno EXCEPT ![f] = Console!None] /\ redirected' = redirected \ {f}
        /\ UNCHANGED <<behind, cache, consolePc, target, id, kind, recurred>>
        BY <1>3 DEF Console!Fclose, Console!calls
  <2>2. TargetTypes'  BY <2>1 DEF TargetInv, TargetTypes
  <2>3. fileno'[f] = Console!None /\ \A g \in Files : g # f => fileno'[g] = fileno[g]
        BY <2>1 DEF TargetInv, TargetTypes
  <2>4. OneFile'  BY <2>3 DEF TargetInv, OneFile
  <2>5. UseInv'  BY <2>1, <2>3 DEF TargetInv, UseInv, Console!InUse
  <2>7. CacheInv'
    <3>. SUFFICES ASSUME NEW i \in 1..Len(cache), fileno'[cache[i].file] = cache[i].id,
                         cache[i].file \notin redirected'
                  PROVE  cache[i].kind = behind[cache[i].id] \/ <<cache[i].file, cache[i].id>> \in recurred
         BY <2>1 DEF CacheInv
    <3>1. cache[i] \in Console!Slot  BY ElementOfSeq DEF TargetInv, TargetTypes
    <3>2. cache[i].file \in Files /\ cache[i].id \in ConsoleFds  BY <3>1 DEF Console!Slot
    <3>3. cache[i].file # f  BY <2>3, <3>2
    <3>. QED  BY <2>1, <2>3, <3>2, <3>3 DEF TargetInv, CacheInv
  <2>. QED  BY <2>2, <2>4, <2>5, <2>7 DEF TargetInv
<1>4. ASSUME NEW f \in Files, Console!Freopen(f)  PROVE TargetInv'
  <2>1. /\ fileno[f] # Console!None /\ ~Console!InUse(f) /\ redirected' = redirected \cup {f}
        /\ UNCHANGED <<fileno, cache, consolePc, target, id, kind, recurred>>
        BY <1>4 DEF Console!Freopen, Console!calls
  <2>2. PICK k \in Console!Kinds : behind' = [behind EXCEPT ![fileno[f]] = k]  BY <1>4 DEF Console!Freopen
  <2>3. /\ fileno \in [Files -> ConsoleFds \cup {Console!None}] /\ behind \in [ConsoleFds -> Console!Kinds]
        BY DEF TargetInv, TargetTypes
  <2>4. TargetTypes'  BY <2>1, <2>2, <2>3 DEF TargetInv, TargetTypes
  <2>5. OneFile'  BY <2>1 DEF TargetInv, OneFile
  <2>6. UseInv'  BY <2>1 DEF TargetInv, UseInv, Console!InUse
  <2>7. CacheInv'
    <3>. SUFFICES ASSUME NEW i \in 1..Len(cache), fileno[cache[i].file] = cache[i].id,
                         cache[i].file \notin redirected'
                  PROVE  cache[i].kind = behind'[cache[i].id] \/ <<cache[i].file, cache[i].id>> \in recurred
         BY <2>1 DEF CacheInv
    <3>1. cache[i] \in Console!Slot  BY ElementOfSeq DEF TargetInv, TargetTypes
    <3>2. cache[i].file \in Files /\ cache[i].id \in ConsoleFds  BY <3>1 DEF Console!Slot
    <3>3. cache[i].file # f /\ cache[i].file \notin redirected  BY <2>1
    <3>4. cache[i].id # fileno[f]  BY <2>1, <3>2, <3>3 DEF TargetInv, OneFile
    <3>5. behind'[cache[i].id] = behind[cache[i].id]  BY <2>2, <2>3, <3>2, <3>4
    <3>. QED  BY <3>3, <3>5 DEF TargetInv, CacheInv
  <2>. QED  BY <2>4, <2>5, <2>6, <2>7 DEF TargetInv
<1>5. CASE Console!SetColorMode
  <2>1. /\ cache' = <<>> /\ redirected' = {}
        /\ UNCHANGED <<fileno, behind, consolePc, target, id, kind>>
        BY <1>5 DEF Console!SetColorMode, Console!calls
  <2>2. <<>> \in Seq(Console!Slot) /\ \A i : i \notin 1..Len(<<>>)  OBVIOUS
  <2>3. TargetTypes'  BY <2>1, <2>2 DEF TargetInv, TargetTypes
  <2>4. OneFile' /\ UseInv'  BY <2>1 DEF TargetInv, OneFile, UseInv
  <2>5. CacheInv'  BY <2>1, <2>2 DEF TargetInv, CacheInv
  <2>. QED  BY <2>3, <2>4, <2>5 DEF TargetInv
<1>6. ASSUME NEW t \in Threads, NEW f \in Files, Console!Call(t, f)  PROVE TargetInv'
  <2>1. UNCHANGED <<fileno, behind, cache, id, redirected, recurred>>  BY <1>6 DEF Console!Call
  <2>2. TargetTypes'  BY <1>6 DEF Console!Call, TargetInv, TargetTypes, Console!Kinds
  <2>3. OneFile' /\ CacheInv'
        BY <2>1 DEF TargetInv, OneFile, CacheInv
  <2>4. UseInv'  BY <1>6 DEF Console!Call, TargetInv, TargetTypes, UseInv
  <2>. QED  BY <2>2, <2>3, <2>4 DEF TargetInv
<1>7. ASSUME NEW t \in Threads, Console!ReadId(t)  PROVE TargetInv'
  <2>1. UNCHANGED <<fileno, behind, cache, target, kind, redirected, recurred>>
        BY <1>7 DEF Console!ReadId
  <2>2. target[t] \in Files  BY <1>7 DEF Console!ReadId, TargetInv, UseInv
  <2>3. TargetTypes'  BY <1>7, <2>2 DEF Console!ReadId, TargetInv, TargetTypes
  <2>4. OneFile' /\ CacheInv'
        BY <2>1 DEF TargetInv, OneFile, CacheInv
  <2>5. UseInv'  BY <1>7 DEF Console!ReadId, TargetInv, TargetTypes, UseInv
  <2>. QED  BY <2>3, <2>4, <2>5 DEF TargetInv
<1>8. ASSUME NEW t \in Threads, Console!LookUp(t)  PROVE TargetInv'
  <2>. DEFINE f == target[t]
              e == [file |-> f, id |-> id[t], kind |-> Console!Detected(f)]
  <2>1. /\ f \in Files /\ fileno[f] # Console!None /\ f \notin redirected
        /\ id[t] = fileno[f] /\ id[t] \in ConsoleFds /\ consolePc[t] = "lookUp"
        BY <1>8 DEF Console!LookUp, TargetInv, TargetTypes, UseInv
  <2>2. e \in Console!Slot /\ e.file = f /\ e.id = fileno[f] /\ e.kind = behind[fileno[f]]
        BY <2>1 DEF TargetInv, TargetTypes, Console!Slot, Console!Detected
  <2>3. /\ consolePc' = [consolePc EXCEPT ![t] = "out"] /\ target' = [target EXCEPT ![t] = Console!AnyFile]
        /\ id' = [id EXCEPT ![t] = Console!None]
        /\ recurred' = recurred \cap Console!Remembered(cache')
        /\ UNCHANGED <<fileno, behind, redirected>>
        BY <1>8 DEF Console!LookUp
  <2>4. cache' = cache \/ Console!Remember(t, e)  BY <1>8 DEF Console!LookUp
  <2>5. kind' \in [Threads -> Console!Kinds]
    <3>1. ASSUME NEW i \in 1..Len(cache)  PROVE cache[i].kind \in Console!Kinds
      <4>1. cache[i] \in Console!Slot  BY ElementOfSeq DEF TargetInv, TargetTypes
      <4>. QED  BY <4>1 DEF Console!Slot
    <3>2. Console!Detected(f) \in Console!Kinds  BY <2>2 DEF Console!Slot
    <3>. QED  BY <1>8, <3>1, <3>2 DEF Console!LookUp, TargetInv, TargetTypes
  <2>. HIDE DEF e, f
  <2>6. /\ cache' \in Seq(Console!Slot)
        /\ \A i \in 1..Len(cache') :
               cache'[i] = e \/ \E j \in 1..Len(cache) : cache'[i] = cache[j]
    <3>1. CASE cache' = cache  BY <3>1 DEF TargetInv, TargetTypes
    <3>2. CASE Console!Remember(t, e)
          BY <2>2, <3>2, Remembered DEF TargetInv, TargetTypes
    <3>. QED  BY <2>4, <3>1, <3>2
  <2>7. TargetTypes'
        BY <2>3, <2>5, <2>6 DEF TargetInv, TargetTypes
  <2>8. OneFile'  BY <2>3 DEF TargetInv, OneFile
  <2>9. UseInv'  BY <2>3 DEF TargetInv, TargetTypes, UseInv
  <2>11. CacheInv'
    <3>1. ASSUME NEW i \in 1..Len(cache'), fileno[cache'[i].file] = cache'[i].id,
                 cache'[i].file \notin redirected
          PROVE  cache'[i].kind = behind[cache'[i].id] \/ <<cache'[i].file, cache'[i].id>> \in recurred'
      <4>1. <<cache'[i].file, cache'[i].id>> \in Console!Remembered(cache')  BY DEF Console!Remembered
      <4>2. CASE cache'[i] = e  BY <2>2, <4>2
      <4>3. CASE \E j \in 1..Len(cache) : cache'[i] = cache[j]
            BY <2>3, <3>1, <4>1, <4>3 DEF TargetInv, CacheInv
      <4>. QED  BY <2>6, <4>2, <4>3
    <3>. QED  BY <2>3, <3>1 DEF CacheInv
  <2>. QED  BY <2>7, <2>8, <2>9, <2>11 DEF TargetInv
<1>. QED  BY <1>1, <1>2, <1>3, <1>4, <1>5, <1>6, <1>7, <1>8 DEF Console!Next

LEMMA TargetInit ==
    ASSUME Console!Init
    PROVE  TargetInv
<1>1. cache = <<>> /\ <<>> \in Seq(Console!Slot) /\ \A i : i \notin 1..Len(<<>>)  BY DEF Console!Init
<1>2. TargetTypes  BY <1>1 DEF Console!Init, TargetTypes, Console!Kinds
<1>3. OneFile /\ UseInv  BY DEF Console!Init, OneFile, UseInv
<1>4. CacheInv  BY <1>1 DEF Console!Init, CacheInv
<1>. QED  BY <1>2, <1>3, <1>4 DEF TargetInv

\* The answer of a look-up.
LEMMA Answered ==
    ASSUME TargetInv, Console!Next, NEW t \in Threads,
           consolePc[t] = "lookUp", consolePc'[t] = "out"
    PROVE  \/ kind'[t] = behind[fileno[target[t]]]
           \/ <<target[t], fileno[target[t]]>> \in recurred
<1>1. consolePc \in [Threads -> {"out", "readId", "lookUp"}] /\ kind \in [Threads -> Console!Kinds]
      /\ cache \in Seq(Console!Slot)
      BY DEF TargetInv, TargetTypes
<1>2. Console!LookUp(t)
  <2>1. ASSUME NEW u \in Threads, NEW f \in Files, Console!Call(u, f)  PROVE FALSE
        BY <1>1, <2>1 DEF Console!Call
  <2>2. ASSUME NEW u \in Threads, Console!ReadId(u)  PROVE FALSE
        BY <1>1, <2>2 DEF Console!ReadId
  <2>3. ASSUME NEW u \in Threads, Console!LookUp(u), u # t  PROVE FALSE
        BY <1>1, <2>3 DEF Console!LookUp
  <2>4. ASSUME NEW f \in Files, Console!Fopen(f) \/ Console!Fclose(f) \/ Console!Freopen(f)  PROVE FALSE
        BY <2>4 DEF Console!Fopen, Console!Fclose, Console!Freopen, Console!calls
  <2>5. ASSUME Console!SetColorMode  PROVE FALSE
        BY <2>5 DEF Console!SetColorMode, Console!calls
  <2>. QED  BY <2>1, <2>2, <2>3, <2>4, <2>5 DEF Console!Next
<1>3. /\ target[t] \in Files /\ target[t] \notin redirected /\ id[t] = fileno[target[t]]
      BY DEF TargetInv, UseInv
<1>4. CASE \E i \in 1..Len(cache) :
               Console!Trusted(t, i) /\ kind' = [kind EXCEPT ![t] = cache[i].kind]
  <2>1. PICK i \in 1..Len(cache) :
            Console!Trusted(t, i) /\ kind' = [kind EXCEPT ![t] = cache[i].kind]
        BY <1>4
  <2>2. cache[i].file = target[t] /\ cache[i].id = fileno[target[t]]
        BY <1>3, <2>1 DEF Console!Trusted
  <2>3. \/ cache[i].kind = behind[fileno[target[t]]]
        \/ <<target[t], fileno[target[t]]>> \in recurred
        BY <1>3, <2>2 DEF TargetInv, CacheInv
  <2>. QED  BY <1>1, <2>1, <2>3
<1>5. CASE kind' = [kind EXCEPT ![t] = Console!Detected(target[t])]
      BY <1>1, <1>5 DEF Console!Detected
<1>. QED  BY <1>2, <1>4, <1>5 DEF Console!LookUp

\* target_kind_of(): the answer of the table is what is behind the descriptor of the FILE at
\* the moment of the answer, unless this very FILE has come back at the address and the number
\* it was remembered with.
THEOREM KindIsTrueHolds == Spec => KindIsTrue
<1>1. Init => TargetInv  BY EveryPartBegins, TargetInit
<1>2. TargetInv /\ [Next]_vars => TargetInv'  BY EveryPartSteps, TargetStep
<1>3. TargetInv /\ [Next]_vars =>
        [\A t \in Threads : (consolePc[t] = "lookUp" /\ consolePc'[t] = "out")
             => \/ kind'[t] = behind[fileno[target[t]]]
                \/ <<target[t], fileno[target[t]]>> \in recurred]_(Console!vars)
      BY EveryPartSteps, Answered
<1>. QED  BY <1>1, <1>2, <1>3, PTL DEF Spec, KindIsTrue, Console!KindIsTrue

\* A FILE has one entry at most, the table is no longer than it may be, and whoever is in no call
\* is at no particular FILE.
CacheFits ==
    /\ Len(cache) <= Slots
    /\ \A i, j \in 1..Len(cache) : cache[i].file = cache[j].file => i = j
    /\ redirected \subseteq Files /\ recurred \subseteq Files \X ConsoleFds

LEMMA RememberedOnce ==
    ASSUME cache \in Seq(Console!Slot), CacheFits, NEW t \in Threads,
           NEW e \in Console!Slot, e.file = target[t], Console!Remember(t, e)
    PROVE  /\ Len(cache') <= Slots
           /\ \A i, j \in 1..Len(cache') : cache'[i].file = cache'[j].file => i = j
<1>1. Len(cache) \in Nat /\ \A i \in 1..Len(cache) : cache[i] \in Console!Slot
      BY ElementOfSeq
<1>2. CASE cache' = [i \in 1..Len(cache) |-> IF cache[i].file = target[t] THEN e ELSE cache[i]]
  <2>. DEFINE n == Len(cache)
              r == [i \in 1..n |-> IF cache[i].file = target[t] THEN e ELSE cache[i]]
  <2>1. r \in Seq(Console!Slot)  BY <1>1
  <2>2. \A i \in 1..n : r[i].file = cache[i].file  OBVIOUS
  <2>3. DOMAIN r = 1..n /\ DOMAIN r = 1..Len(r) /\ Len(r) = n  BY <1>1, <2>1, LenProperties
  <2>. HIDE DEF r, n
  <2>4. cache' = r  BY <1>2 DEF r, n
  <2>. QED  BY <2>2, <2>3, <2>4 DEF n, CacheFits
<1>3. CASE /\ cache' = Append(cache, e) /\ Len(cache) < Slots
           /\ \A i \in 1..Len(cache) : cache[i].file # target[t]
  <2>1. /\ Append(cache, e) \in Seq(Console!Slot) /\ Len(Append(cache, e)) = Len(cache) + 1
        /\ \A i \in 1..(Len(cache) + 1) :
               Append(cache, e)[i] = IF i <= Len(cache) THEN cache[i] ELSE e
        BY AppendProperties
  <2>2. Len(cache') = Len(cache) + 1 /\ Len(cache') <= Slots
        BY <1>1, <1>3, <2>1, PartsAssumption
  <2>3. \A i \in 1..Len(cache') : \/ i \in 1..Len(cache) /\ cache'[i] = cache[i]
                                  \/ i = Len(cache) + 1 /\ cache'[i] = e
        BY <1>1, <1>3, <2>1
  <2>4. \A i, j \in 1..Len(cache') : cache'[i].file = cache'[j].file => i = j
        BY <1>3, <2>3 DEF CacheFits
  <2>. QED  BY <2>2, <2>4
<1>4. CASE cache' = cache  BY <1>4 DEF CacheFits
<1>. QED  BY <1>2, <1>3, <1>4 DEF Console!Remember

LEMMA FitsStep ==
    ASSUME TargetInv, CacheFits, [Console!Next]_(Console!vars)
    PROVE  CacheFits'
<1>1. CASE UNCHANGED Console!vars
      BY <1>1 DEF Console!vars, Console!calls, CacheFits
<1>2. ASSUME NEW f \in Files, Console!Fopen(f)  PROVE CacheFits'
  <2>1. UNCHANGED <<cache, redirected>>
        /\ \E n \in ConsoleFds : recurred' \subseteq recurred \cup {<<f, n>>}
        BY <1>2 DEF Console!Fopen, Console!calls
  <2>. QED  BY <2>1 DEF CacheFits
<1>3. ASSUME NEW f \in Files, Console!Fclose(f) \/ Console!Freopen(f)  PROVE CacheFits'
  <2>1. UNCHANGED <<cache, recurred>> /\ redirected' \subseteq redirected \cup {f}
        BY <1>3 DEF Console!Fclose, Console!Freopen, Console!calls
  <2>. QED  BY <2>1 DEF CacheFits
<1>4. CASE Console!SetColorMode
  <2>1. cache' = <<>> /\ redirected' = {} /\ recurred' = {}
        BY <1>4 DEF Console!SetColorMode
  <2>2. Len(<<>>) = 0 /\ \A i : i \notin 1..0  OBVIOUS
  <2>. QED  BY <2>1, <2>2, PartsAssumption DEF CacheFits
<1>5. ASSUME NEW t \in Threads, Console!ReadId(t) \/ \E f \in Files : Console!Call(t, f)
      PROVE  CacheFits'
      BY <1>5 DEF Console!ReadId, Console!Call, CacheFits
<1>6. ASSUME NEW t \in Threads, Console!LookUp(t)  PROVE CacheFits'
  <2>. DEFINE e == [file |-> target[t], id |-> id[t], kind |-> Console!Detected(target[t])]
  <2>1. /\ target[t] \in Files /\ id[t] = fileno[target[t]] /\ id[t] \in ConsoleFds
        BY <1>6 DEF Console!LookUp, TargetInv, TargetTypes, UseInv
  <2>2. e \in Console!Slot /\ e.file = target[t]
        BY <2>1 DEF TargetInv, TargetTypes, Console!Slot, Console!Detected
  <2>3. redirected' = redirected /\ recurred' \subseteq recurred /\ (cache' = cache \/ Console!Remember(t, e))
        BY <1>6 DEF Console!LookUp
  <2>4. cache \in Seq(Console!Slot)  BY DEF TargetInv, TargetTypes
  <2>. HIDE DEF e
  <2>5. CASE cache' = cache  BY <2>3, <2>5 DEF CacheFits
  <2>6. CASE Console!Remember(t, e)
        BY <2>2, <2>3, <2>4, <2>6, RememberedOnce DEF CacheFits
  <2>. QED  BY <2>3, <2>5, <2>6
<1>. QED  BY <1>1, <1>2, <1>3, <1>4, <1>5, <1>6 DEF Console!Next

LEMMA FitsInit ==
    ASSUME Console!Init
    PROVE  CacheFits
<1>1. cache = <<>> /\ Len(<<>>) = 0 /\ \A i : i \notin 1..0  BY DEF Console!Init
<1>. QED  BY <1>1, PartsAssumption DEF Console!Init, CacheFits

LEMMA TargetTypeCorrect ==
    ASSUME TargetInv, CacheFits
    PROVE  Console!TypeOK
<1>1. Console!AnyFile \in Files  BY PartsAssumption DEF Console!AnyFile
<1>. QED  BY <1>1 DEF TargetInv, TargetTypes, CacheFits, Console!TypeOK

-----------------------------------------------------------------------------
(* DynamicRegistry: DynamicRegistry_proofs has the invariant.  What it says of its own copy of *)
(* the module is said here of the part, definition by definition.                              *)

Proved == INSTANCE DynamicRegistry_proofs

LEMMA SameHelpers ==
    /\ \A t : Registry!Top(t) = Proved!Top(t)
    /\ \A s : Registry!Members(s) = Proved!Members(s)
    /\ \A t, c : Registry!SetTop(t, c) <=> Proved!SetTop(t, c)
    /\ \A t : Registry!Pop(t) <=> Proved!Pop(t)
    /\ \A t : Registry!SectionEnds(t) <=> Proved!SectionEnds(t)
    /\ Registry!Requests = Proved!Requests
BY DEF Registry!Top, Proved!Top, Registry!Members, Proved!Members, Registry!SetTop, Proved!SetTop,
       Registry!Pop, Proved!Pop, Registry!SectionEnds, Proved!SectionEnds,
       Registry!Requests, Proved!Requests

LEMMA SameGuards ==
    /\ \A t : Registry!MayCall(t) <=> Proved!MayCall(t)
    /\ \A t, op : Registry!InSection(t, op) <=> Proved!InSection(t, op)
    /\ \A t, e : Registry!LeaveToTell(t, e) <=> Proved!LeaveToTell(t, e)
BY SameHelpers DEF Registry!MayCall, Proved!MayCall, Registry!InSection, Proved!InSection,
                   Registry!LeaveToTell, Proved!LeaveToTell

LEMMA SameSteps ==
    ASSUME [Registry!Next]_(Registry!vars)
    PROVE  [Proved!Next]_(Proved!vars)
<1>1. UNCHANGED Registry!vars => UNCHANGED Proved!vars  BY DEF Registry!vars, Proved!vars
<1>2. \A t : Registry!Call(t) => Proved!Call(t)
      BY SameHelpers, SameGuards DEF Registry!Call, Proved!Call
<1>3. \A t : Registry!Lock(t) => Proved!Lock(t)
      BY SameHelpers DEF Registry!Lock, Proved!Lock
<1>4. \A t : Registry!Add(t) => Proved!Add(t)
      BY SameHelpers, SameGuards DEF Registry!Add, Proved!Add
<1>5. \A t : Registry!Remove(t) => Proved!Remove(t)
      BY SameHelpers, SameGuards DEF Registry!Remove, Proved!Remove
<1>6. \A t : Registry!Clear(t) => Proved!Clear(t)
      BY SameHelpers, SameGuards DEF Registry!Clear, Proved!Clear
<1>7. \A t : Registry!AddListener(t) => Proved!AddListener(t)
      BY SameHelpers, SameGuards DEF Registry!AddListener, Proved!AddListener
<1>8. \A t : Registry!RemoveListener(t) => Proved!RemoveListener(t)
      BY SameHelpers, SameGuards DEF Registry!RemoveListener, Proved!RemoveListener
<1>9. \A t : Registry!Tell(t) => Proved!Tell(t)
      BY SameHelpers DEF Registry!Tell, Proved!Tell
<1>10. \A t : Registry!CallbackReturns(t) => Proved!CallbackReturns(t)
       BY SameHelpers DEF Registry!CallbackReturns, Proved!CallbackReturns
<1>11. \A t : Registry!Return(t) => Proved!Return(t)
       BY SameHelpers DEF Registry!Return, Proved!Return
<1>12. \A l : Registry!DestroyListener(l) => Proved!DestroyListener(l)
       BY SameHelpers DEF Registry!DestroyListener, Proved!DestroyListener
<1>. QED  BY <1>1, <1>2, <1>3, <1>4, <1>5, <1>6, <1>7, <1>8, <1>9, <1>10, <1>11, <1>12
          DEF Registry!Next, Proved!Next, Registry!Proceed, Proved!Proceed

LEMMA SameWords ==
    /\ Proved!HeardOnce => Registry!HeardOnce
    /\ Proved!ToldOutsideLock => Registry!ToldOutsideLock
    /\ Proved!HeardAddsUp => Registry!HeardAddsUp
BY SameHelpers
   DEF Proved!HeardOnce, Registry!HeardOnce, Proved!Distinct, Registry!Distinct,
       Proved!ToldOutsideLock, Registry!ToldOutsideLock, Proved!HeardAddsUp, Registry!HeardAddsUp,
       Proved!Quiet, Registry!Quiet, Proved!HeardOf, Registry!HeardOf

\* A listener hears of a change once, can tell from what it heard what is registered, and is
\* told with the mutex released: DynamicRegistry's add(), remove(), clear() and the callbacks.
THEOREM HeardAddsUpHolds == Spec => []HeardAddsUp
<1>1. Init => Proved!Init
  <2>. SUFFICES ASSUME Init PROVE Proved!Init  OBVIOUS
  <2>1. Registry!Init  BY EveryPartBegins
  <2>. QED  BY <2>1, SameHelpers DEF Registry!Init, Proved!Init
<1>2. [Next]_vars => [Proved!Next]_(Proved!vars)  BY EveryPartSteps, SameSteps
<1>3. Proved!Spec => []Proved!HeardOnce  BY PartsAssumption, Proved!HeardOnceHolds
<1>4. Proved!Spec => []Proved!ToldOutsideLock  BY PartsAssumption, Proved!ToldOutsideLockHolds
<1>5. Proved!Spec => []Proved!HeardAddsUp  BY PartsAssumption, Proved!HeardAddsUpHolds
<1>6. Proved!HeardOnce /\ Proved!ToldOutsideLock /\ Proved!HeardAddsUp => HeardAddsUp
      BY SameWords DEF HeardAddsUp
<1>. QED  BY <1>1, <1>2, <1>3, <1>4, <1>5, <1>6, PTL DEF Spec, Proved!Spec

-----------------------------------------------------------------------------
(* StaticRegistry: the list is the nodes registered so far, in order, and behind them the one *)
(* that is linked and not yet the tail.                                                       *)

Linking == {n \in Nodes : \E l \in Loaders : staticPc[l] = "tail" /\ n \in adding[l]}
Chain == IF Linking = {} THEN registered ELSE Append(registered, CHOOSE n \in Linking : TRUE)

StaticTypes ==
    /\ staticPc \in [Loaders -> {"idle", "link", "tail"}]
    /\ adding \in [Loaders -> SUBSET Nodes] /\ seenTail \in [Loaders -> SUBSET Nodes]
    /\ head \subseteq Nodes /\ tail \subseteq Nodes /\ next \in [Nodes -> SUBSET Nodes]
    /\ registered \in Seq(Nodes) /\ at \in [Readers -> SUBSET Nodes]
    /\ read \in [Readers -> Seq(Nodes)] /\ before \in [Readers -> Seq(Nodes)]

\* One thread loads at a time, and adds a node that is not registered.
LoadInv ==
    /\ \A l, k \in Loaders : staticPc[l] # "idle" /\ staticPc[k] # "idle" => l = k
    /\ \A l \in Loaders :
           /\ staticPc[l] = "idle" => adding[l] = {}
           /\ staticPc[l] # "idle" => \E n \in Nodes : adding[l] = {n}
           /\ staticPc[l] = "link" =>
                  seenTail[l] = tail /\ \A i \in 1..Len(registered) : registered[i] \notin adding[l]

\* Each node is followed by the next of the chain, the last and every other node by none.
ChainInv ==
    /\ Chain \in Seq(Nodes)
    /\ \A i, j \in 1..Len(Chain) : Chain[i] = Chain[j] => i = j
    /\ head = IF Len(Chain) = 0 THEN {} ELSE {Chain[1]}
    /\ \A i \in 1..Len(Chain) : next[Chain[i]] = IF i = Len(Chain) THEN {} ELSE {Chain[i + 1]}
    /\ \A n \in Nodes : (\A i \in 1..Len(Chain) : Chain[i] # n) => next[n] = {}
    /\ tail = IF Len(registered) = 0 THEN {} ELSE {registered[Len(registered)]}

\* A reader has read the chain up to where it is; what was there when it began is part of that
\* when it is done.
ReadInv ==
    \A r \in Readers :
        /\ Len(read[r]) <= Len(Chain) /\ Len(before[r]) <= Len(Chain)
        /\ \A i \in 1..Len(read[r]) : read[r][i] = Chain[i]
        /\ \A i \in 1..Len(before[r]) : before[r][i] = Chain[i]
        /\ at[r] = {} => Len(before[r]) <= Len(read[r])
        /\ at[r] # {} => Len(read[r]) < Len(Chain) /\ at[r] = {Chain[Len(read[r]) + 1]}

StaticInv == StaticTypes /\ LoadInv /\ ChainInv /\ ReadInv

LEMMA ChainIsRegistered ==
    ASSUME \A l \in Loaders : staticPc[l] # "tail"
    PROVE  Chain = registered
BY DEF Chain, Linking

LEMMA ChainIsLonger ==
    ASSUME LoadInv, NEW l \in Loaders, NEW n \in Nodes, staticPc[l] = "tail", adding[l] = {n}
    PROVE  Chain = Append(registered, n)
<1>1. Linking = {n}  BY DEF Linking, LoadInv
<1>. QED  BY <1>1 DEF Chain

\* Everything about the readers stays when the chain does.
LEMMA ReadersStay ==
    ASSUME ReadInv, Chain' = Chain, UNCHANGED <<at, read, before>>
    PROVE  ReadInv'
BY DEF ReadInv

\* So does everything about the list.
LEMMA ListStays ==
    ASSUME ChainInv, Chain' = Chain, UNCHANGED <<head, tail, next, registered>>
    PROVE  ChainInv'
<1>1. Chain' \in Seq(Nodes) /\ head' = IF Len(Chain') = 0 THEN {} ELSE {Chain'[1]}
      BY DEF ChainInv
<1>2. /\ \A i, j \in 1..Len(Chain') : Chain'[i] = Chain'[j] => i = j
      /\ \A i \in 1..Len(Chain') :
             next'[Chain'[i]] = IF i = Len(Chain') THEN {} ELSE {Chain'[i + 1]}
      BY DEF ChainInv
<1>3. \A n \in Nodes : (\A i \in 1..Len(Chain') : Chain'[i] # n) => next'[n] = {}
      BY DEF ChainInv
<1>4. tail' = IF Len(registered') = 0 THEN {} ELSE {registered'[Len(registered')]}
      BY DEF ChainInv
<1>. QED  BY <1>1, <1>2, <1>3, <1>4 DEF ChainInv

LEMMA AddNodeStep ==
    ASSUME StaticInv, NEW l \in Loaders, NEW n \in Nodes, Static!AddNode(l, n)
    PROVE  StaticInv'
<1>1. /\ staticPc[l] = "idle" /\ \A k \in Loaders : staticPc[k] = "idle"
      /\ adding' = [adding EXCEPT ![l] = {n}] /\ seenTail' = [seenTail EXCEPT ![l] = tail]
      /\ staticPc' = [staticPc EXCEPT ![l] = "link"]
      /\ UNCHANGED <<head, tail, next, registered, at, read, before>>
      BY DEF Static!AddNode
<1>2. \A i \in 1..Len(registered) : registered[i] # n
  <2>1. n \notin {registered[i] : i \in DOMAIN registered}
        BY DEF Static!AddNode, Static!Added
  <2>. QED  BY <2>1 DEF StaticInv, StaticTypes
<1>3. StaticTypes'  BY <1>1 DEF StaticInv, StaticTypes
<1>4. Chain = registered  BY <1>1, ChainIsRegistered
<1>5. Chain' = registered'
  <2>1. \A k \in Loaders : staticPc'[k] # "tail"  BY <1>1 DEF StaticInv, StaticTypes
  <2>2. Linking' = {}  BY <2>1 DEF Linking
  <2>. QED  BY <2>2 DEF Chain
<1>6. LoadInv'  BY <1>1, <1>2 DEF StaticInv, StaticTypes, LoadInv
<1>7. ChainInv'  BY <1>1, <1>4, <1>5, ListStays DEF StaticInv
<1>8. ReadInv'  BY <1>1, <1>4, <1>5, ReadersStay DEF StaticInv
<1>. QED  BY <1>3, <1>6, <1>7, <1>8 DEF StaticInv

LEMMA LinkStep ==
    ASSUME StaticInv, NEW l \in Loaders, Static!Link(l)
    PROVE  StaticInv'
<1>1. /\ staticPc[l] = "link" /\ staticPc' = [staticPc EXCEPT ![l] = "tail"]
      /\ UNCHANGED <<adding, seenTail, tail, registered, at, read, before>>
      BY DEF Static!Link
<1>2. PICK n \in Nodes : adding[l] = {n}  BY <1>1 DEF StaticInv, LoadInv
<1>3. /\ seenTail[l] = tail /\ \A i \in 1..Len(registered) : registered[i] # n
      /\ \A k \in Loaders : k # l => staticPc[k] = "idle"
      BY <1>1, <1>2 DEF StaticInv, LoadInv
<1>4. staticPc \in [Loaders -> {"idle", "link", "tail"}] /\ registered \in Seq(Nodes)
      /\ next \in [Nodes -> SUBSET Nodes]
      BY DEF StaticInv, StaticTypes
<1>5. Chain = registered  BY <1>1, <1>3, ChainIsRegistered
<1>6. Chain' = Append(registered, n)
  <2>1. Linking' = {n}  BY <1>1, <1>2, <1>3, <1>4 DEF Linking
  <2>. QED  BY <1>1, <2>1 DEF Chain
<1>7. LoadInv'  BY <1>1, <1>3, <1>4 DEF StaticInv, LoadInv
<1>8. /\ Chain' \in Seq(Nodes) /\ Len(Chain') = Len(registered) + 1 /\ Len(registered) \in Nat
      /\ \A i \in 1..Len(registered) : Chain'[i] = registered[i] /\ registered[i] \in Nodes
      /\ Chain'[Len(registered) + 1] = n
      BY <1>4, <1>6, AppendProperties, ElementOfSeq
<1>9. /\ head \subseteq Nodes
      /\ \A i, j \in 1..Len(registered) : registered[i] = registered[j] => i = j
      /\ head = IF Len(registered) = 0 THEN {} ELSE {registered[1]}
      /\ \A i \in 1..Len(registered) :
             next[registered[i]] = IF i = Len(registered) THEN {} ELSE {registered[i + 1]}
      /\ \A m \in Nodes : (\A i \in 1..Len(registered) : registered[i] # m) => next[m] = {}
      /\ tail = IF Len(registered) = 0 THEN {} ELSE {registered[Len(registered)]}
      BY <1>5 DEF StaticInv, ChainInv, StaticTypes
<1>10. next[n] = {}  BY <1>3, <1>9
<1>11. /\ head' = IF Len(registered) = 0 THEN {n} ELSE head
       /\ next' = [m \in Nodes |-> IF m \in tail THEN {n} ELSE next[m]]
  <2>1. tail = {} <=> Len(registered) = 0  BY <1>9
  <2>2. CASE seenTail[l] # {}  BY <1>1, <1>2, <1>3, <2>1, <2>2 DEF Static!Link
  <2>3. CASE seenTail[l] = {}
    <3>1. head' = {n} /\ next' = next  BY <1>1, <1>2, <2>3 DEF Static!Link
    <3>2. next = [m \in Nodes |-> IF m \in tail THEN {n} ELSE next[m]]
          BY <1>3, <1>4, <2>3
    <3>. QED  BY <1>3, <2>1, <2>3, <3>1, <3>2
  <2>. QED  BY <2>2, <2>3
<1>12. StaticTypes'
  <2>1. next' \in [Nodes -> SUBSET Nodes] /\ head' \subseteq Nodes  BY <1>4, <1>9, <1>11
  <2>. QED  BY <1>1, <1>4, <2>1 DEF StaticInv, StaticTypes
<1>13. ChainInv'
  <2>1. \A i, j \in 1..Len(Chain') : Chain'[i] = Chain'[j] => i = j
        BY <1>3, <1>8, <1>9
  <2>2. head' = IF Len(Chain') = 0 THEN {} ELSE {Chain'[1]}
    <3>1. Chain'[1] = IF Len(registered) = 0 THEN n ELSE registered[1]  BY <1>8
    <3>2. Len(Chain') # 0  BY <1>8
    <3>3. head' = {IF Len(registered) = 0 THEN n ELSE registered[1]}
      <4>1. CASE Len(registered) = 0  BY <1>11, <4>1
      <4>2. CASE Len(registered) # 0  BY <1>9, <1>11, <4>2
      <4>. QED  BY <4>1, <4>2
    <3>. QED  BY <3>1, <3>2, <3>3
  <2>3. ASSUME NEW i \in 1..Len(Chain')
        PROVE  next'[Chain'[i]] = IF i = Len(Chain') THEN {} ELSE {Chain'[i + 1]}
    <3>1. CASE i = Len(registered) + 1
      <4>1. n \notin tail  BY <1>3, <1>8, <1>9
      <4>. QED  BY <1>8, <1>10, <1>11, <3>1, <4>1
    <3>2. CASE i \in 1..Len(registered) /\ i = Len(registered)
      <4>1. tail = {registered[i]}  BY <1>8, <1>9, <3>2
      <4>2. next'[registered[i]] = {n}  BY <1>8, <1>11, <3>2, <4>1
      <4>3. Chain'[i] = registered[i] /\ Chain'[i + 1] = n /\ i # Len(Chain')  BY <1>8, <3>2
      <4>. QED  BY <4>2, <4>3
    <3>3. CASE i \in 1..Len(registered) /\ i # Len(registered)
      <4>1. registered[i] \notin tail  BY <1>8, <1>9, <3>3
      <4>2. next'[Chain'[i]] = {registered[i + 1]}  BY <1>8, <1>9, <1>11, <3>3, <4>1
      <4>. QED  BY <1>8, <3>3, <4>2
    <3>. QED  BY <1>8, <3>1, <3>2, <3>3
  <2>4. ASSUME NEW m \in Nodes, \A i \in 1..Len(Chain') : Chain'[i] # m
        PROVE  next'[m] = {}
    <3>1. \A i \in 1..Len(registered) : registered[i] # m  BY <1>8, <2>4
    <3>2. m \notin tail  BY <1>8, <1>9, <3>1
    <3>. QED  BY <1>9, <1>11, <3>1, <3>2
  <2>. QED  BY <1>1, <1>8, <1>9, <2>1, <2>2, <2>3, <2>4 DEF ChainInv
<1>14. ReadInv'
  <2>. SUFFICES ASSUME NEW r \in Readers
       PROVE  /\ Len(read[r]) <= Len(Chain') /\ Len(before[r]) <= Len(Chain')
              /\ \A i \in 1..Len(read[r]) : read[r][i] = Chain'[i]
              /\ \A i \in 1..Len(before[r]) : before[r][i] = Chain'[i]
              /\ at[r] = {} => Len(before[r]) <= Len(read[r])
              /\ at[r] # {} => Len(read[r]) < Len(Chain') /\ at[r] = {Chain'[Len(read[r]) + 1]}
       BY <1>1 DEF ReadInv
  <2>1. read[r] \in Seq(Nodes) /\ before[r] \in Seq(Nodes)  BY DEF StaticInv, StaticTypes
  <2>2. Len(read[r]) \in Nat /\ Len(before[r]) \in Nat  BY <2>1
  <2>. QED  BY <1>5, <1>8, <2>2, SMTT(30) DEF StaticInv, ReadInv
<1>. QED  BY <1>7, <1>12, <1>13, <1>14 DEF StaticInv

LEMMA MoveTailStep ==
    ASSUME StaticInv, NEW l \in Loaders, Static!MoveTail(l)
    PROVE  StaticInv'
<1>1. PICK n \in Nodes : adding[l] = {n}  BY DEF Static!MoveTail, StaticInv, LoadInv
<1>2. /\ staticPc[l] = "tail" /\ tail' = {n} /\ registered' = Append(registered, n)
      /\ adding' = [adding EXCEPT ![l] = {}] /\ staticPc' = [staticPc EXCEPT ![l] = "idle"]
      /\ UNCHANGED <<seenTail, head, next, at, read, before>>
      BY <1>1 DEF Static!MoveTail
<1>3. /\ staticPc \in [Loaders -> {"idle", "link", "tail"}] /\ registered \in Seq(Nodes)
      /\ \A k \in Loaders : k # l => staticPc[k] = "idle"
      BY <1>2 DEF StaticInv, StaticTypes, LoadInv
<1>4. Chain = Append(registered, n)  BY <1>1, <1>2, ChainIsLonger DEF StaticInv
<1>5. Chain' = registered'
  <2>1. \A k \in Loaders : staticPc'[k] # "tail"  BY <1>2, <1>3
  <2>2. Linking' = {}  BY <2>1 DEF Linking
  <2>. QED  BY <2>2 DEF Chain
<1>6. Len(Append(registered, n)) = Len(registered) + 1 /\ Len(registered) \in Nat
      /\ Append(registered, n)[Len(registered) + 1] = n /\ Append(registered, n) \in Seq(Nodes)
      BY <1>3, AppendProperties
<1>7. StaticTypes'  BY <1>2, <1>6 DEF StaticInv, StaticTypes
<1>8. LoadInv'  BY <1>2, <1>3 DEF StaticInv, StaticTypes, LoadInv
<1>9. tail' = IF Len(registered') = 0 THEN {} ELSE {registered'[Len(registered')]}
      BY <1>2, <1>6
<1>10. ChainInv'  BY <1>2, <1>4, <1>5, <1>9, ZenonT(60) DEF StaticInv, ChainInv
<1>11. ReadInv'  BY <1>2, <1>4, <1>5, ReadersStay DEF StaticInv
<1>. QED  BY <1>7, <1>8, <1>10, <1>11 DEF StaticInv

\* What a reader's own step has to establish.
LEMMA OthersRead ==
    ASSUME ReadInv, NEW r \in Readers, Chain' = Chain,
           \A q \in Readers \ {r} :
               at'[q] = at[q] /\ read'[q] = read[q] /\ before'[q] = before[q],
           Len(read'[r]) <= Len(Chain), Len(before'[r]) <= Len(Chain),
           \A i \in 1..Len(read'[r]) : read'[r][i] = Chain[i],
           \A i \in 1..Len(before'[r]) : before'[r][i] = Chain[i],
           at'[r] = {} => Len(before'[r]) <= Len(read'[r]),
           at'[r] # {} => Len(read'[r]) < Len(Chain) /\ at'[r] = {Chain[Len(read'[r]) + 1]}
    PROVE  ReadInv'
<1>. SUFFICES ASSUME NEW q \in Readers
     PROVE  /\ Len(read'[q]) <= Len(Chain) /\ Len(before'[q]) <= Len(Chain)
            /\ \A i \in 1..Len(read'[q]) : read'[q][i] = Chain[i]
            /\ \A i \in 1..Len(before'[q]) : before'[q][i] = Chain[i]
            /\ at'[q] = {} => Len(before'[q]) <= Len(read'[q])
            /\ at'[q] # {} => Len(read'[q]) < Len(Chain) /\ at'[q] = {Chain[Len(read'[q]) + 1]}
     BY DEF ReadInv
<1>1. CASE q = r  BY <1>1
<1>2. CASE q # r
  <2>1. at'[q] = at[q] /\ read'[q] = read[q] /\ before'[q] = before[q]  BY <1>2
  <2>2. /\ Len(read[q]) <= Len(Chain) /\ Len(before[q]) <= Len(Chain)
        /\ \A i \in 1..Len(read[q]) : read[q][i] = Chain[i]
        /\ \A i \in 1..Len(before[q]) : before[q][i] = Chain[i]
        /\ at[q] = {} => Len(before[q]) <= Len(read[q])
        /\ at[q] # {} => Len(read[q]) < Len(Chain) /\ at[q] = {Chain[Len(read[q]) + 1]}
        BY DEF ReadInv
  <2>. QED  BY <2>1, <2>2
<1>. QED  BY <1>1, <1>2

LEMMA WalkStep ==
    ASSUME StaticInv, NEW r \in Readers, Static!BeginWalk(r) \/ Static!Increment(r)
    PROVE  StaticInv'
<1>1. UNCHANGED <<staticPc, adding, seenTail, head, tail, next, registered>>
      BY DEF Static!BeginWalk, Static!Increment
<1>2. Chain' = Chain  BY <1>1 DEF Chain, Linking
<1>3. LoadInv' /\ ChainInv'  BY <1>1, <1>2, ListStays DEF StaticInv, LoadInv
<1>4. /\ at \in [Readers -> SUBSET Nodes]
      /\ read \in [Readers -> Seq(Nodes)] /\ before \in [Readers -> Seq(Nodes)]
      /\ registered \in Seq(Nodes) /\ next \in [Nodes -> SUBSET Nodes] /\ Chain \in Seq(Nodes)
      /\ Len(Chain) \in Nat /\ head \subseteq Nodes
      BY DEF StaticInv, StaticTypes, ChainInv
<1>5. /\ Len(registered) <= Len(Chain) /\ Len(registered) \in Nat
      /\ \A i \in 1..Len(registered) : registered[i] = Chain[i]
  <2>1. CASE Linking = {}  BY <1>4, <2>1 DEF Chain
  <2>2. CASE Linking # {}
    <3>1. PICK n \in Nodes : Chain = Append(registered, n)  BY <2>2 DEF Chain, Linking
    <3>. QED  BY <1>4, <3>1, AppendProperties
  <2>. QED  BY <2>1, <2>2
<1>6. CASE Static!BeginWalk(r)
  <2>1. /\ at' = [at EXCEPT ![r] = head] /\ read' = [read EXCEPT ![r] = <<>>]
        /\ before' = [before EXCEPT ![r] = registered]
        BY <1>6 DEF Static!BeginWalk
  <2>2. StaticTypes'  BY <1>1, <1>4, <2>1 DEF StaticInv, StaticTypes
  <2>3. head = IF Len(Chain) = 0 THEN {} ELSE {Chain[1]}  BY DEF StaticInv, ChainInv
  <2>4. \A q \in Readers \ {r} : at'[q] = at[q] /\ read'[q] = read[q] /\ before'[q] = before[q]
        BY <1>4, <2>1
  <2>5. at'[r] = head /\ read'[r] = <<>> /\ Len(read'[r]) = 0 /\ before'[r] = registered
        BY <1>4, <2>1
  <2>6. ReadInv'
    <3>1. /\ Len(read'[r]) <= Len(Chain) /\ Len(before'[r]) <= Len(Chain)
          /\ \A i \in 1..Len(read'[r]) : read'[r][i] = Chain[i]
          /\ \A i \in 1..Len(before'[r]) : before'[r][i] = Chain[i]
          BY <1>4, <1>5, <2>5
    <3>2. /\ at'[r] = {} => Len(before'[r]) <= Len(read'[r])
          /\ at'[r] # {} => Len(read'[r]) < Len(Chain) /\ at'[r] = {Chain[Len(read'[r]) + 1]}
      <4>1. CASE Len(Chain) = 0  BY <1>4, <1>5, <2>3, <2>5, <4>1
      <4>2. CASE Len(Chain) # 0
        <5>1. at'[r] = {Chain[1]} /\ Len(read'[r]) + 1 = 1  BY <2>3, <2>5, <4>2
        <5>2. at'[r] = {Chain[Len(read'[r]) + 1]}  BY <5>1
        <5>3. Len(read'[r]) < Len(Chain)  BY <1>4, <2>5, <4>2
        <5>. QED  BY <5>1, <5>2, <5>3
      <4>. QED  BY <4>1, <4>2
    <3>. QED  BY <3>1, <3>2, <2>4, <1>2, OthersRead DEF StaticInv
  <2>. QED  BY <1>3, <2>2, <2>6 DEF StaticInv
<1>7. CASE Static!Increment(r)
  <2>. DEFINE k == Len(read[r])
  <2>1. PICK n \in at[r] : /\ read' = [read EXCEPT ![r] = Append(@, n)]
                           /\ at' = [at EXCEPT ![r] = next[n]]
        BY <1>7 DEF Static!Increment
  <2>2. UNCHANGED before  BY <1>7 DEF Static!Increment
  <2>3. /\ k \in Nat /\ k < Len(Chain) /\ n = Chain[k + 1] /\ n \in Nodes
        /\ read[r] \in Seq(Nodes)
        BY <1>4, <2>1 DEF StaticInv, ReadInv
  <2>4. StaticTypes'
    <3>1. Append(read[r], n) \in Seq(Nodes)  BY <2>3, AppendProperties
    <3>2. read' \in [Readers -> Seq(Nodes)]  BY <1>4, <2>1, <3>1
    <3>3. at' \in [Readers -> SUBSET Nodes]  BY <1>4, <2>1, <2>3
    <3>. QED  BY <1>1, <2>2, <3>2, <3>3 DEF StaticInv, StaticTypes
  <2>5. \A q \in Readers \ {r} : at'[q] = at[q] /\ read'[q] = read[q] /\ before'[q] = before[q]
        BY <1>4, <2>1, <2>2
  <2>6. at'[r] = next[n] /\ before'[r] = before[r] /\ read'[r] = Append(read[r], n)
        BY <1>4, <2>1, <2>2
  <2>7. /\ Len(read'[r]) = k + 1
        /\ \A i \in 1..k : read'[r][i] = read[r][i]
        /\ read'[r][k + 1] = n
        BY <2>3, <2>6, AppendProperties
  <2>8. /\ k + 1 = Len(Chain) => next[n] = {}
        /\ k + 1 # Len(Chain) => next[n] = {Chain[(k + 1) + 1]}
    <3>1. k + 1 \in 1..Len(Chain)  BY <1>4, <2>3
    <3>2. next[Chain[k + 1]] = IF k + 1 = Len(Chain) THEN {} ELSE {Chain[(k + 1) + 1]}
          BY <3>1 DEF StaticInv, ChainInv
    <3>. QED  BY <2>3, <3>2
  <2>9. /\ Len(before[r]) <= Len(Chain) /\ Len(before[r]) \in Nat
        /\ \A i \in 1..k : read[r][i] = Chain[i]
        /\ \A i \in 1..Len(before[r]) : before[r][i] = Chain[i]
        BY <1>4 DEF StaticInv, ReadInv
  <2>. HIDE DEF k
  <2>10. /\ Len(read'[r]) <= Len(Chain) /\ Len(before'[r]) <= Len(Chain)
         /\ \A i \in 1..Len(read'[r]) : read'[r][i] = Chain[i]
         /\ \A i \in 1..Len(before'[r]) : before'[r][i] = Chain[i]
    <3>1. \A i \in 1..(k + 1) : i \in 1..k \/ i = k + 1  BY <2>3
    <3>. QED  BY <1>4, <2>3, <2>6, <2>7, <2>9, <3>1
  <2>11. /\ at'[r] = {} => Len(before'[r]) <= Len(read'[r])
         /\ at'[r] # {} => Len(read'[r]) < Len(Chain) /\ at'[r] = {Chain[Len(read'[r]) + 1]}
    <3>1. CASE k + 1 = Len(Chain)  BY <1>4, <2>3, <2>6, <2>7, <2>8, <2>9, <3>1
    <3>2. CASE k + 1 # Len(Chain)
      <4>1. at'[r] = {Chain[Len(read'[r]) + 1]}  BY <2>6, <2>7, <2>8, <3>2
      <4>2. Len(read'[r]) < Len(Chain)  BY <1>4, <2>3, <2>7, <3>2
      <4>. QED  BY <4>1, <4>2
    <3>. QED  BY <3>1, <3>2
  <2>12. ReadInv'  BY <1>2, <2>5, <2>10, <2>11, OthersRead DEF StaticInv
  <2>. QED  BY <1>3, <2>4, <2>12 DEF StaticInv
<1>. QED  BY <1>6, <1>7

LEMMA StaticStep ==
    ASSUME StaticInv, [Static!Next]_(Static!vars)
    PROVE  StaticInv'
<1>1. CASE UNCHANGED Static!vars
  <2>1. UNCHANGED <<staticPc, adding, seenTail, head, tail, next, registered, at, read, before>>
        BY <1>1 DEF Static!vars
  <2>2. Chain' = Chain  BY <2>1 DEF Chain, Linking
  <2>3. ChainInv' /\ ReadInv'  BY <2>1, <2>2, ListStays, ReadersStay DEF StaticInv
  <2>. QED  BY <2>1, <2>3 DEF StaticInv, StaticTypes, LoadInv
<1>2. CASE Static!Next
      BY <1>2, AddNodeStep, LinkStep, MoveTailStep, WalkStep DEF Static!Next
<1>. QED  BY <1>1, <1>2

LEMMA StaticInit ==
    ASSUME Static!Init
    PROVE  StaticInv
<1>1. /\ staticPc = [l \in Loaders |-> "idle"] /\ registered = <<>>
      /\ adding = [l \in Loaders |-> {}] /\ seenTail = [l \in Loaders |-> {}]
      /\ head = {} /\ tail = {} /\ next = [n \in Nodes |-> {}]
      /\ at = [r \in Readers |-> {}] /\ read = [r \in Readers |-> <<>>]
      /\ before = [r \in Readers |-> <<>>]
      BY DEF Static!Init
<1>2. <<>> \in Seq(Nodes) /\ Len(<<>>) = 0  OBVIOUS
<1>3. Chain = <<>>  BY <1>1, ChainIsRegistered
<1>4. StaticTypes  BY <1>1, <1>2 DEF StaticTypes
<1>5. LoadInv  BY <1>1 DEF LoadInv
<1>6. ChainInv  BY <1>1, <1>2, <1>3 DEF ChainInv
<1>7. ReadInv  BY <1>1, <1>2, <1>3 DEF ReadInv
<1>. QED  BY <1>4, <1>5, <1>6, <1>7 DEF StaticInv

\* A walk that has ended has read every node registered before it began, in order and each
\* once, while plugins are loaded one after the other (staticregistry.h 166-173).
THEOREM EveryNodeIsReadHolds == Spec => []EveryNodeIsRead
<1>1. Init => StaticInv  BY EveryPartBegins, StaticInit
<1>2. StaticInv /\ [Next]_vars => StaticInv'  BY EveryPartSteps, StaticStep
<1>3. StaticInv => EveryNodeIsRead
  <2>. SUFFICES ASSUME StaticInv, NEW r \in Readers, at[r] = {}
                PROVE  Static!IsPrefix(before[r], read[r]) /\ Static!IsInjective(read[r])
       BY DEF EveryNodeIsRead, Static!EveryNodeIsRead
  <2>1. /\ read[r] \in Seq(Nodes) /\ before[r] \in Seq(Nodes)
        /\ Len(before[r]) \in Nat /\ Len(read[r]) \in Nat /\ Len(Chain) \in Nat
        BY DEF StaticInv, StaticTypes, ChainInv
  <2>2. /\ Len(before[r]) <= Len(read[r]) /\ Len(read[r]) <= Len(Chain)
        /\ \A i \in 1..Len(read[r]) : read[r][i] = Chain[i]
        /\ \A i \in 1..Len(before[r]) : before[r][i] = Chain[i]
        BY DEF StaticInv, ReadInv
  <2>3. Static!IsPrefix(before[r], read[r])
    <3>1. \A i \in 1..Len(before[r]) : before[r][i] = read[r][i]  BY <2>1, <2>2
    <3>. QED  BY <2>1, <2>2, <3>1 DEF Static!IsPrefix
  <2>4. Static!IsInjective(read[r])
    <3>1. DOMAIN read[r] = 1..Len(read[r])  BY <2>1
    <3>2. \A i, j \in 1..Len(read[r]) : read[r][i] = read[r][j] => i = j
          BY <2>1, <2>2 DEF StaticInv, ChainInv
    <3>. QED  BY <3>1, <3>2 DEF Static!IsInjective
  <2>. QED  BY <2>3, <2>4
<1>. QED  BY <1>1, <1>2, <1>3, PTL DEF Spec

-----------------------------------------------------------------------------
(* ChildFds: ChildFds_proofs has the invariant, and what it says is said here of the part.     *)

ProvedFds == INSTANCE ChildFds_proofs WITH pc <- fdsPc

LEMMA SameTable ==
    /\ ChildFds!Free = ProvedFds!Free /\ ChildFds!Fds = ProvedFds!Fds
    /\ ChildFds!FdNames = ProvedFds!FdNames /\ ChildFds!DeviceChoices = ProvedFds!DeviceChoices
    /\ \A from : ChildFds!LowestFree(from) = ProvedFds!LowestFree(from)
    /\ UNCHANGED ChildFds!settings <=> UNCHANGED ProvedFds!settings
BY DEF ChildFds!Free, ProvedFds!Free, ChildFds!Fds, ProvedFds!Fds, ChildFds!FdNames,
       ProvedFds!FdNames, ChildFds!DeviceChoices, ProvedFds!DeviceChoices,
       ChildFds!LowestFree, ProvedFds!LowestFree, ChildFds!settings, ProvedFds!settings

LEMMA SameOpenings ==
    /\ \A r, w, x, y : ChildFds!MakePipe(r, w, x, y) <=> ProvedFds!MakePipe(r, w, x, y)
    /\ \A h : ChildFds!UseDevnull(h) <=> ProvedFds!UseDevnull(h)
    /\ \A h : ChildFds!Dup(h) <=> ProvedFds!Dup(h)
    /\ \A here, h, n, after : ChildFds!Place(here, h, n, after) <=> ProvedFds!Place(here, h, n, after)
<1>1. \A r, w, x, y : ChildFds!MakePipe(r, w, x, y) <=> ProvedFds!MakePipe(r, w, x, y)
      BY SameTable DEF ChildFds!MakePipe, ProvedFds!MakePipe
<1>2. \A h : ChildFds!UseDevnull(h) <=> ProvedFds!UseDevnull(h)
      BY SameTable DEF ChildFds!UseDevnull, ProvedFds!UseDevnull
<1>3. \A h : ChildFds!Dup(h) <=> ProvedFds!Dup(h)
      BY SameTable DEF ChildFds!Dup, ProvedFds!Dup
<1>4. \A here, h, n, after : ChildFds!Place(here, h, n, after) <=> ProvedFds!Place(here, h, n, after)
      BY SameTable DEF ChildFds!Place, ProvedFds!Place
<1>. QED  BY <1>1, <1>2, <1>3, <1>4

LEMMA SameFdsInit == ChildFds!Init => ProvedFds!Init
BY SameTable DEF ChildFds!Init, ProvedFds!Init

LEMMA SameFdsSteps ==
    ASSUME [ChildFds!Next]_(ChildFds!vars)
    PROVE  [ProvedFds!Next]_(ProvedFds!vars)
<1>1. UNCHANGED ChildFds!vars => UNCHANGED ProvedFds!vars
      BY DEF ChildFds!vars, ProvedFds!vars, ChildFds!settings, ProvedFds!settings
<1>2. ChildFds!OpenErrpipe => ProvedFds!OpenErrpipe
      BY SameTable, SameOpenings DEF ChildFds!OpenErrpipe, ProvedFds!OpenErrpipe
<1>3. ChildFds!RaiseErrpipe => ProvedFds!RaiseErrpipe
      BY SameTable DEF ChildFds!RaiseErrpipe, ProvedFds!RaiseErrpipe
<1>4. ChildFds!KeepPassed => ProvedFds!KeepPassed
      BY SameTable DEF ChildFds!KeepPassed, ProvedFds!KeepPassed
<1>5. ChildFds!CloseParentEnds => ProvedFds!CloseParentEnds
      BY SameTable DEF ChildFds!CloseParentEnds, ProvedFds!CloseParentEnds
<1>6. ChildFds!MoveStdout => ProvedFds!MoveStdout
      BY SameTable, SameOpenings DEF ChildFds!MoveStdout, ProvedFds!MoveStdout
<1>7. ChildFds!MoveStderr => ProvedFds!MoveStderr
      BY SameTable, SameOpenings DEF ChildFds!MoveStderr, ProvedFds!MoveStderr
<1>8. ChildFds!CloseOpenFds => ProvedFds!CloseOpenFds
      BY SameTable DEF ChildFds!CloseOpenFds, ProvedFds!CloseOpenFds
<1>9. ChildFds!Exec => ProvedFds!Exec
      BY SameTable DEF ChildFds!Exec, ProvedFds!Exec
<1>10. CASE ChildFds!Next
  <2>1. CASE ChildFds!GetHandle("stdin", dev.stdin, "p2cread",
                                ChildFds!MakePipe("p2cread", "p2cwrite", "inR", "inW"), "stdout")
        BY <2>1, SameTable, SameOpenings DEF ChildFds!GetHandle, ProvedFds!GetHandle, ProvedFds!Next
  <2>2. CASE ChildFds!GetHandle("stdout", dev.stdout, "c2pwrite",
                                ChildFds!MakePipe("c2pread", "c2pwrite", "outR", "outW"), "stderr")
        BY <2>2, SameTable, SameOpenings DEF ChildFds!GetHandle, ProvedFds!GetHandle, ProvedFds!Next
  <2>3. CASE ChildFds!GetHandle("stderr", dev.stderr, "errwrite",
                                ChildFds!MakePipe("errread", "errwrite", "errR", "errW"), "errpipe")
        BY <2>3, SameTable, SameOpenings DEF ChildFds!GetHandle, ProvedFds!GetHandle, ProvedFds!Next
  <2>. QED  BY <1>2, <1>3, <1>4, <1>5, <1>6, <1>7, <1>8, <1>9, <1>10, <2>1, <2>2, <2>3, SameOpenings
            DEF ChildFds!Next, ProvedFds!Next
<1>. QED  BY <1>1, <1>10

LEMMA SamePromises ==
    /\ ProvedFds!StreamsAsAsked => ChildFds!StreamsAsAsked
    /\ ProvedFds!NothingElseInherited => ChildFds!NothingElseInherited
    /\ ProvedFds!ErrpipeLastsToExec => ChildFds!ErrpipeLastsToExec
    /\ ProvedFds!TypeOK => ChildFds!TypeOK
<1>1. \A n, d, end : ChildFds!Promised(n, d, end) = ProvedFds!Promised(n, d, end)
      BY SameTable DEF ChildFds!Promised, ProvedFds!Promised
<1>2. ProvedFds!StreamsAsAsked => ChildFds!StreamsAsAsked
      BY <1>1 DEF ChildFds!StreamsAsAsked, ProvedFds!StreamsAsAsked
<1>3. ProvedFds!NothingElseInherited => ChildFds!NothingElseInherited
      BY SameTable DEF ChildFds!NothingElseInherited, ProvedFds!NothingElseInherited
<1>4. ProvedFds!ErrpipeLastsToExec => ChildFds!ErrpipeLastsToExec
      BY SameTable DEF ChildFds!ErrpipeLastsToExec, ProvedFds!ErrpipeLastsToExec
<1>5. ProvedFds!TypeOK => ChildFds!TypeOK
      BY SameTable DEF ChildFds!TypeOK, ProvedFds!TypeOK
<1>. QED  BY <1>2, <1>3, <1>4, <1>5

\* The program behind exec has the streams that were asked for and nothing besides, and the
\* error pipe lasts until exec (popen_unix.cpp, _child_exec()), whatever the caller has open.
THEOREM ChildGetsWhatIsAskedHolds == Spec => []ChildGetsWhatIsAsked
<1>1. Init => ProvedFds!Init  BY EveryPartBegins, SameFdsInit
<1>2. [Next]_vars => [ProvedFds!Next]_(ProvedFds!vars)  BY EveryPartSteps, SameFdsSteps
<1>3. ProvedFds!FdsAssumption
      BY PartsAssumption DEF ProvedFds!FdsAssumption, ProvedFds!Words
<1>4. ProvedFds!Spec => [](ProvedFds!StreamsAsAsked /\ ProvedFds!NothingElseInherited
                             /\ ProvedFds!ErrpipeLastsToExec)
      BY <1>3, ProvedFds!ChildGetsWhatIsAskedHolds
<1>5. ProvedFds!StreamsAsAsked /\ ProvedFds!NothingElseInherited /\ ProvedFds!ErrpipeLastsToExec
        => ChildGetsWhatIsAsked
      BY SamePromises DEF ChildGetsWhatIsAsked
<1>. QED  BY <1>1, <1>2, <1>4, <1>5, PTL DEF Spec, ProvedFds!Spec

-----------------------------------------------------------------------------
(* ConsoleOutput: ConsoleOutput_proofs has the invariant, for a terminal and for a legacy      *)
(* console, and what it says is said here of the two parts.                                    *)

ProvedTerminal == INSTANCE ConsoleOutput_proofs WITH
    Modes <- {"automatic", "vt", "never"}, Detected <- "vt", Calls <- WriterCalls,
    pc <- outPc, holder <- outHolder

LEMMA SameTerminalWords ==
    /\ Terminal!Plain = ProvedTerminal!Plain /\ Terminal!Fresh = ProvedTerminal!Fresh
    /\ \A word, a : Terminal!UpdateAttrs(word, a) = ProvedTerminal!UpdateAttrs(word, a)
    /\ \A word : Terminal!IsReset(word) <=> ProvedTerminal!IsReset(word)
<1>1. /\ Terminal!nocolor = ProvedTerminal!nocolor
      /\ Terminal!intensified = ProvedTerminal!intensified
      /\ Terminal!ColorNames = ProvedTerminal!ColorNames /\ Terminal!Styles = ProvedTerminal!Styles
      BY DEF Terminal!nocolor, ProvedTerminal!nocolor, Terminal!intensified,
             ProvedTerminal!intensified, Terminal!ColorNames, ProvedTerminal!ColorNames,
             Terminal!Styles, ProvedTerminal!Styles
<1>2. Terminal!Plain = ProvedTerminal!Plain  BY <1>1 DEF Terminal!Plain, ProvedTerminal!Plain
<1>3. Terminal!Fresh = ProvedTerminal!Fresh
      BY <1>2 DEF Terminal!Fresh, ProvedTerminal!Fresh, Terminal!Background, ProvedTerminal!Background
<1>4. \A word : Terminal!GetColor(word) = ProvedTerminal!GetColor(word)
      BY <1>1 DEF Terminal!GetColor, ProvedTerminal!GetColor
<1>5. \A c : Terminal!Brighten(c) = ProvedTerminal!Brighten(c)
      BY <1>1 DEF Terminal!Brighten, ProvedTerminal!Brighten, Terminal!Light, ProvedTerminal!Light
<1>6. \A word : Terminal!IsReset(word) <=> ProvedTerminal!IsReset(word)
      BY DEF Terminal!IsReset, ProvedTerminal!IsReset
<1>7. \A word : Terminal!IsIntensified(word) <=> ProvedTerminal!IsIntensified(word)
      BY DEF Terminal!IsIntensified, ProvedTerminal!IsIntensified
<1>8. \A word, a : Terminal!UpdateAttrs(word, a) = ProvedTerminal!UpdateAttrs(word, a)
      BY <1>1, <1>2, <1>4, <1>5, <1>6, <1>7 DEF Terminal!UpdateAttrs, ProvedTerminal!UpdateAttrs
<1>. QED  BY <1>2, <1>3, <1>6, <1>8

LEMMA SameTerminalOutputs ==
    /\ \A o, to : Terminal!Change(o, to) <=> ProvedTerminal!Change(o, to)
    /\ \A o : Terminal!Reset(o) <=> ProvedTerminal!Reset(o)
    /\ \A o, to : Terminal!ResetAndChange(o, to) <=> ProvedTerminal!ResetAndChange(o, to)
    /\ \A a : Terminal!Shown(a) <=> ProvedTerminal!Shown(a)
<1>1. /\ Terminal!nocolor = ProvedTerminal!nocolor /\ Terminal!black = ProvedTerminal!black
      /\ Terminal!intensified = ProvedTerminal!intensified
      BY DEF Terminal!nocolor, ProvedTerminal!nocolor, Terminal!intensified,
             ProvedTerminal!intensified, Terminal!black, ProvedTerminal!black
<1>2. /\ \A c : Terminal!HasCode(c) <=> ProvedTerminal!HasCode(c)
      /\ \A c : Terminal!Light(c) <=> ProvedTerminal!Light(c)
      BY <1>1 DEF Terminal!HasCode, ProvedTerminal!HasCode, Terminal!Color, ProvedTerminal!Color,
                  Terminal!Light, ProvedTerminal!Light
<1>3. \A from, to, shown :
          Terminal!SgrSequence(from, to, shown) = ProvedTerminal!SgrSequence(from, to, shown)
      BY <1>2 DEF Terminal!SgrSequence, ProvedTerminal!SgrSequence
<1>4. \A from, to, style :
          Terminal!WinColor(from, to, style) = ProvedTerminal!WinColor(from, to, style)
      BY <1>1, <1>2 DEF Terminal!WinColor, ProvedTerminal!WinColor
<1>5. \A o : Terminal!AfterReset(o) = ProvedTerminal!AfterReset(o)
      BY SameTerminalWords DEF Terminal!AfterReset, ProvedTerminal!AfterReset
<1>6. \A o, to : Terminal!Change(o, to) <=> ProvedTerminal!Change(o, to)
      BY <1>3, <1>4 DEF Terminal!Change, ProvedTerminal!Change
<1>7. \A o : Terminal!Reset(o) <=> ProvedTerminal!Reset(o)
      BY <1>5, SameTerminalWords DEF Terminal!Reset, ProvedTerminal!Reset
<1>8. \A o, to : Terminal!ResetAndChange(o, to) <=> ProvedTerminal!ResetAndChange(o, to)
      BY <1>1, <1>3, <1>4, <1>5, SameTerminalWords
         DEF Terminal!ResetAndChange, ProvedTerminal!ResetAndChange
<1>9. \A c : Terminal!Brighten(c) = ProvedTerminal!Brighten(c)
      BY <1>1, <1>2 DEF Terminal!Brighten, ProvedTerminal!Brighten
<1>10. \A a : Terminal!Shown(a) <=> ProvedTerminal!Shown(a)
      BY <1>1, <1>2, <1>9 DEF Terminal!Shown, ProvedTerminal!Shown
<1>. QED  BY <1>6, <1>7, <1>8, <1>10

LEMMA SameTerminalInit == Terminal!Init => ProvedTerminal!Init
BY SameTerminalWords DEF Terminal!Init, ProvedTerminal!Init

LEMMA SameTerminalSteps ==
    ASSUME [Terminal!Next]_(Terminal!vars)
    PROVE  [ProvedTerminal!Next]_(ProvedTerminal!vars)
<1>1. UNCHANGED Terminal!vars => UNCHANGED ProvedTerminal!vars
      BY DEF Terminal!vars, ProvedTerminal!vars
<1>2. \A m : Terminal!SetColorMode(m) => ProvedTerminal!SetColorMode(m)
      BY DEF Terminal!SetColorMode, ProvedTerminal!SetColorMode
<1>3. \A t, c : Terminal!Begin(t, c) => ProvedTerminal!Begin(t, c)
      BY DEF Terminal!Begin, ProvedTerminal!Begin, Terminal!ResolveColorMode,
             ProvedTerminal!ResolveColorMode
<1>4. \A t : Terminal!Enter(t) => ProvedTerminal!Enter(t)
      BY DEF Terminal!Enter, ProvedTerminal!Enter
<1>5. \A t, what : Terminal!Says(t, what) <=> ProvedTerminal!Says(t, what)
      BY DEF Terminal!Says, ProvedTerminal!Says
<1>6. \A t : Terminal!Write(t) => ProvedTerminal!Write(t)
      BY <1>5, SameTerminalWords, SameTerminalOutputs DEF Terminal!Write, ProvedTerminal!Write
<1>7. \A t : Terminal!Leave(t) => ProvedTerminal!Leave(t)
      BY SameTerminalWords, SameTerminalOutputs DEF Terminal!Leave, ProvedTerminal!Leave
<1>8. \A t : Terminal!Newline(t) => ProvedTerminal!Newline(t)
      BY <1>5 DEF Terminal!Newline, ProvedTerminal!Newline
<1>9. \A t : Terminal!WriteRaw(t) => ProvedTerminal!WriteRaw(t)
      BY <1>5 DEF Terminal!WriteRaw, ProvedTerminal!WriteRaw
<1>. QED  BY <1>1, <1>2, <1>3, <1>4, <1>6, <1>7, <1>8, <1>9 DEF Terminal!Next, ProvedTerminal!Next

LEMMA SameTerminalPromises ==
    /\ ProvedTerminal!OutputAssumption
    /\ ProvedTerminal!ShownAsMeant => Terminal!ShownAsMeant
    /\ ProvedTerminal!TextsStayTogether => Terminal!TextsStayTogether
<1>1. Terminal!Items = ProvedTerminal!Items
      BY DEF Terminal!Items, ProvedTerminal!Items, Terminal!Attributes, ProvedTerminal!Attributes,
             Terminal!Styles, ProvedTerminal!Styles
<1>2. ProvedTerminal!OutputAssumption
      BY <1>1, CallsAssumption DEF ProvedTerminal!OutputAssumption, Terminal!CallsAreWellFormed,
                                   ProvedTerminal!CallsAreWellFormed
<1>3. ProvedTerminal!ShownAsMeant => Terminal!ShownAsMeant
      BY SameTerminalWords DEF ProvedTerminal!ShownAsMeant, Terminal!ShownAsMeant
<1>4. ProvedTerminal!TextsStayTogether => Terminal!TextsStayTogether
      BY DEF ProvedTerminal!TextsStayTogether, Terminal!TextsStayTogether
<1>. QED  BY <1>2, <1>3, <1>4

ProvedLegacy == INSTANCE ConsoleOutput_proofs WITH
    Modes <- {"automatic", "legacy", "never"}, Detected <- "legacy", Calls <- WriterCalls,
    pc <- outPc, holder <- outHolder

LEMMA SameLegacyWords ==
    /\ Legacy!Plain = ProvedLegacy!Plain /\ Legacy!Fresh = ProvedLegacy!Fresh
    /\ \A word, a : Legacy!UpdateAttrs(word, a) = ProvedLegacy!UpdateAttrs(word, a)
    /\ \A word : Legacy!IsReset(word) <=> ProvedLegacy!IsReset(word)
<1>1. /\ Legacy!nocolor = ProvedLegacy!nocolor
      /\ Legacy!intensified = ProvedLegacy!intensified
      /\ Legacy!ColorNames = ProvedLegacy!ColorNames /\ Legacy!Styles = ProvedLegacy!Styles
      BY DEF Legacy!nocolor, ProvedLegacy!nocolor, Legacy!intensified,
             ProvedLegacy!intensified, Legacy!ColorNames, ProvedLegacy!ColorNames,
             Legacy!Styles, ProvedLegacy!Styles
<1>2. Legacy!Plain = ProvedLegacy!Plain  BY <1>1 DEF Legacy!Plain, ProvedLegacy!Plain
<1>3. Legacy!Fresh = ProvedLegacy!Fresh
      BY <1>2 DEF Legacy!Fresh, ProvedLegacy!Fresh, Legacy!Background, ProvedLegacy!Background
<1>4. \A word : Legacy!GetColor(word) = ProvedLegacy!GetColor(word)
      BY <1>1 DEF Legacy!GetColor, ProvedLegacy!GetColor
<1>5. \A c : Legacy!Brighten(c) = ProvedLegacy!Brighten(c)
      BY <1>1 DEF Legacy!Brighten, ProvedLegacy!Brighten, Legacy!Light, ProvedLegacy!Light
<1>6. \A word : Legacy!IsReset(word) <=> ProvedLegacy!IsReset(word)
      BY DEF Legacy!IsReset, ProvedLegacy!IsReset
<1>7. \A word : Legacy!IsIntensified(word) <=> ProvedLegacy!IsIntensified(word)
      BY DEF Legacy!IsIntensified, ProvedLegacy!IsIntensified
<1>8. \A word, a : Legacy!UpdateAttrs(word, a) = ProvedLegacy!UpdateAttrs(word, a)
      BY <1>1, <1>2, <1>4, <1>5, <1>6, <1>7 DEF Legacy!UpdateAttrs, ProvedLegacy!UpdateAttrs
<1>. QED  BY <1>2, <1>3, <1>6, <1>8

LEMMA SameLegacyOutputs ==
    /\ \A o, to : Legacy!Change(o, to) <=> ProvedLegacy!Change(o, to)
    /\ \A o : Legacy!Reset(o) <=> ProvedLegacy!Reset(o)
    /\ \A o, to : Legacy!ResetAndChange(o, to) <=> ProvedLegacy!ResetAndChange(o, to)
    /\ \A a : Legacy!Shown(a) <=> ProvedLegacy!Shown(a)
<1>1. /\ Legacy!nocolor = ProvedLegacy!nocolor /\ Legacy!black = ProvedLegacy!black
      /\ Legacy!intensified = ProvedLegacy!intensified
      BY DEF Legacy!nocolor, ProvedLegacy!nocolor, Legacy!intensified,
             ProvedLegacy!intensified, Legacy!black, ProvedLegacy!black
<1>2. /\ \A c : Legacy!HasCode(c) <=> ProvedLegacy!HasCode(c)
      /\ \A c : Legacy!Light(c) <=> ProvedLegacy!Light(c)
      BY <1>1 DEF Legacy!HasCode, ProvedLegacy!HasCode, Legacy!Color, ProvedLegacy!Color,
                  Legacy!Light, ProvedLegacy!Light
<1>3. \A from, to, shown :
          Legacy!SgrSequence(from, to, shown) = ProvedLegacy!SgrSequence(from, to, shown)
      BY <1>2 DEF Legacy!SgrSequence, ProvedLegacy!SgrSequence
<1>4. \A from, to, style :
          Legacy!WinColor(from, to, style) = ProvedLegacy!WinColor(from, to, style)
      BY <1>1, <1>2 DEF Legacy!WinColor, ProvedLegacy!WinColor
<1>5. \A o : Legacy!AfterReset(o) = ProvedLegacy!AfterReset(o)
      BY SameLegacyWords DEF Legacy!AfterReset, ProvedLegacy!AfterReset
<1>6. \A o, to : Legacy!Change(o, to) <=> ProvedLegacy!Change(o, to)
      BY <1>3, <1>4 DEF Legacy!Change, ProvedLegacy!Change
<1>7. \A o : Legacy!Reset(o) <=> ProvedLegacy!Reset(o)
      BY <1>5, SameLegacyWords DEF Legacy!Reset, ProvedLegacy!Reset
<1>8. \A o, to : Legacy!ResetAndChange(o, to) <=> ProvedLegacy!ResetAndChange(o, to)
      BY <1>1, <1>3, <1>4, <1>5, SameLegacyWords
         DEF Legacy!ResetAndChange, ProvedLegacy!ResetAndChange
<1>9. \A c : Legacy!Brighten(c) = ProvedLegacy!Brighten(c)
      BY <1>1, <1>2 DEF Legacy!Brighten, ProvedLegacy!Brighten
<1>10. \A a : Legacy!Shown(a) <=> ProvedLegacy!Shown(a)
      BY <1>1, <1>2, <1>9 DEF Legacy!Shown, ProvedLegacy!Shown
<1>. QED  BY <1>6, <1>7, <1>8, <1>10

LEMMA SameLegacyInit == Legacy!Init => ProvedLegacy!Init
BY SameLegacyWords DEF Legacy!Init, ProvedLegacy!Init

LEMMA SameLegacySteps ==
    ASSUME [Legacy!Next]_(Legacy!vars)
    PROVE  [ProvedLegacy!Next]_(ProvedLegacy!vars)
<1>1. UNCHANGED Legacy!vars => UNCHANGED ProvedLegacy!vars
      BY DEF Legacy!vars, ProvedLegacy!vars
<1>2. \A m : Legacy!SetColorMode(m) => ProvedLegacy!SetColorMode(m)
      BY DEF Legacy!SetColorMode, ProvedLegacy!SetColorMode
<1>3. \A t, c : Legacy!Begin(t, c) => ProvedLegacy!Begin(t, c)
      BY DEF Legacy!Begin, ProvedLegacy!Begin, Legacy!ResolveColorMode,
             ProvedLegacy!ResolveColorMode
<1>4. \A t : Legacy!Enter(t) => ProvedLegacy!Enter(t)
      BY DEF Legacy!Enter, ProvedLegacy!Enter
<1>5. \A t, what : Legacy!Says(t, what) <=> ProvedLegacy!Says(t, what)
      BY DEF Legacy!Says, ProvedLegacy!Says
<1>6. \A t : Legacy!Write(t) => ProvedLegacy!Write(t)
      BY <1>5, SameLegacyWords, SameLegacyOutputs DEF Legacy!Write, ProvedLegacy!Write
<1>7. \A t : Legacy!Leave(t) => ProvedLegacy!Leave(t)
      BY SameLegacyWords, SameLegacyOutputs DEF Legacy!Leave, ProvedLegacy!Leave
<1>8. \A t : Legacy!Newline(t) => ProvedLegacy!Newline(t)
      BY <1>5 DEF Legacy!Newline, ProvedLegacy!Newline
<1>9. \A t : Legacy!WriteRaw(t) => ProvedLegacy!WriteRaw(t)
      BY <1>5 DEF Legacy!WriteRaw, ProvedLegacy!WriteRaw
<1>. QED  BY <1>1, <1>2, <1>3, <1>4, <1>6, <1>7, <1>8, <1>9 DEF Legacy!Next, ProvedLegacy!Next

LEMMA SameCalls == Terminal!CallsAreWellFormed => ProvedLegacy!CallsAreWellFormed
<1>1. Terminal!Items = ProvedLegacy!Items
      BY DEF Terminal!Items, ProvedLegacy!Items, Terminal!Attributes, ProvedLegacy!Attributes,
             Terminal!Styles, ProvedLegacy!Styles
<1>. QED  BY <1>1 DEF Terminal!CallsAreWellFormed, ProvedLegacy!CallsAreWellFormed

LEMMA SameTexts == ProvedLegacy!TextsStayTogether => Terminal!TextsStayTogether
BY DEF ProvedLegacy!TextsStayTogether, Terminal!TextsStayTogether

LEMMA SameLegacyPromises ==
    /\ ProvedLegacy!OutputAssumption
    /\ ProvedLegacy!ShownAsMeant => Legacy!ShownAsMeant
    /\ ProvedLegacy!TextsStayTogether => Legacy!TextsStayTogether
<1>2. ProvedLegacy!OutputAssumption
      BY SameCalls, CallsAssumption DEF ProvedLegacy!OutputAssumption
<1>3. ProvedLegacy!ShownAsMeant => Legacy!ShownAsMeant
      BY SameLegacyWords DEF ProvedLegacy!ShownAsMeant, Legacy!ShownAsMeant
<1>4. ProvedLegacy!TextsStayTogether => Legacy!TextsStayTogether
      BY DEF ProvedLegacy!TextsStayTogether, Legacy!TextsStayTogether
<1>. QED  BY <1>2, <1>3, <1>4

\* What has been written does not mix, whichever console it is.
LEMMA OutputBegins ==
    ASSUME Init
    PROVE  (part # "legacy" => Terminal!Init) /\ (part = "legacy" => Legacy!Init)
BY DEF Init

LEMMA OutputGoesOn ==
    ASSUME [Next]_vars
    PROVE  /\ part' = part
           /\ part # "legacy" => [Terminal!Next]_(Terminal!vars)
           /\ part = "legacy" => [Legacy!Next]_(Legacy!vars)
<1>1. (UNCHANGED outputVars => UNCHANGED Terminal!vars) /\ (UNCHANGED outputVars => UNCHANGED Legacy!vars)
      BY DEF outputVars, Terminal!vars, Legacy!vars
<1>2. (UNCHANGED storesVars => part' = part) /\ (StoresNext => part' = part)
      BY DEF storesVars, StoresNext
<1>3. /\ part' = part
      /\ part # "legacy" => [Terminal!Next]_outputVars
      /\ part = "legacy" => [Legacy!Next]_outputVars
      BY <1>2 DEF Next, vars
<1>. QED  BY <1>1, <1>3

\* A piece of text is shown in its own attributes, on a terminal and on a legacy console, and
\* the pieces of one call are together (console.cpp 226-260, 378-404).
THEOREM WritersDoNotMixHolds == Spec => []WritersDoNotMix
<1>. DEFINE AtLegacy == part = "legacy"
<1>1. Init => (AtLegacy => ProvedLegacy!Init) /\ (~AtLegacy => ProvedTerminal!Init)
      BY OutputBegins, SameTerminalInit, SameLegacyInit
<1>2. [Next]_vars /\ AtLegacy => AtLegacy' /\ [ProvedLegacy!Next]_(ProvedLegacy!vars)
      BY OutputGoesOn, SameLegacySteps
<1>3. [Next]_vars /\ ~AtLegacy => ~AtLegacy' /\ [ProvedTerminal!Next]_(ProvedTerminal!vars)
      BY OutputGoesOn, SameTerminalSteps
<1>4. ProvedLegacy!Spec => [](ProvedLegacy!ShownAsMeant /\ ProvedLegacy!TextsStayTogether)
      BY SameLegacyPromises, ProvedLegacy!WritersDoNotMixHolds
<1>5. ProvedTerminal!Spec => [](ProvedTerminal!ShownAsMeant /\ ProvedTerminal!TextsStayTogether)
      BY SameTerminalPromises, ProvedTerminal!WritersDoNotMixHolds
<1>6. AtLegacy /\ ProvedLegacy!ShownAsMeant /\ ProvedLegacy!TextsStayTogether => WritersDoNotMix
      BY SameLegacyPromises, SameTexts DEF WritersDoNotMix
<1>7. ~AtLegacy /\ ProvedTerminal!ShownAsMeant /\ ProvedTerminal!TextsStayTogether => WritersDoNotMix
      BY SameTerminalPromises DEF WritersDoNotMix
<1>. HIDE DEF AtLegacy
<1>. QED  BY <1>1, <1>2, <1>3, <1>4, <1>5, <1>6, <1>7, PTL
          DEF Spec, ProvedLegacy!Spec, ProvedTerminal!Spec

-----------------------------------------------------------------------------
(* The types: each part's comes with its invariant. *)

LEMMA SameTypes ==
    /\ Proved!TypeOK => Registry!TypeOK
    /\ ProvedTerminal!TypeOK => Terminal!TypeOK
    /\ ProvedLegacy!TypeOK => Legacy!TypeOK
<1>1. /\ Proved!Calls = Registry!Calls /\ Proved!Events = Registry!Events
      /\ \A s : Proved!Distinct(s) <=> Registry!Distinct(s)
      BY DEF Proved!Calls, Registry!Calls, Proved!Ops, Registry!Ops, Proved!Events, Registry!Events,
             Proved!Distinct, Registry!Distinct
<1>2. /\ \A S : ProvedTerminal!Cardinality(S) = Terminal!Cardinality(S)
      /\ \A S : ProvedLegacy!Cardinality(S) = Legacy!Cardinality(S)
      BY DEF ProvedTerminal!Cardinality, Terminal!Cardinality, ProvedLegacy!Cardinality,
             Legacy!Cardinality
<1>. QED  BY <1>1, <1>2 DEF Proved!TypeOK, Registry!TypeOK, ProvedTerminal!TypeOK, Terminal!TypeOK,
                            ProvedLegacy!TypeOK, Legacy!TypeOK

LEMMA ChildFdsTypes == Spec => []ChildFds!TypeOK
<1>1. Init => ProvedFds!Init  BY EveryPartBegins, SameFdsInit
<1>2. [Next]_vars => [ProvedFds!Next]_(ProvedFds!vars)  BY EveryPartSteps, SameFdsSteps
<1>3. ProvedFds!FdsAssumption
      BY PartsAssumption DEF ProvedFds!FdsAssumption, ProvedFds!Words
<1>4. ProvedFds!Spec => []ProvedFds!TypeOK  BY <1>3, ProvedFds!FdsTypeCorrect
<1>5. ProvedFds!TypeOK => ChildFds!TypeOK  BY SamePromises
<1>. QED  BY <1>1, <1>2, <1>4, <1>5, PTL DEF Spec, ProvedFds!Spec

LEMMA RegistryTypes == Spec => []Registry!TypeOK
<1>1. Init => Proved!Init
  <2>. SUFFICES ASSUME Init PROVE Proved!Init  OBVIOUS
  <2>1. Registry!Init  BY EveryPartBegins
  <2>. QED  BY <2>1, SameHelpers DEF Registry!Init, Proved!Init
<1>2. [Next]_vars => [Proved!Next]_(Proved!vars)  BY EveryPartSteps, SameSteps
<1>3. Proved!Spec => []Proved!TypeOK  BY PartsAssumption, Proved!RegistryTypeCorrect
<1>4. Proved!TypeOK => Registry!TypeOK  BY SameTypes
<1>. QED  BY <1>1, <1>2, <1>3, <1>4, PTL DEF Spec, Proved!Spec

LEMMA OutputsTypes == Spec => [](IF part = "legacy" THEN Legacy!TypeOK ELSE Terminal!TypeOK)
<1>. DEFINE AtLegacy == part = "legacy"
            Typed == IF part = "legacy" THEN Legacy!TypeOK ELSE Terminal!TypeOK
<1>1. Init => (AtLegacy => ProvedLegacy!Init) /\ (~AtLegacy => ProvedTerminal!Init)
      BY OutputBegins, SameTerminalInit, SameLegacyInit
<1>2. [Next]_vars /\ AtLegacy => AtLegacy' /\ [ProvedLegacy!Next]_(ProvedLegacy!vars)
      BY OutputGoesOn, SameLegacySteps
<1>3. [Next]_vars /\ ~AtLegacy => ~AtLegacy' /\ [ProvedTerminal!Next]_(ProvedTerminal!vars)
      BY OutputGoesOn, SameTerminalSteps
<1>4. ProvedLegacy!Spec => []ProvedLegacy!TypeOK
      BY SameLegacyPromises, ProvedLegacy!OutputTypeCorrect
<1>5. ProvedTerminal!Spec => []ProvedTerminal!TypeOK
      BY SameTerminalPromises, ProvedTerminal!OutputTypeCorrect
<1>6. AtLegacy /\ ProvedLegacy!TypeOK => Typed  BY SameTypes
<1>7. ~AtLegacy /\ ProvedTerminal!TypeOK => Typed  BY SameTypes
<1>8. Spec => []Typed
  <2>. HIDE DEF AtLegacy, Typed
  <2>. QED  BY <1>1, <1>2, <1>3, <1>4, <1>5, <1>6, <1>7, PTL
            DEF Spec, ProvedLegacy!Spec, ProvedTerminal!Spec
<1>. QED  BY <1>8

\* The state of every part is of its type: the loader's counts and the handles given up stay
\* within their bound (sharedlibrary.cpp), the table of the console has one entry for a FILE and
\* no more than its slots (console.cpp, remember_target()), one thread at most holds each lock.
THEOREM TypesAreCorrect == Spec => []TypeOK
<1>1. Init => /\ GuardInv /\ CountInv /\ LibraryTypes /\ TargetInv /\ CacheFits
              /\ TypesInv /\ StaticInv
      BY EveryPartBegins, GuardInit, CountInit, LibraryBegins, TargetInit, FitsInit, TypesInit,
         StaticInit
<1>2. GuardInv /\ [Next]_vars => GuardInv'  BY EveryPartSteps, GuardStep
<1>3. CountInv /\ LibraryTypes /\ [Next]_vars => (CountInv /\ LibraryTypes)'
      BY EveryPartSteps, CountStep, LibraryTypesStep
<1>4. TargetInv /\ CacheFits /\ [Next]_vars => (TargetInv /\ CacheFits)'
      BY EveryPartSteps, TargetStep, FitsStep
<1>5. TypesInv /\ [Next]_vars => TypesInv'  BY EveryPartSteps, TypesStep
<1>6. StaticInv /\ [Next]_vars => StaticInv'  BY EveryPartSteps, StaticStep
<1>7. GuardInv /\ CountInv /\ LibraryTypes /\ TargetInv /\ CacheFits /\ TypesInv /\ StaticInv
        => Guard!TypeOK /\ Library!TypeOK /\ Console!TypeOK /\ Types!TypeOK /\ Static!TypeOK
  <2>1. GuardInv => Guard!TypeOK  BY DEF GuardInv
  <2>2. CountInv /\ LibraryTypes => Library!TypeOK  BY LibraryTypeCorrect
  <2>3. TargetInv /\ CacheFits => Console!TypeOK  BY TargetTypeCorrect
  <2>4. TypesInv => Types!TypeOK  BY DEF TypesInv
  <2>5. StaticInv => Static!TypeOK  BY DEF StaticInv, StaticTypes, Static!TypeOK
  <2>. QED  BY <2>1, <2>2, <2>3, <2>4, <2>5
<1>8. Spec => []Log!TypeOK  BY StoresAreParts, LogTypeCorrect, PTL
<1>9. ASSUME ChildFds!TypeOK, Registry!TypeOK, Log!TypeOK, Guard!TypeOK, Library!TypeOK,
             Console!TypeOK, Types!TypeOK, Static!TypeOK,
             IF part = "legacy" THEN Legacy!TypeOK ELSE Terminal!TypeOK
      PROVE  TypeOK
      BY <1>9, Zenon DEF TypeOK
<1>. QED  BY <1>1, <1>2, <1>3, <1>4, <1>5, <1>6, <1>7, <1>8, <1>9, ChildFdsTypes, RegistryTypes,
             OutputsTypes, PTL DEF Spec
=============================================================================
