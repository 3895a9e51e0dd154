---------------------- MODULE DynamicRegistry_proofs ----------------------
(***************************************************************************)
(* What listeners are told, for any threads, names, listeners and depth of *)
(* callbacks that call back: nothing twice, nothing under the lock, and,   *)
(* once it is quiet, all that happened.                                    *)
(***************************************************************************)
EXTENDS DynamicRegistry, SequenceTheorems, TLAPS

Pos(t) == 1..Len(calls[t])
IsTelling(t, i) == i \in Pos(t) /\ calls[t][i].at = "tell"
Event(c) == <<IF c.op = "add" THEN "added" ELSE "removed", c.entry>>
Registered == {entries[n] : n \in Names} \ {0}
Known == Registered \cup cleared

\* A call that is under way will still tell l of the event.
Pending(l, event) ==
    \E t \in Threads : \E i \in Pos(t) :
        /\ IsTelling(t, i) /\ Event(calls[t][i]) = event
        /\ l \in Members(calls[t][i].left)

-----------------------------------------------------------------------------
(* The parts of the invariant. *)

\* Only the innermost call of a thread can be elsewhere than at the telling.
StackInv ==
    /\ calls \in [Threads -> Seq(Calls)]
    /\ \A t \in Threads : \A i \in Pos(t) :
           LET c == calls[t][i]
           IN  /\ c.at = "tell" => c.op \in {"add", "remove"}
               /\ c.telling => c.at = "tell"
               /\ c.op \in {"add", "remove"} => c.on \in Names
               /\ c.op \in {"add_listener", "remove_listener"} => c.on \in Listeners
               /\ i >= 2 => c.at = "tell"

LockInv ==
    /\ lock \subseteq Threads
    /\ \A t, u \in lock : t = u
    /\ \A t \in Threads : t \in lock <=> calls[t] # <<>> /\ calls[t][1].at = "locked"

\* The number of an entry is used once.
EntriesInv ==
    /\ MaxEntries \in Nat /\ made \in 0..MaxEntries
    /\ entries \in [Names -> 0..made]
    /\ cleared \subseteq 1..made
    /\ \A n \in Names : entries[n] \notin cleared
    /\ \A n, m \in Names : entries[n] = entries[m] /\ entries[n] # 0 => n = m

ListenersInv == listeners \in Seq(Listeners) /\ Distinct(listeners) /\ alive \subseteq Listeners

\* What is being told has happened, once, and whoever is to be told is told once.
TellsInv ==
    /\ \A t, u \in Threads : \A i \in Pos(t), j \in Pos(u) :
           IsTelling(t, i) /\ IsTelling(u, j) /\ Event(calls[t][i]) = Event(calls[u][j])
               => t = u /\ i = j
    /\ \A t \in Threads : \A i \in Pos(t) :
           IsTelling(t, i) =>
               /\ Distinct(calls[t][i].left) /\ calls[t][i].entry \in 1..made
               /\ calls[t][i].op = "remove" => calls[t][i].entry \notin Known

\* What has been heard has happened and is not told again.
HeardInv ==
    \A l \in Listeners :
        /\ heard[l] \in Seq(Events) /\ Distinct(heard[l])
        /\ \A e \in Members(heard[l]) :
               /\ e[2] \in 1..made /\ (e[1] = "removed" => e[2] \notin Known)
               /\ ~Pending(l, e)

\* A listener never removed has heard of every change or will.
WatchInv ==
    /\ heard \in [Listeners -> Seq(Events)]
    /\ \A l \in Listeners \ unwatched :
        /\ l \in Members(listeners)
        /\ \A e \in 1..made :
               /\ <<"added", e>> \in Members(heard[l]) \/ Pending(l, <<"added", e>>)
               /\ \/ e \in Known
                  \/ <<"removed", e>> \in Members(heard[l]) \/ Pending(l, <<"removed", e>>)

RegistryInv ==
    StackInv /\ LockInv /\ EntriesInv /\ ListenersInv /\ TellsInv /\ HeardInv /\ WatchInv

-----------------------------------------------------------------------------
(* Sequences without repetition. *)

LEMMA AppendDistinct ==
    ASSUME NEW S, NEW s \in Seq(S), NEW x \in S, Distinct(s), x \notin Members(s)
    PROVE  /\ Append(s, x) \in Seq(S) /\ Distinct(Append(s, x))
           /\ Members(Append(s, x)) = Members(s) \cup {x}
<1>1. /\ Append(s, x) \in Seq(S) /\ Len(Append(s, x)) = Len(s) + 1 /\ Len(s) \in Nat
      /\ Append(s, x)[Len(s) + 1] = x
      /\ \A i \in 1..Len(s) : Append(s, x)[i] = s[i]
      OBVIOUS
<1>2. Distinct(Append(s, x))  BY <1>1 DEF Distinct, Members
<1>3. Members(Append(s, x)) = Members(s) \cup {x}
  <2>1. ASSUME NEW y \in Members(Append(s, x))  PROVE y \in Members(s) \cup {x}
    <3>1. PICK i \in 1..(Len(s) + 1) : y = Append(s, x)[i]  BY <1>1, <2>1 DEF Members
    <3>. QED  BY <1>1, <3>1 DEF Members
  <2>2. ASSUME NEW y \in Members(s)  PROVE y \in Members(Append(s, x))
    <3>1. PICK i \in 1..Len(s) : y = s[i]  BY <2>2 DEF Members
    <3>2. i \in 1..Len(Append(s, x)) /\ Append(s, x)[i] = y  BY <1>1, <3>1
    <3>. QED  BY <3>2 DEF Members
  <2>3. x \in Members(Append(s, x))
    <3>1. Len(s) + 1 \in 1..Len(Append(s, x))  BY <1>1
    <3>. QED  BY <1>1, <3>1 DEF Members
  <2>. QED  BY <2>1, <2>2, <2>3
<1>. QED  BY <1>1, <1>2, <1>3

LEMMA TailDistinct ==
    ASSUME NEW S, NEW s \in Seq(S), s # <<>>, Distinct(s)
    PROVE  /\ Tail(s) \in Seq(S) /\ Distinct(Tail(s)) /\ Head(s) \in S
           /\ Head(s) \notin Members(Tail(s))
           /\ Members(s) = Members(Tail(s)) \cup {Head(s)}
<1>1. /\ Head(s) \in S /\ Tail(s) \in Seq(S) /\ Len(Tail(s)) = Len(s) - 1
      /\ \A i \in 1..Len(Tail(s)) : Tail(s)[i] = s[i + 1]
      BY HeadTailProperties
<1>2. Len(s) \in Nat /\ Len(s) >= 1 /\ Head(s) = s[1]
      OBVIOUS
<1>3. Distinct(Tail(s)) /\ Head(s) \notin Members(Tail(s))
      BY <1>1, <1>2 DEF Distinct, Members
<1>4. ASSUME NEW y \in Members(s)  PROVE y \in Members(Tail(s)) \cup {Head(s)}
  <2>1. PICK i \in 1..Len(s) : y = s[i]  BY <1>4 DEF Members
  <2>2. CASE i = 1  BY <1>2, <2>1, <2>2
  <2>3. CASE i # 1
    <3>1. i - 1 \in 1..Len(Tail(s)) /\ Tail(s)[i - 1] = s[(i - 1) + 1]
          BY <1>1, <1>2, <2>3
    <3>. QED  BY <1>2, <2>1, <3>1 DEF Members
  <2>. QED  BY <2>2, <2>3
<1>5. ASSUME NEW y \in Members(Tail(s))  PROVE y \in Members(s)
  <2>1. PICK i \in 1..Len(Tail(s)) : y = Tail(s)[i]  BY <1>5 DEF Members
  <2>2. i + 1 \in 1..Len(s) /\ y = s[i + 1]  BY <1>1, <1>2, <2>1
  <2>. QED  BY <2>2 DEF Members
<1>6. Head(s) \in Members(s)
  <2>1. 1 \in 1..Len(s)  BY <1>2
  <2>. QED  BY <1>2, <2>1 DEF Members
<1>. QED  BY <1>1, <1>3, <1>4, <1>5, <1>6

LEMMA Closed ==
    ASSUME NEW S, NEW s \in Seq(S), Distinct(s), NEW k \in 1..Len(s), NEW r \in Seq(S),
           Len(r) = Len(s) - 1,
           \A i \in 1..(k - 1) : r[i] = s[i], \A i \in k..(Len(s) - 1) : r[i] = s[i + 1]
    PROVE  Distinct(r) /\ Members(r) = Members(s) \ {s[k]}
<1>1. Len(s) \in Nat /\ k \in Int  OBVIOUS
<1>2. Distinct(r)  BY <1>1 DEF Distinct
<1>3. ASSUME NEW y \in Members(r)  PROVE y \in Members(s) \ {s[k]}
  <2>1. PICK i \in 1..Len(r) : y = r[i]  BY <1>3 DEF Members
  <2>2. PICK j \in 1..Len(s) : j # k /\ y = s[j]  BY <1>1, <2>1
  <2>. QED  BY <2>2 DEF Members, Distinct
<1>4. ASSUME NEW y \in Members(s), y # s[k]  PROVE y \in Members(r)
  <2>1. PICK i \in 1..Len(s) : y = s[i]  BY <1>4 DEF Members
  <2>2. CASE i < k
    <3>1. i \in 1..Len(r) /\ r[i] = y  BY <1>1, <2>1, <2>2
    <3>. QED  BY <3>1 DEF Members
  <2>3. CASE i > k
    <3>1. i - 1 \in 1..Len(r) /\ ~(i - 1 <= k - 1) /\ (i - 1) + 1 = i  BY <1>1, <2>3
    <3>2. r[i - 1] = y  BY <1>1, <2>1, <3>1
    <3>. QED  BY <3>1, <3>2 DEF Members
  <2>. QED  BY <1>1, <1>4, <2>1, <2>2, <2>3
<1>. QED  BY <1>2, <1>3, <1>4

LEMMA WithoutOne ==
    ASSUME NEW S, NEW s \in Seq(S), Distinct(s), NEW k \in 1..Len(s)
    PROVE  LET r == SubSeq(s, 1, k - 1) \o SubSeq(s, k + 1, Len(s))
           IN  r \in Seq(S) /\ Distinct(r) /\ Members(r) = Members(s) \ {s[k]}
<1>. DEFINE a == SubSeq(s, 1, k - 1)
            b == SubSeq(s, k + 1, Len(s))
            r == a \o b
<1>1. Len(s) \in Nat /\ k \in Int /\ \A i \in 1..Len(s) : s[i] \in S
      BY ElementOfSeq
<1>2. /\ a \in Seq(S) /\ Len(a) = k - 1
      /\ \A i \in 1..(k - 1) : a[i] = s[i]
  <2>1. \A i \in 1..(k - 1) : s[i] \in S  BY <1>1
  <2>2. 1 \in Int /\ k - 1 \in Int  BY <1>1
  <2>. QED  BY <1>1, <2>1, <2>2, SubSeqProperties
<1>3. /\ b \in Seq(S) /\ Len(b) = Len(s) - k
      /\ \A i \in 1..(Len(s) - k) : b[i] = s[k + i]
  <2>1. \A i \in (k + 1)..Len(s) : s[i] \in S  BY <1>1
  <2>2. k + 1 \in Int /\ Len(s) \in Int  BY <1>1
  <2>. QED  BY <1>1, <2>1, <2>2, SubSeqProperties
<1>. HIDE DEF a, b
<1>4. /\ r \in Seq(S) /\ Len(r) = Len(a) + Len(b)
      /\ \A i \in 1..(Len(a) + Len(b)) :
             r[i] = IF i <= Len(a) THEN a[i] ELSE b[i - Len(a)]
  <2>1. a \in Seq(S) /\ b \in Seq(S)  BY <1>2, <1>3
  <2>. QED  BY <2>1, ConcatProperties, Zenon
<1>. HIDE DEF r
<1>5. Len(r) = Len(s) - 1  BY <1>1, <1>2, <1>3, <1>4
<1>6. ASSUME NEW i \in 1..(Len(s) - 1)
      PROVE  r[i] = IF i <= k - 1 THEN s[i] ELSE s[i + 1]
  <2>1. i \in 1..(Len(a) + Len(b))  BY <1>1, <1>2, <1>3
  <2>2. CASE i <= k - 1
    <3>1. i \in 1..(k - 1)  BY <1>1, <2>2
    <3>2. r[i] = a[i]  BY <1>2, <1>4, <2>1, <2>2
    <3>. QED  BY <1>2, <2>2, <3>1, <3>2
  <2>3. CASE ~(i <= k - 1)
    <3>1. i - (k - 1) \in 1..(Len(s) - k) /\ k + (i - (k - 1)) = i + 1  BY <1>1, <2>3
    <3>2. r[i] = b[i - (k - 1)]  BY <1>2, <1>4, <2>1, <2>3
    <3>. QED  BY <1>3, <2>3, <3>1, <3>2
  <2>. QED  BY <2>2, <2>3
<1>7. /\ \A i \in 1..(k - 1) : r[i] = s[i]
      /\ \A i \in k..(Len(s) - 1) : r[i] = s[i + 1]
  <2>1. ASSUME NEW i \in 1..(k - 1)  PROVE r[i] = s[i]
    <3>1. i \in 1..(Len(s) - 1) /\ i <= k - 1  BY <1>1
    <3>. QED  BY <1>6, <3>1
  <2>2. ASSUME NEW i \in k..(Len(s) - 1)  PROVE r[i] = s[i + 1]
    <3>1. i \in 1..(Len(s) - 1) /\ ~(i <= k - 1)  BY <1>1
    <3>. QED  BY <1>6, <3>1
  <2>. QED  BY <2>1, <2>2
<1>8. Distinct(r) /\ Members(r) = Members(s) \ {s[k]}
  <2>1. r \in Seq(S)  BY <1>4
  <2>. QED  BY <1>5, <1>7, <2>1, Closed
<1>. QED  BY <1>4, <1>8 DEF a, b, r

-----------------------------------------------------------------------------
(* Stacks. *)

LEMMA PushFacts ==
    ASSUME NEW S, NEW s \in Seq(S), NEW c \in S
    PROVE  /\ <<c>> \o s \in Seq(S) /\ Len(<<c>> \o s) = Len(s) + 1 /\ Len(s) \in Nat
           /\ (<<c>> \o s)[1] = c
           /\ \A i \in 1..Len(s) : (<<c>> \o s)[i + 1] = s[i]
OBVIOUS

LEMMA PopFacts ==
    ASSUME NEW S, NEW s \in Seq(S), s # <<>>
    PROVE  /\ Len(s) \in Nat /\ Len(s) >= 1 /\ Head(s) = s[1] /\ s[1] \in S
           /\ Tail(s) \in Seq(S) /\ Len(Tail(s)) = Len(s) - 1
           /\ \A i \in 1..Len(Tail(s)) : Tail(s)[i] = s[i + 1]
BY HeadTailProperties

LEMMA SetTopFacts ==
    ASSUME NEW S, NEW s \in Seq(S), s # <<>>, NEW c \in S
    PROVE  /\ <<c>> \o Tail(s) \in Seq(S) /\ Len(<<c>> \o Tail(s)) = Len(s)
           /\ (<<c>> \o Tail(s))[1] = c
           /\ \A i \in 2..Len(s) : (<<c>> \o Tail(s))[i] = s[i]
<1>1. /\ Len(s) \in Nat /\ Len(s) >= 1 /\ Tail(s) \in Seq(S)
      /\ Len(Tail(s)) = Len(s) - 1 /\ \A i \in 1..Len(Tail(s)) : Tail(s)[i] = s[i + 1]
      BY PopFacts
<1>. DEFINE r == Tail(s)
<1>. HIDE DEF r
<1>2. r \in Seq(S) /\ Len(r) = Len(s) - 1 /\ \A i \in 1..Len(r) : r[i] = s[i + 1]
      BY <1>1 DEF r
<1>3. /\ <<c>> \o r \in Seq(S) /\ Len(<<c>> \o r) = Len(r) + 1 /\ (<<c>> \o r)[1] = c
      /\ \A i \in 1..Len(r) : (<<c>> \o r)[i + 1] = r[i]
      BY <1>2, PushFacts
<1>4. ASSUME NEW i \in 2..Len(s)  PROVE (<<c>> \o r)[i] = s[i]
  <2>1. i - 1 \in 1..Len(r) /\ (i - 1) + 1 = i  BY <1>1, <1>2
  <2>. DEFINE w == <<c>> \o r
  <2>2. \A j \in 1..Len(r) : w[j + 1] = r[j]  BY <1>3
  <2>. HIDE DEF w
  <2>3. w[(i - 1) + 1] = r[i - 1] /\ r[i - 1] = s[(i - 1) + 1]  BY <1>2, <2>1, <2>2
  <2>4. w[i] = s[i]  BY <2>1, <2>3
  <2>. QED  BY <2>4 DEF w
<1>. QED  BY <1>1, <1>2, <1>3, <1>4 DEF r

-----------------------------------------------------------------------------
(* Steps that tell nobody and change nothing that is to be told. *)

\* The calls that are telling are the same as before, at places shifted by d, but for calls
\* that have nobody left to tell.
Kept(d) ==
    /\ \A u \in Threads : \A i \in Pos(u)' :
           IsTelling(u, i)' =>
               /\ IsTelling(u, i + d[u])
               /\ calls'[u][i].op = calls[u][i + d[u]].op
               /\ calls'[u][i].entry = calls[u][i + d[u]].entry
               /\ calls'[u][i].left = calls[u][i + d[u]].left
    /\ \A u \in Threads : \A i \in Pos(u) :
           IsTelling(u, i) /\ Members(calls[u][i].left) # {} => IsTelling(u, i - d[u])'

LEMMA TellsKept ==
    ASSUME TellsInv, made' = made, Known' = Known, NEW d \in [Threads -> Int], Kept(d)
    PROVE  TellsInv' /\ \A l, e : Pending(l, e)' <=> Pending(l, e)
<1>1. ASSUME NEW u \in Threads, NEW i \in Pos(u)', IsTelling(u, i)'
      PROVE  /\ i \in Int /\ i + d[u] \in Pos(u) /\ IsTelling(u, i + d[u])
             /\ Event(calls'[u][i]) = Event(calls[u][i + d[u]])
             /\ calls'[u][i].op = calls[u][i + d[u]].op
             /\ calls'[u][i].entry = calls[u][i + d[u]].entry
             /\ calls'[u][i].left = calls[u][i + d[u]].left
  <2>1. i \in Int  BY DEF Pos
  <2>. QED  BY <1>1, <2>1 DEF Kept, IsTelling, Event
<1>2. ASSUME NEW t \in Threads, NEW u \in Threads, NEW i \in Pos(t)', NEW j \in Pos(u)',
             IsTelling(t, i)', IsTelling(u, j)', Event(calls[t][i])' = Event(calls[u][j])'
      PROVE  t = u /\ i = j
  <2>1. /\ i \in Int /\ i + d[t] \in Pos(t) /\ IsTelling(t, i + d[t])
        /\ Event(calls'[t][i]) = Event(calls[t][i + d[t]])
        BY <1>1, <1>2
  <2>2. /\ j \in Int /\ j + d[u] \in Pos(u) /\ IsTelling(u, j + d[u])
        /\ Event(calls'[u][j]) = Event(calls[u][j + d[u]])
        BY <1>1, <1>2
  <2>3. t = u /\ i + d[t] = j + d[u]
    <3>1. Event(calls[t][i + d[t]]) = Event(calls[u][j + d[u]])
          BY <1>2, <2>1, <2>2 DEF Event
    <3>2. t = u /\ i + d[t] = j + d[u]  BY <2>1, <2>2, <3>1 DEF TellsInv
    <3>. QED  BY <3>2
  <2>4. PICK k \in Int : k = d[t]  OBVIOUS
  <2>5. i + k = j + k  BY <2>3, <2>4
  <2>6. i \in Int /\ j \in Int  BY <2>1, <2>2
  <2>7. i = j  BY <2>5, <2>6
  <2>. QED  BY <2>3, <2>7
<1>3. ASSUME NEW t \in Threads, NEW i \in Pos(t)', IsTelling(t, i)'
      PROVE  /\ Distinct(calls'[t][i].left) /\ calls'[t][i].entry \in 1..made'
             /\ calls'[t][i].op = "remove" => calls'[t][i].entry \notin Known'
  <2>1. /\ i + d[t] \in Pos(t) /\ IsTelling(t, i + d[t])
        /\ calls'[t][i].op = calls[t][i + d[t]].op
        /\ calls'[t][i].entry = calls[t][i + d[t]].entry
        /\ calls'[t][i].left = calls[t][i + d[t]].left
        BY <1>1, <1>3
  <2>. QED  BY <2>1 DEF TellsInv
<1>4. ASSUME NEW l, NEW e, Pending(l, e)'  PROVE Pending(l, e)
  <2>1. PICK u, i :
            /\ u \in Threads /\ i \in Pos(u)'
            /\ IsTelling(u, i)' /\ Event(calls'[u][i]) = e /\ l \in Members(calls'[u][i].left)
        BY <1>4 DEF Pending, Event, Members
  <2>2. /\ i + d[u] \in Pos(u) /\ IsTelling(u, i + d[u])
        /\ Event(calls[u][i + d[u]]) = e /\ l \in Members(calls[u][i + d[u]].left)
        BY <1>1, <2>1
  <2>. QED  BY <2>1, <2>2 DEF Pending
<1>5. ASSUME NEW l, NEW e, Pending(l, e)  PROVE Pending(l, e)'
  <2>1. PICK u, i :
            /\ u \in Threads /\ i \in Pos(u)
            /\ IsTelling(u, i) /\ Event(calls[u][i]) = e /\ l \in Members(calls[u][i].left)
        BY <1>5 DEF Pending
  <2>2. i \in Int /\ IsTelling(u, i - d[u])' /\ i - d[u] \in Pos(u)'
    <3>1. IsTelling(u, i - d[u])'  BY <2>1 DEF Kept
    <3>. QED  BY <2>1, <3>1 DEF IsTelling, Pos
  <2>3. d[u] \in Int /\ (i - d[u]) + d[u] = i  BY <2>1, <2>2
  <2>4. /\ Event(calls'[u][i - d[u]]) = e
        /\ l \in Members(calls'[u][i - d[u]].left)
        BY <1>1, <2>1, <2>2, <2>3
  <2>. QED  BY <2>1, <2>2, <2>4 DEF Pending, Event, Members
<1>6. TellsInv'
  <2>1. \A t, u \in Threads : \A i \in Pos(t)', j \in Pos(u)' :
            IsTelling(t, i)' /\ IsTelling(u, j)'
                /\ Event(calls[t][i])' = Event(calls[u][j])' => t = u /\ i = j
        BY <1>2
  <2>2. \A t \in Threads : \A i \in Pos(t)' :
            IsTelling(t, i)' =>
               /\ Distinct(calls'[t][i].left) /\ calls'[t][i].entry \in 1..made'
               /\ calls'[t][i].op = "remove" => calls'[t][i].entry \notin Known'
        BY <1>3
  <2>. QED  BY <2>1, <2>2 DEF TellsInv, Distinct
<1>. QED  BY <1>4, <1>5, <1>6

-----------------------------------------------------------------------------
(* The stacks under the steps. *)

\* What a call on a stack may be.
Fits(c, i) ==
    /\ c.at = "tell" => c.op \in {"add", "remove"}
    /\ c.telling => c.at = "tell"
    /\ c.op \in {"add", "remove"} => c.on \in Names
    /\ c.op \in {"add_listener", "remove_listener"} => c.on \in Listeners
    /\ i >= 2 => c.at = "tell"

Shift(t, k) == [u \in Threads |-> IF u = t THEN k ELSE 0]

LEMMA NoPositions ==
    ASSUME NEW t \in Threads, calls[t] = <<>>
    PROVE  Pos(t) = {}
<1>1. Len(<<>>) = 0 /\ 1..0 = {}  OBVIOUS
<1>2. Len(calls[t]) = 0  BY <1>1
<1>3. 1..Len(calls[t]) = 1..0  BY <1>2, Zenon
<1>. QED  BY <1>1, <1>3, Zenon DEF Pos

LEMMA StackIs == StackInv <=> /\ calls \in [Threads -> Seq(Calls)]
                              /\ \A t \in Threads : \A i \in Pos(t) : Fits(calls[t][i], i)
BY DEF StackInv, Fits

\* A call is entered.
LEMMA Pushed ==
    ASSUME StackInv, NEW t \in Threads, NEW c \in Calls, Fits(c, 1), c.at = "lock",
           calls[t] # <<>> => calls[t][1].at = "tell",
           calls' = [calls EXCEPT ![t] = <<c>> \o @]
    PROVE  /\ StackInv' /\ Kept(Shift(t, -1)) /\ Shift(t, -1) \in [Threads -> Int]
           /\ calls'[t] # <<>> /\ calls'[t][1] = c
<1>1. calls \in [Threads -> Seq(Calls)]  BY DEF StackInv
<1>. DEFINE w == <<c>> \o calls[t]
<1>2. calls[t] \in Seq(Calls)  BY <1>1
<1>3. /\ w \in Seq(Calls) /\ Len(w) = Len(calls[t]) + 1 /\ Len(calls[t]) \in Nat
      /\ w[1] = c /\ \A i \in 1..Len(calls[t]) : w[i + 1] = calls[t][i]
      BY <1>2, PushFacts
<1>4. calls' = [calls EXCEPT ![t] = w]  OBVIOUS
<1>. HIDE DEF w
<1>5. calls'[t] = w /\ \A u \in Threads \ {t} : calls'[u] = calls[u]  BY <1>1, <1>4
<1>6. ASSUME NEW i \in 2..Len(w)
      PROVE  i - 1 \in 1..Len(calls[t]) /\ w[i] = calls[t][i - 1]
  <2>1. i - 1 \in 1..Len(calls[t]) /\ (i - 1) + 1 = i  BY <1>3
  <2>2. w[(i - 1) + 1] = calls[t][i - 1]  BY <1>3, <2>1
  <2>. QED  BY <2>1, <2>2
<1>7. ASSUME NEW i \in 1..Len(calls[t])  PROVE calls[t][i].at = "tell"
  <2>1. calls[t] # <<>>  BY <1>2, <1>3
  <2>2. CASE i = 1  BY <2>1, <2>2
  <2>3. CASE i # 1
    <3>1. i >= 2  BY <1>3, <2>3
    <3>. QED  BY <3>1 DEF StackInv, Pos
  <2>. QED  BY <2>2, <2>3
<1>8. StackInv'
  <2>1. calls' \in [Threads -> Seq(Calls)]  BY <1>1, <1>3, <1>4
  <2>2. ASSUME NEW u \in Threads, NEW i \in Pos(u)'  PROVE Fits(calls'[u][i], i)
    <3>1. CASE u # t  BY <1>5, <2>2, <3>1, StackIs DEF Pos
    <3>2. CASE u = t /\ i = 1  BY <1>3, <1>5, <3>2
    <3>3. CASE u = t /\ i # 1
      <4>1. i \in 2..Len(w)  BY <1>3, <1>5, <2>2, <3>3 DEF Pos
      <4>2. i - 1 \in Pos(t) /\ calls'[u][i] = calls[t][i - 1]
            BY <1>5, <1>6, <3>3, <4>1 DEF Pos
      <4>3. calls[t][i - 1].at = "tell"  BY <1>6, <1>7, <4>1
      <4>4. Fits(calls[t][i - 1], i - 1)  BY <4>2, StackIs
      <4>. QED  BY <4>2, <4>3, <4>4 DEF Fits
    <3>. QED  BY <3>1, <3>2, <3>3
  <2>. QED  BY <2>1, <2>2 DEF StackInv, Fits
<1>9. Kept(Shift(t, -1))
  <2>1. ASSUME NEW u \in Threads, NEW i \in Pos(u)', IsTelling(u, i)'
        PROVE  /\ IsTelling(u, i + Shift(t, -1)[u])
               /\ calls'[u][i] = calls[u][i + Shift(t, -1)[u]]
    <3>1. CASE u # t
      <4>1. i \in Int /\ i + Shift(t, -1)[u] = i  BY <3>1 DEF Shift, Pos
      <4>. QED  BY <1>5, <2>1, <3>1, <4>1 DEF IsTelling, Pos
    <3>2. CASE u = t
      <4>1. i # 1  BY <1>3, <1>5, <2>1, <3>2 DEF IsTelling
      <4>2. i \in 2..Len(w)  BY <1>3, <1>5, <2>1, <3>2, <4>1 DEF Pos
      <4>3. i + Shift(t, -1)[u] = i - 1  BY <3>2, <4>2 DEF Shift
      <4>4. i - 1 \in 1..Len(calls[t]) /\ calls'[u][i] = calls[t][i - 1]
            BY <1>5, <1>6, <3>2, <4>2
      <4>. QED  BY <1>7, <3>2, <4>3, <4>4 DEF IsTelling, Pos
    <3>. QED  BY <3>1, <3>2
  <2>2. ASSUME NEW u \in Threads, NEW i \in Pos(u), IsTelling(u, i)
        PROVE  IsTelling(u, i - Shift(t, -1)[u])'
    <3>1. CASE u # t
      <4>1. i - Shift(t, -1)[u] = i  BY <3>1 DEF Shift, Pos
      <4>. QED  BY <1>5, <2>2, <3>1, <4>1 DEF IsTelling, Pos
    <3>2. CASE u = t
      <4>1. i \in 1..Len(calls[t]) /\ i - Shift(t, -1)[u] = i + 1  BY <3>2 DEF Shift, Pos
      <4>2. i + 1 \in 1..Len(w) /\ w[i + 1] = calls[t][i]  BY <1>3, <4>1
      <4>3. IsTelling(t, i + 1)'  BY <1>5, <1>7, <4>1, <4>2 DEF IsTelling, Pos
      <4>. QED  BY <3>2, <4>1, <4>3
    <3>. QED  BY <3>1, <3>2
  <2>. QED  BY <2>1, <2>2 DEF Kept
<1>10. Shift(t, -1) \in [Threads -> Int]  BY DEF Shift
<1>11. calls'[t] # <<>> /\ calls'[t][1] = c
  <2>1. w # <<>>  BY <1>3
  <2>. QED  BY <1>3, <1>5, <2>1
<1>. QED  BY <1>8, <1>9, <1>10, <1>11

\* The innermost call goes on.
LEMMA Replaced ==
    ASSUME StackInv, NEW t \in Threads, NEW c \in Calls, Fits(c, 1), calls[t] # <<>>,
           SetTop(t, c)
    PROVE  /\ StackInv'
           /\ calls'[t] # <<>> /\ calls'[t][1] = c
           /\ Len(calls'[t]) = Len(calls[t]) /\ 1 \in Pos(t) /\ Pos(t)' = Pos(t)
           /\ \A i \in Pos(t) : i # 1 => calls'[t][i] = calls[t][i]
           /\ \A u \in Threads : u # t => calls'[u] = calls[u] /\ Pos(u)' = Pos(u)
<1>1. calls \in [Threads -> Seq(Calls)] /\ calls[t] \in Seq(Calls)  BY DEF StackInv
<1>. DEFINE w == <<c>> \o Tail(calls[t])
<1>2. /\ w \in Seq(Calls) /\ Len(w) = Len(calls[t]) /\ w[1] = c
      /\ \A i \in 2..Len(calls[t]) : w[i] = calls[t][i]
      BY <1>1, SetTopFacts
<1>3. calls' = [calls EXCEPT ![t] = w]  BY DEF SetTop
<1>. HIDE DEF w
<1>4. calls'[t] = w /\ \A u \in Threads : u # t => calls'[u] = calls[u]  BY <1>1, <1>3
<1>5. Len(calls[t]) \in Nat /\ Len(calls[t]) >= 1  BY <1>1, PopFacts
<1>6. \A i \in Pos(t) : i # 1 => calls'[t][i] = calls[t][i]
      BY <1>2, <1>4, <1>5 DEF Pos
<1>7. 1 \in Pos(t) /\ \A u \in Threads : Pos(u)' = Pos(u)
      BY <1>2, <1>4, <1>5 DEF Pos
<1>8. w # <<>>  BY <1>2, <1>5
<1>9. StackInv'
  <2>1. calls' \in [Threads -> Seq(Calls)]  BY <1>1, <1>2, <1>3
  <2>2. ASSUME NEW u \in Threads, NEW i \in Pos(u)'  PROVE Fits(calls'[u][i], i)
    <3>1. CASE u # t  BY <1>4, <1>7, <3>1, StackIs
    <3>2. CASE u = t /\ i = 1  BY <1>2, <1>4, <3>2
    <3>3. CASE u = t /\ i # 1  BY <1>6, <1>7, <3>3, StackIs
    <3>. QED  BY <3>1, <3>2, <3>3
  <2>. QED  BY <2>1, <2>2 DEF StackInv, Fits
<1>. QED  BY <1>2, <1>4, <1>6, <1>7, <1>8, <1>9

LEMMA ReplacedKept ==
    ASSUME StackInv, NEW t \in Threads, NEW c \in Calls, Fits(c, 1), calls[t] # <<>>,
           SetTop(t, c),
           \/ c.at # "tell" /\ calls[t][1].at # "tell"
           \/ /\ c.at = "tell" /\ calls[t][1].at = "tell"
              /\ c.op = calls[t][1].op /\ c.entry = calls[t][1].entry
              /\ c.left = calls[t][1].left
    PROVE  Kept(Shift(t, 0)) /\ Shift(t, 0) \in [Threads -> Int]
<1>1. ASSUME NEW u \in Threads, NEW i \in Pos(u)
      PROVE  /\ i \in Pos(u)' /\ i + Shift(t, 0)[u] = i /\ i - Shift(t, 0)[u] = i
             /\ IsTelling(u, i)' <=> IsTelling(u, i)
             /\ IsTelling(u, i) => /\ calls'[u][i].op = calls[u][i].op
                                   /\ calls'[u][i].entry = calls[u][i].entry
                                   /\ calls'[u][i].left = calls[u][i].left
  <2>1. i + Shift(t, 0)[u] = i /\ i - Shift(t, 0)[u] = i  BY DEF Shift, Pos
  <2>2. i \in Pos(u)'  BY Replaced
  <2>3. CASE u = t /\ i = 1
    <3>1. calls'[t][1] = c  BY Replaced
    <3>2. IsTelling(u, i)' <=> c.at = "tell"  BY <2>2, <2>3, <3>1 DEF IsTelling
    <3>3. IsTelling(u, i) <=> calls[t][1].at = "tell"  BY <2>3 DEF IsTelling
    <3>. QED  BY <2>1, <2>2, <2>3, <3>1, <3>2, <3>3
  <2>4. CASE ~(u = t /\ i = 1)
    <3>1. calls'[u][i] = calls[u][i]  BY <2>4, Replaced
    <3>. QED  BY <2>1, <2>2, <3>1 DEF IsTelling
  <2>. QED  BY <2>1, <2>2, <2>3, <2>4
<1>2. \A u \in Threads : Pos(u)' = Pos(u)  BY Replaced
<1>3. Kept(Shift(t, 0))
  <2>1. ASSUME NEW u \in Threads, NEW i \in Pos(u)', IsTelling(u, i)'
        PROVE  /\ IsTelling(u, i + Shift(t, 0)[u])
               /\ calls'[u][i].op = calls[u][i + Shift(t, 0)[u]].op
               /\ calls'[u][i].entry = calls[u][i + Shift(t, 0)[u]].entry
               /\ calls'[u][i].left = calls[u][i + Shift(t, 0)[u]].left
        BY <1>1, <1>2, <2>1
  <2>2. ASSUME NEW u \in Threads, NEW i \in Pos(u), IsTelling(u, i)
        PROVE  IsTelling(u, i - Shift(t, 0)[u])'
    <3>1. IsTelling(u, i)' /\ i - Shift(t, 0)[u] = i  BY <1>1, <2>2
    <3>. QED  BY <3>1
  <2>. QED  BY <2>1, <2>2 DEF Kept
<1>. QED  BY <1>3 DEF Shift

\* The innermost call returns.
LEMMA Popped ==
    ASSUME StackInv, NEW t \in Threads, calls[t] # <<>>, Pop(t),
           calls[t][1].at = "tell" => calls[t][1].left = <<>>
    PROVE  /\ StackInv' /\ Kept(Shift(t, 1)) /\ Shift(t, 1) \in [Threads -> Int]
           /\ calls'[t] # <<>> => calls'[t][1].at = "tell"
           /\ \A u \in Threads : u # t => calls'[u] = calls[u]
<1>1. calls \in [Threads -> Seq(Calls)] /\ calls[t] \in Seq(Calls)  BY DEF StackInv
<1>. DEFINE w == Tail(calls[t])
<1>2. /\ Len(calls[t]) \in Nat /\ Len(calls[t]) >= 1
      /\ w \in Seq(Calls) /\ Len(w) = Len(calls[t]) - 1
      /\ \A i \in 1..Len(w) : w[i] = calls[t][i + 1]
      BY <1>1, PopFacts
<1>3. calls' = [calls EXCEPT ![t] = w]  BY DEF Pop
<1>. HIDE DEF w
<1>4. calls'[t] = w /\ \A u \in Threads : u # t => calls'[u] = calls[u]  BY <1>1, <1>3
<1>5. ASSUME NEW i \in 1..Len(w)
      PROVE  /\ i + 1 \in Pos(t) /\ w[i] = calls[t][i + 1] /\ calls[t][i + 1].at = "tell"
             /\ Fits(calls[t][i + 1], i + 1)
  <2>1. i + 1 \in Pos(t) /\ i + 1 >= 2  BY <1>2 DEF Pos
  <2>2. Fits(calls[t][i + 1], i + 1)  BY <2>1, StackIs
  <2>. QED  BY <1>2, <2>1, <2>2 DEF Fits
<1>6. StackInv'
  <2>1. calls' \in [Threads -> Seq(Calls)]  BY <1>1, <1>2, <1>3
  <2>2. ASSUME NEW u \in Threads, NEW i \in Pos(u)'  PROVE Fits(calls'[u][i], i)
    <3>1. CASE u # t  BY <1>4, <2>2, <3>1, StackIs DEF Pos
    <3>2. CASE u = t  BY <1>4, <1>5, <2>2, <3>2 DEF Pos, Fits
    <3>. QED  BY <3>1, <3>2
  <2>. QED  BY <2>1, <2>2 DEF StackInv, Fits
<1>7. Kept(Shift(t, 1))
  <2>1. ASSUME NEW u \in Threads, NEW i \in Pos(u)', IsTelling(u, i)'
        PROVE  /\ IsTelling(u, i + Shift(t, 1)[u])
               /\ calls'[u][i] = calls[u][i + Shift(t, 1)[u]]
    <3>1. CASE u # t
      <4>1. i \in Int /\ i + Shift(t, 1)[u] = i  BY <3>1 DEF Shift, Pos
      <4>. QED  BY <1>4, <2>1, <3>1, <4>1 DEF IsTelling, Pos
    <3>2. CASE u = t
      <4>1. i \in 1..Len(w) /\ i + Shift(t, 1)[u] = i + 1
            BY <1>4, <3>2 DEF Shift, Pos
      <4>. QED  BY <1>4, <1>5, <3>2, <4>1 DEF IsTelling
    <3>. QED  BY <3>1, <3>2
  <2>2. ASSUME NEW u \in Threads, NEW i \in Pos(u), IsTelling(u, i),
               Members(calls[u][i].left) # {}
        PROVE  IsTelling(u, i - Shift(t, 1)[u])'
    <3>1. CASE u # t
      <4>1. i - Shift(t, 1)[u] = i  BY <3>1 DEF Shift, Pos
      <4>. QED  BY <1>4, <2>2, <3>1, <4>1 DEF IsTelling, Pos
    <3>2. CASE u = t
      <4>1. i # 1
        <5>1. Members(<<>>) = {}  BY DEF Members
        <5>. QED  BY <2>2, <3>2, <5>1 DEF IsTelling
      <4>2. /\ i - 1 \in 1..Len(w) /\ (i - 1) + 1 = i
            /\ i - Shift(t, 1)[u] = i - 1
            BY <1>2, <3>2, <4>1 DEF Shift, Pos
      <4>3. w[i - 1] = calls[t][(i - 1) + 1]  BY <1>5, <4>2
      <4>4. IsTelling(t, i - 1)'  BY <1>4, <2>2, <3>2, <4>2, <4>3 DEF IsTelling, Pos
      <4>. QED  BY <3>2, <4>2, <4>4
    <3>. QED  BY <3>1, <3>2
  <2>. QED  BY <2>1, <2>2 DEF Kept
<1>8. Shift(t, 1) \in [Threads -> Int]  BY DEF Shift
<1>9. calls'[t] # <<>> => calls'[t][1].at = "tell"
  <2>1. SUFFICES ASSUME w # <<>>  PROVE w[1].at = "tell"  BY <1>4
  <2>2. Len(w) \in Nat /\ Len(w) >= 1  BY <1>2, <2>1, PopFacts
  <2>3. 1 \in 1..Len(w)  BY <2>2
  <2>. QED  BY <1>5, <2>3
<1>. QED  BY <1>4, <1>6, <1>7, <1>8, <1>9

-----------------------------------------------------------------------------
(* The steps that start to tell, and the telling itself. *)

\* A section is left with the change c to tell.
LEMMA TellingStarts ==
    ASSUME StackInv, TellsInv, NEW t \in Threads, NEW c \in Calls, Fits(c, 1),
           calls[t] # <<>>, calls[t][1].at = "locked", c.at = "tell", SetTop(t, c),
           Distinct(c.left), c.entry \in 1..made', c.op = "remove" => c.entry \notin Known',
           \A u \in Threads : \A i \in Pos(u) : IsTelling(u, i) =>
               /\ Event(calls[u][i]) # Event(c) /\ calls[u][i].entry \in 1..made'
               /\ calls[u][i].op = "remove" => calls[u][i].entry \notin Known'
    PROVE  /\ TellsInv'
           /\ \A l, e : Pending(l, e)' <=>
                  Pending(l, e) \/ (e = Event(c) /\ l \in Members(c.left))
<1>1. \A u \in Threads : Pos(u)' = Pos(u)  BY Replaced
<1>2. 1 \in Pos(t) /\ calls'[t][1] = c /\ IsTelling(t, 1)' /\ ~IsTelling(t, 1)
      BY Replaced DEF IsTelling
<1>3. ASSUME NEW u \in Threads, NEW i \in Pos(u), ~(u = t /\ i = 1)
      PROVE  calls'[u][i] = calls[u][i] /\ (IsTelling(u, i)' <=> IsTelling(u, i))
  <2>1. calls'[u][i] = calls[u][i]  BY <1>3, Replaced
  <2>. QED  BY <1>1, <2>1 DEF IsTelling
<1>4. ASSUME NEW u \in Threads, NEW i \in Pos(u)', NEW v \in Threads, NEW j \in Pos(v)',
             IsTelling(u, i)', IsTelling(v, j)', Event(calls[u][i])' = Event(calls[v][j])'
      PROVE  u = v /\ i = j
  <2>1. Event(calls'[u][i]) = Event(calls'[v][j]) /\ i \in Pos(u) /\ j \in Pos(v)
        BY <1>1, <1>4 DEF Event
  <2>2. CASE u = t /\ i = 1 /\ v = t /\ j = 1  BY <2>2
  <2>3. CASE u = t /\ i = 1 /\ ~(v = t /\ j = 1)
        BY <1>2, <1>3, <1>4, <2>1, <2>3
  <2>4. CASE ~(u = t /\ i = 1) /\ v = t /\ j = 1
    <3>1. Event(calls[u][i]) = Event(c)  BY <1>2, <1>3, <2>1, <2>4
    <3>2. IsTelling(u, i)  BY <1>3, <1>4, <2>1, <2>4
    <3>. QED  BY <2>1, <3>1, <3>2
  <2>5. CASE ~(u = t /\ i = 1) /\ ~(v = t /\ j = 1)
        BY <1>3, <1>4, <2>1, <2>5 DEF TellsInv
  <2>. QED  BY <2>2, <2>3, <2>4, <2>5
<1>5. ASSUME NEW u \in Threads, NEW i \in Pos(u)', IsTelling(u, i)'
      PROVE  /\ Distinct(calls'[u][i].left) /\ calls'[u][i].entry \in 1..made'
             /\ calls'[u][i].op = "remove" => calls'[u][i].entry \notin Known'
  <2>1. CASE u = t /\ i = 1  BY <1>2, <2>1
  <2>2. CASE ~(u = t /\ i = 1)
        BY <1>1, <1>3, <1>5, <2>2 DEF TellsInv
  <2>. QED  BY <2>1, <2>2
<1>6. TellsInv'
  <2>1. \A u, v \in Threads : \A i \in Pos(u)', j \in Pos(v)' :
            IsTelling(u, i)' /\ IsTelling(v, j)'
                /\ Event(calls[u][i])' = Event(calls[v][j])' => u = v /\ i = j
        BY <1>4
  <2>2. \A u \in Threads : \A i \in Pos(u)' :
            IsTelling(u, i)' =>
               /\ Distinct(calls'[u][i].left) /\ calls'[u][i].entry \in 1..made'
               /\ calls'[u][i].op = "remove" => calls'[u][i].entry \notin Known'
        BY <1>5
  <2>. QED  BY <2>1, <2>2 DEF TellsInv, Distinct
<1>7. ASSUME NEW l, NEW e, Pending(l, e)'
      PROVE  Pending(l, e) \/ (e = Event(c) /\ l \in Members(c.left))
  <2>1. PICK u, i :
            /\ u \in Threads /\ i \in Pos(u)'
            /\ IsTelling(u, i)' /\ Event(calls'[u][i]) = e /\ l \in Members(calls'[u][i].left)
        BY <1>7 DEF Pending, Event, Members
  <2>2. CASE u = t /\ i = 1  BY <1>2, <2>1, <2>2
  <2>3. CASE ~(u = t /\ i = 1)
        BY <1>1, <1>3, <2>1, <2>3 DEF Pending
  <2>. QED  BY <2>2, <2>3
<1>8. ASSUME NEW l, NEW e, Pending(l, e)  PROVE Pending(l, e)'
  <2>1. PICK u, i :
            /\ u \in Threads /\ i \in Pos(u)
            /\ IsTelling(u, i) /\ Event(calls[u][i]) = e /\ l \in Members(calls[u][i].left)
        BY <1>8 DEF Pending
  <2>2. ~(u = t /\ i = 1)  BY <1>2, <2>1
  <2>3. i \in Pos(u)' /\ IsTelling(u, i)' /\ calls'[u][i] = calls[u][i]
        BY <1>1, <1>3, <2>1, <2>2
  <2>. QED  BY <2>1, <2>3 DEF Pending, Event, Members
<1>9. ASSUME NEW l \in Members(c.left)  PROVE Pending(l, Event(c))'
  <2>1. 1 \in Pos(t)' /\ IsTelling(t, 1)' /\ calls'[t][1] = c  BY <1>1, <1>2
  <2>. QED  BY <1>9, <2>1 DEF Pending, Event, Members
<1>. QED  BY <1>6, <1>7, <1>8, <1>9

\* The first of those left is told.
LEMMA TellingGoesOn ==
    ASSUME StackInv, TellsInv, NEW t \in Threads, Tell(t)
    PROVE  LET c == calls[t][1]
               h == Head(c.left)
           IN  /\ StackInv' /\ TellsInv' /\ h \in Listeners /\ c.entry \in 0..MaxEntries
               /\ c.op = "remove" => c.entry \notin Known
               /\ c.entry \in 1..made /\ Pending(h, Event(c))
               /\ heard' = [heard EXCEPT ![h] = Append(@, Event(c))]
               /\ calls'[t] # <<>> /\ calls'[t][1].at = "tell" /\ c.at = "tell"
               /\ calls[t] # <<>>
               /\ \A u \in Threads : u # t => calls'[u] = calls[u]
               /\ \A l, e : Pending(l, e)' <=> Pending(l, e) /\ ~(l = h /\ e = Event(c))
<1>. DEFINE c == calls[t][1]
            h == Head(c.left)
            n == [c EXCEPT !.left = Tail(@), !.telling = TRUE]
<1>1. /\ calls[t] \in Seq(Calls) /\ calls[t] # <<>> /\ Top(t) = c /\ c \in Calls
      /\ 1 \in Pos(t)
  <2>1. calls[t] \in Seq(Calls) /\ calls[t] # <<>>  BY DEF StackInv, Tell
  <2>2. /\ Len(calls[t]) \in Nat /\ Len(calls[t]) >= 1
        /\ Head(calls[t]) = calls[t][1] /\ calls[t][1] \in Calls
        BY <2>1, PopFacts
  <2>. QED  BY <2>1, <2>2 DEF Top, Pos
<1>2. c.at = "tell" /\ c.left # <<>> /\ SetTop(t, n)  BY <1>1 DEF Tell
<1>3. c.left \in Seq(Listeners) /\ c.entry \in 0..MaxEntries /\ IsTelling(t, 1)
      BY <1>1, <1>2 DEF Calls, IsTelling
<1>4. /\ Distinct(c.left) /\ c.entry \in 1..made
      /\ c.op = "remove" => c.entry \notin Known
      BY <1>1, <1>3 DEF TellsInv
<1>5. /\ Tail(c.left) \in Seq(Listeners) /\ Distinct(Tail(c.left)) /\ h \in Listeners
      /\ h \notin Members(Tail(c.left)) /\ Members(c.left) = Members(Tail(c.left)) \cup {h}
      BY <1>2, <1>3, <1>4, TailDistinct
<1>6. /\ n \in Calls /\ n.at = "tell" /\ n.op = c.op /\ n.entry = c.entry /\ n.on = c.on
      /\ n.left = Tail(c.left)
      BY <1>1, <1>2, <1>5 DEF Calls
<1>7. Fits(n, 1)
  <2>1. Fits(c, 1)  BY <1>1, StackIs
  <2>. QED  BY <1>6, <2>1 DEF Fits
<1>8. heard' = [heard EXCEPT ![h] = Append(@, Event(c))]
      BY <1>1 DEF Tell, Event
<1>. HIDE DEF c, h, n
<1>9. c = calls[t][1]  BY DEF c
<1>10. /\ StackInv' /\ calls'[t] # <<>> /\ calls'[t][1] = n /\ Pos(t)' = Pos(t)
       /\ \A i \in Pos(t) : i # 1 => calls'[t][i] = calls[t][i]
       /\ \A u \in Threads : u # t => calls'[u] = calls[u] /\ Pos(u)' = Pos(u)
       BY <1>1, <1>2, <1>6, <1>7, Replaced
<1>11. Event(n) = Event(c)  BY <1>6 DEF Event
<1>12. ASSUME NEW u \in Threads, NEW i \in Pos(u)
       PROVE  /\ i \in Pos(u)' /\ (IsTelling(u, i)' <=> IsTelling(u, i))
              /\ Event(calls'[u][i]) = Event(calls[u][i])
              /\ calls'[u][i].op = calls[u][i].op /\ calls'[u][i].entry = calls[u][i].entry
              /\ ~(u = t /\ i = 1) => calls'[u][i].left = calls[u][i].left
  <2>1. CASE u = t /\ i = 1
        BY <1>2, <1>6, <1>9, <1>10, <1>11, <2>1 DEF IsTelling
  <2>2. CASE ~(u = t /\ i = 1)  BY <1>10, <2>2 DEF IsTelling
  <2>. QED  BY <2>1, <2>2
<1>13. \A u \in Threads : Pos(u)' = Pos(u)  BY <1>10
<1>14. TellsInv'
  <2>1. ASSUME NEW u \in Threads, NEW v \in Threads, NEW i \in Pos(u)', NEW j \in Pos(v)',
               IsTelling(u, i)', IsTelling(v, j)', Event(calls[u][i])' = Event(calls[v][j])'
        PROVE  u = v /\ i = j
    <3>1. Event(calls'[u][i]) = Event(calls'[v][j])  BY <2>1 DEF Event
    <3>. QED  BY <1>12, <1>13, <2>1, <3>1 DEF TellsInv
  <2>2. ASSUME NEW u \in Threads, NEW i \in Pos(u)', IsTelling(u, i)'
        PROVE  /\ Distinct(calls'[u][i].left) /\ calls'[u][i].entry \in 1..made'
               /\ calls'[u][i].op = "remove" => calls'[u][i].entry \notin Known'
    <3>1. made' = made /\ Known' = Known  BY DEF Tell, Known, Registered
    <3>2. CASE u = t /\ i = 1
          BY <1>4, <1>5, <1>6, <1>10, <3>1, <3>2
    <3>3. CASE ~(u = t /\ i = 1)
          BY <1>12, <1>13, <2>2, <3>1, <3>3 DEF TellsInv
    <3>. QED  BY <3>2, <3>3
  <2>3. \A u, v \in Threads : \A i \in Pos(u)', j \in Pos(v)' :
            IsTelling(u, i)' /\ IsTelling(v, j)'
                /\ Event(calls[u][i])' = Event(calls[v][j])' => u = v /\ i = j
        BY <2>1
  <2>4. \A u \in Threads : \A i \in Pos(u)' :
            IsTelling(u, i)' =>
               /\ Distinct(calls'[u][i].left) /\ calls'[u][i].entry \in 1..made'
               /\ calls'[u][i].op = "remove" => calls'[u][i].entry \notin Known'
        BY <2>2
  <2>. QED  BY <2>3, <2>4 DEF TellsInv, Distinct
<1>15. Pending(h, Event(c))
  <2>1. h \in Members(c.left)  BY <1>5
  <2>. QED  BY <1>1, <1>3, <1>9, <2>1 DEF Pending
<1>16. ASSUME NEW l, NEW e, Pending(l, e)'
       PROVE  Pending(l, e) /\ ~(l = h /\ e = Event(c))
  <2>1. PICK u, i :
            /\ u \in Threads /\ i \in Pos(u)'
            /\ IsTelling(u, i)' /\ Event(calls'[u][i]) = e /\ l \in Members(calls'[u][i].left)
        BY <1>16 DEF Pending, Event, Members
  <2>2. i \in Pos(u) /\ IsTelling(u, i) /\ Event(calls[u][i]) = e
        BY <1>12, <1>13, <2>1
  <2>3. CASE u = t /\ i = 1
    <3>1. l \in Members(Tail(c.left))  BY <1>6, <1>10, <2>1, <2>3
    <3>2. l \in Members(calls[u][i].left) /\ l # h  BY <1>5, <1>9, <2>3, <3>1
    <3>. QED  BY <2>1, <2>2, <3>2 DEF Pending
  <2>4. CASE ~(u = t /\ i = 1)
    <3>1. l \in Members(calls[u][i].left)  BY <1>12, <2>1, <2>2, <2>4
    <3>2. e # Event(c)
          BY <1>1, <1>3, <1>9, <2>1, <2>2, <2>4 DEF TellsInv
    <3>. QED  BY <2>1, <2>2, <3>1, <3>2 DEF Pending
  <2>. QED  BY <2>3, <2>4
<1>17. ASSUME NEW l, NEW e, Pending(l, e), ~(l = h /\ e = Event(c))
       PROVE  Pending(l, e)'
  <2>1. PICK u, i :
            /\ u \in Threads /\ i \in Pos(u)
            /\ IsTelling(u, i) /\ Event(calls[u][i]) = e /\ l \in Members(calls[u][i].left)
        BY <1>17 DEF Pending
  <2>2. i \in Pos(u)' /\ IsTelling(u, i)' /\ Event(calls'[u][i]) = e  BY <1>12, <2>1
  <2>3. l \in Members(calls'[u][i].left)
    <3>1. CASE u = t /\ i = 1
      <4>1. l # h  BY <1>9, <1>17, <2>1, <3>1
      <4>2. l \in Members(c.left)  BY <1>9, <2>1, <3>1
      <4>3. l \in Members(Tail(c.left))  BY <1>5, <4>1, <4>2
      <4>. QED  BY <1>6, <1>10, <3>1, <4>3
    <3>2. CASE ~(u = t /\ i = 1)  BY <1>12, <2>1, <3>2
    <3>. QED  BY <3>1, <3>2
  <2>. QED  BY <2>1, <2>2, <2>3 DEF Pending, Event, Members
<1>18. calls'[t][1].at = "tell"  BY <1>6, <1>10
<1>. QED
     BY <1>1, <1>2, <1>3, <1>4, <1>5, <1>8, <1>10, <1>14, <1>15, <1>16, <1>17, <1>18
     DEF c, h

-----------------------------------------------------------------------------
(* The invariant under each step. *)

\* A step after which the same is to be told, heard and known.
LEMMA QuietStep ==
    ASSUME RegistryInv, NEW d \in [Threads -> Int], Kept(d),
           StackInv', LockInv', EntriesInv', ListenersInv',
           made' = made, Known' = Known, heard' = heard, unwatched \subseteq unwatched',
           \A l \in Listeners \ unwatched' : l \in Members(listeners) => l \in Members(listeners)'
    PROVE  RegistryInv'
<1>1. TellsInv' /\ \A l, e : Pending(l, e)' <=> Pending(l, e)
      BY TellsKept DEF RegistryInv
<1>2. HeardInv'
  <2>1. ASSUME NEW l \in Listeners
        PROVE  /\ heard'[l] \in Seq(Events) /\ Distinct(heard'[l])
               /\ \A e \in Members(heard'[l]) :
                      /\ e[2] \in 1..made' /\ (e[1] = "removed" => e[2] \notin Known')
                      /\ ~Pending(l, e)'
        BY <1>1 DEF RegistryInv, HeardInv
  <2>. QED  BY <2>1 DEF HeardInv, Distinct, Members
<1>3. WatchInv'
  <2>1. ASSUME NEW l \in Listeners \ unwatched'
        PROVE  /\ l \in Members(listeners)'
               /\ \A e \in 1..made' :
                   /\ <<"added", e>> \in Members(heard'[l]) \/ Pending(l, <<"added", e>>)'
                   /\ \/ e \in Known'
                      \/ <<"removed", e>> \in Members(heard'[l])
                      \/ Pending(l, <<"removed", e>>)'
    <3>1. l \in Listeners \ unwatched  OBVIOUS
    <3>. QED  BY <1>1, <3>1 DEF RegistryInv, WatchInv
  <2>2. heard' \in [Listeners -> Seq(Events)]  BY DEF RegistryInv, WatchInv
  <2>. QED  BY <2>1, <2>2 DEF WatchInv, Members
<1>. QED  BY <1>1, <1>2, <1>3 DEF RegistryInv

LEMMA TopIs ==
    ASSUME StackInv, NEW t \in Threads, calls[t] # <<>>
    PROVE  Top(t) = calls[t][1] /\ Top(t) \in Calls /\ 1 \in Pos(t) /\ Fits(Top(t), 1)
<1>1. calls[t] \in Seq(Calls)  BY DEF StackInv
<1>2. /\ Len(calls[t]) \in Nat /\ Len(calls[t]) >= 1 /\ Head(calls[t]) = calls[t][1]
      /\ calls[t][1] \in Calls
      BY <1>1, PopFacts
<1>3. 1 \in Pos(t)  BY <1>2 DEF Pos
<1>. QED  BY <1>2, <1>3, StackIs DEF Top

\* A step that changes neither what is registered nor who listens.
LEMMA SameData ==
    ASSUME RegistryInv, UNCHANGED <<entries, listeners, made, alive, cleared>>
    PROVE  EntriesInv' /\ ListenersInv' /\ Known' = Known /\ made' = made
           /\ Members(listeners)' = Members(listeners)
BY DEF RegistryInv, EntriesInv, ListenersInv, Known, Registered, Members, Distinct

\* Who takes the lock, leaves its section, or does neither.
LEMMA LockTaken ==
    ASSUME LockInv, NEW t \in Threads, lock = {}, lock' = {t},
           calls'[t] # <<>>, calls'[t][1].at = "locked",
           \A u \in Threads : u # t => calls'[u] = calls[u]
    PROVE  LockInv'
BY DEF LockInv

LEMMA LockLeft ==
    ASSUME LockInv, NEW t \in Threads, SectionEnds(t),
           calls'[t] # <<>> => calls'[t][1].at # "locked",
           \A u \in Threads : u # t => calls'[u] = calls[u]
    PROVE  LockInv'
BY DEF LockInv, SectionEnds

LEMMA LockSame ==
    ASSUME LockInv, NEW t \in Threads, lock' = lock,
           calls[t] # <<>> => calls[t][1].at # "locked",
           calls'[t] # <<>> => calls'[t][1].at # "locked",
           \A u \in Threads : u # t => calls'[u] = calls[u]
    PROVE  LockInv'
BY DEF LockInv

LEMMA CallStep ==
    ASSUME RegistryInv, NEW t \in Threads, Call(t)
    PROVE  RegistryInv'
<1>1. StackInv /\ LockInv /\ ListenersInv  BY DEF RegistryInv
<1>2. PICK r \in Requests :
          calls' = [calls EXCEPT ![t] =
                       <<[op |-> r[1], on |-> r[2], at |-> "lock", entry |-> 0,
                          left |-> <<>>, telling |-> FALSE]>> \o @]
      BY DEF Call
<1>. DEFINE c == [op |-> r[1], on |-> r[2], at |-> "lock", entry |-> 0,
                  left |-> <<>>, telling |-> FALSE]
<1>3. MaxEntries \in Nat  BY DEF RegistryInv, EntriesInv
<1>4. /\ r[1] \in Ops
      /\ r[1] \in {"add", "remove"} => r[2] \in Names
      /\ r[1] \in {"add_listener", "remove_listener"} => r[2] \in Listeners
      /\ r[2] \in Names \cup Listeners \cup {"all"}
      BY <1>1 DEF Requests, Ops, ListenersInv
<1>5. <<>> \in Seq(Listeners)  OBVIOUS
<1>6. c \in Calls /\ c.at = "lock" /\ Fits(c, 1)
      BY <1>3, <1>4, <1>5 DEF Calls, Fits
<1>7. calls[t] # <<>> => calls[t][1].at = "tell"
  <2>. SUFFICES ASSUME calls[t] # <<>> PROVE calls[t][1].at = "tell"  OBVIOUS
  <2>1. Top(t) = calls[t][1] /\ Fits(Top(t), 1)  BY <1>1, TopIs
  <2>2. Top(t).telling  BY DEF Call, MayCall
  <2>. QED  BY <2>1, <2>2 DEF Fits
<1>8. calls' = [calls EXCEPT ![t] = <<c>> \o @]  BY <1>2
<1>. HIDE DEF c
<1>9. /\ StackInv' /\ Kept(Shift(t, -1)) /\ Shift(t, -1) \in [Threads -> Int]
      /\ calls'[t] # <<>> /\ calls'[t][1] = c
      BY <1>1, <1>6, <1>7, <1>8, Pushed
<1>10. \A u \in Threads : u # t => calls'[u] = calls[u]
       BY <1>1, <1>8 DEF StackInv
<1>11. LockInv'  BY <1>1, <1>6, <1>7, <1>9, <1>10, LockSame DEF Call
<1>12. /\ EntriesInv' /\ ListenersInv' /\ Known' = Known /\ made' = made
       /\ Members(listeners)' = Members(listeners)
       BY SameData DEF Call
<1>13. heard' = heard /\ unwatched' = unwatched  BY DEF Call
<1>. QED  BY <1>9, <1>11, <1>12, <1>13, QuietStep

LEMMA LockStep ==
    ASSUME RegistryInv, NEW t \in Threads, Lock(t)
    PROVE  RegistryInv'
<1>1. StackInv /\ LockInv  BY DEF RegistryInv
<1>2. calls[t] # <<>> /\ Top(t).at = "lock"  BY DEF Lock
<1>3. Top(t) = calls[t][1] /\ Top(t) \in Calls /\ Fits(Top(t), 1)  BY <1>1, <1>2, TopIs
<1>. DEFINE c == [Top(t) EXCEPT !.at = "locked"]
<1>4. c \in Calls /\ c.at = "locked" /\ Fits(c, 1)
      BY <1>2, <1>3 DEF Calls, Fits
<1>5. SetTop(t, c)  BY DEF Lock
<1>. HIDE DEF c
<1>6. /\ StackInv' /\ calls'[t] # <<>> /\ calls'[t][1] = c
      /\ \A u \in Threads : u # t => calls'[u] = calls[u]
      BY <1>1, <1>2, <1>4, <1>5, Replaced
<1>7. Kept(Shift(t, 0)) /\ Shift(t, 0) \in [Threads -> Int]
      BY <1>1, <1>2, <1>3, <1>4, <1>5, ReplacedKept
<1>8. LockInv'  BY <1>1, <1>4, <1>6, LockTaken DEF Lock
<1>9. /\ EntriesInv' /\ ListenersInv' /\ Known' = Known /\ made' = made
      /\ Members(listeners)' = Members(listeners)
      BY SameData DEF Lock
<1>10. heard' = heard /\ unwatched' = unwatched  BY DEF Lock
<1>. QED  BY <1>6, <1>7, <1>8, <1>9, <1>10, QuietStep

\* A section that ends its call.
LEMMA SectionOver ==
    ASSUME RegistryInv, NEW t \in Threads, NEW op, InSection(t, op), SectionEnds(t), Pop(t)
    PROVE  /\ StackInv' /\ LockInv'
           /\ Kept(Shift(t, 1)) /\ Shift(t, 1) \in [Threads -> Int]
<1>1. StackInv /\ LockInv /\ calls[t] # <<>> /\ Top(t).at = "locked"
      BY DEF RegistryInv, InSection
<1>2. calls[t][1].at = "locked"  BY <1>1, TopIs
<1>3. /\ StackInv' /\ Kept(Shift(t, 1)) /\ Shift(t, 1) \in [Threads -> Int]
      /\ calls'[t] # <<>> => calls'[t][1].at = "tell"
      /\ \A u \in Threads : u # t => calls'[u] = calls[u]
      BY <1>1, <1>2, Popped
<1>4. LockInv'  BY <1>1, <1>3, LockLeft
<1>. QED  BY <1>3, <1>4

\* A section is left with the change c to tell to all that listen.
LEMMA SectionTells ==
    ASSUME RegistryInv, NEW t \in Threads, NEW op \in {"add", "remove"}, InSection(t, op),
           NEW e \in 1..MaxEntries, LeaveToTell(t, e), e \in 1..made',
           op = "remove" => e \notin Known',
           \A u \in Threads : \A i \in Pos(u) : IsTelling(u, i) =>
               /\ Event(calls[u][i]) # <<IF op = "add" THEN "added" ELSE "removed", e>>
               /\ calls[u][i].entry \in 1..made'
               /\ calls[u][i].op = "remove" => calls[u][i].entry \notin Known'
    PROVE  /\ StackInv' /\ LockInv' /\ TellsInv'
           /\ \A l, event : Pending(l, event)' <=>
                  \/ Pending(l, event)
                  \/ /\ event = <<IF op = "add" THEN "added" ELSE "removed", e>>
                     /\ l \in Members(listeners)
<1>1. /\ StackInv /\ LockInv /\ TellsInv /\ calls[t] # <<>>
      /\ Top(t).at = "locked" /\ Top(t).op = op
      BY DEF RegistryInv, InSection
<1>2. Top(t) = calls[t][1] /\ Top(t) \in Calls /\ Fits(Top(t), 1)  BY <1>1, TopIs
<1>3. listeners \in Seq(Listeners) /\ Distinct(listeners)  BY DEF RegistryInv, ListenersInv
<1>. DEFINE c == [Top(t) EXCEPT !.at = "tell", !.entry = e, !.left = listeners]
<1>4. e \in 0..MaxEntries
      BY DEF RegistryInv, EntriesInv
<1>5. /\ c \in Calls /\ c.at = "tell" /\ c.op = op /\ c.entry = e /\ c.left = listeners
      /\ Fits(c, 1)
      BY <1>1, <1>2, <1>3, <1>4 DEF Calls, Fits
<1>6. SetTop(t, c) /\ SectionEnds(t)  BY DEF LeaveToTell
<1>. HIDE DEF c
<1>7. Event(c) = <<IF op = "add" THEN "added" ELSE "removed", e>>  BY <1>5 DEF Event
<1>8. /\ StackInv' /\ calls'[t] # <<>> /\ calls'[t][1] = c
      /\ \A u \in Threads : u # t => calls'[u] = calls[u]
      BY <1>1, <1>5, <1>6, Replaced
<1>9. /\ TellsInv'
      /\ \A l, event : Pending(l, event)' <=>
             Pending(l, event) \/ (event = Event(c) /\ l \in Members(c.left))
  <2>1. \A u \in Threads : \A i \in Pos(u) : IsTelling(u, i) =>
               /\ Event(calls[u][i]) # Event(c) /\ calls[u][i].entry \in 1..made'
               /\ calls[u][i].op = "remove" => calls[u][i].entry \notin Known'
        BY <1>7
  <2>2. /\ Distinct(c.left) /\ c.entry \in 1..made'
        /\ c.op = "remove" => c.entry \notin Known'
        BY <1>3, <1>5
  <2>. QED  BY <1>1, <1>2, <1>5, <1>6, <2>1, <2>2, TellingStarts
<1>10. LockInv'  BY <1>1, <1>5, <1>6, <1>8, LockLeft
<1>. QED  BY <1>5, <1>7, <1>8, <1>9, <1>10

LEMMA AddStep ==
    ASSUME RegistryInv, NEW t \in Threads, Add(t)
    PROVE  RegistryInv'
<1>. DEFINE n == Top(t).on
<1>1. /\ StackInv /\ EntriesInv /\ ListenersInv /\ TellsInv /\ HeardInv /\ WatchInv
      /\ InSection(t, "add") /\ calls[t] # <<>> /\ Top(t).op = "add"
      BY DEF RegistryInv, Add, InSection
<1>2. n \in Names  BY <1>1, TopIs DEF Fits
<1>. HIDE DEF n
<1>3. CASE SectionEnds(t) /\ Pop(t) /\ UNCHANGED <<entries, made>>
  <2>1. /\ StackInv' /\ LockInv' /\ Kept(Shift(t, 1)) /\ Shift(t, 1) \in [Threads -> Int]
        BY <1>1, <1>3, SectionOver
  <2>2. /\ EntriesInv' /\ ListenersInv' /\ Known' = Known /\ made' = made
        /\ Members(listeners)' = Members(listeners)
        BY <1>3, SameData DEF Add
  <2>3. heard' = heard /\ unwatched' = unwatched  BY DEF Add
  <2>. QED  BY <2>1, <2>2, <2>3, QuietStep
<1>4. CASE /\ entries[n] = 0 /\ made < MaxEntries
           /\ entries' = [entries EXCEPT ![n] = made + 1] /\ made' = made + 1
           /\ LeaveToTell(t, made + 1)
  <2>1. UNCHANGED <<listeners, heard, alive, unwatched, cleared>>  BY DEF Add
  <2>2. /\ made \in Nat /\ MaxEntries \in Nat /\ made + 1 \in 1..MaxEntries
        /\ entries \in [Names -> 0..made]
        /\ cleared \subseteq 1..made
        BY <1>1, <1>4 DEF EntriesInv
  <2>3. EntriesInv'  BY <1>1, <1>2, <1>4, <2>1, <2>2 DEF EntriesInv
  <2>4. Known' = Known \cup {made + 1} /\ Known \subseteq 1..made
    <3>1. Registered' = Registered \cup {made + 1}
      <4>1. ASSUME NEW x \in Registered'  PROVE x \in Registered \cup {made + 1}
            BY <1>2, <1>4, <2>2, <4>1 DEF Registered
      <4>2. ASSUME NEW x \in Registered  PROVE x \in Registered'
        <5>1. PICK m \in Names : x = entries[m] /\ x # 0  BY <4>2 DEF Registered
        <5>2. m # n  BY <1>4, <5>1
        <5>3. entries'[m] = x  BY <1>4, <2>2, <5>1, <5>2
        <5>. QED  BY <5>1, <5>3 DEF Registered
      <4>3. made + 1 \in Registered'
        <5>1. entries'[n] = made + 1 /\ made + 1 # 0  BY <1>2, <1>4, <2>2
        <5>. QED  BY <1>2, <5>1 DEF Registered
      <4>. QED  BY <4>1, <4>2, <4>3
    <3>2. cleared' = cleared  BY <2>1
    <3>3. Known' = Known \cup {made + 1}  BY <3>1, <3>2 DEF Known
    <3>4. Registered \subseteq 1..made  BY <2>2 DEF Registered
    <3>. QED  BY <2>2, <3>3, <3>4 DEF Known
  <2>5. ASSUME NEW u \in Threads, NEW i \in Pos(u), IsTelling(u, i)
        PROVE  /\ Event(calls[u][i]) # <<"added", made + 1>>
               /\ calls[u][i].entry \in 1..made'
               /\ calls[u][i].op = "remove" => calls[u][i].entry \notin Known'
    <3>1. /\ calls[u][i].entry \in 1..made
          /\ calls[u][i].op = "remove" => calls[u][i].entry \notin Known
          BY <1>1, <2>5 DEF TellsInv
    <3>. QED  BY <1>4, <2>2, <2>4, <3>1 DEF Event
  <2>6. /\ StackInv' /\ LockInv' /\ TellsInv'
        /\ \A l, event : Pending(l, event)' <=>
               \/ Pending(l, event)
               \/ event = <<"added", made + 1>> /\ l \in Members(listeners)
    <3>1. made + 1 \in 1..made'  BY <1>4, <2>2
    <3>. QED  BY <1>1, <1>4, <2>2, <2>5, <3>1, SectionTells
  <2>7. ListenersInv' /\ Members(listeners)' = Members(listeners)
        BY <1>1, <2>1 DEF ListenersInv, Members, Distinct
  <2>8. HeardInv'
    <3>1. ASSUME NEW l \in Listeners
          PROVE  /\ heard'[l] \in Seq(Events) /\ Distinct(heard'[l])
                 /\ \A e \in Members(heard'[l]) :
                        /\ e[2] \in 1..made' /\ (e[1] = "removed" => e[2] \notin Known')
                        /\ ~Pending(l, e)'
      <4>1. heard'[l] = heard[l] /\ heard[l] \in Seq(Events) /\ Distinct(heard[l])
            BY <1>1, <2>1 DEF HeardInv
      <4>2. ASSUME NEW e \in Members(heard[l])
            PROVE  /\ e[2] \in 1..made' /\ (e[1] = "removed" => e[2] \notin Known')
                   /\ ~Pending(l, e)'
        <5>1. /\ e[2] \in 1..made /\ (e[1] = "removed" => e[2] \notin Known)
              /\ ~Pending(l, e)
              BY <1>1 DEF HeardInv
        <5>2. e # <<"added", made + 1>>  BY <2>2, <5>1
        <5>. QED  BY <1>4, <2>2, <2>4, <2>6, <5>1, <5>2
      <4>. QED  BY <4>1, <4>2
    <3>. QED  BY <3>1 DEF HeardInv, Distinct, Members
  <2>9. WatchInv'
    <3>1. ASSUME NEW l \in Listeners \ unwatched'
          PROVE  /\ l \in Members(listeners)'
                 /\ \A e \in 1..made' :
                     /\ <<"added", e>> \in Members(heard'[l]) \/ Pending(l, <<"added", e>>)'
                     /\ \/ e \in Known'
                        \/ <<"removed", e>> \in Members(heard'[l])
                        \/ Pending(l, <<"removed", e>>)'
      <4>1. l \in Listeners \ unwatched /\ l \in Members(listeners)
            BY <1>1, <2>1 DEF WatchInv
      <4>2. ASSUME NEW e \in 1..made
            PROVE  /\ <<"added", e>> \in Members(heard'[l]) \/ Pending(l, <<"added", e>>)'
                   /\ \/ e \in Known'
                      \/ <<"removed", e>> \in Members(heard'[l])
                      \/ Pending(l, <<"removed", e>>)'
        <5>1. /\ <<"added", e>> \in Members(heard[l]) \/ Pending(l, <<"added", e>>)
              /\ \/ e \in Known
                 \/ <<"removed", e>> \in Members(heard[l]) \/ Pending(l, <<"removed", e>>)
              BY <1>1, <4>1 DEF WatchInv
        <5>. QED  BY <2>1, <2>4, <2>6, <5>1
      <4>3. ASSUME NEW e, e = made + 1
            PROVE  Pending(l, <<"added", e>>)' /\ e \in Known'
            BY <2>4, <2>6, <4>1, <4>3
      <4>4. \A e \in 1..made' : e \in 1..made \/ e = made + 1  BY <1>4, <2>2
      <4>. QED  BY <2>7, <4>1, <4>2, <4>3, <4>4
    <3>2. heard' \in [Listeners -> Seq(Events)]  BY <1>1, <2>1 DEF WatchInv
    <3>. QED  BY <3>1, <3>2 DEF WatchInv, Members
  <2>. QED  BY <2>3, <2>6, <2>7, <2>8, <2>9 DEF RegistryInv
<1>. QED  BY <1>3, <1>4 DEF Add, n

LEMMA RemoveStep ==
    ASSUME RegistryInv, NEW t \in Threads, Remove(t)
    PROVE  RegistryInv'
<1>. DEFINE n == Top(t).on
            x == entries[n]
<1>1. /\ StackInv /\ EntriesInv /\ ListenersInv /\ TellsInv /\ HeardInv /\ WatchInv
      /\ InSection(t, "remove") /\ calls[t] # <<>> /\ Top(t).op = "remove"
      /\ UNCHANGED <<listeners, made, heard, alive, unwatched, cleared>>
      BY DEF RegistryInv, Remove, InSection
<1>2. n \in Names  BY <1>1, TopIs DEF Fits
<1>3. CASE SectionEnds(t) /\ Pop(t) /\ UNCHANGED entries
  <2>1. /\ StackInv' /\ LockInv' /\ Kept(Shift(t, 1)) /\ Shift(t, 1) \in [Threads -> Int]
        BY <1>1, <1>3, SectionOver
  <2>2. /\ EntriesInv' /\ ListenersInv' /\ Known' = Known /\ made' = made
        /\ Members(listeners)' = Members(listeners)
        BY <1>1, <1>3, SameData
  <2>. QED  BY <1>1, <2>1, <2>2, QuietStep
<1>4. CASE /\ entries[n] # 0 /\ entries' = [entries EXCEPT ![n] = 0]
           /\ LeaveToTell(t, entries[n])
  <2>1. PICK e : e = entries[n]  OBVIOUS
  <2>2. LeaveToTell(t, e) /\ entries' = [entries EXCEPT ![n] = 0]  BY <1>4, <2>1
  <2>. HIDE DEF n
  <2>3. /\ made \in Nat /\ MaxEntries \in Nat /\ entries \in [Names -> 0..made]
        /\ e \in 1..made /\ e \in 1..MaxEntries
        /\ e \notin cleared
        BY <1>1, <1>2, <1>4, <2>1 DEF EntriesInv
  <2>4. EntriesInv'  BY <1>1, <1>2, <2>2, <2>3 DEF EntriesInv
  <2>5. e \in Known /\ Known' = Known \ {e}
    <3>1. e \in Registered  BY <1>2, <2>1, <2>3 DEF Registered
    <3>2. ASSUME NEW y \in Registered'  PROVE y \in Registered \ {e}
      <4>1. PICK m \in Names : y = entries'[m] /\ y # 0  BY <3>2 DEF Registered
      <4>2. m # n /\ y = entries[m]  BY <2>2, <2>3, <4>1
      <4>3. y # e  BY <1>1, <1>2, <2>1, <4>1, <4>2 DEF EntriesInv
      <4>. QED  BY <4>1, <4>2, <4>3 DEF Registered
    <3>3. ASSUME NEW y \in Registered, y # e  PROVE y \in Registered'
      <4>1. PICK m \in Names : y = entries[m] /\ y # 0  BY <3>3 DEF Registered
      <4>2. m # n  BY <2>1, <3>3, <4>1
      <4>3. y = entries'[m]  BY <2>2, <2>3, <4>1, <4>2
      <4>. QED  BY <4>1, <4>3 DEF Registered
    <3>4. Registered' = Registered \ {e}
      <4>1. e \notin Registered'  BY <3>2
      <4>. QED  BY <3>2, <3>3, <4>1
    <3>5. cleared' = cleared  BY <1>1
    <3>. QED  BY <2>3, <3>1, <3>4, <3>5 DEF Known
  <2>6. ASSUME NEW u \in Threads, NEW i \in Pos(u), IsTelling(u, i)
        PROVE  /\ Event(calls[u][i]) # <<"removed", e>>
               /\ calls[u][i].entry \in 1..made'
               /\ calls[u][i].op = "remove" => calls[u][i].entry \notin Known'
    <3>1. /\ calls[u][i].entry \in 1..made
          /\ calls[u][i].op = "remove" => calls[u][i].entry \notin Known
          BY <1>1, <2>6 DEF TellsInv
    <3>2. calls[u][i].op \in {"add", "remove"}
      <4>1. Fits(calls[u][i], i)  BY <1>1, StackIs
      <4>. QED  BY <2>6, <4>1 DEF Fits, IsTelling
    <3>. QED  BY <1>1, <2>5, <3>1, <3>2 DEF Event
  <2>7. /\ StackInv' /\ LockInv' /\ TellsInv'
        /\ \A l, event : Pending(l, event)' <=>
               \/ Pending(l, event)
               \/ event = <<"removed", e>> /\ l \in Members(listeners)
    <3>1. e \in 1..made' /\ e \notin Known'  BY <1>1, <2>3, <2>5
    <3>. QED  BY <1>1, <2>2, <2>3, <2>6, <3>1, SectionTells
  <2>8. ListenersInv' /\ Members(listeners)' = Members(listeners)
        BY <1>1 DEF ListenersInv, Members, Distinct
  <2>9. HeardInv'
    <3>1. ASSUME NEW l \in Listeners
          PROVE  /\ heard'[l] \in Seq(Events) /\ Distinct(heard'[l])
                 /\ \A h \in Members(heard'[l]) :
                        /\ h[2] \in 1..made' /\ (h[1] = "removed" => h[2] \notin Known')
                        /\ ~Pending(l, h)'
      <4>1. heard'[l] = heard[l] /\ heard[l] \in Seq(Events) /\ Distinct(heard[l])
            BY <1>1 DEF HeardInv
      <4>2. ASSUME NEW h \in Members(heard[l])
            PROVE  /\ h[2] \in 1..made' /\ (h[1] = "removed" => h[2] \notin Known')
                   /\ ~Pending(l, h)'
        <5>1. /\ h[2] \in 1..made /\ (h[1] = "removed" => h[2] \notin Known)
              /\ ~Pending(l, h)
              BY <1>1 DEF HeardInv
        <5>2. h # <<"removed", e>>  BY <2>5, <5>1
        <5>. QED  BY <1>1, <2>5, <2>7, <5>1, <5>2
      <4>. QED  BY <4>1, <4>2
    <3>. QED  BY <3>1 DEF HeardInv, Distinct, Members
  <2>10. WatchInv'
    <3>1. ASSUME NEW l \in Listeners \ unwatched'
          PROVE  /\ l \in Members(listeners)'
                 /\ \A h \in 1..made' :
                     /\ <<"added", h>> \in Members(heard'[l]) \/ Pending(l, <<"added", h>>)'
                     /\ \/ h \in Known'
                        \/ <<"removed", h>> \in Members(heard'[l])
                        \/ Pending(l, <<"removed", h>>)'
      <4>1. l \in Listeners \ unwatched /\ l \in Members(listeners)
            BY <1>1 DEF WatchInv
      <4>2. ASSUME NEW h \in 1..made
            PROVE  /\ <<"added", h>> \in Members(heard'[l]) \/ Pending(l, <<"added", h>>)'
                   /\ \/ h \in Known'
                      \/ <<"removed", h>> \in Members(heard'[l])
                      \/ Pending(l, <<"removed", h>>)'
        <5>1. /\ <<"added", h>> \in Members(heard[l]) \/ Pending(l, <<"added", h>>)
              /\ \/ h \in Known
                 \/ <<"removed", h>> \in Members(heard[l]) \/ Pending(l, <<"removed", h>>)
              BY <1>1, <4>1 DEF WatchInv
        <5>2. h = e => Pending(l, <<"removed", h>>)'  BY <2>7, <4>1
        <5>. QED  BY <1>1, <2>5, <2>7, <5>1, <5>2
      <4>. QED  BY <1>1, <2>8, <4>1, <4>2
    <3>2. heard' \in [Listeners -> Seq(Events)]  BY <1>1 DEF WatchInv
    <3>. QED  BY <3>1, <3>2 DEF WatchInv, Members
  <2>. QED  BY <2>4, <2>7, <2>8, <2>9, <2>10 DEF RegistryInv
<1>. QED  BY <1>3, <1>4 DEF Remove

LEMMA ClearStep ==
    ASSUME RegistryInv, NEW t \in Threads, Clear(t)
    PROVE  RegistryInv'
<1>1. /\ entries' = [n \in Names |-> 0] /\ cleared' = cleared \cup Registered
      /\ UNCHANGED <<listeners, made, heard, alive, unwatched>>
      BY DEF Clear, Registered
<1>2. /\ StackInv' /\ LockInv' /\ Kept(Shift(t, 1)) /\ Shift(t, 1) \in [Threads -> Int]
      BY SectionOver DEF Clear
<1>3. EntriesInv
      BY DEF RegistryInv
<1>4. EntriesInv'
  <2>1. Registered \subseteq 1..made  BY <1>3 DEF EntriesInv, Registered
  <2>2. \A n \in Names : entries'[n] = 0  BY <1>1
  <2>3. 0 \notin cleared'  BY <1>1, <1>3, <2>1 DEF EntriesInv
  <2>4. entries' \in [Names -> 0..made]  BY <1>1, <1>3 DEF EntriesInv
  <2>. QED  BY <1>1, <1>3, <2>1, <2>2, <2>3, <2>4 DEF EntriesInv
<1>5. Known' = Known
  <2>1. Registered' = {}  BY <1>1 DEF Registered
  <2>. QED  BY <1>1, <2>1 DEF Known
<1>6. ListenersInv' /\ Members(listeners)' = Members(listeners)
      BY <1>1 DEF RegistryInv, ListenersInv, Members, Distinct
<1>. QED  BY <1>1, <1>2, <1>4, <1>5, <1>6, QuietStep

\* A section that changes who listens.
LEMMA ListenersChanged ==
    ASSUME RegistryInv, NEW t \in Threads, NEW op, InSection(t, op), SectionEnds(t), Pop(t),
           UNCHANGED <<entries, made, heard, alive, cleared>>,
           listeners' \in Seq(Listeners), Distinct(listeners'), unwatched \subseteq unwatched',
           \A l \in Listeners \ unwatched' : l \in Members(listeners) => l \in Members(listeners')
    PROVE  RegistryInv'
<1>1. /\ StackInv' /\ LockInv' /\ Kept(Shift(t, 1)) /\ Shift(t, 1) \in [Threads -> Int]
      BY SectionOver
<1>2. EntriesInv' /\ Known' = Known  BY DEF RegistryInv, EntriesInv, Known, Registered
<1>3. ListenersInv'  BY DEF RegistryInv, ListenersInv, Distinct
<1>4. \A l \in Listeners \ unwatched' : l \in Members(listeners) => l \in Members(listeners)'
      BY DEF Members
<1>. QED  BY <1>1, <1>2, <1>3, <1>4, QuietStep

LEMMA AddListenerStep ==
    ASSUME RegistryInv, NEW t \in Threads, AddListener(t)
    PROVE  RegistryInv'
<1>. DEFINE l == Top(t).on
<1>1. /\ InSection(t, "add_listener") /\ SectionEnds(t) /\ Pop(t)
      /\ UNCHANGED <<entries, made, heard, alive, unwatched, cleared>>
      /\ listeners \in Seq(Listeners) /\ Distinct(listeners)
      BY DEF AddListener, RegistryInv, ListenersInv
<1>2. l \in Listeners
      BY <1>1, TopIs DEF RegistryInv, InSection, Fits
<1>. HIDE DEF l
<1>3. CASE l \in Members(listeners) /\ listeners' = listeners
  <2>1. listeners' \in Seq(Listeners) /\ Distinct(listeners')
        /\ Members(listeners') = Members(listeners)
        BY <1>1, <1>3
  <2>. QED  BY <1>1, <2>1, ListenersChanged
<1>4. CASE l \notin Members(listeners) /\ listeners' = Append(listeners, l)
  <2>1. /\ listeners' \in Seq(Listeners) /\ Distinct(listeners')
        /\ Members(listeners') = Members(listeners) \cup {l}
        BY <1>1, <1>2, <1>4, AppendDistinct
  <2>. QED  BY <1>1, <2>1, ListenersChanged
<1>. QED  BY <1>3, <1>4 DEF AddListener, l

LEMMA RemoveListenerStep ==
    ASSUME RegistryInv, NEW t \in Threads, RemoveListener(t)
    PROVE  RegistryInv'
<1>1. /\ InSection(t, "remove_listener") /\ SectionEnds(t) /\ Pop(t)
      /\ UNCHANGED <<entries, made, heard, alive, cleared>>
      /\ unwatched' = unwatched \cup {Top(t).on}
      /\ listeners \in Seq(Listeners) /\ Distinct(listeners)
      BY DEF RemoveListener, RegistryInv, ListenersInv
<1>2. CASE listeners' = listeners
  <2>1. listeners' \in Seq(Listeners) /\ Distinct(listeners')
        /\ Members(listeners') = Members(listeners)
        BY <1>1, <1>2
  <2>. QED  BY <1>1, <2>1, ListenersChanged
<1>3. ASSUME NEW i \in 1..Len(listeners), listeners[i] = Top(t).on,
             listeners' = SubSeq(listeners, 1, i - 1) \o SubSeq(listeners, i + 1, Len(listeners))
      PROVE  RegistryInv'
  <2>1. /\ listeners' \in Seq(Listeners) /\ Distinct(listeners')
        /\ Members(listeners') = Members(listeners) \ {Top(t).on}
        BY <1>1, <1>3, WithoutOne
  <2>. QED  BY <1>1, <2>1, ListenersChanged
<1>. QED  BY <1>2, <1>3 DEF RemoveListener

LEMMA TellStep ==
    ASSUME RegistryInv, NEW t \in Threads, Tell(t)
    PROVE  RegistryInv'
<1>. DEFINE c == calls[t][1]
            h == Head(c.left)
<1>1. StackInv /\ LockInv /\ TellsInv /\ HeardInv /\ WatchInv /\ EntriesInv
      BY DEF RegistryInv
<1>2. PICK event : event = Event(c)  OBVIOUS
<1>3. /\ StackInv' /\ TellsInv' /\ h \in Listeners /\ c.entry \in 0..MaxEntries
      /\ c.op = "remove" => c.entry \notin Known
      /\ c.entry \in 1..made /\ Pending(h, event)
      /\ heard' = [heard EXCEPT ![h] = Append(@, event)]
      /\ calls'[t] # <<>> /\ calls'[t][1].at = "tell" /\ c.at = "tell" /\ calls[t] # <<>>
      /\ \A u \in Threads : u # t => calls'[u] = calls[u]
      /\ \A l, e : Pending(l, e)' <=> Pending(l, e) /\ ~(l = h /\ e = event)
      BY <1>1, <1>2, TellingGoesOn
<1>4. event \in Events /\ event[2] = c.entry /\ event[1] \in {"added", "removed"}
      /\ (event[1] = "removed" => event[2] \notin Known)
  <2>1. c.op \in {"add", "remove"}  BY <1>1, <1>3, TopIs DEF Fits
  <2>2. c.entry \in 1..MaxEntries  BY <1>1, <1>3 DEF EntriesInv
  <2>. QED  BY <1>2, <1>3, <2>1, <2>2 DEF Event, Events
<1>. HIDE DEF c, h
<1>5. UNCHANGED <<lock, entries, listeners, made, alive, unwatched, cleared>>  BY DEF Tell
<1>6. /\ EntriesInv' /\ ListenersInv' /\ Known' = Known /\ made' = made
      /\ Members(listeners)' = Members(listeners)
      BY <1>5, SameData
<1>7. LockInv'
  <2>1. calls[t][1].at = "tell"  BY <1>3 DEF c
  <2>. QED  BY <1>1, <1>3, <1>5, <2>1, LockSame
<1>8. /\ heard \in [Listeners -> Seq(Events)] /\ heard[h] \in Seq(Events)
      /\ Distinct(heard[h]) /\ event \notin Members(heard[h])
      BY <1>1, <1>3 DEF HeardInv, WatchInv
<1>9. /\ Append(heard[h], event) \in Seq(Events) /\ Distinct(Append(heard[h], event))
      /\ Members(Append(heard[h], event)) = Members(heard[h]) \cup {event}
      BY <1>4, <1>8, AppendDistinct
<1>10. /\ heard'[h] = Append(heard[h], event)
       /\ \A l \in Listeners : l # h => heard'[l] = heard[l]
       /\ heard' \in [Listeners -> Seq(Events)]
  <2>. DEFINE w == Append(heard[h], event)
  <2>1. heard' = [heard EXCEPT ![h] = w] /\ w \in Seq(Events)  BY <1>3, <1>9
  <2>. HIDE DEF w
  <2>2. heard'[h] = w /\ heard' \in [Listeners -> Seq(Events)]
        /\ \A l \in Listeners : l # h => heard'[l] = heard[l]
        BY <1>3, <1>8, <2>1
  <2>. QED  BY <2>2 DEF w
<1>11. \A l \in Listeners : \A e :
           e \in Members(heard'[l]) <=> e \in Members(heard[l]) \/ (l = h /\ e = event)
       BY <1>9, <1>10
<1>12. HeardInv'
  <2>1. ASSUME NEW l \in Listeners
        PROVE  /\ heard'[l] \in Seq(Events) /\ Distinct(heard'[l])
               /\ \A e \in Members(heard'[l]) :
                      /\ e[2] \in 1..made' /\ (e[1] = "removed" => e[2] \notin Known')
                      /\ ~Pending(l, e)'
    <3>1. heard'[l] \in Seq(Events) /\ Distinct(heard'[l])
          BY <1>1, <1>9, <1>10 DEF HeardInv
    <3>2. ASSUME NEW e \in Members(heard'[l])
          PROVE  /\ e[2] \in 1..made' /\ (e[1] = "removed" => e[2] \notin Known')
                 /\ ~Pending(l, e)'
      <4>1. CASE l = h /\ e = event  BY <1>3, <1>4, <1>6, <4>1
      <4>2. CASE ~(l = h /\ e = event)
        <5>1. e \in Members(heard[l])  BY <1>11, <4>2
        <5>. QED  BY <1>1, <1>3, <1>6, <5>1 DEF HeardInv
      <4>. QED  BY <4>1, <4>2
    <3>. QED  BY <3>1, <3>2
  <2>. QED  BY <2>1 DEF HeardInv, Distinct, Members
<1>13. WatchInv'
  <2>1. ASSUME NEW l \in Listeners \ unwatched'
        PROVE  /\ l \in Members(listeners)'
               /\ \A e \in 1..made' :
                   /\ <<"added", e>> \in Members(heard'[l]) \/ Pending(l, <<"added", e>>)'
                   /\ \/ e \in Known'
                      \/ <<"removed", e>> \in Members(heard'[l])
                      \/ Pending(l, <<"removed", e>>)'
    <3>1. l \in Listeners \ unwatched /\ l \in Listeners  BY <1>5
    <3>2. l \in Members(listeners)'  BY <1>1, <1>6, <3>1 DEF WatchInv
    <3>3. ASSUME NEW e, e \in Members(heard[l]) \/ Pending(l, e)
          PROVE  e \in Members(heard'[l]) \/ Pending(l, e)'
          BY <1>3, <1>11, <3>1, <3>3
    <3>4. ASSUME NEW e \in 1..made'
          PROVE  /\ <<"added", e>> \in Members(heard'[l]) \/ Pending(l, <<"added", e>>)'
                 /\ \/ e \in Known'
                    \/ <<"removed", e>> \in Members(heard'[l])
                    \/ Pending(l, <<"removed", e>>)'
      <4>1. /\ <<"added", e>> \in Members(heard[l]) \/ Pending(l, <<"added", e>>)
            /\ \/ e \in Known
               \/ <<"removed", e>> \in Members(heard[l]) \/ Pending(l, <<"removed", e>>)
            BY <1>1, <1>6, <3>1 DEF WatchInv
      <4>. QED  BY <1>6, <3>3, <4>1
    <3>. QED  BY <3>2, <3>4
  <2>. QED  BY <1>10, <2>1 DEF WatchInv, Members
<1>. QED  BY <1>3, <1>6, <1>7, <1>12, <1>13 DEF RegistryInv

LEMMA CallbackReturnsStep ==
    ASSUME RegistryInv, NEW t \in Threads, CallbackReturns(t)
    PROVE  RegistryInv'
<1>1. StackInv /\ LockInv /\ calls[t] # <<>>  BY DEF RegistryInv, CallbackReturns
<1>2. Top(t) = calls[t][1] /\ Top(t) \in Calls /\ Fits(Top(t), 1)  BY <1>1, TopIs
<1>3. Top(t).at = "tell"  BY <1>2 DEF CallbackReturns, Fits
<1>. DEFINE c == [Top(t) EXCEPT !.telling = FALSE]
<1>4. /\ c \in Calls /\ c.at = "tell" /\ c.op = Top(t).op /\ c.entry = Top(t).entry
      /\ c.left = Top(t).left /\ Fits(c, 1)
      BY <1>2, <1>3 DEF Calls, Fits
<1>5. SetTop(t, c)  BY DEF CallbackReturns
<1>. HIDE DEF c
<1>6. /\ StackInv' /\ calls'[t] # <<>> /\ calls'[t][1] = c
      /\ \A u \in Threads : u # t => calls'[u] = calls[u]
      BY <1>1, <1>4, <1>5, Replaced
<1>7. Kept(Shift(t, 0)) /\ Shift(t, 0) \in [Threads -> Int]
      BY <1>1, <1>2, <1>3, <1>4, <1>5, ReplacedKept
<1>8. LockInv'  BY <1>1, <1>2, <1>3, <1>4, <1>6, LockSame DEF CallbackReturns
<1>9. /\ EntriesInv' /\ ListenersInv' /\ Known' = Known /\ made' = made
      /\ Members(listeners)' = Members(listeners)
      BY SameData DEF CallbackReturns
<1>10. heard' = heard /\ unwatched' = unwatched  BY DEF CallbackReturns
<1>. QED  BY <1>6, <1>7, <1>8, <1>9, <1>10, QuietStep

LEMMA ReturnStep ==
    ASSUME RegistryInv, NEW t \in Threads, Return(t)
    PROVE  RegistryInv'
<1>1. StackInv /\ LockInv /\ calls[t] # <<>> /\ Pop(t)  BY DEF RegistryInv, Return
<1>2. calls[t][1].at = "tell" /\ calls[t][1].left = <<>>  BY <1>1, TopIs DEF Return
<1>3. /\ StackInv' /\ Kept(Shift(t, 1)) /\ Shift(t, 1) \in [Threads -> Int]
      /\ calls'[t] # <<>> => calls'[t][1].at = "tell"
      /\ \A u \in Threads : u # t => calls'[u] = calls[u]
      BY <1>1, <1>2, Popped
<1>4. LockInv'  BY <1>1, <1>2, <1>3, LockSame DEF Return
<1>5. /\ EntriesInv' /\ ListenersInv' /\ Known' = Known /\ made' = made
      /\ Members(listeners)' = Members(listeners)
      BY SameData DEF Return
<1>6. heard' = heard /\ unwatched' = unwatched  BY DEF Return
<1>. QED  BY <1>3, <1>4, <1>5, <1>6, QuietStep

\* Nothing of what the invariant speaks of changes but that a listener no longer exists.
LEMMA StillStep ==
    ASSUME RegistryInv, alive' \subseteq alive,
           UNCHANGED <<lock, entries, listeners, made, calls, heard, unwatched, cleared>>
    PROVE  RegistryInv'
<1>1. StackInv' /\ LockInv'  BY DEF RegistryInv, StackInv, LockInv, Pos
<1>2. EntriesInv' /\ ListenersInv' /\ Known' = Known
      BY DEF RegistryInv, EntriesInv, ListenersInv, Known, Registered, Distinct
<1>3. TellsInv' /\ \A l, e : Pending(l, e)' <=> Pending(l, e)
      BY <1>2 DEF RegistryInv, TellsInv, Pending, IsTelling, Pos, Event, Distinct, Members
<1>4. HeardInv'  BY <1>2, <1>3 DEF RegistryInv, HeardInv, Distinct, Members
<1>5. WatchInv'  BY <1>2, <1>3 DEF RegistryInv, WatchInv, Members
<1>. QED  BY <1>1, <1>2, <1>3, <1>4, <1>5 DEF RegistryInv

LEMMA RegistryStep ==
    ASSUME RegistryInv, [Next]_vars
    PROVE  RegistryInv'
<1>1. CASE UNCHANGED vars
  <2>1. alive' \subseteq alive
        /\ UNCHANGED <<lock, entries, listeners, made, calls, heard, unwatched, cleared>>
        BY <1>1 DEF vars
  <2>. QED  BY <2>1, StillStep
<1>2. ASSUME NEW l \in Listeners, DestroyListener(l)  PROVE RegistryInv'
  <2>1. alive' \subseteq alive
        /\ UNCHANGED <<lock, entries, listeners, made, calls, heard, unwatched, cleared>>
        BY <1>2 DEF DestroyListener
  <2>. QED  BY <2>1, StillStep
<1>3. ASSUME NEW t \in Threads, Call(t) \/ Proceed(t)  PROVE RegistryInv'
      BY <1>3, CallStep, LockStep, AddStep, RemoveStep, ClearStep, AddListenerStep,
         RemoveListenerStep, TellStep, CallbackReturnsStep, ReturnStep DEF Proceed
<1>. QED  BY <1>1, <1>2, <1>3 DEF Next

LEMMA RegistryInit ==
    ASSUME MaxEntries \in Nat, Init
    PROVE  RegistryInv
<1>1. /\ calls \in [Threads -> Seq(Calls)]
      /\ \A t \in Threads : Len(calls[t]) = 0 /\ calls[t] = <<>>
  <2>1. calls = [t \in Threads |-> <<>>]  BY DEF Init
  <2>2. <<>> \in Seq(Calls) /\ Len(<<>>) = 0  OBVIOUS
  <2>. QED  BY <2>1, <2>2
<1>2. \A t \in Threads : Pos(t) = {}  BY <1>1, NoPositions
<1>3. StackInv /\ TellsInv /\ \A l, e : ~Pending(l, e)
      BY <1>1, <1>2 DEF StackInv, TellsInv, Pending
<1>4. LockInv  BY <1>1 DEF Init, LockInv
<1>5. made = 0 /\ cleared = {} /\ \A n \in Names : entries[n] = 0  BY DEF Init
<1>6. EntriesInv
  <2>1. entries \in [Names -> 0..0]  BY DEF Init
  <2>. QED  BY <1>5, <2>1 DEF EntriesInv
<1>7. ListenersInv
  <2>1. CASE listeners = <<>>
        BY <2>1 DEF Init, ListenersInv, Distinct
  <2>2. ASSUME NEW l \in Listeners, listeners = <<l>>  PROVE ListenersInv
        BY <2>2 DEF Init, ListenersInv, Distinct
  <2>. QED  BY <2>1, <2>2 DEF Init
<1>8. heard = [l \in Listeners |-> <<>>]  BY DEF Init
<1>9. <<>> \in Seq(Events) /\ Members(<<>>) = {} /\ Distinct(<<>>)  BY DEF Members, Distinct
<1>10. heard \in [Listeners -> Seq(Events)] /\ \A l \in Listeners : heard[l] = <<>>
       BY <1>8, <1>9
<1>11. HeardInv  BY <1>9, <1>10 DEF HeardInv
<1>12. WatchInv
  <2>1. unwatched = Listeners \ Members(listeners)  BY DEF Init
  <2>2. 1..made = {}  BY <1>5
  <2>. QED  BY <1>10, <2>1, <2>2 DEF WatchInv
<1>. QED  BY <1>3, <1>4, <1>6, <1>7, <1>11, <1>12 DEF RegistryInv

LEMMA RegistryInvariant ==
    ASSUME MaxEntries \in Nat
    PROVE  Spec => []RegistryInv
<1>1. Init => RegistryInv  BY RegistryInit
<1>2. RegistryInv /\ [Next]_vars => RegistryInv'  BY RegistryStep
<1>. QED  BY <1>1, <1>2, PTL DEF Spec

-----------------------------------------------------------------------------
(* The results. *)

\* add(), remove() and the telling after them: no listener hears of one change twice.
THEOREM HeardOnceHolds ==
    ASSUME MaxEntries \in Nat
    PROVE  Spec => []HeardOnce
<1>1. RegistryInv => HeardOnce  BY DEF RegistryInv, HeardInv, HeardOnce
<1>. QED  BY <1>1, RegistryInvariant, PTL

\* No listener is called with the mutex held: a callback may call the registry.
THEOREM ToldOutsideLockHolds ==
    ASSUME MaxEntries \in Nat
    PROVE  Spec => []ToldOutsideLock
<1>1. RegistryInv => ToldOutsideLock
  <2>. SUFFICES ASSUME RegistryInv, NEW t \in Threads, t \in lock
                PROVE  calls[t] # <<>> /\ Top(t).at = "locked"
       BY DEF ToldOutsideLock
  <2>1. calls[t] # <<>> /\ calls[t][1].at = "locked" /\ StackInv
        BY DEF RegistryInv, LockInv
  <2>. QED  BY <2>1, TopIs
<1>. QED  BY <1>1, RegistryInvariant, PTL

\* When every add(), remove() and clear() has returned, a listener that was there throughout
\* can tell what is registered from what it was told, in whatever order that came.
THEOREM HeardAddsUpHolds ==
    ASSUME MaxEntries \in Nat
    PROVE  Spec => []HeardAddsUp
<1>1. RegistryInv => HeardAddsUp
  <2>. SUFFICES ASSUME RegistryInv, Quiet, NEW l \in Listeners \ unwatched
                PROVE  HeardOf(l, "added") \ HeardOf(l, "removed") = Known
       BY DEF HeardAddsUp, Known, Registered
  <2>1. \A e : ~Pending(l, e)
    <3>1. \A t \in Threads : Pos(t) = {}  BY NoPositions DEF Quiet
    <3>. QED  BY <3>1 DEF Pending
  <2>2. /\ made \in Nat /\ MaxEntries \in Nat /\ made <= MaxEntries
        /\ Known \subseteq 1..made
    <3>1. /\ made \in 0..MaxEntries /\ MaxEntries \in Nat
          /\ entries \in [Names -> 0..made] /\ cleared \subseteq 1..made
          BY DEF RegistryInv, EntriesInv
    <3>2. Registered \subseteq 1..made  BY <3>1 DEF Registered
    <3>. QED  BY <3>1, <3>2 DEF Known
  <2>3. \A e \in 1..made : /\ <<"added", e>> \in Members(heard[l])
                           /\ e \in Known \/ <<"removed", e>> \in Members(heard[l])
        BY <2>1 DEF RegistryInv, WatchInv
  <2>4. \A e : /\ <<"added", e>> \in Members(heard[l]) => e \in 1..made
               /\ <<"removed", e>> \in Members(heard[l]) => e \notin Known
    <3>1. \A e \in Members(heard[l]) :
              e[2] \in 1..made /\ (e[1] = "removed" => e[2] \notin Known)
          BY DEF RegistryInv, HeardInv
    <3>2. \A e : <<"added", e>>[2] = e /\ <<"removed", e>>[2] = e
                 /\ <<"removed", e>>[1] = "removed"
          OBVIOUS
    <3>. QED  BY <3>1, <3>2
  <2>5. ASSUME NEW e \in Known
        PROVE  e \in HeardOf(l, "added") \ HeardOf(l, "removed")
        BY <2>2, <2>3, <2>4, <2>5 DEF HeardOf
  <2>6. ASSUME NEW e \in HeardOf(l, "added") \ HeardOf(l, "removed")
        PROVE  e \in Known
        BY <2>2, <2>3, <2>4, <2>6 DEF HeardOf
  <2>. QED  BY <2>5, <2>6
<1>. QED  BY <1>1, RegistryInvariant, PTL


-----------------------------------------------------------------------------
(* How deep the calls are, and the types. *)

\* No thread is in more calls than it may be, and only listeners are ever unwatched.
DepthInv ==
    /\ \A t \in Threads : Len(calls[t]) <= MaxDepth
    /\ unwatched \subseteq Listeners

LEMMA OneDeeper ==
    ASSUME NEW S, NEW s \in Seq(S), NEW c
    PROVE  Len(<<c>> \o s) = Len(s) + 1 /\ Len(s) \in Nat
<1>1. \A i \in 1..Len(s) : s[i] \in S  BY ElementOfSeq
<1>2. s = [i \in 1..Len(s) |-> s[i]] /\ Len(s) \in Nat  OBVIOUS
<1>3. s \in Seq(S \cup {c}) /\ <<c>> \in Seq(S \cup {c}) /\ Len(<<c>>) = 1  BY <1>1, <1>2
<1>. QED  BY <1>2, <1>3, ConcatProperties

\* What a call does to the depth of its thread.
LEMMA DepthKept ==
    ASSUME StackInv, DepthInv, MaxDepth \in Nat, NEW t \in Threads,
           \/ calls[t] # <<>> /\ Pop(t)
           \/ calls[t] # <<>> /\ \E c : SetTop(t, c)
           \/ UNCHANGED calls
    PROVE  \A u \in Threads : Len(calls'[u]) <= MaxDepth
<1>1. calls \in [Threads -> Seq(Calls)]  BY DEF StackInv
<1>2. \A u \in Threads : Len(calls[u]) <= MaxDepth /\ Len(calls[u]) \in Nat
      BY <1>1 DEF DepthInv
<1>3. (Len(calls'[t]) <= Len(calls[t]) /\ Len(calls'[t]) \in Nat) \/ UNCHANGED calls
  <2>1. calls[t] \in Seq(Calls)  BY <1>1
  <2>2. CASE calls[t] # <<>> /\ Pop(t)
    <3>1. calls'[t] = Tail(calls[t])  BY <1>1, <2>2 DEF Pop
    <3>2. Len(Tail(calls[t])) = Len(calls[t]) - 1  BY <2>1, <2>2, PopFacts
    <3>3. Len(calls[t]) >= 1  BY <2>1, <2>2, PopFacts
    <3>. QED  BY <1>2, <3>1, <3>2, <3>3
  <2>3. ASSUME calls[t] # <<>>, NEW c, SetTop(t, c)
        PROVE  Len(calls'[t]) <= Len(calls[t]) /\ Len(calls'[t]) \in Nat
    <3>1. calls'[t] = <<c>> \o Tail(calls[t])  BY <1>1, <2>3 DEF SetTop
    <3>2. Tail(calls[t]) \in Seq(Calls) /\ Len(Tail(calls[t])) = Len(calls[t]) - 1
          BY <2>1, <2>3, PopFacts
    <3>3. Len(<<c>> \o Tail(calls[t])) = Len(Tail(calls[t])) + 1  BY <3>2, OneDeeper
    <3>. QED  BY <1>2, <3>1, <3>2, <3>3
  <2>. QED  BY <2>2, <2>3
<1>4. \A u \in Threads : u # t => calls'[u] = calls[u]
      BY <1>1 DEF Pop, SetTop
<1>. QED  BY <1>2, <1>3, <1>4

LEMMA DepthStep ==
    ASSUME RegistryInv, DepthInv, MaxDepth \in Nat, [Next]_vars
    PROVE  DepthInv'
<1>1. StackInv /\ calls \in [Threads -> Seq(Calls)]  BY DEF RegistryInv, StackInv
<1>2. CASE UNCHANGED vars
      BY <1>2 DEF vars, DepthInv
<1>3. ASSUME NEW l \in Listeners, DestroyListener(l)  PROVE DepthInv'
      BY <1>3 DEF DestroyListener, DepthInv
<1>4. ASSUME NEW t \in Threads, Call(t)  PROVE DepthInv'
  <2>1. PICK c : calls' = [calls EXCEPT ![t] = <<c>> \o @]  BY <1>4 DEF Call
  <2>2. calls' [t] = <<c>> \o calls[t] /\ \A u \in Threads : u # t => calls'[u] = calls[u]
        BY <1>1, <2>1
  <2>3. Len(<<c>> \o calls[t]) = Len(calls[t]) + 1 /\ Len(calls[t]) \in Nat
        BY <1>1, OneDeeper
  <2>4. Len(calls[t]) < MaxDepth /\ unwatched' = unwatched  BY <1>4 DEF Call, MayCall
  <2>. QED  BY <2>2, <2>3, <2>4 DEF DepthInv
<1>5. ASSUME NEW t \in Threads, Proceed(t)  PROVE DepthInv'
  <2>1. calls[t] # <<>>
        BY <1>5 DEF Proceed, Lock, Add, Remove, Clear, AddListener, RemoveListener, InSection,
                    Tell, CallbackReturns, Return
  <2>2. Pop(t) \/ \E c : SetTop(t, c)
        BY <1>5 DEF Proceed, Lock, Add, Remove, Clear, AddListener, RemoveListener, LeaveToTell,
                    Tell, CallbackReturns, Return
  <2>3. \A u \in Threads : Len(calls'[u]) <= MaxDepth  BY <1>1, <2>1, <2>2, DepthKept
  <2>4. unwatched' \subseteq Listeners
    <3>1. CASE RemoveListener(t)
      <4>1. Top(t).op = "remove_listener" /\ unwatched' = unwatched \cup {Top(t).on}
            BY <3>1 DEF RemoveListener, InSection
      <4>2. Top(t).on \in Listeners  BY <1>1, <2>1, <4>1, TopIs DEF Fits
      <4>. QED  BY <4>1, <4>2 DEF DepthInv
    <3>2. CASE UNCHANGED unwatched
          BY <3>2 DEF DepthInv
    <3>. QED  BY <1>5, <3>1, <3>2
              DEF Proceed, Lock, Add, Remove, Clear, AddListener, Tell, CallbackReturns, Return
  <2>. QED  BY <2>3, <2>4 DEF DepthInv
<1>. QED  BY <1>2, <1>3, <1>4, <1>5 DEF Next

\* The registry's state is of its type, the listeners of dynamicregistry.h are in their list once
\* each and no thread is in more calls than it may be.
THEOREM RegistryTypeCorrect ==
    ASSUME MaxEntries \in Nat, MaxDepth \in Nat
    PROVE  Spec => []TypeOK
<1>1. Init => RegistryInv /\ DepthInv
  <2>. SUFFICES ASSUME Init PROVE RegistryInv /\ DepthInv  OBVIOUS
  <2>1. \A t \in Threads : calls[t] = <<>>  BY DEF Init
  <2>2. Len(<<>>) = 0  OBVIOUS
  <2>. QED  BY <2>1, <2>2, RegistryInit DEF DepthInv, Init
<1>2. RegistryInv /\ DepthInv /\ [Next]_vars => (RegistryInv /\ DepthInv)'
      BY RegistryStep, DepthStep
<1>3. RegistryInv /\ DepthInv => TypeOK
      BY DEF RegistryInv, DepthInv, StackInv, LockInv, EntriesInv, ListenersInv, HeardInv, TypeOK
<1>. QED  BY <1>1, <1>2, <1>3, PTL DEF Spec
=============================================================================
