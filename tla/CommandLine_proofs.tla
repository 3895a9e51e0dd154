------------------------- MODULE CommandLine_proofs -------------------------
(***************************************************************************)
(* What a parse guarantees, for any tree the declarations admit and any    *)
(* line.                                                                   *)
(***************************************************************************)
EXTENDS CommandLine, FiniteSetTheorems, SequenceTheorems, WellFoundedInduction, TLAPS

-----------------------------------------------------------------------------
(* Natural numbers, the least and the greatest of some, and sequences. *)

\* A set with 0 that is closed under the next number has them all.
LEMMA NatSets ==
    ASSUME NEW S, 0 \in S, \A n \in Nat : n \in S => n + 1 \in S
    PROVE  Nat \subseteq S
<1>. DEFINE T == Nat \ S
            R == OpToRel(<, Nat)
<1>. SUFFICES ASSUME T # {} PROVE FALSE  OBVIOUS
<1>1. IsWellFoundedOn(R, Nat)  BY NatLessThanWellFounded
<1>2. T \subseteq Nat  OBVIOUS
<1>3. \E x \in T : \A y \in T : ~(<<y, x>> \in R)
  <2>. HIDE DEF R, T
  <2>. QED  BY <1>1, <1>2, WFMin
<1>4. PICK x \in T : \A y \in T : ~(<<y, x>> \in R)  BY <1>3
<1>5. \A y \in T : ~(y < x)  BY <1>4 DEF OpToRel
<1>. QED  BY <1>5

LEMMA Least ==
    ASSUME NEW S \in SUBSET Nat, S # {}
    PROVE  Min(S) \in S /\ \A y \in S : Min(S) <= y
<1>. DEFINE T == {n \in Nat : \A m \in S : n <= m}
<1>1. \E n \in S : n \in T
  <2>. SUFFICES ASSUME \A n \in S : n \notin T PROVE FALSE  OBVIOUS
  <2>1. 0 \in T  OBVIOUS
  <2>2. \A n \in Nat : n \in T => n + 1 \in T
    <3>. SUFFICES ASSUME NEW n \in Nat, n \in T, NEW m \in S PROVE n + 1 <= m  OBVIOUS
    <3>1. n <= m /\ n # m  OBVIOUS
    <3>. QED  BY <3>1
  <2>. HIDE DEF T
  <2>3. Nat \subseteq T  BY <2>1, <2>2, NatSets
  <2>. QED  BY <2>3
<1>. QED  BY <1>1 DEF Min

LEMMA Greatest ==
    ASSUME NEW k \in Nat, NEW S \in SUBSET (0..k), S # {}
    PROVE  Max(S) \in S /\ \A y \in S : y <= Max(S)
<1>. DEFINE T == {k - n : n \in S}
<1>1. T \in SUBSET Nat /\ T # {}  OBVIOUS
<1>. HIDE DEF T
<1>2. Min(T) \in T /\ \A y \in T : Min(T) <= y  BY <1>1, Least
<1>3. PICK n \in S : Min(T) = k - n  BY <1>2 DEF T
<1>4. \A m \in S : k - m \in T  BY DEF T
<1>5. \A m \in S : m <= n  BY <1>2, <1>3, <1>4
<1>. QED  BY <1>5 DEF Max

LEMMA Picked ==
    ASSUME NEW n \in Nat, NEW S \in SUBSET (1..n), S # {}
    PROVE  Min(S) \in S /\ Max(S) \in S
<1>. S \in SUBSET Nat /\ S \in SUBSET (0..n)  OBVIOUS
<1>. QED  BY Least, Greatest

-----------------------------------------------------------------------------
(* The recursive functions of the parser are what they say. *)

\* collectOptions() takes one option after the other.
LEMMA CollectedSteps ==
    ASSUME NEW opts, NEW l, Len(l) \in Nat
    PROVE  \E c : /\ c[0] = opts
                  /\ \A i \in 1..Len(l) : c[i] = Collect(c[i - 1], l[i])
                  /\ Collected(opts, l) = c[Len(l)]
<1>. DEFINE Step(p, i) == Collect(p, l[i])
            Is(c, n) == c = [i \in 0..n |-> IF i = 0 THEN opts ELSE Step(c[i - 1], i)]
            S == {n \in Nat : \E c : Is(c, n)}
<1>. HIDE DEF Step
<1>1. 0 \in S
  <2>1. Is([i \in 0..0 |-> opts], 0)  OBVIOUS
  <2>. QED  BY <2>1
<1>2. ASSUME NEW n \in Nat, n \in S PROVE n + 1 \in S
  <2>1. PICK c : Is(c, n)  BY <1>2
  <2>. DEFINE d == [i \in 0..(n + 1) |-> IF i = n + 1 THEN Step(c[n], n + 1) ELSE c[i]]
              e == [i \in 0..(n + 1) |-> IF i = 0 THEN opts ELSE Step(d[i - 1], i)]
  <2>2. \A i \in 0..n : d[i] = c[i] /\ c[i] = IF i = 0 THEN opts ELSE Step(c[i - 1], i)  BY <2>1
  <2>3. ASSUME NEW i \in 0..(n + 1) PROVE d[i] = e[i]
    <3>1. CASE i = 0
      <4>1. 0 \in 0..n  OBVIOUS
      <4>2. d[0] = c[0] /\ c[0] = IF 0 = 0 THEN opts ELSE Step(c[0 - 1], 0)  BY <4>1, <2>2
      <4>. QED  BY <3>1, <4>2
    <3>2. CASE i \in 1..n
      <4>1. i \in 0..n /\ i - 1 \in 0..n /\ i # 0  BY <3>2
      <4>2. d[i] = Step(c[i - 1], i) /\ d[i - 1] = c[i - 1]  BY <4>1, <2>2
      <4>. QED  BY <4>1, <4>2
    <3>3. CASE i = n + 1
      <4>1. i # 0 /\ i - 1 = n /\ n \in 0..n  BY <3>3
      <4>2. d[i] = Step(c[n], n + 1) /\ d[n] = c[n]  BY <4>1, <2>2, <3>3
      <4>. QED  BY <4>1, <4>2, <3>3
    <3>. QED  BY <3>1, <3>2, <3>3
  <2>4. d = e  BY <2>3
  <2>5. Is(d, n + 1)  BY <2>4
  <2>. HIDE DEF Is
  <2>. QED  BY <2>5
<1>3. Len(l) \in S
  <2>. HIDE DEF S
  <2>. QED  BY <1>1, <1>2, NatSets
<1>4. PICK c : c = CHOOSE x : Is(x, Len(l))  OBVIOUS
<1>5. Is(c, Len(l))
  <2>. HIDE DEF Is
  <2>. QED  BY <1>3, <1>4
<1>6. Collected(opts, l) = c[Len(l)]  BY <1>4 DEF Collected, Step
<1>7. c[0] = opts /\ \A i \in 1..Len(l) : c[i] = Step(c[i - 1], i)
  <2>1. 0 \in 0..Len(l) /\ \A i \in 1..Len(l) : i \in 0..Len(l) /\ i # 0  OBVIOUS
  <2>. QED  BY <1>5, <2>1
<1>. QED  BY <1>6, <1>7 DEF Step

\* enter() keeps one global option after the other.
LEMMA GlobalSteps ==
    ASSUME NEW at, Len(Command(at).options) \in Nat
    PROVE  \E c : /\ c[0] = <<>>
                  /\ \A i \in 1..Len(Command(at).options) : c[i] = KeepGlobal(c[i - 1], Command(at).options[i])
                  /\ Globals(at) = c[Len(Command(at).options)]
<1>. DEFINE Step(p, i) == KeepGlobal(p, Command(at).options[i])
            Is(c, n) == c = [i \in 0..n |-> IF i = 0 THEN <<>> ELSE Step(c[i - 1], i)]
            S == {n \in Nat : \E c : Is(c, n)}
<1>. HIDE DEF Step
<1>1. 0 \in S
  <2>1. Is([i \in 0..0 |-> <<>>], 0)  OBVIOUS
  <2>. QED  BY <2>1
<1>2. ASSUME NEW n \in Nat, n \in S PROVE n + 1 \in S
  <2>1. PICK c : Is(c, n)  BY <1>2
  <2>. DEFINE d == [i \in 0..(n + 1) |-> IF i = n + 1 THEN Step(c[n], n + 1) ELSE c[i]]
              e == [i \in 0..(n + 1) |-> IF i = 0 THEN <<>> ELSE Step(d[i - 1], i)]
  <2>2. \A i \in 0..n : d[i] = c[i] /\ c[i] = IF i = 0 THEN <<>> ELSE Step(c[i - 1], i)  BY <2>1
  <2>3. ASSUME NEW i \in 0..(n + 1) PROVE d[i] = e[i]
    <3>1. CASE i = 0
      <4>1. 0 \in 0..n  OBVIOUS
      <4>2. d[0] = c[0] /\ c[0] = IF 0 = 0 THEN <<>> ELSE Step(c[0 - 1], 0)  BY <4>1, <2>2
      <4>. QED  BY <3>1, <4>2
    <3>2. CASE i \in 1..n
      <4>1. i \in 0..n /\ i - 1 \in 0..n /\ i # 0  BY <3>2
      <4>2. d[i] = Step(c[i - 1], i) /\ d[i - 1] = c[i - 1]  BY <4>1, <2>2
      <4>. QED  BY <4>1, <4>2
    <3>3. CASE i = n + 1
      <4>1. i # 0 /\ i - 1 = n /\ n \in 0..n  BY <3>3
      <4>2. d[i] = Step(c[n], n + 1) /\ d[n] = c[n]  BY <4>1, <2>2, <3>3
      <4>. QED  BY <4>1, <4>2, <3>3
    <3>. QED  BY <3>1, <3>2, <3>3
  <2>4. d = e  BY <2>3
  <2>5. Is(d, n + 1)  BY <2>4
  <2>. HIDE DEF Is
  <2>. QED  BY <2>5
<1>3. Len(Command(at).options) \in S
  <2>. HIDE DEF S
  <2>. QED  BY <1>1, <1>2, NatSets
<1>4. PICK c : c = CHOOSE x : Is(x, Len(Command(at).options))  OBVIOUS
<1>5. Is(c, Len(Command(at).options))
  <2>. HIDE DEF Is
  <2>. QED  BY <1>3, <1>4
<1>6. Globals(at) = c[Len(Command(at).options)]  BY <1>4 DEF Globals, Step
<1>7. c[0] = <<>> /\ \A i \in 1..Len(Command(at).options) : c[i] = Step(c[i - 1], i)
  <2>1. 0 \in 0..Len(Command(at).options) /\ \A i \in 1..Len(Command(at).options) : i \in 0..Len(Command(at).options) /\ i # 0  OBVIOUS
  <2>. QED  BY <1>5, <2>1
<1>. QED  BY <1>6, <1>7 DEF Step

\* readResponseFile() takes one line after the other.
LEMMA TokensInSteps ==
    ASSUME NEW lines, Len(lines) \in Nat
    PROVE  \E c : /\ c[0] = <<>>
                  /\ \A i \in 1..Len(lines) : c[i] = KeepText(c[i - 1], Trimmed(WithoutMark(lines)[i]))
                  /\ TokensIn(lines) = c[Len(lines)]
<1>. DEFINE Step(p, i) == KeepText(p, Trimmed(WithoutMark(lines)[i]))
            Is(c, n) == c = [i \in 0..n |-> IF i = 0 THEN <<>> ELSE Step(c[i - 1], i)]
            S == {n \in Nat : \E c : Is(c, n)}
<1>. HIDE DEF Step
<1>1. 0 \in S
  <2>1. Is([i \in 0..0 |-> <<>>], 0)  OBVIOUS
  <2>. QED  BY <2>1
<1>2. ASSUME NEW n \in Nat, n \in S PROVE n + 1 \in S
  <2>1. PICK c : Is(c, n)  BY <1>2
  <2>. DEFINE d == [i \in 0..(n + 1) |-> IF i = n + 1 THEN Step(c[n], n + 1) ELSE c[i]]
              e == [i \in 0..(n + 1) |-> IF i = 0 THEN <<>> ELSE Step(d[i - 1], i)]
  <2>2. \A i \in 0..n : d[i] = c[i] /\ c[i] = IF i = 0 THEN <<>> ELSE Step(c[i - 1], i)  BY <2>1
  <2>3. ASSUME NEW i \in 0..(n + 1) PROVE d[i] = e[i]
    <3>1. CASE i = 0
      <4>1. 0 \in 0..n  OBVIOUS
      <4>2. d[0] = c[0] /\ c[0] = IF 0 = 0 THEN <<>> ELSE Step(c[0 - 1], 0)  BY <4>1, <2>2
      <4>. QED  BY <3>1, <4>2
    <3>2. CASE i \in 1..n
      <4>1. i \in 0..n /\ i - 1 \in 0..n /\ i # 0  BY <3>2
      <4>2. d[i] = Step(c[i - 1], i) /\ d[i - 1] = c[i - 1]  BY <4>1, <2>2
      <4>. QED  BY <4>1, <4>2
    <3>3. CASE i = n + 1
      <4>1. i # 0 /\ i - 1 = n /\ n \in 0..n  BY <3>3
      <4>2. d[i] = Step(c[n], n + 1) /\ d[n] = c[n]  BY <4>1, <2>2, <3>3
      <4>. QED  BY <4>1, <4>2, <3>3
    <3>. QED  BY <3>1, <3>2, <3>3
  <2>4. d = e  BY <2>3
  <2>5. Is(d, n + 1)  BY <2>4
  <2>. HIDE DEF Is
  <2>. QED  BY <2>5
<1>3. Len(lines) \in S
  <2>. HIDE DEF S
  <2>. QED  BY <1>1, <1>2, NatSets
<1>4. PICK c : c = CHOOSE x : Is(x, Len(lines))  OBVIOUS
<1>5. Is(c, Len(lines))
  <2>. HIDE DEF Is
  <2>. QED  BY <1>3, <1>4
<1>6. TokensIn(lines) = c[Len(lines)]  BY <1>4 DEF TokensIn, Step
<1>7. c[0] = <<>> /\ \A i \in 1..Len(lines) : c[i] = Step(c[i - 1], i)
  <2>1. 0 \in 0..Len(lines) /\ \A i \in 1..Len(lines) : i \in 0..Len(lines) /\ i # 0  OBVIOUS
  <2>. QED  BY <1>5, <2>1
<1>. QED  BY <1>6, <1>7 DEF Step

\* readOneOption() serves one argument after the other.
LEMMA TakenSteps ==
    ASSUME NEW p, NEW o, NEW inline, Len(Option(o).arguments) \in Nat
    PROVE  \E c : /\ c[0] = Untaken(p)
                  /\ \A i \in 1..Len(Option(o).arguments) : c[i] = TakeValues(c[i - 1], o, Option(o).arguments[i], inline)
                  /\ Taken(p, o, inline) = c[Len(Option(o).arguments)]
<1>. DEFINE Step(q, i) == TakeValues(q, o, Option(o).arguments[i], inline)
            Is(c, n) == c = [i \in 0..n |-> IF i = 0 THEN Untaken(p) ELSE Step(c[i - 1], i)]
            S == {n \in Nat : \E c : Is(c, n)}
<1>. HIDE DEF Step
<1>1. 0 \in S
  <2>1. Is([i \in 0..0 |-> Untaken(p)], 0)  OBVIOUS
  <2>. QED  BY <2>1
<1>2. ASSUME NEW n \in Nat, n \in S PROVE n + 1 \in S
  <2>1. PICK c : Is(c, n)  BY <1>2
  <2>. DEFINE d == [i \in 0..(n + 1) |-> IF i = n + 1 THEN Step(c[n], n + 1) ELSE c[i]]
              e == [i \in 0..(n + 1) |-> IF i = 0 THEN Untaken(p) ELSE Step(d[i - 1], i)]
  <2>2. \A i \in 0..n : d[i] = c[i] /\ c[i] = IF i = 0 THEN Untaken(p) ELSE Step(c[i - 1], i)  BY <2>1
  <2>3. ASSUME NEW i \in 0..(n + 1) PROVE d[i] = e[i]
    <3>1. CASE i = 0
      <4>1. 0 \in 0..n  OBVIOUS
      <4>2. d[0] = c[0] /\ c[0] = IF 0 = 0 THEN Untaken(p) ELSE Step(c[0 - 1], 0)  BY <4>1, <2>2
      <4>. QED  BY <3>1, <4>2
    <3>2. CASE i \in 1..n
      <4>1. i \in 0..n /\ i - 1 \in 0..n /\ i # 0  BY <3>2
      <4>2. d[i] = Step(c[i - 1], i) /\ d[i - 1] = c[i - 1]  BY <4>1, <2>2
      <4>. QED  BY <4>1, <4>2
    <3>3. CASE i = n + 1
      <4>1. i # 0 /\ i - 1 = n /\ n \in 0..n  BY <3>3
      <4>2. d[i] = Step(c[n], n + 1) /\ d[n] = c[n]  BY <4>1, <2>2, <3>3
      <4>. QED  BY <4>1, <4>2, <3>3
    <3>. QED  BY <3>1, <3>2, <3>3
  <2>4. d = e  BY <2>3
  <2>5. Is(d, n + 1)  BY <2>4
  <2>. HIDE DEF Is
  <2>. QED  BY <2>5
<1>3. Len(Option(o).arguments) \in S
  <2>. HIDE DEF S
  <2>. QED  BY <1>1, <1>2, NatSets
<1>4. PICK c : c = CHOOSE x : Is(x, Len(Option(o).arguments))  OBVIOUS
<1>5. Is(c, Len(Option(o).arguments))
  <2>. HIDE DEF Is
  <2>. QED  BY <1>3, <1>4
<1>6. Taken(p, o, inline) = c[Len(Option(o).arguments)]  BY <1>4 DEF Taken, Step
<1>7. c[0] = Untaken(p) /\ \A i \in 1..Len(Option(o).arguments) : c[i] = Step(c[i - 1], i)
  <2>1. 0 \in 0..Len(Option(o).arguments) /\ \A i \in 1..Len(Option(o).arguments) : i \in 0..Len(Option(o).arguments) /\ i # 0  OBVIOUS
  <2>. QED  BY <1>5, <2>1
<1>. QED  BY <1>6, <1>7 DEF Step

\* assignPositional() serves one argument after the other.
LEMMA AssignedSteps ==
    ASSUME Len(Declared) \in Nat
    PROVE  \E c : /\ c[0] = Unassigned
                  /\ \A i \in 1..Len(Declared) : c[i] = Assign(c[i - 1], i)
                  /\ Assigned = c[Len(Declared)]
<1>. DEFINE Step(p, i) == Assign(p, i)
            Is(c, n) == c = [i \in 0..n |-> IF i = 0 THEN Unassigned ELSE Step(c[i - 1], i)]
            S == {n \in Nat : \E c : Is(c, n)}
<1>. HIDE DEF Step
<1>1. 0 \in S
  <2>1. Is([i \in 0..0 |-> Unassigned], 0)  OBVIOUS
  <2>. QED  BY <2>1
<1>2. ASSUME NEW n \in Nat, n \in S PROVE n + 1 \in S
  <2>1. PICK c : Is(c, n)  BY <1>2
  <2>. DEFINE d == [i \in 0..(n + 1) |-> IF i = n + 1 THEN Step(c[n], n + 1) ELSE c[i]]
              e == [i \in 0..(n + 1) |-> IF i = 0 THEN Unassigned ELSE Step(d[i - 1], i)]
  <2>2. \A i \in 0..n : d[i] = c[i] /\ c[i] = IF i = 0 THEN Unassigned ELSE Step(c[i - 1], i)  BY <2>1
  <2>3. ASSUME NEW i \in 0..(n + 1) PROVE d[i] = e[i]
    <3>1. CASE i = 0
      <4>1. 0 \in 0..n  OBVIOUS
      <4>2. d[0] = c[0] /\ c[0] = IF 0 = 0 THEN Unassigned ELSE Step(c[0 - 1], 0)  BY <4>1, <2>2
      <4>. QED  BY <3>1, <4>2
    <3>2. CASE i \in 1..n
      <4>1. i \in 0..n /\ i - 1 \in 0..n /\ i # 0  BY <3>2
      <4>2. d[i] = Step(c[i - 1], i) /\ d[i - 1] = c[i - 1]  BY <4>1, <2>2
      <4>. QED  BY <4>1, <4>2
    <3>3. CASE i = n + 1
      <4>1. i # 0 /\ i - 1 = n /\ n \in 0..n  BY <3>3
      <4>2. d[i] = Step(c[n], n + 1) /\ d[n] = c[n]  BY <4>1, <2>2, <3>3
      <4>. QED  BY <4>1, <4>2, <3>3
    <3>. QED  BY <3>1, <3>2, <3>3
  <2>4. d = e  BY <2>3
  <2>5. Is(d, n + 1)  BY <2>4
  <2>. HIDE DEF Is
  <2>. QED  BY <2>5
<1>3. Len(Declared) \in S
  <2>. HIDE DEF S
  <2>. QED  BY <1>1, <1>2, NatSets
<1>4. PICK c : c = CHOOSE x : Is(x, Len(Declared))  OBVIOUS
<1>5. Is(c, Len(Declared))
  <2>. HIDE DEF Is
  <2>. QED  BY <1>3, <1>4
<1>6. Assigned = c[Len(Declared)]  BY <1>4 DEF Assigned, Step
<1>7. c[0] = Unassigned /\ \A i \in 1..Len(Declared) : c[i] = Step(c[i - 1], i)
  <2>1. 0 \in 0..Len(Declared) /\ \A i \in 1..Len(Declared) : i \in 0..Len(Declared) /\ i # 0  OBVIOUS
  <2>. QED  BY <1>5, <2>1
<1>. QED  BY <1>6, <1>7 DEF Step

\* readOptionToken() reads the options a token names one after the other.
LEMMA ReadSteps ==
    ASSUME NEW meaning, Len(meaning.which) \in Nat
    PROVE  \E c : /\ c[0] = Unread
                  /\ \A i \in 1..Len(meaning.which) : c[i] = ReadOne(c[i - 1], meaning.which[i], meaning.inline)
                  /\ Read(meaning) = c[Len(meaning.which)]
<1>. DEFINE Step(p, i) == ReadOne(p, meaning.which[i], meaning.inline)
            Is(c, n) == c = [i \in 0..n |-> IF i = 0 THEN Unread ELSE Step(c[i - 1], i)]
            S == {n \in Nat : \E c : Is(c, n)}
<1>. HIDE DEF Step
<1>1. 0 \in S
  <2>1. Is([i \in 0..0 |-> Unread], 0)  OBVIOUS
  <2>. QED  BY <2>1
<1>2. ASSUME NEW n \in Nat, n \in S PROVE n + 1 \in S
  <2>1. PICK c : Is(c, n)  BY <1>2
  <2>. DEFINE d == [i \in 0..(n + 1) |-> IF i = n + 1 THEN Step(c[n], n + 1) ELSE c[i]]
              e == [i \in 0..(n + 1) |-> IF i = 0 THEN Unread ELSE Step(d[i - 1], i)]
  <2>2. \A i \in 0..n : d[i] = c[i] /\ c[i] = IF i = 0 THEN Unread ELSE Step(c[i - 1], i)  BY <2>1
  <2>3. ASSUME NEW i \in 0..(n + 1) PROVE d[i] = e[i]
    <3>1. CASE i = 0
      <4>1. 0 \in 0..n  OBVIOUS
      <4>2. d[0] = c[0] /\ c[0] = IF 0 = 0 THEN Unread ELSE Step(c[0 - 1], 0)  BY <4>1, <2>2
      <4>. QED  BY <3>1, <4>2
    <3>2. CASE i \in 1..n
      <4>1. i \in 0..n /\ i - 1 \in 0..n /\ i # 0  BY <3>2
      <4>2. d[i] = Step(c[i - 1], i) /\ d[i - 1] = c[i - 1]  BY <4>1, <2>2
      <4>. QED  BY <4>1, <4>2
    <3>3. CASE i = n + 1
      <4>1. i # 0 /\ i - 1 = n /\ n \in 0..n  BY <3>3
      <4>2. d[i] = Step(c[n], n + 1) /\ d[n] = c[n]  BY <4>1, <2>2, <3>3
      <4>. QED  BY <4>1, <4>2, <3>3
    <3>. QED  BY <3>1, <3>2, <3>3
  <2>4. d = e  BY <2>3
  <2>5. Is(d, n + 1)  BY <2>4
  <2>. HIDE DEF Is
  <2>. QED  BY <2>5
<1>3. Len(meaning.which) \in S
  <2>. HIDE DEF S
  <2>. QED  BY <1>1, <1>2, NatSets
<1>4. PICK c : c = CHOOSE x : Is(x, Len(meaning.which))  OBVIOUS
<1>5. Is(c, Len(meaning.which))
  <2>. HIDE DEF Is
  <2>. QED  BY <1>3, <1>4
<1>6. Read(meaning) = c[Len(meaning.which)]  BY <1>4 DEF Read, Step
<1>7. c[0] = Unread /\ \A i \in 1..Len(meaning.which) : c[i] = Step(c[i - 1], i)
  <2>1. 0 \in 0..Len(meaning.which) /\ \A i \in 1..Len(meaning.which) : i \in 0..Len(meaning.which) /\ i # 0  OBVIOUS
  <2>. QED  BY <1>5, <2>1
<1>. QED  BY <1>6, <1>7 DEF Step

\* The result walks down one name after the other.
LEMMA WalkedSteps ==
    ASSUME NEW names, Len(names) - 1 \in Nat
    PROVE  \E c : /\ c[0] = AtRoot
                  /\ \A i \in 1..(Len(names) - 1) : c[i] = Below(c[i - 1], names[i + 1])
                  /\ Walked(names) = c[Len(names) - 1]
<1>. DEFINE Step(p, i) == Below(p, names[i + 1])
            Is(c, n) == c = [i \in 0..n |-> IF i = 0 THEN AtRoot ELSE Step(c[i - 1], i)]
            S == {n \in Nat : \E c : Is(c, n)}
<1>. HIDE DEF Step
<1>1. 0 \in S
  <2>1. Is([i \in 0..0 |-> AtRoot], 0)  OBVIOUS
  <2>. QED  BY <2>1
<1>2. ASSUME NEW n \in Nat, n \in S PROVE n + 1 \in S
  <2>1. PICK c : Is(c, n)  BY <1>2
  <2>. DEFINE d == [i \in 0..(n + 1) |-> IF i = n + 1 THEN Step(c[n], n + 1) ELSE c[i]]
              e == [i \in 0..(n + 1) |-> IF i = 0 THEN AtRoot ELSE Step(d[i - 1], i)]
  <2>2. \A i \in 0..n : d[i] = c[i] /\ c[i] = IF i = 0 THEN AtRoot ELSE Step(c[i - 1], i)  BY <2>1
  <2>3. ASSUME NEW i \in 0..(n + 1) PROVE d[i] = e[i]
    <3>1. CASE i = 0
      <4>1. 0 \in 0..n  OBVIOUS
      <4>2. d[0] = c[0] /\ c[0] = IF 0 = 0 THEN AtRoot ELSE Step(c[0 - 1], 0)  BY <4>1, <2>2
      <4>. QED  BY <3>1, <4>2
    <3>2. CASE i \in 1..n
      <4>1. i \in 0..n /\ i - 1 \in 0..n /\ i # 0  BY <3>2
      <4>2. d[i] = Step(c[i - 1], i) /\ d[i - 1] = c[i - 1]  BY <4>1, <2>2
      <4>. QED  BY <4>1, <4>2
    <3>3. CASE i = n + 1
      <4>1. i # 0 /\ i - 1 = n /\ n \in 0..n  BY <3>3
      <4>2. d[i] = Step(c[n], n + 1) /\ d[n] = c[n]  BY <4>1, <2>2, <3>3
      <4>. QED  BY <4>1, <4>2, <3>3
    <3>. QED  BY <3>1, <3>2, <3>3
  <2>4. d = e  BY <2>3
  <2>5. Is(d, n + 1)  BY <2>4
  <2>. HIDE DEF Is
  <2>. QED  BY <2>5
<1>3. (Len(names) - 1) \in S
  <2>. HIDE DEF S
  <2>. QED  BY <1>1, <1>2, NatSets
<1>4. PICK c : c = CHOOSE x : Is(x, (Len(names) - 1))  OBVIOUS
<1>5. Is(c, (Len(names) - 1))
  <2>. HIDE DEF Is
  <2>. QED  BY <1>3, <1>4
<1>6. Walked(names) = c[Len(names) - 1]  BY <1>4 DEF Walked, Step
<1>7. c[0] = AtRoot /\ \A i \in 1..(Len(names) - 1) : c[i] = Step(c[i - 1], i)
  <2>1. 0 \in 0..(Len(names) - 1) /\ \A i \in 1..(Len(names) - 1) : i \in 0..(Len(names) - 1) /\ i # 0  OBVIOUS
  <2>. QED  BY <1>5, <2>1
<1>. QED  BY <1>6, <1>7 DEF Step

\* FlattenSeq() appends one sequence after the other.
LEMMA FlattenSteps ==
    ASSUME NEW l, Len(l) \in Nat \ {0}
    PROVE  \E c : /\ c[1] = l[1] /\ \A i \in 2..Len(l) : c[i] = c[i - 1] \o l[i]
                  /\ FlattenSeq(l) = c[Len(l)]
<1>. DEFINE Step(q, i) == q \o l[i]
            Is(c, n) == c = [i \in 1..n |-> IF i = 1 THEN l[i] ELSE Step(c[i - 1], i)]
            S == {n \in Nat : n = 0 \/ \E c : Is(c, n)}
<1>. HIDE DEF Step
<1>1. 0 \in S  OBVIOUS
<1>2. ASSUME NEW n \in Nat, n \in S PROVE n + 1 \in S
  <2>1. CASE n = 0
    <3>1. Is([i \in 1..1 |-> l[1]], 1)  OBVIOUS
    <3>. HIDE DEF Is
    <3>. QED  BY <3>1, <2>1
  <2>2. CASE n # 0
    <3>1. PICK c : Is(c, n)  BY <1>2, <2>2
    <3>. DEFINE d == [i \in 1..(n + 1) |-> IF i = n + 1 THEN Step(c[n], n + 1) ELSE c[i]]
                e == [i \in 1..(n + 1) |-> IF i = 1 THEN l[i] ELSE Step(d[i - 1], i)]
    <3>2. \A i \in 1..n : d[i] = c[i] /\ c[i] = IF i = 1 THEN l[i] ELSE Step(c[i - 1], i)  BY <3>1
    <3>3. ASSUME NEW i \in 1..(n + 1) PROVE d[i] = e[i]
      <4>1. CASE i = 1
        <5>1. 1 \in 1..n  BY <2>2
        <5>2. d[1] = c[1] /\ c[1] = IF 1 = 1 THEN l[1] ELSE Step(c[1 - 1], 1)  BY <5>1, <3>2
        <5>. QED  BY <4>1, <5>2
      <4>2. CASE i \in 2..n
        <5>1. i \in 1..n /\ i - 1 \in 1..n /\ i # 1  BY <4>2
        <5>2. d[i] = Step(c[i - 1], i) /\ d[i - 1] = c[i - 1]  BY <5>1, <3>2
        <5>. QED  BY <5>1, <5>2
      <4>3. CASE i = n + 1
        <5>1. i # 1 /\ i - 1 = n /\ n \in 1..n  BY <4>3, <2>2
        <5>2. d[i] = Step(c[n], n + 1) /\ d[n] = c[n]  BY <5>1, <3>2, <4>3
        <5>. QED  BY <5>1, <5>2, <4>3
      <4>. QED  BY <4>1, <4>2, <4>3
    <3>4. d = e  BY <3>3
    <3>5. Is(d, n + 1)  BY <3>4
    <3>. HIDE DEF Is
    <3>. QED  BY <3>5
  <2>. QED  BY <2>1, <2>2
<1>3. Len(l) \in S
  <2>. HIDE DEF S
  <2>. QED  BY <1>1, <1>2, NatSets
<1>4. PICK c : c = CHOOSE x : Is(x, Len(l))  OBVIOUS
<1>5. Is(c, Len(l))
  <2>. HIDE DEF Is
  <2>. QED  BY <1>3, <1>4
<1>6. FlattenSeq(l) = c[Len(l)]  BY <1>4 DEF FlattenSeq, Step
<1>7. c[1] = l[1] /\ \A i \in 2..Len(l) : c[i] = Step(c[i - 1], i)
  <2>1. 1 \in 1..Len(l) /\ \A i \in 2..Len(l) : i \in 1..Len(l) /\ i # 1  OBVIOUS
  <2>. QED  BY <1>5, <2>1
<1>. QED  BY <1>6, <1>7 DEF Step

-----------------------------------------------------------------------------
(* Lists and trees. *)

Commands == DOMAIN Trees[call.tree].command
Known == DOMAIN Trees[call.tree].option

LEMMA TreeFacts ==
    ASSUME call \in Cases
    PROVE  /\ Trees[call.tree].root \in Commands
           /\ \A c \in Commands : /\ Command(c).options \in Seq(Known)
                                 /\ Command(c).commands \in Seq(Commands)
                                 /\ AreArguments(Command(c).arguments)
           /\ \A o \in Known : Option(o).prior \in 0..6
BY TreesCanBeDeclared DEF IsTree, Commands, Known, Command, Option, NoPrior, ExclusiveToAll

LEMMA ListFacts ==
    ASSUME NEW l, IsList(l)
    PROVE  Len(l) \in Nat /\ DOMAIN l = 1..Len(l) /\ l = [i \in 1..Len(l) |-> l[i]]
BY LenProperties DEF IsList

LEMMA ListOf == ASSUME NEW S, NEW l \in Seq(S) PROVE IsList(l)
<1>1. Len(l) \in Nat /\ DOMAIN l = 1..Len(l)  BY LenProperties
<1>2. \A i \in 1..Len(l) : l[i] \in Range(l)  BY <1>1 DEF Range
<1>3. l = [i \in 1..Len(l) |-> l[i]]  BY LenProperties
<1>. QED  BY <1>1, <1>2, <1>3 DEF IsList

LEMMA Appended ==
    ASSUME NEW l, IsList(l), NEW x
    PROVE  /\ IsList(Append(l, x)) /\ Len(Append(l, x)) = Len(l) + 1
           /\ \A i \in 1..Len(l) : Append(l, x)[i] = l[i]
           /\ Append(l, x)[Len(l) + 1] = x
<1>. DEFINE S == Range(l) \cup {x}
<1>1. l \in Seq(S) /\ x \in S  BY SeqMonotonic DEF IsList
<1>. HIDE DEF S
<1>2. Append(l, x) \in Seq(S)  BY <1>1, AppendProperties
<1>3. IsList(Append(l, x))  BY <1>2, ListOf
<1>4. /\ Len(Append(l, x)) = Len(l) + 1
      /\ \A i \in 1..Len(l) : Append(l, x)[i] = l[i]
      /\ Append(l, x)[Len(l) + 1] = x
      BY <1>1, AppendProperties
<1>. QED  BY <1>3, <1>4

-----------------------------------------------------------------------------
(* What is collected, and the spellings. *)

Listed(opts) ==
    /\ IsList(opts)
    /\ \A i \in 1..Len(opts) :
           /\ opts[i].option \in Known
           /\ opts[i] = [option |-> opts[i].option, occurrences |-> opts[i].occurrences]

\* One list begins as another; what is new has not occurred.
Extends(new, opts) ==
    /\ Len(opts) <= Len(new)
    /\ \A i \in 1..Len(opts) : new[i] = opts[i]
    /\ \A i \in (Len(opts) + 1)..Len(new) : new[i].occurrences = <<>>

LEMMA CollectExtends ==
    ASSUME NEW opts, Listed(opts), NEW old, Extends(opts, old), Len(old) \in Nat, NEW o \in Known
    PROVE  Listed(Collect(opts, o)) /\ Extends(Collect(opts, o), old)
<1>. DEFINE x == [option |-> o, occurrences |-> <<>>]
            new == Append(opts, x)
<1>1. CASE Collect(opts, o) = opts  BY <1>1
<1>2. CASE Collect(opts, o) = new
  <2>1. x.option = o /\ x.occurrences = <<>>  OBVIOUS
  <2>2. IsList(opts) /\ Len(opts) \in Nat  BY ListFacts DEF Listed
  <2>. HIDE DEF x
  <2>3. /\ IsList(new) /\ Len(new) = Len(opts) + 1
        /\ \A i \in 1..Len(opts) : new[i] = opts[i]
        /\ new[Len(opts) + 1] = x
        BY <2>2, Appended
  <2>. HIDE DEF new
  <2>4. \A i \in 1..Len(new) : i \in 1..Len(opts) \/ i = Len(opts) + 1  BY <2>2, <2>3
  <2>5. x = [option |-> x.option, occurrences |-> x.occurrences]  BY DEF x
  <2>6. Listed(new)
    <3>1. \A i \in 1..Len(new) :
              /\ new[i].option \in Known
              /\ new[i] = [option |-> new[i].option, occurrences |-> new[i].occurrences]
      <4>. SUFFICES ASSUME NEW i \in 1..Len(new)
                    PROVE  /\ new[i].option \in Known
                           /\ new[i] = [option |-> new[i].option, occurrences |-> new[i].occurrences]
           OBVIOUS
      <4>1. CASE i \in 1..Len(opts)  BY <4>1, <2>3 DEF Listed
      <4>2. CASE i = Len(opts) + 1  BY <4>2, <2>1, <2>3, <2>5
      <4>. QED  BY <2>4, <4>1, <4>2
    <3>. QED  BY <2>3, <3>1 DEF Listed
  <2>7. Extends(new, old)  BY <2>1, <2>2, <2>3, <2>4 DEF Extends
  <2>. QED  BY <1>2, <2>6, <2>7
<1>. QED  BY <1>1, <1>2 DEF Collect

LEMMA CollectedExtends ==
    ASSUME NEW opts, Listed(opts), NEW l \in Seq(Known)
    PROVE  Listed(Collected(opts, l)) /\ Extends(Collected(opts, l), opts)
<1>1. Len(l) \in Nat /\ Len(opts) \in Nat /\ \A i \in 1..Len(l) : l[i] \in Known
      BY ListFacts DEF Listed
<1>2. PICK c : /\ c[0] = opts /\ \A i \in 1..Len(l) : c[i] = Collect(c[i - 1], l[i])
               /\ Collected(opts, l) = c[Len(l)]
      BY <1>1, CollectedSteps
<1>. DEFINE Good(n) == Listed(c[n]) /\ Extends(c[n], opts)
            S == {n \in Nat : n <= Len(l) => Good(n)}
<1>. HIDE DEF Good
<1>3. 0 \in S
  <2>1. Extends(opts, opts)  BY <1>1 DEF Extends
  <2>. QED  BY <1>2, <2>1 DEF Good
<1>4. ASSUME NEW n \in Nat, n \in S PROVE n + 1 \in S
  <2>. SUFFICES ASSUME n + 1 <= Len(l) PROVE Good(n + 1)  OBVIOUS
  <2>1. Good(n)  BY <1>1, <1>4
  <2>2. n + 1 \in 1..Len(l) /\ (n + 1) - 1 = n  BY <1>1
  <2>3. c[n + 1] = Collect(c[n], l[n + 1]) /\ l[n + 1] \in Known  BY <1>1, <1>2, <2>2
  <2>. QED  BY <1>1, <2>1, <2>3, CollectExtends DEF Good
<1>5. Len(l) \in S
  <2>. HIDE DEF S
  <2>. QED  BY <1>1, <1>3, <1>4, NatSets
<1>. QED  BY <1>1, <1>2, <1>5 DEF Good

\* A spelling leads to an option in scope.
Spells(by, opts, l) ==
    \A token \in DOMAIN by :
        /\ by[token] \in 0..Len(opts)
        /\ by[token] # 0 => opts[by[token]].option \in Range(l)

LEMMA SpelledSpells ==
    ASSUME NEW opts, Len(opts) \in Nat, NEW l \in Seq(Known)
    PROVE  Spells(Spelled(opts, l), opts, l)
<1>1. Len(l) \in Nat /\ DOMAIN l = 1..Len(l)  BY LenProperties
<1>. SUFFICES ASSUME NEW token \in UNION {Range(Option(o).tokens) : o \in Range(l)},
                     NEW at, at = Spelled(opts, l)[token]
              PROVE  at \in 0..Len(opts) /\ (at # 0 => opts[at].option \in Range(l))
     BY DEF Spells, Spelled
<1>. DEFINE I == {i \in 1..Len(l) : token \in Range(Option(l[i]).tokens)}
<1>2. I \in SUBSET (1..Len(l)) /\ I # {}  BY <1>1 DEF Range
<1>3. PICK o : o = l[Max(I)]  OBVIOUS
<1>4. o \in Range(l)
  <2>. HIDE DEF I
  <2>1. Max(I) \in 1..Len(l)  BY <1>1, <1>2, Picked
  <2>. QED  BY <1>1, <1>3, <2>1 DEF Range
<1>. DEFINE J == {i \in 1..Len(opts) : opts[i].option = o}
<1>5. SelectLastInSeq(l, LAMBDA x : token \in Range(Option(x).tokens)) = Max(I)
      BY <1>2 DEF SelectLastInSeq
<1>6. at = IF J # {} THEN Min(J) ELSE 0
      BY <1>3, <1>5 DEF Spelled, SelectInSeq
<1>7. J \in SUBSET (1..Len(opts)) /\ \A j \in J : opts[j].option = o  OBVIOUS
<1>. HIDE DEF I, J
<1>8. CASE J = {}  BY <1>6, <1>8
<1>9. CASE J # {}
  <2>1. Min(J) \in J  BY <1>7, <1>9, Picked
  <2>2. at \in J  BY <1>6, <1>9, <2>1, Zenon
  <2>3. at \in 1..Len(opts) /\ opts[at].option = o  BY <1>7, <2>2
  <2>. QED  BY <1>4, <2>3
<1>. QED  BY <1>8, <1>9

LEMMA GlobalsKnown ==
    ASSUME call \in Cases, NEW d \in Commands
    PROVE  Globals(d) \in Seq(Known)
<1>. DEFINE l == Command(d).options
<1>1. l \in Seq(Known) /\ Len(l) \in Nat /\ \A i \in 1..Len(l) : l[i] \in Known
      BY TreeFacts, LenProperties, ElementOfSeq
<1>2. PICK c : /\ c[0] = <<>> /\ \A i \in 1..Len(l) : c[i] = KeepGlobal(c[i - 1], l[i])
               /\ Globals(d) = c[Len(l)]
      BY <1>1, GlobalSteps
<1>. DEFINE S == {n \in Nat : n <= Len(l) => c[n] \in Seq(Known)}
<1>. HIDE DEF l
<1>3. 0 \in S
  <2>1. <<>> \in Seq(Known)  OBVIOUS
  <2>2. c[0] \in Seq(Known)  BY <1>2, <2>1
  <2>. QED  BY <2>2
<1>4. ASSUME NEW n \in Nat, n \in S PROVE n + 1 \in S
  <2>. SUFFICES ASSUME n + 1 <= Len(l) PROVE c[n + 1] \in Seq(Known)  OBVIOUS
  <2>1. c[n] \in Seq(Known)  BY <1>1, <1>4
  <2>2. n + 1 \in 1..Len(l) /\ (n + 1) - 1 = n  BY <1>1
  <2>3. c[n + 1] = KeepGlobal(c[n], l[n + 1]) /\ l[n + 1] \in Known  BY <1>1, <1>2, <2>2
  <2>4. Append(c[n], l[n + 1]) \in Seq(Known)  BY <2>1, <2>3, AppendProperties
  <2>. QED  BY <2>1, <2>3, <2>4 DEF KeepGlobal
<1>5. Len(l) \in S
  <2>. HIDE DEF S
  <2>. QED  BY <1>1, <1>3, <1>4, NatSets
<1>. QED  BY <1>1, <1>2, <1>5

-----------------------------------------------------------------------------
(* The scope. *)

\* What is in scope is known, and a spelling leads to an option in scope.
ScopeInv ==
    /\ call \in Cases /\ target \in Commands /\ inherited \in Seq(Known)
    /\ Listed(options) /\ Spells(byToken, options, InScope(target, inherited))

LEMMA ScopeFacts ==
    ASSUME call \in Cases, NEW d \in Commands, NEW globals \in Seq(Known)
    PROVE  InScope(d, globals) \in Seq(Known)
BY TreeFacts, ConcatProperties DEF InScope

LEMMA CollectOptionsKeeps ==
    ASSUME ScopeInv, NEW d \in Commands, NEW globals \in Seq(Known), CollectOptions(d, globals)
    PROVE  /\ Listed(options') /\ Extends(options', options)
           /\ Spells(byToken', options', InScope(d, globals))
<1>. DEFINE l == InScope(d, globals)
<1>1. l \in Seq(Known)  BY ScopeFacts DEF ScopeInv
<1>2. options' = Collected(options, l) /\ byToken' = Spelled(options', l)  BY DEF CollectOptions
<1>3. Listed(options') /\ Extends(options', options)  BY <1>1, <1>2, CollectedExtends DEF ScopeInv
<1>4. Len(options') \in Nat  BY <1>3, ListFacts DEF Listed
<1>. HIDE DEF l
<1>5. Spells(Spelled(options', l), options', l)  BY <1>1, <1>4, SpelledSpells
<1>. QED  BY <1>2, <1>3, <1>5 DEF l

-----------------------------------------------------------------------------
(* The tokens are texts, those of response files too. *)

LEMMA LineFacts ==
    ASSUME NEW l, IsLine(l)
    PROVE  Len(l) \in Nat /\ DOMAIN l = 1..Len(l) /\ \A i \in 1..Len(l) : IsList(l[i])
BY ListFacts DEF IsLine, Range

LEMMA LineOf ==
    ASSUME NEW l, IsList(l), \A i \in 1..Len(l) : IsList(l[i])
    PROVE  IsLine(l)
BY ListFacts DEF IsLine, Range

LEMMA LinesJoined ==
    ASSUME NEW a, IsLine(a), NEW b, IsLine(b)
    PROVE  IsLine(a \o b)
<1>. DEFINE S == Range(a) \cup Range(b)
<1>1. a \in Seq(S) /\ b \in Seq(S)  BY SeqMonotonic DEF IsLine, IsList
<1>2. \A text \in S : IsList(text)  BY DEF IsLine
<1>. HIDE DEF S
<1>3. a \o b \in Seq(S)  BY <1>1, ConcatProperties
<1>4. IsList(a \o b)  BY <1>3, ListOf
<1>5. Range(a \o b) \subseteq S  BY <1>3, LenProperties DEF Range
<1>. QED  BY <1>2, <1>4, <1>5 DEF IsLine

LEMMA Flattened ==
    ASSUME NEW l, IsList(l), \A i \in 1..Len(l) : IsLine(l[i])
    PROVE  IsLine(FlattenSeq(l))
<1>1. Len(l) \in Nat  BY ListFacts
<1>2. CASE Len(l) = 0
  <2>1. FlattenSeq(l) = l  BY <1>2 DEF FlattenSeq
  <2>. QED  BY <1>2, <2>1, LineOf
<1>3. CASE Len(l) # 0
  <2>1. PICK c : /\ c[1] = l[1] /\ \A i \in 2..Len(l) : c[i] = c[i - 1] \o l[i]
                 /\ FlattenSeq(l) = c[Len(l)]
        BY <1>1, <1>3, FlattenSteps
  <2>. DEFINE S == {n \in Nat : n \in 1..Len(l) => IsLine(c[n])}
  <2>2. 0 \in S  OBVIOUS
  <2>3. ASSUME NEW n \in Nat, n \in S PROVE n + 1 \in S
    <3>. SUFFICES ASSUME n + 1 <= Len(l) PROVE IsLine(c[n + 1])  OBVIOUS
    <3>1. CASE n = 0  BY <1>1, <1>3, <2>1, <3>1
    <3>2. CASE n # 0
      <4>1. IsLine(c[n])  BY <1>1, <2>3, <3>2
      <4>2. n + 1 \in 2..Len(l) /\ n + 1 \in 1..Len(l) /\ (n + 1) - 1 = n  BY <1>1, <3>2
      <4>3. c[n + 1] = c[n] \o l[n + 1] /\ IsLine(l[n + 1])  BY <2>1, <4>2
      <4>. QED  BY <4>1, <4>3, LinesJoined
    <3>. QED  BY <3>1, <3>2
  <2>4. Len(l) \in S
    <3>. HIDE DEF S
    <3>. QED  BY <1>1, <2>2, <2>3, NatSets
  <2>. QED  BY <1>1, <1>3, <2>1, <2>4
<1>. QED  BY <1>2, <1>3

LEMMA Parts ==
    ASSUME NEW l, IsList(l)
    PROVE  /\ \A m, n \in 1..Len(l) : IsList(SubSeq(l, m, n))
           /\ l # <<>> => IsList(Tail(l))
<1>. DEFINE S == Range(l)
<1>1. l \in Seq(S)  BY DEF IsList
<1>2. Len(l) \in Nat /\ \A i \in 1..Len(l) : l[i] \in S  BY ListFacts DEF Range
<1>. HIDE DEF S
<1>3. ASSUME NEW m \in 1..Len(l), NEW n \in 1..Len(l) PROVE IsList(SubSeq(l, m, n))
  <2>1. m \in Int /\ n \in Int /\ \A i \in m..n : l[i] \in S  BY <1>2
  <2>2. SubSeq(l, m, n) \in Seq(S)  BY <2>1, SubSeqProperties
  <2>. QED  BY <2>2, ListOf
<1>4. ASSUME l # <<>> PROVE IsList(Tail(l))
  <2>1. Tail(l) \in Seq(S)  BY <1>1, <1>4, HeadTailProperties
  <2>. QED  BY <2>1, ListOf
<1>. QED  BY <1>3, <1>4

LEMMA TrimmedIsList == ASSUME NEW line, IsList(line) PROVE IsList(Trimmed(line))
<1>. DEFINE text == {i \in DOMAIN line : line[i] # " "}
<1>1. Len(line) \in Nat /\ text \in SUBSET (1..Len(line))  BY ListFacts
<1>2. CASE text = {}
  <2>1. Trimmed(line) = <<>>  BY <1>2 DEF Trimmed
  <2>2. <<>> \in Seq({})  OBVIOUS
  <2>. QED  BY <2>1, <2>2, ListOf
<1>3. CASE text # {}
  <2>1. Trimmed(line) = SubSeq(line, Min(text), Max(text))  BY <1>3 DEF Trimmed
  <2>. HIDE DEF text
  <2>2. Min(text) \in 1..Len(line) /\ Max(text) \in 1..Len(line)  BY <1>1, <1>3, Picked
  <2>. QED  BY <2>1, <2>2, Parts
<1>. QED  BY <1>2, <1>3

LEMMA UnquotedIsList == ASSUME NEW text, IsList(text) PROVE IsList(Unquoted(text))
<1>1. Len(text) \in Nat  BY ListFacts
<1>2. CASE Unquoted(text) = text  BY <1>2
<1>3. CASE Len(text) >= 2 /\ Unquoted(text) = SubSeq(text, 2, Len(text) - 1)
  <2>1. 2 \in 1..Len(text) /\ Len(text) - 1 \in 1..Len(text)  BY <1>1, <1>3
  <2>. QED  BY <1>3, <2>1, Parts
<1>. QED  BY <1>2, <1>3 DEF Unquoted

LEMMA TokensInIsLine == ASSUME NEW lines, IsLine(lines) PROVE IsLine(TokensIn(lines))
<1>1. Len(lines) \in Nat /\ DOMAIN lines = 1..Len(lines) /\ \A i \in 1..Len(lines) : IsList(lines[i])
      BY LineFacts
<1>2. PICK c : /\ c[0] = <<>>
               /\ \A i \in 1..Len(lines) : c[i] = KeepText(c[i - 1], Trimmed(WithoutMark(lines)[i]))
               /\ TokensIn(lines) = c[Len(lines)]
      BY <1>1, TokensInSteps
<1>. DEFINE S == {n \in Nat : n <= Len(lines) => IsLine(c[n])}
<1>3. 0 \in S
  <2>1. <<>> \in Seq({}) /\ Len(<<>>) = 0  OBVIOUS
  <2>2. IsList(<<>>)  BY <2>1, ListOf
  <2>3. IsLine(<<>>)  BY <2>1, <2>2, LineOf
  <2>. QED  BY <1>2, <2>3
<1>4. ASSUME NEW n \in Nat, n \in S PROVE n + 1 \in S
  <2>. SUFFICES ASSUME n + 1 <= Len(lines) PROVE IsLine(c[n + 1])  OBVIOUS
  <2>1. IsLine(c[n])  BY <1>1, <1>4
  <2>2. n + 1 \in 1..Len(lines) /\ (n + 1) - 1 = n  BY <1>1
  <2>3. PICK line : line = WithoutMark(lines)[n + 1]  OBVIOUS
  <2>4. IsList(line)
    <3>1. line = lines[n + 1] \/ (lines[n + 1] # <<>> /\ line = Tail(lines[n + 1]))
      <4>1. PICK k : k = n + 1 /\ k \in DOMAIN lines  BY <1>1, <2>2
      <4>2. line = IF k = 1 /\ lines[k] # <<>> /\ lines[k][1] = "mark" THEN Tail(lines[k]) ELSE lines[k]
            BY <2>3, <4>1 DEF WithoutMark
      <4>3. line = lines[k] \/ (lines[k] # <<>> /\ line = Tail(lines[k]))  BY <4>2, Zenon
      <4>. QED  BY <4>1, <4>3
    <3>. QED  BY <1>1, <2>2, <3>1, Parts
  <2>5. PICK text : text = Unquoted(Trimmed(line))  OBVIOUS
  <2>6. IsList(text)  BY <2>4, <2>5, TrimmedIsList, UnquotedIsList
  <2>7. c[n + 1] = c[n] \/ c[n + 1] = Append(c[n], text)  BY <1>2, <2>2, <2>3, <2>5 DEF KeepText
  <2>8. IsLine(Append(c[n], text))
    <3>1. PICK a : a = Append(c[n], text)  OBVIOUS
    <3>2. Len(c[n]) \in Nat /\ \A i \in 1..Len(c[n]) : IsList(c[n][i])  BY <2>1, LineFacts
    <3>3. /\ IsList(a) /\ Len(a) = Len(c[n]) + 1
          /\ \A i \in 1..Len(c[n]) : a[i] = c[n][i]
          /\ a[Len(c[n]) + 1] = text
          BY <2>1, <3>1, Appended DEF IsLine
    <3>4. \A i \in 1..Len(a) : IsList(a[i])  BY <2>6, <3>2, <3>3
    <3>. QED  BY <3>1, <3>3, <3>4, LineOf
  <2>. QED  BY <2>1, <2>7, <2>8
<1>5. Len(lines) \in S
  <2>. HIDE DEF S
  <2>. QED  BY <1>1, <1>3, <1>4, NatSets
<1>. QED  BY <1>1, <1>2, <1>5

LEMMA ExpandedIsLine == ASSUME IsLine(tokens), ~Unreadable PROVE IsLine(Expanded)
<1>. DEFINE l == [i \in DOMAIN tokens |->
                    IF NamesFile(tokens[i]) THEN TokensIn(Files[Tail(tokens[i])]) ELSE <<tokens[i]>>]
<1>1. Len(tokens) \in Nat /\ DOMAIN tokens = 1..Len(tokens) /\ \A i \in 1..Len(tokens) : IsList(tokens[i])
      BY LineFacts
<1>2. ASSUME NEW i \in 1..Len(tokens) PROVE IsLine(l[i])
  <2>1. CASE NamesFile(tokens[i])
    <3>1. tokens[i] \in Range(tokens)  BY <1>1 DEF Range
    <3>2. Tail(tokens[i]) \in DOMAIN Files  BY <2>1, <3>1 DEF Unreadable
    <3>3. IsLine(Files[Tail(tokens[i])])  BY <3>2, TreesCanBeDeclared
    <3>. QED  BY <1>1, <2>1, <3>3, TokensInIsLine
  <2>2. CASE ~NamesFile(tokens[i])
    <3>1. PICK t : t = tokens[i] /\ IsList(t)  BY <1>1
    <3>2. <<t>> \in Seq({t}) /\ Len(<<t>>) = 1 /\ <<t>>[1] = t  OBVIOUS
    <3>3. IsList(<<t>>)  BY <3>2, ListOf
    <3>4. IsLine(<<t>>)  BY <3>1, <3>2, <3>3, LineOf
    <3>. QED  BY <1>1, <2>2, <3>1, <3>4
  <2>. QED  BY <2>1, <2>2
<1>3. IsList(l) /\ Len(l) = Len(tokens)
  <2>1. l \in Seq(Range(l)) /\ Len(l) = Len(tokens)  BY <1>1 DEF Range
  <2>. QED  BY <2>1 DEF IsList
<1>4. Expanded = FlattenSeq(l)  BY DEF Expanded
<1>. HIDE DEF l
<1>. QED  BY <1>2, <1>3, <1>4, Flattened

-----------------------------------------------------------------------------
(* Reading an option: the tokens are not overrun. *)

LEMMA FreeFacts ==
    ASSUME Len(tokens) \in Nat, NEW p \in 1..(Len(tokens) + 1)
    PROVE  Free(p) \in 0..(Len(tokens) + 1 - p)
<1>. DEFINE S == {q \in p..Len(tokens) : LooksLikeOption(tokens[q]) /\ Lookup(tokens[q]) # 0}
                 \cup {Len(tokens) + 1}
<1>1. S \in SUBSET Nat /\ S # {} /\ \A q \in S : p <= q /\ q <= Len(tokens) + 1  OBVIOUS
<1>2. Free(p) = Min(S) - p  BY DEF Free
<1>. HIDE DEF S
<1>3. PICK m : m = Min(S) /\ m \in S  BY <1>1, Least
<1>4. m \in Nat /\ p <= m /\ m <= Len(tokens) + 1  BY <1>1, <1>3
<1>. QED  BY <1>2, <1>3, <1>4

LEMMA SetToSeqOne == ASSUME NEW x PROVE SetToSeq({x}) = <<x>>
<1>1. Cardinality({x}) = 1  BY FS_Singleton
<1>2. <<x>> \in [1..1 -> {x}] /\ IsInjective(<<x>>)  BY DEF IsInjective
<1>3. \A f \in [1..1 -> {x}] : f = <<x>>  OBVIOUS
<1>. QED  BY <1>1, <1>2, <1>3 DEF SetToSeq

\* What accepts() refuses, it refuses by one of its own errors, and what is not refused is kept.
LEMMA RefusalFacts ==
    ASSUME NEW values, Len(values) \in Nat, NEW argument, Range(argument.refuses) \subseteq Refusals
    PROVE  /\ Refusal(argument, values) \in Refusals \cup {"none"}
           /\ Refusal(argument, values) = "none" => Accepted(argument, values) = values
<1>. DEFINE I == {i \in 1..Len(values) : values[i] \in DOMAIN argument.refuses}
<1>1. Refused(argument, values) = IF I # {} THEN Min(I) ELSE 0  BY DEF Refused, SelectInSeq
<1>2. CASE I = {}
  <2>1. Refused(argument, values) = 0  BY <1>1, <1>2
  <2>. QED  BY <2>1 DEF Refusal, Accepted
<1>3. CASE I # {}
  <2>1. I \in SUBSET (1..Len(values)) /\ \A i \in I : i # 0 /\ values[i] \in DOMAIN argument.refuses
        OBVIOUS
  <2>. HIDE DEF I
  <2>2. Refused(argument, values) \in I  BY <1>1, <1>3, <2>1, Picked
  <2>3. PICK bad : bad = Refused(argument, values) /\ bad \in I  BY <2>2
  <2>4. Refusal(argument, values) = argument.refuses[values[bad]]  BY <2>1, <2>3 DEF Refusal
  <2>5. argument.refuses[values[bad]] \in Range(argument.refuses)  BY <2>1, <2>3 DEF Range
  <2>. QED  BY <2>4, <2>5 DEF Refusals
<1>. QED  BY <1>2, <1>3

\* A value joined to its option is one.
Joinable(inline) == inline = {} \/ \E x : inline = {x}

TakeErrors == Refusals \cup {"none", "MissingOptionArgument"}

LEMMA TakeValuesFacts ==
    ASSUME IsLine(tokens), NEW r, r.pos \in 1..(Len(tokens) + 1), r.error \in TakeErrors,
           NEW o, NEW argument, Range(argument.refuses) \subseteq Refusals,
           NEW inline, Joinable(inline)
    PROVE  /\ TakeValues(r, o, argument, inline).pos \in 1..(Len(tokens) + 1)
           /\ TakeValues(r, o, argument, inline).error \in TakeErrors
<1>0. Len(tokens) \in Nat /\ \A i \in 1..Len(tokens) : tokens[i] \in Range(tokens)
      BY LineFacts DEF Range
<1>1. PICK free : free = Free(r.pos) /\ free \in 0..(Len(tokens) + 1 - r.pos)  BY <1>0, FreeFacts
<1>2. Min({1, free}) \in {1, free} /\ Min({1, free}) <= free
  <2>1. {1, free} \in SUBSET Nat /\ {1, free} # {} /\ free \in {1, free}  BY <1>1
  <2>. QED  BY <2>1, Least
<1>3. PICK n : /\ n = IF argument.arity = "single" THEN Min({1, Free(r.pos)}) ELSE Free(r.pos)
               /\ n \in 0..(Len(tokens) + 1 - r.pos)
      BY <1>1, <1>2
<1>. DEFINE joined == r.slots = <<>> /\ inline # {}
            values == IF joined THEN SetToSeq(inline) ELSE SubSeq(tokens, r.pos, r.pos + n - 1)
            missing == values = <<>> /\ argument.required /\ Option(o).prior < IgnoreMissingArguments
            taken == [slots |-> Append(r.slots, values), pos |-> IF joined THEN r.pos ELSE r.pos + n,
                      error |-> IF missing THEN "MissingOptionArgument" ELSE Refusal(argument, values)]
<1>4. TakeValues(r, o, argument, inline) = IF r.error # "none" THEN r ELSE taken
      BY <1>3 DEF TakeValues
<1>5. Len(values) \in Nat
  <2>1. CASE joined
    <3>1. PICK x : inline = {x}  BY <2>1 DEF Joinable
    <3>2. values = <<x>> /\ Len(<<x>>) = 1  BY <2>1, <3>1, SetToSeqOne
    <3>. QED  BY <3>2
  <2>2. CASE ~joined
    <3>1. r.pos \in Int /\ r.pos + n - 1 \in Int /\ \A i \in r.pos..(r.pos + n - 1) : i \in 1..Len(tokens)
      <4>1. PICK p \in Nat : p = r.pos /\ p >= 1 /\ p <= Len(tokens) + 1  BY <1>0
      <4>2. n \in Nat /\ n <= Len(tokens) + 1 - p  BY <1>0, <1>3, <4>1
      <4>3. \A i \in p..(p + n - 1) : i \in 1..Len(tokens)  BY <1>0, <4>1, <4>2
      <4>. QED  BY <4>1, <4>2, <4>3
    <3>2. SubSeq(tokens, r.pos, r.pos + n - 1) \in Seq(Range(tokens))  BY <1>0, <3>1, SubSeqProperties
    <3>. QED  BY <2>2, <3>2, LenProperties
  <2>. QED  BY <2>1, <2>2
<1>. HIDE DEF joined, values, missing
<1>6. taken.pos \in 1..(Len(tokens) + 1)
  <2>1. taken.pos = r.pos \/ taken.pos = r.pos + n  OBVIOUS
  <2>2. r.pos + n \in 1..(Len(tokens) + 1)
    <3>1. PICK p \in Nat : p = r.pos /\ p >= 1 /\ p <= Len(tokens) + 1  BY <1>0
    <3>2. n \in Nat /\ n <= Len(tokens) + 1 - p  BY <1>0, <1>3, <3>1
    <3>. QED  BY <1>0, <3>1, <3>2
  <2>. HIDE DEF taken
  <2>. QED  BY <2>1, <2>2
<1>7. taken.error \in TakeErrors
  <2>1. Refusal(argument, values) \in Refusals \cup {"none"}  BY <1>5, RefusalFacts
  <2>. QED  BY <2>1 DEF TakeErrors
<1>. HIDE DEF taken
<1>. QED  BY <1>4, <1>6, <1>7

LEMMA TakenFacts ==
    ASSUME call \in Cases, IsLine(tokens), NEW p \in 1..(Len(tokens) + 1), NEW o \in Known,
           NEW inline, Joinable(inline)
    PROVE  /\ Taken(p, o, inline).pos \in 1..(Len(tokens) + 1)
           /\ Taken(p, o, inline).error \in TakeErrors
<1>. DEFINE l == Option(o).arguments
<1>1. Len(l) \in Nat /\ \A i \in 1..Len(l) : Range(l[i].refuses) \subseteq Refusals
  <2>1. AreArguments(l)  BY TreesCanBeDeclared DEF IsTree, Known, Option
  <2>2. Len(l) \in Nat /\ \A i \in 1..Len(l) : l[i] \in Range(l)  BY <2>1, ListFacts DEF AreArguments, Range
  <2>. QED  BY <2>1, <2>2 DEF AreArguments
<1>2. PICK c : /\ c[0] = Untaken(p)
               /\ \A i \in 1..Len(l) : c[i] = TakeValues(c[i - 1], o, l[i], inline)
               /\ Taken(p, o, inline) = c[Len(l)]
      BY <1>1, TakenSteps
<1>. HIDE DEF l
<1>. DEFINE Good(n) == c[n].pos \in 1..(Len(tokens) + 1) /\ c[n].error \in TakeErrors
            S == {n \in Nat : n <= Len(l) => Good(n)}
<1>3. 0 \in S  BY <1>2 DEF Untaken, TakeErrors
<1>4. ASSUME NEW n \in Nat, n \in S PROVE n + 1 \in S
  <2>. SUFFICES ASSUME n + 1 <= Len(l) PROVE Good(n + 1)  OBVIOUS
  <2>1. Good(n)  BY <1>1, <1>4
  <2>2. n + 1 \in 1..Len(l) /\ (n + 1) - 1 = n  BY <1>1
  <2>3. c[n + 1] = TakeValues(c[n], o, l[n + 1], inline)  BY <1>2, <2>2
  <2>4. Range(l[n + 1].refuses) \subseteq Refusals  BY <1>1, <2>2
  <2>. QED  BY <2>1, <2>3, <2>4, TakeValuesFacts
<1>5. Len(l) \in S
  <2>. HIDE DEF S
  <2>. QED  BY <1>1, <1>3, <1>4, NatSets
<1>. QED  BY <1>1, <1>2, <1>5

-----------------------------------------------------------------------------
(* The options a token names. *)

\* An option in scope, or one found by what looks through all that was collected.
InReach(i) ==
    /\ i \in 1..Len(options)
    /\ \/ options[i].option \in Range(InScope(target, inherited))
       \/ On("IgnoreOptionCase")
       \/ Option(options[i].option).shortMatch # "none"

LEMMA LookupReaches ==
    ASSUME ScopeInv, NEW token, Lookup(token) # 0
    PROVE  InReach(Lookup(token))
<1>1. Len(options) \in Nat  BY ListFacts DEF ScopeInv, Listed
<1>2. CASE On("IgnoreOptionCase")
  <2>. DEFINE I == {i \in 1..Len(options) :
                      \E s \in Range(Option(options[i].option).tokens) : SameToken(s, token, TRUE)}
  <2>1. Lookup(token) = IF I # {} THEN Min(I) ELSE 0  BY <1>2 DEF Lookup, SelectInSeq
  <2>2. I \in SUBSET (1..Len(options))  OBVIOUS
  <2>. HIDE DEF I
  <2>3. I # {} /\ Lookup(token) = Min(I)  BY <2>1
  <2>4. Lookup(token) \in 1..Len(options)  BY <1>1, <2>2, <2>3, Picked
  <2>. QED  BY <1>2, <2>4 DEF InReach
<1>3. CASE ~On("IgnoreOptionCase")
  <2>1. token \in DOMAIN byToken /\ Lookup(token) = byToken[token]  BY <1>3 DEF Lookup
  <2>2. /\ byToken[token] \in 0..Len(options)
        /\ byToken[token] # 0 => options[byToken[token]].option \in Range(InScope(target, inherited))
        BY <2>1 DEF ScopeInv, Spells
  <2>. QED  BY <1>1, <2>1, <2>2 DEF InReach
<1>. QED  BY <1>2, <1>3

LEMMA ShortMatchedReaches ==
    ASSUME ScopeInv, NEW token, ShortMatches(token) # {}
    PROVE  Len(ShortMatched(token).which) = 1 /\ InReach(ShortMatched(token).which[1])
<1>. DEFINE S == {m[1] : m \in ShortMatches(token)}
            i == Min(S)
<1>1. Len(options) \in Nat /\ DOMAIN options = 1..Len(options)  BY ListFacts DEF ScopeInv, Listed
<1>2. \A k \in S : k \in 1..Len(options) /\ Option(options[k].option).shortMatch # "none"
      BY <1>1 DEF ShortMatches, Sticks
<1>3. S \in SUBSET (1..Len(options)) /\ S # {}  BY <1>2
<1>. HIDE DEF S
<1>4. i \in S  BY <1>1, <1>3, Picked
<1>5. ShortMatched(token).which = <<i>>  BY DEF ShortMatched, Means, S
<1>. HIDE DEF i
<1>6. Len(<<i>>) = 1 /\ <<i>>[1] = i  OBVIOUS
<1>7. InReach(i)  BY <1>2, <1>4 DEF InReach
<1>. QED  BY <1>5, <1>6, <1>7

\* Every option a token means is within reach.
Reaches(which) == Len(which) \in Nat /\ \A k \in 1..Len(which) : InReach(which[k])

LEMMA MeaningReaches ==
    ASSUME ScopeInv, NEW token, IsList(token)
    PROVE  Reaches(Meaning(token).which)
<1>1. ASSUME NEW i, InReach(i), NEW inline PROVE Reaches(Means(<<i>>, inline).which)
  <2>1. Len(<<i>>) = 1 /\ <<i>>[1] = i  OBVIOUS
  <2>. QED  BY <1>1, <2>1 DEF Reaches, Means
<1>2. Reaches(Nothing.which)
  <2>1. Len(<<>>) = 0  OBVIOUS
  <2>. QED  BY <2>1 DEF Reaches, Nothing, Means
<1>3. CASE Lookup(token) # 0 /\ Meaning(token) = Means(<<Lookup(token)>>, {})
      BY <1>1, <1>3, LookupReaches
<1>4. CASE IsAssignment(token) /\ Meaning(token) = Joined(token)
  <2>1. InReach(BeforeEquals(token))  BY <1>4, LookupReaches DEF IsAssignment, BeforeEquals
  <2>2. Joined(token) = Nothing \/ Joined(token) = Means(<<BeforeEquals(token)>>, {AfterEquals(token)})
        BY DEF Joined
  <2>. QED  BY <1>1, <1>2, <1>4, <2>1, <2>2
<1>5. CASE ShortMatches(token) # {} /\ Meaning(token) = ShortMatched(token)
  <2>1. Len(ShortMatched(token).which) = 1 /\ InReach(ShortMatched(token).which[1])
        BY <1>5, ShortMatchedReaches
  <2>. QED  BY <1>5, <2>1 DEF Reaches
<1>6. CASE IsGroup(token) /\ Meaning(token) = Means(Letter(token), {})
  <2>1. Len(token) \in Nat /\ Len(token) >= 3  BY <1>6, ListFacts DEF IsGroup
  <2>2. Len(Letter(token)) = Len(token) - 1 /\ DOMAIN Letter(token) = 1..(Len(token) - 1)
        BY <2>1 DEF Letter
  <2>3. ASSUME NEW k \in 1..Len(Letter(token)) PROVE InReach(Letter(token)[k])
    <3>1. Letter(token)[k] = Lookup(<<"-", token[k + 1]>>)  BY <2>2 DEF Letter
    <3>2. Letter(token)[k] # 0  BY <1>6, <2>2 DEF IsGroup, Range
    <3>. QED  BY <3>1, <3>2, LookupReaches
  <2>4. Meaning(token).which = Letter(token)  BY <1>6 DEF Means
  <2>. QED  BY <2>1, <2>2, <2>3, <2>4 DEF Reaches
<1>7. CASE IsDos(token) /\ Meaning(token) = Means(<<DosSpelling(token)>>, {})
  <2>1. InReach(DosSpelling(token))  BY <1>7, LookupReaches DEF IsDos, DosSpelling
  <2>. QED  BY <1>1, <1>7, <2>1
<1>8. CASE Meaning(token) = Nothing  BY <1>2, <1>8
<1>. QED  BY <1>3, <1>4, <1>5, <1>6, <1>7, <1>8 DEF Meaning

\* ... and the value it holds is one.
LEMMA MeaningJoins == ASSUME NEW token PROVE Joinable(Meaning(token).inline)
BY DEF Meaning, Joined, ShortMatched, Means, Nothing, Joinable

-----------------------------------------------------------------------------
(* The option that decides. *)

IsPrior(prior) == prior = {} \/ \E o \in Known : prior = {o}

LEMMA LevelFacts ==
    ASSUME call \in Cases
    PROVE  /\ Level({}) = 0
           /\ \A o \in Known : Level({o}) = Option(o).prior
           /\ \A prior : IsPrior(prior) => Level(prior) \in 0..6
<1>1. Level({}) = 0
  <2>1. {NoPrior} \cup {Option(o).prior : o \in {}} = {0}  BY DEF NoPrior
  <2>2. Max({0}) = 0  BY DEF Max
  <2>. QED  BY <2>1, <2>2 DEF Level
<1>2. ASSUME NEW o \in Known PROVE Level({o}) = Option(o).prior
  <2>1. PICK p : p = Option(o).prior /\ p \in 0..6  BY TreeFacts
  <2>2. {NoPrior} \cup {Option(x).prior : x \in {o}} = {0, p}  BY <2>1 DEF NoPrior
  <2>3. Max({0, p}) = p
    <3>1. {0, p} \in SUBSET (0..6) /\ {0, p} # {}  BY <2>1
    <3>2. Max({0, p}) \in {0, p} /\ \A y \in {0, p} : y <= Max({0, p})  BY <3>1, Greatest
    <3>. QED  BY <2>1, <3>2
  <2>. QED  BY <2>1, <2>2, <2>3 DEF Level
<1>3. ASSUME NEW prior, IsPrior(prior) PROVE Level(prior) \in 0..6
  <2>1. CASE prior = {}  BY <1>1, <2>1
  <2>2. ASSUME NEW o \in Known, prior = {o} PROVE Level(prior) \in 0..6
    <3>1. Level({o}) = Option(o).prior /\ Option(o).prior \in 0..6  BY <1>2, TreeFacts
    <3>. QED  BY <2>2, <3>1
  <2>. QED  BY <1>3, <2>1, <2>2 DEF IsPrior
<1>. QED  BY <1>1, <1>2, <1>3

\* The level is that of the highest option given.
Covered(opts, prior) ==
    \A i \in 1..Len(opts) :
        opts[i].occurrences # <<>> => Option(opts[i].option).prior <= Level(prior)

LEMMA Noted ==
    ASSUME call \in Cases, NEW prior, IsPrior(prior), NEW o \in Known
    PROVE  /\ IsPrior(NotePrior(prior, o))
           /\ Level(prior) <= Level(NotePrior(prior, o))
           /\ Option(o).prior <= Level(NotePrior(prior, o))
<1>1. Level(prior) \in 0..6 /\ Option(o).prior \in 0..6  BY LevelFacts, TreeFacts
<1>2. CASE Option(o).prior > Level(prior)
  <2>1. NotePrior(prior, o) = {o}  BY <1>2 DEF NotePrior
  <2>2. Level({o}) = Option(o).prior  BY LevelFacts
  <2>. QED  BY <1>1, <1>2, <2>1, <2>2 DEF IsPrior
<1>3. CASE ~(Option(o).prior > Level(prior))
  <2>1. NotePrior(prior, o) = prior  BY <1>3 DEF NotePrior
  <2>. QED  BY <1>1, <1>3, <2>1
<1>. QED  BY <1>2, <1>3

-----------------------------------------------------------------------------
(* Reading the options of one token. *)

ReadErrors == TakeErrors \cup {"OptionOccurTooMuch", "UnknownOption"}

\* The same options, with more occurrences.
Kept(opts) ==
    /\ Listed(opts) /\ Len(opts) = Len(options)
    /\ \A i \in 1..Len(options) : opts[i].option = options[i].option

\* What has been read so far: the level is the highest, only options in reach took something.
Sound(r) ==
    /\ r = [options |-> r.options, prior |-> r.prior, pos |-> r.pos, error |-> r.error]
    /\ Kept(r.options) /\ IsPrior(r.prior) /\ Covered(r.options, r.prior)
    /\ \A i \in 1..Len(options) :
           r.options[i].occurrences # options[i].occurrences => InReach(i)
    /\ r.pos \in 1..(Len(tokens) + 1) /\ r.error \in ReadErrors

\* A list with one item changed.
With(l, i, x) == [l EXCEPT ![i] = x]

LEMMA Changed ==
    ASSUME NEW opts, IsList(opts), NEW i \in 1..Len(opts), NEW x, NEW new, new = With(opts, i, x)
    PROVE  IsList(new) /\ Len(new) = Len(opts) /\ \A j \in 1..Len(opts) : new[j] = IF j = i THEN x ELSE opts[j]
<1>. DEFINE n == Len(opts)
            S == Range(opts) \cup {x}
<1>1. n \in Nat /\ DOMAIN opts = 1..n /\ opts = [j \in 1..n |-> opts[j]]  BY ListFacts
<1>2. \A j \in 1..n : opts[j] \in S  BY <1>1 DEF Range
<1>3. x \in S  OBVIOUS
<1>. HIDE DEF S
<1>4. new = [j \in 1..n |-> IF j = i THEN x ELSE opts[j]]  BY <1>1 DEF With
<1>5. new \in [1..n -> S]  BY <1>2, <1>3, <1>4
<1>6. new \in Seq(S) /\ DOMAIN new = 1..n
  <2>1. DOMAIN new = 1..n  BY <1>5
  <2>2. new \in Seq(S)  BY <1>1, <1>5, SeqDef, Zenon
  <2>. QED  BY <2>1, <2>2
<1>. HIDE DEF n
<1>7. Len(new) = n  BY <1>1, <1>6, LenProperties
<1>8. IsList(new)  BY <1>6, ListOf
<1>. QED  BY <1>4, <1>7, <1>8 DEF n

\* One more occurrence of the i-th option.
Occurring(opts, i, slots) == [opts EXCEPT ![i].occurrences = Append(@, slots)]

LEMMA OccursOnce ==
    ASSUME NEW opts, Listed(opts), NEW i \in 1..Len(opts), NEW slots
    PROVE  LET new == Occurring(opts, i, slots)
           IN  /\ Listed(new) /\ Len(new) = Len(opts)
               /\ \A j \in 1..Len(opts) : new[j].option = opts[j].option
               /\ \A j \in 1..Len(opts) : j # i => new[j] = opts[j]
<1>. DEFINE new == Occurring(opts, i, slots)
<1>1. DOMAIN opts = 1..Len(opts)  BY ListFacts DEF Listed
<1>2. PICK x : x = [opts[i] EXCEPT !.occurrences = Append(@, slots)]  OBVIOUS
<1>3. new = With(opts, i, x)  BY <1>1, <1>2 DEF Occurring, With
<1>. HIDE DEF new
<1>4. x.option = opts[i].option /\ x = [option |-> x.option, occurrences |-> x.occurrences]
  <2>1. opts[i] = [option |-> opts[i].option, occurrences |-> opts[i].occurrences]  BY DEF Listed
  <2>. QED  BY <1>2, <2>1
<1>5. IsList(new) /\ Len(new) = Len(opts) /\ \A j \in 1..Len(opts) : new[j] = IF j = i THEN x ELSE opts[j]
      BY <1>3, Changed DEF Listed
<1>6. ASSUME NEW j \in 1..Len(opts)
      PROVE  /\ new[j].option = opts[j].option /\ new[j].option \in Known
             /\ new[j] = [option |-> new[j].option, occurrences |-> new[j].occurrences]
  <2>1. CASE j = i  BY <1>4, <1>5, <2>1 DEF Listed
  <2>2. CASE j # i  BY <1>5, <2>2 DEF Listed
  <2>. QED  BY <2>1, <2>2
<1>7. Listed(new)  BY <1>5, <1>6 DEF Listed
<1>. QED  BY <1>5, <1>6, <1>7 DEF new

LEMMA ReadOneSound ==
    ASSUME ScopeInv, IsLine(tokens), NEW r, Sound(r), NEW i, InReach(i),
           NEW inline, Joinable(inline)
    PROVE  Sound(ReadOne(r, i, inline))
<1>. DEFINE o == options[i].option
            taken == Taken(r.pos, o, inline)
            new == Occurring(r.options, i, taken.slots)
            read == [options |-> new, prior |-> NotePrior(r.prior, o), pos |-> taken.pos,
                     error |-> "none"]
<1>1. i \in 1..Len(options) /\ Len(r.options) = Len(options) /\ i \in 1..Len(r.options)
      BY DEF InReach, Sound, Kept
<1>2. o \in Known /\ call \in Cases  BY <1>1 DEF ScopeInv, Listed
<1>3. taken.pos \in 1..(Len(tokens) + 1) /\ taken.error \in TakeErrors
      BY <1>2, TakenFacts DEF Sound
<1>. HIDE DEF taken
<1>4. /\ Listed(new) /\ Len(new) = Len(r.options)
      /\ \A j \in 1..Len(r.options) : new[j].option = r.options[j].option
      /\ \A j \in 1..Len(r.options) : j # i => new[j] = r.options[j]
  <2>1. Listed(r.options)  BY DEF Sound, Kept
  <2>. QED  BY <1>1, <2>1, OccursOnce
<1>. HIDE DEF new
<1>5. ASSUME NEW e \in ReadErrors PROVE Sound([r EXCEPT !.error = e])
  <2>1. PICK x : x = [r EXCEPT !.error = e]  OBVIOUS
  <2>2. x = [options |-> r.options, prior |-> r.prior, pos |-> r.pos, error |-> e]
        BY <2>1 DEF Sound
  <2>3. /\ x.options = r.options /\ x.prior = r.prior /\ x.pos = r.pos /\ x.error = e
        /\ x = [options |-> x.options, prior |-> x.prior, pos |-> x.pos, error |-> x.error]
        BY <2>2
  <2>4. Sound(x)  BY <1>5, <2>3 DEF Sound
  <2>. QED  BY <2>1, <2>4
<1>6. Sound(read)
  <2>1. Kept(new)  BY <1>1, <1>4 DEF Kept, Sound
  <2>2. /\ IsPrior(NotePrior(r.prior, o)) /\ Level(r.prior) <= Level(NotePrior(r.prior, o))
        /\ Option(o).prior <= Level(NotePrior(r.prior, o))
        BY <1>2, Noted DEF Sound
  <2>3. Covered(new, NotePrior(r.prior, o))
    <3>1. Level(r.prior) \in 0..6 /\ Level(NotePrior(r.prior, o)) \in 0..6
          BY <1>2, <2>2, LevelFacts DEF Sound
    <3>2. ASSUME NEW j \in 1..Len(new), new[j].occurrences # <<>>
          PROVE  Option(new[j].option).prior <= Level(NotePrior(r.prior, o))
      <4>1. CASE j = i
        <5>1. new[j].option = o  BY <1>1, <1>4, <4>1 DEF Sound, Kept
        <5>. QED  BY <2>2, <5>1
      <4>2. CASE j # i
        <5>1. r.options[j].occurrences # <<>> /\ new[j].option = r.options[j].option
              BY <1>4, <3>2, <4>2
        <5>2. Option(new[j].option).prior <= Level(r.prior)  BY <1>1, <1>4, <5>1 DEF Sound, Covered
        <5>3. new[j].option \in Known  BY <1>4 DEF Listed
        <5>4. Option(new[j].option).prior \in 0..6  BY <1>2, <5>3, TreeFacts
        <5>. QED  BY <2>2, <3>1, <5>2, <5>4
      <4>. QED  BY <4>1, <4>2
    <3>. QED  BY <3>2 DEF Covered
  <2>4. ASSUME NEW j \in 1..Len(options), new[j].occurrences # options[j].occurrences
        PROVE  InReach(j)
    <3>1. CASE j = i  BY <3>1
    <3>2. CASE j # i  BY <1>1, <1>4, <2>4, <3>2 DEF Sound
    <3>. QED  BY <3>1, <3>2
  <2>5. PICK x : x = read  OBVIOUS
  <2>6. /\ x.options = new /\ x.prior = NotePrior(r.prior, o) /\ x.pos = taken.pos
        /\ x.error = "none"
        /\ x = [options |-> x.options, prior |-> x.prior, pos |-> x.pos, error |-> x.error]
        BY <2>5
  <2>7. "none" \in ReadErrors  BY DEF ReadErrors, TakeErrors
  <2>8. Sound(x)  BY <1>3, <2>1, <2>2, <2>3, <2>4, <2>6, <2>7 DEF Sound
  <2>. QED  BY <2>5, <2>8
<1>7. taken.error \in ReadErrors /\ "OptionOccurTooMuch" \in ReadErrors  BY <1>3 DEF ReadErrors
<1>8. ReadOne(r, i, inline) \in {r, [r EXCEPT !.error = "OptionOccurTooMuch"],
                                [r EXCEPT !.error = taken.error], read}
      BY DEF ReadOne, taken, new, Occurring
<1>. HIDE DEF o, read
<1>. QED  BY <1>5, <1>6, <1>7, <1>8

LEMMA ReadSound ==
    ASSUME ScopeInv, IsLine(tokens), Sound(Unread), NEW meaning,
           Reaches(meaning.which), Joinable(meaning.inline)
    PROVE  Sound(Read(meaning))
<1>. DEFINE l == meaning.which
<1>1. Len(l) \in Nat /\ \A i \in 1..Len(l) : InReach(l[i])  BY DEF Reaches
<1>2. PICK c : /\ c[0] = Unread
               /\ \A i \in 1..Len(l) : c[i] = ReadOne(c[i - 1], l[i], meaning.inline)
               /\ Read(meaning) = c[Len(l)]
      BY <1>1, ReadSteps
<1>. HIDE DEF l
<1>. DEFINE S == {n \in Nat : n <= Len(l) => Sound(c[n])}
<1>3. 0 \in S  BY <1>2
<1>4. ASSUME NEW n \in Nat, n \in S PROVE n + 1 \in S
  <2>. SUFFICES ASSUME n + 1 <= Len(l) PROVE Sound(c[n + 1])  OBVIOUS
  <2>1. Sound(c[n])  BY <1>1, <1>4
  <2>2. n + 1 \in 1..Len(l) /\ (n + 1) - 1 = n  BY <1>1
  <2>3. c[n + 1] = ReadOne(c[n], l[n + 1], meaning.inline) /\ InReach(l[n + 1])  BY <1>1, <1>2, <2>2
  <2>. QED  BY <2>1, <2>3, ReadOneSound
<1>5. Len(l) \in S
  <2>. HIDE DEF S
  <2>. QED  BY <1>1, <1>3, <1>4, NatSets
<1>. QED  BY <1>1, <1>2, <1>5

-----------------------------------------------------------------------------
(* The positional tokens: each goes to one argument. *)

\* What the first k arguments hold, and how many tokens they took.
Served(acc, k) ==
    /\ acc = [taken |-> acc.taken, arguments |-> acc.arguments, error |-> acc.error]
    /\ IsList(acc.arguments) /\ Len(acc.arguments) = k
    /\ acc.taken \in 0..Len(positional)
    /\ acc.error \in Refusals \cup {"none"}
    /\ acc.error = "none" => FlattenSeq(acc.arguments) = SubSeq(positional, 1, acc.taken)

LEMMA FlattenOne == ASSUME NEW x PROVE FlattenSeq(<<x>>) = x
<1>1. PICK l : l = <<x>>  OBVIOUS
<1>2. Len(l) = 1 /\ l[1] = x  BY <1>1
<1>3. Len(l) \in Nat \ {0}  BY <1>2
<1>4. PICK c : c[1] = l[1] /\ FlattenSeq(l) = c[Len(l)]  BY <1>3, FlattenSteps
<1>. QED  BY <1>1, <1>2, <1>4

\* What is appended comes last.
LEMMA FlattenAppend ==
    ASSUME NEW l, IsList(l), NEW x, IsList(x)
    PROVE  FlattenSeq(Append(l, x)) = FlattenSeq(l) \o x
<1>. DEFINE m == Append(l, x)
<1>1. /\ Len(l) \in Nat /\ IsList(m) /\ Len(m) = Len(l) + 1
      /\ \A i \in 1..Len(l) : m[i] = l[i]
      /\ m[Len(l) + 1] = x
      BY ListFacts, Appended
<1>. HIDE DEF m
<1>2. PICK d : /\ d[1] = m[1] /\ \A i \in 2..Len(m) : d[i] = d[i - 1] \o m[i]
               /\ FlattenSeq(m) = d[Len(m)]
  <2>1. Len(m) \in Nat \ {0}  BY <1>1
  <2>. QED  BY <2>1, FlattenSteps
<1>3. CASE Len(l) = 0
  <2>1. FlattenSeq(l) = l /\ l = <<>>
    <3>1. l \in Seq(Range(l))  BY DEF IsList
    <3>2. l = <<>>  BY <3>1, <1>3, EmptySeq
    <3>. QED  BY <1>3, <3>2 DEF FlattenSeq
  <2>2. <<>> \o x = x  BY ConcatEmptySeq DEF IsList
  <2>. QED  BY <1>1, <1>2, <1>3, <2>1, <2>2 DEF m
<1>4. CASE Len(l) # 0
  <2>1. PICK c : /\ c[1] = l[1] /\ \A i \in 2..Len(l) : c[i] = c[i - 1] \o l[i]
                 /\ FlattenSeq(l) = c[Len(l)]
    <3>1. Len(l) \in Nat \ {0}  BY <1>1, <1>4
    <3>. QED  BY <3>1, FlattenSteps
  <2>. DEFINE S == {n \in Nat : n \in 1..Len(l) => d[n] = c[n]}
  <2>2. 0 \in S  OBVIOUS
  <2>3. ASSUME NEW n \in Nat, n \in S PROVE n + 1 \in S
    <3>. SUFFICES ASSUME n + 1 <= Len(l) PROVE d[n + 1] = c[n + 1]  OBVIOUS
    <3>1. CASE n = 0
      <4>1. 1 \in 1..Len(l) /\ n + 1 = 1  BY <1>1, <1>4, <3>1
      <4>. QED  BY <1>1, <1>2, <2>1, <4>1
    <3>2. CASE n # 0
      <4>1. d[n] = c[n]  BY <1>1, <2>3, <3>2
      <4>2. /\ n + 1 \in 2..Len(l) /\ n + 1 \in 2..Len(m) /\ n + 1 \in 1..Len(l) /\ (n + 1) - 1 = n
            BY <1>1, <3>2
      <4>3. c[n + 1] = c[n] \o l[n + 1] /\ d[n + 1] = d[n] \o m[n + 1] /\ m[n + 1] = l[n + 1]
            BY <1>1, <1>2, <2>1, <4>2
      <4>. QED  BY <4>1, <4>3
    <3>. QED  BY <3>1, <3>2
  <2>4. Len(l) \in S
    <3>. HIDE DEF S
    <3>. QED  BY <1>1, <2>2, <2>3, NatSets
  <2>5. d[Len(l)] = FlattenSeq(l)  BY <1>1, <1>4, <2>1, <2>4
  <2>6. Len(m) \in 2..Len(m) /\ Len(m) - 1 = Len(l)  BY <1>1, <1>4
  <2>7. FlattenSeq(m) = d[Len(m) - 1] \o m[Len(m)]  BY <1>2, <2>6
  <2>. QED  BY <1>1, <2>5, <2>6, <2>7 DEF m
<1>. QED  BY <1>1, <1>3, <1>4

LEMMA OfTwo ==
    ASSUME NEW a \in Int, NEW b \in Int
    PROVE  Max({a, b}) = (IF a >= b THEN a ELSE b) /\ Min({a, b}) = (IF a <= b THEN a ELSE b)
<1>1. \E x \in {a, b} : \A y \in {a, b} : x >= y  OBVIOUS
<1>2. \E x \in {a, b} : \A y \in {a, b} : x <= y  OBVIOUS
<1>3. Max({a, b}) \in {a, b} /\ \A y \in {a, b} : Max({a, b}) >= y  BY <1>1 DEF Max
<1>4. Min({a, b}) \in {a, b} /\ \A y \in {a, b} : Min({a, b}) <= y  BY <1>2 DEF Min
<1>. QED  BY <1>3, <1>4

Required == {j \in DOMAIN Declared : Declared[j].required}
RequiredAfter(k) == {j \in (k + 1)..Len(Declared) : Declared[j].required}

LEMMA RequiredFacts ==
    ASSUME Len(Declared) \in Nat, DOMAIN Declared = 1..Len(Declared), NEW k \in Nat
    PROVE  /\ Cardinality(RequiredAfter(k)) \in Nat /\ Cardinality(Required) \in Nat
           /\ k < Len(Declared) /\ Declared[k + 1].required =>
                  Cardinality(RequiredAfter(k)) = Cardinality(RequiredAfter(k + 1)) + 1
           /\ k <= Len(Declared) /\ (\A j \in 1..k : Declared[j].required) => k <= Cardinality(Required)
<1>. DEFINE all == 1..Len(Declared)
<1>1. IsFiniteSet(all) /\ IsFiniteSet(1..k) /\ Cardinality(1..k) = k
  <2>1. \A n \in Nat : IsFiniteSet(1..n) /\ Cardinality(1..n) = IF 1 > n THEN 0 ELSE n - 1 + 1
        BY FS_Interval
  <2>2. Cardinality(1..k) = k
    <3>1. Cardinality(1..k) = IF 1 > k THEN 0 ELSE k - 1 + 1  BY <2>1
    <3>. QED  BY <3>1
  <2>. QED  BY <2>1, <2>2
<1>2. ASSUME NEW m \in Nat
      PROVE  IsFiniteSet(RequiredAfter(m)) /\ Cardinality(RequiredAfter(m)) \in Nat
  <2>1. RequiredAfter(m) \in SUBSET all  BY DEF RequiredAfter
  <2>. HIDE DEF all
  <2>. QED  BY <1>1, <2>1, FS_Subset, FS_CardinalityType
<1>3. ASSUME k < Len(Declared), Declared[k + 1].required
      PROVE  Cardinality(RequiredAfter(k)) = Cardinality(RequiredAfter(k + 1)) + 1
  <2>1. RequiredAfter(k) = RequiredAfter(k + 1) \cup {k + 1} /\ k + 1 \notin RequiredAfter(k + 1)
        BY <1>3 DEF RequiredAfter
  <2>2. IsFiniteSet(RequiredAfter(k + 1)) /\ Cardinality(RequiredAfter(k + 1)) \in Nat  BY <1>2
  <2>. QED  BY <2>1, <2>2, FS_AddElement
<1>4. ASSUME k <= Len(Declared), \A j \in 1..k : Declared[j].required PROVE k <= Cardinality(Required)
  <2>1. Required \in SUBSET all /\ 1..k \in SUBSET Required  BY <1>4 DEF Required
  <2>. HIDE DEF all
  <2>2. IsFiniteSet(Required)  BY <1>1, <2>1, FS_Subset
  <2>. QED  BY <1>1, <2>1, <2>2, FS_Subset
<1>5. Cardinality(Required) \in Nat
  <2>1. Required \in SUBSET all  BY DEF Required
  <2>. HIDE DEF all
  <2>. QED  BY <1>1, <2>1, FS_Subset, FS_CardinalityType
<1>. QED  BY <1>2, <1>3, <1>4, <1>5

LEMMA DeclaredFacts ==
    ASSUME ScopeInv
    PROVE  /\ Len(Declared) \in Nat /\ DOMAIN Declared = 1..Len(Declared)
           /\ \A k \in 1..Len(Declared) :
                  /\ Declared[k].arity \in {"single", "multiple", "remainder"}
                  /\ Range(Declared[k].refuses) \subseteq Refusals
                  /\ CanFollow(Declared, k)
<1>1. target \in DOMAIN Trees[call.tree].command /\ IsTree(Trees[call.tree]) /\ CanBeDeclared(Trees[call.tree])
      BY TreesCanBeDeclared DEF ScopeInv, Commands
<1>2. AreArguments(Declared)  BY <1>1 DEF IsTree, Declared, Command
<1>3. Len(Declared) \in Nat /\ DOMAIN Declared = 1..Len(Declared)  BY <1>2, ListFacts DEF AreArguments
<1>4. \A k \in DOMAIN Declared : CanFollow(Declared, k)  BY <1>1 DEF CanBeDeclared, Declared, Command
<1>5. \A k \in DOMAIN Declared : Declared[k] \in Range(Declared)  BY DEF Range
<1>. QED  BY <1>2, <1>3, <1>4, <1>5 DEF AreArguments

\* An argument takes no more than is left, something where something is left, and leaves those
\* after it their tokens.
LEMMA TakeFacts ==
    ASSUME ScopeInv, NEW i \in 1..Len(Declared), NEW left \in Nat
    PROVE  /\ Take(i, left) \in 0..left
           /\ Take(i, left) = 0 => left = 0
           /\ Declared[i].arity # "remainder" =>
                  Take(i, left) <= 1 \/ left - Take(i, left) >= Cardinality(RequiredAfter(i))
<1>1. PICK r \in Nat : r = Cardinality({j \in (i + 1)..Len(Declared) : Declared[j].required})
  <2>1. i \in Nat  BY DeclaredFacts
  <2>. QED  BY <2>1, DeclaredFacts, RequiredFacts DEF RequiredAfter
<1>. DEFINE wants == IF Declared[i].arity = "remainder" THEN left
                     ELSE IF Declared[i].arity = "single" THEN 1 ELSE Max({1, left - r})
<1>2. Max({1, left - r}) = IF 1 >= left - r THEN 1 ELSE left - r  BY <1>1, OfTwo
<1>3. wants \in Nat /\ (wants = 0 => left = 0)  BY <1>1, <1>2
<1>4. Declared[i].arity # "remainder" => wants = 1 \/ wants = left - r  BY <1>2
<1>5. Take(i, left) = Min({left, wants})  BY <1>1 DEF Take
<1>. HIDE DEF wants
<1>6. Take(i, left) = IF left <= wants THEN left ELSE wants
  <2>1. wants \in Int /\ left \in Int  BY <1>3
  <2>2. Min({left, wants}) = IF left <= wants THEN left ELSE wants  BY <2>1, OfTwo
  <2>. QED  BY <1>5, <2>2
<1>. QED  BY <1>1, <1>3, <1>4, <1>6 DEF RequiredAfter

LEMMA Adjacent ==
    ASSUME NEW l, IsList(l), NEW m \in 0..Len(l), NEW n \in 0..(Len(l) - m)
    PROVE  /\ SubSeq(l, 1, m) \o SubSeq(l, m + 1, m + n) = SubSeq(l, 1, m + n)
           /\ IsList(SubSeq(l, m + 1, m + n)) /\ Len(SubSeq(l, m + 1, m + n)) = n
           /\ SubSeq(l, 1, Len(l)) = l
<1>. DEFINE S == Range(l)
<1>1. l \in Seq(S) /\ Len(l) \in Nat /\ \A i \in 1..Len(l) : l[i] \in S
      BY ListFacts DEF IsList, Range
<1>. HIDE DEF S
<1>2. PICK a : a = SubSeq(l, 1, m)  OBVIOUS
<1>3. PICK b : b = SubSeq(l, m + 1, m + n)  OBVIOUS
<1>4. PICK c : c = SubSeq(l, 1, m + n)  OBVIOUS
<1>5. a \in Seq(S) /\ Len(a) = m /\ \A i \in 1..m : a[i] = l[i]
  <2>1. /\ SubSeq(l, 1, m) \in Seq(S) /\ Len(SubSeq(l, 1, m)) = IF 1 <= m THEN m - 1 + 1 ELSE 0
        /\ \A i \in 1..(m - 1 + 1) : SubSeq(l, 1, m)[i] = l[1 + i - 1]
    <3>1. 1 \in Int /\ m \in Int /\ \A i \in 1..m : l[i] \in S  BY <1>1
    <3>. QED  BY <3>1, SubSeqProperties
  <2>. QED  BY <1>1, <1>2, <2>1
<1>6. b \in Seq(S) /\ Len(b) = n /\ \A i \in 1..n : b[i] = l[m + i]
  <2>1. /\ SubSeq(l, m + 1, m + n) \in Seq(S)
        /\ Len(SubSeq(l, m + 1, m + n)) = IF m + 1 <= m + n THEN (m + n) - (m + 1) + 1 ELSE 0
        /\ \A i \in 1..((m + n) - (m + 1) + 1) : SubSeq(l, m + 1, m + n)[i] = l[(m + 1) + i - 1]
    <3>1. m + 1 \in Int /\ m + n \in Int /\ \A i \in (m + 1)..(m + n) : l[i] \in S  BY <1>1
    <3>. QED  BY <3>1, SubSeqProperties
  <2>. QED  BY <1>1, <1>3, <2>1
<1>7. c \in Seq(S) /\ Len(c) = m + n /\ \A i \in 1..(m + n) : c[i] = l[i]
  <2>1. /\ SubSeq(l, 1, m + n) \in Seq(S)
        /\ Len(SubSeq(l, 1, m + n)) = IF 1 <= m + n THEN (m + n) - 1 + 1 ELSE 0
        /\ \A i \in 1..((m + n) - 1 + 1) : SubSeq(l, 1, m + n)[i] = l[1 + i - 1]
    <3>1. 1 \in Int /\ m + n \in Int /\ \A i \in 1..(m + n) : l[i] \in S  BY <1>1
    <3>. QED  BY <3>1, SubSeqProperties
  <2>. QED  BY <1>1, <1>4, <2>1
<1>8. a \o b = c
  <2>1. /\ a \o b \in Seq(S) /\ Len(a \o b) = m + n
        /\ \A i \in 1..(m + n) : (a \o b)[i] = IF i <= m THEN a[i] ELSE b[i - m]
    <3>1. /\ a \o b \in Seq(S) /\ Len(a \o b) = Len(a) + Len(b)
          /\ \A i \in 1..(Len(a) + Len(b)) :
                 (a \o b)[i] = IF i <= Len(a) THEN a[i] ELSE b[i - Len(a)]
          BY <1>5, <1>6, ConcatProperties
    <3>. QED  BY <1>5, <1>6, <3>1
  <2>2. \A i \in 1..(m + n) : (a \o b)[i] = c[i]
    <3>. SUFFICES ASSUME NEW i \in 1..(m + n) PROVE (a \o b)[i] = c[i]  OBVIOUS
    <3>1. CASE i <= m  BY <1>5, <1>7, <2>1, <3>1
    <3>2. CASE ~(i <= m)
      <4>1. PICK k : k = i - m /\ k \in 1..n /\ m + k = i  BY <1>1, <3>2
      <4>2. (a \o b)[i] = b[k]  BY <2>1, <3>2, <4>1
      <4>3. b[k] = l[i] /\ c[i] = l[i]  BY <1>6, <1>7, <4>1
      <4>. QED  BY <4>2, <4>3
    <3>. QED  BY <3>1, <3>2
  <2>. QED  BY <1>7, <2>1, <2>2, SeqEqual
<1>9. SubSeq(l, 1, Len(l)) = l
  <2>1. /\ SubSeq(l, 1, Len(l)) \in Seq(S)
        /\ Len(SubSeq(l, 1, Len(l))) = IF 1 <= Len(l) THEN Len(l) - 1 + 1 ELSE 0
        /\ \A i \in 1..(Len(l) - 1 + 1) : SubSeq(l, 1, Len(l))[i] = l[1 + i - 1]
    <3>1. 1 \in Int /\ Len(l) \in Int /\ \A i \in 1..Len(l) : l[i] \in S  BY <1>1
    <3>. QED  BY <3>1, SubSeqProperties
  <2>. QED  BY <1>1, <2>1, SeqEqual
<1>10. IsList(b)  BY <1>6, ListOf
<1>. QED  BY <1>2, <1>3, <1>4, <1>6, <1>8, <1>9, <1>10

LEMMA AssignServes ==
    ASSUME ScopeInv, IsList(positional), NEW i \in 1..Len(Declared), NEW acc, Served(acc, i - 1)
    PROVE  /\ Served(Assign(acc, i), i)
           /\ acc.error # "none" => Assign(acc, i).error # "none"
           /\ acc.error = "none" /\ Assign(acc, i).error = "none" =>
                  LET n == Take(i, Len(positional) - acc.taken)
                  IN  /\ Assign(acc, i).taken = acc.taken + n
                      /\ \A j \in 1..(i - 1) : Assign(acc, i).arguments[j] = acc.arguments[j]
                      /\ Assign(acc, i).arguments[i] = <<>> => n = 0
<1>. DEFINE n == Take(i, Len(positional) - acc.taken)
            values == SubSeq(positional, acc.taken + 1, acc.taken + n)
            served == [taken |-> acc.taken + Len(values),
                       arguments |-> Append(acc.arguments, Accepted(Declared[i], values)),
                       error |-> Refusal(Declared[i], values)]
            without == [acc EXCEPT !.arguments = Append(@, <<>>)]
<1>1. /\ Len(positional) \in Nat /\ i \in Nat /\ i - 1 + 1 = i /\ Len(acc.arguments) = i - 1
      /\ acc.taken \in 0..Len(positional) /\ Len(positional) - acc.taken \in Nat /\ IsList(acc.arguments)
      BY DeclaredFacts, ListFacts DEF Served
<1>2. n \in 0..(Len(positional) - acc.taken)  BY <1>1, TakeFacts
<1>3. Assign(acc, i) = IF acc.error # "none" THEN without ELSE served  BY DEF Assign
<1>. HIDE DEF n
<1>4. /\ SubSeq(positional, 1, acc.taken) \o values = SubSeq(positional, 1, acc.taken + n)
      /\ IsList(values) /\ Len(values) = n
      BY <1>1, <1>2, Adjacent
<1>5. CASE acc.error # "none"
  <2>1. PICK x : x = without  OBVIOUS
  <2>2. x = [taken |-> acc.taken, arguments |-> Append(acc.arguments, <<>>), error |-> acc.error]
        BY <2>1 DEF Served
  <2>3. /\ x.taken = acc.taken /\ x.arguments = Append(acc.arguments, <<>>) /\ x.error = acc.error
        /\ x = [taken |-> x.taken, arguments |-> x.arguments, error |-> x.error]
        BY <2>2
  <2>4. IsList(x.arguments) /\ Len(x.arguments) = i  BY <1>1, <2>3, Appended
  <2>5. Served(x, i)  BY <1>5, <2>3, <2>4 DEF Served
  <2>. QED  BY <1>3, <1>5, <2>1, <2>3, <2>5
<1>6. CASE acc.error = "none"
  <2>1. PICK x : x = served  OBVIOUS
  <2>2. PICK kept : kept = Accepted(Declared[i], values)  OBVIOUS
  <2>3. /\ x.taken = acc.taken + n /\ x.arguments = Append(acc.arguments, kept)
        /\ x.error = Refusal(Declared[i], values)
        /\ x = [taken |-> x.taken, arguments |-> x.arguments, error |-> x.error]
        BY <1>4, <2>1, <2>2
  <2>4. x.error \in Refusals \cup {"none"} /\ (x.error = "none" => kept = values)
    <3>. HIDE DEF values
    <3>1. Len(values) \in Nat
      <4>1. \A m \in 0..(Len(positional) - acc.taken) : m \in Nat  BY <1>1
      <4>. QED  BY <1>2, <1>4, <4>1
    <3>2. Range(Declared[i].refuses) \subseteq Refusals  BY DeclaredFacts
    <3>3. /\ Refusal(Declared[i], values) \in Refusals \cup {"none"}
          /\ Refusal(Declared[i], values) = "none" => Accepted(Declared[i], values) = values
          BY <3>1, <3>2, RefusalFacts
    <3>. QED  BY <2>2, <2>3, <3>3
  <2>. HIDE DEF values
  <2>5. /\ IsList(x.arguments) /\ Len(x.arguments) = i
        /\ \A j \in 1..(i - 1) : x.arguments[j] = acc.arguments[j]
        /\ x.arguments[i] = kept
        BY <1>1, <2>3, Appended
  <2>6. x.error = "none" => FlattenSeq(x.arguments) = SubSeq(positional, 1, x.taken)
    <3>. SUFFICES ASSUME x.error = "none" PROVE FlattenSeq(x.arguments) = SubSeq(positional, 1, x.taken)
         OBVIOUS
    <3>1. x.arguments = Append(acc.arguments, values)  BY <2>3, <2>4
    <3>2. FlattenSeq(x.arguments) = FlattenSeq(acc.arguments) \o values
          BY <1>1, <1>4, <3>1, FlattenAppend
    <3>. QED  BY <1>4, <1>6, <2>3, <3>2 DEF Served
  <2>7. x.taken \in 0..Len(positional)  BY <1>1, <1>2, <2>3
  <2>8. Served(x, i)  BY <2>3, <2>4, <2>5, <2>6, <2>7 DEF Served
  <2>9. x.error = "none" /\ x.arguments[i] = <<>> => n = 0
    <3>1. kept = <<>> => Len(kept) = 0  OBVIOUS
    <3>. QED  BY <1>4, <2>4, <2>5, <3>1
  <2>10. Assign(acc, i) = x  BY <1>3, <1>6, <2>1 DEF values
  <2>. QED  BY <1>6, <2>3, <2>5, <2>8, <2>9, <2>10 DEF n
<1>. QED  BY <1>5, <1>6

\* No argument that is required goes without while those after it have any.
Enough(acc, k) ==
    acc.error = "none" =>
        /\ k < Len(Declared) /\ Declared[k + 1].required =>
               \/ acc.taken <= k
               \/ Len(positional) - acc.taken >= Cardinality(RequiredAfter(k))
        /\ \A i \in 1..k : Declared[i].required /\ acc.arguments[i] = <<>> =>
               Len(positional) < Cardinality(Required)

LEMMA AssignIsEnough ==
    ASSUME ScopeInv, IsList(positional), NEW i \in 1..Len(Declared), NEW acc,
           Served(acc, i - 1), Enough(acc, i - 1)
    PROVE  Enough(Assign(acc, i), i)
<1>1. PICK new : new = Assign(acc, i)  OBVIOUS
<1>2. PICK n : n = Take(i, Len(positional) - acc.taken)  OBVIOUS
<1>3. PICK size \in Nat : size = Len(positional)  BY ListFacts
<1>4. /\ Len(Declared) \in Nat /\ DOMAIN Declared = 1..Len(Declared) /\ i \in Nat /\ i - 1 \in Nat /\ i - 1 + 1 = i
      /\ CanFollow(Declared, i) /\ (i < Len(Declared) => CanFollow(Declared, i + 1))
      BY DeclaredFacts
<1>. SUFFICES ASSUME new.error = "none"
              PROVE  /\ i < Len(Declared) /\ Declared[i + 1].required =>
                            new.taken <= i \/ size - new.taken >= Cardinality(RequiredAfter(i))
                     /\ \A j \in 1..i : Declared[j].required /\ new.arguments[j] = <<>> =>
                            size < Cardinality(Required)
     BY <1>1, <1>3 DEF Enough
<1>5. acc.error = "none"  BY <1>1, AssignServes
<1>6. /\ new.taken = acc.taken + n
      /\ \A j \in 1..(i - 1) : new.arguments[j] = acc.arguments[j]
      /\ new.arguments[i] = <<>> => n = 0
      BY <1>1, <1>2, <1>5, AssignServes
<1>7. PICK taken \in 0..size : taken = acc.taken  BY <1>3 DEF Served
<1>8. /\ n \in 0..(size - taken) /\ (n = 0 => size = taken)
      /\ Declared[i].arity # "remainder" =>
             n <= 1 \/ size - taken - n >= Cardinality(RequiredAfter(i))
  <2>1. PICK left \in Nat : left = size - taken  BY <1>7
  <2>2. n = Take(i, left)  BY <1>2, <1>3, <1>7, <2>1
  <2>3. /\ n \in 0..left /\ (n = 0 => left = 0)
        /\ Declared[i].arity # "remainder" => n <= 1 \/ left - n >= Cardinality(RequiredAfter(i))
        BY <2>2, TakeFacts
  <2>. QED  BY <1>7, <2>1, <2>3
<1>9. Declared[i].required =>
          /\ taken <= i - 1 \/ size - taken >= Cardinality(RequiredAfter(i - 1))
          /\ Cardinality(RequiredAfter(i - 1)) = Cardinality(RequiredAfter(i)) + 1
          /\ i <= Cardinality(Required)
  <2>. SUFFICES ASSUME Declared[i].required
                PROVE  /\ taken <= i - 1 \/ size - taken >= Cardinality(RequiredAfter(i - 1))
                       /\ Cardinality(RequiredAfter(i - 1)) = Cardinality(RequiredAfter(i)) + 1
                       /\ i <= Cardinality(Required)
       OBVIOUS
  <2>1. i - 1 < Len(Declared) /\ Declared[i - 1 + 1].required  BY <1>4
  <2>2. taken <= i - 1 \/ size - taken >= Cardinality(RequiredAfter(i - 1))
        BY <1>3, <1>5, <1>7, <2>1 DEF Enough
  <2>3. Cardinality(RequiredAfter(i - 1)) = Cardinality(RequiredAfter(i)) + 1
        BY <1>4, <2>1, RequiredFacts
  <2>4. \A j \in 1..i : Declared[j].required  BY <1>4 DEF CanFollow
  <2>5. i <= Cardinality(Required)  BY <1>4, <2>4, RequiredFacts
  <2>. QED  BY <2>2, <2>3, <2>5
<1>10. Cardinality(RequiredAfter(i)) \in Nat /\ Cardinality(Required) \in Nat
       BY <1>4, RequiredFacts
<1>11. ASSUME i < Len(Declared), Declared[i + 1].required
       PROVE  new.taken <= i \/ size - new.taken >= Cardinality(RequiredAfter(i))
  <2>1. i \in 1..((i + 1) - 1)  BY <1>4
  <2>2. Declared[i].required /\ Declared[i].arity # "remainder"  BY <1>4, <1>11, <2>1 DEF CanFollow
  <2>3. PICK r \in Nat : r = Cardinality(RequiredAfter(i))  BY <1>10
  <2>4. (taken <= i - 1 \/ size - taken >= r + 1) /\ (n <= 1 \/ size - taken - n >= r)
        BY <1>8, <1>9, <2>2, <2>3
  <2>5. PICK t \in Nat, m \in Nat : t = taken /\ m = n
    <3>1. \A x \in 0..(size - taken) : x \in Nat  OBVIOUS
    <3>. QED  BY <1>8, <3>1
  <2>6. (t <= i - 1 \/ size - t >= r + 1) /\ (m <= 1 \/ size - t - m >= r)  BY <2>4, <2>5
  <2>7. t + m <= i \/ size - (t + m) >= r
    <3>1. CASE size - t - m >= r  BY <3>1
    <3>2. CASE m <= 1 /\ t <= i - 1  BY <1>4, <3>2
    <3>3. CASE m <= 1 /\ size - t >= r + 1  BY <3>3
    <3>. QED  BY <2>6, <3>1, <3>2, <3>3
  <2>. QED  BY <1>6, <1>7, <2>3, <2>5, <2>7
<1>12. ASSUME NEW j \in 1..i, Declared[j].required, new.arguments[j] = <<>>
       PROVE  size < Cardinality(Required)
  <2>1. CASE j = i  BY <1>4, <1>6, <1>7, <1>8, <1>9, <1>10, <1>12, <2>1
  <2>2. CASE j # i
    <3>1. j \in 1..(i - 1)  BY <1>4, <2>2
    <3>. QED  BY <1>3, <1>5, <1>6, <1>12, <3>1 DEF Enough
  <2>. QED  BY <2>1, <2>2
<1>. QED  BY <1>11, <1>12

LEMMA AssignedFacts ==
    ASSUME ScopeInv, IsList(positional)
    PROVE  Served(Assigned, Len(Declared)) /\ Enough(Assigned, Len(Declared))
<1>1. Len(Declared) \in Nat /\ DOMAIN Declared = 1..Len(Declared)  BY DeclaredFacts
<1>2. PICK c : /\ c[0] = Unassigned /\ \A i \in 1..Len(Declared) : c[i] = Assign(c[i - 1], i)
               /\ Assigned = c[Len(Declared)]
      BY <1>1, AssignedSteps
<1>. DEFINE S == {n \in Nat : n <= Len(Declared) => Served(c[n], n) /\ Enough(c[n], n)}
<1>3. 0 \in S
  <2>1. PICK x : x = Unassigned  OBVIOUS
  <2>2. /\ x.taken = 0 /\ x.arguments = <<>> /\ x.error = "none"
        /\ x = [taken |-> x.taken, arguments |-> x.arguments, error |-> x.error]
        BY <2>1 DEF Unassigned
  <2>3. FlattenSeq(<<>>) = <<>> /\ Len(<<>>) = 0 /\ <<>> \in Seq({})  BY DEF FlattenSeq
  <2>4. IsList(<<>>)  BY <2>3, ListOf
  <2>5. Len(positional) \in Nat  BY ListFacts
  <2>6. Served(x, 0)
    <3>1. 0 < 1 /\ 1 \in Int /\ 0 \in Int  OBVIOUS
    <3>2. SubSeq(positional, 1, 0) = <<>>  BY <3>1, SubSeqEmpty
    <3>3. FlattenSeq(x.arguments) = SubSeq(positional, 1, x.taken)  BY <2>2, <2>3, <3>2
    <3>4. IsList(x.arguments) /\ Len(x.arguments) = 0 /\ x.taken \in 0..Len(positional)
          BY <2>2, <2>3, <2>4, <2>5
    <3>. QED  BY <2>2, <3>3, <3>4 DEF Served
  <2>7. Enough(x, 0)  BY <2>2 DEF Enough
  <2>. QED  BY <1>2, <2>1, <2>6, <2>7
<1>4. ASSUME NEW n \in Nat, n \in S PROVE n + 1 \in S
  <2>. SUFFICES ASSUME n + 1 <= Len(Declared) PROVE Served(c[n + 1], n + 1) /\ Enough(c[n + 1], n + 1)
       OBVIOUS
  <2>1. Served(c[n], n) /\ Enough(c[n], n)  BY <1>1, <1>4
  <2>2. PICK i : i = n + 1 /\ i \in 1..Len(Declared) /\ i - 1 = n  BY <1>1
  <2>3. c[i] = Assign(c[n], i) /\ Served(c[n], i - 1) /\ Enough(c[n], i - 1)  BY <1>2, <2>1, <2>2
  <2>4. Served(c[i], i) /\ Enough(c[i], i)  BY <2>2, <2>3, AssignServes, AssignIsEnough
  <2>. QED  BY <2>2, <2>4
<1>5. Len(Declared) \in S
  <2>. HIDE DEF S
  <2>. QED  BY <1>1, <1>3, <1>4, NatSets
<1>. QED  BY <1>1, <1>2, <1>5

LEMMA FlattenEmpty ==
    ASSUME NEW l, IsList(l), \A i \in 1..Len(l) : l[i] = <<>>
    PROVE  FlattenSeq(l) = <<>>
<1>1. Len(l) \in Nat  BY ListFacts
<1>2. CASE Len(l) = 0
  <2>1. l = <<>>  BY <1>2, EmptySeq DEF IsList
  <2>. QED  BY <1>2, <2>1 DEF FlattenSeq
<1>3. CASE Len(l) # 0
  <2>1. PICK c : /\ c[1] = l[1] /\ \A i \in 2..Len(l) : c[i] = c[i - 1] \o l[i]
                 /\ FlattenSeq(l) = c[Len(l)]
    <3>1. Len(l) \in Nat \ {0}  BY <1>1, <1>3
    <3>. QED  BY <3>1, FlattenSteps
  <2>. DEFINE S == {n \in Nat : n \in 1..Len(l) => c[n] = <<>>}
  <2>2. 0 \in S  OBVIOUS
  <2>3. ASSUME NEW n \in Nat, n \in S PROVE n + 1 \in S
    <3>. SUFFICES ASSUME n + 1 <= Len(l) PROVE c[n + 1] = <<>>  OBVIOUS
    <3>1. CASE n = 0  BY <1>1, <1>3, <2>1, <3>1
    <3>2. CASE n # 0
      <4>1. c[n] = <<>>  BY <1>1, <2>3, <3>2
      <4>2. n + 1 \in 2..Len(l) /\ n + 1 \in 1..Len(l) /\ (n + 1) - 1 = n  BY <1>1, <3>2
      <4>3. c[n + 1] = c[n] \o l[n + 1] /\ l[n + 1] = <<>>  BY <2>1, <4>2
      <4>4. <<>> \o <<>> = <<>>  BY ConcatEmptySeq
      <4>. QED  BY <4>1, <4>3, <4>4
    <3>. QED  BY <3>1, <3>2
  <2>4. Len(l) \in S
    <3>. HIDE DEF S
    <3>. QED  BY <1>1, <2>2, <2>3, NatSets
  <2>. QED  BY <1>1, <1>3, <2>1, <2>4
<1>. QED  BY <1>2, <1>3

-----------------------------------------------------------------------------
(* The invariant. *)

\* The arguments of the command have their values, and those that are required too, unless too
\* few were written.
Fits ==
    /\ IsList(arguments) /\ Len(arguments) = Len(Declared)
    /\ (\A i \in 1..Len(arguments) : arguments[i] = <<>>) => positional = <<>>
    /\ \A i \in 1..Len(arguments) :
           Declared[i].required /\ arguments[i] = <<>> => Len(positional) < Cardinality(Required)

\* The highest option given decides, or one stands in for a line that names nothing.
Decided ==
    \/ Covered(options, priorOption)
    \/ /\ phase \notin {"start", "read"} /\ positional = <<>>
       /\ Level(priorOption) = AutoSetWhenNoSymbols
       /\ \A i, j \in 1..Len(options) :
              options[i].occurrences # <<>> /\ options[j].occurrences # <<>> =>
                  options[i].option = options[j].option

\* What is wrong before anything is checked.
Early == (ReadErrors \ {"none"}) \cup {"ErrorReadingResponseFile", "UnknownCommand", "TooManyArguments"}

Progress ==
    /\ phase \in {"start", "read", "assign", "defaults", "check", "done"}
    /\ phase = "start" => error = "none" /\ pos = 1
    /\ phase = "read" => error \in ReadErrors
    /\ phase = "assign" => error = "none"
    /\ phase = "defaults" => error = "none" /\ Fits /\ FlattenSeq(arguments) = positional
    /\ phase = "check" => error = "none" /\ Fits
    /\ phase = "done" => error \in Early \/ (Fits /\ error = Complaint)

Texts == IsLine(tokens) /\ pos \in 1..(Len(tokens) + 1) /\ IsList(positional)

Inv == ScopeInv /\ Texts /\ IsPrior(priorOption) /\ Decided /\ Progress

\* Of a call that stays the same, what is said of its tree does.
LEMMA CallStays ==
    ASSUME call' = call
    PROVE  /\ Known' = Known /\ Commands' = Commands
           /\ \A o : Option(o)' = Option(o)
           /\ \A c : Command(c)' = Command(c)
           /\ \A opts : Listed(opts)' <=> Listed(opts)
           /\ \A prior : Level(prior)' = Level(prior)
           /\ \A prior : IsPrior(prior)' <=> IsPrior(prior)
           /\ \A opts, prior : Covered(opts, prior)' <=> Covered(opts, prior)
           /\ \A c, globals : InScope(c, globals)' = InScope(c, globals)
<1>1. Known' = Known /\ Commands' = Commands  BY DEF Known, Commands
<1>2. (\A o : Option(o)' = Option(o)) /\ (\A c : Command(c)' = Command(c))  BY DEF Option, Command
<1>3. \A opts : Listed(opts)' <=> Listed(opts)  BY <1>1 DEF Listed
<1>4. ASSUME NEW prior PROVE Level(prior)' = Level(prior)
  <2>1. {Option(o)'.prior : o \in prior} = {Option(o).prior : o \in prior}  BY <1>2
  <2>. QED  BY <2>1 DEF Level
<1>5. \A prior : IsPrior(prior)' <=> IsPrior(prior)  BY <1>1 DEF IsPrior
<1>6. \A opts, prior : Covered(opts, prior)' <=> Covered(opts, prior)  BY <1>2, <1>4 DEF Covered
<1>7. \A c, globals : InScope(c, globals)' = InScope(c, globals)  BY <1>2 DEF InScope
<1>. QED  BY <1>1, <1>2, <1>3, <1>4, <1>5, <1>6, <1>7

\* With the target the arguments it declares stay, and what they hold and its complaint do.
LEMMA ArgumentsStay ==
    ASSUME call' = call, target' = target, arguments' = arguments, positional' = positional
    PROVE  /\ Declared' = Declared /\ Required' = Required /\ (Fits' <=> Fits)
           /\ options' = options /\ priorOption' = priorOption => Complaint' = Complaint
<1>1. Declared' = Declared  BY CallStays DEF Declared
<1>2. Required' = Required  BY <1>1 DEF Required
<1>3. Fits' <=> Fits  BY <1>1, <1>2 DEF Fits
<1>4. options' = options /\ priorOption' = priorOption => Complaint' = Complaint
      BY <1>1, CallStays DEF Complaint, ForbidsArguments, ForbidsOptions
<1>. QED  BY <1>1, <1>2, <1>3, <1>4

LEMMA InitInv == ASSUME Init PROVE Inv
<1>1. <<>> \in Seq(Known) /\ Len(<<>>) = 0 /\ IsList(<<>>) /\ DOMAIN <<>> = {}
  <2>1. <<>> \in Seq({}) /\ <<>> \in Seq(Known) /\ Len(<<>>) = 0 /\ DOMAIN <<>> = {}  OBVIOUS
  <2>. QED  BY <2>1, ListOf
<1>2. ScopeInv  BY <1>1, TreeFacts DEF Init, ScopeInv, Listed, Spells, Commands
<1>3. Texts
  <2>1. IsLine(tokens)  BY TreesCanBeDeclared DEF Init
  <2>2. Len(tokens) \in Nat  BY <2>1, LineFacts
  <2>. QED  BY <1>1, <2>1, <2>2 DEF Init, Texts
<1>4. Decided  BY <1>1 DEF Init, Decided, Covered
<1>. QED  BY <1>2, <1>3, <1>4 DEF Inv, Init, IsPrior, Progress

LEMMA ScopeKeeps ==
    ASSUME ScopeInv, call' = call, target' \in Commands, inherited' \in Seq(Known),
           Listed(options'), Spells(byToken', options', InScope(target', inherited'))
    PROVE  ScopeInv'
BY CallStays DEF ScopeInv

\* Where the scope and the options stay, or the options have the same spellings.
LEMMA ScopeStays ==
    ASSUME ScopeInv, call' = call, UNCHANGED scope, Kept(options')
    PROVE  ScopeInv'
<1>1. target' = target /\ inherited' = inherited /\ byToken' = byToken  BY DEF scope
<1>2. Listed(options') /\ Len(options') = Len(options)
      /\ \A i \in 1..Len(options) : options'[i].option = options[i].option
      BY DEF Kept
<1>3. Len(options) \in Nat  BY ListFacts DEF ScopeInv, Listed
<1>4. Spells(byToken', options', InScope(target', inherited'))
  <2>1. Spells(byToken, options, InScope(target, inherited))  BY DEF ScopeInv
  <2>2. \A token \in DOMAIN byToken : byToken[token] # 0 => byToken[token] \in 1..Len(options)
        BY <1>3, <2>1 DEF Spells
  <2>. QED  BY <1>1, <1>2, <2>1, <2>2 DEF Spells
<1>. QED  BY <1>1, <1>2, <1>4, ScopeKeeps DEF ScopeInv

LEMMA KeptOptions == ASSUME ScopeInv, options' = options PROVE Kept(options')
BY DEF ScopeInv, Kept

LEMMA CoverStays ==
    ASSUME call \in Cases, call' = call, Listed(options), NEW prior, Covered(options, prior), Extends(options', options)
    PROVE  Covered(options', prior)
<1>1. \A i \in 1..Len(options') : i \in 1..Len(options) \/ i \in (Len(options) + 1)..Len(options')
  <2>1. Len(options) \in Nat  BY ListFacts DEF Listed
  <2>. QED  BY <2>1
<1>. QED  BY <1>1 DEF Covered, Extends

LEMMA StartKeeps == ASSUME Inv, Start PROVE Inv'
<1>1. call' = call /\ target' = target /\ inherited' = inherited /\ phase = "start" /\ phase' = "read"
      /\ pos' = pos /\ positional' = positional /\ priorOption' = priorOption /\ error' = error
      BY DEF Start
<1>2. target \in Commands /\ inherited \in Seq(Known) /\ call \in Cases  BY DEF Inv, ScopeInv
<1>3. /\ Listed(options') /\ Extends(options', options)
      /\ Spells(byToken', options', InScope(target, inherited))
      BY <1>2, CollectOptionsKeeps DEF Inv, Start
<1>4. ScopeInv'  BY <1>1, <1>2, <1>3, ScopeKeeps DEF Inv
<1>5. Texts'
  <2>1. IsLine(tokens')
    <3>1. CASE On("EnableResponseFile")  BY <3>1, ExpandedIsLine DEF Start, Inv, Texts
    <3>2. CASE ~On("EnableResponseFile")  BY <3>2 DEF Start, Inv, Texts
    <3>. QED  BY <3>1, <3>2
  <2>2. Len(tokens') \in Nat  BY <2>1, LineFacts
  <2>3. pos = 1  BY <1>1 DEF Inv, Progress
  <2>. QED  BY <1>1, <2>1, <2>2, <2>3 DEF Inv, Texts
<1>6. Covered(options', priorOption)
  <2>1. Covered(options, priorOption) /\ Listed(options)  BY <1>1 DEF Inv, Decided, ScopeInv
  <2>. QED  BY <1>1, <1>2, <1>3, <2>1, CoverStays
<1>7. IsPrior(priorOption)' /\ Decided'  BY <1>1, <1>6, CallStays DEF Inv, Decided
<1>8. Progress'  BY <1>1 DEF Inv, Progress, ReadErrors, TakeErrors
<1>. QED  BY <1>4, <1>5, <1>7, <1>8 DEF Inv

LEMMA CannotExpandKeeps == ASSUME Inv, CannotExpand PROVE Inv'
<1>1. /\ call' = call /\ tokens' = tokens /\ UNCHANGED scope /\ options' = options
      /\ pos' = pos /\ positional' = positional /\ priorOption' = priorOption
      /\ phase = "start" /\ phase' = "done" /\ error' = "ErrorReadingResponseFile"
      BY DEF CannotExpand, given
<1>2. ScopeInv'  BY <1>1, KeptOptions, ScopeStays DEF Inv
<1>3. IsPrior(priorOption)' /\ Decided'  BY <1>1, CallStays DEF Inv, Decided
<1>4. Progress'  BY <1>1 DEF Progress, Early
<1>. QED  BY <1>1, <1>2, <1>3, <1>4 DEF Inv, Texts

\* Steps that read a token and leave the scope and the options.
LEMMA ReadingKeeps ==
    ASSUME Inv, call' = call, tokens' = tokens, UNCHANGED scope, options' = options,
           priorOption' = priorOption, Reading, phase' = "read", error' = error, pos' = pos + 1,
           IsList(positional')
    PROVE  Inv'
<1>1. ScopeInv'  BY KeptOptions, ScopeStays DEF Inv
<1>2. pos' \in 1..(Len(tokens') + 1)
  <2>1. Len(tokens) \in Nat  BY LineFacts DEF Inv, Texts
  <2>. QED  BY <2>1 DEF Inv, Texts, Reading
<1>3. IsPrior(priorOption)' /\ Decided'  BY CallStays DEF Inv, Decided, Reading
<1>4. Progress'  BY DEF Inv, Progress, Reading
<1>. QED  BY <1>1, <1>2, <1>3, <1>4 DEF Inv, Texts

LEMMA ReadTerminatorKeeps == ASSUME Inv, ReadTerminator PROVE Inv'
<1>1. /\ call' = call /\ tokens' = tokens /\ UNCHANGED scope /\ options' = options
      /\ priorOption' = priorOption /\ Reading /\ phase' = "read" /\ error' = error /\ pos' = pos + 1
      /\ positional' = positional
      BY DEF ReadTerminator, given, Reading
<1>2. IsList(positional')  BY <1>1 DEF Inv, Texts
<1>. QED  BY <1>1, <1>2, ReadingKeeps

LEMMA ReadPositionalKeeps == ASSUME Inv, ReadPositional PROVE Inv'
<1>1. /\ call' = call /\ tokens' = tokens /\ UNCHANGED scope /\ options' = options
      /\ priorOption' = priorOption /\ Reading /\ phase' = "read" /\ error' = error /\ pos' = pos + 1
      /\ positional' = Append(positional, tokens[pos])
      BY DEF ReadPositional, given, Reading
<1>2. IsList(positional')  BY <1>1, Appended DEF Inv, Texts
<1>. QED  BY <1>1, <1>2, ReadingKeeps

\* One of the commands of the target.
LEMMA FirstOfFacts ==
    ASSUME ScopeInv, NEW commands, commands # {}, commands \subseteq Range(Command(target).commands)
    PROVE  FirstOf(commands) \in Range(Command(target).commands) /\ FirstOf(commands) \in Commands
<1>. DEFINE l == Command(target).commands
            I == {i \in 1..Len(l) : l[i] \in commands}
<1>1. l \in Seq(Commands) /\ Len(l) \in Nat /\ DOMAIN l = 1..Len(l)
      BY TreeFacts, LenProperties DEF ScopeInv
<1>2. I # {} /\ I \in SUBSET (1..Len(l))  BY <1>1 DEF Range
<1>3. FirstOf(commands) = l[Min(I)]  BY <1>2 DEF FirstOf, SelectInSeq
<1>. HIDE DEF I
<1>4. Min(I) \in 1..Len(l)  BY <1>1, <1>2, Picked
<1>. HIDE DEF l
<1>5. l[Min(I)] \in Range(l) /\ l[Min(I)] \in Commands  BY <1>1, <1>4, ElementOfSeq DEF Range
<1>. QED  BY <1>3, <1>5 DEF l

\* What a command passes on is known.
LEMMA EnterFacts ==
    ASSUME ScopeInv, NEW next \in Commands, Enter(next)
    PROVE  /\ target' = next /\ inherited' \in Seq(Known)
           /\ Listed(options') /\ Extends(options', options)
           /\ Spells(byToken', options', InScope(next, inherited'))
<1>1. Globals(target) \in Seq(Known) /\ inherited \in Seq(Known)  BY GlobalsKnown DEF ScopeInv
<1>2. inherited' = inherited \o Globals(target) /\ target' = next /\ CollectOptions(next, inherited')
      BY DEF Enter
<1>3. PICK globals : globals = inherited'  OBVIOUS
<1>4. globals \in Seq(Known)  BY <1>1, <1>2, <1>3, ConcatProperties
<1>5. CollectOptions(next, globals)  BY <1>2, <1>3
<1>. QED  BY <1>2, <1>3, <1>4, <1>5, CollectOptionsKeeps

LEMMA ReadSubcommandKeeps == ASSUME Inv, ReadSubcommand PROVE Inv'
<1>1. /\ call' = call /\ tokens' = tokens /\ priorOption' = priorOption /\ Reading
      /\ phase = "read" /\ phase' = "read" /\ error' = error /\ pos' = pos + 1 /\ positional' = positional
      BY DEF ReadSubcommand, given, Reading
<1>2. PICK next \in Commands : Enter(next)
  <2>1. Subcommand(tokens[pos]) # {} /\ Subcommand(tokens[pos]) \subseteq Range(Command(target).commands)
        BY DEF ReadSubcommand, Subcommand
  <2>. QED  BY <2>1, FirstOfFacts DEF Inv, ReadSubcommand
<1>3. /\ target' = next /\ inherited' \in Seq(Known)
      /\ Listed(options') /\ Extends(options', options)
      /\ Spells(byToken', options', InScope(next, inherited'))
      BY <1>2, EnterFacts DEF Inv
<1>4. ScopeInv'  BY <1>1, <1>3, ScopeKeeps DEF Inv
<1>5. Texts'
  <2>1. Len(tokens) \in Nat  BY LineFacts DEF Inv, Texts
  <2>. QED  BY <1>1, <2>1 DEF Inv, Texts, Reading
<1>6. Covered(options', priorOption)
  <2>1. Covered(options, priorOption) /\ Listed(options) /\ call \in Cases
        BY <1>1 DEF Inv, Decided, ScopeInv
  <2>. QED  BY <1>1, <1>3, <2>1, CoverStays
<1>7. IsPrior(priorOption)' /\ Decided'  BY <1>1, <1>6, CallStays DEF Inv, Decided
<1>8. Progress'  BY <1>1 DEF Inv, Progress
<1>. QED  BY <1>4, <1>5, <1>7, <1>8 DEF Inv

\* What one token is read as.
LEMMA ReadOptionSound ==
    ASSUME Inv, Reading, ReadOption(tokens[pos])
    PROVE  Sound([options |-> options', prior |-> priorOption', pos |-> pos', error |-> error'])
<1>. DEFINE token == tokens[pos]
            new == [options |-> options', prior |-> priorOption', pos |-> pos', error |-> error']
<1>1. ScopeInv /\ IsLine(tokens) /\ IsPrior(priorOption)  BY DEF Inv, Texts
<1>2. Len(tokens) \in Nat /\ IsList(token) /\ pos + 1 \in 1..(Len(tokens) + 1)
      BY <1>1, LineFacts DEF Inv, Texts, Reading
<1>3. Covered(options, priorOption) /\ Kept(options)
      BY <1>1 DEF Inv, Decided, Reading, Kept, ScopeInv
<1>4. ASSUME NEW e \in ReadErrors
      PROVE  Sound([options |-> options, prior |-> priorOption, pos |-> pos + 1, error |-> e])
  <2>1. PICK x : x = [options |-> options, prior |-> priorOption, pos |-> pos + 1, error |-> e]
        OBVIOUS
  <2>2. /\ x.options = options /\ x.prior = priorOption /\ x.pos = pos + 1 /\ x.error = e
        /\ x = [options |-> x.options, prior |-> x.prior, pos |-> x.pos, error |-> x.error]
        BY <2>1
  <2>3. Sound(x)  BY <1>1, <1>2, <1>3, <2>2 DEF Sound
  <2>. QED  BY <2>1, <2>3
<1>5. "none" \in ReadErrors /\ "UnknownOption" \in ReadErrors  BY DEF ReadErrors, TakeErrors
<1>. HIDE DEF token
<1>6. CASE Meaning(token) = Nothing
  <2>1. /\ error' = "UnknownOption" /\ pos' = pos + 1 /\ options' = options
        /\ priorOption' = priorOption
        BY <1>6 DEF ReadOption, token
  <2>. QED  BY <1>4, <1>5, <2>1
<1>7. CASE Meaning(token) # Nothing
  <2>1. Sound(Unread)  BY <1>4, <1>5 DEF Unread
  <2>2. Sound(Read(Meaning(token)))
        BY <1>1, <1>2, <2>1, MeaningReaches, MeaningJoins, ReadSound
  <2>3. PICK r : r = Read(Meaning(token)) /\ Sound(r)  BY <2>2
  <2>4. options' = r.options /\ priorOption' = r.prior /\ pos' = r.pos /\ error' = r.error
        BY <1>7, <2>3 DEF ReadOption, Reads, token
  <2>5. r = new  BY <2>3, <2>4 DEF Sound
  <2>. QED  BY <2>3, <2>5
<1>. QED  BY <1>6, <1>7

LEMMA ReadOptionTokenKeeps == ASSUME Inv, ReadOptionToken PROVE Inv'
<1>1. /\ call' = call /\ tokens' = tokens /\ UNCHANGED scope /\ Reading /\ phase = "read"
      /\ phase' = "read" /\ positional' = positional /\ ReadOption(tokens[pos])
      BY DEF ReadOptionToken, given, Reading
<1>2. PICK r : r = [options |-> options', prior |-> priorOption', pos |-> pos', error |-> error']
      OBVIOUS
<1>3. Sound(r)  BY <1>1, <1>2, ReadOptionSound
<1>4. /\ Kept(options') /\ IsPrior(priorOption') /\ Covered(options', priorOption')
      /\ pos' \in 1..(Len(tokens) + 1) /\ error' \in ReadErrors
  <2>1. r.options = options' /\ r.prior = priorOption' /\ r.pos = pos' /\ r.error = error'
        BY <1>2
  <2>. QED  BY <1>3, <2>1 DEF Sound
<1>5. ScopeInv'  BY <1>1, <1>4, ScopeStays DEF Inv
<1>6. IsPrior(priorOption)' /\ Decided'  BY <1>1, <1>4, CallStays DEF Decided
<1>7. Progress'  BY <1>1, <1>4 DEF Progress
<1>8. Texts'  BY <1>1, <1>4 DEF Inv, Texts
<1>. QED  BY <1>5, <1>6, <1>7, <1>8 DEF Inv

\* An option that stands in for an empty line is in scope.
LEMMA StandInFacts ==
    ASSUME ScopeInv, StandIns # {}
    PROVE  LET o == InScope(target, inherited)[Min(StandIns)]
           IN  /\ o \in Known /\ Option(o).prior = AutoSetWhenNoSymbols
               /\ Option(o).tokens[1] \in DOMAIN byToken
<1>. DEFINE l == InScope(target, inherited)
<1>1. l \in Seq(Known) /\ Len(l) \in Nat /\ DOMAIN l = 1..Len(l)
      BY ScopeFacts, LenProperties DEF ScopeInv
<1>2. StandIns \in SUBSET (1..Len(l))  BY <1>1 DEF StandIns
<1>3. Min(StandIns) \in StandIns  BY <1>1, <1>2, Picked
<1>4. PICK k : k = Min(StandIns) /\ k \in StandIns /\ k \in 1..Len(l)  BY <1>2, <1>3
<1>5. Option(l[k]).prior = AutoSetWhenNoSymbols /\ Option(l[k]).tokens[1] \in DOMAIN byToken
      BY <1>4 DEF StandIns
<1>. HIDE DEF l
<1>6. l[k] \in Known  BY <1>1, <1>4, ElementOfSeq
<1>. QED  BY <1>4, <1>5, <1>6 DEF l

\* The stand-in's slot is that of an option in scope, and is filled once.
LEMMA StandInSound ==
    ASSUME ScopeInv, NEW i \in 0..Len(options), NEW slots,
           options' = [options EXCEPT ![i].occurrences = Append(@, slots)]
    PROVE  /\ Kept(options')
           /\ \A j \in 1..Len(options) : j # i => options'[j] = options[j]
<1>1. Len(options) \in Nat /\ DOMAIN options = 1..Len(options) /\ options = [j \in 1..Len(options) |-> options[j]]
      BY ListFacts DEF ScopeInv, Listed
<1>2. CASE i = 0
  <2>1. options' = options  BY <1>1, <1>2
  <2>. QED  BY <2>1, KeptOptions
<1>3. CASE i # 0
  <2>. DEFINE new == Occurring(options, i, slots)
  <2>1. i \in 1..Len(options) /\ Listed(options)  BY <1>1, <1>3 DEF ScopeInv
  <2>2. /\ Listed(new) /\ Len(new) = Len(options)
        /\ \A j \in 1..Len(options) : new[j].option = options[j].option
        /\ \A j \in 1..Len(options) : j # i => new[j] = options[j]
        BY <2>1, OccursOnce
  <2>3. options' = new  BY DEF Occurring
  <2>. HIDE DEF new
  <2>. QED  BY <2>2, <2>3 DEF Kept
<1>. QED  BY <1>2, <1>3

LEMMA ReadingEndsKeeps == ASSUME Inv, ReadingEnds PROVE Inv'
<1>1. /\ call' = call /\ tokens' = tokens /\ UNCHANGED scope /\ phase = "read"
      /\ pos' = pos /\ positional' = positional /\ error' = error /\ Texts'
      BY DEF ReadingEnds, given, Inv, Texts
<1>2. Covered(options, priorOption) /\ call \in Cases /\ error \in ReadErrors
      BY <1>1 DEF Inv, Decided, ScopeInv, Progress
<1>3. CASE options' = options /\ priorOption' = priorOption /\
           ((Failed /\ phase' = "done") \/ (~Failed /\ phase' = "assign"))
  <2>1. ScopeInv'  BY <1>1, <1>3, KeptOptions, ScopeStays DEF Inv
  <2>2. IsPrior(priorOption)' /\ Decided'  BY <1>1, <1>2, <1>3, CallStays DEF Inv, Decided
  <2>3. Progress'  BY <1>1, <1>2, <1>3 DEF Progress, Early, Failed
  <2>. QED  BY <1>1, <2>1, <2>2, <2>3 DEF Inv
<1>4. ASSUME ~Failed, phase' = "assign", positional = <<>>, ~AnythingGiven, StandIns # {},
             NEW o, o = InScope(target, inherited)[Min(StandIns)],
             options' = [options EXCEPT ![byToken[Option(o).tokens[1]]].occurrences =
                            Append(@, [k \in DOMAIN Option(o).arguments |-> <<>>])],
             priorOption' = {o}
      PROVE  Inv'
  <2>1. o \in Known /\ Option(o).prior = AutoSetWhenNoSymbols /\ Option(o).tokens[1] \in DOMAIN byToken
        BY <1>4, StandInFacts DEF Inv
  <2>2. PICK i : i = byToken[Option(o).tokens[1]] /\ i \in 0..Len(options)
        BY <2>1 DEF Inv, ScopeInv, Spells
  <2>3. /\ Kept(options')
        /\ \A j \in 1..Len(options) : j # i => options'[j] = options[j]
        BY <1>4, <2>2, StandInSound DEF Inv
  <2>4. ScopeInv'  BY <1>1, <2>3, ScopeStays DEF Inv
  <2>5. \A j \in 1..Len(options) : options[j].occurrences = <<>>
    <3>1. Listed(options)  BY DEF Inv, ScopeInv
    <3>2. \A j \in 1..Len(options) : options[j] \in Range(options)
          BY <3>1, ListFacts DEF Listed, Range
    <3>. QED  BY <1>4, <3>2 DEF AnythingGiven
  <2>6. Len(options') = Len(options) /\ \A j \in 1..Len(options) : options'[j].occurrences # <<>> => j = i
        BY <2>3, <2>5 DEF Kept
  <2>7. Level({o}) = AutoSetWhenNoSymbols  BY <1>2, <2>1, LevelFacts
  <2>8. IsPrior(priorOption)' /\ Decided'
    <3>1. IsPrior({o}) /\ Level(priorOption') = AutoSetWhenNoSymbols
          BY <1>4, <2>1, <2>7 DEF IsPrior
    <3>2. \A j, k \in 1..Len(options') :
              options'[j].occurrences # <<>> /\ options'[k].occurrences # <<>> =>
                  options'[j].option = options'[k].option
          BY <2>6
    <3>. QED  BY <1>1, <1>4, <3>1, <3>2, CallStays DEF Decided
  <2>9. Progress'  BY <1>1, <1>4 DEF Progress, Failed
  <2>. QED  BY <1>1, <2>4, <2>8, <2>9 DEF Inv
<1>5. QED  BY <1>3, <1>4 DEF ReadingEnds

LEMMA AssignKeeps == ASSUME Inv, AssignPositional PROVE Inv'
<1>1. /\ call' = call /\ tokens' = tokens /\ UNCHANGED scope /\ target' = target /\ phase = "assign"
      /\ pos' = pos /\ positional' = positional /\ options' = options /\ priorOption' = priorOption
      /\ phase' = (IF error' # "none" THEN "done" ELSE "defaults")
      BY DEF AssignPositional, given, scope
<1>2. ScopeInv'  BY <1>1, KeptOptions, ScopeStays DEF Inv
<1>3. IsPrior(priorOption)' /\ Decided'  BY <1>1, CallStays DEF Inv, Decided
<1>4. Served(Assigned, Len(Declared)) /\ Enough(Assigned, Len(Declared))
      BY AssignedFacts DEF Inv, Texts
<1>5. PICK all : all = Assigned  OBVIOUS
<1>6. /\ arguments' = all.arguments /\ IsList(positional) /\ Len(Declared) \in Nat
      /\ DOMAIN Declared = 1..Len(Declared)
      BY <1>5, DeclaredFacts DEF AssignPositional, Inv, Texts
<1>7. CASE error' # "none"
  <2>1. error' \in Refusals \/ error' = Surplus(all.taken)
        BY <1>4, <1>5, <1>7 DEF AssignPositional, Served
  <2>2. error' \in Early  BY <1>7, <2>1 DEF Surplus, Early, ReadErrors, TakeErrors, Refusals
  <2>. QED  BY <1>1, <1>2, <1>3, <1>7, <2>2 DEF Inv, Texts, Progress
<1>8. CASE error' = "none"
  <2>1. all.error = "none" /\ all.taken = Len(positional)
        BY <1>5, <1>8 DEF AssignPositional, Surplus
  <2>2. FlattenSeq(arguments') = positional
    <3>1. FlattenSeq(all.arguments) = SubSeq(positional, 1, Len(positional))
          BY <1>4, <1>5, <2>1 DEF Served
    <3>2. Len(positional) \in Nat  BY <1>6, ListFacts
    <3>3. SubSeq(positional, 1, Len(positional)) = positional
      <4>1. 0 \in 0..Len(positional) /\ 0 \in 0..(Len(positional) - 0)  BY <3>2
      <4>. QED  BY <1>6, <4>1, Adjacent
    <3>. QED  BY <1>6, <3>1, <3>3
  <2>3. IsList(arguments') /\ Len(arguments') = Len(Declared)  BY <1>4, <1>5, <1>6 DEF Served
  <2>4. (\A i \in 1..Len(arguments') : arguments'[i] = <<>>) => positional = <<>>
        BY <2>2, <2>3, FlattenEmpty
  <2>5. \A i \in 1..Len(arguments') :
            Declared[i].required /\ arguments'[i] = <<>> => Len(positional) < Cardinality(Required)
        BY <1>4, <1>5, <1>6, <2>1, <2>3 DEF Enough
  <2>6. Declared' = Declared /\ Required' = Required
    <3>1. Declared' = Declared  BY <1>1, CallStays DEF Declared
    <3>. QED  BY <3>1 DEF Required
  <2>7. Fits'  BY <1>1, <2>3, <2>4, <2>5, <2>6 DEF Fits
  <2>8. Progress'  BY <1>1, <1>8, <2>2, <2>7 DEF Progress
  <2>. QED  BY <1>1, <1>2, <1>3, <2>8 DEF Inv, Texts
<1>. QED  BY <1>7, <1>8

LEMMA ListFrom ==
    ASSUME NEW n \in Nat, NEW S, NEW f \in [1..n -> S]
    PROVE  IsList(f) /\ Len(f) = n
<1>1. DOMAIN f = 1..n  OBVIOUS
<1>2. f \in Seq(S)  BY SeqDef, Zenon
<1>3. IsList(f)  BY <1>2, ListOf
<1>4. Len(f) = n  BY <1>1, <1>2, LenProperties
<1>. QED  BY <1>3, <1>4

LEMMA DefaultsKeep == ASSUME Inv, ApplyDefaults PROVE Inv'
<1>1. /\ call' = call /\ tokens' = tokens /\ UNCHANGED scope /\ target' = target
      /\ phase = "defaults" /\ phase' = "check" /\ pos' = pos /\ positional' = positional
      /\ priorOption' = priorOption /\ error' = error
      BY DEF ApplyDefaults, given, scope
<1>2. Listed(options) /\ Len(options) \in Nat /\ DOMAIN options = 1..Len(options)
      BY ListFacts DEF Inv, ScopeInv, Listed
<1>. DEFINE slots(i) == [n \in DOMAIN options[i].occurrences |-> [k \in DOMAIN options[i].occurrences[n] |->
                            OrDefault(options[i].occurrences[n][k], Option(options[i].option).arguments[k])]]
<1>3. options' = [i \in 1..Len(options) |-> [option |-> options[i].option, occurrences |-> slots(i)]]
  <2>1. \A i \in 1..Len(options) :
            [options[i] EXCEPT !.occurrences = slots(i)] = [option |-> options[i].option, occurrences |-> slots(i)]
    <3>. SUFFICES ASSUME NEW i \in 1..Len(options), NEW s, s = slots(i)
                  PROVE  [options[i] EXCEPT !.occurrences = s] = [option |-> options[i].option, occurrences |-> s]
         OBVIOUS
    <3>. HIDE DEF slots
    <3>1. options[i] = [option |-> options[i].option, occurrences |-> options[i].occurrences]
          BY <1>2 DEF Listed
    <3>. QED  BY <3>1
  <2>. QED  BY <1>2, <2>1 DEF ApplyDefaults
<1>4. \A i \in 1..Len(options) : options[i].occurrences = <<>> => slots(i) = <<>>
  <2>. SUFFICES ASSUME NEW i \in 1..Len(options), options[i].occurrences = <<>> PROVE slots(i) = <<>>
       OBVIOUS
  <2>1. DOMAIN options[i].occurrences = 1..0  OBVIOUS
  <2>2. slots(i) \in [1..0 -> Range(slots(i))]  BY <2>1 DEF Range
  <2>. HIDE DEF slots
  <2>3. IsList(slots(i)) /\ Len(slots(i)) = 0  BY <2>2, ListFrom
  <2>. QED  BY <2>3, EmptySeq DEF IsList
<1>. HIDE DEF slots
<1>5. Kept(options')
  <2>1. IsList(options') /\ Len(options') = Len(options)
    <3>1. \A i \in 1..Len(options) : options'[i] \in Range(options')  BY <1>3 DEF Range
    <3>2. options' \in [1..Len(options) -> Range(options')]  BY <1>3, <3>1
    <3>. QED  BY <1>2, <3>2, ListFrom
  <2>2. \A i \in 1..Len(options) :
            /\ options'[i].option = options[i].option /\ options'[i].option \in Known
            /\ options'[i] = [option |-> options'[i].option, occurrences |-> options'[i].occurrences]
        BY <1>2, <1>3 DEF Listed
  <2>. QED  BY <2>1, <2>2 DEF Kept, Listed
<1>6. \A i \in 1..Len(options) : options'[i].occurrences # <<>> => options[i].occurrences # <<>>
      BY <1>3, <1>4
<1>7. ScopeInv'  BY <1>1, <1>5, ScopeStays DEF Inv
<1>8. IsPrior(priorOption)' /\ Decided'
  <2>1. CASE Covered(options, priorOption)
    <3>1. Covered(options', priorOption)  BY <1>5, <1>6, <2>1 DEF Covered, Kept
    <3>. QED  BY <1>1, <3>1, CallStays DEF Inv, Decided
  <2>2. CASE ~Covered(options, priorOption)
    <3>1. Len(options') = Len(options) /\ \A i \in 1..Len(options) : options'[i].option = options[i].option
          BY <1>5 DEF Kept
    <3>. QED  BY <1>1, <1>6, <2>2, <3>1, CallStays DEF Inv, Decided
  <2>. QED  BY <2>1, <2>2
<1>9. Fits /\ error = "none"  BY <1>1 DEF Inv, Progress
<1>10. /\ IsList(arguments') /\ Len(arguments') = Len(arguments)
       /\ \A i \in 1..Len(arguments) : arguments'[i] = <<>> => arguments[i] = <<>>
  <2>1. Len(arguments) \in Nat /\ DOMAIN arguments = 1..Len(arguments)  BY <1>9, ListFacts DEF Fits
  <2>2. arguments' = [i \in 1..Len(arguments) |-> OrDefault(arguments[i], Declared[i])]
        BY <2>1 DEF ApplyDefaults
  <2>3. \A i \in 1..Len(arguments) : arguments'[i] \in Range(arguments')  BY <2>2 DEF Range
  <2>4. arguments' \in [1..Len(arguments) -> Range(arguments')]  BY <2>2, <2>3
  <2>5. IsList(arguments') /\ Len(arguments') = Len(arguments)  BY <2>1, <2>4, ListFrom
  <2>6. \A i \in 1..Len(arguments) : arguments'[i] = <<>> => arguments[i] = <<>>
        BY <2>2 DEF OrDefault
  <2>. QED  BY <2>5, <2>6
<1>11. Fits'
  <2>1. Declared' = Declared  BY <1>1, CallStays DEF Declared
  <2>2. Required' = Required  BY <2>1 DEF Required
  <2>. QED  BY <1>1, <1>9, <1>10, <2>1, <2>2 DEF Fits
<1>12. Progress'  BY <1>1, <1>9, <1>11 DEF Progress
<1>. QED  BY <1>1, <1>7, <1>8, <1>12 DEF Inv, Texts

LEMMA CheckKeeps == ASSUME Inv, CheckRequired PROVE Inv'
<1>1. /\ call' = call /\ tokens' = tokens /\ UNCHANGED scope /\ target' = target /\ phase = "check"
      /\ phase' = "done" /\ pos' = pos /\ positional' = positional /\ options' = options
      /\ priorOption' = priorOption /\ arguments' = arguments /\ error' = Complaint
      BY DEF CheckRequired, given, scope
<1>2. ScopeInv'  BY <1>1, KeptOptions, ScopeStays DEF Inv
<1>3. IsPrior(priorOption)' /\ Decided'  BY <1>1, CallStays DEF Inv, Decided
<1>4. Fits' /\ error' = Complaint'  BY <1>1, ArgumentsStay DEF Inv, Progress
<1>5. Progress'  BY <1>1, <1>4 DEF Progress
<1>. QED  BY <1>1, <1>2, <1>3, <1>5 DEF Inv, Texts

LEMMA StutterKeeps == ASSUME Inv, UNCHANGED vars PROVE Inv'
<1>1. /\ call' = call /\ tokens' = tokens /\ UNCHANGED scope /\ target' = target
      /\ phase' = phase /\ pos' = pos /\ positional' = positional /\ options' = options
      /\ priorOption' = priorOption /\ arguments' = arguments /\ error' = error
      BY DEF vars, given, scope
<1>2. ScopeInv'  BY <1>1, KeptOptions, ScopeStays DEF Inv
<1>3. IsPrior(priorOption)' /\ Decided'  BY <1>1, CallStays DEF Inv, Decided
<1>4. (Fits' <=> Fits) /\ Complaint' = Complaint  BY <1>1, ArgumentsStay
<1>5. Progress'  BY <1>1, <1>4 DEF Inv, Progress
<1>. QED  BY <1>1, <1>2, <1>3, <1>5 DEF Inv, Texts

\* Whatever the tree and the line: the options collected are of the tree, and a spelling leads
\* to one of them that is in scope; the level noted is that of an option given, and no option
\* given has a higher one, but for those that stand in for a line with nothing on it; and a
\* parse that is not refused early ends with what the final checks find (ParserCore::run,
\* commandline.cpp 1597-1650).
THEOREM Invariance == Spec => []Inv
<1>1. Init => Inv  BY InitInv
<1>2. Inv /\ [Next]_vars => Inv'
  <2>. SUFFICES ASSUME Inv, [Next]_vars PROVE Inv'  OBVIOUS
  <2>. QED  BY StartKeeps, CannotExpandKeeps, ReadTerminatorKeeps, ReadOptionTokenKeeps,
               ReadSubcommandKeeps, ReadPositionalKeeps, ReadingEndsKeeps, AssignKeeps,
               DefaultsKeep, CheckKeeps, StutterKeeps DEF Next
<1>. QED  BY <1>1, <1>2, PTL DEF Spec

-----------------------------------------------------------------------------
(* The properties. *)

LEMMA GivenFacts ==
    ASSUME ScopeInv, NEW o
    PROVE  o \in GivenOptions <=>
               \E i \in 1..Len(options) : options[i].option = o /\ options[i].occurrences # <<>>
<1>1. DOMAIN options = 1..Len(options)  BY ListFacts DEF ScopeInv, Listed
<1>. QED  BY <1>1 DEF GivenOptions, Given, Range

\* What is complained of when all is read and assigned.
LEMMA ComplaintFacts ==
    ASSUME Inv
    PROVE  /\ error \in {"MissingCommandArgument", "MissingRequiredOption"} =>
                  Fits /\ error = Complaint /\ Level(priorOption) < IgnoreMissingSymbols
           /\ error = "MissingCommandArgument" =>
                  \E i \in DOMAIN Declared : Declared[i].required /\ arguments[i] = <<>>
<1>1. Level(priorOption) \in 0..6  BY LevelFacts DEF Inv, ScopeInv
<1>2. ASSUME error \in {"MissingCommandArgument", "MissingRequiredOption"}
      PROVE  Fits /\ error = Complaint
  <2>1. error \notin Early /\ error \notin ReadErrors /\ error # "none"
        BY <1>2 DEF Early, ReadErrors, TakeErrors, Refusals
  <2>. QED  BY <2>1 DEF Inv, Progress
<1>3. Complaint \in {"MissingCommandArgument", "MissingRequiredOption"} =>
          Level(priorOption) < IgnoreMissingSymbols
      BY <1>1 DEF Complaint, IgnoreMissingSymbols
<1>4. Complaint = "MissingCommandArgument" =>
          \E i \in DOMAIN Declared : Declared[i].required /\ arguments[i] = <<>>
      BY DEF Complaint
<1>. QED  BY <1>2, <1>3, <1>4

\* An option that lifts the requirements is answered, whatever else the line lacks: no parse
\* that saw one ends with a complaint of something missing (notePrior and checkRequired,
\* commandline.cpp 1109-1115, 1543-1595).
THEOREM HelpIsAnsweredHolds == Spec => []HelpIsAnswered
<1>1. ASSUME Inv PROVE HelpIsAnswered
  <2>. SUFFICES ASSUME error \in {"MissingCommandArgument", "MissingRequiredOption"},
                       NEW o \in GivenOptions
                PROVE  Option(o).prior < IgnoreMissingSymbols
       BY DEF HelpIsAnswered
  <2>1. Level(priorOption) < IgnoreMissingSymbols  BY <1>1, ComplaintFacts
  <2>2. Level(priorOption) \in 0..6  BY <1>1, LevelFacts DEF Inv, ScopeInv
  <2>3. Covered(options, priorOption)
        BY <1>1, <2>1 DEF Inv, Decided, IgnoreMissingSymbols, AutoSetWhenNoSymbols
  <2>4. PICK i \in 1..Len(options) : options[i].option = o /\ options[i].occurrences # <<>>
        BY <1>1, GivenFacts DEF Inv
  <2>5. Option(o).prior <= Level(priorOption)  BY <2>3, <2>4 DEF Covered
  <2>6. Option(o).prior \in 0..6  BY <1>1, <2>4, TreeFacts DEF Inv, ScopeInv, Listed
  <2>. QED  BY <2>1, <2>2, <2>5, <2>6 DEF IgnoreMissingSymbols
<1>. QED  BY <1>1, Invariance, PTL

\* Positional tokens are neither dropped nor given twice: the arguments, put one after the
\* other, are the positional tokens of the line, and one is missing only of a line with fewer
\* than are required (assignPositional, commandline.cpp 1468-1522).
THEOREM TokensAddUpHolds == Spec => []TokensAddUp
<1>1. ASSUME Inv PROVE TokensAddUp
  <2>1. NothingDropped  BY <1>1 DEF Inv, Progress, NothingDropped
  <2>2. MissingMeansTooFew
    <3>. SUFFICES ASSUME error = "MissingCommandArgument"
                  PROVE  Len(positional) < Cardinality(Required)
         BY DEF MissingMeansTooFew, Required
    <3>1. PICK i \in DOMAIN Declared : Declared[i].required /\ arguments[i] = <<>>
          BY <1>1, ComplaintFacts
    <3>2. Fits /\ i \in 1..Len(arguments)  BY <1>1, ComplaintFacts, DeclaredFacts DEF Fits, Inv
    <3>. QED  BY <3>1, <3>2 DEF Fits
  <2>. QED  BY <2>1, <2>2 DEF TokensAddUp
<1>. QED  BY <1>1, Invariance, PTL

\* In a line that is accepted an option that forbids options is the only one, and beside one
\* that forbids arguments no positional token is written (checkRequired, commandline.cpp
\* 1543-1595).
THEOREM ExclusiveIsAloneHolds == Spec => []ExclusiveIsAlone
<1>1. ASSUME Inv PROVE ExclusiveIsAlone
  <2>. SUFFICES ASSUME phase = "done", error = "none", NEW o \in GivenOptions
                PROVE  /\ ForbidsArguments(Option(o).prior) => positional = <<>>
                       /\ Option(o).prior \in {ExclusiveToOptions, ExclusiveToAll} => GivenOptions = {o}
       BY DEF ExclusiveIsAlone, Failed
  <2>1. PICK i \in 1..Len(options) : options[i].option = o /\ options[i].occurrences # <<>>
        BY <1>1, GivenFacts DEF Inv
  <2>2. CASE ~Covered(options, priorOption)
    <3>1. positional = <<>>  BY <1>1, <2>2 DEF Inv, Decided
    <3>2. GivenOptions \subseteq {o}
      <4>. SUFFICES ASSUME NEW p \in GivenOptions PROVE p = o  OBVIOUS
      <4>1. PICK j \in 1..Len(options) : options[j].option = p /\ options[j].occurrences # <<>>
            BY <1>1, GivenFacts DEF Inv
      <4>. QED  BY <1>1, <2>1, <2>2, <4>1 DEF Inv, Decided
    <3>. QED  BY <3>1, <3>2
  <2>3. CASE Covered(options, priorOption)
    <3>1. PICK level \in 0..6 : level = Level(priorOption)  BY <1>1, LevelFacts DEF Inv, ScopeInv
    <3>2. PICK prior \in 0..6 : prior = Option(o).prior /\ prior <= level
      <4>1. Option(o).prior \in 0..6  BY <1>1, <2>1, TreeFacts DEF Inv, ScopeInv, Listed
      <4>. QED  BY <2>1, <2>3, <3>1, <4>1 DEF Covered
    <3>3. Fits /\ Complaint = "none"
      <4>1. error \notin Early  BY DEF Early, ReadErrors, TakeErrors, Refusals
      <4>. QED  BY <1>1, <4>1 DEF Inv, Progress
    <3>4. ForbidsArguments(level) => positional = <<>>
      <4>. SUFFICES ASSUME ForbidsArguments(level) PROVE positional = <<>>  OBVIOUS
      <4>1. \A values \in Range(arguments) : values = <<>>  BY <3>1, <3>3 DEF Complaint
      <4>2. \A k \in 1..Len(arguments) : arguments[k] \in Range(arguments)
            BY <3>3, ListFacts DEF Fits, Range
      <4>. QED  BY <3>3, <4>1, <4>2 DEF Fits
    <3>5. ForbidsOptions(level) => \A p \in GivenOptions : {p} = priorOption
      <4>. SUFFICES ASSUME ForbidsOptions(level), NEW p \in GivenOptions PROVE {p} = priorOption
           OBVIOUS
      <4>1. \A item \in Range(options) : item.occurrences # <<>> => {item.option} = priorOption
            BY <3>1, <3>3 DEF Complaint
      <4>. QED  BY <4>1 DEF GivenOptions, Given
    <3>6. ForbidsOptions(level) => GivenOptions = {o} /\ level = prior
      <4>. SUFFICES ASSUME ForbidsOptions(level) PROVE GivenOptions = {o} /\ level = prior  OBVIOUS
      <4>1. priorOption = {o}  BY <3>5
      <4>2. GivenOptions = {o}  BY <3>5, <4>1
      <4>3. Level({o}) = prior  BY <1>1, <2>1, <3>2, LevelFacts DEF Inv, ScopeInv, Listed
      <4>. QED  BY <3>1, <4>1, <4>2, <4>3
    <3>7. ForbidsArguments(prior) => ForbidsArguments(level) \/ ForbidsOptions(level)
          BY <3>2 DEF ForbidsArguments, ForbidsOptions, ExclusiveToArguments, ExclusiveToOptions, ExclusiveToAll
    <3>8. prior \in {ExclusiveToOptions, ExclusiveToAll} => ForbidsOptions(level)
          BY <3>2 DEF ForbidsOptions, ExclusiveToOptions, ExclusiveToAll
    <3>. QED  BY <3>2, <3>4, <3>6, <3>7, <3>8
  <2>. QED  BY <2>2, <2>3
<1>. QED  BY <1>1, Invariance, PTL

\* What is within reach is what may take something.
LEMMA ReachSuffices ==
    ASSUME Inv, NEW i \in DOMAIN options, InReach(i)
    PROVE  \/ options[i].option \in Range(InScope(target, inherited))
           \/ On("IgnoreOptionCase") \/ Option(options[i].option).shortMatch # "none"
BY DEF InReach

\* An option of a command that was left behind and does not pass it on takes nothing more from
\* the line (collectOptions, lookup and readOption, commandline.cpp 1204-1255, 1354-1440).
THEOREM LeftBehindTakesNoMoreHolds == Spec => LeftBehindTakesNoMore
<1>. DEFINE Reach(i) == \/ options[i].option \in Range(InScope(target, inherited))
                        \/ On("IgnoreOptionCase")
                        \/ Option(options[i].option).shortMatch # "none"
            Quiet == \A i \in DOMAIN options :
                         options'[i].occurrences # options[i].occurrences /\ phase = "read" => Reach(i)
<1>1. ASSUME Inv, Next PROVE Quiet
  <2>. SUFFICES ASSUME NEW i \in DOMAIN options, phase = "read",
                       options'[i].occurrences # options[i].occurrences
                PROVE  InReach(i)
       BY <1>1, ReachSuffices
  <2>1. /\ ScopeInv /\ Listed(options) /\ Len(options) \in Nat /\ i \in 1..Len(options)
        BY <1>1, ListFacts DEF Inv, ScopeInv, Listed
  <2>2. options' # options  OBVIOUS
  <2>3. CASE ReadOptionToken
    <3>1. Reading /\ ReadOption(tokens[pos])  BY <2>3 DEF ReadOptionToken
    <3>2. PICK r : r = [options |-> options', prior |-> priorOption', pos |-> pos', error |-> error']
          OBVIOUS
    <3>3. Sound(r) /\ r.options = options'  BY <1>1, <3>1, <3>2, ReadOptionSound
    <3>. QED  BY <2>1, <3>3 DEF Sound
  <2>4. CASE ReadSubcommand
    <3>1. PICK next \in Commands : Enter(next)
      <4>1. Subcommand(tokens[pos]) # {} /\ Subcommand(tokens[pos]) \subseteq Range(Command(target).commands)
            BY <2>4 DEF ReadSubcommand, Subcommand
      <4>. QED  BY <2>1, <2>4, <4>1, FirstOfFacts DEF ReadSubcommand
    <3>2. Extends(options', options)  BY <2>1, <3>1, EnterFacts
    <3>. QED  BY <2>1, <3>2 DEF Extends
  <2>5. CASE ReadingEnds
    <3>1. PICK o : /\ StandIns # {} /\ o = InScope(target, inherited)[Min(StandIns)]
                   /\ options' = [options EXCEPT ![byToken[Option(o).tokens[1]]].occurrences =
                                     Append(@, [k \in DOMAIN Option(o).arguments |-> <<>>])]
          BY <2>2, <2>5 DEF ReadingEnds
    <3>2. Option(o).tokens[1] \in DOMAIN byToken  BY <2>1, <3>1, StandInFacts
    <3>3. PICK k : /\ k = byToken[Option(o).tokens[1]] /\ k \in 0..Len(options)
                   /\ k # 0 => options[k].option \in Range(InScope(target, inherited))
          BY <2>1, <3>2 DEF ScopeInv, Spells
    <3>4. \A j \in 1..Len(options) : j # k => options'[j] = options[j]
          BY <2>1, <3>1, <3>3, StandInSound
    <3>5. i = k  BY <2>1, <3>4
    <3>. QED  BY <2>1, <3>3, <3>5 DEF InReach
  <2>. QED  BY <1>1, <2>2, <2>3, <2>4, <2>5
            DEF Next, Start, CannotExpand, ReadTerminator, ReadPositional, AssignPositional,
                ApplyDefaults, CheckRequired
<1>2. Inv /\ [Next]_vars => [Quiet]_vars  BY <1>1
<1>3. [Quiet]_vars => [\A i \in DOMAIN options :
                           options'[i].occurrences # options[i].occurrences /\ phase = "read" => Reach(i)]_vars
      OBVIOUS
<1>. QED  BY <1>2, <1>3, Invariance, PTL DEF Spec, LeftBehindTakesNoMore

-----------------------------------------------------------------------------
(* The way down: the result finds what the parser passed on. *)

LEMMA WalkStays == ASSUME call' = call, NEW names PROVE Walked(names)' = Walked(names)
BY DEF Walked, AtRoot, Below, FindCommand, Globals, KeepGlobal, Command, Option

LEMMA WalkedOne == ASSUME NEW name PROVE Walked(<<name>>) = AtRoot
<1>1. PICK names : names = <<name>>  OBVIOUS
<1>2. Len(names) = 1  BY <1>1
<1>3. PICK c : c[0] = AtRoot /\ Walked(names) = c[Len(names) - 1]
  <2>1. Len(names) - 1 \in Nat  BY <1>2
  <2>. QED  BY <2>1, WalkedSteps
<1>. QED  BY <1>1, <1>2, <1>3

\* One name more is one step more.
LEMMA WalkedOn ==
    ASSUME NEW names, IsList(names), names # <<>>, NEW name
    PROVE  Walked(Append(names, name)) = Below(Walked(names), name)
<1>1. PICK size \in Nat : size = Len(names) - 1
  <2>1. Len(names) \in Nat  BY ListFacts
  <2>2. Len(names) # 0  BY EmptySeq DEF IsList
  <2>. QED  BY <2>1, <2>2
<1>. DEFINE more == Append(names, name)
<1>2. /\ Len(more) = Len(names) + 1 /\ \A i \in 1..Len(names) : more[i] = names[i]
      /\ more[Len(names) + 1] = name
      BY Appended
<1>. HIDE DEF more
<1>3. PICK c : /\ c[0] = AtRoot /\ \A i \in 1..size : c[i] = Below(c[i - 1], names[i + 1])
               /\ Walked(names) = c[size]
  <2>1. Len(names) - 1 \in Nat  BY <1>1
  <2>. QED  BY <1>1, <2>1, WalkedSteps
<1>4. PICK d : /\ d[0] = AtRoot /\ \A i \in 1..(size + 1) : d[i] = Below(d[i - 1], more[i + 1])
               /\ Walked(more) = d[size + 1]
  <2>1. Len(more) - 1 \in Nat /\ Len(more) - 1 = size + 1  BY <1>1, <1>2
  <2>. QED  BY <2>1, WalkedSteps
<1>. DEFINE S == {n \in Nat : n <= size => d[n] = c[n]}
<1>5. 0 \in S  BY <1>3, <1>4
<1>6. ASSUME NEW n \in Nat, n \in S PROVE n + 1 \in S
  <2>. SUFFICES ASSUME n + 1 <= size PROVE d[n + 1] = c[n + 1]  OBVIOUS
  <2>1. d[n] = c[n]  BY <1>1, <1>6
  <2>2. PICK i : /\ i = n + 1 /\ i \in 1..size /\ i \in 1..(size + 1) /\ i - 1 = n
                 /\ i + 1 \in 1..Len(names)
        BY <1>1
  <2>3. d[i] = Below(d[n], more[i + 1]) /\ c[i] = Below(c[n], names[i + 1]) /\ more[i + 1] = names[i + 1]
        BY <1>2, <1>3, <1>4, <2>2
  <2>. QED  BY <2>1, <2>2, <2>3
<1>7. size \in S
  <2>. HIDE DEF S
  <2>. QED  BY <1>5, <1>6, NatSets
<1>8. d[size] = Walked(names)  BY <1>3, <1>7
<1>9. PICK i : i = size + 1 /\ i \in 1..(size + 1) /\ i - 1 = size /\ i + 1 = Len(names) + 1
      BY <1>1
<1>10. d[i] = Below(d[size], name)  BY <1>2, <1>4, <1>9
<1>. QED  BY <1>4, <1>8, <1>9, <1>10 DEF more

\* A name leads to the one command that has it.
LEMMA BelowOne ==
    ASSUME ScopeInv, NEW next \in Range(Command(target).commands), NEW found
    PROVE  Below([at |-> {target}, found |-> found], Command(next).name) =
               [at |-> {next}, found |-> found \o Globals(target)]
<1>. DEFINE l == Command(target).commands
            name == Command(next).name
            names == [k \in DOMAIN l |-> Command(l[k]).name]
<1>1. l \in Seq(Commands) /\ Len(l) \in Nat /\ DOMAIN l = 1..Len(l)
      BY TreeFacts, LenProperties DEF ScopeInv
<1>2. \A k \in DOMAIN names : \A i \in 1..(k - 1) : names[i] # names[k]
  <2>1. CanBeDeclared(Trees[call.tree]) /\ target \in DOMAIN Trees[call.tree].command
        BY TreesCanBeDeclared DEF ScopeInv, Commands
  <2>. QED  BY <2>1 DEF CanBeDeclared, Command
<1>3. \A j, k \in 1..Len(l) : Command(l[j]).name = Command(l[k]).name => j = k
  <2>. SUFFICES ASSUME NEW j \in 1..Len(l), NEW k \in 1..Len(l), j < k
                PROVE  Command(l[j]).name # Command(l[k]).name
       BY <1>1
  <2>1. j \in 1..(k - 1) /\ k \in DOMAIN names /\ j \in DOMAIN names  BY <1>1
  <2>2. names[j] # names[k]  BY <1>2, <2>1
  <2>. QED  BY <2>1, <2>2
<1>4. FindCommand(target, name) = {next}
  <2>1. PICK k \in 1..Len(l) : l[k] = next  BY <1>1 DEF Range
  <2>2. \A c \in Range(l) : Command(c).name = name => c = next  BY <1>1, <1>3, <2>1 DEF Range
  <2>. QED  BY <2>2 DEF FindCommand
<1>5. UNION {FindCommand(c, name) : c \in {target}} = {next}  BY <1>4
<1>6. {Globals(c) : c \in {target}} = {Globals(target)}  OBVIOUS
<1>7. FlattenSeq(SetToSeq({Globals(target)})) = Globals(target)  BY SetToSeqOne, FlattenOne
<1>. HIDE DEF name
<1>8. PICK walked : walked = [at |-> {target}, found |-> found]  OBVIOUS
<1>9. walked.at = {target} /\ walked.found = found  BY <1>8
<1>10. Below(walked, name) = [at |-> {next}, found |-> found \o Globals(target)]
       BY <1>5, <1>6, <1>7, <1>9 DEF Below
<1>. QED  BY <1>8, <1>10 DEF name

\* Walking down the names leads to the target, and past all it inherits.
Walks ==
    /\ IsList(path)
    /\ path = <<>> => phase \in {"start", "done"}
    /\ phase = "start" => path = <<>> /\ inherited = <<>> /\ target = Trees[call.tree].root
    /\ path # <<>> => Walked(path) = [at |-> {target}, found |-> inherited]

\* The help, which walks the path of names again, finds the options the parser inherited on its
\* way (enter and inheritedOptions, commandline.cpp 1204-1213, 406-421).
THEOREM HelpAgreesHolds == Spec => []HelpAgrees
<1>1. Init => Walks
  <2>1. <<>> \in Seq({})  OBVIOUS
  <2>2. IsList(<<>>)  BY <2>1, ListOf
  <2>. QED  BY <2>2 DEF Init, Walks
<1>2. ASSUME Inv, Walks, [Next]_vars PROVE Walks'
  <2>1. CASE Start
    <3>1. call' = call /\ phase = "start" /\ phase' = "read" /\ target' = target /\ inherited' = inherited
          /\ path' = <<Command(target).name>>
          BY <2>1 DEF Start
    <3>2. PICK name : name = Command(target).name  OBVIOUS
    <3>3. <<name>> \in Seq({name}) /\ <<name>> # <<>>  OBVIOUS
    <3>4. IsList(<<name>>)  BY <3>3, ListOf
    <3>5. Walked(<<name>>) = [at |-> {target}, found |-> inherited]
          BY <1>2, <3>1, WalkedOne DEF Walks, AtRoot
    <3>6. Walked(<<name>>)' = Walked(<<name>>)  BY <3>1, WalkStays
    <3>. QED  BY <3>1, <3>2, <3>3, <3>4, <3>5, <3>6 DEF Walks
  <2>2. CASE ReadSubcommand
    <3>1. call' = call /\ phase = "read" /\ phase' = "read"  BY <2>2 DEF ReadSubcommand, given, Reading
    <3>2. PICK next \in Range(Command(target).commands) : Enter(next)
      <4>1. Subcommand(tokens[pos]) # {} /\ Subcommand(tokens[pos]) \subseteq Range(Command(target).commands)
            BY <2>2 DEF ReadSubcommand, Subcommand
      <4>. QED  BY <1>2, <2>2, <4>1, FirstOfFacts DEF ReadSubcommand, Inv
    <3>3. PICK name : name = Command(next).name  OBVIOUS
    <3>4. path' = Append(path, name) /\ target' = next /\ inherited' = inherited \o Globals(target)
          BY <3>2, <3>3 DEF Enter
    <3>5. path # <<>> /\ IsList(path) /\ Walked(path) = [at |-> {target}, found |-> inherited]
          BY <1>2, <3>1 DEF Walks
    <3>6. Walked(Append(path, name)) = [at |-> {next}, found |-> inherited \o Globals(target)]
          BY <1>2, <3>3, <3>5, WalkedOn, BelowOne DEF Inv
    <3>7. PICK new : new = Append(path, name)  OBVIOUS
    <3>8. Walked(new)' = Walked(new)  BY <3>1, WalkStays
    <3>9. IsList(new) /\ new # <<>>
      <4>1. IsList(new) /\ Len(new) = Len(path) + 1 /\ Len(path) \in Nat
            BY <3>5, <3>7, Appended, ListFacts
      <4>. QED  BY <4>1
    <3>. QED  BY <3>1, <3>4, <3>6, <3>7, <3>8, <3>9 DEF Walks
  <2>3. CASE \/ /\ UNCHANGED <<call, scope>> /\ phase' # "start"
                /\ phase \notin {"start", "done"} \/ phase' = "done"
             \/ UNCHANGED vars
    <3>1. call' = call /\ path' = path /\ target' = target /\ inherited' = inherited
          BY <2>3 DEF scope, vars, given
    <3>2. Walked(path)' = Walked(path)  BY <3>1, WalkStays
    <3>. QED  BY <1>2, <2>3, <3>1, <3>2 DEF Walks, vars
  <2>. QED  BY <1>2, <2>1, <2>2, <2>3
            DEF Next, CannotExpand, ReadTerminator, ReadOptionToken, ReadPositional, ReadingEnds,
                AssignPositional, ApplyDefaults, CheckRequired, given, Reading
<1>3. Walks => HelpAgrees
  <2>. SUFFICES ASSUME path # <<>>, Walks PROVE Walked(path).found = inherited
       BY DEF HelpAgrees, InheritedOptions
  <2>. QED  BY DEF Walks
<1>. QED  BY <1>1, <1>2, <1>3, Invariance, PTL DEF Spec
=============================================================================
