-------------------------------- MODULE Utf --------------------------------
(***************************************************************************)
(* UTF conversions: a text of units in one encoding is converted to        *)
(* another one and what came out is converted back.  Encodings are named   *)
(* by the bits of their units, 8, 16 and 32; wchar_t is one of the last    *)
(* two.  The result is built in a buffer that is sized before and whose    *)
(* end nobody asks about.                                                  *)
(***************************************************************************)
EXTENDS Integers, Sequences, SequencesExt, FiniteSets

CONSTANT Sources          \* <<encoding, units>>

VARIABLES source, to, policy, result, back

vars == <<source, to, policy, result, back>>

Encodings == {8, 16, 32}
Replacement == 65533
HighSurrogates == 55296..56319
LowSurrogates == 56320..57343
IsValidCodePoint(c) == c <= 1114111 /\ c \notin HighSurrogates \cup LowSurrogates

Nothing == -1
\* A code point, or Nothing, and how many units were consumed.
Taken(c, n) == <<c, n>>

-----------------------------------------------------------------------------
(* UTF-8 *)

\* What a lead byte announces; C0, C1 and F5 on cannot start a sequence.
SequenceLength(lead) ==
    CASE lead < 128 -> 1
      [] lead \in 194..223 -> 2
      [] lead \in 224..239 -> 3
      [] lead \in 240..244 -> 4
      [] OTHER -> 0
IsContinuation(b) == b \in 128..191
\* Mutant: any continuation will do.
AnyContinuation(lead, second) == IsContinuation(second)

\* No longer form of what has a shorter one, no surrogate, nothing past the end of Unicode.
SecondByteOk(lead, second) ==
    CASE lead = 224 -> second \in 160..191
      [] lead = 237 -> second \in 128..159
      [] lead = 240 -> second \in 144..191
      [] lead = 244 -> second \in 128..143
      [] OTHER -> IsContinuation(second)

\* How many continuations there are from the third byte on, of those that belong to it.
Continuations(s, pos, length) ==
    LET belongs == {i \in 2..(length - 1) :
                       \A j \in 2..i : pos + j <= Len(s) /\ IsContinuation(s[pos + j])}
    IN  Cardinality(belongs)

\* The sequence does not fit: what was on its way to being one is consumed.
CutOff(s, pos, length) ==
    IF pos + 1 <= Len(s) /\ SecondByteOk(s[pos], s[IF pos + 1 <= Len(s) THEN pos + 1 ELSE pos])
    THEN Taken(Nothing, 2 + Continuations(s, pos, length))
    ELSE Taken(Nothing, 1)

Bits(s, pos, length) ==
    CASE length = 2 -> (s[pos] % 32) * 64 + (s[pos + 1] % 64)
      [] length = 3 -> ((s[pos] % 16) * 64 + (s[pos + 1] % 64)) * 64 + (s[pos + 2] % 64)
      [] length = 4 -> (((s[pos] % 8) * 64 + (s[pos + 1] % 64)) * 64 + (s[pos + 2] % 64)) * 64
                       + (s[pos + 3] % 64)

Sequence8(s, pos, length) ==
    CASE pos + length - 1 > Len(s) -> CutOff(s, pos, length)
      [] pos + length - 1 <= Len(s) /\ ~SecondByteOk(s[pos], s[pos + 1]) -> Taken(Nothing, 1)
      [] pos + length - 1 <= Len(s) /\ SecondByteOk(s[pos], s[pos + 1]) ->
             IF Continuations(s, pos, length) = length - 2
             THEN Taken(Bits(s, pos, length), length)
             ELSE Taken(Nothing, 2 + Continuations(s, pos, length))

Decode8(s, pos) ==
    CASE SequenceLength(s[pos]) = 0 -> Taken(Nothing, 1)
      [] SequenceLength(s[pos]) = 1 -> Taken(s[pos], 1)
      [] OTHER -> Sequence8(s, pos, SequenceLength(s[pos]))

Encode8(c) ==
    CASE c < 128 -> <<c>>
      [] 128 <= c /\ c < 2048 -> <<192 + c \div 64, 128 + (c % 64)>>
      [] 2048 <= c /\ c < 65536 -> <<224 + c \div 4096, 128 + ((c \div 64) % 64), 128 + (c % 64)>>
      [] OTHER -> <<240 + c \div 262144, 128 + ((c \div 4096) % 64),
                    128 + ((c \div 64) % 64), 128 + (c % 64)>>

-----------------------------------------------------------------------------
(* UTF-16 and UTF-32 *)

Decode16(s, pos) ==
    CASE s[pos] \notin HighSurrogates \cup LowSurrogates -> Taken(s[pos], 1)
      [] s[pos] \in HighSurrogates /\ pos < Len(s) ->
             IF s[pos + 1] \in LowSurrogates
             THEN Taken(65536 + (s[pos] - 55296) * 1024 + (s[pos + 1] - 56320), 2)
             ELSE Taken(Nothing, 1)
      [] OTHER -> Taken(Nothing, 1)
Encode16(c) ==
    IF c < 65536 THEN <<c>>
    ELSE <<55296 + (c - 65536) \div 1024, 56320 + ((c - 65536) % 1024)>>

Decode32(s, pos) == Taken(IF IsValidCodePoint(s[pos]) THEN s[pos] ELSE Nothing, 1)
Encode32(c) == <<c>>

-----------------------------------------------------------------------------
(* The walk. *)

Decode(encoding, s, pos) ==
    CASE encoding = 8 -> Decode8(s, pos)
      [] encoding = 16 -> Decode16(s, pos)
      [] encoding = 32 -> Decode32(s, pos)
Encode(encoding, c) ==
    CASE encoding = 8 -> Encode8(c)
      [] encoding = 16 -> Encode16(c)
      [] encoding = 32 -> Encode32(c)

\* Mutant: nothing a unit of UTF-16 becomes was thought to have three bytes.
MaxUnitsTwo(from, into) ==
    CASE from = 8 -> 1
      [] from = 16 -> IF into = 8 THEN 2 ELSE 1
      [] from = 32 -> IF into = 8 THEN 4 ELSE IF into = 16 THEN 2 ELSE 1

\* The most units that one unit of from becomes.
MaxUnits(from, into) ==
    CASE from = 8 -> 1
      [] from = 16 -> IF into = 8 THEN 3 ELSE 1
      [] from = 32 -> IF into = 8 THEN 4 ELSE IF into = 16 THEN 2 ELSE 1

RECURSIVE Walk(_, _, _, _, _, _, _)
Step(from, into, how, s, pos, out, ok, read) ==
    IF read[1] = Nothing /\ how = "fail" THEN [ok |-> FALSE, units |-> <<>>]
    ELSE Walk(from, into, how, s, pos + read[2],
              out \o Encode(into, IF read[1] = Nothing THEN Replacement ELSE read[1]),
              ok /\ read[1] # Nothing)
Walk(from, into, how, s, pos, out, ok) ==
    IF pos > Len(s) THEN [ok |-> ok, units |-> out]
    ELSE Step(from, into, how, s, pos, out, ok, Decode(from, s, pos))
Convert(from, into, how, s) == Walk(from, into, how, s, 1, <<>>, TRUE)

RECURSIVE IsValidFrom(_, _, _)
IsValidFrom(encoding, s, pos) ==
    pos > Len(s) \/ (/\ Decode(encoding, s, pos)[1] # Nothing
                     /\ IsValidFrom(encoding, s, pos + Decode(encoding, s, pos)[2]))
IsValid(encoding, s) == IsValidFrom(encoding, s, 1)

-----------------------------------------------------------------------------
None == [ok |-> FALSE, units |-> <<>>]

Init ==
    /\ source = <<8, <<>>>> /\ to = 0 /\ policy = "none"
    /\ result = None /\ back = None

Forth ==
    /\ to = 0
    /\ \E text \in Sources, into \in Encodings, how \in {"replace", "fail"} :
         /\ into # text[1]
         /\ source' = text /\ to' = into /\ policy' = how
         /\ result' = Convert(text[1], into, how, text[2])
    /\ UNCHANGED back

Back ==
    /\ to # 0 /\ policy # "done" /\ policy' = "done"
    /\ back' = Convert(to, source[1], policy, result.units)
    /\ UNCHANGED <<source, to, result>>

Next == Forth \/ Back

Spec == Init /\ [][Next]_vars

-----------------------------------------------------------------------------
(* Properties, against the tables of the Unicode standard. *)

\* Whether s starts a well-formed sequence: table 3-7, surrogate pairs, code points.
SecondBytes(lead) ==
    IF lead = 224 THEN 160..191 ELSE IF lead = 237 THEN 128..159
    ELSE IF lead = 240 THEN 144..191 ELSE IF lead = 244 THEN 128..143 ELSE 128..191
Starts(encoding, s) ==
    CASE encoding = 8 ->
             \/ Len(s) = 1 /\ s[1] \in (0..127 \cup 194..244)
             \/ /\ Len(s) > 1 /\ s[1] \in 194..244 /\ s[2] \in SecondBytes(s[1])
                /\ Len(s) <= (IF s[1] < 224 THEN 2 ELSE IF s[1] < 240 THEN 3 ELSE 4)
                /\ \A i \in 3..Len(s) : s[i] \in 128..191
      [] encoding = 16 ->
             \/ Len(s) = 1 /\ s[1] \notin LowSurrogates
             \/ Len(s) = 2 /\ s[1] \in HighSurrogates /\ s[2] \in LowSurrogates
      [] encoding = 32 -> Len(s) = 1 /\ IsValidCodePoint(s[1])
\* The code point of which s is the encoding.
Spelt(encoding, s) ==
    CASE encoding = 8 -> IF Len(s) = 1 THEN (IF s[1] < 128 THEN s[1] ELSE Nothing)
                         ELSE IF Len(s) = (IF s[1] < 224 THEN 2 ELSE IF s[1] < 240 THEN 3 ELSE 4)
                         THEN Bits(s, 1, Len(s)) ELSE Nothing
      [] encoding = 16 -> IF Len(s) = 2 THEN Decode16(s, 1)[1]
                          ELSE IF s[1] \in HighSurrogates THEN Nothing ELSE s[1]
      [] encoding = 32 -> s[1]

\* One U+FFFD for each maximal part of what is ill-formed.
RECURSIVE Meant(_, _)
MeantBy(encoding, s, n) ==
    (IF n = 0 THEN <<Nothing>> ELSE <<Spelt(encoding, SubSeq(s, 1, n))>>)
    \o Meant(encoding, SubSeq(s, (IF n = 0 THEN 1 ELSE n) + 1, Len(s)))
Meant(encoding, s) ==
    IF s = <<>> THEN <<>>
    ELSE MeantBy(encoding, s,
                 Cardinality({n \in 1..Len(s) : \A m \in 1..n : Starts(encoding, SubSeq(s, 1, m))}))
Shown(meant) ==
    [i \in 1..Len(meant) |-> IF meant[i] = Nothing THEN Replacement ELSE meant[i]]
Spelling(encoding, points) ==
    FlattenSeq([i \in 1..Len(points) |-> Encode(encoding, points[i])])

\* What is well-formed comes back to the unit; what is not is replaced part by part, or
\* refused; the validators agree; and no text overruns the buffer sized for it.
TextIsKept ==
    to # 0 =>
        LET meant == Meant(source[1], source[2])
            clean == Nothing \notin ToSet(meant)
            refused == ~clean /\ result.units = <<>> /\ source[2] # <<>>
        IN  /\ result.ok <=> clean
            /\ IsValid(source[1], source[2]) <=> clean
            /\ refused \/ result.units = Spelling(to, Shown(meant))
            /\ ~clean /\ policy = "fail" => refused
            /\ policy = "replace" => ~refused
            /\ Len(Spelling(to, Shown(meant))) <= Len(source[2]) * MaxUnits(source[1], to)
            /\ (policy = "done" /\ ~refused) =>
                   back = [ok |-> TRUE, units |-> Spelling(source[1], Shown(meant))]
            /\ (policy = "done" /\ clean) => back.units = source[2]
=============================================================================
