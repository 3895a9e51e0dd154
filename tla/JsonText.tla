------------------------------ MODULE JsonText ------------------------------
(***************************************************************************)
(* JSON text: JsonValue::toJson() and the parser of JsonValue::fromJson(), *)
(* over a value that is written, on whose text something may happen on the *)
(* way (its end is lost, a comment is put into it, another program writes  *)
(* it its own way), and that is read back.                                 *)
(*                                                                         *)
(* A text is a sequence of characters, each a name: "quote", "bs" (the     *)
(* backslash), "tab" for the controls with a letter of their own, "ctl"    *)
(* for the others, "wide" for what is not ASCII, "bad" for a byte that is  *)
(* no UTF-8.  A word, and the four digits of a \u, are one character.      *)
(* A double is <<m, e>>, m * 10^e with no trailing zero in m, or <<>> when *)
(* it is not finite.                                                       *)
(***************************************************************************)
EXTENDS JsonValues

CONSTANTS
    Values,          \* the values that are written
    IntMax,          \* INT64_MAX
    MaxDepth         \* Parser::maxDepth

VARIABLES value, text, state, done, result

vars == <<value, text, state, done, result>>

Digit == [c \in {"0", "1", "2", "3", "4", "5", "6", "7", "8", "9"} |->
            CHOOSE n \in 0..9 : ToString(n) = c]
\* \u and its digits: what they stand for, where they do.
Hex == [hexCtl |-> "ctl", hexA |-> "a", hexWide |-> "wide"]

\* JsonValue(uint64_t) and the reading of a number too large: a double above the range.
RECURSIVE AsDouble(_, _)
AsDouble(m, e) == IF m # 0 /\ m % 10 = 0 THEN AsDouble(m \div 10, e + 1)
                  ELSE Of("Double", <<m, IF m = 0 THEN 0 ELSE e>>)
Integer(n) == IF -IntMax - 1 <= n /\ n <= IntMax THEN Of("Int", n) ELSE AsDouble(n, 0)

-----------------------------------------------------------------------------
(* toJson() *)

RECURSIVE Digits(_), Fractional(_, _)
Digits(n) == IF n < 0 THEN <<"-">> \o Digits(-n)
             ELSE (IF n < 10 THEN <<>> ELSE Digits(n \div 10)) \o <<ToString(n % 10)>>

Substituted(s) == [i \in 1..Len(s) |-> IF s[i] = "bad" THEN "wide" ELSE s[i]]
Escaped(c) == CASE c \in {"quote", "bs"} -> <<"bs", c>>
                [] c = "tab" -> <<"bs", "t">>
                [] c = "ctl" -> <<"bs", "u", "hexCtl">>
                [] OTHER -> <<c>>
Quoted(s) == <<"quote">> \o FlattenSeq([i \in 1..Len(s) |-> Escaped(Substituted(s)[i])])
             \o <<"quote">>

\* n / scale, with a digit behind the point for each zero of the scale.
Fractional(n, scale) ==
    IF n < 0 THEN <<"-">> \o Fractional(-n, scale)
    ELSE Digits(n \div scale) \o <<".">> \o Tail(Digits(scale + (n % scale)))

\* Mutant: an integral double is written like an integer.
ShortestDouble(d) ==
    CASE d = <<>> -> <<"null">>
      [] d # <<>> /\ d[2] < 0 -> Fractional(d[1], 10 ^ (-d[2]))
      [] d # <<>> /\ d[2] = 0 -> Digits(d[1])
      [] d # <<>> /\ d[2] > 0 -> Digits(d[1]) \o <<"e", "+">> \o Digits(d[2])

\* The shortest form that reads back, with a point where it would look like an integer.
FormatDouble(d) ==
    CASE d = <<>> -> <<"null">>
      [] d # <<>> /\ d[2] < 0 -> Fractional(d[1], 10 ^ (-d[2]))
      [] d # <<>> /\ d[2] = 0 -> Digits(d[1]) \o <<".", "0">>
      [] d # <<>> /\ d[2] > 0 -> Digits(d[1]) \o <<"e", "+">> \o Digits(d[2])

Newline(pretty, depth) ==
    IF pretty THEN <<"nl">> \o [i \in 1..depth |-> " "] ELSE <<>>

\* The pieces with commas between them, each on a line of its own.
Listed(pieces, pretty, depth) ==
    FlattenSeq([i \in 1..Len(pieces) |->
                   (IF i > 1 THEN <<",">> ELSE <<>>) \o Newline(pretty, depth + 1) \o pieces[i]])
    \o Newline(pretty, depth)

\* What a binary looks like; it does not read back as one.
AsObject(bytes) ==
    Of("Object", [k \in {<<"b", "y">>, <<"s", "u">>} |->
                     IF k = <<"b", "y">>
                     THEN Of("Array", [i \in 1..Len(bytes) |-> Of("Int", bytes[i])])
                     ELSE Null])

Keys(object) == SetToSeq(DOMAIN object)

RECURSIVE Dump(_, _, _)
Dump(v, pretty, depth) ==
    CASE Type(v) = "Null" -> <<"null">>
      [] Type(v) = "Bool" -> IF Payload(v) THEN <<"true">> ELSE <<"false">>
      [] Type(v) = "Int" -> Digits(Payload(v))
      [] Type(v) = "Double" -> FormatDouble(Payload(v))
      [] Type(v) = "String" -> Quoted(Payload(v))
      [] Type(v) = "Binary" -> Dump(AsObject(Payload(v)), FALSE, 0)
      [] Type(v) = "Array" ->
             IF Payload(v) = <<>> THEN <<"[", "]">>
             ELSE <<"[">> \o Listed([i \in 1..Len(Payload(v)) |-> Dump(Payload(v)[i], pretty, depth + 1)],
                                    pretty, depth) \o <<"]">>
      [] Type(v) = "Object" ->
             IF DOMAIN Payload(v) = {} THEN <<"{", "}">>
             ELSE LET keys == Keys(Payload(v)) IN
                  <<"{">> \o Listed([i \in 1..Len(keys) |->
                                        Quoted(keys[i]) \o (IF pretty THEN <<":", " ">> ELSE <<":">>)
                                        \o Dump(Payload(v)[keys[i]], pretty, depth + 1)],
                                    pretty, depth) \o <<"}">>

-----------------------------------------------------------------------------
(* The parser: what is read at position i, and where it ends. *)

Fail == [ok |-> FALSE]
Read(v, at) == [ok |-> TRUE, value |-> v, at |-> at]
At(s, i) == IF i <= Len(s) THEN s[i] ELSE "end"

FirstOf(there, s) ==
    IF there = {} THEN Len(s) + 1 ELSE CHOOSE j \in there : \A k \in there : j <= k
LineEnd(s, i) == FirstOf({j \in i..Len(s) : s[j] = "nl"}, s)
\* A comment that is not closed extends to the end.
CommentEnd(s, i) ==
    LET star == FirstOf({j \in i..Len(s) : s[j] = "*" /\ At(s, j + 1) = "/"}, s) IN
    IF star > Len(s) THEN star ELSE star + 2

RECURSIVE SkipSpace(_, _, _)
SkipSpace(s, i, comments) ==
    CASE At(s, i) \in {" ", "nl"} -> SkipSpace(s, i + 1, comments)
      [] comments /\ At(s, i) = "/" /\ At(s, i + 1) = "/" -> SkipSpace(s, LineEnd(s, i + 2), comments)
      [] comments /\ At(s, i) = "/" /\ At(s, i + 1) = "*" -> SkipSpace(s, CommentEnd(s, i + 2), comments)
      [] OTHER -> i

\* Mutant: a high half is a character by itself when no low one follows.
EscapeHalf(s, i) ==
    CASE At(s, i) \in {"quote", "bs"} -> <<s[i], i + 1>>
      [] At(s, i) = "/" -> <<"/", i + 1>>
      [] At(s, i) = "t" -> <<"tab", i + 1>>
      [] At(s, i) = "u" /\ At(s, i + 1) \in DOMAIN Hex -> <<Hex[s[i + 1]], i + 2>>
      [] At(s, i) = "u" /\ At(s, i + 1) = "hexHigh" ->
             <<"wide", IF At(s, i + 2) = "bs" /\ At(s, i + 3) = "u" /\ At(s, i + 4) = "hexLow"
                       THEN i + 5 ELSE i + 2>>
      [] OTHER -> <<>>

\* The escape behind a backslash at i - 1, as <<what it stands for, where it ends>>.
Escape(s, i) ==
    CASE At(s, i) \in {"quote", "bs"} -> <<s[i], i + 1>>
      [] At(s, i) = "/" -> <<"/", i + 1>>
      [] At(s, i) = "t" -> <<"tab", i + 1>>
      [] At(s, i) = "u" /\ At(s, i + 1) \in DOMAIN Hex -> <<Hex[s[i + 1]], i + 2>>
      [] /\ At(s, i) = "u" /\ At(s, i + 1) = "hexHigh"
         /\ At(s, i + 2) = "bs" /\ At(s, i + 3) = "u" /\ At(s, i + 4) = "hexLow" -> <<"wide", i + 5>>
      [] OTHER -> <<>>

RECURSIVE ParseString(_, _, _)
ParseString(s, i, res) ==
    CASE At(s, i) = "quote" ->
             IF \E j \in 1..Len(res) : res[j] = "bad" THEN Fail ELSE Read(res, i + 1)
      [] At(s, i) = "bs" ->
             LET escape == Escape(s, i + 1) IN
             IF escape = <<>> THEN Fail ELSE ParseString(s, escape[2], Append(res, escape[1]))
      [] At(s, i) \in {"end", "nl", "tab", "ctl"} -> Fail
      [] OTHER -> ParseString(s, i + 1, Append(res, s[i]))

DigitsEnd(s, i) == FirstOf({j \in i..Len(s) : s[j] \notin DOMAIN Digit}, s)
RECURSIVE NumberOf(_, _, _)
NumberOf(s, from, end) ==
    IF end <= from THEN 0 ELSE 10 * NumberOf(s, from, end - 1) + Digit[s[end - 1]]

\* From start to end: the digits from first, a point at point, an exponent behind fraction.
NumberRead(s, start, first, point, fraction, sign, end) ==
    LET signed(n) == IF first = start THEN n ELSE -n
        places == IF fraction = point THEN 0 ELSE fraction - point - 1
    IN  IF \/ point = first
           \/ s[first] = "0" /\ point > first + 1
           \/ At(s, point) = "." /\ fraction = point + 1
           \/ At(s, fraction) = "e" /\ end = sign + 1
        THEN Fail
        ELSE Read(IF end = point THEN Integer(signed(NumberOf(s, first, point)))
                  ELSE AsDouble(signed(NumberOf(s, first, point) * 10 ^ places
                                       + NumberOf(s, point + 1, fraction)),
                                (IF At(s, sign) = "-" THEN -1 ELSE 1) * NumberOf(s, sign + 1, end)
                                - places),
                  end)
Exponent(s, start, first, point, fraction, sign) ==
    NumberRead(s, start, first, point, fraction, sign,
               IF At(s, fraction) = "e" THEN DigitsEnd(s, sign + 1) ELSE fraction)
Fraction(s, start, first, point, fraction) ==
    Exponent(s, start, first, point, fraction,
             IF At(s, fraction) = "e" /\ At(s, fraction + 1) \in {"+", "-"} THEN fraction + 1
             ELSE fraction)
Whole(s, start, first, point) ==
    Fraction(s, start, first, point, IF At(s, point) = "." THEN DigitsEnd(s, point + 1) ELSE point)
\* The written form decides the type.
ParseNumber(s, start) ==
    IF At(s, start) = "-" THEN Whole(s, start, start + 1, DigitsEnd(s, start + 1))
    ELSE Whole(s, start, start, DigitsEnd(s, start))

RECURSIVE ParseValue(_, _, _, _), ParseItems(_, _, _, _, _), ParseMembers(_, _, _, _, _)
\* Mutant: the end of the text closes what is open.
AfterItemOrEnd(s, next, depth, comments, items) ==
    CASE At(s, next) = "," -> ParseItems(s, next + 1, depth, comments, items)
      [] At(s, next) \in {"]", "end"} -> Read(Of("Array", items), next + 1)
      [] OTHER -> Fail

AfterItem(s, next, depth, comments, items) ==
    CASE At(s, next) = "," -> ParseItems(s, next + 1, depth, comments, items)
      [] At(s, next) = "]" -> Read(Of("Array", items), next + 1)
      [] OTHER -> Fail
AddItem(s, item, depth, comments, items) ==
    IF ~item.ok THEN Fail
    ELSE AfterItem(s, SkipSpace(s, item.at, comments), depth, comments, Append(items, item.value))
ParseItems(s, i, depth, comments, items) ==
    AddItem(s, ParseValue(s, SkipSpace(s, i, comments), depth + 1, comments), depth, comments, items)

AfterMember(s, next, depth, comments, members) ==
    CASE At(s, next) = "," -> ParseMembers(s, next + 1, depth, comments, members)
      [] At(s, next) = "}" -> Read(Of("Object", members), next + 1)
      [] OTHER -> Fail
\* A repeated key keeps the last one.
AddMember(s, key, item, depth, comments, members) ==
    IF ~item.ok THEN Fail
    ELSE AfterMember(s, SkipSpace(s, item.at, comments), depth, comments,
                     (key :> item.value) @@ members)
MemberValue(s, key, colon, depth, comments, members) ==
    IF At(s, colon) # ":" THEN Fail
    ELSE AddMember(s, key, ParseValue(s, SkipSpace(s, colon + 1, comments), depth + 1, comments),
                   depth, comments, members)
MemberKey(s, key, depth, comments, members) ==
    IF ~key.ok THEN Fail
    ELSE MemberValue(s, key.value, SkipSpace(s, key.at, comments), depth, comments, members)
Member(s, start, depth, comments, members) ==
    IF At(s, start) # "quote" THEN Fail
    ELSE MemberKey(s, ParseString(s, start + 1, <<>>), depth, comments, members)
ParseMembers(s, i, depth, comments, members) ==
    Member(s, SkipSpace(s, i, comments), depth, comments, members)

StringValue(read) == IF read.ok THEN Read(Of("String", read.value), read.at) ELSE Fail
ParseArray(s, inside, depth, comments) ==
    IF At(s, inside) = "]" THEN Read(Of("Array", <<>>), inside + 1)
    ELSE ParseItems(s, inside, depth, comments, <<>>)
ParseObject(s, inside, depth, comments) ==
    IF At(s, inside) = "}" THEN Read(Of("Object", <<>>), inside + 1)
    ELSE ParseMembers(s, inside, depth, comments, <<>>)
ParseValue(s, i, depth, comments) ==
    CASE depth > MaxDepth -> Fail
      [] depth <= MaxDepth /\ At(s, i) = "null" -> Read(Null, i + 1)
      [] depth <= MaxDepth /\ At(s, i) \in {"true", "false"} -> Read(Of("Bool", s[i] = "true"), i + 1)
      [] depth <= MaxDepth /\ At(s, i) = "quote" -> StringValue(ParseString(s, i + 1, <<>>))
      [] depth <= MaxDepth /\ At(s, i) = "[" ->
             ParseArray(s, SkipSpace(s, i + 1, comments), depth, comments)
      [] depth <= MaxDepth /\ At(s, i) = "{" ->
             ParseObject(s, SkipSpace(s, i + 1, comments), depth, comments)
      [] OTHER -> ParseNumber(s, i)

ReadToEnd(s, read, comments) ==
    IF read.ok /\ SkipSpace(s, read.at, comments) > Len(s) THEN read ELSE Fail
Parse(s, comments) ==
    LET start == IF At(s, 1) = "bom" THEN 2 ELSE 1 IN
    ReadToEnd(s, ParseValue(s, SkipSpace(s, start, comments), 0, comments), comments)

-----------------------------------------------------------------------------
Init == value \in Values /\ text = <<>> /\ state = "value" /\ done = FALSE /\ result = Fail

Write ==
    /\ state = "value" /\ state' = "written"
    /\ \E pretty \in BOOLEAN, mark \in {<<>>, <<"bom">>} : text' = mark \o Dump(value, pretty, 0)
    /\ UNCHANGED <<value, done, result>>

\* The end of the text is lost.
Truncate ==
    /\ state = "written" /\ ~done /\ state' = "truncated"
    /\ \E n \in 0..(Len(text) - 1) : text' = SubSeq(text, 1, n)
    /\ UNCHANGED <<value, done, result>>

\* Somebody comments on a line.
Comment ==
    /\ state = "written" /\ ~done /\ state' = "commented"
    /\ \E i \in {j \in 1..Len(text) : text[j] = "nl"},
          remark \in {<<"/", "*", "a", "*", "/">>, <<"/", "/", "a", "nl">>} :
           text' = SubSeq(text, 1, i) \o remark \o SubSeq(text, i + 1, Len(text))
    /\ UNCHANGED <<value, done, result>>

\* Another writer escapes all that is not ASCII: below 16 bits with one escape, above with two, a
\* high and a low half.
UnicodeEscapes == {<<"bs", "u", "hexWide">>, <<"bs", "u", "hexHigh", "bs", "u", "hexLow">>}
\* What is left of a pair when a half is missing, or that is no pair.
BrokenEscapes ==
    {<<"bs", "u", "hexHigh">>, <<"bs", "u", "hexLow">>, <<"bs", "u", "hexLow", "bs", "u", "hexHigh">>,
     <<"bs", "u", "hexHigh", "bs", "u", "hexHigh">>, <<"bs", "u", "hexHigh", "bs", "u", "hexA">>}
EscapeUnicode ==
    /\ state = "written" /\ ~done /\ state' \in {"elsewhere", "broken"}
    /\ \E i \in {j \in 1..Len(text) : text[j] = "wide"},
          spelled \in IF state' = "broken" THEN BrokenEscapes ELSE UnicodeEscapes :
           text' = SubSeq(text, 1, i - 1) \o spelled \o SubSeq(text, i + 1, Len(text))
    /\ UNCHANGED <<value, done, result>>

\* Another writer has integers of any size: a double past the range is written as one.
WriteAsInteger ==
    /\ state = "value" /\ state' = "elsewhere" /\ Type(value) = "Double" /\ Payload(value) # <<>>
    /\ Payload(value)[2] \in 0..2
    /\ LET n == Payload(value)[1] * 10 ^ Payload(value)[2] IN
           (n > IntMax \/ n < -IntMax - 1) /\ text' = Digits(n)
    /\ UNCHANGED <<value, done, result>>

ReadBack ==
    /\ state # "value" /\ ~done /\ done' = TRUE
    /\ result' = Parse(text, state = "commented")
    /\ UNCHANGED <<value, text, state>>

Next == Write \/ Truncate \/ Comment \/ EscapeUnicode \/ WriteAsInteger \/ ReadBack

Spec == Init /\ [][Next]_vars

-----------------------------------------------------------------------------
(* Properties. *)

\* What a value is after a journey through text: what JSON cannot hold has changed.
RECURSIVE Survivor(_)
Survivor(v) ==
    CASE Type(v) = "Double" /\ Payload(v) = <<>> -> Null
      [] Type(v) = "String" -> Of("String", Substituted(Payload(v)))
      [] Type(v) = "Binary" -> AsObject(Payload(v))
      [] Type(v) = "Array" -> Of("Array", [i \in 1..Len(Payload(v)) |-> Survivor(Payload(v)[i])])
      [] Type(v) = "Object" ->
             Of("Object", [k \in {Substituted(l) : l \in DOMAIN Payload(v)} |->
                              Survivor(Payload(v)[CHOOSE l \in DOMAIN Payload(v) : Substituted(l) = k])])
      [] OTHER -> v

\* A text written by toJson(), indented or not, with a comment on any line or without, reads
\* back as the value it was, of the type it was, unless it is nested deeper than the parser
\* goes; and so does the text of a writer that escapes more, and has larger integers.  A text
\* whose end is lost is refused, except for the digits of a bare number, and so is one with half
\* of a surrogate pair.
TextSurvives ==
    /\ (done /\ state \in {"written", "commented", "elsewhere"}) =>
           IF Height(Survivor(value)) > MaxDepth THEN ~result.ok
           ELSE result.ok /\ result.value = Survivor(value)
    /\ (done /\ state = "broken") => ~result.ok
    /\ (done /\ state = "truncated") =>
           (result.ok => Type(value) \in {"Int", "Double"})
=============================================================================
