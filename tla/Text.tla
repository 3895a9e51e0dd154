-------------------------------- MODULE Text --------------------------------
(***************************************************************************)
(* Strings: str::format(), varexp(), join(), split() and vasprintf() over  *)
(* texts of single characters, each asked of a text that was put together  *)
(* so that what should come out is known.                                  *)
(***************************************************************************)
EXTENDS Integers, Sequences, SequencesExt, FiniteSets

CONSTANTS
    Texts,               \* plain texts, the characters with a meaning among them
    Args,                \* format()'s arguments
    Vars,                \* names and their values; no value has a "$"
    Delimiters,
    StackBufferSize      \* STACK_BUFFER_SIZE

VARIABLES asked, result, meant

vars == <<asked, result, meant>>

Digit == [c \in {"0", "1", "2", "3", "4", "5", "6", "7", "8", "9"} |->
            CHOOSE n \in 0..9 : ToString(n) = c]
CharAt(s, i) == IF i <= Len(s) THEN s[i] ELSE "end"

-----------------------------------------------------------------------------
(* format() *)

IsDigit(s, i) == CharAt(s, i) \in DOMAIN Digit
RECURSIVE DigitsEnd(_, _), NumberOf(_, _, _)
DigitsEnd(s, i) == IF IsDigit(s, i) THEN DigitsEnd(s, i + 1) ELSE i
NumberOf(s, from, end) ==
    IF end <= from THEN 0 ELSE 10 * NumberOf(s, from, end - 1) + Digit[s[end - 1]]

\* A placeholder with no argument behind it is left as it stands.
Placeholder(s, p, q) ==
    IF NumberOf(s, p + 1, q) \in 1..Len(Args) THEN Args[NumberOf(s, p + 1, q)]
    ELSE SubSeq(s, p, q - 1)

RECURSIVE FormatFrom(_, _)
FormatFrom(s, p) ==
    CASE p > Len(s) -> <<>>
      [] CharAt(s, p) = "%" /\ CharAt(s, p + 1) = "%" -> <<"%">> \o FormatFrom(s, p + 2)
      [] CharAt(s, p) = "%" /\ IsDigit(s, p + 1) ->
             Placeholder(s, p, DigitsEnd(s, p + 1)) \o FormatFrom(s, DigitsEnd(s, p + 1))
      [] OTHER -> <<s[p]>> \o FormatFrom(s, p + 1)
Format(s) == FormatFrom(s, 1)

-----------------------------------------------------------------------------
(* varexp() *)

Unbalanced == [ok |-> FALSE]

RECURSIVE Close(_, _, _, _)
\* Mutant: the end closes what is open.
CloseAtEnd(s, j, count, nested) ==
    CASE count = 0 \/ j > Len(s) -> [ok |-> TRUE, at |-> j, nested |-> nested]
      [] count > 0 /\ CharAt(s, j) = "$" /\ CharAt(s, j + 1) = "{" ->
             Close(s, j + 2, count + 1, TRUE)
      [] OTHER -> Close(s, j + 1, IF CharAt(s, j) = "}" THEN count - 1 ELSE count, nested)

\* Behind the brace that closes the one before j, and whether a variable was on the way.
Close(s, j, count, nested) ==
    CASE count = 0 -> [ok |-> TRUE, at |-> j, nested |-> nested]
      [] count > 0 /\ j > Len(s) -> Unbalanced
      [] count > 0 /\ CharAt(s, j) = "$" /\ CharAt(s, j + 1) = "{" ->
             Close(s, j + 2, count + 1, TRUE)
      [] OTHER -> Close(s, j + 1, IF s[j] = "}" THEN count - 1 ELSE count, nested)

Part(type, text) == [type |-> type, text |-> text]
LiteralPart(text) == IF text = <<>> THEN <<>> ELSE <<Part("literal", text)>>

RECURSIVE VarexpSplit(_, _, _, _)
AfterVariable(s, start, literal, parts, closed) ==
    IF ~closed.ok THEN Unbalanced
    ELSE VarexpSplit(s, closed.at, <<>>,
                     parts \o LiteralPart(literal)
                     \o <<Part(IF closed.nested THEN "nested" ELSE "variable",
                               SubSeq(s, start, closed.at - 2))>>)

\* Mutant: a dollar is taken alone, so the second of two may begin a variable.
VarexpSplitSingly(s, i, literal, parts) ==
    CASE i > Len(s) -> [ok |-> TRUE, parts |-> parts \o LiteralPart(literal)]
      [] CharAt(s, i) = "$" /\ CharAt(s, i + 1) = "{" ->
             AfterVariable(s, i + 2, literal, parts, Close(s, i + 2, 1, FALSE))
      [] OTHER -> VarexpSplit(s, i + 1, Append(literal, s[i]), parts)

VarexpSplit(s, i, literal, parts) ==
    CASE i > Len(s) -> [ok |-> TRUE, parts |-> parts \o LiteralPart(literal)]
      [] CharAt(s, i) = "$" /\ CharAt(s, i + 1) = "{" ->
             AfterVariable(s, i + 2, literal, parts, Close(s, i + 2, 1, FALSE))
      [] CharAt(s, i) = "$" /\ CharAt(s, i + 1) \notin {"{", "end"} ->
             VarexpSplit(s, i + 2, literal \o SubSeq(s, i, i + 1), parts)
      [] OTHER -> VarexpSplit(s, i + 1, Append(literal, s[i]), parts)

\* Of two dollars one is left, wherever they came from.
RECURSIVE VarexpPost(_)
VarexpPost(s) ==
    CASE s = <<>> -> <<>>
      [] CharAt(s, 1) = "$" /\ CharAt(s, 2) = "$" -> <<"$">> \o VarexpPost(SubSeq(s, 3, Len(s)))
      [] OTHER -> <<Head(s)>> \o VarexpPost(Tail(s))

Find(name) == IF name \in DOMAIN Vars THEN Vars[name] ELSE <<>>

RECURSIVE Varexp(_)
Expanded(part) ==
    CASE part.type = "literal" -> part.text
      [] part.type = "variable" -> Find(part.text)
      [] part.type = "nested" -> Find(Varexp(part.text))
Joined(split) ==
    IF split.ok
    THEN VarexpPost(FlattenSeq([i \in 1..Len(split.parts) |-> Expanded(split.parts[i])]))
    ELSE <<>>
Varexp(s) == Joined(VarexpSplit(s, 1, <<>>, <<>>))

-----------------------------------------------------------------------------
(* join(), split(), vasprintf() *)

Join(v, delimiter) ==
    FlattenSeq([i \in 1..Len(v) |-> IF i < Len(v) THEN v[i] \o delimiter ELSE v[i]])

\* Where the delimiter is next, or behind the end.
FindFrom(s, delimiter, start) ==
    LET there == {i \in start..(Len(s) - Len(delimiter) + 1) :
                     SubSeq(s, i, i + Len(delimiter) - 1) = delimiter}
    IN  IF there = {} THEN Len(s) + 1 ELSE CHOOSE i \in there : \A j \in there : i <= j
RECURSIVE SplitFrom(_, _, _)
SplitAt(s, delimiter, start, end) ==
    <<SubSeq(s, start, end - 1)>>
    \o (IF end > Len(s) THEN <<>> ELSE SplitFrom(s, delimiter, end + Len(delimiter)))
SplitFrom(s, delimiter, start) == SplitAt(s, delimiter, start, FindFrom(s, delimiter, start))
Split(s, delimiter) == SplitFrom(s, delimiter, 1)

\* What is in a buffer of n bytes; the last of them is for the terminator.
Vsnprintf(text, n) == SubSeq(text, 1, IF n - 1 < Len(text) THEN n - 1 ELSE Len(text))
\* Mutant: a text as long as the buffer is taken from it.
VasprintfFull(text) ==
    IF Len(text) <= StackBufferSize THEN Vsnprintf(text, StackBufferSize)
    ELSE Vsnprintf(text, Len(text) + 1)

\* vsnprintf() says how long the text is, whatever the buffer had room for.
Vasprintf(text) ==
    IF Len(text) < StackBufferSize THEN Vsnprintf(text, StackBufferSize)
    ELSE Vsnprintf(text, Len(text) + 1)

-----------------------------------------------------------------------------
Init == asked = "none" /\ result = <<>> /\ meant = <<>>

\* A character with a meaning is doubled to be itself.
Escaped(s, special) ==
    FlattenSeq([i \in 1..Len(s) |-> IF s[i] = special THEN <<special, special>> ELSE <<s[i]>>])

AskFormat ==
    \E before, after \in Texts, n \in 0..(Len(Args) + 1) :
       /\ ~IsDigit(after, 1)
       /\ result' = Format(Escaped(before, "%") \o <<"%", ToString(n)>> \o Escaped(after, "%"))
       /\ meant' = before \o (IF n \in 1..Len(Args) THEN Args[n] ELSE <<"%", ToString(n)>>)
                   \o after
       /\ asked' = "format"

Braced(s) == <<"$", "{">> \o s \o <<"}">>
AskVarexp ==
    \E before, after \in Texts, name \in DOMAIN Vars :
       /\ \/ /\ result' = Varexp(Escaped(before, "$") \o Braced(name) \o Escaped(after, "$"))
             /\ meant' = before \o Vars[name] \o after
          \/ /\ result' = Varexp(Escaped(before, "$") \o Braced(Braced(name)) \o Escaped(after, "$"))
             /\ meant' = before \o Find(Vars[name]) \o after
          \/ /\ result' = Varexp(Escaped(before, "$") \o <<"$">> \o Braced(name))
             /\ meant' = before \o Braced(name)
       /\ asked' = "varexp"

\* A name spelled by two others, and an expression of which a brace is never closed.
AskVarexpNested ==
    \E before, after \in Texts, one, other \in DOMAIN Vars :
       /\ \/ /\ result' = Varexp(Escaped(before, "$")
                                \o Braced(Braced(one) \o Braced(other)) \o Escaped(after, "$"))
             /\ meant' = before \o Find(Vars[one] \o Vars[other]) \o after
          \/ /\ "}" \notin ToSet(after)
             /\ \E inside \in {one, Braced(one), Braced(one) \o other} :
                    result' = Varexp(Escaped(before, "$")
                                     \o <<"$", "{">> \o inside \o Escaped(after, "$"))
             /\ meant' = <<>>
       /\ asked' = "varexp"

AskSplit ==
    \E s \in Texts, t \in Texts, delimiter \in Delimiters :
       /\ result' = Join(Split(s \o t, delimiter), delimiter)
       /\ meant' = s \o t
       /\ asked' = IF \E i \in 1..Len(Split(s \o t, delimiter)) :
                         FindFrom(Split(s \o t, delimiter)[i], delimiter, 1)
                         <= Len(Split(s \o t, delimiter)[i])
                   THEN "unsplit" ELSE "split"

AskPrintf ==
    \E s, t \in Texts :
       /\ result' = Vasprintf(s \o t) /\ meant' = s \o t /\ asked' = "printf"

Next == asked = "none" /\ (AskFormat \/ AskVarexp \/ AskVarexpNested \/ AskSplit \/ AskPrintf)

Spec == Init /\ [][Next]_vars

-----------------------------------------------------------------------------
(* Properties. *)

\* Whatever the text around it, an argument or a variable takes the place of its name, a
\* doubled character is that character, and nothing else changes; names nest, and an expression
\* of which a brace is left open is nothing; a text that is split is the pieces joined, none of
\* which has the delimiter; a formatted text is whole at every length.
SaysWhatIsMeant == result = meant /\ asked # "unsplit"
=============================================================================
