-------------------------------- MODULE Cbor --------------------------------
(***************************************************************************)
(* CBOR: JsonValue::toCbor(), and the decoder of JsonValue::fromCbor() on  *)
(* what toCbor() wrote, on that with its end lost or bytes behind it, on   *)
(* what another encoder made of the same value (lengths not given up       *)
(* front, heads longer than they need to be), and on bytes of any kind.    *)
(*                                                                         *)
(* Bytes are 0..255.  An uint64_t is its bytes without leading zeros, an   *)
(* int64_t <<sign, arg>>: arg, or -1 - arg where the sign is set.  A       *)
(* double is its eight bytes.                                              *)
(***************************************************************************)
EXTENDS JsonValues

CONSTANTS
    Values,          \* the values that are written
    Foreign,         \* byte sequences from elsewhere
    MaxDepth         \* Decoder::maxDepth

VARIABLES value, bytes, origin, done, result

vars == <<value, bytes, origin, done, result>>

Break == 255
Zeros(n) == [i \in 1..n |-> 0]

RECURSIVE Stripped(_)
Stripped(digits) == IF digits # <<>> /\ Head(digits) = 0 THEN Stripped(Tail(digits)) ELSE digits
\* A size as an argument, and an argument as a size, capped above every size there is.
ToArg(n) == Stripped(<<(n \div 256) % 256, n % 256>>)
ToSize(arg) == CASE Len(arg) = 0 -> 0
                 [] Len(arg) = 1 -> arg[1]
                 [] Len(arg) = 2 -> 256 * arg[1] + arg[2]
                 [] OTHER -> 65536
InInt64(arg) == Len(arg) < 8 \/ arg[1] < 128

\* utf::is_valid_utf8, of one-byte and two-byte sequences.
RECURSIVE IsValid(_)
IsValid(s) ==
    CASE s = <<>> -> TRUE
      [] s # <<>> /\ Head(s) < 128 -> IsValid(Tail(s))
      [] Len(s) > 1 /\ Head(s) \in 194..223 /\ s[2] \in 128..191 -> IsValid(SubSeq(s, 3, Len(s)))
      [] OTHER -> FALSE

-----------------------------------------------------------------------------
(* toCbor() *)

Wide(major, minor, width, arg) == <<major * 32 + minor>> \o Zeros(width - Len(arg)) \o arg

\* Mutant: the first argument with a byte of its own goes into the initial byte.
PutHeadTight(major, arg) ==
    IF arg = <<24>> THEN <<major * 32 + 24>> ELSE
    CASE ToSize(arg) < 24 -> <<major * 32 + ToSize(arg)>>
      [] Len(arg) = 1 /\ arg[1] > 24 -> Wide(major, 24, 1, arg)
      [] Len(arg) = 2 -> Wide(major, 25, 2, arg)
      [] Len(arg) \in 3..4 -> Wide(major, 26, 4, arg)
      [] Len(arg) > 4 -> Wide(major, 27, 8, arg)

\* The shortest head that holds the argument.
PutHead(major, arg) ==
    CASE ToSize(arg) < 24 -> <<major * 32 + ToSize(arg)>>
      [] Len(arg) = 1 /\ arg[1] >= 24 -> Wide(major, 24, 1, arg)
      [] Len(arg) = 2 -> Wide(major, 25, 2, arg)
      [] Len(arg) \in 3..4 -> Wide(major, 26, 4, arg)
      [] Len(arg) > 4 -> Wide(major, 27, 8, arg)

PutBytes(major, s) == PutHead(major, ToArg(Len(s))) \o s

\* The map is written in the order of its keys.
Keys(object) == SetToSeq(DOMAIN object)

RECURSIVE Encode(_)
Encode(v) ==
    CASE Type(v) = "Null" -> <<246>>
      [] Type(v) = "Bool" -> <<IF Payload(v) THEN 245 ELSE 244>>
      [] Type(v) = "Int" -> PutHead(IF Payload(v)[1] = 0 THEN 0 ELSE 1, Payload(v)[2])
      [] Type(v) = "Double" -> <<251>> \o Payload(v)
      [] Type(v) = "String" -> PutBytes(3, Payload(v))
      [] Type(v) = "Binary" -> PutBytes(2, Payload(v))
      [] Type(v) = "Array" ->
             PutHead(4, ToArg(Len(Payload(v))))
             \o FlattenSeq([i \in 1..Len(Payload(v)) |-> Encode(Payload(v)[i])])
      [] Type(v) = "Object" ->
             LET keys == Keys(Payload(v)) IN
             PutHead(5, ToArg(Len(keys)))
             \o FlattenSeq([i \in 1..Len(keys) |->
                               PutBytes(3, keys[i]) \o Encode(Payload(v)[keys[i]])])

-----------------------------------------------------------------------------
(* The decoder: what is read at position at, and where it ends. *)

Fail == [ok |-> FALSE]
Got(x, at) == [ok |-> TRUE, value |-> x, at |-> at]

TakeBig(d, at, n) ==
    IF at + n - 1 > Len(d) THEN Fail ELSE Got(Stripped(SubSeq(d, at, at + n - 1)), at + n)

\* The argument behind an initial byte; 28 to 31 are none.
Argument(d, at, minor) ==
    CASE minor < 24 -> Got(ToArg(minor), at)
      [] minor = 24 -> TakeBig(d, at, 1)
      [] minor = 25 -> TakeBig(d, at, 2)
      [] minor = 26 -> TakeBig(d, at, 4)
      [] minor = 27 -> TakeBig(d, at, 8)
      [] OTHER -> Fail

RawBytes(d, count) ==
    IF ~count.ok \/ ToSize(count.value) > Len(d) - count.at + 1 THEN Fail
    ELSE Got(SubSeq(d, count.at, count.at + ToSize(count.value) - 1),
             count.at + ToSize(count.value))

\* A text is well formed, each piece of it on its own.
Text(major, raw) == IF raw.ok /\ major = 3 /\ ~IsValid(raw.value) THEN Fail ELSE raw

RECURSIVE ChunkedBytes(_, _, _, _)
AddChunk(d, major, soFar, chunk) ==
    IF chunk.ok THEN ChunkedBytes(d, chunk.at, major, soFar \o chunk.value) ELSE Fail
ChunkedBytes(d, at, major, soFar) ==
    CASE at > Len(d) -> Fail
      [] at <= Len(d) /\ d[at] = Break -> Got(soFar, at + 1)
      [] at <= Len(d) /\ d[at] \div 32 = major ->
             AddChunk(d, major, soFar, Text(major, RawBytes(d, Argument(d, at + 1, d[at] % 32))))
      [] OTHER -> Fail

StringOf(d, at, major, minor) ==
    IF minor = 31 THEN ChunkedBytes(d, at, major, <<>>)
    ELSE Text(major, RawBytes(d, Argument(d, at, minor)))

\* A narrower float as a double: m * 2^(exponent - bias - width), its leading one hidden.
RECURSIVE Log2(_)
Log2(m) == IF m < 2 THEN 0 ELSE 1 + Log2(m \div 2)
DoubleBytes(sign, exponent, fraction20) ==
    <<128 * sign + exponent \div 16, 16 * (exponent % 16) + fraction20 \div 65536,
      (fraction20 \div 256) % 256, fraction20 % 256>> \o Zeros(4)
Widened(sign, exponent, mantissa, bias, width, top) ==
    CASE exponent = top -> DoubleBytes(sign, 2047, IF mantissa = 0 THEN 0 ELSE 524288)
      [] exponent = 0 /\ mantissa = 0 -> DoubleBytes(sign, 0, 0)
      [] exponent = 0 /\ mantissa # 0 ->
             DoubleBytes(sign, 1023 + Log2(mantissa) + 1 - bias - width,
                         (mantissa - 2 ^ Log2(mantissa)) * 2 ^ (20 - Log2(mantissa)))
      [] OTHER -> DoubleBytes(sign, 1023 + exponent - bias, mantissa * 2 ^ (20 - width))
FromHalf(h) == Widened(h \div 32768, (h \div 1024) % 32, h % 1024, 15, 10, 31)
\* Of a float's 23 bits of mantissa the upper 20: the inputs leave the others zero.
FromFloat(b) == Widened(b[1] \div 128, 2 * (b[1] % 128) + b[2] \div 128,
                        (b[2] % 128) * 8192 + b[3] * 32 + b[4] \div 8, 127, 20, 255)

Float(d, at, n) ==
    IF at + n - 1 > Len(d) THEN Fail
    ELSE Got(Of("Double", CASE n = 2 -> FromHalf(256 * d[at] + d[at + 1])
                            [] n = 4 -> FromFloat(SubSeq(d, at, at + 3))
                            [] n = 8 -> SubSeq(d, at, at + 7)), at + n)

\* JsonValue(uint64_t): what an int64_t cannot hold is a double; of its bits the inputs set
\* the upper ones, which fit.
FromUnsigned(arg) ==
    IF InInt64(arg) THEN Of("Int", <<0, arg>>)
    ELSE Of("Double", DoubleBytes(0, 1023 + 63,
                                  (arg[1] % 128) * 8192 + arg[2] * 32 + arg[3] \div 8))
Natural(arg) == IF arg.ok THEN Got(FromUnsigned(arg.value), arg.at) ELSE Fail
Negative(arg) ==
    IF arg.ok /\ InInt64(arg.value) THEN Got(Of("Int", <<1, arg.value>>), arg.at) ELSE Fail
As(type, read) == IF read.ok THEN Got(Of(type, read.value), read.at) ELSE Fail

\* Major type 7.
Simple(d, at, minor) ==
    CASE minor \in {20, 21} -> Got(Of("Bool", minor = 21), at)
      [] minor \in {22, 23} -> Got(Null, at)
      [] minor = 25 -> Float(d, at, 2)
      [] minor = 26 -> Float(d, at, 4)
      [] minor = 27 -> Float(d, at, 8)
      [] OTHER -> Fail

Endless == -1
\* Whether nothing is left: nothing is owed, or the break is there.
Ended(d, at, left) == left = 0 \/ (left = Endless /\ at <= Len(d) /\ d[at] = Break)
After(at, left) == IF left = Endless THEN at + 1 ELSE at
Fewer(left) == IF left = Endless THEN Endless ELSE left - 1

RECURSIVE DecodeValue(_, _, _), Items(_, _, _, _, _), Members(_, _, _, _, _)
AddItem(d, left, depth, items, item) ==
    IF item.ok THEN Items(d, item.at, Fewer(left), depth, Append(items, item.value)) ELSE Fail
Items(d, at, left, depth, items) ==
    IF Ended(d, at, left) THEN Got(items, After(at, left))
    ELSE AddItem(d, left, depth, items, DecodeValue(d, at, depth + 1))

\* A repeated key keeps the last one.
AddMember(d, left, depth, members, key, item) ==
    IF item.ok
    THEN Members(d, item.at, Fewer(left), depth, (Payload(key) :> item.value) @@ members)
    ELSE Fail
Member(d, left, depth, members, key) ==
    IF ~key.ok THEN Fail
    ELSE IF Type(key.value) # "String" THEN Fail
    ELSE AddMember(d, left, depth, members, key.value, DecodeValue(d, key.at, depth + 1))
Members(d, at, left, depth, members) ==
    IF Ended(d, at, left) THEN Got(members, After(at, left))
    ELSE Member(d, left, depth, members, DecodeValue(d, at, depth + 1))

Container(d, major, depth, at, left) ==
    IF major = 4 THEN As("Array", Items(d, at, left, depth, <<>>))
    ELSE As("Object", Members(d, at, left, depth, <<>>))
Counted(d, major, depth, arg) ==
    IF arg.ok THEN Container(d, major, depth, arg.at, ToSize(arg.value)) ELSE Fail

OfMajor(d, at, major, minor, depth) ==
    CASE major = 0 -> Natural(Argument(d, at, minor))
      [] major = 1 -> Negative(Argument(d, at, minor))
      [] major = 2 -> As("Binary", StringOf(d, at, 2, minor))
      [] major = 3 -> As("String", StringOf(d, at, 3, minor))
      [] major \in {4, 5} ->
             IF minor = 31 THEN Container(d, major, depth, at, Endless)
             ELSE Counted(d, major, depth, Argument(d, at, minor))
      [] major = 6 -> Fail
      [] major = 7 -> Simple(d, at, minor)

DecodeValue(d, at, depth) ==
    IF depth > MaxDepth \/ at > Len(d) THEN Fail
    ELSE OfMajor(d, at + 1, d[at] \div 32, d[at] % 32, depth)

ToEnd(d, read) == IF read.ok /\ read.at = Len(d) + 1 THEN read ELSE Fail
Decode(d) == ToEnd(d, DecodeValue(d, 1, 0))

-----------------------------------------------------------------------------
(* Another encoder: it gives no lengths, cuts strings after their first     *)
(* character, and has one size of head for numbers.                         *)

Piece(major, s, i) ==
    LET end == IF major = 3 /\ i < Len(s) /\ s[i] > 191 THEN i + 1 ELSE i
    IN  IF major = 3 /\ i > 1 /\ s[i - 1] > 191 THEN <<>> ELSE PutBytes(major, SubSeq(s, i, end))
Pieces(major, s) ==
    <<major * 32 + 31>> \o FlattenSeq([i \in 1..Len(s) |-> Piece(major, s, i)]) \o <<Break>>

RECURSIVE EncodeEndless(_)
EncodeEndless(v) ==
    CASE Type(v) = "Int" -> Wide(Payload(v)[1], 27, 8, Payload(v)[2])
      [] Type(v) = "String" -> Pieces(3, Payload(v))
      [] Type(v) = "Binary" -> Pieces(2, Payload(v))
      [] Type(v) = "Array" ->
             <<159>> \o FlattenSeq([i \in 1..Len(Payload(v)) |-> EncodeEndless(Payload(v)[i])])
             \o <<Break>>
      [] Type(v) = "Object" ->
             LET keys == Keys(Payload(v)) IN
             <<191>> \o FlattenSeq([i \in 1..Len(keys) |->
                                       Pieces(3, keys[i]) \o EncodeEndless(Payload(v)[keys[i]])])
             \o <<Break>>
      [] OTHER -> Encode(v)

-----------------------------------------------------------------------------
Init == value \in Values /\ bytes = <<>> /\ origin = "none" /\ done = FALSE /\ result = Fail

ToCbor ==
    /\ origin = "none" /\ origin' = "own" /\ bytes' = Encode(value)
    /\ UNCHANGED <<value, done, result>>

WrittenElsewhere ==
    /\ origin = "none" /\ origin' = "other" /\ bytes' = EncodeEndless(value)
    /\ UNCHANGED <<value, done, result>>

\* Bytes that were no value of ours.
Arrive ==
    /\ origin = "none" /\ value = Null /\ origin' = "foreign"
    /\ bytes' \in Foreign
    /\ UNCHANGED <<value, done, result>>

\* The end is lost, or there is more behind it.
Damage ==
    /\ origin \in {"own", "other"} /\ ~done /\ origin' = "damaged"
    /\ \/ \E n \in 0..(Len(bytes) - 1) : bytes' = SubSeq(bytes, 1, n)
       \/ \E b \in {0, Break} : bytes' = Append(bytes, b)
    /\ UNCHANGED <<value, done, result>>

FromCbor ==
    /\ origin # "none" /\ ~done /\ done' = TRUE
    /\ result' = Decode(bytes)
    /\ UNCHANGED <<value, bytes, origin>>

Next == ToCbor \/ WrittenElsewhere \/ Arrive \/ Damage \/ FromCbor

Spec == Init /\ [][Next]_vars

-----------------------------------------------------------------------------
(* Properties. *)

\* What fromCbor() accepts: text that is UTF-8, nested no deeper than it goes.
RECURSIVE WellFormed(_)
WellFormed(v) ==
    CASE Type(v) = "String" -> IsValid(Payload(v))
      [] Type(v) = "Array" -> \A i \in 1..Len(Payload(v)) : WellFormed(Payload(v)[i])
      [] Type(v) = "Object" ->
             \A k \in DOMAIN Payload(v) : IsValid(k) /\ WellFormed(Payload(v)[k])
      [] OTHER -> TRUE
Readable(v) == WellFormed(v) /\ Height(v) <= MaxDepth

\* A value written by toCbor(), or by an encoder that gives no lengths, reads back as itself
\* to the byte, unless no reader here takes it; an encoding is no part of another one, so what
\* is cut off or goes on is refused; and what is read of bytes from elsewhere is a value that
\* toCbor() writes and fromCbor() reads.
BytesSurvive ==
    /\ (done /\ origin \in {"own", "other"}) =>
           IF Readable(value) THEN result.ok /\ result.value = value ELSE ~result.ok
    /\ (done /\ origin = "damaged") => ~result.ok
    /\ (done /\ origin = "foreign" /\ result.ok) =>
           LET again == Decode(Encode(result.value)) IN again.ok /\ again.value = result.value
=============================================================================
