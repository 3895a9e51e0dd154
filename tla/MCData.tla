------------------------------- MODULE MCData -------------------------------
(***************************************************************************)
(* What the library computes, for TLC: the command line parser, and beside *)
(* it the texts and the encodings, which share nothing with it or with one *)
(* another.  A behaviour is one of a part; the others stay as they were at *)
(* the beginning.                                                          *)
(***************************************************************************)
EXTENDS MCCommandLine

VARIABLES
    part,
    value, text, state, jsonDone, jsonRead,                    \* JsonText
    encoded, bytes, origin, cborDone, cborRead,                \* Cbor
    source, to, policy, converted, back,                       \* Utf
    asked, result, meant                                       \* Text

jsonVars == <<value, text, state, jsonDone, jsonRead>>
cborVars == <<encoded, bytes, origin, cborDone, cborRead>>
utfVars == <<source, to, policy, converted, back>>
textVars == <<asked, result, meant>>

-----------------------------------------------------------------------------
(* The values that are written. *)

JSON == INSTANCE JsonValues
Of(type, payload) == JSON!Of(type, payload)
Null == JSON!Null
UpTo(alphabet, n) == UNION {[1..k -> alphabet] : k \in 0..n}

\* Containers of one item and of two, under keys that need no escape and keys that do.
Nested(values, key, odd) ==
    {Of("Array", <<>>), Of("Object", <<>>)}
    \cup UNION {{Of("Array", <<v>>), Of("Array", <<v, Null>>),
                 Of("Object", [k \in {key} |-> v]), Of("Object", [k \in odd |-> v])} : v \in values}

Double(m, e) == Of("Double", <<m, e>>)
JsonInt(n) == Of("Int", n)
JsonString(s) == Of("String", s)
\* The largest integer is 99: 100 and 99 are at the two sides of it.
JsonScalars ==
    {Null, Of("Bool", TRUE), JsonInt(0), JsonInt(-100), JsonInt(99),
     Double(2, 0), Double(15, -1), Double(-15, -1), Double(5, -2), Double(3, 9),
     Double(-7, 0), Double(1, 2), Double(-101, 0),
     Of("Double", <<>>), Of("Binary", <<>>), Of("Binary", <<7, 25>>)}
    \cup {JsonString(s) : s \in UpTo({"a", "quote", "bs", "tab", "ctl", "bad", "wide", "/"}, 2)}
JsonNested(values) == Nested(values, <<"a">>, {<<"quote">>, <<"bad">>})
JsonSome ==
    JsonScalars \cup JsonNested(JsonScalars)
    \cup JsonNested(JsonNested({Null, JsonInt(10), Double(2, 0), JsonString(<<"bs">>)}))
    \cup JsonNested(JsonNested(JsonNested({Null})))

\* Arguments at each change of a head's width, to the largest int64_t.
CborArgs ==
    {<<>>, <<23>>, <<24>>, <<255>>, <<1, 0>>, <<255, 255>>, <<1, 0, 0>>, <<255, 255, 255, 255>>,
     <<1, 0, 0, 0, 0>>, <<127, 255, 255, 255, 255, 255, 255, 255>>}
CborStrings ==
    {<<>>, <<97>>, <<195, 169>>, <<97, 195, 169, 97>>, <<195>>, <<255>>, [i \in 1..24 |-> 97]}
CborScalars ==
    {Null, Of("Bool", TRUE), Of("Bool", FALSE), Of("Double", <<127, 240, 0, 0, 0, 0, 0, 0>>)}
    \cup {Of("Int", <<sign, arg>>) : sign \in {0, 1}, arg \in CborArgs}
    \cup {Of(type, s) : type \in {"String", "Binary"}, s \in CborStrings}
CborNested(values) == Nested(values, <<97>>, {<<195, 169>>, <<>>})
CborSome ==
    CborScalars \cup CborNested(CborScalars)
    \cup CborNested(CborNested({Null, Of("Int", <<1, <<24>>>>), Of("String", <<97>>)}))
    \cup CborNested(CborNested(CborNested({Null})))
    \cup {Of("Object", [k \in {<<255>>} |-> Null])}
\* Any initial byte that is decided on its own; halves and floats at the ends of their ranges;
\* integers on both sides of 2^63; a key twice.
CborForeign ==
    UpTo({0, 24, 33, 65, 95, 97, 127, 129, 159, 161, 191, 192, 195, 246, 249, 252, 255}, 3)
    \cup {<<249, h, l>> : h \in {0, 3, 4, 60, 123, 124, 128, 252}, l \in {0, 1, 255}}
    \cup {<<250, a, b, 0, 0>> : a \in {0, 63, 127, 255}, b \in {0, 1, 64, 127, 128, 192}}
    \cup {<<27, a, b, c, 0, 0, 0, 0, 0>> : a \in {0, 127, 128, 255}, b \in {0, 255}, c \in {0, 248}}
    \cup {<<59, a, 0, 0, 0, 0, 0, 0, 0>> : a \in {127, 128}}
    \cup {<<191, 97, 97, x, 97, 97, y, 255>> : x \in {0, 246}, y \in {1, 244}}

\* Units at the ends of every range that is decided on.
Units8 == {65, 128, 143, 144, 159, 160, 191, 193, 194, 224, 225, 237, 240, 243, 244, 245}
Units16 == {65, 2047, 2048, 55295, 55296, 56319, 56320, 57343, 57344, 65535}
Units32 == {127, 128, 2047, 2048, 55295, 55296, 57343, 57344, 65535, 65536, 1114111, 1114112}
UtfSources ==
    {<<8, s>> : s \in UpTo(Units8, 3)
                      \cup {<<lead>> \o s : lead \in {224, 240, 244},
                                            s \in [1..3 -> {65, 128, 143, 144, 191, 194, 240}]}}
    \cup {<<16, s>> : s \in UpTo(Units16, 3)}
    \cup {<<32, s>> : s \in UpTo(Units32, 2)}

\* The values spell names: one by itself, two together.
VarValues == (<<"a">> :> <<"1">>) @@ (<<"1">> :> <<"{", "}">>) @@ (<<"1", "1">> :> <<"%">>)

-----------------------------------------------------------------------------
\* Two containers below a container are as deep as a reader goes.
JsonText == INSTANCE JsonText WITH
    Values <- JsonSome, IntMax <- 99, MaxDepth <- 2, done <- jsonDone, result <- jsonRead
Cbor == INSTANCE Cbor WITH
    Values <- CborSome, Foreign <- CborForeign, MaxDepth <- 2,
    value <- encoded, done <- cborDone, result <- cborRead
Utf == INSTANCE Utf WITH Sources <- UtfSources, result <- converted
\* An argument that looks like a placeholder, and one of nothing.
Text == INSTANCE Text WITH
    Texts <- UpTo({"a", "%", "1", "$", "{", "}"}, 2), Args <- <<<<"%", "1">>, <<>>>>,
    Vars <- VarValues, Delimiters <- {<<"a">>, <<"a", "a">>, <<"a", "1">>, <<"$">>},
    StackBufferSize <- 3

-----------------------------------------------------------------------------
EmptyLine == [tree |-> "copying", flags |-> {}, args |-> <<>>]

DataInit ==
    /\ part \in {"commandLine", "json", "cbor", "utf", "text"}
    /\ (part = "commandLine" \/ call = EmptyLine) /\ Init
    /\ (part = "json" \/ value = Null) /\ JsonText!Init
    /\ (part = "cbor" \/ encoded = Null) /\ Cbor!Init
    /\ Utf!Init /\ Text!Init

DataNext ==
    \/ /\ part = "commandLine" /\ Next
       /\ UNCHANGED <<part, jsonVars, cborVars, utfVars, textVars>>
    \/ /\ part = "json" /\ JsonText!Next
       /\ UNCHANGED <<part, vars, cborVars, utfVars, textVars>>
    \/ /\ part = "cbor" /\ Cbor!Next
       /\ UNCHANGED <<part, vars, jsonVars, utfVars, textVars>>
    \/ /\ part = "utf" /\ Utf!Next
       /\ UNCHANGED <<part, vars, jsonVars, cborVars, textVars>>
    \/ /\ part = "text" /\ Text!Next
       /\ UNCHANGED <<part, vars, jsonVars, cborVars, utfVars>>

DataSpec ==
    DataInit /\ [][DataNext]_<<part, vars, jsonVars, cborVars, utfVars, textVars>>

-----------------------------------------------------------------------------
\* A value survives its journey through JSON text.
TextSurvives == JsonText!TextSurvives
\* ... and through CBOR, its own or another encoder's.
BytesSurvive == Cbor!BytesSurvive
\* A text keeps what it says from one UTF to another.
TextIsKept == Utf!TextIsKept
\* format(), varexp(), split() and vasprintf() say what they were asked for.
SaysWhatIsMeant == Text!SaysWhatIsMeant
=============================================================================
