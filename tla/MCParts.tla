------------------------------ MODULE MCParts ------------------------------
(* Instances of the parts for TLC. *)
EXTENDS Parts, Sequences, TLC

CONSTANTS
    t1, t2, t3,                  \* threads
    o1, o2, p, q,                \* SharedLibrary objects, libraries
    f1, f2,                      \* addresses of FILEs
    n1, l1,                      \* a name, a listener
    c1, c2,                      \* log categories
    e1, e2, e3,                  \* type entries
    d1, d2, d3,                  \* nodes of a static registry
    handler                      \* a disposition besides SIG_DFL and SIG_IGN

TwoThreads == {t1, t2}
ThreeThreads == {t1, t2, t3}
ThirdThread == {t3}
SomeDispositions == {Default, Ignore, handler}
TwoObjects == {o1, o2}
TwoLibraries == {p, q}
\* More FILEs than the one slot.
TwoFiles == {f1, f2}
TwoFds == {3, 4}
OneName == {n1}
OneListener == {l1}
ThreeNodes == {d1, d2, d3}

OpenFiles == [i \in 0..CallerMax |-> <<"u0", "u1", "u2", "u3">>[i + 1]]

\* Two categories, and rules with each kind of pattern, a level and a malformed line.
Line(pattern, enable) == [pattern |-> pattern, enable |-> enable]
SomeRules ==
    {<<>>,
     <<Line(<<"a">>, FALSE), Line(<<"a", ".", "W">>, TRUE)>>,
     <<Line(<<"*", "a">>, FALSE), Line(<<"b", "*", ".", "W">>, TRUE),
       Line(<<"a", "*", "b">>, TRUE)>>,
     <<Line(<<"*", ".", "*">>, FALSE), Line(<<"*", ".", "W">>, FALSE)>>}
TwoCategories == {c1, c2}
CategoryNames == (c1 :> <<"a">>) @@ (c2 :> <<"b", ".", "a">>)

\* Plain text, text with attributes and with each kind of word of a markup.
Shown == [kind |-> "text"]
To(style, fg, bg) == [kind |-> "attrs", attrs |-> [style |-> style, fg |-> fg, bg |-> bg]]
Word(back, light, name) ==
    [kind |-> "word", word |-> [at |-> back, light |-> light, name |-> name]]
Call(items, newline, raw) == [items |-> items, newline |-> newline, raw |-> raw]
SomeCalls ==
    {Call(<<To({}, 0, 0), Shown>>, TRUE, FALSE), Call(<<To({"bold"}, 1, 0), Shown>>, TRUE, FALSE),
     Call(<<To({}, 8, 2), Shown>>, FALSE, FALSE), Call(<<Shown>>, TRUE, TRUE),
     Call(<<Word(FALSE, FALSE, "red"), Word(FALSE, FALSE, "bold"), Shown,
            Word(FALSE, FALSE, "intensified"), Word(FALSE, FALSE, "nostyle"), Shown,
            Word(FALSE, FALSE, "reset"), Shown>>, TRUE, FALSE),
     Call(<<Word(TRUE, TRUE, "green"), Word(FALSE, TRUE, "nocolor"), Shown,
            Word(FALSE, FALSE, "cyan"), Word(TRUE, FALSE, "nocolor"),
            Word(FALSE, FALSE, "typo"), Word(TRUE, FALSE, "intensified"), Shown>>, FALSE, FALSE)}

\* A type in two modules, and another one.
ThreeEntries == {e1, e2, e3}
EntryTypes == (e1 :> "a") @@ (e2 :> "a") @@ (e3 :> "b")

\* Both arrays outgrow their buffers, and the heap's as well.
InlineCapacities == [small |-> 1, large |-> 2]
=============================================================================
