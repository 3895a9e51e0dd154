--------------------------- MODULE MCCommandLine ---------------------------
(* Trees and command lines for CommandLine. *)
EXTENDS CommandLine

Dash(l) == <<"-", l>>
Word(l) == <<l>>

Plain == [arity |-> "single", required |-> TRUE, default |-> {}, refuses |-> <<>>]
Optional == [Plain EXCEPT !.required = FALSE]
Many == [Plain EXCEPT !.arity = "multiple"]
Rest == [Optional EXCEPT !.arity = "remainder"]
Defaulted == [Optional EXCEPT !.default = {Word("d")}]
Number == [Plain EXCEPT !.refuses = (Word("x") :> "ArgumentTypeMismatch")]

Flag(l) == [tokens |-> <<Dash(l)>>, arguments |-> <<>>, required |-> FALSE, global |-> FALSE,
            prior |-> NoPrior, max |-> 1, shortMatch |-> "none"]
Valued(l, a) == [Flag(l) EXCEPT !.arguments = <<a>>]
Prior(l, p) == [Flag(l) EXCEPT !.prior = p]

Leaf(l) == [name |-> Word(l), arguments |-> <<>>, options |-> <<>>, commands |-> <<>>]

\* A copy with a source or more and a destination, between a root with a global option and a
\* local one and a command below with neither.
Copying ==
    [root |-> "prog",
     command |-> [prog |-> [Leaf("p") EXCEPT !.options = <<"verbose", "local">>,
                                             !.commands = <<"copy">>],
                  copy |-> [Leaf("c") EXCEPT !.arguments = <<Many, Plain>>,
                                             !.options = <<"force", "output">>,
                                             !.commands = <<"deep">>],
                  deep |-> [Leaf("e") EXCEPT !.arguments = <<Optional>>]],
     option |-> [verbose |-> [Flag("v") EXCEPT !.global = TRUE, !.max = 0],
                 local |-> Flag("l"), force |-> [Flag("f") EXCEPT !.global = TRUE],
                 output |-> Valued("o", Number)]]

\* Every exclusive level beside an argument with a default.
Exclusive ==
    [root |-> "prog",
     command |-> [prog |-> [Leaf("p") EXCEPT !.arguments = <<Defaulted>>,
                                             !.options = <<"a", "b", "c", "f">>]],
     option |-> [a |-> Prior("a", ExclusiveToArguments), b |-> Prior("b", ExclusiveToOptions),
                 c |-> Prior("c", ExclusiveToAll), f |-> Flag("f")]]
\* The same with the argument left out where it is not given.
ExclusiveBare == [Exclusive EXCEPT !.command["prog"].arguments = <<Optional>>]

\* Help at two levels, standing in for an empty line, beside what is required.
Helping ==
    [root |-> "prog",
     command |-> [prog |-> [Leaf("p") EXCEPT !.options = <<"help", "version">>,
                                             !.commands = <<"build">>],
                  build |-> [Leaf("b") EXCEPT !.arguments = <<Number, Rest>>,
                                              !.options = <<"own", "jobs", "list">>]],
     option |-> [help |-> [Prior("h", AutoSetWhenNoSymbols) EXCEPT !.global = TRUE],
                 version |-> Prior("v", IgnoreMissingSymbols),
                 own |-> Prior("n", AutoSetWhenNoSymbols),
                 jobs |-> [Valued("j", Plain) EXCEPT !.required = TRUE],
                 list |-> [Valued("l", Plain) EXCEPT !.prior = IgnoreMissingArguments]]]

\* Values stuck to their options, and options of several values.
Joining ==
    [root |-> "prog",
     command |-> [prog |-> [Leaf("p") EXCEPT !.arguments = <<Optional>>,
                                             !.options = <<"level", "define", "pair", "force">>]],
     option |-> [level |-> [Valued("o", Plain) EXCEPT !.shortMatch = "letter"],
                 define |-> [Valued("d", Number) EXCEPT !.shortMatch = "all", !.max = 2],
                 pair |-> [Flag("j") EXCEPT !.arguments = <<Plain, Many>>],
                 force |-> Flag("f")]]

SomeTrees == [copying |-> Copying, exclusive |-> Exclusive, bare |-> ExclusiveBare,
              helping |-> Helping, joining |-> Joining]

\* A line of each response file: blank, with blanks around it, in quotes, after a mark.
SomeFiles ==
    Word("r") :> << <<"mark", "c">>, <<" ">>, <<" ", "-", "f", " ">>, <<"quote", "x", "quote">>,
                    <<"quote", "quote">> >>

Usual == {{}, {"IgnoreOptionCase", "IgnoreCommandCase"}}

Words(tree) ==
    CASE tree = "copying" -> {Dash("v"), Dash("l"), Dash("f"), Dash("o"), Word("c"), Word("C"),
                              Word("e"), Word("x"), <<"-", "-">>, <<"-", "F">>}
      [] tree \in {"exclusive", "bare"} ->
             {Dash("a"), Dash("b"), Dash("c"), Dash("f"), Word("x")}
      [] tree = "helping" -> {Dash("h"), Dash("v"), Dash("n"), Dash("j"), Dash("l"), Word("b"),
                              Word("x"), Word("y")}
      [] tree = "joining" -> {Dash("f"), Dash("j"), Word("y"), <<"-", "o", "y">>,
                              <<"-", "o", "=", "y">>, <<"-", "d", "x">>, <<"-", "d", "y">>,
                              <<"-", "f", "=", "y">>, <<"-", "-">>}

Calls(tree, flagSets, words, length) ==
    {[tree |-> tree, flags |-> f, args |-> a] :
        f \in flagSets, a \in UNION {[1..n -> words] : n \in 0..length}}

SomeCases ==
    UNION {Calls(tree, Usual, Words(tree), 3) : tree \in DOMAIN SomeTrees}
    \cup Calls("copying", {{}}, {Dash("f"), Word("c"), Word("e"), Word("x"), Dash("l")}, 4)
    \cup Calls("exclusive", {{}}, {Dash("a"), Dash("b"), Dash("c")}, 4)
    \cup Calls("copying", {{"EnableResponseFile"}},
               {<<"@", "r">>, <<"@", "s">>, Word("x")}, 3)
    \cup Calls("copying", {{"AllowUnixGroupFlags", "AllowDosShortOptions"},
                           {"DontAllowUnixShortOptions"}},
               {<<"-", "v", "l">>, <<"-", "v", "v">>, <<"/", "v">>, <<"/", "q">>, Word("c"),
                Dash("v")}, 3)

SomeLetters == {"a", "b", "c", "d", "f", "j", "l", "o", "v", "x", "y"}
Lowered == [c \in {"C", "F"} |-> IF c = "C" THEN "c" ELSE "f"]

\* Where an argument has a default.
DefaultedCases == Calls("exclusive", {{}}, Words("exclusive"), 2)
=============================================================================
