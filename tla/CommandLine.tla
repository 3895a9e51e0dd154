---------------------------- MODULE CommandLine ----------------------------
(***************************************************************************)
(* cli::Parser::parse(): a command line read against a tree of commands.   *)
(* The tokens are read from left to right, by the options in scope and the *)
(* subcommands of the command reached so far; what is neither is           *)
(* positional, and is handed to the arguments at the end.                  *)
(*                                                                         *)
(* A token is the sequence of its characters, since one token may hold an  *)
(* option and its value; commands and options are the names of the objects *)
(* they are.                                                               *)
(***************************************************************************)
EXTENDS Integers, SequencesExt

CONSTANTS
    Trees,      \* the command trees programs declare
    Cases,      \* tree, parse flags and arguments of the calls
    Files,      \* what is in the response files that can be read: their lines
    Letters,    \* the characters isalpha() knows
    Lower       \* the lower case of those that are upper case

NoPrior == 0
IgnoreMissingArguments == 1
IgnoreMissingSymbols == 2
AutoSetWhenNoSymbols == 3
ExclusiveToArguments == 4
ExclusiveToOptions == 5
ExclusiveToAll == 6

\* Argument::canFollow(), of the k-th of some arguments and those before it.
CanFollow(arguments, k) ==
    \A i \in 1..(k - 1) :
        /\ arguments[k].required => arguments[i].required
        /\ arguments[i].arity # "remainder"
        /\ arguments[i].arity = "multiple" =>
               arguments[k].required /\ arguments[k].arity = "single"

\* Option::canJoin(), of the k-th of some options and those before it.
CanJoin(options, k) ==
    /\ options[k].tokens # <<>>
    /\ \A token \in Range(options[k].tokens) :
           /\ Len(token) >= 2 /\ token[1] \in {"-", "/"}
           /\ \A i \in 1..(k - 1) : token \notin Range(options[i].tokens)
    /\ options[k].prior = AutoSetWhenNoSymbols =>
           ~options[k].required /\ options[k].arguments = <<>>

\* What accepts() can say of a value.
Refusals == {"InvalidArgumentValue", "ArgumentTypeMismatch", "ArgumentValidateFailed"}

IsList(l) == l \in Seq(Range(l))
IsLine(l) == IsList(l) /\ \A text \in Range(l) : IsList(text)

AreArguments(arguments) ==
    /\ IsList(arguments)
    /\ \A argument \in Range(arguments) :
           /\ argument.arity \in {"single", "multiple", "remainder"}
           /\ argument.required \in BOOLEAN
           /\ Range(argument.refuses) \subseteq Refusals

\* What a tree is made of: commands below commands, and the options of each.
IsTree(tree) ==
    /\ tree.root \in DOMAIN tree.command
    /\ \A c \in DOMAIN tree.command :
           /\ tree.command[c].commands \in Seq(DOMAIN tree.command)
           /\ tree.command[c].options \in Seq(DOMAIN tree.option)
           /\ AreArguments(tree.command[c].arguments)
    /\ \A o \in DOMAIN tree.option :
           /\ tree.option[o].prior \in NoPrior..ExclusiveToAll
           /\ AreArguments(tree.option[o].arguments)

\* What the asserts of addArgument(), arg(), addOption() and addCommand() ask.
CanBeDeclared(tree) ==
    /\ \A c \in DOMAIN tree.command :
           LET declared == tree.command[c]
               options == [k \in DOMAIN declared.options |-> tree.option[declared.options[k]]]
               names == [k \in DOMAIN declared.commands |-> tree.command[declared.commands[k]].name]
           IN  /\ \A k \in DOMAIN declared.arguments : CanFollow(declared.arguments, k)
               /\ \A k \in DOMAIN options : CanJoin(options, k)
               /\ \A k \in DOMAIN names : names[k] # <<>> /\ \A i \in 1..(k - 1) : names[i] # names[k]
    /\ \A o \in DOMAIN tree.option :
           \A k \in DOMAIN tree.option[o].arguments : CanFollow(tree.option[o].arguments, k)

ASSUME TreesCanBeDeclared ==
    /\ \A t \in DOMAIN Trees : IsTree(Trees[t]) /\ CanBeDeclared(Trees[t])
    /\ \A case \in Cases : case.tree \in DOMAIN Trees /\ IsLine(case.args)
    /\ \A file \in DOMAIN Files : IsLine(Files[file])

VARIABLES
    call,                              \* the case at hand
    phase, tokens, pos, positional,
    priorOption, inherited, sawTerminator,
    target, path, arguments, options, byToken, error

scope == <<target, path, inherited, byToken>>
given == <<call, tokens>>
vars == <<given, scope, phase, pos, positional, priorOption, sawTerminator, arguments, options,
          error>>

Command(c) == Trees[call.tree].command[c]
Option(o) == Trees[call.tree].option[o]
On(flag) == flag \in call.flags
Failed == error # "none"

Init ==
    /\ call \in Cases
    /\ phase = "start" /\ tokens = call.args /\ pos = 1 /\ positional = <<>>
    /\ priorOption = {} /\ inherited = <<>> /\ sawTerminator = FALSE
    /\ target = Trees[call.tree].root /\ path = <<>> /\ arguments = <<>>
    /\ options = <<>> /\ byToken = <<>> /\ error = "none"

-----------------------------------------------------------------------------
(* Scope *)

\* The options of command c and what it inherited: its own first.
InScope(c, globals) == Command(c).options \o globals

\* One not collected yet joins those that are, whose occurrences stay.
Collect(seen, o) ==
    IF \E i \in DOMAIN seen : seen[i].option = o THEN seen
    ELSE Append(seen, [option |-> o, occurrences |-> <<>>])

Collected(opts, inScope) ==
    LET seen[i \in 0..Len(inScope)] == IF i = 0 THEN opts ELSE Collect(seen[i - 1], inScope[i])
    IN  seen[Len(inScope)]

\* The last option in scope with a spelling gets it.
Spelled(opts, inScope) ==
    [token \in UNION {Range(Option(o).tokens) : o \in Range(inScope)} |->
        LET o == inScope[SelectLastInSeq(inScope, LAMBDA x : token \in Range(Option(x).tokens))]
        IN  SelectInSeq(opts, LAMBDA item : item.option = o)]

\* Mutant: the spellings of the command left behind are not cleared.
CollectOptionsOnTop(c, globals) ==
    /\ options' = Collected(options, InScope(c, globals))
    /\ byToken' = Spelled(options', InScope(c, globals)) @@ byToken

CollectOptions(c, globals) ==
    /\ options' = Collected(options, InScope(c, globals))
    /\ byToken' = Spelled(options', InScope(c, globals))

\* What the commands below c inherit of its own.
KeepGlobal(kept, o) == IF Option(o).global THEN Append(kept, o) ELSE kept

Globals(c) ==
    LET kept[i \in 0..Len(Command(c).options)] ==
            IF i = 0 THEN <<>> ELSE KeepGlobal(kept[i - 1], Command(c).options[i])
    IN  kept[Len(Command(c).options)]

\* Mutant: the command is remembered as it was typed.
EnterAsTyped(next) ==
    /\ inherited' = inherited \o Globals(target)
    /\ target' = next /\ path' = Append(path, tokens[pos])
    /\ CollectOptions(next, inherited')

Enter(next) ==
    /\ inherited' = inherited \o Globals(target)
    /\ target' = next /\ path' = Append(path, Command(next).name)
    /\ CollectOptions(next, inherited')

-----------------------------------------------------------------------------
(* Response files *)

NamesFile(token) == Len(token) >= 2 /\ token[1] = "@"

Trimmed(line) ==
    LET text == {i \in DOMAIN line : line[i] # " "}
    IN  IF text = {} THEN <<>> ELSE SubSeq(line, Min(text), Max(text))

Unquoted(text) ==
    IF Len(text) >= 2 /\ text[1] = "quote" /\ Last(text) = "quote"
    THEN SubSeq(text, 2, Len(text) - 1) ELSE text

WithoutMark(lines) ==
    [i \in DOMAIN lines |->
        IF i = 1 /\ lines[i] # <<>> /\ lines[i][1] = "mark" THEN Tail(lines[i]) ELSE lines[i]]

KeepText(kept, text) == IF text = <<>> THEN kept ELSE Append(kept, Unquoted(text))

TokensIn(lines) ==
    LET kept[i \in 0..Len(lines)] ==
            IF i = 0 THEN <<>> ELSE KeepText(kept[i - 1], Trimmed(WithoutMark(lines)[i]))
    IN  kept[Len(lines)]

Expanded ==
    FlattenSeq([i \in DOMAIN tokens |->
        IF NamesFile(tokens[i]) THEN TokensIn(Files[Tail(tokens[i])]) ELSE <<tokens[i]>>])

Unreadable ==
    \E token \in Range(tokens) : NamesFile(token) /\ Tail(token) \notin DOMAIN Files

CannotExpand ==
    /\ phase = "start" /\ On("EnableResponseFile") /\ Unreadable
    /\ error' = "ErrorReadingResponseFile" /\ phase' = "done"
    /\ UNCHANGED <<given, scope, pos, positional, priorOption, sawTerminator, arguments, options>>

Start ==
    /\ phase = "start" /\ ~(On("EnableResponseFile") /\ Unreadable)
    /\ tokens' = IF On("EnableResponseFile") THEN Expanded ELSE tokens
    /\ path' = <<Command(target).name>> /\ CollectOptions(target, inherited)
    /\ phase' = "read"
    /\ UNCHANGED <<call, target, inherited, pos, positional, priorOption, sawTerminator,
                   arguments, error>>

-----------------------------------------------------------------------------
(* Reading an option *)

Folded(token) == [i \in DOMAIN token |-> IF token[i] \in DOMAIN Lower THEN Lower[token[i]] ELSE token[i]]

SameToken(a, b, ignoreCase) == IF ignoreCase THEN Folded(a) = Folded(b) ELSE a = b

LooksLikeOption(token) ==
    /\ ~sawTerminator /\ Len(token) >= 2
    /\ \/ token[1] = "-" /\ (token[2] = "-" \/ ~On("DontAllowUnixShortOptions"))
       \/ token[1] = "/" /\ On("AllowDosShortOptions")

\* The place in options of the one a token spells, 0 for none.
Lookup(token) ==
    IF On("IgnoreOptionCase")
    THEN SelectInSeq(options, LAMBDA item :
             \E s \in Range(Option(item.option).tokens) : SameToken(s, token, TRUE))
    ELSE IF token \in DOMAIN byToken THEN byToken[token] ELSE 0

\* The first of some values that accepts() refuses, what it finds wrong with it, and those
\* before it.
Refused(argument, values) == SelectInSeq(values, LAMBDA v : v \in DOMAIN argument.refuses)

Refusal(argument, values) ==
    LET bad == Refused(argument, values)
    IN  IF bad = 0 THEN "none" ELSE argument.refuses[values[bad]]

Accepted(argument, values) ==
    LET bad == Refused(argument, values)
    IN  IF bad = 0 THEN values ELSE SubSeq(values, 1, bad - 1)

\* Mutant: the option noted last decides.
NoteLatest(prior, o) == IF Option(o).prior # NoPrior THEN {o} ELSE prior

Level(prior) == Max({NoPrior} \cup {Option(o).prior : o \in prior})
NotePrior(prior, o) == IF Option(o).prior > Level(prior) THEN {o} ELSE prior

\* How many tokens from p on are nobody's option.
Free(p) ==
    LET spoken == {q \in p..Len(tokens) : LooksLikeOption(tokens[q]) /\ Lookup(tokens[q]) # 0}
    IN  Min(spoken \cup {Len(tokens) + 1}) - p

\* One argument of an option takes its values; r holds what those before it took.
TakeValues(r, o, argument, inline) ==
    LET joined == r.slots = <<>> /\ inline # {}
        n == IF argument.arity = "single" THEN Min({1, Free(r.pos)}) ELSE Free(r.pos)
        values == IF joined THEN SetToSeq(inline) ELSE SubSeq(tokens, r.pos, r.pos + n - 1)
        missing == values = <<>> /\ argument.required /\ Option(o).prior < IgnoreMissingArguments
    IN  IF r.error # "none" THEN r ELSE
        [slots |-> Append(r.slots, values), pos |-> IF joined THEN r.pos ELSE r.pos + n,
         error |-> IF missing THEN "MissingOptionArgument" ELSE Refusal(argument, values)]

Untaken(p) == [slots |-> <<>>, pos |-> p, error |-> "none"]

\* What the arguments of option o take from p on, one after the other.
Taken(p, o, inline) ==
    LET taken[k \in 0..Len(Option(o).arguments)] ==
            IF k = 0 THEN Untaken(p)
            ELSE TakeValues(taken[k - 1], o, Option(o).arguments[k], inline)
    IN  taken[Len(Option(o).arguments)]

\* readOneOption(): r is what has been read, i the option's place in options.
ReadOne(r, i, inline) ==
    LET o == options[i].option
        tooMuch == Option(o).max > 0 /\ Len(r.options[i].occurrences) >= Option(o).max
        taken == Taken(r.pos, o, inline)
    IN  IF r.error # "none" THEN r
        ELSE IF tooMuch THEN [r EXCEPT !.error = "OptionOccurTooMuch"]
        ELSE IF taken.error # "none" THEN [r EXCEPT !.error = taken.error]
        ELSE [options |-> [r.options EXCEPT ![i].occurrences = Append(@, taken.slots)],
              prior |-> NotePrior(r.prior, o), pos |-> taken.pos, error |-> "none"]

\* One option a token names after the other.
Unread == [options |-> options, prior |-> priorOption, pos |-> pos + 1, error |-> "none"]

Read(meaning) ==
    LET read[k \in 0..Len(meaning.which)] ==
            IF k = 0 THEN Unread ELSE ReadOne(read[k - 1], meaning.which[k], meaning.inline)
    IN  read[Len(meaning.which)]

Reads(meaning) ==
    LET r == Read(meaning)
    IN  options' = r.options /\ priorOption' = r.prior /\ pos' = r.pos /\ error' = r.error

-----------------------------------------------------------------------------
(* The ways a token names options, each tried where those before it fail *)

EqualsAt(token) == SelectInSeq(token, LAMBDA c : c = "=")
BeforeEquals(token) == Lookup(SubSeq(token, 1, EqualsAt(token) - 1))
AfterEquals(token) == SubSeq(token, EqualsAt(token) + 1, Len(token))
IsAssignment(token) == EqualsAt(token) # 0 /\ BeforeEquals(token) # 0

\* The option with its value stuck to its k-th spelling.
Sticks(option, k, token) ==
    /\ option.shortMatch # "none" /\ Len(option.arguments) = 1 /\ option.arguments[1].required
    /\ k \in DOMAIN option.tokens /\ IsStrictPrefix(option.tokens[k], token)
    /\ option.shortMatch # "all" => Len(option.tokens[k]) = 2
    /\ option.shortMatch = "letter" => option.tokens[k][2] \in Letters

\* Such options, by their place and that of the spelling.
ShortMatches(token) ==
    {m \in (DOMAIN options) \X (1..Len(token)) : Sticks(Option(options[m[1]].option), m[2], token)}

Letter(token) == [k \in 1..(Len(token) - 1) |-> Lookup(<<"-", token[k + 1]>>)]

IsGroup(token) ==
    /\ On("AllowUnixGroupFlags") /\ Len(token) >= 3 /\ token[1] = "-" /\ token[2] # "-"
    /\ \A i \in Range(Letter(token)) : i # 0 /\ Option(options[i].option).arguments = <<>>

DosSpelling(token) == Lookup(<<"-">> \o Tail(token))
IsDos(token) == token[1] = "/" /\ On("AllowDosShortOptions") /\ DosSpelling(token) # 0

Means(which, inline) == [which |-> which, inline |-> inline]
Nothing == Means(<<>>, {})

\* A value joined by an equals sign: unknown where the option takes none.
Joined(token) ==
    IF Option(options[BeforeEquals(token)].option).arguments = <<>> THEN Nothing
    ELSE Means(<<BeforeEquals(token)>>, {AfterEquals(token)})

ShortMatched(token) ==
    LET i == Min({m[1] : m \in ShortMatches(token)})
        j == Min({m[2] : m \in {n \in ShortMatches(token) : n[1] = i}})
        spelling == Option(options[i].option).tokens[j]
    IN  Means(<<i>>, {SubSeq(token, Len(spelling) + 1, Len(token))})

\* The options a token names, by their places, and the value it holds.
Meaning(token) ==
    IF Lookup(token) # 0 THEN Means(<<Lookup(token)>>, {})
    ELSE IF IsAssignment(token) THEN Joined(token)
    ELSE IF ShortMatches(token) # {} THEN ShortMatched(token)
    ELSE IF IsGroup(token) THEN Means(Letter(token), {})
    ELSE IF IsDos(token) THEN Means(<<DosSpelling(token)>>, {})
    ELSE Nothing

ReadOption(token) ==
    IF Meaning(token) = Nothing
    THEN error' = "UnknownOption" /\ pos' = pos + 1 /\ UNCHANGED <<options, priorOption>>
    ELSE Reads(Meaning(token))

-----------------------------------------------------------------------------
(* readTokens(): one token a step, unless an option takes more as its values *)

Reading == phase = "read" /\ pos <= Len(tokens) /\ ~Failed

IsTerminator(token) == ~sawTerminator /\ token = <<"-", "-">>

\* The subcommand a token names: only before the first positional token.
Subcommand(token) ==
    {c \in Range(Command(target).commands) :
        /\ positional = <<>> /\ ~sawTerminator
        /\ SameToken(Command(c).name, token, On("IgnoreCommandCase"))}

FirstOf(commands) ==
    Command(target).commands[SelectInSeq(Command(target).commands, LAMBDA c : c \in commands)]

ReadTerminator ==
    /\ Reading /\ IsTerminator(tokens[pos])
    /\ sawTerminator' = TRUE /\ pos' = pos + 1
    /\ UNCHANGED <<given, scope, phase, positional, priorOption, arguments, options, error>>

ReadOptionToken ==
    /\ Reading /\ ~IsTerminator(tokens[pos]) /\ LooksLikeOption(tokens[pos])
    /\ ReadOption(tokens[pos])
    /\ UNCHANGED <<given, scope, phase, positional, sawTerminator, arguments>>

ReadSubcommand ==
    /\ Reading /\ ~IsTerminator(tokens[pos]) /\ ~LooksLikeOption(tokens[pos])
    /\ Subcommand(tokens[pos]) # {}
    /\ Enter(FirstOf(Subcommand(tokens[pos]))) /\ pos' = pos + 1
    /\ UNCHANGED <<given, phase, positional, priorOption, sawTerminator, arguments, error>>

ReadPositional ==
    /\ Reading /\ ~IsTerminator(tokens[pos]) /\ ~LooksLikeOption(tokens[pos])
    /\ Subcommand(tokens[pos]) = {}
    /\ positional' = Append(positional, tokens[pos]) /\ pos' = pos + 1
    /\ UNCHANGED <<given, scope, phase, priorOption, sawTerminator, arguments, options, error>>

-----------------------------------------------------------------------------
(* What run() does once the tokens are read *)

AnythingGiven == \E item \in Range(options) : item.occurrences # <<>>

\* Options in scope that stand in for an empty command line.
StandIns ==
    {k \in DOMAIN InScope(target, inherited) :
        LET o == InScope(target, inherited)[k]
        IN  /\ Option(o).prior = AutoSetWhenNoSymbols
            /\ Option(o).tokens # <<>> /\ Option(o).tokens[1] \in DOMAIN byToken}

ReadingEnds ==
    /\ phase = "read" /\ (pos > Len(tokens) \/ Failed)
    /\ \/ Failed /\ phase' = "done" /\ UNCHANGED <<priorOption, options>>
       \/ /\ ~Failed /\ phase' = "assign"
          /\ IF priorOption = {} /\ positional = <<>> /\ ~AnythingGiven /\ StandIns # {}
             THEN LET o == InScope(target, inherited)[Min(StandIns)]
                      empty == [k \in DOMAIN Option(o).arguments |-> <<>>]
                  IN  /\ options' = [options EXCEPT ![byToken[Option(o).tokens[1]]].occurrences =
                                         Append(@, empty)]
                      /\ priorOption' = {o}
             ELSE UNCHANGED <<priorOption, options>>
    /\ UNCHANGED <<given, scope, pos, positional, sawTerminator, arguments, error>>

Declared == Command(target).arguments

\* Mutant: a greedy argument leaves nothing for those after it.
TakeGreedily(i, left) ==
    IF Declared[i].arity = "single" THEN Min({1, left}) ELSE left

\* How many of the tokens left the i-th argument takes.
Take(i, left) ==
    LET reserved == Cardinality({j \in (i + 1)..Len(Declared) : Declared[j].required})
    IN  Min({left, IF Declared[i].arity = "remainder" THEN left
                   ELSE IF Declared[i].arity = "single" THEN 1
                   ELSE Max({1, left - reserved})})

\* Mutant: what is left over is dropped.
NoSurplus(taken) == "none"

Surplus(taken) ==
    IF taken = Len(positional) THEN "none"
    ELSE IF taken = 0 /\ Command(target).commands # <<>> THEN "UnknownCommand"
    ELSE "TooManyArguments"

\* Each argument takes its tokens, until one is refused: the rest stay without.
Assign(acc, i) ==
    LET values == SubSeq(positional, acc.taken + 1,
                         acc.taken + Take(i, Len(positional) - acc.taken))
    IN  IF acc.error # "none" THEN [acc EXCEPT !.arguments = Append(@, <<>>)] ELSE
        [taken |-> acc.taken + Len(values),
         arguments |-> Append(acc.arguments, Accepted(Declared[i], values)),
         error |-> Refusal(Declared[i], values)]

Unassigned == [taken |-> 0, arguments |-> <<>>, error |-> "none"]

Assigned ==
    LET assign[i \in 0..Len(Declared)] ==
            IF i = 0 THEN Unassigned ELSE Assign(assign[i - 1], i)
    IN  assign[Len(Declared)]

AssignPositional ==
    /\ phase = "assign"
    /\ arguments' = Assigned.arguments
    /\ error' = IF Assigned.error # "none" THEN Assigned.error ELSE Surplus(Assigned.taken)
    /\ phase' = IF error' # "none" THEN "done" ELSE "defaults"
    /\ UNCHANGED <<given, scope, pos, positional, priorOption, sawTerminator, options>>

\* The values, or the default where there are none and it has one.
OrDefault(values, argument) == IF values = <<>> THEN SetToSeq(argument.default) ELSE values

ApplyDefaults ==
    /\ phase = "defaults" /\ phase' = "check"
    /\ arguments' = [i \in DOMAIN arguments |-> OrDefault(arguments[i], Declared[i])]
    /\ options' = [i \in DOMAIN options |-> [options[i] EXCEPT !.occurrences =
            [n \in DOMAIN @ |-> [k \in DOMAIN @[n] |->
                OrDefault(@[n][k], Option(options[i].option).arguments[k])]]]]
    /\ UNCHANGED <<given, scope, pos, positional, priorOption, sawTerminator, error>>

ForbidsArguments(level) == level \in {ExclusiveToArguments, ExclusiveToAll}
\* Mutant: of the three exclusive levels only the last forbids options.
ForbidsOptionsAtTheTop(level) == level = ExclusiveToAll
ForbidsOptions(level) == level \in {ExclusiveToOptions, ExclusiveToAll}

Complaint ==
    LET level == Level(priorOption)
    IN  IF ForbidsArguments(level) /\ \E values \in Range(arguments) : values # <<>>
        THEN "PriorOptionWithArguments"
        ELSE IF /\ ForbidsOptions(level)
                /\ \E item \in Range(options) : {item.option} # priorOption /\ item.occurrences # <<>>
        THEN "PriorOptionWithOptions"
        ELSE IF level >= IgnoreMissingSymbols THEN "none"
        ELSE IF \E i \in DOMAIN Declared : Declared[i].required /\ arguments[i] = <<>>
        THEN "MissingCommandArgument"
        ELSE IF \E item \in Range(options) : Option(item.option).required /\ item.occurrences = <<>>
        THEN "MissingRequiredOption"
        ELSE "none"

CheckRequired ==
    /\ phase = "check" /\ phase' = "done"
    /\ error' = Complaint
    /\ UNCHANGED <<given, scope, pos, positional, priorOption, sawTerminator, arguments, options>>

Next ==
    \/ Start \/ CannotExpand
    \/ ReadTerminator \/ ReadOptionToken \/ ReadSubcommand \/ ReadPositional \/ ReadingEnds
    \/ AssignPositional \/ ApplyDefaults \/ CheckRequired

Spec == Init /\ [][Next]_vars

-----------------------------------------------------------------------------
(* What the result says of the way there, once it is asked: it walks down the names again. *)

FindCommand(c, name) == {k \in Range(Command(c).commands) : Command(k).name = name}

Below(walked, name) ==
    [at |-> UNION {FindCommand(c, name) : c \in walked.at},
     found |-> walked.found \o FlattenSeq(SetToSeq({Globals(c) : c \in walked.at}))]

AtRoot == [at |-> {Trees[call.tree].root}, found |-> <<>>]

Walked(names) ==
    LET walk[i \in 0..(Len(names) - 1)] ==
            IF i = 0 THEN AtRoot ELSE Below(walk[i - 1], names[i + 1])
    IN  walk[Len(names) - 1]

InheritedOptions == Walked(path).found

-----------------------------------------------------------------------------
(* Properties *)

Given(o) == \E item \in Range(options) : item.option = o /\ item.occurrences # <<>>
GivenOptions == {o \in {item.option : item \in Range(options)} : Given(o)}

\* Positional tokens a command cannot take are an error: in a line that is accepted every one
\* of them went to an argument, in the order written.
NothingDropped == phase = "defaults" => FlattenSeq(arguments) = positional

\* An argument is reported missing only when fewer tokens were written than the command has
\* required arguments: a greedy argument has not eaten the destination of a copy.
MissingMeansTooFew ==
    error = "MissingCommandArgument" =>
        Len(positional) < Cardinality({i \in DOMAIN Declared : Declared[i].required})

\* Between them: the positional tokens are neither too many without a word nor too few in error.
TokensAddUp == NothingDropped /\ MissingMeansTooFew

\* An option that answers the line by itself is answered whatever else is missing, and however
\* many options of a lower level were written after it.
HelpIsAnswered ==
    error \in {"MissingCommandArgument", "MissingRequiredOption"} =>
        \A o \in GivenOptions : Option(o).prior < IgnoreMissingSymbols

\* In a line that is accepted an exclusive option stands beside nothing it excludes, whichever
\* of several exclusive options decided.
ExclusiveIsAlone ==
    phase = "done" /\ ~Failed =>
        \A o \in GivenOptions :
            /\ ForbidsArguments(Option(o).prior) => positional = <<>>
            /\ Option(o).prior \in {ExclusiveToOptions, ExclusiveToAll} => GivenOptions = {o}

\* The options the help lists as inherited, found by walking down the names, are the ones the
\* parser reads and demands.
HelpAgrees == path # <<>> => InheritedOptions = inherited

\* What is written is read by an option of the command reached or by a global one of a command
\* above: an option left behind takes nothing more.  Case-blind lookup and values stuck to
\* their option look through all that was collected and are left out.
LeftBehindTakesNoMore ==
    [][\A i \in DOMAIN options :
           options'[i].occurrences # options[i].occurrences /\ phase = "read" =>
               \/ options[i].option \in Range(InScope(target, inherited))
               \/ On("IgnoreOptionCase")
               \/ Option(options[i].option).shortMatch # "none"]_vars

\* Giving an option exclusive to arguments means no arguments may be given: it is what the
\* complaint says, that one was given beside it.
ComplaintIsTrue == error = "PriorOptionWithArguments" => positional # <<>>

=============================================================================
