---------------------------- MODULE LogRegistry ----------------------------
(***************************************************************************)
(* logging.cpp, logging.h: the registry of log categories.  Categories     *)
(* come and go, the program installs rules and filters, and threads log.   *)
(* The registry works under its lock; log() reads the levels without it.   *)
(*                                                                         *)
(* A pattern is a sequence of "a", "b", ".", "*" and "W", which stands for *)
(* a level's name: Warning's.  A level is its number, Debug the one below  *)
(* what the built-in sink emits.                                           *)
(***************************************************************************)
EXTENDS Integers, Sequences, SequencesExt, FiniteSets

CONSTANTS
    Threads,
    Categories,      \* LogCategory objects
    NameOf,          \* [Categories -> Seq of characters], the name of each
    RuleTexts        \* what setFilterRules() is called with: sequences of [pattern, enable]

VARIABLES
    pc,              \* "idle", or where the thread is in its call
    holder,          \* the threads that hold the registry's lock, as a set of at most one
    categories,      \* the registered objects
    alive,           \* the objects constructed and not yet destroyed
    levelEnabled,    \* [Categories -> [Levels -> BOOLEAN]]
    filterRules,     \* the text of the rules
    rules,           \* the same, parsed
    categoryFilter,  \* "default", or "mute": one of the program's that switches all off
    toFilter,        \* the holder's: categories still to be filtered
    applying,        \* the holder's: the category being filtered, and the rules left, or <<>>
    record,          \* [Threads -> what log() was called with]
    excused,         \* history: [Threads -> a filter was running during this log()]
    touched          \* history: a filter was handed an object that is gone

vars == <<pc, holder, categories, alive, levelEnabled, filterRules, rules, categoryFilter,
          toFilter, applying, record, excused, touched>>
lockVars == <<holder, categories, alive, levelEnabled, filterRules, rules, categoryFilter,
              toFilter, applying, touched>>

Debug == 2
Warning == 5
Levels == {Debug, Warning}

-----------------------------------------------------------------------------
\* A rule as parsed: the pattern without its wildcards, how it matches, its level or 0.
LevelFromToken(token) == IF token = <<"W">> THEN Warning ELSE 0

\* The last dot splits off a level's name, if it is one.
SplitLevel(pattern) ==
    LET dots == {i \in DOMAIN pattern : pattern[i] = "."}
        dot == CHOOSE i \in dots : \A j \in dots : j <= i
        level == LevelFromToken(SubSeq(pattern, dot + 1, Len(pattern)))
    IN  IF dots = {} \/ level = 0 THEN [pattern |-> pattern, level |-> 0]
        ELSE [pattern |-> SubSeq(pattern, 1, dot - 1), level |-> level]

Mode(left, right) ==
    IF left THEN IF right THEN "contains" ELSE "suffix"
            ELSE IF right THEN "prefix" ELSE "exact"

\* parseRule(): <<the rule>>, or <<>> if the line is malformed.
ParseRule(line) ==
    LET split == SplitLevel(line.pattern)
        left == split.pattern # <<>> /\ Head(split.pattern) = "*"
        right == split.pattern # <<>> /\ Last(split.pattern) = "*"
        first == IF left THEN Tail(split.pattern) ELSE split.pattern
        text == IF right /\ first # <<>> THEN Front(first) ELSE first
    IN  IF \/ line.pattern = <<>>
           \/ "*" \in ToSet(text)
           \/ ~left /\ ~right /\ text = <<>>
        THEN <<>>
        ELSE <<[text |-> text, mode |-> Mode(left, right), level |-> split.level,
                enable |-> line.enable]>>

ParseRules(lines) == FoldLeft(LAMBDA acc, line : acc \o ParseRule(line), <<>>, lines)

MatchesCategory(rule, name) ==
    CASE rule.mode = "exact" -> name = rule.text
      [] rule.mode = "prefix" -> IsPrefix(rule.text, name)
      [] rule.mode = "suffix" -> IsSuffix(rule.text, name)
      [] rule.mode = "contains" -> \E i \in 1..(Len(name) + 1) :
                                      IsPrefix(rule.text, SubSeq(name, i, Len(name)))

AppliesToLevel(rule, level) == rule.level \in {0, level}

-----------------------------------------------------------------------------
Init ==
    /\ pc = [t \in Threads |-> "idle"]
    /\ holder = {} /\ categories = {} /\ alive = {}
    /\ levelEnabled = [c \in Categories |-> [l \in Levels |-> TRUE]]
    /\ filterRules = <<>> /\ rules = <<>> /\ categoryFilter = "default"
    /\ toFilter = {} /\ applying = <<>>
    /\ record \in [Threads -> {<<>>}]
    /\ excused = [t \in Threads |-> FALSE]
    /\ touched = FALSE

\* A call that takes the lock exclusively, does its part and goes on to the filter.  Whoever
\* is in log() meanwhile may see levels half set.
Locked(t, filtered) ==
    /\ pc[t] = "idle" /\ holder = {}
    /\ holder' = {t}
    /\ toFilter' = filtered
    /\ pc' = [pc EXCEPT ![t] = "filtering"]
    /\ excused' = [u \in Threads |-> TRUE]
    /\ UNCHANGED <<applying, record, touched>>

\* Mutant: a new category is registered and not filtered.
ConstructUnfiltered(t, c) ==
    /\ c \notin alive
    /\ Locked(t, {})
    /\ alive' = alive \union {c}
    /\ levelEnabled' = [levelEnabled EXCEPT ![c] = [l \in Levels |-> TRUE]]
    /\ categories' = categories \union {c}
    /\ UNCHANGED <<filterRules, rules, categoryFilter>>

\* LogCategory::LogCategory(): all levels on, registered, filtered.
Construct(t, c) ==
    /\ c \notin alive
    /\ Locked(t, {c})
    /\ alive' = alive \union {c}
    /\ levelEnabled' = [levelEnabled EXCEPT ![c] = [l \in Levels |-> TRUE]]
    /\ categories' = categories \union {c}
    /\ UNCHANGED <<filterRules, rules, categoryFilter>>

LoggedTo(c) == \E t \in Threads : record[t] # <<>> /\ record[t][1] = c

\* LogCategory::~LogCategory() of an object nobody logs to.
Destroy(t, c) ==
    /\ pc[t] = "idle" /\ holder = {}
    /\ c \in alive /\ ~LoggedTo(c)
    /\ alive' = alive \ {c}
    /\ categories' = categories \ {c}
    /\ UNCHANGED <<pc, holder, levelEnabled, filterRules, rules, categoryFilter, toFilter,
                   applying, record, excused, touched>>

SetFilterRules(t, lines) ==
    /\ Locked(t, categories)
    /\ filterRules' = lines
    /\ rules' = ParseRules(lines)
    /\ UNCHANGED <<categories, alive, levelEnabled, categoryFilter>>

\* Mutant: setLogFilter() stores the filter and does not run it.
SetLogFilterOnly(t, filter) ==
    /\ Locked(t, {})
    /\ categoryFilter' = filter
    /\ UNCHANGED <<categories, alive, levelEnabled, filterRules, rules>>

SetLogFilter(t, filter) ==
    /\ Locked(t, categories)
    /\ categoryFilter' = filter
    /\ UNCHANGED <<categories, alive, levelEnabled, filterRules, rules>>

\* The next category is handed to the filter: the default one begins with all levels on.
FilterCategory(t) ==
    /\ pc[t] = "filtering" /\ applying = <<>>
    /\ \E c \in toFilter :
        /\ toFilter' = toFilter \ {c}
        /\ touched' = (touched \/ c \notin alive)
        /\ levelEnabled' = [levelEnabled EXCEPT ![c] =
                                [l \in Levels |-> categoryFilter = "default"]]
        /\ applying' = IF categoryFilter = "default" /\ rules # <<>> THEN <<c, rules>> ELSE <<>>
    /\ UNCHANGED <<pc, holder, categories, alive, filterRules, rules, categoryFilter, record, excused>>

\* ... and applies the rules in order, so that a later match overrides an earlier one.
ApplyRule(t) ==
    /\ pc[t] = "filtering" /\ applying # <<>>
    /\ LET c == applying[1]
           rule == Head(applying[2])
       IN  /\ levelEnabled' = [levelEnabled EXCEPT ![c] = [l \in Levels |->
                  IF MatchesCategory(rule, NameOf[c]) /\ AppliesToLevel(rule, l)
                  THEN rule.enable ELSE levelEnabled[c][l]]]
           /\ applying' = IF Len(applying[2]) = 1 THEN <<>> ELSE <<c, Tail(applying[2])>>
    /\ UNCHANGED <<pc, holder, categories, alive, filterRules, rules, categoryFilter, toFilter,
                   record, excused, touched>>

Unlock(t) ==
    /\ pc[t] = "filtering" /\ applying = <<>> /\ toFilter = {}
    /\ holder' = {}
    /\ pc' = [pc EXCEPT ![t] = "idle"]
    /\ UNCHANGED <<categories, alive, levelEnabled, filterRules, rules, categoryFilter, toFilter,
                   applying, record, excused, touched>>

\* log() begins; the level is read later.
Log(t, c, level) ==
    /\ pc[t] = "idle" /\ c \in categories
    /\ pc' = [pc EXCEPT ![t] = "log"]
    /\ record' = [record EXCEPT ![t] = <<c, level>>]
    /\ excused' = [excused EXCEPT ![t] = holder # {}]
    /\ UNCHANGED lockVars

IsLevelEnabled(t) == levelEnabled[record[t][1]][record[t][2]]

LogReads(t) ==
    /\ pc[t] = "log"
    /\ pc' = [pc EXCEPT ![t] = IF IsLevelEnabled(t) THEN "print" ELSE "idle"]
    /\ record' = IF IsLevelEnabled(t) THEN record ELSE [record EXCEPT ![t] = <<>>]
    /\ UNCHANGED <<lockVars, excused>>

\* The callback is called with the record, outside the lock.
Deliver(t) ==
    /\ pc[t] = "print"
    /\ pc' = [pc EXCEPT ![t] = "idle"]
    /\ record' = [record EXCEPT ![t] = <<>>]
    /\ UNCHANGED <<lockVars, excused>>

Next == \E t \in Threads :
    \/ \E c \in Categories : Construct(t, c) \/ Destroy(t, c)
    \/ \E lines \in RuleTexts : SetFilterRules(t, lines)
    \/ \E filter \in {"default", "mute"} : SetLogFilter(t, filter)
    \/ FilterCategory(t) \/ ApplyRule(t) \/ Unlock(t)
    \/ \E c \in Categories, level \in Levels : Log(t, c, level)
    \/ LogReads(t) \/ Deliver(t)

Spec == Init /\ [][Next]_vars

-----------------------------------------------------------------------------
(* What logging.h says of the rules, without the parser: a pattern matches *)
(* a name if its stars, only at its ends, can be filled in; a rule with a  *)
(* level's name behind its last dot is about that level; of the rules      *)
(* about a level of a category the last one decides.                       *)

Globs(pattern, name) ==
    /\ pattern # <<>>
    /\ \A i \in 2..(Len(pattern) - 1) : pattern[i] # "*"
    /\ LET body == SelectSeq(pattern, LAMBDA x : x # "*")
       IN  \E from \in 1..(Len(name) + 1) :
            LET to == from + Len(body) - 1
            IN  /\ to <= Len(name) /\ SubSeq(name, from, to) = body
                /\ Head(pattern) # "*" => from = 1
                /\ pattern[Len(pattern)] # "*" => to = Len(name)

About(line, name, level) ==
    LET n == Len(line.pattern)
        levelled == n >= 2 /\ SubSeq(line.pattern, n - 1, n) = <<".", "W">>
    IN  IF levelled THEN level = Warning /\ Globs(SubSeq(line.pattern, 1, n - 2), name)
        ELSE Globs(line.pattern, name)

AllowedBy(lines, c, level) ==
    LET about == {i \in DOMAIN lines : About(lines[i], NameOf[c], level)}
    IN  about = {} \/ lines[CHOOSE i \in about : \A j \in about : j <= i].enable

Allowed(c, level) == categoryFilter = "default" /\ AllowedBy(filterRules, c, level)

\* The last of the first k parsed rules that matches decides; all on if none does.
Says(parsed, k, c, level) ==
    LET about == {i \in 1..k : /\ MatchesCategory(parsed[i], NameOf[c])
                               /\ AppliesToLevel(parsed[i], level)}
    IN  about = {} \/ parsed[CHOOSE i \in about : \A j \in about : j <= i].enable

\* The parser makes of a text rules that say what the text says.
ParserIsFaithful ==
    \A lines \in RuleTexts :
        LET parsed == ParseRules(lines) IN
        /\ parsed \in Seq({parsed[i] : i \in DOMAIN parsed})
        /\ \A i \in DOMAIN parsed : parsed[i].enable \in BOOLEAN
        /\ \A c \in Categories, level \in Levels :
               Says(parsed, Len(parsed), c, level) <=> AllowedBy(lines, c, level)

\* Whenever no call is changing them, the levels of every registered category are what the
\* filter and the text of the rules in force make them, whatever order rules were installed
\* and categories constructed in, and no filter has been handed an object that is gone
\* (logging.cpp 213-234, 279-323).
LevelsAgree ==
    /\ holder = {} => \A c \in categories, l \in Levels : levelEnabled[c][l] = Allowed(c, l)
    /\ ~touched

\* A record on its way to the callback was allowed by the rules, unless a filter was running
\* during the call: then the all-enabled baseline of the filter may let it through
\* (logging.cpp 221-223, logging.h 190).
SilencedIsSilent ==
    \A t \in Threads : pc[t] = "print" => excused[t] \/ Allowed(record[t][1], record[t][2])

TypeOK ==
    /\ pc \in [Threads -> {"idle", "filtering", "log", "print"}]
    /\ holder \subseteq Threads /\ Cardinality(holder) <= 1
    /\ categories \subseteq alive /\ alive \subseteq Categories
    /\ levelEnabled \in [Categories -> [Levels -> BOOLEAN]]
    /\ categoryFilter \in {"default", "mute"}
    /\ toFilter \subseteq Categories

-----------------------------------------------------------------------------

=============================================================================
