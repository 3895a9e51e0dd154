---------------------------- MODULE Stores_proofs ----------------------------
(***************************************************************************)
(* What the stores guarantee: the levels of the log categories are what    *)
(* the rules in force say, as long as the parser makes of each text rules  *)
(* that say what it says; an any owns the one object it holds; the list    *)
(* and the index of a linked_map speak of the same pairs; a vlarray holds  *)
(* what a vector would.  For any threads, categories, rules, types,        *)
(* objects, keys, maps, elements and capacities.                           *)
(***************************************************************************)
EXTENDS Stores, Sequences, FiniteSetTheorems, SequenceTheorems, WellFoundedInduction, TLAPS

\* A step of another part leaves each of these alone.
LEMMA PartSteps ==
    ASSUME [StoresNext]_storesVars
    PROVE  /\ [Log!Next]_(Log!vars) /\ [Owner!Next]_(Owner!vars) /\ [Map!Next]_(Map!vars)
           /\ [Array!Next]_(Array!vars)
<1>1. [Log!Next]_logVars /\ [Owner!Next]_anyVars /\ [Map!Next]_mapVars /\ [Array!Next]_arrayVars
      BY DEF StoresNext, storesVars
<1>. QED
     BY <1>1 DEF logVars, Log!vars, anyVars, Owner!vars, mapVars, Map!vars, arrayVars, Array!vars

-----------------------------------------------------------------------------
(* Logging: the invariant. *)

Logging == {t \in Threads : logPc[t] \in {"log", "print"}}
Parsed == {rules[i] : i \in DOMAIN rules}

LogTypes ==
    /\ logPc \in [Threads -> {"idle", "filtering", "log", "print"}]
    /\ categories \subseteq categoryAlive /\ categoryAlive \subseteq Categories
    /\ levelEnabled \in [Categories -> [Log!Levels -> BOOLEAN]]
    /\ categoryFilter \in {"default", "mute"}
    /\ record \in [Threads -> {<<>>} \cup (Categories \X Log!Levels)]
    /\ excused \in [Threads -> BOOLEAN]
    /\ rules \in Seq(Parsed) /\ \A i \in 1..Len(rules) : rules[i].enable \in BOOLEAN

\* Who filters holds the lock, and what is left to filter is registered.
HolderInv ==
    /\ logHolder \subseteq Threads /\ \A t, u \in logHolder : t = u
    /\ \A t \in Threads : t \in logHolder <=> logPc[t] = "filtering"
    /\ toFilter \subseteq categories
    /\ logHolder = {} => toFilter = {} /\ applying = <<>>
    /\ ~touched

\* The parsed rules say what the text says.
RulesInv ==
    \A c \in Categories, l \in Log!Levels :
        Log!Says(rules, Len(rules), c, l) <=> Log!AllowedBy(filterRules, c, l)

\* The category in the filter has had the rules but those still to be applied.
ApplyInv ==
    applying = <<>> \/
        \E c \in categories, rest \in Seq(Parsed) :
            /\ applying = <<c, rest>> /\ c \notin toFilter /\ categoryFilter = "default"
            /\ Len(rest) \in 1..Len(rules)
            /\ \A i \in 1..Len(rest) : rest[i] = rules[(Len(rules) - Len(rest)) + i]
            /\ \A l \in Log!Levels :
                   levelEnabled[c][l] = Log!Says(rules, Len(rules) - Len(rest), c, l)

\* The others that are not still to come have their levels.
LevelsInv ==
    \A c \in categories \ toFilter :
        \/ applying # <<>> /\ applying[1] = c
        \/ \A l \in Log!Levels : levelEnabled[c][l] = Log!Allowed(c, l)

\* Who logs and is not excused met no filter: nobody has held the lock since.
LogInv ==
    \A t \in Logging :
        /\ record[t] \in categories \X Log!Levels
        /\ ~excused[t] => logHolder = {}
        /\ logPc[t] = "print" /\ ~excused[t] => Log!Allowed(record[t][1], record[t][2])

LogRegistryInv == LogTypes /\ HolderInv /\ RulesInv /\ ApplyInv /\ LevelsInv /\ LogInv

-----------------------------------------------------------------------------
(* The rules, one more at a time. *)

\* Of no rules nothing is said, and every level is on.
LEMMA SaysNothing ==
    ASSUME NEW parsed, NEW c, NEW l
    PROVE  Log!Says(parsed, 0, c, l) <=> TRUE
BY SMT DEF Log!Says

\* The next rule decides if it is about the level of the category.
LEMMA SaysNext ==
    ASSUME NEW parsed, NEW k \in Nat, NEW c, NEW l
    PROVE  Log!Says(parsed, k + 1, c, l) <=>
               IF /\ Log!MatchesCategory(parsed[k + 1], NameOf[c])
                  /\ Log!AppliesToLevel(parsed[k + 1], l)
               THEN parsed[k + 1].enable ELSE Log!Says(parsed, k, c, l)
<1> DEFINE Meets(i) == Log!MatchesCategory(parsed[i], NameOf[c]) /\ Log!AppliesToLevel(parsed[i], l)
           Before == {i \in 1..k : Meets(i)}
           Now == {i \in 1..(k + 1) : Meets(i)}
<1>1. CASE Meets(k + 1)
    <2>1. k + 1 \in Now /\ \A j \in Now : j <= k + 1
        BY <1>1, SMT
    <2>2. (CHOOSE i \in Now : \A j \in Now : j <= i) = k + 1
        <3>1. \A i \in Now : i \in Nat
            BY SMT
        <3> HIDE DEF Now
        <3> DEFINE top == CHOOSE i \in Now : \A j \in Now : j <= i
        <3>2. top \in Now /\ \A j \in Now : j <= top
            BY <2>1
        <3> HIDE DEF top
        <3>3. top = k + 1
            BY <2>1, <3>1, <3>2, SMT
        <3> QED BY <3>3 DEF top
    <2>3. Now # {}
        BY <2>1
    <2>4. Log!Says(parsed, k + 1, c, l) <=> parsed[k + 1].enable
        <3>1. Log!Says(parsed, k + 1, c, l) <=>
                  Now = {} \/ parsed[CHOOSE i \in Now : \A j \in Now : j <= i].enable
            BY DEF Log!Says
        <3> QED BY <3>1, <2>2, <2>3
    <2> QED BY <1>1, <2>4
<1>2. CASE ~Meets(k + 1)
    <2>1. Now = Before
        BY <1>2, SMT
    <2>2. Log!Says(parsed, k + 1, c, l) <=>
              Now = {} \/ parsed[CHOOSE i \in Now : \A j \in Now : j <= i].enable
        BY DEF Log!Says
    <2>3. Log!Says(parsed, k, c, l) <=>
              Before = {} \/ parsed[CHOOSE i \in Before : \A j \in Before : j <= i].enable
        BY DEF Log!Says
    <2>4. Log!Says(parsed, k + 1, c, l) <=> Log!Says(parsed, k, c, l)
        <3> HIDE DEF Now, Before
        <3> QED BY <2>1, <2>2, <2>3
    <2> QED BY <1>2, <2>4
<1> QED BY <1>1, <1>2

-----------------------------------------------------------------------------
(* The beginning. *)

\* The invariant holds when nothing has been registered.
LEMMA LogInit == Log!Init => LogRegistryInv
<1> SUFFICES ASSUME Log!Init PROVE LogRegistryInv
    OBVIOUS
<1>1. LogTypes
    BY SMT DEF Log!Init, LogTypes, Parsed
<1>2. HolderInv
    BY SMT DEF Log!Init, HolderInv
<1>3. RulesInv
    <2> SUFFICES ASSUME NEW c \in Categories, NEW l \in Log!Levels
                 PROVE  Log!Says(rules, Len(rules), c, l) <=> Log!AllowedBy(filterRules, c, l)
        BY DEF RulesInv
    <2>1. rules = <<>> /\ filterRules = <<>> /\ Len(rules) = 0
        BY SMT DEF Log!Init
    <2>2. Log!Says(rules, Len(rules), c, l) <=> TRUE
        BY <2>1, SaysNothing
    <2>3. Log!AllowedBy(<<>>, c, l) <=> TRUE
        BY SMT DEF Log!AllowedBy
    <2> QED BY <2>1, <2>2, <2>3
<1>4. ApplyInv
    BY DEF Log!Init, ApplyInv
<1>5. LevelsInv
    BY DEF Log!Init, LevelsInv
<1>6. LogInv
    BY SMT DEF Log!Init, LogInv, Logging
<1> QED BY <1>1, <1>2, <1>3, <1>4, <1>5, <1>6 DEF LogRegistryInv

-----------------------------------------------------------------------------
(* The calls that take the lock. *)

\* Whoever takes the lock excuses everybody, and nothing is being applied yet.
LEMMA LockedSteps ==
    ASSUME LogRegistryInv, NEW t \in Threads, NEW filtered, Log!Locked(t, filtered),
           categories \subseteq categories', filtered \subseteq categories'
    PROVE  /\ HolderInv' /\ ApplyInv' /\ LogInv'
           /\ logPc' \in [Threads -> {"idle", "filtering", "log", "print"}]
           /\ record' \in [Threads -> {<<>>} \cup (Categories \X Log!Levels)]
           /\ excused' \in [Threads -> BOOLEAN]
           /\ toFilter' = filtered /\ applying' = <<>>
<1>1. /\ logPc[t] = "idle" /\ logHolder = {} /\ logHolder' = {t} /\ toFilter' = filtered
      /\ logPc' = [logPc EXCEPT ![t] = "filtering"]
      /\ excused' = [u \in Threads |-> TRUE]
      /\ applying' = applying /\ record' = record /\ touched' = touched
    BY DEF Log!Locked
<1>2. LogTypes /\ HolderInv /\ LogInv
    BY DEF LogRegistryInv
<1>3. /\ logPc' \in [Threads -> {"idle", "filtering", "log", "print"}]
      /\ record' \in [Threads -> {<<>>} \cup (Categories \X Log!Levels)]
      /\ excused' \in [Threads -> BOOLEAN]
    BY <1>1, <1>2, SMT DEF LogTypes
<1>4. applying' = <<>>
    BY <1>1, <1>2 DEF HolderInv
<1>5. ApplyInv'
    BY <1>4 DEF ApplyInv
<1>6. HolderInv'
    BY <1>1, <1>2, <1>3, SMT DEF HolderInv, LogTypes
<1>7. LogInv'
    <2> SUFFICES ASSUME NEW u \in Logging'
                 PROVE  /\ record'[u] \in categories' \X Log!Levels
                        /\ excused'[u]
        BY SMT DEF LogInv
    <2>1. u \in Threads /\ u \in Logging
        BY <1>1, <1>2, SMT DEF Logging, LogTypes
    <2> QED BY <1>1, <1>2, <2>1, SMT DEF LogInv
<1> QED BY <1>1, <1>3, <1>4, <1>5, <1>6, <1>7

LEMMA ConstructSteps ==
    ASSUME LogRegistryInv, NEW t \in Threads, NEW c \in Categories, Log!Construct(t, c)
    PROVE  LogRegistryInv'
<1>1. /\ c \notin categoryAlive /\ Log!Locked(t, {c}) /\ categoryAlive' = categoryAlive \union {c}
      /\ levelEnabled' = [levelEnabled EXCEPT ![c] = [l \in Log!Levels |-> TRUE]]
      /\ categories' = categories \union {c}
      /\ filterRules' = filterRules /\ rules' = rules /\ categoryFilter' = categoryFilter
    BY DEF Log!Construct
<1>2. LogTypes /\ HolderInv /\ RulesInv /\ LevelsInv
    BY DEF LogRegistryInv
<1>3. /\ HolderInv' /\ ApplyInv' /\ LogInv'
      /\ logPc' \in [Threads -> {"idle", "filtering", "log", "print"}]
      /\ record' \in [Threads -> {<<>>} \cup (Categories \X Log!Levels)]
      /\ excused' \in [Threads -> BOOLEAN]
      /\ toFilter' = {c} /\ applying' = <<>>
    <2>1. categories \subseteq categories' /\ {c} \subseteq categories'
        BY <1>1
    <2> QED BY <1>1, <2>1, LockedSteps
<1>4. LogTypes'
    BY <1>1, <1>2, <1>3, SMT DEF LogTypes, Parsed
<1>5. RulesInv'
    BY <1>1, <1>2 DEF RulesInv
<1>6. LevelsInv'
    <2> SUFFICES ASSUME NEW d \in categories' \ toFilter', NEW l \in Log!Levels
                 PROVE  levelEnabled'[d][l] = Log!Allowed(d, l)'
        BY DEF LevelsInv
    <2>1. d \in categories /\ d # c /\ d \in Categories
        BY <1>1, <1>2, <1>3 DEF LogTypes
    <2>2. toFilter = {} /\ applying = <<>>
        BY <1>1, <1>2 DEF Log!Locked, HolderInv
    <2>3. levelEnabled[d][l] = Log!Allowed(d, l)
        BY <1>2, <2>1, <2>2 DEF LevelsInv
    <2>4. levelEnabled'[d] = levelEnabled[d]
        BY <1>1, <1>2, <2>1 DEF LogTypes
    <2>5. Log!Allowed(d, l)' = Log!Allowed(d, l)
        BY <1>1 DEF Log!Allowed
    <2> QED BY <2>3, <2>4, <2>5
<1> QED BY <1>3, <1>4, <1>5, <1>6 DEF LogRegistryInv

\* A text of rules is parsed into rules that say what it says.
LEMMA SetFilterRulesSteps ==
    ASSUME Log!ParserIsFaithful, LogRegistryInv, NEW t \in Threads, NEW lines \in RuleTexts,
           Log!SetFilterRules(t, lines)
    PROVE  LogRegistryInv'
<1>1. /\ Log!Locked(t, categories) /\ filterRules' = lines /\ rules' = Log!ParseRules(lines)
      /\ categories' = categories /\ categoryAlive' = categoryAlive /\ levelEnabled' = levelEnabled
      /\ categoryFilter' = categoryFilter
    BY DEF Log!SetFilterRules
<1>2. LogTypes
    BY DEF LogRegistryInv
<1>3. /\ HolderInv' /\ ApplyInv' /\ LogInv'
      /\ logPc' \in [Threads -> {"idle", "filtering", "log", "print"}]
      /\ record' \in [Threads -> {<<>>} \cup (Categories \X Log!Levels)]
      /\ excused' \in [Threads -> BOOLEAN]
      /\ toFilter' = categories /\ applying' = <<>>
    <2>1. categories \subseteq categories'
        BY <1>1
    <2> QED BY <1>1, <2>1, LockedSteps
<1>4. /\ rules' \in Seq({rules'[i] : i \in DOMAIN rules'})
      /\ \A i \in DOMAIN rules' : rules'[i].enable \in BOOLEAN
      /\ \A c \in Categories, l \in Log!Levels :
             Log!Says(rules', Len(rules'), c, l) <=> Log!AllowedBy(filterRules', c, l)
    BY <1>1 DEF Log!ParserIsFaithful
<1>5. LogTypes'
    <2>1. \A i \in 1..Len(rules') : rules'[i].enable \in BOOLEAN
        BY <1>4, SMT
    <2> QED BY <1>1, <1>2, <1>3, <1>4, <2>1 DEF LogTypes, Parsed
<1>6. RulesInv'
    BY <1>4 DEF RulesInv
<1>7. LevelsInv'
    BY <1>1, <1>3 DEF LevelsInv
<1> QED BY <1>3, <1>5, <1>6, <1>7 DEF LogRegistryInv

LEMMA SetLogFilterSteps ==
    ASSUME LogRegistryInv, NEW t \in Threads, NEW filter \in {"default", "mute"},
           Log!SetLogFilter(t, filter)
    PROVE  LogRegistryInv'
<1>1. /\ Log!Locked(t, categories) /\ categoryFilter' = filter
      /\ categories' = categories /\ categoryAlive' = categoryAlive /\ levelEnabled' = levelEnabled
      /\ filterRules' = filterRules /\ rules' = rules
    BY DEF Log!SetLogFilter
<1>2. LogTypes /\ RulesInv
    BY DEF LogRegistryInv
<1>3. /\ HolderInv' /\ ApplyInv' /\ LogInv'
      /\ logPc' \in [Threads -> {"idle", "filtering", "log", "print"}]
      /\ record' \in [Threads -> {<<>>} \cup (Categories \X Log!Levels)]
      /\ excused' \in [Threads -> BOOLEAN]
      /\ toFilter' = categories /\ applying' = <<>>
    <2>1. categories \subseteq categories'
        BY <1>1
    <2> QED BY <1>1, <2>1, LockedSteps
<1>4. LogTypes'
    BY <1>1, <1>2, <1>3 DEF LogTypes, Parsed
<1>5. RulesInv'
    BY <1>1, <1>2 DEF RulesInv
<1>6. LevelsInv'
    BY <1>1, <1>3 DEF LevelsInv
<1> QED BY <1>3, <1>4, <1>5, <1>6 DEF LogRegistryInv

-----------------------------------------------------------------------------
(* The steps under the lock. *)

\* An object nobody logs to is gone; the others keep their levels.
LEMMA DestroySteps ==
    ASSUME LogRegistryInv, NEW t \in Threads, NEW c \in Categories, Log!Destroy(t, c)
    PROVE  LogRegistryInv'
<1>1. /\ logPc[t] = "idle" /\ logHolder = {} /\ c \in categoryAlive /\ ~Log!LoggedTo(c)
      /\ categoryAlive' = categoryAlive \ {c} /\ categories' = categories \ {c}
      /\ UNCHANGED <<logPc, logHolder, levelEnabled, filterRules, rules, categoryFilter, toFilter,
                     applying, record, excused, touched>>
    BY DEF Log!Destroy
<1>2. LogTypes /\ HolderInv /\ RulesInv /\ LevelsInv /\ LogInv
    BY DEF LogRegistryInv
<1>3. toFilter = {} /\ applying = <<>>
    BY <1>1, <1>2 DEF HolderInv
<1>4. LogTypes'
    BY <1>1, <1>2 DEF LogTypes, Parsed
<1>5. HolderInv'
    BY <1>1, <1>2, <1>3 DEF HolderInv
<1>6. RulesInv'
    BY <1>1, <1>2 DEF RulesInv
<1>7. ApplyInv'
    BY <1>1, <1>3 DEF ApplyInv
<1>8. LevelsInv'
    <2> SUFFICES ASSUME NEW d \in categories' \ toFilter', NEW l \in Log!Levels
                 PROVE  levelEnabled'[d][l] = Log!Allowed(d, l)'
        BY DEF LevelsInv
    <2>1. d \in categories \ toFilter
        BY <1>1
    <2>2. levelEnabled[d][l] = Log!Allowed(d, l)
        BY <1>2, <1>3, <2>1 DEF LevelsInv
    <2>3. Log!Allowed(d, l)' = Log!Allowed(d, l)
        BY <1>1 DEF Log!Allowed
    <2> QED BY <1>1, <2>2, <2>3
<1>9. LogInv'
    <2> SUFFICES ASSUME NEW u \in Logging'
                 PROVE  /\ record'[u] \in categories' \X Log!Levels
                        /\ ~excused'[u] => logHolder' = {}
                        /\ logPc'[u] = "print" /\ ~excused'[u] =>
                               Log!Allowed(record[u][1], record[u][2])'
        BY DEF LogInv
    <2>1. u \in Logging /\ u \in Threads
        BY <1>1 DEF Logging
    <2>2. record[u] \in categories \X Log!Levels /\ (~excused[u] => logHolder = {})
        BY <1>2, <2>1 DEF LogInv
    <2>3. record[u] # <<>> /\ record[u][1] # c
        BY <1>1, <2>1, <2>2, SMT DEF Log!LoggedTo
    <2>4. record'[u] \in categories' \X Log!Levels
        BY <1>1, <2>2, <2>3, SMT
    <2>5. logPc[u] = "print" /\ ~excused[u] => Log!Allowed(record[u][1], record[u][2])
        BY <1>2, <2>1 DEF LogInv
    <2>6. Log!Allowed(record[u][1], record[u][2])' = Log!Allowed(record[u][1], record[u][2])
        BY <1>1 DEF Log!Allowed
    <2> QED BY <1>1, <2>2, <2>4, <2>5, <2>6
<1> QED BY <1>4, <1>5, <1>6, <1>7, <1>8, <1>9 DEF LogRegistryInv

\* What the steps of the filter leave alone: nobody is unexcused while the lock is held.
LEMMA FilterKeeps ==
    ASSUME LogRegistryInv, NEW t \in Threads, logPc[t] = "filtering",
           UNCHANGED <<logPc, logHolder, categories, categoryAlive, filterRules, rules,
                       categoryFilter, record, excused>>
    PROVE  RulesInv' /\ LogInv' /\ t \in logHolder
<1>1. LogTypes /\ HolderInv /\ RulesInv /\ LogInv
    BY DEF LogRegistryInv
<1>2. t \in logHolder
    BY <1>1 DEF HolderInv
<1>3. RulesInv'
    BY <1>1 DEF RulesInv
<1>4. LogInv'
    <2> SUFFICES ASSUME NEW u \in Logging'
                 PROVE  record'[u] \in categories' \X Log!Levels /\ excused'[u]
        BY SMT DEF LogInv
    <2>1. u \in Logging
        BY DEF Logging
    <2> QED BY <1>1, <1>2, <2>1 DEF LogInv
<1> QED BY <1>2, <1>3, <1>4

LEMMA FilterCategorySteps ==
    ASSUME LogRegistryInv, NEW t \in Threads, Log!FilterCategory(t)
    PROVE  LogRegistryInv'
<1>1. PICK c \in toFilter :
        /\ logPc[t] = "filtering" /\ applying = <<>>
        /\ toFilter' = toFilter \ {c}
        /\ touched' = (touched \/ c \notin categoryAlive)
        /\ levelEnabled' = [levelEnabled EXCEPT ![c] =
                                [l \in Log!Levels |-> categoryFilter = "default"]]
        /\ applying' = IF categoryFilter = "default" /\ rules # <<>> THEN <<c, rules>> ELSE <<>>
        /\ UNCHANGED <<logPc, logHolder, categories, categoryAlive, filterRules, rules,
                       categoryFilter, record, excused>>
    BY DEF Log!FilterCategory
<1>2. LogTypes /\ HolderInv /\ RulesInv /\ LevelsInv
    BY DEF LogRegistryInv
<1>3. RulesInv' /\ LogInv' /\ t \in logHolder
    BY <1>1, FilterKeeps
<1>4. c \in categories /\ c \in categoryAlive /\ c \in Categories
    BY <1>1, <1>2 DEF HolderInv, LogTypes
<1>5. LogTypes'
    <2>1. levelEnabled' \in [Categories -> [Log!Levels -> BOOLEAN]]
        <3>1. [l \in Log!Levels |-> categoryFilter = "default"] \in [Log!Levels -> BOOLEAN]
            OBVIOUS
        <3> QED BY <1>1, <1>2, <3>1 DEF LogTypes
    <2> QED BY <1>1, <1>2, <2>1 DEF LogTypes, Parsed
<1>6. HolderInv'
    <2>1. ~touched'
        BY <1>1, <1>2, <1>4 DEF HolderInv
    <2>2. logHolder' # {}
        BY <1>1, <1>3
    <2> QED BY <1>1, <1>2, <2>1, <2>2 DEF HolderInv
<1>7. levelEnabled'[c] = [l \in Log!Levels |-> categoryFilter = "default"]
    BY <1>1, <1>2, <1>4 DEF LogTypes
<1>8. rules \in Seq(Parsed) /\ Len(rules) \in Nat
    BY <1>2, SMT DEF LogTypes
<1>9. ApplyInv'
    <2>1. CASE categoryFilter = "default" /\ rules # <<>>
        <3>1. applying' = <<c, rules>>
            BY <1>1, <2>1
        <3>2. Len(rules') \in 1..Len(rules') /\ Len(rules') - Len(rules') = 0
            BY <1>1, <1>8, <2>1, SMT
        <3>3. \A i \in 1..Len(rules') : rules'[i] = rules'[(Len(rules') - Len(rules')) + i]
            BY <3>2, SMT
        <3>4. \A l \in Log!Levels :
                  levelEnabled'[c][l] = Log!Says(rules', Len(rules') - Len(rules'), c, l)
            <4> TAKE l \in Log!Levels
            <4>1. levelEnabled'[c][l] = TRUE
                BY <1>7, <2>1
            <4>2. Log!Says(rules', 0, c, l) = TRUE
                BY SaysNothing
            <4> QED BY <3>2, <4>1, <4>2
        <3>5. rules' \in Seq(Parsed)' /\ c \in categories' /\ c \notin toFilter'
              /\ categoryFilter' = "default"
            BY <1>1, <1>4, <1>8, <2>1 DEF Parsed
        <3>6. /\ Len(rules') \in 1..Len(rules')
              /\ \A i \in 1..Len(rules') : rules'[i] = rules'[(Len(rules') - Len(rules')) + i]
              /\ \A l \in Log!Levels :
                     levelEnabled'[c][l] = Log!Says(rules', Len(rules') - Len(rules'), c, l)
            BY <3>2, <3>3, <3>4
        <3>7. applying' = <<c, rules'>>
            BY <1>1, <3>1
        <3> QED BY <3>5, <3>6, <3>7 DEF ApplyInv
    <2>2. CASE ~(categoryFilter = "default" /\ rules # <<>>)
        BY <1>1, <2>2 DEF ApplyInv
    <2> QED BY <2>1, <2>2
<1>10. LevelsInv'
    <2> SUFFICES ASSUME NEW d \in categories' \ toFilter', ~(applying' # <<>> /\ applying'[1] = d),
                        NEW l \in Log!Levels
                 PROVE  levelEnabled'[d][l] = Log!Allowed(d, l)'
        BY DEF LevelsInv
    <2>1. d \in categories /\ d \in Categories
        BY <1>1, <1>2 DEF LogTypes
    <2>2. Log!Allowed(d, l)' = Log!Allowed(d, l)
        BY <1>1 DEF Log!Allowed
    <2>3. CASE d # c
        <3>1. d \in categories \ toFilter
            BY <1>1, <2>1, <2>3
        <3>2. levelEnabled[d][l] = Log!Allowed(d, l)
            BY <1>1, <1>2, <3>1 DEF LevelsInv
        <3>3. levelEnabled'[d] = levelEnabled[d]
            BY <1>1, <1>2, <2>1, <2>3 DEF LogTypes
        <3> QED BY <2>2, <3>2, <3>3
    <2>4. CASE d = c
        <3>1. applying' = <<>>
            <4>1. CASE applying' = <<c, rules>>
                BY <2>4, <4>1
            <4> QED BY <1>1, <4>1
        <3>2. categoryFilter # "default" \/ rules = <<>>
            <4> SUFFICES ASSUME categoryFilter = "default", rules # <<>> PROVE FALSE
                OBVIOUS
            <4>1. applying' = <<c, rules>>
                BY <1>1
            <4> QED BY <3>1, <4>1, SMT
        <3>3. levelEnabled'[d][l] = (categoryFilter = "default")
            BY <1>7, <2>4
        <3>4. CASE categoryFilter # "default"
            BY <2>2, <3>3, <3>4 DEF Log!Allowed
        <3>5. CASE categoryFilter = "default"
            <4>1. Len(rules) = 0
                BY <3>2, <3>5, SMT
            <4>2. Log!Says(rules, Len(rules), d, l) <=> TRUE
                BY <4>1, SaysNothing
            <4>3. Log!AllowedBy(filterRules, d, l)
                BY <1>2, <2>1, <4>2 DEF RulesInv
            <4> QED BY <2>2, <3>3, <3>5, <4>3 DEF Log!Allowed
        <3> QED BY <3>4, <3>5
    <2> QED BY <2>3, <2>4
<1> QED BY <1>3, <1>5, <1>6, <1>9, <1>10 DEF LogRegistryInv

\* One more rule has been applied to the category: the levels are what one more rule says.
LEMMA ApplyRuleSteps ==
    ASSUME LogRegistryInv, NEW t \in Threads, Log!ApplyRule(t)
    PROVE  LogRegistryInv'
<1>1. /\ logPc[t] = "filtering" /\ applying # <<>>
      /\ UNCHANGED <<logPc, logHolder, categories, categoryAlive, filterRules, rules,
                     categoryFilter, toFilter, record, excused, touched>>
    BY DEF Log!ApplyRule
<1>2. LogTypes /\ HolderInv /\ RulesInv /\ ApplyInv /\ LevelsInv
    BY DEF LogRegistryInv
<1>3. RulesInv' /\ LogInv' /\ t \in logHolder
    BY <1>1, FilterKeeps
<1>4. PICK c \in categories, rest \in Seq(Parsed) :
        /\ applying = <<c, rest>> /\ c \notin toFilter /\ categoryFilter = "default"
        /\ Len(rest) \in 1..Len(rules)
        /\ \A i \in 1..Len(rest) : rest[i] = rules[(Len(rules) - Len(rest)) + i]
        /\ \A l \in Log!Levels : levelEnabled[c][l] = Log!Says(rules, Len(rules) - Len(rest), c, l)
    BY <1>1, <1>2 DEF ApplyInv
<1> DEFINE rule == Head(rest)
           k == Len(rules) - Len(rest)
<1>5. /\ levelEnabled' = [levelEnabled EXCEPT ![c] = [l \in Log!Levels |->
             IF Log!MatchesCategory(rule, NameOf[c]) /\ Log!AppliesToLevel(rule, l)
             THEN rule.enable ELSE levelEnabled[c][l]]]
      /\ applying' = IF Len(rest) = 1 THEN <<>> ELSE <<c, Tail(rest)>>
    BY <1>4 DEF Log!ApplyRule
<1>6. rules \in Seq(Parsed) /\ Len(rules) \in Nat /\ Len(rest) \in Nat /\ c \in Categories
    BY <1>2, <1>4, SMT DEF LogTypes
<1>7. k \in Nat /\ k + 1 \in 1..Len(rules) /\ rule = rules[k + 1]
    <2>1. rule = rest[1] /\ 1 \in 1..Len(rest)
        BY <1>4, <1>6, SMT
    <2> QED BY <1>4, <1>6, <2>1, SMT
<1>8. rule.enable \in BOOLEAN
    BY <1>2, <1>7 DEF LogTypes
<1>9. levelEnabled[c] \in [Log!Levels -> BOOLEAN]
    BY <1>2, <1>6 DEF LogTypes
<1> HIDE DEF rule, k
<1>10. \A l \in Log!Levels : levelEnabled'[c][l] =
           IF Log!MatchesCategory(rule, NameOf[c]) /\ Log!AppliesToLevel(rule, l)
           THEN rule.enable ELSE levelEnabled[c][l]
    BY <1>2, <1>5, <1>6 DEF LogTypes
<1>11. \A d \in Categories : d # c => levelEnabled'[d] = levelEnabled[d]
    BY <1>2, <1>5, <1>6 DEF LogTypes
<1>12. LogTypes'
    <2>1. [l \in Log!Levels |-> IF /\ Log!MatchesCategory(rule, NameOf[c])
                                   /\ Log!AppliesToLevel(rule, l)
                                THEN rule.enable ELSE levelEnabled[c][l]]
              \in [Log!Levels -> BOOLEAN]
        BY <1>8, <1>9
    <2>2. levelEnabled' \in [Categories -> [Log!Levels -> BOOLEAN]]
        BY <1>2, <1>5, <2>1 DEF LogTypes
    <2> QED BY <1>1, <1>2, <2>2 DEF LogTypes, Parsed
<1>13. \A l \in Log!Levels : levelEnabled'[c][l] = Log!Says(rules, k + 1, c, l)
    <2> TAKE l \in Log!Levels
    <2>1. levelEnabled[c][l] = Log!Says(rules, k, c, l)
        BY <1>4 DEF k
    <2>2. Log!Says(rules, k + 1, c, l) <=>
              IF Log!MatchesCategory(rule, NameOf[c]) /\ Log!AppliesToLevel(rule, l)
              THEN rule.enable ELSE Log!Says(rules, k, c, l)
        BY <1>7, SaysNext
    <2>3. CASE Log!MatchesCategory(rule, NameOf[c]) /\ Log!AppliesToLevel(rule, l)
        <3>1. levelEnabled'[c][l] = rule.enable
            BY <1>10, <2>3
        <3>2. Log!Says(rules, k + 1, c, l) <=> rule.enable
            BY <2>2, <2>3
        <3> QED BY <1>8, <3>1, <3>2 DEF Log!Says
    <2>4. CASE ~(Log!MatchesCategory(rule, NameOf[c]) /\ Log!AppliesToLevel(rule, l))
        <3>1. levelEnabled'[c][l] = levelEnabled[c][l]
            BY <1>10, <2>4
        <3>2. Log!Says(rules, k + 1, c, l) <=> Log!Says(rules, k, c, l)
            BY <2>2, <2>4
        <3> QED BY <2>1, <3>1, <3>2 DEF Log!Says
    <2> QED BY <2>3, <2>4
<1>14. HolderInv'
    <2>1. logHolder' # {}
        BY <1>1, <1>3
    <2> QED BY <1>1, <1>2, <2>1 DEF HolderInv
<1>15. CASE Len(rest) = 1
    <2>1. applying' = <<>> /\ k + 1 = Len(rules)
        BY <1>5, <1>6, <1>15, SMT DEF k
    <2>2. ApplyInv'
        BY <2>1 DEF ApplyInv
    <2>3. LevelsInv'
        <3> SUFFICES ASSUME NEW d \in categories' \ toFilter', NEW l \in Log!Levels
                     PROVE  levelEnabled'[d][l] = Log!Allowed(d, l)'
            BY DEF LevelsInv
        <3>1. d \in categories \ toFilter /\ d \in Categories
            BY <1>1, <1>2 DEF LogTypes
        <3>2. Log!Allowed(d, l)' = Log!Allowed(d, l)
            BY <1>1 DEF Log!Allowed
        <3>3. CASE d = c
            <4>1. levelEnabled'[c][l] = Log!Says(rules, Len(rules), c, l)
                BY <1>13, <2>1
            <4>2. Log!Says(rules, Len(rules), c, l) <=> Log!AllowedBy(filterRules, c, l)
                BY <1>2, <1>6 DEF RulesInv
            <4>3. Log!Allowed(c, l) <=> Log!AllowedBy(filterRules, c, l)
                BY <1>4 DEF Log!Allowed
            <4>4. Log!Allowed(c, l) = Log!Says(rules, Len(rules), c, l)
                BY <4>2, <4>3 DEF Log!Allowed, Log!Says
            <4> QED BY <3>2, <3>3, <4>1, <4>4
        <3>4. CASE d # c
            <4>1. levelEnabled[d][l] = Log!Allowed(d, l)
                <5>1. ~(applying # <<>> /\ applying[1] = d)
                    BY <1>4, <3>4
                <5> QED BY <1>2, <3>1, <5>1 DEF LevelsInv
            <4> QED BY <1>11, <3>1, <3>2, <3>4, <4>1
        <3> QED BY <3>3, <3>4
    <2> QED BY <1>3, <1>12, <1>14, <2>2, <2>3 DEF LogRegistryInv
<1>16. CASE Len(rest) # 1
    <2> DEFINE last == Tail(rest)
    <2>1. /\ last \in Seq(Parsed) /\ Len(last) = Len(rest) - 1
          /\ \A i \in 1..Len(last) : last[i] = rest[i + 1]
        BY <1>4, <1>6, SMT
    <2>2. applying' = <<c, last>>
        BY <1>5, <1>16
    <2> HIDE DEF last
    <2>3. Len(last) \in 1..Len(rules) /\ Len(rules) - Len(last) = k + 1
        BY <1>4, <1>6, <1>16, <2>1, SMT DEF k
    <2>4. \A i \in 1..Len(last) : last[i] = rules[(Len(rules) - Len(last)) + i]
        <3> TAKE i \in 1..Len(last)
        <3>1. last[i] = rest[i + 1] /\ i + 1 \in 1..Len(rest)
            BY <1>6, <2>1, SMT
        <3>2. rest[i + 1] = rules[(Len(rules) - Len(rest)) + (i + 1)]
            BY <1>4, <3>1
        <3>3. (Len(rules) - Len(rest)) + (i + 1) = (Len(rules) - Len(last)) + i
            BY <1>6, <2>1, SMT
        <3> QED BY <3>1, <3>2, <3>3
    <2>5. ApplyInv'
        <3>1. \A l \in Log!Levels :
                  levelEnabled'[c][l] = Log!Says(rules, Len(rules) - Len(last), c, l)
            BY <1>13, <2>3
        <3>2. c \in categories' /\ last \in Seq(Parsed)'
            BY <1>1, <2>1 DEF Parsed
        <3>3. /\ applying' = <<c, last>> /\ c \notin toFilter' /\ categoryFilter' = "default"
              /\ Len(last) \in 1..Len(rules')
              /\ \A i \in 1..Len(last) : last[i] = rules'[(Len(rules') - Len(last)) + i]
              /\ \A l \in Log!Levels :
                     levelEnabled'[c][l] = Log!Says(rules', Len(rules') - Len(last), c, l)
            BY <1>1, <1>4, <2>2, <2>3, <2>4, <3>1
        <3> QED BY <3>2, <3>3 DEF ApplyInv
    <2>6. LevelsInv'
        <3> SUFFICES ASSUME NEW d \in categories' \ toFilter',
                            ~(applying' # <<>> /\ applying'[1] = d), NEW l \in Log!Levels
                     PROVE  levelEnabled'[d][l] = Log!Allowed(d, l)'
            BY DEF LevelsInv
        <3>1. d \in categories \ toFilter /\ d \in Categories /\ d # c
            BY <1>1, <1>2, <2>2 DEF LogTypes
        <3>2. ~(applying # <<>> /\ applying[1] = d)
            BY <1>4, <3>1
        <3>3. levelEnabled[d][l] = Log!Allowed(d, l)
            BY <1>2, <3>1, <3>2 DEF LevelsInv
        <3>4. Log!Allowed(d, l)' = Log!Allowed(d, l)
            BY <1>1 DEF Log!Allowed
        <3> QED BY <1>11, <3>1, <3>3, <3>4
    <2> QED BY <1>3, <1>12, <1>14, <2>5, <2>6 DEF LogRegistryInv
<1> QED BY <1>15, <1>16

LEMMA UnlockSteps ==
    ASSUME LogRegistryInv, NEW t \in Threads, Log!Unlock(t)
    PROVE  LogRegistryInv'
<1>1. /\ logPc[t] = "filtering" /\ applying = <<>> /\ toFilter = {} /\ logHolder' = {}
      /\ logPc' = [logPc EXCEPT ![t] = "idle"]
      /\ UNCHANGED <<categories, categoryAlive, levelEnabled, filterRules, rules, categoryFilter,
                     toFilter, applying, record, excused, touched>>
    BY DEF Log!Unlock
<1>2. LogTypes /\ HolderInv /\ RulesInv /\ LevelsInv /\ LogInv
    BY DEF LogRegistryInv
<1>3. LogTypes'
    BY <1>1, <1>2, SMT DEF LogTypes, Parsed
<1>4. HolderInv'
    <2>1. \A u \in Threads : logPc[u] = "filtering" => u = t
        BY <1>1, <1>2 DEF HolderInv
    <2>2. \A u \in Threads : logPc'[u] # "filtering"
        BY <1>1, <1>2, <2>1, SMT DEF LogTypes
    <2> QED BY <1>1, <1>2, <2>2, SMT DEF HolderInv
<1>5. RulesInv' /\ ApplyInv'
    BY <1>1, <1>2 DEF RulesInv, ApplyInv
<1>6. LevelsInv'
    <2> SUFFICES ASSUME NEW d \in categories' \ toFilter', NEW l \in Log!Levels
                 PROVE  levelEnabled'[d][l] = Log!Allowed(d, l)'
        BY DEF LevelsInv
    <2>1. levelEnabled[d][l] = Log!Allowed(d, l)
        BY <1>1, <1>2 DEF LevelsInv
    <2>2. Log!Allowed(d, l)' = Log!Allowed(d, l)
        BY <1>1 DEF Log!Allowed
    <2> QED BY <1>1, <2>1, <2>2
<1>7. LogInv'
    <2> SUFFICES ASSUME NEW u \in Logging'
                 PROVE  record'[u] \in categories' \X Log!Levels /\ excused'[u]
        BY SMT DEF LogInv
    <2>1. u \in Logging
        BY <1>1, <1>2, SMT DEF Logging, LogTypes
    <2>2. t \in logHolder
        BY <1>1, <1>2 DEF HolderInv
    <2> QED BY <1>1, <1>2, <2>1, <2>2 DEF LogInv
<1> QED BY <1>3, <1>4, <1>5, <1>6, <1>7 DEF LogRegistryInv

-----------------------------------------------------------------------------
(* The steps of log(). *)

\* What log() leaves alone.
LEMMA LogKeeps ==
    ASSUME LogRegistryInv, UNCHANGED Log!lockVars, NEW t \in Threads, logPc[t] # "filtering",
           NEW where \in {"idle", "log", "print"}, logPc' = [logPc EXCEPT ![t] = where]
    PROVE  /\ HolderInv' /\ RulesInv' /\ ApplyInv' /\ LevelsInv'
           /\ \A d, l : Log!Allowed(d, l)' = Log!Allowed(d, l)
<1>1. LogTypes /\ HolderInv /\ RulesInv /\ ApplyInv /\ LevelsInv
    BY DEF LogRegistryInv
<1>2. /\ logHolder' = logHolder /\ categories' = categories /\ categoryAlive' = categoryAlive
      /\ levelEnabled' = levelEnabled /\ filterRules' = filterRules /\ rules' = rules
      /\ categoryFilter' = categoryFilter /\ toFilter' = toFilter /\ applying' = applying
      /\ touched' = touched
    BY DEF Log!lockVars
<1>3. \A d, l : Log!Allowed(d, l)' = Log!Allowed(d, l)
    BY <1>2 DEF Log!Allowed
<1>4. HolderInv'
    <2>1. \A u \in Threads : logPc'[u] = "filtering" <=> logPc[u] = "filtering"
        BY <1>1, SMT DEF LogTypes
    <2> QED BY <1>1, <1>2, <2>1 DEF HolderInv
<1>5. RulesInv' /\ ApplyInv'
    <2>1. RulesInv'
        BY <1>1, <1>2 DEF RulesInv
    <2>2. Parsed' = Parsed
        BY <1>2 DEF Parsed
    <2>3. ApplyInv'
        BY <1>1, <1>2, <2>2 DEF ApplyInv
    <2> QED BY <2>1, <2>3
<1>6. LevelsInv'
    <2> SUFFICES ASSUME NEW d \in categories' \ toFilter',
                        ~(applying' # <<>> /\ applying'[1] = d), NEW l \in Log!Levels
                 PROVE  levelEnabled'[d][l] = Log!Allowed(d, l)'
        BY DEF LevelsInv
    <2>1. levelEnabled[d][l] = Log!Allowed(d, l)
        BY <1>1, <1>2 DEF LevelsInv
    <2> QED BY <1>2, <1>3, <2>1
<1> QED BY <1>3, <1>4, <1>5, <1>6

LEMMA LogSteps ==
    ASSUME LogRegistryInv, NEW t \in Threads, NEW c \in Categories, NEW level \in Log!Levels,
           Log!Log(t, c, level)
    PROVE  LogRegistryInv'
<1>1. /\ logPc[t] = "idle" /\ c \in categories
      /\ logPc' = [logPc EXCEPT ![t] = "log"]
      /\ record' = [record EXCEPT ![t] = <<c, level>>]
      /\ excused' = [excused EXCEPT ![t] = logHolder # {}]
      /\ UNCHANGED Log!lockVars
    BY DEF Log!Log
<1>2. LogTypes /\ LogInv
    BY DEF LogRegistryInv
<1>3. /\ HolderInv' /\ RulesInv' /\ ApplyInv' /\ LevelsInv'
      /\ \A d, l : Log!Allowed(d, l)' = Log!Allowed(d, l)
    BY <1>1, LogKeeps
<1>4. LogTypes'
    BY <1>1, <1>2, SMT DEF LogTypes, Parsed, Log!lockVars
<1>5. LogInv'
    <2> SUFFICES ASSUME NEW u \in Logging'
                 PROVE  /\ record'[u] \in categories' \X Log!Levels
                        /\ ~excused'[u] => logHolder' = {}
                        /\ logPc'[u] = "print" /\ ~excused'[u] =>
                               Log!Allowed(record[u][1], record[u][2])'
        BY DEF LogInv
    <2>1. categories' = categories /\ logHolder' = logHolder
        BY <1>1 DEF Log!lockVars
    <2>2. CASE u = t
        <3>1. /\ logPc'[u] = "log" /\ record'[u] = <<c, level>>
              /\ (excused'[u] <=> logHolder # {})
            BY <1>1, <1>2, <2>2 DEF LogTypes
        <3> QED BY <1>1, <2>1, <3>1
    <2>3. CASE u # t
        <3>1. /\ u \in Threads /\ logPc'[u] = logPc[u] /\ record'[u] = record[u]
              /\ excused'[u] = excused[u]
            BY <1>1, <1>2, <2>3, SMT DEF LogTypes, Logging
        <3>2. u \in Logging
            BY <3>1 DEF Logging
        <3>3. Log!Allowed(record[u][1], record[u][2])' = Log!Allowed(record[u][1], record[u][2])
            BY <1>1, <3>1 DEF Log!Allowed, Log!lockVars
        <3> QED BY <1>2, <2>1, <3>1, <3>2, <3>3 DEF LogInv
    <2> QED BY <2>2, <2>3
<1> QED BY <1>3, <1>4, <1>5 DEF LogRegistryInv

\* A level read while nobody filters is what the rules make it.
LEMMA LogReadsSteps ==
    ASSUME LogRegistryInv, NEW t \in Threads, Log!LogReads(t)
    PROVE  LogRegistryInv'
<1>1. /\ logPc[t] = "log"
      /\ logPc' = [logPc EXCEPT ![t] = IF Log!IsLevelEnabled(t) THEN "print" ELSE "idle"]
      /\ record' = IF Log!IsLevelEnabled(t) THEN record ELSE [record EXCEPT ![t] = <<>>]
      /\ UNCHANGED Log!lockVars /\ excused' = excused
    BY DEF Log!LogReads
<1>2. LogTypes /\ HolderInv /\ LevelsInv /\ LogInv
    BY DEF LogRegistryInv
<1>3. /\ HolderInv' /\ RulesInv' /\ ApplyInv' /\ LevelsInv'
      /\ \A d, l : Log!Allowed(d, l)' = Log!Allowed(d, l)
    BY <1>1, LogKeeps
<1>4. LogTypes'
    BY <1>1, <1>2, SMT DEF LogTypes, Parsed, Log!lockVars
<1>5. LogInv'
    <2> SUFFICES ASSUME NEW u \in Logging'
                 PROVE  /\ record'[u] \in categories' \X Log!Levels
                        /\ ~excused'[u] => logHolder' = {}
                        /\ logPc'[u] = "print" /\ ~excused'[u] =>
                               Log!Allowed(record[u][1], record[u][2])'
        BY DEF LogInv
    <2>1. categories' = categories /\ logHolder' = logHolder
        BY <1>1 DEF Log!lockVars
    <2>2. u \in Threads /\ u \in Logging
        BY <1>1, <1>2, SMT DEF LogTypes, Logging
    <2>3. record'[u] = record[u]
        BY <1>1, <1>2, <2>2, SMT DEF LogTypes, Logging
    <2>4. record[u] \in categories \X Log!Levels /\ (~excused[u] => logHolder = {})
        BY <1>2, <2>2 DEF LogInv
    <2>5. Log!Allowed(record[u][1], record[u][2])' = Log!Allowed(record[u][1], record[u][2])
        BY <1>1, <2>3 DEF Log!Allowed, Log!lockVars
    <2>6. CASE u = t
        <3>1. logPc'[u] = "print" => levelEnabled[record[u][1]][record[u][2]]
            BY <1>1, <1>2, <2>6, SMT DEF LogTypes, Log!IsLevelEnabled
        <3>2. ~excused[u] => toFilter = {} /\ applying = <<>>
            BY <1>2, <2>4 DEF HolderInv
        <3>3. record[u][1] \in categories /\ record[u][2] \in Log!Levels
            BY <2>4
        <3>4. ~excused[u] => levelEnabled[record[u][1]][record[u][2]] =
                                 Log!Allowed(record[u][1], record[u][2])
            BY <1>2, <3>2, <3>3 DEF LevelsInv
        <3> QED BY <1>1, <2>1, <2>3, <2>4, <2>5, <3>1, <3>4
    <2>7. CASE u # t
        <3>1. logPc'[u] = logPc[u]
            BY <1>1, <1>2, <2>2, <2>7 DEF LogTypes
        <3> QED BY <1>1, <1>2, <2>1, <2>2, <2>3, <2>4, <2>5, <3>1 DEF LogInv
    <2> QED BY <2>6, <2>7
<1> QED BY <1>3, <1>4, <1>5 DEF LogRegistryInv

LEMMA DeliverSteps ==
    ASSUME LogRegistryInv, NEW t \in Threads, Log!Deliver(t)
    PROVE  LogRegistryInv'
<1>1. /\ logPc[t] = "print" /\ logPc' = [logPc EXCEPT ![t] = "idle"]
      /\ record' = [record EXCEPT ![t] = <<>>] /\ UNCHANGED Log!lockVars /\ excused' = excused
    BY DEF Log!Deliver
<1>2. LogTypes /\ LogInv
    BY DEF LogRegistryInv
<1>3. /\ HolderInv' /\ RulesInv' /\ ApplyInv' /\ LevelsInv'
      /\ \A d, l : Log!Allowed(d, l)' = Log!Allowed(d, l)
    BY <1>1, LogKeeps
<1>4. LogTypes'
    BY <1>1, <1>2, SMT DEF LogTypes, Parsed, Log!lockVars
<1>5. LogInv'
    <2> SUFFICES ASSUME NEW u \in Logging'
                 PROVE  /\ record'[u] \in categories' \X Log!Levels
                        /\ ~excused'[u] => logHolder' = {}
                        /\ logPc'[u] = "print" /\ ~excused'[u] =>
                               Log!Allowed(record[u][1], record[u][2])'
        BY DEF LogInv
    <2>1. /\ u \in Threads /\ u # t /\ logPc'[u] = logPc[u] /\ record'[u] = record[u]
        BY <1>1, <1>2, SMT DEF LogTypes, Logging
    <2>2. u \in Logging /\ categories' = categories /\ logHolder' = logHolder
        BY <1>1, <2>1 DEF Logging, Log!lockVars
    <2>3. Log!Allowed(record[u][1], record[u][2])' = Log!Allowed(record[u][1], record[u][2])
        BY <1>1, <2>1 DEF Log!Allowed, Log!lockVars
    <2> QED BY <1>1, <1>2, <2>1, <2>2, <2>3 DEF LogInv
<1> QED BY <1>3, <1>4, <1>5 DEF LogRegistryInv

-----------------------------------------------------------------------------
(* The theorem. *)

\* Every step keeps the invariant.
LEMMA LogStep ==
    ASSUME Log!ParserIsFaithful, LogRegistryInv, [Log!Next]_(Log!vars)
    PROVE  LogRegistryInv'
<1>1. CASE UNCHANGED Log!vars
    <2>1. UNCHANGED <<logPc, logHolder, categories, categoryAlive, levelEnabled, filterRules, rules,
                      categoryFilter, toFilter, applying, record, excused, touched>>
        BY <1>1 DEF Log!vars
    <2>2. LogTypes /\ HolderInv /\ RulesInv /\ ApplyInv /\ LevelsInv /\ LogInv
        BY DEF LogRegistryInv
    <2>3. Parsed' = Parsed /\ \A c, l : Log!Allowed(c, l)' = Log!Allowed(c, l)
        BY <2>1 DEF Parsed, Log!Allowed
    <2>4. LogTypes'
        BY <2>1, <2>2, <2>3 DEF LogTypes
    <2>5. HolderInv' /\ RulesInv'
        BY <2>1, <2>2 DEF HolderInv, RulesInv
    <2>6. ApplyInv'
        BY <2>1, <2>2, <2>3 DEF ApplyInv
    <2>7. LevelsInv'
        BY <2>1, <2>2, <2>3 DEF LevelsInv
    <2>8. LogInv'
        BY <2>1, <2>2 DEF LogInv, Logging, Log!Allowed
    <2> QED BY <2>4, <2>5, <2>6, <2>7, <2>8 DEF LogRegistryInv
<1>2. CASE Log!Next
    <2>1. PICK t \in Threads :
            \/ \E c \in Categories : Log!Construct(t, c) \/ Log!Destroy(t, c)
            \/ \E lines \in RuleTexts : Log!SetFilterRules(t, lines)
            \/ \E filter \in {"default", "mute"} : Log!SetLogFilter(t, filter)
            \/ Log!FilterCategory(t) \/ Log!ApplyRule(t) \/ Log!Unlock(t)
            \/ \E c \in Categories, level \in Log!Levels : Log!Log(t, c, level)
            \/ Log!LogReads(t) \/ Log!Deliver(t)
        BY <1>2 DEF Log!Next
    <2> QED BY <2>1, ConstructSteps, DestroySteps, SetFilterRulesSteps, SetLogFilterSteps,
               FilterCategorySteps, ApplyRuleSteps, UnlockSteps, LogSteps, LogReadsSteps,
               DeliverSteps
<1> QED BY <1>1, <1>2

\* What the properties say, the invariant has.
LEMMA LogPromises == LogRegistryInv => Log!LevelsAgree /\ Log!SilencedIsSilent
<1> SUFFICES ASSUME LogRegistryInv PROVE Log!LevelsAgree /\ Log!SilencedIsSilent
    OBVIOUS
<1>1. LogTypes /\ HolderInv /\ LevelsInv /\ LogInv
    BY DEF LogRegistryInv
<1>2. Log!LevelsAgree
    <2>1. ASSUME logHolder = {}, NEW c \in categories, NEW l \in Log!Levels
          PROVE  levelEnabled[c][l] = Log!Allowed(c, l)
        <3>1. toFilter = {} /\ applying = <<>>
            BY <1>1, <2>1 DEF HolderInv
        <3> QED BY <1>1, <3>1 DEF LevelsInv
    <2> QED BY <1>1, <2>1 DEF Log!LevelsAgree, HolderInv
<1>3. Log!SilencedIsSilent
    BY <1>1 DEF Log!SilencedIsSilent, LogInv, Logging
<1> QED BY <1>2, <1>3

\* Whenever nobody changes them the levels of the categories are what the rules in force say,
\* and a record that no filter interfered with is delivered only if they allow it
\* (logging.cpp 213-234, 279-323).
THEOREM LogFollowsTheRulesHolds == StoresSpec => []LogFollowsTheRules
<1>1. StoresInit => LogRegistryInv
    BY LogInit DEF StoresInit
<1>2. LogRegistryInv /\ [StoresNext]_storesVars => LogRegistryInv'
    BY PartSteps, ParserAssumption, LogStep
<1>3. LogRegistryInv => LogFollowsTheRules
    BY LogPromises DEF LogFollowsTheRules
<1> QED BY <1>1, <1>2, <1>3, PTL DEF StoresSpec

\* The registry of the log is of its type, and one thread at most holds its mutex (logging.cpp,
\* LogRegistry).
THEOREM LogTypeCorrect == StoresSpec => []Log!TypeOK
<1>1. StoresInit => LogRegistryInv
    BY LogInit DEF StoresInit
<1>2. LogRegistryInv /\ [StoresNext]_storesVars => LogRegistryInv'
    BY PartSteps, ParserAssumption, LogStep
<1>3. LogRegistryInv => Log!TypeOK
    <2> SUFFICES ASSUME LogRegistryInv PROVE Log!TypeOK
        OBVIOUS
    <2>1. LogTypes /\ HolderInv
        BY DEF LogRegistryInv
    <2>2. logHolder = {} \/ \E t \in Threads : logHolder = {t}
        BY <2>1 DEF HolderInv
    <2>3. \A S : Log!Cardinality(S) = Cardinality(S)
        BY DEF Log!Cardinality, Cardinality
    <2>4. Cardinality(logHolder) = 0 \/ Cardinality(logHolder) = 1
        BY <2>2, FS_EmptySet, FS_Singleton
    <2>5. Log!Cardinality(logHolder) <= 1
        BY <2>3, <2>4
    <2> QED BY <2>1, <2>5 DEF LogTypes, HolderInv, Log!TypeOK
<1> QED BY <1>1, <1>2, <1>3, PTL DEF StoresSpec

-----------------------------------------------------------------------------
(* any: who owns what, in a memory where nothing went wrong.  Between two calls, what is alive *)
(* is what the anys hold; within one, also what the parameter and the temporary hold.          *)

\* A memory without a fault.
Memory(type, vtable, storage) ==
    [type |-> type, vtable |-> vtable, storage |-> storage, fault |-> FALSE]

\* An any that is empty has no object; one that is not has one of its own, which is alive and of
\* the type the vtable says. Nothing else is alive.
Owns(type, vtable, storage) ==
    /\ type \in [HeldObjects \cup {Owner!None} -> HeldTypes \cup {"raw"}]
    /\ vtable \in [Owner!Places -> HeldTypes \cup {Owner!NoVtable}]
    /\ storage \in [Owner!Places -> HeldObjects \cup {Owner!None}]
    /\ type[Owner!None] = "raw"
    /\ \A a \in Owner!Places :
           /\ vtable[a] = Owner!NoVtable => storage[a] = Owner!None
           /\ vtable[a] # Owner!NoVtable => storage[a] # Owner!None /\ type[storage[a]] = vtable[a]
    /\ \A a, b \in Owner!Places : storage[a] = storage[b] => a = b \/ storage[a] = Owner!None
    /\ \A o \in HeldObjects : type[o] # "raw" => \E a \in Owner!Places : storage[a] = o

Owned(m) == m = Memory(m.type, m.vtable, m.storage) /\ Owns(m.type, m.vtable, m.storage)

\* Where there is room for one object more.
Raw(m) == {o \in HeldObjects : m.type[o] = "raw"}

-----------------------------------------------------------------------------
LEMMA TypeNames == Owner!NoVtable \notin HeldTypes /\ "raw" \notin HeldTypes /\ Owner!None \notin HeldObjects
BY StoresAssumption DEF Owner!NoVtable, Owner!None

\* An object is made for an empty any.
LEMMA PlaceOwns ==
    ASSUME NEW type, NEW vtable, NEW storage, Owns(type, vtable, storage),
           NEW a \in Owner!Places, vtable[a] = Owner!NoVtable,
           NEW o \in HeldObjects, type[o] = "raw", NEW t \in HeldTypes
    PROVE  Owns([type EXCEPT ![o] = t], [vtable EXCEPT ![a] = t], [storage EXCEPT ![a] = o])
<1>1. \A b \in Owner!Places : storage[b] # o  BY TypeNames DEF Owns
<1>. QED  BY <1>1, TypeNames DEF Owns

\* The object of an any is destroyed, and the any is empty.
LEMMA ClearOwns ==
    ASSUME NEW type, NEW vtable, NEW storage, Owns(type, vtable, storage),
           NEW a \in Owner!Places, vtable[a] # Owner!NoVtable
    PROVE  Owns([type EXCEPT ![storage[a]] = "raw"], [vtable EXCEPT ![a] = Owner!NoVtable],
                [storage EXCEPT ![a] = Owner!None])
<1>1. storage[a] \in HeldObjects  BY DEF Owns
<1>. QED  BY <1>1, TypeNames DEF Owns

\* The object of an any is handed to an empty one.
LEMMA PassOwns ==
    ASSUME NEW type, NEW vtable, NEW storage, Owns(type, vtable, storage),
           NEW a \in Owner!Places, NEW b \in Owner!Places, a # b,
           vtable[a] = Owner!NoVtable, vtable[b] # Owner!NoVtable
    PROVE  Owns(type, [vtable EXCEPT ![a] = vtable[b], ![b] = Owner!NoVtable],
                [storage EXCEPT ![a] = storage[b], ![b] = Owner!None])
<1>1. storage[b] \in HeldObjects /\ vtable[b] \in HeldTypes  BY DEF Owns
<1>. QED  BY <1>1, TypeNames DEF Owns

-----------------------------------------------------------------------------
(* The records. *)

LEMMA Fields ==
    ASSUME NEW m, NEW type, NEW vtable, NEW storage, m = Memory(type, vtable, storage)
    PROVE  m.type = type /\ m.vtable = vtable /\ m.storage = storage
BY DEF Memory

LEMMA FieldSet ==
    ASSUME NEW m, NEW type, NEW vtable, NEW storage, m = Memory(type, vtable, storage), NEW v
    PROVE  /\ [m EXCEPT !.type = v] = Memory(v, vtable, storage)
           /\ [m EXCEPT !.vtable = v] = Memory(type, v, storage)
           /\ [m EXCEPT !.storage = v] = Memory(type, vtable, v)
           /\ [m EXCEPT !.fault = FALSE] = m
<1>. DEFINE r(f) == [type |-> type, vtable |-> vtable, storage |-> storage, fault |-> f]
<1>1. \A f : [r(f) EXCEPT !.type = v] = [type |-> v, vtable |-> vtable, storage |-> storage, fault |-> f]
      OBVIOUS
<1>2. \A f : [r(f) EXCEPT !.vtable = v] = [type |-> type, vtable |-> v, storage |-> storage, fault |-> f]
      OBVIOUS
<1>3. \A f : [r(f) EXCEPT !.storage = v] = [type |-> type, vtable |-> vtable, storage |-> v, fault |-> f]
      OBVIOUS
<1>4. \A f : [r(f) EXCEPT !.fault = f] = r(f)
      OBVIOUS
<1>. QED  BY <1>1, <1>2, <1>3, <1>4, Zenon DEF Memory

\* What a construction and a destruction change, with or without a fault.
Updated(m, ty, st, f) == [m EXCEPT !.type = ty, !.storage = st, !.fault = f]
Written(ty, vt, st, f) == [type |-> ty, vtable |-> vt, storage |-> st, fault |-> f]

LEMMA FieldsSet ==
    ASSUME NEW m, NEW type, NEW vtable, NEW storage, m = Memory(type, vtable, storage),
           NEW ty, NEW st, NEW f
    PROVE  Updated(m, ty, st, f) = Written(ty, vtable, st, f)
<1>. DEFINE k == [m EXCEPT !.type = ty]
            l == [k EXCEPT !.storage = st]
<1>1. [m EXCEPT !.type = ty, !.storage = st, !.fault = f] = [l EXCEPT !.fault = f]  OBVIOUS
<1>2. k = Memory(ty, vtable, storage)  BY FieldSet
<1>. HIDE DEF k
<1>3. l = Memory(ty, vtable, st)  BY <1>2, FieldSet
<1>. HIDE DEF l
<1>4. [l EXCEPT !.fault = f] = [type |-> ty, vtable |-> vtable, storage |-> st, fault |-> f]
      BY <1>3 DEF Memory
<1>. QED  BY <1>1, <1>4 DEF Updated, Written

\* What is written when a construction is taken back.
TakenBack(m, ty, st) == [m EXCEPT !.type = ty, !.storage = st]

LEMMA TwoFieldsSet ==
    ASSUME NEW m, NEW type, NEW vtable, NEW storage, m = Memory(type, vtable, storage),
           NEW ty, NEW st
    PROVE  TakenBack(m, ty, st) = Memory(ty, vtable, st)
<1>. DEFINE k == [m EXCEPT !.type = ty]
<1>1. TakenBack(m, ty, st) = [k EXCEPT !.storage = st]  BY DEF TakenBack
<1>2. k = Memory(ty, vtable, storage)  BY FieldSet
<1>. HIDE DEF k
<1>3. [k EXCEPT !.storage = st] = Memory(ty, vtable, st)  BY <1>2, FieldSet
<1>. QED  BY <1>1, <1>3

LEMMA Constructed ==
    ASSUME NEW m, Owned(m), NEW a \in Owner!Places, m.vtable[a] = Owner!NoVtable, NEW t
    PROVE  Owner!Construct(m, a, t) =
               Memory([m.type EXCEPT ![Owner!Fresh(m)] = t], m.vtable, [m.storage EXCEPT ![a] = Owner!Fresh(m)])
<1>. DEFINE ty == [m.type EXCEPT ![Owner!Fresh(m)] = t]
            st == [m.storage EXCEPT ![a] = Owner!Fresh(m)]
            f == m.fault \/ Owner!HasValue(m, a)
<1>1. f = FALSE
  <2>1. m.fault = FALSE  BY DEF Owned, Memory
  <2>. QED  BY <2>1 DEF Owner!HasValue
<1>2. m = Memory(m.type, m.vtable, m.storage)  BY Zenon DEF Owned
<1>. HIDE DEF f
<1>3. Owner!Construct(m, a, t) = Updated(m, ty, st, f)
      BY DEF Owner!Construct, Updated, f
<1>. HIDE DEF ty, st
<1>4. Owner!Construct(m, a, t) = Written(ty, m.vtable, st, f)
      BY <1>2, <1>3, FieldsSet
<1>5. Owner!Construct(m, a, t) = Memory(ty, m.vtable, st)  BY <1>1, <1>4, Zenon DEF Memory, Written
<1>. QED  BY <1>5 DEF ty, st

LEMMA Destroyed ==
    ASSUME NEW m, NEW type, NEW vtable, NEW storage, m = Memory(type, vtable, storage),
           NEW a \in Owner!Places, type[storage[a]] = vtable[a]
    PROVE  Owner!Destroy(m, a) =
               Memory([type EXCEPT ![storage[a]] = "raw"], vtable, [storage EXCEPT ![a] = Owner!None])
<1>. DEFINE ty == [type EXCEPT ![storage[a]] = "raw"]
            st == [storage EXCEPT ![a] = Owner!None]
            f == m.fault \/ m.type[m.storage[a]] # m.vtable[a]
<1>1. f = FALSE  BY DEF Memory
<1>2. m.type = type /\ m.storage = storage  BY Fields
<1>. HIDE DEF f
<1>3. Owner!Destroy(m, a) = Updated(m, ty, st, f)
      BY <1>2 DEF Owner!Destroy, Updated, f
<1>. HIDE DEF ty, st
<1>4. Owner!Destroy(m, a) = Written(ty, vtable, st, f)
      BY <1>3, FieldsSet
<1>5. Owner!Destroy(m, a) = Memory(ty, vtable, st)  BY <1>1, <1>4, Zenon DEF Memory, Written
<1>. QED  BY <1>5 DEF ty, st

LEMMA OwnedMemory ==
    ASSUME NEW n, NEW type, NEW vtable, NEW storage, n = Memory(type, vtable, storage),
           Owns(type, vtable, storage)
    PROVE  Owned(n) /\ n.type = type /\ n.vtable = vtable /\ n.storage = storage
BY Fields DEF Owned

LEMMA FreshIsRaw == ASSUME NEW m, Raw(m) # {} PROVE Owner!Fresh(m) \in Raw(m)
BY DEF Owner!Fresh, Raw

-----------------------------------------------------------------------------
(* The operations. *)

\* An empty any is given a new object.
LEMMA HoldingOwns ==
    ASSUME NEW m, Owned(m), NEW a \in Owner!Places, m.vtable[a] = Owner!NoVtable,
           NEW t \in HeldTypes, Raw(m) # {}, NEW n, n = Owner!Holding(m, a, t)
    PROVE  /\ Owned(n) /\ n.vtable = [m.vtable EXCEPT ![a] = t]
           /\ Raw(n) = Raw(m) \ {Owner!Fresh(m)}
<1>. DEFINE o == Owner!Fresh(m)
            ty == [m.type EXCEPT ![o] = t]
            vt == [m.vtable EXCEPT ![a] = t]
            st == [m.storage EXCEPT ![a] = o]
            k == Owner!Construct(m, a, t)
<1>1. o \in HeldObjects /\ m.type[o] = "raw"  BY FreshIsRaw DEF Raw
<1>2. k = Memory(ty, m.vtable, st)  BY Constructed, Zenon
<1>3. Owns(ty, vt, st)  BY <1>1, PlaceOwns DEF Owned
<1>4. m.type \in [HeldObjects \cup {Owner!None} -> HeldTypes \cup {"raw"}]  BY DEF Owned, Owns
<1>5. n = [k EXCEPT !.vtable = [k.vtable EXCEPT ![a] = t]]  BY DEF Owner!Holding
<1>. HIDE DEF k, st, o
<1>6. Raw(m) \ {o} = {p \in HeldObjects : ty[p] = "raw"}  BY <1>1, <1>4, TypeNames DEF Raw
<1>. HIDE DEF ty
<1>7. k.vtable = m.vtable  BY <1>2, Fields
<1>8. n = [k EXCEPT !.vtable = vt]  BY <1>5, <1>7
<1>. HIDE DEF vt
<1>9. n = Memory(ty, vt, st)
  <2>1. [k EXCEPT !.vtable = vt] = Memory(ty, vt, st)  BY <1>2, FieldSet
  <2>. QED  BY <1>8, <2>1
<1>10. Owned(n) /\ n.type = ty /\ n.vtable = vt  BY <1>3, <1>9, OwnedMemory
<1>. QED  BY <1>6, <1>10 DEF Raw, vt, o

\* A constructor that throws leaves everything as it was: the memory it had is free again.
LEMMA ThrowsOwns ==
    ASSUME NEW m, Owned(m), NEW a \in Owner!Places, m.vtable[a] = Owner!NoVtable, Raw(m) # {},
           NEW n, n = Owner!ConstructThrows(m, a)
    PROVE  n = m
<1>. DEFINE o == Owner!Fresh(m)
            ty == [m.type EXCEPT ![o] = "unbuilt"]
            st == [m.storage EXCEPT ![a] = o]
            k == Owner!Construct(m, a, "unbuilt")
            ty2 == [ty EXCEPT ![st[a]] = "raw"]
            st2 == [st EXCEPT ![a] = Owner!None]
<1>1. o \in HeldObjects /\ m.type[o] = "raw"  BY FreshIsRaw DEF Raw
<1>2. k = Memory(ty, m.vtable, st)  BY Constructed, Zenon
<1>3. /\ m.type \in [HeldObjects \cup {Owner!None} -> HeldTypes \cup {"raw"}]
      /\ m.storage \in [Owner!Places -> HeldObjects \cup {Owner!None}]
      /\ m.storage[a] = Owner!None /\ m = Memory(m.type, m.vtable, m.storage)
      BY Zenon DEF Owned, Owns
<1>4. ty2 = m.type /\ st2 = m.storage  BY <1>1, <1>3
<1>. HIDE DEF o, ty, st
<1>5. n = TakenBack(k, ty2, st2)
  <2>1. k.type = ty /\ k.storage = st  BY <1>2, Fields
  <2>2. n = Owner!Unwind(k, a)  BY DEF Owner!ConstructThrows
  <2>. HIDE DEF k
  <2>. QED  BY <2>1, <2>2 DEF Owner!Unwind, TakenBack
<1>. HIDE DEF k, ty2, st2
<1>6. n = Memory(ty2, m.vtable, st2)  BY <1>2, <1>5, TwoFieldsSet
<1>. QED  BY <1>3, <1>4, <1>6

\* reset(), and the end of an any.
LEMMA ResetOwns ==
    ASSUME NEW m, Owned(m), NEW a \in Owner!Places, NEW n, n = Owner!Reset(m, a)
    PROVE  Owned(n) /\ n.vtable = [m.vtable EXCEPT ![a] = Owner!NoVtable]
<1>. DEFINE ty == [m.type EXCEPT ![m.storage[a]] = "raw"]
            vt == [m.vtable EXCEPT ![a] = Owner!NoVtable]
            st == [m.storage EXCEPT ![a] = Owner!None]
            k == Owner!Destroy(m, a)
<1>1. m.vtable \in [Owner!Places -> HeldTypes \cup {Owner!NoVtable}]  BY DEF Owned, Owns
<1>2. CASE m.vtable[a] = Owner!NoVtable
  <2>1. n = m  BY <1>2 DEF Owner!Reset, Owner!HasValue
  <2>2. m.vtable = vt  BY <1>1, <1>2
  <2>. QED  BY <2>1, <2>2
<1>3. CASE m.vtable[a] # Owner!NoVtable
  <2>1. m.type[m.storage[a]] = m.vtable[a]  BY <1>3 DEF Owned, Owns
  <2>2. k = Memory(ty, m.vtable, st)  BY <2>1, Destroyed DEF Owned
  <2>3. Owns(ty, vt, st)  BY <1>3, ClearOwns DEF Owned
  <2>4. n = [k EXCEPT !.vtable = [k.vtable EXCEPT ![a] = Owner!NoVtable]]
        BY <1>3 DEF Owner!Reset, Owner!HasValue
  <2>. HIDE DEF k, ty, st
  <2>5. k.vtable = m.vtable  BY <2>2, Fields
  <2>6. n = [k EXCEPT !.vtable = vt]  BY <2>4, <2>5
  <2>. HIDE DEF vt
  <2>7. n = Memory(ty, vt, st)  BY <2>2, <2>6, FieldSet
  <2>8. Owned(n) /\ n.vtable = vt  BY <2>3, <2>7, OwnedMemory
  <2>. QED  BY <2>8 DEF vt
<1>. QED  BY <1>2, <1>3

\* What another any holds is taken over by an empty one, and there is as much room as before.
LEMMA AdoptOwns ==
    ASSUME NEW m, Owned(m), NEW a \in Owner!Places, NEW b \in Owner!Places, a # b,
           m.vtable[a] = Owner!NoVtable, Raw(m) # {}, NEW n, n = Owner!Adopt(m, a, b)
    PROVE  /\ Owned(n) /\ Raw(n) # {}
           /\ n.vtable = [m.vtable EXCEPT ![a] = m.vtable[b], ![b] = Owner!NoVtable]
<1>. DEFINE o == Owner!Fresh(m)
            t == m.vtable[b]
            vt == [m.vtable EXCEPT ![a] = t, ![b] = Owner!NoVtable]
            z == Owner!Move(m, b, a)
<1>1. /\ m.type \in [HeldObjects \cup {Owner!None} -> HeldTypes \cup {"raw"}]
      /\ m.vtable \in [Owner!Places -> HeldTypes \cup {Owner!NoVtable}]
      /\ m.storage \in [Owner!Places -> HeldObjects \cup {Owner!None}]
      BY DEF Owned, Owns
<1>2. CASE t = Owner!NoVtable
  <2>1. n = m  BY <1>2 DEF Owner!Adopt, Owner!HasValue
  <2>2. m.vtable = vt  BY <1>1, <1>2
  <2>. QED  BY <2>1, <2>2
<1>3. CASE t # Owner!NoVtable
  <2>1. t \in HeldTypes /\ m.storage[b] \in HeldObjects /\ m.type[m.storage[b]] = t
        BY <1>1, <1>3 DEF Owned, Owns
  <2>2. n = [z EXCEPT !.vtable = [z.vtable EXCEPT ![a] = t, ![b] = Owner!NoVtable]]
        BY <1>3 DEF Owner!Adopt, Owner!HasValue
  <2>3. SUFFICES \E ty, st : /\ z = Memory(ty, m.vtable, st) /\ Owns(ty, vt, st)
                             /\ \E p \in HeldObjects : ty[p] = "raw"
    <3>1. PICK ty, st : /\ z = Memory(ty, m.vtable, st) /\ Owns(ty, vt, st)
                        /\ \E p \in HeldObjects : ty[p] = "raw"
          BY <2>3
    <3>. HIDE DEF z
    <3>2. z.vtable = m.vtable  BY <3>1, Fields
    <3>3. n = [z EXCEPT !.vtable = vt]  BY <2>2, <3>2
    <3>. HIDE DEF vt
    <3>4. n = Memory(ty, vt, st)  BY <3>1, <3>3, FieldSet
    <3>5. Owned(n) /\ n.type = ty /\ n.vtable = vt  BY <3>1, <3>4, OwnedMemory
    <3>. QED  BY <3>1, <3>5 DEF Raw, vt
  <2>4. CASE t \in Inlined
    <3>. DEFINE ty == [m.type EXCEPT ![o] = t]
                st == [m.storage EXCEPT ![a] = o]
                v1 == [m.vtable EXCEPT ![a] = t]
                k == Owner!Construct(m, a, t)
                ty2 == [ty EXCEPT ![st[b]] = "raw"]
                st2 == [st EXCEPT ![b] = Owner!None]
    <3>1. o \in HeldObjects /\ m.type[o] = "raw"  BY FreshIsRaw DEF Raw
    <3>2. k = Memory(ty, m.vtable, st)  BY Constructed, Zenon
    <3>3. Owns(ty, v1, st)  BY <2>1, <3>1, PlaceOwns DEF Owned
    <3>4. st[b] = m.storage[b] /\ ty[m.storage[b]] = t /\ v1[b] = t /\ o # m.storage[b]
          BY <1>1, <2>1, <3>1, TypeNames
    <3>5. Owns(ty2, [v1 EXCEPT ![b] = Owner!NoVtable], st2)  BY <1>3, <3>3, <3>4, ClearOwns
    <3>6. [v1 EXCEPT ![b] = Owner!NoVtable] = vt  BY <1>1
    <3>7. ty2[m.storage[b]] = "raw"  BY <1>1, <2>1, <3>1, <3>4
    <3>8. z = Owner!Destroy(k, b)  BY <2>4 DEF Owner!Move, Owner!MoveInline
    <3>. HIDE DEF ty, st, k, z
    <3>9. Owner!Destroy(k, b) = Memory(ty2, m.vtable, st2)  BY <3>2, <3>4, Destroyed
    <3>. HIDE DEF ty2, st2, vt, v1
    <3>. QED  BY <2>1, <3>5, <3>6, <3>7, <3>8, <3>9
  <2>5. CASE t \notin Inlined
    <3>. DEFINE st == [m.storage EXCEPT ![a] = m.storage[b], ![b] = Owner!None]
    <3>1. z = [m EXCEPT !.storage = st]  BY <2>5 DEF Owner!Move, Owner!MoveHeap
    <3>2. Owns(m.type, vt, st)  BY <1>3, PassOwns DEF Owned
    <3>3. \E p \in HeldObjects : m.type[p] = "raw"  BY DEF Raw
    <3>. HIDE DEF st, z, vt
    <3>4. z = Memory(m.type, m.vtable, st)  BY <3>1, FieldSet DEF Owned
    <3>. QED  BY <3>2, <3>3, <3>4
  <2>. QED  BY <2>4, <2>5
<1>. QED  BY <1>2, <1>3

LEMMA SlotNames ==
    /\ Anys \subseteq Owner!Places /\ Owner!Param \in Owner!Places /\ Owner!Temp \in Owner!Places
    /\ Owner!Param \notin Anys /\ Owner!Temp \notin Anys /\ Owner!Param # Owner!Temp
BY StoresAssumption DEF Owner!Places, Owner!Param, Owner!Temp

\* swap(): through the temporary.
LEMMA SwapOwns ==
    ASSUME NEW m, Owned(m), NEW a \in Owner!Places, NEW b \in Owner!Places,
           a # Owner!Temp, b # Owner!Temp, m.vtable[Owner!Temp] = Owner!NoVtable,
           Raw(m) # {}, NEW n, n = Owner!Swap(m, a, b)
    PROVE  Owned(n) /\ n.vtable = [m.vtable EXCEPT ![a] = m.vtable[b], ![b] = m.vtable[a]]
<1>1. m.vtable \in [Owner!Places -> HeldTypes \cup {Owner!NoVtable}]  BY DEF Owned, Owns
<1>2. CASE a = b
  <2>1. n = m  BY <1>2 DEF Owner!Swap
  <2>2. m.vtable = [m.vtable EXCEPT ![a] = m.vtable[b], ![b] = m.vtable[a]]  BY <1>1, <1>2
  <2>. QED  BY <2>1, <2>2
<1>3. CASE a # b
  <2>0. PICK x : x = Owner!Adopt(m, Owner!Temp, a)  OBVIOUS
  <2>11. PICK y : y = Owner!Adopt(x, a, b)  OBVIOUS
  <2>1. n = Owner!Adopt(y, b, Owner!Temp)  BY <1>3, <2>0, <2>11 DEF Owner!Swap
  <2>2. /\ Owned(x) /\ Raw(x) # {}
        /\ x.vtable = [m.vtable EXCEPT ![Owner!Temp] = m.vtable[a], ![a] = Owner!NoVtable]
        BY <2>0, SlotNames, AdoptOwns
  <2>21. Owned(x) /\ Raw(x) # {}  BY <2>2
  <2>3. x.vtable[a] = Owner!NoVtable  BY <1>1, <2>2
  <2>4. /\ Owned(y) /\ Raw(y) # {}
        /\ y.vtable = [x.vtable EXCEPT ![a] = x.vtable[b], ![b] = Owner!NoVtable]
        BY <1>3, <2>21, <2>3, <2>11, AdoptOwns
  <2>41. Owned(y) /\ Raw(y) # {}  BY <2>4
  <2>5. x.vtable \in [Owner!Places -> HeldTypes \cup {Owner!NoVtable}]
        /\ y.vtable \in [Owner!Places -> HeldTypes \cup {Owner!NoVtable}]
        BY <2>2, <2>4 DEF Owned, Owns
  <2>6. y.vtable[b] = Owner!NoVtable  BY <2>4, <2>5
  <2>7. /\ Owned(n)
        /\ n.vtable = [y.vtable EXCEPT ![b] = y.vtable[Owner!Temp], ![Owner!Temp] = Owner!NoVtable]
        BY <2>1, <2>41, <2>6, SlotNames, AdoptOwns
  <2>8. n.vtable = [m.vtable EXCEPT ![a] = m.vtable[b], ![b] = m.vtable[a]]
    <3>1. \A c \in Owner!Places :
              n.vtable[c] = [m.vtable EXCEPT ![a] = m.vtable[b], ![b] = m.vtable[a]][c]
          BY <1>1, <1>3, <2>2, <2>4, <2>5, <2>7, SlotNames
    <3>2. n.vtable \in [Owner!Places -> HeldTypes \cup {Owner!NoVtable}]
          BY <2>7 DEF Owned, Owns
    <3>. QED  BY <1>1, <3>1, <3>2
  <2>. QED  BY <2>7, <2>8
<1>. QED  BY <1>2, <1>3

\* operator=(): a has what the other had, which has ended.
LEMMA AssignOwns ==
    ASSUME NEW m, Owned(m), NEW a \in Anys, m.vtable[Owner!Temp] = Owner!NoVtable,
           Raw(m) # {}, NEW n, n = Owner!AssignFrom(m, a)
    PROVE  /\ Owned(n)
           /\ n.vtable = [m.vtable EXCEPT ![a] = m.vtable[Owner!Param], ![Owner!Param] = Owner!NoVtable]
<1>. DEFINE x == Owner!Swap(m, a, Owner!Param)
<1>1. m.vtable \in [Owner!Places -> HeldTypes \cup {Owner!NoVtable}]  BY DEF Owned, Owns
<1>2. Owned(x) /\ x.vtable = [m.vtable EXCEPT ![a] = m.vtable[Owner!Param],
                                             ![Owner!Param] = m.vtable[a]]
      BY SlotNames, SwapOwns
<1>3. n = Owner!Reset(x, Owner!Param)  BY DEF Owner!AssignFrom
<1>. HIDE DEF x
<1>4. Owned(n) /\ n.vtable = [x.vtable EXCEPT ![Owner!Param] = Owner!NoVtable]
      BY <1>2, <1>3, SlotNames, ResetOwns
<1>5. n.vtable = [m.vtable EXCEPT ![a] = m.vtable[Owner!Param], ![Owner!Param] = Owner!NoVtable]
      BY <1>1, <1>2, <1>4, SlotNames
<1>. QED  BY <1>4, <1>5

-----------------------------------------------------------------------------
(* The program. *)

AnyInv ==
    /\ Owned(anys)
    /\ anys.vtable[Owner!Param] = Owner!NoVtable /\ anys.vtable[Owner!Temp] = Owner!NoVtable
    /\ held \in [Anys -> HeldTypes \cup {"empty"}]
    /\ \A a \in Anys :
           anys.vtable[a] = IF held[a] = "empty" THEN Owner!NoVtable ELSE held[a]

LEMMA RoomIsRaw ==
    ASSUME NEW m
    PROVE  /\ Owner!HasRoom(m, 1) => Raw(m) # {}
           /\ Owner!HasRoom(m, 2) => Raw(m) # {} /\ \A o : Raw(m) \ {o} # {}
<1>1. IsFiniteSet(Raw(m)) /\ Cardinality(Raw(m)) \in Nat
      BY StoresAssumption, FS_Subset, FS_CardinalityType DEF Raw
<1>2. Owner!Cardinality(Raw(m)) = Cardinality(Raw(m))  BY DEF Owner!Cardinality, Cardinality
<1>3. \A n : Owner!HasRoom(m, n) = (Cardinality(Raw(m)) >= n)  BY <1>2 DEF Owner!HasRoom, Raw
<1>4. Cardinality({}) = 0  BY FS_EmptySet
<1>5. ASSUME NEW o, Raw(m) \ {o} = {}  PROVE Cardinality(Raw(m)) <= 1
  <2>1. Raw(m) \subseteq {o}  BY <1>5
  <2>2. IsFiniteSet({o}) /\ Cardinality({o}) = 1  BY FS_Singleton
  <2>. QED  BY <2>1, <2>2, FS_Subset
<1>6. Owner!HasRoom(m, 1) => Raw(m) # {}
  <2>. SUFFICES ASSUME Raw(m) = {} PROVE ~(Cardinality(Raw(m)) >= 1)  BY <1>3
  <2>1. Cardinality(Raw(m)) = 0  BY <1>4
  <2>. QED  BY <2>1
<1>7. Owner!HasRoom(m, 2) => Raw(m) # {} /\ \A o : Raw(m) \ {o} # {}
  <2>. SUFFICES ASSUME Cardinality(Raw(m)) >= 2 PROVE Raw(m) # {} /\ \A o : Raw(m) \ {o} # {}
       BY <1>3
  <2>1. Raw(m) # {}  BY <1>4
  <2>2. ASSUME NEW o PROVE Raw(m) \ {o} # {}
    <3>. SUFFICES ASSUME Raw(m) \ {o} = {} PROVE FALSE  OBVIOUS
    <3>1. Cardinality(Raw(m)) <= 1  BY <1>5
    <3>. QED  BY <1>1, <3>1
  <2>. QED  BY <2>1, <2>2
<1>. QED  BY <1>6, <1>7

LEMMA AnyInit == Owner!Init => AnyInv
<1>. SUFFICES ASSUME Owner!Init PROVE AnyInv  OBVIOUS
<1>. DEFINE ty == [o \in HeldObjects \cup {Owner!None} |-> "raw"]
            vt == [a \in Owner!Places |-> Owner!NoVtable]
            st == [a \in Owner!Places |-> Owner!None]
<1>1. anys = Memory(ty, vt, st)  BY DEF Owner!Init, Memory
<1>2. Owns(ty, vt, st)  BY DEF Owns
<1>. HIDE DEF ty, st
<1>3. Owned(anys) /\ anys.vtable = vt  BY <1>1, <1>2, OwnedMemory
<1>. QED  BY <1>3, SlotNames DEF AnyInv, Owner!Init

LEMMA AnyStep ==
    ASSUME AnyInv, [Owner!Next]_(Owner!vars)
    PROVE  AnyInv'
<1>1. CASE UNCHANGED Owner!vars
      BY <1>1 DEF Owner!vars, AnyInv, Owned, Owns
<1>2. CASE Owner!Next
  <2>1. PICK a \in Anys :
            \/ Owner!AssignValue(a) \/ Owner!AssignCopy(a) \/ Owner!AssignThrows(a)
            \/ Owner!AssignMove(a) \/ Owner!SwapWith(a) \/ Owner!ResetOne(a)
        BY <1>2 DEF Owner!Next
  <2>. DEFINE null == Owner!NoVtable
              param == Owner!Param
              temp == Owner!Temp
  <2>0. /\ Owned(anys) /\ anys.vtable[param] = null /\ anys.vtable[temp] = null
        /\ anys.vtable \in [Owner!Places -> HeldTypes \cup {null}]
        /\ held \in [Anys -> HeldTypes \cup {"empty"}]
        /\ \A c \in Anys : anys.vtable[c] = IF held[c] = "empty" THEN null ELSE held[c]
        BY DEF AnyInv, Owned, Owns
  <2>2. CASE Owner!AssignValue(a)
    <3>1. PICK t \in HeldTypes : /\ Owner!HasRoom(anys, 2)
                                 /\ anys' = Owner!AssignFrom(Owner!Holding(anys, param, t), a)
                                 /\ held' = [held EXCEPT ![a] = t]
          BY <2>2 DEF Owner!AssignValue, Owner!Means
    <3>. DEFINE m == Owner!Holding(anys, param, t)
    <3>2. Raw(anys) # {} /\ \A o : Raw(anys) \ {o} # {}  BY <3>1, RoomIsRaw
    <3>3. /\ Owned(m) /\ m.vtable = [anys.vtable EXCEPT ![param] = t]
          /\ Raw(m) = Raw(anys) \ {Owner!Fresh(anys)}
          BY <2>0, <3>2, SlotNames, HoldingOwns
    <3>. HIDE DEF m
    <3>4. m.vtable[temp] = null /\ Raw(m) # {}  BY <2>0, <3>2, <3>3, SlotNames
    <3>5. Owned(anys') /\ anys'.vtable = [m.vtable EXCEPT ![a] = m.vtable[param], ![param] = null]
          BY <3>1, <3>3, <3>4, AssignOwns DEF m
    <3>. QED  BY <2>0, <3>1, <3>3, <3>5, SlotNames, TypeNames, StoresAssumption DEF AnyInv
  <2>3. CASE Owner!AssignCopy(a)
    <3>1. PICK b \in Anys : /\ Owner!HasRoom(anys, 2)
                            /\ anys' = Owner!AssignFrom(Owner!CopyOf(anys, param, b), a)
                            /\ held' = [held EXCEPT ![a] = held[b]]
          BY <2>3 DEF Owner!AssignCopy, Owner!Means
    <3>. DEFINE m == Owner!CopyOf(anys, param, b)
                t == anys.vtable[b]
    <3>2. Raw(anys) # {} /\ \A o : Raw(anys) \ {o} # {}  BY <3>1, RoomIsRaw
    <3>3. Owned(m) /\ m.vtable = [anys.vtable EXCEPT ![param] = t] /\ Raw(m) # {}
      <4>1. CASE t = null
        <5>1. m = anys  BY <4>1 DEF Owner!CopyOf, Owner!HasValue
        <5>2. anys.vtable = [anys.vtable EXCEPT ![param] = t]  BY <2>0, <4>1
        <5>. QED  BY <2>0, <3>2, <5>1, <5>2
      <4>2. CASE t # null
        <5>1. t \in HeldTypes  BY <2>0, <4>2, SlotNames
        <5>2. m = Owner!Holding(anys, param, t)
              BY <4>2 DEF Owner!CopyOf, Owner!HasValue, Owner!Holding
        <5>. HIDE DEF m
        <5>. QED  BY <2>0, <3>2, <5>1, <5>2, SlotNames, HoldingOwns
      <4>. QED  BY <4>1, <4>2
    <3>. HIDE DEF m
    <3>4. m.vtable[temp] = null  BY <2>0, <3>3, SlotNames
    <3>5. Owned(anys') /\ anys'.vtable = [m.vtable EXCEPT ![a] = m.vtable[param], ![param] = null]
          BY <3>1, <3>3, <3>4, AssignOwns DEF m
    <3>. QED  BY <2>0, <3>1, <3>3, <3>5, SlotNames, TypeNames, StoresAssumption DEF AnyInv
  <2>4. CASE Owner!AssignThrows(a)
    <3>1. /\ Owner!HasRoom(anys, 1) /\ anys' = Owner!ConstructThrows(anys, param)
          /\ UNCHANGED held
          BY <2>4 DEF Owner!AssignThrows
    <3>2. Raw(anys) # {}  BY <3>1, RoomIsRaw
    <3>3. anys' = anys  BY <2>0, <3>1, <3>2, SlotNames, ThrowsOwns
    <3>. QED  BY <3>1, <3>3 DEF AnyInv, Owned, Owns
  <2>5. CASE Owner!AssignMove(a)
    <3>1. PICK b \in Anys :
              /\ Owner!HasRoom(anys, 1)
              /\ anys' = Owner!AssignFrom(Owner!Adopt(anys, param, b), a)
              /\ held' = [c \in Anys |-> IF c = a THEN held[b] ELSE IF c = b THEN "empty" ELSE held[c]]
          BY <2>5 DEF Owner!AssignMove
    <3>10. PICK m : m = Owner!Adopt(anys, param, b)  OBVIOUS
    <3>2. Raw(anys) # {}  BY <3>1, RoomIsRaw
    <3>3. /\ Owned(m) /\ Raw(m) # {}
          /\ m.vtable = [anys.vtable EXCEPT ![param] = anys.vtable[b], ![b] = null]
          BY <2>0, <3>2, <3>10, SlotNames, AdoptOwns
    <3>4. anys' = Owner!AssignFrom(m, a)  BY <3>1, <3>10
    <3>6. m.vtable[temp] = null  BY <2>0, <3>3, SlotNames
    <3>7. Owned(m) /\ Raw(m) # {}  BY <3>3
    <3>5. Owned(anys') /\ anys'.vtable = [m.vtable EXCEPT ![a] = m.vtable[param], ![param] = null]
          BY <3>4, <3>6, <3>7, AssignOwns
    <3>. QED  BY <2>0, <3>1, <3>3, <3>5, SlotNames, TypeNames, StoresAssumption DEF AnyInv
  <2>6. CASE Owner!SwapWith(a)
    <3>1. PICK b \in Anys : /\ Owner!HasRoom(anys, 1) /\ anys' = Owner!Swap(anys, a, b)
                            /\ held' = [held EXCEPT ![a] = held[b], ![b] = held[a]]
          BY <2>6 DEF Owner!SwapWith
    <3>2. Raw(anys) # {}  BY <3>1, RoomIsRaw
    <3>3. /\ Owned(anys')
          /\ anys'.vtable = [anys.vtable EXCEPT ![a] = anys.vtable[b], ![b] = anys.vtable[a]]
          BY <2>0, <3>1, <3>2, SlotNames, SwapOwns
    <3>. QED  BY <2>0, <3>1, <3>3, SlotNames, TypeNames, StoresAssumption DEF AnyInv
  <2>7. CASE Owner!ResetOne(a)
    <3>1. anys' = Owner!Reset(anys, a) /\ held' = [held EXCEPT ![a] = "empty"]
          BY <2>7 DEF Owner!ResetOne, Owner!Means
    <3>2. Owned(anys') /\ anys'.vtable = [anys.vtable EXCEPT ![a] = null]
          BY <2>0, <3>1, SlotNames, ResetOwns
    <3>. QED  BY <2>0, <3>1, <3>2, SlotNames, TypeNames, StoresAssumption DEF AnyInv
  <2>. QED  BY <2>1, <2>2, <2>3, <2>4, <2>5, <2>6, <2>7
<1>. QED  BY <1>1, <1>2

LEMMA AnyPromises == AnyInv => Owner!OwnedOnce
<1>. SUFFICES ASSUME AnyInv PROVE Owner!OwnedOnce  OBVIOUS
<1>. DEFINE ty == anys.type
            vt == anys.vtable
            st == anys.storage
<1>1. Owns(ty, vt, st) /\ anys.fault = FALSE  BY DEF AnyInv, Owned, Memory
<1>2. /\ vt[Owner!Param] = Owner!NoVtable /\ vt[Owner!Temp] = Owner!NoVtable
      /\ held \in [Anys -> HeldTypes \cup {"empty"}]
      /\ \A a \in Anys : vt[a] = IF held[a] = "empty" THEN Owner!NoVtable ELSE held[a]
      BY DEF AnyInv
<1>3. Owner!Places = Anys \cup {Owner!Param, Owner!Temp}  BY DEF Owner!Places
<1>4. \A a \in Anys, t \in HeldTypes :
          IF held[a] = t THEN Owner!AnyCast(a, t) # Owner!None /\ ty[Owner!AnyCast(a, t)] = t
          ELSE Owner!AnyCast(a, t) = Owner!None
      BY <1>1, <1>2, <1>3, TypeNames, StoresAssumption DEF Owner!AnyCast, Owner!Holds, Owner!HasValue, Owns
<1>5. {o \in HeldObjects : ty[o] # "raw"} = {st[a] : a \in Anys} \ {Owner!None}
  <2>1. \A a \in Anys : st[a] # Owner!None => st[a] \in HeldObjects /\ ty[st[a]] # "raw"
        BY <1>1, <1>3, TypeNames DEF Owns
  <2>2. \A o \in HeldObjects : ty[o] # "raw" => o # Owner!None /\ \E a \in Anys : st[a] = o
        BY <1>1, <1>2, <1>3, TypeNames DEF Owns
  <2>. QED  BY <2>1, <2>2
<1>6. \A a, b \in Anys : a # b /\ st[a] = st[b] => st[a] = Owner!None  BY <1>1, <1>3 DEF Owns
<1>. QED  BY <1>1, <1>2, <1>4, <1>5, <1>6 DEF Owner!OwnedOnce, Owner!HasValue

\* An any holds what it was last given, which no other any holds, whatever is assigned, swapped,
\* moved or reset, to itself too: any::operator=, swap(), adopt() and reset().
THEOREM OwnedOnceHolds == StoresSpec => []OwnedOnce
<1>1. StoresInit => AnyInv  BY AnyInit DEF StoresInit
<1>2. AnyInv /\ [StoresNext]_storesVars => AnyInv'  BY PartSteps, AnyStep
<1>3. AnyInv => OwnedOnce  BY AnyPromises DEF OwnedOnce
<1>. QED  BY <1>1, <1>2, <1>3, PTL DEF StoresSpec

-----------------------------------------------------------------------------
(* linked_map: the list and the index of each map agree, key by key and node by node.  What is *)
(* copied is appended item by item: how far it has come is a number, and the facts about every *)
(* number are those that hold of the first and of the next.                                    *)

\* A set with 0 that is closed under the next number has them all.
LEMMA NatSets ==
    ASSUME NEW S, 0 \in S, \A n \in Nat : n \in S => n + 1 \in S
    PROVE  Nat \subseteq S
<1>. DEFINE T == Nat \ S
            R == OpToRel(<, Nat)
<1>. SUFFICES ASSUME T # {} PROVE FALSE  OBVIOUS
<1>1. IsWellFoundedOn(R, Nat)  BY NatLessThanWellFounded
<1>2. T \subseteq Nat  OBVIOUS
<1>3. \E x \in T : \A y \in T : ~(<<y, x>> \in R)
  <2>. HIDE DEF R, T
  <2>. QED  BY <1>1, <1>2, WFMin
<1>4. PICK x \in T : \A y \in T : ~(<<y, x>> \in R)  BY <1>3
<1>5. \A y \in T : ~(y < x)  BY <1>4 DEF OpToRel
<1>. QED  BY <1>5

Item == (1..MaxNodes) \X Keys \X Values
ListKeys(l) == {l[i][2] : i \in 1..Len(l)}
ListNodes(l) == {l[i][1] : i \in 1..Len(l)}

\* A list and an index of the same pairs, but for the keys at the end: each key is there once and
\* each node, and the index has the node of the key.
Agrees(l, f, ends) ==
    /\ l \in Seq(Item)
    /\ \A i, j \in 1..Len(l) : l[i][1] = l[j][1] \/ l[i][2] = l[j][2] => i = j
    /\ DOMAIN f = ListKeys(l) \cup ends
    /\ \A i \in 1..Len(l) : f[l[i][2]] = l[i][1]
    /\ \A k \in ends : f[k] = 0

\* What insert() and erase() do to the list.
LEMMA InsertedItems ==
    ASSUME NEW l \in Seq(Item), NEW e \in Item, NEW p \in 1..(Len(l) + 1)
    PROVE  /\ Map!InsertAt(l, p, e) \in Seq(Item) /\ Len(Map!InsertAt(l, p, e)) = Len(l) + 1
           /\ \A i \in 1..(Len(l) + 1) :
                  Map!InsertAt(l, p, e)[i] = IF i < p THEN l[i] ELSE IF i = p THEN e ELSE l[i - 1]
<1>. DEFINE a == SubSeq(l, 1, p - 1)
            b == SubSeq(l, p, Len(l))
            c == a \o <<e>>
<1>1. /\ a \in Seq(Item) /\ Len(a) = p - 1 /\ \A i \in 1..(p - 1) : a[i] = l[i]
      /\ b \in Seq(Item) /\ Len(b) = Len(l) - p + 1 /\ \A i \in 1..(Len(l) - p + 1) : b[i] = l[p + i - 1]
  <2>1. \A i \in 1..(p - 1) : l[i] \in Item  OBVIOUS
  <2>2. \A i \in p..Len(l) : l[i] \in Item  OBVIOUS
  <2>3. a \in Seq(Item) /\ Len(a) = p - 1 /\ \A i \in 1..(p - 1) : a[i] = l[i]
        BY <2>1, SubSeqProperties
  <2>4. b \in Seq(Item) /\ Len(b) = Len(l) - p + 1 /\ \A i \in 1..(Len(l) - p + 1) : b[i] = l[p + i - 1]
        BY <2>2, SubSeqProperties
  <2>. HIDE DEF a, b
  <2>. QED  BY <2>3, <2>4
<1>2. <<e>> \in Seq(Item) /\ Len(<<e>>) = 1 /\ <<e>>[1] = e  OBVIOUS
<1>. HIDE DEF a, b
<1>3. c \in Seq(Item) /\ Len(c) = p /\ \A i \in 1..p : c[i] = IF i < p THEN l[i] ELSE e
  <2>. DEFINE d == <<e>>
  <2>1. d \in Seq(Item) /\ Len(d) = 1 /\ d[1] = e  OBVIOUS
  <2>. HIDE DEF d
  <2>2. /\ a \o d \in Seq(Item) /\ Len(a \o d) = Len(a) + Len(d)
        /\ \A i \in 1..(Len(a) + Len(d)) : (a \o d)[i] = IF i <= Len(a) THEN a[i] ELSE d[i - Len(a)]
        BY <1>1, <2>1, ConcatProperties
  <2>3. c = a \o d  BY DEF d
  <2>. HIDE DEF c
  <2>. QED  BY <1>1, <2>1, <2>2, <2>3
<1>. HIDE DEF c
<1>4. /\ c \o b \in Seq(Item) /\ Len(c \o b) = Len(c) + Len(b)
      /\ \A i \in 1..(Len(c) + Len(b)) : (c \o b)[i] = IF i <= Len(c) THEN c[i] ELSE b[i - Len(c)]
      BY <1>1, <1>3, ConcatProperties
<1>5. Map!InsertAt(l, p, e) = c \o b  BY DEF Map!InsertAt, a, b, c
<1>. QED  BY <1>1, <1>3, <1>4, <1>5

LEMMA RemainingItems ==
    ASSUME NEW l \in Seq(Item), NEW p \in 1..Len(l)
    PROVE  /\ Map!RemoveAt(l, p) \in Seq(Item) /\ Len(Map!RemoveAt(l, p)) = Len(l) - 1
           /\ \A i \in 1..(Len(l) - 1) :
                  Map!RemoveAt(l, p)[i] = IF i < p THEN l[i] ELSE l[i + 1]
<1>. DEFINE a == SubSeq(l, 1, p - 1)
            b == SubSeq(l, p + 1, Len(l))
<1>1. /\ a \in Seq(Item) /\ Len(a) = p - 1 /\ \A i \in 1..(p - 1) : a[i] = l[i]
      /\ b \in Seq(Item) /\ Len(b) = Len(l) - p /\ \A i \in 1..(Len(l) - p) : b[i] = l[p + i]
  <2>1. \A i \in 1..(p - 1) : l[i] \in Item  OBVIOUS
  <2>2. \A i \in (p + 1)..Len(l) : l[i] \in Item  OBVIOUS
  <2>3. a \in Seq(Item) /\ Len(a) = p - 1 /\ \A i \in 1..(p - 1) : a[i] = l[i]
        BY <2>1, SubSeqProperties
  <2>4. b \in Seq(Item) /\ Len(b) = Len(l) - p /\ \A i \in 1..(Len(l) - p) : b[i] = l[p + i]
        BY <2>2, SubSeqProperties
  <2>. HIDE DEF a, b
  <2>. QED  BY <2>3, <2>4
<1>. HIDE DEF a, b
<1>2. /\ a \o b \in Seq(Item) /\ Len(a \o b) = Len(a) + Len(b)
      /\ \A i \in 1..(Len(a) + Len(b)) : (a \o b)[i] = IF i <= Len(a) THEN a[i] ELSE b[i - Len(a)]
      BY <1>1, ConcatProperties
<1>3. Map!RemoveAt(l, p) = a \o b  BY DEF Map!RemoveAt, a, b
<1>. DEFINE c == a \o b
<1>4. \A i \in 1..(Len(l) - 1) : c[i] = IF i < p THEN l[i] ELSE l[i + 1]
  <2>1. \A i \in 1..(Len(l) - 1) : c[i] = IF i <= p - 1 THEN a[i] ELSE b[i - (p - 1)]  BY <1>1, <1>2
  <2>. HIDE DEF c
  <2>2. \A i \in 1..(Len(l) - 1) : i < p => c[i] = l[i]  BY <1>1, <2>1
  <2>3. \A i \in 1..(Len(l) - 1) : i >= p => c[i] = l[i + 1]
    <3>. SUFFICES ASSUME NEW i \in 1..(Len(l) - 1), i >= p PROVE c[i] = l[i + 1]  OBVIOUS
    <3>1. i - (p - 1) \in 1..(Len(l) - p) /\ p + (i - (p - 1)) = i + 1  BY <1>1
    <3>. QED  BY <1>1, <2>1, <3>1
  <2>. QED  BY <2>2, <2>3
<1>. HIDE DEF c
<1>5. c \in Seq(Item) /\ Len(c) = Len(l) - 1  BY <1>1, <1>2 DEF c
<1>6. Map!RemoveAt(l, p) = c  BY <1>3 DEF c
<1>. QED  BY <1>4, <1>5, <1>6

-----------------------------------------------------------------------------
\* A key is put into both, and taken out of both.
LEMMA InsertAgrees ==
    ASSUME NEW l, NEW f, NEW ends, Agrees(l, f, ends),
           NEW k \in Keys, k \notin DOMAIN f, NEW v \in Values,
           NEW n \in 1..MaxNodes, n \notin ListNodes(l), NEW p \in 1..(Len(l) + 1),
           NEW r, r = Map!InsertAt(l, p, <<n, k, v>>), NEW g, g = Map!WithKey(f, k, n)
    PROVE  /\ Agrees(r, g, ends)
           /\ ListNodes(r) = ListNodes(l) \cup {n} /\ ListKeys(r) = ListKeys(l) \cup {k}
<1>1. PICK e : e = <<n, k, v>> /\ e \in Item /\ e[1] = n /\ e[2] = k  BY DEF Item
<1>2. l \in Seq(Item) /\ Len(l) \in Nat  BY DEF Agrees
<1>3. /\ Map!InsertAt(l, p, e) \in Seq(Item) /\ Len(Map!InsertAt(l, p, e)) = Len(l) + 1
      /\ \A i \in 1..(Len(l) + 1) :
             Map!InsertAt(l, p, e)[i] = IF i < p THEN l[i] ELSE IF i = p THEN e ELSE l[i - 1]
      BY ONLY <1>1, <1>2, p \in 1..(Len(l) + 1), InsertedItems
<1>4. /\ r \in Seq(Item) /\ Len(r) = Len(l) + 1
      /\ \A i \in 1..(Len(l) + 1) : r[i] = IF i < p THEN l[i] ELSE IF i = p THEN e ELSE l[i - 1]
      BY <1>1, <1>3
<1>5. p \in 1..Len(r) /\ r[p] = e  BY ONLY <1>2, <1>4, p \in 1..(Len(l) + 1)
<1>6. \A i \in 1..Len(r) : i # p => r[i] = IF i < p THEN l[i] ELSE l[i - 1]  BY ONLY <1>4
\* Where the items of the one are in the other.
<1>. DEFINE Old == [i \in 1..Len(r) |-> IF i < p THEN i ELSE i - 1]
            New == [i \in 1..Len(l) |-> IF i < p THEN i ELSE i + 1]
<1>7. \A i \in 1..Len(r) : i # p => Old[i] \in 1..Len(l) /\ r[i] = l[Old[i]]
  <2>. SUFFICES ASSUME NEW i \in 1..Len(r), i # p
                PROVE  Old[i] \in 1..Len(l) /\ r[i] = l[Old[i]]
       OBVIOUS
  <2>1. CASE i < p  BY <2>1, <1>2, <1>4, <1>6
  <2>2. CASE i > p  BY <2>2, <1>2, <1>4, <1>6
  <2>. QED  BY <1>2, <2>1, <2>2
<1>8. \A i \in 1..Len(l) : New[i] \in 1..Len(r) /\ New[i] # p /\ r[New[i]] = l[i]
  <2>. SUFFICES ASSUME NEW i \in 1..Len(l)
                PROVE  New[i] \in 1..Len(r) /\ New[i] # p /\ r[New[i]] = l[i]
       OBVIOUS
  <2>1. CASE i < p
    <3>1. New[i] = i /\ i \in 1..Len(r) /\ i # p  BY <2>1, <1>2, <1>4
    <3>2. r[i] = l[i]  BY <2>1, <3>1, <1>6
    <3>. QED  BY <3>1, <3>2
  <2>2. CASE i >= p
    <3>1. New[i] = i + 1 /\ i + 1 \in 1..Len(r) /\ i + 1 # p  BY <2>2, <1>2, <1>4
    <3>2. r[i + 1] = l[(i + 1) - 1]  BY <2>2, <3>1, <1>6
    <3>. QED  BY <3>1, <3>2
  <2>. QED  BY <1>2, <2>1, <2>2
<1>9. \A i, j \in 1..Len(r) : i # p /\ j # p /\ Old[i] = Old[j] => i = j  BY <1>2, <1>4
<1>. HIDE DEF Old, New
<1>10. ListNodes(r) = ListNodes(l) \cup {n}
  <2>1. ASSUME NEW i \in 1..Len(r) PROVE r[i][1] \in ListNodes(l) \cup {n}
    <3>1. CASE i = p  BY <3>1, <1>1, <1>5
    <3>2. CASE i # p
      <4>1. PICK j \in 1..Len(l) : r[i] = l[j]  BY <3>2, <1>7
      <4>. QED  BY <4>1 DEF ListNodes
    <3>. QED  BY <3>1, <3>2
  <2>2. \A i \in 1..Len(l) : l[i][1] \in ListNodes(r)
    <3>. SUFFICES ASSUME NEW i \in 1..Len(l) PROVE l[i][1] \in ListNodes(r)  OBVIOUS
    <3>1. PICK j \in 1..Len(r) : r[j] = l[i]  BY <1>8
    <3>. QED  BY <3>1 DEF ListNodes
  <2>3. n \in ListNodes(r)  BY <1>1, <1>5 DEF ListNodes
  <2>4. \A x \in ListNodes(r) : x \in ListNodes(l) \cup {n}  BY <2>1 DEF ListNodes
  <2>5. \A x \in ListNodes(l) : x \in ListNodes(r)  BY <2>2 DEF ListNodes
  <2>. QED  BY <2>3, <2>4, <2>5
<1>11. ListKeys(r) = ListKeys(l) \cup {k}
  <2>1. ASSUME NEW i \in 1..Len(r) PROVE r[i][2] \in ListKeys(l) \cup {k}
    <3>1. CASE i = p  BY <3>1, <1>1, <1>5
    <3>2. CASE i # p
      <4>1. PICK j \in 1..Len(l) : r[i] = l[j]  BY <3>2, <1>7
      <4>. QED  BY <4>1 DEF ListKeys
    <3>. QED  BY <3>1, <3>2
  <2>2. \A i \in 1..Len(l) : l[i][2] \in ListKeys(r)
    <3>. SUFFICES ASSUME NEW i \in 1..Len(l) PROVE l[i][2] \in ListKeys(r)  OBVIOUS
    <3>1. PICK j \in 1..Len(r) : r[j] = l[i]  BY <1>8
    <3>. QED  BY <3>1 DEF ListKeys
  <2>3. k \in ListKeys(r)  BY <1>1, <1>5 DEF ListKeys
  <2>4. \A x \in ListKeys(r) : x \in ListKeys(l) \cup {k}  BY <2>1 DEF ListKeys
  <2>5. \A x \in ListKeys(l) : x \in ListKeys(r)  BY <2>2 DEF ListKeys
  <2>. QED  BY <2>3, <2>4, <2>5
<1>12. k \notin ListKeys(l) /\ k \notin ends  BY DEF Agrees
<1>13. \A i \in 1..Len(l) : l[i][1] # n /\ l[i][2] # k  BY <1>12 DEF ListNodes, ListKeys
<1>14. \A i, j \in 1..Len(r) : r[i][1] = r[j][1] \/ r[i][2] = r[j][2] => i = j
  <2>. SUFFICES ASSUME NEW i \in 1..Len(r), NEW j \in 1..Len(r), r[i][1] = r[j][1] \/ r[i][2] = r[j][2]
                PROVE  i = j
       OBVIOUS
  <2>1. CASE i # p /\ j # p
    <3>1. Old[i] \in 1..Len(l) /\ Old[j] \in 1..Len(l) /\ r[i] = l[Old[i]] /\ r[j] = l[Old[j]]
          BY <2>1, <1>7
    <3>2. Old[i] = Old[j]  BY <3>1 DEF Agrees
    <3>. QED  BY <2>1, <3>2, <1>9
  <2>2. ASSUME NEW x \in 1..Len(r), x # p PROVE r[x][1] # n /\ r[x][2] # k  BY <2>2, <1>7, <1>13
  <2>3. CASE i = p \/ j = p  BY <2>2, <2>3, <1>1, <1>5
  <2>. QED  BY <2>1, <2>3
<1>15. DOMAIN g = ListKeys(r) \cup ends  BY <1>11 DEF Map!WithKey, Agrees
<1>16. \A i \in 1..Len(r) : g[r[i][2]] = r[i][1]
  <2>1. g[k] = n /\ \A j \in DOMAIN f : j # k => g[j] = f[j]  BY DEF Map!WithKey
  <2>2. \A i \in 1..Len(l) : g[l[i][2]] = l[i][1]  BY <2>1, <1>13 DEF Agrees, ListKeys
  <2>3. ASSUME NEW i \in 1..Len(r) PROVE g[r[i][2]] = r[i][1]
    <3>1. CASE i = p  BY <3>1, <1>1, <1>5, <2>1
    <3>2. CASE i # p
      <4>1. PICK j \in 1..Len(l) : r[i] = l[j]  BY <3>2, <1>7
      <4>. QED  BY <4>1, <2>2
    <3>. QED  BY <3>1, <3>2
  <2>. QED  BY <2>3
<1>17. \A j \in ends : g[j] = 0  BY <1>12 DEF Map!WithKey, Agrees
<1>. QED  BY <1>4, <1>10, <1>11, <1>14, <1>15, <1>16, <1>17 DEF Agrees

LEMMA RemoveAgrees ==
    ASSUME NEW l, NEW f, NEW ends, Agrees(l, f, ends), NEW k \in DOMAIN f, k \notin ends,
           NEW r, r = Map!RemoveAt(l, Map!Position(l, f[k])), NEW g, g = Map!WithoutKey(f, k)
    PROVE  Agrees(r, g, ends) /\ ListNodes(r) \subseteq ListNodes(l)
<1>1. l \in Seq(Item) /\ Len(l) \in Nat  BY DEF Agrees
<1>2. PICK q \in 1..Len(l) : l[q][2] = k /\ l[q][1] = f[k]  BY DEF Agrees, ListKeys
<1>3. PICK p : p = Map!Position(l, f[k])  OBVIOUS
<1>4. p \in 1..Len(l) /\ l[p][1] = f[k]  BY <1>2, <1>3 DEF Map!Position, Map!Node
<1>5. l[p][2] = k  BY <1>2, <1>4 DEF Agrees
<1>6. /\ r \in Seq(Item) /\ Len(r) = Len(l) - 1
      /\ \A i \in 1..(Len(l) - 1) : r[i] = IF i < p THEN l[i] ELSE l[i + 1]
      BY <1>1, <1>3, <1>4, RemainingItems
<1>. DEFINE Old == [i \in 1..Len(r) |-> IF i < p THEN i ELSE i + 1]
            New == [i \in 1..Len(l) |-> IF i < p THEN i ELSE i - 1]
<1>7. \A i \in 1..Len(r) : Old[i] \in 1..Len(l) /\ Old[i] # p /\ r[i] = l[Old[i]]  BY <1>1, <1>4, <1>6
<1>8. \A i \in 1..Len(l) : i # p => New[i] \in 1..Len(r) /\ r[New[i]] = l[i]  BY <1>1, <1>4, <1>6
<1>9. \A i, j \in 1..Len(r) : Old[i] = Old[j] => i = j  BY <1>1, <1>4, <1>6
<1>. HIDE DEF Old, New
<1>10. ListNodes(r) \subseteq ListNodes(l)  BY <1>7 DEF ListNodes
<1>11. \A i \in 1..Len(l) : l[i][2] = k => i = p  BY <1>4, <1>5 DEF Agrees
<1>12. ListKeys(r) = ListKeys(l) \ {k}
  <2>1. \A x \in ListKeys(r) : x \in ListKeys(l) /\ x # k  BY <1>7, <1>11 DEF ListKeys
  <2>2. \A x \in ListKeys(l) : x # k => x \in ListKeys(r)  BY <1>5, <1>8 DEF ListKeys
  <2>. QED  BY <2>1, <2>2
<1>13. \A i, j \in 1..Len(r) : r[i][1] = r[j][1] \/ r[i][2] = r[j][2] => i = j
  <2>1. \A i, j \in 1..Len(l) : l[i][1] = l[j][1] \/ l[i][2] = l[j][2] => i = j  BY DEF Agrees
  <2>2. SUFFICES ASSUME NEW i \in 1..Len(r), NEW j \in 1..Len(r),
                        r[i][1] = r[j][1] \/ r[i][2] = r[j][2]
                 PROVE  i = j
        OBVIOUS
  <2>3. /\ Old[i] \in 1..Len(l) /\ r[i] = l[Old[i]]
        /\ Old[j] \in 1..Len(l) /\ r[j] = l[Old[j]]
        BY <1>7
  <2>4. Old[i] = Old[j]  BY <2>1, <2>2, <2>3, Zenon
  <2>. QED  BY <1>9, <2>4
<1>14. DOMAIN g = ListKeys(r) \cup ends  BY <1>12 DEF Map!WithoutKey, Agrees
<1>15. \A j \in DOMAIN g : g[j] = f[j]  BY DEF Map!WithoutKey
<1>16. \A i \in 1..Len(r) : g[r[i][2]] = r[i][1]
  <2>1. \A i \in 1..Len(r) : r[i][2] \in DOMAIN g  BY <1>14 DEF ListKeys
  <2>2. \A i \in 1..Len(l) : f[l[i][2]] = l[i][1]  BY DEF Agrees
  <2>. QED  BY <1>7, <1>15, <2>1, <2>2
<1>17. \A j \in ends : g[j] = 0  BY <1>14, <1>15 DEF Agrees
<1>. QED  BY <1>6, <1>10, <1>13, <1>14, <1>16, <1>17 DEF Agrees

LEMMA CopyAgrees ==
    ASSUME NEW l, NEW f, NEW ends, Agrees(l, f, ends),
           NEW nodes \in [1..Len(l) -> 1..MaxNodes],
           \A i, j \in 1..Len(l) : nodes[i] = nodes[j] => i = j
    PROVE  \E c : /\ c = Map!AppendAll(Map!Empty, l, nodes)
                  /\ Agrees(c.list, c.index, {})
                  /\ ListNodes(c.list) \subseteq {nodes[i] : i \in 1..Len(l)}
<1>. DEFINE Last == Len(l)
            Step(c, i) == Map!InsertImpl(c[i - 1], Len(c[i - 1].list) + 1, nodes[i],
                                         Map!Key(l[i]), l[i][3])
            Copied(c, n) == c = [i \in 0..n |-> IF i = 0 THEN Map!Empty ELSE Step(c, i)]
            S == {n \in Nat : n <= Last => \E c : Copied(c, n)}
<1>. HIDE DEF Copied
<1>1. l \in Seq(Item) /\ Last \in Nat  BY DEF Agrees
<1>2. Nat \subseteq S
  <2>1. 0 \in S
    <3>1. Copied([i \in 0..0 |-> Map!Empty], 0)  BY DEF Copied
    <3>. QED  BY <3>1
  <2>2. ASSUME NEW n \in Nat, n \in S PROVE n + 1 \in S
    <3>. SUFFICES ASSUME n + 1 <= Last PROVE \E d : Copied(d, n + 1)  OBVIOUS
    <3>1. PICK c : Copied(c, n)  BY <1>1, <2>2
    <3>. DEFINE d == [i \in 0..(n + 1) |-> IF i = n + 1 THEN Step(c, n + 1) ELSE c[i]]
    <3>. HIDE DEF Step
    <3>2. \A i \in 0..n : d[i] = c[i]  OBVIOUS
    <3>3. \A i \in 0..(n + 1) : d[i] = IF i = 0 THEN Map!Empty ELSE Step(d, i)
      <4>. SUFFICES ASSUME NEW i \in 0..(n + 1)
                    PROVE  d[i] = IF i = 0 THEN Map!Empty ELSE Step(d, i)
           OBVIOUS
      <4>1. CASE i = n + 1
        <5>1. d[n] = c[n]  BY <3>2
        <5>2. d[i] = Step(c, n + 1)  BY <4>1
        <5>3. i - 1 = n  BY <4>1
        <5>. QED  BY <4>1, <5>1, <5>2, <5>3 DEF Step
      <4>2. CASE i \in 1..n
        <5>1. d[i - 1] = c[i - 1] /\ d[i] = c[i]  BY <4>2, <3>2
        <5>2. i \in 0..n /\ i # 0  BY <4>2
        <5>3. c[i] = IF i = 0 THEN Map!Empty ELSE Step(c, i)  BY ONLY <5>2, <3>1 DEF Copied
        <5>. QED  BY <5>1, <5>2, <5>3 DEF Step
      <4>3. CASE i = 0  BY <4>3, <3>1, <3>2 DEF Copied
      <4>. QED  BY <4>1, <4>2, <4>3
    <3>4. Copied(d, n + 1)  BY <3>3 DEF Copied
    <3>. QED  BY <3>4
  <2>. HIDE DEF S
  <2>. QED  BY <2>1, <2>2, NatSets
<1>3. PICK c : c = CHOOSE x : Copied(x, Last)  OBVIOUS
<1>4. Copied(c, Last)
  <2>1. \E x : Copied(x, Last)  BY <1>1, <1>2
  <2>. QED  BY <1>3, <2>1
<1>5. Map!AppendAll(Map!Empty, l, nodes) = c[Last]  BY <1>3 DEF Map!AppendAll, Copied
<1>. DEFINE Good(n) == /\ Agrees(c[n].list, c[n].index, {})
                       /\ ListNodes(c[n].list) = {nodes[i] : i \in 1..n}
                       /\ ListKeys(c[n].list) = {l[i][2] : i \in 1..n}
            T == {n \in Nat : n <= Last => Good(n)}
<1>6. Nat \subseteq T
  <2>1. 0 \in T
    <3>1. c[0] = Map!Empty  BY <1>1, <1>4 DEF Copied
    <3>2. c[0].list = <<>> /\ c[0].index = <<>>  BY <3>1 DEF Map!Empty
    <3>3. Agrees(<<>>, <<>>, {})  BY DEF Agrees, ListKeys
    <3>. QED  BY <3>2, <3>3 DEF ListNodes, ListKeys
  <2>2. ASSUME NEW n \in Nat, n \in T PROVE n + 1 \in T
    <3>. SUFFICES ASSUME n + 1 <= Last PROVE Good(n + 1)  OBVIOUS
    <3>1. Good(n)  BY <1>1, <2>2
    <3>2. PICK sofar : sofar = c[n]  OBVIOUS
    <3>3. PICK item : item = l[n + 1] /\ item \in Item  BY <1>1
    <3>4. PICK k, v, node : k = item[2] /\ v = item[3] /\ node = nodes[n + 1]  OBVIOUS
    <3>5. k \in Keys /\ v \in Values /\ node \in 1..MaxNodes  BY <1>1, <3>3, <3>4 DEF Item
    <3>6. c[n + 1] = Map!InsertImpl(sofar, Len(sofar.list) + 1, node, k, v)
      <4>1. n + 1 \in 0..Last /\ n + 1 # 0 /\ (n + 1) - 1 = n  BY <1>1
      <4>2. c[n + 1] = Step(c, n + 1)  BY <1>4, <4>1 DEF Copied
      <4>. QED  BY <4>1, <4>2, <3>2, <3>3, <3>4 DEF Map!Key
    <3>7. k \notin DOMAIN sofar.index /\ node \notin ListNodes(sofar.list)
      <4>1. \A i \in 1..n : l[i][2] # k /\ nodes[i] # node  BY <1>1, <3>3, <3>4 DEF Agrees
      <4>. QED  BY <3>1, <3>2, <4>1 DEF Agrees
    <3>. DEFINE r == Map!InsertAt(sofar.list, Len(sofar.list) + 1, <<node, k, v>>)
                g == Map!WithKey(sofar.index, k, node)
    <3>8. c[n + 1].list = r /\ c[n + 1].index = g  BY <3>6, <3>7 DEF Map!InsertImpl
    <3>9. Len(sofar.list) + 1 \in 1..(Len(sofar.list) + 1)  BY <3>1, <3>2 DEF Agrees
    <3>10. Agrees(sofar.list, sofar.index, {})  BY <3>1, <3>2
    <3>11. /\ Agrees(r, g, {})
           /\ ListNodes(r) = ListNodes(sofar.list) \cup {node}
           /\ ListKeys(r) = ListKeys(sofar.list) \cup {k}
           BY <3>5, <3>7, <3>9, <3>10, InsertAgrees
    <3>. HIDE DEF r, g
    <3>12. {nodes[i] : i \in 1..(n + 1)} = {nodes[i] : i \in 1..n} \cup {node}  BY <3>4
    <3>13. {l[i][2] : i \in 1..(n + 1)} = {l[i][2] : i \in 1..n} \cup {k}  BY <3>3, <3>4
    <3>. QED  BY <3>1, <3>2, <3>8, <3>11, <3>12, <3>13
  <2>. HIDE DEF T
  <2>. QED  BY <2>1, <2>2, NatSets
<1>7. Good(Last)
  <2>. HIDE DEF Good
  <2>. QED  BY <1>1, <1>6
<1>. QED  BY <1>5, <1>7
-----------------------------------------------------------------------------
\* What a map has been told and what it has done agree, and no node is in two maps.
MapInv ==
    /\ list = [m \in Maps |-> list[m]] /\ index = [m \in Maps |-> index[m]]
    /\ torn = [m \in Maps |-> torn[m]]
    /\ \A m \in Maps : Agrees(list[m], index[m], torn[m])
    /\ \A m, o \in Maps : m # o => ListNodes(list[m]) \cap ListNodes(list[o]) = {}

LEMMA NodesAreNodes == \A l : Map!NodesOf(l) = ListNodes(l)
BY DEF Map!NodesOf, Map!Node, ListNodes

LEMMA FreshNodes ==
    ASSUME NEW n \in Nat, Map!Allocations(n) # {}
    PROVE  /\ Map!Allocated(n) \in [1..n -> 1..MaxNodes]
           /\ \A i, j \in 1..n : Map!Allocated(n)[i] = Map!Allocated(n)[j] => i = j
           /\ \A i \in 1..n, m \in Maps : Map!Allocated(n)[i] \notin ListNodes(list[m])
<1>1. Map!Allocated(n) \in Map!Allocations(n)  BY DEF Map!Allocated
<1>2. PICK nodes : nodes = Map!Allocated(n)  OBVIOUS
<1>3. nodes \in [1..n -> (1..MaxNodes) \ Map!Used] /\ \A i, j \in 1..n : nodes[i] = nodes[j] => i = j
      BY <1>1, <1>2 DEF Map!Allocations
<1>4. \A m \in Maps : ListNodes(list[m]) \subseteq Map!Used  BY NodesAreNodes DEF Map!Used
<1>. QED  BY <1>2, <1>3, <1>4

LEMMA OneMapChanges ==
    ASSUME MapInv, NEW m \in Maps, NEW l, NEW f, NEW ends, Agrees(l, f, ends),
           \A o \in Maps \ {m} : ListNodes(l) \cap ListNodes(list[o]) = {},
           list' = [list EXCEPT ![m] = l], index' = [index EXCEPT ![m] = f],
           torn' = [torn EXCEPT ![m] = ends]
    PROVE  MapInv'
<1>1. /\ list'[m] = l /\ index'[m] = f /\ torn'[m] = ends
      /\ \A o \in Maps \ {m} : list'[o] = list[o] /\ index'[o] = index[o] /\ torn'[o] = torn[o]
      BY DEF MapInv
<1>2. /\ list' = [x \in Maps |-> list'[x]] /\ index' = [x \in Maps |-> index'[x]]
      /\ torn' = [x \in Maps |-> torn'[x]]
      BY DEF MapInv
<1>3. \A o \in Maps : Agrees(list'[o], index'[o], torn'[o])  BY <1>1 DEF MapInv
<1>4. \A a, b \in Maps : a # b => ListNodes(list'[a]) \cap ListNodes(list'[b]) = {}
      BY <1>1 DEF MapInv
<1>. QED  BY <1>2, <1>3, <1>4 DEF MapInv

LEMMA MapsTradePlaces ==
    ASSUME MapInv, NEW m \in Maps, NEW o \in Maps, m # o,
           NEW l \in {<<>>, list[m]}, NEW f, NEW ends, Agrees(l, f, ends),
           list' = [list EXCEPT ![m] = list[o], ![o] = l],
           index' = [index EXCEPT ![m] = index[o], ![o] = f],
           torn' = [torn EXCEPT ![m] = torn[o], ![o] = ends]
    PROVE  MapInv'
<1>1. /\ list'[m] = list[o] /\ index'[m] = index[o] /\ torn'[m] = torn[o]
      /\ list'[o] = l /\ index'[o] = f /\ torn'[o] = ends
      /\ \A x \in Maps \ {m, o} : list'[x] = list[x] /\ index'[x] = index[x] /\ torn'[x] = torn[x]
      BY DEF MapInv
<1>2. /\ list' = [x \in Maps |-> list'[x]] /\ index' = [x \in Maps |-> index'[x]]
      /\ torn' = [x \in Maps |-> torn'[x]]
      BY DEF MapInv
<1>3. \A x \in Maps : Agrees(list'[x], index'[x], torn'[x])  BY <1>1 DEF MapInv
<1>4. ListNodes(l) \subseteq ListNodes(list[m])  BY DEF ListNodes
<1>5. \A a, b \in Maps : a # b => ListNodes(list[a]) \cap ListNodes(list[b]) = {}  BY DEF MapInv
<1>6. \A a, b \in Maps : a # b => ListNodes(list'[a]) \cap ListNodes(list'[b]) = {}
  <2>. SUFFICES ASSUME NEW a \in Maps, NEW b \in Maps, a # b
                PROVE  ListNodes(list'[a]) \cap ListNodes(list'[b]) = {}
       OBVIOUS
  <2>. DEFINE was(x) == IF x = m THEN o ELSE IF x = o THEN m ELSE x
  <2>1. \A x \in Maps : was(x) \in Maps /\ ListNodes(list'[x]) \subseteq ListNodes(list[was(x)])
        BY <1>1, <1>4
  <2>2. was(a) # was(b)  OBVIOUS
  <2>. HIDE DEF was
  <2>. QED  BY <1>5, <2>1, <2>2
<1>. QED  BY <1>2, <1>3, <1>6 DEF MapInv

LEMMA EmptyAgrees == Agrees(<<>>, <<>>, {})
BY DEF Agrees, ListKeys

-----------------------------------------------------------------------------
LEMMA MapBegins == Map!Init => MapInv
<1>. SUFFICES ASSUME Map!Init PROVE MapInv  OBVIOUS
<1>1. \A m \in Maps : list[m] = <<>> /\ index[m] = <<>> /\ torn[m] = {}  BY DEF Map!Init
<1>2. \A m \in Maps : Agrees(list[m], index[m], torn[m])  BY <1>1, EmptyAgrees
<1>3. \A m, o \in Maps : m # o => ListNodes(list[m]) \cap ListNodes(list[o]) = {}
      BY <1>1 DEF ListNodes
<1>4. /\ list = [m \in Maps |-> list[m]] /\ index = [m \in Maps |-> index[m]]
      /\ torn = [m \in Maps |-> torn[m]]
      BY DEF Map!Init
<1>. QED  BY <1>2, <1>3, <1>4 DEF MapInv

LEMMA MapSteps == MapInv /\ [Map!Next]_Map!vars => MapInv'
<1>. SUFFICES ASSUME MapInv, [Map!Next]_Map!vars PROVE MapInv'  OBVIOUS
<1>1. CASE UNCHANGED Map!vars
  <2>1. list' = list /\ index' = index /\ torn' = torn  BY <1>1 DEF Map!vars
  <2>. QED  BY <2>1 DEF MapInv
<1>2. ASSUME NEW m \in Maps, Map!Insert(m) PROVE MapInv'
  <2>1. PICK k \in Keys, v \in Values, place \in 1..(Len(list[m]) + 1) :
          /\ k \notin torn[m] /\ Map!Allocations(1) # {}
          /\ Map!Update(m, Map!InsertImpl(Map!Of(m), place, Map!Allocated(1)[1], k, v))
          /\ UNCHANGED torn
        BY <1>2 DEF Map!Insert
  <2>2. PICK n : n = Map!Allocated(1)[1]  OBVIOUS
  <2>3. n \in 1..MaxNodes /\ \A o \in Maps : n \notin ListNodes(list[o])
        BY <2>1, <2>2, FreshNodes
  <2>4. Agrees(list[m], index[m], torn[m])  BY DEF MapInv
  <2>5. torn' = [torn EXCEPT ![m] = torn[m]]  BY <2>1 DEF MapInv
  <2>6. CASE k \in DOMAIN index[m]
    <3>1. list' = [list EXCEPT ![m] = list[m]] /\ index' = [index EXCEPT ![m] = index[m]]
          BY <2>1, <2>6 DEF Map!Update, Map!InsertImpl, Map!Of
    <3>. QED  BY <3>1, <2>5 DEF MapInv
  <2>7. CASE k \notin DOMAIN index[m]
    <3>1. PICK l, f : l = Map!InsertAt(list[m], place, <<n, k, v>>) /\ f = Map!WithKey(index[m], k, n)
          OBVIOUS
    <3>2. list' = [list EXCEPT ![m] = l] /\ index' = [index EXCEPT ![m] = f]
          BY <2>1, <2>2, <2>7, <3>1 DEF Map!Update, Map!InsertImpl, Map!Of
    <3>3. Agrees(l, f, torn[m]) /\ ListNodes(l) = ListNodes(list[m]) \cup {n}
          BY <2>1, <2>3, <2>4, <2>7, <3>1, InsertAgrees
    <3>4. \A o \in Maps \ {m} : ListNodes(l) \cap ListNodes(list[o]) = {}
          BY <2>3, <3>3 DEF MapInv
    <3>. QED  BY <2>5, <3>2, <3>3, <3>4, OneMapChanges
  <2>. QED  BY <2>6, <2>7
<1>3. ASSUME NEW m \in Maps, Map!InsertThrows(m) PROVE MapInv'
  <2>1. PICK k \in Keys \ DOMAIN index[m] :
          /\ Map!Update(m, [list |-> list[m], index |-> Map!WithKey(index[m], k, Map!End)])
          /\ torn' = [torn EXCEPT ![m] = @ \cup {k}]
        BY <1>3 DEF Map!InsertThrows
  <2>2. PICK f : f = Map!WithKey(index[m], k, 0)  OBVIOUS
  <2>3. /\ list' = [list EXCEPT ![m] = list[m]] /\ index' = [index EXCEPT ![m] = f]
        /\ torn' = [torn EXCEPT ![m] = torn[m] \cup {k}]
        BY <2>1, <2>2 DEF Map!Update, Map!End
  <2>4. Agrees(list[m], index[m], torn[m])  BY DEF MapInv
  <2>5. Agrees(list[m], f, torn[m] \cup {k})
    <3>1. f[k] = 0 /\ DOMAIN f = DOMAIN index[m] \cup {k} /\ \A j \in DOMAIN index[m] : f[j] = index[m][j]
          BY <2>1, <2>2 DEF Map!WithKey
    <3>2. \A i \in 1..Len(list[m]) : list[m][i][2] \in DOMAIN index[m]  BY <2>4 DEF Agrees, ListKeys
    <3>. QED  BY <2>4, <3>1, <3>2 DEF Agrees
  <2>6. \A o \in Maps \ {m} : ListNodes(list[m]) \cap ListNodes(list[o]) = {}  BY DEF MapInv
  <2>. QED  BY <2>3, <2>5, <2>6, OneMapChanges
<1>4. ASSUME NEW m \in Maps, Map!RemoveOne(m) PROVE MapInv'
  <2>1. PICK k \in Keys \ torn[m] : Map!Update(m, Map!RemoveKey(Map!Of(m), k)) /\ UNCHANGED torn
        BY <1>4 DEF Map!RemoveOne
  <2>2. torn' = [torn EXCEPT ![m] = torn[m]]  BY <2>1 DEF MapInv
  <2>3. Agrees(list[m], index[m], torn[m])  BY DEF MapInv
  <2>4. CASE k \notin DOMAIN index[m]
    <3>1. list' = [list EXCEPT ![m] = list[m]] /\ index' = [index EXCEPT ![m] = index[m]]
          BY <2>1, <2>4 DEF Map!Update, Map!RemoveKey, Map!Of
    <3>. QED  BY <3>1, <2>2 DEF MapInv
  <2>5. CASE k \in DOMAIN index[m]
    <3>1. PICK l, f : /\ l = Map!RemoveAt(list[m], Map!Position(list[m], index[m][k]))
                      /\ f = Map!WithoutKey(index[m], k)
          OBVIOUS
    <3>2. list' = [list EXCEPT ![m] = l] /\ index' = [index EXCEPT ![m] = f]
          BY <2>1, <2>5, <3>1 DEF Map!Update, Map!RemoveKey, Map!Of
    <3>3. Agrees(l, f, torn[m]) /\ ListNodes(l) \subseteq ListNodes(list[m])
          BY <2>1, <2>3, <2>5, <3>1, RemoveAgrees
    <3>4. \A o \in Maps \ {m} : ListNodes(l) \cap ListNodes(list[o]) = {}  BY <3>3 DEF MapInv
    <3>. QED  BY <2>2, <3>2, <3>3, <3>4, OneMapChanges
  <2>. QED  BY <2>4, <2>5
<1>5. ASSUME NEW m \in Maps, Map!Clear(m) PROVE MapInv'
  <2>1. /\ list' = [list EXCEPT ![m] = <<>>] /\ index' = [index EXCEPT ![m] = <<>>]
        /\ torn' = [torn EXCEPT ![m] = {}]
        BY <1>5 DEF Map!Clear, Map!Update, Map!Empty
  <2>2. \A o \in Maps \ {m} : ListNodes(<<>>) \cap ListNodes(list[o]) = {}  BY DEF ListNodes
  <2>. QED  BY <2>1, <2>2, EmptyAgrees, OneMapChanges
<1>6. ASSUME NEW m \in Maps, Map!CopyAssign(m) PROVE MapInv'
  <2>1. PICK other \in Maps \ {m} :
          /\ Map!Allocations(Len(list[other])) # {}
          /\ Map!Update(m, Map!AppendAll(Map!Empty, list[other], Map!Allocated(Len(list[other]))))
          /\ torn' = [torn EXCEPT ![m] = {}]
        BY <1>6 DEF Map!CopyAssign
  <2>2. PICK l, nodes : l = list[other] /\ nodes = Map!Allocated(Len(l))  OBVIOUS
  <2>3. Agrees(l, index[other], torn[other]) /\ Len(l) \in Nat  BY <2>2 DEF MapInv, Agrees
  <2>4. /\ nodes \in [1..Len(l) -> 1..MaxNodes]
        /\ \A i, j \in 1..Len(l) : nodes[i] = nodes[j] => i = j
        /\ \A i \in 1..Len(l), o \in Maps : nodes[i] \notin ListNodes(list[o])
        BY <2>1, <2>2, <2>3, FreshNodes
  <2>5. PICK c : /\ c = Map!AppendAll(Map!Empty, l, nodes)
                 /\ Agrees(c.list, c.index, {})
                 /\ ListNodes(c.list) \subseteq {nodes[i] : i \in 1..Len(l)}
        BY <2>3, <2>4, CopyAgrees, ZenonT(60)
  <2>6. list' = [list EXCEPT ![m] = c.list] /\ index' = [index EXCEPT ![m] = c.index]
        BY <2>1, <2>2, <2>5 DEF Map!Update
  <2>7. \A o \in Maps \ {m} : ListNodes(c.list) \cap ListNodes(list[o]) = {}  BY <2>4, <2>5
  <2>. QED  BY <2>1, <2>5, <2>6, <2>7, OneMapChanges
<1>7. ASSUME NEW m \in Maps, Map!MoveAssign(m) PROVE MapInv'
  <2>1. PICK o \in Maps \ {m} :
          /\ list' = [list EXCEPT ![m] = list[o], ![o] = <<>>]
          /\ index' = [index EXCEPT ![m] = index[o], ![o] = <<>>]
          /\ torn' = [torn EXCEPT ![m] = torn[o], ![o] = {}]
        BY <1>7 DEF Map!MoveAssign
  <2>2. m # o /\ <<>> \in {<<>>, list[m]}  BY <2>1
  <2>. QED  BY <2>1, <2>2, EmptyAgrees, MapsTradePlaces
<1>8. ASSUME NEW m \in Maps, Map!Swap(m) PROVE MapInv'
  <2>1. PICK o \in Maps \ {m} :
          /\ list' = [list EXCEPT ![m] = list[o], ![o] = list[m]]
          /\ index' = [index EXCEPT ![m] = index[o], ![o] = index[m]]
          /\ torn' = [torn EXCEPT ![m] = torn[o], ![o] = torn[m]]
        BY <1>8 DEF Map!Swap
  <2>2. m # o /\ list[m] \in {<<>>, list[m]} /\ Agrees(list[m], index[m], torn[m])  BY <2>1 DEF MapInv
  <2>. QED  BY <2>1, <2>2, MapsTradePlaces
<1>. QED  BY <1>1, <1>2, <1>3, <1>4, <1>5, <1>6, <1>7, <1>8 DEF Map!Next

LEMMA MapAgrees == MapInv => Map!IndexIsTheList
<1>. SUFFICES ASSUME MapInv, NEW m \in Maps
              PROVE  /\ DOMAIN index[m] = {Map!Key(list[m][i]) : i \in 1..Len(list[m])} \cup torn[m]
                     /\ \A i \in 1..Len(list[m]) :
                            index[m][Map!Key(list[m][i])] = Map!Node(list[m][i])
                     /\ \A k \in torn[m] : index[m][k] = Map!End
                     /\ \A other \in Maps \ {m} :
                            Map!NodesOf(list[m]) \cap Map!NodesOf(list[other]) = {}
     BY DEF Map!IndexIsTheList
<1>1. Agrees(list[m], index[m], torn[m])  BY DEF MapInv
<1>2. DOMAIN index[m] = {Map!Key(list[m][i]) : i \in 1..Len(list[m])} \cup torn[m]
      BY <1>1 DEF Agrees, ListKeys, Map!Key
<1>3. \A i \in 1..Len(list[m]) : index[m][Map!Key(list[m][i])] = Map!Node(list[m][i])
      BY <1>1 DEF Agrees, Map!Key, Map!Node
<1>4. \A k \in torn[m] : index[m][k] = Map!End  BY <1>1 DEF Agrees, Map!End
<1>5. \A other \in Maps \ {m} : Map!NodesOf(list[m]) \cap Map!NodesOf(list[other]) = {}
      BY NodesAreNodes DEF MapInv
<1>. QED  BY <1>2, <1>3, <1>4, <1>5

\* find() and contains() of a linked_map speak of the pairs that its iterators show, and no node
\* is in two maps, whatever is inserted, erased, copied, moved and swapped, and although a key
\* whose insertion threw stays in the index (linkedmap.h).
THEOREM IndexIsTheListHolds == StoresSpec => []IndexIsTheList
<1>1. StoresInit => MapInv  BY MapBegins DEF StoresInit
<1>2. MapInv /\ [StoresNext]_storesVars => MapInv'  BY PartSteps, MapSteps
<1>3. MapInv => IndexIsTheList  BY MapAgrees DEF IndexIsTheList
<1>. QED  BY <1>1, <1>2, <1>3, PTL DEF StoresSpec

-----------------------------------------------------------------------------
(* VLArray: the invariant, and what each operation makes of it. *)

Buffers == Array!Arrays \cup HeapBuffers
Cell == Elements \cup {Array!Raw, Array!Moved}
Rows == [Array!Cells -> Cell]
Arrayed == [at : Buffers, size : Nat, capacity : Nat]
ArrayMemory ==
    [cells : [Buffers -> Rows], heap : SUBSET HeapBuffers, arr : [Array!Arrays -> Arrayed],
     fault : BOOLEAN]

LEMMA CellNumbers == \A i \in Array!Cells : i \in Nat /\ 0 <= i
BY ArrayAssumption DEF Array!ArrayAssumption, Array!Cells

\* A row with some of its cells from another.
Span(f, g, from, to) == [i \in Array!Cells |-> IF from <= i /\ i < to THEN f[i] ELSE g[i]]

LEMMA RowMembers ==
    /\ Array!AllRaw \in Rows /\ \A i \in Array!Cells : Array!AllRaw[i] = Array!Raw
    /\ \A f, g \in Rows, from, to \in Nat : Span(f, g, from, to) \in Rows
BY DEF Array!AllRaw, Rows, Cell, Span

\* The same arrays in the same places.
SameArrays(n, m) == n \in ArrayMemory /\ n.heap = m.heap /\ n.arr = m.arr

\* What the construction of an element, and of some in a row, and their destruction have done.
BuiltOne(n, m, b, i, v) ==
    /\ SameArrays(n, m) /\ n.cells = [m.cells EXCEPT ![b] = [m.cells[b] EXCEPT ![i] = v]]
    /\ m.fault = FALSE /\ m.cells[b][i] = Array!Raw /\ v # Array!Raw => n.fault = FALSE
Built(n, m, b, from, to, values) ==
    /\ SameArrays(n, m) /\ n.cells = [m.cells EXCEPT ![b] = Span(values, m.cells[b], from, to)]
    /\ m.fault = FALSE /\ (\A i \in from..(to - 1) : m.cells[b][i] = Array!Raw /\ values[i] # Array!Raw)
       => n.fault = FALSE
Wrecked(n, m, b, from, to) ==
    /\ SameArrays(n, m) /\ n.cells = [m.cells EXCEPT ![b] = Span(Array!AllRaw, m.cells[b], from, to)]
    /\ m.fault = FALSE /\ (\A i \in from..(to - 1) : m.cells[b][i] # Array!Raw) => n.fault = FALSE

\* construct_at() and destroy() (vlarray.h) touch one row of cells, and no array.
LEMMA ConstructFields ==
    ASSUME NEW m \in ArrayMemory, NEW b \in Buffers, NEW i \in Array!Cells, NEW v \in Cell
    PROVE  BuiltOne(Array!Construct(m, b, i, v), m, b, i, v)
BY DEF BuiltOne, SameArrays, Array!Construct, ArrayMemory, Rows

\* What a change of the cells and of the fault leaves.
Overlaid(m, c, f) == [m EXCEPT !.cells = c, !.fault = f]

LEMMA CellsSet ==
    ASSUME NEW m \in ArrayMemory, NEW c \in [Buffers -> Rows], NEW f \in BOOLEAN
    PROVE  /\ Overlaid(m, c, f) \in ArrayMemory
           /\ Overlaid(m, c, f).heap = m.heap /\ Overlaid(m, c, f).arr = m.arr
           /\ Overlaid(m, c, f).cells = c /\ Overlaid(m, c, f).fault = f
<1>. DEFINE n == Overlaid(m, c, f)
<1>1. PICK k, h, x, g : m = [cells |-> k, heap |-> h, arr |-> x, fault |-> g]  BY DEF ArrayMemory
<1>2. m.heap \in SUBSET HeapBuffers /\ m.arr \in [Array!Arrays -> Arrayed]  BY DEF ArrayMemory
<1>3. n = [cells |-> c, heap |-> h, arr |-> x, fault |-> f]
  <2>. DEFINE l == [m EXCEPT !.cells = c]
  <2>1. n = [l EXCEPT !.fault = f]  BY DEF Overlaid
  <2>2. l = [cells |-> c, heap |-> h, arr |-> x, fault |-> g]  BY <1>1
  <2>. HIDE DEF l
  <2>. QED  BY <2>1, <2>2
<1>4. m.heap = h /\ m.arr = x  BY <1>1
<1>. QED  BY <1>2, <1>3, <1>4 DEF ArrayMemory

LEMMA RowSet ==
    ASSUME NEW m \in ArrayMemory, NEW b \in Buffers, NEW row \in Rows
    PROVE  [m.cells EXCEPT ![b] = row] \in [Buffers -> Rows]
<1>1. m.cells \in [Buffers -> Rows]  BY DEF ArrayMemory
<1>. QED  BY <1>1

LEMMA ConstructRangeFields ==
    ASSUME NEW m \in ArrayMemory, NEW b \in Buffers, NEW from \in Nat, NEW to \in Nat, NEW values \in Rows
    PROVE  Built(Array!ConstructRange(m, b, from, to, values), m, b, from, to, values)
<1>. DEFINE n == Array!ConstructRange(m, b, from, to, values)
<1>. DEFINE row == Span(values, m.cells[b], from, to)
            f == m.fault \/ \E i \in from..(to - 1) : m.cells[b][i] # Array!Raw \/ values[i] = Array!Raw
<1>1. row \in Rows  BY RowMembers DEF ArrayMemory
<1>2. f \in BOOLEAN  BY DEF ArrayMemory
<1>3. n = [m EXCEPT !.cells[b] = row, !.fault = f]  BY DEF Array!ConstructRange, Span
<1>4. m.fault = FALSE /\ (\A i \in from..(to - 1) : m.cells[b][i] = Array!Raw /\ values[i] # Array!Raw) => f = FALSE
      OBVIOUS
<1>. HIDE DEF row, f, n
<1>5. /\ n \in ArrayMemory /\ n.heap = m.heap /\ n.arr = m.arr
      /\ n.cells = [m.cells EXCEPT ![b] = row] /\ (f = FALSE => n.fault = FALSE)
  <2>1. [m.cells EXCEPT ![b] = row] \in [Buffers -> Rows]  BY <1>1, RowSet
  <2>2. n = Overlaid(m, [m.cells EXCEPT ![b] = row], f)  BY <1>3 DEF Overlaid
  <2>. QED  BY <1>2, <2>1, <2>2, CellsSet
<1>. QED  BY <1>4, <1>5 DEF n, row, Built, SameArrays

LEMMA DestroyFields ==
    ASSUME NEW m \in ArrayMemory, NEW b \in Buffers, NEW from \in Nat, NEW to \in Nat
    PROVE  Wrecked(Array!DestroyRange(m, b, from, to), m, b, from, to)
<1>. DEFINE n == Array!DestroyRange(m, b, from, to)
<1>. DEFINE row == Span(Array!AllRaw, m.cells[b], from, to)
            f == m.fault \/ \E i \in from..(to - 1) : m.cells[b][i] = Array!Raw
<1>1. row \in Rows  BY RowMembers DEF ArrayMemory
<1>2. f \in BOOLEAN  BY DEF ArrayMemory
<1>3. n = [m EXCEPT !.cells[b] = row, !.fault = f]
  <2>1. row = [i \in Array!Cells |-> IF from <= i /\ i < to THEN Array!Raw ELSE m.cells[b][i]]
        BY RowMembers DEF Span
  <2>. QED  BY <2>1 DEF Array!DestroyRange
<1>4. m.fault = FALSE /\ (\A i \in from..(to - 1) : m.cells[b][i] # Array!Raw) => f = FALSE
      OBVIOUS
<1>. HIDE DEF row, f, n
<1>5. /\ n \in ArrayMemory /\ n.heap = m.heap /\ n.arr = m.arr
      /\ n.cells = [m.cells EXCEPT ![b] = row] /\ (f = FALSE => n.fault = FALSE)
  <2>1. [m.cells EXCEPT ![b] = row] \in [Buffers -> Rows]  BY <1>1, RowSet
  <2>2. n = Overlaid(m, [m.cells EXCEPT ![b] = row], f)  BY <1>3 DEF Overlaid
  <2>. QED  BY <1>2, <2>1, <2>2, CellsSet
<1>. QED  BY <1>4, <1>5 DEF n, row, Wrecked, SameArrays

\* What is left by a change of nothing but a size.
HasSize(n, m, x, k) ==
    /\ n \in ArrayMemory /\ n.heap = m.heap /\ n.cells = m.cells /\ n.fault = m.fault
    /\ \A y \in Array!Arrays : /\ Array!At(n, y) = Array!At(m, y)
                               /\ Array!Capacity(n, y) = Array!Capacity(m, y)
                               /\ Array!Size(n, y) = IF y = x THEN k ELSE Array!Size(m, y)

LEMMA SetSizeFields ==
    ASSUME NEW m \in ArrayMemory, NEW x \in Array!Arrays, NEW k \in Nat
    PROVE  HasSize(Array!SetSize(m, x, k), m, x, k)
BY DEF HasSize, Array!SetSize, ArrayMemory, Arrayed, Array!At, Array!Capacity, Array!Size

\* What relocate_to() has done.
Relocated(n, m, x, b) ==
    /\ SameArrays(n, m)
    /\ n.cells = [m.cells EXCEPT
           ![b] = Span(m.cells[Array!At(m, x)], m.cells[b], 0, Array!Size(m, x)),
           ![Array!At(m, x)] = Span(Array!AllRaw, m.cells[Array!At(m, x)], 0, Array!Size(m, x))]
    /\ m.fault = FALSE /\ (\A i \in 0..(Array!Size(m, x) - 1) :
                               m.cells[Array!At(m, x)][i] # Array!Raw /\ m.cells[b][i] = Array!Raw)
       => n.fault = FALSE

LEMMA RelocateFields ==
    ASSUME NEW m \in ArrayMemory, NEW x \in Array!Arrays, NEW b \in HeapBuffers, b # Array!At(m, x)
    PROVE  Relocated(Array!RelocateTo(m, x, b), m, x, b)
<1>. DEFINE n == Array!RelocateTo(m, x, b)
<1>. DEFINE old == Array!At(m, x)
            size == Array!Size(m, x)
            new == Span(m.cells[old], m.cells[b], 0, size)
            left == Span(Array!AllRaw, m.cells[old], 0, size)
            f == m.fault \/ \E i \in 0..(size - 1) : m.cells[old][i] = Array!Raw \/ m.cells[b][i] # Array!Raw
            c == [m.cells EXCEPT ![b] = new, ![old] = left]
<1>1. old \in Buffers /\ b \in Buffers /\ size \in Nat  BY DEF ArrayMemory, Arrayed, Array!At, Array!Size, Buffers
<1>2. new \in Rows /\ left \in Rows /\ f \in BOOLEAN  BY <1>1, RowMembers DEF ArrayMemory
<1>3. n = [m EXCEPT !.cells = c, !.fault = f]
  <2>1. /\ new = [i \in Array!Cells |-> IF i < size THEN m.cells[old][i] ELSE m.cells[b][i]]
        /\ left = [i \in Array!Cells |-> IF i < size THEN Array!Raw ELSE m.cells[old][i]]
        BY RowMembers, <1>1 DEF Span, Array!Cells
  <2>. QED  BY <2>1 DEF Array!RelocateTo
<1>4. m.fault = FALSE /\ (\A i \in 0..(size - 1) : m.cells[old][i] # Array!Raw /\ m.cells[b][i] = Array!Raw) => f = FALSE
      OBVIOUS
<1>. HIDE DEF new, left, f, old, size, n
<1>5. /\ n \in ArrayMemory /\ n.heap = m.heap /\ n.arr = m.arr /\ n.cells = c /\ (f = FALSE => n.fault = FALSE)
  <2>1. c \in [Buffers -> Rows]
    <3>1. m.cells \in [Buffers -> Rows]  BY DEF ArrayMemory
    <3>. QED  BY <1>1, <1>2, <3>1
  <2>2. n = Overlaid(m, c, f)  BY <1>3 DEF Overlaid
  <2>. HIDE DEF c
  <2>. QED  BY <1>2, <2>1, <2>2, CellsSet
<1>. QED  BY <1>4, <1>5 DEF n, new, left, old, size, SameArrays, Relocated

\* grow(): the array is now in the other buffer, and the heap knows it.
LEMMA MoveIntoFields ==
    ASSUME NEW m \in ArrayMemory, NEW x \in Array!Arrays, NEW b \in HeapBuffers, NEW c \in Nat,
           b # Array!At(m, x), NEW n, n = Array!MoveInto(m, x, b, c)
    PROVE  /\ n \in ArrayMemory /\ n.heap = (m.heap \ {Array!At(m, x)}) \cup {b}
           /\ n.cells = Array!RelocateTo(m, x, b).cells /\ n.fault = Array!RelocateTo(m, x, b).fault
           /\ \A y \in Array!Arrays : /\ Array!At(n, y) = IF y = x THEN b ELSE Array!At(m, y)
                                      /\ Array!Capacity(n, y) = IF y = x THEN c ELSE Array!Capacity(m, y)
                                      /\ Array!Size(n, y) = Array!Size(m, y)
<1>0. PICK r : r = Array!RelocateTo(m, x, b)  OBVIOUS
<1>1. r \in ArrayMemory /\ r.heap = m.heap /\ r.arr = m.arr  BY <1>0, RelocateFields DEF SameArrays, Relocated
<1>2. n = [r EXCEPT !.heap = (@ \ {Array!At(m, x)}) \cup {b}, !.arr[x].at = b, !.arr[x].capacity = c]
      BY <1>0 DEF Array!MoveInto
<1>. DEFINE a == [r.arr EXCEPT ![x] = [at |-> b, size |-> @.size, capacity |-> c]]
            h == (r.heap \ {Array!At(m, x)}) \cup {b}
<1>3. a \in [Array!Arrays -> Arrayed] /\ h \in SUBSET HeapBuffers  BY <1>1 DEF ArrayMemory, Arrayed, Buffers
<1>4. n = [r EXCEPT !.heap = h, !.arr = a]
  <2>1. r.arr[x] \in Arrayed  BY <1>1 DEF ArrayMemory
  <2>2. [r.arr EXCEPT ![x].at = b, ![x].capacity = c] = a  BY <1>1, <2>1 DEF ArrayMemory, Arrayed
  <2>3. n = [r EXCEPT !.heap = h, !.arr = [r.arr EXCEPT ![x].at = b, ![x].capacity = c]]
     BY <1>1, <1>2 DEF ArrayMemory
  <2>. QED BY <2>2, <2>3
<1>5. \A y \in Array!Arrays : /\ a[y].at = IF y = x THEN b ELSE Array!At(m, y)
                              /\ a[y].capacity = IF y = x THEN c ELSE Array!Capacity(m, y)
                              /\ a[y].size = Array!Size(m, y)
      BY <1>1 DEF ArrayMemory, Array!At, Array!Size, Array!Capacity
<1>. HIDE DEF a
<1>6. n \in ArrayMemory /\ n.heap = h /\ n.cells = r.cells /\ n.fault = r.fault /\ n.arr = a
      BY <1>1, <1>3, <1>4 DEF ArrayMemory
<1>. QED  BY <1>0, <1>1, <1>5, <1>6 DEF Array!At, Array!Size, Array!Capacity

-----------------------------------------------------------------------------
\* What the constants are, as far as these proofs care.
LEMMA ArrayNames ==
    /\ Array!Cells \subseteq Nat /\ (\A i \in Nat : i < MaxSize => i \in Array!Cells)
    /\ MaxSize \in Nat /\ MinHeapCapacity \in Nat
    /\ Array!Raw \notin Elements /\ Array!Moved \notin Elements /\ Array!Raw # Array!Moved
    /\ Array!Arrays \cap HeapBuffers = {}
    /\ \A x \in Array!Arrays : Inline[x] \in Nat
BY ArrayAssumption DEF Array!ArrayAssumption, Array!Arrays, Array!Cells, Array!Raw, Array!Moved

LEMMA OtherArray ==
    ASSUME NEW x \in Array!Arrays
    PROVE  /\ Array!Other(x) \in Array!Arrays /\ Array!Other(x) # x
           /\ Array!Arrays = {x, Array!Other(x)}
<1>1. PICK y, z \in Array!Arrays : y # z /\ Array!Arrays = {y, z}
      BY ArrayAssumption DEF Array!ArrayAssumption, Array!Arrays
<1>2. \E w \in Array!Arrays : w # x  BY <1>1
<1>3. Array!Other(x) \in Array!Arrays /\ Array!Other(x) # x  BY <1>2 DEF Array!Other
<1>. QED  BY <1>1, <1>3

\* The cells of an array of these elements.
Row(q) == [i \in Array!Cells |-> IF i < Len(q) THEN q[i + 1] ELSE Array!Raw]

\* A cell of such a row.
LEMMA RowCells ==
    ASSUME NEW q \in Seq(Elements), Len(q) <= MaxSize
    PROVE  /\ Row(q) \in Rows
           /\ \A i \in Array!Cells : Row(q)[i] = IF i < Len(q) THEN q[i + 1] ELSE Array!Raw
           /\ \A i \in Nat : i < Len(q) => /\ i \in Array!Cells /\ Row(q)[i] = q[i + 1]
                                           /\ q[i + 1] \in Elements /\ q[i + 1] # Array!Raw
<1>1. \A i \in Nat : i < Len(q) => q[i + 1] \in Elements  OBVIOUS
<1>2. \A i \in Nat : i < Len(q) => i \in Array!Cells  BY ArrayNames
<1>. QED  BY <1>1, <1>2, ArrayNames DEF Row, Rows, Cell

LEMMA EmptyRow == Row(<<>>) = Array!AllRaw
<1>1. \A i \in Array!Cells : ~(i < 0)  BY ArrayNames
<1>. QED  BY <1>1 DEF Row, Array!AllRaw

\* The arrays hold these elements, each in a buffer of its own that nobody else has, and there is
\* nothing in any other buffer.
Kept(m, q) ==
    /\ m \in ArrayMemory /\ m.fault = FALSE /\ q \in [Array!Arrays -> Seq(Elements)]
    /\ \A b \in HeapBuffers : b \in m.heap <=> \E x \in Array!Arrays : Array!At(m, x) = b
    /\ \A x, y \in Array!Arrays : x # y => Array!At(m, x) # Array!At(m, y)
    /\ \A x \in Array!Arrays : Array!At(m, x) \in HeapBuffers \cup {x}
    /\ \A x \in Array!Arrays :
           /\ Len(q[x]) = Array!Size(m, x) /\ Array!Size(m, x) <= Array!Capacity(m, x)
           /\ Array!Size(m, x) <= MaxSize /\ m.cells[Array!At(m, x)] = Row(q[x])
    /\ \A b \in Buffers : (\A x \in Array!Arrays : Array!At(m, x) # b) => m.cells[b] = Array!AllRaw

\* What Kept says of one array.
LEMMA KeptTypes ==
    ASSUME NEW m, NEW q, Kept(m, q), NEW x \in Array!Arrays
    PROVE  /\ Array!At(m, x) \in Buffers /\ Array!Size(m, x) \in Nat /\ Array!Capacity(m, x) \in Nat
           /\ Len(q[x]) = Array!Size(m, x)
           /\ q[x] \in Seq(Elements) /\ Len(q[x]) <= MaxSize
           /\ m.cells[Array!At(m, x)] = Row(q[x])
           /\ m.cells[Array!At(m, x)] \in Rows
BY DEF Kept, ArrayMemory, Arrayed, Array!At, Array!Size, Array!Capacity

\* The same places, sizes but for one.
Resized(n, m, x, k) ==
    /\ n \in ArrayMemory /\ n.heap = m.heap /\ n.fault = FALSE
    /\ \A y \in Array!Arrays : /\ Array!At(n, y) = Array!At(m, y)
                               /\ Array!Capacity(n, y) = Array!Capacity(m, y)
                               /\ Array!Size(n, y) = IF y = x THEN k ELSE Array!Size(m, y)

\* Where nothing but the elements of one array changed.
LEMMA InPlaceKept ==
    ASSUME NEW m, NEW q, Kept(m, q), NEW x \in Array!Arrays,
           NEW r \in Seq(Elements), Len(r) <= MaxSize, Len(r) <= Array!Capacity(m, x),
           NEW n, Resized(n, m, x, Len(r)), n.cells = [m.cells EXCEPT ![Array!At(m, x)] = Row(r)]
    PROVE  Kept(n, [q EXCEPT ![x] = r])
<1>. DEFINE p == [q EXCEPT ![x] = r]
            old == Array!At(m, x)
<1>1. /\ n \in ArrayMemory /\ n.fault = FALSE /\ n.heap = m.heap
      /\ p \in [Array!Arrays -> Seq(Elements)]
      BY DEF Resized, Kept
<1>2. \A b \in HeapBuffers : b \in n.heap <=> \E y \in Array!Arrays : Array!At(n, y) = b
      BY DEF Resized, Kept
<1>3. /\ \A y, z \in Array!Arrays : y # z => Array!At(n, y) # Array!At(n, z)
      /\ \A y \in Array!Arrays : Array!At(n, y) \in HeapBuffers \cup {y}
      BY DEF Resized, Kept
<1>4. old \in Buffers /\ m.cells \in [Buffers -> Rows]  BY KeptTypes DEF Kept, ArrayMemory
<1>5. ASSUME NEW y \in Array!Arrays
      PROVE  /\ Len(p[y]) = Array!Size(n, y) /\ Array!Size(n, y) <= Array!Capacity(n, y)
             /\ Array!Size(n, y) <= MaxSize
             /\ n.cells[Array!At(n, y)] = Row(p[y])
  <2>1. CASE y = x
    <3>1. p[y] = r  BY <2>1 DEF Kept
    <3>2. n.cells[Array!At(n, y)] = Row(r)  BY <1>4, <2>1 DEF Resized
    <3>. QED  BY <2>1, <3>1, <3>2 DEF Resized
  <2>2. CASE y # x
    <3>1. p[y] = q[y]  BY <2>2 DEF Kept
    <3>2. n.cells[Array!At(n, y)] = m.cells[Array!At(m, y)]
          BY <1>4, <2>2, KeptTypes DEF Resized, Kept
    <3>. QED  BY <2>2, <3>1, <3>2 DEF Resized, Kept
  <2>. QED  BY <2>1, <2>2
<1>6. ASSUME NEW b \in Buffers, \A y \in Array!Arrays : Array!At(n, y) # b
      PROVE  n.cells[b] = Array!AllRaw
  <2>1. \A y \in Array!Arrays : Array!At(m, y) # b  BY <1>6 DEF Resized
  <2>2. n.cells[b] = m.cells[b]  BY <1>4, <2>1
  <2>. QED  BY <2>1, <2>2 DEF Kept
<1>. HIDE DEF p
<1>. QED  BY <1>1, <1>2, <1>3, <1>5, <1>6 DEF Kept, p

\* The array has moved into a buffer that nobody had.
Rehoused(n, m, x, b, c, k) ==
    /\ n \in ArrayMemory /\ n.heap = (m.heap \ {Array!At(m, x)}) \cup {b} /\ n.fault = FALSE
    /\ \A y \in Array!Arrays : /\ Array!At(n, y) = IF y = x THEN b ELSE Array!At(m, y)
                               /\ Array!Capacity(n, y) = IF y = x THEN c ELSE Array!Capacity(m, y)
                               /\ Array!Size(n, y) = IF y = x THEN k ELSE Array!Size(m, y)

\* Where one array went to another buffer with what it now has.
LEMMA RehousedKept ==
    ASSUME NEW m, NEW q, Kept(m, q), NEW x \in Array!Arrays,
           NEW b \in HeapBuffers, b \notin m.heap, NEW c \in Nat,
           NEW r \in Seq(Elements), Len(r) <= MaxSize, Len(r) <= c,
           NEW n, Rehoused(n, m, x, b, c, Len(r)),
           n.cells = [m.cells EXCEPT ![b] = Row(r), ![Array!At(m, x)] = Array!AllRaw]
    PROVE  Kept(n, [q EXCEPT ![x] = r])
<1>. DEFINE p == [q EXCEPT ![x] = r]
            old == Array!At(m, x)
<1>0. \A y \in Array!Arrays : Array!At(m, y) # b  BY DEF Kept
<1>1. /\ n \in ArrayMemory /\ n.fault = FALSE /\ n.heap = (m.heap \ {old}) \cup {b}
      /\ p \in [Array!Arrays -> Seq(Elements)]
      BY DEF Rehoused, Kept
<1>2. ASSUME NEW d \in HeapBuffers
      PROVE  d \in n.heap <=> \E y \in Array!Arrays : Array!At(n, y) = d
  <2>1. CASE d = b  BY <1>1, <2>1 DEF Rehoused
  <2>2. CASE d # b
    <3>1. d \in n.heap <=> d \in m.heap /\ d # old  BY <1>1, <2>2
    <3>2. d \in m.heap <=> \E y \in Array!Arrays : Array!At(m, y) = d  BY DEF Kept
    <3>3. \A y \in Array!Arrays : Array!At(n, y) = d <=> y # x /\ Array!At(m, y) = d
          BY <2>2 DEF Rehoused
    <3>4. \A y \in Array!Arrays : y # x => Array!At(m, y) # old  BY DEF Kept
    <3>. QED  BY <3>1, <3>2, <3>3, <3>4
  <2>. QED  BY <2>1, <2>2
<1>3. /\ \A y, z \in Array!Arrays : y # z => Array!At(n, y) # Array!At(n, z)
      /\ \A y \in Array!Arrays : Array!At(n, y) \in HeapBuffers \cup {y}
      BY <1>0 DEF Rehoused, Kept
<1>4. old \in Buffers /\ b \in Buffers /\ b # old /\ m.cells \in [Buffers -> Rows]
      BY <1>0, KeptTypes DEF Kept, ArrayMemory, Buffers
<1>5. ASSUME NEW y \in Array!Arrays
      PROVE  /\ Len(p[y]) = Array!Size(n, y) /\ Array!Size(n, y) <= Array!Capacity(n, y)
             /\ Array!Size(n, y) <= MaxSize
             /\ n.cells[Array!At(n, y)] = Row(p[y])
  <2>1. CASE y = x
    <3>1. p[y] = r  BY <2>1 DEF Kept
    <3>2. n.cells[Array!At(n, y)] = Row(r)  BY <1>4, <2>1 DEF Rehoused
    <3>. QED  BY <2>1, <3>1, <3>2 DEF Rehoused
  <2>2. CASE y # x
    <3>1. p[y] = q[y]  BY <2>2 DEF Kept
    <3>2. Array!At(m, y) # b /\ Array!At(m, y) # old  BY <1>0, <2>2 DEF Kept
    <3>3. n.cells[Array!At(n, y)] = m.cells[Array!At(m, y)]
          BY <1>4, <2>2, <3>2, KeptTypes DEF Rehoused
    <3>. QED  BY <2>2, <3>1, <3>3 DEF Rehoused, Kept
  <2>. QED  BY <2>1, <2>2
<1>6. ASSUME NEW d \in Buffers, \A y \in Array!Arrays : Array!At(n, y) # d
      PROVE  n.cells[d] = Array!AllRaw
  <2>1. CASE d = old  BY <1>4, <2>1
  <2>2. CASE d # old
    <3>1. d # b  BY <1>6 DEF Rehoused
    <3>2. \A y \in Array!Arrays : Array!At(m, y) # d  BY <1>6, <2>2 DEF Rehoused
    <3>3. n.cells[d] = m.cells[d]  BY <1>4, <2>2, <3>1
    <3>. QED  BY <3>2, <3>3 DEF Kept
  <2>. QED  BY <2>1, <2>2
<1>. HIDE DEF p
<1>. QED  BY <1>1, <1>2, <1>3, <1>5, <1>6 DEF Kept, p

\* There are three buffers on the heap, and two arrays.
LEMMA FreshBuffer ==
    ASSUME NEW m, NEW q, Kept(m, q)
    PROVE  Array!Fresh(m) \in HeapBuffers /\ Array!Fresh(m) \notin m.heap
<1>1. PICK b, c, d \in HeapBuffers : b # c /\ b # d /\ c # d
      BY ArrayAssumption DEF Array!ArrayAssumption
<1>2. PICK x, y \in Array!Arrays : Array!Arrays = {x, y}
      BY ArrayAssumption DEF Array!ArrayAssumption, Array!Arrays
<1>3. \A e \in HeapBuffers : e \in m.heap => e = Array!At(m, x) \/ e = Array!At(m, y)
      BY <1>2 DEF Kept
<1>4. \E e \in HeapBuffers : e \notin m.heap  BY <1>1, <1>3
<1>. QED  BY <1>4 DEF Array!Fresh

\* What grow() has done, when the new buffer held these cells.
Grown(n, m, q, x, b, c, tail) ==
    /\ Rehoused(n, m, x, b, c, Array!Size(m, x))
    /\ n.cells = [m.cells EXCEPT ![b] = Span(Row(q[x]), tail, 0, Len(q[x])),
                                 ![Array!At(m, x)] = Array!AllRaw]

\* The array moves into a buffer in which there is nothing yet where its elements go.
LEMMA MoveIntoKept ==
    ASSUME NEW m, NEW q, Kept(m, q), NEW x \in Array!Arrays,
           NEW b \in HeapBuffers, b \notin m.heap, NEW c \in Nat,
           NEW tail \in Rows, \A i \in Array!Cells : i < Array!Size(m, x) => tail[i] = Array!Raw,
           NEW k, SameArrays(k, m), k.fault = FALSE, k.cells = [m.cells EXCEPT ![b] = tail],
           NEW n, n = Array!MoveInto(k, x, b, c)
    PROVE  Grown(n, m, q, x, b, c, tail)
<1>. DEFINE old == Array!At(m, x)
            size == Array!Size(m, x)
            new == Span(k.cells[Array!At(k, x)], k.cells[b], 0, Array!Size(k, x))
            left == Span(Array!AllRaw, k.cells[Array!At(k, x)], 0, Array!Size(k, x))
<1>1. /\ m \in ArrayMemory /\ m.cells \in [Buffers -> Rows] /\ old \in Buffers /\ size \in Nat
      /\ q[x] \in Seq(Elements) /\ size = Len(q[x]) /\ size <= MaxSize
      /\ m.cells[old] = Row(q[x])
      BY KeptTypes DEF Kept, ArrayMemory
<1>2. b \in Buffers /\ b # old  BY DEF Kept, Buffers
<1>3. /\ Array!At(k, x) = old /\ Array!Size(k, x) = size /\ k \in ArrayMemory
      /\ \A y \in Array!Arrays : /\ Array!At(k, y) = Array!At(m, y) /\ Array!Size(k, y) = Array!Size(m, y)
                                 /\ Array!Capacity(k, y) = Array!Capacity(m, y)
      BY DEF SameArrays, Array!At, Array!Size, Array!Capacity
<1>4. k.cells[old] = Row(q[x]) /\ k.cells[b] = tail  BY <1>1, <1>2
<1>5. PICK r : r = Array!RelocateTo(k, x, b)  OBVIOUS
<1>51. Relocated(r, k, x, b)  BY <1>2, <1>3, <1>5, RelocateFields
<1>6. r.cells = [k.cells EXCEPT ![b] = new, ![Array!At(k, x)] = left]
      BY <1>51 DEF Relocated
<1>7. r.fault = FALSE
  <2>1. ASSUME NEW i \in 0..(Array!Size(k, x) - 1)
        PROVE  k.cells[Array!At(k, x)][i] # Array!Raw /\ k.cells[b][i] = Array!Raw
    <3>1. i \in Nat /\ i < Len(q[x])  BY <1>1, <1>3
    <3>2. i \in Array!Cells /\ Row(q[x])[i] # Array!Raw  BY <1>1, <3>1, RowCells
    <3>. QED  BY <1>1, <1>3, <1>4, <3>1, <3>2
  <2>. QED  BY <1>51, <2>1 DEF Relocated
<1>8. new = Span(Row(q[x]), tail, 0, Len(q[x]))
      BY <1>1, <1>3, <1>4
<1>9. left = Array!AllRaw
  <2>1. \A i \in Array!Cells : ~(i < size) => Row(q[x])[i] = Array!Raw  BY <1>1, RowCells
  <2>. QED  BY <1>1, <1>3, <1>4, <2>1, CellNumbers DEF Array!AllRaw, Span
<1>. HIDE DEF new, left
<1>10. /\ n \in ArrayMemory /\ n.heap = (k.heap \ {old}) \cup {b}
       /\ n.cells = r.cells /\ n.fault = r.fault
       /\ \A y \in Array!Arrays : /\ Array!At(n, y) = IF y = x THEN b ELSE Array!At(k, y)
                                  /\ Array!Capacity(n, y) = IF y = x THEN c ELSE Array!Capacity(k, y)
                                  /\ Array!Size(n, y) = Array!Size(k, y)
       BY <1>2, <1>3, <1>5, MoveIntoFields
<1>11. Rehoused(n, m, x, b, c, size)  BY <1>3, <1>7, <1>10 DEF Rehoused, SameArrays
<1>12. n.cells = [m.cells EXCEPT ![b] = new, ![old] = left]
  <2>1. [[m.cells EXCEPT ![b] = tail] EXCEPT ![b] = new, ![old] = left]
            = [m.cells EXCEPT ![b] = new, ![old] = left]
        BY <1>1, <1>2
  <2>. QED  BY <1>3, <1>6, <1>10, <2>1
<1>. QED  BY <1>8, <1>9, <1>11, <1>12 DEF Grown

\* reserve() makes room and changes no element.
LEMMA ReserveKept ==
    ASSUME NEW m, NEW q, Kept(m, q), NEW x \in Array!Arrays, NEW k \in 0..MaxSize,
           NEW n, n = Array!Reserve(m, x, k)
    PROVE  /\ Kept(n, q) /\ k <= Array!Capacity(n, x)
           /\ \A y \in Array!Arrays : y # x => /\ Array!At(n, y) = Array!At(m, y)
                                               /\ Array!Capacity(n, y) = Array!Capacity(m, y)
<1>1. CASE ~(k > Array!Capacity(m, x))
  <2>1. n = m  BY <1>1 DEF Array!Reserve
  <2>. QED  BY <1>1, <2>1, KeptTypes, ArrayNames
<1>2. CASE k > Array!Capacity(m, x)
  <2>. DEFINE b == Array!Fresh(m)
              c == Array!ComputeNewCapacity(m, x, k)
              new == Span(Row(q[x]), Array!AllRaw, 0, Len(q[x]))
  <2>1. b \in HeapBuffers /\ b \notin m.heap  BY FreshBuffer
  <2>2. c \in Nat /\ k <= c
        BY KeptTypes, ArrayNames DEF Array!ComputeNewCapacity, Array!Larger
  <2>3. n = Array!MoveInto(m, x, b, c)  BY <1>2 DEF Array!Reserve
  <2>. HIDE DEF b, c
  <2>4. /\ q \in [Array!Arrays -> Seq(Elements)] /\ q[x] \in Seq(Elements) /\ Len(q[x]) <= MaxSize
        /\ Len(q[x]) = Array!Size(m, x) /\ Array!Size(m, x) <= Array!Capacity(m, x)
        /\ m \in ArrayMemory /\ m.fault = FALSE
        /\ Array!Capacity(m, x) \in Nat /\ Array!Size(m, x) \in Nat
        BY KeptTypes DEF Kept
  <2>5. m.cells = [m.cells EXCEPT ![b] = Array!AllRaw]
    <3>1. b \in Buffers /\ m.cells[b] = Array!AllRaw /\ m.cells \in [Buffers -> Rows]
          BY <2>1 DEF Kept, Buffers, ArrayMemory
    <3>. QED  BY <3>1
  <2>6. Array!AllRaw \in Rows /\ \A i \in Array!Cells : Array!AllRaw[i] = Array!Raw
        BY RowMembers DEF Array!AllRaw
  <2>7. SameArrays(m, m)  BY <2>4 DEF SameArrays
  <2>71. \A i \in Array!Cells : i < Array!Size(m, x) => Array!AllRaw[i] = Array!Raw  BY <2>6
  <2>72. Grown(n, m, q, x, b, c, Array!AllRaw)
        BY <2>1, <2>2, <2>3, <2>4, <2>5, <2>6, <2>7, <2>71, MoveIntoKept
  <2>8. /\ Rehoused(n, m, x, b, c, Array!Size(m, x))
        /\ n.cells = [m.cells EXCEPT ![b] = new, ![Array!At(m, x)] = Array!AllRaw]
        BY <2>72 DEF Grown
  <2>9. new = Row(q[x])
    <3>1. \A i \in Array!Cells : new[i] = Row(q[x])[i]  BY <2>4, <2>6, RowCells, ArrayNames DEF Span
    <3>2. Row(q[x]) \in Rows  BY <2>4, RowCells
    <3>. QED  BY <3>1, <3>2 DEF Rows, Span
  <2>. HIDE DEF new
  <2>10. Kept(n, [q EXCEPT ![x] = q[x]])
    <3>1. Len(q[x]) <= c /\ Len(q[x]) <= MaxSize  BY <1>2, <2>2, <2>4, ArrayNames
    <3>2. Rehoused(n, m, x, b, c, Len(q[x]))  BY <2>4, <2>8
    <3>3. n.cells = [m.cells EXCEPT ![b] = Row(q[x]), ![Array!At(m, x)] = Array!AllRaw]
          BY <2>8, <2>9
    <3>. QED  BY <2>1, <2>2, <2>4, <3>1, <3>2, <3>3, RehousedKept
  <2>11. [q EXCEPT ![x] = q[x]] = q  BY <2>4
  <2>. QED  BY <2>2, <2>8, <2>10, <2>11 DEF Rehoused
<1>. QED  BY <1>1, <1>2

LEMMA AppendRow ==
    ASSUME NEW q \in Seq(Elements), Len(q) < MaxSize, NEW v \in Elements
    PROVE  /\ Append(q, v) \in Seq(Elements) /\ Len(Append(q, v)) = Len(q) + 1
           /\ [Row(q) EXCEPT ![Len(q)] = v] = Row(Append(q, v))
           /\ Span(Row(q), [Array!AllRaw EXCEPT ![Len(q)] = v], 0, Len(q)) = Row(Append(q, v))
<1>. DEFINE p == Append(q, v)
            f == [Row(q) EXCEPT ![Len(q)] = v]
            g == [Array!AllRaw EXCEPT ![Len(q)] = v]
<1>1. /\ p \in Seq(Elements) /\ Len(p) = Len(q) + 1 /\ Len(q) \in Nat
      /\ \A i \in Nat : i < Len(q) => p[i + 1] = q[i + 1]
      /\ p[Len(q) + 1] = v
      OBVIOUS
<1>2. Row(q) \in Rows /\ Row(p) \in Rows /\ Array!AllRaw \in Rows /\ f \in Rows /\ g \in Rows
  <2>1. Len(q) <= MaxSize /\ Len(p) <= MaxSize /\ v \in Cell  BY <1>1, ArrayNames DEF Cell
  <2>. HIDE DEF p
  <2>2. Row(q) \in Rows /\ Row(p) \in Rows  BY <1>1, <2>1, RowCells
  <2>. QED  BY <2>1, <2>2, RowMembers DEF Rows
<1>. HIDE DEF p
<1>3. ASSUME NEW i \in Array!Cells
      PROVE  f[i] = Row(p)[i] /\ Span(Row(q), g, 0, Len(q))[i] = Row(p)[i]
  <2>1. i \in Nat /\ 0 <= i  BY CellNumbers
  <2>2. Span(Row(q), g, 0, Len(q))[i] = IF 0 <= i /\ i < Len(q) THEN Row(q)[i] ELSE g[i]
        BY DEF Span
  <2>3. Row(p)[i] = IF i < Len(p) THEN p[i + 1] ELSE Array!Raw  BY DEF Row
  <2>4. Row(q)[i] = IF i < Len(q) THEN q[i + 1] ELSE Array!Raw  BY DEF Row
  <2>5. f[i] = IF i = Len(q) THEN v ELSE Row(q)[i]  BY <1>2 DEF Rows
  <2>6. g[i] = IF i = Len(q) THEN v ELSE Array!Raw  BY <1>2, RowMembers DEF Rows
  <2>. HIDE DEF f, g
  <2>7. CASE i < Len(q)  BY <1>1, <2>1, <2>2, <2>3, <2>4, <2>5, <2>7
  <2>8. CASE i = Len(q)  BY <1>1, <2>1, <2>2, <2>3, <2>5, <2>6, <2>8
  <2>9. CASE i > Len(q)  BY <1>1, <2>1, <2>2, <2>3, <2>4, <2>5, <2>6, <2>9
  <2>. QED  BY <1>1, <2>1, <2>7, <2>8, <2>9
<1>4. Span(Row(q), g, 0, Len(q)) \in Rows  BY <1>1, <1>2, RowMembers
<1>. HIDE DEF f, g
<1>5. f = Row(p)  BY <1>2, <1>3 DEF Rows
<1>6. Span(Row(q), g, 0, Len(q)) = Row(p)  BY <1>2, <1>3, <1>4 DEF Rows
<1>. QED  BY <1>1, <1>5, <1>6 DEF p, f, g

\* emplace_back(), also of an element of the array that grows: it is read before the move.
LEMMA EmplaceBackKept ==
    ASSUME NEW m, NEW q, Kept(m, q), NEW x \in Array!Arrays, Array!Size(m, x) < MaxSize,
           NEW ref, Array!Read(m, ref) \in Elements, NEW n, n = Array!EmplaceBack(m, x, ref)
    PROVE  /\ Kept(n, [q EXCEPT ![x] = Append(q[x], Array!Read(m, ref))])
           /\ \A y \in Array!Arrays : y # x => Array!At(n, y) = Array!At(m, y)
<1>. DEFINE v == Array!Read(m, ref)
            size == Array!Size(m, x)
            old == Array!At(m, x)
            r == Append(q[x], v)
<1>1. /\ m \in ArrayMemory /\ m.cells \in [Buffers -> Rows] /\ m.fault = FALSE
      /\ old \in Buffers /\ size \in Nat /\ Array!Capacity(m, x) \in Nat
      /\ q \in [Array!Arrays -> Seq(Elements)] /\ q[x] \in Seq(Elements) /\ size = Len(q[x])
      /\ m.cells[old] = Row(q[x]) /\ size <= Array!Capacity(m, x)
      BY KeptTypes DEF Kept, ArrayMemory
<1>2. size \in Array!Cells /\ v \in Cell /\ v # Array!Raw  BY <1>1, ArrayNames DEF Cell
<1>3. /\ r \in Seq(Elements) /\ Len(r) = size + 1 /\ Len(r) <= MaxSize
      /\ [Row(q[x]) EXCEPT ![size] = v] = Row(r)
      /\ Span(Row(q[x]), [Array!AllRaw EXCEPT ![size] = v], 0, Len(q[x])) = Row(r)
      BY <1>1, AppendRow, ArrayNames
<1>. HIDE DEF v, size, r
<1>4. CASE size # Array!Capacity(m, x)
  <2>1. PICK k : k = Array!Construct(m, old, size, v)  OBVIOUS
  <2>2. n = Array!SetSize(k, x, size + 1)  BY <1>4, <2>1 DEF Array!EmplaceBack, size, v
  <2>3. BuiltOne(k, m, old, size, v)  BY <1>1, <1>2, <2>1, ConstructFields
  <2>4. Row(q[x])[size] = Array!Raw  BY <1>1, <1>2 DEF Row
  <2>5. SameArrays(k, m) /\ k.fault = FALSE  BY <1>1, <1>2, <2>3, <2>4 DEF BuiltOne
  <2>6. k.cells = [m.cells EXCEPT ![old] = Row(r)]  BY <1>1, <1>3, <2>3 DEF BuiltOne
  <2>7. HasSize(n, k, x, size + 1)  BY <1>1, <2>2, <2>5, SetSizeFields DEF SameArrays
  <2>8. \A y \in Array!Arrays : /\ Array!At(k, y) = Array!At(m, y)
                                /\ Array!Capacity(k, y) = Array!Capacity(m, y)
                                /\ Array!Size(k, y) = Array!Size(m, y)
        BY <2>5 DEF Array!At, Array!Size, Array!Capacity, SameArrays
  <2>9. Resized(n, m, x, Len(r))  BY <1>3, <2>5, <2>7, <2>8 DEF Resized, HasSize, SameArrays
  <2>10. Len(r) <= Array!Capacity(m, x)  BY <1>1, <1>3, <1>4
  <2>11. Kept(n, [q EXCEPT ![x] = r])  BY <1>3, <2>6, <2>7, <2>9, <2>10, InPlaceKept DEF HasSize
  <2>. QED  BY <2>9, <2>11 DEF Resized, r, v
<1>5. CASE size = Array!Capacity(m, x)
  <2>. DEFINE b == Array!Fresh(m)
              c == Array!ComputeNewCapacity(m, x, size + 1)
              tail == [Array!AllRaw EXCEPT ![size] = v]
  <2>1. b \in HeapBuffers /\ b \notin m.heap  BY FreshBuffer
  <2>2. c \in Nat /\ size + 1 <= c
        BY <1>1, ArrayNames DEF Array!ComputeNewCapacity, Array!Larger
  <2>3. PICK k : k = Array!Construct(m, b, size, v)  OBVIOUS
  <2>4. PICK z : z = Array!MoveInto(k, x, b, c)  OBVIOUS
  <2>5. n = Array!SetSize(z, x, size + 1)
        BY <1>5, <2>3, <2>4 DEF Array!EmplaceBack, Array!GrowAndEmplaceBack, size, v
  <2>. HIDE DEF b, c
  <2>6. b \in Buffers /\ m.cells[b] = Array!AllRaw  BY <2>1 DEF Buffers, Kept
  <2>7. BuiltOne(k, m, b, size, v)  BY <1>1, <1>2, <2>3, <2>6, ConstructFields
  <2>8. SameArrays(k, m) /\ k.fault = FALSE  BY <1>1, <1>2, <2>6, <2>7, RowMembers DEF BuiltOne
  <2>9. k.cells = [m.cells EXCEPT ![b] = tail]  BY <1>1, <2>6, <2>7 DEF BuiltOne
  <2>10. tail \in Rows /\ \A i \in Array!Cells : i < Array!Size(m, x) => tail[i] = Array!Raw
    <3>1. \A i \in Array!Cells : i < size => i # size  BY <1>1, CellNumbers
    <3>. QED  BY <1>2, <3>1, RowMembers DEF Rows, size
  <2>. HIDE DEF tail
  <2>12. Grown(z, m, q, x, b, c, tail)
        BY <2>1, <2>2, <2>4, <2>8, <2>9, <2>10, MoveIntoKept
  <2>13. HasSize(n, z, x, size + 1)
    <3>1. z \in ArrayMemory  BY <2>12 DEF Grown, Rehoused
    <3>. QED  BY <1>1, <2>5, <3>1, SetSizeFields
  <2>14. Rehoused(n, m, x, b, c, Len(r))  BY <1>3, <2>12, <2>13 DEF Grown, Rehoused, HasSize
  <2>15. n.cells = [m.cells EXCEPT ![b] = Row(r), ![Array!At(m, x)] = Array!AllRaw]
         BY <1>3, <2>12, <2>13 DEF Grown, HasSize, tail
  <2>16. Len(r) <= c  BY <1>3, <2>2
  <2>17. Kept(n, [q EXCEPT ![x] = r])
         BY <1>3, <2>1, <2>2, <2>14, <2>15, <2>16, RehousedKept
  <2>. QED  BY <2>14, <2>17 DEF Rehoused, r, v
<1>. QED  BY <1>4, <1>5

\* The elements change, and every array stays where it is.
InPlace(n, m, q) ==
    /\ Kept(n, q)
    /\ \A y \in Array!Arrays : /\ Array!At(n, y) = Array!At(m, y)
                               /\ Array!Capacity(n, y) = Array!Capacity(m, y)

\* Such a change, written into the cells before the size.
LEMMA SizedKept ==
    ASSUME NEW m, NEW q, Kept(m, q), NEW x \in Array!Arrays,
           NEW r \in Seq(Elements), Len(r) <= MaxSize, Len(r) <= Array!Capacity(m, x),
           NEW k, SameArrays(k, m), k.fault = FALSE,
           k.cells = [m.cells EXCEPT ![Array!At(m, x)] = Row(r)],
           NEW n, n = Array!SetSize(k, x, Len(r)) \/ (n = k /\ Len(r) = Array!Size(m, x))
    PROVE  InPlace(n, m, [q EXCEPT ![x] = r])
<1>1. \A y \in Array!Arrays : /\ Array!At(k, y) = Array!At(m, y)
                              /\ Array!Capacity(k, y) = Array!Capacity(m, y)
                              /\ Array!Size(k, y) = Array!Size(m, y)
      BY DEF Array!At, Array!Size, Array!Capacity, SameArrays
<1>2. Resized(n, m, x, Len(r)) /\ n.cells = k.cells
  <2>1. CASE n = k /\ Len(r) = Array!Size(m, x)  BY <1>1, <2>1 DEF Resized, SameArrays
  <2>2. CASE n = Array!SetSize(k, x, Len(r))
    <3>1. Len(r) \in Nat  OBVIOUS
    <3>2. HasSize(n, k, x, Len(r))  BY <2>2, <3>1, SetSizeFields DEF SameArrays
    <3>. QED  BY <1>1, <3>2 DEF Resized, HasSize, SameArrays
  <2>. QED  BY <2>1, <2>2
<1>3. Kept(n, [q EXCEPT ![x] = r])  BY <1>2, InPlaceKept
<1>. QED  BY <1>2, <1>3 DEF Resized, InPlace

\* Two rows are the same when their cells are.
LEMMA SameRow ==
    ASSUME NEW f \in Rows, NEW q \in Seq(Elements), Len(q) <= MaxSize,
           \A i \in Array!Cells : f[i] = IF i < Len(q) THEN q[i + 1] ELSE Array!Raw
    PROVE  f = Row(q)
<1>1. Row(q) \in Rows /\ \A i \in Array!Cells : f[i] = Row(q)[i]  BY RowCells
<1>. QED  BY <1>1 DEF Rows

\* Constructions behind the last element.
LEMMA FillKept ==
    ASSUME NEW m, NEW q, Kept(m, q), NEW x \in Array!Arrays, NEW v \in Elements,
           NEW r \in Seq(Elements), Array!Size(m, x) <= Len(r), Len(r) <= MaxSize,
           Len(r) <= Array!Capacity(m, x),
           \A i \in 1..Len(r) : r[i] = IF i <= Len(q[x]) THEN q[x][i] ELSE v,
           NEW n, n = Array!FillTo(m, x, Len(r), v)
    PROVE  InPlace(n, m, [q EXCEPT ![x] = r])
<1>. DEFINE old == Array!At(m, x)
            size == Array!Size(m, x)
<1>1. /\ m \in ArrayMemory /\ m.cells \in [Buffers -> Rows] /\ m.fault = FALSE
      /\ old \in Buffers /\ size \in Nat /\ q[x] \in Seq(Elements) /\ size = Len(q[x])
      /\ m.cells[old] = Row(q[x]) /\ size <= MaxSize
      BY KeptTypes DEF Kept, ArrayMemory
<1>11. Len(r) \in Nat /\ size <= Len(r)  OBVIOUS
<1>2. PICK values : values = [i \in Array!Cells |-> v]  OBVIOUS
<1>3. values \in Rows /\ \A i \in Array!Cells : values[i] = v  BY <1>2 DEF Rows, Cell
<1>4. PICK k : k = Array!ConstructRange(m, old, size, Len(r), values)  OBVIOUS
<1>5. Built(k, m, old, size, Len(r), values)
  <2>1. Len(r) \in Nat  OBVIOUS
  <2>. QED  BY <1>1, <1>3, <1>4, <2>1, ConstructRangeFields
<1>6. k.fault = FALSE
  <2>1. ASSUME NEW i \in size..(Len(r) - 1)
        PROVE  m.cells[old][i] = Array!Raw /\ values[i] # Array!Raw
    <3>1. i \in Array!Cells /\ ~(i < Len(q[x]))  BY <1>1, ArrayNames
    <3>. QED  BY <1>1, <1>3, <3>1, RowCells, ArrayNames
  <2>. QED  BY <1>1, <1>5, <2>1 DEF Built
<1>7. Span(values, m.cells[old], size, Len(r)) = Row(r)
  <2>. DEFINE f == Span(values, m.cells[old], size, Len(r))
  <2>1. f \in Rows  BY <1>1, <1>11, <1>3, RowMembers
  <2>2. ASSUME NEW i \in Array!Cells
        PROVE  f[i] = IF i < Len(r) THEN r[i + 1] ELSE Array!Raw
    <3>1. f[i] = IF size <= i /\ i < Len(r) THEN v ELSE m.cells[old][i]  BY <1>3 DEF Span
    <3>2. m.cells[old][i] = IF i < size THEN q[x][i + 1] ELSE Array!Raw  BY <1>1, RowCells
    <3>3. i \in Nat /\ Len(r) \in Nat  BY CellNumbers
    <3>4. i < Len(r) => i + 1 \in 1..Len(r)  BY <3>3
    <3>5. i < Len(r) => r[i + 1] = IF i + 1 <= Len(q[x]) THEN q[x][i + 1] ELSE v  BY <3>4
    <3>. HIDE DEF f, size
    <3>. QED  BY <1>1, <1>11, <3>1, <3>2, <3>3, <3>5
  <2>. HIDE DEF f
  <2>3. f = Row(r)  BY <2>1, <2>2, SameRow
  <2>. QED  BY <2>3 DEF f
<1>8. SameArrays(k, m) /\ k.cells = [m.cells EXCEPT ![old] = Row(r)]
      BY <1>1, <1>5, <1>7 DEF Built
<1>9. n = Array!SetSize(k, x, Len(r))  BY <1>2, <1>4 DEF Array!FillTo
<1>. QED  BY <1>6, <1>8, <1>9, SizedKept

\* The elements, others that are still to be destroyed, and nothing.
Ahead(f, r, size) ==
    \A i \in Array!Cells : /\ i < Len(r) => f[i] = r[i + 1]
                           /\ Len(r) <= i /\ i < size => f[i] # Array!Raw
                           /\ size <= i => f[i] = Array!Raw

\* What clear(), a smaller resize() and the end of an erasure leave: the first elements.
LEMMA TruncateKept ==
    ASSUME NEW m, NEW q, Kept(m, q), NEW x \in Array!Arrays,
           NEW c \in 0..Array!Size(m, x),
           NEW f \in Rows, NEW r \in Seq(Elements), Len(r) = c,
           Ahead(f, r, Array!Size(m, x)),
           NEW k, SameArrays(k, m), k.fault = FALSE, k.cells = [m.cells EXCEPT ![Array!At(m, x)] = f],
           NEW n, n = Array!SetSize(Array!DestroyRange(k, Array!At(m, x), c, Array!Size(m, x)), x, c)
    PROVE  InPlace(n, m, [q EXCEPT ![x] = r])
<1>. DEFINE old == Array!At(m, x)
            size == Array!Size(m, x)
<1>0. old \in Buffers /\ size \in Nat /\ size <= MaxSize /\ size <= Array!Capacity(m, x)
      BY KeptTypes DEF Kept
<1>1. /\ m.cells \in [Buffers -> Rows] /\ k \in ArrayMemory /\ c \in Nat
      /\ old \in Buffers /\ size \in Nat /\ size <= MaxSize /\ size <= Array!Capacity(m, x)
  <2>1. c \in Nat  BY <1>0
  <2>. QED  BY <1>0, <2>1 DEF Kept, ArrayMemory, SameArrays
<1>2. k.cells[old] = f  BY <1>1
<1>3. PICK d : d = Array!DestroyRange(k, old, c, size)  OBVIOUS
<1>4. Wrecked(d, k, old, c, size)  BY <1>1, <1>3, DestroyFields
<1>5. d.fault = FALSE
  <2>1. ASSUME NEW i \in c..(size - 1) PROVE k.cells[old][i] # Array!Raw
    <3>1. i \in Array!Cells /\ c <= i /\ i < size  BY <1>1, ArrayNames
    <3>. QED  BY <1>2, <3>1 DEF Ahead
  <2>. QED  BY <1>4, <2>1 DEF Wrecked
<1>6. Span(Array!AllRaw, f, c, size) = Row(r)
  <2>. DEFINE g == Span(Array!AllRaw, f, c, size)
  <2>1. g \in Rows  BY <1>1, RowMembers
  <2>2. ASSUME NEW i \in Array!Cells
        PROVE  g[i] = IF i < Len(r) THEN r[i + 1] ELSE Array!Raw
    <3>1. g[i] = IF c <= i /\ i < size THEN Array!Raw ELSE f[i]  BY RowMembers DEF Span
    <3>2. i \in Nat  BY CellNumbers
    <3>. HIDE DEF g, size
    <3>. QED  BY <1>1, <3>1, <3>2 DEF size, Ahead
  <2>3. Len(r) <= MaxSize  BY <1>1, ArrayNames
  <2>. HIDE DEF g
  <2>4. g = Row(r)  BY <2>1, <2>2, <2>3, SameRow
  <2>. QED  BY <2>4 DEF g
<1>7. SameArrays(d, m) /\ d.cells = [m.cells EXCEPT ![old] = Row(r)]
      BY <1>1, <1>2, <1>4, <1>6 DEF Wrecked, SameArrays
<1>8. Len(r) <= MaxSize /\ Len(r) <= Array!Capacity(m, x) /\ n = Array!SetSize(d, x, Len(r))
      BY <1>1, <1>3, ArrayNames, KeptTypes
<1>. QED  BY <1>5, <1>7, <1>8, SizedKept

-----------------------------------------------------------------------------
(* The operations of one array. *)

\* Sequences: the first ones and the rest, one after the other, some in between.
LEMMA PartOfElements ==
    ASSUME NEW q \in Seq(Elements), NEW i \in 0..Len(q)
    PROVE  /\ SubSeq(q, 1, i) \in Seq(Elements) /\ Len(SubSeq(q, 1, i)) = i
           /\ \A j \in 1..i : SubSeq(q, 1, i)[j] = q[j]
           /\ SubSeq(q, i + 1, Len(q)) \in Seq(Elements) /\ Len(SubSeq(q, i + 1, Len(q))) = Len(q) - i
           /\ \A j \in 1..(Len(q) - i) : SubSeq(q, i + 1, Len(q))[j] = q[i + j]
<1>. DEFINE a == SubSeq(q, 1, i)
            b == SubSeq(q, i + 1, Len(q))
<1>1. \A j \in 1..i : q[j] \in Elements  OBVIOUS
<1>2. \A j \in (i + 1)..Len(q) : q[j] \in Elements  OBVIOUS
<1>3. a \in Seq(Elements) /\ Len(a) = i /\ \A j \in 1..i : a[j] = q[j]
      BY <1>1, SubSeqProperties
<1>4. b \in Seq(Elements) /\ Len(b) = Len(q) - i /\ \A j \in 1..(Len(q) - i) : b[j] = q[i + j]
      BY <1>2, SubSeqProperties
<1>. HIDE DEF a, b
<1>5. QED  BY <1>3, <1>4 DEF a, b

\* One sequence is two, one after the other.
Joined(c, a, b) ==
    /\ c \in Seq(Elements) /\ Len(c) = Len(a) + Len(b)
    /\ \A i \in 1..(Len(a) + Len(b)) : c[i] = IF i <= Len(a) THEN a[i] ELSE b[i - Len(a)]

LEMMA JoinedElements ==
    ASSUME NEW a \in Seq(Elements), NEW b \in Seq(Elements)
    PROVE  Joined(a \o b, a, b)
BY ConcatProperties DEF Joined

LEMMA InsertedElements ==
    ASSUME NEW old \in Seq(Elements), NEW new \in Seq(Elements), NEW pos \in 0..Len(old),
           NEW r, r = Array!InsertedAt(old, pos, new)
    PROVE  /\ r \in Seq(Elements) /\ Len(r) = Len(old) + Len(new)
           /\ \A i \in 1..(Len(old) + Len(new)) :
                  r[i] = IF i <= pos THEN old[i]
                         ELSE IF i <= pos + Len(new) THEN new[i - pos] ELSE old[i - Len(new)]
<1>1. PICK a, b : a = SubSeq(old, 1, pos) /\ b = SubSeq(old, pos + 1, Len(old))  OBVIOUS
<1>2. PICK c : c = a \o new  OBVIOUS
<1>3. r = c \o b  BY <1>1, <1>2 DEF Array!InsertedAt
<1>4. /\ a \in Seq(Elements) /\ Len(a) = pos /\ \A i \in 1..pos : a[i] = old[i]
      /\ b \in Seq(Elements) /\ Len(b) = Len(old) - pos
      /\ \A i \in 1..(Len(old) - pos) : b[i] = old[pos + i]
      BY <1>1, PartOfElements
<1>5. /\ c \in Seq(Elements) /\ Len(c) = pos + Len(new)
      /\ \A i \in 1..(pos + Len(new)) : c[i] = IF i <= pos THEN a[i] ELSE new[i - pos]
  <2>1. Joined(a \o new, a, new)  BY <1>4, JoinedElements
  <2>2. Joined(c, a, new)  BY <1>2, <2>1
  <2>. QED  BY <1>4, <2>2 DEF Joined
<1>6. /\ r \in Seq(Elements) /\ Len(r) = Len(c) + Len(b)
      /\ \A i \in 1..(Len(c) + Len(b)) : r[i] = IF i <= Len(c) THEN c[i] ELSE b[i - Len(c)]
  <2>1. c \in Seq(Elements) /\ b \in Seq(Elements)  BY <1>4, <1>5
  <2>2. Joined(c \o b, c, b)  BY <2>1, JoinedElements
  <2>3. Joined(r, c, b)  BY <1>3, <2>2
  <2>. QED  BY <2>3 DEF Joined
<1>7. Len(old) \in Nat /\ Len(new) \in Nat /\ pos \in Nat  OBVIOUS
<1>8. Len(r) = Len(old) + Len(new)  BY <1>4, <1>5, <1>6, <1>7
<1>9. ASSUME NEW i \in 1..(Len(old) + Len(new))
      PROVE  r[i] = IF i <= pos THEN old[i]
                    ELSE IF i <= pos + Len(new) THEN new[i - pos] ELSE old[i - Len(new)]
  <2>1. r[i] = IF i <= pos + Len(new) THEN c[i] ELSE b[i - (pos + Len(new))]
        BY <1>4, <1>5, <1>6, <1>7
  <2>2. CASE i <= pos  BY <1>4, <1>5, <1>7, <2>1, <2>2
  <2>3. CASE ~(i <= pos) /\ i <= pos + Len(new)  BY <1>5, <1>7, <2>1, <2>3
  <2>4. CASE ~(i <= pos + Len(new))
    <3>1. i - (pos + Len(new)) \in 1..(Len(old) - pos)  BY <1>7, <2>4
    <3>2. pos + (i - (pos + Len(new))) = i - Len(new)  BY <1>7
    <3>3. b[i - (pos + Len(new))] = old[pos + (i - (pos + Len(new)))]  BY <1>4, <3>1, Zenon
    <3>4. r[i] = old[i - Len(new)]  BY <2>1, <2>4, <3>2, <3>3, Zenon
    <3>5. ~(i <= pos)  BY <1>7, <2>4
    <3>. QED  BY <2>4, <3>4, <3>5, Zenon
  <2>. QED  BY <1>7, <2>2, <2>3, <2>4
<1>. QED  BY <1>6, <1>8, <1>9

\* The rotation puts what was built at the end in its place, as std::rotate does.
LEMMA RotateKept ==
    ASSUME NEW m, NEW q, Kept(m, q), NEW x \in Array!Arrays,
           NEW old \in Seq(Elements), NEW new \in Seq(Elements), Joined(q[x], old, new),
           NEW pos \in 0..Len(old), NEW n, n = Array!Rotate(m, x, pos, Len(old))
    PROVE  InPlace(n, m, [q EXCEPT ![x] = Array!InsertedAt(old, pos, new)])
<1>. DEFINE b == Array!At(m, x)
            size == Array!Size(m, x)
            f == [i \in Array!Cells |->
                    CASE pos <= i /\ i < pos + size - Len(old) -> m.cells[b][i + Len(old) - pos]
                      [] pos + size - Len(old) <= i /\ i < size -> m.cells[b][i - (size - Len(old))]
                      [] OTHER -> m.cells[b][i]]
<1>1. PICK r : r = Array!InsertedAt(old, pos, new)  OBVIOUS
<1>2. /\ m \in ArrayMemory /\ b \in Buffers /\ m.fault = FALSE
      /\ q[x] \in Seq(Elements) /\ size = Len(q[x]) /\ size <= MaxSize /\ m.cells[b] = Row(q[x])
      /\ size <= Array!Capacity(m, x)
      BY KeptTypes DEF Kept
<1>3. Len(old) \in Nat /\ Len(new) \in Nat /\ pos \in Nat /\ pos <= Len(old)  OBVIOUS
<1>4. size = Len(old) + Len(new) /\ size \in Nat  BY <1>2, <1>3 DEF Joined
<1>5. r \in Seq(Elements) /\ Len(r) = size  BY <1>1, <1>4, InsertedElements
<1>51. \A i \in 1..(Len(old) + Len(new)) :
           r[i] = IF i <= pos THEN old[i]
                  ELSE IF i <= pos + Len(new) THEN new[i - pos] ELSE old[i - Len(new)]
       BY <1>1, InsertedElements, ZenonT(60)
<1>6. n = [m EXCEPT !.cells[b] = f]  BY DEF Array!Rotate
<1>7. \A i \in Nat : i < size => q[x][i + 1] = IF i < Len(old) THEN old[i + 1] ELSE new[i + 1 - Len(old)]
  <2>. SUFFICES ASSUME NEW i \in Nat, i < size
                PROVE  q[x][i + 1] = IF i < Len(old) THEN old[i + 1] ELSE new[i + 1 - Len(old)]
       OBVIOUS
  <2>. HIDE DEF size
  <2>1. i + 1 \in 1..(Len(old) + Len(new))  BY <1>3, <1>4
  <2>2. q[x][i + 1] = IF i + 1 <= Len(old) THEN old[i + 1] ELSE new[i + 1 - Len(old)]
        BY <2>1 DEF Joined
  <2>. QED  BY <1>3, <2>2
<1>8. \A i \in Nat : i < size =>
          r[i + 1] = IF i < pos THEN old[i + 1]
                     ELSE IF i < pos + Len(new) THEN new[i + 1 - pos] ELSE old[i + 1 - Len(new)]
  <2>. SUFFICES ASSUME NEW i \in Nat, i < size
                PROVE  r[i + 1] = IF i < pos THEN old[i + 1]
                         ELSE IF i < pos + Len(new) THEN new[i + 1 - pos] ELSE old[i + 1 - Len(new)]
       OBVIOUS
  <2>. HIDE DEF size
  <2>1. i + 1 \in 1..(Len(old) + Len(new))  BY <1>3, <1>4
  <2>2. r[i + 1] = IF i + 1 <= pos THEN old[i + 1]
                   ELSE IF i + 1 <= pos + Len(new) THEN new[i + 1 - pos] ELSE old[i + 1 - Len(new)]
        BY <1>51, <2>1
  <2>. QED  BY <1>3, <2>2
<1>9. \A i \in Nat : i < size => m.cells[b][i] = q[x][i + 1]  BY <1>2, RowCells
<1>10. ASSUME NEW i \in Array!Cells
       PROVE  f[i] = IF i < Len(r) THEN r[i + 1] ELSE Array!Raw
  <2>0. i \in Nat  BY CellNumbers
  <2>1. f[i] = CASE pos <= i /\ i < pos + size - Len(old) -> m.cells[b][i + Len(old) - pos]
                 [] pos + size - Len(old) <= i /\ i < size -> m.cells[b][i - (size - Len(old))]
                 [] OTHER -> m.cells[b][i]
        OBVIOUS
  <2>. HIDE DEF f, size
  <2>2. CASE i < pos
    <3>1. f[i] = m.cells[b][i]  BY <1>3, <1>4, <2>0, <2>1, <2>2
    <3>2. i < size /\ i < Len(old)  BY <1>3, <1>4, <2>0, <2>2
    <3>. QED  BY <1>5, <1>7, <1>8, <1>9, <2>0, <2>2, <3>1, <3>2
  <2>3. CASE pos <= i /\ i < pos + Len(new)
    <3>1. PICK j : j = i + Len(old) - pos  OBVIOUS
    <3>2. f[i] = m.cells[b][j]  BY <1>3, <1>4, <2>0, <2>1, <2>3, <3>1
    <3>3. j \in Nat /\ j < size /\ ~(j < Len(old)) /\ j + 1 - Len(old) = i + 1 - pos
          BY <1>3, <1>4, <2>0, <2>3, <3>1
    <3>4. f[i] = new[i + 1 - pos]  BY <1>7, <1>9, <3>2, <3>3
    <3>5. i < size /\ ~(i < pos)  BY <1>3, <1>4, <2>0, <2>3
    <3>. QED  BY <1>5, <1>8, <2>0, <2>3, <3>4, <3>5
  <2>4. CASE pos + Len(new) <= i /\ i < size
    <3>1. PICK j : j = i - Len(new)  OBVIOUS
    <3>2. f[i] = m.cells[b][j]  BY <1>3, <1>4, <2>0, <2>1, <2>4, <3>1
    <3>3. j \in Nat /\ j < size /\ j < Len(old) /\ j + 1 = i + 1 - Len(new)
          BY <1>3, <1>4, <2>0, <2>4, <3>1
    <3>4. f[i] = old[i + 1 - Len(new)]  BY <1>7, <1>9, <3>2, <3>3
    <3>5. ~(i < pos) /\ ~(i < pos + Len(new))  BY <1>3, <1>4, <2>0, <2>4
    <3>. QED  BY <1>5, <1>8, <2>0, <2>4, <3>4, <3>5
  <2>5. CASE size <= i
    <3>1. f[i] = m.cells[b][i]  BY <1>3, <1>4, <2>0, <2>1, <2>5
    <3>2. m.cells[b][i] = IF i < Len(q[x]) THEN q[x][i + 1] ELSE Array!Raw  BY <1>2, RowCells
    <3>3. ~(i < size)  BY <1>4, <2>0, <2>5
    <3>. QED  BY <1>2, <1>5, <3>1, <3>2, <3>3
  <2>. QED  BY <1>3, <1>4, <2>0, <2>2, <2>3, <2>4, <2>5
<1>11. f \in Rows
  <2>1. ASSUME NEW i \in Array!Cells PROVE f[i] \in Cell
    <3>0. i \in Nat  BY CellNumbers
    <3>1. i < Len(r) => r[i + 1] \in Elements  BY <1>5, <3>0
    <3>. HIDE DEF f
    <3>. QED  BY <1>10, <3>1 DEF Cell
  <2>. QED  BY <2>1 DEF Rows
<1>12. \A i \in Array!Cells : f[i] = IF i < Len(r) THEN r[i + 1] ELSE Array!Raw  BY <1>10
<1>. HIDE DEF f
<1>13. f = Row(r)  BY <1>2, <1>5, <1>11, <1>12, SameRow
<1>14. SameArrays(n, m) /\ n.cells = [m.cells EXCEPT ![b] = Row(r)] /\ n.fault = FALSE
  <2>. HIDE DEF b
  <2>1. SameArrays(n, m) /\ n.cells = [m.cells EXCEPT ![b] = f] /\ n.fault = m.fault
        BY <1>2, <1>6, <1>11 DEF SameArrays, ArrayMemory
  <2>. QED  BY <1>2, <1>13, <2>1
<1>. QED  BY <1>1, <1>2, <1>5, <1>14, SizedKept

\* The first elements stay, and the others are destroyed.
LEMMA FirstKept ==
    ASSUME NEW m, NEW q, Kept(m, q), NEW x \in Array!Arrays, NEW c \in 0..Array!Size(m, x),
           NEW r \in Seq(Elements), Len(r) = c, \A i \in 1..c : r[i] = q[x][i],
           NEW n, n = Array!SetSize(Array!DestroyRange(m, Array!At(m, x), c, Array!Size(m, x)), x, c)
    PROVE  InPlace(n, m, [q EXCEPT ![x] = r])
<1>. DEFINE f == m.cells[Array!At(m, x)]
<1>1. /\ m \in ArrayMemory /\ m.cells \in [Buffers -> Rows] /\ m.fault = FALSE
      /\ Array!At(m, x) \in Buffers /\ Array!Size(m, x) \in Nat
      /\ q[x] \in Seq(Elements) /\ Array!Size(m, x) = Len(q[x]) /\ Len(q[x]) <= MaxSize
      /\ f = Row(q[x]) /\ f \in Rows
      BY KeptTypes DEF Kept, ArrayMemory
<1>2. ASSUME NEW i \in Array!Cells
      PROVE  /\ i < c => f[i] = r[i + 1]
             /\ c <= i /\ i < Array!Size(m, x) => f[i] # Array!Raw
             /\ Array!Size(m, x) <= i => f[i] = Array!Raw
  <2>1. i \in Nat /\ c \in Nat /\ c <= Array!Size(m, x)  BY <1>1, CellNumbers
  <2>2. f[i] = IF i < Len(q[x]) THEN q[x][i + 1] ELSE Array!Raw  BY <1>1, RowCells
  <2>3. i < Len(q[x]) => q[x][i + 1] # Array!Raw  BY <1>1, <2>1, RowCells
  <2>4. i < c => i + 1 \in 1..c  BY <2>1
  <2>. HIDE DEF f
  <2>. QED  BY <1>1, <2>1, <2>2, <2>3, <2>4
<1>3. SameArrays(m, m) /\ m.cells = [m.cells EXCEPT ![Array!At(m, x)] = f]  BY <1>1 DEF SameArrays
<1>4. Ahead(f, r, Array!Size(m, x))  BY <1>2 DEF Ahead
<1>. HIDE DEF f
<1>. QED  BY <1>1, <1>3, <1>4, TruncateKept

LEMMA ClearKept ==
    ASSUME NEW m, NEW q, Kept(m, q), NEW x \in Array!Arrays, NEW n, n = Array!Clear(m, x)
    PROVE  InPlace(n, m, [q EXCEPT ![x] = <<>>])
<1>1. 0 \in 0..Array!Size(m, x)  BY KeptTypes
<1>2. PICK r : r = <<>>  OBVIOUS
<1>3. r \in Seq(Elements) /\ Len(r) = 0 /\ \A i \in 1..0 : r[i] = q[x][i]  BY <1>2
<1>4. n = Array!SetSize(Array!DestroyRange(m, Array!At(m, x), 0, Array!Size(m, x)), x, 0)
      BY DEF Array!Clear
<1>5. InPlace(n, m, [q EXCEPT ![x] = r])  BY <1>1, <1>3, <1>4, FirstKept
<1>. QED  BY <1>2, <1>5

\* What a function of the first numbers is, as a sequence.
LEMMA Tabulated ==
    ASSUME NEW k \in Nat, NEW r, r \in [1..k -> Elements]
    PROVE  r \in Seq(Elements) /\ Len(r) = k
OBVIOUS

\* The elements of an array of this size, as many of them as asked for and this one for the rest.
Fitted(elements, size, count, v) == [i \in 1..count |-> IF i <= size THEN elements[i] ELSE v]

\* resize(), to less and to more.
LEMMA ResizeKept ==
    ASSUME NEW m, NEW q, Kept(m, q), NEW x \in Array!Arrays, NEW count \in 0..MaxSize,
           NEW v \in Elements, NEW n, n = Array!Resize(m, x, count, v),
           NEW r, r = Fitted(q[x], Array!Size(m, x), count, v)
    PROVE  Kept(n, [q EXCEPT ![x] = r])
<1>1. r = [i \in 1..count |-> IF i <= Array!Size(m, x) THEN q[x][i] ELSE v]  BY DEF Fitted
<1>2. /\ Array!Size(m, x) \in Nat /\ q[x] \in Seq(Elements) /\ Array!Size(m, x) = Len(q[x])
      /\ Len(q[x]) <= MaxSize /\ count \in Nat /\ count <= MaxSize
      BY KeptTypes, ArrayNames
<1>3. r \in Seq(Elements) /\ Len(r) = count
  <2>1. \A i \in 1..count : i <= Len(q[x]) => q[x][i] \in Elements  BY <1>2
  <2>2. r \in [1..count -> Elements]  BY <1>1, <1>2, <2>1
  <2>. QED  BY <1>2, <2>2, Tabulated
<1>4. \A i \in 1..count : r[i] = IF i <= Len(q[x]) THEN q[x][i] ELSE v  BY <1>1, <1>2
<1>5. CASE count < Array!Size(m, x)
  <2>1. n = Array!SetSize(Array!DestroyRange(m, Array!At(m, x), count, Array!Size(m, x)), x, count)
        BY <1>5 DEF Array!Resize
  <2>2. count \in 0..Array!Size(m, x) /\ \A i \in 1..count : r[i] = q[x][i]  BY <1>2, <1>4, <1>5
  <2>3. InPlace(n, m, [q EXCEPT ![x] = r])  BY <1>3, <2>1, <2>2, FirstKept
  <2>. QED  BY <1>1, <2>3 DEF InPlace
<1>6. CASE ~(count < Array!Size(m, x))
  <2>1. PICK room : room = Array!Reserve(m, x, count)  OBVIOUS
  <2>2. Kept(room, q) /\ count <= Array!Capacity(room, x)  BY <2>1, ReserveKept
  <2>3. Array!Size(room, x) = Len(q[x])  BY <2>2, KeptTypes
  <2>4. n = Array!FillTo(room, x, Len(r), v)  BY <1>3, <1>6, <2>1 DEF Array!Resize
  <2>5. Array!Size(room, x) <= Len(r) /\ Len(r) <= MaxSize /\ Len(r) <= Array!Capacity(room, x)
        BY <1>2, <1>3, <1>6, <2>2, <2>3
  <2>6. \A i \in 1..Len(r) : r[i] = IF i <= Len(q[x]) THEN q[x][i] ELSE v  BY <1>3, <1>4
  <2>7. InPlace(n, room, [q EXCEPT ![x] = r])  BY <1>3, <2>2, <2>4, <2>5, <2>6, FillKept
  <2>. QED  BY <1>1, <2>7 DEF InPlace
<1>. QED  BY <1>5, <1>6

\* insert(), of one element, of as many of the same, of those of the other array.
LEMMA InsertOneKept ==
    ASSUME NEW m, NEW q, Kept(m, q), NEW x \in Array!Arrays, Array!Size(m, x) < MaxSize,
           NEW ref, Array!Read(m, ref) \in Elements, NEW pos \in 0..Array!Size(m, x),
           NEW n, n = Array!InsertOne(m, x, pos, ref)
    PROVE  Kept(n, [q EXCEPT ![x] = Array!InsertedAt(q[x], pos, <<Array!Read(m, ref)>>)])
<1>1. PICK old, v, new : old = q[x] /\ v = Array!Read(m, ref) /\ new = <<v>>  OBVIOUS
<1>2. PICK k : k = Array!EmplaceBack(m, x, ref)  OBVIOUS
<1>3. PICK p : p = [q EXCEPT ![x] = Append(old, v)]  OBVIOUS
<1>4. /\ old \in Seq(Elements) /\ Len(old) = Array!Size(m, x) /\ v \in Elements
      /\ q \in [Array!Arrays -> Seq(Elements)]
      BY <1>1, KeptTypes DEF Kept
<1>5. Kept(k, p)  BY <1>1, <1>2, <1>3, EmplaceBackKept
<1>6. new \in Seq(Elements) /\ Joined(Append(old, v), old, new)
      BY <1>1, <1>4 DEF Joined
<1>7. p[x] = Append(old, v)  BY <1>3, <1>4
<1>8. n = Array!Rotate(k, x, pos, Len(old)) /\ pos \in 0..Len(old)
      BY <1>2, <1>4 DEF Array!InsertOne
<1>9. Joined(p[x], old, new)  BY <1>6, <1>7
<1>10. InPlace(n, k, [p EXCEPT ![x] = Array!InsertedAt(old, pos, new)])
       BY <1>4, <1>5, <1>6, <1>8, <1>9, RotateKept
<1>11. PICK r : r = Array!InsertedAt(old, pos, new)  OBVIOUS
<1>12. [p EXCEPT ![x] = r] = [q EXCEPT ![x] = r]  BY <1>3, <1>4
<1>. QED  BY <1>1, <1>10, <1>11, <1>12 DEF InPlace

LEMMA InsertCountKept ==
    ASSUME NEW m, NEW q, Kept(m, q), NEW x \in Array!Arrays, NEW count \in Nat,
           Array!Size(m, x) + count <= MaxSize,
           NEW ref, Array!Read(m, ref) \in Elements, NEW pos \in 0..Array!Size(m, x),
           NEW n, n = Array!InsertCount(m, x, pos, count, ref)
    PROVE  Kept(n, [q EXCEPT ![x] = Array!InsertedAt(q[x], pos, Array!Repeated(Array!Read(m, ref), count))])
<1>1. PICK old, v, new : old = q[x] /\ v = Array!Read(m, ref) /\ new = Array!Repeated(v, count)  OBVIOUS
<1>2. PICK size : size = Array!Size(m, x)  OBVIOUS
<1>3. /\ old \in Seq(Elements) /\ Len(old) = size /\ v \in Elements /\ size \in Nat
      /\ q \in [Array!Arrays -> Seq(Elements)] /\ size + count \in 0..MaxSize
      BY <1>1, <1>2, KeptTypes, ArrayNames DEF Kept
<1>4. new \in Seq(Elements) /\ Len(new) = count /\ \A i \in 1..count : new[i] = v
  <2>1. new \in [1..count -> Elements] /\ \A i \in 1..count : new[i] = v
        BY <1>1, <1>3 DEF Array!Repeated
  <2>. QED  BY <2>1, Tabulated
<1>5. PICK room : room = Array!Reserve(m, x, size + count)  OBVIOUS
<1>6. Kept(room, q) /\ size + count <= Array!Capacity(room, x)  BY <1>3, <1>5, ReserveKept
<1>7. PICK r : r = old \o new  OBVIOUS
<1>8. Joined(r, old, new)  BY <1>3, <1>4, <1>7, JoinedElements
<1>9. /\ r \in Seq(Elements) /\ Len(r) = size + count
      /\ \A i \in 1..Len(r) : r[i] = IF i <= Len(old) THEN old[i] ELSE v
  <2>1. /\ r \in Seq(Elements) /\ Len(r) = size + count
        /\ \A i \in 1..(size + count) : r[i] = IF i <= Len(old) THEN old[i] ELSE new[i - Len(old)]
        BY <1>3, <1>4, <1>8 DEF Joined
  <2>2. \A i \in 1..(size + count) : ~(i <= Len(old)) => i - Len(old) \in 1..count  BY <1>3
  <2>. QED  BY <1>4, <2>1, <2>2
<1>10. PICK k : k = Array!FillTo(room, x, size + count, v)  OBVIOUS
<1>11. PICK p : p = [q EXCEPT ![x] = r]  OBVIOUS
<1>12. Array!Size(room, x) = Len(old)  BY <1>1, <1>6, KeptTypes
<1>13. InPlace(k, room, p)
  <2>1. /\ Array!Size(room, x) <= Len(r) /\ Len(r) <= MaxSize /\ Len(r) <= Array!Capacity(room, x)
        /\ k = Array!FillTo(room, x, Len(r), v)
        BY <1>3, <1>6, <1>9, <1>10, <1>12
  <2>2. \A i \in 1..Len(r) : r[i] = IF i <= Len(q[x]) THEN q[x][i] ELSE v  BY <1>1, <1>9
  <2>. QED  BY <1>3, <1>6, <1>9, <1>11, <2>1, <2>2, FillKept
<1>14. n = Array!Rotate(k, x, pos, Len(old)) /\ pos \in 0..Len(old)
       BY <1>1, <1>2, <1>3, <1>5, <1>10 DEF Array!InsertCount
<1>15. Kept(k, p) /\ p[x] = r  BY <1>3, <1>11, <1>13 DEF InPlace
<1>16. Joined(p[x], old, new)  BY <1>8, <1>15
<1>17. InPlace(n, k, [p EXCEPT ![x] = Array!InsertedAt(old, pos, new)])
       BY <1>3, <1>4, <1>14, <1>15, <1>16, RotateKept
<1>18. PICK t : t = Array!InsertedAt(old, pos, new)  OBVIOUS
<1>19. [p EXCEPT ![x] = t] = [q EXCEPT ![x] = t]  BY <1>3, <1>11
<1>. QED  BY <1>1, <1>17, <1>18, <1>19 DEF InPlace

\* erase(): the elements behind come forward, and what is left at the end is destroyed.
LEMMA EraseKept ==
    ASSUME NEW m, NEW q, Kept(m, q), NEW x \in Array!Arrays,
           NEW to \in 0..Array!Size(m, x), NEW from \in 0..to, NEW n, n = Array!EraseRange(m, x, from, to)
    PROVE  Kept(n, [q EXCEPT ![x] = SubSeq(q[x], 1, from) \o SubSeq(q[x], to + 1, Len(q[x]))])
<1>. DEFINE b == Array!At(m, x)
<1>1. PICK l, size : l = q[x] /\ size = Array!Size(m, x)  OBVIOUS
<1>2. /\ m \in ArrayMemory /\ m.cells \in [Buffers -> Rows] /\ m.fault = FALSE /\ b \in Buffers
      /\ l \in Seq(Elements) /\ size = Len(l) /\ size <= MaxSize /\ m.cells[b] = Row(l)
      /\ q \in [Array!Arrays -> Seq(Elements)]
      BY <1>1, KeptTypes DEF Kept, ArrayMemory
<1>3. size \in Nat /\ to \in Nat /\ from \in Nat /\ from <= to /\ to <= size  BY <1>1, <1>2
<1>4. PICK a, d, r : a = SubSeq(l, 1, from) /\ d = SubSeq(l, to + 1, Len(l)) /\ r = a \o d  OBVIOUS
<1>5. /\ a \in Seq(Elements) /\ Len(a) = from /\ \A i \in 1..from : a[i] = l[i]
      /\ d \in Seq(Elements) /\ Len(d) = size - to /\ \A i \in 1..(size - to) : d[i] = l[to + i]
      BY <1>2, <1>3, <1>4, PartOfElements
<1>6. Joined(r, a, d)  BY <1>4, <1>5, JoinedElements
<1>7. /\ r \in Seq(Elements) /\ Len(r) = size - (to - from)
      /\ \A i \in Nat : i < Len(r) => r[i + 1] = IF i < from THEN l[i + 1] ELSE l[i + 1 + (to - from)]
  <2>1. r \in Seq(Elements) /\ Len(r) = size - (to - from)  BY <1>3, <1>5, <1>6 DEF Joined
  <2>2. ASSUME NEW i \in Nat, i < Len(r)
        PROVE  r[i + 1] = IF i < from THEN l[i + 1] ELSE l[i + 1 + (to - from)]
    <3>1. i + 1 \in 1..(Len(a) + Len(d))  BY <1>3, <1>5, <2>1, <2>2
    <3>2. r[i + 1] = IF i + 1 <= Len(a) THEN a[i + 1] ELSE d[i + 1 - Len(a)]  BY <1>6, <3>1 DEF Joined
    <3>3. CASE i < from
      <4>1. i + 1 \in 1..from  BY <1>3, <3>3
      <4>. QED  BY <1>3, <1>5, <3>2, <3>3, <4>1
    <3>4. CASE ~(i < from)
      <4>1. i + 1 - from \in 1..(size - to) /\ to + (i + 1 - from) = i + 1 + (to - from)
            BY <1>3, <2>1, <2>2, <3>4
      <4>. QED  BY <1>3, <1>5, <3>2, <3>4, <4>1
    <3>. QED  BY <3>3, <3>4
  <2>. QED  BY <2>1, <2>2
<1>8. CASE from = to
  <2>1. n = m  BY <1>8 DEF Array!EraseRange
  <2>2. r = l
    <3>1. Len(r) = Len(l)  BY <1>2, <1>3, <1>7, <1>8
    <3>2. ASSUME NEW i \in 1..Len(l) PROVE r[i] = l[i]
      <4>1. i - 1 \in Nat /\ i - 1 < Len(r) /\ (i - 1) + 1 = i  BY <1>2, <1>3, <3>1
      <4>2. r[(i - 1) + 1] = IF i - 1 < from THEN l[(i - 1) + 1] ELSE l[(i - 1) + 1 + (to - from)]
            BY <1>7, <4>1
      <4>3. i + (to - from) = i  BY <1>3, <1>8
      <4>. QED  BY <4>1, <4>2, <4>3
    <3>. QED  BY <1>2, <1>7, <3>1, <3>2, SeqEqual
  <2>3. [q EXCEPT ![x] = l] = q  BY <1>1, <1>2
  <2>. QED  BY <1>1, <1>4, <2>1, <2>2, <2>3
<1>9. CASE from # to
  <2>. DEFINE f == [i \in Array!Cells |-> IF from <= i /\ i < size - (to - from)
                                          THEN m.cells[b][i + to - from] ELSE m.cells[b][i]]
              c == size - (to - from)
  <2>1. c \in 0..size  BY <1>3
  <2>2. PICK k : k = [m EXCEPT !.cells[b] = f]  OBVIOUS
  <2>3. n = Array!SetSize(Array!DestroyRange(k, b, c, size), x, c)
        BY <1>1, <1>9, <2>2 DEF Array!EraseRange
  <2>4. \A i \in Array!Cells : m.cells[b][i] = IF i < size THEN l[i + 1] ELSE Array!Raw
        BY <1>2, RowCells
  <2>5. \A i \in Nat : i < size => i \in Array!Cells /\ l[i + 1] # Array!Raw /\ l[i + 1] \in Elements
        BY <1>2, RowCells
  <2>6. ASSUME NEW i \in Array!Cells
        PROVE  /\ i < c => f[i] = r[i + 1]
               /\ c <= i /\ i < size => f[i] # Array!Raw
               /\ size <= i => f[i] = Array!Raw
               /\ f[i] \in Cell
    <3>0. i \in Nat  BY CellNumbers
    <3>1. f[i] = IF from <= i /\ i < c THEN m.cells[b][i + to - from] ELSE m.cells[b][i]  OBVIOUS
    <3>. HIDE DEF f
    <3>2. CASE from <= i /\ i < c
      <4>1. PICK j : j = i + to - from  OBVIOUS
      <4>2. j \in Nat /\ j < size /\ j + 1 = i + 1 + (to - from)  BY <1>3, <3>0, <3>2, <4>1
      <4>3. f[i] = l[j + 1] /\ f[i] \in Elements  BY <2>4, <2>5, <3>1, <3>2, <4>1, <4>2
      <4>4. i < Len(r) /\ ~(i < from)  BY <1>3, <1>7, <3>0, <3>2
      <4>5. r[i + 1] = l[j + 1]  BY <1>7, <3>0, <4>2, <4>4
      <4>. QED  BY <1>3, <3>0, <3>2, <4>3, <4>5 DEF Cell
    <3>3. CASE i < from
      <4>1. i < size /\ i < c /\ ~(from <= i)  BY <1>3, <3>0, <3>3
      <4>2. f[i] = l[i + 1] /\ f[i] \in Elements  BY <2>4, <2>5, <3>0, <3>1, <4>1
      <4>3. r[i + 1] = l[i + 1]  BY <1>7, <3>0, <3>3, <4>1
      <4>. QED  BY <1>3, <3>0, <4>1, <4>2, <4>3 DEF Cell
    <3>4. CASE c <= i /\ i < size
      <4>1. ~(i < c)  BY <1>3, <3>0, <3>4
      <4>2. f[i] = l[i + 1] /\ f[i] \in Elements /\ f[i] # Array!Raw  BY <2>4, <2>5, <3>0, <3>1, <3>4, <4>1
      <4>. QED  BY <1>3, <3>0, <3>4, <4>1, <4>2 DEF Cell
    <3>5. CASE size <= i
      <4>1. ~(i < c) /\ ~(i < size)  BY <1>3, <3>0, <3>5
      <4>2. f[i] = Array!Raw  BY <2>4, <3>1, <4>1
      <4>. QED  BY <4>1, <4>2 DEF Cell
    <3>. QED  BY <1>3, <3>0, <3>2, <3>3, <3>4, <3>5
  <2>7. f \in Rows  BY <2>6 DEF Rows
  <2>8. Ahead(f, r, size)  BY <1>7, <2>6 DEF Ahead
  <2>. HIDE DEF f, b
  <2>9. SameArrays(k, m) /\ k.fault = FALSE /\ k.cells = [m.cells EXCEPT ![b] = f]
        BY <1>2, <2>2, <2>7 DEF SameArrays, ArrayMemory
  <2>. HIDE DEF c
  <2>10. Len(r) = c  BY <1>7 DEF c
  <2>11. InPlace(n, m, [q EXCEPT ![x] = r])
    <3>1. /\ c \in 0..Array!Size(m, x) /\ Ahead(f, r, Array!Size(m, x))
          /\ SameArrays(k, m) /\ k.fault = FALSE /\ k.cells = [m.cells EXCEPT ![Array!At(m, x)] = f]
          BY <1>1, <2>1, <2>8, <2>9 DEF b
    <3>2. n = Array!SetSize(Array!DestroyRange(k, Array!At(m, x), c, Array!Size(m, x)), x, c)
          BY <1>1, <2>3 DEF b
    <3>3. r \in Seq(Elements) /\ Len(r) = c  BY <1>7, <2>10
    <3>. QED  BY <2>7, <3>1, <3>2, <3>3, TruncateKept
  <2>. QED  BY <1>1, <1>4, <2>11 DEF InPlace
<1>. QED  BY <1>8, <1>9

LEMMA NextAppended ==
    ASSUME NEW a \in Seq(Elements), NEW b \in Seq(Elements), NEW i \in Nat, i < Len(b)
    PROVE  Append(a \o SubSeq(b, 1, i), b[i + 1]) = a \o SubSeq(b, 1, i + 1)
<1>1. PICK s, t : s = SubSeq(b, 1, i) /\ t = SubSeq(b, 1, i + 1)  OBVIOUS
<1>2. /\ s \in Seq(Elements) /\ Len(s) = i /\ \A j \in 1..i : s[j] = b[j]
      /\ t \in Seq(Elements) /\ Len(t) = i + 1 /\ \A j \in 1..(i + 1) : t[j] = b[j]
      BY <1>1, PartOfElements
<1>3. PICK c, d, e : c = a \o s /\ d = a \o t /\ e = Append(c, b[i + 1])  OBVIOUS
<1>4. Joined(c, a, s) /\ Joined(d, a, t)  BY <1>2, <1>3, JoinedElements
<1>5. c \in Seq(Elements) /\ Len(c) = Len(a) + i /\ b[i + 1] \in Elements  BY <1>2, <1>4 DEF Joined
<1>6. /\ e \in Seq(Elements) /\ Len(e) = Len(a) + i + 1
      /\ \A j \in 1..(Len(a) + i + 1) : e[j] = IF j <= Len(a) + i THEN c[j] ELSE b[i + 1]
      BY <1>3, <1>5
<1>7. d \in Seq(Elements) /\ Len(d) = Len(a) + i + 1  BY <1>2, <1>4 DEF Joined
<1>8. ASSUME NEW j \in 1..(Len(a) + i + 1) PROVE e[j] = d[j]
  <2>1. d[j] = IF j <= Len(a) THEN a[j] ELSE t[j - Len(a)]  BY <1>2, <1>4 DEF Joined
  <2>2. CASE j <= Len(a) + i
    <3>1. c[j] = IF j <= Len(a) THEN a[j] ELSE s[j - Len(a)]  BY <1>2, <1>4, <2>2 DEF Joined
    <3>2. CASE j <= Len(a)  BY <1>6, <2>1, <2>2, <3>1, <3>2
    <3>3. CASE ~(j <= Len(a))
      <4>1. j - Len(a) \in 1..i /\ j - Len(a) \in 1..(i + 1)  BY <2>2, <3>3
      <4>. QED  BY <1>2, <1>6, <2>1, <2>2, <3>1, <3>3, <4>1
    <3>. QED  BY <3>2, <3>3
  <2>3. CASE ~(j <= Len(a) + i)
    <3>1. j - Len(a) = i + 1 /\ ~(j <= Len(a)) /\ i + 1 \in 1..(i + 1)  BY <2>3
    <3>. QED  BY <1>2, <1>6, <2>1, <2>3, <3>1
  <2>. QED  BY <2>2, <2>3
<1>9. e = d  BY <1>6, <1>7, <1>8, SeqEqual
<1>. QED  BY <1>1, <1>3, <1>9

LEMMA WholeSequence ==
    ASSUME NEW a \in Seq(Elements)
    PROVE  a \o SubSeq(a, 1, 0) = a /\ SubSeq(a, 1, Len(a)) = a
           /\ \A b \in Seq(Elements) : a \o SubSeq(b, 1, 0) = a
OBVIOUS

\* The elements of the other array are appended one by one, each by reference to where it is.
LEMMA AppendAllKept ==
    ASSUME NEW m, NEW q, Kept(m, q), NEW x \in Array!Arrays, NEW y \in Array!Arrays, x # y,
           Array!Size(m, x) + Array!Size(m, y) <= MaxSize, NEW n, n = Array!AppendAll(m, x, y)
    PROVE  Kept(n, [q EXCEPT ![x] = q[x] \o q[y]])
<1>. DEFINE Step(c, i) == Array!EmplaceBack(c[i - 1], x, <<Array!At(m, y), i - 1>>)
            Copied(c, k) == c = [i \in 0..k |-> IF i = 0 THEN m ELSE Step(c, i)]
            S == {k \in Nat : \E c : Copied(c, k)}
<1>. HIDE DEF Copied
<1>1. MaxSize \in Nat  BY ArrayNames
<1>2. Nat \subseteq S
  <2>1. 0 \in S
    <3>1. Copied([i \in 0..0 |-> m], 0)  BY DEF Copied
    <3>. QED  BY <3>1
  <2>2. ASSUME NEW k \in Nat, k \in S PROVE k + 1 \in S
    <3>1. PICK c : Copied(c, k)  BY <2>2
    <3>. DEFINE d == [i \in 0..(k + 1) |-> IF i = k + 1 THEN Step(c, k + 1) ELSE c[i]]
    <3>. HIDE DEF Step
    <3>2. \A i \in 0..k : d[i] = c[i]  OBVIOUS
    <3>3. \A i \in 0..(k + 1) : d[i] = IF i = 0 THEN m ELSE Step(d, i)
      <4>. SUFFICES ASSUME NEW i \in 0..(k + 1) PROVE d[i] = IF i = 0 THEN m ELSE Step(d, i)
           OBVIOUS
      <4>1. CASE i = k + 1
        <5>1. d[k] = c[k]  BY <3>2
        <5>2. d[i] = Step(c, k + 1)  BY <4>1
        <5>3. i - 1 = k  BY <4>1
        <5>. QED  BY <4>1, <5>1, <5>2, <5>3 DEF Step
      <4>2. CASE i \in 1..k
        <5>1. d[i - 1] = c[i - 1] /\ d[i] = c[i]  BY <4>2, <3>2
        <5>2. i \in 0..k /\ i # 0  BY <4>2
        <5>3. c[i] = IF i = 0 THEN m ELSE Step(c, i)  BY ONLY <5>2, <3>1 DEF Copied
        <5>. QED  BY <5>1, <5>2, <5>3 DEF Step
      <4>3. CASE i = 0  BY <4>3, <3>1, <3>2 DEF Copied
      <4>. QED  BY <4>1, <4>2, <4>3
    <3>4. Copied(d, k + 1)  BY <3>3 DEF Copied
    <3>. QED  BY <3>4
  <2>. HIDE DEF S
  <2>. QED  BY <2>1, <2>2, NatSets
<1>3. PICK c : c = CHOOSE f : Copied(f, MaxSize)  OBVIOUS
<1>4. Copied(c, MaxSize)
  <2>1. \E f : Copied(f, MaxSize)  BY <1>1, <1>2
  <2>. QED  BY <1>3, <2>1
<1>5. n = c[Array!Size(m, y)]  BY <1>3 DEF Array!AppendAll, Copied
<1>6. PICK a, b : a = q[x] /\ b = q[y]  OBVIOUS
<1>7. /\ a \in Seq(Elements) /\ b \in Seq(Elements) /\ q \in [Array!Arrays -> Seq(Elements)]
      /\ Array!Size(m, x) = Len(a) /\ Array!Size(m, y) = Len(b) /\ Len(a) + Len(b) <= MaxSize
      /\ Len(b) <= MaxSize
      BY <1>6, KeptTypes DEF Kept
<1>. DEFINE Sofar(k) == [q EXCEPT ![x] = a \o SubSeq(b, 1, k)]
            Good(k) == Kept(c[k], Sofar(k)) /\ Array!At(c[k], y) = Array!At(m, y)
            T == {k \in Nat : k <= Len(b) => Good(k)}
<1>8. Nat \subseteq T
  <2>1. 0 \in T
    <3>1. c[0] = m  BY <1>1, <1>4 DEF Copied
    <3>2. Sofar(0) = q
      <4>1. a \o SubSeq(b, 1, 0) = a  BY <1>7, WholeSequence
      <4>. QED  BY <1>6, <1>7, <4>1
    <3>. HIDE DEF Sofar
    <3>. QED  BY <3>1, <3>2
  <2>2. ASSUME NEW k \in Nat, k \in T PROVE k + 1 \in T
    <3>. SUFFICES ASSUME k + 1 <= Len(b) PROVE Good(k + 1)  OBVIOUS
    <3>1. Good(k) /\ k < Len(b)  BY <1>7, <2>2
    <3>2. PICK z, p, ref : z = c[k] /\ p = Sofar(k) /\ ref = <<Array!At(m, y), k>>  OBVIOUS
    <3>3. Kept(z, p) /\ Array!At(z, y) = Array!At(m, y)  BY <3>1, <3>2
    <3>4. p[y] = b /\ p[x] = a \o SubSeq(b, 1, k)  BY <1>6, <1>7, <3>2
    <3>5. Array!Read(z, ref) = b[k + 1] /\ b[k + 1] \in Elements
      <4>1. Array!Read(z, ref) = z.cells[Array!At(z, y)][k]  BY <3>2, <3>3 DEF Array!Read
      <4>2. z.cells[Array!At(z, y)] = Row(b)  BY <3>3, <3>4, KeptTypes
      <4>3. Row(b)[k] = b[k + 1] /\ b[k + 1] \in Elements  BY <1>7, <3>1, RowCells
      <4>. QED  BY <4>1, <4>2, <4>3
    <3>6. Array!Size(z, x) < MaxSize
      <4>1. SubSeq(b, 1, k) \in Seq(Elements) /\ Len(SubSeq(b, 1, k)) = k  BY <1>7, <3>1, PartOfElements
      <4>2. PICK s : s = SubSeq(b, 1, k)  OBVIOUS
      <4>3. Joined(a \o s, a, s)  BY <1>7, <4>1, <4>2, JoinedElements
      <4>4. Joined(p[x], a, s)  BY <3>4, <4>2, <4>3
      <4>5. Len(p[x]) = Len(a) + k  BY <4>1, <4>2, <4>4 DEF Joined
      <4>6. Array!Size(z, x) = Len(p[x])  BY <3>3, KeptTypes
      <4>. QED  BY <1>1, <1>7, <3>1, <4>5, <4>6
    <3>7. c[k + 1] = Array!EmplaceBack(z, x, ref)
      <4>1. k + 1 \in 0..MaxSize /\ k + 1 # 0 /\ (k + 1) - 1 = k  BY <1>1, <1>7
      <4>2. c[k + 1] = Step(c, k + 1)  BY <1>4, <4>1 DEF Copied
      <4>. QED  BY <4>1, <4>2, <3>2
    <3>8. PICK w : w = c[k + 1]  OBVIOUS
    <3>9. /\ Kept(w, [p EXCEPT ![x] = Append(p[x], b[k + 1])])
          /\ Array!At(w, y) = Array!At(m, y)
      <4>1. Array!Read(z, ref) \in Elements /\ w = Array!EmplaceBack(z, x, ref)  BY <3>5, <3>7, <3>8
      <4>2. PICK v : v = Array!Read(z, ref)  OBVIOUS
      <4>3. /\ Kept(w, [p EXCEPT ![x] = Append(p[x], Array!Read(z, ref))])
            /\ Array!At(w, y) = Array!At(z, y)
            BY <3>3, <3>6, <4>1, EmplaceBackKept
      <4>. QED  BY <3>3, <3>5, <4>3
    <3>10. [p EXCEPT ![x] = Append(p[x], b[k + 1])] = Sofar(k + 1)
      <4>1. Append(p[x], b[k + 1]) = a \o SubSeq(b, 1, k + 1)  BY <1>7, <3>1, <3>4, NextAppended
      <4>2. PICK e : e = a \o SubSeq(b, 1, k + 1)  OBVIOUS
      <4>3. PICK d : d = a \o SubSeq(b, 1, k)  OBVIOUS
      <4>4. p = [q EXCEPT ![x] = d]  BY <3>2, <4>3
      <4>5. [p EXCEPT ![x] = e] = [q EXCEPT ![x] = e]  BY <1>7, <4>4
      <4>. QED  BY <4>1, <4>2, <4>5
    <3>. HIDE DEF Sofar
    <3>. QED  BY <3>8, <3>9, <3>10
  <2>. HIDE DEF T
  <2>. QED  BY <2>1, <2>2, NatSets
<1>9. Good(Len(b))
  <2>1. Len(b) \in Nat  BY <1>7
  <2>. HIDE DEF Good
  <2>. QED  BY <1>8, <2>1
<1>10. Sofar(Len(b)) = [q EXCEPT ![x] = a \o b]  BY <1>7, WholeSequence
<1>. QED  BY <1>5, <1>6, <1>7, <1>9, <1>10

LEMMA InsertRangeKept ==
    ASSUME NEW m, NEW q, Kept(m, q), NEW x \in Array!Arrays, NEW y \in Array!Arrays, x # y,
           Array!Size(m, x) + Array!Size(m, y) <= MaxSize, NEW pos \in 0..Array!Size(m, x),
           NEW n, n = Array!InsertRange(m, x, pos, y)
    PROVE  Kept(n, [q EXCEPT ![x] = Array!InsertedAt(q[x], pos, q[y])])
<1>1. PICK old, new : old = q[x] /\ new = q[y]  OBVIOUS
<1>2. PICK k, p : k = Array!AppendAll(m, x, y) /\ p = [q EXCEPT ![x] = old \o new]  OBVIOUS
<1>3. /\ old \in Seq(Elements) /\ new \in Seq(Elements) /\ Len(old) = Array!Size(m, x)
      /\ q \in [Array!Arrays -> Seq(Elements)]
      BY <1>1, KeptTypes DEF Kept
<1>4. Kept(k, p)  BY <1>1, <1>2, AppendAllKept
<1>5. p[x] = old \o new  BY <1>2, <1>3
<1>6. Joined(p[x], old, new)
  <2>1. Joined(old \o new, old, new)  BY <1>3, JoinedElements
  <2>. QED  BY <1>5, <2>1
<1>7. n = Array!Rotate(k, x, pos, Len(old)) /\ pos \in 0..Len(old)
      BY <1>2, <1>3 DEF Array!InsertRange
<1>8. PICK r : r = Array!InsertedAt(old, pos, new)  OBVIOUS
<1>9. InPlace(n, k, [p EXCEPT ![x] = r])  BY <1>3, <1>4, <1>6, <1>7, <1>8, RotateKept
<1>10. [p EXCEPT ![x] = r] = [q EXCEPT ![x] = r]  BY <1>2, <1>3
<1>. QED  BY <1>1, <1>8, <1>9, <1>10 DEF InPlace

-----------------------------------------------------------------------------
(* The operations of both. *)

\* The two arrays hold these elements: Kept, of the one and the other.
Placed(n, x, y, a, b) ==
    /\ n \in ArrayMemory /\ n.fault = FALSE
    /\ n.heap = {Array!At(n, x), Array!At(n, y)} \cap HeapBuffers
    /\ Array!At(n, x) # Array!At(n, y)
    /\ Array!At(n, x) \in HeapBuffers \cup {x} /\ Array!At(n, y) \in HeapBuffers \cup {y}
    /\ a \in Seq(Elements) /\ b \in Seq(Elements)
    /\ Len(a) = Array!Size(n, x) /\ Array!Size(n, x) <= Array!Capacity(n, x)
    /\ Len(b) = Array!Size(n, y) /\ Array!Size(n, y) <= Array!Capacity(n, y)
    /\ Len(a) <= MaxSize /\ Len(b) <= MaxSize
    /\ n.cells[Array!At(n, x)] = Row(a) /\ n.cells[Array!At(n, y)] = Row(b)
    /\ \A d \in Buffers : d # Array!At(n, x) /\ d # Array!At(n, y) => n.cells[d] = Array!AllRaw

LEMMA TwoArrays ==
    ASSUME NEW x \in Array!Arrays, NEW y \in Array!Arrays, x # y
    PROVE  Array!Arrays = {x, y} /\ Array!Other(x) = y
BY OtherArray

LEMMA KeptIsPlaced ==
    ASSUME NEW m, NEW q, Kept(m, q), NEW x \in Array!Arrays, NEW y \in Array!Arrays, x # y
    PROVE  Placed(m, x, y, q[x], q[y])
<1>1. Array!Arrays = {x, y}  BY TwoArrays
<1>2. /\ q[x] \in Seq(Elements) /\ q[y] \in Seq(Elements)
      /\ Len(q[x]) = Array!Size(m, x) /\ Len(q[y]) = Array!Size(m, y)
      /\ Len(q[x]) <= MaxSize /\ Len(q[y]) <= MaxSize
      BY KeptTypes
<1>3. m.heap = {Array!At(m, x), Array!At(m, y)} \cap HeapBuffers
  <2>1. m.heap \in SUBSET HeapBuffers  BY DEF Kept, ArrayMemory
  <2>2. \A b \in HeapBuffers : b \in m.heap <=> \E z \in Array!Arrays : Array!At(m, z) = b  BY DEF Kept
  <2>. QED  BY <1>1, <2>1, <2>2
<1>4. \A d \in Buffers : d # Array!At(m, x) /\ d # Array!At(m, y) => m.cells[d] = Array!AllRaw
      BY <1>1 DEF Kept
<1>. QED  BY <1>2, <1>3, <1>4 DEF Kept, Placed

LEMMA PlacedIsKept ==
    ASSUME NEW x \in Array!Arrays, NEW y \in Array!Arrays, x # y, NEW n, NEW a, NEW b,
           Placed(n, x, y, a, b), NEW p, p \in [Array!Arrays -> Seq(Elements)], p[x] = a, p[y] = b
    PROVE  Kept(n, p)
<1>1. Array!Arrays = {x, y}  BY TwoArrays
<1>2. \A d \in HeapBuffers : d \in n.heap <=> \E z \in Array!Arrays : Array!At(n, z) = d
      BY <1>1 DEF Placed
<1>3. \A z, w \in Array!Arrays : z # w => Array!At(n, z) # Array!At(n, w)  BY <1>1 DEF Placed
<1>4. \A z \in Array!Arrays : Array!At(n, z) \in HeapBuffers \cup {z}  BY <1>1 DEF Placed
<1>5. ASSUME NEW z \in Array!Arrays
      PROVE  /\ Len(p[z]) = Array!Size(n, z) /\ Array!Size(n, z) <= Array!Capacity(n, z)
             /\ Array!Size(n, z) <= MaxSize /\ n.cells[Array!At(n, z)] = Row(p[z])
  <2>1. CASE z = x  BY <2>1 DEF Placed
  <2>2. CASE z = y  BY <2>2 DEF Placed
  <2>. QED  BY <1>1, <2>1, <2>2
<1>6. \A d \in Buffers : (\A z \in Array!Arrays : Array!At(n, z) # d) => n.cells[d] = Array!AllRaw
      BY <1>1 DEF Placed
<1>7. n \in ArrayMemory /\ n.fault = FALSE  BY DEF Placed
<1>. QED  BY <1>2, <1>3, <1>4, <1>5, <1>6, <1>7 DEF Kept

\* The two arrays, in their places, have other cells.
LEMMA TwoRows ==
    ASSUME NEW x \in Array!Arrays, NEW y \in Array!Arrays, x # y, NEW m, NEW a, NEW b,
           Placed(m, x, y, a, b),
           NEW c \in Seq(Elements), NEW d \in Seq(Elements), Len(c) <= MaxSize, Len(d) <= MaxSize,
           Len(c) <= Array!Capacity(m, x), Len(d) <= Array!Capacity(m, y),
           NEW n \in ArrayMemory, n.fault = FALSE, n.heap = m.heap,
           Array!At(n, x) = Array!At(m, x), Array!At(n, y) = Array!At(m, y),
           Array!Capacity(n, x) = Array!Capacity(m, x), Array!Capacity(n, y) = Array!Capacity(m, y),
           Array!Size(n, x) = Len(c), Array!Size(n, y) = Len(d),
           n.cells = [m.cells EXCEPT ![Array!At(m, x)] = Row(c), ![Array!At(m, y)] = Row(d)]
    PROVE  Placed(n, x, y, c, d)
<1>1. /\ m.cells \in [Buffers -> Rows] /\ Array!At(m, x) \in Buffers /\ Array!At(m, y) \in Buffers
      /\ Array!At(m, x) # Array!At(m, y)
      BY DEF Placed, ArrayMemory, Buffers
<1>2. n.cells[Array!At(n, x)] = Row(c) /\ n.cells[Array!At(n, y)] = Row(d)  BY <1>1
<1>3. \A e \in Buffers : e # Array!At(n, x) /\ e # Array!At(n, y) => n.cells[e] = Array!AllRaw
  <2>. SUFFICES ASSUME NEW e \in Buffers, e # Array!At(n, x), e # Array!At(n, y)
                PROVE  n.cells[e] = Array!AllRaw
       OBVIOUS
  <2>1. n.cells[e] = m.cells[e]  BY <1>1
  <2>. QED  BY <2>1 DEF Placed
<1>4. /\ n.heap = {Array!At(n, x), Array!At(n, y)} \cap HeapBuffers
      /\ Array!At(n, x) # Array!At(n, y)
      /\ Array!At(n, x) \in HeapBuffers \cup {x} /\ Array!At(n, y) \in HeapBuffers \cup {y}
      BY DEF Placed
<1>. QED  BY <1>2, <1>3, <1>4 DEF Placed

\* swap() of two buffers of the heap.
LEMMA ExchangeKept ==
    ASSUME NEW m, NEW q, Kept(m, q), NEW x \in Array!Arrays, NEW y \in Array!Arrays, x # y,
           ~Array!IsInline(m, x), ~Array!IsInline(m, y),
           NEW n, n = [m EXCEPT !.arr[x] = m.arr[y], !.arr[y] = m.arr[x]]
    PROVE  Placed(n, x, y, q[y], q[x])
<1>1. Placed(m, x, y, q[x], q[y])  BY KeptIsPlaced
<1>2. /\ Array!At(m, x) \in HeapBuffers /\ Array!At(m, y) \in HeapBuffers
      BY <1>1 DEF Placed, Array!IsInline
<1>3. n.heap = m.heap /\ n.cells = m.cells /\ n.fault = m.fault /\ n \in ArrayMemory
      /\ n.arr[x] = m.arr[y] /\ n.arr[y] = m.arr[x]
      BY <1>1 DEF Placed, ArrayMemory
<1>4. /\ Array!At(n, x) = Array!At(m, y) /\ Array!At(n, y) = Array!At(m, x)
      /\ Array!Size(n, x) = Array!Size(m, y) /\ Array!Size(n, y) = Array!Size(m, x)
      /\ Array!Capacity(n, x) = Array!Capacity(m, y) /\ Array!Capacity(n, y) = Array!Capacity(m, x)
      BY <1>3 DEF Array!At, Array!Size, Array!Capacity
<1>5. n.heap = {Array!At(n, x), Array!At(n, y)} \cap HeapBuffers  BY <1>1, <1>3, <1>4 DEF Placed
<1>6. \A d \in Buffers : d # Array!At(n, x) /\ d # Array!At(n, y) => n.cells[d] = Array!AllRaw
      BY <1>1, <1>3, <1>4 DEF Placed
<1>. QED  BY <1>1, <1>2, <1>3, <1>4, <1>5, <1>6 DEF Placed

\* The first elements change places.
Mixed(c, a, b, s) ==
    /\ c \in Seq(Elements) /\ Len(c) = Len(a)
    /\ \A i \in 1..Len(a) : c[i] = IF i <= s THEN b[i] ELSE a[i]

\* swap() of the elements that both have.
LEMMA SwapSharedKept ==
    ASSUME NEW x \in Array!Arrays, NEW y \in Array!Arrays, x # y, NEW m, NEW a, NEW b,
           Placed(m, x, y, a, b), NEW s \in Nat, s <= Len(a), s <= Len(b),
           NEW c, NEW d, Mixed(c, a, b, s), Mixed(d, b, a, s),
           NEW n, n = Array!SwapShared(m, x, y, s)
    PROVE  Placed(n, x, y, c, d)
<1>. DEFINE f == [i \in Array!Cells |-> IF i < s THEN m.cells[Array!At(m, y)][i] ELSE m.cells[Array!At(m, x)][i]]
            g == [i \in Array!Cells |-> IF i < s THEN m.cells[Array!At(m, x)][i] ELSE m.cells[Array!At(m, y)][i]]
<1>1. /\ a \in Seq(Elements) /\ b \in Seq(Elements) /\ Len(a) <= MaxSize /\ Len(b) <= MaxSize
      /\ m.cells[Array!At(m, x)] = Row(a) /\ m.cells[Array!At(m, y)] = Row(b)
      /\ Array!At(m, x) \in Buffers /\ Array!At(m, y) \in Buffers
      /\ m \in ArrayMemory /\ m.cells \in [Buffers -> Rows] /\ m.fault = FALSE
      BY DEF Placed, ArrayMemory, Buffers
<1>2. c \in Seq(Elements) /\ d \in Seq(Elements) /\ Len(c) = Len(a) /\ Len(d) = Len(b)  BY DEF Mixed
<1>3. ASSUME NEW i \in Array!Cells
      PROVE  f[i] = (IF i < Len(c) THEN c[i + 1] ELSE Array!Raw) /\ g[i] = (IF i < Len(d) THEN d[i + 1] ELSE Array!Raw)
  <2>1. /\ f[i] = IF i < s THEN Row(b)[i] ELSE Row(a)[i]
        /\ g[i] = IF i < s THEN Row(a)[i] ELSE Row(b)[i]
        BY <1>1
  <2>2. /\ Row(a)[i] = IF i < Len(a) THEN a[i + 1] ELSE Array!Raw
        /\ Row(b)[i] = IF i < Len(b) THEN b[i + 1] ELSE Array!Raw
        BY <1>1, RowCells
  <2>3. i \in Nat  BY CellNumbers
  <2>4. i < Len(a) => c[i + 1] = IF i < s THEN b[i + 1] ELSE a[i + 1]
    <3>1. i < Len(a) => i + 1 \in 1..Len(a)  BY <1>1, <2>3
    <3>. QED  BY <2>3, <3>1 DEF Mixed
  <2>5. i < Len(b) => d[i + 1] = IF i < s THEN a[i + 1] ELSE b[i + 1]
    <3>1. i < Len(b) => i + 1 \in 1..Len(b)  BY <1>1, <2>3
    <3>. QED  BY <2>3, <3>1 DEF Mixed
  <2>6. i < s => i < Len(a) /\ i < Len(b)  BY <1>1, <2>3
  <2>. HIDE DEF f, g
  <2>. QED  BY <1>2, <2>1, <2>2, <2>4, <2>5, <2>6
<1>4. f \in Rows /\ g \in Rows  BY <1>1, RowCells DEF Rows
<1>5. \A i \in Array!Cells : f[i] = IF i < Len(c) THEN c[i + 1] ELSE Array!Raw  BY <1>3
<1>6. \A i \in Array!Cells : g[i] = IF i < Len(d) THEN d[i + 1] ELSE Array!Raw  BY <1>3
<1>7. n = [m EXCEPT !.cells = [m.cells EXCEPT ![Array!At(m, x)] = f, ![Array!At(m, y)] = g]]
      BY DEF Array!SwapShared
<1>. HIDE DEF f, g
<1>8. f = Row(c)  BY <1>1, <1>2, <1>4, <1>5, SameRow
<1>9. g = Row(d)  BY <1>1, <1>2, <1>4, <1>6, SameRow
<1>10. /\ n \in ArrayMemory /\ n.fault = FALSE /\ n.heap = m.heap /\ n.arr = m.arr
       /\ n.cells = [m.cells EXCEPT ![Array!At(m, x)] = f, ![Array!At(m, y)] = g]
       BY <1>1, <1>4, <1>7 DEF ArrayMemory
<1>11. /\ Array!At(n, x) = Array!At(m, x) /\ Array!At(n, y) = Array!At(m, y)
       /\ Array!Capacity(n, x) = Array!Capacity(m, x) /\ Array!Capacity(n, y) = Array!Capacity(m, y)
       /\ Array!Size(n, x) = Len(c) /\ Array!Size(n, y) = Len(d)
       BY <1>2, <1>10 DEF Array!At, Array!Size, Array!Capacity, Placed
<1>12. n.cells = [m.cells EXCEPT ![Array!At(m, x)] = Row(c), ![Array!At(m, y)] = Row(d)]
       BY <1>8, <1>9, <1>10
<1>13. Len(c) <= MaxSize /\ Len(d) <= MaxSize /\ Len(c) <= Array!Capacity(m, x) /\ Len(d) <= Array!Capacity(m, y)
       BY <1>1, <1>2 DEF Placed
<1>. QED  BY <1>2, <1>10, <1>11, <1>12, <1>13, TwoRows

LEMMA PlacedBothWays == \A n, x, y, a, b : Placed(n, x, y, a, b) => Placed(n, y, x, b, a)
BY DEF Placed

\* What is left of a row from which some were moved.
Hollow(f, from, to) == [i \in Array!Cells |-> IF from <= i /\ i < to THEN Array!Moved ELSE f[i]]

\* What MoveOver has done.
TakenOver(k, m, x, y, a, c) ==
    /\ k \in ArrayMemory /\ k.fault = FALSE /\ k.heap = m.heap
    /\ Array!At(k, x) = Array!At(m, x) /\ Array!At(k, y) = Array!At(m, y)
    /\ Array!Capacity(k, x) = Array!Capacity(m, x) /\ Array!Capacity(k, y) = Array!Capacity(m, y)
    /\ Array!Size(k, x) = Len(c) /\ Array!Size(k, y) = Array!Size(m, y)
    /\ k.cells = [m.cells EXCEPT ![Array!At(m, x)] = Row(c),
                                 ![Array!At(m, y)] = Hollow(m.cells[Array!At(m, y)], Len(a), Len(c))]

\* The elements that the other array has and this one has not are moved over, no further.
LEMMA MoveOverTakes ==
    ASSUME NEW x \in Array!Arrays, NEW y \in Array!Arrays, x # y, NEW m, NEW a, NEW b,
           Placed(m, x, y, a, b), Len(a) <= Len(b), Len(b) <= Array!Capacity(m, x),
           NEW c, Mixed(c, b, a, Len(a)), NEW k, k = Array!MoveOver(m, x, y)
    PROVE  TakenOver(k, m, x, y, a, c)
<1>. DEFINE to == Array!At(m, x)
            from == Array!At(m, y)
            f == Span(m.cells[from], m.cells[to], Len(a), Len(b))
            g == Hollow(m.cells[from], Len(a), Len(b))
<1>1. /\ a \in Seq(Elements) /\ b \in Seq(Elements) /\ Len(a) <= MaxSize /\ Len(b) <= MaxSize
      /\ c \in Seq(Elements) /\ Len(c) = Len(b)
      /\ Array!Size(m, x) = Len(a) /\ Array!Size(m, y) = Len(b)
      BY DEF Placed, Mixed
<1>2. /\ to \in Buffers /\ from \in Buffers /\ to # from
      /\ m.cells[to] = Row(a) /\ m.cells[from] = Row(b)
      /\ m \in ArrayMemory /\ m.cells \in [Buffers -> Rows] /\ m.fault = FALSE
      BY DEF Placed, ArrayMemory, Buffers
<1>3. Row(a) \in Rows /\ Row(b) \in Rows /\ Len(a) \in Nat /\ Len(b) \in Nat  BY <1>1, RowCells
<1>4. PICK z : z = Array!ConstructRange(m, to, Len(a), Len(b), m.cells[from])  OBVIOUS
<1>5. Built(z, m, to, Len(a), Len(b), m.cells[from])
      BY <1>2, <1>3, <1>4, ConstructRangeFields
<1>6. z.fault = FALSE
  <2>1. ASSUME NEW i \in Len(a)..(Len(b) - 1)
        PROVE  m.cells[to][i] = Array!Raw /\ m.cells[from][i] # Array!Raw
    <3>1. i \in Nat /\ i < Len(b) /\ ~(i < Len(a))  BY <1>3
    <3>2. i \in Array!Cells /\ Row(b)[i] # Array!Raw  BY <1>1, <3>1, RowCells
    <3>3. Row(a)[i] = Array!Raw  BY <1>1, <3>1, <3>2, RowCells
    <3>. QED  BY <1>2, <3>2, <3>3
  <2>. QED  BY <1>2, <1>5, <2>1 DEF Built
<1>7. z \in ArrayMemory /\ z.heap = m.heap /\ z.arr = m.arr /\ z.cells = [m.cells EXCEPT ![to] = f]
      BY <1>5 DEF Built, SameArrays
<1>8. f = Row(c)
  <2>1. f \in Rows  BY <1>2, <1>3, RowMembers
  <2>2. ASSUME NEW i \in Array!Cells PROVE f[i] = IF i < Len(c) THEN c[i + 1] ELSE Array!Raw
    <3>1. f[i] = IF Len(a) <= i /\ i < Len(b) THEN Row(b)[i] ELSE Row(a)[i]  BY <1>2 DEF Span
    <3>2. /\ Row(a)[i] = IF i < Len(a) THEN a[i + 1] ELSE Array!Raw
          /\ Row(b)[i] = IF i < Len(b) THEN b[i + 1] ELSE Array!Raw
          BY <1>1, RowCells
    <3>3. i \in Nat  BY CellNumbers
    <3>4. i < Len(b) => c[i + 1] = IF i < Len(a) THEN a[i + 1] ELSE b[i + 1]
      <4>1. i < Len(b) => i + 1 \in 1..Len(b)  BY <1>3, <3>3
      <4>. QED  BY <1>3, <3>3, <4>1 DEF Mixed
    <3>. HIDE DEF f
    <3>. QED  BY <1>1, <1>3, <3>1, <3>2, <3>3, <3>4
  <2>. HIDE DEF f
  <2>. QED  BY <1>1, <2>1, <2>2, SameRow
<1>9. g \in Rows  BY <1>2, <1>3 DEF Hollow, Rows, Cell
<1>10. PICK w : w = Array!MoveRange(m, to, Len(a), Len(b), from)  OBVIOUS
<1>. HIDE DEF f
<1>11. w = [z EXCEPT !.cells[from] = g]
  <2>1. z.cells[from] = m.cells[from]  BY <1>2, <1>7
  <2>. QED  BY <1>4, <1>10, <2>1 DEF Array!MoveRange, Hollow
<1>. HIDE DEF g
<1>12. /\ w \in ArrayMemory /\ w.heap = m.heap /\ w.arr = m.arr /\ w.fault = FALSE
       /\ w.cells = [z.cells EXCEPT ![from] = g]
       BY <1>2, <1>6, <1>7, <1>9, <1>11 DEF ArrayMemory
<1>13. w.cells = [m.cells EXCEPT ![to] = f, ![from] = g]  BY <1>7, <1>12
<1>14. k = Array!SetSize(w, x, Len(b))  BY <1>1, <1>10 DEF Array!MoveOver
<1>15. HasSize(k, w, x, Len(b))  BY <1>3, <1>12, <1>14, SetSizeFields
<1>16. \A v \in Array!Arrays : /\ Array!At(w, v) = Array!At(m, v) /\ Array!Size(w, v) = Array!Size(m, v)
                               /\ Array!Capacity(w, v) = Array!Capacity(m, v)
       BY <1>12 DEF Array!At, Array!Size, Array!Capacity
<1>17. k.cells = [m.cells EXCEPT ![to] = Row(c), ![from] = g]  BY <1>8, <1>13, <1>15 DEF HasSize
<1>18. g = Hollow(m.cells[from], Len(a), Len(c))  BY <1>1 DEF g
<1>19. /\ k \in ArrayMemory /\ k.fault = FALSE /\ k.heap = m.heap
       /\ Array!At(k, x) = Array!At(m, x) /\ Array!At(k, y) = Array!At(m, y)
       /\ Array!Capacity(k, x) = Array!Capacity(m, x) /\ Array!Capacity(k, y) = Array!Capacity(m, y)
       /\ Array!Size(k, x) = Len(c) /\ Array!Size(k, y) = Array!Size(m, y)
       BY <1>1, <1>12, <1>15, <1>16 DEF HasSize
<1>. QED  BY <1>17, <1>18, <1>19 DEF TakenOver

\* The elements of the longer one from where the other ended are moved over, and what is left of
\* them destroyed.
LEMMA TailMovedKept ==
    ASSUME NEW x \in Array!Arrays, NEW y \in Array!Arrays, x # y, NEW m, NEW a, NEW b,
           Placed(m, x, y, a, b), Len(a) <= Len(b), Len(b) <= Array!Capacity(m, x),
           NEW c, Mixed(c, b, a, Len(a)),
           NEW d \in Seq(Elements), Len(d) = Len(a), \A i \in 1..Len(a) : d[i] = b[i],
           NEW k, k = Array!MoveOver(m, x, y),
           NEW n, n = Array!SetSize(Array!DestroyRange(k, Array!At(m, y), Len(a), Len(b)), y, Len(a))
    PROVE  Placed(n, x, y, c, d)
<1>. DEFINE to == Array!At(m, x)
            from == Array!At(m, y)
            g == Hollow(m.cells[from], Len(a), Len(b))
            h == Span(Array!AllRaw, g, Len(a), Len(b))
<1>1. /\ a \in Seq(Elements) /\ b \in Seq(Elements) /\ Len(a) <= MaxSize /\ Len(b) <= MaxSize
      /\ c \in Seq(Elements) /\ Len(c) = Len(b)
      /\ Array!Size(m, x) = Len(a) /\ Array!Size(m, y) = Len(b)
      BY DEF Placed, Mixed
<1>2. /\ to \in Buffers /\ from \in Buffers /\ to # from /\ m.cells[from] = Row(b)
      /\ m \in ArrayMemory /\ m.cells \in [Buffers -> Rows]
      BY DEF Placed, ArrayMemory, Buffers
<1>3. Row(b) \in Rows /\ Len(a) \in Nat /\ Len(b) \in Nat  BY <1>1, RowCells
<1>4. TakenOver(k, m, x, y, a, c)  BY MoveOverTakes
<1>5. /\ k \in ArrayMemory /\ k.fault = FALSE /\ k.cells[from] = g
      /\ k.cells = [m.cells EXCEPT ![to] = Row(c), ![from] = g]
      BY <1>1, <1>2, <1>4 DEF TakenOver
<1>6. PICK v : v = Array!DestroyRange(k, from, Len(a), Len(b))  OBVIOUS
<1>7. Wrecked(v, k, from, Len(a), Len(b))  BY <1>2, <1>3, <1>5, <1>6, DestroyFields
<1>8. g \in Rows /\ \A i \in Array!Cells : g[i] = IF Len(a) <= i /\ i < Len(b) THEN Array!Moved ELSE Row(b)[i]
      BY <1>2, <1>3 DEF Hollow, Rows, Cell
<1>. HIDE DEF g
<1>9. v.fault = FALSE
  <2>1. ASSUME NEW i \in Len(a)..(Len(b) - 1) PROVE k.cells[from][i] # Array!Raw
    <3>1. i \in Nat /\ i < Len(b) /\ Len(a) <= i  BY <1>3
    <3>2. i \in Array!Cells  BY <1>1, <3>1, RowCells
    <3>. QED  BY <1>5, <1>8, <3>1, <3>2, ArrayNames
  <2>. QED  BY <1>5, <1>7, <2>1 DEF Wrecked
<1>10. h = Row(d)
  <2>1. h \in Rows  BY <1>3, <1>8, RowMembers
  <2>2. ASSUME NEW i \in Array!Cells PROVE h[i] = IF i < Len(d) THEN d[i + 1] ELSE Array!Raw
    <3>1. h[i] = IF Len(a) <= i /\ i < Len(b) THEN Array!Raw ELSE g[i]  BY RowMembers DEF Span
    <3>2. Row(b)[i] = IF i < Len(b) THEN b[i + 1] ELSE Array!Raw  BY <1>1, RowCells
    <3>3. i \in Nat  BY CellNumbers
    <3>4. i < Len(a) => i + 1 \in 1..Len(a)  BY <1>3, <3>3
    <3>. HIDE DEF h
    <3>. QED  BY <1>3, <1>8, <3>1, <3>2, <3>3, <3>4
  <2>3. Len(d) <= MaxSize  BY <1>1
  <2>. HIDE DEF h
  <2>. QED  BY <2>1, <2>2, <2>3, SameRow
<1>. HIDE DEF h
<1>11. /\ v \in ArrayMemory /\ v.heap = k.heap /\ v.arr = k.arr
       /\ v.cells = [m.cells EXCEPT ![to] = Row(c), ![from] = h]
  <2>1. v \in ArrayMemory /\ v.heap = k.heap /\ v.arr = k.arr /\ v.cells = [k.cells EXCEPT ![from] = h]
        BY <1>5, <1>7 DEF Wrecked, SameArrays, h
  <2>. QED  BY <1>2, <1>5, <2>1
<1>12. HasSize(n, v, y, Len(a))  BY <1>3, <1>6, <1>11, SetSizeFields
<1>13. \A u \in Array!Arrays : /\ Array!At(v, u) = Array!At(k, u) /\ Array!Size(v, u) = Array!Size(k, u)
                               /\ Array!Capacity(v, u) = Array!Capacity(k, u)
       BY <1>11 DEF Array!At, Array!Size, Array!Capacity
<1>14. /\ n \in ArrayMemory /\ n.fault = FALSE /\ n.heap = m.heap
       /\ Array!At(n, x) = Array!At(m, x) /\ Array!At(n, y) = Array!At(m, y)
       /\ Array!Capacity(n, x) = Array!Capacity(m, x) /\ Array!Capacity(n, y) = Array!Capacity(m, y)
       /\ Array!Size(n, x) = Len(c) /\ Array!Size(n, y) = Len(d)
       BY <1>4, <1>9, <1>11, <1>12, <1>13 DEF TakenOver, HasSize
<1>15. n.cells = [m.cells EXCEPT ![Array!At(m, x)] = Row(c), ![Array!At(m, y)] = Row(d)]
       BY <1>10, <1>11, <1>12 DEF HasSize
<1>16. /\ Len(c) <= MaxSize /\ Len(d) <= MaxSize /\ Len(c) <= Array!Capacity(m, x)
       /\ Len(d) <= Array!Capacity(m, y)
  <2>1. Array!Capacity(m, y) \in Nat  BY <1>2 DEF ArrayMemory, Arrayed, Array!Capacity
  <2>. QED  BY <1>1, <1>3, <2>1 DEF Placed
<1>. QED  BY <1>1, <1>14, <1>15, <1>16, TwoRows

LEMMA MixedExists ==
    ASSUME NEW a \in Seq(Elements), NEW b \in Seq(Elements), NEW s \in Nat, s <= Len(a), s <= Len(b)
    PROVE  \E c : Mixed(c, a, b, s)
<1>1. PICK c : c = [i \in 1..Len(a) |-> IF i <= s THEN b[i] ELSE a[i]]  OBVIOUS
<1>2. c \in [1..Len(a) -> Elements]
  <2>1. \A i \in 1..Len(a) : a[i] \in Elements /\ (i <= s => b[i] \in Elements)  OBVIOUS
  <2>. QED  BY <1>1, <2>1
<1>3. c \in Seq(Elements) /\ Len(c) = Len(a)
  <2>1. Len(a) \in Nat  OBVIOUS
  <2>. QED  BY <1>2, <2>1, Tabulated
<1>4. \A i \in 1..Len(a) : c[i] = IF i <= s THEN b[i] ELSE a[i]  BY <1>1
<1>. QED  BY <1>3, <1>4 DEF Mixed

\* swap() of the elements, when one array has more.
LEMMA SwapTailKept ==
    ASSUME NEW x \in Array!Arrays, NEW y \in Array!Arrays, x # y, NEW m, NEW a, NEW b,
           Placed(m, x, y, a, b), Len(b) <= Len(a), Len(a) <= Array!Capacity(m, y),
           NEW n, n = Array!SwapTail(m, x, y)
    PROVE  Placed(n, x, y, b, a)
<1>1. /\ a \in Seq(Elements) /\ b \in Seq(Elements) /\ Len(a) <= MaxSize /\ Len(b) <= MaxSize
      /\ Len(a) \in Nat /\ Len(b) \in Nat
      /\ Array!Size(m, x) = Len(a) /\ Array!Size(m, y) = Len(b)
      BY DEF Placed
<1>2. PICK c : Mixed(c, a, b, Len(b))  BY <1>1, MixedExists
<1>3. PICK d : Mixed(d, b, a, Len(b))  BY <1>1, MixedExists
<1>4. PICK e : e = Array!SwapShared(m, x, y, Len(b))  OBVIOUS
<1>5. Placed(e, x, y, c, d)  BY <1>1, <1>2, <1>3, <1>4, SwapSharedKept
<1>6. /\ e.arr = m.arr
  <2>1. m \in ArrayMemory  BY DEF Placed
  <2>. QED  BY <1>4, <2>1 DEF Array!SwapShared, ArrayMemory
<1>7. /\ Array!At(e, x) = Array!At(m, x) /\ Array!Capacity(e, y) = Array!Capacity(m, y)
      BY <1>6 DEF Array!At, Array!Capacity
<1>8. /\ c \in Seq(Elements) /\ Len(c) = Len(a) /\ d \in Seq(Elements) /\ Len(d) = Len(b)
      /\ \A i \in 1..Len(a) : c[i] = IF i <= Len(b) THEN b[i] ELSE a[i]
      /\ \A i \in 1..Len(b) : d[i] = IF i <= Len(b) THEN a[i] ELSE b[i]
      BY <1>2, <1>3 DEF Mixed
<1>9. PICK k : k = Array!MoveOver(e, y, x)  OBVIOUS
<1>10. n = Array!SetSize(Array!DestroyRange(k, Array!At(e, x), Len(d), Len(c)), x, Len(d))
       BY <1>1, <1>4, <1>7, <1>8, <1>9 DEF Array!SwapTail
<1>11. Placed(e, y, x, d, c)  BY <1>5, PlacedBothWays
<1>12. Mixed(a, c, d, Len(d))
  <2>1. ASSUME NEW i \in 1..Len(c) PROVE a[i] = IF i <= Len(d) THEN d[i] ELSE c[i]
    <3>1. i \in 1..Len(a) /\ (i <= Len(b) => i \in 1..Len(b))  BY <1>1, <1>8
    <3>. QED  BY <1>8, <3>1
  <2>. QED  BY <1>1, <1>8, <2>1 DEF Mixed
<1>13. \A i \in 1..Len(d) : b[i] = c[i]
  <2>1. \A i \in 1..Len(b) : i \in 1..Len(a) /\ i <= Len(b)  BY <1>1
  <2>. QED  BY <1>8, <2>1
<1>14. Len(d) <= Len(c) /\ Len(c) <= Array!Capacity(e, y) /\ Len(b) = Len(d)  BY <1>7, <1>8
<1>15. Placed(n, y, x, a, b)
       BY <1>1, <1>9, <1>10, <1>11, <1>12, <1>13, <1>14, TailMovedKept
<1>. QED  BY <1>15, PlacedBothWays

\* swap(), whichever buffers the arrays are in.
LEMMA SwapKept ==
    ASSUME NEW m, NEW q, Kept(m, q), NEW x \in Array!Arrays, NEW y \in Array!Arrays, x # y,
           NEW n, n = Array!Swap(m, x, y)
    PROVE  Placed(n, x, y, q[y], q[x])
<1>1. CASE ~Array!IsInline(m, x) /\ ~Array!IsInline(m, y)
  <2>1. n = [m EXCEPT !.arr[x] = m.arr[y], !.arr[y] = m.arr[x]]  BY <1>1 DEF Array!Swap
  <2>. QED  BY <1>1, <2>1, ExchangeKept
<1>2. CASE ~(~Array!IsInline(m, x) /\ ~Array!IsInline(m, y))
  <2>1. PICK a, b : a = q[x] /\ b = q[y]  OBVIOUS
  <2>2. /\ Array!Size(m, x) = Len(a) /\ Array!Size(m, y) = Len(b)
        /\ Len(a) \in 0..MaxSize /\ Len(b) \in 0..MaxSize
        /\ a \in Seq(Elements) /\ b \in Seq(Elements)
        BY <2>1, KeptTypes, ArrayNames
  <2>3. PICK k : k = Array!Reserve(m, x, Len(b))  OBVIOUS
  <2>4. Kept(k, q) /\ Len(b) <= Array!Capacity(k, x)  BY <2>2, <2>3, ReserveKept
  <2>5. PICK r : r = Array!Reserve(k, y, Len(a))  OBVIOUS
  <2>6. /\ Kept(r, q) /\ Len(a) <= Array!Capacity(r, y)
        /\ Array!Capacity(r, x) = Array!Capacity(k, x)
        BY <2>2, <2>4, <2>5, ReserveKept
  <2>7. n = Array!SwapElements(r, x, y)  BY <1>2, <2>2, <2>3, <2>5 DEF Array!Swap
  <2>8. Placed(r, x, y, a, b)  BY <2>1, <2>6, KeptIsPlaced
  <2>9. Array!Size(r, x) = Len(a) /\ Array!Size(r, y) = Len(b)  BY <2>8 DEF Placed
  <2>10. CASE Len(a) >= Len(b)
    <3>1. n = Array!SwapTail(r, x, y)  BY <2>7, <2>9, <2>10 DEF Array!SwapElements
    <3>2. Len(b) <= Len(a)  BY <2>2, <2>10
    <3>. QED  BY <2>1, <2>6, <2>8, <3>1, <3>2, SwapTailKept
  <2>11. CASE ~(Len(a) >= Len(b))
    <3>1. n = Array!SwapTail(r, y, x)  BY <2>7, <2>9, <2>11 DEF Array!SwapElements
    <3>2. Len(a) <= Len(b) /\ Len(b) <= Array!Capacity(r, x)  BY <2>2, <2>4, <2>6, <2>11
    <3>3. Placed(r, y, x, b, a)  BY <2>8, PlacedBothWays
    <3>4. Placed(n, y, x, a, b)  BY <3>1, <3>2, <3>3, SwapTailKept
    <3>. QED  BY <2>1, <3>4, PlacedBothWays
  <2>. QED  BY <2>10, <2>11
<1>. QED  BY <1>1, <1>2

\* The copy assignment: cleared, then as many as the other has.
LEMMA AssignCopyKept ==
    ASSUME NEW m, NEW q, Kept(m, q), NEW x \in Array!Arrays, NEW y \in Array!Arrays, x # y,
           NEW n, n = Array!AssignCopy(m, x, y)
    PROVE  Kept(n, [q EXCEPT ![x] = q[y]])
<1>1. PICK b, e : b = q[y] /\ e = <<>>  OBVIOUS
<1>2. /\ b \in Seq(Elements) /\ Len(b) \in 0..MaxSize /\ Array!Size(m, y) = Len(b)
      /\ q \in [Array!Arrays -> Seq(Elements)] /\ m.cells[Array!At(m, y)] = Row(b)
      /\ Row(b) \in Rows
      BY <1>1, KeptTypes, ArrayNames, RowCells DEF Kept
<1>3. PICK cleared : cleared = Array!Clear(m, x)  OBVIOUS
<1>4. PICK p : p = [q EXCEPT ![x] = e]  OBVIOUS
<1>5. Kept(cleared, p)  BY <1>1, <1>3, <1>4, ClearKept DEF InPlace
<1>6. PICK room : room = Array!Reserve(cleared, x, Len(b))  OBVIOUS
<1>7. Kept(room, p) /\ Len(b) <= Array!Capacity(room, x)  BY <1>2, <1>5, <1>6, ReserveKept
<1>8. PICK k : k = Array!ConstructRange(room, Array!At(room, x), 0, Len(b), Row(b))  OBVIOUS
<1>9. n = Array!SetSize(k, x, Len(b))  BY <1>2, <1>3, <1>6, <1>8 DEF Array!AssignCopy
<1>10. p[x] = e /\ e \in Seq(Elements) /\ Len(e) = 0  BY <1>1, <1>2, <1>4
<1>11. /\ room \in ArrayMemory /\ room.fault = FALSE /\ Array!At(room, x) \in Buffers
       /\ room.cells \in [Buffers -> Rows]
       /\ room.cells[Array!At(room, x)] = Array!AllRaw
  <2>1. Array!At(room, x) \in Buffers /\ room.cells[Array!At(room, x)] = Row(p[x])
        BY <1>7, KeptTypes
  <2>2. Row(p[x]) = Array!AllRaw  BY <1>1, <1>10, EmptyRow
  <2>. QED  BY <1>7, <2>1, <2>2 DEF Kept, ArrayMemory
<1>12. Built(k, room, Array!At(room, x), 0, Len(b), Row(b))
       BY <1>2, <1>8, <1>11, ConstructRangeFields
<1>13. k.fault = FALSE
  <2>1. ASSUME NEW i \in 0..(Len(b) - 1)
        PROVE  room.cells[Array!At(room, x)][i] = Array!Raw /\ Row(b)[i] # Array!Raw
    <3>1. i \in Nat /\ i < Len(b)  BY <1>2
    <3>2. i \in Array!Cells /\ Row(b)[i] # Array!Raw  BY <1>2, <3>1, RowCells
    <3>. QED  BY <1>11, <3>2, RowMembers
  <2>. QED  BY <1>11, <1>12, <2>1 DEF Built
<1>14. Span(Row(b), Array!AllRaw, 0, Len(b)) = Row(b)
  <2>. DEFINE f == Span(Row(b), Array!AllRaw, 0, Len(b))
  <2>1. f \in Rows  BY <1>2, RowMembers
  <2>2. ASSUME NEW i \in Array!Cells PROVE f[i] = IF i < Len(b) THEN b[i + 1] ELSE Array!Raw
    <3>1. f[i] = IF 0 <= i /\ i < Len(b) THEN Row(b)[i] ELSE Array!Raw  BY RowMembers DEF Span
    <3>2. Row(b)[i] = IF i < Len(b) THEN b[i + 1] ELSE Array!Raw  BY <1>2, RowCells
    <3>. HIDE DEF f
    <3>. QED  BY <3>1, <3>2, CellNumbers
  <2>. HIDE DEF f
  <2>3. f = Row(b)  BY <1>2, <2>1, <2>2, SameRow
  <2>. QED  BY <2>3 DEF f
<1>15. SameArrays(k, room) /\ k.cells = [room.cells EXCEPT ![Array!At(room, x)] = Row(b)]
       BY <1>11, <1>12, <1>14 DEF Built
<1>16. Len(b) <= MaxSize  BY <1>2
<1>17. InPlace(n, room, [p EXCEPT ![x] = b])
       BY <1>2, <1>7, <1>9, <1>13, <1>15, <1>16, SizedKept
<1>18. [p EXCEPT ![x] = b] = [q EXCEPT ![x] = b]  BY <1>2, <1>4
<1>. QED  BY <1>1, <1>17, <1>18 DEF InPlace

\* reset_to_inline() leaves nothing behind and the array in its own buffer.
LEMMA ResetKept ==
    ASSUME NEW m, NEW q, Kept(m, q), NEW x \in Array!Arrays, NEW y \in Array!Arrays, x # y,
           NEW n, n = Array!ResetToInline(m, x)
    PROVE  /\ Placed(n, x, y, <<>>, q[y]) /\ Array!At(n, x) = x /\ n.arr[y] = m.arr[y]
<1>. DEFINE old == Array!At(m, x)
            size == Array!Size(m, x)
<1>1. PICK a, b, e : a = q[x] /\ b = q[y] /\ e = <<>>  OBVIOUS
<1>2. Placed(m, x, y, a, b)  BY <1>1, KeptIsPlaced
<1>3. /\ m \in ArrayMemory /\ m.cells \in [Buffers -> Rows] /\ m.fault = FALSE
      /\ old \in Buffers /\ x \in Buffers /\ a \in Seq(Elements) /\ Len(a) = size /\ size \in Nat
      /\ Len(a) <= MaxSize /\ m.cells[old] = Row(a) /\ m.arr \in [Array!Arrays -> Arrayed]
      BY <1>2 DEF Placed, ArrayMemory, Buffers
<1>4. PICK k : k = Array!DestroyRange(m, old, 0, size)  OBVIOUS
<1>5. Wrecked(k, m, old, 0, size)  BY <1>3, <1>4, DestroyFields
<1>6. k.fault = FALSE
  <2>1. ASSUME NEW i \in 0..(size - 1) PROVE m.cells[old][i] # Array!Raw
    <3>1. i \in Nat /\ i < Len(a)  BY <1>3
    <3>. QED  BY <1>3, <3>1, RowCells
  <2>. QED  BY <1>3, <1>5, <2>1 DEF Wrecked
<1>7. Span(Array!AllRaw, Row(a), 0, size) = Array!AllRaw
  <2>1. \A i \in Array!Cells : ~(i < size) => Row(a)[i] = Array!Raw  BY <1>3, RowCells
  <2>. QED  BY <2>1, CellNumbers DEF Array!AllRaw, Span
<1>8. k \in ArrayMemory /\ k.heap = m.heap /\ k.arr = m.arr /\ k.cells = [m.cells EXCEPT ![old] = Array!AllRaw]
      BY <1>3, <1>5, <1>7 DEF Wrecked, SameArrays
<1>9. PICK c : c = IF Array!IsInline(m, x) THEN m.arr[x].capacity ELSE Inline[x]  OBVIOUS
<1>10. c \in Nat  BY <1>3, <1>9, ArrayNames DEF Arrayed
<1>. DEFINE r == [at |-> x, size |-> 0, capacity |-> c]
            arr == [k.arr EXCEPT ![x] = r]
<1>11. r \in Arrayed  BY <1>3, <1>10 DEF Arrayed
<1>12. n = [k EXCEPT !.heap = k.heap \ {old}, !.arr = arr]
  <2>1. n = [k EXCEPT !.heap = @ \ {old}, !.arr[x] = r]
        BY <1>4, <1>8, <1>9 DEF Array!ResetToInline
  <2>. HIDE DEF r
  <2>. QED  BY <1>8, <2>1 DEF ArrayMemory
<1>13. /\ n \in ArrayMemory /\ n.heap = m.heap \ {old} /\ n.fault = FALSE /\ n.cells = k.cells
       /\ n.arr[x] = r /\ n.arr[y] = m.arr[y]
  <2>. HIDE DEF r
  <2>1. arr \in [Array!Arrays -> Arrayed] /\ arr[x] = r /\ arr[y] = m.arr[y]
        BY <1>3, <1>8, <1>11
  <2>. HIDE DEF arr
  <2>. QED  BY <1>6, <1>8, <1>12, <2>1 DEF ArrayMemory
<1>14. /\ Array!At(n, x) = x /\ Array!Size(n, x) = 0 /\ Array!Capacity(n, x) = c
       /\ Array!At(n, y) = Array!At(m, y) /\ Array!Size(n, y) = Array!Size(m, y)
       /\ Array!Capacity(n, y) = Array!Capacity(m, y)
       BY <1>13 DEF Array!At, Array!Size, Array!Capacity
<1>15. x \notin HeapBuffers /\ Array!At(m, y) # x /\ Array!At(m, y) # old
       BY <1>2, ArrayNames DEF Placed
<1>16. n.heap = {Array!At(n, x), Array!At(n, y)} \cap HeapBuffers
       BY <1>2, <1>13, <1>14, <1>15 DEF Placed
<1>17. n.cells[x] = Array!AllRaw
  <2>1. CASE old = x  BY <1>3, <1>8, <1>13, <2>1
  <2>2. CASE old # x  BY <1>2, <1>3, <1>8, <1>13, <1>15, <2>2 DEF Placed
  <2>. QED  BY <2>1, <2>2
<1>18. n.cells[Array!At(n, y)] = Row(b)
  <2>1. Array!At(m, y) \in Buffers /\ m.cells[Array!At(m, y)] = Row(b)  BY <1>2 DEF Placed, Buffers
  <2>. QED  BY <1>3, <1>8, <1>13, <1>14, <1>15, <2>1
<1>19. \A d \in Buffers : d # Array!At(n, x) /\ d # Array!At(n, y) => n.cells[d] = Array!AllRaw
  <2>. SUFFICES ASSUME NEW d \in Buffers, d # x, d # Array!At(m, y) PROVE n.cells[d] = Array!AllRaw
       BY <1>14
  <2>1. CASE d = old  BY <1>3, <1>8, <1>13, <2>1
  <2>2. CASE d # old  BY <1>2, <1>3, <1>8, <1>13, <2>2 DEF Placed
  <2>. QED  BY <2>1, <2>2
<1>20. e \in Seq(Elements) /\ Len(e) = 0 /\ Row(e) = Array!AllRaw  BY <1>1, EmptyRow
<1>21. Placed(n, x, y, e, b)
  <2>1. Len(e) = Array!Size(n, x) /\ Array!Size(n, x) <= Array!Capacity(n, x) /\ Len(e) <= MaxSize
        BY <1>10, <1>14, <1>20, ArrayNames
  <2>2. /\ b \in Seq(Elements) /\ Len(b) = Array!Size(n, y) /\ Array!Size(n, y) <= Array!Capacity(n, y)
        /\ Len(b) <= MaxSize
        BY <1>2, <1>14 DEF Placed
  <2>3. /\ Array!At(n, x) # Array!At(n, y)
        /\ Array!At(n, x) \in HeapBuffers \cup {x} /\ Array!At(n, y) \in HeapBuffers \cup {y}
        BY <1>2, <1>14, <1>15 DEF Placed
  <2>4. n.cells[Array!At(n, x)] = Row(e)  BY <1>14, <1>17, <1>20
  <2>. QED  BY <1>13, <1>16, <1>18, <1>19, <1>20, <2>1, <2>2, <2>3, <2>4 DEF Placed
<1>. QED  BY <1>1, <1>13, <1>14, <1>21

\* A buffer of the heap is handed over, and the other is left with its own.
LEMMA StealKept ==
    ASSUME NEW x \in Array!Arrays, NEW y \in Array!Arrays, x # y, NEW m, NEW b,
           Placed(m, x, y, <<>>, b), Array!At(m, x) = x, ~Array!IsInline(m, y),
           NEW n, n = Array!Steal(m, x, y)
    PROVE  Placed(n, x, y, b, <<>>)
<1>1. PICK e : e = <<>>  OBVIOUS
<1>2. Placed(m, x, y, e, b)  BY <1>1
<1>3. /\ e \in Seq(Elements) /\ Len(e) = 0 /\ Row(e) = Array!AllRaw  BY <1>1, EmptyRow
<1>4. PICK r : r = [at |-> y, size |-> 0, capacity |-> Inline[y]]  OBVIOUS
<1>5. r \in Arrayed /\ r.at = y /\ r.size = 0 /\ r.capacity = Inline[y]
      BY <1>4, ArrayNames DEF Arrayed, Buffers
<1>6. m \in ArrayMemory /\ m.arr \in [Array!Arrays -> Arrayed]  BY <1>2 DEF Placed, ArrayMemory
<1>7. n = [m EXCEPT !.arr[x] = m.arr[y], !.arr[y] = r]  BY <1>4 DEF Array!Steal
<1>8. /\ n \in ArrayMemory /\ n.heap = m.heap /\ n.cells = m.cells /\ n.fault = m.fault
      /\ n.arr[x] = m.arr[y] /\ n.arr[y] = r
  <2>1. PICK arr : arr = [m.arr EXCEPT ![x] = m.arr[y], ![y] = r]  OBVIOUS
  <2>2. arr \in [Array!Arrays -> Arrayed] /\ arr[x] = m.arr[y] /\ arr[y] = r  BY <1>5, <1>6, <2>1
  <2>3. n = [m EXCEPT !.arr = arr]  BY <1>6, <1>7, <2>1 DEF ArrayMemory
  <2>. QED  BY <1>6, <2>2, <2>3 DEF ArrayMemory
<1>9. /\ Array!At(n, x) = Array!At(m, y) /\ Array!Size(n, x) = Array!Size(m, y)
      /\ Array!Capacity(n, x) = Array!Capacity(m, y)
      /\ Array!At(n, y) = y /\ Array!Size(n, y) = 0 /\ Array!Capacity(n, y) = Inline[y]
      BY <1>5, <1>8 DEF Array!At, Array!Size, Array!Capacity
<1>10. /\ Array!At(m, y) \in HeapBuffers /\ x \notin HeapBuffers /\ y \notin HeapBuffers
       /\ x \in Buffers /\ y \in Buffers /\ Inline[y] \in Nat /\ MaxSize \in Nat
       BY <1>2, ArrayNames DEF Placed, Array!IsInline, Buffers
<1>11. n.heap = {Array!At(n, x), Array!At(n, y)} \cap HeapBuffers
       BY <1>2, <1>8, <1>9, <1>10 DEF Placed
<1>12. n.cells[y] = Row(e)  BY <1>2, <1>3, <1>8, <1>10 DEF Placed
<1>13. ASSUME NEW d \in Buffers, d # Array!At(n, x), d # Array!At(n, y) PROVE n.cells[d] = Array!AllRaw
  <2>1. CASE d = x  BY <1>2, <1>3, <1>8, <2>1 DEF Placed
  <2>2. CASE d # x  BY <1>2, <1>8, <1>9, <1>13, <2>2 DEF Placed
  <2>. QED  BY <2>1, <2>2
<1>14. \A d \in Buffers : d # Array!At(n, x) /\ d # Array!At(n, y) => n.cells[d] = Array!AllRaw
       BY <1>13
<1>15. Placed(n, x, y, b, e)
  <2>1. /\ n \in ArrayMemory /\ n.fault = FALSE /\ Array!At(n, x) # Array!At(n, y)
        /\ Array!At(n, x) \in HeapBuffers \cup {x} /\ Array!At(n, y) \in HeapBuffers \cup {y}
        BY <1>2, <1>8, <1>9, <1>10 DEF Placed
  <2>2. /\ b \in Seq(Elements) /\ Len(b) = Array!Size(n, x) /\ Array!Size(n, x) <= Array!Capacity(n, x)
        /\ Len(b) <= MaxSize /\ n.cells[Array!At(n, x)] = Row(b)
        BY <1>2, <1>8, <1>9 DEF Placed
  <2>3. /\ Len(e) = Array!Size(n, y) /\ Array!Size(n, y) <= Array!Capacity(n, y)
        /\ Len(e) <= MaxSize /\ n.cells[Array!At(n, y)] = Row(e)
        BY <1>3, <1>9, <1>10, <1>12
  <2>. QED  BY <1>3, <1>11, <1>14, <2>1, <2>2, <2>3 DEF Placed
<1>. QED  BY <1>1, <1>15

\* The move assignment: the buffer, or the elements one by one.
LEMMA AssignMoveKept ==
    ASSUME NEW m, NEW q, Kept(m, q), NEW x \in Array!Arrays, NEW y \in Array!Arrays, x # y,
           NEW n, n = Array!AssignMove(m, x, y)
    PROVE  Placed(n, x, y, q[y], <<>>)
<1>1. PICK b, e : b = q[y] /\ e = <<>>  OBVIOUS
<1>2. PICK z : z = Array!ResetToInline(m, x)  OBVIOUS
<1>3. Placed(z, x, y, e, b) /\ Array!At(z, x) = x /\ z.arr[y] = m.arr[y]
      BY <1>1, <1>2, ResetKept
<1>4. /\ b \in Seq(Elements) /\ Array!Size(m, y) = Len(b) /\ Len(b) \in 0..MaxSize
      /\ q \in [Array!Arrays -> Seq(Elements)]
      BY <1>1, KeptTypes, ArrayNames DEF Kept
<1>5. e \in Seq(Elements) /\ Len(e) = 0  BY <1>1
<1>6. CASE ~Array!IsInline(m, y)
  <2>1. n = Array!Steal(z, x, y)  BY <1>2, <1>6 DEF Array!AssignMove
  <2>2. ~Array!IsInline(z, y)  BY <1>3, <1>6 DEF Array!IsInline, Array!At
  <2>3. Placed(z, x, y, <<>>, b)  BY <1>1, <1>3
  <2>. QED  BY <1>1, <1>3, <2>1, <2>2, <2>3, StealKept
<1>7. CASE Array!IsInline(m, y)
  <2>1. PICK p : p = [q EXCEPT ![x] = e]  OBVIOUS
  <2>2. p \in [Array!Arrays -> Seq(Elements)] /\ p[x] = e /\ p[y] = b  BY <1>1, <1>4, <1>5, <2>1
  <2>3. Kept(z, p)  BY <1>3, <2>2, PlacedIsKept
  <2>4. PICK room : room = Array!Reserve(z, x, Len(b))  OBVIOUS
  <2>5. Kept(room, p) /\ Len(b) <= Array!Capacity(room, x)  BY <1>4, <2>3, <2>4, ReserveKept
  <2>6. Placed(room, x, y, e, b)  BY <2>2, <2>5, KeptIsPlaced
  <2>7. PICK k : k = Array!MoveOver(room, x, y)  OBVIOUS
  <2>8. n = Array!Clear(k, y)  BY <1>2, <1>4, <1>7, <2>4, <2>7 DEF Array!AssignMove
  <2>9. Len(e) <= Len(b) /\ Mixed(b, b, e, Len(e))
    <3>1. \A i \in 1..Len(b) : ~(i <= 0)  OBVIOUS
    <3>. QED  BY <1>4, <1>5, <3>1 DEF Mixed
  <2>10. TakenOver(k, room, x, y, e, b)  BY <2>5, <2>6, <2>7, <2>9, MoveOverTakes
  <2>11. Array!At(k, y) = Array!At(room, y) /\ Array!Size(k, y) = Len(b)
         BY <2>6, <2>10 DEF TakenOver, Placed
  <2>12. n = Array!SetSize(Array!DestroyRange(k, Array!At(room, y), Len(e), Len(b)), y, Len(e))
         BY <1>5, <2>8, <2>11 DEF Array!Clear
  <2>13. \A i \in 1..Len(e) : e[i] = b[i]  BY <1>5
  <2>14. Placed(n, x, y, b, e)
         BY <1>5, <2>5, <2>6, <2>7, <2>9, <2>12, <2>13, TailMovedKept
  <2>. QED  BY <1>1, <2>14
<1>. QED  BY <1>6, <1>7

LEMMA RenewKept ==
    ASSUME NEW m, NEW q, Kept(m, q), NEW x \in Array!Arrays, NEW n, n = Array!ResetToInline(m, x)
    PROVE  Kept(n, [q EXCEPT ![x] = <<>>])
<1>1. PICK y, e : y = Array!Other(x) /\ e = <<>>  OBVIOUS
<1>2. y \in Array!Arrays /\ x # y  BY <1>1, OtherArray
<1>3. Placed(n, x, y, e, q[y])  BY <1>1, <1>2, ResetKept
<1>4. PICK p : p = [q EXCEPT ![x] = e]  OBVIOUS
<1>5. e \in Seq(Elements) /\ q \in [Array!Arrays -> Seq(Elements)]  BY <1>1 DEF Kept
<1>6. p \in [Array!Arrays -> Seq(Elements)] /\ p[x] = e /\ p[y] = q[y]  BY <1>2, <1>4, <1>5
<1>7. Kept(n, p)  BY <1>2, <1>3, <1>6, PlacedIsKept
<1>. QED  BY <1>1, <1>4, <1>7

-----------------------------------------------------------------------------
LEMMA ArrayBegins == Array!Init => Kept(memory, promised)
<1>. SUFFICES ASSUME Array!Init PROVE Kept(memory, promised)  OBVIOUS
<1>1. PICK x : x \in Array!Arrays  BY ArrayAssumption DEF Array!ArrayAssumption, Array!Arrays
<1>2. /\ memory.cells = [b \in Buffers |-> Array!AllRaw] /\ memory.heap = {} /\ memory.fault = FALSE
      /\ memory = [cells |-> memory.cells, heap |-> memory.heap, arr |-> memory.arr, fault |-> memory.fault]
      /\ memory.arr = [y \in Array!Arrays |-> [at |-> y, size |-> 0, capacity |-> Inline[y]]]
      BY DEF Array!Init, Buffers
<1>3. promised = [y \in Array!Arrays |-> <<>>]  BY DEF Array!Init
<1>4. memory.arr \in [Array!Arrays -> Arrayed]
  <2>1. \A y \in Array!Arrays : [at |-> y, size |-> 0, capacity |-> Inline[y]] \in Arrayed
        BY ArrayNames DEF Arrayed, Buffers
  <2>. QED  BY <1>2, <2>1
<1>5. memory \in ArrayMemory
  <2>1. memory.cells \in [Buffers -> Rows]  BY <1>2, RowMembers
  <2>. QED  BY <1>2, <1>4, <2>1 DEF ArrayMemory
<1>6. \A y \in Array!Arrays : /\ Array!At(memory, y) = y /\ Array!Size(memory, y) = 0
                              /\ Array!Capacity(memory, y) = Inline[y] /\ Inline[y] \in Nat
                              /\ y \notin HeapBuffers /\ y \in Buffers
      BY <1>2, ArrayNames DEF Array!At, Array!Size, Array!Capacity, Buffers
<1>7. promised \in [Array!Arrays -> Seq(Elements)]  BY <1>3
<1>8. ASSUME NEW y \in Array!Arrays
      PROVE  /\ Len(promised[y]) = Array!Size(memory, y)
             /\ Array!Size(memory, y) <= Array!Capacity(memory, y)
             /\ Array!Size(memory, y) <= MaxSize
             /\ memory.cells[Array!At(memory, y)] = Row(promised[y])
  <2>1. promised[y] = <<>> /\ Len(<<>>) = 0  BY <1>3
  <2>2. memory.cells[y] = Array!AllRaw  BY <1>2, <1>6
  <2>. QED  BY <1>6, <2>1, <2>2, EmptyRow, ArrayNames
<1>. QED  BY <1>2, <1>5, <1>6, <1>7, <1>8 DEF Kept

\* Whatever is handed over by reference is a value.
LEMMA RefsAreRead ==
    ASSUME Kept(memory, promised), NEW ref \in Array!Refs
    PROVE  Array!Read(memory, ref) \in Elements
<1>1. CASE \E v \in Elements : ref = <<v>>
  <2>1. PICK v \in Elements : ref = <<v>>  BY <1>1
  <2>2. Len(ref) = 1 /\ ref[1] = v  BY <2>1
  <2>. QED  BY <2>2 DEF Array!Read
<1>2. CASE \E x \in Array!Arrays : \E i \in 0..(Array!Size(memory, x) - 1) : ref = <<Array!At(memory, x), i>>
  <2>1. PICK x \in Array!Arrays : \E i \in 0..(Array!Size(memory, x) - 1) : ref = <<Array!At(memory, x), i>>
        BY <1>2
  <2>2. PICK i \in 0..(Array!Size(memory, x) - 1) : ref = <<Array!At(memory, x), i>>  BY <2>1
  <2>3. Len(ref) = 2 /\ ref[1] = Array!At(memory, x) /\ ref[2] = i  BY <2>2
  <2>4. Array!Read(memory, ref) = memory.cells[Array!At(memory, x)][i]  BY <2>3 DEF Array!Read
  <2>5. PICK q : q = promised[x]  OBVIOUS
  <2>6. /\ memory.cells[Array!At(memory, x)] = Row(q) /\ q \in Seq(Elements) /\ Len(q) <= MaxSize
        /\ Array!Size(memory, x) = Len(q)
        BY <2>5, KeptTypes
  <2>7. i \in Nat /\ i < Len(q)  BY <2>6
  <2>. QED  BY <2>4, <2>6, <2>7, RowCells
<1>. QED  BY <1>1, <1>2 DEF Array!Refs

ArrayInv == Kept(memory, promised)

\* Each operation of the caller does to the arrays what it does to two vectors.
LEMMA ArrayStep == ArrayInv /\ [Array!Next]_(Array!vars) => ArrayInv'
<1>. SUFFICES ASSUME Kept(memory, promised), [Array!Next]_(Array!vars)
              PROVE  Kept(memory', promised')
     BY DEF ArrayInv
<1>0. CASE UNCHANGED Array!vars  BY <1>0 DEF Array!vars
<1>. SUFFICES ASSUME NEW x \in Array!Arrays,
                     \/ Array!PushBackOrInsert(x) \/ Array!InsertMany(x) \/ Array!InsertOther(x)
                     \/ Array!Erase(x) \/ Array!ClearOrResize(x) \/ Array!SwapBoth(x)
                     \/ Array!Assign(x) \/ Array!Renew(x)
              PROVE  Kept(memory', promised')
     BY <1>0 DEF Array!Next
<1>. DEFINE q == promised
<1>1. /\ promised \in [Array!Arrays -> Seq(Elements)] /\ MaxSize \in Nat
      /\ \A y \in Array!Arrays : Array!Size(memory, y) \in Nat /\ promised[y] \in Seq(Elements)
      BY KeptTypes, ArrayNames DEF Kept
<1>2. PICK y : y = Array!Other(x)  OBVIOUS
<1>3. y \in Array!Arrays /\ x # y /\ Array!Other(y) = x /\ Array!Arrays = {x, y}
  <2>1. y \in Array!Arrays /\ x # y  BY <1>2, OtherArray
  <2>. QED  BY <2>1, TwoArrays
<1>4. CASE Array!PushBackOrInsert(x)
  <2>1. PICK ref \in Array!Refs, pos \in 0..Array!Size(memory, x) :
          /\ memory' = Array!InsertOne(memory, x, pos, ref)
          /\ promised' = [promised EXCEPT ![x] = Array!InsertedAt(promised[x], pos, <<Array!Read(memory, ref)>>)]
        BY <1>4 DEF Array!PushBackOrInsert, Array!Promise
  <2>2. Array!Size(memory, x) < MaxSize  BY <1>1, <1>4 DEF Array!PushBackOrInsert, Array!Fits
  <2>3. Array!Read(memory, ref) \in Elements  BY RefsAreRead
  <2>. QED  BY <2>1, <2>2, <2>3, InsertOneKept
<1>5. CASE Array!InsertMany(x)
  <2>1. PICK ref \in Array!Refs, pos \in 0..Array!Size(memory, x) :
          /\ Array!Size(memory, x) + 2 <= MaxSize
          /\ memory' = Array!InsertCount(memory, x, pos, 2, ref)
          /\ promised' = [promised EXCEPT ![x] = Array!InsertedAt(promised[x], pos, Array!Repeated(Array!Read(memory, ref), 2))]
        BY <1>5 DEF Array!InsertMany, Array!Promise, Array!Fits
  <2>2. Array!Read(memory, ref) \in Elements  BY RefsAreRead
  <2>3. 2 \in Nat  OBVIOUS
  <2>. QED  BY <2>1, <2>2, <2>3, InsertCountKept
<1>6. CASE Array!InsertOther(x)
  <2>1. PICK pos \in 0..Array!Size(memory, x) :
          /\ Array!Size(memory, x) + Array!Size(memory, y) <= MaxSize
          /\ memory' = Array!InsertRange(memory, x, pos, y)
          /\ promised' = [promised EXCEPT ![x] = Array!InsertedAt(promised[x], pos, promised[y])]
        BY <1>2, <1>6 DEF Array!InsertOther, Array!Promise, Array!Fits
  <2>. QED  BY <1>3, <2>1, InsertRangeKept
<1>7. CASE Array!Erase(x)
  <2>1. PICK to \in 0..Array!Size(memory, x) : \E from \in 0..to :
          /\ memory' = Array!EraseRange(memory, x, from, to)
          /\ promised' = [promised EXCEPT ![x] =
                SubSeq(promised[x], 1, from) \o SubSeq(promised[x], to + 1, Len(promised[x]))]
        BY <1>7 DEF Array!Erase, Array!Promise
  <2>2. PICK from \in 0..to :
          /\ memory' = Array!EraseRange(memory, x, from, to)
          /\ promised' = [promised EXCEPT ![x] =
                SubSeq(promised[x], 1, from) \o SubSeq(promised[x], to + 1, Len(promised[x]))]
        BY <2>1
  <2>. QED  BY <2>2, EraseKept
<1>8. CASE Array!ClearOrResize(x)
  <2>1. CASE memory' = Array!Clear(memory, x) /\ Array!Promise(x, <<>>)
    <3>1. promised' = [promised EXCEPT ![x] = <<>>]  BY <2>1 DEF Array!Promise
    <3>. QED  BY <2>1, <3>1, ClearKept DEF InPlace
  <2>2. CASE ~(memory' = Array!Clear(memory, x) /\ Array!Promise(x, <<>>))
    <3>1. PICK n \in 0..MaxSize, v \in Elements :
            /\ memory' = Array!Resize(memory, x, n, v)
            /\ promised' = [promised EXCEPT ![x] =
                  [i \in 1..n |-> IF i <= Array!Size(memory, x) THEN promised[x][i] ELSE v]]
          BY <1>8, <2>2 DEF Array!ClearOrResize, Array!Promise
    <3>2. PICK r : r = Fitted(promised[x], Array!Size(memory, x), n, v)  OBVIOUS
    <3>3. promised' = [promised EXCEPT ![x] = r]  BY <3>1, <3>2 DEF Fitted
    <3>4. memory' = Array!Resize(memory, x, n, v)  BY <3>1
    <3>. QED  BY <3>2, <3>3, <3>4, ResizeKept
  <2>. QED  BY <2>1, <2>2
<1>9. CASE Array!SwapBoth(x)
  <2>1. /\ memory' = Array!Swap(memory, x, y)
        /\ promised' = [z \in Array!Arrays |-> promised[Array!Other(z)]]
        BY <1>2, <1>9 DEF Array!SwapBoth
  <2>2. Placed(memory', x, y, promised[y], promised[x])  BY <1>3, <2>1, SwapKept
  <2>3. promised' \in [Array!Arrays -> Seq(Elements)] /\ promised'[x] = promised[y] /\ promised'[y] = promised[x]
        BY <1>1, <1>2, <1>3, <2>1
  <2>. QED  BY <1>3, <2>2, <2>3, PlacedIsKept
<1>10. CASE Array!Assign(x)
  <2>1. CASE memory' = Array!AssignCopy(memory, x, y) /\ Array!Promise(x, promised[y])
    <3>1. promised' = [promised EXCEPT ![x] = promised[y]]  BY <2>1 DEF Array!Promise
    <3>. QED  BY <1>3, <2>1, <3>1, AssignCopyKept
  <2>2. CASE ~(memory' = Array!AssignCopy(memory, x, y) /\ Array!Promise(x, promised[y]))
    <3>1. /\ memory' = Array!AssignMove(memory, x, y)
          /\ promised' = [z \in Array!Arrays |-> IF z = x THEN promised[y] ELSE <<>>]
          BY <1>2, <1>10, <2>2 DEF Array!Assign
    <3>2. Placed(memory', x, y, promised[y], <<>>)  BY <1>3, <3>1, AssignMoveKept
    <3>3. promised' \in [Array!Arrays -> Seq(Elements)] /\ promised'[x] = promised[y] /\ promised'[y] = <<>>
          BY <1>1, <1>3, <3>1
    <3>. QED  BY <1>3, <3>2, <3>3, PlacedIsKept
  <2>. QED  BY <2>1, <2>2
<1>11. CASE Array!Renew(x)
  <2>1. memory' = Array!ResetToInline(memory, x) /\ promised' = [promised EXCEPT ![x] = <<>>]
        BY <1>11 DEF Array!Renew, Array!Promise
  <2>. QED  BY <2>1, RenewKept
<1>. QED  BY <1>4, <1>5, <1>6, <1>7, <1>8, <1>9, <1>10, <1>11

LEMMA ArrayPromises == ArrayInv => Array!ElementsAreKept
<1>. SUFFICES ASSUME Kept(memory, promised) PROVE Array!ElementsAreKept  BY DEF ArrayInv
<1>1. memory.heap = {Array!At(memory, x) : x \in Array!Arrays} \cap HeapBuffers
  <2>1. memory.heap \in SUBSET HeapBuffers  BY DEF Kept, ArrayMemory
  <2>2. \A b \in HeapBuffers : b \in memory.heap <=> \E x \in Array!Arrays : Array!At(memory, x) = b
        BY DEF Kept
  <2>. QED  BY <2>1, <2>2
<1>2. ASSUME NEW x \in Array!Arrays
      PROVE  /\ Array!Size(memory, x) = Len(promised[x])
             /\ Array!Size(memory, x) <= Array!Capacity(memory, x)
             /\ \A i \in Array!Cells :
                    memory.cells[Array!At(memory, x)][i] =
                        IF i < Array!Size(memory, x) THEN promised[x][i + 1] ELSE Array!Raw
  <2>1. PICK q : q = promised[x]  OBVIOUS
  <2>2. /\ memory.cells[Array!At(memory, x)] = Row(q) /\ q \in Seq(Elements) /\ Len(q) <= MaxSize
        /\ Array!Size(memory, x) = Len(q) /\ Array!Size(memory, x) <= Array!Capacity(memory, x)
        BY <2>1, KeptTypes DEF Kept
  <2>3. \A i \in Array!Cells : Row(q)[i] = IF i < Len(q) THEN q[i + 1] ELSE Array!Raw  BY <2>2, RowCells
  <2>. QED  BY <2>1, <2>2, <2>3
<1>. QED  BY <1>1, <1>2 DEF Kept, Array!ElementsAreKept

\* A vlarray holds what a vector would, whatever is inserted, by whichever reference, erased,
\* resized, assigned, moved and swapped, between its own buffer and the heap; no element is built
\* over another, read after it is gone or lost, and no buffer is leaked or shared (vlarray.h).
THEOREM ElementsAreKeptHolds == StoresSpec => []ElementsAreKept
<1>1. StoresInit => ArrayInv  BY ArrayBegins DEF StoresInit, ArrayInv
<1>2. ArrayInv /\ [StoresNext]_storesVars => ArrayInv'  BY PartSteps, ArrayStep
<1>3. ArrayInv => ElementsAreKept  BY ArrayPromises DEF ElementsAreKept
<1>. QED  BY <1>1, <1>2, <1>3, PTL DEF StoresSpec
=============================================================================
