------------------------------- MODULE Stores -------------------------------
(***************************************************************************)
(* Those of the Parts that keep data: the categories of the log and what   *)
(* filters them, anys and the objects they own, linked_maps, vlarrays.      *)
(***************************************************************************)
EXTENDS Integers, FiniteSets

CONSTANTS
    Threads,                                 \* of every part but StaticRegistry
    Categories, NameOf, RuleTexts,           \* LogRegistry
    Anys, HeldTypes, Inlined, HeldObjects,   \* Any
    Keys, Values, Maps, MaxNodes,            \* LinkedMap
    Elements, Inline, HeapBuffers,           \* VLArray
    MinHeapCapacity, MaxSize

\* The objects of a program are finitely many, and 0 is none that an any holds.  The words that
\* mean that there is no type are no types.
ASSUME StoresAssumption ==
    /\ "other" \notin Anys /\ "temp" \notin Anys
    /\ HeldTypes \cap {"raw", "null", "empty"} = {}
    /\ IsFiniteSet(HeldObjects) /\ 0 \notin HeldObjects

VARIABLES
    part,                                                                    \* the one that moves
    logPc, logHolder, categories, categoryAlive, levelEnabled, filterRules,  \* LogRegistry
    rules, categoryFilter, toFilter, applying, record, excused, touched,
    anys, held,                                                              \* Any
    list, index, torn,                                                       \* LinkedMap
    memory, promised                                                         \* VLArray

logVars == <<logPc, logHolder, categories, categoryAlive, levelEnabled, filterRules, rules,
             categoryFilter, toFilter, applying, record, excused, touched>>
anyVars == <<anys, held>>
mapVars == <<list, index, torn>>
arrayVars == <<memory, promised>>
storesVars == <<part, logVars, anyVars, mapVars, arrayVars>>

Log == INSTANCE LogRegistry WITH pc <- logPc, holder <- logHolder, alive <- categoryAlive

Owner == INSTANCE Any WITH s <- anys, meant <- held

Map == INSTANCE LinkedMap

Array == INSTANCE VLArray WITH s <- memory

ASSUME ArrayAssumption == Array!ArrayAssumption

\* The parser makes of the texts of the rules what logging.h says of them.
ASSUME ParserAssumption == Log!ParserIsFaithful

StoreParts == {"log", "any", "map", "array"}

StoresInit == Log!Init /\ Owner!Init /\ Map!Init /\ Array!Init

StoresNext ==
    \/ part = "log" /\ Log!Next /\ UNCHANGED <<part, anyVars, mapVars, arrayVars>>
    \/ part = "any" /\ Owner!Next /\ UNCHANGED <<part, logVars, mapVars, arrayVars>>
    \/ part = "map" /\ Map!Next /\ UNCHANGED <<part, logVars, anyVars, arrayVars>>
    \/ part = "array" /\ Array!Next /\ UNCHANGED <<part, logVars, anyVars, mapVars>>

StoresSpec == StoresInit /\ [][StoresNext]_storesVars

-----------------------------------------------------------------------------
\* The levels of a category are what the rules and the filter in force say, and a record of a
\* level that is off is not delivered.
LogFollowsTheRules == Log!LevelsAgree /\ Log!SilencedIsSilent

\* An any holds what it was last given and casts to that type alone, and every object that is
\* alive belongs to one any and is destroyed once, as what it is.
OwnedOnce == Owner!OwnedOnce

\* The index and the list of a linked_map speak of the same pairs, and no two maps share a node.
IndexIsTheList == Map!IndexIsTheList

\* A vlarray holds what a vector would, and loses no element.
ElementsAreKept == Array!ElementsAreKept
=============================================================================
