------------------------------- MODULE Parts -------------------------------
(***************************************************************************)
(* The parts of the library that share no state with one another, side by  *)
(* side: a behaviour is one of the part chosen at the beginning, the       *)
(* others stay as they are.  For TLC their state spaces add up instead of  *)
(* multiplying; for a proof the invariant of a part is one of the whole,   *)
(* whose other steps leave that part alone.                                *)
(***************************************************************************)
EXTENDS Integers, FiniteSets, Stores

CONSTANTS
    CallerMax, MaxFd, CallerFile,            \* ChildFds
    Callers, Dispositions, Default, Ignore,  \* SigpipeGuard: Callers call communicate()
    Objects, Libraries, MaxUsers,            \* SharedLibrary
    Files, ConsoleFds, Slots,                \* ConsoleTargets
    Names, Listeners, MaxEntries, MaxDepth,  \* DynamicRegistry
    WriterCalls,                             \* ConsoleOutput
    Entries, TypeOf, MaxAddress,             \* TypeIds
    Nodes, Loaders, Readers                  \* StaticRegistry

\* The table has room for what start() opens, and what the caller has open is nothing that
\* start() opens, nor a word of IODev.  The objects of a program are finitely many, and so is what
\* the models bound; SIG_DFL and SIG_IGN are two dispositions, -1 is no descriptor, and a program
\* has a FILE, its standard output.
ASSUME PartsAssumption ==
    /\ CallerMax \in Nat /\ MaxFd \in Nat /\ MaxFd >= CallerMax + 11
    /\ \A i \in 0..CallerMax :
           CallerFile[i] \notin {"free", "null", "inR", "inW", "outR", "outW", "errR", "errW",
                               "pipeR", "pipeW", "none", "PIPE", "DEVNULL", "STDOUT"}
    /\ {Default, Ignore} \subseteq Dispositions /\ Default # Ignore
    /\ IsFiniteSet(Objects)
    /\ -1 \notin ConsoleFds /\ Files # {}
    /\ MaxEntries \in Nat /\ MaxAddress \in Nat
    /\ MaxUsers \in Nat /\ Slots \in Nat /\ MaxDepth \in Nat

VARIABLES
    fdsPc, caller, cloexecOf, dev, passFds, closeFds, file, cloexec, fd,     \* ChildFds
    guardPc, guardAlive, disposition, wanted, old, reading,                  \* SigpipeGuard
    there, hDll, path, released, error, users, forgotten, given,             \* SharedLibrary
    consolePc, target, fileno, behind, cache, id, kind, redirected, recurred,   \* ConsoleTargets
    lock, entries, listeners, made, calls, heard, alive, unwatched, cleared, \* DynamicRegistry
    outPc, call, work, attrs, output, mode, outHolder, current, csbi,        \* ConsoleOutput
    terminal, stream, spoiled,
    typePc, typeAsked, found, loaded, typeId, typeLock, names, nextAddress,  \* TypeIds
    answers,
    staticPc, adding, seenTail, head, tail, next, registered, at, read,      \* StaticRegistry
    before

fdsVars == <<fdsPc, caller, cloexecOf, dev, passFds, closeFds, file, cloexec, fd>>
guardVars == <<guardPc, guardAlive, disposition, wanted, old, reading>>
libraryVars == <<there, hDll, path, released, error, users, forgotten, given>>
consoleVars == <<consolePc, target, fileno, behind, cache, id, kind, redirected, recurred>>
registryVars == <<lock, entries, listeners, made, calls, heard, alive, unwatched, cleared>>
outputVars == <<outPc, call, work, attrs, output, mode, outHolder, current, csbi, terminal,
                stream, spoiled>>
typeVars == <<typePc, typeAsked, found, loaded, typeId, typeLock, names, nextAddress, answers>>
staticVars == <<staticPc, adding, seenTail, head, tail, next, registered, at, read, before>>

ChildFds == INSTANCE ChildFds WITH pc <- fdsPc

\* One call at a time.
Guard == INSTANCE SigpipeGuard WITH
    Threads <- Callers, MayOverlap <- FALSE, pc <- guardPc, alive <- guardAlive

Library == INSTANCE SharedLibrary

\* No address meets a number it has met before.
Console == INSTANCE ConsoleTargets WITH
    Fds <- ConsoleFds, pc <- consolePc, file <- target

Registry == INSTANCE DynamicRegistry

\* One terminal that takes escape sequences, and one that has attributes to set instead.
Terminal == INSTANCE ConsoleOutput WITH
    Modes <- {"automatic", "vt", "never"}, Detected <- "vt", Calls <- WriterCalls,
    pc <- outPc, holder <- outHolder
Legacy == INSTANCE ConsoleOutput WITH
    Modes <- {"automatic", "legacy", "never"}, Detected <- "legacy", Calls <- WriterCalls,
    pc <- outPc, holder <- outHolder

Types == INSTANCE TypeIds WITH
    pc <- typePc, asked <- typeAsked, id <- typeId, lock <- typeLock

\* One load at a time, while somebody reads.
Static == INSTANCE StaticRegistry WITH Serialized <- TRUE, pc <- staticPc

\* What the writers are called with.
ASSUME CallsAssumption == Terminal!CallsAreWellFormed

Init ==
    /\ part \in {"childFds", "guard", "library", "console", "registry", "terminal", "legacy",
                 "types", "static"} \cup StoreParts
    /\ ChildFds!Init
    /\ part # "childFds" =>
           /\ caller = {} /\ ~cloexecOf /\ passFds = {} /\ ~closeFds
           /\ dev = [stdin |-> "none", stdout |-> "none", stderr |-> "none"]
    /\ Guard!Init /\ (part # "guard" => disposition = Default)
    /\ Library!Init /\ Console!Init
    /\ Registry!Init /\ (part # "registry" => listeners = <<>>)
    /\ Types!Init /\ Static!Init /\ StoresInit
    /\ IF part = "legacy" THEN Legacy!Init ELSE Terminal!Init

Next ==
    \/ /\ part = "childFds" /\ ChildFds!Next
       /\ UNCHANGED <<guardVars, libraryVars, consoleVars, registryVars, outputVars, typeVars,
                      staticVars, storesVars>>
    \/ /\ part = "guard" /\ Guard!Next
       /\ UNCHANGED <<fdsVars, libraryVars, consoleVars, registryVars, outputVars, typeVars,
                      staticVars, storesVars>>
    \/ /\ part = "library" /\ Library!Next
       /\ UNCHANGED <<fdsVars, guardVars, consoleVars, registryVars, outputVars, typeVars,
                      staticVars, storesVars>>
    \/ /\ part = "console" /\ Console!Next
       /\ UNCHANGED <<fdsVars, guardVars, libraryVars, registryVars, outputVars, typeVars,
                      staticVars, storesVars>>
    \/ /\ part = "registry" /\ Registry!Next
       /\ UNCHANGED <<fdsVars, guardVars, libraryVars, consoleVars, outputVars, typeVars,
                      staticVars, storesVars>>
    \/ /\ part = "terminal" /\ Terminal!Next
       /\ UNCHANGED <<fdsVars, guardVars, libraryVars, consoleVars, registryVars, typeVars,
                      staticVars, storesVars>>
    \/ /\ part = "legacy" /\ Legacy!Next
       /\ UNCHANGED <<fdsVars, guardVars, libraryVars, consoleVars, registryVars, typeVars,
                      staticVars, storesVars>>
    \/ /\ part = "types" /\ Types!Next
       /\ UNCHANGED <<fdsVars, guardVars, libraryVars, consoleVars, registryVars, outputVars,
                      staticVars, storesVars>>
    \/ /\ part = "static" /\ Static!Next
       /\ UNCHANGED <<fdsVars, guardVars, libraryVars, consoleVars, registryVars, outputVars,
                      typeVars, storesVars>>
    \/ /\ StoresNext
       /\ UNCHANGED <<fdsVars, guardVars, libraryVars, consoleVars, registryVars, outputVars,
                      typeVars, staticVars>>

vars == <<fdsVars, guardVars, libraryVars, consoleVars, registryVars, outputVars, typeVars,
          staticVars, storesVars>>

Spec == Init /\ [][Next]_vars

-----------------------------------------------------------------------------
\* Every part's state has its type.
TypeOK ==
    /\ ChildFds!TypeOK /\ Guard!TypeOK /\ Library!TypeOK /\ Console!TypeOK /\ Registry!TypeOK
    /\ Log!TypeOK /\ Types!TypeOK /\ Static!TypeOK
    /\ IF part = "legacy" THEN Legacy!TypeOK ELSE Terminal!TypeOK

\* The program behind exec finds the standard streams it was given and no descriptor besides
\* those meant for it, and the error pipe lasts until exec and no longer.
ChildGetsWhatIsAsked ==
    ChildFds!StreamsAsAsked /\ ChildFds!NothingElseInherited /\ ChildFds!ErrpipeLastsToExec

\* A child that stops reading does not end the process, while calls do not overlap, and SIGPIPE
\* is between calls what the program made it.
SigpipeIsBorrowed == Guard!ProcessSurvives /\ Guard!PutBack

\* The loader's count of a library is right.
CountIsRight == Library!CountIsRight

\* A write to the console is decided by what its target is now.
KindIsTrue == Console!KindIsTrue

\* A listener hears of a change once, knows from what it heard what is registered, and is told
\* with the lock released, so that it may call the registry.
HeardAddsUp == Registry!HeardOnce /\ Registry!HeardAddsUp /\ Registry!ToldOutsideLock

\* A piece of text is shown in its own attributes, whatever was written before it, and the
\* pieces of one call are together.
WritersDoNotMix ==
    /\ IF part = "legacy" THEN Legacy!ShownAsMeant ELSE Terminal!ShownAsMeant
    /\ Terminal!TextsStayTogether

\* A type has one id, whichever module asks.
OneIdPerType == Types!OneIdPerType

\* A walk reads every node that was there when it began.
EveryNodeIsRead == Static!EveryNodeIsRead
=============================================================================
