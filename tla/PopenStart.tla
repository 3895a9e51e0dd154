----------------------------- MODULE PopenStart -----------------------------
(***************************************************************************)
(* Popen::start() on Unix, from the settings to the child or to the error: *)
(* every descriptor it opens, hands over and closes, and what a start that *)
(* failed, at whichever call, leaves for the next attempt.                 *)
(*                                                                         *)
(* A descriptor is a name, and opened is the set of those open in the      *)
(* parent.  Closing a name that is not open is remembered: between two     *)
(* closes of one number another thread may have been given it.             *)
(***************************************************************************)
EXTENDS Integers, FiniteSets

CONSTANTS
    MaxAttempts,     \* start() calls on one object
    ShellSettings,   \* the values shell() is given
    DetachSettings,  \* the values detached() is given
    SigchldIgnored   \* SIGCHLD is ignored, so waitpid() has nothing to return

ASSUME AttemptsAssumption == MaxAttempts \in Nat
ASSUME SettingsAssumption ==
    ShellSettings \subseteq BOOLEAN /\ DetachSettings \subseteq BOOLEAN /\ SigchldIgnored \in BOOLEAN

None == "none"
\* What stands behind stdin_(), stdout_() and stderr_(): IODev, with the invalid descriptor.
Devices == {None, "PIPE", "DEVNULL", "STDOUT", "FD", "badFD"}
\* The caller's: the one given as FD, and what fileno(stdout) names.
CallerFds == {"user", "stdout"}
PipeFds == {"inR", "inW", "outR", "outW", "errR", "errW"}
Fds == CallerFds \cup PipeFds \cup
       {"devnull", "errpipeR", "errpipeW", "errpipeDup", "pidpipeR", "pidpipeW"}
Handles == {"p2cread", "p2cwrite", "c2pread", "c2pwrite", "errread", "errwrite"}
ParentEnd == [stdin |-> "p2cwrite", stdout |-> "c2pread", stderr |-> "errread"]
Standard == DOMAIN ParentEnd

VARIABLES
    pc,
    dev,             \* stdin_dev, stdout_dev, stderr_dev
    shell, detached, noArgs,
    prefixes,        \* how often args begins with "/bin/sh -c"
    handle,          \* the six handles of done()
    toClose,         \* err_close_fds
    devnull,         \* _devnull
    streams,         \* the streams that are open
    opened,          \* descriptors open in the parent
    badCloses,       \* descriptors closed while not open
    closedChildPipeFds,
    childCreated, detachedStarted, pid, returncode,
    child,           \* what the last fork made of the program
    execArgs,        \* prefixes in the argv the child was given
    failed,          \* start() has returned false
    attempts

settings == <<dev, shell, detached, noArgs, attempts>>
fdVars == <<handle, toClose, devnull, streams, opened, badCloses, closedChildPipeFds>>
procVars == <<childCreated, detachedStarted, pid, returncode, child, execArgs>>
vars == <<pc, settings, prefixes, fdVars, procVars, failed>>

TypeOK ==
    /\ pc \in {"idle", "stdin", "stdout", "stderr", "fdopen", "prepare", "errpipe", "lowFds",
               "fork", "launcher", "forked", "readErrpipe", "reap", "undo", "return"}
    /\ dev \in [Standard -> Devices]
    /\ shell \in BOOLEAN /\ detached \in BOOLEAN /\ noArgs \in BOOLEAN
    /\ prefixes \in 0..MaxAttempts /\ execArgs \in 0..MaxAttempts
    /\ handle \in [Handles -> Fds \cup {None}]
    /\ toClose \in SUBSET PipeFds
    /\ devnull \in {None, "devnull"}
    /\ streams \in SUBSET Standard
    /\ opened \in SUBSET Fds /\ badCloses \in SUBSET Fds
    /\ closedChildPipeFds \in BOOLEAN
    /\ childCreated \in BOOLEAN /\ detachedStarted \in BOOLEAN
    /\ pid \in BOOLEAN /\ returncode \in BOOLEAN /\ failed \in BOOLEAN
    /\ child \in {"none", "starting", "running", "failed", "reaped", "launcherFailed"}
    /\ attempts \in 0..MaxAttempts

Init ==
    /\ pc = "idle"
    /\ dev = [s \in Standard |-> None]
    /\ shell = FALSE /\ detached = FALSE /\ noArgs = TRUE /\ prefixes = 0
    /\ handle = [h \in Handles |-> None]
    /\ toClose = {} /\ devnull = None /\ streams = {}
    /\ opened = CallerFds /\ badCloses = {} /\ closedChildPipeFds = FALSE
    /\ childCreated = FALSE /\ detachedStarted = FALSE
    /\ pid = FALSE /\ returncode = FALSE
    /\ child = "none" /\ execArgs = 0 /\ failed = FALSE /\ attempts = 0


-----------------------------------------------------------------------------
(* Closing. *)

\* Each handle of H, then each descriptor of S, is passed to close().
Close(H, S) ==
    LET fd(h) == handle[h]
        twice == {fd(h) : h \in {g \in H : \E k \in H \ {g} : fd(k) = fd(g)}}
        first == {fd(h) : h \in H}
    IN  /\ opened' = opened \ (first \cup S)
        /\ badCloses' = badCloses \cup twice \cup (first \cap S) \cup ((first \cup S) \ opened)

\* Mutant: every descriptor handed to the child is closed, the caller's too.
AllChildEnds == {h \in {"p2cread", "c2pwrite", "errwrite"} : handle[h] \notin {None, devnull}}

\* The child's ends _close_pipe_fds_1 closes: of pipes only, known by both ends being set.
ClosableEnds ==
    {h \in {"p2cread", "c2pwrite", "errwrite"} :
        /\ handle[h] # None /\ handle[h] # devnull
        /\ handle[CASE h = "p2cread" -> "p2cwrite"
                    [] h = "c2pwrite" -> "c2pread"
                    [] h = "errwrite" -> "errread"] # None}

Devnull == {devnull} \ {None}
ParentEnds(S) == {ParentEnd[s] : s \in S}

ClosePipeFds1(H) == Close(H \cup ClosableEnds, Devnull) /\ devnull' = None

-----------------------------------------------------------------------------
(* done(): the settings. *)

Unsupported(d, det) ==
    \/ det /\ \E s \in Standard : d[s] = "PIPE"
    \/ d.stdout = "STDOUT" \/ d.stdin = "STDOUT"

Start ==
    /\ pc = "idle" /\ ~childCreated /\ ~detachedStarted /\ attempts < MaxAttempts
    /\ attempts' = attempts + 1
    /\ dev' \in [Standard -> Devices]
    /\ shell' \in ShellSettings /\ detached' \in DetachSettings
    /\ \/ noArgs' \in BOOLEAN /\ prefixes' = 0      \* args() set anew
       \/ UNCHANGED <<noArgs, prefixes>>
    /\ pid' = FALSE /\ returncode' = FALSE /\ closedChildPipeFds' = FALSE
    /\ handle' = [h \in Handles |-> None] /\ toClose' = {} /\ child' = "none"
    /\ \/ failed' = TRUE /\ pc' = "return"          \* rejected, or no such user
       \/ ~noArgs' /\ ~Unsupported(dev', detached') /\ failed' = FALSE /\ pc' = "stdin"
    /\ UNCHANGED <<devnull, streams, opened, badCloses, childCreated, detachedStarted, execArgs>>

-----------------------------------------------------------------------------
(* _get_handles(): a transaction over the three streams. *)

\* Mutant: /dev/null is left open.
RollBackPipesOnly ==
    /\ Close({}, toClose)
    /\ devnull' = None /\ failed' = TRUE /\ pc' = "return"
    /\ UNCHANGED <<handle, toClose>>

RollBack ==
    /\ Close({}, toClose \cup Devnull)
    /\ devnull' = None /\ failed' = TRUE /\ pc' = "return"
    /\ UNCHANGED <<handle, toClose>>

TakeHandle(childEnd, fd, next) ==
    /\ handle' = [handle EXCEPT ![childEnd] = fd]
    /\ pc' = next /\ UNCHANGED <<failed, badCloses>>

\* Mutant: /dev/null goes on the list of what to close as well.
OpenDevnullListed ==
    /\ opened' = (IF devnull = None THEN opened \cup {"devnull"} ELSE opened)
    /\ devnull' = "devnull" /\ toClose' = toClose \cup {"devnull"}

\* One descriptor for all the streams that ask for it.
OpenDevnull ==
    /\ opened' = (IF devnull = None THEN opened \cup {"devnull"} ELSE opened)
    /\ devnull' = "devnull" /\ UNCHANGED toClose

OpenStandard(s, childEnd, r, w, next) ==
    /\ pc = s
    /\ \/ /\ dev[s] = None
          /\ pc' = next /\ UNCHANGED <<handle, toClose, devnull, opened, badCloses, failed>>
       \/ /\ dev[s] = "PIPE"
          /\ handle' = [handle EXCEPT ![childEnd] = IF s = "stdin" THEN r ELSE w,
                                      ![ParentEnd[s]] = IF s = "stdin" THEN w ELSE r]
          /\ opened' = opened \cup {r, w} /\ toClose' = toClose \cup {r, w}
          /\ pc' = next /\ UNCHANGED <<devnull, badCloses, failed>>
       \/ dev[s] = "DEVNULL" /\ OpenDevnull /\ TakeHandle(childEnd, "devnull", next)
       \/ dev[s] = "FD" /\ TakeHandle(childEnd, "user", next) /\ UNCHANGED <<toClose, devnull, opened>>
       \/ /\ dev[s] = "STDOUT"
          /\ TakeHandle(childEnd, IF handle["c2pwrite"] # None THEN handle["c2pwrite"] ELSE "stdout", next)
          /\ UNCHANGED <<toClose, devnull, opened>>
       \/ /\ \/ dev[s] \in {"PIPE", "badFD"}                   \* pipe(), the descriptor -1,
             \/ dev[s] = "DEVNULL" /\ devnull = None           \* open(), fileno(stdout) fails
             \/ dev[s] = "STDOUT" /\ handle["c2pwrite"] = None
          /\ RollBack
    /\ UNCHANGED <<settings, prefixes, streams, closedChildPipeFds, procVars>>

\* fdopen() of the parent's ends: all of them, or none is kept.
Fdopen ==
    LET wanted == {s \in Standard : handle[ParentEnd[s]] # None} IN
    /\ pc = "fdopen"
    /\ \/ /\ streams' = wanted
          /\ pc' = "prepare" /\ UNCHANGED <<devnull, opened, badCloses, failed>>
       \/ /\ wanted # {}
          /\ ClosePipeFds1(ParentEnds(wanted))
          /\ failed' = TRUE /\ pc' = "return" /\ UNCHANGED streams
    /\ UNCHANGED <<settings, prefixes, handle, toClose, closedChildPipeFds, procVars>>

-----------------------------------------------------------------------------
(* _execute_child() *)

\* The shell prefix goes into args itself; then the search path and the environment.
Prepare ==
    /\ pc = "prepare"
    /\ prefixes' = IF shell THEN prefixes + 1 ELSE prefixes
    /\ pc' \in {"errpipe", "undo"}
    /\ UNCHANGED <<settings, fdVars, procVars, failed>>

MakeErrpipe ==
    /\ pc = "errpipe"
    /\ \/ opened' = opened \cup {"errpipeR", "errpipeW"} /\ pc' = "lowFds"
       \/ UNCHANGED opened /\ pc' = "undo"
    /\ UNCHANGED <<settings, prefixes, handle, toClose, devnull, streams, badCloses,
                   closedChildPipeFds, procVars, failed>>

\* errpipe_write is moved above 0, 1 and 2.
MoveErrpipe ==
    /\ pc = "lowFds"
    /\ \/ UNCHANGED <<opened, badCloses>> /\ pc' = "fork"
       \/ /\ opened' = (opened \ {"errpipeW"}) \cup {"errpipeDup"}
          /\ pc' = "fork" /\ UNCHANGED badCloses
       \/ Close({}, {"errpipeR", "errpipeW"}) /\ pc' = "undo"
    /\ UNCHANGED <<settings, prefixes, handle, toClose, devnull, streams, closedChildPipeFds,
                   procVars, failed>>

ErrpipeWrite == {"errpipeW", "errpipeDup"} \cap opened

ForkFails ==
    /\ pc = "fork"
    /\ Close({}, {"errpipeR"} \cup ErrpipeWrite) /\ pc' = "undo"
    /\ UNCHANGED <<settings, prefixes, handle, toClose, devnull, streams, closedChildPipeFds,
                   procVars, failed>>

\* Mutant: _child_created is set by nobody.
ForkUnrecorded ==
    /\ pc = "fork" /\ ~detached
    /\ child' = "starting" /\ execArgs' = prefixes
    /\ pid' = TRUE
    /\ pc' = "forked"
    /\ UNCHANGED <<settings, prefixes, fdVars, childCreated, detachedStarted, returncode, failed>>

Fork ==
    /\ pc = "fork" /\ ~detached
    /\ child' = "starting" /\ execArgs' = prefixes
    /\ childCreated' = TRUE /\ pid' = TRUE
    /\ pc' = "forked"
    /\ UNCHANGED <<settings, prefixes, fdVars, detachedStarted, returncode, failed>>

\* Detached: the launcher has been forked and this side of the pid pipe is open.
ForkLauncher ==
    /\ pc = "fork" /\ detached
    /\ opened' = opened \cup {"pidpipeR"}
    /\ pc' = "launcher"
    /\ UNCHANGED <<settings, prefixes, handle, toClose, devnull, streams, badCloses,
                   closedChildPipeFds, procVars, failed>>

\* The launcher reports the pid and is waited for, or setsid() or its fork() failed.
Launch ==
    /\ pc = "launcher"
    /\ Close({}, {"pidpipeR"})
    /\ \/ /\ child' = "starting" /\ execArgs' = prefixes
          /\ detachedStarted' = ~SigchldIgnored /\ pid' = ~SigchldIgnored
       \/ child' \in {"launcherFailed", "none"} /\ UNCHANGED <<execArgs, detachedStarted, pid>>
    /\ pc' = "forked"
    /\ UNCHANGED <<settings, prefixes, handle, toClose, devnull, streams, closedChildPipeFds,
                   childCreated, returncode, failed>>

\* Mutant: _devnull keeps the number of the descriptor just closed.
ForkedStaleDevnull ==
    /\ pc = "forked"
    /\ Close(ClosableEnds, Devnull \cup ErrpipeWrite)
    /\ UNCHANGED devnull /\ closedChildPipeFds' = TRUE
    /\ pc' = "readErrpipe"
    /\ UNCHANGED <<settings, prefixes, handle, toClose, streams, procVars, failed>>

\* After the fork: errpipe_write and the child's ends.
Forked ==
    /\ pc = "forked"
    /\ Close(ClosableEnds, Devnull \cup ErrpipeWrite)
    /\ devnull' = None /\ closedChildPipeFds' = TRUE
    /\ pc' = "readErrpipe"
    /\ UNCHANGED <<settings, prefixes, handle, toClose, streams, procVars, failed>>

\* The end of the error pipe: exec replaced the child, or the child said why not.
ReadErrpipe ==
    /\ pc = "readErrpipe"
    /\ Close({}, {"errpipeR"})
    /\ IF child = "starting" THEN child' \in {"running", "failed"} ELSE UNCHANGED child
    /\ LET said == child' \in {"failed", "launcherFailed"} IN
       \/ /\ said /\ childCreated
          /\ pc' = "reap" /\ UNCHANGED <<detachedStarted, pid>>
       \/ /\ said /\ ~childCreated
          /\ detachedStarted' = FALSE /\ pid' = FALSE /\ pc' = "undo"
       \/ /\ ~said /\ ~childCreated /\ ~detachedStarted
          /\ pc' = "undo" /\ UNCHANGED <<detachedStarted, pid>>
       \/ /\ ~said /\ (childCreated \/ detachedStarted)
          /\ pc' = "return" /\ UNCHANGED <<detachedStarted, pid>>
    /\ UNCHANGED <<settings, prefixes, handle, toClose, devnull, streams, closedChildPipeFds,
                   childCreated, returncode, execArgs, failed>>

Reap ==
    /\ pc = "reap"
    /\ child' = "reaped" /\ returncode' = TRUE
    /\ childCreated' = FALSE /\ pid' = FALSE
    /\ pc' = "undo"
    /\ UNCHANGED <<settings, prefixes, fdVars, detachedStarted, execArgs, failed>>

\* _execute_child() has failed: back in done().
Undo ==
    /\ pc = "undo"
    /\ IF closedChildPipeFds
       THEN Close(ParentEnds(streams), {}) /\ UNCHANGED devnull
       ELSE ClosePipeFds1(ParentEnds(streams))
    /\ streams' = {}
    /\ childCreated' = (childCreated /\ ~returncode)
    /\ failed' = TRUE /\ pc' = "return"
    /\ UNCHANGED <<settings, prefixes, handle, toClose, closedChildPipeFds, detachedStarted,
                   pid, returncode, child, execArgs>>

\* What a start that failed leaves in its locals is gone; the next one sets its streams anew.
Forget ==
    /\ dev' = [s \in Standard |-> None] /\ shell' = FALSE
    /\ handle' = [h \in Handles |-> None] /\ toClose' = {}
    /\ UNCHANGED <<detached, noArgs, attempts, prefixes, devnull, streams, opened, badCloses,
                   closedChildPipeFds>>

\* Mutant: the status of the child that could not exec stays.
StartReturnsAsIs ==
    /\ pc = "return"
    /\ IF failed THEN Forget ELSE UNCHANGED <<settings, prefixes, fdVars>>
    /\ pc' = "idle"
    /\ UNCHANGED <<procVars, failed>>

\* start() restores what a failed done() left.
StartReturns ==
    /\ pc = "return"
    /\ IF failed THEN pid' = FALSE /\ returncode' = FALSE /\ Forget
                 ELSE UNCHANGED <<pid, returncode, settings, prefixes, fdVars>>
    /\ pc' = "idle"
    /\ UNCHANGED <<childCreated, detachedStarted, child, execArgs, failed>>

-----------------------------------------------------------------------------
Next ==
    \/ Start
    \/ OpenStandard("stdin", "p2cread", "inR", "inW", "stdout")
    \/ OpenStandard("stdout", "c2pwrite", "outR", "outW", "stderr")
    \/ OpenStandard("stderr", "errwrite", "errR", "errW", "fdopen")
    \/ Fdopen \/ Prepare \/ MakeErrpipe \/ MoveErrpipe \/ ForkFails \/ Fork \/ ForkLauncher
    \/ Launch \/ Forked \/ ReadErrpipe \/ Reap \/ Undo \/ StartReturns

Spec == Init /\ [][Next]_vars

-----------------------------------------------------------------------------
(* Properties. *)

Returned == pc = "idle" /\ attempts > 0

\* A start that failed, at whatever call, has left no descriptor of its own open; one
\* that succeeded has left exactly the parent's ends of the pipes asked for.
NothingLeaks ==
    Returned =>
        IF failed THEN opened = CallerFds /\ streams = {}
        ELSE /\ streams = {s \in Standard : dev[s] = "PIPE"}
             /\ opened = CallerFds \cup {handle[h] : h \in ParentEnds(streams)}

\* No descriptor is closed twice and none of the caller's is closed, whichever stream
\* shares /dev/null, the caller's descriptor or stdout with another.
ClosedOnce == badCloses = {} /\ CallerFds \subseteq opened

\* A start leaves nothing open that it should not, and closes nothing twice.
HandlesBalance == NothingLeaks /\ ClosedOnce

\* Every end the child is to use is still open when it is forked.
ChildFindsItsEnds ==
    pc \in {"fork", "launcher"} =>
        \A h \in {"p2cread", "c2pwrite", "errwrite"} : handle[h] # None => handle[h] \in opened

\* start() returning false means that nothing was started: the object reports no process,
\* and what was forked has been collected, so that it is ready for another attempt.  Returning
\* true means that the program runs, as this object's child or detached from it.
StartAnswersTruly ==
    /\ (Returned /\ failed) =>
           /\ ~childCreated /\ ~detachedStarted /\ ~pid /\ ~returncode
           /\ child \notin {"starting", "running"} /\ (child = "failed" => detached)
    /\ (Returned /\ ~failed) =>
           child = "running" /\ pid /\ IF detached THEN detachedStarted ELSE childCreated

\* A retry runs the program the caller named, not a command line an earlier attempt
\* has already put a prefix on.
RetryRunsTheSameCommand == pc = "forked" => execArgs <= 1

=============================================================================
