----------------------------- MODULE PopenPorts -----------------------------
(***************************************************************************)
(* start() of both ports: a behaviour is one of a platform, the other's    *)
(* object stays as it was made.                                            *)
(***************************************************************************)
EXTENDS PopenStart

CONSTANTS
    CloseFds,        \* the values close_fds() is given on Windows
    Kinds,           \* what a stream is given on Windows
    PipeSize,        \* units a pipe of Windows holds
    MaxOutput,       \* units the child writes to one of them
    MaxInput,        \* units communicate() is given
    Heirs            \* the streams a grandchild of Windows may be left with

ASSUME PortsAssumption ==
    /\ CloseFds \subseteq BOOLEAN /\ Kinds \subseteq {"None", "PIPE", "DEVNULL", "STDOUT", "FD"}
    /\ "None" \in Kinds
    /\ PipeSize \in Nat /\ MaxOutput \in Nat /\ MaxInput \in Nat

VARIABLES
    platform,
    winPc, winDev, usable, winDetached, winAttempts, winFailed, closeFdsAsked, closeFds,
    childEnd, errClose, dupClose, winDevnull, winStreams, winOpened, winBadCloses,
    winClosedChildPipeFds, created, winDetachedStarted, process, winReturncode,
    winChild, status, inherited, heirs, worker, threw, deadline, input, buffered, written, got,
    eof

winVars == <<
    winPc, winDev, usable, winDetached, winAttempts, winFailed, closeFdsAsked, closeFds,
    childEnd, errClose, dupClose, winDevnull, winStreams, winOpened, winBadCloses,
    winClosedChildPipeFds, created, winDetachedStarted, process, winReturncode,
    winChild, status, inherited, heirs, worker, threw, deadline, input, buffered, written, got,
    eof>>

Win == INSTANCE PopenWin WITH
    pc <- winPc, dev <- winDev, detached <- winDetached, attempts <- winAttempts,
    failed <- winFailed, devnull <- winDevnull, streams <- winStreams, opened <- winOpened,
    badCloses <- winBadCloses, closedChildPipeFds <- winClosedChildPipeFds,
    detachedStarted <- winDetachedStarted, returncode <- winReturncode,
    child <- winChild

BothInit == platform \in {"unix", "windows"} /\ Init /\ Win!Init

BothNext ==
    \/ platform = "unix" /\ Next /\ UNCHANGED <<platform, winVars>>
    \/ platform = "windows" /\ Win!Next /\ UNCHANGED <<platform, vars>>

BothSpec == BothInit /\ [][BothNext]_<<platform, vars, winVars>> /\ Win!Fairness

\* Every variable of both has its type.
StartTypeOK == TypeOK /\ Win!TypeOK

\* No handle of Windows is lost, shared by mistake or closed twice.
WinHandlesAccounted == Win!HandlesAccounted
\* communicate() on Windows has all the child wrote, and its own exit code.
WinAnswersAreComplete == Win!AnswersAreComplete
\* communicate() on Windows returns.
WinCommunicateReturns == Win!CommunicateReturns
\* With close_fds() on a child on Windows has the standard streams and nothing else.
WinNothingElseInherited == Win!NothingElseInherited
=============================================================================
