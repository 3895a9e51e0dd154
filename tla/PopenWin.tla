------------------------------ MODULE PopenWin ------------------------------
(***************************************************************************)
(* Popen on Windows: start() with the duplicates it makes of every handle  *)
(* the child is to inherit, communicate() with a thread for each stream,   *)
(* kill(), wait() and the destructor.  One thread uses the object.  The    *)
(* child may start a process of its own, which inherits ends of its pipes  *)
(* and may keep them for as long as it likes, past the child and the kill. *)
(*                                                                         *)
(* A handle is a name, and opened is the set of those open in the parent.  *)
(* The caller does not kill or wait for what was never started: there the  *)
(* code passes the invalid handle, which names the calling process itself. *)
(***************************************************************************)
EXTENDS Integers, FiniteSets

CONSTANTS
    MaxAttempts,     \* start() calls on one object
    CloseFds,        \* the values close_fds() is given
    Kinds,           \* what stdin_(), stdout_() and stderr_() are given
    PipeSize,        \* units a pipe holds
    MaxOutput,       \* units the child writes to one stream
    MaxInput,        \* units communicate() is given
    Heirs            \* the sets of streams whose ends a grandchild may be left with

None == "none"
Standard == {"stdin", "stdout", "stderr"}
Outputs == {"stdout", "stderr"}
\* The caller's handles: one behind a descriptor, a standard one, one that is inheritable.
CallerHandles == {"fd", "std", "other"}
ReadEnd == [stdin |-> "inR", stdout |-> "outR", stderr |-> "errR"]
WriteEnd == [stdin |-> "inW", stdout |-> "outW", stderr |-> "errW"]
Duplicate == [stdin |-> "inDup", stdout |-> "outDup", stderr |-> "errDup"]
OursOf(s) == IF s = "stdin" THEN WriteEnd[s] ELSE ReadEnd[s]
TheirsOf(s) == IF s = "stdin" THEN ReadEnd[s] ELSE WriteEnd[s]
Names == CallerHandles \cup {"NUL"} \cup
         UNION {{ReadEnd[s], WriteEnd[s], Duplicate[s]} : s \in Standard}
\* STILL_ACTIVE is an exit code like any other, and the one a running process is reported with.
ExitCodes == {"own", "STILL_ACTIVE", "KillProcessExitCode"}

VARIABLES
    pc, dev, usable, detached, attempts, failed,
    closeFdsAsked, closeFds,   \* what close_fds() was given, and the member as it stands
    childEnd,                  \* p2cread, c2pwrite, errwrite
    errClose, dupClose, devnull, streams, opened, badCloses, closedChildPipeFds,
    created, detachedStarted,
    process,                   \* _handle is valid
    returncode,
    child, status, inherited,  \* the child, its exit code, the handles it was given
    heirs,                     \* the streams whose ends a grandchild holds
    worker, threw,             \* the threads of communicate() and those that caught an exception
    deadline, input, buffered, written, got, eof

settings == <<dev, usable, detached, attempts, closeFdsAsked>>
handleVars == <<childEnd, errClose, dupClose, devnull, streams, opened, badCloses, closedChildPipeFds>>
objectVars == <<created, detachedStarted, process, returncode>>
childVars == <<child, status, inherited, heirs>>
talkVars == <<worker, threw, deadline, input, buffered, written, got, eof>>
vars == <<pc, settings, closeFds, failed, handleVars, objectVars, childVars, talkVars>>

TypeOK ==
    /\ pc \in {"idle", "stdin", "stdout", "stderr", "wrap", "execute", "undo", "workers",
               "waiting", "join", "rethrow", "destroyed"}
    /\ dev \in [Standard -> Kinds] /\ childEnd \in [Standard -> Names \cup {None}]
    /\ usable \in BOOLEAN /\ detached \in BOOLEAN /\ failed \in BOOLEAN
    /\ closeFdsAsked \in BOOLEAN /\ closeFds \in BOOLEAN /\ closedChildPipeFds \in BOOLEAN
    /\ created \in BOOLEAN /\ detachedStarted \in BOOLEAN /\ process \in BOOLEAN
    /\ deadline \in BOOLEAN /\ eof \in BOOLEAN
    /\ attempts \in 0..MaxAttempts
    /\ errClose \subseteq Names /\ dupClose \subseteq Names /\ devnull \in {None, "NUL"}
    /\ streams \subseteq Standard /\ opened \subseteq Names /\ badCloses \subseteq Names
    /\ returncode \in ExitCodes \cup {None} /\ status \in ExitCodes \cup {None}
    /\ child \in {None, "running", "ended"} /\ inherited \subseteq Names
    /\ heirs \subseteq Standard
    /\ worker \in [Standard -> {None, "running", "done"}] /\ threw \subseteq Standard
    /\ input \in 0..MaxInput /\ buffered \in [Standard -> 0..PipeSize]
    /\ written \in [Outputs -> 0..MaxOutput] /\ got \in [Outputs -> 0..MaxOutput]

Init ==
    /\ pc = "idle" /\ dev = [s \in Standard |-> "None"]
    /\ usable = TRUE /\ detached = FALSE /\ attempts = 0 /\ failed = FALSE
    /\ closeFdsAsked = TRUE /\ closeFds = TRUE
    /\ childEnd = [s \in Standard |-> None]
    /\ errClose = {} /\ dupClose = {} /\ devnull = None /\ streams = {}
    /\ opened = CallerHandles /\ badCloses = {} /\ closedChildPipeFds = FALSE
    /\ created = FALSE /\ detachedStarted = FALSE /\ process = FALSE /\ returncode = None
    /\ child = None /\ status = None /\ inherited = {} /\ heirs = {}
    /\ worker = [s \in Standard |-> None] /\ threw = {} /\ deadline = FALSE
    /\ input = 0 /\ buffered = [s \in Standard |-> 0] /\ eof = FALSE
    /\ written = [s \in Outputs |-> 0] /\ got = [s \in Outputs |-> 0]

-----------------------------------------------------------------------------
(* done() and _get_handles() *)

Start ==
    /\ pc = "idle" /\ ~created /\ ~detachedStarted /\ attempts < MaxAttempts
    /\ attempts' = attempts + 1
    /\ dev' \in [Standard -> Kinds] /\ detached' \in BOOLEAN
    /\ usable' \in (IF \E s \in Standard : dev'[s] = "None" THEN BOOLEAN ELSE {TRUE})
    /\ IF attempts = 0 THEN closeFdsAsked' \in CloseFds /\ closeFds' = closeFdsAsked'
                       ELSE UNCHANGED <<closeFdsAsked, closeFds>>
    /\ closedChildPipeFds' = FALSE /\ returncode' = None
    /\ childEnd' = [s \in Standard |-> None]
    /\ LET unsupported == \/ detached' /\ \E s \in Standard : dev'[s] = "PIPE"
                          \/ dev'["stdin"] = "STDOUT" \/ dev'["stdout"] = "STDOUT"
       IN  /\ failed' = unsupported
           /\ pc' = CASE unsupported -> "idle"
                      [] ~unsupported /\ \A s \in Standard : dev'[s] = "None" -> "wrap"
                      [] OTHER -> "stdin"
    /\ UNCHANGED <<errClose, dupClose, devnull, streams, opened, badCloses, created,
                   detachedStarted, process, childVars, talkVars>>

\* CloseHandle() of each of S.
Close(S) == opened' = opened \ S /\ badCloses' = badCloses \cup (S \ opened)
Devnull == {devnull} \ {None}

\* What a stream opens before it is duplicated: for the child, and for this process.
OpensTheirs(s) ==
    CASE dev[s] = "PIPE" \/ (dev[s] = "None" /\ ~usable) -> {TheirsOf(s)}
      [] dev[s] = "DEVNULL" /\ devnull = None -> {"NUL"}
      [] OTHER -> {}
OpensOurs(s) == IF dev[s] = "PIPE" THEN {OursOf(s)} ELSE {}
\* With STDOUT and no duplicate of it there is nothing to fail before DuplicateHandle().
CannotOpen(s) == dev[s] = "FD" \/ OpensTheirs(s) # {}

\* Mutant: only what this process would keep is closed.
RollBackOurs(ours, theirs) ==
    /\ opened' = opened \ (errClose \cup Devnull)
    /\ UNCHANGED badCloses
    /\ devnull' = None /\ failed' = TRUE /\ pc' = "idle" /\ errClose' = {} /\ dupClose' = {}

\* The two guards, over what the stream has added to them.
RollBack(ours, theirs) ==
    LET nul == Devnull \cup (theirs \cap {"NUL"})
        dups == dupClose \cup (theirs \ nul)
        errs == errClose \cup ours
    IN  /\ opened' = opened \ (dups \cup errs \cup nul)
        /\ badCloses' = badCloses \cup (dups \cap errs)
                        \cup ((dups \cup errs \cup nul) \ (opened \cup ours \cup theirs))
        /\ devnull' = None /\ failed' = TRUE /\ pc' = "idle" /\ errClose' = {} /\ dupClose' = {}

Next3 == [stdin |-> "stdout", stdout |-> "stderr", stderr |-> "wrap"]

OpenFails(s) ==
    /\ pc = s
    /\ \/ CannotOpen(s) /\ RollBack({}, {})
       \/ RollBack(OpensOurs(s), OpensTheirs(s))         \* DuplicateHandle() has failed
    /\ UNCHANGED <<settings, closeFds, childEnd, streams, closedChildPipeFds, objectVars,
                   childVars, talkVars>>

\* The child inherits a duplicate; the last stream to be opened closes the originals.
OpenStandard(s) ==
    LET dups == dupClose \cup (OpensTheirs(s) \ {"NUL"})
        now == opened \cup OpensOurs(s) \cup OpensTheirs(s) \cup {Duplicate[s]}
    IN  /\ pc = s /\ pc' = Next3[s]
        /\ childEnd' = [childEnd EXCEPT ![s] = Duplicate[s]]
        /\ devnull' = IF dev[s] = "DEVNULL" THEN "NUL" ELSE devnull
        /\ errClose' = IF s = "stderr" THEN {} ELSE errClose \cup OpensOurs(s) \cup {Duplicate[s]}
        /\ dupClose' = IF s = "stderr" THEN {} ELSE dups
        /\ opened' = IF s = "stderr" THEN now \ dups ELSE now
        /\ badCloses' = IF s = "stderr" THEN badCloses \cup (dups \ now) ELSE badCloses
    /\ UNCHANGED <<settings, closeFds, failed, streams, closedChildPipeFds, objectVars,
                   childVars, talkVars>>

ChildEnds == {childEnd[s] : s \in Standard} \ {None}
Piped == {s \in Standard : dev[s] = "PIPE"}
OurEnds(S) == {OursOf(s) : s \in S}

\* _open_osfhandle() and fdopen() of this process's ends: all of them, or none is kept.
Wrap ==
    /\ pc = "wrap"
    /\ \/ streams' = Piped /\ pc' = "execute" /\ UNCHANGED <<devnull, opened, badCloses, failed>>
       \/ /\ Piped # {}
          /\ Close(OurEnds(Piped) \cup ChildEnds \cup Devnull) /\ devnull' = None
          /\ failed' = TRUE /\ pc' = "idle" /\ UNCHANGED streams
    /\ UNCHANGED <<settings, closeFds, childEnd, errClose, dupClose, closedChildPipeFds,
                   objectVars, childVars, talkVars>>

-----------------------------------------------------------------------------
(* _execute_child() *)

UseStdHandles == \A s \in Standard : childEnd[s] # None
Listed == UseStdHandles /\ closeFds
\* With a list CreateProcess() hands down what is in it, else everything inheritable or nothing.
HandedDown ==
    CASE Listed -> ChildEnds
      [] ~Listed /\ closeFds -> {}
      [] OTHER -> (opened \cap {Duplicate[s] : s \in Standard}) \cup {"other"}

\* Mutant: the child's ends stay open here.
ClosePipeFdsLate == devnull' = None /\ closedChildPipeFds' = TRUE /\ Close(Devnull)

ClosePipeFds == Close(ChildEnds \cup Devnull) /\ devnull' = None /\ closedChildPipeFds' = TRUE

\* The member is switched off together with the list.
ExecuteChild ==
    /\ pc = "execute"
    /\ closeFds' = (closeFds /\ ~Listed)
    /\ \/ pc' = "undo"                                \* no shell, or an illegal environment
          /\ UNCHANGED <<devnull, closedChildPipeFds, opened, badCloses, created,
                         detachedStarted, process, childVars>>
       \/ pc' = "undo" /\ ClosePipeFds                \* the attribute list, CreateProcess()
          /\ UNCHANGED <<created, detachedStarted, process, childVars>>
       \/ /\ ClosePipeFds
          /\ child' = "running" /\ inherited' = HandedDown /\ UNCHANGED <<status, heirs>>
          /\ created' = ~detached /\ process' = ~detached /\ detachedStarted' = detached
          /\ pc' = "idle"
    /\ failed' = (pc' = "undo")
    /\ UNCHANGED <<settings, childEnd, errClose, dupClose, streams, returncode, talkVars>>

Undo ==
    /\ pc = "undo"
    /\ Close(OurEnds(streams) \cup
             (IF closedChildPipeFds THEN {} ELSE ChildEnds \cup Devnull))
    /\ devnull' = None /\ streams' = {} /\ pc' = "idle"
    /\ UNCHANGED <<settings, closeFds, failed, childEnd, errClose, dupClose,
                   closedChildPipeFds, objectVars, childVars, talkVars>>

-----------------------------------------------------------------------------
(* The child. *)

Unchanged_ == UNCHANGED <<settings, closeFds, failed>>
\* The child or its own child has the end that start() made for it.
Served(s) == child = "running" \/ s \in heirs
HasReader == Served("stdin") \/ {"inR", "inDup"} \cap opened # {}
HasWriter(s) == Served(s) \/ {WriteEnd[s], Duplicate[s]} \cap opened # {}
AtEnd == "stdin" \in Piped => eof
Finished == AtEnd /\ \A s \in Outputs \cap Piped : written[s] = MaxOutput

ChildWrites(s) ==
    /\ Served(s) /\ created /\ s \in Piped /\ OursOf(s) \in opened
    /\ written[s] < MaxOutput /\ buffered[s] < PipeSize
    /\ written' = [written EXCEPT ![s] = @ + 1] /\ buffered' = [buffered EXCEPT ![s] = @ + 1]
    /\ UNCHANGED <<pc, handleVars, objectVars, childVars, worker, threw, deadline, input, got, eof>>
    /\ Unchanged_

ChildReads ==
    /\ Served("stdin") /\ created /\ "stdin" \in Piped
    /\ \/ buffered["stdin"] > 0 /\ buffered' = [buffered EXCEPT !["stdin"] = @ - 1] /\ UNCHANGED eof
       \/ buffered["stdin"] = 0 /\ "inW" \notin opened /\ ~eof /\ eof' = TRUE /\ UNCHANGED buffered
    /\ UNCHANGED <<pc, handleVars, objectVars, childVars, worker, threw, deadline, input, written, got>>
    /\ Unchanged_

ChildExits ==
    /\ child = "running" /\ child' = "ended"
    /\ status' \in {"own", "STILL_ACTIVE"}
    /\ UNCHANGED <<pc, handleVars, objectVars, inherited, heirs, talkVars>> /\ Unchanged_

\* The child starts a process that keeps some of its ends, and in the end lets them go.
ChildSpawns ==
    /\ child = "running" /\ created /\ heirs = {} /\ heirs' \in {h \cap Piped : h \in Heirs}
    /\ UNCHANGED <<pc, handleVars, objectVars, child, status, inherited, talkVars>> /\ Unchanged_

GrandchildEnds ==
    /\ created /\ heirs # {} /\ heirs' = {}
    /\ UNCHANGED <<pc, handleVars, objectVars, child, status, inherited, talkVars>> /\ Unchanged_

-----------------------------------------------------------------------------
(* kill(), wait(), poll() and the destructor. *)

\* TerminateProcess(): an ended process keeps the exit code it has, and nothing is done to
\* the processes it has started.
Terminated ==
    /\ child' = "ended"
    /\ status' = IF child = "running" THEN "KillProcessExitCode" ELSE status
    /\ UNCHANGED <<inherited, heirs>>
Collected == returncode' = (IF returncode = None THEN status' ELSE returncode) /\ process' = FALSE

\* Mutant: a child that had ended gets the exit code of a kill.
KillReportsKill ==
    /\ pc = "idle" /\ created /\ returncode = None
    /\ \/ child = "running" /\ Terminated /\ UNCHANGED <<returncode, process>>
       \/ /\ child = "ended" /\ status # "STILL_ACTIVE"
          /\ returncode' = "KillProcessExitCode" /\ process' = FALSE /\ UNCHANGED childVars
    /\ UNCHANGED <<pc, handleVars, created, detachedStarted, talkVars>> /\ Unchanged_

\* Access is denied to a process that has ended; one that left STILL_ACTIVE is taken for running.
Kill ==
    /\ pc = "idle" /\ created /\ returncode = None
    /\ \/ child = "running" /\ Terminated /\ UNCHANGED <<returncode, process>>
       \/ child = "ended" /\ status # "STILL_ACTIVE" /\ UNCHANGED childVars /\ Collected
    /\ UNCHANGED <<pc, handleVars, created, detachedStarted, talkVars>> /\ Unchanged_

\* wait() returns, or poll() finds the child ended.
Wait ==
    /\ pc = "idle" /\ created /\ returncode = None /\ child = "ended"
    /\ UNCHANGED childVars /\ Collected
    /\ UNCHANGED <<pc, handleVars, created, detachedStarted, talkVars>> /\ Unchanged_

Destroy ==
    /\ pc = "idle" /\ pc' = "destroyed"
    /\ IF created THEN Terminated ELSE UNCHANGED childVars
    /\ IF created THEN Collected ELSE UNCHANGED <<returncode, process>>
    /\ Close(OurEnds(streams)) /\ streams' = {}
    /\ UNCHANGED <<childEnd, errClose, dupClose, devnull, closedChildPipeFds, created,
                   detachedStarted, talkVars>>
    /\ Unchanged_

-----------------------------------------------------------------------------
(* communicate_impl() *)

Communicate ==
    /\ pc = "idle" /\ created /\ pc' = "workers"
    /\ deadline' \in BOOLEAN /\ input' \in {0, MaxInput}
    /\ UNCHANGED <<handleVars, objectVars, childVars, worker, threw, buffered, written, got, eof>> /\ Unchanged_

StartWorkers ==
    /\ pc = "workers" /\ pc' = "waiting"
    /\ worker' = [s \in Standard |-> IF s \in streams THEN "running" ELSE None]
    /\ UNCHANGED <<handleVars, objectVars, childVars, threw, deadline, input, buffered, written,
                   got, eof>>
    /\ Unchanged_

\* A thread cannot be made: the one for the input is the last, so no one writes yet.
WorkersFail ==
    /\ pc = "workers" /\ pc' = "rethrow"
    /\ \E started \in {{}, {"stdout"}, {"stdout", "stderr"}} :
           /\ streams \ started # {}
           /\ worker' = [s \in Standard |-> IF s \in started \cap streams THEN "running" ELSE None]
    /\ Close({"inW"} \cap OurEnds(streams)) /\ streams' = streams \ {"stdin"}
    /\ Terminated /\ Collected /\ threw' = threw \cup streams
    /\ UNCHANGED <<childEnd, errClose, dupClose, devnull, closedChildPipeFds, created,
                   detachedStarted, deadline, input, buffered, written, got, eof>>
    /\ Unchanged_

\* fread() until the end, or an exception kept for later.
ReadAll(s) ==
    /\ worker[s] = "running"
    /\ \/ /\ buffered[s] > 0 /\ buffered' = [buffered EXCEPT ![s] = @ - 1]
          /\ got' = [got EXCEPT ![s] = @ + 1] /\ UNCHANGED <<worker, threw>>
       \/ /\ buffered[s] = 0 /\ ~HasWriter(s)
          /\ worker' = [worker EXCEPT ![s] = "done"] /\ UNCHANGED <<buffered, got, threw>>
       \/ /\ buffered[s] > 0 /\ worker' = [worker EXCEPT ![s] = "done"]
          /\ threw' = threw \cup {s} /\ UNCHANGED <<buffered, got>>
    /\ UNCHANGED <<pc, handleVars, objectVars, childVars, deadline, input, written, eof>>
    /\ Unchanged_

\* The input, as far as somebody reads it; then stdin is closed.
WriteAll ==
    /\ worker["stdin"] = "running"
    /\ \/ /\ input > 0 /\ HasReader /\ buffered["stdin"] < PipeSize
          /\ input' = input - 1 /\ buffered' = [buffered EXCEPT !["stdin"] = @ + 1]
          /\ UNCHANGED <<worker, streams, opened, badCloses>>
       \/ /\ input = 0 \/ ~HasReader
          /\ worker' = [worker EXCEPT !["stdin"] = "done"]
          /\ Close({"inW"}) /\ streams' = streams \ {"stdin"} /\ UNCHANGED <<input, buffered>>
    /\ UNCHANGED <<pc, childEnd, errClose, dupClose, devnull, closedChildPipeFds, objectVars,
                   childVars, threw, deadline, written, got, eof>>
    /\ Unchanged_

WaitReturns ==
    /\ pc = "waiting" /\ child = "ended" /\ pc' = "join"
    /\ UNCHANGED childVars /\ Collected
    /\ UNCHANGED <<handleVars, created, detachedStarted, talkVars>> /\ Unchanged_

\* Mutant: the call gives up the wait, and leaves the child as it is.
TimesOutOnly ==
    /\ pc = "waiting" /\ deadline /\ returncode = None /\ pc' = "join"
    /\ UNCHANGED childVars /\ UNCHANGED <<returncode, process>>
    /\ UNCHANGED <<handleVars, created, detachedStarted, talkVars>> /\ Unchanged_

\* The wait ran out, or failed: kill and wait again.
TimesOut ==
    /\ pc = "waiting" /\ deadline /\ returncode = None /\ pc' = "join"
    /\ Terminated /\ Collected
    /\ UNCHANGED <<handleVars, created, detachedStarted, talkVars>> /\ Unchanged_

\* Mutant: the files are closed under the readers.
JoinWriter ==
    /\ pc \in {"join", "rethrow"} /\ worker["stdin"] # "running"
    /\ Close(OurEnds(streams)) /\ streams' = {} /\ pc' = "idle"
    /\ worker' = [s \in Standard |-> None]
    /\ UNCHANGED <<childEnd, errClose, dupClose, devnull, closedChildPipeFds, objectVars,
                   childVars, threw, deadline, input, buffered, written, got, eof>>
    /\ Unchanged_

Join ==
    /\ pc \in {"join", "rethrow"} /\ \A s \in Standard : worker[s] # "running"
    /\ Close(OurEnds(streams)) /\ streams' = {} /\ pc' = "idle"
    /\ worker' = [s \in Standard |-> None]
    /\ UNCHANGED <<childEnd, errClose, dupClose, devnull, closedChildPipeFds, objectVars,
                   childVars, threw, deadline, input, buffered, written, got, eof>>
    /\ Unchanged_

-----------------------------------------------------------------------------
Workers == (\E s \in Outputs : ReadAll(s)) \/ WriteAll
Calls == StartWorkers \/ WaitReturns \/ Join
ChildActs == (\E s \in Outputs : ChildWrites(s)) \/ ChildReads \/ (Finished /\ ChildExits)
\* What nobody may count on is a child with a deadline, or a grandchild.
ChildMustAct == child = "running" /\ ~deadline /\ ChildActs

Next ==
    \/ Start \/ (\E s \in Standard : OpenStandard(s) \/ OpenFails(s)) \/ Wrap
    \/ ExecuteChild \/ Undo
    \/ (\E s \in Outputs : ChildWrites(s)) \/ ChildReads \/ ChildExits
    \/ ChildSpawns \/ GrandchildEnds
    \/ Kill \/ Wait \/ Destroy
    \/ Communicate \/ StartWorkers \/ WorkersFail
    \/ (\E s \in Outputs : ReadAll(s)) \/ WriteAll \/ WaitReturns \/ TimesOut \/ Join

\* Every thread of the program runs and a deadline passes.  A child that is read and served
\* gets to its end only where the call has no deadline; with one it may hang where it likes,
\* and a grandchild may always.
Fairness ==
    /\ WF_vars(Calls) /\ \A s \in Outputs : WF_vars(ReadAll(s))
    /\ WF_vars(WriteAll) /\ WF_vars(TimesOut) /\ WF_vars(ChildMustAct)

Spec == Init /\ [][Next]_vars /\ Fairness

-----------------------------------------------------------------------------
(* Properties. *)

\* Between calls exactly the caller's handles and this process's ends of the open streams
\* are open, nothing was closed twice, and the process handle lives until the status is
\* known, whichever call of a start failed and whichever streams share a handle.
HandlesAccounted ==
    /\ badCloses = {}
    /\ pc \in {"idle", "destroyed"} =>
           /\ opened = CallerHandles \cup OurEnds(streams)
           /\ failed => streams = {} /\ child = None
           /\ process <=> created /\ returncode = None

\* A communicate() that throws nothing has all the child wrote, and the child's own exit code;
\* so does one that ends at its timeout.
AnswersAreComplete ==
    /\ returncode # None => child = "ended" /\ returncode = status
    /\ (pc = "idle" /\ created /\ streams = {} /\ Piped # {} /\ threw = {} /\ returncode # None) =>
           \A s \in Outputs \cap Piped : got[s] = written[s]

\* communicate() returns: no stream waits for another, and a child that never ends is killed at
\* the deadline, which closes its ends.  It does not close the ends of a grandchild: the readers
\* are joined with no limit, so one that keeps an end for ever keeps the call past its timeout.
\* A reader that has thrown drains no more, and its child may block.
CommunicateReturns ==
    (pc \in {"workers", "waiting", "join"}) ~> (pc = "idle" \/ threw # {} \/ [](heirs # {}))

\* With close_fds() on the child has the standard streams and nothing else.
NothingElseInherited ==
    (child # None /\ closeFdsAsked) => inherited \subseteq {Duplicate[s] : s \in Standard}
=============================================================================
