--------------------------- MODULE PopenLifecycle ---------------------------
(***************************************************************************)
(* One started stdc::Popen on Unix, shared by several threads: poll(),     *)
(* wait(), kill(), terminate() and the destructor, over the kernel's       *)
(* process table entry of the child.                                       *)
(*                                                                         *)
(* A thread's step is the code between two points where another thread,    *)
(* the child or the kernel can get in: a test of returncode, the lock, a   *)
(* system call, the store of the status.  In particular waitpid() and the  *)
(* store of what it returned are two steps, because the pid is free for    *)
(* the kernel to give away as soon as the first has happened.              *)
(*                                                                         *)
(* std::optional is a set of at most one element, and so is a lock: the    *)
(* set of its holders.                                                     *)
(***************************************************************************)
EXTENDS Integers

CONSTANTS
    Threads,          \* the threads that share the Popen
    ExitCodes,        \* what the child may pass to exit()
    Worlds            \* the circumstances to consider

ASSUME ExitCodesAssumption == ExitCodes \subseteq 0..255
ASSUME WorldsAssumption == Worlds \subseteq [sigchldIgnored : BOOLEAN, killAllowed : BOOLEAN]

VARIABLES
    world,            \* the circumstances of this behaviour, which never change
    childCreated,     \* _child_created
    detachedStarted,  \* _detached_started
    returncode,       \* returncode, {} while it has no value
    errorCode,        \* error_code
    waitpidLock,      \* _waitpid_lock
    child,            \* the child's entry in the process table
    status,           \* how it ended, {} before
    pending,          \* signals sent to it and not yet acted on
    recycled,         \* its pid has been given to another process
    destroyed,        \* ~Impl has run to its end
    pc,               \* where each thread is
    op,               \* which call it is in
    expired,          \* its deadline has passed
    result,           \* what its last call returned
    strays,           \* threads whose call signalled another process
    raced,            \* threads overtaken, in their call, by another's waitpid
    refused           \* threads in whose timed wait a signal of another was refused

implVars == <<childCreated, detachedStarted, returncode, errorCode, waitpidLock>>
osVars == <<child, status, pending, recycled>>
threadVars == <<pc, op, expired, result>>
history == <<strays, raced, refused>>
vars == <<world, implVars, osVars, destroyed, threadVars, history>>

\* SIGCHLD is ignored: the kernel keeps no status.
SigchldIgnored == world.sigchldIgnored
\* FALSE for a set-uid child: kill() answers EPERM.
KillAllowed == world.killAllowed

SIGKILL == 9
SIGTERM == 15
Signals == {SIGKILL, SIGTERM}

WaitStatus == [how : {"exited"}, n : ExitCodes] \cup [how : {"signaled"}, n : Signals]
ReturnCodes == ExitCodes \cup {-s : s \in Signals} \cup {0}
Errors == {"none", "start_error", "operation_not_supported", "no_such_process", "EPERM"}
Ops == {"none", "poll", "wait", "timedWait", "kill", "terminate", "destroy"}
Points == {"idle", "pollEnter", "pollTryLock", "pollWaitpid", "pollStore",
           "timedEnter", "timedCheck", "waitEnter", "waitLoop", "waitLock",
           "waitWaitpid", "waitStore", "signalEnter", "signalCheck", "signalKill"}

TypeOK ==
    /\ world \in Worlds
    /\ childCreated \in BOOLEAN /\ detachedStarted \in BOOLEAN
    /\ returncode \in SUBSET ReturnCodes
    /\ errorCode \in Errors
    /\ waitpidLock \in SUBSET Threads
    /\ child \in {"unborn", "running", "zombie", "gone"}
    /\ status \in SUBSET WaitStatus
    /\ pending \in SUBSET Signals
    /\ recycled \in BOOLEAN /\ destroyed \in BOOLEAN
    /\ pc \in [Threads -> Points]
    /\ op \in [Threads -> Ops]
    /\ expired \in [Threads -> BOOLEAN]
    /\ result \in [Threads -> BOOLEAN]
    /\ strays \in SUBSET Threads /\ raced \in SUBSET Threads /\ refused \in SUBSET Threads

Init ==
    /\ world \in Worlds
    /\ childCreated = FALSE /\ detachedStarted = FALSE
    /\ returncode = {} /\ errorCode = "none" /\ waitpidLock = {}
    /\ child = "unborn" /\ status = {} /\ pending = {} /\ recycled = FALSE
    /\ destroyed = FALSE
    /\ pc = [t \in Threads |-> "idle"]
    /\ op = [t \in Threads |-> "none"]
    /\ expired = [t \in Threads |-> FALSE]
    /\ result = [t \in Threads |-> FALSE]
    /\ strays = {} /\ raced = {} /\ refused = {}

-----------------------------------------------------------------------------
(* The child and the kernel. *)

\* The entry of a child that ends: kept for waitpid, or dropped at once.
Ended == IF SigchldIgnored THEN "gone" ELSE "zombie"

ChildExits ==
    /\ child = "running"
    /\ child' = Ended
    /\ \E c \in ExitCodes : status' = {[how |-> "exited", n |-> c]}
    /\ UNCHANGED <<world, implVars, pending, recycled, destroyed, threadVars, history>>

ChildSignaled(s) ==
    /\ child = "running" /\ s \in pending
    /\ child' = Ended
    /\ status' = {[how |-> "signaled", n |-> s]}
    /\ UNCHANGED <<world, implVars, pending, recycled, destroyed, threadVars, history>>

\* A child may catch or ignore SIGTERM, never SIGKILL.
ChildIgnoresSigterm ==
    /\ child = "running" /\ SIGTERM \in pending
    /\ pending' = pending \ {SIGTERM}
    /\ UNCHANGED <<world, implVars, child, status, recycled, destroyed, threadVars, history>>

RecyclePid ==
    /\ child = "gone" /\ ~recycled
    /\ recycled' = TRUE
    /\ UNCHANGED <<world, implVars, child, status, pending, destroyed, threadVars, history>>

-----------------------------------------------------------------------------
(* start(), whole.  PopenStart has its inside. *)

Quiet == \A t \in Threads : pc[t] = "idle"

StartFails(t) ==
    /\ Quiet /\ ~destroyed /\ ~childCreated /\ ~detachedStarted
    /\ returncode' = {} /\ errorCode' = "start_error"
    /\ result' = [result EXCEPT ![t] = FALSE]
    /\ UNCHANGED <<world, childCreated, detachedStarted, waitpidLock, osVars, destroyed, pc, op,
                   expired, history>>

StartSucceeds(t) ==
    /\ Quiet /\ ~destroyed /\ ~childCreated /\ ~detachedStarted
    /\ \/ childCreated' = TRUE /\ child' = "running" /\ UNCHANGED detachedStarted
       \/ detachedStarted' = TRUE /\ UNCHANGED <<childCreated, child>>
    /\ returncode' = {} /\ errorCode' = "none"
    /\ result' = [result EXCEPT ![t] = TRUE]
    /\ UNCHANGED <<world, waitpidLock, status, pending, recycled, destroyed, pc, op, expired,
                   history>>

-----------------------------------------------------------------------------
(* Calls, returns, and what the caller of a helper does next. *)

Entry(o) ==
    CASE o = "poll" -> "pollEnter"
      [] o = "wait" -> "waitEnter"
      [] o = "timedWait" -> "timedEnter"
      [] OTHER -> "signalEnter"

\* Nobody else may be inside the object once its destruction has begun.
Call(t) ==
    /\ pc[t] = "idle" /\ ~destroyed
    /\ \A u \in Threads : op[u] # "destroy"
    /\ \E o \in {"poll", "wait", "timedWait", "kill", "terminate"} :
           /\ pc' = [pc EXCEPT ![t] = Entry(o)]
           /\ op' = [op EXCEPT ![t] = o]
    /\ expired' = [expired EXCEPT ![t] = FALSE]
    /\ raced' = IF \E u \in Threads : pc[u] \in {"pollStore", "waitStore"}
                THEN raced \cup {t} ELSE raced \ {t}
    /\ strays' = strays \ {t} /\ refused' = refused \ {t}
    /\ UNCHANGED <<world, implVars, osVars, destroyed, result>>

Goto(t, l) == pc' = [pc EXCEPT ![t] = l] /\ UNCHANGED <<op, result, destroyed>>

Return(t, r) ==
    /\ pc' = [pc EXCEPT ![t] = "idle"]
    /\ op' = [op EXCEPT ![t] = "none"]
    /\ result' = [result EXCEPT ![t] = r]
    /\ destroyed' = (destroyed \/ op[t] = "destroy")

\* _internal_poll() returns r.
PollReturns(t, r) ==
    \/ op[t] = "poll" /\ Return(t, r)
    \/ op[t] = "timedWait" /\ r /\ Return(t, TRUE)
    \/ op[t] = "timedWait" /\ ~r /\ Goto(t, "timedCheck")
    \/ op[t] \in {"kill", "terminate", "destroy"} /\ Goto(t, "signalCheck")

\* Mutant: the destructor is content with having sent the signal.
SignalReturnsWithoutWait(t, r) == Return(t, r)

\* send_signal_impl() returns r.  The destructor ignores it and waits.
SignalReturns(t, r) ==
    \/ op[t] # "destroy" /\ Return(t, r)
    \/ op[t] = "destroy" /\ Goto(t, "waitEnter")

-----------------------------------------------------------------------------
(* _internal_poll() *)

\* r goes back to the caller: _internal_poll()'s, or the program.
GoBack(t, r) ==
    \/ pc[t] = "pollEnter" /\ PollReturns(t, r)
    \/ pc[t] # "pollEnter" /\ Return(t, r)

\* Mutant: the error of an earlier call is left standing while the child is waited for.
EarlyReturnOnly(t, on) ==
    \/ detachedStarted /\ errorCode' = "operation_not_supported" /\ GoBack(t, FALSE)
    \/ ~detachedStarted /\ returncode # {} /\ errorCode' = "none" /\ GoBack(t, TRUE)
    \/ /\ ~detachedStarted /\ returncode = {} /\ ~childCreated
       /\ errorCode' = "no_such_process" /\ GoBack(t, FALSE)
    \/ /\ ~detachedStarted /\ returncode = {} /\ childCreated
       /\ Goto(t, on) /\ UNCHANGED errorCode

\* The three early returns poll and wait share, in their order.
EarlyReturn(t, on) ==
    \/ detachedStarted /\ errorCode' = "operation_not_supported" /\ GoBack(t, FALSE)
    \/ ~detachedStarted /\ returncode # {} /\ errorCode' = "none" /\ GoBack(t, TRUE)
    \/ /\ ~detachedStarted /\ returncode = {} /\ ~childCreated
       /\ errorCode' = "no_such_process" /\ GoBack(t, FALSE)
    \/ /\ ~detachedStarted /\ returncode = {} /\ childCreated
       /\ errorCode' = "none" /\ Goto(t, on)

PollEnter(t) ==
    /\ pc[t] = "pollEnter"
    /\ EarlyReturn(t, "pollTryLock")
    /\ UNCHANGED <<world, childCreated, detachedStarted, returncode, waitpidLock, osVars,
                   expired, history>>

\* Mutant: lock() where the code has try_lock().
PollLock(t) ==
    /\ pc[t] = "pollTryLock"
    /\ waitpidLock = {} /\ waitpidLock' = {t} /\ Goto(t, "pollWaitpid")
    /\ UNCHANGED <<world, childCreated, detachedStarted, returncode, errorCode, osVars, expired,
                   history>>

PollTryLock(t) ==
    /\ pc[t] = "pollTryLock"
    /\ \/ waitpidLock = {} /\ waitpidLock' = {t} /\ Goto(t, "pollWaitpid")
       \/ waitpidLock # {} /\ UNCHANGED waitpidLock /\ PollReturns(t, FALSE)
    /\ UNCHANGED <<world, childCreated, detachedStarted, returncode, errorCode, osVars, expired,
                   history>>

\* waitpid() takes the status away and frees the pid.
Reap(t) ==
    /\ child = "zombie" /\ child' = "gone"
    /\ raced' = raced \cup {u \in Threads \ {t} : pc[u] # "idle"}
    /\ UNCHANGED <<world, status, pending, recycled, strays, refused>>

\* Mutant: the lock is not released.
KeepLock == UNCHANGED waitpidLock

Unlock == waitpidLock' = {}

\* Mutant: returncode is not looked at again once the lock is held.
PollWaitpidUnchecked(t) ==
    /\ pc[t] = "pollWaitpid"
    /\ \/ /\ Reap(t)
          /\ Goto(t, "pollStore") /\ UNCHANGED <<returncode, waitpidLock>>
       \/ /\ child = "running"
          /\ Unlock /\ PollReturns(t, FALSE) /\ UNCHANGED <<returncode, osVars, history>>
       \/ /\ child = "gone" /\ returncode' = {0}
          /\ Unlock /\ PollReturns(t, TRUE) /\ UNCHANGED <<osVars, history>>
    /\ UNCHANGED <<world, childCreated, detachedStarted, errorCode, expired>>

\* Mutant: waitpid()'s 0, not ended yet, is taken for an end.
PollWaitpidMisread(t) ==
    /\ pc[t] = "pollWaitpid"
    /\ \/ /\ returncode # {}
          /\ Unlock /\ PollReturns(t, TRUE) /\ UNCHANGED <<returncode, osVars, history>>
       \/ /\ returncode = {} /\ Reap(t)
          /\ Goto(t, "pollStore") /\ UNCHANGED <<returncode, waitpidLock>>
       \/ /\ returncode = {} /\ child \in {"running", "gone"} /\ returncode' = {0}
          /\ Unlock /\ PollReturns(t, TRUE) /\ UNCHANGED <<osVars, history>>
    /\ UNCHANGED <<world, childCreated, detachedStarted, errorCode, expired>>

PollWaitpid(t) ==
    /\ pc[t] = "pollWaitpid"
    /\ \/ /\ returncode # {}
          /\ Unlock /\ PollReturns(t, TRUE) /\ UNCHANGED <<returncode, osVars, history>>
       \/ /\ returncode = {} /\ Reap(t)
          /\ Goto(t, "pollStore") /\ UNCHANGED <<returncode, waitpidLock>>
       \/ /\ returncode = {} /\ child = "running"             \* 0, or EINTR
          /\ Unlock /\ PollReturns(t, FALSE) /\ UNCHANGED <<returncode, osVars, history>>
       \/ /\ returncode = {} /\ child = "gone"                \* ECHILD
          /\ returncode' = {0}
          /\ Unlock /\ PollReturns(t, TRUE) /\ UNCHANGED <<osVars, history>>
    /\ UNCHANGED <<world, childCreated, detachedStarted, errorCode, expired>>

\* _handle_exitstatus()
\* Mutant: the shell's convention, 128 and the signal.
ShellReturnCode(st) == IF st.how = "signaled" THEN 128 + st.n ELSE st.n
ReturnCode(st) == IF st.how = "signaled" THEN -st.n ELSE st.n
HandleExitstatus == returncode' = {ReturnCode(st) : st \in status}

PollStore(t) ==
    /\ pc[t] = "pollStore"
    /\ HandleExitstatus
    /\ Unlock /\ PollReturns(t, TRUE)
    /\ UNCHANGED <<world, childCreated, detachedStarted, errorCode, osVars, expired, history>>

-----------------------------------------------------------------------------
(* _wait() *)

\* With a deadline: poll, give up, or sleep and poll again.
TimedEnter(t) ==
    /\ pc[t] = "timedEnter"
    /\ EarlyReturn(t, "pollEnter")
    /\ UNCHANGED <<world, childCreated, detachedStarted, returncode, waitpidLock, osVars,
                   expired, history>>

\* Mutant: one poll, and no second look at the clock.
TimedCheckOnce(t) ==
    /\ pc[t] = "timedCheck"
    /\ Return(t, FALSE)
    /\ UNCHANGED <<world, implVars, osVars, expired, history>>

TimedCheck(t) ==
    /\ pc[t] = "timedCheck"
    /\ \/ (errorCode # "none" \/ expired[t]) /\ Return(t, FALSE)
       \/ errorCode = "none" /\ ~expired[t] /\ Goto(t, "pollEnter")
    /\ UNCHANGED <<world, implVars, osVars, expired, history>>

\* The clock reaches the deadline of a timed wait.
Tick(t) ==
    /\ op[t] = "timedWait" /\ ~expired[t]
    /\ expired' = [expired EXCEPT ![t] = TRUE]
    /\ UNCHANGED <<world, implVars, osVars, destroyed, pc, op, result, history>>

\* Without one: block in waitpid() with the lock held.
WaitEnter(t) ==
    /\ pc[t] = "waitEnter"
    /\ EarlyReturn(t, "waitLoop")
    /\ UNCHANGED <<world, childCreated, detachedStarted, returncode, waitpidLock, osVars,
                   expired, history>>

WaitLoop(t) ==
    /\ pc[t] = "waitLoop"
    /\ \/ returncode # {} /\ Return(t, TRUE)
       \/ returncode = {} /\ Goto(t, "waitLock")
    /\ UNCHANGED <<world, implVars, osVars, expired, history>>

\* Mutant: no lock around waitpid() and the store.
WaitLockShared(t) ==
    /\ pc[t] = "waitLock"
    /\ waitpidLock' = waitpidLock \cup {t}
    /\ Goto(t, "waitWaitpid")
    /\ UNCHANGED <<world, childCreated, detachedStarted, returncode, errorCode, osVars, expired,
                   history>>

WaitLock(t) ==
    /\ pc[t] = "waitLock"
    /\ waitpidLock = {} /\ waitpidLock' = {t}
    /\ Goto(t, "waitWaitpid")
    /\ UNCHANGED <<world, childCreated, detachedStarted, returncode, errorCode, osVars, expired,
                   history>>

WaitWaitpid(t) ==
    /\ pc[t] = "waitWaitpid"
    /\ \/ /\ returncode # {}
          /\ Unlock /\ Return(t, TRUE) /\ UNCHANGED <<returncode, osVars, history>>
       \/ /\ returncode = {} /\ Reap(t)
          /\ Goto(t, "waitStore") /\ UNCHANGED <<returncode, waitpidLock>>
       \/ /\ returncode = {} /\ child = "gone"                \* ECHILD
          /\ returncode' = {0}
          /\ Unlock /\ Return(t, TRUE) /\ UNCHANGED <<osVars, history>>
    /\ UNCHANGED <<world, childCreated, detachedStarted, errorCode, expired>>

\* EINTR: the lock goes out of scope and the loop starts over.
WaitInterrupted(t) ==
    /\ pc[t] = "waitWaitpid" /\ returncode = {} /\ child = "running"
    /\ Unlock /\ Goto(t, "waitLoop")
    /\ UNCHANGED <<world, childCreated, detachedStarted, returncode, errorCode, osVars, expired,
                   history>>

WaitStore(t) ==
    /\ pc[t] = "waitStore"
    /\ HandleExitstatus
    /\ Unlock /\ Return(t, TRUE)
    /\ UNCHANGED <<world, childCreated, detachedStarted, errorCode, osVars, expired, history>>

-----------------------------------------------------------------------------
(* send_signal_impl(), kill_impl(), terminate_impl(), ~Impl *)

SignalEnter(t) ==
    /\ pc[t] = "signalEnter"
    /\ \/ detachedStarted /\ errorCode' = "operation_not_supported" /\ SignalReturns(t, FALSE)
       \/ ~detachedStarted /\ returncode = {} /\ errorCode' = "none" /\ Goto(t, "pollEnter")
       \/ ~detachedStarted /\ returncode # {} /\ errorCode' = "none" /\ SignalReturns(t, TRUE)
    /\ UNCHANGED <<world, childCreated, detachedStarted, returncode, waitpidLock, osVars,
                   expired, history>>

\* Mutant: the signal is sent whether or not the child has been collected.
SignalUnchecked(t) ==
    /\ pc[t] = "signalCheck"
    /\ \/ ~childCreated /\ errorCode' = "no_such_process" /\ SignalReturns(t, FALSE)
       \/ childCreated /\ errorCode' = "none" /\ Goto(t, "signalKill")
    /\ UNCHANGED <<world, childCreated, detachedStarted, returncode, waitpidLock, osVars,
                   expired, history>>

SignalCheck(t) ==
    /\ pc[t] = "signalCheck"
    /\ \/ returncode # {} /\ errorCode' = "none" /\ SignalReturns(t, TRUE)
       \/ /\ returncode = {} /\ ~childCreated
          /\ errorCode' = "no_such_process" /\ SignalReturns(t, FALSE)
       \/ returncode = {} /\ childCreated /\ errorCode' = "none" /\ Goto(t, "signalKill")
    /\ UNCHANGED <<world, childCreated, detachedStarted, returncode, waitpidLock, osVars,
                   expired, history>>

\* kill(pid, sig) reaches whatever process has that number now.
SignalKill(t) ==
    LET sig == IF op[t] = "terminate" THEN SIGTERM ELSE SIGKILL IN
    /\ pc[t] = "signalKill"
    /\ \/ /\ child \in {"running", "zombie"} /\ KillAllowed
          /\ pending' = pending \cup {sig}
          /\ SignalReturns(t, TRUE) /\ UNCHANGED <<errorCode, strays, refused>>
       \/ /\ child \in {"running", "zombie"} /\ ~KillAllowed
          /\ errorCode' = "EPERM" /\ refused' = refused \cup {u \in Threads : op[u] = "timedWait"}
          /\ SignalReturns(t, FALSE) /\ UNCHANGED <<pending, strays>>
       \/ /\ child = "gone" /\ recycled
          /\ strays' = strays \cup {t}
          /\ SignalReturns(t, TRUE) /\ UNCHANGED <<errorCode, pending, refused>>
       \/ /\ child = "gone" /\ ~recycled                      \* ESRCH
          /\ SignalReturns(t, TRUE) /\ UNCHANGED <<errorCode, pending, strays, refused>>
    /\ UNCHANGED <<world, childCreated, detachedStarted, returncode, waitpidLock, child, status,
                   recycled, expired, raced>>

\* Mutant: the destructor waits without having killed.
DestroyWithoutKill(t) ==
    /\ Quiet /\ ~destroyed
    /\ \/ /\ childCreated /\ returncode = {}
          /\ pc' = [pc EXCEPT ![t] = "waitEnter"]
          /\ op' = [op EXCEPT ![t] = "destroy"]
          /\ UNCHANGED destroyed
       \/ ~(childCreated /\ returncode = {}) /\ destroyed' = TRUE /\ UNCHANGED <<pc, op>>
    /\ raced' = raced \ {t} /\ strays' = strays \ {t}
    /\ UNCHANGED <<world, implVars, osVars, expired, result, refused>>

Destroy(t) ==
    /\ Quiet /\ ~destroyed
    /\ \/ /\ childCreated /\ returncode = {}
          /\ pc' = [pc EXCEPT ![t] = "signalEnter"]
          /\ op' = [op EXCEPT ![t] = "destroy"]
          /\ UNCHANGED destroyed
       \/ ~(childCreated /\ returncode = {}) /\ destroyed' = TRUE /\ UNCHANGED <<pc, op>>
    /\ raced' = raced \ {t} /\ strays' = strays \ {t}
    /\ UNCHANGED <<world, implVars, osVars, expired, result, refused>>

-----------------------------------------------------------------------------
Step(t) ==
    \/ PollEnter(t) \/ PollTryLock(t) \/ PollWaitpid(t) \/ PollStore(t)
    \/ TimedEnter(t) \/ TimedCheck(t)
    \/ WaitEnter(t) \/ WaitLoop(t) \/ WaitLock(t) \/ WaitWaitpid(t) \/ WaitStore(t)
    \/ SignalEnter(t) \/ SignalCheck(t) \/ SignalKill(t)

Environment ==
    \/ ChildExits \/ \E s \in Signals : ChildSignaled(s)
    \/ ChildIgnoresSigterm \/ RecyclePid

Next ==
    \/ Environment
    \/ \E t \in Threads :
           \/ StartFails(t) \/ StartSucceeds(t) \/ Call(t) \/ Destroy(t)
           \/ Tick(t) \/ WaitInterrupted(t) \/ Step(t)

Spec == Init /\ [][Next]_vars

\* Threads run, the clock advances and SIGKILL is obeyed.  Nobody has to make a
\* call, and a child need never exit of its own accord.
Fairness ==
    /\ \A t \in Threads : WF_vars(Step(t)) /\ WF_vars(Tick(t))
    /\ WF_vars(ChildSignaled(SIGKILL))

FairSpec == Spec /\ Fairness

-----------------------------------------------------------------------------
(* Properties. *)

\* What returncode() reports is how the child really ended, however many threads
\* collect it: the loser of a race must not find ECHILD and report 0.
StatusIsTrue ==
    (~SigchldIgnored /\ returncode # {}) =>
        /\ child = "gone"
        /\ returncode = {ReturnCode(st) : st \in status}

\* A status, once reported, never changes: not under a second waiter, a second poll
\* or a signal sent late.
StatusIsFinal ==
    [][(returncode # {} /\ childCreated) => returncode' = returncode]_vars

\* A signal can land on a process that was handed the child's pid only if another
\* thread collected the child in the middle of that very call (_internal_poll first).
StrayOnlyWhenRaced == ~SigchldIgnored => strays \subseteq raced

\* When the destructor returns, the child has ended and has been collected: neither a
\* running process nor a zombie is left.
NothingLeftBehind == (destroyed /\ childCreated) => child = "gone"

\* A timed wait gives up on a running child at its deadline, not before, although its loop looks
\* at the error_code that every call stores to: only a signal refused in the middle of this very
\* wait ends it early, and no error that an earlier call has left.
DeadlineKept ==
    [][\A t \in Threads :
          (op[t] = "timedWait" /\ op'[t] = "none" /\ ~result'[t] /\ childCreated)
             => expired[t] \/ t \in refused]_vars

\* poll(), the timed wait and the signal calls come back although another thread sits
\* in waitpid() with the lock and the child never ends.
NonblockingCallsReturn ==
    \A t \in Threads :
        op[t] \in {"poll", "timedWait", "kill", "terminate"} ~> op[t] = "none"

\* Every wait() returns once the child has ended, whoever collected it.
WaitersReleased ==
    \A t \in Threads :
        (op[t] = "wait" /\ child \in {"zombie", "gone"}) ~> op[t] = "none"

\* Destroying the object ends: SIGKILL is on its way before it starts to wait.  A child
\* that may not be killed is waited for until it ends by itself.
DestructorReturns ==
    \A t \in Threads : (op[t] = "destroy" /\ KillAllowed) ~> destroyed

\* No call hangs that need not: poll(), a timed wait and the signals never, wait() and the
\* destructor no longer than the child lives.
CallsReturn == NonblockingCallsReturn /\ WaitersReleased /\ DestructorReturns

=============================================================================
