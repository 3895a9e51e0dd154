-------------------------- MODULE PopenCommunicate --------------------------
(***************************************************************************)
(* Popen::communicate() on Unix: one poll loop that feeds the child's      *)
(* stdin and drains its stdout and stderr, the wait that follows, and the  *)
(* kill at the deadline.  Parent and child run concurrently over pipes of  *)
(* bounded capacity; a parent step is one system call.                     *)
(*                                                                         *)
(* Data are counted, not carried: a pipe is the number of units in it.     *)
(* The clock is one bit, set when the deadline has passed.                 *)
(***************************************************************************)
EXTENDS Integers, FiniteSets

CONSTANTS Settings   \* the calls to consider: one of these, chosen at the beginning

Streams == {"in", "out", "err"}
Outputs == {"out", "err"}

ASSUME SettingsAssumption ==
    \A s \in Settings :
        /\ s.pipes \subseteq Streams          \* the standard streams that are PIPE
        /\ s.inherited \subseteq s.pipes      \* those a grandchild keeps open after the child
        /\ s.capacity \in Nat \ {0}          \* units a pipe holds, or still has room for
        /\ s.readSize \in Nat \ {0}          \* units one read() takes at most (buf[4096])
        /\ s.input \in Nat                   \* units given to communicate()
        /\ s.buffered \in Nat                \* units left in the stdin_() stream's buffer
        /\ s.buffered > 0 => "in" \in s.pipes
        /\ s.output \in Nat                  \* units the child writes to a pipe at most
        /\ s.hasTimeout \in BOOLEAN          \* timeout >= 0
        /\ s.mayHang \in BOOLEAN             \* the child may stop moving for good
        /\ s.endless \in BOOLEAN             \* it writes without end: output is no bound
        /\ s.pollMayFail \in BOOLEAN         \* with something other than EINTR

VARIABLES
    setting,     \* which of the Settings this behaviour is of
    stage,          \* where the parent is
    fds,         \* the streams whose in_fd, out_fd, err_fd is not -1
    openEnds,    \* the parent's ends of the pipes that are still open
    unflushed,   \* units in the stdin stream's own buffer
    written,     \* units of the input written
    got,         \* units collected from out and err
    revents,     \* what the last poll() reported, not yet served
    inBroken,    \* ... and that it reported an error on stdin
    timedOut,    \* timed_out
    commError,   \* error_code
    killed,      \* kill_impl() has been called
    sigpipe,     \* the process's disposition of SIGPIPE
    parentAlive,
    deadlineOver,     \* the deadline has passed
    pipe,        \* units in each pipe
    childEnds,   \* the pipes the child has open
    childOp,     \* what the child is about to do
    wrote,       \* units the child has written to out and err
    childRead,   \* units it has read
    childEof,    \* it has been told its input is over
    reaped,      \* the parent has its status
    pollFailed   \* a poll() failed in this call

parentVars == <<stage, fds, openEnds, unflushed, written, got, revents, inBroken,
                timedOut, commError, killed, sigpipe, parentAlive, reaped, pollFailed>>
childVars == <<childEnds, childOp, wrote, childRead, childEof>>
commVars == <<setting, parentVars, deadlineOver, pipe, childVars>>

Pipes == setting.pipes
Inherited == setting.inherited
Capacity == setting.capacity
ReadSize == setting.readSize
Input == setting.input
Buffered == setting.buffered
Output == setting.output
HasTimeout == setting.hasTimeout
ChildMayHang == setting.mayHang
ChildEndless == setting.endless
PollMayFail == setting.pollMayFail

\* Mutant: one unit more than there is room for.
LeastAndOne(a, b) == IF a <= b THEN a + 1 ELSE b
Least(a, b) == IF a <= b THEN a ELSE b
\* remaining() is 0: never without a timeout.
DeadlinePassed == HasTimeout /\ deadlineOver
ChildRunning == childOp # "exited"

CommTypeOK ==
    /\ setting \in Settings
    /\ stage \in {"start", "flush", "setup", "poll", "serveIn", "serveOut", "serveErr",
               "wait", "waitAfterKill", "close", "done"}
    /\ fds \in SUBSET Pipes /\ openEnds \in SUBSET Pipes /\ revents \in SUBSET Pipes
    /\ unflushed \in 0..Buffered /\ written \in 0..Input
    /\ got \in [Outputs -> 0..Output] /\ wrote \in [Outputs -> 0..Output]
    /\ inBroken \in BOOLEAN /\ timedOut \in BOOLEAN /\ killed \in BOOLEAN
    /\ commError \in {"none", "timed_out", "poll"}
    /\ sigpipe \in {"default", "ignored"}
    /\ parentAlive \in BOOLEAN /\ deadlineOver \in BOOLEAN /\ reaped \in BOOLEAN
    /\ pipe \in [Streams -> 0..Capacity]
    /\ childEnds \in SUBSET Pipes
    /\ childOp \in {"choose", "read", "out", "err", "hang", "exited"}
    /\ childRead \in 0..(Input + Buffered) /\ childEof \in BOOLEAN
    /\ pollFailed \in BOOLEAN

CommInit ==
    /\ setting \in Settings
    /\ stage = "start" /\ fds = {} /\ openEnds = Pipes
    /\ unflushed = Buffered /\ written = 0
    /\ got = [s \in Outputs |-> 0] /\ wrote = [s \in Outputs |-> 0]
    /\ revents = {} /\ inBroken = FALSE
    /\ timedOut = FALSE /\ commError = "none" /\ killed = FALSE
    /\ sigpipe = "default" /\ parentAlive = TRUE /\ deadlineOver = FALSE
    /\ pipe = [s \in Streams |-> 0]
    /\ childEnds = Pipes /\ childOp = "choose"
    /\ childRead = 0 /\ childEof = FALSE /\ reaped = FALSE /\ pollFailed = FALSE

-----------------------------------------------------------------------------
(* The child: any program that reads its input at most to the end, writes   *)
(* at most Output units to each stream, in any order, and may close an end  *)
(* or exit at any point.                                                    *)

HasReader(s) == s \in childEnds \cup Inherited
HasWriter(s) == s \in childEnds \cup Inherited

ChildChooses ==
    /\ childOp = "choose"
    /\ \/ "in" \in childEnds /\ ~childEof /\ childOp' = "read" /\ UNCHANGED childEnds
       \/ \E s \in Outputs \cap childEnds :
              /\ ChildEndless \/ wrote[s] < Output
              /\ childOp' = s /\ UNCHANGED childEnds
       \/ ChildMayHang /\ childOp' = "hang" /\ UNCHANGED childEnds
       \/ ~ChildEndless /\ \E s \in childEnds : childEnds' = childEnds \ {s} /\ UNCHANGED childOp
       \/ ~ChildEndless /\ childOp' = "exited" /\ childEnds' = {}
    /\ UNCHANGED <<setting, parentVars, deadlineOver, pipe, wrote, childRead, childEof>>

ChildReads ==
    /\ childOp = "read"
    /\ \/ /\ pipe["in"] > 0
          /\ pipe' = [pipe EXCEPT !["in"] = @ - 1]
          /\ childRead' = childRead + 1 /\ UNCHANGED childEof
       \/ /\ pipe["in"] = 0 /\ "in" \notin openEnds
          /\ childEof' = TRUE /\ UNCHANGED <<pipe, childRead>>
    /\ childOp' = "choose"
    /\ UNCHANGED <<setting, parentVars, deadlineOver, childEnds, wrote>>

ChildWrites(s) ==
    /\ childOp = s /\ pipe[s] < Capacity
    /\ pipe' = [pipe EXCEPT ![s] = @ + 1]
    /\ wrote' = IF ChildEndless THEN wrote ELSE [wrote EXCEPT ![s] = @ + 1]
    /\ childOp' = "choose"
    /\ UNCHANGED <<setting, parentVars, deadlineOver, childEnds, childRead, childEof>>

ChildDies ==
    /\ killed /\ ChildRunning
    /\ childOp' = "exited" /\ childEnds' = {}
    /\ UNCHANGED <<setting, parentVars, deadlineOver, pipe, wrote, childRead, childEof>>

\* The clock starts after the flush.
TimePasses ==
    /\ HasTimeout /\ ~deadlineOver /\ stage \notin {"start", "flush", "done"}
    /\ deadlineOver' = TRUE
    /\ UNCHANGED <<setting, parentVars, pipe, childVars>>

-----------------------------------------------------------------------------
(* Before the loop. *)

Start ==
    /\ stage = "start"
    /\ stage' = IF "in" \in openEnds THEN "flush" ELSE "setup"
    /\ UNCHANGED <<setting, fds, openEnds, unflushed, written, got, revents, inBroken, timedOut,
                   commError, killed, sigpipe, parentAlive, deadlineOver, pipe, childVars, reaped,
                   pollFailed>>

\* A write to a pipe nobody reads any more: EPIPE, or the end of the process.
BrokenPipe == parentAlive' = (sigpipe = "ignored")

\* stdin_stream.flush(): a blocking write, under the caller's SIGPIPE disposition.
Flush ==
    /\ stage = "flush"
    /\ \/ /\ unflushed > 0 /\ HasReader("in") /\ pipe["in"] < Capacity
          /\ pipe' = [pipe EXCEPT !["in"] = @ + 1]
          /\ unflushed' = unflushed - 1 /\ UNCHANGED <<stage, parentAlive>>
       \/ /\ unflushed > 0 /\ ~HasReader("in")
          /\ BrokenPipe /\ stage' = (IF parentAlive' THEN "setup" ELSE stage)
          /\ UNCHANGED <<pipe, unflushed>>
       \/ unflushed = 0 /\ stage' = "setup" /\ UNCHANGED <<pipe, unflushed, parentAlive>>
    /\ UNCHANGED <<setting, fds, openEnds, written, got, revents, inBroken, timedOut, commError,
                   killed, sigpipe, deadlineOver, childVars, reaped, pollFailed>>

\* Mutant: no guard over the loop.
SetUpUnguarded ==
    /\ stage = "setup"
    /\ openEnds' = IF Input = 0 THEN openEnds \ {"in"} ELSE openEnds
    /\ fds' = openEnds'
    /\ stage' = "poll"
    /\ UNCHANGED <<setting, unflushed, written, got, revents, inBroken, timedOut, commError,
                   killed, sigpipe, parentAlive, deadlineOver, pipe, childVars, reaped, pollFailed>>

\* O_NONBLOCK, the early close of stdin, the guard.
SetUp ==
    /\ stage = "setup"
    /\ openEnds' = IF Input = 0 THEN openEnds \ {"in"} ELSE openEnds
    /\ fds' = openEnds'
    /\ sigpipe' = "ignored"
    /\ stage' = "poll"
    /\ UNCHANGED <<setting, unflushed, written, got, revents, inBroken, timedOut, commError,
                   killed, parentAlive, deadlineOver, pipe, childVars, reaped, pollFailed>>

-----------------------------------------------------------------------------
(* The loop. *)

Ready(s) ==
    IF s = "in" THEN pipe["in"] < Capacity \/ ~HasReader("in")
                ELSE pipe[s] > 0 \/ ~HasWriter(s)

\* poll() answers with everything that is ready, or, at the deadline, with nothing.
Poll ==
    LET ready == {s \in fds : Ready(s)} IN
    /\ stage = "poll" /\ fds # {}
    /\ \/ /\ ready # {}
          /\ revents' = ready /\ inBroken' = ("in" \in ready /\ ~HasReader("in"))
          /\ stage' = "serveIn" /\ UNCHANGED timedOut
       \/ /\ ready = {} /\ DeadlinePassed
          /\ timedOut' = TRUE /\ stage' = "wait" /\ UNCHANGED <<revents, inBroken>>
    /\ UNCHANGED <<setting, fds, openEnds, unflushed, written, got, commError, killed, sigpipe,
                   parentAlive, deadlineOver, pipe, childVars, reaped, pollFailed>>

PollFails ==
    /\ stage = "poll" /\ fds # {} /\ PollMayFail /\ ~pollFailed
    /\ commError' = "poll" /\ pollFailed' = TRUE /\ stage' = "wait"
    /\ UNCHANGED <<setting, fds, openEnds, unflushed, written, got, revents, inBroken, timedOut,
                   killed, sigpipe, parentAlive, deadlineOver, pipe, childVars, reaped>>

LoopEnds ==
    /\ stage = "poll" /\ fds = {}
    /\ stage' = "wait"
    /\ UNCHANGED <<setting, fds, openEnds, unflushed, written, got, revents, inBroken, timedOut,
                   commError, killed, sigpipe, parentAlive, deadlineOver, pipe, childVars, reaped,
                   pollFailed>>

\* Mutant: a short write is taken for the whole.
InputCompleteAfterShortWrite(n) == n > 0
InputComplete(n) == n = Input

\* Mutant: the stream is dropped from the poll set and never closed.
ForgetStdin == fds' = fds \ {"in"} /\ UNCHANGED openEnds
CloseStdin == openEnds' = openEnds \ {"in"} /\ fds' = fds \ {"in"}

ServeIn ==
    /\ stage = "serveIn" /\ stage' = "serveOut"
    /\ \/ "in" \notin revents /\ UNCHANGED <<fds, openEnds, written, parentAlive, pipe>>
       \/ "in" \in revents /\ inBroken /\ CloseStdin /\ UNCHANGED <<written, parentAlive, pipe>>
       \/ /\ "in" \in revents /\ ~inBroken /\ ~HasReader("in")   \* gone since the poll
          /\ BrokenPipe /\ CloseStdin /\ UNCHANGED <<written, pipe>>
       \/ /\ "in" \in revents /\ ~inBroken /\ HasReader("in")
          /\ \E n \in 1..Least(Capacity - pipe["in"], Input - written) :
                 /\ pipe' = [pipe EXCEPT !["in"] = @ + n]
                 /\ written' = written + n
          /\ IF InputComplete(written') THEN CloseStdin ELSE UNCHANGED <<fds, openEnds>>
          /\ UNCHANGED parentAlive
    /\ UNCHANGED <<setting, unflushed, got, revents, inBroken, timedOut, commError, killed,
                   sigpipe, deadlineOver, childVars, reaped, pollFailed>>

\* Mutant: EAGAIN is taken for the end.
EndOfStreamOnEagain(s) == pipe[s] = 0
\* read() returns 0.
EndOfStream(s) == pipe[s] = 0 /\ ~HasWriter(s)

\* One read() of drain(): data, and round again; nothing yet; or the end.
Drain(s, here, next) ==
    /\ stage = here
    /\ \/ /\ s \in revents /\ pipe[s] > 0
          /\ LET n == Least(pipe[s], ReadSize) IN
             /\ pipe' = [pipe EXCEPT ![s] = @ - n]
             /\ got' = IF ChildEndless THEN got ELSE [got EXCEPT ![s] = @ + n]
          /\ UNCHANGED <<stage, fds>>
       \/ /\ s \in revents /\ pipe[s] = 0 /\ HasWriter(s)      \* EAGAIN
          /\ stage' = next /\ UNCHANGED <<pipe, got, fds>>
       \/ /\ s \in revents /\ EndOfStream(s)
          /\ fds' = fds \ {s} /\ stage' = next /\ UNCHANGED <<pipe, got>>
       \/ s \notin revents /\ stage' = next /\ UNCHANGED <<pipe, got, fds>>
    /\ UNCHANGED <<setting, openEnds, unflushed, written, revents, inBroken, timedOut,
                   commError, killed, sigpipe, parentAlive, deadlineOver, childVars, reaped,
                   pollFailed>>

-----------------------------------------------------------------------------
(* After it. *)

\* _wait(remaining()) clears error_code, then has the status or reaches the deadline.
\* A loop that timed out skips the wait.
Wait ==
    /\ stage = "wait"
    /\ \/ /\ ~timedOut /\ ~ChildRunning
          /\ reaped' = TRUE /\ commError' = "none" /\ stage' = "close" /\ UNCHANGED killed
       \/ /\ \/ timedOut
             \/ ChildRunning /\ DeadlinePassed
          /\ killed' = TRUE /\ commError' = "none" /\ stage' = "waitAfterKill" /\ UNCHANGED reaped
    /\ UNCHANGED <<setting, fds, openEnds, unflushed, written, got, revents, inBroken, timedOut,
                   sigpipe, parentAlive, deadlineOver, pipe, childVars, pollFailed>>

\* Mutant: the killed child is not waited for.
CloseAfterKill ==
    /\ stage = "waitAfterKill"
    /\ reaped' = ~ChildRunning /\ commError' = "timed_out" /\ stage' = "close"
    /\ UNCHANGED <<setting, fds, openEnds, unflushed, written, got, revents, inBroken, timedOut,
                   killed, sigpipe, parentAlive, deadlineOver, pipe, childVars, pollFailed>>

WaitAfterKill ==
    /\ stage = "waitAfterKill" /\ ~ChildRunning
    /\ reaped' = TRUE /\ commError' = "timed_out" /\ stage' = "close"
    /\ UNCHANGED <<setting, fds, openEnds, unflushed, written, got, revents, inBroken, timedOut,
                   killed, sigpipe, parentAlive, deadlineOver, pipe, childVars, pollFailed>>

\* close_std_files(), and the guard goes out of scope.
Close ==
    /\ stage = "close"
    /\ openEnds' = {} /\ sigpipe' = "default" /\ stage' = "done"
    /\ UNCHANGED <<setting, fds, unflushed, written, got, revents, inBroken, timedOut,
                   commError, killed, parentAlive, deadlineOver, pipe, childVars, reaped,
                   pollFailed>>

-----------------------------------------------------------------------------
ParentStep ==
    /\ parentAlive
    /\ \/ Start \/ Flush \/ SetUp \/ Poll \/ LoopEnds \/ ServeIn
       \/ Drain("out", "serveOut", "serveErr") \/ Drain("err", "serveErr", "poll")
       \/ Wait \/ WaitAfterKill \/ Close

ChildStep == ChildChooses \/ ChildReads \/ \E s \in Outputs : ChildWrites(s)

Finished == (stage = "done" \/ ~parentAlive) /\ UNCHANGED commVars

CommNext ==
    ParentStep \/ (parentAlive /\ PollFails) \/ ChildStep \/ ChildDies \/ TimePasses \/ Finished

CommSpec == CommInit /\ [][CommNext]_commVars

\* Both processes are scheduled, the clock advances, SIGKILL kills.
FairCommSpec ==
    /\ CommSpec
    /\ WF_commVars(ParentStep) /\ WF_commVars(ChildStep) /\ WF_commVars(ChildDies) /\ WF_commVars(TimePasses)

-----------------------------------------------------------------------------
(* Properties. *)

Done == stage = "done"

\* communicate() comes back: no interleaving of a child that reads, writes more than a
\* pipe holds and exits leaves both sides waiting for each other; and with a timeout not
\* even a child that hangs or leaves its pipes to a grandchild can hold it.
CommunicateReturns == <>(Done \/ ~parentAlive)

\* A call that met no error returns everything the child wrote, however its writes,
\* its closes and its exit fell between the reads.
NothingLost == (Done /\ commError = "none" /\ ~pollFailed) => got = wrote

\* The child never takes a cut-off input for a complete one: it is told of the end only
\* after everything, and a child given up on is dead before its stdin is closed.
EndOfInputIsTrue == childEof => childRead = Buffered + Input

\* When the call is over the child is neither running nor uncollected, and the caller is
\* told of a timeout exactly when the child was given up on.
NotLeftBehind == Done => reaped /\ ~ChildRunning /\ (killed <=> commError = "timed_out")

\* A child that stops reading does not take the parent with it, at whatever point of the
\* loop it stops.  The flush before the loop is under no such guard.
LoopSurvives == ~parentAlive => stage = "flush"

=============================================================================
