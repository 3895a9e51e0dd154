---------------------------- MODULE SigpipeGuard ----------------------------
(***************************************************************************)
(* sigpipe_guard, which every Popen::communicate() of a program holds over *)
(* its poll loop: it sets the disposition of SIGPIPE to SIG_IGN and puts   *)
(* back what it found.  The disposition belongs to the process; the guards *)
(* belong to threads, each with a child of its own that may stop reading   *)
(* between the poll() that says its stdin is writable and the write().     *)
(***************************************************************************)
EXTENDS FiniteSets

CONSTANTS
    Threads,        \* the threads that call communicate()
    Dispositions,   \* what the program may set SIGPIPE to
    Default,        \* SIG_DFL: the signal ends the process
    Ignore,         \* SIG_IGN
    MayOverlap      \* two calls may be in progress at once

VARIABLES
    disposition,    \* of SIGPIPE, in the process
    wanted,         \* what the program itself last set it to
    old,            \* _old of each thread's guard
    pc,             \* "out", or inside the guard: in the loop, or polled and about to write
    reading,        \* threads whose child still reads its stdin
    alive           \* the process has not been ended by SIGPIPE

vars == <<disposition, wanted, old, pc, reading, alive>>

TypeOK ==
    /\ disposition \in Dispositions /\ wanted \in Dispositions
    /\ old \in [Threads -> Dispositions]
    /\ pc \in [Threads -> {"out", "loop", "polled"}]
    /\ reading \subseteq Threads
    /\ alive \in BOOLEAN

Init ==
    /\ disposition \in Dispositions /\ wanted = disposition
    /\ old = [t \in Threads |-> Default]
    /\ pc = [t \in Threads |-> "out"]
    /\ reading = Threads /\ alive = TRUE

Inside(t) == pc[t] # "out"

\* signal(SIGPIPE, d) by the program, between its calls.
ProgramSets ==
    /\ alive /\ \A t \in Threads : ~Inside(t)
    /\ \E d \in Dispositions : disposition' = d /\ wanted' = d
    /\ UNCHANGED <<old, pc, reading, alive>>

\* Mutant: the disposition is asked for and not set.
InstallNothing(t) ==
    /\ alive /\ pc[t] = "out"
    /\ MayOverlap \/ \A u \in Threads : ~Inside(u)
    /\ old' = [old EXCEPT ![t] = disposition]
    /\ pc' = [pc EXCEPT ![t] = "loop"]
    /\ reading' = reading \cup {t}
    /\ UNCHANGED <<disposition, wanted, alive>>

\* sigaction(SIGPIPE, &ignore, &_old) is one step: it reads and sets.
Install(t) ==
    /\ alive /\ pc[t] = "out"
    /\ MayOverlap \/ \A u \in Threads : ~Inside(u)
    /\ old' = [old EXCEPT ![t] = disposition]
    /\ disposition' = Ignore
    /\ pc' = [pc EXCEPT ![t] = "loop"]
    /\ reading' = reading \cup {t}
    /\ UNCHANGED <<wanted, alive>>

\* poll() says that the child reads and there is room.
PollWritable(t) ==
    /\ alive /\ pc[t] = "loop" /\ t \in reading
    /\ pc' = [pc EXCEPT ![t] = "polled"]
    /\ UNCHANGED <<disposition, wanted, old, reading, alive>>

ChildStopsReading(t) ==
    /\ alive /\ Inside(t) /\ t \in reading
    /\ reading' = reading \ {t}
    /\ UNCHANGED <<disposition, wanted, old, pc, alive>>

\* write(): to a pipe nobody reads it is EPIPE under SIG_IGN, the end under SIG_DFL.
Write(t) ==
    /\ alive /\ pc[t] = "polled"
    /\ alive' = (t \in reading \/ disposition # Default)
    /\ pc' = [pc EXCEPT ![t] = "loop"]
    /\ UNCHANGED <<disposition, wanted, old, reading>>

\* Mutant: the default is put back, not what was found.
RestoreDefault(t) ==
    /\ alive /\ pc[t] = "loop"
    /\ disposition' = Default
    /\ pc' = [pc EXCEPT ![t] = "out"]
    /\ UNCHANGED <<wanted, old, reading, alive>>

\* ~sigpipe_guard: sigaction(SIGPIPE, &_old, nullptr).
Restore(t) ==
    /\ alive /\ pc[t] = "loop"
    /\ disposition' = old[t]
    /\ pc' = [pc EXCEPT ![t] = "out"]
    /\ UNCHANGED <<wanted, old, reading, alive>>

Next ==
    \/ ProgramSets
    \/ \E t \in Threads :
           Install(t) \/ PollWritable(t) \/ ChildStopsReading(t) \/ Write(t) \/ Restore(t)

Spec == Init /\ [][Next]_vars

-----------------------------------------------------------------------------
\* A child that stops reading between the poll and the write costs an EPIPE, not the
\* process.
ProcessSurvives == alive

\* While no call is in progress SIGPIPE is as the program set it.
PutBack == (\A t \in Threads : ~Inside(t)) => disposition = wanted

=============================================================================
