------------------------------ MODULE ChildFds ------------------------------
(***************************************************************************)
(* The descriptor table of the child between fork() and exec: how          *)
(* _child_exec() turns whatever numbers the parent's pipes, /dev/null and  *)
(* the caller's descriptors happen to have into 0, 1 and 2, and closes the *)
(* rest.  The numbers are those the kernel gives: always the lowest free,  *)
(* so a parent that runs with 0, 1 or 2 closed has its pipes down there.   *)
(***************************************************************************)
EXTENDS Integers

CONSTANTS
    CallerMax,   \* the caller's descriptors are among 0..CallerMax
    MaxFd,       \* the table is 0..MaxFd, with room for eleven more
    CallerFile   \* [0..CallerMax -> the open file behind each of the caller's descriptors]

Fds == 0..MaxFd
Free == "free"

VARIABLES
    pc,
    caller,       \* the descriptors the caller had open before start()
    cloexecOf,    \* TRUE when those are close-on-exec
    dev,          \* what stdin_(), stdout_() and stderr_() were given
    passFds, closeFds,
    file,         \* the table, the parent's and then the child's: what a number stands for
    cloexec,      \* the numbers that are close-on-exec
    fd            \* _pipeFds, _devnull and the locals of run(), by name; -1 for none

settings == <<caller, cloexecOf, dev, passFds, closeFds>>
vars == <<pc, settings, file, cloexec, fd>>

LowestFree(from) ==
    CHOOSE n \in from..MaxFd : file[n] = Free /\ \A m \in from..(n - 1) : file[m] # Free

FdNames == {"p2cread", "p2cwrite", "c2pread", "c2pwrite", "errread", "errwrite",
            "devnull", "errpipe_read", "errpipe_write"}
DeviceChoices == {"none", "PIPE", "DEVNULL"} \cup {CallerFile[i] : i \in caller}

Init ==
    /\ pc = "stdin"
    /\ caller \in SUBSET (0..CallerMax)
    /\ cloexecOf \in BOOLEAN
    /\ dev \in [stdin : DeviceChoices, stdout : DeviceChoices,
                stderr : DeviceChoices \cup {"STDOUT"}]
    /\ dev.stderr = "STDOUT" /\ dev.stdout = "none" => 1 \in caller
    /\ passFds \in {{}} \cup {{n} : n \in caller}
    /\ closeFds \in BOOLEAN
    /\ passFds # {} => closeFds
    /\ file = [n \in Fds |-> IF n \in caller THEN CallerFile[n] ELSE Free]
    /\ cloexec = IF cloexecOf THEN caller ELSE {}
    /\ fd = [name \in FdNames |-> -1]

-----------------------------------------------------------------------------
(* The parent, up to the fork. *)

\* A pipe takes the two lowest numbers, the read end first, both close-on-exec.
MakePipe(r, w, rFile, wFile) ==
    LET a == LowestFree(0)
        b == LowestFree(a + 1)
    IN  /\ file' = [file EXCEPT ![a] = rFile, ![b] = wFile]
        /\ cloexec' = cloexec \cup {a, b}
        /\ fd' = [fd EXCEPT ![r] = a, ![w] = b]

\* /dev/null is opened once for however many streams want it.
UseDevnull(h) ==
    LET n == IF fd.devnull # -1 THEN fd.devnull ELSE LowestFree(0) IN
    /\ file' = [file EXCEPT ![n] = "null"]
    /\ cloexec' = cloexec \cup {n}
    /\ fd' = [fd EXCEPT !.devnull = n, ![h] = n]

\* _get_handles(), one stream: h is the child's end, made by pipe when it is a pipe.
GetHandle(here, d, h, pipe, next) ==
    /\ pc = here /\ pc' = next
    /\ \/ d = "none" /\ UNCHANGED <<file, cloexec, fd>>
       \/ d = "PIPE" /\ pipe
       \/ d = "DEVNULL" /\ UseDevnull(h)
       \/ /\ d = "STDOUT" /\ UNCHANGED <<file, cloexec>>
          /\ fd' = [fd EXCEPT ![h] = IF fd.c2pwrite # -1 THEN fd.c2pwrite ELSE 1]
       \/ \E n \in caller : /\ d = CallerFile[n]
                            /\ fd' = [fd EXCEPT ![h] = n]
                            /\ UNCHANGED <<file, cloexec>>
    /\ UNCHANGED settings

OpenErrpipe ==
    /\ pc = "errpipe" /\ pc' = "raise"
    /\ MakePipe("errpipe_read", "errpipe_write", "pipeR", "pipeW")
    /\ UNCHANGED settings

\* Mutant: the error pipe stays where it came to be.
LeaveErrpipe ==
    pc = "raise" /\ pc' = "fork" /\ UNCHANGED <<settings, file, cloexec, fd>>

\* 0, 1 and 2 are to be overwritten in the child, so the write end moves off them.
RaiseErrpipe ==
    LET w == fd.errpipe_write IN
    /\ pc = "raise" /\ pc' = "fork"
    /\ IF w >= 3 THEN UNCHANGED <<file, cloexec, fd>>
       ELSE LET n == LowestFree(3) IN
            /\ file' = [file EXCEPT ![w] = Free, ![n] = "pipeW"]
            /\ cloexec' = (cloexec \ {w}) \cup {n}
            /\ fd' = [fd EXCEPT !.errpipe_write = n]
    /\ UNCHANGED settings

-----------------------------------------------------------------------------
(* The child. *)

\* Mutant: the whole list is kept across exec, the error pipe with it.
KeepAll ==
    /\ pc = "fork" /\ pc' = "closeParentEnds"
    /\ cloexec' = cloexec \ (passFds \cup {fd.errpipe_write})
    /\ UNCHANGED <<settings, file, fd>>

\* pass_fds survive exec; the error pipe is in the same list and must not.
KeepPassed ==
    /\ pc = "fork" /\ pc' = "closeParentEnds"
    /\ cloexec' = cloexec \ (passFds \ {fd.errpipe_write})
    /\ UNCHANGED <<settings, file, fd>>

CloseParentEnds ==
    LET ends == {fd.p2cwrite, fd.c2pread, fd.errread, fd.errpipe_read} IN
    /\ pc = "closeParentEnds" /\ pc' = "moveStdout"
    /\ file' = [n \in Fds |-> IF n \in ends THEN Free ELSE file[n]]
    /\ cloexec' = cloexec \ ends
    /\ UNCHANGED <<settings, fd>>

\* dup() and close-on-exec on the copy.
Dup(h) ==
    LET n == LowestFree(0) IN
    /\ file' = [file EXCEPT ![n] = file[fd[h]]]
    /\ cloexec' = cloexec \cup {n}
    /\ fd' = [fd EXCEPT ![h] = n]

\* Mutant: a child end on a number to be overwritten is left there.
LeaveStdout ==
    pc = "moveStdout" /\ pc' = "moveStderr" /\ UNCHANGED <<settings, file, cloexec, fd>>

MoveStdout ==
    /\ pc = "moveStdout" /\ pc' = "moveStderr"
    /\ IF fd.c2pwrite = 0 THEN Dup("c2pwrite") ELSE UNCHANGED <<file, cloexec, fd>>
    /\ UNCHANGED settings

MoveStderr ==
    /\ pc = "moveStderr"
    /\ IF fd.errwrite \in {0, 1} THEN Dup("errwrite") /\ UNCHANGED pc
       ELSE pc' = "dup0" /\ UNCHANGED <<file, cloexec, fd>>
    /\ UNCHANGED settings

\* dup2(), which clears close-on-exec, or clearing it by hand when there is nothing to copy.
Place(here, h, n, next) ==
    /\ pc = here /\ pc' = next
    /\ IF fd[h] = -1 THEN UNCHANGED <<file, cloexec>>
       ELSE file' = [file EXCEPT ![n] = file[fd[h]]] /\ cloexec' = cloexec \ {n}
    /\ UNCHANGED <<settings, fd>>

CloseOpenFds ==
    LET closed == {n \in 3..MaxFd : n \notin passFds \cup {fd.errpipe_write}} IN
    /\ pc = "closeFds" /\ pc' = "exec"
    /\ IF closeFds
       THEN /\ file' = [n \in Fds |-> IF n \in closed THEN Free ELSE file[n]]
            /\ cloexec' = cloexec \ closed
       ELSE UNCHANGED <<file, cloexec>>
    /\ UNCHANGED <<settings, fd>>

Exec ==
    /\ pc = "exec" /\ pc' = "running"
    /\ file' = [n \in Fds |-> IF n \in cloexec THEN Free ELSE file[n]]
    /\ cloexec' = {}
    /\ UNCHANGED <<settings, fd>>

Next ==
    \/ GetHandle("stdin", dev.stdin, "p2cread",
                 MakePipe("p2cread", "p2cwrite", "inR", "inW"), "stdout")
    \/ GetHandle("stdout", dev.stdout, "c2pwrite",
                 MakePipe("c2pread", "c2pwrite", "outR", "outW"), "stderr")
    \/ GetHandle("stderr", dev.stderr, "errwrite",
                 MakePipe("errread", "errwrite", "errR", "errW"), "errpipe")
    \/ OpenErrpipe \/ RaiseErrpipe
    \/ KeepPassed \/ CloseParentEnds \/ MoveStdout \/ MoveStderr
    \/ Place("dup0", "p2cread", 0, "dup1") \/ Place("dup1", "c2pwrite", 1, "dup2")
    \/ Place("dup2", "errwrite", 2, "closeFds")
    \/ CloseOpenFds \/ Exec

Spec == Init /\ [][Next]_vars

-----------------------------------------------------------------------------
(* Properties. *)

\* The names of ChildArgs stand for numbers of the table, the error pipe from the fork on for
\* one that will not be overwritten, and a number is close-on-exec only while something is
\* open there: close() forgets the flag and dup() does not inherit one.
TypeOK ==
    /\ pc \in {"stdin", "stdout", "stderr", "errpipe", "raise", "fork", "closeParentEnds",
              "moveStdout", "moveStderr", "dup0", "dup1", "dup2", "closeFds", "exec", "running"}
    /\ fd \in [FdNames -> {-1} \cup Fds]
    /\ pc \notin {"stdin", "stdout", "stderr", "errpipe", "raise"} => fd.errpipe_write \in 3..MaxFd
    /\ DOMAIN file = Fds
    /\ cloexec \subseteq {n \in Fds : file[n] # Free}

\* What the program is to find behind one of its standard streams.
Promised(n, d, end) ==
    CASE d = "none" -> IF n \in caller /\ (~cloexecOf \/ n \in passFds)
                       THEN CallerFile[n] ELSE Free
      [] d = "PIPE" -> end
      [] d = "DEVNULL" -> "null"
      [] OTHER -> d

\* Each standard stream of the program is the one asked for, whatever numbers the
\* descriptors had before and in whatever way they overlapped.
StreamsAsAsked ==
    pc = "running" =>
        LET out == Promised(1, dev.stdout, "outW") IN
        /\ file[0] = Promised(0, dev.stdin, "inR")
        /\ file[1] = out
        /\ file[2] = IF dev.stderr # "STDOUT" THEN Promised(2, dev.stderr, "errW")
                     ELSE IF dev.stdout = "none" THEN CallerFile[1] ELSE out

\* Beyond them the program has what pass_fds() named, and with close_fds() off the
\* caller's inheritable descriptors: no pipe of ours, which would keep an end of input
\* from ever being seen.
NothingElseInherited ==
    pc = "running" =>
        \A n \in 3..MaxFd :
            file[n] = IF n \in caller /\ (n \in passFds \/ (~closeFds /\ ~cloexecOf))
                      THEN CallerFile[n] ELSE Free

\* Until exec the child can report its failure, and exec is what ends the report.
ErrpipeLastsToExec ==
    /\ fd.errpipe_write # -1 /\ pc # "running" => file[fd.errpipe_write] = "pipeW"
    /\ pc = "running" => \A n \in Fds : file[n] # "pipeW"

=============================================================================
