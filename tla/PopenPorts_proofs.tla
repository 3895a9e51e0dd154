------------------------- MODULE PopenPorts_proofs -------------------------
(***************************************************************************)
(* A start, for any number of attempts with any settings: every descriptor *)
(* and every handle is closed once, and what is open at the end is what    *)
(* the answer says.  First the port to Unix, then the one to Windows, with *)
(* its communicate().                                                      *)
(***************************************************************************)
EXTENDS PopenPorts, TLAPS

ChildEnd == [stdin |-> "p2cread", stdout |-> "c2pwrite", stderr |-> "errwrite"]
OurFd == [stdin |-> "inW", stdout |-> "outR", stderr |-> "errR"]
TheirFd == [stdin |-> "inR", stdout |-> "outW", stderr |-> "errW"]

\* The streams whose handles are still to be opened.
NotYet == [stdin |-> {"stdin"}, stdout |-> {"stdin", "stdout"},
           stderr |-> {"stdin", "stdout", "stderr"}]
Taken == {s \in Standard : pc \notin NotYet[s]}
Piped == {s \in Standard : dev[s] = "PIPE"}
Ours == {OurFd[s] : s \in Piped}
Theirs == {TheirFd[s] : s \in Piped}

\* An attempt is under way or has succeeded.
Active == attempts > 0 /\ ~failed

OwnFds == {"errpipeR", "errpipeW", "errpipeDup", "pidpipeR", "pidpipeW"}
BeforeFork == {"stdin", "stdout", "stderr", "fdopen", "prepare", "errpipe", "lowFds", "fork",
               "launcher"}

-----------------------------------------------------------------------------
(* The parts of the invariant. *)

PhaseInv ==
    /\ ~Active => pc \in {"idle", "return"}
    /\ attempts = 0 => pc = "idle"
    /\ Active /\ pc \in BeforeFork \cup {"forked"} => ~closedChildPipeFds
    /\ Active /\ pc \in {"readErrpipe", "reap", "return", "idle"} => closedChildPipeFds
    /\ Active => ~Unsupported(dev, detached)
    /\ prefixes <= attempts
    /\ pc \in {"stdin", "stdout", "stderr", "fdopen", "prepare"} => prefixes < attempts

\* What each handle is, once its stream is taken.
HandleInv ==
    Active => \A s \in Standard :
        /\ s \notin Taken => handle[ChildEnd[s]] = None /\ handle[ParentEnd[s]] = None
        /\ s \in Taken =>
               /\ handle[ParentEnd[s]] = IF dev[s] = "PIPE" THEN OurFd[s] ELSE None
               /\ \/ dev[s] = None /\ handle[ChildEnd[s]] = None
                  \/ dev[s] = "PIPE" /\ handle[ChildEnd[s]] = TheirFd[s]
                  \/ dev[s] = "DEVNULL" /\ handle[ChildEnd[s]] = "devnull"
                  \/ dev[s] = "FD" /\ handle[ChildEnd[s]] = "user"
                  \/ /\ dev[s] = "STDOUT" /\ s = "stderr"
                     /\ handle["errwrite"] =
                            IF handle["c2pwrite"] # None THEN handle["c2pwrite"] ELSE "stdout"

\* Exactly what is open, but for the error pipe and the pid pipe.
OpenInv ==
    /\ badCloses = {}
    /\ ~Active => opened = CallerFds /\ streams = {} /\ devnull = None
    /\ Active =>
           /\ streams = IF pc \in {"stdin", "stdout", "stderr", "fdopen"} THEN {} ELSE Piped
           /\ toClose = {OurFd[s] : s \in Piped \cap Taken} \cup {TheirFd[s] : s \in Piped \cap Taken}
           /\ closedChildPipeFds => devnull = None /\ opened \ OwnFds = CallerFds \cup Ours
           /\ ~closedChildPipeFds =>
                  /\ devnull # None <=> \E s \in Taken : dev[s] = "DEVNULL"
                  /\ opened \ OwnFds = CallerFds \cup toClose \cup Devnull

\* Of these two, exactly what the step needs.
OwnInv ==
    LET own == opened \cap OwnFds
    IN  /\ pc = "lowFds" => own = {"errpipeR", "errpipeW"}
        /\ pc \in {"fork", "forked"} => own \in {{"errpipeR", "errpipeW"}, {"errpipeR", "errpipeDup"}}
        /\ pc = "launcher" => own \in {{"errpipeR", "errpipeW", "pidpipeR"},
                                       {"errpipeR", "errpipeDup", "pidpipeR"}}
        /\ pc = "readErrpipe" => own = {"errpipeR"}
        /\ pc \notin {"lowFds", "fork", "forked", "launcher", "readErrpipe"} => own = {}

\* What has been forked, and what the object says of it.
NothingForked ==
    /\ ~childCreated /\ ~detachedStarted
    /\ child \in {"starting", "running"} => SigchldIgnored
    /\ child = "failed" => detached

ProcInv ==
    /\ ~Active => NothingForked /\ (pc = "idle" => ~pid /\ ~returncode)
    /\ Active /\ pc \in BeforeFork =>
           /\ ~childCreated /\ ~detachedStarted /\ child = "none" /\ ~pid
           /\ pc = "launcher" => detached
    /\ pc \in {"forked", "readErrpipe"} =>
           /\ detached =>
                  /\ ~childCreated
                  /\ \/ child = "starting" /\ detachedStarted = ~SigchldIgnored
                     \/ child \in {"launcherFailed", "none"} /\ ~detachedStarted
           /\ ~detached => childCreated /\ ~detachedStarted /\ child = "starting"
           /\ childCreated \/ detachedStarted => pid
    /\ pc = "reap" => ~detached /\ ~detachedStarted /\ child = "failed"
    /\ pc = "undo" => NothingForked
    /\ Active /\ pc \in {"return", "idle"} =>
           child = "running" /\ pid /\ IF detached THEN detachedStarted ELSE childCreated

StartInv == TypeOK /\ PhaseInv /\ HandleInv /\ OpenInv /\ OwnInv /\ ProcInv

-----------------------------------------------------------------------------
(* Closing, and the ends of pipes. *)

LEMMA Streams ==
    /\ Standard = {"stdin", "stdout", "stderr"}
    /\ ParentEnd.stdin = "p2cwrite" /\ ParentEnd.stdout = "c2pread" /\ ParentEnd.stderr = "errread"
    /\ ChildEnd.stdin = "p2cread" /\ ChildEnd.stdout = "c2pwrite" /\ ChildEnd.stderr = "errwrite"
    /\ OurFd.stdin = "inW" /\ OurFd.stdout = "outR" /\ OurFd.stderr = "errR"
    /\ TheirFd.stdin = "inR" /\ TheirFd.stdout = "outW" /\ TheirFd.stderr = "errW"
    /\ NotYet.stdin = {"stdin"} /\ NotYet.stdout = {"stdin", "stdout"}
    /\ NotYet.stderr = {"stdin", "stdout", "stderr"}
BY DEF Standard, ParentEnd, ChildEnd, OurFd, TheirFd, NotYet

\* What is handed to close() is open, and no two of the handles are one descriptor.
LEMMA ClosesOnce ==
    ASSUME NEW H, NEW S, Close(H, S), badCloses = {}, S \subseteq opened,
           \A h \in H : handle[h] \in opened /\ handle[h] \notin S,
           \A h, k \in H : handle[h] = handle[k] => h = k
    PROVE  badCloses' = {} /\ opened' = opened \ ({handle[h] : h \in H} \cup S)
<1>. DEFINE first == {handle[h] : h \in H}
            twice == {handle[h] : h \in {g \in H : \E k \in H \ {g} : handle[k] = handle[g]}}
<1>1. opened' = opened \ (first \cup S)
      /\ badCloses' = badCloses \cup twice \cup (first \cap S) \cup ((first \cup S) \ opened)
      BY DEF Close
<1>2. twice = {}  OBVIOUS
<1>3. first \cap S = {} /\ (first \cup S) \ opened = {}  OBVIOUS
<1>. QED  BY <1>1, <1>2, <1>3

LEMMA ClosesSet ==
    ASSUME NEW S, Close({}, S), badCloses = {}, S \subseteq opened
    PROVE  badCloses' = {} /\ opened' = opened \ S
BY ClosesOnce

LEMMA PipeEnds ==
    ASSUME TypeOK, HandleInv, PhaseInv, Active, pc \notin {"stdin", "stdout", "stderr"}
    PROVE  /\ ClosableEnds = {ChildEnd[s] : s \in Piped}
           /\ {handle[h] : h \in ClosableEnds} = Theirs
           /\ {s \in Standard : handle[ParentEnd[s]] # None} = Piped
           /\ {handle[h] : h \in ParentEnds(Piped)} = Ours
           /\ \A h, k \in ClosableEnds \cup ParentEnds(Piped) : handle[h] = handle[k] => h = k
<1>. USE Streams
<1>1. Taken = Standard  BY DEF Taken
<1>2. \A s \in Standard : handle[ParentEnd[s]] = IF dev[s] = "PIPE" THEN OurFd[s] ELSE None
      BY <1>1 DEF HandleInv
<1>3. \A s \in Piped : handle[ChildEnd[s]] = TheirFd[s] /\ handle[ParentEnd[s]] = OurFd[s]
      BY <1>1, <1>2 DEF HandleInv, Piped, None
<1>4. \A s \in Standard \ Piped : handle[ParentEnd[s]] = None
      BY <1>2 DEF Piped
<1>5. \A s \in Standard : OurFd[s] # None /\ TheirFd[s] # None /\ TheirFd[s] # devnull
      BY DEF None, TypeOK
<1>6. \A s \in Standard : ChildEnd[s] \in ClosableEnds <=> s \in Piped
      BY <1>3, <1>4, <1>5 DEF ClosableEnds
<1>7. ClosableEnds \subseteq {ChildEnd[s] : s \in Standard}
      BY DEF ClosableEnds
<1>8. Piped \subseteq Standard  BY DEF Piped
<1>9. ClosableEnds = {ChildEnd[s] : s \in Piped}
      BY <1>6, <1>7, <1>8
<1>10. {handle[h] : h \in ClosableEnds} = Theirs
      BY <1>3, <1>9 DEF Theirs
<1>11. {s \in Standard : handle[ParentEnd[s]] # None} = Piped
  <2>1. \A s \in Standard : handle[ParentEnd[s]] # None <=> s \in Piped
        BY <1>3, <1>4, <1>5
  <2>. QED  BY <2>1, <1>8
<1>12. {handle[h] : h \in ParentEnds(Piped)} = Ours
      BY <1>3 DEF ParentEnds, Ours
<1>13. \A h, k \in ClosableEnds \cup ParentEnds(Piped) : handle[h] = handle[k] => h = k
  <2>. SUFFICES ASSUME NEW h \in ClosableEnds \cup ParentEnds(Piped),
                       NEW k \in ClosableEnds \cup ParentEnds(Piped), handle[h] = handle[k]
                PROVE  h = k
       OBVIOUS
  <2>1. \A x : x \in ClosableEnds \cup ParentEnds(Piped) =>
            \E s \in Piped : x \in {ChildEnd[s], ParentEnd[s]}
        BY <1>9 DEF ParentEnds
  <2>2. PICK s \in Piped : h \in {ChildEnd[s], ParentEnd[s]}  BY <2>1
  <2>3. PICK t \in Piped : k \in {ChildEnd[t], ParentEnd[t]}  BY <2>1
  <2>. QED  BY <2>2, <2>3, <1>3, <1>8
<1>. QED  BY <1>9, <1>10, <1>11, <1>12, <1>13
-----------------------------------------------------------------------------
(* The first state, and the steps of start(). *)

LEMMA StartInit == Init => StartInv
<1>. SUFFICES ASSUME Init PROVE StartInv  OBVIOUS
<1>. USE Streams DEF Init
<1>1. TypeOK
  <2>1. dev \in [Standard -> Devices]  BY DEF Devices
  <2>2. handle \in [Handles -> Fds \cup {None}]  OBVIOUS
  <2>3. opened \in SUBSET Fds  BY DEF Fds
  <2>4. prefixes \in 0..MaxAttempts /\ execArgs \in 0..MaxAttempts /\ attempts \in 0..MaxAttempts
        BY AttemptsAssumption
  <2>. QED  BY <2>1, <2>2, <2>3, <2>4 DEF TypeOK
<1>2. ~Active  BY DEF Active
<1>3. PhaseInv  BY <1>2 DEF PhaseInv
<1>4. HandleInv  BY <1>2 DEF HandleInv
<1>5. OpenInv  BY <1>2 DEF OpenInv
<1>6. OwnInv  BY DEF OwnInv, OwnFds, CallerFds
<1>7. ProcInv  BY <1>2 DEF ProcInv, NothingForked
<1>. QED  BY <1>1, <1>3, <1>4, <1>5, <1>6, <1>7 DEF StartInv

LEMMA StartStep == ASSUME StartInv, Start PROVE StartInv'
<1>. USE Streams
<1>1. /\ TypeOK /\ ~Active /\ opened = CallerFds /\ streams = {} /\ devnull = None /\ badCloses = {}
      /\ opened' = opened /\ streams' = streams /\ devnull' = devnull /\ badCloses' = badCloses
      /\ ~childCreated' /\ ~detachedStarted' /\ child' = "none"
      /\ pid' = FALSE /\ returncode' = FALSE /\ closedChildPipeFds' = FALSE
      /\ childCreated' = childCreated /\ detachedStarted' = detachedStarted
      /\ toClose' = {} /\ handle' = [h \in Handles |-> None]
      /\ attempts \in Nat /\ attempts' = attempts + 1 /\ attempts' <= MaxAttempts
      /\ prefixes' \in Nat /\ prefixes' <= attempts
      BY AttemptsAssumption DEF StartInv, OpenInv, ProcInv, PhaseInv, TypeOK, Start, Active
<1>2. /\ pc' \in {"return", "stdin"} /\ failed' \in BOOLEAN /\ (failed' <=> pc' = "return")
      /\ ~failed' => ~Unsupported(dev', detached')
      BY DEF Start
<1>3. TypeOK'
  <2>1. /\ shell' \in BOOLEAN /\ detached' \in BOOLEAN /\ noArgs' \in BOOLEAN
        /\ dev' \in [Standard -> Devices] /\ execArgs' = execArgs
        BY <1>1, SettingsAssumption DEF Start, TypeOK
  <2>2. prefixes' \in 0..MaxAttempts /\ execArgs' \in 0..MaxAttempts /\ attempts' \in 0..MaxAttempts
        BY <1>1, <2>1, AttemptsAssumption DEF TypeOK
  <2>3. handle' \in [Handles -> Fds \cup {None}]  BY <1>1
  <2>. QED  BY <1>1, <1>2, <2>1, <2>2, <2>3 DEF TypeOK
<1>4. Active' <=> pc' = "stdin"
      BY <1>1, <1>2 DEF Active
<1>5. PhaseInv'
      BY <1>1, <1>2, <1>4 DEF PhaseInv, BeforeFork
<1>6. pc' = "stdin" => Taken' = {}  BY DEF Taken
<1>7. HandleInv'
  <2>1. \A s \in Standard : handle'[ChildEnd[s]] = None /\ handle'[ParentEnd[s]] = None
        BY <1>1 DEF Handles
  <2>. QED  BY <1>4, <1>6, <2>1 DEF HandleInv
<1>8. OpenInv'
  <2>1. CallerFds \ OwnFds = CallerFds  BY DEF CallerFds, OwnFds
  <2>. QED  BY <1>1, <1>4, <1>6, <2>1 DEF OpenInv, Devnull
<1>9. OwnInv'
      BY <1>1, <1>2 DEF OwnInv, OwnFds, CallerFds
<1>10. ProcInv'
      BY <1>1, <1>2, <1>4 DEF ProcInv, NothingForked, BeforeFork
<1>. QED  BY <1>3, <1>5, <1>7, <1>8, <1>9, <1>10 DEF StartInv

\* What fails while the handles are made or turned into streams leaves nothing behind.
LEMMA GivesUp ==
    ASSUME StartInv, Active, pc \in {"stdin", "stdout", "stderr", "fdopen"},
           failed' = TRUE, pc' = "return", badCloses' = {}, opened' = CallerFds,
           devnull' = None, streams' = {}, handle' = handle, toClose' = toClose,
           UNCHANGED <<settings, prefixes, closedChildPipeFds, procVars>>
    PROVE  StartInv'
<1>1. TypeOK'
      BY DEF StartInv, TypeOK, settings, procVars, CallerFds, Fds, None
<1>2. ~Active'  BY DEF Active
<1>3. PhaseInv'
      BY <1>2 DEF StartInv, PhaseInv, settings, Active
<1>4. HandleInv'  BY <1>2 DEF HandleInv
<1>5. OpenInv'  BY <1>2 DEF OpenInv
<1>6. OwnInv'  BY DEF OwnInv, OwnFds, CallerFds
<1>7. ProcInv'
      BY <1>2 DEF StartInv, ProcInv, NothingForked, BeforeFork, procVars
<1>. QED  BY <1>1, <1>3, <1>4, <1>5, <1>6, <1>7 DEF StartInv

\* A stream is taken: its handles are what HandleInv says, and what was opened is listed.
LEMMA StreamTaken ==
    ASSUME StartInv, Active, NEW s \in Standard, pc = s, NEW next,
           OpenStandard(s, ChildEnd[s], IF s = "stdin" THEN TheirFd[s] ELSE OurFd[s],
                        IF s = "stdin" THEN OurFd[s] ELSE TheirFd[s], next),
           pc' = next, next \in {"stdout", "stderr", "fdopen"},
           \A u \in Standard : next \in NotYet[u] <=> s \in NotYet[u] /\ u # s
    PROVE  StartInv'
<1>. USE Streams
<1>1. /\ Taken' = Taken \cup {s} /\ s \notin Taken /\ Active' /\ dev' = dev /\ Piped' = Piped
      /\ failed' = failed /\ badCloses' = badCloses
      BY DEF Taken, Active, Piped, OpenStandard, settings, RollBack, TakeHandle
<1>2. ~Unsupported(dev, detached) /\ ~closedChildPipeFds /\ TypeOK
      BY DEF StartInv, PhaseInv, BeforeFork
<1>3. /\ opened \cap OwnFds = {} /\ opened = CallerFds \cup toClose \cup Devnull
      /\ toClose = {OurFd[u] : u \in Piped \cap Taken} \cup {TheirFd[u] : u \in Piped \cap Taken}
      /\ devnull # None <=> \E u \in Taken : dev[u] = "DEVNULL"
      /\ streams = {} /\ devnull \in {None, "devnull"}
      BY <1>2 DEF StartInv, OpenInv, OwnInv, TypeOK
<1>4. /\ UNCHANGED <<settings, prefixes, streams, closedChildPipeFds, procVars>>
      /\ \/ dev[s] = None /\ UNCHANGED <<handle, toClose, devnull, opened>>
         \/ /\ dev[s] = "PIPE" /\ UNCHANGED devnull
            /\ handle' = [handle EXCEPT ![ChildEnd[s]] = TheirFd[s], ![ParentEnd[s]] = OurFd[s]]
            /\ opened' = opened \cup {TheirFd[s], OurFd[s]}
            /\ toClose' = toClose \cup {TheirFd[s], OurFd[s]}
         \/ /\ dev[s] = "DEVNULL" /\ devnull' = "devnull" /\ UNCHANGED toClose
            /\ opened' = IF devnull = None THEN opened \cup {"devnull"} ELSE opened
            /\ handle' = [handle EXCEPT ![ChildEnd[s]] = "devnull"]
         \/ /\ dev[s] = "FD" /\ UNCHANGED <<toClose, devnull, opened>>
            /\ handle' = [handle EXCEPT ![ChildEnd[s]] = "user"]
         \/ /\ dev[s] = "STDOUT" /\ UNCHANGED <<toClose, devnull, opened>>
            /\ handle' = [handle EXCEPT ![ChildEnd[s]] =
                             IF handle["c2pwrite"] # None THEN handle["c2pwrite"] ELSE "stdout"]
  <2>1. CASE s = "stdin"  BY <2>1 DEF OpenStandard, OpenDevnull, TakeHandle, RollBack
  <2>2. CASE s # "stdin"  BY <2>2 DEF OpenStandard, OpenDevnull, TakeHandle, RollBack
  <2>. QED  BY <2>1, <2>2
<1>5. dev[s] = "STDOUT" => s = "stderr"
      BY <1>2 DEF Unsupported
<1>6. /\ ChildEnd[s] \in Handles /\ ParentEnd[s] \in Handles /\ ChildEnd[s] # ParentEnd[s]
      /\ TheirFd[s] \in PipeFds /\ OurFd[s] \in PipeFds
      BY DEF Handles, PipeFds
<1>7. /\ handle \in [Handles -> Fds \cup {None}] /\ "c2pwrite" \in Handles
      /\ handle[ChildEnd[s]] = None /\ handle[ParentEnd[s]] = None
      BY <1>1 DEF StartInv, TypeOK, HandleInv, Handles
<1>8. /\ \A h \in Handles \ {ChildEnd[s], ParentEnd[s]} : handle'[h] = handle[h]
      /\ handle'[ParentEnd[s]] = IF dev[s] = "PIPE" THEN OurFd[s] ELSE None
      /\ \/ dev[s] = None /\ handle'[ChildEnd[s]] = None
         \/ dev[s] = "PIPE" /\ handle'[ChildEnd[s]] = TheirFd[s]
         \/ dev[s] = "DEVNULL" /\ handle'[ChildEnd[s]] = "devnull"
         \/ dev[s] = "FD" /\ handle'[ChildEnd[s]] = "user"
         \/ dev[s] = "STDOUT" /\ handle'[ChildEnd[s]] =
                IF handle["c2pwrite"] # None THEN handle["c2pwrite"] ELSE "stdout"
      BY <1>4, <1>6, <1>7 DEF None
<1>9. TypeOK'
  <2>1. handle' \in [Handles -> Fds \cup {None}]
        BY <1>4, <1>6, <1>7 DEF Fds, CallerFds
  <2>2. toClose' \in SUBSET PipeFds /\ opened' \in SUBSET Fds /\ devnull' \in {None, "devnull"}
        BY <1>2, <1>4, <1>6 DEF TypeOK, Fds
  <2>. QED  BY <1>1, <1>2, <1>4, <2>1, <2>2 DEF TypeOK, settings, procVars
<1>10. PhaseInv'
  <2>1. PhaseInv  BY DEF StartInv
  <2>. QED  BY <1>1, <1>2, <1>4, <2>1 DEF PhaseInv, BeforeFork, settings, Active
<1>11. HandleInv'
  <2>. SUFFICES ASSUME NEW u \in Standard
                PROVE  /\ u \notin Taken' => handle'[ChildEnd[u]] = None /\ handle'[ParentEnd[u]] = None
                       /\ u \in Taken' =>
                              /\ handle'[ParentEnd[u]] = IF dev[u] = "PIPE" THEN OurFd[u] ELSE None
                              /\ \/ dev[u] = None /\ handle'[ChildEnd[u]] = None
                                 \/ dev[u] = "PIPE" /\ handle'[ChildEnd[u]] = TheirFd[u]
                                 \/ dev[u] = "DEVNULL" /\ handle'[ChildEnd[u]] = "devnull"
                                 \/ dev[u] = "FD" /\ handle'[ChildEnd[u]] = "user"
                                 \/ /\ dev[u] = "STDOUT" /\ u = "stderr"
                                    /\ handle'["errwrite"] = IF handle'["c2pwrite"] # None
                                           THEN handle'["c2pwrite"] ELSE "stdout"
       BY <1>1 DEF HandleInv
  <2>1. CASE u = s
        BY <1>1, <1>5, <1>6, <1>7, <1>8, <2>1
  <2>2. CASE u # s
    <3>1. handle'[ChildEnd[u]] = handle[ChildEnd[u]] /\ handle'[ParentEnd[u]] = handle[ParentEnd[u]]
          BY <1>8, <2>2 DEF Handles
    <3>2. u \in Taken' <=> u \in Taken  BY <1>1, <2>2
    <3>3. "stderr" \notin Taken  BY DEF Taken
    <3>. QED  BY <1>1, <2>2, <3>1, <3>2, <3>3 DEF StartInv, HandleInv
  <2>. QED  BY <2>1, <2>2
<1>12. OpenInv'
  <2>1. toClose' = {OurFd[u] : u \in Piped \cap Taken'} \cup {TheirFd[u] : u \in Piped \cap Taken'}
    <3>1. CASE dev[s] = "PIPE"
      <4>1. toClose' = toClose \cup {TheirFd[s], OurFd[s]}  BY <1>4, <3>1 DEF None
      <4>2. Piped \cap Taken' = (Piped \cap Taken) \cup {s}  BY <1>1, <3>1 DEF Piped
      <4>. QED  BY <1>3, <4>1, <4>2
    <3>2. CASE dev[s] # "PIPE"
      <4>1. toClose' = toClose  BY <1>4, <3>2
      <4>2. Piped \cap Taken' = Piped \cap Taken  BY <1>1, <3>2 DEF Piped
      <4>. QED  BY <1>3, <4>1, <4>2
    <3>. QED  BY <3>1, <3>2
  <2>2. devnull' # None <=> \E u \in Taken' : dev[u] = "DEVNULL"
        BY <1>1, <1>3, <1>4 DEF None
  <2>3. opened' = CallerFds \cup toClose' \cup Devnull'
        BY <1>3, <1>4 DEF Devnull, None
  <2>4. opened' \ OwnFds = opened'
        BY <1>3, <1>4, <1>6 DEF OwnFds, PipeFds
  <2>5. streams' = {} /\ ~closedChildPipeFds' /\ badCloses' = {}
        BY <1>1, <1>2, <1>3, <1>4 DEF StartInv, OpenInv
  <2>6. IF pc' \in {"stdin", "stdout", "stderr", "fdopen"} THEN TRUE ELSE FALSE  OBVIOUS
  <2>. QED  BY <1>1, <2>1, <2>2, <2>3, <2>4, <2>5, <2>6 DEF OpenInv
<1>13. OwnInv'
  <2>1. opened' \cap OwnFds = {}
        BY <1>3, <1>4, <1>6 DEF OwnFds, PipeFds
  <2>. QED  BY <2>1 DEF OwnInv
<1>14. ProcInv'
      BY <1>1, <1>4 DEF StartInv, ProcInv, BeforeFork, settings, procVars
<1>. QED  BY <1>9, <1>10, <1>11, <1>12, <1>13, <1>14 DEF StartInv

LEMMA OpenStandardStep ==
    ASSUME StartInv, NEW s \in Standard, NEW next,
           OpenStandard(s, ChildEnd[s], IF s = "stdin" THEN TheirFd[s] ELSE OurFd[s],
                        IF s = "stdin" THEN OurFd[s] ELSE TheirFd[s], next),
           next \in {"stdout", "stderr", "fdopen"},
           \A u \in Standard : next \in NotYet[u] <=> s \in NotYet[u] /\ u # s
    PROVE  StartInv'
<1>. USE Streams
<1>1. pc = s /\ pc \in {"stdin", "stdout", "stderr"}  BY DEF OpenStandard
<1>2. Active  BY <1>1 DEF StartInv, PhaseInv
<1>3. CASE pc' = next  BY <1>1, <1>2, <1>3, StreamTaken
<1>4. CASE pc' # next
  <2>1. RollBack /\ UNCHANGED <<settings, prefixes, streams, closedChildPipeFds, procVars>>
        BY <1>4 DEF OpenStandard, TakeHandle
  <2>2. /\ badCloses = {} /\ streams = {} /\ opened = CallerFds \cup toClose \cup Devnull
        /\ toClose \subseteq PipeFds /\ devnull \in {None, "devnull"}
    <3>1. ~closedChildPipeFds /\ opened \cap OwnFds = {}
          BY <1>1, <1>2 DEF StartInv, PhaseInv, OwnInv, BeforeFork
    <3>. QED  BY <1>1, <1>2, <3>1 DEF StartInv, OpenInv, TypeOK
  <2>3. badCloses' = {} /\ opened' = opened \ (toClose \cup Devnull)
        BY <2>1, <2>2, ClosesSet DEF RollBack
  <2>4. opened' = CallerFds
        BY <2>2, <2>3 DEF CallerFds, PipeFds, Devnull
  <2>. QED  BY <1>1, <1>2, <2>1, <2>2, <2>3, <2>4, GivesUp DEF RollBack
<1>. QED  BY <1>3, <1>4

\* Only the phase, the error pipe or the process change, on the way to the fork.
LEMMA ToTheFork ==
    ASSUME StartInv, Active, pc \in {"fdopen", "prepare", "errpipe", "lowFds", "fork", "launcher"},
           TypeOK', PhaseInv', OwnInv', ProcInv', badCloses' = {},
           pc' \notin {"stdin", "stdout", "stderr", "fdopen"},
           streams' = Piped, opened' \ OwnFds = opened \ OwnFds,
           UNCHANGED <<settings, handle, toClose, devnull, closedChildPipeFds, failed>>
    PROVE  StartInv'
<1>. USE Streams
<1>1. Active' /\ dev' = dev /\ Piped' = Piped /\ Ours' = Ours  BY DEF Active, settings, Piped, Ours
<1>2. Taken' = Taken  BY DEF Taken
<1>3. HandleInv'
      BY <1>1, <1>2 DEF StartInv, HandleInv
<1>4. OpenInv'
      BY <1>1, <1>2 DEF StartInv, OpenInv, Devnull
<1>. QED  BY <1>3, <1>4 DEF StartInv

LEMMA FdopenStep == ASSUME StartInv, Fdopen PROVE StartInv'
<1>. USE Streams
<1>1. /\ pc = "fdopen" /\ Active /\ ~closedChildPipeFds /\ badCloses = {} /\ streams = {}
      /\ opened = CallerFds \cup toClose \cup Devnull
      /\ toClose = Ours \cup Theirs /\ devnull \in {None, "devnull"}
  <2>1. pc = "fdopen" /\ Active  BY DEF Fdopen, StartInv, PhaseInv
  <2>2. ~closedChildPipeFds /\ opened \cap OwnFds = {}
        BY <2>1 DEF StartInv, PhaseInv, OwnInv, BeforeFork
  <2>3. Taken = Standard /\ Piped \cap Taken = Piped  BY <2>1 DEF Taken, Piped
  <2>. QED  BY <2>1, <2>2, <2>3 DEF StartInv, OpenInv, TypeOK, Ours, Theirs
<1>2. UNCHANGED <<settings, prefixes, handle, toClose, closedChildPipeFds, procVars>>
      BY DEF Fdopen
<1>3. {s \in Standard : handle[ParentEnd[s]] # None} = Piped
      BY <1>1, PipeEnds DEF StartInv
<1>4. CASE streams' = Piped /\ pc' = "prepare" /\ UNCHANGED <<devnull, opened, badCloses, failed>>
  <2>1. Piped \subseteq Standard  BY DEF Piped
  <2>2. TypeOK'  BY <1>2, <1>4, <2>1 DEF StartInv, TypeOK, settings, procVars
  <2>3. PhaseInv'
        BY <1>1, <1>2, <1>4 DEF StartInv, PhaseInv, settings, Active, BeforeFork
  <2>4. OwnInv'  BY <1>1, <1>4 DEF StartInv, OwnInv
  <2>5. ProcInv'
        BY <1>1, <1>2, <1>4 DEF StartInv, ProcInv, Active, settings, procVars, BeforeFork
  <2>. QED  BY <1>1, <1>2, <1>4, <2>2, <2>3, <2>4, <2>5, ToTheFork
<1>5. CASE ClosePipeFds1(ParentEnds(Piped)) /\ failed' = TRUE /\ pc' = "return" /\ UNCHANGED streams
  <2>1. Close(ParentEnds(Piped) \cup ClosableEnds, Devnull) /\ devnull' = None
        BY <1>5 DEF ClosePipeFds1
  <2>2. /\ {handle[h] : h \in ClosableEnds} = Theirs
        /\ {handle[h] : h \in ParentEnds(Piped)} = Ours
        /\ \A h, k \in ClosableEnds \cup ParentEnds(Piped) : handle[h] = handle[k] => h = k
        BY <1>1, PipeEnds DEF StartInv
  <2>3. {handle[h] : h \in ParentEnds(Piped) \cup ClosableEnds} = Ours \cup Theirs
        BY <2>2
  <2>4. Ours \cup Theirs \subseteq PipeFds
        BY DEF Ours, Theirs, Piped, PipeFds
  <2>5. \A h \in ParentEnds(Piped) \cup ClosableEnds : handle[h] \in opened /\ handle[h] \notin Devnull
        BY <1>1, <2>3, <2>4 DEF PipeFds, Devnull
  <2>6. badCloses' = {} /\ opened' = opened \ ((Ours \cup Theirs) \cup Devnull)
        BY <1>1, <2>1, <2>2, <2>3, <2>5, ClosesOnce
  <2>7. opened' = CallerFds
        BY <1>1, <2>4, <2>6 DEF CallerFds, PipeFds, Devnull
  <2>. QED  BY <1>1, <1>2, <1>5, <2>1, <2>6, <2>7, GivesUp
<1>. QED  BY <1>3, <1>4, <1>5 DEF Fdopen

LEMMA PrepareStep == ASSUME StartInv, Prepare PROVE StartInv'
<1>1. /\ pc = "prepare" /\ pc' \in {"errpipe", "undo"}
      /\ prefixes' = IF shell THEN prefixes + 1 ELSE prefixes
      /\ UNCHANGED <<settings, fdVars, procVars, failed>>
      BY DEF Prepare
<1>2. Active /\ prefixes < attempts /\ prefixes \in Nat /\ attempts \in 0..MaxAttempts /\ ~closedChildPipeFds
      BY <1>1, AttemptsAssumption DEF StartInv, PhaseInv, TypeOK, BeforeFork
<1>3. prefixes' \in 0..MaxAttempts /\ prefixes' <= attempts
      BY <1>1, <1>2, AttemptsAssumption
<1>4. TypeOK'  BY <1>1, <1>3 DEF StartInv, TypeOK, settings, fdVars, procVars
<1>5. PhaseInv'
      BY <1>1, <1>2, <1>3 DEF StartInv, PhaseInv, settings, fdVars, Active, BeforeFork
<1>6. OwnInv'  BY <1>1 DEF StartInv, OwnInv, fdVars
<1>7. ProcInv'
      BY <1>1, <1>2 DEF StartInv, ProcInv, Active, settings, procVars, BeforeFork, NothingForked
<1>8. streams = Piped /\ badCloses = {}  BY <1>1, <1>2 DEF StartInv, OpenInv
<1>. QED  BY <1>1, <1>2, <1>4, <1>5, <1>6, <1>7, <1>8, ToTheFork DEF fdVars

\* What opens and closes only the error pipe and the pid pipe.
LEMMA ErrpipeStep ==
    ASSUME StartInv, pc \in {"errpipe", "lowFds", "fork"},
           pc' \in {"lowFds", "fork", "undo", "launcher"}, pc' = "launcher" => detached,
           opened' \subseteq opened \cup OwnFds, opened \ OwnFds \subseteq opened',
           OwnInv', badCloses' = {},
           UNCHANGED <<settings, prefixes, handle, toClose, devnull, streams,
                       closedChildPipeFds, procVars, failed>>
    PROVE  StartInv'
<1>1. Active /\ streams = Piped  BY DEF StartInv, PhaseInv, OpenInv
<1>2. TypeOK'
      BY DEF StartInv, TypeOK, settings, procVars, OwnFds, Fds
<1>3. PhaseInv'
      BY <1>1 DEF StartInv, PhaseInv, settings, Active, BeforeFork
<1>4. ProcInv'
      BY <1>1 DEF StartInv, ProcInv, Active, settings, procVars, BeforeFork, NothingForked
<1>. QED  BY <1>1, <1>2, <1>3, <1>4, ToTheFork

LEMMA MakeErrpipeStep == ASSUME StartInv, MakeErrpipe PROVE StartInv'
<1>1. pc = "errpipe" /\ opened \cap OwnFds = {} /\ badCloses = {}
      BY DEF MakeErrpipe, StartInv, OwnInv, OpenInv
<1>2. CASE opened' = opened \cup {"errpipeR", "errpipeW"} /\ pc' = "lowFds"
  <2>1. opened' \cap OwnFds = {"errpipeR", "errpipeW"}  BY <1>1, <1>2 DEF OwnFds
  <2>2. OwnInv'  BY <1>2, <2>1 DEF OwnInv
  <2>. QED  BY <1>1, <1>2, <2>2, ErrpipeStep DEF MakeErrpipe, OwnFds
<1>3. CASE UNCHANGED opened /\ pc' = "undo"
  <2>1. OwnInv'  BY <1>1, <1>3 DEF OwnInv
  <2>. QED  BY <1>1, <1>3, <2>1, ErrpipeStep DEF MakeErrpipe
<1>. QED  BY <1>2, <1>3 DEF MakeErrpipe

LEMMA MoveErrpipeStep == ASSUME StartInv, MoveErrpipe PROVE StartInv'
<1>1. pc = "lowFds" /\ opened \cap OwnFds = {"errpipeR", "errpipeW"} /\ badCloses = {}
      BY DEF MoveErrpipe, StartInv, OwnInv, OpenInv
<1>2. CASE UNCHANGED <<opened, badCloses>> /\ pc' = "fork"
  <2>1. OwnInv'  BY <1>1, <1>2 DEF OwnInv
  <2>. QED  BY <1>1, <1>2, <2>1, ErrpipeStep DEF MoveErrpipe
<1>3. CASE /\ opened' = (opened \ {"errpipeW"}) \cup {"errpipeDup"}
           /\ pc' = "fork" /\ UNCHANGED badCloses
  <2>1. opened' \cap OwnFds = {"errpipeR", "errpipeDup"}  BY <1>1, <1>3 DEF OwnFds
  <2>2. OwnInv'  BY <1>3, <2>1 DEF OwnInv
  <2>. QED  BY <1>1, <1>3, <2>2, ErrpipeStep DEF MoveErrpipe, OwnFds
<1>4. CASE Close({}, {"errpipeR", "errpipeW"}) /\ pc' = "undo"
  <2>1. {"errpipeR", "errpipeW"} \subseteq opened  BY <1>1
  <2>2. badCloses' = {} /\ opened' = opened \ {"errpipeR", "errpipeW"}
        BY <1>1, <1>4, <2>1, ClosesSet
  <2>3. opened' \cap OwnFds = {}  BY <1>1, <2>2
  <2>4. OwnInv'  BY <1>4, <2>3 DEF OwnInv
  <2>. QED  BY <1>1, <1>4, <2>2, <2>4, ErrpipeStep DEF MoveErrpipe, OwnFds
<1>. QED  BY <1>2, <1>3, <1>4 DEF MoveErrpipe

\* Either end of the error pipe the parent writes is open, and just one.
LEMMA OwnAtFork ==
    ASSUME StartInv, pc \in {"fork", "launcher", "forked"}
    PROVE  /\ {"errpipeR"} \cup ErrpipeWrite \subseteq opened
           /\ (opened \ ({"errpipeR"} \cup ErrpipeWrite)) \cap OwnFds
                  = IF pc = "launcher" THEN {"pidpipeR"} ELSE {}
BY DEF StartInv, OwnInv, ErrpipeWrite, OwnFds

LEMMA ForkFailsStep == ASSUME StartInv, ForkFails PROVE StartInv'
<1>1. pc = "fork" /\ pc' = "undo" /\ Close({}, {"errpipeR"} \cup ErrpipeWrite) /\ badCloses = {}
      BY DEF ForkFails, StartInv, OpenInv
<1>2. badCloses' = {} /\ opened' = opened \ ({"errpipeR"} \cup ErrpipeWrite)
      BY <1>1, OwnAtFork, ClosesSet
<1>3. opened' \cap OwnFds = {}  BY <1>1, <1>2, OwnAtFork
<1>4. OwnInv'  BY <1>1, <1>3 DEF OwnInv
<1>5. {"errpipeR"} \cup ErrpipeWrite \subseteq OwnFds  BY DEF ErrpipeWrite, OwnFds
<1>. QED  BY <1>1, <1>2, <1>4, <1>5, ErrpipeStep DEF ForkFails

LEMMA ForkLauncherStep == ASSUME StartInv, ForkLauncher PROVE StartInv'
<1>1. pc = "fork" /\ pc' = "launcher" /\ opened' = opened \cup {"pidpipeR"} /\ badCloses = {}
      BY DEF ForkLauncher, StartInv, OpenInv
<1>2. opened \cap OwnFds \in {{"errpipeR", "errpipeW"}, {"errpipeR", "errpipeDup"}}
      BY <1>1 DEF StartInv, OwnInv
<1>3. opened' \cap OwnFds = (opened \cap OwnFds) \cup {"pidpipeR"}  BY <1>1 DEF OwnFds
<1>4. (opened \cap OwnFds) \cup {"pidpipeR"} \in {{"errpipeR", "errpipeW", "pidpipeR"},
                                              {"errpipeR", "errpipeDup", "pidpipeR"}}
      BY <1>2
<1>5. OwnInv'  BY <1>1, <1>3, <1>4 DEF OwnInv
<1>. QED  BY <1>1, <1>5, ErrpipeStep DEF ForkLauncher, OwnFds

LEMMA ForkStep == ASSUME StartInv, Fork PROVE StartInv'
<1>1. /\ pc = "fork" /\ pc' = "forked" /\ ~detached /\ child' = "starting" /\ execArgs' = prefixes
      /\ childCreated' = TRUE /\ pid' = TRUE
      /\ UNCHANGED <<settings, prefixes, fdVars, detachedStarted, returncode, failed>>
      BY DEF Fork
<1>2. Active /\ ~detachedStarted /\ streams = Piped /\ badCloses = {}
      BY <1>1 DEF StartInv, PhaseInv, OpenInv, ProcInv, BeforeFork
<1>3. TypeOK'  BY <1>1 DEF StartInv, TypeOK, settings, fdVars
<1>4. PhaseInv'
      BY <1>1, <1>2 DEF StartInv, PhaseInv, settings, fdVars, Active, BeforeFork
<1>5. OwnInv'  BY <1>1 DEF StartInv, OwnInv, fdVars
<1>6. ProcInv'
      BY <1>1, <1>2 DEF ProcInv, Active, settings, BeforeFork
<1>. QED  BY <1>1, <1>2, <1>3, <1>4, <1>5, <1>6, ToTheFork DEF fdVars

LEMMA LaunchStep == ASSUME StartInv, Launch PROVE StartInv'
<1>1. /\ pc = "launcher" /\ pc' = "forked" /\ Close({}, {"pidpipeR"})
      /\ \/ /\ child' = "starting" /\ execArgs' = prefixes
            /\ detachedStarted' = ~SigchldIgnored /\ pid' = ~SigchldIgnored
         \/ child' \in {"launcherFailed", "none"} /\ UNCHANGED <<execArgs, detachedStarted, pid>>
      /\ UNCHANGED <<settings, prefixes, handle, toClose, devnull, streams, closedChildPipeFds,
                     childCreated, returncode, failed>>
      BY DEF Launch
<1>2. /\ Active /\ ~detachedStarted /\ ~childCreated /\ detached /\ streams = Piped /\ badCloses = {}
      BY <1>1 DEF StartInv, PhaseInv, OpenInv, ProcInv, BeforeFork
<1>3. opened \cap OwnFds \in {{"errpipeR", "errpipeW", "pidpipeR"},
                              {"errpipeR", "errpipeDup", "pidpipeR"}}
      BY <1>1 DEF StartInv, OwnInv
<1>4. badCloses' = {} /\ opened' = opened \ {"pidpipeR"}
      BY <1>1, <1>2, <1>3, ClosesSet
<1>5. TypeOK'
  <2>1. detachedStarted' \in BOOLEAN /\ pid' \in BOOLEAN
        BY <1>1, SettingsAssumption DEF StartInv, TypeOK
  <2>2. child' \in {"none", "starting", "running", "failed", "reaped", "launcherFailed"}
        /\ execArgs' \in 0..MaxAttempts
        BY <1>1 DEF StartInv, TypeOK
  <2>. QED  BY <1>1, <1>4, <2>1, <2>2 DEF StartInv, TypeOK, settings
<1>6. PhaseInv'
      BY <1>1, <1>2 DEF StartInv, PhaseInv, settings, Active, BeforeFork
<1>7. OwnInv'
  <2>1. opened' \cap OwnFds = (opened \cap OwnFds) \ {"pidpipeR"}  BY <1>4
  <2>2. opened' \cap OwnFds \in {{"errpipeR", "errpipeW"}, {"errpipeR", "errpipeDup"}}
        BY <1>3, <2>1
  <2>. QED  BY <1>1, <2>2 DEF OwnInv
<1>8. ProcInv'
      BY <1>1, <1>2 DEF ProcInv, Active, settings, BeforeFork
<1>. QED  BY <1>1, <1>2, <1>4, <1>5, <1>6, <1>7, <1>8, ToTheFork DEF OwnFds

\* Once the child's ends are closed the parent's ends are what is open.
LEMMA AfterFork ==
    ASSUME StartInv, Active, Active', pc \in {"forked", "readErrpipe", "reap"},
           pc' \in {"readErrpipe", "reap", "undo", "return"},
           TypeOK', ProcInv', OwnInv', badCloses' = {}, closedChildPipeFds', devnull' = None,
           opened' \ OwnFds = CallerFds \cup Ours,
           UNCHANGED <<settings, prefixes, handle, toClose, streams, failed>>
    PROVE  StartInv'
<1>. USE Streams
<1>1. /\ dev' = dev /\ Piped' = Piped /\ Ours' = Ours /\ attempts > 0
      /\ Taken' = Taken
      BY DEF Active, settings, Piped, Ours, Taken
<1>2. PhaseInv'
      BY <1>1 DEF StartInv, PhaseInv, settings, BeforeFork
<1>3. HandleInv'
      BY <1>1 DEF StartInv, HandleInv
<1>4. OpenInv'
      BY <1>1 DEF StartInv, OpenInv
<1>. QED  BY <1>2, <1>3, <1>4 DEF StartInv

LEMMA ForkedStep == ASSUME StartInv, Forked PROVE StartInv'
<1>. USE Streams
<1>1. /\ pc = "forked" /\ pc' = "readErrpipe" /\ Close(ClosableEnds, Devnull \cup ErrpipeWrite)
      /\ devnull' = None /\ closedChildPipeFds' = TRUE
      /\ UNCHANGED <<settings, prefixes, handle, toClose, streams, procVars, failed>>
      BY DEF Forked
<1>2. /\ Active /\ ~closedChildPipeFds /\ badCloses = {} /\ Taken = Standard /\ Active'
      /\ opened \cap OwnFds \in {{"errpipeR", "errpipeW"}, {"errpipeR", "errpipeDup"}}
      BY <1>1 DEF StartInv, PhaseInv, OpenInv, OwnInv, Taken, Active, settings
<1>3. toClose = Ours \cup Theirs /\ opened \ OwnFds = CallerFds \cup (Ours \cup Theirs) \cup Devnull
  <2>1. Piped \cap Taken = Piped  BY <1>2 DEF Piped
  <2>. QED  BY <1>2, <2>1 DEF StartInv, OpenInv, Ours, Theirs
<1>4. /\ {handle[h] : h \in ClosableEnds} = Theirs
      /\ \A h, k \in ClosableEnds : handle[h] = handle[k] => h = k
      BY <1>1, <1>2, PipeEnds DEF StartInv
<1>5. /\ Ours \subseteq PipeFds /\ Theirs \subseteq PipeFds /\ Ours \cap Theirs = {}
      /\ Devnull \subseteq {"devnull"}
      BY DEF Ours, Theirs, Piped, PipeFds, Devnull, StartInv, TypeOK
<1>6. ErrpipeWrite \subseteq OwnFds /\ Devnull \cup ErrpipeWrite \subseteq opened
      BY <1>3 DEF ErrpipeWrite, OwnFds
<1>7. \A h \in ClosableEnds : handle[h] \in opened /\ handle[h] \notin Devnull \cup ErrpipeWrite
  <2>1. \A h \in ClosableEnds : handle[h] \in Theirs  BY <1>4
  <2>2. Theirs \subseteq opened  BY <1>3
  <2>3. Theirs \cap (Devnull \cup ErrpipeWrite) = {}  BY <1>5, <1>6 DEF PipeFds, OwnFds
  <2>. QED  BY <2>1, <2>2, <2>3
<1>8. badCloses' = {} /\ opened' = opened \ (Theirs \cup (Devnull \cup ErrpipeWrite))
      BY <1>1, <1>2, <1>4, <1>6, <1>7, ClosesOnce
<1>9. opened' \ OwnFds = CallerFds \cup Ours
      BY <1>3, <1>5, <1>6, <1>8 DEF CallerFds, PipeFds, OwnFds
<1>10. opened' \cap OwnFds = {"errpipeR"}
  <2>1. opened' \cap OwnFds = (opened \cap OwnFds) \ {"errpipeW", "errpipeDup"}
        BY <1>5, <1>8 DEF OwnFds, PipeFds, ErrpipeWrite
  <2>. QED  BY <1>2, <2>1
<1>11. TypeOK'
      BY <1>1, <1>8 DEF StartInv, TypeOK, settings, procVars
<1>12. OwnInv'  BY <1>1, <1>10 DEF OwnInv
<1>13. ProcInv'
      BY <1>1, <1>2 DEF StartInv, ProcInv, settings, procVars, BeforeFork
<1>. QED  BY <1>1, <1>2, <1>8, <1>9, <1>11, <1>12, <1>13, AfterFork

LEMMA ReadErrpipeStep == ASSUME StartInv, ReadErrpipe PROVE StartInv'
<1>1. /\ pc = "readErrpipe" /\ Close({}, {"errpipeR"})
      /\ IF child = "starting" THEN child' \in {"running", "failed"} ELSE UNCHANGED child
      /\ LET said == child' \in {"failed", "launcherFailed"} IN
         \/ /\ said /\ childCreated
            /\ pc' = "reap" /\ UNCHANGED <<detachedStarted, pid>>
         \/ /\ said /\ ~childCreated
            /\ detachedStarted' = FALSE /\ pid' = FALSE /\ pc' = "undo"
         \/ /\ ~said /\ ~childCreated /\ ~detachedStarted
            /\ pc' = "undo" /\ UNCHANGED <<detachedStarted, pid>>
         \/ /\ ~said /\ (childCreated \/ detachedStarted)
            /\ pc' = "return" /\ UNCHANGED <<detachedStarted, pid>>
      /\ UNCHANGED <<settings, prefixes, handle, toClose, devnull, streams, closedChildPipeFds,
                     childCreated, returncode, execArgs, failed>>
      BY DEF ReadErrpipe
<1>2. Active /\ Active' /\ closedChildPipeFds
      BY <1>1 DEF StartInv, PhaseInv, Active, settings
<1>3. /\ badCloses = {} /\ devnull = None /\ opened \cap OwnFds = {"errpipeR"}
      /\ opened \ OwnFds = CallerFds \cup Ours
      BY <1>1, <1>2 DEF StartInv, OpenInv, OwnInv
<1>4. badCloses' = {} /\ opened' = opened \ {"errpipeR"}
      BY <1>1, <1>3, ClosesSet
<1>5. opened' \cap OwnFds = {} /\ opened' \ OwnFds = CallerFds \cup Ours
      BY <1>3, <1>4 DEF OwnFds
<1>6. TypeOK'
  <2>1. child' \in {"none", "starting", "running", "failed", "reaped", "launcherFailed"}
        BY <1>1 DEF StartInv, TypeOK
  <2>2. detachedStarted' \in BOOLEAN /\ pid' \in BOOLEAN
        BY <1>1 DEF StartInv, TypeOK
  <2>3. pc' \in {"reap", "undo", "return"}  BY <1>1
  <2>. QED  BY <1>1, <1>4, <2>1, <2>2, <2>3 DEF StartInv, TypeOK, settings
<1>7. OwnInv'  BY <1>1, <1>5 DEF OwnInv
<1>8. ProcInv'
  <2>1. /\ detached' = detached /\ childCreated' = childCreated /\ Active /\ Active'
        /\ pc' \in {"reap", "undo", "return"}
        BY <1>1, <1>2 DEF settings
  <2>2. CASE ~detached
    <3>1. childCreated /\ ~detachedStarted /\ pid /\ child' \in {"running", "failed"}
          BY <1>1, <2>2 DEF StartInv, ProcInv
    <3>2. \/ pc' = "reap" /\ child' = "failed" /\ ~detachedStarted'
          \/ pc' = "return" /\ child' = "running" /\ pid'
          BY <1>1, <3>1
    <3>. QED  BY <2>1, <2>2, <3>1, <3>2 DEF ProcInv, BeforeFork
  <2>3. CASE detached
    <3>1. ~childCreated  BY <1>1, <2>3 DEF StartInv, ProcInv
    <3>2. /\ child \in {"starting", "launcherFailed", "none"}
          /\ child = "starting" => detachedStarted \/ SigchldIgnored
          /\ child # "starting" => ~detachedStarted
          /\ detachedStarted => pid
          BY <1>1, <2>3 DEF StartInv, ProcInv
    <3>3. \/ pc' = "undo" /\ ~detachedStarted' /\ (child' = "running" => SigchldIgnored)
          \/ pc' = "return" /\ detachedStarted' /\ child' = "running" /\ pid'
          BY <1>1, <3>1, <3>2
    <3>4. child' # "starting"  BY <1>1
    <3>. QED  BY <2>1, <2>3, <3>1, <3>3, <3>4 DEF ProcInv, BeforeFork, NothingForked
  <2>. QED  BY <2>2, <2>3
<1>9. pc' \in {"reap", "undo", "return"}  BY <1>1
<1>. QED  BY <1>1, <1>2, <1>3, <1>4, <1>5, <1>6, <1>7, <1>8, <1>9, AfterFork

LEMMA ReapStep == ASSUME StartInv, Reap PROVE StartInv'
<1>1. /\ pc = "reap" /\ child' = "reaped" /\ returncode' = TRUE /\ childCreated' = FALSE /\ pid' = FALSE
      /\ pc' = "undo" /\ UNCHANGED <<settings, prefixes, fdVars, detachedStarted, execArgs, failed>>
      BY DEF Reap
<1>2. Active /\ Active' /\ closedChildPipeFds
      BY <1>1 DEF StartInv, PhaseInv, Active, settings
<1>3. /\ badCloses = {} /\ devnull = None /\ opened \cap OwnFds = {}
      /\ opened \ OwnFds = CallerFds \cup Ours
      BY <1>1, <1>2 DEF StartInv, OpenInv, OwnInv
<1>4. TypeOK'  BY <1>1 DEF StartInv, TypeOK, settings, fdVars
<1>5. OwnInv'  BY <1>1, <1>3 DEF OwnInv, fdVars
<1>6. ProcInv'
      BY <1>1, <1>2 DEF StartInv, ProcInv, settings, BeforeFork, NothingForked
<1>. QED  BY <1>1, <1>2, <1>3, <1>4, <1>5, <1>6, AfterFork DEF fdVars

LEMMA UndoStep == ASSUME StartInv, Undo PROVE StartInv'
<1>. USE Streams
<1>1. /\ pc = "undo" /\ streams' = {} /\ childCreated' = (childCreated /\ ~returncode)
      /\ failed' = TRUE /\ pc' = "return" /\ devnull \in {None, "devnull"}
      /\ UNCHANGED <<settings, prefixes, handle, toClose, closedChildPipeFds, detachedStarted,
                     pid, returncode, child, execArgs>>
      BY DEF Undo, StartInv, TypeOK
<1>2. /\ Active /\ ~Active' /\ badCloses = {} /\ Taken = Standard /\ streams = Piped
      /\ opened \cap OwnFds = {}
      BY <1>1 DEF StartInv, PhaseInv, OpenInv, OwnInv, Taken, Active
<1>3. /\ {handle[h] : h \in ClosableEnds} = Theirs
      /\ {handle[h] : h \in ParentEnds(Piped)} = Ours
      /\ \A h, k \in ClosableEnds \cup ParentEnds(Piped) : handle[h] = handle[k] => h = k
      BY <1>1, <1>2, PipeEnds DEF StartInv
<1>4. Ours \cup Theirs \subseteq PipeFds
      BY DEF Ours, Theirs, Piped, PipeFds
<1>5. badCloses' = {} /\ opened' = CallerFds /\ devnull' = None
  <2>1. CASE closedChildPipeFds
    <3>1. devnull = None /\ opened = CallerFds \cup Ours
          BY <1>2, <2>1 DEF StartInv, OpenInv
    <3>2. Close(ParentEnds(Piped), {}) /\ devnull' = devnull
          BY <1>2, <2>1 DEF Undo
    <3>3. badCloses' = {} /\ opened' = opened \ (Ours \cup {})
          BY <1>2, <1>3, <3>1, <3>2, ClosesOnce
    <3>. QED  BY <1>4, <3>1, <3>2, <3>3 DEF CallerFds, PipeFds
  <2>2. CASE ~closedChildPipeFds
    <3>1. opened = CallerFds \cup (Ours \cup Theirs) \cup Devnull
      <4>1. Piped \cap Taken = Piped  BY <1>2 DEF Piped
      <4>. QED  BY <1>2, <2>2, <4>1 DEF StartInv, OpenInv, Ours, Theirs
    <3>2. Close(ParentEnds(Piped) \cup ClosableEnds, Devnull) /\ devnull' = None
          BY <1>2, <2>2 DEF Undo, ClosePipeFds1
    <3>3. {handle[h] : h \in ParentEnds(Piped) \cup ClosableEnds} = Ours \cup Theirs
          BY <1>3
    <3>4. Devnull \subseteq {"devnull"}  BY <1>1 DEF Devnull
    <3>5. \A h \in ParentEnds(Piped) \cup ClosableEnds : handle[h] \in opened /\ handle[h] \notin Devnull
          BY <1>4, <3>1, <3>3, <3>4 DEF PipeFds
    <3>6. badCloses' = {} /\ opened' = opened \ ((Ours \cup Theirs) \cup Devnull)
          BY <1>2, <1>3, <3>1, <3>2, <3>3, <3>5, ClosesOnce
    <3>. QED  BY <1>4, <3>1, <3>2, <3>4, <3>6 DEF CallerFds, PipeFds
  <2>. QED  BY <2>1, <2>2
<1>6. TypeOK'
  <2>1. opened' \subseteq Fds /\ childCreated' \in BOOLEAN  BY <1>1, <1>5 DEF Fds
  <2>. QED  BY <1>1, <1>5, <2>1 DEF StartInv, TypeOK, settings
<1>7. PhaseInv'
      BY <1>1, <1>2 DEF StartInv, PhaseInv, settings, Active
<1>8. HandleInv'  BY <1>2 DEF HandleInv
<1>9. OpenInv'  BY <1>1, <1>2, <1>5 DEF OpenInv
<1>10. OwnInv'  BY <1>1, <1>5 DEF OwnInv, OwnFds, CallerFds
<1>11. ProcInv'
      BY <1>1, <1>2 DEF StartInv, ProcInv, NothingForked, settings, BeforeFork
<1>. QED  BY <1>6, <1>7, <1>8, <1>9, <1>10, <1>11 DEF StartInv

LEMMA StartReturnsStep == ASSUME StartInv, StartReturns PROVE StartInv'
<1>. USE Streams
<1>1. pc = "return" /\ pc' = "idle" /\ UNCHANGED <<childCreated, detachedStarted, child, execArgs, failed>>
      BY DEF StartReturns
<1>2. attempts > 0  BY <1>1, AttemptsAssumption DEF StartInv, PhaseInv, TypeOK
<1>3. CASE failed
  <2>1. /\ pid' = FALSE /\ returncode' = FALSE /\ dev' = [s \in Standard |-> None] /\ shell' = FALSE
        /\ handle' = [h \in Handles |-> None] /\ toClose' = {}
        /\ UNCHANGED <<detached, noArgs, attempts, prefixes, devnull, streams, opened, badCloses,
                       closedChildPipeFds>>
        BY <1>3 DEF StartReturns, Forget
  <2>2. ~Active /\ ~Active'  BY <1>1, <1>3 DEF Active
  <2>3. TypeOK'
    <3>1. dev' \in [Standard -> Devices] /\ handle' \in [Handles -> Fds \cup {None}]
          BY <2>1 DEF Devices
    <3>. QED  BY <1>1, <2>1, <3>1, ZenonT(60) DEF StartInv, TypeOK
  <2>4. PhaseInv'  BY <1>1, <2>1, <2>2 DEF StartInv, PhaseInv
  <2>5. HandleInv'  BY <2>2 DEF HandleInv
  <2>6. OpenInv'  BY <2>1, <2>2 DEF StartInv, OpenInv
  <2>7. OwnInv'  BY <1>1, <2>1 DEF StartInv, OwnInv
  <2>8. ProcInv'  BY <1>1, <2>1, <2>2 DEF StartInv, ProcInv, NothingForked
  <2>. QED  BY <2>3, <2>4, <2>5, <2>6, <2>7, <2>8 DEF StartInv
<1>4. CASE ~failed
  <2>1. UNCHANGED <<pid, returncode, settings, prefixes, fdVars>>
        BY <1>4 DEF StartReturns
  <2>2. Active /\ Active' /\ dev' = dev /\ Piped' = Piped /\ Ours' = Ours /\ Taken' = Taken
        BY <1>1, <1>2, <1>4, <2>1 DEF Active, settings, Piped, Ours, Taken
  <2>3. TypeOK'  BY <1>1, <2>1 DEF StartInv, TypeOK, settings, fdVars
  <2>4. PhaseInv'  BY <1>1, <2>1, <2>2 DEF StartInv, PhaseInv, settings, fdVars, BeforeFork
  <2>5. HandleInv'  BY <2>1, <2>2 DEF StartInv, HandleInv, fdVars
  <2>6. OpenInv'  BY <1>1, <2>1, <2>2 DEF StartInv, PhaseInv, OpenInv, fdVars
  <2>7. OwnInv'  BY <1>1, <2>1 DEF StartInv, OwnInv, fdVars
  <2>8. ProcInv'  BY <1>1, <2>1, <2>2 DEF StartInv, ProcInv, BeforeFork, settings
  <2>. QED  BY <2>3, <2>4, <2>5, <2>6, <2>7, <2>8 DEF StartInv
<1>. QED  BY <1>3, <1>4

LEMMA StartInvStep == StartInv /\ [Next]_vars => StartInv'
<1>. SUFFICES ASSUME StartInv, [Next]_vars PROVE StartInv'
     OBVIOUS
<1>. USE Streams
<1>1. CASE UNCHANGED vars
  <2>1. UNCHANGED <<Active, Taken, Piped, Ours, Devnull, ErrpipeWrite>>
        BY <1>1 DEF vars, settings, fdVars, procVars, Active, Taken, Piped, Ours, Devnull, ErrpipeWrite
  <2>2. TypeOK' /\ PhaseInv'
        BY <1>1, <2>1 DEF StartInv, TypeOK, PhaseInv, vars, settings, fdVars, procVars
  <2>3. HandleInv' /\ OpenInv'
        BY <1>1, <2>1 DEF StartInv, HandleInv, OpenInv, vars, settings, fdVars
  <2>4. OwnInv' /\ ProcInv'
        BY <1>1, <2>1 DEF StartInv, OwnInv, ProcInv, NothingForked, vars, settings, fdVars, procVars
  <2>. QED  BY <2>2, <2>3, <2>4 DEF StartInv
<1>2. CASE OpenStandard("stdin", "p2cread", "inR", "inW", "stdout")
      BY <1>2, OpenStandardStep
<1>3. CASE OpenStandard("stdout", "c2pwrite", "outR", "outW", "stderr")
      BY <1>3, OpenStandardStep
<1>4. CASE OpenStandard("stderr", "errwrite", "errR", "errW", "fdopen")
      BY <1>4, OpenStandardStep
<1>. QED
  BY <1>1, <1>2, <1>3, <1>4, StartStep, FdopenStep, PrepareStep, MakeErrpipeStep, MoveErrpipeStep,
     ForkFailsStep, ForkStep, ForkLauncherStep, LaunchStep, ForkedStep, ReadErrpipeStep, ReapStep,
     UndoStep, StartReturnsStep DEF Next

-----------------------------------------------------------------------------
(* The results. *)

LEMMA StartInvariant == Spec => []StartInv
<1>. QED  BY StartInit, StartInvStep, PTL DEF Spec

\* The variables of start() keep their types through every attempt.
THEOREM TypeCorrect == Spec => []TypeOK
<1>1. StartInv => TypeOK  BY DEF StartInv
<1>. QED  BY <1>1, StartInvariant, PTL

\* done(), _get_handles(), _execute_child(): an attempt that failed, at whichever call, has left
\* open what was open before; one that succeeded, that and the parent's ends of the pipes asked
\* for.  No descriptor is closed twice, and none of the caller's.
THEOREM HandlesBalanceHolds == Spec => []HandlesBalance
<1>1. StartInv => ClosedOnce
      BY DEF StartInv, OpenInv, ClosedOnce, OwnFds, CallerFds
<1>2. StartInv => NothingLeaks
  <2>. SUFFICES ASSUME StartInv, pc = "idle", attempts > 0 PROVE
           IF failed THEN opened = CallerFds /\ streams = {}
           ELSE /\ streams = {s \in Standard : dev[s] = "PIPE"}
                /\ opened = CallerFds \cup {handle[h] : h \in ParentEnds(streams)}
       BY DEF NothingLeaks, Returned
  <2>1. CASE failed  BY <2>1 DEF StartInv, OpenInv, Active
  <2>2. CASE ~failed
    <3>1. Active /\ closedChildPipeFds  BY <2>2 DEF StartInv, PhaseInv, Active
    <3>2. streams = Piped /\ opened = CallerFds \cup Ours
          BY <3>1 DEF StartInv, OpenInv, OwnInv
    <3>3. {handle[h] : h \in ParentEnds(Piped)} = Ours
          BY <3>1, PipeEnds DEF StartInv
    <3>. QED  BY <2>2, <3>2, <3>3 DEF Piped
  <2>. QED  BY <2>1, <2>2
<1>3. StartInv => HandlesBalance  BY <1>1, <1>2 DEF HandlesBalance
<1>. QED  BY <1>3, StartInvariant, PTL

\* _execute_child(): whichever streams share a descriptor, what the child is to use is open when
\* it is forked.
THEOREM ChildFindsItsEndsHolds == Spec => []ChildFindsItsEnds
<1>. USE Streams
<1>1. StartInv => ChildFindsItsEnds
  <2>. SUFFICES ASSUME StartInv, pc \in {"fork", "launcher"},
                       NEW h \in {"p2cread", "c2pwrite", "errwrite"}, handle[h] # None
                PROVE  handle[h] \in opened
       BY DEF ChildFindsItsEnds
  <2>1. Active /\ ~closedChildPipeFds /\ Taken = Standard
        BY DEF StartInv, PhaseInv, Taken, BeforeFork
  <2>2. toClose = Ours \cup Theirs /\ CallerFds \cup toClose \cup Devnull \subseteq opened
    <3>1. Piped \cap Taken = Piped  BY <2>1 DEF Piped
    <3>. QED  BY <2>1, <3>1 DEF StartInv, OpenInv, Ours, Theirs
  <2>3. \A s \in Standard : dev[s] = "DEVNULL" => "devnull" \in Devnull
    <3>1. (\E s \in Standard : dev[s] = "DEVNULL") => devnull # None /\ devnull \in {None, "devnull"}
          BY <2>1 DEF StartInv, OpenInv, TypeOK
    <3>. QED  BY <3>1 DEF Devnull
  <2>4. PICK s \in Standard : h = ChildEnd[s]  OBVIOUS
  <2>5. \A u \in Standard :
           \/ handle[ChildEnd[u]] \in {None, "user"}
           \/ dev[u] = "PIPE" /\ handle[ChildEnd[u]] = TheirFd[u]
           \/ dev[u] = "DEVNULL" /\ handle[ChildEnd[u]] = "devnull"
           \/ /\ dev[u] = "STDOUT" /\ u = "stderr"
              /\ handle[ChildEnd[u]] \in {handle["c2pwrite"], "stdout"}
        BY <2>1 DEF StartInv, HandleInv
  <2>6. \A u \in Standard : dev[u] # "STDOUT" =>
            handle[ChildEnd[u]] \in opened \cup {None}
        BY <2>2, <2>3, <2>5 DEF Theirs, Piped, CallerFds
  <2>7. dev.stdout # "STDOUT"  BY <2>1 DEF StartInv, PhaseInv, Unsupported
  <2>. QED  BY <2>2, <2>4, <2>5, <2>6, <2>7 DEF CallerFds
<1>. QED  BY <1>1, StartInvariant, PTL

\* start() returning false means that nothing runs and the object is as before, so that it can be
\* started again, and returning true that the program runs and the object knows it; unless SIGCHLD is ignored, when a launcher that did its work cannot be told
\* from one that did not.
THEOREM StartAnswersTrulyHolds ==
    ASSUME ~SigchldIgnored
    PROVE  Spec => []StartAnswersTruly
<1>1. StartInv => StartAnswersTruly
      BY DEF StartInv, ProcInv, NothingForked, Active, StartAnswersTruly, Returned
<1>. QED  BY <1>1, StartInvariant, PTL
-----------------------------------------------------------------------------
(* The port to Windows: the parts of its invariant. *)

WinOpening == {"stdin", "stdout", "stderr"}
WinStarting == WinOpening \cup {"wrap", "execute", "undo"}
WinTalking == {"waiting", "join", "rethrow"}
WinTaken == [stdin |-> {}, stdout |-> {"stdin"}, stderr |-> {"stdin", "stdout"}]

\* Of the streams S: this process's ends, the duplicates, and what those were made of.
WinOurs(S) == {Win!OursOf(s) : s \in S \cap Win!Piped}
WinDups(S) == {Win!Duplicate[s] : s \in S}
WinTheirs(S) == {Win!TheirsOf(s) : s \in {u \in S : winDev[u] = "PIPE" \/ (winDev[u] = "None" /\ ~usable)}}

\* Exactly what is open, and what the guards of _get_handles() would close.
WinHandlesInv ==
    /\ winBadCloses = {}
    /\ winPc \in WinOpening =>
           LET taken == WinTaken[winPc] IN
           /\ errClose = WinOurs(taken) \cup WinDups(taken)
           /\ dupClose = WinTheirs(taken)
           /\ winOpened = Win!CallerHandles \cup errClose \cup dupClose \cup Win!Devnull
           /\ winStreams = {}
           /\ childEnd = [s \in Win!Standard |-> IF s \in taken THEN Win!Duplicate[s] ELSE Win!None]
    /\ winPc \notin WinOpening => errClose = {} /\ dupClose = {}
    /\ winPc \in {"wrap", "execute", "undo"} =>
           /\ \/ childEnd = [s \in Win!Standard |-> Win!None]
              \/ childEnd = [s \in Win!Standard |-> Win!Duplicate[s]]
           /\ winStreams = IF winPc = "wrap" THEN {} ELSE Win!Piped
           /\ winOpened = Win!CallerHandles \cup WinOurs(Win!Standard)
                              \cup (IF winClosedChildPipeFds THEN {} ELSE Win!ChildEnds \cup Win!Devnull)
    /\ winPc \in WinStarting /\ winClosedChildPipeFds => winPc = "undo" /\ winDevnull = Win!None
    /\ winPc \notin WinStarting =>
           /\ winDevnull = Win!None
           /\ winStreams \subseteq Win!Piped
           /\ winOpened = Win!CallerHandles \cup Win!OurEnds(winStreams)

\* What the object says of its child.
WinLifeInv ==
    /\ (process <=> created /\ winReturncode = Win!None)
    /\ winReturncode # Win!None => created /\ winChild = "ended" /\ winReturncode = status
    /\ (winChild = "ended" <=> status # Win!None)
    /\ (winChild = Win!None <=> ~created /\ ~winDetachedStarted)
    /\ winChild # Win!None => ~winFailed /\ winPc \notin WinStarting
    /\ winPc \in {"workers"} \cup WinTalking => created
    /\ winPc = "destroyed" /\ created => winChild = "ended"
    /\ winPc = "join" => winReturncode # Win!None
    /\ winPc \in WinStarting \ {"undo"} => ~winFailed
    /\ winPc \in {"idle", "destroyed"} /\ ~created => winStreams = {}
    /\ winDetached /\ ~winFailed => Win!Piped = {}

\* What a reader has got, is in the pipe, or was never written; when it is done nobody writes.
WinTalkInv ==
    /\ \A s \in Win!Outputs : got[s] + buffered[s] = written[s]
    /\ \A s \in Win!Standard : worker[s] = "running" => s \in winStreams
    /\ winPc \notin WinTalking => \A s \in Win!Standard : worker[s] = Win!None
    /\ winPc \in {"waiting", "join"} => \A s \in winStreams : worker[s] # Win!None
    /\ winPc = "rethrow" => threw # {}
    /\ \A s \in Win!Outputs :
           worker[s] = "done" /\ s \notin threw => buffered[s] = 0 /\ ~Win!Served(s)
    /\ created /\ threw = {} /\ winPc # "destroyed" =>
           \A s \in (Win!Outputs \cap Win!Piped) \ winStreams :
               buffered[s] = 0 /\ ~Win!Served(s)

WinInv == Win!TypeOK /\ WinHandlesInv /\ WinLifeInv /\ WinTalkInv

-----------------------------------------------------------------------------
(* Handles are names: what is named differently is closed apart. *)

OurNames == {"inW", "outR", "errR"}
TheirNames == {"inR", "outW", "errW"}
DupNames == {"inDup", "outDup", "errDup"}

LEMMA WinNames ==
    /\ Win!Standard = {"stdin", "stdout", "stderr"} /\ Win!None = "none"
    /\ Win!OursOf("stdin") = "inW" /\ Win!OursOf("stdout") = "outR" /\ Win!OursOf("stderr") = "errR"
    /\ Win!TheirsOf("stdin") = "inR" /\ Win!TheirsOf("stdout") = "outW"
    /\ Win!TheirsOf("stderr") = "errW"
    /\ Win!Duplicate = [stdin |-> "inDup", stdout |-> "outDup", stderr |-> "errDup"]
    /\ Win!CallerHandles = {"fd", "std", "other"}
    /\ Win!Names = Win!CallerHandles \cup {"NUL"} \cup OurNames \cup TheirNames \cup DupNames
BY DEF Win!Standard, Win!None, Win!OursOf, Win!TheirsOf, Win!Duplicate, Win!ReadEnd, Win!WriteEnd,
       Win!CallerHandles, Win!Names, OurNames, TheirNames, DupNames

LEMMA WinKinds_ ==
    ASSUME NEW S
    PROVE  /\ WinOurs(S) \subseteq OurNames
           /\ S \subseteq Win!Standard => Win!OurEnds(S) \subseteq OurNames
           /\ S \subseteq Win!Standard => WinTheirs(S) \subseteq TheirNames
           /\ S \subseteq Win!Standard => WinDups(S) \subseteq DupNames
BY WinNames DEF WinOurs, WinTheirs, WinDups, Win!Piped, Win!OurEnds, OurNames, TheirNames, DupNames

\* What one more stream adds.
LEMMA WinOneMore ==
    ASSUME NEW D \in SUBSET Win!Standard, NEW s \in Win!Standard
    PROVE  /\ WinOurs(D \cup {s}) = WinOurs(D) \cup Win!OpensOurs(s)
           /\ WinDups(D \cup {s}) = WinDups(D) \cup {Win!Duplicate[s]}
           /\ WinTheirs(D \cup {s}) = WinTheirs(D) \cup (Win!OpensTheirs(s) \ {"NUL"})
<1>1. WinOurs(D \cup {s}) = WinOurs(D) \cup Win!OpensOurs(s)
      BY DEF WinOurs, Win!Piped, Win!OpensOurs
<1>2. WinDups(D \cup {s}) = WinDups(D) \cup {Win!Duplicate[s]}
      BY DEF WinDups
<1>3. WinTheirs(D \cup {s}) = WinTheirs(D) \cup (Win!OpensTheirs(s) \ {"NUL"})
  <2>1. Win!TheirsOf(s) # "NUL"  BY WinNames
  <2>2. CASE winDev[s] = "PIPE" \/ (winDev[s] = "None" /\ ~usable)
        BY <2>1, <2>2 DEF WinTheirs, Win!OpensTheirs
  <2>3. CASE ~(winDev[s] = "PIPE" \/ (winDev[s] = "None" /\ ~usable))
        BY <2>3 DEF WinTheirs, Win!OpensTheirs
  <2>. QED  BY <2>2, <2>3
<1>. QED  BY <1>1, <1>2, <1>3

LEMMA WinNothingTaken == WinOurs({}) = {} /\ WinDups({}) = {} /\ WinTheirs({}) = {}
BY DEF WinOurs, WinDups, WinTheirs

\* The standard handle of a stream, and the device all of them share.
LEMMA WinOpened ==
    ASSUME NEW s \in Win!Standard, winDevnull \in {Win!None, "NUL"}
    PROVE  /\ Win!OpensOurs(s) \subseteq OurNames /\ Win!OpensTheirs(s) \subseteq TheirNames \cup {"NUL"}
           /\ Win!Devnull = {} \/ Win!Devnull = {"NUL"}
           /\ Win!Duplicate[s] \in DupNames
BY WinNames DEF Win!OpensOurs, Win!OpensTheirs, Win!Devnull, OurNames, TheirNames, DupNames

LEMMA WinInit == Win!Init => WinInv
<1>. SUFFICES ASSUME Win!Init PROVE WinInv  OBVIOUS
<1>1. Win!TypeOK
  <2>1. /\ winDev \in [Win!Standard -> Kinds] /\ winAttempts \in 0..MaxAttempts
        /\ input \in 0..MaxInput /\ buffered \in [Win!Standard -> 0..PipeSize]
        /\ written \in [Win!Outputs -> 0..MaxOutput] /\ got \in [Win!Outputs -> 0..MaxOutput]
        BY AttemptsAssumption, PortsAssumption DEF Win!Init
  <2>2. Win!CallerHandles \subseteq Win!Names
        BY DEF Win!Names
  <2>3. worker \in [Win!Standard -> {Win!None, "running", "done"}]
        BY DEF Win!Init
  <2>4. childEnd \in [Win!Standard -> Win!Names \cup {Win!None}]
        BY DEF Win!Init
  <2>. QED  BY <2>1, <2>2, <2>3, <2>4 DEF Win!Init, Win!TypeOK
<1>2. WinHandlesInv
      BY DEF Win!Init, WinHandlesInv, WinOpening, WinStarting, Win!OurEnds
<1>3. WinLifeInv
      BY DEF Win!Init, WinLifeInv, WinStarting, WinOpening, WinTalking, Win!None
<1>4. WinTalkInv
      BY WinNames DEF Win!Init, WinTalkInv, WinTalking, Win!Outputs
<1>. QED  BY <1>1, <1>2, <1>3, <1>4 DEF WinInv

LEMMA WinStartStep == ASSUME WinInv, Win!Start PROVE WinInv'
<1>1. /\ winPc = "idle" /\ ~created /\ ~winDetachedStarted /\ winStreams = {} /\ winChild = Win!None
      /\ winReturncode = Win!None /\ errClose = {} /\ dupClose = {} /\ winDevnull = Win!None
      /\ winOpened = Win!CallerHandles /\ winBadCloses = {} /\ status = Win!None
  <2>1. winPc = "idle" /\ ~created /\ ~winDetachedStarted
        BY DEF Win!Start
  <2>2. /\ winStreams = {} /\ winChild = Win!None /\ winReturncode = Win!None
        BY <2>1 DEF WinInv, WinLifeInv
  <2>3. status = Win!None
        BY <2>2 DEF WinInv, WinLifeInv, Win!None
  <2>4. /\ errClose = {} /\ dupClose = {} /\ winBadCloses = {} /\ winDevnull = Win!None
        /\ winOpened = Win!CallerHandles \cup Win!OurEnds(winStreams)
        BY <2>1 DEF WinInv, WinHandlesInv, WinOpening, WinStarting
  <2>. QED  BY <2>1, <2>2, <2>3, <2>4 DEF Win!OurEnds
<1>2. /\ winPc' \in {"idle", "wrap", "stdin"} /\ winFailed' = (winPc' = "idle")
      /\ childEnd' = [s \in Win!Standard |-> Win!None] /\ winClosedChildPipeFds' = FALSE
      /\ winPc' = "wrap" => \A s \in Win!Standard : winDev'[s] = "None"
      /\ winDetached' /\ ~winFailed' => \A s \in Win!Standard : winDev'[s] # "PIPE"
      /\ winReturncode' = Win!None
      /\ UNCHANGED <<errClose, dupClose, winDevnull, winStreams, winOpened, winBadCloses, created,
                     winDetachedStarted, process, winChild, status, inherited, heirs, worker, threw,
                     deadline, input, buffered, written, got, eof>>
      BY <1>1 DEF Win!Start, Win!childVars, Win!talkVars
<1>3. Win!TypeOK'
  <2>1. /\ winAttempts' \in 0..MaxAttempts /\ winDev' \in [Win!Standard -> Kinds]
        /\ winDetached' \in BOOLEAN /\ usable' \in BOOLEAN
        /\ closeFdsAsked' \in BOOLEAN /\ closeFds' \in BOOLEAN
    <3>1. winAttempts \in 0..MaxAttempts /\ closeFdsAsked \in BOOLEAN /\ closeFds \in BOOLEAN
          BY DEF WinInv, Win!TypeOK
    <3>2. /\ winAttempts < MaxAttempts /\ winAttempts' = winAttempts + 1
          /\ winDev' \in [Win!Standard -> Kinds] /\ winDetached' \in BOOLEAN /\ usable' \in BOOLEAN
          BY DEF Win!Start
    <3>3. \/ closeFdsAsked' \in CloseFds /\ closeFds' = closeFdsAsked'
          \/ UNCHANGED <<closeFdsAsked, closeFds>>
          BY DEF Win!Start
    <3>. QED  BY <3>1, <3>2, <3>3, AttemptsAssumption, PortsAssumption
  <2>. QED  BY <1>2, <2>1, WinNames, ZenonT(60) DEF WinInv, Win!TypeOK
<1>4. WinHandlesInv'
  <2>1. CASE winPc' = "stdin"
    <3>1. /\ WinOurs({})' = {} /\ WinDups({})' = {} /\ WinTheirs({})' = {}
          /\ (Win!Devnull)' = {} /\ WinTaken[winPc'] = {}
          BY <1>1, <1>2, <2>1 DEF WinOurs, WinDups, WinTheirs, Win!Devnull, WinTaken
    <3>. QED  BY <1>1, <1>2, <2>1, <3>1 DEF WinHandlesInv, WinOpening, WinStarting
  <2>2. CASE winPc' = "wrap"
    <3>1. WinOurs(Win!Standard)' = {} /\ (Win!ChildEnds)' = {} /\ (Win!Devnull)' = {}
          BY <1>1, <1>2, <2>2 DEF WinOurs, Win!Piped, Win!ChildEnds, Win!Devnull
    <3>. QED  BY <1>1, <1>2, <2>2, <3>1 DEF WinHandlesInv, WinOpening, WinStarting
  <2>3. CASE winPc' = "idle"
        BY <1>1, <1>2, <2>3 DEF WinHandlesInv, WinOpening, WinStarting, Win!OurEnds
  <2>. QED  BY <1>2, <2>1, <2>2, <2>3
<1>5. WinLifeInv'
      BY <1>1, <1>2 DEF WinInv, WinLifeInv, WinStarting, WinOpening, WinTalking, Win!Piped
<1>6. WinTalkInv'
      BY <1>1, <1>2 DEF WinInv, WinTalkInv, WinTalking, Win!Served
<1>. QED  BY <1>3, <1>4, <1>5, <1>6 DEF WinInv

LEMMA WinSame ==
    ASSUME NEW CONSTANT S, UNCHANGED <<winDev, usable>>
    PROVE  /\ WinOurs(S)' = WinOurs(S) /\ WinTheirs(S)' = WinTheirs(S) /\ WinDups(S)' = WinDups(S)
           /\ (Win!Piped)' = Win!Piped
BY DEF WinOurs, WinTheirs, WinDups, Win!Piped

\* In the middle of _get_handles().
LEMMA WinAtStream ==
    ASSUME WinInv, NEW CONSTANT s \in WinOpening, winPc = s
    PROVE  /\ winBadCloses = {} /\ winStreams = {} /\ winClosedChildPipeFds = FALSE
           /\ errClose = WinOurs(WinTaken[s]) \cup WinDups(WinTaken[s])
           /\ dupClose = WinTheirs(WinTaken[s])
           /\ winOpened = Win!CallerHandles \cup errClose \cup dupClose \cup Win!Devnull
           /\ childEnd = [t \in Win!Standard |-> IF t \in WinTaken[s] THEN Win!Duplicate[t] ELSE Win!None]
           /\ ~winFailed /\ winChild = Win!None /\ ~created /\ ~winDetachedStarted
           /\ winDevnull \in {Win!None, "NUL"}
           /\ WinTaken[s] \in SUBSET Win!Standard
           /\ errClose \subseteq OurNames \cup DupNames /\ dupClose \subseteq TheirNames
<1>1. /\ winBadCloses = {} /\ winStreams = {} /\ winClosedChildPipeFds = FALSE
      /\ errClose = WinOurs(WinTaken[s]) \cup WinDups(WinTaken[s])
      /\ dupClose = WinTheirs(WinTaken[s])
      /\ winOpened = Win!CallerHandles \cup errClose \cup dupClose \cup Win!Devnull
      /\ childEnd = [t \in Win!Standard |-> IF t \in WinTaken[s] THEN Win!Duplicate[t] ELSE Win!None]
  <2>1. winPc \in WinOpening /\ winPc \in WinStarting /\ winPc # "undo"
        BY DEF WinOpening, WinStarting
  <2>2. winClosedChildPipeFds \in BOOLEAN  BY DEF WinInv, Win!TypeOK
  <2>. QED  BY <2>1, <2>2 DEF WinInv, WinHandlesInv
<1>2. ~winFailed /\ winChild = Win!None /\ ~created /\ ~winDetachedStarted
  <2>1. winPc \in WinStarting /\ winPc # "undo"
        BY DEF WinOpening, WinStarting
  <2>. QED  BY <2>1 DEF WinInv, WinLifeInv
<1>3. winDevnull \in {Win!None, "NUL"}  BY DEF WinInv, Win!TypeOK
<1>4. WinTaken[s] \in SUBSET Win!Standard
      BY WinNames DEF WinTaken, WinOpening
<1>5. errClose \subseteq OurNames \cup DupNames /\ dupClose \subseteq TheirNames
      BY <1>1, <1>4, WinKinds_
<1>. QED  BY <1>1, <1>2, <1>3, <1>4, <1>5

LEMMA WinOpenStandardStep ==
    ASSUME WinInv, NEW CONSTANT s \in Win!Standard, Win!OpenStandard(s) PROVE WinInv'
<1>. DEFINE next == WinTaken[s] \cup {s}
            theirs == Win!OpensTheirs(s) \ {"NUL"}
            nul == Win!Devnull \cup (Win!OpensTheirs(s) \cap {"NUL"})
<1>1. s \in WinOpening /\ winPc = s
      BY WinNames DEF Win!OpenStandard, WinOpening
<1>2. /\ winPc' = Win!Next3[s] /\ childEnd' = [childEnd EXCEPT ![s] = Win!Duplicate[s]]
      /\ winDevnull' = IF winDev[s] = "DEVNULL" THEN "NUL" ELSE winDevnull
      /\ UNCHANGED <<winDev, usable, winDetached, winAttempts, closeFdsAsked, closeFds, winFailed,
                     winStreams, winClosedChildPipeFds, created, winDetachedStarted, process,
                     winReturncode, winChild, status, inherited, heirs, worker, threw, deadline, input,
                     buffered, written, got, eof>>
      BY DEF Win!OpenStandard, Win!settings, Win!objectVars, Win!childVars, Win!talkVars
<1>3. /\ winBadCloses = {} /\ winStreams = {} /\ winClosedChildPipeFds = FALSE
      /\ errClose = WinOurs(WinTaken[s]) \cup WinDups(WinTaken[s])
      /\ dupClose = WinTheirs(WinTaken[s])
      /\ winOpened = Win!CallerHandles \cup errClose \cup dupClose \cup Win!Devnull
      /\ childEnd = [t \in Win!Standard |-> IF t \in WinTaken[s] THEN Win!Duplicate[t] ELSE Win!None]
      /\ ~winFailed /\ winChild = Win!None /\ ~created /\ ~winDetachedStarted
      /\ winDevnull \in {Win!None, "NUL"} /\ WinTaken[s] \in SUBSET Win!Standard
      /\ errClose \subseteq OurNames \cup DupNames /\ dupClose \subseteq TheirNames
      BY <1>1, WinAtStream
<1>4. /\ WinOurs(next) = WinOurs(WinTaken[s]) \cup Win!OpensOurs(s)
      /\ WinDups(next) = WinDups(WinTaken[s]) \cup {Win!Duplicate[s]}
      /\ WinTheirs(next) = dupClose \cup theirs
      BY <1>3, WinOneMore
<1>5. (Win!Devnull)' = nul
  <2>1. Win!TheirsOf(s) # "NUL" /\ Win!None # "NUL"  BY WinNames
  <2>2. CASE winDev[s] = "DEVNULL"
        BY <1>2, <1>3, <2>1, <2>2 DEF Win!Devnull, Win!OpensTheirs
  <2>3. CASE winDev[s] # "DEVNULL"
        BY <1>2, <1>3, <2>1, <2>3 DEF Win!Devnull, Win!OpensTheirs
  <2>. QED  BY <2>2, <2>3
<1>6. /\ Win!OpensOurs(s) \subseteq OurNames /\ Win!OpensTheirs(s) \subseteq TheirNames \cup {"NUL"}
      /\ nul \subseteq {"NUL"} /\ Win!Duplicate[s] \in DupNames
      BY <1>3, WinOpened
<1>7. WinOurs(next)' = WinOurs(next) /\ WinDups(next)' = WinDups(next) /\ WinTheirs(next)' = WinTheirs(next)
      /\ (Win!Piped)' = Win!Piped
      BY <1>2, WinSame
<1>8. childEnd' = [t \in Win!Standard |-> IF t \in next THEN Win!Duplicate[t] ELSE Win!None]
      BY <1>2, <1>3
<1>9. /\ Win!Names = Win!CallerHandles \cup {"NUL"} \cup OurNames \cup TheirNames \cup DupNames
      /\ \A n \in TheirNames : n \notin OurNames \cup DupNames \cup {"NUL"} \cup Win!CallerHandles
      BY WinNames DEF OurNames, TheirNames, DupNames
<1>10. CASE s # "stderr"
  <2>1. /\ errClose' = WinOurs(next) \cup WinDups(next) /\ dupClose' = WinTheirs(next)
        /\ winBadCloses' = {}
        /\ winOpened' = Win!CallerHandles \cup errClose' \cup dupClose' \cup (Win!Devnull)'
    <3>1. /\ errClose' = errClose \cup Win!OpensOurs(s) \cup {Win!Duplicate[s]}
          /\ dupClose' = dupClose \cup theirs /\ winBadCloses' = winBadCloses
          /\ winOpened' = winOpened \cup Win!OpensOurs(s) \cup Win!OpensTheirs(s) \cup {Win!Duplicate[s]}
          BY <1>10 DEF Win!OpenStandard
    <3>2. errClose' = WinOurs(next) \cup WinDups(next)  BY <1>3, <1>4, <3>1
    <3>3. dupClose' = WinTheirs(next)  BY <1>4, <3>1
    <3>4. Win!OpensTheirs(s) = theirs \cup (Win!OpensTheirs(s) \cap {"NUL"})  OBVIOUS
    <3>5. winOpened' = Win!CallerHandles \cup errClose' \cup dupClose' \cup nul
          BY <1>3, <3>1, <3>4
    <3>. QED  BY <1>3, <1>5, <3>1, <3>2, <3>3, <3>5
  <2>2. winPc' \in WinOpening /\ WinTaken[winPc'] = next
        BY <1>2, <1>10, WinNames DEF Win!Next3, WinTaken, WinOpening
  <2>3. WinHandlesInv'
    <3>1. winPc' \notin {"wrap", "execute", "undo"} /\ winPc' \in WinStarting
          BY <2>2 DEF WinOpening, WinStarting
    <3>. QED  BY <1>2, <1>3, <1>7, <1>8, <2>1, <2>2, <3>1 DEF WinHandlesInv
  <2>4. Win!TypeOK'
    <3>1. childEnd' \in [Win!Standard -> Win!Names \cup {Win!None}]
          BY <1>2, <1>6, <1>9 DEF WinInv, Win!TypeOK
    <3>2. /\ errClose' \subseteq Win!Names /\ dupClose' \subseteq Win!Names
          /\ winOpened' \subseteq Win!Names
          BY <1>3, <1>4, <1>5, <1>6, <1>9, <2>1, SMTT(30)
    <3>3. winDevnull' \in {Win!None, "NUL"}  BY <1>2, <1>3
    <3>4. winBadCloses' \subseteq Win!Names /\ winPc' \in {"stdin", "stdout", "stderr"}
          BY <2>1, <2>2 DEF WinOpening
    <3>. QED  BY <1>2, <3>1, <3>2, <3>3, <3>4 DEF WinInv, Win!TypeOK
  <2>5. WinLifeInv' /\ WinTalkInv'
    <3>1. winPc' \in WinOpening  BY <2>2
    <3>2. winPc \in WinOpening  BY <1>1
    <3>. QED  BY <1>2, <1>3, <1>7, <3>1, <3>2
            DEF WinInv, WinLifeInv, WinTalkInv, WinOpening, WinStarting, WinTalking, Win!Served
  <2>. QED  BY <2>3, <2>4, <2>5 DEF WinInv
<1>11. CASE s = "stderr"
  <2>1. next = Win!Standard
        BY <1>11, WinNames DEF WinTaken
  <2>2. /\ errClose' = {} /\ dupClose' = {} /\ winBadCloses' = {}
        /\ winOpened' = Win!CallerHandles \cup WinOurs(next) \cup WinDups(next) \cup (Win!Devnull)'
    <3>1. /\ errClose' = {} /\ dupClose' = {}
          /\ winBadCloses' = winBadCloses \cup
                 ((dupClose \cup theirs) \ (winOpened \cup Win!OpensOurs(s) \cup Win!OpensTheirs(s) \cup {Win!Duplicate[s]}))
          /\ winOpened' = (winOpened \cup Win!OpensOurs(s) \cup Win!OpensTheirs(s) \cup {Win!Duplicate[s]})
                              \ (dupClose \cup theirs)
          BY <1>11 DEF Win!OpenStandard
    <3>2. winBadCloses' = {}  BY <1>3, <3>1
    <3>3. /\ WinOurs(next) \subseteq OurNames /\ WinDups(next) \subseteq DupNames
          /\ (Win!Devnull)' \subseteq {"NUL"} /\ dupClose \cup theirs \subseteq TheirNames
          BY <1>3, <1>5, <1>6, <2>1, WinKinds_
    <3>4. Win!OpensTheirs(s) = theirs \cup (Win!OpensTheirs(s) \cap {"NUL"})  OBVIOUS
    <3>5. winOpened \cup Win!OpensOurs(s) \cup Win!OpensTheirs(s) \cup {Win!Duplicate[s]}
              = Win!CallerHandles \cup WinOurs(next) \cup WinDups(next) \cup (Win!Devnull)'
                    \cup (dupClose \cup theirs)
          BY <1>3, <1>4, <1>5, <3>4
    <3>. QED  BY <1>9, <3>1, <3>2, <3>3, <3>5
  <2>3. winPc' = "wrap"  BY <1>2, <1>11 DEF Win!Next3
  <2>4. childEnd' = [t \in Win!Standard |-> Win!Duplicate[t]]
        BY <1>8, <2>1
  <2>5. (Win!ChildEnds)' = WinDups(next)
    <3>1. \A t \in Win!Standard : Win!Duplicate[t] # Win!None  BY WinNames
    <3>. QED  BY <2>1, <2>4, <3>1 DEF Win!ChildEnds, WinDups
  <2>6. WinHandlesInv'
        BY <1>2, <1>3, <1>7, <2>1, <2>2, <2>3, <2>4, <2>5 DEF WinHandlesInv, WinOpening, WinStarting
  <2>7. Win!TypeOK'
    <3>1. childEnd' \in [Win!Standard -> Win!Names \cup {Win!None}]
          BY <1>2, <1>6, <1>9 DEF WinInv, Win!TypeOK
    <3>2. winOpened' \subseteq Win!Names
          BY <1>5, <1>6, <1>9, <2>1, <2>2, WinKinds_
    <3>3. winDevnull' \in {Win!None, "NUL"}  BY <1>2, <1>3
    <3>4. /\ errClose' \subseteq Win!Names /\ dupClose' \subseteq Win!Names
          /\ winBadCloses' \subseteq Win!Names
          BY <2>2
    <3>. QED  BY <1>2, <2>3, <3>1, <3>2, <3>3, <3>4 DEF WinInv, Win!TypeOK
  <2>8. WinLifeInv' /\ WinTalkInv'
    <3>2. winPc \in WinOpening  BY <1>1
    <3>. QED  BY <1>2, <1>3, <1>7, <2>3, <3>2
            DEF WinInv, WinLifeInv, WinTalkInv, WinOpening, WinStarting, WinTalking, Win!Served
  <2>. QED  BY <2>6, <2>7, <2>8 DEF WinInv
<1>. QED  BY <1>10, <1>11

\* Whatever the stream has opened by then, the two guards close it and what is before it.
LEMMA WinRollsBack ==
    ASSUME WinInv, NEW CONSTANT s \in WinOpening, winPc = s,
           NEW ours, NEW theirs, ours \subseteq OurNames, theirs \subseteq TheirNames \cup {"NUL"},
           Win!RollBack(ours, theirs)
    PROVE  /\ winOpened' = Win!CallerHandles /\ winBadCloses' = {} /\ winDevnull' = Win!None
           /\ winFailed' = TRUE /\ winPc' = "idle" /\ errClose' = {} /\ dupClose' = {}
<1>. DEFINE nul == Win!Devnull \cup (theirs \cap {"NUL"})
            dups == dupClose \cup (theirs \ nul)
            errs == errClose \cup ours
<1>1. /\ winBadCloses = {}
      /\ winOpened = Win!CallerHandles \cup errClose \cup dupClose \cup Win!Devnull
      /\ winDevnull \in {Win!None, "NUL"}
      /\ errClose \subseteq OurNames \cup DupNames /\ dupClose \subseteq TheirNames
      BY WinAtStream
<1>2. /\ winOpened' = winOpened \ (dups \cup errs \cup nul)
      /\ winBadCloses' = winBadCloses \cup (dups \cap errs)
                             \cup ((dups \cup errs \cup nul) \ (winOpened \cup ours \cup theirs))
      /\ winDevnull' = Win!None /\ winFailed' = TRUE /\ winPc' = "idle" /\ errClose' = {} /\ dupClose' = {}
      BY DEF Win!RollBack
<1>3. nul \subseteq {"NUL"} /\ dups \subseteq TheirNames /\ errs \subseteq OurNames \cup DupNames
      /\ Win!Devnull \subseteq nul
  <2>1. Win!Devnull \subseteq {"NUL"}  BY <1>1 DEF Win!Devnull
  <2>2. theirs \ nul \subseteq TheirNames  OBVIOUS
  <2>. QED  BY <1>1, <2>1, <2>2
<1>4. \A n \in Win!CallerHandles : n \notin OurNames \cup TheirNames \cup DupNames \cup {"NUL"}
      BY WinNames DEF OurNames, TheirNames, DupNames
<1>5. \A n \in TheirNames : n \notin OurNames \cup DupNames
      BY DEF OurNames, TheirNames, DupNames
<1>6. winOpened' = Win!CallerHandles
  <2>1. winOpened \subseteq Win!CallerHandles \cup dups \cup errs \cup nul
        BY <1>1, <1>3
  <2>2. Win!CallerHandles \subseteq winOpened  BY <1>1
  <2>3. Win!CallerHandles \cap (dups \cup errs \cup nul) = {}  BY <1>3, <1>4
  <2>. QED  BY <1>2, <2>1, <2>2, <2>3
<1>7. winBadCloses' = {}
  <2>1. dups \cap errs = {}  BY <1>3, <1>5
  <2>2. dups \cup errs \cup nul \subseteq winOpened \cup ours \cup theirs
        BY <1>1
  <2>. QED  BY <1>1, <1>2, <2>1, <2>2
<1>. QED  BY <1>2, <1>6, <1>7

LEMMA WinOpenFailsStep ==
    ASSUME WinInv, NEW CONSTANT s \in Win!Standard, Win!OpenFails(s) PROVE WinInv'
<1>1. s \in WinOpening /\ winPc = s
      BY WinNames DEF Win!OpenFails, WinOpening
<1>2. /\ winDevnull \in {Win!None, "NUL"}
      /\ winStreams = {} /\ winChild = Win!None /\ ~created /\ ~winDetachedStarted
      /\ winClosedChildPipeFds = FALSE
      BY <1>1, WinAtStream
<1>3. /\ UNCHANGED <<winDev, usable, winDetached, winAttempts, closeFdsAsked, closeFds, childEnd,
                     winStreams, winClosedChildPipeFds, created, winDetachedStarted, process,
                     winReturncode, winChild, status, inherited, heirs, worker, threw, deadline, input,
                     buffered, written, got, eof>>
      /\ Win!RollBack({}, {}) \/ Win!RollBack(Win!OpensOurs(s), Win!OpensTheirs(s))
      BY DEF Win!OpenFails, Win!settings, Win!objectVars, Win!childVars, Win!talkVars
<1>4. /\ winOpened' = Win!CallerHandles /\ winBadCloses' = {} /\ winDevnull' = Win!None
      /\ winFailed' = TRUE /\ winPc' = "idle" /\ errClose' = {} /\ dupClose' = {}
  <2>1. Win!OpensOurs(s) \subseteq OurNames /\ Win!OpensTheirs(s) \subseteq TheirNames \cup {"NUL"}
        BY <1>2, WinOpened
  <2>2. CASE Win!RollBack({}, {})  BY <1>1, <2>2, WinRollsBack
  <2>3. CASE Win!RollBack(Win!OpensOurs(s), Win!OpensTheirs(s))  BY <1>1, <2>1, <2>3, WinRollsBack
  <2>. QED  BY <1>3, <2>2, <2>3
<1>5. Win!TypeOK'
  <2>1. Win!CallerHandles \subseteq Win!Names  BY DEF Win!Names
  <2>. QED  BY <1>3, <1>4, <2>1 DEF WinInv, Win!TypeOK
<1>6. WinHandlesInv'
      BY <1>2, <1>3, <1>4 DEF WinHandlesInv, WinOpening, WinStarting, Win!OurEnds
<1>7. WinLifeInv' /\ WinTalkInv'
  <2>1. winPc \in WinOpening  BY <1>1
  <2>. QED  BY <1>2, <1>3, <1>4, <2>1
       DEF WinInv, WinLifeInv, WinTalkInv, WinOpening, WinStarting, WinTalking, Win!Served
<1>. QED  BY <1>5, <1>6, <1>7 DEF WinInv

\* Between _get_handles() and the child.
LEMMA WinAtWrap ==
    ASSUME WinInv, winPc \in {"wrap", "execute", "undo"}
    PROVE  /\ winBadCloses = {} /\ errClose = {} /\ dupClose = {}
           /\ winStreams = (IF winPc = "wrap" THEN {} ELSE Win!Piped)
           /\ winOpened = Win!CallerHandles \cup Win!OurEnds(Win!Piped)
                              \cup (IF winClosedChildPipeFds THEN {} ELSE Win!ChildEnds \cup Win!Devnull)
           /\ winClosedChildPipeFds => winPc = "undo" /\ winDevnull = Win!None
           /\ winChild = Win!None /\ ~created /\ ~winDetachedStarted /\ winReturncode = Win!None
           /\ status = Win!None
           /\ winPc # "undo" => ~winFailed
           /\ Win!OurEnds(Win!Piped) \subseteq OurNames
           /\ Win!ChildEnds \subseteq DupNames /\ Win!Devnull \subseteq {"NUL"}
           /\ \A n \in OurNames \cup Win!CallerHandles : n \notin DupNames \cup {"NUL"}
           /\ \A n \in Win!CallerHandles : n \notin OurNames
           /\ Win!Names = Win!CallerHandles \cup {"NUL"} \cup OurNames \cup TheirNames \cup DupNames
           /\ winDevnull \in {Win!None, "NUL"} /\ winClosedChildPipeFds \in BOOLEAN
           /\ Win!OurEnds(Win!Piped) = WinOurs(Win!Standard)
<1>1. winPc \notin WinOpening /\ winPc \in WinStarting
      BY DEF WinOpening, WinStarting
<1>2. /\ winBadCloses = {} /\ errClose = {} /\ dupClose = {}
      /\ winStreams = (IF winPc = "wrap" THEN {} ELSE Win!Piped)
      /\ winOpened = Win!CallerHandles \cup WinOurs(Win!Standard)
                         \cup (IF winClosedChildPipeFds THEN {} ELSE Win!ChildEnds \cup Win!Devnull)
      /\ winClosedChildPipeFds => winPc = "undo" /\ winDevnull = Win!None
      BY <1>1 DEF WinInv, WinHandlesInv
<1>3. /\ winChild = Win!None /\ ~created /\ ~winDetachedStarted /\ winReturncode = Win!None
      /\ winPc # "undo" => ~winFailed
      BY <1>1 DEF WinInv, WinLifeInv
<1>4. status = Win!None
      BY <1>3 DEF WinInv, WinLifeInv, Win!None
<1>5. winDevnull \in {Win!None, "NUL"} /\ winClosedChildPipeFds \in BOOLEAN
      BY DEF WinInv, Win!TypeOK
<1>6. Win!OurEnds(Win!Piped) = WinOurs(Win!Standard)
      BY DEF Win!OurEnds, WinOurs, Win!Piped
<1>7. Win!ChildEnds \subseteq DupNames /\ Win!Devnull \subseteq {"NUL"}
  <2>1. \A s \in Win!Standard : Win!Duplicate[s] \in DupNames  BY WinNames DEF DupNames
  <2>2. \/ childEnd = [s \in Win!Standard |-> Win!None]
        \/ childEnd = [s \in Win!Standard |-> Win!Duplicate[s]]
        BY DEF WinInv, WinHandlesInv
  <2>3. Win!ChildEnds \subseteq DupNames  BY <2>1, <2>2 DEF Win!ChildEnds
  <2>. QED  BY <1>5, <2>3 DEF Win!Devnull
<1>8. Win!OurEnds(Win!Piped) \subseteq OurNames
      BY WinKinds_ DEF Win!Piped
<1>9. /\ \A n \in OurNames \cup Win!CallerHandles : n \notin DupNames \cup {"NUL"}
      /\ \A n \in Win!CallerHandles : n \notin OurNames
      /\ Win!Names = Win!CallerHandles \cup {"NUL"} \cup OurNames \cup TheirNames \cup DupNames
      BY WinNames DEF OurNames, DupNames
<1>. QED  BY <1>2, <1>3, <1>4, <1>5, <1>6, <1>7, <1>8, <1>9

LEMMA WinWrapStep == ASSUME WinInv, Win!Wrap PROVE WinInv'
<1>1. /\ winPc = "wrap"
      /\ UNCHANGED <<winDev, usable, winDetached, winAttempts, closeFdsAsked, closeFds, childEnd,
                     errClose, dupClose, winClosedChildPipeFds, created, winDetachedStarted, process,
                     winReturncode, winChild, status, inherited, heirs, worker, threw, deadline, input,
                     buffered, written, got, eof>>
      BY DEF Win!Wrap, Win!settings, Win!objectVars, Win!childVars, Win!talkVars
<1>2. /\ winBadCloses = {} /\ errClose = {} /\ dupClose = {} /\ winStreams = {}
      /\ winOpened = Win!CallerHandles \cup Win!OurEnds(Win!Piped) \cup Win!ChildEnds \cup Win!Devnull
      /\ ~winClosedChildPipeFds
      /\ winChild = Win!None /\ ~created /\ ~winDetachedStarted /\ winReturncode = Win!None
      /\ ~winFailed
      /\ Win!OurEnds(Win!Piped) \subseteq OurNames
      /\ Win!ChildEnds \subseteq DupNames /\ Win!Devnull \subseteq {"NUL"}
      /\ \A n \in OurNames \cup Win!CallerHandles : n \notin DupNames \cup {"NUL"}
      /\ \A n \in Win!CallerHandles : n \notin OurNames
      /\ Win!Names = Win!CallerHandles \cup {"NUL"} \cup OurNames \cup TheirNames \cup DupNames
      /\ winDevnull \in {Win!None, "NUL"}
      BY <1>1, WinAtWrap
<1>3. (Win!Piped)' = Win!Piped /\ WinOurs(Win!Standard)' = WinOurs(Win!Standard)
      BY <1>1, WinSame
<1>4. CASE winStreams' = Win!Piped /\ winPc' = "execute"
           /\ UNCHANGED <<winDevnull, winOpened, winBadCloses, winFailed>>
  <2>1. Win!TypeOK'
    <3>1. Win!Piped \subseteq Win!Standard  BY DEF Win!Piped
    <3>. QED  BY <1>1, <1>4, <3>1 DEF WinInv, Win!TypeOK
  <2>2. WinHandlesInv'
    <3>1. (Win!ChildEnds)' = Win!ChildEnds /\ (Win!Devnull)' = Win!Devnull
          BY <1>1, <1>4 DEF Win!ChildEnds, Win!Devnull
    <3>. QED  BY <1>1, <1>2, <1>3, <1>4, <3>1 DEF WinInv, WinHandlesInv, WinOpening, WinStarting
  <2>3. WinLifeInv'
        BY <1>1, <1>2, <1>3, <1>4 DEF WinInv, WinLifeInv, WinOpening, WinStarting, WinTalking
  <2>4. WinTalkInv'
        BY <1>1, <1>2, <1>4 DEF WinInv, WinTalkInv, WinTalking, Win!Served
  <2>. QED  BY <2>1, <2>2, <2>3, <2>4 DEF WinInv
<1>5. CASE /\ Win!Close(Win!OurEnds(Win!Piped) \cup Win!ChildEnds \cup Win!Devnull)
           /\ winDevnull' = Win!None /\ winFailed' = TRUE /\ winPc' = "idle" /\ UNCHANGED winStreams
  <2>1. winOpened' = Win!CallerHandles /\ winBadCloses' = {}
        BY <1>2, <1>5 DEF Win!Close
  <2>2. Win!TypeOK'
    <3>1. Win!CallerHandles \subseteq Win!Names  BY DEF Win!Names
    <3>. QED  BY <1>1, <1>5, <2>1, <3>1 DEF WinInv, Win!TypeOK
  <2>3. WinHandlesInv'
        BY <1>1, <1>2, <1>5, <2>1 DEF WinHandlesInv, WinOpening, WinStarting, Win!OurEnds
  <2>4. WinLifeInv'
        BY <1>1, <1>2, <1>5 DEF WinInv, WinLifeInv, WinOpening, WinStarting, WinTalking
  <2>5. WinTalkInv'
        BY <1>1, <1>2, <1>5 DEF WinInv, WinTalkInv, WinTalking, Win!Served
  <2>. QED  BY <2>2, <2>3, <2>4, <2>5 DEF WinInv
<1>. QED  BY <1>4, <1>5 DEF Win!Wrap

LEMMA WinExecuteStep == ASSUME WinInv, Win!ExecuteChild PROVE WinInv'
<1>1. /\ winPc = "execute" /\ closeFds' = (closeFds /\ ~Win!Listed)
      /\ winFailed' = (winPc' = "undo")
      /\ UNCHANGED <<winDev, usable, winDetached, winAttempts, closeFdsAsked, childEnd,
                     errClose, dupClose, winStreams, winReturncode, worker, threw, deadline, input,
                     buffered, written, got, eof>>
      BY DEF Win!ExecuteChild, Win!settings, Win!talkVars
<1>2. /\ winBadCloses = {} /\ errClose = {} /\ dupClose = {} /\ winStreams = Win!Piped
      /\ winOpened = Win!CallerHandles \cup Win!OurEnds(Win!Piped) \cup Win!ChildEnds \cup Win!Devnull
      /\ winClosedChildPipeFds = FALSE
      /\ winChild = Win!None /\ ~created /\ ~winDetachedStarted /\ winReturncode = Win!None
      /\ status = Win!None
      /\ ~winFailed
      /\ Win!OurEnds(Win!Piped) \subseteq OurNames
      /\ Win!ChildEnds \subseteq DupNames /\ Win!Devnull \subseteq {"NUL"}
      /\ \A n \in OurNames \cup Win!CallerHandles : n \notin DupNames \cup {"NUL"}
      /\ \A n \in Win!CallerHandles : n \notin OurNames
      /\ Win!Names = Win!CallerHandles \cup {"NUL"} \cup OurNames \cup TheirNames \cup DupNames
      /\ winDevnull \in {Win!None, "NUL"}
      /\ Win!OurEnds(Win!Piped) = WinOurs(Win!Standard)
      BY <1>1, WinAtWrap
<1>3. /\ (Win!Piped)' = Win!Piped /\ WinOurs(Win!Standard)' = WinOurs(Win!Standard)
      /\ (Win!ChildEnds)' = Win!ChildEnds
      BY <1>1, WinSame DEF Win!ChildEnds
<1>4. closeFds' \in BOOLEAN /\ winFailed' \in BOOLEAN
      BY <1>1
<1>5. Win!ClosePipeFds =>
          /\ winOpened' = Win!CallerHandles \cup Win!OurEnds(Win!Piped) /\ winBadCloses' = {}
          /\ winDevnull' = Win!None /\ winClosedChildPipeFds' = TRUE
  <2>. SUFFICES ASSUME Win!ClosePipeFds
                PROVE  winOpened' = Win!CallerHandles \cup Win!OurEnds(Win!Piped) /\ winBadCloses' = {}
       BY DEF Win!ClosePipeFds
  <2>1. /\ winOpened' = winOpened \ (Win!ChildEnds \cup Win!Devnull)
        /\ winBadCloses' = winBadCloses \cup ((Win!ChildEnds \cup Win!Devnull) \ winOpened)
        BY DEF Win!ClosePipeFds, Win!Close
  <2>. QED  BY <1>2, <2>1
<1>6. WinTalkInv' \/ winPc' \notin {"idle", "undo"}
  <2>1. UNCHANGED <<threw, got, buffered, written, worker, winStreams>>  BY <1>1
  <2>2. \A s \in Win!Outputs \cap Win!Piped : s \in winStreams  BY <1>2
  <2>3. \A s \in Win!Outputs : s \in Win!Standard  BY WinNames DEF Win!Outputs
  <2>4. \A s \in Win!Standard : worker[s] = "none"
        BY <1>1 DEF WinInv, WinTalkInv, WinTalking, Win!None
  <2>. QED  BY <1>1, <1>2, <1>3, <2>1, <2>2, <2>3, <2>4 DEF WinInv, WinTalkInv, WinTalking, Win!None
<1>7. CASE /\ winPc' = "undo"
           /\ UNCHANGED <<created, winDetachedStarted, process, winChild, status, inherited, heirs>>
           /\ \/ UNCHANGED <<winDevnull, winClosedChildPipeFds, winOpened, winBadCloses>>
              \/ Win!ClosePipeFds
  <2>1. /\ winBadCloses' = {}
        /\ winOpened' = Win!CallerHandles \cup Win!OurEnds(Win!Piped)
               \cup (IF winClosedChildPipeFds' THEN {} ELSE Win!ChildEnds \cup (Win!Devnull)')
        /\ winClosedChildPipeFds' => winDevnull' = Win!None
        /\ winDevnull' \in {Win!None, "NUL"} /\ winClosedChildPipeFds' \in BOOLEAN
    <3>1. CASE UNCHANGED <<winDevnull, winClosedChildPipeFds, winOpened, winBadCloses>>
      <4>1. (Win!Devnull)' = Win!Devnull  BY <3>1 DEF Win!Devnull
      <4>. QED  BY <1>2, <3>1, <4>1
    <3>2. CASE Win!ClosePipeFds  BY <1>5, <3>2
    <3>. QED  BY <1>7, <3>1, <3>2
  <2>2. Win!TypeOK'
    <3>1. winOpened' \subseteq Win!Names
          BY <1>2, <2>1 DEF Win!Devnull
    <3>. QED  BY <1>1, <1>4, <1>7, <2>1, <3>1 DEF WinInv, Win!TypeOK
  <2>3. WinHandlesInv'
        BY <1>1, <1>2, <1>3, <1>7, <2>1 DEF WinInv, WinHandlesInv, WinOpening, WinStarting
  <2>4. WinLifeInv'
    <3>1. winFailed'  BY <1>1, <1>7
    <3>. QED  BY <1>1, <1>2, <1>7, <3>1 DEF WinInv, WinLifeInv, WinOpening, WinStarting, WinTalking
  <2>. QED  BY <1>6, <1>7, <2>2, <2>3, <2>4 DEF WinInv
<1>8. CASE /\ Win!ClosePipeFds
           /\ winChild' = "running" /\ inherited' = Win!HandedDown /\ UNCHANGED <<status, heirs>>
           /\ created' = ~winDetached /\ process' = ~winDetached /\ winDetachedStarted' = winDetached
           /\ winPc' = "idle"
  <2>1. winFailed' = FALSE  BY <1>1, <1>8
  <2>2. winDetached \in BOOLEAN  BY DEF WinInv, Win!TypeOK
  <2>3. Win!TypeOK'
    <3>1. winOpened' \subseteq Win!Names /\ winOpened \subseteq Win!Names
          BY <1>2, <1>5, <1>8
    <3>2. inherited' \subseteq Win!Names
      <4>1. "other" \in Win!Names  BY <1>2, WinNames
      <4>2. Win!HandedDown \subseteq Win!ChildEnds \cup winOpened \cup {"other"}
        <5>1. CASE Win!Listed  BY <5>1 DEF Win!HandedDown
        <5>2. CASE ~Win!Listed /\ closeFds  BY <5>2 DEF Win!HandedDown
        <5>3. CASE ~Win!Listed /\ ~closeFds
              BY <5>3 DEF Win!HandedDown
        <5>. QED  BY <5>1, <5>2, <5>3
      <4>. QED  BY <1>2, <1>8, <3>1, <4>1, <4>2
    <3>3. created' \in BOOLEAN /\ process' \in BOOLEAN /\ winDetachedStarted' \in BOOLEAN
          BY <1>8, <2>2
    <3>4. winDevnull' \in {Win!None, "NUL"} /\ winClosedChildPipeFds' \in BOOLEAN /\ winBadCloses' = {}
          BY <1>5, <1>8
    <3>. QED  BY <1>1, <1>4, <1>8, <3>1, <3>2, <3>3, <3>4 DEF WinInv, Win!TypeOK
  <2>4. WinHandlesInv'
    <3>1. (Win!OurEnds(winStreams))' = Win!OurEnds(Win!Piped)
          BY <1>1, <1>2 DEF Win!OurEnds
    <3>. QED  BY <1>1, <1>2, <1>3, <1>5, <1>8, <3>1 DEF WinHandlesInv, WinOpening, WinStarting
  <2>5. WinLifeInv'
    <3>1. winDetached => Win!Piped = {}  BY <1>2 DEF WinInv, WinLifeInv
    <3>2. winChild' # Win!None /\ winReturncode' = Win!None /\ winChild' # "ended"
          BY <1>1, <1>2, <1>8 DEF Win!None
    <3>3. winStreams' = Win!Piped /\ status' = Win!None /\ winPc' = "idle"
          BY <1>1, <1>2, <1>8
    <3>. QED  BY <1>1, <1>3, <1>8, <2>1, <2>2, <3>1, <3>2, <3>3
         DEF WinLifeInv, WinOpening, WinStarting, WinTalking
  <2>. QED  BY <1>6, <1>8, <2>3, <2>4, <2>5 DEF WinInv
<1>. QED  BY <1>7, <1>8 DEF Win!ExecuteChild, Win!childVars

LEMMA WinUndoStep == ASSUME WinInv, Win!Undo PROVE WinInv'
<1>. DEFINE closed == Win!OurEnds(winStreams)
                          \cup (IF winClosedChildPipeFds THEN {} ELSE Win!ChildEnds \cup Win!Devnull)
<1>1. /\ winPc = "undo" /\ winDevnull' = Win!None /\ winStreams' = {} /\ winPc' = "idle"
      /\ winOpened' = winOpened \ closed /\ winBadCloses' = winBadCloses \cup (closed \ winOpened)
      /\ UNCHANGED <<winDev, usable, winDetached, winAttempts, closeFdsAsked, closeFds, winFailed,
                     childEnd, errClose, dupClose, winClosedChildPipeFds, created,
                     winDetachedStarted, process, winReturncode, winChild, status, inherited, heirs, worker,
                     threw, deadline, input, buffered, written, got, eof>>
      BY DEF Win!Undo, Win!Close, Win!settings, Win!objectVars, Win!childVars, Win!talkVars
<1>2. /\ winBadCloses = {} /\ errClose = {} /\ dupClose = {} /\ winStreams = Win!Piped
      /\ winOpened = Win!CallerHandles \cup closed
      /\ winChild = Win!None /\ ~created /\ ~winDetachedStarted /\ winReturncode = Win!None
      /\ closed \subseteq OurNames \cup DupNames \cup {"NUL"}
      /\ \A n \in Win!CallerHandles : n \notin OurNames \cup DupNames \cup {"NUL"}
      BY <1>1, WinAtWrap
<1>3. winOpened' = Win!CallerHandles /\ winBadCloses' = {}
      BY <1>1, <1>2
<1>4. Win!TypeOK'
  <2>1. Win!CallerHandles \subseteq Win!Names  BY DEF Win!Names
  <2>. QED  BY <1>1, <1>3, <2>1 DEF WinInv, Win!TypeOK
<1>5. WinHandlesInv'
      BY <1>1, <1>2, <1>3 DEF WinHandlesInv, WinOpening, WinStarting, Win!OurEnds
<1>6. WinLifeInv'
  <2>1. (Win!Piped)' = Win!Piped  BY <1>1, WinSame
  <2>. QED  BY <1>1, <1>2, <2>1 DEF WinInv, WinLifeInv, WinOpening, WinStarting, WinTalking
<1>7. WinTalkInv'
      BY <1>1, <1>2 DEF WinInv, WinTalkInv, WinTalking, Win!None, Win!Served
<1>. QED  BY <1>4, <1>5, <1>6, <1>7 DEF WinInv

\* Once a start is over only this process's ends of the streams are open, and what is closed is
\* a stream that was.
LEMMA WinStreamsClose ==
    ASSUME WinInv, winPc \notin WinStarting, winPc' \notin WinStarting,
           NEW S \in SUBSET winStreams, Win!Close(Win!OurEnds(S)), winStreams' = winStreams \ S,
           UNCHANGED <<winDev, usable, errClose, dupClose, winDevnull>>
    PROVE  WinHandlesInv' /\ winOpened' \subseteq Win!Names /\ winBadCloses' = {}
           /\ winStreams' \subseteq Win!Standard
<1>1. /\ winBadCloses = {} /\ winDevnull = Win!None /\ winStreams \subseteq Win!Piped
      /\ winOpened = Win!CallerHandles \cup Win!OurEnds(winStreams)
      /\ errClose = {} /\ dupClose = {}
  <2>1. winPc \notin WinOpening  BY DEF WinStarting
  <2>. QED  BY <2>1 DEF WinInv, WinHandlesInv
<1>2. winStreams \subseteq Win!Standard /\ winOpened \subseteq Win!Names
      BY DEF WinInv, Win!TypeOK
<1>3. /\ winOpened' = winOpened \ Win!OurEnds(S)
      /\ winBadCloses' = winBadCloses \cup (Win!OurEnds(S) \ winOpened)
      BY DEF Win!Close
<1>4. Win!OurEnds(S) \subseteq Win!OurEnds(winStreams)
      BY DEF Win!OurEnds
<1>5. Win!OurEnds(winStreams) \ Win!OurEnds(S) = Win!OurEnds(winStreams \ S)
  <2>1. \A s, t \in Win!Standard : Win!OursOf(s) = Win!OursOf(t) => s = t
        BY WinNames
  <2>. QED  BY <1>2, <2>1 DEF Win!OurEnds
<1>6. Win!OurEnds(S) \cap Win!CallerHandles = {}
  <2>1. Win!OurEnds(winStreams) \subseteq OurNames  BY <1>2, WinKinds_
  <2>2. \A n \in OurNames : n \notin Win!CallerHandles  BY WinNames DEF OurNames
  <2>. QED  BY <1>4, <2>1, <2>2
<1>7. winOpened' = Win!CallerHandles \cup Win!OurEnds(winStreams \ S) /\ winBadCloses' = {}
      BY <1>1, <1>3, <1>4, <1>5, <1>6
<1>8. (Win!Piped)' = Win!Piped  BY DEF Win!Piped
<1>9. WinHandlesInv'
  <2>1. (Win!OurEnds(winStreams))' = Win!OurEnds(winStreams \ S)
        BY DEF Win!OurEnds
  <2>2. winPc' \notin WinOpening /\ winPc' \notin {"wrap", "execute", "undo"}  BY DEF WinStarting
  <2>. QED  BY <1>1, <1>7, <1>8, <2>1, <2>2 DEF WinHandlesInv
<1>. QED  BY <1>2, <1>3, <1>7, <1>9

LEMMA WinStreamsStay ==
    ASSUME WinInv, winPc \notin WinStarting, winPc' \notin WinStarting,
           UNCHANGED <<winDev, usable, errClose, dupClose, winDevnull, winStreams, winOpened,
                       winBadCloses>>
    PROVE  WinHandlesInv'
<1>1. /\ winBadCloses = {} /\ winDevnull = Win!None /\ winStreams \subseteq Win!Piped
      /\ winOpened = Win!CallerHandles \cup Win!OurEnds(winStreams)
      /\ errClose = {} /\ dupClose = {}
  <2>1. winPc \notin WinOpening  BY DEF WinStarting
  <2>. QED  BY <2>1 DEF WinInv, WinHandlesInv
<1>2. (Win!OurEnds(winStreams))' = Win!OurEnds(winStreams) /\ (Win!Piped)' = Win!Piped
      BY DEF Win!OurEnds, Win!Piped
<1>3. winPc' \notin WinOpening /\ winPc' \notin {"wrap", "execute", "undo"}  BY DEF WinStarting
<1>. QED  BY <1>1, <1>2, <1>3 DEF WinHandlesInv

\* What the steps of the child and of the calls after a start leave as it is.
WinSettled ==
    UNCHANGED <<winDev, usable, winDetached, winAttempts, closeFdsAsked, closeFds, winFailed,
                childEnd, errClose, dupClose, winDevnull, winClosedChildPipeFds, created,
                winDetachedStarted>>

LEMMA WinChildWritesStep ==
    ASSUME WinInv, NEW CONSTANT s \in Win!Outputs, Win!ChildWrites(s) PROVE WinInv'
<1>1. /\ WinSettled /\ Win!Served(s) /\ created /\ s \in Win!Piped
      /\ written[s] < MaxOutput /\ buffered[s] < PipeSize
      /\ written' = [written EXCEPT ![s] = @ + 1] /\ buffered' = [buffered EXCEPT ![s] = @ + 1]
      /\ UNCHANGED <<winPc, winStreams, winOpened, winBadCloses, process, winReturncode, winChild,
                     status, inherited, heirs, worker, threw, deadline, input, got, eof>>
      BY DEF Win!ChildWrites, WinSettled, Win!Unchanged_, Win!settings, Win!handleVars,
             Win!objectVars, Win!childVars
<1>2. winPc \notin WinStarting
      BY <1>1 DEF WinInv, WinLifeInv
<1>3. WinHandlesInv'  BY <1>1, <1>2, WinStreamsStay DEF WinSettled
<1>4. /\ written' \in [Win!Outputs -> 0..MaxOutput] /\ buffered' \in [Win!Standard -> 0..PipeSize]
  <2>1. /\ written \in [Win!Outputs -> 0..MaxOutput] /\ buffered \in [Win!Standard -> 0..PipeSize]
        BY DEF WinInv, Win!TypeOK
  <2>2. s \in Win!Standard  BY WinNames DEF Win!Outputs
  <2>. QED  BY <1>1, <2>1, <2>2, PortsAssumption
<1>5. Win!TypeOK'
      BY <1>1, <1>4 DEF WinInv, Win!TypeOK, WinSettled
<1>6. (Win!Piped)' = Win!Piped  BY <1>1 DEF WinSettled, Win!Piped
<1>7. WinLifeInv'
      BY <1>1, <1>6 DEF WinInv, WinLifeInv, WinSettled
<1>8. WinTalkInv'
  <2>1. \A t \in Win!Outputs : got'[t] + buffered'[t] = written'[t]
    <3>1. /\ written \in [Win!Outputs -> 0..MaxOutput] /\ buffered \in [Win!Standard -> 0..PipeSize]
          /\ got \in [Win!Outputs -> 0..MaxOutput]
          BY DEF WinInv, Win!TypeOK
    <3>2. \A t \in Win!Outputs : t \in Win!Standard  BY WinNames DEF Win!Outputs
    <3>3. \A t \in Win!Outputs : got[t] + buffered[t] = written[t]
          BY DEF WinInv, WinTalkInv
    <3>. QED  BY <1>1, <3>1, <3>2, <3>3, PortsAssumption
  <2>2. \A t \in Win!Outputs :
            /\ t \in Win!Standard /\ (t # s => buffered'[t] = buffered[t])
            /\ Win!Served(t)' <=> Win!Served(t)
    <3>1. buffered \in [Win!Standard -> 0..PipeSize]  BY DEF WinInv, Win!TypeOK
    <3>2. \A t \in Win!Outputs : t \in Win!Standard  BY WinNames DEF Win!Outputs
    <3>3. UNCHANGED <<winChild, heirs>>  BY <1>1
    <3>. QED  BY <1>1, <3>1, <3>2, <3>3 DEF Win!Served
  <2>3. \A t \in Win!Outputs :
            worker'[t] = "done" /\ t \notin threw' => buffered'[t] = 0 /\ ~Win!Served(t)'
    <3>1. \A t \in Win!Outputs :
              worker[t] = "done" /\ t \notin threw => buffered[t] = 0 /\ ~Win!Served(t)
          BY DEF WinInv, WinTalkInv
    <3>. QED  BY <1>1, <2>2, <3>1
  <2>4. created' /\ threw' = {} /\ winPc' # "destroyed" =>
            \A t \in (Win!Outputs \cap (Win!Piped)') \ winStreams' :
                buffered'[t] = 0 /\ ~Win!Served(t)'
    <3>1. created /\ threw = {} /\ winPc # "destroyed" =>
              \A t \in (Win!Outputs \cap Win!Piped) \ winStreams :
                  buffered[t] = 0 /\ ~Win!Served(t)
          BY DEF WinInv, WinTalkInv
    <3>. QED  BY <1>1, <1>6, <2>2, <3>1 DEF WinSettled
  <2>. QED  BY <1>1, <1>6, <2>1, <2>3, <2>4 DEF WinInv, WinTalkInv, WinSettled
<1>. QED  BY <1>3, <1>5, <1>7, <1>8 DEF WinInv

LEMMA WinChildReadsStep == ASSUME WinInv, Win!ChildReads PROVE WinInv'
<1>1. /\ WinSettled /\ created
      /\ \/ buffered["stdin"] > 0 /\ buffered' = [buffered EXCEPT !["stdin"] = @ - 1] /\ UNCHANGED eof
         \/ eof' = TRUE /\ UNCHANGED buffered
      /\ UNCHANGED <<winPc, winStreams, winOpened, winBadCloses, process, winReturncode, winChild,
                     status, inherited, heirs, worker, threw, deadline, input, written, got>>
      BY DEF Win!ChildReads, WinSettled, Win!Unchanged_, Win!settings, Win!handleVars,
             Win!objectVars, Win!childVars
<1>2. winPc \notin WinStarting
      BY <1>1 DEF WinInv, WinLifeInv
<1>3. WinHandlesInv'  BY <1>1, <1>2, WinStreamsStay DEF WinSettled
<1>4. /\ buffered' \in [Win!Standard -> 0..PipeSize] /\ eof' \in BOOLEAN
      /\ \A t \in Win!Outputs : buffered'[t] = buffered[t]
  <2>1. buffered \in [Win!Standard -> 0..PipeSize] /\ eof \in BOOLEAN
        BY DEF WinInv, Win!TypeOK
  <2>2. /\ "stdin" \in Win!Standard /\ "stdin" \notin Win!Outputs
        /\ \A t \in Win!Outputs : t \in Win!Standard
        BY WinNames DEF Win!Outputs
  <2>3. CASE buffered["stdin"] > 0 /\ buffered' = [buffered EXCEPT !["stdin"] = @ - 1] /\ UNCHANGED eof
    <3>1. buffered["stdin"] - 1 \in 0..PipeSize  BY <2>1, <2>2, <2>3, PortsAssumption
    <3>. QED  BY <2>1, <2>2, <2>3, <3>1
  <2>4. CASE eof' = TRUE /\ UNCHANGED buffered  BY <2>1, <2>2, <2>4
  <2>. QED  BY <1>1, <2>3, <2>4
<1>5. Win!TypeOK'
      BY <1>1, <1>4 DEF WinInv, Win!TypeOK, WinSettled
<1>6. (Win!Piped)' = Win!Piped  BY <1>1 DEF WinSettled, Win!Piped
<1>7. WinLifeInv'
      BY <1>1, <1>6 DEF WinInv, WinLifeInv, WinSettled
<1>8. WinTalkInv'
      BY <1>1, <1>4, <1>6 DEF WinInv, WinTalkInv, WinSettled, Win!Served
<1>. QED  BY <1>3, <1>5, <1>7, <1>8 DEF WinInv

\* An end of the child, by itself or by TerminateProcess(), and what the object then knows of it.
LEMMA WinEnds ==
    ASSUME WinInv, winChild # Win!None, winPc \notin WinStarting, winPc' \notin WinStarting,
           winPc' \in {"idle", "workers", "waiting", "join", "rethrow", "destroyed"},
           UNCHANGED <<winDev, usable, winDetached, winFailed, created, winDetachedStarted>>,
           winChild' = "ended", status' \in Win!ExitCodes,
           winChild = "ended" => status' = status,
           process' \in BOOLEAN,
           \/ UNCHANGED <<winReturncode, process>>
           \/ created /\ process' = FALSE
                  /\ winReturncode' = (IF winReturncode = Win!None THEN status' ELSE winReturncode),
           winPc' \in {"workers"} \cup WinTalking => created,
           winPc' = "join" => winReturncode' # Win!None,
           winPc' \in {"idle", "destroyed"} /\ ~created => winStreams' = {}
    PROVE  WinLifeInv' /\ winReturncode' \in Win!ExitCodes \cup {Win!None}
<1>1. Win!None \notin Win!ExitCodes /\ Win!None # "ended" /\ Win!None # "running"
      BY DEF Win!None, Win!ExitCodes
<1>2. /\ process <=> created /\ winReturncode = Win!None
      /\ winReturncode # Win!None => created /\ winChild = "ended" /\ winReturncode = status
      /\ winChild = "ended" <=> status # Win!None
      /\ created \/ winDetachedStarted
      /\ ~winFailed
      /\ winDetached /\ ~winFailed => Win!Piped = {}
      BY DEF WinInv, WinLifeInv
<1>3. (Win!Piped)' = Win!Piped  BY DEF Win!Piped
<1>4. winReturncode \in Win!ExitCodes \cup {Win!None}  BY DEF WinInv, Win!TypeOK
<1>5. /\ process' <=> created' /\ winReturncode' = Win!None
      /\ winReturncode' # Win!None => created' /\ winReturncode' = status'
      /\ winReturncode' \in Win!ExitCodes \cup {Win!None}
      BY <1>1, <1>2, <1>4
<1>. QED  BY <1>1, <1>2, <1>3, <1>5 DEF WinLifeInv

LEMMA WinChildExitsStep == ASSUME WinInv, Win!ChildExits PROVE WinInv'
<1>1. /\ WinSettled /\ winChild = "running" /\ winChild' = "ended" /\ status' \in {"own", "STILL_ACTIVE"}
      /\ UNCHANGED <<winPc, winStreams, winOpened, winBadCloses, process, winReturncode,
                     inherited, heirs, worker, threw, deadline, input, buffered, written, got, eof>>
      BY DEF Win!ChildExits, WinSettled, Win!Unchanged_, Win!settings, Win!handleVars,
             Win!objectVars, Win!talkVars
<1>2. winPc \notin WinStarting /\ winChild # Win!None
      BY <1>1 DEF WinInv, WinLifeInv, Win!None
<1>3. WinHandlesInv'  BY <1>1, <1>2, WinStreamsStay DEF WinSettled
<1>4. Win!TypeOK'
      BY <1>1 DEF WinInv, Win!TypeOK, WinSettled, Win!ExitCodes
<1>5. WinLifeInv'
  <2>1. /\ winPc \in {"idle", "workers", "waiting", "join", "rethrow", "destroyed"}
        /\ process \in BOOLEAN
        BY <1>2 DEF WinInv, Win!TypeOK, WinStarting, WinOpening
  <2>2. /\ winPc \in {"workers"} \cup WinTalking => created
        /\ winPc = "join" => winReturncode # Win!None
        /\ winPc \in {"idle", "destroyed"} /\ ~created => winStreams = {}
        BY DEF WinInv, WinLifeInv
  <2>3. status' \in Win!ExitCodes  BY <1>1 DEF Win!ExitCodes
  <2>. QED  BY <1>1, <1>2, <2>1, <2>2, <2>3, WinEnds DEF WinSettled
<1>6. (Win!Piped)' = Win!Piped  BY <1>1 DEF WinSettled, Win!Piped
<1>7. WinTalkInv'
      BY <1>1, <1>6 DEF WinInv, WinTalkInv, WinSettled, Win!Served
<1>. QED  BY <1>3, <1>4, <1>5, <1>7 DEF WinInv

\* A grandchild starts while the child runs, so that no reader is done yet, and ends at any time.
LEMMA WinGrandchildStep == ASSUME WinInv, Win!ChildSpawns \/ Win!GrandchildEnds PROVE WinInv'
<1>1. /\ WinSettled /\ created /\ heirs' \subseteq Win!Piped
      /\ winChild = "running" \/ heirs' = {}
      /\ UNCHANGED <<winPc, winStreams, winOpened, winBadCloses, process, winReturncode, winChild,
                     status, inherited, worker, threw, deadline, input, buffered, written, got, eof>>
  <2>1. CASE Win!ChildSpawns
        BY <2>1 DEF Win!ChildSpawns, WinSettled, Win!Unchanged_, Win!settings, Win!handleVars,
                    Win!objectVars, Win!talkVars
  <2>2. CASE Win!GrandchildEnds
        BY <2>2 DEF Win!GrandchildEnds, WinSettled, Win!Unchanged_, Win!settings, Win!handleVars,
                    Win!objectVars, Win!talkVars
  <2>. QED  BY <2>1, <2>2
<1>2. winPc \notin WinStarting
      BY <1>1 DEF WinInv, WinLifeInv
<1>3. WinHandlesInv'  BY <1>1, <1>2, WinStreamsStay DEF WinSettled
<1>4. heirs' \subseteq Win!Standard  BY <1>1 DEF Win!Piped
<1>5. Win!TypeOK'
      BY <1>1, <1>4 DEF WinInv, Win!TypeOK, WinSettled
<1>6. (Win!Piped)' = Win!Piped  BY <1>1 DEF WinSettled, Win!Piped
<1>7. WinLifeInv'
      BY <1>1, <1>6 DEF WinInv, WinLifeInv, WinSettled
<1>8. \A s \in Win!Standard : ~Win!Served(s) => ~Win!Served(s)'
      BY <1>1 DEF Win!Served
<1>9. \A s \in Win!Outputs : s \in Win!Standard  BY WinNames DEF Win!Outputs
<1>10. WinTalkInv'
      BY <1>1, <1>6, <1>8, <1>9 DEF WinInv, WinTalkInv, WinSettled
<1>. QED  BY <1>3, <1>5, <1>7, <1>10 DEF WinInv

\* kill() and wait() between calls.
LEMMA WinKillWaitStep == ASSUME WinInv, Win!Kill \/ Win!Wait PROVE WinInv'
<1>1. /\ WinSettled /\ winPc = "idle" /\ created /\ winReturncode = Win!None
      /\ UNCHANGED <<winPc, winStreams, winOpened, winBadCloses, inherited, heirs,
                     worker, threw, deadline, input, buffered, written, got, eof>>
      BY DEF Win!Kill, Win!Wait, WinSettled, Win!Unchanged_, Win!settings, Win!handleVars,
             Win!childVars, Win!talkVars, Win!Terminated
<1>2. /\ winChild' = "ended" /\ winChild \in {"running", "ended"}
      /\ status' = IF winChild = "running" THEN "KillProcessExitCode" ELSE status
      /\ \/ UNCHANGED <<winReturncode, process>>
         \/ process' = FALSE
                /\ winReturncode' = (IF winReturncode = Win!None THEN status' ELSE winReturncode)
      BY DEF Win!Kill, Win!Wait, Win!childVars, Win!Terminated, Win!Collected
<1>3. winPc \notin WinStarting /\ winChild # Win!None
      BY <1>1, <1>2 DEF Win!None, WinStarting, WinOpening
<1>4. WinHandlesInv'  BY <1>1, <1>3, WinStreamsStay DEF WinSettled
<1>5. status' \in Win!ExitCodes /\ process' \in BOOLEAN
  <2>1. status \in Win!ExitCodes \cup {Win!None} /\ process \in BOOLEAN
        BY DEF WinInv, Win!TypeOK
  <2>2. winChild = "ended" => status # Win!None  BY DEF WinInv, WinLifeInv
  <2>3. "KillProcessExitCode" \in Win!ExitCodes  BY DEF Win!ExitCodes
  <2>. QED  BY <1>2, <2>1, <2>2, <2>3
<1>6. winPc' = "idle" /\ created' = created
      BY <1>1 DEF WinSettled
<1>7. WinLifeInv' /\ winReturncode' \in Win!ExitCodes \cup {Win!None}
      BY <1>1, <1>2, <1>3, <1>5, <1>6, WinEnds DEF WinSettled, WinTalking
<1>8. Win!TypeOK'
      BY <1>1, <1>2, <1>5, <1>7 DEF WinInv, Win!TypeOK, WinSettled
<1>9. (Win!Piped)' = Win!Piped  BY <1>1 DEF WinSettled, Win!Piped
<1>10. WinTalkInv'
      BY <1>1, <1>2, <1>9 DEF WinInv, WinTalkInv, WinSettled, Win!Served
<1>. QED  BY <1>4, <1>7, <1>8, <1>10 DEF WinInv

LEMMA WinDestroyStep == ASSUME WinInv, Win!Destroy PROVE WinInv'
<1>1. /\ WinSettled /\ winPc = "idle" /\ winPc' = "destroyed" /\ winStreams' = {}
      /\ Win!Close(Win!OurEnds(winStreams))
      /\ UNCHANGED <<inherited, heirs, worker, threw, deadline, input, buffered, written, got, eof>>
      BY DEF Win!Destroy, WinSettled, Win!Unchanged_, Win!settings,
             Win!childVars, Win!talkVars, Win!Terminated
<1>2. /\ created =>
             /\ winChild' = "ended"
             /\ status' = (IF winChild = "running" THEN "KillProcessExitCode" ELSE status)
             /\ process' = FALSE
             /\ winReturncode' = (IF winReturncode = Win!None THEN status' ELSE winReturncode)
      /\ ~created => UNCHANGED <<winChild, status, winReturncode, process>>
      BY DEF Win!Destroy, Win!childVars, Win!Terminated, Win!Collected
<1>3. winPc \notin WinStarting /\ winPc' \notin WinStarting
      BY <1>1 DEF WinStarting, WinOpening
<1>4. WinHandlesInv' /\ winOpened' \subseteq Win!Names /\ winBadCloses' = {}
  <2>1. winStreams' = winStreams \ winStreams  BY <1>1
  <2>. QED  BY <1>1, <1>3, <2>1, WinStreamsClose DEF WinSettled
<1>5. WinLifeInv' /\ winReturncode' \in Win!ExitCodes \cup {Win!None}
      /\ status' \in Win!ExitCodes \cup {Win!None} /\ process' \in BOOLEAN
      /\ winChild' \in {Win!None, "running", "ended"}
  <2>1. /\ status \in Win!ExitCodes \cup {Win!None} /\ process \in BOOLEAN
        /\ winChild \in {Win!None, "running", "ended"}
        /\ winReturncode \in Win!ExitCodes \cup {Win!None}
        BY DEF WinInv, Win!TypeOK
  <2>2. CASE created
    <3>1. winChild # Win!None /\ (winChild = "ended" => status # Win!None)
          BY <2>2 DEF WinInv, WinLifeInv
    <3>2. "KillProcessExitCode" \in Win!ExitCodes  BY DEF Win!ExitCodes
    <3>3. status' \in Win!ExitCodes  BY <1>2, <2>1, <2>2, <3>1, <3>2
    <3>4. winChild = "ended" => status' = status  BY <1>2, <2>2
    <3>5. process' \in BOOLEAN /\ winPc' # "join" /\ winPc' \notin {"workers"} \cup WinTalking
          BY <1>1, <1>2, <2>2 DEF WinTalking
    <3>6. WinLifeInv' /\ winReturncode' \in Win!ExitCodes \cup {Win!None}
          BY <1>1, <1>2, <1>3, <2>2, <3>1, <3>3, <3>4, <3>5, WinEnds DEF WinSettled
    <3>. QED  BY <1>2, <2>2, <3>3, <3>5, <3>6
  <2>3. CASE ~created
    <3>1. (Win!Piped)' = Win!Piped  BY <1>1 DEF WinSettled, Win!Piped
    <3>. QED  BY <1>1, <1>2, <2>1, <2>3, <3>1
         DEF WinInv, WinLifeInv, WinSettled, WinStarting, WinOpening, WinTalking
  <2>. QED  BY <2>2, <2>3
<1>6. Win!TypeOK'
      BY <1>1, <1>4, <1>5 DEF WinInv, Win!TypeOK, WinSettled
<1>7. WinTalkInv'
  <2>1. \A s \in Win!Standard : worker[s] = Win!None
        BY <1>1 DEF WinInv, WinTalkInv, WinTalking
  <2>2. Win!None # "running" /\ Win!None # "done" /\ \A s \in Win!Outputs : s \in Win!Standard
        BY WinNames DEF Win!Outputs
  <2>3. \A s \in Win!Outputs : got[s] + buffered[s] = written[s]
        BY DEF WinInv, WinTalkInv
  <2>. QED  BY <1>1, <2>1, <2>2, <2>3 DEF WinTalkInv, WinTalking
<1>. QED  BY <1>4, <1>5, <1>6, <1>7 DEF WinInv

-----------------------------------------------------------------------------
(* communicate_impl() on Windows *)

\* Steps of a call that leave the child, the object and the streams as they are.
WinQuiet ==
    /\ WinSettled
    /\ UNCHANGED <<winStreams, winOpened, winBadCloses, process, winReturncode, winChild, status,
                   inherited, heirs>>

LEMMA WinQuietStep ==
    ASSUME WinInv, WinQuiet, winPc \notin WinStarting,
           winPc' \in {"idle", "workers", "waiting", "join", "rethrow", "destroyed"},
           winPc' \in {"workers"} \cup WinTalking => created,
           winPc' = "join" => winReturncode # Win!None,
           winPc' \in {"idle", "destroyed"} /\ ~created => winStreams = {},
           winPc' = "destroyed" => winPc = "destroyed"
    PROVE  WinHandlesInv' /\ WinLifeInv' /\ (Win!Piped)' = Win!Piped
<1>1. winPc' \notin WinStarting  BY DEF WinStarting, WinOpening
<1>2. WinHandlesInv'  BY <1>1, WinStreamsStay DEF WinQuiet, WinSettled
<1>3. (Win!Piped)' = Win!Piped  BY DEF WinQuiet, WinSettled, Win!Piped
<1>4. WinLifeInv'
      BY <1>1, <1>3 DEF WinInv, WinLifeInv, WinQuiet, WinSettled
<1>. QED  BY <1>2, <1>3, <1>4

LEMMA WinCommunicateStep == ASSUME WinInv, Win!Communicate PROVE WinInv'
<1>1. /\ WinQuiet /\ winPc = "idle" /\ created /\ winPc' = "workers"
      /\ deadline' \in BOOLEAN /\ input' \in {0, MaxInput}
      /\ UNCHANGED <<worker, threw, buffered, written, got, eof>>
      BY DEF Win!Communicate, WinQuiet, WinSettled, Win!Unchanged_, Win!settings, Win!handleVars,
             Win!objectVars, Win!childVars
<1>2. WinHandlesInv' /\ WinLifeInv' /\ (Win!Piped)' = Win!Piped
      BY <1>1, WinQuietStep DEF WinStarting, WinOpening
<1>3. input' \in 0..MaxInput  BY <1>1, PortsAssumption
<1>4. Win!TypeOK'
      BY <1>1, <1>3 DEF WinInv, Win!TypeOK, WinQuiet, WinSettled
<1>5. WinTalkInv'
      BY <1>1, <1>2 DEF WinInv, WinTalkInv, WinQuiet, WinSettled, WinTalking, Win!Served
<1>. QED  BY <1>2, <1>4, <1>5 DEF WinInv

LEMMA WinStartWorkersStep == ASSUME WinInv, Win!StartWorkers PROVE WinInv'
<1>1. /\ WinQuiet /\ winPc = "workers" /\ winPc' = "waiting"
      /\ worker' = [s \in Win!Standard |-> IF s \in winStreams THEN "running" ELSE Win!None]
      /\ UNCHANGED <<threw, deadline, input, buffered, written, got, eof>>
      BY DEF Win!StartWorkers, WinQuiet, WinSettled, Win!Unchanged_, Win!settings, Win!handleVars,
             Win!objectVars, Win!childVars
<1>2. created  BY <1>1 DEF WinInv, WinLifeInv
<1>3. WinHandlesInv' /\ WinLifeInv' /\ (Win!Piped)' = Win!Piped
      BY <1>1, <1>2, WinQuietStep DEF WinStarting, WinOpening
<1>4. Win!TypeOK'
      BY <1>1 DEF WinInv, Win!TypeOK, WinQuiet, WinSettled
<1>5. WinTalkInv'
  <2>1. Win!None # "running" /\ Win!None # "done" /\ \A s \in Win!Outputs : s \in Win!Standard
        BY WinNames DEF Win!Outputs
  <2>2. winStreams \subseteq Win!Standard  BY DEF WinInv, Win!TypeOK
  <2>3. /\ \A s \in Win!Outputs : got[s] + buffered[s] = written[s]
        /\ created /\ threw = {} =>
               \A s \in (Win!Outputs \cap Win!Piped) \ winStreams :
                   buffered[s] = 0 /\ ~Win!Served(s)
        BY <1>1 DEF WinInv, WinTalkInv
  <2>. QED  BY <1>1, <1>3, <2>1, <2>2, <2>3 DEF WinTalkInv, WinQuiet, WinSettled, WinTalking, Win!Served
<1>. QED  BY <1>3, <1>4, <1>5 DEF WinInv

\* Of a stream: what a reader took of it, or that it is done with it.
LEMMA WinReadAllStep ==
    ASSUME WinInv, NEW CONSTANT s \in Win!Outputs, Win!ReadAll(s) PROVE WinInv'
<1>1. /\ WinQuiet /\ UNCHANGED <<winPc, deadline, input, written, eof>> /\ worker[s] = "running"
      /\ \/ /\ buffered[s] > 0 /\ buffered' = [buffered EXCEPT ![s] = @ - 1]
            /\ got' = [got EXCEPT ![s] = @ + 1] /\ UNCHANGED <<worker, threw>>
         \/ /\ buffered[s] = 0 /\ ~Win!HasWriter(s)
            /\ worker' = [worker EXCEPT ![s] = "done"] /\ UNCHANGED <<buffered, got, threw>>
         \/ /\ buffered[s] > 0 /\ worker' = [worker EXCEPT ![s] = "done"]
            /\ threw' = threw \cup {s} /\ UNCHANGED <<buffered, got>>
      BY DEF Win!ReadAll, WinQuiet, WinSettled, Win!Unchanged_, Win!settings, Win!handleVars,
             Win!objectVars, Win!childVars
<1>2. s \in Win!Standard /\ \A t \in Win!Outputs : t \in Win!Standard
      BY WinNames DEF Win!Outputs
<1>3. Win!None # "running"  BY WinNames
<1>4. winPc \in WinTalking /\ s \in winStreams
      BY <1>1, <1>2, <1>3 DEF WinInv, WinTalkInv
<1>5. WinHandlesInv' /\ WinLifeInv' /\ (Win!Piped)' = Win!Piped
  <2>1. created /\ (winPc = "join" => winReturncode # Win!None)
        BY <1>4 DEF WinInv, WinLifeInv
  <2>. QED  BY <1>1, <1>4, <2>1, WinQuietStep DEF WinStarting, WinOpening, WinTalking
<1>6. /\ written \in [Win!Outputs -> 0..MaxOutput] /\ buffered \in [Win!Standard -> 0..PipeSize]
      /\ got \in [Win!Outputs -> 0..MaxOutput] /\ threw \subseteq Win!Standard
      /\ worker \in [Win!Standard -> {Win!None, "running", "done"}]
      BY DEF WinInv, Win!TypeOK
<1>7. /\ \A t \in Win!Outputs : got'[t] + buffered'[t] = written'[t]
      /\ buffered' \in [Win!Standard -> 0..PipeSize] /\ got' \in [Win!Outputs -> 0..MaxOutput]
  <2>1. \A t \in Win!Outputs : got[t] + buffered[t] = written[t]
        BY DEF WinInv, WinTalkInv
  <2>2. CASE /\ buffered[s] > 0 /\ buffered' = [buffered EXCEPT ![s] = @ - 1]
             /\ got' = [got EXCEPT ![s] = @ + 1]
    <3>1. buffered[s] - 1 \in 0..PipeSize /\ got[s] + 1 \in 0..MaxOutput
          BY <1>2, <1>6, <2>1, <2>2, PortsAssumption
    <3>2. \A t \in Win!Outputs : got'[t] + buffered'[t] = got[t] + buffered[t]
          BY <1>2, <1>6, <2>2, PortsAssumption
    <3>. QED  BY <1>1, <1>6, <2>1, <2>2, <3>1, <3>2
  <2>3. CASE UNCHANGED <<buffered, got>>  BY <1>1, <1>6, <2>1, <2>3
  <2>. QED  BY <1>1, <2>2, <2>3
<1>8. /\ worker' \in [Win!Standard -> {Win!None, "running", "done"}]
      /\ threw' \subseteq Win!Standard
      BY <1>1, <1>2, <1>6
<1>9. Win!TypeOK'
      BY <1>1, <1>7, <1>8 DEF WinInv, Win!TypeOK, WinQuiet, WinSettled
<1>10. WinTalkInv'
  <2>1. \A t \in Win!Standard \ {s} : worker'[t] = worker[t]
        BY <1>1, <1>6
  <2>2. \A t \in Win!Outputs \ {s} : buffered'[t] = buffered[t]
        BY <1>1, <1>2, <1>6
  <2>3. /\ worker'[s] \in {"running", "done"}
        /\ worker'[s] = "done" /\ s \notin threw' => buffered'[s] = 0 /\ ~Win!Served(s)'
    <3>1. ~Win!HasWriter(s) => ~Win!Served(s)'  BY <1>1 DEF Win!HasWriter, Win!Served, WinQuiet
    <3>. QED  BY <1>1, <1>2, <1>6, <3>1 DEF WinQuiet
  <2>4. \A t \in Win!Standard : worker'[t] = "running" => t \in winStreams'
        BY <1>1, <1>4, <2>1 DEF WinInv, WinTalkInv, WinQuiet
  <2>5. winPc' \in {"waiting", "join"} => \A t \in winStreams' : worker'[t] # Win!None
    <3>1. winPc \in {"waiting", "join"} => \A t \in winStreams : worker[t] # Win!None
          BY DEF WinInv, WinTalkInv
    <3>2. winStreams \subseteq Win!Standard /\ Win!None # "running" /\ Win!None # "done"
          BY WinNames DEF WinInv, Win!TypeOK
    <3>. QED  BY <1>1, <2>1, <2>3, <3>1, <3>2 DEF WinQuiet
  <2>6. /\ threw \subseteq threw' /\ winPc' \in WinTalking /\ winPc' # "destroyed"
        BY <1>1, <1>4 DEF WinTalking
  <2>7. winPc' = "rethrow" => threw' # {}
        BY <1>1, <2>6 DEF WinInv, WinTalkInv
  <2>8. \A t \in Win!Outputs :
            worker'[t] = "done" /\ t \notin threw' => buffered'[t] = 0 /\ ~Win!Served(t)'
    <3>1. \A t \in Win!Outputs :
              worker[t] = "done" /\ t \notin threw => buffered[t] = 0 /\ ~Win!Served(t)
          BY DEF WinInv, WinTalkInv
    <3>. QED  BY <1>1, <1>2, <2>1, <2>2, <2>3, <2>6, <3>1 DEF WinQuiet, Win!Served
  <2>9. created' /\ threw' = {} =>
            \A t \in (Win!Outputs \cap (Win!Piped)') \ winStreams' :
                buffered'[t] = 0 /\ ~Win!Served(t)'
    <3>1. created /\ threw = {} =>
              \A t \in (Win!Outputs \cap Win!Piped) \ winStreams :
                  buffered[t] = 0 /\ ~Win!Served(t)
          BY <1>1, <2>6 DEF WinInv, WinTalkInv
    <3>2. UNCHANGED <<created, winStreams, winChild, heirs>> /\ (threw' = {} => threw = {})
          BY <1>1, <2>6 DEF WinQuiet, WinSettled
    <3>3. (Win!Piped)' = Win!Piped  BY <1>5
    <3>. QED  BY <1>4, <2>2, <3>1, <3>2, <3>3 DEF Win!Served
  <2>. QED  BY <1>7, <2>4, <2>5, <2>6, <2>7, <2>8, <2>9 DEF WinTalkInv
<1>. QED  BY <1>5, <1>9, <1>10 DEF WinInv

LEMMA WinWriteAllStep == ASSUME WinInv, Win!WriteAll PROVE WinInv'
<1>1. /\ WinSettled /\ worker["stdin"] = "running"
      /\ UNCHANGED <<winPc, process, winReturncode, winChild, status, inherited, heirs, threw, deadline,
                     written, got, eof>>
      /\ \/ /\ input > 0 /\ buffered["stdin"] < PipeSize
            /\ input' = input - 1 /\ buffered' = [buffered EXCEPT !["stdin"] = @ + 1]
            /\ UNCHANGED <<worker, winStreams, winOpened, winBadCloses>>
         \/ /\ worker' = [worker EXCEPT !["stdin"] = "done"]
            /\ Win!Close({"inW"}) /\ winStreams' = winStreams \ {"stdin"}
            /\ UNCHANGED <<input, buffered>>
      BY DEF Win!WriteAll, WinSettled, Win!Unchanged_, Win!settings, Win!objectVars, Win!childVars
<1>2. /\ "stdin" \in Win!Standard /\ "stdin" \notin Win!Outputs
      /\ \A s \in Win!Outputs : s \in Win!Standard
      /\ Win!None # "running" /\ Win!None # "done"
      BY WinNames DEF Win!Outputs
<1>3. winPc \in WinTalking /\ "stdin" \in winStreams
      BY <1>1, <1>2 DEF WinInv, WinTalkInv
<1>4. winPc \notin WinStarting /\ winPc' \notin WinStarting
      BY <1>1, <1>3 DEF WinStarting, WinOpening, WinTalking
<1>5. WinHandlesInv' /\ winOpened' \subseteq Win!Names /\ winBadCloses' \subseteq Win!Names
      /\ winStreams' \subseteq Win!Standard
  <2>1. CASE UNCHANGED <<winStreams, winOpened, winBadCloses>>
        BY <1>1, <1>4, <2>1, WinStreamsStay DEF WinSettled, WinInv, Win!TypeOK
  <2>2. CASE Win!Close({"inW"}) /\ winStreams' = winStreams \ {"stdin"}
    <3>1. Win!OurEnds({"stdin"}) = {"inW"}  BY WinNames DEF Win!OurEnds
    <3>. QED  BY <1>1, <1>3, <1>4, <2>2, <3>1, WinStreamsClose DEF WinSettled
  <2>. QED  BY <1>1, <2>1, <2>2
<1>6. (Win!Piped)' = Win!Piped  BY <1>1 DEF WinSettled, Win!Piped
<1>7. WinLifeInv'
      BY <1>1, <1>3, <1>6 DEF WinInv, WinLifeInv, WinSettled, WinTalking
<1>8. /\ input' \in 0..MaxInput /\ buffered' \in [Win!Standard -> 0..PipeSize]
      /\ worker' \in [Win!Standard -> {Win!None, "running", "done"}]
      /\ \A s \in Win!Standard \ {"stdin"} : worker'[s] = worker[s] /\ buffered'[s] = buffered[s]
      /\ worker'["stdin"] = "running" => winStreams' = winStreams
      /\ worker'["stdin"] \in {"running", "done"}
      /\ winStreams \ {"stdin"} \subseteq winStreams' /\ winStreams' \subseteq winStreams
  <2>1. /\ input \in 0..MaxInput /\ buffered \in [Win!Standard -> 0..PipeSize]
        /\ worker \in [Win!Standard -> {Win!None, "running", "done"}]
        BY DEF WinInv, Win!TypeOK
  <2>2. CASE /\ input > 0 /\ buffered["stdin"] < PipeSize
             /\ input' = input - 1 /\ buffered' = [buffered EXCEPT !["stdin"] = @ + 1]
             /\ UNCHANGED <<worker, winStreams>>
    <3>1. input - 1 \in 0..MaxInput /\ buffered["stdin"] + 1 \in 0..PipeSize
          BY <1>2, <2>1, <2>2, PortsAssumption
    <3>. QED  BY <1>1, <1>2, <2>1, <2>2, <3>1
  <2>3. CASE /\ worker' = [worker EXCEPT !["stdin"] = "done"] /\ winStreams' = winStreams \ {"stdin"}
             /\ UNCHANGED <<input, buffered>>
        BY <1>2, <2>1, <2>3
  <2>. QED  BY <1>1, <2>2, <2>3
<1>9. Win!TypeOK'
      BY <1>1, <1>5, <1>8 DEF WinInv, Win!TypeOK, WinSettled
<1>10. WinTalkInv'
  <2>1. \A s \in Win!Outputs : s \in Win!Standard \ {"stdin"}  BY <1>2
  <2>2. \A s \in Win!Outputs : got'[s] + buffered'[s] = written'[s]
        BY <1>1, <1>8, <2>1 DEF WinInv, WinTalkInv
  <2>3. \A s \in Win!Standard : worker'[s] = "running" => s \in winStreams'
        BY <1>3, <1>8 DEF WinInv, WinTalkInv
  <2>4. winPc' \in {"waiting", "join"} => \A s \in winStreams' : worker'[s] # Win!None
    <3>1. winPc \in {"waiting", "join"} => \A s \in winStreams : worker[s] # Win!None
          BY DEF WinInv, WinTalkInv
    <3>2. winStreams \subseteq Win!Standard  BY DEF WinInv, Win!TypeOK
    <3>. QED  BY <1>1, <1>2, <1>8, <3>1, <3>2
  <2>5. winPc' \in WinTalking /\ (winPc' = "rethrow" => threw' # {})
        BY <1>1, <1>3 DEF WinInv, WinTalkInv
  <2>6. \A s \in Win!Outputs :
            worker'[s] = "done" /\ s \notin threw' => buffered'[s] = 0 /\ ~Win!Served(s)'
        BY <1>1, <1>8, <2>1 DEF WinInv, WinTalkInv, Win!Served
  <2>7. created' /\ threw' = {} =>
            \A s \in (Win!Outputs \cap (Win!Piped)') \ winStreams' :
                buffered'[s] = 0 /\ ~Win!Served(s)'
    <3>1. created /\ threw = {} =>
              \A s \in (Win!Outputs \cap Win!Piped) \ winStreams :
                  buffered[s] = 0 /\ ~Win!Served(s)
          BY <1>3 DEF WinInv, WinTalkInv, WinTalking
    <3>2. UNCHANGED <<created, winChild, heirs, threw>>  BY <1>1 DEF WinSettled
    <3>. QED  BY <1>6, <1>8, <2>1, <3>1, <3>2 DEF Win!Served
  <2>. QED  BY <2>2, <2>3, <2>4, <2>5, <2>6, <2>7 DEF WinTalkInv
<1>. QED  BY <1>5, <1>7, <1>9, <1>10 DEF WinInv

\* The wait of communicate(), whether the child ends or is ended.
LEMMA WinWaitEndsStep == ASSUME WinInv, Win!WaitReturns \/ Win!TimesOut PROVE WinInv'
<1>1. /\ WinSettled /\ winPc = "waiting" /\ winPc' = "join"
      /\ UNCHANGED <<winStreams, winOpened, winBadCloses, inherited, heirs, worker, threw, deadline, input,
                     buffered, written, got, eof>>
      /\ winChild' = "ended" /\ process' = FALSE
      /\ winReturncode' = (IF winReturncode = Win!None THEN status' ELSE winReturncode)
      /\ status' = IF winChild = "running" THEN "KillProcessExitCode" ELSE status
      BY DEF Win!WaitReturns, Win!TimesOut, WinSettled, Win!Unchanged_, Win!settings, Win!handleVars,
             Win!childVars, Win!talkVars, Win!Terminated, Win!Collected
<1>2. created /\ winChild # Win!None /\ winPc \notin WinStarting /\ winPc' \notin WinStarting
      BY <1>1 DEF WinInv, WinLifeInv, WinStarting, WinOpening, WinTalking
<1>3. WinHandlesInv'  BY <1>1, <1>2, WinStreamsStay DEF WinSettled
<1>4. status' \in Win!ExitCodes /\ winReturncode' # Win!None
  <2>1. status \in Win!ExitCodes \cup {Win!None} /\ winChild \in {Win!None, "running", "ended"}
        BY DEF WinInv, Win!TypeOK
  <2>2. winChild = "ended" => status # Win!None  BY DEF WinInv, WinLifeInv
  <2>3. "KillProcessExitCode" \in Win!ExitCodes /\ Win!None \notin Win!ExitCodes
        BY DEF Win!ExitCodes, Win!None
  <2>. QED  BY <1>1, <1>2, <2>1, <2>2, <2>3
<1>5. WinLifeInv' /\ winReturncode' \in Win!ExitCodes \cup {Win!None}
  <2>1. winChild = "ended" => status' = status  BY <1>1
  <2>2. process' \in BOOLEAN  BY <1>1
  <2>. QED  BY <1>1, <1>2, <1>4, <2>1, <2>2, WinEnds DEF WinSettled
<1>6. Win!TypeOK'
      BY <1>1, <1>4, <1>5, ZenonT(60) DEF WinInv, Win!TypeOK, WinSettled
<1>7. (Win!Piped)' = Win!Piped  BY <1>1 DEF WinSettled, Win!Piped
<1>8. WinTalkInv'
      BY <1>1, <1>7 DEF WinInv, WinTalkInv, WinSettled, WinTalking, Win!Served
<1>. QED  BY <1>3, <1>5, <1>6, <1>8 DEF WinInv

LEMMA WinJoinStep == ASSUME WinInv, Win!Join PROVE WinInv'
<1>1. /\ WinSettled /\ winPc \in {"join", "rethrow"} /\ winPc' = "idle" /\ winStreams' = {}
      /\ \A s \in Win!Standard : worker[s] # "running"
      /\ Win!Close(Win!OurEnds(winStreams)) /\ worker' = [s \in Win!Standard |-> Win!None]
      /\ UNCHANGED <<process, winReturncode, winChild, status, inherited, heirs, threw, deadline, input,
                     buffered, written, got, eof>>
      BY DEF Win!Join, WinSettled, Win!Unchanged_, Win!settings, Win!objectVars, Win!childVars
<1>2. created /\ winPc \notin WinStarting /\ winPc' \notin WinStarting
      BY <1>1 DEF WinInv, WinLifeInv, WinStarting, WinOpening, WinTalking
<1>3. WinHandlesInv' /\ winOpened' \subseteq Win!Names /\ winBadCloses' = {}
  <2>1. winStreams' = winStreams \ winStreams  BY <1>1
  <2>. QED  BY <1>1, <1>2, <2>1, WinStreamsClose DEF WinSettled
<1>4. Win!TypeOK'
      BY <1>1, <1>3 DEF WinInv, Win!TypeOK, WinSettled
<1>5. (Win!Piped)' = Win!Piped  BY <1>1 DEF WinSettled, Win!Piped
<1>6. WinLifeInv'
      BY <1>1, <1>2, <1>5 DEF WinInv, WinLifeInv, WinSettled, WinStarting, WinOpening, WinTalking
<1>7. WinTalkInv'
  <2>1. Win!None # "running" /\ Win!None # "done" /\ \A s \in Win!Outputs : s \in Win!Standard
        BY WinNames DEF Win!Outputs
  <2>2. /\ \A s \in Win!Outputs : got[s] + buffered[s] = written[s]
        BY DEF WinInv, WinTalkInv
  <2>3. threw = {} => \A s \in Win!Outputs \cap Win!Piped : buffered[s] = 0 /\ ~Win!Served(s)
    <3>. SUFFICES ASSUME threw = {}, NEW s \in Win!Outputs \cap Win!Piped
                  PROVE  buffered[s] = 0 /\ ~Win!Served(s)
         OBVIOUS
    <3>1. CASE s \notin winStreams
          BY <1>1, <1>2, <3>1 DEF WinInv, WinTalkInv
    <3>2. CASE s \in winStreams
      <4>1. winPc = "join"  BY <1>1 DEF WinInv, WinTalkInv
      <4>2. worker[s] # Win!None  BY <3>2, <4>1 DEF WinInv, WinTalkInv
      <4>3. worker[s] \in {Win!None, "running", "done"}  BY <2>1 DEF WinInv, Win!TypeOK
      <4>4. worker[s] = "done"  BY <1>1, <2>1, <4>2, <4>3
      <4>. QED  BY <4>4 DEF WinInv, WinTalkInv
    <3>. QED  BY <3>1, <3>2
  <2>. QED  BY <1>1, <1>5, <2>1, <2>2, <2>3 DEF WinTalkInv, WinTalking, Win!Served
<1>. QED  BY <1>3, <1>4, <1>6, <1>7 DEF WinInv

\* A thread could not be made: the child is killed, its input closed, and what runs is joined.
LEMMA WinWorkersFailStep == ASSUME WinInv, Win!WorkersFail PROVE WinInv'
<1>1. PICK started \in {{}, {"stdout"}, {"stdout", "stderr"}} :
          /\ winStreams \ started # {}
          /\ worker' = [s \in Win!Standard |->
                            IF s \in started \cap winStreams THEN "running" ELSE Win!None]
      BY DEF Win!WorkersFail
<1>2. /\ WinSettled /\ winPc = "workers" /\ winPc' = "rethrow"
      /\ Win!Close({"inW"} \cap Win!OurEnds(winStreams)) /\ winStreams' = winStreams \ {"stdin"}
      /\ threw' = threw \cup winStreams
      /\ UNCHANGED <<inherited, heirs, deadline, input, buffered, written, got, eof>>
      /\ winChild' = "ended" /\ process' = FALSE
      /\ winReturncode' = (IF winReturncode = Win!None THEN status' ELSE winReturncode)
      /\ status' = IF winChild = "running" THEN "KillProcessExitCode" ELSE status
      BY DEF Win!WorkersFail, WinSettled, Win!Unchanged_, Win!settings, Win!Terminated, Win!Collected
<1>3. created /\ winChild # Win!None /\ winPc \notin WinStarting /\ winPc' \notin WinStarting
      BY <1>2 DEF WinInv, WinLifeInv, WinStarting, WinOpening, WinTalking
<1>4. winStreams \subseteq Win!Standard /\ threw \subseteq Win!Standard
      BY DEF WinInv, Win!TypeOK
<1>5. WinHandlesInv' /\ winOpened' \subseteq Win!Names /\ winBadCloses' = {}
      /\ winStreams' \subseteq Win!Standard
  <2>1. {"inW"} \cap Win!OurEnds(winStreams) = Win!OurEnds({"stdin"} \cap winStreams)
        BY <1>4, WinNames DEF Win!OurEnds
  <2>2. winStreams' = winStreams \ ({"stdin"} \cap winStreams)  BY <1>2
  <2>. QED  BY <1>2, <1>3, <2>1, <2>2, WinStreamsClose DEF WinSettled
<1>6. status' \in Win!ExitCodes
  <2>1. status \in Win!ExitCodes \cup {Win!None} /\ winChild \in {Win!None, "running", "ended"}
        BY DEF WinInv, Win!TypeOK
  <2>2. winChild = "ended" => status # Win!None  BY DEF WinInv, WinLifeInv
  <2>3. "KillProcessExitCode" \in Win!ExitCodes  BY DEF Win!ExitCodes
  <2>. QED  BY <1>2, <1>3, <2>1, <2>2, <2>3
<1>7. WinLifeInv' /\ winReturncode' \in Win!ExitCodes \cup {Win!None}
  <2>1. winChild = "ended" => status' = status  BY <1>2
  <2>2. process' \in BOOLEAN /\ winPc' # "join"  BY <1>2
  <2>. QED  BY <1>2, <1>3, <1>6, <2>1, <2>2, WinEnds DEF WinSettled
<1>8. worker' \in [Win!Standard -> {Win!None, "running", "done"}] /\ threw' \subseteq Win!Standard
      BY <1>1, <1>2, <1>4
<1>9. Win!TypeOK'
      BY <1>2, <1>5, <1>6, <1>7, <1>8, ZenonT(60) DEF WinInv, Win!TypeOK, WinSettled
<1>10. WinTalkInv'
  <2>1. /\ Win!None # "running" /\ Win!None # "done" /\ \A s \in Win!Outputs : s \in Win!Standard
        BY WinNames DEF Win!Outputs
  <2>2. \A s \in Win!Outputs : got[s] + buffered[s] = written[s]
        BY DEF WinInv, WinTalkInv
  <2>3. \A s \in Win!Standard : worker'[s] = "running" => s \in winStreams'
        BY <1>1, <1>2, <2>1
  <2>4. threw' # {}  BY <1>1, <1>2
  <2>5. \A s \in Win!Standard : worker'[s] # "done"  BY <1>1, <2>1
  <2>. QED  BY <1>2, <2>1, <2>2, <2>3, <2>4, <2>5 DEF WinTalkInv, WinTalking
<1>. QED  BY <1>5, <1>7, <1>9, <1>10 DEF WinInv

-----------------------------------------------------------------------------
(* Both ports. *)

LEMMA WinInvStep == WinInv /\ [BothNext]_<<platform, vars, winVars>> => WinInv'
<1>. SUFFICES ASSUME WinInv, [BothNext]_<<platform, vars, winVars>> PROVE WinInv'
     OBVIOUS
<1>1. CASE UNCHANGED winVars
      BY <1>1 DEF winVars, WinInv, Win!TypeOK, WinHandlesInv, WinLifeInv, WinTalkInv, WinOurs,
             WinDups, WinTheirs, Win!Piped, Win!Devnull, Win!ChildEnds, Win!OurEnds, Win!Served
<1>2. CASE Win!Next
      BY <1>2, WinStartStep, WinOpenStandardStep, WinOpenFailsStep, WinWrapStep, WinExecuteStep,
         WinUndoStep, WinChildWritesStep, WinChildReadsStep, WinChildExitsStep,
         WinGrandchildStep, WinKillWaitStep,
         WinDestroyStep, WinCommunicateStep, WinStartWorkersStep, WinWorkersFailStep,
         WinReadAllStep, WinWriteAllStep, WinWaitEndsStep, WinJoinStep DEF Win!Next
<1>. QED  BY <1>1, <1>2 DEF BothNext

LEMMA WinInvariant == BothSpec => []WinInv
<1>1. BothInit => WinInv  BY WinInit DEF BothInit
<1>. QED  BY <1>1, WinInvStep, PTL DEF BothSpec

\* Each port goes on by itself: what holds of start() on Unix holds beside the other.
LEMMA UnixIsUnix == BothSpec => Spec
<1>1. BothInit => Init  BY DEF BothInit
<1>2. [BothNext]_<<platform, vars, winVars>> => [Next]_vars
      BY DEF BothNext
<1>. QED  BY <1>1, <1>2, PTL DEF BothSpec, Spec

\* The variables of both ports keep their types.
THEOREM PortsTypeCorrect == BothSpec => []StartTypeOK
<1>1. StartInv /\ WinInv => StartTypeOK
      BY DEF StartInv, WinInv, StartTypeOK
<1>. QED  BY <1>1, StartInvariant, UnixIsUnix, WinInvariant, PTL

\* popen_win.cpp, done(), _get_handles(), _execute_child(), communicate_impl(): whichever call of
\* a start failed and whichever streams share a handle, between calls exactly the caller's handles
\* and this process's ends are open, nothing was closed twice, and the process handle is kept
\* until the status is known.
THEOREM WinHandlesAccountedHolds == BothSpec => []WinHandlesAccounted
<1>1. WinInv => WinHandlesAccounted
  <2>. SUFFICES ASSUME WinInv PROVE Win!HandlesAccounted  BY DEF WinHandlesAccounted
  <2>1. winBadCloses = {}  BY DEF WinInv, WinHandlesInv
  <2>2. ASSUME winPc \in {"idle", "destroyed"}
        PROVE  /\ winOpened = Win!CallerHandles \cup Win!OurEnds(winStreams)
               /\ winFailed => winStreams = {} /\ winChild = Win!None
               /\ process <=> created /\ winReturncode = Win!None
    <3>1. winPc \notin WinStarting  BY <2>2 DEF WinStarting, WinOpening
    <3>2. winOpened = Win!CallerHandles \cup Win!OurEnds(winStreams)
          BY <3>1 DEF WinInv, WinHandlesInv
    <3>3. winFailed => winStreams = {} /\ winChild = Win!None
          BY <2>2 DEF WinInv, WinLifeInv
    <3>4. process <=> created /\ winReturncode = Win!None
          BY DEF WinInv, WinLifeInv
    <3>. QED  BY <3>2, <3>3, <3>4
  <2>. QED  BY <2>1, <2>2 DEF Win!HandlesAccounted
<1>. QED  BY <1>1, WinInvariant, PTL

\* communicate_impl() of popen_win.cpp: an answer is the child's own exit code, and a call that
\* threw nothing has read all the child wrote, however its threads took turns.
THEOREM WinAnswersAreCompleteHolds == BothSpec => []WinAnswersAreComplete
<1>1. WinInv => WinAnswersAreComplete
  <2>. SUFFICES ASSUME WinInv PROVE Win!AnswersAreComplete  BY DEF WinAnswersAreComplete
  <2>1. winReturncode # Win!None => winChild = "ended" /\ winReturncode = status
        BY DEF WinInv, WinLifeInv
  <2>2. ASSUME winPc = "idle", created, winStreams = {}, threw = {}, NEW s \in Win!Outputs \cap Win!Piped
        PROVE  got[s] = written[s]
    <3>1. got[s] + buffered[s] = written[s] /\ buffered[s] = 0
          BY <2>2 DEF WinInv, WinTalkInv
    <3>2. got[s] \in Nat  BY PortsAssumption DEF WinInv, Win!TypeOK
    <3>. QED  BY <3>1, <3>2
  <2>. QED  BY <2>1, <2>2 DEF Win!AnswersAreComplete
<1>. QED  BY <1>1, WinInvariant, PTL
=============================================================================
