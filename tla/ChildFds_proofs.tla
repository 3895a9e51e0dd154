-------------------------- MODULE ChildFds_proofs --------------------------
(***************************************************************************)
(* The child's descriptor table, for any descriptors of the caller: the    *)
(* program behind exec finds what was asked for and nothing else.  A       *)
(* number is known by the open file behind it, so that whatever numbers    *)
(* the kernel gives, two names for one number are two names for one file.  *)
(***************************************************************************)
EXTENDS ChildFds, WellFoundedInduction, TLAPS

\* What is not a file the caller can have open.
Words == {"free", "null", "inR", "inW", "outR", "outW", "errR", "errW", "pipeR", "pipeW",
          "none", "PIPE", "DEVNULL", "STDOUT"}

\* The table has room for eleven numbers more than the caller has.
FdsAssumption ==
    /\ CallerMax \in Nat /\ MaxFd \in Nat /\ MaxFd >= CallerMax + 11
    /\ \A i \in 0..CallerMax : CallerFile[i] \notin Words

-----------------------------------------------------------------------------
(* The invariant. *)

Parent == {"stdin", "stdout", "stderr", "errpipe", "raise", "fork"}
Before0 == Parent \cup {"closeParentEnds", "moveStdout", "moveStderr", "dup0"}
Before1 == Before0 \cup {"dup1"}
Before2 == Before1 \cup {"dup2"}
Child == Before2 \cup {"closeFds", "exec"}

\* The settings, which never change.
Settings ==
    /\ caller \subseteq 0..CallerMax /\ passFds \subseteq caller
    /\ cloexecOf \in BOOLEAN /\ closeFds \in BOOLEAN
    /\ passFds # {} => closeFds
    /\ dev.stdin \in DeviceChoices /\ dev.stdout \in DeviceChoices
    /\ dev.stderr \in DeviceChoices \cup {"STDOUT"}
    /\ dev.stderr = "STDOUT" /\ dev.stdout = "none" => 1 \in caller

\* The file that a stream's setting stands for, end being that of a pipe.
Wanted(d, end) == IF d = "PIPE" THEN end ELSE IF d = "DEVNULL" THEN "null" ELSE d
StdinFile == Wanted(dev.stdin, "inR")
StdoutFile == Wanted(dev.stdout, "outW")
StderrFile ==
    IF dev.stderr # "STDOUT" THEN Wanted(dev.stderr, "errW")
    ELSE IF dev.stdout = "none" THEN CallerFile[1] ELSE StdoutFile

\* A name stands for a number with that file behind it, or for none.
Names(h, f) == fd[h] # -1 => fd[h] \in Fds /\ file[fd[h]] = f

NamesInv ==
    /\ pc \in Before0 => Names("p2cread", StdinFile)
    /\ pc \in Before1 => Names("c2pwrite", StdoutFile)
    /\ pc \in Before2 => Names("errwrite", StderrFile)
    /\ pc \in Parent => Names("devnull", "null")
    /\ pc \in Parent \cup {"closeParentEnds"} =>
           /\ Names("p2cwrite", "inW") /\ Names("c2pread", "outR") /\ Names("errread", "errR")
           /\ Names("errpipe_read", "pipeR")
    /\ pc \in Child => Names("errpipe_write", "pipeW")

\* Which names stand for a number at all.
GivenInv ==
    /\ fd.p2cread = -1 <=> pc = "stdin" \/ dev.stdin = "none"
    /\ fd.c2pwrite = -1 <=> pc \in {"stdin", "stdout"} \/ dev.stdout = "none"
    /\ fd.errwrite = -1 <=> pc \in {"stdin", "stdout", "stderr"} \/ dev.stderr = "none"
    /\ fd.errpipe_write = -1 <=> pc \in {"stdin", "stdout", "stderr", "errpipe"}
    /\ pc \notin {"stdin", "stdout", "stderr", "errpipe", "raise"} => fd.errpipe_write \in 3..MaxFd

\* The numbers the streams have been put on.
Placed ==
    (IF pc \notin Before0 /\ fd.p2cread # -1 THEN {0} ELSE {})
    \cup (IF pc \notin Before1 /\ fd.c2pwrite # -1 THEN {1} ELSE {})
    \cup (IF pc \notin Before2 /\ fd.errwrite # -1 THEN {2} ELSE {})

PlacedInv ==
    pc \in Child =>
        /\ 0 \in Placed => file[0] = StdinFile /\ 0 \notin cloexec
        /\ 1 \in Placed => file[1] = StdoutFile /\ 1 \notin cloexec
        /\ 2 \in Placed => file[2] = StderrFile /\ 2 \notin cloexec

\* An end that a later copy would overwrite has been moved out of its way.
MovedInv ==
    /\ pc \in {"moveStderr", "dup0", "dup1"} => fd.c2pwrite # 0
    /\ pc \in {"dup0", "dup1", "dup2"} => fd.errwrite \notin {0, 1}

\* The caller's descriptors are as they were but for what pass_fds() does to the flag, and
\* close_fds() to those that remain; every other number is close-on-exec.
CallerInv ==
    pc \in Child => \A n \in caller \ Placed :
        \/ /\ file[n] = CallerFile[n]
           /\ n \in cloexec <=> cloexecOf /\ (pc \in Parent \/ n \notin passFds)
           /\ pc = "exec" /\ closeFds /\ n >= 3 => n \in passFds
        \/ pc = "exec" /\ closeFds /\ n >= 3 /\ n \notin passFds /\ file[n] = Free

OursInv ==
    pc \in Child => \A n \in Fds \ (caller \cup Placed) : file[n] # Free => n \in cloexec

\* The numbers in use are bounded: each step takes the lowest.
Taken ==
    IF pc = "stdin" THEN 0 ELSE IF pc = "stdout" THEN 2 ELSE IF pc = "stderr" THEN 4
    ELSE IF pc = "errpipe" THEN 6 ELSE IF pc = "raise" THEN 8 ELSE IF pc = "moveStderr" THEN 10
    ELSE 9

UsedInv ==
    pc \in Before0 \ {"dup0"} /\ (pc = "moveStderr" => fd.errwrite \in {0, 1}) =>
        \A n \in Fds : n > CallerMax + Taken => file[n] = Free

TableInv ==
    /\ DOMAIN file = Fds /\ fd \in [FdNames -> {-1} \cup Fds]
    /\ cloexec \subseteq {n \in Fds : file[n] # Free}
    /\ pc \in Child \cup {"running"}

\* What was asked for, once the program runs.
RunningInv == StreamsAsAsked /\ NothingElseInherited /\ ErrpipeLastsToExec

FdsInv ==
    /\ Settings /\ TableInv /\ NamesInv /\ GivenInv /\ PlacedInv /\ MovedInv
    /\ CallerInv /\ OursInv /\ UsedInv /\ RunningInv

-----------------------------------------------------------------------------
(* Helpers. *)

LEMMA SmallestNumber ==
    ASSUME NEW S \in SUBSET Nat, S # {}
    PROVE  \E x \in S : \A y \in S : x <= y
<1>1. IsWellFoundedOn(OpToRel(<, Nat), Nat)  BY NatLessThanWellFounded
<1>2. PICK x \in S : \A y \in S : ~(<<y, x>> \in OpToRel(<, Nat))  BY <1>1, WFMin
<1>3. \A y \in S : ~(y < x)  BY <1>2 DEF OpToRel
<1>. QED  BY <1>3

\* The number the kernel gives is free, and no higher than one that is.
LEMMA LowestFreeIsFree ==
    ASSUME FdsAssumption, NEW from \in Nat, NEW m \in from..MaxFd, file[m] = Free
    PROVE  LowestFree(from) \in from..m /\ file[LowestFree(from)] = Free
<1>. DEFINE S == {k \in from..MaxFd : file[k] = Free}
<1>1. S \in SUBSET Nat /\ m \in S  BY DEF FdsAssumption
<1>. HIDE DEF S
<1>2. PICK n \in S : \A k \in S : n <= k  BY <1>1, SmallestNumber
<1>3. n \in from..MaxFd /\ file[n] = Free /\ \A k \in from..(n - 1) : file[k] # Free
      BY <1>2 DEF S, FdsAssumption
<1>4. /\ LowestFree(from) \in from..MaxFd /\ file[LowestFree(from)] = Free
      /\ \A k \in from..(LowestFree(from) - 1) : file[k] # Free
      BY <1>3 DEF LowestFree
<1>5. LowestFree(from) <= m  BY <1>4 DEF FdsAssumption
<1>. QED  BY <1>4, <1>5 DEF FdsAssumption

LEMMA SettingsStay ==
    ASSUME Settings, UNCHANGED settings
    PROVE  /\ Settings'
           /\ StdinFile' = StdinFile /\ StdoutFile' = StdoutFile /\ StderrFile' = StderrFile
BY DEF Settings, settings, DeviceChoices, StdinFile, StdoutFile, StderrFile, Wanted

\* The file behind a stream is the caller's, /dev/null or the child's end of a pipe.
LEMMA ChildEnds ==
    ASSUME FdsAssumption, Settings
    PROVE  /\ dev.stdin # "none" => StdinFile \in {"inR", "null"} \cup {CallerFile[i] : i \in caller}
           /\ dev.stdout # "none" => StdoutFile \in {"outW", "null"} \cup {CallerFile[i] : i \in caller}
           /\ dev.stderr # "none" =>
                  StderrFile \in {"outW", "errW", "null"} \cup {CallerFile[i] : i \in caller}
BY DEF Settings, DeviceChoices, StdinFile, StdoutFile, StderrFile, Wanted, FdsAssumption, Words

LEMMA CallerFiles ==
    ASSUME FdsAssumption, Settings, NEW i \in caller
    PROVE  CallerFile[i] \notin Words
BY DEF FdsAssumption, Settings

\* Numbers that were free come into use, close-on-exec, and the rest stays.
Grows(N) ==
    /\ N \subseteq Fds
    /\ \A n \in N : file[n] = Free /\ file'[n] # Free
    /\ DOMAIN file' = Fds /\ \A n \in Fds \ N : file'[n] = file[n]
    /\ cloexec' = cloexec \cup N

LEMMA NamesStay ==
    ASSUME NEW N, Grows(N), NEW h, NEW f, f # Free, Names(h, f), fd'[h] = fd[h]
    PROVE  fd'[h] # -1 => fd'[h] \in Fds /\ file'[fd'[h]] = f
BY DEF Names, Grows

LEMMA NothingPlaced ==
    ASSUME pc \in Before0
    PROVE  Placed = {}
BY DEF Placed, Before0, Before1, Before2

LEMMA NothingPlacedYet ==
    ASSUME pc' \in Before0
    PROVE  Placed' = {}
BY DEF Placed, Before0, Before1, Before2

LEMMA GrowsKeeps ==
    ASSUME FdsAssumption, FdsInv, UNCHANGED settings, NEW N, Grows(N),
           pc \in Before0, pc' \in Before0, pc \in Parent <=> pc' \in Parent
    PROVE  /\ Settings' /\ CallerInv' /\ OursInv' /\ PlacedInv'
           /\ DOMAIN file' = Fds /\ cloexec' \subseteq {n \in Fds : file'[n] # Free}
<1>1. Placed = {} /\ Placed' = {}  BY NothingPlaced, NothingPlacedYet
<1>2. pc \in Child /\ pc # "exec" /\ pc' \in Child /\ pc' # "exec"
      BY DEF Before0, Before1, Before2, Child, Parent
<1>3. UNCHANGED <<caller, cloexecOf, passFds, closeFds>>  BY DEF settings
<1>4. Settings'  BY SettingsStay DEF FdsInv
<1>5. ASSUME NEW n \in caller
      PROVE  /\ file'[n] = CallerFile[n]
             /\ n \in cloexec' <=> cloexecOf /\ (pc' \in Parent \/ n \notin passFds)
  <2>1. /\ file[n] = CallerFile[n]
        /\ n \in cloexec <=> cloexecOf /\ (pc \in Parent \/ n \notin passFds)
        BY <1>1, <1>2 DEF FdsInv, CallerInv
  <2>2. n \notin N  BY <2>1, CallerFiles DEF Grows, FdsInv, Words, Free
  <2>3. n \in Fds  BY DEF FdsInv, Settings, Fds, FdsAssumption
  <2>. QED  BY <2>1, <2>2, <2>3 DEF Grows
<1>6. CallerInv'  BY <1>1, <1>2, <1>3, <1>5 DEF CallerInv
<1>7. OursInv'
  <2>. SUFFICES ASSUME NEW n \in Fds \ caller, file'[n] # Free  PROVE n \in cloexec'
       BY <1>1, <1>3 DEF OursInv
  <2>1. file[n] # Free => n \in cloexec  BY <1>1, <1>2 DEF FdsInv, OursInv
  <2>. QED  BY <2>1 DEF Grows
<1>8. PlacedInv'  BY <1>1 DEF PlacedInv
<1>9. cloexec' \subseteq {n \in Fds : file'[n] # Free}  BY DEF FdsInv, TableInv, Grows
<1>. QED  BY <1>4, <1>6, <1>7, <1>8, <1>9 DEF Grows

LEMMA SettingsInit ==
    ASSUME FdsAssumption, Init
    PROVE  FdsInv
<1>1. Settings  BY DEF Init, Settings
<1>2. /\ pc = "stdin" /\ DOMAIN file = Fds /\ \A h \in FdNames : fd[h] = -1
      /\ fd \in [FdNames -> {-1} \cup Fds]
      /\ \A n \in Fds : file[n] = IF n \in caller THEN CallerFile[n] ELSE Free
      /\ cloexec = IF cloexecOf THEN caller ELSE {}
      BY DEF Init
<1>3. caller \subseteq Fds  BY <1>1 DEF Settings, Fds, FdsAssumption
<1>4. pc \in Before0 /\ pc \in Child /\ pc \in Parent /\ pc # "exec" /\ pc # "running"
      BY <1>2 DEF Before0, Before1, Before2, Child, Parent
<1>5. Placed = {}  BY <1>4, NothingPlaced
<1>6. TableInv
  <2>1. \A n \in caller : CallerFile[n] # Free  BY <1>1, CallerFiles DEF Words, Free
  <2>. QED  BY <1>2, <1>3, <1>4, <2>1 DEF TableInv
<1>7. NamesInv /\ GivenInv /\ MovedInv  BY <1>2 DEF NamesInv, Names, GivenInv, MovedInv, FdNames
<1>8. PlacedInv  BY <1>5 DEF PlacedInv
<1>9. CallerInv  BY <1>2, <1>3, <1>4 DEF CallerInv
<1>10. OursInv  BY <1>2, <1>3 DEF OursInv
<1>11. UsedInv
  <2>1. Taken = 0  BY <1>2 DEF Taken
  <2>. QED  BY <1>1, <1>2, <2>1 DEF UsedInv, Settings, Fds, FdsAssumption
<1>12. RunningInv
       BY <1>2 DEF RunningInv, StreamsAsAsked, NothingElseInherited, ErrpipeLastsToExec, FdNames
<1>. QED  BY <1>1, <1>6, <1>7, <1>8, <1>9, <1>10, <1>11, <1>12 DEF FdsInv

-----------------------------------------------------------------------------
(* The parent. *)

Opening == {"stdin", "stdout", "stderr", "errpipe"}

\* At most two numbers come into use in a step, the lowest.
GrowsBy2(N) == Grows(N) /\ \A n \in N : n <= CallerMax + Taken + 2

LEMMA RoomForTwo ==
    ASSUME FdsAssumption, FdsInv, pc \in Opening
    PROVE  /\ Taken \in 0..6 /\ CallerMax + Taken + 2 \in Fds
           /\ \A n \in Fds : n > CallerMax + Taken => file[n] = Free
<1>1. Taken \in 0..6  BY DEF Opening, Taken
<1>2. pc \in Before0 \ {"dup0"} /\ pc # "moveStderr"  BY DEF Opening, Before0, Parent
<1>. QED  BY <1>1, <1>2 DEF FdsInv, UsedInv, Fds, FdsAssumption

LEMMA MakePipeGrows ==
    ASSUME FdsAssumption, FdsInv, pc \in Opening,
           NEW r \in FdNames, NEW w \in FdNames, r # w,
           NEW rFile, NEW wFile, rFile # Free, wFile # Free, MakePipe(r, w, rFile, wFile)
    PROVE  /\ \E N : GrowsBy2(N)
           /\ fd' \in [FdNames -> {-1} \cup Fds]
           /\ fd'[r] \in Fds /\ file'[fd'[r]] = rFile
           /\ fd'[w] \in Fds /\ file'[fd'[w]] = wFile
           /\ \A h \in FdNames \ {r, w} : fd'[h] = fd[h]
<1>. DEFINE a == LowestFree(0)
            b == LowestFree(a + 1)
            top == CallerMax + Taken
<1>1. /\ top \in Nat /\ top + 2 \in Fds /\ file[top + 1] = Free /\ file[top + 2] = Free
      /\ top + 2 <= MaxFd /\ MaxFd \in Nat
      BY RoomForTwo DEF Fds, FdsAssumption
<1>. HIDE DEF top
<1>2. a \in 0..(top + 1) /\ file[a] = Free
  <2>1. top + 1 \in 0..MaxFd  BY <1>1
  <2>. QED  BY <1>1, <2>1, LowestFreeIsFree
<1>. HIDE DEF a
<1>3. b \in (a + 1)..(top + 2) /\ file[b] = Free
  <2>1. a + 1 \in Nat /\ top + 2 \in (a + 1)..MaxFd  BY <1>1, <1>2
  <2>. QED  BY <1>1, <2>1, LowestFreeIsFree
<1>. HIDE DEF b
<1>4. /\ file' = [file EXCEPT ![a] = rFile, ![b] = wFile]
      /\ cloexec' = cloexec \cup {a, b}
      /\ fd' = [fd EXCEPT ![r] = a, ![w] = b]
      BY DEF MakePipe, a, b
<1>5. a \in Fds /\ b \in Fds /\ a # b  BY <1>1, <1>2, <1>3 DEF Fds
<1>6. DOMAIN file = Fds /\ fd \in [FdNames -> {-1} \cup Fds]  BY DEF FdsInv, TableInv
<1>7. file'[a] = rFile /\ file'[b] = wFile /\ DOMAIN file' = Fds
      /\ \A n \in Fds \ {a, b} : file'[n] = file[n]
      BY <1>4, <1>5, <1>6
<1>8. Grows({a, b})  BY <1>2, <1>3, <1>4, <1>5, <1>7 DEF Grows
<1>9. \A n \in {a, b} : n <= top + 2  BY <1>1, <1>2, <1>3
<1>10. GrowsBy2({a, b})  BY <1>8, <1>9 DEF GrowsBy2, top
<1>11. /\ fd' \in [FdNames -> {-1} \cup Fds] /\ fd'[r] = a /\ fd'[w] = b
       /\ \A h \in FdNames \ {r, w} : fd'[h] = fd[h]
       BY <1>4, <1>5, <1>6
<1>. QED  BY <1>5, <1>7, <1>10, <1>11

LEMMA UseDevnullGrows ==
    ASSUME FdsAssumption, FdsInv, pc \in Opening, NEW h \in FdNames \ {"devnull"}, UseDevnull(h)
    PROVE  /\ \E N : GrowsBy2(N)
           /\ fd' \in [FdNames -> {-1} \cup Fds]
           /\ fd'["devnull"] \in Fds /\ file'[fd'["devnull"]] = "null"
           /\ fd'[h] = fd'["devnull"]
           /\ \A g \in FdNames \ {"devnull", h} : fd'[g] = fd[g]
<1>. DEFINE n == IF fd.devnull # -1 THEN fd.devnull ELSE LowestFree(0)
            top == CallerMax + Taken
<1>1. /\ top \in Nat /\ file[top + 1] = Free /\ top + 2 \in Fds /\ MaxFd \in Nat /\ top + 2 <= MaxFd
      BY RoomForTwo DEF Fds, FdsAssumption
<1>2. pc \in Parent /\ pc \in Child /\ pc \in Before0 /\ pc # "exec"
      BY DEF Opening, Parent, Child, Before0, Before1, Before2
<1>3. DOMAIN file = Fds /\ fd \in [FdNames -> {-1} \cup Fds] /\ "devnull" \in FdNames
      BY DEF FdsInv, TableInv, FdNames
<1>. HIDE DEF top
<1>4. fd.devnull # -1 => n \in Fds /\ file[n] = "null" /\ n \in cloexec
  <2>. SUFFICES ASSUME fd.devnull # -1  PROVE n \in Fds /\ file[n] = "null" /\ n \in cloexec
       OBVIOUS
  <2>1. n \in Fds /\ file[n] = "null"  BY <1>2 DEF FdsInv, NamesInv, Names
  <2>2. Placed = {}  BY <1>2, NothingPlaced
  <2>3. n \notin caller  BY <1>2, <2>1, <2>2, CallerFiles DEF FdsInv, CallerInv, Words, Free
  <2>. QED  BY <1>2, <2>1, <2>2, <2>3 DEF FdsInv, OursInv, Free
<1>5. fd.devnull = -1 => n \in 0..(top + 1) /\ n \in Fds /\ file[n] = Free
  <2>1. top + 1 \in 0..MaxFd  BY <1>1
  <2>2. LowestFree(0) \in 0..(top + 1) /\ file[LowestFree(0)] = Free
        BY <1>1, <2>1, LowestFreeIsFree
  <2>. QED  BY <1>1, <2>2 DEF Fds
<1>6. /\ file' = [file EXCEPT ![n] = "null"] /\ cloexec' = cloexec \cup {n}
      /\ fd' = [fd EXCEPT !.devnull = n, ![h] = n]
      BY DEF UseDevnull
<1>. HIDE DEF n
<1>7. n \in Fds  BY <1>4, <1>5, <1>3
<1>8. /\ fd' \in [FdNames -> {-1} \cup Fds] /\ fd'["devnull"] = n /\ fd'[h] = n
      /\ \A g \in FdNames \ {"devnull", h} : fd'[g] = fd[g]
      BY <1>3, <1>6, <1>7
<1>9. file'[n] = "null" /\ DOMAIN file' = Fds /\ \A m \in Fds \ {n} : file'[m] = file[m]
      BY <1>3, <1>6, <1>7
<1>10. \E N : GrowsBy2(N)
  <2>1. CASE fd.devnull # -1
    <3>1. Grows({})  BY <1>4, <1>6, <1>9, <2>1 DEF Grows
    <3>. QED  BY <3>1 DEF GrowsBy2
  <2>2. CASE fd.devnull = -1
    <3>1. Grows({n})  BY <1>5, <1>6, <1>7, <1>9, <2>2 DEF Grows, Free
    <3>2. n <= top + 2  BY <1>1, <1>5, <2>2
    <3>. QED  BY <3>1, <3>2 DEF GrowsBy2, top
  <2>. QED  BY <2>1, <2>2
<1>. QED  BY <1>7, <1>8, <1>9, <1>10

\* What one stream's step does, whatever it was given: h stands for a number with the file that
\* was wanted, or for none, and nothing that was in use changes.
Got(h, p, d, f, pFile) ==
    /\ \E N : GrowsBy2(N)
    /\ fd' \in [FdNames -> {-1} \cup Fds]
    /\ fd'[h] = -1 <=> d = "none"
    /\ fd'[h] # -1 => fd'[h] \in Fds /\ file'[fd'[h]] = f
    /\ fd'[p] # -1 => fd'[p] \in Fds /\ file'[fd'[p]] = pFile
    /\ fd'["devnull"] # -1 => fd'["devnull"] \in Fds /\ file'[fd'["devnull"]] = "null"
    /\ \A g \in FdNames \ {"devnull", h, p} : fd'[g] = fd[g]

LEMMA NothingNew ==
    ASSUME FdsInv, UNCHANGED <<file, cloexec>>
    PROVE  \E N : GrowsBy2(N)
<1>1. GrowsBy2({})  BY DEF GrowsBy2, Grows, FdsInv, TableInv
<1>. QED  BY <1>1

LEMMA StreamGot ==
    ASSUME FdsAssumption, FdsInv, pc \in Opening,
           NEW h \in FdNames \ {"devnull"}, NEW p \in FdNames \ {"devnull", h},
           NEW d, d \in DeviceChoices, NEW end, NEW pEnd, end # Free, pEnd # Free,
           fd[h] = -1, Names(p, pEnd),
           \/ d = "none" /\ UNCHANGED <<file, cloexec, fd>>
           \/ d = "PIPE" /\ (MakePipe(h, p, end, pEnd) \/ MakePipe(p, h, pEnd, end))
           \/ d = "DEVNULL" /\ UseDevnull(h)
           \/ \E n \in caller : /\ d = CallerFile[n]
                                /\ fd' = [fd EXCEPT ![h] = n]
                                /\ UNCHANGED <<file, cloexec>>
    PROVE  Got(h, p, d, Wanted(d, end), pEnd)
<1>1. /\ pc \in Parent /\ pc \in Child /\ pc \in Before0 /\ pc # "exec"
      BY DEF Opening, Parent, Child, Before0, Before1, Before2
<1>2. DOMAIN file = Fds /\ fd \in [FdNames -> {-1} \cup Fds] /\ "devnull" \in FdNames
      BY DEF FdsInv, TableInv, FdNames
<1>3. fd["devnull"] # -1 => fd["devnull"] \in Fds /\ file[fd["devnull"]] = "null"
      BY <1>1 DEF FdsInv, NamesInv, Names
<1>4. -1 \notin Fds  BY DEF Fds
<1>5. CASE d = "none" /\ UNCHANGED <<file, cloexec, fd>>
      BY <1>2, <1>3, <1>5, NothingNew DEF Got, Names
<1>6. CASE d = "PIPE" /\ (MakePipe(h, p, end, pEnd) \/ MakePipe(p, h, pEnd, end))
  <2>1. /\ \E N : GrowsBy2(N)
        /\ fd' \in [FdNames -> {-1} \cup Fds]
        /\ fd'[h] \in Fds /\ file'[fd'[h]] = end /\ fd'[p] \in Fds /\ file'[fd'[p]] = pEnd
        /\ \A g \in FdNames \ {h, p} : fd'[g] = fd[g]
    <3>1. CASE MakePipe(h, p, end, pEnd)  BY <3>1, MakePipeGrows
    <3>2. CASE MakePipe(p, h, pEnd, end)  BY <3>2, MakePipeGrows
    <3>. QED  BY <1>6, <3>1, <3>2
  <2>2. PICK N : Grows(N)  BY <2>1 DEF GrowsBy2
  <2>3. fd'["devnull"] = fd["devnull"]  BY <1>2, <2>1
  <2>4. fd'["devnull"] # -1 => fd'["devnull"] \in Fds /\ file'[fd'["devnull"]] = "null"
        BY <1>3, <2>2, <2>3, NamesStay DEF Names, Free
  <2>. QED  BY <1>4, <1>6, <2>1, <2>4 DEF Got, Wanted
<1>7. CASE d = "DEVNULL" /\ UseDevnull(h)
  <2>1. /\ \E N : GrowsBy2(N)
        /\ fd' \in [FdNames -> {-1} \cup Fds]
        /\ fd'["devnull"] \in Fds /\ file'[fd'["devnull"]] = "null"
        /\ fd'[h] = fd'["devnull"]
        /\ \A g \in FdNames \ {"devnull", h} : fd'[g] = fd[g]
        BY <1>7, UseDevnullGrows
  <2>2. PICK N : Grows(N)  BY <2>1 DEF GrowsBy2
  <2>3. fd'[p] # -1 => fd'[p] \in Fds /\ file'[fd'[p]] = pEnd
        BY <2>1, <2>2, NamesStay
  <2>. QED  BY <1>4, <1>7, <2>1, <2>3 DEF Got, Wanted
<1>8. ASSUME NEW n \in caller, d = CallerFile[n], fd' = [fd EXCEPT ![h] = n],
             UNCHANGED <<file, cloexec>>
      PROVE  Got(h, p, d, Wanted(d, end), pEnd)
  <2>1. n \in Fds /\ d \notin Words
        BY <1>8, CallerFiles DEF FdsInv, Settings, Fds, FdsAssumption
  <2>2. file[n] = CallerFile[n]
    <3>1. Placed = {}  BY <1>1, NothingPlaced
    <3>. QED  BY <1>1, <3>1 DEF FdsInv, CallerInv
  <2>3. Wanted(d, end) = d /\ d # "none"  BY <2>1 DEF Wanted, Words
  <2>4. fd' \in [FdNames -> {-1} \cup Fds] /\ fd'[h] = n
        /\ \A g \in FdNames \ {h} : fd'[g] = fd[g]
        BY <1>2, <1>8, <2>1
  <2>. QED  BY <1>2, <1>3, <1>4, <1>8, <2>1, <2>2, <2>3, <2>4, NothingNew DEF Got, Names
<1>. QED  BY <1>5, <1>6, <1>7, <1>8

LEMMA StreamKeeps ==
    ASSUME FdsAssumption, FdsInv, UNCHANGED settings, pc \in Opening,
           pc' \in Opening \cup {"raise"}, Taken' = Taken + 2,
           NEW N, GrowsBy2(N), fd' \in [FdNames -> {-1} \cup Fds]
    PROVE  /\ Settings' /\ TableInv' /\ PlacedInv' /\ MovedInv' /\ CallerInv' /\ OursInv' /\ UsedInv'
<1>1. /\ pc \in Parent /\ pc \in Before0 /\ pc' \in Parent /\ pc' \in Before0 /\ pc' \in Child
      /\ pc' \notin {"moveStderr", "dup0", "dup1", "dup2", "fork"}
      BY DEF Opening, Parent, Child, Before0, Before1, Before2
<1>2. Grows(N)  BY DEF GrowsBy2
<1>3. /\ Settings' /\ CallerInv' /\ OursInv' /\ PlacedInv'
      /\ DOMAIN file' = Fds /\ cloexec' \subseteq {n \in Fds : file'[n] # Free}
      BY <1>1, <1>2, GrowsKeeps
<1>4. TableInv'  BY <1>1, <1>3 DEF TableInv
<1>5. MovedInv'  BY <1>1 DEF MovedInv
<1>6. UsedInv'
  <2>. SUFFICES ASSUME NEW n \in Fds, n > CallerMax + Taken'  PROVE file'[n] = Free
       BY DEF UsedInv
  <2>1. Taken \in 0..6 /\ file[n] = Free  BY RoomForTwo DEF Fds, FdsAssumption
  <2>2. n \notin N  BY <2>1 DEF GrowsBy2, Fds, FdsAssumption
  <2>. QED  BY <1>2, <2>1, <2>2 DEF Grows
<1>. QED  BY <1>3, <1>4, <1>5, <1>6

\* Nothing is to be shown of a program that does not run yet.
LEMMA NotRunning ==
    ASSUME pc' # "running", fd'["errpipe_write"] # -1 => file'[fd'["errpipe_write"]] = "pipeW"
    PROVE  RunningInv'
BY DEF RunningInv, StreamsAsAsked, NothingElseInherited, ErrpipeLastsToExec

GetStdin == GetHandle("stdin", dev.stdin, "p2cread",
                      MakePipe("p2cread", "p2cwrite", "inR", "inW"), "stdout")
GetStdout == GetHandle("stdout", dev.stdout, "c2pwrite",
                       MakePipe("c2pread", "c2pwrite", "outR", "outW"), "stderr")
GetStderr == GetHandle("stderr", dev.stderr, "errwrite",
                       MakePipe("errread", "errwrite", "errR", "errW"), "errpipe")

LEMMA StdinStep ==
    ASSUME FdsAssumption, FdsInv, GetStdin
    PROVE  FdsInv'
<1>1. pc = "stdin" /\ pc' = "stdout" /\ UNCHANGED settings  BY DEF GetStdin, GetHandle
<1>2. pc \in Opening /\ pc' \in Opening  BY <1>1 DEF Opening
<1>3. Settings /\ NamesInv /\ GivenInv  BY DEF FdsInv
<1>4. Got("p2cread", "p2cwrite", dev.stdin, StdinFile, "inW")
  <2>1. dev.stdin \in DeviceChoices /\ dev.stdin # "STDOUT"
        BY <1>3 DEF Settings, DeviceChoices, FdsAssumption, Words
  <2>2. fd["p2cread"] = -1 /\ Names("p2cwrite", "inW")
        BY <1>1, <1>3 DEF NamesInv, GivenInv, Parent
  <2>3. \/ dev.stdin = "none" /\ UNCHANGED <<file, cloexec, fd>>
        \/ dev.stdin = "PIPE" /\ MakePipe("p2cread", "p2cwrite", "inR", "inW")
        \/ dev.stdin = "DEVNULL" /\ UseDevnull("p2cread")
        \/ \E n \in caller : /\ dev.stdin = CallerFile[n]
                             /\ fd' = [fd EXCEPT !["p2cread"] = n]
                             /\ UNCHANGED <<file, cloexec>>
        BY <2>1 DEF GetStdin, GetHandle
  <2>4. "inR" # Free /\ "inW" # Free /\ "p2cread" \in FdNames \ {"devnull"}
        /\ "p2cwrite" \in FdNames \ {"devnull", "p2cread"}
        BY DEF Free, FdNames
  <2>5. Got("p2cread", "p2cwrite", dev.stdin, Wanted(dev.stdin, "inR"), "inW")
        BY <1>2, <2>1, <2>2, <2>3, <2>4, StreamGot
  <2>. QED  BY <2>5 DEF StdinFile
<1>5. PICK N : GrowsBy2(N)  BY <1>4 DEF Got
<1>6. /\ Settings' /\ TableInv' /\ PlacedInv' /\ MovedInv' /\ CallerInv' /\ OursInv' /\ UsedInv'
  <2>1. Taken' = Taken + 2  BY <1>1 DEF Taken
  <2>2. fd' \in [FdNames -> {-1} \cup Fds]  BY <1>4 DEF Got
  <2>. QED  BY <1>1, <1>2, <1>5, <2>1, <2>2, StreamKeeps
<1>7. \A g \in FdNames \ {"devnull", "p2cread", "p2cwrite"} : fd[g] = fd'[g]  BY <1>4 DEF Got
<1>8. GivenInv'
      BY <1>1, <1>3, <1>4, <1>7 DEF GivenInv, Got, FdNames, settings
<1>9. NamesInv'
  <2>1. Names("p2cread", StdinFile)' /\ Names("p2cwrite", "inW")' /\ Names("devnull", "null")'
        BY <1>1, <1>3, <1>4, SettingsStay DEF Got, Names
  <2>2. fd'["c2pwrite"] = -1 /\ fd'["errwrite"] = -1 /\ fd'["errpipe_write"] = -1
        BY <1>1, <1>8 DEF GivenInv
  <2>3. Names("c2pread", "outR")' /\ Names("errread", "errR")' /\ Names("errpipe_read", "pipeR")'
    <3>1. Grows(N)  BY <1>5 DEF GrowsBy2
    <3>2. Names("c2pread", "outR") /\ Names("errread", "errR") /\ Names("errpipe_read", "pipeR")
          BY <1>1, <1>3 DEF NamesInv, Parent
    <3>. QED  BY <1>7, <3>1, <3>2, NamesStay DEF FdNames, Free, Names
  <2>. QED  BY <2>1, <2>2, <2>3 DEF NamesInv, Names
<1>10. RunningInv'  BY <1>1, <1>8, NotRunning DEF GivenInv
<1>. QED  BY <1>6, <1>8, <1>9, <1>10 DEF FdsInv

\* A stream that has its number keeps it, and the file behind it, while others come into use.
LEMMA StdinNameStays ==
    ASSUME FdsAssumption, FdsInv, UNCHANGED settings, NEW N, Grows(N), pc \in Before0,
           fd'["p2cread"] = fd["p2cread"]
    PROVE  Names("p2cread", StdinFile)'
<1>1. Names("p2cread", StdinFile)  BY DEF FdsInv, NamesInv
<1>2. fd["p2cread"] # -1 => StdinFile # Free
      BY ChildEnds, CallerFiles DEF FdsInv, GivenInv, Words, Free
<1>3. StdinFile' = StdinFile  BY SettingsStay DEF FdsInv
<1>. QED  BY <1>1, <1>2, <1>3 DEF Names, Grows

LEMMA StdoutNameStays ==
    ASSUME FdsAssumption, FdsInv, UNCHANGED settings, NEW N, Grows(N), pc \in Before0,
           fd'["c2pwrite"] = fd["c2pwrite"]
    PROVE  Names("c2pwrite", StdoutFile)'
<1>1. Names("c2pwrite", StdoutFile)  BY DEF FdsInv, NamesInv, Before1
<1>2. fd["c2pwrite"] # -1 => StdoutFile # Free
      BY ChildEnds, CallerFiles DEF FdsInv, GivenInv, Words, Free
<1>3. StdoutFile' = StdoutFile  BY SettingsStay DEF FdsInv
<1>. QED  BY <1>1, <1>2, <1>3 DEF Names, Grows

LEMMA StderrNameStays ==
    ASSUME FdsAssumption, FdsInv, UNCHANGED settings, NEW N, Grows(N), pc \in Before0,
           fd'["errwrite"] = fd["errwrite"]
    PROVE  Names("errwrite", StderrFile)'
<1>1. Names("errwrite", StderrFile)  BY DEF FdsInv, NamesInv, Before1, Before2
<1>2. fd["errwrite"] # -1 => StderrFile # Free
      BY ChildEnds, CallerFiles DEF FdsInv, GivenInv, Words, Free
<1>3. StderrFile' = StderrFile  BY SettingsStay DEF FdsInv
<1>. QED  BY <1>1, <1>2, <1>3 DEF Names, Grows

LEMMA OpeningIsEarly == ASSUME pc \in Opening PROVE pc \in Before0
BY DEF Opening, Before0, Parent

LEMMA StdoutStep ==
    ASSUME FdsAssumption, FdsInv, GetStdout
    PROVE  FdsInv'
<1>1. pc = "stdout" /\ pc' = "stderr" /\ UNCHANGED settings  BY DEF GetStdout, GetHandle
<1>2. pc \in Opening /\ pc' \in Opening  BY <1>1 DEF Opening
<1>3. Settings /\ NamesInv /\ GivenInv  BY DEF FdsInv
<1>4. Got("c2pwrite", "c2pread", dev.stdout, StdoutFile, "outR")
  <2>1. dev.stdout \in DeviceChoices /\ dev.stdout # "STDOUT"
        BY <1>3 DEF Settings, DeviceChoices, FdsAssumption, Words
  <2>2. fd["c2pwrite"] = -1 /\ Names("c2pread", "outR")
        BY <1>1, <1>3 DEF NamesInv, GivenInv, Parent
  <2>3. \/ dev.stdout = "none" /\ UNCHANGED <<file, cloexec, fd>>
        \/ dev.stdout = "PIPE" /\ MakePipe("c2pread", "c2pwrite", "outR", "outW")
        \/ dev.stdout = "DEVNULL" /\ UseDevnull("c2pwrite")
        \/ \E n \in caller : /\ dev.stdout = CallerFile[n]
                             /\ fd' = [fd EXCEPT !["c2pwrite"] = n]
                             /\ UNCHANGED <<file, cloexec>>
        BY <2>1 DEF GetStdout, GetHandle
  <2>4. "outR" # Free /\ "outW" # Free /\ "c2pwrite" \in FdNames \ {"devnull"}
        /\ "c2pread" \in FdNames \ {"devnull", "c2pwrite"}
        BY DEF Free, FdNames
  <2>5. Got("c2pwrite", "c2pread", dev.stdout, Wanted(dev.stdout, "outW"), "outR")
        BY <1>2, <2>1, <2>2, <2>3, <2>4, StreamGot
  <2>. QED  BY <2>5 DEF StdoutFile
<1>5. PICK N : GrowsBy2(N)  BY <1>4 DEF Got
<1>6. /\ Settings' /\ TableInv' /\ PlacedInv' /\ MovedInv' /\ CallerInv' /\ OursInv' /\ UsedInv'
  <2>1. Taken' = Taken + 2  BY <1>1 DEF Taken
  <2>2. fd' \in [FdNames -> {-1} \cup Fds]  BY <1>4 DEF Got
  <2>. QED  BY <1>1, <1>2, <1>5, <2>1, <2>2, StreamKeeps
<1>7. \A g \in FdNames \ {"devnull", "c2pwrite", "c2pread"} : fd[g] = fd'[g]  BY <1>4 DEF Got
<1>8. GivenInv'
      BY <1>1, <1>3, <1>4, <1>7 DEF GivenInv, Got, FdNames, settings
<1>9. NamesInv'
  <2>1. Names("c2pwrite", StdoutFile)' /\ Names("c2pread", "outR")' /\ Names("devnull", "null")'
        BY <1>1, <1>3, <1>4, SettingsStay DEF Got, Names
  <2>2. fd'["errwrite"] = -1 /\ fd'["errpipe_write"] = -1
        BY <1>1, <1>8 DEF GivenInv
  <2>3. Names("p2cwrite", "inW")' /\ Names("errread", "errR")' /\ Names("errpipe_read", "pipeR")'
    <3>1. Grows(N)  BY <1>5 DEF GrowsBy2
    <3>2. Names("p2cwrite", "inW") /\ Names("errread", "errR") /\ Names("errpipe_read", "pipeR")
          BY <1>1, <1>3 DEF NamesInv, Parent
    <3>. QED  BY <1>7, <3>1, <3>2, NamesStay DEF FdNames, Free, Names
  <2>4. Names("p2cread", StdinFile)'  BY <1>1, <1>2, <1>3, <1>5, <1>7, StdinNameStays, OpeningIsEarly DEF GrowsBy2, FdNames
  <2>. QED  BY <2>1, <2>2, <2>3, <2>4 DEF NamesInv, Names
<1>10. RunningInv'  BY <1>1, <1>8, NotRunning DEF GivenInv
<1>. QED  BY <1>6, <1>8, <1>9, <1>10 DEF FdsInv

LEMMA StderrStep ==
    ASSUME FdsAssumption, FdsInv, GetStderr
    PROVE  FdsInv'
<1>1. pc = "stderr" /\ pc' = "errpipe" /\ UNCHANGED settings  BY DEF GetStderr, GetHandle
<1>2. pc \in Opening /\ pc' \in Opening  BY <1>1 DEF Opening
<1>3. Settings /\ NamesInv /\ GivenInv  BY DEF FdsInv
<1>4. Got("errwrite", "errread", dev.stderr, StderrFile, "errR")
  <2>1. fd["errwrite"] = -1 /\ Names("errread", "errR")
        BY <1>1, <1>3 DEF NamesInv, GivenInv, Parent
  <2>2. CASE dev.stderr # "STDOUT"
    <3>1. dev.stderr \in DeviceChoices  BY <1>3, <2>2 DEF Settings
    <3>2. \/ dev.stderr = "none" /\ UNCHANGED <<file, cloexec, fd>>
          \/ dev.stderr = "PIPE" /\ MakePipe("errread", "errwrite", "errR", "errW")
          \/ dev.stderr = "DEVNULL" /\ UseDevnull("errwrite")
          \/ \E n \in caller : /\ dev.stderr = CallerFile[n]
                               /\ fd' = [fd EXCEPT !["errwrite"] = n]
                               /\ UNCHANGED <<file, cloexec>>
          BY <2>2 DEF GetStderr, GetHandle
    <3>3. "errR" # Free /\ "errW" # Free /\ "errwrite" \in FdNames \ {"devnull"}
          /\ "errread" \in FdNames \ {"devnull", "errwrite"}
          BY DEF Free, FdNames
    <3>4. Got("errwrite", "errread", dev.stderr, Wanted(dev.stderr, "errW"), "errR")
          BY <1>2, <2>1, <3>1, <3>2, <3>3, StreamGot
    <3>. QED  BY <2>2, <3>4 DEF StderrFile
  <2>3. CASE dev.stderr = "STDOUT"
    <3>. DEFINE n == IF fd.c2pwrite # -1 THEN fd.c2pwrite ELSE 1
    <3>1. fd' = [fd EXCEPT !["errwrite"] = n] /\ UNCHANGED <<file, cloexec>>
      <4>1. \A i \in caller : dev.stderr # CallerFile[i]
            BY <1>3, <2>3, CallerFiles DEF Words
      <4>. QED  BY <2>3, <4>1 DEF GetStderr, GetHandle
    <3>2. n \in Fds /\ file[n] = StderrFile
      <4>1. CASE dev.stdout # "none"
        <5>1. fd.c2pwrite # -1  BY <1>1, <1>3, <4>1 DEF GivenInv
        <5>2. fd.c2pwrite \in Fds /\ file[fd.c2pwrite] = StdoutFile
              BY <1>1, <1>3, <5>1 DEF NamesInv, Names, Before1, Before0, Parent
        <5>. QED  BY <2>3, <4>1, <5>1, <5>2 DEF StderrFile
      <4>2. CASE dev.stdout = "none"
        <5>1. fd.c2pwrite = -1 /\ 1 \in caller  BY <1>3, <2>3, <4>2 DEF GivenInv, Settings
        <5>2. Placed = {} /\ pc \in Child /\ pc # "exec"
              BY <1>1, NothingPlaced DEF Before0, Before1, Before2, Parent, Child
        <5>3. file[1] = CallerFile[1]  BY <5>1, <5>2 DEF FdsInv, CallerInv
        <5>4. 1 \in Fds  BY <1>3, <5>1 DEF Settings, Fds, FdsAssumption
        <5>. QED  BY <2>3, <4>2, <5>1, <5>3, <5>4 DEF StderrFile
      <4>. QED  BY <4>1, <4>2
    <3>. HIDE DEF n
    <3>3. fd \in [FdNames -> {-1} \cup Fds] /\ "errwrite" \in FdNames
          BY DEF FdsInv, TableInv, FdNames
    <3>4. /\ fd' \in [FdNames -> {-1} \cup Fds] /\ fd'["errwrite"] = n
          /\ \A g \in FdNames \ {"errwrite"} : fd'[g] = fd[g]
          BY <3>1, <3>2, <3>3
    <3>5. Names("devnull", "null")  BY <1>1, <1>3 DEF NamesInv, Parent
    <3>6. -1 \notin Fds /\ "errread" \in FdNames \ {"errwrite"} /\ "devnull" \in FdNames \ {"errwrite"}
          BY DEF Fds, FdNames
    <3>7. \E N : GrowsBy2(N)  BY <3>1, NothingNew
    <3>. QED  BY <2>1, <2>3, <3>1, <3>2, <3>4, <3>5, <3>6, <3>7 DEF Got, Names
  <2>. QED  BY <2>2, <2>3
<1>5. PICK N : GrowsBy2(N)  BY <1>4 DEF Got
<1>6. /\ Settings' /\ TableInv' /\ PlacedInv' /\ MovedInv' /\ CallerInv' /\ OursInv' /\ UsedInv'
  <2>1. Taken' = Taken + 2  BY <1>1 DEF Taken
  <2>2. fd' \in [FdNames -> {-1} \cup Fds]  BY <1>4 DEF Got
  <2>. QED  BY <1>1, <1>2, <1>5, <2>1, <2>2, StreamKeeps
<1>7. \A g \in FdNames \ {"devnull", "errwrite", "errread"} : fd[g] = fd'[g]  BY <1>4 DEF Got
<1>8. GivenInv'
      BY <1>1, <1>3, <1>4, <1>7 DEF GivenInv, Got, FdNames, settings
<1>9. NamesInv'
  <2>1. Names("errwrite", StderrFile)' /\ Names("errread", "errR")' /\ Names("devnull", "null")'
        BY <1>1, <1>3, <1>4, SettingsStay DEF Got, Names
  <2>2. fd'["errpipe_write"] = -1  BY <1>1, <1>8 DEF GivenInv
  <2>3. Names("p2cwrite", "inW")' /\ Names("c2pread", "outR")' /\ Names("errpipe_read", "pipeR")'
    <3>1. Grows(N)  BY <1>5 DEF GrowsBy2
    <3>2. Names("p2cwrite", "inW") /\ Names("c2pread", "outR") /\ Names("errpipe_read", "pipeR")
          BY <1>1, <1>3 DEF NamesInv, Parent
    <3>. QED  BY <1>7, <3>1, <3>2, NamesStay DEF FdNames, Free, Names
  <2>4. Names("p2cread", StdinFile)'  BY <1>1, <1>2, <1>3, <1>5, <1>7, StdinNameStays, OpeningIsEarly DEF GrowsBy2, FdNames
  <2>5. Names("c2pwrite", StdoutFile)'  BY <1>1, <1>2, <1>3, <1>5, <1>7, StdoutNameStays, OpeningIsEarly DEF GrowsBy2, FdNames
  <2>. QED  BY <2>1, <2>2, <2>3, <2>4, <2>5 DEF NamesInv, Names
<1>10. RunningInv'  BY <1>1, <1>8, NotRunning DEF GivenInv
<1>. QED  BY <1>6, <1>8, <1>9, <1>10 DEF FdsInv

LEMMA OpenErrpipeStep ==
    ASSUME FdsAssumption, FdsInv, OpenErrpipe
    PROVE  FdsInv'
<1>1. /\ pc = "errpipe" /\ pc' = "raise" /\ UNCHANGED settings
      /\ MakePipe("errpipe_read", "errpipe_write", "pipeR", "pipeW")
      BY DEF OpenErrpipe
<1>2. pc \in Opening  BY <1>1 DEF Opening
<1>3. Settings /\ NamesInv /\ GivenInv  BY DEF FdsInv
<1>4. /\ \E N : GrowsBy2(N)
      /\ fd' \in [FdNames -> {-1} \cup Fds]
      /\ fd'["errpipe_read"] \in Fds /\ file'[fd'["errpipe_read"]] = "pipeR"
      /\ fd'["errpipe_write"] \in Fds /\ file'[fd'["errpipe_write"]] = "pipeW"
      /\ \A h \in FdNames \ {"errpipe_read", "errpipe_write"} : fd'[h] = fd[h]
  <2>1. "errpipe_read" \in FdNames /\ "errpipe_write" \in FdNames /\ "pipeR" # Free /\ "pipeW" # Free
        BY DEF FdNames, Free
  <2>. QED  BY <1>1, <1>2, <2>1, MakePipeGrows
<1>5. PICK N : GrowsBy2(N)  BY <1>4
<1>6. /\ Settings' /\ TableInv' /\ PlacedInv' /\ MovedInv' /\ CallerInv' /\ OursInv' /\ UsedInv'
  <2>1. Taken' = Taken + 2  BY <1>1 DEF Taken
  <2>. QED  BY <1>1, <1>2, <1>4, <1>5, <2>1, StreamKeeps
<1>7. GivenInv'
  <2>1. -1 \notin Fds  BY DEF Fds
  <2>. QED  BY <1>1, <1>3, <1>4, <2>1 DEF GivenInv, FdNames, settings
<1>8. NamesInv'
  <2>1. Grows(N)  BY <1>5 DEF GrowsBy2
  <2>2. /\ Names("p2cwrite", "inW") /\ Names("c2pread", "outR") /\ Names("errread", "errR")
        /\ Names("devnull", "null")
        BY <1>1, <1>3 DEF NamesInv, Parent
  <2>3. /\ Names("p2cwrite", "inW")' /\ Names("c2pread", "outR")' /\ Names("errread", "errR")'
        /\ Names("devnull", "null")'
        BY <1>4, <2>1, <2>2, NamesStay DEF FdNames, Free, Names
  <2>4. Names("p2cread", StdinFile)'  BY <1>1, <1>2, <1>3, <1>4, <2>1, StdinNameStays, OpeningIsEarly DEF FdNames
  <2>5. Names("c2pwrite", StdoutFile)'  BY <1>1, <1>2, <1>3, <1>4, <2>1, StdoutNameStays, OpeningIsEarly DEF FdNames
  <2>6. Names("errwrite", StderrFile)'  BY <1>1, <1>2, <1>3, <1>4, <2>1, StderrNameStays, OpeningIsEarly DEF FdNames
  <2>. QED  BY <1>4, <2>3, <2>4, <2>5, <2>6 DEF NamesInv, Names
<1>9. RunningInv'  BY <1>1, <1>4, NotRunning
<1>. QED  BY <1>6, <1>7, <1>8, <1>9 DEF FdsInv

LEMMA RaiseErrpipeStep ==
    ASSUME FdsAssumption, FdsInv, RaiseErrpipe
    PROVE  FdsInv'
<1>. DEFINE w == fd.errpipe_write
<1>1. pc = "raise" /\ pc' = "fork" /\ UNCHANGED settings  BY DEF RaiseErrpipe
<1>2. /\ pc \in Parent /\ pc \in Before0 /\ pc \in Before1 /\ pc \in Before2 /\ pc \in Child
      /\ pc' \in Parent /\ pc' \in Before0 /\ pc' \in Child /\ pc # "exec" /\ pc' # "exec"
      BY <1>1 DEF Parent, Child, Before0, Before1, Before2
<1>3. Settings /\ NamesInv /\ GivenInv /\ TableInv /\ UsedInv  BY DEF FdsInv
<1>4. Placed = {} /\ Placed' = {}  BY <1>2, NothingPlaced, NothingPlacedYet
<1>5. Settings' /\ StdinFile' = StdinFile /\ StdoutFile' = StdoutFile /\ StderrFile' = StderrFile
      BY <1>1, <1>3, SettingsStay
<1>6. w \in Fds /\ file[w] = "pipeW"  BY <1>1, <1>2, <1>3 DEF GivenInv, NamesInv, Names
<1>7. \A i \in caller : i \in Fds /\ file[i] = CallerFile[i] /\ file[i] # "pipeW" /\ file[i] # Free
      BY <1>2, <1>3, <1>4, CallerFiles DEF FdsInv, CallerInv, Settings, Words, Fds, FdsAssumption, Free
<1>8. MovedInv' /\ PlacedInv'  BY <1>1, <1>4 DEF MovedInv, PlacedInv
<1>9. \A n \in Fds : n > CallerMax + 8 => file[n] = Free
  <2>1. Taken = 8 /\ pc \in Before0 \ {"dup0"} /\ pc # "moveStderr"  BY <1>1, <1>2 DEF Taken
  <2>. QED  BY <1>3, <2>1 DEF UsedInv
<1>10. UNCHANGED <<caller, cloexecOf, passFds, closeFds, dev>>  BY <1>1 DEF settings
<1>11. CASE w >= 3
  <2>1. UNCHANGED <<file, cloexec, fd>>  BY <1>11 DEF RaiseErrpipe
  <2>2. GivenInv'  BY <1>1, <1>3, <1>6, <1>10, <1>11, <2>1 DEF GivenInv, Fds
  <2>3. NamesInv'  BY <1>2, <1>3, <1>5, <2>1 DEF NamesInv, Names
  <2>4. CallerInv'  BY <1>2, <1>4, <1>10, <2>1 DEF FdsInv, CallerInv
  <2>5. OursInv'  BY <1>2, <1>4, <1>10, <2>1 DEF FdsInv, OursInv
  <2>6. TableInv'  BY <1>2, <1>3, <2>1 DEF TableInv
  <2>7. UsedInv'
    <3>1. Taken' = 9  BY <1>1 DEF Taken
    <3>. QED  BY <1>9, <2>1, <3>1 DEF UsedInv, Fds, FdsAssumption
  <2>8. RunningInv'  BY <1>1, <1>6, <2>1, NotRunning
  <2>. QED  BY <1>5, <1>8, <2>2, <2>3, <2>4, <2>5, <2>6, <2>7, <2>8 DEF FdsInv
<1>12. CASE ~(w >= 3)
  <2>. DEFINE n == LowestFree(3)
  <2>1. n \in 3..(CallerMax + 9) /\ file[n] = Free
    <3>1. CallerMax + 9 \in 3..MaxFd /\ CallerMax + 9 \in Fds /\ CallerMax + 9 > CallerMax + 8
          BY DEF Fds, FdsAssumption
    <3>. QED  BY <1>9, <3>1, LowestFreeIsFree
  <2>2. /\ file' = [file EXCEPT ![w] = Free, ![n] = "pipeW"]
        /\ cloexec' = (cloexec \ {w}) \cup {n}
        /\ fd' = [fd EXCEPT !.errpipe_write = n]
        BY <1>12 DEF RaiseErrpipe
  <2>. HIDE DEF n
  <2>3. n \in Fds /\ n # w /\ n \in 3..MaxFd  BY <1>6, <2>1 DEF Fds, FdsAssumption, Free
  <2>. HIDE DEF w
  <2>4. /\ file'[w] = Free /\ file'[n] = "pipeW" /\ DOMAIN file' = Fds
        /\ \A m \in Fds \ {w, n} : file'[m] = file[m]
        BY <1>3, <1>6, <2>2, <2>3 DEF TableInv
  <2>5. /\ fd' \in [FdNames -> {-1} \cup Fds] /\ fd'["errpipe_write"] = n
        /\ \A h \in FdNames \ {"errpipe_write"} : fd'[h] = fd[h]
        BY <1>3, <2>2, <2>3 DEF TableInv, FdNames
  <2>6. ASSUME NEW h \in FdNames \ {"errpipe_write"}, NEW f, f # Free, f # "pipeW", Names(h, f)
        PROVE  Names(h, f)'
        BY <1>6, <2>1, <2>4, <2>5, <2>6 DEF Names
  <2>7. GivenInv'
        BY <1>1, <1>3, <1>10, <2>3, <2>5 DEF GivenInv, FdNames
  <2>8. NamesInv'
    <3>1. /\ Names("p2cwrite", "inW")' /\ Names("c2pread", "outR")' /\ Names("errread", "errR")'
          /\ Names("errpipe_read", "pipeR")' /\ Names("devnull", "null")'
          BY <1>2, <1>3, <2>6 DEF NamesInv, FdNames, Free
    <3>2. /\ fd["p2cread"] # -1 => StdinFile # Free /\ StdinFile # "pipeW"
          /\ fd["c2pwrite"] # -1 => StdoutFile # Free /\ StdoutFile # "pipeW"
          /\ fd["errwrite"] # -1 => StderrFile # Free /\ StderrFile # "pipeW"
          BY <1>3, ChildEnds, CallerFiles DEF GivenInv, Words, Free
    <3>3. /\ Names("p2cread", StdinFile) /\ Names("c2pwrite", StdoutFile)
          /\ Names("errwrite", StderrFile)
          BY <1>2, <1>3 DEF NamesInv
    <3>4. Names("p2cread", StdinFile)'
          BY <1>5, <1>6, <2>1, <2>4, <2>5, <3>2, <3>3 DEF Names, FdNames
    <3>5. Names("c2pwrite", StdoutFile)'
          BY <1>5, <1>6, <2>1, <2>4, <2>5, <3>2, <3>3 DEF Names, FdNames
    <3>6. Names("errwrite", StderrFile)'
          BY <1>5, <1>6, <2>1, <2>4, <2>5, <3>2, <3>3 DEF Names, FdNames
    <3>7. Names("errpipe_write", "pipeW")'  BY <2>3, <2>4, <2>5 DEF Names
    <3>. QED  BY <3>1, <3>4, <3>5, <3>6, <3>7 DEF NamesInv
  <2>9. CallerInv'
    <3>. SUFFICES ASSUME NEW i \in caller
                  PROVE  file'[i] = CallerFile[i] /\ (i \in cloexec' <=> cloexecOf)
         BY <1>2, <1>4, <1>10 DEF CallerInv
    <3>1. i # w /\ i # n  BY <1>6, <1>7, <2>1
    <3>2. i \in cloexec <=> cloexecOf  BY <1>2, <1>4 DEF FdsInv, CallerInv
    <3>. QED  BY <1>7, <2>2, <2>4, <3>1, <3>2
  <2>10. OursInv'
    <3>. SUFFICES ASSUME NEW i \in Fds \ caller, file'[i] # Free  PROVE i \in cloexec'
         BY <1>4, <1>10 DEF OursInv
    <3>1. file[i] # Free => i \in cloexec  BY <1>2, <1>4 DEF FdsInv, OursInv
    <3>. QED  BY <2>2, <2>4, <3>1
  <2>11. TableInv'
    <3>1. cloexec' \subseteq {m \in Fds : file'[m] # Free}
          BY <1>3, <2>2, <2>3, <2>4 DEF TableInv, Free
    <3>. QED  BY <1>2, <2>4, <2>5, <3>1 DEF TableInv
  <2>12. UsedInv'
    <3>1. Taken' = 9  BY <1>1 DEF Taken
    <3>. SUFFICES ASSUME NEW m \in Fds, m > CallerMax + 9  PROVE file'[m] = Free
         BY <3>1 DEF UsedInv
    <3>2. file[m] = Free /\ m # n /\ m # w  BY <1>9, <1>6, <2>1 DEF Fds, FdsAssumption, Free
    <3>. QED  BY <2>4, <3>2
  <2>13. RunningInv'  BY <1>1, <2>3, <2>4, <2>5, NotRunning
  <2>. QED  BY <1>5, <1>8, <2>7, <2>8, <2>9, <2>10, <2>11, <2>12, <2>13 DEF FdsInv
<1>. QED  BY <1>11, <1>12

-----------------------------------------------------------------------------
(* The child. *)

LEMMA KeepPassedStep ==
    ASSUME FdsAssumption, FdsInv, KeepPassed
    PROVE  FdsInv'
<1>1. /\ pc = "fork" /\ pc' = "closeParentEnds" /\ UNCHANGED <<settings, file, fd>>
      /\ cloexec' = cloexec \ (passFds \ {fd.errpipe_write})
      BY DEF KeepPassed
<1>2. /\ pc \in Parent /\ pc \in Before0 /\ pc \in Before1 /\ pc \in Before2 /\ pc \in Child
      /\ pc' \in Before0 /\ pc' \notin Parent /\ pc' \in Child /\ pc # "exec" /\ pc' # "exec"
      BY <1>1 DEF Parent, Child, Before0, Before1, Before2
<1>3. Settings /\ NamesInv /\ GivenInv /\ TableInv /\ UsedInv  BY DEF FdsInv
<1>4. Placed = {} /\ Placed' = {}  BY <1>2, NothingPlaced, NothingPlacedYet
<1>5. Settings' /\ StdinFile' = StdinFile /\ StdoutFile' = StdoutFile /\ StderrFile' = StderrFile
      BY <1>1, <1>3, SettingsStay
<1>6. UNCHANGED <<caller, cloexecOf, passFds, closeFds, dev>>  BY <1>1 DEF settings
<1>7. fd.errpipe_write \notin caller /\ fd["errpipe_write"] # -1
      /\ file[fd["errpipe_write"]] = "pipeW"
  <2>1. fd.errpipe_write # -1 /\ file[fd.errpipe_write] = "pipeW"
        BY <1>1, <1>2, <1>3 DEF GivenInv, NamesInv, Names
  <2>2. \A i \in caller : file[i] # "pipeW"
        BY <1>2, <1>3, <1>4, CallerFiles DEF FdsInv, CallerInv, Words
  <2>. QED  BY <2>1, <2>2
<1>8. cloexec' = cloexec \ passFds  BY <1>1, <1>3, <1>7 DEF Settings
<1>9. CallerInv'  BY <1>1, <1>2, <1>4, <1>6, <1>8 DEF FdsInv, CallerInv
<1>10. OursInv'  BY <1>1, <1>2, <1>3, <1>4, <1>6, <1>8 DEF FdsInv, OursInv, Settings
<1>11. NamesInv' /\ GivenInv'
  <2>1. NamesInv'  BY <1>1, <1>2, <1>3, <1>5 DEF NamesInv, Names
  <2>2. GivenInv'  BY <1>1, <1>3, <1>6 DEF GivenInv
  <2>. QED  BY <2>1, <2>2
<1>12. MovedInv' /\ PlacedInv' /\ TableInv'
       BY <1>1, <1>2, <1>3, <1>4 DEF MovedInv, PlacedInv, TableInv
<1>13. UsedInv'
  <2>1. Taken = 9 /\ Taken' = 9 /\ pc \in Before0 \ {"dup0"} /\ pc # "moveStderr"
        BY <1>1, <1>2 DEF Taken
  <2>. QED  BY <1>1, <1>3, <2>1 DEF UsedInv
<1>14. RunningInv'  BY <1>1, <1>7, NotRunning
<1>. QED  BY <1>5, <1>9, <1>10, <1>11, <1>12, <1>13, <1>14 DEF FdsInv

LEMMA CloseParentEndsStep ==
    ASSUME FdsAssumption, FdsInv, CloseParentEnds
    PROVE  FdsInv'
<1>. DEFINE ends == {fd.p2cwrite, fd.c2pread, fd.errread, fd.errpipe_read}
<1>1. /\ pc = "closeParentEnds" /\ pc' = "moveStdout" /\ UNCHANGED <<settings, fd>>
      /\ file' = [n \in Fds |-> IF n \in ends THEN Free ELSE file[n]]
      /\ cloexec' = cloexec \ ends
      BY DEF CloseParentEnds
<1>2. /\ pc \notin Parent /\ pc \in Before0 /\ pc \in Before1 /\ pc \in Before2 /\ pc \in Child
      /\ pc' \in Before0 /\ pc' \notin Parent /\ pc' \in Child /\ pc # "exec" /\ pc' # "exec"
      BY <1>1 DEF Parent, Child, Before0, Before1, Before2
<1>3. Settings /\ NamesInv /\ GivenInv /\ TableInv /\ UsedInv  BY DEF FdsInv
<1>4. Placed = {} /\ Placed' = {}  BY <1>2, NothingPlaced, NothingPlacedYet
<1>5. Settings' /\ StdinFile' = StdinFile /\ StdoutFile' = StdoutFile /\ StderrFile' = StderrFile
      BY <1>1, <1>3, SettingsStay
<1>6. UNCHANGED <<caller, cloexecOf, passFds, closeFds, dev>>  BY <1>1 DEF settings
<1>7. \A n \in ends \cap Fds : file[n] \in {"inW", "outR", "errR", "pipeR"}
  <2>1. -1 \notin Fds  BY DEF Fds
  <2>. QED  BY <1>1, <1>3, <2>1 DEF NamesInv, Names
<1>. HIDE DEF ends
<1>8. \A i \in caller : i \in Fds /\ file[i] = CallerFile[i] /\ i \notin ends
  <2>1. \A i \in caller : i \in Fds /\ file[i] = CallerFile[i]
        BY <1>2, <1>3, <1>4 DEF FdsInv, CallerInv, Settings, Fds, FdsAssumption
  <2>. QED  BY <1>3, <1>7, <2>1, CallerFiles DEF Words
<1>9. CallerInv'
      BY <1>1, <1>2, <1>4, <1>6, <1>8 DEF FdsInv, CallerInv
<1>10. OursInv'
       BY <1>1, <1>2, <1>4, <1>6 DEF FdsInv, OursInv
<1>11. ASSUME NEW h, NEW f, Names(h, f), f \notin {"inW", "outR", "errR", "pipeR"}
       PROVE  fd'[h] # -1 => fd'[h] \in Fds /\ file'[fd'[h]] = f
       BY <1>1, <1>7, <1>11 DEF Names
<1>12. NamesInv'
  <2>1. /\ fd["p2cread"] # -1 => StdinFile \notin {"inW", "outR", "errR", "pipeR"}
        /\ fd["c2pwrite"] # -1 => StdoutFile \notin {"inW", "outR", "errR", "pipeR"}
        /\ fd["errwrite"] # -1 => StderrFile \notin {"inW", "outR", "errR", "pipeR"}
        BY <1>3, ChildEnds, CallerFiles DEF GivenInv, Words
  <2>2. /\ Names("p2cread", StdinFile) /\ Names("c2pwrite", StdoutFile)
        /\ Names("errwrite", StderrFile) /\ Names("errpipe_write", "pipeW")
        BY <1>2, <1>3 DEF NamesInv
  <2>3. Names("p2cread", StdinFile)'  BY <1>1, <1>5, <1>11, <2>1, <2>2 DEF Names
  <2>4. Names("c2pwrite", StdoutFile)'  BY <1>1, <1>5, <1>11, <2>1, <2>2 DEF Names
  <2>5. Names("errwrite", StderrFile)'  BY <1>1, <1>5, <1>11, <2>1, <2>2 DEF Names
  <2>6. Names("errpipe_write", "pipeW")'  BY <1>11, <2>2 DEF Names
  <2>. QED  BY <1>1, <1>2, <2>3, <2>4, <2>5, <2>6 DEF NamesInv
<1>13. GivenInv' /\ MovedInv' /\ PlacedInv'
       BY <1>1, <1>3, <1>4, <1>6 DEF GivenInv, MovedInv, PlacedInv
<1>14. TableInv'
  <2>1. cloexec' \subseteq {n \in Fds : file'[n] # Free}  BY <1>1, <1>3 DEF TableInv
  <2>. QED  BY <1>1, <1>2, <1>3, <2>1 DEF TableInv
<1>15. UsedInv'
  <2>1. Taken = 9 /\ Taken' = 9 /\ pc \in Before0 \ {"dup0"} /\ pc # "moveStderr"
        BY <1>1, <1>2 DEF Taken
  <2>. QED  BY <1>1, <1>3, <2>1 DEF UsedInv
<1>16. RunningInv'
  <2>1. Names("errpipe_write", "pipeW")'  BY <1>2, <1>12 DEF NamesInv
  <2>. QED  BY <1>1, <2>1, NotRunning DEF Names
<1>. QED  BY <1>5, <1>9, <1>10, <1>12, <1>13, <1>14, <1>15, <1>16 DEF FdsInv

\* A copy is on a number that was free, with the same file behind it.
LEMMA DupGrows ==
    ASSUME FdsAssumption, FdsInv, NEW h \in FdNames, Dup(h), fd[h] \in Fds, file[fd[h]] # Free,
           NEW top \in 9..10, \A n \in Fds : n > CallerMax + top => file[n] = Free
    PROVE  \E n \in Fds :
               /\ Grows({n}) /\ n <= CallerMax + top + 1
               /\ file[n] = Free /\ file'[n] = file[fd[h]] /\ fd'[h] = n
               /\ fd' \in [FdNames -> {-1} \cup Fds]
               /\ \A g \in FdNames \ {h} : fd'[g] = fd[g]
<1>. DEFINE n == LowestFree(0)
<1>1. n \in 0..(CallerMax + top + 1) /\ file[n] = Free
  <2>1. CallerMax + top + 1 \in 0..MaxFd /\ CallerMax + top + 1 \in Fds
        /\ CallerMax + top + 1 > CallerMax + top
        BY DEF Fds, FdsAssumption
  <2>. QED  BY <2>1, LowestFreeIsFree
<1>2. /\ file' = [file EXCEPT ![n] = file[fd[h]]] /\ cloexec' = cloexec \cup {n}
      /\ fd' = [fd EXCEPT ![h] = n]
      BY DEF Dup
<1>. HIDE DEF n
<1>3. n \in Fds  BY <1>1 DEF Fds, FdsAssumption
<1>4. DOMAIN file = Fds /\ fd \in [FdNames -> {-1} \cup Fds]  BY DEF FdsInv, TableInv
<1>5. file'[n] = file[fd[h]] /\ DOMAIN file' = Fds /\ \A m \in Fds \ {n} : file'[m] = file[m]
      BY <1>2, <1>3, <1>4
<1>6. Grows({n})  BY <1>1, <1>2, <1>3, <1>5 DEF Grows
<1>7. /\ fd' \in [FdNames -> {-1} \cup Fds] /\ fd'[h] = n
      /\ \A g \in FdNames \ {h} : fd'[g] = fd[g]
      BY <1>2, <1>3, <1>4
<1>8. n <= CallerMax + top + 1  BY <1>1 DEF FdsAssumption
<1>. QED  BY <1>1, <1>3, <1>5, <1>6, <1>7, <1>8

LEMMA MoveStdoutStep ==
    ASSUME FdsAssumption, FdsInv, MoveStdout
    PROVE  FdsInv'
<1>1. pc = "moveStdout" /\ pc' = "moveStderr" /\ UNCHANGED settings  BY DEF MoveStdout
<1>2. /\ pc \notin Parent /\ pc \in Before0 /\ pc \in Before1 /\ pc \in Before2 /\ pc \in Child
      /\ pc' \in Before0 /\ pc' \notin Parent /\ pc' \in Child
      BY <1>1 DEF Parent, Child, Before0, Before1, Before2
<1>3. Settings /\ NamesInv /\ GivenInv /\ TableInv /\ UsedInv  BY DEF FdsInv
<1>4. UNCHANGED <<caller, cloexecOf, passFds, closeFds, dev>>  BY <1>1 DEF settings
<1>5. \A n \in Fds : n > CallerMax + 9 => file[n] = Free
  <2>1. Taken = 9 /\ pc \in Before0 \ {"dup0"} /\ pc # "moveStderr"  BY <1>1, <1>2 DEF Taken
  <2>. QED  BY <1>3, <2>1 DEF UsedInv
<1>6. StdinFile' = StdinFile /\ StdoutFile' = StdoutFile /\ StderrFile' = StderrFile
      BY <1>1, <1>3, SettingsStay
<1>7. ASSUME NEW N, Grows(N), \A n \in N : n <= CallerMax + 10,
             fd' \in [FdNames -> {-1} \cup Fds],
             \A g \in FdNames \ {"c2pwrite"} : fd'[g] = fd[g],
             fd'["c2pwrite"] # 0, fd'["c2pwrite"] = -1 <=> fd["c2pwrite"] = -1,
             Names("c2pwrite", StdoutFile)'
      PROVE  FdsInv'
  <2>1. /\ Settings' /\ CallerInv' /\ OursInv' /\ PlacedInv'
        /\ DOMAIN file' = Fds /\ cloexec' \subseteq {n \in Fds : file'[n] # Free}
        BY <1>1, <1>2, <1>7, GrowsKeeps
  <2>2. TableInv'  BY <1>2, <1>7, <2>1 DEF TableInv
  <2>3. MovedInv'  BY <1>1, <1>7 DEF MovedInv
  <2>4. GivenInv'  BY <1>1, <1>3, <1>4, <1>7 DEF GivenInv, FdNames
  <2>5. UsedInv'
    <3>1. Taken' = 10  BY <1>1 DEF Taken
    <3>. SUFFICES ASSUME NEW n \in Fds, n > CallerMax + 10  PROVE file'[n] = Free
         BY <3>1 DEF UsedInv
    <3>2. file[n] = Free /\ n \notin N  BY <1>5, <1>7 DEF Fds, FdsAssumption
    <3>. QED  BY <1>7, <3>2 DEF Grows
  <2>6. Names("p2cread", StdinFile)' /\ Names("errwrite", StderrFile)'
        BY <1>1, <1>2, <1>7, StdinNameStays, StderrNameStays DEF FdNames
  <2>7. Names("errpipe_write", "pipeW")'
    <3>1. Names("errpipe_write", "pipeW")  BY <1>2, <1>3 DEF NamesInv
    <3>. QED  BY <1>7, <3>1, NamesStay DEF FdNames, Free, Names
  <2>8. NamesInv'  BY <1>1, <1>2, <1>7, <2>6, <2>7 DEF NamesInv
  <2>9. RunningInv'  BY <1>1, <2>7, NotRunning DEF Names
  <2>. QED  BY <2>1, <2>2, <2>3, <2>4, <2>5, <2>8, <2>9 DEF FdsInv
<1>8. fd["c2pwrite"] # -1 => fd["c2pwrite"] \in Fds /\ file[fd["c2pwrite"]] = StdoutFile
                             /\ StdoutFile # Free
  <2>1. fd["c2pwrite"] # -1 => StdoutFile # Free
        BY <1>3, ChildEnds, CallerFiles DEF GivenInv, Words, Free
  <2>. QED  BY <1>2, <1>3, <2>1 DEF NamesInv, Names
<1>9. CASE fd.c2pwrite = 0
  <2>1. Dup("c2pwrite")  BY <1>9 DEF MoveStdout
  <2>2. PICK n \in Fds :
            /\ Grows({n}) /\ n <= CallerMax + 9 + 1
            /\ file[n] = Free /\ file'[n] = file[fd["c2pwrite"]] /\ fd'["c2pwrite"] = n
            /\ fd' \in [FdNames -> {-1} \cup Fds]
            /\ \A g \in FdNames \ {"c2pwrite"} : fd'[g] = fd[g]
    <3>1. fd["c2pwrite"] # -1 /\ "c2pwrite" \in FdNames /\ 9 \in 9..10  BY <1>9 DEF FdNames
    <3>2. fd["c2pwrite"] \in Fds /\ file[fd["c2pwrite"]] # Free  BY <1>8, <3>1
    <3>. QED  BY <1>5, <2>1, <3>1, <3>2, DupGrows
  <2>3. n # 0 /\ n # -1  BY <1>8, <1>9, <2>2 DEF Fds
  <2>4. Names("c2pwrite", StdoutFile)'  BY <1>6, <1>8, <1>9, <2>2 DEF Names
  <2>5. n <= CallerMax + 10  BY <2>2 DEF Fds, FdsAssumption
  <2>. QED  BY <1>7, <1>9, <2>2, <2>3, <2>4, <2>5
<1>10. CASE fd.c2pwrite # 0
  <2>1. UNCHANGED <<file, cloexec, fd>>  BY <1>10 DEF MoveStdout
  <2>2. Grows({})  BY <1>3, <2>1 DEF Grows, TableInv
  <2>3. Names("c2pwrite", StdoutFile)'  BY <1>6, <1>8, <2>1 DEF Names
  <2>4. fd \in [FdNames -> {-1} \cup Fds]  BY <1>3 DEF TableInv
  <2>. QED  BY <1>7, <1>10, <2>1, <2>2, <2>3, <2>4
<1>. QED  BY <1>9, <1>10

LEMMA MoveStderrStep ==
    ASSUME FdsAssumption, FdsInv, MoveStderr
    PROVE  FdsInv'
<1>1. pc = "moveStderr" /\ pc' \in {"moveStderr", "dup0"} /\ UNCHANGED settings
      BY DEF MoveStderr
<1>2. /\ pc \notin Parent /\ pc \in Before0 /\ pc \in Before1 /\ pc \in Before2 /\ pc \in Child
      /\ pc' \in Before0 /\ pc' \notin Parent /\ pc' \in Child
      BY <1>1 DEF Parent, Child, Before0, Before1, Before2
<1>3. Settings /\ NamesInv /\ GivenInv /\ TableInv /\ UsedInv /\ MovedInv  BY DEF FdsInv
<1>4. UNCHANGED <<caller, cloexecOf, passFds, closeFds, dev>>  BY <1>1 DEF settings
<1>6. StdinFile' = StdinFile /\ StdoutFile' = StdoutFile /\ StderrFile' = StderrFile
      BY <1>1, <1>3, SettingsStay
<1>7. ASSUME NEW N, Grows(N), fd' \in [FdNames -> {-1} \cup Fds],
             \A g \in FdNames \ {"errwrite"} : fd'[g] = fd[g],
             fd'["errwrite"] = -1 <=> fd["errwrite"] = -1,
             pc' = "dup0" => fd'["errwrite"] \notin {0, 1},
             Names("errwrite", StderrFile)', UsedInv'
      PROVE  FdsInv'
  <2>1. /\ Settings' /\ CallerInv' /\ OursInv' /\ PlacedInv'
        /\ DOMAIN file' = Fds /\ cloexec' \subseteq {n \in Fds : file'[n] # Free}
        BY <1>1, <1>2, <1>7, GrowsKeeps
  <2>2. TableInv'  BY <1>2, <1>7, <2>1 DEF TableInv
  <2>3. MovedInv'  BY <1>1, <1>3, <1>7 DEF MovedInv, FdNames
  <2>4. GivenInv'  BY <1>1, <1>3, <1>4, <1>7 DEF GivenInv, FdNames
  <2>6. Names("p2cread", StdinFile)' /\ Names("c2pwrite", StdoutFile)'
        BY <1>1, <1>2, <1>7, StdinNameStays, StdoutNameStays DEF FdNames
  <2>7. Names("errpipe_write", "pipeW")'
    <3>1. Names("errpipe_write", "pipeW")  BY <1>2, <1>3 DEF NamesInv
    <3>. QED  BY <1>7, <3>1, NamesStay DEF FdNames, Free, Names
  <2>8. NamesInv'  BY <1>1, <1>2, <1>7, <2>6, <2>7 DEF NamesInv
  <2>9. RunningInv'  BY <1>1, <2>7, NotRunning DEF Names
  <2>. QED  BY <1>7, <2>1, <2>2, <2>3, <2>4, <2>8, <2>9 DEF FdsInv
<1>8. fd["errwrite"] # -1 => fd["errwrite"] \in Fds /\ file[fd["errwrite"]] = StderrFile
                             /\ StderrFile # Free
  <2>1. fd["errwrite"] # -1 => StderrFile # Free
        BY <1>3, ChildEnds, CallerFiles DEF GivenInv, Words, Free
  <2>. QED  BY <1>2, <1>3, <2>1 DEF NamesInv, Names
<1>9. CASE fd.errwrite \in {0, 1}
  <2>1. Dup("errwrite") /\ pc' = "moveStderr"  BY <1>1, <1>9 DEF MoveStderr
  <2>2. \A n \in Fds : n > CallerMax + 10 => file[n] = Free
    <3>1. Taken = 10 /\ pc \in Before0 \ {"dup0"}  BY <1>1, <1>2 DEF Taken
    <3>. QED  BY <1>3, <1>9, <3>1 DEF UsedInv
  <2>3. PICK n \in Fds :
            /\ Grows({n}) /\ n <= CallerMax + 10 + 1
            /\ file[n] = Free /\ file'[n] = file[fd["errwrite"]] /\ fd'["errwrite"] = n
            /\ fd' \in [FdNames -> {-1} \cup Fds]
            /\ \A g \in FdNames \ {"errwrite"} : fd'[g] = fd[g]
    <3>1. fd["errwrite"] # -1 /\ "errwrite" \in FdNames /\ 10 \in 9..10  BY <1>9 DEF FdNames
    <3>2. fd["errwrite"] \in Fds /\ file[fd["errwrite"]] # Free  BY <1>8, <3>1
    <3>. QED  BY <2>1, <2>2, <3>1, <3>2, DupGrows
  <2>4. n # -1 /\ fd["errwrite"] # -1  BY <1>9 DEF Fds
  <2>5. Names("errwrite", StderrFile)'  BY <1>6, <1>8, <1>9, <2>3 DEF Names
  <2>6. UsedInv'
    <3>1. Taken' = 10  BY <2>1 DEF Taken
    <3>. SUFFICES ASSUME NEW m \in Fds, m > CallerMax + 10, fd'["errwrite"] \in {0, 1}
                  PROVE  file'[m] = Free
         BY <2>1, <3>1 DEF UsedInv
    <3>2. m # n  BY <2>3 DEF Fds, FdsAssumption
    <3>. QED  BY <2>2, <2>3, <3>2 DEF Grows
  <2>. QED  BY <1>7, <2>1, <2>3, <2>4, <2>5, <2>6
<1>10. CASE fd.errwrite \notin {0, 1}
  <2>1. pc' = "dup0" /\ UNCHANGED <<file, cloexec, fd>>  BY <1>10 DEF MoveStderr
  <2>2. Grows({})  BY <1>3, <2>1 DEF Grows, TableInv
  <2>3. Names("errwrite", StderrFile)'  BY <1>6, <1>8, <2>1 DEF Names
  <2>4. fd \in [FdNames -> {-1} \cup Fds]  BY <1>3 DEF TableInv
  <2>5. UsedInv'  BY <2>1 DEF UsedInv
  <2>. QED  BY <1>7, <1>10, <2>1, <2>2, <2>3, <2>4, <2>5
<1>. QED  BY <1>9, <1>10

Placing == {"dup0", "dup1", "dup2"}

\* dup2() onto a standard number, or nothing to put there, leaves the others as they are.
PutOn(h, n) ==
    \/ fd[h] = -1 /\ UNCHANGED <<file, cloexec>> /\ Placed' = Placed
    \/ /\ fd[h] \in Fds /\ file[fd[h]] # Free
       /\ file' = [file EXCEPT ![n] = file[fd[h]]] /\ cloexec' = cloexec \ {n}
       /\ Placed' = Placed \cup {n}

LEMMA PlaceKeeps ==
    ASSUME FdsAssumption, FdsInv, UNCHANGED <<settings, fd>>, pc \in Placing,
           pc' \in Placing \cup {"closeFds"}, pc' # "dup0",
           NEW h, NEW n \in 0..2, PutOn(h, n)
    PROVE  /\ Settings' /\ TableInv' /\ CallerInv' /\ OursInv' /\ UsedInv'
           /\ \A m \in Fds \ {n} : file'[m] = file[m] /\ (m \in cloexec' <=> m \in cloexec)
           /\ n \in Placed' /\ n \notin Placed => fd[h] \in Fds /\ file'[n] = file[fd[h]] /\ n \notin cloexec'
<1>1. /\ pc \notin Parent /\ pc' \notin Parent /\ pc \in Child /\ pc' \in Child
      /\ pc # "exec" /\ pc' # "exec" /\ pc' \notin Before0
      BY DEF Placing, Parent, Child, Before0, Before1, Before2
<1>2. UNCHANGED <<caller, cloexecOf, passFds, closeFds, dev>>  BY DEF settings
<1>3. Settings /\ TableInv /\ CallerInv /\ OursInv  BY DEF FdsInv
<1>4. Settings'  BY <1>3, SettingsStay
<1>5. n \in Fds /\ caller \subseteq Fds  BY <1>3 DEF Fds, FdsAssumption, Settings
<1>6. UsedInv'  BY <1>1 DEF UsedInv
<1>7. CASE fd[h] = -1 /\ UNCHANGED <<file, cloexec>> /\ Placed' = Placed
  <2>1. CallerInv'  BY <1>1, <1>2, <1>3, <1>7 DEF CallerInv
  <2>2. OursInv'  BY <1>1, <1>2, <1>3, <1>7 DEF OursInv
  <2>3. TableInv'  BY <1>1, <1>3, <1>7 DEF TableInv
  <2>. QED  BY <1>4, <1>6, <1>7, <2>1, <2>2, <2>3
<1>8. CASE /\ fd[h] \in Fds /\ file[fd[h]] # Free
           /\ file' = [file EXCEPT ![n] = file[fd[h]]] /\ cloexec' = cloexec \ {n}
           /\ Placed' = Placed \cup {n}
  <2>1. /\ DOMAIN file' = Fds /\ file'[n] = file[fd[h]]
        /\ \A m \in Fds \ {n} : file'[m] = file[m] /\ (m \in cloexec' <=> m \in cloexec)
        BY <1>3, <1>5, <1>8 DEF TableInv
  <2>2. n \notin cloexec'  BY <1>8
  <2>3. CallerInv'
    <3>. SUFFICES ASSUME NEW m \in caller \ (Placed \cup {n})
                  PROVE  /\ file'[m] = CallerFile[m]
                         /\ m \in cloexec' <=> cloexecOf /\ m \notin passFds
         BY <1>1, <1>2, <1>8 DEF CallerInv
    <3>1. file[m] = CallerFile[m] /\ (m \in cloexec <=> cloexecOf /\ m \notin passFds)
          BY <1>1, <1>3 DEF CallerInv
    <3>. QED  BY <1>5, <2>1, <3>1
  <2>4. OursInv'
    <3>. SUFFICES ASSUME NEW m \in Fds \ (caller \cup Placed \cup {n}), file'[m] # Free
                  PROVE  m \in cloexec'
         BY <1>2, <1>8 DEF OursInv
    <3>. QED  BY <1>1, <1>3, <2>1 DEF OursInv
  <2>5. TableInv'
    <3>1. cloexec' \subseteq {m \in Fds : file'[m] # Free}  BY <1>3, <1>8, <2>1 DEF TableInv
    <3>. QED  BY <1>1, <1>3, <2>1, <3>1 DEF TableInv
  <2>. QED  BY <1>4, <1>6, <1>8, <2>1, <2>2, <2>3, <2>4, <2>5
<1>. QED  BY <1>7, <1>8 DEF PutOn

PlaceStdin == Place("dup0", "p2cread", 0, "dup1")
PlaceStdout == Place("dup1", "c2pwrite", 1, "dup2")
PlaceStderr == Place("dup2", "errwrite", 2, "closeFds")

\* What the child's ends stand for is in use.
LEMMA EndsInUse ==
    ASSUME FdsAssumption, FdsInv
    PROVE  /\ pc \in Before0 /\ fd.p2cread # -1 =>
                  fd.p2cread \in Fds /\ file[fd.p2cread] = StdinFile /\ StdinFile # Free
           /\ pc \in Before1 /\ fd.c2pwrite # -1 =>
                  fd.c2pwrite \in Fds /\ file[fd.c2pwrite] = StdoutFile /\ StdoutFile # Free
           /\ pc \in Before2 /\ fd.errwrite # -1 =>
                  fd.errwrite \in Fds /\ file[fd.errwrite] = StderrFile /\ StderrFile # Free
<1>1. Settings /\ NamesInv /\ GivenInv  BY DEF FdsInv
<1>2. /\ fd.p2cread # -1 => StdinFile # Free
      /\ fd.c2pwrite # -1 => StdoutFile # Free
      /\ fd.errwrite # -1 => StderrFile # Free
      BY <1>1, ChildEnds, CallerFiles DEF GivenInv, Words, Free
<1>. QED  BY <1>1, <1>2 DEF NamesInv, Names

LEMMA PlaceStdinStep ==
    ASSUME FdsAssumption, FdsInv, PlaceStdin
    PROVE  FdsInv'
<1>1. /\ pc = "dup0" /\ pc' = "dup1" /\ UNCHANGED <<settings, fd>>
      /\ IF fd["p2cread"] = -1 THEN UNCHANGED <<file, cloexec>>
         ELSE file' = [file EXCEPT ![0] = file[fd["p2cread"]]] /\ cloexec' = cloexec \ {0}
      BY DEF PlaceStdin, Place
<1>2. /\ pc \in Before0 /\ pc \in Before1 /\ pc \in Before2 /\ pc \in Child /\ pc \notin Parent
      /\ pc' \notin Before0 /\ pc' \in Before1 /\ pc' \in Before2 /\ pc' \in Child /\ pc' \notin Parent
      /\ pc' # "closeParentEnds" /\ pc \in Placing /\ pc' \in Placing
      BY <1>1 DEF Placing, Parent, Child, Before0, Before1, Before2
<1>3. Settings /\ NamesInv /\ GivenInv /\ MovedInv  BY DEF FdsInv
<1>4. Placed = {} /\ Placed' = IF fd.p2cread # -1 THEN {0} ELSE {}
      BY <1>1, <1>2, NothingPlaced DEF Placed
<1>5. PutOn("p2cread", 0)
  <2>1. fd["p2cread"] # -1 => fd["p2cread"] \in Fds /\ file[fd["p2cread"]] # Free
        BY <1>2, EndsInUse
  <2>. QED  BY <1>1, <1>4, <2>1 DEF PutOn
<1>6. /\ Settings' /\ TableInv' /\ CallerInv' /\ OursInv' /\ UsedInv'
      /\ \A m \in Fds \ {0} : file'[m] = file[m] /\ (m \in cloexec' <=> m \in cloexec)
      /\ 0 \in Placed' => fd["p2cread"] \in Fds /\ file'[0] = file[fd["p2cread"]] /\ 0 \notin cloexec'
      BY <1>1, <1>2, <1>4, <1>5, PlaceKeeps
<1>7. StdinFile' = StdinFile /\ StdoutFile' = StdoutFile /\ StderrFile' = StderrFile
      BY <1>1, <1>3, SettingsStay
<1>8. PlacedInv'
  <2>1. 0 \in Placed' => file[fd["p2cread"]] = StdinFile  BY <1>2, <1>4, EndsInUse
  <2>. QED  BY <1>4, <1>6, <1>7, <2>1 DEF PlacedInv
<1>9. NamesInv'
  <2>1. fd.c2pwrite # -1 => fd.c2pwrite \in Fds \ {0} /\ file[fd.c2pwrite] = StdoutFile
        BY <1>1, <1>2, <1>3, EndsInUse DEF MovedInv
  <2>2. fd.errwrite # -1 => fd.errwrite \in Fds \ {0} /\ file[fd.errwrite] = StderrFile
        BY <1>1, <1>2, <1>3, EndsInUse DEF MovedInv
  <2>3. fd.errpipe_write \in Fds \ {0} /\ file[fd.errpipe_write] = "pipeW"
    <3>1. fd.errpipe_write # -1 /\ fd.errpipe_write \in 3..MaxFd  BY <1>1, <1>3 DEF GivenInv
    <3>. QED  BY <1>2, <1>3, <3>1 DEF NamesInv, Names, Fds
  <2>. QED  BY <1>1, <1>2, <1>6, <1>7, <2>1, <2>2, <2>3 DEF NamesInv, Names
<1>10. GivenInv' /\ MovedInv'  BY <1>1, <1>3 DEF GivenInv, MovedInv, settings
<1>11. RunningInv'  BY <1>1, <1>2, <1>9, NotRunning DEF NamesInv, Names
<1>. QED  BY <1>6, <1>8, <1>9, <1>10, <1>11 DEF FdsInv

LEMMA PlaceStdoutStep ==
    ASSUME FdsAssumption, FdsInv, PlaceStdout
    PROVE  FdsInv'
<1>1. /\ pc = "dup1" /\ pc' = "dup2" /\ UNCHANGED <<settings, fd>>
      /\ IF fd["c2pwrite"] = -1 THEN UNCHANGED <<file, cloexec>>
         ELSE file' = [file EXCEPT ![1] = file[fd["c2pwrite"]]] /\ cloexec' = cloexec \ {1}
      BY DEF PlaceStdout, Place
<1>2. /\ pc \notin Before0 /\ pc \in Before1 /\ pc \in Before2 /\ pc \in Child /\ pc \notin Parent
      /\ pc' \notin Before0 /\ pc' \notin Before1 /\ pc' \in Before2 /\ pc' \in Child /\ pc' \notin Parent
      /\ pc' # "closeParentEnds" /\ pc \in Placing /\ pc' \in Placing
      BY <1>1 DEF Placing, Parent, Child, Before0, Before1, Before2
<1>3. Settings /\ NamesInv /\ GivenInv /\ MovedInv /\ PlacedInv  BY DEF FdsInv
<1>4. /\ Placed \subseteq {0} /\ 0 \in Fds /\ (0 \in Placed' <=> 0 \in Placed) /\ 2 \notin Placed'
      /\ Placed' = IF fd.c2pwrite # -1 THEN Placed \cup {1} ELSE Placed
      BY <1>1, <1>2 DEF Placed, Fds, FdsAssumption
<1>5. PutOn("c2pwrite", 1)
  <2>1. fd["c2pwrite"] # -1 => fd["c2pwrite"] \in Fds /\ file[fd["c2pwrite"]] # Free
        BY <1>2, EndsInUse
  <2>. QED  BY <1>1, <1>4, <2>1 DEF PutOn
<1>6. /\ Settings' /\ TableInv' /\ CallerInv' /\ OursInv' /\ UsedInv'
      /\ \A m \in Fds \ {1} : file'[m] = file[m] /\ (m \in cloexec' <=> m \in cloexec)
      /\ 1 \in Placed' => fd["c2pwrite"] \in Fds /\ file'[1] = file[fd["c2pwrite"]] /\ 1 \notin cloexec'
      BY <1>1, <1>2, <1>4, <1>5, PlaceKeeps
<1>7. StdinFile' = StdinFile /\ StdoutFile' = StdoutFile /\ StderrFile' = StderrFile
      BY <1>1, <1>3, SettingsStay
<1>8. PlacedInv'
  <2>1. 1 \in Placed' => file[fd["c2pwrite"]] = StdoutFile  BY <1>2, <1>4, EndsInUse
  <2>2. 0 \in Placed' => file'[0] = StdinFile /\ 0 \notin cloexec'
        BY <1>2, <1>3, <1>4, <1>6 DEF PlacedInv
  <2>. QED  BY <1>4, <1>6, <1>7, <2>1, <2>2 DEF PlacedInv
<1>9. NamesInv'
  <2>1. fd.errwrite # -1 => fd.errwrite \in Fds \ {1} /\ file[fd.errwrite] = StderrFile
        BY <1>1, <1>2, <1>3, EndsInUse DEF MovedInv
  <2>2. fd.errpipe_write \in Fds \ {1} /\ file[fd.errpipe_write] = "pipeW"
    <3>1. fd.errpipe_write # -1 /\ fd.errpipe_write \in 3..MaxFd  BY <1>1, <1>3 DEF GivenInv
    <3>. QED  BY <1>2, <1>3, <3>1 DEF NamesInv, Names, Fds
  <2>. QED  BY <1>1, <1>2, <1>6, <1>7, <2>1, <2>2 DEF NamesInv, Names
<1>10. GivenInv' /\ MovedInv'  BY <1>1, <1>3 DEF GivenInv, MovedInv, settings
<1>11. RunningInv'  BY <1>1, <1>2, <1>9, NotRunning DEF NamesInv, Names
<1>. QED  BY <1>6, <1>8, <1>9, <1>10, <1>11 DEF FdsInv

LEMMA PlaceStderrStep ==
    ASSUME FdsAssumption, FdsInv, PlaceStderr
    PROVE  FdsInv'
<1>1. /\ pc = "dup2" /\ pc' = "closeFds" /\ UNCHANGED <<settings, fd>>
      /\ IF fd["errwrite"] = -1 THEN UNCHANGED <<file, cloexec>>
         ELSE file' = [file EXCEPT ![2] = file[fd["errwrite"]]] /\ cloexec' = cloexec \ {2}
      BY DEF PlaceStderr, Place
<1>2. /\ pc \notin Before0 /\ pc \notin Before1 /\ pc \in Before2 /\ pc \in Child /\ pc \notin Parent
      /\ pc' \notin Before0 /\ pc' \notin Before1 /\ pc' \notin Before2 /\ pc' \in Child /\ pc' \notin Parent
      /\ pc' # "closeParentEnds" /\ pc \in Placing
      BY <1>1 DEF Placing, Parent, Child, Before0, Before1, Before2
<1>3. Settings /\ NamesInv /\ GivenInv /\ MovedInv /\ PlacedInv  BY DEF FdsInv
<1>4. /\ Placed \subseteq {0, 1} /\ {0, 1} \subseteq Fds
      /\ (0 \in Placed' <=> 0 \in Placed) /\ (1 \in Placed' <=> 1 \in Placed)
      /\ Placed' = IF fd.errwrite # -1 THEN Placed \cup {2} ELSE Placed
      BY <1>1, <1>2 DEF Placed, Fds, FdsAssumption
<1>5. PutOn("errwrite", 2)
  <2>1. fd["errwrite"] # -1 => fd["errwrite"] \in Fds /\ file[fd["errwrite"]] # Free
        BY <1>2, EndsInUse
  <2>. QED  BY <1>1, <1>4, <2>1 DEF PutOn
<1>6. /\ Settings' /\ TableInv' /\ CallerInv' /\ OursInv' /\ UsedInv'
      /\ \A m \in Fds \ {2} : file'[m] = file[m] /\ (m \in cloexec' <=> m \in cloexec)
      /\ 2 \in Placed' => fd["errwrite"] \in Fds /\ file'[2] = file[fd["errwrite"]] /\ 2 \notin cloexec'
      BY <1>1, <1>2, <1>4, <1>5, PlaceKeeps
<1>7. StdinFile' = StdinFile /\ StdoutFile' = StdoutFile /\ StderrFile' = StderrFile
      BY <1>1, <1>3, SettingsStay
<1>8. PlacedInv'
  <2>1. 2 \in Placed' => file[fd["errwrite"]] = StderrFile  BY <1>2, <1>4, EndsInUse
  <2>2. 0 \in Placed' => file'[0] = StdinFile /\ 0 \notin cloexec'
        BY <1>2, <1>3, <1>4, <1>6 DEF PlacedInv
  <2>3. 1 \in Placed' => file'[1] = StdoutFile /\ 1 \notin cloexec'
        BY <1>2, <1>3, <1>4, <1>6 DEF PlacedInv
  <2>. QED  BY <1>4, <1>6, <1>7, <2>1, <2>2, <2>3 DEF PlacedInv
<1>9. NamesInv'
  <2>1. fd.errpipe_write \in Fds \ {2} /\ file[fd.errpipe_write] = "pipeW"
    <3>1. fd.errpipe_write # -1 /\ fd.errpipe_write \in 3..MaxFd  BY <1>1, <1>3 DEF GivenInv
    <3>. QED  BY <1>2, <1>3, <3>1 DEF NamesInv, Names, Fds
  <2>. QED  BY <1>1, <1>2, <1>6, <1>7, <2>1 DEF NamesInv, Names
<1>10. GivenInv' /\ MovedInv'  BY <1>1, <1>3 DEF GivenInv, MovedInv, settings
<1>11. RunningInv'  BY <1>1, <1>2, <1>9, NotRunning DEF NamesInv, Names
<1>. QED  BY <1>6, <1>8, <1>9, <1>10, <1>11 DEF FdsInv

LEMMA CloseOpenFdsStep ==
    ASSUME FdsAssumption, FdsInv, CloseOpenFds
    PROVE  FdsInv'
<1>. DEFINE closed == {n \in 3..MaxFd : n \notin passFds \cup {fd.errpipe_write}}
<1>1. /\ pc = "closeFds" /\ pc' = "exec" /\ UNCHANGED <<settings, fd>>
      /\ closeFds => /\ file' = [n \in Fds |-> IF n \in closed THEN Free ELSE file[n]]
                     /\ cloexec' = cloexec \ closed
      /\ ~closeFds => UNCHANGED <<file, cloexec>>
      BY DEF CloseOpenFds
<1>2. /\ pc \notin Before0 /\ pc \notin Before1 /\ pc \notin Before2 /\ pc \in Child /\ pc \notin Parent
      /\ pc' \notin Before0 /\ pc' \notin Before1 /\ pc' \notin Before2 /\ pc' \in Child /\ pc' \notin Parent
      BY <1>1 DEF Parent, Child, Before0, Before1, Before2
<1>3. Settings /\ NamesInv /\ GivenInv /\ PlacedInv /\ TableInv /\ CallerInv /\ OursInv  BY DEF FdsInv
<1>4. Settings' /\ StdinFile' = StdinFile /\ StdoutFile' = StdoutFile /\ StderrFile' = StderrFile
      BY <1>1, <1>3, SettingsStay
<1>5. UNCHANGED <<caller, cloexecOf, passFds, closeFds, dev>>  BY <1>1 DEF settings
<1>6. Placed' = Placed /\ Placed \subseteq {0, 1, 2}  BY <1>1, <1>2 DEF Placed
<1>7. caller \subseteq Fds /\ {0, 1, 2} \subseteq Fds /\ closed \subseteq Fds
      /\ \A n \in {0, 1, 2} : n \notin closed
      BY <1>3 DEF Settings, Fds, FdsAssumption
<1>8. fd.errpipe_write \in 3..MaxFd /\ fd.errpipe_write \in Fds
      /\ file[fd.errpipe_write] = "pipeW" /\ fd.errpipe_write \notin caller
  <2>1. fd.errpipe_write # -1 /\ fd.errpipe_write \in 3..MaxFd  BY <1>1, <1>3 DEF GivenInv
  <2>2. file[fd.errpipe_write] = "pipeW" /\ fd.errpipe_write \in Fds
        BY <1>2, <1>3, <2>1 DEF NamesInv, Names
  <2>3. fd.errpipe_write \notin caller
    <3>1. fd.errpipe_write \notin Placed  BY <1>6, <2>1
    <3>. QED  BY <1>1, <1>2, <1>3, <2>2, <3>1, CallerFiles DEF CallerInv, Words
  <2>. QED  BY <2>1, <2>2, <2>3
<1>9. /\ \A n \in Fds \ closed : file'[n] = file[n] /\ (n \in cloexec' <=> n \in cloexec)
      /\ \A n \in closed : closeFds => file'[n] = Free
      /\ \A n \in closed : ~closeFds => file'[n] = file[n] /\ (n \in cloexec' <=> n \in cloexec)
      /\ DOMAIN file' = Fds
      BY <1>1, <1>3, <1>7 DEF TableInv
<1>10. \A n : n \in closed <=> n \in 3..MaxFd /\ n \notin passFds /\ n # fd.errpipe_write
       OBVIOUS
<1>. HIDE DEF closed
<1>11. CallerInv'
  <2>. SUFFICES ASSUME NEW n \in caller \ Placed
                PROVE  \/ /\ file'[n] = CallerFile[n]
                          /\ n \in cloexec' <=> cloexecOf /\ n \notin passFds
                          /\ closeFds /\ n >= 3 => n \in passFds
                       \/ closeFds /\ n >= 3 /\ n \notin passFds /\ file'[n] = Free
       BY <1>1, <1>2, <1>5, <1>6 DEF CallerInv
  <2>1. file[n] = CallerFile[n] /\ (n \in cloexec <=> cloexecOf /\ n \notin passFds)
        BY <1>1, <1>2, <1>3 DEF CallerInv
  <2>2. n \in Fds /\ n \in 0..MaxFd /\ n # fd.errpipe_write  BY <1>7, <1>8 DEF Fds
  <2>3. CASE closeFds /\ n >= 3 /\ n \notin passFds
    <3>1. n \in closed  BY <1>10, <2>2, <2>3 DEF FdsAssumption
    <3>. QED  BY <1>9, <2>3, <3>1
  <2>4. CASE ~closeFds  BY <1>9, <2>1, <2>2, <2>4
  <2>5. CASE closeFds /\ (n < 3 \/ n \in passFds)
    <3>1. n \notin closed  BY <1>10, <2>2, <2>5 DEF FdsAssumption
    <3>2. n >= 3 => n \in passFds  BY <2>2, <2>5 DEF FdsAssumption
    <3>. QED  BY <1>9, <2>1, <2>2, <3>1, <3>2
  <2>6. n < 3 \/ n >= 3  BY <2>2 DEF FdsAssumption
  <2>. QED  BY <2>3, <2>4, <2>5, <2>6
<1>12. OursInv'
  <2>. SUFFICES ASSUME NEW n \in Fds \ (caller \cup Placed), file'[n] # Free  PROVE n \in cloexec'
       BY <1>5, <1>6 DEF OursInv
  <2>1. file[n] # Free => n \in cloexec  BY <1>2, <1>3 DEF OursInv
  <2>. QED  BY <1>9, <2>1
<1>13. PlacedInv'
  <2>1. \A n \in {0, 1, 2} : file'[n] = file[n] /\ (n \in cloexec' <=> n \in cloexec)
        BY <1>7, <1>9
  <2>. QED  BY <1>2, <1>3, <1>4, <1>6, <2>1 DEF PlacedInv
<1>14. NamesInv'
  <2>1. fd.errpipe_write \notin closed  BY <1>10
  <2>2. file'[fd.errpipe_write] = "pipeW"  BY <1>8, <1>9, <2>1
  <2>. QED  BY <1>1, <1>2, <1>8, <2>2 DEF NamesInv, Names
<1>15. GivenInv' /\ MovedInv' /\ UsedInv'
       BY <1>1, <1>2, <1>3, <1>5 DEF GivenInv, MovedInv, UsedInv
<1>16. TableInv'
  <2>1. cloexec' \subseteq {n \in Fds : file'[n] # Free}
    <3>1. CASE closeFds  BY <1>1, <1>3, <1>9, <3>1 DEF TableInv
    <3>2. CASE ~closeFds  BY <1>1, <1>3, <3>2 DEF TableInv
    <3>. QED  BY <3>1, <3>2
  <2>. QED  BY <1>1, <1>2, <1>3, <1>9, <2>1 DEF TableInv
<1>17. RunningInv'  BY <1>1, <1>2, <1>14, NotRunning DEF NamesInv, Names
<1>. QED  BY <1>4, <1>11, <1>12, <1>13, <1>14, <1>15, <1>16, <1>17 DEF FdsInv

LEMMA ExecStep ==
    ASSUME FdsAssumption, FdsInv, Exec
    PROVE  FdsInv'
<1>1. /\ pc = "exec" /\ pc' = "running" /\ UNCHANGED <<settings, fd>> /\ cloexec' = {}
      /\ file' = [n \in Fds |-> IF n \in cloexec THEN Free ELSE file[n]]
      BY DEF Exec
<1>2. /\ pc \notin Before0 /\ pc \notin Before1 /\ pc \notin Before2 /\ pc \in Child /\ pc \notin Parent
      /\ pc' \notin Before0 /\ pc' \notin Before1 /\ pc' \notin Before2 /\ pc' \notin Child
      /\ pc' \notin Parent
      BY <1>1 DEF Parent, Child, Before0, Before1, Before2
<1>3. Settings /\ NamesInv /\ GivenInv /\ PlacedInv /\ TableInv /\ CallerInv /\ OursInv  BY DEF FdsInv
<1>4. Settings' /\ StdinFile' = StdinFile /\ StdoutFile' = StdoutFile /\ StderrFile' = StderrFile
      BY <1>1, <1>3, SettingsStay
<1>5. UNCHANGED <<caller, cloexecOf, passFds, closeFds, dev>>  BY <1>1 DEF settings
<1>6. /\ Placed \subseteq {0, 1, 2}
      /\ 0 \in Placed <=> dev.stdin # "none"
      /\ 1 \in Placed <=> dev.stdout # "none"
      /\ 2 \in Placed <=> dev.stderr # "none"
      BY <1>1, <1>2, <1>3 DEF Placed, GivenInv
<1>7. caller \subseteq Fds /\ {0, 1, 2} \subseteq Fds  BY <1>3 DEF Settings, Fds, FdsAssumption
<1>8. /\ 0 \in Placed => file'[0] = StdinFile
      /\ 1 \in Placed => file'[1] = StdoutFile
      /\ 2 \in Placed => file'[2] = StderrFile
      BY <1>1, <1>2, <1>3, <1>7 DEF PlacedInv
<1>9. ASSUME NEW n \in Fds \ Placed
      PROVE  file'[n] = IF /\ n \in caller /\ (~cloexecOf \/ n \in passFds)
                           /\ closeFds /\ n >= 3 => n \in passFds
                        THEN CallerFile[n] ELSE Free
  <2>1. file'[n] = IF n \in cloexec THEN Free ELSE file[n]  BY <1>1
  <2>2. CASE n \in caller
    <3>1. \/ /\ file[n] = CallerFile[n]
             /\ n \in cloexec <=> cloexecOf /\ n \notin passFds
             /\ closeFds /\ n >= 3 => n \in passFds
          \/ closeFds /\ n >= 3 /\ n \notin passFds /\ file[n] = Free
          BY <1>1, <1>2, <1>3, <2>2 DEF CallerInv
    <3>. QED  BY <2>1, <2>2, <3>1
  <2>3. CASE n \notin caller
    <3>1. file[n] # Free => n \in cloexec  BY <1>2, <1>3, <2>3 DEF OursInv
    <3>. QED  BY <2>1, <2>3, <3>1
  <2>. QED  BY <2>2, <2>3
<1>10. \A n \in {0, 1, 2} \ Placed :
           file'[n] = IF n \in caller /\ (~cloexecOf \/ n \in passFds) THEN CallerFile[n] ELSE Free
  <2>1. \A n \in {0, 1, 2} : n < 3 /\ ~(n >= 3)  OBVIOUS
  <2>. QED  BY <1>7, <1>9, <2>1
<1>11. Settings /\ dev.stdin # "STDOUT" /\ dev.stdout # "STDOUT"
       BY <1>3 DEF Settings, DeviceChoices, FdsAssumption, Words
<1>12. /\ file'[0] = Promised(0, dev.stdin, "inR")
       /\ file'[1] = Promised(1, dev.stdout, "outW")
       /\ dev.stderr # "STDOUT" => file'[2] = Promised(2, dev.stderr, "errW")
       /\ dev.stderr = "STDOUT" => file'[2] = IF dev.stdout = "none" THEN CallerFile[1]
                                              ELSE Promised(1, dev.stdout, "outW")
  <2>1. ASSUME NEW n, NEW d, NEW end, d # "none"
        PROVE  Promised(n, d, end) = Wanted(d, end)
        BY <2>1 DEF Promised, Wanted
  <2>2. ASSUME NEW n, NEW end
        PROVE  Promised(n, "none", end)
                 = IF n \in caller /\ (~cloexecOf \/ n \in passFds) THEN CallerFile[n] ELSE Free
        BY DEF Promised
  <2>3. file'[0] = Promised(0, dev.stdin, "inR")
        BY <1>6, <1>8, <1>10, <2>1, <2>2 DEF StdinFile
  <2>4. file'[1] = Promised(1, dev.stdout, "outW")
        BY <1>6, <1>8, <1>10, <2>1, <2>2 DEF StdoutFile
  <2>5. dev.stderr # "STDOUT" => file'[2] = Promised(2, dev.stderr, "errW")
        BY <1>6, <1>8, <1>10, <2>1, <2>2 DEF StderrFile
  <2>6. dev.stderr = "STDOUT" => file'[2] = IF dev.stdout = "none" THEN CallerFile[1]
                                            ELSE Promised(1, dev.stdout, "outW")
        BY <1>6, <1>8, <2>1 DEF StderrFile, StdoutFile
  <2>. QED  BY <2>3, <2>4, <2>5, <2>6
<1>13. StreamsAsAsked'
  <2>1. \A n, d, end : Promised(n, d, end)' = Promised(n, d, end)  BY <1>5 DEF Promised
  <2>. QED  BY <1>5, <1>12, <2>1 DEF StreamsAsAsked, Promised
<1>14. NothingElseInherited'
  <2>. SUFFICES ASSUME NEW n \in 3..MaxFd
                PROVE  file'[n] = IF n \in caller /\ (n \in passFds \/ (~closeFds /\ ~cloexecOf))
                                  THEN CallerFile[n] ELSE Free
       BY <1>5 DEF NothingElseInherited
  <2>1. n \in Fds \ Placed /\ n >= 3  BY <1>6 DEF Fds, FdsAssumption
  <2>. QED  BY <1>3, <1>9, <2>1 DEF Settings
<1>15. \A n \in Fds : file'[n] # "pipeW"
  <2>1. \A n \in caller : CallerFile[n] # "pipeW" /\ Free # "pipeW"
        BY <1>3, CallerFiles DEF Words, Free
  <2>2. /\ dev.stdin # "none" => StdinFile # "pipeW"
        /\ dev.stdout # "none" => StdoutFile # "pipeW"
        /\ dev.stderr # "none" => StderrFile # "pipeW"
        BY <1>3, <2>1, ChildEnds
  <2>. QED  BY <1>6, <1>8, <1>9, <2>1, <2>2 DEF Free
<1>16. ErrpipeLastsToExec'  BY <1>1, <1>15 DEF ErrpipeLastsToExec
<1>17. NamesInv' /\ PlacedInv' /\ MovedInv' /\ CallerInv' /\ OursInv' /\ UsedInv'
       BY <1>1, <1>2 DEF NamesInv, PlacedInv, MovedInv, CallerInv, OursInv, UsedInv
<1>18. GivenInv' /\ TableInv'  BY <1>1, <1>3, <1>5 DEF GivenInv, TableInv
<1>. QED  BY <1>4, <1>13, <1>14, <1>16, <1>17, <1>18 DEF FdsInv, RunningInv

-----------------------------------------------------------------------------
(* The whole. *)

LEMMA FdsStep ==
    ASSUME FdsAssumption, FdsInv, [Next]_vars
    PROVE  FdsInv'
<1>1. CASE UNCHANGED vars
  <2>1. UNCHANGED <<pc, caller, cloexecOf, dev, passFds, closeFds, file, cloexec, fd>>
        BY <1>1 DEF vars, settings
  <2>2. Settings' /\ TableInv' /\ NamesInv' /\ GivenInv'
        BY <2>1 DEF FdsInv, Settings, DeviceChoices, TableInv, NamesInv, Names, GivenInv,
                    StdinFile, StdoutFile, StderrFile, Wanted
  <2>3. Placed' = Placed  BY <2>1 DEF Placed
  <2>4. PlacedInv'
        BY <2>1, <2>3 DEF FdsInv, PlacedInv, StdinFile, StdoutFile, StderrFile, Wanted
  <2>5. MovedInv' /\ CallerInv' /\ OursInv'
        BY <2>1, <2>3 DEF FdsInv, MovedInv, CallerInv, OursInv
  <2>6. UsedInv'  BY <2>1 DEF FdsInv, UsedInv, Taken
  <2>7. RunningInv'
        BY <2>1 DEF FdsInv, RunningInv, StreamsAsAsked, NothingElseInherited, ErrpipeLastsToExec,
                    Promised
  <2>. QED  BY <2>2, <2>4, <2>5, <2>6, <2>7 DEF FdsInv
<1>2. CASE Next
  <2>1. \/ GetStdin \/ GetStdout \/ GetStderr \/ OpenErrpipe \/ RaiseErrpipe
        \/ KeepPassed \/ CloseParentEnds \/ MoveStdout \/ MoveStderr
        \/ PlaceStdin \/ PlaceStdout \/ PlaceStderr \/ CloseOpenFds \/ Exec
        BY <1>2 DEF Next, GetStdin, GetStdout, GetStderr, PlaceStdin, PlaceStdout, PlaceStderr
  <2>. QED  BY <2>1, StdinStep, StdoutStep, StderrStep, OpenErrpipeStep, RaiseErrpipeStep,
               KeepPassedStep, CloseParentEndsStep, MoveStdoutStep, MoveStderrStep,
               PlaceStdinStep, PlaceStdoutStep, PlaceStderrStep, CloseOpenFdsStep, ExecStep
<1>. QED  BY <1>1, <1>2

\* The program behind exec has the streams that were asked for, no other descriptor than those
\* meant for it, and its parent learns of exec, or of the failure before it, through the error
\* pipe: _child_exec() of popen_unix.cpp, for any descriptors of the caller.
THEOREM ChildGetsWhatIsAskedHolds ==
    ASSUME FdsAssumption
    PROVE  Spec => [](StreamsAsAsked /\ NothingElseInherited /\ ErrpipeLastsToExec)
<1>1. Init => FdsInv  BY SettingsInit
<1>2. FdsInv /\ [Next]_vars => FdsInv'  BY FdsStep
<1>3. FdsInv => StreamsAsAsked /\ NothingElseInherited /\ ErrpipeLastsToExec
      BY DEF FdsInv, RunningInv
<1>. QED  BY <1>1, <1>2, <1>3, PTL DEF Spec

\* Every number is one of the table, and the error pipe is off the standard ones from the fork
\* on: ChildArgs of popen_unix.cpp.
THEOREM FdsTypeCorrect == ASSUME FdsAssumption PROVE Spec => []TypeOK
<1>1. Init => FdsInv  BY SettingsInit
<1>2. FdsInv /\ [Next]_vars => FdsInv'  BY FdsStep
<1>3. FdsInv => TypeOK
      BY DEF FdsInv, TableInv, GivenInv, TypeOK, Child, Before2, Before1, Before0, Parent
<1>. QED  BY <1>1, <1>2, <1>3, PTL DEF Spec
=============================================================================
