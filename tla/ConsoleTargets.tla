--------------------------- MODULE ConsoleTargets ---------------------------
(***************************************************************************)
(* What the console writers remember about their targets: a table from     *)
(* FILE to what the descriptor behind it was found to be, looked into by   *)
(* every write of every thread while the program opens, closes and         *)
(* redirects files.  fopen() reuses both the addresses of closed FILEs and *)
(* the numbers of closed descriptors.  An address that comes back with     *)
(* another number is told from what it was; one that comes back with its   *)
(* old number is not, although the comment of the table (console.cpp 91)   *)
(* makes no difference: recurred says which entries that has befallen.     *)
(***************************************************************************)
EXTENDS Integers, Sequences

CONSTANTS
    Threads, Files,   \* Files: the addresses a FILE can have
    Fds,              \* the descriptor numbers
    Slots             \* target_cache_slots

Kinds == {"terminal", "other"}
None == -1

VARIABLES
    fileno,     \* the descriptor of each FILE, None for one that is closed
    behind,     \* what is really behind each descriptor
    cache,      \* g_target_cache, as far as it is used
    pc, file, id, kind,   \* each thread's call: its FILE, the descriptor read, the answer
    redirected, \* FILEs freopen()ed since set_color_mode() was last called
    recurred    \* FILE and number of the entries whose FILE was closed and came back as both

calls == <<pc, file, id, kind>>
vars == <<fileno, behind, cache, calls, redirected, recurred>>

Slot == [file : Files, id : Fds, kind : Kinds]

\* No FILE has two slots, and there are no more than fit.
TypeOK ==
    /\ fileno \in [Files -> Fds \cup {None}] /\ behind \in [Fds -> Kinds]
    /\ cache \in Seq(Slot) /\ Len(cache) <= Slots
    /\ \A i, j \in 1..Len(cache) : cache[i].file = cache[j].file => i = j
    /\ pc \in [Threads -> {"out", "readId", "lookUp"}]
    /\ file \in [Threads -> Files] /\ id \in [Threads -> Fds \cup {None}]
    /\ kind \in [Threads -> Kinds]
    /\ redirected \subseteq Files /\ recurred \subseteq Files \X Fds

AnyFile == CHOOSE f \in Files : TRUE

Init ==
    /\ fileno = [f \in Files |-> None] /\ behind = [n \in Fds |-> "other"]
    /\ cache = <<>>
    /\ pc = [t \in Threads |-> "out"] /\ file = [t \in Threads |-> AnyFile]
    /\ id = [t \in Threads |-> None] /\ kind = [t \in Threads |-> "other"]
    /\ redirected = {} /\ recurred = {}

-----------------------------------------------------------------------------
(* The program.  It closes and redirects no FILE that is being written to, and *)
(* after a freopen() it calls set_color_mode() before it writes there again.   *)

Remembered(c) == {<<c[i].file, c[i].id>> : i \in 1..Len(c)}
InUse(f) == \E t \in Threads : pc[t] # "out" /\ file[t] = f

Fopen(f) ==
    /\ fileno[f] = None
    /\ \E n \in Fds :
           /\ \A g \in Files : fileno[g] # n
           /\ fileno' = [fileno EXCEPT ![f] = n]
           /\ \E k \in Kinds : behind' = [behind EXCEPT ![n] = k]
           /\ recurred' = recurred \cup ({<<f, n>>} \cap Remembered(cache))
    /\ UNCHANGED <<cache, calls, redirected>>

Fclose(f) ==
    /\ fileno[f] # None /\ ~InUse(f)
    /\ fileno' = [fileno EXCEPT ![f] = None] /\ redirected' = redirected \ {f}
    /\ UNCHANGED <<behind, cache, calls, recurred>>

Freopen(f) ==
    /\ fileno[f] # None /\ ~InUse(f)
    /\ \E k \in Kinds : behind' = [behind EXCEPT ![fileno[f]] = k]
    /\ redirected' = redirected \cup {f}
    /\ UNCHANGED <<fileno, cache, calls, recurred>>

\* Mutant: the mode is stored and the table left.
SetColorModeOnly ==
    /\ redirected' = {}
    /\ UNCHANGED <<fileno, behind, cache, calls, recurred>>

SetColorMode ==
    /\ cache' = <<>> /\ redirected' = {} /\ recurred' = {}
    /\ UNCHANGED <<fileno, behind, calls>>

-----------------------------------------------------------------------------
(* target_kind_of(), in two steps: the descriptor is read before the lock is taken. *)

Call(t, f) ==
    /\ pc[t] = "out" /\ fileno[f] # None /\ f \notin redirected
    /\ pc' = [pc EXCEPT ![t] = "readId"] /\ file' = [file EXCEPT ![t] = f]
    /\ kind' = [kind EXCEPT ![t] = "other"]
    /\ UNCHANGED <<fileno, behind, cache, id, redirected, recurred>>

ReadId(t) ==
    /\ pc[t] = "readId" /\ pc' = [pc EXCEPT ![t] = "lookUp"]
    /\ id' = [id EXCEPT ![t] = fileno[file[t]]]
    /\ UNCHANGED <<fileno, behind, cache, file, kind, redirected, recurred>>

\* detect_target()
Detected(f) == behind[fileno[f]]

\* An entry is trusted while the FILE still resolves to the descriptor it was probed through.
Trusted(t, i) == cache[i].file = file[t] /\ cache[i].id = id[t]

\* Mutant: one entry more than the table has slots.
RememberOneMore(t, e) ==
    IF \E i \in 1..Len(cache) : cache[i].file = file[t]
    THEN cache' = [i \in 1..Len(cache) |-> IF cache[i].file = file[t] THEN e ELSE cache[i]]
    ELSE cache' = IF Len(cache) <= Slots THEN Append(cache, e) ELSE cache

Remember(t, e) ==
    IF \E i \in 1..Len(cache) : cache[i].file = file[t]
    THEN cache' = [i \in 1..Len(cache) |-> IF cache[i].file = file[t] THEN e ELSE cache[i]]
    ELSE cache' = IF Len(cache) < Slots THEN Append(cache, e) ELSE cache

LookUp(t) ==
    /\ pc[t] = "lookUp" /\ pc' = [pc EXCEPT ![t] = "out"]
    /\ \/ \E i \in 1..Len(cache) :
              /\ Trusted(t, i)
              /\ kind' = [kind EXCEPT ![t] = cache[i].kind] /\ UNCHANGED cache
       \/ /\ \A i \in 1..Len(cache) : ~Trusted(t, i)
          /\ kind' = [kind EXCEPT ![t] = Detected(file[t])]
          /\ Remember(t, [file |-> file[t], id |-> id[t], kind |-> Detected(file[t])])
    /\ file' = [file EXCEPT ![t] = AnyFile] /\ id' = [id EXCEPT ![t] = None]
    /\ recurred' = recurred \cap Remembered(cache')
    /\ UNCHANGED <<fileno, behind, redirected>>

Next ==
    \/ \E f \in Files : Fopen(f) \/ Fclose(f) \/ Freopen(f)
    \/ SetColorMode
    \/ \E t \in Threads : (\E f \in Files : Call(t, f)) \/ ReadId(t) \/ LookUp(t)

Spec == Init /\ [][Next]_vars

-----------------------------------------------------------------------------
\* A write decides by what its target is now, not by what the FILE, the address or the
\* descriptor stood for before: no escape sequence goes into a file.  What it may be wrong about
\* is a FILE that has come back as it was remembered, and that set_color_mode() was not told of.
KindIsTrue ==
    [][\A t \in Threads :
           (pc[t] = "lookUp" /\ pc'[t] = "out") =>
               \/ kind'[t] = behind[fileno[file[t]]]
               \/ <<file[t], fileno[file[t]]>> \in recurred]_vars

=============================================================================
