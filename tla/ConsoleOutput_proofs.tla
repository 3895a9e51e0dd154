------------------------ MODULE ConsoleOutput_proofs ------------------------
(***************************************************************************)
(* Text is shown in the attributes its call asked for, and the pieces of a *)
(* call are together, for any threads and calls, on a terminal that takes  *)
(* escape sequences and on a legacy console.                               *)
(***************************************************************************)
EXTENDS ConsoleOutput, FiniteSetTheorems, SequenceTheorems, TLAPS

OutputAssumption ==
    /\ Detected \in {"vt", "legacy"}
    /\ Modes \subseteq {"automatic", Detected, "never"}
    /\ CallsAreWellFormed

-----------------------------------------------------------------------------
(* The invariant. *)

AllPlain == [vt |-> Plain, legacy |-> Plain]

OutputTypes ==
    /\ pc \in [Threads -> {"idle", "enter", "write", "newline", "raw"}]
    /\ call \in [Threads -> {<<>>} \cup {<<c>> : c \in Calls}]
    /\ work \in [Threads -> Seq(Items)]
    /\ attrs \in [Threads -> Attributes]
    /\ output \in [Threads -> {Detected, "never"}]
    /\ mode \in {"automatic", Detected, "never"}
    /\ stream \in Seq(Threads \X {"text", "newline", "raw"})

\* Who writes holds the lock.
HolderInv ==
    /\ holder \subseteq Threads /\ \A t, u \in holder : t = u
    /\ \A t \in Threads : t \in holder <=> pc[t] = "write"

\* How the terminal looks, and what the outputs believe, when o is switched to a.
Look(o, a) ==
    /\ o = "vt" =>
           /\ current = [vt |-> a, legacy |-> Plain]
           /\ terminal = [style |-> a.style, fg |-> IF HasCode(a.fg) THEN a.fg ELSE nocolor,
                          bg |-> IF HasCode(a.bg) THEN a.bg ELSE nocolor]
    /\ o = "legacy" =>
           /\ current = [vt |-> Plain, legacy |-> [a EXCEPT !.style = {}]]
           /\ a.fg = nocolor /\ a.bg = nocolor => terminal = Fresh
           /\ Shown(a)
    /\ o = "never" => current = AllPlain /\ terminal = Fresh

\* The terminal looks as whoever holds the lock has switched it, and as ever if nobody does.
LookInv ==
    /\ csbi = Fresh /\ ~spoiled
    /\ holder = {} => Look("never", Plain)
    /\ \A t \in holder : Look(output[t], attrs[t])
    /\ \A t \in Threads : pc[t] # "write" => attrs[t] = Plain

\* Attributes are switched to first, from plain ones.
WorkInv ==
    \A t \in Threads :
        /\ \A i \in 2..Len(work[t]) : work[t][i].kind # "attrs"
        /\ work[t] # <<>> /\ work[t][1].kind = "attrs" => attrs[t] = Plain

IsText(i) == stream[i][2] = "text"

\* Who has written text is in the guard or has left it for good, and has left it if somebody
\* else has written text since.
TextInv ==
    /\ \A t \in Threads : pc[t] # "idle" => call[t] # <<>>
    /\ \A i \in 1..Len(stream) : IsText(i) =>
           pc[stream[i][1]] \in {"write", "newline", "idle"} /\ call[stream[i][1]] # <<>>
    /\ \A i, j \in 1..Len(stream) :
           i < j /\ IsText(i) /\ IsText(j) /\ stream[i][1] # stream[j][1] =>
               pc[stream[i][1]] # "write"
    /\ \A i, j, k \in 1..Len(stream) :
           i < j /\ j < k /\ stream[i] = stream[k] /\ IsText(i) =>
               stream[j] = stream[i] \/ ~IsText(j)

OutputInv == OutputTypes /\ HolderInv /\ LookInv /\ WorkInv /\ TextInv

-----------------------------------------------------------------------------
(* What an output makes of the terminal. *)

LEMMA PlainIsAttributes == Plain \in Attributes /\ AllPlain.vt = Plain /\ AllPlain.legacy = Plain
BY DEF Plain, Attributes, nocolor, AllPlain

LEMMA NocolorHasNoCode == ~HasCode(nocolor)
BY SMT DEF HasCode, Color, nocolor, intensified

\* Plain attributes look as ever, whatever the output.
LEMMA PlainLooks ==
    ASSUME OutputAssumption, NEW o \in {Detected, "never"}, NEW a, Look("never", a)
    PROVE  Look(o, Plain)
<1>1. current = AllPlain /\ terminal = Fresh
    BY DEF Look
<1>2. CASE o = "vt"
    <2>1. terminal = Plain
        BY <1>1, <1>2 DEF OutputAssumption, Fresh
    <2>2. Plain = [style |-> Plain.style,
                   fg |-> IF HasCode(Plain.fg) THEN Plain.fg ELSE nocolor,
                   bg |-> IF HasCode(Plain.bg) THEN Plain.bg ELSE nocolor]
        BY NocolorHasNoCode DEF Plain
    <2> QED BY <1>1, <1>2, <2>1, <2>2 DEF Look, AllPlain
<1>3. CASE o = "legacy"
    <2>1. Plain = [Plain EXCEPT !.style = {}]
        BY DEF Plain
    <2>2. Shown(Plain)
        BY <1>3 DEF Shown, Plain, OutputAssumption
    <2> QED BY <1>1, <1>3, <2>1, <2>2 DEF Look, AllPlain
<1>4. CASE o = "never"
    BY <1>1, <1>4 DEF Look
<1> QED BY <1>2, <1>3, <1>4 DEF OutputAssumption

\* ... and so they do after a step that makes them plain.
LEMMA PlainWillLook ==
    ASSUME OutputAssumption, NEW o \in {Detected, "never"}, current' = AllPlain,
           terminal' = Fresh
    PROVE  Look(o, Plain)'
<1>1. current' = AllPlain /\ terminal' = Fresh' /\ Fresh' = Fresh
    BY DEF Fresh
<1>2. CASE o = "vt"
    <2>1. terminal' = Plain
        BY <1>1, <1>2 DEF OutputAssumption, Fresh
    <2>2. Plain = [style |-> Plain.style,
                   fg |-> IF HasCode(Plain.fg) THEN Plain.fg ELSE nocolor,
                   bg |-> IF HasCode(Plain.bg) THEN Plain.bg ELSE nocolor]
        BY NocolorHasNoCode DEF Plain
    <2> QED BY <1>1, <1>2, <2>1, <2>2 DEF Look, AllPlain
<1>3. CASE o = "legacy"
    <2>1. Plain = [Plain EXCEPT !.style = {}]
        BY DEF Plain
    <2>2. Shown(Plain)'
        BY <1>3 DEF Shown, Plain, OutputAssumption
    <2> QED BY <1>1, <1>3, <2>1, <2>2 DEF Look, AllPlain
<1>4. CASE o = "never"
    BY <1>1, <1>4 DEF Look
<1> QED BY <1>2, <1>3, <1>4 DEF OutputAssumption

\* What is meant is shown.
LEMMA LookShows ==
    ASSUME OutputAssumption, NEW o \in {Detected, "never"}, NEW a \in Attributes, Look(o, a)
    PROVE  Shown(IF o = "never" THEN Plain ELSE a)
<1>1. CASE o = "vt"
    <2>1. Detected = "vt"
        BY <1>1 DEF OutputAssumption
    <2> QED BY <1>1, <2>1 DEF Look, Shown
<1>2. CASE o = "legacy"
    BY <1>2 DEF Look
<1>3. CASE o = "never"
    <2>1. terminal = Fresh
        BY <1>3 DEF Look
    <2>2. CASE Detected = "vt"
        BY <1>3, <2>1, <2>2, NocolorHasNoCode DEF Shown, Fresh, Plain
    <2>3. CASE Detected = "legacy"
        BY <1>3, <2>1, <2>3 DEF Shown, Plain
    <2> QED BY <2>2, <2>3 DEF OutputAssumption
<1> QED BY <1>1, <1>2, <1>3 DEF OutputAssumption

\* Both colours given to the legacy console, over plain ones, are shown.
LEMMA WinColorShows ==
    ASSUME NEW to \in Attributes, terminal' = WinColor(Plain, to, to.style), Detected = "legacy"
    PROVE  Shown(to)'
<1>1. to.fg # nocolor => terminal'.fg \in {to.fg, Brighten(to.fg)}
    BY SMT DEF WinColor, Brighten, Plain, nocolor, Light
<1>2. to.bg # nocolor => terminal'.bg = to.bg
    BY SMT DEF WinColor, Plain, nocolor
<1> QED BY <1>1, <1>2 DEF Shown

\* The escape sequence for what differs from plain ones.
LEMMA SgrShows ==
    ASSUME NEW to \in Attributes
    PROVE  SgrSequence(Plain, to, Plain) =
               [style |-> to.style, fg |-> IF HasCode(to.fg) THEN to.fg ELSE nocolor,
                bg |-> IF HasCode(to.bg) THEN to.bg ELSE nocolor]
<1>1. (IF to.style # {} THEN {} \union to.style ELSE {}) = to.style
    OBVIOUS
<1> QED BY <1>1, NocolorHasNoCode DEF SgrSequence, Plain

LEMMA ChangeLooks ==
    ASSUME OutputAssumption, NEW o \in {Detected, "never"}, NEW to \in Attributes,
           Look("never", Plain), Change(o, to)
    PROVE  Look(o, to)'
<1>1. current = AllPlain /\ terminal = Fresh
    BY DEF Look
<1>2. CASE o = "vt"
    <2>1. terminal' = SgrSequence(Plain, to, Plain) /\ current' = [vt |-> to, legacy |-> Plain]
        BY <1>1, <1>2 DEF Change, Fresh, AllPlain, OutputAssumption
    <2> QED BY <1>2, <2>1, SgrShows DEF Look
<1>3. CASE o = "legacy"
    <2>1. /\ terminal' = IF to.fg # nocolor \/ to.bg # nocolor
                         THEN WinColor(Plain, to, to.style) ELSE Fresh
          /\ current' = [vt |-> Plain, legacy |-> [to EXCEPT !.style = {}]]
        BY <1>1, <1>3 DEF Change, AllPlain, Plain
    <2>2. Detected = "legacy"
        BY <1>3 DEF OutputAssumption
    <2>3. Shown(to)'
        <3>1. CASE to.fg # nocolor \/ to.bg # nocolor
            BY <2>1, <2>2, <3>1, WinColorShows
        <3>2. CASE to.fg = nocolor /\ to.bg = nocolor
            BY <2>2, <3>2 DEF Shown
        <3> QED BY <3>1, <3>2
    <2> QED BY <1>3, <2>1, <2>3 DEF Look, Fresh
<1>4. CASE o = "never"
    BY <1>1, <1>4 DEF Change, Look, Fresh, AllPlain
<1> QED BY <1>2, <1>3, <1>4 DEF OutputAssumption

\* A reset brings the terminal back to what it was.
LEMMA AfterResetIsFresh ==
    ASSUME OutputAssumption, NEW o \in {Detected, "never"}, NEW a \in Attributes, Look(o, a),
           csbi = Fresh
    PROVE  AfterReset(o) = Fresh
<1>1. CASE o = "vt"
    <2>1. Detected = "vt" /\ Fresh = Plain
        BY <1>1 DEF OutputAssumption, Fresh
    <2>2. CASE a = Plain
        <3>1. terminal = Plain
            BY <1>1, <2>2, NocolorHasNoCode DEF Look, Plain
        <3> QED BY <1>1, <2>1, <3>1 DEF AfterReset
    <2>3. CASE a # Plain
        BY <1>1, <2>1, <2>3 DEF AfterReset, Look
    <2> QED BY <2>2, <2>3
<1>2. CASE o = "legacy"
    <2>1. current.legacy = [a EXCEPT !.style = {}]
        BY <1>2 DEF Look
    <2>2. CASE current.legacy = Plain
        <3>1. a.fg = nocolor /\ a.bg = nocolor
            BY <2>1, <2>2 DEF Plain, Attributes
        <3> QED BY <1>2, <2>2, <3>1 DEF AfterReset, Look
    <2>3. CASE current.legacy # Plain
        BY <1>2, <2>3 DEF AfterReset
    <2> QED BY <2>2, <2>3
<1>3. CASE o = "never"
    BY <1>3 DEF AfterReset, Look
<1> QED BY <1>1, <1>2, <1>3 DEF OutputAssumption

LEMMA ResetLooks ==
    ASSUME OutputAssumption, NEW o \in {Detected, "never"}, NEW a \in Attributes, Look(o, a),
           csbi = Fresh, Reset(o)
    PROVE  Look("never", Plain)'
<1>1. terminal' = Fresh
    BY AfterResetIsFresh DEF Reset
<1>2. current' = AllPlain
    BY DEF Reset, Look, AllPlain, OutputAssumption
<1> QED BY <1>1, <1>2 DEF Look, Fresh, AllPlain

LEMMA ResetAndChangeLooks ==
    ASSUME OutputAssumption, NEW o \in {Detected, "never"}, NEW a \in Attributes, Look(o, a),
           csbi = Fresh, NEW to \in Attributes, ResetAndChange(o, to)
    PROVE  Look(o, to)'
<1>1. CASE o = "vt"
    <2>1. AfterReset("vt") = Plain
        BY <1>1, AfterResetIsFresh DEF Fresh, OutputAssumption
    <2>2. terminal' = SgrSequence(Plain, to, Plain) /\ current' = [vt |-> to, legacy |-> Plain]
        BY <1>1, <2>1 DEF ResetAndChange, Look
    <2> QED BY <1>1, <2>2, SgrShows DEF Look
<1>2. CASE o = "legacy"
    <2>1. AfterReset("legacy") = Fresh /\ Detected = "legacy"
        BY <1>2, AfterResetIsFresh DEF OutputAssumption
    <2>2. /\ terminal' = IF to.fg # nocolor \/ to.bg # nocolor
                         THEN WinColor(Plain, to, to.style) ELSE Fresh
          /\ current' = [vt |-> Plain, legacy |-> [to EXCEPT !.style = {}]]
        BY <1>2, <2>1 DEF ResetAndChange, Look
    <2>3. Shown(to)'
        <3>1. CASE to.fg # nocolor \/ to.bg # nocolor
            BY <2>1, <2>2, <3>1, WinColorShows
        <3>2. CASE to.fg = nocolor /\ to.bg = nocolor
            BY <2>1, <3>2 DEF Shown
        <3> QED BY <3>1, <3>2
    <2> QED BY <1>2, <2>2, <2>3 DEF Look, Fresh
<1>3. CASE o = "never"
    BY <1>3 DEF ResetAndChange, Look, Fresh, AllPlain
<1> QED BY <1>1, <1>2, <1>3 DEF OutputAssumption

-----------------------------------------------------------------------------
(* Markup. *)

\* A word of markup leaves a triple of attributes.
LEMMA UpdatedAttributes ==
    ASSUME NEW a \in Attributes, NEW word \in [at : BOOLEAN, light : BOOLEAN, name : STRING]
    PROVE  UpdateAttrs(word, a) \in Attributes
<1>1. \A c \in Nat : Brighten(c) \in Nat
    BY SMT DEF Brighten, nocolor, intensified
<1>2. \A c \in GetColor(word) : c \in Nat
    <2>1. CASE word.name \notin DOMAIN ColorNames
        BY <2>1 DEF GetColor
    <2>2. CASE word.name \in DOMAIN ColorNames
        <3>1. ColorNames[word.name] \in Nat
            BY <2>2, SMT DEF ColorNames
        <3> QED BY <2>2, <3>1, SMT DEF GetColor, intensified, nocolor
    <2> QED BY <2>1, <2>2
<1>3. GetColor(word) # {} => (CHOOSE c \in GetColor(word) : TRUE) \in Nat
    BY <1>2
<1>4. /\ a.style \in SUBSET Styles /\ a.fg \in Nat /\ a.bg \in Nat
      /\ \A n \in Nat : [a EXCEPT !.fg = n] \in Attributes /\ [a EXCEPT !.bg = n] \in Attributes
      /\ \A s \in SUBSET Styles : [a EXCEPT !.style = s] \in Attributes
    BY DEF Attributes
<1> HIDE DEF Attributes
<1> QED BY <1>1, <1>3, <1>4, PlainIsAttributes DEF UpdateAttrs

LEMMA ResetWordIsPlain ==
    ASSUME NEW a, NEW word, IsReset(word)
    PROVE  UpdateAttrs(word, a) = Plain
<1>1. /\ ~word.at /\ ~word.light /\ word.name \in {"reset", "clear"}
      /\ word.name \notin DOMAIN ColorNames /\ word.name \notin Styles
    BY DEF IsReset, ColorNames, Styles
<1>2. GetColor(word) = {} /\ ~IsIntensified(word) /\ word.name # "nostyle"
    BY <1>1 DEF GetColor, IsIntensified
<1> QED BY <1>1, <1>2 DEF UpdateAttrs

-----------------------------------------------------------------------------
(* The beginning. *)

LEMMA OutputInit == OutputAssumption /\ Init => OutputInv
<1> SUFFICES ASSUME OutputAssumption, Init PROVE OutputInv
    OBVIOUS
<1>1. OutputTypes
    BY PlainIsAttributes, SMT DEF Init, OutputTypes
<1>2. HolderInv
    BY DEF Init, HolderInv
<1>3. LookInv
    BY DEF Init, LookInv, Look, AllPlain
<1>4. WorkInv
    BY SMT DEF Init, WorkInv
<1>5. TextInv
    BY SMT DEF Init, TextInv
<1> QED BY <1>1, <1>2, <1>3, <1>4, <1>5 DEF OutputInv

-----------------------------------------------------------------------------
(* The steps. *)

\* What is kept when nothing is written and nobody enters or leaves the guard.
LEMMA OutsideSteps ==
    ASSUME OutputInv, NEW t \in Threads, pc[t] # "write",
           NEW where \in {"idle", "enter", "newline", "raw"}, pc' = [pc EXCEPT ![t] = where],
           UNCHANGED <<holder, current, terminal, csbi, spoiled, attrs>>,
           \A u \in Threads : u # t => output'[u] = output[u]
    PROVE  HolderInv' /\ LookInv'
<1>1. OutputTypes /\ HolderInv /\ LookInv
    BY DEF OutputInv
<1>2. \A u \in Threads : pc'[u] = "write" <=> pc[u] = "write"
    BY <1>1, SMT DEF OutputTypes
<1>3. HolderInv'
    BY <1>1, <1>2 DEF HolderInv
<1>4. \A o, a : Look(o, a)' <=> Look(o, a)
    BY DEF Look, Shown, Fresh, AllPlain
<1>5. \A u \in holder' : Look(output[u], attrs[u])'
    <2> SUFFICES ASSUME NEW u \in holder PROVE Look(output[u], attrs[u])'
        OBVIOUS
    <2>1. u \in Threads /\ u # t
        BY <1>1 DEF HolderInv
    <2>2. output'[u] = output[u] /\ attrs'[u] = attrs[u]
        BY <2>1
    <2>3. Look(output[u], attrs[u])
        BY <1>1 DEF LookInv
    <2> QED BY <2>2, <2>3 DEF Look, Shown, Fresh, AllPlain
<1>6. LookInv'
    BY <1>1, <1>2, <1>4, <1>5 DEF LookInv, Fresh
<1> QED BY <1>3, <1>6

\* What is kept when the stream is as it was, and whoever has written text does not come back.
LEMMA QuietTexts ==
    ASSUME OutputInv, UNCHANGED stream, \A u \in Threads : pc'[u] # "idle" => call'[u] # <<>>,
           \A u \in Threads : pc[u] \in {"write", "newline", "idle"} /\ call[u] # <<>> =>
               /\ pc'[u] \in {"write", "newline", "idle"} /\ call'[u] # <<>>
               /\ pc[u] # "write" => pc'[u] # "write"
    PROVE  TextInv'
<1>1. OutputTypes /\ TextInv
    BY DEF OutputInv
<1>2. \A i \in 1..Len(stream) : stream[i][1] \in Threads
    BY <1>1 DEF OutputTypes
<1>3. \A i : IsText(i)' = IsText(i)
    BY DEF IsText
<1>4. ASSUME NEW i \in 1..Len(stream), IsText(i)
      PROVE  /\ pc'[stream[i][1]] \in {"write", "newline", "idle"} /\ call'[stream[i][1]] # <<>>
             /\ pc[stream[i][1]] # "write" => pc'[stream[i][1]] # "write"
    <2>1. pc[stream[i][1]] \in {"write", "newline", "idle"} /\ call[stream[i][1]] # <<>>
        BY <1>1, <1>4 DEF TextInv
    <2> QED BY <1>2, <2>1
<1>5. ASSUME NEW i \in 1..Len(stream), NEW j \in 1..Len(stream), i < j, IsText(i), IsText(j),
             stream[i][1] # stream[j][1]
      PROVE  pc'[stream[i][1]] # "write"
    <2>1. pc[stream[i][1]] # "write"
        BY <1>1, <1>5 DEF TextInv
    <2> QED BY <1>4, <1>5, <2>1
<1> QED BY <1>1, <1>3, <1>4, <1>5 DEF TextInv

LEMMA SetColorModeSteps ==
    ASSUME OutputAssumption, OutputInv, NEW m \in Modes, SetColorMode(m)
    PROVE  OutputInv'
<1>1. mode' = m
      /\ UNCHANGED <<pc, call, work, attrs, output, holder, current, csbi, terminal, stream,
                     spoiled>>
    BY DEF SetColorMode
<1>2. OutputTypes /\ HolderInv /\ LookInv /\ WorkInv /\ TextInv
    BY DEF OutputInv
<1>3. OutputTypes'
    BY <1>1, <1>2 DEF OutputTypes, OutputAssumption
<1>4. LookInv'
    BY <1>1, <1>2 DEF LookInv, Look, Shown, Fresh, AllPlain
<1>5. TextInv'
    BY <1>1, <1>2 DEF TextInv, IsText
<1> QED BY <1>1, <1>2, <1>3, <1>4, <1>5 DEF OutputInv, HolderInv, WorkInv

LEMMA BeginSteps ==
    ASSUME OutputAssumption, OutputInv, NEW t \in Threads, NEW c \in Calls, Begin(t, c)
    PROVE  OutputInv'
<1>1. /\ pc[t] = "idle" /\ call[t] = <<>>
      /\ call' = [call EXCEPT ![t] = <<c>>]
      /\ work' = [work EXCEPT ![t] = c.items]
      /\ output' = [output EXCEPT ![t] = ResolveColorMode]
      /\ pc' = [pc EXCEPT ![t] = IF c.raw THEN "raw" ELSE "enter"]
      /\ UNCHANGED <<attrs, mode, holder, current, csbi, terminal, stream, spoiled>>
    BY DEF Begin
<1>2. OutputTypes /\ HolderInv /\ LookInv /\ WorkInv /\ TextInv
    BY DEF OutputInv
<1>3. /\ c.items \in Seq(Items)
      /\ \A i \in 2..Len(c.items) : c.items[i].kind # "attrs"
    BY DEF OutputAssumption, CallsAreWellFormed
<1>4. ResolveColorMode \in {Detected, "never"}
    BY <1>2 DEF OutputTypes, OutputAssumption, ResolveColorMode
<1>5. OutputTypes'
    <2>1. work' \in [Threads -> Seq(Items)]
        BY <1>1, <1>2, <1>3 DEF OutputTypes
    <2>2. pc' \in [Threads -> {"idle", "enter", "write", "newline", "raw"}]
        BY <1>1, <1>2 DEF OutputTypes
    <2>3. output' \in [Threads -> {Detected, "never"}]
        BY <1>1, <1>2, <1>4 DEF OutputTypes
    <2>4. call' \in [Threads -> {<<>>} \cup {<<d>> : d \in Calls}]
        <3>1. <<c>> \in {<<>>} \cup {<<d>> : d \in Calls}
            OBVIOUS
        <3> QED BY <1>1, <1>2, <3>1 DEF OutputTypes
    <2> QED BY <1>1, <1>2, <2>1, <2>2, <2>3, <2>4 DEF OutputTypes
<1>6. HolderInv' /\ LookInv'
    <2>1. PICK where \in {"raw", "enter"} : pc' = [pc EXCEPT ![t] = where]
        BY <1>1
    <2>2. \A u \in Threads : u # t => output'[u] = output[u]
        BY <1>1, <1>2 DEF OutputTypes
    <2> QED BY <1>1, <2>1, <2>2, OutsideSteps
<1>7. WorkInv'
    <2>1. work'[t] = c.items /\ \A u \in Threads : u # t => work'[u] = work[u]
        BY <1>1, <1>2 DEF OutputTypes
    <2>2. attrs'[t] = Plain
        BY <1>1, <1>2 DEF LookInv
    <2> QED BY <1>1, <1>2, <1>3, <2>1, <2>2 DEF WorkInv
<1>8. TextInv'
    <2>1. \A u \in Threads : call[u] # <<>> => pc'[u] = pc[u] /\ call'[u] = call[u]
        BY <1>1, <1>2 DEF OutputTypes
    <2>2. call'[t] # <<>> /\ \A u \in Threads : u # t => pc'[u] = pc[u] /\ call'[u] = call[u]
        BY <1>1, <1>2 DEF OutputTypes
    <2>3. \A u \in Threads : pc'[u] # "idle" => call'[u] # <<>>
        BY <1>2, <2>2 DEF TextInv
    <2> QED BY <1>1, <2>1, <2>3, QuietTexts
<1> QED BY <1>5, <1>6, <1>7, <1>8 DEF OutputInv

LEMMA EnterSteps ==
    ASSUME OutputAssumption, OutputInv, NEW t \in Threads, Enter(t)
    PROVE  OutputInv'
<1>1. /\ pc[t] = "enter" /\ holder = {} /\ holder' = {t}
      /\ csbi' = IF output[t] = "legacy" THEN terminal ELSE csbi
      /\ pc' = [pc EXCEPT ![t] = "write"]
      /\ UNCHANGED <<call, work, attrs, output, mode, current, terminal, stream, spoiled>>
    BY DEF Enter
<1>2. OutputTypes /\ HolderInv /\ LookInv /\ WorkInv /\ TextInv
    BY DEF OutputInv
<1>3. OutputTypes'
    BY <1>1, <1>2 DEF OutputTypes
<1>4. HolderInv'
    BY <1>1, <1>2 DEF HolderInv, OutputTypes
<1>5. LookInv'
    <2>1. Look("never", Plain) /\ attrs[t] = Plain /\ output[t] \in {Detected, "never"}
        BY <1>1, <1>2 DEF LookInv, OutputTypes
    <2>2. csbi' = Fresh'
        BY <1>1, <1>2, <2>1 DEF LookInv, Look, Fresh
    <2>3. Look(output[t], Plain)
        BY <2>1, PlainLooks
    <2>4. Look(output[t], attrs[t])'
        BY <1>1, <2>1, <2>3 DEF Look, Shown, Fresh, AllPlain
    <2>5. \A u \in Threads : pc'[u] # "write" => attrs'[u] = Plain
        BY <1>1, <1>2 DEF OutputTypes, LookInv
    <2> QED BY <1>1, <1>2, <2>2, <2>4, <2>5 DEF LookInv
<1>6. WorkInv'
    BY <1>1, <1>2 DEF WorkInv
<1>7. TextInv'
    <2>1. \A u \in Threads : pc[u] # "enter" => pc'[u] = pc[u]
        BY <1>1, <1>2 DEF OutputTypes
    <2>2. \A u \in Threads : pc'[u] # "idle" => pc[u] # "idle"
        BY <1>1, <1>2 DEF OutputTypes
    <2>3. \A u \in Threads : pc'[u] # "idle" => call'[u] # <<>>
        BY <1>1, <1>2, <2>2 DEF TextInv
    <2> QED BY <1>1, <2>1, <2>3, QuietTexts
<1> QED BY <1>3, <1>4, <1>5, <1>6, <1>7 DEF OutputInv

\* What the stream has one more of is the last.
LEMMA OneMore ==
    ASSUME OutputTypes, NEW t \in Threads, NEW what \in {"text", "newline", "raw"},
           stream' = Append(stream, <<t, what>>)
    PROVE  /\ Len(stream) \in Nat /\ Len(stream') = Len(stream) + 1
           /\ \A i \in 1..Len(stream') : i \in 1..Len(stream) \/ i = Len(stream')
           /\ \A i \in 1..Len(stream) : stream'[i] = stream[i] /\ IsText(i)' = IsText(i)
                                        /\ stream[i][1] \in Threads
                                        /\ stream[i] = <<stream[i][1], stream[i][2]>>
           /\ stream'[Len(stream')] = <<t, what>>
<1>1. stream \in Seq(Threads \X {"text", "newline", "raw"}) /\ Len(stream) \in Nat
    BY DEF OutputTypes
<1>2. /\ Len(stream') = Len(stream) + 1 /\ stream'[Len(stream) + 1] = <<t, what>>
      /\ \A i \in 1..Len(stream) : stream'[i] = stream[i]
    BY <1>1, AppendProperties
<1>3. \A i \in 1..(Len(stream) + 1) : i \in 1..Len(stream) \/ i = Len(stream) + 1
    BY <1>1, SMT
<1>4. \A i \in 1..Len(stream) :
          stream[i][1] \in Threads /\ stream[i] = <<stream[i][1], stream[i][2]>>
    BY <1>1
<1> QED BY <1>1, <1>2, <1>3, <1>4 DEF IsText

\* The writer in the guard is the only one whose text may come: the others are done.
LEMMA WriterTexts ==
    ASSUME OutputInv, NEW t \in Threads, pc[t] = "write", UNCHANGED <<pc, call>>,
           stream' = Append(stream, <<t, "text">>)
    PROVE  TextInv'
<1>1. OutputTypes /\ HolderInv /\ TextInv
    BY DEF OutputInv
<1> DEFINE n == Len(stream')
<1>2. /\ n \in Nat /\ \A i \in 1..n : i \in 1..Len(stream) \/ i = n
      /\ \A i \in 1..Len(stream) : i < n
      /\ \A i \in 1..Len(stream) : stream'[i] = stream[i] /\ IsText(i)' = IsText(i)
                                   /\ stream[i][1] \in Threads
                                   /\ stream[i] = <<stream[i][1], stream[i][2]>>
      /\ stream'[n] = <<t, "text">>
    BY <1>1, OneMore
<1> HIDE DEF n
<1>3. call[t] # <<>> /\ \A u \in Threads : u # t => pc[u] # "write"
    BY <1>1 DEF TextInv, HolderInv
<1>4. ASSUME NEW i \in 1..n, IsText(i)'
      PROVE  /\ pc[stream'[i][1]] \in {"write", "newline", "idle"} /\ call[stream'[i][1]] # <<>>
             /\ stream'[i][1] \in Threads
    <2>1. CASE i = n
        BY <1>2, <1>3, <2>1
    <2>2. CASE i \in 1..Len(stream)
        BY <1>1, <1>2, <1>4, <2>2 DEF TextInv
    <2> QED BY <1>2, <2>1, <2>2
<1>5. ASSUME NEW i \in 1..n, NEW j \in 1..n, i < j, IsText(i)', IsText(j)',
             stream'[i][1] # stream'[j][1]
      PROVE  pc[stream'[i][1]] # "write"
    <2>1. i \in 1..Len(stream)
        BY <1>2, <1>5, SMT
    <2>2. CASE j = n
        <3>1. stream'[j][1] = t /\ stream'[i][1] # t /\ stream'[i][1] \in Threads
            BY <1>2, <1>5, <2>1, <2>2
        <3> QED BY <1>3, <3>1
    <2>3. CASE j \in 1..Len(stream)
        BY <1>1, <1>2, <1>5, <2>1, <2>3 DEF TextInv
    <2> QED BY <1>2, <2>2, <2>3
<1>6. ASSUME NEW i \in 1..n, NEW j \in 1..n, NEW k \in 1..n, i < j, j < k,
             stream'[i] = stream'[k], IsText(i)', stream'[j] # stream'[i], IsText(j)'
      PROVE  FALSE
    <2>1. i \in 1..Len(stream) /\ j \in 1..Len(stream)
        BY <1>2, <1>6, SMT
    <2>2. CASE k = n
        <3>1. stream[i] = <<t, "text">> /\ stream[i][1] = t
            BY <1>2, <1>6, <2>1, <2>2
        <3>2. IsText(i) /\ IsText(j) /\ stream[j] = <<stream[j][1], "text">>
            BY <1>2, <1>6, <2>1 DEF IsText
        <3>3. stream[i][1] # stream[j][1]
            BY <1>2, <1>6, <2>1, <3>1, <3>2
        <3> QED BY <1>1, <1>6, <2>1, <3>1, <3>2, <3>3 DEF TextInv
    <2>3. CASE k \in 1..Len(stream)
        BY <1>1, <1>2, <1>6, <2>1, <2>3 DEF TextInv
    <2> QED BY <1>2, <2>2, <2>3
<1> QED BY <1>1, <1>4, <1>5, <1>6 DEF TextInv, n

\* A newline and raw markup are no text.
LEMMA OtherTexts ==
    ASSUME OutputInv, NEW t \in Threads, NEW what \in {"newline", "raw"},
           stream' = Append(stream, <<t, what>>), UNCHANGED call,
           \A u \in Threads : pc'[u] # "idle" => call'[u] # <<>>,
           \A u \in Threads : pc[u] \in {"write", "newline", "idle"} =>
               pc'[u] \in {"write", "newline", "idle"} /\ (pc[u] # "write" => pc'[u] # "write")
    PROVE  TextInv'
<1>1. OutputTypes /\ TextInv
    BY DEF OutputInv
<1> DEFINE n == Len(stream')
<1>2. /\ n \in Nat /\ \A i \in 1..n : i \in 1..Len(stream) \/ i = n
      /\ \A i \in 1..Len(stream) : i < n
      /\ \A i \in 1..Len(stream) : stream'[i] = stream[i] /\ IsText(i)' = IsText(i)
                                   /\ stream[i][1] \in Threads
      /\ stream'[n] = <<t, what>>
    BY <1>1, OneMore
<1> HIDE DEF n
<1>3. \A i \in 1..n : IsText(i)' => i \in 1..Len(stream)
    BY <1>2 DEF IsText
<1>4. ASSUME NEW i \in 1..n, IsText(i)'
      PROVE  /\ pc'[stream'[i][1]] \in {"write", "newline", "idle"} /\ call'[stream'[i][1]] # <<>>
             /\ pc[stream'[i][1]] # "write" => pc'[stream'[i][1]] # "write"
    <2>1. i \in 1..Len(stream) /\ IsText(i) /\ stream'[i] = stream[i]
        BY <1>2, <1>3, <1>4
    <2>2. pc[stream[i][1]] \in {"write", "newline", "idle"} /\ call[stream[i][1]] # <<>>
        BY <1>1, <2>1 DEF TextInv
    <2> QED BY <1>2, <2>1, <2>2
<1>5. ASSUME NEW i \in 1..n, NEW j \in 1..n, i < j, IsText(i)', IsText(j)',
             stream'[i][1] # stream'[j][1]
      PROVE  pc'[stream'[i][1]] # "write"
    <2>1. i \in 1..Len(stream) /\ j \in 1..Len(stream)
        BY <1>3, <1>5
    <2>2. pc[stream[i][1]] # "write"
        BY <1>1, <1>2, <1>5, <2>1 DEF TextInv
    <2> QED BY <1>2, <1>4, <1>5, <2>1, <2>2
<1>6. ASSUME NEW i \in 1..n, NEW j \in 1..n, NEW k \in 1..n, i < j, j < k,
             stream'[i] = stream'[k], IsText(i)', stream'[j] # stream'[i], IsText(j)'
      PROVE  FALSE
    <2>1. IsText(k)'
        BY <1>6 DEF IsText
    <2>2. i \in 1..Len(stream) /\ j \in 1..Len(stream) /\ k \in 1..Len(stream)
        BY <1>3, <1>6, <2>1
    <2> QED BY <1>1, <1>2, <1>6, <2>2 DEF TextInv
<1> QED BY <1>4, <1>5, <1>6 DEF TextInv, n

\* A piece of a call: the three kinds.
LEMMA WriteSteps ==
    ASSUME OutputAssumption, OutputInv, NEW t \in Threads, Write(t)
    PROVE  OutputInv'
<1> DEFINE item == Head(work[t])
<1>1. /\ pc[t] = "write" /\ work[t] # <<>>
      /\ work' = [work EXCEPT ![t] = Tail(work[t])]
      /\ UNCHANGED <<pc, call, output, mode, holder, csbi>>
    BY DEF Write
<1>2. OutputTypes /\ HolderInv /\ LookInv /\ WorkInv /\ TextInv
    BY DEF OutputInv
<1>3. /\ work[t] \in Seq(Items) /\ Len(work[t]) \in Nat /\ Len(work[t]) >= 1
      /\ item = work[t][1] /\ item \in Items
      /\ Tail(work[t]) \in Seq(Items) /\ Len(Tail(work[t])) = Len(work[t]) - 1
      /\ \A i \in 1..Len(Tail(work[t])) : Tail(work[t])[i] = work[t][i + 1]
    <2>1. work[t] \in Seq(Items)
        BY <1>2 DEF OutputTypes
    <2> HIDE DEF item
    <2>2. item = work[t][1]
        BY <1>1, <2>1 DEF item
    <2> QED BY <1>1, <2>1, <2>2, SMT
<1>4. /\ t \in holder /\ \A u \in Threads : u \in holder <=> u = t
      /\ Look(output[t], attrs[t]) /\ csbi = Fresh
      /\ output[t] \in {Detected, "never"} /\ attrs[t] \in Attributes
    BY <1>1, <1>2 DEF HolderInv, LookInv, OutputTypes
<1>5. work' \in [Threads -> Seq(Items)]
    BY <1>1, <1>2, <1>3 DEF OutputTypes
<1>6. \A i \in 1..Len(work'[t]) : work'[t][i].kind # "attrs"
    <2>1. work'[t] = Tail(work[t])
        BY <1>1, <1>2 DEF OutputTypes
    <2> SUFFICES ASSUME NEW i \in 1..Len(Tail(work[t])) PROVE Tail(work[t])[i].kind # "attrs"
        BY <2>1
    <2>2. Tail(work[t])[i] = work[t][i + 1] /\ i + 1 \in 2..Len(work[t])
        BY <1>3, SMT
    <2> QED BY <1>2, <2>2 DEF WorkInv
<1>7. ASSUME \A u \in Threads : u # t => attrs'[u] = attrs[u]
      PROVE  WorkInv'
    <2> SUFFICES ASSUME NEW u \in Threads
                 PROVE  /\ \A i \in 2..Len(work'[u]) : work'[u][i].kind # "attrs"
                        /\ work'[u] # <<>> /\ work'[u][1].kind = "attrs" => attrs'[u] = Plain
        BY DEF WorkInv
    <2>1. CASE u = t
        <3>1. work'[t] # <<>> => 1 \in 1..Len(work'[t])
            BY <1>5, SMT
        <3>2. \A i \in 2..Len(work'[t]) : i \in 1..Len(work'[t])
            BY SMT
        <3> QED BY <1>6, <2>1, <3>1, <3>2
    <2>2. CASE u # t
        BY <1>1, <1>2, <1>7, <2>2 DEF WorkInv, OutputTypes
    <2> QED BY <2>1, <2>2
<1> PICK o \in {Detected, "never"} : o = output[t]
    BY <1>4
<1> PICK a \in Attributes : a = attrs[t]
    BY <1>4
<1>8. ASSUME NEW to \in Attributes, attrs' = [attrs EXCEPT ![t] = to],
             Look(o, to)', UNCHANGED <<stream, spoiled>>
      PROVE  OutputInv'
    <2>1. attrs' \in [Threads -> Attributes] /\ attrs'[t] = to
          /\ \A u \in Threads : u # t => attrs'[u] = attrs[u]
        BY <1>2, <1>8 DEF OutputTypes
    <2>2. OutputTypes'
        BY <1>1, <1>2, <1>5, <1>8, <2>1 DEF OutputTypes
    <2>3. HolderInv'
        BY <1>1, <1>2 DEF HolderInv
    <2>4. LookInv'
        <3>1. Look(output[t], attrs[t])'
            <4>1. output'[t] = o /\ attrs'[t] = to
                BY <1>1, <2>1
            <4> QED BY <1>8, <4>1
        <3>2. \A u \in holder' : u = t
            BY <1>1, <1>2, <1>4 DEF HolderInv
        <3>3. \A u \in Threads : pc'[u] # "write" => attrs'[u] = Plain
            BY <1>1, <1>2, <2>1 DEF LookInv
        <3> QED BY <1>1, <1>2, <1>4, <1>8, <3>1, <3>2, <3>3 DEF LookInv, Fresh
    <2>5. WorkInv'
        BY <1>7, <2>1
    <2>6. TextInv'
        <3>1. \A u \in Threads : pc'[u] # "idle" => call'[u] # <<>>
            BY <1>1, <1>2 DEF TextInv
        <3> QED BY <1>1, <1>8, <3>1, QuietTexts
    <2> QED BY <2>2, <2>3, <2>4, <2>5, <2>6 DEF OutputInv
<1> HIDE DEF item
<1>9. CASE /\ item.kind = "attrs" /\ attrs' = [attrs EXCEPT ![t] = item.attrs]
           /\ Change(output[t], item.attrs) /\ UNCHANGED <<stream, spoiled>>
    <2>1. PICK to \in Attributes : to = item.attrs
        BY <1>3, <1>9 DEF Items
    <2>2. a = Plain
        BY <1>1, <1>2, <1>3, <1>9 DEF WorkInv
    <2>3. Look("never", Plain)
        <3>1. CASE o = "vt"
            <4>1. current = AllPlain /\ terminal = Plain
                BY <1>4, <2>2, <3>1, NocolorHasNoCode DEF Look, AllPlain, Plain
            <4> QED BY <3>1, <4>1 DEF Look, Fresh, OutputAssumption
        <3>2. CASE o = "legacy"
            <4>1. [Plain EXCEPT !.style = {}] = Plain /\ Plain.fg = nocolor /\ Plain.bg = nocolor
                BY DEF Plain
            <4> QED BY <1>4, <2>2, <3>2, <4>1 DEF Look, AllPlain
        <3>3. CASE o = "never"
            BY <1>4, <3>3 DEF Look
        <3> QED BY <3>1, <3>2, <3>3 DEF OutputAssumption
    <2>4. Look(o, to)'
        BY <1>9, <2>1, <2>3, ChangeLooks
    <2> QED BY <1>8, <1>9, <2>1, <2>4
<1>10. CASE /\ item.kind = "word"
            /\ attrs' = [attrs EXCEPT ![t] = UpdateAttrs(item.word, attrs[t])]
            /\ IF IsReset(item.word) THEN Reset(output[t])
               ELSE ResetAndChange(output[t], UpdateAttrs(item.word, attrs[t]))
            /\ UNCHANGED <<stream, spoiled>>
    <2>1. item.word \in [at : BOOLEAN, light : BOOLEAN, name : STRING]
        BY <1>3, <1>10 DEF Items
    <2>2. PICK to \in Attributes : to = UpdateAttrs(item.word, a)
        BY <2>1, UpdatedAttributes
    <2>3. Look(o, to)'
        <3>1. CASE IsReset(item.word)
            <4>1. to = Plain
                BY <2>2, <3>1, ResetWordIsPlain
            <4>2. Look("never", Plain)'
                BY <1>4, <1>10, <3>1, ResetLooks
            <4>3. csbi' = Fresh /\ current' = AllPlain /\ terminal' = Fresh
                BY <1>1, <1>4, <4>2 DEF Look, AllPlain, Fresh
            <4>4. Look(o, Plain)'
                BY <4>3, PlainWillLook
            <4> QED BY <4>1, <4>4
        <3>2. CASE ~IsReset(item.word)
            BY <1>4, <1>10, <2>2, <3>2, ResetAndChangeLooks
        <3> QED BY <3>1, <3>2
    <2> QED BY <1>8, <1>10, <2>2, <2>3
<1>11. CASE /\ item.kind = "text" /\ Says(t, "text")
            /\ spoiled' = (spoiled \/ ~Shown(IF output[t] = "never" THEN Plain ELSE attrs[t]))
            /\ UNCHANGED <<attrs, current, terminal>>
    <2>1. stream' = Append(stream, <<t, "text">>) /\ attrs' = attrs
        BY <1>11 DEF Says
    <2>2. stream \in Seq(Threads \X {"text", "newline", "raw"})
        BY <1>2 DEF OutputTypes
    <2>3. OutputTypes'
        <3>1. stream' \in Seq(Threads \X {"text", "newline", "raw"})
            BY <2>1, <2>2, AppendProperties
        <3> QED BY <1>1, <1>2, <1>5, <2>1, <3>1 DEF OutputTypes
    <2>4. HolderInv'
        BY <1>1, <1>2 DEF HolderInv
    <2>5. LookInv'
        <3>1. Shown(IF output[t] = "never" THEN Plain ELSE attrs[t])
            BY <1>4, LookShows
        <3>2. ~spoiled'
            BY <1>2, <1>11, <3>1 DEF LookInv
        <3>3. Look(output[t], attrs[t])'
            BY <1>1, <1>4, <1>11 DEF Look, Shown, Fresh, AllPlain
        <3>4. \A u \in holder' : u = t
            BY <1>1, <1>2, <1>4 DEF HolderInv
        <3>5. \A u \in Threads : pc'[u] # "write" => attrs'[u] = Plain
            BY <1>1, <1>2, <2>1 DEF LookInv
        <3> QED BY <1>1, <1>2, <1>4, <3>2, <3>3, <3>4, <3>5 DEF LookInv, Fresh
    <2>6. WorkInv'
        BY <1>7, <2>1
    <2>7. TextInv'
        BY <1>1, <1>2, <2>1, WriterTexts
    <2> QED BY <2>3, <2>4, <2>5, <2>6, <2>7 DEF OutputInv
<1> QED BY <1>9, <1>10, <1>11 DEF Write, item

LEMMA LeaveSteps ==
    ASSUME OutputAssumption, OutputInv, NEW t \in Threads, Leave(t)
    PROVE  OutputInv'
<1>1. /\ pc[t] = "write" /\ Reset(output[t]) /\ holder' = {}
      /\ attrs' = [attrs EXCEPT ![t] = Plain]
      /\ pc' = [pc EXCEPT ![t] = IF call[t][1].newline THEN "newline" ELSE "idle"]
      /\ UNCHANGED <<call, work, output, mode, csbi, stream, spoiled>>
    BY DEF Leave
<1>2. OutputTypes /\ HolderInv /\ LookInv /\ WorkInv /\ TextInv
    BY DEF OutputInv
<1>3. /\ pc' \in [Threads -> {"idle", "enter", "write", "newline", "raw"}]
      /\ pc'[t] \in {"newline", "idle"} /\ \A u \in Threads : u # t => pc'[u] = pc[u]
    BY <1>1, <1>2 DEF OutputTypes
<1>4. /\ attrs' \in [Threads -> Attributes] /\ attrs'[t] = Plain
      /\ \A u \in Threads : u # t => attrs'[u] = attrs[u]
    BY <1>1, <1>2, PlainIsAttributes DEF OutputTypes
<1>5. /\ t \in holder /\ Look(output[t], attrs[t]) /\ csbi = Fresh
      /\ output[t] \in {Detected, "never"} /\ attrs[t] \in Attributes
    BY <1>1, <1>2 DEF HolderInv, LookInv, OutputTypes
<1>6. OutputTypes'
    BY <1>1, <1>2, <1>3, <1>4 DEF OutputTypes
<1>7. \A u \in Threads : u # t => pc[u] # "write"
    BY <1>2, <1>5 DEF HolderInv
<1>8. HolderInv'
    BY <1>1, <1>3, <1>7 DEF HolderInv
<1>9. LookInv'
    <2>1. Look("never", Plain)'
        BY <1>1, <1>5, ResetLooks
    <2>2. \A u \in Threads : pc'[u] # "write" => attrs'[u] = Plain
        BY <1>2, <1>3, <1>4 DEF LookInv
    <2> QED BY <1>1, <1>2, <1>5, <2>1, <2>2 DEF LookInv, Fresh
<1>10. WorkInv'
    <2> SUFFICES ASSUME NEW u \in Threads
                 PROVE  /\ \A i \in 2..Len(work[u]) : work[u][i].kind # "attrs"
                        /\ work[u] # <<>> /\ work[u][1].kind = "attrs" => attrs'[u] = Plain
        BY <1>1 DEF WorkInv
    <2> QED BY <1>2, <1>4 DEF WorkInv
<1>11. TextInv'
    <2>1. \A u \in Threads : pc[u] \in {"write", "newline", "idle"} =>
              pc'[u] \in {"write", "newline", "idle"} /\ (pc[u] # "write" => pc'[u] # "write")
        BY <1>1, <1>3
    <2>2. \A u \in Threads : pc'[u] # "idle" => call'[u] # <<>>
        BY <1>1, <1>2, <1>3 DEF TextInv
    <2> QED BY <1>1, <2>1, <2>2, QuietTexts
<1> QED BY <1>6, <1>8, <1>9, <1>10, <1>11 DEF OutputInv

\* The newline behind the guard, and markup written as it is.
LEMMA NewlineSteps ==
    ASSUME OutputAssumption, OutputInv, NEW t \in Threads, Newline(t) \/ WriteRaw(t)
    PROVE  OutputInv'
<1>1. PICK where \in {"idle", "newline"}, what \in {"newline", "raw"} :
        /\ pc[t] \in {"newline", "raw"} /\ pc' = [pc EXCEPT ![t] = where]
        /\ pc[t] = "newline" => where = "idle"
        /\ stream' = Append(stream, <<t, what>>)
        /\ work' = work \/ work' = [work EXCEPT ![t] = <<>>]
        /\ UNCHANGED <<call, attrs, output, mode, holder, current, csbi, terminal, spoiled>>
    BY DEF Newline, WriteRaw, Says
<1>2. OutputTypes /\ HolderInv /\ LookInv /\ WorkInv /\ TextInv
    BY DEF OutputInv
<1>3. OutputTypes'
    <2>1. stream' \in Seq(Threads \X {"text", "newline", "raw"})
        BY <1>1, <1>2, AppendProperties DEF OutputTypes
    <2>2. work' \in [Threads -> Seq(Items)]
        <3>1. <<>> \in Seq(Items) /\ work \in [Threads -> Seq(Items)]
            BY <1>2 DEF OutputTypes
        <3> HIDE DEF Items
        <3> QED BY <1>1, <3>1
    <2> QED BY <1>1, <1>2, <2>1, <2>2 DEF OutputTypes
<1>4. HolderInv' /\ LookInv'
    BY <1>1, OutsideSteps
<1>5. WorkInv'
    <2> SUFFICES ASSUME NEW u \in Threads
                 PROVE  /\ \A i \in 2..Len(work'[u]) : work'[u][i].kind # "attrs"
                        /\ work'[u] # <<>> /\ work'[u][1].kind = "attrs" => attrs[u] = Plain
        BY <1>1 DEF WorkInv
    <2>1. work'[u] = work[u] \/ work'[u] = <<>>
        BY <1>1, <1>2 DEF OutputTypes
    <2>2. CASE work'[u] = <<>>
        BY <2>2, SMT
    <2> QED BY <1>2, <2>1, <2>2 DEF WorkInv
<1>6. TextInv'
    <2>1. \A u \in Threads : pc[u] \in {"write", "newline", "idle"} =>
              pc'[u] \in {"write", "newline", "idle"} /\ (pc[u] # "write" => pc'[u] # "write")
        BY <1>1, <1>2 DEF OutputTypes
    <2>2. \A u \in Threads : pc'[u] # "idle" => pc[u] # "idle"
        BY <1>1, <1>2 DEF OutputTypes
    <2>3. \A u \in Threads : pc'[u] # "idle" => call'[u] # <<>>
        BY <1>1, <1>2, <2>2 DEF TextInv
    <2> QED BY <1>1, <2>1, <2>3, OtherTexts
<1> QED BY <1>3, <1>4, <1>5, <1>6 DEF OutputInv

-----------------------------------------------------------------------------
(* The theorem. *)

LEMMA OutputStep ==
    ASSUME OutputAssumption, OutputInv, [Next]_vars
    PROVE  OutputInv'
<1>1. CASE UNCHANGED vars
    <2>1. UNCHANGED <<pc, call, work, attrs, output, mode, holder, current, csbi, terminal,
                      stream, spoiled>>
        BY <1>1 DEF vars
    <2>2. OutputTypes /\ HolderInv /\ LookInv /\ WorkInv /\ TextInv
        BY DEF OutputInv
    <2>3. LookInv'
        BY <2>1, <2>2 DEF LookInv, Look, Shown, Fresh, AllPlain
    <2>4. TextInv'
        BY <2>1, <2>2 DEF TextInv, IsText
    <2> QED BY <2>1, <2>2, <2>3, <2>4 DEF OutputInv, OutputTypes, HolderInv, WorkInv
<1>2. CASE Next
    BY <1>2, SetColorModeSteps, BeginSteps, EnterSteps, WriteSteps, LeaveSteps, NewlineSteps
       DEF Next
<1> QED BY <1>1, <1>2

LEMMA OutputPromises == OutputInv => ShownAsMeant /\ TextsStayTogether
<1> SUFFICES ASSUME OutputInv PROVE ShownAsMeant /\ TextsStayTogether
    OBVIOUS
<1>1. OutputTypes /\ LookInv /\ TextInv
    BY DEF OutputInv
<1>2. ShownAsMeant
    BY <1>1 DEF ShownAsMeant, LookInv, Look
<1>3. TextsStayTogether
    <2>1. DOMAIN stream = 1..Len(stream)
        BY <1>1 DEF OutputTypes
    <2> QED BY <1>1, <2>1 DEF TextInv, TextsStayTogether, IsText
<1> QED BY <1>2, <1>3

\* Text is shown in the attributes its call asked for, nothing is left switched on, and no text
\* of another call comes between two pieces of one's text (console.cpp 226-260, 378-404).
THEOREM WritersDoNotMixHolds == OutputAssumption /\ Spec => [](ShownAsMeant /\ TextsStayTogether)
<1> SUFFICES ASSUME OutputAssumption PROVE Spec => [](ShownAsMeant /\ TextsStayTogether)
    OBVIOUS
<1>1. Init => OutputInv
    BY OutputInit
<1>2. OutputInv /\ [Next]_vars => OutputInv'
    BY OutputStep
<1> QED BY <1>1, <1>2, OutputPromises, PTL DEF Spec

\* What the writers keep is of its type, and one of them at most holds the lock (console.cpp,
\* global_mtx).
THEOREM OutputTypeCorrect == OutputAssumption /\ Spec => []TypeOK
<1> SUFFICES ASSUME OutputAssumption PROVE Spec => []TypeOK
    OBVIOUS
<1>1. Init => OutputInv
    BY OutputInit
<1>2. OutputInv /\ [Next]_vars => OutputInv'
    BY OutputStep
<1>3. OutputInv => TypeOK
    <2> SUFFICES ASSUME OutputInv PROVE TypeOK
        OBVIOUS
    <2>1. OutputTypes /\ HolderInv
        BY DEF OutputInv
    <2>2. holder = {} \/ \E t \in Threads : holder = {t}
        BY <2>1 DEF HolderInv
    <2>3. Cardinality(holder) <= 1
        BY <2>2, FS_EmptySet, FS_Singleton
    <2>4. Detected \in {"vt", "legacy"}
        BY DEF OutputAssumption
    <2> QED BY <2>1, <2>3, <2>4 DEF OutputTypes, HolderInv, TypeOK
<1> QED BY <1>1, <1>2, <1>3, PTL DEF Spec
=============================================================================
