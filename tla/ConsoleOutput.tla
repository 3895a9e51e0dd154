--------------------------- MODULE ConsoleOutput ---------------------------
(***************************************************************************)
(* console.cpp: the writers.  Threads write styled text to one stream.  A  *)
(* call decides how, takes the lock the three outputs share, switches      *)
(* attributes and writes, puts the attributes back and lets go; the        *)
(* newline of puts() follows without the lock.                             *)
(*                                                                         *)
(* Colours and brightness are the numbers of console.h, styles are sets.   *)
(* The terminal is what its emulator, or the Windows console, shows.       *)
(***************************************************************************)
EXTENDS Integers, Sequences, SequencesExt, FiniteSets

CONSTANTS
    Threads,
    Calls,           \* what a thread may write: see Call below
    Modes,           \* what set_color_mode() is given
    Detected         \* what automatic finds the stream to be: "vt", "legacy" or "never"

VARIABLES
    pc,              \* where a thread is in its call
    call,            \* [Threads -> the call]
    work,            \* [Threads -> the items of it still to be written]
    attrs,           \* [Threads -> style, fg and bg of the markup read so far]
    output,          \* [Threads -> the output the guard has chosen]
    mode,            \* g_color_mode
    holder,          \* who holds global_mtx
    current,         \* [outputs -> the attributes each object believes to be in]
    csbi,            \* the attributes the legacy output read when it was attached
    terminal,        \* the attributes the terminal shows text in
    stream,          \* what has been written: <<thread, "text" or "newline">>
    spoiled          \* history: a piece of text was shown in other attributes than meant

vars == <<pc, call, work, attrs, output, mode, holder, current, csbi, terminal, stream, spoiled>>

nocolor == 0
intensified == 16
black == 8
Plain == [style |-> {}, fg |-> nocolor, bg |-> nocolor]
\* What a console shows before anybody switches it: grey on blue, say.
Background == [style |-> {}, fg |-> 7, bg |-> 4]
Fresh == IF Detected = "legacy" THEN Background ELSE Plain

Color(n) == n % intensified
Light(n) == n >= intensified

-----------------------------------------------------------------------------
(* Markup.  A word of ${...} is [at, light, name]: an @ before it, "light" *)
(* before the colour's name, and the name.                                 *)

ColorNames == [red |-> 1, green |-> 2, yellow |-> 3, blue |-> 4, purple |-> 5, cyan |-> 6,
               white |-> 7, black |-> 8, nocolor |-> 0]
Styles == {"bold", "italic", "underline", "strikethrough"}

\* cfputs_get_color(): the colours a word names, one or none.
GetColor(word) ==
    IF word.name \notin DOMAIN ColorNames THEN {}
    ELSE LET color == ColorNames[word.name]
         IN  CASE ~word.light -> {color}
               [] word.light /\ color # nocolor -> {color + intensified}
               [] OTHER -> {}

Brighten(color) == IF color = nocolor \/ Light(color) THEN color ELSE color + intensified

IsReset(word) == ~word.at /\ ~word.light /\ word.name \in {"reset", "clear"}
IsIntensified(word) == ~word.light /\ word.name = "intensified"

\* cfputs_update_attrs()
UpdateAttrs(word, a) ==
    CASE IsReset(word) -> Plain
      [] word.at /\ IsIntensified(word) -> [a EXCEPT !.bg = Brighten(@)]
      [] word.at /\ ~IsIntensified(word) ->
            [a EXCEPT !.bg = IF GetColor(word) = {} THEN @ ELSE CHOOSE c \in GetColor(word) : TRUE]
      [] ~word.at /\ IsIntensified(word) -> [a EXCEPT !.fg = Brighten(@)]
      [] ~word.at /\ GetColor(word) # {} -> [a EXCEPT !.fg = CHOOSE c \in GetColor(word) : TRUE]
      [] ~word.at /\ ~word.light /\ word.name \in Styles -> [a EXCEPT !.style = @ \union {word.name}]
      [] ~word.at /\ ~word.light /\ word.name = "nostyle" -> [a EXCEPT !.style = {}]
      [] OTHER -> a

-----------------------------------------------------------------------------
(* The outputs: what they send, by what it makes of the terminal.          *)

\* fg_code() and bg_code(): neither nocolor nor black has a code.
HasCode(color) == Color(color) \in 1..7

\* sgr_sequence(): of what differs, what is switched on.
SgrSequence(from, to, shown) ==
    [style |-> IF to.style # from.style THEN shown.style \union to.style ELSE shown.style,
     fg |-> IF to.fg # from.fg /\ HasCode(to.fg) THEN to.fg ELSE shown.fg,
     bg |-> IF to.bg # from.bg /\ HasCode(to.bg) THEN to.bg ELSE shown.bg]

\* The legacy console is given both colours at once, the one that did not change as black.
WinColor(from, to, style) ==
    LET part(old, new, bright) ==
            IF old = new \/ new = nocolor THEN black
            ELSE IF bright /\ ~Light(new) THEN new + intensified ELSE new
    IN  [style |-> {}, fg |-> part(from.fg, to.fg, "bold" \in style), bg |-> part(from.bg, to.bg, FALSE)]

Change(o, to) ==
    CASE o = "vt" ->
            /\ terminal' = SgrSequence(current.vt, to, terminal)
            /\ current' = [current EXCEPT !.vt = to]
      [] o = "legacy" ->
            LET from == current.legacy
            IN  /\ terminal' = IF to.fg # from.fg \/ to.bg # from.bg
                               THEN WinColor(from, to, to.style) ELSE terminal
                /\ current' = [current EXCEPT !.legacy = [to EXCEPT !.style = {}]]
      [] o = "never" -> UNCHANGED <<terminal, current>>

AfterReset(o) ==
    IF o = "never" \/ current[o] = Plain THEN terminal
    ELSE IF o = "vt" THEN Plain ELSE csbi

\* Mutant: the terminal is reset and the object goes on believing it is switched.
ResetTerminalOnly(o) ==
    /\ terminal' = AfterReset(o)
    /\ UNCHANGED current

Reset(o) ==
    /\ terminal' = AfterReset(o)
    /\ current' = IF o = "never" THEN current ELSE [current EXCEPT ![o] = Plain]

\* Mutant: a word of markup switches on what it names and drops nothing before it.
ChangeOnly(o, to) == Change(o, to)

\* A word of markup: back to plain, then everything that is in effect.
ResetAndChange(o, to) ==
    CASE o = "vt" ->
            /\ terminal' = SgrSequence(Plain, to, AfterReset("vt"))
            /\ current' = [current EXCEPT !.vt = to]
      [] o = "legacy" ->
            /\ terminal' = IF to.fg # nocolor \/ to.bg # nocolor
                           THEN WinColor(Plain, to, to.style) ELSE AfterReset("legacy")
            /\ current' = [current EXCEPT !.legacy = [to EXCEPT !.style = {}]]
      [] o = "never" -> UNCHANGED <<terminal, current>>

-----------------------------------------------------------------------------
\* A call is [items, newline, raw]: an item is a triple of attributes that is switched to, a
\* word of markup, or text.  A raw call is markup varexp_split() refuses: it is written as it
\* is, and outside the guard.
Attributes == [style : SUBSET Styles, fg : Nat, bg : Nat]
Items ==
    {[kind |-> "text"]}
        \union [kind : {"attrs"}, attrs : Attributes]
        \union [kind : {"word"}, word : [at : BOOLEAN, light : BOOLEAN, name : STRING]]

\* A triple is the first a guard is given, if it is given one: markup has words instead.
CallsAreWellFormed ==
    \A c \in Calls :
        /\ c.items \in Seq(Items)
        /\ \A i \in 2..Len(c.items) : c.items[i].kind # "attrs"

Init ==
    /\ pc = [t \in Threads |-> "idle"]
    /\ call = [t \in Threads |-> <<>>] /\ work = [t \in Threads |-> <<>>]
    /\ attrs = [t \in Threads |-> Plain]
    /\ output = [t \in Threads |-> "never"]
    /\ mode = "automatic" /\ holder = {}
    /\ current = [vt |-> Plain, legacy |-> Plain]
    /\ csbi = Fresh /\ terminal = Fresh
    /\ stream = <<>> /\ spoiled = FALSE

SetColorMode(m) ==
    /\ mode' = m
    /\ UNCHANGED <<pc, call, work, attrs, output, holder, current, csbi, terminal, stream, spoiled>>

\* windows_legacy means never where there is no such console.
ResolveColorMode ==
    CASE mode = "automatic" -> Detected
      [] mode = "legacy" /\ Detected # "legacy" -> "never"
      [] OTHER -> mode

\* The guard's constructor chooses the output, then waits for the lock.
Begin(t, c) ==
    /\ pc[t] = "idle" /\ call[t] = <<>>
    /\ call' = [call EXCEPT ![t] = <<c>>]
    /\ work' = [work EXCEPT ![t] = c.items]
    /\ output' = [output EXCEPT ![t] = ResolveColorMode]
    /\ pc' = [pc EXCEPT ![t] = IF c.raw THEN "raw" ELSE "enter"]
    /\ UNCHANGED <<attrs, mode, holder, current, csbi, terminal, stream, spoiled>>

\* Mutant: the lock is not taken by whoever writes no attributes.
EnterUnlocked(t) ==
    /\ pc[t] = "enter" /\ (holder = {} \/ output[t] = "never")
    /\ holder' = IF output[t] = "never" THEN holder ELSE {t}
    /\ csbi' = IF output[t] = "legacy" THEN terminal ELSE csbi
    /\ pc' = [pc EXCEPT ![t] = "write"]
    /\ UNCHANGED <<call, work, attrs, output, mode, current, terminal, stream, spoiled>>

Enter(t) ==
    /\ pc[t] = "enter" /\ holder = {}
    /\ holder' = {t}
    /\ csbi' = IF output[t] = "legacy" THEN terminal ELSE csbi
    /\ pc' = [pc EXCEPT ![t] = "write"]
    /\ UNCHANGED <<call, work, attrs, output, mode, current, terminal, stream, spoiled>>

Shown(meant) ==
    CASE Detected = "legacy" -> /\ meant.fg # nocolor => terminal.fg \in {meant.fg, Brighten(meant.fg)}
                                /\ meant.bg # nocolor => terminal.bg = meant.bg
      [] OTHER -> /\ terminal.style = meant.style
                  /\ terminal.fg = IF HasCode(meant.fg) THEN meant.fg ELSE nocolor
                  /\ terminal.bg = IF HasCode(meant.bg) THEN meant.bg ELSE nocolor

Says(t, what) == stream' = Append(stream, <<t, what>>)

Write(t) ==
    /\ pc[t] = "write" /\ work[t] # <<>>
    /\ work' = [work EXCEPT ![t] = Tail(@)]
    /\ LET item == Head(work[t])
       IN  \/ /\ item.kind = "attrs"
              /\ attrs' = [attrs EXCEPT ![t] = item.attrs]
              /\ Change(output[t], item.attrs)
              /\ UNCHANGED <<stream, spoiled>>
           \/ /\ item.kind = "word"
              /\ LET to == UpdateAttrs(item.word, attrs[t])
                 IN  /\ attrs' = [attrs EXCEPT ![t] = to]
                     /\ IF IsReset(item.word) THEN Reset(output[t])
                                              ELSE ResetAndChange(output[t], to)
              /\ UNCHANGED <<stream, spoiled>>
           \/ /\ item.kind = "text"
              /\ Says(t, "text")
              /\ spoiled' = (spoiled \/ ~Shown(IF output[t] = "never" THEN Plain ELSE attrs[t]))
              /\ UNCHANGED <<attrs, current, terminal>>
    /\ UNCHANGED <<pc, call, output, mode, holder, csbi>>

Leave(t) ==
    /\ pc[t] = "write" /\ work[t] = <<>>
    /\ Reset(output[t])
    /\ holder' = {}
    /\ attrs' = [attrs EXCEPT ![t] = Plain]
    /\ pc' = [pc EXCEPT ![t] = IF call[t][1].newline THEN "newline" ELSE "idle"]
    /\ UNCHANGED <<call, work, output, mode, csbi, stream, spoiled>>

\* puts() and cputs(): putchar() after the guard is gone.
Newline(t) ==
    /\ pc[t] = "newline"
    /\ Says(t, "newline")
    /\ pc' = [pc EXCEPT ![t] = "idle"]
    /\ UNCHANGED <<call, work, attrs, output, mode, holder, current, csbi, terminal, spoiled>>

WriteRaw(t) ==
    /\ pc[t] = "raw"
    /\ Says(t, "raw")
    /\ work' = [work EXCEPT ![t] = <<>>]
    /\ pc' = [pc EXCEPT ![t] = IF call[t][1].newline THEN "newline" ELSE "idle"]
    /\ UNCHANGED <<call, attrs, output, mode, holder, current, csbi, terminal, spoiled>>

Next ==
    \/ \E m \in Modes \ {mode} : SetColorMode(m)
    \/ \E t \in Threads :
        \/ \E c \in Calls : Begin(t, c)
        \/ Enter(t) \/ Write(t) \/ Leave(t) \/ Newline(t) \/ WriteRaw(t)

Spec == Init /\ [][Next]_vars

-----------------------------------------------------------------------------
TypeOK ==
    /\ pc \in [Threads -> {"idle", "enter", "write", "newline", "raw"}]
    /\ output \in [Threads -> {"vt", "legacy", "never"}]
    /\ mode \in {"automatic", "vt", "legacy", "never"}
    /\ holder \subseteq Threads /\ Cardinality(holder) <= 1

\* Text is shown in the attributes its own call asked for and in no other, whatever the markup
\* before it, the other threads and a change of mode between two calls; and nothing is left
\* switched on for what is written when nobody is in a call (console.h 117, 286: the attributes
\* are put back and never leak).
ShownAsMeant ==
    /\ ~spoiled
    /\ holder = {} => terminal = Fresh

\* Between two pieces of text of one call comes no text of another that goes through the
\* guard: only newlines of puts() that had left it, and text written raw (console.cpp 649-665).
TextsStayTogether ==
    \A i, j, k \in DOMAIN stream :
        /\ i < j /\ j < k
        /\ stream[i] = stream[k] /\ stream[i][2] = "text"
        => stream[j] = stream[i] \/ stream[j][2] # "text"

=============================================================================
