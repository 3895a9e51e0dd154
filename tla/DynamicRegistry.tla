-------------------------- MODULE DynamicRegistry --------------------------
(***************************************************************************)
(* stdc::DynamicRegistry: entries by name, changed from any thread, and    *)
(* listeners told of each change.  A change is made under the lock; the    *)
(* listeners are told afterwards, outside it, from the list as it was at   *)
(* the change.  A listener's callback may itself call the registry, so a   *)
(* thread has a stack of calls.                                            *)
(*                                                                         *)
(* Entries are numbered in the order they are added: two entries added     *)
(* under one name, one after the other, are two.  find(), entries(),       *)
(* size() and instantiate() change nothing and are left out.               *)
(***************************************************************************)
EXTENDS Integers, Sequences

CONSTANTS
    Threads, Names, Listeners,
    MaxEntries,     \* entries added in a behaviour, at most
    MaxDepth        \* calls a thread is in at once, at most: 1 for callbacks that do not call

VARIABLES
    lock,        \* _mutex: the threads that hold it exclusively
    entries,     \* _entries: the number of the entry under a name, 0 for none
    listeners,   \* _listeners
    made,        \* entries added so far
    calls,       \* each thread's stack of calls into the registry, the innermost first
    heard,       \* what each listener has been told, in order
    alive,       \* listeners that still exist
    unwatched,   \* listeners that have at some time been removed, or not been there
    cleared      \* entries that clear() has taken away

vars == <<lock, entries, listeners, made, calls, heard, alive, unwatched, cleared>>

Events == {"added", "removed"} \X (1..MaxEntries)
Ops == {"add", "remove", "clear", "add_listener", "remove_listener"}
\* A call: what it does and to what, how far it is, the entry it is about, whom it has
\* still to tell, and whether one of them is being told right now.
Calls == [op : Ops, on : Names \cup Listeners \cup {"all"}, at : {"lock", "locked", "tell"},
          entry : 0..MaxEntries, left : Seq(Listeners), telling : BOOLEAN]

Distinct(s) == \A i, j \in 1..Len(s) : s[i] = s[j] => i = j
Members(s) == {s[i] : i \in 1..Len(s)}

TypeOK ==
    /\ lock \in SUBSET Threads
    /\ entries \in [Names -> 0..MaxEntries] /\ made \in 0..MaxEntries
    /\ listeners \in Seq(Listeners) /\ Distinct(listeners)
    /\ \A t \in Threads : calls[t] \in Seq(Calls) /\ Len(calls[t]) <= MaxDepth
    /\ \A l \in Listeners : heard[l] \in Seq(Events)
    /\ alive \subseteq Listeners /\ unwatched \subseteq Listeners
    /\ cleared \subseteq 1..MaxEntries

Init ==
    /\ lock = {} /\ entries = [n \in Names |-> 0] /\ made = 0
    /\ listeners \in {<<>>} \cup {<<l>> : l \in Listeners}
    /\ calls = [t \in Threads |-> <<>>]
    /\ heard = [l \in Listeners |-> <<>>]
    /\ alive = Listeners /\ unwatched = Listeners \ Members(listeners)
    /\ cleared = {}

-----------------------------------------------------------------------------
(* Entering, the lock, and leaving. *)

Top(t) == Head(calls[t])
SetTop(t, c) == calls' = [calls EXCEPT ![t] = <<c>> \o Tail(@)]
Pop(t) == calls' = [calls EXCEPT ![t] = Tail(@)]

MayCall(t) == Len(calls[t]) < MaxDepth /\ (calls[t] # <<>> => Top(t).telling)

\* A call that would find nothing to do, a name taken or one not there, is made as well;
\* only the bounds are kept.
Requests ==
    {<<"add", n>> : n \in {m \in Names : made < MaxEntries}}
        \cup {<<"remove", n>> : n \in Names}
        \cup {<<"add_listener", l>> : l \in alive}
        \cup {<<"remove_listener", l>> : l \in alive}
        \cup {<<"clear", "all">>}

Call(t) ==
    /\ MayCall(t)
    /\ \E r \in Requests :
           calls' = [calls EXCEPT ![t] =
                        <<[op |-> r[1], on |-> r[2], at |-> "lock", entry |-> 0,
                           left |-> <<>>, telling |-> FALSE]>> \o @]
    /\ UNCHANGED <<lock, entries, listeners, made, heard, alive, unwatched, cleared>>

Lock(t) ==
    /\ calls[t] # <<>> /\ Top(t).at = "lock"
    /\ lock = {} /\ lock' = {t}
    /\ SetTop(t, [Top(t) EXCEPT !.at = "locked"])
    /\ UNCHANGED <<entries, listeners, made, heard, alive, unwatched, cleared>>

InSection(t, op) == calls[t] # <<>> /\ Top(t).at = "locked" /\ Top(t).op = op

\* Mutant: the listeners are told under the lock.
SectionStaysLocked(t) == UNCHANGED lock

SectionEnds(t) == lock' = lock \ {t}

\* The section is left with the entry and a copy of the listeners.
LeaveToTell(t, e) ==
    /\ SectionEnds(t)
    /\ SetTop(t, [Top(t) EXCEPT !.at = "tell", !.entry = e, !.left = listeners])

-----------------------------------------------------------------------------
(* The sections. *)

\* Mutant: the name is not looked up first.
AddUnchecked(t) ==
    /\ InSection(t, "add") /\ made < MaxEntries
    /\ entries' = [entries EXCEPT ![Top(t).on] = made + 1] /\ made' = made + 1
    /\ LeaveToTell(t, made + 1)
    /\ UNCHANGED <<listeners, heard, alive, unwatched, cleared>>

Add(t) ==
    /\ InSection(t, "add")
    /\ \/ /\ entries[Top(t).on] # 0
          /\ SectionEnds(t) /\ Pop(t) /\ UNCHANGED <<entries, made>>
       \/ /\ entries[Top(t).on] = 0 /\ made < MaxEntries
          /\ entries' = [entries EXCEPT ![Top(t).on] = made + 1] /\ made' = made + 1
          /\ LeaveToTell(t, made + 1)
       \/ /\ entries[Top(t).on] = 0 /\ made = MaxEntries         \* the bound
          /\ SectionEnds(t) /\ Pop(t) /\ UNCHANGED <<entries, made>>
    /\ UNCHANGED <<listeners, heard, alive, unwatched, cleared>>

Remove(t) ==
    /\ InSection(t, "remove")
    /\ \/ /\ entries[Top(t).on] = 0
          /\ SectionEnds(t) /\ Pop(t) /\ UNCHANGED entries
       \/ /\ entries[Top(t).on] # 0
          /\ entries' = [entries EXCEPT ![Top(t).on] = 0]
          /\ LeaveToTell(t, entries[Top(t).on])
    /\ UNCHANGED <<listeners, made, heard, alive, unwatched, cleared>>

Clear(t) ==
    /\ InSection(t, "clear")
    /\ entries' = [n \in Names |-> 0]
    /\ cleared' = cleared \cup ({entries[n] : n \in Names} \ {0})
    /\ SectionEnds(t) /\ Pop(t)
    /\ UNCHANGED <<listeners, made, heard, alive, unwatched>>

\* Mutant: a listener is appended whether or not it is there.
AddListenerTwice(t) ==
    /\ InSection(t, "add_listener")
    /\ listeners' = Append(listeners, Top(t).on)
    /\ SectionEnds(t) /\ Pop(t)
    /\ UNCHANGED <<entries, made, heard, alive, unwatched, cleared>>

AddListener(t) ==
    /\ InSection(t, "add_listener")
    /\ listeners' = IF Top(t).on \in Members(listeners) THEN listeners
                    ELSE Append(listeners, Top(t).on)
    /\ SectionEnds(t) /\ Pop(t)
    /\ UNCHANGED <<entries, made, heard, alive, unwatched, cleared>>

\* std::remove() of all that are equal: a listener is in the list once.
RemoveListener(t) ==
    /\ InSection(t, "remove_listener")
    /\ \/ Top(t).on \notin Members(listeners) /\ UNCHANGED listeners
       \/ \E i \in 1..Len(listeners) :
              /\ listeners[i] = Top(t).on
              /\ listeners' = SubSeq(listeners, 1, i - 1) \o SubSeq(listeners, i + 1, Len(listeners))
    /\ unwatched' = unwatched \cup {Top(t).on}
    /\ SectionEnds(t) /\ Pop(t)
    /\ UNCHANGED <<entries, made, heard, alive, cleared>>

-----------------------------------------------------------------------------
(* Outside the lock. *)

\* entry_added() or entry_removed() is called, and returns.
Tell(t) ==
    LET c == Top(t)
        event == <<IF c.op = "add" THEN "added" ELSE "removed", c.entry>>
    IN  /\ calls[t] # <<>> /\ c.at = "tell" /\ ~c.telling /\ c.left # <<>>
        /\ heard' = [heard EXCEPT ![Head(c.left)] = Append(@, event)]
        /\ SetTop(t, [c EXCEPT !.left = Tail(@), !.telling = TRUE])
        /\ UNCHANGED <<lock, entries, listeners, made, alive, unwatched, cleared>>

CallbackReturns(t) ==
    /\ calls[t] # <<>> /\ Top(t).telling
    /\ SetTop(t, [Top(t) EXCEPT !.telling = FALSE])
    /\ UNCHANGED <<lock, entries, listeners, made, heard, alive, unwatched, cleared>>

Return(t) ==
    /\ calls[t] # <<>> /\ Top(t).at = "tell" /\ ~Top(t).telling /\ Top(t).left = <<>>
    /\ Pop(t)
    /\ UNCHANGED <<lock, entries, listeners, made, heard, alive, unwatched, cleared>>

\* The owner of a listener that is not installed destroys it.
DestroyListener(l) ==
    /\ l \in alive \cap unwatched /\ l \notin Members(listeners)
    /\ \A t \in Threads : \A i \in 1..Len(calls[t]) : calls[t][i].on # l
    /\ alive' = alive \ {l}
    /\ UNCHANGED <<lock, entries, listeners, made, calls, heard, unwatched, cleared>>

-----------------------------------------------------------------------------
Proceed(t) ==
    \/ Lock(t) \/ Add(t) \/ Remove(t) \/ Clear(t) \/ AddListener(t) \/ RemoveListener(t)
    \/ Tell(t) \/ CallbackReturns(t) \/ Return(t)

Next ==
    \/ \E t \in Threads : Call(t) \/ Proceed(t)
    \/ \E l \in Listeners : DestroyListener(l)

Spec == Init /\ [][Next]_vars

-----------------------------------------------------------------------------
(* Properties. *)

Quiet == \A t \in Threads : calls[t] = <<>>
HeardOf(l, what) == {e \in 1..MaxEntries : <<what, e>> \in Members(heard[l])}

\* Nobody hears of one change twice, whatever is registered, removed and watched again
\* while the telling goes on.
HeardOnce == \A l \in Listeners : Distinct(heard[l])

\* Once all calls have returned, a listener that was there from the beginning can tell what
\* is registered, but for what clear() took away without a word, from what it has heard:
\* no change was missed or made up, although changes of several threads may reach it out
\* of order.
HeardAddsUp ==
    Quiet => \A l \in Listeners \ unwatched :
                 HeardOf(l, "added") \ HeardOf(l, "removed")
                     = ({entries[n] : n \in Names} \ {0}) \cup cleared

\* The lock is held inside a section and nowhere else, so that no listener is told under it:
\* a callback may call the registry, whatever the class's warning says.
ToldOutsideLock ==
    \A t \in Threads : t \in lock => calls[t] # <<>> /\ Top(t).at = "locked"

=============================================================================
