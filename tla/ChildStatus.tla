---------------------------- MODULE ChildStatus ----------------------------
(***************************************************************************)
(* What a Popen promises about its child's exit status, without threads,   *)
(* locks or system calls: one owned child, which ends in one way, and one  *)
(* report, made after the end, true, and never changed.  Where the kernel  *)
(* keeps no status (~kept) the report is 0 whatever happened.       *)
(***************************************************************************)
EXTENDS Integers

CONSTANTS
    Codes     \* the return codes a child can end with

VARIABLES
    kept,     \* the kernel keeps statuses for waitpid(): it does or it does not
    owner,    \* "none", "ours", or "released" for a detached child
    ended,    \* the code the child ended with, {} while it runs
    reported  \* returncode(), {} before

absVars == <<kept, owner, ended, reported>>

Init == kept \in BOOLEAN /\ owner = "none" /\ ended = {} /\ reported = {}

Start ==
    /\ owner = "none"
    /\ owner' \in {"ours", "released"}
    /\ UNCHANGED <<kept, ended, reported>>

End ==
    /\ owner = "ours" /\ ended = {}
    /\ \E c \in Codes : ended' = {c}
    /\ UNCHANGED <<kept, owner, reported>>

Report ==
    /\ owner = "ours" /\ ended # {} /\ reported = {}
    /\ reported' = IF kept THEN ended ELSE {0}
    /\ UNCHANGED <<kept, owner, ended>>

Next == Start \/ End \/ Report

Spec == Init /\ [][Next]_absVars

=============================================================================
