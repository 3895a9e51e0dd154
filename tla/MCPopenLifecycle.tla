-------------------------- MODULE MCPopenLifecycle --------------------------
(* An instance of PopenLifecycle, with the abstract status beside it, for TLC. *)
EXTENDS PopenImplementsStatus

CONSTANTS t1, t2
TwoThreads == {t1, t2}
\* 0 is what ECHILD reports, so the child ends with another code.
SomeCodes == {3}
\* The usual world, and one in which both the status and the permission are missing.
TwoWorlds == {[sigchldIgnored |-> FALSE, killAllowed |-> TRUE],
              [sigchldIgnored |-> TRUE, killAllowed |-> FALSE]}
=============================================================================
