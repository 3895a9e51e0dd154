----------------------- MODULE PopenImplementsStatus -----------------------
(***************************************************************************)
(* PopenLifecycle, with its threads, lock, polls and signals, implements   *)
(* ChildStatus.                                                            *)
(***************************************************************************)
EXTENDS PopenLifecycle

OwnerBar ==
    IF childCreated THEN "ours" ELSE IF detachedStarted THEN "released" ELSE "none"

Abs == INSTANCE ChildStatus WITH
    Codes <- ReturnCodes,
    kept <- ~SigchldIgnored,
    owner <- OwnerBar,
    ended <- {ReturnCode(st) : st \in status},
    reported <- returncode

\* However the calls of several threads interleave, the exit status behaves as if it
\* were written once, by one writer, after the end, with the truth.
ImplementsStatus == Abs!Spec

=============================================================================
