--------------------------- MODULE MCSigpipeGuard ---------------------------
(* Instances of SigpipeGuard for TLC. *)
EXTENDS SigpipeGuard
CONSTANTS t1, t2, t3, handler
SomeThreads == {t1, t2, t3}
AllDispositions == {Default, Ignore, handler}
=============================================================================
