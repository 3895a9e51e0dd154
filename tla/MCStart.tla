------------------------------ MODULE MCStart ------------------------------
(* start() of both ports, for TLC. *)
EXTENDS PopenPorts

AlwaysClosed == {TRUE}
EveryKind == {"None", "PIPE", "DEVNULL", "STDOUT"}
GrandchildHas == {{"stdout"}, {"stdin", "stderr"}}
=============================================================================
