------------------------- MODULE MCPopenCommunicate -------------------------
(* Instances of PopenCommunicate for TLC. *)
EXTENDS PopenCommunicate

\* All three pipes, more data than they hold, no limit on the time.
Patient ==
    [pipes |-> Streams, inherited |-> {}, capacity |-> 2, readSize |-> 1, input |-> 3,
     buffered |-> 0, output |-> 3, hasTimeout |-> FALSE, mayHang |-> FALSE,
     endless |-> FALSE, pollMayFail |-> FALSE]

\* A child that may hang and leaves its stdout to a grandchild, against a deadline.
Deadline ==
    [Patient EXCEPT !.pipes = {"in", "out"}, !.inherited = {"out"}, !.capacity = 1,
                    !.input = 2, !.output = 2, !.hasTimeout = TRUE, !.mayHang = TRUE,
                    !.pollMayFail = TRUE]

\* Input of its own left in the stream, as much as the pipe takes.
Leftover ==
    [Patient EXCEPT !.capacity = 1, !.input = 1, !.buffered = 1, !.output = 2]

\* More of it than the pipe takes, and a deadline.
LeftoverTooMuch ==
    [Patient EXCEPT !.pipes = {"in", "out"}, !.capacity = 1, !.input = 2, !.buffered = 2,
                    !.output = 2, !.hasTimeout = TRUE]

\* A child that writes for ever, against a deadline.
Endless ==
    [Patient EXCEPT !.pipes = {"out"}, !.capacity = 1, !.input = 0, !.output = 2,
                    !.hasTimeout = TRUE, !.endless = TRUE]

OrdinaryCalls == {Patient, Deadline, Leftover}
LeftoverTooMuchOnly == {LeftoverTooMuch}
EndlessOnly == {Endless}
=============================================================================
