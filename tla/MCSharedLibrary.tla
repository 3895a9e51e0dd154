--------------------------- MODULE MCSharedLibrary ---------------------------
(* Instances of SharedLibrary for TLC. *)
EXTENDS SharedLibrary
CONSTANTS o1, o2, p, q
TwoObjects == {o1, o2}
TwoLibraries == {p, q}
=============================================================================
