----------------------------- MODULE JsonValues -----------------------------
(***************************************************************************)
(* JsonValue: a value is its payload under the name of its type, so that   *)
(* values of two types are two values.                                     *)
(***************************************************************************)
EXTENDS Integers, Sequences, SequencesExt, FiniteSets

Of(type, payload) == type :> payload
Type(v) == CHOOSE t \in DOMAIN v : TRUE
Payload(v) == v[Type(v)]
Null == Of("Null", TRUE)

\* Containers in containers: a scalar has height 0.
RECURSIVE Height(_)
Height(v) ==
    LET inside == CASE Type(v) = "Array" -> {Height(Payload(v)[i]) : i \in 1..Len(Payload(v))}
                    [] Type(v) = "Object" -> {Height(Payload(v)[k]) : k \in DOMAIN Payload(v)}
                    [] OTHER -> {}
    IN  IF inside = {} THEN 0 ELSE 1 + CHOOSE h \in inside : \A g \in inside : g <= h
=============================================================================
