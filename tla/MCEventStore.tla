---------------------------- MODULE MCEventStore -----------------------------
(***************************************************************************)
(* EventStore for TLC: two clients, or two tokens, are interchangeable.    *)
(***************************************************************************)
EXTENDS EventStore, TLC

CONSTANTS c1, c2, o1, o2, r1, r2

Symmetry == Permutations({c1, c2}) \cup Permutations({o1, o2})
=============================================================================
