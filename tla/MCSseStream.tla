----------------------------- MODULE MCSseStream ------------------------------
(***************************************************************************)
(* SseStream for TLC: one client that connects twice to a run of up to     *)
(* three events, and a second run it can change to.                        *)
(***************************************************************************)
EXTENDS SseStream

CONSTANTS c1, c2, o1, r1, r2
=============================================================================
