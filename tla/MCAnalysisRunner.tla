-------------------------- MODULE MCAnalysisRunner ---------------------------
(***************************************************************************)
(* AnalysisRunner for TLC: run ids are interchangeable.                    *)
(***************************************************************************)
EXTENDS AnalysisRunner, TLC

CONSTANTS r1, r2, r3

Symmetry == Permutations(Runs)
=============================================================================
