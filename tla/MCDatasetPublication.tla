------------------------- MODULE MCDatasetPublication -------------------------
(* Two processes, two tables and two versions: a generate can overlap         *)
(* another or a verify, and a failed publication can precede both.            *)
EXTENDS DatasetPublication, TLC

MCTables == <<"orders", "refunds">>
MCSymmetry == Permutations(Procs)
=============================================================================
