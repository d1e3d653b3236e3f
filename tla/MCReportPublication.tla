------------------------- MODULE MCReportPublication --------------------------
(* Two publishers of one harness with the same final name, a report of two    *)
(* entries, and somebody else who intervenes three times.                     *)
EXTENDS ReportPublication, TLC

MCParts == <<"cases", "report.json">>
MCSymmetry == Permutations(Procs)
=============================================================================
