-------------------------- MODULE MCWeek3Evaluation --------------------------
(* Every kind of case alone, and two live cases in one run.                  *)
EXTENDS Week3Evaluation

MCProgrammes ==
    {[mode |-> "fixture", cases |-> <<c>>] : c \in CaseIds}
      \cup {[mode |-> "live", cases |-> <<"W3K001", "W3K011">>]}
      \cup {[mode |-> "live", cases |-> <<"W3K026">>]}
=============================================================================
