---------------------------- MODULE BudgetLedger ----------------------------
(***************************************************************************)
(* BudgetLedger of runtime/budgets.py: the budget of one run.  It counts   *)
(* what the run consumed in an immutable snapshot, keeps the reservations  *)
(* of the model calls under way, and refuses what would exceed a limit.    *)
(* Costs are natural numbers of a smallest unit (the code's Decimals are   *)
(* exact); the clock is the flag "expired", which is set once and for all  *)
(* when the deadline is reached.                                           *)
(*                                                                         *)
(* The operations are actions without an actor: ModelInvoker and           *)
(* AgentGraph compose them with the code that calls them.  An operation    *)
(* that raises BudgetExceeded changes nothing: its condition is the        *)
(* operator ...Limit, the stop reason the exception carries, or "none".    *)
(***************************************************************************)
EXTENDS Integers

CONSTANTS MaxActionLoops, MaxLlmCalls, MaxToolCalls, MaxExecuteCalls,
          MaxProfileCalls, MaxRepairs,
          SoftCost, HardCost

(***************************************************************************)
(* AgentRuntimeSettings' bounds, as far as the ledger depends on them.     *)
(***************************************************************************)
ASSUME LimitsAssumption ==
    /\ MaxActionLoops \in Nat
    /\ MaxLlmCalls \in Nat
    /\ MaxToolCalls \in Nat
    /\ MaxExecuteCalls \in Nat
    /\ MaxProfileCalls \in Nat
    /\ MaxRepairs \in Nat
    /\ SoftCost \in Nat \ {0}
    /\ HardCost \in Nat

VARIABLES
    snapshot,      \* _snapshot, the GovernanceSnapshot
    reservations,  \* _reservations, the model calls under way
    expired        \* _monotonic() >= deadline_monotonic

ledgerVars == <<snapshot, reservations, expired>>

GovernanceSnapshot ==
    [action_loops : Nat, llm_calls : Nat, tool_calls : Nat,
     execute_calls : Nat, profile_calls : Nat,
     repair_count : Nat, structured_output_repair_count : Nat,
     committed : Nat, reserved : Nat, soft_cap_reached : BOOLEAN]

\* The uuid of a reservation is the number of the call it is made for.
ModelReservation == [id : Nat, cost : Nat]

ActionTypes == {"execute_sql", "profile", "other"}

LedgerInit ==
    /\ snapshot = [action_loops |-> 0, llm_calls |-> 0, tool_calls |-> 0,
                   execute_calls |-> 0, profile_calls |-> 0,
                   repair_count |-> 0, structured_output_repair_count |-> 0,
                   committed |-> 0, reserved |-> 0,
                   soft_cap_reached |-> FALSE]
    /\ reservations = {}
    /\ expired = FALSE

-----------------------------------------------------------------------------
(***************************************************************************)
(* Model calls.                                                            *)
(***************************************************************************)
\* Mutant: a reservation does not look at the clock.
ReserveLimitTimeless(cost) ==
    CASE snapshot.llm_calls >= MaxLlmCalls -> "llm_call_limit"
      [] /\ snapshot.llm_calls < MaxLlmCalls
         /\ snapshot.committed + snapshot.reserved + cost > HardCost
         -> "cost_hard_cap"
      [] OTHER -> "none"

ReserveLimit(cost) ==
    CASE expired -> "task_timeout"
      [] ~expired /\ snapshot.llm_calls >= MaxLlmCalls -> "llm_call_limit"
      [] /\ ~expired
         /\ snapshot.llm_calls < MaxLlmCalls
         /\ snapshot.committed + snapshot.reserved + cost > HardCost
         -> "cost_hard_cap"
      [] OTHER -> "none"

reserve_model_call(r) ==
    /\ ReserveLimit(r.cost) = "none"
    /\ r.id = snapshot.llm_calls + 1
    /\ reservations' = reservations \union {r}
    /\ snapshot' = [snapshot EXCEPT !.llm_calls = @ + 1,
                                    !.reserved = @ + r.cost]

\* Mutant: usage beyond the reservation is settled.
SettlesAnyUsage(r, actual, priced) == r \in reservations /\ priced

\* settle_model_call raises, and changes nothing, unless the provider's model
\* has a price and the actual cost is at most what was reserved.
Settles(r, actual, priced) ==
    /\ r \in reservations
    /\ priced
    /\ actual <= r.cost

\* The end of a reservation, by settlement or by failure: "charge" is
\* committed in its place.
Charged(r, charge) ==
    /\ r \in reservations
    /\ reservations' = reservations \ {r}
    /\ snapshot' = [snapshot EXCEPT
                      !.committed = @ + charge,
                      !.reserved = @ - r.cost,
                      !.soft_cap_reached =
                          @ \/ snapshot.committed + charge >= SoftCost]

settle_model_call(r, actual, priced) ==
    /\ Settles(r, actual, priced)
    /\ Charged(r, actual)

fail_model_call(r) == Charged(r, r.cost)

-----------------------------------------------------------------------------
(***************************************************************************)
(* Tools, rounds of the loop, repairs.                                     *)
(***************************************************************************)
ToolLimit(type) ==
    CASE expired -> "task_timeout"
      [] ~expired /\ snapshot.tool_calls >= MaxToolCalls -> "tool_call_limit"
      [] /\ ~expired
         /\ snapshot.tool_calls < MaxToolCalls
         /\ type = "execute_sql" /\ snapshot.execute_calls >= MaxExecuteCalls
         -> "execute_limit"
      [] /\ ~expired
         /\ snapshot.tool_calls < MaxToolCalls
         /\ type = "profile" /\ snapshot.profile_calls >= MaxProfileCalls
         -> "profile_limit"
      [] OTHER -> "none"

consume_tool(type) ==
    /\ ToolLimit(type) = "none"
    /\ snapshot' = [snapshot EXCEPT
                      !.tool_calls = @ + 1,
                      !.execute_calls = IF type = "execute_sql" THEN @ + 1 ELSE @,
                      !.profile_calls = IF type = "profile" THEN @ + 1 ELSE @]
    /\ UNCHANGED reservations

LoopAvailable == snapshot.action_loops < MaxActionLoops

\* Mutant: off by one.
LoopLimitLate ==
    CASE expired -> "task_timeout"
      [] ~expired /\ snapshot.action_loops > MaxActionLoops -> "analysis_loop_limit"
      [] OTHER -> "none"

\* ensure_action_loop_available looks at the clock, consume_action_loop does not.
LoopLimit ==
    CASE expired -> "task_timeout"
      [] ~expired /\ ~LoopAvailable -> "analysis_loop_limit"
      [] OTHER -> "none"

consume_action_loop ==
    /\ LoopAvailable
    /\ snapshot' = [snapshot EXCEPT !.action_loops = @ + 1]
    /\ UNCHANGED reservations

RepairLimit ==
    CASE expired -> "task_timeout"
      [] ~expired /\ snapshot.repair_count >= MaxRepairs -> "repair_failed"
      [] OTHER -> "none"

consume_repair(structured) ==
    /\ RepairLimit = "none"
    /\ snapshot' = [snapshot EXCEPT
                      !.repair_count = @ + 1,
                      !.structured_output_repair_count =
                          IF structured THEN @ + 1 ELSE @]
    /\ UNCHANGED reservations

Expire ==
    /\ ~expired
    /\ expired' = TRUE
    /\ UNCHANGED <<snapshot, reservations>>

=============================================================================
