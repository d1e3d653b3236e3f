-------------------------- MODULE AgentGraphProofs --------------------------
(***************************************************************************)
(* Proofs about ModelInvoker and AgentGraph, for all limits, caps, costs,  *)
(* plans and tool errors.                                                  *)
(*                                                                         *)
(* The first part is about an invoker that is used in any way.  Its        *)
(* invariant is the conjunction of the safety properties: the hard cap     *)
(* holds because what is reserved is what the one awaited call may cost,   *)
(* and that in turn because every path of an invocation ends its           *)
(* reservation.  Every node of the graph changes the ledger and the        *)
(* invoker only by the operations of ModelInvoker, so all of this holds of *)
(* every run of the graph; the second part is about whole runs.            *)
(***************************************************************************)
EXTENDS AgentGraph, SumLemmas, SequenceTheorems

\* The ledger keeps the types, the caps and the validator's inequalities.
LedgerInv ==
    /\ snapshot \in GovernanceSnapshot
    /\ WithinHardCap
    /\ SoftCapExact
    /\ SnapshotValid

IInv == TypeOK /\ ReservedForCall /\ LedgerInv

-----------------------------------------------------------------------------
\* What a refusal-free check of the ledger establishes.
LEMMA ReserveAllowed ==
    ASSUME snapshot \in GovernanceSnapshot, NEW c \in Nat, ReserveLimit(c) = "none"
    PROVE  /\ ~expired
           /\ snapshot.llm_calls < MaxLlmCalls
           /\ snapshot.committed + snapshot.reserved + c <= HardCost
  BY LimitsAssumption DEF ReserveLimit, GovernanceSnapshot

LEMMA ToolAllowed ==
    ASSUME snapshot \in GovernanceSnapshot, NEW type \in ActionTypes,
           ToolLimit(type) = "none"
    PROVE  /\ ~expired
           /\ snapshot.tool_calls < MaxToolCalls
           /\ type = "execute_sql" => snapshot.execute_calls < MaxExecuteCalls
           /\ type = "profile" => snapshot.profile_calls < MaxProfileCalls
  BY LimitsAssumption DEF ToolLimit, GovernanceSnapshot, ActionTypes

LEMMA RepairGranted ==
    ASSUME snapshot \in GovernanceSnapshot, RepairLimit = "none"
    PROVE  ~expired /\ snapshot.repair_count < MaxRepairs
  BY LimitsAssumption DEF RepairLimit, GovernanceSnapshot

-----------------------------------------------------------------------------
\* The snapshots that the operations make are snapshots.
LEMMA UpdateTypes ==
    ASSUME NEW s \in GovernanceSnapshot, NEW x \in Nat, NEW y \in Nat, NEW z \in Nat,
           NEW b \in BOOLEAN
    PROVE  /\ [s EXCEPT !.llm_calls = x, !.reserved = y] \in GovernanceSnapshot
           /\ [s EXCEPT !.committed = x, !.reserved = y, !.soft_cap_reached = b]
                \in GovernanceSnapshot
           /\ [s EXCEPT !.tool_calls = x, !.execute_calls = y, !.profile_calls = z]
                \in GovernanceSnapshot
           /\ [s EXCEPT !.action_loops = x] \in GovernanceSnapshot
           /\ [s EXCEPT !.repair_count = x, !.structured_output_repair_count = y]
                \in GovernanceSnapshot
  BY DEF GovernanceSnapshot

\* The operations of the ledger keep its invariant.

LEMMA ReserveKeeps ==
    ASSUME IInv, ~Awaiting, NEW c \in Nat,
           reserve_model_call([id |-> snapshot.llm_calls + 1, cost |-> c])
    PROVE  /\ LedgerInv'
           /\ reservations' = {[id |-> snapshot.llm_calls + 1, cost |-> c]}
           /\ [id |-> snapshot.llm_calls + 1, cost |-> c] \in ModelReservation
           /\ snapshot'.reserved = c
           /\ snapshot'.llm_calls = snapshot.llm_calls + 1
           /\ ~expired
  <1> DEFINE r == [id |-> snapshot.llm_calls + 1, cost |-> c]
  <1>1. snapshot \in GovernanceSnapshot /\ reservations = {} /\ snapshot.reserved = 0
    BY DEF IInv, LedgerInv, ReservedForCall
  <1>2. r \in ModelReservation /\ r.cost = c
    BY <1>1 DEF ModelReservation, GovernanceSnapshot
  <1>3. /\ snapshot' = [snapshot EXCEPT !.llm_calls = @ + 1, !.reserved = @ + c]
        /\ reservations' = {r}
        /\ ReserveLimit(c) = "none"
    BY <1>1, <1>2 DEF reserve_model_call
  <1>4. /\ ~expired
        /\ snapshot.llm_calls < MaxLlmCalls
        /\ snapshot.committed + snapshot.reserved + c <= HardCost
    BY <1>1, <1>3, ReserveAllowed
  <1>5. [snapshot EXCEPT !.llm_calls = @ + 1, !.reserved = @ + c] \in GovernanceSnapshot
    <2>1. snapshot.llm_calls + 1 \in Nat /\ snapshot.reserved + c \in Nat
      BY <1>1 DEF GovernanceSnapshot
    <2> QED
      BY <1>1, <2>1, UpdateTypes
  <1>6. LedgerInv'
    BY <1>1, <1>3, <1>4, <1>5, LimitsAssumption
    DEF IInv, LedgerInv, GovernanceSnapshot, WithinHardCap, SoftCapExact, SnapshotValid
  <1>7. snapshot'.reserved = c /\ snapshot'.llm_calls = snapshot.llm_calls + 1
    BY <1>1, <1>3 DEF GovernanceSnapshot
  <1> QED
    BY <1>2, <1>3, <1>4, <1>6, <1>7

LEMMA ChargeKeeps ==
    ASSUME IInv, Awaiting, NEW charge \in Nat, charge <= held.cost, Charged(held, charge)
    PROVE  /\ LedgerInv'
           /\ reservations' = {}
           /\ snapshot'.reserved = 0
           /\ snapshot'.committed + snapshot'.reserved
                <= snapshot.committed + snapshot.reserved
           /\ snapshot'.llm_calls = snapshot.llm_calls
           /\ snapshot'.tool_calls = snapshot.tool_calls
           /\ snapshot'.repair_count = snapshot.repair_count
  <1>1. /\ snapshot \in GovernanceSnapshot
        /\ reservations = {held}
        /\ snapshot.reserved = held.cost
        /\ held \in ModelReservation
    BY DEF IInv, LedgerInv, ReservedForCall, TypeOK
  <1>2. held.cost \in Nat
    BY <1>1 DEF ModelReservation
  <1> DEFINE soft == snapshot.soft_cap_reached \/ snapshot.committed + charge >= SoftCost
             after == [snapshot EXCEPT !.committed = @ + charge,
                                       !.reserved = @ - held.cost,
                                       !.soft_cap_reached =
                                           @ \/ snapshot.committed + charge >= SoftCost]
  <1>3. snapshot' = after /\ reservations' = {}
    BY <1>1 DEF Charged
  <1>4. snapshot.reserved - held.cost = 0
    BY <1>1, <1>2
  <1>5. soft \in BOOLEAN
    OBVIOUS
  <1>6. after \in GovernanceSnapshot
    <2>1. snapshot.committed + charge \in Nat /\ snapshot.reserved - held.cost \in Nat
      BY <1>1, <1>4 DEF GovernanceSnapshot
    <2> QED
      BY <1>1, <1>5, <2>1, UpdateTypes
  <1>7. /\ after.committed = snapshot.committed + charge
        /\ after.reserved = 0
        /\ after.soft_cap_reached = soft
    BY <1>1, <1>4 DEF GovernanceSnapshot
  <1>8. WithinHardCap'
    BY <1>1, <1>2, <1>3, <1>7, LimitsAssumption
    DEF IInv, LedgerInv, WithinHardCap, GovernanceSnapshot
  <1>9. SoftCapExact'
    <2>1. snapshot.soft_cap_reached <=> snapshot.committed >= SoftCost
      BY DEF IInv, LedgerInv, SoftCapExact
    <2>2. soft <=> snapshot.committed + charge >= SoftCost
      BY <1>1, <2>1, LimitsAssumption DEF GovernanceSnapshot
    <2> QED
      BY <1>3, <1>7, <2>2 DEF SoftCapExact
  <1>10. SnapshotValid'
    BY <1>1, <1>3 DEF IInv, LedgerInv, SnapshotValid, GovernanceSnapshot
  <1>11. /\ snapshot'.committed + snapshot'.reserved
              <= snapshot.committed + snapshot.reserved
         /\ snapshot'.llm_calls = snapshot.llm_calls
         /\ snapshot'.tool_calls = snapshot.tool_calls
         /\ snapshot'.repair_count = snapshot.repair_count
    BY <1>1, <1>2, <1>3, <1>7 DEF GovernanceSnapshot
  <1> QED
    BY <1>3, <1>6, <1>7, <1>8, <1>9, <1>10, <1>11 DEF LedgerInv

\* The operations that move no money.
SpendingUnchanged ==
    /\ snapshot'.committed = snapshot.committed
    /\ snapshot'.reserved = snapshot.reserved
    /\ snapshot'.llm_calls = snapshot.llm_calls

LEMMA ToolKeeps ==
    ASSUME IInv, NEW type \in ActionTypes, consume_tool(type)
    PROVE  /\ LedgerInv' /\ SpendingUnchanged
           /\ UNCHANGED reservations /\ ~expired
  <1> DEFINE executes == IF type = "execute_sql" THEN snapshot.execute_calls + 1
                                                 ELSE snapshot.execute_calls
             profiles == IF type = "profile" THEN snapshot.profile_calls + 1
                                             ELSE snapshot.profile_calls
             after == [snapshot EXCEPT !.tool_calls = @ + 1,
                                       !.execute_calls = executes,
                                       !.profile_calls = profiles]
  <1>1. snapshot \in GovernanceSnapshot
    BY DEF IInv, LedgerInv
  <1>2. snapshot' = after /\ UNCHANGED reservations /\ ToolLimit(type) = "none"
    BY DEF consume_tool
  <1>3. /\ ~expired
        /\ snapshot.tool_calls < MaxToolCalls
        /\ type = "execute_sql" => snapshot.execute_calls < MaxExecuteCalls
        /\ type = "profile" => snapshot.profile_calls < MaxProfileCalls
    BY <1>1, <1>2, ToolAllowed
  <1>4. snapshot.tool_calls + 1 \in Nat /\ executes \in Nat /\ profiles \in Nat
    BY <1>1 DEF GovernanceSnapshot
  <1>5. after \in GovernanceSnapshot
    BY <1>1, <1>4, UpdateTypes
  <1>6. /\ after.tool_calls = snapshot.tool_calls + 1
        /\ after.execute_calls = executes
        /\ after.profile_calls = profiles
        /\ after.committed = snapshot.committed
        /\ after.reserved = snapshot.reserved
        /\ after.soft_cap_reached = snapshot.soft_cap_reached
        /\ after.llm_calls = snapshot.llm_calls
        /\ after.repair_count = snapshot.repair_count
        /\ after.structured_output_repair_count = snapshot.structured_output_repair_count
        /\ after.action_loops = snapshot.action_loops
    BY <1>1 DEF GovernanceSnapshot
  <1>7. executes + profiles <= snapshot.execute_calls + snapshot.profile_calls + 1
    BY <1>1 DEF GovernanceSnapshot
  <1>8. SnapshotValid'
    BY <1>1, <1>2, <1>3, <1>4, <1>6, <1>7, LimitsAssumption
    DEF IInv, LedgerInv, SnapshotValid, GovernanceSnapshot
  <1>9. WithinHardCap' /\ SoftCapExact'
    BY <1>2, <1>6 DEF IInv, LedgerInv, WithinHardCap, SoftCapExact
  <1> QED
    BY <1>2, <1>3, <1>5, <1>6, <1>8, <1>9 DEF LedgerInv, SpendingUnchanged

LEMMA LoopKeeps ==
    ASSUME IInv, consume_action_loop
    PROVE  LedgerInv' /\ SpendingUnchanged /\ UNCHANGED reservations
  <1>1. /\ snapshot \in GovernanceSnapshot
        /\ snapshot' = [snapshot EXCEPT !.action_loops = @ + 1]
        /\ UNCHANGED reservations
        /\ snapshot.action_loops < MaxActionLoops
    BY DEF IInv, LedgerInv, consume_action_loop, LoopAvailable
  <1>2. snapshot.action_loops + 1 \in Nat
    BY <1>1 DEF GovernanceSnapshot
  <1>3. snapshot' \in GovernanceSnapshot
    BY <1>1, <1>2, UpdateTypes
  <1> QED
    BY <1>1, <1>3, LimitsAssumption
    DEF IInv, LedgerInv, GovernanceSnapshot, WithinHardCap, SoftCapExact,
        SnapshotValid, SpendingUnchanged

LEMMA RepairKeeps ==
    ASSUME IInv, NEW structured \in BOOLEAN, consume_repair(structured)
    PROVE  /\ LedgerInv' /\ SpendingUnchanged
           /\ UNCHANGED reservations /\ ~expired
  <1> DEFINE count == IF structured THEN snapshot.structured_output_repair_count + 1
                                    ELSE snapshot.structured_output_repair_count
             after == [snapshot EXCEPT !.repair_count = @ + 1,
                                       !.structured_output_repair_count = count]
  <1>1. snapshot \in GovernanceSnapshot
    BY DEF IInv, LedgerInv
  <1>2. /\ snapshot' = after
        /\ UNCHANGED reservations
        /\ ~expired
        /\ snapshot.repair_count < MaxRepairs
    BY <1>1, RepairGranted DEF consume_repair
  <1>3. snapshot.repair_count + 1 \in Nat /\ count \in Nat
    BY <1>1 DEF GovernanceSnapshot
  <1>4. after \in GovernanceSnapshot
    BY <1>1, <1>3, UpdateTypes
  <1>5. /\ after.repair_count = snapshot.repair_count + 1
        /\ after.structured_output_repair_count = count
        /\ count <= snapshot.structured_output_repair_count + 1
    BY <1>1 DEF GovernanceSnapshot
  <1>6. /\ after.committed = snapshot.committed
        /\ after.reserved = snapshot.reserved
        /\ after.soft_cap_reached = snapshot.soft_cap_reached
        /\ after.llm_calls = snapshot.llm_calls
        /\ after.tool_calls = snapshot.tool_calls
        /\ after.execute_calls = snapshot.execute_calls
        /\ after.profile_calls = snapshot.profile_calls
        /\ after.action_loops = snapshot.action_loops
    BY <1>1 DEF GovernanceSnapshot
  <1>7. SnapshotValid'
    BY <1>1, <1>2, <1>3, <1>5, <1>6, LimitsAssumption
    DEF IInv, LedgerInv, SnapshotValid, GovernanceSnapshot
  <1>8. WithinHardCap' /\ SoftCapExact'
    BY <1>2, <1>6 DEF IInv, LedgerInv, WithinHardCap, SoftCapExact
  <1> QED
    BY <1>2, <1>4, <1>6, <1>7, <1>8 DEF LedgerInv, SpendingUnchanged

-----------------------------------------------------------------------------
(***************************************************************************)
(* The steps of an invocation, told by what they do to the ledger.         *)
(***************************************************************************)
\* The record and the result stay in their sets.
Labels == record' \in Records /\ result' \in Results /\ purpose' \in Purposes

\* A call is reserved: the invocation awaits it.
Reserves ==
    /\ LedgerInv'
    /\ reservations' = {held'}
    /\ held' \in ModelReservation
    /\ snapshot'.reserved = held'.cost
    /\ snapshot'.llm_calls = snapshot.llm_calls + 1
    /\ phase' \in {"calling", "recalling"}
    /\ ~expired
    /\ UNCHANGED <<expired, traces>>

\* A call ends: its reservation is charged with at most what it holds.
Ends ==
    /\ Awaiting
    /\ \E charge \in Nat : charge <= held.cost /\ Charged(held, charge)
    /\ \E t \in ModelCallTrace : traces' = Append(traces, t)
    /\ phase' \in {"idle", "repairing", "cancelled"}
    /\ held' = NoRes
    /\ Labels
    /\ UNCHANGED expired

LEMMA ReserveStep ==
    ASSUME IInv, NEW cost \in Costs, NEW next \in {"calling", "recalling"},
           phase \in {"idle", "rereserving"}, Reserve(cost, next)
    PROVE  Reserves
  <1>1. cost \in Nat /\ ~Awaiting
    BY CostsAssumption DEF Awaiting
  <1>2. /\ held' = [id |-> snapshot.llm_calls + 1, cost |-> cost]
        /\ reserve_model_call([id |-> snapshot.llm_calls + 1, cost |-> cost])
        /\ phase' = next
        /\ UNCHANGED <<expired, traces>>
    BY DEF Reserve
  <1> QED
    BY <1>1, <1>2, ReserveKeeps DEF Reserves

\* What a call is charged, and what its trace says it cost.
LEMMA AccountCharges ==
    ASSUME IInv, Awaiting, NEW actual \in Costs, NEW priced \in BOOLEAN,
           Account(actual, priced)
    PROVE  /\ \E charge \in Nat : charge <= held.cost /\ Charged(held, charge)
           /\ actual \in Nat /\ held.cost \in Nat
           /\ Accounted(actual, priced) \in Nat
  <1>1. held \in ModelReservation /\ actual \in Nat
    BY CostsAssumption DEF IInv, ReservedForCall, TypeOK
  <1>2. held.cost \in Nat /\ held.cost <= held.cost
    BY <1>1 DEF ModelReservation
  <1>3. CASE settle_model_call(held, actual, priced)
    BY <1>1, <1>2, <1>3 DEF settle_model_call, Settles, Accounted
  <1>4. CASE ~Settles(held, actual, priced) /\ fail_model_call(held)
    BY <1>1, <1>2, <1>4 DEF fail_model_call, Accounted
  <1> QED
    BY <1>3, <1>4 DEF Account

LEMMA TraceTyped ==
    ASSUME IInv, NEW outcome \in {"completed", "failed", "cancelled"}, NEW cost \in Nat,
           Traced(outcome, cost)
    PROVE  \E t \in ModelCallTrace : traces' = Append(traces, t)
  <1> DEFINE p == IF phase = "recalling" THEN "repair" ELSE purpose
             t == [purpose |-> p, outcome |-> outcome, cost |-> cost]
  <1>1. p \in ModelPurposes
    BY CostsAssumption DEF IInv, TypeOK, ModelPurposes
  <1>2. t \in ModelCallTrace
    BY <1>1 DEF ModelCallTrace
  <1>3. traces' = Append(traces, t)
    BY DEF Traced
  <1> HIDE DEF t
  <1> QED
    BY <1>2, <1>3

LEMMA AnsweredEnds ==
    ASSUME IInv, NEW actual \in Costs, NEW priced \in BOOLEAN,
           Answered(actual, priced)
    PROVE  Ends
  <1>1. Awaiting /\ Account(actual, priced)
    BY DEF Answered
  <1>2. \E charge \in Nat : charge <= held.cost /\ Charged(held, charge)
    BY <1>1, AccountCharges
  <1>3. actual \in Nat /\ held.cost \in Nat
    BY <1>1, AccountCharges
  <1>4. \E t \in ModelCallTrace : traces' = Append(traces, t)
    BY <1>3, TraceTyped DEF Answered
  <1>5. /\ phase' = "idle"
        /\ held' = NoRes
        /\ Labels
        /\ UNCHANGED expired
    BY DEF Answered, Return, Labels, Records, Results, IInv, TypeOK
  <1> QED
    BY <1>1, <1>2, <1>4, <1>5 DEF Ends

LEMMA FirstFailureEnds ==
    ASSUME IInv, NEW actual \in Costs, NEW priced \in BOOLEAN,
           NEW category \in {"unavailable", "malformed"}, NEW cut \in BOOLEAN,
           FirstCallFailed(actual, priced, category, cut)
    PROVE  Ends
  <1>1. /\ Awaiting /\ Account(actual, priced)
        /\ Traced("failed", Accounted(actual, priced))
    BY DEF FirstCallFailed, Awaiting
  <1>2. \E charge \in Nat : charge <= held.cost /\ Charged(held, charge)
    BY <1>1, AccountCharges
  <1>3. Accounted(actual, priced) \in Nat
    BY <1>1, AccountCharges
  <1>4. \E t \in ModelCallTrace : traces' = Append(traces, t)
    BY <1>1, <1>3, TraceTyped
  <1>5. /\ phase' \in {"idle", "repairing"}
        /\ held' = NoRes
        /\ Labels
        /\ UNCHANGED expired
    BY DEF FirstCallFailed, Return, Labels, Records, Results, StopReasonOf, IInv, TypeOK
  <1> QED
    BY <1>1, <1>2, <1>4, <1>5 DEF Ends

LEMMA RepairFailureEnds ==
    ASSUME IInv, NEW actual \in Costs, NEW priced \in BOOLEAN,
           RepairCallFailed(actual, priced)
    PROVE  Ends
  <1>1. /\ Awaiting /\ Account(actual, priced)
        /\ Traced("failed", Accounted(actual, priced))
        /\ Return("failed", "repair_failed")
    BY DEF RepairCallFailed, Awaiting
  <1>2. \E charge \in Nat : charge <= held.cost /\ Charged(held, charge)
    BY <1>1, AccountCharges
  <1>3. Accounted(actual, priced) \in Nat
    BY <1>1, AccountCharges
  <1>4. \E t \in ModelCallTrace : traces' = Append(traces, t)
    BY <1>1, <1>3, TraceTyped
  <1> QED
    BY <1>1, <1>2, <1>4 DEF Ends, Return, Labels, Records, Results, IInv, TypeOK

LEMMA CancelEnds ==
    ASSUME IInv, Cancel
    PROVE  Ends
  <1>1. Awaiting /\ fail_model_call(held) /\ Traced("cancelled", held.cost)
    BY DEF Cancel
  <1>2. held \in ModelReservation
    BY <1>1 DEF IInv, ReservedForCall, TypeOK
  <1>3. held.cost \in Nat /\ held.cost <= held.cost
    BY <1>2 DEF ModelReservation
  <1>4. \E t \in ModelCallTrace : traces' = Append(traces, t)
    BY <1>1, <1>3, TraceTyped
  <1> QED
    BY <1>1, <1>3, <1>4 DEF Ends, Cancel, fail_model_call, Labels, IInv, TypeOK

-----------------------------------------------------------------------------
(***************************************************************************)
(* Every step is one of five kinds.                                        *)
(***************************************************************************)
\* No money moves, and no call is awaited before or after.
Quiet ==
    /\ LedgerInv' /\ SpendingUnchanged /\ UNCHANGED <<reservations, traces>>
    /\ phase \in {"idle", "repairing", "rereserving"}
    /\ phase' \in {"idle", "repairing", "rereserving"}
    /\ held' \in {held, NoRes}
    /\ Labels
    /\ UNCHANGED expired
    /\ expired => /\ snapshot'.tool_calls = snapshot.tool_calls
                  /\ snapshot'.repair_count = snapshot.repair_count

LEMMA QuietConsume ==
    ASSUME IInv, NodeConsumes
    PROVE  Quiet
  <1>1. CASE \E type \in ActionTypes : consume_tool(type)
    BY <1>1, ToolKeeps DEF NodeConsumes, Quiet, Labels, invokerVars, IInv, TypeOK
  <1>2. CASE consume_action_loop
    <2>1. snapshot \in GovernanceSnapshot
      BY DEF IInv, LedgerInv
    <2>2. /\ snapshot'.tool_calls = snapshot.tool_calls
          /\ snapshot'.repair_count = snapshot.repair_count
      BY <1>2, <2>1 DEF consume_action_loop, GovernanceSnapshot
    <2> QED
      BY <1>2, <2>2, LoopKeeps DEF NodeConsumes, Quiet, Labels, invokerVars, IInv, TypeOK
  <1>3. CASE consume_repair(FALSE)
    BY <1>3, RepairKeeps DEF NodeConsumes, Quiet, Labels, invokerVars, IInv, TypeOK
  <1> QED
    BY <1>1, <1>2, <1>3 DEF NodeConsumes

LEMMA QuietRepair ==
    ASSUME IInv, ConsumeRepair
    PROVE  Quiet
  <1>1. CASE consume_repair(TRUE) /\ phase' = "rereserving"
             /\ UNCHANGED <<expired, held, purpose, record, result>>
    BY <1>1, RepairKeeps DEF ConsumeRepair, Quiet, Labels, IInv, TypeOK
  <1>2. CASE /\ RepairLimit # "none"
             /\ Return("blocked", RepairLimit)
             /\ UNCHANGED <<snapshot, reservations>>
    <2>1. LedgerInv' /\ SpendingUnchanged
      BY <1>2 DEF IInv, LedgerInv, SpendingUnchanged, WithinHardCap, SoftCapExact,
                  SnapshotValid
    <2>2. Labels
      BY <1>2 DEF Return, RepairLimit, Labels, Records, Results, IInv, TypeOK
    <2> QED
      BY <1>2, <2>1, <2>2 DEF ConsumeRepair, Return, Quiet
  <1> QED
    BY <1>1, <1>2 DEF ConsumeRepair

LEMMA RefusalReasons ==
    ASSUME NEW c
    PROVE  ReserveLimit(c) \in {"none", "task_timeout", "llm_call_limit", "cost_hard_cap"}
  BY DEF ReserveLimit

LEMMA StepKinds ==
    ASSUME IInv, Next
    PROVE  \/ Reserves /\ Labels
           \/ Ends
           \/ Quiet
           \/ Clock
  <1>1. ASSUME NEW p \in Purposes, NEW cost \in Costs, Invoke(p, cost)
        PROVE  Reserves /\ Labels
    BY <1>1, ReserveStep DEF Invoke, Labels, Records, Results
  <1>2. ASSUME NEW p \in Purposes, NEW cost \in Costs, InvokeRefused(p, cost)
        PROVE  Quiet
    <2>1. LedgerInv' /\ SpendingUnchanged
      BY <1>2 DEF InvokeRefused, ledgerVars, IInv, LedgerInv, SpendingUnchanged,
                  WithinHardCap, SoftCapExact, SnapshotValid
    <2>2. Labels
      BY <1>2, RefusalReasons DEF InvokeRefused, Labels, Records, Results
    <2> QED
      BY <1>2, <2>1, <2>2 DEF InvokeRefused, ledgerVars, Quiet
  <1>3. CASE Progress
    <2>1. ASSUME NEW actual \in Costs, NEW priced \in BOOLEAN,
                 \/ Answered(actual, priced)
                 \/ \E category \in {"unavailable", "malformed"}, cut \in BOOLEAN :
                       FirstCallFailed(actual, priced, category, cut)
                 \/ RepairCallFailed(actual, priced)
          PROVE  Ends
      BY <2>1, AnsweredEnds, FirstFailureEnds, RepairFailureEnds
    <2>2. CASE ConsumeRepair
      BY <2>2, QuietRepair
    <2>3. ASSUME NEW cost \in Costs, RepairCall(cost)
          PROVE  \/ Reserves /\ Labels
                 \/ Quiet
      <3>1. CASE Reserve(cost, "recalling") /\ UNCHANGED <<purpose, record, result>>
        BY <2>3, <3>1, ReserveStep DEF RepairCall, Labels, IInv, TypeOK
      <3>2. ASSUME NEW reason \in {ReserveLimit(cost), "internal_error"} \ {"none"},
                   Return("blocked", reason), UNCHANGED <<snapshot, reservations, traces>>
            PROVE  Quiet
        <4>1. LedgerInv' /\ SpendingUnchanged
          BY <3>2 DEF IInv, LedgerInv, SpendingUnchanged, WithinHardCap, SoftCapExact,
                      SnapshotValid
        <4>2. Labels
          BY <3>2, RefusalReasons DEF Return, Labels, Records, Results, IInv, TypeOK
        <4> QED
          BY <2>3, <3>2, <4>1, <4>2 DEF RepairCall, Return, Quiet
      <3> QED
        BY <2>3, <3>1, <3>2 DEF RepairCall
    <2>4. CASE Cancel
      BY <2>4, CancelEnds
    <2> QED
      BY <1>3, <2>1, <2>2, <2>3, <2>4 DEF Progress
  <1>4. CASE NodeConsumes
    BY <1>4, QuietConsume
  <1>5. CASE Clock
    BY <1>5
  <1> QED
    BY <1>1, <1>2, <1>3, <1>4, <1>5 DEF Next

-----------------------------------------------------------------------------
LEMMA InitInv == Init => IInv
  <1> SUFFICES ASSUME Init PROVE IInv
    OBVIOUS
  <1>1. snapshot \in GovernanceSnapshot
    BY DEF Init, LedgerInit, GovernanceSnapshot
  <1>2. TypeOK
    <2>1. <<>> \in Seq(ModelCallTrace)
      OBVIOUS
    <2>2. reservations \subseteq ModelReservation /\ expired \in BOOLEAN
      BY DEF Init, LedgerInit
    <2>3. /\ phase \in Phases /\ held = NoRes /\ purpose \in Purposes
          /\ traces = <<>> /\ record \in Records /\ result \in Results
      BY DEF Init, Phases, Records, Results
    <2> QED
      BY <1>1, <2>1, <2>2, <2>3 DEF TypeOK
  <1>3. ReservedForCall
    BY DEF Init, LedgerInit, ReservedForCall, Awaiting
  <1>4. WithinHardCap
    BY LimitsAssumption DEF Init, LedgerInit, WithinHardCap
  <1>5. SoftCapExact
    BY LimitsAssumption DEF Init, LedgerInit, SoftCapExact
  <1>6. SnapshotValid
    BY LimitsAssumption DEF Init, LedgerInit, SnapshotValid
  <1> QED
    BY <1>1, <1>2, <1>3, <1>4, <1>5, <1>6 DEF IInv, LedgerInv

LEMMA NextInv ==
    ASSUME IInv, [Next]_vars
    PROVE  IInv'
  <1>1. CASE Reserves /\ Labels
    <2>1. TypeOK'
      BY <1>1 DEF Reserves, Labels, LedgerInv, IInv, TypeOK, Phases
    <2>2. ReservedForCall'
      BY <1>1 DEF Reserves, ReservedForCall, Awaiting
    <2> QED
      BY <1>1, <2>1, <2>2 DEF Reserves, IInv
  <1>2. CASE Ends
    <2>1. PICK charge \in Nat : charge <= held.cost /\ Charged(held, charge)
      BY <1>2 DEF Ends
    <2>2. LedgerInv' /\ reservations' = {} /\ snapshot'.reserved = 0
      BY <1>2, <2>1, ChargeKeeps DEF Ends
    <2>3. traces' \in Seq(ModelCallTrace)
      BY <1>2 DEF Ends, IInv, TypeOK
    <2>4. TypeOK'
      BY <1>2, <2>2, <2>3 DEF Ends, Labels, LedgerInv, IInv, TypeOK, Phases
    <2>5. ReservedForCall'
      BY <1>2, <2>2 DEF Ends, ReservedForCall, Awaiting
    <2> QED
      BY <2>2, <2>4, <2>5 DEF IInv
  <1>3. CASE Quiet
    <2>1. TypeOK'
      BY <1>3 DEF Quiet, Labels, LedgerInv, IInv, TypeOK, Phases
    <2>2. ReservedForCall'
      BY <1>3 DEF Quiet, SpendingUnchanged, IInv, ReservedForCall, Awaiting
    <2> QED
      BY <1>3, <2>1, <2>2 DEF Quiet, IInv
  <1>4. CASE Clock
    BY <1>4 DEF Clock, Expire, invokerVars, IInv, LedgerInv, TypeOK, ReservedForCall,
                Awaiting, WithinHardCap, SoftCapExact, SnapshotValid
  <1>5. CASE UNCHANGED vars
    BY <1>5 DEF vars, ledgerVars, invokerVars, IInv, LedgerInv, TypeOK, ReservedForCall,
                Awaiting, WithinHardCap, SoftCapExact, SnapshotValid
  <1> QED
    BY <1>1, <1>2, <1>3, <1>4, <1>5, StepKinds

\* The invariant of the ledger and the invoker.
LEMMA Invariance == Spec => []IInv
  <1>1. IInv /\ [Next]_vars => IInv'
    BY NextInv
  <1> QED
    BY <1>1, InitInv, PTL DEF Spec

\* The variables keep their types, whatever the limits and costs.
THEOREM TypeCorrect == Spec => []TypeOK
  BY Invariance, PTL DEF IInv

\* Money is reserved exactly for the call that is awaited.
THEOREM ReservationsEnd == Spec => []ReservedForCall
  BY Invariance, PTL DEF IInv

\* No run spends or sets aside more than its hard cap, the soft cap is raised
\* exactly when the spending has reached it, and the snapshot satisfies its
\* validator and every limit, although updates are not validated.
THEOREM LedgerHolds == Spec => []LedgerSound
  <1>1. IInv => LedgerSound
    BY DEF IInv, LedgerInv, LedgerSound
  <1> QED
    BY <1>1, Invariance, PTL

\* After the deadline no call, tool or repair is begun.
THEOREM DeadlineHolds == Spec => NothingBegunLate
  <1> DEFINE Kept == expired => /\ snapshot'.llm_calls = snapshot.llm_calls
                                /\ snapshot'.tool_calls = snapshot.tool_calls
                                /\ snapshot'.repair_count = snapshot.repair_count
  <1>1. ASSUME IInv, [Next]_vars
        PROVE  [Kept]_vars
    <2>1. CASE Reserves
      BY <2>1 DEF Reserves
    <2>2. CASE Ends
      BY <1>1, <2>2, ChargeKeeps DEF Ends
    <2>3. CASE Quiet
      BY <2>3 DEF Quiet, SpendingUnchanged
    <2>4. CASE Clock
      BY <2>4 DEF Clock, Expire
    <2> QED
      BY <1>1, <2>1, <2>2, <2>3, <2>4, StepKinds
  <1> QED
    BY <1>1, Invariance, PTL DEF Spec, NothingBegunLate

\* Only a new reservation adds to what is spent or set aside.
THEOREM CommitmentHolds == Spec => CommitmentKept
  <1> DEFINE Kept ==
        snapshot'.committed + snapshot'.reserved > snapshot.committed + snapshot.reserved
          => snapshot'.llm_calls = snapshot.llm_calls + 1
  <1>1. ASSUME IInv, [Next]_vars
        PROVE  [Kept]_vars
    <2>0. /\ snapshot.committed + snapshot.reserved \in Nat
          /\ IInv'
      BY <1>1, NextInv DEF IInv, LedgerInv, GovernanceSnapshot
    <2>1. CASE Reserves
      BY <2>1 DEF Reserves
    <2>2. CASE Ends
      <3>1. /\ snapshot'.committed + snapshot'.reserved
                 <= snapshot.committed + snapshot.reserved
        BY <1>1, <2>2, ChargeKeeps DEF Ends
      <3>2. snapshot'.committed + snapshot'.reserved \in Nat
        BY <2>0 DEF IInv, LedgerInv, GovernanceSnapshot
      <3> QED
        BY <2>0, <3>1, <3>2
    <2>3. CASE Quiet
      BY <2>0, <2>3 DEF Quiet, SpendingUnchanged
    <2>4. CASE Clock
      BY <2>0, <2>4 DEF Clock, Expire
    <2> QED
      BY <1>1, <2>1, <2>2, <2>3, <2>4, StepKinds
  <1> QED
    BY <1>1, Invariance, PTL DEF Spec, CommitmentKept

-----------------------------------------------------------------------------
(***************************************************************************)
(* The traces and the record of the repair.                                *)
(***************************************************************************)
\* One trace per call that ended; a call under way has none yet.
CallsTraced == snapshot.llm_calls = Len(traces) + (IF Awaiting THEN 1 ELSE 0)

\* A repair follows a first call that failed.
RepairFollows ==
    phase \in {"repairing", "rereserving", "recalling"} =>
        /\ traces # <<>>
        /\ Last(traces).purpose # "repair"
        /\ Last(traces).outcome = "failed"

RecordInv == CallsTraced /\ RepairFollows /\ RepairRecordTruthful

LEMMA LastTrace ==
    ASSUME TypeOK, NEW outcome, NEW cost, Traced(outcome, cost)
    PROVE  /\ traces' # <<>> /\ Len(traces') = Len(traces) + 1
           /\ Last(traces').outcome = outcome
           /\ Last(traces').purpose = IF phase = "recalling" THEN "repair" ELSE purpose
  <1> DEFINE t == [purpose |-> IF phase = "recalling" THEN "repair" ELSE purpose,
                   outcome |-> outcome, cost |-> cost]
  <1>1. traces' = Append(traces, t) /\ Len(traces) \in Nat
    BY DEF Traced, TypeOK
  <1> HIDE DEF t
  <1>2. Len(traces') = Len(traces) + 1 /\ traces'[Len(traces')] = t
    BY <1>1 DEF TypeOK
  <1>3. traces' # <<>>
    BY <1>1, <1>2
  <1>4. Last(traces') = t
    BY <1>2 DEF Last
  <1> QED
    BY <1>2, <1>3, <1>4 DEF t

LEMMA ChargeTraced ==
    ASSUME IInv, Awaiting, CallsTraced, NEW outcome, NEW cost, Traced(outcome, cost),
           \E charge : Charged(held, charge), phase' \notin {"calling", "recalling"}
    PROVE  CallsTraced'
  <1>1. snapshot'.llm_calls = snapshot.llm_calls
    BY DEF Charged, IInv, LedgerInv, GovernanceSnapshot
  <1>2. Len(traces') = Len(traces) + 1 /\ Len(traces) \in Nat
    BY LastTrace DEF IInv, TypeOK
  <1> QED
    BY <1>1, <1>2 DEF CallsTraced, Awaiting

LEMMA RecordInvStep ==
    ASSUME IInv, RecordInv, [Next]_vars
    PROVE  RecordInv'
  <1>0. TypeOK /\ Len(traces) \in Nat /\ snapshot.llm_calls \in Nat
    BY DEF IInv, TypeOK, GovernanceSnapshot
  <1>1. ASSUME NEW actual \in Costs, NEW priced \in BOOLEAN, Account(actual, priced)
        PROVE  \E charge : Charged(held, charge)
    BY <1>1 DEF Account, settle_model_call, fail_model_call
  <1>2. ASSUME NEW cost \in Costs, NEW next, Reserve(cost, next),
               phase \in {"idle", "rereserving"}, next \in {"calling", "recalling"}
        PROVE  CallsTraced' /\ traces' = traces /\ phase' = next
    <2>1. /\ snapshot'.llm_calls = snapshot.llm_calls + 1
          /\ traces' = traces /\ phase' = next
      BY <1>2 DEF Reserve, reserve_model_call, IInv, LedgerInv, GovernanceSnapshot
    <2> QED
      BY <1>0, <1>2, <2>1 DEF RecordInv, CallsTraced, Awaiting
  <1>3. ASSUME NEW p \in Purposes, NEW cost \in Costs, Invoke(p, cost)
        PROVE  RecordInv'
    BY <1>2, <1>3 DEF Invoke, RecordInv, RepairFollows, RepairRecordTruthful
  <1>4. ASSUME NEW p \in Purposes, NEW cost \in Costs, InvokeRefused(p, cost)
        PROVE  RecordInv'
    BY <1>4
    DEF InvokeRefused, ledgerVars, RecordInv, CallsTraced, Awaiting, RepairFollows,
        RepairRecordTruthful
  <1>5. ASSUME NEW actual \in Costs, NEW priced \in BOOLEAN, Answered(actual, priced)
        PROVE  RecordInv'
    <2>1. /\ Awaiting /\ \E charge : Charged(held, charge)
          /\ phase' = "idle"
      BY <1>1, <1>5 DEF Answered, Return
    <2>2. CASE Settles(held, actual, priced)
      <3>1. /\ Traced("completed", actual)
            /\ record' = IF phase = "recalling" THEN "success" ELSE "none"
            /\ result' = "output"
        BY <1>5, <2>2 DEF Answered, Return
      <3> QED
        BY <1>0, <2>1, <3>1, LastTrace, ChargeTraced
        DEF RecordInv, RepairFollows, RepairRecordTruthful
    <2>3. CASE ~Settles(held, actual, priced)
      <3>1. /\ Traced("failed", held.cost)
            /\ record' = IF phase = "recalling" THEN "failed" ELSE "none"
            /\ result' # "output"
        BY <1>5, <2>3 DEF Answered, Return
      <3> QED
        BY <1>0, <2>1, <3>1, LastTrace, ChargeTraced
        DEF RecordInv, RepairFollows, RepairRecordTruthful
    <2> QED
      BY <2>2, <2>3
  <1>6. ASSUME NEW actual \in Costs, NEW priced \in BOOLEAN, NEW category, NEW cut,
               FirstCallFailed(actual, priced, category, cut)
        PROVE  RecordInv'
    <2>1. /\ Awaiting /\ phase = "calling" /\ \E charge : Charged(held, charge)
          /\ Traced("failed", Accounted(actual, priced))
      BY <1>1, <1>6 DEF FirstCallFailed, Awaiting
    <2>2. \/ phase' = "repairing" /\ purpose # "repair"
          \/ phase' = "idle" /\ record' = "none"
      BY <1>6 DEF FirstCallFailed, AllowsRepair, Repairable, Return
    <2>3. CallsTraced'
      BY <2>1, <2>2, ChargeTraced DEF RecordInv
    <2>4. /\ traces' # <<>> /\ Last(traces').outcome = "failed"
          /\ Last(traces').purpose = purpose
      BY <1>0, <2>1, LastTrace
    <2> QED
      BY <2>2, <2>3, <2>4 DEF RecordInv, RepairFollows, RepairRecordTruthful
  <1>7. ASSUME NEW actual \in Costs, NEW priced \in BOOLEAN, RepairCallFailed(actual, priced)
        PROVE  RecordInv'
    <2>1. /\ Awaiting /\ phase = "recalling" /\ \E charge : Charged(held, charge)
          /\ Traced("failed", Accounted(actual, priced))
          /\ phase' = "idle" /\ record' = "failed" /\ result' # "output"
      BY <1>1, <1>7 DEF RepairCallFailed, Return, Awaiting
    <2> QED
      BY <1>0, <2>1, LastTrace, ChargeTraced
      DEF RecordInv, RepairFollows, RepairRecordTruthful
  \* a repair that is blocked: the first call remains the last
  <1>8. ASSUME NEW reason, Return("blocked", reason), reason # "output",
               UNCHANGED <<snapshot, traces>>, phase \in {"repairing", "rereserving"}
        PROVE  RecordInv'
    BY <1>8
    DEF Return, RecordInv, CallsTraced, Awaiting, RepairFollows, RepairRecordTruthful
  <1>9. CASE ConsumeRepair
    <2>1. CASE consume_repair(TRUE) /\ phase' = "rereserving"
      <3>1. snapshot'.llm_calls = snapshot.llm_calls
        BY <2>1 DEF consume_repair, IInv, LedgerInv, GovernanceSnapshot
      <3> QED
        BY <1>9, <2>1, <3>1
        DEF ConsumeRepair, RecordInv, CallsTraced, Awaiting, RepairFollows,
            RepairRecordTruthful
    <2>2. CASE Return("blocked", RepairLimit) /\ UNCHANGED snapshot
      <3>1. RepairLimit # "output"
        BY DEF RepairLimit
      <3> QED
        BY <1>8, <1>9, <2>2, <3>1 DEF ConsumeRepair
    <2> QED
      BY <1>9, <2>1, <2>2 DEF ConsumeRepair
  <1>10. ASSUME NEW cost \in Costs, RepairCall(cost)
         PROVE  RecordInv'
    <2>1. CASE Reserve(cost, "recalling")
      BY <1>2, <1>10, <2>1 DEF RepairCall, RecordInv, RepairFollows, RepairRecordTruthful
    <2>2. ASSUME NEW reason \in {ReserveLimit(cost), "internal_error"} \ {"none"},
                 Return("blocked", reason), UNCHANGED <<snapshot, traces>>
          PROVE  RecordInv'
      <3>1. reason # "output"
        BY RefusalReasons
      <3> QED
        BY <1>8, <1>10, <2>2, <3>1 DEF RepairCall
    <2> QED
      BY <1>10, <2>1, <2>2 DEF RepairCall
  <1>11. CASE Cancel
    <2>1. /\ Awaiting /\ \E charge : Charged(held, charge) /\ phase' = "cancelled"
          /\ Traced("cancelled", held.cost)
      BY <1>11 DEF Cancel, fail_model_call
    <2>2. CallsTraced'
      BY <2>1, ChargeTraced DEF RecordInv
    <2> QED
      BY <2>1, <2>2 DEF RecordInv, RepairFollows, RepairRecordTruthful
  <1>12. CASE NodeConsumes
    <2>1. snapshot'.llm_calls = snapshot.llm_calls
      BY <1>12 DEF NodeConsumes, consume_tool, consume_action_loop, consume_repair,
                   IInv, LedgerInv, GovernanceSnapshot
    <2> QED
      BY <1>12, <2>1
      DEF NodeConsumes, invokerVars, RecordInv, CallsTraced, Awaiting, RepairFollows,
          RepairRecordTruthful
  <1>13. CASE Clock \/ UNCHANGED vars
    BY <1>13
    DEF Clock, Expire, vars, ledgerVars, invokerVars, RecordInv, CallsTraced, Awaiting,
        RepairFollows, RepairRecordTruthful
  <1> QED
    BY <1>3, <1>4, <1>5, <1>6, <1>7, <1>9, <1>10, <1>11, <1>12, <1>13 DEF Next, Progress

\* The costs of the traces add up to what the ledger committed: what a step charges
\* and what it traces are the same amount.
TracesBilled == CostFold(traces) = snapshot.committed

\* A call that ends is charged what its trace carries.
LEMMA EndIsBilled ==
    ASSUME IInv, TracesBilled, NEW outcome, NEW cost \in Nat,
           Charged(held, cost), Traced(outcome, cost), traces' \in Seq(ModelCallTrace)
    PROVE  TracesBilled'
  <1> DEFINE t == [purpose |-> IF phase = "recalling" THEN "repair" ELSE purpose,
                   outcome |-> outcome, cost |-> cost]
  <1>1. traces' = Append(traces, t) /\ t.cost = cost
    BY DEF Traced
  <1> HIDE DEF t
  <1>2. traces \in Seq(ModelCallTrace) /\ \A r \in ModelCallTrace : r.cost \in Nat
    BY DEF IInv, TypeOK, ModelCallTrace
  <1>3. t \in ModelCallTrace
    <2>1. Len(traces) \in Nat /\ Len(traces') = Len(traces) + 1
          /\ traces'[Len(traces) + 1] = t
      BY <1>1, <1>2
    <2> QED
      BY <2>1
  <1>4. CostFold(traces') = CostFold(traces) + cost
    BY <1>1, <1>2, <1>3, CostFoldGrows
  <1>5. snapshot'.committed = snapshot.committed + cost
    BY DEF Charged, IInv, LedgerInv, GovernanceSnapshot
  <1> QED
    BY <1>4, <1>5 DEF TracesBilled

LEMMA BilledStep ==
    ASSUME IInv, TracesBilled, [Next]_vars
    PROVE  TracesBilled'
  <1>0. traces' \in Seq(ModelCallTrace)
    BY NextInv DEF IInv, TypeOK
  <1>1. ASSUME NEW actual \in Costs, NEW priced \in BOOLEAN, Awaiting,
               Account(actual, priced), NEW outcome,
               Traced(outcome, Accounted(actual, priced))
        PROVE  TracesBilled'
    <2>1. Accounted(actual, priced) \in Nat
      BY <1>1, AccountCharges
    <2>2. Charged(held, Accounted(actual, priced))
      BY <1>1 DEF Account, Accounted, settle_model_call, fail_model_call, Settles
    <2> QED
      BY <1>0, <1>1, <2>1, <2>2, EndIsBilled
  <1>2. ASSUME NEW actual \in Costs, NEW priced \in BOOLEAN, Answered(actual, priced)
        PROVE  TracesBilled'
    BY <1>1, <1>2 DEF Answered, Accounted
  <1>3. ASSUME NEW actual \in Costs, NEW priced \in BOOLEAN, NEW category, NEW cut,
               FirstCallFailed(actual, priced, category, cut)
        PROVE  TracesBilled'
    BY <1>1, <1>3 DEF FirstCallFailed, Awaiting
  <1>4. ASSUME NEW actual \in Costs, NEW priced \in BOOLEAN, RepairCallFailed(actual, priced)
        PROVE  TracesBilled'
    BY <1>1, <1>4 DEF RepairCallFailed, Awaiting
  <1>5. CASE Cancel
    <2>1. held.cost \in Nat /\ Charged(held, held.cost) /\ Traced("cancelled", held.cost)
      BY <1>5 DEF Cancel, fail_model_call, IInv, ReservedForCall, TypeOK, ModelReservation,
                  GovernanceSnapshot
    <2> QED
      BY <1>0, <2>1, EndIsBilled
  \* a reservation commits nothing and traces nothing
  <1>6. ASSUME NEW cost, NEW next, Reserve(cost, next)
        PROVE  TracesBilled'
    <2>1. snapshot'.committed = snapshot.committed /\ traces' = traces
      BY <1>6 DEF Reserve, reserve_model_call, IInv, LedgerInv, GovernanceSnapshot
    <2> QED
      BY <2>1 DEF TracesBilled
  <1>7. CASE NodeConsumes
    <2>1. snapshot'.committed = snapshot.committed /\ traces' = traces
      BY <1>7 DEF NodeConsumes, consume_tool, consume_action_loop, consume_repair,
                  invokerVars, IInv, LedgerInv, GovernanceSnapshot
    <2> QED
      BY <2>1 DEF TracesBilled
  <1>8. CASE ConsumeRepair
    <2>1. snapshot'.committed = snapshot.committed /\ traces' = traces
      BY <1>8 DEF ConsumeRepair, consume_repair, IInv, LedgerInv, GovernanceSnapshot
    <2> QED
      BY <2>1 DEF TracesBilled
  <1>9. CASE UNCHANGED <<snapshot, traces>>
    BY <1>9 DEF TracesBilled
  <1>10. CASE Clock \/ UNCHANGED vars
    BY <1>9, <1>10 DEF Clock, Expire, vars, ledgerVars, invokerVars
  <1>11. ASSUME NEW p \in Purposes, NEW cost \in Costs, Invoke(p, cost) \/ InvokeRefused(p, cost)
         PROVE  TracesBilled'
    BY <1>6, <1>9, <1>11 DEF Invoke, InvokeRefused, ledgerVars
  <1>12. ASSUME NEW cost \in Costs, RepairCall(cost)
         PROVE  TracesBilled'
    BY <1>6, <1>9, <1>12 DEF RepairCall
  <1> QED
    BY <1>2, <1>3, <1>4, <1>5, <1>7, <1>8, <1>10, <1>11, <1>12 DEF Next, Progress

LEMMA AllCallsTraced == Spec => [](CallsTraced /\ RepairRecordTruthful)
  <1>1. Init => RecordInv
    BY DEF Init, LedgerInit, RecordInv, CallsTraced, Awaiting, RepairFollows,
           RepairRecordTruthful
  <1>2. IInv /\ RecordInv /\ [Next]_vars => RecordInv'
    BY RecordInvStep
  <1>3. RecordInv => CallsTraced /\ RepairRecordTruthful
    BY DEF RecordInv
  <1> QED
    BY <1>1, <1>2, <1>3, Invariance, PTL DEF Spec

\* The traces explain the bill, and the record of a repair tells what happened to it:
\* every call that ended has exactly one trace, and the costs of the traces add up to
\* what the ledger committed, however many calls there were, whatever they reported of
\* their usage and whether they were settled, charged in full or cancelled.
THEOREM RecordsHold == Spec => []RecordsTruthful
  <1>1. Init => TracesBilled
    BY CostFoldOfNone DEF Init, LedgerInit, TracesBilled
  <1>2. IInv /\ TracesBilled /\ [Next]_vars => TracesBilled'
    BY BilledStep
  <1>3. CallsTraced /\ RepairRecordTruthful /\ TracesBilled => RecordsTruthful
    BY DEF CallsTraced, TracesBilled, CostFold, RecordsTruthful, TracesExplainCost
  <1> QED
    BY <1>1, <1>2, <1>3, Invariance, AllCallsTraced, PTL DEF Spec

-----------------------------------------------------------------------------
(***************************************************************************)
(* What the parts of the nodes are for the invoker.                        *)
(***************************************************************************)
LEMMA AskIsInvocation ==
    ASSUME NEW p \in Purposes, Ask(p)
    PROVE  Next
  BY DEF Ask, Next

LEMMA ConsumptionIsNodes ==
    ASSUME NEW type \in ActionTypes, phase = "idle",
           consume_tool(type), UNCHANGED <<expired, invokerVars>>
    PROVE  Next
  BY DEF Next, NodeConsumes

LEMMA RoundIsNodes ==
    ASSUME phase = "idle", ConsumePendingLoop
    PROVE  [Next]_vars
  BY DEF ConsumePendingLoop, Next, NodeConsumes

LEMMA LookupIsNodes ==
    ASSUME phase = "idle", NEW place, Lookup(place)
    PROVE  Next
  <1>1. "other" \in ActionTypes
    BY DEF ActionTypes
  <1> QED
    BY <1>1, ConsumptionIsNodes DEF Lookup

LEMMA PurposesAsked ==
    {"behavior", "plan", "action", "repair", "synthesis"} \subseteq Purposes
  BY GraphAssumption DEF ModelPurposes

\* The nodes that ask the model.
LEMMA AskingNodes ==
    ASSUME \/ decide_behavior \/ build_plan \/ route_action \/ synthesize
    PROVE  [Next]_vars
  <1>1. CASE decide_behavior
    BY <1>1, PurposesAsked, AskIsInvocation DEF decide_behavior
  <1>2. CASE build_plan
    BY <1>2, PurposesAsked, AskIsInvocation DEF build_plan
  <1>3. CASE route_action
    BY <1>3, PurposesAsked, AskIsInvocation DEF route_action
  <1>4. CASE synthesize
    BY <1>4, PurposesAsked, AskIsInvocation DEF synthesize
  <1> QED
    BY <1>1, <1>2, <1>3, <1>4

\* The nodes that use tools.
LEMMA ToolNodes ==
    ASSUME \/ retrieve_context \/ invoke_tool \/ repair
    PROVE  [Next]_vars
  <1>1. CASE retrieve_context
    BY <1>1, LookupIsNodes DEF retrieve_context, In, LookupRefused
  <1>2. CASE invoke_tool
    <2>1. ActionType(st.next_action) \in ActionTypes
      BY DEF ActionType, ActionTypes
    <2> QED
      BY <1>2, <2>1, ConsumptionIsNodes, RoundIsNodes DEF invoke_tool, In
  <1>3. CASE repair
    <2>1. "execute_sql" \in ActionTypes
      BY DEF ActionTypes
    <2>2. ASSUME phase = "idle", consume_repair(FALSE), UNCHANGED <<expired, invokerVars>>
          PROVE  Next
      BY <2>2 DEF Next, NodeConsumes
    <2> QED
      BY <1>3, <2>1, <2>2, ConsumptionIsNodes, PurposesAsked, AskIsInvocation
      DEF repair, In, Obtained
  <1> QED
    BY <1>1, <1>2, <1>3

\* The nodes that judge.
LEMMA JudgingNodes ==
    ASSUME \/ intake \/ compile_contract \/ validate_profile \/ validate_observation
           \/ judge_evidence \/ replan \/ finalize
    PROVE  [Next]_vars
  <1>1. CASE intake \/ compile_contract \/ validate_profile \/ replan \/ finalize
    BY <1>1 DEF intake, compile_contract, validate_profile, replan, finalize
  <1>2. CASE validate_observation
    BY <1>2, RoundIsNodes DEF validate_observation, In, ValidationUnannounced
  <1>3. CASE judge_evidence
    BY <1>3, RoundIsNodes DEF judge_evidence, In
  <1> QED
    BY <1>1, <1>2, <1>3

LEMMA StepsOfInvoker ==
    ASSUME [GraphNext]_allVars
    PROVE  [Next]_vars
  <1>1. CASE Work
    BY <1>1, AskingNodes, ToolNodes, JudgingNodes
    DEF Work, InvocationFailed, Converse, Next
  <1>2. CASE CancelRun
    BY <1>2 DEF CancelRun
  <1>3. CASE GraphClock
    BY <1>3 DEF GraphClock, Next
  <1>4. CASE UNCHANGED allVars
    BY <1>4 DEF allVars
  <1> QED
    BY <1>1, <1>2, <1>3, <1>4 DEF GraphNext

\* The graph implements the specification of the invoker it uses: nodes reserve,
\* settle and consume only as agent/modeling.py and runtime/budgets.py let them.
THEOREM GraphImplementsInvoker == GraphSpec => ImplementsInvoker
  <1>1. GraphInit => Init
    BY DEF GraphInit
  <1>2. [GraphNext]_allVars => [Next]_vars
    BY StepsOfInvoker
  <1> QED
    BY <1>1, <1>2, PTL DEF GraphSpec, ImplementsInvoker, Spec

\* So no run of the agent exceeds its hard cap or another limit, the types of
\* the ledger hold, money is reserved exactly for the awaited call, and the
\* traces and the record of a repair tell what happened.
THEOREM RunWithinLimits ==
    GraphSpec => [](TypeOK /\ LedgerSound /\ ReservedForCall /\ RecordsTruthful)
  BY GraphImplementsInvoker, TypeCorrect, LedgerHolds, ReservationsEnd, RecordsHold, PTL
  DEF ImplementsInvoker

-----------------------------------------------------------------------------
(***************************************************************************)
(* The invariant of the graph.  LoopReserved is inductive once st has its  *)
(* type; the bound of the evidence in that type needs to know that a       *)
(* hypothesis is pending from route_action until its evidence is judged.   *)
(***************************************************************************)
EarlyNodes == {"intake", "decide_behavior", "retrieve_context", "build_plan"}

PendingNodes == {"invoke_tool", "validate_observation", "judge_evidence", "repair"}

EvidenceInPlan ==
    /\ st.evidence <= Hypotheses(st.plan)
    /\ node \in EarlyNodes => st.evidence = 0
    /\ node \in PendingNodes => Pending(st)
    /\ node = "route_action" /\ at = "asked" => Pending(st)

\* The nodes that execute, and what they leave for the nodes that validate.
ToolUsers == {"invoke_tool", "repair"}

Fits(s) ==
    s.observation \in SafeErrorReasons \union
                      (IF s.next_action = "profile" THEN {"profiled"} ELSE QueryResults)

ObservationFits ==
    /\ node \in {"validate_profile", "validate_observation"} => Fits(st)
    /\ node = "validate_profile" => st.next_action = "profile"
    /\ node \in {"validate_observation", "repair"} => st.next_action = "execute"

GInv == GraphTypeOK /\ LoopReserved /\ EvidenceInPlan /\ ObservationFits

RepairRecords == [kind : {"structured_output", "result_contract"},
                  outcome : Records \ {"none"}]

LEMMA HypothesesBound ==
    ASSUME NEW plan \in AnalysisTypes \union {"none"}
    PROVE  /\ Hypotheses(plan) \in 0 .. 4
           /\ plan \in AnalysisTypes => Hypotheses(plan) \in 1 .. 4
  BY DEF Hypotheses, AnalysisTypes

\* The deltas that several nodes make are states.
LEMMA RecordedIsState ==
    ASSUME TypeOK, asked \in Nat, NEW s \in AgentState
    PROVE  /\ Recorded(s) \in AgentState
           /\ Recorded(s).evidence = s.evidence
           /\ Recorded(s).plan = s.plan
           /\ Recorded(s).action_loop_pending = s.action_loop_pending
           /\ Recorded(s).next_action = s.next_action
  <1> DEFINE new == SubSeq(traces, asked + 1, Len(traces))
             calls == s.model_call_traces \o new
             repaired == [kind |-> "structured_output", outcome |-> record]
             history == IF record = "none" THEN s.repair_history
                        ELSE Append(s.repair_history, repaired)
  <1>1. /\ s.model_call_traces \in Seq(ModelCallTrace)
        /\ s.repair_history \in Seq(RepairRecords)
    BY DEF AgentState, RepairRecords
  <1>2. new \in Seq(ModelCallTrace)
    <2>1. traces \in Seq(ModelCallTrace) /\ Len(traces) \in Nat
      BY DEF TypeOK
    <2>2. \A i \in asked + 1 .. Len(traces) : traces[i] \in ModelCallTrace
      BY <2>1
    <2>3. asked + 1 \in Int /\ Len(traces) \in Int
      BY <2>1
    <2> HIDE DEF new
    <2>4. SubSeq(traces, asked + 1, Len(traces)) \in Seq(ModelCallTrace)
      BY ONLY <2>2, <2>3, SubSeqProperties
    <2> QED
      BY <2>4 DEF new
  <1>3. calls \in Seq(ModelCallTrace)
    <2> HIDE DEF new
    <2> QED
      BY ONLY <1>1, <1>2, ConcatProperties
  <1>4. history \in Seq(RepairRecords)
    <2>1. record # "none" => repaired \in RepairRecords
      BY DEF TypeOK, RepairRecords
    <2>2. CASE record = "none"
      BY <1>1, <2>2
    <2>3. CASE record # "none"
      <3>1. repaired \in RepairRecords
        BY <2>1, <2>3
      <3> HIDE DEF repaired
      <3>2. Append(s.repair_history, repaired) \in Seq(RepairRecords)
        BY ONLY <1>1, <3>1, AppendProperties
      <3> QED
        BY <2>3, <3>2
    <2> QED
      BY <2>2, <2>3
  <1>5. snapshot \in GovernanceSnapshot
    BY DEF TypeOK
  <1>6. Recorded(s) = [s EXCEPT !.model_call_traces = calls, !.repair_history = history,
                                !.governance = snapshot]
    BY DEF Recorded, AgentState
  <1> HIDE DEF calls, history
  <1> QED
    BY <1>3, <1>4, <1>5, <1>6 DEF AgentState, RepairRecords

LEMMA RepairedIsState ==
    ASSUME NEW s \in AgentState, NEW outcome \in {"failed", "success"}
    PROVE  /\ ResultRepair(s, outcome) \in AgentState
           /\ ResultRepair(s, outcome).evidence = s.evidence
           /\ ResultRepair(s, outcome).plan = s.plan
           /\ ResultRepair(s, outcome).next_action = s.next_action
           /\ ResultRepair(s, outcome).observation = s.observation
           /\ ResultRepair(s, outcome).action_loop_pending = s.action_loop_pending
  <1> DEFINE new == [kind |-> "result_contract", outcome |-> outcome]
             history == Append(s.repair_history, new)
  <1>1. s.repair_history \in Seq(RepairRecords)
    BY DEF AgentState, RepairRecords
  <1>2. new \in RepairRecords
    BY DEF RepairRecords, Records
  <1>3. history \in Seq(RepairRecords)
    <2> HIDE DEF new
    <2> QED
      BY ONLY <1>1, <1>2, AppendProperties
  <1>4. ResultRepair(s, outcome) = [s EXCEPT !.repair_history = history]
    BY DEF ResultRepair, AgentState
  <1> HIDE DEF history
  <1> QED
    BY <1>3, <1>4 DEF AgentState, RepairRecords

\* Replacing the fields of a state.
LEMMA FieldUpdates ==
    ASSUME NEW s \in AgentState
    PROVE  /\ \A x \in StopReasons \union {"none"} :
                [s EXCEPT !.stop = x] \in AgentState
           /\ \A x \in AnalysisTypes :
                [s EXCEPT !.plan = x] \in AgentState
           /\ \A x \in BOOLEAN :
                [s EXCEPT !.contract = x] \in AgentState
           /\ \A x \in 0 .. 4 :
                [s EXCEPT !.evidence = x] \in AgentState
           /\ \A x \in BOOLEAN :
                [s EXCEPT !.refuted = x] \in AgentState
           /\ \A x \in {"none", "execute", "profile"} :
                [s EXCEPT !.next_action = x] \in AgentState
           /\ \A x \in BOOLEAN :
                [s EXCEPT !.action_loop_pending = x] \in AgentState
           /\ \A x \in Nat :
                [s EXCEPT !.observations = x] \in AgentState
           /\ \A x \in {"profiled"} \union QueryResults \union SafeErrorReasons :
                [s EXCEPT !.observation = x] \in AgentState
           /\ \A x \in Nat :
                [s EXCEPT !.validated = x] \in AgentState
           /\ \A x \in {"valid", "repairable", "truncated", "unusable"} :
                [s EXCEPT !.verdict = x] \in AgentState
           /\ \A x \in GovernanceSnapshot :
                [s EXCEPT !.governance = x] \in AgentState
           /\ \A x \in Nat :
                [s EXCEPT !.tool_call_traces = x] \in AgentState
           /\ \A x \in Nat :
                [s EXCEPT !.node_traces = x] \in AgentState
  <1>1. \A x \in StopReasons \union {"none"} :
       [s EXCEPT !.stop = x] \in AgentState
    BY DEF AgentState
  <1>2. \A x \in AnalysisTypes :
       [s EXCEPT !.plan = x] \in AgentState
    BY DEF AgentState
  <1>3. \A x \in BOOLEAN :
       [s EXCEPT !.contract = x] \in AgentState
    BY DEF AgentState
  <1>4. \A x \in 0 .. 4 :
       [s EXCEPT !.evidence = x] \in AgentState
    BY DEF AgentState
  <1>5. \A x \in BOOLEAN :
       [s EXCEPT !.refuted = x] \in AgentState
    BY DEF AgentState
  <1>6. \A x \in {"none", "execute", "profile"} :
       [s EXCEPT !.next_action = x] \in AgentState
    BY DEF AgentState
  <1>7. \A x \in BOOLEAN :
       [s EXCEPT !.action_loop_pending = x] \in AgentState
    BY DEF AgentState
  <1>8. \A x \in Nat :
       [s EXCEPT !.observations = x] \in AgentState
    BY DEF AgentState
  <1>9. \A x \in {"profiled"} \union QueryResults \union SafeErrorReasons :
       [s EXCEPT !.observation = x] \in AgentState
    BY DEF AgentState
  <1>10. \A x \in Nat :
       [s EXCEPT !.validated = x] \in AgentState
    BY DEF AgentState
  <1>11. \A x \in {"valid", "repairable", "truncated", "unusable"} :
       [s EXCEPT !.verdict = x] \in AgentState
    BY DEF AgentState
  <1>12. \A x \in GovernanceSnapshot :
       [s EXCEPT !.governance = x] \in AgentState
    BY DEF AgentState
  <1>13. \A x \in Nat :
       [s EXCEPT !.tool_call_traces = x] \in AgentState
    BY DEF AgentState
  <1>14. \A x \in Nat :
       [s EXCEPT !.node_traces = x] \in AgentState
    BY DEF AgentState
  <1> QED
    BY <1>1, <1>2, <1>3, <1>4, <1>5, <1>6, <1>7,
       <1>8, <1>9, <1>10, <1>11, <1>12, <1>13, <1>14

\* s is as far as the invariant can tell the state that the node was given.
Alike(s) ==
    /\ s \in AgentState
    /\ s.evidence = st.evidence
    /\ s.plan = st.plan
    /\ node \in ToolUsers \union {"validate_observation"} => s.next_action = st.next_action

\* A node ends: what it must have seen to of its delta s.
LEMMA FinishKeeps ==
    ASSUME GInv, node \in Nodes, NEW s \in AgentState, Finish(s), toolTraces' \in Nat,
           s.action_loop_pending => LoopAvailable',
           \/ Alike(s)
           \/ /\ node = "build_plan"
              /\ s.evidence = 0
           \/ /\ node = "judge_evidence"
              /\ s.evidence = st.evidence + 1
              /\ s.plan = st.plan,
           node = "route_action" => at = "asked" \/ s.next_action = "none",
           node \in ToolUsers => s.stop # "none" \/ Fits(s)
    PROVE  GInv'
  <1> DEFINE t == [s EXCEPT !.node_traces = @ + 1]
  <1>1. /\ st' = t
        /\ node' = Successor(t)
        /\ at' = "start"
        /\ asked' = asked
    BY DEF Finish
  <1>2. s.node_traces + 1 \in Nat /\ s.evidence \in 0 .. 4
        /\ s.plan \in AnalysisTypes \union {"none"}
    BY DEF AgentState
  <1>3. t \in AgentState
    BY <1>2, FieldUpdates
  <1>4. /\ t.evidence = s.evidence
        /\ t.plan = s.plan
        /\ t.action_loop_pending = s.action_loop_pending
        /\ t.next_action = s.next_action
        /\ t.stop = s.stop
        /\ t.observation = s.observation
    BY DEF AgentState
  <1> HIDE DEF t
  <1>5. Successor(t) \in Nodes \union {"end"}
    BY DEF Successor, route_after_evidence, Nodes
  <1>6. GraphTypeOK'
    BY <1>1, <1>3, <1>5 DEF GInv, GraphTypeOK, Places
  <1>7. LoopReserved'
    BY <1>1, <1>4 DEF LoopReserved
  <1>8. EvidenceInPlan'
    <2>1. st.evidence \in Nat /\ Hypotheses(st.plan) \in Nat /\ Hypotheses(s.plan) \in Nat
      <3>1. st.evidence \in 0 .. 4 /\ st.plan \in AnalysisTypes \union {"none"}
        BY DEF GInv, GraphTypeOK, AgentState
      <3> QED
        BY <1>2, <3>1, HypothesesBound
    <2>2. s.evidence <= Hypotheses(s.plan)
      BY <1>2, <2>1 DEF GInv, EvidenceInPlan, Alike, PendingNodes, Pending
    <2>3. node' \in EarlyNodes => node \in EarlyNodes \ {"build_plan"}
      BY <1>1, <1>5 DEF Successor, route_after_evidence, Nodes, EarlyNodes
    <2>4. node' \in PendingNodes =>
            \/ node \in PendingNodes \ {"judge_evidence"}
            \/ node = "route_action" /\ t.next_action # "none"
      BY <1>1, <1>5 DEF Successor, route_after_evidence, Nodes, PendingNodes
    <2>5. node' \in EarlyNodes => s.evidence = 0
      BY <2>3 DEF GInv, EvidenceInPlan, Alike, EarlyNodes
    <2>6. node' \in PendingNodes => Pending(s)
      BY <1>4, <2>4 DEF GInv, EvidenceInPlan, Alike, PendingNodes, Pending
    <2> QED
      BY <1>1, <1>4, <2>2, <2>5, <2>6 DEF EvidenceInPlan, Pending
  <1>9. ObservationFits'
    <2>1. Fits(t) <=> Fits(s)
      BY <1>4 DEF Fits
    <2>2. node' \in {"validate_profile", "validate_observation"} =>
             node \in ToolUsers /\ t.stop = "none"
      BY <1>1, <1>5 DEF Successor, route_after_evidence, Nodes, ToolUsers
    <2>3. node' = "validate_profile" => t.next_action = "profile"
      BY <1>1, <1>5 DEF Successor, route_after_evidence, Nodes
    <2>4. node' \in {"validate_observation", "repair"} =>
             \/ t.next_action = "execute"
             \/ node \in {"validate_observation", "repair"}
      BY <1>1, <1>5 DEF Successor, route_after_evidence, Nodes
    <2>5. node \in {"validate_observation", "repair"} => s.next_action = "execute"
      BY DEF GInv, ObservationFits, Alike, ToolUsers
    <2> QED
      BY <1>1, <1>4, <2>1, <2>2, <2>3, <2>4, <2>5 DEF ObservationFits, Fits
  <1> QED
    BY <1>6, <1>7, <1>8, <1>9 DEF GInv

LEMMA GotoKeeps ==
    ASSUME GInv, NEW place \in Places, Goto(place), node # "route_action",
           toolTraces' \in Nat, LoopAvailable => LoopAvailable'
    PROVE  GInv'
  BY DEF GInv, GraphTypeOK, LoopReserved, EvidenceInPlan, ObservationFits, Goto, Pending,
         Fits

LEMMA AskKeeps ==
    ASSUME GInv, TypeOK, NEW p, Ask(p), LoopAvailable => LoopAvailable',
           node = "route_action" => Pending(st)
    PROVE  GInv'
  <1>1. Len(traces) \in Nat
    BY DEF TypeOK
  <1> QED
    BY <1>1 DEF GInv, GraphTypeOK, LoopReserved, EvidenceInPlan, ObservationFits,
              Ask, Pending, Places, Fits

\* Only consume_action_loop counts a round.
LEMMA RoundsStay ==
    ASSUME TypeOK,
           \/ \E type \in ActionTypes : consume_tool(type)
           \/ consume_repair(FALSE)
           \/ Progress
           \/ \E p \in Purposes : Ask(p)
           \/ UNCHANGED vars
    PROVE  LoopAvailable' <=> LoopAvailable
  <1>1. snapshot \in GovernanceSnapshot
    BY DEF TypeOK
  <1>2. ASSUME NEW type, consume_tool(type)
        PROVE  snapshot'.action_loops = snapshot.action_loops
    BY <1>1, <1>2 DEF consume_tool, GovernanceSnapshot
  <1>3. ASSUME NEW structured, consume_repair(structured)
        PROVE  snapshot'.action_loops = snapshot.action_loops
    BY <1>1, <1>3 DEF consume_repair, GovernanceSnapshot
  <1>4. ASSUME NEW r, NEW charge, Charged(r, charge)
        PROVE  snapshot'.action_loops = snapshot.action_loops
    BY <1>1, <1>4 DEF Charged, GovernanceSnapshot
  <1>5. ASSUME NEW cost, NEW next, Reserve(cost, next)
        PROVE  snapshot'.action_loops = snapshot.action_loops
    BY <1>1, <1>5 DEF Reserve, reserve_model_call, GovernanceSnapshot
  <1>6. ASSUME NEW actual, NEW priced, Account(actual, priced)
        PROVE  snapshot'.action_loops = snapshot.action_loops
    BY <1>4, <1>6 DEF Account, settle_model_call, fail_model_call
  <1>7. CASE Progress
    BY <1>3, <1>4, <1>5, <1>6, <1>7
    DEF Progress, Answered, FirstCallFailed, RepairCallFailed, ConsumeRepair, RepairCall,
        Cancel, fail_model_call, LoopAvailable
  <1>8. CASE \E p \in Purposes : Ask(p)
    BY <1>5, <1>8 DEF Ask, Invoke, InvokeRefused, ledgerVars, LoopAvailable
  <1> QED
    BY <1>2, <1>3, <1>7, <1>8 DEF LoopAvailable, vars, ledgerVars

\* The stop reasons the nodes give.
LEMMA StopsAreReasons ==
    ASSUME TypeOK
    PROVE  /\ result # "output" => AfterWarning(result) \subseteq StopReasons \union {"none"}
           /\ \A type : UnlessRefused(ToolLimit(type)) \subseteq StopReasons \union {"none"}
           /\ RepairRefusal \in StopReasons \union {"none"}
           /\ RouteRefusal \in StopReasons \union {"none"}
           /\ \A type : ActionRefusal(type) \in StopReasons \union {"none"}
           /\ ToolRefusal \in StopReasons \union {"none"}
           /\ SafeErrorReasons \subseteq StopReasons
           /\ BehaviorReasons \subseteq StopReasons
  <1> USE DEF StopReasons, BudgetStopReasons, SafeErrorReasons, BehaviorReasons
  <1>1. result # "output" => AfterWarning(result) \subseteq StopReasons \union {"none"}
    BY DEF TypeOK, Results, AfterWarning, UnlessRefused
  <1>2. \A type : ToolLimit(type) \in StopReasons \union {"none"}
    BY DEF ToolLimit
  <1>3. \A type : UnlessRefused(ToolLimit(type)) \subseteq StopReasons \union {"none"}
    BY <1>2 DEF UnlessRefused
  <1>4. RepairRefusal \in StopReasons \union {"none"}
    BY DEF RepairRefusal, RepairLimit
  <1>5. RouteRefusal \in StopReasons \union {"none"}
    BY DEF RouteRefusal
  <1>6. \A type : ActionRefusal(type) \in StopReasons \union {"none"}
    BY DEF ActionRefusal, LoopLimit
  <1>7. ToolRefusal \in StopReasons \union {"none"}
    BY <1>2 DEF ToolRefusal
  <1> QED
    BY <1>1, <1>3, <1>4, <1>5, <1>6, <1>7

\* Most nodes end with a delta that changes neither plan nor evidence and leaves
\* the pending round as it was, or ends it.
LEMMA QuietFinish ==
    ASSUME GInv, node \in Nodes, NEW s, Alike(s), Finish(s), toolTraces' \in Nat,
           s.action_loop_pending => st.action_loop_pending /\ (LoopAvailable => LoopAvailable'),
           node = "route_action" => at = "asked" \/ s.next_action = "none",
           node \in ToolUsers => s.stop # "none" \/ Fits(s)
    PROVE  GInv'
  BY FinishKeeps DEF GInv, LoopReserved, Alike

\* ... and most of these set nothing but the stop reason in some state like st.
LEMMA StopKeeps ==
    ASSUME GInv, TypeOK, node \in Nodes \ {"route_action"}, NEW s, Alike(s),
           NEW stop \in StopReasons \union {"none"}, Finish([s EXCEPT !.stop = stop]),
           toolTraces' \in Nat,
           s.action_loop_pending => st.action_loop_pending /\ (LoopAvailable => LoopAvailable'),
           node \in ToolUsers => stop # "none" \/ Fits(s)
    PROVE  GInv'
  <1> DEFINE t == [s EXCEPT !.stop = stop]
  <1>1. t \in AgentState
    BY FieldUpdates DEF Alike
  <1>2. /\ Alike(t)
        /\ t.action_loop_pending = s.action_loop_pending
        /\ t.stop = stop
        /\ Fits(t) <=> Fits(s)
    BY <1>1 DEF AgentState, Alike, Fits
  <1> HIDE DEF t
  <1>3. Finish(t)
    BY DEF t
  <1> QED
    BY <1>2, <1>3, QuietFinish

LEMMA RecordedAlike ==
    ASSUME GInv, TypeOK
    PROVE  /\ Alike(st)
           /\ Alike(Recorded(st))
           /\ Recorded(st).action_loop_pending = st.action_loop_pending
  BY RecordedIsState DEF GInv, GraphTypeOK, Alike

\* The ledger and the recorder while a node only decides.
LEMMA DecidingKeeps ==
    ASSUME GInv, TypeOK, UNCHANGED <<vars, toolTraces>>
    PROVE  toolTraces' \in Nat /\ (LoopAvailable' <=> LoopAvailable)
  BY RoundsStay DEF GInv, GraphTypeOK

LEMMA IntakeKeeps ==
    ASSUME GInv, TypeOK, intake
    PROVE  GInv'
  <1>1. PICK stop \in {"none", "missing_required_fields"} : Finish([st EXCEPT !.stop = stop])
    BY DEF intake
  <1>2. stop \in StopReasons \union {"none"} /\ node \in Nodes \ {"route_action"}
    BY DEF StopReasons, BehaviorReasons, intake, In, Nodes
  <1> QED
    BY <1>1, <1>2, StopKeeps, RecordedAlike, DecidingKeeps
    DEF intake, In, ToolUsers

LEMMA InvocationFailedKeeps ==
    ASSUME GInv, TypeOK, InvocationFailed
    PROVE  GInv'
  <1>1. PICK stop \in AfterWarning(result) :
           Finish([Recorded(st) EXCEPT !.stop = stop,
                                       !.next_action = "none",
                                       !.action_loop_pending = FALSE])
    BY DEF InvocationFailed
  <1>2. /\ stop \in StopReasons \union {"none"}
        /\ node \in Nodes \ (ToolUsers \union {"validate_observation"})
    BY <1>1, StopsAreReasons DEF InvocationFailed, Nodes, ToolUsers
  <1> DEFINE s == [Recorded(st) EXCEPT !.stop = stop,
                                       !.next_action = "none",
                                       !.action_loop_pending = FALSE]
  <1>3. s \in AgentState
    <2>1. [Recorded(st) EXCEPT !.stop = stop] \in AgentState
      BY <1>2, RecordedAlike, FieldUpdates DEF Alike
    <2> QED
      BY <2>1, FieldUpdates
  <1>4. Alike(s) /\ s.action_loop_pending = FALSE /\ s.next_action = "none"
    BY <1>2, <1>3, RecordedAlike DEF AgentState, Alike
  <1> HIDE DEF s
  <1>5. Finish(s)
    BY <1>1 DEF s
  <1> QED
    BY <1>2, <1>4, <1>5, QuietFinish, DecidingKeeps DEF InvocationFailed

LEMMA DecideBehaviorKeeps ==
    ASSUME GInv, TypeOK, decide_behavior
    PROVE  GInv'
  <1>1. node = "decide_behavior" /\ node \in Nodes \ {"route_action"}
    BY DEF decide_behavior, Obtained, In, Nodes
  <1>2. CASE Ask("behavior")
    BY <1>1, <1>2, AskKeeps, PurposesAsked, RoundsStay
  <1>3. CASE ~Ask("behavior")
    <2>1. PICK stop : /\ stop \in StopReasons \union {"none"}
                      /\ Finish([Recorded(st) EXCEPT !.stop = stop])
      BY <1>3 DEF decide_behavior, StopReasons, BudgetStopReasons, BehaviorReasons,
                  SafeErrorReasons
    <2> QED
      BY <1>1, <1>3, <2>1, StopKeeps, RecordedAlike, DecidingKeeps DEF decide_behavior, ToolUsers
  <1> QED
    BY <1>2, <1>3

LEMMA ContextEndsKeeps ==
    ASSUME GInv, TypeOK, node = "retrieve_context", NEW n \in 0 .. 2, NEW stop,
           stop \in StopReasons \union {"none"}, ContextEnds(n, stop),
           toolTraces' \in Nat, LoopAvailable' <=> LoopAvailable
    PROVE  GInv'
  <1>1. /\ st \in AgentState
        /\ snapshot \in GovernanceSnapshot
        /\ st.observations + n \in Nat
        /\ st.tool_call_traces + n \in Nat
        /\ node \in Nodes \ {"route_action"}
    BY DEF GInv, GraphTypeOK, TypeOK, AgentState, Nodes
  <1> DEFINE s1 == [st EXCEPT !.observations = @ + n]
             s2 == [s1 EXCEPT !.tool_call_traces = @ + n]
             s3 == [s2 EXCEPT !.governance = snapshot]
  <1>2. s1 \in AgentState /\ s1.tool_call_traces = st.tool_call_traces
    <2>1. s1 \in AgentState
      BY <1>1, FieldUpdates
    <2> QED
      BY <1>1, <2>1 DEF AgentState
  <1>3. s2 \in AgentState
    BY <1>1, <1>2, FieldUpdates
  <1>4. s3 \in AgentState
    BY <1>1, <1>3, FieldUpdates
  <1>5. Alike(s3) /\ s3.action_loop_pending = st.action_loop_pending
    BY <1>1, <1>4 DEF AgentState, Alike
  <1>6. Finish([s3 EXCEPT !.stop = stop])
    BY DEF ContextEnds
  <1> HIDE DEF s3
  <1> QED
    BY <1>1, <1>5, <1>6, StopKeeps DEF ToolUsers

LEMMA RetrieveContextKeeps ==
    ASSUME GInv, TypeOK, retrieve_context
    PROVE  GInv'
  <1>1. /\ node = "retrieve_context"
        /\ toolTraces' \in Nat
    BY DEF retrieve_context, In, GInv, GraphTypeOK
  <1>2. ASSUME NEW place \in {"tool", "schema"}, Lookup(place)
        PROVE  GInv'
    <2>1. LoopAvailable' <=> LoopAvailable
      BY <1>2, RoundsStay DEF Lookup, ActionTypes
    <2> QED
      BY <1>1, <1>2, <2>1, GotoKeeps DEF Lookup, Places
  <1>3. ASSUME NEW n \in 0 .. 2, LookupRefused(n)
        PROVE  GInv'
    <2>1. LoopAvailable' <=> LoopAvailable
      BY <1>3, RoundsStay DEF LookupRefused
    <2> QED
      BY <1>1, <1>3, <2>1, ContextEndsKeeps, StopsAreReasons DEF LookupRefused
  <1>4. ASSUME NEW n \in 0 .. 2, NEW stop \in SafeErrorReasons \union {"none", "internal_error"},
               ContextEnds(n, stop), UNCHANGED vars
        PROVE  GInv'
    <2>1. stop \in StopReasons \union {"none"}
      BY <1>4 DEF StopReasons, SafeErrorReasons
    <2> QED
      BY <1>1, <1>4, <2>1, ContextEndsKeeps, RoundsStay
  <1>5. ToolErrors \subseteq SafeErrorReasons
    BY GraphAssumption
  <1> QED
    BY <1>2, <1>3, <1>4, <1>5 DEF retrieve_context

LEMMA BuildPlanKeeps ==
    ASSUME GInv, TypeOK, build_plan
    PROVE  GInv'
  <1>1. node = "build_plan" /\ node \in Nodes \ {"route_action"}
    BY DEF build_plan, Obtained, In, Nodes
  <1>2. CASE Ask("plan")
    BY <1>1, <1>2, AskKeeps, PurposesAsked, RoundsStay
  <1>3. CASE UNCHANGED <<vars, toolTraces>>
             /\ \E stop \in {"plan_invalid", "internal_error"} :
                   Finish([Recorded(st) EXCEPT !.stop = stop])
    <2>1. {"plan_invalid", "internal_error"} \subseteq StopReasons
      BY DEF StopReasons, SafeErrorReasons
    <2> QED
      BY <1>1, <1>3, <2>1, StopKeeps, RecordedAlike, DecidingKeeps
  <1>4. CASE UNCHANGED <<vars, toolTraces>>
             /\ \E plan \in Plans :
                   Finish([Recorded(st) EXCEPT
                             !.plan = plan,
                             !.stop = IF snapshot.soft_cap_reached
                                      THEN "cost_soft_cap" ELSE "none"])
    <2> DEFINE stop == IF snapshot.soft_cap_reached THEN "cost_soft_cap" ELSE "none"
    <2>1. PICK plan \in Plans : Finish([Recorded(st) EXCEPT !.plan = plan, !.stop = stop])
      BY <1>4
    <2>2. plan \in AnalysisTypes /\ stop \in StopReasons \union {"none"}
      BY GraphAssumption DEF StopReasons, BudgetStopReasons
    <2> DEFINE r == [Recorded(st) EXCEPT !.plan = plan]
               s == [r EXCEPT !.stop = stop]
    <2>3. r \in AgentState
      BY <2>2, RecordedAlike, FieldUpdates DEF Alike
    <2>4. s \in AgentState
      BY <2>2, <2>3, FieldUpdates
    <2>5. /\ s.evidence = 0
          /\ s.action_loop_pending = st.action_loop_pending
      BY <1>1, <2>4, RecordedAlike
      DEF AgentState, Alike, GInv, EvidenceInPlan, EarlyNodes
    <2>6. Finish(s)
      BY <2>1
    <2> HIDE DEF s
    <2> QED
      BY <1>1, <1>4, <2>4, <2>5, <2>6, FinishKeeps, DecidingKeeps DEF GInv, LoopReserved,
         ToolUsers
  <1> QED
    BY <1>2, <1>3, <1>4 DEF build_plan

LEMMA CompileContractKeeps ==
    ASSUME GInv, TypeOK, compile_contract
    PROVE  GInv'
  <1>1. /\ node = "compile_contract" /\ node \in Nodes \ {"route_action"}
        /\ st \in AgentState /\ snapshot \in GovernanceSnapshot
        /\ {"none", "plan_invalid"} \subseteq StopReasons \union {"none"}
    BY DEF compile_contract, In, Nodes, GInv, GraphTypeOK, TypeOK, StopReasons,
           SafeErrorReasons
  <1>2. CASE Finish([st EXCEPT !.contract = TRUE, !.stop = "none"])
    <2> DEFINE s == [st EXCEPT !.contract = TRUE]
    <2>1. s \in AgentState
      BY <1>1, FieldUpdates
    <2>2. Alike(s) /\ s.action_loop_pending = st.action_loop_pending
      BY <1>1, <2>1 DEF AgentState, Alike
    <2>3. Finish([s EXCEPT !.stop = "none"])
      BY <1>2
    <2> HIDE DEF s
    <2> QED
      BY <1>1, <2>2, <2>3, StopKeeps, DecidingKeeps DEF compile_contract, ToolUsers
  <1>3. CASE Finish([st EXCEPT !.stop = "plan_invalid", !.governance = snapshot])
    <2> DEFINE r == [st EXCEPT !.stop = "plan_invalid"]
               s == [r EXCEPT !.governance = snapshot]
    <2>1. r \in AgentState
      BY <1>1, FieldUpdates
    <2>2. s \in AgentState
      BY <1>1, <2>1, FieldUpdates
    <2>3. Alike(s) /\ s.action_loop_pending = st.action_loop_pending
      BY <1>1, <2>2 DEF AgentState, Alike
    <2>4. Finish(s)
      BY <1>3
    <2> HIDE DEF s
    <2> QED
      BY <1>1, <2>3, <2>4, QuietFinish, DecidingKeeps DEF compile_contract, ToolUsers
  <1> QED
    BY <1>2, <1>3 DEF compile_contract

LEMMA RouteActionKeeps ==
    ASSUME GInv, TypeOK, route_action
    PROVE  GInv'
  <1>1. /\ node = "route_action" /\ node \in Nodes
        /\ st \in AgentState /\ snapshot \in GovernanceSnapshot
    BY DEF route_action, Obtained, In, Nodes, GInv, GraphTypeOK, TypeOK
  <1> DEFINE Chosen(s, action, pending, stop) ==
                 [s EXCEPT !.next_action = action, !.action_loop_pending = pending,
                           !.stop = stop]
  <1>2. ASSUME NEW s, Alike(s), NEW action \in {"none", "execute", "profile"},
               NEW pending \in BOOLEAN, NEW stop \in StopReasons \union {"none"}
        PROVE  /\ Alike(Chosen(s, action, pending, stop))
               /\ Chosen(s, action, pending, stop).action_loop_pending = pending
               /\ Chosen(s, action, pending, stop).next_action = action
    <2> DEFINE s1 == [s EXCEPT !.next_action = action]
               s2 == [s1 EXCEPT !.action_loop_pending = pending]
    <2>1. s1 \in AgentState
      BY <1>2, FieldUpdates DEF Alike
    <2>2. s2 \in AgentState
      BY <2>1, FieldUpdates
    <2>3. Chosen(s, action, pending, stop) \in AgentState
      BY <2>2, FieldUpdates
    <2> QED
      BY <1>1, <1>2, <2>3 DEF AgentState, Alike, ToolUsers
  <1> HIDE DEF Chosen
  <1>3. CASE RouteRefusal = "none" /\ Ask("action")
    <2>1. Pending(st)
      BY <1>3 DEF RouteRefusal
    <2> QED
      BY <1>3, <2>1, AskKeeps, PurposesAsked, RoundsStay
  <1>4. CASE UNCHANGED <<vars, toolTraces>>
             /\ \E stop \in AfterWarning(RouteRefusal) :
                   Finish([st EXCEPT !.next_action = "none", !.stop = stop,
                                     !.governance = snapshot])
    <2>1. PICK stop \in AfterWarning(RouteRefusal) :
             Finish([st EXCEPT !.next_action = "none", !.stop = stop,
                               !.governance = snapshot])
      BY <1>4
    <2>2. stop \in StopReasons \union {"none"}
      BY <2>1, StopsAreReasons DEF AfterWarning, UnlessRefused, StopReasons
    <2> DEFINE s1 == [st EXCEPT !.next_action = "none"]
               s2 == [s1 EXCEPT !.stop = stop]
               s3 == [s2 EXCEPT !.governance = snapshot]
    <2>3. s1 \in AgentState
      BY <1>1, FieldUpdates
    <2>4. s2 \in AgentState
      BY <2>2, <2>3, FieldUpdates
    <2>5. s3 \in AgentState
      BY <1>1, <2>4, FieldUpdates
    <2>6. /\ Alike(s3)
          /\ s3.action_loop_pending = st.action_loop_pending
          /\ s3.next_action = "none"
      BY <1>1, <2>5 DEF AgentState, Alike, ToolUsers
    <2>7. Finish(s3)
      BY <2>1
    <2> HIDE DEF s3
    <2> QED
      BY <1>1, <1>4, <2>6, <2>7, QuietFinish, DecidingKeeps DEF ToolUsers
  <1>5. CASE /\ Obtained("route_action")
             /\ UNCHANGED <<vars, toolTraces>>
             /\ \E type \in {"execute", "profile"} :
                   IF ActionRefusal(type) = "none"
                   THEN Finish([Recorded(st) EXCEPT !.next_action = type,
                                                    !.action_loop_pending = type = "execute",
                                                    !.stop = "none"])
                   ELSE \E stop \in AfterWarning(ActionRefusal(type)) :
                           Finish([Recorded(st) EXCEPT !.next_action = "none",
                                                       !.action_loop_pending = FALSE,
                                                       !.stop = stop])
    <2>1. PICK type \in {"execute", "profile"} :
             \/ /\ ActionRefusal(type) = "none"
                /\ Finish(Chosen(Recorded(st), type, type = "execute", "none"))
             \/ \E stop \in AfterWarning(ActionRefusal(type)) :
                   Finish(Chosen(Recorded(st), "none", FALSE, stop))
      BY <1>5 DEF Chosen
    <2>2. at = "asked" /\ toolTraces' \in Nat /\ (LoopAvailable' <=> LoopAvailable)
      BY <1>5, DecidingKeeps DEF Obtained, In
    <2>3. Alike(Recorded(st))
      BY RecordedAlike
    <2>4. CASE /\ ActionRefusal(type) = "none"
               /\ Finish(Chosen(Recorded(st), type, type = "execute", "none"))
      <3>1. type = "execute" => LoopAvailable
        BY <2>4 DEF ActionRefusal, LoopLimit
      <3> DEFINE pending == type = "execute"
                 s == Chosen(Recorded(st), type, pending, "none")
      <3>2. pending \in BOOLEAN /\ (pending => LoopAvailable)
        BY <3>1
      <3>3. Finish(s)
        BY <2>4
      <3> HIDE DEF pending
      <3>4. Alike(s) /\ s.action_loop_pending = pending
        BY <1>2, <2>3, <3>2
      <3> HIDE DEF s
      <3> QED
        BY <1>1, <2>2, <3>2, <3>3, <3>4, FinishKeeps DEF Alike, ToolUsers
    <2>5. ASSUME NEW stop \in AfterWarning(ActionRefusal(type)),
                 Finish(Chosen(Recorded(st), "none", FALSE, stop))
          PROVE  GInv'
      <3>1. stop \in StopReasons \union {"none"}
        BY StopsAreReasons DEF AfterWarning, UnlessRefused, StopReasons
      <3> DEFINE s == Chosen(Recorded(st), "none", FALSE, stop)
      <3> DEFINE none == "none"
                 no == FALSE
      <3>2. none \in {"none", "execute", "profile"} /\ no \in BOOLEAN
        OBVIOUS
      <3> HIDE DEF none, no
      <3>4. Alike(Chosen(Recorded(st), none, no, stop))
            /\ Chosen(Recorded(st), none, no, stop).action_loop_pending = no
        BY <1>2, <2>3, <3>1, <3>2
      <3>5. Alike(s) /\ s.action_loop_pending = FALSE
        BY <3>4 DEF none, no
      <3> HIDE DEF s
      <3>3. Finish(s)
        BY <2>5 DEF s
      <3> QED
        BY <1>1, <2>2, <3>5, <3>3, QuietFinish DEF ToolUsers
    <2> QED
      BY <2>1, <2>4, <2>5
  <1>6. CASE /\ Obtained("route_action")
             /\ UNCHANGED <<vars, toolTraces>>
             /\ Finish([Recorded(st) EXCEPT !.next_action = "none", !.stop = "plan_invalid"])
    <2> DEFINE r == [Recorded(st) EXCEPT !.next_action = "none"]
               s == [r EXCEPT !.stop = "plan_invalid"]
    <2>1. r \in AgentState
      BY RecordedAlike, FieldUpdates DEF Alike
    <2>2. s \in AgentState
      BY <2>1, FieldUpdates DEF StopReasons, SafeErrorReasons
    <2>3. Alike(s) /\ s.action_loop_pending = st.action_loop_pending
                   /\ s.next_action = "none"
      BY <1>1, <2>2, RecordedAlike DEF AgentState, Alike, ToolUsers
    <2>4. Finish(s)
      BY <1>6
    <2> HIDE DEF s
    <2> QED
      BY <1>1, <1>6, <2>3, <2>4, QuietFinish, DecidingKeeps DEF ToolUsers
  <1> QED
    BY <1>3, <1>4, <1>5, <1>6 DEF route_action

LEMMA UnloopedIsState ==
    ASSUME TypeOK', NEW s \in AgentState
    PROVE  /\ Unlooped(s) \in AgentState
           /\ Unlooped(s).evidence = s.evidence
           /\ Unlooped(s).plan = s.plan
           /\ Unlooped(s).next_action = s.next_action
           /\ Unlooped(s).observation = s.observation
           /\ Unlooped(s).action_loop_pending = FALSE
  <1> DEFINE r == [s EXCEPT !.action_loop_pending = FALSE]
             t == [r EXCEPT !.governance = snapshot']
  <1>1. snapshot' \in GovernanceSnapshot
    BY DEF TypeOK
  <1>2. r \in AgentState
    BY FieldUpdates
  <1>3. t \in AgentState
    BY <1>1, <1>2, FieldUpdates
  <1>4. Unlooped(s) = t
    BY DEF Unlooped
  <1>5. /\ t.evidence = s.evidence /\ t.plan = s.plan
        /\ t.next_action = s.next_action /\ t.observation = s.observation
        /\ t.action_loop_pending = FALSE
    BY <1>3 DEF AgentState
  <1> HIDE DEF t
  <1> QED
    BY <1>3, <1>4, <1>5

LEMMA ObservedIsState ==
    ASSUME TypeOK, NEW s \in AgentState,
           NEW r \in {"profiled"} \union QueryResults \union SafeErrorReasons
    PROVE  /\ Observed(s, r) \in AgentState
           /\ Observed(s, r).evidence = s.evidence
           /\ Observed(s, r).plan = s.plan
           /\ Observed(s, r).next_action = s.next_action
           /\ Observed(s, r).observation = r
           /\ Observed(s, r).action_loop_pending = s.action_loop_pending
  <1> DEFINE s1 == [s EXCEPT !.observations = @ + 1]
             s2 == [s1 EXCEPT !.observation = r]
             s3 == [s2 EXCEPT !.tool_call_traces = @ + 1]
             s4 == [s3 EXCEPT !.governance = snapshot]
  <1>1. /\ s.observations + 1 \in Nat
        /\ snapshot \in GovernanceSnapshot
    BY DEF AgentState, TypeOK
  <1>2. s1 \in AgentState
    BY <1>1, FieldUpdates
  <1>3. s2 \in AgentState
    BY <1>2, FieldUpdates
  <1>4. s2.tool_call_traces + 1 \in Nat
    BY <1>3 DEF AgentState
  <1>5. s3 \in AgentState
    BY <1>3, <1>4, FieldUpdates
  <1>6. s4 \in AgentState
    BY <1>1, <1>5, FieldUpdates
  <1>7. Observed(s, r) = s4
    BY DEF Observed
  <1>8. /\ s4.evidence = s.evidence
        /\ s4.plan = s.plan
        /\ s4.next_action = s.next_action
        /\ s4.observation = r
        /\ s4.action_loop_pending = s.action_loop_pending
    BY <1>6 DEF AgentState
  <1> HIDE DEF s4
  <1> QED
    BY <1>6, <1>7, <1>8

\* A node ends that counts the pending round.
LEMMA CountedFinish ==
    ASSUME GInv, TypeOK, TypeOK', node \in Nodes \ {"route_action"}, NEW s, Alike(s),
           NEW stop \in StopReasons \union {"none"},
           Finish([Unlooped(s) EXCEPT !.stop = stop]), toolTraces' \in Nat,
           node \in ToolUsers => stop # "none"
    PROVE  GInv'
  <1>1. Alike(Unlooped(s)) /\ Unlooped(s).action_loop_pending = FALSE
    BY UnloopedIsState DEF Alike
  <1> DEFINE t == [Unlooped(s) EXCEPT !.stop = stop]
  <1>2. t \in AgentState
    BY <1>1, FieldUpdates DEF Alike
  <1>3. Alike(t) /\ t.action_loop_pending = FALSE /\ t.stop = stop
    BY <1>1, <1>2 DEF AgentState, Alike
  <1>4. Finish(t)
    OBVIOUS
  <1> HIDE DEF t
  <1> QED
    BY <1>3, <1>4, QuietFinish

LEMMA ToolResultTypes ==
    /\ ToolResults \subseteq {"profiled"} \union QueryResults \union SafeErrorReasons
    /\ {"none", "internal_error"} \subseteq StopReasons \union {"none"}
  BY GraphAssumption DEF ToolResults, SafeErrorReasons, StopReasons

LEMMA InvokeToolKeeps ==
    ASSUME GInv, TypeOK, TypeOK', invoke_tool
    PROVE  GInv'
  <1>1. /\ node = "invoke_tool" /\ node \in Nodes \ {"route_action"}
        /\ st \in AgentState /\ snapshot \in GovernanceSnapshot
        /\ toolTraces \in Nat
    BY DEF invoke_tool, In, Nodes, GInv, GraphTypeOK, TypeOK
  <1>2. Alike(st) /\ toolTraces' \in Nat
    <2>1. toolTraces' = toolTraces \/ toolTraces' = toolTraces + 1
      BY DEF invoke_tool
    <2> QED
      BY <1>1, <2>1, RecordedAlike
  <1>3. CASE consume_tool(ActionType(st.next_action)) /\ Goto("tool")
    <2>1. LoopAvailable' <=> LoopAvailable
      BY <1>3, RoundsStay DEF ActionType, ActionTypes
    <2> QED
      BY <1>1, <1>2, <1>3, <2>1, GotoKeeps DEF Places
  <1>4. CASE /\ UNCHANGED <<vars, toolTraces>>
             /\ ToolRefusal # "none"
             /\ \E stop \in AfterWarning(ToolRefusal) :
                   Finish([st EXCEPT !.stop = stop, !.action_loop_pending = FALSE,
                                     !.governance = snapshot])
    <2>1. PICK stop \in AfterWarning(ToolRefusal) :
             Finish([st EXCEPT !.stop = stop, !.action_loop_pending = FALSE,
                               !.governance = snapshot])
      BY <1>4
    <2>2. stop \in StopReasons \union {"none"} /\ stop # "none"
      BY <1>4, StopsAreReasons, ToolResultTypes DEF AfterWarning, UnlessRefused
    <2> DEFINE s1 == [st EXCEPT !.stop = stop]
               s2 == [s1 EXCEPT !.action_loop_pending = FALSE]
               s3 == [s2 EXCEPT !.governance = snapshot]
    <2>3. s1 \in AgentState
      BY <1>1, <2>2, FieldUpdates
    <2>4. s2 \in AgentState
      BY <2>3, FieldUpdates
    <2>5. s3 \in AgentState
      BY <1>1, <2>4, FieldUpdates
    <2>6. Alike(s3) /\ s3.action_loop_pending = FALSE /\ s3.stop = stop
      BY <1>1, <2>5 DEF AgentState, Alike
    <2>7. Finish(s3)
      BY <2>1
    <2> HIDE DEF s3
    <2> QED
      BY <1>1, <1>2, <2>2, <2>6, <2>7, QuietFinish
  <1>5. CASE Finish([Unlooped(st) EXCEPT !.stop = "internal_error"])
    BY <1>1, <1>2, <1>5, CountedFinish, ToolResultTypes
  <1>6. CASE /\ UNCHANGED vars
             /\ \E r \in ToolResults : Finish([Observed(st, r) EXCEPT !.stop = "none"])
    <2>1. PICK r \in ToolResults : Finish([Observed(st, r) EXCEPT !.stop = "none"])
      BY <1>6
    <2>2. /\ Alike(Observed(st, r))
          /\ Observed(st, r).action_loop_pending = st.action_loop_pending
      BY <1>1, <1>2, ToolResultTypes, ObservedIsState DEF Alike
    <2>3. Fits(Observed(st, r))
      <3>1. r \in SafeErrorReasons \union
                    (IF st.next_action = "profile" THEN {"profiled"} ELSE QueryResults)
        BY <2>1, GraphAssumption DEF ToolResults, SafeErrorReasons
      <3> QED
        BY <1>1, <3>1, ToolResultTypes, ObservedIsState DEF Fits
    <2> QED
      BY <1>1, <1>2, <1>6, <2>1, <2>2, <2>3, StopKeeps, RoundsStay, ToolResultTypes
  <1>7. CASE \E r \in ToolResults :
                Finish([Unlooped(Observed(st, r)) EXCEPT !.stop = "internal_error"])
    <2>1. PICK r \in ToolResults :
             Finish([Unlooped(Observed(st, r)) EXCEPT !.stop = "internal_error"])
      BY <1>7
    <2>2. Alike(Observed(st, r))
      BY <1>1, <1>2, ToolResultTypes, ObservedIsState DEF Alike
    <2> QED
      BY <1>1, <1>2, <2>1, <2>2, CountedFinish, ToolResultTypes
  <1> QED
    BY <1>3, <1>4, <1>5, <1>6, <1>7 DEF invoke_tool

LEMMA ValidateProfileKeeps ==
    ASSUME GInv, TypeOK, validate_profile
    PROVE  GInv'
  <1> DEFINE stop == IF st.observation = "profiled" THEN "none" ELSE st.observation
             s == [st EXCEPT !.next_action = "none"]
  <1>1. /\ node = "validate_profile" /\ node \in Nodes \ {"route_action"}
        /\ Finish([s EXCEPT !.stop = stop])
        /\ st \in AgentState
    BY DEF validate_profile, In, Nodes, GInv, GraphTypeOK
  <1>2. Alike(s) /\ s.action_loop_pending = st.action_loop_pending
    <2>1. s \in AgentState
      BY <1>1, FieldUpdates
    <2> QED
      BY <1>1, <2>1 DEF AgentState, Alike, ToolUsers
  <1>3. stop \in StopReasons \union {"none"}
    <2>1. st.observation \in SafeErrorReasons \union {"profiled"}
      BY <1>1 DEF GInv, ObservationFits, Fits
    <2> QED
      BY <2>1, StopsAreReasons
  <1> HIDE DEF s, stop
  <1> QED
    BY <1>1, <1>2, <1>3, StopKeeps, DecidingKeeps DEF validate_profile, ToolUsers

LEMMA ValidatedIsState ==
    ASSUME GInv, st.observation \in QueryResults
    PROVE  /\ Alike(Validated(st))
           /\ Validated(st).action_loop_pending = st.action_loop_pending
  <1> DEFINE r == [st EXCEPT !.validated = st.observations]
             t == [r EXCEPT !.verdict = Verdict]
  <1>1. st \in AgentState /\ st.observations \in Nat
    BY DEF GInv, GraphTypeOK, AgentState
  <1>2. Verdict \in {"valid", "repairable", "truncated", "unusable"}
    BY DEF Verdict, QueryResults
  <1>3. r \in AgentState
    BY <1>1, FieldUpdates
  <1>4. t \in AgentState
    BY <1>2, <1>3, FieldUpdates
  <1>5. Validated(st) = t
    BY DEF Validated
  <1>6. Alike(t) /\ t.action_loop_pending = st.action_loop_pending
    BY <1>1, <1>4 DEF AgentState, Alike
  <1> HIDE DEF t
  <1> QED
    BY <1>5, <1>6

LEMMA ValidateObservationKeeps ==
    ASSUME GInv, TypeOK, TypeOK', validate_observation
    PROVE  GInv'
  <1>1. /\ node = "validate_observation" /\ node \in Nodes \ {"route_action"}
        /\ node \notin ToolUsers
        /\ toolTraces' \in Nat
        /\ Alike(st)
    BY RecordedAlike
    DEF validate_observation, In, Nodes, ToolUsers, GInv, GraphTypeOK
  <1>2. st.observation \in QueryResults \union SafeErrorReasons
    BY <1>1 DEF GInv, ObservationFits, Fits
  <1>3. CASE ValidationUnannounced
    BY <1>1, <1>3, CountedFinish, ToolResultTypes DEF ValidationUnannounced
  <1>4. CASE /\ st.observation \notin QueryResults
             /\ Finish([Unlooped(st) EXCEPT !.stop = st.observation])
    <2>1. st.observation \in StopReasons
      BY <1>2, <1>4, StopsAreReasons
    <2> QED
      BY <1>1, <1>4, <2>1, CountedFinish
  <1>5. CASE /\ st.observation \in QueryResults
             /\ Finish([Validated(st) EXCEPT !.stop = "none"])
             /\ UNCHANGED vars
    BY <1>1, <1>5, ValidatedIsState, StopKeeps, RoundsStay
  <1>6. CASE /\ st.observation \in QueryResults
             /\ \E stop \in {"cost_soft_cap", "internal_error", "none",
                             RepairDenied(Unlooped(Validated(st)))} :
                   Finish([Unlooped(Validated(st)) EXCEPT !.stop = stop])
    <2>1. {"cost_soft_cap", "internal_error", "none", RepairDenied(Unlooped(Validated(st)))}
             \subseteq StopReasons \union {"none"}
      BY DEF RepairDenied, StopReasons, BudgetStopReasons, SafeErrorReasons
    <2>2. Alike(Validated(st))
      BY <1>6, ValidatedIsState
    <2> QED
      BY <1>1, <1>6, <2>1, <2>2, CountedFinish
  <1>7. CASE /\ st.observation \in QueryResults
             /\ UNCHANGED vars
             /\ \/ Finish([ResultRepair(Validated(st), "success") EXCEPT !.stop = "none"])
                \/ Finish([ResultRepair(Validated(st), "failed") EXCEPT
                             !.stop = "repair_failed"])
    <2>1. /\ Alike(Validated(st))
          /\ Validated(st).action_loop_pending = st.action_loop_pending
      BY <1>7, ValidatedIsState
    <2>2. ASSUME NEW outcome \in {"failed", "success"}
          PROVE  /\ Alike(ResultRepair(Validated(st), outcome))
                 /\ ResultRepair(Validated(st), outcome).action_loop_pending
                      = st.action_loop_pending
      BY <2>1, RepairedIsState DEF Alike
    <2>3. "repair_failed" \in StopReasons
      BY DEF StopReasons
    <2> QED
      BY <1>1, <1>7, <2>2, <2>3, StopKeeps, RoundsStay
  <1>8. UnlessRefused("cost_soft_cap") = {"cost_soft_cap", "internal_error"}
    BY DEF UnlessRefused
  <1> QED
    BY <1>3, <1>4, <1>5, <1>6, <1>7, <1>8 DEF validate_observation

LEMMA JudgeEvidenceKeeps ==
    ASSUME GInv, TypeOK, TypeOK', judge_evidence
    PROVE  GInv'
  <1>1. /\ node = "judge_evidence" /\ node \in Nodes \ {"route_action"}
        /\ node \notin ToolUsers \union {"validate_observation"}
        /\ toolTraces' \in Nat
        /\ Alike(st) /\ st \in AgentState
    BY RecordedAlike DEF judge_evidence, In, Nodes, ToolUsers, GInv, GraphTypeOK
  <1>2. ASSUME NEW stop \in {"internal_error", "answer_contract_unmet"},
               Finish([Unlooped(st) EXCEPT !.stop = stop])
        PROVE  GInv'
    <2>1. stop \in StopReasons
      BY <1>2 DEF StopReasons, SafeErrorReasons
    <2> QED
      BY <1>1, <1>2, <2>1, CountedFinish
  <1> DEFINE refuted == st.refuted \/ st.observation = "refuting"
             Judged(s) == [s EXCEPT !.evidence = @ + 1,
                                    !.refuted = @ \/ st.observation = "refuting",
                                    !.next_action = "none"]
  <1>3. ASSUME NEW stop \in StopReasons \union {"none"},
               Finish([Judged(Unlooped(st)) EXCEPT !.stop = stop])
        PROVE  GInv'
    <2> DEFINE s == Unlooped(st)
               s1 == [s EXCEPT !.evidence = @ + 1]
               s2 == [s1 EXCEPT !.refuted = @ \/ st.observation = "refuting"]
               s3 == [s2 EXCEPT !.next_action = "none"]
               s4 == [s3 EXCEPT !.stop = stop]
    <2>1. /\ s \in AgentState
          /\ s.evidence = st.evidence
          /\ s.plan = st.plan
          /\ s.action_loop_pending = FALSE
      BY <1>1, UnloopedIsState
    <2>2. st.evidence + 1 \in 0 .. 4
      <3>1. /\ st.evidence \in 0 .. 4
            /\ st.plan \in AnalysisTypes \union {"none"}
            /\ Pending(st)
        BY <1>1 DEF AgentState, GInv, EvidenceInPlan, PendingNodes
      <3> QED
        BY <3>1, HypothesesBound DEF Pending
    <2> HIDE DEF s
    <2>3. s1 \in AgentState
      BY <2>1, <2>2, FieldUpdates
    <2>4. s2 \in AgentState
      <3> DEFINE b == s1.refuted \/ st.observation = "refuting"
      <3>1. b \in BOOLEAN
        OBVIOUS
      <3> HIDE DEF b
      <3>2. [s1 EXCEPT !.refuted = b] \in AgentState
        BY <2>3, <3>1, FieldUpdates
      <3> QED
        BY <3>2 DEF b
    <2>5. s3 \in AgentState
      BY <2>4, FieldUpdates
    <2>6. s4 \in AgentState
      BY <2>5, FieldUpdates
    <2>7. /\ s4.evidence = st.evidence + 1
          /\ s4.plan = st.plan
          /\ s4.action_loop_pending = FALSE
      BY <2>1, <2>6 DEF AgentState
    <2>8. Finish(s4)
      BY <1>3 DEF s
    <2> HIDE DEF s4
    <2> QED
      BY <1>1, <2>6, <2>7, <2>8, FinishKeeps
  <1>4. \E stop \in {"internal_error", "answer_contract_unmet", "premise_not_met",
                     "answer_complete", "none"} :
           \/ /\ stop \in {"internal_error", "answer_contract_unmet"}
              /\ Finish([Unlooped(st) EXCEPT !.stop = stop])
           \/ Finish([Judged(Unlooped(st)) EXCEPT !.stop = stop])
    BY DEF judge_evidence
  <1>5. {"internal_error", "answer_contract_unmet", "premise_not_met",
         "answer_complete", "none"} \subseteq StopReasons \union {"none"}
    BY DEF StopReasons, SafeErrorReasons
  <1> HIDE DEF Judged
  <1> QED
    BY <1>2, <1>3, <1>4, <1>5

LEMMA ReplanKeeps ==
    ASSUME GInv, TypeOK, replan
    PROVE  GInv'
  <1> DEFINE s == [st EXCEPT !.next_action = "none"]
  <1>1. /\ node = "replan" /\ node \in Nodes \ {"route_action"}
        /\ st \in AgentState
    BY DEF replan, In, Nodes, GInv, GraphTypeOK
  <1>2. PICK stop \in {"answer_contract_unmet", "cost_soft_cap", "internal_error", "none"} :
           Finish([s EXCEPT !.stop = stop])
    BY DEF replan, UnlessRefused
  <1>3. stop \in StopReasons \union {"none"}
    BY <1>2 DEF StopReasons, BudgetStopReasons, SafeErrorReasons
  <1>4. Alike(s) /\ s.action_loop_pending = st.action_loop_pending
    <2>1. s \in AgentState
      BY <1>1, FieldUpdates
    <2> QED
      BY <1>1, <2>1 DEF AgentState, Alike, ToolUsers
  <1> HIDE DEF s
  <1> QED
    BY <1>1, <1>2, <1>3, <1>4, StopKeeps, DecidingKeeps DEF replan, ToolUsers

\* A repair that fails after it started.
LEMMA RepairFailsKeeps ==
    ASSUME GInv, TypeOK, node = "repair", NEW s, Alike(s),
           s.action_loop_pending = st.action_loop_pending,
           NEW reason \in StopReasons, RepairFails(s, reason), reason # "none",
           toolTraces' \in Nat, UNCHANGED vars
    PROVE  GInv'
  <1>1. node \in Nodes \ {"route_action"} /\ "internal_error" \in StopReasons
    BY DEF Nodes, StopReasons, SafeErrorReasons
  <1>2. CASE Finish([ResultRepair(s, "failed") EXCEPT !.stop = reason])
    <2>1. /\ Alike(ResultRepair(s, "failed"))
          /\ ResultRepair(s, "failed").action_loop_pending = st.action_loop_pending
      BY RepairedIsState DEF Alike
    <2> QED
      BY <1>1, <1>2, <2>1, StopKeeps, RoundsStay
  <1>3. CASE Finish([s EXCEPT !.stop = "internal_error"])
    BY <1>1, <1>3, StopKeeps, RoundsStay
  <1> QED
    BY <1>2, <1>3 DEF RepairFails

LEMMA RepairNodeKeeps ==
    ASSUME GInv, TypeOK, TypeOK', repair
    PROVE  GInv'
  <1>1. /\ node = "repair" /\ node \in Nodes \ {"route_action"}
        /\ st \in AgentState /\ snapshot \in GovernanceSnapshot
        /\ st.next_action = "execute"
        /\ toolTraces \in Nat
    BY DEF repair, Obtained, In, Nodes, GInv, GraphTypeOK, ObservationFits, TypeOK
  <1>2. toolTraces' \in Nat
    <2>1. toolTraces' = toolTraces \/ toolTraces' = toolTraces + 1
      BY DEF repair, Ask
    <2> QED
      BY <1>1, <2>1
  <1>3. /\ Alike(st) /\ Alike(Recorded(st))
        /\ Recorded(st).action_loop_pending = st.action_loop_pending
    BY RecordedAlike
  <1>4. {"internal_error", "repair_failed"} \subseteq StopReasons
    BY DEF StopReasons, SafeErrorReasons
  <1>5. CASE /\ consume_repair(FALSE)
             /\ Goto("started")
    BY <1>1, <1>2, <1>5, GotoKeeps, RoundsStay DEF Places
  <1>6. ASSUME NEW stop \in StopReasons, stop # "none", UNCHANGED <<vars, toolTraces>>,
               Finish([st EXCEPT !.stop = stop, !.governance = snapshot])
        PROVE  GInv'
    <2> DEFINE s == [st EXCEPT !.governance = snapshot]
    <2>1. s \in AgentState
      BY <1>1, FieldUpdates
    <2>2. Alike(s) /\ s.action_loop_pending = st.action_loop_pending
      BY <1>1, <2>1 DEF AgentState, Alike
    <2>3. Finish([s EXCEPT !.stop = stop])
      <3>1. [s EXCEPT !.stop = stop] = [st EXCEPT !.stop = stop, !.governance = snapshot]
        BY <1>1 DEF AgentState
      <3> QED
        BY <1>6, <3>1
    <2> HIDE DEF s
    <2> QED
      BY <1>1, <1>2, <1>6, <2>2, <2>3, StopKeeps, RoundsStay
  <1>7. CASE Ask("repair")
    BY <1>1, <1>7, AskKeeps, PurposesAsked, RoundsStay
  <1>8. CASE consume_tool("execute_sql") /\ Goto("tool")
    BY <1>1, <1>2, <1>8, GotoKeeps, RoundsStay DEF Places, ActionTypes
  <1>9. ASSUME NEW reason \in StopReasons, reason # "none",
               RepairFails(Recorded(st), reason), UNCHANGED vars
        PROVE  GInv'
    BY <1>1, <1>2, <1>3, <1>9, RepairFailsKeeps
  <1>10. CASE /\ UNCHANGED vars
              /\ \E r \in ToolResults :
                    LET s == Observed(Recorded(st), r)
                    IN  \/ RepairFails(s, "internal_error")
                        \/ /\ r \in QueryResults
                           /\ Finish([s EXCEPT !.stop = "none"])
                        \/ /\ r \notin QueryResults
                           /\ RepairFails(s, IF r = "internal_error"
                                             THEN "repair_failed" ELSE r)
    <2> DEFINE S(r) == Observed(Recorded(st), r)
    <2>1. PICK r \in ToolResults :
             \/ RepairFails(S(r), "internal_error")
             \/ r \in QueryResults /\ Finish([S(r) EXCEPT !.stop = "none"])
             \/ /\ r \notin QueryResults
                /\ RepairFails(S(r), IF r = "internal_error" THEN "repair_failed" ELSE r)
      BY <1>10
    <2>2. r \in QueryResults \union SafeErrorReasons
      BY <1>1, <2>1, GraphAssumption DEF ToolResults, SafeErrorReasons
    <2>3. /\ Alike(S(r))
          /\ S(r).action_loop_pending = st.action_loop_pending
          /\ r \in QueryResults => Fits(S(r))
      <3> DEFINE s == Recorded(st)
      <3>1. /\ s \in AgentState /\ s.evidence = st.evidence /\ s.plan = st.plan
            /\ s.next_action = "execute"
            /\ s.action_loop_pending = st.action_loop_pending
        BY <1>1, <1>3 DEF Alike, ToolUsers
      <3> HIDE DEF s
      <3>2. /\ Observed(s, r) \in AgentState
            /\ Observed(s, r).evidence = st.evidence
            /\ Observed(s, r).plan = st.plan
            /\ Observed(s, r).next_action = "execute"
            /\ Observed(s, r).observation = r
            /\ Observed(s, r).action_loop_pending = st.action_loop_pending
        BY <2>2, <3>1, ObservedIsState
      <3>3. S(r) = Observed(s, r)
        BY DEF s
      <3> HIDE DEF S
      <3> QED
        BY <1>1, <3>2, <3>3 DEF Alike, Fits
    <2> HIDE DEF S
    <2>4. CASE r \in QueryResults /\ Finish([S(r) EXCEPT !.stop = "none"])
      BY <1>1, <1>2, <1>10, <2>3, <2>4, StopKeeps, RoundsStay
    <2>5. CASE RepairFails(S(r), "internal_error")
      BY <1>1, <1>2, <1>4, <1>10, <2>3, <2>5, RepairFailsKeeps
    <2>6. CASE /\ r \notin QueryResults
               /\ RepairFails(S(r), IF r = "internal_error" THEN "repair_failed" ELSE r)
      <3> DEFINE reason == IF r = "internal_error" THEN "repair_failed" ELSE r
      <3>1. reason \in StopReasons /\ reason # "none"
        BY <1>4, <2>2, <2>6, StopsAreReasons DEF SafeErrorReasons
      <3> HIDE DEF reason
      <3>2. RepairFails(S(r), reason)
        BY <2>6 DEF reason
      <3> QED
        BY <1>1, <1>2, <1>10, <2>3, <3>1, <3>2, RepairFailsKeeps
    <2> QED
      BY <2>1, <2>4, <2>5, <2>6
  <1>11. ASSUME NEW reason \in {RepairRefusal, ToolLimit("execute_sql")}, reason # "none"
         PROVE  \A stop \in UnlessRefused(reason) : stop \in StopReasons /\ stop # "none"
    BY <1>4, <1>11, StopsAreReasons DEF UnlessRefused
  <1>12. CASE /\ RepairRefusal # "none"
              /\ \E stop \in UnlessRefused(RepairRefusal) :
                    Finish([st EXCEPT !.stop = stop, !.governance = snapshot])
              /\ UNCHANGED <<vars, toolTraces>>
    BY <1>6, <1>11, <1>12
  <1>13. CASE /\ Finish([st EXCEPT !.stop = "internal_error", !.governance = snapshot])
              /\ UNCHANGED <<vars, toolTraces>>
    BY <1>4, <1>6, <1>13
  <1>14. CASE /\ ToolLimit("execute_sql") # "none"
              /\ \E stop \in UnlessRefused(ToolLimit("execute_sql")) :
                    RepairFails(Recorded(st), stop)
              /\ UNCHANGED <<vars, toolTraces>>
    BY <1>9, <1>11, <1>14
  <1>15. CASE /\ RepairFails(Recorded(st), "repair_failed")
                 \/ RepairFails(Recorded(st), "internal_error")
              /\ UNCHANGED <<vars, toolTraces>>
    BY <1>4, <1>9, <1>15
  <1>16. CASE at = "start"
    BY <1>5, <1>12, <1>16 DEF repair, Obtained, In
  <1>17. CASE at = "started"
    BY <1>7, <1>13, <1>17 DEF repair, Obtained, In
  <1>18. CASE at = "asked"
    BY <1>8, <1>14, <1>15, <1>18 DEF repair, Obtained, In
  <1>19. CASE at = "tool"
    BY <1>10, <1>15, <1>19 DEF repair, Obtained, In
  <1>20. at \in {"start", "started", "asked", "tool"}
    BY DEF repair, Obtained, In
  <1> QED
    BY <1>16, <1>17, <1>18, <1>19, <1>20

FinalAnswers == [status : FinalStatuses \union {"none"},
                 reason : StopReasons \union {"none"}, evidence : 0 .. 4]

LEMMA AnswerIsFinal ==
    ASSUME NEW s \in AgentState
    PROVE  DeterministicAnswer(s) \in FinalAnswers
  <1>1. s.stop \in StopReasons \union {"none"} /\ s.evidence \in 0 .. 4
    BY DEF AgentState
  <1>2. \A reason : StatusForReason(reason) \in FinalStatuses
    BY DEF StatusForReason, FinalStatuses
  <1>3. {"internal_error", "result_truncated", "answer_complete", "premise_not_met",
         "evidence_partial", "answer_contract_unmet"} \subseteq StopReasons
    BY DEF StopReasons, SafeErrorReasons
  <1>4. {"internal_error", "partial", "execution_failed", "completed"} \subseteq FinalStatuses
    BY DEF FinalStatuses
  <1> HIDE DEF FinalStatuses, StopReasons
  <1> QED
    BY <1>1, <1>2, <1>3, <1>4 DEF DeterministicAnswer, TimeoutAnswer, Answer, FinalAnswers

\* A node ends with the final answer.
LEMMA AnswerKeeps ==
    ASSUME GInv, TypeOK, node \in {"synthesize", "finalize"}, UNCHANGED <<vars, toolTraces>>,
           NEW s, Alike(s), s.action_loop_pending = st.action_loop_pending,
           NEW answer \in FinalAnswers,
           Finish([s EXCEPT !.final = answer, !.stop = answer.reason])
    PROVE  GInv'
  <1> DEFINE t == [s EXCEPT !.final = answer]
  <1>1. t \in AgentState
    BY DEF Alike, AgentState, FinalAnswers
  <1>2. Alike(t) /\ t.action_loop_pending = st.action_loop_pending
    BY <1>1 DEF Alike, AgentState
  <1>3. Finish([t EXCEPT !.stop = answer.reason])
    OBVIOUS
  <1>4. answer.reason \in StopReasons \union {"none"}
    BY DEF FinalAnswers
  <1> HIDE DEF t
  <1> QED
    BY <1>2, <1>3, <1>4, StopKeeps, DecidingKeeps DEF ToolUsers, Nodes

LEMMA SynthesizeKeeps ==
    ASSUME GInv, TypeOK, synthesize
    PROVE  GInv'
  <1>1. node = "synthesize" /\ st \in AgentState
    BY DEF synthesize, Obtained, In, GInv, GraphTypeOK
  <1>2. CASE Ask("synthesis")
    BY <1>1, <1>2, AskKeeps, PurposesAsked, RoundsStay
  <1>3. CASE /\ UNCHANGED <<vars, toolTraces>>
             /\ Finish([Recorded(st) EXCEPT !.final = DeterministicAnswer(st),
                                            !.stop = DeterministicAnswer(st).reason])
    BY <1>1, <1>3, AnswerKeeps, AnswerIsFinal, RecordedAlike
  <1> QED
    BY <1>2, <1>3 DEF synthesize

LEMMA FinalizeKeeps ==
    ASSUME GInv, TypeOK, finalize
    PROVE  GInv'
  <1>1. node = "finalize" /\ st \in AgentState /\ snapshot \in GovernanceSnapshot
    BY DEF finalize, In, GInv, GraphTypeOK, TypeOK
  <1> DEFINE answer == IF st.final = NoFinal THEN DeterministicAnswer(st) ELSE st.final
             s == [st EXCEPT !.governance = snapshot]
  <1>2. answer \in FinalAnswers
    BY <1>1, AnswerIsFinal DEF AgentState, FinalAnswers
  <1>3. Alike(s) /\ s.action_loop_pending = st.action_loop_pending
    <2>1. s \in AgentState
      BY <1>1, FieldUpdates
    <2> QED
      BY <1>1, <2>1 DEF AgentState, Alike, ToolUsers
  <1>4. Finish([s EXCEPT !.final = answer, !.stop = answer.reason])
    <2> HIDE DEF answer
    <2>1. [s EXCEPT !.final = answer, !.stop = answer.reason]
            = [st EXCEPT !.final = answer, !.stop = answer.reason, !.governance = snapshot]
      BY <1>1 DEF AgentState
    <2>2. Finish([st EXCEPT !.final = answer, !.stop = answer.reason,
                            !.governance = snapshot])
      BY DEF finalize, answer
    <2> QED
      BY <2>1, <2>2
  <1> HIDE DEF answer, s
  <1> QED
    BY <1>1, <1>2, <1>3, <1>4, AnswerKeeps DEF finalize

\* Steps that leave the nodes alone.
LEMMA OthersKeep ==
    ASSUME GInv, TypeOK,
           Converse \/ CancelRun \/ GraphClock \/ UNCHANGED allVars
    PROVE  GInv'
  <1>1. LoopAvailable => LoopAvailable'
    <2>1. CASE Converse
      BY <2>1, RoundsStay DEF Converse
    <2>2. CASE CancelRun \/ UNCHANGED allVars
      BY <2>2, RoundsStay DEF CancelRun, allVars
    <2>3. CASE GraphClock
      BY <2>3 DEF GraphClock, Clock, Expire, LoopAvailable
    <2> QED
      BY <2>1, <2>2, <2>3
  <1>2. CASE CancelRun
    <2>1. UNCHANGED <<at, st, toolTraces, asked>> /\ node' = "cancelled"
      BY <1>2 DEF CancelRun
    <2> QED
      BY <1>1, <2>1
      DEF GInv, GraphTypeOK, LoopReserved, EvidenceInPlan, ObservationFits, Pending, Fits,
          EarlyNodes, PendingNodes
  <1>3. CASE UNCHANGED graphVars
    BY <1>1, <1>3
    DEF GInv, GraphTypeOK, LoopReserved, EvidenceInPlan, ObservationFits, Pending, Fits,
        graphVars
  <1> QED
    BY <1>2, <1>3 DEF Converse, GraphClock, allVars

LEMMA GInvInit ==
    ASSUME GraphInit
    PROVE  GInv
  <1>1. snapshot \in GovernanceSnapshot /\ traces = <<>>
    BY InitInv DEF GraphInit, Init, IInv, TypeOK
  <1>2. <<>> \in Seq(ModelCallTrace) /\ <<>> \in Seq(RepairRecords)
    OBVIOUS
  <1>3. new_agent_state \in AgentState
    BY <1>1, <1>2
    DEF new_agent_state, AgentState, RepairRecords, NoFinal
  <1> QED
    BY <1>3
    DEF GraphInit, GInv, GraphTypeOK, LoopReserved, EvidenceInPlan, ObservationFits,
        new_agent_state, Hypotheses, Nodes, Places, PendingNodes

LEMMA GInvStep ==
    ASSUME GInv, TypeOK, TypeOK', [GraphNext]_allVars
    PROVE  GInv'
  <1>1. CASE intake \/ decide_behavior \/ retrieve_context \/ build_plan \/ compile_contract
    BY <1>1, IntakeKeeps, DecideBehaviorKeeps, RetrieveContextKeeps, BuildPlanKeeps,
       CompileContractKeeps
  <1>2. CASE route_action \/ invoke_tool \/ validate_profile \/ validate_observation
    BY <1>2, RouteActionKeeps, InvokeToolKeeps, ValidateProfileKeeps, ValidateObservationKeeps
  <1>3. CASE judge_evidence \/ replan \/ repair \/ synthesize \/ finalize
    BY <1>3, JudgeEvidenceKeeps, ReplanKeeps, RepairNodeKeeps, SynthesizeKeeps, FinalizeKeeps
  <1>4. CASE InvocationFailed
    BY <1>4, InvocationFailedKeeps
  <1>5. CASE Converse \/ CancelRun \/ GraphClock \/ UNCHANGED allVars
    BY <1>5, OthersKeep
  <1> QED
    BY <1>1, <1>2, <1>3, <1>4, <1>5 DEF GraphNext, Work

\* The strengthened invariant, from the ledger's and the invoker's types.
LEMMA GInvHolds == GraphSpec => []GInv
  <1>1. GraphInit => GInv
    BY GInvInit
  <1>2. GInv /\ TypeOK /\ TypeOK' /\ [GraphNext]_allVars => GInv'
    BY GInvStep
  <1>3. GraphSpec => []TypeOK
    BY RunWithinLimits, PTL
  <1> QED
    BY <1>1, <1>2, <1>3, PTL DEF GraphSpec

\* The fields of the agent's state keep their types whatever the nodes merge: the
\* evidence never exceeds the plan's hypotheses, every stop reason is one of
\* StopReason's, and no validation is asked about a result it cannot judge.
THEOREM GraphTypeCorrect == GraphSpec => []GraphTypeOK
  <1>1. GInv => GraphTypeOK
    BY DEF GInv
  <1> QED
    BY <1>1, GInvHolds, PTL

\* The round that route_action found free for an execution is still free when it
\* is counted, nodes later: consume_action_loop is never refused one.
THEOREM RoundReserved == GraphSpec => []LoopReserved
  <1>1. GInv => LoopReserved
    BY DEF GInv
  <1> QED
    BY <1>1, GInvHolds, PTL

\* No more hypotheses are resolved than the plan has, and while a query for one
\* runs, is repaired or judged, one is still pending: judge_evidence always finds
\* the hypothesis that the observation is about.
THEOREM EvidenceWithinPlan == GraphSpec => []EvidenceInPlan
  <1>1. GInv => EvidenceInPlan
    BY DEF GInv
  <1> QED
    BY <1>1, GInvHolds, PTL

-----------------------------------------------------------------------------
(***************************************************************************)
(* What a whole run of the agent keeps, for all limits, costs, plans and   *)
(* tool errors: the state's copies agree with the recorder and the ledger, *)
(* every query is counted as a round once, nothing new begins after the    *)
(* soft cap, and the answer is one its validator accepts.                  *)
(*                                                                         *)
(* The first part says of every node which fields of the state it changes  *)
(* and to what; the invariants are then proved from that, without another  *)
(* look at the nodes.                                                      *)
(***************************************************************************)

(***************************************************************************)
(* The effects of the nodes.                                               *)
(***************************************************************************)
\* The fields of the state that the invariants look at: all but node_traces.
Fields ==
    {"stop", "plan", "contract", "evidence", "refuted", "next_action",
     "action_loop_pending", "observations", "observation", "validated", "verdict",
     "repair_history", "governance", "model_call_traces", "tool_call_traces", "final"}

HasFields(s) == DOMAIN s = Fields \union {"node_traces"}

\* s and t agree but for the fields F.
Agree(s, t, F) == \A f \in Fields \ F : s[f] = t[f]

\* The node ends, having changed at most the fields F.
NodeEnds(F) ==
    /\ at' = "start"
    /\ asked' = asked
    /\ node' = Successor(st')
    /\ Agree(st', st, F)

\* The node goes on at another place.
Moves(place) ==
    /\ at' = place
    /\ UNCHANGED <<node, st, asked>>

RecordFields == {"model_call_traces", "repair_history", "governance"}

\* The traces of the invocation that ended.
NewTraces == SubSeq(traces, asked + 1, Len(traces))

\* The invocation's traces and the ledger, as the state takes them over.
Merges ==
    /\ st'.model_call_traces = st.model_call_traces \o NewTraces
    /\ st'.governance = snapshot

\* What an invocation without a repair leaves of the history.
HistoryKept == record = "none" => st'.repair_history = st.repair_history

Untouched == UNCHANGED <<vars, toolTraces>>

\* The stop reasons that no node but judge_evidence gives before the answer.
JudgedStops == {"answer_complete", "premise_not_met"}

PlainStops == (StopReasons \union {"none"}) \ (JudgedStops \union {"evidence_partial"})

OtherStops == PlainStops \ {"execute_limit"}

LEMMA StateHasFields ==
    ASSUME NEW s \in AgentState
    PROVE  HasFields(s)
  BY DEF AgentState, HasFields, Fields

LEMMA FinishEnds ==
    ASSUME NEW s, HasFields(s), NEW F, Agree(s, st, F), Finish(s)
    PROVE  NodeEnds(F) /\ Agree(st', s, {})
  <1> DEFINE t == [s EXCEPT !.node_traces = @ + 1]
  <1>1. st' = t /\ node' = Successor(t) /\ at' = "start" /\ asked' = asked
    BY DEF Finish
  <1>2. Agree(t, s, {})
    BY DEF Agree, HasFields, Fields
  <1> HIDE DEF t
  <1>3. Agree(t, st, F)
    BY <1>2 DEF Agree
  <1> QED
    BY <1>1, <1>2, <1>3 DEF NodeEnds

LEMMA RecordedFields ==
    ASSUME NEW s, HasFields(s)
    PROVE  /\ HasFields(Recorded(s))
           /\ Agree(Recorded(s), s, RecordFields)
           /\ Recorded(s).model_call_traces = s.model_call_traces \o NewTraces
           /\ Recorded(s).governance = snapshot
           /\ record = "none" => Recorded(s).repair_history = s.repair_history
  <1> DEFINE calls == s.model_call_traces \o NewTraces
             history == IF record = "none" THEN s.repair_history
                        ELSE Append(s.repair_history,
                                    [kind |-> "structured_output", outcome |-> record])
  <1>1. Recorded(s) = [s EXCEPT !.model_call_traces = calls, !.repair_history = history,
                                !.governance = snapshot]
    BY DEF Recorded, NewTraces, HasFields, Fields
  <1>2. record = "none" => history = s.repair_history
    OBVIOUS
  <1> HIDE DEF calls, history
  <1>3. /\ HasFields(Recorded(s))
        /\ Agree(Recorded(s), s, RecordFields)
        /\ Recorded(s).model_call_traces = calls
        /\ Recorded(s).governance = snapshot
        /\ Recorded(s).repair_history = history
    BY <1>1 DEF HasFields, Fields, Agree, RecordFields
  <1> QED
    BY <1>2, <1>3 DEF calls

\* Most nodes give a stop reason to some delta s.
LEMMA StopEnds ==
    ASSUME NEW s, HasFields(s), NEW F, Agree(s, st, F), NEW stop,
           Finish([s EXCEPT !.stop = stop])
    PROVE  /\ NodeEnds(F \union {"stop"})
           /\ Agree(st', s, {"stop"})
           /\ st'.stop = stop
  <1> DEFINE t == [s EXCEPT !.stop = stop]
             G == F \union {"stop"}
  <1>1. HasFields(t) /\ Agree(t, s, {"stop"}) /\ t.stop = stop
    BY DEF HasFields, Fields, Agree
  <1>2. Finish(t)
    OBVIOUS
  <1> HIDE DEF t
  <1>3. Agree(t, st, G)
    BY <1>1 DEF Agree
  <1>4. NodeEnds(G) /\ Agree(st', t, {})
    <2> HIDE DEF G
    <2> QED
      BY <1>1, <1>2, <1>3, FinishEnds
  <1>5. st'.stop = stop
    BY <1>1, <1>4 DEF Agree, Fields
  <1> QED
    BY <1>1, <1>4, <1>5 DEF Agree

LEMMA GivenState ==
    ASSUME GInv
    PROVE  /\ HasFields(st)
           /\ Agree(st, st, {})
           /\ HasFields(Recorded(st))
           /\ Agree(Recorded(st), st, RecordFields)
  BY StateHasFields, RecordedFields DEF GInv, GraphTypeOK, Agree

\* An invocation's end with a stop reason.
LEMMA RecordedEnds ==
    ASSUME GInv, NEW stop, Finish([Recorded(st) EXCEPT !.stop = stop])
    PROVE  /\ NodeEnds(RecordFields \union {"stop"})
           /\ Merges /\ HistoryKept
           /\ st'.stop = stop
  <1>1. /\ NodeEnds(RecordFields \union {"stop"})
        /\ Agree(st', Recorded(st), {"stop"})
        /\ st'.stop = stop
    BY GivenState, StopEnds
  <1>2. /\ st'.model_call_traces = Recorded(st).model_call_traces
        /\ st'.governance = Recorded(st).governance
        /\ st'.repair_history = Recorded(st).repair_history
    BY <1>1 DEF Agree, Fields
  <1> QED
    BY <1>1, <1>2, GivenState, RecordedFields DEF Merges, HistoryKept

LEMMA IntakeEffect ==
    ASSUME GInv, intake
    PROVE  /\ In("intake", "start") /\ Untouched
           /\ NodeEnds({"stop"})
           /\ st'.stop \in {"none", "missing_required_fields"}
  <1>1. PICK stop \in {"none", "missing_required_fields"} : Finish([st EXCEPT !.stop = stop])
    BY DEF intake
  <1>2. NodeEnds({} \union {"stop"}) /\ st'.stop = stop
    BY <1>1, GivenState, StopEnds
  <1>3. {} \union {"stop"} = {"stop"}
    OBVIOUS
  <1> QED
    BY <1>2, <1>3 DEF intake, Untouched

LEMMA InvocationFailedEffect ==
    ASSUME GInv, InvocationFailed
    PROVE  /\ phase = "idle" /\ at = "asked" /\ Untouched
           /\ node \in {"decide_behavior", "build_plan", "route_action", "synthesize"}
           /\ result # "output"
           /\ NodeEnds(RecordFields \union {"stop", "next_action", "action_loop_pending"})
           /\ Merges
           /\ st'.action_loop_pending = FALSE
           /\ st'.stop \in AfterWarning(result)
  <1>1. PICK stop \in AfterWarning(result) :
           Finish([Recorded(st) EXCEPT !.stop = stop,
                                       !.next_action = "none",
                                       !.action_loop_pending = FALSE])
    BY DEF InvocationFailed
  <1> DEFINE r == Recorded(st)
             s == [r EXCEPT !.stop = stop, !.next_action = "none",
                            !.action_loop_pending = FALSE]
             F == RecordFields \union {"stop", "next_action", "action_loop_pending"}
  <1>2. /\ HasFields(r) /\ Agree(r, st, RecordFields)
        /\ r.model_call_traces = st.model_call_traces \o NewTraces
        /\ r.governance = snapshot
    BY GivenState, RecordedFields
  <1>3. Finish(s)
    BY <1>1
  <1> HIDE DEF r
  <1>4. /\ HasFields(s)
        /\ Agree(s, r, {"stop", "next_action", "action_loop_pending"})
        /\ s.stop = stop /\ s.action_loop_pending = FALSE
    BY <1>2 DEF HasFields, Fields, Agree
  <1> HIDE DEF s
  <1>5. Agree(s, st, F)
    BY <1>2, <1>4 DEF Agree
  <1> HIDE DEF F
  <1>6. NodeEnds(F) /\ Agree(st', s, {})
    BY <1>3, <1>4, <1>5, FinishEnds
  <1>7. /\ st'.stop = stop /\ st'.action_loop_pending = FALSE
        /\ st'.model_call_traces = r.model_call_traces
        /\ st'.governance = r.governance
    BY <1>4, <1>6 DEF Agree, Fields
  <1> QED
    BY <1>2, <1>6, <1>7 DEF InvocationFailed, Untouched, Merges, F

\* From the question to the plan.
LEMMA DecideBehaviorEffect ==
    ASSUME GInv, decide_behavior
    PROVE  \/ In("decide_behavior", "start") /\ Ask("behavior")
           \/ /\ Obtained("decide_behavior") /\ Untouched
              /\ NodeEnds(RecordFields \union {"stop"})
              /\ Merges
              /\ st'.stop \in OtherStops
              /\ st'.stop = "none" => ~snapshot.soft_cap_reached
  <1>1. ASSUME ~(In("decide_behavior", "start") /\ Ask("behavior"))
        PROVE  /\ Obtained("decide_behavior") /\ Untouched
               /\ \E decision \in {"none"} \union BehaviorReasons :
                  \E stop \in {"structured_output_invalid", "internal_error"} \union
                              {IF snapshot.soft_cap_reached /\ decision = "none"
                               THEN "cost_soft_cap" ELSE decision} :
                     Finish([Recorded(st) EXCEPT !.stop = stop])
    BY <1>1 DEF decide_behavior, Untouched
  <1>2. ASSUME NEW decision \in {"none"} \union BehaviorReasons,
               NEW stop \in {"structured_output_invalid", "internal_error"} \union
                            {IF snapshot.soft_cap_reached /\ decision = "none"
                             THEN "cost_soft_cap" ELSE decision}
        PROVE  stop \in OtherStops /\ (stop = "none" => ~snapshot.soft_cap_reached)
    BY DEF OtherStops, PlainStops, JudgedStops, StopReasons, BudgetStopReasons,
           BehaviorReasons, SafeErrorReasons
  <1>3. CASE ~(In("decide_behavior", "start") /\ Ask("behavior"))
    <2>1. PICK decision \in {"none"} \union BehaviorReasons :
          \E stop \in {"structured_output_invalid", "internal_error"} \union
                      {IF snapshot.soft_cap_reached /\ decision = "none"
                       THEN "cost_soft_cap" ELSE decision} :
             Finish([Recorded(st) EXCEPT !.stop = stop])
      BY <1>1, <1>3
    <2>2. PICK stop \in {"structured_output_invalid", "internal_error"} \union
                      {IF snapshot.soft_cap_reached /\ decision = "none"
                       THEN "cost_soft_cap" ELSE decision} :
             Finish([Recorded(st) EXCEPT !.stop = stop])
      BY <2>1
    <2>3. stop \in OtherStops /\ (stop = "none" => ~snapshot.soft_cap_reached)
      BY <1>2, <2>1, <2>2
    <2>4. /\ NodeEnds(RecordFields \union {"stop"})
          /\ Merges
          /\ st'.stop = stop
      BY <2>2, RecordedEnds
    <2> QED
      BY <1>1, <1>3, <2>3, <2>4
  <1> QED
    BY <1>3

LEMMA ContextEndsEffect ==
    ASSUME GInv, NEW n \in 0 .. 2, NEW stop, ContextEnds(n, stop)
    PROVE  /\ NodeEnds({"observations", "tool_call_traces", "governance", "stop"})
           /\ st'.tool_call_traces = st.tool_call_traces + n
           /\ st'.governance = snapshot
           /\ st'.stop = stop
  <1> DEFINE m == st.observations + n
             k == st.tool_call_traces + n
             s == [st EXCEPT !.observations = m, !.tool_call_traces = k,
                             !.governance = snapshot]
             F == {"observations", "tool_call_traces", "governance"}
  <1>1. HasFields(st)
    BY GivenState
  <1>2. Finish([s EXCEPT !.stop = stop])
    BY <1>1 DEF ContextEnds, HasFields, Fields
  <1> HIDE DEF m, k
  <1>3. /\ HasFields(s) /\ Agree(s, st, F)
        /\ s.tool_call_traces = k /\ s.governance = snapshot
    BY <1>1 DEF HasFields, Fields, Agree
  <1> HIDE DEF s
  <1>4. NodeEnds(F \union {"stop"}) /\ Agree(st', s, {"stop"}) /\ st'.stop = stop
    <2> HIDE DEF F
    <2> QED
      BY <1>2, <1>3, StopEnds
  <1>5. st'.tool_call_traces = k /\ st'.governance = snapshot
    BY <1>3, <1>4 DEF Agree, Fields
  <1>6. F \union {"stop"} = {"observations", "tool_call_traces", "governance", "stop"}
    OBVIOUS
  <1> QED
    BY <1>4, <1>5, <1>6 DEF k

LEMMA ToolLimits ==
    ASSUME NEW type
    PROVE  /\ ToolLimit(type) \in {"task_timeout", "tool_call_limit", "execute_limit",
                                   "profile_limit", "none"}
           /\ type # "execute_sql" => ToolLimit(type) # "execute_limit"
  BY DEF ToolLimit

LEMMA RetrieveContextEffect ==
    ASSUME GInv, retrieve_context
    PROVE  /\ phase = "idle" /\ node = "retrieve_context"
           /\ \/ /\ consume_tool("other") /\ UNCHANGED <<expired, invokerVars>>
                 /\ \/ at = "start" /\ Moves("tool") /\ toolTraces' = toolTraces
                    \/ at = "tool" /\ Moves("schema") /\ toolTraces' = toolTraces + 1
              \/ /\ UNCHANGED vars
                 /\ at \in {"start", "tool", "schema"}
                 /\ NodeEnds({"observations", "tool_call_traces", "governance", "stop"})
                 /\ st'.tool_call_traces + toolTraces
                      = st.tool_call_traces + toolTraces' + (IF at = "schema" THEN 1 ELSE 0)
                 /\ st'.governance = snapshot
                 /\ st'.stop \in OtherStops
  <1> DEFINE Ending(n) ==
               /\ NodeEnds({"observations", "tool_call_traces", "governance", "stop"})
               /\ st'.tool_call_traces = st.tool_call_traces + n
               /\ st'.governance = snapshot
               /\ st'.stop \in OtherStops
  <1>1. toolTraces \in Nat /\ st.tool_call_traces \in Nat
    BY DEF GInv, GraphTypeOK, AgentState
  <1>2. SafeErrorReasons \union {"none", "internal_error", "task_timeout", "tool_call_limit",
                                 "profile_limit"} \subseteq OtherStops
    BY DEF OtherStops, PlainStops, JudgedStops, StopReasons, BudgetStopReasons,
           SafeErrorReasons
  <1>3. ASSUME NEW n \in 0 .. 2, LookupRefused(n)
        PROVE  UNCHANGED vars /\ Ending(n)
    <2>1. PICK stop \in UnlessRefused(ToolLimit("other")) : ContextEnds(n, stop)
      BY <1>3 DEF LookupRefused
    <2>2. stop \in OtherStops
      BY <1>2, <2>1, ToolLimits DEF UnlessRefused
    <2> QED
      BY <1>3, <2>1, <2>2, ContextEndsEffect DEF LookupRefused
  <1>4. ASSUME NEW n \in 0 .. 2,
               NEW stop \in ToolErrors \union {"none", "internal_error"}, ContextEnds(n, stop)
        PROVE  Ending(n)
    <2>1. stop \in OtherStops
      BY <1>2, GraphAssumption
    <2> QED
      BY <1>4, <2>1, ContextEndsEffect
  <1> HIDE DEF Ending
  <1>5. CASE In("retrieve_context", "start")
    <2>1. CASE Lookup("tool") /\ UNCHANGED toolTraces
      BY <1>5, <2>1 DEF Lookup, Goto, Moves, In
    <2>2. CASE LookupRefused(0) /\ UNCHANGED toolTraces
      BY <1>1, <1>3, <1>5, <2>2 DEF In, Ending
    <2> QED
      BY <1>5, <2>1, <2>2 DEF retrieve_context, In
  <1>6. CASE In("retrieve_context", "tool")
    <2>1. CASE Lookup("schema") /\ toolTraces' = toolTraces + 1
      BY <1>6, <2>1 DEF Lookup, Goto, Moves, In
    <2>2. CASE LookupRefused(1) /\ toolTraces' = toolTraces + 1
      BY <1>1, <1>3, <1>6, <2>2 DEF In, Ending
    <2>3. CASE /\ \E stop \in ToolErrors \union {"internal_error"} : ContextEnds(1, stop)
               /\ UNCHANGED vars
               /\ toolTraces' = toolTraces + 1
      BY <1>1, <1>4, <1>6, <2>3 DEF In, Ending
    <2>4. CASE ContextEnds(0, "internal_error") /\ UNCHANGED <<vars, toolTraces>>
      BY <1>1, <1>4, <1>6, <2>4 DEF In, Ending
    <2> QED
      BY <1>6, <2>1, <2>2, <2>3, <2>4 DEF retrieve_context, In
  <1>7. CASE In("retrieve_context", "schema")
    <2>1. CASE /\ \E stop \in ToolErrors \union {"none", "internal_error"} :
                     ContextEnds(2, stop)
               /\ UNCHANGED vars
               /\ toolTraces' = toolTraces + 1
      BY <1>1, <1>4, <1>7, <2>1 DEF In, Ending
    <2>2. CASE ContextEnds(1, "internal_error") /\ UNCHANGED <<vars, toolTraces>>
      BY <1>1, <1>4, <1>7, <2>2 DEF In, Ending
    <2> QED
      BY <1>7, <2>1, <2>2 DEF retrieve_context, In
  <1> QED
    BY <1>5, <1>6, <1>7 DEF retrieve_context, In

LEMMA BuildPlanEffect ==
    ASSUME GInv, build_plan
    PROVE  \/ In("build_plan", "start") /\ Ask("plan")
           \/ /\ Obtained("build_plan") /\ Untouched
              /\ NodeEnds(RecordFields \union {"plan", "stop"})
              /\ Merges
              /\ st'.stop \in OtherStops
              /\ st'.stop = "none" => ~snapshot.soft_cap_reached
  <1>1. {"plan_invalid", "internal_error", "cost_soft_cap", "none"} \subseteq OtherStops
    BY DEF OtherStops, PlainStops, JudgedStops, StopReasons, BudgetStopReasons,
           SafeErrorReasons
  <1>2. ASSUME NEW stop \in {"plan_invalid", "internal_error"},
               Finish([Recorded(st) EXCEPT !.stop = stop])
        PROVE  /\ NodeEnds(RecordFields \union {"plan", "stop"})
               /\ Merges /\ st'.stop = stop
    <2>1. NodeEnds(RecordFields \union {"stop"}) /\ Merges /\ st'.stop = stop
      BY <1>2, RecordedEnds
    <2> QED
      BY <2>1 DEF NodeEnds, Agree
  <1>3. ASSUME NEW plan \in Plans,
               Finish([Recorded(st) EXCEPT
                         !.plan = plan,
                         !.stop = IF snapshot.soft_cap_reached
                                  THEN "cost_soft_cap" ELSE "none"])
        PROVE  /\ NodeEnds(RecordFields \union {"plan", "stop"})
               /\ Merges
               /\ st'.stop = IF snapshot.soft_cap_reached THEN "cost_soft_cap" ELSE "none"
    <2> DEFINE stop == IF snapshot.soft_cap_reached THEN "cost_soft_cap" ELSE "none"
               r == Recorded(st)
               s == [r EXCEPT !.plan = plan]
               F == RecordFields \union {"plan"}
    <2>1. /\ HasFields(r) /\ Agree(r, st, RecordFields)
          /\ r.model_call_traces = st.model_call_traces \o NewTraces
          /\ r.governance = snapshot
      BY GivenState, RecordedFields
    <2>2. Finish([s EXCEPT !.stop = stop])
      BY <1>3
    <2> HIDE DEF r, stop
    <2>3. HasFields(s) /\ Agree(s, r, {"plan"})
      BY <2>1 DEF HasFields, Fields, Agree
    <2> HIDE DEF s
    <2>4. Agree(s, st, F)
      BY <2>1, <2>3 DEF Agree
    <2>5. NodeEnds(F \union {"stop"}) /\ Agree(st', s, {"stop"}) /\ st'.stop = stop
      <3> HIDE DEF F
      <3> QED
        BY <2>2, <2>3, <2>4, StopEnds
    <2>6. /\ st'.model_call_traces = r.model_call_traces
          /\ st'.governance = r.governance
      BY <2>3, <2>5 DEF Agree, Fields
    <2>7. F \union {"stop"} = RecordFields \union {"plan", "stop"}
      OBVIOUS
    <2> QED
      BY <2>1, <2>5, <2>6, <2>7 DEF Merges, stop
  <1> QED
    BY <1>1, <1>2, <1>3 DEF build_plan, Untouched

LEMMA CompileContractEffect ==
    ASSUME GInv, compile_contract
    PROVE  /\ In("compile_contract", "start") /\ Untouched
           /\ NodeEnds({"contract", "governance", "stop"})
           /\ st'.governance \in {st.governance, snapshot}
           /\ st'.stop \in {"none", "plan_invalid"}
  <1>1. HasFields(st)
    BY GivenState
  <1>2. CASE Finish([st EXCEPT !.contract = TRUE, !.stop = "none"])
    <2> DEFINE s == [st EXCEPT !.contract = TRUE]
               F == {"contract", "governance"}
    <2>1. HasFields(s) /\ Agree(s, st, F) /\ s.governance = st.governance
      BY <1>1 DEF HasFields, Fields, Agree
    <2>2. Finish([s EXCEPT !.stop = "none"])
      BY <1>2
    <2> HIDE DEF s
    <2>3. NodeEnds(F \union {"stop"}) /\ Agree(st', s, {"stop"}) /\ st'.stop = "none"
      <3> HIDE DEF F
      <3> QED
        BY <2>1, <2>2, StopEnds
    <2>4. st'.governance = st.governance
      BY <2>1, <2>3 DEF Agree, Fields
    <2>5. F \union {"stop"} = {"contract", "governance", "stop"}
      OBVIOUS
    <2> QED
      BY <2>3, <2>4, <2>5 DEF compile_contract, Untouched
  <1>3. CASE Finish([st EXCEPT !.stop = "plan_invalid", !.governance = snapshot])
    <2> DEFINE s == [st EXCEPT !.stop = "plan_invalid", !.governance = snapshot]
               F == {"contract", "governance", "stop"}
    <2>1. /\ HasFields(s) /\ Agree(s, st, F)
          /\ s.governance = snapshot /\ s.stop = "plan_invalid"
      BY <1>1 DEF HasFields, Fields, Agree
    <2>2. Finish(s)
      BY <1>3
    <2> HIDE DEF s
    <2>3. NodeEnds(F) /\ Agree(st', s, {})
      <3> HIDE DEF F
      <3> QED
        BY <2>1, <2>2, FinishEnds
    <2>4. st'.governance = snapshot /\ st'.stop = "plan_invalid"
      BY <2>1, <2>3 DEF Agree, Fields
    <2> QED
      BY <2>3, <2>4 DEF compile_contract, Untouched
  <1> QED
    BY <1>2, <1>3 DEF compile_contract

\* The refusals of the loop, as stop reasons.
LEMMA LoopStops ==
    /\ RouteRefusal # "none" => AfterWarning(RouteRefusal) \subseteq OtherStops \ {"none"}
    /\ \A type : ActionRefusal(type) # "none" =>
          AfterWarning(ActionRefusal(type)) \subseteq OtherStops \ {"none"}
    /\ ToolRefusal # "none" => AfterWarning(ToolRefusal) \subseteq PlainStops \ {"none"}
    /\ "execute_limit" \in AfterWarning(ToolRefusal) => ToolRefusal = "execute_limit"
  <1> USE DEF OtherStops, PlainStops, JudgedStops, StopReasons, BudgetStopReasons,
              SafeErrorReasons
  <1>1. RouteRefusal # "none" => AfterWarning(RouteRefusal) \subseteq OtherStops \ {"none"}
    BY DEF RouteRefusal, AfterWarning, UnlessRefused
  <1>2. \A type : ActionRefusal(type) # "none" =>
           AfterWarning(ActionRefusal(type)) \subseteq OtherStops \ {"none"}
    BY DEF ActionRefusal, LoopLimit, AfterWarning, UnlessRefused
  <1>3. ToolRefusal \in {"task_timeout", "tool_call_limit", "execute_limit",
                         "profile_limit", "none", "cost_soft_cap"}
    BY ToolLimits DEF ToolRefusal
  <1>4. ToolRefusal # "none" => AfterWarning(ToolRefusal) \subseteq PlainStops \ {"none"}
    BY <1>3 DEF AfterWarning, UnlessRefused
  <1>5. "execute_limit" \in AfterWarning(ToolRefusal) => ToolRefusal = "execute_limit"
    BY <1>3 DEF AfterWarning, UnlessRefused
  <1> QED
    BY <1>1, <1>2, <1>4, <1>5

LEMMA RouteActionEffect ==
    ASSUME GInv, route_action
    PROVE  \/ In("route_action", "start") /\ RouteRefusal = "none" /\ Ask("action")
           \/ /\ In("route_action", "start") /\ Untouched
              /\ NodeEnds({"next_action", "stop", "governance"})
              /\ st'.governance = snapshot
              /\ st'.stop \in OtherStops \ {"none"}
           \/ /\ Obtained("route_action") /\ Untouched
              /\ NodeEnds(RecordFields \union {"next_action", "action_loop_pending", "stop"})
              /\ Merges
              /\ st'.stop \in OtherStops
              /\ st'.stop = "none" =>
                    /\ st'.next_action \in {"execute", "profile"}
                    /\ st'.action_loop_pending <=> st'.next_action = "execute"
              /\ st'.stop # "none" =>
                    st'.action_loop_pending \in {st.action_loop_pending, FALSE}
  <1> DEFINE r == Recorded(st)
             F == RecordFields \union {"next_action", "action_loop_pending", "stop"}
  <1>1. /\ HasFields(st) /\ HasFields(r) /\ Agree(r, st, RecordFields)
        /\ r.model_call_traces = st.model_call_traces \o NewTraces
        /\ r.governance = snapshot
    BY GivenState, RecordedFields
  <1>2. r.action_loop_pending = st.action_loop_pending
    BY <1>1 DEF Agree, Fields, RecordFields
  <1>3. CASE /\ UNCHANGED <<vars, toolTraces>>
             /\ \E stop \in AfterWarning(RouteRefusal) :
                   Finish([st EXCEPT !.next_action = "none", !.stop = stop,
                                     !.governance = snapshot])
             /\ In("route_action", "start") /\ RouteRefusal # "none"
    <2>1. PICK stop \in AfterWarning(RouteRefusal) :
             Finish([st EXCEPT !.next_action = "none", !.stop = stop,
                               !.governance = snapshot])
      BY <1>3
    <2> DEFINE s == [st EXCEPT !.next_action = "none", !.stop = stop,
                               !.governance = snapshot]
               G == {"next_action", "stop", "governance"}
    <2>2. HasFields(s) /\ Agree(s, st, G) /\ s.stop = stop /\ s.governance = snapshot
      BY <1>1 DEF HasFields, Fields, Agree
    <2>3. Finish(s)
      BY <2>1
    <2> HIDE DEF s
    <2>4. NodeEnds(G) /\ Agree(st', s, {})
      <3> HIDE DEF G
      <3> QED
        BY <2>2, <2>3, FinishEnds
    <2>5. st'.stop = stop /\ st'.governance = snapshot
      BY <2>2, <2>4 DEF Agree, Fields
    <2>6. stop \in OtherStops \ {"none"}
      BY <1>3, <2>1, LoopStops
    <2> QED
      BY <1>3, <2>4, <2>5, <2>6 DEF Untouched
  <1> HIDE DEF r
  <1>4. ASSUME NEW action, NEW pending, NEW stop,
               Finish([r EXCEPT !.next_action = action, !.action_loop_pending = pending,
                                !.stop = stop])
        PROVE  /\ NodeEnds(F) /\ Merges
               /\ st'.next_action = action
               /\ st'.action_loop_pending = pending
               /\ st'.stop = stop
    <2> DEFINE s == [r EXCEPT !.next_action = action, !.action_loop_pending = pending,
                              !.stop = stop]
    <2>1. /\ HasFields(s) /\ Agree(s, r, {"next_action", "action_loop_pending", "stop"})
          /\ s.next_action = action /\ s.action_loop_pending = pending /\ s.stop = stop
      BY <1>1 DEF HasFields, Fields, Agree
    <2>2. Finish(s)
      BY <1>4
    <2> HIDE DEF s
    <2>3. Agree(s, st, F)
      BY <1>1, <2>1 DEF Agree
    <2>4. NodeEnds(F) /\ Agree(st', s, {})
      <3> HIDE DEF F
      <3> QED
        BY <2>1, <2>2, <2>3, FinishEnds
    <2>5. /\ st'.next_action = action /\ st'.action_loop_pending = pending
          /\ st'.stop = stop
          /\ st'.model_call_traces = r.model_call_traces
          /\ st'.governance = r.governance
      BY <2>1, <2>4 DEF Agree, Fields
    <2> QED
      BY <1>1, <2>4, <2>5 DEF Merges
  <1>5. CASE /\ Obtained("route_action")
             /\ UNCHANGED <<vars, toolTraces>>
             /\ \E type \in {"execute", "profile"} :
                   IF ActionRefusal(type) = "none"
                   THEN Finish([r EXCEPT !.next_action = type,
                                         !.action_loop_pending = type = "execute",
                                         !.stop = "none"])
                   ELSE \E stop \in AfterWarning(ActionRefusal(type)) :
                           Finish([r EXCEPT !.next_action = "none",
                                            !.action_loop_pending = FALSE,
                                            !.stop = stop])
    <2>1. "none" \in OtherStops
      BY DEF OtherStops, PlainStops, JudgedStops
    <2>2. PICK type \in {"execute", "profile"} :
             IF ActionRefusal(type) = "none"
             THEN Finish([r EXCEPT !.next_action = type,
                                   !.action_loop_pending = type = "execute",
                                   !.stop = "none"])
             ELSE \E stop \in AfterWarning(ActionRefusal(type)) :
                     Finish([r EXCEPT !.next_action = "none",
                                      !.action_loop_pending = FALSE,
                                      !.stop = stop])
      BY <1>5
    <2>3. CASE ActionRefusal(type) = "none"
      <3>1. /\ NodeEnds(F) /\ Merges
            /\ st'.next_action = type
            /\ st'.action_loop_pending = (type = "execute")
            /\ st'.stop = "none"
        BY <1>4, <2>2, <2>3
      <3> QED
        BY <1>5, <2>1, <3>1 DEF Untouched
    <2>4. CASE ActionRefusal(type) # "none"
      <3>1. PICK stop \in AfterWarning(ActionRefusal(type)) :
               Finish([r EXCEPT !.next_action = "none",
                                !.action_loop_pending = FALSE,
                                !.stop = stop])
        BY <2>2, <2>4
      <3>2. stop \in OtherStops \ {"none"}
        BY <2>4, <3>1, LoopStops
      <3>3. /\ NodeEnds(F) /\ Merges
            /\ st'.action_loop_pending = FALSE
            /\ st'.stop = stop
        BY <1>4, <3>1
      <3> QED
        BY <1>5, <3>2, <3>3 DEF Untouched
    <2> QED
      BY <2>3, <2>4
  <1>6. CASE /\ Obtained("route_action")
             /\ UNCHANGED <<vars, toolTraces>>
             /\ Finish([r EXCEPT !.next_action = "none", !.stop = "plan_invalid"])
    <2> DEFINE s == [r EXCEPT !.next_action = "none"]
    <2>1. HasFields(s) /\ Agree(s, r, {"next_action"})
      BY <1>1 DEF HasFields, Fields, Agree
    <2>2. Finish([s EXCEPT !.stop = "plan_invalid"])
      BY <1>6
    <2> HIDE DEF s
    <2> DEFINE G == RecordFields \union {"next_action", "action_loop_pending"}
    <2>3. Agree(s, st, G)
      BY <1>1, <2>1 DEF Agree
    <2>4. /\ NodeEnds(G \union {"stop"}) /\ Agree(st', s, {"stop"})
          /\ st'.stop = "plan_invalid"
      <3> HIDE DEF G
      <3> QED
        BY <2>1, <2>2, <2>3, StopEnds
    <2>5. /\ st'.action_loop_pending = st.action_loop_pending
          /\ st'.model_call_traces = r.model_call_traces
          /\ st'.governance = r.governance
      BY <1>2, <2>1, <2>4 DEF Agree, Fields
    <2>6. "plan_invalid" \in OtherStops
      BY DEF OtherStops, PlainStops, JudgedStops, StopReasons, SafeErrorReasons
    <2>7. G \union {"stop"} = F
      OBVIOUS
    <2> QED
      BY <1>1, <1>6, <2>4, <2>5, <2>6, <2>7 DEF Untouched, Merges
  <1>7. CASE In("route_action", "start") /\ RouteRefusal = "none" /\ Ask("action")
    BY <1>7
  <1> QED
    BY <1>3, <1>5, <1>6, <1>7 DEF route_action, r

LEMMA UnloopedFields ==
    ASSUME NEW s, HasFields(s)
    PROVE  /\ HasFields(Unlooped(s))
           /\ Agree(Unlooped(s), s, {"action_loop_pending", "governance"})
           /\ Unlooped(s).action_loop_pending = FALSE
           /\ Unlooped(s).governance = snapshot'
  <1> DEFINE g == snapshot'
  <1>1. Unlooped(s) = [s EXCEPT !.action_loop_pending = FALSE, !.governance = g]
    BY DEF Unlooped
  <1> HIDE DEF g
  <1>2. /\ HasFields(Unlooped(s))
        /\ Agree(Unlooped(s), s, {"action_loop_pending", "governance"})
        /\ Unlooped(s).action_loop_pending = FALSE
        /\ Unlooped(s).governance = g
    BY <1>1 DEF HasFields, Fields, Agree
  <1> QED
    BY <1>2 DEF g

\* A node ends the pending round, if there is one, and stops.
LEMMA UnloopedEnds ==
    ASSUME NEW s, HasFields(s), NEW F, Agree(s, st, F), NEW stop,
           Finish([Unlooped(s) EXCEPT !.stop = stop])
    PROVE  /\ NodeEnds(F \union {"action_loop_pending", "governance", "stop"})
           /\ Agree(st', s, {"action_loop_pending", "governance", "stop"})
           /\ st'.action_loop_pending = FALSE
           /\ st'.governance = snapshot'
           /\ st'.stop = stop
  <1> DEFINE u == Unlooped(s)
             L == {"action_loop_pending", "governance"}
             G == F \union L
  <1>1. /\ HasFields(u) /\ Agree(u, s, L)
        /\ u.action_loop_pending = FALSE /\ u.governance = snapshot'
    BY UnloopedFields
  <1>2. Finish([u EXCEPT !.stop = stop])
    OBVIOUS
  <1> HIDE DEF u
  <1>3. Agree(u, st, G)
    BY <1>1 DEF Agree
  <1>4. NodeEnds(G \union {"stop"}) /\ Agree(st', u, {"stop"}) /\ st'.stop = stop
    <2> HIDE DEF G
    <2> QED
      BY <1>1, <1>2, <1>3, StopEnds
  <1>5. st'.action_loop_pending = FALSE /\ st'.governance = snapshot'
    BY <1>1, <1>4 DEF Agree, Fields
  <1>6. G \union {"stop"} = F \union {"action_loop_pending", "governance", "stop"}
    OBVIOUS
  <1>7. Agree(st', s, {"action_loop_pending", "governance", "stop"})
    BY <1>1, <1>4 DEF Agree
  <1> QED
    BY <1>4, <1>5, <1>6, <1>7

ObservedFields == {"observations", "observation", "tool_call_traces", "governance"}

LEMMA ObservedHasFields ==
    ASSUME NEW s, HasFields(s), NEW r
    PROVE  /\ HasFields(Observed(s, r))
           /\ Agree(Observed(s, r), s, ObservedFields)
           /\ Observed(s, r).observations = s.observations + 1
           /\ Observed(s, r).observation = r
           /\ Observed(s, r).tool_call_traces = s.tool_call_traces + 1
           /\ Observed(s, r).governance = snapshot
  <1> DEFINE m == s.observations + 1
             k == s.tool_call_traces + 1
  <1>1. Observed(s, r) = [s EXCEPT !.observations = m, !.observation = r,
                                   !.tool_call_traces = k, !.governance = snapshot]
    BY DEF Observed, HasFields, Fields
  <1> HIDE DEF m, k
  <1>2. /\ HasFields(Observed(s, r))
        /\ Agree(Observed(s, r), s, ObservedFields)
        /\ Observed(s, r).observations = m
        /\ Observed(s, r).observation = r
        /\ Observed(s, r).tool_call_traces = k
        /\ Observed(s, r).governance = snapshot
    BY <1>1 DEF HasFields, Fields, Agree, ObservedFields
  <1> QED
    BY <1>2 DEF m, k

\* What several nodes do at their end: they count the pending round, if any.
Rounds ==
    /\ ConsumePendingLoop
    /\ st'.action_loop_pending = FALSE
    /\ st'.governance = snapshot'

LEMMA InvokeToolEffect ==
    ASSUME GInv, invoke_tool
    PROVE  \/ /\ In("invoke_tool", "start") /\ ToolRefusal = "none"
              /\ consume_tool(ActionType(st.next_action))
              /\ Moves("tool")
              /\ UNCHANGED <<expired, invokerVars, toolTraces>>
           \/ /\ In("invoke_tool", "start") /\ Untouched
              /\ NodeEnds({"action_loop_pending", "governance", "stop"})
              /\ st'.action_loop_pending = FALSE
              /\ st'.governance = snapshot
              /\ st'.stop \in PlainStops \ {"none"}
              /\ st'.stop = "execute_limit" => ToolRefusal = "execute_limit"
           \/ /\ In("invoke_tool", "tool") /\ UNCHANGED toolTraces
              /\ Rounds
              /\ NodeEnds({"action_loop_pending", "governance", "stop"})
              /\ st'.stop = "internal_error"
           \/ /\ In("invoke_tool", "tool") /\ UNCHANGED vars
              /\ toolTraces' = toolTraces + 1
              /\ NodeEnds(ObservedFields \union {"stop"})
              /\ st'.observations = st.observations + 1
              /\ st'.tool_call_traces = st.tool_call_traces + 1
              /\ st'.governance = snapshot
              /\ st'.stop = "none"
           \/ /\ In("invoke_tool", "tool")
              /\ toolTraces' = toolTraces + 1
              /\ Rounds
              /\ NodeEnds(ObservedFields \union {"action_loop_pending", "governance", "stop"})
              /\ st'.tool_call_traces = st.tool_call_traces + 1
              /\ st'.stop = "internal_error"
  <1>1. HasFields(st) /\ Agree(st, st, {})
    BY GivenState
  <1>2. ASSUME In("invoke_tool", "start"),
               ToolRefusal = "none",
               consume_tool(ActionType(st.next_action)),
               Goto("tool"),
               UNCHANGED <<expired, invokerVars, toolTraces>>
        PROVE  Moves("tool")
    BY <1>2 DEF Goto, Moves
  <1>3. CASE /\ In("invoke_tool", "start")
             /\ ToolRefusal # "none"
             /\ \E stop \in AfterWarning(ToolRefusal) :
                   Finish([st EXCEPT !.stop = stop, !.action_loop_pending = FALSE,
                                     !.governance = snapshot])
             /\ UNCHANGED <<vars, toolTraces>>
    <2>1. PICK stop \in AfterWarning(ToolRefusal) :
             Finish([st EXCEPT !.stop = stop, !.action_loop_pending = FALSE,
                               !.governance = snapshot])
      BY <1>3
    <2> DEFINE s == [st EXCEPT !.stop = stop, !.action_loop_pending = FALSE,
                               !.governance = snapshot]
               G == {"action_loop_pending", "governance", "stop"}
    <2>2. /\ HasFields(s) /\ Agree(s, st, G)
          /\ s.stop = stop /\ s.governance = snapshot /\ s.action_loop_pending = FALSE
      BY <1>1 DEF HasFields, Fields, Agree
    <2>3. Finish(s)
      BY <2>1
    <2> HIDE DEF s
    <2>4. NodeEnds(G) /\ Agree(st', s, {})
      <3> HIDE DEF G
      <3> QED
        BY <2>2, <2>3, FinishEnds
    <2>5. st'.stop = stop /\ st'.governance = snapshot /\ st'.action_loop_pending = FALSE
      BY <2>2, <2>4 DEF Agree, Fields
    <2>6. stop \in PlainStops \ {"none"} /\ (stop = "execute_limit" => ToolRefusal = "execute_limit")
      BY <1>3, <2>1, LoopStops
    <2> QED
      BY <1>3, <2>4, <2>5, <2>6 DEF Untouched
  <1>4. CASE /\ In("invoke_tool", "tool")
             /\ ConsumePendingLoop
             /\ Finish([Unlooped(st) EXCEPT !.stop = "internal_error"])
             /\ UNCHANGED toolTraces
    <2>1. /\ NodeEnds({} \union {"action_loop_pending", "governance", "stop"})
          /\ st'.action_loop_pending = FALSE
          /\ st'.governance = snapshot'
          /\ st'.stop = "internal_error"
      BY <1>1, <1>4, UnloopedEnds
    <2>2. {} \union {"action_loop_pending", "governance", "stop"}
            = {"action_loop_pending", "governance", "stop"}
      OBVIOUS
    <2> QED
      BY <1>4, <2>1, <2>2 DEF Rounds
  <1>5. ASSUME NEW r
        PROVE  /\ HasFields(Observed(st, r))
               /\ Agree(Observed(st, r), st, ObservedFields)
               /\ Observed(st, r).observations = st.observations + 1
               /\ Observed(st, r).tool_call_traces = st.tool_call_traces + 1
               /\ Observed(st, r).governance = snapshot
    BY <1>1, ObservedHasFields
  <1>6. CASE /\ In("invoke_tool", "tool")
             /\ \E r \in ToolResults : Finish([Observed(st, r) EXCEPT !.stop = "none"])
             /\ toolTraces' = toolTraces + 1
             /\ UNCHANGED vars
    <2>1. PICK r \in ToolResults : Finish([Observed(st, r) EXCEPT !.stop = "none"])
      BY <1>6
    <2>2. /\ NodeEnds(ObservedFields \union {"stop"})
          /\ Agree(st', Observed(st, r), {"stop"})
          /\ st'.stop = "none"
      BY <1>5, <2>1, StopEnds
    <2>3. /\ st'.observations = Observed(st, r).observations
          /\ st'.tool_call_traces = Observed(st, r).tool_call_traces
          /\ st'.governance = Observed(st, r).governance
      BY <2>2 DEF Agree, Fields
    <2> QED
      BY <1>5, <1>6, <2>2, <2>3
  <1>7. CASE /\ In("invoke_tool", "tool")
             /\ ConsumePendingLoop
             /\ \E r \in ToolResults :
                   Finish([Unlooped(Observed(st, r)) EXCEPT !.stop = "internal_error"])
             /\ toolTraces' = toolTraces + 1
    <2>1. PICK r \in ToolResults :
             Finish([Unlooped(Observed(st, r)) EXCEPT !.stop = "internal_error"])
      BY <1>7
    <2>2. /\ NodeEnds(ObservedFields \union {"action_loop_pending", "governance", "stop"})
          /\ Agree(st', Observed(st, r), {"action_loop_pending", "governance", "stop"})
          /\ st'.action_loop_pending = FALSE
          /\ st'.governance = snapshot'
          /\ st'.stop = "internal_error"
      BY <1>5, <2>1, UnloopedEnds
    <2>3. st'.tool_call_traces = Observed(st, r).tool_call_traces
      BY <2>2 DEF Agree, Fields
    <2> QED
      BY <1>5, <1>7, <2>2, <2>3 DEF Rounds
  <1> QED
    BY <1>2, <1>3, <1>4, <1>6, <1>7 DEF invoke_tool

LEMMA ValidateProfileEffect ==
    ASSUME GInv, validate_profile
    PROVE  /\ In("validate_profile", "start") /\ Untouched
           /\ NodeEnds({"next_action", "stop"})
           /\ st'.stop \in OtherStops
  <1> DEFINE s == [st EXCEPT !.next_action = "none"]
             stop == IF st.observation = "profiled" THEN "none" ELSE st.observation
  <1>1. HasFields(st)
    BY GivenState
  <1>2. HasFields(s) /\ Agree(s, st, {"next_action"})
    BY <1>1 DEF HasFields, Fields, Agree
  <1>3. Finish([s EXCEPT !.stop = stop])
    BY DEF validate_profile
  <1>4. stop \in OtherStops
    BY DEF validate_profile, In, GInv, ObservationFits, Fits, OtherStops, PlainStops,
           JudgedStops, StopReasons, SafeErrorReasons
  <1> HIDE DEF s, stop
  <1>5. NodeEnds({"next_action"} \union {"stop"}) /\ st'.stop = stop
    BY <1>2, <1>3, StopEnds
  <1>6. {"next_action"} \union {"stop"} = {"next_action", "stop"}
    OBVIOUS
  <1> QED
    BY <1>4, <1>5, <1>6 DEF validate_profile, Untouched

ValidatedFields == {"validated", "verdict"}

LEMMA ValidatedHasFields ==
    ASSUME NEW s, HasFields(s)
    PROVE  /\ HasFields(Validated(s))
           /\ Agree(Validated(s), s, ValidatedFields)
           /\ Validated(s).validated = s.observations
           /\ Validated(s).verdict = Verdict
  <1> DEFINE m == s.observations
             v == Verdict
  <1>1. Validated(s) = [s EXCEPT !.validated = m, !.verdict = v]
    BY DEF Validated
  <1> HIDE DEF m, v
  <1>2. /\ HasFields(Validated(s))
        /\ Agree(Validated(s), s, ValidatedFields)
        /\ Validated(s).validated = m
        /\ Validated(s).verdict = v
    BY <1>1 DEF HasFields, Fields, Agree, ValidatedFields
  <1> QED
    BY <1>2 DEF m, v

LEMMA ResultRepairHasFields ==
    ASSUME NEW s, HasFields(s), NEW outcome
    PROVE  /\ HasFields(ResultRepair(s, outcome))
           /\ Agree(ResultRepair(s, outcome), s, {"repair_history"})
  <1> DEFINE history == Append(s.repair_history,
                               [kind |-> "result_contract", outcome |-> outcome])
  <1>1. ResultRepair(s, outcome) = [s EXCEPT !.repair_history = history]
    BY DEF ResultRepair, HasFields, Fields
  <1> HIDE DEF history
  <1> QED
    BY <1>1 DEF HasFields, Fields, Agree

LEMMA ValidateObservationEffect ==
    ASSUME GInv, validate_observation
    PROVE  /\ In("validate_observation", "start") /\ UNCHANGED toolTraces
           /\ \/ /\ Rounds
                 /\ NodeEnds({"action_loop_pending", "governance", "stop"})
                 /\ st'.stop \in OtherStops \ {"none"}
              \/ /\ Rounds
                 /\ NodeEnds(ValidatedFields \union {"action_loop_pending", "governance", "stop"})
                 /\ st'.validated = st.observations
                 /\ st'.verdict # "valid"
                 /\ st'.stop \in OtherStops
              \/ /\ UNCHANGED vars
                 /\ NodeEnds(ValidatedFields \union {"repair_history", "stop"})
                 /\ st'.stop \in OtherStops
                 /\ st'.stop = "none" => st'.verdict = "valid"
                 /\ st'.stop # "none" => ~st.action_loop_pending
  <1>1. HasFields(st) /\ Agree(st, st, {})
    BY GivenState
  <1>2. {"internal_error", "cost_soft_cap", "repair_failed", "result_truncated",
         "answer_contract_unmet", "none"}
           \union SafeErrorReasons \subseteq OtherStops
    BY DEF OtherStops, PlainStops, JudgedStops, StopReasons, BudgetStopReasons,
           SafeErrorReasons
  <1>3. ASSUME NEW stop \in {"internal_error"} \union SafeErrorReasons, ConsumePendingLoop,
               Finish([Unlooped(st) EXCEPT !.stop = stop])
        PROVE  /\ Rounds
               /\ NodeEnds({"action_loop_pending", "governance", "stop"})
               /\ st'.stop \in OtherStops \ {"none"}
    <2>1. /\ NodeEnds({} \union {"action_loop_pending", "governance", "stop"})
          /\ st'.action_loop_pending = FALSE
          /\ st'.governance = snapshot'
          /\ st'.stop = stop
      BY <1>1, <1>3, UnloopedEnds
    <2>2. {} \union {"action_loop_pending", "governance", "stop"}
            = {"action_loop_pending", "governance", "stop"}
      OBVIOUS
    <2>3. stop # "none"
      BY DEF SafeErrorReasons
    <2> QED
      BY <1>2, <1>3, <2>1, <2>2, <2>3 DEF Rounds
  <1>4. CASE ValidationUnannounced /\ UNCHANGED toolTraces
    BY <1>3, <1>4 DEF ValidationUnannounced, validate_observation
  <1>5. CASE /\ st.observation \notin QueryResults
             /\ ConsumePendingLoop
             /\ Finish([Unlooped(st) EXCEPT !.stop = st.observation])
             /\ UNCHANGED toolTraces
    <2>1. st.observation \in SafeErrorReasons
      BY <1>5 DEF validate_observation, In, GInv, ObservationFits, Fits
    <2> QED
      BY <1>3, <1>5, <2>1 DEF validate_observation
  <1>6. /\ HasFields(Validated(st))
        /\ Agree(Validated(st), st, ValidatedFields)
        /\ Validated(st).validated = st.observations
        /\ Validated(st).verdict = Verdict
    BY <1>1, ValidatedHasFields
  <1>7. CASE /\ Verdict = "valid"
             /\ Finish([Validated(st) EXCEPT !.stop = "none"])
             /\ UNCHANGED vars
             /\ UNCHANGED toolTraces
    <2>1. /\ NodeEnds(ValidatedFields \union {"stop"})
          /\ Agree(st', Validated(st), {"stop"})
          /\ st'.stop = "none"
      BY <1>6, <1>7, StopEnds
    <2>2. st'.verdict = "valid"
      BY <1>6, <1>7, <2>1 DEF Agree, Fields
    <2>3. NodeEnds(ValidatedFields \union {"repair_history", "stop"})
      BY <2>1 DEF NodeEnds, Agree
    <2> QED
      BY <1>2, <1>7, <2>1, <2>2, <2>3 DEF validate_observation
  <1>8. CASE /\ Verdict # "valid"
             /\ ConsumePendingLoop
             /\ LET s == Unlooped(Validated(st))
                IN  \E stop \in
                       IF snapshot'.soft_cap_reached THEN UnlessRefused("cost_soft_cap")
                       ELSE IF RepairAllowed(s, snapshot') THEN {"none"}
                       ELSE {RepairDenied(s)} :
                          Finish([s EXCEPT !.stop = stop])
             /\ UNCHANGED toolTraces
    <2>1. PICK stop \in {"cost_soft_cap", "internal_error", "none",
                         "repair_failed", "result_truncated", "answer_contract_unmet"} :
             Finish([Unlooped(Validated(st)) EXCEPT !.stop = stop])
      BY <1>8 DEF UnlessRefused, RepairDenied
    <2>2. /\ NodeEnds(ValidatedFields \union {"action_loop_pending", "governance", "stop"})
          /\ Agree(st', Validated(st), {"action_loop_pending", "governance", "stop"})
          /\ st'.action_loop_pending = FALSE
          /\ st'.governance = snapshot'
          /\ st'.stop = stop
      BY <1>6, <2>1, UnloopedEnds
    <2>3. st'.validated = st.observations /\ st'.verdict = Verdict
      BY <1>6, <2>2 DEF Agree, Fields
    <2> QED
      BY <1>2, <1>8, <2>1, <2>2, <2>3 DEF Rounds, validate_observation
  <1>9. ASSUME NEW outcome, NEW stop,
               Finish([ResultRepair(Validated(st), outcome) EXCEPT !.stop = stop])
        PROVE  /\ NodeEnds(ValidatedFields \union {"repair_history", "stop"})
               /\ st'.stop = stop
               /\ st'.verdict = Verdict
    <2> DEFINE s == ResultRepair(Validated(st), outcome)
               F == ValidatedFields \union {"repair_history"}
    <2>1. HasFields(s) /\ Agree(s, Validated(st), {"repair_history"})
      BY <1>6, ResultRepairHasFields
    <2>2. Finish([s EXCEPT !.stop = stop])
      BY <1>9
    <2> HIDE DEF s
    <2>3. Agree(s, st, F)
      BY <1>6, <2>1 DEF Agree
    <2>4. NodeEnds(F \union {"stop"}) /\ Agree(st', s, {"stop"}) /\ st'.stop = stop
      <3> HIDE DEF F
      <3> QED
        BY <2>1, <2>2, <2>3, StopEnds
    <2>5. st'.verdict = Verdict
      BY <1>6, <2>1, <2>4 DEF Agree, Fields
    <2>6. F \union {"stop"} = ValidatedFields \union {"repair_history", "stop"}
      OBVIOUS
    <2> QED
      BY <2>4, <2>5, <2>6
  <1>10. CASE /\ IF Verdict = "valid"
                 THEN Finish([ResultRepair(Validated(st), "success") EXCEPT !.stop = "none"])
                 ELSE Finish([ResultRepair(Validated(st), "failed") EXCEPT
                                !.stop = "repair_failed"])
              /\ PendingResultRepair(st)
              /\ UNCHANGED vars
              /\ UNCHANGED toolTraces
    <2>0. ~st.action_loop_pending
      BY <1>10 DEF PendingResultRepair
    <2>1. CASE Verdict = "valid"
      <3>1. /\ NodeEnds(ValidatedFields \union {"repair_history", "stop"})
            /\ st'.stop = "none" /\ st'.verdict = "valid"
        BY <1>9, <1>10, <2>1
      <3> QED
        BY <1>2, <1>10, <3>1 DEF validate_observation
    <2>2. CASE Verdict # "valid"
      <3>1. /\ NodeEnds(ValidatedFields \union {"repair_history", "stop"})
            /\ st'.stop = "repair_failed"
        BY <1>9, <1>10, <2>2
      <3> QED
        BY <1>2, <1>10, <2>0, <3>1 DEF validate_observation
    <2> QED
      BY <2>1, <2>2
  <1> QED
    BY <1>4, <1>5, <1>7, <1>8, <1>10 DEF validate_observation

LEMMA JudgeEvidenceEffect ==
    ASSUME GInv, judge_evidence
    PROVE  /\ In("judge_evidence", "start") /\ UNCHANGED toolTraces
           /\ Rounds
           /\ NodeEnds({"action_loop_pending", "governance", "evidence", "refuted",
                    "next_action", "stop"})
           /\ \/ st'.stop \in {"internal_error", "answer_contract_unmet"}
              \/ st'.stop = IF PremiseNotMet(st') THEN "premise_not_met"
                            ELSE IF Complete(st') THEN "answer_complete" ELSE "none"
  <1> DEFINE u == Unlooped(st)
             m == u.evidence + 1
             b == u.refuted \/ st.observation = "refuting"
             judged == [u EXCEPT !.evidence = m, !.refuted = b, !.next_action = "none"]
             L == {"action_loop_pending", "governance"}
             F == {"action_loop_pending", "governance", "evidence", "refuted", "next_action"}
             G == {"action_loop_pending", "governance", "evidence", "refuted",
                   "next_action", "stop"}
  <1>1. HasFields(st) /\ Agree(st, st, {})
    BY GivenState
  <1>2. /\ HasFields(u) /\ Agree(u, st, L)
        /\ u.action_loop_pending = FALSE /\ u.governance = snapshot'
    BY <1>1, UnloopedFields
  <1>3. \E stop :
           \/ /\ stop \in {"internal_error", "answer_contract_unmet"}
              /\ Finish([u EXCEPT !.stop = stop])
           \/ /\ \/ stop = "internal_error"
                 \/ stop = IF PremiseNotMet(judged) THEN "premise_not_met"
                           ELSE IF Complete(judged) THEN "answer_complete" ELSE "none"
              /\ Finish([judged EXCEPT !.stop = stop])
    <2>1. judged = [u EXCEPT !.evidence = @ + 1,
                             !.refuted = @ \/ st.observation = "refuting",
                             !.next_action = "none"]
      BY <1>2 DEF HasFields, Fields
    <2> HIDE DEF judged
    <2> QED
      BY <2>1 DEF judge_evidence
  <1>4. PICK stop :
           \/ /\ stop \in {"internal_error", "answer_contract_unmet"}
              /\ Finish([u EXCEPT !.stop = stop])
           \/ /\ \/ stop = "internal_error"
                 \/ stop = IF PremiseNotMet(judged) THEN "premise_not_met"
                           ELSE IF Complete(judged) THEN "answer_complete" ELSE "none"
              /\ Finish([judged EXCEPT !.stop = stop])
    BY <1>3
  <1> HIDE DEF u, m, b
  <1>5. /\ HasFields(judged)
        /\ Agree(judged, u, {"evidence", "refuted", "next_action"})
    BY <1>2 DEF HasFields, Fields, Agree
  <1> HIDE DEF judged
  <1>6. Agree(judged, st, F) /\ Agree(u, st, F)
    BY <1>2, <1>5 DEF Agree
  <1>7. /\ judged.action_loop_pending = FALSE /\ judged.governance = snapshot'
    BY <1>2, <1>5 DEF Agree, Fields
  <1>8. ASSUME NEW s \in {u, judged}, Finish([s EXCEPT !.stop = stop])
        PROVE  /\ NodeEnds(G) /\ Agree(st', s, {"stop"})
               /\ st'.stop = stop
               /\ st'.action_loop_pending = FALSE
               /\ st'.governance = snapshot'
    <2>1. HasFields(s) /\ Agree(s, st, F)
      BY <1>2, <1>5, <1>6
    <2>2. NodeEnds(F \union {"stop"}) /\ Agree(st', s, {"stop"}) /\ st'.stop = stop
      <3> HIDE DEF F
      <3> QED
        BY <1>8, <2>1, StopEnds
    <2>3. F \union {"stop"} = G
      OBVIOUS
    <2>4. st'.action_loop_pending = FALSE /\ st'.governance = snapshot'
      BY <1>2, <1>7, <2>2 DEF Agree, Fields
    <2> HIDE DEF F, G
    <2> QED
      BY <2>2, <2>3, <2>4
  <1>9. /\ In("judge_evidence", "start") /\ UNCHANGED toolTraces
        /\ ConsumePendingLoop
    BY DEF judge_evidence
  <1>10. CASE /\ stop \in {"internal_error", "answer_contract_unmet"}
              /\ Finish([u EXCEPT !.stop = stop])
    BY <1>8, <1>9, <1>10 DEF Rounds
  <1>11. CASE /\ \/ stop = "internal_error"
                 \/ stop = IF PremiseNotMet(judged) THEN "premise_not_met"
                           ELSE IF Complete(judged) THEN "answer_complete" ELSE "none"
              /\ Finish([judged EXCEPT !.stop = stop])
    <2>1. /\ NodeEnds(G) /\ Agree(st', judged, {"stop"})
          /\ st'.stop = stop
          /\ st'.action_loop_pending = FALSE
          /\ st'.governance = snapshot'
      BY <1>8, <1>11
    <2>2. /\ st'.plan = judged.plan
          /\ st'.evidence = judged.evidence
          /\ st'.refuted = judged.refuted
      BY <2>1 DEF Agree, Fields
    <2>3. /\ PremiseNotMet(st') <=> PremiseNotMet(judged)
          /\ Complete(st') <=> Complete(judged)
      BY <2>2 DEF PremiseNotMet, Complete
    <2> HIDE DEF G
    <2>4. \/ st'.stop \in {"internal_error", "answer_contract_unmet"}
          \/ st'.stop = IF PremiseNotMet(st') THEN "premise_not_met"
                        ELSE IF Complete(st') THEN "answer_complete" ELSE "none"
      BY <1>11, <2>1, <2>3
    <2> QED
      BY <1>9, <2>1, <2>4 DEF Rounds, G
  <1> QED
    BY <1>4, <1>10, <1>11

LEMMA ReplanEffect ==
    ASSUME GInv, replan
    PROVE  /\ In("replan", "start") /\ Untouched
           /\ NodeEnds({"next_action", "stop"})
           /\ st'.stop \in OtherStops
  <1> DEFINE s == [st EXCEPT !.next_action = "none"]
  <1>1. HasFields(st)
    BY GivenState
  <1>2. HasFields(s) /\ Agree(s, st, {"next_action"})
    BY <1>1 DEF HasFields, Fields, Agree
  <1>3. PICK stop \in {"answer_contract_unmet", "cost_soft_cap", "internal_error", "none"} :
           Finish([s EXCEPT !.stop = stop])
    BY DEF replan, UnlessRefused
  <1>4. stop \in OtherStops
    BY DEF OtherStops, PlainStops, JudgedStops, StopReasons, BudgetStopReasons,
           SafeErrorReasons
  <1> HIDE DEF s
  <1>5. NodeEnds({"next_action"} \union {"stop"}) /\ st'.stop = stop
    BY <1>2, <1>3, StopEnds
  <1>6. {"next_action"} \union {"stop"} = {"next_action", "stop"}
    OBVIOUS
  <1> QED
    BY <1>4, <1>5, <1>6 DEF replan, Untouched

\* A repair that fails gives its reason, or that the failure could not be announced.
LEMMA RepairFailsEnds ==
    ASSUME NEW s, HasFields(s), NEW F, Agree(s, st, F), "repair_history" \in F,
           NEW reason, RepairFails(s, reason)
    PROVE  /\ NodeEnds(F \union {"stop"})
           /\ Agree(st', s, {"repair_history", "stop"})
           /\ st'.stop \in {reason, "internal_error"}
  <1>1. CASE Finish([ResultRepair(s, "failed") EXCEPT !.stop = reason])
    <2>1. /\ HasFields(ResultRepair(s, "failed"))
          /\ Agree(ResultRepair(s, "failed"), s, {"repair_history"})
      BY ResultRepairHasFields
    <2>2. Agree(ResultRepair(s, "failed"), st, F)
      BY <2>1 DEF Agree
    <2>3. /\ NodeEnds(F \union {"stop"})
          /\ Agree(st', ResultRepair(s, "failed"), {"stop"})
          /\ st'.stop = reason
      BY <1>1, <2>1, <2>2, StopEnds
    <2> QED
      BY <2>1, <2>3 DEF Agree
  <1>2. CASE Finish([s EXCEPT !.stop = "internal_error"])
    <2>1. /\ NodeEnds(F \union {"stop"})
          /\ Agree(st', s, {"stop"})
          /\ st'.stop = "internal_error"
      BY <1>2, StopEnds
    <2> QED
      BY <2>1 DEF Agree
  <1> QED
    BY <1>1, <1>2 DEF RepairFails

LEMMA RepairEffect ==
    ASSUME GInv, repair
    PROVE  \/ /\ In("repair", "start") /\ RepairRefusal = "none"
              /\ consume_repair(FALSE)
              /\ Moves("started")
              /\ UNCHANGED <<expired, invokerVars, toolTraces>>
           \/ /\ phase = "idle" /\ node = "repair" /\ at \in {"start", "started"} /\ Untouched
              /\ NodeEnds({"stop", "governance"})
              /\ st'.governance = snapshot
              /\ st'.stop \in OtherStops \ {"none"}
           \/ In("repair", "started") /\ Ask("repair")
           \/ /\ phase = "idle" /\ node = "repair" /\ at \in {"asked", "tool"} /\ Untouched
              /\ NodeEnds(RecordFields \union {"stop"})
              /\ Merges
              /\ st'.stop \in PlainStops \ {"none"}
              /\ st'.stop = "execute_limit" =>
                    at = "asked" /\ ToolLimit("execute_sql") = "execute_limit"
           \/ /\ In("repair", "asked") /\ ToolLimit("execute_sql") = "none"
              /\ consume_tool("execute_sql")
              /\ Moves("tool")
              /\ UNCHANGED <<expired, invokerVars, toolTraces>>
           \/ /\ In("repair", "tool") /\ UNCHANGED vars
              /\ toolTraces' = toolTraces + 1
              /\ NodeEnds(RecordFields \union ObservedFields \union {"stop"})
              /\ Merges
              /\ st'.tool_call_traces = st.tool_call_traces + 1
              /\ st'.observations = st.observations + 1
              /\ st'.stop \in OtherStops
              /\ st'.stop = "none" => HistoryKept
  <1>1. HasFields(st) /\ Agree(st, st, {})
    BY GivenState
  <1>2. {"internal_error", "repair_failed", "task_timeout", "tool_call_limit",
         "profile_limit", "cost_soft_cap"} \union SafeErrorReasons \subseteq OtherStops \ {"none"}
    BY DEF OtherStops, PlainStops, JudgedStops, StopReasons, BudgetStopReasons,
           SafeErrorReasons
  <1>3. {"none"} \subseteq OtherStops /\ OtherStops \subseteq PlainStops
        /\ "execute_limit" \in PlainStops \ {"none"}
    BY DEF OtherStops, PlainStops, JudgedStops, StopReasons, BudgetStopReasons
  <1>4. ASSUME NEW stop \in {"internal_error", "repair_failed", "task_timeout",
                             "cost_soft_cap"},
               Finish([st EXCEPT !.stop = stop, !.governance = snapshot])
        PROVE  /\ NodeEnds({"stop", "governance"})
               /\ st'.governance = snapshot
               /\ st'.stop = stop
    <2> DEFINE s == [st EXCEPT !.stop = stop, !.governance = snapshot]
               G == {"stop", "governance"}
    <2>1. /\ HasFields(s) /\ Agree(s, st, G) /\ s.stop = stop /\ s.governance = snapshot
      BY <1>1 DEF HasFields, Fields, Agree
    <2>2. Finish(s)
      BY <1>4
    <2> HIDE DEF s
    <2>3. NodeEnds(G) /\ Agree(st', s, {})
      <3> HIDE DEF G
      <3> QED
        BY <2>1, <2>2, FinishEnds
    <2> QED
      BY <2>1, <2>3 DEF Agree, Fields
  <1>5. RepairRefusal \in {"none", "cost_soft_cap", "task_timeout", "repair_failed"}
    BY DEF RepairRefusal, RepairLimit
  <1> DEFINE r == Recorded(st)
  <1>6. /\ HasFields(r) /\ Agree(r, st, RecordFields)
        /\ r.model_call_traces = st.model_call_traces \o NewTraces
        /\ r.governance = snapshot
        /\ record = "none" => r.repair_history = st.repair_history
    BY <1>1, RecordedFields DEF Agree
  <1>7. ASSUME NEW reason, RepairFails(r, reason)
        PROVE  /\ NodeEnds(RecordFields \union {"stop"})
               /\ Merges
               /\ st'.stop \in {reason, "internal_error"}
    <2> HIDE DEF r
    <2>1. /\ NodeEnds(RecordFields \union {"stop"})
          /\ Agree(st', r, {"repair_history", "stop"})
          /\ st'.stop \in {reason, "internal_error"}
      <3>1. "repair_history" \in RecordFields
        BY DEF RecordFields
      <3> QED
        BY <1>6, <1>7, <3>1, RepairFailsEnds
    <2> QED
      BY <1>6, <2>1 DEF Agree, Fields, Merges
  <1>8. CASE at = "start"
    <2>1. CASE /\ RepairRefusal = "none"
               /\ consume_repair(FALSE)
               /\ Goto("started")
               /\ UNCHANGED <<expired, invokerVars, toolTraces>>
               /\ In("repair", "start")
      BY <2>1 DEF Goto, Moves
    <2>2. CASE /\ RepairRefusal # "none"
               /\ \E stop \in UnlessRefused(RepairRefusal) :
                     Finish([st EXCEPT !.stop = stop, !.governance = snapshot])
               /\ UNCHANGED <<vars, toolTraces>>
               /\ In("repair", "start")
      <3>1. PICK stop \in {"internal_error", "repair_failed", "task_timeout", "cost_soft_cap"} :
               Finish([st EXCEPT !.stop = stop, !.governance = snapshot])
        BY <1>5, <2>2 DEF UnlessRefused
      <3> QED
        BY <1>2, <1>4, <2>2, <3>1 DEF In, Untouched
    <2> QED
      BY <1>8, <2>1, <2>2 DEF repair, In, Obtained
  <1>9. CASE at = "started"
    <2>1. CASE /\ Finish([st EXCEPT !.stop = "internal_error", !.governance = snapshot])
               /\ UNCHANGED <<vars, toolTraces>>
               /\ In("repair", "started")
      BY <1>2, <1>4, <2>1 DEF In, Untouched
    <2> QED
      BY <1>9, <2>1 DEF repair, In, Obtained
  <1>10. CASE at = "asked"
    <2>1. CASE /\ RepairFails(r, "repair_failed")
               /\ UNCHANGED <<vars, toolTraces>>
               /\ In("repair", "asked")
      <3>1. /\ NodeEnds(RecordFields \union {"stop"})
            /\ Merges
            /\ st'.stop \in {"repair_failed", "internal_error"}
        BY <1>7, <2>1
      <3>2. st'.stop \in PlainStops \ {"none"} /\ st'.stop # "execute_limit"
        BY <1>2, <1>3, <3>1
      <3> QED
        BY <2>1, <3>1, <3>2 DEF In, Untouched
    <2>2. CASE /\ consume_tool("execute_sql")
               /\ Goto("tool")
               /\ UNCHANGED <<expired, invokerVars, toolTraces>>
               /\ In("repair", "asked")
      BY <2>2 DEF Goto, Moves, consume_tool
    <2>3. CASE /\ ToolLimit("execute_sql") # "none"
               /\ \E stop \in UnlessRefused(ToolLimit("execute_sql")) : RepairFails(r, stop)
               /\ UNCHANGED <<vars, toolTraces>>
               /\ In("repair", "asked")
      <3>1. PICK stop \in UnlessRefused(ToolLimit("execute_sql")) : RepairFails(r, stop)
        BY <2>3
      <3>2. /\ NodeEnds(RecordFields \union {"stop"})
            /\ Merges
            /\ st'.stop \in {stop, "internal_error"}
        BY <1>7, <3>1
      <3>3. /\ stop \in PlainStops \ {"none"}
            /\ stop = "execute_limit" => ToolLimit("execute_sql") = "execute_limit"
            /\ "internal_error" \in PlainStops \ {"none"}
        BY <1>2, <1>3, <2>3, <3>1, ToolLimits DEF UnlessRefused
      <3> QED
        BY <2>3, <3>2, <3>3 DEF In, Untouched
    <2> QED
      BY <1>10, <2>1, <2>2, <2>3 DEF repair, In, Obtained
  <1>11. CASE at = "tool"
    <2>1. CASE /\ RepairFails(r, "internal_error")
               /\ UNCHANGED <<vars, toolTraces>>
               /\ In("repair", "tool")
      <3>1. /\ NodeEnds(RecordFields \union {"stop"})
            /\ Merges
            /\ st'.stop = "internal_error"
        BY <1>7, <2>1
      <3>2. "internal_error" \in PlainStops \ {"none"}
        BY <1>2, <1>3
      <3> QED
        BY <2>1, <3>1, <3>2 DEF In, Untouched
    <2>2. CASE /\ toolTraces' = toolTraces + 1
               /\ \E o \in ToolResults :
                     LET s == Observed(r, o)
                     IN  \/ RepairFails(s, "internal_error")
                         \/ /\ o \in QueryResults
                            /\ Finish([s EXCEPT !.stop = "none"])
                         \/ /\ o \notin QueryResults
                            /\ RepairFails(s, IF o = "internal_error" THEN "repair_failed"
                                              ELSE o)
               /\ UNCHANGED vars
               /\ In("repair", "tool")
      <3>1. PICK o \in ToolResults :
               \/ RepairFails(Observed(r, o), "internal_error")
               \/ Finish([Observed(r, o) EXCEPT !.stop = "none"])
               \/ /\ o \notin QueryResults
                  /\ RepairFails(Observed(r, o),
                                 IF o = "internal_error" THEN "repair_failed" ELSE o)
        BY <2>2
      <3> DEFINE s == Observed(r, o)
                 F == RecordFields \union ObservedFields
      <3>2. /\ HasFields(s) /\ Agree(s, r, ObservedFields)
            /\ s.observations = r.observations + 1
            /\ s.tool_call_traces = r.tool_call_traces + 1
            /\ s.governance = snapshot
        BY <1>6, ObservedHasFields
      <3>3. /\ r.observations = st.observations
            /\ r.tool_call_traces = st.tool_call_traces
        BY <1>6 DEF Agree, Fields, RecordFields
      <3>4. /\ s.model_call_traces = r.model_call_traces
            /\ s.repair_history = r.repair_history
        BY <3>2 DEF Agree, Fields, ObservedFields
      <3>5. Agree(s, st, F)
        BY <1>6, <3>2 DEF Agree
      <3>6. "repair_history" \in F
        BY DEF RecordFields
      <3> HIDE DEF F, s, r
      <3>7. ASSUME Agree(st', s, {"repair_history", "stop"})
            PROVE  /\ Merges
                   /\ st'.tool_call_traces = st.tool_call_traces + 1
                   /\ st'.observations = st.observations + 1
        <4>1. /\ st'.model_call_traces = s.model_call_traces
              /\ st'.governance = s.governance
              /\ st'.tool_call_traces = s.tool_call_traces
              /\ st'.observations = s.observations
          BY <3>7 DEF Agree, Fields
        <4> QED
          BY <1>6, <3>2, <3>3, <3>4, <4>1 DEF Merges
      <3>8. ASSUME NEW reason \in SafeErrorReasons \union {"repair_failed"},
                   RepairFails(s, reason)
            PROVE  /\ NodeEnds(F \union {"stop"})
                   /\ Agree(st', s, {"repair_history", "stop"})
                   /\ st'.stop \in OtherStops \ {"none"}
        <4>1. /\ NodeEnds(F \union {"stop"})
              /\ Agree(st', s, {"repair_history", "stop"})
              /\ st'.stop \in {reason, "internal_error"}
          BY <3>2, <3>5, <3>6, <3>8, RepairFailsEnds
        <4> QED
          BY <1>2, <4>1
      <3>9. CASE Finish([s EXCEPT !.stop = "none"])
        <4>1. /\ NodeEnds(F \union {"stop"})
              /\ Agree(st', s, {"stop"})
              /\ st'.stop = "none"
          BY <3>2, <3>5, <3>9, StopEnds
        <4>2. Agree(st', s, {"repair_history", "stop"})
          BY <4>1 DEF Agree
        <4>3. st'.repair_history = s.repair_history
          BY <4>1 DEF Agree, Fields
        <4>4. HistoryKept
          BY <1>6, <3>4, <4>3 DEF HistoryKept
        <4> QED
          BY <1>3, <2>2, <3>7, <4>1, <4>2, <4>4 DEF F
      <3>10. ASSUME NEW reason \in SafeErrorReasons \union {"repair_failed"},
                    RepairFails(s, reason)
             PROVE  /\ NodeEnds(RecordFields \union ObservedFields \union {"stop"})
                    /\ Merges
                    /\ st'.tool_call_traces = st.tool_call_traces + 1
                    /\ st'.observations = st.observations + 1
                    /\ st'.stop \in OtherStops \ {"none"}
        BY <3>7, <3>8, <3>10 DEF F
      <3>11. CASE RepairFails(s, "internal_error")
        <4>1. "internal_error" \in SafeErrorReasons \union {"repair_failed"}
          BY DEF SafeErrorReasons
        <4> QED
          BY <2>2, <3>10, <3>11, <4>1
      <3>12. CASE /\ o \notin QueryResults
                  /\ RepairFails(s, IF o = "internal_error" THEN "repair_failed" ELSE o)
        <4> DEFINE reason == IF o = "internal_error" THEN "repair_failed" ELSE o
        <4>1. st.next_action = "execute"
          BY <2>2 DEF In, GInv, ObservationFits
        <4>2. reason \in SafeErrorReasons \union {"repair_failed"}
          BY <3>12, <4>1, GraphAssumption DEF ToolResults
        <4> HIDE DEF reason
        <4>3. RepairFails(s, reason)
          BY <3>12 DEF reason
        <4> QED
          BY <2>2, <3>10, <4>2, <4>3
      <3> QED
        BY <3>1, <3>9, <3>11, <3>12 DEF s
    <2> QED
      BY <1>11, <2>1, <2>2 DEF repair, In, Obtained
  <1>12. at \in {"start", "started", "asked", "tool"}
    BY DEF repair, Obtained, In
  <1> QED
    BY <1>8, <1>9, <1>10, <1>11, <1>12

\* The answer.
LEMMA SynthesizeEffect ==
    ASSUME GInv, synthesize
    PROVE  \/ In("synthesize", "start") /\ Ask("synthesis")
           \/ /\ Obtained("synthesize") /\ Untouched
              /\ NodeEnds(RecordFields \union {"final", "stop"})
              /\ Merges
              /\ st'.final = DeterministicAnswer(st)
              /\ st'.stop = DeterministicAnswer(st).reason
  <1> DEFINE r == Recorded(st)
             answer == DeterministicAnswer(st)
             s == [r EXCEPT !.final = answer, !.stop = answer.reason]
             F == RecordFields \union {"final", "stop"}
  <1>1. /\ HasFields(r) /\ Agree(r, st, RecordFields)
        /\ r.model_call_traces = st.model_call_traces \o NewTraces
        /\ r.governance = snapshot
    BY GivenState, RecordedFields
  <1>2. CASE /\ Obtained("synthesize") /\ UNCHANGED <<vars, toolTraces>>
             /\ Finish(s)
    <2> HIDE DEF r, answer
    <2>1. /\ HasFields(s) /\ Agree(s, r, {"final", "stop"})
          /\ s.final = answer /\ s.stop = answer.reason
      BY <1>1 DEF HasFields, Fields, Agree
    <2> HIDE DEF s
    <2>2. Agree(s, st, F)
      BY <1>1, <2>1 DEF Agree
    <2>3. NodeEnds(F) /\ Agree(st', s, {})
      <3> HIDE DEF F
      <3> QED
        BY <1>2, <2>1, <2>2, FinishEnds
    <2>4. /\ st'.final = answer /\ st'.stop = answer.reason
          /\ st'.model_call_traces = r.model_call_traces
          /\ st'.governance = r.governance
      BY <2>1, <2>3 DEF Agree, Fields
    <2> QED
      BY <1>1, <1>2, <2>3, <2>4 DEF Untouched, Merges, answer
  <1> QED
    BY <1>2 DEF synthesize

LEMMA FinalizeEffect ==
    ASSUME GInv, finalize
    PROVE  /\ In("finalize", "start") /\ Untouched
           /\ NodeEnds({"final", "stop", "governance"})
           /\ st'.governance = snapshot
           /\ st'.final = IF st.final = NoFinal THEN DeterministicAnswer(st) ELSE st.final
           /\ st'.stop = st'.final.reason
  <1> DEFINE answer == IF st.final = NoFinal THEN DeterministicAnswer(st) ELSE st.final
             s == [st EXCEPT !.final = answer, !.stop = answer.reason,
                             !.governance = snapshot]
             F == {"final", "stop", "governance"}
  <1>1. HasFields(st)
    BY GivenState
  <1>2. Finish(s)
    BY DEF finalize
  <1> HIDE DEF answer
  <1>3. /\ HasFields(s) /\ Agree(s, st, F)
        /\ s.final = answer /\ s.stop = answer.reason /\ s.governance = snapshot
    BY <1>1 DEF HasFields, Fields, Agree
  <1> HIDE DEF s
  <1>4. NodeEnds(F) /\ Agree(st', s, {})
    <2> HIDE DEF F
    <2> QED
      BY <1>2, <1>3, FinishEnds
  <1>5. st'.final = answer /\ st'.stop = answer.reason /\ st'.governance = snapshot
    BY <1>3, <1>4 DEF Agree, Fields
  <1> QED
    BY <1>4, <1>5 DEF finalize, Untouched, answer

-----------------------------------------------------------------------------
(***************************************************************************)
(* The effects of the invoker and of the ledger's operations.              *)
(***************************************************************************)
\* What the rounds' invariant counts, unchanged.
CountsKept ==
    /\ snapshot'.action_loops = snapshot.action_loops
    /\ snapshot'.execute_calls = snapshot.execute_calls
    /\ snapshot'.profile_calls = snapshot.profile_calls
    /\ snapshot'.tool_calls = snapshot.tool_calls
    /\ snapshot'.repair_count - snapshot'.structured_output_repair_count
         = snapshot.repair_count - snapshot.structured_output_repair_count

LEMMA ToolConsumed ==
    ASSUME TypeOK, NEW type, consume_tool(type)
    PROVE  /\ snapshot'.action_loops = snapshot.action_loops
           /\ snapshot'.repair_count = snapshot.repair_count
           /\ snapshot'.structured_output_repair_count
                = snapshot.structured_output_repair_count
           /\ snapshot'.soft_cap_reached = snapshot.soft_cap_reached
           /\ snapshot'.tool_calls = snapshot.tool_calls + 1
           /\ snapshot'.execute_calls =
                snapshot.execute_calls + (IF type = "execute_sql" THEN 1 ELSE 0)
           /\ type # "profile" => snapshot'.profile_calls = snapshot.profile_calls
  BY DEF TypeOK, GovernanceSnapshot, consume_tool

LEMMA RepairConsumed ==
    ASSUME TypeOK, NEW structured \in BOOLEAN, consume_repair(structured)
    PROVE  /\ snapshot'.action_loops = snapshot.action_loops
           /\ snapshot'.execute_calls = snapshot.execute_calls
           /\ snapshot'.profile_calls = snapshot.profile_calls
           /\ snapshot'.tool_calls = snapshot.tool_calls
           /\ snapshot'.soft_cap_reached = snapshot.soft_cap_reached
           /\ snapshot'.repair_count = snapshot.repair_count + 1
           /\ snapshot'.structured_output_repair_count =
                snapshot.structured_output_repair_count + (IF structured THEN 1 ELSE 0)
  BY DEF TypeOK, GovernanceSnapshot, consume_repair

LEMMA RoundConsumed ==
    ASSUME TypeOK, consume_action_loop
    PROVE  /\ snapshot'.action_loops = snapshot.action_loops + 1
           /\ snapshot'.execute_calls = snapshot.execute_calls
           /\ snapshot'.profile_calls = snapshot.profile_calls
           /\ snapshot'.tool_calls = snapshot.tool_calls
           /\ snapshot'.soft_cap_reached = snapshot.soft_cap_reached
           /\ snapshot'.repair_count = snapshot.repair_count
           /\ snapshot'.structured_output_repair_count
                = snapshot.structured_output_repair_count
  BY DEF TypeOK, GovernanceSnapshot, consume_action_loop

LEMMA ChargedCounts ==
    ASSUME TypeOK, NEW r, NEW charge, Charged(r, charge)
    PROVE  CountsKept /\ snapshot'.repair_count = snapshot.repair_count
  BY DEF TypeOK, GovernanceSnapshot, Charged, CountsKept

LEMMA ReserveCounts ==
    ASSUME TypeOK, NEW cost, NEW next, Reserve(cost, next)
    PROVE  /\ CountsKept /\ snapshot'.repair_count = snapshot.repair_count
           /\ UNCHANGED traces
  BY DEF TypeOK, GovernanceSnapshot, Reserve, reserve_model_call, CountsKept

\* The model is asked: its invocation begins, or is refused.
LEMMA AskEffect ==
    ASSUME TypeOK, NEW p, Ask(p)
    PROVE  /\ phase = "idle"
           /\ phase' \in {"idle", "calling"}
           /\ at' = "asked"
           /\ asked' = Len(traces)
           /\ UNCHANGED <<node, st, toolTraces, traces>>
           /\ CountsKept /\ snapshot'.repair_count = snapshot.repair_count
           /\ purpose' = p
           /\ record' = "none"
  <1>1. PICK cost \in Costs : Invoke(p, cost) \/ InvokeRefused(p, cost)
    BY DEF Ask
  <1>2. CASE Invoke(p, cost)
    BY <1>2, ReserveCounts DEF Ask, Invoke, Reserve
  <1>3. CASE InvokeRefused(p, cost)
    BY <1>3 DEF Ask, InvokeRefused, ledgerVars, CountsKept
  <1> QED
    BY <1>1, <1>2, <1>3

LEMMA CallEnds ==
    ASSUME TypeOK, TypeOK', NEW actual \in Costs, NEW priced \in BOOLEAN, Account(actual, priced),
           NEW outcome, NEW cost, Traced(outcome, cost)
    PROVE  /\ CountsKept /\ snapshot'.repair_count = snapshot.repair_count
           /\ \E t \in ModelCallTrace : traces' = Append(traces, t)
  <1>1. CountsKept /\ snapshot'.repair_count = snapshot.repair_count
    BY ChargedCounts DEF Account, settle_model_call, fail_model_call
  <1> DEFINE t == [purpose |-> IF phase = "recalling" THEN "repair" ELSE purpose,
                   outcome |-> outcome, cost |-> cost]
  <1>2. traces' = Append(traces, t)
    BY DEF Traced
  <1>3. t \in ModelCallTrace
    <2> HIDE DEF t
    <2>1. traces' \in Seq(ModelCallTrace) /\ Len(traces) + 1 \in 1 .. Len(traces')
      BY <1>2 DEF TypeOK
    <2>2. traces'[Len(traces) + 1] = t
      BY <1>2 DEF TypeOK
    <2> QED
      BY <2>1, <2>2
  <1> HIDE DEF t
  <1> QED
    BY <1>1, <1>2, <1>3

\* The invocation goes on.
LEMMA ConverseEffect ==
    ASSUME TypeOK, TypeOK', Converse
    PROVE  /\ UNCHANGED <<node, at, st, toolTraces, asked, purpose>>
           /\ phase \notin {"idle", "cancelled"}
           /\ CountsKept
           /\ \/ traces' = traces
              \/ \E t \in ModelCallTrace : traces' = Append(traces, t)
           /\ phase = "calling" /\ purpose = "repair" =>
                 /\ phase' \in {"idle", "cancelled"}
                 /\ snapshot'.repair_count = snapshot.repair_count
                 /\ phase' = "idle" => record' = "none"
  <1>1. UNCHANGED graphVars
    BY DEF Converse
  <1>2. ASSUME NEW actual \in Costs, NEW priced \in BOOLEAN, Answered(actual, priced)
        PROVE  /\ phase \in {"calling", "recalling"} /\ phase' = "idle"
               /\ UNCHANGED purpose
               /\ phase = "calling" => record' = "none"
               /\ CountsKept /\ snapshot'.repair_count = snapshot.repair_count
               /\ \E t \in ModelCallTrace : traces' = Append(traces, t)
    <2>1. \E outcome, cost : Traced(outcome, cost)
      BY <1>2 DEF Answered
    <2>2. Account(actual, priced)
      BY <1>2 DEF Answered
    <2>3. /\ phase \in {"calling", "recalling"} /\ phase' = "idle"
          /\ UNCHANGED purpose
          /\ phase = "calling" => record' = "none"
      BY <1>2 DEF Answered, Return, Awaiting
    <2> QED
      BY <2>1, <2>2, <2>3, CallEnds
  <1>3. ASSUME NEW actual \in Costs, NEW priced \in BOOLEAN, NEW category, NEW cut,
               FirstCallFailed(actual, priced, category, cut)
        PROVE  /\ phase = "calling" /\ phase' \in {"idle", "repairing"}
               /\ UNCHANGED purpose
               /\ purpose = "repair" => phase' = "idle" /\ record' = "none"
               /\ CountsKept /\ snapshot'.repair_count = snapshot.repair_count
               /\ \E t \in ModelCallTrace : traces' = Append(traces, t)
    <2>1. Account(actual, priced) /\ \E outcome, cost : Traced(outcome, cost)
      BY <1>3 DEF FirstCallFailed
    <2>2. /\ phase = "calling" /\ phase' \in {"idle", "repairing"}
          /\ UNCHANGED purpose
          /\ purpose = "repair" => phase' = "idle" /\ record' = "none"
      BY <1>3 DEF FirstCallFailed, AllowsRepair, Return, Repairable
    <2> QED
      BY <2>1, <2>2, CallEnds
  <1>4. ASSUME NEW actual \in Costs, NEW priced \in BOOLEAN, RepairCallFailed(actual, priced)
        PROVE  /\ phase = "recalling" /\ UNCHANGED purpose
               /\ CountsKept
               /\ \E t \in ModelCallTrace : traces' = Append(traces, t)
    <2>1. Account(actual, priced) /\ \E outcome, cost : Traced(outcome, cost)
      BY <1>4 DEF RepairCallFailed
    <2> QED
      BY <1>4, <2>1, CallEnds DEF RepairCallFailed, Return
  <1>5. CASE ConsumeRepair
    <2>1. ASSUME consume_repair(TRUE)
          PROVE  CountsKept
      <3>1. /\ snapshot.repair_count \in Nat
            /\ snapshot.structured_output_repair_count \in Nat
        BY DEF TypeOK, GovernanceSnapshot
      <3>2. snapshot' = [snapshot EXCEPT
                           !.repair_count = @ + 1,
                           !.structured_output_repair_count = @ + 1]
        BY <2>1 DEF consume_repair
      <3> QED
        BY <3>1, <3>2 DEF CountsKept, TypeOK, GovernanceSnapshot
    <2>2. ASSUME UNCHANGED snapshot
          PROVE  CountsKept
      BY <2>2 DEF CountsKept
    <2>3. phase = "repairing" /\ UNCHANGED <<traces, purpose>>
      BY <1>5 DEF ConsumeRepair, Return
    <2>4. CountsKept
      BY <1>5, <2>1, <2>2 DEF ConsumeRepair
    <2> QED
      BY <1>1, <2>3, <2>4 DEF graphVars
  <1>6. ASSUME NEW cost \in Costs, RepairCall(cost)
        PROVE  /\ phase = "rereserving" /\ UNCHANGED purpose
               /\ CountsKept /\ UNCHANGED traces
    <2>1. CASE Reserve(cost, "recalling") /\ UNCHANGED <<purpose, record, result>>
      BY <1>6, <2>1, ReserveCounts DEF RepairCall
    <2>2. CASE UNCHANGED <<snapshot, reservations, traces>>
      BY <1>6, <2>2 DEF RepairCall, Return, CountsKept
    <2> QED
      BY <1>6, <2>1, <2>2 DEF RepairCall
  <1>7. CASE Cancel
    <2>1. CountsKept /\ snapshot'.repair_count = snapshot.repair_count
      BY <1>7, ChargedCounts DEF Cancel, fail_model_call
    <2>2. /\ phase \in {"calling", "recalling"} /\ phase' = "cancelled"
          /\ UNCHANGED purpose
      BY <1>7 DEF Cancel, Awaiting
    <2>3. \E t \in ModelCallTrace : traces' = Append(traces, t)
      <3> DEFINE t == [purpose |-> IF phase = "recalling" THEN "repair" ELSE purpose,
                       outcome |-> "cancelled", cost |-> held.cost]
      <3>1. traces' = Append(traces, t)
        BY <1>7 DEF Cancel, Traced
      <3> HIDE DEF t
      <3>2. traces' \in Seq(ModelCallTrace) /\ Len(traces) + 1 \in 1 .. Len(traces')
            /\ traces'[Len(traces) + 1] = t
        BY <3>1 DEF TypeOK
      <3> QED
        BY <3>1, <3>2
    <2> QED
      BY <1>1, <2>1, <2>2, <2>3 DEF graphVars
  <1> QED
    BY <1>1, <1>2, <1>3, <1>4, <1>5, <1>6, <1>7 DEF Converse, Progress, graphVars

-----------------------------------------------------------------------------
(***************************************************************************)
(* The copies.  While a node runs, the state has the traces from before    *)
(* its invocation and lacks the tool call that was traced already.         *)
(***************************************************************************)
Running == node # "cancelled" /\ phase # "cancelled"

\* The node's invocation began, and its traces are not merged yet.
Calling == at = "asked" \/ (at = "tool" /\ node = "repair")

CopiesFollow ==
    /\ Calling => asked <= Len(traces) /\ st.model_call_traces = SubSeq(traces, 1, asked)
    /\ ~Calling => st.model_call_traces = traces
    /\ toolTraces = st.tool_call_traces + (IF at = "schema" THEN 1 ELSE 0)
    /\ at = "start" => st.governance = snapshot

CopyInv ==
    /\ phase \notin {"idle", "cancelled"} => at = "asked"
    /\ Running => CopiesFollow

LEMMA TracesMerge ==
    ASSUME GInv, TypeOK, CopyInv, Running, Calling
    PROVE  st.model_call_traces \o NewTraces = traces
  <1>1. /\ traces \in Seq(ModelCallTrace) /\ asked \in Nat
        /\ asked <= Len(traces) /\ st.model_call_traces = SubSeq(traces, 1, asked)
    BY DEF GInv, GraphTypeOK, TypeOK, CopyInv, CopiesFollow
  <1>2. /\ 1 \in 1 .. Len(traces) + 1
        /\ asked \in 1 - 1 .. Len(traces)
        /\ Len(traces) \in asked .. Len(traces)
    BY <1>1
  <1>3. SubSeq(traces, 1, asked) \o SubSeq(traces, asked + 1, Len(traces))
          = SubSeq(traces, 1, Len(traces))
    BY <1>1, <1>2, ConcatAdjacentSubSeq
  <1>4. SubSeq(traces, 1, Len(traces)) = traces
    BY <1>1, SubSeqFull
  <1> QED
    BY <1>1, <1>3, <1>4 DEF NewTraces

\* The traces from before the invocation stay what they are.
LEMMA TracesKeepPrefix ==
    ASSUME TypeOK, NEW n \in Nat, n <= Len(traces), NEW t \in ModelCallTrace,
           traces' = Append(traces, t)
    PROVE  n <= Len(traces)' /\ SubSeq(traces', 1, n) = SubSeq(traces, 1, n)
  <1>1. traces \in Seq(ModelCallTrace) /\ n \in 0 .. Len(traces)
    BY DEF TypeOK
  <1>2. /\ Append(traces, t) \in Seq(ModelCallTrace)
        /\ Len(Append(traces, t)) = Len(traces) + 1
        /\ \A i \in 1 .. Len(traces) : Append(traces, t)[i] = traces[i]
    BY <1>1, AppendProperties
  <1>3. n \in 0 .. Len(Append(traces, t))
    BY <1>1, <1>2
  <1>4. /\ SubSeq(traces, 1, n) = Restrict(traces, 1 .. n)
        /\ SubSeq(Append(traces, t), 1, n) = Restrict(Append(traces, t), 1 .. n)
    BY <1>1, <1>2, <1>3, SubSeqRestrict
  <1>5. Restrict(traces, 1 .. n) = Restrict(Append(traces, t), 1 .. n)
    BY <1>1, <1>2 DEF Restrict
  <1> QED
    BY <1>1, <1>2, <1>4, <1>5

\* What every node's end does with the copies.
Copies ==
    /\ phase = "idle"
    /\ phase' = "idle"
    /\ traces' = traces
    /\ at' = "start"
    /\ IF Calling THEN st'.model_call_traces = st.model_call_traces \o NewTraces
       ELSE st'.model_call_traces = st.model_call_traces
    /\ st'.tool_call_traces + toolTraces
         = st.tool_call_traces + toolTraces' + (IF at = "schema" THEN 1 ELSE 0)
    /\ \/ st'.governance = snapshot'
       \/ at = "start" /\ st'.governance = st.governance /\ snapshot' = snapshot

LEMMA CopiesKeep ==
    ASSUME GInv, GInv', TypeOK, CopyInv, node # "cancelled", Copies
    PROVE  CopyInv'
  <1>1. /\ toolTraces \in Nat /\ toolTraces' \in Nat
        /\ st.tool_call_traces \in Nat /\ st'.tool_call_traces \in Nat
    BY DEF GInv, GraphTypeOK, AgentState
  <1>2. Running
    BY DEF Copies, Running
  <1>3. st'.model_call_traces = traces'
    BY <1>2, TracesMerge DEF Copies, CopyInv, CopiesFollow
  <1>4. toolTraces' = st'.tool_call_traces
    BY <1>1, <1>2 DEF Copies, CopyInv, CopiesFollow
  <1>5. st'.governance = snapshot'
    BY <1>2 DEF Copies, CopyInv, CopiesFollow
  <1> QED
    BY <1>1, <1>3, <1>4, <1>5 DEF Copies, CopyInv, CopiesFollow, Calling

\* A node that goes on without an invocation.
LEMMA MovesKeepCopies ==
    ASSUME GInv, CopyInv, node # "cancelled",
           phase = "idle", phase' = "idle", UNCHANGED traces,
           NEW place \in {"started", "tool", "schema"}, Moves(place),
           place = "tool" /\ node = "repair" <=> Calling,
           toolTraces' = toolTraces + (IF place = "schema" THEN 1 ELSE 0), at # "schema"
    PROVE  CopyInv'
  <1>1. toolTraces \in Nat /\ st.tool_call_traces \in Nat
    BY DEF GInv, GraphTypeOK, AgentState
  <1> QED
    BY <1>1 DEF CopyInv, CopiesFollow, Running, Calling, Moves

LEMMA AskKeepsCopies ==
    ASSUME TypeOK, TypeOK', CopyInv, node # "cancelled", NEW p, Ask(p),
           at \in {"start", "started"}
    PROVE  CopyInv'
  <1>1. /\ phase = "idle"
        /\ phase' \in {"idle", "calling"}
        /\ at' = "asked"
        /\ asked' = Len(traces)
        /\ UNCHANGED <<node, st, toolTraces, traces>>
    BY AskEffect
  <1>2. st.model_call_traces = traces /\ toolTraces = st.tool_call_traces + 0
    BY <1>1 DEF CopyInv, CopiesFollow, Running, Calling
  <1>3. SubSeq(traces, 1, Len(traces)) = traces /\ Len(traces) <= Len(traces)
    BY SubSeqFull DEF TypeOK
  <1> QED
    BY <1>1, <1>2, <1>3 DEF CopyInv, CopiesFollow, Running, Calling

LEMMA LoopStepsIdle ==
    ASSUME ConsumePendingLoop, phase = "idle"
    PROVE  UNCHANGED <<expired, invokerVars>> /\ phase' = "idle" /\ UNCHANGED traces
  BY DEF ConsumePendingLoop, vars, ledgerVars, invokerVars

LEMMA UntouchedIdle ==
    ASSUME Untouched \/ UNCHANGED vars
    PROVE  UNCHANGED <<phase, traces, snapshot, reservations, expired, purpose, record, result>>
  BY DEF Untouched, vars, ledgerVars, invokerVars

LEMMA CopiesOfEarlyNodes ==
    ASSUME GInv, GInv', TypeOK, TypeOK', CopyInv,
           \/ intake \/ decide_behavior \/ retrieve_context \/ build_plan
           \/ compile_contract \/ InvocationFailed
    PROVE  CopyInv'
  <1> USE DEF Fields, Agree
  <1>1. toolTraces \in Nat /\ st.tool_call_traces \in Nat
    BY DEF GInv, GraphTypeOK, AgentState
  <1>2. CASE intake
    <2>1. Copies
      BY <1>1, <1>2, IntakeEffect, UntouchedIdle DEF Copies, NodeEnds, In, Calling, Untouched
    <2> QED
      BY <1>2, <2>1, CopiesKeep DEF intake, In
  <1>3. CASE decide_behavior
    <2>1. CASE In("decide_behavior", "start") /\ Ask("behavior")
      BY <2>1, AskKeepsCopies DEF In
    <2>2. CASE /\ Obtained("decide_behavior") /\ Untouched
               /\ NodeEnds(RecordFields \union {"stop"})
               /\ Merges
      <3>1. Copies
        BY <1>1, <2>2, UntouchedIdle
        DEF Copies, NodeEnds, RecordFields, Obtained, In, Calling, Merges, Untouched
      <3> QED
        BY <2>2, <3>1, CopiesKeep DEF Obtained, In
    <2> QED
      BY <1>3, <2>1, <2>2, DecideBehaviorEffect
  <1>4. CASE retrieve_context
    <2>1. phase = "idle" /\ node = "retrieve_context"
      BY <1>4, RetrieveContextEffect
    <2>2. CASE /\ consume_tool("other") /\ UNCHANGED <<expired, invokerVars>>
               /\ \/ at = "start" /\ Moves("tool") /\ toolTraces' = toolTraces
                  \/ at = "tool" /\ Moves("schema") /\ toolTraces' = toolTraces + 1
      BY <1>1, <2>1, <2>2, MovesKeepCopies DEF invokerVars, Calling
    <2>3. CASE /\ UNCHANGED vars
               /\ at \in {"start", "tool", "schema"}
               /\ NodeEnds({"observations", "tool_call_traces", "governance", "stop"})
               /\ st'.tool_call_traces + toolTraces
                    = st.tool_call_traces + toolTraces' + (IF at = "schema" THEN 1 ELSE 0)
               /\ st'.governance = snapshot
      <3>1. Copies
        BY <2>1, <2>3, UntouchedIdle DEF Copies, NodeEnds, Calling
      <3> QED
        BY <2>1, <3>1, CopiesKeep
    <2> QED
      BY <1>4, <2>2, <2>3, RetrieveContextEffect
  <1>5. CASE build_plan
    <2>1. CASE In("build_plan", "start") /\ Ask("plan")
      BY <2>1, AskKeepsCopies DEF In
    <2>2. CASE /\ Obtained("build_plan") /\ Untouched
               /\ NodeEnds(RecordFields \union {"plan", "stop"})
               /\ Merges
      <3>1. Copies
        BY <1>1, <2>2, UntouchedIdle
        DEF Copies, NodeEnds, RecordFields, Obtained, In, Calling, Merges, Untouched
      <3> QED
        BY <2>2, <3>1, CopiesKeep DEF Obtained, In
    <2> QED
      BY <1>5, <2>1, <2>2, BuildPlanEffect
  <1>6. CASE compile_contract
    <2>1. Copies
      BY <1>1, <1>6, CompileContractEffect, UntouchedIdle
      DEF Copies, NodeEnds, In, Calling, Untouched
    <2> QED
      BY <1>6, <2>1, CopiesKeep DEF compile_contract, In
  <1>7. CASE InvocationFailed
    <2>1. Copies
      BY <1>1, <1>7, InvocationFailedEffect, UntouchedIdle
      DEF Copies, NodeEnds, RecordFields, Calling, Merges, Untouched
    <2> QED
      BY <1>7, <2>1, CopiesKeep DEF InvocationFailed
  <1> QED
    BY <1>2, <1>3, <1>4, <1>5, <1>6, <1>7

LEMMA CopiesOfLoopNodes ==
    ASSUME GInv, GInv', TypeOK, TypeOK', CopyInv,
           \/ route_action \/ invoke_tool \/ validate_profile \/ validate_observation
           \/ judge_evidence \/ replan
    PROVE  CopyInv'
  <1> USE DEF Fields, Agree
  <1>1. toolTraces \in Nat /\ st.tool_call_traces \in Nat
    BY DEF GInv, GraphTypeOK, AgentState
  <1>2. CASE route_action
    <2>1. CASE In("route_action", "start") /\ Ask("action")
      BY <2>1, AskKeepsCopies DEF In
    <2>2. CASE /\ In("route_action", "start") /\ Untouched
               /\ NodeEnds({"next_action", "stop", "governance"})
               /\ st'.governance = snapshot
      <3>1. Copies
        BY <1>1, <2>2, UntouchedIdle DEF Copies, NodeEnds, In, Calling, Untouched
      <3> QED
        BY <2>2, <3>1, CopiesKeep DEF In
    <2>3. CASE /\ Obtained("route_action") /\ Untouched
               /\ NodeEnds(RecordFields \union {"next_action", "action_loop_pending", "stop"})
               /\ Merges
      <3>1. Copies
        BY <1>1, <2>3, UntouchedIdle
        DEF Copies, NodeEnds, RecordFields, Obtained, In, Calling, Merges, Untouched
      <3> QED
        BY <2>3, <3>1, CopiesKeep DEF Obtained, In
    <2> QED
      BY <1>2, <2>1, <2>2, <2>3, RouteActionEffect
  <1>3. CASE invoke_tool
    <2>1. CASE /\ In("invoke_tool", "start")
               /\ Moves("tool")
               /\ UNCHANGED <<expired, invokerVars, toolTraces>>
      BY <1>1, <2>1, MovesKeepCopies DEF In, invokerVars, Calling
    <2>2. CASE /\ In("invoke_tool", "start") /\ Untouched
               /\ NodeEnds({"action_loop_pending", "governance", "stop"})
               /\ st'.governance = snapshot
      <3>1. Copies
        BY <1>1, <2>2, UntouchedIdle DEF Copies, NodeEnds, In, Calling, Untouched
      <3> QED
        BY <2>2, <3>1, CopiesKeep DEF In
    <2>3. CASE /\ In("invoke_tool", "tool") /\ UNCHANGED toolTraces
               /\ Rounds
               /\ NodeEnds({"action_loop_pending", "governance", "stop"})
      <3>1. Copies
        BY <1>1, <2>3, LoopStepsIdle DEF Copies, NodeEnds, In, Calling, Rounds
      <3> QED
        BY <2>3, <3>1, CopiesKeep DEF In
    <2>4. CASE /\ In("invoke_tool", "tool") /\ UNCHANGED vars
               /\ toolTraces' = toolTraces + 1
               /\ NodeEnds(ObservedFields \union {"stop"})
               /\ st'.tool_call_traces = st.tool_call_traces + 1
               /\ st'.governance = snapshot
      <3>1. Copies
        BY <1>1, <2>4, UntouchedIdle DEF Copies, NodeEnds, ObservedFields, In, Calling
      <3> QED
        BY <2>4, <3>1, CopiesKeep DEF In
    <2>5. CASE /\ In("invoke_tool", "tool")
               /\ toolTraces' = toolTraces + 1
               /\ Rounds
               /\ NodeEnds(ObservedFields \union {"action_loop_pending", "governance", "stop"})
               /\ st'.tool_call_traces = st.tool_call_traces + 1
      <3>1. Copies
        BY <1>1, <2>5, LoopStepsIdle DEF Copies, NodeEnds, ObservedFields, In, Calling, Rounds
      <3> QED
        BY <2>5, <3>1, CopiesKeep DEF In
    <2> QED
      BY <1>3, <2>1, <2>2, <2>3, <2>4, <2>5, InvokeToolEffect
  <1>4. CASE validate_profile
    <2>1. Copies
      BY <1>1, <1>4, ValidateProfileEffect, UntouchedIdle
      DEF Copies, NodeEnds, In, Calling, Untouched
    <2> QED
      BY <1>4, <2>1, CopiesKeep DEF validate_profile, In
  <1>5. CASE validate_observation
    <2>1. CASE /\ Rounds
               /\ \/ NodeEnds({"action_loop_pending", "governance", "stop"})
                  \/ NodeEnds(ValidatedFields \union
                                {"action_loop_pending", "governance", "stop"})
      <3>1. In("validate_observation", "start") /\ UNCHANGED toolTraces
        BY <1>5, ValidateObservationEffect
      <3>2. Copies
        BY <1>1, <2>1, <3>1, LoopStepsIdle
        DEF Copies, NodeEnds, ValidatedFields, In, Calling, Rounds
      <3> QED
        BY <3>1, <3>2, CopiesKeep DEF In
    <2>2. CASE /\ UNCHANGED vars
               /\ NodeEnds(ValidatedFields \union {"repair_history", "stop"})
      <3>1. In("validate_observation", "start") /\ UNCHANGED toolTraces
        BY <1>5, ValidateObservationEffect
      <3>2. Copies
        BY <1>1, <2>2, <3>1, UntouchedIdle
        DEF Copies, NodeEnds, ValidatedFields, In, Calling
      <3> QED
        BY <3>1, <3>2, CopiesKeep DEF In
    <2> QED
      BY <1>5, <2>1, <2>2, ValidateObservationEffect
  <1>6. CASE judge_evidence
    <2>1. /\ In("judge_evidence", "start") /\ UNCHANGED toolTraces
          /\ Rounds
          /\ NodeEnds({"action_loop_pending", "governance", "evidence", "refuted",
                       "next_action", "stop"})
      BY <1>6, JudgeEvidenceEffect
    <2>2. Copies
      BY <1>1, <2>1, LoopStepsIdle DEF Copies, NodeEnds, In, Calling, Rounds
    <2> QED
      BY <2>1, <2>2, CopiesKeep DEF In
  <1>7. CASE replan
    <2>1. Copies
      BY <1>1, <1>7, ReplanEffect, UntouchedIdle
      DEF Copies, NodeEnds, In, Calling, Untouched
    <2> QED
      BY <1>7, <2>1, CopiesKeep DEF replan, In
  <1> QED
    BY <1>2, <1>3, <1>4, <1>5, <1>6, <1>7

LEMMA CopiesOfLateNodes ==
    ASSUME GInv, GInv', TypeOK, TypeOK', CopyInv, repair \/ synthesize \/ finalize
    PROVE  CopyInv'
  <1> USE DEF Fields, Agree
  <1>1. toolTraces \in Nat /\ st.tool_call_traces \in Nat
    BY DEF GInv, GraphTypeOK, AgentState
  <1>2. CASE repair
    <2>1. CASE /\ In("repair", "start")
               /\ Moves("started")
               /\ UNCHANGED <<expired, invokerVars, toolTraces>>
      BY <1>1, <2>1, MovesKeepCopies DEF In, invokerVars, Calling
    <2>2. CASE /\ phase = "idle" /\ node = "repair" /\ at \in {"start", "started"} /\ Untouched
               /\ NodeEnds({"stop", "governance"})
               /\ st'.governance = snapshot
      <3>1. Copies
        BY <1>1, <2>2, UntouchedIdle DEF Copies, NodeEnds, Calling, Untouched
      <3> QED
        BY <2>2, <3>1, CopiesKeep
    <2>3. CASE In("repair", "started") /\ Ask("repair")
      BY <2>3, AskKeepsCopies DEF In
    <2>4. CASE /\ phase = "idle" /\ node = "repair" /\ at \in {"asked", "tool"} /\ Untouched
               /\ NodeEnds(RecordFields \union {"stop"})
               /\ Merges
      <3>1. Copies
        BY <1>1, <2>4, UntouchedIdle
        DEF Copies, NodeEnds, RecordFields, Calling, Merges, Untouched
      <3> QED
        BY <2>4, <3>1, CopiesKeep
    <2>5. CASE /\ In("repair", "asked")
               /\ Moves("tool")
               /\ UNCHANGED <<expired, invokerVars, toolTraces>>
      BY <1>1, <2>5, MovesKeepCopies DEF In, invokerVars, Calling
    <2>6. CASE /\ In("repair", "tool") /\ UNCHANGED vars
               /\ toolTraces' = toolTraces + 1
               /\ NodeEnds(RecordFields \union ObservedFields \union {"stop"})
               /\ Merges
               /\ st'.tool_call_traces = st.tool_call_traces + 1
      <3>1. Copies
        BY <1>1, <2>6, UntouchedIdle
        DEF Copies, NodeEnds, RecordFields, ObservedFields, In, Calling, Merges
      <3> QED
        BY <2>6, <3>1, CopiesKeep DEF In
    <2> QED
      BY <1>2, <2>1, <2>2, <2>3, <2>4, <2>5, <2>6, RepairEffect
  <1>3. CASE synthesize
    <2>1. CASE In("synthesize", "start") /\ Ask("synthesis")
      BY <2>1, AskKeepsCopies DEF In
    <2>2. CASE /\ Obtained("synthesize") /\ Untouched
               /\ NodeEnds(RecordFields \union {"final", "stop"})
               /\ Merges
      <3>1. Copies
        BY <1>1, <2>2, UntouchedIdle
        DEF Copies, NodeEnds, RecordFields, Obtained, In, Calling, Merges, Untouched
      <3> QED
        BY <2>2, <3>1, CopiesKeep DEF Obtained, In
    <2> QED
      BY <1>3, <2>1, <2>2, SynthesizeEffect
  <1>4. CASE finalize
    <2>1. Copies
      BY <1>1, <1>4, FinalizeEffect, UntouchedIdle
      DEF Copies, NodeEnds, In, Calling, Untouched
    <2> QED
      BY <1>4, <2>1, CopiesKeep DEF finalize, In
  <1> QED
    BY <1>2, <1>3, <1>4

\* Steps that are no node's.
LEMMA CopiesOfOthers ==
    ASSUME GInv, TypeOK, TypeOK', CopyInv,
           Converse \/ CancelRun \/ GraphClock \/ UNCHANGED allVars
    PROVE  CopyInv'
  <1>1. CASE Converse
    <2>1. /\ UNCHANGED <<node, at, st, toolTraces, asked>>
          /\ phase \notin {"idle", "cancelled"}
          /\ \/ traces' = traces
             \/ \E t \in ModelCallTrace : traces' = Append(traces, t)
      BY <1>1, ConverseEffect
    <2>2. at = "asked" /\ Calling
      BY <2>1 DEF CopyInv, Calling
    <2>3. CASE node = "cancelled"
      BY <2>1, <2>2, <2>3 DEF CopyInv, Running
    <2>4. CASE node # "cancelled"
      <3>1. /\ asked \in Nat /\ asked <= Len(traces)
            /\ st.model_call_traces = SubSeq(traces, 1, asked)
            /\ toolTraces = st.tool_call_traces + 0
        BY <2>1, <2>2, <2>4 DEF CopyInv, CopiesFollow, Running, GInv, GraphTypeOK
      <3>2. asked <= Len(traces)' /\ st.model_call_traces = SubSeq(traces', 1, asked)
        BY <2>1, <3>1, TracesKeepPrefix
      <3> QED
        BY <2>1, <2>2, <3>1, <3>2 DEF CopyInv, CopiesFollow, Calling
    <2> QED
      BY <2>3, <2>4
  <1>2. CASE CancelRun
    BY <1>2 DEF CancelRun, vars, ledgerVars, invokerVars, CopyInv, Running
  <1>3. CASE GraphClock
    BY <1>3 DEF GraphClock, Clock, Expire, invokerVars, graphVars, CopyInv, CopiesFollow,
                Running, Calling
  <1>4. CASE UNCHANGED allVars
    BY <1>4 DEF allVars, vars, ledgerVars, invokerVars, graphVars, CopyInv, CopiesFollow,
                Running, Calling
  <1> QED
    BY <1>1, <1>2, <1>3, <1>4

LEMMA CopyInvInit ==
    ASSUME GraphInit
    PROVE  CopyInv
  BY DEF GraphInit, Init, new_agent_state, CopyInv, CopiesFollow, Calling

LEMMA CopyInvStep ==
    ASSUME GInv, GInv', TypeOK, TypeOK', CopyInv, [GraphNext]_allVars
    PROVE  CopyInv'
  <1>1. CASE \/ intake \/ decide_behavior \/ retrieve_context \/ build_plan
             \/ compile_contract \/ InvocationFailed
    BY <1>1, CopiesOfEarlyNodes
  <1>2. CASE \/ route_action \/ invoke_tool \/ validate_profile \/ validate_observation
             \/ judge_evidence \/ replan
    BY <1>2, CopiesOfLoopNodes
  <1>3. CASE repair \/ synthesize \/ finalize
    BY <1>3, CopiesOfLateNodes
  <1>4. CASE Converse \/ CancelRun \/ GraphClock \/ UNCHANGED allVars
    BY <1>4, CopiesOfOthers
  <1> QED
    BY <1>1, <1>2, <1>3, <1>4 DEF GraphNext, Work

LEMMA CopyInvHolds == GraphSpec => []CopyInv
  <1>1. GraphInit => CopyInv
    BY CopyInvInit
  <1>2. GInv /\ GInv' /\ TypeOK /\ TypeOK' /\ CopyInv /\ [GraphNext]_allVars => CopyInv'
    BY CopyInvStep
  <1>3. GraphSpec => [](GInv /\ TypeOK)
    BY GInvHolds, RunWithinLimits, PTL
  <1> QED
    BY <1>1, <1>2, <1>3, PTL DEF GraphSpec

\* Whenever a node begins or the graph ends, the state's traces are the recorder's
\* and its governance is the ledger's, whatever failed in the nodes before: the
\* answer is not thrown away, and the routes decide by what was really spent.
THEOREM CopiesAlwaysAgree == GraphSpec => []CopiesAgree
  <1>1. GInv /\ CopyInv => CopiesAgree
    <2>1. GInv => st.tool_call_traces \in Nat
      BY DEF GInv, GraphTypeOK, AgentState
    <2> QED
      BY <2>1 DEF CopyInv, CopiesFollow, Running, Calling, CopiesAgree, Between
  <1> QED
    BY <1>1, GInvHolds, CopyInvHolds, PTL

-----------------------------------------------------------------------------
(***************************************************************************)
(* The soft cap.  Where a node may begin something, the cap was not        *)
(* reached: the node before looked, or nothing was spent since.            *)
(***************************************************************************)
\* What the edges say of the node that a node follows.
LEMMA Origins ==
    ASSUME node \in Nodes, node' = Successor(st')
    PROVE  /\ node' \in Nodes \union {"end"}
           /\ node' # "intake"
           /\ node' = "decide_behavior" => node = "intake"
           /\ node' = "retrieve_context" => node = "decide_behavior" /\ st'.stop = "none"
           /\ node' = "build_plan" => node = "retrieve_context"
           /\ node' = "invoke_tool" =>
                 node = "route_action" /\ st'.stop = "none" /\ st'.next_action # "none"
           /\ node' = "validate_observation" =>
                 /\ node \in {"invoke_tool", "repair"} /\ st'.stop = "none"
                 /\ node = "invoke_tool" => st'.next_action = "execute"
           /\ node' = "judge_evidence" =>
                 node = "validate_observation" /\ st'.stop = "none" /\ st'.verdict = "valid"
           /\ node' = "repair" =>
                 /\ node = "validate_observation" /\ st'.stop = "none" /\ st'.verdict # "valid"
                 /\ RepairAllowed(st', st'.governance)
           /\ node' = "synthesize" =>
                 node = "judge_evidence" /\ ~st'.governance.soft_cap_reached
           /\ node' = "end" => node = "finalize"
  <1>1. CASE node \in {"intake", "decide_behavior", "retrieve_context", "build_plan"}
    BY <1>1 DEF Successor, Nodes
  <1>2. CASE node \in {"compile_contract", "route_action", "validate_profile", "replan",
                       "synthesize", "finalize"}
    BY <1>2 DEF Successor, Nodes
  <1>3. CASE node = "invoke_tool"
    BY <1>3 DEF Successor, Nodes
  <1>4. CASE node = "validate_observation"
    BY <1>4 DEF Successor, Nodes, RepairAllowed
  <1>5. CASE node = "judge_evidence"
    BY <1>5 DEF Successor, Nodes, route_after_evidence
  <1>6. CASE node = "repair"
    BY <1>6 DEF Successor, Nodes
  <1> QED
    BY <1>1, <1>2, <1>3, <1>4, <1>5, <1>6 DEF Nodes

CapFree ==
    \/ node \in {"intake", "retrieve_context"} /\ at # "asked"
    \/ node \in {"decide_behavior", "build_plan", "synthesize"} /\ at = "start"
    \/ node = "repair" /\ at = "started"

\* An invocation that is over has a result.
ResultKnown == phase = "idle" /\ at = "asked" => result # "none"

CapInv ==
    /\ Running /\ CapFree => ~snapshot.soft_cap_reached
    /\ node = "invoke_tool" => st.next_action # "none"
    /\ ResultKnown

LEMMA AskResults ==
    ASSUME NEW p, Ask(p)
    PROVE  ResultKnown'
  BY DEF Ask, Invoke, InvokeRefused, Reserve, ResultKnown

LEMMA ConverseResults ==
    ASSUME Converse
    PROVE  ResultKnown'
  <1>1. ASSUME NEW r, NEW res, Return(r, res), res # "none"
        PROVE  ResultKnown'
    BY <1>1 DEF Return, ResultKnown
  <1>2. ASSUME NEW actual \in Costs, NEW priced \in BOOLEAN, Answered(actual, priced)
        PROVE  ResultKnown'
    BY <1>1, <1>2 DEF Answered
  <1>3. ASSUME NEW actual \in Costs, NEW priced \in BOOLEAN,
               NEW category \in {"unavailable", "malformed"}, NEW cut \in BOOLEAN,
               FirstCallFailed(actual, priced, category, cut)
        PROVE  ResultKnown'
    <2>1. StopReasonOf(category) # "none"
      BY DEF StopReasonOf
    <2>2. CASE phase' = "repairing"
      BY <2>2 DEF ResultKnown
    <2> QED
      BY <1>1, <1>3, <2>1, <2>2 DEF FirstCallFailed
  <1>4. ASSUME NEW actual \in Costs, NEW priced \in BOOLEAN, RepairCallFailed(actual, priced)
        PROVE  ResultKnown'
    BY <1>1, <1>4 DEF RepairCallFailed
  <1>5. CASE ConsumeRepair
    <2>1. CASE phase' = "rereserving"
      BY <2>1 DEF ResultKnown
    <2> QED
      BY <1>1, <1>5, <2>1 DEF ConsumeRepair
  <1>6. ASSUME NEW cost \in Costs, RepairCall(cost)
        PROVE  ResultKnown'
    <2>1. CASE Reserve(cost, "recalling")
      BY <2>1 DEF Reserve, ResultKnown
    <2>2. CASE \E reason \in {ReserveLimit(cost), "internal_error"} \ {"none"} :
                  Return("blocked", reason)
      BY <1>1, <2>2
    <2> QED
      BY <1>6, <2>1, <2>2 DEF RepairCall
  <1>7. CASE Cancel
    BY <1>7 DEF Cancel, ResultKnown
  <1> QED
    BY <1>2, <1>3, <1>4, <1>5, <1>6, <1>7 DEF Converse, Progress

\* A node that ends before the plan or by leaving the loop.
LEMMA EndKeepsCap ==
    ASSUME CapInv, node \in Nodes, NEW F, NodeEnds(F),
           node \in {"intake", "retrieve_context"} =>
              ~snapshot.soft_cap_reached /\ ~snapshot'.soft_cap_reached,
           node = "decide_behavior" /\ st'.stop = "none" => ~snapshot'.soft_cap_reached,
           node = "judge_evidence" => st'.governance = snapshot'
    PROVE  CapInv'
  BY Origins DEF CapInv, CapFree, NodeEnds, ResultKnown

LEMMA CapOfEndings ==
    ASSUME GInv, TypeOK, CapInv, NEW F, NodeEnds(F), UNCHANGED vars, phase = "idle",
           node \in Nodes \ {"judge_evidence", "decide_behavior"}, at # "asked" \/ node # "intake",
           node \in {"intake", "retrieve_context"} => at # "asked"
    PROVE  CapInv'
  <1>1. UNCHANGED snapshot
    BY DEF vars, ledgerVars
  <1>2. node \in {"intake", "retrieve_context"} => ~snapshot.soft_cap_reached
    BY DEF CapInv, CapFree, Running
  <1> QED
    BY <1>1, <1>2, EndKeepsCap

LEMMA AskKeepsCap ==
    ASSUME TypeOK, CapInv, NEW p, Ask(p)
    PROVE  CapInv'
  BY AskEffect, AskResults DEF CapInv, CapFree

LEMMA CapInvStep ==
    ASSUME GInv, TypeOK, TypeOK', CopyInv, CapInv, [GraphNext]_allVars
    PROVE  CapInv'
  <1>1. CASE intake
    <2>1. In("intake", "start") /\ Untouched /\ NodeEnds({"stop"})
      BY <1>1, IntakeEffect
    <2> QED
      BY <2>1, CapOfEndings DEF In, Untouched, Nodes
  <1>2. CASE decide_behavior
    <2>1. CASE Ask("behavior")
      BY <2>1, AskKeepsCap
    <2>2. CASE /\ Obtained("decide_behavior") /\ Untouched
               /\ NodeEnds(RecordFields \union {"stop"})
               /\ st'.stop = "none" => ~snapshot.soft_cap_reached
      <3>1. node = "decide_behavior" /\ node \in Nodes /\ UNCHANGED snapshot
        BY <2>2, UntouchedIdle DEF Obtained, In, Nodes
      <3> QED
        BY <2>2, <3>1, EndKeepsCap
    <2> QED
      BY <1>2, <2>1, <2>2, DecideBehaviorEffect
  <1>3. CASE retrieve_context
    <2>1. phase = "idle" /\ node = "retrieve_context" /\ node \in Nodes
      BY <1>3, RetrieveContextEffect DEF Nodes
    <2>2. CASE /\ consume_tool("other")
               /\ at \in {"start", "tool"}
               /\ Moves("tool") \/ Moves("schema")
      <3>1. snapshot'.soft_cap_reached = snapshot.soft_cap_reached
        BY <2>2, ToolConsumed
      <3> QED
        BY <2>1, <2>2, <3>1 DEF CapInv, CapFree, Running, Moves, ResultKnown
    <2>3. CASE /\ UNCHANGED vars
               /\ at \in {"start", "tool", "schema"}
               /\ NodeEnds({"observations", "tool_call_traces", "governance", "stop"})
      BY <2>1, <2>3, CapOfEndings
    <2> QED
      BY <1>3, <2>2, <2>3, RetrieveContextEffect
  <1>4. CASE build_plan
    <2>1. CASE Ask("plan")
      BY <2>1, AskKeepsCap
    <2>2. CASE /\ Obtained("build_plan") /\ Untouched
               /\ NodeEnds(RecordFields \union {"plan", "stop"})
      BY <2>2, CapOfEndings DEF Obtained, In, Untouched, Nodes
    <2> QED
      BY <1>4, <2>1, <2>2, BuildPlanEffect
  <1>5. CASE compile_contract
    BY <1>5, CompileContractEffect, CapOfEndings DEF In, Untouched, Nodes
  <1>6. CASE route_action
    <2>1. CASE Ask("action")
      BY <2>1, AskKeepsCap
    <2>2. ASSUME NEW F, NodeEnds(F), Untouched, phase = "idle", node = "route_action"
          PROVE  CapInv'
      BY <2>2, CapOfEndings DEF Untouched, Nodes
    <2> QED
      BY <1>6, <2>1, <2>2, RouteActionEffect DEF Obtained, In
  <1>7. CASE invoke_tool
    <2>1. node = "invoke_tool" /\ node \in Nodes
      BY <1>7 DEF invoke_tool, In, Nodes
    <2>2. ASSUME NEW F, NodeEnds(F)
          PROVE  CapInv'
      BY <2>1, <2>2, EndKeepsCap
    <2>3. CASE Moves("tool")
      BY <2>1, <2>3 DEF CapInv, CapFree, Moves, ResultKnown
    <2> QED
      BY <1>7, <2>2, <2>3, InvokeToolEffect
  <1>8. CASE validate_profile
    BY <1>8, ValidateProfileEffect, CapOfEndings DEF In, Untouched, Nodes
  <1>9. CASE validate_observation
    <2>1. node = "validate_observation" /\ node \in Nodes
      BY <1>9 DEF validate_observation, In, Nodes
    <2>2. ASSUME NEW F, NodeEnds(F)
          PROVE  CapInv'
      BY <2>1, <2>2, EndKeepsCap
    <2> QED
      BY <1>9, <2>2, ValidateObservationEffect
  <1>10. CASE judge_evidence
    <2>1. /\ Rounds
          /\ NodeEnds({"action_loop_pending", "governance", "evidence", "refuted",
                       "next_action", "stop"})
      BY <1>10, JudgeEvidenceEffect
    <2>2. node = "judge_evidence" /\ node \in Nodes
      BY <1>10 DEF judge_evidence, In, Nodes
    <2> QED
      BY <2>1, <2>2, EndKeepsCap DEF Rounds
  <1>11. CASE replan
    BY <1>11, ReplanEffect, CapOfEndings DEF In, Untouched, Nodes
  <1>12. CASE repair
    <2>1. node = "repair" /\ node \in Nodes
      BY <1>12 DEF repair, Obtained, In, Nodes
    <2>2. ASSUME NEW F, NodeEnds(F)
          PROVE  CapInv'
      BY <2>1, <2>2, EndKeepsCap
    <2>3. CASE RepairRefusal = "none" /\ consume_repair(FALSE) /\ Moves("started")
      <3>1. snapshot'.soft_cap_reached = snapshot.soft_cap_reached
        BY <2>3, RepairConsumed
      <3>2. ~snapshot.soft_cap_reached
        BY <2>3 DEF RepairRefusal
      <3> QED
        BY <2>1, <2>3, <3>1, <3>2 DEF CapInv, CapFree, Moves, ResultKnown
    <2>4. CASE Ask("repair")
      BY <2>4, AskKeepsCap
    <2>5. CASE Moves("tool")
      BY <2>1, <2>5 DEF CapInv, CapFree, Moves, ResultKnown
    <2> QED
      BY <1>12, <2>2, <2>3, <2>4, <2>5, RepairEffect
  <1>13. CASE synthesize
    <2>1. CASE Ask("synthesis")
      BY <2>1, AskKeepsCap
    <2>2. CASE /\ Obtained("synthesize") /\ Untouched
               /\ NodeEnds(RecordFields \union {"final", "stop"})
      BY <2>2, CapOfEndings DEF Obtained, In, Untouched, Nodes
    <2> QED
      BY <1>13, <2>1, <2>2, SynthesizeEffect
  <1>14. CASE finalize
    BY <1>14, FinalizeEffect, CapOfEndings DEF In, Untouched, Nodes
  <1>15. CASE InvocationFailed
    <2>1. /\ node \in {"decide_behavior", "build_plan", "route_action", "synthesize"}
          /\ NodeEnds(RecordFields \union {"stop", "next_action", "action_loop_pending"})
          /\ result # "output" /\ st'.stop \in AfterWarning(result)
      BY <1>15, InvocationFailedEffect
    <2>2. node \in Nodes
      BY <2>1 DEF Nodes
    <2>3. CASE st'.stop # "none"
      BY <2>1, <2>2, <2>3, EndKeepsCap
    <2>4. CASE st'.stop = "none"
      <3>1. result # "none"
        BY <1>15 DEF InvocationFailed, CapInv, ResultKnown
      <3>2. st'.stop # "none"
        BY <2>1, <3>1 DEF AfterWarning, UnlessRefused, BudgetStopReasons
      <3> QED
        BY <2>4, <3>2
    <2> QED
      BY <2>3, <2>4
  <1>16. CASE Converse
    <2>1. UNCHANGED <<node, at, st>> /\ phase \notin {"idle", "cancelled"}
      BY <1>16, ConverseEffect
    <2>2. at = "asked"
      BY <2>1 DEF CopyInv
    <2> QED
      BY <1>16, <2>1, <2>2, ConverseResults DEF CapInv, CapFree
  <1>17. CASE CancelRun
    BY <1>17 DEF CancelRun, CapInv, CapFree, Running, ResultKnown, vars, invokerVars
  <1>18. CASE GraphClock
    BY <1>18
    DEF GraphClock, Clock, Expire, invokerVars, graphVars, CapInv, CapFree, Running, ResultKnown
  <1>19. CASE UNCHANGED allVars
    BY <1>19
    DEF allVars, vars, ledgerVars, invokerVars, graphVars, CapInv, CapFree, Running,
        ResultKnown
  <1> QED
    BY <1>1, <1>2, <1>3, <1>4, <1>5, <1>6, <1>7, <1>8, <1>9, <1>10, <1>11, <1>12, <1>13,
       <1>14, <1>15, <1>16, <1>17, <1>18, <1>19
    DEF GraphNext, Work

LEMMA CapInvInit ==
    ASSUME GraphInit
    PROVE  CapInv
  BY DEF GraphInit, Init, LedgerInit, CapInv, CapFree, ResultKnown

LEMMA CapInvHolds == GraphSpec => []CapInv
  <1>1. GraphInit => CapInv
    BY CapInvInit
  <1>2. GInv /\ TypeOK /\ TypeOK' /\ CopyInv /\ CapInv /\ [GraphNext]_allVars => CapInv'
    BY CapInvStep
  <1>3. GraphSpec => [](GInv /\ TypeOK)
    BY GInvHolds, RunWithinLimits, PTL
  <1> QED
    BY <1>1, <1>2, <1>3, CopyInvHolds, PTL DEF GraphSpec

\* What a step may do once the cap was reached.
NothingNew ==
    /\ phase = "idle" => phase' = "idle"
    /\ snapshot'.profile_calls = snapshot.profile_calls
    /\ snapshot'.tool_calls > snapshot.tool_calls => st.next_action = "execute"

LEMMA NothingConsumed ==
    ASSUME TypeOK, UNCHANGED vars \/ ConsumePendingLoop
    PROVE  NothingNew
  <1>1. snapshot.tool_calls \in Nat
    BY DEF TypeOK, GovernanceSnapshot
  <1>2. CASE UNCHANGED vars
    BY <1>1, <1>2 DEF vars, ledgerVars, invokerVars, NothingNew
  <1>3. CASE consume_action_loop /\ UNCHANGED <<expired, invokerVars>>
    BY <1>1, <1>3, RoundConsumed DEF invokerVars, NothingNew
  <1> QED
    BY <1>2, <1>3 DEF ConsumePendingLoop

LEMMA NothingAsked ==
    ASSUME GInv, TypeOK, CapInv, snapshot.soft_cap_reached,
           \/ intake \/ decide_behavior \/ retrieve_context \/ build_plan
           \/ compile_contract \/ route_action \/ synthesize \/ InvocationFailed
    PROVE  UNCHANGED vars
  <1>1. CASE intake \/ compile_contract \/ InvocationFailed
    BY <1>1, IntakeEffect, CompileContractEffect, InvocationFailedEffect DEF Untouched
  <1>2. CASE decide_behavior
    BY <1>2, DecideBehaviorEffect DEF CapInv, CapFree, Running, In, Untouched
  <1>3. CASE retrieve_context
    <2>1. ~(phase = "idle" /\ node = "retrieve_context" /\ at # "asked")
      BY DEF CapInv, CapFree, Running
    <2> QED
      BY <1>3, <2>1, RetrieveContextEffect
  <1>4. CASE build_plan
    BY <1>4, BuildPlanEffect DEF CapInv, CapFree, Running, In, Untouched
  <1>5. CASE route_action
    BY <1>5, RouteActionEffect DEF RouteRefusal, Untouched
  <1>6. CASE synthesize
    BY <1>6, SynthesizeEffect DEF CapInv, CapFree, Running, In, Untouched
  <1> QED
    BY <1>1, <1>2, <1>3, <1>4, <1>5, <1>6

LEMMA NothingNewStep ==
    ASSUME GInv, TypeOK, TypeOK', CapInv, snapshot.soft_cap_reached, [GraphNext]_allVars
    PROVE  NothingNew
  <1>1. CASE \/ intake \/ decide_behavior \/ retrieve_context \/ build_plan
             \/ compile_contract \/ route_action \/ synthesize \/ InvocationFailed
    BY <1>1, NothingAsked, NothingConsumed
  <1>2. CASE invoke_tool
    <2>1. CASE UNCHANGED vars \/ ConsumePendingLoop
      BY <2>1, NothingConsumed
    <2>2. CASE /\ In("invoke_tool", "start") /\ ToolRefusal = "none"
               /\ consume_tool(ActionType(st.next_action))
               /\ UNCHANGED invokerVars
      <3>1. st.next_action \in {"none", "execute", "profile"}
        BY DEF GInv, GraphTypeOK, AgentState
      <3>2. st.next_action = "execute"
        BY <2>2, <3>1 DEF ToolRefusal, CapInv, In
      <3> QED
        BY <2>2, <3>2, ToolConsumed DEF ActionType, invokerVars, NothingNew
    <2> QED
      BY <1>2, <2>1, <2>2, InvokeToolEffect DEF Untouched, Rounds
  <1>3. CASE validate_observation \/ judge_evidence
    BY <1>3, ValidateObservationEffect, JudgeEvidenceEffect, NothingConsumed DEF Rounds
  <1>4. CASE validate_profile \/ replan \/ finalize
    BY <1>4, ValidateProfileEffect, ReplanEffect, FinalizeEffect, NothingConsumed
    DEF Untouched
  <1>5. CASE repair
    <2>1. CASE UNCHANGED vars
      BY <2>1, NothingConsumed
    <2>2. ~(In("repair", "started") /\ Ask("repair"))
      BY DEF CapInv, CapFree, Running, In
    <2>3. RepairRefusal # "none"
      BY DEF RepairRefusal
    <2>4. CASE In("repair", "asked") /\ consume_tool("execute_sql") /\ UNCHANGED invokerVars
      <3>1. st.next_action = "execute"
        BY <2>4 DEF GInv, ObservationFits, In
      <3> QED
        BY <2>4, <3>1, ToolConsumed DEF invokerVars, NothingNew
    <2> QED
      BY <1>5, <2>1, <2>2, <2>3, <2>4, RepairEffect DEF Untouched
  <1>6. CASE Converse
    <2>1. snapshot.tool_calls \in Nat
      BY DEF TypeOK, GovernanceSnapshot
    <2> QED
      BY <1>6, <2>1, ConverseEffect DEF CountsKept, NothingNew
  <1>7. CASE CancelRun \/ UNCHANGED allVars
    BY <1>7, NothingConsumed DEF CancelRun, allVars
  <1>8. CASE GraphClock
    <2>1. snapshot.tool_calls \in Nat
      BY DEF TypeOK, GovernanceSnapshot
    <2> QED
      BY <1>8, <2>1 DEF GraphClock, Clock, Expire, invokerVars, NothingNew
  <1> QED
    BY <1>1, <1>2, <1>3, <1>4, <1>5, <1>6, <1>7, <1>8 DEF GraphNext, Work

\* Once the soft cap is reached the graph asks no model for anything new, takes no
\* profile and executes only the query it had chosen, for every setting of the
\* limits and every order of failures: every node that begins something either
\* looked itself or follows one that did.
THEOREM NothingNewHolds == GraphSpec => NothingNewAfterSoftCap
  <1>1. GInv /\ TypeOK /\ TypeOK' /\ CapInv /\ [GraphNext]_allVars
          => [snapshot.soft_cap_reached => NothingNew]_allVars
    BY NothingNewStep
  <1>2. GraphSpec => [](GInv /\ TypeOK)
    BY GInvHolds, RunWithinLimits, PTL
  <1> QED
    BY <1>1, <1>2, CapInvHolds, PTL DEF GraphSpec, NothingNewAfterSoftCap, NothingNew

-----------------------------------------------------------------------------
(***************************************************************************)
(* The answer.  Until it is given the stop reason claims no more than the  *)
(* evidence shows; once it is given it is one its validator accepts, and   *)
(* true of the evidence.                                                   *)
(***************************************************************************)
StopTrue(s) ==
    /\ s.stop # "evidence_partial"
    /\ s.stop = "answer_complete" => Complete(s)
    /\ s.stop = "premise_not_met" => PremiseNotMet(s)

\* What EvidenceReported says of the end, of any state with an answer.
AnswerTrue(s) ==
    s.final.status # "internal_error" =>
        /\ s.final.evidence = s.evidence
        /\ s.evidence > 0 => s.final.status \in {"completed", "partial"}
        /\ s.final.status = "completed" => Complete(s) \/ PremiseNotMet(s)

AnswerInv ==
    /\ st.final = NoFinal => StopTrue(st)
    /\ st.final # NoFinal =>
          /\ node \in {"finalize", "end", "cancelled"}
          /\ st.final.status # "none"
          /\ FinalAllowed
          /\ AnswerTrue(st)
    /\ node = "end" => st.final # NoFinal

\* _deterministic_answer: what it says of a state whose stop reason is true.
LEMMA AnswerAllowed ==
    ASSUME st \in AgentState, StopTrue(st), st'.final = DeterministicAnswer(st)
    PROVE  st'.final.status # "none" /\ FinalAllowed'
  <1> DEFINE f == st'.final
  <1>1. CASE st.stop \in {"internal_error", "result_truncated", "sql_timeout", "task_timeout"}
    <2>1. \/ f.status = "internal_error" /\ f.reason = "internal_error"
          \/ f.status = "partial" /\ f.reason \in {"result_truncated", "sql_timeout", "task_timeout"}
          \/ f.status = "execution_failed" /\ f.reason \in {"sql_timeout", "task_timeout"}
      BY <1>1 DEF DeterministicAnswer, TimeoutAnswer, Answer
    <2> QED
      BY <2>1 DEF FinalAllowed
  <1>2. CASE st.stop \notin {"internal_error", "result_truncated", "sql_timeout",
                             "task_timeout"}
    <2>1. CASE Complete(st)
      <3>1. f.status = "completed" /\ f.reason = "answer_complete"
        BY <1>2, <2>1 DEF DeterministicAnswer, Answer
      <3> QED
        BY <3>1 DEF FinalAllowed
    <2>2. CASE ~Complete(st) /\ (PremiseNotMet(st) \/ st.evidence > 0)
      <3>1. \/ f.status = "completed" /\ f.reason = "premise_not_met"
            \/ f.status = "partial" /\ f.reason = "evidence_partial"
        BY <1>2, <2>2 DEF DeterministicAnswer, Answer
      <3> QED
        BY <3>1 DEF FinalAllowed
    <2>3. CASE ~Complete(st) /\ ~PremiseNotMet(st) /\ ~(st.evidence > 0)
      <3> DEFINE reason == IF st.stop = "none" THEN "answer_contract_unmet" ELSE st.stop
      <3>1. f = Answer(StatusForReason(reason), reason, 0)
        BY <1>2, <2>3 DEF DeterministicAnswer
      <3>2. st.stop \in StopReasons \union {"none"}
        BY DEF AgentState
      <3>3. reason \in (BudgetStopReasons \ {"task_timeout"}) \union BehaviorReasons \union
                       {"database_error", "sensitive_result_blocked", "sql_policy_rejected",
                        "plan_invalid", "model_unavailable", "structured_output_invalid",
                        "answer_contract_unmet", "repair_failed"}
        BY <1>2, <2>3, <3>2 DEF StopTrue, StopReasons, SafeErrorReasons, BudgetStopReasons
      <3> HIDE DEF reason
      <3>4. f.status = StatusForReason(reason) /\ f.reason = reason
        BY <3>1 DEF Answer
      <3> HIDE DEF f
      <3>5. f.status # "none" /\ FinalAllowed'
        <4>1. CASE reason \in BudgetStopReasons \ {"task_timeout"}
          BY <3>4, <4>1 DEF StatusForReason, FinalAllowed, BudgetStopReasons, f
        <4>2. CASE reason \in BehaviorReasons
          BY <3>4, <4>2 DEF StatusForReason, FinalAllowed, BudgetStopReasons, BehaviorReasons, f
        <4>3. CASE reason \in {"database_error", "sensitive_result_blocked",
                               "sql_policy_rejected", "plan_invalid", "model_unavailable",
                               "structured_output_invalid", "answer_contract_unmet",
                               "repair_failed"}
          BY <3>4, <4>3 DEF StatusForReason, FinalAllowed, BudgetStopReasons, f
        <4> QED
          BY <3>3, <4>1, <4>2, <4>3
      <3> QED
        BY <3>5 DEF f
    <2> QED
      BY <2>1, <2>2, <2>3
  <1> QED
    BY <1>1, <1>2

LEMMA AnswerIsTrue ==
    ASSUME NEW s \in AgentState, StopTrue(s)
    PROVE  LET a == DeterministicAnswer(s)
           IN  a.status # "internal_error" =>
                  /\ a.evidence = s.evidence
                  /\ s.evidence > 0 => a.status \in {"completed", "partial"}
                  /\ a.status = "completed" => Complete(s) \/ PremiseNotMet(s)
  <1>1. s.evidence \in Nat
    BY DEF AgentState
  <1>2. ~(s.evidence > 0) => s.evidence = 0
    BY <1>1
  <1>3. \A reason : reason # "result_truncated" =>
           StatusForReason(reason) # "completed"
    BY DEF StatusForReason
  <1> QED
    BY <1>2, <1>3 DEF DeterministicAnswer, TimeoutAnswer, Answer

\* A node before the answer ends with a reason that claims nothing.
LEMMA EndClaimsNothing ==
    ASSUME AnswerInv, node \in Nodes \ {"finalize"}, NEW F, NodeEnds(F), "final" \notin F,
           st'.stop \in PlainStops
    PROVE  AnswerInv'
  <1>1. st.final = NoFinal
    BY DEF AnswerInv, Nodes
  <1>2. st'.final = st.final
    BY DEF NodeEnds, Agree, Fields
  <1>3. StopTrue(st')
    BY DEF StopTrue, PlainStops, JudgedStops
  <1>4. node' # "end"
    BY Origins DEF NodeEnds
  <1> QED
    BY <1>1, <1>2, <1>3, <1>4 DEF AnswerInv, NoFinal

\* A step within a node.
LEMMA WithinKeepsAnswer ==
    ASSUME AnswerInv, UNCHANGED <<node, st>>
    PROVE  AnswerInv'
  BY DEF AnswerInv, StopTrue, AnswerTrue, FinalAllowed

LEMMA AnswerInvStep ==
    ASSUME GInv, GInv', TypeOK, TypeOK', AnswerInv, [GraphNext]_allVars
    PROVE  AnswerInv'
  <1>0. st \in AgentState /\ st' \in AgentState
    BY DEF GInv, GraphTypeOK
  <1>1. "none" \in PlainStops /\ "internal_error" \in PlainStops /\ OtherStops \subseteq PlainStops
        /\ "missing_required_fields" \in PlainStops /\ "plan_invalid" \in PlainStops
    BY DEF OtherStops, PlainStops, JudgedStops, StopReasons, BehaviorReasons, SafeErrorReasons
  <1>2. ASSUME NEW p, Ask(p)
        PROVE  AnswerInv'
    BY <1>2, AskEffect, WithinKeepsAnswer
  <1>3. ASSUME NEW place, Moves(place)
        PROVE  AnswerInv'
    BY <1>3, WithinKeepsAnswer DEF Moves
  <1>4. ASSUME NEW F, NodeEnds(F), "final" \notin F, st'.stop \in PlainStops,
               node \in Nodes \ {"finalize"}
        PROVE  AnswerInv'
    BY <1>4, EndClaimsNothing
  <1>5. CASE intake \/ compile_contract \/ validate_profile \/ replan
    BY <1>1, <1>4, <1>5, IntakeEffect, CompileContractEffect, ValidateProfileEffect, ReplanEffect
    DEF In, Nodes
  <1>6. CASE decide_behavior
    BY <1>1, <1>2, <1>4, <1>6, DecideBehaviorEffect DEF Obtained, In, Nodes, RecordFields
  <1>7. CASE retrieve_context
    BY <1>1, <1>3, <1>4, <1>7, RetrieveContextEffect DEF Nodes
  <1>8. CASE build_plan
    BY <1>1, <1>2, <1>4, <1>8, BuildPlanEffect DEF Obtained, In, Nodes, RecordFields
  <1>9. CASE route_action
    BY <1>1, <1>2, <1>4, <1>9, RouteActionEffect DEF Obtained, In, Nodes, RecordFields
  <1>10. CASE invoke_tool
    BY <1>1, <1>3, <1>4, <1>10, InvokeToolEffect DEF In, Nodes, ObservedFields
  <1>11. CASE validate_observation
    BY <1>1, <1>4, <1>11, ValidateObservationEffect DEF In, Nodes, ValidatedFields
  <1>12. CASE judge_evidence
    <2>1. /\ node = "judge_evidence" /\ node \in Nodes \ {"finalize"}
          /\ NodeEnds({"action_loop_pending", "governance", "evidence", "refuted",
                       "next_action", "stop"})
      BY <1>12, JudgeEvidenceEffect DEF In, Nodes
    <2>2. st.final = NoFinal /\ st'.final = st.final
      BY <2>1 DEF AnswerInv, NodeEnds, Agree, Fields
    <2>3. StopTrue(st')
      BY <1>12, JudgeEvidenceEffect DEF StopTrue
    <2>4. node' # "end"
      BY <2>1, Origins DEF NodeEnds
    <2> QED
      BY <2>2, <2>3, <2>4 DEF AnswerInv, NoFinal
  <1>13. CASE repair
    BY <1>1, <1>2, <1>3, <1>4, <1>13, RepairEffect DEF In, Nodes, RecordFields, ObservedFields
  <1>14. CASE synthesize
    <2>1. CASE /\ Obtained("synthesize")
               /\ NodeEnds(RecordFields \union {"final", "stop"})
               /\ st'.final = DeterministicAnswer(st)
      <3>1. node = "synthesize" /\ node' = "finalize"
        BY <2>1 DEF Obtained, In, NodeEnds, Successor
      <3>2. StopTrue(st)
        BY <3>1 DEF AnswerInv
      <3>3. st'.evidence = st.evidence /\ st'.plan = st.plan /\ st'.refuted = st.refuted
        BY <2>1 DEF NodeEnds, Agree, Fields, RecordFields
      <3>4. AnswerTrue(st')
        BY <1>0, <2>1, <3>2, <3>3, AnswerIsTrue DEF AnswerTrue, Complete, PremiseNotMet
      <3>5. st'.final.status # "none" /\ FinalAllowed'
        BY <1>0, <2>1, <3>2, AnswerAllowed
      <3> QED
        BY <3>1, <3>4, <3>5 DEF AnswerInv, NoFinal
    <2> QED
      BY <1>2, <1>14, <2>1, SynthesizeEffect
  <1>15. CASE finalize
    <2>1. /\ node = "finalize" /\ NodeEnds({"final", "stop", "governance"})
          /\ st'.final = IF st.final = NoFinal THEN DeterministicAnswer(st) ELSE st.final
      BY <1>15, FinalizeEffect DEF In
    <2>2. node' = "end"
      BY <2>1 DEF NodeEnds, Successor
    <2>3. st'.evidence = st.evidence /\ st'.plan = st.plan /\ st'.refuted = st.refuted
      BY <2>1 DEF NodeEnds, Agree, Fields
    <2>4. CASE st.final = NoFinal
      <3>1. StopTrue(st) /\ st'.final = DeterministicAnswer(st)
        BY <2>1, <2>4 DEF AnswerInv
      <3>2. AnswerTrue(st')
        BY <1>0, <2>3, <3>1, AnswerIsTrue DEF AnswerTrue, Complete, PremiseNotMet
      <3>3. st'.final.status # "none" /\ FinalAllowed'
        BY <1>0, <3>1, AnswerAllowed
      <3> QED
        BY <2>2, <3>2, <3>3 DEF AnswerInv, NoFinal
    <2>5. CASE st.final # NoFinal
      <3>1. st'.final = st.final
        BY <2>1, <2>5
      <3>2. AnswerTrue(st') /\ st'.final.status # "none"
        BY <2>3, <2>5, <3>1 DEF AnswerInv, AnswerTrue, Complete, PremiseNotMet
      <3>3. FinalAllowed'
        <4>1. st.final.status \in FinalStatuses
          BY <1>0, <2>5 DEF AgentState, AnswerInv
        <4>2. st'.final.status = st.final.status /\ st'.final.reason = st.final.reason
          BY <3>1
        <4>3. FinalAllowed
          BY <2>5 DEF AnswerInv
        <4> QED
          BY <4>1, <4>2, <4>3 DEF FinalAllowed, FinalStatuses
      <3> QED
        BY <2>2, <2>5, <3>1, <3>2, <3>3 DEF AnswerInv
    <2> QED
      BY <2>4, <2>5
  <1>16. CASE InvocationFailed
    <2>1. /\ node \in {"decide_behavior", "build_plan", "route_action", "synthesize"}
          /\ NodeEnds(RecordFields \union {"stop", "next_action", "action_loop_pending"})
          /\ result # "output" /\ st'.stop \in AfterWarning(result)
      BY <1>16, InvocationFailedEffect
    <2>2. result \in Results
      BY DEF TypeOK
    <2>3. st'.stop \in PlainStops
      BY <2>1, <2>2
      DEF Results, AfterWarning, UnlessRefused, PlainStops, JudgedStops, StopReasons,
          BudgetStopReasons, SafeErrorReasons
    <2> QED
      BY <1>4, <2>1, <2>3 DEF Nodes, RecordFields
  <1>17. CASE Converse \/ GraphClock \/ UNCHANGED allVars
    BY <1>17, WithinKeepsAnswer DEF Converse, GraphClock, graphVars, allVars
  <1>18. CASE CancelRun
    BY <1>18 DEF CancelRun, AnswerInv, StopTrue, AnswerTrue, FinalAllowed, Nodes
  <1> QED
    BY <1>5, <1>6, <1>7, <1>8, <1>9, <1>10, <1>11, <1>12, <1>13, <1>14, <1>15, <1>16,
       <1>17, <1>18
    DEF GraphNext, Work

LEMMA AnswerInvInit ==
    ASSUME GraphInit
    PROVE  AnswerInv
  BY DEF GraphInit, new_agent_state, AnswerInv, StopTrue, NoFinal

\* Every answer is one its validator accepts, with all the evidence that was found
\* unless an internal error hides it, and "completed" only where the evidence
\* resolves the plan: however the run got there.
THEOREM AnswersSound == GraphSpec => []AnswerSound
  <1>1. GraphInit => AnswerInv
    BY AnswerInvInit
  <1>2. GInv /\ GInv' /\ TypeOK /\ TypeOK' /\ AnswerInv /\ [GraphNext]_allVars => AnswerInv'
    BY AnswerInvStep
  <1>3. GraphSpec => [](GInv /\ TypeOK)
    BY GInvHolds, RunWithinLimits, PTL
  <1>4. AnswerInv => AnswerSound
    <2>1. AnswerInv /\ st.final = NoFinal => FinalAllowed
      BY DEF AnswerInv, FinalAllowed, NoFinal
    <2>2. AnswerInv => FinalAllowed
      BY <2>1 DEF AnswerInv
    <2>3. AnswerInv => EvidenceReported
      BY DEF AnswerInv, AnswerTrue, EvidenceReported
    <2> QED
      BY <2>2, <2>3 DEF AnswerSound
  <1> QED
    BY <1>1, <1>2, <1>3, <1>4, PTL DEF GraphSpec

-----------------------------------------------------------------------------
(***************************************************************************)
(* The rounds.  The ledger's executions are the rounds it counted, the     *)
(* execution of the round under way, and the repairs of results: so much   *)
(* is known of every node that tells a repaired result from a new one.     *)
(***************************************************************************)
\* The round under way was executed, and is not counted yet.
Executed == st.action_loop_pending /\ ~(node = "invoke_tool" /\ at = "start")

\* A repair was consumed, and its query is not executed yet.
RepairDue == node = "repair" /\ at \in {"started", "asked"}

Balanced ==
    /\ snapshot.action_loops + (IF Executed THEN 1 ELSE 0) <= snapshot.execute_calls
    /\ snapshot.execute_calls + (IF RepairDue THEN 1 ELSE 0)
          <= snapshot.action_loops + (IF Executed THEN 1 ELSE 0)
             + (snapshot.repair_count - snapshot.structured_output_repair_count)

ActionChosen ==
    /\ st.action_loop_pending =>
          node \in {"invoke_tool", "validate_observation", "judge_evidence"}
    /\ node = "invoke_tool" =>
          /\ st.next_action # "none"
          /\ st.action_loop_pending <=> st.next_action = "execute"

\* A result to be validated: of the round, or of a repair.
ResultExpected ==
    node = "validate_observation" =>
        /\ at = "start"
        /\ \/ st.action_loop_pending /\ st.observations >= 1
           \/ /\ st.observations >= 2
              /\ snapshot.repair_count = Len(st.repair_history) + 1
              /\ st.verdict = "repairable"
              /\ st.validated = st.observations - 1

\* A repair runs at most once, before any other.
RepairPrepared ==
    node = "repair" =>
        /\ st.verdict = "repairable"
        /\ st.validated = st.observations
        /\ st.observations >= 1
        /\ st.repair_history = <<>>
        /\ snapshot.repair_count = IF at = "start" THEN 0 ELSE 1
        /\ at \in {"asked", "tool"} =>
              record = "none" /\ purpose = "repair" /\ phase \in {"idle", "calling"}

RoundsFollow == Balanced /\ ActionChosen /\ ResultExpected /\ RepairPrepared

RoundsInv == Running => RoundsFollow

CountsTyped ==
    /\ snapshot.action_loops \in Nat
    /\ snapshot.execute_calls \in Nat
    /\ snapshot.repair_count \in Nat
    /\ snapshot.structured_output_repair_count \in Nat

LEMMA CountsAreTyped ==
    ASSUME TypeOK
    PROVE  CountsTyped
  BY DEF TypeOK, GovernanceSnapshot, CountsTyped

\* A step that counts nothing.
LEMMA CountsKeepBalance ==
    ASSUME TypeOK, TypeOK', Balanced, CountsKept, Executed' <=> Executed,
           RepairDue' => RepairDue
    PROVE  Balanced'
  BY CountsAreTyped DEF CountsTyped, Balanced, CountsKept

\* The round is counted, if there is one.
LEMMA RoundsKeepBalance ==
    ASSUME TypeOK, TypeOK', Balanced, Rounds, st.action_loop_pending \in BOOLEAN,
           st.action_loop_pending => Executed, ~RepairDue'
    PROVE  Balanced'
  <1>1. ~Executed' /\ CountsTyped
    BY CountsAreTyped DEF Rounds, Executed
  <1>2. CASE st.action_loop_pending
    <2>1. consume_action_loop
      BY <1>2 DEF Rounds, ConsumePendingLoop
    <2> QED
      BY <1>1, <1>2, <2>1, RoundConsumed DEF Balanced, CountsTyped
  <1>3. CASE ~st.action_loop_pending
    <2>1. UNCHANGED snapshot /\ ~Executed
      BY <1>3 DEF Rounds, ConsumePendingLoop, vars, ledgerVars, Executed
    <2> QED
      BY <1>1, <2>1 DEF Balanced, CountsTyped
  <1> QED
    BY <1>2, <1>3

LEMMA UntouchedCounts ==
    ASSUME UNCHANGED vars
    PROVE  CountsKept
  BY DEF vars, ledgerVars, CountsKept

\* A node ends without an action, a result or a repair for the next.
LEMMA EndKeepsRounds ==
    ASSUME Balanced', ~st'.action_loop_pending,
           node' \notin {"invoke_tool", "validate_observation", "repair"}
    PROVE  RoundsInv'
  BY DEF RoundsInv, RoundsFollow, ActionChosen, ResultExpected, RepairPrepared

\* Nodes outside the loop, and those of the loop that neither execute nor judge.
LEMMA OtherEndsKeepRounds ==
    ASSUME TypeOK, TypeOK', RoundsFollow, CountsKept,
           node \in Nodes \ {"route_action", "invoke_tool", "validate_observation",
                             "judge_evidence", "repair"},
           NEW F, NodeEnds(F), "action_loop_pending" \notin F
    PROVE  RoundsInv'
  <1>1. ~st.action_loop_pending /\ st'.action_loop_pending = st.action_loop_pending
    BY DEF RoundsFollow, ActionChosen, Nodes, NodeEnds, Agree, Fields
  <1>2. node' \notin {"invoke_tool", "validate_observation", "repair"}
    BY Origins DEF NodeEnds
  <1>3. Balanced'
    BY <1>1, <1>2, CountsKeepBalance DEF Executed, RepairDue, RoundsFollow
  <1> QED
    BY <1>1, <1>2, <1>3, EndKeepsRounds

LEMMA AskKeepsRounds ==
    ASSUME TypeOK, TypeOK', RoundsFollow, NEW p, Ask(p),
           node \notin {"invoke_tool", "validate_observation"},
           node = "repair" => at = "started" /\ p = "repair"
    PROVE  RoundsInv'
  <1>1. /\ at' = "asked" /\ UNCHANGED <<node, st>>
        /\ CountsKept /\ snapshot'.repair_count = snapshot.repair_count
        /\ purpose' = p /\ record' = "none" /\ phase' \in {"idle", "calling"}
    BY AskEffect
  <1>2. Balanced'
    BY <1>1, CountsKeepBalance DEF Executed, RepairDue, RoundsFollow
  <1> QED
    BY <1>1, <1>2
    DEF RoundsInv, RoundsFollow, ActionChosen, ResultExpected, RepairPrepared

LEMMA RoundsOfEarlyNodes ==
    ASSUME GInv, GInv', TypeOK, TypeOK', RoundsFollow, CapInv,
           \/ intake \/ decide_behavior \/ retrieve_context \/ build_plan
           \/ compile_contract \/ route_action \/ InvocationFailed
    PROVE  RoundsInv'
  <1>1. ASSUME NEW F, NodeEnds(F), "action_loop_pending" \notin F, UNCHANGED vars,
               node \in {"intake", "decide_behavior", "retrieve_context", "build_plan",
                         "compile_contract"}
        PROVE  RoundsInv'
    BY <1>1, UntouchedCounts, OtherEndsKeepRounds DEF Nodes
  <1>2. ASSUME NEW p, Ask(p), node \notin {"invoke_tool", "validate_observation", "repair"}
        PROVE  RoundsInv'
    BY <1>2, AskKeepsRounds
  <1>3. CASE intake
    BY <1>1, <1>3, IntakeEffect DEF In, Untouched
  <1>4. CASE decide_behavior
    BY <1>1, <1>2, <1>4, DecideBehaviorEffect DEF Obtained, In, Untouched, RecordFields
  <1>5. CASE retrieve_context
    <2>1. node = "retrieve_context"
      BY <1>5, RetrieveContextEffect
    <2>2. CASE consume_tool("other") /\ (Moves("tool") \/ Moves("schema"))
      <3>1. /\ UNCHANGED <<node, st>>
            /\ snapshot'.action_loops = snapshot.action_loops
            /\ snapshot'.execute_calls = snapshot.execute_calls + 0
            /\ snapshot'.repair_count = snapshot.repair_count
            /\ snapshot'.structured_output_repair_count
                 = snapshot.structured_output_repair_count
        BY <2>2, ToolConsumed DEF Moves
      <3>2. Balanced'
        BY <2>1, <3>1, CountsAreTyped
        DEF CountsTyped, Balanced, Executed, RepairDue, RoundsFollow
      <3> QED
        BY <2>1, <3>1, <3>2
        DEF RoundsInv, RoundsFollow, ActionChosen, ResultExpected, RepairPrepared
    <2> QED
      BY <1>1, <1>5, <2>1, <2>2, RetrieveContextEffect
  <1>6. CASE build_plan
    BY <1>1, <1>2, <1>6, BuildPlanEffect DEF Obtained, In, Untouched, RecordFields
  <1>7. CASE compile_contract
    BY <1>1, <1>7, CompileContractEffect DEF In, Untouched
  <1>8. CASE route_action
    <2>1. node = "route_action" /\ ~st.action_loop_pending
      BY <1>8, RouteActionEffect DEF Obtained, In, RoundsFollow, ActionChosen
    <2>2. ASSUME NEW F, NodeEnds(F), Untouched, st'.stop # "none", ~st'.action_loop_pending
          PROVE  RoundsInv'
      <3>1. node' = "finalize"
        BY <2>1, <2>2 DEF NodeEnds, Successor
      <3>2. Balanced'
        BY <2>1, <2>2, <3>1, UntouchedCounts, CountsKeepBalance
        DEF Executed, RepairDue, RoundsFollow, Untouched
      <3> QED
        BY <2>2, <3>1, <3>2, EndKeepsRounds
    <2>3. CASE /\ Untouched
               /\ NodeEnds({"next_action", "stop", "governance"})
               /\ st'.stop \in OtherStops \ {"none"}
      <3>1. ~st'.action_loop_pending
        BY <2>1, <2>3 DEF NodeEnds, Agree, Fields
      <3> QED
        BY <2>2, <2>3, <3>1
    <2>4. CASE /\ Untouched
               /\ NodeEnds(RecordFields \union {"next_action", "action_loop_pending", "stop"})
               /\ st'.stop = "none"
               /\ st'.next_action \in {"execute", "profile"}
               /\ st'.action_loop_pending <=> st'.next_action = "execute"
      <3>1. node' = "invoke_tool" /\ at' = "start"
        BY <2>1, <2>4 DEF NodeEnds, Successor
      <3>2. Balanced'
        BY <2>1, <2>4, <3>1, UntouchedCounts, CountsKeepBalance
        DEF Executed, RepairDue, RoundsFollow, Untouched
      <3> QED
        BY <2>4, <3>1, <3>2
        DEF RoundsInv, RoundsFollow, ActionChosen, ResultExpected, RepairPrepared
    <2>5. CASE /\ Untouched
               /\ NodeEnds(RecordFields \union {"next_action", "action_loop_pending", "stop"})
               /\ st'.stop # "none"
               /\ st'.action_loop_pending \in {st.action_loop_pending, FALSE}
      BY <2>1, <2>2, <2>5
    <2> QED
      BY <1>2, <1>8, <2>1, <2>3, <2>4, <2>5, RouteActionEffect
  <1>9. CASE InvocationFailed
    <2>1. /\ node \in {"decide_behavior", "build_plan", "route_action", "synthesize"}
          /\ NodeEnds(RecordFields \union {"stop", "next_action", "action_loop_pending"})
          /\ Untouched /\ st'.action_loop_pending = FALSE
          /\ st'.stop \in AfterWarning(result)
      BY <1>9, InvocationFailedEffect
    <2>2. st'.stop # "none"
      BY <1>9, <2>1
      DEF InvocationFailed, CapInv, ResultKnown, AfterWarning, UnlessRefused, BudgetStopReasons
    <2>3. node' = "finalize"
      BY <2>1, <2>2 DEF NodeEnds, Successor
    <2>4. Balanced'
      BY <2>1, <2>3, UntouchedCounts, CountsKeepBalance
      DEF Executed, RepairDue, RoundsFollow, ActionChosen, Untouched
    <2> QED
      BY <2>1, <2>3, <2>4, EndKeepsRounds
  <1> QED
    BY <1>3, <1>4, <1>5, <1>6, <1>7, <1>8, <1>9

LEMMA RoundsOfInvokeTool ==
    ASSUME GInv, GInv', TypeOK, TypeOK', RoundsFollow, invoke_tool
    PROVE  RoundsInv'
  <1>1. /\ node = "invoke_tool" /\ st.action_loop_pending \in BOOLEAN
        /\ st.next_action \in {"none", "execute", "profile"}
        /\ st.observations \in Nat
        /\ st.action_loop_pending <=> st.next_action = "execute"
        /\ st.next_action # "none"
    BY DEF invoke_tool, In, GInv, GraphTypeOK, AgentState, RoundsFollow, ActionChosen
  <1>2. CASE /\ at = "start" /\ consume_tool(ActionType(st.next_action)) /\ Moves("tool")
    <2>1. at' = "tool" /\ UNCHANGED <<node, st>>
      BY <1>2 DEF Moves
    <2>2. (ActionType(st.next_action) = "execute_sql") <=> st.next_action = "execute"
      BY DEF ActionType
    <2>3. /\ snapshot'.action_loops = snapshot.action_loops
          /\ snapshot'.execute_calls
               = snapshot.execute_calls + (IF st.action_loop_pending THEN 1 ELSE 0)
          /\ snapshot'.repair_count = snapshot.repair_count
          /\ snapshot'.structured_output_repair_count
               = snapshot.structured_output_repair_count
      BY <1>1, <1>2, <2>2, ToolConsumed
    <2>4. (Executed' <=> st.action_loop_pending) /\ ~Executed /\ ~RepairDue /\ ~RepairDue'
      BY <1>1, <1>2, <2>1 DEF Executed, RepairDue
    <2>5. Balanced'
      BY <2>3, <2>4, CountsAreTyped DEF CountsTyped, Balanced, RoundsFollow
    <2> QED
      BY <1>1, <2>1, <2>5
      DEF RoundsInv, RoundsFollow, ActionChosen, ResultExpected, RepairPrepared
  <1>3. CASE /\ at = "start" /\ Untouched
             /\ NodeEnds({"action_loop_pending", "governance", "stop"})
             /\ st'.action_loop_pending = FALSE
             /\ st'.stop \in PlainStops \ {"none"}
    <2>1. node' = "finalize"
      BY <1>1, <1>3 DEF NodeEnds, Successor
    <2>2. Balanced'
      BY <1>1, <1>3, <2>1, UntouchedCounts, CountsKeepBalance
      DEF Executed, RepairDue, RoundsFollow, Untouched
    <2> QED
      BY <1>3, <2>1, <2>2, EndKeepsRounds
  <1>4. ASSUME NEW F, at = "tool", Rounds, NodeEnds(F), st'.stop = "internal_error"
        PROVE  RoundsInv'
    <2>1. node' = "finalize"
      BY <1>1, <1>4 DEF NodeEnds, Successor
    <2>2. Balanced'
      BY <1>1, <1>4, <2>1, RoundsKeepBalance DEF Executed, RepairDue, RoundsFollow
    <2> QED
      BY <1>4, <2>1, <2>2, EndKeepsRounds DEF Rounds
  <1>5. CASE /\ at = "tool" /\ UNCHANGED vars
             /\ NodeEnds(ObservedFields \union {"stop"})
             /\ st'.observations = st.observations + 1
             /\ st'.stop = "none"
    <2>1. /\ st'.action_loop_pending = st.action_loop_pending
          /\ st'.next_action = st.next_action
          /\ at' = "start"
      BY <1>5 DEF NodeEnds, Agree, Fields, ObservedFields
    <2>2. /\ st.next_action = "profile" => node' = "validate_profile"
          /\ st.next_action = "execute" => node' = "validate_observation"
      BY <1>1, <1>5, <2>1 DEF NodeEnds, Successor
    <2>3. Executed' <=> Executed
      BY <1>1, <1>5, <2>1, <2>2 DEF Executed
    <2>4. Balanced'
      BY <1>1, <1>5, <2>2, <2>3, UntouchedCounts, CountsKeepBalance DEF RepairDue, RoundsFollow
    <2> QED
      BY <1>1, <1>5, <2>1, <2>2, <2>4
      DEF RoundsInv, RoundsFollow, ActionChosen, ResultExpected, RepairPrepared
  <1> QED
    BY <1>2, <1>3, <1>4, <1>5, InvokeToolEffect DEF In

LEMMA RoundsOfValidation ==
    ASSUME GInv, GInv', TypeOK, TypeOK', RoundsFollow, validate_observation
    PROVE  RoundsInv'
  <1>1. /\ node = "validate_observation" /\ st.action_loop_pending \in BOOLEAN
        /\ st.observations \in Nat /\ st.observations >= 1
        /\ st.action_loop_pending => Executed
        /\ node \in Nodes
    BY DEF validate_observation, In, GInv, GraphTypeOK, AgentState, RoundsFollow,
           ResultExpected, Executed, Nodes
  <1>2. CASE /\ Rounds
             /\ NodeEnds({"action_loop_pending", "governance", "stop"})
             /\ st'.stop \in OtherStops \ {"none"}
    <2>1. node' = "finalize"
      BY <1>1, <1>2 DEF NodeEnds, Successor
    <2>2. Balanced'
      BY <1>1, <1>2, <2>1, RoundsKeepBalance DEF RepairDue, RoundsFollow
    <2> QED
      BY <1>2, <2>1, <2>2, EndKeepsRounds DEF Rounds
  <1>3. CASE /\ Rounds
             /\ NodeEnds(ValidatedFields \union {"action_loop_pending", "governance", "stop"})
             /\ st'.validated = st.observations
             /\ st'.verdict # "valid"
    <2>1. /\ at' = "start" /\ st'.observations = st.observations
          /\ st'.action_loop_pending = FALSE /\ st'.governance = snapshot'
      BY <1>3 DEF NodeEnds, Agree, Fields, ValidatedFields, Rounds
    <2>2. \/ node' = "finalize"
          \/ node' = "repair" /\ RepairAllowed(st', st'.governance)
      BY <1>1, <1>3 DEF NodeEnds, Successor
    <2>3. Balanced'
      BY <1>1, <1>3, <2>1, RoundsKeepBalance DEF RepairDue, RoundsFollow
    <2>4. CASE node' = "finalize"
      BY <2>1, <2>3, <2>4, EndKeepsRounds
    <2>5. CASE node' = "repair" /\ RepairAllowed(st', st'.governance)
      <3>1. /\ st'.verdict = "repairable" /\ snapshot'.repair_count = 0
            /\ st'.repair_history = <<>>
        BY <2>1, <2>5 DEF RepairAllowed
      <3> QED
        BY <1>1, <1>3, <2>1, <2>3, <2>5, <3>1
        DEF RoundsInv, RoundsFollow, ActionChosen, ResultExpected, RepairPrepared
    <2> QED
      BY <2>2, <2>4, <2>5
  <1>4. CASE /\ UNCHANGED vars
             /\ NodeEnds(ValidatedFields \union {"repair_history", "stop"})
             /\ st'.stop = "none" => st'.verdict = "valid"
             /\ st'.stop # "none" => ~st.action_loop_pending
    <2>1. at' = "start" /\ st'.action_loop_pending = st.action_loop_pending
      BY <1>4 DEF NodeEnds, Agree, Fields, ValidatedFields
    <2>2. /\ st'.stop = "none" => node' = "judge_evidence"
          /\ st'.stop # "none" => node' = "finalize"
      BY <1>1, <1>4 DEF NodeEnds, Successor, RepairAllowed
    <2>3. Executed' <=> Executed
      BY <1>1, <2>1, <2>2 DEF Executed
    <2>4. Balanced'
      BY <1>1, <1>4, <2>2, <2>3, UntouchedCounts, CountsKeepBalance DEF RepairDue, RoundsFollow
    <2> QED
      BY <1>4, <2>1, <2>2, <2>4
      DEF RoundsInv, RoundsFollow, ActionChosen, ResultExpected, RepairPrepared
  <1> QED
    BY <1>2, <1>3, <1>4, ValidateObservationEffect

LEMMA RoundsOfRepair ==
    ASSUME GInv, GInv', TypeOK, TypeOK', RoundsFollow, repair
    PROVE  RoundsInv'
  <1>1. /\ node = "repair" /\ ~st.action_loop_pending
        /\ st.observations \in Nat
        /\ RepairPrepared
    BY DEF repair, Obtained, In, GInv, GraphTypeOK, AgentState, RoundsFollow, ActionChosen
  <1>2. CASE at = "start" /\ consume_repair(FALSE) /\ Moves("started")
    <2>1. at' = "started" /\ UNCHANGED <<node, st>>
      BY <1>2 DEF Moves
    <2>2. /\ snapshot'.action_loops = snapshot.action_loops
          /\ snapshot'.execute_calls = snapshot.execute_calls
          /\ snapshot'.repair_count = snapshot.repair_count + 1
          /\ snapshot'.structured_output_repair_count
               = snapshot.structured_output_repair_count + 0
      BY <1>2, RepairConsumed
    <2>3. Balanced'
      BY <1>1, <1>2, <2>1, <2>2, CountsAreTyped
      DEF CountsTyped, Balanced, Executed, RepairDue, RoundsFollow
    <2>4. snapshot'.repair_count = 1
      BY <1>1, <1>2, <2>2 DEF RepairPrepared
    <2> QED
      BY <1>1, <2>1, <2>3, <2>4
      DEF RoundsInv, RoundsFollow, ActionChosen, ResultExpected, RepairPrepared
  <1>3. ASSUME NEW F, NodeEnds(F), "action_loop_pending" \notin F, Untouched, st'.stop # "none"
        PROVE  RoundsInv'
    <2>1. node' = "finalize" /\ ~st'.action_loop_pending
      BY <1>1, <1>3 DEF NodeEnds, Successor, Agree, Fields
    <2>2. Balanced'
      BY <1>1, <1>3, <2>1, UntouchedCounts, CountsKeepBalance
      DEF Executed, RepairDue, RoundsFollow, Untouched
    <2> QED
      BY <2>1, <2>2, EndKeepsRounds
  <1>4. CASE at = "started" /\ Ask("repair")
    BY <1>1, <1>4, AskKeepsRounds
  <1>5. CASE /\ phase = "idle" /\ at = "asked" /\ consume_tool("execute_sql") /\ Moves("tool")
             /\ UNCHANGED invokerVars
    <2>1. at' = "tool" /\ UNCHANGED <<node, st>> /\ UNCHANGED <<record, purpose, phase>>
      BY <1>5 DEF Moves, invokerVars
    <2>2. /\ snapshot'.action_loops = snapshot.action_loops
          /\ snapshot'.execute_calls = snapshot.execute_calls + 1
          /\ snapshot'.repair_count = snapshot.repair_count
          /\ snapshot'.structured_output_repair_count
               = snapshot.structured_output_repair_count
      BY <1>5, ToolConsumed
    <2>3. Balanced'
      BY <1>1, <1>5, <2>1, <2>2, CountsAreTyped
      DEF CountsTyped, Balanced, Executed, RepairDue, RoundsFollow
    <2> QED
      BY <1>1, <1>5, <2>1, <2>2, <2>3
      DEF RoundsInv, RoundsFollow, ActionChosen, ResultExpected, RepairPrepared
  <1>6. CASE /\ at = "tool" /\ UNCHANGED vars
             /\ NodeEnds(RecordFields \union ObservedFields \union {"stop"})
             /\ st'.observations = st.observations + 1
             /\ st'.stop = "none" => HistoryKept
    <2>1. /\ at' = "start"
          /\ st'.action_loop_pending = st.action_loop_pending
          /\ st'.validated = st.validated
          /\ st'.verdict = st.verdict
          /\ UNCHANGED snapshot
      BY <1>6 DEF NodeEnds, Agree, Fields, RecordFields, ObservedFields, vars, ledgerVars
    <2>2. /\ st'.stop = "none" => node' = "validate_observation"
          /\ st'.stop # "none" => node' = "finalize"
      BY <1>1, <1>6 DEF NodeEnds, Successor
    <2>3. Balanced'
      BY <1>1, <1>6, <2>1, <2>2, UntouchedCounts, CountsKeepBalance
      DEF Executed, RepairDue, RoundsFollow
    <2>4. CASE st'.stop # "none"
      BY <1>1, <2>1, <2>2, <2>3, <2>4, EndKeepsRounds
    <2>5. CASE st'.stop = "none"
      <3>1. st'.repair_history = <<>> /\ Len(st'.repair_history) = 0
        BY <1>1, <1>6, <2>5 DEF RepairPrepared, HistoryKept
      <3>2. snapshot'.repair_count = Len(st'.repair_history) + 1
        BY <1>1, <1>6, <2>1, <3>1 DEF RepairPrepared
      <3>3. st'.observations >= 2 /\ st'.validated = st'.observations - 1
        BY <1>1, <1>6, <2>1 DEF RepairPrepared
      <3> QED
        BY <1>1, <2>1, <2>2, <2>3, <2>5, <3>2, <3>3
        DEF RoundsInv, RoundsFollow, ActionChosen, ResultExpected, RepairPrepared
    <2> QED
      BY <2>4, <2>5
  <1> QED
    BY <1>2, <1>3, <1>4, <1>5, <1>6, RepairEffect DEF In, RecordFields

LEMMA RoundsOfOtherNodes ==
    ASSUME GInv, GInv', TypeOK, TypeOK', RoundsFollow,
           validate_profile \/ judge_evidence \/ replan \/ synthesize \/ finalize
    PROVE  RoundsInv'
  <1>1. ASSUME NEW F, NodeEnds(F), "action_loop_pending" \notin F, Untouched,
               node \in {"validate_profile", "replan", "synthesize", "finalize"}
        PROVE  RoundsInv'
    BY <1>1, UntouchedCounts, OtherEndsKeepRounds DEF Nodes, Untouched
  <1>2. CASE validate_profile \/ replan \/ finalize
    BY <1>1, <1>2, ValidateProfileEffect, ReplanEffect, FinalizeEffect DEF In
  <1>3. CASE synthesize
    BY <1>1, <1>3, AskKeepsRounds, SynthesizeEffect DEF Obtained, In, RecordFields
  <1>4. CASE judge_evidence
    <2>1. /\ node = "judge_evidence" /\ st.action_loop_pending \in BOOLEAN /\ Rounds
          /\ node' = Successor(st') /\ st'.action_loop_pending = FALSE
      BY <1>4, JudgeEvidenceEffect DEF In, GInv, GraphTypeOK, AgentState, NodeEnds, Rounds
    <2>2. node' \in {"finalize", "synthesize", "replan"}
      BY <2>1 DEF Successor, route_after_evidence
    <2>3. Balanced'
      BY <2>1, <2>2, RoundsKeepBalance DEF Executed, RepairDue, RoundsFollow
    <2> QED
      BY <2>1, <2>2, <2>3, EndKeepsRounds
  <1> QED
    BY <1>2, <1>3, <1>4

LEMMA RoundsOfConverse ==
    ASSUME GInv, TypeOK, TypeOK', CopyInv, RoundsFollow, Running, Converse
    PROVE  RoundsInv'
  <1>1. /\ UNCHANGED <<node, at, st, purpose>> /\ phase \notin {"idle", "cancelled"}
        /\ CountsKept
        /\ phase = "calling" /\ purpose = "repair" =>
              /\ phase' \in {"idle", "cancelled"}
              /\ snapshot'.repair_count = snapshot.repair_count
              /\ phase' = "idle" => record' = "none"
    BY ConverseEffect
  <1>2. at = "asked"
    BY <1>1 DEF CopyInv
  <1>3. node # "validate_observation"
    BY <1>2 DEF RoundsFollow, ResultExpected
  <1>4. Balanced'
    BY <1>1, CountsKeepBalance DEF Executed, RepairDue, RoundsFollow
  <1>5. node = "repair" => purpose = "repair" /\ phase = "calling"
    BY <1>1, <1>2 DEF RoundsFollow, RepairPrepared
  <1>6. RepairPrepared' \/ ~Running'
    BY <1>1, <1>2, <1>5 DEF RoundsFollow, RepairPrepared, Running
  <1> QED
    BY <1>1, <1>3, <1>4, <1>6 DEF RoundsInv, RoundsFollow, ActionChosen, ResultExpected

LEMMA RoundsInvStep ==
    ASSUME GInv, GInv', TypeOK, TypeOK', CopyInv, CapInv, RoundsInv, [GraphNext]_allVars
    PROVE  RoundsInv'
  <1>1. CASE ~Running
    <2>1. ~Converse \/ node = "cancelled"
      BY <1>1, ConverseEffect DEF Running
    <2>2. CASE Converse
      BY <1>1, <2>1, <2>2 DEF Converse, graphVars, RoundsInv, Running
    <2>3. CASE GraphClock \/ CancelRun \/ UNCHANGED allVars
      BY <1>1, <2>3 DEF GraphClock, Clock, CancelRun, allVars, vars, invokerVars, graphVars,
                        RoundsInv, Running
    <2>4. phase = "idle" => node = "cancelled"
      BY <1>1 DEF Running
    <2>5. ~(intake \/ compile_contract \/ invoke_tool \/ validate_profile
              \/ validate_observation \/ judge_evidence \/ replan \/ finalize)
      BY <2>4 DEF intake, compile_contract, invoke_tool, validate_profile,
                  validate_observation, judge_evidence, replan, finalize, In
    <2>6. ~(decide_behavior \/ retrieve_context \/ build_plan \/ route_action \/ synthesize
              \/ InvocationFailed)
      BY <2>4 DEF decide_behavior, retrieve_context, build_plan, route_action, synthesize,
                  InvocationFailed, Obtained, In
    <2>7. ~repair
      BY <2>4 DEF repair, Obtained, In
    <2> QED
      BY <2>2, <2>3, <2>5, <2>6, <2>7 DEF GraphNext, Work
  <1>2. CASE Running
    <2>1. RoundsFollow
      BY <1>2 DEF RoundsInv
    <2>2. CASE CancelRun
      BY <2>2 DEF CancelRun, RoundsInv, Running
    <2>3. CASE GraphClock \/ UNCHANGED allVars
      BY <2>1, <2>3
      DEF GraphClock, Clock, Expire, allVars, vars, ledgerVars, invokerVars, graphVars,
          RoundsInv, RoundsFollow, Balanced, Executed, RepairDue, ActionChosen,
          ResultExpected, RepairPrepared
    <2>4. CASE \/ intake \/ decide_behavior \/ retrieve_context \/ build_plan
               \/ compile_contract \/ route_action \/ InvocationFailed
      BY <2>1, <2>4, RoundsOfEarlyNodes
    <2>5. CASE \/ validate_profile \/ judge_evidence \/ replan \/ synthesize \/ finalize
      BY <2>1, <2>5, RoundsOfOtherNodes
    <2>6. CASE invoke_tool \/ validate_observation \/ repair
      BY <2>1, <2>6, RoundsOfInvokeTool, RoundsOfValidation, RoundsOfRepair
    <2>7. CASE Converse
      BY <1>2, <2>1, <2>7, RoundsOfConverse
    <2> QED
      BY <2>2, <2>3, <2>4, <2>5, <2>6, <2>7 DEF GraphNext, Work
  <1> QED
    BY <1>1, <1>2

LEMMA RoundsInvInit ==
    ASSUME GraphInit
    PROVE  RoundsInv
  BY DEF GraphInit, Init, LedgerInit, new_agent_state, RoundsInv, RoundsFollow, Balanced,
         Executed, RepairDue, ActionChosen, ResultExpected, RepairPrepared

LEMMA RoundsInvHolds == GraphSpec => []RoundsInv
  <1>1. GraphInit => RoundsInv
    BY RoundsInvInit
  <1>2. GInv /\ GInv' /\ TypeOK /\ TypeOK' /\ CopyInv /\ CapInv /\ RoundsInv
          /\ [GraphNext]_allVars => RoundsInv'
    BY RoundsInvStep
  <1>3. GraphSpec => [](GInv /\ TypeOK)
    BY GInvHolds, RunWithinLimits, PTL
  <1> QED
    BY <1>1, <1>2, <1>3, CopyInvHolds, CapInvHolds, PTL DEF GraphSpec

\* config.py orders the limits so that the execute limit is never the one that stops.
LEMMA ExecuteFree ==
    ASSUME TypeOK, SnapshotValid, RoundsFollow
    PROVE  /\ node = "invoke_tool" /\ at = "start" /\ st.action_loop_pending /\ LoopReserved
                 => snapshot.execute_calls < MaxExecuteCalls
           /\ node = "repair" /\ at = "asked" => snapshot.execute_calls < MaxExecuteCalls
  <1>1. /\ CountsTyped
        /\ MaxActionLoops \in Nat /\ MaxRepairs \in Nat /\ MaxExecuteCalls \in Nat
        /\ MaxActionLoops + MaxRepairs <= MaxExecuteCalls
    BY CountsAreTyped, LimitsAssumption, GraphAssumption
  <1>2. /\ snapshot.repair_count <= MaxRepairs
        /\ snapshot.action_loops <= MaxActionLoops
    BY DEF SnapshotValid
  <1>3. ASSUME node = "invoke_tool", at = "start", st.action_loop_pending, LoopReserved
        PROVE  snapshot.execute_calls < MaxExecuteCalls
    <2>1. snapshot.action_loops < MaxActionLoops /\ ~Executed /\ ~RepairDue
      BY <1>3 DEF LoopReserved, LoopAvailable, Executed, RepairDue
    <2> QED
      BY <1>1, <1>2, <2>1 DEF CountsTyped, RoundsFollow, Balanced
  <1>4. ASSUME node = "repair", at = "asked"
        PROVE  snapshot.execute_calls < MaxExecuteCalls
    <2>1. ~Executed /\ RepairDue
      BY <1>4 DEF Executed, RepairDue, RoundsFollow, ActionChosen
    <2> QED
      BY <1>1, <1>2, <2>1 DEF CountsTyped, RoundsFollow, Balanced
  <1> QED
    BY <1>3, <1>4

LimitUnreached == st.stop # "execute_limit" /\ st.final.reason # "execute_limit"

LEMMA LimitUnreachedStep ==
    ASSUME GInv, GInv', TypeOK, TypeOK', SnapshotValid, RoundsInv, LimitUnreached,
           [GraphNext]_allVars
    PROVE  LimitUnreached'
  <1>1. "execute_limit" \notin OtherStops
    BY DEF OtherStops
  <1>2. ASSUME UNCHANGED st
        PROVE  LimitUnreached'
    BY <1>2 DEF LimitUnreached
  <1>3. ASSUME NEW F, NodeEnds(F), "final" \notin F, st'.stop # "execute_limit"
        PROVE  LimitUnreached'
    BY <1>3 DEF LimitUnreached, NodeEnds, Agree, Fields
  <1>4. ASSUME NEW p, Ask(p)
        PROVE  LimitUnreached'
    BY <1>2, <1>4, AskEffect
  <1>5. ASSUME NEW place, Moves(place)
        PROVE  LimitUnreached'
    BY <1>2, <1>5 DEF Moves
  <1>6. CASE intake \/ compile_contract \/ validate_profile \/ replan \/ judge_evidence
    BY <1>1, <1>3, <1>6, IntakeEffect, CompileContractEffect, ValidateProfileEffect,
       ReplanEffect, JudgeEvidenceEffect
  <1>7. CASE decide_behavior \/ build_plan \/ route_action
    BY <1>1, <1>3, <1>4, <1>7, DecideBehaviorEffect, BuildPlanEffect, RouteActionEffect
    DEF RecordFields
  <1>8. CASE retrieve_context
    BY <1>1, <1>3, <1>5, <1>8, RetrieveContextEffect
  <1>9. CASE validate_observation
    BY <1>1, <1>3, <1>9, ValidateObservationEffect DEF ValidatedFields
  <1>10. CASE invoke_tool
    <2>1. CASE /\ In("invoke_tool", "start")
               /\ NodeEnds({"action_loop_pending", "governance", "stop"})
               /\ st'.stop = "execute_limit" => ToolRefusal = "execute_limit"
      <3>1. RoundsFollow
        BY <2>1 DEF RoundsInv, Running, In
      <3>2. ASSUME ToolRefusal = "execute_limit"
            PROVE  FALSE
        <4>1. ToolLimit(ActionType(st.next_action)) = "execute_limit"
          BY <3>2 DEF ToolRefusal
        <4>2. /\ snapshot.execute_calls >= MaxExecuteCalls
              /\ ActionType(st.next_action) = "execute_sql"
          BY <4>1 DEF ToolLimit
        <4>3. st.action_loop_pending
          BY <2>1, <3>1, <4>2 DEF ActionType, RoundsFollow, ActionChosen, In
        <4>4. snapshot.execute_calls < MaxExecuteCalls
          BY <2>1, <3>1, <4>3, ExecuteFree DEF In, GInv
        <4> QED
          BY <4>2, <4>4, CountsAreTyped, LimitsAssumption DEF CountsTyped
      <3> QED
        BY <1>3, <2>1, <3>2
    <2> QED
      BY <1>3, <1>5, <1>10, <2>1, InvokeToolEffect DEF ObservedFields
  <1>11. CASE repair
    <2>1. CASE /\ phase = "idle" /\ node = "repair"
               /\ NodeEnds(RecordFields \union {"stop"})
               /\ st'.stop = "execute_limit" =>
                     at = "asked" /\ ToolLimit("execute_sql") = "execute_limit"
      <3>1. RoundsFollow
        BY <2>1 DEF RoundsInv, Running
      <3>2. ASSUME at = "asked", ToolLimit("execute_sql") = "execute_limit"
            PROVE  FALSE
        <4>1. snapshot.execute_calls >= MaxExecuteCalls
          BY <3>2 DEF ToolLimit
        <4>2. snapshot.execute_calls < MaxExecuteCalls
          BY <2>1, <3>1, <3>2, ExecuteFree
        <4> QED
          BY <4>1, <4>2, CountsAreTyped, LimitsAssumption DEF CountsTyped
      <3> QED
        BY <1>3, <2>1, <3>2 DEF RecordFields
    <2> QED
      BY <1>1, <1>3, <1>4, <1>5, <1>11, <2>1, RepairEffect DEF RecordFields, ObservedFields
  <1>12. DeterministicAnswer(st).reason # "execute_limit"
    BY DEF LimitUnreached, DeterministicAnswer, TimeoutAnswer, Answer
  <1>13. CASE synthesize \/ finalize
    BY <1>4, <1>12, <1>13, SynthesizeEffect, FinalizeEffect DEF LimitUnreached
  <1>14. CASE InvocationFailed
    <2>1. /\ NodeEnds(RecordFields \union {"stop", "next_action", "action_loop_pending"})
          /\ st'.stop \in AfterWarning(result)
      BY <1>14, InvocationFailedEffect
    <2>2. st'.stop # "execute_limit"
      BY <2>1 DEF TypeOK, Results, AfterWarning, UnlessRefused
    <2> QED
      BY <1>3, <2>1, <2>2 DEF RecordFields
  <1>15. CASE Converse \/ CancelRun \/ GraphClock \/ UNCHANGED allVars
    BY <1>2, <1>15 DEF Converse, CancelRun, GraphClock, graphVars, allVars
  <1> QED
    BY <1>6, <1>7, <1>8, <1>9, <1>10, <1>11, <1>13, <1>14, <1>15 DEF GraphNext, Work

\* Every execution is counted as one round, at the latest when its evidence was
\* judged, and a repair's as none; the counters tell a repaired result from a new
\* one; and no run is stopped by the execute limit: whatever the limits, as long
\* as they are ordered as config.py requires.
THEOREM RoundsCountedOnce == GraphSpec => []RoundsCounted
  <1>1. GraphInit => LimitUnreached
    BY DEF GraphInit, new_agent_state, LimitUnreached, NoFinal
  <1>2. GInv /\ GInv' /\ TypeOK /\ TypeOK' /\ LedgerSound /\ RoundsInv /\ LimitUnreached
          /\ [GraphNext]_allVars => LimitUnreached'
    BY LimitUnreachedStep DEF LedgerSound
  <1>3. GraphSpec => [](GInv /\ TypeOK /\ LedgerSound)
    BY GInvHolds, RunWithinLimits, PTL
  <1>4. GInv /\ TypeOK /\ CopyInv /\ RoundsInv /\ LimitUnreached => RoundsCounted
    <2> SUFFICES ASSUME GInv, TypeOK, CopyInv, RoundsInv, LimitUnreached
                 PROVE  RoundsCounted
      OBVIOUS
    <2>1. RepairRecognised
      <3> SUFFICES ASSUME In("validate_observation", "start"), st.observation \in QueryResults
                   PROVE  PendingResultRepair(st) <=> ~st.action_loop_pending
        BY DEF RepairRecognised
      <3>1. RoundsFollow /\ Running /\ ~Calling /\ node = "validate_observation"
        BY DEF RoundsInv, Running, Calling, In
      <3>2. st.governance = snapshot
        BY <3>1 DEF CopyInv, CopiesFollow, In
      <3>3. st.next_action = "execute"
        BY <3>1 DEF GInv, ObservationFits
      <3> QED
        BY <3>1, <3>2, <3>3 DEF RoundsFollow, ResultExpected, PendingResultRepair
    <2>2. ASSUME Between
          PROVE  /\ snapshot.action_loops <= snapshot.execute_calls
                 /\ snapshot.execute_calls <=
                       snapshot.action_loops
                       + (IF st.action_loop_pending THEN 1 ELSE 0)
                       + (snapshot.repair_count - snapshot.structured_output_repair_count)
      <3>1. Balanced /\ (Executed => st.action_loop_pending)
        BY <2>2 DEF Between, RoundsInv, Running, RoundsFollow, Executed
      <3> QED
        BY <3>1, CountsAreTyped DEF CountsTyped, Balanced
    <2> QED
      BY <2>1, <2>2 DEF RoundsCounted, LimitUnreached
  <1> QED
    BY <1>1, <1>2, <1>3, <1>4, RoundsInvHolds, CopyInvHolds, PTL DEF GraphSpec

\* Every call that the ledger counted is in the state that the run's answer is made
\* of whenever a node begins or the graph ends: none is lost and none counted twice.
THEOREM CallsInState ==
    GraphSpec => [](Between => Len(st.model_call_traces) = snapshot.llm_calls)
  <1>1. CopiesAgree /\ CallsTraced /\ TypeOK
          => (Between => Len(st.model_call_traces) = snapshot.llm_calls)
    BY DEF CopiesAgree, CallsTraced, Between, Awaiting, TypeOK
  <1>2. Spec <=> ImplementsInvoker
    BY DEF ImplementsInvoker
  <1> QED
    BY <1>1, <1>2, CopiesAlwaysAgree, AllCallsTraced, RunWithinLimits, GraphImplementsInvoker,
       PTL
=============================================================================
