------------------------------ MODULE ReplayLog ------------------------------
(***************************************************************************)
(* What the event store promises to its clients, without tasks, batches,   *)
(* locks or leases: one append-only log per run, sealed once by its        *)
(* terminal event, and per client a cursor that only ever advances to the  *)
(* next event of the log it is attached to.  A log is dropped only when it *)
(* is sealed or has not started, and never under an attached client.       *)
(***************************************************************************)
EXTENDS Naturals

CONSTANTS Runs,      \* run identifiers
          Clients    \* consumers of the event streams

VARIABLES
  status,    \* status[r]: "absent", "live" or "deleted"
  length,    \* length[r]: how many events the log of r holds
  started,   \* started[r]: run.started has been published
  sealed,    \* sealed[r]: the terminal event is the last one of the log
  attached,  \* attached[c]: the set of runs (at most one) c is reading
  cursor     \* cursor[c]: the last event c received, 0 before the first

vars == <<status, length, started, sealed, attached, cursor>>

Init ==
  /\ status = [r \in Runs |-> "absent"]
  /\ length = [r \in Runs |-> 0]
  /\ started = [r \in Runs |-> FALSE]
  /\ sealed = [r \in Runs |-> FALSE]
  /\ attached = [c \in Clients |-> {}]
  /\ cursor = [c \in Clients |-> 0]

Create(r) ==
  /\ status[r] = "absent"
  /\ status' = [status EXCEPT ![r] = "live"]
  /\ UNCHANGED <<length, started, sealed, attached, cursor>>

\* One more event; nothing follows the terminal one.
Publish(r) ==
  /\ status[r] = "live" /\ ~sealed[r]
  /\ length' = [length EXCEPT ![r] = @ + 1]
  /\ \E first, last \in BOOLEAN :
       /\ ~(first /\ last)
       /\ started' = [started EXCEPT ![r] = @ \/ first]
       /\ sealed' = [sealed EXCEPT ![r] = last]
  /\ UNCHANGED <<status, attached, cursor>>

\* A client attaches where it left off, or forgets what it read of another run.
Attach(c, r) ==
  /\ status[r] = "live" /\ attached[c] = {}
  /\ attached' = [attached EXCEPT ![c] = {r}]
  /\ cursor' \in {cursor, [cursor EXCEPT ![c] = 0]}
  /\ cursor'[c] <= length[r]
  /\ UNCHANGED <<status, length, started, sealed>>

\* The next event, never a later or an earlier one.
Deliver(c) ==
  /\ \E r \in attached[c] : status[r] = "live" /\ cursor[c] < length[r]
  /\ cursor' = [cursor EXCEPT ![c] = @ + 1]
  /\ UNCHANGED <<status, length, started, sealed, attached>>

Detach(c) ==
  /\ attached' = [attached EXCEPT ![c] = {}]
  /\ UNCHANGED <<status, length, started, sealed, cursor>>

Drop(r) ==
  /\ status[r] = "live" /\ (sealed[r] \/ ~started[r])
  /\ \A c \in Clients : r \notin attached[c]
  /\ status' = [status EXCEPT ![r] = "deleted"]
  /\ length' = [length EXCEPT ![r] = 0]
  /\ UNCHANGED <<started, sealed, attached, cursor>>

Next ==
  \/ \E r \in Runs : Create(r) \/ Publish(r) \/ Drop(r)
  \/ \E c \in Clients : Deliver(c) \/ Detach(c) \/ \E r \in Runs : Attach(c, r)

Spec == Init /\ [][Next]_vars
==============================================================================
