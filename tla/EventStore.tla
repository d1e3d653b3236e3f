----------------------------- MODULE EventStore ------------------------------
(***************************************************************************)
(* runtime/events.py: InMemoryEventStore, one buffer of events per run,    *)
(* and _OpenedEventStream, the leased reader a client consumes it through. *)
(*                                                                         *)
(* The methods of the store take their locks uncontended and await nothing *)
(* else, so each is one step.  A stream is three cooperating coroutines,   *)
(* and their interleaving is the subject of the module:                    *)
(*   - the caller inside __anext__        (field "call"),                  *)
(*   - the read task that advances the generator _stream_buffer ("read"),  *)
(*   - the close task _finish_close       (field "close").                 *)
(* A buffer that was deleted is never created again under the same run id: *)
(* ids come from uuid4.                                                    *)
(***************************************************************************)
EXTENDS Integers, Sequences, FiniteSets

CONSTANTS Runs,        \* run identifiers
          Clients,     \* consumers: each has at most one stream at a time
          Owners,      \* owner tokens a writer may present
          NoOwner,     \* the absent token: owner_token=None
          NoRun,       \* "no stream yet" in the stream records
          MaxEvents,   \* bound: non-terminal events per run
          MaxConnects  \* bound: streams a client opens

ASSUME NoOwnerAssumption == NoOwner \notin Owners
ASSUME NoRunAssumption == NoRun \notin Runs
ASSUME ClientsFinite == IsFiniteSet(Clients)
ASSUME BoundAssumption == MaxEvents \in Nat /\ MaxConnects \in Nat

VARIABLES
  buffer,   \* buffer[r]: the _RunBuffer of r
  stream,   \* stream[c]: the _OpenedEventStream of c, with its generator
  lastId,   \* lastId[c]: what c would send as Last-Event-ID, 0 for none
  connects  \* connects[c]: streams opened so far (bounds the model)

vars == <<buffer, stream, lastId, connects>>

\* "other" stands for run.created and for every event of a graph node: the
\* store treats them alike.
Kinds == {"run.started", "other", "run.terminal"}
Event == [seq : Nat \ {0}, kind : Kinds]

NewBuffer == [status |-> "absent", owner |-> NoOwner, events |-> <<>>,
              started |-> FALSE, terminal |-> FALSE, active |-> 0]

(***************************************************************************)
(* A stream record:                                                        *)
(*   run     the buffer it reads, NoRun before the first open              *)
(*   leased  counted in active_streams (~_lease_released)                  *)
(*   cursor, batch, gen   the generator: last sequence yielded, rest of    *)
(*           the batch, "ready" | "wait" (in condition.wait) | "final"     *)
(*           (terminal event yielded) | "ended"                            *)
(*   read    "none" | "run" | "cancelling" | "ok" | "stop" | "failed"      *)
(*   call    "out" | "read" (await read_task) | "gather" (cancelled,       *)
(*           awaiting gather) | "abandon" (cancelled again in gather) |    *)
(*           "close" (awaiting aclose)                                     *)
(*   close   "none" | "join" (close task awaits the read task) | "done"    *)
(*   ended   the caller saw the stream raise, it will not read on          *)
(***************************************************************************)
NoStream == [run |-> NoRun, leased |-> FALSE, cursor |-> 0, batch |-> <<>>,
             gen |-> "ended", read |-> "none", call |-> "out",
             close |-> "done", ended |-> TRUE]

OpenedStream(r, after) ==
  [run |-> r, leased |-> TRUE, cursor |-> after, batch |-> <<>>,
   gen |-> "ready", read |-> "none", call |-> "out",
   close |-> "none", ended |-> FALSE]

Init ==
  /\ buffer = [r \in Runs |-> NewBuffer]
  /\ stream = [c \in Clients |-> NoStream]
  /\ lastId = [c \in Clients |-> 0]
  /\ connects = [c \in Clients |-> 0]

-----------------------------------------------------------------------------
\* condition.notify_all(): every generator waiting on the buffer may run on.
Notified(streams, r) ==
  [c \in Clients |->
     IF streams[c].run = r /\ streams[c].gen = "wait"
     THEN [streams[c] EXCEPT !.gen = "ready"] ELSE streams[c]]

\* _locked_buffer: the buffer exists and the token, if given, is its owner's.
Locked(r, token) ==
  /\ buffer[r].status = "live"
  /\ token # NoOwner => token = buffer[r].owner

create_run(r, token) ==
  /\ buffer[r].status = "absent"
  /\ buffer' = [buffer EXCEPT ![r].status = "live", ![r].owner = token]
  /\ UNCHANGED <<stream, lastId, connects>>

\* A broken _append that notifies nobody.
AppendSilent(r, token, kind) ==
  /\ Locked(r, token)
  /\ ~buffer[r].terminal
  /\ buffer' = [buffer EXCEPT
       ![r].events = Append(@, [seq |-> Len(@) + 1, kind |-> kind]),
       ![r].started = @ \/ kind = "run.started",
       ![r].terminal = kind = "run.terminal"]
  /\ UNCHANGED <<stream, lastId, connects>>

\* _append: refused after the terminal event, numbered by position.
Append_(r, token, kind) ==
  /\ Locked(r, token)
  /\ ~buffer[r].terminal
  /\ buffer' = [buffer EXCEPT
       ![r].events = Append(@, [seq |-> Len(@) + 1, kind |-> kind]),
       ![r].started = @ \/ kind = "run.started",
       ![r].terminal = kind = "run.terminal"]
  /\ stream' = Notified(stream, r)
  /\ UNCHANGED <<lastId, connects>>

emit(r, token, kind) ==
  /\ kind # "run.terminal"
  /\ Len(buffer[r].events) < MaxEvents
  /\ Append_(r, token, kind)

emit_terminal(r, token) == Append_(r, token, "run.terminal")

\* A broken delete_run that does not look at active_streams.
DeleteUnderLease(r, token, allowUnstarted) ==
  /\ Locked(r, token)
  /\ buffer[r].terminal \/ (allowUnstarted /\ ~buffer[r].started)
  /\ buffer' = [buffer EXCEPT ![r].status = "deleted", ![r].events = <<>>]
  /\ stream' = Notified(stream, r)
  /\ UNCHANGED <<lastId, connects>>

delete_run(r, token, allowUnstarted) ==
  /\ Locked(r, token)
  /\ buffer[r].active = 0
  /\ buffer[r].terminal \/ (allowUnstarted /\ ~buffer[r].started)
  /\ buffer' = [buffer EXCEPT ![r].status = "deleted", ![r].events = <<>>]
  /\ stream' = Notified(stream, r)
  /\ UNCHANGED <<lastId, connects>>

-----------------------------------------------------------------------------
\* A broken resumption, one event too far.
ResumePastNext(c, r) == IF stream[c].run = r THEN lastId[c] + 1 ELSE 0

\* The client names the last event it received of this run; parse_last_event_id
\* refuses an id of another run, so a client that changes runs sends none.
Resume(c, r) == IF stream[c].run = r THEN lastId[c] ELSE 0

open_stream(c, r) ==
  /\ connects[c] < MaxConnects
  /\ ~stream[c].leased /\ stream[c].call = "out"
  /\ Locked(r, NoOwner)
  /\ Resume(c, r) <= Len(buffer[r].events)
  /\ buffer' = [buffer EXCEPT ![r].active = @ + 1]
  /\ stream' = [stream EXCEPT ![c] = OpenedStream(r, Resume(c, r))]
  /\ lastId' = [lastId EXCEPT ![c] = Resume(c, r)]
  /\ connects' = [connects EXCEPT ![c] = @ + 1]

\* __anext__: one read at a time, none once the stream is closing.
anext(c) ==
  /\ stream[c].call = "out" /\ stream[c].read = "none"
  /\ stream[c].close = "none" /\ ~stream[c].ended
  /\ stream' = [stream EXCEPT ![c].call = "read", ![c].read = "run"]
  /\ UNCHANGED <<buffer, lastId, connects>>

\* The events the generator still has to yield: the rest of its batch, or
\* those of the buffer past its cursor, found by position since an event is
\* numbered by it (LogWellFormed).
Pending(c) ==
  IF stream[c].batch # <<>> THEN stream[c].batch
  ELSE LET log == buffer[stream[c].run].events IN
       SubSeq(log, stream[c].cursor + 1, Len(log))

\* The read task advances the generator: it yields, waits, or ends.
GeneratorYield(c) ==
  /\ stream[c].read = "run" /\ stream[c].gen = "ready"
  /\ stream[c].batch # <<>> \/ buffer[stream[c].run].status # "deleted"
  /\ Pending(c) # <<>>
  /\ stream' = [stream EXCEPT
       ![c].cursor = Head(Pending(c)).seq,
       ![c].batch = Tail(Pending(c)),
       ![c].gen = IF Head(Pending(c)).kind = "run.terminal" THEN "final" ELSE "ready",
       ![c].read = "ok"]
  /\ UNCHANGED <<buffer, lastId, connects>>

GeneratorWait(c) ==
  /\ stream[c].read = "run" /\ stream[c].gen = "ready"
  /\ buffer[stream[c].run].status # "deleted" /\ ~buffer[stream[c].run].terminal
  /\ Pending(c) = <<>>
  /\ stream' = [stream EXCEPT ![c].gen = "wait"]
  /\ UNCHANGED <<buffer, lastId, connects>>

\* StopAsyncIteration after the terminal event, RunNotFound on a deleted buffer.
GeneratorEnd(c) ==
  /\ stream[c].read = "run"
  /\ \/ stream[c].gen \in {"final", "ended"}
     \/ /\ stream[c].gen = "ready" /\ Pending(c) = <<>>
        /\ buffer[stream[c].run].terminal \/ buffer[stream[c].run].status = "deleted"
  /\ stream' = [stream EXCEPT ![c].gen = "ended", ![c].read = "stop"]
  /\ UNCHANGED <<buffer, lastId, connects>>

\* A cancelled read task ends; a generator cancelled inside wait() is finished.
ReadCancelled(c) ==
  /\ stream[c].read = "cancelling"
  /\ stream' = [stream EXCEPT
       ![c].read = "failed",
       ![c].gen = IF @ = "wait" THEN "ended" ELSE @]
  /\ UNCHANGED <<buffer, lastId, connects>>

ReadDone(c) == stream[c].read \in {"ok", "stop", "failed"}

\* task.cancel() on a read task that is done has no effect.
CancelledRead(read) == IF read = "run" THEN "cancelling" ELSE read

\* The first call of aclose creates the close task, later ones join it.
ClosingStream(s) == IF s.close = "none" THEN "join" ELSE s.close

\* __anext__ resumes with the event, unless the stream is closing by now.
ReturnEvent(c) ==
  /\ stream[c].call = "read" /\ stream[c].read = "ok"
  /\ \/ /\ stream[c].close = "none"
        /\ stream' = [stream EXCEPT ![c].call = "out", ![c].read = "none"]
        /\ lastId' = [lastId EXCEPT ![c] = stream[c].cursor]
     \/ /\ stream[c].close # "none"
        /\ stream' = [stream EXCEPT ![c].call = "out", ![c].read = "none",
                                    ![c].ended = TRUE]
        /\ UNCHANGED lastId
  /\ UNCHANGED <<buffer, connects>>

\* __anext__ resumes with an exception, and closes the stream before raising.
ReturnFailure(c) ==
  /\ \/ stream[c].call = "read" /\ stream[c].read \in {"stop", "failed"}
     \/ stream[c].call = "gather" /\ ReadDone(c)
  /\ stream' = [stream EXCEPT ![c].call = "close",
                              ![c].close = ClosingStream(stream[c])]
  /\ UNCHANGED <<buffer, lastId, connects>>

\* The caller's task is cancelled: while it awaits the read task it cancels
\* that and gathers it; cancelled again there it raises without closing; while
\* it awaits the shielded close task it raises and the close goes on; between
\* two reads it just does not read on.
CancelCaller(c) ==
  /\ \/ /\ stream[c].call = "read"
        /\ stream' = [stream EXCEPT ![c].call = "gather",
                                    ![c].read = CancelledRead(@)]
     \/ /\ stream[c].call = "gather"
        /\ stream' = [stream EXCEPT ![c].call = "abandon"]
     \/ /\ stream[c].call = "close"
        /\ stream' = [stream EXCEPT ![c].call = "out", ![c].read = "none",
                                    ![c].ended = TRUE]
     \/ /\ stream[c].call = "out" /\ stream[c].close = "none" /\ ~stream[c].ended
        /\ stream' = [stream EXCEPT ![c].ended = TRUE]
  /\ UNCHANGED <<buffer, lastId, connects>>

\* The caller leaves __anext__: its close is complete, or it abandoned it.
ReturnClosed(c) ==
  /\ \/ stream[c].call = "close" /\ stream[c].close = "done"
     \/ stream[c].call = "abandon" /\ ReadDone(c)
  /\ stream' = [stream EXCEPT ![c].call = "out", ![c].read = "none",
                              ![c].ended = TRUE]
  /\ UNCHANGED <<buffer, lastId, connects>>

\* aclose called by another task, as on a disconnect.
aclose(c) ==
  /\ stream[c].close = "none"
  /\ stream' = [stream EXCEPT ![c].close = ClosingStream(stream[c])]
  /\ UNCHANGED <<buffer, lastId, connects>>

\* _finish_close: cancel a read that is still running and wait for it ...
CloseJoins(c) ==
  /\ stream[c].close = "join" /\ stream[c].read = "run"
  /\ stream' = [stream EXCEPT ![c].read = CancelledRead(@)]
  /\ UNCHANGED <<buffer, lastId, connects>>

\* ... then close the generator and give the lease back, once.
CloseReleases(c) ==
  /\ stream[c].close = "join"
  /\ ReadDone(c) \/ stream[c].read = "none"
  /\ buffer' = IF stream[c].leased
               THEN [buffer EXCEPT ![stream[c].run].active = @ - 1] ELSE buffer
  /\ stream' = Notified([stream EXCEPT ![c].leased = FALSE, ![c].close = "done",
                                       ![c].gen = "ended"], stream[c].run)
  /\ UNCHANGED <<lastId, connects>>

-----------------------------------------------------------------------------
Tokens == Owners \cup {NoOwner}

Writer(r) ==
  \/ \E t \in Owners : create_run(r, t)
  \/ \E t \in Tokens, k \in Kinds : emit(r, t, k)
  \/ \E t \in Tokens : emit_terminal(r, t)
  \/ \E t \in Tokens, b \in BOOLEAN : delete_run(r, t, b)

\* The tasks the stream itself created: they run on their own.
StreamTasks(c) ==
  \/ GeneratorYield(c) \/ GeneratorWait(c) \/ GeneratorEnd(c)
  \/ ReadCancelled(c) \/ CloseJoins(c) \/ CloseReleases(c)

Caller(c) ==
  \/ ReturnEvent(c) \/ ReturnFailure(c) \/ ReturnClosed(c)
  \/ anext(c) \/ CancelCaller(c) \/ aclose(c)

Next ==
  \/ \E r \in Runs : Writer(r)
  \/ \E c \in Clients : StreamTasks(c) \/ Caller(c) \/ \E r \in Runs : open_stream(c, r)

Spec == Init /\ [][Next]_vars

-----------------------------------------------------------------------------
Calls == {"out", "read", "gather", "abandon", "close"}
Reads == {"none", "run", "cancelling", "ok", "stop", "failed"}
Closes == {"none", "join", "done"}

Buffer == [status : {"absent", "live", "deleted"}, owner : Owners \cup {NoOwner},
           events : Seq(Event), started : BOOLEAN, terminal : BOOLEAN, active : Int]
Stream == [run : Runs \cup {NoRun}, leased : BOOLEAN, cursor : Nat, batch : Seq(Event),
           gen : {"ready", "wait", "final", "ended"}, read : Reads, call : Calls,
           close : Closes, ended : BOOLEAN]

\* The type of every variable.
TypeOK ==
  /\ buffer \in [Runs -> Buffer]
  /\ stream \in [Clients -> Stream]
  /\ lastId \in [Clients -> Nat]
  /\ connects \in [Clients -> Nat]

\* active_streams is exactly the number of streams that still hold a lease:
\* however cancellation, close and end of stream interleave, a lease is given
\* back once and never twice.
LeaseCountExact ==
  \A r \in Runs :
    buffer[r].active = Cardinality({c \in Clients : stream[c].run = r /\ stream[c].leased})

\* A stream that holds a lease never loses its buffer: pruning or rolling back
\* a run cannot take the log away between two reads, and what was delivered is
\* still in it.
LeasedLogKept ==
  \A c \in Clients : stream[c].leased =>
    /\ buffer[stream[c].run].status = "live"
    /\ stream[c].cursor + Len(stream[c].batch) <= Len(buffer[stream[c].run].events)

\* Events are numbered 1, 2, ... without gaps, and run.terminal occurs at most
\* once, as the last event, exactly when the buffer is marked terminal.
LogWellFormed ==
  \A r \in Runs : LET log == buffer[r].events IN
    /\ \A i \in 1..Len(log) : log[i].seq = i
    /\ \A i \in 1..Len(log) : log[i].kind = "run.terminal" => i = Len(log)
    /\ buffer[r].status = "live" =>
         (buffer[r].terminal <=> \E i \in 1..Len(log) : log[i].kind = "run.terminal")

\* What replay relies on: complete logs, which stay while they are read because
\* the count of their readers is exact.
LogsSound == LeaseCountExact /\ LeasedLogKept /\ LogWellFormed

\* Between two reads of an open stream the generator is exactly where the
\* client is, and during one it is at most one event ahead: no event is yielded
\* twice, and none is swallowed while the stream can still be read.
NothingSkipped ==
  \A c \in Clients : stream[c].leased =>
    /\ stream[c].cursor \in {lastId[c], lastId[c] + 1}
    /\ stream[c].call = "out" /\ stream[c].close = "none" /\ ~stream[c].ended
         => stream[c].cursor = lastId[c]

\* A reader never sleeps on a condition that already holds: every append and
\* delete notifies it.
NoLostWakeup ==
  \A c \in Clients : stream[c].gen = "wait" =>
    /\ buffer[stream[c].run].status = "live"
    /\ ~buffer[stream[c].run].terminal
    /\ Pending(c) = <<>>

\* The store implements the promise of ReplayLog: a client's cursor moves one
\* event at a time through the log it is attached to, across reconnects, and
\* the log outlives its readers.
Promise == INSTANCE ReplayLog WITH
  status <- [r \in Runs |-> buffer[r].status],
  length <- [r \in Runs |-> Len(buffer[r].events)],
  started <- [r \in Runs |-> buffer[r].started],
  sealed <- [r \in Runs |-> buffer[r].terminal],
  attached <- [c \in Clients |-> IF stream[c].leased THEN {stream[c].run} ELSE {}],
  cursor <- lastId

ImplementsReplayLog == Promise!Spec
=============================================================================
