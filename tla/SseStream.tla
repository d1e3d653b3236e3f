------------------------------ MODULE SseStream -------------------------------
(***************************************************************************)
(* api/routes.py: sse_events and _SseEventIterator, composed with the      *)
(* event store they read.                                                  *)
(*                                                                         *)
(* A response iterates _SseEventIterator, which iterates the opened stream *)
(* of EventStore from a task of its own: two read/close protocols, one     *)
(* inside the other.  The inner caller of EventStore (stream[c].call) is   *)
(* here the outer read task; the inner aclose is called by the outer close *)
(* task.  Whoever disconnects, cancels or ends first, the lease of the     *)
(* inner stream has to come back and no event may be lost or repeated.     *)
(***************************************************************************)
EXTENDS EventStore

VARIABLES
  sse,   \* sse[c]: the request of client c and its _SseEventIterator
  sent   \* sent[c]: run and sequence of the last event the client was sent

(***************************************************************************)
(* A request and its iterator:                                             *)
(*   phase   "idle" | "marked" (high-water mark read) | "open" | a refusal *)
(*   run, named, mark   what is asked for, the sequence Last-Event-ID      *)
(*           names (0: no header) and the high-water mark                  *)
(*   read    _read_task: "none" | "begin" (created) | "run" (inside the    *)
(*           inner __anext__) | "cancelling" | "ok" | "failed" (it raised) *)
(*   call    __anext__ of the response, as in EventStore                   *)
(*   close   _close_task: "none" | "join" | "inner" | "done"               *)
(*   ended   the response iterates no further; gone: client disconnected   *)
(***************************************************************************)
NoRequest == [phase |-> "idle", run |-> NoRun, named |-> 0, mark |-> 0,
              read |-> "none", call |-> "out", close |-> "none",
              ended |-> FALSE, gone |-> FALSE]
Refusals == {"not_found", "bad_cursor", "cursor_ahead"}

SseInit ==
  /\ Init
  /\ sse = [c \in Clients |-> NoRequest]
  /\ sent = [c \in Clients |-> [run |-> NoRun, seq |-> 0]]

\* What the client has of a run: nothing, unless it was sent events of it.
Delivered(c, r) == IF sent[c].run = r THEN sent[c].seq ELSE 0

-----------------------------------------------------------------------------
\* A broken comparison with the mark: at the end of the log is ahead of it.
ReadHighWaterStrict(c, r) ==
  /\ sse[c].phase \in {"idle"} \cup Refusals
  /\ connects[c] < MaxConnects
  /\ connects' = [connects EXCEPT ![c] = @ + 1]
  /\ buffer[r].status = "live"
  /\ LET n == Delivered(c, r)
         high == Len(buffer[r].events)
     IN  sse' = [sse EXCEPT ![c] = [NoRequest EXCEPT
                   !.run = r, !.named = n, !.mark = high,
                   !.phase = IF n > 0 /\ n >= high THEN "cursor_ahead" ELSE "marked"]]
  /\ UNCHANGED <<buffer, stream, lastId, sent>>

\* high_water_mark and parse_last_event_id.  A client resumes after the last
\* event it has, starts afresh, or names an event it was never sent; a header
\* that is malformed or names another run is a bad cursor.
ReadHighWater(c, r) ==
  /\ sse[c].phase \in {"idle"} \cup Refusals
  /\ connects[c] < MaxConnects
  /\ connects' = [connects EXCEPT ![c] = @ + 1]
  /\ \/ /\ buffer[r].status # "live"
        /\ sse' = [sse EXCEPT ![c] = [NoRequest EXCEPT !.phase = "not_found", !.run = r]]
     \/ /\ buffer[r].status = "live"
        /\ sse' = [sse EXCEPT ![c] = [NoRequest EXCEPT !.phase = "bad_cursor", !.run = r]]
     \/ /\ buffer[r].status = "live"
        /\ \E n \in {0, Delivered(c, r), Delivered(c, r) + 1} :
             LET high == Len(buffer[r].events)
             IN  sse' = [sse EXCEPT ![c] = [NoRequest EXCEPT
                           !.run = r, !.named = n, !.mark = high,
                           !.phase = IF n > high THEN "cursor_ahead" ELSE "marked"]]
  /\ UNCHANGED <<buffer, stream, lastId, sent>>

\* A broken subscription that begins at the high-water mark.
SubscribeAtMark(c) ==
  LET r == sse[c].run IN
  /\ sse[c].phase = "marked"
  /\ IF ~Locked(r, NoOwner)
     THEN /\ sse' = [sse EXCEPT ![c].phase = "not_found"]
          /\ UNCHANGED <<buffer, stream, lastId, sent>>
     ELSE /\ buffer' = [buffer EXCEPT ![r].active = @ + 1]
          /\ stream' = [stream EXCEPT ![c] = OpenedStream(r, sse[c].mark)]
          /\ lastId' = [lastId EXCEPT ![c] = sse[c].mark]
          /\ sse' = [sse EXCEPT ![c].phase = "open"]
          /\ sent' = [sent EXCEPT ![c] = [run |-> r, seq |-> sse[c].named]]
  /\ UNCHANGED connects

\* open_stream, on a log that may have grown or gone since the mark was read.
Subscribe(c) ==
  LET r == sse[c].run IN
  /\ sse[c].phase = "marked"
  /\ IF ~Locked(r, NoOwner)
     THEN /\ sse' = [sse EXCEPT ![c].phase = "not_found"]
          /\ UNCHANGED <<buffer, stream, lastId, sent>>
     ELSE IF sse[c].named > Len(buffer[r].events)
     THEN /\ sse' = [sse EXCEPT ![c].phase = "cursor_ahead"]
          /\ UNCHANGED <<buffer, stream, lastId, sent>>
     ELSE /\ buffer' = [buffer EXCEPT ![r].active = @ + 1]
          /\ stream' = [stream EXCEPT ![c] = OpenedStream(r, sse[c].named)]
          /\ lastId' = [lastId EXCEPT ![c] = sse[c].named]
          /\ sse' = [sse EXCEPT ![c].phase = "open"]
          /\ sent' = [sent EXCEPT ![c] = [run |-> r, seq |-> sse[c].named]]
  /\ UNCHANGED connects

-----------------------------------------------------------------------------
(* The read task, _read_next: it is the caller of the inner stream.        *)
SseReadDone(c) == sse[c].read \in {"none", "ok", "failed"}

\* It starts the inner __anext__, which raises at once on a closing stream.
ReadStarts(c) ==
  /\ sse[c].read = "begin"
  /\ IF stream[c].close # "none" \/ stream[c].ended
     THEN sse' = [sse EXCEPT ![c].read = "failed"] /\ UNCHANGED stream
     ELSE /\ sse' = [sse EXCEPT ![c].read = "run"]
          /\ stream' = [stream EXCEPT ![c].call = "read", ![c].read = "run"]
  /\ UNCHANGED <<buffer, lastId, connects, sent>>

\* It resumes with what the inner __anext__ returned or raised.
ReadResumes(c) ==
  /\ sse[c].read \in {"run", "cancelling"}
  /\ \/ ReturnFailure(c) /\ UNCHANGED sse
     \/ ReturnEvent(c)
        /\ sse' = [sse EXCEPT ![c].read = IF stream'[c].ended THEN "failed" ELSE "ok"]
     \/ ReturnClosed(c) /\ sse' = [sse EXCEPT ![c].read = "failed"]
  /\ UNCHANGED sent

\* task.cancel(): before its first step it ends there; inside the inner
\* __anext__ the cancellation reaches that call, where a second one, delivered
\* while the first is being handled, abandons it.
CancelRead(c) ==
  \/ sse[c].read = "begin" /\ UNCHANGED <<stream, buffer, lastId, connects>>
  \/ sse[c].read \in {"run", "cancelling"} /\ CancelCaller(c)
  \/ SseReadDone(c) /\ UNCHANGED <<stream, buffer, lastId, connects>>

CancelledSseRead(c) ==
  CASE sse[c].read = "begin" -> "failed"
    [] sse[c].read \in {"run", "cancelling"} ->
         IF stream[c].call = "close" THEN "failed" ELSE "cancelling"
    [] OTHER -> sse[c].read

-----------------------------------------------------------------------------
(* __anext__ of the iterator, called by the response.                      *)
SseNext(c) ==
  /\ sse[c].phase = "open" /\ ~sse[c].ended
  /\ sse[c].call = "out" /\ sse[c].close = "none"
  /\ sse' = [sse EXCEPT ![c].call = "read", ![c].read = "begin"]
  /\ UNCHANGED <<buffer, stream, lastId, connects, sent>>

\* The event goes out, unless the iterator is closing by now.
SseReturnEvent(c) ==
  /\ sse[c].call = "read" /\ sse[c].read = "ok"
  /\ IF sse[c].close = "none"
     THEN /\ sse' = [sse EXCEPT ![c].call = "out", ![c].read = "none"]
          /\ sent' = [sent EXCEPT ![c].seq = lastId[c]]
     ELSE /\ sse' = [sse EXCEPT ![c].call = "close", ![c].read = "none"]
          /\ UNCHANGED sent
  /\ UNCHANGED <<buffer, stream, lastId, connects>>

SseClosing(c) == IF sse[c].close = "none" THEN "join" ELSE sse[c].close

\* The read raised, or was cancelled and gathered: close before raising.
SseReturnFailure(c) ==
  /\ \/ sse[c].call = "read" /\ sse[c].read = "failed"
     \/ sse[c].call = "gather" /\ SseReadDone(c)
  /\ sse' = [sse EXCEPT ![c].call = "close", ![c].close = SseClosing(c)]
  /\ UNCHANGED <<buffer, stream, lastId, connects, sent>>

SseReturnClosed(c) ==
  /\ \/ sse[c].call = "close" /\ sse[c].close = "done"
     \/ sse[c].call = "abandon" /\ SseReadDone(c)
  /\ sse' = [sse EXCEPT ![c].call = "out", ![c].read = "none", ![c].ended = TRUE]
  /\ UNCHANGED <<buffer, stream, lastId, connects, sent>>

\* The task of the response is cancelled, as EventStore's CancelCaller; gather
\* passes a cancellation on to the read task.
SseCancelCaller(c) ==
  /\ sse[c].phase = "open" /\ ~sse[c].ended
  /\ \/ /\ sse[c].call \in {"read", "gather"}
        /\ CancelRead(c)
        /\ sse' = [sse EXCEPT ![c].read = CancelledSseRead(c),
                              ![c].call = IF @ = "read" THEN "gather" ELSE "abandon"]
     \/ /\ sse[c].call = "close"
        /\ sse' = [sse EXCEPT ![c].call = "out", ![c].read = "none", ![c].ended = TRUE]
        /\ UNCHANGED <<buffer, stream, lastId, connects>>
     \/ /\ sse[c].call = "out"
        /\ sse' = [sse EXCEPT ![c].ended = TRUE]
        /\ UNCHANGED <<buffer, stream, lastId, connects>>
  /\ UNCHANGED sent

-----------------------------------------------------------------------------
(* aclose and its task _finish_close.                                      *)
\* close_on_disconnect: the client is gone, the handler awaits aclose.
Disconnect(c) ==
  /\ sse[c].phase = "open" /\ ~sse[c].gone
  /\ sse' = [sse EXCEPT ![c].gone = TRUE]
  /\ UNCHANGED <<buffer, stream, lastId, connects, sent>>

SseClose(c) ==
  /\ sse[c].gone /\ sse[c].close = "none"
  /\ sse' = [sse EXCEPT ![c].close = "join"]
  /\ UNCHANGED <<buffer, stream, lastId, connects, sent>>

\* A read that is not done is cancelled and gathered ...
SseCloseJoins(c) ==
  /\ sse[c].close = "join" /\ sse[c].read \in {"begin", "run"}
  /\ CancelRead(c)
  /\ sse' = [sse EXCEPT ![c].read = CancelledSseRead(c)]
  /\ UNCHANGED sent

\* A broken close that trusts the cancelled read to have closed the stream.
SseCloseTrusting(c) ==
  /\ sse[c].close = "join" /\ SseReadDone(c)
  /\ sse' = [sse EXCEPT ![c].close = "done"]
  /\ UNCHANGED <<buffer, stream, lastId, connects, sent>>

\* ... then the inner stream is closed, or its close joined.
SseCloseInner(c) ==
  /\ sse[c].close = "join" /\ SseReadDone(c)
  /\ stream' = [stream EXCEPT ![c].close = ClosingStream(stream[c])]
  /\ sse' = [sse EXCEPT ![c].close = "inner"]
  /\ UNCHANGED <<buffer, lastId, connects, sent>>

SseCloseDone(c) ==
  /\ sse[c].close = "inner" /\ stream[c].close = "done"
  /\ sse' = [sse EXCEPT ![c].close = "done"]
  /\ UNCHANGED <<buffer, stream, lastId, connects, sent>>

\* The connection is over; the client may connect again.
Reconnect(c) ==
  /\ sse[c].phase = "open" /\ sse[c].close = "done"
  /\ sse[c].call = "out" /\ ~stream[c].leased
  /\ sse' = [sse EXCEPT ![c] = NoRequest]
  /\ UNCHANGED <<buffer, stream, lastId, connects, sent>>

-----------------------------------------------------------------------------
sseVars == <<buffer, stream, lastId, connects, sse, sent>>

InnerTasks(c) == StreamTasks(c) /\ UNCHANGED <<sse, sent>>
SseTasks(c) == ReadStarts(c) \/ ReadResumes(c) \/ SseCloseJoins(c)
                 \/ SseCloseInner(c) \/ SseCloseDone(c)
SseReturns(c) == SseReturnEvent(c) \/ SseReturnFailure(c) \/ SseReturnClosed(c)

SseStep ==
  \/ \E r \in Runs : Writer(r) /\ UNCHANGED <<sse, sent>>
  \/ \E c \in Clients :
       \/ InnerTasks(c) \/ SseTasks(c) \/ SseReturns(c)
       \/ SseNext(c) \/ SseCancelCaller(c) \/ Disconnect(c) \/ SseClose(c) \/ Reconnect(c)
       \/ Subscribe(c) \/ \E r \in Runs : ReadHighWater(c, r)

SseSpec == SseInit /\ [][SseStep]_sseVars

(***************************************************************************)
(* Fairness: the event loop runs every ready task, the response iterates   *)
(* until the iterator raises, and a disconnect runs its handler.  None on  *)
(* writers, requests, cancellations and disconnects.                       *)
(***************************************************************************)
SseFairness ==
  \A c \in Clients :
    /\ WF_sseVars(InnerTasks(c))
    /\ WF_sseVars(SseTasks(c))
    /\ WF_sseVars(SseReturns(c))
    /\ WF_sseVars(SseNext(c))
    /\ WF_sseVars(SseClose(c))

SseFairSpec == SseSpec /\ SseFairness

-----------------------------------------------------------------------------
SseTypeOK ==
  /\ TypeOK
  /\ sse \in [Clients ->
       [phase : {"idle", "marked", "open"} \cup Refusals, run : Runs \cup {NoRun},
        named : Nat, mark : Nat, ended : BOOLEAN, gone : BOOLEAN,
        read : {"none", "begin", "run", "cancelling", "ok", "failed"},
        call : Calls, close : {"none", "join", "inner", "done"}]]
  /\ sent \in [Clients -> [run : Runs \cup {NoRun}, seq : Nat]]

\* A connection sends the events of its run one after the other, from the one
\* after the event the client named: none is skipped, repeated or sent after
\* the iterator began to close, whatever is cancelled or closed meanwhile.
SentInOrder ==
  [][\A c \in Clients : sent'[c] # sent[c] /\ sse[c].phase = "open" =>
       /\ sent'[c] = [sent[c] EXCEPT !.seq = @ + 1]
       /\ sse[c].close = "none"
       /\ sent'[c].seq <= Len(buffer[sent[c].run].events)]_sseVars

\* A client that names the last event it was sent is never told that its
\* cursor is ahead, although the mark is read before the subscription.
ResumptionHonoured ==
  \A c \in Clients :
    sse[c].phase = "cursor_ahead" => sse[c].named > Delivered(c, sse[c].run)

\* A client that is gone, or an iterator that began to close, gives the lease
\* of its stream back: pruning is not held up by dead connections.
SseLeaseReturned ==
  \A c \in Clients :
    (stream[c].leased /\ (sse[c].gone \/ sse[c].close # "none")) ~> ~stream[c].leased

\* A client that stays connected is sent everything up to the terminal event.
SseTerminalDelivered ==
  \A c \in Clients, r \in Runs :
    (sse[c].phase = "open" /\ sse[c].run = r /\ buffer[r].terminal)
      ~> (\/ sent[c] = [run |-> r, seq |-> Len(buffer[r].events)]
          \/ sse[c].ended \/ sse[c].gone \/ sse[c].close # "none")
=============================================================================
