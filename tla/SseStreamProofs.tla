--------------------------- MODULE SseStreamProofs ----------------------------
(***************************************************************************)
(* Theorems about EventStore and SseStream, for any number of runs,        *)
(* clients and tokens.  The first part is about the steps of the store,    *)
(* whoever drives it: the store's part of every step of SseStream is a     *)
(* StoreStep, so its invariants carry over.  What is new in the second     *)
(* part is how the iterator of the response and the stream inside it are   *)
(* linked.                                                                 *)
(***************************************************************************)
EXTENDS SseStream, FiniteSetTheorems, SequenceTheorems, TLAPS

-----------------------------------------------------------------------------
(* A step of the store, whoever drives it.  The lemmas are about these      *)
(* steps, so that they hold for EventStore's own clients and for the        *)
(* responses of SseStream, which open streams in a way of their own.        *)

\* A stream is opened after a position that the log has reached.
Opens(c, r, after) ==
  /\ ~stream[c].leased
  /\ buffer[r].status = "live" /\ after <= Len(buffer[r].events)
  /\ buffer' = [buffer EXCEPT ![r].active = @ + 1]
  /\ stream' = [stream EXCEPT ![c] = OpenedStream(r, after)]
  /\ lastId' = [lastId EXCEPT ![c] = after]

StoreStep ==
  /\ connects' \in [Clients -> Nat]
  /\ \/ \E r \in Runs : Writer(r)
     \/ \E c \in Clients : StreamTasks(c) \/ Caller(c)
     \/ \E c \in Clients, r \in Runs, after \in Nat : Opens(c, r, after)
     \/ UNCHANGED <<buffer, stream, lastId>>

LEMMA OpenOpens ==
  ASSUME TypeOK, NEW c \in Clients, NEW r \in Runs, open_stream(c, r)
  PROVE  /\ Opens(c, r, Resume(c, r)) /\ Resume(c, r) \in Nat
         /\ connects' \in [Clients -> Nat]
<1>1. Resume(c, r) \in Nat
  BY DEF TypeOK, Resume
<1>2. connects' \in [Clients -> Nat]
  BY DEF open_stream, TypeOK
<1> QED BY <1>1, <1>2 DEF open_stream, Opens, Locked

LEMMA NextIsStoreStep == TypeOK /\ [Next]_vars => StoreStep
<1> SUFFICES ASSUME TypeOK, [Next]_vars PROVE StoreStep
  OBVIOUS
<1>1. ASSUME NEW r \in Runs, Writer(r) PROVE StoreStep
  BY <1>1 DEF StoreStep, TypeOK, Writer, create_run, emit, emit_terminal, Append_, delete_run
<1>2. ASSUME NEW c \in Clients, NEW r \in Runs, open_stream(c, r) PROVE StoreStep
  BY <1>2, OpenOpens DEF StoreStep
<1>3. ASSUME NEW c \in Clients, Caller(c) PROVE StoreStep
  <2>1. connects' = connects
    BY <1>3 DEF Caller, ReturnEvent, ReturnFailure, ReturnClosed, anext, CancelCaller, aclose
  <2> QED BY <1>3, <2>1 DEF StoreStep, TypeOK
<1>4. ASSUME NEW c \in Clients, StreamTasks(c) PROVE StoreStep
  <2>1. connects' = connects
    BY <1>4 DEF StreamTasks, GeneratorYield, GeneratorWait, GeneratorEnd, ReadCancelled,
                CloseJoins, CloseReleases
  <2> QED BY <1>4, <2>1 DEF StoreStep, TypeOK
<1>5. CASE UNCHANGED vars
  BY <1>5 DEF vars, StoreStep, TypeOK
<1> QED BY <1>1, <1>2, <1>3, <1>4, <1>5 DEF Next

-----------------------------------------------------------------------------
(* What the steps change.  A caller's step leaves the generator alone; the  *)
(* steps of the stream's own tasks and of the writers are taken one by one. *)

\* The part of a stream a caller may change.
CallerFields(s, call, read, close, ended) ==
  [s EXCEPT !.call = call, !.read = read, !.close = close, !.ended = ended]

LEMMA CallerFieldsType ==
  ASSUME NEW s \in Stream, NEW call \in Calls, NEW read \in Reads,
         NEW close \in Closes, NEW ended \in BOOLEAN
  PROVE  CallerFields(s, call, read, close, ended) \in Stream
BY DEF CallerFields, Stream

\* A caller's step changes call, read, close and ended of its stream, and the
\* client's position only when an event is returned.
LEMMA CallerStep ==
  ASSUME TypeOK, NEW c \in Clients, Caller(c)
  PROVE  /\ UNCHANGED <<buffer, connects>>
         /\ \E call \in Calls, read \in Reads, close \in Closes, ended \in BOOLEAN :
              stream' = [stream EXCEPT ![c] =
                           CallerFields(stream[c], call, read, close, ended)]
         /\ lastId' \in {lastId, [lastId EXCEPT ![c] = stream[c].cursor]}
<1> DEFINE s == stream[c]
           Goes(call, read, close, ended) ==
             stream' = [stream EXCEPT ![c] = CallerFields(s, call, read, close, ended)]
           Moves == \E call \in Calls, read \in Reads, close \in Closes, ended \in BOOLEAN :
                      Goes(call, read, close, ended)
<1>1. /\ stream \in [Clients -> Stream] /\ s \in Stream
      /\ s.call \in Calls /\ s.read \in Reads /\ s.close \in Closes /\ s.ended \in BOOLEAN
  BY DEF TypeOK, Stream
<1>2. "out" \in Calls /\ "read" \in Calls /\ "gather" \in Calls /\ "abandon" \in Calls
      /\ "close" \in Calls /\ "none" \in Reads /\ "run" \in Reads
      /\ CancelledRead(s.read) \in Reads /\ ClosingStream(s) \in Closes
      /\ TRUE \in BOOLEAN
  BY <1>1 DEF Calls, Reads, Closes, CancelledRead, ClosingStream
<1>3. /\ UNCHANGED <<buffer, connects>>
      /\ lastId' \in {lastId, [lastId EXCEPT ![c] = stream[c].cursor]}
  BY DEF Caller, ReturnEvent, ReturnFailure, ReturnClosed, anext, CancelCaller, aclose
<1>4. Moves
  <2>1. CASE ReturnEvent(c)
    <3>1. Goes("out", "none", s.close, s.ended) \/ Goes("out", "none", s.close, TRUE)
      BY <1>1, <2>1 DEF ReturnEvent, CallerFields, Stream
    <3> HIDE DEF Goes, s
    <3> QED BY <1>1, <1>2, <3>1, Zenon
  <2>2. CASE ReturnFailure(c)
    <3>1. Goes("close", s.read, ClosingStream(s), s.ended)
      BY <1>1, <2>2 DEF ReturnFailure, CallerFields, Stream
    <3> HIDE DEF Goes, s
    <3> QED BY <1>1, <1>2, <3>1, Zenon
  <2>3. CASE ReturnClosed(c)
    <3>1. Goes("out", "none", s.close, TRUE)
      BY <1>1, <2>3 DEF ReturnClosed, CallerFields, Stream
    <3> HIDE DEF Goes, s
    <3> QED BY <1>1, <1>2, <3>1, Zenon
  <2>4. CASE anext(c)
    <3>1. Goes("read", "run", s.close, s.ended)
      BY <1>1, <2>4 DEF anext, CallerFields, Stream
    <3> HIDE DEF Goes, s
    <3> QED BY <1>1, <1>2, <3>1, Zenon
  <2>5. CASE CancelCaller(c)
    <3>1. \/ Goes("gather", CancelledRead(s.read), s.close, s.ended)
          \/ Goes("abandon", s.read, s.close, s.ended)
          \/ Goes("out", "none", s.close, TRUE)
          \/ Goes(s.call, s.read, s.close, TRUE)
      <4> HIDE DEF s
      <4>1. CASE s.call = "read"
        BY <1>1, <2>5, <4>1 DEF CancelCaller, CallerFields, Stream, s
      <4>2. CASE s.call = "gather"
        BY <1>1, <2>5, <4>2 DEF CancelCaller, CallerFields, Stream, s
      <4>3. CASE s.call = "close"
        BY <1>1, <2>5, <4>3 DEF CancelCaller, CallerFields, Stream, s
      <4>4. CASE s.call = "out"
        BY <1>1, <2>5, <4>4 DEF CancelCaller, CallerFields, Stream, s
      <4> QED BY <2>5, <4>1, <4>2, <4>3, <4>4 DEF CancelCaller, s
    <3> HIDE DEF Goes, s
    <3> QED BY <1>1, <1>2, <3>1, Zenon
  <2>6. CASE aclose(c)
    <3>1. Goes(s.call, s.read, ClosingStream(s), s.ended)
      BY <1>1, <2>6 DEF aclose, CallerFields, Stream
    <3> HIDE DEF Goes, s
    <3> QED BY <1>1, <1>2, <3>1, Zenon
  <2> QED BY <2>1, <2>2, <2>3, <2>4, <2>5, <2>6 DEF Caller
<1> QED BY <1>3, <1>4

-----------------------------------------------------------------------------
(* Type correctness. *)

\* What the generator has still to yield is a sequence of events.
LEMMA PendingType ==
  ASSUME TypeOK, NEW c \in Clients, stream[c].run \in Runs
  PROVE  Pending(c) \in Seq(Event)
<1> DEFINE log == buffer[stream[c].run].events
           k == stream[c].cursor + 1
<1>1. log \in Seq(Event) /\ k \in Nat \ {0} /\ stream[c].batch \in Seq(Event)
  BY DEF TypeOK, Buffer, Stream
<1>2. Len(log) \in Nat /\ \A i \in k .. Len(log) : log[i] \in Event
  BY <1>1
<1>3. SubSeq(log, k, Len(log)) \in Seq(Event)
  BY <1>1, <1>2, SubSeqProperties
<1> QED BY <1>1, <1>3 DEF Pending

\* Waking the readers of a run keeps every stream, but for "wait" in gen.
LEMMA NotifiedType ==
  ASSUME NEW streams \in [Clients -> Stream], NEW r
  PROVE  /\ Notified(streams, r) \in [Clients -> Stream]
         /\ \A c \in Clients :
              Notified(streams, r)[c] \in {streams[c], [streams[c] EXCEPT !.gen = "ready"]}
         /\ \A c \in Clients :
              streams[c].run = r => Notified(streams, r)[c].gen # "wait"
<1>1. \A c \in Clients : [streams[c] EXCEPT !.gen = "ready"] \in Stream
  BY DEF Stream
<1>2. \A c \in Clients :
        Notified(streams, r)[c] = IF streams[c].run = r /\ streams[c].gen = "wait"
                                  THEN [streams[c] EXCEPT !.gen = "ready"] ELSE streams[c]
  BY DEF Notified
<1>3. \A c \in Clients : streams[c] \in Stream
  OBVIOUS
<1>4. Notified(streams, r) \in [Clients -> Stream]
  BY <1>1, <1>3 DEF Notified
<1>5. \A c \in Clients : [streams[c] EXCEPT !.gen = "ready"].gen = "ready"
  BY <1>3 DEF Stream
<1> QED BY <1>2, <1>4, <1>5

\* Writers keep the types.
LEMMA WriterType ==
  ASSUME TypeOK, NEW r \in Runs, Writer(r)
  PROVE  TypeOK'
<1> DEFINE b == buffer[r]
<1>1. buffer \in [Runs -> Buffer] /\ b \in Buffer /\ stream \in [Clients -> Stream]
  BY DEF TypeOK
<1>2. ASSUME NEW t \in Owners, create_run(r, t) PROVE TypeOK'
  <2>1. [b EXCEPT !.status = "live", !.owner = t] \in Buffer
    BY <1>1 DEF Buffer
  <2>2. buffer' = [buffer EXCEPT ![r] = [b EXCEPT !.status = "live", !.owner = t]]
    BY <1>2 DEF create_run
  <2>3. buffer' \in [Runs -> Buffer]
    BY <1>1, <2>1, <2>2
  <2> QED BY <1>2, <2>3 DEF create_run, TypeOK
<1>3. ASSUME NEW t \in Tokens, NEW k \in Kinds, Append_(r, t, k) PROVE TypeOK'
  <2> DEFINE e == [seq |-> Len(b.events) + 1, kind |-> k]
             a == [b EXCEPT !.events = Append(@, e),
                            !.started = @ \/ k = "run.started",
                            !.terminal = k = "run.terminal"]
  <2>1. e \in Event /\ b.events \in Seq(Event) /\ b.started \in BOOLEAN
    BY <1>1 DEF Buffer, Event
  <2>2. Append(b.events, e) \in Seq(Event)
    BY <2>1, AppendProperties
  <2>3. (b.started \/ k = "run.started") \in BOOLEAN /\ (k = "run.terminal") \in BOOLEAN
    OBVIOUS
  <2>4. a \in Buffer
    BY <1>1, <2>2, <2>3 DEF Buffer
  <2>5. buffer' = [buffer EXCEPT ![r] = a]
    BY <1>3 DEF Append_
  <2>6. buffer' \in [Runs -> Buffer]
    BY <1>1, <2>4, <2>5
  <2>7. stream' \in [Clients -> Stream]
    BY <1>1, <1>3, NotifiedType DEF Append_
  <2> QED BY <1>3, <2>6, <2>7 DEF Append_, TypeOK
<1>4. ASSUME NEW t \in Tokens, NEW u \in BOOLEAN, delete_run(r, t, u) PROVE TypeOK'
  <2>1. [b EXCEPT !.status = "deleted", !.events = <<>>] \in Buffer
    BY <1>1, EmptySeq DEF Buffer
  <2>2. buffer' = [buffer EXCEPT ![r] = [b EXCEPT !.status = "deleted", !.events = <<>>]]
    BY <1>4 DEF delete_run
  <2>3. buffer' \in [Runs -> Buffer]
    BY <1>1, <2>1, <2>2
  <2>4. stream' \in [Clients -> Stream]
    BY <1>1, <1>4, NotifiedType DEF delete_run
  <2> QED BY <1>4, <2>3, <2>4 DEF delete_run, TypeOK
<1> QED BY <1>2, <1>3, <1>4 DEF Writer, emit, emit_terminal, Kinds

LEMMA OpenType ==
  ASSUME TypeOK, NEW c \in Clients, NEW r \in Runs, NEW after \in Nat, Opens(c, r, after),
         connects' \in [Clients -> Nat]
  PROVE  TypeOK'
<1>1. OpenedStream(r, after) \in Stream
  BY EmptySeq DEF OpenedStream, Stream, Reads, Calls, Closes
<1>2. stream' \in [Clients -> Stream]
  BY <1>1 DEF Opens, TypeOK
<1>3. [buffer[r] EXCEPT !.active = @ + 1] \in Buffer
  <2>1. buffer[r] \in Buffer
    BY DEF TypeOK
  <2> QED BY <2>1 DEF Buffer
<1>4. buffer' = [buffer EXCEPT ![r] = [buffer[r] EXCEPT !.active = @ + 1]]
  BY DEF Opens
<1>5. buffer' \in [Runs -> Buffer]
  BY <1>3, <1>4 DEF TypeOK
<1> QED BY <1>2, <1>5 DEF Opens, TypeOK

\* A stream that was never opened takes no step of its own.
RunKnown ==
  \A c \in Clients :
    \/ stream[c].run = NoRun /\ stream[c] = NoStream
    \/ stream[c].run \in Runs /\ buffer[stream[c].run].status # "absent"

LEMMA UnopenedIsIdle ==
  ASSUME TypeOK, RunKnown, NEW c \in Clients, Caller(c) \/ StreamTasks(c)
  PROVE  stream[c].run \in Runs /\ buffer[stream[c].run].status # "absent"
<1>1. SUFFICES ASSUME stream[c] = NoStream PROVE FALSE
  BY DEF RunKnown
<1>2. /\ stream[c].call = "out" /\ stream[c].read = "none" /\ stream[c].close = "done"
      /\ stream[c].ended
  BY <1>1 DEF NoStream
<1>3. ~Caller(c)
  BY <1>2 DEF Caller, ReturnEvent, ReturnFailure, ReturnClosed, anext, CancelCaller, aclose
<1>4. ~StreamTasks(c)
  BY <1>2 DEF StreamTasks, GeneratorYield, GeneratorWait, GeneratorEnd, ReadCancelled,
              CloseJoins, CloseReleases
<1> QED BY <1>3, <1>4

\* The new value of a stream whose own tasks take a step.
YieldedStream(c) ==
  [stream[c] EXCEPT !.cursor = Head(Pending(c)).seq, !.batch = Tail(Pending(c)),
     !.gen = IF Head(Pending(c)).kind = "run.terminal" THEN "final" ELSE "ready",
     !.read = "ok"]
ReleasedStream(c) == [stream[c] EXCEPT !.leased = FALSE, !.close = "done", !.gen = "ended"]

LEMMA YieldStep ==
  ASSUME TypeOK, NEW c \in Clients, stream[c].run \in Runs, GeneratorYield(c)
  PROVE  /\ YieldedStream(c) \in Stream
         /\ stream' = [stream EXCEPT ![c] = YieldedStream(c)]
         /\ UNCHANGED <<buffer, lastId, connects>>
<1>1. Pending(c) \in Seq(Event) /\ Pending(c) # <<>>
  BY PendingType DEF GeneratorYield
<1>2. Head(Pending(c)) \in Event /\ Tail(Pending(c)) \in Seq(Event)
  BY <1>1, HeadTailProperties
<1>3. Head(Pending(c)).seq \in Nat
  BY <1>2 DEF Event
<1>4. stream[c] \in Stream
  BY DEF TypeOK
<1>5. YieldedStream(c) \in Stream
  BY <1>2, <1>3, <1>4 DEF YieldedStream, Stream, Reads
<1> QED BY <1>5 DEF GeneratorYield, YieldedStream

LEMMA ReleaseStep ==
  ASSUME TypeOK, NEW c \in Clients, CloseReleases(c)
  PROVE  LET released == [stream EXCEPT ![c] = ReleasedStream(c)] IN
         /\ ReleasedStream(c) \in Stream
         /\ released \in [Clients -> Stream]
         /\ stream' = Notified(released, stream[c].run)
         /\ stream' \in [Clients -> Stream]
         /\ UNCHANGED <<lastId, connects>>
<1>1. stream[c] \in Stream
  BY DEF TypeOK
<1>2. ReleasedStream(c) \in Stream
  BY <1>1 DEF ReleasedStream, Stream, Closes
<1>3. [stream EXCEPT ![c] = ReleasedStream(c)] \in [Clients -> Stream]
  BY <1>2 DEF TypeOK
<1>4. stream' = Notified([stream EXCEPT ![c] = ReleasedStream(c)], stream[c].run)
  BY DEF CloseReleases, ReleasedStream
<1>5. stream' \in [Clients -> Stream]
  BY <1>3, <1>4, NotifiedType
<1> QED BY <1>2, <1>3, <1>4, <1>5 DEF CloseReleases

\* The other tasks change only gen and read, and never make a reader wait on
\* what it could read.
LEMMA QuietStep ==
  ASSUME TypeOK, NEW c \in Clients,
         GeneratorWait(c) \/ GeneratorEnd(c) \/ ReadCancelled(c) \/ CloseJoins(c)
  PROVE  /\ UNCHANGED <<buffer, lastId, connects>>
         /\ \E gen \in {"ready", "wait", "final", "ended"}, read \in Reads :
              /\ stream' = [stream EXCEPT ![c] = [stream[c] EXCEPT !.gen = gen, !.read = read]]
              /\ gen = "wait" => GeneratorWait(c) \/ stream[c].gen = "wait"
<1> DEFINE s == stream[c]
           Goes(gen, read) ==
             /\ stream' = [stream EXCEPT ![c] = [stream[c] EXCEPT !.gen = gen, !.read = read]]
             /\ gen = "wait" => GeneratorWait(c) \/ stream[c].gen = "wait"
           Gens == {"ready", "wait", "final", "ended"}
<1>1. /\ stream \in [Clients -> Stream] /\ s \in Stream /\ s.gen \in Gens /\ s.read \in Reads
  BY DEF TypeOK, Stream
<1>2. /\ "wait" \in Gens /\ "ended" \in Gens /\ "stop" \in Reads /\ "failed" \in Reads
      /\ CancelledRead(s.read) \in Reads
  BY <1>1 DEF Reads, CancelledRead
<1>3. UNCHANGED <<buffer, lastId, connects>>
  BY DEF GeneratorWait, GeneratorEnd, ReadCancelled, CloseJoins
<1>4. CASE GeneratorWait(c)
  <2>1. Goes("wait", s.read)
    BY <1>1, <1>4 DEF GeneratorWait, Stream
  <2> HIDE DEF Goes, s, Gens
  <2>2. \E gen \in Gens, read \in Reads : Goes(gen, read)
    BY <1>1, <1>2, <2>1, Zenon
  <2> QED BY <1>3, <2>2 DEF Goes, Gens
<1>5. CASE GeneratorEnd(c)
  <2>1. Goes("ended", "stop")
    BY <1>1, <1>5 DEF GeneratorEnd, Stream
  <2> HIDE DEF Goes, s, Gens
  <2>2. \E gen \in Gens, read \in Reads : Goes(gen, read)
    BY <1>1, <1>2, <2>1, Zenon
  <2> QED BY <1>3, <2>2 DEF Goes, Gens
<1>6. CASE ReadCancelled(c)
  <2>1. Goes("ended", "failed") \/ Goes(s.gen, "failed")
    BY <1>1, <1>6 DEF ReadCancelled, Stream
  <2> HIDE DEF Goes, s, Gens
  <2>2. \E gen \in Gens, read \in Reads : Goes(gen, read)
    BY <1>1, <1>2, <2>1, Zenon
  <2> QED BY <1>3, <2>2 DEF Goes, Gens
<1>7. CASE CloseJoins(c)
  <2>1. Goes(s.gen, CancelledRead(s.read))
    BY <1>1, <1>7 DEF CloseJoins, Stream
  <2> HIDE DEF Goes, s, Gens
  <2>2. \E gen \in Gens, read \in Reads : Goes(gen, read)
    BY <1>1, <1>2, <2>1, Zenon
  <2> QED BY <1>3, <2>2 DEF Goes, Gens
<1> QED BY <1>4, <1>5, <1>6, <1>7

\* A buffer that was not created is as new.
FreshBuffers == \A r \in Runs : buffer[r].status = "absent" => buffer[r] = NewBuffer

Base == TypeOK /\ RunKnown /\ FreshBuffers

LEMMA BaseInit == Init => Base
BY EmptySeq, NoRunAssumption
   DEF Init, Base, TypeOK, RunKnown, FreshBuffers, NewBuffer, NoStream, Buffer, Stream,
       Reads, Calls, Closes

\* The runs the streams read from never change but by an open, and no buffer
\* becomes absent.
LEMMA StreamsKeepRun ==
  ASSUME Base, NEW c \in Clients, Caller(c) \/ StreamTasks(c)
  PROVE  /\ TypeOK'
         /\ \A d \in Clients : stream'[d].run = stream[d].run
         /\ \A d \in Clients : stream[d].run \notin Runs => stream'[d] = stream[d]
         /\ \A r \in Runs : buffer'[r].status = buffer[r].status
         /\ \A r \in Runs : buffer[r].status = "absent" => buffer'[r] = buffer[r]
<1>1. stream[c].run \in Runs /\ buffer[stream[c].run].status # "absent"
  BY UnopenedIsIdle DEF Base
<1>2. TypeOK /\ stream \in [Clients -> Stream] /\ buffer \in [Runs -> Buffer]
  BY DEF Base, TypeOK
<1>3. CASE Caller(c)
  <2>1. PICK call \in Calls, read \in Reads, close \in Closes, ended \in BOOLEAN :
          stream' = [stream EXCEPT ![c] = CallerFields(stream[c], call, read, close, ended)]
    BY <1>2, <1>3, CallerStep
  <2>2. CallerFields(stream[c], call, read, close, ended) \in Stream
    BY <1>2, CallerFieldsType
  <2>3. UNCHANGED <<buffer, connects>> /\ lastId' \in [Clients -> Nat]
    BY <1>2, <1>3, CallerStep DEF TypeOK, Stream
  <2>4. CallerFields(stream[c], call, read, close, ended).run = stream[c].run
    BY <1>2 DEF CallerFields, Stream
  <2> QED BY <1>1, <1>2, <2>1, <2>2, <2>3, <2>4 DEF TypeOK
<1>4. CASE GeneratorYield(c)
  <2>1. YieldedStream(c).run = stream[c].run
    BY <1>2 DEF YieldedStream, Stream
  <2> QED BY <1>1, <1>2, <1>4, <2>1, YieldStep DEF TypeOK
<1>5. CASE GeneratorWait(c) \/ GeneratorEnd(c) \/ ReadCancelled(c) \/ CloseJoins(c)
  <2>1. PICK gen \in {"ready", "wait", "final", "ended"}, read \in Reads :
          stream' = [stream EXCEPT ![c] = [stream[c] EXCEPT !.gen = gen, !.read = read]]
    BY <1>2, <1>5, QuietStep
  <2>2. /\ [stream[c] EXCEPT !.gen = gen, !.read = read] \in Stream
        /\ [stream[c] EXCEPT !.gen = gen, !.read = read].run = stream[c].run
    BY <1>2 DEF Stream
  <2>3. UNCHANGED <<buffer, lastId, connects>>
    BY <1>2, <1>5, QuietStep
  <2> QED BY <1>1, <1>2, <2>1, <2>2, <2>3 DEF TypeOK
<1>6. CASE CloseReleases(c)
  <2> DEFINE run == stream[c].run
             released == [stream EXCEPT ![c] = ReleasedStream(c)]
             b == [buffer[run] EXCEPT !.active = @ - 1]
  <2>1. /\ released \in [Clients -> Stream] /\ stream' \in [Clients -> Stream]
        /\ stream' = Notified(released, run) /\ UNCHANGED <<lastId, connects>>
    BY <1>2, <1>6, ReleaseStep
  <2>2. buffer[run] \in Buffer
    BY <1>1, <1>2
  <2>3. b \in Buffer /\ b.status = buffer[run].status
    BY <2>2 DEF Buffer
  <2>4. buffer' = [buffer EXCEPT ![run] = b] \/ buffer' = buffer
    BY <1>6 DEF CloseReleases
  <2>5. /\ buffer' \in [Runs -> Buffer]
        /\ \A r \in Runs : buffer'[r].status = buffer[r].status
        /\ \A r \in Runs : r # run => buffer'[r] = buffer[r]
    BY <1>1, <1>2, <2>3, <2>4
  <2>6. ReleasedStream(c).run = run
    BY <1>2 DEF ReleasedStream, Stream
  <2>7. \A d \in Clients : released[d].run = stream[d].run
    BY <1>2, <2>6
  <2>8. \A d \in Clients :
          stream'[d] = IF released[d].run = run /\ released[d].gen = "wait"
                       THEN [released[d] EXCEPT !.gen = "ready"] ELSE released[d]
    BY <2>1 DEF Notified
  <2>9. \A d \in Clients : [released[d] EXCEPT !.gen = "ready"].run = released[d].run
    BY <2>1 DEF Stream
  <2>10. \A d \in Clients : stream'[d].run = stream[d].run
    <3> HIDE DEF released
    <3> QED BY <2>7, <2>8, <2>9
  <2>11. \A d \in Clients : stream[d].run \notin Runs => stream'[d] = stream[d]
    <3>1. \A d \in Clients : d # c => released[d] = stream[d]
      BY <1>2
    <3> HIDE DEF released
    <3> QED BY <1>1, <2>7, <2>8, <3>1
  <2>12. \A r \in Runs : buffer[r].status = "absent" => buffer'[r] = buffer[r]
    BY <1>1, <2>5
  <2>13. TypeOK'
    BY <1>2, <2>1, <2>5 DEF TypeOK
  <2> HIDE DEF run, released, b
  <2> QED BY <2>5, <2>10, <2>11, <2>12, <2>13
<1> QED BY <1>3, <1>4, <1>5, <1>6 DEF StreamTasks

LEMMA BaseStep == Base /\ StoreStep => Base'
<1> SUFFICES ASSUME Base, StoreStep PROVE Base'
  OBVIOUS
<1>1. TypeOK /\ stream \in [Clients -> Stream] /\ buffer \in [Runs -> Buffer]
  BY DEF Base, TypeOK
<1>2. ASSUME NEW r \in Runs, Writer(r) PROVE Base'
  <2>1. TypeOK'
    BY <1>1, <1>2, WriterType
  <2>2. /\ \A d \in Clients : stream'[d].run = stream[d].run
        /\ \A d \in Clients : stream[d].run = NoRun => stream'[d] = stream[d]
    <3>1. CASE stream' = stream
      BY <3>1
    <3>2. CASE stream' = Notified(stream, r)
      <4>1. \A d \in Clients :
              stream'[d] = IF stream[d].run = r /\ stream[d].gen = "wait"
                           THEN [stream[d] EXCEPT !.gen = "ready"] ELSE stream[d]
        BY <3>2 DEF Notified
      <4>2. \A d \in Clients : [stream[d] EXCEPT !.gen = "ready"].run = stream[d].run
        BY <1>1 DEF Stream
      <4> QED BY <4>1, <4>2, NoRunAssumption
    <3> QED BY <1>2, <3>1, <3>2
          DEF Writer, create_run, emit, emit_terminal, Append_, delete_run
  <2>3. \A q \in Runs : buffer'[q].status = "absent" =>
          buffer[q].status = "absent" /\ buffer'[q] = buffer[q]
    <3>1. \A q \in Runs : q # r => buffer'[q] = buffer[q]
      BY <1>1, <1>2 DEF Writer, create_run, emit, emit_terminal, Append_, delete_run
    <3>2. buffer'[r].status # "absent"
      <4>1. ASSUME NEW t \in Owners, create_run(r, t) PROVE buffer'[r].status # "absent"
        BY <1>1, <4>1 DEF create_run, Buffer
      <4>2. ASSUME NEW t \in Tokens, NEW k \in Kinds, Append_(r, t, k)
            PROVE  buffer'[r].status # "absent"
        BY <1>1, <4>2 DEF Append_, Locked, Buffer
      <4>3. ASSUME NEW t \in Tokens, NEW u \in BOOLEAN, delete_run(r, t, u)
            PROVE  buffer'[r].status # "absent"
        BY <1>1, <4>3 DEF delete_run, Buffer
      <4> QED BY <1>2, <4>1, <4>2, <4>3 DEF Writer, emit, emit_terminal, Kinds
    <3> QED BY <3>1, <3>2
  <2> QED BY <2>1, <2>2, <2>3 DEF Base, RunKnown, FreshBuffers
<1>3. ASSUME NEW c \in Clients, NEW r \in Runs, NEW after \in Nat, Opens(c, r, after)
      PROVE  Base'
  <2>1. TypeOK'
    BY <1>1, <1>3, OpenType DEF StoreStep
  <2>2. /\ stream'[c].run = r
        /\ \A d \in Clients : d # c => stream'[d] = stream[d]
    BY <1>1, <1>3 DEF Opens, OpenedStream
  <2>3. /\ buffer[r].status = "live" /\ buffer'[r].status = "live"
        /\ \A q \in Runs : q # r => buffer'[q] = buffer[q]
    BY <1>1, <1>3 DEF Opens, Buffer
  <2> QED BY <2>1, <2>2, <2>3 DEF Base, RunKnown, FreshBuffers
<1>4. ASSUME NEW c \in Clients, Caller(c) \/ StreamTasks(c) PROVE Base'
  <2>1. /\ TypeOK'
        /\ \A d \in Clients : stream'[d].run = stream[d].run
        /\ \A d \in Clients : stream[d].run \notin Runs => stream'[d] = stream[d]
        /\ \A r \in Runs : buffer'[r].status = buffer[r].status
        /\ \A r \in Runs : buffer[r].status = "absent" => buffer'[r] = buffer[r]
    BY <1>4, StreamsKeepRun
  <2> QED BY <2>1, NoRunAssumption DEF Base, RunKnown, FreshBuffers
<1>5. CASE UNCHANGED <<buffer, stream, lastId>>
  BY <1>5 DEF StoreStep, Base, TypeOK, RunKnown, FreshBuffers
<1> QED BY <1>2, <1>3, <1>4, <1>5 DEF StoreStep

LEMMA BaseNext == Base /\ [Next]_vars => Base'
BY BaseStep, NextIsStoreStep DEF Base

\* The store's variables always have their type, whatever the number of runs,
\* clients and tokens, and a stream always has the buffer it was opened on.
THEOREM TypeCorrect == Spec => []TypeOK
<1>1. Spec => []Base
  BY BaseInit, BaseNext, PTL DEF Spec
<1>2. Base => TypeOK
  BY DEF Base
<1> QED BY <1>1, <1>2, PTL

-----------------------------------------------------------------------------
(* Leases. *)

\* Two values of a stream that agree on its lease and on its position.
SamePosition(s, t) ==
  /\ s.run = t.run /\ s.leased = t.leased
  /\ s.cursor = t.cursor /\ s.batch = t.batch

LEMMA NotifiedKeepsPosition ==
  ASSUME NEW streams \in [Clients -> Stream], NEW r, NEW d \in Clients
  PROVE  SamePosition(Notified(streams, r)[d], streams[d])
<1>1. Notified(streams, r)[d] \in {streams[d], [streams[d] EXCEPT !.gen = "ready"]}
  BY NotifiedType
<1>2. streams[d] \in Stream
  OBVIOUS
<1> QED BY <1>1, <1>2 DEF SamePosition, Stream

LEMMA WriterKeepsPosition ==
  ASSUME TypeOK, NEW r \in Runs, Writer(r), NEW d \in Clients
  PROVE  SamePosition(stream'[d], stream[d])
<1>1. stream' = stream \/ stream' = Notified(stream, r)
  BY DEF Writer, create_run, emit, emit_terminal, Append_, delete_run
<1>2. stream \in [Clients -> Stream]
  BY DEF TypeOK
<1> QED BY <1>1, <1>2, NotifiedKeepsPosition DEF SamePosition

LEMMA CallerKeepsPosition ==
  ASSUME TypeOK, NEW c \in Clients, NEW d \in Clients,
         \/ Caller(c)
         \/ GeneratorWait(c) \/ GeneratorEnd(c) \/ ReadCancelled(c) \/ CloseJoins(c)
  PROVE  SamePosition(stream'[d], stream[d]) /\ buffer' = buffer
<1>1. stream \in [Clients -> Stream]
  BY DEF TypeOK
<1>2. CASE Caller(c)
  <2>1. PICK call \in Calls, read \in Reads, close \in Closes, ended \in BOOLEAN :
          stream' = [stream EXCEPT ![c] = CallerFields(stream[c], call, read, close, ended)]
    BY <1>2, CallerStep
  <2>2. SamePosition(CallerFields(stream[c], call, read, close, ended), stream[c])
    BY <1>1 DEF CallerFields, Stream, SamePosition
  <2>3. buffer' = buffer
    BY <1>2, CallerStep
  <2> QED BY <1>1, <2>1, <2>2, <2>3 DEF SamePosition
<1>3. CASE GeneratorWait(c) \/ GeneratorEnd(c) \/ ReadCancelled(c) \/ CloseJoins(c)
  <2>1. PICK gen \in {"ready", "wait", "final", "ended"}, read \in Reads :
          stream' = [stream EXCEPT ![c] = [stream[c] EXCEPT !.gen = gen, !.read = read]]
    BY <1>3, QuietStep
  <2>2. SamePosition([stream[c] EXCEPT !.gen = gen, !.read = read], stream[c])
    BY <1>1 DEF Stream, SamePosition
  <2>3. buffer' = buffer
    BY <1>3, QuietStep
  <2> QED BY <1>1, <2>1, <2>2, <2>3 DEF SamePosition
<1> QED BY <1>2, <1>3

\* What a release does to the stream, to the others and to the count.
LEMMA ReleaseEffect ==
  ASSUME Base, NEW c \in Clients, CloseReleases(c)
  PROVE  /\ stream[c].run \in Runs
         /\ stream'[c].run = stream[c].run /\ ~stream'[c].leased
         /\ stream'[c].cursor = stream[c].cursor /\ stream'[c].batch = stream[c].batch
         /\ \A d \in Clients \ {c} : SamePosition(stream'[d], stream[d])
         /\ \A r \in Runs : buffer'[r].active =
              IF r = stream[c].run /\ stream[c].leased
              THEN buffer[r].active - 1 ELSE buffer[r].active
<1> DEFINE run == stream[c].run
           released == [stream EXCEPT ![c] = ReleasedStream(c)]
<1>1. /\ TypeOK /\ stream \in [Clients -> Stream] /\ buffer \in [Runs -> Buffer]
  BY DEF Base, TypeOK
<1>2. run \in Runs
  BY UnopenedIsIdle DEF Base, StreamTasks
<1>3. released \in [Clients -> Stream] /\ stream' = Notified(released, run)
  BY <1>1, ReleaseStep
<1>4. \A d \in Clients : SamePosition(stream'[d], released[d])
  BY <1>3, NotifiedKeepsPosition
<1>5. /\ released[c].run = run /\ ~released[c].leased
      /\ released[c].cursor = stream[c].cursor /\ released[c].batch = stream[c].batch
  BY <1>1 DEF ReleasedStream, Stream
<1>6. \A d \in Clients \ {c} : released[d] = stream[d]
  BY <1>1
<1>7. \A r \in Runs : buffer'[r].active =
        IF r = run /\ stream[c].leased THEN buffer[r].active - 1 ELSE buffer[r].active
  <2>1. CASE stream[c].leased
    BY <1>1, <1>2, <2>1 DEF CloseReleases, Buffer
  <2>2. CASE ~stream[c].leased
    BY <2>2 DEF CloseReleases
  <2> QED BY <2>1, <2>2
<1> HIDE DEF run, released
<1> QED BY <1>2, <1>4, <1>5, <1>6, <1>7 DEF SamePosition, run

Leases(r) == {c \in Clients : stream[c].run = r /\ stream[c].leased}

LEMMA LeasesFinite == \A r : IsFiniteSet(Leases(r)) /\ IsFiniteSet(Leases(r))'
<1>1. \A S \in SUBSET Clients : IsFiniteSet(S)
  BY ClientsFinite, FS_Subset
<1> QED BY <1>1 DEF Leases

LEMMA LeaseCountStep ==
  ASSUME Base, LeaseCountExact, StoreStep
  PROVE  LeaseCountExact'
<1>1. /\ TypeOK /\ stream \in [Clients -> Stream] /\ buffer \in [Runs -> Buffer]
  BY DEF Base, TypeOK
<1>2. LeaseCountExact' <=> \A r \in Runs : buffer'[r].active = Cardinality(Leases(r)')
  BY DEF LeaseCountExact, Leases
<1>3. \A r \in Runs : buffer[r].active = Cardinality(Leases(r))
  BY DEF LeaseCountExact, Leases
<1>4. ASSUME \A d \in Clients : SamePosition(stream'[d], stream[d]),
             \A r \in Runs : buffer'[r].active = buffer[r].active
      PROVE  LeaseCountExact'
  <2>1. \A r \in Runs : Leases(r)' = Leases(r)
    BY <1>4 DEF Leases, SamePosition
  <2> QED BY <1>2, <1>3, <1>4, <2>1
<1>5. ASSUME NEW r \in Runs, Writer(r) PROVE LeaseCountExact'
  <2>1. \A q \in Runs : buffer'[q].active = buffer[q].active
    <3>1. ASSUME NEW t \in Owners, create_run(r, t), NEW q \in Runs
          PROVE  buffer'[q].active = buffer[q].active
      BY <1>1, <3>1 DEF create_run, Buffer
    <3>2. ASSUME NEW t \in Tokens, NEW k \in Kinds, Append_(r, t, k), NEW q \in Runs
          PROVE  buffer'[q].active = buffer[q].active
      BY <1>1, <3>2 DEF Append_, Buffer
    <3>3. ASSUME NEW t \in Tokens, NEW u \in BOOLEAN, delete_run(r, t, u), NEW q \in Runs
          PROVE  buffer'[q].active = buffer[q].active
      BY <1>1, <3>3 DEF delete_run, Buffer
    <3> QED BY <1>5, <3>1, <3>2, <3>3 DEF Writer, emit, emit_terminal, Kinds
  <2> QED BY <1>1, <1>4, <1>5, <2>1, WriterKeepsPosition
<1>6. ASSUME NEW c \in Clients, NEW r \in Runs, NEW after \in Nat, Opens(c, r, after)
      PROVE  LeaseCountExact'
  <2>1. /\ stream' = [stream EXCEPT ![c] = OpenedStream(r, after)]
        /\ buffer' = [buffer EXCEPT ![r] = [buffer[r] EXCEPT !.active = @ + 1]]
        /\ ~stream[c].leased
    BY <1>6 DEF Opens
  <2>2. OpenedStream(r, after).run = r /\ OpenedStream(r, after).leased
    BY DEF OpenedStream
  <2>3. Leases(r)' = Leases(r) \cup {c} /\ c \notin Leases(r)
    BY <1>1, <2>1, <2>2 DEF Leases
  <2>4. \A q \in Runs : q # r => Leases(q)' = Leases(q)
    BY <1>1, <2>1, <2>2 DEF Leases
  <2>5. Cardinality(Leases(r)') = Cardinality(Leases(r)) + 1
    BY <2>3, LeasesFinite, FS_AddElement
  <2>6. buffer'[r].active = buffer[r].active + 1
    BY <1>1, <2>1 DEF Buffer
  <2>7. \A q \in Runs : q # r => buffer'[q].active = buffer[q].active
    BY <1>1, <2>1
  <2> QED BY <1>2, <1>3, <2>4, <2>5, <2>6, <2>7
<1>7. ASSUME NEW c \in Clients, Caller(c) \/ StreamTasks(c) PROVE LeaseCountExact'
  <2>1. CASE \/ Caller(c)
             \/ GeneratorWait(c) \/ GeneratorEnd(c) \/ ReadCancelled(c) \/ CloseJoins(c)
    BY <1>1, <1>4, <2>1, CallerKeepsPosition
  <2>2. CASE GeneratorYield(c)
    <3>1. stream[c].run \in Runs
      BY <1>7, UnopenedIsIdle DEF Base
    <3>2. stream' = [stream EXCEPT ![c] = YieldedStream(c)] /\ buffer' = buffer
      BY <1>1, <2>2, <3>1, YieldStep
    <3>3. /\ YieldedStream(c).run = stream[c].run
          /\ YieldedStream(c).leased = stream[c].leased
      BY <1>1 DEF YieldedStream, Stream
    <3>4. \A r \in Runs : Leases(r)' = Leases(r)
      BY <1>1, <3>2, <3>3 DEF Leases
    <3> QED BY <1>2, <1>3, <3>2, <3>4
  <2>3. CASE CloseReleases(c)
    <3> DEFINE run == stream[c].run
    <3>1. /\ run \in Runs /\ stream'[c].run = run /\ ~stream'[c].leased
          /\ \A d \in Clients \ {c} : SamePosition(stream'[d], stream[d])
          /\ \A r \in Runs : buffer'[r].active =
               IF r = run /\ stream[c].leased
               THEN buffer[r].active - 1 ELSE buffer[r].active
      BY <2>3, ReleaseEffect
    <3>2. \A r \in Runs : Leases(r)' = Leases(r) \ {c}
      BY <3>1 DEF Leases, SamePosition
    <3>3. \A r \in Runs : c \in Leases(r) <=> r = run /\ stream[c].leased
      BY DEF Leases
    <3>4. \A r \in Runs : Cardinality(Leases(r)') =
            IF c \in Leases(r) THEN Cardinality(Leases(r)) - 1 ELSE Cardinality(Leases(r))
      BY <3>2, LeasesFinite, FS_RemoveElement
    <3> HIDE DEF run
    <3> QED BY <1>2, <1>3, <3>1, <3>3, <3>4
  <2> QED BY <1>7, <2>1, <2>2, <2>3 DEF StreamTasks
<1>8. CASE UNCHANGED <<buffer, stream, lastId>>
  BY <1>8 DEF LeaseCountExact
<1> QED BY <1>5, <1>6, <1>7, <1>8 DEF StoreStep

LEMMA LeaseCountInit == Init => LeaseCountExact
<1> SUFFICES ASSUME Init PROVE LeaseCountExact
  OBVIOUS
<1>1. \A r \in Runs : Leases(r) = {} /\ buffer[r].active = 0
  BY DEF Init, Leases, NewBuffer, NoStream
<1> QED BY <1>1, FS_EmptySet DEF LeaseCountExact, Leases

\* active_streams is exact in every reachable state, for any number of clients
\* and any interleaving of their reads, cancellations and closes: a lease is
\* given back once.
THEOREM LeaseCountCorrect == Spec => []LeaseCountExact
<1>1. Base /\ LeaseCountExact /\ [Next]_vars => LeaseCountExact'
  BY LeaseCountStep, NextIsStoreStep DEF Base
<1> QED BY <1>1, LeaseCountInit, BaseInit, BaseNext, PTL DEF Spec

-----------------------------------------------------------------------------
(* Logs. *)

\* Two values of a buffer with the same log.
SameLog(a, b) ==
  /\ a.status = b.status /\ a.events = b.events
  /\ a.started = b.started /\ a.terminal = b.terminal

LEMMA ReadersKeepLogs ==
  ASSUME Base, NEW c \in Clients, NEW r \in Runs,
         \/ Caller(c) \/ StreamTasks(c)
         \/ \E q \in Runs, after \in Nat : Opens(c, q, after)
  PROVE  SameLog(buffer'[r], buffer[r])
<1>1. TypeOK /\ buffer \in [Runs -> Buffer]
  BY DEF Base, TypeOK
<1>2. CASE buffer' = buffer
  BY <1>2 DEF SameLog
<1>3. ASSUME NEW q \in Runs, NEW after \in Nat, Opens(c, q, after)
      PROVE  SameLog(buffer'[r], buffer[r])
  BY <1>1, <1>3 DEF Opens, SameLog, Buffer
<1>4. CASE CloseReleases(c)
  <2>1. stream[c].run \in Runs
    BY <1>4, UnopenedIsIdle DEF Base, StreamTasks
  <2> QED BY <1>1, <1>4, <2>1 DEF CloseReleases, SameLog, Buffer
<1>5. CASE GeneratorYield(c)
  BY <1>2, <1>5 DEF GeneratorYield
<1>6. CASE \/ Caller(c)
           \/ GeneratorWait(c) \/ GeneratorEnd(c) \/ ReadCancelled(c) \/ CloseJoins(c)
  BY <1>1, <1>2, <1>6, CallerKeepsPosition
<1> QED BY <1>3, <1>4, <1>5, <1>6 DEF StreamTasks

LEMMA AppendEffect ==
  ASSUME TypeOK, NEW r \in Runs, NEW t \in Tokens, NEW k \in Kinds, Append_(r, t, k)
  PROVE  LET old == buffer[r].events
             new == buffer'[r].events IN
         /\ old \in Seq(Event) /\ Len(new) = Len(old) + 1
         /\ \A i \in 1..Len(old) : new[i] = old[i]
         /\ new[Len(old) + 1].seq = Len(old) + 1 /\ new[Len(old) + 1].kind = k
         /\ buffer[r].status = "live" /\ ~buffer[r].terminal
         /\ buffer'[r].status = "live" /\ buffer'[r].terminal = (k = "run.terminal")
         /\ buffer'[r].started = (buffer[r].started \/ k = "run.started")
         /\ \A q \in Runs : q # r => buffer'[q] = buffer[q]
<1> DEFINE old == buffer[r].events
           e == [seq |-> Len(old) + 1, kind |-> k]
<1>1. buffer \in [Runs -> Buffer] /\ old \in Seq(Event)
  BY DEF TypeOK, Buffer
<1>2. e \in Event /\ e.seq = Len(old) + 1 /\ e.kind = k
  BY <1>1 DEF Event
<1>3. /\ Len(Append(old, e)) = Len(old) + 1
      /\ \A i \in 1..Len(old) : Append(old, e)[i] = old[i]
      /\ Append(old, e)[Len(old) + 1] = e
  BY <1>1, <1>2, AppendProperties
<1>4. /\ buffer'[r].events = Append(old, e)
      /\ buffer'[r].status = buffer[r].status
      /\ buffer'[r].terminal = (k = "run.terminal")
      /\ buffer'[r].started = (buffer[r].started \/ k = "run.started")
      /\ \A q \in Runs : q # r => buffer'[q] = buffer[q]
  BY <1>1 DEF Append_, Buffer
<1>5. buffer[r].status = "live" /\ ~buffer[r].terminal
  BY DEF Append_, Locked
<1> HIDE DEF e, old
<1>6. buffer'[r].events[Len(old) + 1] = e
  BY <1>3, <1>4
<1> QED BY <1>1, <1>2, <1>3, <1>4, <1>5, <1>6 DEF old

LEMMA LogStep ==
  ASSUME Base, LogWellFormed, StoreStep
  PROVE  LogWellFormed'
<1> DEFINE Good(b) ==
             /\ \A i \in 1..Len(b.events) : b.events[i].seq = i
             /\ \A i \in 1..Len(b.events) :
                  b.events[i].kind = "run.terminal" => i = Len(b.events)
             /\ b.status = "live" =>
                  (b.terminal <=>
                     \E i \in 1..Len(b.events) : b.events[i].kind = "run.terminal")
<1>1. TypeOK /\ buffer \in [Runs -> Buffer] /\ \A r \in Runs : Good(buffer[r])
  BY DEF Base, TypeOK, LogWellFormed
<1>2. LogWellFormed' <=> \A r \in Runs : Good(buffer'[r])
  BY DEF LogWellFormed
<1>3. ASSUME NEW a, NEW b, SameLog(a, b), Good(b) PROVE Good(a)
  BY <1>3 DEF SameLog
<1>4. ASSUME NEW r \in Runs, Writer(r), NEW q \in Runs PROVE Good(buffer'[q])
  <2>1. ASSUME NEW t \in Owners, create_run(r, t) PROVE Good(buffer'[q])
    <3>1. buffer[r] = NewBuffer
      BY <2>1 DEF create_run, Base, FreshBuffers
    <3>2. buffer'[r].events = <<>> /\ ~buffer'[r].terminal
      BY <1>1, <2>1, <3>1 DEF create_run, NewBuffer, Buffer
    <3>3. q # r => buffer'[q] = buffer[q]
      BY <1>1, <2>1 DEF create_run
    <3> QED BY <1>1, <3>2, <3>3
  <2>2. ASSUME NEW t \in Tokens, NEW k \in Kinds, Append_(r, t, k) PROVE Good(buffer'[q])
    <3> DEFINE old == buffer[r].events
               new == buffer'[r].events
    <3>1. /\ old \in Seq(Event) /\ Len(new) = Len(old) + 1
          /\ \A i \in 1..Len(old) : new[i] = old[i]
          /\ new[Len(old) + 1].seq = Len(old) + 1 /\ new[Len(old) + 1].kind = k
          /\ buffer[r].status = "live" /\ ~buffer[r].terminal
          /\ buffer'[r].terminal = (k = "run.terminal")
          /\ q # r => buffer'[q] = buffer[q]
      BY <1>1, <2>2, AppendEffect
    <3>2. \A i \in 1..Len(old) : old[i].seq = i /\ old[i].kind # "run.terminal"
      BY <1>1, <3>1
    <3>3. Len(old) \in Nat
      BY <3>1
    <3> HIDE DEF old, new
    <3>4. \A i \in 1..Len(new) : i \in 1..Len(old) \/ i = Len(old) + 1
      BY <3>1, <3>3
    <3>5. \A i \in 1..Len(new) : new[i].seq = i
      BY <3>1, <3>2, <3>4
    <3>6. \A i \in 1..Len(new) : new[i].kind = "run.terminal" => i = Len(new)
      BY <3>1, <3>2, <3>4
    <3>7. buffer'[r].terminal <=> \E i \in 1..Len(new) : new[i].kind = "run.terminal"
      <4>1. Len(old) + 1 \in 1..Len(new)
        BY <3>1, <3>3
      <4>2. \A i \in 1..Len(new) : new[i].kind = "run.terminal" => i = Len(old) + 1
        BY <3>1, <3>2, <3>4
      <4> QED BY <3>1, <4>1, <4>2
    <3>8. Good(buffer'[r])
      BY <3>5, <3>6, <3>7 DEF new
    <3> QED BY <1>1, <3>1, <3>8
  <2>3. ASSUME NEW t \in Tokens, NEW u \in BOOLEAN, delete_run(r, t, u)
        PROVE  Good(buffer'[q])
    <3>1. /\ buffer'[r].events = <<>> /\ buffer'[r].status = "deleted"
          /\ q # r => buffer'[q] = buffer[q]
      BY <1>1, <2>3 DEF delete_run, Buffer
    <3> QED BY <1>1, <3>1
  <2> QED BY <1>4, <2>1, <2>2, <2>3 DEF Writer, emit, emit_terminal, Kinds
<1>5. ASSUME NEW c \in Clients, NEW q \in Runs,
             Caller(c) \/ StreamTasks(c) \/ \E r \in Runs, after \in Nat : Opens(c, r, after)
      PROVE  Good(buffer'[q])
  <2>1. SameLog(buffer'[q], buffer[q])
    BY <1>5, ReadersKeepLogs
  <2> QED BY <1>1, <1>3, <2>1
<1>6. CASE UNCHANGED <<buffer, stream, lastId>>
  BY <1>6 DEF LogWellFormed
<1> HIDE DEF Good
<1> QED BY <1>2, <1>4, <1>5, <1>6 DEF StoreStep

\* The log of a run is numbered without gaps and sealed by its terminal event,
\* whoever appends to it and however long it grows.
THEOREM LogCorrect == Spec => []LogWellFormed
<1>1. Init => LogWellFormed
  BY DEF Init, LogWellFormed, NewBuffer
<1>2. Base /\ LogWellFormed /\ [Next]_vars => LogWellFormed'
  BY LogStep, NextIsStoreStep DEF Base
<1> QED BY <1>1, <1>2, BaseInit, BaseNext, PTL DEF Spec

-----------------------------------------------------------------------------
(* Positions: what a leased stream has read and what it holds of its log. *)

\* A batch continues where its stream stands.
BatchNumbered ==
  \A c \in Clients : \A i \in 1..Len(stream[c].batch) :
    stream[c].batch[i].seq = stream[c].cursor + i

\* The suffix of a sequence from position k.
LEMMA SuffixProperties ==
  ASSUME NEW S, NEW s \in Seq(S), NEW k \in Nat \ {0}
  PROVE  /\ Len(SubSeq(s, k, Len(s))) = IF k <= Len(s) THEN Len(s) - k + 1 ELSE 0
         /\ \A i \in 1..Len(SubSeq(s, k, Len(s))) :
              k + i - 1 \in 1..Len(s) /\ SubSeq(s, k, Len(s))[i] = s[k + i - 1]
<1> DEFINE suffix == SubSeq(s, k, Len(s))
<1>1. k \in Int /\ Len(s) \in Int /\ \A i \in k..Len(s) : s[i] \in S
  OBVIOUS
<1>2. Len(suffix) = IF k <= Len(s) THEN Len(s) - k + 1 ELSE 0
  BY <1>1, SubSeqProperties
<1>3. \A i \in 1 .. Len(s) - k + 1 : suffix[i] = s[k + i - 1]
  BY <1>1, SubSeqProperties
<1>4. ASSUME NEW i \in 1..Len(suffix)
      PROVE  i \in 1 .. Len(s) - k + 1 /\ k + i - 1 \in 1..Len(s)
  <2> HIDE DEF suffix
  <2> QED BY <1>1, <1>2
<1> QED BY <1>2, <1>3, <1>4

LEMMA PendingNumbered ==
  ASSUME Base, LogWellFormed, BatchNumbered, NEW c \in Clients, stream[c].run \in Runs
  PROVE  LET log == buffer[stream[c].run].events IN
         /\ \A i \in 1..Len(Pending(c)) : Pending(c)[i].seq = stream[c].cursor + i
         /\ stream[c].cursor + Len(stream[c].batch) <= Len(log) =>
              stream[c].cursor + Len(Pending(c)) <= Len(log)
<1> DEFINE log == buffer[stream[c].run].events
           k == stream[c].cursor + 1
<1>1. /\ log \in Seq(Event) /\ Len(log) \in Nat /\ stream[c].cursor \in Nat
      /\ stream[c].batch \in Seq(Event)
  BY DEF Base, TypeOK, Buffer, Stream
<1>2. CASE stream[c].batch # <<>>
  BY <1>2 DEF Pending, BatchNumbered
<1>3. CASE stream[c].batch = <<>>
  <2>1. /\ Pending(c) = SubSeq(log, k, Len(log))
        /\ \A i \in 1..Len(log) : log[i].seq = i
    BY <1>3 DEF Pending, LogWellFormed
  <2>2. /\ k \in Nat \ {0} /\ k = stream[c].cursor + 1 /\ Len(stream[c].batch) = 0
        /\ k \in Int /\ Len(log) \in Int
    BY <1>1, <1>3
  <2> HIDE DEF log, k
  <2>3. \A i \in 1..Len(Pending(c)) :
          k + i - 1 \in 1..Len(log) /\ Pending(c)[i] = log[k + i - 1]
    <3>1. log \in Seq(Event) /\ k \in Nat \ {0}
      BY <1>1, <2>2
    <3>2. \A i \in 1..Len(SubSeq(log, k, Len(log))) :
            k + i - 1 \in 1..Len(log) /\ SubSeq(log, k, Len(log))[i] = log[k + i - 1]
      BY ONLY <3>1, SuffixProperties
    <3> QED BY <2>1, <3>2, Zenon
  <2>4. Len(Pending(c)) = IF k <= Len(log) THEN Len(log) - k + 1 ELSE 0
    BY <1>1, <2>1, <2>2, SuffixProperties
  <2>5. ASSUME NEW i \in 1..Len(Pending(c)) PROVE Pending(c)[i].seq = stream[c].cursor + i
    <3>1. Pending(c)[i].seq = k + i - 1
      BY <2>1, <2>3
    <3>2. Len(Pending(c)) \in Nat
      BY <1>1, <2>2, <2>4
    <3> QED BY <1>1, <2>2, <3>1, <3>2
  <2>6. stream[c].cursor + Len(stream[c].batch) <= Len(log) =>
          stream[c].cursor + Len(Pending(c)) <= Len(log)
    BY <1>1, <2>1, <2>2, <2>4
  <2> QED BY <2>5, <2>6 DEF log
<1> QED BY <1>2, <1>3

\* An event that is yielded is the next one, and so is what stays in the batch.
LEMMA YieldEffect ==
  ASSUME Base, LogWellFormed, BatchNumbered, NEW c \in Clients, GeneratorYield(c)
  PROVE  /\ stream[c].run \in Runs
         /\ stream'[c].run = stream[c].run /\ stream'[c].leased = stream[c].leased
         /\ stream'[c].call = stream[c].call /\ stream'[c].close = stream[c].close
         /\ stream'[c].ended = stream[c].ended /\ stream'[c].read = "ok"
         /\ stream'[c].cursor = stream[c].cursor + 1
         /\ \A i \in 1..Len(stream'[c].batch) :
              stream'[c].batch[i].seq = stream'[c].cursor + i
         /\ stream'[c].cursor + Len(stream'[c].batch) = stream[c].cursor + Len(Pending(c))
         /\ \A d \in Clients \ {c} : stream'[d] = stream[d]
         /\ UNCHANGED <<buffer, lastId, connects>>
<1>1. TypeOK /\ stream \in [Clients -> Stream] /\ stream[c].cursor \in Nat
  BY DEF Base, TypeOK, Stream
<1>2. stream[c].run \in Runs
  BY UnopenedIsIdle DEF Base, StreamTasks
<1>3. /\ YieldedStream(c) \in Stream
      /\ stream' = [stream EXCEPT ![c] = YieldedStream(c)]
      /\ UNCHANGED <<buffer, lastId, connects>>
  BY <1>1, <1>2, YieldStep
<1>4. /\ stream'[c] = YieldedStream(c) /\ \A d \in Clients \ {c} : stream'[d] = stream[d]
  BY <1>1, <1>3
<1>5. /\ YieldedStream(c).cursor = Head(Pending(c)).seq
      /\ YieldedStream(c).batch = Tail(Pending(c))
      /\ YieldedStream(c).run = stream[c].run /\ YieldedStream(c).leased = stream[c].leased
      /\ YieldedStream(c).call = stream[c].call /\ YieldedStream(c).close = stream[c].close
      /\ YieldedStream(c).ended = stream[c].ended /\ YieldedStream(c).read = "ok"
  BY <1>1 DEF YieldedStream, Stream
<1>6. Pending(c) \in Seq(Event) /\ Pending(c) # <<>>
  BY <1>1, <1>2, PendingType DEF GeneratorYield
<1>7. /\ Len(Pending(c)) \in Nat \ {0} /\ Head(Pending(c)) = Pending(c)[1]
      /\ Len(Tail(Pending(c))) = Len(Pending(c)) - 1
      /\ \A i \in 1..Len(Tail(Pending(c))) : Tail(Pending(c))[i] = Pending(c)[i + 1]
  BY <1>6, HeadTailProperties
<1>8. \A i \in 1..Len(Pending(c)) : Pending(c)[i].seq = stream[c].cursor + i
  BY <1>2, PendingNumbered
<1>9. Head(Pending(c)).seq = stream[c].cursor + 1
  BY <1>7, <1>8
<1>10. \A i \in 1..Len(Tail(Pending(c))) :
         Tail(Pending(c))[i].seq = stream[c].cursor + 1 + i
  BY <1>1, <1>7, <1>8
<1>11. stream[c].cursor + 1 + Len(Tail(Pending(c))) = stream[c].cursor + Len(Pending(c))
  BY <1>1, <1>7
<1> QED BY <1>2, <1>3, <1>4, <1>5, <1>9, <1>10, <1>11

\* The invariant of a stream's position.
PositionOK == BatchNumbered /\ LeasedLogKept

LEMMA PositionStep ==
  ASSUME Base, LogWellFormed, LeaseCountExact, PositionOK, StoreStep
  PROVE  PositionOK'
<1> DEFINE Numbered(s) == \A i \in 1..Len(s.batch) : s.batch[i].seq = s.cursor + i
           Within(s, b) == b.status = "live" /\ s.cursor + Len(s.batch) <= Len(b.events)
<1>1. /\ TypeOK /\ stream \in [Clients -> Stream] /\ buffer \in [Runs -> Buffer]
      /\ \A d \in Clients : stream[d].leased => stream[d].run \in Runs
  BY DEF Base, TypeOK, RunKnown, NoStream
<1>2. \A d \in Clients :
        Numbered(stream[d]) /\ (stream[d].leased => Within(stream[d], buffer[stream[d].run]))
  BY DEF PositionOK, BatchNumbered, LeasedLogKept
<1>3. SUFFICES ASSUME NEW d \in Clients
      PROVE  /\ Numbered(stream'[d])
             /\ stream'[d].leased => Within(stream'[d], buffer'[stream'[d].run])
  BY DEF PositionOK, BatchNumbered, LeasedLogKept
<1>4. ASSUME SamePosition(stream'[d], stream[d]),
             stream[d].leased => SameLog(buffer'[stream[d].run], buffer[stream[d].run])
      PROVE  /\ Numbered(stream'[d])
             /\ stream'[d].leased => Within(stream'[d], buffer'[stream'[d].run])
  BY <1>2, <1>4 DEF SamePosition, SameLog
<1>5. ASSUME NEW r \in Runs, Writer(r)
      PROVE  /\ Numbered(stream'[d])
             /\ stream'[d].leased => Within(stream'[d], buffer'[stream'[d].run])
  <2>1. SamePosition(stream'[d], stream[d])
    BY <1>1, <1>5, WriterKeepsPosition
  <2>2. ASSUME stream[d].leased PROVE Within(stream[d], buffer'[stream[d].run])
    <3>1. stream[d].run \in Runs /\ Within(stream[d], buffer[stream[d].run])
      BY <1>1, <1>2, <2>2
    <3>2. ASSUME NEW t \in Owners, create_run(r, t)
          PROVE  Within(stream[d], buffer'[stream[d].run])
      BY <1>1, <3>1, <3>2 DEF create_run
    <3>3. ASSUME NEW t \in Tokens, NEW k \in Kinds, Append_(r, t, k)
          PROVE  Within(stream[d], buffer'[stream[d].run])
      <4>1. /\ Len(buffer'[r].events) = Len(buffer[r].events) + 1
            /\ buffer'[r].status = "live" /\ Len(buffer[r].events) \in Nat
            /\ \A q \in Runs : q # r => buffer'[q] = buffer[q]
        BY <1>1, <3>3, AppendEffect
      <4>2. stream[d].cursor + Len(stream[d].batch) \in Nat
        BY <1>1 DEF Stream
      <4> QED BY <3>1, <4>1, <4>2
    <3>4. ASSUME NEW t \in Tokens, NEW u \in BOOLEAN, delete_run(r, t, u)
          PROVE  Within(stream[d], buffer'[stream[d].run])
      <4>1. Cardinality(Leases(r)) = 0
        BY <3>4 DEF delete_run, LeaseCountExact, Leases
      <4>2. Leases(r) = {}
        BY <4>1, LeasesFinite, FS_EmptySet
      <4>3. stream[d].run # r
        BY <2>2, <4>2 DEF Leases
      <4>4. buffer'[stream[d].run] = buffer[stream[d].run]
        BY <1>1, <3>1, <3>4, <4>3 DEF delete_run
      <4> QED BY <3>1, <4>4
    <3> QED BY <1>5, <3>2, <3>3, <3>4 DEF Writer, emit, emit_terminal, Kinds
  <2> QED BY <1>2, <2>1, <2>2 DEF SamePosition
<1>6. ASSUME NEW c \in Clients, NEW r \in Runs, NEW after \in Nat, Opens(c, r, after)
      PROVE  /\ Numbered(stream'[d])
             /\ stream'[d].leased => Within(stream'[d], buffer'[stream'[d].run])
  <2>1. CASE d = c
    <3>1. stream'[c] = OpenedStream(r, after)
      BY <1>1, <1>6 DEF Opens
    <3>2. /\ OpenedStream(r, after).batch = <<>>
          /\ OpenedStream(r, after).cursor = after
          /\ OpenedStream(r, after).run = r
      BY DEF OpenedStream
    <3>3. SameLog(buffer'[r], buffer[r])
      BY <1>6, ReadersKeepLogs
    <3>4. after <= Len(buffer[r].events) /\ buffer[r].status = "live"
      BY <1>6 DEF Opens
    <3>5. after \in Nat
      OBVIOUS
    <3> QED BY <2>1, <3>1, <3>2, <3>3, <3>4, <3>5 DEF SameLog
  <2>2. CASE d # c
    <3>1. stream'[d] = stream[d]
      BY <1>1, <1>6, <2>2 DEF Opens
    <3>2. stream[d].leased => SameLog(buffer'[stream[d].run], buffer[stream[d].run])
      BY <1>1, <1>6, ReadersKeepLogs
    <3> QED BY <1>4, <3>1, <3>2 DEF SamePosition
  <2> QED BY <2>1, <2>2
<1>7. ASSUME NEW c \in Clients, Caller(c) \/ StreamTasks(c)
      PROVE  /\ Numbered(stream'[d])
             /\ stream'[d].leased => Within(stream'[d], buffer'[stream'[d].run])
  <2>1. stream[d].leased => SameLog(buffer'[stream[d].run], buffer[stream[d].run])
    BY <1>1, <1>7, ReadersKeepLogs
  <2>2. CASE \/ Caller(c)
             \/ GeneratorWait(c) \/ GeneratorEnd(c) \/ ReadCancelled(c) \/ CloseJoins(c)
    BY <1>1, <1>4, <2>1, <2>2, CallerKeepsPosition
  <2>3. CASE GeneratorYield(c)
    <3>1. /\ stream[c].run \in Runs
          /\ stream'[c].run = stream[c].run /\ stream'[c].leased = stream[c].leased
          /\ Numbered(stream'[c])
          /\ stream'[c].cursor + Len(stream'[c].batch) = stream[c].cursor + Len(Pending(c))
          /\ \A e \in Clients \ {c} : stream'[e] = stream[e]
          /\ buffer' = buffer
      BY <2>3, YieldEffect DEF PositionOK
    <3>2. stream[c].leased =>
            stream[c].cursor + Len(Pending(c)) <= Len(buffer[stream[c].run].events)
      BY <1>2, <3>1, PendingNumbered DEF PositionOK
    <3> QED BY <1>2, <3>1, <3>2
  <2>4. CASE CloseReleases(c)
    <3>1. /\ ~stream'[c].leased
          /\ stream'[c].cursor = stream[c].cursor /\ stream'[c].batch = stream[c].batch
          /\ \A e \in Clients \ {c} : SamePosition(stream'[e], stream[e])
      BY <2>4, ReleaseEffect
    <3>2. CASE d = c
      BY <1>2, <3>1, <3>2
    <3>3. CASE d # c
      BY <1>4, <2>1, <3>1, <3>3
    <3> QED BY <3>2, <3>3
  <2> QED BY <1>7, <2>2, <2>3, <2>4 DEF StreamTasks
<1>8. CASE UNCHANGED <<buffer, stream, lastId>>
  BY <1>2, <1>8
<1> HIDE DEF Numbered, Within
<1> QED BY <1>5, <1>6, <1>7, <1>8 DEF StoreStep

\* A leased stream never loses its log, nor any event of it that it has read or
\* fetched: deletion is refused as long as the count says so, and the count is
\* exact.
THEOREM LeasedLogSafe == Spec => []LeasedLogKept
<1>1. Init => PositionOK
  BY DEF Init, PositionOK, BatchNumbered, LeasedLogKept, NoStream
<1>2. Base /\ LogWellFormed /\ LeaseCountExact /\ PositionOK /\ [Next]_vars => PositionOK'
  BY PositionStep, NextIsStoreStep DEF Base
<1>3. PositionOK => LeasedLogKept
  BY DEF PositionOK
<1>4. Spec => []Base
  BY BaseInit, BaseNext, PTL DEF Spec
<1> QED BY <1>1, <1>2, <1>3, <1>4, LogCorrect, LeaseCountCorrect, PTL DEF Spec

\* Logs are complete, and kept while they are read, by an exact count.
THEOREM LogsHold == Spec => []LogsSound
<1>1. LeaseCountExact /\ LeasedLogKept /\ LogWellFormed => LogsSound
  BY DEF LogsSound
<1> QED BY <1>1, LeaseCountCorrect, LogCorrect, LeasedLogSafe, PTL

-----------------------------------------------------------------------------
(* Wake-ups. *)

\* A reader may sleep: its run goes on and it has read all there is.
MaySleep(c) ==
  /\ buffer[stream[c].run].status = "live"
  /\ ~buffer[stream[c].run].terminal
  /\ Pending(c) = <<>>

LEMMA SleepsOn ==
  ASSUME NEW d \in Clients, MaySleep(d), SamePosition(stream'[d], stream[d]),
         SameLog(buffer'[stream[d].run], buffer[stream[d].run])
  PROVE  MaySleep(d)'
BY DEF MaySleep, SamePosition, SameLog, Pending

LEMMA WakeupStep ==
  ASSUME Base, NoLostWakeup, StoreStep
  PROVE  NoLostWakeup'
<1>1. /\ TypeOK /\ stream \in [Clients -> Stream] /\ buffer \in [Runs -> Buffer]
      /\ \A d \in Clients : stream[d].gen = "wait" => stream[d].run \in Runs /\ MaySleep(d)
  BY DEF Base, TypeOK, RunKnown, NoStream, NoLostWakeup, MaySleep
<1>2. SUFFICES ASSUME NEW d \in Clients, stream'[d].gen = "wait" PROVE MaySleep(d)'
  BY DEF NoLostWakeup, MaySleep
<1>3. ASSUME stream'[d] = stream[d],
             stream[d].run \in Runs => SameLog(buffer'[stream[d].run], buffer[stream[d].run])
      PROVE  MaySleep(d)'
  BY <1>1, <1>2, <1>3, SleepsOn DEF SamePosition
<1>4. ASSUME NEW streams \in [Clients -> Stream], NEW r, stream' = Notified(streams, r)
      PROVE  stream'[d] = streams[d] /\ stream'[d].run # r
  <2>1. stream'[d] = streams[d]
    <3>1. stream'[d] \in {streams[d], [streams[d] EXCEPT !.gen = "ready"]}
      BY <1>4, NotifiedType
    <3>2. streams[d] \in Stream
      BY <1>4
    <3>3. [streams[d] EXCEPT !.gen = "ready"].gen = "ready"
      BY <3>2 DEF Stream
    <3> QED BY <1>2, <3>1, <3>3
  <2> QED BY <1>2, <1>4, <2>1, NotifiedType
<1>5. ASSUME NEW r \in Runs, Writer(r) PROVE MaySleep(d)'
  <2>1. ASSUME NEW t \in Owners, create_run(r, t) PROVE MaySleep(d)'
    <3>1. stream' = stream /\ stream[d].run # r
      BY <1>1, <1>2, <2>1 DEF create_run, MaySleep
    <3>2. stream[d].run \in Runs => buffer'[stream[d].run] = buffer[stream[d].run]
      BY <1>1, <2>1, <3>1 DEF create_run
    <3> QED BY <1>3, <3>1, <3>2 DEF SameLog
  <2>2. ASSUME stream' = Notified(stream, r),
               \A q \in Runs : q # r => buffer'[q] = buffer[q]
        PROVE  MaySleep(d)'
    <3>1. stream'[d] = stream[d] /\ stream[d].run # r
      BY <1>1, <1>4, <2>2
    <3> QED BY <1>3, <2>2, <3>1 DEF SameLog
  <2>3. ASSUME NEW t \in Tokens, NEW k \in Kinds, Append_(r, t, k) PROVE MaySleep(d)'
    BY <1>1, <2>2, <2>3 DEF Append_
  <2>4. ASSUME NEW t \in Tokens, NEW u \in BOOLEAN, delete_run(r, t, u) PROVE MaySleep(d)'
    BY <1>1, <2>2, <2>4 DEF delete_run
  <2> QED BY <1>5, <2>1, <2>3, <2>4 DEF Writer, emit, emit_terminal, Kinds
<1>6. ASSUME NEW c \in Clients, NEW r \in Runs, NEW after \in Nat, Opens(c, r, after)
      PROVE  MaySleep(d)'
  <2>1. /\ stream'[c].gen = "ready"
        /\ \A e \in Clients \ {c} : stream'[e] = stream[e]
    BY <1>1, <1>6 DEF Opens, OpenedStream
  <2>2. stream'[d] = stream[d]
    BY <1>2, <2>1
  <2> QED BY <1>3, <1>6, <2>2, ReadersKeepLogs
<1>7. ASSUME NEW c \in Clients, Caller(c) \/ StreamTasks(c) PROVE MaySleep(d)'
  <2>1. stream[d].run \in Runs => SameLog(buffer'[stream[d].run], buffer[stream[d].run])
    BY <1>7, ReadersKeepLogs
  <2>2. ASSUME stream'[d] = stream[d] PROVE MaySleep(d)'
    BY <1>3, <2>1, <2>2
  <2>3. CASE Caller(c)
    <3>1. PICK call \in Calls, read \in Reads, close \in Closes, ended \in BOOLEAN :
            stream' = [stream EXCEPT ![c] = CallerFields(stream[c], call, read, close, ended)]
      BY <1>1, <2>3, CallerStep
    <3>2. CallerFields(stream[c], call, read, close, ended).gen = stream[c].gen
      BY <1>1 DEF CallerFields, Stream
    <3>3. stream[d].gen = "wait"
      BY <1>1, <1>2, <3>1, <3>2
    <3>4. SamePosition(stream'[d], stream[d])
      BY <1>1, <2>3, CallerKeepsPosition
    <3> QED BY <1>1, <2>1, <3>3, <3>4, SleepsOn
  <2>4. CASE GeneratorYield(c)
    <3>1. stream' = [stream EXCEPT ![c] = YieldedStream(c)]
      BY <1>1, <1>7, <2>4, YieldStep, UnopenedIsIdle DEF Base
    <3>2. YieldedStream(c).gen # "wait"
      BY <1>1 DEF YieldedStream, Stream
    <3> QED BY <1>1, <1>2, <2>2, <3>1, <3>2
  <2>5. CASE GeneratorWait(c) \/ GeneratorEnd(c) \/ ReadCancelled(c) \/ CloseJoins(c)
    <3>1. PICK gen \in {"ready", "wait", "final", "ended"}, read \in Reads :
            /\ stream' = [stream EXCEPT ![c] = [stream[c] EXCEPT !.gen = gen, !.read = read]]
            /\ gen = "wait" => GeneratorWait(c) \/ stream[c].gen = "wait"
      BY <1>1, <2>5, QuietStep
    <3>2. CASE d # c
      BY <1>1, <2>2, <3>1, <3>2
    <3>3. CASE d = c
      <4>1. [stream[c] EXCEPT !.gen = gen, !.read = read].gen = gen
        BY <1>1 DEF Stream
      <4>2. GeneratorWait(c) \/ stream[c].gen = "wait"
        BY <1>1, <1>2, <3>1, <3>3, <4>1
      <4>3. stream[c].run \in Runs /\ buffer[stream[c].run].status # "absent"
        BY <1>7, UnopenedIsIdle DEF Base
      <4>4. MaySleep(c)
        <5>1. buffer[stream[c].run].status \in {"absent", "live", "deleted"}
          BY <1>1, <4>3 DEF Buffer
        <5> QED BY <1>1, <4>2, <4>3, <5>1 DEF GeneratorWait, MaySleep
      <4>5. SamePosition(stream'[d], stream[d])
        BY <1>1, <2>5, CallerKeepsPosition
      <4> QED BY <2>1, <3>3, <4>3, <4>4, <4>5, SleepsOn
    <3> QED BY <3>2, <3>3
  <2>6. CASE CloseReleases(c)
    <3> DEFINE released == [stream EXCEPT ![c] = ReleasedStream(c)]
    <3>1. released \in [Clients -> Stream] /\ stream' = Notified(released, stream[c].run)
      BY <1>1, <2>6, ReleaseStep
    <3>2. stream'[d] = released[d]
      BY <1>4, <3>1
    <3>3. released[c].gen = "ended" /\ \A e \in Clients \ {c} : released[e] = stream[e]
      BY <1>1 DEF ReleasedStream, Stream
    <3> HIDE DEF released
    <3> QED BY <1>2, <2>2, <3>2, <3>3
  <2> QED BY <1>7, <2>3, <2>4, <2>5, <2>6 DEF StreamTasks
<1>8. CASE UNCHANGED <<buffer, stream, lastId>>
  BY <1>3, <1>8 DEF SameLog
<1> QED BY <1>5, <1>6, <1>7, <1>8 DEF StoreStep

\* No reader sleeps while there is something to read, a terminal event or a
\* deletion to notice: every change of a buffer wakes its readers.
THEOREM WakeupCorrect == Spec => []NoLostWakeup
<1>1. Init => NoLostWakeup
  BY DEF Init, NoLostWakeup, NoStream
<1>2. Base /\ NoLostWakeup /\ [Next]_vars => NoLostWakeup'
  BY WakeupStep, NextIsStoreStep DEF Base
<1> QED BY <1>1, <1>2, BaseInit, BaseNext, PTL DEF Spec

-----------------------------------------------------------------------------
(* Delivery: the generator and the client, one event apart at most. *)

\* While a read is under way nothing has been taken from the generator yet, a
\* read that is done holds the next event, and between two reads nothing is in
\* flight.  The lease is held until the close is complete.
InStep(s, last) ==
  /\ s.close # "done" => s.leased
  /\ s.call = "out" => s.read = "none"
  /\ s.leased =>
    /\ s.cursor \in {last, last + 1}
    /\ s.read = "run" => s.cursor = last
    /\ s.read = "ok" => s.cursor = last + 1
    /\ s.call = "out" /\ s.close = "none" /\ ~s.ended => s.cursor = last

AllInStep == \A c \in Clients : InStep(stream[c], lastId[c])

\* Two values of a stream that differ in gen only.
SameButGen(s, t) ==
  /\ SamePosition(s, t)
  /\ s.read = t.read /\ s.call = t.call /\ s.close = t.close /\ s.ended = t.ended

LEMMA NotifiedKeepsStep ==
  ASSUME NEW streams \in [Clients -> Stream], NEW r, NEW d \in Clients
  PROVE  SameButGen(Notified(streams, r)[d], streams[d])
<1>1. Notified(streams, r)[d] \in {streams[d], [streams[d] EXCEPT !.gen = "ready"]}
  BY NotifiedType
<1>2. streams[d] \in Stream
  OBVIOUS
<1> QED BY <1>1, <1>2 DEF SameButGen, SamePosition, Stream

LEMMA CallerInStep ==
  ASSUME TypeOK, AllInStep, NEW c \in Clients, Caller(c)
  PROVE  InStep(stream'[c], lastId'[c])
<1> DEFINE s == stream[c]
<1>1. /\ stream \in [Clients -> Stream] /\ s \in Stream /\ lastId[c] \in Nat
      /\ lastId \in [Clients -> Nat] /\ s.cursor \in Nat
  BY DEF TypeOK, Stream
<1>2. InStep(s, lastId[c])
  BY DEF AllInStep
<1>3. CASE ReturnEvent(c)
  <2>1. CASE s.close = "none"
    <3>1. /\ stream'[c] = [s EXCEPT !.call = "out", !.read = "none"]
          /\ lastId'[c] = s.cursor
      BY <1>1, <1>3, <2>1 DEF ReturnEvent
    <3> QED BY <1>1, <1>2, <2>1, <3>1 DEF InStep, Stream
  <2>2. CASE s.close # "none"
    <3>1. /\ stream'[c] = [s EXCEPT !.call = "out", !.read = "none", !.ended = TRUE]
          /\ lastId' = lastId
      BY <1>1, <1>3, <2>2 DEF ReturnEvent
    <3> QED BY <1>1, <1>2, <3>1 DEF InStep, Stream
  <2> QED BY <2>1, <2>2
<1>4. CASE ReturnFailure(c)
  <2>1. /\ stream'[c] = [s EXCEPT !.call = "close", !.close = ClosingStream(s)]
        /\ lastId' = lastId
    BY <1>1, <1>4 DEF ReturnFailure
  <2>2. /\ stream'[c].leased = s.leased /\ stream'[c].cursor = s.cursor
        /\ stream'[c].read = s.read /\ stream'[c].call = "close"
        /\ stream'[c].close = ClosingStream(s)
    BY <1>1, <2>1 DEF Stream
  <2>3. ClosingStream(s) = "done" <=> s.close = "done"
    BY DEF ClosingStream
  <2> QED BY <1>2, <2>1, <2>2, <2>3 DEF InStep
<1>5. CASE ReturnClosed(c)
  <2>1. /\ stream'[c] = [s EXCEPT !.call = "out", !.read = "none", !.ended = TRUE]
        /\ lastId' = lastId
    BY <1>1, <1>5 DEF ReturnClosed
  <2> QED BY <1>1, <1>2, <2>1 DEF InStep, Stream
<1>6. CASE anext(c)
  <2>1. /\ stream'[c] = [s EXCEPT !.call = "read", !.read = "run"]
        /\ lastId' = lastId /\ s.call = "out" /\ s.close = "none" /\ ~s.ended
    BY <1>1, <1>6 DEF anext
  <2> QED BY <1>1, <1>2, <2>1 DEF InStep, Stream
<1>7. CASE CancelCaller(c)
  <2>1. /\ \/ stream'[c] = [s EXCEPT !.call = "gather", !.read = CancelledRead(@)]
           \/ stream'[c] = [s EXCEPT !.call = "abandon"]
           \/ stream'[c] = [s EXCEPT !.call = "out", !.read = "none", !.ended = TRUE]
           \/ stream'[c] = [s EXCEPT !.ended = TRUE]
        /\ lastId' = lastId
    BY <1>1, <1>7 DEF CancelCaller
  <2>2. CancelledRead(s.read) # "run"
    BY DEF CancelledRead
  <2>3. CASE stream'[c] = [s EXCEPT !.call = "gather", !.read = CancelledRead(@)]
    <3>1. /\ stream'[c].leased = s.leased /\ stream'[c].cursor = s.cursor
          /\ stream'[c].read = CancelledRead(s.read) /\ stream'[c].call = "gather"
          /\ stream'[c].close = s.close
      BY <1>1, <2>3 DEF Stream
    <3>2. CancelledRead(s.read) \in {s.read, "cancelling"}
      BY DEF CancelledRead
    <3> QED BY <1>2, <2>1, <2>2, <3>1, <3>2 DEF InStep
  <2>4. CASE stream'[c] = [s EXCEPT !.call = "abandon"]
    BY <1>1, <1>2, <2>1, <2>4 DEF InStep, Stream
  <2>5. CASE stream'[c] = [s EXCEPT !.call = "out", !.read = "none", !.ended = TRUE]
    BY <1>1, <1>2, <2>1, <2>5 DEF InStep, Stream
  <2>6. CASE stream'[c] = [s EXCEPT !.ended = TRUE]
    BY <1>1, <1>2, <2>1, <2>6 DEF InStep, Stream
  <2> QED BY <2>1, <2>3, <2>4, <2>5, <2>6
<1>8. CASE aclose(c)
  <2>1. /\ stream'[c] = [s EXCEPT !.close = ClosingStream(s)]
        /\ lastId' = lastId /\ ClosingStream(s) = "join"
    BY <1>1, <1>8 DEF aclose, ClosingStream
  <2>2. /\ stream'[c].leased = s.leased /\ stream'[c].cursor = s.cursor
        /\ stream'[c].read = s.read /\ stream'[c].call = s.call
        /\ stream'[c].close = "join" /\ s.close = "none"
    BY <1>1, <1>8, <2>1 DEF Stream, aclose
  <2> QED BY <1>2, <2>1, <2>2 DEF InStep
<1> QED BY <1>3, <1>4, <1>5, <1>6, <1>7, <1>8 DEF Caller

LEMMA InStepStep ==
  ASSUME Base, LogWellFormed, BatchNumbered, AllInStep, StoreStep
  PROVE  AllInStep'
<1>1. /\ TypeOK /\ stream \in [Clients -> Stream] /\ lastId \in [Clients -> Nat]
  BY DEF Base, TypeOK
<1>2. SUFFICES ASSUME NEW d \in Clients PROVE InStep(stream'[d], lastId'[d])
  BY DEF AllInStep
<1>3. InStep(stream[d], lastId[d])
  BY DEF AllInStep
<1>4. ASSUME SameButGen(stream'[d], stream[d]), lastId'[d] = lastId[d]
      PROVE  InStep(stream'[d], lastId'[d])
  BY <1>3, <1>4 DEF InStep, SameButGen, SamePosition
<1>5. ASSUME stream'[d] = stream[d], lastId'[d] = lastId[d]
      PROVE  InStep(stream'[d], lastId'[d])
  BY <1>3, <1>5
<1>6. ASSUME NEW r \in Runs, Writer(r) PROVE InStep(stream'[d], lastId'[d])
  <2>1. /\ stream' = stream \/ stream' = Notified(stream, r)
        /\ lastId' = lastId
    BY <1>6 DEF Writer, create_run, emit, emit_terminal, Append_, delete_run
  <2> QED BY <1>1, <1>4, <1>5, <2>1, NotifiedKeepsStep
<1>7. ASSUME NEW c \in Clients, NEW r \in Runs, NEW after \in Nat, Opens(c, r, after)
      PROVE  InStep(stream'[d], lastId'[d])
  <2>1. CASE d = c
    <3>1. /\ stream'[c] = OpenedStream(r, after) /\ lastId'[c] = after
      BY <1>1, <1>7 DEF Opens
    <3> QED BY <2>1, <3>1 DEF InStep, OpenedStream
  <2>2. CASE d # c
    BY <1>1, <1>5, <1>7, <2>2 DEF Opens
  <2> QED BY <2>1, <2>2
<1>8. ASSUME NEW c \in Clients, Caller(c) PROVE InStep(stream'[d], lastId'[d])
  <2>1. CASE d = c
    BY <1>1, <1>8, <2>1, CallerInStep
  <2>2. CASE d # c
    BY <1>1, <1>5, <1>8, <2>2, CallerStep
  <2> QED BY <2>1, <2>2
<1>9. ASSUME NEW c \in Clients, StreamTasks(c) PROVE InStep(stream'[d], lastId'[d])
  <2>1. CASE GeneratorYield(c)
    <3>1. /\ stream'[c].leased = stream[c].leased /\ stream'[c].cursor = stream[c].cursor + 1
          /\ stream'[c].call = stream[c].call /\ stream'[c].close = stream[c].close
          /\ stream'[c].ended = stream[c].ended /\ stream'[c].read = "ok"
          /\ \A e \in Clients \ {c} : stream'[e] = stream[e]
          /\ lastId' = lastId
      BY <2>1, YieldEffect
    <3>2. stream[c].read = "run"
      BY <2>1 DEF GeneratorYield
    <3> QED BY <1>3, <1>5, <3>1, <3>2 DEF InStep
  <2>2. CASE GeneratorWait(c) \/ GeneratorEnd(c) \/ ReadCancelled(c) \/ CloseJoins(c)
    <3>1. lastId' = lastId /\ \A e \in Clients \ {c} : stream'[e] = stream[e]
      BY <1>1, <2>2 DEF GeneratorWait, GeneratorEnd, ReadCancelled, CloseJoins
    <3>2. CASE d # c
      BY <1>5, <3>1, <3>2
    <3>3. CASE d = c /\ GeneratorWait(c)
      <4>1. stream'[c] = [stream[c] EXCEPT !.gen = "wait"]
        BY <1>1, <3>3 DEF GeneratorWait
      <4> QED BY <1>1, <1>3, <3>1, <3>3, <4>1 DEF InStep, Stream
    <3>4. CASE d = c /\ GeneratorEnd(c)
      <4>1. /\ stream'[c] = [stream[c] EXCEPT !.gen = "ended", !.read = "stop"]
            /\ stream[c].read = "run"
        BY <1>1, <3>4 DEF GeneratorEnd
      <4> QED BY <1>1, <1>3, <3>1, <3>4, <4>1 DEF InStep, Stream
    <3>5. CASE d = c /\ ReadCancelled(c)
      <4>1. /\ stream'[c].cursor = stream[c].cursor /\ stream'[c].leased = stream[c].leased
            /\ stream'[c].call = stream[c].call /\ stream'[c].close = stream[c].close
            /\ stream'[c].ended = stream[c].ended /\ stream'[c].read = "failed"
            /\ stream[c].read = "cancelling"
        BY <1>1, <3>5 DEF ReadCancelled, Stream
      <4> QED BY <1>3, <3>1, <3>5, <4>1 DEF InStep
    <3>6. CASE d = c /\ CloseJoins(c)
      <4>1. /\ stream'[c] = [stream[c] EXCEPT !.read = "cancelling"]
            /\ stream[c].close = "join" /\ stream[c].read = "run"
        BY <1>1, <3>6 DEF CloseJoins, CancelledRead
      <4>2. /\ stream'[c].cursor = stream[c].cursor /\ stream'[c].leased = stream[c].leased
            /\ stream'[c].call = stream[c].call /\ stream'[c].close = stream[c].close
            /\ stream'[c].ended = stream[c].ended /\ stream'[c].read = "cancelling"
        BY <1>1, <4>1 DEF Stream
      <4> QED BY <1>3, <3>1, <3>6, <4>1, <4>2 DEF InStep
    <3> QED BY <2>2, <3>2, <3>3, <3>4, <3>5, <3>6
  <2>3. CASE CloseReleases(c)
    <3> DEFINE released == [stream EXCEPT ![c] = ReleasedStream(c)]
    <3>1. /\ released \in [Clients -> Stream] /\ stream' = Notified(released, stream[c].run)
          /\ lastId' = lastId
      BY <1>1, <2>3, ReleaseStep
    <3>2. SameButGen(stream'[d], released[d])
      BY <3>1, NotifiedKeepsStep
    <3>3. /\ ~released[c].leased /\ released[c].close = "done"
          /\ released[c].call = stream[c].call /\ released[c].read = stream[c].read
          /\ \A e \in Clients \ {c} : released[e] = stream[e]
      BY <1>1 DEF ReleasedStream, Stream
    <3> HIDE DEF released
    <3>4. CASE d = c
      BY <1>3, <3>2, <3>3, <3>4 DEF InStep, SameButGen, SamePosition
    <3>5. CASE d # c
      BY <1>4, <3>1, <3>2, <3>3, <3>5
    <3> QED BY <3>4, <3>5
  <2> QED BY <1>9, <2>1, <2>2, <2>3 DEF StreamTasks
<1>10. CASE UNCHANGED <<buffer, stream, lastId>>
  BY <1>5, <1>10
<1> QED BY <1>6, <1>7, <1>8, <1>9, <1>10 DEF StoreStep

\* The invariant every theorem of this section and the next rests on.
StoreInv == Base /\ LogWellFormed /\ LeaseCountExact /\ PositionOK /\ AllInStep

LEMMA StoreInit == Init => StoreInv
<1>1. Init => AllInStep
  BY DEF Init, AllInStep, InStep, NoStream
<1>2. Init => PositionOK
  BY DEF Init, PositionOK, BatchNumbered, LeasedLogKept, NoStream
<1>3. Init => LogWellFormed
  BY DEF Init, LogWellFormed, NewBuffer
<1> QED BY <1>1, <1>2, <1>3, BaseInit, LeaseCountInit DEF StoreInv

LEMMA StoreInvStep ==
  ASSUME StoreInv, StoreStep
  PROVE  StoreInv'
<1>1. Base' /\ LogWellFormed' /\ LeaseCountExact' /\ PositionOK'
  BY BaseStep, LogStep, LeaseCountStep, PositionStep DEF StoreInv
<1>2. AllInStep'
  BY InStepStep DEF StoreInv, PositionOK
<1> QED BY <1>1, <1>2 DEF StoreInv

LEMMA StoreInvariant == Spec => []StoreInv
<1>1. StoreInv /\ [Next]_vars => StoreInv'
  BY StoreInvStep, NextIsStoreStep DEF StoreInv, Base
<1> QED BY <1>1, StoreInit, PTL DEF Spec

\* A stream delivers every event once and in order: what the generator yields
\* is the successor of what the client received, and while the stream can still
\* be read nothing yielded is lost.
THEOREM DeliveryCorrect == Spec => []NothingSkipped
<1>1. StoreInv => NothingSkipped
  BY DEF StoreInv, AllInStep, InStep, NothingSkipped
<1> QED BY <1>1, StoreInvariant, PTL

-----------------------------------------------------------------------------
(* The store implements ReplayLog.  Its variables are read through a mapping; *)
(* these lemmas say what a step does to each mapped variable.                 *)

Reading(s) == IF s.leased THEN {s.run} ELSE {}

\* A step that touches the buffer of one run touches one run of the promise.
LEMMA OneBuffer ==
  ASSUME NEW q \in Runs, \A r \in Runs \ {q} : SameLog(buffer'[r], buffer[r])
  PROVE  /\ [r \in Runs |-> buffer'[r].status]
              = [[r \in Runs |-> buffer[r].status] EXCEPT ![q] = buffer'[q].status]
         /\ [r \in Runs |-> Len(buffer'[r].events)]
              = [[r \in Runs |-> Len(buffer[r].events)] EXCEPT ![q] = Len(buffer'[q].events)]
         /\ [r \in Runs |-> buffer'[r].started]
              = [[r \in Runs |-> buffer[r].started] EXCEPT ![q] = buffer'[q].started]
         /\ [r \in Runs |-> buffer'[r].terminal]
              = [[r \in Runs |-> buffer[r].terminal] EXCEPT ![q] = buffer'[q].terminal]
         /\ buffer'[q].status = buffer[q].status =>
              [r \in Runs |-> buffer'[r].status] = [r \in Runs |-> buffer[r].status]
         /\ buffer'[q].events = buffer[q].events =>
              [r \in Runs |-> Len(buffer'[r].events)] = [r \in Runs |-> Len(buffer[r].events)]
         /\ buffer'[q].started = buffer[q].started =>
              [r \in Runs |-> buffer'[r].started] = [r \in Runs |-> buffer[r].started]
         /\ buffer'[q].terminal = buffer[q].terminal =>
              [r \in Runs |-> buffer'[r].terminal] = [r \in Runs |-> buffer[r].terminal]
BY DEF SameLog

\* A step that keeps the logs keeps the promise's view of them.
LEMMA NoBuffer ==
  ASSUME \A r \in Runs : SameLog(buffer'[r], buffer[r])
  PROVE  /\ [r \in Runs |-> buffer'[r].status] = [r \in Runs |-> buffer[r].status]
         /\ [r \in Runs |-> Len(buffer'[r].events)] = [r \in Runs |-> Len(buffer[r].events)]
         /\ [r \in Runs |-> buffer'[r].started] = [r \in Runs |-> buffer[r].started]
         /\ [r \in Runs |-> buffer'[r].terminal] = [r \in Runs |-> buffer[r].terminal]
BY DEF SameLog

\* And so for the clients.
LEMMA OneReader ==
  ASSUME NEW c \in Clients, \A d \in Clients \ {c} : SamePosition(stream'[d], stream[d])
  PROVE  /\ [d \in Clients |-> IF stream'[d].leased THEN {stream'[d].run} ELSE {}]
              = [[d \in Clients |-> IF stream[d].leased THEN {stream[d].run} ELSE {}]
                   EXCEPT ![c] = Reading(stream'[c])]
         /\ SamePosition(stream'[c], stream[c]) =>
              [d \in Clients |-> IF stream'[d].leased THEN {stream'[d].run} ELSE {}]
              = [d \in Clients |-> IF stream[d].leased THEN {stream[d].run} ELSE {}]
BY DEF SamePosition, Reading

\* An appended event is published.
LEMMA AppendPublishes ==
  ASSUME TypeOK, NEW r \in Runs, NEW t \in Tokens, NEW k \in Kinds, Append_(r, t, k)
  PROVE  Promise!Publish(r)
<1>1. /\ Len(buffer'[r].events) = Len(buffer[r].events) + 1
      /\ buffer[r].status = "live" /\ ~buffer[r].terminal
      /\ buffer'[r].status = "live" /\ buffer'[r].terminal = (k = "run.terminal")
      /\ buffer'[r].started = (buffer[r].started \/ k = "run.started")
      /\ \A q \in Runs \ {r} : buffer'[q] = buffer[q]
  BY AppendEffect
<1>2. \A q \in Runs \ {r} : SameLog(buffer'[q], buffer[q])
  BY <1>1 DEF SameLog
<1>3. lastId' = lastId /\ \A d \in Clients : SamePosition(stream'[d], stream[d])
  <2>1. stream' = Notified(stream, r) /\ stream \in [Clients -> Stream]
    BY DEF Append_, TypeOK
  <2> QED BY <2>1, NotifiedKeepsPosition DEF Append_
<1>4. [d \in Clients |-> IF stream'[d].leased THEN {stream'[d].run} ELSE {}]
        = [d \in Clients |-> IF stream[d].leased THEN {stream[d].run} ELSE {}]
  BY <1>3 DEF SamePosition
<1>5. \E first, last \in BOOLEAN :
        /\ ~(first /\ last)
        /\ buffer'[r].started = (buffer[r].started \/ first) /\ buffer'[r].terminal = last
  <2> WITNESS (k = "run.started") \in BOOLEAN, (k = "run.terminal") \in BOOLEAN
  <2> QED BY <1>1
<1> QED BY <1>1, <1>2, <1>3, <1>4, <1>5, OneBuffer DEF Promise!Publish

\* So are creation and deletion: nobody reads a log that is dropped, for the
\* count of its readers is exact.
LEMMA CreationCreates ==
  ASSUME TypeOK, NEW r \in Runs, NEW t \in Owners, create_run(r, t)
  PROVE  Promise!Create(r)
<1>1. /\ buffer[r].status = "absent" /\ buffer'[r].status = "live"
      /\ buffer'[r].events = buffer[r].events /\ buffer'[r].started = buffer[r].started
      /\ buffer'[r].terminal = buffer[r].terminal
      /\ \A q \in Runs \ {r} : buffer'[q] = buffer[q]
  BY DEF create_run, TypeOK, Buffer
<1>2. \A q \in Runs \ {r} : SameLog(buffer'[q], buffer[q])
  BY <1>1 DEF SameLog
<1>3. stream' = stream /\ lastId' = lastId
  BY DEF create_run
<1> QED BY <1>1, <1>2, <1>3, OneBuffer DEF Promise!Create

LEMMA NoReaderLeft ==
  ASSUME LeaseCountExact, NEW r \in Runs, buffer[r].active = 0
  PROVE  \A c \in Clients : r \notin Reading(stream[c])
<1>1. Cardinality(Leases(r)) = 0
  BY DEF LeaseCountExact, Leases
<1>2. Leases(r) = {}
  BY <1>1, LeasesFinite, FS_EmptySet
<1> QED BY <1>2 DEF Leases, Reading

LEMMA DeletionDrops ==
  ASSUME TypeOK, LeaseCountExact, NEW r \in Runs, NEW t \in Tokens, NEW u \in BOOLEAN,
         delete_run(r, t, u)
  PROVE  Promise!Drop(r)
<1>1. /\ buffer[r].status = "live" /\ buffer'[r].status = "deleted"
      /\ buffer'[r].events = <<>> /\ buffer'[r].started = buffer[r].started
      /\ buffer'[r].terminal = buffer[r].terminal
      /\ \A q \in Runs \ {r} : buffer'[q] = buffer[q]
  BY DEF delete_run, Locked, TypeOK, Buffer
<1>2. \A q \in Runs \ {r} : SameLog(buffer'[q], buffer[q])
  BY <1>1 DEF SameLog
<1>3. buffer[r].active = 0 /\ (buffer[r].terminal \/ ~buffer[r].started)
  BY DEF delete_run
<1>4. lastId' = lastId /\ \A d \in Clients : SamePosition(stream'[d], stream[d])
  <2>1. stream' = Notified(stream, r) /\ stream \in [Clients -> Stream]
    BY DEF delete_run, TypeOK
  <2> QED BY <2>1, NotifiedKeepsPosition DEF delete_run
<1>5. [d \in Clients |-> IF stream'[d].leased THEN {stream'[d].run} ELSE {}]
        = [d \in Clients |-> IF stream[d].leased THEN {stream[d].run} ELSE {}]
  BY <1>4 DEF SamePosition
<1>6. \A c \in Clients :
        r \notin [d \in Clients |-> IF stream[d].leased THEN {stream[d].run} ELSE {}][c]
  BY <1>3, NoReaderLeft DEF Reading
<1>7. Len(buffer'[r].events) = 0
  BY <1>1
<1> QED BY <1>1, <1>2, <1>3, <1>4, <1>5, <1>6, <1>7, OneBuffer DEF Promise!Drop

\* Opening a stream attaches its client, releasing it detaches it.
LEMMA OpeningAttaches ==
  ASSUME Base, NEW c \in Clients, NEW r \in Runs, open_stream(c, r)
  PROVE  Promise!Attach(c, r)
<1>1. /\ TypeOK /\ stream \in [Clients -> Stream] /\ lastId \in [Clients -> Nat]
      /\ stream' = [stream EXCEPT ![c] = OpenedStream(r, Resume(c, r))]
      /\ lastId' = [lastId EXCEPT ![c] = Resume(c, r)]
      /\ ~stream[c].leased /\ buffer[r].status = "live"
      /\ Resume(c, r) <= Len(buffer[r].events)
  BY DEF open_stream, Locked, Base, TypeOK
<1>2. \A q \in Runs : SameLog(buffer'[q], buffer[q])
  BY <1>1, OpenOpens, ReadersKeepLogs
<1>3. /\ \A d \in Clients \ {c} : SamePosition(stream'[d], stream[d])
      /\ Reading(stream'[c]) = {r}
  BY <1>1 DEF SamePosition, Reading, OpenedStream
<1>4. /\ lastId' \in {lastId, [lastId EXCEPT ![c] = 0]}
      /\ lastId'[c] <= Len(buffer[r].events)
  BY <1>1 DEF Resume
<1>5. [d \in Clients |-> IF stream'[d].leased THEN {stream'[d].run} ELSE {}]
        = [[d \in Clients |-> IF stream[d].leased THEN {stream[d].run} ELSE {}]
             EXCEPT ![c] = {r}]
  BY <1>3, OneReader
<1> QED BY <1>1, <1>2, <1>4, <1>5, NoBuffer DEF Promise!Attach

LEMMA ReleaseDetaches ==
  ASSUME Base, NEW c \in Clients, CloseReleases(c)
  PROVE  Promise!Detach(c)
<1>1. /\ ~stream'[c].leased
      /\ \A d \in Clients \ {c} : SamePosition(stream'[d], stream[d])
  BY ReleaseEffect
<1>2. \A q \in Runs : SameLog(buffer'[q], buffer[q])
  BY ReadersKeepLogs DEF StreamTasks
<1>3. lastId' = lastId
  BY DEF CloseReleases
<1>4. [d \in Clients |-> IF stream'[d].leased THEN {stream'[d].run} ELSE {}]
        = [[d \in Clients |-> IF stream[d].leased THEN {stream[d].run} ELSE {}]
             EXCEPT ![c] = {}]
  BY <1>1, OneReader DEF Reading
<1> QED BY <1>2, <1>3, <1>4, NoBuffer DEF Promise!Detach

\* The event that __anext__ returns is the next one of a log that is there.
LEMMA ReturnDelivers ==
  ASSUME StoreInv, NEW c \in Clients, ReturnEvent(c), lastId' # lastId
  PROVE  Promise!Deliver(c)
<1>1. /\ TypeOK /\ stream \in [Clients -> Stream] /\ lastId \in [Clients -> Nat]
      /\ stream[c].cursor \in Nat
  BY DEF StoreInv, Base, TypeOK, Stream
<1>2. /\ stream[c].close = "none" /\ stream[c].read = "ok"
      /\ lastId' = [lastId EXCEPT ![c] = stream[c].cursor]
  BY DEF ReturnEvent
<1>3. stream[c].leased /\ stream[c].cursor = lastId[c] + 1
  BY <1>2 DEF StoreInv, AllInStep, InStep
<1>4. /\ stream[c].run \in Runs /\ buffer[stream[c].run].status = "live"
      /\ lastId[c] < Len(buffer[stream[c].run].events)
  <2>1. stream[c].run \in Runs
    BY UnopenedIsIdle DEF StoreInv, Base, Caller
  <2>2. /\ buffer[stream[c].run].status = "live"
        /\ stream[c].cursor + Len(stream[c].batch) <= Len(buffer[stream[c].run].events)
    BY <1>3 DEF StoreInv, PositionOK, LeasedLogKept
  <2>3. /\ Len(stream[c].batch) \in Nat /\ Len(buffer[stream[c].run].events) \in Nat
        /\ lastId[c] \in Nat
    BY <1>1, <2>1 DEF TypeOK, Stream, Buffer
  <2> QED BY <1>3, <2>1, <2>2, <2>3
<1>5. buffer' = buffer /\ \A d \in Clients : SamePosition(stream'[d], stream[d])
  BY <1>1, CallerKeepsPosition DEF Caller
<1>6. lastId' = [lastId EXCEPT ![c] = @ + 1]
  BY <1>2, <1>3
<1>7. [d \in Clients |-> IF stream'[d].leased THEN {stream'[d].run} ELSE {}]
        = [d \in Clients |-> IF stream[d].leased THEN {stream[d].run} ELSE {}]
  BY <1>5 DEF SamePosition
<1>8. stream[c].run \in [d \in Clients |->
                          IF stream[d].leased THEN {stream[d].run} ELSE {}][c]
  BY <1>3
<1> QED BY <1>4, <1>5, <1>6, <1>7, <1>8 DEF Promise!Deliver

\* Every other step is invisible.
LEMMA Invisible ==
  ASSUME \A r \in Runs : SameLog(buffer'[r], buffer[r]),
         \A d \in Clients : SamePosition(stream'[d], stream[d])
                               \/ (stream'[d].run = stream[d].run
                                    /\ stream'[d].leased = stream[d].leased),
         lastId' = lastId
  PROVE  UNCHANGED Promise!vars
<1>1. [d \in Clients |-> IF stream'[d].leased THEN {stream'[d].run} ELSE {}]
        = [d \in Clients |-> IF stream[d].leased THEN {stream[d].run} ELSE {}]
  BY DEF SamePosition
<1> QED BY <1>1, NoBuffer DEF Promise!vars

\* Each step of the store is a step of the promise or is invisible to it.
LEMMA PromiseStep ==
  ASSUME StoreInv, [Next]_vars
  PROVE  [Promise!Next]_(Promise!vars)
<1>1. Base /\ TypeOK /\ LeaseCountExact /\ LogWellFormed /\ BatchNumbered
  BY DEF StoreInv, Base, PositionOK
<1>2. ASSUME NEW r \in Runs, Writer(r) PROVE Promise!Next
  <2>1. ASSUME NEW t \in Owners, create_run(r, t) PROVE Promise!Create(r)
    BY <1>1, <2>1, CreationCreates
  <2>2. ASSUME NEW t \in Tokens, NEW k \in Kinds, Append_(r, t, k) PROVE Promise!Publish(r)
    BY <1>1, <2>2, AppendPublishes
  <2>3. ASSUME NEW t \in Tokens, NEW u \in BOOLEAN, delete_run(r, t, u)
        PROVE  Promise!Drop(r)
    BY <1>1, <2>3, DeletionDrops
  <2>4. Promise!Create(r) \/ Promise!Publish(r) \/ Promise!Drop(r)
    BY <1>2, <2>1, <2>2, <2>3 DEF Writer, emit, emit_terminal, Kinds
  <2> QED BY <2>4 DEF Promise!Next
<1>3. ASSUME NEW c \in Clients, NEW r \in Runs, open_stream(c, r) PROVE Promise!Next
  BY <1>1, <1>3, OpeningAttaches DEF Promise!Next
<1>4. ASSUME NEW c \in Clients, Caller(c) PROVE [Promise!Next]_(Promise!vars)
  <2>1. CASE lastId' # lastId
    <3>1. ReturnEvent(c)
      BY <1>4, <2>1 DEF Caller, ReturnFailure, ReturnClosed, anext, CancelCaller, aclose
    <3> QED BY <2>1, <3>1, ReturnDelivers DEF Promise!Next
  <2>2. CASE lastId' = lastId
    <3>1. /\ \A r \in Runs : SameLog(buffer'[r], buffer[r])
          /\ \A d \in Clients : SamePosition(stream'[d], stream[d])
      BY <1>1, <1>4, CallerKeepsPosition, ReadersKeepLogs
    <3> QED BY <2>2, <3>1, Invisible
  <2> QED BY <2>1, <2>2
<1>5. ASSUME NEW c \in Clients, StreamTasks(c) PROVE [Promise!Next]_(Promise!vars)
  <2>1. \A r \in Runs : SameLog(buffer'[r], buffer[r])
    BY <1>1, <1>5, ReadersKeepLogs
  <2>2. CASE GeneratorYield(c)
    <3>1. /\ stream'[c].run = stream[c].run /\ stream'[c].leased = stream[c].leased
          /\ \A d \in Clients \ {c} : stream'[d] = stream[d]
          /\ lastId' = lastId
      BY <1>1, <2>2, YieldEffect
    <3> QED BY <2>1, <3>1, Invisible
  <2>3. CASE GeneratorWait(c) \/ GeneratorEnd(c) \/ ReadCancelled(c) \/ CloseJoins(c)
    <3>1. /\ \A d \in Clients : SamePosition(stream'[d], stream[d])
          /\ lastId' = lastId
      BY <1>1, <2>3, CallerKeepsPosition, QuietStep
    <3> QED BY <2>1, <3>1, Invisible
  <2>4. CASE CloseReleases(c)
    BY <1>1, <2>4, ReleaseDetaches DEF Promise!Next
  <2> QED BY <1>5, <2>2, <2>3, <2>4 DEF StreamTasks
<1>6. CASE UNCHANGED vars
  <2>1. /\ \A r \in Runs : SameLog(buffer'[r], buffer[r])
        /\ \A d \in Clients : SamePosition(stream'[d], stream[d])
        /\ lastId' = lastId
    BY <1>6 DEF vars, SameLog, SamePosition
  <2> QED BY <2>1, Invisible
<1> QED BY <1>2, <1>3, <1>4, <1>5, <1>6 DEF Next

\* The event store keeps the promise of ReplayLog to any number of clients and
\* for any number of runs: a cursor moves one event at a time through a log
\* that outlives its readers, across disconnects and reconnects, whatever reads
\* are cancelled or closed in between.
THEOREM RefinesReplayLog == Spec => ImplementsReplayLog
<1>1. Init => Promise!Init
  <2> SUFFICES ASSUME Init PROVE Promise!Init
    OBVIOUS
  <2>1. \A r \in Runs : /\ buffer[r].status = "absent" /\ Len(buffer[r].events) = 0
                        /\ buffer[r].started = FALSE /\ buffer[r].terminal = FALSE
    BY DEF Init, NewBuffer
  <2>2. \A c \in Clients : ~stream[c].leased
    BY DEF Init, NoStream
  <2>3. lastId = [c \in Clients |-> 0]
    BY DEF Init
  <2> QED BY <2>1, <2>2, <2>3 DEF Promise!Init
<1>2. StoreInv /\ [Next]_vars => [Promise!Next]_(Promise!vars)
  BY PromiseStep
<1> QED BY <1>1, <1>2, StoreInvariant, PTL DEF Spec, ImplementsReplayLog, Promise!Spec

-----------------------------------------------------------------------------
(* The invariant. *)

Phases == {"idle", "marked", "open"} \cup Refusals
SseReads == {"none", "begin", "run", "cancelling", "ok", "failed"}
SseCloses == {"none", "join", "inner", "done"}
Request == [phase : Phases, run : Runs \cup {NoRun}, named : Nat, mark : Nat,
            ended : BOOLEAN, gone : BOOLEAN, read : SseReads, call : Calls,
            close : SseCloses]
Receipt == [run : Runs \cup {NoRun}, seq : Nat]

\* What links request q, its inner stream s, the position last of the inner
\* caller and the receipt x of the client: the read task is inside the inner
\* stream exactly when it runs; the event it holds is the one after the last
\* that was sent; and the inner stream is closed only once the read is done.
Links(q, s, last, x) ==
  /\ q.phase # "idle" => q.run \in Runs
  /\ q.phase # "open" =>
       ~s.leased /\ q.read = "none" /\ q.call = "out" /\ q.close = "none" /\ ~q.gone
  /\ q.read \in {"run", "cancelling"} <=> s.call # "out"
  /\ q.call \in {"out", "close"} \/ q.close \in {"inner", "done"} =>
       q.read \in {"none", "ok", "failed"}
  /\ q.phase = "open" =>
       /\ s.run = q.run /\ x.run = q.run
       /\ last \in {x.seq, x.seq + 1}
       /\ q.read = "ok" => last = x.seq + 1
       /\ q.read \in {"begin", "run", "cancelling"} => last = x.seq
       /\ q.call = "out" /\ ~q.ended /\ q.close = "none" => last = x.seq
       /\ q.read = "ok" /\ q.close \in {"none", "join"} => s.close = "none"

\* What a client was sent of a log that exists is in that log.
InLog(x) ==
  x.run \in Runs =>
    /\ buffer[x.run].status # "absent"
    /\ buffer[x.run].status = "live" => x.seq <= Len(buffer[x.run].events)

SseInv ==
  /\ StoreInv
  /\ sse \in [Clients -> Request] /\ sent \in [Clients -> Receipt]
  /\ \A c \in Clients : Links(sse[c], stream[c], lastId[c], sent[c])
  /\ \A c \in Clients : InLog(sent[c])

LEMMA Shape ==
  ASSUME SseInv, NEW c \in Clients
  PROVE  /\ TypeOK /\ stream \in [Clients -> Stream] /\ stream[c] \in Stream
         /\ lastId \in [Clients -> Nat] /\ lastId[c] \in Nat
         /\ sse[c] \in Request /\ sent[c] \in Receipt
         /\ Links(sse[c], stream[c], lastId[c], sent[c])
         /\ InStep(stream[c], lastId[c])
BY DEF SseInv, StoreInv, Base, TypeOK, AllInStep

LEMMA SseInvTypes == SseInv => SseTypeOK
BY DEF SseInv, StoreInv, Base, SseTypeOK, Request, Receipt, Phases, SseReads, SseCloses

-----------------------------------------------------------------------------
(* The store's part of a step. *)

\* A read task that begins on an open stream calls __anext__.
LEMMA ReadStartsStep ==
  ASSUME SseInv, NEW c \in Clients, ReadStarts(c)
  PROVE  anext(c) \/ UNCHANGED <<buffer, stream, lastId>>
<1>1. stream[c].call = "out" /\ stream[c].read = "none"
  BY Shape DEF ReadStarts, Links, InStep
<1> QED BY <1>1 DEF ReadStarts, anext

\* The close task of the iterator closes the stream, or joins its close.
LEMMA SseCloseInnerStep ==
  ASSUME SseInv, NEW c \in Clients, SseCloseInner(c)
  PROVE  aclose(c) \/ UNCHANGED <<buffer, stream, lastId>>
<1>1. CASE stream[c].close = "none"
  BY <1>1 DEF SseCloseInner, aclose
<1>2. CASE stream[c].close # "none"
  <2>1. ClosingStream(stream[c]) = stream[c].close
    BY <1>2 DEF ClosingStream
  <2>2. [stream EXCEPT ![c].close = ClosingStream(stream[c])] = stream
    BY <2>1, Shape DEF Stream
  <2> QED BY <2>2 DEF SseCloseInner
<1> QED BY <1>1, <1>2

\* A subscription opens a stream after the named event, or changes nothing.
LEMMA SubscribeStep ==
  ASSUME SseInv, NEW c \in Clients, Subscribe(c)
  PROVE  \/ /\ Opens(c, sse[c].run, sse[c].named)
            /\ sse[c].run \in Runs /\ sse[c].named \in Nat
            /\ sse' = [sse EXCEPT ![c].phase = "open"]
            /\ sent' = [sent EXCEPT ![c] = [run |-> sse[c].run, seq |-> sse[c].named]]
         \/ /\ UNCHANGED <<buffer, stream, lastId, sent>>
            /\ \/ sse' = [sse EXCEPT ![c].phase = "not_found"]
               \/ /\ sse' = [sse EXCEPT ![c].phase = "cursor_ahead"]
                  /\ buffer[sse[c].run].status = "live"
                  /\ sse[c].named > Len(buffer[sse[c].run].events)
<1>1. sse[c].run \in Runs /\ sse[c].named \in Nat /\ ~stream[c].leased
  BY Shape DEF Subscribe, Links, Request
<1>2. Len(buffer[sse[c].run].events) \in Nat
  BY <1>1, Shape DEF TypeOK, Buffer
<1> QED BY <1>1, <1>2 DEF Subscribe, Opens, Locked

LEMMA CancelReadStep ==
  ASSUME NEW c \in Clients, CancelRead(c)
  PROVE  Caller(c) \/ UNCHANGED <<buffer, stream, lastId>>
BY DEF CancelRead, Caller

\* Every step of the composition is, for the store, a step of the store.
LEMMA SseStepIsStoreStep ==
  ASSUME SseInv, [SseStep]_sseVars
  PROVE  StoreStep
<1>1. connects' \in [Clients -> Nat]
  <2>1. connects \in [Clients -> Nat]
    BY DEF SseInv, StoreInv, Base, TypeOK
  <2>2. CASE connects' = connects
    BY <2>1, <2>2
  <2>3. ASSUME NEW c \in Clients, NEW r \in Runs, ReadHighWater(c, r)
        PROVE  connects' \in [Clients -> Nat]
    BY <2>1, <2>3 DEF ReadHighWater
  <2>4. ASSUME NEW r \in Runs, Writer(r) PROVE connects' = connects
    BY <2>4 DEF Writer, create_run, emit, emit_terminal, Append_, delete_run
  <2>5. ASSUME NEW c \in Clients, StreamTasks(c) PROVE connects' = connects
    BY <2>5 DEF StreamTasks, GeneratorYield, GeneratorWait, GeneratorEnd, ReadCancelled,
                CloseJoins, CloseReleases
  <2>6. ASSUME NEW c \in Clients, SseTasks(c) PROVE connects' = connects
    BY <2>6 DEF SseTasks, ReadStarts, ReadResumes, SseCloseJoins, SseCloseInner, SseCloseDone,
                CancelRead, CancelCaller, ReturnFailure, ReturnEvent, ReturnClosed
  <2>7. ASSUME NEW c \in Clients, SseReturns(c) \/ SseNext(c) \/ SseCancelCaller(c)
                                    \/ Disconnect(c) \/ SseClose(c) \/ Reconnect(c) \/ Subscribe(c)
        PROVE  connects' = connects
    BY <2>7 DEF SseReturns, SseReturnEvent, SseReturnFailure, SseReturnClosed, SseNext,
                SseCancelCaller, CancelRead, CancelCaller, Disconnect, SseClose, Reconnect,
                Subscribe
  <2> QED BY <2>2, <2>3, <2>4, <2>5, <2>6, <2>7 DEF SseStep, sseVars, InnerTasks
<1>2. ASSUME NEW r \in Runs, Writer(r) PROVE StoreStep
  BY <1>1, <1>2 DEF StoreStep
<1>3. ASSUME NEW c \in Clients, Caller(c) \/ StreamTasks(c) PROVE StoreStep
  BY <1>1, <1>3 DEF StoreStep
<1>4. CASE UNCHANGED <<buffer, stream, lastId>>
  BY <1>1, <1>4 DEF StoreStep
<1>5. ASSUME NEW c \in Clients, SseTasks(c) PROVE StoreStep
  <2>1. Caller(c) \/ UNCHANGED <<buffer, stream, lastId>>
    BY <1>5, ReadStartsStep, SseCloseInnerStep, CancelReadStep
       DEF SseTasks, ReadResumes, SseCloseJoins, SseCloseDone, Caller
  <2> QED BY <1>3, <1>4, <2>1
<1>6. ASSUME NEW c \in Clients, SseReturns(c) \/ SseNext(c) \/ SseCancelCaller(c)
                                  \/ Disconnect(c) \/ SseClose(c) \/ Reconnect(c)
      PROVE  StoreStep
  <2>1. Caller(c) \/ UNCHANGED <<buffer, stream, lastId>>
    BY <1>6, CancelReadStep
       DEF SseReturns, SseReturnEvent, SseReturnFailure, SseReturnClosed, SseNext,
           SseCancelCaller, Disconnect, SseClose, Reconnect
  <2> QED BY <1>3, <1>4, <2>1
<1>7. ASSUME NEW c \in Clients, Subscribe(c) PROVE StoreStep
  BY <1>1, <1>4, <1>7, SubscribeStep DEF StoreStep
<1>8. ASSUME NEW c \in Clients, NEW r \in Runs, ReadHighWater(c, r) PROVE StoreStep
  BY <1>4, <1>8 DEF ReadHighWater
<1>9. CASE UNCHANGED sseVars
  BY <1>4, <1>9 DEF sseVars
<1> QED BY <1>2, <1>3, <1>5, <1>6, <1>7, <1>8, <1>9 DEF SseStep, InnerTasks

-----------------------------------------------------------------------------
(* What a step leaves of the links. *)

LEMMA LinksStay ==
  ASSUME NEW q, NEW s, NEW z, NEW last, NEW x, Links(q, s, last, x),
         z.run = s.run, z.call = s.call, z.leased => s.leased,
         z.close = s.close \/ s.close = "join"
  PROVE  Links(q, z, last, x)
BY DEF Links

\* The store's steps on a stream, as far as the links are concerned.
Calm(z, s) ==
  /\ z.run = s.run /\ z.call = s.call
  /\ z.leased => s.leased
  /\ z.close = s.close \/ s.close = "join"

LEMMA SameIsCalm ==
  ASSUME NEW z, NEW s, SameButGen(z, s)
  PROVE  Calm(z, s)
BY DEF SameButGen, SamePosition, Calm

\* Writers and the stream's own tasks leave call and run alone, and close only
\* what is closing.
LEMMA TasksAreCalm ==
  ASSUME SseInv, NEW d \in Clients,
         \/ \E r \in Runs : Writer(r)
         \/ \E c \in Clients : StreamTasks(c)
  PROVE  Calm(stream'[d], stream[d]) /\ lastId' = lastId
<1>1. /\ Base /\ TypeOK /\ LogWellFormed /\ BatchNumbered
      /\ stream \in [Clients -> Stream] /\ stream[d] \in Stream
  BY Shape DEF SseInv, StoreInv, PositionOK
<1>2. ASSUME NEW r \in Runs, Writer(r) PROVE Calm(stream'[d], stream[d]) /\ lastId' = lastId
  <2>1. /\ stream' = stream \/ stream' = Notified(stream, r)
        /\ lastId' = lastId
    BY <1>2 DEF Writer, create_run, emit, emit_terminal, Append_, delete_run
  <2> QED BY <1>1, <2>1, NotifiedKeepsStep, SameIsCalm DEF Calm
<1>3. ASSUME NEW c \in Clients, StreamTasks(c)
      PROVE  Calm(stream'[d], stream[d]) /\ lastId' = lastId
  <2>1. CASE GeneratorYield(c)
    <3>1. /\ stream'[c].run = stream[c].run /\ stream'[c].leased = stream[c].leased
          /\ stream'[c].call = stream[c].call /\ stream'[c].close = stream[c].close
          /\ \A e \in Clients \ {c} : stream'[e] = stream[e]
          /\ lastId' = lastId
      BY <1>1, <2>1, YieldEffect
    <3> QED BY <3>1 DEF Calm
  <2>2. CASE GeneratorWait(c) \/ GeneratorEnd(c) \/ ReadCancelled(c) \/ CloseJoins(c)
    <3>1. PICK gen \in {"ready", "wait", "final", "ended"}, read \in Reads :
            stream' = [stream EXCEPT ![c] = [stream[c] EXCEPT !.gen = gen, !.read = read]]
      BY <1>1, <2>2, QuietStep
    <3>2. Calm([stream[c] EXCEPT !.gen = gen, !.read = read], stream[c])
      BY <1>1 DEF Calm, Stream
    <3>3. lastId' = lastId
      BY <1>1, <2>2, QuietStep
    <3> QED BY <1>1, <3>1, <3>2, <3>3 DEF Calm
  <2>3. CASE CloseReleases(c)
    <3> DEFINE released == [stream EXCEPT ![c] = ReleasedStream(c)]
    <3>1. /\ released \in [Clients -> Stream] /\ stream' = Notified(released, stream[c].run)
          /\ lastId' = lastId
      BY <1>1, <2>3, ReleaseStep
    <3>2. Calm(stream'[d], released[d])
      BY <3>1, NotifiedKeepsStep, SameIsCalm
    <3>3. SameButGen(stream'[d], released[d])
      BY <3>1, NotifiedKeepsStep
    <3>4. /\ released[c].run = stream[c].run /\ released[c].call = stream[c].call
          /\ ~released[c].leased /\ stream[c].close = "join"
          /\ \A e \in Clients \ {c} : released[e] = stream[e]
      BY <1>1, <2>3 DEF ReleasedStream, Stream, CloseReleases
    <3> HIDE DEF released
    <3> QED BY <3>1, <3>2, <3>3, <3>4 DEF Calm, SameButGen, SamePosition
  <2> QED BY <1>3, <2>1, <2>2, <2>3 DEF StreamTasks
<1> QED BY <1>2, <1>3

\* A step of one client touches no other.
ClientStep(c) ==
  SseTasks(c) \/ SseReturns(c) \/ SseNext(c) \/ SseCancelCaller(c) \/ Disconnect(c)
    \/ SseClose(c) \/ Reconnect(c) \/ Subscribe(c) \/ \E r \in Runs : ReadHighWater(c, r)

LEMMA OthersStay ==
  ASSUME SseInv, NEW c \in Clients, ClientStep(c), NEW d \in Clients \ {c}
  PROVE  /\ sse'[d] = sse[d] /\ sent'[d] = sent[d]
         /\ stream'[d] = stream[d] /\ lastId'[d] = lastId[d]
<1>1. TypeOK /\ stream \in [Clients -> Stream] /\ lastId \in [Clients -> Nat]
  BY Shape
<1>2. /\ sse \in [Clients -> Request] /\ sent \in [Clients -> Receipt]
  BY DEF SseInv
<1>3. ASSUME Caller(c) \/ UNCHANGED <<buffer, stream, lastId>>
      PROVE  stream'[d] = stream[d] /\ lastId'[d] = lastId[d]
  <2>1. CASE UNCHANGED <<buffer, stream, lastId>>
    BY <2>1
  <2>2. CASE Caller(c)
    <3>1. /\ \E call \in Calls, read \in Reads, close \in Closes, ended \in BOOLEAN :
               stream' = [stream EXCEPT ![c] =
                            CallerFields(stream[c], call, read, close, ended)]
          /\ lastId' \in {lastId, [lastId EXCEPT ![c] = stream[c].cursor]}
      BY <1>1, <2>2, CallerStep
    <3> QED BY <1>1, <3>1
  <2> QED BY <1>3, <2>1, <2>2
<1>4. CASE SseTasks(c)
  <2>1. Caller(c) \/ UNCHANGED <<buffer, stream, lastId>>
    BY <1>4, ReadStartsStep, SseCloseInnerStep, CancelReadStep
       DEF SseTasks, ReadResumes, SseCloseJoins, SseCloseDone, Caller
  <2>2. sse'[d] = sse[d] /\ sent'[d] = sent[d]
    BY <1>2, <1>4 DEF SseTasks, ReadStarts, ReadResumes, SseCloseJoins, SseCloseInner,
                      SseCloseDone
  <2> QED BY <1>3, <2>1, <2>2
<1>5. CASE SseReturns(c) \/ SseNext(c) \/ SseCancelCaller(c) \/ Disconnect(c)
             \/ SseClose(c) \/ Reconnect(c)
  <2>1. Caller(c) \/ UNCHANGED <<buffer, stream, lastId>>
    BY <1>5, CancelReadStep
       DEF SseReturns, SseReturnEvent, SseReturnFailure, SseReturnClosed, SseNext,
           SseCancelCaller, Disconnect, SseClose, Reconnect
  <2>2. sse'[d] = sse[d] /\ sent'[d] = sent[d]
    BY <1>2, <1>5
       DEF SseReturns, SseReturnEvent, SseReturnFailure, SseReturnClosed, SseNext,
           SseCancelCaller, Disconnect, SseClose, Reconnect
  <2> QED BY <1>3, <2>1, <2>2
<1>6. CASE Subscribe(c)
  BY <1>1, <1>2, <1>6, SubscribeStep DEF Opens
<1>7. CASE \E r \in Runs : ReadHighWater(c, r)
  BY <1>1, <1>2, <1>7 DEF ReadHighWater
<1> QED BY <1>4, <1>5, <1>6, <1>7 DEF ClientStep

-----------------------------------------------------------------------------
(* What a step does to the links of its own client, action by action. *)

Linked(q, s, last, x) == q \in Request /\ x \in Receipt /\ Links(q, s, last, x)

\* The iterator's own steps, on which the stream does not move.
LEMMA ReturnsLinked ==
  ASSUME SseInv, NEW c \in Clients,
         \/ SseReturns(c) \/ SseNext(c) \/ Disconnect(c) \/ SseClose(c) \/ Reconnect(c)
         \/ SseCloseDone(c)
  PROVE  Linked(sse'[c], stream'[c], lastId'[c], sent'[c])
<1> DEFINE q == sse[c]
           s == stream[c]
           x == sent[c]
<1>1. /\ s \in Stream /\ lastId[c] \in Nat /\ q \in Request /\ x \in Receipt
      /\ Links(q, s, lastId[c], x)
      /\ sse \in [Clients -> Request] /\ sent \in [Clients -> Receipt]
  BY Shape DEF SseInv
<1>2. UNCHANGED <<buffer, stream, lastId>>
  BY DEF SseReturns, SseReturnEvent, SseReturnFailure, SseReturnClosed, SseNext,
         Disconnect, SseClose, Reconnect, SseCloseDone
<1>3. CASE SseReturnEvent(c)
  <2>1. CASE q.close = "none"
    <3>1. /\ sse'[c] = [q EXCEPT !.call = "out", !.read = "none"]
          /\ sent'[c] = [x EXCEPT !.seq = lastId[c]] /\ q.read = "ok" /\ q.call = "read"
      BY <1>1, <1>3, <2>1 DEF SseReturnEvent
    <3>2. /\ sse'[c] \in Request /\ sent'[c] \in Receipt
      BY <1>1, <3>1 DEF Request, Receipt, SseReads, Calls
    <3>3. /\ sse'[c].phase = q.phase /\ sse'[c].gone = q.gone
          /\ sse'[c].run = q.run /\ sse'[c].read = "none"
          /\ sse'[c].call = "out" /\ sse'[c].close = "none"
          /\ sent'[c].run = x.run /\ sent'[c].seq = lastId[c]
      BY <1>1, <2>1, <3>1 DEF Request, Receipt
    <3> QED BY <1>1, <1>2, <3>1, <3>2, <3>3 DEF Links, Linked
  <2>2. CASE q.close # "none"
    <3>1. /\ sse'[c] = [q EXCEPT !.call = "close", !.read = "none"]
          /\ sent' = sent /\ q.read = "ok" /\ q.call = "read"
      BY <1>1, <1>3, <2>2 DEF SseReturnEvent
    <3>2. sse'[c] \in Request
      BY <1>1, <3>1 DEF Request, SseReads, Calls
    <3>3. /\ sse'[c].phase = q.phase /\ sse'[c].gone = q.gone
          /\ sse'[c].run = q.run /\ sse'[c].read = "none"
          /\ sse'[c].call = "close" /\ sse'[c].close = q.close
      BY <1>1, <3>1 DEF Request
    <3> QED BY <1>1, <1>2, <3>1, <3>2, <3>3 DEF Links, Linked
  <2> QED BY <2>1, <2>2
<1>4. CASE SseReturnFailure(c)
  <2>1. /\ sse'[c] = [q EXCEPT !.call = "close", !.close = SseClosing(c)]
        /\ sent' = sent /\ q.read \in {"none", "ok", "failed"} /\ q.call # "out"
        /\ SseClosing(c) = IF q.close = "none" THEN "join" ELSE q.close
    BY <1>1, <1>4 DEF SseReturnFailure, SseReadDone, SseClosing
  <2>2. sse'[c] \in Request
    BY <1>1, <2>1 DEF Request, SseCloses, Calls
  <2>3. /\ sse'[c].phase = q.phase /\ sse'[c].gone = q.gone
        /\ sse'[c].run = q.run /\ sse'[c].read = q.read
        /\ sse'[c].call = "close" /\ sse'[c].close = SseClosing(c)
    BY <1>1, <2>1 DEF Request
  <2> QED BY <1>1, <1>2, <2>1, <2>2, <2>3 DEF Links, Linked
<1>5. CASE SseReturnClosed(c)
  <2>1. /\ sse'[c] = [q EXCEPT !.call = "out", !.read = "none", !.ended = TRUE]
        /\ sent' = sent /\ q.call # "out"
        /\ q.read \notin {"run", "cancelling"}
    BY <1>1, <1>5 DEF SseReturnClosed, SseReadDone, Links
  <2>2. sse'[c] \in Request
    BY <1>1, <2>1 DEF Request, SseReads, Calls
  <2>3. /\ sse'[c].phase = q.phase /\ sse'[c].gone = q.gone
        /\ sse'[c].run = q.run /\ sse'[c].read = "none"
        /\ sse'[c].call = "out" /\ sse'[c].close = q.close /\ sse'[c].ended
    BY <1>1, <2>1 DEF Request
  <2> QED BY <1>1, <1>2, <2>1, <2>2, <2>3 DEF Links, Linked
<1>6. CASE SseNext(c)
  <2>1. /\ sse'[c] = [q EXCEPT !.call = "read", !.read = "begin"]
        /\ sent' = sent /\ q.call = "out" /\ q.phase = "open" /\ ~q.ended /\ q.close = "none"
    BY <1>1, <1>6 DEF SseNext
  <2>2. sse'[c] \in Request
    BY <1>1, <2>1 DEF Request, SseReads, Calls
  <2>3. /\ sse'[c].phase = q.phase /\ sse'[c].gone = q.gone
        /\ sse'[c].run = q.run /\ sse'[c].read = "begin"
        /\ sse'[c].call = "read" /\ sse'[c].close = "none"
    BY <1>1, <2>1 DEF Request
  <2> QED BY <1>1, <1>2, <2>1, <2>2, <2>3 DEF Links, Linked
<1>7. CASE Disconnect(c)
  <2>1. sse'[c] = [q EXCEPT !.gone = TRUE] /\ sent' = sent /\ q.phase = "open"
    BY <1>1, <1>7 DEF Disconnect
  <2>2. sse'[c] \in Request
    BY <1>1, <2>1 DEF Request
  <2>3. /\ sse'[c].phase = q.phase /\ sse'[c].run = q.run /\ sse'[c].read = q.read
        /\ sse'[c].call = q.call /\ sse'[c].close = q.close /\ sse'[c].ended = q.ended
    BY <1>1, <2>1 DEF Request
  <2> QED BY <1>1, <1>2, <2>1, <2>2, <2>3 DEF Links, Linked
<1>8. CASE SseClose(c)
  <2>1. sse'[c] = [q EXCEPT !.close = "join"] /\ sent' = sent /\ q.close = "none" /\ q.gone
    BY <1>1, <1>8 DEF SseClose
  <2>2. sse'[c] \in Request
    BY <1>1, <2>1 DEF Request, SseCloses
  <2>3. /\ sse'[c].phase = q.phase /\ sse'[c].gone = q.gone
        /\ sse'[c].run = q.run /\ sse'[c].read = q.read
        /\ sse'[c].call = q.call /\ sse'[c].close = "join" /\ sse'[c].ended = q.ended
    BY <1>1, <2>1 DEF Request
  <2> QED BY <1>1, <1>2, <2>1, <2>2, <2>3 DEF Links, Linked
<1>9. CASE Reconnect(c)
  <2>1. /\ sse'[c] = NoRequest /\ sent' = sent /\ ~s.leased
        /\ q.call = "out"
    BY <1>1, <1>9 DEF Reconnect
  <2>2. s.call = "out"
    BY <1>1, <2>1 DEF Links
  <2>3. NoRequest \in Request
    BY DEF NoRequest, Request, Phases, SseReads, SseCloses, Calls
  <2> QED BY <1>1, <1>2, <2>1, <2>2, <2>3 DEF Links, Linked, NoRequest
<1>10. CASE SseCloseDone(c)
  <2>1. sse'[c] = [q EXCEPT !.close = "done"] /\ sent' = sent /\ q.close = "inner"
    BY <1>1, <1>10 DEF SseCloseDone
  <2>2. sse'[c] \in Request
    BY <1>1, <2>1 DEF Request, SseCloses
  <2>3. /\ sse'[c].phase = q.phase /\ sse'[c].gone = q.gone
        /\ sse'[c].run = q.run /\ sse'[c].read = q.read
        /\ sse'[c].call = q.call /\ sse'[c].close = "done" /\ sse'[c].ended = q.ended
    BY <1>1, <2>1 DEF Request
  <2> QED BY <1>1, <1>2, <2>1, <2>2, <2>3 DEF Links, Linked
<1> HIDE DEF q, s, x
<1> QED BY <1>3, <1>4, <1>5, <1>6, <1>7, <1>8, <1>9, <1>10 DEF SseReturns

\* What cancelling the read task does: to the task itself, to the inner stream
\* it may be in, and not to the position.
LEMMA CancelReadEffect ==
  ASSUME SseInv, NEW c \in Clients, CancelRead(c)
  PROVE  /\ lastId' = lastId
         /\ stream'[c].run = stream[c].run /\ stream'[c].leased = stream[c].leased
         /\ stream'[c].close = stream[c].close
         /\ CancelledSseRead(c) \in {"none", "ok", "failed", "cancelling"}
         /\ CancelledSseRead(c) = "cancelling" <=> stream'[c].call # "out"
         /\ CancelledSseRead(c) \in {"none", "ok"} => CancelledSseRead(c) = sse[c].read
         /\ CancelledSseRead(c) = "cancelling" => sse[c].read \in {"run", "cancelling"}
<1> DEFINE q == sse[c]
           s == stream[c]
<1>1. /\ TypeOK /\ stream \in [Clients -> Stream] /\ s \in Stream /\ q \in Request
      /\ Links(q, s, lastId[c], sent[c]) /\ q.read \in SseReads /\ s.call \in Calls
  BY Shape DEF Request, Stream
<1>2. CASE q.read \notin {"run", "cancelling"}
  <2>1. UNCHANGED <<stream, lastId>> /\ s.call = "out"
    BY <1>1, <1>2 DEF CancelRead, Links
  <2>2. CancelledSseRead(c) = IF q.read = "begin" THEN "failed" ELSE q.read
    BY <1>2 DEF CancelledSseRead
  <2> QED BY <1>1, <1>2, <2>1, <2>2 DEF SseReads
<1>3. CASE q.read \in {"run", "cancelling"}
  <2>1. CancelCaller(c) /\ s.call # "out"
    BY <1>1, <1>3 DEF CancelRead, Links, SseReadDone
  <2>2. CancelledSseRead(c) = IF s.call = "close" THEN "failed" ELSE "cancelling"
    BY <1>3 DEF CancelledSseRead
  <2>3. /\ lastId' = lastId
        /\ \/ /\ s.call # "close"
              /\ \/ stream'[c] = [s EXCEPT !.call = "gather", !.read = CancelledRead(@)]
                 \/ stream'[c] = [s EXCEPT !.call = "abandon"]
           \/ /\ s.call = "close"
              /\ stream'[c] = [s EXCEPT !.call = "out", !.read = "none", !.ended = TRUE]
    BY <1>1, <2>1 DEF CancelCaller
  <2>4. /\ stream'[c].run = s.run /\ stream'[c].leased = s.leased
        /\ stream'[c].close = s.close
        /\ stream'[c].call = "out" <=> s.call = "close"
    BY <1>1, <2>3 DEF Stream
  <2> QED BY <1>3, <2>2, <2>3, <2>4
<1> QED BY <1>2, <1>3

\* The cancellations, by the response's task and by the close task.
LEMMA CancelsLinked ==
  ASSUME SseInv, NEW c \in Clients, SseCancelCaller(c) \/ SseCloseJoins(c)
  PROVE  Linked(sse'[c], stream'[c], lastId'[c], sent'[c])
<1> DEFINE q == sse[c]
           s == stream[c]
           x == sent[c]
<1>1. /\ s \in Stream /\ lastId[c] \in Nat /\ q \in Request /\ x \in Receipt
      /\ Links(q, s, lastId[c], x)
      /\ sse \in [Clients -> Request] /\ sent \in [Clients -> Receipt]
  BY Shape DEF SseInv
<1>2. sent' = sent
  BY DEF SseCancelCaller, SseCloseJoins
<1>3. ASSUME CancelRead(c), NEW call \in Calls,
             call \in {"out", "close"} => q.call = call,
             q.phase = "open", q.close \in {"none", "join"},
             sse'[c] = [q EXCEPT !.read = CancelledSseRead(c), !.call = call]
      PROVE  Linked(sse'[c], stream'[c], lastId'[c], sent'[c])
  <2>1. CancelledSseRead(c) \in {"none", "ok", "failed", "cancelling"}
    BY <1>3, CancelReadEffect
  <2>2. sse'[c] \in Request
    BY <1>1, <1>3, <2>1 DEF Request, SseReads
  <2>3. /\ sse'[c].phase = q.phase /\ sse'[c].gone = q.gone /\ sse'[c].run = q.run
        /\ sse'[c].read = CancelledSseRead(c) /\ sse'[c].call = call
        /\ sse'[c].close = q.close /\ sse'[c].ended = q.ended
    BY <1>1, <1>3 DEF Request
  <2>4. /\ lastId' = lastId
        /\ stream'[c].run = s.run /\ stream'[c].leased = s.leased
        /\ stream'[c].close = s.close
        /\ CancelledSseRead(c) = "cancelling" <=> stream'[c].call # "out"
        /\ CancelledSseRead(c) \in {"none", "ok"} => CancelledSseRead(c) = q.read
        /\ CancelledSseRead(c) = "cancelling" => q.read \in {"run", "cancelling"}
    BY <1>3, CancelReadEffect
  <2> QED BY <1>1, <1>2, <1>3, <2>1, <2>2, <2>3, <2>4 DEF Linked, Links
<1>4. CASE SseCloseJoins(c)
  <2>1. /\ CancelRead(c) /\ q.close = "join" /\ q.phase = "open" /\ q.call \in Calls
        /\ sse'[c] = [q EXCEPT !.read = CancelledSseRead(c)]
    BY <1>1, <1>4 DEF SseCloseJoins, Links, Request
  <2>2. [q EXCEPT !.read = CancelledSseRead(c)]
          = [q EXCEPT !.read = CancelledSseRead(c), !.call = q.call]
    BY <1>1 DEF Request
  <2> HIDE DEF q
  <2> QED BY <1>3, <2>1, <2>2
<1>5. CASE SseCancelCaller(c)
  <2>1. CASE q.call \in {"read", "gather"}
    <3> DEFINE call == IF q.call = "read" THEN "gather" ELSE "abandon"
    <3>1. /\ CancelRead(c) /\ q.phase = "open"
          /\ sse'[c] = [q EXCEPT !.read = CancelledSseRead(c), !.call = call]
      BY <1>1, <1>5, <2>1 DEF SseCancelCaller
    <3>2. CASE q.close \in {"none", "join"}
      BY <1>3, <3>1, <3>2 DEF Calls
    <3>3. CASE q.close \in {"inner", "done"}
      <4>1. q.read \in {"none", "ok", "failed"} /\ s.call = "out"
        BY <1>1, <3>3 DEF Links
      <4>2. /\ CancelledSseRead(c) = q.read /\ UNCHANGED <<stream, lastId>>
        BY <3>1, <4>1 DEF CancelledSseRead, CancelRead
      <4>3. /\ sse'[c] \in Request
            /\ sse'[c].phase = q.phase /\ sse'[c].gone = q.gone /\ sse'[c].run = q.run
            /\ sse'[c].read = q.read /\ sse'[c].call = call
            /\ sse'[c].close = q.close /\ sse'[c].ended = q.ended
        BY <1>1, <3>1, <4>2 DEF Request, Calls
      <4> QED BY <1>1, <1>2, <3>1, <3>3, <4>1, <4>2, <4>3 DEF Linked, Links
    <3> QED BY <1>1, <3>2, <3>3 DEF Request, SseCloses
  <2>2. CASE q.call = "close"
    <3>1. /\ sse'[c] = [q EXCEPT !.call = "out", !.read = "none", !.ended = TRUE]
          /\ UNCHANGED <<stream, lastId>> /\ q.phase = "open"
      BY <1>1, <1>5, <2>2 DEF SseCancelCaller
    <3>2. s.call = "out"
      BY <1>1, <2>2 DEF Links
    <3>3. /\ sse'[c] \in Request
          /\ sse'[c].phase = q.phase /\ sse'[c].gone = q.gone /\ sse'[c].run = q.run
          /\ sse'[c].read = "none" /\ sse'[c].call = "out"
          /\ sse'[c].close = q.close /\ sse'[c].ended
      BY <1>1, <3>1 DEF Request, SseReads, Calls
    <3> QED BY <1>1, <1>2, <3>1, <3>2, <3>3 DEF Linked, Links
  <2>3. CASE q.call = "out"
    <3>1. /\ sse'[c] = [q EXCEPT !.ended = TRUE] /\ UNCHANGED <<stream, lastId>>
      BY <1>1, <1>5, <2>3 DEF SseCancelCaller
    <3>2. /\ sse'[c] \in Request
          /\ sse'[c].phase = q.phase /\ sse'[c].gone = q.gone /\ sse'[c].run = q.run
          /\ sse'[c].read = q.read /\ sse'[c].call = q.call
          /\ sse'[c].close = q.close /\ sse'[c].ended
      BY <1>1, <3>1 DEF Request
    <3> QED BY <1>1, <1>2, <3>1, <3>2 DEF Linked, Links
  <2> QED BY <1>5, <2>1, <2>2, <2>3 DEF SseCancelCaller
<1> QED BY <1>4, <1>5

\* The read task: it begins, and resumes with what the inner call gave it.
LEMMA ReadLinked ==
  ASSUME SseInv, NEW c \in Clients, ReadStarts(c) \/ ReadResumes(c)
  PROVE  Linked(sse'[c], stream'[c], lastId'[c], sent'[c])
<1> DEFINE q == sse[c]
           s == stream[c]
           x == sent[c]
<1>1. /\ s \in Stream /\ lastId[c] \in Nat /\ q \in Request /\ x \in Receipt
      /\ Links(q, s, lastId[c], x) /\ InStep(s, lastId[c])
      /\ sse \in [Clients -> Request] /\ sent \in [Clients -> Receipt]
      /\ stream \in [Clients -> Stream] /\ lastId \in [Clients -> Nat]
  BY Shape DEF SseInv
<1>2. sent' = sent
  BY DEF ReadStarts, ReadResumes
<1>3. ASSUME NEW read \in SseReads, sse'[c] = [q EXCEPT !.read = read]
      PROVE  /\ sse'[c] \in Request
             /\ sse'[c].phase = q.phase /\ sse'[c].gone = q.gone /\ sse'[c].run = q.run
             /\ sse'[c].read = read /\ sse'[c].call = q.call
             /\ sse'[c].close = q.close /\ sse'[c].ended = q.ended
  BY <1>1, <1>3 DEF Request
<1>4. {"run", "ok", "failed"} \subseteq SseReads
  BY DEF SseReads
<1>5. CASE ReadStarts(c)
  <2>1. q.read = "begin" /\ q.phase = "open" /\ lastId' = lastId /\ s.call = "out"
    BY <1>1, <1>5 DEF ReadStarts, Links
  <2>2. \/ sse'[c] = [q EXCEPT !.read = "failed"] /\ stream' = stream
        \/ /\ sse'[c] = [q EXCEPT !.read = "run"]
           /\ stream'[c] = [s EXCEPT !.call = "read", !.read = "run"]
    BY <1>1, <1>5 DEF ReadStarts
  <2>3. CASE sse'[c] = [q EXCEPT !.read = "failed"] /\ stream' = stream
    BY <1>1, <1>2, <1>3, <1>4, <2>1, <2>3 DEF Linked, Links
  <2>4. CASE /\ sse'[c] = [q EXCEPT !.read = "run"]
             /\ stream'[c] = [s EXCEPT !.call = "read", !.read = "run"]
    <3>1. /\ stream'[c].run = s.run /\ stream'[c].leased = s.leased
          /\ stream'[c].close = s.close /\ stream'[c].call = "read"
      BY <1>1, <2>4 DEF Stream
    <3> QED BY <1>1, <1>2, <1>3, <1>4, <2>1, <2>4, <3>1 DEF Linked, Links
  <2> QED BY <2>2, <2>3, <2>4
<1>6. CASE ReadResumes(c)
  <2>1. q.read \in {"run", "cancelling"} /\ q.phase = "open" /\ lastId[c] = x.seq
    BY <1>1, <1>6 DEF ReadResumes, Links
  <2>2. CASE ReturnFailure(c) /\ sse' = sse
    <3>1. /\ stream'[c] = [s EXCEPT !.call = "close", !.close = ClosingStream(s)]
          /\ lastId' = lastId
      BY <1>1, <2>2 DEF ReturnFailure
    <3>2. /\ stream'[c].run = s.run /\ stream'[c].leased = s.leased
          /\ stream'[c].call = "close"
      BY <1>1, <3>1 DEF Stream
    <3> QED BY <1>1, <1>2, <2>1, <2>2, <3>1, <3>2 DEF Linked, Links
  <2>3. CASE /\ ReturnEvent(c)
             /\ sse' = [sse EXCEPT ![c].read = IF stream'[c].ended THEN "failed" ELSE "ok"]
    <3> DEFINE read == IF stream'[c].ended THEN "failed" ELSE "ok"
    <3>1. sse'[c] = [q EXCEPT !.read = read] /\ read \in {"failed", "ok"}
      BY <1>1, <2>3
    <3>2. CASE s.close = "none"
      <4>1. /\ stream'[c] = [s EXCEPT !.call = "out", !.read = "none"]
            /\ lastId'[c] = s.cursor /\ s.read = "ok"
        BY <1>1, <2>3, <3>2 DEF ReturnEvent
      <4>2. /\ stream'[c].run = s.run /\ stream'[c].leased = s.leased
            /\ stream'[c].call = "out" /\ stream'[c].close = "none"
        BY <1>1, <3>2, <4>1 DEF Stream
      <4>3. lastId'[c] = x.seq + 1
        BY <1>1, <2>1, <3>2, <4>1 DEF InStep
      <4>4. x.seq \in Nat
        BY <1>1 DEF Receipt
      <4> HIDE DEF read
      <4> QED BY <1>1, <1>2, <1>3, <1>4, <2>1, <3>1, <4>2, <4>3, <4>4 DEF Linked, Links
    <3>3. CASE s.close # "none"
      <4>1. /\ stream'[c] = [s EXCEPT !.call = "out", !.read = "none", !.ended = TRUE]
            /\ lastId' = lastId
        BY <1>1, <2>3, <3>3 DEF ReturnEvent
      <4>2. /\ stream'[c].run = s.run /\ stream'[c].leased = s.leased
            /\ stream'[c].call = "out" /\ stream'[c].ended
        BY <1>1, <4>1 DEF Stream
      <4>3. read = "failed"
        BY <4>2
      <4> HIDE DEF read
      <4> QED BY <1>1, <1>2, <1>3, <1>4, <2>1, <3>1, <4>1, <4>2, <4>3 DEF Linked, Links
    <3> QED BY <3>2, <3>3
  <2>4. CASE ReturnClosed(c) /\ sse' = [sse EXCEPT ![c].read = "failed"]
    <3>1. /\ stream'[c] = [s EXCEPT !.call = "out", !.read = "none", !.ended = TRUE]
          /\ lastId' = lastId /\ sse'[c] = [q EXCEPT !.read = "failed"]
      BY <1>1, <2>4 DEF ReturnClosed
    <3>2. /\ stream'[c].run = s.run /\ stream'[c].leased = s.leased
          /\ stream'[c].call = "out"
      BY <1>1, <3>1 DEF Stream
    <3> QED BY <1>1, <1>2, <1>3, <1>4, <2>1, <3>1, <3>2 DEF Linked, Links
  <2> QED BY <1>6, <2>2, <2>3, <2>4 DEF ReadResumes
<1> QED BY <1>5, <1>6

\* The inner close, the subscription and the high-water mark.
LEMMA OpenAndCloseLinked ==
  ASSUME SseInv, NEW c \in Clients,
         SseCloseInner(c) \/ Subscribe(c) \/ \E r \in Runs : ReadHighWater(c, r)
  PROVE  Linked(sse'[c], stream'[c], lastId'[c], sent'[c])
<1> DEFINE q == sse[c]
           s == stream[c]
           x == sent[c]
<1>1. /\ s \in Stream /\ lastId[c] \in Nat /\ q \in Request /\ x \in Receipt
      /\ Links(q, s, lastId[c], x)
      /\ sse \in [Clients -> Request] /\ sent \in [Clients -> Receipt]
      /\ stream \in [Clients -> Stream] /\ lastId \in [Clients -> Nat]
  BY Shape DEF SseInv
<1>2. CASE SseCloseInner(c)
  <2>1. /\ stream'[c] = [s EXCEPT !.close = ClosingStream(s)]
        /\ sse'[c] = [q EXCEPT !.close = "inner"]
        /\ lastId' = lastId /\ sent' = sent
        /\ q.close = "join" /\ q.read \in {"none", "ok", "failed"}
    BY <1>1, <1>2 DEF SseCloseInner, SseReadDone
  <2>2. /\ stream'[c].run = s.run /\ stream'[c].leased = s.leased /\ stream'[c].call = s.call
    BY <1>1, <2>1 DEF Stream
  <2>3. /\ sse'[c] \in Request
        /\ sse'[c].phase = q.phase /\ sse'[c].gone = q.gone /\ sse'[c].run = q.run
        /\ sse'[c].read = q.read /\ sse'[c].call = q.call
        /\ sse'[c].close = "inner" /\ sse'[c].ended = q.ended
    BY <1>1, <2>1 DEF Request, SseCloses
  <2> QED BY <1>1, <2>1, <2>2, <2>3 DEF Linked, Links
<1>3. CASE Subscribe(c)
  <2>1. q.phase = "marked" /\ q.run \in Runs /\ s.call = "out"
    BY <1>1, <1>3 DEF Subscribe, Links
  <2>2. CASE /\ Opens(c, q.run, q.named) /\ sse' = [sse EXCEPT ![c].phase = "open"]
             /\ sent' = [sent EXCEPT ![c] = [run |-> q.run, seq |-> q.named]]
    <3>1. /\ stream'[c] = OpenedStream(q.run, q.named) /\ lastId'[c] = q.named
          /\ sse'[c] = [q EXCEPT !.phase = "open"]
          /\ sent'[c] = [run |-> q.run, seq |-> q.named]
      BY <1>1, <2>2 DEF Opens
    <3>2. /\ sse'[c] \in Request
          /\ sse'[c].phase = "open" /\ sse'[c].run = q.run
          /\ sse'[c].read = q.read /\ sse'[c].call = q.call
          /\ sse'[c].close = q.close /\ sse'[c].ended = q.ended
      BY <1>1, <3>1 DEF Request, Phases
    <3>3. /\ sent'[c] \in Receipt /\ q.named \in Nat
      BY <1>1, <2>1, <3>1 DEF Request, Receipt
    <3>4. /\ stream'[c].run = q.run /\ stream'[c].call = "out" /\ stream'[c].close = "none"
      BY <3>1 DEF OpenedStream
    <3> QED BY <1>1, <2>1, <3>1, <3>2, <3>3, <3>4 DEF Linked, Links
  <2>3. ASSUME NEW phase \in Refusals, sse' = [sse EXCEPT ![c].phase = phase],
               UNCHANGED <<stream, lastId, sent>>
        PROVE  Linked(sse'[c], stream'[c], lastId'[c], sent'[c])
    <3>1. /\ sse'[c] \in Request
          /\ sse'[c].phase = phase /\ sse'[c].gone = q.gone /\ sse'[c].run = q.run
          /\ sse'[c].read = q.read /\ sse'[c].call = q.call
          /\ sse'[c].close = q.close /\ sse'[c].ended = q.ended
      BY <1>1, <2>3 DEF Request, Phases
    <3>2. phase # "open" /\ phase # "idle"
      BY DEF Refusals
    <3> QED BY <1>1, <2>1, <2>3, <3>1, <3>2 DEF Linked, Links
  <2> HIDE DEF q, s, x
  <2>4. \/ /\ Opens(c, q.run, q.named) /\ sse' = [sse EXCEPT ![c].phase = "open"]
           /\ sent' = [sent EXCEPT ![c] = [run |-> q.run, seq |-> q.named]]
        \/ /\ UNCHANGED <<stream, lastId, sent>>
           /\ \E phase \in Refusals : sse' = [sse EXCEPT ![c].phase = phase]
    BY <1>3, SubscribeStep DEF Refusals, q
  <2> QED BY <2>2, <2>3, <2>4
<1>4. ASSUME NEW r \in Runs, ReadHighWater(c, r)
      PROVE  Linked(sse'[c], stream'[c], lastId'[c], sent'[c])
  <2>1. /\ UNCHANGED <<stream, lastId, sent>>
        /\ q.phase # "open"
    BY <1>4 DEF ReadHighWater, Refusals
  <2>2. /\ sse'[c] \in Request
        /\ sse'[c].phase \in {"marked"} \cup Refusals /\ ~sse'[c].gone /\ sse'[c].run = r
        /\ sse'[c].read = "none" /\ sse'[c].call = "out" /\ sse'[c].close = "none"
    <3> DEFINE Fresh(new) ==
                 /\ new \in Request
                 /\ new.phase \in {"marked"} \cup Refusals /\ ~new.gone /\ new.run = r
                 /\ new.read = "none" /\ new.call = "out" /\ new.close = "none"
    <3>1. Delivered(c, r) \in Nat /\ Len(buffer[r].events) \in Nat
      BY <1>1, Shape DEF Delivered, Receipt, TypeOK, Buffer
    <3>2. ASSUME NEW phase \in {"not_found", "bad_cursor"},
                 sse' = [sse EXCEPT ![c] = [NoRequest EXCEPT !.phase = phase, !.run = r]]
          PROVE  Fresh(sse'[c])
      <4>1. sse'[c] = [NoRequest EXCEPT !.phase = phase, !.run = r]
        BY <1>1, <3>2
      <4>2. /\ NoRequest \in Request /\ phase \in Phases
            /\ ~NoRequest.gone /\ NoRequest.read = "none"
            /\ NoRequest.call = "out" /\ NoRequest.close = "none"
        BY DEF NoRequest, Request, Phases, Refusals, SseReads, SseCloses, Calls
      <4>3. phase \in {"marked"} \cup Refusals
        BY DEF Refusals
      <4> QED BY <4>1, <4>2, <4>3 DEF Request
    <3>3. ASSUME NEW n \in {0, Delivered(c, r), Delivered(c, r) + 1},
                 sse' = [sse EXCEPT ![c] = [NoRequest EXCEPT
                           !.run = r, !.named = n, !.mark = Len(buffer[r].events),
                           !.phase = IF n > Len(buffer[r].events)
                                     THEN "cursor_ahead" ELSE "marked"]]
          PROVE  Fresh(sse'[c])
      <4> DEFINE phase == IF n > Len(buffer[r].events) THEN "cursor_ahead" ELSE "marked"
      <4>1. n \in Nat /\ phase \in {"cursor_ahead", "marked"}
        BY <3>1
      <4>2. sse'[c] = [NoRequest EXCEPT !.run = r, !.named = n,
                         !.mark = Len(buffer[r].events), !.phase = phase]
        BY <1>1, <3>3
      <4> HIDE DEF phase
      <4> QED BY <3>1, <4>1, <4>2
            DEF NoRequest, Request, Phases, Refusals, SseReads, SseCloses, Calls
    <3> HIDE DEF Fresh
    <3>4. Fresh(sse'[c])
      BY <1>4, <3>2, <3>3 DEF ReadHighWater
    <3> QED BY <3>4 DEF Fresh
  <2>3. sse'[c].phase # "open" /\ ~s.leased /\ s.call = "out"
    BY <1>1, <2>1, <2>2 DEF Refusals, Links
  <2> QED BY <1>1, <2>1, <2>2, <2>3 DEF Linked, Links
<1> QED BY <1>2, <1>3, <1>4

-----------------------------------------------------------------------------
(* Logs only grow until they are deleted, and never come back. *)

LEMMA LogsGrow ==
  ASSUME Base, StoreStep, NEW r \in Runs, buffer[r].status # "absent"
  PROVE  /\ buffer'[r].status # "absent"
         /\ buffer'[r].status = "live" =>
              /\ buffer[r].status = "live"
              /\ Len(buffer[r].events) <= Len(buffer'[r].events)
<1> DEFINE Grows == /\ buffer'[r].status # "absent"
                    /\ buffer'[r].status = "live" =>
                         /\ buffer[r].status = "live"
                         /\ Len(buffer[r].events) <= Len(buffer'[r].events)
<1>1. /\ TypeOK /\ buffer \in [Runs -> Buffer] /\ Len(buffer[r].events) \in Nat
  BY DEF Base, TypeOK, Buffer
<1>2. ASSUME SameLog(buffer'[r], buffer[r]) PROVE Grows
  BY <1>1, <1>2 DEF SameLog
<1>3. ASSUME NEW q \in Runs, Writer(q) PROVE Grows
  <2>1. ASSUME NEW t \in Owners, create_run(q, t) PROVE Grows
    <3>1. q # r
      BY <2>1 DEF create_run
    <3>2. buffer'[r] = buffer[r]
      BY <1>1, <2>1, <3>1 DEF create_run
    <3> QED BY <1>2, <3>2 DEF SameLog
  <2>2. ASSUME NEW t \in Tokens, NEW k \in Kinds, Append_(q, t, k) PROVE Grows
    <3>1. /\ Len(buffer'[q].events) = Len(buffer[q].events) + 1
          /\ buffer[q].status = "live" /\ buffer'[q].status = "live"
          /\ q # r => buffer'[r] = buffer[r]
      BY <1>1, <2>2, AppendEffect
    <3>2. CASE q = r
      BY <1>1, <3>1, <3>2
    <3>3. CASE q # r
      BY <1>2, <3>1, <3>3 DEF SameLog
    <3> QED BY <3>2, <3>3
  <2>3. ASSUME NEW t \in Tokens, NEW u \in BOOLEAN, delete_run(q, t, u) PROVE Grows
    <3>1. /\ buffer'[q].status = "deleted"
          /\ q # r => buffer'[r] = buffer[r]
      BY <1>1, <2>3 DEF delete_run, Buffer
    <3>2. CASE q = r
      BY <3>1, <3>2
    <3>3. CASE q # r
      BY <1>2, <3>1, <3>3 DEF SameLog
    <3> QED BY <3>2, <3>3
  <2> QED BY <1>3, <2>1, <2>2, <2>3 DEF Writer, emit, emit_terminal, Kinds
<1>4. ASSUME NEW c \in Clients, Caller(c) \/ StreamTasks(c) PROVE Grows
  BY <1>2, <1>4, ReadersKeepLogs
<1>5. ASSUME NEW c \in Clients, NEW q \in Runs, NEW after \in Nat, Opens(c, q, after)
      PROVE  Grows
  BY <1>2, <1>5, ReadersKeepLogs
<1>6. CASE UNCHANGED <<buffer, stream, lastId>>
  BY <1>2, <1>6 DEF SameLog
<1> QED BY <1>3, <1>4, <1>5, <1>6 DEF StoreStep

LEMMA InLogStays ==
  ASSUME Base, StoreStep, NEW x \in Receipt, InLog(x)
  PROVE  InLog(x)'
<1>1. CASE x.run \notin Runs
  BY <1>1 DEF InLog
<1>2. CASE x.run \in Runs
  <2>1. /\ buffer[x.run].status # "absent" /\ x.seq \in Nat
        /\ buffer[x.run].status = "live" => x.seq <= Len(buffer[x.run].events)
    BY <1>2 DEF InLog, Receipt
  <2>2. /\ Len(buffer[x.run].events) \in Nat
        /\ TypeOK'
    BY <1>2, BaseStep DEF Base, TypeOK, Buffer
  <2>3. Len(buffer'[x.run].events) \in Nat
    BY <1>2, <2>2 DEF TypeOK, Buffer
  <2>4. /\ buffer'[x.run].status # "absent"
        /\ buffer'[x.run].status = "live" =>
             /\ buffer[x.run].status = "live"
             /\ Len(buffer[x.run].events) <= Len(buffer'[x.run].events)
    BY <1>2, <2>1, LogsGrow
  <2> QED BY <2>1, <2>2, <2>3, <2>4 DEF InLog
<1> QED BY <1>1, <1>2

\* The event that goes out is the next one of a log that is there.
LEMMA SendEffect ==
  ASSUME SseInv, NEW c \in Clients, SseReturnEvent(c), sent' # sent
  PROVE  /\ sse[c].phase = "open" /\ sse[c].close = "none"
         /\ sent' = [sent EXCEPT ![c].seq = @ + 1] /\ sent'[c].seq = sent[c].seq + 1
         /\ sent'[c].run = sent[c].run /\ sent[c].run \in Runs
         /\ buffer' = buffer /\ buffer[sent[c].run].status = "live"
         /\ sent[c].seq + 1 <= Len(buffer[sent[c].run].events)
<1> DEFINE q == sse[c]
           s == stream[c]
           x == sent[c]
<1>1. /\ TypeOK /\ s \in Stream /\ q \in Request /\ x \in Receipt /\ lastId[c] \in Nat
      /\ Links(q, s, lastId[c], x) /\ InStep(s, lastId[c])
      /\ sent \in [Clients -> Receipt]
  BY Shape DEF SseInv
<1>2. /\ q.close = "none" /\ q.read = "ok" /\ q.call = "read" /\ buffer' = buffer
      /\ sent' = [sent EXCEPT ![c].seq = lastId[c]]
  BY DEF SseReturnEvent
<1>3. q.phase = "open"
  BY <1>1, <1>2 DEF Links
<1>4. /\ lastId[c] = x.seq + 1 /\ x.run = s.run /\ x.run \in Runs /\ s.close = "none"
  BY <1>1, <1>2, <1>3 DEF Links
<1>5. s.leased /\ s.cursor \in {lastId[c], lastId[c] + 1}
  BY <1>1, <1>4 DEF InStep
<1>6. /\ buffer[s.run].status = "live"
      /\ s.cursor + Len(s.batch) <= Len(buffer[s.run].events)
  BY <1>5 DEF SseInv, StoreInv, PositionOK, LeasedLogKept
<1>7. /\ s.cursor \in Nat /\ Len(s.batch) \in Nat /\ Len(buffer[s.run].events) \in Nat
  BY <1>1, <1>4 DEF Stream, TypeOK, Buffer
<1>8. x.seq + 1 <= Len(buffer[x.run].events)
  <2> HIDE DEF q, s, x
  <2> QED BY <1>1, <1>4, <1>5, <1>6, <1>7
<1>9. /\ sent' = [sent EXCEPT ![c].seq = @ + 1] /\ sent'[c].seq = x.seq + 1
      /\ sent'[c].run = x.run
  BY <1>1, <1>2, <1>4 DEF Receipt
<1> QED BY <1>2, <1>3, <1>4, <1>6, <1>8, <1>9

\* What changes a receipt: an event that goes out, or a subscription.
LEMMA ReceiptStep ==
  ASSUME SseInv, [SseStep]_sseVars, NEW c \in Clients, sent'[c] # sent[c]
  PROVE  \/ SseReturnEvent(c)
         \/ /\ Subscribe(c) /\ Opens(c, sse[c].run, sse[c].named)
            /\ sse[c].run \in Runs /\ sse[c].phase = "marked"
            /\ sent'[c] = [run |-> sse[c].run, seq |-> sse[c].named]
<1>1. sent \in [Clients -> Receipt]
  BY DEF SseInv
<1>2. PICK d \in Clients : ClientStep(d)
  BY DEF SseStep, sseVars, InnerTasks, ClientStep
<1>3. d = c
  BY <1>2, OthersStay
<1>4. SseReturnEvent(c) \/ Subscribe(c)
  BY <1>2, <1>3 DEF ClientStep, SseTasks, ReadStarts, ReadResumes, SseCloseJoins, SseCloseInner,
     SseCloseDone, SseReturns, SseReturnFailure, SseReturnClosed, SseNext, SseCancelCaller,
     Disconnect, SseClose, Reconnect, ReadHighWater
<1>5. ASSUME Subscribe(c)
      PROVE  /\ Opens(c, sse[c].run, sse[c].named)
             /\ sse[c].run \in Runs /\ sse[c].phase = "marked"
             /\ sent'[c] = [run |-> sse[c].run, seq |-> sse[c].named]
  BY <1>1, <1>5, SubscribeStep DEF Subscribe
<1> QED BY <1>4, <1>5

-----------------------------------------------------------------------------
(* The theorems. *)

LEMMA SseInvInit == SseInit => SseInv
<1> SUFFICES ASSUME SseInit PROVE SseInv
  OBVIOUS
<1>1. StoreInv
  BY StoreInit DEF SseInit
<1>2. NoRequest \in Request /\ [run |-> NoRun, seq |-> 0] \in Receipt
  BY DEF NoRequest, Request, Receipt, Phases, SseReads, SseCloses, Calls
<1>3. sse \in [Clients -> Request] /\ sent \in [Clients -> Receipt]
  BY <1>2 DEF SseInit
<1>4. ASSUME NEW c \in Clients PROVE Links(sse[c], stream[c], lastId[c], sent[c])
  BY DEF SseInit, Init, Links, NoRequest, NoStream
<1>5. ASSUME NEW c \in Clients PROVE InLog(sent[c])
  BY NoRunAssumption DEF SseInit, InLog
<1> QED BY <1>1, <1>3, <1>4, <1>5 DEF SseInv

LEMMA SseInvStep ==
  ASSUME SseInv, [SseStep]_sseVars
  PROVE  SseInv'
<1>1. /\ StoreStep /\ Base /\ TypeOK
      /\ sse \in [Clients -> Request] /\ sent \in [Clients -> Receipt]
      /\ stream \in [Clients -> Stream] /\ lastId \in [Clients -> Nat]
  BY SseStepIsStoreStep DEF SseInv, StoreInv, Base, TypeOK
<1>2. StoreInv'
  BY <1>1, StoreInvStep DEF SseInv
<1>3. ASSUME NEW d \in Clients
      PROVE  Linked(sse'[d], stream'[d], lastId'[d], sent'[d])
  <2>1. Linked(sse[d], stream[d], lastId[d], sent[d])
    BY Shape DEF Linked
  <2>2. CASE /\ UNCHANGED <<sse, sent>>
             /\ (\E r \in Runs : Writer(r)) \/ (\E c \in Clients : StreamTasks(c))
    <3>1. Calm(stream'[d], stream[d]) /\ lastId' = lastId
      BY <2>2, TasksAreCalm
    <3> QED BY <2>1, <2>2, <3>1, LinksStay DEF Linked, Calm
  <2>3. ASSUME NEW c \in Clients, ClientStep(c)
        PROVE  Linked(sse'[d], stream'[d], lastId'[d], sent'[d])
    <3>1. CASE d # c
      BY <2>1, <2>3, <3>1, OthersStay
    <3>2. CASE d = c
      BY <2>3, <3>2, ReturnsLinked, CancelsLinked, ReadLinked, OpenAndCloseLinked
         DEF ClientStep, SseTasks
    <3> QED BY <3>1, <3>2
  <2>4. CASE UNCHANGED sseVars
    BY <2>1, <2>4 DEF sseVars
  <2> QED BY <2>2, <2>3, <2>4 DEF SseStep, InnerTasks, ClientStep
<1>4. /\ DOMAIN sse' = Clients /\ DOMAIN sent' = Clients
      /\ sse' = [c \in Clients |-> sse'[c]] /\ sent' = [c \in Clients |-> sent'[c]]
  <2>1. CASE UNCHANGED <<sse, sent>>
    BY <1>1, <2>1
  <2>2. ASSUME NEW c \in Clients, ClientStep(c)
        PROVE  /\ sse' = [d \in Clients |-> sse'[d]] /\ DOMAIN sse' = Clients
               /\ sent' = [d \in Clients |-> sent'[d]] /\ DOMAIN sent' = Clients
    <3>1. CASE Subscribe(c)
      BY <1>1, <3>1, SubscribeStep
    <3>2. CASE ~Subscribe(c)
      BY <1>1, <2>2, <3>2 DEF ClientStep, SseTasks, ReadStarts, ReadResumes, SseCloseJoins,
         SseCloseInner, SseCloseDone, SseReturns, SseReturnEvent, SseReturnFailure,
         SseReturnClosed, SseNext, SseCancelCaller, Disconnect, SseClose, Reconnect,
         ReadHighWater
    <3> QED BY <3>1, <3>2
  <2> QED BY <2>1, <2>2 DEF SseStep, InnerTasks, ClientStep, sseVars
<1>5. ASSUME NEW d \in Clients PROVE InLog(sent[d])'
  <2>1. /\ InLog(sent[d]) /\ sent[d] \in Receipt
    BY <1>1 DEF SseInv
  <2>2. CASE sent'[d] = sent[d]
    <3> DEFINE x == sent[d]
    <3>1. InLog(x) /\ x \in Receipt
      BY <2>1
    <3>2. PICK y \in Receipt : y = sent[d]
      BY <3>1
    <3>3. InLog(y)'
      BY <1>1, <3>1, <3>2, InLogStays
    <3> QED BY <2>2, <3>2, <3>3 DEF InLog
  <2>3. CASE sent'[d] # sent[d] /\ SseReturnEvent(d)
    <3>1. /\ sent'[d].seq = sent[d].seq + 1
          /\ sent'[d].run = sent[d].run /\ sent[d].run \in Runs
          /\ buffer' = buffer /\ buffer[sent[d].run].status = "live"
          /\ sent[d].seq + 1 <= Len(buffer[sent[d].run].events)
      BY <2>3, SendEffect
    <3> QED BY <3>1 DEF InLog
  <2>4. CASE /\ Opens(d, sse[d].run, sse[d].named) /\ sse[d].run \in Runs
             /\ sent'[d] = [run |-> sse[d].run, seq |-> sse[d].named]
    <3>1. sse[d].named \in Nat
      BY <1>1 DEF Request
    <3>2. SameLog(buffer'[sse[d].run], buffer[sse[d].run])
      BY <1>1, <2>4, <3>1, ReadersKeepLogs
    <3>3. /\ buffer[sse[d].run].status = "live"
          /\ sse[d].named <= Len(buffer[sse[d].run].events)
      BY <2>4 DEF Opens
    <3> QED BY <2>4, <3>2, <3>3 DEF InLog, SameLog
  <2> QED BY <2>2, <2>3, <2>4, ReceiptStep
<1>6. sse' \in [Clients -> Request] /\ sent' \in [Clients -> Receipt]
  BY <1>3, <1>4 DEF Linked
<1> QED BY <1>2, <1>3, <1>5, <1>6 DEF SseInv, Linked

LEMMA SseInvariant == SseSpec => []SseInv
BY SseInvInit, SseInvStep, PTL DEF SseSpec

\* The variables of the composition always have their types.
THEOREM SseTypesCorrect == SseSpec => []SseTypeOK
BY SseInvariant, SseInvTypes, PTL

\* Under the responses of the API, which nest a second read and close protocol
\* around the store's, the store keeps what it promises its own clients: exact
\* leases, whole logs, no reader asleep beside an event, nothing skipped.
THEOREM SseStoreSound == SseSpec => [](LogsSound /\ NothingSkipped /\ NoLostWakeup)
<1>1. SseInv => LogsSound /\ NothingSkipped
  BY DEF SseInv, StoreInv, PositionOK, LogsSound, AllInStep, InStep, NothingSkipped
<1>2. SseInit => NoLostWakeup
  BY DEF SseInit, Init, NoLostWakeup, NoStream
<1>3. SseInv /\ NoLostWakeup /\ [SseStep]_sseVars => NoLostWakeup'
  BY SseStepIsStoreStep, WakeupStep DEF SseInv, StoreInv
<1> QED BY <1>1, <1>2, <1>3, SseInvariant, PTL DEF SseSpec

\* A connection sends the events of its run one after the other, each while the
\* iterator is open and from a log that still holds it, for any number of
\* clients and however reads, cancellations and closes interleave.
THEOREM SentInOrderHolds == SseSpec => SentInOrder
<1>1. SseInv /\ [SseStep]_sseVars =>
        [\A c \in Clients : sent'[c] # sent[c] /\ sse[c].phase = "open" =>
           /\ sent'[c] = [sent[c] EXCEPT !.seq = @ + 1]
           /\ sse[c].close = "none"
           /\ sent'[c].seq <= Len(buffer[sent[c].run].events)]_sseVars
  <2> SUFFICES ASSUME SseInv, [SseStep]_sseVars, NEW c \in Clients,
                      sent'[c] # sent[c], sse[c].phase = "open"
               PROVE  /\ sent'[c] = [sent[c] EXCEPT !.seq = @ + 1]
                      /\ sse[c].close = "none"
                      /\ sent'[c].seq <= Len(buffer[sent[c].run].events)
    OBVIOUS
  <2>1. SseReturnEvent(c) /\ sent' # sent
    BY ReceiptStep
  <2>2. sent \in [Clients -> Receipt]
    BY DEF SseInv
  <2> QED BY <2>1, <2>2, SendEffect
<1> QED BY <1>1, SseInvariant, PTL DEF SseSpec, SentInOrder

\* A request is refused as ahead only by the two comparisons with the log.
LEMMA RefusedByComparison ==
  ASSUME SseInv, NEW c \in Clients, ClientStep(c), sse'[c].phase = "cursor_ahead"
  PROVE  Subscribe(c) \/ \E r \in Runs : ReadHighWater(c, r)
<1> DEFINE q == sse[c]
<1>1. /\ q \in Request /\ sse \in [Clients -> Request]
      /\ Links(q, stream[c], lastId[c], sent[c])
  BY Shape DEF SseInv
<1>2. CASE Reconnect(c)
  <2>1. sse'[c] = NoRequest
    BY <1>1, <1>2 DEF Reconnect
  <2> QED BY <2>1 DEF NoRequest
<1>3. CASE SseTasks(c)
  <2>1. q.phase = "open"
    BY <1>1, <1>3 DEF SseTasks, ReadStarts, ReadResumes, SseCloseJoins, SseCloseInner,
                      SseCloseDone, Links
  <2>2. sse'[c].phase = q.phase
    BY <1>1, <1>3 DEF SseTasks, ReadStarts, ReadResumes, SseCloseJoins, SseCloseInner,
                      SseCloseDone, Request
  <2> QED BY <2>1, <2>2
<1>4. CASE SseReturns(c) \/ SseNext(c) \/ SseCancelCaller(c) \/ Disconnect(c) \/ SseClose(c)
  <2>1. q.phase = "open"
    BY <1>1, <1>4 DEF SseReturns, SseReturnEvent, SseReturnFailure, SseReturnClosed, SseNext,
                      SseCancelCaller, Disconnect, SseClose, Links
  <2>2. sse'[c].phase = q.phase
    BY <1>1, <1>4 DEF SseReturns, SseReturnEvent, SseReturnFailure, SseReturnClosed, SseNext,
                      SseCancelCaller, Disconnect, SseClose, Request
  <2> QED BY <2>1, <2>2
<1> QED BY <1>2, <1>3, <1>4 DEF ClientStep

\* Whatever a client has been sent of a log that exists is in it.
LEMMA DeliveredInLog ==
  ASSUME SseInv, NEW c \in Clients, NEW r \in Runs, buffer[r].status = "live"
  PROVE  Delivered(c, r) \in Nat /\ Delivered(c, r) <= Len(buffer[r].events)
<1>1. Len(buffer[r].events) \in Nat /\ sent[c] \in Receipt /\ InLog(sent[c])
  BY Shape DEF SseInv, TypeOK, Buffer
<1> QED BY <1>1 DEF Delivered, InLog, Receipt

\* The client named more than it was sent.
AheadOf(q, x) == q.named > (IF x.run = q.run THEN x.seq ELSE 0)

LEMMA RefusalStep ==
  ASSUME SseInv, ResumptionHonoured, [SseStep]_sseVars
  PROVE  ResumptionHonoured'
<1> SUFFICES ASSUME NEW d \in Clients, sse'[d].phase = "cursor_ahead"
             PROVE  AheadOf(sse'[d], sent'[d])
  BY DEF ResumptionHonoured, Delivered, AheadOf
<1>1. /\ sse \in [Clients -> Request] /\ sent \in [Clients -> Receipt] /\ sse[d] \in Request
      /\ Links(sse[d], stream[d], lastId[d], sent[d])
  BY Shape DEF SseInv
<1>2. ASSUME sse'[d] = sse[d], sent'[d] = sent[d]
      PROVE  AheadOf(sse'[d], sent'[d])
  BY <1>2 DEF ResumptionHonoured, Delivered, AheadOf
<1>3. ASSUME Subscribe(d) PROVE AheadOf(sse'[d], sent'[d])
  <2>1. /\ UNCHANGED sent
        /\ sse' = [sse EXCEPT ![d].phase = "cursor_ahead"]
        /\ buffer[sse[d].run].status = "live"
        /\ sse[d].named > Len(buffer[sse[d].run].events)
    <3>1. sse' = [sse EXCEPT ![d].phase = "open"] => sse'[d].phase = "open"
      BY <1>1 DEF Request
    <3>2. sse' = [sse EXCEPT ![d].phase = "not_found"] => sse'[d].phase = "not_found"
      BY <1>1 DEF Request
    <3> QED BY <1>3, <3>1, <3>2, SubscribeStep
  <2>2. sse[d].run \in Runs
    BY <1>1, <1>3 DEF Subscribe, Links
  <2>3. sse'[d].named = sse[d].named /\ sse'[d].run = sse[d].run
    BY <1>1, <2>1 DEF Request
  <2>4. /\ Delivered(d, sse[d].run) \in Nat
        /\ Delivered(d, sse[d].run) <= Len(buffer[sse[d].run].events)
        /\ Len(buffer[sse[d].run].events) \in Nat /\ sse[d].named \in Nat
    BY <1>1, <2>1, <2>2, DeliveredInLog, Shape DEF TypeOK, Buffer, Request
  <2>5. sse'[d].named > Delivered(d, sse[d].run)
    BY <2>1, <2>3, <2>4
  <2> QED BY <2>1, <2>3, <2>5 DEF Delivered, AheadOf
<1>4. ASSUME NEW r \in Runs, ReadHighWater(d, r)
      PROVE  AheadOf(sse'[d], sent'[d])
  <2>1. sent' = sent
    BY <1>4 DEF ReadHighWater
  <2>2. PICK n \in {0, Delivered(d, r), Delivered(d, r) + 1} :
          /\ buffer[r].status = "live" /\ n > Len(buffer[r].events)
          /\ sse'[d].named = n /\ sse'[d].run = r
    <3>1. sse' # [sse EXCEPT ![d] = [NoRequest EXCEPT !.phase = "not_found", !.run = r]]
      BY <1>1 DEF NoRequest
    <3>2. sse' # [sse EXCEPT ![d] = [NoRequest EXCEPT !.phase = "bad_cursor", !.run = r]]
      BY <1>1 DEF NoRequest
    <3>3. ASSUME NEW n \in {0, Delivered(d, r), Delivered(d, r) + 1},
                 sse' = [sse EXCEPT ![d] = [NoRequest EXCEPT
                           !.run = r, !.named = n, !.mark = Len(buffer[r].events),
                           !.phase = IF n > Len(buffer[r].events)
                                     THEN "cursor_ahead" ELSE "marked"]]
          PROVE  n > Len(buffer[r].events) /\ sse'[d].named = n /\ sse'[d].run = r
      <4>1. sse'[d] = [NoRequest EXCEPT
                           !.run = r, !.named = n, !.mark = Len(buffer[r].events),
                           !.phase = IF n > Len(buffer[r].events)
                                     THEN "cursor_ahead" ELSE "marked"]
        BY <1>1, <3>3
      <4> QED BY <4>1 DEF NoRequest
    <3> QED BY <1>4, <3>1, <3>2, <3>3 DEF ReadHighWater
  <2>3. /\ Delivered(d, r) \in Nat /\ Delivered(d, r) <= Len(buffer[r].events)
        /\ Len(buffer[r].events) \in Nat
    BY <2>2, DeliveredInLog, Shape DEF TypeOK, Buffer
  <2>4. n > Delivered(d, r)
    BY <2>2, <2>3
  <2> QED BY <2>1, <2>2, <2>4 DEF Delivered, AheadOf
<1>5. ASSUME NEW c \in Clients, ClientStep(c)
      PROVE  AheadOf(sse'[d], sent'[d])
  <2>1. CASE c # d
    BY <1>2, <1>5, <2>1, OthersStay
  <2>2. CASE c = d
    BY <1>3, <1>4, <1>5, <2>2, RefusedByComparison
  <2> QED BY <2>1, <2>2
<1>6. CASE UNCHANGED <<sse, sent>>
  BY <1>2, <1>6
<1> QED BY <1>5, <1>6 DEF SseStep, InnerTasks, ClientStep, sseVars

\* A client that resumes after the last event it was sent is never refused as
\* ahead of the log, however the log grows or goes between the reading of the
\* high-water mark and the subscription.
THEOREM ResumptionAlwaysHonoured == SseSpec => []ResumptionHonoured
<1>1. SseInit => ResumptionHonoured
  BY DEF SseInit, NoRequest, ResumptionHonoured
<1>2. SseInv /\ ResumptionHonoured /\ [SseStep]_sseVars => ResumptionHonoured'
  BY RefusalStep
<1> QED BY <1>1, <1>2, SseInvariant, PTL DEF SseSpec
=============================================================================
