------------------------- MODULE WorkerProperties -------------------------
(***************************************************************************)
(* What the worker's client relies on, read off the two byte streams: the  *)
(* requests received and the lines written to stdout.                      *)
(***************************************************************************)
EXTENDS WorkerServer, FiniteSetsExt

Written == DOMAIN stdout
Replies == {i \in Written : stdout[i].type = "reply"}
RepliesTo(id) == {i \in Replies : stdout[i].id = id}
Replied == {stdout[i].id : i \in Replies}
OperationEvents(o) ==
  {i \in Written : stdout[i].type = "event" /\ stdout[i].id = o}
TerminalsOf(o) ==
  {i \in OperationEvents(o) : stdout[i].name \in TerminalEvents}
EventsNamed(o, name) == {i \in OperationEvents(o) : stdout[i].name = name}
Accepted(id) == \E i \in RepliesTo(id) : stdout[i].name = "ok"

\* Read but neither answered nor left to the operation thread: the request the
\* main thread is working on.
InHand == IF pc \in {"respond", "displace", "join"} THEN {Len(received)} ELSE {}

\* ExactlyOneReply: every request line read is, at any moment, in exactly one
\* of three places: answered by exactly one reply, registered in
\* pending_operation_request_ids_, or in the main thread's hands.  No
\* interleaving of the deferred responses of the operation thread, of
\* displaced renders, of cancel and of the terminal rejection loses a request
\* or answers it twice.
ExactlyOneReply ==
  /\ Replied \cup pending \cup InHand = 1..Len(received)
  /\ pending \cap (Replied \cup InHand) = {} /\ Replied \cap InHand = {}
  /\ \A i, j \in Replies : stdout[i].id = stdout[j].id => i = j

\* TerminalIsLast: stream_ended, track_ended or error is written once per
\* operation and is the last thing said about it: no event, no successful
\* answer and no late rejection of a deferred request follows it, whichever of
\* the natural end, a failure and a cancel won the race.
Deferred == {"stream_settings", "track_chunk", "track_prepare", "track_render"}
TerminalIsLast ==
  \A o \in 1..operations : \A t \in TerminalsOf(o) :
    /\ operation = o => pending = {}
    /\ \A i \in Written : i > t =>
      /\ i \notin OperationEvents(o)
      /\ (i \in Replies /\ stdout[i].name \in {"ok", "superseded"})
           => LET r == received[stdout[i].id] IN
              ~(r.method \in Deferred /\ r.operation = o)

\* CancelWins: once cancel has been accepted the operation can only finish
\* with its ended event, never with error, even when the backend failed
\* first; the cancel is answered before that event, and no event and no
\* successful deferred answer for the operation comes between the two.
CancelWins ==
  /\ \A c \in InHand : received[c].method = "cancel" =>
       TerminalsOf(received[c].operation) = {}
  /\ \A c \in 1..Len(received) :
       (received[c].method = "cancel" /\ Accepted(c)) =>
         \A answer \in RepliesTo(c) : \A i \in Written : i > answer =>
           /\ i \in OperationEvents(received[c].operation)
                => stdout[i].name \in {"stream_ended", "track_ended"}
           /\ (i \in Replies /\ stdout[i].name = "ok")
                => LET r == received[stdout[i].id] IN
                   ~(r.method \in Deferred
                       /\ r.operation = received[c].operation)

\* CreditLedger: stream_credit is sent once per chunk taken off the queue and
\* only after that chunk's own response, so credits never exceed the chunks
\* answered and the difference, together with the chunk in the main thread's
\* hands, is what is still queued or about to be credited.
ChunksOf(o) == {id \in 1..Len(received) : received[id].method = "stream_chunk"
                                            /\ received[id].operation = o}
CreditLedger ==
  (kind = "stream") =>
    LET answered == {id \in ChunksOf(operation) : Accepted(id)}
        credits == EventsNamed(operation, "stream_credit")
        waiting == (queue \cap ChunksOf(operation))
                     \cup (IF thread \in {"settings", "acknowledge", "command"}
                           THEN {command} \cap ChunksOf(operation) ELSE {})
    IN  /\ Cardinality(credits) <= Cardinality(answered)
        /\ ~canceled /\ outcome = "none" =>
             Cardinality(credits) + Cardinality(waiting)
               = Cardinality(answered \cup (InHand \cap ChunksOf(operation)))

\* NewestSettingsApplied: an acknowledged settings document is never older
\* than the one the executors run with, and no older document replaces it:
\* coalescing keeps the newest one.
NewestSettingsApplied ==
  (kind = "stream" /\ outcome = "none") =>
    \A id \in 1..Len(received) :
      (received[id].method = "stream_settings"
         /\ received[id].operation = operation /\ Accepted(id)) => id <= applied

\* DrainedStreamIsComplete: a Stream that ended without a cancel ended because
\* of its own stream_end, after every accepted chunk was credited and every
\* accepted settings document acknowledged.
DrainedStreamIsComplete ==
  (kind = "stream" /\ outcome = "ended" /\ ~canceled) =>
    /\ \E id \in 1..Len(received) :
         received[id].method = "stream_end" /\ received[id].operation = operation
           /\ Accepted(id)
    /\ queue = {} /\ pending = {}
    /\ Cardinality(EventsNamed(operation, "stream_credit"))
         = Cardinality({id \in ChunksOf(operation) : Accepted(id)})

\* QueueBounded: queued PCM stays within the four seconds of a Stream and the
\* two maximum blocks of a track, and the counter that says so is the sum over
\* the queue, so the unsigned subtraction of the admission test cannot wrap.
SamplesOf(ids) == MapThenSumSet(LAMBDA id : received[id].samples, ids)
QueueBounded ==
  /\ queuedSamples <= IF kind = "track" THEN TrackCapacity ELSE StreamCapacity
  /\ queuedSamples = SamplesOf(queue)

\* StreamContract: what a Stream owes its client of its audio and settings.
StreamContract ==
  /\ CreditLedger
  /\ NewestSettingsApplied
  /\ DrainedStreamIsComplete
  /\ QueueBounded

\* IdleIsReleased: with no current operation nothing of the last one is left:
\* a start never finds a queued command, a pending id, a stale latest
\* revision, an active backend or a live thread.
IdleIsReleased ==
  operation = 0 =>
    /\ kind = "none" /\ ~committed /\ cancelSignal = 0 /\ pending = {}
    /\ queue = {} /\ queuedSamples = 0 /\ ~endQueued /\ phase = "none"
    /\ latest = 0 /\ backend = "none" /\ audio = 0
    /\ thread \in {"none", "exited"}

\* CompleteBeforePublication: a render answered "not superseded" was preceded
\* by its whole cache, in order and once, and by its preview when it asked for
\* one; the answer is the publication barrier, nothing of it follows.
BatchOffsets == {n * BatchRows : n \in 0..((TrackRows - 1) \div BatchRows)}
CompleteBeforePublication ==
  \A i \in Replies :
    LET id == stdout[i].id
        r == received[id]
        Of(name) == {j \in EventsNamed(r.operation, name) :
                       stdout[j].revision = r.revision}
    IN  (r.method = "track_render" /\ stdout[i].name = "ok") =>
          /\ {stdout[j].offset : j \in Of("track_frame_batch")} = BatchOffsets
          /\ \A j, k \in Of("track_frame_batch") :
               j < k => stdout[j].offset < stdout[k].offset
          /\ Cardinality(Of("track_preview")) = IF r.preview = 0 THEN 0 ELSE 1
          /\ \A j \in Of("track_preview"), k \in Of("track_frame_batch") :
               j < k /\ k < i

\* NewestRevisionOnly: what a track says of its renders never goes back: once
\* a revision was previewed, batched, completed or displaced, no event and no
\* completion of an older revision is written, although the operation thread
\* may be anywhere in the older render when the newer request is accepted.
RenderReplies(o, codes) ==
  {i \in Replies : /\ received[stdout[i].id].method = "track_render"
                   /\ received[stdout[i].id].operation = o
                   /\ stdout[i].name \in codes}
Progress(o) ==
  EventsNamed(o, "track_preview") \cup EventsNamed(o, "track_frame_batch")
    \cup RenderReplies(o, {"ok"})
NewestRevisionOnly ==
  \A o \in 1..operations :
    \A i \in Progress(o) \cup RenderReplies(o, {"superseded"}) :
      \A j \in Progress(o) : i < j => stdout[i].revision <= stdout[j].revision

\* SupersededForAReason: a render is answered "superseded" only when another
\* accepted render of the same track carries a revision at least as new.
SupersededForAReason ==
  \A i \in Replies : stdout[i].name = "superseded" =>
    LET id == stdout[i].id
        r == received[id]
    IN  \E other \in 1..Len(received) :
          /\ other # id
          /\ received[other].method = "track_render"
          /\ received[other].operation = r.operation
          /\ received[other].revision >= r.revision
          /\ \A j \in RepliesTo(other) :
               stdout[j].name \in {"ok", "superseded", "failed",
                                   "operation_not_found"}
\* TrackContract: what a Selected track owes its client of its renders, and of
\* its end.
TrackContract ==
  /\ CompleteBeforePublication
  /\ NewestRevisionOnly
  /\ SupersededForAReason
  /\ QueueBounded /\ TerminalIsLast /\ CancelWins
-----------------------------------------------------------------------------
\* RequestsAreAnswered: a request whose answer was left to the operation
\* thread is eventually answered, by the operation or by its end.  A client
\* sends finitely many, so each is answered if none is left again and again.
RequestsAreAnswered == []<>(pending = {})

\* AcceptedCancelEnds: an accepted cancel is followed by the terminal event of
\* its operation and leaves the worker ready for the next one.
AcceptedCancelEnds ==
  \A o \in 1..MaxOperations :
    (operation = o /\ cancelSignal # 0) ~> (TerminalsOf(o) # {} /\ operation # o)

\* LatestRenderSettles: the newest accepted revision is answered or dropped
\* with its track: it never waits for an unrelated request to wake the
\* operation thread.
LatestRenderSettles ==
  (latest # 0) ~> \/ latest = 0
                  \/ \E i \in Replies : /\ stdout[i].revision = latest
                                        /\ stdout[i].name = "ok"
                                        /\ received[stdout[i].id].operation
                                             = operation

\* ShutdownCompletes (docs/protocol.md: "`shutdown` takes and returns `{}`,
\* stops and joins any operation, and exits."): a shutdown request is answered
\* and the worker exits.
ShutdownCompletes == (pc = "join") ~> (pc = "exited")
=============================================================================
