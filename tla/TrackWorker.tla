----------------------------- MODULE TrackWorker -----------------------------
(***************************************************************************)
(* The worker of a Selected Channel session as its client sees it: the     *)
(* handshake, the model and the track operation of WorkerServer, reduced   *)
(* to the order of its reads and writes, and the process itself.           *)
(***************************************************************************)
EXTENDS TrackState

NoLine == [type |-> "reply", method |-> "cancel", code |-> "ok",
           operation |-> None, revision |-> None, offset |-> 0,
           preview |-> Outside, rows |-> {}]

Reply(request, code) ==
  [NoLine EXCEPT !.method = request.method, !.code = code,
                 !.operation = request.operation,
                 !.revision = request.revision]

Event(type) ==
  [NoLine EXCEPT !.type = type, !.operation = serving.id,
                 !.revision = serving.job.revision,
                 !.rows = {[source |-> serving.source,
                            timeline |-> serving.job.timeline]}]

Says(line) == lines' = Append(lines, line)

Runs(operation) ==
  serving.id = operation /\ serving.phase = "running" /\ ~serving.canceled

Request == Head(session.inbox)

WorkerReads(method) ==
  /\ process = "up" /\ session.inbox # <<>> /\ Request.method = method
  /\ session' = [session EXCEPT !.inbox = Tail(@)]
  /\ UNCHANGED <<pc, batch, scene>>

\* hello and load_model.  A model may fail to load.
WorkerPrepares(method) ==
  /\ WorkerReads(method)
  /\ \/ Says(Reply(Request, "ok")) /\ UNCHANGED disturbed
     \/ /\ method = "load_model" /\ Disturbs("failure")
        /\ Says(Reply(Request, "failed"))
  /\ UNCHANGED <<serving, process>>

\* A track whose terminal event is written but that is not reset yet still
\* makes the worker busy, and the executors of a new one may fail.
WorkerStarts ==
  /\ WorkerReads("track_start")
  /\ \/ /\ serving.id # None
        /\ Says(Reply(Request, "busy"))
        /\ UNCHANGED <<serving, disturbed>>
     \/ /\ serving.id = None /\ Disturbs("failure")
        /\ Says(Reply(Request, "failed"))
        /\ UNCHANGED serving
     \/ /\ serving.id = None
        /\ Says(Reply(Request, "ok"))
        /\ serving' = [Idle EXCEPT !.id = Request.operation,
                                   !.phase = "running"]
        /\ UNCHANGED disturbed
  /\ UNCHANGED process

\* The requests of the operation; chunks and the end of the upload wait for
\* its thread.
WorkerTakes(method, accepted, answers) ==
  /\ WorkerReads(method)
  /\ IF Runs(Request.operation)
     THEN serving' = accepted /\ lines' = lines \o answers
     ELSE Says(Reply(Request, "operation_not_found")) /\ UNCHANGED serving
  /\ UNCHANGED <<process, disturbed>>

\* A newer revision answers the renders that wait.
WorkerRenders ==
  WorkerTakes("track_render",
              [serving EXCEPT !.latest = Request.revision,
                              !.queue = <<Request>>],
              [i \in DOMAIN serving.queue |->
                 Reply(serving.queue[i], "superseded")])

ThreadUnchanged == UNCHANGED <<pc, batch, scene, session, process, disturbed>>
ThreadRuns == process = "up" /\ Runs(serving.id)

Working == serving.job # NoRequest

\* The operation thread takes the next request and answers all but a render.
WorkerWorks ==
  /\ ThreadRuns /\ ~Working /\ serving.queue # <<>>
  /\ LET request == Head(serving.queue) IN
     IF request.method = "track_render"
     THEN /\ serving' = [serving EXCEPT !.queue = Tail(@), !.job = request,
                                        !.sent = 0, !.previewed = FALSE]
          /\ UNCHANGED lines
     ELSE /\ serving' = [serving EXCEPT !.queue = Tail(@),
                           !.source = IF request.method = "track_chunk"
                                      THEN request.source ELSE @]
          /\ Says(Reply(request, "ok"))
  /\ ThreadUnchanged

Superseded == serving.latest # serving.job.revision

WorkerPreviews ==
  /\ ThreadRuns /\ Working /\ ~Superseded
  /\ ~serving.previewed /\ serving.job.preview # Outside
  /\ Says([Event("track_preview") EXCEPT !.preview = serving.job.preview])
  /\ serving' = [serving EXCEPT !.previewed = TRUE]
  /\ ThreadUnchanged

WorkerSends ==
  /\ ThreadRuns /\ Working /\ ~Superseded
  /\ serving.previewed \/ serving.job.preview = Outside
  /\ serving.sent < Batches
  /\ Says([Event("track_frame_batch") EXCEPT !.offset = serving.sent])
  /\ serving' = [serving EXCEPT !.sent = @ + 1]
  /\ ThreadUnchanged

WorkerCompletes ==
  /\ ThreadRuns /\ Working
  /\ Superseded \/ serving.sent = Batches
  /\ Says(Reply(serving.job, IF Superseded THEN "superseded" ELSE "ok"))
  /\ serving' = [serving EXCEPT !.job = NoRequest]
  /\ ThreadUnchanged

\* A cancel, the shutdown or a failure ends the operation: the terminal event
\* is decided, ...
WorkerCommits ==
  /\ process = "up" /\ serving.phase = "running"
  /\ \/ serving.canceled /\ UNCHANGED disturbed
     \/ ~serving.canceled /\ Disturbs("failure")
  /\ serving' = [serving EXCEPT !.phase = "ending",
                   !.job = NoRequest,
                   !.queue = IF Working THEN <<serving.job>> \o @ ELSE @]
  /\ UNCHANGED <<pc, batch, scene, session, lines, process>>

\* ... the requests left are rejected, the terminal event is written, and the
\* worker is free again.
WorkerRejects ==
  /\ process = "up" /\ serving.phase = "ending" /\ serving.queue # <<>>
  /\ Says(Reply(Head(serving.queue),
                IF serving.canceled THEN "operation_not_found" ELSE "failed"))
  /\ serving' = [serving EXCEPT !.queue = Tail(@)]
  /\ ThreadUnchanged

WorkerEnds ==
  /\ process = "up" /\ serving.phase = "ending" /\ serving.queue = <<>>
  /\ Says([NoLine EXCEPT !.operation = serving.id,
             !.type = IF serving.canceled THEN "track_ended" ELSE "error"])
  /\ serving' = [serving EXCEPT !.phase = "finishing"]
  /\ ThreadUnchanged

WorkerFinishes ==
  /\ process = "up" /\ serving.phase = "finishing"
  /\ serving' = Idle
  /\ UNCHANGED lines
  /\ ThreadUnchanged

\* shutdown cancels the operation and joins it before it is answered.
WorkerStops ==
  /\ process = "up" /\ session.inbox # <<>> /\ Request.method = "shutdown"
  /\ serving.phase = "running" /\ ~serving.canceled
  /\ serving' = [serving EXCEPT !.canceled = TRUE]
  /\ UNCHANGED lines
  /\ ThreadUnchanged

WorkerExits ==
  /\ WorkerReads("shutdown") /\ serving = Idle
  /\ Says(Reply(Request, "ok"))
  /\ process' = "exited"
  /\ UNCHANGED <<serving, disturbed>>

\* The worker crashes, or is killed when it does not shut down in time.
WorkerDies ==
  /\ process = "up"
  /\ IF session.client = "stopping" THEN UNCHANGED disturbed
     ELSE Disturbs("failure")
  /\ process' = "crashed" /\ serving' = Idle
  /\ UNCHANGED <<pc, batch, scene, session, lines>>

\* The watch thread of the client: state first, then ProcessExited.
ExitReported ==
  /\ process \in {"exited", "crashed"}
  /\ process' = "none"
  /\ session' = [session EXCEPT !.client = "stopped", !.inbox = <<>>]
  /\ Says([NoLine EXCEPT !.type = "exited", !.code = process])
  /\ UNCHANGED <<pc, batch, scene, serving, disturbed>>

WorkerRuns ==
  \/ \E method \in {"hello", "load_model"} : WorkerPrepares(method)
  \/ WorkerStarts
  \/ \E method \in {"track_chunk", "track_prepare"} :
       WorkerTakes(method, [serving EXCEPT !.queue = Append(@, Request)], <<>>)
  \/ WorkerRenders
  \/ WorkerTakes("cancel", [serving EXCEPT !.canceled = TRUE],
                 <<Reply(Request, "ok")>>)
  \/ WorkerWorks
  \/ WorkerPreviews
  \/ WorkerSends
  \/ WorkerCompletes
  \/ serving.canceled /\ WorkerCommits
  \/ WorkerRejects
  \/ WorkerEnds
  \/ WorkerFinishes
  \/ WorkerStops
  \/ WorkerExits
  \/ ExitReported
=============================================================================
