---------------------------- MODULE StreamSession ----------------------------
(***************************************************************************)
(* The controller of a session: PCM pushed by any thread, callbacks of the *)
(* user interface, and the timer callback, whose parts are the steps       *)
(* idle -> lines -> tick -> idle of the main thread.  Threads other than   *)
(* the main one only push PCM.                                             *)
(***************************************************************************)
EXTENDS SessionWorker

\* client.request raises when this is false.  The client may still say that
\* it runs after its process died.
CanRequest == client = "running" /\ process = "up"
Running == client = "running"

Send(method, operation) ==
  inbox' = Append(inbox, [method |-> method, operation |-> operation])

\* stream_chunk requests whose reply was not handled yet.
InFlight ==
  Cardinality({i \in DOMAIN inbox : inbox[i].method = "stream_chunk"})
  + Cardinality({i \in DOMAIN lines :
        lines[i].type = "reply" /\ lines[i].method = "stream_chunk"})

\* Fault: the buffer of the presentation is left as it is.
LeavePresentation == UNCHANGED live

\* LiveStreamController.stop
StopPresentation == live' = NoLive

\* _release_active_stream
ReleaseStream == stream' = NoStream /\ ingress' = NoIngress

\* Fault: a canceled Stream is forgotten at once.
CancelAndForget == Send("cancel", stream.id) /\ stream' = NoStream

\* _request_stream_cancel
CancelStream ==
  /\ Send("cancel", stream.id)
  /\ stream' = [stream EXCEPT !.stopRequested = TRUE]

\* client.begin_shutdown
BeginShutdown ==
  IF process # "up" THEN client' = "gone" /\ UNCHANGED inbox
  ELSE IF client = "stopping" THEN UNCHANGED <<client, inbox>>
  ELSE Send("shutdown", None) /\ client' = "stopping"

\* _reject_worker_contract
Reject ==
  /\ rejected' = TRUE /\ expected' = TRUE /\ loaded' = FALSE
  /\ ReleaseStream /\ StopPresentation
  /\ track' = NoTrack /\ status' = "error"
  /\ BeginShutdown
  /\ UNCHANGED <<operations, heard>>

\* _fail_stream of the active stream: the first error of a Stream is kept.
FailStream(cancelWorker) ==
  IF cancelWorker /\ ~stream.stopRequested /\ ~CanRequest THEN Reject
  ELSE /\ IF ~cancelWorker THEN stream' = NoStream /\ UNCHANGED inbox
          ELSE IF stream.stopRequested THEN UNCHANGED <<stream, inbox>>
          ELSE CancelStream
       /\ StopPresentation
       /\ ingress' = NoIngress
       /\ status' = "error"
       /\ UNCHANGED <<track, loaded, expected, rejected, client, operations,
                      heard>>

\* _ensure_selected_track without an operation.
EnsureTrack(input, otherwise) ==
  IF input # "SELECTED" \/ ~Running \/ ~loaded \/ operations = MaxOperations
  THEN track' = NoTrack /\ status' = otherwise /\ UNCHANGED <<operations, inbox>>
  ELSE IF ~CanRequest
  THEN track' = NoTrack /\ status' = "error" /\ UNCHANGED <<operations, inbox>>
  ELSE /\ operations' = operations + 1
       /\ track' = [NoTrack EXCEPT !.id = operations']
       /\ Send("track_start", operations')
       /\ status' = "ready"

CanCancelTrack == track.cancelRequested \/ CanRequest

\* _cancel_selected_track, when it does not raise.
CancelTrack(restart) ==
  IF track.cancelRequested
  THEN track' = [track EXCEPT !.restart = @ \/ restart] /\ UNCHANGED inbox
  ELSE /\ Send("cancel", track.id)
       /\ track' = [track EXCEPT !.cancelRequested = TRUE, !.restart = restart]

\* _fail_selected_track: the cancel does not restart the same input.
FailTrack ==
  /\ status' = "error"
  /\ IF CanCancelTrack
     THEN /\ track' = [track EXCEPT !.cancelRequested = TRUE, !.restart = FALSE]
          /\ IF track.cancelRequested THEN UNCHANGED inbox
             ELSE Send("cancel", track.id)
     ELSE track' = NoTrack /\ UNCHANGED inbox
  /\ UNCHANGED <<ingress, stream, live, loaded, expected, rejected, client,
                 operations, heard>>

\* Fault: a Stream that is over does not make room for the next operation.
KeepStream ==
  /\ StopPresentation
  /\ UNCHANGED <<stream, ingress, track, operations, inbox, status, loaded,
                 expected, rejected, client, heard>>

\* A Stream whose scene is there is over: the model is ready again, and the
\* Selected Channel is uploaded if it was chosen meanwhile.
StreamIsOver ==
  /\ ReleaseStream /\ StopPresentation
  /\ IF ~expected /\ Running /\ status \in StreamStatuses
     THEN EnsureTrack(mode, "ready")
     ELSE UNCHANGED <<track, operations, inbox, status>>
  /\ UNCHANGED <<loaded, expected, rejected, client, heard>>

\* _finish_stream_presentation, called by the presentation that just stopped.
PresentationStopped(failed) ==
  IF ~available
  THEN /\ ReleaseStream /\ StopPresentation
       /\ UNCHANGED <<status, track, loaded, expected, rejected, client, inbox,
                      operations, heard>>
  ELSE IF failed THEN FailStream(~stream.workerEnded)
  ELSE StreamIsOver
-----------------------------------------------------------------------------
\* Any thread.
PcmUnchanged ==
  UNCHANGED <<pc, batch, sceneVars, status, stream, live, track, loaded,
              expected, rejected, client, inbox, operations, heard, lines,
              workerVars, disturbed>>

\* queue_pcm_audio
PushChunk ==
  /\ loaded /\ pushed < MaxChunks
  /\ ~ingress.ending
  /\ Len(ingress.chunks) + InFlight < Capacity
  /\ pushed' = pushed + 1
  /\ ingress' = [ingress EXCEPT !.open = TRUE,
                                !.chunks = Append(@, pushed')]
  /\ PcmUnchanged

\* finish_pcm_audio
FinishPcm ==
  /\ ingress.open /\ ~ingress.ending
  /\ ingress' = [ingress EXCEPT !.ending = TRUE]
  /\ PcmUnchanged
  /\ UNCHANGED pushed
-----------------------------------------------------------------------------
\* Callbacks of the user interface, between two timer callbacks.
Callback ==
  /\ pc = "idle" /\ available
  /\ UNCHANGED <<pc, batch, available, pushed, lines, workerVars>>

SceneRemoved ==
  /\ Disturbs("removal") /\ pc = "idle" /\ available
  /\ available' = FALSE
  /\ UNCHANGED <<pc, batch, mode, sessionVars, pushed, lines, workerVars>>

\* input_mode_changed: a running Stream or track is canceled first, and the
\* track of the new mode started when its place is free.
InputModeChanged ==
  /\ Callback /\ Disturbs("mode")
  /\ mode' = IF mode = "STREAM" THEN "SELECTED" ELSE "STREAM"
  /\ \/ /\ stream.id # None /\ ~stream.stopRequested
        /\ IF CanRequest
           THEN /\ CancelStream /\ StopPresentation /\ ingress' = NoIngress
                /\ status' = IF status \in StreamStatuses THEN "ending"
                             ELSE status
           ELSE status' = "error" /\ UNCHANGED <<inbox, stream, live, ingress>>
        /\ UNCHANGED <<track, operations>>
     \/ /\ stream.stopRequested
        /\ ingress' = NoIngress
        /\ UNCHANGED <<stream, live, track, status, inbox, operations>>
     \/ /\ track.id # None
        /\ IF CanCancelTrack
           THEN /\ CancelTrack(mode' = "SELECTED")
                /\ ingress' = NoIngress /\ status' = "ready"
           ELSE status' = "error" /\ UNCHANGED <<track, inbox, ingress>>
        /\ UNCHANGED <<stream, live, operations>>
     \/ /\ stream.id = None /\ track.id = None
        /\ ingress' = NoIngress
        /\ EnsureTrack(mode', status)
        /\ UNCHANGED <<stream, live>>
  /\ UNCHANGED <<loaded, expected, rejected, client, heard>>

\* refresh_inference_settings in STREAM mode.
SettingsEdited ==
  /\ Callback /\ Disturbs("edit")
  /\ ~expected /\ mode = "STREAM"
  /\ stream.id # None
  /\ ~stream.endSent /\ ~stream.stopRequested /\ ~stream.workerEnded
  /\ IF CanRequest
     THEN /\ Send("stream_settings", stream.id)
          /\ UNCHANGED <<status, ingress, stream, live, track, loaded,
                         expected, rejected, client, operations, heard>>
     ELSE FailStream(TRUE)
  /\ UNCHANGED mode

\* stop
StopWorker ==
  /\ Callback /\ Disturbs("stop")
  /\ StopPresentation
  /\ \/ /\ client = "gone"
        /\ loaded' = FALSE
        /\ stream' = NoStream /\ track' = NoTrack
        /\ ingress' = IF stream.id = None THEN ingress ELSE NoIngress
        /\ status' = "idle"
        /\ UNCHANGED <<expected, client, inbox>>
     \/ /\ client = "stopping"
        /\ status' = "stopping"
        /\ UNCHANGED <<loaded, stream, track, ingress, expected, client, inbox>>
     \/ /\ client = "running"
        /\ stream' = [stream EXCEPT !.stopRequested = stream.id # None]
        /\ expected' = TRUE
        /\ BeginShutdown
        /\ status' = "stopping"
        /\ UNCHANGED <<loaded, track, ingress>>
  /\ UNCHANGED <<mode, rejected, operations, heard>>
-----------------------------------------------------------------------------
\* The timer callback: poll, then the presentation's tick.
TimerUnchanged == UNCHANGED <<sceneVars, pushed, workerVars>>

\* _cancel_orphaned_operation and _poll_pcm_ingress without a scene: the
\* operation is canceled and buffered PCM dropped.
CancelOrphans ==
  IF track.id # None /\ ~CanCancelTrack THEN Reject
  ELSE IF /\ stream.id # None /\ ~stream.workerEnded /\ ~stream.stopRequested
          /\ ~CanRequest
  THEN Reject
  ELSE /\ ingress' = NoIngress /\ StopPresentation
       /\ IF track.id # None THEN CancelTrack(FALSE) /\ UNCHANGED stream
          ELSE IF stream.workerEnded
          THEN stream' = NoStream /\ UNCHANGED <<track, inbox>>
          ELSE IF stream.id # None /\ ~stream.stopRequested
          THEN CancelStream /\ UNCHANGED track
          ELSE UNCHANGED <<stream, track, inbox>>
       /\ UNCHANGED <<status, loaded, expected, rejected, client, operations,
                      heard>>

TrackInTheWay == track.id # None

\* _submit_stream_start
StartStream ==
  /\ operations' = operations + 1
  /\ Send("stream_start", operations')
  /\ stream' = [NoStream EXCEPT !.id = operations', !.credit = TRUE]
  /\ live' = [NoLive EXCEPT !.id = operations']
  /\ status' = "starting"
  /\ UNCHANGED <<ingress, track, loaded, expected, rejected, client, heard>>

\* The first chunk of a source opens the Stream, after a track is canceled.
OpenStream ==
  IF ~CanRequest
  THEN /\ ingress' = NoIngress /\ status' = "error"
       /\ UNCHANGED <<stream, live, track, loaded, expected, rejected, client,
                      inbox, operations, heard>>
  ELSE IF TrackInTheWay
  THEN /\ CancelTrack(FALSE)
       /\ UNCHANGED <<status, ingress, stream, live, loaded, expected,
                      rejected, client, operations, heard>>
  ELSE IF operations = MaxOperations THEN UNCHANGED sessionVars
  ELSE StartStream

\* Fault: the credit of a chunk is not spent.
CreditIsKept == stream.credit

\* chunk_credit.clear()
CreditLeft == FALSE

\* Fault: the chunk stays in the buffer.
PeekChunk == ingress.chunks

\* chunks.popleft()
RestOfChunks == Tail(ingress.chunks)

\* _send_stream_audio
SendChunk ==
  IF CanRequest
  THEN /\ Send("stream_chunk", stream.id)
       /\ heard' = [heard EXCEPT ![stream.id] =
                      Append(@, Head(ingress.chunks))]
       /\ ingress' = [ingress EXCEPT !.chunks = RestOfChunks]
       /\ stream' = [stream EXCEPT !.credit = CreditLeft]
       /\ UNCHANGED <<status, live, track, loaded, expected, rejected, client,
                      operations>>
  ELSE FailStream(TRUE)

\* _queue_stream_end
SendEnd ==
  IF CanRequest
  THEN /\ Send("stream_end", stream.id)
       /\ stream' = [stream EXCEPT !.endSent = TRUE]
       /\ status' = IF status \in StreamStatuses THEN "ending" ELSE status
       /\ UNCHANGED <<ingress, live, track, loaded, expected, rejected, client,
                      operations, heard>>
  ELSE FailStream(TRUE)

ShouldEnd == ingress.chunks = <<>> /\ ingress.ending /\ ~stream.endSent

\* _poll_pcm_ingress with a scene.
ServeIngress ==
  IF ~ingress.open THEN UNCHANGED sessionVars
  ELSE IF mode # "STREAM"
  THEN /\ ingress' = NoIngress
       /\ UNCHANGED <<status, stream, live, track, loaded, expected, rejected,
                      client, inbox, operations, heard>>
  ELSE IF stream.id = None THEN OpenStream
  ELSE IF stream.stopRequested \/ ~stream.ready \/ ~stream.credit
  THEN UNCHANGED sessionVars
  ELSE IF ShouldEnd THEN SendEnd
  ELSE IF ingress.chunks # <<>> THEN SendChunk
  ELSE UNCHANGED sessionVars

\* poll up to client.poll(), which takes the lines there are.
PollBegins ==
  /\ pc = "idle" /\ pc' = "lines"
  /\ batch' = Len(lines)
  /\ IF available THEN ServeIngress ELSE CancelOrphans
  /\ TimerUnchanged
  /\ UNCHANGED <<lines, disturbed>>

\* The second _poll_pcm_ingress, once they are handled.
PollEnds ==
  /\ pc = "lines" /\ batch = 0 /\ pc' = "tick"
  /\ IF available THEN ServeIngress
     ELSE /\ ingress' = NoIngress
          /\ UNCHANGED <<status, stream, live, track, loaded, expected,
                         rejected, client, inbox, operations, heard>>
  /\ TimerUnchanged
  /\ UNCHANGED <<batch, lines, disturbed>>
-----------------------------------------------------------------------------
\* _handle_response.  The first chunk stands for the upload of a track; its
\* renders do not matter here.
ReplyIsOk(line) ==
  IF line.method = "stream_start" /\ stream.id = line.operation /\ available
  THEN /\ stream' = [stream EXCEPT !.ready = TRUE]
       /\ status' = IF ~stream.stopRequested /\ status = "starting"
                    THEN "streaming" ELSE status
       /\ UNCHANGED <<ingress, live, track, loaded, expected, rejected, client,
                      inbox, operations, heard>>
  ELSE IF line.method = "track_start" /\ track.id = line.operation
          /\ available /\ ~track.cancelRequested
  THEN IF CanRequest
       THEN /\ Send("track_chunk", track.id)
            /\ UNCHANGED <<status, ingress, stream, live, track, loaded,
                           expected, rejected, client, operations, heard>>
       ELSE FailTrack
  ELSE UNCHANGED sessionVars

\* _handle_error.  A cancel is refused with operation_not_found only.
ReplyIsError(line) ==
  IF track.id = line.operation THEN
    IF ~available
    THEN IF line.method = "cancel" THEN UNCHANGED sessionVars ELSE Reject
    ELSE IF track.cancelRequested THEN UNCHANGED sessionVars
    ELSE FailTrack
  ELSE IF stream.id = line.operation THEN
    IF ~available THEN UNCHANGED sessionVars
    ELSE IF stream.stopRequested /\ line.code = "operation_not_found"
    THEN UNCHANGED sessionVars
    ELSE FailStream(line.method # "cancel")
  ELSE UNCHANGED sessionVars

\* _complete_selected_track_cancel
TrackEnded ==
  /\ IF ~available \/ ~Running
     THEN track' = NoTrack /\ UNCHANGED <<status, inbox, operations>>
     ELSE IF track.restart /\ status = "ready" THEN EnsureTrack(mode, "ready")
     ELSE /\ track' = NoTrack
          /\ status' = IF status = "error" THEN status ELSE "ready"
          /\ UNCHANGED <<inbox, operations>>
  /\ UNCHANGED <<ingress, stream, live, loaded, expected, rejected, client,
                 heard>>

TrackFailed ==
  /\ track' = NoTrack
  /\ status' = "error"
  /\ UNCHANGED <<ingress, stream, live, loaded, expected, rejected, client,
                 inbox, operations, heard>>

\* An event after expected_worker_exit, or of a scene that is gone, only
\* releases its operation.
Release(line) ==
  IF line.name \notin {"stream_ended", "track_ended", "error"}
  THEN UNCHANGED sessionVars
  ELSE /\ track' = IF track.id = line.operation THEN NoTrack ELSE track
       /\ IF stream.id = line.operation THEN ReleaseStream /\ StopPresentation
          ELSE UNCHANGED <<stream, ingress, live>>
       /\ UNCHANGED <<status, loaded, expected, rejected, client, inbox,
                      operations, heard>>

\* A Stream's end begins the tail, which is over at once if nothing is left.
StreamEnded ==
  IF stream.stopRequested THEN StreamIsOver
  ELSE \/ PresentationStopped(FALSE)
       \/ /\ live.frames
          /\ stream' = [stream EXCEPT !.workerEnded = TRUE]
          /\ live' = [live EXCEPT !.terminal = TRUE]
          /\ status' = IF ~expected /\ Running /\ status \in StreamStatuses
                       THEN "ending" ELSE status
          /\ UNCHANGED <<ingress, track, loaded, expected, rejected, client,
                         inbox, operations, heard>>

\* Its handling when the presentation does not know the operation.
StreamUnknown(name) ==
  IF name = "stream_frame" THEN Reject
  ELSE /\ ReleaseStream
       /\ status' = "error"
       /\ UNCHANGED <<live, track, loaded, expected, rejected, client, inbox,
                      operations, heard>>

StreamEvent(name) ==
  IF /\ name \in {"stream_frame", "stream_ended"}
     /\ ~stream.stopRequested /\ live.id # stream.id
  THEN StreamUnknown(name)
  ELSE IF name = "error" THEN FailStream(FALSE)
  ELSE IF name = "stream_ended" THEN StreamEnded
  ELSE /\ stream' = [stream EXCEPT
            !.credit = @ \/ (name = "stream_credit" /\ ~stream.stopRequested)]
       /\ live' = [live EXCEPT
            !.frames = @ \/ (name = "stream_frame" /\ ~stream.stopRequested)]
       /\ UNCHANGED <<status, ingress, track, loaded, expected, rejected,
                      client, inbox, operations, heard>>

\* _handle_event
Event(line) ==
  IF expected THEN Release(line)
  ELSE IF line.operation \notin {track.id, stream.id} THEN Reject
  ELSE IF ~available THEN Release(line)
  ELSE IF line.name = "track_ended" THEN TrackEnded
  ELSE IF line.operation = track.id THEN TrackFailed
  ELSE StreamEvent(line.name)

\* ProcessExited
Exit(clean) ==
  /\ ReleaseStream /\ StopPresentation /\ track' = NoTrack
  /\ inbox' = <<>>
  /\ loaded' = FALSE /\ expected' = FALSE
  /\ status' = IF ~rejected /\ expected /\ clean /\ status # "error"
               THEN "idle" ELSE "error"
  /\ UNCHANGED <<rejected, client, operations, heard>>

\* _handle_control and the exit, for the next event of the batch.
HandleLine ==
  /\ pc = "lines" /\ batch > 0
  /\ batch' = batch - 1
  /\ lines' = Tail(lines)
  /\ LET line == Head(lines) IN
     IF line.type = "exited" THEN Exit(line.clean)
     ELSE IF rejected THEN UNCHANGED sessionVars
     ELSE IF line.type = "event" THEN Event(line)
     ELSE IF expected /\ line.method # "shutdown" THEN UNCHANGED sessionVars
     ELSE IF line.code = "ok" THEN ReplyIsOk(line)
     ELSE ReplyIsError(line)
  /\ TimerUnchanged
  /\ UNCHANGED <<pc, disturbed>>

\* The first frame of a Stream is presented at once, and may fail.
FirstFrameFails ==
  /\ pc = "lines" /\ batch > 0
  /\ Head(lines).type = "event" /\ Head(lines).name = "stream_frame"
  /\ ~expected /\ ~rejected /\ available
  /\ Head(lines).operation = live.id /\ ~live.frames
  /\ Disturbs("failure")
  /\ batch' = batch - 1
  /\ lines' = Tail(lines)
  /\ PresentationStopped(TRUE)
  /\ TimerUnchanged
  /\ UNCHANGED pc
-----------------------------------------------------------------------------
Tick ==
  /\ pc = "tick" /\ pc' = "idle"
  /\ TimerUnchanged
  /\ UNCHANGED <<batch, lines>>

\* The clock has not passed the last frame of the tail.
PresentationGoesOn ==
  /\ Tick
  /\ live.id = None \/ available
  /\ UNCHANGED <<sessionVars, disturbed>>

PresentationEnds ==
  /\ Tick
  /\ live.id # None
  /\ ~available \/ (live.frames /\ live.terminal)
  /\ PresentationStopped(FALSE)
  /\ UNCHANGED disturbed

\* Presenting a frame on the meshes raises.
PresentationFails ==
  /\ Tick
  /\ live.frames /\ available
  /\ Disturbs("failure")
  /\ PresentationStopped(TRUE)

Timer ==
  \/ PollBegins
  \/ PollEnds
  \/ HandleLine
  \/ FirstFrameFails
  \/ PresentationGoesOn
  \/ PresentationEnds
  \/ PresentationFails

Next ==
  \/ PushChunk
  \/ FinishPcm
  \/ SceneRemoved
  \/ InputModeChanged
  \/ SettingsEdited
  \/ StopWorker
  \/ Timer
  \/ WorkerRuns
  \/ WorkerDies

Spec == Init /\ [][Next]_vars

\* Blender's timer fires, the worker and the watch thread run, and the
\* presentation's clock reaches the last frame of a tail.  Users, sources and
\* failures promise nothing.
FairSpec ==
  /\ Spec
  /\ WF_vars(Timer) /\ SF_vars(PresentationEnds) /\ WF_vars(WorkerRuns)
=============================================================================
