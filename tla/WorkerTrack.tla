---------------------------- MODULE WorkerTrack ----------------------------
(***************************************************************************)
(* The persistent Selected track of the worker: the handlers of            *)
(* track_chunk, track_prepare and track_render, run by the main thread,    *)
(* and track_loop with the backend's track_render, run by the operation    *)
(* thread.                                                                 *)
(***************************************************************************)
EXTENDS WorkerState

TrackMethods == {"track_chunk", "track_prepare", "track_render"}

\* require_track_locked
TrackActive(id) ==
  operation = id /\ kind = "track" /\ ~canceled /\ ~committed

\* The queue holds at most two maximum blocks.
TrackRoom(samples) == samples <= TrackCapacity - queuedSamples

\* The code a track request is refused with, "ok" when it is accepted.
TrackRefusal(r) ==
  IF ~TrackActive(r.operation) THEN "operation_not_found"
  ELSE IF phase # IF r.method = "track_render" THEN "prepared" ELSE "uploading"
  THEN "invalid_state"
  ELSE IF r.method = "track_chunk" /\ ~TrackRoom(r.samples) THEN "backpressure"
  ELSE "ok"

RefuseTrackRequest(r) ==
  /\ negotiated /\ MutexFree
  /\ r.method \in TrackMethods
  /\ Reads(r)
  /\ TrackRefusal(r) # "ok"
  /\ Refuse(TrackRefusal(r))

TrackChunk(r) ==
  /\ negotiated /\ MutexFree
  /\ r.method = "track_chunk"
  /\ Reads(r)
  /\ TrackRefusal(r) = "ok"
  /\ Push
  /\ Count(r.samples)
  /\ pending' = pending \cup {NewId}
  /\ UNCHANGED <<pc, stdout, negotiated, loaded, operations, operation, kind,
                 canceled, committed, cancelSignal, endQueued, phase, latest,
                 backendVars, localVars>>

TrackPrepare(r) ==
  /\ negotiated /\ MutexFree
  /\ r.method = "track_prepare"
  /\ Reads(r)
  /\ TrackRefusal(r) = "ok"
  /\ phase' = "preparing"
  /\ Push
  /\ pending' = pending \cup {NewId}
  /\ UNCHANGED <<pc, stdout, negotiated, loaded, operations, operation, kind,
                 canceled, committed, cancelSignal, queuedSamples, endQueued,
                 latest, backendVars, localVars>>

Stale(r) == r.revision <= latest

\* A revision that is not newer than the latest one is answered at once.
TrackRenderStale(r) ==
  /\ negotiated /\ MutexFree
  /\ r.method = "track_render"
  /\ Reads(r)
  /\ TrackRefusal(r) = "ok"
  /\ Stale(r)
  /\ Emit(ReplyLine(NewId, "superseded", r.revision))
  /\ UNCHANGED <<pc, negotiated, loaded, operations, sharedVars, backendVars,
                 thread, localVars>>

\* A newer one becomes the latest, and the lock is kept while ...
TrackRenderNewer(r) ==
  /\ negotiated /\ MutexFree
  /\ r.method = "track_render"
  /\ Reads(r)
  /\ TrackRefusal(r) = "ok"
  /\ ~Stale(r)
  /\ latest' = r.revision
  /\ pc' = "displace"
  /\ UNCHANGED <<stdout, negotiated, loaded, operations, operation, kind,
                 canceled, committed, cancelSignal, pending, queue,
                 queuedSamples, endQueued, phase, backendVars, thread,
                 localVars>>

QueuedRenders == {id \in queue : received[id].method = "track_render"}

\* ... each queued render is answered and erased, ...
TrackRenderDisplace ==
  /\ pc = "displace"
  /\ \E id \in QueuedRenders :
       /\ IsLeast(id, QueuedRenders)
       /\ Emit(ReplyLine(id, "superseded", received[id].revision))
       /\ Retire(id)
       /\ queue' = queue \ {id}
  /\ UNCHANGED <<mainVars, operation, kind, canceled, committed, cancelSignal,
                 queuedSamples, endQueued, phase, latest, backendVars, thread,
                 localVars>>

\* ... and the new one is queued.
TrackRenderQueue ==
  /\ pc = "displace"
  /\ QueuedRenders = {}
  /\ queue' = queue \cup {Len(received)}
  /\ pending' = pending \cup {Len(received)}
  /\ Notify
  /\ pc' = "ready"
  /\ UNCHANGED <<received, stdout, negotiated, loaded, operations, operation,
                 kind, canceled, committed, cancelSignal, queuedSamples,
                 endQueued, phase, latest, backendVars, localVars>>
-----------------------------------------------------------------------------
TrackTake ==
  /\ thread = "check" /\ kind = "track"
  /\ MutexFree /\ ~canceled
  /\ \E id \in queue : IsLeast(id, queue) /\ Pop(id, queue)
  /\ thread' = "command"
  /\ UNCHANGED <<mainVars, stdout, operation, kind, canceled, committed,
                 cancelSignal, pending, endQueued, phase, latest, backendVars,
                 batch, frames, rows, sent, previewed, outcome>>

Method == received[command].method
Revision == received[command].revision
PreviewRow == received[command].preview

\* render_is_superseded
Superseded == latest # Revision

MayAnswer == MutexFree /\ ~canceled

\* respond_to_active_track: the response and the retirement of its id share
\* one critical section that a cancel accepted before it turns into a throw.
Answer(code) ==
  /\ MayAnswer
  /\ Emit(ReplyLine(command, code, Revision))
  /\ Retire(command)
  /\ thread' = "check"
  /\ UNCHANGED <<mainVars, operation, kind, canceled, committed, cancelSignal,
                 queue, queuedSamples, endQueued, latest, backend, applied,
                 localVars>>

TrackAppend ==
  /\ thread = "command" /\ kind = "track" /\ Method = "track_chunk"
  /\ audio' = audio + received[command].samples
  /\ Answer("ok")
  /\ UNCHANGED phase

TrackPrepared ==
  /\ thread = "command" /\ kind = "track" /\ Method = "track_prepare"
  /\ audio # 0
  /\ phase' = "prepared"
  /\ Answer("ok")
  /\ UNCHANGED audio

\* track_prepare throws when there is no audio: the track ends.
TrackEmpty ==
  /\ thread = "command" /\ kind = "track" /\ Method = "track_prepare"
  /\ audio = 0
  /\ Leave("failed")

\* The render was superseded between its pop and its start.
TrackSkip ==
  /\ thread = "command" /\ kind = "track" /\ Method = "track_render"
  /\ Superseded
  /\ Answer("superseded")
  /\ UNCHANGED <<phase, audio>>

TrackBegin ==
  /\ thread = "command" /\ kind = "track" /\ Method = "track_render"
  /\ ~Superseded /\ ~canceled
  /\ rows' = 0 /\ sent' = 0 /\ previewed' = FALSE
  /\ thread' = "render"
  /\ UNCHANGED <<mainVars, stdout, sharedVars, backendVars, command, batch,
                 frames, outcome>>

\* One sequential execution: a row joins the candidate, and the first row
\* that brackets the preview sample emits track_preview.
TrackExecute ==
  /\ thread = "render" /\ rows < TrackRows
  /\ MutexFree /\ ~canceled /\ ~Superseded
  /\ rows' = rows + 1
  /\ IF ~previewed /\ PreviewRow \in 1..rows'
     THEN previewed' = TRUE /\ Emit(EventLine("track_preview", Revision, 0))
     ELSE UNCHANGED <<previewed, stdout>>
  /\ UNCHANGED <<mainVars, sharedVars, backendVars, thread, command, batch,
                 frames, sent, outcome>>

\* A preview sample beyond the last row is sampled from that row.
TrackLatePreview ==
  /\ thread = "render" /\ rows = TrackRows
  /\ PreviewRow # 0 /\ ~previewed
  /\ MutexFree /\ ~canceled /\ ~Superseded
  /\ previewed' = TRUE
  /\ Emit(EventLine("track_preview", Revision, 0))
  /\ UNCHANGED <<mainVars, sharedVars, backendVars, thread, command, batch,
                 frames, rows, sent, outcome>>

\* emit_cache: the next batch of the complete candidate.
TrackBatch ==
  /\ thread = "render" /\ rows = TrackRows
  /\ PreviewRow = 0 \/ previewed
  /\ sent < TrackRows
  /\ MutexFree /\ ~canceled /\ ~Superseded
  /\ Emit(EventLine("track_frame_batch", Revision, sent))
  /\ sent' = IF sent + BatchRows < TrackRows THEN sent + BatchRows
             ELSE TrackRows
  /\ UNCHANGED <<mainVars, sharedVars, backendVars, thread, command, batch,
                 frames, rows, previewed, outcome>>

\* Fault: the last batch is not waited for.
AllButOneSent == sent + BatchRows >= TrackRows

AllSent == sent = TrackRows

\* respond_to_track_render: the completion is decided under the lock, after
\* every batch was sent or as soon as a newer revision was noticed.
TrackComplete ==
  /\ thread = "render"
  /\ AllSent \/ Superseded
  /\ Answer(IF Superseded THEN "superseded" ELSE "ok")
  /\ UNCHANGED <<phase, audio>>

\* canceled_ is seen by the loop, by a critical section or by the backend.
TrackCanceled ==
  /\ canceled
  /\ \/ thread = "command" /\ kind = "track"
     \/ thread = "render"
  /\ Leave("canceled")

\* The backend rejects the render's settings or samples, or an execution
\* fails.
TrackFails ==
  /\ thread = "render"
  /\ Leave("failed")

TrackRequest(r) ==
  \/ RefuseTrackRequest(r)
  \/ TrackChunk(r)
  \/ TrackPrepare(r)
  \/ TrackRenderStale(r)
  \/ TrackRenderNewer(r)

TrackLoop ==
  \/ TrackTake
  \/ TrackAppend
  \/ TrackPrepared
  \/ TrackEmpty
  \/ TrackSkip
  \/ TrackBegin
  \/ TrackExecute
  \/ TrackLatePreview
  \/ TrackBatch
  \/ TrackComplete
  \/ TrackCanceled
=============================================================================
