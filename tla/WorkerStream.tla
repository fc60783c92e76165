---------------------------- MODULE WorkerStream ----------------------------
(***************************************************************************)
(* The sequential Stream of the worker: the handlers of stream_chunk,      *)
(* stream_settings and stream_end, run by the main thread, and stream_loop,*)
(* run by the operation thread.                                            *)
(***************************************************************************)
EXTENDS WorkerState

StreamMethods == {"stream_chunk", "stream_settings", "stream_end"}

\* Fault: a stream that committed its terminal event still takes requests.
StreamActiveUntilReset(id) == operation = id /\ kind = "stream" /\ ~canceled

\* require_stream_locked
StreamActive(id) ==
  operation = id /\ kind = "stream" /\ ~canceled /\ ~committed

\* The queue holds at most kStreamQueueSeconds of PCM.
StreamRoom(samples) == samples <= StreamCapacity - queuedSamples

\* The code a stream request is refused with, "ok" when it is accepted.  The
\* two critical sections of enqueue_stream_chunk make the same decision as
\* one: only this thread queues commands, and a stream that ends between them
\* fails the second check exactly as it would have failed the first.
StreamRefusal(r) ==
  IF ~StreamActive(r.operation) THEN "operation_not_found"
  ELSE IF endQueued THEN "invalid_state"
  ELSE IF ~StreamRoom(r.samples) THEN "backpressure"
  ELSE "ok"

RefuseStreamRequest(r) ==
  /\ negotiated /\ MutexFree
  /\ r.method \in StreamMethods
  /\ Reads(r)
  /\ StreamRefusal(r) # "ok"
  /\ Refuse(StreamRefusal(r))

StreamChunk(r) ==
  /\ negotiated /\ MutexFree
  /\ r.method = "stream_chunk"
  /\ Reads(r)
  /\ StreamRefusal(r) = "ok"
  /\ Push
  /\ Count(r.samples)
  /\ pc' = "respond"
  /\ UNCHANGED <<stdout, negotiated, loaded, operations, operation, kind,
                 canceled, committed, cancelSignal, pending, endQueued, phase,
                 latest, backendVars, localVars>>

\* The response is left to the operation thread.
StreamSettings(r) ==
  /\ negotiated /\ MutexFree
  /\ r.method = "stream_settings"
  /\ Reads(r)
  /\ StreamRefusal(r) = "ok"
  /\ Push
  /\ pending' = pending \cup {NewId}
  /\ UNCHANGED <<pc, stdout, negotiated, loaded, operations, operation, kind,
                 canceled, committed, cancelSignal, queuedSamples, endQueued,
                 phase, latest, backendVars, localVars>>

StreamEnd(r) ==
  /\ negotiated /\ MutexFree
  /\ r.method = "stream_end"
  /\ Reads(r)
  /\ StreamRefusal(r) = "ok"
  /\ Push
  /\ endQueued' = TRUE
  /\ pc' = "respond"
  /\ UNCHANGED <<stdout, negotiated, loaded, operations, operation, kind,
                 canceled, committed, cancelSignal, pending, queuedSamples,
                 phase, latest, backendVars, localVars>>
-----------------------------------------------------------------------------
\* The ids of the queued settings: every one of them is taken at once.
QueuedSettings == {id \in queue : received[id].method = "stream_settings"}

StreamTake ==
  /\ thread = "check" /\ kind = "stream"
  /\ MutexFree /\ ~canceled /\ queue # {}
  /\ batch' = QueuedSettings
  /\ LET rest == queue \ QueuedSettings IN
     \/ /\ rest = {}
        /\ command' = 0
        /\ queue' = {}
        /\ UNCHANGED queuedSamples
     \/ \E id \in rest : IsLeast(id, rest) /\ Pop(id, rest)
  /\ thread' = IF QueuedSettings # {} THEN "settings" ELSE "command"
  /\ UNCHANGED <<mainVars, stdout, operation, kind, canceled, committed,
                 cancelSignal, pending, endQueued, phase, latest, backendVars,
                 frames, rows, sent, previewed, outcome>>

\* backend_.stream_settings(latest_settings): the newest snapshot is applied,
\* and respond_to_active_stream_settings takes the lock.
StreamConfigure ==
  /\ thread = "settings"
  /\ MutexFree /\ ~canceled
  /\ \E id \in batch : IsGreatest(id, batch) /\ applied' = id
  /\ thread' = "acknowledge"
  /\ UNCHANGED <<mainVars, stdout, sharedVars, backend, audio, localVars>>

\* It answers every coalesced request before it unlocks.
StreamAcknowledge ==
  /\ thread = "acknowledge"
  /\ \E id \in batch :
       /\ IsLeast(id, batch)
       /\ Emit(ReplyLine(id, "ok", 0))
       /\ batch' = batch \ {id}
       /\ Retire(id)
  /\ thread' = IF batch' # {} THEN "acknowledge"
               ELSE IF command = 0 THEN "check" ELSE "command"
  /\ UNCHANGED <<mainVars, operation, kind, canceled, committed, cancelSignal,
                 queue, queuedSamples, endQueued, phase, latest, backendVars,
                 command, frames, rows, sent, previewed, outcome>>

\* The command's response gate is open: a chunk is credited before the
\* backend sees it, an end is handed over as it is.
StreamServe ==
  /\ thread = "command" /\ kind = "stream"
  /\ ~Responding(command)
  /\ ~canceled
  /\ \/ /\ received[command].method = "stream_chunk"
        /\ MutexFree
        /\ Emit(EventLine("stream_credit", 0, 0))
     \/ /\ received[command].method = "stream_end"
        /\ UNCHANGED stdout
  /\ frames' = 0
  /\ thread' = "drain"
  /\ UNCHANGED <<mainVars, sharedVars, backendVars, command, batch, rows, sent,
                 previewed, outcome>>

\* emit_frame, called by the backend for each frame an execution produced.
StreamFrame ==
  /\ thread = "drain"
  /\ MutexFree /\ ~canceled
  /\ frames < FramesPerCall
  /\ Emit(EventLine("stream_frame", 0, 0))
  /\ frames' = frames + 1
  /\ UNCHANGED <<mainVars, sharedVars, backendVars, thread, command, batch,
                 rows, sent, previewed, outcome>>

\* The backend call returns.  stream_chunk does not look at canceled_ once
\* nothing more is ready; stream_end looks at it a last time.
StreamDrained ==
  /\ thread = "drain"
  /\ \/ /\ received[command].method = "stream_chunk"
        /\ thread' = "check"
        /\ UNCHANGED outcome
     \/ /\ received[command].method = "stream_end"
        /\ ~canceled
        /\ thread' = "commit"
        /\ outcome' = "ended"
  /\ UNCHANGED <<mainVars, stdout, sharedVars, backendVars, command, batch,
                 frames, rows, sent, previewed>>

\* canceled_ is seen by the loop, by a critical section or by the backend.
StreamCanceled ==
  /\ canceled
  /\ \/ thread = "settings"
     \/ thread = "command" /\ kind = "stream" /\ ~Responding(command)
     \/ thread = "drain"
  /\ Leave("canceled")

\* The backend rejects the settings or an execution fails.
StreamFails ==
  /\ thread \in {"settings", "drain"}
  /\ Leave("failed")

StreamRequest(r) ==
  \/ RefuseStreamRequest(r)
  \/ StreamChunk(r)
  \/ StreamSettings(r)
  \/ StreamEnd(r)

StreamLoop ==
  \/ StreamTake
  \/ StreamConfigure
  \/ StreamAcknowledge
  \/ StreamServe
  \/ StreamFrame
  \/ StreamDrained
  \/ StreamCanceled
=============================================================================
