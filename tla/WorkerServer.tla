---------------------------- MODULE WorkerServer ----------------------------
(***************************************************************************)
(* The native worker's protocol server (class Server of                    *)
(* worker/src/protocol.cpp): request dispatch, the life of an operation    *)
(* from stream_start or track_start to its terminal event, cancel and      *)
(* shutdown, composed with the Stream and track parts.                     *)
(***************************************************************************)
EXTENDS WorkerStream, WorkerTrack

Hello(r) ==
  /\ r.method = "hello"
  /\ Reads(r)
  /\ Emit(ReplyLine(NewId, "ok", 0))
  /\ negotiated' = TRUE
  /\ UNCHANGED <<pc, loaded, operations, sharedVars, backendVars, thread,
                 localVars>>

\* require_negotiated
RefuseUnnegotiated(r) ==
  /\ r.method \notin {"hello", "shutdown"}
  /\ ~negotiated
  /\ Reads(r)
  /\ Refuse("invalid_state")

\* join_or_reject_active, or the backend's own check of operation_active_.
Busy == operation # 0 \/ backend # "none"

\* The thread of an operation that has ended is joined.
Joined == IF thread = "exited" THEN "none" ELSE thread

LoadModel(r) ==
  /\ negotiated /\ MutexFree
  /\ r.method = "load_model"
  /\ Reads(r)
  /\ \/ /\ Busy
        /\ Refuse("busy")
     \/ /\ ~Busy
        /\ \E success \in BOOLEAN :
             /\ loaded' = success
             /\ Emit(ReplyLine(NewId, IF success THEN "ok" ELSE "model_invalid",
                               0))
        /\ thread' = Joined
        /\ UNCHANGED <<pc, negotiated, operations, sharedVars, backendVars,
                       localVars>>

\* Parameters the backend refuses: another sample rate, invalid settings.
RefuseStart(r) ==
  /\ negotiated /\ MutexFree
  /\ r.method \in StartMethods
  /\ Reads(r)
  /\ \/ /\ Busy
        /\ Refuse("busy")
     \/ /\ ~Busy
        /\ Emit(ReplyLine(NewId, IF loaded THEN "invalid_params"
                                 ELSE "model_not_loaded", 0))
        /\ thread' = Joined
        /\ UNCHANGED <<pc, negotiated, loaded, operations, sharedVars,
                       backendVars, localVars>>

\* start_stream and start_track up to the spawned thread, which waits for
\* start_gate; the response follows.
StartOperation(r) ==
  /\ negotiated /\ MutexFree /\ ~Busy /\ loaded
  /\ r.method \in StartMethods
  /\ Reads(r)
  /\ operations' = operations + 1
  /\ operation' = r.operation
  /\ kind' = IF r.method = "stream_start" THEN "stream" ELSE "track"
  /\ phase' = IF r.method = "stream_start" THEN phase ELSE "uploading"
  /\ latest' = IF r.method = "stream_start" THEN latest ELSE 0
  /\ canceled' = FALSE
  /\ backend' = kind'
  /\ audio' = 0
  /\ applied' = IF r.method = "stream_start" THEN NewId ELSE applied
  /\ thread' = "gate"
  /\ pc' = "respond"
  /\ UNCHANGED <<stdout, negotiated, loaded, committed, cancelSignal, pending,
                 queue, queuedSamples, endQueued, localVars>>

\* The response of a start, a chunk, an end or a cancel is written, then its
\* promise is fulfilled (respond_and_release).
Respond ==
  /\ pc = "respond"
  /\ Emit(ReplyLine(Len(received), "ok", 0))
  /\ pc' = "ready"
  /\ UNCHANGED <<received, negotiated, loaded, operations, sharedVars,
                 backendVars, thread, localVars>>

Cancelable(id) == operation = id /\ ~canceled /\ ~committed

Cancel(r) ==
  /\ negotiated /\ MutexFree
  /\ r.method = "cancel"
  /\ Reads(r)
  /\ \/ /\ ~Cancelable(r.operation)
        /\ Refuse("operation_not_found")
     \/ /\ Cancelable(r.operation)
        /\ cancelSignal' = NewId
        /\ canceled' = TRUE
        /\ Notify
        /\ pc' = "respond"
        /\ UNCHANGED <<stdout, negotiated, loaded, operations, operation, kind,
                       committed, pending, queue, queuedSamples, endQueued,
                       phase, latest, backendVars, localVars>>

\* stop_operation up to the join.  It does not take state_mutex_.
StopOperation ==
  IF thread = "none" THEN UNCHANGED <<canceled, thread>>
  ELSE canceled' = TRUE /\ Notify

Shutdown(r) ==
  /\ r.method = "shutdown"
  /\ Reads(r)
  /\ StopOperation
  /\ pc' = "join"
  /\ UNCHANGED <<stdout, negotiated, loaded, operations, operation, kind,
                 committed, cancelSignal, pending, queue, queuedSamples,
                 endQueued, phase, latest, backendVars, localVars>>

\* End of file: run() returns and ~Server stops the operation.
StdinEof ==
  /\ StdinCloses
  /\ pc = "ready"
  /\ StopOperation
  /\ pc' = "closing"
  /\ UNCHANGED <<received, stdout, negotiated, loaded, operations, operation,
                 kind, committed, cancelSignal, pending, queue, queuedSamples,
                 endQueued, phase, latest, backendVars, localVars>>

JoinOperation ==
  /\ pc \in {"join", "closing"}
  /\ thread \in {"none", "exited"}
  /\ thread' = "none"
  /\ IF pc = "join" THEN Emit(ReplyLine(Len(received), "ok", 0))
     ELSE UNCHANGED stdout
  /\ pc' = "exited"
  /\ UNCHANGED <<received, negotiated, loaded, operations, sharedVars,
                 backendVars, localVars>>
-----------------------------------------------------------------------------
\* The operation thread: start gate and condition variable.
ThreadStart ==
  /\ thread = "gate"
  /\ pc # "respond"
  /\ thread' = "check"
  /\ UNCHANGED <<mainVars, stdout, sharedVars, backendVars, localVars>>

\* The wait predicate is false and state_mutex_ is held ...
FallAsleep ==
  /\ thread = "check"
  /\ MutexFree /\ ~canceled /\ queue = {}
  /\ thread' = "falling"
  /\ UNCHANGED <<mainVars, stdout, sharedVars, backendVars, localVars>>

\* ... until the thread is in the condition variable's wait set.
Sleep ==
  /\ thread = "falling"
  /\ thread' = "asleep"
  /\ UNCHANGED <<mainVars, stdout, sharedVars, backendVars, localVars>>

SpuriousWakeup ==
  /\ thread = "asleep"
  /\ thread' = "check"
  /\ UNCHANGED <<mainVars, stdout, sharedVars, backendVars, localVars>>

WakeCanceled ==
  /\ thread = "check"
  /\ MutexFree /\ canceled
  /\ Leave("canceled")

\* The terminal event is committed: from here no request reaches the
\* operation.  A failure that finds the operation canceled ends it instead.
CommitTerminal ==
  /\ thread = "commit"
  /\ MutexFree
  /\ committed' = TRUE
  /\ outcome' = IF outcome = "failed" /\ canceled THEN "canceled" ELSE outcome
  /\ backend' = "none"
  /\ audio' = 0
  /\ thread' = "reject"
  /\ UNCHANGED <<mainVars, stdout, operation, kind, canceled, cancelSignal,
                 pending, queue, queuedSamples, endQueued, phase, latest,
                 applied, command, batch, frames, rows, sent, previewed>>

\* Fault: the terminal event does not wait for the cancel's response.
CancelAnsweredEarly == TRUE

\* signal.get(): an accepted cancel is answered before its terminal event.
CancelAnswered == cancelSignal = 0 \/ ~Responding(cancelSignal)

RejectionCode ==
  IF thread = "reject" /\ outcome = "failed" THEN "failed"
  ELSE "operation_not_found"

\* reject_pending_operation_requests
RejectPending ==
  /\ thread \in {"reject", "finish"}
  /\ CancelAnswered
  /\ \E id \in pending :
       /\ IsLeast(id, pending)
       /\ Emit(ReplyLine(id, RejectionCode, 0))
       /\ Retire(id)
  /\ UNCHANGED <<mainVars, operation, kind, canceled, committed, cancelSignal,
                 queue, queuedSamples, endQueued, phase, latest, backendVars,
                 thread, localVars>>

EmitTerminal ==
  /\ thread = "reject"
  /\ CancelAnswered
  /\ pending = {}
  /\ Emit(EventLine(IF outcome = "failed" THEN "error"
                    ELSE IF kind = "stream" THEN "stream_ended"
                    ELSE "track_ended", 0, 0))
  /\ thread' = "finish"
  /\ UNCHANGED <<mainVars, sharedVars, backendVars, localVars>>

ResetOperation ==
  /\ operation' = 0 /\ kind' = "none" /\ committed' = FALSE
  /\ queue' = {} /\ queuedSamples' = 0 /\ cancelSignal' = 0 /\ phase' = "none"
  /\ endQueued' = FALSE /\ latest' = 0

\* finish_active; the thread function returns.
FinishActive ==
  /\ thread = "finish"
  /\ MutexFree
  /\ pending = {}
  /\ ResetOperation
  /\ command' = 0 /\ batch' = {} /\ frames' = 0 /\ rows' = 0 /\ sent' = 0
  /\ previewed' = FALSE /\ outcome' = "none"
  /\ thread' = "exited"
  /\ UNCHANGED <<mainVars, stdout, canceled, pending, backendVars>>
-----------------------------------------------------------------------------
MainRequest ==
  \E r \in RequestLines :
    \/ Hello(r)
    \/ RefuseUnnegotiated(r)
    \/ LoadModel(r)
    \/ RefuseStart(r)
    \/ StartOperation(r)
    \/ StreamRequest(r)
    \/ TrackRequest(r)
    \/ Cancel(r)
    \/ Shutdown(r)

\* The main thread is bound to take these once it read a request.
MainContinues ==
  \/ Respond
  \/ TrackRenderDisplace
  \/ TrackRenderQueue
  \/ JoinOperation

OperationThread ==
  \/ ThreadStart
  \/ FallAsleep
  \/ Sleep
  \/ WakeCanceled
  \/ StreamLoop
  \/ TrackLoop
  \/ CommitTerminal
  \/ RejectPending
  \/ EmitTerminal
  \/ FinishActive

Next ==
  \/ MainRequest
  \/ StdinEof
  \/ MainContinues
  \/ OperationThread
  \/ SpuriousWakeup
  \/ StreamFails
  \/ TrackFails

Spec == Init /\ [][Next]_vars

\* Both threads run; requests, failures and spurious wakeups may never come.
FairSpec == Spec /\ WF_vars(MainContinues) /\ WF_vars(OperationThread)
=============================================================================
