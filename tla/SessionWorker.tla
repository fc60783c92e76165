---------------------------- MODULE SessionWorker ----------------------------
(***************************************************************************)
(* The worker of a session as its client sees it: what WorkerServer does,  *)
(* reduced to the order of its reads and writes, and the process itself,   *)
(* whose exit the client reports as its last event.                        *)
(***************************************************************************)
EXTENDS SessionState

Says(line) == lines' = Append(lines, line)

Answers(request, code) ==
  Says([type |-> "reply", code |-> code, method |-> request.method,
        operation |-> request.operation])

Announces(name) ==
  Says([type |-> "event", name |-> name, operation |-> serving.id])

\* The operation takes requests: not canceled, no terminal event committed.
Runs(operation) ==
  serving.id = operation /\ serving.phase = "running" /\ ~serving.canceled

\* What the worker alone leaves unchanged.
ControllerUnchanged ==
  UNCHANGED <<pc, batch, sceneVars, status, ingress, stream, live, track,
              loaded, expected, rejected, client, operations, heard, pushed>>

WorkerReads(method) ==
  /\ process = "up" /\ inbox # <<>> /\ Head(inbox).method = method
  /\ inbox' = Tail(inbox)
  /\ ControllerUnchanged
  /\ UNCHANGED process

\* An operation whose terminal event is written but that is not reset yet
\* still makes the worker busy.
WorkerStarts(method) ==
  /\ WorkerReads(method)
  /\ LET request == Head(inbox) IN
     \/ /\ serving.id # None
        /\ Answers(request, "busy")
        /\ UNCHANGED <<serving, disturbed>>
     \/ /\ serving.id = None /\ Disturbs("failure")
        /\ Answers(request, "failed")
        /\ UNCHANGED serving
     \/ /\ serving.id = None
        /\ Answers(request, "ok")
        /\ serving' = [Idle EXCEPT
             !.id = request.operation, !.phase = "running",
             !.kind = IF method = "stream_start" THEN "stream" ELSE "track"]
        /\ UNCHANGED disturbed

\* The requests left to the operation thread.
DeferredMethods == {"stream_settings", "track_chunk"}
Deferred == [method |-> IF serving.kind = "stream" THEN "stream_settings"
                        ELSE "track_chunk",
             operation |-> serving.id]

\* A Stream's chunk and its end are answered at once.
WorkerTakes(method, accepted) ==
  /\ WorkerReads(method)
  /\ IF Runs(Head(inbox).operation)
     THEN serving' = accepted
          /\ IF method \in DeferredMethods THEN UNCHANGED lines
             ELSE Answers(Head(inbox), "ok")
     ELSE Answers(Head(inbox), "operation_not_found") /\ UNCHANGED serving
  /\ UNCHANGED disturbed

\* stream_loop applies the settings queued by then at once; there is one
\* track_chunk at a time.
WorkerApplies ==
  /\ process = "up" /\ Runs(serving.id) /\ serving.deferred > 0
  /\ lines' = lines \o [i \in 1..serving.deferred |->
       [type |-> "reply", code |-> "ok", method |-> Deferred.method,
        operation |-> serving.id]]
  /\ serving' = [serving EXCEPT !.deferred = 0]
  /\ ControllerUnchanged
  /\ UNCHANGED <<inbox, process, disturbed>>

\* Fault: a chunk's samples are subtracted twice.
ConsumedTwice == serving.chunks - 2

Consumed == serving.chunks - 1

\* A chunk is credited when it is taken off the queue.
WorkerCredits ==
  /\ process = "up" /\ Runs(serving.id) /\ serving.chunks > 0
  /\ Announces("stream_credit")
  /\ serving' = [serving EXCEPT !.chunks = Consumed, !.fed = TRUE]
  /\ ControllerUnchanged
  /\ UNCHANGED <<inbox, process, disturbed>>

WorkerFrames ==
  /\ process = "up" /\ Runs(serving.id) /\ serving.fed
  /\ serving.frames < MaxFrames
  /\ Announces("stream_frame")
  /\ serving' = [serving EXCEPT !.frames = @ + 1]
  /\ ControllerUnchanged
  /\ UNCHANGED <<inbox, process, disturbed>>

\* The operation ends: drained or canceled, or it failed before a cancel.
WorkerCommits ==
  /\ process = "up" /\ serving.phase = "running"
  /\ \/ /\ \/ serving.canceled
           \/ serving.end /\ serving.chunks = 0 /\ serving.deferred = 0
        /\ serving' = [serving EXCEPT !.phase = "committed"]
        /\ UNCHANGED disturbed
     \/ /\ ~serving.canceled /\ Disturbs("failure")
        /\ serving' = [serving EXCEPT !.phase = "committed",
                                      !.outcome = "failed"]
  /\ ControllerUnchanged
  /\ UNCHANGED <<inbox, lines, process>>

\* Deferred requests are rejected before the terminal event.
WorkerRejects ==
  /\ process = "up" /\ serving.phase = "committed" /\ serving.deferred > 0
  /\ Answers(Deferred,
             IF serving.outcome = "failed" THEN "failed"
             ELSE "operation_not_found")
  /\ serving' = [serving EXCEPT !.deferred = @ - 1]
  /\ ControllerUnchanged
  /\ UNCHANGED <<inbox, process, disturbed>>

WorkerTerminal ==
  /\ process = "up" /\ serving.phase = "committed" /\ serving.deferred = 0
  /\ Announces(IF serving.outcome = "failed" THEN "error"
               ELSE IF serving.kind = "stream" THEN "stream_ended"
               ELSE "track_ended")
  /\ serving' = [serving EXCEPT !.phase = "finishing"]
  /\ ControllerUnchanged
  /\ UNCHANGED <<inbox, process, disturbed>>

WorkerFinishes ==
  /\ process = "up" /\ serving.phase = "finishing"
  /\ serving' = Idle
  /\ ControllerUnchanged
  /\ UNCHANGED <<inbox, lines, process, disturbed>>

\* shutdown stops the operation and joins it before it is answered.
ShutdownRead ==
  process = "up" /\ inbox # <<>> /\ Head(inbox).method = "shutdown"

WorkerStops ==
  /\ ShutdownRead /\ serving.phase = "running" /\ ~serving.canceled
  /\ serving' = [serving EXCEPT !.canceled = TRUE]
  /\ ControllerUnchanged
  /\ UNCHANGED <<inbox, lines, process, disturbed>>

WorkerExits ==
  /\ ShutdownRead /\ serving = Idle
  /\ inbox' = Tail(inbox)
  /\ Answers(Head(inbox), "ok")
  /\ process' = "exited"
  /\ ControllerUnchanged
  /\ UNCHANGED <<serving, disturbed>>

\* The worker crashes, or is killed when it does not shut down in time.
WorkerDies ==
  /\ process = "up"
  /\ IF client = "stopping" THEN UNCHANGED disturbed ELSE Disturbs("failure")
  /\ process' = "crashed"
  /\ serving' = Idle
  /\ ControllerUnchanged
  /\ UNCHANGED <<inbox, lines>>

\* The watch thread of the client: state first, then ProcessExited.
ExitReported ==
  /\ process \in {"exited", "crashed"}
  /\ process' = "reaped"
  /\ client' = "gone"
  /\ Says([type |-> "exited", clean |-> process = "exited"])
  /\ UNCHANGED <<pc, batch, sceneVars, status, ingress, stream, live, track,
                 loaded, expected, rejected, inbox, operations, heard, pushed,
                 serving, disturbed>>

MainThread ==
  \/ \E method \in Starts : WorkerStarts(method)
  \/ WorkerTakes("stream_chunk", [serving EXCEPT !.chunks = @ + 1])
  \/ \E method \in DeferredMethods :
       WorkerTakes(method, [serving EXCEPT !.deferred = @ + 1])
  \/ WorkerTakes("stream_end", [serving EXCEPT !.end = TRUE, !.fed = TRUE])
  \/ WorkerTakes("cancel", [serving EXCEPT !.canceled = TRUE])
  \/ WorkerStops
  \/ WorkerExits

OperationThread ==
  \/ WorkerApplies
  \/ WorkerCredits
  \/ WorkerFrames
  \/ WorkerCommits
  \/ WorkerRejects
  \/ WorkerTerminal
  \/ WorkerFinishes

WorkerRuns == MainThread \/ OperationThread \/ ExitReported
=============================================================================
