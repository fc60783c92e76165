---------------------------- MODULE SessionState ----------------------------
(***************************************************************************)
(* The state of a session of the RuntimeController (audio2face/runtime.py):*)
(* its Stream, the presentation of the Stream (audio2face/live_stream.py), *)
(* the Selected track as far as it competes for the one operation of the   *)
(* worker, and the two channels between the controller and the worker.     *)
(***************************************************************************)
EXTENDS Integers, Sequences, FiniteSets

CONSTANTS
  MaxOperations,  \* bound: operations the controller starts
  MaxChunks,      \* bound: PCM chunks pushed
  MaxFrames,      \* bound: frames of one operation
  Capacity,       \* MAX_PENDING_STREAM_CHUNKS
  Disturbances,   \* what may disturb a session
  MaxDisturbances \* bound: how often

ASSUME SessionAssumption ==
  /\ MaxOperations \in Nat /\ MaxChunks \in Nat /\ MaxFrames \in Nat
  /\ Capacity \in Nat \ {0} /\ MaxDisturbances \in Nat
  /\ Disturbances \subseteq {"edit", "mode", "removal", "stop", "failure"}

Operations == 1..MaxOperations
Chunks == 1..MaxChunks
None == 0  \* no operation

VARIABLES
  pc,         \* where the timer callback is; "idle" between callbacks
  batch,      \* how many of the lines the callback still handles
  mode,       \* scene.audio2face.input_mode
  status,     \* scene.audio2face.status
  available,  \* the scene exists and is editable
  ingress,    \* pcm_ingress
  stream,     \* active_stream
  live,       \* the presentation
  track,      \* selected_track
  loaded,     \* the model metadata is known
  expected,   \* expected_worker_exit
  rejected,   \* rejected_reason is set
  client,     \* the client's Lifecycle
  inbox,      \* requests the worker has not read
  operations, \* operations the controller created
  heard,      \* the chunks sent to each operation
  pushed,     \* chunks accepted
  lines,      \* the worker's lines, and its exit, not handled yet
  process,    \* the worker's process
  serving,    \* its operation
  disturbed   \* number of disturbances

\* What the handlers of the controller write.
sessionVars == <<status, ingress, stream, live, track, loaded, expected,
                 rejected, client, inbox, operations, heard>>
sceneVars == <<mode, available>>
workerVars == <<process, serving>>
vars == <<pc, batch, sceneVars, sessionVars, pushed, lines, workerVars,
          disturbed>>

Methods == {"stream_start", "stream_chunk", "stream_settings", "stream_end",
            "track_start", "track_chunk", "cancel", "shutdown"}
Starts == {"stream_start", "track_start"}
Request == [method : Methods, operation : Operations \cup {None}]
Reply == [type : {"reply"}, code : {"ok", "busy", "operation_not_found", "failed"},
          method : Methods, operation : Operations \cup {None}]
EventLine == [type : {"event"}, operation : Operations,
              name : {"stream_credit", "stream_frame", "stream_ended",
                      "track_ended", "error"}]
Exited == [type : {"exited"}, clean : BOOLEAN]

NoIngress == [open |-> FALSE, chunks |-> <<>>, ending |-> FALSE]
NoStream == [id |-> None, credit |-> FALSE, ready |-> FALSE, endSent |-> FALSE,
             stopRequested |-> FALSE, workerEnded |-> FALSE]
NoLive == [id |-> None, frames |-> FALSE, terminal |-> FALSE]
NoTrack == [id |-> None, cancelRequested |-> FALSE, restart |-> FALSE]
Idle == [id |-> None, kind |-> "stream", phase |-> "idle", outcome |-> "ended",
         fed |-> FALSE, end |-> FALSE, canceled |-> FALSE, chunks |-> 0,
         deferred |-> 0, frames |-> 0]

\* "ready" also stands for the statuses of an upload, which nothing here
\* tells from MODEL_READY.
StreamStatuses == {"starting", "streaming", "ending"}
Statuses == StreamStatuses \cup {"ready", "error", "stopping", "idle"}

Ingress == [open : BOOLEAN, chunks : Seq(Chunks), ending : BOOLEAN]
Stream == [id : Operations \cup {None}, credit : BOOLEAN, ready : BOOLEAN,
           endSent : BOOLEAN, stopRequested : BOOLEAN, workerEnded : BOOLEAN]
Live == [id : Operations \cup {None}, frames : BOOLEAN, terminal : BOOLEAN]
Track == [id : Operations \cup {None}, cancelRequested : BOOLEAN,
          restart : BOOLEAN]
Line == Reply \cup EventLine \cup Exited
Serving == [id : Operations \cup {None}, kind : {"stream", "track"},
            phase : {"idle", "running", "committed", "finishing"},
            outcome : {"ended", "failed"}, fed : BOOLEAN, end : BOOLEAN,
            canceled : BOOLEAN, chunks : Nat, deferred : Nat,
            frames : 0..MaxFrames]

SessionOK ==
  /\ status \in Statuses /\ ingress \in Ingress /\ stream \in Stream
  /\ live \in Live /\ track \in Track
  /\ {loaded, expected, rejected} \subseteq BOOLEAN
  /\ client \in {"running", "stopping", "gone"} /\ inbox \in Seq(Request)
  /\ operations \in 0..MaxOperations /\ heard \in [Operations -> Seq(Chunks)]

WorkerOK ==
  /\ lines \in Seq(Line) /\ serving \in Serving
  /\ process \in {"up", "exited", "crashed", "reaped"}

TypeOK ==
  /\ pc \in {"idle", "lines", "tick"} /\ batch \in Nat
  /\ mode \in {"STREAM", "SELECTED"} /\ available \in BOOLEAN
  /\ SessionOK /\ WorkerOK
  /\ pushed \in 0..MaxChunks /\ disturbed \in 0..MaxDisturbances

\* The model is loaded and nothing runs.
Init ==
  /\ pc = "idle" /\ batch = 0
  /\ mode = "STREAM" /\ available = TRUE /\ status = "ready"
  /\ ingress = NoIngress /\ stream = NoStream /\ live = NoLive
  /\ track = NoTrack
  /\ loaded = TRUE /\ expected = FALSE /\ rejected = FALSE
  /\ client = "running" /\ inbox = <<>> /\ operations = 0
  /\ heard = [operation \in Operations |-> <<>>]
  /\ pushed = 0 /\ lines = <<>>
  /\ process = "up" /\ serving = Idle
  /\ disturbed = 0
-----------------------------------------------------------------------------
Disturbs(kind) ==
  /\ kind \in Disturbances
  /\ disturbed < MaxDisturbances
  /\ disturbed' = disturbed + 1
=============================================================================
