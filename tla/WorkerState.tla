---------------------------- MODULE WorkerState ----------------------------
(***************************************************************************)
(* The state of the native worker's protocol server (class Server of       *)
(* worker/src/protocol.cpp), shared by its two threads: the main thread,   *)
(* which reads one request line at a time from stdin, and the operation    *)
(* thread, which runs the Stream or the Selected track in progress.        *)
(*                                                                         *)
(* A request is known by its position in `received`: position and JSON id  *)
(* are in bijection because the client numbers its requests.  The deques   *)
(* stream_queue_ and track_queue_ only push_back, so each is the set of    *)
(* the ids it holds, its front being the least one; the two are never in   *)
(* use together and are one variable, `queue`.                             *)
(***************************************************************************)
EXTENDS Integers, Sequences, FiniteSets

CONSTANTS
  Prologue,        \* for each of the client's first requests, its methods
  Methods,         \* methods of the requests it sends after those
  StdinCloses,     \* whether stdin may reach end of file
  MaxRequests,     \* bound: request lines read
  MaxOperations,   \* bound: operations started
  MaxRevision,     \* bound: track_render revisions
  ChunkSizes,      \* sizes of a PCM chunk
  StreamCapacity,  \* stream_sample_rate_ * kStreamQueueSeconds
  TrackCapacity,   \* kMaximumTrackChunkSamples * 2
  FramesPerCall,   \* bound: frames one stream_chunk or stream_end call unlocks
  TrackRows,       \* rows of a complete track render
  PreviewRows,     \* preview positions a render asks for, see RequestLines
  BatchRows        \* kMaximumTrackFramesPerBatch

ASSUME WorkerAssumption ==
  /\ StdinCloses \in BOOLEAN
  /\ MaxRequests \in Nat /\ MaxOperations \in Nat /\ MaxRevision \in Nat
  /\ ChunkSizes \subseteq Nat \ {0}
  /\ StreamCapacity \in Nat /\ TrackCapacity \in Nat /\ FramesPerCall \in Nat
  /\ TrackRows \in Nat \ {0} /\ BatchRows \in Nat \ {0}
  /\ PreviewRows \subseteq 0..(TrackRows + 1)

StartMethods == {"stream_start", "track_start"}

RequestMethods == {"hello", "load_model", "shutdown", "stream_start",
                   "stream_chunk", "stream_settings", "stream_end",
                   "track_start", "track_chunk", "track_prepare",
                   "track_render", "cancel"}

Request == [method : RequestMethods, operation : Nat, samples : Nat,
            revision : Nat, preview : Nat]

\* The well-formed request lines.  `preview` is 0 for a null preview_sample,
\* otherwise the number of rows that bracket it (TrackRows + 1: beyond the
\* last row).  Settings documents are identified with the request's id.
RequestLines ==
  [method : {"hello", "load_model", "shutdown"}, operation : {0},
   samples : {0}, revision : {0}, preview : {0}]
  \cup
  [method : StartMethods \cup {"stream_settings", "stream_end",
                               "track_prepare", "cancel"},
   operation : 1..MaxOperations, samples : {0}, revision : {0}, preview : {0}]
  \cup
  [method : {"stream_chunk", "track_chunk"}, operation : 1..MaxOperations,
   samples : ChunkSizes, revision : {0}, preview : {0}]
  \cup
  [method : {"track_render"}, operation : 1..MaxOperations, samples : {0},
   revision : 1..MaxRevision, preview : PreviewRows]

VARIABLES
  received,      \* the requests read from stdin, in order
  stdout,        \* the lines the Emitter wrote, in order
  pc,            \* where the main thread is
  negotiated,    \* negotiated_
  loaded,        \* whether the backend holds a model
  operations,    \* number of operations started; the last one's id
  operation,     \* current_operation_id_; 0 when it is empty
  kind,          \* operation_kind_
  canceled,      \* canceled_, an atomic
  committed,     \* terminal_committed_
  cancelSignal,  \* id of the cancel whose response the terminal event awaits
  pending,       \* pending_operation_request_ids_
  queue,         \* ids of the commands in stream_queue_ or track_queue_
  queuedSamples, \* stream_queued_samples_ or track_queued_samples_
  endQueued,     \* stream_end_queued_
  phase,         \* track_phase_
  latest,        \* latest_track_revision_, an atomic
  backend,       \* the backend's operation_kind_ while operation_active_
  audio,         \* number of samples in the backend's track_audio_
  applied,       \* id of the settings document the stream executors run with
  thread,        \* where operation_thread_ is
  command,       \* its local `command`; 0 when empty
  batch,         \* its local settings_request_ids
  frames,        \* frames emitted by the backend call in progress
  rows,          \* rows in the render's local `candidate`
  sent,          \* rows of it already sent in batches
  previewed,     \* its local preview_emitted
  outcome        \* how its loop was left

mainVars == <<received, pc, negotiated, loaded, operations>>
sharedVars == <<operation, kind, canceled, committed, cancelSignal, pending,
                queue, queuedSamples, endQueued, phase, latest>>
backendVars == <<backend, audio, applied>>
localVars == <<command, batch, frames, rows, sent, previewed, outcome>>
vars == <<mainVars, stdout, sharedVars, backendVars, thread, localVars>>
-----------------------------------------------------------------------------
Codes == {"ok", "superseded", "busy", "invalid_params", "invalid_state",
          "model_invalid", "model_not_loaded", "operation_not_found",
          "backpressure", "failed"}
Events == {"stream_credit", "stream_frame", "stream_ended", "track_preview",
           "track_frame_batch", "track_ended", "error"}
TerminalEvents == {"stream_ended", "track_ended", "error"}

\* A reply's id is its request's, an event's is its operation's.
Line == [type : {"reply", "event"}, name : Codes \cup Events, id : Nat,
         revision : Nat, offset : Nat]

ReplyLine(id, code, revision) ==
  [type |-> "reply", name |-> code, id |-> id, revision |-> revision,
   offset |-> 0]

EventLine(name, revision, offset) ==
  [type |-> "event", name |-> name, id |-> operation, revision |-> revision,
   offset |-> offset]

Emit(line) == stdout' = Append(stdout, line)

HistoryOK == received \in Seq(Request) /\ stdout \in Seq(Line)

FlagsOK ==
  /\ negotiated \in BOOLEAN /\ loaded \in BOOLEAN
  /\ canceled \in BOOLEAN /\ committed \in BOOLEAN
  /\ endQueued \in BOOLEAN /\ previewed \in BOOLEAN

PlacesOK ==
  /\ pc \in {"ready", "respond", "displace", "join", "closing", "exited"}
  /\ kind \in {"none", "stream", "track"}
  /\ phase \in {"none", "uploading", "preparing", "prepared"}
  /\ backend \in {"none", "stream", "track"}
  /\ thread \in {"none", "gate", "check", "falling", "asleep", "settings",
                 "acknowledge", "command", "drain", "render", "commit",
                 "reject", "finish", "exited"}
  /\ outcome \in {"none", "ended", "canceled", "failed"}

CountersOK ==
  /\ operations \in Nat /\ operation \in Nat /\ latest \in Nat
  /\ queuedSamples \in Int /\ audio \in Nat
  /\ frames \in Nat /\ rows \in Nat /\ sent \in Nat

IdsOK ==
  /\ pending \subseteq 1..Len(received) /\ queue \subseteq 1..Len(received)
  /\ batch \subseteq 1..Len(received) /\ command \in 0..Len(received)
  /\ cancelSignal \in 0..Len(received) /\ applied \in 0..Len(received)

\* The last request and the operation thread's command exist when used.
DomainsOK ==
  /\ pc \in {"respond", "displace", "join"} => Len(received) # 0
  /\ thread \in {"command", "drain", "render"} => command # 0

TypeOK ==
  HistoryOK /\ FlagsOK /\ PlacesOK /\ CountersOK /\ IdsOK /\ DomainsOK

Init ==
  /\ received = <<>> /\ stdout = <<>> /\ pc = "ready"
  /\ negotiated = FALSE /\ loaded = FALSE /\ operations = 0
  /\ operation = 0 /\ kind = "none" /\ canceled = FALSE /\ committed = FALSE
  /\ cancelSignal = 0 /\ pending = {} /\ queue = {} /\ queuedSamples = 0
  /\ endQueued = FALSE /\ phase = "none" /\ latest = 0
  /\ backend = "none" /\ audio = 0 /\ applied = 0
  /\ thread = "none" /\ command = 0 /\ batch = {} /\ frames = 0
  /\ rows = 0 /\ sent = 0 /\ previewed = FALSE /\ outcome = "none"
-----------------------------------------------------------------------------
\* state_mutex_ is held across two of the model's steps in three places: by
\* the operation thread between a false wait predicate and falling asleep, by
\* the same thread while it acknowledges a batch of settings, and by the main
\* thread while it answers displaced renders.
MutexFree == thread \notin {"falling", "acknowledge"} /\ pc # "displace"

\* A promise (start_gate, response_gate) is fulfilled after the response of
\* its request is written; until then the main thread is still at "respond".
Responding(id) == pc = "respond" /\ id = Len(received)

\* Fault: the order of arrival is lost.
IsAny(id, ids) == id \in ids

\* The front, or the first one an iterator reaches, and the last one.
IsLeast(id, ids) == id \in ids /\ \A other \in ids : id <= other
IsGreatest(id, ids) == id \in ids /\ \A other \in ids : other <= id

\* Fault: the waiting thread is not notified.
NotifyNobody == UNCHANGED thread

\* operation_condition_.notify_one and notify_all: there is one waiter.
Notify == thread' = IF thread = "asleep" THEN "check" ELSE thread

\* The client follows Prologue, then sends any request of Methods, numbers its
\* operations and names only operations it started.
Reads(r) ==
  /\ pc = "ready"
  /\ Len(received) < MaxRequests
  /\ IF Len(received) < Len(Prologue)
     THEN r.method \in Prologue[Len(received) + 1]
     ELSE r.method \in Methods
  /\ IF r.method \in StartMethods
     THEN r.operation = operations + 1
     ELSE r.operation <= operations
  /\ received' = Append(received, r)

NewId == Len(received) + 1

\* The handler throws WorkerError(code): process() writes the error.
Refuse(code) ==
  /\ Emit(ReplyLine(NewId, code, 0))
  /\ UNCHANGED <<pc, negotiated, loaded, operations, sharedVars, backendVars,
                 thread, localVars>>

\* The handler pushes its command and wakes the operation thread.
Push == queue' = queue \cup {NewId} /\ Notify

\* The samples of a pushed chunk are counted.
Count(samples) == queuedSamples' = queuedSamples + samples

\* Fault: an answered request stays registered.
RetireNothing(id) == UNCHANGED pending

\* retire_operation_request_locked
Retire(id) == pending' = pending \ {id}

\* The operation thread takes a command off the queue.
Pop(id, rest) ==
  /\ command' = id
  /\ queue' = rest \ {id}
  /\ queuedSamples' = queuedSamples - received[id].samples

\* An exception leaves the operation thread's loop, or the loop breaks.
Leave(how) ==
  /\ thread' = "commit"
  /\ outcome' = how
  /\ UNCHANGED <<mainVars, stdout, sharedVars, backendVars, command, batch,
                 frames, rows, sent, previewed>>
=============================================================================
