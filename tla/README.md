# Audio2Face for Blender: TLA+ models

The add-on runs NVIDIA Audio2Face inference in a native worker process and
presents the result on Blender's meshes, live (a *Stream*) or from the audio
strips of a sequencer channel (a *Selected Channel* track).  Python runs in
Blender: one main thread driven by a timer and by UI callbacks, and helper
threads that never touch Blender's data.  The C++ worker has a main thread that
reads one JSON request per line and an operation thread that runs the Stream or
the track.  The models are read off `audio2face/*.py` and `worker/src/*.cpp`.

## Inventory

| component | state | operations | interacts with | hard behaviour | what makes it correct |
|---|---|---|---|---|---|
| **Protocol server** `worker/src/protocol.cpp` | current operation, cancel flag, terminal flag, deferred request ids, command queues, track phase and latest revision | the twelve methods of `Server::dispatch`; `stream_loop`, `track_loop`, `finish_operation` | stdin and stdout of the client; backend; its own operation thread | two threads, one mutex, a condition variable, two atomics read without it, promises that order a response before the events it releases | every request answered once; nothing about an operation after its terminal event; cancel wins; back pressure; newest settings and newest render revision; shutdown ends |
| **Inference backend** `worker/src/a2f_backend.cpp` | loaded model, active operation, track audio, executors' settings | load, start, chunk, settings, end, prepare, render | called by the server; emits frames through callbacks | callbacks run under a cancel that arrives at any time | a cache is complete and of one revision |
| **Engine optimization** `model_optimize.py` | `network.trt` of two models, candidate and backup files | build, back up, install, roll back, discard | its thread started, canceled, polled and abandoned by the controller | any file operation may fail; cancel races the commit; Blender may die; `close` does not wait for the thread | the pair is replaced as a whole, never mixed, never under a running worker |
| **SidecarClient** `sidecar.py` | process, lifecycle state, two deadlines, two queues, four threads | start, request, begin_shutdown, tick, poll, close | controller above, worker process below | state written by two threads; queues shared by successive workers; bounded joins; escalation | stopped means gone; order of lines; exit reported, and last |
| **RuntimeController, optimization** `runtime.py` | optimization thread, cancel event, commit lock, event queue | optimize, cancel, poll, close | engine optimization, client | abandonment | as engine optimization |
| **RuntimeController, session** `runtime.py` | lifecycle, pending requests, active operation, Stream ingress and tail, Selected track, settings timelines, render revisions | handshake, load, start/stop Stream, upload, prepare, render, cancel, poll | client; Blender callbacks; live stream; selected audio | responses and events of operations that were canceled or replaced; edits during an upload or a render; retries | events matched to the operation they belong to; newest edit rendered in the end; caches current when marked so |
| **LiveStreamController** `live_stream.py`, `frame_stream.py` | frame buffer, presentation clock, tail | push frame, present, finish | session | early, late, missing frames; buffer trimming against a clock | the buffer is bounded, presented frames are monotone, the tail ends |
| **Selected audio** `selected_audio_timeline.py` | open sounds of one upload | snapshot strips, mix chunks, map frames to samples | session, bake | strip edges between samples, handles, overlapping clips, the end of the last chunk | what is uploaded is the channel, sample by sample |
| **Settings timeline** `runtime.py`, `worker/src/a2f_backend.cpp` | the scene's cursor and unkeyed values while they are scanned | scan frames, encode changes, look up | Blender's evaluation, worker | the scan moves the cursor of a scene the user is editing, and may fail half way | the scene is left as found; client and worker read the same settings |
| **Bake and shape keys** `animation_bake.py`, `shape_keys.py` | actions and F-curves of a mesh | plan channels, write curves, own the action | session | meshes edited, Actions replaced or removed in between | an artist's Action is never written; curves are what each frame would show |
| **Build and release tools** `tools/` | temporary directories, partial and final names | download, assemble, move, link, package, publish, undo | file system | processes killed or failing anywhere, several at once, no lock | what a final name names is whole and of one build |
| **Codec** `protocol.py`, `strict_json.py` | none | validate requests, replies and events | session, worker | none | only valid documents get through |
| **Public streaming API** `streaming.py` | none | three calls into the Stream ingress | session | called by other add-ons | refused when no Stream takes audio |
| **Properties, operators, UI, preferences** | Blender RNA | declarations, layout, update callbacks | session | callbacks in any order | - |
| **Runtime bundle, path contract, model inputs** | none | one-shot checks of files | start, optimize | none | - |

Modelled are all of these but the codec and the one-shot checks of files, which
keep no state that steps race for, and the frame buffer of the presentation
(see *Not modelled*).

## Modules

    WorkerState <- WorkerStream, WorkerTrack <- WorkerServer <- WorkerProperties
      WorkerProperties <- WorkerInvariant <- MCWorkerStream, MCWorkerTrack
      WorkerInvariant <- WorkerProofs <- WorkerContractProofs
      WorkerProperties <- MCWorkerShutdown
    EngineActivation <- EngineProperties (INSTANCE EngineStore)
      EngineProperties <- EngineProofs
    Sidecar <- SidecarProperties <- MCSidecar, SidecarProofs
    SessionState <- SessionWorker <- StreamSession <- SessionProperties
      SessionProperties <- SessionProofs
    TrackState <- TrackWorker <- TrackSession <- TrackProperties <- MCTrack, TrackProofs
    ChannelTimeline <- ChannelTrack <- ChannelProperties <- MCChannel, ChannelProofs
    ReleaseBuild <- ReleaseProperties <- MCRelease, ReleaseProofs

An arrow points from a module to those that extend it.  The layers meet where one
assumes what another shows: `SessionWorker` and `TrackWorker` are the worker as its
client sees it, which `WorkerServer` is in detail; their FIFO channels are what
`Sidecar` promises for one process; `TrackSession` says when a render is due and
which rows are shown, `ChannelTrack` what is in them; no engine changes under the
worker these sessions talk to (`EngineProperties`).

### The worker

`WorkerState` declares the state of class `Server`, `WorkerStream` and
`WorkerTrack` the requests and the loop of each kind of operation (with the
backend's calls and callbacks inside it), `WorkerServer` dispatch, start,
cancel, shutdown, end of file, the terminal event, and composes them.

- A request is its position in `received`; `stdout` is every line written, in
  order.  The properties are about these two sequences and the state.
- `pc` is where the main thread is: reading (`ready`), writing a response after
  it released the mutex (`respond`), answering displaced renders under the mutex
  (`displace`), joining (`join`, `closing`).  `thread` is where the operation
  thread is.  A handler that takes the mutex once and then answers is one step up
  to the unlock and one for the response, because the operation thread may run
  between the two; a refusal is one step.
- Both deques only grow at the back, so they are the set of the ids they hold
  and the front is the least.  `QueuedSettings` is what `stream_loop` extracts.
- Falling asleep is two steps (predicate false; in the wait set), both under
  `state_mutex_`.  `stop_operation` does not take that mutex.
- A frame, a row and a settings document carry no data beyond their revision or
  the request they came from.

Left out: a write to stdout that fails, `std::thread` that cannot start, a JSON
id used twice by the client (it numbers them), and the validation of parameters
beyond one refusal per error code.

### Engine optimization

`EngineActivation` has one action per file operation of `_activate_engines` and
of the `finally` clause, so that every one can fail, be the last before a crash,
or run while the main thread does something else.  Holding `commit_lock` is being
in a stage of `Activation`.  A controller that is closed (another file is loaded)
cancels its run and joins the thread for two seconds; the thread may outlive it,
so runs of several controllers coexist and only the run `current` is waited for.
`EngineStore` is the promise of the docstring, "Build and atomically activate both
selected TensorRT engines.": the pair changes in one step, never while a worker
runs.  `Committed` in `EngineProperties` is the refinement mapping: what a
rollback of the activation in progress would leave.

### The sidecar client

`Sidecar` has the main thread (a call of the controller, split where it takes
or leaves `_state_lock` or waits: a request is its locked check and, when the worker
may be gone, its put), and the stdin, stdout and watch threads of every
process ever spawned, all of them on the same two queues.  `accepted`,
`delivered` and `events` are histories.  The stderr thread and diagnostics carry
text only and are left out; `tick`'s signal and its new deadline are one step.
Closing the streams never blocks.

Joins are bounded to 0.1 s.  `Limits` chooses, in the initial state, how many
requests and lines there are and whether a thread may outlast its join
(`joinsExpire`), as when another process inherited the worker's pipes;
`KillExpires` says whether a killed process outlasts the last half second of `close`.

### The session

`StreamSession` is the `RuntimeController` between its user and its worker: PCM
pushed by any thread (`PushChunk`, `FinishPcm`), the callbacks of the user
interface, and the timer callback.  `SessionWorker` is the worker as its client
sees it: the order of reads and writes of `WorkerServer`, a crash, and the exit
the client reports last.  Requests (`inbox`) and `lines` are FIFO channels, which
the runs of the client justify for one process.

- One timer callback is the steps idle -> lines -> tick -> idle: `PollBegins`
  (the first `_poll_pcm_ingress`, and how many lines `client.poll` takes), one
  step per line, `PollEnds` (the second `_poll_pcm_ingress`), the presentation's
  tick.  The user's callbacks run between two timer callbacks, other threads and
  the worker between any two steps.
- Every handler is one step, with what it sends and what the handlers it calls
  change.  A request raises when the process died or the client shuts it down
  (`CanRequest`), although the client may still say that it runs.
- A removed scene is noticed by `PollBegins`; canceling the orphaned operation and
  dropping the ingress are one step.
- Of the Selected Channel there is what competes with the Stream: its start, one
  chunk that stands for the upload, its cancel, its restart and its end.  Status
  `ready` stands for the statuses of an upload as well.  The rest is `TrackSession`.
- A frame carries no data and the presentation is when it is active, has shown a
  frame, is in its tail, ends or fails; buffer and clock are left out.
- The session begins with a loaded model; start, handshake and reload are in
  `TrackSession`, so a worker that was stopped or died is not started again here.

### The Selected Channel: its session

`TrackSession` is the same controller in the input mode Selected Channel, from
Start Worker to the exit of the process.  A handler of the code calls others that
call others; so a method of the controller is an operator from a session to a
session (`EnsureTrack`, `RequestRender`, `Publish`, `StartBake`, ...), and the actions are the
callbacks in which Blender enters the extension.  `pc` and `batch` are the timer
callback as in `StreamSession`.

- A settings timeline is a function from frames to abstract values, a row is named
  by the audio and the timeline it was rendered from (`Rows`).  The cache, the stage
  of a running render, the mesh and the baked Action are sets of such rows: a mix of
  two shows.
- `Oversized` are the timelines whose `track_render` does not fit a control line;
  asking for one raises.
- `scene` is what the user edits: the animated settings, the value shown, which an
  evaluation of the scene overwrites, the frame, the channel's audio, playback and
  input mode.  Evaluation is Blender's.
- Writing the Actions of a bake fails with an error that ends the bake
  (`BakeNotWritten`, and `StartBake` of a bake done at once) or with one that no
  handler expects (`BakeTargetDeleted`): it leaves the callback, and the rest of its
  batch is lost.
- `TrackWorker` answers in the order of `WorkerServer`: a displaced render at once,
  a superseded one when its loop notices; rows of a preview before those of the
  render.  It may refuse, fail, crash, and end while requests are on their way.

### The Selected Channel: its data

`ChannelTimeline` has the computations as operators over integers, `ChannelTrack`
the steps that use them, one action per chunk, per frame of a scan, per datablock
of a bake.

- Positions are in ticks, half of a sample, so that a frame or a strip may begin
  between two samples and the two roundings of the code (Python's to even, and away
  from zero) differ; the frame rate is how many ticks a frame lasts.  Amplitudes are
  integers with a full scale at which mixing clips.  The rounding error of floats is
  not modelled.
- A strip has its handles, offset, mute and volume; a snapshot turns it into clips.
- A scan goes to each frame, reads the settings and comes back, also when a frame
  raises.  Handlers of the extension run inside it and must show nothing.
- A bake plans its targets, waits for rows, and writes an Action per datablock.
  Between two callbacks users remove datablocks and keys, and assign, share or
  remove Actions.

### The release

`ReleaseBuild` has processes that build the runtime or the extension and share two
final names and two partial ones.  A name and what it names are told apart, as on
POSIX: `at` maps names to runs, `trees` and `zips` are what each run made, so an
`rmtree` that listed a directory goes on after it is renamed and an open archive is
written after it is unlinked.  A process fails at any step, undoes what the code
undoes, or is killed and undoes nothing.  `overlapped` is a history: the outputs
that two processes were between the check that the name is free and its end at once.

## Runs

| run | what it shows | bounds |
|---|---|---|
| `worker_stream` | Streams with settings, chunks, ends, cancels, failures, end of file and shutdown: the inductive invariant (`IInv`: types, one reply each, one owner of each deferred request, nothing survives into the next operation), nothing after the terminal event, cancel wins, and `StreamContract`: the credit ledger, newest settings, drained streams complete, bounded queue | 7 requests, the first three of which start a Stream, 2 operations, 2 samples of capacity so that a third chunk is refused |
| `worker_track` | a track with competing renders, late and early previews, cancels and failures, `TrackContract`: complete caches before completion, newest revision only, displaced renders answered for a reason; and that a deferred request is answered, an accepted cancel ends the operation (of a Stream too), the latest render settles | 8 requests from the first line on, 2 revisions, 2 rows in batches of 1 so that a render can be superseded between two batches, previews before, inside and beyond the rows |
| `worker_shutdown` | violation: `shutdown` may never finish (below) | 7 requests, the last one the shutdown |
| `engine` | optimizations over two controllers with two failures and Blender killed at any step: never a mixed pair, none changes under a worker, an abandoned run moves nothing, every step is one of `EngineStore` or none (`AtomicActivation`), reported outcomes are true, a canceled run ends | 3 runs: one abandoned, one current, one earlier |
| `sidecar` | a worker and its replacement: requests are written to the worker they were queued for, in order, and `ProcessExited` is its last event (`Delivered`); a client that says stopped or failed has no process left, even when threads of the first worker outlast their joins and meet the second | 2 processes; 2 requests and 1 line each in time, or no request but shutdowns and a silent worker with joins that expire |
| `sidecar_liveness` | a shutdown ends the process whatever it does, and its exit is reported even if its pipes never end | 1 process, 2 lines |
| `sidecar_stopping` | violation: STOPPING may never be left (below) | 1 process |
| `session` | what a worker hears of a Stream is an unbroken piece of the source, its end after all of it, one credit; one operation at a time, and the presentation follows the Stream (`OneOwner`); a worker that keeps the contract is kept; a Stream whose cancel or end was accepted is released | 2 operations of either kind, 2 chunks, 1 frame each, 2 disturbances of any kind: edit, mode change, removed scene, Stop Worker, failure |
| `session_cancel` | violation: a canceled Stream may never be released (below) | 1 Stream, 1 chunk, 1 mode change |
| `track` | the render cache holds only rows of the audio and settings it claims; a bake is of one moment and ends; the worker is kept; the mesh ends up showing the current frame under the current settings; an exit is reported | 2 frames, 2 values, 2 states of the audio, 1 upload request, 1 batch; 3 disturbances of 12 kinds: Start, Stop, another file, edit, key, frame change, playback, audio, mode, removed scene, bake, failure |
| `channel` | the uploaded chunks are the mix of the strips; a scan leaves the scene as found and records what the user set, for client and worker alike; baked curves are what each frame would show and no artist's Action is written | frames of 1 and of 5 ticks; 2 layouts of strips (overlaps, handles, gaps between samples, strips that cannot be read); chunks of 3 samples, 10 at most; 2 datablocks; 2 edits or failures |
| `release` | what a final name names is whole, of verified downloads and of one build; a process publishes its own work only | 3 processes at a time over 4 builds, 2 files, 2 downloads of 2 chunks from a server that sends up to 3, 2 failures or kills; processes are symmetric |

The disturbances of a session are counted together because a hazard is one or two
of them at the wrong moment.  One disturbance starts a track of `track`, so that
three are a start and two hazards, or a worker that is started again.
Two operations, runs or processes are enough where a hazard is about something
left over by the previous one; three runs are used for engines because an
abandoned, a current and an earlier one can differ.  With three builders two can
overlap a third.  Frames of 1 tick make several frames share a sample; frames of 5
ticks begin every other frame between two samples.  Where requests, runs, edits or
builds are bounded, or the worker exits and a client closes, the system stops, and
deadlock is not checked; `session` checks it, because its timer fires for ever.

`DeliveredInOrder` and `ExitIsLast` (of `Delivered`) are checked for threads
that end within the timeout of their join: a writer thread that outlives it can
take a line, or the sentinel, meant for the writer of the next worker.
`StoppedMeansGone` is checked for a killed process that is gone within the last
wait of `close`; after it the code says stopped whatever happened.
`ConformantWorkerIsKept` has exceptions where the client is at fault or alone: the
worker died or did not greet in time, or its scene is gone and the worker is already
being shut down or its track canceled.  Two faults of the code are of the last kind,
and the property does not see them.  The scene of an upload is removed while a chunk
is on its way: `_handle_error` (runtime.py:2424-2438) takes the `operation_not_found`
of that chunk, which the cancel overtook, for a violation of the contract and shuts
the worker down.  And a scene that is gone when the worker greets: the shutdown that
follows (runtime.py:2079-2082) is not registered, so that its answer is rejected.
`ShownFrameIsCurrent` leaves out two cases that are listed below.

### Fairness

- Worker: both threads are scheduled (`MainContinues`, `OperationThread`, weak).
  Requests, backend failures and spurious wakeups are not fair, so nothing
  depends on a later request or a lucky wakeup.
- Engines: the thread proceeds and Blender's timer polls.  `trtexec` may run for
  ever, so a build is not fair; nor is any user action.
- Client: the timer ticks and polls, the threads run, a killed process goes.  The
  worker need not read, write or exit when asked; a reader whose pipe another
  process holds need not end.
- Track: the timer fires and the worker runs (both weak).  Users and failures promise
  nothing, and a track that is disturbed for ever is not calm.
- Session: the timer fires (weak), the worker and its watch thread run (weak), and
  a tail that is presented again and again ends, because its clock runs (strong:
  the tick is one step of every callback).  No user, source or failure is fair.

## Findings

- `worker_shutdown`: `stop_operation` (protocol.cpp:1288) sets `canceled_` and
  notifies without `state_mutex_`.  Both can fall between the operation thread's
  false predicate and its wait; the notification is lost and the join of
  `shutdown` never returns, where `docs/protocol.md` says that it "stops and joins
  any operation, and exits".  The client's deadlines then terminate the process
  (`sidecar_liveness`).
- `sidecar_stopping`: `begin_shutdown` (sidecar.py:236-251) tests the process in
  one locked section and sets STOPPING in another.  If the worker exits and the
  watch thread records it in between, STOPPING is set for a process that is gone:
  `tick` ignores it, `stop` answers that a shutdown is in progress and `start`
  refuses, where `docs/architecture.md` has "STOPPING --> IDLE".
- `session_cancel`: `input_mode_changed` (runtime.py:1071-1081) cancels a Stream
  whose worker has already sent `stream_ended` and whose tail is presented: the
  presentation is stopped without telling the controller, and the cancel is
  answered `operation_not_found`, which `_handle_error` (runtime.py:2462-2467)
  ignores.  Nothing is left to release the Stream: the status stays "ending",
  later PCM waits for ever and no channel is uploaded until Stop Worker, where
  `docs/architecture.md` says that cancel "returns the model to ready state".

### Seen while modelling

Not runs of their own, but where the model had to follow the code past a plain
statement of the property, or a property had to leave something out:

- A `track_start` that is refused (busy, failed) makes `_fail_selected_track` cancel
  a track the worker never had; the `operation_not_found` of that cancel is ignored
  (runtime.py:2443-2448) and the track stays `cancel_requested`: no upload follows
  until the worker is stopped.  `Calm` of `TrackProperties` excludes it.
- Settings edited while a bake waits for its track to be prepared are neither baked
  nor rendered afterwards (runtime.py:1877-1884), although README.md:223-224 says that
  edits during a bake stay pending; the mesh stays behind them (`session.early`).
- A newer render whose request does not fit a control line is refused while an older
  one runs; publishing the older clears the error (runtime.py:2290-2313) and leaves a
  mesh behind its settings with the status MODEL_READY (`Oversized`).
- Bake, clicked while the replacement of a track is queued, sets an error, and the
  replacement is not uploaded until the next edit.
- Two Shape Key datablocks that share an Action of the add-on: the second clears the
  curves of the first (animation_bake.py:70-71; `Shared` of `ChannelProperties`).
- Two runtime builds that publish at once: the loser's `rmtree` goes on emptying the
  tree that the winner renamed (runtime_build_common.py:1722-1735).  Three extension
  builds: a loser's unlink of the partial archive lets another publish one that is
  still written (build_extension.py:384-403).  `overlapped` leaves both out.
- A failed rollback, or a crash before the install, leaves no engine and orphaned
  backups, which no later run restores (`Damage`).

## Proofs

The theorems hold for every value of the constants that satisfies the named
assumptions of their modules (`WorkerAssumption`, `EngineAssumption`,
`SidecarAssumption`, `ReleaseAssumption`, `SessionAssumption`, `TrackAssumption`,
`TimelineAssumption`, `ChannelAssumption`: bounds are naturals, sizes positive, the
sets a constant ranges over have the shape the code gives them), not only for the
instances above.

**Worker, replies** (`WorkerProofs`).  `TypeCorrect` is
proved action by action.  `OneReplyEach` (`[]ExactlyOneReply`) and `NothingSurvives`
(`[]IdleIsReleased`) need to know that the reply about to be written is not
written yet.  `ExactlyOneReply` does not say that: the request the operation
thread answers could, as far as it is concerned, be one that is already answered.
`Ownership` adds that a deferred request that is queued, in the settings batch or
the command of a track is pending, and is in one of these places only; `Places`
says where the two threads can be together.  `IInv` (`WorkerInvariant`) is the
conjunction; `Invariance` is its induction, with one lemma per action, and it is
what `worker_stream` checks.

**Worker, order** (`WorkerProofs`).  `NothingAfterTheEnd` (`[]TerminalIsLast`)
and `AcceptedCancelWins` (`[]CancelWins`) are about a history that only grows, so the
question is what a line may be when it is written.  Every action is shown to be
`Orderly`: it writes nothing, or one line that `Tells` (a success is of a request of
the current operation, before its end was said and while no cancel was accepted)
or `Announces` (an event is of the current operation, and the end if a cancel was
accepted).  `OrderlyKeeps` shows once that such a step keeps both properties.
What carries the actions is that everything queued or pending was asked of the
current operation (`Current`), that an accepted cancel is seen before the terminal
event is committed, and never falls into the answers to a batch of settings
(`Signaled`), and that a cancel in the main thread's hands holds that event back
(`InTheHands`).

**Worker, contracts** (`WorkerContractProofs`).  `StreamContract` and `TrackContract`
speak of what is queued and of what was said; the induction has to speak of what is
in between, the request the operation thread has taken off the queue, which is of the
current operation, of a method its loop executes, and queued no more (`Serving`).

`QueueIsBounded` is about a sum.  The fold that computes it takes the queue in an order
nobody knows; it is shown to be the number of pairs of a request and one of its
samples (`TotalIsCount`), so that adding and removing a chunk is adding and removing
elements of a finite set.  `StreamIsServed` needs that settings are applied in their
order (`SettingsInOrder`), that nothing is queued behind the end (`EndIsLast`), that a
chunk is answered before it is served (`AnsweredFirst`); the ledger is then an equation
of three cardinalities, of which each step moves one element or none.

`TrackIsServed` needs to know how far a render is: a queued render is the latest and
newer than the one taken (`RendersInOrder`), nothing of the latest is said before it
begins (`LatestOnly`), and while it is executed the batches and the preview on stdout
are exactly those it says it sent (`Rendered`, `Batched`).  Why a render was superseded
is in `Reasons`: there is an accepted one that is at least as new, and what was accepted
stays so until it is answered.  A step says nothing of renders (`Quiet`) and lets them
be (`LetsBe`), or it is a displacement, a batch, a preview or a completion, and each of
these keeps the invariant in a lemma of its own.

**Engines** (`EngineProofs`).  `NeverMixed` needs what a run in the middle of an
activation holds: the engines it found came from one run (`Separate`), nothing of
its own is in place before it starts (`Fresh`), and no other run is activating,
because a run nobody waits for was canceled before it could (`Abandoned`), and
`close` cannot cancel one that holds the lock.  `AbandonedNeverActivates` and
`WorkerSeesOnePair` are action properties read off the same invariant, the second
with `WorkerAlone`: a worker and a current run exclude each other.

**Engines, the abstract store** (`EngineProofs`).  `ActivationIsAtomic` is the
refinement: initial states map to initial states, and under `StoryInv` every rename,
install, rollback and cleanup maps to one step of `EngineStore` or to none; the pair
changes at the one step after which no rollback follows.  `StoryInv` says of each run
which of its files can be where at its stage (`Built`, `Saved`), whose engines it
may still put back (`Unplaced`, `Unsaved`) and what it will report (`Reports`);
`ReportsAreTrue` (`[]OutcomeIsTrue`) follows from the last.

**Client** (`SidecarProofs`).  `OnlyKilledSurvive` says which process a stopped
client may have left, whatever the constants: one that was sent a kill and
outlasted the last wait.  `NoneSurvives` (`[]StoppedMeansGone`) is the case that
there is none, under the hypothesis `~KillExpires` of the run.  The invariant
`StopInv` follows a process that leaves the client's interest (`Gone`) and bounds
what a worker is asked (`Numbered`).  `RequestsAndExitInOrder` (`[]Delivered`) needs
`Threads`, that the threads of a replaced process have ended, and `Handed`, that
what is queued ahead of the first sentinel continues what is written: the requests
of the current worker, in order (one that is put as its worker exits comes after the
sentinel, and is never written).  Both hold only where joins do not expire, which is
the hypothesis of `Delivered` itself.

**Release** (`ReleaseProofs`).  `PublishedWhole` needs what is on its way: a process
that is past the check of a free name has the name, or its partial one, to itself
(`Exclusive`) and knows what it holds (`Handoff`, `Embeds`, `Archive`); no tree
contains a file of an altered download (`Sound`).  All of it is about an output
that no two processes were publishing at once (`Alone`), as the property is.
`OwnWork` is an action property read off the same invariant.

**Session** (`SessionProofs`).  `AudioIsInOrder` and `OneOwnerAtATime` rest on one
invariant, `SessionInv`.  The controller gives an operation up while requests and
lines of it are still on their way; that they do no harm needs that it is `Over` for
the worker too: not served any more and not to be started (`GivenUp`).  So one
start is on its way at a time, to a worker that is free (`OneStart`); a terminal
line is of an operation that is over; a cancel was asked for (`Cancels`); no track
hears anything of a Stream (`Kinds`).  The handlers call each other, so the proof
does not go action by action through all conjuncts: every callback is shown to be
one of three kinds of `Handled` step (it `Keeps` the operations, or
`StartsStream`, or `StartsTrack`; and it `KeepsAudio` or `SendsAudio`), and every
step of the worker `Serves`; that these keep the invariant is shown once.

**Session, the credit** (`SessionProofs`).  `OneCreditAtATime` (`[]OneCredit`)
is about a sum over four places, so the proof begins with what counting in a
sequence does when something is appended or its head is taken; every handler then
has a `Flow` (the credit stays, is spent on a chunk, or comes back with the line that
is handled), and every step of the worker `Balances`.  The sum alone is not
inductive: a Stream that starts to run must find nothing of itself on its way
(`StartIsFirst`).  `ConformantWorkersAreKept` (`ConformantWorkerIsKept`) needs that an
event is of an operation the controller still has (`Expected`), which in turn needs
that nothing follows a terminal event, not even where the presentation plays on
(`LastWord`), because that is what lets the controller forget the operation
(`Dismissed`); `Orphaned` is the exception of the removed scene.  `CreditInv` is the
conjunction, inductive together with `SessionInv`.

**Selected Channel** (`TrackProofs`).  `CacheIsTrue` and `BakesAreCoherent` speak of
what the controller has; what makes them true is what is on its way.  `Whole` ties
the cache and the stage of the track to its audio, its settings and its revision;
`Fits` extends that to every request in the inbox, in the worker's queue and in its
job (`Agrees`) and to every line not handled yet (`Tells`): of the track's own they
carry its audio, a revision no newer than its own, and the settings of that revision
if it is the current one.  That the worker renders the audio of the track (`Fed`) is
not so from the start: the chunks bring it one by one, so the invariant says that
one request of an upload is on its way at a time (`OneUpload`) and that a prepared
track is fed.  A bake is of the track's audio (`BakesTrack`), so what is published
for it is what was asked for.  `Coherence` is the induction.  Its handlers are
operators that call each other, so each has a lemma (it `Keeps` the session coherent
and bakes nothing, or it `Bakes` what the running bake asked for) and the actions are
their compositions; the steps of the worker are compositions of what can happen to
something on its way (read, queued, taken, told, lost).  `TypeCorrect` bounds the
numbers of operations and revisions, which needs to know what caused each (`Caused`):
a disturbance pays for an operation when the audio or the mode changes, and keeps
paying while the restart is queued (`Owed`, `Spare`); for a revision when a scan is
asked for, or the preparation ends (`Affords`).

**Selected Channel, its data** (`ChannelProofs`).  Four theorems, for all layouts of
strips, frame rates, chunk sizes, curves and datablocks.

- `ChannelHeard` (`[]WholeChannelHeard`).  A clip is read as what is heard at a
  position wherever a chunk cuts it (`ReadIsHeard`, `ContributionIsVoice`), so the mix
  of a chunk is a sum over the clips that sound *in the chunk*, and the channel one
  over those that sound *at the sample*; the others add nothing.  A sum is a fold over
  a set: it is counted as the units it has less the units it lacks (`SumIsBalance`),
  where the library's facts about cardinalities apply (`ChunkIsChannel`).  A file is
  open from the chunk its clip is first heard in to the last, which is why none is
  opened twice (`Reading`).
- `SettingsAreAuthored` (`[]TimelineIsAuthored`).  The two folds of
  `_settings_timeline` and the fold of the worker are functions given by what they do
  to each prefix; that they exist and are what `FoldLeft` chooses is shown once
  (`FoldExists`, `FoldUnique`), by induction over the set of positions at which a claim
  holds.  The entries of a scan are in order because a later frame is never at an
  earlier sample (`FramesGrow`); of those that share one the last is kept
  (`KeepsLast`); the patches and the snapshots say the same of each kept entry
  (`TimelineRecords`), and adding the patches up gives what the search finds, at every
  sample (`WorkerAgrees`).  The scene is as it was found because a scan changes only
  the cursor and values that have curves (`Visited`), both of which are put back.
- `BakesAreWhole` (`BakeIsWhole`).  An artist's Action is not written because a
  datablock is written to the Action of a former bake or to a new one (`Written`).
  That what is written is still there at the end needs to be known of every datablock
  that is done, unless another that is done has the same Action (`WrittenOK`); that it
  is what going to each frame shows needs that the samples of the bake are those of
  its own scan (`BakeOK`, `Seen`), which holds because no other scan and no other
  source comes while a bake waits.
- `ChannelTypeOK` (`[]TypeOK`).  The bound of Actions is kept because a bake that is
  planned counts on one for each of its datablocks (`Pending`).

`ChannelInvariant` is the induction behind all four: the scene, the datablocks, the
track, the scan, the bake, the Actions and what was written, each with a lemma over
all actions.  `ChannelInv` was checked on the instance of `channel` before it was
proved.  `ChannelAssumption` says what every F-Curve of Blender has: a value at the
frames the channel spans, the frame of the cursor and all frames between.

Only model-checked: liveness (fairness is out of the prover's reach), and
`ConformantWorkerIsKept` of the Selected Channel.

## Not modelled

- The frame buffer of a presentation against its clock (`live_stream.py`): its times
  are reals that drift, and the trimming is about the drift; a model with a few
  integer instants would show none of it.
- The codec, the path contract, runtime bundle and model inputs: checks of one
  document, path or directory, with no state between two calls.
- What Blender, the CUDA executors, `trtexec` and the decoders compute.
- In the release: the rules of archive extraction, CMake, ELF and PE audits, the
  container runner, and the repository index.
- Several scenes in one file with an operation each, malformed lines, messages and
  progress shown to the user.

## Plan

What is left is of two kinds.

1. `ConformantWorkerIsKept` of the Selected Channel.  The proof for a Stream rests on
   `Expected`, `LastWord` and `Dismissed`; the same has to be said of the lines of a
   track while operations are replaced and restarted.
2. The frame buffer of a presentation, if its clock is ever put on whole frames.
