---------------------------- MODULE TrackSession ----------------------------
(***************************************************************************)
(* The controller of a Selected Channel session.  A method of the          *)
(* RuntimeController is an operator from the session to the session, and   *)
(* `s' is the scene it runs in; the actions are the callbacks of Blender's *)
(* main thread, the timer callback one line of the worker at a time.       *)
(***************************************************************************)
EXTENDS TrackWorker

\* client.request raises when this is false.  The client may still say that
\* it runs after its process died.
CanRequest(c) == c.client = "running" /\ process = "up"

Submit(c, request) == [c EXCEPT !.inbox = Append(@, request)]

TrackRequest(c, method) ==
  [NoRequest EXCEPT !.method = method, !.operation = c.track.id]

\* _set_status leaves a scene alone that cannot be edited.
SetStatus(c, s, status) ==
  IF s.available THEN [c EXCEPT !.status = status] ELSE c

ReleaseBake(c) == [c EXCEPT !.bake = NoBake]

\* _release_selected_track
ReleaseTrack(c) == [c EXCEPT !.track = NoTrack, !.invalidated = FALSE]

\* _clear_model_state
ForgetModel(c) ==
  [c EXCEPT !.observed = Unobserved,
            !.phase = IF @ = "loaded" THEN "negotiated" ELSE @]

\* client.begin_shutdown
BeginShutdown(c) ==
  IF process # "up" THEN [c EXCEPT !.client = "stopped"]
  ELSE IF c.client = "stopping" THEN c
  ELSE [Submit(c, [NoRequest EXCEPT !.method = "shutdown"]) EXCEPT
          !.client = "stopping"]

\* _reject_worker_contract
Reject(c, s) ==
  IF c.rejected THEN c
  ELSE BeginShutdown(SetStatus(
         [ReleaseBake(ReleaseTrack(ForgetModel(c))) EXCEPT
            !.rejected = TRUE, !.expected = TRUE, !.phase = "none"],
         s, "error"))
-----------------------------------------------------------------------------
CanCancel(c) == c.track.canceled \/ CanRequest(c)

\* _cancel_selected_track, when it does not raise.
CancelTrack(c, restart) ==
  IF c.track.canceled
  THEN [c EXCEPT !.track.restart = @ \/ restart]
  ELSE [Submit(c, TrackRequest(c, "cancel")) EXCEPT
          !.track.canceled = TRUE, !.track.restart = restart]

\* _fail_selected_track: the same input is not tried again.
FailTrack(c, s, status) ==
  LET failed == SetStatus([ReleaseBake(c) EXCEPT !.track.stage = NoStage],
                          s, status) IN
  IF CanCancel(c)
  THEN [CancelTrack(failed, FALSE) EXCEPT !.track.restart = FALSE]
  ELSE ReleaseTrack(failed)

\* selected_audio_failed
AudioFailed(c, s, status) ==
  IF c.track.id # None THEN FailTrack(c, s, status)
  ELSE SetStatus(c, s, status)

\* _selected_channel_snapshot of a valid channel; of an invalid one it raises.
Snapshot(c, s) ==
  IF c.observed = Invalid /\ c.status = "error channel"
  THEN SetStatus(c, s, "ready") ELSE c

Observe(c, source) == [c EXCEPT !.observed = source]

\* _ensure_selected_track.  What it raises becomes the status.
EnsureTrack(c, s) ==
  IF s.mode # "SELECTED" \/ c.client # "running" \/ c.phase # "loaded" THEN c
  ELSE IF s.source = Invalid
  THEN SetStatus(Observe(c, Invalid), s, "error channel")
  ELSE LET seen == Observe(Snapshot(c, s), s.source) IN
    IF seen.track.id # None THEN seen
    ELSE IF ~CanRequest(c) THEN SetStatus(seen, s, "error")
    ELSE LET started == [seen EXCEPT
               !.operations = @ + 1,
               !.track = [NoTrack EXCEPT !.id = seen.operations + 1,
                            !.source = s.source, !.left = Blocks]] IN
         SetStatus(Submit(started, TrackRequest(started, "track_start")),
                   s, "uploading")

\* selected_audio_changed, and selected_audio_failed when it raises.
AudioChanged(c, s) ==
  IF s.source = Invalid
  THEN AudioFailed(Observe(c, Invalid), s, "error channel")
  ELSE IF c.track.id = None THEN EnsureTrack(c, s)
  ELSE LET seen == Observe(Snapshot(ReleaseBake(c), s), s.source) IN
    IF CanCancel(seen) THEN SetStatus(CancelTrack(seen, TRUE), s, "ready")
    ELSE AudioFailed(seen, s, "error")

SameAsObserved(c, s) == s.source = c.observed

\* refresh_selected_channel
RefreshChannel(c, s) ==
  IF \/ ~s.available \/ s.mode # "SELECTED" \/ c.expected
     \/ c.client # "running" \/ c.phase # "loaded"
  THEN c
  ELSE IF s.source # Invalid /\ SameAsObserved(c, s) THEN Snapshot(c, s)
  ELSE AudioChanged(IF s.source = Invalid THEN c ELSE Snapshot(c, s), s)

\* input_mode_changed, as far as the track is concerned.
ModeChanged(c, s) ==
  IF c.track.id = None
  THEN IF s.mode = "SELECTED" THEN EnsureTrack(c, s) ELSE c
  ELSE IF ~CanCancel(c) THEN SetStatus(ReleaseBake(c), s, "error")
  ELSE EnsureTrack(
         SetStatus(CancelTrack(ReleaseBake(c), s.mode = "SELECTED"),
                   s, "ready"), s)

\* _complete_selected_track_cancel
CancelCompleted(c, s) ==
  LET released == ReleaseTrack(ReleaseBake(c))
      restarts == c.track.restart /\ c.status = "ready"
      next == IF restarts THEN EnsureTrack(released, s) ELSE released IN
  IF ~s.available \/ c.expected \/ c.client # "running" THEN released
  ELSE IF next.track.id # None \/ next.status \in Errors THEN next
  ELSE SetStatus(next, s, "ready")

\* _cancel_orphaned_operation
CancelOrphan(c, s) ==
  IF s.available \/ (c.track.id = None /\ ~c.bake.on) THEN c
  ELSE IF c.track.id = None \/ c.track.canceled THEN ReleaseBake(c)
  ELSE IF CanCancel(c) THEN CancelTrack(ReleaseBake(c), FALSE)
  ELSE Reject(ReleaseTrack(ReleaseBake(c)), s)
-----------------------------------------------------------------------------
\* The track can be rendered and shown.
Prepared(c) == c.track.id # None /\ c.track.prepared /\ ~c.track.canceled

\* _settings_timeline_matches_current_frame
Matches(s, timeline) == s.frame \in Frames /\ timeline[s.frame] = s.shown

\* _apply_selected_cache
ApplyCache(c, s) ==
  IF s.frame = Outside THEN [c EXCEPT !.mesh = Neutral]
  ELSE IF c.track.cache = {} THEN c
  ELSE [c EXCEPT !.mesh = [frame |-> s.frame, rows |-> c.track.cache]]

\* request_selected_frame
RequestFrame(c, s) ==
  IF ~s.available \/ s.mode # "SELECTED" \/ ~Prepared(c) THEN c
  ELSE IF s.source = Invalid
  THEN FailTrack(Observe(c, Invalid), s, "error channel")
  ELSE IF s.source # c.track.source THEN Snapshot(c, s)
  ELSE ApplyCache(Snapshot(c, s), s)

\* Fault: a rendered timeline is kept, whatever was asked for since.
RenderedOnce(c, timeline) == c.track.published = timeline

\* What _request_track_render finds done, ...
Published(c, timeline) ==
  c.track.published = timeline /\ c.track.stage = NoStage
Rendering(c, timeline) ==
  c.track.rendering = timeline /\ c.track.stage # NoStage

\* ... raises at ...
RenderRaises(c, timeline) ==
  /\ Prepared(c) /\ ~Published(c, timeline) /\ ~Rendering(c, timeline)
  /\ ~CanRequest(c) \/ timeline \in Oversized

\* ... and does.
RequestRender(c, s, timeline) ==
  IF ~Prepared(c) \/ Rendering(c, timeline) THEN c
  ELSE IF Published(c, timeline)
  THEN SetStatus([c EXCEPT !.track.failed = FALSE], s,
                 IF c.track.failed /\ c.status = "error render" THEN "ready"
                 ELSE c.status)
  ELSE LET revision == c.track.revision + 1 IN
       Submit([c EXCEPT
                 !.track.revision = revision,
                 !.track.rendering = timeline,
                 !.track.stage = [NoStage EXCEPT !.revision = revision]],
              [TrackRequest(c, "track_render") EXCEPT
                 !.revision = revision, !.timeline = timeline,
                 !.preview = s.frame])

RenderFailed(c, s) ==
  SetStatus([c EXCEPT !.track.failed = TRUE], s, "error render")

\* _request_track_render for the preview, and its except clause.
TryRender(c, s, timeline) ==
  IF RenderRaises(c, timeline) THEN RenderFailed(c, s)
  ELSE RequestRender(c, s, timeline)

\* invalidate_selected_settings
Invalidate(c, s) ==
  IF s.available /\ s.mode = "SELECTED" /\ c.track.id # None
     /\ ~c.track.canceled
  THEN [c EXCEPT !.invalidated = TRUE] ELSE c

\* refresh_inference_settings of a Selected Channel
RefreshInference(c, s) ==
  IF ~s.available \/ c.expected \/ s.mode # "SELECTED" \/ ~Prepared(c) THEN c
  ELSE IF ~Matches(s, c.track.rendering) THEN Invalidate(c, s)
  ELSE IF c.track.failed /\ Published(c, c.track.rendering)
  THEN RequestFrame(RequestRender(c, s, c.track.rendering), s)
  ELSE c

\* Fault: a bake does not hold back the rescan.
BlockedByPlayback(c, s) == s.playing

RescanBlocked(c, s) == c.bake.on \/ s.playing

\* _refresh_invalidated_selected_settings
RefreshInvalidated(c, s) ==
  IF ~c.invalidated THEN c
  ELSE IF ~s.available \/ c.expected THEN [c EXCEPT !.invalidated = FALSE]
  ELSE IF RescanBlocked(c, s) \/ ~Prepared(c) THEN c
  ELSE RequestFrame(TryRender([c EXCEPT !.invalidated = FALSE], s,
                              Evaluated(s)), s)
-----------------------------------------------------------------------------
\* _finish_bake.  Blender evaluates the new Actions at the current frame.
FinishBake(c, s) ==
  IF c.track.cache = {} \/ c.track.published # c.bake.timeline THEN c
  ELSE LET written == [ReleaseBake(c) EXCEPT
             !.baked = c.track.cache,
             !.mesh = [frame |-> s.frame, rows |-> c.track.cache]] IN
       RefreshInvalidated(
         IF c.status = "baking" THEN SetStatus(written, s, "ready")
         ELSE written, s)

\* _fail_bake
FailBake(c, s, status) ==
  IF ~c.bake.on THEN c
  ELSE RefreshInvalidated(
         IF c.status = "baking" THEN SetStatus(ReleaseBake(c), s, status)
         ELSE ReleaseBake(c), s)

\* Fault: the track that is being replaced is baked.
AnyTrack(c, s) == FALSE

Replacing(c, s) == c.track.source # s.source \/ c.track.canceled

\* bake_selected_audio, and _run_runtime for what it raises; a bake that is
\* done at once may not be written.
StartBake(c, s, written) ==
  IF s.source = Invalid
  THEN SetStatus(Observe(c, Invalid), s, "error channel")
  ELSE LET seen == Snapshot(c, s)
           ready == IF c.track.id = None THEN EnsureTrack(seen, s) ELSE seen
           timeline == Evaluated(s)
           baking == SetStatus([ready EXCEPT
                       !.bake = [on |-> TRUE, source |-> s.source,
                                 timeline |-> timeline],
                       !.early = ~ready.track.prepared], s, "baking") IN
    IF c.phase # "loaded" \/ ready.track.id = None \/ Replacing(ready, s)
    THEN SetStatus(ready, s, "error")
    ELSE IF ready.track.published = timeline /\ written
    THEN FinishBake(baking, s)
    ELSE IF ready.track.published = timeline \/ RenderRaises(baking, timeline)
    THEN SetStatus(ReleaseBake(baking), s, "error")
    ELSE RequestRender(baking, s, timeline)

\* cancel_bake
CancelBake(c, s) ==
  LET released == IF c.status = "baking"
                  THEN SetStatus(ReleaseBake(c), s, "ready")
                  ELSE ReleaseBake(c) IN
  IF c.invalidated THEN RefreshInvalidated(released, s)
  ELSE RefreshInference(released, s)

\* start; client.start drops what is left of the worker before.
StartWorker(c, s) ==
  SetStatus(
    [ReleaseBake(ReleaseTrack(ForgetModel(c))) EXCEPT
       !.phase = "greeting", !.rejected = FALSE, !.expected = FALSE,
       !.registered = FALSE, !.client = "running", !.inbox = <<NoRequest>>],
    s, "starting")

\* stop
StopWorker(c, s) ==
  IF c.client = "stopped"
  THEN SetStatus(ReleaseBake(ReleaseTrack(ForgetModel(c))), s, "idle")
  ELSE IF c.client = "stopping" THEN SetStatus(c, s, "stopping")
  ELSE SetStatus(BeginShutdown([c EXCEPT !.expected = TRUE,
                                         !.registered = TRUE]),
                 s, "stopping")
-----------------------------------------------------------------------------
\* _send_next_track_chunk
SendNext(c, s) ==
  IF c.track.canceled THEN c
  ELSE IF ~CanRequest(c) THEN FailTrack(c, s, "error")
  ELSE IF c.track.left > 0
  THEN Submit([c EXCEPT !.track.left = @ - 1],
              [TrackRequest(c, "track_chunk") EXCEPT
                 !.source = c.track.source])
  ELSE SetStatus(Submit(c, TrackRequest(c, "track_prepare")), s,
                 IF c.status = "uploading" THEN "preparing" ELSE c.status)

\* The response to track_prepare.
TrackPrepared(c, s) ==
  LET prepared == [c EXCEPT !.track.prepared = TRUE]
      scanned == [prepared EXCEPT !.invalidated = FALSE] IN
  IF c.bake.on
  THEN IF RenderRaises(prepared, c.bake.timeline)
       THEN FailBake(prepared, s, "error")
       ELSE RequestRender(prepared, s, c.bake.timeline)
  ELSE IF s.playing THEN Invalidate(prepared, s)
  ELSE TryRender(scanned, s, Evaluated(s))

\* Fault: what was rendered is not told from what was asked for since.
PublishLatest(c) == Evaluated(scene)

PublishRendering(c) == c.track.rendering

\* The complete revision is published at once, and shown or baked.
Publish(c, s) ==
  LET published == [c EXCEPT
        !.track.cache = c.track.stage.rows, !.track.stage = NoStage,
        !.track.published = PublishRendering(c), !.track.failed = FALSE]
      shown == IF \/ /\ c.track.published = NoTimeline
                     /\ c.status \in {"uploading", "preparing"}
                  \/ c.track.failed /\ c.status = "error render"
               THEN SetStatus(published, s, "ready") ELSE published IN
  IF c.bake.on THEN FinishBake(published, s) ELSE RequestFrame(shown, s)

\* The response to track_render.
TrackRendered(c, s, line) ==
  IF line.revision # c.track.revision THEN c
  ELSE IF c.track.stage.revision # line.revision THEN Reject(c, s)
  ELSE IF line.code = "superseded" THEN [c EXCEPT !.track.stage = NoStage]
  ELSE IF c.track.stage.count # Batches THEN Reject(c, s)
  ELSE Publish(c, s)

\* _handle_response
Response(c, s, line) ==
  IF line.method = "shutdown" /\ ~c.registered THEN Reject(c, s)
  ELSE IF c.expected \/ line.method = "shutdown" THEN c
  ELSE IF ~s.available
  THEN IF line.method = "hello"
       THEN BeginShutdown([c EXCEPT !.expected = TRUE]) ELSE c
  ELSE IF line.method = "hello"
  THEN SetStatus(Submit([c EXCEPT !.phase = "negotiated"],
                        [NoRequest EXCEPT !.method = "load_model"]), s,
                 IF c.status = "starting" THEN "loading" ELSE c.status)
  ELSE IF line.method = "load_model"
  THEN LET loaded == [c EXCEPT !.phase = "loaded"] IN
       IF c.status = "loading" THEN EnsureTrack(SetStatus(loaded, s, "ready"), s)
       ELSE loaded
  ELSE IF c.track.id # line.operation \/ line.method = "cancel" THEN c
  ELSE IF line.method \in {"track_start", "track_chunk"} THEN SendNext(c, s)
  ELSE IF c.track.canceled THEN c
  ELSE IF line.method = "track_prepare" THEN TrackPrepared(c, s)
  ELSE TrackRendered(c, s, line)

\* _handle_error.  Nothing but the refusal of a cancel is ever answered to a
\* canceled track.
Refusal(c, s, line) ==
  IF c.expected THEN c
  ELSE IF line.operation = None THEN SetStatus(c, s, "error")
  ELSE IF c.track.id # line.operation THEN c
  ELSE IF ~s.available
  THEN IF line.method = "cancel" THEN c
       ELSE Reject(ReleaseTrack(ReleaseBake(c)), s)
  ELSE LET noted == IF line.method = "track_render"
                    THEN [c EXCEPT !.track.stage = NoStage,
                                   !.track.failed = TRUE] ELSE c IN
    IF c.track.canceled THEN noted
    ELSE IF line.method # "track_render" THEN FailTrack(c, s, "error")
    ELSE IF c.bake.on THEN FailBake(noted, s, "error render")
    ELSE RenderFailed(noted, s)

\* Fault: rows of a revision that is no longer wanted are taken.
AnyRevision(c, line) == ~c.track.canceled

Wanted(c, line) == ~c.track.canceled /\ line.revision = c.track.revision

Preview(c, s, line) ==
  IF /\ Wanted(c, line) /\ s.available /\ s.frame = line.preview
     /\ Matches(s, c.track.rendering)
  THEN [c EXCEPT !.mesh = [frame |-> s.frame, rows |-> line.rows]] ELSE c

FrameBatch(c, s, line) ==
  IF ~Wanted(c, line) THEN c
  ELSE IF \/ c.track.stage.revision # line.revision
          \/ c.track.stage.count # line.offset
  THEN Reject(c, s)
  ELSE [c EXCEPT !.track.stage.count = @ + 1,
                 !.track.stage.rows = @ \cup line.rows]

\* _handle_event and _handle_track_event
TrackEvent(c, s, line) ==
  IF c.expected
  THEN IF c.track.id = line.operation /\ line.type \in {"track_ended", "error"}
       THEN ReleaseTrack(ReleaseBake(c)) ELSE c
  ELSE IF c.track.id # line.operation THEN Reject(c, s)
  ELSE IF line.type = "track_preview" THEN Preview(c, s, line)
  ELSE IF line.type = "track_frame_batch" THEN FrameBatch(c, s, line)
  ELSE IF line.type = "track_ended" THEN CancelCompleted(c, s)
  ELSE SetStatus(ReleaseTrack(ReleaseBake(c)), s, "error")

\* ProcessExited
Exited(c, s, line) ==
  LET released == [ReleaseBake(ReleaseTrack(ForgetModel(c))) EXCEPT
                     !.phase = "none", !.expected = FALSE] IN
  IF c.rejected \/ ~c.expected \/ line.code # "exited"
  THEN SetStatus(released, s, "error")
  ELSE IF c.status \in Errors THEN released
  ELSE SetStatus(released, s, "idle")

\* poll: one event of the batch.
Handle(c, s, line) ==
  IF line.type = "exited" THEN Exited(c, s, line)
  ELSE IF c.rejected THEN c
  ELSE IF line.type # "reply" THEN TrackEvent(c, s, line)
  ELSE IF line.code \in {"ok", "superseded"} THEN Response(c, s, line)
  ELSE Refusal(c, s, line)
-----------------------------------------------------------------------------
MainThreadOnly == UNCHANGED <<process, serving>>

\* Fault: a worker that was told to stop is not listened to.
LinesOfRunning == IF session.client = "running" THEN Len(lines) ELSE 0

LinesThere == Len(lines)

\* poll up to client.poll(), which takes the lines there are.  A poll that
\* finds nothing to do is left out.
PollBegins ==
  /\ pc = "idle" /\ pc' = "lines"
  /\ batch' = LinesThere
  /\ session' = CancelOrphan(
       RefreshInvalidated(RefreshChannel(session, scene), scene), scene)
  /\ batch' > 0 \/ session' # session \/ session.phase = "greeting"
  /\ MainThreadOnly /\ UNCHANGED <<scene, lines, disturbed>>

NextLine ==
  /\ pc = "lines" /\ batch > 0
  /\ MainThreadOnly /\ UNCHANGED scene

\* load_model cannot be sent.
LoadRaises(c, s, line) ==
  /\ line.type = "reply" /\ line.method = "hello"
  /\ ~c.expected /\ ~c.rejected /\ s.available /\ ~CanRequest(c)

HandleLine ==
  /\ NextLine
  /\ ~LoadRaises(session, scene, Head(lines))
  /\ session' = Handle(session, scene, Head(lines))
  /\ batch' = batch - 1 /\ lines' = Tail(lines)
  /\ UNCHANGED <<pc, disturbed>>

\* The line completes a render or an upload of the track.
Reads(method) ==
  LET line == Head(lines) IN
  /\ line.type = "reply" /\ line.method = method /\ line.code = "ok"
  /\ ~session.expected /\ ~session.rejected /\ scene.available
  /\ session.track.id = line.operation /\ ~session.track.canceled

\* The channel's audio cannot be read.
AudioUnreadable ==
  /\ NextLine /\ Disturbs("failure")
  /\ Reads("track_start") /\ session.track.left > 0
  /\ session' = FailTrack(session, scene, "error")
  /\ batch' = batch - 1 /\ lines' = Tail(lines)
  /\ UNCHANGED pc

\* Fault: the callback goes on where the batch that it lost was.
BatchGoesOn(c) ==
  /\ NextLine
  /\ session' = SetStatus(ReleaseBake(c), scene, "error")
  /\ pc' = "lines" /\ batch' = batch - 1
  /\ lines' = SubSeq(lines, batch + 1, Len(lines))

\* _timer_callback's except clause: the rest of the batch is lost.
CallbackFails(c) ==
  /\ NextLine
  /\ session' = SetStatus([ReleaseBake(c) EXCEPT !.track.failed = FALSE],
                          scene, "error")
  /\ pc' = "idle" /\ batch' = 0
  /\ lines' = SubSeq(lines, batch + 1, Len(lines))

LoadFails ==
  /\ pc = "lines" /\ batch > 0 /\ LoadRaises(session, scene, Head(lines))
  /\ CallbackFails([ForgetModel(session) EXCEPT !.phase = "negotiated"])
  /\ UNCHANGED disturbed

\* The line completes the render that a bake waits for, and publishes it.
CompletesBake ==
  /\ pc = "lines" /\ batch > 0 /\ Reads("track_render") /\ session.bake.on
  /\ Disturbs("failure")
  /\ Head(lines).revision = session.track.revision
  /\ session.track.stage.revision = session.track.revision
  /\ session.track.stage.count = Batches
  /\ session.track.rendering = session.bake.timeline

PublishedBake ==
  [session EXCEPT
     !.track.cache = session.track.stage.rows, !.track.stage = NoStage,
     !.track.published = session.track.rendering, !.track.failed = FALSE]

\* Writing the Actions of the bake fails ...
BakeNotWritten ==
  /\ CompletesBake /\ NextLine
  /\ session' = FailBake(PublishedBake, scene, "error")
  /\ batch' = batch - 1 /\ lines' = Tail(lines)
  /\ UNCHANGED pc

\* ... or raises ReferenceError, which no handler expects, as a target of the
\* bake was deleted.
BakeTargetDeleted == CompletesBake /\ CallbackFails(PublishedBake)

\* The rest of poll: the deadline of the handshake may have passed.
PollEnds ==
  /\ pc = "lines" /\ batch = 0 /\ pc' = "idle"
  /\ MainThreadOnly /\ UNCHANGED <<batch, scene, lines>>
  /\ \/ UNCHANGED <<session, disturbed>>
     \/ /\ session.phase = "greeting" /\ ~session.expected
        /\ session.client = "running"
        /\ Disturbs("failure")
        /\ session' = Reject(session, scene)

Timer ==
  \/ PollBegins
  \/ HandleLine
  \/ LoadFails
  \/ PollEnds
-----------------------------------------------------------------------------
\* Blender's user interface runs between callbacks of the timer.
Idling == pc = "idle" /\ scene.available

Callback(kind) ==
  /\ Idling /\ Disturbs(kind)
  /\ UNCHANGED <<pc, batch, lines, process, serving>>

Start ==
  /\ Idling /\ session.client = "stopped" /\ Disturbs("start")
  /\ session' = StartWorker(session, scene)
  /\ lines' = <<>> /\ process' = "up" /\ serving' = Idle
  /\ UNCHANGED <<pc, batch, scene>>

Stop ==
  /\ Callback("stop")
  /\ session' = StopWorker(session, scene)
  /\ UNCHANGED scene

\* An edit of a setting without key frames changes all frames, that of an
\* animated one waits for a key.  The update callback runs, and the depsgraph
\* handler.
Edit ==
  /\ Callback("edit")
  /\ \E v \in Values \ {scene.shown} :
       \/ scene' = [scene EXCEPT !.shown = v]
       \/ /\ \A f, g \in Frames : scene.curve[f] = scene.curve[g]
          /\ scene' = [scene EXCEPT !.shown = v,
                                    !.curve = [f \in Frames |-> v]]
  /\ session' = RefreshChannel(RefreshInference(session, scene'), scene')

\* Keys are set, moved or removed: the depsgraph handler sees the Action.
EditKeys ==
  /\ Callback("key")
  /\ \E curve \in Timelines \ {scene.curve} : \E f \in Frames :
       /\ scene.frame = Outside \/ f = scene.frame
       /\ scene' = [scene EXCEPT !.curve = curve, !.shown = curve[f]]
  /\ session' = Invalidate(RefreshChannel(session, scene'), scene')

\* refresh_frame_inference_settings
RefreshFrame(c, s) ==
  IF s.mode = "SELECTED" /\ s.frame = Outside THEN c
  ELSE RefreshInference(c, s)

\* _frame_change_post_handler, after Blender evaluated the curves.
ChangeFrame ==
  /\ Callback("frame")
  /\ \E frame \in ({Outside} \cup Frames) \ {scene.frame} : \E f \in Frames :
       /\ frame = Outside \/ f = frame
       /\ scene' = [scene EXCEPT !.frame = frame, !.shown = scene.curve[f]]
  /\ session' = RequestFrame(RefreshFrame(session, scene'), scene')

\* _native_frame_scan_blocked
Play ==
  /\ Callback("playback") /\ ~scene.playing
  /\ scene' = [scene EXCEPT !.playing = TRUE]
  /\ UNCHANGED session

Pause ==
  /\ Idling /\ scene.playing
  /\ scene' = [scene EXCEPT !.playing = FALSE]
  /\ UNCHANGED <<pc, batch, session, lines, process, serving, disturbed>>

\* The channel's strips change, or another channel is chosen.
ChangeSource ==
  /\ Callback("source")
  /\ \E source \in ({Invalid} \cup Sources) \ {scene.source} :
       scene' = [scene EXCEPT !.source = source]
  /\ \/ session' = RefreshChannel(session, scene')
     \/ session' = AudioChanged(session, scene')

ChangeMode ==
  /\ Callback("mode")
  /\ scene' = [scene EXCEPT
       !.mode = IF @ = "SELECTED" THEN "STREAM" ELSE "SELECTED"]
  /\ session' = ModeChanged(session, scene')

RemoveScene ==
  /\ Callback("removal")
  /\ scene' = [scene EXCEPT !.available = FALSE]
  /\ UNCHANGED session

Bake ==
  /\ Callback("bake")
  /\ scene.mode = "SELECTED" /\ session.client = "running"
  /\ session.phase \in {"negotiated", "loaded"} /\ ~session.bake.on
  /\ \E written \in BOOLEAN : session' = StartBake(session, scene, written)
  /\ UNCHANGED scene

Unbake ==
  /\ Callback("bake") /\ session.bake.on
  /\ session' = CancelBake(session, scene)
  /\ UNCHANGED scene

\* load_pre closes the controller with its worker, load_post makes another for
\* the file that is loaded.
LoadFile ==
  /\ pc = "idle" /\ Disturbs("reload")
  /\ scene' = NewScene /\ session' = Fresh
  /\ lines' = <<>> /\ process' = "none" /\ serving' = Idle
  /\ UNCHANGED <<pc, batch>>

Next ==
  \/ Start
  \/ Stop
  \/ Edit
  \/ EditKeys
  \/ ChangeFrame
  \/ Play
  \/ Pause
  \/ ChangeSource
  \/ ChangeMode
  \/ RemoveScene
  \/ Bake
  \/ Unbake
  \/ LoadFile
  \/ Timer
  \/ AudioUnreadable
  \/ BakeNotWritten
  \/ BakeTargetDeleted
  \/ WorkerRuns
  \/ WorkerCommits
  \/ WorkerDies

Spec == Init /\ [][Next]_vars

\* Blender's timer fires, and the worker and the watch thread run.  Users and
\* failures promise nothing.
FairSpec == Spec /\ WF_vars(Timer) /\ WF_vars(WorkerRuns)
=============================================================================
