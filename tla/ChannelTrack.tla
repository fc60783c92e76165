---------------------------- MODULE ChannelTrack ----------------------------
(***************************************************************************)
(* A Selected Channel from its strips to its baked curves: the audio that  *)
(* is read chunk by chunk (audio2face/selected_audio_timeline.py), the     *)
(* scan of the scene's settings frame by frame, the rows rendered from     *)
(* both, what they show, and the Actions a bake writes                     *)
(* (audio2face/runtime.py, animation_bake.py, shape_keys.py).              *)
(*                                                                         *)
(* A scan and the writing of the Actions run in one callback of the main   *)
(* thread: only the handlers they trigger come between their steps.  When  *)
(* a render is due, and the requests to the worker, are the subject of     *)
(* TrackSession: here one may be due at any time.                          *)
(***************************************************************************)
EXTENDS ChannelTimeline

CONSTANTS
  Layouts,    \* sets of strips the Sequencer may hold
  Rates,      \* ticks a frame may last
  Curves,     \* F-Curves of the settings: name -> half frame -> value
  Cursors,    \* half frames the cursor may be at
  Edited,     \* values a setting may be given by hand
  Meshes,     \* Shape Key datablocks of the target objects
  Named,      \* sets of model channels a datablock has keys for
  MaxActions, \* bound: Actions of the file
  MaxUsed     \* bound: edits of users, and failures

Channels == {"jaw", "brow"}
Leaves == {"strength", "emotion"}
Fields == Leaves \cup {"delay"}  \* TIMELINE_SETTING_FIELDS

Strips == [channel : Int, start : Int, stop : Int, origin : Int, trim : Int,
           offset : Int, volume : Int, muted : BOOLEAN, sound : DOMAIN Recorded,
           processed : BOOLEAN]

\* Half frames at which the settings of a scene with these strips are read.
ReadAt(strips) ==
  {0, 2} \cup Cursors \cup {2 * s.start : s \in strips}
    \cup {2 * (s.stop - 1) : s \in strips}

ASSUME ChannelAssumption ==
  /\ \A strips \in Layouts :
       IsFiniteSet(strips) /\ \A s \in strips : s \in Strips
  /\ \A curves \in Curves :
       /\ DOMAIN curves \subseteq Fields
       /\ \A name \in DOMAIN curves :
            LET times == DOMAIN curves[name] IN
            /\ \A strips \in Layouts : ReadAt(strips) \subseteq times
            /\ \A at, until \in times : at..until \subseteq times
            /\ \A at \in times : curves[name][at] \in Int
  /\ Cursors \cup Edited \subseteq Int
  /\ Named \subseteq SUBSET Channels /\ Rates \subseteq Nat \ {0}
  /\ IsFiniteSet(Meshes) /\ MaxActions \in Nat \ {0} /\ MaxUsed \in Nat

VARIABLES
  pc,      \* what the main thread goes on with
  scene,   \* strips, settings and cursor
  meshes,  \* the Shape Key datablocks: keys, their values and the Action
  actions, \* Actions of the file
  track,   \* SelectedTrack and its audio source
  files,   \* clips whose decoded audio is open
  scan,    \* the last scan of the settings
  bake,    \* ActiveBake
  used     \* number of edits and failures

vars == <<pc, scene, meshes, actions, track, files, scan, bake, used>>

Absent == 0  \* no Action
Nothing == [payload |-> <<>>, snapshots |-> <<>>]
NoSource == [channel |-> 0, ticks |-> 0, clips |-> {}, first |-> 0, last |-> 0]
NoTrack == [phase |-> "none", source |-> NoSource, start |-> 0,
            opened |-> <<>>, audio |-> <<>>, wanted |-> Nothing,
            published |-> Nothing, rows |-> <<>>]
NoBake == [phase |-> "none", targets |-> <<>>, todo |-> {},
           timeline |-> Nothing, samples |-> <<>>]
Neutral == [c \in Channels |-> 0]

\* The settings Blender shows at a half frame: F-Curves overwrite values.
Evaluated(curves, values, at) ==
  [name \in Fields |->
     IF name \in DOMAIN curves THEN curves[name][at] ELSE values[name]]

\* The Action 1 is an artist's.
Init ==
  /\ pc = "idle"
  /\ \E strips \in Layouts, ticks \in Rates, curves \in Curves, cursor \in Cursors :
       scene = [first |-> 0, last |-> 1, channel |-> 1, strips |-> strips,
                ticks |-> ticks, curves |-> curves, cursor |-> cursor,
                values |-> Evaluated(curves, [n \in Fields |-> 1], cursor)]
  /\ \E keys \in Named :
       meshes = [m \in Meshes |-> [there |-> TRUE, keys |-> keys,
                                  shown |-> Neutral, action |-> 1]]
  /\ actions = <<[owned |-> FALSE, curves |-> <<>>]>>
  /\ track = NoTrack /\ files = {} /\ bake = NoBake
  /\ scan = [purpose |-> "none", frame |-> 0, entries |-> <<>>,
             samples |-> <<>>, timeline |-> Nothing,
             saved |-> [scene |-> scene, shown |-> <<>>]]
  /\ used = 0

TypeOK ==
  /\ pc \in {"idle", "scan", "scanned", "raised", "write"}
  /\ scene.strips \in Layouts /\ scene.curves \in Curves
  /\ scene.values \in [Fields -> Int]
  /\ meshes \in [Meshes -> [there : BOOLEAN, keys : Named \cup {{}},
                            shown : [Channels -> Int],
                            action : {Absent} \cup DOMAIN actions]]
  /\ Len(actions) <= MaxActions
  /\ track.phase \in {"none", "uploading", "preparing", "prepared", "canceling"}
  /\ track.phase # "none" => ~Endless(track.source)
  /\ files \subseteq track.source.clips
  /\ bake.phase \in {"none", "planned", "waiting", "done"}
  /\ bake.todo \subseteq DOMAIN bake.targets
  /\ pc = "write" <=> bake.todo # {}
  /\ used \in 0..MaxUsed
-----------------------------------------------------------------------------
(* What is shown *)

\* int(scene.frame_current)
Frame(s) == s.cursor \div 2

\* apply_shape_key_frame: keys of other names are left alone.
Show(ms, weights) ==
  [m \in Meshes |->
     [ms[m] EXCEPT !.shown =
        [c \in Channels |-> IF c \in ms[m].keys THEN weights[c] ELSE @[c]]]]

\* _apply_selected_cache: the frame outside the span is neutral.
ApplyCache(t, s, ms) ==
  IF Frame(s) \notin t.source.first..t.source.last THEN Show(ms, Neutral)
  ELSE IF t.rows = <<>> THEN ms
  ELSE Show(ms, SampleLinear(t.rows,
                  FrameToSample(t.source, Frame(s), s.values["delay"])))

\* request_selected_frame
RequestFrame(t, s, ms) ==
  IF t.phase # "prepared" \/ Unreadable(s) THEN ms
  ELSE IF Snapshot(s) # t.source THEN ms
  ELSE ApplyCache(t, s, ms)

\* _frame_change_post_handler: a scan is not shown.
FrameHandler(t, s, ms) == IF pc = "scan" THEN ms ELSE RequestFrame(t, s, ms)

-----------------------------------------------------------------------------
(* The audio *)

\* _ensure_selected_track, when there is no track.
Started(s) ==
  IF Unreadable(s) THEN NoTrack
  ELSE IF Endless(Snapshot(s)) THEN NoTrack
  ELSE [NoTrack EXCEPT !.phase = "uploading", !.source = Snapshot(s)]

\* refresh_selected_channel after an edit of the strips: another source
\* replaces the track, an unreadable one ends it.
Refreshed(t, s) ==
  IF t.phase = "none" THEN Started(s)
  ELSE IF Unreadable(s) THEN [t EXCEPT !.phase = "canceling"]
  ELSE IF Snapshot(s) # t.source THEN [t EXCEPT !.phase = "canceling"]
  ELSE t

Released(b, t) == IF t.phase = "canceling" THEN NoBake ELSE b

StartTrack ==
  /\ pc = "idle" /\ track.phase = "none"
  /\ track' = Started(scene) /\ track' # NoTrack
  /\ UNCHANGED <<pc, scene, meshes, actions, files, scan, bake, used>>

Uploading == pc = "idle" /\ track.phase = "uploading"

Count == Min({ChunkSamples, Samples(track.source) - track.start})

\* Clips that are not heard after the next chunk: their readers are closed.
Finished ==
  {clip \in Sounding(track.source, track.start, Count) :
     Span(track.source, clip).right <= track.start + Count}

\* _send_next_track_chunk: clips are decoded when they are first heard.
NextChunk ==
  LET sounding == Sounding(track.source, track.start, Count) IN
  /\ Uploading /\ track.start < Samples(track.source)
  /\ track' = [track EXCEPT
       !.start = @ + Count,
       !.opened = @ \o SetToSeq(sounding \ files),
       !.audio = @ \o Mixed(track.source, track.start, Count)]
  /\ files' = (files \cup sounding) \ Finished
  /\ UNCHANGED <<pc, scene, meshes, actions, scan, bake, used>>

\* A sound cannot be decoded, or its file cannot be read: the source closes.
DecodeFails ==
  /\ Uploading /\ track.start < Samples(track.source)
  /\ Sounding(track.source, track.start, Count) # {}
  /\ used < MaxUsed /\ used' = used + 1
  /\ track' = [track EXCEPT !.phase = "canceling"]
  /\ files' = {} /\ bake' = NoBake
  /\ UNCHANGED <<pc, scene, meshes, actions, scan>>

\* The chunks end, and track_prepare is sent.
UploadEnds ==
  /\ Uploading /\ track.start >= Samples(track.source)
  /\ track' = [track EXCEPT
       !.phase = IF track.start = Samples(track.source) THEN "preparing"
                 ELSE "canceling"]
  /\ files' = {} /\ bake' = Released(bake, track')
  /\ UNCHANGED <<pc, scene, meshes, actions, scan, used>>

\* The response to track_prepare: the bake that waits for it is rendered.
TrackPrepared ==
  /\ pc = "idle" /\ track.phase = "preparing"
  /\ track' = [track EXCEPT !.phase = "prepared",
                            !.wanted = IF bake.phase = "waiting"
                                       THEN bake.timeline ELSE @]
  /\ UNCHANGED <<pc, scene, meshes, actions, files, scan, bake, used>>

\* Fault: the readers of a canceled source are forgotten.
KeepOpen == files

CloseSource == {}

\* track_ended: _release_selected_track, and the replacement is started.
CancelCompleted ==
  /\ pc = "idle" /\ track.phase = "canceling"
  /\ track' \in {NoTrack, Started(scene)}
  /\ files' = CloseSource
  /\ UNCHANGED <<pc, scene, meshes, actions, scan, bake, used>>
-----------------------------------------------------------------------------
(* The settings *)

BeginScan(purpose, source) ==
  /\ pc = "idle" /\ pc' = "scan"
  /\ scan' = [purpose |-> purpose, frame |-> source.first, entries |-> <<>>,
              samples |-> <<>>, timeline |-> Nothing,
              saved |-> [scene |-> scene,
                         shown |-> [m \in Meshes |-> meshes[m].shown]]]
  /\ UNCHANGED <<scene, meshes, actions, files, used>>

\* _refresh_invalidated_selected_settings, and the response to track_prepare.
ScanForRender ==
  /\ track.phase = "prepared" /\ bake.phase # "waiting"
  /\ BeginScan("render", track.source)
  /\ UNCHANGED <<track, bake>>

\* plan_bake_targets
Plan(ms) ==
  [m \in {n \in Meshes : ms[n].there /\ ms[n].keys # {}} |-> ms[m].keys]

\* bake_selected_audio, up to the scan.
ScanForBake ==
  LET ready == IF track.phase = "none" THEN Started(scene) ELSE track IN
  /\ bake.phase # "waiting" /\ ready.phase \notin {"none", "canceling"}
  /\ ~Unreadable(scene) /\ ready.source = Snapshot(scene)
  /\ DOMAIN Plan(meshes) # {}
  /\ Len(actions) + Cardinality(Meshes) <= MaxActions
  /\ track' = ready
  /\ bake' = [NoBake EXCEPT !.phase = "planned", !.targets = Plan(meshes)]
  /\ BeginScan("bake", ready.source)

\* Fault: the values of a fractional cursor replace those of its frame.
AtItsFrame(s, frame, evaluated) ==
  IF Frame(s) = frame THEN s.values ELSE evaluated

\* A value set by hand at the whole frame of the cursor waits for its key.
Authored(s, frame, evaluated) ==
  IF s.cursor = 2 * frame THEN s.values ELSE evaluated

\* _evaluate_settings_timeline: one frame.
ScanFrame ==
  LET frame == scan.frame
      values == Authored(scan.saved.scene, frame, scene'.values) IN
  /\ pc = "scan" /\ frame <= track.source.last
  /\ scene' = [scene EXCEPT !.cursor = 2 * frame,
                 !.values = Evaluated(scene.curves, @, 2 * frame)]
  /\ meshes' = FrameHandler(track, scene', meshes)
  /\ scan' = [scan EXCEPT
       !.frame = @ + 1,
       !.entries = Append(@, [sample |-> FrameToSample(track.source, frame, 0),
                              settings |-> Restrict(values, Leaves)]),
       !.samples = Append(@, FrameToSample(track.source, frame,
                                           values["delay"]))]
  /\ UNCHANGED <<pc, actions, track, files, bake, used>>

\* The finally clauses: the cursor returns, and what was set by hand.
Restored(s, saved) ==
  [s EXCEPT !.cursor = saved.cursor, !.values = saved.values]

ScanStops(how) ==
  /\ pc = "scan" /\ pc' = how
  /\ scene' = Restored(scene, scan.saved.scene)
  /\ meshes' = FrameHandler(track, scene', meshes)
  /\ UNCHANGED <<actions, track, files, bake>>

ScanEnds ==
  /\ scan.frame > track.source.last /\ ScanStops("scanned")
  /\ scan' = [scan EXCEPT !.timeline = SettingsTimeline(scan.entries)]
  /\ UNCHANGED used

\* The settings of a frame are invalid.
ScanRaises ==
  /\ scan.frame <= track.source.last /\ ScanStops("raised")
  /\ used < MaxUsed /\ used' = used + 1
  /\ UNCHANGED scan

ScanFailed ==
  /\ pc = "raised" /\ pc' = "idle"
  /\ bake' = IF scan.purpose = "bake" THEN NoBake ELSE bake
  /\ meshes' = IF scan.purpose = "render"
               THEN RequestFrame(track, scene, meshes) ELSE meshes
  /\ UNCHANGED <<scene, actions, track, files, scan, used>>

RequestRender ==
  /\ pc = "scanned" /\ scan.purpose = "render" /\ pc' = "idle"
  /\ track' = [track EXCEPT !.wanted = scan.timeline]
  /\ meshes' = RequestFrame(track, scene, meshes)
  /\ UNCHANGED <<scene, actions, files, scan, bake, used>>
-----------------------------------------------------------------------------
(* The bake *)

Writing(b) == [b EXCEPT !.todo = DOMAIN b.targets]

\* bake_selected_audio after the scan: rows of the same timeline are baked
\* at once.
StartBake ==
  LET begun == [bake EXCEPT !.phase = "waiting", !.timeline = scan.timeline,
                            !.samples = scan.samples]
      rendered == track.published = scan.timeline IN
  /\ pc = "scanned" /\ scan.purpose = "bake"
  /\ pc' = IF rendered THEN "write" ELSE "idle"
  /\ bake' = IF rendered THEN Writing(begun) ELSE begun
  /\ track' = [track EXCEPT
       !.wanted = IF ~rendered /\ track.phase = "prepared"
                  THEN scan.timeline ELSE @]
  /\ UNCHANGED <<scene, meshes, actions, files, scan, used>>

\* The response to track_render.
Publish ==
  LET rendered == [track EXCEPT !.published = track.wanted,
                     !.rows = Render(track.audio, track.wanted)]
      baking == bake.phase = "waiting" /\ bake.timeline = track.wanted IN
  /\ pc = "idle" /\ track.phase = "prepared"
  /\ track.wanted \notin {Nothing, track.published}
  /\ track' = rendered
  /\ pc' = IF baking THEN "write" ELSE "idle"
  /\ bake' = IF baking THEN Writing(bake) ELSE bake
  /\ meshes' = IF bake.phase = "waiting" THEN meshes
               ELSE RequestFrame(rendered, scene, meshes)
  /\ UNCHANGED <<scene, actions, files, scan, used>>

\* An Action of a former bake is used again.
Reused(m) ==
  meshes[m].action # Absent /\ actions[meshes[m].action].owned

\* Fault: keys lie where the settings of their frames begin.
SettingsSample(frame) ==
  FrameToSample(track.source, frame, 0)

BakedSample(frame) == bake.samples[frame - track.source.first + 1]

\* The curves of one datablock: a key at every frame.
Baked(m) ==
  [c \in bake.targets[m] |->
     [frame \in track.source.first..track.source.last |->
        SampleLinear(track.rows, BakedSample(frame))[c]]]

\* _write_action, which clears all layers of the Action.
WriteAction(m) ==
  LET id == IF Reused(m) THEN meshes[m].action ELSE Len(actions) + 1
      action == [owned |-> TRUE, curves |-> m :> Baked(m)] IN
  /\ meshes[m].there
  /\ meshes' = [meshes EXCEPT ![m].action = id]
  /\ actions' = [k \in DOMAIN actions \cup {id} |->
                   IF k = id THEN action ELSE actions[k]]
  /\ bake' = [bake EXCEPT !.todo = @ \ {m},
                          !.phase = IF bake.todo = {m} THEN "done" ELSE @]
  /\ pc' = IF bake.todo = {m} THEN "idle" ELSE "write"

\* The datablock was deleted: what is written stays, the bake is over.
WriteFails(m) ==
  /\ ~meshes[m].there
  /\ bake' = NoBake /\ pc' = "idle"
  /\ UNCHANGED <<meshes, actions>>

WriteTarget ==
  /\ pc = "write"
  /\ \E m \in bake.todo : WriteAction(m) \/ WriteFails(m)
  /\ UNCHANGED <<scene, track, files, scan, used>>

CancelBake ==
  /\ pc = "idle" /\ bake.phase = "waiting"
  /\ bake' = NoBake
  /\ UNCHANGED <<pc, scene, meshes, actions, track, files, scan, used>>
-----------------------------------------------------------------------------
(* The user *)

User == pc = "idle" /\ used < MaxUsed /\ used' = used + 1 /\ UNCHANGED pc

EditTimeline ==
  /\ User
  /\ \/ \E strips \in Layouts \ {scene.strips} :
          scene' = [scene EXCEPT !.strips = strips]
     \/ \E ticks \in Rates \ {scene.ticks} :
          scene' = [scene EXCEPT !.ticks = ticks]
  /\ track' = Refreshed(track, scene') /\ bake' = Released(bake, track')
  /\ UNCHANGED <<meshes, actions, files, scan>>

EditValue ==
  /\ User
  /\ \E name \in Fields, value \in Edited :
       /\ value # scene.values[name]
       /\ scene' = [scene EXCEPT !.values[name] = value]
  /\ UNCHANGED <<meshes, actions, track, files, scan, bake>>

EditCurves ==
  /\ User
  /\ \E curves \in Curves \ {scene.curves} :
       scene' = [scene EXCEPT !.curves = curves,
                   !.values = Evaluated(curves, @, scene.cursor)]
  /\ UNCHANGED <<meshes, actions, track, files, scan, bake>>

MoveCursor ==
  /\ User
  /\ \E at \in Cursors \ {scene.cursor} :
       scene' = [scene EXCEPT !.cursor = at,
                   !.values = Evaluated(scene.curves, @, at)]
  /\ meshes' = FrameHandler(track, scene', meshes)
  /\ UNCHANGED <<actions, track, files, scan, bake>>

\* Another Action is assigned, keys are renamed, or all are deleted.
EditMesh ==
  /\ User
  /\ \E m \in Meshes :
       /\ meshes[m].there
       /\ \/ \E id \in {Absent} \cup DOMAIN actions :
               meshes' = [meshes EXCEPT ![m].action = id]
          \/ \E keys \in Named :
               meshes' = [meshes EXCEPT ![m].keys = keys]
          \/ meshes' = [meshes EXCEPT ![m].there = FALSE, ![m].keys = {}]
       /\ meshes' # meshes
  /\ UNCHANGED <<scene, actions, track, files, scan, bake>>

Next ==
  \/ StartTrack
  \/ NextChunk
  \/ DecodeFails
  \/ UploadEnds
  \/ TrackPrepared
  \/ CancelCompleted
  \/ ScanForRender
  \/ ScanForBake
  \/ ScanFrame
  \/ ScanEnds
  \/ ScanRaises
  \/ ScanFailed
  \/ RequestRender
  \/ StartBake
  \/ Publish
  \/ WriteTarget
  \/ CancelBake
  \/ EditTimeline
  \/ EditValue
  \/ EditCurves
  \/ MoveCursor
  \/ EditMesh

Spec == Init /\ [][Next]_vars
=============================================================================
