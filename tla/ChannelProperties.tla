-------------------------- MODULE ChannelProperties -------------------------
(***************************************************************************)
(* What a Selected Channel promises from its strips to its baked curves    *)
(* (audio2face/selected_audio_timeline.py, runtime.py, animation_bake.py). *)
(***************************************************************************)
EXTENDS ChannelTrack

\* A clip's sound at a position: nothing before it, the line between two
\* samples within it, in halves of an amplitude.
Heard(clip, position) ==
  IF position < 0 THEN 0
  ELSE Decoded(clip.sound, position \div 2)
         + Decoded(clip.sound, (position + 1) \div 2)

\* What the channel sounds like at one sample: all clips there, clipped.
Channel(source, n) ==
  Within(-2 * FullScale,
         MapThenSumSet(LAMBDA clip : clip.volume * Heard(clip,
             clip.from + 2 * (n - Span(source, clip).left)),
           {clip \in source.clips : /\ Audible(clip)
                                    /\ Span(source, clip).left <= n
                                    /\ n < Span(source, clip).right}),
         2 * FullScale)

\* What is uploaded is the channel, sample by sample, however it is cut into
\* chunks; all of it before it is prepared.  A sound is decoded once, and its
\* file is open only while the clip is still to be heard.
WholeChannelHeard ==
  /\ \A n \in DOMAIN track.audio : track.audio[n] = Channel(track.source, n - 1)
  /\ track.phase \in {"preparing", "prepared"} =>
       Len(track.audio) = Samples(track.source) /\ files = {}
  /\ track.phase = "none" => files = {}
  /\ track.phase = "uploading" =>
       \A clip \in files : Span(track.source, clip).right > track.start
  /\ IsInjective(track.opened)

\* What the scene shows at a frame to who goes there, but for a value that
\* was set by hand at the cursor and has no key yet.
Intended(saved, frame) ==
  IF saved.cursor = 2 * frame THEN saved.values
  ELSE Evaluated(saved.curves, saved.values, 2 * frame)

\* A scan leaves the scene as it found it, what was set by hand and is not
\* keyed included, and shows none of its frames, even when it fails.  The
\* timeline it leaves, read by the worker as by the client, holds for every
\* frame what the user set; of frames that share a sample, the last.
TimelineIsAuthored ==
  LET saved == scan.saved.scene
      at(frame) == FrameToSample(track.source, frame, 0)
      payload == scan.timeline.payload IN
  /\ pc \in {"scanned", "raised"} =>
       /\ scene = saved
       /\ \A m \in Meshes : meshes[m].shown = scan.saved.shown[m]
  /\ pc = "scanned" =>
       /\ \A k \in DOMAIN payload :
            /\ payload[k].sample < Samples(track.source)
            /\ k > 1 => payload[k - 1].sample < payload[k].sample
       /\ \A frame \in track.source.first..track.source.last :
            \/ frame < track.source.last /\ at(frame + 1) = at(frame)
            \/ SettingsAtSample(scan.timeline, at(frame))
                 = Restrict(Intended(saved, frame), Leaves)
       /\ \A n \in 0..Samples(track.source) - 1 :
            WorkerSettings(scan.timeline, n) = SettingsAtSample(scan.timeline, n)

\* Two datablocks share one Action of the add-on.
Shared(m) == \E n \in DOMAIN bake.targets \ {m} : meshes'[n].action = meshes'[m].action

\* A bake writes to no Action of an artist's.  When it completes, the Action
\* of every datablock it planned holds exactly what going to each frame would
\* show, with the settings the bake began with, and nothing of a former bake.
\* Datablocks that share an Action of the add-on are left out: each clears
\* what the one before it wrote.
BakeIsWhole ==
  [][/\ \A id \in DOMAIN actions : ~actions[id].owned => actions'[id] = actions[id]
     /\ (pc = "write" /\ bake'.phase = "done") =>
          \A m \in DOMAIN bake.targets : Shared(m) \/
            actions'[meshes'[m].action] =
              [owned |-> TRUE,
               curves |-> m :> [c \in bake.targets[m] |->
                 [frame \in track.source.first..track.source.last |->
                    SampleLinear(track.rows,
                      FrameToSample(track.source, frame,
                        Intended(scan.saved.scene, frame)["delay"]))[c]]]]]_vars
=============================================================================
