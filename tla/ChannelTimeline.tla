-------------------------- MODULE ChannelTimeline ---------------------------
(***************************************************************************)
(* The computations behind the Selected Channel: which audio a Sequencer   *)
(* channel holds and how its clips are read                                *)
(* (audio2face/selected_audio_timeline.py), how the settings of its frames *)
(* are encoded for the worker and looked up again (runtime.py), and how a  *)
(* row is read between the rows the worker rendered (frame_stream.py).     *)
(*                                                                         *)
(* Positions in the audio are counted in ticks, half of a sample: a frame  *)
(* lasts a number of ticks, 2 * rate / fps of the code, which stands for   *)
(* the frame rate.  Amplitudes are integers up to FullScale, 1.0 of the    *)
(* code.                                                                   *)
(***************************************************************************)
EXTENDS Integers, Sequences, FiniteSets, FiniteSetsExt, Functions, SequencesExt

CONSTANTS
  ChunkSamples, \* chunk_frames
  MaxSamples,   \* MAX_OUTPUT_FRAMES
  FullScale,    \* amplitude of 1.0
  Recorded,     \* the samples of each sound
  Hop           \* samples between the rows of a render

ASSUME TimelineAssumption ==
  /\ {ChunkSamples, MaxSamples, FullScale, Hop} \subseteq Nat \ {0}
  /\ \A sound \in DOMAIN Recorded : Recorded[sound] \in Seq(Int)

\* Python's round of t/2, to the even one of two as near.
RoundEven(t) ==
  IF t % 2 = 0 THEN t \div 2
  ELSE CHOOSE n \in {t \div 2, t \div 2 + 1} : n % 2 = 0

\* frame_to_audio_sample of t/2: away from zero when two are as near.
RoundAway(t) == IF t >= 0 THEN (t + 1) \div 2 ELSE -((1 - t) \div 2)

Within(low, value, high) == Min({Max({low, value}), high})

-----------------------------------------------------------------------------
(* The channel *)

\* A strip of the timeline: frames [start, stop), the frame its sound begins
\* at, its trim in frames, its offset in ticks, and whether its modifiers or
\* retiming keys forbid to read it.
ChannelStrips(scene) == {s \in scene.strips : s.channel = scene.channel}

Audible(clip) == ~clip.muted /\ clip.volume # 0

\* selected_channel_snapshot raises.
Unreadable(scene) ==
  \E s \in ChannelStrips(scene) :
    s.stop > s.start /\ (s.volume < 0 \/ (Audible(s) /\ s.processed))

Clip(s, ticks) ==
  [start |-> s.start, stop |-> s.stop, volume |-> s.volume,
   muted |-> s.muted, sound |-> s.sound,
   from |-> (s.start - s.origin + s.trim) * ticks - s.offset]

\* selected_channel_snapshot; first and last are inclusive.
Snapshot(scene) ==
  LET strips == {s \in ChannelStrips(scene) : s.stop > s.start} IN
  [channel |-> scene.channel, ticks |-> scene.ticks,
   clips |-> {Clip(s, scene.ticks) : s \in strips},
   first |-> Min({scene.first} \cup {s.start : s \in strips}),
   last |-> Max({scene.last} \cup {s.stop - 1 : s \in strips})]

\* ChannelAudioSource.__init__: output_frames, and when it raises.
Samples(source) ==
  Max({1, RoundEven((source.last + 1 - source.first) * source.ticks)})
Endless(source) == source.last < source.first \/ Samples(source) > MaxSamples

\* frame_to_audio_sample
FrameToSample(source, frame, delay) ==
  Within(0, RoundAway((frame - source.first) * source.ticks + delay),
         Samples(source) - 1)

\* The samples of the channel a clip sounds in: [left, right).
Span(source, clip) ==
  [left |-> RoundEven((clip.start - source.first) * source.ticks),
   right |-> RoundEven((clip.stop - source.first) * source.ticks)]

-----------------------------------------------------------------------------
(* Reading a clip *)

\* A sample of what _AudioClipReader.__init__ decodes: the sound, then
\* silence past all the clip can ask for.
Decoded(sound, n) ==
  IF n < Len(Recorded[sound])
  THEN Within(-FullScale, Recorded[sound][n + 1], FullScale) ELSE 0

\* _AudioClipReader.read, in halves of an amplitude: count samples from a
\* position that may lie before the sound.
ReadClip(clip, position, count) ==
  LET silence == Min({count, Max({0, (1 - position) \div 2})})
      point == position + 2 * silence
      first == point \div 2
      fraction == point % 2 IN
  [n \in 1..count |->
     IF n <= silence THEN 0
     ELSE LET index == first + n - 1 - silence IN
          Decoded(clip.sound, index) * (2 - fraction)
            + Decoded(clip.sound, index + 1) * fraction]

\* The clips that sound in the chunk of [start, start + count).
Sounding(source, start, count) ==
  {clip \in source.clips :
     /\ Audible(clip)
     /\ Min({start + count, Span(source, clip).right})
          > Max({start, Span(source, clip).left})}

\* Fault: a clip starts anew with every chunk it sounds in.
FromItsStart(source, clip, begin) == clip.from

\* Where a clip is read for the sample begin of the channel.
ReadFrom(source, clip, begin) ==
  clip.from + 2 * (begin - Span(source, clip).left)

\* What a clip adds to the chunk.
Contribution(source, clip, start, count) ==
  LET begin == Max({start, Span(source, clip).left})
      end == Min({start + count, Span(source, clip).right})
      samples == ReadClip(clip, ReadFrom(source, clip, begin), end - begin) IN
  [n \in 1..count |->
     IF n > begin - start /\ n <= end - start
     THEN samples[n - (begin - start)] * clip.volume ELSE 0]

\* ChannelAudioSource.__iter__: one chunk.
Mixed(source, start, count) ==
  [n \in 1..count |->
     Within(-2 * FullScale,
            MapThenSumSet(LAMBDA clip : Contribution(source, clip, start, count)[n],
                          Sounding(source, start, count)),
            2 * FullScale)]

-----------------------------------------------------------------------------
(* Settings over time *)

\* _object_patch: settings are functions from the names of their leaves.
ObjectPatch(previous, current) ==
  [name \in {n \in DOMAIN current : current[n] # previous[n]} |-> current[name]]

Patched(settings, patch) ==
  [name \in DOMAIN settings |->
     IF name \in DOMAIN patch THEN patch[name] ELSE settings[name]]

\* The last snapshot of a sample is kept.
KeepLast(unique, entry) ==
  IF unique # <<>> /\ Last(unique).sample = entry.sample
  THEN Append(Front(unique), entry) ELSE Append(unique, entry)

\* _settings_timeline: the payload of the worker, and the snapshots that the
\* client looks settings up in; a frame that changes nothing adds to neither.
Encode(timeline, entry) ==
  LET patch == ObjectPatch(Last(timeline.snapshots).settings, entry.settings) IN
  IF DOMAIN patch = {} THEN timeline
  ELSE [payload |-> Append(timeline.payload,
                           [sample |-> entry.sample, settings |-> patch]),
        snapshots |-> Append(timeline.snapshots, entry)]

SettingsTimeline(entries) ==
  LET unique == FoldLeft(KeepLast, <<>>, entries)
      first == [sample |-> 0, settings |-> unique[1].settings] IN
  FoldLeft(Encode, [payload |-> <<first>>, snapshots |-> <<first>>], Tail(unique))

\* _settings_at_sample: the binary search finds the last entry not after it.
SettingsAtSample(timeline, sample) ==
  LET entries == timeline.snapshots IN
  entries[Max({k \in DOMAIN entries : entries[k].sample <= sample})].settings

\* parse_settings_timeline and the render of the worker: patches add up.
WorkerSettings(timeline, sample) ==
  FoldLeft(LAMBDA settings, entry : IF entry.sample > sample THEN settings
                                    ELSE Patched(settings, entry.settings),
           timeline.payload[1].settings, Tail(timeline.payload))

-----------------------------------------------------------------------------
(* Rows *)

\* What the worker renders: a row every Hop samples, of the audio there and
\* the settings in force.  Its model is not part of the repository; two
\* channels that tell audio from settings stand for its output.
Render(audio, timeline) ==
  [t \in {n \in 0..Len(audio) - 1 : n % Hop = 0} |->
     LET settings == WorkerSettings(timeline, t) IN
     [jaw |-> audio[t + 1] * settings.strength, brow |-> settings.emotion]]

\* sample_linear, times Hop.
SampleLinear(rows, sample) ==
  LET lower == Max({t \in DOMAIN rows : t <= sample})
      later == {t \in DOMAIN rows : t > sample} IN
  [c \in {"jaw", "brow"} |->
     IF later = {} THEN rows[lower][c] * Hop
     ELSE rows[lower][c] * (Min(later) - sample)
            + rows[Min(later)][c] * (sample - lower)]
=============================================================================
