----------------------------- MODULE TrackState -----------------------------
(***************************************************************************)
(* The state of a Selected Channel session (audio2face/runtime.py): the    *)
(* life of the worker from Start Worker to its exit, the resident track    *)
(* with its render cache, the bake, and the Blender scene they read.       *)
(*                                                                         *)
(* A settings timeline is a function from the frames of the channel to     *)
(* abstract setting values; the rows the worker renders from it are named  *)
(* by the audio and the timeline they come from.                           *)
(***************************************************************************)
EXTENDS Integers, Sequences, FiniteSets

CONSTANTS
  Frames,         \* frames of the channel; Outside is none of them
  Values,         \* values of the animated settings
  Sources,        \* states of the channel's audio
  Oversized,      \* timelines whose request exceeds a control line
  Blocks,         \* requests that upload a channel
  Batches,        \* frame batches of one render
  Disturbances,   \* what users and failures may do
  MaxDisturbances \* bound: how often

Outside == 0   \* a frame outside the span of the channel
Invalid == 0   \* a channel that fails validation
Timelines == [Frames -> Values]
Kinds == {"start", "stop", "reload", "edit", "key", "frame", "playback",
          "source", "mode", "removal", "bake", "failure"}

ASSUME TrackAssumption ==
  /\ Frames \subseteq Nat \ {Outside} /\ Frames # {} /\ IsFiniteSet(Frames)
  /\ Values \subseteq Nat \ {0} /\ 1 \in Values
  /\ Sources \subseteq Nat \ {Invalid} /\ 1 \in Sources
  /\ Oversized \subseteq Timelines
  /\ Blocks \in Nat \ {0} /\ Batches \in Nat \ {0}
  /\ Disturbances \subseteq Kinds /\ MaxDisturbances \in Nat

VARIABLES
  pc,        \* where the timer callback is: "idle" between callbacks
  batch,     \* how many of the lines the callback still handles
  scene,     \* the Blender scene and its settings
  session,   \* the controller, and what it shows in the scene
  lines,     \* the worker's lines, and its exit, not handled yet
  process,   \* the worker's process
  serving,   \* its operation
  disturbed  \* number of disturbances

vars == <<pc, batch, scene, session, lines, process, serving, disturbed>>

None == 0  \* no operation, no revision
Unobserved == -1
NoTimeline == [f \in Frames |-> 0]
Operations == 1..(MaxDisturbances + 1)
Revisions == 1..(MaxDisturbances + 1)

Rows == [source : Sources, timeline : Timelines]
NoStage == [revision |-> None, count |-> 0, rows |-> {}]
NoTrack == [id |-> None, source |-> Invalid, left |-> 0, prepared |-> FALSE,
            canceled |-> FALSE, restart |-> FALSE, failed |-> FALSE,
            revision |-> None, rendering |-> NoTimeline, stage |-> NoStage,
            published |-> NoTimeline, cache |-> {}]
NoBake == [on |-> FALSE, source |-> Invalid, timeline |-> NoTimeline]

\* The model's neutral pose, and what a mesh shows from a cache.
Neutral == [frame |-> Outside, rows |-> {}]

\* What RuntimeController.__init__ leaves.  Errors are told by the message
\* they carry, as the code compares them: that of an invalid channel, that of
\* a failed render, or another.  early is history: the last bake began before
\* its track was prepared.
Fresh ==
  [status |-> "idle", phase |-> "none", expected |-> FALSE,
   rejected |-> FALSE, client |-> "stopped", registered |-> FALSE,
   observed |-> Unobserved, track |-> NoTrack, bake |-> NoBake,
   invalidated |-> FALSE, operations |-> 0, inbox |-> <<>>,
   mesh |-> Neutral, baked |-> {}, early |-> FALSE]

Methods == {"hello", "load_model", "track_start", "track_chunk",
            "track_prepare", "track_render", "cancel", "shutdown"}
NoRequest == [method |-> "hello", operation |-> None, revision |-> None,
              source |-> Invalid, timeline |-> NoTimeline,
              preview |-> Outside]
Idle == [id |-> None, phase |-> "idle", canceled |-> FALSE,
         latest |-> None, queue |-> <<>>, job |-> NoRequest, sent |-> 0,
         previewed |-> FALSE, source |-> Invalid]

NewScene == [mode |-> "SELECTED", available |-> TRUE, source |-> 1,
             curve |-> [f \in Frames |-> 1], shown |-> 1,
             frame |-> CHOOSE f \in Frames : \A g \in Frames : f <= g,
             playing |-> FALSE]

Init ==
  /\ pc = "idle" /\ batch = 0
  /\ scene = NewScene /\ session = Fresh
  /\ lines = <<>> /\ process = "none" /\ serving = Idle
  /\ disturbed = 0

Errors == {"error", "error channel", "error render"}
Statuses == {"idle", "starting", "loading", "ready", "uploading", "preparing",
             "baking", "stopping"} \cup Errors

TypeOK ==
  /\ pc \in {"idle", "lines"} /\ batch \in 0..Len(lines)
  /\ scene \in [mode : {"SELECTED", "STREAM"}, available : BOOLEAN,
                source : {Invalid} \cup Sources, curve : Timelines,
                shown : Values, frame : {Outside} \cup Frames,
                playing : BOOLEAN]
  /\ session.status \in Statuses
  /\ session.phase \in {"none", "greeting", "negotiated", "loaded"}
  /\ {session.expected, session.rejected, session.registered,
      session.invalidated, session.early} \subseteq BOOLEAN
  /\ session.client \in {"stopped", "running", "stopping"}
  /\ session.observed \in {Unobserved, Invalid} \cup Sources
  /\ session.operations \in {None} \cup Operations
  /\ session.track.id \in {None} \cup Operations
  /\ session.track.revision \in {None} \cup Revisions
  /\ session.track.stage.rows \cup session.track.cache \cup session.baked
       \cup session.mesh.rows \subseteq Rows
  /\ session.bake \in [on : BOOLEAN, source : {Invalid} \cup Sources,
                       timeline : {NoTimeline} \cup Timelines]
  /\ \A i \in DOMAIN session.inbox : session.inbox[i].method \in Methods
  /\ process \in {"none", "up", "exited", "crashed"}
  /\ serving.id \in {None} \cup Operations
  /\ disturbed \in 0..MaxDisturbances
-----------------------------------------------------------------------------
Disturbs(kind) ==
  /\ kind \in Disturbances
  /\ disturbed < MaxDisturbances
  /\ disturbed' = disturbed + 1

\* _evaluate_settings_timeline: the curves, but for an edit of the current
\* frame that has no key yet.
Evaluated(s) ==
  IF s.frame \in Frames THEN [s.curve EXCEPT ![s.frame] = s.shown]
  ELSE s.curve
=============================================================================
