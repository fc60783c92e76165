-------------------------- MODULE TrackProperties --------------------------
(***************************************************************************)
(* What the user of the Selected Channel relies on: the meshes and the     *)
(* baked Actions show the audio and the settings they claim to show, and   *)
(* the session survives whatever users, failures and the worker interleave. *)
(***************************************************************************)
EXTENDS TrackSession

\* CacheIsWhatItClaims: a published cache holds exactly the rows of its audio
\* under the settings it is recorded with, and the stage of a running render
\* only rows of the settings it was asked for, though renders are superseded,
\* fail, and are answered while newer settings are edited.
CacheIsWhatItClaims ==
  LET track == session.track IN
  /\ track.published # NoTimeline
       => track.cache = {[source |-> track.source,
                          timeline |-> track.published]}
  /\ track.stage.rows \subseteq
       {[source |-> track.source, timeline |-> track.rendering]}

\* BakeIsCoherent: what is baked is the channel and the settings of the moment
\* Bake was clicked, all frames alike, however late the rows come and whatever
\* was edited or replaced meanwhile.  A bake done at once is one of the
\* present scene.
BakeIsCoherent ==
  [][session'.baked # session.baked /\ session' # Fresh =>
       LET bake == IF session.bake.on THEN session.bake
                   ELSE [source |-> scene.source,
                         timeline |-> Evaluated(scene)]
       IN session'.baked = {[source |-> bake.source,
                             timeline |-> bake.timeline]}]_vars

\* ConformantWorkerIsKept: a worker that keeps the contract is not shut down
\* for violating it, but for three reasons of the client's own: it died, it did
\* not greet in time, or its scene is gone and the client is already shutting
\* it down or has canceled its track.
ConformantWorkerIsKept ==
  [][session'.rejected /\ ~session.rejected =>
       \/ process # "up" \/ session.phase = "greeting"
       \/ /\ ~scene.available
          /\ session.client = "stopping" \/ session.track.canceled]_vars

\* The mesh shows the current frame of the current channel under the settings
\* that apply to it.
Shown ==
  /\ session.mesh.frame = scene.frame
  /\ \E timeline \in Timelines :
       /\ session.mesh.rows = {[source |-> scene.source,
                                timeline |-> timeline]}
       /\ timeline[scene.frame] = scene.shown

\* Nothing is asked, refused or held back.
Calm ==
  /\ scene.available /\ ~scene.playing /\ scene.mode = "SELECTED"
  /\ scene.source # Invalid /\ scene.frame \in Frames
  /\ session.phase = "loaded" /\ ~session.expected /\ process = "up"
  /\ ~session.bake.on /\ ~session.track.canceled
  /\ session.status \notin Errors

\* ShownFrameIsCurrent: a calm session ends up showing the current frame of the
\* current channel under the current settings: no edit, key, frame change or
\* new audio is lost between the callbacks.  Two cases are left out.  A session
\* that baked before its track was prepared: the code loses an edit made before
\* the track is prepared, although README.md:223-224 says that edits during a
\* bake stay pending until it stops.  And settings whose request does not fit a control line: when a render is still
\* running as they are refused, publishing it clears the error of the refusal,
\* and the mesh stays behind under the status MODEL_READY.
ShownFrameIsCurrent ==
  []<>(Calm /\ ~session.early /\ Evaluated(scene) \notin Oversized => Shown)

\* BakeEnds: a bake is written, fails or is canceled; it waits for no answer
\* that does not come.
BakeEnds == session.bake.on ~> ~session.bake.on

\* ExitIsReported: the user is told when the worker is gone, whatever it wrote
\* before and whether or not the client still expected anything of it.
ExitIsReported ==
  (session.client = "stopped" /\ scene.available)
     ~> \/ session.client = "running" \/ ~scene.available
        \/ session.status \in Errors \cup {"idle"}
=============================================================================
