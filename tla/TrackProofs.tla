----------------------------- MODULE TrackProofs -----------------------------
(***************************************************************************)
(* The render cache and the baked Actions are what they claim to be, for   *)
(* every channel, every set of settings and every number of disturbances.  *)
(***************************************************************************)
EXTENDS TrackProperties, WellFoundedInduction, TLAPS

AnySource == {Invalid} \cup Sources
AnyTimeline == {NoTimeline} \cup Timelines
AnyFrame == {Outside} \cup Frames

SceneType ==
  [mode : {"SELECTED", "STREAM"}, available : BOOLEAN, source : AnySource,
   curve : Timelines, shown : Values, frame : AnyFrame, playing : BOOLEAN]
StageType == [revision : Nat, count : Nat, rows : SUBSET Rows]
TrackType ==
  [id : Nat, source : AnySource, left : Nat, prepared : BOOLEAN,
   canceled : BOOLEAN, restart : BOOLEAN, failed : BOOLEAN, revision : Nat,
   rendering : AnyTimeline, stage : StageType, published : AnyTimeline,
   cache : SUBSET Rows]
RequestType ==
  [method : Methods, operation : Nat, revision : Nat, source : AnySource,
   timeline : AnyTimeline, preview : AnyFrame]
Events == {"track_preview", "track_frame_batch"}
LineType ==
  [type : Events \cup {"reply", "exited", "track_ended", "error"},
   method : Methods,
   code : {"ok", "failed", "busy", "operation_not_found", "superseded",
           "exited", "crashed"},
   operation : Nat, revision : Nat, offset : Nat, preview : AnyFrame,
   rows : SUBSET [source : AnySource, timeline : AnyTimeline]]
ServingType ==
  [id : Nat, phase : {"idle", "running", "ending", "finishing"},
   canceled : BOOLEAN, latest : Nat, queue : Seq(RequestType),
   job : RequestType, sent : Nat, previewed : BOOLEAN, source : AnySource]
BakeType == [on : BOOLEAN, source : AnySource, timeline : AnyTimeline]
SessionType ==
  [status : Statuses, phase : {"none", "greeting", "negotiated", "loaded"},
   expected : BOOLEAN, rejected : BOOLEAN,
   client : {"stopped", "running", "stopping"}, registered : BOOLEAN,
   observed : {Unobserved} \cup AnySource, track : TrackType,
   bake : BakeType, invalidated : BOOLEAN, operations : Nat,
   inbox : Seq(RequestType), mesh : [frame : AnyFrame, rows : SUBSET Rows],
   baked : SUBSET Rows, early : BOOLEAN]

\* The rows of a track under some settings.
RowsOf(t, timeline) == {[source |-> t.source, timeline |-> timeline]}

\* What a track keeps to by itself.
Whole(t) ==
  /\ t.id = None => t = NoTrack
  /\ t.id # None => t.source \in Sources
  /\ t.revision = None =>
       /\ t.rendering = NoTimeline /\ t.published = NoTimeline
       /\ t.stage = NoStage
  /\ t.revision # None => t.prepared /\ t.rendering \in Timelines
  /\ t.cache = IF t.published = NoTimeline THEN {} ELSE RowsOf(t, t.published)
  /\ t.stage.rows = IF t.stage.count = 0 THEN {} ELSE RowsOf(t, t.rendering)
  /\ t.stage = NoStage \/ t.stage.revision = t.revision

\* The worker renders the audio of the track, if it serves the track.
Fed(t, v) == v.id = t.id => v.source = t.source

Uploads == {"track_start", "track_chunk", "track_prepare"}
Mine(t, x) == t.id # None /\ x.operation = t.id
Upload(t, x) == Mine(t, x) /\ x.method \in Uploads

\* A request is of the track as it is, and a render of it asks for its
\* settings, or for older ones.
Agrees(t, n, r, v) ==
  /\ r.operation <= n
  /\ r.method \in Uploads \cup {"track_render"} => r.operation # None
  /\ Upload(t, r) => ~t.prepared
  /\ Mine(t, r) =>
       /\ r.method = "track_start" => t.left > 0
       /\ r.method = "track_chunk" => r.source = t.source
       /\ r.method = "track_prepare" => Fed(t, v)
       /\ r.method = "track_render" =>
            /\ t.prepared /\ r.revision \in 1..t.revision
            /\ r.revision = t.revision => r.timeline = t.rendering

\* A line tells of the track as it is, and rows of it are those of its
\* settings, or of older ones.
Tells(t, n, x, v) ==
  /\ x.operation <= n
  /\ x.method \in Uploads \cup {"track_render"} \/ x.type \in Events
       => x.operation # None
  /\ x.type \in Events => x.method \notin Uploads
  /\ Upload(t, x) =>
       /\ ~t.prepared
       /\ x.method = "track_start" => t.left > 0
       /\ x.method # "track_start" /\ x.code \in {"ok", "superseded"} => Fed(t, v)
  /\ Mine(t, x) /\ x.type \in Events =>
       /\ x.revision \in 1..t.revision
       /\ x.revision = t.revision => x.rows = RowsOf(t, t.rendering)

\* The upload of a track is one request after the other: one is on its way.
OneUpload(t, q, ls, v) ==
  LET w == v.queue IN
  /\ \A i, j \in DOMAIN q : Upload(t, q[i]) /\ Upload(t, q[j]) => i = j
  /\ \A i, j \in DOMAIN w : Upload(t, w[i]) /\ Upload(t, w[j]) => i = j
  /\ \A i, j \in DOMAIN ls : Upload(t, ls[i]) /\ Upload(t, ls[j]) => i = j
  /\ \A i \in DOMAIN q, j \in DOMAIN w : ~(Upload(t, q[i]) /\ Upload(t, w[j]))
  /\ \A i \in DOMAIN q, j \in DOMAIN ls : ~(Upload(t, q[i]) /\ Upload(t, ls[j]))
  /\ \A i \in DOMAIN w, j \in DOMAIN ls : ~(Upload(t, w[i]) /\ Upload(t, ls[j]))

\* The worker renders.
Busy(v) == v.job # NoRequest

\* What is on its way fits the track, its inbox, the operations and the lines.
Fits(t, q, n, ls, v) ==
  /\ Whole(t) /\ t.id <= n /\ v.id <= n
  /\ t.prepared => Fed(t, v)
  /\ \A i \in DOMAIN q : Agrees(t, n, q[i], v)
  /\ \A i \in DOMAIN v.queue : Agrees(t, n, v.queue[i], v)
  /\ Busy(v) => Agrees(t, n, v.job, v) /\ v.job.method = "track_render"
  /\ \A i \in DOMAIN ls : Tells(t, n, ls[i], v)
  /\ OneUpload(t, q, ls, v)

\* What the worker works on is of its operation.
OfOperation(v) ==
  /\ \A i \in DOMAIN v.queue :
       /\ v.queue[i].operation = v.id
       /\ v.queue[i].method \in {"track_chunk", "track_prepare", "track_render"}
  /\ Busy(v) => v.job.operation = v.id

Flag(b) == IF b THEN 1 ELSE 0
Starting == {"starting", "loading"}

\* Each revision and each operation was caused by a disturbance of its own.
Paced(c, d) ==
  /\ c.track.id = None => ~c.invalidated
  /\ c.track.id # None =>
       /\ c.status \notin Starting
       /\ c.track.revision + Flag(c.invalidated) + Flag(~c.track.prepared) <= d
  /\ c.operations <= d
Accounted(c, s, d) ==
  CanRequest(c) =>
    c.operations + Flag(c.track.restart)
      + Flag(c.observed # s.source \/ c.status \in Starting) <= d
Caused(c, s, d) == Paced(c, d) /\ Accounted(c, s, d)

\* A bake is of the audio of the track.
BakesTrack(c) ==
  c.bake.on => /\ c.track.id # None /\ c.bake.source = c.track.source
               /\ c.bake.timeline \in Timelines

Coherent(c, s, ls, d) ==
  /\ c \in SessionType /\ BakesTrack(c)
  /\ Fits(c.track, c.inbox, c.operations, ls, serving)
  /\ Caused(c, s, d)

TrackInv ==
  /\ scene \in SceneType /\ serving \in ServingType
  /\ lines \in Seq(LineType)
  /\ pc \in {"idle", "lines"} /\ batch \in 0..Len(lines)
  /\ pc = "idle" => batch = 0
  /\ process \in {"none", "up", "exited", "crashed"}
  /\ disturbed \in 0..MaxDisturbances
  /\ OfOperation(serving)
  /\ \A i \in DOMAIN lines : lines[i].type = "exited" => process # "up"
  /\ Coherent(session, scene, lines, disturbed)
-----------------------------------------------------------------------------
USE TrackAssumption

\* Appended: what is in a sequence that was appended to.
LEMMA Appended ==
  ASSUME NEW S, NEW q \in Seq(S), NEW e \in S
  PROVE  /\ Append(q, e) \in Seq(S) /\ Len(Append(q, e)) = Len(q) + 1
         /\ \A i \in DOMAIN Append(q, e) :
              \/ i \in DOMAIN q /\ Append(q, e)[i] = q[i]
              \/ i \notin DOMAIN q /\ i = Len(q) + 1 /\ Append(q, e)[i] = e
OBVIOUS

\* Beheaded: what is left of a sequence whose head was taken.
LEMMA Beheaded ==
  ASSUME NEW S, NEW q \in Seq(S), q # <<>>
  PROVE  /\ Tail(q) \in Seq(S) /\ Len(Tail(q)) = Len(q) - 1 /\ Len(q) > 0
         /\ Head(q) = q[1] /\ Head(q) \in S /\ 1 \in DOMAIN q
         /\ \A i \in DOMAIN Tail(q) :
              Tail(q)[i] = q[i + 1] /\ i + 1 \in DOMAIN q /\ i + 1 # 1 /\ i \in Nat
OBVIOUS

\* NoTimelineIsNone: no settings of a channel are none.
LEMMA NoTimelineIsNone == NoTimeline \notin Timelines
BY DEF NoTimeline, Timelines

\* Blanks: what there is at first has its type.
LEMMA Blanks ==
  /\ NoStage \in StageType /\ NoTrack \in TrackType /\ NoBake \in BakeType
  /\ NoRequest \in RequestType /\ NoLine \in LineType /\ Idle \in ServingType
  /\ Neutral \in [frame : AnyFrame, rows : SUBSET Rows]
  /\ Fresh \in SessionType
<1>1. NoStage \in StageType
  BY DEF NoStage, StageType, None
<1>2. NoTrack \in TrackType
  BY <1>1 DEF NoTrack, TrackType, None, AnySource, AnyTimeline, Invalid
<1>3. NoBake \in BakeType
  BY DEF NoBake, BakeType, AnySource, AnyTimeline
<1>4. NoRequest \in RequestType
  BY DEF NoRequest, RequestType, Methods, None, AnySource, AnyTimeline, AnyFrame
<1>5. NoLine \in LineType
  BY DEF NoLine, LineType, Events, Methods, None, AnyFrame
<1>6. Idle \in ServingType
  BY <1>4 DEF Idle, ServingType, None, AnySource
<1>7. Neutral \in [frame : AnyFrame, rows : SUBSET Rows]
  BY DEF Neutral, AnyFrame
<1>8. Fresh \in SessionType
  BY <1>2, <1>3, <1>7 DEF Fresh, SessionType, Statuses, Unobserved, AnySource
<1>9. QED
  BY <1>1, <1>2, <1>3, <1>4, <1>5, <1>6, <1>7, <1>8

\* SceneAtFirst: a new scene has its type, and Blender shows a frame of it.
LEMMA SceneAtFirst == NewScene \in SceneType
<1>1. PICK least \in Frames : \A g \in Frames : least <= g
  <2> DEFINE R == OpToRel(<, Nat)
  <2>1. IsWellFoundedOn(R, Nat) /\ Frames \subseteq Nat /\ Frames # {}
    BY NatLessThanWellFounded
  <2>2. \A x, y \in Nat : x < y => <<x, y>> \in R
    BY DEF OpToRel
  <2> HIDE DEF R
  <2>3. PICK first \in Frames : \A g \in Frames : ~(<<g, first>> \in R)
    BY <2>1, WFMin
  <2>4. \A g \in Frames : ~(g < first) /\ g \in Nat /\ first \in Nat
    BY <2>1, <2>2, <2>3
  <2>5. \A g \in Frames : first <= g
    BY <2>4
  <2> QED
    BY <2>5
<1>2. (CHOOSE f \in Frames : \A g \in Frames : f <= g) \in Frames
  BY <1>1
<1>3. [f \in Frames |-> 1] \in Timelines
  BY DEF Timelines
<1>4. QED
  BY <1>2, <1>3 DEF NewScene, SceneType, AnySource, AnyFrame
-----------------------------------------------------------------------------
(* What the methods of the controller do. *)

\* The session shows or forgets something, and asks the worker for nothing.
Milder(a, c, s) ==
  /\ a \in SessionType
  /\ a.track = c.track /\ a.inbox = c.inbox /\ a.operations = c.operations
  /\ a.bake \in {c.bake, NoBake} /\ a.baked = c.baked
  /\ a.invalidated => c.invalidated
  /\ a.observed \in {c.observed, s.source}
  /\ a.client = c.client
  /\ a.status \in Starting => c.status \in Starting

\* A disturbance is left to account for a new operation, ...
Spare(c, s, d) ==
  CanRequest(c) =>
    c.operations + Flag(c.track.restart)
      + Flag(c.observed # s.source \/ c.status \in Starting) < d

\* ... and for a new revision.
Affords(c, d) ==
  c.track.id # None =>
    c.track.revision + Flag(c.invalidated) + Flag(~c.track.prepared) < d

\* MilderIsCoherent: what is shown and forgotten disturbs nothing on its way.
LEMMA MilderIsCoherent ==
  ASSUME NEW c, NEW a, NEW s, NEW ls, NEW d \in Nat,
         Coherent(c, s, ls, d), Milder(a, c, s)
  PROVE  Coherent(a, s, ls, d)
<1>1. c \in SessionType /\ c.track \in TrackType
  BY DEF Coherent, SessionType
<1>2. BakesTrack(a)
  BY DEF Coherent, Milder, BakesTrack, NoBake
<1>3. Caused(a, s, d)
  <2>1. CanRequest(a) => CanRequest(c)
    BY DEF Milder, CanRequest
  <2>2. /\ Flag(a.invalidated) <= Flag(c.invalidated)
        /\ Flag(a.invalidated) \in {0, 1} /\ Flag(c.invalidated) \in {0, 1}
    BY DEF Milder, Flag
  <2>3. LET x == a.observed # s.source \/ a.status \in Starting
            y == c.observed # s.source \/ c.status \in Starting
        IN Flag(x) <= Flag(y) /\ Flag(x) \in {0, 1} /\ Flag(y) \in {0, 1}
    BY DEF Milder, Flag
  <2>4. /\ c.operations \in Nat /\ c.track.revision \in Nat
        /\ Flag(~c.track.prepared) \in {0, 1} /\ Flag(c.track.restart) \in {0, 1}
    BY <1>1 DEF SessionType, TrackType, Flag
  <2>5. Caused(c, s, d) /\ a.track = c.track /\ a.operations = c.operations
    BY DEF Coherent, Milder
  <2>6. ASSUME a.track.id # None
        PROVE  a.track.revision + Flag(a.invalidated) + Flag(~a.track.prepared) <= d
    BY <2>2, <2>4, <2>5, <2>6 DEF Caused, Paced, Accounted
  <2>7. ASSUME CanRequest(a)
        PROVE  a.operations + Flag(a.track.restart)
                 + Flag(a.observed # s.source \/ a.status \in Starting) <= d
    BY <2>1, <2>3, <2>4, <2>5, <2>7 DEF Caused, Paced, Accounted
  <2>8. /\ a.track.id = None => ~a.invalidated
        /\ a.track.id # None => a.status \notin Starting
    BY <2>5 DEF Caused, Paced, Accounted, Milder
  <2>9. QED
    BY <2>5, <2>6, <2>7, <2>8 DEF Caused, Paced, Accounted
<1>4. QED
  BY <1>2, <1>3 DEF Coherent, Milder

\* MilderTwice: so are two such steps one after the other.
LEMMA MilderTwice ==
  ASSUME NEW c, NEW a, NEW b, NEW s, Milder(a, c, s), Milder(b, a, s)
  PROVE  Milder(b, c, s)
BY DEF Milder

\* MilderMethods: the methods that only show or forget.
LEMMA MilderMethods ==
  ASSUME NEW c \in SessionType, NEW s \in SceneType,
         NEW status \in Statuses, status \notin Starting
  PROVE  /\ Milder(c, c, s)
         /\ Milder(SetStatus(c, s, status), c, s)
         /\ Milder(ReleaseBake(c), c, s) /\ ~ReleaseBake(c).bake.on
         /\ Milder(Observe(c, s.source), c, s)
         /\ Milder(Snapshot(c, s), c, s)
         /\ SetStatus(c, s, status).bake = c.bake
         /\ SetStatus(c, s, status).observed = c.observed
         /\ Snapshot(c, s).bake = c.bake /\ Snapshot(c, s).observed = c.observed
         /\ Observe(c, s.source).observed = s.source
<1>1. Milder(c, c, s)
  BY DEF Milder
<1>2. ASSUME NEW st \in Statuses, st \notin Starting
      PROVE  /\ Milder(SetStatus(c, s, st), c, s)
             /\ SetStatus(c, s, st).bake = c.bake
             /\ SetStatus(c, s, st).observed = c.observed
  BY <1>2, SMTT(30) DEF Milder, SetStatus, SessionType, Starting
<1>3. Milder(ReleaseBake(c), c, s) /\ ~ReleaseBake(c).bake.on
  <2>1. NoBake \in BakeType /\ ~NoBake.on
    BY Blanks DEF NoBake
  <2>2. QED
    BY <2>1 DEF Milder, ReleaseBake, SessionType
<1>4. Milder(Observe(c, s.source), c, s) /\ Observe(c, s.source).observed = s.source
  <2>1. s.source \in {Unobserved} \cup AnySource
    BY DEF SceneType
  <2>2. QED
    BY <2>1 DEF Milder, Observe, SessionType
<1>5. /\ Milder(Snapshot(c, s), c, s)
      /\ Snapshot(c, s).bake = c.bake /\ Snapshot(c, s).observed = c.observed
  <2>1. "ready" \in Statuses \ Starting
    BY DEF Statuses, Starting
  <2>2. QED
    BY <2>1, <1>1, <1>2 DEF Snapshot
<1>6. QED
  BY <1>1, <1>2, <1>3, <1>4, <1>5
-----------------------------------------------------------------------------
(* What is on its way, when the track or the inbox changes. *)

\* Nothing of the upload of the track is on its way.
NoUpload(t, q, ls, v) ==
  /\ \A i \in DOMAIN q : ~Upload(t, q[i])
  /\ \A i \in DOMAIN v.queue : ~Upload(t, v.queue[i])
  /\ \A i \in DOMAIN ls : ~Upload(t, ls[i])

\* FitsAsked: a request that agrees with the track is sent, and the first of an
\* upload only when nothing of it is on its way.
LEMMA FitsAsked ==
  ASSUME NEW t, NEW q \in Seq(RequestType), NEW n \in Nat, NEW ls,
         NEW r \in RequestType,
         Fits(t, q, n, ls, serving), Agrees(t, n, r, serving),
         Upload(t, r) => NoUpload(t, q, ls, serving)
  PROVE  Fits(t, Append(q, r), n, ls, serving)
<1> DEFINE p == Append(q, r)
<1>1. \A i \in DOMAIN p :
        \/ i \in DOMAIN q /\ p[i] = q[i]
        \/ i \notin DOMAIN q /\ i = Len(q) + 1 /\ p[i] = r
  BY Appended
<1> HIDE DEF p
<1>2. \A i \in DOMAIN p : Agrees(t, n, p[i], serving)
  BY <1>1 DEF Fits
<1>3. OneUpload(t, p, ls, serving)
  BY <1>1 DEF Fits, OneUpload, NoUpload
<1>4. QED
  BY <1>2, <1>3 DEF Fits, p

\* FitsOther: a request that is not of an upload or a render is sent.
LEMMA FitsOther ==
  ASSUME NEW t, NEW q \in Seq(RequestType), NEW n \in Nat, NEW ls,
         NEW r \in RequestType, Fits(t, q, n, ls, serving), r.operation <= n,
         r.method \notin Uploads \cup {"track_render"}
  PROVE  Fits(t, Append(q, r), n, ls, serving)
<1>1. Agrees(t, n, r, serving) /\ ~Upload(t, r)
  BY DEF Agrees, Upload, Uploads
<1>2. QED
  BY <1>1, FitsAsked

\* FitsSame: a track changes in what is on its way in no way.
LEMMA FitsSame ==
  ASSUME NEW t, NEW u \in TrackType, NEW q, NEW n, NEW ls,
         Fits(t, q, n, ls, serving), t.id # None,
         u.id = t.id, u.source = t.source, u.left = t.left,
         u.prepared = t.prepared, u.revision = t.revision,
         u.rendering = t.rendering, u.published = t.published,
         u.cache = t.cache, u.stage \in {t.stage, NoStage}
  PROVE  Fits(u, q, n, ls, serving)
<1>1. Whole(u)
  <2>1. Whole(t) /\ \A timeline : RowsOf(u, timeline) = RowsOf(t, timeline)
    BY DEF Fits, RowsOf
  <2>2. NoStage.count = 0 /\ NoStage.rows = {}
    BY DEF NoStage
  <2>3. QED
    BY <2>1, <2>2 DEF Whole
<1>2. \A x : (Mine(u, x) <=> Mine(t, x)) /\ (Upload(u, x) <=> Upload(t, x))
  BY DEF Mine, Upload
<1>3. Fed(u, serving) <=> Fed(t, serving)
  BY DEF Fed
<1>4. \A r : Agrees(t, n, r, serving) => Agrees(u, n, r, serving)
  BY <1>2, <1>3 DEF Agrees
<1>5. \A x : Tells(t, n, x, serving) => Tells(u, n, x, serving)
  BY <1>2, <1>3 DEF Tells, RowsOf
<1>6. OneUpload(u, q, ls, serving)
  BY <1>2 DEF Fits, OneUpload
<1>7. QED
  BY <1>1, <1>3, <1>4, <1>5, <1>6 DEF Fits

\* FitsNone: a session without a track.
LEMMA FitsNone ==
  ASSUME NEW t, NEW q, NEW n \in Nat, NEW ls, Fits(t, q, n, ls, serving)
  PROVE  Fits(NoTrack, q, n, ls, serving)
<1>1. Whole(NoTrack) /\ NoTrack.id = None /\ ~NoTrack.prepared
  BY NoTimelineIsNone DEF Whole, NoTrack, NoStage, None
<1>2. \A x : ~Mine(NoTrack, x) /\ ~Upload(NoTrack, x)
  BY <1>1 DEF Mine, Upload
<1>3. \A r : Agrees(t, n, r, serving) => Agrees(NoTrack, n, r, serving)
  BY <1>2 DEF Agrees
<1>4. \A x : Tells(t, n, x, serving) => Tells(NoTrack, n, x, serving)
  BY <1>2 DEF Tells
<1>5. OneUpload(NoTrack, q, ls, serving)
  BY <1>2 DEF OneUpload
<1>6. NoTrack.id <= n
  BY <1>1 DEF None
<1>7. QED
  BY <1>1, <1>3, <1>4, <1>5, <1>6 DEF Fits

\* FitsNew: nothing on its way is of a track that is about to start.
LEMMA FitsNew ==
  ASSUME NEW t, NEW q \in Seq(RequestType), NEW n \in Nat, NEW ls \in Seq(LineType),
         NEW source \in Sources, NEW left \in Nat \ {0},
         Fits(t, q, n, ls, serving), serving \in ServingType,
         NEW r \in RequestType, r.method = "track_start", r.operation = n + 1
  PROVE  Fits([NoTrack EXCEPT !.id = n + 1, !.source = source, !.left = left],
              Append(q, r), n + 1, ls, serving)
<1> DEFINE u == [NoTrack EXCEPT !.id = n + 1, !.source = source, !.left = left]
<1>1. /\ u.id = n + 1 /\ u.source = source /\ u.left > 0 /\ ~u.prepared /\ u.revision = None /\ u.rendering = NoTimeline
      /\ u.published = NoTimeline /\ u.stage = NoStage /\ u.cache = {}
      /\ u.id # None
  BY DEF NoTrack, None
<1> HIDE DEF u
<1>2. Whole(u)
  BY <1>1 DEF Whole, NoStage, None
<1>3. \A x \in LineType : x.operation \in Nat
  BY DEF LineType
<1>4. \A x : x.operation \in Nat /\ x.operation <= n =>
        ~Mine(u, x) /\ ~Upload(u, x) /\ x.operation <= n + 1
  BY <1>1 DEF Mine, Upload
<1>5. \A x \in RequestType : Agrees(t, n, x, serving) => Agrees(u, n + 1, x, serving) /\ ~Upload(u, x)
  BY <1>4 DEF Agrees, RequestType
<1>6. \A x \in LineType : Tells(t, n, x, serving) => Tells(u, n + 1, x, serving) /\ ~Upload(u, x)
  BY <1>3, <1>4 DEF Tells
<1>7. /\ serving.queue \in Seq(RequestType) /\ serving.job \in RequestType
      /\ serving.id \in Nat
  BY DEF ServingType
<1>8. \A i \in DOMAIN q : q[i] \in RequestType
  OBVIOUS
<1>9. \A i \in DOMAIN serving.queue : serving.queue[i] \in RequestType
  BY <1>7
<1>10. \A i \in DOMAIN ls : ls[i] \in LineType
  OBVIOUS
<1>11. NoUpload(u, q, ls, serving)
  BY <1>5, <1>6, <1>8, <1>9, <1>10 DEF Fits, NoUpload
<1>12. Fits(u, q, n + 1, ls, serving)
  <2>1. OneUpload(u, q, ls, serving)
    BY <1>11 DEF OneUpload, NoUpload
  <2>2. u.id <= n + 1 /\ serving.id <= n + 1
    BY <1>1, <1>7 DEF Fits
  <2>3. QED
    BY <1>1, <1>2, <1>5, <1>6, <1>7, <1>8, <1>9, <1>10, <2>1, <2>2 DEF Fits
<1>13. Agrees(u, n + 1, r, serving)
  BY <1>1 DEF Agrees, Upload, Uploads, None
<1>14. QED
  BY <1>11, <1>12, <1>13, FitsAsked DEF u
-----------------------------------------------------------------------------
(* The methods of the controller keep a coherent session coherent. *)

\* Parts: what a coherent session consists of.
LEMMA Parts ==
  ASSUME NEW c, NEW s, NEW ls, NEW d, Coherent(c, s, ls, d)
  PROVE  /\ c \in SessionType /\ c.track \in TrackType /\ c.bake \in BakeType
         /\ c.inbox \in Seq(RequestType) /\ c.operations \in Nat
         /\ Fits(c.track, c.inbox, c.operations, ls, serving)
         /\ BakesTrack(c) /\ Caused(c, s, d)
BY DEF Coherent, SessionType

\* Altered: a track changes in what is not on its way; a restart is accounted
\* for.
LEMMA Altered ==
  ASSUME NEW c, NEW a \in SessionType, NEW s, NEW ls, NEW d \in Nat,
         Coherent(c, s, ls, d), c.track.id # None,
         a.inbox = c.inbox, a.operations = c.operations, a.client = c.client,
         a.bake \in {c.bake, NoBake}, a.invalidated => c.invalidated,
         a.observed \in {c.observed, s.source}, a.status \notin Starting,
         a.track.id = c.track.id, a.track.source = c.track.source,
         a.track.left = c.track.left, a.track.prepared = c.track.prepared,
         a.track.revision = c.track.revision,
         a.track.rendering = c.track.rendering,
         a.track.published = c.track.published, a.track.cache = c.track.cache,
         a.track.stage \in {c.track.stage, NoStage},
         a.track.restart => c.track.restart \/ Spare(c, s, d)
  PROVE  Coherent(a, s, ls, d)
<1>1. /\ c \in SessionType /\ c.track \in TrackType /\ Caused(c, s, d)
      /\ a.track \in TrackType
  BY Parts DEF SessionType
<1>2. Fits(a.track, a.inbox, a.operations, ls, serving)
  BY <1>1, Parts, FitsSame
<1>3. BakesTrack(a)
  BY Parts DEF BakesTrack, NoBake
<1>4. Caused(a, s, d)
  <2>1. CanRequest(a) <=> CanRequest(c)
    BY DEF CanRequest
  <2>2. /\ Flag(a.invalidated) <= Flag(c.invalidated)
        /\ Flag(a.invalidated) \in {0, 1} /\ Flag(c.invalidated) \in {0, 1}
    BY DEF Flag
  <2>3. LET x == a.observed # s.source \/ a.status \in Starting
            y == c.observed # s.source \/ c.status \in Starting
        IN Flag(x) <= Flag(y) /\ Flag(x) \in {0, 1} /\ Flag(y) \in {0, 1}
    BY DEF Flag
  <2>4. /\ c.operations \in Nat /\ c.track.revision \in Nat
        /\ Flag(~c.track.prepared) \in {0, 1}
        /\ Flag(c.track.restart) \in {0, 1} /\ Flag(a.track.restart) \in {0, 1}
        /\ a.track.restart /\ c.track.restart => Flag(a.track.restart) = Flag(c.track.restart)
        /\ ~a.track.restart => Flag(a.track.restart) = 0
    BY <1>1 DEF SessionType, TrackType, Flag
  <2>5. a.track.revision + Flag(a.invalidated) + Flag(~a.track.prepared) <= d
    BY <1>1, <2>2, <2>4 DEF Caused, Paced, Accounted
  <2>6. ASSUME CanRequest(a)
        PROVE  a.operations + Flag(a.track.restart)
                 + Flag(a.observed # s.source \/ a.status \in Starting) <= d
    <3>1. CASE a.track.restart /\ ~c.track.restart
      BY <1>1, <2>1, <2>3, <2>4, <2>6, <3>1 DEF Spare, Flag
    <3>2. CASE ~(a.track.restart /\ ~c.track.restart)
      BY <1>1, <2>1, <2>3, <2>4, <2>6, <3>2 DEF Caused, Paced, Accounted
    <3>3. QED
      BY <3>1, <3>2
  <2>7. QED
    BY <1>1, <2>5, <2>6 DEF Caused, Paced, Accounted
<1>5. QED
  BY <1>2, <1>3, <1>4 DEF Coherent

\* OtherRequests: a request that is not of an upload or a render is sent.
LEMMA OtherRequests ==
  ASSUME NEW c, NEW s, NEW ls, NEW d \in Nat, Coherent(c, s, ls, d),
         NEW r \in RequestType, r.operation <= c.operations,
         r.method \notin Uploads \cup {"track_render"}
  PROVE  /\ Coherent(Submit(c, r), s, ls, d)
         /\ Submit(c, r) = [c EXCEPT !.inbox = Append(c.inbox, r)]
<1> DEFINE a == Submit(c, r)
<1>1. /\ c \in SessionType /\ c.inbox \in Seq(RequestType) /\ c.operations \in Nat
      /\ a = [c EXCEPT !.inbox = Append(c.inbox, r)]
  BY Parts DEF Submit
<1>2. Append(c.inbox, r) \in Seq(RequestType)
  BY <1>1, Appended
<1>3. /\ a \in SessionType /\ a.inbox = Append(c.inbox, r) /\ a.track = c.track
      /\ a.operations = c.operations /\ a.bake = c.bake
      /\ a.invalidated = c.invalidated /\ a.observed = c.observed
      /\ a.status = c.status /\ a.client = c.client
  BY <1>1, <1>2 DEF SessionType
<1> HIDE DEF a
<1>4. Fits(a.track, a.inbox, a.operations, ls, serving)
  BY <1>1, <1>3, Parts, FitsOther
<1>5. BakesTrack(a) /\ Caused(a, s, d)
  BY <1>3, Parts DEF BakesTrack, Caused, Paced, Accounted, CanRequest
<1>6. QED
  BY <1>1, <1>3, <1>4, <1>5 DEF Coherent, a

\* ShutdownCoherent: client.begin_shutdown, when the worker may start no more.
LEMMA ShutdownCoherent ==
  ASSUME NEW c \in SessionType, NEW s, NEW ls, NEW d \in Nat,
         Fits(c.track, c.inbox, c.operations, ls, serving), BakesTrack(c), Paced(c, d)
  PROVE  /\ Coherent(BeginShutdown(c), s, ls, d)
         /\ BeginShutdown(c).baked = c.baked
         /\ BeginShutdown(c).track = c.track /\ BeginShutdown(c).bake = c.bake
         /\ ~CanRequest(BeginShutdown(c))
<1> DEFINE r == [NoRequest EXCEPT !.method = "shutdown"]
           e(client) == [c EXCEPT !.client = client]
<1>1. ASSUME NEW client \in {"stopped", "stopping", c.client},
             process # "up" \/ client # "running"
      PROVE  /\ Coherent(e(client), s, ls, d)
             /\ e(client).baked = c.baked /\ e(client).track = c.track
             /\ e(client).bake = c.bake /\ e(client).client = client
             /\ e(client).operations = c.operations
  <2> DEFINE a == e(client)
  <2>1. /\ a \in SessionType /\ a.client = client /\ a.track = c.track
        /\ a.inbox = c.inbox /\ a.operations = c.operations /\ a.bake = c.bake
        /\ a.invalidated = c.invalidated /\ a.status = c.status
        /\ a.baked = c.baked
    BY DEF SessionType
  <2> HIDE DEF a
  <2>2. ~CanRequest(a)
    BY <1>1, <2>1 DEF CanRequest
  <2>3. BakesTrack(a) /\ Caused(a, s, d)
    BY <2>1, <2>2 DEF BakesTrack, Caused, Paced, Accounted
  <2>4. QED
    BY <2>1, <2>3 DEF Coherent, a
<1>2. r \in RequestType /\ r.operation = None /\ r.method = "shutdown"
  BY Blanks DEF RequestType, NoRequest, Methods, None
<1>3. CASE process # "up"
  <2>1. BeginShutdown(c) = e("stopped")
    BY <1>3 DEF BeginShutdown
  <2>2. QED
    BY <1>1, <1>3, <2>1 DEF CanRequest
<1>4. CASE process = "up" /\ c.client = "stopping"
  <2>1. BeginShutdown(c) = c /\ c = e(c.client)
    BY <1>4 DEF BeginShutdown, SessionType
  <2>2. QED
    BY <1>1, <1>4, <2>1 DEF CanRequest
<1>5. CASE process = "up" /\ c.client # "stopping"
  <2> DEFINE b == e("stopping")
  <2>1. BeginShutdown(c) = Submit(b, r) /\ b \in SessionType
    BY <1>5 DEF BeginShutdown, Submit, SessionType
  <2>2. /\ Coherent(b, s, ls, d) /\ b.baked = c.baked /\ b.track = c.track
        /\ b.bake = c.bake /\ b.client = "stopping" /\ b.operations = c.operations
    BY <1>1
  <2> HIDE DEF b, r
  <2>3. r.method \notin Uploads \cup {"track_render"} /\ r.operation <= b.operations
    BY <1>2, <2>2 DEF Uploads, SessionType, None
  <2>4. Coherent(Submit(b, r), s, ls, d)
    BY <1>2, <2>2, <2>3, OtherRequests
  <2>5. /\ Submit(b, r).baked = b.baked /\ Submit(b, r).track = b.track
        /\ Submit(b, r).bake = b.bake /\ Submit(b, r).client = b.client
    BY <2>1 DEF Submit, SessionType
  <2>6. QED
    BY <2>1, <2>2, <2>4, <2>5 DEF CanRequest
<1>6. QED
  BY <1>3, <1>4, <1>5 DEF SessionType

\* EmptiedCoherent: a session without a track and a bake.
LEMMA EmptiedCoherent ==
  ASSUME NEW c, NEW a \in SessionType, NEW s, NEW ls, NEW d \in Nat,
         Coherent(c, s, ls, d), a.track = NoTrack, a.bake = NoBake,
         a.inbox = c.inbox, a.operations = c.operations, a.client = c.client,
         ~a.invalidated
  PROVE  /\ Fits(a.track, a.inbox, a.operations, ls, serving)
         /\ BakesTrack(a) /\ Paced(a, d)
         /\ ~CanRequest(a) => Coherent(a, s, ls, d)
         /\ a.observed \in {c.observed, s.source}
              /\ (a.status \in Starting => c.status \in Starting)
              => Coherent(a, s, ls, d)
         /\ c.track.restart /\ CanRequest(c) /\ a.observed = c.observed
              /\ a.status = c.status => Spare(a, s, d)
<1>1. NoTrack.id = None /\ ~NoTrack.restart /\ ~NoBake.on
  BY DEF NoTrack, NoBake
<1>2. Fits(a.track, a.inbox, a.operations, ls, serving) /\ BakesTrack(a)
  BY <1>1, Parts, FitsNone DEF BakesTrack
<1>3. Paced(a, d)
  BY <1>1, Parts DEF Caused, Paced
<1>4. CanRequest(a) <=> CanRequest(c)
  BY DEF CanRequest
<1>5. /\ Flag(a.track.restart) = 0 /\ Flag(c.track.restart) \in {0, 1}
      /\ c.track.restart => Flag(c.track.restart) = 1
      /\ c.operations \in Nat
      /\ \A x, y \in BOOLEAN :
           Flag(x) \in {0, 1} /\ ((x => y) => Flag(x) <= Flag(y))
  BY <1>1, Parts DEF Flag
<1> DEFINE x == a.observed # s.source \/ a.status \in Starting
           y == c.observed # s.source \/ c.status \in Starting
<1>6. CanRequest(c) => c.operations + Flag(c.track.restart) + Flag(y) <= d
  BY Parts DEF Caused, Accounted
<1>7. ASSUME \/ ~CanRequest(a)
             \/ /\ a.observed \in {c.observed, s.source}
                /\ a.status \in Starting => c.status \in Starting
      PROVE  Coherent(a, s, ls, d)
  <2>1. CASE ~CanRequest(a)
    BY <1>2, <1>3, <2>1 DEF Coherent, Caused, Accounted
  <2>2. CASE CanRequest(a)
    <3>1. x => y
      BY <1>7, <2>2
    <3>2. Flag(x) <= Flag(y) /\ Flag(x) \in {0, 1} /\ Flag(y) \in {0, 1}
      BY <1>5, <3>1
    <3>3. a.operations + Flag(a.track.restart) + Flag(x) <= d
      BY <1>4, <1>5, <1>6, <2>2, <3>2
    <3>4. QED
      BY <1>2, <1>3, <3>3 DEF Coherent, Caused, Accounted
  <2>3. QED
    BY <2>1, <2>2
<1>8. ASSUME c.track.restart, CanRequest(c), a.observed = c.observed,
             a.status = c.status
      PROVE  Spare(a, s, d)
  <2>1. Flag(x) = Flag(y) /\ Flag(y) \in {0, 1}
    BY <1>5, <1>8
  <2>2. c.operations + 1 + Flag(y) <= d
    BY <1>5, <1>6, <1>8
  <2> HIDE DEF x, y
  <2>3. a.operations + Flag(a.track.restart) + Flag(x) < d
    BY <1>5, <2>1, <2>2
  <2>4. QED
    BY <2>3 DEF Spare, x
<1>9. QED
  BY <1>2, <1>3, <1>7, <1>8
-----------------------------------------------------------------------------
\* The session stays coherent and bakes nothing.
Keeps(a, c, s, ls, d) == Coherent(a, s, ls, d) /\ a.baked = c.baked

\* MilderKeeps: what is shown and forgotten.
LEMMA MilderKeeps ==
  ASSUME NEW c, NEW a, NEW s, NEW ls, NEW d \in Nat,
         Coherent(c, s, ls, d), Milder(a, c, s)
  PROVE  Keeps(a, c, s, ls, d)
BY MilderIsCoherent DEF Keeps, Milder

\* StatusKeeps: _set_status.
LEMMA StatusKeeps ==
  ASSUME NEW c, NEW s \in SceneType, NEW ls, NEW d \in Nat,
         Coherent(c, s, ls, d), NEW status \in Statuses \ Starting
  PROVE  /\ Keeps(SetStatus(c, s, status), c, s, ls, d)
         /\ SetStatus(c, s, status).bake = c.bake
         /\ SetStatus(c, s, status).track = c.track
         /\ SetStatus(c, s, status).client = c.client
<1>1. c \in SessionType
  BY Parts
<1>2. Milder(SetStatus(c, s, status), c, s) /\ SetStatus(c, s, status).bake = c.bake
  BY <1>1, MilderMethods
<1>3. QED
  BY <1>2, MilderKeeps DEF Milder

\* CancelKeeps: _cancel_selected_track.
LEMMA CancelKeeps ==
  ASSUME NEW c, NEW s, NEW ls, NEW d \in Nat, Coherent(c, s, ls, d),
         c.track.id # None, NEW restart \in BOOLEAN,
         restart => c.track.restart \/ Spare(c, s, d)
  PROVE  /\ Keeps(CancelTrack(c, restart), c, s, ls, d)
         /\ CancelTrack(c, restart).bake = c.bake
         /\ CancelTrack(c, restart).track.id = c.track.id
         /\ CancelTrack(c, restart).track.restart \in BOOLEAN
<1>1. c \in SessionType /\ c.track \in TrackType /\ c.track.id <= c.operations
  BY Parts DEF Fits
<1>2. c.status \notin Starting
  BY Parts DEF Caused, Paced
<1>3. CASE c.track.canceled
  <2> DEFINE a == [c EXCEPT !.track.restart = c.track.restart \/ restart]
  <2>1. CancelTrack(c, restart) = a
    BY <1>3 DEF CancelTrack
  <2>2. /\ a \in SessionType
        /\ a.track = [c.track EXCEPT !.restart = c.track.restart \/ restart]
        /\ a.inbox = c.inbox /\ a.operations = c.operations
        /\ a.client = c.client /\ a.bake = c.bake /\ a.baked = c.baked
        /\ a.invalidated = c.invalidated /\ a.observed = c.observed
        /\ a.status = c.status
    BY <1>1 DEF SessionType, TrackType
  <2> HIDE DEF a
  <2>3. /\ a.track.id = c.track.id /\ a.track.source = c.track.source
        /\ a.track.left = c.track.left /\ a.track.prepared = c.track.prepared
        /\ a.track.revision = c.track.revision
        /\ a.track.rendering = c.track.rendering
        /\ a.track.published = c.track.published
        /\ a.track.cache = c.track.cache /\ a.track.stage = c.track.stage
        /\ a.track.restart = (c.track.restart \/ restart)
        /\ a.track.restart \in BOOLEAN
    BY <1>1, <2>2 DEF TrackType
  <2>4. Coherent(a, s, ls, d)
    BY <1>2, <2>2, <2>3, Altered
  <2>5. QED
    BY <2>1, <2>2, <2>3, <2>4 DEF Keeps
<1>4. CASE ~c.track.canceled
  <2> DEFINE r == TrackRequest(c, "cancel")
             b == Submit(c, r)
             a == [b EXCEPT !.track.canceled = TRUE, !.track.restart = restart]
  <2>1. CancelTrack(c, restart) = a
    BY <1>4 DEF CancelTrack
  <2>2. /\ r \in RequestType /\ r.operation = c.track.id /\ r.method = "cancel"
    <3>1. "cancel" \in Methods
      BY DEF Methods
    <3>2. NoRequest \in RequestType
      BY Blanks
    <3>3. QED
      BY <1>1, <3>1, <3>2 DEF TrackRequest, RequestType, TrackType
  <2> HIDE DEF r
  <2>3. r.method \notin Uploads \cup {"track_render"}
    BY <2>2 DEF Uploads
  <2>4. Coherent(b, s, ls, d) /\ b = [c EXCEPT !.inbox = Append(c.inbox, r)]
    BY <1>1, <2>2, <2>3, OtherRequests
  <2> HIDE DEF b
  <2>5. /\ b \in SessionType /\ b.track = c.track /\ b.bake = c.bake
        /\ b.status = c.status /\ b.baked = c.baked /\ b.client = c.client
        /\ b.operations = c.operations /\ b.observed = c.observed
    <3>1. b \in SessionType
      BY <2>4, Parts
    <3>2. QED
      BY <1>1, <2>4, <3>1 DEF SessionType
  <2>6. /\ a \in SessionType
        /\ a.track = [c.track EXCEPT !.canceled = TRUE, !.restart = restart]
        /\ a.inbox = b.inbox /\ a.operations = b.operations
        /\ a.client = b.client /\ a.bake = b.bake /\ a.baked = b.baked
        /\ a.invalidated = b.invalidated /\ a.observed = b.observed
        /\ a.status = b.status
    BY <1>1, <2>5 DEF SessionType, TrackType
  <2> HIDE DEF a
  <2>7. /\ a.track.id = b.track.id /\ a.track.source = b.track.source
        /\ a.track.left = b.track.left /\ a.track.prepared = b.track.prepared
        /\ a.track.revision = b.track.revision
        /\ a.track.rendering = b.track.rendering
        /\ a.track.published = b.track.published
        /\ a.track.cache = b.track.cache /\ a.track.stage = b.track.stage
        /\ a.track.restart = restart
    BY <1>1, <2>5, <2>6 DEF TrackType
  <2>8. Spare(c, s, d) => Spare(b, s, d)
    BY <2>5 DEF Spare, CanRequest
  <2>9. Coherent(a, s, ls, d)
    <3>1. a.track.restart => b.track.restart \/ Spare(b, s, d)
      BY <2>5, <2>7, <2>8
    <3>2. b.track.id # None /\ a.status \notin Starting
      BY <1>2, <2>5, <2>6
    <3>3. Coherent(b, s, ls, d)
      BY <2>4
    <3>4. /\ a.inbox = b.inbox /\ a.operations = b.operations
          /\ a.client = b.client /\ a.bake = b.bake
          /\ a.invalidated = b.invalidated /\ a.observed = b.observed
          /\ a \in SessionType
      BY <2>6
    <3>5. QED
      BY <2>7, <3>1, <3>2, <3>3, <3>4, Altered
  <2>10. QED
    BY <2>1, <2>5, <2>6, <2>7, <2>9 DEF Keeps
<1>5. QED
  BY <1>1, <1>3, <1>4 DEF TrackType

\* ReleaseKeeps: _release_selected_track, when nothing is baked.
LEMMA ReleaseKeeps ==
  ASSUME NEW c, NEW s, NEW ls, NEW d \in Nat, Coherent(c, s, ls, d),
         c.bake = NoBake
  PROVE  /\ Keeps(ReleaseTrack(c), c, s, ls, d)
         /\ ReleaseTrack(c).bake = NoBake /\ ReleaseTrack(c).track = NoTrack
         /\ ReleaseTrack(c).status = c.status
         /\ ReleaseTrack(c).client = c.client
         /\ c.track.restart /\ CanRequest(c) => Spare(ReleaseTrack(c), s, d)
<1> DEFINE a == ReleaseTrack(c)
<1> c \in SessionType /\ NoTrack \in TrackType
  BY Parts, Blanks
<1>1. /\ a \in SessionType /\ a.track = NoTrack /\ ~a.invalidated
      /\ a.inbox = c.inbox /\ a.operations = c.operations /\ a.bake = c.bake
      /\ a.observed = c.observed /\ a.status = c.status /\ a.client = c.client
      /\ a.baked = c.baked
  BY DEF ReleaseTrack, SessionType
<1> HIDE DEF a
<1>2. QED
  <2>1. Coherent(a, s, ls, d) /\ (c.track.restart /\ CanRequest(c) => Spare(a, s, d))
    BY <1>1, EmptiedCoherent
  <2>2. QED
    BY <1>1, <2>1 DEF Keeps, a

\* FailKeeps: _fail_selected_track.
LEMMA FailKeeps ==
  ASSUME NEW c, NEW s \in SceneType, NEW ls, NEW d \in Nat, Coherent(c, s, ls, d),
         c.track.id # None, NEW status \in Errors
  PROVE  Keeps(FailTrack(c, s, status), c, s, ls, d)
<1> DEFINE b == [ReleaseBake(c) EXCEPT !.track.stage = NoStage]
           failed == SetStatus(b, s, status)
<1>1. c \in SessionType /\ c.track \in TrackType /\ c.status \notin Starting
  BY Parts DEF Caused, Paced
<1>2. /\ b \in SessionType /\ b.track = [c.track EXCEPT !.stage = NoStage]
      /\ b.inbox = c.inbox /\ b.operations = c.operations /\ b.client = c.client
      /\ b.bake = NoBake /\ b.baked = c.baked /\ b.invalidated = c.invalidated
      /\ b.observed = c.observed /\ b.status = c.status
  BY <1>1, Blanks DEF ReleaseBake, SessionType, TrackType
<1> HIDE DEF b
<1>3. Coherent(b, s, ls, d)
  <2>1. /\ b.track.id = c.track.id /\ b.track.source = c.track.source
        /\ b.track.left = c.track.left /\ b.track.prepared = c.track.prepared
        /\ b.track.revision = c.track.revision
        /\ b.track.rendering = c.track.rendering
        /\ b.track.published = c.track.published
        /\ b.track.cache = c.track.cache /\ b.track.stage = NoStage
        /\ b.track.restart = c.track.restart
    BY <1>1, <1>2 DEF TrackType
  <2>2. QED
    BY <1>1, <1>2, <2>1, Altered
<1>4. status \in Statuses \ Starting
  BY DEF Errors, Statuses, Starting
<1>5. /\ Coherent(failed, s, ls, d) /\ failed.baked = c.baked
      /\ failed.bake = NoBake /\ failed.track.id # None
  <2>1. b.track.id = c.track.id
    BY <1>1, <1>2 DEF TrackType
  <2>2. QED
    <3>1. Keeps(failed, b, s, ls, d) /\ failed.bake = b.bake /\ failed.track = b.track
      BY <1>3, <1>4, StatusKeeps
    <3> HIDE DEF failed
    <3>2. QED
      BY <1>2, <2>1, <3>1 DEF Keeps
<1> HIDE DEF failed
<1>6. CASE CanCancel(c)
  <2> DEFINE e == CancelTrack(failed, FALSE)
             a == [e EXCEPT !.track.restart = FALSE]
  <2>1. FailTrack(c, s, status) = a
    BY <1>6 DEF FailTrack, failed, b
  <2>2. /\ Coherent(e, s, ls, d) /\ e.baked = c.baked
        /\ e.track.id # None
    BY <1>5, CancelKeeps DEF Keeps
  <2> HIDE DEF e
  <2>3. e \in SessionType /\ e.track \in TrackType /\ e.status \notin Starting
    BY <2>2, Parts DEF Caused, Paced
  <2>4. /\ a \in SessionType /\ a.track = [e.track EXCEPT !.restart = FALSE]
        /\ a.inbox = e.inbox /\ a.operations = e.operations
        /\ a.client = e.client /\ a.bake = e.bake /\ a.baked = e.baked
        /\ a.invalidated = e.invalidated /\ a.observed = e.observed
        /\ a.status = e.status
    BY <2>3 DEF SessionType, TrackType
  <2> HIDE DEF a
  <2>5. /\ a.track.id = e.track.id /\ a.track.source = e.track.source
        /\ a.track.left = e.track.left /\ a.track.prepared = e.track.prepared
        /\ a.track.revision = e.track.revision
        /\ a.track.rendering = e.track.rendering
        /\ a.track.published = e.track.published
        /\ a.track.cache = e.track.cache /\ a.track.stage = e.track.stage
        /\ ~a.track.restart
    BY <2>3, <2>4 DEF TrackType
  <2>6. Coherent(a, s, ls, d)
    BY <2>2, <2>3, <2>4, <2>5, Altered
  <2>7. QED
    BY <2>1, <2>2, <2>4, <2>6 DEF Keeps
<1>7. CASE ~CanCancel(c)
  <2>1. FailTrack(c, s, status) = ReleaseTrack(failed)
    BY <1>7 DEF FailTrack, failed, b
  <2>2. QED
    BY <1>5, <2>1, ReleaseKeeps DEF Keeps
<1>8. QED
  BY <1>6, <1>7

\* AudioFailedKeeps: selected_audio_failed.
LEMMA AudioFailedKeeps ==
  ASSUME NEW c, NEW s \in SceneType, NEW ls, NEW d \in Nat, Coherent(c, s, ls, d),
         NEW status \in Errors
  PROVE  Keeps(AudioFailed(c, s, status), c, s, ls, d)
<1>1. status \in Statuses \ Starting
  BY DEF Errors, Statuses, Starting
<1>2. QED
  BY <1>1, FailKeeps, StatusKeeps DEF AudioFailed

\* The session with a new track.
Started(c, s) ==
  [c EXCEPT !.operations = @ + 1,
            !.track = [NoTrack EXCEPT !.id = c.operations + 1,
                         !.source = s.source, !.left = Blocks]]

\* StartKeeps: the track is started, for which a disturbance accounts.
LEMMA StartKeeps ==
  ASSUME NEW c, NEW s \in SceneType, NEW ls \in Seq(LineType), NEW d \in Nat,
         serving \in ServingType, Coherent(c, s, ls, d),
         c.track.id = None, s.available, s.source # Invalid,
         c.observed = s.source, c.operations < d
  PROVE  Keeps(SetStatus(Submit(Started(c, s),
                               TrackRequest(Started(c, s), "track_start")),
                         s, "uploading"), c, s, ls, d)
<1> DEFINE n == c.operations + 1
           t == [NoTrack EXCEPT !.id = n, !.source = s.source, !.left = Blocks]
           started == [c EXCEPT !.operations = @ + 1, !.track = t]
           r == TrackRequest(started, "track_start")
           a == SetStatus(Submit(started, r), s, "uploading")
<1>1. /\ c \in SessionType /\ c.inbox \in Seq(RequestType) /\ c.operations \in Nat
      /\ ~c.bake.on /\ ~c.invalidated
      /\ Fits(c.track, c.inbox, c.operations, ls, serving)
  BY Parts DEF BakesTrack, Caused, Paced
<1>2. s.source \in Sources /\ Blocks \in Nat \ {0} /\ s.source \in AnySource
  BY DEF SceneType, AnySource
<1>3. /\ t \in TrackType /\ t.id = n /\ t.id # None /\ t.revision = 0
      /\ ~t.prepared /\ ~t.restart
  <2>1. NoTrack \in TrackType
    BY Blanks
  <2>2. n \in Nat /\ n # None
    BY <1>1 DEF None
  <2>3. t \in TrackType
    BY <1>2, <2>1, <2>2 DEF TrackType
  <2>4. t.id = n /\ t.revision = 0 /\ ~t.prepared /\ ~t.restart
    BY DEF NoTrack, None
  <2>5. QED
    BY <2>2, <2>3, <2>4
<1>4. r \in RequestType /\ r.operation = n /\ r.method = "track_start"
  <2>1. NoRequest \in RequestType /\ "track_start" \in Methods
    BY Blanks DEF Methods
  <2>2. started.track = t
    BY <1>1 DEF SessionType
  <2>3. n \in Nat
    BY <1>1
  <2> HIDE DEF started
  <2>4. QED
    BY <1>3, <2>1, <2>2, <2>3 DEF TrackRequest, RequestType
<1>5. Fits(t, Append(c.inbox, r), n, ls, serving)
  <2> HIDE DEF r
  <2>1. QED
    BY <1>1, <1>2, <1>4, FitsNew
<1> DEFINE q == Append(c.inbox, r)
<1>6. /\ a \in SessionType /\ a.track = t /\ a.operations = n /\ a.inbox = q
      /\ a.bake = c.bake /\ a.baked = c.baked /\ a.invalidated = c.invalidated
      /\ a.observed = c.observed /\ a.status = "uploading" /\ a.client = c.client
  <2>1. q \in Seq(RequestType) /\ n \in Nat
    BY <1>1, <1>4, Appended
  <2> HIDE DEF t, r
  <2>2. started.inbox = c.inbox
    BY <1>1 DEF SessionType
  <2>3. a = [c EXCEPT !.operations = n, !.track = t, !.inbox = q, !.status = "uploading"]
    BY <1>1, <2>2 DEF Submit, SetStatus, SessionType
  <2> HIDE DEF a, q, n
  <2>4. QED
    BY <1>1, <1>3, <2>1, <2>3 DEF SessionType, Statuses
<1> HIDE DEF t, q
<1>7. BakesTrack(a)
  BY <1>1, <1>6 DEF BakesTrack
<1>8. Caused(a, s, d)
  <2>1. a.status \notin Starting /\ Flag(a.invalidated) = 0 /\ Flag(~a.track.prepared) = 1
    BY <1>1, <1>3, <1>6 DEF Starting, Flag
  <2>2. /\ Flag(a.track.restart) = 0
        /\ Flag(a.observed # s.source \/ a.status \in Starting) = 0
    BY <1>3, <1>6, <2>1 DEF Flag
  <2>3. a.operations = n /\ n <= d /\ 1 <= d /\ a.track.revision = 0
    BY <1>1, <1>3, <1>6
  <2>4. QED
    BY <1>1, <1>3, <1>6, <2>1, <2>2, <2>3 DEF Caused, Paced, Accounted
<1>9. Keeps(a, c, s, ls, d)
  <2> HIDE DEF a
  <2>1. Fits(a.track, a.inbox, a.operations, ls, serving)
    BY <1>5, <1>6 DEF q
  <2>2. QED
    BY <1>6, <1>7, <1>8, <2>1 DEF Keeps, Coherent
<1>10. QED
  BY <1>9 DEF t, Started

\* Owed: what starts a track is accounted for by the audio, the handshake or a
\* disturbance that is left.
Owed(c, s, d) ==
  CanRequest(c) => c.observed # s.source \/ c.status \in Starting \/ Spare(c, s, d)

\* OwedOperations: an operation is left to start.
LEMMA OwedOperations ==
  ASSUME NEW c, NEW s, NEW ls, NEW d \in Nat, Coherent(c, s, ls, d),
         Owed(c, s, d), CanRequest(c)
  PROVE  c.operations < d
<1>1. c \in SessionType /\ Accounted(c, s, d) /\ c.operations \in Nat
  BY Parts DEF Caused
<1>2. Flag(c.track.restart) \in {0, 1}
  BY DEF Flag
<1>3. CASE c.observed # s.source \/ c.status \in Starting
  <2>1. Flag(c.observed # s.source \/ c.status \in Starting) = 1
    BY <1>3 DEF Flag
  <2>2. QED
    BY <1>1, <1>2, <2>1 DEF Accounted
<1>4. CASE ~(c.observed # s.source \/ c.status \in Starting)
  <2>1. Flag(c.observed # s.source \/ c.status \in Starting) = 0
    BY <1>4 DEF Flag
  <2>2. QED
    BY <1>1, <1>2, <1>4, <2>1 DEF Owed, Spare
<1>5. QED
  BY <1>3, <1>4

\* EnsureKeeps: _ensure_selected_track.
LEMMA EnsureKeeps ==
  ASSUME NEW c, NEW s \in SceneType, NEW ls \in Seq(LineType), NEW d \in Nat,
         serving \in ServingType, Coherent(c, s, ls, d),
         c.track.id = None => s.available /\ Owed(c, s, d)
  PROVE  Keeps(EnsureTrack(c, s), c, s, ls, d)
<1>1. c \in SessionType
  BY Parts
<1>2. /\ "error channel" \in Statuses \ Starting
      /\ "error" \in Statuses \ Starting
  BY DEF Statuses, Errors, Starting
<1>3. CASE s.mode # "SELECTED" \/ c.client # "running" \/ c.phase # "loaded"
  BY <1>3 DEF EnsureTrack, Keeps
<1>4. CASE ~(s.mode # "SELECTED" \/ c.client # "running" \/ c.phase # "loaded")
           /\ s.source = Invalid
  <2>1. EnsureTrack(c, s) = SetStatus(Observe(c, s.source), s, "error channel")
    BY <1>4 DEF EnsureTrack
  <2>2. Keeps(Observe(c, s.source), c, s, ls, d)
    BY <1>1, MilderMethods, MilderKeeps, <1>2
  <2>3. Coherent(Observe(c, s.source), s, ls, d)
    BY <2>2 DEF Keeps
  <2>4. Keeps(SetStatus(Observe(c, s.source), s, "error channel"),
              Observe(c, s.source), s, ls, d)
    BY <1>2, <2>3, StatusKeeps
  <2>5. QED
    BY <2>1, <2>2, <2>4 DEF Keeps
<1>5. CASE ~(s.mode # "SELECTED" \/ c.client # "running" \/ c.phase # "loaded")
           /\ s.source # Invalid
  <2> DEFINE seen == Observe(Snapshot(c, s), s.source)
  <2>1. Milder(Snapshot(c, s), c, s)
    BY <1>1, <1>2, MilderMethods
  <2>2. Snapshot(c, s) \in SessionType
    BY <2>1 DEF Milder
  <2>3. Milder(seen, Snapshot(c, s), s) /\ seen.observed = s.source
    BY <1>2, <2>2, MilderMethods
  <2>4. Milder(seen, c, s)
    BY <2>1, <2>3, MilderTwice
  <2> HIDE DEF seen
  <2>5. /\ Keeps(seen, c, s, ls, d) /\ seen.track = c.track
        /\ seen.client = c.client /\ seen.operations = c.operations
    BY <2>4, MilderKeeps DEF Milder
  <2>6. CASE seen.track.id # None
    BY <1>5, <2>5, <2>6 DEF EnsureTrack, seen
  <2>7. CASE seen.track.id = None /\ ~CanRequest(c)
    <3>1. EnsureTrack(c, s) = SetStatus(seen, s, "error")
      BY <1>5, <2>7 DEF EnsureTrack, seen
    <3>2. Coherent(seen, s, ls, d)
      BY <2>5 DEF Keeps
    <3>3. Keeps(SetStatus(seen, s, "error"), seen, s, ls, d)
      BY <1>2, <3>2, StatusKeeps
    <3>4. QED
      BY <2>5, <3>1, <3>3 DEF Keeps
  <2>8. CASE seen.track.id = None /\ CanRequest(c)
    <3>1. s.available /\ c.operations < d
      BY <2>5, <2>8, OwedOperations
    <3>2. EnsureTrack(c, s) =
            SetStatus(Submit(Started(seen, s),
                             TrackRequest(Started(seen, s), "track_start")),
                      s, "uploading")
      BY <1>5, <2>8 DEF EnsureTrack, seen, Started
    <3>3. Keeps(EnsureTrack(c, s), seen, s, ls, d)
      <4>1. /\ Coherent(seen, s, ls, d) /\ seen.operations < d
            /\ seen.observed = s.source /\ s.source # Invalid
            /\ seen.track.id = None
        BY <1>5, <2>3, <2>5, <2>8, <3>1 DEF Keeps
      <4>2. QED
        BY <3>1, <3>2, <4>1, StartKeeps
    <3>4. QED
      BY <2>5, <3>3 DEF Keeps
  <2>9. QED
    BY <2>6, <2>7, <2>8
<1>6. QED
  BY <1>3, <1>4, <1>5

\* RejectKeeps: _reject_worker_contract.
LEMMA RejectKeeps ==
  ASSUME NEW c, NEW s \in SceneType, NEW ls, NEW d \in Nat, Coherent(c, s, ls, d)
  PROVE  Keeps(Reject(c, s), c, s, ls, d)
<1> DEFINE b == [ReleaseBake(ReleaseTrack(ForgetModel(c))) EXCEPT
                   !.rejected = TRUE, !.expected = TRUE, !.phase = "none"]
           a == SetStatus(b, s, "error")
<1>1. c \in SessionType /\ NoTrack \in TrackType /\ NoBake \in BakeType
  BY Parts, Blanks
<1>2. /\ a \in SessionType /\ a.track = NoTrack /\ a.bake = NoBake
      /\ a.inbox = c.inbox /\ a.operations = c.operations
      /\ a.client = c.client /\ ~a.invalidated /\ a.baked = c.baked
  <2>1. /\ b \in SessionType /\ b.track = NoTrack /\ b.bake = NoBake
        /\ b.inbox = c.inbox /\ b.operations = c.operations
        /\ b.client = c.client /\ ~b.invalidated /\ b.baked = c.baked
    BY <1>1, ZenonT(40) DEF ReleaseBake, ReleaseTrack, ForgetModel, SessionType
  <2> HIDE DEF b
  <2>2. "error" \in Statuses
    BY DEF Statuses, Errors
  <2>3. QED
    BY <2>1, <2>2 DEF SetStatus, SessionType
<1> HIDE DEF a
<1>3. CASE c.rejected
  BY <1>3 DEF Reject, Keeps
<1>4. CASE ~c.rejected
  <2>1. Reject(c, s) = BeginShutdown(a)
    BY <1>4 DEF Reject, a
  <2>2. /\ Fits(a.track, a.inbox, a.operations, ls, serving) /\ BakesTrack(a)
        /\ Paced(a, d)
    BY <1>2, EmptiedCoherent
  <2>3. Coherent(BeginShutdown(a), s, ls, d) /\ BeginShutdown(a).baked = a.baked
    BY <1>2, <2>2, ShutdownCoherent
  <2>4. QED
    BY <1>2, <2>1, <2>3 DEF Keeps
<1>5. QED
  BY <1>3, <1>4

\* SeenIsSpared: the audio that is observed accounts for a restart.
LEMMA SeenIsSpared ==
  ASSUME NEW c, NEW a, NEW s, NEW ls, NEW d \in Nat, Coherent(c, s, ls, d),
         Milder(a, c, s), Owed(c, s, d), c.track.id # None,
         a.observed = s.source
  PROVE  Spare(a, s, d)
<1>1. /\ c \in SessionType /\ Accounted(c, s, d) /\ c.operations \in Nat
      /\ c.status \notin Starting
  BY Parts DEF Caused, Paced
<1>2. /\ a.status \notin Starting /\ a.operations = c.operations
      /\ a.track = c.track /\ (CanRequest(a) <=> CanRequest(c))
  BY <1>1 DEF Milder, CanRequest
<1>3. Flag(c.track.restart) \in {0, 1}
  BY DEF Flag
<1>4. Flag(a.observed # s.source \/ a.status \in Starting) = 0
  BY <1>2 DEF Flag
<1>5. CASE c.observed # s.source
  <2>1. Flag(c.observed # s.source \/ c.status \in Starting) = 1
    BY <1>5 DEF Flag
  <2>2. QED
    BY <1>1, <1>2, <1>3, <1>4, <2>1 DEF Accounted, Spare
<1>6. CASE c.observed = s.source
  <2>1. Flag(c.observed # s.source \/ c.status \in Starting) = 0
    BY <1>1, <1>6 DEF Flag
  <2>2. QED
    BY <1>1, <1>2, <1>3, <1>4, <1>6, <2>1 DEF Owed, Spare
<1>7. QED
  BY <1>5, <1>6

\* BakeReleased: nothing is baked.
LEMMA BakeReleased ==
  ASSUME NEW c, NEW s \in SceneType, NEW ls, NEW d \in Nat, Coherent(c, s, ls, d)
  PROVE  /\ Keeps(ReleaseBake(c), c, s, ls, d)
         /\ Milder(ReleaseBake(c), c, s)
         /\ ReleaseBake(c).bake = NoBake /\ ReleaseBake(c).track = c.track
         /\ ReleaseBake(c).client = c.client
         /\ ReleaseBake(c).status = c.status
         /\ ReleaseBake(c).observed = c.observed
         /\ ReleaseBake(c).invalidated = c.invalidated
         /\ ReleaseBake(c).operations = c.operations
<1>1. c \in SessionType /\ "ready" \in Statuses \ Starting
  BY Parts DEF Statuses, Starting
<1>2. Milder(ReleaseBake(c), c, s)
  BY <1>1, MilderMethods
<1>3. Keeps(ReleaseBake(c), c, s, ls, d)
  BY <1>2, MilderKeeps
<1>4. QED
  BY <1>1, <1>2, <1>3 DEF ReleaseBake, SessionType

\* AudioChangedKeeps: selected_audio_changed.
LEMMA AudioChangedKeeps ==
  ASSUME NEW c, NEW s \in SceneType, NEW ls \in Seq(LineType), NEW d \in Nat,
         serving \in ServingType, Coherent(c, s, ls, d), s.available,
         s.source # Invalid => Owed(c, s, d)
  PROVE  Keeps(AudioChanged(c, s), c, s, ls, d)
<1>1. c \in SessionType
  BY Parts
<1>2. /\ "ready" \in Statuses \ Starting
      /\ "error channel" \in Errors /\ "error" \in Errors
  BY DEF Statuses, Errors, Starting
<1>3. CASE s.source = Invalid
  <2>1. Keeps(Observe(c, s.source), c, s, ls, d)
    BY <1>1, <1>2, MilderMethods, MilderKeeps
  <2>2. Coherent(Observe(c, s.source), s, ls, d)
    BY <2>1 DEF Keeps
  <2>3. Keeps(AudioFailed(Observe(c, s.source), s, "error channel"),
              Observe(c, s.source), s, ls, d)
    BY <1>2, <2>2, AudioFailedKeeps
  <2>4. QED
    BY <1>3, <2>1, <2>3 DEF AudioChanged, Keeps
<1>4. CASE s.source # Invalid /\ c.track.id = None
  <2>1. Keeps(EnsureTrack(c, s), c, s, ls, d)
    BY <1>4, EnsureKeeps
  <2>2. QED
    BY <1>4, <2>1 DEF AudioChanged
<1>5. CASE s.source # Invalid /\ c.track.id # None
  <2> DEFINE b == ReleaseBake(c)
             seen == Observe(Snapshot(b, s), s.source)
  <2>1. Milder(b, c, s)
    BY <1>1, <1>2, MilderMethods
  <2>2. Milder(Snapshot(b, s), b, s)
    BY <1>2, <2>1, MilderMethods DEF Milder
  <2>3. Milder(seen, Snapshot(b, s), s) /\ seen.observed = s.source
    BY <1>2, <2>2, MilderMethods, ZenonT(40) DEF Milder
  <2>4. Milder(seen, c, s)
    BY <2>1, <2>2, <2>3, MilderTwice
  <2> HIDE DEF b, seen
  <2>5. /\ Keeps(seen, c, s, ls, d) /\ seen.track = c.track
        /\ Coherent(seen, s, ls, d) /\ Spare(seen, s, d)
    BY <1>5, <2>3, <2>4, MilderKeeps, SeenIsSpared DEF Milder, Keeps
  <2>6. CASE CanCancel(seen)
    <3>1. AudioChanged(c, s) = SetStatus(CancelTrack(seen, TRUE), s, "ready")
      BY <1>5, <2>6 DEF AudioChanged, seen, b
    <3>2. Keeps(CancelTrack(seen, TRUE), seen, s, ls, d)
      BY <1>5, <2>5, CancelKeeps
    <3>3. Coherent(CancelTrack(seen, TRUE), s, ls, d)
      BY <3>2 DEF Keeps
    <3>4. Keeps(SetStatus(CancelTrack(seen, TRUE), s, "ready"),
                CancelTrack(seen, TRUE), s, ls, d)
      BY <1>2, <3>3, StatusKeeps
    <3>5. QED
      BY <2>5, <3>1, <3>2, <3>4 DEF Keeps
  <2>7. CASE ~CanCancel(seen)
    <3>1. AudioChanged(c, s) = AudioFailed(seen, s, "error")
      BY <1>5, <2>7 DEF AudioChanged, seen, b
    <3>2. Keeps(AudioFailed(seen, s, "error"), seen, s, ls, d)
      BY <1>2, <2>5, AudioFailedKeeps
    <3>3. QED
      BY <2>5, <3>1, <3>2 DEF Keeps
  <2>8. QED
    BY <2>6, <2>7
<1>6. QED
  BY <1>3, <1>4, <1>5

\* RefreshChannelKeeps: refresh_selected_channel.
LEMMA RefreshChannelKeeps ==
  ASSUME NEW c, NEW s \in SceneType, NEW ls \in Seq(LineType), NEW d \in Nat,
         serving \in ServingType, Coherent(c, s, ls, d)
  PROVE  Keeps(RefreshChannel(c, s), c, s, ls, d)
<1>1. c \in SessionType /\ "ready" \in Statuses \ Starting /\ Keeps(c, c, s, ls, d)
  BY Parts DEF Statuses, Starting, Keeps
<1> DEFINE b == Snapshot(c, s)
<1>2. /\ Keeps(b, c, s, ls, d) /\ Coherent(b, s, ls, d)
      /\ b.observed = c.observed
  BY <1>1, MilderMethods, MilderKeeps DEF Keeps
<1> HIDE DEF b
<1> DEFINE idle == \/ ~s.available \/ s.mode # "SELECTED" \/ c.expected
                   \/ c.client # "running" \/ c.phase # "loaded"
           same == s.source # Invalid /\ SameAsObserved(c, s)
<1>3. CASE idle
  BY <1>1, <1>3 DEF RefreshChannel
<1>4. CASE ~idle /\ same
  BY <1>2, <1>4 DEF RefreshChannel, b
<1>5. CASE ~idle /\ s.source = Invalid
  <2>1. Keeps(AudioChanged(c, s), c, s, ls, d)
    BY <1>5, AudioChangedKeeps
  <2>2. QED
    BY <1>5, <2>1 DEF RefreshChannel
<1>6. CASE ~idle /\ s.source # Invalid /\ ~same
  <2>1. Owed(b, s, d)
    BY <1>2, <1>6 DEF Owed, SameAsObserved
  <2>2. Keeps(AudioChanged(b, s), b, s, ls, d)
    BY <1>2, <1>6, <2>1, AudioChangedKeeps
  <2>3. RefreshChannel(c, s) = AudioChanged(b, s)
    BY <1>6 DEF RefreshChannel, b
  <2>4. QED
    BY <1>2, <2>2, <2>3 DEF Keeps
<1>7. QED
  BY <1>3, <1>4, <1>5, <1>6

\* ModeChangedKeeps: input_mode_changed.
LEMMA ModeChangedKeeps ==
  ASSUME NEW c, NEW s \in SceneType, NEW ls \in Seq(LineType), NEW d \in Nat,
         serving \in ServingType, Coherent(c, s, ls, d), s.available,
         Spare(c, s, d)
  PROVE  Keeps(ModeChanged(c, s), c, s, ls, d)
<1>1. "ready" \in Statuses \ Starting /\ "error" \in Statuses \ Starting
  BY DEF Statuses, Errors, Starting
<1>2. CASE c.track.id = None
  <2>1. Keeps(EnsureTrack(c, s), c, s, ls, d) /\ Keeps(c, c, s, ls, d)
    BY EnsureKeeps DEF Owed, Keeps
  <2>2. QED
    BY <1>2, <2>1 DEF ModeChanged
<1> DEFINE b == ReleaseBake(c)
<1>3. /\ Keeps(b, c, s, ls, d) /\ Coherent(b, s, ls, d)
      /\ b.track = c.track /\ Spare(b, s, d)
  BY BakeReleased DEF Keeps, Spare, CanRequest
<1> HIDE DEF b
<1>4. CASE c.track.id # None /\ ~CanCancel(c)
  <2>1. Keeps(SetStatus(b, s, "error"), b, s, ls, d)
    BY <1>1, <1>3, StatusKeeps
  <2>2. QED
    BY <1>3, <1>4, <2>1 DEF ModeChanged, Keeps, b
<1>5. CASE c.track.id # None /\ CanCancel(c)
  <2> DEFINE m == s.mode = "SELECTED"
             e == CancelTrack(b, m)
             a == SetStatus(e, s, "ready")
  <2>1. ModeChanged(c, s) = EnsureTrack(a, s)
    BY <1>5 DEF ModeChanged, b
  <2>2. /\ Keeps(e, b, s, ls, d) /\ Coherent(e, s, ls, d)
        /\ e.track.id = c.track.id
    <3>1. m \in BOOLEAN
      OBVIOUS
    <3> HIDE DEF m
    <3>2. b.track.id # None /\ Spare(b, s, d) /\ Coherent(b, s, ls, d)
      BY <1>3, <1>5
    <3>3. Keeps(CancelTrack(b, m), b, s, ls, d) /\ CancelTrack(b, m).track.id = b.track.id
      BY <3>1, <3>2, CancelKeeps
    <3>4. QED
      BY <1>3, <3>3 DEF Keeps
  <2> HIDE DEF e
  <2>3. /\ Keeps(a, e, s, ls, d) /\ Coherent(a, s, ls, d)
        /\ a.track.id = c.track.id
    BY <1>1, <2>2, StatusKeeps DEF Keeps
  <2> HIDE DEF a
  <2>4. Keeps(EnsureTrack(a, s), a, s, ls, d)
    BY <1>5, <2>3, EnsureKeeps
  <2>5. QED
    BY <1>3, <2>1, <2>2, <2>3, <2>4 DEF Keeps
<1>6. QED
  BY <1>2, <1>4, <1>5

\* CancelCompletedKeeps: _complete_selected_track_cancel.
LEMMA CancelCompletedKeeps ==
  ASSUME NEW c, NEW s \in SceneType, NEW ls \in Seq(LineType), NEW d \in Nat,
         serving \in ServingType, Coherent(c, s, ls, d)
  PROVE  Keeps(CancelCompleted(c, s), c, s, ls, d)
<1> DEFINE b == ReleaseBake(c)
           released == ReleaseTrack(b)
           restarts == c.track.restart /\ c.status = "ready"
           next == IF restarts THEN EnsureTrack(released, s) ELSE released
<1>1. "ready" \in Statuses \ Starting
  BY DEF Statuses, Starting
<1>2. /\ Keeps(b, c, s, ls, d) /\ Coherent(b, s, ls, d) /\ b.bake = NoBake
      /\ b.track = c.track /\ b.client = c.client
  BY BakeReleased DEF Keeps
<1> HIDE DEF b
<1>3. /\ Keeps(released, b, s, ls, d) /\ Coherent(released, s, ls, d)
      /\ released.client = c.client
      /\ c.track.restart /\ CanRequest(b) => Spare(released, s, d)
  BY <1>2, ReleaseKeeps DEF Keeps
<1> HIDE DEF released
<1>4. s.available => Keeps(next, released, s, ls, d)
  <2>1. restarts => Owed(released, s, d)
    BY <1>2, <1>3 DEF Owed, CanRequest
  <2>2. s.available /\ restarts => Keeps(EnsureTrack(released, s), released, s, ls, d)
    BY <1>3, <2>1, EnsureKeeps
  <2>3. Keeps(released, released, s, ls, d)
    BY <1>3 DEF Keeps
  <2>4. QED
    BY <2>2, <2>3
<1> HIDE DEF next
<1>5. s.available => Keeps(SetStatus(next, s, "ready"), next, s, ls, d)
  BY <1>1, <1>4, StatusKeeps DEF Keeps
<1>6. CancelCompleted(c, s) \in
        {released} \cup (IF s.available THEN {next, SetStatus(next, s, "ready")} ELSE {})
  BY DEF CancelCompleted, next, released, b
<1>7. QED
  BY <1>2, <1>3, <1>4, <1>5, <1>6 DEF Keeps

\* OrphanKeeps: _cancel_orphaned_operation.
LEMMA OrphanKeeps ==
  ASSUME NEW c, NEW s \in SceneType, NEW ls, NEW d \in Nat, Coherent(c, s, ls, d)
  PROVE  Keeps(CancelOrphan(c, s), c, s, ls, d)
<1> DEFINE b == ReleaseBake(c)
<1>1. /\ Keeps(b, c, s, ls, d) /\ Coherent(b, s, ls, d) /\ b.bake = NoBake
      /\ b.track = c.track
  BY BakeReleased DEF Keeps
<1> HIDE DEF b
<1>2. c.track.id # None => Keeps(CancelTrack(b, FALSE), b, s, ls, d)
  BY <1>1, CancelKeeps
<1>3. /\ Keeps(ReleaseTrack(b), b, s, ls, d)
      /\ Coherent(ReleaseTrack(b), s, ls, d)
  BY <1>1, ReleaseKeeps DEF Keeps
<1>4. Keeps(Reject(ReleaseTrack(b), s), ReleaseTrack(b), s, ls, d)
  BY <1>3, RejectKeeps
<1>5. CancelOrphan(c, s) \in
        {c, b, Reject(ReleaseTrack(b), s)}
          \cup (IF c.track.id # None THEN {CancelTrack(b, FALSE)} ELSE {})
  BY DEF CancelOrphan, b
<1>6. QED
  BY <1>1, <1>2, <1>3, <1>4, <1>5 DEF Keeps
-----------------------------------------------------------------------------
(* Renders. *)

\* EvaluatedIsTimeline: _evaluate_settings_timeline gives settings of every
\* frame.
LEMMA EvaluatedIsTimeline ==
  ASSUME NEW s \in SceneType
  PROVE  Evaluated(s) \in Timelines
BY DEF SceneType, Evaluated, Timelines

\* FitsRender: what is on its way is older than a new render.
LEMMA FitsRender ==
  ASSUME NEW t \in TrackType, NEW q \in Seq(RequestType), NEW n \in Nat,
         NEW ls \in Seq(LineType), serving \in ServingType,
         Fits(t, q, n, ls, serving), t.id # None, t.prepared,
         NEW timeline \in Timelines, NEW r \in RequestType,
         r.method = "track_render", r.operation = t.id,
         r.revision = t.revision + 1, r.timeline = timeline,
         NEW u \in TrackType,
         u = [t EXCEPT !.revision = t.revision + 1, !.rendering = timeline,
                !.stage = [NoStage EXCEPT !.revision = t.revision + 1]]
  PROVE  Fits(u, Append(q, r), n, ls, serving)
<1>1. /\ u.id = t.id /\ u.source = t.source /\ u.left = t.left
      /\ u.prepared = t.prepared /\ u.published = t.published
      /\ u.cache = t.cache /\ u.revision = t.revision + 1
      /\ u.rendering = timeline
      /\ u.stage = [NoStage EXCEPT !.revision = t.revision + 1]
      /\ t.revision \in Nat
  BY DEF TrackType
<1>2. u.stage.count = 0 /\ u.stage.rows = {} /\ u.stage.revision = u.revision
  BY <1>1 DEF NoStage
<1>3. Whole(u)
  <2>1. Whole(t) /\ \A l : RowsOf(u, l) = RowsOf(t, l)
    BY <1>1 DEF Fits, RowsOf
  <2>2. u.revision # None
    BY <1>1 DEF None
  <2>3. QED
    BY <1>1, <1>2, <2>1, <2>2, SMTT(30) DEF Whole
<1>4. \A x : (Mine(u, x) <=> Mine(t, x)) /\ (Upload(u, x) <=> Upload(t, x))
  BY <1>1 DEF Mine, Upload
<1>5. Fed(u, serving) <=> Fed(t, serving)
  BY <1>1 DEF Fed
<1>6. \A x \in RequestType : Agrees(t, n, x, serving) => Agrees(u, n, x, serving)
  <2>1. \A x \in RequestType : x.revision \in Nat
    BY DEF RequestType
  <2>2. QED
    BY <1>1, <1>4, <1>5, <2>1 DEF Agrees
<1>7. \A x \in LineType : Tells(t, n, x, serving) => Tells(u, n, x, serving)
  <2>1. \A x \in LineType : x.revision \in Nat
    BY DEF LineType
  <2>2. QED
    BY <1>1, <1>4, <1>5, <2>1 DEF Tells
<1>8. OneUpload(u, q, ls, serving)
  BY <1>4 DEF Fits, OneUpload
<1>9. /\ serving.queue \in Seq(RequestType) /\ serving.job \in RequestType
      /\ \A i \in DOMAIN q : q[i] \in RequestType
      /\ \A i \in DOMAIN ls : ls[i] \in LineType
  BY DEF ServingType
<1>10. \A i \in DOMAIN serving.queue : serving.queue[i] \in RequestType
  BY <1>9
<1>11. Fits(u, q, n, ls, serving)
  BY <1>1, <1>3, <1>5, <1>6, <1>7, <1>8, <1>9, <1>10 DEF Fits
<1>12. Agrees(u, n, r, serving) /\ ~Upload(u, r)
  BY <1>1 DEF Agrees, Upload, Uploads, Fits
<1>13. QED
  BY <1>11, <1>12, FitsAsked

\* FailedKeeps: whether the render failed, which the status shows.
LEMMA FailedKeeps ==
  ASSUME NEW c, NEW s \in SceneType, NEW ls, NEW d \in Nat, Coherent(c, s, ls, d),
         c.track.id # None, NEW failed \in BOOLEAN, NEW stage \in {c.track.stage, NoStage}
  PROVE  /\ Keeps([c EXCEPT !.track.failed = failed, !.track.stage = stage], c, s, ls, d)
         /\ [c EXCEPT !.track.failed = failed, !.track.stage = stage].bake = c.bake
         /\ [c EXCEPT !.track.failed = failed, !.track.stage = stage].track.id = c.track.id
         /\ [c EXCEPT !.track.failed = failed, !.track.stage = stage].status = c.status
<1> DEFINE a == [c EXCEPT !.track.failed = failed, !.track.stage = stage]
<1>1. c \in SessionType /\ c.track \in TrackType /\ c.status \notin Starting
  BY Parts DEF Caused, Paced
<1>2. stage \in StageType
  BY <1>1, Blanks DEF TrackType
<1>3. /\ a \in SessionType
      /\ a.track = [c.track EXCEPT !.failed = failed, !.stage = stage]
      /\ a.inbox = c.inbox /\ a.operations = c.operations
      /\ a.client = c.client /\ a.bake = c.bake /\ a.baked = c.baked
      /\ a.invalidated = c.invalidated /\ a.observed = c.observed
      /\ a.status = c.status
  BY <1>1, <1>2 DEF SessionType, TrackType
<1> HIDE DEF a
<1>4. /\ a.track.id = c.track.id /\ a.track.source = c.track.source
      /\ a.track.left = c.track.left /\ a.track.prepared = c.track.prepared
      /\ a.track.revision = c.track.revision
      /\ a.track.rendering = c.track.rendering
      /\ a.track.published = c.track.published
      /\ a.track.cache = c.track.cache /\ a.track.stage = stage
      /\ a.track.restart = c.track.restart
  BY <1>1, <1>3 DEF TrackType
<1>5. Coherent(a, s, ls, d)
  BY <1>1, <1>3, <1>4, Altered
<1>6. QED
  BY <1>3, <1>4, <1>5 DEF Keeps, a

\* NewRenderKeeps: a new revision is asked for, for which a disturbance accounts.
LEMMA NewRenderKeeps ==
  ASSUME NEW c, NEW s \in SceneType, NEW ls \in Seq(LineType), NEW d \in Nat,
         serving \in ServingType, Coherent(c, s, ls, d), Prepared(c),
         Affords(c, d), NEW timeline \in Timelines
  PROVE  LET revision == c.track.revision + 1
             a == Submit([c EXCEPT
                    !.track.revision = revision,
                    !.track.rendering = timeline,
                    !.track.stage = [NoStage EXCEPT !.revision = revision]],
                  [TrackRequest(c, "track_render") EXCEPT
                     !.revision = revision, !.timeline = timeline,
                     !.preview = s.frame])
         IN  Keeps(a, c, s, ls, d) /\ a.bake = c.bake
<1> DEFINE n == c.track.revision + 1
           stage == [NoStage EXCEPT !.revision = n]
           u == [c.track EXCEPT !.revision = n, !.rendering = timeline, !.stage = stage]
           r == [TrackRequest(c, "track_render") EXCEPT
                   !.revision = n, !.timeline = timeline, !.preview = s.frame]
           b == [c EXCEPT !.track.revision = n, !.track.rendering = timeline,
                          !.track.stage = stage]
           a == Submit(b, r)
<1>1. /\ c \in SessionType /\ c.track \in TrackType /\ c.inbox \in Seq(RequestType)
      /\ c.operations \in Nat /\ BakesTrack(c) /\ Caused(c, s, d)
      /\ Fits(c.track, c.inbox, c.operations, ls, serving)
      /\ c.track.id # None /\ c.track.prepared
  BY Parts DEF Prepared
<1>2. n \in Nat /\ stage \in StageType /\ c.track.revision \in Nat
  <2>1. c.track.revision \in Nat
    BY <1>1 DEF TrackType
  <2>2. n \in Nat
    BY <2>1
  <2>3. NoStage \in StageType
    BY Blanks
  <2> HIDE DEF n
  <2>4. QED
    BY <2>1, <2>2, <2>3 DEF StageType
<1> HIDE DEF stage
<1>3. u \in TrackType /\ u.id = c.track.id /\ u.source = c.track.source
      /\ u.prepared = c.track.prepared /\ u.restart = c.track.restart
      /\ u.revision = n
  BY <1>1, <1>2 DEF TrackType, AnyTimeline
<1>4. /\ r \in RequestType /\ r.method = "track_render"
      /\ r.operation = c.track.id /\ r.revision = n /\ r.timeline = timeline
  <2>1. NoRequest \in RequestType /\ "track_render" \in Methods
    BY Blanks DEF Methods
  <2>2. c.track.id \in Nat /\ s.frame \in AnyFrame /\ timeline \in AnyTimeline
    BY <1>1 DEF TrackType, SceneType, AnyTimeline
  <2> HIDE DEF n
  <2>3. QED
    BY <1>2, <2>1, <2>2 DEF TrackRequest, RequestType
<1> HIDE DEF r
<1> DEFINE q == Append(c.inbox, r)
<1>5. Fits(u, q, c.operations, ls, serving)
  BY <1>1, <1>3, <1>4, FitsRender DEF stage
<1>6. q \in Seq(RequestType)
  BY <1>1, <1>4, Appended
<1>7. /\ a \in SessionType /\ a.track = u /\ a.inbox = q /\ a.bake = c.bake
      /\ a.operations = c.operations /\ a.baked = c.baked
      /\ a.invalidated = c.invalidated /\ a.observed = c.observed
      /\ a.status = c.status /\ a.client = c.client
  <2> HIDE DEF n
  <2>1. b = [c EXCEPT !.track = u] /\ b.inbox = c.inbox
    BY <1>1 DEF SessionType, TrackType
  <2> HIDE DEF b, u
  <2>2. a = [c EXCEPT !.track = u, !.inbox = q]
    BY <1>1, <2>1 DEF Submit, SessionType
  <2> HIDE DEF a, q
  <2>3. QED
    BY <1>1, <1>3, <1>6, <2>2 DEF SessionType
<1> HIDE DEF u, q
<1>8. BakesTrack(a)
  BY <1>1, <1>3, <1>7 DEF BakesTrack
<1>9. Caused(a, s, d)
  <2>1. CanRequest(a) <=> CanRequest(c)
    BY <1>7 DEF CanRequest
  <2>2. /\ Flag(c.invalidated) \in {0, 1}
        /\ Flag(~c.track.prepared) \in {0, 1}
    BY DEF Flag
  <2>3. a.track.revision + Flag(a.invalidated) + Flag(~a.track.prepared) <= d
    <3>1. a.track.revision = c.track.revision + 1
      BY <1>3, <1>7
    <3>2. /\ Flag(a.invalidated) = Flag(c.invalidated)
          /\ Flag(~a.track.prepared) = Flag(~c.track.prepared)
      BY <1>3, <1>7
    <3>3. c.track.revision + Flag(c.invalidated) + Flag(~c.track.prepared) < d
      BY <1>1 DEF Affords
    <3>4. QED
      BY <1>2, <2>2, <3>1, <3>2, <3>3
  <2>4. QED
    BY <1>1, <1>3, <1>7, <2>1, <2>3 DEF Caused, Paced, Accounted
<1>10. Keeps(a, c, s, ls, d) /\ a.bake = c.bake
  <2> HIDE DEF a
  <2>1. Fits(a.track, a.inbox, a.operations, ls, serving)
    BY <1>5, <1>7
  <2>2. QED
    BY <1>7, <1>8, <1>9, <2>1 DEF Keeps, Coherent
<1>11. QED
  BY <1>10 DEF stage, r

\* RequestKeeps: _request_track_render, for the timeline that is published or
\* another.
LEMMA RequestKeeps ==
  ASSUME NEW c, NEW s \in SceneType, NEW ls \in Seq(LineType), NEW d \in Nat,
         serving \in ServingType, Coherent(c, s, ls, d), NEW timeline,
         Prepared(c) =>
           Published(c, timeline) \/ (timeline \in Timelines /\ Affords(c, d))
  PROVE  /\ Keeps(RequestRender(c, s, timeline), c, s, ls, d)
         /\ RequestRender(c, s, timeline).bake = c.bake
<1>1. CASE ~Prepared(c) \/ Rendering(c, timeline)
  BY <1>1 DEF RequestRender, Keeps
<1>2. CASE Prepared(c) /\ ~Rendering(c, timeline) /\ Published(c, timeline)
  <2> DEFINE b == [c EXCEPT !.track.failed = FALSE]
             e == [c EXCEPT !.track.failed = FALSE, !.track.stage = c.track.stage]
             status == IF c.track.failed /\ c.status = "error render"
                       THEN "ready" ELSE c.status
  <2>1. RequestRender(c, s, timeline) = SetStatus(b, s, status)
    BY <1>2 DEF RequestRender
  <2>2. c.track.id # None
    BY <1>2 DEF Prepared
  <2>3. b = e
    BY Parts DEF SessionType, TrackType
  <2>4. Keeps(e, c, s, ls, d) /\ e.bake = c.bake
    BY <2>2, FailedKeeps
  <2> HIDE DEF b, e
  <2>5. Coherent(b, s, ls, d)
    BY <2>3, <2>4 DEF Keeps
  <2>6. status \in Statuses \ Starting
    <3>1. c.status \in Statuses \ Starting
      BY <2>2, Parts DEF SessionType, Caused, Paced
    <3>2. "ready" \in Statuses \ Starting
      BY DEF Statuses, Starting
    <3>3. QED
      BY <3>1, <3>2
  <2> HIDE DEF status
  <2>7. Keeps(SetStatus(b, s, status), b, s, ls, d) /\ SetStatus(b, s, status).bake = b.bake
    BY <2>5, <2>6, StatusKeeps
  <2>8. QED
    BY <2>1, <2>3, <2>4, <2>7 DEF Keeps
<1>3. CASE Prepared(c) /\ ~Rendering(c, timeline) /\ ~Published(c, timeline)
  <2> DEFINE revision == c.track.revision + 1
             a == Submit([c EXCEPT
                    !.track.revision = revision,
                    !.track.rendering = timeline,
                    !.track.stage = [NoStage EXCEPT !.revision = revision]],
                  [TrackRequest(c, "track_render") EXCEPT
                     !.revision = revision, !.timeline = timeline,
                     !.preview = s.frame])
  <2>1. RequestRender(c, s, timeline) = a
    BY <1>3 DEF RequestRender
  <2>2. timeline \in Timelines /\ Affords(c, d)
    BY <1>3
  <2>3. Keeps(a, c, s, ls, d) /\ a.bake = c.bake
    BY <1>3, <2>2, NewRenderKeeps
  <2>4. QED
    BY <2>1, <2>3
<1>4. QED
  BY <1>1, <1>2, <1>3

\* FrameKeeps: request_selected_frame.
LEMMA FrameKeeps ==
  ASSUME NEW c, NEW s \in SceneType, NEW ls, NEW d \in Nat, Coherent(c, s, ls, d)
  PROVE  Keeps(RequestFrame(c, s), c, s, ls, d)
<1>1. c \in SessionType /\ c.track.cache \in SUBSET Rows
  BY Parts DEF TrackType
<1>2. "ready" \in Statuses \ Starting /\ "error channel" \in Errors
  BY DEF Statuses, Errors, Starting
<1> DEFINE b == Snapshot(c, s)
           o == Observe(c, s.source)
<1>3. Milder(b, c, s) /\ Milder(o, c, s) /\ Milder(c, c, s)
  BY <1>1, <1>2, MilderMethods
<1> HIDE DEF b, o
<1>4. Milder(ApplyCache(b, s), b, s)
  <2>1. /\ b \in SessionType /\ b.track.cache \in SUBSET Rows
        /\ s.frame \in AnyFrame
    BY <1>1, <1>3 DEF Milder, SceneType
  <2>2. \A m \in [frame : AnyFrame, rows : SUBSET Rows] :
          Milder([b EXCEPT !.mesh = m], b, s)
    BY <2>1 DEF Milder, SessionType
  <2>3. /\ Neutral \in [frame : AnyFrame, rows : SUBSET Rows]
        /\ [frame |-> s.frame, rows |-> b.track.cache]
             \in [frame : AnyFrame, rows : SUBSET Rows]
    BY <2>1, Blanks
  <2>4. Milder(b, b, s)
    BY <2>1 DEF Milder
  <2>5. QED
    BY <2>2, <2>3, <2>4 DEF ApplyCache
<1>5. Keeps(b, c, s, ls, d) /\ Keeps(ApplyCache(b, s), c, s, ls, d)
  BY <1>3, <1>4, MilderTwice, MilderKeeps
<1>6. c.track.id # None => Keeps(FailTrack(o, s, "error channel"), c, s, ls, d)
  <2>1. Coherent(o, s, ls, d) /\ o.track = c.track /\ o.baked = c.baked
    BY <1>3, MilderKeeps DEF Milder, Keeps
  <2>2. c.track.id # None => Keeps(FailTrack(o, s, "error channel"), o, s, ls, d)
    BY <1>2, <2>1, FailKeeps
  <2>3. QED
    BY <2>1, <2>2 DEF Keeps
<1>7. \/ RequestFrame(c, s) \in {c, b, ApplyCache(b, s)}
      \/ c.track.id # None /\ RequestFrame(c, s) = FailTrack(o, s, "error channel")
  BY DEF RequestFrame, Prepared, b, o
<1>8. Keeps(c, c, s, ls, d)
  BY DEF Keeps
<1>9. QED
  BY <1>5, <1>6, <1>7, <1>8

\* RenderFailedKeeps: the except clause of a preview render.
LEMMA RenderFailedKeeps ==
  ASSUME NEW c, NEW s \in SceneType, NEW ls, NEW d \in Nat, Coherent(c, s, ls, d),
         c.track.id # None
  PROVE  /\ Keeps(RenderFailed(c, s), c, s, ls, d)
         /\ RenderFailed(c, s).bake = c.bake
<1> DEFINE b == [c EXCEPT !.track.failed = TRUE]
           e == [c EXCEPT !.track.failed = TRUE, !.track.stage = c.track.stage]
<1>1. b = e
  BY Parts DEF SessionType, TrackType
<1>2. Keeps(e, c, s, ls, d) /\ e.bake = c.bake
  BY FailedKeeps
<1> HIDE DEF b, e
<1>3. Coherent(b, s, ls, d) /\ "error render" \in Statuses \ Starting
  BY <1>1, <1>2 DEF Keeps, Statuses, Errors, Starting
<1>4. /\ Keeps(SetStatus(b, s, "error render"), b, s, ls, d)
      /\ SetStatus(b, s, "error render").bake = b.bake
  BY <1>3, StatusKeeps, ZenonT(40)
<1>5. QED
  BY <1>1, <1>2, <1>4 DEF RenderFailed, Keeps, b

\* TryKeeps: a preview render is asked for, for which a disturbance accounts.
LEMMA TryKeeps ==
  ASSUME NEW c, NEW s \in SceneType, NEW ls \in Seq(LineType), NEW d \in Nat,
         serving \in ServingType, Coherent(c, s, ls, d), Affords(c, d),
         NEW timeline \in Timelines
  PROVE  Keeps(TryRender(c, s, timeline), c, s, ls, d)
<1>1. RenderRaises(c, timeline) => c.track.id # None
  BY DEF RenderRaises, Prepared
<1>2. QED
  BY <1>1, RenderFailedKeeps, RequestKeeps DEF TryRender

\* InvalidatedKeeps: a scan of the settings is asked for, which a disturbance
\* accounts for, or one is done.
LEMMA InvalidatedKeeps ==
  ASSUME NEW c, NEW s, NEW ls, NEW d \in Nat, Coherent(c, s, ls, d),
         NEW i \in BOOLEAN, i => c.track.id # None /\ Affords(c, d)
  PROVE  /\ Keeps([c EXCEPT !.invalidated = i], c, s, ls, d)
         /\ ~i /\ (c.invalidated \/ Affords(c, d))
              => Affords([c EXCEPT !.invalidated = i], d)
         /\ [c EXCEPT !.invalidated = i].bake = c.bake
<1> DEFINE a == [c EXCEPT !.invalidated = i]
<1>1. /\ c \in SessionType /\ c.track \in TrackType /\ Caused(c, s, d)
      /\ BakesTrack(c) /\ Fits(c.track, c.inbox, c.operations, ls, serving)
  BY Parts
<1>2. /\ a \in SessionType /\ a.track = c.track /\ a.inbox = c.inbox
      /\ a.operations = c.operations /\ a.bake = c.bake /\ a.baked = c.baked
      /\ a.invalidated = i /\ a.observed = c.observed /\ a.status = c.status
      /\ a.client = c.client
  BY <1>1 DEF SessionType
<1> HIDE DEF a
<1>3. BakesTrack(a) /\ Fits(a.track, a.inbox, a.operations, ls, serving) /\ Accounted(a, s, d)
  BY <1>1, <1>2 DEF BakesTrack, Caused, Accounted, CanRequest
<1>4. /\ Flag(c.invalidated) \in {0, 1} /\ Flag(~c.track.prepared) \in {0, 1}
      /\ c.track.revision \in Nat /\ Flag(TRUE) = 1 /\ Flag(FALSE) = 0
      /\ c.invalidated => Flag(c.invalidated) = 1
  BY <1>1 DEF Flag, TrackType
<1>5. Paced(a, d)
  <2>1. CASE i
    <3>1. c.track.revision + Flag(c.invalidated) + Flag(~c.track.prepared) < d
      BY <2>1 DEF Affords
    <3>2. c.track.revision + 1 + Flag(~c.track.prepared) <= d
      BY <1>4, <3>1
    <3>3. Flag(a.invalidated) = 1
      BY <1>2, <2>1 DEF Flag
    <3>4. QED
      BY <1>1, <1>2, <2>1, <3>2, <3>3 DEF Caused, Paced
  <2>2. CASE ~i
    <3>1. Flag(a.invalidated) = 0
      BY <1>2, <2>2 DEF Flag
    <3>2. c.track.id # None => c.track.revision + 0 + Flag(~c.track.prepared) <= d
      BY <1>1, <1>4 DEF Caused, Paced
    <3>3. QED
      BY <1>1, <1>2, <2>2, <3>1, <3>2 DEF Caused, Paced
  <2>3. QED
    BY <2>1, <2>2
<1>6. ~i /\ (c.invalidated \/ Affords(c, d)) => Affords(a, d)
  <2>1. ASSUME c.invalidated \/ Affords(c, d), ~i, c.track.id # None
        PROVE  c.track.revision + Flag(a.invalidated) + Flag(~c.track.prepared) < d
    <3>1. Flag(a.invalidated) = 0
      BY <1>2, <2>1 DEF Flag
    <3>2. c.track.revision + Flag(c.invalidated) + Flag(~c.track.prepared) <= d
      BY <1>1, <2>1 DEF Caused, Paced
    <3>3. CASE c.invalidated
      <4>1. Flag(c.invalidated) = 1
        BY <3>3 DEF Flag
      <4>2. QED
        BY <1>4, <3>1, <3>2, <4>1
    <3>4. CASE Affords(c, d)
      <4>1. c.track.revision + Flag(c.invalidated) + Flag(~c.track.prepared) < d
        BY <2>1, <3>4 DEF Affords
      <4>2. QED
        BY <1>4, <3>1, <4>1
    <3>5. QED
      BY <2>1, <3>3, <3>4
  <2>2. QED
    BY <1>2, <2>1 DEF Affords
<1>7. QED
  BY <1>2, <1>3, <1>5, <1>6 DEF Keeps, Coherent, Caused, a

\* InvalidateKeeps: invalidate_selected_settings.
LEMMA InvalidateKeeps ==
  ASSUME NEW c, NEW s, NEW ls, NEW d \in Nat, Coherent(c, s, ls, d), Affords(c, d)
  PROVE  Keeps(Invalidate(c, s), c, s, ls, d)
BY InvalidatedKeeps DEF Invalidate, Keeps

\* InferenceKeeps: refresh_inference_settings.
LEMMA InferenceKeeps ==
  ASSUME NEW c, NEW s \in SceneType, NEW ls \in Seq(LineType), NEW d \in Nat,
         serving \in ServingType, Coherent(c, s, ls, d), Affords(c, d)
  PROVE  Keeps(RefreshInference(c, s), c, s, ls, d)
<1> DEFINE b == RequestRender(c, s, c.track.rendering)
<1>1. Keeps(Invalidate(c, s), c, s, ls, d) /\ Keeps(c, c, s, ls, d)
  BY InvalidateKeeps DEF Keeps
<1>2. ASSUME Published(c, c.track.rendering)
      PROVE  Keeps(RequestFrame(b, s), c, s, ls, d)
  <2>1. Keeps(b, c, s, ls, d)
    BY <1>2, RequestKeeps
  <2> HIDE DEF b
  <2>2. Keeps(RequestFrame(b, s), b, s, ls, d)
    BY <2>1, FrameKeeps DEF Keeps
  <2>3. QED
    BY <2>1, <2>2 DEF Keeps
<1>3. \/ RefreshInference(c, s) \in {c, Invalidate(c, s)}
      \/ /\ Published(c, c.track.rendering)
         /\ RefreshInference(c, s) = RequestFrame(b, s)
  BY DEF RefreshInference
<1>4. QED
  BY <1>1, <1>2, <1>3

\* RescanKeeps: _refresh_invalidated_selected_settings; what asked for the scan
\* accounts for it.
LEMMA RescanKeeps ==
  ASSUME NEW c, NEW s \in SceneType, NEW ls \in Seq(LineType), NEW d \in Nat,
         serving \in ServingType, Coherent(c, s, ls, d)
  PROVE  Keeps(RefreshInvalidated(c, s), c, s, ls, d)
<1> DEFINE b == [c EXCEPT !.invalidated = FALSE]
           e == TryRender(b, s, Evaluated(s))
<1>1. Keeps(b, c, s, ls, d) /\ (c.invalidated => Affords(b, d))
  BY InvalidatedKeeps
<1> HIDE DEF b
<1>2. c.invalidated => Keeps(e, b, s, ls, d)
  BY <1>1, EvaluatedIsTimeline, TryKeeps DEF Keeps
<1> HIDE DEF e
<1>3. c.invalidated => Keeps(RequestFrame(e, s), e, s, ls, d)
  BY <1>2, FrameKeeps DEF Keeps
<1>4. \/ RefreshInvalidated(c, s) \in {c, b}
      \/ c.invalidated /\ RefreshInvalidated(c, s) = RequestFrame(e, s)
  BY DEF RefreshInvalidated, b, e
<1>5. QED
  BY <1>1, <1>2, <1>3, <1>4 DEF Keeps
-----------------------------------------------------------------------------
(* Bakes. *)

\* Baked: what a bake of a session may leave.
Baked(a, c, bake) ==
  a.baked \in {c.baked, {[source |-> bake.source, timeline |-> bake.timeline]}}

\* FinishKeeps: _finish_bake writes what the bake asked for.
LEMMA FinishKeeps ==
  ASSUME NEW c, NEW s \in SceneType, NEW ls \in Seq(LineType), NEW d \in Nat,
         serving \in ServingType, Coherent(c, s, ls, d), c.bake.on
  PROVE  /\ Coherent(FinishBake(c, s), s, ls, d)
         /\ Baked(FinishBake(c, s), c, c.bake)
<1> DEFINE rows == c.track.cache
           w == [ReleaseBake(c) EXCEPT !.baked = rows,
                   !.mesh = [frame |-> s.frame, rows |-> rows]]
           r == IF c.status = "baking" THEN SetStatus(w, s, "ready") ELSE w
<1>1. /\ c \in SessionType /\ c.track \in TrackType /\ BakesTrack(c)
      /\ Fits(c.track, c.inbox, c.operations, ls, serving) /\ Caused(c, s, d)
      /\ NoBake \in BakeType /\ ~NoBake.on
  BY Parts, Blanks DEF NoBake
<1>2. CASE c.track.cache = {} \/ c.track.published # c.bake.timeline
  BY <1>2 DEF FinishBake, Baked
<1>3. CASE ~(c.track.cache = {} \/ c.track.published # c.bake.timeline)
  <2>1. rows = {[source |-> c.bake.source, timeline |-> c.bake.timeline]}
    <3>1. c.bake.source = c.track.source
      BY <1>1 DEF BakesTrack
    <3>2. rows = RowsOf(c.track, c.track.published)
      BY <1>1, <1>3 DEF Fits, Whole
    <3>3. QED
      BY <1>3, <3>1, <3>2 DEF RowsOf
  <2>2. rows \in SUBSET Rows /\ s.frame \in AnyFrame
    BY <1>1 DEF TrackType, SceneType
  <2> HIDE DEF rows
  <2>3. /\ w \in SessionType /\ w.track = c.track /\ w.inbox = c.inbox
        /\ w.operations = c.operations /\ w.bake = NoBake /\ w.baked = rows
        /\ w.invalidated = c.invalidated /\ w.observed = c.observed
        /\ w.status = c.status /\ w.client = c.client
    BY <1>1, <2>2 DEF ReleaseBake, SessionType
  <2> HIDE DEF w
  <2>4. Coherent(w, s, ls, d)
    BY <1>1, <2>3 DEF Coherent, BakesTrack, Caused, Paced, Accounted, CanRequest
  <2>5. Keeps(r, w, s, ls, d)
    <3>1. "ready" \in Statuses \ Starting
      BY DEF Statuses, Starting
    <3>2. Keeps(SetStatus(w, s, "ready"), w, s, ls, d)
      BY <2>4, <3>1, StatusKeeps
    <3>3. QED
      BY <2>4, <3>2 DEF Keeps
  <2> HIDE DEF r
  <2>6. Keeps(RefreshInvalidated(r, s), r, s, ls, d)
    BY <2>5, RescanKeeps DEF Keeps
  <2>7. FinishBake(c, s) = RefreshInvalidated(r, s)
    BY <1>3 DEF FinishBake, r, w, rows
  <2>8. QED
    BY <2>1, <2>3, <2>5, <2>6, <2>7 DEF Keeps, Baked
<1>4. QED
  BY <1>2, <1>3

\* FailBakeKeeps: _fail_bake.
LEMMA FailBakeKeeps ==
  ASSUME NEW c, NEW s \in SceneType, NEW ls \in Seq(LineType), NEW d \in Nat,
         serving \in ServingType, Coherent(c, s, ls, d), NEW status \in Errors
  PROVE  Keeps(FailBake(c, s, status), c, s, ls, d)
<1> DEFINE b == ReleaseBake(c)
           r == IF c.status = "baking" THEN SetStatus(b, s, status) ELSE b
<1>1. Keeps(b, c, s, ls, d) /\ Coherent(b, s, ls, d)
  BY BakeReleased DEF Keeps
<1> HIDE DEF b
<1>2. status \in Statuses \ Starting
  BY DEF Errors, Statuses, Starting
<1>3. Keeps(SetStatus(b, s, status), b, s, ls, d) /\ Keeps(b, b, s, ls, d)
  BY <1>1, <1>2, StatusKeeps DEF Keeps
<1>4. Keeps(r, b, s, ls, d)
  BY <1>3
<1> HIDE DEF r
<1>5. Keeps(RefreshInvalidated(r, s), r, s, ls, d)
  BY <1>4, RescanKeeps DEF Keeps
<1>6. FailBake(c, s, status) \in {c, RefreshInvalidated(r, s)}
  BY DEF FailBake, r, b
<1>7. QED
  BY <1>1, <1>4, <1>5, <1>6 DEF Keeps

\* MilderSpares: what is shown and forgotten needs no more disturbances.
LEMMA MilderSpares ==
  ASSUME NEW c, NEW a, NEW s, NEW ls, NEW d \in Nat, Coherent(c, s, ls, d),
         Milder(a, c, s)
  PROVE  (Spare(c, s, d) => Spare(a, s, d)) /\ (Affords(c, d) => Affords(a, d))
<1>1. /\ c.operations \in Nat /\ c.track.revision \in Nat
      /\ Flag(c.track.restart) \in {0, 1} /\ Flag(~c.track.prepared) \in {0, 1}
  BY Parts DEF Flag, TrackType
<1>2. /\ a.track = c.track /\ a.operations = c.operations
      /\ CanRequest(a) <=> CanRequest(c)
  BY DEF Milder, CanRequest
<1>3. Flag(a.observed # s.source \/ a.status \in Starting)
        <= Flag(c.observed # s.source \/ c.status \in Starting)
      /\ Flag(a.observed # s.source \/ a.status \in Starting) \in {0, 1}
      /\ Flag(c.observed # s.source \/ c.status \in Starting) \in {0, 1}
  BY DEF Milder, Flag
<1>4. /\ Flag(a.invalidated) <= Flag(c.invalidated)
      /\ Flag(a.invalidated) \in {0, 1} /\ Flag(c.invalidated) \in {0, 1}
  BY DEF Milder, Flag
<1>5. ASSUME Spare(c, s, d), CanRequest(a)
      PROVE  a.operations + Flag(a.track.restart)
               + Flag(a.observed # s.source \/ a.status \in Starting) < d
  BY <1>1, <1>2, <1>3, <1>5 DEF Spare
<1>6. ASSUME Affords(c, d), a.track.id # None
      PROVE  a.track.revision + Flag(a.invalidated) + Flag(~a.track.prepared) < d
  BY <1>1, <1>2, <1>4, <1>6 DEF Affords
<1>7. QED
  BY <1>5, <1>6 DEF Spare, Affords

\* EnsureUnprepared: a track that is started is not prepared yet.
LEMMA EnsureUnprepared ==
  ASSUME NEW c, NEW s \in SceneType, NEW ls, NEW d, Coherent(c, s, ls, d),
         c.track.id = None
  PROVE  ~Prepared(EnsureTrack(c, s))
<1>1. c \in SessionType /\ c.track = NoTrack /\ ~NoTrack.prepared /\ NoTrack \in TrackType
  BY Parts, Blanks DEF Fits, Whole, NoTrack
<1> DEFINE seen == Observe(Snapshot(c, s), s.source)
<1>2. /\ \A status : SetStatus(c, s, status).track = c.track
      /\ Observe(c, s.source).track = c.track
      /\ \A status : SetStatus(Observe(c, s.source), s, status).track = c.track
      /\ seen.track = c.track
  BY <1>1 DEF SetStatus, Observe, Snapshot, SessionType
<1>3. \A status : SetStatus(seen, s, status).track = c.track
  BY <1>1, <1>2 DEF SetStatus, seen, Observe, Snapshot, SessionType
<1>4. ~SetStatus(Submit(Started(seen, s), TrackRequest(Started(seen, s), "track_start")),
                 s, "uploading").track.prepared
  BY <1>1, <1>2 DEF SetStatus, Submit, Started, Observe, Snapshot, SessionType, TrackType
<1>5. ~EnsureTrack(c, s).track.prepared
  <2> HIDE DEF seen
  <2>1. \/ EnsureTrack(c, s) = c
        \/ EnsureTrack(c, s) = SetStatus(Observe(c, s.source), s, "error channel")
        \/ EnsureTrack(c, s) = seen
        \/ EnsureTrack(c, s) = SetStatus(seen, s, "error")
        \/ EnsureTrack(c, s) = SetStatus(Submit(Started(seen, s),
             TrackRequest(Started(seen, s), "track_start")), s, "uploading")
    BY DEF EnsureTrack, seen, Started
  <2>2. QED
    BY <1>1, <1>2, <1>3, <1>4, <2>1
<1>6. QED
  BY <1>5 DEF Prepared

\* StartBakeKeeps: bake_selected_audio bakes the present scene, at once or when
\* it is rendered.
LEMMA StartBakeKeeps ==
  ASSUME NEW c, NEW s \in SceneType, NEW ls \in Seq(LineType), NEW d \in Nat,
         serving \in ServingType, Coherent(c, s, ls, d), s.available,
         Spare(c, s, d), Affords(c, d), NEW written \in BOOLEAN
  PROVE  /\ Coherent(StartBake(c, s, written), s, ls, d)
         /\ Baked(StartBake(c, s, written), c,
                  [source |-> s.source, timeline |-> Evaluated(s)])
<1> DEFINE seen == Snapshot(c, s)
           ready == IF c.track.id = None THEN EnsureTrack(seen, s) ELSE seen
           timeline == Evaluated(s)
           bake == [on |-> TRUE, source |-> s.source, timeline |-> timeline]
           b == [ready EXCEPT !.bake = bake, !.early = ~ready.track.prepared]
           baking == SetStatus(b, s, "baking")
<1>1. /\ "ready" \in Statuses \ Starting /\ "error" \in Statuses \ Starting
      /\ "baking" \in Statuses \ Starting /\ "error channel" \in Statuses \ Starting
  BY DEF Statuses, Errors, Starting
<1>2. Milder(seen, c, s) /\ Milder(Observe(c, s.source), c, s)
  BY <1>1, Parts, MilderMethods
<1> HIDE DEF seen
<1>3. /\ Keeps(seen, c, s, ls, d) /\ Coherent(seen, s, ls, d)
      /\ Spare(seen, s, d) /\ Affords(seen, d) /\ seen.track = c.track
  BY <1>2, MilderKeeps, MilderSpares DEF Keeps, Milder
<1>4. Keeps(ready, seen, s, ls, d) /\ (Prepared(ready) => Affords(ready, d))
  <2>1. CASE c.track.id = None
    <3>1. Keeps(EnsureTrack(seen, s), seen, s, ls, d)
      BY <1>3, EnsureKeeps DEF Owed
    <3>2. ~Prepared(EnsureTrack(seen, s))
      BY <1>3, <2>1, EnsureUnprepared
    <3>3. QED
      BY <2>1, <3>1, <3>2
  <2>2. CASE c.track.id # None
    BY <1>3, <2>2 DEF Keeps
  <2>3. QED
    BY <2>1, <2>2
<1> HIDE DEF ready
<1>5. Keeps(SetStatus(ready, s, "error"), ready, s, ls, d)
  BY <1>1, <1>4, StatusKeeps DEF Keeps
<1>6. ASSUME ready.track.id # None, ~Replacing(ready, s)
      PROVE  /\ Coherent(b, s, ls, d) /\ b.bake = bake /\ b.baked = ready.baked
             /\ Prepared(b) => Affords(b, d)
  <2>1. /\ ready \in SessionType /\ Caused(ready, s, d)
        /\ Fits(ready.track, ready.inbox, ready.operations, ls, serving)
        /\ ready.track.prepared \in BOOLEAN
    BY <1>4, Parts DEF Keeps, TrackType
  <2>2. timeline \in Timelines /\ s.source \in AnySource
    BY EvaluatedIsTimeline DEF SceneType
  <2> HIDE DEF timeline
  <2>3. bake \in BakeType
    BY <2>2 DEF BakeType, AnyTimeline
  <2>4. bake.source = ready.track.source /\ bake.timeline \in Timelines
    BY <1>6, <2>2 DEF Replacing
  <2> HIDE DEF bake
  <2>5. /\ b \in SessionType /\ b.track = ready.track /\ b.inbox = ready.inbox
        /\ b.operations = ready.operations /\ b.bake = bake
        /\ b.baked = ready.baked /\ b.invalidated = ready.invalidated
        /\ b.observed = ready.observed /\ b.status = ready.status
        /\ b.client = ready.client
    BY <2>1, <2>3 DEF SessionType
  <2> HIDE DEF b
  <2>6. BakesTrack(b) /\ Caused(b, s, d)
    BY <1>6, <2>1, <2>4, <2>5 DEF BakesTrack, Caused, Paced, Accounted, CanRequest
  <2>7. QED
    BY <1>4, <2>1, <2>5, <2>6 DEF Coherent, Prepared, Affords
<1> HIDE DEF b
<1>7. ASSUME ready.track.id # None, ~Replacing(ready, s)
      PROVE  /\ Coherent(baking, s, ls, d) /\ baking.bake = bake
             /\ baking.baked = c.baked
             /\ Prepared(baking) => Affords(baking, d)
  <2>1. Coherent(b, s, ls, d)
    BY <1>6, <1>7
  <2>2. /\ Keeps(baking, b, s, ls, d) /\ baking.bake = b.bake
        /\ baking.track = b.track
    <3> HIDE DEF bake
    <3>1. \A status \in Statuses \ Starting :
            /\ Keeps(SetStatus(b, s, status), b, s, ls, d)
            /\ SetStatus(b, s, status).bake = b.bake
            /\ SetStatus(b, s, status).track = b.track
      BY <2>1, StatusKeeps
    <3>2. QED
      BY <1>1, <3>1
  <2>3. Milder(baking, b, s)
    BY <1>1, <2>1, Parts, MilderMethods
  <2> HIDE DEF baking
  <2>4. Affords(b, d) => Affords(baking, d)
    BY <2>1, <2>3, MilderSpares
  <2>5. QED
    BY <1>3, <1>4, <1>6, <1>7, <2>2, <2>4 DEF Keeps, Prepared
<1> HIDE DEF baking
<1>8. ASSUME ready.track.id # None, ~Replacing(ready, s)
      PROVE  /\ Coherent(FinishBake(baking, s), s, ls, d)
             /\ Baked(FinishBake(baking, s), c, bake)
             /\ Keeps(RequestRender(baking, s, timeline), c, s, ls, d)
             /\ Keeps(SetStatus(ReleaseBake(baking), s, "error"), c, s, ls, d)
  <2>1. /\ Coherent(baking, s, ls, d) /\ baking.bake = bake
        /\ baking.baked = c.baked /\ bake.on
        /\ Prepared(baking) => Affords(baking, d)
    BY <1>7, <1>8
  <2>2. timeline \in Timelines
    BY EvaluatedIsTimeline
  <2> HIDE DEF timeline, bake
  <2>3. /\ Coherent(FinishBake(baking, s), s, ls, d)
        /\ Baked(FinishBake(baking, s), baking, bake)
    BY <2>1, FinishKeeps
  <2>4. Keeps(RequestRender(baking, s, timeline), baking, s, ls, d)
    BY <2>1, <2>2, RequestKeeps
  <2>5. Keeps(ReleaseBake(baking), baking, s, ls, d)
    BY <2>1, BakeReleased
  <2>6. Keeps(SetStatus(ReleaseBake(baking), s, "error"), ReleaseBake(baking), s, ls, d)
    BY <1>1, <2>5, StatusKeeps DEF Keeps
  <2>7. QED
    BY <2>1, <2>3, <2>4, <2>5, <2>6 DEF Keeps, Baked
<1>9. /\ Keeps(Observe(c, s.source), c, s, ls, d)
      /\ Keeps(SetStatus(Observe(c, s.source), s, "error channel"), c, s, ls, d)
  <2>1. Keeps(Observe(c, s.source), c, s, ls, d)
    BY <1>2, MilderKeeps
  <2>2. Keeps(SetStatus(Observe(c, s.source), s, "error channel"),
              Observe(c, s.source), s, ls, d)
    BY <1>1, <2>1, StatusKeeps DEF Keeps
  <2>3. QED
    BY <2>1, <2>2 DEF Keeps
<1>10. CASE s.source = Invalid
  BY <1>9, <1>10 DEF StartBake, Keeps, Baked
<1>11. CASE s.source # Invalid /\ (c.phase # "loaded" \/ ready.track.id = None \/ Replacing(ready, s))
  <2>1. StartBake(c, s, written) = SetStatus(ready, s, "error")
    BY <1>11 DEF StartBake, ready, seen
  <2>2. QED
    BY <1>3, <1>4, <1>5, <2>1 DEF Keeps, Baked
<1>12. CASE s.source # Invalid /\ ~(c.phase # "loaded" \/ ready.track.id = None \/ Replacing(ready, s))
  <2>1. StartBake(c, s, written) \in
          {FinishBake(baking, s), RequestRender(baking, s, timeline),
           SetStatus(ReleaseBake(baking), s, "error")}
    BY <1>12 DEF StartBake, ready, seen, baking, b
  <2>2. Baked(FinishBake(baking, s), c, [source |-> s.source, timeline |-> timeline])
    BY <1>8, <1>12 DEF Baked
  <2>3. QED
    BY <1>8, <1>12, <2>1, <2>2 DEF Keeps, Baked
<1>13. QED
  BY <1>10, <1>11, <1>12

\* CancelBakeKeeps: cancel_bake.
LEMMA CancelBakeKeeps ==
  ASSUME NEW c, NEW s \in SceneType, NEW ls \in Seq(LineType), NEW d \in Nat,
         serving \in ServingType, Coherent(c, s, ls, d), Affords(c, d)
  PROVE  Keeps(CancelBake(c, s), c, s, ls, d)
<1> DEFINE b == ReleaseBake(c)
           r == IF c.status = "baking" THEN SetStatus(b, s, "ready") ELSE b
<1>1. c \in SessionType /\ "ready" \in Statuses \ Starting
  BY Parts DEF Statuses, Starting
<1>2. Milder(b, c, s)
  BY <1>1, MilderMethods
<1> HIDE DEF b
<1>3. Milder(SetStatus(b, s, "ready"), b, s)
  BY <1>1, <1>2, MilderMethods, ZenonT(40) DEF Milder
<1>4. Milder(r, c, s)
  BY <1>2, <1>3, MilderTwice
<1> HIDE DEF r
<1>5. Keeps(r, c, s, ls, d) /\ Coherent(r, s, ls, d) /\ Affords(r, d)
  BY <1>4, MilderKeeps, MilderSpares DEF Keeps
<1>6. /\ Keeps(RefreshInvalidated(r, s), r, s, ls, d)
      /\ Keeps(RefreshInference(r, s), r, s, ls, d)
  BY <1>5, RescanKeeps, InferenceKeeps
<1>7. CancelBake(c, s) \in {RefreshInvalidated(r, s), RefreshInference(r, s)}
  BY DEF CancelBake, r, b
<1>8. QED
  BY <1>5, <1>6, <1>7 DEF Keeps

\* StopKeeps: stop.
LEMMA StopKeeps ==
  ASSUME NEW c, NEW s \in SceneType, NEW ls, NEW d \in Nat, Coherent(c, s, ls, d)
  PROVE  Keeps(StopWorker(c, s), c, s, ls, d)
<1> DEFINE b == ReleaseBake(ReleaseTrack(ForgetModel(c)))
           e == [c EXCEPT !.expected = TRUE, !.registered = TRUE]
<1>1. /\ c \in SessionType /\ NoTrack \in TrackType /\ NoBake \in BakeType
      /\ "idle" \in Statuses \ Starting /\ "stopping" \in Statuses \ Starting
      /\ Fits(c.track, c.inbox, c.operations, ls, serving) /\ BakesTrack(c) /\ Paced(c, d)
  BY Parts, Blanks DEF Statuses, Starting, Caused
<1>2. CASE c.client = "stopped"
  <2>1. /\ b \in SessionType /\ b.track = NoTrack /\ b.bake = NoBake
        /\ b.inbox = c.inbox /\ b.operations = c.operations
        /\ b.client = c.client /\ ~b.invalidated /\ b.baked = c.baked
    BY <1>1 DEF ReleaseBake, ReleaseTrack, ForgetModel, SessionType
  <2> HIDE DEF b
  <2>2. Coherent(b, s, ls, d)
    BY <1>2, <2>1, EmptiedCoherent DEF CanRequest
  <2>3. Keeps(SetStatus(b, s, "idle"), b, s, ls, d)
    BY <1>1, <2>2, StatusKeeps
  <2>4. StopWorker(c, s) = SetStatus(b, s, "idle")
    BY <1>2 DEF StopWorker, b
  <2>5. QED
    BY <2>1, <2>3, <2>4 DEF Keeps
<1>3. CASE c.client = "stopping"
  BY <1>1, <1>3, StatusKeeps DEF StopWorker
<1>4. CASE c.client \notin {"stopped", "stopping"}
  <2>1. /\ e \in SessionType /\ e.track = c.track /\ e.bake = c.bake
        /\ e.inbox = c.inbox /\ e.operations = c.operations
        /\ e.invalidated = c.invalidated /\ e.baked = c.baked
        /\ e.status = c.status
    BY <1>1 DEF SessionType
  <2> HIDE DEF e
  <2>2. BakesTrack(e) /\ Paced(e, d)
    BY <1>1, <2>1 DEF BakesTrack, Paced
  <2>3. Coherent(BeginShutdown(e), s, ls, d) /\ BeginShutdown(e).baked = e.baked
    BY <1>1, <2>1, <2>2, ShutdownCoherent
  <2>4. Keeps(SetStatus(BeginShutdown(e), s, "stopping"), BeginShutdown(e), s, ls, d)
    BY <1>1, <2>3, StatusKeeps
  <2>5. StopWorker(c, s) = SetStatus(BeginShutdown(e), s, "stopping")
    BY <1>4 DEF StopWorker, e
  <2>6. QED
    BY <2>1, <2>3, <2>4, <2>5 DEF Keeps
<1>5. QED
  BY <1>2, <1>3, <1>4
-----------------------------------------------------------------------------
(* The lines of the worker. *)

\* A line tells of the session, and what follows it of nothing it uploads.
Told(c, x, ls) ==
  /\ x \in LineType /\ Tells(c.track, c.operations, x, serving)
  /\ Upload(c.track, x) => NoUpload(c.track, c.inbox, ls, serving)

\* FitsShown: a track changes in what it shows.
LEMMA FitsShown ==
  ASSUME NEW t, NEW u \in TrackType, NEW q, NEW n, NEW ls,
         Fits(t, q, n, ls, serving), Whole(u),
         u.id = t.id, u.source = t.source, u.left = t.left,
         u.prepared = t.prepared, u.revision = t.revision,
         u.rendering = t.rendering
  PROVE  Fits(u, q, n, ls, serving)
<1>1. \A x : (Mine(u, x) <=> Mine(t, x)) /\ (Upload(u, x) <=> Upload(t, x))
  BY DEF Mine, Upload
<1>2. Fed(u, serving) <=> Fed(t, serving)
  BY DEF Fed
<1>3. \A r : Agrees(t, n, r, serving) => Agrees(u, n, r, serving)
  BY <1>1, <1>2 DEF Agrees
<1>4. \A x : Tells(t, n, x, serving) => Tells(u, n, x, serving)
  BY <1>1, <1>2 DEF Tells, RowsOf
<1>5. OneUpload(u, q, ls, serving)
  BY <1>1 DEF Fits, OneUpload
<1>6. QED
  BY <1>2, <1>3, <1>4, <1>5 DEF Fits

\* FitsUploaded: nothing of the upload is on its way, and it goes on.
LEMMA FitsUploaded ==
  ASSUME NEW t \in TrackType, NEW q, NEW n, NEW ls, Fits(t, q, n, ls, serving),
         NoUpload(t, q, ls, serving), t.id # None, NEW left \in Nat,
         NEW prepared \in BOOLEAN, t.prepared => prepared,
         prepared => Fed(t, serving),
         NEW u, u = [t EXCEPT !.left = left, !.prepared = prepared]
  PROVE  Fits(u, q, n, ls, serving) /\ NoUpload(u, q, ls, serving)
<1>1. /\ u.id = t.id /\ u.source = t.source /\ u.prepared = prepared
      /\ u.revision = t.revision /\ u.rendering = t.rendering
      /\ u.published = t.published /\ u.cache = t.cache /\ u.stage = t.stage
  BY DEF TrackType
<1>2. Whole(u)
  BY <1>1 DEF Fits, Whole, RowsOf
<1>3. \A x : (Mine(u, x) <=> Mine(t, x)) /\ (Upload(u, x) <=> Upload(t, x))
  BY <1>1 DEF Mine, Upload
<1>4. Fed(u, serving) <=> Fed(t, serving)
  BY <1>1 DEF Fed
<1>5. \A r : Agrees(t, n, r, serving) /\ ~Upload(t, r) => Agrees(u, n, r, serving)
  BY <1>1, <1>3, <1>4 DEF Agrees, Upload, Uploads
<1>6. \A x : Tells(t, n, x, serving) /\ ~Upload(t, x) => Tells(u, n, x, serving)
  BY <1>1, <1>3, <1>4 DEF Tells, RowsOf
<1>7. NoUpload(u, q, ls, serving) /\ OneUpload(u, q, ls, serving)
  BY <1>3 DEF NoUpload, OneUpload
<1>8. Busy(serving) => Agrees(u, n, serving.job, serving)
  <2>1. Busy(serving) => ~Upload(t, serving.job)
    BY DEF Fits, Upload, Uploads
  <2>2. QED
    BY <1>5, <2>1 DEF Fits
<1>9. QED
  BY <1>1, <1>2, <1>4, <1>5, <1>6, <1>7, <1>8 DEF Fits, NoUpload

\* ShownCoherent: the session changes in the track and what it shows of it.
LEMMA ShownCoherent ==
  ASSUME NEW c, NEW s, NEW ls, NEW d \in Nat, Coherent(c, s, ls, d),
         c.track.id # None, NEW u \in TrackType,
         Fits(u, c.inbox, c.operations, ls, serving), u.id = c.track.id,
         u.source = c.track.source, c.track.prepared => u.prepared,
         u.restart = c.track.restart, u.revision = c.track.revision
  PROVE  /\ Keeps([c EXCEPT !.track = u], c, s, ls, d)
         /\ [c EXCEPT !.track = u].track = u
         /\ [c EXCEPT !.track = u].bake = c.bake
         /\ [c EXCEPT !.track = u].inbox = c.inbox
         /\ [c EXCEPT !.track = u].status = c.status
         /\ u.prepared /\ ~c.track.prepared => Affords([c EXCEPT !.track = u], d)
<1> DEFINE a == [c EXCEPT !.track = u]
<1>1. /\ c \in SessionType /\ c.track \in TrackType /\ BakesTrack(c)
      /\ Caused(c, s, d)
  BY Parts
<1>2. /\ a \in SessionType /\ a.track = u /\ a.inbox = c.inbox
      /\ a.operations = c.operations /\ a.bake = c.bake /\ a.baked = c.baked
      /\ a.invalidated = c.invalidated /\ a.observed = c.observed
      /\ a.status = c.status /\ a.client = c.client
  BY <1>1 DEF SessionType
<1> HIDE DEF a
<1>3. BakesTrack(a) /\ Accounted(a, s, d)
  BY <1>1, <1>2 DEF BakesTrack, Caused, Accounted, CanRequest
<1>4. /\ Flag(c.invalidated) \in {0, 1} /\ u.revision \in Nat
      /\ Flag(~c.track.prepared) \in {0, 1} /\ Flag(~u.prepared) \in {0, 1}
      /\ Flag(~u.prepared) <= Flag(~c.track.prepared)
      /\ u.prepared /\ ~c.track.prepared =>
           Flag(~u.prepared) = 0 /\ Flag(~c.track.prepared) = 1
  BY DEF Flag, TrackType
<1>5. /\ u.revision + Flag(c.invalidated) + Flag(~u.prepared) <= d
      /\ u.prepared /\ ~c.track.prepared =>
           u.revision + Flag(c.invalidated) + Flag(~u.prepared) < d
  <2>1. u.revision + Flag(c.invalidated) + Flag(~c.track.prepared) <= d
    BY <1>1 DEF Caused, Paced
  <2>2. QED
    BY <1>4, <2>1
<1>6. Paced(a, d) /\ (u.prepared /\ ~c.track.prepared => Affords(a, d))
  BY <1>1, <1>2, <1>5 DEF Caused, Paced, Affords
<1>7. QED
  BY <1>2, <1>3, <1>6 DEF Keeps, Coherent, Caused, a

\* RequestAsked: a request of the track is sent.
LEMMA RequestAsked ==
  ASSUME NEW c, NEW s, NEW ls, NEW d \in Nat, Coherent(c, s, ls, d),
         NEW r \in RequestType, Agrees(c.track, c.operations, r, serving),
         NoUpload(c.track, c.inbox, ls, serving)
  PROVE  /\ Keeps(Submit(c, r), c, s, ls, d)
         /\ Submit(c, r).track = c.track /\ Submit(c, r).status = c.status
<1> DEFINE q == Append(c.inbox, r)
           a == [c EXCEPT !.inbox = q]
<1>1. /\ c \in SessionType /\ c.inbox \in Seq(RequestType) /\ c.operations \in Nat
      /\ Fits(c.track, c.inbox, c.operations, ls, serving) /\ BakesTrack(c)
      /\ Caused(c, s, d) /\ Submit(c, r) = a
  BY Parts DEF Submit
<1>2. q \in Seq(RequestType) /\ Fits(c.track, q, c.operations, ls, serving)
  BY <1>1, Appended, FitsAsked
<1> HIDE DEF q
<1>3. /\ a \in SessionType /\ a.track = c.track /\ a.inbox = q
      /\ a.operations = c.operations /\ a.bake = c.bake /\ a.baked = c.baked
      /\ a.invalidated = c.invalidated /\ a.observed = c.observed
      /\ a.status = c.status /\ a.client = c.client
  BY <1>1, <1>2 DEF SessionType
<1> HIDE DEF a
<1>4. BakesTrack(a) /\ Caused(a, s, d)
  BY <1>1, <1>3 DEF BakesTrack, Caused, Paced, Accounted, CanRequest
<1>5. QED
  BY <1>1, <1>2, <1>3, <1>4 DEF Keeps, Coherent

\* SendKeeps: _send_next_track_chunk, which prepares only what was uploaded.
LEMMA SendKeeps ==
  ASSUME NEW c, NEW s \in SceneType, NEW ls, NEW d \in Nat, Coherent(c, s, ls, d),
         c.track.id # None, ~c.track.prepared,
         NoUpload(c.track, c.inbox, ls, serving), c.track.left = 0 => Fed(c.track, serving)
  PROVE  Keeps(SendNext(c, s), c, s, ls, d)
<1>1. /\ c \in SessionType /\ c.track \in TrackType /\ c.operations \in Nat
      /\ Fits(c.track, c.inbox, c.operations, ls, serving) /\ c.track.id <= c.operations
      /\ c.status \in Statuses \ Starting
  BY Parts DEF SessionType, Caused, Paced, Fits
<1>2. NoRequest \in RequestType /\ {"track_chunk", "track_prepare"} \subseteq Methods
  BY Blanks DEF Methods
<1>3. CASE c.track.canceled
  BY <1>3 DEF SendNext, Keeps
<1>4. CASE ~c.track.canceled /\ ~CanRequest(c)
  <2>1. "error" \in Errors
    BY DEF Errors
  <2>2. QED
    BY <1>4, <2>1, FailKeeps DEF SendNext
<1>5. CASE ~c.track.canceled /\ CanRequest(c) /\ c.track.left > 0
  <2> DEFINE left == c.track.left - 1
             u == [c.track EXCEPT !.left = left, !.prepared = c.track.prepared]
             b == [c EXCEPT !.track = u]
             r == [TrackRequest(c, "track_chunk") EXCEPT !.source = c.track.source]
  <2>1. left \in Nat /\ c.track.prepared \in BOOLEAN /\ c.track.source \in AnySource
    BY <1>1, <1>5 DEF TrackType
  <2>2. [c EXCEPT !.track.left = @ - 1] = b
    BY <1>1, ZenonT(40) DEF SessionType, TrackType
  <2> HIDE DEF left
  <2>3. Fits(u, c.inbox, c.operations, ls, serving) /\ NoUpload(u, c.inbox, ls, serving)
    BY <1>1, <2>1, FitsUploaded
  <2>4. /\ u \in TrackType /\ u.id = c.track.id /\ u.source = c.track.source
        /\ u.prepared = c.track.prepared /\ u.restart = c.track.restart
        /\ u.revision = c.track.revision
    BY <1>1, <2>1 DEF TrackType
  <2>5. r \in RequestType /\ r.method = "track_chunk" /\ r.operation = u.id
        /\ r.source = u.source
    <3>1. c.track.id \in Nat
      BY <1>1 DEF TrackType
    <3>2. QED
      BY <1>2, <2>1, <2>4, <3>1 DEF TrackRequest, RequestType
  <2> HIDE DEF u, r
  <2>6. /\ Keeps(b, c, s, ls, d) /\ b.track = u /\ b.inbox = c.inbox
    BY <1>1, <2>3, <2>4, ShownCoherent
  <2> HIDE DEF b
  <2>7. b.operations \in Nat /\ b.track.id <= b.operations
    BY <2>6, Parts DEF Keeps, Fits
  <2>8. Agrees(b.track, b.operations, r, serving)
    BY <2>4, <2>5, <2>6, <2>7 DEF Agrees, Upload, Uploads
  <2>9. Keeps(Submit(b, r), b, s, ls, d)
    BY <2>3, <2>5, <2>6, <2>8, RequestAsked DEF Keeps
  <2>10. SendNext(c, s) = Submit(b, r)
    BY <1>5, <2>2 DEF SendNext, r
  <2>11. QED
    BY <2>6, <2>9, <2>10 DEF Keeps
<1>6. CASE ~c.track.canceled /\ CanRequest(c) /\ ~(c.track.left > 0)
  <2> DEFINE r == TrackRequest(c, "track_prepare")
             status == IF c.status = "uploading" THEN "preparing" ELSE c.status
             b == Submit(c, r)
  <2>1. r \in RequestType /\ r.method = "track_prepare" /\ r.operation = c.track.id
    <3>1. c.track.id \in Nat
      BY <1>1 DEF TrackType
    <3>2. QED
      BY <1>2, <3>1 DEF TrackRequest, RequestType
  <2> HIDE DEF r
  <2>2. Fed(c.track, serving)
    BY <1>1, <1>6 DEF TrackType
  <2>3. Agrees(c.track, c.operations, r, serving)
    BY <1>1, <2>1, <2>2 DEF Agrees, Upload, Uploads
  <2>4. Keeps(b, c, s, ls, d)
    BY <2>1, <2>3, RequestAsked
  <2> HIDE DEF b
  <2>5. status \in Statuses \ Starting
    <3>1. "preparing" \in Statuses \ Starting
      BY DEF Statuses, Starting
    <3>2. QED
      BY <1>1, <3>1
  <2> HIDE DEF status
  <2>6. Keeps(SetStatus(b, s, status), b, s, ls, d)
    BY <2>4, <2>5, StatusKeeps DEF Keeps
  <2>7. SendNext(c, s) = SetStatus(b, s, status)
    BY <1>6 DEF SendNext, r, b, status
  <2>8. QED
    BY <2>4, <2>6, <2>7 DEF Keeps
<1>7. QED
  BY <1>3, <1>4, <1>5, <1>6

\* PreparedKeeps: the response to track_prepare; the preparation accounts for
\* the first render.
LEMMA PreparedKeeps ==
  ASSUME NEW c, NEW s \in SceneType, NEW ls \in Seq(LineType), NEW d \in Nat,
         serving \in ServingType, Coherent(c, s, ls, d), c.track.id # None,
         ~c.track.prepared, NoUpload(c.track, c.inbox, ls, serving), Fed(c.track, serving)
  PROVE  Keeps(TrackPrepared(c, s), c, s, ls, d)
<1> DEFINE u == [c.track EXCEPT !.left = c.track.left, !.prepared = TRUE]
           prepared == [c EXCEPT !.track = u]
           scanned == [prepared EXCEPT !.invalidated = FALSE]
<1>1. /\ c \in SessionType /\ c.track \in TrackType /\ c.track.left \in Nat
      /\ Fits(c.track, c.inbox, c.operations, ls, serving) /\ BakesTrack(c)
  BY Parts DEF TrackType
<1>2. [c EXCEPT !.track.prepared = TRUE] = prepared
  BY <1>1, ZenonT(40) DEF SessionType, TrackType
<1>3. Fits(u, c.inbox, c.operations, ls, serving)
  BY <1>1, FitsUploaded
<1>4. /\ u \in TrackType /\ u.id = c.track.id /\ u.source = c.track.source
      /\ u.prepared /\ u.restart = c.track.restart
      /\ u.revision = c.track.revision
  BY <1>1 DEF TrackType
<1> HIDE DEF u
<1>5. /\ Keeps(prepared, c, s, ls, d) /\ Affords(prepared, d)
      /\ prepared.bake = c.bake
  BY <1>1, <1>3, <1>4, ShownCoherent
<1> HIDE DEF prepared
<1>6. Keeps(scanned, prepared, s, ls, d) /\ Affords(scanned, d)
  BY <1>5, InvalidatedKeeps DEF Keeps
<1> HIDE DEF scanned
<1>7. "error" \in Errors /\ (c.bake.on => c.bake.timeline \in Timelines)
  BY <1>1 DEF Errors, BakesTrack
<1>8. Keeps(FailBake(prepared, s, "error"), prepared, s, ls, d)
  BY <1>5, <1>7, FailBakeKeeps DEF Keeps
<1>9. c.bake.on => Keeps(RequestRender(prepared, s, c.bake.timeline), prepared, s, ls, d)
  BY <1>5, <1>7, RequestKeeps DEF Keeps
<1>10. Keeps(Invalidate(prepared, s), prepared, s, ls, d)
  BY <1>5, InvalidateKeeps DEF Keeps
<1>11. Keeps(TryRender(scanned, s, Evaluated(s)), scanned, s, ls, d)
  BY <1>6, EvaluatedIsTimeline, TryKeeps DEF Keeps
<1>12. \/ TrackPrepared(c, s) \in
            {FailBake(prepared, s, "error"), Invalidate(prepared, s),
             TryRender(scanned, s, Evaluated(s))}
       \/ c.bake.on /\ TrackPrepared(c, s) = RequestRender(prepared, s, c.bake.timeline)
  BY <1>2 DEF TrackPrepared, scanned
<1>13. QED
  BY <1>5, <1>6, <1>8, <1>9, <1>10, <1>11, <1>12 DEF Keeps

\* A step bakes nothing, or what the running bake asked for.
Bakes(a, c, s, ls, d) ==
  /\ Coherent(a, s, ls, d)
  /\ a.baked = c.baked \/ (c.bake.on /\ Baked(a, c, c.bake))

\* A track whose render is published.
PublishedTrack(t, failed) ==
  [t EXCEPT !.cache = t.stage.rows, !.stage = NoStage,
            !.published = t.rendering, !.failed = failed]

\* PublishedCoherent: what is published is what was rendered.
LEMMA PublishedCoherent ==
  ASSUME NEW c, NEW s, NEW ls, NEW d \in Nat, Coherent(c, s, ls, d),
         c.track.id # None, c.track.stage.count = Batches,
         NEW failed \in BOOLEAN
  PROVE  LET b == [c EXCEPT !.track = PublishedTrack(c.track, failed)] IN
         Keeps(b, c, s, ls, d) /\ b.bake = c.bake /\ b.track.id # None
<1> DEFINE u == PublishedTrack(c.track, failed)
<1>1. /\ c \in SessionType /\ c.track \in TrackType
      /\ Fits(c.track, c.inbox, c.operations, ls, serving) /\ Whole(c.track)
      /\ NoStage \in StageType
  BY Parts, Blanks DEF Fits
<1>2. NoStage.count = 0 /\ NoStage.rows = {} /\ Batches # 0
  BY DEF NoStage
<1>3. c.track.revision # None /\ c.track.rendering \in Timelines
  BY <1>1, <1>2 DEF Whole
<1>4. /\ u \in TrackType /\ u.id = c.track.id /\ u.source = c.track.source
      /\ u.left = c.track.left /\ u.prepared = c.track.prepared
      /\ u.revision = c.track.revision /\ u.rendering = c.track.rendering
      /\ u.restart = c.track.restart /\ u.stage = NoStage
      /\ u.published = c.track.rendering /\ u.cache = c.track.stage.rows
  BY <1>1 DEF PublishedTrack, TrackType, StageType
<1> HIDE DEF u
<1>5. Whole(u)
  <2>1. RowsOf(u, u.published) = RowsOf(c.track, c.track.rendering)
    BY <1>4 DEF RowsOf
  <2>2. u.cache = RowsOf(c.track, c.track.rendering)
    BY <1>1, <1>2, <1>4 DEF Whole
  <2>3. u.published # NoTimeline
    BY <1>3, <1>4, NoTimelineIsNone
  <2>4. QED
    BY <1>1, <1>2, <1>3, <1>4, <2>1, <2>2, <2>3 DEF Whole
<1>6. Fits(u, c.inbox, c.operations, ls, serving)
  BY <1>1, <1>4, <1>5, FitsShown
<1>7. /\ Keeps([c EXCEPT !.track = u], c, s, ls, d)
      /\ [c EXCEPT !.track = u].track = u
      /\ [c EXCEPT !.track = u].bake = c.bake
  BY <1>4, <1>6, ShownCoherent
<1>8. QED
  BY <1>4, <1>7 DEF u

\* PublishKeeps: the complete revision is published, and shown or baked.
LEMMA PublishKeeps ==
  ASSUME NEW c, NEW s \in SceneType, NEW ls \in Seq(LineType), NEW d \in Nat,
         serving \in ServingType, Coherent(c, s, ls, d),
         c.track.id # None, c.track.stage.count = Batches
  PROVE  Bakes(Publish(c, s), c, s, ls, d)
<1> DEFINE u == PublishedTrack(c.track, FALSE)
           b == [c EXCEPT !.track = u]
           e == SetStatus(b, s, "ready")
<1>1. c \in SessionType /\ c.track \in TrackType /\ "ready" \in Statuses \ Starting
  BY Parts DEF Statuses, Starting
<1>2. [c EXCEPT !.track.cache = c.track.stage.rows, !.track.stage = NoStage,
          !.track.published = PublishRendering(c), !.track.failed = FALSE] = b
  BY <1>1 DEF SessionType, TrackType, PublishRendering, PublishedTrack
<1>3. Keeps(b, c, s, ls, d) /\ b.bake = c.bake
  BY PublishedCoherent
<1> HIDE DEF b
<1>4. Keeps(e, b, s, ls, d)
  BY <1>1, <1>3, StatusKeeps DEF Keeps
<1> HIDE DEF e
<1>5. /\ Keeps(RequestFrame(b, s), b, s, ls, d)
      /\ Keeps(RequestFrame(e, s), e, s, ls, d)
  BY <1>3, <1>4, FrameKeeps DEF Keeps
<1>6. c.bake.on => /\ Coherent(FinishBake(b, s), s, ls, d)
                   /\ Baked(FinishBake(b, s), b, c.bake)
  BY <1>3, FinishKeeps DEF Keeps
<1>7. \/ c.bake.on /\ Publish(c, s) = FinishBake(b, s)
      \/ Publish(c, s) \in {RequestFrame(b, s), RequestFrame(e, s)}
  BY <1>2 DEF Publish, e
<1>8. QED
  BY <1>3, <1>4, <1>5, <1>6, <1>7 DEF Keeps, Bakes, Baked

\* RenderedKeeps: the response to track_render.
LEMMA RenderedKeeps ==
  ASSUME NEW c, NEW s \in SceneType, NEW ls \in Seq(LineType), NEW d \in Nat,
         serving \in ServingType, Coherent(c, s, ls, d), c.track.id # None,
         NEW x
  PROVE  Bakes(TrackRendered(c, s, x), c, s, ls, d)
<1> DEFINE b == [c EXCEPT !.track.stage = NoStage]
           e == [c EXCEPT !.track.failed = c.track.failed, !.track.stage = NoStage]
<1>1. Keeps(c, c, s, ls, d) /\ Keeps(Reject(c, s), c, s, ls, d)
  BY RejectKeeps DEF Keeps
<1>2. b = e /\ c.track.failed \in BOOLEAN
  BY Parts DEF SessionType, TrackType
<1>3. Keeps(e, c, s, ls, d)
  BY <1>2, FailedKeeps
<1> HIDE DEF b, e
<1>4. c.track.stage.count = Batches => Bakes(Publish(c, s), c, s, ls, d)
  BY PublishKeeps
<1>5. \/ TrackRendered(c, s, x) \in {c, Reject(c, s), b}
      \/ c.track.stage.count = Batches /\ TrackRendered(c, s, x) = Publish(c, s)
  BY DEF TrackRendered, b
<1>6. \A a \in {c, Reject(c, s), b} : Keeps(a, c, s, ls, d)
  BY <1>1, <1>2, <1>3
<1>7. CASE TrackRendered(c, s, x) \in {c, Reject(c, s), b}
  <2>1. Keeps(TrackRendered(c, s, x), c, s, ls, d)
    BY <1>6, <1>7
  <2>2. QED
    BY <2>1 DEF Keeps, Bakes, Baked
<1>8. QED
  BY <1>4, <1>5, <1>7

\* LoadedKeeps: the response to load_model; the handshake accounts for the
\* track it starts.
LEMMA LoadedKeeps ==
  ASSUME NEW c, NEW s \in SceneType, NEW ls \in Seq(LineType), NEW d \in Nat,
         serving \in ServingType, Coherent(c, s, ls, d), s.available,
         NEW a, a \in {[c EXCEPT !.phase = "loaded"],
           EnsureTrack(SetStatus([c EXCEPT !.phase = "loaded"], s, "ready"), s)},
         c.status # "loading" => a = [c EXCEPT !.phase = "loaded"]
  PROVE  Keeps(a, c, s, ls, d)
<1> DEFINE loaded == [c EXCEPT !.phase = "loaded"]
           e == SetStatus(loaded, s, "ready")
<1>1. c \in SessionType /\ "ready" \in Statuses \ Starting
  BY Parts DEF Statuses, Starting
<1>2. Milder(loaded, c, s)
  BY <1>1 DEF Milder, SessionType
<1>3. loaded.observed = c.observed /\ loaded.status = c.status
  BY <1>1 DEF SessionType
<1> HIDE DEF loaded
<1>4. Milder(e, loaded, s) /\ e.observed = loaded.observed
  BY <1>1, <1>2, MilderMethods, ZenonT(40) DEF Milder
<1>5. e.status = "ready"
  BY <1>2 DEF SetStatus, Milder, SessionType
<1> HIDE DEF e
<1>6. Milder(e, c, s)
  BY <1>2, <1>4, MilderTwice
<1>7. Keeps(loaded, c, s, ls, d) /\ Keeps(e, c, s, ls, d)
  BY <1>2, <1>6, MilderKeeps
<1>8. c.status = "loading" => Owed(e, s, d)
  <2>1. ASSUME c.status = "loading", CanRequest(e), e.observed = s.source
        PROVE  e.operations + Flag(e.track.restart)
                 + Flag(e.observed # s.source \/ e.status \in Starting) < d
    <3>1. /\ CanRequest(c) /\ e.operations = c.operations
          /\ e.track = c.track /\ c.operations \in Nat
      BY <1>6, <2>1, Parts DEF Milder, CanRequest
    <3>2. Flag(c.observed # s.source \/ c.status \in Starting) = 1
      BY <2>1 DEF Flag, Starting
    <3>3. Flag(e.observed # s.source \/ e.status \in Starting) = 0
      BY <1>5, <2>1 DEF Flag, Starting
    <3>4. c.operations + Flag(c.track.restart) + 1 <= d /\ Flag(c.track.restart) \in {0, 1}
      BY <3>1, <3>2, Parts DEF Caused, Accounted, Flag
    <3>5. QED
      BY <3>1, <3>3, <3>4
  <2>2. QED
    BY <2>1 DEF Owed, Spare
<1>9. c.status = "loading" => Keeps(EnsureTrack(e, s), e, s, ls, d)
  BY <1>7, <1>8, EnsureKeeps DEF Keeps
<1>10. QED
  BY <1>7, <1>9 DEF Keeps, loaded, e

\* GreetedKeeps: the response to hello, which asks for the model.
LEMMA GreetedKeeps ==
  ASSUME NEW c, NEW s \in SceneType, NEW ls, NEW d \in Nat, Coherent(c, s, ls, d),
         s.available
  PROVE  Keeps(SetStatus(Submit([c EXCEPT !.phase = "negotiated"],
                                [NoRequest EXCEPT !.method = "load_model"]), s,
                         IF c.status = "starting" THEN "loading" ELSE c.status),
               c, s, ls, d)
<1> DEFINE b == [c EXCEPT !.phase = "negotiated"]
           r == [NoRequest EXCEPT !.method = "load_model"]
           e == Submit(b, r)
           status == IF c.status = "starting" THEN "loading" ELSE c.status
           a == SetStatus(e, s, status)
<1>1. c \in SessionType /\ c.operations \in Nat
  BY Parts
<1>2. Milder(b, c, s) /\ b.operations = c.operations /\ b.status = c.status
  BY <1>1 DEF Milder, SessionType
<1> HIDE DEF b
<1>3. Keeps(b, c, s, ls, d)
  BY <1>2, MilderKeeps
<1>4. /\ r \in RequestType /\ r.operation = 0
      /\ r.method \notin Uploads \cup {"track_render"}
  BY Blanks DEF RequestType, NoRequest, Methods, None, Uploads
<1> HIDE DEF r
<1>5. Coherent(e, s, ls, d) /\ e = [b EXCEPT !.inbox = Append(b.inbox, r)]
  BY <1>1, <1>2, <1>3, <1>4, OtherRequests DEF Keeps
<1> HIDE DEF e
<1>6. e \in SessionType /\ e.status = c.status /\ e.baked = b.baked
  BY <1>2, <1>5, Parts DEF SessionType, Milder
<1>7. status \in Statuses /\ (status \in Starting => e.status \in Starting)
  BY <1>1, <1>6 DEF SessionType, Statuses, Starting
<1> HIDE DEF status
<1>8. Milder(a, e, s)
  BY <1>6, <1>7 DEF Milder, SetStatus, SessionType
<1> HIDE DEF a
<1>9. Keeps(a, e, s, ls, d)
  BY <1>5, <1>8, MilderKeeps
<1>10. Keeps(a, c, s, ls, d)
  BY <1>3, <1>6, <1>9 DEF Keeps
<1>11. QED
  BY <1>10 DEF a, e, b, r, status

\* KeepsBakes: a step that bakes nothing.
LEMMA KeepsBakes ==
  ASSUME NEW a, NEW c, NEW s, NEW ls, NEW d, Keeps(a, c, s, ls, d)
  PROVE  Bakes(a, c, s, ls, d)
BY DEF Keeps, Bakes, Baked

\* ResponseKeeps: _handle_response.
LEMMA ResponseKeeps ==
  ASSUME NEW c, NEW s \in SceneType, NEW ls \in Seq(LineType), NEW d \in Nat,
         serving \in ServingType, Coherent(c, s, ls, d), NEW x, Told(c, x, ls),
         x.type = "reply", x.code \in {"ok", "superseded"}
  PROVE  Bakes(Response(c, s, x), c, s, ls, d)
<1> DEFINE e == [c EXCEPT !.expected = TRUE]
           greeted == SetStatus(Submit([c EXCEPT !.phase = "negotiated"],
                                [NoRequest EXCEPT !.method = "load_model"]), s,
                         IF c.status = "starting" THEN "loading" ELSE c.status)
           loaded == [c EXCEPT !.phase = "loaded"]
           ensured == EnsureTrack(SetStatus(loaded, s, "ready"), s)
           upload == {"track_start", "track_chunk"}
<1>1. /\ c \in SessionType /\ c.track \in TrackType
      /\ Fits(c.track, c.inbox, c.operations, ls, serving) /\ BakesTrack(c) /\ Paced(c, d)
      /\ x \in LineType /\ Tells(c.track, c.operations, x, serving)
  BY Parts DEF Told, Caused
<1>2. Keeps(c, c, s, ls, d) /\ Keeps(Reject(c, s), c, s, ls, d)
  BY RejectKeeps DEF Keeps
<1>3. Keeps(BeginShutdown(e), c, s, ls, d)
  <2>1. /\ e \in SessionType /\ e.track = c.track /\ e.bake = c.bake
        /\ e.inbox = c.inbox /\ e.operations = c.operations
        /\ e.invalidated = c.invalidated /\ e.baked = c.baked
        /\ e.status = c.status
    BY <1>1 DEF SessionType
  <2> HIDE DEF e
  <2>2. BakesTrack(e) /\ Paced(e, d)
    BY <1>1, <2>1 DEF BakesTrack, Paced
  <2>3. Coherent(BeginShutdown(e), s, ls, d) /\ BeginShutdown(e).baked = e.baked
    BY <1>1, <2>1, <2>2, ShutdownCoherent
  <2>4. QED
    BY <2>1, <2>3 DEF Keeps
<1>4. s.available => Keeps(greeted, c, s, ls, d)
  BY GreetedKeeps
<1>5. s.available =>
        /\ Keeps(loaded, c, s, ls, d)
        /\ c.status = "loading" => Keeps(ensured, c, s, ls, d)
  BY LoadedKeeps
<1> HIDE DEF e, greeted, loaded, ensured
<1>6. ASSUME c.track.id = x.operation, x.method \in Uploads
      PROVE  /\ c.track.id # None /\ ~c.track.prepared
             /\ NoUpload(c.track, c.inbox, ls, serving)
             /\ x.method = "track_start" => c.track.left > 0
             /\ x.method # "track_start" => Fed(c.track, serving)
  <2>1. Upload(c.track, x)
    BY <1>1, <1>6 DEF Tells, Upload, Mine
  <2>2. QED
    BY <1>1, <2>1 DEF Told, Tells, Upload, Mine
<1>7. ASSUME c.track.id = x.operation, x.method \in upload
      PROVE  Keeps(SendNext(c, s), c, s, ls, d)
  <2>1. x.method \in Uploads
    BY <1>7 DEF Uploads
  <2>2. c.track.left = 0 => Fed(c.track, serving)
    BY <1>6, <1>7, <2>1
  <2>3. QED
    BY <1>6, <1>7, <2>1, <2>2, SendKeeps
<1>8. ASSUME c.track.id = x.operation, x.method = "track_prepare"
      PROVE  Keeps(TrackPrepared(c, s), c, s, ls, d)
  BY <1>6, <1>8, PreparedKeeps DEF Uploads
<1>9. ASSUME c.track.id = x.operation, x.method = "track_render"
      PROVE  Bakes(TrackRendered(c, s, x), c, s, ls, d)
  <2>1. c.track.id # None
    BY <1>1, <1>9 DEF Tells
  <2>2. QED
    BY <2>1, RenderedKeeps
<1>10. x.method \in upload \cup {"hello", "load_model", "cancel", "shutdown",
                      "track_prepare", "track_render"}
  BY <1>1 DEF LineType, Methods
<1>11. \/ Response(c, s, x) \in {c, Reject(c, s), BeginShutdown(e)}
       \/ s.available /\ Response(c, s, x) \in {greeted, loaded}
       \/ s.available /\ c.status = "loading" /\ Response(c, s, x) = ensured
       \/ /\ c.track.id = x.operation /\ x.method \in upload
          /\ Response(c, s, x) = SendNext(c, s)
       \/ /\ c.track.id = x.operation /\ x.method = "track_prepare"
          /\ Response(c, s, x) = TrackPrepared(c, s)
       \/ /\ c.track.id = x.operation /\ x.method = "track_render"
          /\ Response(c, s, x) = TrackRendered(c, s, x)
  BY <1>10 DEF Response, e, greeted, loaded, ensured
<1>12. Keeps(Response(c, s, x), c, s, ls, d) \/ Bakes(Response(c, s, x), c, s, ls, d)
  BY <1>2, <1>3, <1>4, <1>5, <1>7, <1>8, <1>9, <1>11
<1>13. QED
  BY <1>12, KeepsBakes

\* EndedKeeps: the track and its bake are gone.
LEMMA EndedKeeps ==
  ASSUME NEW c, NEW s \in SceneType, NEW ls, NEW d \in Nat, Coherent(c, s, ls, d)
  PROVE  Keeps(ReleaseTrack(ReleaseBake(c)), c, s, ls, d)
<1> DEFINE b == ReleaseBake(c)
<1>1. Keeps(b, c, s, ls, d) /\ b.bake = NoBake
  BY BakeReleased
<1> HIDE DEF b
<1>2. Keeps(ReleaseTrack(b), b, s, ls, d)
  BY <1>1, ReleaseKeeps DEF Keeps
<1>3. QED
  BY <1>1, <1>2 DEF Keeps, b

\* RefusalKeeps: _handle_error.
LEMMA RefusalKeeps ==
  ASSUME NEW c, NEW s \in SceneType, NEW ls \in Seq(LineType), NEW d \in Nat,
         serving \in ServingType, Coherent(c, s, ls, d), NEW x
  PROVE  Keeps(Refusal(c, s, x), c, s, ls, d)
<1> DEFINE released == ReleaseTrack(ReleaseBake(c))
           n == [c EXCEPT !.track.stage = NoStage, !.track.failed = TRUE]
           f == [c EXCEPT !.track.failed = TRUE, !.track.stage = NoStage]
<1>1. /\ "error" \in Errors /\ "error render" \in Errors
      /\ "error" \in Statuses \ Starting
  BY DEF Errors, Statuses, Starting
<1>2. Keeps(c, c, s, ls, d) /\ Keeps(SetStatus(c, s, "error"), c, s, ls, d)
  BY <1>1, StatusKeeps, ZenonT(40) DEF Keeps
<1>3. Keeps(released, c, s, ls, d)
  BY EndedKeeps
<1> HIDE DEF released
<1>4. Keeps(Reject(released, s), released, s, ls, d)
  BY <1>3, RejectKeeps DEF Keeps
<1>5. c.track.id # None =>
        Keeps(n, c, s, ls, d) /\ n.track.id # None
  <2>1. n = f
    BY Parts DEF SessionType, TrackType
  <2>2. c.track.id # None => Keeps(f, c, s, ls, d) /\ f.track.id = c.track.id
    BY FailedKeeps
  <2> HIDE DEF n, f
  <2>3. QED
    BY <2>1, <2>2
<1> HIDE DEF n
<1>6. c.track.id # None =>
        /\ Keeps(FailTrack(c, s, "error"), c, s, ls, d)
        /\ Keeps(FailBake(n, s, "error render"), n, s, ls, d)
        /\ Keeps(RenderFailed(n, s), n, s, ls, d)
  <2>1. c.track.id # None => Keeps(FailTrack(c, s, "error"), c, s, ls, d)
    BY <1>1, FailKeeps
  <2>2. c.track.id # None => Coherent(n, s, ls, d)
    BY <1>5 DEF Keeps
  <2>3. c.track.id # None => Keeps(FailBake(n, s, "error render"), n, s, ls, d)
    BY <1>1, <2>2, FailBakeKeeps
  <2>4. c.track.id # None => Keeps(RenderFailed(n, s), n, s, ls, d)
    BY <1>5, <2>2, RenderFailedKeeps
  <2>5. QED
    BY <2>1, <2>3, <2>4
<1>7. \/ Refusal(c, s, x) \in {c, SetStatus(c, s, "error"), Reject(released, s)}
      \/ /\ c.track.id # None
         /\ Refusal(c, s, x) \in {n, FailTrack(c, s, "error"),
              FailBake(n, s, "error render"), RenderFailed(n, s)}
  BY DEF Refusal, released, n
<1>8. /\ Keeps(Reject(released, s), c, s, ls, d)
      /\ c.track.id # None =>
           /\ Keeps(FailBake(n, s, "error render"), c, s, ls, d)
           /\ Keeps(RenderFailed(n, s), c, s, ls, d)
  BY <1>3, <1>4, <1>5, <1>6 DEF Keeps
<1>9. QED
  BY <1>2, <1>5, <1>6, <1>7, <1>8

\* BatchKeeps: a frame batch of the render that is wanted.
LEMMA BatchKeeps ==
  ASSUME NEW c, NEW s \in SceneType, NEW ls \in Seq(LineType), NEW d \in Nat,
         Coherent(c, s, ls, d), NEW x, Told(c, x, ls), x.type \in Events,
         c.track.id = x.operation
  PROVE  Keeps(FrameBatch(c, s, x), c, s, ls, d)
<1> DEFINE t == c.track
           stage == [t.stage EXCEPT !.count = t.stage.count + 1,
                                    !.rows = t.stage.rows \cup x.rows]
           u == [t EXCEPT !.stage = stage]
           b == [c EXCEPT !.track.stage.count = @ + 1,
                          !.track.stage.rows = @ \cup x.rows]
<1>1. /\ c \in SessionType /\ t \in TrackType /\ t.stage \in StageType
      /\ Fits(t, c.inbox, c.operations, ls, serving) /\ Whole(t) /\ t.id # None
      /\ Tells(t, c.operations, x, serving)
  BY Parts DEF Told, TrackType, Tells, Fits
<1>2. Keeps(c, c, s, ls, d) /\ Keeps(Reject(c, s), c, s, ls, d)
  BY RejectKeeps DEF Keeps
<1>3. ASSUME x.revision = t.revision, t.stage.revision = x.revision
      PROVE  Keeps(b, c, s, ls, d)
  <2>1. b = [c EXCEPT !.track = u]
    <3> DEFINE g == [t.stage EXCEPT !.count = t.stage.count + 1]
               v == [t EXCEPT !.stage = g]
               e == [c EXCEPT !.track = v]
    <3>1. [c EXCEPT !.track.stage.count = @ + 1] = e
      BY <1>1 DEF SessionType, TrackType
    <3>2. g.rows = t.stage.rows
      BY <1>1 DEF StageType
    <3>3. b = [e EXCEPT !.track.stage.rows = @ \cup x.rows]
      BY <3>1
    <3> HIDE DEF g
    <3>4. v.stage = g
      BY <1>1 DEF TrackType
    <3> HIDE DEF v
    <3>5. e.track = v /\ e.track.stage.rows = t.stage.rows
      BY <1>1, <3>2, <3>4 DEF SessionType
    <3> HIDE DEF e, b
    <3>6. b = [e EXCEPT !.track = [v EXCEPT !.stage = [g EXCEPT !.rows = t.stage.rows \cup x.rows]]]
      BY <3>3, <3>4, <3>5
    <3>7. [v EXCEPT !.stage = [g EXCEPT !.rows = t.stage.rows \cup x.rows]] = u
      BY DEF v, g
    <3>8. b = [e EXCEPT !.track = u]
      BY <3>6, <3>7
    <3>9. QED
      BY <3>8 DEF e
  <2>2. /\ x.rows = RowsOf(t, t.rendering) /\ t.revision # None
        /\ t.rendering \in Timelines /\ t.source \in Sources
    BY <1>1, <1>3 DEF Tells, Mine, Whole, None
  <2>3. x.rows \in SUBSET Rows
    BY <2>2 DEF RowsOf, Rows
  <2>4. /\ stage \in StageType /\ stage.revision = t.revision
        /\ stage.count # 0 /\ stage.rows = RowsOf(t, t.rendering)
    <3>1. /\ stage \in StageType /\ stage.revision = t.stage.revision
          /\ stage.count = t.stage.count + 1
          /\ stage.rows = t.stage.rows \cup x.rows
          /\ t.stage.count \in Nat
      <4> DEFINE k == t.stage.count + 1
                 y == t.stage.rows \cup x.rows
      <4>1. t.stage.count \in Nat /\ t.stage.rows \in SUBSET Rows
        BY <1>1 DEF StageType
      <4>2. k \in Nat /\ y \in SUBSET Rows
        BY <2>3, <4>1
      <4> HIDE DEF k, y
      <4>3. stage = [t.stage EXCEPT !.count = k, !.rows = y]
        BY DEF k, y
      <4> HIDE DEF stage
      <4>4. stage \in StageType /\ stage.revision = t.stage.revision
            /\ stage.count = k /\ stage.rows = y
        BY <1>1, <4>2, <4>3 DEF StageType
      <4>5. QED
        BY <4>1, <4>4 DEF k, y
    <3>2. t.stage.rows = {} \/ t.stage.rows = RowsOf(t, t.rendering)
      BY <1>1 DEF Whole
    <3>3. stage.count # 0
      BY <3>1
    <3> HIDE DEF stage
    <3>4. QED
      BY <1>3, <2>2, <3>1, <3>2, <3>3
  <2> HIDE DEF stage
  <2>5. /\ u \in TrackType /\ u.id = t.id /\ u.source = t.source
        /\ u.left = t.left /\ u.prepared = t.prepared
        /\ u.revision = t.revision /\ u.rendering = t.rendering
        /\ u.restart = t.restart /\ u.stage = stage
        /\ u.published = t.published /\ u.cache = t.cache
    BY <1>1, <2>4 DEF TrackType
  <2> HIDE DEF u, b
  <2>6. Whole(u)
    <3>1. \A timeline : RowsOf(u, timeline) = RowsOf(t, timeline)
      BY <2>5 DEF RowsOf
    <3>2. QED
      BY <1>1, <2>2, <2>4, <2>5, <3>1 DEF Whole
  <2>7. Fits(u, c.inbox, c.operations, ls, serving)
    BY <1>1, <2>5, <2>6, FitsShown
  <2>8. Keeps([c EXCEPT !.track = u], c, s, ls, d)
    BY <1>1, <2>5, <2>7, ShownCoherent
  <2>9. QED
    BY <2>1, <2>8
<1> HIDE DEF b
<1>4. \/ FrameBatch(c, s, x) \in {c, Reject(c, s)}
      \/ /\ x.revision = t.revision /\ t.stage.revision = x.revision
         /\ FrameBatch(c, s, x) = b
  BY DEF FrameBatch, Wanted, b
<1>5. QED
  BY <1>2, <1>3, <1>4

\* PreviewKeeps: a preview of the render that is wanted.
LEMMA PreviewKeeps ==
  ASSUME NEW c, NEW s \in SceneType, NEW ls, NEW d \in Nat,
         Coherent(c, s, ls, d), NEW x, Told(c, x, ls), x.type \in Events,
         c.track.id = x.operation
  PROVE  Keeps(Preview(c, s, x), c, s, ls, d)
<1> DEFINE b == [c EXCEPT !.mesh = [frame |-> s.frame, rows |-> x.rows]]
<1>1. /\ c \in SessionType /\ Whole(c.track) /\ c.track.id # None
      /\ Tells(c.track, c.operations, x, serving)
  BY Parts DEF Told, Tells, Fits
<1>2. ASSUME x.revision = c.track.revision
      PROVE  Keeps(b, c, s, ls, d)
  <2>1. /\ x.rows = RowsOf(c.track, c.track.rendering)
        /\ c.track.rendering \in Timelines /\ c.track.source \in Sources
    BY <1>1, <1>2 DEF Tells, Mine, Whole, None
  <2>2. x.rows \in SUBSET Rows /\ s.frame \in AnyFrame
    BY <2>1 DEF RowsOf, Rows, SceneType
  <2>3. Milder(b, c, s)
    BY <1>1, <2>2 DEF Milder, SessionType
  <2>4. QED
    BY <2>3, MilderKeeps
<1>3. Keeps(c, c, s, ls, d)
  BY DEF Keeps
<1>4. \/ Preview(c, s, x) = c
      \/ x.revision = c.track.revision /\ Preview(c, s, x) = b
  BY DEF Preview, Wanted
<1>5. QED
  BY <1>2, <1>3, <1>4

\* EventKeeps: _handle_event and _handle_track_event.
LEMMA EventKeeps ==
  ASSUME NEW c, NEW s \in SceneType, NEW ls \in Seq(LineType), NEW d \in Nat,
         serving \in ServingType, Coherent(c, s, ls, d), NEW x, Told(c, x, ls)
  PROVE  Keeps(TrackEvent(c, s, x), c, s, ls, d)
<1> DEFINE released == ReleaseTrack(ReleaseBake(c))
<1>1. Keeps(c, c, s, ls, d) /\ Keeps(Reject(c, s), c, s, ls, d)
      /\ Keeps(released, c, s, ls, d) /\ Keeps(CancelCompleted(c, s), c, s, ls, d)
  BY RejectKeeps, EndedKeeps, CancelCompletedKeeps DEF Keeps
<1> HIDE DEF released
<1>2. Keeps(SetStatus(released, s, "error"), c, s, ls, d)
  <2>1. "error" \in Statuses \ Starting
    BY DEF Statuses, Errors, Starting
  <2>2. Keeps(SetStatus(released, s, "error"), released, s, ls, d)
    BY <1>1, <2>1, StatusKeeps DEF Keeps
  <2>3. QED
    BY <1>1, <2>2 DEF Keeps
<1>3. c.track.id = x.operation /\ x.type \in Events =>
        /\ Keeps(Preview(c, s, x), c, s, ls, d)
        /\ Keeps(FrameBatch(c, s, x), c, s, ls, d)
  BY PreviewKeeps, BatchKeeps
<1>4. \/ TrackEvent(c, s, x) \in {c, Reject(c, s), released, CancelCompleted(c, s),
                                  SetStatus(released, s, "error")}
      \/ /\ c.track.id = x.operation /\ x.type \in Events
         /\ TrackEvent(c, s, x) \in {Preview(c, s, x), FrameBatch(c, s, x)}
  BY DEF TrackEvent, Events, released
<1>5. QED
  BY <1>1, <1>2, <1>3, <1>4

\* ExitedKeeps: ProcessExited.
LEMMA ExitedKeeps ==
  ASSUME NEW c, NEW s \in SceneType, NEW ls, NEW d \in Nat, Coherent(c, s, ls, d),
         process # "up", NEW x
  PROVE  Keeps(Exited(c, s, x), c, s, ls, d)
<1> DEFINE b == [ReleaseBake(ReleaseTrack(ForgetModel(c))) EXCEPT
                   !.phase = "none", !.expected = FALSE]
<1>1. /\ c \in SessionType /\ NoTrack \in TrackType /\ NoBake \in BakeType
      /\ "idle" \in Statuses \ Starting /\ "error" \in Statuses \ Starting
  BY Parts, Blanks DEF Statuses, Errors, Starting
<1>2. /\ b \in SessionType /\ b.track = NoTrack /\ b.bake = NoBake
      /\ b.inbox = c.inbox /\ b.operations = c.operations
      /\ b.client = c.client /\ ~b.invalidated /\ b.baked = c.baked
  BY <1>1, ZenonT(40) DEF ReleaseBake, ReleaseTrack, ForgetModel, SessionType
<1> HIDE DEF b
<1>3. Coherent(b, s, ls, d)
  BY <1>2, EmptiedCoherent DEF CanRequest
<1>4. /\ Keeps(SetStatus(b, s, "idle"), b, s, ls, d)
      /\ Keeps(SetStatus(b, s, "error"), b, s, ls, d)
  BY <1>1, <1>3, StatusKeeps
<1>5. Exited(c, s, x) \in {b, SetStatus(b, s, "idle"), SetStatus(b, s, "error")}
  BY DEF Exited, b
<1>6. QED
  BY <1>2, <1>3, <1>4, <1>5 DEF Keeps

\* HandleKeeps: poll, one line of the batch.
LEMMA HandleKeeps ==
  ASSUME NEW c, NEW s \in SceneType, NEW ls \in Seq(LineType), NEW d \in Nat,
         serving \in ServingType, Coherent(c, s, ls, d), NEW x, Told(c, x, ls),
         x.type = "exited" => process # "up"
  PROVE  Bakes(Handle(c, s, x), c, s, ls, d)
<1>1. Keeps(c, c, s, ls, d) /\ Keeps(TrackEvent(c, s, x), c, s, ls, d)
      /\ Keeps(Refusal(c, s, x), c, s, ls, d)
  BY EventKeeps, RefusalKeeps DEF Keeps
<1>2. x.type = "exited" => Keeps(Exited(c, s, x), c, s, ls, d)
  BY ExitedKeeps
<1>3. x.type = "reply" /\ x.code \in {"ok", "superseded"} =>
        Bakes(Response(c, s, x), c, s, ls, d)
  BY ResponseKeeps
<1>4. \/ Handle(c, s, x) \in {c, TrackEvent(c, s, x), Refusal(c, s, x)}
      \/ x.type = "exited" /\ Handle(c, s, x) = Exited(c, s, x)
      \/ /\ x.type = "reply" /\ x.code \in {"ok", "superseded"}
         /\ Handle(c, s, x) = Response(c, s, x)
  BY DEF Handle
<1>5. Keeps(Handle(c, s, x), c, s, ls, d) \/ Bakes(Handle(c, s, x), c, s, ls, d)
  BY <1>1, <1>2, <1>3, <1>4
<1>6. QED
  BY <1>5, KeepsBakes
-----------------------------------------------------------------------------
(* What the worker does to what is on its way. *)

\* FitsFewer: lines that were handled, or lost, leave the others.
LEMMA FitsFewer ==
  ASSUME NEW t, NEW q, NEW n, NEW ls, NEW v, Fits(t, q, n, ls, v),
         NEW few, NEW k \in Nat,
         \A i \in DOMAIN few :
           i \in Nat /\ i + k \in DOMAIN ls /\ few[i] = ls[i + k]
  PROVE  Fits(t, q, n, few, v)
<1>1. \A i \in DOMAIN few : Tells(t, n, few[i], v)
  BY DEF Fits
<1>2. OneUpload(t, q, few, v)
  <2>1. \A i, j \in DOMAIN few :
          Upload(t, few[i]) /\ Upload(t, few[j]) => i = j
    <3>1. ASSUME NEW i \in DOMAIN few, NEW j \in DOMAIN few,
                 Upload(t, few[i]), Upload(t, few[j])
          PROVE  i = j
      <4>1. i + k = j + k
        BY <3>1 DEF Fits, OneUpload
      <4>2. QED
        BY <4>1
    <3>2. QED
      BY <3>1
  <2>2. QED
    BY <2>1 DEF Fits, OneUpload
<1>3. QED
  BY <1>1, <1>2 DEF Fits

\* FitsHandled: the line at the head tells of the session.
LEMMA FitsHandled ==
  ASSUME NEW t, NEW q, NEW n, NEW ls \in Seq(LineType), NEW v,
         Fits(t, q, n, ls, v), ls # <<>>
  PROVE  /\ Fits(t, q, n, Tail(ls), v) /\ Tells(t, n, Head(ls), v)
         /\ Upload(t, Head(ls)) => NoUpload(t, q, Tail(ls), v)
<1> DEFINE few == Tail(ls)
<1>1. /\ Head(ls) = ls[1] /\ 1 \in DOMAIN ls
      /\ \A i \in DOMAIN few :
           few[i] = ls[i + 1] /\ i + 1 \in DOMAIN ls /\ i + 1 # 1 /\ i \in Nat
  BY Beheaded
<1> HIDE DEF few
<1>2. Fits(t, q, n, few, v)
  BY <1>1, FitsFewer
<1>3. Upload(t, ls[1]) => NoUpload(t, q, few, v)
  BY <1>1 DEF Fits, OneUpload, NoUpload
<1>4. QED
  BY <1>1, <1>2, <1>3 DEF Fits, few

\* FitsTold: the worker writes a line that tells of the session.
LEMMA FitsTold ==
  ASSUME NEW t, NEW q, NEW n, NEW ls \in Seq(LineType), NEW v,
         Fits(t, q, n, ls, v), NEW x \in LineType, Tells(t, n, x, v),
         Upload(t, x) => NoUpload(t, q, ls, v)
  PROVE  Fits(t, q, n, Append(ls, x), v)
<1> DEFINE more == Append(ls, x)
<1>1. \A i \in DOMAIN more :
        \/ i \in DOMAIN ls /\ more[i] = ls[i]
        \/ i \notin DOMAIN ls /\ i = Len(ls) + 1 /\ more[i] = x
  BY Appended
<1> HIDE DEF more
<1>2. \A i \in DOMAIN more : Tells(t, n, more[i], v)
  BY <1>1 DEF Fits
<1>3. OneUpload(t, q, more, v)
  BY <1>1 DEF Fits, OneUpload, NoUpload
<1>4. QED
  BY <1>2, <1>3 DEF Fits, more

\* FitsRead: the worker reads a request, which agrees with the session.
LEMMA FitsRead ==
  ASSUME NEW t, NEW q \in Seq(RequestType), NEW n, NEW ls, NEW v,
         Fits(t, q, n, ls, v), q # <<>>
  PROVE  /\ Fits(t, Tail(q), n, ls, v) /\ Agrees(t, n, Head(q), v)
         /\ Upload(t, Head(q)) => NoUpload(t, Tail(q), ls, v)
<1> DEFINE few == Tail(q)
<1>1. /\ Head(q) = q[1] /\ 1 \in DOMAIN q
      /\ \A i \in DOMAIN few :
           few[i] = q[i + 1] /\ i + 1 \in DOMAIN q /\ i + 1 # 1 /\ i \in Nat
  BY Beheaded
<1> HIDE DEF few
<1>2. \A i \in DOMAIN few : Agrees(t, n, few[i], v)
  BY <1>1 DEF Fits
<1>3. \A i, j \in DOMAIN few : Upload(t, few[i]) /\ Upload(t, few[j]) => i = j
  <2>1. ASSUME NEW i \in DOMAIN few, NEW j \in DOMAIN few,
               Upload(t, few[i]), Upload(t, few[j])
        PROVE  i = j
    <3>1. i + 1 = j + 1 /\ i \in Nat /\ j \in Nat
      BY <1>1, <2>1 DEF Fits, OneUpload
    <3>2. QED
      BY <3>1
  <2>2. QED
    BY <2>1
<1>4. OneUpload(t, few, ls, v)
  BY <1>1, <1>3 DEF Fits, OneUpload
<1>5. Upload(t, q[1]) => NoUpload(t, few, ls, v)
  BY <1>1 DEF Fits, OneUpload, NoUpload
<1>6. QED
  BY <1>1, <1>2, <1>4, <1>5 DEF Fits, few

\* FitsTaken: the operation thread takes a request, which agrees with the
\* session.
LEMMA FitsTaken ==
  ASSUME NEW t, NEW q, NEW n, NEW ls, NEW v \in ServingType,
         Fits(t, q, n, ls, v), v.queue # <<>>,
         NEW w, w.queue = Tail(v.queue), w.id = v.id, w.job = v.job,
         w.source = v.source
  PROVE  /\ Fits(t, q, n, ls, w) /\ Agrees(t, n, Head(v.queue), w)
         /\ Upload(t, Head(v.queue)) => NoUpload(t, q, ls, w)
         /\ Fed(t, w) <=> Fed(t, v)
<1> DEFINE few == Tail(v.queue)
           queue == v.queue
<1>1. /\ Head(queue) = queue[1] /\ 1 \in DOMAIN queue
      /\ \A i \in DOMAIN few :
           few[i] = queue[i + 1] /\ i + 1 \in DOMAIN queue /\ i + 1 # 1 /\ i \in Nat
  <2>1. queue \in Seq(RequestType) /\ queue # <<>>
    BY DEF ServingType
  <2> HIDE DEF queue
  <2>2. QED
    BY <2>1, Beheaded DEF few, queue
<1>2. w.queue = few
  OBVIOUS
<1>3. /\ Fed(t, w) <=> Fed(t, v)
      /\ Busy(w) <=> Busy(v)
      /\ \A r : Agrees(t, n, r, v) => Agrees(t, n, r, w)
      /\ \A x : Tells(t, n, x, v) => Tells(t, n, x, w)
  BY DEF Fed, Busy, Agrees, Tells
<1> HIDE DEF few
<1>4. \A i \in DOMAIN few : Agrees(t, n, few[i], w)
  BY <1>1, <1>3 DEF Fits
<1>5. \A i, j \in DOMAIN few : Upload(t, few[i]) /\ Upload(t, few[j]) => i = j
  <2>1. ASSUME NEW i \in DOMAIN few, NEW j \in DOMAIN few,
               Upload(t, few[i]), Upload(t, few[j])
        PROVE  i = j
    <3>1. i + 1 = j + 1 /\ i \in Nat /\ j \in Nat
      BY <1>1, <2>1 DEF Fits, OneUpload
    <3>2. QED
      BY <3>1
  <2>2. QED
    BY <2>1
<1>6. OneUpload(t, q, ls, w)
  BY <1>1, <1>2, <1>5 DEF Fits, OneUpload
<1>7. Upload(t, queue[1]) => NoUpload(t, q, ls, w)
  BY <1>1, <1>2 DEF Fits, OneUpload, NoUpload
<1>8. Fits(t, q, n, ls, w)
  BY <1>2, <1>3, <1>4, <1>6 DEF Fits
<1>9. Agrees(t, n, Head(queue), w)
  BY <1>1, <1>3 DEF Fits
<1>10. QED
  BY <1>1, <1>3, <1>7, <1>8, <1>9

\* FitsServing: what the worker does with what is on its way in no way.
LEMMA FitsServing ==
  ASSUME NEW t, NEW q, NEW n, NEW ls, NEW v, Fits(t, q, n, ls, v),
         NEW w, w.queue = v.queue, w.id = v.id, w.source = v.source,
         w.job \in {v.job, NoRequest}
  PROVE  Fits(t, q, n, ls, w)
<1>1. /\ Fed(t, w) <=> Fed(t, v)
      /\ Busy(w) => Busy(v) /\ w.job = v.job
      /\ \A r : Agrees(t, n, r, v) => Agrees(t, n, r, w)
      /\ \A x : Tells(t, n, x, v) => Tells(t, n, x, w)
  BY DEF Fed, Busy, Agrees, Tells
<1>2. OneUpload(t, q, ls, w)
  BY DEF Fits, OneUpload
<1>3. QED
  BY <1>1, <1>2 DEF Fits

\* FitsIdle: the worker serves nothing.
LEMMA FitsIdle ==
  ASSUME NEW t \in TrackType, NEW q, NEW n \in Nat, NEW ls, NEW v,
         Fits(t, q, n, ls, v)
  PROVE  Fits(t, q, n, ls, Idle)
<1>1. Idle.id = None /\ Idle.queue = <<>> /\ Idle.job = NoRequest /\ ~Busy(Idle)
  BY DEF Idle, Busy
<1>2. t.id # None => Fed(t, Idle)
  BY <1>1 DEF Fed
<1>3. /\ t.prepared => Fed(t, Idle)
      /\ \A r : Agrees(t, n, r, v) => Agrees(t, n, r, Idle)
      /\ \A x : Tells(t, n, x, v) => Tells(t, n, x, Idle)
  <2>1. t.prepared => t.id # None
    BY DEF Fits, Whole, NoTrack
  <2>2. QED
    BY <1>2, <2>1 DEF Agrees, Tells, Mine, Upload
<1>4. OneUpload(t, q, ls, Idle)
  BY <1>1 DEF Fits, OneUpload
<1>5. QED
  BY <1>1, <1>3, <1>4 DEF Fits, None

\* FitsQueued: a request waits for the operation thread.
LEMMA FitsQueued ==
  ASSUME NEW t, NEW q, NEW n, NEW ls, NEW v \in ServingType,
         Fits(t, q, n, ls, v), NEW r \in RequestType, Agrees(t, n, r, v),
         Upload(t, r) => NoUpload(t, q, ls, v),
         NEW w, w.queue = Append(v.queue, r), w.id = v.id, w.job = v.job,
         w.source = v.source
  PROVE  Fits(t, q, n, ls, w)
<1> DEFINE more == Append(v.queue, r)
           queue == v.queue
<1>1. \A i \in DOMAIN more :
        \/ i \in DOMAIN queue /\ more[i] = queue[i]
        \/ i \notin DOMAIN queue /\ i = Len(queue) + 1 /\ more[i] = r
  <2>1. queue \in Seq(RequestType)
    BY DEF ServingType
  <2> HIDE DEF queue
  <2>2. QED
    BY <2>1, Appended DEF more, queue
<1>2. w.queue = more
  OBVIOUS
<1>3. /\ Fed(t, w) <=> Fed(t, v)
      /\ Busy(w) <=> Busy(v)
      /\ \A e : Agrees(t, n, e, v) => Agrees(t, n, e, w)
      /\ \A x : Tells(t, n, x, v) => Tells(t, n, x, w)
  BY DEF Fed, Busy, Agrees, Tells
<1> HIDE DEF more
<1>4. \A i \in DOMAIN more : Agrees(t, n, more[i], w)
  BY <1>1, <1>3 DEF Fits
<1>5. OneUpload(t, q, ls, w)
  BY <1>1, <1>2 DEF Fits, OneUpload, NoUpload
<1>6. QED
  BY <1>2, <1>3, <1>4, <1>5 DEF Fits

\* FitsToldAll: the worker writes lines that tell of the session, none of them
\* of the upload of its track.
LEMMA FitsToldAll ==
  ASSUME NEW t, NEW q, NEW n, NEW ls \in Seq(LineType), NEW v,
         Fits(t, q, n, ls, v), NEW xs \in Seq(LineType),
         \A i \in DOMAIN xs : Tells(t, n, xs[i], v) /\ ~Upload(t, xs[i])
  PROVE  Fits(t, q, n, ls \o xs, v)
<1> DEFINE more == ls \o xs
<1>1. \A i \in DOMAIN more :
        \/ i \in DOMAIN ls /\ more[i] = ls[i]
        \/ \E j \in DOMAIN xs : more[i] = xs[j]
  OBVIOUS
<1> HIDE DEF more
<1>2. \A i \in DOMAIN more : Tells(t, n, more[i], v)
  BY <1>1 DEF Fits
<1>3. \A i \in DOMAIN more :
        Upload(t, more[i]) => i \in DOMAIN ls /\ more[i] = ls[i]
  BY <1>1
<1>4. OneUpload(t, q, more, v)
  BY <1>3 DEF Fits, OneUpload
<1>5. QED
  BY <1>2, <1>4 DEF Fits, more

\* FitsRequeued: what waits for the operation thread is other than an upload
\* of the track, but for what waited before.
LEMMA FitsRequeued ==
  ASSUME NEW t, NEW q, NEW n, NEW ls, NEW v, Fits(t, q, n, ls, v),
         NEW w, w.id = v.id, w.source = v.source, w.job \in {v.job, NoRequest},
         NEW k \in Int,
         \A i \in DOMAIN w.queue :
           /\ i \in Nat /\ Agrees(t, n, w.queue[i], v)
           /\ Upload(t, w.queue[i]) =>
                i - k \in DOMAIN v.queue /\ w.queue[i] = v.queue[i - k]
  PROVE  Fits(t, q, n, ls, w)
<1> DEFINE new == w.queue
           old == v.queue
<1>1. /\ Fed(t, w) <=> Fed(t, v)
      /\ Busy(w) => Busy(v) /\ w.job = v.job
      /\ \A e : Agrees(t, n, e, v) => Agrees(t, n, e, w)
      /\ \A x : Tells(t, n, x, v) => Tells(t, n, x, w)
  BY DEF Fed, Busy, Agrees, Tells
<1>2. \A i \in DOMAIN new : Agrees(t, n, new[i], w)
  BY <1>1
<1>3. \A i, j \in DOMAIN new : Upload(t, new[i]) /\ Upload(t, new[j]) => i = j
  <2>1. ASSUME NEW i \in DOMAIN new, NEW j \in DOMAIN new,
               Upload(t, new[i]), Upload(t, new[j])
        PROVE  i = j
    <3>1. /\ i - k \in DOMAIN old /\ Upload(t, old[i - k])
          /\ j - k \in DOMAIN old /\ Upload(t, old[j - k])
          /\ i \in Nat /\ j \in Nat
      BY <2>1
    <3>2. i - k = j - k
      BY <3>1 DEF Fits, OneUpload
    <3>3. QED
      BY <3>1, <3>2
  <2>2. QED
    BY <2>1
<1>4. OneUpload(t, q, ls, w)
  <2>1. OneUpload(t, q, ls, v)
    BY DEF Fits
  <2>2. \A i \in DOMAIN new : Upload(t, new[i]) =>
          \E j \in DOMAIN old : Upload(t, old[j])
    OBVIOUS
  <2>3. QED
    BY <1>3, <2>1, <2>2 DEF OneUpload
<1>5. QED
  BY <1>1, <1>2, <1>4 DEF Fits

\* FitsFed: the worker has the audio of the track, if it serves it.
LEMMA FitsFed ==
  ASSUME NEW t, NEW q, NEW n, NEW ls, NEW v, Fits(t, q, n, ls, v),
         NEW w, w.id = v.id, w.queue = v.queue, w.job = v.job, Fed(t, w)
  PROVE  Fits(t, q, n, ls, w)
<1>1. /\ Busy(w) <=> Busy(v)
      /\ \A r : Agrees(t, n, r, v) => Agrees(t, n, r, w)
      /\ \A x : Tells(t, n, x, v) => Tells(t, n, x, w)
  BY DEF Busy, Agrees, Tells
<1>2. OneUpload(t, q, ls, w)
  BY DEF Fits, OneUpload
<1>3. QED
  BY <1>1, <1>2 DEF Fits

\* FitsRendering: the worker renders a request that agrees with the session.
LEMMA FitsRendering ==
  ASSUME NEW t, NEW q, NEW n, NEW ls, NEW v, Fits(t, q, n, ls, v),
         NEW w, w.id = v.id, w.queue = v.queue, w.source = v.source,
         Agrees(t, n, w.job, v), w.job.method = "track_render"
  PROVE  Fits(t, q, n, ls, w)
<1>1. /\ Fed(t, w) <=> Fed(t, v)
      /\ \A r : Agrees(t, n, r, v) => Agrees(t, n, r, w)
      /\ \A x : Tells(t, n, x, v) => Tells(t, n, x, w)
  BY DEF Fed, Agrees, Tells
<1>2. OneUpload(t, q, ls, w)
  BY DEF Fits, OneUpload
<1>3. QED
  BY <1>1, <1>2 DEF Fits

\* FitsStarted: the worker serves an operation whose upload begins.
LEMMA FitsStarted ==
  ASSUME NEW t, NEW q, NEW n, NEW ls, NEW v, Fits(t, q, n, ls, v),
         NEW r, Agrees(t, n, r, v), r.method = "track_start",
         Upload(t, r) => NoUpload(t, q, ls, v),
         NEW w, w.id = r.operation, w.queue = <<>>, w.job = NoRequest
  PROVE  Fits(t, q, n, ls, w) /\ (Upload(t, r) => NoUpload(t, q, ls, w))
<1>1. w.id = r.operation /\ w.queue = <<>> /\ ~Busy(w)
  BY DEF Busy
<1>2. r.operation <= n /\ r.operation # None
  BY DEF Agrees, Uploads
<1>3. ~Fed(t, w) => Upload(t, r)
  BY <1>1, <1>2 DEF Fed, Upload, Mine, Uploads
<1>4. ~Fed(t, w) => ~t.prepared /\ NoUpload(t, q, ls, v)
  BY <1>3 DEF Agrees
<1>5. /\ \A i \in DOMAIN q : Agrees(t, n, q[i], w)
      /\ \A i \in DOMAIN ls : Tells(t, n, ls[i], w)
  <2>1. ASSUME NEW i \in DOMAIN q PROVE Agrees(t, n, q[i], w)
    <3>1. Agrees(t, n, q[i], v) /\ (~Fed(t, w) => ~Upload(t, q[i]))
      BY <1>4 DEF Fits, NoUpload
    <3>2. QED
      BY <3>1 DEF Agrees, Upload, Uploads
  <2>2. ASSUME NEW i \in DOMAIN ls PROVE Tells(t, n, ls[i], w)
    <3>1. Tells(t, n, ls[i], v) /\ (~Fed(t, w) => ~Upload(t, ls[i]))
      BY <1>4 DEF Fits, NoUpload
    <3>2. QED
      BY <3>1 DEF Tells
  <2>3. QED
    BY <2>1, <2>2
<1>6. OneUpload(t, q, ls, w)
  BY <1>1 DEF Fits, OneUpload
<1>7. QED
  BY <1>1, <1>2, <1>4, <1>5, <1>6 DEF Fits, NoUpload
-----------------------------------------------------------------------------
(* The steps of the worker. *)

\* Replied: a reply tells of the request it answers.
LEMMA Replied ==
  ASSUME NEW t, NEW n, NEW v, NEW r \in RequestType, Agrees(t, n, r, v),
         NEW code \in {"ok", "failed", "busy", "operation_not_found",
                       "superseded"},
         r.method = "track_chunk" /\ code \in {"ok", "superseded"} => Fed(t, v)
  PROVE  /\ Reply(r, code) \in LineType /\ Tells(t, n, Reply(r, code), v)
         /\ Upload(t, Reply(r, code)) <=> Upload(t, r)
         /\ Reply(r, code).type = "reply"
<1>1. NoLine \in LineType /\ NoLine.type = "reply"
  BY Blanks DEF NoLine
<1>2. /\ Reply(r, code) \in LineType /\ Reply(r, code).type = "reply"
      /\ Reply(r, code).method = r.method /\ Reply(r, code).code = code
      /\ Reply(r, code).operation = r.operation
  BY <1>1 DEF Reply, LineType, RequestType
<1>3. Upload(t, Reply(r, code)) <=> Upload(t, r)
  BY <1>2 DEF Upload, Mine
<1>4. Tells(t, n, Reply(r, code), v)
  BY <1>2, <1>3 DEF Tells, Agrees, Events, Upload, Uploads
<1>5. QED
  BY <1>2, <1>3, <1>4

\* Lines that the worker wrote, which the callback does not handle yet.
Written(ls) ==
  /\ ls \in Seq(LineType) /\ Len(ls) >= Len(lines)
  /\ \A i \in DOMAIN ls : ls[i].type # "exited"

\* WrittenMore: the worker writes one line after the other.
LEMMA WrittenMore ==
  ASSUME NEW ls, Written(ls), lines \in Seq(LineType),
         NEW x \in LineType, x.type # "exited"
  PROVE  Written(Append(ls, x))
<1>1. ls \in Seq(LineType) /\ Len(ls) \in Nat /\ Len(lines) \in Nat
  BY DEF Written
<1>2. /\ Append(ls, x) \in Seq(LineType) /\ Len(Append(ls, x)) = Len(ls) + 1
      /\ \A i \in DOMAIN Append(ls, x) : Append(ls, x)[i] = x
           \/ (i \in DOMAIN ls /\ Append(ls, x)[i] = ls[i])
  BY <1>1, Appended
<1>3. QED
  BY <1>1, <1>2 DEF Written

\* What a step of the worker keeps to.
WorkerStep(q) ==
  /\ process = "up" /\ process' \in {"up", "exited", "crashed"}
  /\ q \in Seq(RequestType) /\ session' = [session EXCEPT !.inbox = q]
  /\ UNCHANGED <<pc, batch, scene>>
  /\ disturbed' \in {disturbed, disturbed + 1} /\ disturbed' <= MaxDisturbances

\* WorkerKeeps: the session is as coherent as what is on its way.
LEMMA WorkerKeeps ==
  ASSUME TrackInv, NEW q, WorkerStep(q), serving' \in ServingType,
         OfOperation(serving'), Written(lines'),
         Fits(session.track, q, session.operations, lines', serving')
  PROVE  TrackInv'
<1>1. /\ session \in SessionType /\ BakesTrack(session)
      /\ Caused(session, scene, disturbed) /\ disturbed \in Nat
      /\ MaxDisturbances \in Nat
  BY Parts DEF TrackInv, TrackAssumption
<1>2. /\ session' \in SessionType /\ session'.track = session.track
      /\ session'.inbox = q /\ session'.operations = session.operations
      /\ session'.bake = session.bake /\ session'.status = session.status
      /\ session'.observed = session.observed
      /\ session'.invalidated = session.invalidated
      /\ session'.client = session.client
  BY <1>1 DEF WorkerStep, SessionType
<1>3. BakesTrack(session')
  BY <1>1, <1>2 DEF BakesTrack
<1>4. Caused(session, scene, disturbed)'
  <2>1. /\ session.track.revision \in Nat /\ session.operations \in Nat
        /\ Flag(session.invalidated) \in Nat /\ Flag(~session.track.prepared) \in Nat
        /\ Flag(session.track.restart) \in Nat
        /\ Flag(session.observed # scene.source \/ session.status \in Starting) \in Nat
    BY <1>1 DEF SessionType, TrackType, Flag
  <2>2. disturbed' \in Nat /\ disturbed <= disturbed'
    BY <1>1 DEF WorkerStep
  <2>3. CanRequest(session)' => CanRequest(session)
    BY <1>2 DEF CanRequest, WorkerStep
  <2>4. Paced(session', disturbed')
    BY <1>1, <1>2, <2>1, <2>2 DEF Caused, Paced
  <2>5. Accounted(session, scene, disturbed)'
    BY <1>1, <1>2, <2>1, <2>2, <2>3, SMTT(30) DEF Caused, Accounted, WorkerStep
  <2>6. QED
    BY <2>4, <2>5 DEF Caused
<1>5. Coherent(session, scene, lines, disturbed)'
  BY <1>2, <1>3, <1>4 DEF Coherent
<1>6. QED
  BY <1>1, <1>5 DEF TrackInv, WorkerStep, Written

\* OnItsWay: what the worker finds.
LEMMA OnItsWay ==
  ASSUME TrackInv
  PROVE  /\ Fits(session.track, session.inbox, session.operations, lines, serving)
         /\ session \in SessionType /\ session.track \in TrackType
         /\ session.inbox \in Seq(RequestType) /\ session.operations \in Nat
         /\ serving \in ServingType /\ serving.queue \in Seq(RequestType)
         /\ serving.job \in RequestType /\ OfOperation(serving)
         /\ lines \in Seq(LineType)
         /\ process = "up" => Written(lines)
         /\ disturbed \in Nat /\ MaxDisturbances \in Nat
         /\ disturbed <= MaxDisturbances
         /\ session = [session EXCEPT !.inbox = session.inbox]
<1>1. /\ session \in SessionType /\ serving \in ServingType
      /\ lines \in Seq(LineType) /\ disturbed \in 0..MaxDisturbances
      /\ OfOperation(serving)
      /\ Fits(session.track, session.inbox, session.operations, lines, serving)
      /\ \A i \in DOMAIN lines : lines[i].type = "exited" => process # "up"
  BY Parts DEF TrackInv
<1>2. session = [session EXCEPT !.inbox = session.inbox]
  BY <1>1 DEF SessionType
<1>3. /\ serving.queue \in Seq(RequestType) /\ serving.job \in RequestType
      /\ session.track \in TrackType /\ session.inbox \in Seq(RequestType)
      /\ session.operations \in Nat
  BY <1>1 DEF ServingType, SessionType
<1>4. process = "up" => Written(lines)
  BY <1>1 DEF Written
<1>5. disturbed \in Nat /\ MaxDisturbances \in Nat /\ disturbed <= MaxDisturbances
  BY <1>1 DEF TrackAssumption
<1>6. QED
  BY <1>1, <1>2, <1>3, <1>4, <1>5

\* ReadsStep: the worker reads the request at the head of its inbox.
LEMMA ReadsStep ==
  ASSUME TrackInv, process = "up", session.inbox # <<>>,
         session' = [session EXCEPT !.inbox = Tail(@)],
         UNCHANGED <<pc, batch, scene>>, process' \in {"up", "exited"},
         UNCHANGED disturbed \/ Disturbs("failure")
  PROVE  /\ WorkerStep(Tail(session.inbox)) /\ Request \in RequestType
         /\ Fits(session.track, Tail(session.inbox), session.operations, lines, serving)
         /\ Agrees(session.track, session.operations, Request, serving)
         /\ Upload(session.track, Request)
              => NoUpload(session.track, Tail(session.inbox), lines, serving)
<1>1. /\ session.inbox \in Seq(RequestType)
      /\ Fits(session.track, session.inbox, session.operations, lines, serving)
      /\ disturbed \in Nat /\ MaxDisturbances \in Nat
      /\ disturbed <= MaxDisturbances
  BY OnItsWay
<1>2. Request \in RequestType /\ Tail(session.inbox) \in Seq(RequestType)
  BY <1>1, Beheaded DEF Request
<1>3. disturbed' \in {disturbed, disturbed + 1} /\ disturbed' <= MaxDisturbances
  BY <1>1 DEF Disturbs
<1>4. WorkerStep(Tail(session.inbox))
  BY <1>2, <1>3 DEF WorkerStep
<1>5. QED
  BY <1>1, <1>2, <1>4, FitsRead DEF Request

\* AnsweredKeeps: a request is answered as it is read.
LEMMA AnsweredKeeps ==
  ASSUME TrackInv, process = "up", session.inbox # <<>>,
         session' = [session EXCEPT !.inbox = Tail(@)],
         UNCHANGED <<pc, batch, scene>>, process' \in {"up", "exited"},
         UNCHANGED disturbed \/ Disturbs("failure"),
         NEW code \in {"ok", "failed", "busy", "operation_not_found"},
         code = "ok" => Request.method # "track_chunk",
         lines' = Append(lines, Reply(Request, code)),
         serving' \in ServingType, serving'.id = serving.id,
         serving'.queue = serving.queue, serving'.job = serving.job,
         serving'.source = serving.source
  PROVE  TrackInv'
<1> DEFINE t == session.track
           q == Tail(session.inbox)
           n == session.operations
<1>1. /\ WorkerStep(q) /\ Request \in RequestType /\ Fits(t, q, n, lines, serving)
      /\ Agrees(t, n, Request, serving)
      /\ Upload(t, Request) => NoUpload(t, q, lines, serving)
  BY ReadsStep
<1>2. lines \in Seq(LineType) /\ Written(lines) /\ OfOperation(serving)
  BY OnItsWay
<1>3. /\ Reply(Request, code) \in LineType /\ Reply(Request, code).type = "reply"
      /\ Tells(t, n, Reply(Request, code), serving)
      /\ Upload(t, Reply(Request, code)) <=> Upload(t, Request)
  BY <1>1, Replied
<1> HIDE DEF t, q, n
<1>4. Fits(t, q, n, lines', serving)
  BY <1>1, <1>2, <1>3, FitsTold
<1>5. Fits(t, q, n, lines', serving') /\ Written(lines')
  BY <1>2, <1>3, <1>4, FitsServing, WrittenMore
<1>6. OfOperation(serving')
  BY <1>2 DEF OfOperation, Busy
<1>7. QED
  BY <1>1, <1>5, <1>6, WorkerKeeps DEF t, q, n

\* StartedKeeps: track_start of a worker that serves nothing.
LEMMA StartedKeeps ==
  ASSUME TrackInv, WorkerReads("track_start"), UNCHANGED <<process, disturbed>>,
         Says(Reply(Request, "ok")),
         serving' = [Idle EXCEPT !.id = Request.operation, !.phase = "running"]
  PROVE  TrackInv'
<1> DEFINE t == session.track
           q == Tail(session.inbox)
           n == session.operations
<1>1. /\ WorkerStep(q) /\ Request \in RequestType /\ Fits(t, q, n, lines, serving)
      /\ Agrees(t, n, Request, serving) /\ Request.method = "track_start"
      /\ Upload(t, Request) => NoUpload(t, q, lines, serving)
  BY ReadsStep DEF WorkerReads
<1>2. lines \in Seq(LineType) /\ Written(lines)
  BY OnItsWay DEF WorkerReads
<1>3. /\ serving' \in ServingType /\ serving'.id = Request.operation
      /\ serving'.queue = <<>> /\ serving'.job = NoRequest
  BY <1>1, Blanks DEF Idle, ServingType, RequestType
<1> HIDE DEF t, q, n
<1>4. /\ Fits(t, q, n, lines, serving')
      /\ Upload(t, Request) => NoUpload(t, q, lines, serving')
  BY <1>1, <1>3, FitsStarted
<1>5. Agrees(t, n, Request, serving')
  BY <1>1 DEF Agrees
<1>6. /\ Reply(Request, "ok") \in LineType /\ Reply(Request, "ok").type = "reply"
      /\ Tells(t, n, Reply(Request, "ok"), serving')
      /\ Upload(t, Reply(Request, "ok")) <=> Upload(t, Request)
  BY <1>1, <1>5, Replied
<1>7. lines' = Append(lines, Reply(Request, "ok"))
  BY DEF Says
<1>8. Fits(t, q, n, lines', serving') /\ Written(lines')
  BY <1>2, <1>4, <1>6, <1>7, FitsTold, WrittenMore
<1>9. OfOperation(serving')
  BY <1>3 DEF OfOperation, Busy
<1>10. QED
  BY <1>1, <1>3, <1>8, <1>9, WorkerKeeps DEF t, q, n

\* UploadTakenKeeps: a chunk, or the end of the upload, waits for the thread.
LEMMA UploadTakenKeeps ==
  ASSUME TrackInv, NEW method \in {"track_chunk", "track_prepare"},
         WorkerReads(method), UNCHANGED <<process, disturbed>>,
         Runs(Request.operation), lines' = lines \o <<>>,
         serving' = [serving EXCEPT !.queue = Append(@, Request)]
  PROVE  TrackInv'
<1> DEFINE t == session.track
           q == Tail(session.inbox)
           n == session.operations
<1>1. /\ WorkerStep(q) /\ Request \in RequestType /\ Fits(t, q, n, lines, serving)
      /\ Agrees(t, n, Request, serving) /\ Request.method = method
      /\ Upload(t, Request) => NoUpload(t, q, lines, serving)
  BY ReadsStep DEF WorkerReads
<1>2. /\ lines \in Seq(LineType) /\ Written(lines) /\ OfOperation(serving)
      /\ serving \in ServingType /\ serving.queue \in Seq(RequestType)
  BY OnItsWay DEF WorkerReads
<1>3. /\ serving' \in ServingType /\ serving'.id = serving.id
      /\ serving'.queue = Append(serving.queue, Request)
      /\ serving'.job = serving.job /\ serving'.source = serving.source
  <2>1. Append(serving.queue, Request) \in Seq(RequestType)
    BY <1>1, <1>2
  <2>2. QED
    BY <1>2, <2>1 DEF ServingType
<1>4. lines' = lines
  BY <1>2
<1> HIDE DEF t, q, n
<1>5. Fits(t, q, n, lines', serving')
  BY <1>1, <1>2, <1>3, <1>4, FitsQueued
<1>6. OfOperation(serving')
  <2>1. Request.operation = serving.id
    BY DEF Runs
  <2>2. \A i \in DOMAIN Append(serving.queue, Request) :
          \/ Append(serving.queue, Request)[i] = Request
          \/ /\ i \in DOMAIN serving.queue
             /\ Append(serving.queue, Request)[i] = serving.queue[i]
    BY <1>1, <1>2, Appended
  <2>3. QED
    BY <1>1, <1>2, <1>3, <2>1, <2>2 DEF OfOperation, Busy
<1>7. QED
  BY <1>1, <1>2, <1>3, <1>4, <1>5, <1>6, WorkerKeeps DEF t, q, n

\* SequenceOf: elements in a row are a sequence.
LEMMA SequenceOf ==
  ASSUME NEW S, NEW m \in Nat, NEW xs, xs = [i \in 1..m |-> xs[i]],
         \A i \in 1..m : xs[i] \in S
  PROVE  xs \in Seq(S) /\ DOMAIN xs = 1..m
OBVIOUS

\* Superseded answers: each request that waited for the thread is answered.
Answers(old) == [i \in DOMAIN old |-> Reply(old[i], "superseded")]

\* AnswersTell: the answers to renders that wait tell of the session.
LEMMA AnswersTell ==
  ASSUME NEW t, NEW n, NEW v, NEW old \in Seq(RequestType),
         \A i \in DOMAIN old :
           /\ Agrees(t, n, old[i], v) /\ ~Upload(t, old[i])
           /\ old[i].method = "track_chunk" => Fed(t, v)
  PROVE  /\ Answers(old) \in Seq(LineType)
         /\ \A i \in DOMAIN Answers(old) :
              /\ Tells(t, n, Answers(old)[i], v) /\ ~Upload(t, Answers(old)[i])
              /\ Answers(old)[i].type = "reply"
<1>1. ASSUME NEW i \in DOMAIN old
      PROVE  /\ Reply(old[i], "superseded") \in LineType
             /\ Tells(t, n, Reply(old[i], "superseded"), v)
             /\ ~Upload(t, Reply(old[i], "superseded"))
             /\ Reply(old[i], "superseded").type = "reply"
  BY Replied
<1> DEFINE xs == Answers(old)
<1>2. /\ Len(old) \in Nat /\ xs = [i \in 1..Len(old) |-> xs[i]]
      /\ \A i \in 1..Len(old) :
           /\ xs[i] \in LineType /\ Tells(t, n, xs[i], v) /\ ~Upload(t, xs[i])
           /\ xs[i].type = "reply"
  BY <1>1 DEF Answers
<1> HIDE DEF xs
<1>3. xs \in Seq(LineType) /\ DOMAIN xs = 1..Len(old)
  BY <1>2, SequenceOf
<1>4. QED
  BY <1>2, <1>3 DEF xs

\* RenderTakenKeeps: a newer render answers those that wait.
LEMMA RenderTakenKeeps ==
  ASSUME TrackInv, WorkerRenders, Runs(Request.operation)
  PROVE  TrackInv'
<1> DEFINE t == session.track
           q == Tail(session.inbox)
           n == session.operations
           old == serving.queue
           xs == Answers(old)
<1>1. /\ WorkerStep(q) /\ Request \in RequestType /\ Fits(t, q, n, lines, serving)
      /\ Agrees(t, n, Request, serving) /\ Request.method = "track_render"
  BY ReadsStep DEF WorkerReads, WorkerRenders, WorkerTakes
<1>2. /\ lines \in Seq(LineType) /\ Written(lines) /\ OfOperation(serving)
      /\ serving \in ServingType /\ old \in Seq(RequestType)
  BY OnItsWay DEF WorkerReads, WorkerRenders, WorkerTakes
<1>3. /\ serving' \in ServingType /\ serving'.id = serving.id
      /\ serving'.queue = <<Request>>
      /\ serving'.job = serving.job /\ serving'.source = serving.source
  <2>1. <<Request>> \in Seq(RequestType) /\ Request.revision \in Nat
    BY <1>1 DEF RequestType
  <2>2. serving' = [serving EXCEPT !.latest = Request.revision,
                                   !.queue = <<Request>>]
    BY DEF WorkerRenders, WorkerTakes
  <2>3. QED
    BY <1>2, <2>1, <2>2 DEF ServingType
<1>4. Request.operation = serving.id /\ Request.operation # None
  BY <1>1 DEF Runs, Agrees
<1>5. lines' = lines \o xs
  BY DEF WorkerRenders, WorkerTakes, Answers
<1> HIDE DEF t, q, n, xs
<1>6. \A i \in DOMAIN old :
        /\ Agrees(t, n, old[i], serving) /\ ~Upload(t, old[i])
        /\ old[i].method = "track_chunk" => Fed(t, serving)
  <2>1. SUFFICES ASSUME NEW i \in DOMAIN old
                 PROVE  /\ Agrees(t, n, old[i], serving) /\ ~Upload(t, old[i])
                        /\ old[i].method = "track_chunk" => Fed(t, serving)
    OBVIOUS
  <2>2. Agrees(t, n, old[i], serving) /\ old[i].operation = serving.id
    BY <1>1, <1>2 DEF Fits, OfOperation
  <2>3. ~Upload(t, old[i])
    <3>1. Upload(t, old[i]) => Mine(t, Request) /\ ~t.prepared
      BY <1>4, <2>2 DEF Upload, Mine, Agrees
    <3>2. QED
      BY <1>1, <3>1 DEF Agrees
  <2>4. old[i].method = "track_chunk" => Fed(t, serving)
    <3>1. old[i].method = "track_chunk" => ~Mine(t, old[i])
      BY <2>3 DEF Upload, Uploads
    <3>2. QED
      BY <1>4, <2>2, <3>1 DEF Mine, Fed
  <2>5. QED
    BY <2>2, <2>3, <2>4
<1>7. /\ xs \in Seq(LineType)
      /\ \A i \in DOMAIN xs :
           xs[i].type = "reply" /\ Tells(t, n, xs[i], serving) /\ ~Upload(t, xs[i])
  <2> HIDE DEF old
  <2>1. QED
    BY <1>2, <1>6, AnswersTell DEF xs
<1>8. Fits(t, q, n, lines', serving)
  BY <1>1, <1>2, <1>5, <1>7, FitsToldAll
<1>9. Fits(t, q, n, lines', serving')
  <2>1. ~Upload(t, Request)
    BY <1>1 DEF Upload, Uploads
  <2>2. \A i \in DOMAIN serving'.queue : i \in Nat /\ serving'.queue[i] = Request
    BY <1>3
  <2>3. \A i \in DOMAIN serving'.queue :
          /\ i \in Nat /\ Agrees(t, n, serving'.queue[i], serving)
          /\ Upload(t, serving'.queue[i]) =>
               /\ i - 0 \in DOMAIN serving.queue
               /\ serving'.queue[i] = serving.queue[i - 0]
    BY <1>1, <2>1, <2>2
  <2>4. QED
    BY <1>3, <1>8, <2>3, FitsRequeued
<1>10. OfOperation(serving')
  BY <1>1, <1>2, <1>3, <1>4 DEF OfOperation, Busy
<1>11. Written(lines')
  <2>1. \A i \in DOMAIN lines' :
          \/ i \in DOMAIN lines /\ lines'[i] = lines[i]
          \/ \E j \in DOMAIN xs : lines'[i] = xs[j]
    BY <1>2, <1>5, <1>7
  <2>2. lines' \in Seq(LineType) /\ Len(lines') >= Len(lines)
    BY <1>2, <1>5, <1>7
  <2>3. QED
    BY <1>2, <1>7, <2>1, <2>2 DEF Written
<1>12. QED
  BY <1>1, <1>3, <1>9, <1>10, <1>11, WorkerKeeps DEF t, q, n

\* ThreadStep: the operation thread takes a step.
LEMMA ThreadStep ==
  ASSUME TrackInv, process = "up", process' \in {"up", "exited", "crashed"},
         UNCHANGED <<pc, batch, scene, session>>,
         UNCHANGED disturbed \/ Disturbs("failure")
  PROVE  WorkerStep(session.inbox)
<1>1. /\ session.inbox \in Seq(RequestType)
      /\ session = [session EXCEPT !.inbox = session.inbox]
      /\ disturbed \in Nat /\ MaxDisturbances \in Nat
      /\ disturbed <= MaxDisturbances
  BY OnItsWay
<1>2. disturbed' \in {disturbed, disturbed + 1} /\ disturbed' <= MaxDisturbances
  BY <1>1 DEF Disturbs
<1>3. QED
  BY <1>1, <1>2 DEF WorkerStep

\* WrittenKeeps: the thread writes a line, and does with what is on its way
\* nothing else.
LEMMA WrittenKeeps ==
  ASSUME TrackInv, process = "up", ThreadUnchanged, NEW x \in LineType, Says(x),
         x.type # "exited", ~Upload(session.track, x),
         Tells(session.track, session.operations, x, serving),
         serving' \in ServingType, serving'.id = serving.id,
         serving'.queue = serving.queue, serving'.source = serving.source,
         serving'.job \in {serving.job, NoRequest}
  PROVE  TrackInv'
<1> DEFINE t == session.track
           q == session.inbox
           n == session.operations
<1>1. /\ WorkerStep(q) /\ Fits(t, q, n, lines, serving)
      /\ lines \in Seq(LineType) /\ Written(lines) /\ OfOperation(serving)
  BY ThreadStep, OnItsWay DEF ThreadUnchanged
<1>2. lines' = Append(lines, x)
  BY DEF Says
<1>3. Tells(t, n, x, serving) /\ ~Upload(t, x)
  OBVIOUS
<1> HIDE DEF t, q, n
<1>4. Fits(t, q, n, lines', serving) /\ Written(lines')
  BY <1>1, <1>2, <1>3, FitsTold, WrittenMore
<1>5. Fits(t, q, n, lines', serving')
  BY <1>4, FitsServing
<1>6. OfOperation(serving')
  BY <1>1 DEF OfOperation, Busy
<1>7. QED
  BY <1>1, <1>4, <1>5, <1>6, WorkerKeeps DEF t, q, n

\* TakesKeeps: the operation thread takes the next request.
LEMMA TakesKeeps ==
  ASSUME TrackInv, WorkerWorks
  PROVE  TrackInv'
<1> DEFINE t == session.track
           q == session.inbox
           n == session.operations
           r == Head(serving.queue)
           w == [serving EXCEPT !.queue = Tail(@)]
<1>1. /\ WorkerStep(q) /\ Fits(t, q, n, lines, serving)
      /\ lines \in Seq(LineType) /\ Written(lines) /\ OfOperation(serving)
      /\ serving \in ServingType /\ serving.queue \in Seq(RequestType)
      /\ serving.queue # <<>> /\ ~Busy(serving)
  BY ThreadStep, OnItsWay
     DEF WorkerWorks, ThreadUnchanged, ThreadRuns, Busy, Working
<1>2. /\ r \in RequestType /\ Tail(serving.queue) \in Seq(RequestType)
      /\ r.operation = serving.id
      /\ r.method \in {"track_chunk", "track_prepare", "track_render"}
      /\ \A i \in DOMAIN Tail(serving.queue) :
           /\ Tail(serving.queue)[i].operation = serving.id
           /\ Tail(serving.queue)[i].method
                \in {"track_chunk", "track_prepare", "track_render"}
  <2> DEFINE old == serving.queue
  <2>1. /\ old \in Seq(RequestType) /\ old # <<>>
        /\ \A i \in DOMAIN old :
             /\ old[i].operation = serving.id
             /\ old[i].method \in {"track_chunk", "track_prepare", "track_render"}
    BY <1>1 DEF OfOperation
  <2> HIDE DEF old
  <2>2. /\ Tail(old) \in Seq(RequestType) /\ Head(old) = old[1]
        /\ Head(old) \in RequestType /\ 1 \in DOMAIN old
        /\ \A i \in DOMAIN Tail(old) :
             Tail(old)[i] = old[i + 1] /\ i + 1 \in DOMAIN old
    BY <2>1, Beheaded
  <2>3. QED
    BY <2>1, <2>2 DEF old
<1>3. /\ w \in ServingType /\ w.queue = Tail(serving.queue) /\ w.id = serving.id
      /\ w.job = serving.job /\ w.source = serving.source
  BY <1>1, <1>2 DEF ServingType
<1>4. /\ r.method = "track_render" =>
           /\ serving' = [w EXCEPT !.job = r, !.sent = 0, !.previewed = FALSE]
           /\ UNCHANGED lines
      /\ r.method = "track_chunk" => serving' = [w EXCEPT !.source = r.source]
      /\ r.method = "track_prepare" => serving' = [w EXCEPT !.source = w.source]
      /\ r.method # "track_render" => lines' = Append(lines, Reply(r, "ok"))
  <2>1. r.method = "track_render" =>
          /\ serving' = [w EXCEPT !.job = r, !.sent = 0, !.previewed = FALSE]
          /\ UNCHANGED lines
    BY <1>1 DEF WorkerWorks, ServingType
  <2>2. r.method # "track_render" =>
          /\ lines' = Append(lines, Reply(r, "ok"))
          /\ serving' = [w EXCEPT !.source = IF r.method = "track_chunk"
                                             THEN r.source ELSE w.source]
    BY <1>1 DEF WorkerWorks, Says, ServingType
  <2>3. QED
    BY <2>1, <2>2
<1> HIDE DEF t, q, n, w, r
<1>5. /\ Fits(t, q, n, lines, w) /\ Agrees(t, n, r, w)
      /\ Upload(t, r) => NoUpload(t, q, lines, w)
  BY <1>1, <1>3, FitsTaken DEF r
<1>6. CASE r.method = "track_render"
  <2>1. /\ serving' \in ServingType /\ serving'.queue = w.queue
        /\ serving'.id = w.id /\ serving'.source = w.source
        /\ serving'.job = r /\ lines' = lines
    <3>1. /\ r \in RequestType /\ w \in ServingType /\ lines' = lines
          /\ serving' = [w EXCEPT !.job = r, !.sent = 0, !.previewed = FALSE]
      BY <1>2, <1>3, <1>4, <1>6
    <3>2. QED
      BY <3>1 DEF ServingType
  <2>2. Fits(t, q, n, lines', serving')
    BY <1>5, <1>6, <2>1, FitsRendering
  <2>3. OfOperation(serving')
    BY <1>2, <1>3, <2>1 DEF OfOperation
  <2>4. QED
    BY <1>1, <2>1, <2>2, <2>3, WorkerKeeps DEF t, q, n
<1>7. CASE r.method # "track_render"
  <2>1. /\ serving' \in ServingType /\ serving'.queue = w.queue
        /\ serving'.id = w.id /\ serving'.job = w.job
        /\ r.method = "track_chunk" => serving'.source = r.source
        /\ r.method = "track_prepare" => serving'.source = w.source
        /\ lines' = Append(lines, Reply(r, "ok"))
    BY <1>2, <1>3, <1>4, <1>7, ZenonT(40) DEF ServingType, RequestType
  <2>2. Fed(t, serving')
    <3>1. r.method = "track_prepare" => Fed(t, serving')
      BY <1>2, <1>3, <1>5, <2>1 DEF Agrees, Fed, Mine, Uploads
    <3>2. r.method = "track_chunk" => Fed(t, serving')
      BY <1>2, <1>3, <1>5, <2>1 DEF Agrees, Fed, Mine, Uploads
    <3>3. QED
      BY <1>2, <1>7, <3>1, <3>2
  <2>3. Fits(t, q, n, lines, serving')
    BY <1>5, <2>1, <2>2, FitsFed
  <2>4. Agrees(t, n, r, serving') /\ (Upload(t, r) => NoUpload(t, q, lines, serving'))
    BY <1>5, <2>1, <2>2 DEF Agrees, NoUpload
  <2>5. /\ Reply(r, "ok") \in LineType /\ Reply(r, "ok").type = "reply"
        /\ Tells(t, n, Reply(r, "ok"), serving')
        /\ Upload(t, Reply(r, "ok")) <=> Upload(t, r)
    BY <1>2, <2>2, <2>4, Replied
  <2>6. Fits(t, q, n, lines', serving') /\ Written(lines')
    BY <1>1, <2>1, <2>3, <2>4, <2>5, FitsTold, WrittenMore
  <2>7. OfOperation(serving')
    BY <1>1, <1>2, <1>3, <2>1 DEF OfOperation, Busy
  <2>8. QED
    BY <1>1, <2>1, <2>6, <2>7, WorkerKeeps DEF t, q, n
<1>8. QED
  BY <1>6, <1>7

\* EventTells: rows of the render that the worker works on.
LEMMA EventTells ==
  ASSUME TrackInv, Working, NEW type \in Events,
         NEW x, x = Event(type)
  PROVE  /\ x \in LineType /\ x.type = type
         /\ Tells(session.track, session.operations, x, serving)
         /\ ~Upload(session.track, x)
<1> DEFINE t == session.track
           n == session.operations
           job == serving.job
<1>1. /\ serving \in ServingType /\ job \in RequestType /\ serving.id <= n
      /\ job.operation = serving.id /\ Agrees(t, n, job, serving)
      /\ job.method = "track_render" /\ (t.prepared => Fed(t, serving))
  BY OnItsWay DEF Fits, OfOperation, Busy, Working
<1>2. job.revision \in Nat /\ job.timeline \in AnyTimeline
      /\ serving.source \in AnySource /\ serving.id \in Nat
  BY <1>1 DEF RequestType, ServingType
<1> HIDE DEF t, n, job
<1>3. /\ x \in LineType /\ x.type = type /\ x.operation = serving.id
      /\ x.revision = job.revision /\ x.method = "cancel"
      /\ x.rows = {[source |-> serving.source, timeline |-> job.timeline]}
  <2>1. x = [NoLine EXCEPT !.type = type, !.operation = serving.id,
               !.revision = job.revision,
               !.rows = {[source |-> serving.source, timeline |-> job.timeline]}]
    BY DEF Event, job
  <2>2. {[source |-> serving.source, timeline |-> job.timeline]}
          \in SUBSET [source : AnySource, timeline : AnyTimeline]
    BY <1>2
  <2>3. NoLine \in LineType /\ NoLine.method = "cancel"
    BY Blanks DEF NoLine
  <2>4. QED
    BY <1>2, <2>1, <2>2, <2>3 DEF LineType
<1>4. ~Upload(t, x) /\ x.method \notin Uploads
  BY <1>3 DEF Upload, Uploads
<1>5. Mine(t, x) =>
        /\ x.revision \in 1..t.revision
        /\ x.revision = t.revision => x.rows = RowsOf(t, t.rendering)
  <2>1. ASSUME Mine(t, x)
        PROVE  /\ x.revision \in 1..t.revision
               /\ x.revision = t.revision => x.rows = RowsOf(t, t.rendering)
    <3>1. Mine(t, job) /\ serving.id = t.id
      BY <1>1, <1>3, <2>1 DEF Mine
    <3>2. /\ t.prepared /\ job.revision \in 1..t.revision
          /\ job.revision = t.revision => job.timeline = t.rendering
      BY <1>1, <3>1 DEF Agrees
    <3>3. serving.source = t.source
      BY <1>1, <3>1, <3>2 DEF Fed
    <3>4. QED
      BY <1>3, <3>2, <3>3 DEF RowsOf
  <2>2. QED
    BY <2>1
<1>6. x.operation <= n /\ x.operation # None
  BY <1>1, <1>3 DEF Agrees
<1>7. Tells(t, n, x, serving)
  BY <1>3, <1>4, <1>5, <1>6 DEF Tells
<1>8. QED
  BY <1>3, <1>4, <1>7 DEF t, n

\* ShowsKeeps: the worker writes a preview or a batch of its render.
LEMMA ShowsKeeps ==
  ASSUME TrackInv, WorkerPreviews \/ WorkerSends
  PROVE  TrackInv'
<1> DEFINE t == session.track
           n == session.operations
<1>1. /\ process = "up" /\ ThreadUnchanged /\ Working
      /\ serving \in ServingType /\ serving.job \in RequestType
  BY OnItsWay DEF WorkerPreviews, WorkerSends, ThreadRuns
<1>2. /\ serving' \in ServingType /\ serving'.id = serving.id
      /\ serving'.queue = serving.queue /\ serving'.source = serving.source
      /\ serving'.job = serving.job
  <2>1. \/ serving' = [serving EXCEPT !.previewed = TRUE]
        \/ serving' = [serving EXCEPT !.sent = serving.sent + 1]
    BY DEF WorkerPreviews, WorkerSends
  <2>2. serving.sent + 1 \in Nat
    BY <1>1 DEF ServingType
  <2>3. QED
    BY <1>1, <2>1, <2>2 DEF ServingType
<1>3. PICK type \in Events :
        \E x \in {[Event(type) EXCEPT !.preview = serving.job.preview],
                 [Event(type) EXCEPT !.offset = serving.sent]} : Says(x)
  BY DEF WorkerPreviews, WorkerSends, Events
<1> PICK x \in {[Event(type) EXCEPT !.preview = serving.job.preview],
               [Event(type) EXCEPT !.offset = serving.sent]} : Says(x)
  BY <1>3
<1>4. /\ Event(type) \in LineType /\ Event(type).type = type
      /\ Tells(t, n, Event(type), serving) /\ ~Upload(t, Event(type))
  BY <1>1, EventTells
<1>5. /\ x \in LineType /\ x.type = type /\ x.method = Event(type).method
      /\ x.operation = Event(type).operation /\ x.code = Event(type).code
      /\ x.revision = Event(type).revision /\ x.rows = Event(type).rows
  <2>1. serving.job.preview \in AnyFrame /\ serving.sent \in Nat
    BY <1>1 DEF ServingType, RequestType
  <2>2. QED
    BY <1>3, <1>4, <2>1 DEF LineType
<1>6. Tells(t, n, x, serving) /\ ~Upload(t, x) /\ x.type # "exited"
  <2>1. x.type # "exited"
    BY <1>5 DEF Events
  <2>2. ~Upload(t, x) /\ (Mine(t, x) <=> Mine(t, Event(type)))
    BY <1>4, <1>5 DEF Upload, Mine
  <2>3. Tells(t, n, x, serving)
    BY <1>4, <1>5, <2>2 DEF Tells
  <2>4. QED
    BY <2>1, <2>2, <2>3
<1>7. QED
  BY <1>1, <1>2, <1>5, <1>6, WrittenKeeps

\* CompletesKeeps: the worker answers its render.
LEMMA CompletesKeeps ==
  ASSUME TrackInv, WorkerCompletes
  PROVE  TrackInv'
<1> DEFINE t == session.track
           n == session.operations
<1>1. /\ process = "up" /\ ThreadUnchanged /\ serving \in ServingType
      /\ serving.job \in RequestType /\ serving.job.method = "track_render"
      /\ Agrees(t, n, serving.job, serving)
  BY OnItsWay DEF WorkerCompletes, ThreadRuns, Fits, Busy, Working
<1>2. /\ serving' \in ServingType /\ serving'.id = serving.id
      /\ serving'.queue = serving.queue /\ serving'.source = serving.source
      /\ serving'.job = NoRequest
  <2>1. serving' = [serving EXCEPT !.job = NoRequest]
    BY DEF WorkerCompletes
  <2>2. QED
    BY <1>1, <2>1, Blanks DEF ServingType
<1>3. PICK code \in {"superseded", "ok"} : Says(Reply(serving.job, code))
  BY DEF WorkerCompletes
<1>4. /\ Reply(serving.job, code) \in LineType
      /\ Reply(serving.job, code).type = "reply"
      /\ Tells(t, n, Reply(serving.job, code), serving)
      /\ ~Upload(t, Reply(serving.job, code))
  <2>1. ~Upload(t, serving.job)
    BY <1>1 DEF Upload, Uploads
  <2>2. QED
    BY <1>1, <2>1, Replied
<1>5. QED
  BY <1>1, <1>2, <1>3, <1>4, WrittenKeeps

\* EndsKeeps: the terminal event of the operation is written.
LEMMA EndsKeeps ==
  ASSUME TrackInv, WorkerEnds
  PROVE  TrackInv'
<1> DEFINE t == session.track
           n == session.operations
<1>1. /\ process = "up" /\ ThreadUnchanged /\ serving \in ServingType
      /\ serving.id <= n /\ serving.id \in Nat
  BY OnItsWay DEF WorkerEnds, Fits, ServingType
<1>2. /\ serving' \in ServingType /\ serving'.id = serving.id
      /\ serving'.queue = serving.queue /\ serving'.source = serving.source
      /\ serving'.job = serving.job
  BY <1>1 DEF WorkerEnds, ServingType
<1>3. PICK type \in {"track_ended", "error"} :
        Says([NoLine EXCEPT !.operation = serving.id, !.type = type])
  BY DEF WorkerEnds
<1> DEFINE x == [NoLine EXCEPT !.operation = serving.id, !.type = type]
<1>4. /\ x \in LineType /\ x.type = type /\ x.operation = serving.id
      /\ x.method = "cancel"
  <2>1. NoLine \in LineType /\ NoLine.method = "cancel"
    BY Blanks DEF NoLine
  <2>2. QED
    BY <1>1, <2>1 DEF LineType
<1> HIDE DEF x
<1>5. Tells(t, n, x, serving) /\ ~Upload(t, x)
  BY <1>1, <1>4 DEF Tells, Upload, Uploads, Events
<1>6. QED
  BY <1>1, <1>2, <1>3, <1>4, <1>5, WrittenKeeps DEF x

\* RejectsKeeps: the worker rejects a request that is left.
LEMMA RejectsKeeps ==
  ASSUME TrackInv, WorkerRejects
  PROVE  TrackInv'
<1> DEFINE t == session.track
           q == session.inbox
           n == session.operations
           old == serving.queue
           r == Head(old)
<1>1. /\ WorkerStep(q) /\ Fits(t, q, n, lines, serving)
      /\ lines \in Seq(LineType) /\ Written(lines) /\ OfOperation(serving)
      /\ serving \in ServingType /\ old \in Seq(RequestType) /\ old # <<>>
  BY ThreadStep, OnItsWay DEF WorkerRejects, ThreadUnchanged
<1>2. PICK code \in {"operation_not_found", "failed"} :
        lines' = Append(lines, Reply(r, code))
  BY DEF WorkerRejects, Says
<1>3. /\ r \in RequestType /\ Tail(old) \in Seq(RequestType)
      /\ \A i \in DOMAIN Tail(old) :
           Tail(old)[i] = old[i + 1] /\ i + 1 \in DOMAIN old
  <2> HIDE DEF old
  <2>1. QED
    BY <1>1, Beheaded DEF r
<1>4. /\ serving' \in ServingType /\ serving'.id = serving.id
      /\ serving'.queue = Tail(old) /\ serving'.source = serving.source
      /\ serving'.job = serving.job
  <2>1. serving' = [serving EXCEPT !.queue = Tail(old)]
    BY DEF WorkerRejects
  <2>2. QED
    BY <1>1, <1>3, <2>1 DEF ServingType
<1> HIDE DEF t, q, n, r
<1>5. /\ Fits(t, q, n, lines, serving') /\ Agrees(t, n, r, serving')
      /\ Upload(t, r) => NoUpload(t, q, lines, serving')
  BY <1>1, <1>4, FitsTaken DEF r
<1>6. /\ Reply(r, code) \in LineType /\ Reply(r, code).type = "reply"
      /\ Tells(t, n, Reply(r, code), serving')
      /\ Upload(t, Reply(r, code)) <=> Upload(t, r)
  BY <1>3, <1>5, Replied
<1>7. Fits(t, q, n, lines', serving') /\ Written(lines')
  BY <1>1, <1>2, <1>5, <1>6, FitsTold, WrittenMore
<1>8. OfOperation(serving')
  BY <1>1, <1>3, <1>4 DEF OfOperation, Busy
<1>9. QED
  BY <1>1, <1>4, <1>7, <1>8, WorkerKeeps DEF t, q, n

\* CommitsKeeps: the terminal event is decided, and the render is one of the
\* requests left.
LEMMA CommitsKeeps ==
  ASSUME TrackInv, WorkerCommits
  PROVE  TrackInv'
<1> DEFINE t == session.track
           q == session.inbox
           n == session.operations
           old == serving.queue
           job == serving.job
           new == IF Working THEN <<job>> \o old ELSE old
           k == IF Working THEN 1 ELSE 0
<1>1. /\ WorkerStep(q) /\ Fits(t, q, n, lines, serving)
      /\ Written(lines) /\ OfOperation(serving) /\ lines' = lines
      /\ serving \in ServingType /\ old \in Seq(RequestType) /\ job \in RequestType
  BY ThreadStep, OnItsWay DEF WorkerCommits
<1>2. /\ k \in Int /\ new \in Seq(RequestType)
      /\ \A i \in DOMAIN new :
           /\ i \in Nat
           /\ \/ Working /\ new[i] = job
              \/ i - k \in DOMAIN old /\ new[i] = old[i - k]
  BY <1>1
<1>3. /\ serving' \in ServingType /\ serving'.id = serving.id
      /\ serving'.queue = new /\ serving'.source = serving.source
      /\ serving'.job = NoRequest
  <2>1. serving' = [serving EXCEPT !.phase = "ending", !.job = NoRequest,
                                   !.queue = new]
    BY DEF WorkerCommits
  <2> HIDE DEF new
  <2>2. QED
    BY <1>1, <1>2, <2>1, Blanks DEF ServingType
<1> HIDE DEF t, q, n, new, k
<1>4. /\ \A i \in DOMAIN old : Agrees(t, n, old[i], serving)
      /\ Working => Agrees(t, n, job, serving) /\ ~Upload(t, job)
           /\ job.method = "track_render" /\ job.operation = serving.id
  BY <1>1 DEF Fits, OfOperation, Busy, Working, Upload, Uploads
<1>5. \A i \in DOMAIN new :
        /\ i \in Nat /\ Agrees(t, n, new[i], serving)
        /\ Upload(t, new[i]) => i - k \in DOMAIN old /\ new[i] = old[i - k]
  BY <1>2, <1>4
<1>6. Fits(t, q, n, lines', serving')
  BY <1>1, <1>2, <1>3, <1>5, FitsRequeued
<1>7. OfOperation(serving')
  BY <1>1, <1>2, <1>3, <1>4 DEF OfOperation, Busy
<1>8. QED
  BY <1>1, <1>3, <1>6, <1>7, WorkerKeeps DEF t, q, n

\* FreedKeeps: the operation is reset, or the process is gone.
LEMMA FreedKeeps ==
  ASSUME TrackInv, WorkerFinishes \/ WorkerDies
  PROVE  TrackInv'
<1> DEFINE t == session.track
           q == session.inbox
           n == session.operations
<1>1. /\ WorkerStep(q) /\ Fits(t, q, n, lines, serving) /\ Written(lines)
      /\ lines' = lines /\ serving' = Idle /\ t \in TrackType /\ n \in Nat
  BY ThreadStep, OnItsWay DEF WorkerFinishes, WorkerDies, ThreadUnchanged
<1>2. Fits(t, q, n, lines', serving')
  BY <1>1, FitsIdle
<1>3. serving' \in ServingType /\ OfOperation(serving')
  BY <1>1, Blanks DEF OfOperation, Idle, Busy
<1>4. QED
  BY <1>1, <1>2, <1>3, WorkerKeeps

\* StopsKeeps: shutdown cancels the operation.
LEMMA StopsKeeps ==
  ASSUME TrackInv, WorkerStops
  PROVE  TrackInv'
<1> DEFINE t == session.track
           q == session.inbox
           n == session.operations
<1>1. /\ WorkerStep(q) /\ Fits(t, q, n, lines, serving) /\ Written(lines)
      /\ lines' = lines /\ serving \in ServingType /\ OfOperation(serving)
  BY ThreadStep, OnItsWay DEF WorkerStops, ThreadUnchanged
<1>2. /\ serving' \in ServingType /\ serving'.id = serving.id
      /\ serving'.queue = serving.queue /\ serving'.source = serving.source
      /\ serving'.job = serving.job
  BY <1>1 DEF WorkerStops, ServingType
<1>3. Fits(t, q, n, lines', serving')
  BY <1>1, <1>2, FitsServing
<1>4. OfOperation(serving')
  BY <1>1, <1>2 DEF OfOperation, Busy
<1>5. QED
  BY <1>1, <1>2, <1>3, <1>4, WorkerKeeps

\* ReportedKeeps: the client stops, and the exit of the process waits to be
\* handled.
LEMMA ReportedKeeps ==
  ASSUME TrackInv, ExitReported
  PROVE  TrackInv'
<1> DEFINE t == session.track
           n == session.operations
           x == [NoLine EXCEPT !.type = "exited", !.code = process]
<1>1. /\ Fits(t, session.inbox, n, lines, serving) /\ lines \in Seq(LineType)
      /\ session \in SessionType /\ n \in Nat /\ serving \in ServingType
  BY OnItsWay
<1>2. /\ process' = "none" /\ lines' = Append(lines, x)
      /\ serving' = serving /\ scene' = scene /\ disturbed' = disturbed
      /\ pc' = pc /\ batch' = batch
      /\ session' = [session EXCEPT !.client = "stopped", !.inbox = <<>>]
  BY DEF ExitReported, Says
<1>3. /\ x \in LineType /\ x.type = "exited" /\ x.operation = None
      /\ x.method = "cancel"
  <2>1. NoLine \in LineType /\ NoLine.operation = None /\ NoLine.method = "cancel"
    BY Blanks DEF NoLine
  <2>2. process \in {"exited", "crashed"}
    BY DEF ExitReported
  <2>3. QED
    BY <2>1, <2>2 DEF LineType
<1>4. /\ session' \in SessionType /\ session'.track = t /\ session'.inbox = <<>>
      /\ session'.operations = n /\ session'.bake = session.bake
      /\ session'.invalidated = session.invalidated
      /\ session'.status = session.status /\ ~CanRequest(session)'
  <2>1. <<>> \in Seq(RequestType)
    OBVIOUS
  <2> HIDE DEF x
  <2>2. QED
    BY <1>1, <1>2, <2>1 DEF SessionType, CanRequest
<1> HIDE DEF x, t, n
<1>5. Fits(t, <<>>, n, lines, serving)
  <2> DEFINE none == <<>>
  <2>1. DOMAIN none = {}
    OBVIOUS
  <2> HIDE DEF none
  <2>2. OneUpload(t, none, lines, serving)
    BY <1>1, <2>1 DEF Fits, OneUpload
  <2>3. Fits(t, none, n, lines, serving)
    BY <1>1, <2>1, <2>2 DEF Fits
  <2>4. QED
    BY <2>3 DEF none
<1>6. Tells(t, n, x, serving) /\ ~Upload(t, x)
  BY <1>1, <1>3 DEF Tells, Upload, Mine, Uploads, Events, None
<1>7. Fits(t, <<>>, n, lines', serving)
  BY <1>1, <1>2, <1>3, <1>5, <1>6, FitsTold
<1>8. Coherent(session, scene, lines, disturbed)'
  <2>1. Coherent(session, scene, lines, disturbed)
    BY DEF TrackInv
  <2>2. Caused(session, scene, disturbed)'
    BY <1>2, <1>4, <2>1 DEF Coherent, Caused, Paced, Accounted, t, n
  <2>3. BakesTrack(session')
    BY <1>4, <2>1 DEF Coherent, BakesTrack, t
  <2>4. QED
    BY <1>2, <1>4, <1>7, <2>2, <2>3 DEF Coherent
<1>9. /\ lines' \in Seq(LineType) /\ Len(lines') = Len(lines) + 1
      /\ Len(lines) \in Nat
  BY <1>1, <1>2, <1>3
<1>10. QED
  BY <1>2, <1>8, <1>9 DEF TrackInv

\* TakenKeeps: a request of the operation is read.
LEMMA TakenKeeps ==
  ASSUME TrackInv, NEW method, NEW accepted, NEW answers,
         WorkerTakes(method, accepted, answers),
         Runs(Request.operation) => TrackInv'
  PROVE  TrackInv'
<1>1. CASE ~Runs(Request.operation)
  <2>1. /\ process = "up" /\ session.inbox # <<>> /\ UNCHANGED <<process, disturbed>>
        /\ session' = [session EXCEPT !.inbox = Tail(@)]
        /\ UNCHANGED <<pc, batch, scene>> /\ serving' = serving
        /\ lines' = Append(lines, Reply(Request, "operation_not_found"))
        /\ serving \in ServingType
    BY <1>1, OnItsWay DEF WorkerTakes, WorkerReads, Says
  <2>2. QED
    BY <2>1, AnsweredKeeps
<1>2. QED
  BY <1>1

\* WorkerRunsKeeps: every step of the worker and of the watch thread.
LEMMA WorkerRunsKeeps ==
  ASSUME TrackInv, WorkerRuns \/ WorkerCommits \/ WorkerDies
  PROVE  TrackInv'
<1>1. serving \in ServingType
  BY OnItsWay
<1>2. ASSUME NEW method \in {"hello", "load_model"}, WorkerPrepares(method)
      PROVE  TrackInv'
  <2>1. /\ process = "up" /\ process' = "up" /\ session.inbox # <<>>
        /\ session' = [session EXCEPT !.inbox = Tail(@)]
        /\ UNCHANGED <<pc, batch, scene>> /\ serving' = serving
        /\ UNCHANGED disturbed \/ Disturbs("failure")
        /\ Request.method # "track_chunk"
        /\ \E code \in {"ok", "failed"} : lines' = Append(lines, Reply(Request, code))
    BY <1>2 DEF WorkerPrepares, WorkerReads, Says
  <2>2. QED
    BY <1>1, <2>1, AnsweredKeeps
<1>3. CASE WorkerStarts
  <2>1. /\ process = "up" /\ process' = "up" /\ session.inbox # <<>>
        /\ session' = [session EXCEPT !.inbox = Tail(@)]
        /\ UNCHANGED <<pc, batch, scene>>
        /\ UNCHANGED disturbed \/ Disturbs("failure")
        /\ \/ /\ serving' = serving
              /\ \E code \in {"busy", "failed"} :
                   lines' = Append(lines, Reply(Request, code))
           \/ /\ UNCHANGED <<process, disturbed>> /\ Says(Reply(Request, "ok"))
              /\ serving' = [Idle EXCEPT !.id = Request.operation, !.phase = "running"]
    BY <1>3 DEF WorkerStarts, WorkerReads, Says
  <2>2. WorkerReads("track_start")
    BY <1>3 DEF WorkerStarts
  <2>3. QED
    BY <1>1, <2>1, <2>2, AnsweredKeeps, StartedKeeps
<1>4. ASSUME NEW method \in {"track_chunk", "track_prepare"},
             WorkerTakes(method, [serving EXCEPT !.queue = Append(@, Request)], <<>>)
      PROVE  TrackInv'
  <2>1. Runs(Request.operation) => TrackInv'
    BY <1>4, UploadTakenKeeps DEF WorkerTakes
  <2>2. QED
    BY <1>4, <2>1, TakenKeeps
<1>5. CASE WorkerRenders
  <2>1. Runs(Request.operation) => TrackInv'
    BY <1>5, RenderTakenKeeps
  <2>2. QED
    BY <1>5, <2>1, TakenKeeps DEF WorkerRenders
<1>6. ASSUME WorkerTakes("cancel", [serving EXCEPT !.canceled = TRUE],
                         <<Reply(Request, "ok")>>)
      PROVE  TrackInv'
  <2>1. ASSUME Runs(Request.operation)
        PROVE  TrackInv'
    <3>1. /\ process = "up" /\ process' = "up" /\ session.inbox # <<>>
          /\ session' = [session EXCEPT !.inbox = Tail(@)]
          /\ UNCHANGED <<pc, batch, scene>> /\ UNCHANGED disturbed
          /\ Request.method = "cancel"
          /\ lines' = lines \o <<Reply(Request, "ok")>>
          /\ serving' = [serving EXCEPT !.canceled = TRUE]
      BY <1>6, <2>1 DEF WorkerTakes, WorkerReads
    <3>2. lines' = Append(lines, Reply(Request, "ok"))
      <4>1. lines \in Seq(LineType)
        BY OnItsWay
      <4>2. QED
        BY <3>1, <4>1
    <3>3. /\ serving' \in ServingType /\ serving'.id = serving.id
          /\ serving'.queue = serving.queue /\ serving'.source = serving.source
          /\ serving'.job = serving.job
      BY <1>1, <3>1 DEF ServingType
    <3>4. QED
      BY <3>1, <3>2, <3>3, AnsweredKeeps
  <2>2. QED
    BY <1>6, <2>1, TakenKeeps
<1>7. CASE WorkerExits
  <2>1. /\ process = "up" /\ process' = "exited" /\ session.inbox # <<>>
        /\ session' = [session EXCEPT !.inbox = Tail(@)]
        /\ UNCHANGED <<pc, batch, scene>> /\ UNCHANGED disturbed
        /\ Request.method = "shutdown" /\ serving' = serving
        /\ lines' = Append(lines, Reply(Request, "ok"))
    BY <1>7 DEF WorkerExits, WorkerReads, Says
  <2>2. QED
    BY <1>1, <2>1, AnsweredKeeps
<1>8. QED
  BY <1>2, <1>3, <1>4, <1>5, <1>6, <1>7, TakesKeeps, ShowsKeeps, CompletesKeeps,
     CommitsKeeps, RejectsKeeps, EndsKeeps, FreedKeeps, StopsKeeps, ReportedKeeps
     DEF WorkerRuns
-----------------------------------------------------------------------------
(* The callbacks of Blender's main thread. *)

\* Disturbed: a disturbance is left to account for what it causes.
LEMMA Disturbed ==
  ASSUME NEW c, NEW s, NEW ls, NEW d \in Nat, Coherent(c, s, ls, d), NEW r
  PROVE  /\ Coherent(c, r, ls, d + 1) /\ Affords(c, d + 1) /\ Owed(c, r, d + 1)
         /\ r.source = s.source => Spare(c, r, d + 1) /\ Coherent(c, r, ls, d)
<1>1. /\ c \in SessionType /\ c.track \in TrackType /\ c.operations \in Nat
      /\ Fits(c.track, c.inbox, c.operations, ls, serving)
      /\ BakesTrack(c) /\ Caused(c, s, d)
  BY Parts
<1>2. /\ c.track.revision \in Nat
      /\ Flag(c.invalidated) \in Nat /\ Flag(~c.track.prepared) \in Nat
      /\ Flag(c.track.restart) \in Nat
  BY <1>1 DEF TrackType, Flag
<1>3. \A p : Flag(p) \in {0, 1}
  BY DEF Flag
<1> DEFINE x == c.observed # s.source \/ c.status \in Starting
           y == c.observed # r.source \/ c.status \in Starting
<1>4. Flag(x) \in {0, 1} /\ Flag(y) \in {0, 1} /\ (~y => Flag(y) = 0)
  BY DEF Flag
<1>5. /\ c.track.id # None =>
           c.track.revision + Flag(c.invalidated) + Flag(~c.track.prepared) <= d
      /\ c.track.id = None => ~c.invalidated
      /\ c.track.id # None => c.status \notin Starting
      /\ c.operations <= d
      /\ CanRequest(c) => c.operations + Flag(c.track.restart) + Flag(x) <= d
  BY <1>1 DEF Caused, Paced, Accounted
<1> HIDE DEF x, y
<1>6. /\ CanRequest(c) => c.operations + Flag(c.track.restart) + Flag(y) <= d + 1
      /\ CanRequest(c) /\ ~y => c.operations + Flag(c.track.restart) + Flag(y) < d + 1
  BY <1>1, <1>2, <1>4, <1>5
<1>7. Caused(c, r, d + 1)
  BY <1>1, <1>2, <1>5, <1>6 DEF Caused, Paced, Accounted, y
<1>8. Affords(c, d + 1)
  BY <1>2, <1>5 DEF Affords
<1>9. Owed(c, r, d + 1)
  BY <1>6 DEF Owed, Spare, y
<1>10. ASSUME r.source = s.source
       PROVE  Spare(c, r, d + 1) /\ Coherent(c, r, ls, d)
  <2>1. x = y
    BY <1>10 DEF x, y
  <2>2. CanRequest(c) => c.operations + Flag(c.track.restart) + Flag(y) < d + 1
    BY <1>1, <1>2, <1>4, <1>5, <2>1
  <2>3. Spare(c, r, d + 1)
    BY <2>2 DEF Spare, y
  <2>4. Caused(c, r, d)
    BY <1>10, <1>1 DEF Caused, Accounted
  <2>5. QED
    BY <1>1, <2>3, <2>4 DEF Coherent
<1>11. QED
  BY <1>1, <1>7, <1>8, <1>9, <1>10 DEF Coherent

\* CoherentNext: a callback leaves the worker alone.
LEMMA CoherentNext ==
  ASSUME UNCHANGED <<process, serving>>,
         Coherent(session', scene', lines', disturbed')
  PROVE  Coherent(session, scene, lines, disturbed)'
<1>1. CanRequest(session') <=> CanRequest(session)'
  BY DEF CanRequest
<1>2. Accounted(session, scene, disturbed)'
  BY <1>1 DEF Coherent, Caused, Accounted
<1>3. QED
  BY <1>2 DEF Coherent, Caused

\* What a callback is to bake: nothing, what the running bake asked for, or the
\* present scene.
BakesWell ==
  session'.baked \in
    {session.baked,
     {IF session.bake.on
      THEN [source |-> session.bake.source, timeline |-> session.bake.timeline]
      ELSE [source |-> scene.source, timeline |-> Evaluated(scene)]}}

\* CallbackBegins: what a callback of Blender's user interface finds.
LEMMA CallbackBegins ==
  ASSUME TrackInv, NEW kind, Callback(kind), NEW r
  PROVE  /\ Coherent(session, r, lines, disturbed + 1)
         /\ Affords(session, disturbed + 1) /\ Owed(session, r, disturbed + 1)
         /\ r.source = scene.source =>
              /\ Spare(session, r, disturbed + 1)
              /\ Coherent(session, r, lines, disturbed)
         /\ disturbed + 1 \in Nat /\ disturbed \in Nat /\ lines \in Seq(LineType)
         /\ serving \in ServingType /\ scene \in SceneType /\ scene.available
<1>1. /\ Coherent(session, scene, lines, disturbed) /\ scene \in SceneType
      /\ lines \in Seq(LineType) /\ serving \in ServingType /\ disturbed \in Nat
  BY OnItsWay DEF TrackInv
<1>2. scene.available
  BY DEF Callback, Idling
<1>3. QED
  BY <1>1, <1>2, Disturbed

\* CallbackKeeps: what it leaves.
LEMMA CallbackKeeps ==
  ASSUME TrackInv, NEW kind, Callback(kind), scene' \in SceneType,
         Coherent(session', scene', lines, disturbed + 1)
  PROVE  TrackInv'
<1>1. /\ UNCHANGED <<pc, batch, lines, process, serving>>
      /\ disturbed' = disturbed + 1 /\ disturbed < MaxDisturbances
  BY DEF Callback, Disturbs
<1>2. disturbed' \in 0..MaxDisturbances
  BY <1>1, OnItsWay
<1>3. Coherent(session, scene, lines, disturbed)'
  BY <1>1, CoherentNext
<1>4. QED
  BY <1>1, <1>2, <1>3 DEF TrackInv

\* EditKeeps: an edit of a setting.
LEMMA EditKeeps ==
  ASSUME TrackInv, Edit
  PROVE  TrackInv' /\ BakesWell
<1> DEFINE d == disturbed + 1
           mid == RefreshInference(session, scene')
<1>1. /\ Coherent(session, scene', lines, d) /\ Affords(session, d) /\ d \in Nat
      /\ lines \in Seq(LineType) /\ serving \in ServingType /\ scene \in SceneType
  BY CallbackBegins DEF Edit
<1>2. scene' \in SceneType
  <2>1. \E v \in Values :
          scene' \in {[scene EXCEPT !.shown = v],
                      [scene EXCEPT !.shown = v, !.curve = [f \in Frames |-> v]]}
    BY DEF Edit
  <2>2. \A v \in Values : [f \in Frames |-> v] \in Timelines
    BY DEF Timelines
  <2>3. QED
    BY <1>1, <2>1, <2>2, ZenonT(40) DEF SceneType
<1>3. session' = RefreshChannel(mid, scene') /\ Callback("edit")
  BY DEF Edit
<1> HIDE DEF d, mid
<1>4. Keeps(mid, session, scene', lines, d)
  BY <1>1, <1>2, InferenceKeeps DEF mid
<1>5. Keeps(session', mid, scene', lines, d)
  BY <1>1, <1>2, <1>3, <1>4, RefreshChannelKeeps DEF Keeps
<1>6. QED
  BY <1>2, <1>3, <1>4, <1>5, CallbackKeeps DEF Keeps, BakesWell, d

\* EditKeysKeeps: keys are set, moved or removed.
LEMMA EditKeysKeeps ==
  ASSUME TrackInv, EditKeys
  PROVE  TrackInv' /\ BakesWell
<1> DEFINE mid == RefreshChannel(session, scene')
<1>1. PICK curve \in Timelines, f \in Frames :
        scene' = [scene EXCEPT !.curve = curve, !.shown = curve[f]]
  BY DEF EditKeys
<1>2. scene \in SceneType /\ scene'.source = scene.source /\ scene' \in SceneType
  <2>1. scene \in SceneType
    BY DEF TrackInv
  <2>2. curve[f] \in Values
    BY DEF Timelines
  <2>3. scene' \in SceneType
    BY <1>1, <2>1, <2>2 DEF SceneType
  <2>4. QED
    BY <1>1, <2>1, <2>3 DEF SceneType
<1>3. /\ Coherent(session, scene', lines, disturbed) /\ disturbed \in Nat
      /\ lines \in Seq(LineType) /\ serving \in ServingType
  BY <1>2, CallbackBegins DEF EditKeys
<1>4. session' = Invalidate(mid, scene') /\ Callback("key")
  BY DEF EditKeys
<1> HIDE DEF mid
<1>5. Keeps(mid, session, scene', lines, disturbed)
  BY <1>2, <1>3, RefreshChannelKeeps DEF mid
<1>6. Coherent(mid, scene', lines, disturbed + 1) /\ Affords(mid, disturbed + 1)
  BY <1>3, <1>5, Disturbed DEF Keeps
<1>7. Keeps(session', mid, scene', lines, disturbed + 1)
  BY <1>3, <1>4, <1>6, InvalidateKeeps
<1>8. QED
  BY <1>2, <1>4, <1>5, <1>7, CallbackKeeps DEF Keeps, BakesWell

\* ChangeFrameKeeps: another frame is shown.
LEMMA ChangeFrameKeeps ==
  ASSUME TrackInv, ChangeFrame
  PROVE  TrackInv' /\ BakesWell
<1> DEFINE d == disturbed + 1
           mid == RefreshFrame(session, scene')
<1>1. /\ Coherent(session, scene', lines, d) /\ Affords(session, d) /\ d \in Nat
      /\ lines \in Seq(LineType) /\ serving \in ServingType /\ scene \in SceneType
  BY CallbackBegins DEF ChangeFrame
<1>2. scene' \in SceneType
  <2>1. PICK frame \in AnyFrame, f \in Frames :
          scene' = [scene EXCEPT !.frame = frame, !.shown = scene.curve[f]]
    BY DEF ChangeFrame, AnyFrame
  <2>2. scene.curve[f] \in Values
    BY <1>1 DEF SceneType, Timelines
  <2>3. QED
    BY <1>1, <2>1, <2>2 DEF SceneType
<1>3. session' = RequestFrame(mid, scene') /\ Callback("frame")
  BY DEF ChangeFrame
<1> HIDE DEF d, mid
<1>4. Keeps(mid, session, scene', lines, d)
  <2>1. Keeps(RefreshInference(session, scene'), session, scene', lines, d)
    BY <1>1, <1>2, InferenceKeeps
  <2>2. Keeps(session, session, scene', lines, d)
    BY <1>1 DEF Keeps
  <2>3. QED
    BY <2>1, <2>2 DEF mid, RefreshFrame
<1>5. Keeps(session', mid, scene', lines, d)
  BY <1>1, <1>2, <1>3, <1>4, FrameKeeps DEF Keeps
<1>6. QED
  BY <1>2, <1>3, <1>4, <1>5, CallbackKeeps DEF Keeps, BakesWell, d

\* ChangeSourceKeeps: the channel's strips change.
LEMMA ChangeSourceKeeps ==
  ASSUME TrackInv, ChangeSource
  PROVE  TrackInv' /\ BakesWell
<1> DEFINE d == disturbed + 1
<1>1. /\ Coherent(session, scene', lines, d) /\ Owed(session, scene', d) /\ d \in Nat
      /\ lines \in Seq(LineType) /\ serving \in ServingType /\ scene \in SceneType
      /\ scene.available
  BY CallbackBegins DEF ChangeSource
<1>2. scene' \in SceneType /\ scene'.available /\ Callback("source")
  <2>1. PICK source \in AnySource : scene' = [scene EXCEPT !.source = source]
    BY DEF ChangeSource, AnySource
  <2>2. scene' \in SceneType
    BY <1>1, <2>1 DEF SceneType
  <2>3. QED
    BY <1>1, <2>1, <2>2 DEF SceneType, ChangeSource
<1> HIDE DEF d
<1>3. /\ Keeps(RefreshChannel(session, scene'), session, scene', lines, d)
      /\ Keeps(AudioChanged(session, scene'), session, scene', lines, d)
  BY <1>1, <1>2, RefreshChannelKeeps, AudioChangedKeeps
<1>4. Keeps(session', session, scene', lines, d)
  BY <1>3 DEF ChangeSource
<1>5. QED
  BY <1>2, <1>4, CallbackKeeps DEF Keeps, BakesWell, d

\* ChangeModeKeeps: the input mode changes.
LEMMA ChangeModeKeeps ==
  ASSUME TrackInv, ChangeMode
  PROVE  TrackInv' /\ BakesWell
<1> DEFINE d == disturbed + 1
<1>1. scene \in SceneType /\ scene.available /\ Callback("mode")
  BY DEF TrackInv, ChangeMode, Callback, Idling
<1>2. /\ scene' \in SceneType /\ scene'.source = scene.source /\ scene'.available
  <2>1. PICK mode \in {"SELECTED", "STREAM"} : scene' = [scene EXCEPT !.mode = mode]
    BY DEF ChangeMode
  <2>2. scene' \in SceneType
    BY <1>1, <2>1 DEF SceneType
  <2>3. QED
    BY <1>1, <2>1, <2>2 DEF SceneType
<1>3. /\ Coherent(session, scene', lines, d) /\ Spare(session, scene', d) /\ d \in Nat
      /\ lines \in Seq(LineType) /\ serving \in ServingType
  BY <1>1, <1>2, CallbackBegins
<1>4. session' = ModeChanged(session, scene')
  BY DEF ChangeMode
<1> HIDE DEF d
<1>5. Keeps(session', session, scene', lines, d)
  BY <1>2, <1>3, <1>4, ModeChangedKeeps
<1>6. QED
  BY <1>1, <1>2, <1>5, CallbackKeeps DEF Keeps, BakesWell, d

\* PlayKeeps: playback begins, or the scene is removed.
LEMMA PlayKeeps ==
  ASSUME TrackInv, Play \/ RemoveScene
  PROVE  TrackInv' /\ BakesWell
<1>1. PICK kind : Callback(kind)
  BY DEF Play, RemoveScene
<1>2. Coherent(session, scene', lines, disturbed + 1) /\ scene \in SceneType
  BY <1>1, CallbackBegins
<1>3. /\ session' = session
      /\ scene' \in {[scene EXCEPT !.playing = TRUE],
                     [scene EXCEPT !.available = FALSE]}
  BY DEF Play, RemoveScene
<1>4. scene' \in SceneType
  BY <1>2, <1>3 DEF SceneType
<1>5. QED
  BY <1>1, <1>2, <1>3, <1>4, CallbackKeeps DEF BakesWell

\* PauseKeeps: playback ends.
LEMMA PauseKeeps ==
  ASSUME TrackInv, Pause
  PROVE  TrackInv' /\ BakesWell
<1>1. /\ UNCHANGED <<pc, batch, session, lines, process, serving, disturbed>>
      /\ scene' = [scene EXCEPT !.playing = FALSE]
  BY DEF Pause
<1>2. scene \in SceneType /\ disturbed \in Nat
      /\ Coherent(session, scene, lines, disturbed)
  BY OnItsWay DEF TrackInv
<1>3. scene' \in SceneType /\ scene'.source = scene.source
  BY <1>1, <1>2 DEF SceneType
<1>4. Coherent(session, scene', lines, disturbed)
  BY <1>2, <1>3, Disturbed
<1>5. Coherent(session, scene, lines, disturbed)'
  BY <1>1, <1>4, CoherentNext
<1>6. QED
  BY <1>1, <1>3, <1>5 DEF TrackInv, BakesWell

\* StopBakeKeeps: Stop, Bake and Cancel Bake.
LEMMA StopBakeKeeps ==
  ASSUME TrackInv, Stop \/ Bake \/ Unbake
  PROVE  TrackInv' /\ BakesWell
<1> DEFINE d == disturbed + 1
<1>1. PICK kind : Callback(kind)
  BY DEF Stop, Bake, Unbake
<1>2. /\ Coherent(session, scene, lines, d) /\ Affords(session, d)
      /\ Spare(session, scene, d) /\ d \in Nat /\ lines \in Seq(LineType)
      /\ serving \in ServingType /\ scene \in SceneType /\ scene.available
  BY <1>1, CallbackBegins
<1>3. scene' = scene
  BY DEF Stop, Bake, Unbake
<1> HIDE DEF d
<1>4. ASSUME Stop \/ Unbake
      PROVE  Keeps(session', session, scene, lines, d)
  BY <1>2, <1>4, StopKeeps, CancelBakeKeeps DEF Stop, Unbake
<1>5. ASSUME Bake
      PROVE  /\ Coherent(session', scene, lines, d) /\ ~session.bake.on
             /\ Baked(session', session,
                      [source |-> scene.source, timeline |-> Evaluated(scene)])
  BY <1>2, <1>5, StartBakeKeeps DEF Bake
<1>6. /\ Coherent(session', scene', lines, d)
      /\ session'.baked = session.baked \/ ~session.bake.on
      /\ session'.baked = session.baked \/ Baked(session', session,
           [source |-> scene.source, timeline |-> Evaluated(scene)])
  BY <1>3, <1>4, <1>5 DEF Keeps
<1>7. BakesWell
  BY <1>6 DEF BakesWell, Baked
<1>8. QED
  BY <1>1, <1>2, <1>3, <1>6, <1>7, CallbackKeeps DEF d

\* AtFirst: a session that has no worker, or one that just started.
LEMMA AtFirst ==
  ASSUME NEW c \in SessionType, NEW s, NEW d \in Nat, NEW q \in Seq(RequestType),
         c.track = NoTrack, c.bake = NoBake, ~c.invalidated, c.inbox = q,
         \A i \in DOMAIN q : q[i] = NoRequest, c.operations <= d,
         c.client = "running" => c.operations < d
  PROVE  /\ BakesTrack(c)
         /\ Fits(c.track, c.inbox, c.operations, <<>>, Idle)
         /\ Paced(c, d)
         /\ c.client = "running" =>
              c.operations + Flag(c.track.restart)
                + Flag(c.observed # s.source \/ c.status \in Starting) <= d
<1> DEFINE n == c.operations
           none == <<>>
<1>1. /\ NoTrack.id = None /\ ~NoTrack.prepared /\ ~NoTrack.restart
      /\ NoTrack.revision = None /\ NoTrack.rendering = NoTimeline
      /\ NoTrack.published = NoTimeline /\ NoTrack.stage = NoStage
      /\ NoTrack.cache = {}
      /\ NoStage.count = 0 /\ NoStage.rows = {} /\ ~NoBake.on
  BY DEF NoTrack, NoStage, NoBake
<1>2. /\ Idle.id = None /\ Idle.queue = none /\ Idle.job = NoRequest /\ ~Busy(Idle)
      /\ DOMAIN none = {}
  BY DEF Idle, Busy
<1>3. n \in Nat
  BY DEF SessionType
<1>4. Whole(NoTrack)
  BY <1>1 DEF Whole
<1>5. Agrees(NoTrack, n, NoRequest, Idle)
  BY <1>1, <1>3 DEF Agrees, NoRequest, Upload, Mine, Uploads, None
<1> HIDE DEF none
<1>6. OneUpload(NoTrack, q, none, Idle)
  <2>1. \A e : ~Upload(NoTrack, e)
    BY <1>1 DEF Upload, Mine
  <2>2. QED
    BY <2>1 DEF OneUpload
<1>7. Fits(NoTrack, q, n, none, Idle)
  BY <1>1, <1>2, <1>3, <1>4, <1>5, <1>6 DEF Fits, None
<1>8. BakesTrack(c)
  BY <1>1 DEF BakesTrack
<1>9. Paced(c, d)
  BY <1>1 DEF Paced
<1>10. c.client = "running" =>
         n + Flag(c.track.restart)
           + Flag(c.observed # s.source \/ c.status \in Starting) <= d
  <2>1. /\ Flag(c.track.restart) = 0
        /\ Flag(c.observed # s.source \/ c.status \in Starting) \in {0, 1}
    BY <1>1 DEF Flag
  <2>2. QED
    BY <1>3, <2>1
<1>11. QED
  BY <1>7, <1>8, <1>9, <1>10 DEF none

\* AtFirstKeeps: a session begins, or one without a worker.
LEMMA AtFirstKeeps ==
  ASSUME session' \in SessionType, scene' \in SceneType, NEW q \in Seq(RequestType),
         session'.track = NoTrack, session'.bake = NoBake, ~session'.invalidated,
         session'.inbox = q, \A i \in DOMAIN q : q[i] = NoRequest,
         session'.operations <= disturbed', disturbed' \in 0..MaxDisturbances,
         session'.client = "running" => session'.operations < disturbed',
         serving' = Idle, lines' = <<>>, process' \in {"none", "up"},
         pc' = "idle", batch' = 0
  PROVE  TrackInv'
<1>1. disturbed' \in Nat
  BY DEF TrackAssumption
<1> DEFINE c == session'
           d == disturbed'
           s == scene'
<1>2. c \in SessionType /\ d \in Nat
  BY <1>1
<1> HIDE DEF c, d, s
<1>3. /\ BakesTrack(c) /\ Fits(c.track, c.inbox, c.operations, <<>>, Idle)
      /\ Paced(c, d)
      /\ c.client = "running" =>
           c.operations + Flag(c.track.restart)
             + Flag(c.observed # s.source \/ c.status \in Starting) <= d
  BY <1>2, AtFirst DEF c, d
<1>4. BakesTrack(session)' /\ Paced(session, disturbed)'
      /\ Fits(session.track, session.inbox, session.operations, lines, serving)'
      /\ (session'.client = "running" =>
           session'.operations + Flag(session'.track.restart)
             + Flag(session'.observed # scene'.source \/ session'.status \in Starting)
               <= disturbed')
  BY <1>3 DEF c, d, s
<1>5. Accounted(session, scene, disturbed)'
  BY <1>4 DEF Accounted, CanRequest
<1>6. Coherent(session, scene, lines, disturbed)'
  BY <1>4, <1>5 DEF Coherent, Caused
<1>7. /\ lines' \in Seq(LineType) /\ Len(lines') = 0 /\ DOMAIN lines' = {}
      /\ serving' \in ServingType /\ OfOperation(serving')
  BY Blanks DEF OfOperation, Idle, Busy
<1>8. QED
  BY <1>6, <1>7 DEF TrackInv

\* InitKeeps: the session begins.
LEMMA InitKeeps ==
  ASSUME Init
  PROVE  TrackInv
<1>1. /\ session = Fresh /\ scene = NewScene /\ lines = <<>> /\ process = "none"
      /\ serving = Idle /\ disturbed = 0 /\ pc = "idle" /\ batch = 0
  BY DEF Init
<1>2. /\ session \in SessionType /\ scene \in SceneType /\ serving \in ServingType
      /\ session.track = NoTrack /\ session.bake = NoBake
      /\ session.invalidated = FALSE /\ session.inbox = <<>>
      /\ session.operations = 0 /\ session.client = "stopped"
  BY <1>1, Blanks, SceneAtFirst DEF Fresh
<1>3. /\ <<>> \in Seq(RequestType) /\ DOMAIN <<>> = {} /\ lines \in Seq(LineType)
      /\ Len(lines) = 0 /\ DOMAIN lines = {}
  BY <1>1
<1>4. /\ BakesTrack(session) /\ Paced(session, 0)
      /\ Fits(session.track, session.inbox, session.operations, <<>>, Idle)
  <2> DEFINE c == session
             q == session.inbox
  <2>1. /\ c \in SessionType /\ c.track = NoTrack /\ c.bake = NoBake
        /\ ~c.invalidated /\ c.operations <= 0 /\ c.client # "running"
        /\ q \in Seq(RequestType) /\ \A i \in DOMAIN q : q[i] = NoRequest
        /\ c.inbox = q /\ 0 \in Nat
    BY <1>2, <1>3
  <2> HIDE DEF c, q
  <2>2. /\ BakesTrack(c) /\ Paced(c, 0)
        /\ Fits(c.track, c.inbox, c.operations, <<>>, Idle)
    BY <2>1, AtFirst
  <2>3. QED
    BY <2>2 DEF c
<1>5. Accounted(session, scene, 0)
  BY <1>2 DEF Accounted, CanRequest
<1>6. Coherent(session, scene, lines, disturbed) /\ OfOperation(serving)
  BY <1>1, <1>2, <1>4, <1>5 DEF Coherent, Caused, OfOperation, Idle, Busy
<1>7. QED
  BY <1>1, <1>2, <1>3, <1>6 DEF TrackInv, TrackAssumption

\* LoadFileKeeps: another file is loaded.
LEMMA LoadFileKeeps ==
  ASSUME TrackInv, LoadFile
  PROVE  TrackInv' /\ session' = Fresh
<1>1. /\ session' = Fresh /\ scene' = NewScene /\ lines' = <<>>
      /\ process' = "none" /\ serving' = Idle /\ disturbed' = disturbed + 1
      /\ pc' = "idle" /\ batch' = 0 /\ disturbed < MaxDisturbances
  BY DEF LoadFile, Disturbs, TrackInv
<1>2. /\ session' \in SessionType /\ scene' \in SceneType
      /\ session'.track = NoTrack /\ session'.bake = NoBake
      /\ session'.invalidated = FALSE /\ session'.inbox = <<>>
      /\ session'.operations = 0 /\ session'.client = "stopped"
  BY <1>1, Blanks, SceneAtFirst DEF Fresh
<1>3. <<>> \in Seq(RequestType) /\ DOMAIN <<>> = {}
  OBVIOUS
<1>4. disturbed' \in 0..MaxDisturbances /\ 0 <= disturbed'
  BY <1>1, OnItsWay
<1>5. QED
  BY <1>1, <1>2, <1>3, <1>4, AtFirstKeeps

\* StartIsClean: a worker is started.
LEMMA StartIsClean ==
  ASSUME TrackInv, Start
  PROVE  TrackInv' /\ BakesWell
<1> DEFINE b == [ReleaseBake(ReleaseTrack(ForgetModel(session))) EXCEPT
                   !.phase = "greeting", !.rejected = FALSE, !.expected = FALSE,
                   !.registered = FALSE, !.client = "running",
                   !.inbox = <<NoRequest>>]
<1>1. /\ session' = SetStatus(b, scene, "starting") /\ scene.available
      /\ scene' = scene /\ lines' = <<>> /\ process' = "up" /\ serving' = Idle
      /\ disturbed' = disturbed + 1 /\ pc' = "idle" /\ batch' = 0
      /\ disturbed < MaxDisturbances
  BY DEF Start, StartWorker, Idling, Disturbs, TrackInv
<1>2. /\ session \in SessionType /\ scene \in SceneType /\ disturbed \in Nat
      /\ MaxDisturbances \in Nat /\ session.operations \in Nat
      /\ session.operations <= disturbed /\ Coherent(session, scene, lines, disturbed)
  BY OnItsWay DEF TrackInv, Coherent, Caused, Paced
<1>3. <<NoRequest>> \in Seq(RequestType) /\ NoTrack \in TrackType
      /\ NoBake \in BakeType /\ \A i \in DOMAIN <<NoRequest>> : <<NoRequest>>[i] = NoRequest
  BY Blanks
<1>4. /\ b \in SessionType /\ b.track = NoTrack /\ b.bake = NoBake
      /\ ~b.invalidated /\ b.inbox = <<NoRequest>>
      /\ b.operations = session.operations /\ b.baked = session.baked
  BY <1>2, <1>3, ZenonT(40) DEF ReleaseBake, ReleaseTrack, ForgetModel, SessionType
<1> HIDE DEF b
<1>5. /\ session' \in SessionType /\ session'.track = NoTrack
      /\ session'.bake = NoBake
      /\ ~session'.invalidated /\ session'.inbox = <<NoRequest>>
      /\ session'.operations = session.operations
      /\ session'.baked = session.baked
  BY <1>1, <1>4 DEF SetStatus, SessionType, Statuses
<1>6. /\ disturbed' \in 0..MaxDisturbances /\ session'.operations < disturbed'
      /\ session'.operations <= disturbed' /\ scene' \in SceneType
  BY <1>1, <1>2, <1>5
<1>7. TrackInv'
  BY <1>1, <1>3, <1>5, <1>6, AtFirstKeeps
<1>8. QED
  BY <1>5, <1>7 DEF BakesWell
-----------------------------------------------------------------------------
(* The timer callback. *)

\* PollKeeps: a poll begins.
LEMMA PollKeeps ==
  ASSUME TrackInv, PollBegins
  PROVE  TrackInv' /\ BakesWell
<1> DEFINE one == RefreshChannel(session, scene)
           two == RefreshInvalidated(one, scene)
<1>1. /\ Coherent(session, scene, lines, disturbed) /\ disturbed \in Nat
      /\ lines \in Seq(LineType) /\ serving \in ServingType /\ scene \in SceneType
  BY OnItsWay DEF TrackInv
<1>2. session' = CancelOrphan(two, scene)
  BY DEF PollBegins
<1> HIDE DEF one, two
<1>3. Keeps(one, session, scene, lines, disturbed)
  BY <1>1, RefreshChannelKeeps DEF one
<1>4. Keeps(two, one, scene, lines, disturbed)
  BY <1>1, <1>3, RescanKeeps DEF two, Keeps
<1>5. Keeps(session', two, scene, lines, disturbed)
  BY <1>1, <1>2, <1>4, OrphanKeeps DEF Keeps
<1>6. /\ UNCHANGED <<process, serving, scene, lines, disturbed>>
      /\ pc' = "lines" /\ batch' = Len(lines)
  BY DEF PollBegins, MainThreadOnly, LinesThere
<1>7. Coherent(session, scene, lines, disturbed)'
  BY <1>5, <1>6, CoherentNext DEF Keeps
<1>8. batch' \in 0..Len(lines')
  BY <1>1, <1>6
<1>9. QED
  BY <1>3, <1>4, <1>5, <1>6, <1>7, <1>8 DEF TrackInv, BakesWell, Keeps

\* LineBegins: the line at the head of the batch.
LEMMA LineBegins ==
  ASSUME TrackInv, NextLine
  PROVE  /\ Coherent(session, scene, Tail(lines), disturbed)
         /\ Told(session, Head(lines), Tail(lines))
         /\ Head(lines).type = "exited" => process # "up"
         /\ lines # <<>> /\ Tail(lines) \in Seq(LineType)
         /\ Len(Tail(lines)) = Len(lines) - 1 /\ batch - 1 \in 0..Len(Tail(lines))
         /\ \A i \in DOMAIN Tail(lines) :
              Tail(lines)[i].type = "exited" => process # "up"
         /\ serving \in ServingType /\ scene \in SceneType /\ disturbed \in Nat
         /\ UNCHANGED <<process, serving, scene>>
<1>1. /\ Coherent(session, scene, lines, disturbed) /\ disturbed \in Nat
      /\ lines \in Seq(LineType) /\ serving \in ServingType /\ scene \in SceneType
      /\ \A i \in DOMAIN lines : lines[i].type = "exited" => process # "up"
      /\ batch \in 0..Len(lines) /\ batch > 0 /\ Len(lines) \in Nat
      /\ UNCHANGED <<process, serving, scene>>
  BY OnItsWay DEF TrackInv, NextLine, MainThreadOnly
<1>2. lines # <<>>
  BY <1>1
<1>3. /\ Head(lines) = lines[1] /\ 1 \in DOMAIN lines /\ Head(lines) \in LineType
      /\ Tail(lines) \in Seq(LineType) /\ Len(Tail(lines)) = Len(lines) - 1
      /\ \A i \in DOMAIN Tail(lines) :
           Tail(lines)[i] = lines[i + 1] /\ i + 1 \in DOMAIN lines
  BY <1>1, <1>2, Beheaded
<1>4. Fits(session.track, session.inbox, session.operations, lines, serving)
  BY <1>1 DEF Coherent
<1>5. /\ Fits(session.track, session.inbox, session.operations, Tail(lines), serving)
      /\ Tells(session.track, session.operations, Head(lines), serving)
      /\ Upload(session.track, Head(lines)) =>
           NoUpload(session.track, session.inbox, Tail(lines), serving)
  BY <1>1, <1>2, <1>4, FitsHandled
<1>6. /\ Coherent(session, scene, Tail(lines), disturbed)
      /\ Told(session, Head(lines), Tail(lines))
  BY <1>1, <1>3, <1>5 DEF Coherent, Told
<1>7. batch - 1 \in 0..Len(Tail(lines))
  BY <1>1, <1>3
<1>8. QED
  BY <1>1, <1>2, <1>3, <1>6, <1>7

\* LineEnds: the line was handled.
LEMMA LineEnds ==
  ASSUME TrackInv, NextLine, pc' = pc, batch' = batch - 1, lines' = Tail(lines),
         disturbed' \in 0..MaxDisturbances,
         Coherent(session', scene, Tail(lines), disturbed')
  PROVE  TrackInv'
<1>1. /\ Tail(lines) \in Seq(LineType) /\ batch - 1 \in 0..Len(Tail(lines))
      /\ \A i \in DOMAIN Tail(lines) :
           Tail(lines)[i].type = "exited" => process # "up"
      /\ UNCHANGED <<process, serving, scene>> /\ pc = "lines"
  BY LineBegins DEF NextLine
<1>2. Coherent(session, scene, lines, disturbed)'
  BY <1>1, CoherentNext
<1>3. QED
  BY <1>1, <1>2 DEF TrackInv

\* LineKeeps: a line is handled.
LEMMA LineKeeps ==
  ASSUME TrackInv, HandleLine
  PROVE  TrackInv' /\ BakesWell
<1> DEFINE few == Tail(lines)
           x == Head(lines)
<1>1. /\ NextLine /\ pc' = pc /\ batch' = batch - 1 /\ lines' = few
      /\ disturbed' = disturbed /\ session' = Handle(session, scene, x)
  BY DEF HandleLine
<1>2. /\ Coherent(session, scene, few, disturbed) /\ Told(session, x, few)
      /\ x.type = "exited" => process # "up"
      /\ few \in Seq(LineType)
      /\ serving \in ServingType /\ scene \in SceneType /\ disturbed \in Nat
  BY <1>1, LineBegins
<1> HIDE DEF few, x
<1>3. Bakes(session', session, scene, few, disturbed)
  BY <1>1, <1>2, HandleKeeps
<1>4. TrackInv'
  <2>1. disturbed' \in 0..MaxDisturbances
    BY <1>1 DEF TrackInv
  <2>2. Coherent(session', scene, Tail(lines), disturbed')
    BY <1>1, <1>3 DEF Bakes, few
  <2>3. QED
    BY <1>1, <2>1, <2>2, LineEnds DEF few
<1>5. BakesWell
  BY <1>3 DEF Bakes, Baked, BakesWell
<1>6. QED
  BY <1>4, <1>5

\* UnreadableKeeps: the channel's audio cannot be read.
LEMMA UnreadableKeeps ==
  ASSUME TrackInv, AudioUnreadable
  PROVE  TrackInv' /\ BakesWell
<1> DEFINE few == Tail(lines)
           x == Head(lines)
           d == disturbed + 1
<1>1. /\ NextLine /\ pc' = pc /\ batch' = batch - 1 /\ lines' = few
      /\ disturbed' = d /\ disturbed < MaxDisturbances
      /\ session' = FailTrack(session, scene, "error")
      /\ x.method = "track_start" /\ session.track.id = x.operation
  BY DEF AudioUnreadable, Disturbs, Reads
<1>2. /\ Coherent(session, scene, few, disturbed) /\ Told(session, x, few)
      /\ scene \in SceneType /\ disturbed \in Nat
  BY <1>1, LineBegins
<1>3. d \in Nat /\ d \in 0..MaxDisturbances /\ "error" \in Errors
  BY <1>1, <1>2, OnItsWay DEF Errors
<1>4. session.track.id # None
  BY <1>1, <1>2 DEF Told, Tells, Uploads
<1>5. Coherent(session, scene, few, d)
  BY <1>2, Disturbed
<1> HIDE DEF few, x, d
<1>6. Keeps(session', session, scene, few, d)
  BY <1>1, <1>2, <1>3, <1>4, <1>5, FailKeeps
<1>7. TrackInv'
  BY <1>1, <1>3, <1>6, LineEnds DEF Keeps, few
<1>8. QED
  BY <1>6, <1>7 DEF Keeps, BakesWell

\* PollEndKeeps: a poll ends, or the handshake takes too long.
LEMMA PollEndKeeps ==
  ASSUME TrackInv, PollEnds
  PROVE  TrackInv' /\ BakesWell
<1>1. /\ Coherent(session, scene, lines, disturbed) /\ disturbed \in Nat
      /\ scene \in SceneType
      /\ UNCHANGED <<process, serving, batch, scene, lines>> /\ batch = 0
      /\ pc' = "idle"
  BY OnItsWay DEF TrackInv, PollEnds, MainThreadOnly
<1>2. CASE UNCHANGED <<session, disturbed>>
  <2>1. Coherent(session, scene, lines, disturbed)'
    BY <1>1, <1>2, CoherentNext
  <2>2. QED
    BY <1>1, <1>2, <2>1 DEF TrackInv, BakesWell
<1>3. CASE Disturbs("failure") /\ session' = Reject(session, scene)
  <2>1. disturbed' = disturbed + 1 /\ disturbed' \in 0..MaxDisturbances
        /\ disturbed' \in Nat
    BY <1>1, <1>3, OnItsWay DEF Disturbs
  <2>2. Keeps(session', session, scene, lines, disturbed)
    BY <1>1, <1>3, RejectKeeps
  <2>3. Coherent(session', scene, lines, disturbed + 1)
    BY <1>1, <2>2, Disturbed DEF Keeps
  <2>4. Coherent(session, scene, lines, disturbed)'
    BY <1>1, <2>1, <2>3, CoherentNext
  <2>5. QED
    BY <1>1, <2>1, <2>2, <2>4 DEF TrackInv, BakesWell, Keeps
<1>4. QED
  BY <1>2, <1>3 DEF PollEnds

\* FailsKeeps: the callback fails and loses the rest of its batch.
LEMMA FailsKeeps ==
  ASSUME TrackInv, NEW c, CallbackFails(c), disturbed' \in 0..MaxDisturbances,
         disturbed' \in {disturbed, disturbed + 1},
         Coherent(c, scene, lines, disturbed), c.baked = session.baked
  PROVE  TrackInv' /\ session'.baked = session.baked
<1> DEFINE few == SubSeq(lines, batch + 1, Len(lines))
           one == ReleaseBake(c)
           two == [one EXCEPT !.track.failed = FALSE]
           d == disturbed
<1>1. /\ lines \in Seq(LineType) /\ scene \in SceneType /\ d \in Nat
      /\ batch \in 0..Len(lines) /\ Len(lines) \in Nat /\ batch \in Nat
      /\ \A i \in DOMAIN lines : lines[i].type = "exited" => process # "up"
  BY OnItsWay DEF TrackInv
<1>2. /\ session' = SetStatus(two, scene, "error") /\ lines' = few
      /\ pc' = "idle" /\ batch' = 0 /\ UNCHANGED <<process, serving, scene>>
  BY DEF CallbackFails, NextLine, MainThreadOnly
<1>3. /\ few \in Seq(LineType) /\ Len(few) \in Nat
      /\ \A i \in DOMAIN few :
           i \in Nat /\ i + batch \in DOMAIN lines /\ few[i] = lines[i + batch]
  BY <1>1
<1> HIDE DEF few, one, two, d
<1>4. Keeps(one, c, scene, lines, d) /\ one \in SessionType
  BY <1>1, BakeReleased DEF one, d, Keeps, Coherent
<1>5. Keeps(two, one, scene, lines, d)
  <2>1. /\ Coherent(one, scene, lines, d) /\ one.track \in TrackType
        /\ one.track.id = None => one.track = NoTrack
    BY <1>4 DEF Keeps, SessionType, Coherent, Fits, Whole
  <2>2. CASE one.track.id # None
    <3>1. Keeps([one EXCEPT !.track.failed = FALSE,
                            !.track.stage = one.track.stage], one, scene, lines, d)
      BY <1>1, <2>1, <2>2, FailedKeeps
    <3>2. [one EXCEPT !.track.failed = FALSE, !.track.stage = one.track.stage] = two
      BY <1>4, <2>1, ZenonT(40) DEF SessionType, TrackType, two
    <3>3. QED
      BY <3>1, <3>2
  <2>3. CASE one.track.id = None
    <3>1. one.track.failed = FALSE
      BY <2>1, <2>3 DEF NoTrack
    <3>2. two = one
      BY <1>4, <2>1, <3>1 DEF SessionType, TrackType, two
    <3>3. QED
      BY <2>1, <3>2 DEF Keeps
  <2>4. QED
    BY <2>2, <2>3
<1>6. Keeps(session', two, scene, lines, d)
  <2>1. "error" \in Statuses \ Starting
    BY DEF Statuses, Errors, Starting
  <2>2. QED
    BY <1>1, <1>2, <1>5, <2>1, StatusKeeps DEF Keeps
<1>7. Coherent(session', scene, few, d)
  <2>1. /\ Coherent(session', scene, lines, d)
        /\ Fits(session'.track, session'.inbox, session'.operations, lines, serving)
    BY <1>6 DEF Keeps, Coherent
  <2>2. Fits(session'.track, session'.inbox, session'.operations, few, serving)
    BY <1>1, <1>3, <2>1, FitsFewer
  <2>3. QED
    BY <2>1, <2>2 DEF Coherent
<1>8. Coherent(session', scene, few, disturbed')
  BY <1>1, <1>7, Disturbed DEF d
<1>9. Coherent(session, scene, lines, disturbed)'
  BY <1>2, <1>8, CoherentNext
<1>10. session'.baked = session.baked
  BY <1>4, <1>5, <1>6 DEF Keeps
<1>11. QED
  BY <1>1, <1>2, <1>3, <1>9, <1>10 DEF TrackInv

\* LoadFailsKeeps: load_model cannot be sent.
LEMMA LoadFailsKeeps ==
  ASSUME TrackInv, LoadFails
  PROVE  TrackInv' /\ BakesWell
<1> DEFINE c == [ForgetModel(session) EXCEPT !.phase = "negotiated"]
<1>1. /\ Coherent(session, scene, lines, disturbed) /\ session \in SessionType
      /\ CallbackFails(c) /\ disturbed' = disturbed /\ ~CanRequest(session)
      /\ disturbed \in 0..MaxDisturbances
  BY Parts DEF TrackInv, LoadFails, LoadRaises
<1>2. /\ c \in SessionType /\ c.track = session.track /\ c.bake = session.bake
      /\ c.inbox = session.inbox /\ c.operations = session.operations
      /\ c.client = session.client /\ c.invalidated = session.invalidated
      /\ c.baked = session.baked /\ c.status = session.status
  BY <1>1 DEF ForgetModel, SessionType
<1> HIDE DEF c
<1>3. Coherent(c, scene, lines, disturbed)
  BY <1>1, <1>2 DEF Coherent, BakesTrack, Caused, Paced, Accounted, CanRequest
<1>4. QED
  BY <1>1, <1>2, <1>3, FailsKeeps DEF BakesWell

\* PublishedKeeps: the render that a bake waits for is published.
LEMMA PublishedKeeps ==
  ASSUME TrackInv, CompletesBake, NEW ls, Coherent(session, scene, ls, disturbed)
  PROVE  /\ Keeps(PublishedBake, session, scene, ls, disturbed)
         /\ disturbed' = disturbed + 1 /\ disturbed' \in 0..MaxDisturbances
<1> DEFINE t == session.track
           b == [session EXCEPT !.track = PublishedTrack(t, FALSE)]
<1>1. /\ session \in SessionType /\ t \in TrackType /\ disturbed \in Nat
      /\ Fits(t, session.inbox, session.operations, ls, serving)
      /\ disturbed' = disturbed + 1 /\ disturbed < MaxDisturbances
      /\ t.stage.count = Batches
  BY Parts, OnItsWay DEF CompletesBake, Disturbs
<1>2. disturbed' \in 0..MaxDisturbances
  BY <1>1, OnItsWay
<1>3. t.id # None
  <2>1. NoStage.count = 0 /\ Batches # 0 /\ NoTrack.stage = NoStage
    BY DEF NoStage, NoTrack
  <2>2. QED
    BY <1>1, <2>1 DEF Fits, Whole
<1>4. PublishedBake = b
  BY <1>1, ZenonT(40) DEF PublishedBake, PublishedTrack, SessionType, TrackType
<1>5. Keeps(b, session, scene, ls, disturbed)
  BY <1>1, <1>3, PublishedCoherent
<1>6. QED
  BY <1>1, <1>2, <1>4, <1>5

\* NotWrittenKeeps: writing the Actions of the bake fails.
LEMMA NotWrittenKeeps ==
  ASSUME TrackInv, BakeNotWritten
  PROVE  TrackInv' /\ BakesWell
<1> DEFINE few == Tail(lines)
           c == PublishedBake
<1>1. /\ NextLine /\ pc' = pc /\ batch' = batch - 1 /\ lines' = few
      /\ session' = FailBake(c, scene, "error") /\ CompletesBake
  BY DEF BakeNotWritten
<1>2. /\ Coherent(session, scene, few, disturbed) /\ few \in Seq(LineType)
      /\ scene \in SceneType /\ serving \in ServingType /\ disturbed \in Nat
  BY <1>1, LineBegins
<1>3. /\ Keeps(c, session, scene, few, disturbed)
      /\ disturbed' = disturbed + 1 /\ disturbed' \in 0..MaxDisturbances
  BY <1>1, <1>2, PublishedKeeps
<1> HIDE DEF few, c
<1>4. Keeps(session', c, scene, few, disturbed)
  <2>1. "error" \in Errors
    BY DEF Errors
  <2>2. Coherent(c, scene, few, disturbed)
    BY <1>3 DEF Keeps
  <2>3. QED
    BY <1>1, <1>2, <2>1, <2>2, FailBakeKeeps
<1>5. Coherent(session', scene, few, disturbed')
  BY <1>2, <1>3, <1>4, Disturbed DEF Keeps
<1>6. TrackInv'
  BY <1>1, <1>3, <1>5, LineEnds DEF few
<1>7. QED
  BY <1>3, <1>4, <1>6 DEF Keeps, BakesWell

\* DeletedKeeps: a target of the bake was deleted.
LEMMA DeletedKeeps ==
  ASSUME TrackInv, BakeTargetDeleted
  PROVE  TrackInv' /\ BakesWell
<1>1. /\ CallbackFails(PublishedBake)
      /\ Keeps(PublishedBake, session, scene, lines, disturbed)
      /\ disturbed' = disturbed + 1 /\ disturbed' \in 0..MaxDisturbances
  BY PublishedKeeps DEF BakeTargetDeleted, TrackInv
<1>2. QED
  BY <1>1, FailsKeeps DEF Keeps, BakesWell
-----------------------------------------------------------------------------
(* The theorems. *)

\* StepKeeps: every step keeps the session coherent, and bakes what it should.
LEMMA StepKeeps ==
  ASSUME TrackInv, [Next]_vars
  PROVE  TrackInv' /\ (BakesWell \/ session' = Fresh)
<1>1. CASE UNCHANGED vars
  <2>1. /\ UNCHANGED <<process, serving, scene, session, lines, disturbed, pc, batch>>
        /\ Coherent(session, scene, lines, disturbed)
    BY <1>1 DEF vars, TrackInv
  <2>2. Coherent(session, scene, lines, disturbed)'
    BY <2>1, CoherentNext
  <2>3. QED
    BY <2>1, <2>2 DEF TrackInv, BakesWell
<1>2. ASSUME WorkerRuns \/ WorkerCommits \/ WorkerDies
      PROVE  TrackInv' /\ BakesWell
  <2>1. session'.baked = session.baked
    <3>1. session \in SessionType
      BY OnItsWay
    <3>2. \/ session' = session
          \/ session' = [session EXCEPT !.inbox = Tail(@)]
          \/ session' = [session EXCEPT !.client = "stopped", !.inbox = <<>>]
      BY <1>2 DEF WorkerRuns, WorkerCommits, WorkerDies, WorkerPrepares,
         WorkerStarts, WorkerTakes, WorkerRenders, WorkerWorks, WorkerPreviews,
         WorkerSends, WorkerCompletes, WorkerRejects, WorkerEnds,
         WorkerFinishes, WorkerStops, WorkerExits, ExitReported, WorkerReads,
         ThreadUnchanged
    <3>3. QED
      BY <3>1, <3>2 DEF SessionType
  <2>2. QED
    BY <1>2, <2>1, WorkerRunsKeeps DEF BakesWell
<1>3. CASE Timer
  BY <1>3, PollKeeps, LineKeeps, LoadFailsKeeps, PollEndKeeps DEF Timer
<1>4. QED
  BY <1>1, <1>2, <1>3, StartIsClean, StopBakeKeeps, EditKeeps, EditKeysKeeps,
     ChangeFrameKeeps, PlayKeeps, PauseKeeps, ChangeSourceKeeps, ChangeModeKeeps,
     LoadFileKeeps, UnreadableKeeps, NotWrittenKeeps, DeletedKeeps DEF Next

\* Coherence: the session, its worker and what is on its way between them fit
\* together at all times.
THEOREM Coherence == Spec => []TrackInv
<1>1. Init => TrackInv
  BY InitKeeps
<1>2. TrackInv /\ [Next]_vars => TrackInv'
  BY StepKeeps
<1>3. QED
  BY <1>1, <1>2, PTL DEF Spec

\* Types: a coherent session is well typed; the operations and the revisions are
\* at most as many as the disturbances that caused them.
LEMMA Types ==
  ASSUME TrackInv
  PROVE  TypeOK
<1>1. /\ session \in SessionType /\ session.track \in TrackType
      /\ Fits(session.track, session.inbox, session.operations, lines, serving)
      /\ Caused(session, scene, disturbed) /\ serving \in ServingType
      /\ disturbed \in Nat /\ MaxDisturbances \in Nat
      /\ disturbed <= MaxDisturbances
  BY Parts, OnItsWay DEF TrackInv
<1>2. /\ session.operations \in Nat /\ session.track.id \in Nat /\ serving.id \in Nat
      /\ session.track.revision \in Nat
      /\ Flag(session.invalidated) \in Nat
      /\ Flag(~session.track.prepared) \in Nat
  BY <1>1 DEF SessionType, TrackType, ServingType, Flag
<1>3. /\ session.operations <= disturbed /\ session.track.id <= session.operations
      /\ serving.id <= session.operations
  BY <1>1 DEF Caused, Paced, Fits
<1>4. session.track.revision <= disturbed
  <2>1. session.track.id = None => session.track.revision = 0
    BY <1>1 DEF Fits, Whole, NoTrack, None
  <2>2. session.track.id # None => session.track.revision <= disturbed
    BY <1>1, <1>2 DEF Caused, Paced
  <2>3. QED
    BY <1>1, <2>1, <2>2
<1>5. /\ session.operations \in {None} \cup Operations
      /\ session.track.id \in {None} \cup Operations
      /\ serving.id \in {None} \cup Operations
      /\ session.track.revision \in {None} \cup Revisions
  BY <1>1, <1>2, <1>3, <1>4 DEF None, Operations, Revisions
<1>6. /\ session.status \in Statuses
      /\ session.phase \in {"none", "greeting", "negotiated", "loaded"}
      /\ {session.expected, session.rejected, session.registered,
          session.invalidated, session.early} \subseteq BOOLEAN
      /\ session.client \in {"stopped", "running", "stopping"}
      /\ session.observed \in {Unobserved, Invalid} \cup Sources
      /\ session.track.stage.rows \cup session.track.cache \cup session.baked
           \cup session.mesh.rows \subseteq Rows
      /\ session.bake \in [on : BOOLEAN, source : {Invalid} \cup Sources,
                           timeline : {NoTimeline} \cup Timelines]
  BY <1>1 DEF SessionType, TrackType, StageType, BakeType, AnySource, AnyTimeline
<1>7. \A i \in DOMAIN session.inbox : session.inbox[i].method \in Methods
  <2>1. session.inbox \in Seq(RequestType)
    BY <1>1 DEF SessionType
  <2>2. \A i \in DOMAIN session.inbox : session.inbox[i] \in RequestType
    BY <2>1
  <2>3. QED
    BY <2>2 DEF RequestType
<1>8. scene \in [mode : {"SELECTED", "STREAM"}, available : BOOLEAN,
                 source : {Invalid} \cup Sources, curve : Timelines,
                 shown : Values, frame : {Outside} \cup Frames,
                 playing : BOOLEAN]
  BY DEF TrackInv, SceneType, AnySource, AnyFrame
<1>9. QED
  BY <1>5, <1>6, <1>7, <1>8 DEF TrackInv, TypeOK

\* TypeCorrect: a Selected Channel session keeps its types, and no more
\* operations and revisions are started than disturbances ask for.
THEOREM TypeCorrect == Spec => []TypeOK
<1>1. TrackInv => TypeOK
  BY Types
<1>2. QED
  BY <1>1, Coherence, PTL

\* CacheIsTrue: a published cache holds the rows of its audio under the settings
\* it is recorded with, and a stage those that were asked for.
THEOREM CacheIsTrue == Spec => []CacheIsWhatItClaims
<1>1. TrackInv => CacheIsWhatItClaims
  BY DEF TrackInv, Coherent, Fits, Whole, RowsOf, CacheIsWhatItClaims
<1>2. QED
  BY <1>1, Coherence, PTL

\* BakesAreCoherent: what is baked is the channel and the settings of the moment
\* Bake was clicked.
THEOREM BakesAreCoherent == Spec => BakeIsCoherent
<1> DEFINE A == session'.baked # session.baked /\ session' # Fresh =>
                  LET bake == IF session.bake.on THEN session.bake
                              ELSE [source |-> scene.source,
                                    timeline |-> Evaluated(scene)]
                  IN session'.baked = {[source |-> bake.source,
                                        timeline |-> bake.timeline]}
<1>1. TrackInv /\ [Next]_vars => A
  BY StepKeeps DEF BakesWell
<1>2. TrackInv /\ [Next]_vars => [A]_vars
  BY <1>1
<1>3. QED
  BY <1>2, Coherence, PTL DEF Spec, BakeIsCoherent
=============================================================================
