---------------------------- MODULE WorkerProofs ----------------------------
(***************************************************************************)
(* Every step of the worker's protocol server keeps its state well typed,  *)
(* no request is lost and none is answered twice, an operation that ended  *)
(* leaves nothing behind, nothing is said after its terminal event, and    *)
(* nothing but that event once a cancel was accepted, for every value of   *)
(* the constants.                                                          *)
(***************************************************************************)
EXTENDS WorkerInvariant, TLAPS

\* BoundsTyped: every bound of the model is a number.
LEMMA BoundsTyped ==
  /\ \A n \in 1..MaxOperations : n \in Nat
  /\ \A n \in 1..MaxRevision : n \in Nat
  /\ \A n \in ChunkSizes : n \in Nat
  /\ \A n \in PreviewRows : n \in Nat
  BY WorkerAssumption DEF WorkerAssumption

\* RequestLinesTyped: the lines the addon may send are requests.
LEMMA RequestLinesTyped ==
  ASSUME NEW r \in RequestLines
  PROVE  r \in Request
<1> USE BoundsTyped DEF Request, RequestMethods, StartMethods
<1>1. CASE r \in [method : {"hello", "load_model", "shutdown"},
                  operation : {0}, samples : {0}, revision : {0},
                  preview : {0}]
  BY <1>1
<1>2. CASE r \in [method : StartMethods \cup
                            {"stream_settings", "stream_end",
                             "track_prepare", "cancel"},
                  operation : 1..MaxOperations, samples : {0},
                  revision : {0}, preview : {0}]
  BY <1>2
<1>3. CASE r \in [method : {"stream_chunk", "track_chunk"},
                  operation : 1..MaxOperations, samples : ChunkSizes,
                  revision : {0}, preview : {0}]
  BY <1>3
<1>4. CASE r \in [method : {"track_render"}, operation : 1..MaxOperations,
                  samples : {0}, revision : 1..MaxRevision,
                  preview : PreviewRows]
  BY <1>4
<1> QED
  BY <1>1, <1>2, <1>3, <1>4 DEF RequestLines

\* AppendTyped: appending to a sequence keeps its type.
LEMMA AppendTyped ==
  ASSUME NEW S, NEW s \in Seq(S), NEW e \in S
  PROVE  /\ Append(s, e) \in Seq(S)
         /\ Len(Append(s, e)) = Len(s) + 1
  OBVIOUS

\* InitTyped: the worker starts well typed, before it has read a line.
THEOREM InitTyped == Init => TypeOK
<1> SUFFICES ASSUME Init PROVE TypeOK
  OBVIOUS
<1>1. HistoryOK
  BY DEF Init, HistoryOK
<1>2. FlagsOK
  BY DEF Init, FlagsOK
<1>3. PlacesOK
  BY DEF Init, PlacesOK
<1>4. CountersOK
  BY DEF Init, CountersOK
<1>5. IdsOK
  BY DEF Init, IdsOK
<1>6. DomainsOK
  BY DEF Init, DomainsOK
<1> QED
  BY <1>1, <1>2, <1>3, <1>4, <1>5, <1>6 DEF TypeOK
-----------------------------------------------------------------------------
\* Where a type comes from is the same in every action: the request read is a
\* Request, the line written is a Line and a new id is the newest one.
\* ReadTyped: reading a line (Server::run) appends it to the history.
LEMMA ReadTyped ==
  ASSUME TypeOK, NEW r \in RequestLines, Reads(r)
  PROVE  /\ r \in Request
         /\ received' \in Seq(Request)
         /\ Len(received) \in Nat
         /\ Len(received') = Len(received) + 1
         /\ received'[NewId] = r
         /\ \A id \in 1..Len(received) : received'[id] = received[id]
<1>1. r \in Request
  BY RequestLinesTyped
<1>2. received \in Seq(Request) /\ received' = Append(received, r)
  BY DEF TypeOK, HistoryOK, Reads
<1> QED
  BY <1>1, <1>2 DEF NewId

\* ReadIds: the line being read has an id of its own.
LEMMA ReadIds ==
  ASSUME TypeOK, NEW r \in RequestLines, Reads(r)
  PROVE  /\ NewId \in 1..Len(received') /\ NewId \in 0..Len(received')
         /\ NewId \in Nat
         /\ NewId \notin 1..Len(received)
         /\ \A id \in 1..Len(received) : id \in 1..Len(received')
         /\ \A id \in 0..Len(received) : id \in 0..Len(received')
         /\ 1..Len(received') = 1..Len(received) \cup {NewId}
  BY ReadTyped DEF NewId

\* CommandTyped: a request the worker holds is a line it has read.
LEMMA CommandTyped ==
  ASSUME TypeOK, NEW id \in 1..Len(received)
  PROVE  /\ received[id] \in Request
         /\ id \in Nat
         /\ received[id].samples \in Nat /\ received[id].revision \in Nat
         /\ received[id].operation \in Nat /\ received[id].preview \in Nat
<1>1. received \in Seq(Request)
  BY DEF TypeOK, HistoryOK
<1>2. received[id] \in Request
  BY <1>1
<1> QED
  BY <1>2 DEF Request

\* CommandInDomain: the command the operation thread runs was read.
LEMMA CommandInDomain ==
  ASSUME TypeOK, thread \in {"command", "drain", "render"}
  PROVE  /\ command \in 1..Len(received)
         /\ command \in Nat
         /\ received[command].samples \in Nat
         /\ received[command].revision \in Nat
<1>1. command \in 0..Len(received) /\ command # 0
  BY DEF TypeOK, IdsOK, DomainsOK
<1>2. Len(received) \in Nat
  BY DEF TypeOK, HistoryOK
<1>3. command \in 1..Len(received)
  BY <1>1, <1>2
<1> QED
  BY <1>3, CommandTyped

\* ReplyTyped: a reply is a line of stdout (Emitter::response, Emitter::error).
LEMMA ReplyTyped ==
  ASSUME TypeOK, NEW id \in Nat, NEW code \in Codes, NEW n \in Nat,
         Emit(ReplyLine(id, code, n))
  PROVE  stdout' \in Seq(Line)
<1>1. ReplyLine(id, code, n) \in Line
  BY DEF ReplyLine, Line
<1> QED
  BY <1>1, AppendTyped DEF Emit, TypeOK, HistoryOK

\* EventTyped: an event is a line of stdout (Emitter::event).
LEMMA EventTyped ==
  ASSUME TypeOK, NEW name \in Events, NEW n \in Nat, NEW k \in Nat,
         Emit(EventLine(name, n, k))
  PROVE  stdout' \in Seq(Line)
<1>1. operation \in Nat
  BY DEF TypeOK, CountersOK
<1>2. name \in Codes \cup Events
  OBVIOUS
<1>3. EventLine(name, n, k) \in Line
  BY <1>1, <1>2 DEF EventLine, Line
<1> QED
  BY <1>3, AppendTyped DEF Emit, TypeOK, HistoryOK

\* RefuseTyped: a refused request changes nothing but the output.
LEMMA RefuseTyped ==
  ASSUME TypeOK, NEW r \in RequestLines, Reads(r), NEW code \in Codes,
         Refuse(code)
  PROVE  TypeOK'
<1> USE DEF Refuse, sharedVars, backendVars, localVars
<1>1. stdout' \in Seq(Line)
  BY ReadIds, ReplyTyped
<1>2. HistoryOK'
  BY <1>1, ReadTyped DEF HistoryOK
<1>3. IdsOK'
  BY ReadIds DEF TypeOK, IdsOK
<1>4. DomainsOK'
  BY ReadTyped DEF TypeOK, Reads, DomainsOK
<1> QED
  BY <1>2, <1>3, <1>4 DEF TypeOK, FlagsOK, PlacesOK, CountersOK
-----------------------------------------------------------------------------

\* StreamRequestTyped: the stream_* handlers keep the types.
LEMMA StreamRequestTyped ==
  ASSUME TypeOK, NEW r \in RequestLines, Reads(r), StreamRequest(r)
  PROVE  TypeOK'
<1> USE DEF sharedVars, backendVars, localVars
<1>1. CASE RefuseStreamRequest(r)
  <2>1. StreamRefusal(r) \in Codes
    BY DEF StreamRefusal, Codes
  <2> QED
    BY <1>1, <2>1, RefuseTyped DEF RefuseStreamRequest
<1>2. CASE StreamChunk(r)
  <2>1. HistoryOK'
    BY <1>2, ReadTyped DEF StreamChunk, TypeOK, HistoryOK
  <2>2. PlacesOK'
    BY <1>2 DEF StreamChunk, TypeOK, Push, Notify, PlacesOK
  <2>3. CountersOK'
    BY <1>2, ReadTyped DEF StreamChunk, TypeOK, Count, Request, CountersOK
  <2>4. IdsOK'
    BY <1>2, ReadIds DEF StreamChunk, TypeOK, Push, IdsOK
  <2>5. DomainsOK'
    BY <1>2, ReadTyped DEF StreamChunk, TypeOK, Reads, Push, Notify,
         DomainsOK
  <2> QED
    BY <1>2, <2>1, <2>2, <2>3, <2>4, <2>5 DEF StreamChunk, TypeOK, FlagsOK
<1>3. CASE StreamSettings(r)
  <2>1. HistoryOK'
    BY <1>3, ReadTyped DEF StreamSettings, TypeOK, HistoryOK
  <2>2. PlacesOK'
    BY <1>3 DEF StreamSettings, TypeOK, Push, Notify, PlacesOK
  <2>3. IdsOK'
    BY <1>3, ReadIds DEF StreamSettings, TypeOK, Push, IdsOK
  <2>4. DomainsOK'
    BY <1>3, ReadTyped DEF StreamSettings, TypeOK, Reads, Push, Notify,
         DomainsOK
  <2> QED
    BY <1>3, <2>1, <2>2, <2>3, <2>4 DEF StreamSettings, TypeOK, FlagsOK,
         CountersOK
<1>4. CASE StreamEnd(r)
  <2>1. HistoryOK'
    BY <1>4, ReadTyped DEF StreamEnd, TypeOK, HistoryOK
  <2>2. FlagsOK'
    BY <1>4 DEF StreamEnd, TypeOK, FlagsOK
  <2>3. PlacesOK'
    BY <1>4 DEF StreamEnd, TypeOK, Push, Notify, PlacesOK
  <2>4. IdsOK'
    BY <1>4, ReadIds DEF StreamEnd, TypeOK, Push, IdsOK
  <2>5. DomainsOK'
    BY <1>4, ReadTyped DEF StreamEnd, TypeOK, Reads, Push, Notify, DomainsOK
  <2> QED
    BY <1>4, <2>1, <2>2, <2>3, <2>4, <2>5 DEF StreamEnd, TypeOK, CountersOK
<1> QED
  BY <1>1, <1>2, <1>3, <1>4 DEF StreamRequest

\* TrackRequestTyped: the track_* handlers keep the types.
LEMMA TrackRequestTyped ==
  ASSUME TypeOK, NEW r \in RequestLines, Reads(r), TrackRequest(r)
  PROVE  TypeOK'
<1> USE DEF sharedVars, backendVars, localVars
<1>1. CASE RefuseTrackRequest(r)
  <2>1. TrackRefusal(r) \in Codes
    BY DEF TrackRefusal, Codes
  <2> QED
    BY <1>1, <2>1, RefuseTyped DEF RefuseTrackRequest
<1>2. CASE TrackChunk(r)
  <2>1. HistoryOK'
    BY <1>2, ReadTyped DEF TrackChunk, TypeOK, HistoryOK
  <2>2. PlacesOK'
    BY <1>2 DEF TrackChunk, TypeOK, Push, Notify, PlacesOK
  <2>3. CountersOK'
    BY <1>2, ReadTyped DEF TrackChunk, TypeOK, Count, Request, CountersOK
  <2>4. IdsOK'
    BY <1>2, ReadIds DEF TrackChunk, TypeOK, Push, IdsOK
  <2>5. DomainsOK'
    BY <1>2, ReadTyped DEF TrackChunk, TypeOK, Reads, Push, Notify, DomainsOK
  <2> QED
    BY <1>2, <2>1, <2>2, <2>3, <2>4, <2>5 DEF TrackChunk, TypeOK, FlagsOK
<1>3. CASE TrackPrepare(r)
  <2>1. HistoryOK'
    BY <1>3, ReadTyped DEF TrackPrepare, TypeOK, HistoryOK
  <2>2. PlacesOK'
    BY <1>3 DEF TrackPrepare, TypeOK, Push, Notify, PlacesOK
  <2>3. IdsOK'
    BY <1>3, ReadIds DEF TrackPrepare, TypeOK, Push, IdsOK
  <2>4. DomainsOK'
    BY <1>3, ReadTyped DEF TrackPrepare, TypeOK, Reads, Push, Notify,
         DomainsOK
  <2> QED
    BY <1>3, <2>1, <2>2, <2>3, <2>4 DEF TrackPrepare, TypeOK, FlagsOK,
         CountersOK
<1>4. CASE TrackRenderStale(r)
  <2>1. HistoryOK'
    BY <1>4, ReadTyped, ReadIds, ReplyTyped DEF TrackRenderStale, Codes,
         Request, HistoryOK
  <2>2. IdsOK'
    BY <1>4, ReadIds DEF TrackRenderStale, TypeOK, IdsOK
  <2>3. DomainsOK'
    BY <1>4, ReadTyped DEF TrackRenderStale, TypeOK, Reads, DomainsOK
  <2> QED
    BY <1>4, <2>1, <2>2, <2>3 DEF TrackRenderStale, TypeOK, FlagsOK,
         PlacesOK, CountersOK
<1>5. CASE TrackRenderNewer(r)
  <2>1. HistoryOK'
    BY <1>5, ReadTyped DEF TrackRenderNewer, TypeOK, HistoryOK
  <2>2. PlacesOK'
    BY <1>5 DEF TrackRenderNewer, TypeOK, PlacesOK
  <2>3. CountersOK'
    BY <1>5, ReadTyped DEF TrackRenderNewer, TypeOK, Request, CountersOK
  <2>4. IdsOK'
    BY <1>5, ReadIds DEF TrackRenderNewer, TypeOK, IdsOK
  <2>5. DomainsOK'
    BY <1>5, ReadTyped DEF TrackRenderNewer, TypeOK, Reads, DomainsOK
  <2> QED
    BY <1>5, <2>1, <2>2, <2>3, <2>4, <2>5 DEF TrackRenderNewer, TypeOK,
         FlagsOK
<1> QED
  BY <1>1, <1>2, <1>3, <1>4, <1>5 DEF TrackRequest

\* MainRequestTyped: every branch of Server::dispatch keeps the types.
LEMMA MainRequestTyped ==
  ASSUME TypeOK, NEW r \in RequestLines, Reads(r),
         \/ Hello(r)
         \/ RefuseUnnegotiated(r)
         \/ LoadModel(r)
         \/ RefuseStart(r)
         \/ StartOperation(r)
         \/ StreamRequest(r)
         \/ TrackRequest(r)
         \/ Cancel(r)
         \/ Shutdown(r)
  PROVE  TypeOK'
<1> USE DEF sharedVars, backendVars, localVars
<1>1. CASE Hello(r)
  <2>1. HistoryOK'
    BY <1>1, ReadTyped, ReadIds, ReplyTyped DEF Hello, Codes, HistoryOK
  <2>2. FlagsOK'
    BY <1>1 DEF Hello, TypeOK, FlagsOK
  <2>3. IdsOK'
    BY <1>1, ReadIds DEF Hello, TypeOK, IdsOK
  <2>4. DomainsOK'
    BY <1>1, ReadTyped DEF Hello, TypeOK, Reads, DomainsOK
  <2> QED
    BY <1>1, <2>1, <2>2, <2>3, <2>4 DEF Hello, TypeOK, PlacesOK, CountersOK
<1>2. CASE RefuseUnnegotiated(r)
  BY <1>2, RefuseTyped DEF RefuseUnnegotiated, Codes
<1>3. CASE LoadModel(r)
  <2>1. CASE Refuse("busy")
    BY <2>1, RefuseTyped DEF Codes
  <2>2. ASSUME NEW success \in BOOLEAN, loaded' = success,
               Emit(ReplyLine(NewId, IF success THEN "ok" ELSE "model_invalid",
                              0)),
               thread' = Joined,
               UNCHANGED <<pc, negotiated, operations, sharedVars,
                           backendVars, localVars>>
        PROVE  TypeOK'
    <3>1. HistoryOK'
      BY <2>2, ReadTyped, ReadIds, ReplyTyped DEF Codes, HistoryOK
    <3>2. FlagsOK'
      BY <2>2 DEF TypeOK, FlagsOK
    <3>3. PlacesOK'
      BY <2>2 DEF TypeOK, PlacesOK, Joined
    <3>4. IdsOK'
      BY <2>2, ReadIds DEF TypeOK, IdsOK
    <3>5. DomainsOK'
      BY <2>2, ReadTyped DEF TypeOK, Reads, Joined, DomainsOK
    <3> QED
      BY <2>2, <3>1, <3>2, <3>3, <3>4, <3>5 DEF TypeOK, CountersOK
  <2> QED
    BY <1>3, <2>1, <2>2 DEF LoadModel
<1>4. CASE RefuseStart(r)
  <2>1. CASE Refuse("busy")
    BY <2>1, RefuseTyped DEF Codes
  <2>2. CASE ~Refuse("busy")
    <3>1. HistoryOK'
      BY <1>4, <2>2, ReadTyped, ReadIds, ReplyTyped
         DEF RefuseStart, Codes, HistoryOK
    <3>2. PlacesOK'
      BY <1>4, <2>2 DEF RefuseStart, TypeOK, PlacesOK, Joined
    <3>3. IdsOK'
      BY <1>4, <2>2, ReadIds DEF RefuseStart, TypeOK, IdsOK
    <3>4. DomainsOK'
      BY <1>4, <2>2, ReadTyped
         DEF RefuseStart, TypeOK, Reads, Joined, DomainsOK
    <3> QED
      BY <1>4, <2>2, <3>1, <3>2, <3>3, <3>4
         DEF RefuseStart, TypeOK, FlagsOK, CountersOK
  <2> QED
    BY <2>1, <2>2
<1>5. CASE StartOperation(r)
  <2>1. HistoryOK'
    BY <1>5, ReadTyped DEF StartOperation, TypeOK, HistoryOK
  <2>2. FlagsOK'
    BY <1>5 DEF StartOperation, TypeOK, FlagsOK
  <2>3. PlacesOK'
    BY <1>5 DEF StartOperation, TypeOK, PlacesOK
  <2>4. CountersOK'
    BY <1>5, ReadTyped DEF StartOperation, TypeOK, Request, CountersOK
  <2>5. IdsOK'
    BY <1>5, ReadIds DEF StartOperation, TypeOK, IdsOK
  <2>6. DomainsOK'
    BY <1>5, ReadTyped DEF StartOperation, TypeOK, Reads, DomainsOK
  <2> QED
    BY <1>5, <2>1, <2>2, <2>3, <2>4, <2>5, <2>6 DEF StartOperation, TypeOK
<1>6. CASE StreamRequest(r)
  BY <1>6, StreamRequestTyped
<1>7. CASE TrackRequest(r)
  BY <1>7, TrackRequestTyped
<1>8. CASE Cancel(r)
  <2>1. CASE Refuse("operation_not_found")
    BY <2>1, RefuseTyped DEF Codes
  <2>2. CASE ~Refuse("operation_not_found")
    <3>1. HistoryOK'
      BY <1>8, <2>2, ReadTyped DEF Cancel, TypeOK, HistoryOK
    <3>2. FlagsOK'
      BY <1>8, <2>2 DEF Cancel, TypeOK, FlagsOK
    <3>3. PlacesOK'
      BY <1>8, <2>2 DEF Cancel, Notify, TypeOK, PlacesOK
    <3>4. IdsOK'
      BY <1>8, <2>2, ReadIds DEF Cancel, TypeOK, IdsOK
    <3>5. DomainsOK'
      <4>1. Notify /\ command' = command
        BY <1>8, <2>2 DEF Cancel
      <4> QED
        BY <4>1, ReadTyped DEF Notify, TypeOK, DomainsOK
    <3> QED
      BY <1>8, <2>2, <3>1, <3>2, <3>3, <3>4, <3>5
         DEF Cancel, TypeOK, CountersOK
  <2> QED
    BY <2>1, <2>2
<1>9. CASE Shutdown(r)
  <2>1. HistoryOK'
    BY <1>9, ReadTyped DEF Shutdown, TypeOK, HistoryOK
  <2>2. FlagsOK'
    BY <1>9 DEF Shutdown, StopOperation, TypeOK, FlagsOK
  <2>3. PlacesOK'
    BY <1>9 DEF Shutdown, StopOperation, Notify, TypeOK, PlacesOK
  <2>4. IdsOK'
    BY <1>9, ReadIds DEF Shutdown, TypeOK, IdsOK
  <2>5. DomainsOK'
    BY <1>9, ReadTyped DEF Shutdown, StopOperation, Notify, TypeOK, Reads,
         DomainsOK
  <2> QED
    BY <1>9, <2>1, <2>2, <2>3, <2>4, <2>5 DEF Shutdown, TypeOK, CountersOK
<1> QED
  BY <1>1, <1>2, <1>3, <1>4, <1>5, <1>6, <1>7, <1>8, <1>9
-----------------------------------------------------------------------------
\* A loop left by an exception or a break.
LEMMA LeaveTyped ==
  ASSUME TypeOK, NEW how \in {"canceled", "failed"}, Leave(how)
  PROVE  TypeOK'
<1> USE DEF Leave, mainVars, sharedVars, backendVars
<1>1. PlacesOK'
  BY DEF TypeOK, PlacesOK
<1> QED
  BY <1>1 DEF TypeOK, HistoryOK, FlagsOK, CountersOK, IdsOK, DomainsOK

\* MainContinuesTyped: a handler resumed after a wait or a join keeps them.
LEMMA MainContinuesTyped ==
  ASSUME TypeOK, MainContinues
  PROVE  TypeOK'
<1> USE DEF mainVars, sharedVars, backendVars, localVars
<1>1. CASE Respond
  <2>1. HistoryOK'
    BY <1>1, ReplyTyped DEF Respond, Codes, TypeOK, HistoryOK
  <2>2. PlacesOK'
    BY <1>1 DEF Respond, TypeOK, PlacesOK
  <2> QED
    BY <1>1, <2>1, <2>2 DEF Respond, TypeOK, FlagsOK, CountersOK, IdsOK,
         DomainsOK
<1>2. CASE TrackRenderDisplace
  <2>1. HistoryOK'
    BY <1>2, ReplyTyped, CommandTyped DEF TrackRenderDisplace, QueuedRenders,
         Codes, TypeOK, IdsOK, HistoryOK
  <2>2. IdsOK'
    BY <1>2 DEF TrackRenderDisplace, QueuedRenders, Retire, TypeOK, IdsOK
  <2> QED
    BY <1>2, <2>1, <2>2 DEF TrackRenderDisplace, TypeOK, FlagsOK, PlacesOK,
         CountersOK, DomainsOK
<1>3. CASE TrackRenderQueue
  <2>1. Len(received) \in 1..Len(received)
    BY <1>3 DEF TrackRenderQueue, TypeOK, HistoryOK, DomainsOK
  <2>2. PlacesOK'
    BY <1>3 DEF TrackRenderQueue, Notify, TypeOK, PlacesOK
  <2>3. IdsOK'
    BY <1>3, <2>1 DEF TrackRenderQueue, TypeOK, IdsOK
  <2>4. DomainsOK'
    BY <1>3 DEF TrackRenderQueue, Notify, TypeOK, DomainsOK
  <2> QED
    BY <1>3, <2>2, <2>3, <2>4
       DEF TrackRenderQueue, TypeOK, HistoryOK, FlagsOK, CountersOK
<1>4. CASE JoinOperation
  <2>1. HistoryOK'
    BY <1>4, ReplyTyped DEF JoinOperation, Codes, TypeOK, HistoryOK
  <2>2. PlacesOK'
    BY <1>4 DEF JoinOperation, TypeOK, PlacesOK
  <2> QED
    BY <1>4, <2>1, <2>2 DEF JoinOperation, TypeOK, FlagsOK, CountersOK,
         IdsOK, DomainsOK
<1> QED
  BY <1>1, <1>2, <1>3, <1>4 DEF MainContinues

\* StreamLoopTyped: Server::stream_loop keeps the types.
LEMMA StreamLoopTyped ==
  ASSUME TypeOK, StreamLoop
  PROVE  TypeOK'
<1> USE DEF mainVars, sharedVars, backendVars, localVars
<1>1. CASE StreamTake
  <2>1. QueuedSettings \subseteq 1..Len(received)
    BY DEF QueuedSettings, TypeOK, IdsOK
  <2>2. ASSUME NEW id \in queue \ QueuedSettings,
               Pop(id, queue \ QueuedSettings)
        PROVE  /\ command' \in 1..Len(received) /\ queuedSamples' \in Int
               /\ queue' \subseteq 1..Len(received)
    <3>1. id \in 1..Len(received) /\ queue \subseteq 1..Len(received)
      BY DEF TypeOK, IdsOK
    <3>2. received[id].samples \in Nat /\ queuedSamples \in Int
      BY <3>1, CommandTyped DEF TypeOK, CountersOK
    <3>3. queuedSamples' \in Int
      BY <2>2, <3>2 DEF Pop
    <3>4. command' \in 1..Len(received)
      BY <2>2, <3>1 DEF Pop
    <3>5. queue' \subseteq 1..Len(received)
      BY <2>2, <3>1 DEF Pop
    <3> QED
      BY <3>3, <3>4, <3>5
  <2>3. /\ command' \in 0..Len(received) /\ queuedSamples' \in Int
        /\ queue' \subseteq 1..Len(received)
        /\ command' = 0 => queue' = {} /\ queue \subseteq QueuedSettings
    <3>1. CASE queue \ QueuedSettings = {}
      BY <1>1, <3>1 DEF StreamTake, TypeOK, CountersOK
    <3>2. CASE queue \ QueuedSettings # {}
      <4>1. PICK id \in queue \ QueuedSettings :
              Pop(id, queue \ QueuedSettings)
        BY <1>1, <3>2 DEF StreamTake
      <4> QED
        BY <2>2, <4>1
    <3> QED
      BY <3>1, <3>2
  <2>4. PlacesOK'
    BY <1>1 DEF StreamTake, TypeOK, PlacesOK
  <2>5. CountersOK'
    BY <1>1, <2>3 DEF StreamTake, TypeOK, CountersOK
  <2>6. IdsOK'
    BY <1>1, <2>1, <2>3 DEF StreamTake, TypeOK, IdsOK
  <2>7. DomainsOK'
    BY <1>1, <2>3 DEF StreamTake, TypeOK, DomainsOK
  <2> QED
    BY <1>1, <2>4, <2>5, <2>6, <2>7
       DEF StreamTake, TypeOK, HistoryOK, FlagsOK
<1>2. CASE StreamConfigure
  <2>1. PlacesOK'
    BY <1>2 DEF StreamConfigure, TypeOK, PlacesOK
  <2>2. IdsOK'
    BY <1>2 DEF StreamConfigure, IsGreatest, TypeOK, IdsOK
  <2> QED
    BY <1>2, <2>1, <2>2 DEF StreamConfigure, TypeOK, HistoryOK, FlagsOK,
         CountersOK, DomainsOK
<1>3. CASE StreamAcknowledge
  <2>1. HistoryOK'
    BY <1>3, ReplyTyped, CommandTyped DEF StreamAcknowledge, Codes, TypeOK,
         IdsOK, HistoryOK
  <2>2. PlacesOK'
    BY <1>3 DEF StreamAcknowledge, TypeOK, PlacesOK
  <2>3. IdsOK'
    BY <1>3 DEF StreamAcknowledge, Retire, TypeOK, IdsOK
  <2> QED
    BY <1>3, <2>1, <2>2, <2>3 DEF StreamAcknowledge, TypeOK, FlagsOK,
         CountersOK, DomainsOK
<1>4. CASE StreamServe
  <2>1. HistoryOK'
    BY <1>4, EventTyped, CommandInDomain DEF StreamServe, Events, TypeOK,
         HistoryOK
  <2>2. PlacesOK'
    BY <1>4 DEF StreamServe, TypeOK, PlacesOK
  <2>3. CountersOK'
    BY <1>4 DEF StreamServe, TypeOK, CountersOK
  <2> QED
    BY <1>4, <2>1, <2>2, <2>3 DEF StreamServe, TypeOK, FlagsOK, IdsOK,
         DomainsOK
<1>5. CASE StreamFrame
  <2>1. HistoryOK'
    BY <1>5, EventTyped, CommandInDomain DEF StreamFrame, Events, TypeOK,
         HistoryOK
  <2>2. CountersOK'
    BY <1>5 DEF StreamFrame, TypeOK, CountersOK
  <2> QED
    BY <1>5, <2>1, <2>2 DEF StreamFrame, TypeOK, FlagsOK, PlacesOK, IdsOK,
         DomainsOK
<1>6. CASE StreamDrained
  <2>1. PlacesOK'
    BY <1>6 DEF StreamDrained, TypeOK, PlacesOK
  <2> QED
    BY <1>6, <2>1 DEF StreamDrained, TypeOK, HistoryOK, FlagsOK, CountersOK,
         IdsOK, DomainsOK
<1>7. CASE StreamCanceled
  BY <1>7, LeaveTyped DEF StreamCanceled
<1> QED
  BY <1>1, <1>2, <1>3, <1>4, <1>5, <1>6, <1>7 DEF StreamLoop

\* TrackLoopTyped: Server::track_loop keeps the types.
LEMMA TrackLoopTyped ==
  ASSUME TypeOK, TrackLoop
  PROVE  TypeOK'
<1> USE DEF mainVars, sharedVars, backendVars, localVars
<1>1. CASE TrackTake
  <2>1. PlacesOK'
    BY <1>1 DEF TrackTake, TypeOK, PlacesOK
  <2>2. CountersOK'
    BY <1>1, CommandTyped DEF TrackTake, Pop, TypeOK, IdsOK, CountersOK
  <2>3. IdsOK'
    BY <1>1 DEF TrackTake, TypeOK, Pop, IdsOK
  <2>4. DomainsOK'
    BY <1>1, CommandTyped DEF TrackTake, IsLeast, Pop, TypeOK, IdsOK,
         DomainsOK
  <2> QED
    BY <1>1, <2>1, <2>2, <2>3, <2>4 DEF TrackTake, TypeOK, HistoryOK, FlagsOK
<1>2. CASE TrackAppend
  <2>1. HistoryOK'
    BY <1>2, ReplyTyped, CommandInDomain DEF TrackAppend, Answer, Revision,
         Codes, TypeOK, IdsOK, HistoryOK
  <2>2. PlacesOK'
    BY <1>2 DEF TrackAppend, Answer, TypeOK, PlacesOK
  <2>3. CountersOK'
    BY <1>2, CommandInDomain DEF TrackAppend, Answer, TypeOK, CountersOK
  <2>4. IdsOK'
    BY <1>2 DEF TrackAppend, Answer, Retire, TypeOK, IdsOK
  <2> QED
    BY <1>2, <2>1, <2>2, <2>3, <2>4 DEF TrackAppend, Answer, TypeOK, FlagsOK,
         DomainsOK
<1>3. CASE TrackPrepared
  <2>1. HistoryOK'
    BY <1>3, ReplyTyped, CommandInDomain DEF TrackPrepared, Answer, Revision,
         Codes, TypeOK, IdsOK, HistoryOK
  <2>2. PlacesOK'
    BY <1>3 DEF TrackPrepared, Answer, TypeOK, PlacesOK
  <2>3. IdsOK'
    BY <1>3 DEF TrackPrepared, Answer, Retire, TypeOK, IdsOK
  <2> QED
    BY <1>3, <2>1, <2>2, <2>3 DEF TrackPrepared, Answer, TypeOK, FlagsOK,
         CountersOK, DomainsOK
<1>4. CASE TrackEmpty
  BY <1>4, LeaveTyped DEF TrackEmpty
<1>5. CASE TrackSkip
  <2>1. HistoryOK'
    BY <1>5, ReplyTyped, CommandInDomain DEF TrackSkip, Answer, Revision,
         Codes, TypeOK, IdsOK, HistoryOK
  <2>2. PlacesOK'
    BY <1>5 DEF TrackSkip, Answer, TypeOK, PlacesOK
  <2>3. IdsOK'
    BY <1>5 DEF TrackSkip, Answer, Retire, TypeOK, IdsOK
  <2> QED
    BY <1>5, <2>1, <2>2, <2>3 DEF TrackSkip, Answer, TypeOK, FlagsOK,
         CountersOK, DomainsOK
<1>6. CASE TrackBegin
  <2>1. FlagsOK'
    BY <1>6 DEF TrackBegin, TypeOK, FlagsOK
  <2>2. PlacesOK'
    BY <1>6 DEF TrackBegin, TypeOK, PlacesOK
  <2>3. CountersOK'
    BY <1>6 DEF TrackBegin, TypeOK, CountersOK
  <2> QED
    BY <1>6, <2>1, <2>2, <2>3 DEF TrackBegin, TypeOK, HistoryOK, IdsOK,
         DomainsOK
<1>7. CASE TrackExecute
  <2>1. HistoryOK'
    BY <1>7, EventTyped, CommandInDomain DEF TrackExecute, Events, TypeOK,
         Revision, HistoryOK
  <2>2. FlagsOK'
    BY <1>7 DEF TrackExecute, TypeOK, FlagsOK
  <2>3. CountersOK'
    BY <1>7 DEF TrackExecute, TypeOK, CountersOK
  <2> QED
    BY <1>7, <2>1, <2>2, <2>3 DEF TrackExecute, TypeOK, PlacesOK, IdsOK,
         DomainsOK
<1>8. CASE TrackLatePreview
  <2>1. HistoryOK'
    BY <1>8, EventTyped, CommandInDomain DEF TrackLatePreview, Events,
         TypeOK, Revision, HistoryOK
  <2>2. FlagsOK'
    BY <1>8 DEF TrackLatePreview, TypeOK, FlagsOK
  <2> QED
    BY <1>8, <2>1, <2>2 DEF TrackLatePreview, TypeOK, PlacesOK, CountersOK,
         IdsOK, DomainsOK
<1>9. CASE TrackBatch
  <2>1. HistoryOK'
    BY <1>9, EventTyped, CommandInDomain DEF TrackBatch, Events, TypeOK,
         Revision, CountersOK, HistoryOK
  <2>2. CountersOK'
    BY <1>9, WorkerAssumption DEF TrackBatch, WorkerAssumption, TypeOK,
         CountersOK
  <2> QED
    BY <1>9, <2>1, <2>2 DEF TrackBatch, TypeOK, FlagsOK, PlacesOK, IdsOK,
         DomainsOK
<1>10. CASE TrackComplete
  <2>1. HistoryOK'
    BY <1>10, ReplyTyped, CommandInDomain DEF TrackComplete, Answer,
         Revision, Codes, TypeOK, IdsOK, HistoryOK
  <2>2. PlacesOK'
    BY <1>10 DEF TrackComplete, Answer, TypeOK, PlacesOK
  <2>3. IdsOK'
    BY <1>10 DEF TrackComplete, Answer, Retire, TypeOK, IdsOK
  <2> QED
    BY <1>10, <2>1, <2>2, <2>3 DEF TrackComplete, Answer, TypeOK, FlagsOK,
         CountersOK, DomainsOK
<1>11. CASE TrackCanceled
  BY <1>11, LeaveTyped DEF TrackCanceled
<1> QED
  BY <1>1, <1>2, <1>3, <1>4, <1>5, <1>6, <1>7, <1>8, <1>9, <1>10, <1>11 DEF
       TrackLoop

\* OperationThreadTyped: the operation thread keeps the types, to its last step.
LEMMA OperationThreadTyped ==
  ASSUME TypeOK, OperationThread
  PROVE  TypeOK'
<1> USE DEF mainVars, sharedVars, backendVars, localVars
<1>1. CASE ThreadStart
  <2>1. PlacesOK'
    BY <1>1 DEF ThreadStart, TypeOK, PlacesOK
  <2> QED
    BY <1>1, <2>1 DEF ThreadStart, TypeOK, HistoryOK, FlagsOK, CountersOK,
         IdsOK, DomainsOK
<1>2. CASE FallAsleep
  <2>1. PlacesOK'
    BY <1>2 DEF FallAsleep, TypeOK, PlacesOK
  <2> QED
    BY <1>2, <2>1 DEF FallAsleep, TypeOK, HistoryOK, FlagsOK, CountersOK,
         IdsOK, DomainsOK
<1>3. CASE Sleep
  <2>1. PlacesOK'
    BY <1>3 DEF Sleep, TypeOK, PlacesOK
  <2> QED
    BY <1>3, <2>1 DEF Sleep, TypeOK, HistoryOK, FlagsOK, CountersOK, IdsOK,
         DomainsOK
<1>4. CASE WakeCanceled
  BY <1>4, LeaveTyped DEF WakeCanceled
<1>5. CASE StreamLoop
  BY <1>5, StreamLoopTyped
<1>6. CASE TrackLoop
  BY <1>6, TrackLoopTyped
<1>7. CASE CommitTerminal
  <2>1. FlagsOK'
    BY <1>7 DEF CommitTerminal, TypeOK, FlagsOK
  <2>2. PlacesOK'
    BY <1>7 DEF CommitTerminal, TypeOK, PlacesOK
  <2>3. CountersOK'
    BY <1>7 DEF CommitTerminal, TypeOK, CountersOK
  <2> QED
    BY <1>7, <2>1, <2>2, <2>3 DEF CommitTerminal, TypeOK, HistoryOK, IdsOK,
         DomainsOK
<1>8. CASE RejectPending
  <2>1. HistoryOK'
    BY <1>8, ReplyTyped, CommandTyped DEF RejectPending, RejectionCode,
         Codes, TypeOK, IdsOK, HistoryOK
  <2>2. IdsOK'
    BY <1>8 DEF RejectPending, Retire, TypeOK, IdsOK
  <2> QED
    BY <1>8, <2>1, <2>2 DEF RejectPending, TypeOK, FlagsOK, PlacesOK,
         CountersOK, DomainsOK
<1>9. CASE EmitTerminal
  <2>1. HistoryOK'
    BY <1>9, EventTyped, CommandInDomain DEF EmitTerminal, Events, TypeOK,
         HistoryOK
  <2>2. PlacesOK'
    BY <1>9 DEF EmitTerminal, TypeOK, PlacesOK
  <2> QED
    BY <1>9, <2>1, <2>2 DEF EmitTerminal, TypeOK, FlagsOK, CountersOK, IdsOK,
         DomainsOK
<1>10. CASE FinishActive
  <2>1. FlagsOK'
    BY <1>10 DEF FinishActive, ResetOperation, TypeOK, FlagsOK
  <2>2. PlacesOK'
    BY <1>10 DEF FinishActive, ResetOperation, TypeOK, PlacesOK
  <2>3. CountersOK'
    BY <1>10 DEF FinishActive, ResetOperation, TypeOK, CountersOK
  <2>4. IdsOK'
    BY <1>10 DEF FinishActive, ResetOperation, TypeOK, IdsOK
  <2> QED
    BY <1>10, <2>1, <2>2, <2>3, <2>4 DEF FinishActive, ResetOperation,
         TypeOK, HistoryOK, DomainsOK
<1> QED
  BY <1>1, <1>2, <1>3, <1>4, <1>5, <1>6, <1>7, <1>8, <1>9, <1>10 DEF
       OperationThread

\* A step that stutters, and every step.
LEMMA StutterTyped == TypeOK /\ UNCHANGED vars => TypeOK'
  BY DEF vars, mainVars, sharedVars, backendVars, localVars, TypeOK, HistoryOK,
         FlagsOK, PlacesOK, CountersOK, IdsOK, DomainsOK

\* NextTyped: no step of either thread leaves the types.
LEMMA NextTyped == TypeOK /\ [Next]_vars => TypeOK'
<1> SUFFICES ASSUME TypeOK, [Next]_vars PROVE TypeOK'
  OBVIOUS
<1>1. CASE MainRequest
  <2>1. PICK r \in RequestLines :
          /\ Reads(r)
          /\ \/ Hello(r)
             \/ RefuseUnnegotiated(r)
             \/ LoadModel(r)
             \/ RefuseStart(r)
             \/ StartOperation(r)
             \/ StreamRequest(r)
             \/ TrackRequest(r)
             \/ Cancel(r)
             \/ Shutdown(r)
    BY <1>1
       DEF MainRequest, Hello, RefuseUnnegotiated, LoadModel, RefuseStart,
           StartOperation, StreamRequest, RefuseStreamRequest, StreamChunk,
           StreamSettings, StreamEnd, TrackRequest, RefuseTrackRequest,
           TrackChunk, TrackPrepare, TrackRenderStale, TrackRenderNewer,
           Cancel, Shutdown
  <2> QED
    BY <2>1, MainRequestTyped
<1>2. CASE StdinEof
  <2>1. HistoryOK' /\ CountersOK' /\ IdsOK'
    BY <1>2 DEF StdinEof, backendVars, localVars, TypeOK, HistoryOK,
                CountersOK, IdsOK
  <2>2. FlagsOK'
    BY <1>2 DEF StdinEof, StopOperation, backendVars, localVars, TypeOK,
                FlagsOK
  <2>3. PlacesOK'
    BY <1>2 DEF StdinEof, StopOperation, Notify, backendVars, localVars,
                TypeOK, PlacesOK
  <2>4. DomainsOK'
    BY <1>2 DEF StdinEof, StopOperation, Notify, localVars, TypeOK, DomainsOK
  <2> QED
    BY <2>1, <2>2, <2>3, <2>4 DEF TypeOK
<1>3. CASE MainContinues
  BY <1>3, MainContinuesTyped
<1>4. CASE OperationThread
  BY <1>4, OperationThreadTyped
<1>5. CASE SpuriousWakeup
  <2>1. PlacesOK' /\ DomainsOK'
    BY <1>5 DEF SpuriousWakeup, mainVars, sharedVars, backendVars, localVars,
                TypeOK, PlacesOK, DomainsOK
  <2> QED
    BY <1>5, <2>1
       DEF SpuriousWakeup, mainVars, sharedVars, backendVars, localVars,
           TypeOK, HistoryOK, FlagsOK, CountersOK, IdsOK
<1>6. CASE StreamFails
  BY <1>6, LeaveTyped DEF StreamFails
<1>7. CASE TrackFails
  BY <1>7, LeaveTyped DEF TrackFails
<1>8. CASE UNCHANGED vars
  BY <1>8, StutterTyped
<1> QED
  BY <1>1, <1>2, <1>3, <1>4, <1>5, <1>6, <1>7, <1>8 DEF Next

\* TypeCorrect: every variable keeps its type in every reachable state, and
\* the request a step looks up with `received` has been received.
THEOREM TypeCorrect == Spec => []TypeOK
  BY InitTyped, NextTyped, PTL DEF Spec
-----------------------------------------------------------------------------
\* One more reply, or one more event, on stdout.
LEMMA ReplyWritten ==
  ASSUME TypeOK, ExactlyOneReply, NEW id \in Nat \ Replied, NEW code, NEW n,
         Emit(ReplyLine(id, code, n))
  PROVE  /\ Replied' = Replied \cup {id}
         /\ (\A i, j \in Replies : stdout[i].id = stdout[j].id => i = j)'
<1> DEFINE next == Len(stdout) + 1
<1>1. stdout \in Seq(Line)
  BY DEF TypeOK, HistoryOK
<1>2. /\ DOMAIN stdout' = DOMAIN stdout \cup {next} /\ next \notin DOMAIN stdout
      /\ \A i \in DOMAIN stdout : stdout'[i] = stdout[i]
      /\ stdout'[next] = ReplyLine(id, code, n)
  BY <1>1 DEF Emit
<1>3. stdout'[next].type = "reply" /\ stdout'[next].id = id
  BY <1>2 DEF ReplyLine
<1>4. /\ Replies' = Replies \cup {next} /\ next \notin Replies
      /\ \A i \in Replies : stdout'[i] = stdout[i]
  BY <1>2, <1>3 DEF Replies, Written
<1>5. Replied' = Replied \cup {id}
  BY <1>3, <1>4 DEF Replied
<1>6. \A i \in Replies : stdout[i].id # id
  BY DEF Replied
<1>7. \A i, j \in Replies : stdout[i].id = stdout[j].id => i = j
  BY DEF ExactlyOneReply
<1> HIDE DEF next
<1>8. (\A i, j \in Replies : stdout[i].id = stdout[j].id => i = j)'
  BY <1>3, <1>4, <1>6, <1>7
<1> QED
  BY <1>5, <1>8

\* EventWritten: an event answers no request.
LEMMA EventWritten ==
  ASSUME TypeOK, ExactlyOneReply, NEW name, NEW n, NEW k,
         Emit(EventLine(name, n, k))
  PROVE  /\ Replied' = Replied
         /\ (\A i, j \in Replies : stdout[i].id = stdout[j].id => i = j)'
<1> DEFINE next == Len(stdout) + 1
<1>1. stdout \in Seq(Line)
  BY DEF TypeOK, HistoryOK
<1>2. /\ DOMAIN stdout' = DOMAIN stdout \cup {next} /\ next \notin DOMAIN stdout
      /\ \A i \in DOMAIN stdout : stdout'[i] = stdout[i]
      /\ stdout'[next] = EventLine(name, n, k)
  BY <1>1 DEF Emit
<1>3. stdout'[next].type # "reply"
  BY <1>2 DEF EventLine
<1>4. Replies' = Replies /\ \A i \in Replies : stdout'[i] = stdout[i]
  BY <1>2, <1>3 DEF Replies, Written
<1> QED
  BY <1>4 DEF Replied, ExactlyOneReply

\* NothingWritten: a step that writes nothing answers no request.
LEMMA NothingWritten ==
  ASSUME ExactlyOneReply, UNCHANGED stdout
  PROVE  /\ Replied' = Replied
         /\ (\A i, j \in Replies : stdout[i].id = stdout[j].id => i = j)'
  BY DEF ExactlyOneReply, Replied, Replies, Written
-----------------------------------------------------------------------------
\* The five ways a request moves between the client, the main thread's hands,
\* the pending set and its reply.
LEMMA AnswerRead ==
  ASSUME TypeOK, ExactlyOneReply, NEW r \in RequestLines, Reads(r),
         NEW code, NEW n, Emit(ReplyLine(NewId, code, n)),
         UNCHANGED <<pc, pending>>
  PROVE  ExactlyOneReply'
<1>1. InHand = {} /\ InHand' = {}
  BY DEF Reads, InHand
<1>2. NewId \in Nat \ Replied
  BY ReadIds DEF ExactlyOneReply
<1> QED
  BY <1>1, <1>2, ReadIds, ReplyWritten DEF ExactlyOneReply

\* HoldRead: a request held by its handler is not answered yet.
LEMMA HoldRead ==
  ASSUME TypeOK, ExactlyOneReply, NEW r \in RequestLines, Reads(r),
         pc' \in {"respond", "displace", "join"}, UNCHANGED <<stdout, pending>>
  PROVE  ExactlyOneReply'
<1>1. InHand = {} /\ InHand' = {NewId}
  BY ReadTyped DEF Reads, InHand, NewId
<1> QED
  BY <1>1, ReadIds, NothingWritten DEF ExactlyOneReply

\* DeferRead: a request left to the operation thread is pending.
LEMMA DeferRead ==
  ASSUME TypeOK, ExactlyOneReply, NEW r \in RequestLines, Reads(r),
         pending' = pending \cup {NewId}, UNCHANGED <<pc, stdout>>
  PROVE  ExactlyOneReply'
<1>1. InHand = {} /\ InHand' = {}
  BY DEF Reads, InHand
<1> QED
  BY <1>1, ReadIds, NothingWritten DEF ExactlyOneReply

\* AnswerHeld: a handler answers the request it holds, which is the last read.
LEMMA AnswerHeld ==
  ASSUME TypeOK, ExactlyOneReply, pc \in {"respond", "join"},
         NEW code, NEW n, Emit(ReplyLine(Len(received), code, n)),
         pc' \in {"ready", "exited"}, UNCHANGED <<received, pending>>
  PROVE  ExactlyOneReply'
<1>1. InHand = {Len(received)} /\ InHand' = {}
  BY DEF InHand
<1>2. Len(received) \in Nat \ Replied
  BY <1>1 DEF ExactlyOneReply, TypeOK, HistoryOK
<1> QED
  BY <1>1, <1>2, ReplyWritten DEF ExactlyOneReply

\* AnswerPending: an id is retired from pending with its only reply.
LEMMA AnswerPending ==
  ASSUME TypeOK, ExactlyOneReply, NEW id \in pending,
         NEW code, NEW n, Emit(ReplyLine(id, code, n)),
         Retire(id), UNCHANGED <<received, pc>>
  PROVE  ExactlyOneReply'
<1>1. InHand' = InHand
  BY DEF InHand
<1>2. id \in Nat \ Replied
  BY DEF ExactlyOneReply, TypeOK, IdsOK
<1> QED
  BY <1>1, <1>2, ReplyWritten DEF ExactlyOneReply, Retire

\* Steps that answer nothing.
LEMMA QuietStep ==
  ASSUME ExactlyOneReply, UNCHANGED <<received, stdout, pending>>,
         InHand' = InHand
  PROVE  ExactlyOneReply'
  BY NothingWritten DEF ExactlyOneReply

\* EventStep: a step that writes an event keeps the ledger of replies.
LEMMA EventStep ==
  ASSUME TypeOK, ExactlyOneReply, NEW name, NEW n, NEW k,
         Emit(EventLine(name, n, k)), UNCHANGED <<received, pc, pending>>
  PROVE  ExactlyOneReply'
<1>1. InHand' = InHand
  BY DEF InHand
<1> QED
  BY <1>1, EventWritten DEF ExactlyOneReply
-----------------------------------------------------------------------------
\* An accepted request names the operation in progress.
LEMMA OperationNamed ==
  ASSUME NEW r \in RequestLines,
         r.method \notin {"hello", "load_model", "shutdown"}
  PROVE  r.operation # 0
  BY DEF RequestLines

\* StreamAccepted: require_stream_locked accepts the active Stream's requests.
LEMMA StreamAccepted ==
  ASSUME NEW r \in RequestLines, r.method \in StreamMethods,
         StreamRefusal(r) = "ok"
  PROVE  /\ operation = r.operation /\ operation # 0 /\ ~committed
         /\ kind = "stream"
<1>1. r.operation # 0
  BY OperationNamed DEF StreamMethods
<1> QED
  BY <1>1 DEF StreamRefusal, StreamActive

\* TrackAccepted: require_track_locked accepts the active track's requests.
LEMMA TrackAccepted ==
  ASSUME NEW r \in RequestLines, r.method \in TrackMethods,
         TrackRefusal(r) = "ok"
  PROVE  /\ operation = r.operation /\ operation # 0 /\ ~committed
         /\ kind = "track"
<1>1. r.operation # 0
  BY OperationNamed DEF TrackMethods
<1> QED
  BY <1>1 DEF TrackRefusal, TrackActive

\* RefuseKeeps: a refusal is the one reply of the request just read.
LEMMA RefuseKeeps ==
  ASSUME IInv, TypeOK', NEW r \in RequestLines, Reads(r), NEW code,
         Refuse(code)
  PROVE  IInv'
<1> USE DEF Refuse, sharedVars, backendVars, localVars
<1>1. IdleIsReleased'
  BY DEF IInv, IdleIsReleased
<1>2. Places'
  BY ReadTyped DEF IInv, Places, Ending, Reads
<1>3. Ownership'
  BY ReadTyped
     DEF IInv, TypeOK, IdsOK, Ending, Ownership, QueueOwned, BatchOwned,
         CommandOwned, QueueOfTrack
<1>4. ExactlyOneReply'
  BY AnswerRead DEF IInv
<1> QED
  BY <1>1, <1>2, <1>3, <1>4 DEF IInv

\* A request answered at once that only joins the thread of an operation that
\* has ended.
LEMMA JoinedKeeps ==
  ASSUME IInv, TypeOK', NEW r \in RequestLines, Reads(r), NEW code, ~Busy,
         Emit(ReplyLine(NewId, code, 0)), thread' = Joined,
         UNCHANGED <<pc, sharedVars, backendVars, localVars>>
  PROVE  IInv'
<1> USE DEF sharedVars, backendVars, localVars
<1>1. thread \in {"none", "exited"} /\ thread' \in {"none", "exited"}
  BY DEF Busy, Joined, IInv, IdleIsReleased
<1>2. IdleIsReleased'
  BY <1>1 DEF IInv, IdleIsReleased
<1>3. Places'
  BY <1>1, ReadTyped DEF IInv, Places, Ending, Reads
<1>4. Ownership'
  BY <1>1, ReadTyped
     DEF IInv, TypeOK, IdsOK, Ending, Ownership, QueueOwned, BatchOwned,
         CommandOwned, QueueOfTrack
<1>5. ExactlyOneReply'
  BY AnswerRead DEF IInv
<1> QED
  BY <1>2, <1>3, <1>4, <1>5 DEF IInv

\* RequestsKeep: requests answered at once keep the invariant.
LEMMA RequestsKeep ==
  ASSUME IInv, TypeOK', NEW r \in RequestLines, Reads(r),
         \/ RefuseUnnegotiated(r)
         \/ LoadModel(r)
         \/ RefuseStart(r)
         \/ RefuseStreamRequest(r)
         \/ RefuseTrackRequest(r)
         \/ Cancel(r)
         \/ Hello(r)
         \/ StartOperation(r)
         \/ StreamChunk(r)
         \/ StreamSettings(r)
         \/ StreamEnd(r)
         \/ TrackChunk(r)
         \/ TrackPrepare(r)
         \/ TrackRenderStale(r)
         \/ TrackRenderNewer(r)
         \/ Shutdown(r)
  PROVE  IInv'
<1> USE DEF sharedVars, backendVars, localVars
<1>1. CASE RefuseUnnegotiated(r)
  BY <1>1, RefuseKeeps DEF RefuseUnnegotiated
<1>2. CASE LoadModel(r)
  <2>1. CASE Refuse("busy")
    BY <2>1, RefuseKeeps
  <2>2. ASSUME ~Busy, NEW success \in BOOLEAN,
               Emit(ReplyLine(NewId, IF success THEN "ok" ELSE "model_invalid",
                              0)),
               thread' = Joined,
               UNCHANGED <<pc, negotiated, operations, sharedVars,
                           backendVars, localVars>>
        PROVE  IInv'
    BY <2>2, JoinedKeeps
  <2> QED
    BY <1>2, <2>1, <2>2 DEF LoadModel
<1>3. CASE RefuseStart(r)
  <2>1. CASE Refuse("busy")
    BY <2>1, RefuseKeeps
  <2>2. CASE ~Refuse("busy")
    BY <1>3, <2>2, JoinedKeeps DEF RefuseStart
  <2> QED
    BY <2>1, <2>2
<1>4. CASE RefuseStreamRequest(r)
  BY <1>4, RefuseKeeps DEF RefuseStreamRequest
<1>5. CASE RefuseTrackRequest(r)
  BY <1>5, RefuseKeeps DEF RefuseTrackRequest
<1>6. CASE Cancel(r)
  <2>1. CASE Refuse("operation_not_found")
    BY <2>1, RefuseKeeps
  <2>2. CASE ~Refuse("operation_not_found")
    <3>1. r.operation # 0 /\ Cancelable(r.operation)
      BY <1>6, <2>2, OperationNamed DEF Cancel
    <3>2. IdleIsReleased'
      BY <1>6, <2>2, <3>1
         DEF Cancel, Cancelable, Notify, IInv, IdleIsReleased
    <3>3. Places'
      <4>1. pc' = "respond" /\ Notify
            /\ UNCHANGED <<kind, committed, backend, audio>>
        BY <1>6, <2>2 DEF Cancel
      <4> QED
        BY <4>1 DEF Notify, IInv, Places, Ending
    <3>4. Ownership'
      BY <1>6, <2>2, ReadTyped
         DEF Cancel, Notify, IInv, TypeOK, IdsOK, Ending, Ownership,
             QueueOwned, BatchOwned, CommandOwned, QueueOfTrack
    <3>5. ExactlyOneReply'
      BY <1>6, <2>2, HoldRead DEF Cancel, IInv
    <3> QED
      BY <3>2, <3>3, <3>4, <3>5 DEF IInv
  <2> QED
    BY <2>1, <2>2
<1>7. CASE Hello(r)
  <2>1. IdleIsReleased'
    BY <1>7 DEF Hello, IInv, IdleIsReleased
  <2>2. Places'
    BY <1>7, ReadTyped DEF Hello, IInv, Places, Ending, Reads
  <2>3. QueueOwned'
    BY <1>7, ReadTyped, ReadIds DEF Hello, IInv, TypeOK, IdsOK,
         IdleIsReleased, Ownership, QueueOwned, Ending, Deferred
  <2>4. BatchOwned'
    BY <1>7, ReadTyped, ReadIds DEF Hello, IInv, TypeOK, IdsOK, Ownership,
         BatchOwned
  <2>5. CommandOwned'
    BY <1>7, ReadTyped, ReadIds DEF Hello, IInv, TypeOK, IdsOK, Ownership,
         CommandOwned
  <2>6. QueueOfTrack'
    BY <1>7, ReadTyped, ReadIds DEF Hello, IInv, TypeOK, IdsOK,
         IdleIsReleased, Ownership, QueueOfTrack, TrackMethods
  <2>7. ExactlyOneReply'
    BY <1>7, AnswerRead DEF Hello, IInv
  <2> QED
    BY <2>1, <2>2, <2>3, <2>4, <2>5, <2>6, <2>7 DEF IInv, Ownership
<1>8. CASE StartOperation(r)
  <2>1. IdleIsReleased'
    BY <1>8, OperationNamed DEF StartOperation, Busy, StartMethods, IInv,
         IdleIsReleased
  <2>2. Places'
    BY <1>8, ReadTyped DEF StartOperation, IInv, Places, Ending, Reads
  <2>3. QueueOwned'
    BY <1>8, ReadTyped, ReadIds DEF StartOperation, Busy, IInv, TypeOK,
         IdsOK, IdleIsReleased, Ownership, QueueOwned, Ending, Deferred
  <2>4. BatchOwned'
    BY <1>8, ReadTyped, ReadIds DEF StartOperation, IInv, TypeOK, IdsOK,
         Ownership, BatchOwned
  <2>5. CommandOwned'
    BY <1>8, ReadTyped, ReadIds DEF StartOperation, IInv, TypeOK, IdsOK,
         Ownership, CommandOwned
  <2>6. QueueOfTrack'
    BY <1>8, ReadTyped, ReadIds DEF StartOperation, Busy, IInv, TypeOK,
         IdsOK, IdleIsReleased, Ownership, QueueOfTrack, TrackMethods
  <2>7. ExactlyOneReply'
    BY <1>8, HoldRead DEF StartOperation, IInv
  <2> QED
    BY <2>1, <2>2, <2>3, <2>4, <2>5, <2>6, <2>7 DEF IInv, Ownership
<1>9. CASE StreamChunk(r)
  <2>0. operation = r.operation /\ operation # 0 /\ ~committed
        /\ kind = "stream"
    BY <1>9, StreamAccepted DEF StreamChunk, StreamMethods
  <2>1. IdleIsReleased'
    BY <1>9, <2>0 DEF StreamChunk, Push, Notify, IInv, IdleIsReleased
  <2>2. Places'
    BY <1>9, ReadTyped, <2>0 DEF StreamChunk, Push, Notify, IInv, Places,
         Ending, Reads
  <2>3. QueueOwned'
    BY <1>9, ReadTyped, ReadIds, <2>0 DEF StreamChunk, Push, Notify, IInv,
         TypeOK, IdsOK, IdleIsReleased, Ownership, QueueOwned, Ending,
         Deferred
  <2>4. BatchOwned'
    BY <1>9, ReadTyped, ReadIds, <2>0, SMTT(30) DEF StreamChunk, Push, Notify, IInv,
         TypeOK, IdsOK, Ownership, BatchOwned
  <2>5. CommandOwned'
    BY <1>9, ReadTyped, ReadIds, <2>0 DEF StreamChunk, Push, Notify, IInv,
         TypeOK, IdsOK, Ownership, CommandOwned
  <2>6. QueueOfTrack'
    BY <1>9, ReadTyped, ReadIds, <2>0 DEF StreamChunk, Push, Notify, IInv,
         TypeOK, IdsOK, IdleIsReleased, Ownership, QueueOfTrack, TrackMethods
  <2>7. ExactlyOneReply'
    BY <1>9, HoldRead DEF StreamChunk, IInv
  <2> QED
    BY <2>1, <2>2, <2>3, <2>4, <2>5, <2>6, <2>7 DEF IInv, Ownership
<1>10. CASE StreamSettings(r)
  <2>0. operation = r.operation /\ operation # 0 /\ ~committed
        /\ kind = "stream"
    BY <1>10, StreamAccepted DEF StreamSettings, StreamMethods
  <2>1. IdleIsReleased'
    BY <1>10, <2>0 DEF StreamSettings, Push, Notify, IInv, IdleIsReleased
  <2>2. Places'
    BY <1>10, ReadTyped, <2>0 DEF StreamSettings, Push, Notify, IInv, Places,
         Ending, Reads
  <2>3. QueueOwned'
    BY <1>10, ReadTyped, ReadIds, <2>0 DEF StreamSettings, Push, Notify,
         IInv, TypeOK, IdsOK, IdleIsReleased, Ownership, QueueOwned, Ending,
         Deferred
  <2>4. BatchOwned'
    BY <1>10, ReadTyped, ReadIds, <2>0, SMTT(30) DEF StreamSettings, Push, Notify,
         IInv, TypeOK, IdsOK, Ownership, BatchOwned
  <2>5. CommandOwned'
    BY <1>10, ReadTyped, ReadIds, <2>0 DEF StreamSettings, Push, Notify,
         IInv, TypeOK, IdsOK, Ownership, CommandOwned
  <2>6. QueueOfTrack'
    BY <1>10, ReadTyped, ReadIds, <2>0 DEF StreamSettings, Push, Notify,
         IInv, TypeOK, IdsOK, IdleIsReleased, Ownership, QueueOfTrack,
         TrackMethods
  <2>7. ExactlyOneReply'
    BY <1>10, DeferRead DEF StreamSettings, IInv
  <2> QED
    BY <2>1, <2>2, <2>3, <2>4, <2>5, <2>6, <2>7 DEF IInv, Ownership
<1>11. CASE StreamEnd(r)
  <2>0. operation = r.operation /\ operation # 0 /\ ~committed
        /\ kind = "stream"
    BY <1>11, StreamAccepted DEF StreamEnd, StreamMethods
  <2>1. IdleIsReleased'
    BY <1>11, <2>0 DEF StreamEnd, Push, Notify, IInv, IdleIsReleased
  <2>2. Places'
    BY <1>11, ReadTyped, <2>0 DEF StreamEnd, Push, Notify, IInv, Places,
         Ending, Reads
  <2>3. QueueOwned'
    BY <1>11, ReadTyped, ReadIds, <2>0 DEF StreamEnd, Push, Notify, IInv,
         TypeOK, IdsOK, IdleIsReleased, Ownership, QueueOwned, Ending,
         Deferred
  <2>4. BatchOwned'
    BY <1>11, ReadTyped, ReadIds, <2>0, SMTT(30) DEF StreamEnd, Push, Notify, IInv,
         TypeOK, IdsOK, Ownership, BatchOwned
  <2>5. CommandOwned'
    BY <1>11, ReadTyped, ReadIds, <2>0 DEF StreamEnd, Push, Notify, IInv,
         TypeOK, IdsOK, Ownership, CommandOwned
  <2>6. QueueOfTrack'
    BY <1>11, ReadTyped, ReadIds, <2>0 DEF StreamEnd, Push, Notify, IInv,
         TypeOK, IdsOK, IdleIsReleased, Ownership, QueueOfTrack, TrackMethods
  <2>7. ExactlyOneReply'
    BY <1>11, HoldRead DEF StreamEnd, IInv
  <2> QED
    BY <2>1, <2>2, <2>3, <2>4, <2>5, <2>6, <2>7 DEF IInv, Ownership
<1>12. CASE TrackChunk(r)
  <2>0. operation = r.operation /\ operation # 0 /\ ~committed
        /\ kind = "track"
    BY <1>12, TrackAccepted DEF TrackChunk, TrackMethods
  <2>1. IdleIsReleased'
    BY <1>12, <2>0 DEF TrackChunk, Push, Notify, IInv, IdleIsReleased
  <2>2. Places'
    BY <1>12, ReadTyped, <2>0 DEF TrackChunk, Push, Notify, IInv, Places,
         Ending, Reads
  <2>3. QueueOwned'
    BY <1>12, ReadTyped, ReadIds, <2>0 DEF TrackChunk, Push, Notify, IInv,
         TypeOK, IdsOK, IdleIsReleased, Ownership, QueueOwned, Ending,
         Deferred
  <2>4. BatchOwned'
    BY <1>12, ReadTyped, ReadIds, <2>0, SMTT(30) DEF TrackChunk, Push, Notify, IInv,
         TypeOK, IdsOK, Ownership, BatchOwned
  <2>5. CommandOwned'
    BY <1>12, ReadTyped, ReadIds, <2>0 DEF TrackChunk, Push, Notify, IInv,
         TypeOK, IdsOK, Ownership, CommandOwned
  <2>6. QueueOfTrack'
    BY <1>12, ReadTyped, ReadIds, <2>0 DEF TrackChunk, Push, Notify, IInv,
         TypeOK, IdsOK, IdleIsReleased, Ownership, QueueOfTrack, TrackMethods
  <2>7. ExactlyOneReply'
    BY <1>12, DeferRead DEF TrackChunk, IInv
  <2> QED
    BY <2>1, <2>2, <2>3, <2>4, <2>5, <2>6, <2>7 DEF IInv, Ownership
<1>13. CASE TrackPrepare(r)
  <2>0. operation = r.operation /\ operation # 0 /\ ~committed
        /\ kind = "track"
    BY <1>13, TrackAccepted DEF TrackPrepare, TrackMethods
  <2>1. IdleIsReleased'
    BY <1>13, <2>0 DEF TrackPrepare, Push, Notify, IInv, IdleIsReleased
  <2>2. Places'
    BY <1>13, ReadTyped, <2>0 DEF TrackPrepare, Push, Notify, IInv, Places,
         Ending, Reads
  <2>3. QueueOwned'
    BY <1>13, ReadTyped, ReadIds, <2>0 DEF TrackPrepare, Push, Notify, IInv,
         TypeOK, IdsOK, IdleIsReleased, Ownership, QueueOwned, Ending,
         Deferred
  <2>4. BatchOwned'
    BY <1>13, ReadTyped, ReadIds, <2>0, SMTT(30) DEF TrackPrepare, Push, Notify, IInv,
         TypeOK, IdsOK, Ownership, BatchOwned
  <2>5. CommandOwned'
    BY <1>13, ReadTyped, ReadIds, <2>0 DEF TrackPrepare, Push, Notify, IInv,
         TypeOK, IdsOK, Ownership, CommandOwned
  <2>6. QueueOfTrack'
    BY <1>13, ReadTyped, ReadIds, <2>0 DEF TrackPrepare, Push, Notify, IInv,
         TypeOK, IdsOK, IdleIsReleased, Ownership, QueueOfTrack, TrackMethods
  <2>7. ExactlyOneReply'
    BY <1>13, DeferRead DEF TrackPrepare, IInv
  <2> QED
    BY <2>1, <2>2, <2>3, <2>4, <2>5, <2>6, <2>7 DEF IInv, Ownership
<1>14. CASE TrackRenderStale(r)
  <2>0. operation = r.operation /\ operation # 0 /\ ~committed
        /\ kind = "track"
    BY <1>14, TrackAccepted DEF TrackRenderStale, TrackMethods
  <2>1. IdleIsReleased'
    BY <1>14, <2>0 DEF TrackRenderStale, IInv, IdleIsReleased
  <2>2. Places'
    BY <1>14, ReadTyped, <2>0 DEF TrackRenderStale, IInv, Places, Ending,
         Reads
  <2>3. QueueOwned'
    BY <1>14, ReadTyped, ReadIds, <2>0 DEF TrackRenderStale, IInv, TypeOK,
         IdsOK, IdleIsReleased, Ownership, QueueOwned, Ending, Deferred
  <2>4. BatchOwned'
    BY <1>14, ReadTyped, ReadIds, <2>0 DEF TrackRenderStale, IInv, TypeOK,
         IdsOK, Ownership, BatchOwned
  <2>5. CommandOwned'
    BY <1>14, ReadTyped, ReadIds, <2>0 DEF TrackRenderStale, IInv, TypeOK,
         IdsOK, Ownership, CommandOwned
  <2>6. QueueOfTrack'
    BY <1>14, ReadTyped, ReadIds, <2>0 DEF TrackRenderStale, IInv, TypeOK,
         IdsOK, IdleIsReleased, Ownership, QueueOfTrack, TrackMethods
  <2>7. ExactlyOneReply'
    BY <1>14, AnswerRead DEF TrackRenderStale, IInv
  <2> QED
    BY <2>1, <2>2, <2>3, <2>4, <2>5, <2>6, <2>7 DEF IInv, Ownership
<1>15. CASE TrackRenderNewer(r)
  <2>0. operation = r.operation /\ operation # 0 /\ ~committed
        /\ kind = "track"
    BY <1>15, TrackAccepted DEF TrackRenderNewer, TrackMethods
  <2>1. IdleIsReleased'
    BY <1>15, <2>0 DEF TrackRenderNewer, IInv, IdleIsReleased
  <2>2. Places'
    BY <1>15, ReadTyped, <2>0 DEF TrackRenderNewer, IInv, Places, Ending,
         Reads
  <2>3. QueueOwned'
    BY <1>15, ReadTyped, ReadIds, <2>0 DEF TrackRenderNewer, IInv, TypeOK,
         IdsOK, IdleIsReleased, Ownership, QueueOwned, Ending, Deferred
  <2>4. BatchOwned'
    BY <1>15, ReadTyped, ReadIds, <2>0 DEF TrackRenderNewer, IInv, TypeOK,
         IdsOK, Ownership, BatchOwned
  <2>5. CommandOwned'
    BY <1>15, ReadTyped, ReadIds, <2>0 DEF TrackRenderNewer, IInv, TypeOK,
         IdsOK, Ownership, CommandOwned
  <2>6. QueueOfTrack'
    BY <1>15, ReadTyped, ReadIds, <2>0 DEF TrackRenderNewer, IInv, TypeOK,
         IdsOK, IdleIsReleased, Ownership, QueueOfTrack, TrackMethods
  <2>7. ExactlyOneReply'
    BY <1>15, HoldRead DEF TrackRenderNewer, IInv
  <2> QED
    BY <2>1, <2>2, <2>3, <2>4, <2>5, <2>6, <2>7 DEF IInv, Ownership
<1>16. CASE Shutdown(r)
  <2>1. IdleIsReleased'
    BY <1>16 DEF Shutdown, StopOperation, Notify, IInv, IdleIsReleased
  <2>2. Places'
    BY <1>16, ReadTyped DEF Shutdown, StopOperation, Notify, IInv, Places,
         Ending, Reads
  <2>3. QueueOwned'
    BY <1>16, ReadTyped, ReadIds DEF Shutdown, StopOperation, Notify, IInv,
         TypeOK, IdsOK, IdleIsReleased, Ownership, QueueOwned, Ending,
         Deferred
  <2>4. BatchOwned'
    BY <1>16, ReadTyped, ReadIds DEF Shutdown, StopOperation, Notify, IInv,
         TypeOK, IdsOK, Ownership, BatchOwned
  <2>5. CommandOwned'
    BY <1>16, ReadTyped, ReadIds DEF Shutdown, StopOperation, Notify, IInv,
         TypeOK, IdsOK, Ownership, CommandOwned
  <2>6. QueueOfTrack'
    BY <1>16, ReadTyped, ReadIds DEF Shutdown, StopOperation, Notify, IInv,
         TypeOK, IdsOK, IdleIsReleased, Ownership, QueueOfTrack, TrackMethods
  <2>7. ExactlyOneReply'
    BY <1>16, HoldRead DEF Shutdown, IInv
  <2> QED
    BY <2>1, <2>2, <2>3, <2>4, <2>5, <2>6, <2>7 DEF IInv, Ownership
<1> QED
  BY <1>1, <1>2, <1>3, <1>4, <1>5, <1>6, <1>7, <1>8, <1>9, <1>10, <1>11,
       <1>12, <1>13, <1>14, <1>15, <1>16
-----------------------------------------------------------------------------
\* LeaveKeeps: leaving a loop turns to what is still pending.
LEMMA LeaveKeeps ==
  ASSUME IInv, NEW how, Leave(how),
         thread \notin {"none", "exited", "reject", "finish"}
  PROVE  IdleIsReleased' /\ Places' /\ Ownership' /\ ExactlyOneReply'
<1> USE DEF Leave, mainVars, sharedVars, backendVars
<1>1. IdleIsReleased'
  BY DEF IInv, IdleIsReleased
<1>2. Places'
  BY DEF IInv, Places, Ending
<1>3. Ownership'
  BY DEF IInv, Ending, Ownership, QueueOwned, BatchOwned, CommandOwned,
         QueueOfTrack
<1>4. ExactlyOneReply'
  BY QuietStep DEF IInv, InHand
<1> QED
  BY <1>1, <1>2, <1>3, <1>4

\* MainContinuesKeeps: a handler resumed after a wait or a join keeps it.
LEMMA MainContinuesKeeps ==
  ASSUME IInv, TypeOK', MainContinues
  PROVE  IdleIsReleased' /\ Places' /\ Ownership' /\ ExactlyOneReply'
<1> USE DEF mainVars, sharedVars, backendVars, localVars
<1>1. CASE Respond
  <2>1. IdleIsReleased'
    BY <1>1 DEF Respond, IInv, IdleIsReleased
  <2>2. Places'
    BY <1>1 DEF Respond, IInv, Places, Ending
  <2>3. Ownership'
    BY <1>1 DEF Respond, IInv, Ending, Ownership, QueueOwned, BatchOwned,
         CommandOwned, QueueOfTrack
  <2>4. ExactlyOneReply'
    BY <1>1, AnswerHeld DEF Respond, IInv
  <2> QED
    BY <2>1, <2>2, <2>3, <2>4
<1>2. CASE TrackRenderDisplace
  <2>1. IdleIsReleased'
    BY <1>2 DEF TrackRenderDisplace, QueuedRenders, Retire, IInv,
         IdleIsReleased
  <2>2. Places'
    BY <1>2 DEF TrackRenderDisplace, QueuedRenders, Retire, IInv, Places,
         Ending
  <2>3. QueueOwned'
    BY <1>2 DEF TrackRenderDisplace, QueuedRenders, Retire, IInv, Ownership,
         QueueOwned, Ending
  <2>4. BatchOwned'
    BY <1>2 DEF TrackRenderDisplace, QueuedRenders, Retire, IInv, Ownership,
         BatchOwned
  <2>5. CommandOwned'
    BY <1>2 DEF TrackRenderDisplace, QueuedRenders, Retire, IInv, Ownership,
         CommandOwned
  <2>6. QueueOfTrack'
    BY <1>2 DEF TrackRenderDisplace, QueuedRenders, Retire, IInv, Ownership,
         QueueOfTrack
  <2>7. ExactlyOneReply'
    BY <1>2, AnswerPending DEF TrackRenderDisplace, QueuedRenders, Ownership,
         QueueOwned, Deferred, Places, IInv
  <2> QED
    BY <2>1, <2>2, <2>3, <2>4, <2>5, <2>6, <2>7 DEF Ownership
<1>3. CASE TrackRenderQueue
  <2>1. IdleIsReleased'
    BY <1>3 DEF TrackRenderQueue, Notify, IInv, IdleIsReleased, Places
  <2>2. Places'
    BY <1>3 DEF TrackRenderQueue, Notify, IInv, Places, Ending
  <2>3. QueueOwned'
    BY <1>3 DEF TrackRenderQueue, Notify, IInv, Ownership, QueueOwned, Ending
  <2>4. BatchOwned'
    BY <1>3 DEF TrackRenderQueue, Notify, IInv, Ownership, BatchOwned, Places
  <2>5. CommandOwned'
    BY <1>3 DEF TrackRenderQueue, Notify, IInv, Ownership, CommandOwned,
         Places, ExactlyOneReply, InHand
  <2>6. QueueOfTrack'
    BY <1>3 DEF TrackRenderQueue, Notify, IInv, Ownership, QueueOfTrack,
         Places, TrackMethods
  <2>7. ExactlyOneReply'
    BY <1>3, NothingWritten DEF TrackRenderQueue, InHand, ExactlyOneReply,
         IInv
  <2> QED
    BY <2>1, <2>2, <2>3, <2>4, <2>5, <2>6, <2>7 DEF Ownership
<1>4. CASE JoinOperation
  <2>1. IdleIsReleased'
    BY <1>4 DEF JoinOperation, IInv, IdleIsReleased
  <2>2. Places'
    BY <1>4 DEF JoinOperation, IInv, Places, Ending
  <2>3. Ownership'
    BY <1>4 DEF JoinOperation, IInv, Ending, Ownership, QueueOwned,
         BatchOwned, CommandOwned, QueueOfTrack
  <2>4. ExactlyOneReply'
    BY <1>4, AnswerHeld, QuietStep DEF JoinOperation, InHand, IInv
  <2> QED
    BY <2>1, <2>2, <2>3, <2>4
<1> QED
  BY <1>1, <1>2, <1>3, <1>4 DEF MainContinues

\* StreamLoopKeeps: Server::stream_loop keeps the invariant.
LEMMA StreamLoopKeeps ==
  ASSUME IInv, TypeOK', StreamLoop
  PROVE  IdleIsReleased' /\ Places' /\ Ownership' /\ ExactlyOneReply'
<1> USE DEF mainVars, sharedVars, backendVars, localVars
<1>1. CASE StreamTake
  <2>1. IdleIsReleased'
    BY <1>1 DEF StreamTake, QueuedSettings, Pop, IInv, IdleIsReleased
  <2>2. Places'
    BY <1>1 DEF StreamTake, QueuedSettings, Pop, IInv, Places, Ending
  <2>3. QueueOwned'
    BY <1>1 DEF StreamTake, QueuedSettings, Pop, IInv, Ownership, QueueOwned,
         Ending
  <2>4. BatchOwned'
    BY <1>1 DEF StreamTake, QueuedSettings, Pop, IInv, Ownership, BatchOwned,
         QueueOwned, Ending, Deferred
  <2>5. CommandOwned'
    BY <1>1 DEF StreamTake, QueuedSettings, Pop, IInv, Ownership,
         CommandOwned
  <2>6. QueueOfTrack'
    BY <1>1 DEF StreamTake, QueuedSettings, Pop, IInv, Ownership,
         QueueOfTrack
  <2>7. ExactlyOneReply'
    BY <1>1, QuietStep DEF StreamTake, InHand, IInv
  <2> QED
    BY <2>1, <2>2, <2>3, <2>4, <2>5, <2>6, <2>7 DEF Ownership
<1>2. CASE StreamConfigure
  <2>1. IdleIsReleased'
    BY <1>2 DEF StreamConfigure, IInv, IdleIsReleased
  <2>2. Places'
    BY <1>2 DEF StreamConfigure, IInv, Places, Ending
  <2>3. Ownership'
    BY <1>2 DEF StreamConfigure, IInv, Ending, Ownership, QueueOwned,
         BatchOwned, CommandOwned, QueueOfTrack
  <2>4. ExactlyOneReply'
    BY <1>2, QuietStep DEF StreamConfigure, InHand, IInv
  <2> QED
    BY <2>1, <2>2, <2>3, <2>4
<1>3. CASE StreamAcknowledge
  <2>1. IdleIsReleased'
    BY <1>3 DEF StreamAcknowledge, Retire, IInv, IdleIsReleased
  <2>2. Places'
    BY <1>3 DEF StreamAcknowledge, Retire, IInv, Places, Ending
  <2>3. QueueOwned'
    BY <1>3 DEF StreamAcknowledge, Retire, IInv, Ownership, QueueOwned,
         Ending, BatchOwned
  <2>4. BatchOwned'
    BY <1>3 DEF StreamAcknowledge, Retire, IInv, Ownership, BatchOwned
  <2>5. CommandOwned'
    BY <1>3 DEF StreamAcknowledge, Retire, IInv, Ownership, CommandOwned,
         Places
  <2>6. QueueOfTrack'
    BY <1>3 DEF StreamAcknowledge, Retire, IInv, Ownership, QueueOfTrack
  <2>7. ExactlyOneReply'
    BY <1>3, AnswerPending DEF StreamAcknowledge, Ownership, BatchOwned, IInv
  <2> QED
    BY <2>1, <2>2, <2>3, <2>4, <2>5, <2>6, <2>7 DEF Ownership
<1>4. CASE StreamServe
  <2>1. IdleIsReleased'
    BY <1>4 DEF StreamServe, IInv, IdleIsReleased
  <2>2. Places'
    BY <1>4 DEF StreamServe, IInv, Places, Ending
  <2>3. Ownership'
    BY <1>4 DEF StreamServe, IInv, Ending, Ownership, QueueOwned, BatchOwned,
         CommandOwned, QueueOfTrack
  <2>4. ExactlyOneReply'
    BY <1>4, EventStep, QuietStep DEF StreamServe, InHand, IInv
  <2> QED
    BY <2>1, <2>2, <2>3, <2>4
<1>5. CASE StreamFrame
  <2>1. IdleIsReleased'
    BY <1>5 DEF StreamFrame, IInv, IdleIsReleased
  <2>2. Places'
    BY <1>5 DEF StreamFrame, IInv, Places, Ending
  <2>3. Ownership'
    BY <1>5 DEF StreamFrame, IInv, Ending, Ownership, QueueOwned, BatchOwned,
         CommandOwned, QueueOfTrack
  <2>4. ExactlyOneReply'
    BY <1>5, EventStep DEF StreamFrame, IInv
  <2> QED
    BY <2>1, <2>2, <2>3, <2>4
<1>6. CASE StreamDrained
  <2>1. IdleIsReleased'
    BY <1>6 DEF StreamDrained, IInv, IdleIsReleased
  <2>2. Places'
    BY <1>6 DEF StreamDrained, IInv, Places, Ending
  <2>3. Ownership'
    BY <1>6 DEF StreamDrained, IInv, Ending, Ownership, QueueOwned,
         BatchOwned, CommandOwned, QueueOfTrack
  <2>4. ExactlyOneReply'
    BY <1>6, QuietStep DEF StreamDrained, InHand, IInv
  <2> QED
    BY <2>1, <2>2, <2>3, <2>4
<1>7. CASE StreamCanceled
  BY <1>7, LeaveKeeps DEF StreamCanceled
<1> QED
  BY <1>1, <1>2, <1>3, <1>4, <1>5, <1>6, <1>7 DEF StreamLoop

\* TrackLoopKeeps: Server::track_loop keeps the invariant.
LEMMA TrackLoopKeeps ==
  ASSUME IInv, TypeOK', TrackLoop
  PROVE  IdleIsReleased' /\ Places' /\ Ownership' /\ ExactlyOneReply'
<1> USE DEF mainVars, sharedVars, backendVars, localVars
<1>1. CASE TrackTake
  <2>1. IdleIsReleased'
    BY <1>1 DEF TrackTake, IsLeast, Pop, IInv, IdleIsReleased
  <2>2. Places'
    BY <1>1 DEF TrackTake, IsLeast, Pop, IInv, Places, Ending
  <2>3. QueueOwned'
    BY <1>1 DEF TrackTake, IsLeast, Pop, IInv, Ownership, QueueOwned, Ending
  <2>4. BatchOwned'
    BY <1>1 DEF TrackTake, IsLeast, Pop, IInv, Ownership, BatchOwned
  <2>5. CommandOwned'
    BY <1>1 DEF TrackTake, IsLeast, Pop, IInv, Ownership, CommandOwned,
         QueueOwned, QueueOfTrack, Ending, Deferred, TrackMethods
  <2>6. QueueOfTrack'
    BY <1>1 DEF TrackTake, IsLeast, Pop, IInv, Ownership, QueueOfTrack
  <2>7. ExactlyOneReply'
    BY <1>1, QuietStep DEF TrackTake, InHand, IInv
  <2> QED
    BY <2>1, <2>2, <2>3, <2>4, <2>5, <2>6, <2>7 DEF Ownership
<1>2. CASE TrackAppend
  <2>1. IdleIsReleased'
    BY <1>2 DEF TrackAppend, Answer, Retire, IInv, IdleIsReleased
  <2>2. Places'
    BY <1>2 DEF TrackAppend, Answer, Retire, IInv, Places, Ending
  <2>3. QueueOwned'
    BY <1>2 DEF TrackAppend, Answer, Retire, IInv, Ownership, QueueOwned,
         Ending, CommandOwned
  <2>4. BatchOwned'
    BY <1>2 DEF TrackAppend, Answer, Retire, IInv, Ownership, BatchOwned
  <2>5. CommandOwned'
    BY <1>2 DEF TrackAppend, Answer, Retire, IInv, Ownership, CommandOwned
  <2>6. QueueOfTrack'
    BY <1>2 DEF TrackAppend, Answer, Retire, IInv, Ownership, QueueOfTrack
  <2>7. ExactlyOneReply'
    BY <1>2, AnswerPending DEF TrackAppend, Answer, Ownership, CommandOwned,
         IInv
  <2> QED
    BY <2>1, <2>2, <2>3, <2>4, <2>5, <2>6, <2>7 DEF Ownership
<1>3. CASE TrackPrepared
  <2>1. IdleIsReleased'
    BY <1>3 DEF TrackPrepared, Answer, Retire, IInv, IdleIsReleased
  <2>2. Places'
    BY <1>3 DEF TrackPrepared, Answer, Retire, IInv, Places, Ending
  <2>3. QueueOwned'
    BY <1>3 DEF TrackPrepared, Answer, Retire, IInv, Ownership, QueueOwned,
         Ending, CommandOwned
  <2>4. BatchOwned'
    BY <1>3 DEF TrackPrepared, Answer, Retire, IInv, Ownership, BatchOwned
  <2>5. CommandOwned'
    BY <1>3 DEF TrackPrepared, Answer, Retire, IInv, Ownership, CommandOwned
  <2>6. QueueOfTrack'
    BY <1>3 DEF TrackPrepared, Answer, Retire, IInv, Ownership, QueueOfTrack
  <2>7. ExactlyOneReply'
    BY <1>3, AnswerPending DEF TrackPrepared, Answer, Ownership,
         CommandOwned, IInv
  <2> QED
    BY <2>1, <2>2, <2>3, <2>4, <2>5, <2>6, <2>7 DEF Ownership
<1>4. CASE TrackEmpty
  BY <1>4, LeaveKeeps DEF TrackEmpty
<1>5. CASE TrackSkip
  <2>1. IdleIsReleased'
    BY <1>5 DEF TrackSkip, Answer, Retire, IInv, IdleIsReleased
  <2>2. Places'
    BY <1>5 DEF TrackSkip, Answer, Retire, IInv, Places, Ending
  <2>3. QueueOwned'
    BY <1>5 DEF TrackSkip, Answer, Retire, IInv, Ownership, QueueOwned,
         Ending, CommandOwned
  <2>4. BatchOwned'
    BY <1>5 DEF TrackSkip, Answer, Retire, IInv, Ownership, BatchOwned
  <2>5. CommandOwned'
    BY <1>5 DEF TrackSkip, Answer, Retire, IInv, Ownership, CommandOwned
  <2>6. QueueOfTrack'
    BY <1>5 DEF TrackSkip, Answer, Retire, IInv, Ownership, QueueOfTrack
  <2>7. ExactlyOneReply'
    BY <1>5, AnswerPending DEF TrackSkip, Answer, Ownership, CommandOwned,
         IInv
  <2> QED
    BY <2>1, <2>2, <2>3, <2>4, <2>5, <2>6, <2>7 DEF Ownership
<1>6. CASE TrackBegin
  <2>1. IdleIsReleased'
    BY <1>6 DEF TrackBegin, IInv, IdleIsReleased
  <2>2. Places'
    BY <1>6 DEF TrackBegin, IInv, Places, Ending
  <2>3. Ownership'
    BY <1>6 DEF TrackBegin, IInv, Ending, Ownership, QueueOwned, BatchOwned,
         CommandOwned, QueueOfTrack
  <2>4. ExactlyOneReply'
    BY <1>6, QuietStep DEF TrackBegin, InHand, IInv
  <2> QED
    BY <2>1, <2>2, <2>3, <2>4
<1>7. CASE TrackExecute
  <2>1. IdleIsReleased'
    BY <1>7 DEF TrackExecute, IInv, IdleIsReleased
  <2>2. Places'
    BY <1>7 DEF TrackExecute, IInv, Places, Ending
  <2>3. Ownership'
    BY <1>7 DEF TrackExecute, IInv, Ending, Ownership, QueueOwned,
         BatchOwned, CommandOwned, QueueOfTrack
  <2>4. ExactlyOneReply'
    BY <1>7, EventStep, QuietStep DEF TrackExecute, InHand, IInv
  <2> QED
    BY <2>1, <2>2, <2>3, <2>4
<1>8. CASE TrackLatePreview
  <2>1. IdleIsReleased'
    BY <1>8 DEF TrackLatePreview, IInv, IdleIsReleased
  <2>2. Places'
    BY <1>8 DEF TrackLatePreview, IInv, Places, Ending
  <2>3. Ownership'
    BY <1>8 DEF TrackLatePreview, IInv, Ending, Ownership, QueueOwned,
         BatchOwned, CommandOwned, QueueOfTrack
  <2>4. ExactlyOneReply'
    BY <1>8, EventStep DEF TrackLatePreview, IInv
  <2> QED
    BY <2>1, <2>2, <2>3, <2>4
<1>9. CASE TrackBatch
  <2>1. IdleIsReleased'
    BY <1>9 DEF TrackBatch, IInv, IdleIsReleased
  <2>2. Places'
    BY <1>9 DEF TrackBatch, IInv, Places, Ending
  <2>3. Ownership'
    BY <1>9 DEF TrackBatch, IInv, Ending, Ownership, QueueOwned, BatchOwned,
         CommandOwned, QueueOfTrack
  <2>4. ExactlyOneReply'
    BY <1>9, EventStep DEF TrackBatch, IInv
  <2> QED
    BY <2>1, <2>2, <2>3, <2>4
<1>10. CASE TrackComplete
  <2>1. IdleIsReleased'
    BY <1>10 DEF TrackComplete, Answer, Retire, IInv, IdleIsReleased
  <2>2. Places'
    BY <1>10 DEF TrackComplete, Answer, Retire, IInv, Places, Ending
  <2>3. QueueOwned'
    BY <1>10 DEF TrackComplete, Answer, Retire, IInv, Ownership, QueueOwned,
         Ending, CommandOwned, Places
  <2>4. BatchOwned'
    BY <1>10 DEF TrackComplete, Answer, Retire, IInv, Ownership, BatchOwned
  <2>5. CommandOwned'
    BY <1>10 DEF TrackComplete, Answer, Retire, IInv, Ownership, CommandOwned
  <2>6. QueueOfTrack'
    BY <1>10 DEF TrackComplete, Answer, Retire, IInv, Ownership, QueueOfTrack
  <2>7. ExactlyOneReply'
    BY <1>10, AnswerPending DEF TrackComplete, Answer, Ownership,
         CommandOwned, Places, IInv
  <2> QED
    BY <2>1, <2>2, <2>3, <2>4, <2>5, <2>6, <2>7 DEF Ownership
<1>11. CASE TrackCanceled
  BY <1>11, LeaveKeeps DEF TrackCanceled
<1> QED
  BY <1>1, <1>2, <1>3, <1>4, <1>5, <1>6, <1>7, <1>8, <1>9, <1>10, <1>11 DEF
       TrackLoop

\* OperationThreadKeeps: the operation thread keeps it, finish_active included.
LEMMA OperationThreadKeeps ==
  ASSUME IInv, TypeOK', OperationThread
  PROVE  IdleIsReleased' /\ Places' /\ Ownership' /\ ExactlyOneReply'
<1> USE DEF mainVars, sharedVars, backendVars, localVars
<1>1. CASE ThreadStart
  <2>1. IdleIsReleased'
    BY <1>1 DEF ThreadStart, IInv, IdleIsReleased
  <2>2. Places'
    BY <1>1 DEF ThreadStart, IInv, Places, Ending
  <2>3. Ownership'
    BY <1>1 DEF ThreadStart, IInv, Ending, Ownership, QueueOwned, BatchOwned,
         CommandOwned, QueueOfTrack
  <2>4. ExactlyOneReply'
    BY <1>1, QuietStep DEF ThreadStart, InHand, IInv
  <2> QED
    BY <2>1, <2>2, <2>3, <2>4
<1>2. CASE FallAsleep
  <2>1. IdleIsReleased'
    BY <1>2 DEF FallAsleep, IInv, IdleIsReleased
  <2>2. Places'
    BY <1>2 DEF FallAsleep, IInv, Places, Ending
  <2>3. Ownership'
    BY <1>2 DEF FallAsleep, IInv, Ending, Ownership, QueueOwned, BatchOwned,
         CommandOwned, QueueOfTrack
  <2>4. ExactlyOneReply'
    BY <1>2, QuietStep DEF FallAsleep, InHand, IInv
  <2> QED
    BY <2>1, <2>2, <2>3, <2>4
<1>3. CASE Sleep
  <2>1. IdleIsReleased'
    BY <1>3 DEF Sleep, IInv, IdleIsReleased
  <2>2. Places'
    BY <1>3 DEF Sleep, IInv, Places, Ending
  <2>3. Ownership'
    BY <1>3 DEF Sleep, IInv, Ending, Ownership, QueueOwned, BatchOwned,
         CommandOwned, QueueOfTrack
  <2>4. ExactlyOneReply'
    BY <1>3, QuietStep DEF Sleep, InHand, IInv
  <2> QED
    BY <2>1, <2>2, <2>3, <2>4
<1>4. CASE WakeCanceled
  BY <1>4, LeaveKeeps DEF WakeCanceled
<1>5. CASE StreamLoop
  BY <1>5, StreamLoopKeeps
<1>6. CASE TrackLoop
  BY <1>6, TrackLoopKeeps
<1>7. CASE CommitTerminal
  <2>1. IdleIsReleased'
    BY <1>7 DEF CommitTerminal, IInv, IdleIsReleased
  <2>2. Places'
    BY <1>7 DEF CommitTerminal, IInv, Places, Ending, MutexFree
  <2>3. Ownership'
    BY <1>7 DEF CommitTerminal, IInv, Ending, Ownership, QueueOwned,
         BatchOwned, CommandOwned, QueueOfTrack
  <2>4. ExactlyOneReply'
    BY <1>7, QuietStep DEF CommitTerminal, InHand, IInv
  <2> QED
    BY <2>1, <2>2, <2>3, <2>4
<1>8. CASE RejectPending
  <2>1. IdleIsReleased'
    BY <1>8 DEF RejectPending, Retire, IInv, IdleIsReleased
  <2>2. Places'
    BY <1>8 DEF RejectPending, Retire, IInv, Places, Ending
  <2>3. Ownership'
    BY <1>8 DEF RejectPending, Retire, IInv, Ending, Ownership, QueueOwned,
         BatchOwned, CommandOwned, QueueOfTrack
  <2>4. ExactlyOneReply'
    BY <1>8, AnswerPending DEF RejectPending, IInv
  <2> QED
    BY <2>1, <2>2, <2>3, <2>4
<1>9. CASE EmitTerminal
  <2>1. IdleIsReleased'
    BY <1>9 DEF EmitTerminal, IInv, IdleIsReleased
  <2>2. Places'
    BY <1>9 DEF EmitTerminal, IInv, Places, Ending
  <2>3. Ownership'
    BY <1>9 DEF EmitTerminal, IInv, Ending, Ownership, QueueOwned,
         BatchOwned, CommandOwned, QueueOfTrack
  <2>4. ExactlyOneReply'
    BY <1>9, EventStep DEF EmitTerminal, IInv
  <2> QED
    BY <2>1, <2>2, <2>3, <2>4
<1>10. CASE FinishActive
  <2>1. IdleIsReleased'
    BY <1>10 DEF FinishActive, ResetOperation, IInv, IdleIsReleased, Places,
         Ending
  <2>2. Places'
    BY <1>10 DEF FinishActive, ResetOperation, IInv, Places, Ending,
         MutexFree
  <2>3. Ownership'
    BY <1>10 DEF FinishActive, ResetOperation, IInv, Ending, Ownership,
         QueueOwned, BatchOwned, CommandOwned, QueueOfTrack
  <2>4. ExactlyOneReply'
    BY <1>10, QuietStep DEF FinishActive, InHand, IInv
  <2> QED
    BY <2>1, <2>2, <2>3, <2>4
<1> QED
  BY <1>1, <1>2, <1>3, <1>4, <1>5, <1>6, <1>7, <1>8, <1>9, <1>10 DEF
       OperationThread

\* OtherStepsKeep: end of file, spurious wakeups and backend failures keep it.
LEMMA OtherStepsKeep ==
  ASSUME IInv, TypeOK', StdinEof \/ SpuriousWakeup \/ StreamFails \/ TrackFails
  PROVE  IdleIsReleased' /\ Places' /\ Ownership' /\ ExactlyOneReply'
<1> USE DEF mainVars, sharedVars, backendVars, localVars
<1>1. CASE StdinEof
  <2>1. IdleIsReleased'
    BY <1>1 DEF StdinEof, StopOperation, Notify, IInv, IdleIsReleased
  <2>2. Places'
    BY <1>1 DEF StdinEof, StopOperation, Notify, IInv, Places, Ending
  <2>3. Ownership'
    BY <1>1 DEF StdinEof, StopOperation, Notify, IInv, Ending, Ownership,
         QueueOwned, BatchOwned, CommandOwned, QueueOfTrack
  <2>4. ExactlyOneReply'
    BY <1>1, QuietStep DEF StdinEof, InHand, IInv
  <2> QED
    BY <2>1, <2>2, <2>3, <2>4
<1>2. CASE SpuriousWakeup
  <2>1. IdleIsReleased'
    BY <1>2 DEF SpuriousWakeup, IInv, IdleIsReleased
  <2>2. Places'
    BY <1>2 DEF SpuriousWakeup, IInv, Places, Ending
  <2>3. Ownership'
    BY <1>2 DEF SpuriousWakeup, IInv, Ending, Ownership, QueueOwned,
         BatchOwned, CommandOwned, QueueOfTrack
  <2>4. ExactlyOneReply'
    BY <1>2, QuietStep DEF SpuriousWakeup, InHand, IInv
  <2> QED
    BY <2>1, <2>2, <2>3, <2>4
<1>3. CASE StreamFails
  BY <1>3, LeaveKeeps DEF StreamFails
<1>4. CASE TrackFails
  BY <1>4, LeaveKeeps DEF TrackFails
<1> QED
  BY <1>1, <1>2, <1>3, <1>4
-----------------------------------------------------------------------------
\* InitKeeps: the invariant holds before the first line is read.
THEOREM InitKeeps == Init => IInv
<1> SUFFICES ASSUME Init PROVE IInv
  OBVIOUS
<1>1. IdleIsReleased
  BY DEF Init, IdleIsReleased
<1>2. Places
  BY DEF Init, Places, Ending
<1>3. Ownership
  BY DEF Init, Ownership, QueueOwned, BatchOwned, CommandOwned, QueueOfTrack
<1>4. ExactlyOneReply
  <2>1. Replies = {} /\ InHand = {} /\ Len(received) = 0
    BY DEF Init, Replies, Written, InHand
  <2> QED
    BY <2>1 DEF Init, ExactlyOneReply, Replied
<1> QED
  BY <1>1, <1>2, <1>3, <1>4, InitTyped DEF IInv

\* NextKeeps: no step of either thread leaves the invariant.
LEMMA NextKeeps == IInv /\ [Next]_vars => IInv'
<1> SUFFICES ASSUME IInv, [Next]_vars PROVE IInv'
  OBVIOUS
<1>1. TypeOK'
  BY NextTyped DEF IInv
<1>2. CASE MainRequest
  <2>1. PICK r \in RequestLines :
          /\ Reads(r)
          /\ \/ RefuseUnnegotiated(r)
             \/ LoadModel(r)
             \/ RefuseStart(r)
             \/ RefuseStreamRequest(r)
             \/ RefuseTrackRequest(r)
             \/ Cancel(r)
             \/ Hello(r)
             \/ StartOperation(r)
             \/ StreamChunk(r)
             \/ StreamSettings(r)
             \/ StreamEnd(r)
             \/ TrackChunk(r)
             \/ TrackPrepare(r)
             \/ TrackRenderStale(r)
             \/ TrackRenderNewer(r)
             \/ Shutdown(r)
    BY <1>2
       DEF MainRequest, Hello, RefuseUnnegotiated, LoadModel, RefuseStart,
           StartOperation, StreamRequest, RefuseStreamRequest, StreamChunk,
           StreamSettings, StreamEnd, TrackRequest, RefuseTrackRequest,
           TrackChunk, TrackPrepare, TrackRenderStale, TrackRenderNewer,
           Cancel, Shutdown
  <2> QED
    BY <1>1, <2>1, RequestsKeep
<1>3. CASE MainContinues
  BY <1>1, <1>3, MainContinuesKeeps DEF IInv
<1>4. CASE OperationThread
  BY <1>1, <1>4, OperationThreadKeeps DEF IInv
<1>5. CASE StdinEof \/ SpuriousWakeup \/ StreamFails \/ TrackFails
  BY <1>1, <1>5, OtherStepsKeep DEF IInv
<1>6. CASE UNCHANGED vars
  <2> USE DEF vars, mainVars, sharedVars, backendVars, localVars
  <2>1. IdleIsReleased'
    BY <1>6 DEF IInv, IdleIsReleased
  <2>2. Places'
    BY <1>6 DEF IInv, Places, Ending
  <2>3. Ownership'
    BY <1>6 DEF IInv, Ownership, QueueOwned, BatchOwned, CommandOwned,
                QueueOfTrack, Ending
  <2>4. ExactlyOneReply'
    BY <1>6, QuietStep DEF IInv, InHand
  <2> QED
    BY <1>1, <2>1, <2>2, <2>3, <2>4 DEF IInv
<1> QED
  BY <1>2, <1>3, <1>4, <1>5, <1>6 DEF Next

\* Invariance: the inductive invariant, for every value of the constants.
THEOREM Invariance == Spec => []IInv
  BY InitKeeps, NextKeeps, PTL DEF Spec

\* OneReplyEach: whatever the number of requests, the capacities and the mix
\* of methods, a request read is at any moment answered by exactly one reply,
\* or pending, or in the main thread's hands.
THEOREM OneReplyEach == Spec => []ExactlyOneReply
<1>1. IInv => ExactlyOneReply
  BY DEF IInv
<1> QED
  BY <1>1, Invariance, PTL

\* NothingSurvives: a start never finds anything of the operation before it.
THEOREM NothingSurvives == Spec => []IdleIsReleased
<1>1. IInv => IdleIsReleased
  BY DEF IInv
<1> QED
  BY <1>1, Invariance, PTL
-----------------------------------------------------------------------------
(***************************************************************************)
(* What the worker says of an operation, and in which order: nothing after *)
(* its terminal event (TerminalIsLast), and nothing but that event once a  *)
(* cancel was accepted (CancelWins).                                       *)
(*                                                                         *)
(* Every action of the two threads is shown to be one kind of step         *)
(* (Orderly, which writes at most one line that Tells or Announces); that  *)
(* such a step keeps the order of the lines is shown once.                 *)
(***************************************************************************)

\* Operations are numbered as they start; other requests, and events, name old
\* ones.
Numbered ==
  /\ operation \in {0, operations}
  /\ \A id \in 1..Len(received) :
       /\ received[id].method \notin StartMethods =>
            received[id].operation <= operations
       /\ received[id].method = "cancel" => received[id].operation # 0
  /\ \A i \in Written : stdout[i].type = "event" => stdout[i].id <= operations

\* What waits for the operation thread was asked of the current operation, and
\* what waits for its answer is of a kind that it answers.
Current ==
  /\ \A id \in queue \cup pending : received[id].operation = operation
  /\ \A id \in pending : received[id].method \in Deferred
  /\ thread = "finish" => pending = {}

\* What the main thread holds.  A cancel in its hands keeps the terminal event
\* from being written.
InTheHands ==
  LET last == received[Len(received)] IN
  /\ pc = "respond" => last.method \notin Deferred
  /\ pc = "join" => last.method = "shutdown"
  /\ pc = "displace" => last.operation = operation
  /\ pc = "respond" /\ last.method = "cancel" =>
       /\ cancelSignal = Len(received) /\ operation = last.operation
       /\ thread # "finish"

\* An accepted cancel is seen before the terminal event is committed, and it
\* does not fall into the answers to a batch of settings.
Signaled ==
  cancelSignal # 0 =>
    /\ canceled /\ thread # "acknowledge"
    /\ Ending => outcome # "failed"

\* An operation whose terminal event is written is about to be reset.
SaidLast ==
  \A o \in 1..operations :
    TerminalsOf(o) # {} => operation # o \/ thread = "finish"

\* The signal of an accepted cancel stays until its operation is reset.
Acknowledged ==
  \A c \in 1..Len(received) :
    received[c].method = "cancel" /\ Accepted(c)
      => operation # received[c].operation \/ cancelSignal # 0

\* What a step of a thread depends on ...
Standing == IInv /\ Numbered /\ Current /\ InTheHands /\ Signaled

\* ... and the inductive invariant.
OrderInv ==
  Standing /\ SaidLast /\ Acknowledged /\ TerminalIsLast /\ CancelWins
-----------------------------------------------------------------------------
(* What a step of either thread does, whichever it is. *)

\* A reply that a step may write: a success is of a request of the current
\* operation, which no cancel was accepted for and whose end was not said.
Tells(line) ==
  /\ line.id \in 1..Len(received')
  /\ received'[line.id].method \in Deferred /\ line.name \in {"ok", "superseded"} =>
       /\ received'[line.id].operation = operation
       /\ operation # 0 /\ thread # "finish"
       /\ line.name = "ok" => cancelSignal = 0
  /\ received'[line.id].method = "cancel" /\ line.name = "ok" =>
       pc = "respond" /\ line.id = Len(received) /\ UNCHANGED received

\* An event that a step may write: of the current operation, before its end is
\* said, and after a cancel nothing but that end.
Announces(line) ==
  /\ line.id = operation /\ operation # 0 /\ thread # "finish"
  /\ UNCHANGED operation
  /\ cancelSignal # 0 => line.name \in {"stream_ended", "track_ended"}
  /\ line.name \in TerminalEvents => thread' = "finish"

Writes(line) ==
  /\ Emit(line)
  /\ \/ line.type = "reply" /\ Tells(line)
     \/ line.type = "event" /\ Announces(line)

\* An operation keeps its signal, and its end once said, until it is reset; the
\* next one has the next number.
Lasts ==
  \/ /\ UNCHANGED <<operation, operations>>
     /\ thread = "finish" => thread' = "finish"
     /\ cancelSignal # 0 => cancelSignal' # 0
  \/ operation' = 0 /\ UNCHANGED operations
  \/ /\ operation = 0
     /\ operation' = operations + 1 /\ operations' = operations + 1

Hears ==
  \/ UNCHANGED received
  \/ \E r \in RequestLines : Reads(r)

\* What waits afterwards waited before, or was accepted for the operation.
Waits ==
  /\ \A id \in queue' \cup pending' :
       \/ id \in queue \cup pending /\ UNCHANGED operation
       \/ received'[id].operation = operation'
  /\ \A id \in pending' : id \in pending \/ received'[id].method \in Deferred
  /\ thread' = "finish" => pending' = {}

Stands == Hears /\ Lasts /\ Waits /\ InTheHands' /\ Signaled'

Orderly == Stands /\ (UNCHANGED stdout \/ \E line \in Line : Writes(line))
-----------------------------------------------------------------------------
\* A request that was heard keeps its number.
LEMMA StillHeard ==
  ASSUME TypeOK, Hears
  PROVE  /\ Len(received) \in Nat /\ Len(received') \in Nat
         /\ \A id \in 1..Len(received) :
              id \in 1..Len(received') /\ received'[id] = received[id]
         /\ \A id \in 1..Len(received') : id \in 1..Len(received) \/
              \E r \in RequestLines :
                Reads(r) /\ id = Len(received) + 1 /\ received'[id] = r
<1>1. Len(received) \in Nat
  BY DEF TypeOK, HistoryOK
<1>2. CASE UNCHANGED received
  BY <1>1, <1>2
<1>3. CASE \E r \in RequestLines : Reads(r)
  BY <1>1, <1>3, ReadTyped, ReadIds DEF NewId
<1> QED
  BY <1>2, <1>3 DEF Hears

\* A line that was written stays, and a new one is the last.
LEMMA StillWritten ==
  ASSUME TypeOK, UNCHANGED stdout \/ \E line \in Line : Writes(line)
  PROVE  /\ \A i \in Written : i \in Written' /\ stdout'[i] = stdout[i]
         /\ \A i \in Written' : i \in Written \/
              /\ \A j \in Written' : j <= i
              /\ \/ stdout'[i].type = "reply" /\ Tells(stdout'[i])
                 \/ stdout'[i].type = "event" /\ Announces(stdout'[i])
<1>1. stdout \in Seq(Line)
  BY DEF TypeOK, HistoryOK
<1>2. CASE UNCHANGED stdout
  BY <1>2 DEF Written
<1>3. ASSUME NEW line \in Line, Writes(line)
      PROVE  /\ \A i \in Written : i \in Written' /\ stdout'[i] = stdout[i]
             /\ \A i \in Written' : i \in Written \/
                  /\ \A j \in Written' : j <= i
                  /\ \/ stdout'[i].type = "reply" /\ Tells(stdout'[i])
                     \/ stdout'[i].type = "event" /\ Announces(stdout'[i])
  <2> DEFINE next == Len(stdout) + 1
  <2>1. /\ DOMAIN stdout = 1..Len(stdout) /\ Len(stdout) \in Nat
        /\ DOMAIN stdout' = 1..next
        /\ \A i \in 1..Len(stdout) : stdout'[i] = stdout[i]
        /\ stdout'[next] = line
    BY <1>1, <1>3 DEF Writes, Emit
  <2>2. \/ stdout'[next].type = "reply" /\ Tells(stdout'[next])
        \/ stdout'[next].type = "event" /\ Announces(stdout'[next])
    BY <1>3, <2>1 DEF Writes
  <2>3. \A i \in 1..next : i \in 1..Len(stdout) \/ i = next
    BY <2>1
  <2>4. \A i \in 1..Len(stdout) : i \in 1..next
    BY <2>1
  <2>5. \A j \in 1..next : j <= next
    BY <2>1
  <2> HIDE DEF next
  <2> QED
    BY <2>1, <2>2, <2>3, <2>4, <2>5 DEF Written
<1> QED
  BY <1>2, <1>3

\* OrderlyKeeps: an orderly step keeps the order of what is said.
LEMMA OrderlyKeeps ==
  ASSUME OrderInv, IInv', Orderly
  PROVE  OrderInv'
<1>1. /\ TypeOK /\ TypeOK' /\ ExactlyOneReply /\ ExactlyOneReply'
      /\ Standing /\ Numbered /\ Current /\ InTheHands
  BY DEF OrderInv, Standing, IInv
<1>2. /\ Len(received) \in Nat /\ Len(received') \in Nat
      /\ \A id \in 1..Len(received) :
           id \in 1..Len(received') /\ received'[id] = received[id]
      /\ \A id \in 1..Len(received') : id \in 1..Len(received) \/
           \E r \in RequestLines :
             Reads(r) /\ id = Len(received) + 1 /\ received'[id] = r
  BY <1>1, StillHeard DEF Orderly, Stands
<1>3. /\ \A i \in Written : i \in Written' /\ stdout'[i] = stdout[i]
      /\ \A i \in Written' : i \in Written \/
           /\ \A j \in Written' : j <= i
           /\ \/ stdout'[i].type = "reply" /\ Tells(stdout'[i])
              \/ stdout'[i].type = "event" /\ Announces(stdout'[i])
  BY <1>1, StillWritten DEF Orderly
<1>4. /\ operations \in Nat /\ operation \in Nat
      /\ operations' \in Nat /\ operation' \in Nat
  BY <1>1 DEF TypeOK, CountersOK
<1>5. /\ queue \cup pending \subseteq 1..Len(received)
      /\ queue' \cup pending' \subseteq 1..Len(received')
  BY <1>1 DEF TypeOK, IdsOK
<1>6. Written \subseteq Nat /\ Written' \subseteq Nat
  <2>1. stdout \in Seq(Line) /\ stdout' \in Seq(Line)
    BY <1>1 DEF TypeOK, HistoryOK
  <2> QED
    BY <2>1 DEF Written
<1>7. \A i \in Written : stdout[i].type = "reply" =>
        stdout[i].id \in 1..Len(received)
  BY <1>1 DEF ExactlyOneReply, Replied, Replies
<1>8. operations <= operations' /\ operation <= operations
  BY <1>1, <1>4 DEF Numbered, Orderly, Stands, Lasts
\* Numbered: the lines, and what was read.
<1>10. Numbered'
  <2>1. operation' \in {0, operations'}
    BY <1>1, <1>4 DEF Numbered, Orderly, Stands, Lasts
  <2>2. ASSUME NEW id \in 1..Len(received')
        PROVE  /\ received'[id].method \notin StartMethods =>
                    received'[id].operation <= operations'
               /\ received'[id].method = "cancel" => received'[id].operation # 0
    <3>1. CASE id \in 1..Len(received)
      <4>1. received'[id] = received[id] /\ received[id].operation \in Nat
        BY <1>1, <1>2, <3>1, CommandTyped
      <4> QED
        BY <1>1, <1>4, <1>8, <3>1, <4>1 DEF Numbered
    <3>2. ASSUME NEW r \in RequestLines, Reads(r), received'[id] = r
          PROVE  /\ received'[id].method \notin StartMethods =>
                      received'[id].operation <= operations'
                 /\ received'[id].method = "cancel" =>
                      received'[id].operation # 0
      <4>1. r.operation \in Nat
        BY RequestLinesTyped DEF Request
      <4>2. r.method \notin StartMethods => r.operation <= operations
        BY <3>2 DEF Reads
      <4> QED
        BY <1>4, <1>8, <3>2, <4>1, <4>2, OperationNamed
    <3> QED
      BY <1>2, <3>1, <3>2
  <2>3. ASSUME NEW i \in Written', stdout'[i].type = "event"
        PROVE  stdout'[i].id <= operations'
    <3>1. CASE i \in Written
      <4>1. stdout'[i] = stdout[i] /\ stdout[i].id <= operations
        BY <1>1, <1>3, <2>3, <3>1 DEF Numbered
      <4>2. stdout[i].id \in Nat
        <5>1. stdout \in Seq(Line)
          BY <1>1 DEF TypeOK, HistoryOK
        <5>2. stdout[i] \in Line
          BY <3>1, <5>1 DEF Written
        <5> QED
          BY <5>2 DEF Line
      <4> QED
        BY <1>4, <1>8, <4>1, <4>2
    <3>2. CASE i \notin Written
      <4>1. Announces(stdout'[i])
        BY <1>3, <2>3, <3>2
      <4> QED
        BY <1>4, <1>8, <4>1 DEF Announces
    <3> QED
      BY <3>1, <3>2
  <2> QED
    BY <2>1, <2>2, <2>3 DEF Numbered
<1>11. Current'
  <2>1. ASSUME NEW id \in queue' \cup pending'
        PROVE  received'[id].operation = operation'
    <3>1. CASE id \in queue \cup pending /\ UNCHANGED operation
      BY <1>1, <1>2, <1>5, <3>1 DEF Current
    <3> QED
      BY <3>1 DEF Orderly, Stands, Waits
  <2>2. ASSUME NEW id \in pending'
        PROVE  received'[id].method \in Deferred
    <3>1. CASE id \in pending
      BY <1>1, <1>2, <1>5, <3>1 DEF Current
    <3> QED
      BY <3>1 DEF Orderly, Stands, Waits
  <2> QED
    BY <2>1, <2>2 DEF Current, Orderly, Stands, Waits
<1>12. Standing'
  BY <1>10, <1>11 DEF Standing, Orderly, Stands
\* SaidLast: a terminal event is said as the operation begins to finish.
<1>13. SaidLast'
  <2> SUFFICES ASSUME NEW o \in 1..operations', NEW t \in TerminalsOf(o)'
               PROVE  operation' # o \/ thread' = "finish"
    BY DEF SaidLast
  <2>1. /\ t \in Written' /\ stdout'[t].type = "event" /\ stdout'[t].id = o
        /\ stdout'[t].name \in TerminalEvents
    BY DEF TerminalsOf, OperationEvents
  <2>2. CASE t \in Written
    <3>1. stdout'[t] = stdout[t]
      BY <1>3, <2>2
    <3>2. o \in 1..operations /\ t \in TerminalsOf(o)
      BY <1>1, <1>4, <2>1, <2>2, <3>1
         DEF Numbered, TerminalsOf, OperationEvents
    <3>3. operation # o \/ thread = "finish"
      BY <3>2 DEF OrderInv, SaidLast
    <3> QED
      BY <1>4, <3>2, <3>3 DEF Orderly, Stands, Lasts
  <2>3. CASE t \notin Written
    <3>1. Announces(stdout'[t])
      BY <1>3, <2>1, <2>3
    <3> QED
      BY <2>1, <3>1 DEF Announces
  <2> QED
    BY <2>2, <2>3
\* Acknowledged: a cancel is answered while its signal is set.
<1>14. \A c \in 1..Len(received') : \A i \in Written' :
         /\ received'[c].method = "cancel" /\ i \notin Written
         /\ stdout'[i].type = "reply" /\ stdout'[i].id = c
         /\ stdout'[i].name = "ok"
         => /\ c \in 1..Len(received) /\ received[c].method = "cancel"
            /\ pc = "respond" /\ c = Len(received)
            /\ operation = received[c].operation /\ cancelSignal # 0
  <2> SUFFICES ASSUME NEW c \in 1..Len(received'), NEW i \in Written',
                      received'[c].method = "cancel", i \notin Written,
                      stdout'[i].type = "reply", stdout'[i].id = c,
                      stdout'[i].name = "ok"
               PROVE  /\ c \in 1..Len(received)
                      /\ received[c].method = "cancel"
                      /\ pc = "respond" /\ c = Len(received)
                      /\ operation = received[c].operation
                      /\ cancelSignal # 0
    OBVIOUS
  <2>1. Tells(stdout'[i])
    BY <1>3
  <2>2. pc = "respond" /\ c = Len(received) /\ received' = received
    BY <2>1 DEF Tells
  <2>3. cancelSignal = Len(received) /\ operation = received[c].operation
    BY <1>1, <2>2 DEF InTheHands
  <2> QED
    BY <1>2, <2>2, <2>3
<1>15. \A c \in 1..Len(received') :
         received'[c].method = "cancel" /\ Accepted(c)' =>
           /\ c \in 1..Len(received) /\ received[c] = received'[c]
           /\ operation # received[c].operation \/ cancelSignal # 0
  <2> SUFFICES ASSUME NEW c \in 1..Len(received'), NEW i \in Written',
                      received'[c].method = "cancel",
                      stdout'[i].type = "reply", stdout'[i].id = c,
                      stdout'[i].name = "ok"
               PROVE  /\ c \in 1..Len(received) /\ received[c] = received'[c]
                      /\ operation # received[c].operation \/ cancelSignal # 0
    BY DEF Accepted, RepliesTo, Replies
  <2>1. CASE i \in Written
    <3>1. stdout[i] = stdout'[i]
      BY <1>3, <2>1
    <3>2. c \in 1..Len(received) /\ received[c] = received'[c]
      BY <1>2, <1>7, <2>1, <3>1
    <3>3. Accepted(c)
      BY <2>1, <3>1 DEF Accepted, RepliesTo, Replies
    <3> QED
      BY <3>2, <3>3 DEF OrderInv, Acknowledged
  <2>2. CASE i \notin Written
    BY <1>2, <1>14, <2>2
  <2> QED
    BY <2>1, <2>2
<1>16. Acknowledged'
  <2> SUFFICES ASSUME NEW c \in 1..Len(received'),
                      received'[c].method = "cancel", Accepted(c)'
               PROVE  operation' # received'[c].operation \/ cancelSignal' # 0
    BY DEF Acknowledged
  <2>1. /\ c \in 1..Len(received) /\ received[c] = received'[c]
        /\ operation # received[c].operation \/ cancelSignal # 0
    BY <1>15
  <2>2. /\ received[c].operation \in Nat /\ received[c].operation # 0
        /\ received[c].operation <= operations
    BY <1>1, <2>1, CommandTyped DEF Numbered, StartMethods
  <2> QED
    BY <1>4, <2>1, <2>2 DEF Orderly, Stands, Lasts
\* TerminalIsLast: what comes after a terminal event is not of its operation.
<1>17. TerminalIsLast'
  <2> SUFFICES ASSUME NEW o \in 1..operations', NEW t \in TerminalsOf(o)'
               PROVE  /\ operation' = o => pending' = {}
                      /\ \A i \in Written' : i > t =>
                           /\ i \notin OperationEvents(o)'
                           /\ (i \in Replies' /\ stdout'[i].name \in
                                 {"ok", "superseded"}) =>
                                ~(/\ received'[stdout'[i].id].method \in Deferred
                                  /\ received'[stdout'[i].id].operation = o)
    BY DEF TerminalIsLast
  <2>1. operation' = o => pending' = {}
    BY <1>11, <1>13 DEF SaidLast, Current
  <2>2. /\ t \in Written' /\ stdout'[t].type = "event" /\ stdout'[t].id = o
        /\ stdout'[t].name \in TerminalEvents
    BY DEF TerminalsOf, OperationEvents
  <2>3. ASSUME NEW i \in Written', i > t
        PROVE  /\ i \notin OperationEvents(o)'
               /\ (i \in Replies' /\ stdout'[i].name \in {"ok", "superseded"})
                    => ~(/\ received'[stdout'[i].id].method \in Deferred
                         /\ received'[stdout'[i].id].operation = o)
    <3>1. t \in Written
      <4>1. t \in Nat /\ i \in Nat
        BY <1>6, <2>2
      <4>2. ~(i <= t)
        BY <2>3, <4>1
      <4> QED
        BY <1>3, <2>2, <4>2
    <3>2. stdout'[t] = stdout[t]
      BY <1>3, <3>1
    <3>3. o \in 1..operations /\ t \in TerminalsOf(o)
      BY <1>1, <1>4, <2>2, <3>1, <3>2
         DEF Numbered, TerminalsOf, OperationEvents
    <3>4. operation # o \/ thread = "finish"
      BY <3>3 DEF OrderInv, SaidLast
    <3>5. CASE i \in Written
      <4>1. /\ i \notin OperationEvents(o)
            /\ (i \in Replies /\ stdout[i].name \in {"ok", "superseded"}) =>
                 ~(/\ received[stdout[i].id].method \in Deferred
                   /\ received[stdout[i].id].operation = o)
        BY <2>3, <3>3, <3>5 DEF OrderInv, TerminalIsLast
      <4>2. stdout'[i] = stdout[i]
        BY <1>3, <3>5
      <4>3. i \in Replies' => i \in Replies /\
              received'[stdout[i].id] = received[stdout[i].id]
        BY <1>2, <1>7, <3>5, <4>2 DEF Replies
      <4> QED
        BY <3>5, <4>1, <4>2, <4>3 DEF OperationEvents
    <3>6. CASE i \notin Written
      <4>1. \/ stdout'[i].type = "reply" /\ Tells(stdout'[i])
            \/ stdout'[i].type = "event" /\ Announces(stdout'[i])
        BY <1>3, <3>6
      <4> QED
        BY <3>4, <4>1 DEF Tells, Announces, OperationEvents, Replies
    <3> QED
      BY <3>5, <3>6
  <2> QED
    BY <2>1, <2>3
\* CancelWins: what comes after an accepted cancel is the end.
<1>18. \A c \in InHand' : received'[c].method = "cancel" =>
         (TerminalsOf(received[c].operation))' = {}
  <2> SUFFICES ASSUME NEW c \in InHand', received'[c].method = "cancel"
               PROVE  (TerminalsOf(received[c].operation))' = {}
    OBVIOUS
  <2>1. c = Len(received') /\ pc' \in {"respond", "displace", "join"}
    BY DEF InHand
  <2>2. pc' = "respond"
    BY <2>1, <1>12 DEF Standing, InTheHands, IInv, Places
  <2>3. operation' = received'[c].operation /\ thread' # "finish"
    BY <1>12, <2>1, <2>2 DEF Standing, InTheHands
  <2>4. c \in 1..Len(received')
    BY <1>1, <2>1, <2>2 DEF TypeOK, HistoryOK, DomainsOK
  <2>5. operation' \in 1..operations'
    BY <1>4, <1>10, <2>3, <2>4 DEF Numbered, StartMethods
  <2>6. TerminalsOf(operation)' = {}
    BY <1>13, <2>3, <2>5 DEF SaidLast, TerminalsOf, OperationEvents
  <2> QED
    BY <2>3, <2>6 DEF TerminalsOf, OperationEvents
<1>19. ASSUME NEW c \in 1..Len(received'), received'[c].method = "cancel",
              Accepted(c)', NEW answer \in RepliesTo(c)',
              NEW i \in Written', i > answer
       PROVE  /\ i \in (OperationEvents(received[c].operation))' =>
                   stdout'[i].name \in {"stream_ended", "track_ended"}
              /\ (i \in Replies' /\ stdout'[i].name = "ok") =>
                   ~(/\ received'[stdout'[i].id].method \in Deferred
                     /\ received'[stdout'[i].id].operation
                          = received'[c].operation)
  <2>1. /\ c \in 1..Len(received) /\ received[c] = received'[c]
        /\ operation # received[c].operation \/ cancelSignal # 0
    BY <1>15, <1>19
  <2>2. answer \in Written'
    BY DEF RepliesTo, Replies
  <2>3. answer \in Written
    <3>1. ~(i <= answer)
      BY <1>6, <1>19, <2>2
    <3> QED
      BY <1>3, <2>2, <3>1
  <2>4. answer \in RepliesTo(c)
    BY <1>3, <2>3 DEF RepliesTo, Replies
  <2>5. Accepted(c)
    <3>1. PICK j \in RepliesTo(c)' : stdout'[j].name = "ok"
      BY <1>19 DEF Accepted
    <3>2. j = answer
      BY <1>1, <3>1 DEF RepliesTo, ExactlyOneReply
    <3> QED
      BY <1>3, <2>3, <2>4, <3>1, <3>2 DEF Accepted
  <2>6. CASE i \in Written
    <3>1. /\ i \in OperationEvents(received[c].operation) =>
               stdout[i].name \in {"stream_ended", "track_ended"}
          /\ (i \in Replies /\ stdout[i].name = "ok") =>
               ~(/\ received[stdout[i].id].method \in Deferred
                 /\ received[stdout[i].id].operation = received[c].operation)
      BY <1>19, <2>1, <2>4, <2>5, <2>6 DEF OrderInv, CancelWins
    <3>2. stdout'[i] = stdout[i]
      BY <1>3, <2>6
    <3>3. i \in Replies' => i \in Replies /\
            received'[stdout[i].id] = received[stdout[i].id]
      BY <1>2, <1>7, <2>6, <3>2 DEF Replies
    <3> QED
      BY <2>1, <2>6, <3>1, <3>2, <3>3 DEF OperationEvents
  <2>7. CASE i \notin Written
    <3>1. \/ stdout'[i].type = "reply" /\ Tells(stdout'[i])
          \/ stdout'[i].type = "event" /\ Announces(stdout'[i])
      BY <1>3, <2>7
    <3> QED
      BY <2>1, <3>1 DEF Tells, Announces, OperationEvents, Replies
  <2> QED
    BY <2>6, <2>7
<1>20. CancelWins'
  BY <1>18, <1>19 DEF CancelWins
<1> QED
  BY <1>12, <1>13, <1>16, <1>17, <1>20 DEF OrderInv
-----------------------------------------------------------------------------
\* What a line says decides whether it may be written: a refusal, or the answer
\* of a request the main thread answers itself, ...
LEMMA PlainReply ==
  ASSUME NEW id \in 1..Len(received'), Len(received') \in Nat,
         NEW code \in Codes, NEW n \in Nat, Emit(ReplyLine(id, code, n)),
         \/ code \notin {"ok", "superseded"}
         \/ received'[id].method \notin Deferred \cup {"cancel"}
  PROVE  \E line \in Line : Writes(line)
<1>1. ReplyLine(id, code, n) \in Line
  BY DEF ReplyLine, Line
<1>2. Writes(ReplyLine(id, code, n))
  BY DEF ReplyLine, Writes, Tells
<1> QED
  BY <1>1, <1>2

\* ... the answer of a request of the current operation, ...
LEMMA DeferredReply ==
  ASSUME NEW id \in 1..Len(received'), Len(received') \in Nat,
         NEW code \in {"ok", "superseded"}, NEW n \in Nat,
         Emit(ReplyLine(id, code, n)), received'[id].method # "cancel",
         received'[id].operation = operation, operation # 0,
         thread # "finish", code = "ok" => cancelSignal = 0
  PROVE  \E line \in Line : Writes(line)
<1>1. ReplyLine(id, code, n) \in Line
  BY DEF ReplyLine, Line, Codes
<1>2. Writes(ReplyLine(id, code, n))
  BY DEF ReplyLine, Writes, Tells
<1> QED
  BY <1>1, <1>2

\* ... and an event of it.
LEMMA EventTold ==
  ASSUME Standing, NEW name \in Events, NEW n \in Nat, NEW k \in Nat,
         Emit(EventLine(name, n, k)), UNCHANGED operation,
         thread \notin {"none", "exited", "finish"},
         cancelSignal = 0 \/ name \in {"stream_ended", "track_ended"},
         name \in TerminalEvents => thread' = "finish"
  PROVE  \E line \in Line : Writes(line)
<1>1. operation # 0 /\ operation \in Nat
  BY DEF Standing, IInv, IdleIsReleased, TypeOK, CountersOK
<1>2. EventLine(name, n, k) \in Line
  BY <1>1 DEF EventLine, Line
<1>3. Writes(EventLine(name, n, k))
  BY <1>1 DEF EventLine, Writes, Announces
<1> QED
  BY <1>2, <1>3

\* Who is not canceled was sent no cancel that was accepted.
LEMMA NotSignaled ==
  ASSUME Standing, ~canceled
  PROVE  cancelSignal = 0
  BY DEF Standing, Signaled

\* The operation thread works: it takes what waits, and never the terminal
\* event past a cancel.
LEMMA ThreadWorks ==
  ASSUME Standing,
         UNCHANGED <<received, pc, operation, operations, cancelSignal,
                     canceled>>,
         thread # "finish", thread' # "finish",
         queue' \subseteq queue, pending' \subseteq pending,
         thread' = "acknowledge" => cancelSignal = 0,
         thread' = "reject" /\ cancelSignal # 0 => outcome' # "failed"
  PROVE  Stands
<1>1. Hears /\ Lasts
  BY DEF Hears, Lasts
<1>2. Waits
  BY DEF Waits
<1>3. InTheHands'
  BY DEF Standing, InTheHands
<1>4. Signaled'
  BY DEF Standing, Signaled, Ending
<1> QED
  BY <1>1, <1>2, <1>3, <1>4 DEF Stands

\* The main thread reads a request that changes nothing of the operation.
LEMMA ReadAndAnswered ==
  ASSUME Standing, NEW r \in RequestLines, Reads(r),
         UNCHANGED <<pc, operation, operations, cancelSignal, canceled, queue,
                     pending, outcome>>,
         thread' = thread \/ (thread = "exited" /\ thread' = "none")
  PROVE  Stands
<1>1. Hears /\ Lasts
  BY DEF Hears, Lasts
<1>2. Waits
  BY DEF Waits, Standing, Current
<1>3. InTheHands'
  BY DEF InTheHands, Reads
<1>4. Signaled'
  BY DEF Standing, Signaled, Ending
<1> QED
  BY <1>1, <1>2, <1>3, <1>4 DEF Stands

\* It reads one that its operation accepts.
LEMMA ReadAndAccepted ==
  ASSUME Standing, NEW r \in RequestLines, Reads(r),
         r.operation = operation, ~committed,
         UNCHANGED <<operation, operations, cancelSignal, canceled, outcome>>,
         thread' = thread \/ Notify,
         queue' \subseteq queue \cup {NewId},
         pending' \subseteq pending \cup {NewId},
         pending' = pending \/ r.method \in Deferred,
         pc' \in {"ready", "respond", "displace"},
         pc' = "respond" => r.method \notin Deferred \cup {"cancel"}
  PROVE  Stands
<1>1. ~Ending /\ (thread' = thread \/ (thread = "asleep" /\ thread' = "check"))
  BY DEF Standing, IInv, Places, Notify
<1>2. received'[NewId] = r /\ Len(received') = NewId
  BY ReadTyped DEF Standing, IInv, NewId
<1>3. Hears /\ Lasts
  BY <1>1 DEF Hears, Lasts, Ending
<1>4. Waits
  BY <1>1, <1>2 DEF Waits, Ending
<1>5. InTheHands'
  BY <1>2 DEF InTheHands
<1>6. Signaled'
  BY <1>1 DEF Standing, Signaled, Ending
<1> QED
  BY <1>3, <1>4, <1>5, <1>6 DEF Stands
-----------------------------------------------------------------------------
\* What the next lemmas need to know of a request being read.
LEMMA JustRead ==
  ASSUME Standing, NEW r \in RequestLines, Reads(r)
  PROVE  /\ NewId \in 1..Len(received') /\ Len(received') \in Nat
         /\ received'[NewId] = r /\ Len(received') = NewId
         /\ r.revision \in Nat /\ pc = "ready"
<1>1. /\ NewId \in 1..Len(received') /\ Len(received') \in Nat
      /\ received'[NewId] = r /\ Len(received') = NewId
  BY ReadTyped, ReadIds DEF Standing, IInv, NewId
<1>2. r.revision \in Nat
  BY RequestLinesTyped DEF Request
<1> QED
  BY <1>1, <1>2 DEF Reads

\* A refusal.
LEMMA RefusalOrderly ==
  ASSUME Standing, NEW r \in RequestLines, Reads(r),
         NEW code \in Codes \ {"ok", "superseded"}, Refuse(code)
  PROVE  Orderly
<1>1. \E line \in Line : Writes(line)
  BY JustRead, PlainReply DEF Refuse
<1>2. Stands
  BY ReadAndAnswered DEF Refuse, sharedVars, localVars
<1> QED
  BY <1>1, <1>2 DEF Orderly

\* RequestsOrderly: requests that are answered at once or left to the operation
\* thread.
LEMMA RequestsOrderly ==
  ASSUME Standing, NEW r \in RequestLines, Reads(r),
         \/ RefuseUnnegotiated(r)
         \/ LoadModel(r)
         \/ RefuseStart(r)
         \/ RefuseStreamRequest(r)
         \/ RefuseTrackRequest(r)
         \/ Hello(r)
         \/ StreamChunk(r)
         \/ StreamSettings(r)
         \/ StreamEnd(r)
         \/ TrackChunk(r)
         \/ TrackPrepare(r)
         \/ TrackRenderStale(r)
         \/ TrackRenderNewer(r)
  PROVE  Orderly
<1>1. CASE RefuseUnnegotiated(r)
  BY <1>1, RefusalOrderly DEF RefuseUnnegotiated, Codes
<1>2. CASE LoadModel(r)
  <2>1. CASE Refuse("busy")
    BY <2>1, RefusalOrderly DEF Codes
  <2>2. ASSUME ~Refuse("busy")
        PROVE  Orderly
    <3>1. PICK success \in BOOLEAN :
            Emit(ReplyLine(NewId, IF success THEN "ok" ELSE "model_invalid", 0))
      BY <1>2, <2>2 DEF LoadModel
    <3>2. (IF success THEN "ok" ELSE "model_invalid") \in Codes
      BY DEF Codes
    <3>3. r.method \notin Deferred \cup {"cancel"}
      BY <1>2 DEF LoadModel, Deferred
    <3>4. \E line \in Line : Writes(line)
      BY <3>1, <3>2, <3>3, JustRead, PlainReply
    <3>5. Stands
      BY <1>2, <2>2, ReadAndAnswered
         DEF LoadModel, Joined, sharedVars, localVars
    <3> QED
      BY <3>4, <3>5 DEF Orderly
  <2> QED
    BY <2>1, <2>2
<1>3. CASE RefuseStart(r)
  <2>1. CASE Refuse("busy")
    BY <2>1, RefusalOrderly DEF Codes
  <2>2. ASSUME ~Refuse("busy")
        PROVE  Orderly
    <3>1. PICK code \in {"invalid_params", "model_not_loaded"} :
            Emit(ReplyLine(NewId, code, 0))
      BY <1>3, <2>2 DEF RefuseStart
    <3>2. \E line \in Line : Writes(line)
      BY <3>1, JustRead, PlainReply DEF Codes
    <3>3. Stands
      BY <1>3, <2>2, ReadAndAnswered
         DEF RefuseStart, Joined, sharedVars, localVars
    <3> QED
      BY <3>2, <3>3 DEF Orderly
  <2> QED
    BY <2>1, <2>2
<1>4. CASE RefuseStreamRequest(r)
  <2>1. StreamRefusal(r) \in Codes \ {"ok", "superseded"}
    BY <1>4 DEF RefuseStreamRequest, StreamRefusal, Codes
  <2> QED
    BY <1>4, <2>1, RefusalOrderly DEF RefuseStreamRequest
<1>5. CASE RefuseTrackRequest(r)
  <2>1. TrackRefusal(r) \in Codes \ {"ok", "superseded"}
    BY <1>5 DEF RefuseTrackRequest, TrackRefusal, Codes
  <2> QED
    BY <1>5, <2>1, RefusalOrderly DEF RefuseTrackRequest
<1>6. CASE Hello(r)
  <2>1. r.method \notin Deferred \cup {"cancel"}
    BY <1>6 DEF Hello, Deferred
  <2>2. \E line \in Line : Writes(line)
    BY <1>6, <2>1, JustRead, PlainReply DEF Hello, Codes
  <2>3. Stands
    BY <1>6, ReadAndAnswered DEF Hello, sharedVars, localVars
  <2> QED
    BY <2>2, <2>3 DEF Orderly
<1>7. CASE StreamChunk(r) \/ StreamSettings(r) \/ StreamEnd(r)
  <2>1. r.operation = operation /\ ~committed
    BY <1>7, StreamAccepted
       DEF StreamChunk, StreamSettings, StreamEnd, StreamMethods
  <2>2. pc' = "respond" => r.method \notin Deferred \cup {"cancel"}
    BY <1>7, JustRead
       DEF StreamChunk, StreamSettings, StreamEnd, Deferred
  <2>3. pending' = pending \/ r.method \in Deferred
    BY <1>7 DEF StreamChunk, StreamSettings, StreamEnd, Deferred
  <2>4. Stands
    BY <1>7, <2>1, <2>2, <2>3, JustRead, ReadAndAccepted
       DEF StreamChunk, StreamSettings, StreamEnd, Push, localVars
  <2> QED
    BY <1>7, <2>4 DEF Orderly, StreamChunk, StreamSettings, StreamEnd
<1>8. CASE TrackChunk(r) \/ TrackPrepare(r)
  <2>1. r.operation = operation /\ ~committed
    BY <1>8, TrackAccepted DEF TrackChunk, TrackPrepare, TrackMethods
  <2>2. Stands
    BY <1>8, <2>1, JustRead, ReadAndAccepted
       DEF TrackChunk, TrackPrepare, Push, Deferred, localVars
  <2> QED
    BY <1>8, <2>2 DEF Orderly, TrackChunk, TrackPrepare
<1>9. CASE TrackRenderStale(r)
  <2>1. r.operation = operation /\ operation # 0 /\ ~committed
    BY <1>9, TrackAccepted DEF TrackRenderStale, TrackMethods
  <2>2. thread # "finish"
    BY <2>1 DEF Standing, IInv, Places, Ending
  <2>3. \E line \in Line : Writes(line)
    BY <1>9, <2>1, <2>2, JustRead, DeferredReply DEF TrackRenderStale
  <2>4. Stands
    BY <1>9, ReadAndAnswered DEF TrackRenderStale, sharedVars, localVars
  <2> QED
    BY <2>3, <2>4 DEF Orderly
<1>10. CASE TrackRenderNewer(r)
  <2>1. r.operation = operation /\ ~committed
    BY <1>10, TrackAccepted DEF TrackRenderNewer, TrackMethods
  <2>2. Stands
    BY <1>10, <2>1, ReadAndAccepted DEF TrackRenderNewer, localVars
  <2> QED
    BY <1>10, <2>2 DEF Orderly, TrackRenderNewer
<1> QED
  BY <1>1, <1>2, <1>3, <1>4, <1>5, <1>6, <1>7, <1>8, <1>9, <1>10

\* StartOrderly: an operation starts with nothing waiting for it.
LEMMA StartOrderly ==
  ASSUME Standing, NEW r \in RequestLines, Reads(r), StartOperation(r)
  PROVE  Orderly
<1>1. operation = 0 /\ cancelSignal = 0 /\ queue = {} /\ pending = {}
  BY DEF StartOperation, Busy, Standing, IInv, IdleIsReleased
<1>2. /\ operations' = operations + 1 /\ operation' = r.operation
      /\ r.method \in StartMethods /\ pc' = "respond" /\ thread' = "gate"
      /\ UNCHANGED <<stdout, cancelSignal, queue, pending>>
  BY DEF StartOperation
<1>3. operation' = operations + 1
  BY <1>2 DEF Reads
<1>4. Hears /\ Lasts /\ Waits
  BY <1>1, <1>2, <1>3 DEF Hears, Lasts, Waits
<1>5. InTheHands'
  BY <1>2, JustRead DEF InTheHands, StartMethods, Deferred
<1>6. Signaled'
  BY <1>1, <1>2 DEF Signaled
<1> QED
  BY <1>2, <1>4, <1>5, <1>6 DEF Orderly, Stands

\* CancelOrderly: a cancel that is accepted is in time for the terminal event.
LEMMA CancelOrderly ==
  ASSUME Standing, NEW r \in RequestLines, Reads(r), Cancel(r)
  PROVE  Orderly
<1>1. CASE Refuse("operation_not_found")
  BY <1>1, RefusalOrderly DEF Codes
<1>2. CASE ~Refuse("operation_not_found")
  <2>1. /\ Cancelable(r.operation) /\ MutexFree /\ Notify
        /\ cancelSignal' = NewId /\ canceled' /\ pc' = "respond"
        /\ UNCHANGED <<stdout, operation, operations, queue, pending>>
    BY <1>2 DEF Cancel
  <2>2. /\ operation = r.operation /\ ~Ending /\ thread # "acknowledge"
        /\ thread' \in {thread, "check"}
    BY <2>1 DEF Cancelable, MutexFree, Notify, Standing, IInv, Places
  <2>3. NewId # 0
    BY JustRead
  <2>4. Hears /\ Lasts
    BY <2>1, <2>2, <2>3 DEF Hears, Lasts, Ending
  <2>5. Waits
    BY <2>1, <2>2 DEF Waits, Ending
  <2>6. InTheHands'
    BY <2>1, <2>2, JustRead DEF InTheHands, Cancel, Deferred, Ending
  <2>7. Signaled'
    BY <2>1, <2>2 DEF Signaled, Ending
  <2> QED
    BY <2>1, <2>4, <2>5, <2>6, <2>7 DEF Orderly, Stands
<1> QED
  BY <1>1, <1>2

\* The main thread stops an operation without a word to its client.
LEMMA StopOrderly ==
  ASSUME Standing, StopOperation,
         UNCHANGED <<operation, operations, cancelSignal, queue, pending,
                     outcome>>
  PROVE  Lasts /\ Waits /\ Signaled'
<1>1. /\ thread' = thread \/ (thread = "asleep" /\ thread' = "check")
      /\ canceled => canceled'
  BY DEF StopOperation, Notify
<1>2. Lasts
  BY <1>1 DEF Lasts
<1>3. Waits
  BY <1>1 DEF Waits, Standing, Current
<1>4. Signaled'
  BY <1>1 DEF Standing, Signaled, Ending
<1> QED
  BY <1>2, <1>3, <1>4

\* ShutdownOrderly: a shutdown, or the end of the input, writes its answer last.
LEMMA ShutdownOrderly ==
  ASSUME Standing,
         StdinEof \/ \E r \in RequestLines : Reads(r) /\ Shutdown(r)
  PROVE  Orderly
<1>1. CASE StdinEof
  <2>1. Lasts /\ Waits /\ Signaled'
    BY <1>1, StopOrderly DEF StdinEof, localVars
  <2>2. Hears /\ InTheHands'
    BY <1>1 DEF StdinEof, Hears, InTheHands
  <2> QED
    BY <1>1, <2>1, <2>2 DEF StdinEof, Orderly, Stands
<1>2. ASSUME NEW r \in RequestLines, Reads(r), Shutdown(r)
      PROVE  Orderly
  <2>1. Lasts /\ Waits /\ Signaled'
    BY <1>2, StopOrderly DEF Shutdown, localVars
  <2>2. Hears /\ InTheHands'
    BY <1>2, JustRead DEF Shutdown, Hears, InTheHands
  <2> QED
    BY <1>2, <2>1, <2>2 DEF Shutdown, Orderly, Stands
<1> QED
  BY <1>1, <1>2
-----------------------------------------------------------------------------
\* MainOrderly: what the main thread is bound to do once it read a request.
LEMMA MainOrderly ==
  ASSUME Standing, MainContinues
  PROVE  Orderly
<1>0. /\ received \in Seq(Request) /\ Len(received) \in Nat
      /\ pc \in {"respond", "displace", "join"} =>
           Len(received) \in 1..Len(received)
  BY DEF Standing, IInv, TypeOK, HistoryOK, DomainsOK
<1>1. CASE Respond
  <2>1. /\ pc = "respond" /\ pc' = "ready"
        /\ Emit(ReplyLine(Len(received), "ok", 0))
        /\ UNCHANGED <<received, operation, operations, cancelSignal, canceled,
                       queue, pending, thread, outcome>>
    BY <1>1 DEF Respond, sharedVars, localVars
  <2>2. received[Len(received)].method \notin Deferred
    BY <2>1 DEF Standing, InTheHands
  <2>3. ReplyLine(Len(received), "ok", 0) \in Line
    BY <1>0 DEF ReplyLine, Line, Codes
  <2>4. Writes(ReplyLine(Len(received), "ok", 0))
    BY <1>0, <2>1, <2>2 DEF ReplyLine, Writes, Tells
  <2>5. Hears /\ Lasts /\ Waits
    BY <2>1 DEF Hears, Lasts, Waits, Standing, Current
  <2>6. InTheHands'
    BY <2>1 DEF InTheHands
  <2>7. Signaled'
    BY <2>1 DEF Standing, Signaled, Ending
  <2> QED
    BY <2>3, <2>4, <2>5, <2>6, <2>7 DEF Orderly, Stands
<1>2. CASE TrackRenderDisplace
  <2>1. PICK id \in QueuedRenders :
          /\ Emit(ReplyLine(id, "superseded", received[id].revision))
          /\ Retire(id) /\ queue' = queue \ {id}
    BY <1>2 DEF TrackRenderDisplace
  <2>2. /\ pc = "displace"
        /\ UNCHANGED <<received, pc, operation, operations, cancelSignal,
                       canceled, thread, outcome>>
    BY <1>2 DEF TrackRenderDisplace, mainVars, localVars
  <2>3. operation # 0 /\ ~Ending
    BY <2>2 DEF Standing, IInv, Places
  <2>4. /\ id \in queue /\ received[id].method = "track_render"
        /\ received[id].operation = operation
    BY DEF QueuedRenders, Standing, Current
  <2>5. id \in 1..Len(received) /\ received[id].revision \in Nat
    BY <2>4, CommandTyped DEF Standing, IInv, TypeOK, IdsOK
  <2>6. \E line \in Line : Writes(line)
    BY <1>0, <2>1, <2>2, <2>3, <2>4, <2>5, DeferredReply DEF Ending
  <2>7. Hears /\ Lasts
    BY <2>2 DEF Hears, Lasts
  <2>8. Waits
    BY <2>1, <2>2, <2>3 DEF Waits, Retire, Ending
  <2>9. InTheHands'
    BY <2>2 DEF Standing, InTheHands
  <2>10. Signaled'
    BY <2>2 DEF Standing, Signaled, Ending
  <2> QED
    BY <2>6, <2>7, <2>8, <2>9, <2>10 DEF Orderly, Stands
<1>3. CASE TrackRenderQueue
  <2>1. /\ pc = "displace" /\ pc' = "ready" /\ Notify
        /\ queue' = queue \cup {Len(received)}
        /\ pending' = pending \cup {Len(received)}
        /\ UNCHANGED <<received, stdout, operation, operations, cancelSignal,
                       canceled, outcome>>
    BY <1>3 DEF TrackRenderQueue, localVars
  <2>2. /\ ~Ending /\ received[Len(received)].operation = operation
        /\ received[Len(received)].method \in Deferred
    BY <2>1 DEF Standing, IInv, Places, InTheHands, Deferred
  <2>3. thread' = thread \/ (thread = "asleep" /\ thread' = "check")
    BY <2>1 DEF Notify
  <2>4. Hears /\ Lasts
    BY <2>1, <2>2, <2>3 DEF Hears, Lasts, Ending
  <2>5. Waits
    BY <2>1, <2>2, <2>3 DEF Waits, Ending
  <2>6. InTheHands'
    BY <2>1 DEF InTheHands
  <2>7. Signaled'
    BY <2>1, <2>2, <2>3 DEF Standing, Signaled, Ending
  <2> QED
    BY <2>1, <2>4, <2>5, <2>6, <2>7 DEF Orderly, Stands
<1>4. CASE JoinOperation
  <2>1. /\ pc \in {"join", "closing"} /\ pc' = "exited"
        /\ thread # "finish" /\ thread' = "none"
        /\ UNCHANGED <<received, operation, operations, cancelSignal, canceled,
                       queue, pending, outcome>>
    BY <1>4 DEF JoinOperation, sharedVars, localVars
  <2>2. UNCHANGED stdout \/ \E line \in Line : Writes(line)
    <3>1. CASE pc = "join"
      <4>1. received'[Len(received)].method \notin Deferred \cup {"cancel"}
        BY <2>1, <3>1 DEF Standing, InTheHands, Deferred
      <4>2. Emit(ReplyLine(Len(received), "ok", 0))
        BY <1>4, <3>1 DEF JoinOperation
      <4> QED
        BY <1>0, <2>1, <3>1, <4>1, <4>2, PlainReply DEF Codes
    <3>2. CASE pc # "join"
      BY <1>4, <3>2 DEF JoinOperation
    <3> QED
      BY <3>1, <3>2
  <2>3. Hears /\ Lasts /\ Waits
    BY <2>1 DEF Hears, Lasts, Waits
  <2>4. InTheHands'
    BY <2>1 DEF InTheHands
  <2>5. Signaled'
    BY <2>1 DEF Standing, Signaled, Ending
  <2> QED
    BY <2>2, <2>3, <2>4, <2>5 DEF Orderly, Stands
<1> QED
  BY <1>1, <1>2, <1>3, <1>4 DEF MainContinues

\* An exception leaves the loop, or the loop breaks.
LEMMA LeaveOrderly ==
  ASSUME Standing, NEW how, Leave(how), thread # "finish"
  PROVE  Orderly
<1>1. Stands
  BY ThreadWorks DEF Leave, mainVars, sharedVars
<1> QED
  BY <1>1 DEF Leave, Orderly

\* StreamOrderly: the loop of a Stream.
LEMMA StreamOrderly ==
  ASSUME Standing, StreamLoop \/ StreamFails
  PROVE  Orderly
<1> USE DEF mainVars, sharedVars, localVars
<1>1. CASE StreamTake
  <2>1. queue' \subseteq queue
    BY <1>1 DEF StreamTake, Pop
  <2>2. /\ thread = "check" /\ thread' \in {"settings", "command"}
        /\ UNCHANGED <<received, stdout, pc, operation, operations,
                       cancelSignal, canceled, pending>>
    BY <1>1 DEF StreamTake
  <2>3. Stands
    BY <2>1, <2>2, ThreadWorks
  <2> QED
    BY <2>2, <2>3 DEF Orderly
<1>2. CASE StreamConfigure
  <2>1. Stands
    BY <1>2, NotSignaled, ThreadWorks DEF StreamConfigure
  <2> QED
    BY <1>2, <2>1 DEF StreamConfigure, Orderly
<1>3. CASE StreamAcknowledge
  <2>1. PICK id \in batch : Emit(ReplyLine(id, "ok", 0)) /\ Retire(id)
    BY <1>3 DEF StreamAcknowledge
  <2>2. /\ thread = "acknowledge"
        /\ thread' \in {"acknowledge", "check", "command"}
        /\ UNCHANGED <<received, pc, operation, operations, cancelSignal,
                       canceled, queue>>
    BY <1>3 DEF StreamAcknowledge
  <2>3. cancelSignal = 0
    BY <2>2 DEF Standing, Signaled
  <2>4. id \in pending /\ received[id].method = "stream_settings"
    BY <2>2 DEF Standing, IInv, Ownership, BatchOwned
  <2>5. operation # 0 /\ received[id].operation = operation
    BY <2>2, <2>4 DEF Standing, IInv, IdleIsReleased, Current
  <2>6. id \in 1..Len(received') /\ Len(received') \in Nat
    BY <2>2, <2>4 DEF Standing, IInv, TypeOK, IdsOK, HistoryOK
  <2>7. \E line \in Line : Writes(line)
    BY <2>1, <2>2, <2>3, <2>4, <2>5, <2>6, DeferredReply
  <2>8. Stands
    BY <2>1, <2>2, <2>3, ThreadWorks DEF Retire
  <2> QED
    BY <2>7, <2>8 DEF Orderly
<1>4. CASE StreamServe
  <2>1. /\ thread = "command" /\ thread' = "drain" /\ ~canceled
        /\ UNCHANGED <<received, pc, operation, operations, cancelSignal,
                       canceled, queue, pending>>
    BY <1>4 DEF StreamServe
  <2>2. UNCHANGED stdout \/ Emit(EventLine("stream_credit", 0, 0))
    BY <1>4 DEF StreamServe
  <2>3. UNCHANGED stdout \/ \E line \in Line : Writes(line)
    BY <2>1, <2>2, NotSignaled, EventTold DEF Events, TerminalEvents
  <2>4. Stands
    BY <2>1, ThreadWorks
  <2> QED
    BY <2>3, <2>4 DEF Orderly
<1>5. CASE StreamFrame
  <2>1. /\ thread = "drain" /\ thread' = "drain" /\ ~canceled
        /\ Emit(EventLine("stream_frame", 0, 0))
        /\ UNCHANGED <<received, pc, operation, operations, cancelSignal,
                       canceled, queue, pending>>
    BY <1>5 DEF StreamFrame
  <2>2. \E line \in Line : Writes(line)
    BY <2>1, NotSignaled, EventTold DEF Events, TerminalEvents
  <2>3. Stands
    BY <2>1, ThreadWorks
  <2> QED
    BY <2>2, <2>3 DEF Orderly
<1>6. CASE StreamDrained
  <2>1. /\ thread = "drain" /\ thread' \in {"check", "commit"}
        /\ UNCHANGED <<received, stdout, pc, operation, operations,
                       cancelSignal, canceled, queue, pending>>
    BY <1>6 DEF StreamDrained
  <2>2. Stands
    BY <2>1, ThreadWorks
  <2> QED
    BY <2>1, <2>2 DEF Orderly
<1>7. CASE StreamCanceled \/ StreamFails
  BY <1>7, LeaveOrderly DEF StreamCanceled, StreamFails
<1> QED
  BY <1>1, <1>2, <1>3, <1>4, <1>5, <1>6, <1>7 DEF StreamLoop
-----------------------------------------------------------------------------
\* AnswerOrderly: the operation thread answers the command of a track.
LEMMA AnswerOrderly ==
  ASSUME Standing, NEW code \in {"ok", "superseded"}, Answer(code),
         kind = "track", thread \in {"command", "render"}
  PROVE  Orderly
<1>1. /\ ~canceled /\ Emit(ReplyLine(command, code, Revision))
      /\ Retire(command) /\ thread' = "check"
      /\ UNCHANGED <<received, pc, operation, operations, cancelSignal,
                     canceled, queue, outcome>>
  BY DEF Answer, MayAnswer, mainVars, localVars
<1>2. command \in pending
  BY DEF Standing, IInv, Ownership, CommandOwned
<1>3. /\ operation # 0 /\ received[command].operation = operation
      /\ received[command].method # "cancel"
  BY <1>2 DEF Standing, IInv, IdleIsReleased, Current, Deferred
<1>4. /\ command \in 1..Len(received') /\ Len(received') \in Nat
      /\ Revision \in Nat
  BY <1>1, <1>2, CommandTyped
     DEF Standing, IInv, TypeOK, IdsOK, HistoryOK, Revision
<1>5. cancelSignal = 0
  BY <1>1, NotSignaled
<1>6. Stands
  BY <1>1, ThreadWorks DEF Retire
<1>7. \E line \in Line : Writes(line)
  BY <1>1, <1>3, <1>4, <1>5, DeferredReply
<1> QED
  BY <1>6, <1>7 DEF Orderly

\* What a render says of its progress.
LEMMA ProgressOrderly ==
  ASSUME Standing, thread = "render", UNCHANGED thread, ~canceled,
         UNCHANGED <<received, pc, operation, operations, cancelSignal,
                     canceled, queue, pending>>,
         NEW name \in {"track_preview", "track_frame_batch"}, NEW k \in Nat,
         UNCHANGED stdout \/ Emit(EventLine(name, Revision, k))
  PROVE  Orderly
<1>1. Revision \in Nat
  BY CommandInDomain DEF Standing, IInv, Revision
<1>2. UNCHANGED stdout \/ \E line \in Line : Writes(line)
  BY <1>1, NotSignaled, EventTold DEF Events, TerminalEvents
<1>3. Stands
  BY ThreadWorks
<1> QED
  BY <1>2, <1>3 DEF Orderly

\* TrackOrderly: the loop of a track.
LEMMA TrackOrderly ==
  ASSUME Standing, TrackLoop \/ TrackFails
  PROVE  Orderly
<1> USE DEF mainVars, sharedVars, localVars
<1>1. CASE TrackTake
  <2>1. queue' \subseteq queue
    BY <1>1 DEF TrackTake, Pop
  <2>2. /\ thread = "check" /\ thread' = "command"
        /\ UNCHANGED <<received, stdout, pc, operation, operations,
                       cancelSignal, canceled, pending>>
    BY <1>1 DEF TrackTake
  <2>3. Stands
    BY <2>1, <2>2, ThreadWorks
  <2> QED
    BY <2>2, <2>3 DEF Orderly
<1>2. CASE TrackAppend
  BY <1>2, AnswerOrderly DEF TrackAppend
<1>3. CASE TrackPrepared
  BY <1>3, AnswerOrderly DEF TrackPrepared
<1>4. CASE TrackSkip
  BY <1>4, AnswerOrderly DEF TrackSkip
<1>5. CASE TrackComplete
  <2>1. PICK code \in {"ok", "superseded"} : Answer(code)
    BY <1>5 DEF TrackComplete
  <2>2. thread = "render" /\ kind = "track"
    BY <1>5 DEF TrackComplete, Standing, IInv, Places
  <2> QED
    BY <2>1, <2>2, AnswerOrderly
<1>6. CASE TrackBegin
  <2>1. /\ thread = "command" /\ thread' = "render"
        /\ UNCHANGED <<received, stdout, pc, operation, operations,
                       cancelSignal, canceled, queue, pending>>
    BY <1>6 DEF TrackBegin
  <2>2. Stands
    BY <2>1, ThreadWorks
  <2> QED
    BY <2>1, <2>2 DEF Orderly
<1>7. CASE TrackExecute
  BY <1>7, ProgressOrderly DEF TrackExecute
<1>8. CASE TrackLatePreview
  BY <1>8, ProgressOrderly DEF TrackLatePreview
<1>9. CASE TrackBatch
  <2>1. sent \in Nat
    BY DEF Standing, IInv, TypeOK, CountersOK
  <2> QED
    BY <1>9, <2>1, ProgressOrderly DEF TrackBatch
<1>10. CASE TrackEmpty \/ TrackCanceled \/ TrackFails
  BY <1>10, LeaveOrderly DEF TrackEmpty, TrackCanceled, TrackFails
<1> QED
  BY <1>1, <1>2, <1>3, <1>4, <1>5, <1>6, <1>7, <1>8, <1>9, <1>10 DEF TrackLoop

\* EndOrderly: an operation ends.
LEMMA EndOrderly ==
  ASSUME Standing,
         CommitTerminal \/ RejectPending \/ EmitTerminal \/ FinishActive
  PROVE  Orderly
<1> USE DEF mainVars, sharedVars, localVars
<1>1. CASE CommitTerminal
  <2>1. cancelSignal # 0 => outcome' # "failed"
    BY <1>1 DEF CommitTerminal, Standing, Signaled
  <2>2. Stands
    BY <1>1, <2>1, ThreadWorks DEF CommitTerminal
  <2> QED
    BY <1>1, <2>2 DEF CommitTerminal, Orderly
<1>2. CASE RejectPending
  <2>1. PICK id \in pending : Emit(ReplyLine(id, RejectionCode, 0)) /\ Retire(id)
    BY <1>2 DEF RejectPending
  <2>2. /\ thread \in {"reject", "finish"}
        /\ UNCHANGED <<received, pc, operation, operations, cancelSignal,
                       canceled, queue, thread, outcome>>
    BY <1>2 DEF RejectPending
  <2>3. thread = "reject"
    BY <2>2 DEF Standing, Current
  <2>4. id \in 1..Len(received') /\ Len(received') \in Nat
    BY <2>2 DEF Standing, IInv, TypeOK, IdsOK, HistoryOK
  <2>5. RejectionCode \in Codes \ {"ok", "superseded"}
    BY DEF RejectionCode, Codes
  <2>6. \E line \in Line : Writes(line)
    BY <2>1, <2>4, <2>5, PlainReply
  <2>7. cancelSignal # 0 => outcome # "failed"
    BY <2>3 DEF Standing, Signaled, Ending
  <2>8. Stands
    BY <2>1, <2>2, <2>3, <2>7, ThreadWorks DEF Retire
  <2> QED
    BY <2>6, <2>8 DEF Orderly
<1>3. CASE EmitTerminal
  <2>1. /\ thread = "reject" /\ thread' = "finish" /\ pending = {}
        /\ CancelAnswered
        /\ UNCHANGED <<received, pc, operation, operations, cancelSignal,
                       canceled, queue, pending, outcome>>
    BY <1>3 DEF EmitTerminal
  <2>2. PICK name \in TerminalEvents :
          /\ Emit(EventLine(name, 0, 0))
          /\ outcome # "failed" => name \in {"stream_ended", "track_ended"}
    BY <1>3 DEF EmitTerminal, TerminalEvents
  <2>3. cancelSignal # 0 => outcome # "failed"
    BY <2>1 DEF Standing, Signaled, Ending
  <2>4. name \in Events
    BY DEF TerminalEvents, Events
  <2>5. \E line \in Line : Writes(line)
    BY <2>1, <2>2, <2>3, <2>4, EventTold
  <2>6. Hears /\ Lasts /\ Waits
    BY <2>1 DEF Hears, Lasts, Waits
  <2>7. InTheHands'
    <3>1. ~(pc = "respond" /\ received[Len(received)].method = "cancel")
      <4>1. Len(received) \in Nat /\ (pc = "respond" => Len(received) # 0)
        BY DEF Standing, IInv, TypeOK, HistoryOK, DomainsOK
      <4> QED
        BY <2>1, <4>1
           DEF CancelAnswered, Responding, Standing, InTheHands
    <3> QED
      BY <2>1, <3>1 DEF Standing, InTheHands
  <2>8. Signaled'
    BY <2>1 DEF Standing, Signaled, Ending
  <2> QED
    BY <2>5, <2>6, <2>7, <2>8 DEF Orderly, Stands
<1>4. CASE FinishActive
  <2>1. /\ thread = "finish" /\ thread' = "exited" /\ MutexFree
        /\ operation' = 0 /\ cancelSignal' = 0 /\ queue' = {} /\ pending = {}
        /\ UNCHANGED <<received, stdout, pc, operations, canceled, pending>>
    BY <1>4 DEF FinishActive, ResetOperation
  <2>2. Hears /\ Lasts /\ Waits
    BY <2>1 DEF Hears, Lasts, Waits
  <2>3. InTheHands'
    BY <2>1 DEF Standing, InTheHands, MutexFree
  <2>4. Signaled'
    BY <2>1 DEF Signaled
  <2> QED
    BY <2>1, <2>2, <2>3, <2>4 DEF Orderly, Stands
<1> QED
  BY <1>1, <1>2, <1>3, <1>4

\* ThreadOrderly: the operation thread, whatever it runs.
LEMMA ThreadOrderly ==
  ASSUME Standing, OperationThread \/ SpuriousWakeup
  PROVE  Orderly
<1> USE DEF mainVars, sharedVars, localVars
<1>1. CASE ThreadStart \/ FallAsleep \/ Sleep \/ SpuriousWakeup
  <2>1. Stands
    BY <1>1, ThreadWorks DEF ThreadStart, FallAsleep, Sleep, SpuriousWakeup
  <2> QED
    BY <1>1, <2>1
       DEF ThreadStart, FallAsleep, Sleep, SpuriousWakeup, Orderly
<1>2. CASE WakeCanceled
  BY <1>2, LeaveOrderly DEF WakeCanceled
<1>3. CASE StreamLoop \/ TrackLoop
  BY <1>3, StreamOrderly, TrackOrderly
<1>4. CASE CommitTerminal \/ RejectPending \/ EmitTerminal \/ FinishActive
  BY <1>4, EndOrderly
<1> QED
  BY <1>1, <1>2, <1>3, <1>4 DEF OperationThread
-----------------------------------------------------------------------------
\* NextOrderly: whatever a thread does is orderly, or nothing.
LEMMA NextOrderly ==
  ASSUME Standing, [Next]_vars
  PROVE  Orderly
<1>1. CASE MainRequest
  <2>1. PICK r \in RequestLines :
          /\ Reads(r)
          /\ \/ RefuseUnnegotiated(r)
             \/ LoadModel(r)
             \/ RefuseStart(r)
             \/ RefuseStreamRequest(r)
             \/ RefuseTrackRequest(r)
             \/ Cancel(r)
             \/ Hello(r)
             \/ StartOperation(r)
             \/ StreamChunk(r)
             \/ StreamSettings(r)
             \/ StreamEnd(r)
             \/ TrackChunk(r)
             \/ TrackPrepare(r)
             \/ TrackRenderStale(r)
             \/ TrackRenderNewer(r)
             \/ Shutdown(r)
    BY <1>1
       DEF MainRequest, Hello, RefuseUnnegotiated, LoadModel, RefuseStart,
           StartOperation, StreamRequest, RefuseStreamRequest, StreamChunk,
           StreamSettings, StreamEnd, TrackRequest, RefuseTrackRequest,
           TrackChunk, TrackPrepare, TrackRenderStale, TrackRenderNewer,
           Cancel, Shutdown
  <2> QED
    BY <2>1, RequestsOrderly, StartOrderly, CancelOrderly, ShutdownOrderly
<1>2. CASE StdinEof
  BY <1>2, ShutdownOrderly
<1>3. CASE MainContinues
  BY <1>3, MainOrderly
<1>4. CASE OperationThread \/ SpuriousWakeup
  BY <1>4, ThreadOrderly
<1>5. CASE StreamFails \/ TrackFails
  BY <1>5, StreamOrderly, TrackOrderly
<1>6. CASE UNCHANGED vars
  <2>1. UNCHANGED <<received, stdout, pc, operation, operations, cancelSignal,
                    canceled, queue, pending, thread, outcome>>
    BY <1>6 DEF vars, mainVars, sharedVars, localVars
  <2>2. Hears /\ Lasts
    BY <2>1 DEF Hears, Lasts
  <2>3. Waits
    BY <2>1 DEF Waits, Standing, Current
  <2>4. InTheHands'
    BY <2>1 DEF Standing, InTheHands
  <2>5. Signaled'
    BY <2>1 DEF Standing, Signaled, Ending
  <2> QED
    BY <2>1, <2>2, <2>3, <2>4, <2>5 DEF Orderly, Stands
<1> QED
  BY <1>1, <1>2, <1>3, <1>4, <1>5, <1>6 DEF Next

\* Before the first line nothing was said.
LEMMA InitOrder == Init => OrderInv
<1> SUFFICES ASSUME Init PROVE OrderInv
  OBVIOUS
<1>1. /\ Len(received) = 0 /\ Written = {} /\ operations = 0 /\ operation = 0
      /\ pc = "ready" /\ thread = "none" /\ cancelSignal = 0
      /\ queue = {} /\ pending = {}
  BY DEF Init, Written
<1>2. Numbered /\ Current /\ InTheHands /\ Signaled
  BY <1>1 DEF Numbered, Current, InTheHands, Signaled
<1>3. SaidLast /\ Acknowledged /\ TerminalIsLast
  BY <1>1 DEF SaidLast, Acknowledged, TerminalIsLast
<1>4. CancelWins
  BY <1>1 DEF CancelWins, InHand
<1> QED
  BY <1>2, <1>3, <1>4, InitKeeps DEF OrderInv, Standing

\* OrderInvariance: the inductive invariant, for every value of the constants.
THEOREM OrderInvariance == Spec => []OrderInv
<1>1. OrderInv /\ [Next]_vars => OrderInv'
  <2> SUFFICES ASSUME OrderInv, [Next]_vars PROVE OrderInv'
    OBVIOUS
  <2>1. IInv'
    BY NextKeeps DEF OrderInv, Standing
  <2> QED
    BY <2>1, NextOrderly, OrderlyKeeps DEF OrderInv
<1> QED
  BY <1>1, InitOrder, PTL DEF Spec

\* NothingAfterTheEnd: the terminal event of an operation is written once and
\* nothing is said of the operation after it, whatever ended it.
THEOREM NothingAfterTheEnd == Spec => []TerminalIsLast
<1>1. OrderInv => TerminalIsLast
  BY DEF OrderInv
<1> QED
  BY <1>1, OrderInvariance, PTL

\* AcceptedCancelWins: after an accepted cancel nothing is said of its
\* operation but that it ended.
THEOREM AcceptedCancelWins == Spec => []CancelWins
<1>1. OrderInv => CancelWins
  BY DEF OrderInv
<1> QED
  BY <1>1, OrderInvariance, PTL
=============================================================================
