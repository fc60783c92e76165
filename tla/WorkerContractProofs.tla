------------------------ MODULE WorkerContractProofs ------------------------
(***************************************************************************)
(* What the worker owes the client of a Stream (StreamContract) and of a   *)
(* Selected track (TrackContract), for every value of the constants: the   *)
(* samples in the queue are counted right, a credit follows each chunk,    *)
(* settings and renders are applied, published and superseded in the order *)
(* in which they came.                                                     *)
(*                                                                         *)
(* Each contract has an invariant of its own (StreamInv; RendersOwed and   *)
(* Reasons), on top of OrderInv and of Serving, which says what the        *)
(* operation thread has taken off the queue.                               *)
(***************************************************************************)
EXTENDS WorkerProofs, FiniteSetTheorems

\* What the operation thread has taken off the queue: its command, ...
Taken ==
  IF thread \in {"settings", "acknowledge", "command", "drain", "render"}
  THEN {command} \ {0} ELSE {}

\* ... and the settings it has not answered yet.
Coalesced == IF thread \in {"settings", "acknowledge"} THEN batch ELSE {}

\* Every request is a line a client may send.
Sent == \A id \in 1..Len(received) : received[id] \in RequestLines

\* The methods whose requests the operation thread executes.
Commands == IF kind = "stream" THEN {"stream_chunk", "stream_end"} ELSE TrackMethods

\* What was taken off the queue is not in it and of the operation; the loop is
\* left once.
TakenIsOwn ==
  /\ outcome # "none" => thread = "commit" \/ Ending
  /\ \A id \in Taken :
       /\ received[id].operation = operation /\ id \notin queue
       /\ received[id].method \in Commands
  /\ thread = "render" => received[command].method = "track_render"
  /\ kind = "stream" => \A id \in queue : received[id].method \in StreamMethods
  /\ pc = "displace" => kind = "track"

Serving == Sent /\ TakenIsOwn
-----------------------------------------------------------------------------
(* What is on stdout after one more line, or none. *)

\* ReplyAppended: a reply answers its request, and is no event.
LEMMA ReplyAppended ==
  ASSUME TypeOK, NEW id, NEW code, NEW n, Emit(ReplyLine(id, code, n))
  PROVE  /\ Len(stdout) + 1 \notin Written
         /\ Written' = Written \cup {Len(stdout) + 1}
         /\ \A i \in Written : i < Len(stdout) + 1 /\ stdout'[i] = stdout[i]
         /\ stdout'[Len(stdout) + 1] = ReplyLine(id, code, n)
         /\ Replies' = Replies \cup {Len(stdout) + 1}
         /\ \A x : RepliesTo(x)' = RepliesTo(x) \cup IF x = id THEN {Len(stdout) + 1} ELSE {}
         /\ \A x : Accepted(x)' <=> Accepted(x) \/ (x = id /\ code = "ok")
         /\ \A o, name : EventsNamed(o, name)' = EventsNamed(o, name)
<1> DEFINE next == Len(stdout) + 1
<1>1. stdout \in Seq(Line)
  BY DEF TypeOK, HistoryOK
<1>2. /\ next \notin Written /\ Written' = Written \cup {next}
      /\ \A i \in Written : i < next /\ stdout'[i] = stdout[i]
      /\ stdout'[next] = ReplyLine(id, code, n)
  BY <1>1 DEF Emit, Written
<1>3. /\ stdout'[next].type = "reply" /\ stdout'[next].id = id
      /\ stdout'[next].name = code
  BY <1>2 DEF ReplyLine
<1> HIDE DEF next
<1>4. Replies' = Replies \cup {next}
  BY <1>2, <1>3 DEF Replies
<1>5. \A x : RepliesTo(x)' = RepliesTo(x) \cup IF x = id THEN {next} ELSE {}
  BY <1>2, <1>3, <1>4 DEF RepliesTo, Replies
<1>6. \A x : \A i \in RepliesTo(x) : i \in Written
  BY DEF RepliesTo, Replies
<1>7. \A x : Accepted(x)' <=> Accepted(x) \/ (x = id /\ code = "ok")
  BY <1>2, <1>3, <1>5, <1>6 DEF Accepted
<1>8. \A o : OperationEvents(o)' = OperationEvents(o)
  BY <1>2, <1>3 DEF OperationEvents
<1>9. \A o : \A i \in OperationEvents(o) : i \in Written
  BY DEF OperationEvents
<1>10. \A o, name : EventsNamed(o, name)' = EventsNamed(o, name)
  BY <1>2, <1>8, <1>9 DEF EventsNamed
<1> QED
  BY <1>2, <1>4, <1>5, <1>7, <1>10 DEF next

\* EventAppended: an event is of the operation, and answers no request.
LEMMA EventAppended ==
  ASSUME TypeOK, NEW nm, NEW n, NEW k, Emit(EventLine(nm, n, k))
  PROVE  /\ Len(stdout) + 1 \notin Written
         /\ Written' = Written \cup {Len(stdout) + 1}
         /\ \A i \in Written : i < Len(stdout) + 1 /\ stdout'[i] = stdout[i]
         /\ stdout'[Len(stdout) + 1] = EventLine(nm, n, k)
         /\ Replies' = Replies
         /\ \A x : RepliesTo(x)' = RepliesTo(x)
         /\ \A x : Accepted(x)' <=> Accepted(x)
         /\ \A o, name : EventsNamed(o, name)' =
              EventsNamed(o, name) \cup
                IF o = operation /\ name = nm THEN {Len(stdout) + 1} ELSE {}
<1> DEFINE next == Len(stdout) + 1
<1>1. stdout \in Seq(Line)
  BY DEF TypeOK, HistoryOK
<1>2. /\ next \notin Written /\ Written' = Written \cup {next}
      /\ \A i \in Written : i < next /\ stdout'[i] = stdout[i]
      /\ stdout'[next] = EventLine(nm, n, k)
  BY <1>1 DEF Emit, Written
<1>3. /\ stdout'[next].type = "event" /\ stdout'[next].id = operation
      /\ stdout'[next].name = nm
  BY <1>2 DEF EventLine
<1> HIDE DEF next
<1>4. Replies' = Replies /\ \A i \in Replies : stdout'[i] = stdout[i]
  BY <1>2, <1>3 DEF Replies
<1>5. \A x : RepliesTo(x)' = RepliesTo(x) /\ RepliesTo(x) \subseteq Replies
  BY <1>4 DEF RepliesTo
<1>6. \A x : Accepted(x)' <=> Accepted(x)
  BY <1>4, <1>5 DEF Accepted
<1>7. \A o : OperationEvents(o)' =
        OperationEvents(o) \cup IF o = operation THEN {next} ELSE {}
  BY <1>2, <1>3 DEF OperationEvents
<1>8. \A o : OperationEvents(o) \subseteq Written
  BY DEF OperationEvents
<1>9. \A o, name : EventsNamed(o, name)' =
         EventsNamed(o, name) \cup IF o = operation /\ name = nm THEN {next} ELSE {}
  BY <1>2, <1>3, <1>7, <1>8 DEF EventsNamed
<1> QED
  BY <1>2, <1>4, <1>5, <1>6, <1>9 DEF next

\* NothingAppended: a step that writes nothing answers and says nothing.
LEMMA NothingAppended ==
  ASSUME UNCHANGED stdout
  PROVE  /\ Written' = Written /\ Replies' = Replies
         /\ \A x : RepliesTo(x)' = RepliesTo(x)
         /\ \A x : Accepted(x)' <=> Accepted(x)
         /\ \A o, name : EventsNamed(o, name)' = EventsNamed(o, name)
  BY DEF Written, Replies, RepliesTo, Accepted, EventsNamed, OperationEvents
-----------------------------------------------------------------------------
(* Serving: what the operation thread has taken. *)

\* What the invariants say of types.
LEMMA ServingTyped ==
  ASSUME OrderInv, Serving
  PROVE  /\ Len(received) \in Nat /\ Taken \subseteq 1..Len(received)
         /\ queue \subseteq 1..Len(received) /\ pending \subseteq 1..Len(received)
         /\ batch \subseteq 1..Len(received) /\ Coalesced \subseteq batch
         /\ TypeOK /\ IInv /\ Standing /\ ExactlyOneReply
         /\ \A id \in 1..Len(received) : received[id] \in RequestLines
<1>1. TypeOK /\ IInv /\ Standing /\ ExactlyOneReply
  BY DEF OrderInv, Standing, IInv
<1>2. Len(received) \in Nat /\ command \in 0..Len(received)
  BY <1>1 DEF TypeOK, HistoryOK, IdsOK
<1> QED
  BY <1>1, <1>2 DEF Serving, Sent, Taken, Coalesced, TypeOK, IdsOK

\* SentKept: the worker reads nothing but lines a client may send.
LEMMA SentKept ==
  ASSUME OrderInv, Serving, [Next]_vars
  PROVE  /\ Sent' /\ Hears
         /\ \A id \in 1..Len(received) :
              id \in 1..Len(received') /\ received'[id] = received[id]
<1>1. TypeOK /\ Hears
  BY ServingTyped, NextOrderly DEF Orderly, Stands
<1> QED
  BY <1>1, StillHeard DEF Serving, Sent

\* The main thread takes nothing off the queue that the other one holds.
LEMMA MainServes ==
  ASSUME OrderInv, Serving, Len(received') \in Nat,
         \A id \in 1..Len(received) : received'[id] = received[id],
         UNCHANGED <<operation, kind, command, outcome>>,
         \/ thread' = thread
         \/ thread = "asleep" /\ thread' = "check"
         \/ thread = "exited" /\ thread' = "none",
         NEW x, queue' \subseteq queue \cup {x},
         x \in queue' => /\ x \notin Taken
                         /\ kind = "stream" => received'[x].method \in StreamMethods,
         pc' = "displace" => kind = "track"
  PROVE  TakenIsOwn'
<1>1. Taken' = Taken /\ Commands' = Commands
  BY DEF Taken, Commands
<1>2. /\ thread' = "render" => thread = "render"
      /\ thread' = "render" => command \in 1..Len(received)
  BY ServingTyped, CommandInDomain
<1>3. \A id \in Taken : received'[id] = received[id] /\ id \notin queue'
  BY ServingTyped DEF Serving, TakenIsOwn
<1>4. outcome' # "none" => thread' = "commit" \/ Ending'
  BY DEF Serving, TakenIsOwn, Ending
<1>5. kind' = "stream" => \A id \in queue' : received'[id].method \in StreamMethods
  BY ServingTyped DEF Serving, TakenIsOwn
<1> QED
  BY <1>1, <1>2, <1>3, <1>4, <1>5 DEF Serving, TakenIsOwn

\* RequestServes: so does every request it reads.
LEMMA RequestServes ==
  ASSUME OrderInv, Serving, MainRequest, [Next]_vars
  PROVE  TakenIsOwn'
<1> USE DEF sharedVars, backendVars, localVars
<1>1. PICK r \in RequestLines :
        \/ Hello(r) \/ RefuseUnnegotiated(r) \/ LoadModel(r) \/ RefuseStart(r)
        \/ StartOperation(r) \/ StreamRequest(r) \/ TrackRequest(r)
        \/ Cancel(r) \/ Shutdown(r)
  BY DEF MainRequest
<1>2. Reads(r)
  BY <1>1 DEF Hello, RefuseUnnegotiated, LoadModel, RefuseStart,
       StartOperation, StreamRequest, RefuseStreamRequest, StreamChunk,
       StreamSettings, StreamEnd, TrackRequest, RefuseTrackRequest,
       TrackChunk, TrackPrepare, TrackRenderStale, TrackRenderNewer,
       Cancel, Shutdown
<1>3. /\ Len(received') \in Nat /\ received'[NewId] = r
      /\ \A id \in 1..Len(received) : received'[id] = received[id]
      /\ NewId \notin 1..Len(received) /\ NewId \notin Taken /\ pc = "ready"
  BY <1>2, ServingTyped, ReadTyped, ReadIds, JustRead
<1>4. CASE \/ Hello(r) \/ RefuseUnnegotiated(r) \/ LoadModel(r) \/ RefuseStart(r)
           \/ Cancel(r) \/ Shutdown(r)
  <2>1. /\ UNCHANGED <<operation, kind, command, outcome, queue>>
        /\ \/ thread' = thread
           \/ thread = "asleep" /\ thread' = "check"
           \/ thread = "exited" /\ thread' = "none"
        /\ pc' # "displace"
    BY <1>3, <1>4 DEF Hello, RefuseUnnegotiated, LoadModel, RefuseStart, Cancel,
         Shutdown, Refuse, Joined, StopOperation, Notify
  <2> QED
    BY <1>3, <2>1, ServingTyped, MainServes
<1>5. CASE StartOperation(r)
  <2>1. /\ operation = 0 /\ thread' = "gate" /\ pc' = "respond"
        /\ UNCHANGED <<queue, outcome>>
    BY <1>5 DEF StartOperation, Busy
  <2>2. queue = {} /\ thread \in {"none", "exited"}
    BY <2>1, ServingTyped DEF IInv, IdleIsReleased
  <2>3. outcome = "none"
    BY <2>2 DEF Serving, TakenIsOwn, Ending
  <2> QED
    BY <2>1, <2>2, <2>3 DEF TakenIsOwn, Taken
<1>6. CASE StreamRequest(r) /\ StreamRefusal(r) = "ok"
  <2>1. /\ UNCHANGED <<operation, kind, command, outcome>>
        /\ thread' = thread \/ (thread = "asleep" /\ thread' = "check")
        /\ pc' # "displace" /\ queue' = queue \cup {NewId}
        /\ r.method \in StreamMethods
    BY <1>3, <1>6 DEF StreamRequest, RefuseStreamRequest, StreamChunk,
         StreamSettings, StreamEnd, Push, Notify, StreamMethods
  <2> QED
    BY <1>3, <2>1, MainServes
<1>7. CASE StreamRequest(r) /\ StreamRefusal(r) # "ok"
  <2>1. UNCHANGED <<operation, kind, command, outcome, queue, thread, pc>>
    BY <1>7 DEF StreamRequest, RefuseStreamRequest, StreamChunk,
         StreamSettings, StreamEnd, Refuse
  <2> QED
    BY <1>3, <2>1, ServingTyped, MainServes
<1>8. CASE TrackRequest(r) /\ TrackRefusal(r) # "ok"
  <2>1. UNCHANGED <<operation, kind, command, outcome, queue, thread, pc>>
    BY <1>8 DEF TrackRequest, RefuseTrackRequest, TrackChunk, TrackPrepare,
         TrackRenderStale, TrackRenderNewer, Refuse
  <2> QED
    BY <1>3, <2>1, ServingTyped, MainServes
<1>9. CASE TrackRequest(r) /\ TrackRefusal(r) = "ok"
  <2>1. /\ UNCHANGED <<operation, kind, command, outcome>>
        /\ thread' = thread \/ (thread = "asleep" /\ thread' = "check")
        /\ queue' \subseteq queue \cup {NewId}
        /\ r.method \in TrackMethods
    BY <1>3, <1>9 DEF TrackRequest, RefuseTrackRequest, TrackChunk,
         TrackPrepare, TrackRenderStale, TrackRenderNewer, Push, Notify,
         TrackMethods
  <2>2. kind = "track"
    BY <1>9, <2>1, TrackAccepted
  <2> QED
    BY <1>3, <2>1, <2>2, MainServes
<1> QED
  BY <1>1, <1>4, <1>5, <1>6, <1>7, <1>8, <1>9

\* ContinueServes: so does what it does once it has read a request.
LEMMA ContinueServes ==
  ASSUME OrderInv, Serving, MainContinues \/ StdinEof
  PROVE  TakenIsOwn'
<1> USE DEF mainVars, sharedVars, backendVars, localVars
<1>1. CASE Respond \/ JoinOperation \/ StdinEof \/ TrackRenderDisplace
  <2>1. /\ UNCHANGED <<received, operation, kind, command, outcome>>
        /\ \/ thread' = thread
           \/ thread = "asleep" /\ thread' = "check"
           \/ thread = "exited" /\ thread' = "none"
        /\ pc' # "displace" \/ pc' = pc
    BY <1>1 DEF Respond, JoinOperation, StdinEof, TrackRenderDisplace,
         StopOperation, Notify
  <2>2. queue' \subseteq queue
    BY <1>1 DEF Respond, JoinOperation, StdinEof, TrackRenderDisplace
  <2> DEFINE x == 0
  <2>3. x \notin queue'
    BY <2>2, ServingTyped
  <2>4. Len(received') \in Nat /\ \A id \in 1..Len(received) : received'[id] = received[id]
    BY <2>1, ServingTyped
  <2>5. pc' = "displace" => kind = "track"
    BY <2>1 DEF Serving, TakenIsOwn
  <2>6. queue' \subseteq queue \cup {x}
    BY <2>2
  <2> HIDE DEF x
  <2> QED
    BY <2>1, <2>3, <2>4, <2>5, <2>6, MainServes
<1>2. CASE TrackRenderQueue
  <2>1. /\ UNCHANGED <<received, operation, kind, command, outcome>>
        /\ thread' = thread \/ (thread = "asleep" /\ thread' = "check")
        /\ pc = "displace" /\ pc' = "ready"
        /\ queue' = queue \cup {Len(received)}
    BY <1>2 DEF TrackRenderQueue, Notify
  <2>2. kind = "track" /\ Len(received) \in InHand
    BY <2>1 DEF Serving, TakenIsOwn, InHand
  <2>3. Taken \subseteq pending
    BY <2>2, ServingTyped DEF Taken, IInv, Ownership, CommandOwned, Places
  <2>4. Len(received) \notin Taken
    BY <2>2, <2>3, ServingTyped DEF ExactlyOneReply
  <2>5. Len(received') \in Nat /\ \A id \in 1..Len(received) : received'[id] = received[id]
    BY <2>1, ServingTyped
  <2> DEFINE x == Len(received)
  <2>6. x \notin Taken /\ queue' = queue \cup {x}
    BY <2>1, <2>4
  <2> HIDE DEF x
  <2> QED
    BY <2>1, <2>2, <2>5, <2>6, MainServes
<1> QED
  BY <1>1, <1>2 DEF MainContinues

\* The operation thread goes on with what it took, or leaves it.
LEMMA ThreadServes ==
  ASSUME OrderInv, Serving,
         UNCHANGED <<received, operation, kind, pc>>, queue' \subseteq queue,
         Taken' \subseteq Taken, outcome' # "none" => thread' = "commit" \/ Ending',
         thread' = "render" => received[command'].method = "track_render"
  PROVE  TakenIsOwn'
  BY DEF Serving, TakenIsOwn, Commands

\* TakeServes: it takes what was asked of its operation.
LEMMA TakeServes ==
  ASSUME OrderInv, Serving, StreamTake \/ TrackTake
  PROVE  TakenIsOwn'
<1> USE DEF mainVars
<1>1. /\ UNCHANGED <<received, operation, kind, pc, outcome>>
      /\ thread = "check" /\ thread' \in {"settings", "command"}
      /\ queue' \subseteq queue
  BY DEF StreamTake, TrackTake, Pop
<1>2. outcome = "none"
  BY <1>1 DEF Serving, TakenIsOwn, Ending
<1>3. ASSUME NEW id \in queue, command' = id, id \notin queue',
             received[id].method \in Commands
      PROVE  TakenIsOwn'
  <2>1. Taken' \subseteq {id} /\ Commands' = Commands
    BY <1>1, <1>3 DEF Taken, Commands
  <2>2. received[id].operation = operation
    BY ServingTyped DEF Standing, Current
  <2> QED
    BY <1>1, <1>2, <1>3, <2>1, <2>2 DEF Serving, TakenIsOwn
<1>4. ASSUME command' = 0
      PROVE  TakenIsOwn'
  <2>1. Taken' = {}
    BY <1>1, <1>4 DEF Taken
  <2> QED
    BY <1>1, <1>2, <2>1 DEF Serving, TakenIsOwn
<1>5. CASE TrackTake
  <2>1. kind = "track" /\ \E id \in queue : command' = id /\ id \notin queue'
    BY <1>5 DEF TrackTake, Pop, IsLeast
  <2>2. \A id \in queue : received[id].method \in Commands
    BY <2>1, ServingTyped DEF IInv, Ownership, QueueOfTrack, Commands
  <2> QED
    BY <1>3, <2>1, <2>2
<1>6. CASE StreamTake
  <2>1. kind = "stream"
    BY <1>6 DEF StreamTake
  <2>2. \/ command' = 0
        \/ \E id \in queue \ QueuedSettings : command' = id /\ id \notin queue'
    BY <1>6 DEF StreamTake, Pop, IsLeast
  <2>3. \A id \in queue \ QueuedSettings : received[id].method \in Commands
    BY <2>1 DEF Serving, TakenIsOwn, StreamMethods, QueuedSettings, Commands
  <2> QED
    BY <1>3, <1>4, <2>2, <2>3
<1> QED
  BY <1>5, <1>6

\* OperationServes: every step of the operation thread keeps what it took.
LEMMA OperationServes ==
  ASSUME OrderInv, Serving,
         OperationThread \/ SpuriousWakeup \/ StreamFails \/ TrackFails
  PROVE  TakenIsOwn'
<1> USE DEF mainVars, sharedVars, backendVars, localVars
<1>2. CASE \/ ThreadStart \/ FallAsleep \/ Sleep \/ SpuriousWakeup
           \/ CommitTerminal \/ RejectPending \/ EmitTerminal
  <2>1. /\ UNCHANGED <<received, operation, kind, pc, queue>> /\ Taken' = {}
        /\ thread' # "render"
    BY <1>2 DEF ThreadStart, FallAsleep, Sleep, SpuriousWakeup, CommitTerminal,
         RejectPending, EmitTerminal, Taken
  <2>2. outcome' # "none" => thread' = "commit" \/ Ending'
    BY <1>2 DEF ThreadStart, FallAsleep, Sleep, SpuriousWakeup, CommitTerminal,
         RejectPending, EmitTerminal, Serving, TakenIsOwn, Ending
  <2> QED
    BY <2>1, <2>2, ThreadServes
<1>3. CASE FinishActive
  <2>1. /\ queue' = {} /\ outcome' = "none" /\ kind' = "none"
        /\ thread' = "exited" /\ pc' # "displace" /\ Taken' = {}
    BY <1>3 DEF FinishActive, ResetOperation, MutexFree, Taken
  <2> QED
    BY <2>1 DEF TakenIsOwn
<1>4. CASE \/ WakeCanceled \/ StreamCanceled \/ TrackCanceled \/ TrackEmpty
           \/ StreamFails \/ TrackFails
  <2>1. /\ UNCHANGED <<received, operation, kind, pc, queue>>
        /\ thread' = "commit" /\ Taken' = {}
    BY <1>4 DEF WakeCanceled, StreamCanceled, TrackCanceled, TrackEmpty,
         StreamFails, TrackFails, Leave, Taken
  <2> QED
    BY <2>1, ThreadServes
<1>5. CASE \/ StreamConfigure \/ StreamAcknowledge \/ StreamServe \/ StreamFrame
           \/ StreamDrained
  <2>1. /\ UNCHANGED <<received, operation, kind, pc, queue>>
        /\ Taken' \subseteq Taken /\ thread' # "render"
    BY <1>5 DEF StreamConfigure, StreamAcknowledge, StreamServe, StreamFrame,
         StreamDrained, Taken
  <2>2. outcome' # "none" => thread' = "commit" \/ Ending'
    BY <1>5 DEF StreamConfigure, StreamAcknowledge, StreamServe, StreamFrame,
         StreamDrained, Serving, TakenIsOwn, Ending
  <2> QED
    BY <2>1, <2>2, ThreadServes
<1>6. CASE \/ TrackAppend \/ TrackPrepared \/ TrackSkip \/ TrackComplete
  <2>1. /\ UNCHANGED <<received, operation, kind, pc, queue, outcome>>
        /\ thread' = "check" /\ Taken' = {} /\ thread \in {"command", "render"}
    BY <1>6 DEF TrackAppend, TrackPrepared, TrackSkip, TrackComplete, Answer, Taken
  <2>2. outcome' # "none" => thread' = "commit" \/ Ending'
    BY <2>1 DEF Serving, TakenIsOwn, Ending
  <2> QED
    BY <2>1, <2>2, ThreadServes
<1>7. CASE TrackBegin \/ TrackExecute \/ TrackLatePreview \/ TrackBatch
  <2>1. /\ UNCHANGED <<received, operation, kind, pc, queue, outcome, command>>
        /\ thread' = "render" /\ Taken' = Taken /\ thread \in {"command", "render"}
        /\ thread = "render" \/ Method = "track_render"
    BY <1>7 DEF TrackBegin, TrackExecute, TrackLatePreview, TrackBatch, Taken
  <2>2. outcome' # "none" => thread' = "commit" \/ Ending'
    BY <2>1 DEF Serving, TakenIsOwn, Ending
  <2>3. received[command'].method = "track_render"
    BY <2>1 DEF Serving, TakenIsOwn, Method
  <2> QED
    BY <2>1, <2>2, <2>3, ThreadServes
<1> QED
  BY <1>2, <1>3, <1>4, <1>5, <1>6, <1>7, TakeServes
     DEF OperationThread, StreamLoop, TrackLoop

\* NextServes: Serving is kept, whichever thread steps.
LEMMA NextServes ==
  ASSUME OrderInv, Serving, [Next]_vars
  PROVE  Serving'
<1>1. Sent'
  BY SentKept
<1>2. CASE UNCHANGED vars
  <2>1. UNCHANGED <<received, operation, kind, pc, queue, outcome, command, thread>>
    BY <1>2 DEF vars, mainVars, sharedVars, localVars
  <2> QED
    BY <1>1, <2>1 DEF Serving, TakenIsOwn, Taken, Commands, Ending
<1> QED
  BY <1>1, <1>2, RequestServes, ContinueServes, OperationServes DEF Serving, Next
-----------------------------------------------------------------------------
(* What is queued is counted: the sum over a set of requests. *)

\* The samples of requests, one by one.
PairsOf(h, ids) == UNION {{id} \X (1..h[id].samples) : id \in ids}

\* LeastNumber: numbers have a least one.
LEMMA LeastNumber ==
  ASSUME NEW S \in SUBSET Nat, S # {}
  PROVE  \E n \in S : \A m \in S : n <= m
<1> DEFINE R == OpToRel(<, Nat)
<1>1. IsWellFoundedOn(R, Nat)
  BY NatLessThanWellFounded
<1>2. \A x, y \in Nat : x < y => <<x, y>> \in R
  BY DEF OpToRel
<1> HIDE DEF R
<1>3. PICK n \in S : \A m \in S : ~(<<m, n>> \in R)
  BY <1>1, WFMin
<1>4. \A m \in S : ~(m < n)
  BY <1>2, <1>3
<1> QED
  BY <1>3, <1>4

\* PairsCount: each request adds its samples to the pairs.
LEMMA PairsCount ==
  ASSUME NEW h, NEW ids, IsFiniteSet(ids), \A id \in ids : h[id].samples \in Nat
  PROVE  /\ IsFiniteSet(PairsOf(h, ids))
         /\ \A id \in ids : Cardinality(PairsOf(h, ids)) = h[id].samples + Cardinality(PairsOf(h, ids \ {id}))
<1> DEFINE One(id) == {id} \X (1..h[id].samples)
<1>1. ASSUME NEW id \in ids
      PROVE  IsFiniteSet(One(id)) /\ Cardinality(One(id)) = h[id].samples
  <2>1. IsFiniteSet({id}) /\ Cardinality({id}) = 1
    BY FS_Singleton
  <2>2. IsFiniteSet(1..h[id].samples) /\ Cardinality(1..h[id].samples) = h[id].samples
    <3>1. h[id].samples \in Nat
      OBVIOUS
    <3> DEFINE n == h[id].samples
    <3>2. n \in Nat
      BY <3>1
    <3> HIDE DEF n
    <3>3. IsFiniteSet(1..n) /\ Cardinality(1..n) = n
      BY <3>2, FS_Interval
    <3> QED
      BY <3>3 DEF n
  <2> DEFINE A == {id}  B == 1..h[id].samples
  <2> HIDE DEF A, B
  <2>3. IsFiniteSet(A \X B) /\ Cardinality(A \X B) = Cardinality(A) * Cardinality(B)
    BY <2>1, <2>2, FS_Product DEF A, B
  <2> QED
    BY <2>1, <2>2, <2>3 DEF A, B
<1> DEFINE Ones == {One(id) : id \in ids}
<1>2. IsFiniteSet(Ones)
  <2> DEFINE f == [id \in ids |-> One(id)]
  <2> HIDE DEF One
  <2>1. f \in Surjection(ids, Ones)
    BY DEF Surjection
  <2> HIDE DEF f, Ones
  <2> QED
    BY <2>1, FS_Surjection
<1>3. \A T \in Ones : IsFiniteSet(T)
  BY <1>1
<1>4. IsFiniteSet(UNION Ones)
  <2> HIDE DEF Ones
  <2> QED
    BY <1>2, <1>3, FS_UNION
<1>5. IsFiniteSet(PairsOf(h, ids))
  BY <1>4 DEF PairsOf
<1>6. ASSUME NEW id \in ids
      PROVE  Cardinality(PairsOf(h, ids)) = h[id].samples + Cardinality(PairsOf(h, ids \ {id}))
  <2> DEFINE A == One(id)  B == PairsOf(h, ids \ {id})
  <2>1. PairsOf(h, ids) = A \cup B /\ A \cap B = {}
    BY DEF PairsOf
  <2>2. B \in SUBSET PairsOf(h, ids)
    BY <2>1
  <2>3. IsFiniteSet(A) /\ Cardinality(A) = h[id].samples
    BY <1>1
  <2>4. IsFiniteSet(B)
    BY <2>2, <1>5, FS_Subset
  <2> HIDE DEF A, B
  <2>5. Cardinality(A \cup B) = Cardinality(A) + Cardinality(B) - Cardinality(A \cap B)
    BY <2>3, <2>4, FS_Union
  <2>6. Cardinality(A \cap B) = 0
    BY <2>1, FS_EmptySet
  <2>7. Cardinality(A) \in Nat /\ Cardinality(B) \in Nat
    BY <2>3, <2>4, FS_CardinalityType
  <2> QED
    BY <2>1, <2>3, <2>5, <2>6, <2>7 DEF B
<1> QED
  BY <1>5, <1>6

\* The sum of SamplesOf, of a given history.
Total(h, ids) == MapThenSumSet(LAMBDA id : h[id].samples, ids)

\* TotalIsCount: the sum over a set of requests, which the fold computes in an
\* order nobody knows, is the number of its pairs.
LEMMA TotalIsCount ==
  ASSUME NEW h, NEW ids, IsFiniteSet(ids), \A id \in ids : h[id].samples \in Nat
  PROVE  Total(h, ids) = Cardinality(PairsOf(h, ids))
<1> DEFINE Eqn(g) == g = [s \in SUBSET ids |-> IF s = {} THEN 0 ELSE h[CHOOSE x \in s : TRUE].samples + g[s \ {CHOOSE x \in s : TRUE}]]
           it == CHOOSE g : Eqn(g)
           card == [s \in SUBSET ids |-> Cardinality(PairsOf(h, s))]
<1>1. Eqn(card)
  <2>1. ASSUME NEW s \in SUBSET ids
        PROVE  card[s] = IF s = {} THEN 0 ELSE h[CHOOSE x \in s : TRUE].samples + card[s \ {CHOOSE x \in s : TRUE}]
    <3>1. CASE s = {}
      <4>1. PairsOf(h, s) = {}
         BY <3>1 DEF PairsOf
      <4> QED
        BY <3>1, <4>1, FS_EmptySet
    <3>2. CASE s # {}
      <4> DEFINE x == CHOOSE x \in s : TRUE
      <4>1. x \in s
        BY <3>2
      <4>2. IsFiniteSet(s)
        BY FS_Subset
      <4> HIDE DEF x
      <4>3. Cardinality(PairsOf(h, s)) = h[x].samples + Cardinality(PairsOf(h, s \ {x}))
        BY <4>1, <4>2, PairsCount
      <4>4. card[s] = h[x].samples + card[s \ {x}]
        BY <4>3
      <4> QED
        BY <3>2, <4>4 DEF x
    <3> QED
      BY <3>1, <3>2
  <2> QED
    BY <2>1
<1>2. Eqn(it)
  <2> HIDE DEF Eqn
  <2> QED
    BY <1>1
<1>3. Total(h, ids) = it[ids]
  BY DEF Total, MapThenSumSet, MapThenFoldSet
<1> DEFINE wrong == {s \in SUBSET ids : it[s] # card[s]}
<1>4. wrong = {}
  <2> SUFFICES ASSUME wrong # {} PROVE  FALSE
    OBVIOUS
  <2> DEFINE sizes == {Cardinality(s) : s \in wrong}
  <2>1. \A s \in SUBSET ids : IsFiniteSet(s) /\ Cardinality(s) \in Nat
    BY FS_Subset, FS_CardinalityType
  <2>2. sizes \in SUBSET Nat /\ sizes # {}
    BY <2>1
  <2> HIDE DEF it, card
  <2>3. PICK n \in sizes : \A m \in sizes : n <= m
    <3> HIDE DEF sizes
    <3> QED
      BY <2>2, LeastNumber
  <2>4. PICK s \in wrong : n = Cardinality(s)
    BY <2>3
  <2> DEFINE x == CHOOSE x \in s : TRUE
  <2>5. s # {}
    <3>1. it[{}] = 0 /\ card[{}] = 0
      BY <1>1, <1>2
    <3> QED
      BY <2>4, <3>1
  <2>6. x \in s
    BY <2>5
  <2>7. it[s] = h[x].samples + it[s \ {x}] /\ card[s] = h[x].samples + card[s \ {x}]
    BY <1>1, <1>2, <2>4, <2>5
  <2> HIDE DEF x
  <2>8. s \ {x} \in wrong
    BY <2>4, <2>7
  <2>9. Cardinality(s \ {x}) = Cardinality(s) - 1
    BY <2>1, <2>4, <2>6, FS_RemoveElement
  <2>10. Cardinality(s \ {x}) \in sizes
    BY <2>8
  <2> HIDE DEF sizes
  <2> QED
    BY <2>1, <2>2, <2>3, <2>4, <2>9, <2>10
<1>5. it[ids] = card[ids]
  BY <1>4
<1> QED
  BY <1>3, <1>5

\* Two histories agree on a set of requests.
Agree(h, g, ids) ==
  /\ IsFiniteSet(ids)
  /\ \A id \in ids : h[id].samples \in Nat /\ g[id] = h[id]

\* Requests of a set that have no samples.
Silent(h, ids, Z) == Z \subseteq ids /\ \A id \in Z : h[id].samples = 0

\* How the sum changes with the set, where two histories agree on it: they
\* have the same sum, ...
LEMMA TotalAgrees ==
  ASSUME NEW h, NEW g, NEW ids, Agree(h, g, ids)
  PROVE  Total(h, ids) \in Nat /\ Total(g, ids) = Total(h, ids)
<1> USE DEF Agree
<1>1. Total(h, ids) = Cardinality(PairsOf(h, ids)) /\ Total(h, ids) \in Nat
  BY TotalIsCount, PairsCount, FS_CardinalityType
<1>2. PairsOf(g, ids) = PairsOf(h, ids) /\ \A id \in ids : g[id].samples \in Nat
  BY DEF PairsOf
<1> QED
  BY <1>1, <1>2, TotalIsCount

\* ... a request adds its samples, ...
LEMMA TotalAdds ==
  ASSUME NEW h, NEW g, NEW ids, Agree(h, g, ids),
         NEW x, x \notin ids, g[x].samples \in Nat
  PROVE  Total(g, ids \cup {x}) = g[x].samples + Total(h, ids)
<1> USE DEF Agree
<1> DEFINE T == ids \cup {x}
<1>1. IsFiniteSet(T) /\ x \in T /\ T \ {x} = ids
  BY FS_AddElement
<1>2. \A id \in T : g[id].samples \in Nat
  OBVIOUS
<1>3. PairsOf(g, ids) = PairsOf(h, ids)
  BY DEF PairsOf
<1> HIDE DEF T
<1>4. Cardinality(PairsOf(g, T)) = g[x].samples + Cardinality(PairsOf(g, T \ {x}))
  BY <1>1, <1>2, PairsCount
<1>5. Total(g, T) = Cardinality(PairsOf(g, T))
  BY <1>1, <1>2, TotalIsCount
<1>6. /\ Total(h, ids) = Cardinality(PairsOf(h, ids))
      /\ Cardinality(PairsOf(h, ids)) \in Nat
  BY TotalIsCount, PairsCount, FS_CardinalityType
<1>7. Total(g, T) = g[x].samples + Total(h, ids)
  BY <1>1, <1>3, <1>4, <1>5, <1>6
<1> QED
  BY <1>7 DEF T

\* ... takes them with it, ...
LEMMA TotalTakes ==
  ASSUME NEW h, NEW g, NEW ids, Agree(h, g, ids),
         NEW x \in ids
  PROVE  Total(h, ids) = h[x].samples + Total(g, ids \ {x})
<1> USE DEF Agree
<1> DEFINE T == ids \ {x}
<1>1. IsFiniteSet(T) /\ x \notin T /\ T \cup {x} = ids
  BY FS_Subset
<1>2. \A id \in T : g[id].samples \in Nat /\ h[id] = g[id]
  OBVIOUS
<1>3. h[x].samples \in Nat
  OBVIOUS
<1> HIDE DEF T
<1>4. Agree(g, h, T)
  BY <1>1, <1>2
<1> HIDE DEF Agree
<1>5. Total(h, T \cup {x}) = h[x].samples + Total(g, T)
  BY <1>1, <1>3, <1>4, TotalAdds
<1> QED
  BY <1>1, <1>5 DEF T

\* ... and requests without samples do not count.
LEMMA TotalIgnores ==
  ASSUME NEW h, NEW g, NEW ids, Agree(h, g, ids),
         NEW Z, Silent(h, ids, Z)
  PROVE  Total(g, ids \ Z) = Total(h, ids)
<1> USE DEF Agree, Silent
<1> DEFINE T == ids \ Z
<1>1. \A id \in Z : 1..h[id].samples = {}
  OBVIOUS
<1>2. PairsOf(g, T) = PairsOf(h, ids)
  BY <1>1 DEF PairsOf
<1>3. IsFiniteSet(T) /\ \A id \in T : g[id].samples \in Nat
  BY FS_Subset
<1> HIDE DEF T
<1>4. Total(g, T) = Cardinality(PairsOf(g, T))
  BY <1>3, TotalIsCount
<1>5. Total(h, ids) = Cardinality(PairsOf(h, ids))
  BY TotalIsCount
<1> QED
  BY <1>2, <1>4, <1>5 DEF T

\* OnlyChunksHaveSamples: no other request has samples.
LEMMA OnlyChunksHaveSamples ==
  ASSUME NEW r \in RequestLines, r.method \notin {"stream_chunk", "track_chunk"}
  PROVE  r.samples = 0
  BY DEF RequestLines

\* QueueCounted: the counter follows the queue.
LEMMA QueueCounted ==
  ASSUME OrderInv, Serving, QueueBounded, UNCHANGED kind,
         \A id \in 1..Len(received) : received'[id] = received[id],
         \/ UNCHANGED <<queue, queuedSamples>>
         \/ \E x : /\ queue' = queue \cup {x} /\ x \notin queue
                   /\ received'[x].samples \in Nat
                   /\ queuedSamples' = queuedSamples + received'[x].samples
                   /\ \/ received'[x].samples = 0
                      \/ IF kind = "track" THEN TrackRoom(received'[x].samples)
                         ELSE StreamRoom(received'[x].samples)
         \/ \E Z :
              /\ Silent(received, queue, Z)
              /\ queue' = queue \ Z /\ UNCHANGED queuedSamples
         \/ \E Z : \E x \in queue \ Z :
              /\ Silent(received, queue, Z)
              /\ queue' = (queue \ Z) \ {x}
              /\ queuedSamples' = queuedSamples - received[x].samples
  PROVE  QueueBounded'
<1> DEFINE total == Total(received, queue)
           total1 == Total(received', queue')
           capacity == IF kind = "track" THEN TrackCapacity ELSE StreamCapacity
<1>1. /\ queuedSamples = total /\ queuedSamples <= capacity
      /\ QueueBounded' <=> queuedSamples' <= capacity /\ queuedSamples' = total1
  BY DEF QueueBounded, SamplesOf, Total, MapThenSumSet, MapThenFoldSet
<1>2. IsFiniteSet(queue) /\ queue \subseteq 1..Len(received)
  <2>1. IsFiniteSet(1..Len(received))
    BY ServingTyped, FS_Interval
  <2> QED
    BY <2>1, ServingTyped, FS_Subset
<1>3. \A id \in queue : received[id].samples \in Nat /\ received'[id] = received[id]
  BY <1>2, ServingTyped, CommandTyped
<1>4. capacity \in Nat
  BY WorkerAssumption DEF WorkerAssumption
<1>5. Agree(received, received', queue)
  BY <1>2, <1>3 DEF Agree
<1>6. total \in Nat /\ Total(received', queue) = total
  BY <1>5, TotalAgrees
<1>7. CASE UNCHANGED <<queue, queuedSamples>>
  BY <1>1, <1>6, <1>7
<1>8. ASSUME NEW x, queue' = queue \cup {x}, x \notin queue,
             received'[x].samples \in Nat,
             queuedSamples' = queuedSamples + received'[x].samples,
             \/ received'[x].samples = 0
             \/ IF kind = "track" THEN TrackRoom(received'[x].samples)
                ELSE StreamRoom(received'[x].samples)
      PROVE  QueueBounded'
  <2>1. Total(received', queue \cup {x}) = received'[x].samples + Total(received, queue)
    BY <1>5, <1>8, TotalAdds
  <2> DEFINE n == received'[x].samples
  <2>2. n \in Nat /\ queuedSamples' = queuedSamples + n /\ total1 = n + total
    BY <1>8, <2>1
  <2>3. n = 0 \/ n <= capacity - queuedSamples
    BY <1>8 DEF TrackRoom, StreamRoom
  <2> HIDE DEF n, total, total1, capacity
  <2> QED
    BY <1>1, <1>4, <1>6, <2>2, <2>3
<1>9. ASSUME NEW Z, queue' = queue \ Z, UNCHANGED queuedSamples, Silent(received, queue, Z)
      PROVE  QueueBounded'
  <2>1. Total(received', queue \ Z) = Total(received, queue)
    BY <1>5, <1>9, TotalIgnores
  <2> QED
    BY <1>1, <1>9, <2>1
<1>10. ASSUME NEW Z, Silent(received, queue, Z), NEW x \in queue \ Z,
              queue' = (queue \ Z) \ {x},
              queuedSamples' = queuedSamples - received[x].samples
       PROVE  QueueBounded'
  <2> DEFINE rest == queue \ Z
  <2>1. IsFiniteSet(rest) /\ rest \subseteq queue /\ x \in rest
    BY <1>2, <1>10, FS_Subset
  <2>2. Agree(received', received', rest)
    BY <1>3, <2>1 DEF Agree
  <2>3. Total(received', rest) = Total(received, queue)
    BY <1>5, <1>10, TotalIgnores
  <2>4. queue' = rest \ {x}
    BY <1>10
  <2> HIDE DEF rest
  <2>5. Total(received', rest) = received'[x].samples + Total(received', rest \ {x})
    BY <2>1, <2>2, TotalTakes
  <2> DEFINE n == received[x].samples
  <2>6. n \in Nat /\ queuedSamples' = queuedSamples - n /\ total = n + total1
    BY <1>3, <1>10, <2>1, <2>3, <2>4, <2>5
  <2>7. total1 \in Nat
    <3>1. Agree(received', received', queue')
      BY <1>2, <1>3, <2>1, <2>4, FS_Subset DEF Agree
    <3> QED
      BY <3>1, TotalAgrees
  <2> HIDE DEF n, total, total1, capacity
  <2> QED
    BY <1>1, <1>4, <1>6, <2>6, <2>7
<1> QED
  BY <1>7, <1>8, <1>9, <1>10

\* Nothing is queued when an operation starts, and when it ends.
LEMMA NothingCounted ==
  ASSUME queue' = {}, queuedSamples' = 0
  PROVE  QueueBounded'
<1>1. Total(received', {}) = Cardinality(PairsOf(received', {}))
  BY TotalIsCount, FS_EmptySet
<1>2. PairsOf(received', {}) = {}
  BY DEF PairsOf
<1>3. Total(received', {}) = 0
  BY <1>1, <1>2, FS_EmptySet
<1>4. 0 <= IF kind' = "track" THEN TrackCapacity ELSE StreamCapacity
  BY WorkerAssumption DEF WorkerAssumption
<1>5. SamplesOf(queue)' = Total(received', queue')
  BY DEF SamplesOf, Total, MapThenSumSet, MapThenFoldSet
<1> QED
  BY <1>3, <1>4, <1>5 DEF QueueBounded

\* A request is counted as it is queued.
LEMMA PushCounted ==
  ASSUME OrderInv, Serving, QueueBounded, UNCHANGED kind,
         NEW r \in RequestLines, Reads(r), queue' = queue \cup {NewId},
         \/ UNCHANGED queuedSamples /\ r.method \notin {"stream_chunk", "track_chunk"}
         \/ /\ queuedSamples' = queuedSamples + r.samples
            /\ IF kind = "track" THEN TrackRoom(r.samples) ELSE StreamRoom(r.samples)
  PROVE  QueueBounded'
<1>1. /\ received'[NewId] = r /\ NewId \notin queue
      /\ \A id \in 1..Len(received) : received'[id] = received[id]
  BY ServingTyped, ReadTyped, ReadIds
<1>2. r.samples \in Nat
  BY RequestLinesTyped DEF Request
<1>3. queuedSamples \in Int
  BY ServingTyped DEF TypeOK, CountersOK
<1> DEFINE n == r.samples
<1>4. queuedSamples' = queuedSamples + n /\ (n = 0 \/ IF kind = "track" THEN TrackRoom(n) ELSE StreamRoom(n))
  <2>1. CASE UNCHANGED queuedSamples /\ r.method \notin {"stream_chunk", "track_chunk"}
    <3>1. n = 0
      BY <2>1, OnlyChunksHaveSamples
    <3> HIDE DEF n
    <3> QED
      BY <1>3, <2>1, <3>1
  <2>2. CASE ~(UNCHANGED queuedSamples /\ r.method \notin {"stream_chunk", "track_chunk"})
    BY <2>2
  <2> QED
    BY <2>1, <2>2
<1> QED
  BY <1>1, <1>2, <1>4, QueueCounted

\* RequestCounted: every request that is read is counted or not queued.
LEMMA RequestCounted ==
  ASSUME OrderInv, Serving, QueueBounded, MainRequest
  PROVE  QueueBounded'
<1> USE DEF sharedVars, backendVars, localVars
<1>1. PICK r \in RequestLines :
        \/ Hello(r) \/ RefuseUnnegotiated(r) \/ LoadModel(r) \/ RefuseStart(r)
        \/ StartOperation(r) \/ StreamRequest(r) \/ TrackRequest(r)
        \/ Cancel(r) \/ Shutdown(r)
  BY DEF MainRequest
<1>2. Reads(r)
  BY <1>1 DEF Hello, RefuseUnnegotiated, LoadModel, RefuseStart,
       StartOperation, StreamRequest, RefuseStreamRequest, StreamChunk,
       StreamSettings, StreamEnd, TrackRequest, RefuseTrackRequest,
       TrackChunk, TrackPrepare, TrackRenderStale, TrackRenderNewer,
       Cancel, Shutdown
<1>3. \A id \in 1..Len(received) : received'[id] = received[id]
  BY <1>2, ServingTyped, ReadTyped
<1>4. CASE StartOperation(r)
  <2>1. operation = 0 /\ UNCHANGED <<queue, queuedSamples>>
    BY <1>4 DEF StartOperation, Busy
  <2> QED
    BY <2>1, ServingTyped, NothingCounted DEF IInv, IdleIsReleased
<1>5. CASE ~StartOperation(r) /\ UNCHANGED <<queue, queuedSamples, kind>>
  BY <1>3, <1>5, QueueCounted
<1>6. CASE /\ ~UNCHANGED <<queue, queuedSamples, kind>>
           /\ StreamRequest(r)
  <2>1. StreamRefusal(r) = "ok" /\ r.method \in StreamMethods
    BY <1>6 DEF StreamRequest, RefuseStreamRequest, StreamChunk,
         StreamSettings, StreamEnd, Refuse, StreamMethods
  <2>2. kind = "stream" /\ StreamRoom(r.samples)
    BY <2>1, StreamAccepted DEF StreamRefusal
  <2>3. /\ UNCHANGED kind /\ queue' = queue \cup {NewId}
        /\ \/ UNCHANGED queuedSamples /\ r.method \notin {"stream_chunk", "track_chunk"}
           \/ queuedSamples' = queuedSamples + r.samples
    BY <1>6, <2>1 DEF StreamRequest, RefuseStreamRequest, StreamChunk,
         StreamSettings, StreamEnd, Push, Count
  <2> QED
    BY <1>2, <2>2, <2>3, PushCounted
<1>7. CASE /\ ~UNCHANGED <<queue, queuedSamples, kind>>
           /\ TrackRequest(r)
  <2>1. TrackRefusal(r) = "ok" /\ r.method \in TrackMethods
    BY <1>7 DEF TrackRequest, RefuseTrackRequest, TrackChunk, TrackPrepare,
         TrackRenderStale, TrackRenderNewer, Refuse, TrackMethods
  <2>2. kind = "track" /\ (r.method = "track_chunk" => TrackRoom(r.samples))
    BY <2>1, TrackAccepted DEF TrackRefusal
  <2>3. /\ UNCHANGED kind /\ queue' = queue \cup {NewId}
        /\ \/ UNCHANGED queuedSamples /\ r.method \notin {"stream_chunk", "track_chunk"}
           \/ queuedSamples' = queuedSamples + r.samples /\ r.method = "track_chunk"
    BY <1>7, <2>1 DEF TrackRequest, RefuseTrackRequest, TrackChunk, TrackPrepare,
         TrackRenderStale, TrackRenderNewer, Push, Count
  <2> QED
    BY <1>2, <2>2, <2>3, PushCounted
<1>8. CASE Hello(r) \/ RefuseUnnegotiated(r) \/ LoadModel(r) \/ RefuseStart(r) \/ Cancel(r) \/ Shutdown(r)
  <2>1. UNCHANGED <<queue, queuedSamples, kind>>
    BY <1>8 DEF Hello, RefuseUnnegotiated, LoadModel, RefuseStart, Cancel, Shutdown, Refuse
  <2> QED
    BY <1>3, <2>1, QueueCounted
<1> QED
  BY <1>1, <1>4, <1>5, <1>6, <1>7, <1>8

\* NextCounted: QueueBounded is kept, whichever thread steps.
LEMMA NextCounted ==
  ASSUME OrderInv, Serving, QueueBounded, [Next]_vars
  PROVE  QueueBounded'
<1> USE DEF mainVars, sharedVars, backendVars, localVars
<1>1. \A id \in 1..Len(received) : received'[id] = received[id]
  BY SentKept
<1>2. CASE MainRequest
  BY <1>2, RequestCounted
<1>3. CASE FinishActive
  BY <1>3, NothingCounted DEF FinishActive, ResetOperation
<1>4. \A id \in queue : /\ received[id] \in RequestLines
                        /\ received[id].method \notin {"stream_chunk", "track_chunk"} =>
                             received[id].samples = 0
  BY ServingTyped, OnlyChunksHaveSamples
<1>5. CASE TrackRenderDisplace
  <2>1. PICK id \in QueuedRenders : queue' = queue \ {id} /\ UNCHANGED <<queuedSamples, kind>>
    BY <1>5 DEF TrackRenderDisplace
  <2>2. Silent(received, queue, {id})
    BY <1>4 DEF QueuedRenders, Silent
  <2> QED
    BY <1>1, <2>1, <2>2, QueueCounted
<1>6. CASE TrackRenderQueue
  <2>1. /\ queue' = queue \cup {Len(received)} /\ UNCHANGED <<queuedSamples, kind, received>>
        /\ pc = "displace"
    BY <1>6 DEF TrackRenderQueue
  <2>2. Len(received) \in InHand
    BY <2>1 DEF InHand
  <2>3. /\ Len(received) \in 1..Len(received)
        /\ received[Len(received)].method = "track_render"
    BY <2>1, ServingTyped DEF TypeOK, DomainsOK, IInv, Places
  <2>4. received[Len(received)] \in RequestLines /\ received[Len(received)].samples = 0
    BY <2>3, ServingTyped, OnlyChunksHaveSamples
  <2>5. Len(received) \notin queue
    <3>1. ~Ending
      BY <2>1, ServingTyped DEF IInv, Places
    <3>2. Len(received) \in queue => Len(received) \in pending
      BY <2>3, <3>1, ServingTyped DEF IInv, Ownership, QueueOwned, Deferred
    <3> QED
      BY <2>2, <3>2, ServingTyped DEF ExactlyOneReply
  <2>6. queuedSamples \in Int
    BY ServingTyped DEF TypeOK, CountersOK
  <2> DEFINE x == Len(received)
  <2>7. received'[x].samples = 0
    BY <2>1, <2>4
  <2>8. /\ queue' = queue \cup {x} /\ x \notin queue /\ received'[x].samples \in Nat
        /\ queuedSamples' = queuedSamples + received'[x].samples
    <3>1. queuedSamples' = queuedSamples + 0
      BY <2>1, <2>6
    <3> QED
      BY <2>1, <2>5, <2>7, <3>1
  <2> HIDE DEF x
  <2> QED
    BY <1>1, <2>1, <2>7, <2>8, QueueCounted
<1>7. CASE StreamTake
  <2>1. Silent(received, queue, QueuedSettings)
    BY <1>4 DEF QueuedSettings, Silent
  <2>2. UNCHANGED kind
    BY <1>7 DEF StreamTake
  <2> DEFINE Z == QueuedSettings
  <2>3. \/ queue' = queue \ Z /\ UNCHANGED queuedSamples
        \/ \E x \in queue \ Z : queue' = (queue \ Z) \ {x}
                                /\ queuedSamples' = queuedSamples - received[x].samples
    BY <1>7 DEF StreamTake, Pop, IsLeast
  <2>4. Silent(received, queue, Z)
    BY <2>1
  <2> HIDE DEF Z
  <2> QED
    BY <1>1, <2>2, <2>3, <2>4, QueueCounted
<1>8. CASE TrackTake
  <2>1. PICK x \in queue : queue' = queue \ {x} /\ queuedSamples' = queuedSamples - received[x].samples
    BY <1>8 DEF TrackTake, Pop, IsLeast
  <2>2. UNCHANGED kind
    BY <1>8 DEF TrackTake
  <2>3. Silent(received, queue, {}) /\ x \in queue \ {} /\ queue' = (queue \ {}) \ {x}
    BY <2>1 DEF Silent
  <2> QED
    BY <1>1, <2>1, <2>2, <2>3, QueueCounted
<1>9. CASE UNCHANGED <<queue, queuedSamples, kind>>
  BY <1>1, <1>9, QueueCounted
<1>10. CASE StreamLoop \/ TrackLoop \/ StreamFails \/ TrackFails
  <2>1. StreamTake \/ TrackTake \/ UNCHANGED <<queue, queuedSamples, kind>>
    BY <1>10 DEF StreamLoop, TrackLoop, StreamConfigure, StreamAcknowledge, StreamServe,
         StreamFrame, StreamDrained, StreamCanceled, StreamFails, TrackAppend, TrackPrepared,
         TrackEmpty, TrackSkip, TrackBegin, TrackExecute, TrackLatePreview, TrackBatch,
         TrackComplete, TrackCanceled, TrackFails, Answer, Leave
  <2> QED
    BY <2>1, <1>7, <1>8, <1>9
<1>11. CASE MainContinues \/ StdinEof
  <2>1. TrackRenderDisplace \/ TrackRenderQueue \/ UNCHANGED <<queue, queuedSamples, kind>>
    BY <1>11 DEF MainContinues, StdinEof, Respond, JoinOperation
  <2> QED
    BY <2>1, <1>5, <1>6, <1>9
<1>12. CASE OperationThread \/ SpuriousWakeup
  <2>1. \/ StreamLoop \/ TrackLoop \/ FinishActive
        \/ UNCHANGED <<queue, queuedSamples, kind>>
    BY <1>12 DEF OperationThread, SpuriousWakeup, ThreadStart, FallAsleep, Sleep, WakeCanceled,
         CommitTerminal, RejectPending, EmitTerminal, Leave
  <2> QED
    BY <2>1, <1>3, <1>9, <1>10
<1>13. CASE UNCHANGED vars
  BY <1>9, <1>13 DEF vars
<1> QED
  BY <1>2, <1>10, <1>11, <1>12, <1>13 DEF Next
-----------------------------------------------------------------------------
(* A Stream: its settings, its chunks and its end. *)

\* Settings are applied in the order in which they came, and only they wait
\* for an answer.
SettingsInOrder ==
  /\ \A id \in QueuedSettings : applied < id /\ \A b \in Coalesced : b < id
  /\ thread = "settings" => \A b \in batch : applied < b
  /\ thread = "acknowledge" => \A b \in batch : b <= applied
  /\ pending \subseteq QueuedSettings \cup Coalesced

Ends == {id \in 1..Len(received) : received[id].method = "stream_end"}

\* Nothing is queued behind a stream_end.
EndIsLast ==
  /\ \A id \in queue \cap Ends : endQueued /\ \A other \in queue : other <= id
  /\ Taken \cap Ends # {} => endQueued /\ queue = {}

\* The chunks of the Stream, and of these the ones to be credited, ...
Chunks == ChunksOf(operation)
Waiting ==
  Chunks \cap (queue \cup IF thread \in {"settings", "acknowledge", "command"}
                          THEN {command} ELSE {})

\* ... the ones that are answered, or about to be.
Answered == {id \in Chunks : Accepted(id)}
Answering == InHand \cap Chunks
Credits == EventsNamed(operation, "stream_credit")

\* Chunks and ends are answered before they are served.
AnsweredFirst ==
  /\ \A id \in (queue \cup Taken) \cap (Chunks \cup Ends) :
       Accepted(id) \/ Responding(id)
  /\ thread = "drain" => Accepted(command)
  /\ Answering \subseteq Waiting

\* A Stream that has ended takes no more chunks.
EndedIsOver == endQueued /\ Answering = {}

StreamInv ==
  kind = "stream" =>
    /\ outcome = "none" => SettingsInOrder /\ EndIsLast /\ AnsweredFirst
    /\ outcome = "ended" /\ ~canceled => EndedIsOver
    /\ CreditLedger /\ NewestSettingsApplied /\ DrainedStreamIsComplete

\* The ledger, said of these sets.
LEMMA LedgerSays ==
  ASSUME kind = "stream"
  PROVE  CreditLedger <=>
           /\ Cardinality(Credits) <= Cardinality(Answered)
           /\ ~canceled /\ outcome = "none" =>
                Cardinality(Credits) + Cardinality(Waiting) = Cardinality(Answered \cup Answering)
<1> DEFINE waiting == (queue \cap ChunksOf(operation))
                        \cup (IF thread \in {"settings", "acknowledge", "command"}
                              THEN {command} \cap ChunksOf(operation) ELSE {})
<1>1. Waiting = waiting
  BY DEF Waiting, Chunks
<1>2. CreditLedger <=>
           /\ Cardinality(Credits) <= Cardinality(Answered)
           /\ ~canceled /\ outcome = "none" =>
                Cardinality(Credits) + Cardinality(waiting) = Cardinality(Answered \cup Answering)
  <2> HIDE DEF Waiting
  <2> QED
    BY DEF CreditLedger, Credits, Answered, Answering, Chunks
<1> QED
  BY <1>1, <1>2

\* The same of the next state.
LEMMA LedgerWillSay ==
  ASSUME kind' = "stream"
  PROVE  CreditLedger' <=>
           /\ Cardinality(Credits') <= Cardinality(Answered')
           /\ ~canceled' /\ outcome' = "none" =>
                Cardinality(Credits') + Cardinality(Waiting') = Cardinality(Answered' \cup Answering')
<1> DEFINE waiting == (queue' \cap ChunksOf(operation)')
                        \cup (IF thread' \in {"settings", "acknowledge", "command"}
                              THEN {command'} \cap ChunksOf(operation)' ELSE {})
<1>1. Waiting' = waiting
  BY DEF Waiting, Chunks
<1>2. CreditLedger' <=>
           /\ Cardinality(Credits') <= Cardinality(Answered')
           /\ ~canceled' /\ outcome' = "none" =>
                Cardinality(Credits') + Cardinality(waiting) = Cardinality(Answered' \cup Answering')
  BY DEF CreditLedger, Credits, Answered, Answering, Chunks
<1> QED
  BY <1>1, <1>2

\* How the ledger's sets may grow: a chunk joins those that wait and those that
\* are heard, ...
LEMMA ChunkBalances ==
  ASSUME NEW C, NEW W, NEW H, NEW x,
         IsFiniteSet(C), IsFiniteSet(W), IsFiniteSet(H), x \notin W, x \notin H,
         Cardinality(C) + Cardinality(W) = Cardinality(H)
  PROVE  Cardinality(C) + Cardinality(W \cup {x}) = Cardinality(H \cup {x})
<1>1. /\ Cardinality(W \cup {x}) = Cardinality(W) + 1
      /\ Cardinality(H \cup {x}) = Cardinality(H) + 1
  BY FS_AddElement
<1>2. Cardinality(C) \in Nat /\ Cardinality(W) \in Nat /\ Cardinality(H) \in Nat
  BY FS_CardinalityType
<1> QED
  BY <1>1, <1>2

\* ... a credit takes one from those that wait, ...
LEMMA CreditBalances ==
  ASSUME NEW C, NEW W, NEW H, NEW n, NEW x \in W,
         IsFiniteSet(C), IsFiniteSet(W), n \notin C,
         Cardinality(C) + Cardinality(W) = Cardinality(H)
  PROVE  Cardinality(C \cup {n}) + Cardinality(W \ {x}) = Cardinality(H)
<1>1. /\ Cardinality(C \cup {n}) = Cardinality(C) + 1
      /\ Cardinality(W \ {x}) = Cardinality(W) - 1
  BY FS_AddElement, FS_RemoveElement
<1>2. Cardinality(C) \in Nat /\ Cardinality(W) \in Nat
  BY FS_CardinalityType
<1> QED
  BY <1>1, <1>2

\* ... and as those about to be answered wait, the credits are covered.
LEMMA CreditsCovered ==
  ASSUME NEW C, NEW W, NEW A, NEW I,
         IsFiniteSet(C), IsFiniteSet(W), IsFiniteSet(A), I \in SUBSET W,
         Cardinality(C) + Cardinality(W) = Cardinality(A \cup I)
  PROVE  Cardinality(C) <= Cardinality(A)
<1>1. IsFiniteSet(I) /\ Cardinality(I) <= Cardinality(W)
  BY FS_Subset
<1>2. Cardinality(A \cup I) <= Cardinality(A) + Cardinality(I)
  <2>1. Cardinality(A \cup I) = Cardinality(A) + Cardinality(I) - Cardinality(A \cap I)
    BY <1>1, FS_Union
  <2>2. IsFiniteSet(A \cap I)
    <3>1. A \cap I \in SUBSET I
      OBVIOUS
    <3> QED
      BY <1>1, <3>1, FS_Subset
  <2>3. Cardinality(A \cap I) \in Nat /\ Cardinality(A) \in Nat /\ Cardinality(I) \in Nat
    BY <1>1, <2>2, FS_CardinalityType
  <2> QED
    BY <2>1, <2>3
<1>3. /\ Cardinality(C) \in Nat /\ Cardinality(W) \in Nat /\ Cardinality(A) \in Nat
      /\ Cardinality(I) \in Nat /\ Cardinality(A \cup I) \in Nat
  BY <1>1, FS_CardinalityType, FS_Union
<1> QED
  BY <1>1, <1>2, <1>3

\* The sets are finite.
LEMMA ChunksFinite ==
  ASSUME OrderInv, Serving
  PROVE  /\ IsFiniteSet(Chunks) /\ IsFiniteSet(Waiting) /\ IsFiniteSet(Answered)
         /\ IsFiniteSet(Answering) /\ IsFiniteSet(Credits)
         /\ \A id : Accepted(id) => id \in 1..Len(received)
<1>1. /\ received \in Seq(Request) /\ stdout \in Seq(Line) /\ ExactlyOneReply
  BY ServingTyped DEF TypeOK, HistoryOK
<1>2. IsFiniteSet(1..Len(received)) /\ IsFiniteSet(Written)
  <2>1. Written = 1..Len(stdout) /\ Len(stdout) \in Nat
    BY <1>1 DEF Written
  <2> QED
    BY <1>1, <2>1, FS_Interval
<1>3. /\ Chunks \in SUBSET (1..Len(received)) /\ Waiting \in SUBSET Chunks
      /\ Answered \in SUBSET Chunks /\ Answering \in SUBSET Chunks
      /\ Credits \in SUBSET Written
  BY DEF Chunks, ChunksOf, Waiting, Answered, Answering, Credits, EventsNamed, OperationEvents
<1>4. IsFiniteSet(Chunks)
  BY <1>2, <1>3, FS_Subset
<1>5. \A id : Accepted(id) => id \in 1..Len(received)
  BY <1>1 DEF ExactlyOneReply, Replied, Accepted, RepliesTo
<1> QED
  BY <1>2, <1>3, <1>4, <1>5, FS_Subset
-----------------------------------------------------------------------------
(* What a step may do to a Stream. *)

\* Nothing is known of a request before it is read.
LEMMA NextReads ==
  ASSUME OrderInv, Serving, [Next]_vars
  PROVE  /\ \A id \in 1..Len(received) :
              id \in 1..Len(received') /\ received'[id] = received[id]
         /\ \A id \in 1..Len(received') : id \in 1..Len(received) \/
              (id = NewId /\ Reads(received'[id]) /\ received'[id] \in RequestLines)
         /\ IsFiniteSet(Chunks') /\ IsFiniteSet(Waiting') /\ IsFiniteSet(Answered')
         /\ IsFiniteSet(Answering') /\ IsFiniteSet(Credits')
         /\ IInv' /\ Len(received) \in Nat /\ Len(received') \in Nat
         /\ queue \subseteq 1..Len(received) /\ pending \subseteq 1..Len(received)
<1>1. TypeOK /\ Hears
  BY ServingTyped, SentKept
<1>2. \A id \in 1..Len(received') : id \in 1..Len(received) \/
              (id = NewId /\ Reads(received'[id]) /\ received'[id] \in RequestLines)
  BY <1>1, StillHeard DEF NewId
<1>3. IInv'
  BY ServingTyped, NextKeeps
<1>4. /\ received' \in Seq(Request) /\ stdout' \in Seq(Line)
  BY <1>3 DEF IInv, TypeOK, HistoryOK
<1>5. IsFiniteSet(1..Len(received')) /\ IsFiniteSet(Written')
  <2>1. Written' = 1..Len(stdout') /\ Len(stdout') \in Nat
    BY <1>4 DEF Written
  <2> QED
    BY <1>4, <2>1, FS_Interval
<1>6. /\ Chunks' \in SUBSET (1..Len(received')) /\ Waiting' \in SUBSET Chunks'
      /\ Answered' \in SUBSET Chunks' /\ Answering' \in SUBSET Chunks'
      /\ Credits' \in SUBSET Written'
  BY DEF Chunks, ChunksOf, Waiting, Answered, Answering, Credits, EventsNamed, OperationEvents
<1>7. IsFiniteSet(Chunks')
  BY <1>5, <1>6, FS_Subset
<1>8. /\ IsFiniteSet(Waiting') /\ IsFiniteSet(Answered') /\ IsFiniteSet(Answering')
      /\ IsFiniteSet(Credits')
  BY <1>5, <1>6, <1>7, FS_Subset
<1>9. Len(received) \in Nat /\ Len(received') \in Nat
  BY <1>1, StillHeard
<1> QED
  BY <1>2, <1>3, <1>7, <1>8, <1>9, SentKept, ServingTyped

\* Of the lines a step may write, these concern no Stream.
Silently ==
  /\ UNCHANGED Credits
  /\ \A id \in 1..Len(received') : received'[id].method \in StreamMethods =>
       (Accepted(id)' <=> Accepted(id))

\* A step that leaves the Stream's commands where they are.
Aside ==
  /\ UNCHANGED <<operation, queue, endQueued, applied, batch, command, Credits>>
  /\ \A place \in {"settings", "acknowledge", "command", "drain"} :
       thread' = place <=> thread = place
  /\ pending' \subseteq pending
  /\ canceled => canceled'
  /\ outcome' = outcome \/ (outcome # "none" /\ outcome' \notin {"none", "ended"})
  /\ Answering' \subseteq Answering
  /\ Answered' \cup Answering' = Answered \cup Answering
  /\ \A id \in 1..Len(received) : received[id].method \in StreamMethods =>
       /\ Responding(id) => Responding(id)' \/ Accepted(id)'
       /\ Accepted(id) => Accepted(id)'
  /\ \A id \in 1..Len(received') :
       received'[id].method = "stream_settings" /\ Accepted(id)' => Accepted(id)

\* AsideOwes: what is said of a Stream stays true.
LEMMA AsideOwes ==
  ASSUME OrderInv, Serving, StreamInv, [Next]_vars,
         kind = "stream", kind' = "stream", Aside
  PROVE  StreamInv'
<1>1. /\ Taken' = Taken /\ Coalesced' = Coalesced
  <2>1. thread # "render" /\ thread' # "render"
    BY NextReads, ServingTyped DEF IInv, Places
  <2> QED
    BY <2>1 DEF Aside, Taken, Coalesced
<1>2. /\ \A id \in 1..Len(received) : received'[id] = received[id] /\ id \in 1..Len(received')
      /\ queue \subseteq 1..Len(received) /\ pending \subseteq 1..Len(received)
      /\ Taken \subseteq 1..Len(received) /\ command \in 0..Len(received)
  BY NextReads, ServingTyped DEF TypeOK, IdsOK
<1>3. /\ \A id \in 1..Len(received) : id \in Chunks' <=> id \in Chunks
      /\ \A id \in 1..Len(received) : id \in Ends' <=> id \in Ends
      /\ Chunks \subseteq 1..Len(received) /\ Ends \subseteq 1..Len(received)
      /\ 0 \notin Chunks /\ 0 \notin Chunks'
  BY <1>2 DEF Aside, Chunks, ChunksOf, Ends
<1>4. Waiting' = Waiting
  <2>1. command \in 1..Len(received) \/ command = 0
    BY <1>2, NextReads
  <2> QED
    BY <1>2, <1>3, <2>1 DEF Aside, Waiting
<1>5. ASSUME outcome' = "none"
      PROVE  SettingsInOrder' /\ EndIsLast' /\ AnsweredFirst'
  <2>1. outcome = "none"
    BY <1>5 DEF Aside
  <2>2. QueuedSettings' = QueuedSettings
    BY <1>2 DEF Aside, QueuedSettings
  <2>3. SettingsInOrder'
    BY <1>1, <2>1, <2>2 DEF Aside, StreamInv, SettingsInOrder
  <2>4. queue \cap Ends' = queue \cap Ends /\ Taken \cap Ends' = Taken \cap Ends
    BY <1>2, <1>3
  <2>5. EndIsLast'
    BY <1>1, <2>1, <2>4 DEF Aside, StreamInv, EndIsLast
  <2>6. (queue \cup Taken) \cap (Chunks' \cup Ends') = (queue \cup Taken) \cap (Chunks \cup Ends)
    BY <1>2, <1>3
  <2>7. \A id \in (queue \cup Taken) \cap (Chunks \cup Ends) :
          received[id].method \in StreamMethods /\ id \in 1..Len(received)
    BY DEF Chunks, ChunksOf, Ends, StreamMethods
  <2>8. \A id \in (queue \cup Taken) \cap (Chunks \cup Ends) :
          Accepted(id)' \/ Responding(id)'
    BY <2>1, <2>7 DEF Aside, StreamInv, AnsweredFirst
  <2>9. (thread = "drain" => Accepted(command))'
    <3>1. thread = "drain" => /\ command \in 1..Len(received) /\ command \in Taken
                              /\ Accepted(command)
      BY <2>1, ServingTyped, CommandInDomain DEF StreamInv, AnsweredFirst, Taken
    <3>2. thread = "drain" => received[command].method \in StreamMethods
      BY <3>1 DEF Serving, TakenIsOwn, Commands, StreamMethods
    <3>3. thread = "drain" => Accepted(command)'
      BY <3>1, <3>2 DEF Aside
    <3> QED
      BY <3>3 DEF Aside, Accepted, RepliesTo
  <2>10. Answering' \subseteq Waiting'
    BY <1>4, <2>1 DEF Aside, StreamInv, AnsweredFirst
  <2>11. AnsweredFirst'
    BY <1>1, <2>6, <2>8, <2>9, <2>10 DEF Aside, AnsweredFirst
  <2> QED
    BY <2>3, <2>5, <2>11
<1>6. outcome' = "ended" /\ ~canceled' => EndedIsOver'
  BY DEF Aside, StreamInv, EndedIsOver
<1>7. Answered \subseteq Answered'
  <2>1. \A id \in Answered : id \in 1..Len(received) /\ received[id].method \in StreamMethods
    BY <1>3 DEF Answered, Chunks, ChunksOf, StreamMethods
  <2> QED
    BY <1>3, <2>1 DEF Aside, Answered
<1>8. CreditLedger'
  <2>1. Cardinality(Credits) <= Cardinality(Answered)
    BY LedgerSays DEF StreamInv
  <2>2. Cardinality(Answered) <= Cardinality(Answered')
    BY <1>7, NextReads, FS_Subset
  <2>3. /\ Cardinality(Credits) \in Nat /\ Cardinality(Answered) \in Nat
        /\ Cardinality(Answered') \in Nat
    BY ChunksFinite, NextReads, FS_CardinalityType
  <2>4. Cardinality(Credits') <= Cardinality(Answered')
    BY <2>1, <2>2, <2>3 DEF Aside
  <2>5. ~canceled' /\ outcome' = "none" =>
          Cardinality(Credits) + Cardinality(Waiting) = Cardinality(Answered \cup Answering)
    BY LedgerSays DEF StreamInv, Aside
  <2> QED
    BY <1>4, <2>4, <2>5, LedgerWillSay DEF Aside
<1>9. NewestSettingsApplied'
  <2>1. outcome' = "none" => outcome = "none"
    BY DEF Aside
  <2>2. \A id \in 1..Len(received') :
          received'[id].method = "stream_settings" /\ Accepted(id)' =>
            Accepted(id) /\ id \in 1..Len(received) /\ received'[id] = received[id]
    BY <1>2, ChunksFinite DEF Aside
  <2> QED
    BY <2>1, <2>2 DEF Aside, StreamInv, NewestSettingsApplied
<1>10. DrainedStreamIsComplete'
  <2> SUFFICES ASSUME outcome' = "ended", ~canceled'
               PROVE  DrainedStreamIsComplete'
    BY DEF DrainedStreamIsComplete
  <2>1. outcome = "ended" /\ ~canceled /\ EndedIsOver
    BY DEF Aside, StreamInv
  <2>2. /\ queue = {} /\ pending = {} /\ Cardinality(Credits) = Cardinality(Answered)
        /\ \E id \in 1..Len(received) :
             received[id].method = "stream_end" /\ received[id].operation = operation
               /\ Accepted(id)
    BY <2>1 DEF StreamInv, DrainedStreamIsComplete, Credits, Answered, Chunks
  <2>3. \E id \in 1..Len(received') :
             received'[id].method = "stream_end" /\ received'[id].operation = operation
               /\ Accepted(id)'
    BY <1>2, <2>2 DEF Aside, StreamMethods
  <2>4. Answered' = Answered
    BY <2>1 DEF Aside, EndedIsOver
  <2>5. Cardinality(Credits') = Cardinality(Answered')
    BY <2>2, <2>4 DEF Aside
  <2>6. queue' = {} /\ pending' = {} /\ operation' = operation
    BY <2>2 DEF Aside
  <2> QED
    BY <2>3, <2>5, <2>6 DEF DrainedStreamIsComplete, Credits, Answered, Chunks
<1> QED
  BY <1>5, <1>6, <1>8, <1>9, <1>10 DEF StreamInv

\* PushOwes: a request that is accepted joins the queue, at its end.
LEMMA PushOwes ==
  ASSUME OrderInv, Serving, StreamInv, [Next]_vars,
         NEW r \in RequestLines, StreamChunk(r) \/ StreamSettings(r) \/ StreamEnd(r)
  PROVE  kind = "stream" /\ UNCHANGED kind /\ StreamInv'
<1> USE DEF backendVars, localVars
<1>1. /\ Reads(r) /\ r.method \in StreamMethods /\ StreamRefusal(r) = "ok"
      /\ queue' = queue \cup {NewId}
      /\ UNCHANGED <<stdout, operation, kind, canceled, outcome, applied, batch, command>>
      /\ thread' = thread \/ (thread = "asleep" /\ thread' = "check")
  BY DEF StreamChunk, StreamSettings, StreamEnd, StreamMethods, Push, Notify
<1>2. /\ r.method = "stream_end" => endQueued'
      /\ r.method = "stream_settings" => pending' = pending \cup {NewId} /\ pc' = pc
      /\ r.method # "stream_settings" => UNCHANGED pending /\ pc' = "respond"
  BY DEF StreamChunk, StreamSettings, StreamEnd
<1>3. kind = "stream" /\ r.operation = operation /\ ~endQueued
  BY <1>1, StreamAccepted DEF StreamRefusal
<1>4. /\ received'[NewId] = r /\ NewId \notin 1..Len(received) /\ Len(received') = NewId
      /\ 1..Len(received') = 1..Len(received) \cup {NewId} /\ NewId # 0
      /\ \A id \in 1..Len(received) : received'[id] = received[id] /\ id < NewId
      /\ Taken \subseteq 1..Len(received) /\ Coalesced \subseteq 1..Len(received)
      /\ queue \subseteq 1..Len(received) /\ pending \subseteq 1..Len(received)
      /\ batch \subseteq 1..Len(received)
      /\ command \in 0..Len(received) /\ applied \in 0..Len(received)
      /\ Len(received) \in Nat /\ applied < NewId
  <2>1. /\ received'[NewId] = r /\ NewId \notin 1..Len(received)
        /\ 1..Len(received') = 1..Len(received) \cup {NewId}
        /\ \A id \in 1..Len(received) : received'[id] = received[id]
        /\ Len(received) \in Nat /\ Len(received') = NewId
    BY <1>1, ServingTyped, JustRead, ReadTyped, ReadIds
  <2>2. command \in 0..Len(received) /\ applied \in 0..Len(received)
    BY ServingTyped DEF TypeOK, IdsOK
  <2> QED
    BY <2>1, <2>2, ServingTyped DEF NewId
<1>5. /\ Taken' = Taken /\ Coalesced' = Coalesced
      /\ \A place \in {"settings", "acknowledge", "command", "drain"} :
            thread' = place <=> thread = place
  <2>1. thread # "render"
    BY <1>3, ServingTyped DEF IInv, Places
  <2> QED
    BY <1>1, <2>1 DEF Taken, Coalesced
<1>6. /\ pc = "ready" /\ InHand = {} /\ \A id : ~Responding(id)
  BY <1>1 DEF Reads, InHand, Responding
<1>7. /\ Credits' = Credits /\ \A id : Accepted(id)' <=> Accepted(id)
      /\ ~Accepted(NewId)
  BY <1>1, <1>4, NothingAppended, ChunksFinite DEF Credits
<1> DEFINE new == IF r.method = "stream_chunk" THEN {NewId} ELSE {}
<1>8. /\ Chunks' = Chunks \cup new /\ Chunks \subseteq 1..Len(received)
      /\ Ends' = Ends \cup IF r.method = "stream_end" THEN {NewId} ELSE {}
      /\ QueuedSettings' = QueuedSettings \cup IF r.method = "stream_settings" THEN {NewId} ELSE {}
      /\ Ends \subseteq 1..Len(received) /\ QueuedSettings \subseteq queue
  BY <1>1, <1>3, <1>4 DEF Chunks, ChunksOf, Ends, QueuedSettings
<1>9. /\ Answering = {} /\ Answering' = new /\ Answered' = Answered
  <2>1. InHand' = IF r.method = "stream_settings" THEN {} ELSE {NewId}
    BY <1>2, <1>4, <1>6 DEF InHand
  <2> QED
    BY <1>6, <1>7, <1>8, <1>4, <2>1 DEF Answering, Answered
<1>10. Waiting' = Waiting \cup new /\ NewId \notin Waiting /\ NewId \notin Answered
  <2>1. command \in 1..Len(received) \/ command = 0
    BY <1>4
  <2>2. new \subseteq {NewId} /\ 0 \notin Chunks
    BY <1>8
  <2> HIDE DEF new
  <2> QED
    BY <1>1, <1>4, <1>5, <1>8, <2>1, <2>2 DEF Waiting, Answered
<1>11. ASSUME outcome = "none"
       PROVE  SettingsInOrder' /\ EndIsLast' /\ AnsweredFirst'
  <2>1. SettingsInOrder /\ EndIsLast /\ AnsweredFirst
    BY <1>3, <1>11 DEF StreamInv
  <2>2. SettingsInOrder'
    <3>1. \A id \in QueuedSettings' : applied < id /\ \A b \in Coalesced : b < id
      BY <1>4, <1>8, <2>1 DEF SettingsInOrder
    <3>2. pending' \subseteq QueuedSettings' \cup Coalesced
      BY <1>1, <1>2, <1>8, <2>1 DEF SettingsInOrder, StreamMethods
    <3> QED
      BY <1>1, <1>5, <2>1, <3>1, <3>2 DEF SettingsInOrder
  <2>3. EndIsLast'
    <3>1. queue \cap Ends = {} /\ Taken \cap Ends = {}
      BY <1>3, <2>1 DEF EndIsLast
    <3>2. Taken' \cap Ends' = {}
      BY <1>4, <1>5, <1>8, <3>1
    <3>3. queue' \cap Ends' = IF r.method = "stream_end" THEN {NewId} ELSE {}
      BY <1>1, <1>4, <1>8, <3>1
    <3>4. \A other \in queue' : other <= NewId
      BY <1>1, <1>4
    <3> QED
      BY <1>2, <3>2, <3>3, <3>4 DEF EndIsLast
  <2>4. AnsweredFirst'
    <3>1. \A id \in (queue \cup Taken) \cap (Chunks \cup Ends) : Accepted(id)
      BY <1>6, <2>1 DEF AnsweredFirst
    <3>2. \A id : r.method # "stream_settings" /\ id = NewId => Responding(id)'
      BY <1>2, <1>4 DEF Responding
    <3>3. (queue' \cup Taken') \cap (Chunks' \cup Ends')
            = ((queue \cup Taken) \cap (Chunks \cup Ends))
                \cup IF r.method = "stream_settings" THEN {} ELSE {NewId}
      BY <1>1, <1>4, <1>5, <1>8 DEF StreamMethods
    <3>4. \A id \in (queue' \cup Taken') \cap (Chunks' \cup Ends') : Accepted(id)' \/ Responding(id)'
      <4> HIDE DEF new
      <4> QED
        BY <1>7, <3>1, <3>2, <3>3
    <3>5. (thread = "drain" => Accepted(command))'
      <4>1. thread = "drain" => Accepted(command)
        BY <2>1 DEF AnsweredFirst
      <4> QED
        BY <1>1, <1>5, <4>1 DEF Accepted, RepliesTo, Replies, Written
    <3>6. Answering' \subseteq Waiting'
      BY <1>9, <1>10
    <3> QED
      BY <3>4, <3>5, <3>6 DEF AnsweredFirst
  <2> QED
    BY <2>2, <2>3, <2>4
<1>12. ~(outcome = "ended" /\ ~canceled)
  BY <1>3 DEF StreamInv, EndedIsOver
<1>13. CreditLedger'
  <2>1. /\ Cardinality(Credits) <= Cardinality(Answered)
        /\ ~canceled /\ outcome = "none" =>
             Cardinality(Credits) + Cardinality(Waiting) = Cardinality(Answered \cup Answering)
    BY <1>3, LedgerSays DEF StreamInv
  <2>2. ASSUME ~canceled, outcome = "none"
        PROVE  Cardinality(Credits) + Cardinality(Waiting \cup new) = Cardinality(Answered \cup new)
    <3>1. Cardinality(Credits) + Cardinality(Waiting) = Cardinality(Answered)
      BY <1>9, <2>1, <2>2
    <3>2. CASE new = {}
      BY <3>1, <3>2
    <3>3. CASE new = {NewId}
      BY <1>10, <3>1, <3>3, ChunkBalances, ChunksFinite
    <3> QED
      BY <3>2, <3>3
  <2> HIDE DEF new
  <2> QED
    BY <1>1, <1>3, <1>7, <1>9, <1>10, <2>1, <2>2, LedgerWillSay
<1>14. NewestSettingsApplied'
  <2>1. \A id \in 1..Len(received') : Accepted(id)' => Accepted(id) /\ id \in 1..Len(received)
    BY <1>4, <1>7
  <2> QED
    BY <1>1, <1>3, <1>4, <2>1 DEF StreamInv, NewestSettingsApplied
<1>15. DrainedStreamIsComplete'
  BY <1>1, <1>12 DEF DrainedStreamIsComplete
<1> QED
  BY <1>1, <1>3, <1>11, <1>12, <1>13, <1>14, <1>15 DEF StreamInv

\* What a step that reads and says nothing leaves alone.
LEMMA StillSaid ==
  ASSUME UNCHANGED <<received, stdout, operation, pc>>
  PROVE  /\ Chunks' = Chunks /\ Ends' = Ends /\ Credits' = Credits
         /\ Answered' = Answered /\ Answering' = Answering
         /\ \A id : Accepted(id)' <=> Accepted(id)
         /\ \A id : Responding(id)' <=> Responding(id)
<1>1. /\ Chunks' = Chunks /\ Ends' = Ends /\ Answering' = Answering
      /\ \A id : Responding(id)' <=> Responding(id)
  BY DEF Chunks, ChunksOf, Ends, Answering, InHand, Responding
<1>2. Credits' = Credits /\ \A id : Accepted(id)' <=> Accepted(id)
  BY NothingAppended DEF Credits
<1> QED
  BY <1>1, <1>2 DEF Answered

\* LeaveOwes: a Stream that is canceled or fails owes nothing more.
LEMMA LeaveOwes ==
  ASSUME OrderInv, Serving, StreamInv,
         UNCHANGED <<received, stdout, operation, pc, kind>>,
         outcome' \notin {"none", "ended"}
  PROVE  StreamInv'
<1>1. kind = "stream" => CreditLedger'
  BY StillSaid, LedgerSays, LedgerWillSay DEF StreamInv
<1> QED
  BY <1>1 DEF StreamInv, NewestSettingsApplied, DrainedStreamIsComplete

\* TakeOwes: the thread takes all the settings and the first command.
LEMMA TakeOwes ==
  ASSUME OrderInv, Serving, StreamInv, StreamTake
  PROVE  StreamInv'
<1> USE DEF mainVars, backendVars
<1>1. /\ kind = "stream" /\ thread = "check"
      /\ UNCHANGED <<received, stdout, operation, pc, kind, canceled, pending, endQueued,
                     applied, outcome>>
      /\ batch' = QueuedSettings
      /\ thread' = IF QueuedSettings # {} THEN "settings" ELSE "command"
  BY DEF StreamTake
<1>2. /\ Chunks' = Chunks /\ Ends' = Ends /\ Credits' = Credits
      /\ Answered' = Answered /\ Answering' = Answering
      /\ \A id : Accepted(id)' <=> Accepted(id)
      /\ \A id : Responding(id)' <=> Responding(id)
  BY <1>1, StillSaid
<1>3. /\ outcome = "none" /\ Taken = {} /\ Coalesced = {}
      /\ Waiting = Chunks \cap queue
  BY <1>1 DEF Serving, TakenIsOwn, Ending, Taken, Coalesced, Waiting
<1>4. /\ SettingsInOrder /\ EndIsLast /\ AnsweredFirst /\ CreditLedger
      /\ NewestSettingsApplied
  BY <1>1, <1>3 DEF StreamInv
<1>5. /\ queue \subseteq 1..Len(received) /\ Len(received) \in Nat
      /\ QueuedSettings \subseteq queue /\ QueuedSettings \cap (Chunks \cup Ends) = {}
  BY ServingTyped DEF QueuedSettings, Chunks, ChunksOf, Ends
<1>6. /\ Taken' = {command'} \ {0} /\ Coalesced' = QueuedSettings
      /\ QueuedSettings' = {}
      /\ queue' \cup Taken' = queue \ QueuedSettings
      /\ command' \notin queue' /\ command' \in 0..Len(received)
      /\ command' \in Ends => queue' = {} /\ endQueued
  <2>1. /\ Taken' = {command'} \ {0} /\ Coalesced' = QueuedSettings
    BY <1>1 DEF Taken, Coalesced
  <2>2. CASE command' = 0 /\ queue' = {} /\ queue \ QueuedSettings = {}
    BY <1>5, <2>1, <2>2 DEF QueuedSettings, Ends
  <2>3. ASSUME NEW id \in queue \ QueuedSettings,
               \A other \in queue \ QueuedSettings : id <= other,
               command' = id, queue' = (queue \ QueuedSettings) \ {id}
        PROVE  <1>6
    <3>1. QueuedSettings' = {} /\ id \in 1..Len(received) /\ id # 0
      BY <1>1, <1>5, <2>3 DEF QueuedSettings
    <3>2. id \in Ends => queue' = {} /\ endQueued
      <4>1. id \in Ends => endQueued /\ \A other \in queue : other <= id
        BY <1>4, <2>3 DEF EndIsLast
      <4>2. id \in Ends => \A other \in queue \ QueuedSettings : other = id
        BY <1>5, <2>3, <4>1
      <4> QED
        BY <2>3, <4>1, <4>2
    <3> QED
      BY <2>1, <2>3, <3>1, <3>2
  <2>4. \/ command' = 0 /\ queue' = {} /\ queue \ QueuedSettings = {}
        \/ \E id \in queue \ QueuedSettings :
              /\ \A other \in queue \ QueuedSettings : id <= other
              /\ command' = id /\ queue' = (queue \ QueuedSettings) \ {id}
    BY DEF StreamTake, Pop, IsLeast
  <2> QED
    BY <2>2, <2>3, <2>4
<1>7. Waiting' = Waiting
  <2>1. Waiting' = Chunks \cap (queue' \cup {command'})
    BY <1>1, <1>2 DEF Waiting
  <2>2. 0 \notin Chunks
    BY <1>5 DEF Chunks, ChunksOf
  <2> QED
    BY <1>3, <1>5, <1>6, <2>1, <2>2
<1>8. SettingsInOrder'
  <2>1. \A b \in QueuedSettings : applied < b
    BY <1>4 DEF SettingsInOrder
  <2>2. pending \subseteq QueuedSettings
    BY <1>3, <1>4 DEF SettingsInOrder
  <2> QED
    BY <1>1, <1>6, <2>1, <2>2 DEF SettingsInOrder
<1>9. EndIsLast'
  <2>1. \A id \in queue' \cap Ends : endQueued /\ \A other \in queue' : other <= id
    BY <1>4, <1>6 DEF EndIsLast
  <2>2. Taken' \cap Ends # {} => endQueued /\ queue' = {}
    BY <1>6
  <2> QED
    BY <1>1, <1>2, <2>1, <2>2 DEF EndIsLast
<1>10. AnsweredFirst'
  <2>1. \A id \in (queue' \cup Taken') \cap (Chunks \cup Ends) : Accepted(id)' \/ Responding(id)'
    BY <1>2, <1>4, <1>6 DEF AnsweredFirst
  <2>2. Answering' \subseteq Waiting'
    BY <1>2, <1>4, <1>7 DEF AnsweredFirst
  <2>3. thread' # "drain"
    BY <1>1
  <2> QED
    BY <1>2, <2>1, <2>2, <2>3 DEF AnsweredFirst
<1>11. CreditLedger'
  BY <1>1, <1>2, <1>4, <1>7, LedgerSays, LedgerWillSay
<1>12. NewestSettingsApplied'
  BY <1>1, <1>2, <1>4 DEF NewestSettingsApplied
<1> QED
  BY <1>1, <1>3, <1>8, <1>9, <1>10, <1>11, <1>12 DEF StreamInv, DrainedStreamIsComplete

\* ConfigureOwes: the newest settings are applied.
LEMMA ConfigureOwes ==
  ASSUME OrderInv, Serving, StreamInv, StreamConfigure
  PROVE  StreamInv'
<1> USE DEF mainVars, sharedVars, localVars
<1>1. /\ thread = "settings" /\ thread' = "acknowledge"
      /\ UNCHANGED <<received, stdout, operation, pc, kind, canceled, pending, endQueued,
                     queue, outcome, command, batch>>
      /\ applied' \in batch /\ \A other \in batch : other <= applied'
  BY DEF StreamConfigure, IsGreatest
<1>2. /\ Chunks' = Chunks /\ Ends' = Ends /\ Credits' = Credits
      /\ Answered' = Answered /\ Answering' = Answering
      /\ \A id : Accepted(id)' <=> Accepted(id)
      /\ \A id : Responding(id)' <=> Responding(id)
  BY <1>1, StillSaid
<1>3. /\ kind = "stream" /\ outcome = "none"
      /\ Taken' = Taken /\ Coalesced' = Coalesced /\ Coalesced = batch
      /\ Waiting' = Waiting /\ QueuedSettings' = QueuedSettings
  BY <1>1, <1>2, ServingTyped
     DEF IInv, Places, Serving, TakenIsOwn, Ending, Taken, Coalesced, Waiting, QueuedSettings
<1>4. /\ SettingsInOrder /\ EndIsLast /\ AnsweredFirst /\ CreditLedger
      /\ NewestSettingsApplied
  BY <1>3 DEF StreamInv
<1>5. /\ applied < applied' /\ batch \subseteq 1..Len(received) /\ Len(received) \in Nat
      /\ applied \in 0..Len(received)
  BY <1>1, <1>4, ServingTyped DEF SettingsInOrder, TypeOK, IdsOK
<1>6. SettingsInOrder'
  <2>1. \A id \in QueuedSettings : applied' < id /\ \A b \in batch : b < id
    BY <1>1, <1>3, <1>4 DEF SettingsInOrder
  <2> QED
    BY <1>1, <1>3, <1>4, <2>1 DEF SettingsInOrder
<1>7. EndIsLast' /\ AnsweredFirst'
  BY <1>1, <1>2, <1>3, <1>4 DEF EndIsLast, AnsweredFirst
<1>8. CreditLedger'
  BY <1>1, <1>2, <1>3, <1>4, LedgerSays, LedgerWillSay
<1>9. NewestSettingsApplied'
  <2>1. \A id \in 1..Len(received) : id <= applied => id <= applied'
    BY <1>1, <1>5
  <2> QED
    BY <1>1, <1>2, <1>3, <1>4, <2>1 DEF NewestSettingsApplied
<1> QED
  BY <1>1, <1>3, <1>6, <1>7, <1>8, <1>9 DEF StreamInv, DrainedStreamIsComplete

\* AcknowledgeOwes: the settings taken are answered, oldest first.
LEMMA AcknowledgeOwes ==
  ASSUME OrderInv, Serving, StreamInv, [Next]_vars, StreamAcknowledge
  PROVE  StreamInv'
<1> USE DEF mainVars, backendVars
<1>1. PICK x \in batch :
        /\ Emit(ReplyLine(x, "ok", 0)) /\ batch' = batch \ {x} /\ pending' = pending \ {x}
  BY DEF StreamAcknowledge, Retire
<1>2. /\ thread = "acknowledge"
      /\ thread' = IF batch' # {} THEN "acknowledge"
                   ELSE IF command = 0 THEN "check" ELSE "command"
      /\ UNCHANGED <<received, operation, pc, kind, canceled, endQueued,
                     queue, outcome, command, applied>>
  BY DEF StreamAcknowledge
<1>3. /\ kind = "stream" /\ outcome = "none" /\ Coalesced = batch
      /\ x \in 1..Len(received) /\ received[x].method = "stream_settings" /\ command # x
  <2>1. kind = "stream" /\ received[x].method = "stream_settings" /\ x \in 1..Len(received)
    BY <1>1, <1>2, ServingTyped DEF IInv, Places, Ownership, BatchOwned
  <2>2. command # 0 => received[command].method \in Commands
    BY <1>2 DEF Serving, TakenIsOwn, Taken
  <2>3. outcome = "none"
    BY <1>2 DEF Serving, TakenIsOwn, Ending
  <2> QED
    BY <1>2, <2>1, <2>2, <2>3 DEF Commands, Coalesced
<1>4. /\ Credits' = Credits /\ \A id : Accepted(id)' <=> Accepted(id) \/ id = x
  BY <1>1, <1>2, ServingTyped, ReplyAppended DEF Credits
<1>5. /\ Chunks' = Chunks /\ Ends' = Ends /\ Answering' = Answering
      /\ \A id : Responding(id)' <=> Responding(id)
      /\ Taken' = Taken /\ Coalesced' = batch' /\ QueuedSettings' = QueuedSettings
  BY <1>2 DEF Chunks, ChunksOf, Ends, Answering, InHand, Responding, Taken, Coalesced,
       QueuedSettings
<1>6. Answered' = Answered /\ Waiting' = Waiting
  <2>1. x \notin Chunks /\ 0 \notin Chunks
    BY <1>3 DEF Chunks, ChunksOf
  <2> QED
    BY <1>2, <1>4, <1>5, <2>1 DEF Answered, Waiting
<1>7. /\ SettingsInOrder /\ EndIsLast /\ AnsweredFirst /\ CreditLedger
      /\ NewestSettingsApplied
  BY <1>3 DEF StreamInv
<1>8. SettingsInOrder'
  <2>1. batch' \subseteq batch /\ pending' \subseteq QueuedSettings \cup batch'
    BY <1>1, <1>3, <1>7 DEF SettingsInOrder
  <2>2. thread' # "settings"
    BY <1>2
  <2> QED
    BY <1>2, <1>3, <1>5, <1>7, <2>1, <2>2 DEF SettingsInOrder
<1>9. EndIsLast'
  BY <1>2, <1>5, <1>7 DEF EndIsLast
<1>10. AnsweredFirst'
  <2>1. thread' # "drain"
    BY <1>2
  <2> QED
    BY <1>2, <1>4, <1>5, <1>6, <1>7, <2>1 DEF AnsweredFirst
<1>11. CreditLedger'
  BY <1>2, <1>3, <1>4, <1>5, <1>6, <1>7, LedgerSays, LedgerWillSay
<1>12. NewestSettingsApplied'
  <2>1. x <= applied
    BY <1>1, <1>2, <1>7 DEF SettingsInOrder
  <2> QED
    BY <1>2, <1>3, <1>4, <1>7, <2>1 DEF NewestSettingsApplied
<1> QED
  BY <1>2, <1>3, <1>8, <1>9, <1>10, <1>11, <1>12 DEF StreamInv, DrainedStreamIsComplete

\* ServeOwes: a chunk is credited as it is handed to the backend.
LEMMA ServeOwes ==
  ASSUME OrderInv, Serving, StreamInv, [Next]_vars, StreamServe
  PROVE  StreamInv'
<1> USE DEF mainVars, backendVars, sharedVars
<1>1. /\ kind = "stream" /\ thread = "command" /\ thread' = "drain" /\ ~Responding(command)
      /\ UNCHANGED <<received, operation, pc, kind, canceled, endQueued, pending,
                     queue, outcome, command, applied, batch>>
      /\ \/ received[command].method = "stream_chunk" /\ Emit(EventLine("stream_credit", 0, 0))
         \/ received[command].method = "stream_end" /\ UNCHANGED stdout
  BY DEF StreamServe
<1>2. /\ command \in 1..Len(received) /\ command \in Taken /\ command \notin queue
      /\ received[command].operation = operation
      /\ outcome = "none" /\ Coalesced = {} /\ Coalesced' = {} /\ Taken' = Taken
  BY <1>1, ServingTyped, CommandInDomain DEF Taken, Serving, TakenIsOwn, Ending, Coalesced
<1>3. /\ Chunks' = Chunks /\ Ends' = Ends /\ Answering' = Answering
      /\ \A id : Responding(id)' <=> Responding(id)
      /\ QueuedSettings' = QueuedSettings
      /\ Waiting = Chunks \cap (queue \cup {command}) /\ Waiting' = Chunks \cap queue
  BY <1>1 DEF Chunks, ChunksOf, Ends, Answering, InHand, Responding, QueuedSettings, Waiting
<1>4. /\ \A id : Accepted(id)' <=> Accepted(id)
      /\ \/ /\ received[command].method = "stream_chunk"
            /\ \E n : n \notin Credits /\ Credits' = Credits \cup {n}
         \/ received[command].method = "stream_end" /\ Credits' = Credits
  <2>1. CASE received[command].method = "stream_end" /\ UNCHANGED stdout
    BY <1>1, <2>1, NothingAppended DEF Credits
  <2>2. CASE /\ received[command].method = "stream_chunk"
             /\ Emit(EventLine("stream_credit", 0, 0))
    <3>1. /\ Len(stdout) + 1 \notin Written
          /\ \A id : Accepted(id)' <=> Accepted(id)
          /\ Credits' = Credits \cup {Len(stdout) + 1}
      BY <1>1, <2>2, ServingTyped, EventAppended DEF Credits
    <3>2. Len(stdout) + 1 \notin Credits
      BY <3>1 DEF Credits, EventsNamed, OperationEvents
    <3> QED
      BY <1>1, <2>2, <3>1, <3>2, NothingAppended DEF Credits
  <2> QED
    BY <1>1, <2>1, <2>2
<1>5. Answered' = Answered
  BY <1>3, <1>4 DEF Answered
<1>6. /\ SettingsInOrder /\ EndIsLast /\ AnsweredFirst /\ CreditLedger
      /\ NewestSettingsApplied
  BY <1>1, <1>2 DEF StreamInv
<1>7. SettingsInOrder'
  BY <1>1, <1>2, <1>3, <1>6 DEF SettingsInOrder
<1>8. EndIsLast'
  BY <1>1, <1>2, <1>3, <1>6 DEF EndIsLast
<1>9. Answering \subseteq Chunks \cap queue
  <2>1. command \notin InHand
    <3>1. pc # "displace"
      BY <1>1 DEF Serving, TakenIsOwn
    <3>2. pc = "join" => received[Len(received)].method = "shutdown"
      BY ServingTyped DEF Standing, InTheHands
    <3> QED
      BY <1>1, <3>1, <3>2 DEF InHand, Responding
  <2> QED
    BY <1>3, <1>6, <2>1 DEF AnsweredFirst, Answering
<1>10. AnsweredFirst'
  <2>1. command \in Chunks \cup Ends
    BY <1>1, <1>2 DEF Chunks, ChunksOf, Ends
  <2>2. Accepted(command)
    BY <1>1, <1>2, <1>6, <2>1 DEF AnsweredFirst
  <2>3. (thread = "drain" => Accepted(command))'
    BY <1>1, <2>2, <1>4 DEF Accepted, RepliesTo
  <2> QED
    BY <1>1, <1>2, <1>3, <1>4, <1>6, <1>9, <2>3 DEF AnsweredFirst
<1>11. CreditLedger'
  <2>1. Cardinality(Credits) <= Cardinality(Answered)
        /\ (~canceled => Cardinality(Credits) + Cardinality(Waiting) = Cardinality(Answered \cup Answering))
    BY <1>1, <1>2, <1>6, LedgerSays
  <2>2. ~canceled
    BY DEF StreamServe
  <2>3. Cardinality(Credits') + Cardinality(Waiting') = Cardinality(Answered \cup Answering)
    <3>1. CASE received[command].method = "stream_end"
      <4>1. command \notin Chunks
        BY <3>1 DEF Chunks, ChunksOf
      <4> QED
        BY <1>3, <1>4, <2>1, <2>2, <3>1, <4>1
    <3>2. ASSUME NEW n, n \notin Credits, Credits' = Credits \cup {n},
                 received[command].method = "stream_chunk"
          PROVE  Cardinality(Credits') + Cardinality(Waiting') = Cardinality(Answered \cup Answering)
      <4>1. command \in Waiting
        BY <1>2, <1>3, <3>2 DEF Chunks, ChunksOf
      <4>2. Waiting' = Waiting \ {command}
        BY <1>2, <1>3
      <4>3. Cardinality(Credits \cup {n}) + Cardinality(Waiting \ {command}) = Cardinality(Answered \cup Answering)
        BY <2>1, <2>2, <3>2, <4>1, ChunksFinite, CreditBalances
      <4> QED
        BY <3>2, <4>2, <4>3
    <3> QED
      BY <1>4, <3>1, <3>2
  <2>4. Cardinality(Credits') <= Cardinality(Answered)
    <3>1. IsFiniteSet(Credits') /\ IsFiniteSet(Waiting')
      BY NextReads
    <3>2. IsFiniteSet(Answered)
      BY ChunksFinite
    <3>3. Answering \in SUBSET (Waiting')
      BY <1>3, <1>9
    <3>4. PICK C, W : C = Credits' /\ W = Waiting'
      OBVIOUS
    <3> DEFINE A == Answered
               I == Answering
    <3>5. /\ IsFiniteSet(C) /\ IsFiniteSet(W) /\ IsFiniteSet(A) /\ I \in SUBSET W
          /\ Cardinality(C) + Cardinality(W) = Cardinality(A \cup I)
      BY <2>3, <3>1, <3>2, <3>3, <3>4
    <3> HIDE DEF A, I
    <3>6. Cardinality(C) <= Cardinality(A)
      BY <3>5, CreditsCovered
    <3> QED
      BY <3>4, <3>6 DEF A
  <2> QED
    BY <1>1, <1>3, <1>5, <2>3, <2>4, LedgerWillSay
<1>12. NewestSettingsApplied'
  BY <1>1, <1>2, <1>4, <1>6 DEF NewestSettingsApplied
<1> QED
  BY <1>1, <1>2, <1>7, <1>8, <1>10, <1>11, <1>12 DEF StreamInv, DrainedStreamIsComplete

\* DrainedOwes: a Stream ends when its end was handed over and drained.
LEMMA DrainedOwes ==
  ASSUME OrderInv, Serving, StreamInv, StreamDrained
  PROVE  StreamInv'
<1> USE DEF mainVars, backendVars, sharedVars
<1>1. /\ thread = "drain"
      /\ UNCHANGED <<received, stdout, operation, pc, kind, canceled, endQueued, pending,
                     queue, command, applied, batch>>
      /\ \/ thread' = "check" /\ UNCHANGED outcome
         \/ /\ received[command].method = "stream_end" /\ ~canceled
            /\ thread' = "commit" /\ outcome' = "ended"
  BY DEF StreamDrained
<1>2. /\ kind = "stream" /\ command \in 1..Len(received) /\ command \in Taken
      /\ received[command].operation = operation
      /\ outcome = "none" /\ Coalesced = {} /\ Coalesced' = {} /\ Taken' = {}
  BY <1>1, ServingTyped, CommandInDomain
     DEF IInv, Places, Taken, Serving, TakenIsOwn, Ending, Coalesced
<1>3. /\ Chunks' = Chunks /\ Ends' = Ends /\ Credits' = Credits
      /\ Answered' = Answered /\ Answering' = Answering
      /\ \A id : Accepted(id)' <=> Accepted(id)
      /\ \A id : Responding(id)' <=> Responding(id)
      /\ QueuedSettings' = QueuedSettings
  BY <1>1, StillSaid DEF QueuedSettings
<1>4. /\ SettingsInOrder /\ EndIsLast /\ AnsweredFirst /\ CreditLedger
      /\ NewestSettingsApplied
  BY <1>2 DEF StreamInv
<1>5. Waiting = Chunks \cap queue /\ Waiting' = Waiting
  BY <1>1, <1>3 DEF Waiting
<1>6. /\ Cardinality(Credits) <= Cardinality(Answered)
      /\ ~canceled => Cardinality(Credits) + Cardinality(Waiting) = Cardinality(Answered \cup Answering)
  BY <1>2, <1>4, LedgerSays
<1>7. CreditLedger'
  BY <1>1, <1>2, <1>3, <1>5, <1>6, LedgerWillSay
<1>8. SettingsInOrder' /\ EndIsLast' /\ AnsweredFirst'
  <2>1. SettingsInOrder'
    BY <1>1, <1>2, <1>3, <1>4 DEF SettingsInOrder
  <2>2. EndIsLast'
    BY <1>1, <1>2, <1>3, <1>4 DEF EndIsLast
  <2>3. AnsweredFirst'
    BY <1>1, <1>2, <1>3, <1>4, <1>5 DEF AnsweredFirst
  <2> QED
    BY <2>1, <2>2, <2>3
<1>9. NewestSettingsApplied'
  BY <1>1, <1>2, <1>3, <1>4 DEF NewestSettingsApplied
<1>10. ASSUME outcome' = "ended"
       PROVE  EndedIsOver' /\ DrainedStreamIsComplete'
  <2>1. received[command].method = "stream_end" /\ ~canceled
    BY <1>1, <1>2, <1>10
  <2>2. endQueued /\ queue = {}
    BY <1>2, <1>4, <2>1 DEF EndIsLast, Ends
  <2>3. Waiting = {} /\ Answering = {}
    BY <1>4, <1>5, <2>2 DEF AnsweredFirst
  <2>4. pending = {}
    BY <1>2, <1>4, <2>2 DEF SettingsInOrder, QueuedSettings
  <2>5. Cardinality(Credits) = Cardinality(Answered)
    <3>1. Cardinality(Waiting) = 0 /\ Answered \cup Answering = Answered
      BY <2>3, FS_EmptySet
    <3>2. Cardinality(Credits) + 0 = Cardinality(Answered)
      BY <1>6, <2>1, <3>1
    <3>3. Cardinality(Credits) \in Nat
      BY ChunksFinite, FS_CardinalityType
    <3> QED
      BY <3>2, <3>3
  <2>6. Accepted(command)
    BY <1>1, <1>4 DEF AnsweredFirst
  <2>7. \E id \in 1..Len(received') :
          received'[id].method = "stream_end" /\ received'[id].operation = operation'
            /\ Accepted(id)'
    BY <1>1, <1>2, <1>3, <2>1, <2>6
  <2>8. Cardinality(Credits') = Cardinality(Answered')
    BY <1>3, <2>5
  <2> QED
    BY <1>1, <1>3, <2>2, <2>3, <2>4, <2>7, <2>8
       DEF EndedIsOver, DrainedStreamIsComplete, Credits, Answered, Chunks
<1> QED
  BY <1>7, <1>8, <1>9, <1>10 DEF StreamInv, DrainedStreamIsComplete

\* StartOwes: a Stream that starts owes nothing yet.
LEMMA StartOwes ==
  ASSUME OrderInv, Serving, [Next]_vars,
         NEW r \in RequestLines, StartOperation(r)
  PROVE  StreamInv'
<1> USE DEF backendVars, localVars, sharedVars
<1>1. /\ Reads(r) /\ r.method \in StartMethods /\ operation = 0
      /\ r.operation = operations + 1 /\ operation' = r.operation
      /\ thread' = "gate" /\ pc' = "respond"
      /\ UNCHANGED <<stdout, outcome, queue, pending>>
  BY DEF StartOperation, Reads, Busy
<1>2. queue = {} /\ pending = {} /\ thread \in {"none", "exited"}
  BY <1>1, ServingTyped DEF IInv, IdleIsReleased
<1>3. outcome = "none"
  BY <1>2 DEF Serving, TakenIsOwn, Ending
<1>4. /\ received'[NewId] = r /\ 1..Len(received') = 1..Len(received) \cup {NewId}
      /\ \A id \in 1..Len(received) : received'[id] = received[id]
      /\ operations \in Nat
  BY <1>1, ServingTyped, JustRead, ReadTyped, ReadIds DEF TypeOK, CountersOK
<1>5. \A id \in 1..Len(received') :
        received'[id].operation = operation' => received'[id].method \in StartMethods
  <2>1. \A id \in 1..Len(received) : received[id].operation \in Nat
    BY ServingTyped, CommandTyped
  <2>2. \A id \in 1..Len(received) : received[id].method \notin StartMethods =>
          received[id].operation # operations + 1
    BY <1>4, <2>1, ServingTyped DEF Standing, Numbered
  <2> QED
    BY <1>1, <1>4, <2>2
<1>6. Chunks' = {} /\ Credits' = {}
  <2>1. Chunks' = {}
    BY <1>5 DEF Chunks, ChunksOf, StartMethods
  <2>2. /\ stdout \in Seq(Line) /\ \A i \in Written : stdout[i].type = "event" => stdout[i].id <= operations
    BY ServingTyped DEF TypeOK, HistoryOK, Standing, Numbered
  <2>3. ASSUME NEW i \in Written PROVE stdout[i].id \in Nat
    <3>1. stdout[i] \in Line
      BY <2>2 DEF Written
    <3> QED
      BY <3>1 DEF Line
  <2>4. \A i \in Written : stdout[i].type = "event" => stdout[i].id # operations + 1
    BY <1>4, <2>2, <2>3
  <2>5. Credits' = {}
    BY <1>1, <2>4 DEF Credits, EventsNamed, OperationEvents, Written
  <2> QED
    BY <2>1, <2>5
<1>7. Answered' = {} /\ Answering' = {} /\ Waiting' = {} /\ QueuedSettings' = {} /\ Taken' = {}
  BY <1>1, <1>2, <1>6 DEF Answered, Answering, Waiting, QueuedSettings, Taken
<1>8. SettingsInOrder' /\ EndIsLast' /\ AnsweredFirst'
  BY <1>1, <1>2, <1>7 DEF SettingsInOrder, EndIsLast, AnsweredFirst
<1>9. kind' = "stream" => CreditLedger'
  <2>1. Cardinality(Credits') = 0 /\ Cardinality(Answered') = 0 /\ Cardinality(Waiting') = 0
        /\ Cardinality(Answered' \cup Answering') = 0
    BY <1>6, <1>7, FS_EmptySet
  <2> QED
    BY <2>1, LedgerWillSay
<1>10. NewestSettingsApplied'
  BY <1>5 DEF NewestSettingsApplied, StartMethods
<1> QED
  BY <1>1, <1>3, <1>8, <1>9, <1>10 DEF StreamInv, DrainedStreamIsComplete

\* What an answer given at once, or no line at all, means for the Stream.
LEMMA SilentAside ==
  ASSUME OrderInv, Serving, [Next]_vars, kind = "stream",
         UNCHANGED <<operation, queue, endQueued, applied, batch, command>>,
         \A place \in {"settings", "acknowledge", "command", "drain"} :
           thread' = place <=> thread = place,
         pending' \subseteq pending, canceled => canceled',
         outcome' = outcome \/ (outcome # "none" /\ outcome' \notin {"none", "ended"}),
         Silently, Answering' = Answering, \A id : Responding(id) => Responding(id)'
  PROVE  Aside
<1>1. \A id \in 1..Len(received) : id \in 1..Len(received') /\ received'[id] = received[id]
  BY NextReads
<1>2. \A id \in 1..Len(received') : received'[id].method \in {"stream_settings", "stream_chunk"} =>
        (Accepted(id)' <=> Accepted(id))
  BY DEF Silently, StreamMethods
<1>3. Answered' = Answered
  <2>1. \A id : Accepted(id) => id \in 1..Len(received)
    BY ChunksFinite
  <2> QED
    BY <1>1, <1>2, <2>1 DEF Answered, Chunks, ChunksOf
<1>4. \A id \in 1..Len(received) : received[id].method \in StreamMethods =>
        (Accepted(id) => Accepted(id)')
  BY <1>1 DEF Silently
<1> QED
  BY <1>2, <1>3, <1>4 DEF Aside, Silently

\* A reply to a request of another kind, or a refusal, is silent; ...
LEMMA ReplySilent ==
  ASSUME OrderInv, Serving, [Next]_vars, UNCHANGED operation,
         NEW id \in 1..Len(received'), NEW code, NEW n, Emit(ReplyLine(id, code, n)),
         code # "ok" \/ received'[id].method \notin StreamMethods
  PROVE  Silently
<1>1. /\ \A x : Accepted(x)' <=> Accepted(x) \/ (x = id /\ code = "ok")
      /\ Credits' = Credits
  BY ServingTyped, ReplyAppended DEF Credits
<1> QED
  BY <1>1 DEF Silently

\* ... so is an event that is no credit.
LEMMA EventSilent ==
  ASSUME OrderInv, Serving, UNCHANGED operation,
         \/ UNCHANGED stdout
         \/ \E name, n, k : name # "stream_credit" /\ Emit(EventLine(name, n, k))
  PROVE  Silently
<1>1. CASE UNCHANGED stdout
  BY <1>1, NothingAppended DEF Silently, Credits
<1>2. ASSUME NEW name, NEW n, NEW k, name # "stream_credit", Emit(EventLine(name, n, k))
      PROVE  Silently
  <2>1. /\ \A x : Accepted(x)' <=> Accepted(x)
        /\ \A o, nm : EventsNamed(o, nm)' = EventsNamed(o, nm) \cup
             IF o = operation /\ nm = name THEN {Len(stdout) + 1} ELSE {}
    BY <1>2, ServingTyped, EventAppended
  <2>2. Credits' = Credits
    BY <1>2, <2>1 DEF Credits
  <2> QED
    BY <2>1, <2>2 DEF Silently
<1> QED
  BY <1>1, <1>2

\* RequestOwes: whatever request is read.
LEMMA RequestOwes ==
  ASSUME OrderInv, Serving, StreamInv, MainRequest, [Next]_vars
  PROVE  StreamInv'
<1> USE DEF sharedVars, backendVars, localVars
<1>1. PICK r \in RequestLines :
        \/ Hello(r) \/ RefuseUnnegotiated(r) \/ LoadModel(r) \/ RefuseStart(r)
        \/ StartOperation(r) \/ StreamRequest(r) \/ TrackRequest(r)
        \/ Cancel(r) \/ Shutdown(r)
  BY DEF MainRequest
<1>2. Reads(r)
  BY <1>1 DEF Hello, RefuseUnnegotiated, LoadModel, RefuseStart,
       StartOperation, StreamRequest, RefuseStreamRequest, StreamChunk,
       StreamSettings, StreamEnd, TrackRequest, RefuseTrackRequest,
       TrackChunk, TrackPrepare, TrackRenderStale, TrackRenderNewer,
       Cancel, Shutdown
<1>3. /\ received'[NewId] = r /\ NewId \in 1..Len(received') /\ pc = "ready"
      /\ Len(received') = NewId /\ InHand = {} /\ \A id : ~Responding(id)
  BY <1>2, ServingTyped, JustRead DEF InHand, Responding
<1>4. CASE StartOperation(r)
  BY <1>4, StartOwes
<1>5. CASE StreamChunk(r) \/ StreamSettings(r) \/ StreamEnd(r)
  BY <1>5, PushOwes
<1>6. CASE /\ kind = "stream"
           /\ \/ Hello(r) \/ RefuseUnnegotiated(r) \/ LoadModel(r) \/ RefuseStart(r)
              \/ RefuseStreamRequest(r) \/ TrackRequest(r)
              \/ (Cancel(r) /\ Refuse("operation_not_found"))
  <2>1. operation # 0
    BY <1>6, ServingTyped DEF IInv, IdleIsReleased
  <2>2. /\ UNCHANGED <<operation, kind, queue, endQueued, applied, batch, command, pending, canceled,
                       outcome, thread, pc>>
        /\ \E code : /\ Emit(ReplyLine(NewId, code, 0))
                     /\ code # "ok" \/ r.method \notin StreamMethods
    <3>1. CASE Hello(r)
      BY <3>1 DEF Hello, StreamMethods, Codes
    <3>2. CASE LoadModel(r) \/ RefuseStart(r)
      BY <2>1, <3>2 DEF LoadModel, RefuseStart, Busy, Refuse, Codes
    <3>3. CASE RefuseUnnegotiated(r) \/ (Cancel(r) /\ Refuse("operation_not_found"))
      BY <3>3 DEF RefuseUnnegotiated, Refuse, Codes
    <3>4. CASE RefuseStreamRequest(r)
      BY <3>4 DEF RefuseStreamRequest, StreamRefusal, Refuse, Codes
    <3>5. CASE TrackRequest(r)
      <4>1. TrackRefusal(r) # "ok" /\ TrackRefusal(r) \in Codes
        BY <1>6 DEF TrackRefusal, TrackActive, Codes
      <4>2. Refuse(TrackRefusal(r))
        BY <3>5, <4>1 DEF TrackRequest, RefuseTrackRequest, TrackChunk, TrackPrepare,
             TrackRenderStale, TrackRenderNewer
      <4> QED
        BY <4>1, <4>2 DEF Refuse
    <3> QED
      BY <1>6, <3>1, <3>2, <3>3, <3>4, <3>5
  <2>3. Silently
    <3>1. PICK code : /\ Emit(ReplyLine(NewId, code, 0))
                      /\ code # "ok" \/ r.method \notin StreamMethods
      BY <2>2
    <3> QED
      BY <1>3, <2>2, <3>1, ReplySilent
  <2>4. Answering' = Answering
    BY <1>3, <2>2 DEF Answering, InHand
  <2> QED
    BY <1>3, <1>6, <2>2, <2>3, <2>4, SilentAside, AsideOwes
<1>7. CASE /\ kind = "stream"
           /\ (Cancel(r) /\ ~Refuse("operation_not_found")) \/ Shutdown(r)
  <2>1. /\ UNCHANGED <<stdout, operation, kind, queue, endQueued, applied, batch, command, pending,
                       outcome>>
        /\ canceled => canceled'
        /\ thread' = thread \/ (thread = "asleep" /\ thread' = "check")
        /\ r.method \in {"cancel", "shutdown"}
    BY <1>7 DEF Cancel, Shutdown, StopOperation, Notify
  <2>2. Silently
    BY <2>1, EventSilent
  <2>3. Answering' = Answering
    <3>1. InHand' \subseteq {NewId}
      BY <1>3 DEF InHand
    <3> QED
      BY <1>3, <2>1, <3>1 DEF Answering, Chunks, ChunksOf
  <2> QED
    BY <1>3, <1>7, <2>1, <2>2, <2>3, SilentAside, AsideOwes
<1>8. CASE kind # "stream" /\ ~StartOperation(r)
  <2>1. UNCHANGED kind
    BY <1>1, <1>8 DEF Hello, RefuseUnnegotiated, LoadModel, RefuseStart,
       StreamRequest, RefuseStreamRequest, StreamChunk,
       StreamSettings, StreamEnd, TrackRequest, RefuseTrackRequest,
       TrackChunk, TrackPrepare, TrackRenderStale, TrackRenderNewer,
       Cancel, Shutdown, Refuse
  <2> QED
    BY <1>8, <2>1 DEF StreamInv
<1> QED
  BY <1>1, <1>4, <1>5, <1>6, <1>7, <1>8 DEF StreamRequest

\* ContinueOwes: the main thread answers what it has read.
LEMMA ContinueOwes ==
  ASSUME OrderInv, Serving, StreamInv, MainContinues \/ StdinEof, [Next]_vars
  PROVE  StreamInv'
<1> USE DEF mainVars, sharedVars, backendVars, localVars
<1>1. UNCHANGED <<kind, received, operation>>
  BY DEF MainContinues, StdinEof, Respond, JoinOperation, TrackRenderDisplace, TrackRenderQueue
<1>2. CASE kind # "stream"
  BY <1>1, <1>2 DEF StreamInv
<1>3. CASE Respond /\ kind = "stream"
  <2>1. /\ pc = "respond" /\ pc' = "ready" /\ Emit(ReplyLine(Len(received), "ok", 0))
        /\ UNCHANGED <<kind, operation, queue, endQueued, applied, batch, command, pending, canceled,
                       outcome, thread>>
    BY <1>3 DEF Respond
  <2>2. /\ \A x : Accepted(x)' <=> Accepted(x) \/ x = Len(received)
        /\ Credits' = Credits
    BY <1>1, <2>1, ServingTyped, ReplyAppended DEF Credits
  <2>3. InHand = {Len(received)} /\ InHand' = {} /\ received[Len(received)].method # "stream_settings"
    BY <2>1, ServingTyped DEF InHand, Standing, InTheHands, Deferred
  <2>4. Chunks' = Chunks /\ Chunks \subseteq 1..Len(received)
    BY <1>1 DEF Chunks, ChunksOf
  <2>5. /\ Answering' = {} /\ Answered' = Answered \cup Answering
    BY <2>2, <2>3, <2>4 DEF Answering, Answered
  <2>6. Aside
    BY <1>1, <2>1, <2>2, <2>3, <2>5 DEF Aside, Responding
  <2> QED
    BY <1>1, <1>3, <2>6, AsideOwes
<1>4. CASE (JoinOperation \/ StdinEof) /\ kind = "stream"
  <2>1. /\ UNCHANGED <<kind, operation, queue, endQueued, applied, batch, command, pending, outcome>>
        /\ canceled => canceled'
        /\ \A place \in {"settings", "acknowledge", "command", "drain"} :
             thread' = place <=> thread = place
        /\ pc \in {"ready", "join", "closing"} /\ pc' \in {"exited", "closing"}
    BY <1>4 DEF JoinOperation, StdinEof, StopOperation, Notify
  <2>2. pc = "join" => received[Len(received)].method = "shutdown" /\ Len(received) \in 1..Len(received)
    BY ServingTyped DEF Standing, InTheHands, TypeOK, DomainsOK
  <2>3. Silently
    <3>1. CASE UNCHANGED stdout
      BY <1>1, <3>1, EventSilent
    <3>2. CASE Emit(ReplyLine(Len(received), "ok", 0)) /\ pc = "join"
      BY <1>1, <2>2, <3>2, ReplySilent DEF StreamMethods
    <3> QED
      BY <1>4, <3>1, <3>2 DEF JoinOperation, StdinEof
  <2>4. Answering' = Answering
    BY <1>1, <2>1, <2>2 DEF Answering, InHand, Chunks, ChunksOf
  <2>5. \A id : ~Responding(id)
    BY <2>1 DEF Responding
  <2> QED
    BY <1>1, <1>4, <2>1, <2>3, <2>4, <2>5, SilentAside, AsideOwes
<1>5. CASE TrackRenderDisplace \/ TrackRenderQueue
  BY <1>2, <1>5 DEF TrackRenderDisplace, TrackRenderQueue, Serving, TakenIsOwn
<1> QED
  BY <1>2, <1>3, <1>4, <1>5 DEF MainContinues

\* OperationOwes: the operation thread executes, and leaves, what it took.
LEMMA OperationOwes ==
  ASSUME OrderInv, Serving, StreamInv, [Next]_vars,
         OperationThread \/ SpuriousWakeup \/ StreamFails \/ TrackFails
  PROVE  StreamInv'
<1> USE DEF mainVars, sharedVars, backendVars, localVars
<1>1. CASE FinishActive
  BY <1>1 DEF FinishActive, ResetOperation, StreamInv
<1>2. CASE \/ WakeCanceled \/ StreamCanceled \/ TrackCanceled \/ TrackEmpty
           \/ StreamFails \/ TrackFails
  <2>1. /\ UNCHANGED <<received, stdout, operation, pc, kind>>
        /\ outcome' \notin {"none", "ended"}
    BY <1>2 DEF WakeCanceled, StreamCanceled, TrackCanceled, TrackEmpty, StreamFails,
         TrackFails, Leave
  <2> QED
    BY <2>1, LeaveOwes
<1>3. CASE \/ ThreadStart \/ FallAsleep \/ Sleep \/ SpuriousWakeup \/ StreamFrame
           \/ CommitTerminal \/ RejectPending \/ EmitTerminal
  <2>1. /\ UNCHANGED <<received, pc, kind, operation, queue, endQueued, applied, batch, command,
                       canceled>>
        /\ pending' \subseteq pending
    BY <1>3 DEF ThreadStart, FallAsleep, Sleep, SpuriousWakeup, StreamFrame,
         CommitTerminal, RejectPending, EmitTerminal, Retire
  <2>2. /\ \A place \in {"settings", "acknowledge", "command", "drain"} :
             thread' = place <=> thread = place
        /\ outcome' = outcome \/ (outcome # "none" /\ outcome' \notin {"none", "ended"})
    BY <1>3 DEF ThreadStart, FallAsleep, Sleep, SpuriousWakeup, StreamFrame,
         CommitTerminal, RejectPending, EmitTerminal
  <2>3. Silently
    <3>1. CASE RejectPending
      <4>1. PICK id \in pending : Emit(ReplyLine(id, RejectionCode, 0))
        BY <3>1 DEF RejectPending
      <4>2. id \in 1..Len(received') /\ RejectionCode # "ok"
        BY <2>1, ServingTyped DEF RejectionCode
      <4> DEFINE code == RejectionCode
      <4>3. code # "ok" /\ Emit(ReplyLine(id, code, 0))
        BY <4>1, <4>2
      <4> HIDE DEF code
      <4> QED
        BY <2>1, <4>2, <4>3, ReplySilent
    <3>2. CASE ~RejectPending
      <4>1. \/ UNCHANGED stdout
            \/ \E name : name # "stream_credit" /\ Emit(EventLine(name, 0, 0))
        BY <1>3, <3>2 DEF ThreadStart, FallAsleep, Sleep, SpuriousWakeup, StreamFrame,
             CommitTerminal, EmitTerminal
      <4> QED
        BY <2>1, <4>1, EventSilent
    <3> QED
      BY <3>1, <3>2
  <2>4. Answering' = Answering /\ \A id : Responding(id)' <=> Responding(id)
    BY <2>1 DEF Answering, InHand, Chunks, ChunksOf, Responding
  <2>5. CASE kind = "stream"
    BY <2>1, <2>2, <2>3, <2>4, <2>5, SilentAside, AsideOwes
  <2> QED
    BY <2>1, <2>5 DEF StreamInv
<1>4. CASE TrackLoop
  <2>1. kind = "track"
    BY <1>4, ServingTyped DEF TrackLoop, TrackTake, TrackAppend, TrackPrepared, TrackEmpty,
         TrackSkip, TrackBegin, TrackExecute, TrackLatePreview, TrackBatch, TrackComplete,
         TrackCanceled, IInv, Places
  <2>2. UNCHANGED kind
    BY <1>4 DEF TrackLoop, TrackTake, TrackAppend, TrackPrepared, TrackEmpty,
         TrackSkip, TrackBegin, TrackExecute, TrackLatePreview, TrackBatch, TrackComplete,
         TrackCanceled, Answer, Leave
  <2> QED
    BY <2>1, <2>2 DEF StreamInv
<1>5. CASE StreamLoop
  BY <1>2, <1>3, <1>5, TakeOwes, ConfigureOwes, AcknowledgeOwes, ServeOwes, DrainedOwes
     DEF StreamLoop
<1> QED
  BY <1>1, <1>2, <1>3, <1>4, <1>5 DEF OperationThread

\* NextOwes: a Stream is owed the same after any step.
LEMMA NextOwes ==
  ASSUME OrderInv, Serving, StreamInv, [Next]_vars
  PROVE  StreamInv'
<1>1. CASE UNCHANGED vars
  <2>1. /\ UNCHANGED <<received, stdout, operation, pc, kind, queue, endQueued, applied, batch,
                       command, canceled, pending, outcome, thread>>
    BY <1>1 DEF vars, mainVars, sharedVars, backendVars, localVars
  <2>2. Answering' = Answering /\ \A id : Responding(id)' <=> Responding(id)
    BY <2>1, StillSaid
  <2>3. Silently
    BY <2>1, EventSilent
  <2> QED
    BY <2>1, <2>2, <2>3, SilentAside, AsideOwes DEF StreamInv
<1> QED
  BY <1>1, RequestOwes, ContinueOwes, OperationOwes DEF Next

\* A worker that has read nothing owes nothing.
LEMMA InitServes == Init => Serving /\ QueueBounded /\ StreamInv
<1> SUFFICES ASSUME Init PROVE Serving /\ QueueBounded /\ StreamInv
  OBVIOUS
<1>1. /\ Len(received) = 0 /\ queue = {} /\ queuedSamples = 0 /\ kind = "none"
      /\ thread = "none" /\ outcome = "none" /\ pc = "ready"
  BY DEF Init
<1>2. Serving
  BY <1>1 DEF Serving, Sent, TakenIsOwn, Taken
<1>3. SamplesOf(queue) = 0
  <2>1. Total(received, {}) = Cardinality(PairsOf(received, {}))
    BY TotalIsCount, FS_EmptySet
  <2>2. PairsOf(received, {}) = {}
    BY DEF PairsOf
  <2> QED
    BY <1>1, <2>1, <2>2, FS_EmptySet DEF SamplesOf, Total, MapThenSumSet, MapThenFoldSet
<1>4. QueueBounded
  BY <1>1, <1>3, WorkerAssumption DEF QueueBounded, WorkerAssumption
<1> QED
  BY <1>1, <1>2, <1>4 DEF StreamInv

\* The worker's queue is counted, and what a Stream is owed is invariant.
THEOREM StreamOwed == Spec => [](Serving /\ QueueBounded /\ StreamInv)
<1>1. OrderInv /\ Serving /\ QueueBounded /\ StreamInv /\ [Next]_vars
        => (Serving /\ QueueBounded /\ StreamInv)'
  BY NextServes, NextCounted, NextOwes
<1> QED
  BY <1>1, InitServes, OrderInvariance, PTL DEF Spec

\* QueueIsBounded: QueueBounded holds in every reachable state: the samples of
\* the commands in the queue never exceed its capacity, and the counter that the
\* admission test of enqueue_stream_chunk subtracts from is their sum.
THEOREM QueueIsBounded == Spec => []QueueBounded
  BY StreamOwed, PTL

\* StreamIsServed: StreamContract holds in every reachable state of the worker,
\* for every client, queue capacity and number of requests: a chunk is credited
\* once and after its answer, the newest settings are the ones applied, a drained
\* Stream is complete.
THEOREM StreamIsServed == Spec => []StreamContract
<1>1. Serving /\ QueueBounded /\ StreamInv => StreamContract
  BY DEF StreamInv, StreamContract, CreditLedger, NewestSettingsApplied,
         DrainedStreamIsComplete
<1> QED
  BY <1>1, StreamOwed, PTL
-----------------------------------------------------------------------------
(* A track: what was said of its renders. *)

TakenRenders == {id \in Taken : received[id].method = "track_render"}

\* At most one render is queued, the latest one, newer than the one taken.
RendersInOrder ==
  /\ \A id \in QueuedRenders \cup TakenRenders : received[id].revision <= latest
  /\ \A w \in TakenRenders, q \in QueuedRenders :
       received[w].revision < received[q].revision
  /\ IF pc = "displace"
     THEN /\ received[Len(received)].revision = latest
          /\ \A id \in QueuedRenders \cup TakenRenders : received[id].revision < latest
     ELSE \A p, q \in QueuedRenders : p = q /\ received[p].revision = latest

RenderEvents(o) == EventsNamed(o, "track_preview") \cup EventsNamed(o, "track_frame_batch")
Completions(o) == RenderReplies(o, {"ok"})
Displacements(o) == RenderReplies(o, {"superseded"})

\* The latest render is not begun, or it is rendered.
Unbegun ==
  \/ pc = "displace" \/ QueuedRenders # {}
  \/ thread = "command" /\ Method = "track_render" /\ ~Superseded
Rendering == thread = "render" /\ ~Superseded

\* Nothing is said of a newer revision, nor of the latest one before its time.
LatestOnly ==
  /\ \A i \in Progress(operation) \cup Displacements(operation) :
       stdout[i].revision <= latest
  /\ Unbegun => \A i \in RenderEvents(operation) : stdout[i].revision # latest
  /\ Unbegun \/ Rendering =>
       \A i \in Completions(operation) : stdout[i].revision # latest

EventsOf(o, name, revision) == {j \in EventsNamed(o, name) : stdout[j].revision = revision}

\* The batches of a render are its first ones, up to `sent`.
Batched(batches) ==
  \E n \in 0..TrackRows :
    /\ {stdout[j].offset : j \in batches} = {m * BatchRows : m \in 0..(n - 1)}
    /\ sent = n * BatchRows \/ (sent = TrackRows /\ TrackRows <= n * BatchRows)
    /\ n # 0 => (n - 1) * BatchRows < TrackRows

\* How far a render is, is what was said of it.
SentAs(batches, previews) ==
  /\ Batched(batches)
  /\ \A j, k \in batches : j < k => stdout[j].offset < stdout[k].offset
  /\ sent <= TrackRows /\ rows <= TrackRows
  /\ sent # 0 => rows = TrackRows /\ (PreviewRow = 0 \/ previewed)
  /\ IF previewed THEN PreviewRow # 0 /\ \E p : previews = {p} ELSE previews = {}
  /\ \A j \in previews, k \in batches : j < k

Rendered ==
  Rendering => SentAs(EventsOf(operation, "track_frame_batch", latest),
                      EventsOf(operation, "track_preview", latest))

\* A render's answer says its revision.
RevisionsTold ==
  \A i \in Replies :
    received[stdout[i].id].method = "track_render" /\ stdout[i].name \in {"ok", "superseded"}
       => stdout[i].revision = received[stdout[i].id].revision

\* What is on stdout of renders is right.
RendersTold == RevisionsTold /\ CompleteBeforePublication /\ NewestRevisionOnly
-----------------------------------------------------------------------------
\* What was said stays.
LEMMA OldLines ==
  ASSUME OrderInv, Serving, [Next]_vars
  PROVE  /\ \A i \in Written : i \in Written' /\ stdout'[i] = stdout[i]
         /\ \A i \in Replies : /\ stdout[i].id \in 1..Len(received)
                               /\ received'[stdout[i].id] = received[stdout[i].id]
         /\ stdout \in Seq(Line) /\ Written \subseteq Nat
         /\ \A i \in Written : /\ stdout[i].revision \in Nat /\ stdout[i].offset \in Nat
                               /\ stdout[i].id \in Nat
         /\ operation \in {0, operations} /\ operations \in Nat
         /\ \A o : RenderEvents(o) \subseteq Written /\ Completions(o) \subseteq Replies
                   /\ Displacements(o) \subseteq Replies /\ Progress(o) \subseteq Written
         /\ Replies \subseteq Written
<1>1. /\ TypeOK /\ ExactlyOneReply /\ Orderly
  BY ServingTyped, NextOrderly
<1>2. \A i \in Written : i \in Written' /\ stdout'[i] = stdout[i]
  BY <1>1, StillWritten DEF Orderly
<1>3. \A i \in Replies : stdout[i].id \in 1..Len(received)
  BY <1>1 DEF ExactlyOneReply, Replied
<1>4. stdout \in Seq(Line)
  BY <1>1 DEF TypeOK, HistoryOK
<1>5. ASSUME NEW i \in Written
      PROVE  stdout[i].revision \in Nat /\ stdout[i].offset \in Nat /\ stdout[i].id \in Nat
  <2>1. stdout[i] \in Line
    BY <1>4 DEF Written
  <2> QED
    BY <2>1 DEF Line
<1>6. operation \in {0, operations} /\ operations \in Nat
  BY <1>1, ServingTyped DEF Standing, Numbered, TypeOK, CountersOK
<1>7. Written \subseteq Nat
  BY <1>4 DEF Written
<1>8. /\ \A o : RenderEvents(o) \subseteq Written /\ Completions(o) \subseteq Replies
               /\ Displacements(o) \subseteq Replies /\ Progress(o) \subseteq Written
      /\ Replies \subseteq Written
  BY DEF RenderEvents, EventsNamed, OperationEvents, Completions, Displacements, RenderReplies,
         Replies, Progress
<1> QED
  BY <1>2, <1>3, <1>4, <1>5, <1>6, <1>7, <1>8, NextReads

\* A step that says nothing of a render.
Hush ==
  \A o : /\ EventsNamed(o, "track_preview")' = EventsNamed(o, "track_preview")
         /\ EventsNamed(o, "track_frame_batch")' = EventsNamed(o, "track_frame_batch")
         /\ Completions(o)' = Completions(o)
         /\ Displacements(o)' = Displacements(o)

\* Answers to other requests, or refusals, say nothing of a render, ...
LEMMA ReplyHush ==
  ASSUME OrderInv, Serving, [Next]_vars,
         NEW id \in 1..Len(received'), NEW code, NEW n, Emit(ReplyLine(id, code, n)),
         code \notin {"ok", "superseded"} \/ received'[id].method # "track_render"
  PROVE  Hush /\ (RevisionsTold => RevisionsTold')
<1> DEFINE next == Len(stdout) + 1
<1>1. /\ \A o, name : EventsNamed(o, name)' = EventsNamed(o, name)
      /\ Replies' = Replies \cup {next} /\ stdout'[next] = ReplyLine(id, code, n)
  BY ServingTyped, ReplyAppended
<1>2. stdout'[next].id = id /\ stdout'[next].name = code
  BY <1>1 DEF ReplyLine
<1> HIDE DEF next
<1>3. \A i \in Replies : stdout'[i] = stdout[i] /\ received'[stdout[i].id] = received[stdout[i].id]
  BY OldLines
<1>4. \A o : Completions(o)' = Completions(o) /\ Displacements(o)' = Displacements(o)
  BY <1>1, <1>2, <1>3 DEF Completions, Displacements, RenderReplies
<1>5. RevisionsTold => RevisionsTold'
  BY <1>1, <1>2, <1>3 DEF RevisionsTold
<1> QED
  BY <1>1, <1>4, <1>5 DEF Hush

\* ... nor do other events.
LEMMA EventHush ==
  ASSUME OrderInv, Serving, [Next]_vars,
         \/ UNCHANGED stdout
         \/ \E name, n, k : /\ name \notin {"track_preview", "track_frame_batch"}
                            /\ Emit(EventLine(name, n, k))
  PROVE  Hush /\ (RevisionsTold => RevisionsTold')
<1>1. /\ \A o : /\ EventsNamed(o, "track_preview")' = EventsNamed(o, "track_preview")
                /\ EventsNamed(o, "track_frame_batch")' = EventsNamed(o, "track_frame_batch")
      /\ Replies' = Replies
  <2>1. CASE UNCHANGED stdout
    BY <2>1, NothingAppended
  <2>2. ASSUME NEW name, NEW n, NEW k, name \notin {"track_preview", "track_frame_batch"},
               Emit(EventLine(name, n, k))
        PROVE  <1>1
    <3>1. /\ \A o, nm : EventsNamed(o, nm)' = EventsNamed(o, nm) \cup
               IF o = operation /\ nm = name THEN {Len(stdout) + 1} ELSE {}
          /\ Replies' = Replies
      BY <2>2, ServingTyped, EventAppended
    <3> QED
      BY <2>2, <3>1
  <2> QED
    BY <2>1, <2>2
<1>2. \A i \in Replies : stdout'[i] = stdout[i] /\ received'[stdout[i].id] = received[stdout[i].id]
  BY OldLines
<1>3. \A o : Completions(o)' = Completions(o) /\ Displacements(o)' = Displacements(o)
  BY <1>1, <1>2 DEF Completions, Displacements, RenderReplies
<1>4. RevisionsTold => RevisionsTold'
  BY <1>1, <1>2 DEF RevisionsTold
<1> QED
  BY <1>1, <1>3, <1>4 DEF Hush

\* A completion said at line i of the render r follows its whole cache.
Whole(i, r) ==
  LET batches == EventsOf(r.operation, "track_frame_batch", r.revision)
      previews == EventsOf(r.operation, "track_preview", r.revision) IN
  /\ {stdout[j].offset : j \in batches} = BatchOffsets
  /\ \A j, k \in batches : j < k => stdout[j].offset < stdout[k].offset
  /\ Cardinality(previews) = IF r.preview = 0 THEN 0 ELSE 1
  /\ \A j \in previews, k \in batches : j < k /\ k < i

\* CompleteBeforePublication says this of every completion, ...
LEMMA CompleteSays ==
  /\ CompleteBeforePublication <=>
       \A i \in Replies :
         received[stdout[i].id].method = "track_render" /\ stdout[i].name = "ok"
           => Whole(i, received[stdout[i].id])
  /\ CompleteBeforePublication' <=>
       \A i \in Replies' :
         received'[stdout'[i].id].method = "track_render" /\ stdout'[i].name = "ok"
           => Whole(i, received[stdout[i].id])'
<1>1. CompleteBeforePublication <=>
       \A i \in Replies :
         received[stdout[i].id].method = "track_render" /\ stdout[i].name = "ok"
           => Whole(i, received[stdout[i].id])
  BY DEF CompleteBeforePublication, Whole, EventsOf
<1>2. CompleteBeforePublication' <=>
       \A i \in Replies' :
         received'[stdout'[i].id].method = "track_render" /\ stdout'[i].name = "ok"
           => Whole(i, received[stdout[i].id])'
  BY DEF CompleteBeforePublication, Whole, EventsOf
<1> QED
  BY <1>1, <1>2

\* ... and it stays true as long as no event of that render is said.
LEMMA WholeKept ==
  ASSUME OrderInv, Serving, [Next]_vars, NEW i, NEW r, Whole(i, r),
         EventsOf(r.operation, "track_frame_batch", r.revision)'
           = EventsOf(r.operation, "track_frame_batch", r.revision),
         EventsOf(r.operation, "track_preview", r.revision)'
           = EventsOf(r.operation, "track_preview", r.revision)
  PROVE  Whole(i, r)'
<1>1. \A j \in EventsOf(r.operation, "track_frame_batch", r.revision) : stdout'[j] = stdout[j]
  BY OldLines DEF EventsOf, EventsNamed, OperationEvents
<1>2. BatchOffsets' = BatchOffsets
  BY DEF BatchOffsets
<1> QED
  BY <1>1, <1>2 DEF Whole

\* Nothing was said of an operation that is not started.
LEMMA Unsaid ==
  ASSUME OrderInv, Serving, [Next]_vars, NEW o \in Nat, o \notin 1..operations, o # 0
  PROVE  Progress(o) = {} /\ Displacements(o) = {} /\ RenderEvents(o) = {}
<1>1. /\ \A i \in Written : stdout[i].type = "event" => stdout[i].id <= operations
      /\ \A id \in 1..Len(received) : received[id].method \notin StartMethods =>
            received[id].operation <= operations
  BY ServingTyped DEF Standing, Numbered
<1>2. operations \in Nat /\ ~(o <= operations)
  BY OldLines
<1>3. RenderEvents(o) = {}
  BY <1>1, <1>2 DEF RenderEvents, EventsNamed, OperationEvents
<1>4. \A codes : RenderReplies(o, codes) = {}
  BY <1>1, <1>2, OldLines DEF RenderReplies, StartMethods
<1> QED
  BY <1>3, <1>4 DEF Progress, RenderEvents, Displacements

\* NewestRevisionOnly stays true if what is new is last and newest.
LEMMA NewestKept ==
  ASSUME OrderInv, Serving, [Next]_vars, NewestRevisionOnly,
         NEW next, \A i \in Written : i < next,
         \A o : \A i \in Progress(o)' \cup Displacements(o)' :
           i \in Progress(o) \cup Displacements(o) \/ i = next,
         \A o : \A j \in Progress(o)' :
           j \in Progress(o) \/
             (j = next /\ \A i \in Progress(o) \cup Displacements(o) :
                            stdout[i].revision <= stdout'[j].revision)
  PROVE  NewestRevisionOnly'
<1>1. ASSUME NEW o \in 1..operations', NEW i \in Progress(o)' \cup Displacements(o)',
             NEW j \in Progress(o)', i < j
      PROVE  stdout'[i].revision <= stdout'[j].revision
  <2>1. \A k \in Progress(o) \cup Displacements(o) : k \in Written /\ stdout'[k] = stdout[k]
    BY OldLines
  <2>2. i \in Progress(o) \cup Displacements(o)
    <3>1. CASE j = next /\ i = next
      <4>3. next \in Nat \/ next \in Written'
        BY <3>1 DEF Progress, EventsNamed, OperationEvents, RenderReplies, Replies
      <4>4. stdout' \in Seq(Line)
        BY NextReads DEF IInv, TypeOK, HistoryOK
      <4>5. next \in Nat
        BY <4>3, <4>4 DEF Written
      <4> QED
        BY <1>1, <3>1, <4>5
    <3>2. CASE i = next /\ j \in Progress(o)
      <4>1. j \in Written /\ Written \subseteq Nat
        BY <3>2, OldLines
      <4>2. j < next
        BY <4>1
      <4>3. next \in Written'
        BY <3>2, <1>1 DEF Progress, Displacements, EventsNamed, OperationEvents, RenderReplies, Replies
      <4>4. stdout' \in Seq(Line)
        BY NextReads DEF IInv, TypeOK, HistoryOK
      <4>5. next \in Nat
        BY <4>3, <4>4 DEF Written
      <4> QED
        BY <1>1, <3>2, <4>1, <4>2, <4>5
    <3> QED
      BY <1>1, <3>1, <3>2
  <2>3. CASE j \in Progress(o)
    <3>1. o \in 1..operations
      <4>1. operations' \in Nat
        BY NextReads DEF IInv, TypeOK, CountersOK
      <4>2. o \in Nat /\ o # 0
        BY <4>1
      <4> QED
        BY <2>3, <4>2, Unsaid
    <3> QED
      BY <1>1, <2>1, <2>2, <2>3, <3>1 DEF NewestRevisionOnly, Displacements
  <2>4. CASE j \notin Progress(o)
    BY <1>1, <2>1, <2>2, <2>4
  <2> QED
    BY <2>3, <2>4
<1> QED
  BY <1>1 DEF NewestRevisionOnly, Displacements

\* HushKeeps: a step that says nothing of a render keeps what is said of them.
LEMMA HushKeeps ==
  ASSUME OrderInv, Serving, [Next]_vars, RendersTold, Hush, RevisionsTold'
  PROVE  RendersTold'
<1>1. \A o : Progress(o)' = Progress(o)
  BY DEF Hush, Progress, Completions
<1>2. NewestRevisionOnly'
  <2> DEFINE next == Len(stdout) + 1
  <2>1. \A i \in Written : i < next
    BY OldLines DEF Written
  <2> HIDE DEF next
  <2> QED
    BY <1>1, <2>1, NewestKept DEF RendersTold, Hush
<1>3. CompleteBeforePublication'
  <2>1. ASSUME NEW i \in Replies',
               received'[stdout'[i].id].method = "track_render", stdout'[i].name = "ok"
        PROVE  Whole(i, received[stdout[i].id])'
    <3> DEFINE r == received'[stdout'[i].id]
    <3>1. \E o : i \in Completions(o)'
      BY <2>1 DEF Completions, RenderReplies
    <3>2. \E o : i \in Completions(o)
      BY <3>1 DEF Hush
    <3>3. i \in Replies /\ stdout'[i] = stdout[i] /\ r = received[stdout[i].id]
      BY <3>2, OldLines
    <3>4. Whole(i, received[stdout[i].id])
      BY <2>1, <3>3, CompleteSays DEF RendersTold
    <3> DEFINE R == received[stdout[i].id]
    <3>5. \A o, rev : /\ EventsOf(o, "track_frame_batch", rev)' = EventsOf(o, "track_frame_batch", rev)
                      /\ EventsOf(o, "track_preview", rev)' = EventsOf(o, "track_preview", rev)
      <4>1. \A o, name : \A k \in EventsNamed(o, name) : stdout'[k] = stdout[k]
        BY OldLines DEF EventsNamed, OperationEvents
      <4> QED
        BY <4>1 DEF EventsOf, Hush
    <3>6. R' = R
      BY <3>3
    <3> HIDE DEF R
    <3>7. Whole(i, R)'
      BY <3>4, <3>5, <3>6, WholeKept DEF R
    <3> QED
      BY <3>7 DEF R
  <2> QED
    BY <2>1, CompleteSays
<1> QED
  BY <1>2, <1>3 DEF RendersTold

\* Completions after one more reply.
LEMMA CompletionAppended ==
  ASSUME OrderInv, Serving, [Next]_vars,
         NEW x \in 1..Len(received'), NEW code \in {"ok", "superseded"}, NEW n,
         Emit(ReplyLine(x, code, n)), received'[x].method = "track_render",
         n = received'[x].revision, RevisionsTold
  PROVE  LET next == Len(stdout) + 1 IN
         /\ \A o, name : EventsNamed(o, name)' = EventsNamed(o, name)
         /\ \A o : Completions(o)' = Completions(o) \cup
              IF code = "ok" /\ o = received'[x].operation THEN {next} ELSE {}
         /\ \A o : Displacements(o)' = Displacements(o) \cup
              IF code = "superseded" /\ o = received'[x].operation THEN {next} ELSE {}
         /\ stdout'[next].id = x /\ stdout'[next].name = code /\ stdout'[next].revision = n
         /\ \A i \in Written : i < next
         /\ Replies' = Replies \cup {next} /\ RevisionsTold'
<1> DEFINE next == Len(stdout) + 1
<1>1. /\ \A o, name : EventsNamed(o, name)' = EventsNamed(o, name)
      /\ Replies' = Replies \cup {next} /\ stdout'[next] = ReplyLine(x, code, n)
      /\ \A i \in Written : i < next
  BY ServingTyped, ReplyAppended
<1>2. /\ stdout'[next].id = x /\ stdout'[next].name = code /\ stdout'[next].revision = n
  BY <1>1 DEF ReplyLine
<1> HIDE DEF next
<1>3. \A i \in Replies : stdout'[i] = stdout[i] /\ received'[stdout[i].id] = received[stdout[i].id]
  BY OldLines
<1>4. \A o : Completions(o)' = Completions(o) \cup
              IF code = "ok" /\ o = received'[x].operation THEN {next} ELSE {}
  BY <1>1, <1>2, <1>3 DEF Completions, RenderReplies
<1>5. \A o : Displacements(o)' = Displacements(o) \cup
              IF code = "superseded" /\ o = received'[x].operation THEN {next} ELSE {}
  BY <1>1, <1>2, <1>3 DEF Displacements, RenderReplies
<1>6. RevisionsTold'
  BY <1>1, <1>2, <1>3 DEF RevisionsTold
<1> QED
  BY <1>1, <1>2, <1>4, <1>5, <1>6 DEF next

\* SupersededTold: a render that is answered as superseded.
LEMMA SupersededTold ==
  ASSUME OrderInv, Serving, [Next]_vars, RendersTold,
         NEW x \in 1..Len(received'), NEW n, Emit(ReplyLine(x, "superseded", n)),
         received'[x].method = "track_render", n = received'[x].revision
  PROVE  RendersTold'
<1> DEFINE next == Len(stdout) + 1
<1>1. /\ \A o, name : EventsNamed(o, name)' = EventsNamed(o, name)
      /\ \A o : Completions(o)' = Completions(o)
      /\ \A o : Displacements(o)' \subseteq Displacements(o) \cup {next}
      /\ \A i \in Written : i < next
      /\ Replies' = Replies \cup {next} /\ RevisionsTold' /\ stdout'[next].name = "superseded"
  BY CompletionAppended DEF RendersTold
<1> HIDE DEF next
<1>2. NewestRevisionOnly'
  <2>1. \A o : Progress(o)' = Progress(o)
    BY <1>1 DEF Progress, Completions
  <2> QED
    BY <1>1, <2>1, NewestKept DEF RendersTold
<1>3. CompleteBeforePublication'
  <2>1. ASSUME NEW i \in Replies',
               received'[stdout'[i].id].method = "track_render", stdout'[i].name = "ok"
        PROVE  Whole(i, received[stdout[i].id])'
    <3>1. i \in Replies /\ stdout'[i] = stdout[i] /\ received'[stdout[i].id] = received[stdout[i].id]
      BY <1>1, <2>1, OldLines
    <3>2. Whole(i, received[stdout[i].id])
      BY <2>1, <3>1, CompleteSays DEF RendersTold
    <3>3. \A o, name, rev : EventsOf(o, name, rev)' = EventsOf(o, name, rev)
      <4>1. \A o, name : \A k \in EventsNamed(o, name) : stdout'[k] = stdout[k]
        BY OldLines DEF EventsNamed, OperationEvents
      <4> QED
        BY <1>1, <4>1 DEF EventsOf
    <3> DEFINE R == received[stdout[i].id]
    <3>4. R' = R
      BY <3>1
    <3> HIDE DEF R
    <3>5. Whole(i, R)'
      BY <3>2, <3>3, <3>4, WholeKept DEF R
    <3> QED
      BY <3>5 DEF R
  <2> QED
    BY <2>1, CompleteSays
<1> QED
  BY <1>1, <1>2, <1>3 DEF RendersTold

\* ProgressTold: an event of the latest render, which is not complete.
LEMMA ProgressTold ==
  ASSUME OrderInv, Serving, [Next]_vars, RendersTold, LatestOnly, Rendering,
         NEW name \in {"track_preview", "track_frame_batch"}, NEW k,
         Emit(EventLine(name, latest, k))
  PROVE  LET next == Len(stdout) + 1 IN
         /\ RendersTold'
         /\ \A o : Completions(o)' = Completions(o) /\ Displacements(o)' = Displacements(o)
         /\ \A o, nm : EventsNamed(o, nm)' =
              EventsNamed(o, nm) \cup IF o = operation /\ nm = name THEN {next} ELSE {}
         /\ stdout'[next].revision = latest /\ stdout'[next].offset = k
         /\ \A i \in Written : i < next
<1> DEFINE next == Len(stdout) + 1
<1>1. /\ \A o, nm : EventsNamed(o, nm)' =
              EventsNamed(o, nm) \cup IF o = operation /\ nm = name THEN {next} ELSE {}
      /\ Replies' = Replies /\ stdout'[next] = EventLine(name, latest, k)
      /\ \A i \in Written : i < next
  BY ServingTyped, EventAppended
<1>2. stdout'[next].revision = latest /\ stdout'[next].offset = k
  BY <1>1 DEF EventLine
<1> HIDE DEF next
<1>3. \A i \in Replies : stdout'[i] = stdout[i] /\ received'[stdout[i].id] = received[stdout[i].id]
  BY OldLines
<1>4. \A o : Completions(o)' = Completions(o) /\ Displacements(o)' = Displacements(o)
  BY <1>1, <1>3 DEF Completions, Displacements, RenderReplies
<1>5. RevisionsTold'
  BY <1>1, <1>3 DEF RevisionsTold, RendersTold
<1>6. NewestRevisionOnly'
  <2>1. \A o : Progress(o)' = Progress(o) \cup IF o = operation THEN {next} ELSE {}
    BY <1>1, <1>4 DEF Progress, Completions
  <2>2. \A i \in Progress(operation) \cup Displacements(operation) :
           stdout[i].revision <= stdout'[next].revision
    BY <1>2 DEF LatestOnly
  <2>3. \A o : \A i \in Progress(o)' \cup Displacements(o)' :
           i \in Progress(o) \cup Displacements(o) \/ i = next
    BY <1>4, <2>1
  <2>4. \A o : \A j \in Progress(o)' : j \in Progress(o) \/
             (j = next /\ \A i \in Progress(o) \cup Displacements(o) :
                            stdout[i].revision <= stdout'[j].revision)
    BY <2>1, <2>2
  <2> QED
    BY <1>1, <2>3, <2>4, NewestKept DEF RendersTold
<1>7. CompleteBeforePublication'
  <2>1. ASSUME NEW i \in Replies',
               received'[stdout'[i].id].method = "track_render", stdout'[i].name = "ok"
        PROVE  Whole(i, received[stdout[i].id])'
    <3>1. i \in Replies /\ stdout'[i] = stdout[i] /\ received'[stdout[i].id] = received[stdout[i].id]
      BY <1>1, <2>1, OldLines
    <3>2. Whole(i, received[stdout[i].id])
      BY <2>1, <3>1, CompleteSays DEF RendersTold
    <3> DEFINE R == received[stdout[i].id]
    <3>3. R.operation = operation => R.revision # latest
      <4>1. i \in Completions(R.operation)
        BY <2>1, <3>1 DEF Completions, RenderReplies
      <4>2. stdout[i].revision = R.revision
        BY <2>1, <3>1 DEF RendersTold, RevisionsTold
      <4> QED
        BY <4>1, <4>2 DEF LatestOnly
    <3>4. \A o, nm, rev : (o = operation => rev # latest) => EventsOf(o, nm, rev)' = EventsOf(o, nm, rev)
      <4>1. \A o, nm : \A j \in EventsNamed(o, nm) : stdout'[j] = stdout[j]
        BY OldLines DEF EventsNamed, OperationEvents
      <4> QED
        BY <1>1, <1>2, <4>1 DEF EventsOf
    <3>5. R' = R
      BY <3>1
    <3>6. Whole(i, R)
      BY <3>2
    <3> HIDE DEF R
    <3>7. Whole(i, R)'
      BY <3>3, <3>4, <3>5, <3>6, WholeKept
    <3> QED
      BY <3>7 DEF R
  <2> QED
    BY <2>1, CompleteSays
<1> QED
  BY <1>1, <1>2, <1>4, <1>5, <1>6, <1>7 DEF RendersTold, next

\* Multiples of the size of a batch grow, ...
LEMMA MultiplesGrow ==
  ASSUME NEW B \in Nat, B # 0, NEW m \in Nat, NEW n \in Nat, m < n
  PROVE  m * B < n * B /\ (m + 1) * B <= n * B /\ (m + 1) * B = m * B + B
<1>1. (m + 1) * B = m * B + B
  OBVIOUS
<1>2. (m + 1) * B <= n * B
  OBVIOUS
<1> QED
  BY <1>1, <1>2

\* ... and division finds the last one below a number.
LEMMA LastMultiple ==
  ASSUME NEW B \in Nat, B # 0, NEW T \in Nat, NEW a \in Nat, a * B < T, T <= (a + 1) * B
  PROVE  (T - 1) \div B = a
<1> DEFINE q == (T - 1) \div B
<1>1. T - 1 \in Nat
  OBVIOUS
<1>2. q \in Nat /\ q * B <= T - 1 /\ T - 1 < (q + 1) * B
  BY <1>1
<1> HIDE DEF q
<1>3. ~(a < q)
  <2> SUFFICES ASSUME a < q PROVE FALSE
    OBVIOUS
  <2>1. a + 1 = q \/ a + 1 < q
    BY <1>2
  <2>2. (a + 1) * B <= q * B
    BY <1>2, <2>1, MultiplesGrow
  <2> QED
    BY <1>2, <2>2
<1>4. ~(q < a)
  <2> SUFFICES ASSUME q < a PROVE FALSE
    OBVIOUS
  <2>1. q + 1 = a \/ q + 1 < a
    BY <1>2
  <2>2. (q + 1) * B <= a * B
    BY <1>2, <2>1, MultiplesGrow
  <2> QED
    BY <1>2, <2>2
<1>5. q = a
  BY <1>2, <1>3, <1>4
<1> QED
  BY <1>5 DEF q

\* All the rows are sent in batches that cover the cache.
LEMMA AllBatched ==
  ASSUME NEW batches, Batched(batches), sent = TrackRows
  PROVE  {stdout[j].offset : j \in batches} = BatchOffsets
<1>1. PICK n \in 0..TrackRows :
        /\ {stdout[j].offset : j \in batches} = {m * BatchRows : m \in 0..(n - 1)}
        /\ sent = n * BatchRows \/ (sent = TrackRows /\ TrackRows <= n * BatchRows)
        /\ n # 0 => (n - 1) * BatchRows < TrackRows
  BY DEF Batched
<1>2. TrackRows \in Nat /\ TrackRows # 0 /\ BatchRows \in Nat /\ BatchRows # 0
  BY WorkerAssumption
<1>3. n \in Nat /\ n # 0
  <2>1. 0 * BatchRows = 0
    BY <1>2
  <2>2. 0 * BatchRows = 0 => n # 0
    BY <1>1, <1>2
  <2> QED
    BY <1>2, <2>1, <2>2
<1> DEFINE a == n - 1
<1>4. a \in Nat /\ n = a + 1
  BY <1>3
<1>5. a * BatchRows < TrackRows
  BY <1>1, <1>3
<1> HIDE DEF a
<1>6. TrackRows <= (a + 1) * BatchRows
  <2>1. TrackRows = n * BatchRows \/ TrackRows <= n * BatchRows
    BY <1>1
  <2>2. n * BatchRows = (a + 1) * BatchRows
    BY <1>4
  <2> HIDE <1>4
  <2>3. (a + 1) * BatchRows \in Nat
    BY <1>2, <1>4
  <2> QED
    BY <1>2, <2>1, <2>2, <2>3
<1>7. (TrackRows - 1) \div BatchRows = a
  BY <1>2, <1>4, <1>5, <1>6, LastMultiple
<1>8. n - 1 = a
  BY <1>4
<1> QED
  BY <1>1, <1>7, <1>8 DEF BatchOffsets

\* What a render in progress is of.
LEMMA RenderTyped ==
  ASSUME OrderInv, Serving, thread = "render"
  PROVE  /\ command \in 1..Len(received) /\ received[command].method = "track_render"
         /\ received[command].operation = operation /\ kind = "track"
         /\ command \in TakenRenders
         /\ Revision \in Nat /\ Revision = received[command].revision /\ PreviewRow \in Nat
         /\ latest \in Nat /\ operation \in Nat
<1>1. /\ TypeOK /\ command # 0 /\ command \in 0..Len(received) /\ kind = "track"
      /\ latest \in Nat /\ operation \in Nat
  BY ServingTyped DEF TypeOK, DomainsOK, IdsOK, CountersOK, IInv, Places
<1>2. command \in Taken
  BY <1>1 DEF Taken
<1>3. command \in 1..Len(received)
  BY <1>2, ServingTyped
<1>4. received[command].method = "track_render" /\ received[command].operation = operation
  BY <1>2 DEF Serving, TakenIsOwn
<1>5. received[command] \in Request
  BY <1>1, <1>3 DEF TypeOK, HistoryOK
<1>6. received[command].revision \in Nat /\ received[command].preview \in Nat
  BY <1>5 DEF Request
<1> QED
  BY <1>1, <1>2, <1>3, <1>4, <1>6 DEF TakenRenders, Revision, PreviewRow

\* CompletionTold: the completion of the latest render.
LEMMA CompletionTold ==
  ASSUME OrderInv, Serving, [Next]_vars, RendersTold, LatestOnly, Rendered, Rendering,
         AllSent, Emit(ReplyLine(command, "ok", Revision)), UNCHANGED received
  PROVE  RendersTold'
<1> DEFINE next == Len(stdout) + 1
<1>1. /\ command \in 1..Len(received) /\ received[command].method = "track_render"
      /\ received[command].operation = operation
      /\ Revision = received[command].revision /\ Revision = latest
  BY RenderTyped DEF Rendering, Superseded
<1>2. /\ \A o, name : EventsNamed(o, name)' = EventsNamed(o, name)
      /\ \A o : Completions(o)' = Completions(o) \cup IF o = operation THEN {next} ELSE {}
      /\ \A o : Displacements(o)' = Displacements(o)
      /\ stdout'[next].id = command /\ stdout'[next].revision = latest
      /\ \A i \in Written : i < next
      /\ Replies' = Replies \cup {next} /\ RevisionsTold'
  <2>1. /\ command \in 1..Len(received') /\ received'[command].method = "track_render"
        /\ received'[command].operation = operation /\ Revision = received'[command].revision
    BY <1>1
  <2>2. /\ \A o, name : EventsNamed(o, name)' = EventsNamed(o, name)
        /\ \A o : Completions(o)' = Completions(o) \cup
             IF "ok" = "ok" /\ o = received'[command].operation THEN {next} ELSE {}
        /\ \A o : Displacements(o)' = Displacements(o) \cup
             IF "ok" = "superseded" /\ o = received'[command].operation THEN {next} ELSE {}
        /\ stdout'[next].id = command /\ stdout'[next].revision = Revision
        /\ \A i \in Written : i < next
        /\ Replies' = Replies \cup {next} /\ RevisionsTold'
    BY <2>1, CompletionAppended DEF RendersTold
  <2> HIDE DEF next
  <2> QED
    BY <1>1, <2>1, <2>2
<1> HIDE DEF next
<1>3. NewestRevisionOnly'
  <2>1. \A o : Progress(o)' = Progress(o) \cup IF o = operation THEN {next} ELSE {}
    BY <1>2 DEF Progress, Completions
  <2>2. \A i \in Progress(operation) \cup Displacements(operation) :
           stdout[i].revision <= stdout'[next].revision
    BY <1>2 DEF LatestOnly
  <2>3. \A o : \A i \in Progress(o)' \cup Displacements(o)' :
           i \in Progress(o) \cup Displacements(o) \/ i = next
    BY <1>2, <2>1
  <2>4. \A o : \A j \in Progress(o)' : j \in Progress(o) \/
             (j = next /\ \A i \in Progress(o) \cup Displacements(o) :
                            stdout[i].revision <= stdout'[j].revision)
    BY <2>1, <2>2
  <2> QED
    BY <1>2, <2>3, <2>4, NewestKept DEF RendersTold
<1>4. \A o, name, rev : /\ EventsOf(o, name, rev)' = EventsOf(o, name, rev)
                        /\ \A k \in EventsOf(o, name, rev) : stdout'[k] = stdout[k] /\ k < next
  <2>1. \A o, name : \A k \in EventsNamed(o, name) : stdout'[k] = stdout[k] /\ k < next
    BY <1>2, OldLines DEF EventsNamed, OperationEvents
  <2> QED
    BY <1>2, <2>1 DEF EventsOf
<1>5. CompleteBeforePublication'
  <2>1. ASSUME NEW i \in Replies',
               received'[stdout'[i].id].method = "track_render", stdout'[i].name = "ok"
        PROVE  Whole(i, received[stdout[i].id])'
    <3>1. CASE i \in Replies
      <4>1. stdout'[i] = stdout[i] /\ received'[stdout[i].id] = received[stdout[i].id]
        BY <3>1, OldLines
      <4>2. Whole(i, received[stdout[i].id])
        BY <2>1, <3>1, <4>1, CompleteSays DEF RendersTold
      <4> DEFINE R == received[stdout[i].id]
      <4>3. R' = R
        BY <4>1
      <4>4. Whole(i, R)
        BY <4>2
      <4> HIDE DEF R
      <4>5. Whole(i, R)'
        BY <1>4, <4>3, <4>4, WholeKept
      <4> QED
        BY <4>5 DEF R
    <3>2. CASE i = next
      <4> DEFINE batches == EventsOf(operation, "track_frame_batch", latest)
                 previews == EventsOf(operation, "track_preview", latest)
      <4>1. /\ Batched(batches)
            /\ \A j, k \in batches : j < k => stdout[j].offset < stdout[k].offset
            /\ sent # 0 => PreviewRow = 0 \/ previewed
            /\ IF previewed THEN PreviewRow # 0 /\ \E p : previews = {p} ELSE previews = {}
            /\ \A j \in previews, k \in batches : j < k
        BY DEF Rendered, SentAs
      <4>2. {stdout[j].offset : j \in batches} = BatchOffsets
        BY <4>1, AllBatched DEF AllSent
      <4>3. Cardinality(previews) = IF PreviewRow = 0 THEN 0 ELSE 1
        <5>1. sent # 0
          BY WorkerAssumption DEF AllSent
        <5> HIDE DEF previews
        <5>2. CASE previewed
          BY <4>1, <5>2, FS_Singleton
        <5>3. CASE ~previewed
          BY <4>1, <5>1, <5>3, FS_EmptySet
        <5> QED
          BY <5>2, <5>3
      <4>4. PICK R : R = received[command]
        OBVIOUS
      <4>5. R.operation = operation /\ R.revision = latest /\ R.preview = PreviewRow
        BY <1>1, <4>4 DEF Revision, PreviewRow
      <4>6. /\ EventsOf(R.operation, "track_frame_batch", R.revision)' = batches
            /\ EventsOf(R.operation, "track_preview", R.revision)' = previews
            /\ \A j \in batches : stdout'[j] = stdout[j] /\ j < next
        BY <1>4, <4>5
      <4>7. BatchOffsets' = BatchOffsets
        BY DEF BatchOffsets
      <4> HIDE DEF batches, previews
      <4>8. Whole(i, R)'
        BY <3>2, <4>1, <4>2, <4>3, <4>5, <4>6, <4>7 DEF Whole
      <4>9. received'[stdout'[i].id] = R
        BY <1>2, <3>2, <4>4
      <4> QED
        BY <4>8, <4>9
    <3> QED
      BY <1>2, <2>1, <3>1, <3>2
  <2> QED
    BY <2>1, CompleteSays
<1> QED
  BY <1>2, <1>3, <1>5 DEF RendersTold
-----------------------------------------------------------------------------
(* The renders of a track, and how far what was said of them is. *)

RendersStand == RendersInOrder /\ LatestOnly /\ Rendered

\* What is queued and taken was received.
LEMMA RendersTyped ==
  ASSUME OrderInv, Serving, [Next]_vars
  PROVE  /\ Len(received) \in Nat /\ latest \in Nat /\ operation \in Nat
         /\ operations \in Nat /\ operation <= operations
         /\ QueuedRenders \subseteq queue /\ QueuedRenders \subseteq 1..Len(received)
         /\ TakenRenders \subseteq 1..Len(received)
         /\ \A id \in 1..Len(received) : /\ received'[id] = received[id]
                                         /\ received[id].revision \in Nat
                                         /\ id \in 1..Len(received')
         /\ rows \in Nat /\ sent \in Nat /\ previewed \in BOOLEAN
<1>1. /\ Len(received) \in Nat /\ latest \in Nat /\ operation \in Nat /\ operations \in Nat
      /\ rows \in Nat /\ sent \in Nat /\ previewed \in BOOLEAN
      /\ received \in Seq(Request) /\ queue \subseteq 1..Len(received)
  BY ServingTyped DEF TypeOK, CountersOK, HistoryOK, FlagsOK
<1>2. QueuedRenders \subseteq queue /\ TakenRenders \subseteq Taken
  BY DEF QueuedRenders, TakenRenders
<1>3. \A id \in 1..Len(received) : received'[id] = received[id] /\ id \in 1..Len(received')
  BY SentKept
<1>4. \A id \in 1..Len(received) : received[id].revision \in Nat
  <2>1. \A id \in 1..Len(received) : received[id] \in Request
    BY <1>1
  <2> QED
    BY <2>1 DEF Request
<1>5. operation <= operations
  BY <1>1, ServingTyped DEF Standing, Numbered
<1> QED
  BY <1>1, <1>2, <1>3, <1>4, <1>5, ServingTyped

\* Unspoken: nothing is said of a render but that one of them is superseded.
Unspoken ==
  /\ EventsNamed(operation, "track_preview")' = EventsNamed(operation, "track_preview")
  /\ EventsNamed(operation, "track_frame_batch")' = EventsNamed(operation, "track_frame_batch")
  /\ Completions(operation)' = Completions(operation)
  /\ \A i \in Displacements(operation)' :
       i \in Displacements(operation) \/ stdout'[i].revision <= latest

\* RendersAside: a step that lets the renders be.
LEMMA RendersAside ==
  ASSUME OrderInv, Serving, [Next]_vars, RendersStand, Unspoken,
         UNCHANGED <<operation, latest>>, pc' = "displace" <=> pc = "displace",
         QueuedRenders' \subseteq QueuedRenders, TakenRenders' \subseteq TakenRenders,
         Unbegun' => Unbegun,
         Rendering' => Rendering /\ UNCHANGED <<command, rows, sent, previewed>>
  PROVE  RendersStand'
<1>1. RendersInOrder'
  <2>1. pc' = "displace" => UNCHANGED received
    BY SentKept DEF Hears, Reads
  <2>2. \A id \in QueuedRenders \cup TakenRenders : received'[id] = received[id]
    BY RendersTyped
  <2>3. pc = "displace" => Len(received) \in 1..Len(received)
    BY ServingTyped DEF TypeOK, DomainsOK
  <2> QED
    BY <2>1, <2>2, <2>3 DEF RendersStand, RendersInOrder
<1>2. /\ \A o : \A i \in RenderEvents(o) \cup Completions(o) \cup Displacements(o) :
              stdout'[i] = stdout[i]
  BY OldLines
<1>3. LatestOnly'
  <2>1. Progress(operation)' = Progress(operation) /\ RenderEvents(operation)' = RenderEvents(operation)
    BY DEF Progress, RenderEvents, Completions, Unspoken
  <2>2. Progress(operation) \subseteq RenderEvents(operation) \cup Completions(operation)
    BY DEF Progress, RenderEvents, Completions
  <2> HIDE DEF Progress
  <2> QED
    BY <1>2, <2>1, <2>2 DEF RendersStand, LatestOnly, Unspoken
<1>4. Rendered'
  <2>1. ASSUME NEW name \in {"track_preview", "track_frame_batch"}
        PROVE  /\ EventsOf(operation, name, latest)' = EventsOf(operation, name, latest)
               /\ \A j \in EventsOf(operation, name, latest) : stdout'[j] = stdout[j]
    BY <1>2 DEF EventsOf, RenderEvents, Unspoken
  <2>2. Rendering' => PreviewRow' = PreviewRow
    <3>1. thread = "render" => command \in 1..Len(received)
      BY RenderTyped
    <3> QED
      BY <3>1, RendersTyped DEF Rendering, PreviewRow
  <2> DEFINE batches == EventsOf(operation, "track_frame_batch", latest)
             previews == EventsOf(operation, "track_preview", latest)
  <2>3. /\ batches' = batches /\ previews' = previews
        /\ \A j \in batches : stdout'[j] = stdout[j]
    BY <2>1
  <2>4. PICK B, P : B = batches /\ P = previews
    OBVIOUS
  <2>5. Rendering' => SentAs(B, P)
    BY <2>4 DEF RendersStand, Rendered
  <2>6. {stdout'[j].offset : j \in B} = {stdout[j].offset : j \in B}
    BY <2>3, <2>4
  <2>7. ASSUME Rendering'
        PROVE  SentAs(B, P)'
    <3>1. UNCHANGED <<sent, rows, previewed>> /\ PreviewRow' = PreviewRow
      BY <2>2, <2>7
    <3>2. Batched(B)'
      BY <2>5, <2>6, <2>7, <3>1 DEF SentAs, Batched
    <3>3. \A j \in B : stdout'[j] = stdout[j]
      BY <2>3, <2>4
    <3> QED
      BY <2>5, <2>7, <3>1, <3>2, <3>3 DEF SentAs
  <2> QED
    BY <2>3, <2>4, <2>7 DEF Rendered
<1> QED
  BY <1>1, <1>3, <1>4 DEF RendersStand

\* With a render of the latest revision taken, none is queued.
LEMMA LatestIsTaken ==
  ASSUME OrderInv, Serving, [Next]_vars, RendersInOrder, MutexFree, Len(received) \in Nat,
         NEW w \in TakenRenders, received[w].revision = latest
  PROVE  pc # "displace" /\ QueuedRenders = {}
<1>1. pc # "displace"
  BY DEF MutexFree
<1>2. \A q \in QueuedRenders : received[q].revision = latest
  BY <1>1 DEF RendersInOrder
<1>3. \A q \in QueuedRenders : received[w].revision < received[q].revision
  BY DEF RendersInOrder
<1> QED
  BY <1>1, <1>2, <1>3, RendersTyped

\* Where a render is while it executes.
LEMMA ExecutesLatest ==
  ASSUME OrderInv, Serving, [Next]_vars, RendersInOrder, MutexFree,
         thread = "render", ~Superseded,
         UNCHANGED <<received, pc, operation, latest, queue, thread, command>>
  PROVE  /\ Rendering /\ Rendering' /\ ~Unbegun' /\ RendersInOrder'
         /\ Revision = latest /\ PreviewRow' = PreviewRow
<1>1. command \in TakenRenders /\ received[command].revision = latest
  BY RenderTyped DEF Superseded, Revision
<1>2. pc # "displace" /\ QueuedRenders = {}
  BY <1>1, RendersTyped, LatestIsTaken
<1>3. Taken' = Taken /\ QueuedRenders' = QueuedRenders
  BY DEF Taken, QueuedRenders
<1>4. TakenRenders' = TakenRenders
  BY <1>3 DEF TakenRenders
<1>5. RendersInOrder'
  BY <1>2, <1>3, <1>4 DEF RendersInOrder
<1> QED
  BY <1>2, <1>3, <1>5 DEF Rendering, Superseded, Revision, PreviewRow, Unbegun

\* With no row sent there is no batch.
LEMMA NothingBatched ==
  ASSUME NEW batches, Batched(batches), sent = 0
  PROVE  batches = {}
<1>1. PICK n \in 0..TrackRows :
        /\ {stdout[j].offset : j \in batches} = {m * BatchRows : m \in 0..(n - 1)}
        /\ sent = n * BatchRows \/ sent = TrackRows
  BY DEF Batched
<1>2. TrackRows \in Nat /\ TrackRows # 0 /\ BatchRows \in Nat /\ BatchRows # 0
  BY WorkerAssumption
<1>3. n = 0
  <2>1. n * BatchRows = 0
    BY <1>1, <1>2
  <2> SUFFICES ASSUME n # 0 PROVE FALSE
    OBVIOUS
  <2>2. 0 < n /\ n \in Nat
    BY <1>2
  <2>3. 0 * BatchRows < n * BatchRows /\ 0 * BatchRows = 0
    BY <1>2, <2>2, MultiplesGrow
  <2> QED
    BY <2>1, <2>3
<1>4. {m * BatchRows : m \in 0..(n - 1)} = {}
  BY <1>3
<1> QED
  BY <1>1, <1>4

\* BeginStands: a render that begins has nothing said of it.
LEMMA BeginStands ==
  ASSUME OrderInv, Serving, [Next]_vars, RendersStand, TrackBegin
  PROVE  RendersStand'
<1> USE DEF mainVars, sharedVars, backendVars
<1>1. /\ UNCHANGED <<received, pc, operation, latest, queue, command, stdout>>
      /\ thread = "command" /\ thread' = "render" /\ ~Superseded
      /\ sent' = 0 /\ rows' = 0 /\ previewed' = FALSE
      /\ Unbegun
  BY DEF TrackBegin, Unbegun
<1>2. QueuedRenders' = QueuedRenders /\ TakenRenders' = TakenRenders
  BY <1>1 DEF QueuedRenders, TakenRenders, Taken
<1>3. RendersInOrder'
  BY <1>1, <1>2 DEF RendersStand, RendersInOrder
<1>4. /\ \A o, name : EventsNamed(o, name)' = EventsNamed(o, name)
      /\ \A o : Completions(o)' = Completions(o) /\ Displacements(o)' = Displacements(o)
  <2>1. Replies' = Replies /\ \A o, name : EventsNamed(o, name)' = EventsNamed(o, name)
    BY <1>1, NothingAppended
  <2> QED
    BY <1>1, <2>1 DEF Completions, Displacements, RenderReplies
<1>5. LatestOnly'
  <2>1. Progress(operation)' = Progress(operation) /\ RenderEvents(operation)' = RenderEvents(operation)
    BY <1>1, <1>4 DEF Progress, RenderEvents, Completions
  <2> HIDE DEF Progress, RenderEvents
  <2>2. Unbegun' => Unbegun
    BY <1>1
  <2> QED
    BY <1>1, <1>4, <2>1, <2>2 DEF RendersStand, LatestOnly
<1>6. Rendered'
  <2>1. /\ EventsOf(operation, "track_frame_batch", latest)' = {}
        /\ EventsOf(operation, "track_preview", latest)' = {}
    BY <1>1, <1>4 DEF EventsOf, RenderEvents, RendersStand, LatestOnly
  <2>2. SentAs({}, {})'
    <3>1. TrackRows \in Nat /\ BatchRows \in Nat
      BY WorkerAssumption
    <3>2. Batched({})'
      <4>1. {stdout'[j].offset : j \in {}} = {m * BatchRows : m \in 0..(0 - 1)}
        OBVIOUS
      <4>2. sent' = 0 * BatchRows
        BY <1>1, <3>1
      <4> QED
        BY <3>1, <4>1, <4>2 DEF Batched
    <3> QED
      BY <1>1, <3>1, <3>2 DEF SentAs
  <2> QED
    BY <2>1, <2>2 DEF Rendered
<1> QED
  BY <1>3, <1>5, <1>6 DEF RendersStand

\* ProgressStands: an event of the latest render.
LEMMA ProgressStands ==
  ASSUME OrderInv, Serving, [Next]_vars, RendersTold, RendersStand, MutexFree,
         thread = "render", ~Superseded,
         UNCHANGED <<received, pc, operation, latest, queue, thread, command>>,
         NEW name \in {"track_preview", "track_frame_batch"}, NEW k,
         Emit(EventLine(name, Revision, k))
  PROVE  LET next == Len(stdout) + 1 IN
         /\ RendersTold' /\ RendersInOrder' /\ LatestOnly'
         /\ \A nm \in {"track_preview", "track_frame_batch"} :
              /\ EventsOf(operation, nm, latest)' = EventsOf(operation, nm, latest) \cup
                   IF nm = name THEN {next} ELSE {}
              /\ \A j \in EventsOf(operation, nm, latest) : j < next /\ stdout'[j] = stdout[j]
         /\ stdout'[next].offset = k
<1> DEFINE next == Len(stdout) + 1
<1>1. /\ Rendering /\ Rendering' /\ ~Unbegun' /\ RendersInOrder' /\ Revision = latest
  BY ExecutesLatest DEF RendersStand
<1>2. /\ RendersTold'
      /\ \A o : Completions(o)' = Completions(o) /\ Displacements(o)' = Displacements(o)
      /\ \A o, nm : EventsNamed(o, nm)' =
           EventsNamed(o, nm) \cup IF o = operation /\ nm = name THEN {next} ELSE {}
      /\ stdout'[next].revision = latest /\ stdout'[next].offset = k
      /\ \A i \in Written : i < next
  BY <1>1, ProgressTold DEF RendersStand
<1> HIDE DEF next
<1>3. \A o : \A i \in RenderEvents(o) \cup Completions(o) \cup Displacements(o) :
        stdout'[i] = stdout[i] /\ i < next
  BY <1>2, OldLines
<1>4. LatestOnly'
  <2>1. Progress(operation)' = Progress(operation) \cup {next}
    BY <1>2 DEF Progress, Completions
  <2>2. Progress(operation) \subseteq RenderEvents(operation) \cup Completions(operation)
    BY DEF Progress, RenderEvents, Completions
  <2>3. latest \in Nat
    BY RendersTyped
  <2> HIDE DEF Progress
  <2> QED
    BY <1>1, <1>2, <1>3, <2>1, <2>2, <2>3 DEF RendersStand, LatestOnly
<1>5. ASSUME NEW nm \in {"track_preview", "track_frame_batch"}
      PROVE  /\ EventsOf(operation, nm, latest)' = EventsOf(operation, nm, latest) \cup
                   IF nm = name THEN {next} ELSE {}
             /\ \A j \in EventsOf(operation, nm, latest) : j < next /\ stdout'[j] = stdout[j]
  <2>1. EventsNamed(operation, nm) \subseteq RenderEvents(operation)
    BY DEF RenderEvents
  <2>2. EventsNamed(operation, nm)' = EventsNamed(operation, nm) \cup IF nm = name THEN {next} ELSE {}
    BY <1>2
  <2> QED
    BY <1>2, <1>3, <2>1, <2>2 DEF EventsOf
<1> QED
  BY <1>1, <1>2, <1>4, <1>5 DEF next

\* One more batch.
LEMMA BatchedOnce ==
  ASSUME NEW batches, NEW next, next \notin batches, Batched(batches), sent < TrackRows,
         sent \in Nat, stdout'[next].offset = sent,
         \A j \in batches : stdout'[j] = stdout[j],
         sent' = IF sent + BatchRows < TrackRows THEN sent + BatchRows ELSE TrackRows
  PROVE  /\ Batched(batches \cup {next})' /\ sent' <= TrackRows
         /\ \A j \in batches : stdout'[j].offset < stdout'[next].offset
<1>1. PICK n \in 0..TrackRows :
        /\ {stdout[j].offset : j \in batches} = {m * BatchRows : m \in 0..(n - 1)}
        /\ sent = n * BatchRows \/ (sent = TrackRows /\ TrackRows <= n * BatchRows)
        /\ n # 0 => (n - 1) * BatchRows < TrackRows
  BY DEF Batched
<1>2. TrackRows \in Nat /\ BatchRows \in Nat /\ BatchRows # 0 /\ n \in Nat
  BY WorkerAssumption
<1>3. sent = n * BatchRows
  BY <1>1, <1>2
<1>4. (n + 1) * BatchRows = sent + BatchRows
  <2>1. (n + 1) * BatchRows = n * BatchRows + BatchRows
    BY <1>2
  <2> QED
    BY <1>3, <2>1
<1>5. n <= sent
  <2>1. n * 1 <= n * BatchRows
    BY <1>2
  <2> QED
    BY <1>2, <1>3, <2>1
<1>6. n + 1 \in 0..TrackRows
  BY <1>2, <1>5
<1>7. {stdout'[j].offset : j \in batches \cup {next}} = {m * BatchRows : m \in 0..n}
  <2>1. {stdout'[j].offset : j \in batches} = {stdout[j].offset : j \in batches}
    OBVIOUS
  <2>2. {stdout'[j].offset : j \in batches \cup {next}}
          = {stdout'[j].offset : j \in batches} \cup {stdout'[next].offset}
    OBVIOUS
  <2>3. 0..n = 0..(n - 1) \cup {n}
    BY <1>2
  <2>4. {m * BatchRows : m \in 0..n} = {m * BatchRows : m \in 0..(n - 1)} \cup {n * BatchRows}
    BY <2>3
  <2> QED
    BY <1>1, <1>3, <2>1, <2>2, <2>4
<1>8. ASSUME NEW j \in batches
      PROVE  stdout'[j].offset < stdout'[next].offset
  <2>1. stdout[j].offset \in {m * BatchRows : m \in 0..(n - 1)}
    BY <1>1
  <2>2. PICK m \in 0..(n - 1) : stdout[j].offset = m * BatchRows
    BY <2>1
  <2>3. m \in Nat /\ m < n
    BY <1>2
  <2>4. m * BatchRows < n * BatchRows
    BY <1>2, <2>3, MultiplesGrow
  <2> QED
    BY <1>3, <2>2, <2>4
<1>9. sent' = (n + 1) * BatchRows \/ (sent' = TrackRows /\ TrackRows <= (n + 1) * BatchRows)
  BY <1>2, <1>4
<1>10. (n + 1) - 1 = n
  BY <1>2
<1>11. Batched(batches \cup {next})'
  BY <1>3, <1>6, <1>7, <1>9, <1>10 DEF Batched
<1> QED
  BY <1>2, <1>8, <1>11

\* ExecutionStands: each execution adds a row, and one of them the preview.
LEMMA ExecutionStands ==
  ASSUME OrderInv, Serving, [Next]_vars, RendersTold, RendersStand,
         TrackExecute \/ TrackLatePreview \/ TrackBatch
  PROVE  RendersStand' /\ RendersTold'
<1> USE DEF mainVars, sharedVars, backendVars
<1> DEFINE batches == EventsOf(operation, "track_frame_batch", latest)
           previews == EventsOf(operation, "track_preview", latest)
           next == Len(stdout) + 1
<1>1. /\ UNCHANGED <<received, pc, operation, latest, queue, thread, command>>
      /\ thread = "render" /\ MutexFree /\ ~Superseded
  BY DEF TrackExecute, TrackLatePreview, TrackBatch
<1>2. /\ Rendering /\ Rendering' /\ ~Unbegun' /\ RendersInOrder' /\ Revision = latest
      /\ PreviewRow' = PreviewRow
  BY <1>1, ExecutesLatest DEF RendersStand
<1>3. /\ TrackRows \in Nat /\ TrackRows # 0 /\ sent \in Nat /\ rows \in Nat
      /\ PreviewRow \in Nat
  BY <1>1, WorkerAssumption, RendersTyped, RenderTyped
<1>4. PICK B, P : B = batches /\ P = previews
  OBVIOUS
<1>5. SentAs(B, P)
  BY <1>2, <1>4 DEF RendersStand, Rendered
<1>6. ASSUME UNCHANGED <<stdout, previewed>>, TrackExecute
      PROVE  RendersStand' /\ RendersTold'
  <2>1. rows < TrackRows /\ rows' = rows + 1 /\ sent' = sent /\ previewed' = previewed
    BY <1>6 DEF TrackExecute
  <2>2. Replies' = Replies /\ \A o, name : EventsNamed(o, name)' = EventsNamed(o, name)
    BY <1>6, NothingAppended
  <2>3. \A o : Completions(o)' = Completions(o) /\ Displacements(o)' = Displacements(o)
    BY <1>1, <1>6, <2>2 DEF Completions, Displacements, RenderReplies
  <2>4. RendersTold'
    <3>1. Hush /\ (RevisionsTold => RevisionsTold')
      BY <1>6, EventHush
    <3> QED
      BY <3>1, HushKeeps DEF RendersTold
  <2>5. LatestOnly'
    <3>1. /\ Progress(operation)' = Progress(operation)
          /\ RenderEvents(operation)' = RenderEvents(operation)
      BY <1>1, <2>2, <2>3 DEF Progress, RenderEvents, Completions
    <3> HIDE DEF Progress, RenderEvents
    <3> QED
      BY <1>1, <1>2, <1>6, <2>3, <3>1 DEF RendersStand, LatestOnly
  <2>6. EventsOf(operation, "track_frame_batch", latest)' = B
        /\ EventsOf(operation, "track_preview", latest)' = P
    BY <1>1, <1>4, <1>6, <2>2 DEF EventsOf
  <2>7. SentAs(B, P)'
    <3>1. Batched(B)'
      BY <1>5, <1>6, <2>1 DEF SentAs, Batched
    <3>2. sent = 0
      BY <1>3, <1>5, <2>1 DEF SentAs
    <3>3. B = {}
      BY <1>5, <3>2, NothingBatched DEF SentAs
    <3>4. sent' = 0 /\ rows' <= TrackRows
      BY <1>3, <2>1, <3>2
    <3> QED
      BY <1>2, <1>3, <1>5, <2>1, <3>1, <3>3, <3>4 DEF SentAs
  <2> QED
    BY <1>2, <2>4, <2>5, <2>6, <2>7 DEF RendersStand, Rendered
<1>7. ASSUME Emit(EventLine("track_preview", Revision, 0)), ~previewed, previewed' = TRUE,
             UNCHANGED sent, PreviewRow # 0, rows' \in Nat, rows' <= TrackRows
      PROVE  RendersStand' /\ RendersTold'
  <2>1. sent = 0 /\ P = {} /\ sent' = 0
    BY <1>5, <1>7 DEF SentAs
  <2>2. B = {}
    BY <1>5, <2>1, NothingBatched DEF SentAs
  <2>3. /\ RendersTold' /\ LatestOnly'
        /\ \A nm \in {"track_preview", "track_frame_batch"} :
             EventsOf(operation, nm, latest)' = EventsOf(operation, nm, latest) \cup
               IF nm = "track_preview" THEN {next} ELSE {}
    BY <1>1, <1>7, ProgressStands
  <2>4. /\ EventsOf(operation, "track_frame_batch", latest)' = {}
        /\ EventsOf(operation, "track_preview", latest)' = {next}
    BY <1>4, <2>1, <2>2, <2>3
  <2>5. PICK p : p = next
    OBVIOUS
  <2>6. SentAs({}, {p})'
    <3>1. Batched({})'
      BY <1>5, <2>1, <2>2 DEF SentAs, Batched
    <3> QED
      BY <1>2, <1>3, <1>7, <2>1, <3>1 DEF SentAs
  <2> QED
    BY <1>2, <2>3, <2>4, <2>5, <2>6 DEF RendersStand, Rendered
<1>8. ASSUME TrackBatch
      PROVE  RendersStand' /\ RendersTold'
  <2>1. /\ rows = TrackRows /\ (PreviewRow = 0 \/ previewed) /\ sent < TrackRows
        /\ Emit(EventLine("track_frame_batch", Revision, sent))
        /\ sent' = IF sent + BatchRows < TrackRows THEN sent + BatchRows ELSE TrackRows
        /\ UNCHANGED <<rows, previewed>>
    BY <1>8 DEF TrackBatch
  <2>2. /\ RendersTold' /\ LatestOnly'
        /\ \A nm \in {"track_preview", "track_frame_batch"} :
             /\ EventsOf(operation, nm, latest)' = EventsOf(operation, nm, latest) \cup
                  IF nm = "track_frame_batch" THEN {next} ELSE {}
             /\ \A j \in EventsOf(operation, nm, latest) : j < next /\ stdout'[j] = stdout[j]
        /\ stdout'[next].offset = sent
    <3>1. PICK k : k = sent
      OBVIOUS
    <3> QED
      BY <1>1, <2>1, <3>1, ProgressStands
  <2>3. PICK n : n = next
    OBVIOUS
  <2>4. next \in Nat
    BY ServingTyped DEF TypeOK, HistoryOK
  <2>5. /\ EventsOf(operation, "track_frame_batch", latest)' = B \cup {n}
        /\ EventsOf(operation, "track_preview", latest)' = P
        /\ \A j \in B \cup P : j < n /\ stdout'[j] = stdout[j]
        /\ stdout'[n].offset = sent /\ n \in Nat
    BY <1>4, <2>2, <2>3, <2>4
  <2> HIDE DEF next, batches, previews
  <2>6. B \subseteq Nat /\ P \subseteq Nat
    BY <1>4, OldLines DEF EventsOf, EventsNamed, OperationEvents, batches, previews
  <2>7. n \notin B
    BY <2>5, <2>6
  <2>8. /\ Batched(B \cup {n})' /\ sent' <= TrackRows
        /\ \A j \in B : stdout'[j].offset < stdout'[n].offset
    BY <1>3, <1>5, <2>1, <2>5, <2>7, BatchedOnce DEF SentAs
  <2>9. \A j, k \in B \cup {n} : j < k => stdout'[j].offset < stdout'[k].offset
    <3>1. \A j, k \in B : j < k => stdout[j].offset < stdout[k].offset
      BY <1>5 DEF SentAs
    <3>2. \A j, k \in B : j < k => stdout'[j].offset < stdout'[k].offset
      BY <2>5, <3>1
    <3>3. \A k \in B \cup {n} : ~(n < k)
      BY <2>5, <2>6
    <3> QED
      BY <2>8, <3>2, <3>3
  <2>10. \A j \in P, k \in B \cup {n} : j < k
    BY <1>5, <2>5 DEF SentAs
  <2>11. SentAs(B \cup {n}, P)'
    BY <1>2, <1>3, <1>5, <2>1, <2>8, <2>9, <2>10 DEF SentAs
  <2> QED
    BY <1>2, <2>2, <2>5, <2>11 DEF RendersStand, Rendered
<1>9. CASE TrackExecute
  <2>1. CASE UNCHANGED <<previewed, stdout>>
    BY <1>6, <1>9, <2>1
  <2>2. CASE ~UNCHANGED <<previewed, stdout>>
    <3>1. /\ Emit(EventLine("track_preview", Revision, 0)) /\ ~previewed /\ previewed' = TRUE
          /\ UNCHANGED sent /\ PreviewRow \in 1..rows' /\ rows < TrackRows /\ rows' = rows + 1
      BY <1>9, <2>2 DEF TrackExecute
    <3> QED
      BY <1>3, <1>7, <3>1
  <2> QED
    BY <2>1, <2>2
<1>10. CASE TrackLatePreview
  <2>1. /\ Emit(EventLine("track_preview", Revision, 0)) /\ ~previewed /\ previewed' = TRUE
        /\ UNCHANGED <<sent, rows>> /\ PreviewRow # 0 /\ rows = TrackRows
    BY <1>10 DEF TrackLatePreview
  <2> QED
    BY <1>3, <1>7, <2>1
<1> QED
  BY <1>8, <1>9, <1>10

\* What says nothing of a render.
Quiet ==
  \/ UNCHANGED stdout
  \/ \E name, n, k : /\ name \notin {"track_preview", "track_frame_batch"}
                     /\ Emit(EventLine(name, n, k))
  \/ \E id \in 1..Len(received') : \E code, n :
       /\ Emit(ReplyLine(id, code, n))
       /\ code \notin {"ok", "superseded"} \/ received'[id].method # "track_render"

\* QuietTold: a quiet step keeps what is said of renders.
LEMMA QuietTold ==
  ASSUME OrderInv, Serving, [Next]_vars, RendersTold, Quiet
  PROVE  RendersTold' /\ Hush
<1>1. Hush /\ (RevisionsTold => RevisionsTold')
  BY EventHush, ReplyHush DEF Quiet
<1> QED
  BY <1>1, HushKeeps DEF RendersTold

\* What lets the renders of the track be.
LetsBe ==
  /\ UNCHANGED <<operation, latest>> /\ (pc' = "displace" <=> pc = "displace")
  /\ QueuedRenders' \subseteq QueuedRenders /\ TakenRenders' \subseteq TakenRenders
  /\ Unbegun' => Unbegun
  /\ Rendering' => Rendering /\ UNCHANGED <<command, rows, sent, previewed>>

\* The threads let them be as long as none is queued or executed.
LEMMA ThreadsLetBe ==
  ASSUME OrderInv, Serving, [Next]_vars, kind' = "track",
         UNCHANGED <<operation, latest>>, pc' = "displace" <=> pc = "displace",
         QueuedRenders' \subseteq QueuedRenders,
         thread' \in {"command", "render"} =>
           UNCHANGED <<thread, command, rows, sent, previewed>>
  PROVE  LetsBe
<1>1. Taken' = IF thread' \in {"command", "render"} THEN {command'} \ {0} ELSE {}
  BY NextReads DEF Taken, IInv, Places
<1>2. Taken' \subseteq Taken
  BY <1>1 DEF Taken
<1>3. \A id \in Taken : received'[id] = received[id]
  BY ServingTyped, RendersTyped
<1>4. TakenRenders' \subseteq TakenRenders
  BY <1>2, <1>3 DEF TakenRenders
<1>5. ASSUME thread \in {"command", "render"}
      PROVE  received'[command] = received[command]
  <2>1. command \in Taken
    BY <1>5, ServingTyped DEF Taken, TypeOK, DomainsOK
  <2> QED
    BY <2>1, <1>3
<1>6. (Unbegun' => Unbegun) /\ (Rendering' => Rendering)
  BY <1>5 DEF Unbegun, Rendering, Superseded, Method, Revision
<1>7. Rendering' => UNCHANGED <<command, rows, sent, previewed>>
  BY DEF Rendering
<1> QED
  BY <1>4, <1>6, <1>7 DEF LetsBe

\* QuietStands: nothing changes of the renders in a step that lets them be.
LEMMA QuietStands ==
  ASSUME OrderInv, Serving, [Next]_vars, RendersTold, RendersStand, Quiet, LetsBe
  PROVE  RendersStand' /\ RendersTold'
<1>1. RendersTold' /\ Hush
  BY QuietTold
<1>2. Unspoken
  BY <1>1 DEF Hush, Unspoken, LetsBe
<1> QED
  BY <1>1, <1>2, RendersAside DEF LetsBe

\* SupersededStands: nor in one that answers a render as superseded.
LEMMA SupersededStands ==
  ASSUME OrderInv, Serving, [Next]_vars, RendersTold, RendersStand, LetsBe,
         NEW x \in 1..Len(received'), NEW n, Emit(ReplyLine(x, "superseded", n)),
         received'[x].method = "track_render", n = received'[x].revision, n <= latest
  PROVE  RendersStand' /\ RendersTold'
<1> DEFINE next == Len(stdout) + 1
<1>1. /\ \A o, name : EventsNamed(o, name)' = EventsNamed(o, name)
      /\ \A o : Completions(o)' = Completions(o)
      /\ \A o : Displacements(o)' \subseteq Displacements(o) \cup {next}
      /\ stdout'[next].revision = n
  BY CompletionAppended DEF RendersTold
<1> HIDE DEF next
<1>2. RendersTold'
  BY SupersededTold
<1>3. operation' = operation
  BY DEF LetsBe
<1>4. Unspoken
  BY <1>1, <1>3 DEF Unspoken
<1> QED
  BY <1>2, <1>4, RendersAside DEF LetsBe

\* TakeStands: a render is taken before it is begun.
LEMMA TakeStands ==
  ASSUME OrderInv, Serving, [Next]_vars, RendersTold, RendersStand, TrackTake
  PROVE  RendersStand' /\ RendersTold'
<1> USE DEF mainVars
<1>1. /\ UNCHANGED <<received, stdout, pc, operation, latest>>
      /\ thread = "check" /\ thread' = "command" /\ MutexFree /\ pc # "displace"
  BY DEF TrackTake, MutexFree
<1>2. PICK id \in queue : command' = id /\ queue' = queue \ {id}
  BY DEF TrackTake, Pop, IsLeast
<1>3. QueuedRenders' = QueuedRenders \ {id}
  BY <1>1, <1>2 DEF QueuedRenders
<1>4. Taken = {} /\ Taken' \subseteq {id}
  BY <1>1, <1>2 DEF Taken
<1>5. /\ TakenRenders = {} /\ TakenRenders' \subseteq {id}
      /\ id \in TakenRenders' => id \in QueuedRenders
  BY <1>1, <1>2, <1>4 DEF TakenRenders, QueuedRenders
<1>6. \A p, q \in QueuedRenders : p = q /\ received[p].revision = latest
  BY <1>1 DEF RendersStand, RendersInOrder
<1>7. Quiet
  BY <1>1 DEF Quiet
<1>8. Unbegun' => Unbegun
  BY <1>1, <1>2, <1>3 DEF Unbegun, QueuedRenders, Method
<1>9. ~Rendering'
  BY <1>1 DEF Rendering
<1>10. RendersTold' /\ Hush
  BY <1>7, QuietTold
<1>11. CASE TakenRenders' = {}
  <2>1. LetsBe
    BY <1>1, <1>3, <1>8, <1>9, <1>11 DEF LetsBe
  <2> QED
    BY <1>7, <2>1, QuietStands
<1>12. CASE TakenRenders' = {id}
  <2>1. received[id].revision = latest /\ QueuedRenders' = {}
    BY <1>3, <1>5, <1>6, <1>12
  <2>2. RendersInOrder'
    BY <1>1, <1>12, <2>1, RendersTyped DEF RendersInOrder
  <2>3. Progress(operation)' = Progress(operation) /\ RenderEvents(operation)' = RenderEvents(operation)
        /\ Completions(operation)' = Completions(operation)
        /\ Displacements(operation)' = Displacements(operation)
    BY <1>1, <1>10 DEF Progress, RenderEvents, Hush, Completions
  <2> HIDE DEF Progress, RenderEvents
  <2>4. LatestOnly'
    BY <1>1, <1>8, <1>9, <2>3 DEF RendersStand, LatestOnly
  <2>5. Rendered'
    BY <1>9 DEF Rendered
  <2> QED
    BY <1>10, <2>2, <2>4, <2>5 DEF RendersStand
<1> QED
  BY <1>5, <1>11, <1>12

\* SkipStands: the answer to a render that is superseded when it is to begin.
LEMMA SkipStands ==
  ASSUME OrderInv, Serving, [Next]_vars, RendersTold, RendersStand,
         \/ TrackSkip
         \/ TrackComplete /\ Superseded
  PROVE  RendersStand' /\ RendersTold'
<1> USE DEF mainVars, localVars
<1>1. /\ UNCHANGED <<received, pc, operation, kind, latest, queue>>
      /\ thread \in {"command", "render"} /\ thread' = "check"
      /\ Emit(ReplyLine(command, "superseded", Revision))
  BY DEF TrackSkip, TrackComplete, Answer
<1>2. kind = "track" /\ received[command].method = "track_render"
  BY RenderTyped DEF TrackSkip, TrackComplete, Method
<1>3. command \in Taken
  BY <1>1, ServingTyped DEF Taken, TypeOK, DomainsOK
<1>4. command \in 1..Len(received) /\ command \in TakenRenders
  BY <1>2, <1>3, ServingTyped DEF TakenRenders
<1>5. Revision <= latest
  BY <1>4 DEF RendersStand, RendersInOrder, Revision
<1>6. QueuedRenders' = QueuedRenders
  BY <1>1 DEF QueuedRenders
<1>7. LetsBe
  BY <1>1, <1>2, <1>6, ThreadsLetBe
<1>8. command \in 1..Len(received') /\ received'[command] = received[command]
  BY <1>1, <1>4
<1> DEFINE x == command
           n == Revision
<1>9. /\ x \in 1..Len(received') /\ Emit(ReplyLine(x, "superseded", n)) /\ n <= latest
      /\ received'[x].method = "track_render" /\ n = received'[x].revision
  BY <1>1, <1>2, <1>5, <1>8 DEF Revision
<1> HIDE DEF x, n
<1> QED
  BY <1>7, <1>9, SupersededStands

\* CompleteStands: the completion of the latest render.
LEMMA CompleteStands ==
  ASSUME OrderInv, Serving, [Next]_vars, RendersTold, RendersStand, TrackComplete, ~Superseded
  PROVE  RendersStand' /\ RendersTold'
<1> USE DEF mainVars, localVars
<1> DEFINE next == Len(stdout) + 1
<1>1. /\ UNCHANGED <<received, pc, operation, kind, latest, queue>>
      /\ thread = "render" /\ thread' = "check" /\ MutexFree /\ AllSent /\ Rendering
      /\ Emit(ReplyLine(command, "ok", Revision))
  BY DEF TrackComplete, Answer, MayAnswer, Rendering
<1>2. /\ command \in 1..Len(received) /\ received[command].method = "track_render"
      /\ received[command].operation = operation /\ command \in TakenRenders
      /\ Revision = received[command].revision /\ Revision = latest /\ latest \in Nat
  BY <1>1, RenderTyped DEF Superseded
<1>3. pc # "displace" /\ QueuedRenders = {}
  BY <1>1, <1>2, RendersTyped, LatestIsTaken DEF RendersStand
<1>4. /\ QueuedRenders' = {} /\ ~Unbegun' /\ ~Rendering' /\ TakenRenders' = {}
  BY <1>1, <1>3 DEF QueuedRenders, Unbegun, Rendering, TakenRenders, Taken
<1>5. RendersInOrder' /\ Rendered'
  BY <1>1, <1>3, <1>4 DEF RendersInOrder, Rendered
<1>6. RendersTold'
  BY <1>1, CompletionTold DEF RendersStand
<1>7. /\ \A o, name : EventsNamed(o, name)' = EventsNamed(o, name)
      /\ \A o : Completions(o)' \subseteq Completions(o) \cup {next}
      /\ \A o : Displacements(o)' = Displacements(o)
      /\ stdout'[next].revision = latest
  <2>1. /\ command \in 1..Len(received') /\ received'[command].method = "track_render"
        /\ Revision = received'[command].revision
    BY <1>1, <1>2
  <2>2. /\ \A o, name : EventsNamed(o, name)' = EventsNamed(o, name)
        /\ \A o : Completions(o)' = Completions(o) \cup
             IF "ok" = "ok" /\ o = received'[command].operation THEN {next} ELSE {}
        /\ \A o : Displacements(o)' = Displacements(o) \cup
             IF "ok" = "superseded" /\ o = received'[command].operation THEN {next} ELSE {}
        /\ stdout'[next].revision = Revision
    BY <1>1, <2>1, CompletionAppended DEF RendersTold
  <2> HIDE DEF next
  <2> QED
    BY <1>2, <2>2
<1> HIDE DEF next
<1>8. LatestOnly'
  <2>1. Progress(operation)' \subseteq Progress(operation) \cup {next}
    BY <1>1, <1>7 DEF Progress, Completions
  <2>2. \A i \in Progress(operation) \cup Displacements(operation) : stdout'[i] = stdout[i]
    <3>1. Progress(operation) \subseteq RenderEvents(operation) \cup Completions(operation)
      BY DEF Progress, RenderEvents, Completions
    <3> QED
      BY <3>1, OldLines
  <2> HIDE DEF Progress
  <2> QED
    BY <1>1, <1>2, <1>4, <1>7, <2>1, <2>2 DEF RendersStand, LatestOnly
<1> QED
  BY <1>5, <1>6, <1>8 DEF RendersStand

\* StaleStands: a render that is not newer is answered at once.
LEMMA StaleStands ==
  ASSUME OrderInv, Serving, [Next]_vars, RendersTold, RendersStand,
         NEW r \in RequestLines, TrackRenderStale(r)
  PROVE  RendersStand' /\ RendersTold'
<1> USE DEF sharedVars, localVars
<1>1. /\ UNCHANGED <<pc, operation, kind, latest, queue, thread, command, rows, sent, previewed>>
      /\ r.method = "track_render" /\ Reads(r) /\ r.revision <= latest
      /\ Emit(ReplyLine(NewId, "superseded", r.revision))
  BY DEF TrackRenderStale, Stale
<1>2. kind = "track"
  BY TrackAccepted DEF TrackRenderStale, TrackMethods
<1>3. received'[NewId] = r /\ NewId \in 1..Len(received')
      /\ \A id \in 1..Len(received) : received'[id] = received[id]
  BY <1>1, ServingTyped, JustRead, SentKept
<1>4. QueuedRenders' = QueuedRenders
  BY <1>1, <1>3, ServingTyped DEF QueuedRenders
<1>5. LetsBe
  BY <1>1, <1>2, <1>4, ThreadsLetBe
<1> DEFINE x == NewId
<1>6. /\ x \in 1..Len(received') /\ Emit(ReplyLine(x, "superseded", r.revision))
      /\ received'[x] = r
  BY <1>1, <1>3
<1> HIDE DEF x
<1> QED
  BY <1>1, <1>5, <1>6, SupersededStands

\* NewerStands: a newer render becomes the latest one, of which nothing is said.
LEMMA NewerStands ==
  ASSUME OrderInv, Serving, [Next]_vars, RendersTold, RendersStand,
         NEW r \in RequestLines, TrackRenderNewer(r)
  PROVE  RendersStand' /\ RendersTold'
<1> USE DEF localVars
<1>1. /\ UNCHANGED <<stdout, operation, kind, queue, thread, command>>
      /\ r.method = "track_render" /\ Reads(r) /\ ~(r.revision <= latest)
      /\ latest' = r.revision /\ pc' = "displace"
  BY DEF TrackRenderNewer, Stale
<1>2. /\ received'[NewId] = r /\ Len(received') = NewId
      /\ \A id \in 1..Len(received) : received'[id] = received[id]
      /\ r.revision \in Nat /\ latest \in Nat /\ latest < r.revision /\ pc = "ready"
  <2>1. r.revision \in Nat
    BY RequestLinesTyped DEF Request
  <2> QED
    BY <1>1, <2>1, ServingTyped, JustRead, RendersTyped DEF Reads
<1>3. QueuedRenders' = QueuedRenders /\ TakenRenders' = TakenRenders
  BY <1>1, <1>2, ServingTyped DEF QueuedRenders, TakenRenders, Taken
<1>4. \A id \in QueuedRenders \cup TakenRenders : /\ received'[id] = received[id]
                                                  /\ received[id].revision <= latest
                                                  /\ received[id].revision \in Nat
  BY <1>2, RendersTyped DEF RendersStand, RendersInOrder
<1>5. RendersInOrder'
  BY <1>1, <1>2, <1>3, <1>4 DEF RendersStand, RendersInOrder
<1>6. Quiet
  BY <1>1 DEF Quiet
<1>7. RendersTold' /\ Hush
  BY <1>6, QuietTold
<1>8. /\ Progress(operation)' = Progress(operation)
      /\ RenderEvents(operation)' = RenderEvents(operation)
      /\ Completions(operation)' = Completions(operation)
      /\ Displacements(operation)' = Displacements(operation)
      /\ Progress(operation) = RenderEvents(operation) \cup Completions(operation)
      /\ Progress(operation) \cup Displacements(operation) \subseteq Written
  BY <1>1, <1>7, OldLines DEF Progress, RenderEvents, Hush, Completions
<1>9. ~Rendering'
  <2>1. CASE thread = "render"
    <3>1. command \in TakenRenders /\ Revision = received[command].revision
      BY <2>1, RenderTyped
    <3>2. received'[command].revision <= latest /\ received'[command].revision \in Nat
      BY <1>4, <3>1
    <3> QED
      BY <1>1, <1>2, <3>2 DEF Rendering, Superseded, Revision
  <2> QED
    BY <1>1, <2>1 DEF Rendering
<1>10. LatestOnly'
  <2>1. \A i \in Progress(operation) \cup Displacements(operation) :
          stdout[i].revision <= latest /\ stdout[i].revision \in Nat
    BY <1>8, OldLines DEF RendersStand, LatestOnly
  <2>2. \A i \in Progress(operation) \cup Displacements(operation) :
          stdout[i].revision <= latest' /\ stdout[i].revision # latest'
    BY <1>1, <1>2, <2>1
  <2> HIDE DEF Progress, RenderEvents
  <2> QED
    BY <1>1, <1>8, <2>2 DEF LatestOnly
<1>11. Rendered'
  BY <1>9 DEF Rendered
<1> QED
  BY <1>5, <1>7, <1>10, <1>11 DEF RendersStand

\* DisplaceStands: the queued render gives way to it, ...
LEMMA DisplaceStands ==
  ASSUME OrderInv, Serving, [Next]_vars, RendersTold, RendersStand, TrackRenderDisplace
  PROVE  RendersStand' /\ RendersTold'
<1> USE DEF mainVars, localVars
<1>1. PICK id \in QueuedRenders :
        Emit(ReplyLine(id, "superseded", received[id].revision)) /\ queue' = queue \ {id}
  BY DEF TrackRenderDisplace
<1>2. /\ UNCHANGED <<received, pc, operation, kind, latest, thread, command, rows, sent, previewed>>
      /\ pc = "displace"
  BY DEF TrackRenderDisplace
<1>3. kind = "track"
  BY <1>2 DEF Serving, TakenIsOwn
<1>4. QueuedRenders' \subseteq QueuedRenders
  BY <1>1, <1>2 DEF QueuedRenders
<1>5. LetsBe
  BY <1>2, <1>3, <1>4, ThreadsLetBe
<1>6. /\ id \in 1..Len(received') /\ received'[id] = received[id]
      /\ received[id].method = "track_render" /\ received[id].revision <= latest
  BY <1>2, RendersTyped DEF RendersStand, RendersInOrder, QueuedRenders
<1> QED
  BY <1>1, <1>5, <1>6, SupersededStands

\* ... and it is queued.
LEMMA QueueStands ==
  ASSUME OrderInv, Serving, [Next]_vars, RendersTold, RendersStand, TrackRenderQueue
  PROVE  RendersStand' /\ RendersTold'
<1> USE DEF localVars
<1>1. /\ UNCHANGED <<received, stdout, operation, kind, latest, command>>
      /\ thread' = thread \/ (thread = "asleep" /\ thread' = "check")
      /\ pc = "displace" /\ pc' = "ready" /\ queue' = queue \cup {Len(received)}
      /\ QueuedRenders = {}
  BY DEF TrackRenderQueue, Notify
<1>2. /\ received[Len(received)].revision = latest
      /\ \A id \in TakenRenders : received[id].revision < latest
  BY <1>1 DEF RendersStand, RendersInOrder
<1>3. received[Len(received)].method = "track_render"
  BY <1>1, ServingTyped DEF IInv, Places
<1>4. QueuedRenders' = {Len(received)} /\ TakenRenders' = TakenRenders
  BY <1>1, <1>3 DEF QueuedRenders, TakenRenders, Taken
<1>5. RendersInOrder'
  BY <1>1, <1>2, <1>4, RendersTyped DEF RendersInOrder
<1>6. Quiet
  BY <1>1 DEF Quiet
<1>7. RendersTold' /\ Hush
  BY <1>6, QuietTold
<1>8. /\ Progress(operation)' = Progress(operation)
      /\ RenderEvents(operation)' = RenderEvents(operation)
      /\ Completions(operation)' = Completions(operation)
      /\ Displacements(operation)' = Displacements(operation)
  BY <1>1, <1>7 DEF Progress, RenderEvents, Hush, Completions
<1>9. Unbegun
  BY <1>1 DEF Unbegun
<1>10. LatestOnly'
  <2> HIDE DEF Progress, RenderEvents
  <2> QED
    BY <1>1, <1>8, <1>9 DEF RendersStand, LatestOnly
<1>11. ~Rendering'
  <2>1. CASE thread = "render"
    <3>1. command \in TakenRenders /\ Revision = received[command].revision
          /\ Revision \in Nat
      BY <2>1, RenderTyped
    <3> QED
      BY <1>1, <1>2, <3>1, RendersTyped DEF Rendering, Superseded, Revision
  <2> QED
    BY <1>1, <2>1 DEF Rendering
<1>12. Rendered'
  BY <1>11 DEF Rendered
<1> QED
  BY <1>5, <1>7, <1>10, <1>12 DEF RendersStand

\* RendersOwed: what is said of renders is right, and of a track's it goes on
\* to be.
RendersOwed == RendersTold /\ (kind = "track" => RendersStand)

\* A quiet step that does not concern the renders.
LEMMA QuietOwes ==
  ASSUME OrderInv, Serving, [Next]_vars, RendersOwed, Quiet, UNCHANGED kind,
         kind = "track" =>
           /\ UNCHANGED <<operation, latest>> /\ (pc' = "displace" <=> pc = "displace")
           /\ QueuedRenders' \subseteq QueuedRenders
           /\ thread' \in {"command", "render"} =>
                UNCHANGED <<thread, command, rows, sent, previewed>>
  PROVE  RendersOwed'
<1>1. RendersTold'
  BY QuietTold DEF RendersOwed
<1>2. ASSUME kind = "track"
      PROVE  RendersStand'
  <2>1. LetsBe
    BY <1>2, ThreadsLetBe
  <2> QED
    BY <1>2, <2>1, QuietStands DEF RendersOwed
<1> QED
  BY <1>1, <1>2 DEF RendersOwed

\* StartRenders: a track starts with no render.
LEMMA StartRenders ==
  ASSUME OrderInv, Serving, [Next]_vars, RendersOwed,
         NEW r \in RequestLines, StartOperation(r)
  PROVE  RendersOwed'
<1> USE DEF localVars
<1>1. /\ UNCHANGED <<stdout, queue>> /\ operation = 0 /\ operation' = operations + 1
      /\ kind' = "track" => latest' = 0
      /\ pc' = "respond" /\ thread' = "gate"
  BY DEF StartOperation, Busy, Reads
<1>2. queue = {} /\ operations \in Nat
  BY <1>1, ServingTyped, RendersTyped DEF IInv, IdleIsReleased
<1>3. Quiet
  BY <1>1 DEF Quiet
<1>4. RendersTold' /\ Hush
  BY <1>3, QuietTold DEF RendersOwed
<1>5. ASSUME kind' = "track"
      PROVE  RendersStand'
  <2>1. QueuedRenders' = {} /\ TakenRenders' = {} /\ ~Unbegun' /\ ~Rendering'
    BY <1>1, <1>2 DEF QueuedRenders, TakenRenders, Taken, Unbegun, Rendering
  <2>2. Progress(operation') = {} /\ Displacements(operation') = {} /\ RenderEvents(operation') = {}
    BY <1>1, <1>2, Unsaid
  <2>3. /\ \A o : Progress(o)' = Progress(o) /\ Displacements(o)' = Displacements(o)
    BY <1>4 DEF Progress, Hush, Completions
  <2>4. \A o : o = operation' => Progress(o)' = {} /\ Displacements(o)' = {}
    BY <2>2, <2>3
  <2>5. LatestOnly'
    BY <2>1, <2>4 DEF LatestOnly
  <2>6. RendersInOrder' /\ Rendered'
    BY <1>1, <2>1 DEF RendersInOrder, Rendered
  <2> QED
    BY <2>5, <2>6 DEF RendersStand
<1> QED
  BY <1>4, <1>5 DEF RendersOwed

\* RequestRenders: whatever request is read.
LEMMA RequestRenders ==
  ASSUME OrderInv, Serving, RendersOwed, MainRequest, [Next]_vars
  PROVE  RendersOwed'
<1> USE DEF sharedVars, backendVars, localVars
<1>1. PICK r \in RequestLines :
        \/ Hello(r) \/ RefuseUnnegotiated(r) \/ LoadModel(r) \/ RefuseStart(r)
        \/ StartOperation(r) \/ StreamRequest(r) \/ TrackRequest(r)
        \/ Cancel(r) \/ Shutdown(r)
  BY DEF MainRequest
<1>2. Reads(r)
  BY <1>1 DEF Hello, RefuseUnnegotiated, LoadModel, RefuseStart,
       StartOperation, StreamRequest, RefuseStreamRequest, StreamChunk,
       StreamSettings, StreamEnd, TrackRequest, RefuseTrackRequest,
       TrackChunk, TrackPrepare, TrackRenderStale, TrackRenderNewer,
       Cancel, Shutdown
<1>3. /\ received'[NewId] = r /\ NewId \in 1..Len(received') /\ pc = "ready"
      /\ \A id \in 1..Len(received) : received'[id] = received[id]
      /\ queue \subseteq 1..Len(received)
  BY <1>2, ServingTyped, JustRead, SentKept DEF Reads
<1>4. CASE TrackRenderStale(r) \/ TrackRenderNewer(r)
  <2>1. kind = "track"
    BY <1>4, TrackAccepted DEF TrackRenderStale, TrackRenderNewer, TrackMethods
  <2> QED
    BY <1>4, <2>1, StaleStands, NewerStands DEF RendersOwed
<1>5. CASE \/ Refuse("operation_not_found") \/ RefuseUnnegotiated(r)
           \/ RefuseStreamRequest(r) \/ RefuseTrackRequest(r) \/ Hello(r)
           \/ ((LoadModel(r) \/ RefuseStart(r)) /\ kind = "track")
  <2>1. kind = "track" => operation # 0
    BY ServingTyped DEF IInv, IdleIsReleased
  <2>2. /\ UNCHANGED <<operation, kind, queue, latest, pc, thread, command, rows, sent, previewed>>
        /\ \E code : /\ Emit(ReplyLine(NewId, code, 0))
                     /\ code \notin {"ok", "superseded"} \/ r.method # "track_render"
    <3>1. CASE Hello(r)
      BY <3>1 DEF Hello
    <3>2. CASE (LoadModel(r) \/ RefuseStart(r)) /\ kind = "track"
      BY <2>1, <3>2 DEF LoadModel, RefuseStart, Busy, Refuse
    <3>3. CASE Refuse("operation_not_found") \/ RefuseUnnegotiated(r)
      BY <3>3 DEF RefuseUnnegotiated, Refuse
    <3>4. CASE RefuseStreamRequest(r)
      BY <3>4 DEF RefuseStreamRequest, StreamRefusal, Refuse
    <3>5. CASE RefuseTrackRequest(r)
      BY <3>5 DEF RefuseTrackRequest, TrackRefusal, Refuse
    <3> QED
      BY <1>5, <3>1, <3>2, <3>3, <3>4, <3>5
  <2>3. Quiet
    BY <1>3, <2>2 DEF Quiet
  <2>4. QueuedRenders' = QueuedRenders
    BY <1>3, <2>2 DEF QueuedRenders
  <2> QED
    BY <2>2, <2>3, <2>4, QuietOwes
<1>6. CASE (LoadModel(r) \/ RefuseStart(r)) /\ kind # "track"
  <2>1. UNCHANGED kind /\ (UNCHANGED stdout \/ \E code : Emit(ReplyLine(NewId, code, 0)))
    BY <1>6 DEF LoadModel, RefuseStart, Refuse
  <2>2. r.method # "track_render"
    BY <1>6 DEF LoadModel, RefuseStart, StartMethods
  <2>3. Quiet
    BY <1>3, <2>1, <2>2 DEF Quiet
  <2> QED
    BY <1>6, <2>1, <2>3, QuietOwes
<1>7. CASE \/ StreamChunk(r) \/ StreamSettings(r) \/ StreamEnd(r)
           \/ TrackChunk(r) \/ TrackPrepare(r)
           \/ (Cancel(r) /\ ~Refuse("operation_not_found")) \/ Shutdown(r)
  <2>1. /\ UNCHANGED <<stdout, operation, kind, latest, command, rows, sent, previewed>>
        /\ queue' \subseteq queue \cup {NewId} /\ r.method # "track_render"
        /\ thread' = thread \/ (thread = "asleep" /\ thread' = "check")
        /\ pc' # "displace"
    BY <1>3, <1>7 DEF StreamChunk, StreamSettings, StreamEnd, TrackChunk, TrackPrepare, Cancel,
         Shutdown, StopOperation, Push, Notify
  <2>2. QueuedRenders' \subseteq QueuedRenders
    BY <1>3, <2>1 DEF QueuedRenders
  <2>3. Quiet
    BY <2>1 DEF Quiet
  <2> QED
    BY <1>3, <2>1, <2>2, <2>3, QuietOwes
<1>8. CASE StartOperation(r)
  BY <1>8, StartRenders
<1> QED
  BY <1>1, <1>4, <1>5, <1>6, <1>7, <1>8 DEF StreamRequest, TrackRequest

\* ContinueRenders: the main thread goes on with what it has read.
LEMMA ContinueRenders ==
  ASSUME OrderInv, Serving, RendersOwed, MainContinues \/ StdinEof, [Next]_vars
  PROVE  RendersOwed'
<1> USE DEF mainVars, sharedVars, backendVars, localVars
<1>1. CASE TrackRenderDisplace \/ TrackRenderQueue
  <2>1. kind = "track"
    BY <1>1 DEF TrackRenderDisplace, TrackRenderQueue, Serving, TakenIsOwn
  <2> QED
    BY <1>1, <2>1, DisplaceStands, QueueStands DEF RendersOwed
<1>2. CASE Respond \/ JoinOperation \/ StdinEof
  <2>1. /\ UNCHANGED <<received, operation, kind, queue, latest, command, rows, sent, previewed>>
        /\ thread' \in {"command", "render"} => UNCHANGED thread
        /\ pc # "displace" /\ pc' # "displace"
    BY <1>2 DEF Respond, JoinOperation, StdinEof, StopOperation, Notify
  <2>2. QueuedRenders' = QueuedRenders
    BY <2>1 DEF QueuedRenders
  <2>3. Quiet
    <3>1. CASE UNCHANGED stdout
      BY <3>1 DEF Quiet
    <3>2. CASE ~UNCHANGED stdout
      <4>1. Emit(ReplyLine(Len(received), "ok", 0)) /\ pc \in {"respond", "join"}
        BY <1>2, <3>2 DEF Respond, JoinOperation, StdinEof
      <4>2. /\ Len(received) \in 1..Len(received')
            /\ received'[Len(received)].method # "track_render"
        BY <2>1, <4>1, ServingTyped DEF Standing, InTheHands, TypeOK, DomainsOK, Deferred
      <4> QED
        BY <4>1, <4>2 DEF Quiet
    <3> QED
      BY <3>1, <3>2
  <2> QED
    BY <2>1, <2>2, <2>3, QuietOwes
<1> QED
  BY <1>1, <1>2 DEF MainContinues

\* OperationRenders: the operation thread goes on with its commands.
LEMMA OperationRenders ==
  ASSUME OrderInv, Serving, RendersOwed, [Next]_vars,
         OperationThread \/ SpuriousWakeup \/ StreamFails \/ TrackFails
  PROVE  RendersOwed'
<1> USE DEF mainVars, sharedVars, backendVars, localVars
<1>1. CASE FinishActive
  <2>1. UNCHANGED stdout /\ kind' = "none"
    BY <1>1 DEF FinishActive, ResetOperation
  <2>2. Quiet
    BY <2>1 DEF Quiet
  <2>3. RendersTold'
    BY <2>2, QuietTold DEF RendersOwed
  <2> QED
    BY <2>1, <2>3 DEF RendersOwed
<1>2. CASE \/ WakeCanceled \/ StreamCanceled \/ TrackCanceled \/ TrackEmpty
           \/ StreamFails \/ TrackFails \/ ThreadStart \/ FallAsleep \/ Sleep
           \/ SpuriousWakeup \/ CommitTerminal \/ EmitTerminal
  <2>1. /\ UNCHANGED <<received, operation, kind, queue, latest, pc, command, rows, sent, previewed>>
        /\ thread' \notin {"command", "render"}
        /\ UNCHANGED stdout \/ \E name \in TerminalEvents : Emit(EventLine(name, 0, 0))
    BY <1>2 DEF WakeCanceled, StreamCanceled, TrackCanceled, TrackEmpty, StreamFails,
         TrackFails, Leave, ThreadStart, FallAsleep, Sleep, SpuriousWakeup, CommitTerminal,
         EmitTerminal, TerminalEvents
  <2>2. Quiet
    BY <2>1 DEF Quiet, TerminalEvents
  <2>3. QueuedRenders' = QueuedRenders
    BY <2>1 DEF QueuedRenders
  <2> QED
    BY <2>1, <2>2, <2>3, QuietOwes
<1>3. CASE RejectPending
  <2>1. /\ UNCHANGED <<received, operation, kind, queue, latest, pc, command, rows, sent, previewed>>
        /\ UNCHANGED thread
    BY <1>3 DEF RejectPending
  <2>2. PICK id \in pending : Emit(ReplyLine(id, RejectionCode, 0))
    BY <1>3 DEF RejectPending
  <2>3. RejectionCode \notin {"ok", "superseded"} /\ id \in 1..Len(received')
    BY <2>1, ServingTyped DEF RejectionCode
  <2>4. Quiet
    BY <2>2, <2>3 DEF Quiet
  <2>5. QueuedRenders' = QueuedRenders
    BY <2>1 DEF QueuedRenders
  <2> QED
    BY <2>1, <2>4, <2>5, QuietOwes
<1>4. CASE StreamLoop
  <2>1. kind = "stream" /\ UNCHANGED <<kind, received>>
    BY <1>4, ServingTyped DEF StreamLoop, StreamTake, StreamConfigure, StreamAcknowledge,
         StreamServe, StreamFrame, StreamDrained, StreamCanceled, Leave, IInv, Places
  <2>2. Quiet
    <3>1. CASE StreamAcknowledge
      <4>1. PICK id \in batch : Emit(ReplyLine(id, "ok", 0))
        BY <3>1 DEF StreamAcknowledge
      <4>2. received[id].method = "stream_settings"
        BY <3>1, ServingTyped DEF StreamAcknowledge, IInv, Ownership, BatchOwned
      <4> QED
        BY <2>1, <4>1, <4>2, ServingTyped DEF Quiet
    <3>2. CASE StreamServe \/ StreamFrame
      BY <3>2 DEF StreamServe, StreamFrame, Quiet
    <3>3. CASE StreamTake \/ StreamConfigure \/ StreamDrained \/ StreamCanceled
      BY <3>3 DEF StreamTake, StreamConfigure, StreamDrained, StreamCanceled, Leave, Quiet
    <3> QED
      BY <1>4, <3>1, <3>2, <3>3 DEF StreamLoop
  <2> QED
    BY <2>1, <2>2, QuietOwes
<1>5. CASE \/ TrackTake \/ TrackSkip \/ TrackBegin \/ TrackExecute \/ TrackLatePreview
           \/ TrackBatch \/ TrackComplete
  <2>1. kind = "track" /\ UNCHANGED kind
    BY <1>5, ServingTyped DEF TrackTake, TrackSkip, TrackBegin, TrackExecute, TrackLatePreview,
         TrackBatch, TrackComplete, Answer, IInv, Places
  <2>2. RendersStand /\ RendersTold
    BY <2>1 DEF RendersOwed
  <2>3. CASE TrackBegin
    <3>1. Quiet
      BY <2>3 DEF TrackBegin, Quiet
    <3> QED
      BY <2>1, <2>2, <2>3, <3>1, QuietTold, BeginStands DEF RendersOwed
  <2> QED
    BY <1>5, <2>1, <2>2, <2>3, TakeStands, SkipStands, ExecutionStands, CompleteStands DEF RendersOwed
<1>6. CASE TrackAppend \/ TrackPrepared
  <2>1. /\ UNCHANGED <<received, operation, kind, queue, latest, pc>>
        /\ thread' = "check" /\ Emit(ReplyLine(command, "ok", Revision))
        /\ thread = "command" /\ Method \in {"track_chunk", "track_prepare"}
    BY <1>6 DEF TrackAppend, TrackPrepared, Answer
  <2>2. command \in 1..Len(received)
    BY <2>1, ServingTyped DEF TypeOK, DomainsOK, IdsOK
  <2>3. Quiet
    BY <2>1, <2>2 DEF Quiet, Method
  <2>4. QueuedRenders' = QueuedRenders
    BY <2>1 DEF QueuedRenders
  <2> QED
    BY <2>1, <2>3, <2>4, QuietOwes
<1> QED
  BY <1>1, <1>2, <1>3, <1>4, <1>5, <1>6 DEF OperationThread, TrackLoop

\* NextRenders: every step keeps what is said of renders.
LEMMA NextRenders ==
  ASSUME OrderInv, Serving, RendersOwed, [Next]_vars
  PROVE  RendersOwed'
<1>1. CASE UNCHANGED vars
  <2>1. UNCHANGED <<received, stdout, operation, kind, queue, latest, pc, thread, command, rows,
                    sent, previewed>>
    BY <1>1 DEF vars, mainVars, sharedVars, localVars
  <2>2. Quiet /\ QueuedRenders' = QueuedRenders
    BY <2>1 DEF Quiet, QueuedRenders
  <2> QED
    BY <2>1, <2>2, QuietOwes
<1> QED
  BY <1>1, RequestRenders, ContinueRenders, OperationRenders DEF Next
-----------------------------------------------------------------------------
(* Why renders are superseded. *)

Settling == {"ok", "superseded", "failed", "operation_not_found"}

\* A render was accepted if it waits for an answer of the operation, or got one.
Awaited == pending \cup IF pc = "displace" THEN {Len(received)} ELSE {}
Honored(id) ==
  id \in Awaited \/ (RepliesTo(id) # {} /\ \A j \in RepliesTo(id) : stdout[j].name \in Settling)

\* Another accepted render is at least as new.
Newer(other, id) ==
  /\ other # id /\ received[other].method = "track_render"
  /\ received[other].operation = received[id].operation
  /\ received[other].revision >= received[id].revision
  /\ Honored(other)

\* An accepted render of the track is the latest one.
IsLatest(other) ==
  /\ received[other].method = "track_render" /\ received[other].operation = operation
  /\ received[other].revision = latest /\ Honored(other)

Reasons ==
  /\ \A i \in Replies : stdout[i].name = "superseded" =>
       \E other \in 1..Len(received) : Newer(other, stdout[i].id)
  /\ kind = "track" /\ latest # 0 => \E other \in 1..Len(received) : IsLatest(other)

\* What waits for an answer of the operation gets one that settles it.
Settles ==
  \/ UNCHANGED stdout
  \/ \E name, n, k : Emit(EventLine(name, n, k))
  \/ \E id, code, n : /\ Emit(ReplyLine(id, code, n))
                      /\ id \notin 1..Len(received) \/ code \in Settling

\* HonoredLasts: what was accepted stays so.
LEMMA HonoredLasts ==
  ASSUME OrderInv, Serving, [Next]_vars, Settles, NEW id \in 1..Len(received), Honored(id)
  PROVE  Honored(id)'
<1>1. /\ ExactlyOneReply /\ ExactlyOneReply' /\ InTheHands'
      /\ \A x \in pending : received[x].method \in Deferred
  BY ServingTyped, NextOrderly, NextReads DEF Orderly, Stands, IInv, Standing, Current
<1>2. id \in 1..Len(received') /\ received'[id] = received[id]
  BY SentKept
<1>3. /\ RepliesTo(id) \subseteq RepliesTo(id)'
      /\ \A j \in RepliesTo(id) : stdout'[j] = stdout[j]
  BY OldLines DEF RepliesTo, Replies
<1>4. \A i, j \in RepliesTo(id)' : i = j
  BY <1>1 DEF ExactlyOneReply, RepliesTo
<1>5. CASE id \in Awaited
  <2>1. received[id].method \in Deferred
    BY <1>1, <1>5, ServingTyped DEF Awaited, IInv, Places, Deferred
  <2>2. RepliesTo(id) = {}
    BY <1>1, <1>5 DEF ExactlyOneReply, Replied, RepliesTo, Awaited, InHand
  <2>3. id \in pending' \/ id \in InHand' \/ id \in Replied'
    BY <1>1, <1>2 DEF ExactlyOneReply
  <2>4. id \in InHand' => id \in Awaited'
    <3>1. pc' = "respond" => received'[Len(received')].method \notin Deferred
      BY <1>1 DEF InTheHands
    <3>2. pc' = "join" => received'[Len(received')].method = "shutdown"
      BY <1>1 DEF InTheHands
    <3> QED
      BY <1>2, <2>1, <3>1, <3>2 DEF InHand, Awaited, Deferred
  <2>5. ASSUME NEW j \in RepliesTo(id)'
        PROVE  stdout'[j].name \in Settling
    <3>1. CASE UNCHANGED stdout
      BY <2>2, <2>5, <3>1, NothingAppended
    <3>2. CASE \E name, n, k : Emit(EventLine(name, n, k))
      BY <2>2, <2>5, <3>2, ServingTyped, EventAppended
    <3>3. ASSUME NEW x, NEW code, NEW n, Emit(ReplyLine(x, code, n)),
                 x \notin 1..Len(received) \/ code \in Settling
          PROVE  stdout'[j].name \in Settling
      <4>1. /\ RepliesTo(id)' = RepliesTo(id) \cup IF id = x THEN {Len(stdout) + 1} ELSE {}
            /\ stdout'[Len(stdout) + 1] = ReplyLine(x, code, n)
        BY <3>3, ServingTyped, ReplyAppended
      <4>2. j = Len(stdout) + 1 /\ id = x
        BY <2>2, <2>5, <4>1
      <4> QED
        BY <3>3, <4>1, <4>2 DEF ReplyLine
    <3> QED
      BY <3>1, <3>2, <3>3 DEF Settles
  <2>6. id \in Replied' => RepliesTo(id)' # {}
    BY DEF Replied, RepliesTo
  <2> QED
    BY <2>3, <2>4, <2>5, <2>6 DEF Honored, Awaited
<1>6. CASE RepliesTo(id) # {} /\ \A j \in RepliesTo(id) : stdout[j].name \in Settling
  BY <1>3, <1>4, <1>6 DEF Honored
<1> QED
  BY <1>5, <1>6 DEF Honored

\* ReasonsKept: reasons last, and a step that supersedes a render has one.
LEMMA ReasonsKept ==
  ASSUME OrderInv, Serving, [Next]_vars, Reasons, Settles,
         \A x, n : Emit(ReplyLine(x, "superseded", n)) =>
           \E other \in 1..Len(received) :
             /\ other # x /\ received[other].method = "track_render"
             /\ received[other].operation = received'[x].operation
             /\ received[other].revision >= received'[x].revision
             /\ Honored(other),
         \/ kind' # "track" \/ latest' = 0
         \/ UNCHANGED <<kind, operation, latest>>
         \/ \E other \in 1..Len(received') : IsLatest(other)'
  PROVE  Reasons'
<1>1. \A id \in 1..Len(received) : id \in 1..Len(received') /\ received'[id] = received[id]
  BY SentKept
<1>2. \A id \in 1..Len(received) : Honored(id) => Honored(id)'
  BY HonoredLasts
<1>3. ASSUME NEW other \in 1..Len(received), NEW x \in 1..Len(received), Newer(other, x)
      PROVE  Newer(other, x)'
  BY <1>1, <1>2, <1>3 DEF Newer
<1>4. ASSUME NEW i \in Replies', stdout'[i].name = "superseded"
      PROVE  \E other \in 1..Len(received') : Newer(other, stdout[i].id)'
  <2>1. CASE i \in Replies
    <3>1. stdout'[i] = stdout[i] /\ stdout[i].id \in 1..Len(received)
      BY <2>1, OldLines
    <3>2. PICK other \in 1..Len(received) : Newer(other, stdout[i].id)
      BY <1>4, <2>1, <3>1 DEF Reasons
    <3>3. PICK x \in 1..Len(received) : x = stdout[i].id
      BY <3>1
    <3>4. Newer(other, x)'
      BY <1>3, <3>2, <3>3
    <3>5. stdout'[i].id = x
      BY <3>1, <3>3
    <3>6. Newer(other, stdout[i].id)'
      BY <3>4, <3>5 DEF Newer
    <3> QED
      BY <1>1, <3>6
  <2>2. CASE i \notin Replies
    <3>1. PICK x, n : Emit(ReplyLine(x, "superseded", n)) /\ stdout'[i].id = x
      <4>1. ~UNCHANGED stdout
        BY <1>4, <2>2, NothingAppended
      <4>2. ~\E name, n, k : Emit(EventLine(name, n, k))
        BY <1>4, <2>2, ServingTyped, EventAppended
      <4>3. PICK x, code, n : Emit(ReplyLine(x, code, n))
        BY <4>1, <4>2 DEF Settles
      <4>4. /\ Replies' = Replies \cup {Len(stdout) + 1}
            /\ stdout'[Len(stdout) + 1] = ReplyLine(x, code, n)
        BY <4>3, ServingTyped, ReplyAppended
      <4>5. stdout'[i].id = x /\ stdout'[i].name = code
        BY <1>4, <2>2, <4>4 DEF ReplyLine
      <4> QED
        BY <1>4, <4>3, <4>5
    <3>2. PICK other \in 1..Len(received) :
             /\ other # x /\ received[other].method = "track_render"
             /\ received[other].operation = received'[x].operation
             /\ received[other].revision >= received'[x].revision
             /\ Honored(other)
      BY <3>1
    <3>3. Honored(other)' /\ received'[other] = received[other] /\ other \in 1..Len(received')
      BY <1>1, <1>2, <3>2
    <3>4. Newer(other, stdout[i].id)'
      BY <3>1, <3>2, <3>3 DEF Newer
    <3> QED
      BY <3>3, <3>4
  <2> QED
    BY <2>1, <2>2
<1>5. kind' = "track" /\ latest' # 0 => \E other \in 1..Len(received') : IsLatest(other)'
  <2>1. ASSUME UNCHANGED <<kind, operation, latest>>, kind' = "track", latest' # 0
        PROVE  \E other \in 1..Len(received') : IsLatest(other)'
    <3>1. PICK other \in 1..Len(received) : IsLatest(other)
      BY <2>1 DEF Reasons
    <3>2. IsLatest(other)'
      BY <1>1, <1>2, <2>1, <3>1 DEF IsLatest
    <3> QED
      BY <1>1, <3>2
  <2> QED
    BY <2>1
<1> QED
  BY <1>4, <1>5 DEF Reasons

\* A line that supersedes nothing, and settles what it answers.
Plain ==
  \/ UNCHANGED stdout
  \/ \E name, n, k : Emit(EventLine(name, n, k))
  \/ \E id, code, n : /\ Emit(ReplyLine(id, code, n)) /\ code # "superseded"
                      /\ id \notin 1..Len(received) \/ code \in Settling

\* One line is written at a time.
LEMMA OneLine ==
  ASSUME TypeOK, NEW l1, NEW l2, Emit(l1)
  PROVE  ~UNCHANGED stdout /\ (Emit(l2) => l1 = l2)
<1>1. stdout \in Seq(Line)
  BY DEF TypeOK, HistoryOK
<1>2. Append(stdout, l1)[Len(stdout) + 1] = l1 /\ Append(stdout, l2)[Len(stdout) + 1] = l2
  BY <1>1
<1>3. Append(stdout, l1) # stdout
  <2>1. Len(Append(stdout, l1)) = Len(stdout) + 1 /\ Len(stdout) \in Nat
    BY <1>1
  <2> QED
    BY <2>1
<1> QED
  BY <1>2, <1>3 DEF Emit

\* PlainReasons: a plain step keeps the reasons.
LEMMA PlainReasons ==
  ASSUME OrderInv, Serving, [Next]_vars, Reasons, Plain,
         \/ kind' # "track" \/ latest' = 0
         \/ UNCHANGED <<kind, operation, latest>>
         \/ \E other \in 1..Len(received') : IsLatest(other)'
  PROVE  Reasons'
<1>1. TypeOK
  BY ServingTyped
<1>2. \A x, n : ~Emit(ReplyLine(x, "superseded", n))
  <2>1. CASE UNCHANGED stdout
    BY <1>1, <2>1, OneLine
  <2>2. ASSUME NEW l, Emit(l), l.type # "reply" \/ l.name # "superseded"
        PROVE  \A x, n : ~Emit(ReplyLine(x, "superseded", n))
    <3>1. \A x, n : Emit(ReplyLine(x, "superseded", n)) => l = ReplyLine(x, "superseded", n)
      BY <1>1, <2>2, OneLine
    <3>2. \A x, n : /\ ReplyLine(x, "superseded", n).type = "reply"
                    /\ ReplyLine(x, "superseded", n).name = "superseded"
      BY DEF ReplyLine
    <3> QED
      BY <2>2, <3>1, <3>2
  <2>3. \A name, n, k : EventLine(name, n, k).type # "reply"
    BY DEF EventLine
  <2>4. \A id, code, n : ReplyLine(id, code, n).name = code
    BY DEF ReplyLine
  <2>5. CASE \E name, n, k : Emit(EventLine(name, n, k))
    BY <2>2, <2>3, <2>5
  <2>6. CASE \E id, code, n : Emit(ReplyLine(id, code, n)) /\ code # "superseded"
    BY <2>2, <2>4, <2>6
  <2> QED
    BY <2>1, <2>5, <2>6 DEF Plain
<1>3. Settles
  BY DEF Plain, Settles
<1> QED
  BY <1>2, <1>3, ReasonsKept

\* SupersededReasons: so does one that supersedes a render for a reason.
LEMMA SupersededReasons ==
  ASSUME OrderInv, Serving, [Next]_vars, Reasons, UNCHANGED <<kind, operation, latest>>,
         NEW x, NEW n, Emit(ReplyLine(x, "superseded", n)),
         NEW other \in 1..Len(received), IsLatest(other),
         received'[x].operation = operation, received'[x].revision <= latest,
         other # x, received'[x].revision \in Nat
  PROVE  Reasons'
<1>1. TypeOK /\ latest \in Nat
  BY ServingTyped, RendersTyped
<1>2. \A y, m : Emit(ReplyLine(y, "superseded", m)) => y = x
  <2>1. \A y, m : Emit(ReplyLine(y, "superseded", m)) =>
          ReplyLine(x, "superseded", n) = ReplyLine(y, "superseded", m)
    BY <1>1, OneLine
  <2>2. \A y, m : ReplyLine(y, "superseded", m).id = y
    BY DEF ReplyLine
  <2> QED
    BY <2>1, <2>2
<1>3. Settles
  BY DEF Settles, Settling
<1>4. received[other].revision >= received'[x].revision
  BY <1>1 DEF IsLatest
<1> QED
  BY <1>2, <1>3, <1>4, ReasonsKept DEF IsLatest

\* A render is superseded while the latest one is another.
LEMMA DisplacedReasons ==
  ASSUME OrderInv, Serving, [Next]_vars, RendersOwed, Reasons,
         TrackSkip \/ (TrackComplete /\ Superseded) \/ TrackRenderDisplace
  PROVE  Reasons'
<1> USE DEF mainVars, localVars
<1>1. /\ UNCHANGED <<received, kind, operation, latest>> /\ kind = "track" /\ RendersInOrder
  <2>1. UNCHANGED <<received, kind, operation, latest>>
    BY DEF TrackSkip, TrackComplete, TrackRenderDisplace, Answer
  <2>2. kind = "track"
    BY RenderTyped DEF TrackSkip, TrackComplete, TrackRenderDisplace, Serving, TakenIsOwn
  <2> QED
    BY <2>1, <2>2 DEF RendersOwed, RendersStand
<1>2. PICK x \in QueuedRenders \cup TakenRenders :
        /\ Emit(ReplyLine(x, "superseded", received[x].revision))
        /\ received[x].revision # latest
        /\ x \in 1..Len(received) /\ received[x].operation = operation
  <2>1. CASE TrackRenderDisplace
    <3>1. PICK id \in QueuedRenders : Emit(ReplyLine(id, "superseded", received[id].revision))
      BY <2>1 DEF TrackRenderDisplace
    <3>2. pc = "displace"
      BY <2>1 DEF TrackRenderDisplace
    <3>3. received[id].revision # latest
      BY <1>1, <3>1, <3>2, RendersTyped DEF RendersInOrder
    <3>4. received[id].operation = operation
      BY <3>1, RendersTyped, ServingTyped DEF Standing, Current
    <3> QED
      BY <3>1, <3>3, <3>4, RendersTyped
  <2>2. CASE TrackSkip \/ (TrackComplete /\ Superseded)
    <3>1. /\ thread \in {"command", "render"} /\ Emit(ReplyLine(command, "superseded", Revision))
          /\ Superseded
      BY <2>2 DEF TrackSkip, TrackComplete, Answer
    <3>2. command \in Taken /\ command \in 1..Len(received)
      BY <3>1, ServingTyped DEF Taken, TypeOK, DomainsOK
    <3>3. received[command].method = "track_render"
      BY <2>2, RenderTyped DEF TrackSkip, TrackComplete, Method
    <3>4. received[command].operation = operation
      BY <3>2 DEF Serving, TakenIsOwn
    <3> QED
      BY <3>1, <3>2, <3>3, <3>4 DEF TakenRenders, Superseded, Revision
  <2> QED
    BY <2>1, <2>2
<1>3. received[x].revision <= latest /\ received[x].revision \in Nat /\ latest \in Nat
  BY <1>1, <1>2, RendersTyped DEF RendersInOrder
<1>4. latest # 0
  BY <1>2, <1>3
<1>5. PICK other \in 1..Len(received) : IsLatest(other)
  BY <1>1, <1>4 DEF Reasons
<1>6. other # x
  BY <1>2, <1>5 DEF IsLatest
<1> QED
  BY <1>1, <1>2, <1>3, <1>5, <1>6, SupersededReasons

\* A stale render is not the latest one that was accepted.
LEMMA StaleReasons ==
  ASSUME OrderInv, Serving, [Next]_vars, Reasons, NEW r \in RequestLines, TrackRenderStale(r)
  PROVE  Reasons'
<1> USE DEF sharedVars
<1>1. /\ UNCHANGED <<kind, operation, latest>> /\ Reads(r) /\ r.revision <= latest
      /\ Emit(ReplyLine(NewId, "superseded", r.revision))
      /\ r.method = "track_render" /\ TrackRefusal(r) = "ok"
  BY DEF TrackRenderStale, Stale
<1>2. kind = "track" /\ r.operation = operation
  BY <1>1, TrackAccepted DEF TrackMethods
<1>3. r.revision \in Nat /\ r.revision # 0 /\ latest \in Nat
  <2>1. r.revision \in Nat
    BY RequestLinesTyped DEF Request
  <2>2. r.revision # 0
    BY <1>1, WorkerAssumption DEF RequestLines, StartMethods
  <2> QED
    BY <2>1, <2>2, RendersTyped
<1>4. received'[NewId] = r /\ NewId \notin 1..Len(received)
  BY <1>1, ServingTyped, JustRead DEF NewId
<1>5. PICK other \in 1..Len(received) : IsLatest(other)
  BY <1>1, <1>2, <1>3 DEF Reasons
<1> DEFINE x == NewId
<1>6. /\ Emit(ReplyLine(x, "superseded", r.revision)) /\ received'[x] = r /\ other # x
  BY <1>1, <1>4
<1> HIDE DEF x
<1> QED
  BY <1>1, <1>2, <1>3, <1>5, <1>6, SupersededReasons

\* A newer one is the latest that was.
LEMMA NewerReasons ==
  ASSUME OrderInv, Serving, [Next]_vars, Reasons, NEW r \in RequestLines, TrackRenderNewer(r)
  PROVE  Reasons'
<1>1. /\ UNCHANGED <<kind, operation, stdout>> /\ Reads(r) /\ latest' = r.revision
      /\ pc' = "displace" /\ r.method = "track_render" /\ TrackRefusal(r) = "ok"
  BY DEF TrackRenderNewer
<1>2. r.operation = operation
  BY <1>1, TrackAccepted DEF TrackMethods
<1>3. received'[NewId] = r /\ Len(received') = NewId /\ NewId \in 1..Len(received')
  BY <1>1, ServingTyped, JustRead
<1>4. \A id : id = NewId => IsLatest(id)'
  BY <1>1, <1>2, <1>3 DEF IsLatest, Honored, Awaited
<1>5. \E other \in 1..Len(received') : IsLatest(other)'
  BY <1>3, <1>4
<1>6. Plain
  BY <1>1 DEF Plain
<1> QED
  BY <1>5, <1>6, PlainReasons

\* RequestReasons: whatever request is read.
LEMMA RequestReasons ==
  ASSUME OrderInv, Serving, Reasons, MainRequest, [Next]_vars
  PROVE  Reasons'
<1> USE DEF sharedVars
<1>1. PICK r \in RequestLines :
        \/ Hello(r) \/ RefuseUnnegotiated(r) \/ LoadModel(r) \/ RefuseStart(r)
        \/ StartOperation(r) \/ StreamRequest(r) \/ TrackRequest(r)
        \/ Cancel(r) \/ Shutdown(r)
  BY DEF MainRequest
<1>2. NewId \notin 1..Len(received)
  BY ServingTyped DEF NewId
<1>3. CASE StartOperation(r)
  <2>1. UNCHANGED stdout /\ (kind' # "track" \/ latest' = 0)
    BY <1>3 DEF StartOperation
  <2> QED
    BY <2>1, PlainReasons DEF Plain
<1>4. CASE TrackRenderStale(r) \/ TrackRenderNewer(r)
  BY <1>4, StaleReasons, NewerReasons
<1>5. CASE \/ Hello(r) \/ RefuseUnnegotiated(r) \/ LoadModel(r) \/ RefuseStart(r)
           \/ RefuseStreamRequest(r) \/ RefuseTrackRequest(r)
  <2>1. /\ UNCHANGED <<kind, operation, latest>>
        /\ UNCHANGED stdout \/ \E code : Emit(ReplyLine(NewId, code, 0)) /\ code # "superseded"
    <3>1. CASE Hello(r) \/ RefuseUnnegotiated(r)
      BY <3>1 DEF Hello, RefuseUnnegotiated, Refuse
    <3>2. CASE LoadModel(r) \/ RefuseStart(r)
      BY <3>2 DEF LoadModel, RefuseStart, Refuse
    <3>3. CASE RefuseStreamRequest(r)
      BY <3>3 DEF RefuseStreamRequest, StreamRefusal, Refuse
    <3>4. CASE RefuseTrackRequest(r)
      BY <3>4 DEF RefuseTrackRequest, TrackRefusal, Refuse
    <3> QED
      BY <1>5, <3>1, <3>2, <3>3, <3>4
  <2>2. Plain
    BY <1>2, <2>1 DEF Plain
  <2> QED
    BY <2>1, <2>2, PlainReasons
<1>6. CASE \/ StreamChunk(r) \/ StreamSettings(r) \/ StreamEnd(r)
           \/ TrackChunk(r) \/ TrackPrepare(r) \/ Cancel(r) \/ Shutdown(r)
  <2>1. /\ UNCHANGED <<kind, operation, latest>>
        /\ UNCHANGED stdout \/ Emit(ReplyLine(NewId, "operation_not_found", 0))
    BY <1>6 DEF StreamChunk, StreamSettings, StreamEnd, TrackChunk, TrackPrepare, Cancel,
         Shutdown, Refuse
  <2>2. Plain
    BY <1>2, <2>1 DEF Plain
  <2> QED
    BY <2>1, <2>2, PlainReasons
<1> QED
  BY <1>1, <1>3, <1>4, <1>5, <1>6 DEF StreamRequest, TrackRequest

\* NextReasons: every step keeps the reasons.
LEMMA NextReasons ==
  ASSUME OrderInv, Serving, RendersOwed, Reasons, [Next]_vars
  PROVE  Reasons'
<1> USE DEF mainVars, sharedVars, localVars
<1>1. CASE FinishActive
  <2>1. kind' # "track" /\ UNCHANGED stdout
    BY <1>1 DEF FinishActive, ResetOperation
  <2> QED
    BY <2>1, PlainReasons DEF Plain
<1>2. CASE TrackSkip \/ (TrackComplete /\ Superseded) \/ TrackRenderDisplace
  BY <1>2, DisplacedReasons
<1>3. CASE \/ UNCHANGED vars \/ StdinEof \/ SpuriousWakeup \/ StreamFails \/ TrackFails
           \/ TrackRenderQueue \/ ThreadStart \/ FallAsleep \/ Sleep \/ WakeCanceled
           \/ CommitTerminal \/ EmitTerminal \/ StreamTake \/ StreamConfigure \/ StreamServe
           \/ StreamFrame \/ StreamDrained \/ StreamCanceled \/ TrackTake \/ TrackEmpty
           \/ TrackBegin \/ TrackExecute \/ TrackLatePreview \/ TrackBatch \/ TrackCanceled
  <2>1. /\ UNCHANGED <<kind, operation, latest>>
        /\ UNCHANGED stdout \/ \E name, n, k : Emit(EventLine(name, n, k))
    BY <1>3 DEF vars, StdinEof, SpuriousWakeup, StreamFails, TrackFails, TrackRenderQueue,
         ThreadStart, FallAsleep, Sleep, WakeCanceled, CommitTerminal, EmitTerminal, StreamTake,
         StreamConfigure, StreamServe, StreamFrame, StreamDrained, StreamCanceled, TrackTake,
         TrackEmpty, TrackBegin, TrackExecute, TrackLatePreview, TrackBatch, TrackCanceled, Leave
  <2> QED
    BY <2>1, PlainReasons DEF Plain
<1>4. CASE \/ Respond \/ JoinOperation \/ RejectPending \/ StreamAcknowledge \/ TrackAppend
           \/ TrackPrepared \/ (TrackComplete /\ ~Superseded)
  <2>1. /\ UNCHANGED <<kind, operation, latest>>
        /\ \/ UNCHANGED stdout
           \/ \E id, code, n : /\ Emit(ReplyLine(id, code, n))
                               /\ code \in {"ok", "failed", "operation_not_found"}
    BY <1>4 DEF Respond, JoinOperation, RejectPending, RejectionCode, StreamAcknowledge,
         TrackAppend, TrackPrepared, TrackComplete, Answer
  <2>2. Plain
    BY <2>1 DEF Plain, Settling
  <2> QED
    BY <2>1, <2>2, PlainReasons
<1> QED
  BY <1>1, <1>2, <1>3, <1>4, RequestReasons
     DEF Next, MainContinues, OperationThread, StreamLoop, TrackLoop

\* A worker that has read nothing has said nothing.
LEMMA InitRenders == Init => RendersOwed /\ Reasons
<1> SUFFICES ASSUME Init PROVE RendersOwed /\ Reasons
  OBVIOUS
<1>1. stdout = <<>> /\ kind = "none" /\ operations = 0
  BY DEF Init
<1>2. Written = {} /\ Replies = {}
  BY <1>1 DEF Written, Replies
<1>3. RendersTold
  BY <1>1, <1>2 DEF RendersTold, RevisionsTold, CompleteBeforePublication, NewestRevisionOnly
<1> QED
  BY <1>1, <1>2, <1>3 DEF RendersOwed, Reasons

\* What is said of renders is invariant.
THEOREM RendersAreOwed == Spec => [](RendersOwed /\ Reasons)
<1>1. OrderInv /\ Serving /\ RendersOwed /\ Reasons /\ [Next]_vars => (RendersOwed /\ Reasons)'
  BY NextRenders, NextReasons
<1>2. Spec => []Serving
  BY StreamOwed, PTL
<1> QED
  BY <1>1, <1>2, InitRenders, OrderInvariance, PTL DEF Spec

\* TrackIsServed: TrackContract holds in every reachable state of the worker,
\* for every client, cache length, batch size and number of renders: a render
\* is completed after its whole cache, nothing of an older revision follows one
\* of a newer, a render is superseded only by an accepted one, and the track's
\* end and its cancel are as for a Stream.
THEOREM TrackIsServed == Spec => []TrackContract
<1>1. ASSUME OrderInv, Serving, QueueBounded, RendersOwed, Reasons
      PROVE  TrackContract
  <2>1. ASSUME NEW i \in Replies, stdout[i].name = "superseded"
        PROVE  \E other \in 1..Len(received) :
          /\ other # stdout[i].id
          /\ received[other].method = "track_render"
          /\ received[other].operation = received[stdout[i].id].operation
          /\ received[other].revision >= received[stdout[i].id].revision
          /\ \A j \in RepliesTo(other) : stdout[j].name \in Settling
    <3>1. PICK other \in 1..Len(received) : Newer(other, stdout[i].id)
      BY <1>1, <2>1 DEF Reasons
    <3>2. other \in Awaited => RepliesTo(other) = {}
      BY <1>1, ServingTyped DEF Awaited, ExactlyOneReply, InHand, Replied, RepliesTo
    <3>3. \A j \in RepliesTo(other) : stdout[j].name \in Settling
      BY <3>1, <3>2 DEF Newer, Honored
    <3> QED
      BY <3>1, <3>3 DEF Newer
  <2>2. SupersededForAReason
    BY <2>1 DEF SupersededForAReason, Settling
  <2> QED
    BY <1>1, <2>2 DEF TrackContract, RendersOwed, RendersTold, OrderInv
<1>2. Spec => [](OrderInv /\ Serving /\ QueueBounded /\ RendersOwed /\ Reasons)
  BY StreamOwed, RendersAreOwed, OrderInvariance, PTL
<1> QED
  BY <1>1, <1>2, PTL
=============================================================================
