---------------------------- MODULE SessionProofs ----------------------------
(***************************************************************************)
(* Audio reaches the worker in order, the meshes and the worker have one   *)
(* owner at a time, the credit of a Stream is in one place, and a worker   *)
(* that keeps the contract is kept, for every number of operations, chunks, *)
(* frames and disturbances.                                                *)
(***************************************************************************)
EXTENDS SessionProperties, SequenceTheorems, FiniteSetTheorems,
        FunctionTheorems, TLAPS

\* Nothing of the active Stream is wanted any more, or there is none.
Quiet == stream.id = None \/ stream.stopRequested

\* The active Stream may still send to a worker that runs.
Loud == ~Quiet /\ process = "up"

\* What is left of a Stream, a presentation and a track once they are over.
Blank ==
  /\ stream.id = None => ~stream.stopRequested /\ ~stream.workerEnded /\ ~stream.endSent
  /\ track.id = None => ~track.restart
  /\ live.terminal => stream.workerEnded
  /\ live.frames => live.id # None
  /\ {stream.id, track.id} \subseteq 0..operations

\* Who may speak to the worker, and when.
Roles ==
  /\ process = "up" => client # "gone"
  /\ client = "stopping" => Quiet
  /\ Loud => mode = "STREAM"
  /\ pc # "idle" /\ ~available => ~Loud
  /\ batch <= Len(lines)
  /\ \A i \in DOMAIN lines : lines[i].type = "exited" => process # "up"

Owner ==
  /\ PresentationFollowsStream
  /\ stream.id = None \/ track.id = None
  /\ Blank /\ Roles

\* What the source pushed and what was sent of it.
Sent == pushed - Len(ingress.chunks)
Audio ==
  /\ Sent \in 0..pushed
  /\ \A i \in DOMAIN ingress.chunks : ingress.chunks[i] = Sent + i
  /\ \A o \in Operations : \A i \in DOMAIN heard[o] : heard[o][i] <= Sent
  /\ \A o \in Operations : o > operations => heard[o] = <<>>
  /\ stream.id # None => \A o \in Operations : o > stream.id => heard[o] = <<>>
  /\ Loud /\ heard[stream.id] # <<>> =>
       heard[stream.id][Len(heard[stream.id])] = Sent
  /\ InOrder /\ WholeSourceBeforeEnd

\* The operation is not served and will not be.
Over(operation) ==
  /\ serving.id = operation => serving.phase = "finishing"
  /\ \A i \in DOMAIN inbox :
       inbox[i].method \in Starts => inbox[i].operation # operation

Terminal(line) ==
  line.type = "event" /\ line.name \in {"stream_ended", "track_ended", "error"}
OfStream(line) ==
  line.type = "event" /\ line.name \in {"stream_credit", "stream_frame"}
StreamMethods == {"stream_start", "stream_chunk", "stream_settings", "stream_end"}

\* One start is on its way at a time, to a worker that is free.
OneStart ==
  /\ \A i \in DOMAIN inbox : inbox[i].method \in Starts =>
       /\ serving.phase \in {"idle", "finishing"}
       /\ inbox[i].operation \notin {serving.id, None}
       /\ \A j \in DOMAIN inbox : inbox[j].method \in Starts => i = j
  /\ serving.id = None <=> serving.phase = "idle"

\* Operations are known to the controller, and only a shutdown is of none.
Known ==
  /\ serving.id <= operations
  /\ \A i \in DOMAIN inbox :
       /\ inbox[i].operation <= operations
       /\ inbox[i].operation = None => inbox[i].method = "shutdown"
  /\ \A i \in DOMAIN lines :
       /\ lines[i].type # "exited" => lines[i].operation <= operations
       /\ lines[i].type = "reply" /\ lines[i].operation = None
            => lines[i].method = "shutdown" /\ lines[i].code = "ok"

\* An operation is given up when it is over.
GivenUp ==
  /\ \A i \in DOMAIN lines : Terminal(lines[i]) => Over(lines[i].operation)
  /\ stream.workerEnded => Over(stream.id)
  /\ CanRequest => \A o \in 1..operations : o \notin {stream.id, track.id} => Over(o)

\* A cancel is sent once it is requested.
Cancels ==
  /\ \A i \in DOMAIN inbox :
       inbox[i].method = "cancel" /\ inbox[i].operation = stream.id /\ stream.id # None
         => stream.stopRequested
  /\ \A i \in DOMAIN lines :
       lines[i].type = "reply" /\ lines[i].method = "cancel" =>
         /\ lines[i].code \in {"ok", "operation_not_found"}
         /\ lines[i].operation = stream.id /\ stream.id # None => stream.stopRequested

\* A track hears nothing of a Stream.
Kinds ==
  track.id # None =>
    /\ \A i \in DOMAIN inbox :
         inbox[i].method \in StreamMethods => inbox[i].operation # track.id
    /\ \A i \in DOMAIN lines : OfStream(lines[i]) => lines[i].operation # track.id
    /\ serving.id = track.id => ~serving.fed /\ serving.chunks = 0

SessionInv ==
  /\ TypeOK /\ Owner /\ Audio
  /\ OneStart /\ Known /\ GivenUp /\ Cancels /\ Kinds
-----------------------------------------------------------------------------
(* What a handler of the controller does, whatever called it. *)

\* A request for an operation that the controller has, or a shutdown.
Own(request) ==
  \/ /\ request.method \in {"stream_chunk", "stream_settings", "stream_end"}
     /\ request.operation = stream.id /\ stream.id # None
  \/ /\ request.method = "cancel" /\ Quiet'
     /\ request.operation = stream.id /\ stream.id # None
  \/ /\ request.method \in {"track_chunk", "cancel"}
     /\ request.operation = track.id /\ track.id # None
  \/ request.method = "shutdown" /\ request.operation = None

\* No operation is started, and one is given up only when it is over.
Keeps ==
  /\ operations' = operations
  /\ stream'.id \in {stream.id, None} /\ track'.id \in {track.id, None}
  /\ Quiet => Quiet'
  /\ stream'.workerEnded => Over(stream.id)
  /\ stream'.id # stream.id => Over(stream.id) \/ ~CanRequest'
  /\ track'.id # track.id => Over(track.id) \/ ~CanRequest'
  /\ \/ inbox' \in {inbox, <<>>}
     \/ \E request \in Request : Own(request) /\ inbox' = Append(inbox, request)

\* Nothing runs, and one operation is started.
Begins(method) ==
  /\ CanRequest /\ operations' = operations + 1
  /\ stream.id = None \/ Over(stream.id)
  /\ track.id = None \/ Over(track.id)
  /\ inbox' = Append(inbox, [method |-> method, operation |-> operations'])
  /\ ~stream'.workerEnded /\ ~stream'.endSent
StartsStream ==
  /\ Begins("stream_start")
  /\ stream'.id = operations' /\ track'.id = None
  /\ mode = "STREAM" /\ available
StartsTrack ==
  /\ Begins("track_start")
  /\ stream'.id = None /\ track'.id = operations'

\* The source's PCM is kept while its Stream is wanted.
KeepsAudio ==
  /\ UNCHANGED heard
  /\ \/ ingress' = ingress
     \/ ingress' = NoIngress /\ (Quiet' \/ process # "up")
  /\ stream'.endSent =>
       stream.endSent \/ (ingress.chunks = <<>> /\ ingress.ending)

SendsAudio ==
  /\ Loud /\ ingress.chunks # <<>>
  /\ stream'.id = stream.id /\ stream'.endSent = stream.endSent
  /\ heard' = [heard EXCEPT ![stream.id] = Append(@, Head(ingress.chunks))]
  /\ ingress' = [ingress EXCEPT !.chunks = Tail(@)]

Handled ==
  /\ SessionOK' /\ Blank' /\ PresentationFollowsStream'
  /\ stream'.id = None \/ track'.id = None
  /\ client # "running" => client' # "running"
  /\ process = "up" => client' # "gone"
  /\ client' = "stopping" => Quiet'
  /\ Keeps \/ StartsStream \/ StartsTrack
  /\ KeepsAudio \/ (SendsAudio /\ operations' = operations)

(* What a step of the worker does, whichever it is. *)

\* What the worker may say.
Fresh(line) ==
  /\ line.type = "exited" => process' # "up"
  /\ line.type # "exited" => line.operation <= operations
  /\ line.type = "reply" /\ line.operation = None
       => line.method = "shutdown" /\ line.code = "ok"
  /\ Terminal(line) => \A o \in Operations : o = line.operation => Over(o)'
  /\ OfStream(line) /\ track.id # None => line.operation # track.id
  /\ line.type = "reply" /\ line.method = "cancel" =>
       /\ line.code \in {"ok", "operation_not_found"}
       /\ line.operation = stream.id /\ stream.id # None => stream.stopRequested

\* The operation goes on, is reset, or is started by the request that was read.
GoesOn ==
  /\ serving'.id = serving.id
  /\ serving'.phase = "idle" <=> serving.phase = "idle"
  /\ serving.phase = "finishing" => serving'.phase = "finishing"
IsStarted ==
  /\ serving.id = None /\ inbox # <<>> /\ Head(inbox).method \in Starts
  /\ inbox' = Tail(inbox)
  /\ serving'.id = Head(inbox).operation /\ serving'.phase = "running"

Serves ==
  /\ UNCHANGED <<pc, batch, mode, available, status, ingress, stream, live, track,
                 loaded, expected, rejected, operations, heard, pushed>>
  /\ WorkerOK' /\ disturbed' \in 0..MaxDisturbances
  /\ client' = client \/ (client' = "gone" /\ process' # "up")
  /\ process' = "up" => process = "up"
  /\ inbox' = inbox \/ (inbox # <<>> /\ inbox' = Tail(inbox))
  /\ Len(lines) <= Len(lines')
  /\ \A i \in DOMAIN lines' :
       (i \in DOMAIN lines /\ lines'[i] = lines[i]) \/ Fresh(lines'[i])
  /\ GoesOn \/ IsStarted \/ serving' = Idle
  /\ track.id # None /\ serving'.id = track.id
       => ~serving'.fed /\ serving'.chunks = 0
-----------------------------------------------------------------------------
USE SessionAssumption

\* What is in a sequence that was appended to, or whose head was taken.
LEMMA Appended ==
  ASSUME NEW S, NEW s \in Seq(S), NEW e \in S
  PROVE  /\ Append(s, e) \in Seq(S) /\ Len(Append(s, e)) = Len(s) + 1
         /\ DOMAIN s = 1..Len(s) /\ DOMAIN Append(s, e) = 1..(Len(s) + 1)
         /\ \A i \in DOMAIN s : Append(s, e)[i] = s[i]
         /\ Append(s, e)[Len(s) + 1] = e
OBVIOUS

\* Behead: what is left of a sequence whose head was taken.
LEMMA Behead ==
  ASSUME NEW S, NEW s \in Seq(S), s # <<>>
  PROVE  /\ Tail(s) \in Seq(S) /\ Len(Tail(s)) = Len(s) - 1 /\ Len(s) > 0
         /\ Head(s) = s[1] /\ Head(s) \in S /\ 1 \in DOMAIN s
         /\ DOMAIN s = 1..Len(s) /\ DOMAIN Tail(s) = 1..(Len(s) - 1)
         /\ \A i \in DOMAIN Tail(s) : Tail(s)[i] = s[i + 1] /\ i + 1 \in DOMAIN s
OBVIOUS

\* Element: an element of a sequence.
LEMMA Element ==
  ASSUME NEW S, NEW s \in Seq(S), NEW i \in DOMAIN s
  PROVE  s[i] \in S /\ i \in 1..Len(s) /\ Len(s) \in Nat
OBVIOUS

\* Lines: what a line says, by its type.
LEMMA Lines ==
  ASSUME NEW line \in Line
  PROVE  /\ line.type = "event" => line \in EventLine /\ line.operation \in Operations
         /\ line.type = "reply" => line \in Reply
                                   /\ line.operation \in Operations \cup {None}
         /\ line.type = "exited" => line \in Exited
         /\ line.type \in {"event", "reply", "exited"}
BY DEF Line, EventLine, Reply, Exited

\* InitKeeps: nothing runs.
LEMMA InitKeeps == Init => SessionInv
<1> SUFFICES ASSUME Init PROVE SessionInv
  OBVIOUS
<1>1. /\ NoIngress \in Ingress /\ NoStream \in Stream /\ NoLive \in Live
      /\ NoTrack \in Track /\ Idle \in Serving
  BY DEF NoIngress, Ingress, NoStream, Stream, NoLive, Live, NoTrack, Track,
     Idle, Serving
<1>2. TypeOK
  <2>1. SessionOK
    <3>1. /\ "ready" \in Statuses /\ <<>> \in Seq(Request) /\ <<>> \in Seq(Chunks)
      BY DEF Statuses
    <3>2. heard \in [Operations -> Seq(Chunks)] /\ operations \in 0..MaxOperations
      BY <3>1 DEF Init
    <3>3. QED
      BY <1>1, <3>1, <3>2 DEF Init, SessionOK
  <2>2. WorkerOK
    BY <1>1 DEF Init, WorkerOK
  <2>3. QED
    BY <2>1, <2>2 DEF Init, TypeOK
<1>3. Owner
  BY DEF Init, Owner, PresentationFollowsStream, Blank, Roles, Quiet, Loud,
     NoStream, NoLive, NoTrack, None
<1>4. Audio
  <2>1. Sent = 0 /\ pushed = 0 /\ DOMAIN ingress.chunks = {}
    <3>1. ingress.chunks = <<>> /\ pushed = 0
      BY DEF Init, NoIngress
    <3>2. Len(ingress.chunks) = 0 /\ DOMAIN ingress.chunks = {}
      BY <3>1
    <3>3. pushed = 0 /\ Len(ingress.chunks) = 0
      BY <3>1, <3>2
    <3>4. Sent = 0
      BY <3>3 DEF Sent
    <3>5. QED
      BY <3>2, <3>3, <3>4
  <2>2. \A o \in Operations : heard[o] = <<>> /\ DOMAIN heard[o] = {}
    BY DEF Init
  <2>3. stream.id = None /\ ~stream.endSent /\ ~Loud
    BY DEF Init, NoStream, Loud, Quiet
  <2>4. InOrder /\ WholeSourceBeforeEnd
    BY <2>2, <2>3 DEF InOrder, WholeSourceBeforeEnd
  <2>5. QED
    BY <2>1, <2>2, <2>3, <2>4 DEF Audio
<1>5. OneStart /\ Known /\ GivenUp /\ Cancels /\ Kinds
  BY DEF Init, OneStart, Known, GivenUp, Cancels, Kinds, Idle, NoStream,
     NoTrack, None
<1>6. QED
  BY <1>2, <1>3, <1>4, <1>5 DEF SessionInv

-----------------------------------------------------------------------------
(* What a handler does keeps the invariant. *)

\* Requests: what is in the inbox after a handler.
LEMMA Requests ==
  ASSUME SessionOK, Handled, NEW i \in DOMAIN inbox'
  PROVE  \/ i \in DOMAIN inbox /\ inbox'[i] = inbox[i]
         \/ /\ Keeps /\ Own(inbox'[i]) /\ inbox'[i] \in Request
         \/ /\ StartsStream \/ StartsTrack
            /\ i = Len(inbox) + 1 /\ inbox'[i].operation = operations + 1
            /\ inbox'[i].method =
                 IF StartsStream THEN "stream_start" ELSE "track_start"
<1>1. inbox \in Seq(Request) /\ inbox' \in Seq(Request)
  BY DEF SessionOK, Handled
<1>2. CASE Keeps
  <2>1. CASE inbox' \in {inbox, <<>>}
    BY <2>1
  <2>2. ASSUME NEW request \in Request, Own(request),
               inbox' = Append(inbox, request)
        PROVE  \/ i \in DOMAIN inbox /\ inbox'[i] = inbox[i]
               \/ inbox'[i] = request
    BY <1>1, <2>2, Appended
  <2>3. QED
    BY <1>2, <2>1, <2>2 DEF Keeps
<1>3. ASSUME NEW method, Begins(method)
      PROVE  \/ i \in DOMAIN inbox /\ inbox'[i] = inbox[i]
             \/ /\ i = Len(inbox) + 1 /\ inbox'[i].operation = operations + 1
                /\ inbox'[i].method = method
  <2> DEFINE request == [method |-> method, operation |-> operations']
  <2>1. inbox' = Append(inbox, request) /\ operations' = operations + 1
    BY <1>3 DEF Begins
  <2>2. /\ Len(inbox') = Len(inbox) + 1 /\ inbox'[Len(inbox) + 1] = request
        /\ \A j \in 1..Len(inbox) : inbox'[j] = inbox[j]
    BY <1>1, <2>1
  <2>3. i \in 1..(Len(inbox) + 1)
    BY <1>1, <2>2
  <2>4. QED
    BY <1>1, <2>1, <2>2, <2>3
<1>4. CASE StartsStream
  BY <1>3, <1>4 DEF StartsStream
<1>5. CASE StartsTrack /\ ~StartsStream
  BY <1>3, <1>5 DEF StartsTrack
<1>6. QED
  BY <1>2, <1>4, <1>5 DEF Handled

\* OverKept: a handler does not start again what is over.
LEMMA OverKept ==
  ASSUME SessionOK, Handled, UNCHANGED serving, NEW o \in 0..operations, Over(o)
  PROVE  Over(o)'
<1>1. operations \in Nat
  BY DEF SessionOK
<1>2. ASSUME NEW i \in DOMAIN inbox', inbox'[i].method \in Starts
      PROVE  inbox'[i].operation # o
  <2>1. CASE i \in DOMAIN inbox /\ inbox'[i] = inbox[i]
    BY <1>2, <2>1 DEF Over
  <2>2. ~Own(inbox'[i])
    BY <1>2 DEF Own, Starts
  <2>3. QED
    BY <1>1, <2>1, <2>2, Requests
<1>3. QED
  BY <1>2 DEF Over

\* AudioKept: a handler keeps the order of the audio, sending a chunk or not.
LEMMA AudioKept ==
  ASSUME TypeOK, Owner, Audio, Handled, UNCHANGED <<process, pushed>>
  PROVE  Audio'
<1>1. /\ ingress.chunks \in Seq(Chunks) /\ heard \in [Operations -> Seq(Chunks)]
      /\ pushed \in 0..MaxChunks /\ operations \in 0..MaxOperations
      /\ stream.id \in Operations \cup {None} /\ Chunks \subseteq Nat
      /\ pushed \in Nat /\ stream'.id \in Operations \cup {None}
      /\ operations' \in 0..MaxOperations /\ stream.id <= operations
  BY DEF TypeOK, SessionOK, Handled, Ingress, Stream, Chunks, Owner, Blank, None
<1>2. CASE KeepsAudio
  <2>1. heard' = heard
    BY <1>2 DEF KeepsAudio
  <2>2. CASE ingress' = ingress
    <3>1. Sent' = Sent
      BY <2>2 DEF Sent
    <3>2. \/ Loud' => Loud /\ stream'.id = stream.id
          \/ StartsStream
      BY DEF Handled, Keeps, StartsTrack, Loud, Quiet
    <3>3. operations' \in {operations, operations + 1}
      BY DEF Handled, Keeps, StartsTrack, StartsStream, Begins
    <3>4. \A o \in Operations : o > operations' => heard[o] = <<>>
      BY <1>1, <3>3 DEF Audio, Operations
    <3>5. stream'.id # None => \A o \in Operations : o > stream'.id => heard[o] = <<>>
      <4>1. CASE stream'.id = operations + 1
        BY <1>1, <4>1 DEF Audio, Operations
      <4>2. CASE stream'.id \in {stream.id, None}
        BY <4>2 DEF Audio
      <4>3. QED
        BY <4>1, <4>2 DEF Handled, Keeps, StartsTrack, StartsStream, Begins
    <3>6. Loud' /\ heard[stream'.id] # <<>> =>
            heard[stream'.id][Len(heard[stream'.id])] = Sent
      <4>1. StartsStream => heard[stream'.id] = <<>>
        <5> SUFFICES ASSUME StartsStream PROVE heard[stream'.id] = <<>>
          OBVIOUS
        <5>1. stream'.id = operations + 1
          BY DEF StartsStream, Begins
        <5>2. stream'.id \in Operations /\ stream'.id > operations
          BY <1>1, <5>1 DEF Operations, None
        <5>3. QED
          BY <5>2 DEF Audio
      <4>2. QED
        BY <3>2, <4>1 DEF Audio
    <3>7. WholeSourceBeforeEnd'
      <4>1. SUFFICES ASSUME stream'.endSent, ~stream'.stopRequested, process = "up"
                     PROVE  ingress.ending /\ ingress.chunks = <<>>
        BY <2>2 DEF WholeSourceBeforeEnd
      <4>2. stream'.id # None
        BY <4>1 DEF Handled, Blank
      <4>3. CASE stream.endSent
        <5>1. ~StartsStream /\ ~StartsTrack
          BY <4>1 DEF StartsStream, StartsTrack, Begins
        <5>2. ~Quiet /\ stream'.id = stream.id
          BY <4>1, <4>2, <5>1 DEF Handled, Keeps, Quiet
        <5>3. QED
          BY <4>1, <4>3, <5>2 DEF Audio, WholeSourceBeforeEnd, Quiet
      <4>4. QED
        BY <1>2, <4>1, <4>3 DEF KeepsAudio
    <3>8. QED
      BY <2>1, <2>2, <3>1, <3>4, <3>5, <3>6, <3>7 DEF Audio, InOrder
  <2>3. CASE ingress' = NoIngress /\ (Quiet' \/ process # "up")
    <3>1. ingress'.chunks = <<>> /\ Len(ingress'.chunks) = 0
      BY <2>3 DEF NoIngress
    <3>2. Sent' = pushed /\ Sent <= pushed /\ Sent \in Nat
      BY <1>1, <3>1 DEF Sent, Audio
    <3>3. ~Loud'
      BY <2>3 DEF Loud
    <3>4. operations' \in {operations, operations + 1}
      BY DEF Handled, Keeps, StartsTrack, StartsStream, Begins
    <3>5. \A o \in Operations : o > operations' => heard[o] = <<>>
      BY <1>1, <3>4 DEF Audio, Operations
    <3>6. stream'.id # None => \A o \in Operations : o > stream'.id => heard[o] = <<>>
      <4>1. CASE stream'.id = operations + 1
        BY <1>1, <4>1 DEF Audio, Operations
      <4>2. CASE stream'.id \in {stream.id, None}
        BY <4>2 DEF Audio
      <4>3. QED
        BY <4>1, <4>2 DEF Handled, Keeps, StartsTrack, StartsStream, Begins
    <3>7. \A o \in Operations : \A i \in DOMAIN heard[o] : heard[o][i] <= pushed
      <4> SUFFICES ASSUME NEW o \in Operations, NEW i \in DOMAIN heard[o]
                   PROVE  heard[o][i] <= pushed
        OBVIOUS
      <4>1. heard[o] \in Seq(Chunks) /\ heard[o][i] \in Nat
        <5>1. heard[o] \in Seq(Chunks)
          BY <1>1
        <5>2. heard[o][i] \in Chunks
          BY <5>1, Element
        <5>3. QED
          BY <1>1, <5>1, <5>2
      <4>2. heard[o][i] <= Sent
        BY DEF Audio
      <4>3. QED
        BY <1>1, <3>2, <4>1, <4>2
    <3>8. WholeSourceBeforeEnd'
      <4>1. stream'.endSent => stream'.id # None
        BY DEF Handled, Blank
      <4>2. QED
        BY <3>3, <4>1 DEF WholeSourceBeforeEnd, Loud, Quiet
    <3>9. InOrder'
      BY <2>1 DEF InOrder, Audio
    <3>10. Sent' \in 0..pushed
      BY <1>1, <3>2
    <3>11. DOMAIN ingress'.chunks = {}
      BY <3>1
    <3>12. QED
      BY <2>1, <3>2, <3>3, <3>5, <3>6, <3>7, <3>8, <3>9, <3>10, <3>11 DEF Audio
  <2>4. QED
    BY <1>2, <2>2, <2>3 DEF KeepsAudio
<1>3. CASE SendsAudio /\ operations' = operations
  <2> DEFINE id == stream.id
             chunk == Head(ingress.chunks)
             own == heard[id]
  <2>1. /\ stream'.id = id /\ id \in Operations /\ Loud
        /\ heard' = [heard EXCEPT ![id] = Append(own, chunk)]
        /\ ingress'.chunks = Tail(ingress.chunks)
        /\ ingress.chunks # <<>>
    BY <1>1, <1>3 DEF SendsAudio, Loud, Quiet, TypeOK, SessionOK, Ingress
  <2>2. /\ Len(Tail(ingress.chunks)) = Len(ingress.chunks) - 1
        /\ Len(ingress.chunks) \in Nat \ {0}
        /\ \A i \in DOMAIN Tail(ingress.chunks) :
             /\ Tail(ingress.chunks)[i] = ingress.chunks[i + 1]
             /\ i + 1 \in DOMAIN ingress.chunks
             /\ i \in Nat
        /\ chunk = ingress.chunks[1] /\ 1 \in DOMAIN ingress.chunks
        /\ chunk \in Chunks
    BY <1>1, <2>1, Behead
  <2>3. Sent \in 0..pushed /\ Sent \in Nat /\ Sent' = Sent + 1 /\ Sent' \in 0..pushed
    <3>1. Sent' = pushed - (Len(ingress.chunks) - 1)
      BY <2>1, <2>2 DEF Sent
    <3>2. Sent = pushed - Len(ingress.chunks) /\ Sent \in 0..pushed
      BY DEF Sent, Audio
    <3>3. QED
      BY <1>1, <2>2, <3>1, <3>2
  <2>4. chunk = Sent + 1
    BY <2>2 DEF Audio
  <2>5. \A i \in DOMAIN ingress'.chunks : ingress'.chunks[i] = Sent' + i
    <3> SUFFICES ASSUME NEW i \in DOMAIN Tail(ingress.chunks)
                 PROVE  Tail(ingress.chunks)[i] = Sent + 1 + i
      BY <2>1, <2>3
    <3>1. ingress.chunks[i + 1] = Sent + (i + 1) /\ i \in Nat
      BY <2>2 DEF Audio
    <3>2. QED
      BY <2>2, <2>3, <3>1
  <2>6. /\ own \in Seq(Chunks) /\ heard'[id] = Append(own, chunk)
        /\ \A o \in Operations : o # id => heard'[o] = heard[o]
        /\ Len(own) \in Nat
    BY <1>1, <2>1
  <2>7. /\ DOMAIN heard'[id] = 1..(Len(own) + 1) /\ DOMAIN own = 1..Len(own)
        /\ Len(heard'[id]) = Len(own) + 1
        /\ \A i \in 1..Len(own) : heard'[id][i] = own[i]
        /\ heard'[id][Len(own) + 1] = Sent + 1
        /\ heard'[id] # <<>>
    <3> DEFINE new == Append(own, chunk)
    <3>1. /\ Len(new) = Len(own) + 1
          /\ DOMAIN own = 1..Len(own) /\ DOMAIN new = 1..(Len(own) + 1)
          /\ \A i \in DOMAIN own : new[i] = own[i]
          /\ new[Len(own) + 1] = chunk
      BY <2>2, <2>6, Appended
    <3>2. new # <<>>
      BY <2>6, <3>1
    <3> HIDE DEF new
    <3>3. heard'[id] = new
      BY <2>6 DEF new
    <3>4. QED
      BY <2>4, <3>1, <3>2, <3>3
  <2>8. \A i \in 1..Len(own) : own[i] \in Nat /\ own[i] <= Sent
    <3> SUFFICES ASSUME NEW i \in 1..Len(own) PROVE own[i] \in Nat /\ own[i] <= Sent
      OBVIOUS
    <3>1. own[i] \in Chunks /\ i \in DOMAIN own
      BY <2>6, <2>7, Element
    <3>2. own[i] <= Sent
      BY <2>1, <3>1 DEF Audio
    <3>3. QED
      BY <1>1, <3>1, <3>2
  <2>9. \A o \in Operations : \A i \in DOMAIN heard[o] : heard[o][i] \in Nat /\ heard[o][i] <= Sent
    <3> SUFFICES ASSUME NEW o \in Operations, NEW i \in DOMAIN heard[o]
                 PROVE  heard[o][i] \in Nat /\ heard[o][i] <= Sent
      OBVIOUS
    <3>1. heard[o] \in Seq(Chunks)
      BY <1>1
    <3>2. heard[o][i] \in Chunks
      BY <3>1, Element
    <3>3. QED
      BY <1>1, <3>2 DEF Audio
  <2>10. \A o \in Operations : \A i \in DOMAIN heard'[o] : heard'[o][i] <= Sent'
    <3> SUFFICES ASSUME NEW o \in Operations, NEW i \in DOMAIN heard'[o]
                 PROVE  heard'[o][i] <= Sent + 1
      BY <2>3
    <3>1. CASE o # id
      <4>1. heard'[o][i] \in Nat /\ heard'[o][i] <= Sent
        BY <2>6, <2>9, <3>1
      <4>2. QED
        BY <2>3, <4>1
    <3>2. CASE o = id
      <4>1. CASE i = Len(own) + 1
        BY <2>3, <2>7, <3>2, <4>1
      <4>2. CASE i # Len(own) + 1
        <5>1. i \in 1..Len(own)
          BY <2>6, <2>7, <3>2, <4>2
        <5>2. QED
          BY <2>3, <2>7, <2>8, <3>2, <5>1, SMTT(30)
      <4>3. QED
        BY <4>1, <4>2
    <3>3. QED
      BY <3>1, <3>2
  <2>11. \A o \in Operations : o > id => heard[o] = <<>> /\ heard'[o] = <<>>
    BY <1>1, <2>1, <2>6 DEF Audio, Loud, Quiet, Operations
  <2>12. \A o \in Operations : o > operations => heard'[o] = <<>>
    BY <1>1, <2>1, <2>11 DEF Operations
  <2>13. heard'[id][Len(heard'[id])] = Sent'
    BY <2>3, <2>7
  <2>14. InOrder'
    <3>1. ASSUME NEW o \in Operations, NEW i \in 1..Len(heard'[o])
          PROVE  heard'[o][i] = heard'[o][1] + i - 1
      <4>1. CASE o # id
        BY <2>6, <3>1, <4>1 DEF Audio, InOrder
      <4>2. CASE o = id /\ i \in 1..Len(own)
        <5>1. own[i] = own[1] + i - 1
          BY <2>1, <4>2 DEF Audio, InOrder
        <5>2. 1 \in 1..Len(own)
          BY <2>6, <4>2
        <5>3. QED
          BY <2>7, <4>2, <5>1, <5>2
      <4>3. CASE o = id /\ i = Len(own) + 1
        <5>1. CASE Len(own) = 0
          BY <2>7, <2>3, <4>3, <5>1
        <5>2. CASE Len(own) > 0
          <6>1. own # <<>>
            BY <5>2
          <6>2. own[Len(own)] = Sent
            BY <2>1, <6>1 DEF Audio
          <6>3. 1 \in 1..Len(own) /\ Len(own) \in 1..Len(own)
            BY <2>6, <5>2
          <6>4. own[Len(own)] = own[1] + Len(own) - 1
            BY <2>1, <6>3 DEF Audio, InOrder
          <6>5. own[1] \in Nat /\ heard'[id][1] = own[1]
            BY <2>7, <2>8, <6>3
          <6>6. Sent + 1 = own[1] + (Len(own) + 1) - 1
            BY <2>3, <2>6, <6>2, <6>4, <6>5
          <6>7. QED
            BY <2>7, <4>3, <6>5, <6>6
        <5>3. QED
          BY <2>6, <5>1, <5>2
      <4>4. i \in 1..(Len(own) + 1) \/ o # id
        BY <2>7, <3>1
      <4>5. QED
        BY <2>6, <4>1, <4>2, <4>3, <4>4
    <3>2. ASSUME NEW o \in Operations, NEW later \in Operations, o < later,
                 NEW i \in DOMAIN heard'[o], NEW j \in DOMAIN heard'[later]
          PROVE  heard'[o][i] < heard'[later][j]
      <4>1. later <= id
        <5>1. heard'[later] # <<>>
          BY <3>2
        <5>2. QED
          BY <2>1, <2>11, <5>1 DEF Operations
      <4>2. o # id
        BY <2>1, <3>2, <4>1 DEF Operations
      <4>3. /\ i \in DOMAIN heard[o] /\ heard'[o][i] = heard[o][i]
            /\ heard[o][i] \in Nat /\ heard[o][i] <= Sent
        BY <2>6, <2>9, <3>2, <4>2
      <4>4. CASE later # id
        BY <2>6, <3>2, <4>3, <4>4 DEF Audio, InOrder
      <4>5. CASE later = id /\ j = Len(own) + 1
        BY <2>3, <2>7, <4>3, <4>5
      <4>6. CASE later = id /\ j # Len(own) + 1
        <5>1. j \in 1..Len(own)
          BY <2>6, <2>7, <3>2, <4>6, SMTT(30)
        <5>2. heard[o][i] < own[j]
          BY <2>1, <2>7, <3>2, <4>3, <4>6, <5>1 DEF Audio, InOrder
        <5>3. QED
          BY <2>7, <4>3, <4>6, <5>1, <5>2
      <4>7. QED
        BY <4>4, <4>5, <4>6
    <3>3. QED
      BY <3>1, <3>2 DEF InOrder
  <2>15. WholeSourceBeforeEnd'
    <3>1. ~stream.endSent
      BY <1>3, <2>1 DEF Audio, WholeSourceBeforeEnd, Loud, Quiet
    <3>2. QED
      BY <1>3, <3>1 DEF SendsAudio, WholeSourceBeforeEnd
  <2>16. QED
    BY <1>3, <2>1, <2>3, <2>5, <2>10, <2>11, <2>12, <2>13, <2>14, <2>15 DEF Audio
<1>4. QED
  BY <1>2, <1>3 DEF Handled

\* LinesKept: what holds of every line holds of those that are left.
LEMMA LinesKept ==
  ASSUME WorkerOK, lines' = lines \/ (lines # <<>> /\ lines' = Tail(lines)),
         NEW i \in DOMAIN lines'
  PROVE  \E j \in DOMAIN lines : lines'[i] = lines[j]
<1>1. lines \in Seq(Line)
  BY DEF WorkerOK
<1>2. CASE lines # <<>> /\ lines' = Tail(lines)
  BY <1>1, <1>2, Behead
<1>3. QED
  BY <1>2

\* OneStartKept: a handler starts an operation only where nothing runs.
LEMMA OneStartKept ==
  ASSUME TypeOK, Owner, OneStart, Known, GivenUp, Handled, UNCHANGED serving
  PROVE  OneStart'
<1>1. /\ inbox \in Seq(Request) /\ inbox' \in Seq(Request) /\ SessionOK
      /\ operations \in Nat /\ serving \in Serving /\ DOMAIN inbox = 1..Len(inbox)
      /\ Len(inbox) \in Nat
  BY DEF TypeOK, SessionOK, WorkerOK, Handled
<1>2. CASE Keeps
  <2>1. \A i \in DOMAIN inbox' : inbox'[i].method \in Starts =>
          i \in DOMAIN inbox /\ inbox'[i] = inbox[i]
    <3> SUFFICES ASSUME NEW i \in DOMAIN inbox', inbox'[i].method \in Starts
                 PROVE  i \in DOMAIN inbox /\ inbox'[i] = inbox[i]
      OBVIOUS
    <3>1. ~Own(inbox'[i])
      BY DEF Own, Starts
    <3>2. CASE StartsStream \/ StartsTrack
      BY <1>1, <1>2, <3>2 DEF StartsStream, StartsTrack, Begins, Keeps
    <3>3. QED
      BY <1>1, <3>1, <3>2, Requests
  <2>2. QED
    BY <2>1 DEF OneStart
<1>3. CASE StartsStream \/ StartsTrack
  <2>1. PICK method : Begins(method)
    BY <1>3 DEF StartsStream, StartsTrack
  <2>2. \A o \in 1..operations : Over(o)
    <3>1. stream.id = None \/ Over(stream.id)
      BY <2>1 DEF Begins
    <3>2. track.id = None \/ Over(track.id)
      BY <2>1 DEF Begins
    <3>3. CanRequest
      BY <2>1 DEF Begins
    <3>4. QED
      BY <3>1, <3>2, <3>3 DEF GivenUp, None
  <2>3. \A i \in DOMAIN inbox : inbox[i].method \notin Starts
    <3> SUFFICES ASSUME NEW i \in DOMAIN inbox, inbox[i].method \in Starts
                 PROVE  FALSE
      OBVIOUS
    <3>1. inbox[i] \in Request /\ inbox[i].operation <= operations
      BY <1>1, Element DEF Known
    <3>2. CASE inbox[i].operation \in 1..operations
      BY <2>2, <3>2 DEF Over
    <3>3. inbox[i].operation # None
      BY DEF OneStart
    <3>4. QED
      BY <1>1, <3>1, <3>2, <3>3 DEF Request, Operations, None
  <2>4. serving.phase \in {"idle", "finishing"} /\ serving.id <= operations
    <3>1. serving.id <= operations /\ serving.id \in Operations \cup {None}
      BY <1>1 DEF Known, Serving
    <3>2. CASE serving.id = None
      BY <3>1, <3>2 DEF OneStart
    <3>3. CASE serving.id \in 1..operations
      BY <2>2, <3>3 DEF Over
    <3>4. QED
      BY <1>1, <3>1, <3>2, <3>3 DEF Operations, None
  <2>5. \A i \in DOMAIN inbox' : inbox'[i].method \in Starts =>
          i = Len(inbox) + 1 /\ inbox'[i].operation = operations + 1
    <3> SUFFICES ASSUME NEW i \in DOMAIN inbox', inbox'[i].method \in Starts
                 PROVE  i = Len(inbox) + 1 /\ inbox'[i].operation = operations + 1
      OBVIOUS
    <3>1. ~Own(inbox'[i])
      BY DEF Own, Starts
    <3>2. QED
      BY <1>1, <2>3, <3>1, Requests
  <2>6. operations + 1 \notin {serving.id, None}
    BY <1>1, <2>4 DEF Serving, Operations, None
  <2>7. QED
    BY <2>4, <2>5, <2>6 DEF OneStart
<1>4. QED
  BY <1>2, <1>3 DEF Handled

\* KnownKept: a handler sends requests of operations it created.
LEMMA KnownKept ==
  ASSUME TypeOK, Owner, Known, Handled, UNCHANGED serving,
         lines' = lines \/ (lines # <<>> /\ lines' = Tail(lines))
  PROVE  Known'
<1>1. /\ SessionOK /\ WorkerOK /\ operations \in Nat
      /\ stream.id <= operations /\ track.id <= operations
      /\ stream.id \in Nat /\ track.id \in Nat
      /\ serving.id <= operations /\ serving.id \in Nat
  BY DEF TypeOK, SessionOK, WorkerOK, Owner, Blank, Stream, Track, Serving,
     Operations, None, Known
<1>2. operations' \in {operations, operations + 1}
  BY DEF Handled, Keeps, StartsStream, StartsTrack, Begins
<1>3. ASSUME NEW i \in DOMAIN inbox'
      PROVE  /\ inbox'[i].operation <= operations'
             /\ inbox'[i].operation = None => inbox'[i].method = "shutdown"
  <2>1. CASE i \in DOMAIN inbox /\ inbox'[i] = inbox[i]
    <3>1. inbox[i] \in Request
      BY <1>1, <2>1, Element DEF SessionOK
    <3>2. inbox[i].operation \in Nat /\ inbox[i].operation <= operations
      BY <2>1, <3>1 DEF Request, Operations, None, Known
    <3>3. inbox[i].operation = None => inbox[i].method = "shutdown"
      BY <2>1 DEF Known
    <3>4. QED
      BY <1>1, <1>2, <2>1, <3>2, <3>3
  <2>2. CASE Keeps /\ Own(inbox'[i])
    BY <1>1, <2>2 DEF Own, Keeps, None
  <2>3. CASE StartsStream \/ StartsTrack
    <3>1. operations' = operations + 1
      BY <2>3 DEF StartsStream, StartsTrack, Begins
    <3>2. inbox'[i].operation = operations + 1 \/ (i \in DOMAIN inbox /\ inbox'[i] = inbox[i])
      BY <1>1, <2>3, <3>1, Requests DEF Keeps
    <3>3. QED
      BY <1>1, <2>1, <3>1, <3>2 DEF None
  <2>4. QED
    BY <1>1, <1>3, <2>1, <2>2, <2>3, Requests
<1>4. ASSUME NEW i \in DOMAIN lines', lines'[i].type # "exited"
      PROVE  /\ lines'[i].operation <= operations'
             /\ lines'[i].type = "reply" /\ lines'[i].operation = None
                  => lines'[i].method = "shutdown" /\ lines'[i].code = "ok"
  <2>1. PICK j \in DOMAIN lines : lines'[i] = lines[j]
    BY <1>1, LinesKept
  <2>2. lines[j] \in Line
    BY <1>1, Element DEF WorkerOK
  <2>3. lines[j].operation \in Nat
    BY <1>4, <2>1, <2>2, Lines DEF Operations, None
  <2>4. lines[j].operation <= operations
    BY <1>4, <2>1 DEF Known
  <2>5. lines[j].type = "reply" /\ lines[j].operation = None
          => lines[j].method = "shutdown" /\ lines[j].code = "ok"
    BY DEF Known
  <2>6. QED
    BY <1>1, <1>2, <2>1, <2>3, <2>4, <2>5
<1>5. QED
  BY <1>1, <1>2, <1>3, <1>4 DEF Known

\* GivenUpKept: a handler gives an operation up only when it is over.
LEMMA GivenUpKept ==
  ASSUME TypeOK, Owner, Known, GivenUp, Handled, UNCHANGED <<serving, process>>,
         lines' = lines \/ (lines # <<>> /\ lines' = Tail(lines))
  PROVE  GivenUp'
<1>1. /\ SessionOK /\ WorkerOK /\ operations \in Nat
      /\ stream.id \in 0..operations /\ track.id \in 0..operations
  BY DEF TypeOK, SessionOK, Owner, Blank
<1>2. operations' \in {operations, operations + 1}
  BY DEF Handled, Keeps, StartsStream, StartsTrack, Begins
<1>3. ASSUME NEW i \in DOMAIN lines', Terminal(lines'[i]),
             NEW o, o = lines'[i].operation
      PROVE  Over(o)'
  <2>1. PICK j \in DOMAIN lines : lines'[i] = lines[j]
    BY <1>1, LinesKept
  <2>2. lines[j] \in Line
    BY <1>1, Element DEF WorkerOK
  <2>3. o \in Operations /\ lines[j].type = "event"
    BY <1>3, <2>1, <2>2, Lines DEF Terminal
  <2>4. o <= operations
    BY <1>3, <2>1, <2>3 DEF Known
  <2>5. Over(o) /\ o \in 0..operations
    BY <1>1, <1>3, <2>1, <2>3, <2>4 DEF GivenUp, Operations
  <2>6. QED
    BY <1>1, <2>5, OverKept
<1>4. ASSUME stream'.workerEnded, NEW o, o = stream'.id
      PROVE  Over(o)'
  <2>1. Keeps
    BY <1>4 DEF Handled, StartsStream, StartsTrack, Begins
  <2>2. stream'.id # None
    BY <1>4 DEF Handled, Blank
  <2>3. o = stream.id /\ Over(o)
    BY <1>4, <2>1, <2>2 DEF Keeps
  <2>4. o \in 0..operations
    BY <1>1, <2>3
  <2>5. QED
    BY <1>1, <2>3, <2>4, OverKept
<1>5. ASSUME CanRequest', NEW o \in 1..operations',
             o \notin {stream'.id, track'.id}
      PROVE  Over(o)'
  <2>1. CanRequest
    BY <1>5 DEF CanRequest, Handled, TypeOK, SessionOK
  <2>2. o # operations + 1
    BY <1>1, <1>5 DEF Handled, Keeps, StartsStream, StartsTrack, Begins
  <2>3. o \in 1..operations /\ o # None
    BY <1>1, <1>2, <2>2 DEF None
  <2>4. Over(o)
    <3>1. CASE o \notin {stream.id, track.id}
      BY <2>1, <2>3, <3>1 DEF GivenUp
    <3>2. CASE o \in {stream.id, track.id}
      BY <1>5, <2>3, <3>2 DEF Handled, Keeps, StartsStream, StartsTrack, Begins
    <3>3. QED
      BY <3>1, <3>2
  <2>5. QED
    BY <1>1, <2>3, <2>4, OverKept
<1>6. QED
  BY <1>3, <1>4, <1>5 DEF GivenUp, Over

\* CancelsKept: a handler cancels a Stream only where it marks it.
LEMMA CancelsKept ==
  ASSUME TypeOK, Owner, Known, Cancels, Handled,
         lines' = lines \/ (lines # <<>> /\ lines' = Tail(lines))
  PROVE  Cancels'
<1>1. /\ SessionOK /\ WorkerOK /\ operations \in Nat
      /\ stream.id \in 0..operations /\ track.id \in 0..operations
  BY DEF TypeOK, SessionOK, Owner, Blank
<1>2. ASSUME NEW o \in 0..operations, o = stream'.id, stream'.id # None,
             o = stream.id /\ stream.id # None => stream.stopRequested
      PROVE  stream'.stopRequested
  <2>1. Keeps
    BY <1>1, <1>2 DEF Handled, StartsStream, StartsTrack, Begins
  <2>2. stream'.id = stream.id
    BY <1>2, <2>1 DEF Keeps
  <2>3. QED
    BY <1>2, <2>1, <2>2 DEF Keeps, Quiet
<1>3. ASSUME NEW i \in DOMAIN inbox', inbox'[i].method = "cancel",
             inbox'[i].operation = stream'.id, stream'.id # None
      PROVE  stream'.stopRequested
  <2>1. CASE i \in DOMAIN inbox /\ inbox'[i] = inbox[i]
    <3>1. inbox[i] \in Request
      BY <1>1, <2>1, Element DEF SessionOK
    <3>2. inbox[i].operation \in 0..operations
      BY <1>1, <2>1, <3>1 DEF Request, Operations, None, Known
    <3>3. QED
      BY <1>2, <1>3, <2>1, <3>2 DEF Cancels
  <2>2. CASE Keeps /\ Own(inbox'[i])
    <3>1. CASE Quiet'
      BY <1>3, <3>1 DEF Quiet
    <3>2. CASE inbox'[i].operation = track.id /\ track.id # None
      <4>1. stream.id = None
        BY <3>2 DEF Owner
      <4>2. stream'.id = None
        BY <2>2, <4>1 DEF Keeps
      <4>3. QED
        BY <1>3, <4>2
    <3>3. QED
      BY <1>3, <2>2, <3>1, <3>2 DEF Own
  <2>3. QED
    BY <1>1, <1>3, <2>1, <2>2, Requests
<1>4. ASSUME NEW i \in DOMAIN lines', lines'[i].type = "reply",
             lines'[i].method = "cancel"
      PROVE  /\ lines'[i].code \in {"ok", "operation_not_found"}
             /\ lines'[i].operation = stream'.id /\ stream'.id # None
                  => stream'.stopRequested
  <2>1. PICK j \in DOMAIN lines : lines'[i] = lines[j]
    BY <1>1, LinesKept
  <2>2. lines[j] \in Line
    BY <1>1, Element DEF WorkerOK
  <2>3. lines[j].operation \in 0..operations
    BY <1>1, <1>4, <2>1, <2>2, Lines DEF Operations, None, Known
  <2>4. QED
    BY <1>2, <1>4, <2>1, <2>3 DEF Cancels
<1>5. QED
  BY <1>3, <1>4 DEF Cancels

\* KindsKept: a handler sends a track nothing that is a Stream's.
LEMMA KindsKept ==
  ASSUME TypeOK, Owner, Known, Kinds, Handled, UNCHANGED serving,
         lines' = lines \/ (lines # <<>> /\ lines' = Tail(lines))
  PROVE  Kinds'
<1> SUFFICES ASSUME track'.id # None PROVE Kinds'
  BY DEF Kinds
<1>1. /\ SessionOK /\ WorkerOK /\ operations \in Nat
      /\ stream.id \in 0..operations /\ track.id \in 0..operations
  BY DEF TypeOK, SessionOK, Owner, Blank
<1>2. CASE Keeps
  <2>1. track'.id = track.id /\ stream.id = None
    BY <1>2 DEF Keeps, Owner
  <2>2. ASSUME NEW i \in DOMAIN inbox', inbox'[i].method \in StreamMethods
        PROVE  inbox'[i].operation # track.id
    <3>1. ~Own(inbox'[i])
      BY <2>1, <2>2 DEF Own, StreamMethods
    <3>2. ~StartsStream /\ ~StartsTrack
      BY <1>1, <1>2 DEF StartsStream, StartsTrack, Begins, Keeps
    <3>3. QED
      BY <1>1, <2>1, <2>2, <3>1, <3>2, Requests DEF Kinds
  <2>3. ASSUME NEW i \in DOMAIN lines', OfStream(lines'[i])
        PROVE  lines'[i].operation # track.id
    BY <1>1, <2>1, <2>3, LinesKept DEF Kinds
  <2>4. QED
    BY <2>1, <2>2, <2>3 DEF Kinds
<1>3. CASE StartsTrack
  <2>1. track'.id = operations + 1 /\ ~Keeps /\ ~StartsStream
    BY <1>1, <1>3 DEF StartsTrack, StartsStream, Begins, Keeps
  <2>2. ASSUME NEW i \in DOMAIN inbox', inbox'[i].method \in StreamMethods
        PROVE  inbox'[i].operation # track'.id
    <3>1. i \in DOMAIN inbox /\ inbox'[i] = inbox[i]
      BY <1>1, <2>1, <2>2, Requests DEF StreamMethods
    <3>2. inbox[i] \in Request /\ inbox[i].operation <= operations
      BY <1>1, <3>1, Element DEF SessionOK, Known
    <3>3. QED
      BY <1>1, <2>1, <3>1, <3>2 DEF Request, Operations, None
  <2>3. ASSUME NEW i \in DOMAIN lines', OfStream(lines'[i])
        PROVE  lines'[i].operation # track'.id
    <3>1. PICK j \in DOMAIN lines : lines'[i] = lines[j]
      BY <1>1, LinesKept
    <3>2. lines[j] \in Line
      BY <1>1, Element DEF WorkerOK
    <3>3. lines[j].operation \in Operations /\ lines[j].operation <= operations
      BY <2>3, <3>1, <3>2, Lines DEF OfStream, Known
    <3>4. QED
      BY <1>1, <2>1, <3>1, <3>3 DEF Operations
  <2>4. serving.id # track'.id
    BY <1>1, <2>1 DEF Known, WorkerOK, Serving, Operations, None
  <2>5. QED
    BY <2>2, <2>3, <2>4 DEF Kinds
<1>4. CASE StartsStream
  BY <1>4 DEF StartsStream
<1>5. QED
  BY <1>2, <1>3, <1>4 DEF Handled

\* HandledKeeps: a handler keeps the invariant, in the timer callback and in
\* those of the user interface.
LEMMA HandledKeeps ==
  ASSUME SessionInv, Handled, UNCHANGED <<process, serving, available, pushed>>,
         lines' = lines \/ (lines # <<>> /\ lines' = Tail(lines)),
         pc' \in {"idle", "lines", "tick"}, batch' \in Nat, batch' <= Len(lines'),
         disturbed' \in 0..MaxDisturbances, mode' \in {"STREAM", "SELECTED"},
         Loud' => mode' = "STREAM", pc' # "idle" /\ ~available => ~Loud'
  PROVE  SessionInv'
<1>1. TypeOK /\ Owner /\ Audio /\ OneStart /\ Known /\ GivenUp /\ Cancels /\ Kinds
  BY DEF SessionInv
<1>2. TypeOK'
  <2>1. lines \in Seq(Line)
    BY <1>1 DEF TypeOK, WorkerOK
  <2>2. lines' \in Seq(Line)
    BY <2>1, Behead
  <2>3. QED
    BY <1>1, <2>2 DEF TypeOK, WorkerOK, Handled
<1>3. Owner'
  <2>1. \A i \in DOMAIN lines' : lines'[i].type = "exited" => process # "up"
    BY <1>1, LinesKept DEF TypeOK, Owner, Roles
  <2>2. QED
    BY <1>1, <2>1 DEF Owner, Roles, Handled
<1>4. QED
  BY <1>1, <1>2, <1>3, AudioKept, OneStartKept, KnownKept, GivenUpKept,
     CancelsKept, KindsKept DEF SessionInv
-----------------------------------------------------------------------------
(* The handlers of the controller. *)

\* Nothing: the records that stand for no Stream, presentation, track or ingress.
LEMMA Nothing ==
  /\ NoIngress \in Ingress /\ NoIngress.chunks = <<>>
  /\ NoStream \in Stream /\ NoStream.id = None /\ ~NoStream.stopRequested
  /\ ~NoStream.workerEnded /\ ~NoStream.endSent
  /\ NoLive \in Live /\ NoLive.id = None /\ ~NoLive.terminal /\ ~NoLive.frames
  /\ NoTrack \in Track /\ NoTrack.id = None /\ ~NoTrack.restart
BY DEF NoIngress, Ingress, NoStream, Stream, NoLive, Live, NoTrack, Track

\* Basics: what the handlers rely on.
LEMMA Basics ==
  ASSUME SessionInv
  PROVE  /\ SessionOK /\ Blank /\ PresentationFollowsStream
         /\ stream.id = None \/ track.id = None
         /\ process = "up" => client # "gone"
         /\ client = "stopping" => Quiet
         /\ stream.workerEnded => Over(stream.id)
         /\ stream \in Stream /\ track \in Track /\ live \in Live
         /\ ingress \in Ingress /\ inbox \in Seq(Request)
         /\ operations \in 0..MaxOperations
BY DEF SessionInv, TypeOK, SessionOK, Owner, Roles, GivenUp

\* Appends: a request that is sent is the last of the inbox.
LEMMA Appends ==
  ASSUME SessionOK, NEW method \in Methods, NEW o \in Operations \cup {None},
         Send(method, o)
  PROVE  /\ inbox' \in Seq(Request)
         /\ [method |-> method, operation |-> o] \in Request
         /\ inbox' = Append(inbox, [method |-> method, operation |-> o])
<1>1. [method |-> method, operation |-> o] \in Request
  BY DEF Request
<1>2. inbox \in Seq(Request)
  BY DEF SessionOK
<1>3. QED
  BY <1>1, <1>2, Appended DEF Send

\* Untouched: a handler that returns early.
LEMMA Untouched ==
  ASSUME SessionInv, UNCHANGED process, UNCHANGED sessionVars PROVE Handled
<1>1. UNCHANGED <<status, ingress, stream, live, track, loaded, expected,
                  rejected, client, inbox, operations, heard>>
  BY DEF sessionVars
<1>2. SessionOK' /\ Blank' /\ PresentationFollowsStream'
  BY <1>1, Basics DEF SessionOK, Blank, PresentationFollowsStream
<1>3. Keeps /\ KeepsAudio
  BY <1>1, Basics DEF Keeps, KeepsAudio, Quiet
<1>4. QED
  BY <1>1, <1>2, <1>3, Basics DEF Handled, Quiet

\* Shutdowns: a worker that runs is asked to shut down.
LEMMA Shutdowns ==
  ASSUME SessionInv, BeginShutdown
  PROVE  /\ client' \in {"stopping", "gone"} /\ (process = "up" => client' = "stopping")
         /\ inbox' \in Seq(Request)
         /\ \/ inbox' = inbox
            \/ \E request \in Request : /\ request.method = "shutdown"
                                        /\ request.operation = None
                                        /\ inbox' = Append(inbox, request)
<1>1. CASE Send("shutdown", None)
  <2>1. /\ inbox' \in Seq(Request)
        /\ [method |-> "shutdown", operation |-> None] \in Request
        /\ inbox' = Append(inbox, [method |-> "shutdown", operation |-> None])
    BY <1>1, Basics, Appends DEF Methods
  <2>2. client' = "stopping"
    BY <1>1, <2>1 DEF BeginShutdown, SessionInv
  <2>3. QED
    BY <2>1, <2>2
<1>2. QED
  BY <1>1, Basics DEF BeginShutdown

\* RejectHandled: a worker that broke the contract is shut down.
LEMMA RejectHandled == ASSUME SessionInv, UNCHANGED process, Reject PROVE Handled
<1>1. /\ client' \in {"stopping", "gone"} /\ (process = "up" => client' = "stopping")
      /\ inbox' \in Seq(Request)
      /\ \/ inbox' = inbox
         \/ \E request \in Request : /\ request.method = "shutdown"
                                     /\ request.operation = None
                                     /\ inbox' = Append(inbox, request)
  BY Shutdowns DEF Reject
<1>2. /\ stream' = NoStream /\ ingress' = NoIngress /\ live' = NoLive
      /\ track' = NoTrack /\ status' = "error" /\ rejected' = TRUE
      /\ expected' = TRUE /\ loaded' = FALSE /\ UNCHANGED <<operations, heard>>
  BY DEF Reject, ReleaseStream, StopPresentation
<1>3. SessionOK'
  BY <1>1, <1>2, Basics, Nothing DEF SessionOK, Statuses
<1>4. Blank' /\ PresentationFollowsStream'
  BY <1>2, Basics, Nothing DEF Blank, PresentationFollowsStream, None, SessionOK
<1>5. Keeps
  BY <1>1, <1>2, Nothing DEF Keeps, Own, Quiet, CanRequest
<1>6. KeepsAudio
  BY <1>2, Nothing DEF KeepsAudio, Quiet
<1>7. QED
  BY <1>1, <1>2, <1>3, <1>4, <1>5, <1>6, Nothing DEF Handled, Quiet

\* CancelsStream: the cancel of the active Stream.
LEMMA CancelsStream ==
  ASSUME SessionInv, stream.id # None, CancelStream
  PROVE  /\ stream' \in Stream /\ stream'.id = stream.id /\ stream'.stopRequested
         /\ stream'.endSent = stream.endSent /\ stream'.workerEnded = stream.workerEnded
         /\ inbox' \in Seq(Request)
         /\ \E request \in Request : /\ request.method = "cancel"
                                     /\ request.operation = stream.id
                                     /\ inbox' = Append(inbox, request)
<1>1. stream \in Stream /\ stream' = [stream EXCEPT !.stopRequested = TRUE]
  BY Basics DEF CancelStream
<1>2. /\ stream' \in Stream /\ stream'.id = stream.id /\ stream'.stopRequested
      /\ stream'.endSent = stream.endSent /\ stream'.workerEnded = stream.workerEnded
  BY <1>1 DEF Stream
<1>3. stream.id \in Operations \cup {None} /\ Send("cancel", stream.id)
  BY <1>1 DEF Stream, CancelStream
<1>4. /\ inbox' \in Seq(Request)
      /\ [method |-> "cancel", operation |-> stream.id] \in Request
      /\ inbox' = Append(inbox, [method |-> "cancel", operation |-> stream.id])
  BY <1>3, Basics, Appends DEF Methods
<1>5. QED
  BY <1>2, <1>4

\* FailStreamHandled: a Stream fails once its worker ended it, or is canceled.
LEMMA FailStreamHandled ==
  ASSUME SessionInv, UNCHANGED process, stream.id # None,
         NEW cancelWorker \in BOOLEAN, ~cancelWorker => Over(stream.id),
         FailStream(cancelWorker)
  PROVE  Handled
<1>1. CASE Reject
  BY <1>1, RejectHandled
<1>2. CASE ~Reject
  <2>1. /\ live' = NoLive /\ ingress' = NoIngress /\ status' = "error"
        /\ UNCHANGED <<track, loaded, expected, rejected, client, operations,
                       heard>>
    BY <1>2 DEF FailStream, StopPresentation
  <2>2. \/ stream' = NoStream /\ inbox' = inbox /\ Over(stream.id)
        \/ stream.stopRequested /\ stream' = stream /\ inbox' = inbox
        \/ CancelStream
    BY <1>2 DEF FailStream
  <2>3. /\ stream' \in Stream /\ inbox' \in Seq(Request) /\ Quiet'
        /\ stream'.id \in {stream.id, None}
        /\ stream'.id = None => /\ Over(stream.id) /\ stream' = NoStream
        /\ stream'.id # None => stream'.stopRequested
        /\ stream'.endSent => stream.endSent
        /\ stream'.workerEnded => stream.workerEnded
        /\ \/ inbox' = inbox
           \/ \E request \in Request : /\ request.method = "cancel"
                                       /\ request.operation = stream.id
                                       /\ inbox' = Append(inbox, request)
    BY <2>2, CancelsStream, Basics, Nothing DEF Quiet
  <2>4. SessionOK'
    BY <2>1, <2>3, Basics, Nothing DEF SessionOK, Statuses
  <2>5. track.id = None
    BY Basics
  <2>6. Blank' /\ PresentationFollowsStream'
    BY <2>1, <2>3, <2>5, Basics, Nothing DEF Blank, PresentationFollowsStream, None, SessionOK
  <2>7. Keeps
    BY <2>1, <2>3, <2>5, Basics DEF Keeps, Own
  <2>8. KeepsAudio
    BY <2>1, <2>3 DEF KeepsAudio
  <2>9. QED
    BY <2>1, <2>3, <2>4, <2>5, <2>6, <2>7, <2>8, Basics DEF Handled
<1>3. QED
  BY <1>1, <1>2

\* EnsuresTrack: no track, or one that is started.
LEMMA EnsuresTrack ==
  ASSUME SessionOK, NEW input, NEW otherwise \in Statuses,
         EnsureTrack(input, otherwise)
  PROVE  /\ track' \in Track /\ ~track'.restart /\ status' \in Statuses
         /\ operations' \in 0..MaxOperations /\ inbox' \in Seq(Request)
         /\ \/ track' = NoTrack /\ UNCHANGED <<operations, inbox>>
            \/ /\ CanRequest /\ operations' = operations + 1
               /\ track'.id = operations'
               /\ inbox' = Append(inbox, [method |-> "track_start",
                                          operation |-> operations'])
<1>1. CASE track' = NoTrack /\ UNCHANGED <<operations, inbox>>
  BY <1>1, Nothing DEF EnsureTrack, SessionOK, Statuses
<1>2. CASE /\ CanRequest /\ operations' = operations + 1 /\ operations # MaxOperations
           /\ track' = [NoTrack EXCEPT !.id = operations']
           /\ Send("track_start", operations') /\ status' = "ready"
  <2>1. operations' \in Operations /\ operations' \in 0..MaxOperations
    BY <1>2 DEF SessionOK, Operations
  <2>2. track' \in Track /\ track'.id = operations' /\ ~track'.restart
    BY <1>2, <2>1 DEF NoTrack, Track
  <2>3. /\ inbox' \in Seq(Request)
        /\ inbox' = Append(inbox, [method |-> "track_start",
                                   operation |-> operations'])
    BY <1>2, <2>1, Appends DEF Methods
  <2>4. QED
    BY <1>2, <2>1, <2>2, <2>3 DEF Statuses
<1>3. QED
  BY <1>1, <1>2 DEF EnsureTrack

\* StreamIsOverHandled: the worker ended the Stream.
LEMMA StreamIsOverHandled ==
  ASSUME SessionInv, UNCHANGED process, stream.id # None, Over(stream.id),
         StreamIsOver
  PROVE  Handled
<1>1. /\ stream' = NoStream /\ ingress' = NoIngress /\ live' = NoLive
      /\ UNCHANGED <<loaded, expected, rejected, client, heard>>
  BY DEF StreamIsOver, ReleaseStream, StopPresentation
<1>2. track.id = None /\ ~track.restart
  BY Basics DEF Blank
<1>3. /\ track' \in Track /\ ~track'.restart /\ status' \in Statuses
      /\ operations' \in 0..MaxOperations /\ inbox' \in Seq(Request)
      /\ \/ track'.id = None /\ UNCHANGED <<operations, inbox>>
         \/ /\ CanRequest /\ operations' = operations + 1
            /\ track'.id = operations'
            /\ inbox' = Append(inbox, [method |-> "track_start",
                                       operation |-> operations'])
  <2>1. CASE EnsureTrack(mode, "ready")
    <3>1. "ready" \in Statuses
      BY DEF Statuses
    <3>2. QED
      BY <2>1, <3>1, EnsuresTrack, Basics, Nothing
  <2>2. CASE UNCHANGED <<track, operations, inbox, status>>
    BY <1>2, <2>2, Basics DEF SessionOK
  <2>3. QED
    BY <2>1, <2>2 DEF StreamIsOver
<1>4. SessionOK'
  BY <1>1, <1>3, Basics, Nothing DEF SessionOK
<1>5. Blank' /\ PresentationFollowsStream'
  <2>1. {None, track'.id} \subseteq 0..operations'
    BY <1>3, Basics DEF None
  <2>2. QED
    BY <1>1, <1>3, <2>1, Nothing DEF Blank, PresentationFollowsStream
<1>6. KeepsAudio
  BY <1>1, Nothing DEF KeepsAudio, Quiet
<1>7. Keeps \/ StartsTrack
  BY <1>1, <1>2, <1>3, Nothing DEF Keeps, StartsTrack, Begins, Quiet
<1>8. QED
  BY <1>1, <1>3, <1>4, <1>5, <1>6, <1>7, Basics, Nothing DEF Handled, Quiet

\* PresentationStoppedHandled: the presentation is over, or failed.
LEMMA PresentationStoppedHandled ==
  ASSUME SessionInv, UNCHANGED process, stream.id # None, NEW failed \in BOOLEAN,
         Over(stream.id) \/ (failed /\ available) \/ (~available /\ process # "up"),
         PresentationStopped(failed)
  PROVE  Handled
<1>1. CASE ~available
  <2>1. /\ stream' = NoStream /\ ingress' = NoIngress /\ live' = NoLive
        /\ UNCHANGED <<status, track, loaded, expected, rejected, client, inbox,
                       operations, heard>>
    BY <1>1 DEF PresentationStopped, ReleaseStream, StopPresentation
  <2>2. SessionOK' /\ Blank' /\ PresentationFollowsStream'
    BY <2>1, Basics, Nothing DEF SessionOK, Blank, PresentationFollowsStream, None
  <2>3. Keeps /\ KeepsAudio
    BY <1>1, <2>1, Nothing DEF Keeps, KeepsAudio, Quiet, CanRequest
  <2>4. QED
    BY <2>1, <2>2, <2>3, Basics, Nothing DEF Handled, Quiet
<1>2. CASE available /\ failed
  <2>1. (~stream.workerEnded) \in BOOLEAN
    OBVIOUS
  <2>2. FailStream(~stream.workerEnded)
    BY <1>2 DEF PresentationStopped
  <2>3. ~(~stream.workerEnded) => Over(stream.id)
    BY Basics
  <2>4. QED
    BY <2>1, <2>2, <2>3, FailStreamHandled
<1>3. CASE available /\ ~failed
  BY <1>3, StreamIsOverHandled DEF PresentationStopped
<1>4. QED
  BY <1>1, <1>2, <1>3

\* CancelsTrack: the cancel of the Selected track.
LEMMA CancelsTrack ==
  ASSUME SessionInv, track.id # None, NEW restart \in BOOLEAN, CancelTrack(restart)
  PROVE  /\ track' \in Track /\ track'.id = track.id /\ inbox' \in Seq(Request)
         /\ \/ inbox' = inbox
            \/ \E request \in Request : /\ request.method = "cancel"
                                        /\ request.operation = track.id
                                        /\ inbox' = Append(inbox, request)
<1>1. track \in Track
  BY Basics
<1>2. CASE track.cancelRequested
  <2>1. /\ track' = [track EXCEPT !.restart = track.restart \/ restart]
        /\ (track.restart \/ restart) \in BOOLEAN /\ inbox' = inbox
    BY <1>2 DEF CancelTrack
  <2>2. track' \in Track /\ track'.id = track.id
    BY <1>1, <2>1 DEF Track
  <2>3. QED
    BY <2>1, <2>2, Basics
<1>3. CASE ~track.cancelRequested
  <2>1. track' = [track EXCEPT !.cancelRequested = TRUE, !.restart = restart]
    BY <1>3 DEF CancelTrack
  <2>2. track' \in Track /\ track'.id = track.id
    BY <1>1, <2>1 DEF Track
  <2>3. Send("cancel", track.id) /\ track.id \in Operations \cup {None}
    BY <1>1, <1>3 DEF CancelTrack, Track
  <2>4. /\ inbox' \in Seq(Request)
        /\ [method |-> "cancel", operation |-> track.id] \in Request
        /\ inbox' = Append(inbox, [method |-> "cancel", operation |-> track.id])
    BY <2>3, Basics, Appends DEF Methods
  <2>5. QED
    BY <2>2, <2>4
<1>4. QED
  BY <1>2, <1>3

\* TrackRequests: what is done for a track leaves the Stream, there is none.
LEMMA TrackRequests ==
  ASSUME SessionInv, UNCHANGED process, track.id # None,
         track' \in Track, track'.id = track.id, inbox' \in Seq(Request),
         \/ inbox' = inbox
         \/ \E request \in Request : /\ request.method \in {"track_chunk", "cancel"}
                                     /\ request.operation = track.id
                                     /\ inbox' = Append(inbox, request),
         ingress' \in {ingress, NoIngress}, status' \in Statuses,
         live' \in {live, NoLive},
         UNCHANGED <<stream, loaded, expected, rejected, client, operations, heard>>
  PROVE  Handled
<1>1. stream.id = None /\ ~stream.stopRequested /\ ~stream.workerEnded /\ ~stream.endSent
  BY Basics DEF Blank
<1>2. live.id = None /\ ~live.terminal /\ ~live.frames
  BY <1>1, Basics DEF Blank, PresentationFollowsStream
<1>3. SessionOK'
  BY Basics, Nothing DEF SessionOK
<1>4. Blank' /\ PresentationFollowsStream'
  BY <1>1, <1>2, Basics, Nothing DEF Blank, PresentationFollowsStream
<1>5. Keeps
  BY <1>1, Basics DEF Keeps, Own, Quiet
<1>6. KeepsAudio
  BY <1>1 DEF KeepsAudio, Quiet
<1>7. QED
  BY <1>1, <1>3, <1>4, <1>5, <1>6, Basics DEF Handled, Quiet

\* FailTrackHandled: a failed upload is canceled, or forgotten.
LEMMA FailTrackHandled ==
  ASSUME SessionInv, UNCHANGED process, track.id # None, FailTrack PROVE Handled
<1>1. /\ status' \in Statuses
      /\ UNCHANGED <<ingress, stream, live, loaded, expected, rejected, client,
                     operations, heard>>
  BY DEF FailTrack, Statuses
<1>2. CASE CanCancelTrack
  <2>1. track' = [track EXCEPT !.cancelRequested = TRUE, !.restart = FALSE]
    BY <1>2 DEF FailTrack
  <2>2. track' \in Track /\ track'.id = track.id
    BY <2>1, Basics DEF Track
  <2>3. track.id \in Operations \cup {None}
    BY Basics DEF Track
  <2>4. /\ inbox' \in Seq(Request)
        /\ \/ inbox' = inbox
           \/ \E request \in Request : /\ request.method \in {"track_chunk", "cancel"}
                                       /\ request.operation = track.id
                                       /\ inbox' = Append(inbox, request)
    <3>1. CASE inbox' = inbox
      BY <3>1, Basics
    <3>2. CASE Send("cancel", track.id)
      <4>1. /\ inbox' \in Seq(Request)
            /\ [method |-> "cancel", operation |-> track.id] \in Request
            /\ inbox' = Append(inbox, [method |-> "cancel", operation |-> track.id])
        BY <2>3, <3>2, Basics, Appends DEF Methods
      <4>2. QED
        BY <4>1
    <3>3. QED
      BY <1>2, <3>1, <3>2 DEF FailTrack
  <2>5. QED
    BY <1>1, <2>2, <2>4, TrackRequests
<1>3. CASE ~CanCancelTrack
  <2>1. track' = NoTrack /\ inbox' = inbox /\ ~CanRequest
    BY <1>3 DEF FailTrack, CanCancelTrack
  <2>2. SessionOK' /\ Blank' /\ PresentationFollowsStream'
    BY <1>1, <2>1, Basics, Nothing DEF SessionOK, Blank, PresentationFollowsStream, None
  <2>3. Keeps /\ KeepsAudio
    BY <1>1, <2>1, Basics, Nothing DEF Keeps, KeepsAudio, Quiet, CanRequest
  <2>4. QED
    BY <1>1, <2>1, <2>2, <2>3, Basics, Nothing DEF Handled, Quiet
<1>4. QED
  BY <1>2, <1>3

\* TrackEndedHandled: the track is over; it is started again if asked for.
LEMMA TrackEndedHandled ==
  ASSUME SessionInv, UNCHANGED process, track.id = None \/ Over(track.id), TrackEnded
  PROVE  Handled
<1>1. UNCHANGED <<ingress, stream, live, loaded, expected, rejected, client, heard>>
  BY DEF TrackEnded
<1>2. CASE EnsureTrack(mode, "ready") /\ track.restart
  <2>1. "ready" \in Statuses
    BY DEF Statuses
  <2>2. /\ track' \in Track /\ ~track'.restart /\ status' \in Statuses
        /\ operations' \in 0..MaxOperations /\ inbox' \in Seq(Request)
        /\ \/ track' = NoTrack /\ UNCHANGED <<operations, inbox>>
           \/ /\ CanRequest /\ operations' = operations + 1
              /\ track'.id = operations'
              /\ inbox' = Append(inbox, [method |-> "track_start",
                                         operation |-> operations'])
    BY <1>2, <2>1, EnsuresTrack, Basics
  <2>3. stream.id = None /\ ~stream.stopRequested /\ ~stream.workerEnded /\ ~stream.endSent
    BY <1>2, Basics DEF Blank
  <2>4. SessionOK'
    BY <1>1, <2>2, Basics DEF SessionOK
  <2>5. Blank' /\ PresentationFollowsStream'
    <3>1. {None, track'.id} \subseteq 0..operations'
      BY <2>2, Basics, Nothing DEF None
    <3>2. QED
      BY <1>1, <2>2, <2>3, <3>1, Basics DEF Blank, PresentationFollowsStream
  <2>6. Keeps \/ StartsTrack
    BY <1>1, <2>2, <2>3, Basics, Nothing DEF Keeps, StartsTrack, Begins, Quiet
  <2>7. KeepsAudio
    BY <1>1, <2>3 DEF KeepsAudio
  <2>8. QED
    BY <1>1, <2>2, <2>3, <2>4, <2>5, <2>6, <2>7, Basics DEF Handled, Quiet
<1>3. CASE track' = NoTrack /\ UNCHANGED <<inbox, operations>> /\ status' \in Statuses
  <2>1. SessionOK' /\ Blank' /\ PresentationFollowsStream'
    BY <1>1, <1>3, Basics, Nothing DEF SessionOK, Blank, PresentationFollowsStream, None
  <2>2. Keeps /\ KeepsAudio
    BY <1>1, <1>3, Basics, Nothing DEF Keeps, KeepsAudio, Quiet, CanRequest
  <2>3. QED
    BY <1>1, <1>3, <2>1, <2>2, Basics, Nothing DEF Handled, Quiet
<1>4. status \in Statuses /\ "ready" \in Statuses
  BY Basics DEF SessionOK, Statuses
<1>5. QED
  BY <1>2, <1>3, <1>4 DEF TrackEnded

\* TrackFailedHandled: an upload that the worker failed is forgotten.
LEMMA TrackFailedHandled ==
  ASSUME SessionInv, UNCHANGED process, Over(track.id), TrackFailed
  PROVE  Handled
<1>1. /\ track' = NoTrack /\ status' \in Statuses
      /\ UNCHANGED <<ingress, stream, live, loaded, expected, rejected, client,
                     inbox, operations, heard>>
  BY DEF TrackFailed, Statuses
<1>2. SessionOK' /\ Blank' /\ PresentationFollowsStream'
  BY <1>1, Basics, Nothing DEF SessionOK, Blank, PresentationFollowsStream, None
<1>3. Keeps /\ KeepsAudio
  BY <1>1, Basics, Nothing DEF Keeps, KeepsAudio, Quiet, CanRequest
<1>4. QED
  BY <1>1, <1>2, <1>3, Basics, Nothing DEF Handled, Quiet

\* DropsAudio: buffered PCM is dropped where no Stream wants it.
LEMMA DropsAudio ==
  ASSUME SessionInv, UNCHANGED process, ingress' = NoIngress, Quiet \/ process # "up",
         status' \in Statuses,
         UNCHANGED <<stream, live, track, loaded, expected, rejected, client,
                     inbox, operations, heard>>
  PROVE  Handled
<1>1. SessionOK' /\ Blank' /\ PresentationFollowsStream'
  BY Basics, Nothing DEF SessionOK, Blank, PresentationFollowsStream
<1>2. Keeps /\ KeepsAudio
  BY Basics DEF Keeps, KeepsAudio, Quiet
<1>3. QED
  BY <1>1, <1>2, Basics DEF Handled, Quiet

\* SendsToStream: a request to the Stream that leaves its presentation.
LEMMA SendsToStream ==
  ASSUME SessionInv, UNCHANGED process, stream.id # None,
         NEW method \in {"stream_chunk", "stream_settings", "stream_end"},
         Send(method, stream.id), stream' \in Stream, stream'.id = stream.id,
         stream'.stopRequested = stream.stopRequested,
         stream'.workerEnded = stream.workerEnded,
         status' \in Statuses, ingress' \in Ingress,
         heard' \in [Operations -> Seq(Chunks)], KeepsAudio \/ SendsAudio,
         UNCHANGED <<live, track, loaded, expected, rejected, client, operations>>
  PROVE  Handled
<1>1. stream.id \in Operations \cup {None} /\ method \in Methods
  BY Basics DEF Stream, Methods
<1>2. /\ inbox' \in Seq(Request)
      /\ [method |-> method, operation |-> stream.id] \in Request
      /\ inbox' = Append(inbox, [method |-> method, operation |-> stream.id])
  BY <1>1, Basics, Appends
<1>3. SessionOK'
  BY <1>2, Basics DEF SessionOK
<1>4. Blank' /\ PresentationFollowsStream'
  BY Basics DEF Blank, PresentationFollowsStream
<1>5. Keeps
  BY <1>2, Basics DEF Keeps, Own, Quiet
<1>6. QED
  BY <1>3, <1>4, <1>5, Basics DEF Handled, Quiet, Keeps

\* StartStreamHandled: a Stream is created and its start is sent.
LEMMA StartStreamHandled ==
  ASSUME SessionInv, UNCHANGED process, CanRequest, stream.id = None, track.id = None,
         operations # MaxOperations, mode = "STREAM", available, StartStream
  PROVE  Handled
<1>1. /\ operations' = operations + 1 /\ status' \in Statuses
      /\ stream' = [NoStream EXCEPT !.id = operations', !.credit = TRUE]
      /\ live' = [NoLive EXCEPT !.id = operations']
      /\ Send("stream_start", operations')
      /\ UNCHANGED <<ingress, track, loaded, expected, rejected, client, heard>>
  BY DEF StartStream, Statuses, StreamStatuses
<1>2. operations' \in Operations /\ operations' \in 0..MaxOperations /\ operations' # None
  BY <1>1, Basics DEF Operations, None
<1>3. /\ stream' \in Stream /\ stream'.id = operations' /\ ~stream'.stopRequested
      /\ ~stream'.endSent /\ ~stream'.workerEnded
      /\ live' \in Live /\ live'.id = operations' /\ ~live'.terminal /\ ~live'.frames
  BY <1>1, <1>2 DEF NoStream, Stream, NoLive, Live
<1>4. /\ inbox' \in Seq(Request)
      /\ inbox' = Append(inbox, [method |-> "stream_start", operation |-> operations'])
  BY <1>1, <1>2, Basics, Appends DEF Methods
<1>5. SessionOK'
  BY <1>1, <1>2, <1>3, <1>4, Basics DEF SessionOK
<1>6. Blank' /\ PresentationFollowsStream'
  <2>1. {stream'.id, None} \subseteq 0..operations'
    BY <1>2, <1>3 DEF None
  <2>2. QED
    BY <1>1, <1>2, <1>3, <2>1, Basics DEF Blank, PresentationFollowsStream
<1>7. StartsStream
  BY <1>1, <1>3, <1>4 DEF StartsStream, Begins
<1>8. KeepsAudio
  BY <1>1, <1>3 DEF KeepsAudio
<1>9. client' # "stopping"
  BY <1>1 DEF CanRequest
<1>10. QED
  BY <1>1, <1>5, <1>6, <1>7, <1>8, <1>9, Basics DEF Handled

\* ServeIngressHandled: the ingress starts a Stream, sends a chunk or the end.
LEMMA ServeIngressHandled ==
  ASSUME SessionInv, UNCHANGED process, available, ServeIngress
  PROVE  Handled
<1>1. CASE UNCHANGED sessionVars
  BY <1>1, Untouched
<1>2. status \in Statuses /\ {"error", "ending"} \subseteq Statuses
  BY Basics DEF SessionOK, Statuses, StreamStatuses
<1>3. CASE /\ mode # "STREAM" /\ ingress' = NoIngress
           /\ UNCHANGED <<status, stream, live, track, loaded, expected, rejected,
                          client, inbox, operations, heard>>
  <2>1. Quiet \/ process # "up"
    BY <1>3 DEF SessionInv, Owner, Roles, Loud
  <2>2. QED
    BY <1>2, <1>3, <2>1, DropsAudio
<1>4. CASE stream.id = None /\ mode = "STREAM" /\ OpenStream
  <2>1. CASE ~CanRequest
    <3>1. /\ ingress' = NoIngress /\ status' = "error" /\ Quiet
          /\ UNCHANGED <<stream, live, track, loaded, expected, rejected, client,
                         inbox, operations, heard>>
      BY <1>4, <2>1 DEF OpenStream, Quiet
    <3>2. QED
      BY <1>2, <3>1, DropsAudio
  <2>2. CASE CanRequest /\ track.id # None
    <3>1. /\ CancelTrack(FALSE)
          /\ UNCHANGED <<status, ingress, stream, live, loaded, expected,
                         rejected, client, operations, heard>>
      BY <1>4, <2>2 DEF OpenStream, TrackInTheWay
    <3>2. QED
      BY <1>2, <2>2, <3>1, CancelsTrack, TrackRequests
  <2>3. CASE CanRequest /\ track.id = None
    BY <1>1, <1>4, <2>3, StartStreamHandled DEF OpenStream, TrackInTheWay
  <2>4. QED
    BY <2>1, <2>2, <2>3
<1>5. CASE stream.id # None /\ ShouldEnd /\ SendEnd
  <2>1. CASE CanRequest
    <3>1. /\ Send("stream_end", stream.id)
          /\ stream' = [stream EXCEPT !.endSent = TRUE]
          /\ status' \in {"ending", status}
          /\ UNCHANGED <<ingress, live, track, loaded, expected, rejected, client,
                         operations, heard>>
      BY <1>5, <2>1 DEF SendEnd
    <3>2. /\ stream' \in Stream /\ stream'.id = stream.id
          /\ stream'.stopRequested = stream.stopRequested
          /\ stream'.workerEnded = stream.workerEnded
      BY <3>1, Basics DEF Stream
    <3>3. KeepsAudio
      BY <1>5, <3>1 DEF KeepsAudio, ShouldEnd
    <3>4. QED
      BY <1>2, <1>5, <3>1, <3>2, <3>3, SendsToStream, Basics DEF SessionOK
  <2>2. CASE ~CanRequest
    BY <1>5, <2>2, FailStreamHandled DEF SendEnd
  <2>3. QED
    BY <2>1, <2>2
<1>6. CASE stream.id # None /\ ~stream.stopRequested /\ ingress.chunks # <<>> /\ SendChunk
  <2>1. CASE CanRequest
    <3>1. /\ Send("stream_chunk", stream.id)
          /\ heard' = [heard EXCEPT ![stream.id] = Append(@, Head(ingress.chunks))]
          /\ ingress' = [ingress EXCEPT !.chunks = Tail(@)]
          /\ stream' = [stream EXCEPT !.credit = FALSE]
          /\ UNCHANGED <<status, live, track, loaded, expected, rejected, client,
                         operations>>
      BY <1>6, <2>1 DEF SendChunk, RestOfChunks, CreditLeft
    <3>2. /\ stream' \in Stream /\ stream'.id = stream.id
          /\ stream'.stopRequested = stream.stopRequested
          /\ stream'.workerEnded = stream.workerEnded
          /\ stream'.endSent = stream.endSent
      BY <3>1, Basics DEF Stream
    <3>3. ingress.chunks \in Seq(Chunks)
      BY Basics DEF Ingress
    <3>4. Head(ingress.chunks) \in Chunks /\ Tail(ingress.chunks) \in Seq(Chunks)
      BY <1>6, <3>3, Behead
    <3>5. ingress' \in Ingress
      BY <3>1, <3>4, Basics DEF Ingress
    <3>6. stream.id \in Operations /\ heard \in [Operations -> Seq(Chunks)]
      BY <1>6, Basics DEF SessionOK, Stream
    <3>7. Append(heard[stream.id], Head(ingress.chunks)) \in Seq(Chunks)
      BY <3>4, <3>6, Appended
    <3>8. heard' \in [Operations -> Seq(Chunks)]
      BY <3>1, <3>6, <3>7
    <3>9. SendsAudio
      BY <1>6, <2>1, <3>1, <3>2 DEF SendsAudio, Loud, Quiet, CanRequest
    <3>10. QED
      BY <1>2, <1>6, <3>1, <3>2, <3>5, <3>8, <3>9, SendsToStream
  <2>2. CASE ~CanRequest
    BY <1>6, <2>2, FailStreamHandled DEF SendChunk
  <2>3. QED
    BY <2>1, <2>2
<1>7. QED
  BY <1>1, <1>3, <1>4, <1>5, <1>6 DEF ServeIngress

\* CancelOrphansHandled: the operations of a scene that is gone are canceled.
LEMMA CancelOrphansHandled ==
  ASSUME SessionInv, UNCHANGED process, CancelOrphans PROVE Handled /\ (Quiet' \/ process # "up")
<1>1. CASE Reject
  BY <1>1, RejectHandled, Nothing DEF Reject, ReleaseStream, Quiet
<1>2. CASE ~Reject
  <2>1. /\ ingress' = NoIngress /\ live' = NoLive
        /\ UNCHANGED <<status, loaded, expected, rejected, client, operations, heard>>
    BY <1>2 DEF CancelOrphans, StopPresentation
  <2>2. status' \in Statuses
    BY <2>1, Basics DEF SessionOK
  <2>3. CASE track.id # None
    <3>1. CancelTrack(FALSE) /\ stream' = stream /\ stream.id = None
      BY <1>2, <2>3, Basics DEF CancelOrphans
    <3>2. Quiet'
      BY <3>1 DEF Quiet
    <3>3. QED
      BY <2>1, <2>2, <2>3, <3>1, <3>2, CancelsTrack, TrackRequests
  <2>4. CASE track.id = None
    <3>1. \/ stream.workerEnded /\ stream' = NoStream /\ UNCHANGED <<track, inbox>>
          \/ stream.id # None /\ CancelStream /\ track' = track
          \/ Quiet /\ ~stream.workerEnded /\ UNCHANGED <<stream, track, inbox>>
      BY <1>2, <2>4 DEF CancelOrphans, Quiet
    <3>2. /\ stream' \in Stream /\ inbox' \in Seq(Request) /\ Quiet' /\ track' = track
          /\ stream'.id \in {stream.id, None}
          /\ stream'.id # stream.id => Over(stream.id)
          /\ stream'.id = None => ~stream'.stopRequested /\ ~stream'.workerEnded /\ ~stream'.endSent
          /\ stream'.id # None => stream'.stopRequested
          /\ stream'.endSent => stream.endSent
          /\ stream'.workerEnded => stream.workerEnded
          /\ \/ inbox' = inbox
             \/ \E request \in Request : /\ request.method = "cancel"
                                         /\ request.operation = stream.id
                                         /\ stream.id # None
                                         /\ inbox' = Append(inbox, request)
      BY <3>1, CancelsStream, Basics, Nothing DEF Quiet, Blank
    <3>3. SessionOK'
      BY <2>1, <3>2, Basics, Nothing DEF SessionOK
    <3>4. Blank' /\ PresentationFollowsStream'
      BY <2>1, <3>2, Basics, Nothing DEF Blank, PresentationFollowsStream, None
    <3>5. Keeps
      BY <2>1, <2>4, <3>2, Basics DEF Keeps, Own
    <3>6. KeepsAudio
      BY <2>1, <3>2 DEF KeepsAudio
    <3>7. QED
      BY <2>1, <2>4, <3>2, <3>3, <3>4, <3>5, <3>6, Basics DEF Handled
  <2>5. QED
    BY <2>3, <2>4
<1>3. QED
  BY <1>1, <1>2

\* Advances: the Stream goes on.
LEMMA Advances ==
  ASSUME SessionInv, UNCHANGED process, stream' \in Stream, stream'.id = stream.id,
         stream'.stopRequested = stream.stopRequested,
         stream'.endSent = stream.endSent,
         stream'.workerEnded => stream.id # None /\ Over(stream.id),
         live' \in Live, live'.id = live.id,
         live'.terminal => stream'.workerEnded, live'.frames => live.id # None,
         status' \in Statuses,
         UNCHANGED <<ingress, track, loaded, expected, rejected, client, inbox,
                     operations, heard>>
  PROVE  Handled
<1>1. SessionOK'
  BY Basics DEF SessionOK
<1>2. Blank' /\ PresentationFollowsStream'
  BY Basics DEF Blank, PresentationFollowsStream
<1>3. Keeps /\ KeepsAudio
  BY Basics DEF Keeps, KeepsAudio, Quiet
<1>4. QED
  BY <1>1, <1>2, <1>3, Basics DEF Handled, Quiet

\* HeadLine: what the next line tells.
LEMMA HeadLine ==
  ASSUME SessionInv, batch > 0
  PROVE  LET line == Head(lines) IN
         /\ lines # <<>> /\ lines \in Seq(Line) /\ line \in Line
         /\ Terminal(line) => Over(line.operation)
         /\ OfStream(line) /\ track.id # None => line.operation # track.id
         /\ line.type = "reply" /\ line.operation = None
              => line.method = "shutdown" /\ line.code = "ok"
         /\ line.type = "reply" /\ line.method = "cancel" =>
              /\ line.code \in {"ok", "operation_not_found"}
              /\ line.operation = stream.id /\ stream.id # None
                   => stream.stopRequested
         /\ line.type = "exited" => process # "up"
<1>1. lines \in Seq(Line) /\ batch \in Nat /\ batch <= Len(lines)
  BY DEF SessionInv, TypeOK, WorkerOK, Owner, Roles
<1>2. lines # <<>>
  BY <1>1
<1>3. Head(lines) = lines[1] /\ 1 \in DOMAIN lines /\ Head(lines) \in Line
  BY <1>1, <1>2, Behead
<1>4. QED
  BY <1>1, <1>2, <1>3 DEF SessionInv, GivenUp, Kinds, Known, Cancels, Owner, Roles

\* ReplyIsOkHandled: a reply of success.
LEMMA ReplyIsOkHandled ==
  ASSUME SessionInv, UNCHANGED process, NEW line \in Reply,
         line.operation = None => line.method = "shutdown", ReplyIsOk(line)
  PROVE  Handled
<1>1. CASE UNCHANGED sessionVars
  BY <1>1, Untouched
<1>2. CASE /\ stream' = [stream EXCEPT !.ready = TRUE]
           /\ status' \in {"streaming", status}
           /\ UNCHANGED <<ingress, live, track, loaded, expected, rejected,
                          client, inbox, operations, heard>>
  <2>1. /\ stream' \in Stream /\ stream'.id = stream.id
        /\ stream'.stopRequested = stream.stopRequested
        /\ stream'.endSent = stream.endSent
        /\ stream'.workerEnded = stream.workerEnded
    BY <1>2, Basics DEF Stream
  <2>2. status' \in Statuses
    BY <1>2, Basics DEF SessionOK, Statuses, StreamStatuses
  <2>3. /\ live \in Live /\ (live.terminal => stream.workerEnded)
        /\ (live.frames => live.id # None)
        /\ stream.workerEnded => stream.id # None /\ Over(stream.id)
    BY Basics DEF Blank
  <2>4. QED
    BY <1>2, <2>1, <2>2, <2>3, Advances
<1>3. CASE /\ track.id = line.operation /\ line.method = "track_start"
           /\ Send("track_chunk", track.id)
           /\ UNCHANGED <<status, ingress, stream, live, track, loaded, expected,
                          rejected, client, operations, heard>>
  <2>1. CASE track.id # None
    <3>1. track.id \in Operations \cup {None}
      BY Basics DEF Track
    <3>2. /\ inbox' \in Seq(Request)
          /\ [method |-> "track_chunk", operation |-> track.id] \in Request
          /\ inbox' = Append(inbox, [method |-> "track_chunk", operation |-> track.id])
      BY <1>3, <3>1, Basics, Appends DEF Methods
    <3>3. status' \in Statuses /\ track' \in Track
      BY <1>3, Basics DEF SessionOK
    <3>4. \E request \in Request : /\ request.method \in {"track_chunk", "cancel"}
                                   /\ request.operation = track.id
                                   /\ inbox' = Append(inbox, request)
      BY <3>2
    <3>5. QED
      BY <1>3, <2>1, <3>2, <3>3, <3>4, TrackRequests
  <2>2. CASE track.id = None
    BY <1>3, <2>2
  <2>3. QED
    BY <2>1, <2>2
<1>4. CASE /\ track.id = line.operation /\ line.method = "track_start" /\ FailTrack
  BY <1>4, FailTrackHandled
<1>5. QED
  BY <1>1, <1>2, <1>3, <1>4 DEF ReplyIsOk

\* ReplyIsErrorHandled: a reply of failure.
LEMMA ReplyIsErrorHandled ==
  ASSUME SessionInv, UNCHANGED process, NEW line \in Reply, line.code # "ok",
         line.operation # None,
         line.method = "cancel" =>
           /\ line.code \in {"ok", "operation_not_found"}
           /\ line.operation = stream.id /\ stream.id # None => stream.stopRequested,
         ReplyIsError(line)
  PROVE  Handled
<1>1. CASE UNCHANGED sessionVars
  BY <1>1, Untouched
<1>2. CASE Reject
  BY <1>2, RejectHandled
<1>3. CASE track.id = line.operation /\ FailTrack
  BY <1>3, FailTrackHandled
<1>4. CASE /\ stream.id = line.operation
           /\ ~(stream.stopRequested /\ line.code = "operation_not_found")
           /\ FailStream(line.method # "cancel")
  <2>1. line.method # "cancel"
    BY <1>4
  <2>2. FailStream(TRUE)
    BY <1>4, <2>1
  <2>3. QED
    BY <1>4, <2>2, FailStreamHandled
<1>5. QED
  BY <1>1, <1>2, <1>3, <1>4 DEF ReplyIsError

\* ReleaseHandled: an event that only releases its operation.
LEMMA ReleaseHandled ==
  ASSUME SessionInv, UNCHANGED process, NEW line, line.operation # None,
         line.name \in {"stream_ended", "track_ended", "error"} => Over(line.operation),
         Release(line)
  PROVE  Handled
<1>1. CASE UNCHANGED sessionVars
  BY <1>1, Untouched
<1>2. CASE line.name \in {"stream_ended", "track_ended", "error"}
  <2>1. /\ UNCHANGED <<status, loaded, expected, rejected, client, inbox,
                       operations, heard>>
        /\ (track' = NoTrack /\ Over(track.id)) \/ track' = track
        /\ \/ stream' = NoStream /\ ingress' = NoIngress /\ live' = NoLive
              /\ Over(stream.id)
           \/ UNCHANGED <<stream, ingress, live>>
    BY <1>2 DEF Release, ReleaseStream, StopPresentation
  <2>2. SessionOK' /\ Blank' /\ PresentationFollowsStream'
    BY <2>1, Basics, Nothing DEF SessionOK, Blank, PresentationFollowsStream, None
  <2>3. Keeps /\ KeepsAudio
    BY <2>1, Basics, Nothing DEF Keeps, KeepsAudio, Quiet
  <2>4. QED
    BY <2>1, <2>2, <2>3, Basics, Nothing DEF Handled, Quiet
<1>3. QED
  BY <1>1, <1>2 DEF Release

\* StreamEndedHandled: the end of a Stream, at once or after the tail.
LEMMA StreamEndedHandled ==
  ASSUME SessionInv, UNCHANGED process, stream.id # None, Over(stream.id),
         StreamEnded
  PROVE  Handled
<1>1. CASE StreamIsOver
  BY <1>1, StreamIsOverHandled
<1>2. CASE PresentationStopped(FALSE)
  BY <1>2, PresentationStoppedHandled
<1>3. CASE /\ live.frames /\ status' \in {"ending", status}
           /\ stream' = [stream EXCEPT !.workerEnded = TRUE]
           /\ live' = [live EXCEPT !.terminal = TRUE]
           /\ UNCHANGED <<ingress, track, loaded, expected, rejected, client,
                          inbox, operations, heard>>
  <2>1. /\ stream' \in Stream /\ stream'.id = stream.id
        /\ stream'.stopRequested = stream.stopRequested
        /\ stream'.endSent = stream.endSent /\ stream'.workerEnded
    BY <1>3, Basics DEF Stream
  <2>2. live' \in Live /\ live'.id = live.id /\ live'.frames = live.frames
    BY <1>3, Basics DEF Live
  <2>3. status' \in Statuses
    BY <1>3, Basics DEF SessionOK, Statuses, StreamStatuses
  <2>4. live.frames => live.id # None
    BY Basics DEF Blank
  <2>5. QED
    BY <1>3, <2>1, <2>2, <2>3, <2>4, Advances
<1>4. QED
  BY <1>1, <1>2, <1>3 DEF StreamEnded

\* StreamEventHandled: an event of the active Stream.
LEMMA StreamEventHandled ==
  ASSUME SessionInv, UNCHANGED process, stream.id # None, NEW name,
         name \in {"stream_ended", "track_ended", "error"} => Over(stream.id),
         StreamEvent(name)
  PROVE  Handled
<1>1. ~stream.stopRequested => live.id = stream.id
  BY Basics DEF PresentationFollowsStream
<1>2. CASE name = "error"
  BY <1>1, <1>2, FailStreamHandled DEF StreamEvent
<1>3. CASE name = "stream_ended"
  BY <1>1, <1>3, StreamEndedHandled DEF StreamEvent
<1>4. CASE name \notin {"error", "stream_ended"}
  <2>1. /\ stream' = [stream EXCEPT
             !.credit = stream.credit \/ (name = "stream_credit" /\ ~stream.stopRequested)]
        /\ live' = [live EXCEPT
             !.frames = live.frames \/ (name = "stream_frame" /\ ~stream.stopRequested)]
        /\ UNCHANGED <<status, ingress, track, loaded, expected, rejected,
                       client, inbox, operations, heard>>
    BY <1>1, <1>4 DEF StreamEvent
  <2>2. /\ (stream.credit \/ (name = "stream_credit" /\ ~stream.stopRequested)) \in BOOLEAN
        /\ (live.frames \/ (name = "stream_frame" /\ ~stream.stopRequested)) \in BOOLEAN
    OBVIOUS
  <2>3. /\ stream' \in Stream /\ stream'.id = stream.id
        /\ stream'.stopRequested = stream.stopRequested
        /\ stream'.endSent = stream.endSent
        /\ stream'.workerEnded = stream.workerEnded
    BY <2>1, <2>2, Basics DEF Stream
  <2>4. /\ live' \in Live /\ live'.id = live.id /\ live'.terminal = live.terminal
        /\ live'.frames = (live.frames \/ (name = "stream_frame" /\ ~stream.stopRequested))
    BY <2>1, <2>2, Basics DEF Live
  <2>5. /\ live.terminal => stream.workerEnded
        /\ live'.frames => live.id # None
        /\ stream.workerEnded => Over(stream.id)
    BY <1>1, <2>4, Basics DEF Blank
  <2>6. status' \in Statuses
    BY <2>1, Basics DEF SessionOK
  <2>7. QED
    BY <2>1, <2>3, <2>4, <2>5, <2>6, Advances
<1>5. QED
  BY <1>2, <1>3, <1>4

\* EventHandled: an event of the operation that the controller has, or of none.
LEMMA EventHandled ==
  ASSUME SessionInv, UNCHANGED process, batch > 0, Head(lines).type = "event",
         Event(Head(lines))
  PROVE  Handled
<1> DEFINE line == Head(lines)
<1>1. line \in EventLine /\ line.operation \in Operations /\ line.operation # None
  BY HeadLine, Lines DEF Operations, None
<1>2. /\ line.name \in {"stream_ended", "track_ended", "error"} => Over(line.operation)
      /\ line.name \in {"stream_credit", "stream_frame", "stream_ended",
                        "track_ended", "error"}
      /\ line.name \in {"stream_credit", "stream_frame"} /\ track.id # None
           => line.operation # track.id
  BY <1>1, HeadLine DEF Terminal, OfStream, EventLine
<1>3. CASE Release(line)
  BY <1>1, <1>2, <1>3, ReleaseHandled
<1>4. CASE Reject
  BY <1>4, RejectHandled
<1>5. CASE /\ line.operation \in {track.id, stream.id}
           /\ line.name = "track_ended" /\ TrackEnded
  <2>1. track.id = None \/ Over(track.id)
    BY <1>1, <1>2, <1>5, Basics
  <2>2. QED
    BY <1>5, <2>1, TrackEndedHandled
<1>6. CASE line.operation = track.id /\ TrackFailed
  BY <1>1, <1>2, <1>6, TrackFailedHandled
<1>7. CASE line.operation = stream.id /\ StreamEvent(line.name)
  BY <1>1, <1>2, <1>7, StreamEventHandled
<1>8. QED
  BY <1>3, <1>4, <1>5, <1>6, <1>7 DEF Event

\* ExitHandled: the report of the exit forgets everything.
LEMMA ExitHandled ==
  ASSUME SessionInv, UNCHANGED process, process # "up", NEW clean, Exit(clean)
  PROVE  Handled
<1>1. /\ stream' = NoStream /\ ingress' = NoIngress /\ live' = NoLive
      /\ track' = NoTrack /\ inbox' = <<>> /\ loaded' = FALSE /\ expected' = FALSE
      /\ status' \in {"idle", "error"}
      /\ UNCHANGED <<rejected, client, operations, heard>>
  BY DEF Exit, ReleaseStream, StopPresentation
<1>2. SessionOK' /\ Blank' /\ PresentationFollowsStream'
  <2>1. status' \in Statuses /\ <<>> \in Seq(Request)
    BY <1>1 DEF Statuses
  <2>2. SessionOK'
    BY <1>1, <2>1, Basics, Nothing DEF SessionOK
  <2>3. QED
    BY <1>1, <2>2, Basics, Nothing DEF Blank, PresentationFollowsStream, None
<1>3. Keeps /\ KeepsAudio
  BY <1>1, Nothing DEF Keeps, KeepsAudio, Quiet, CanRequest
<1>4. QED
  BY <1>1, <1>2, <1>3, Basics, Nothing DEF Handled, Quiet

\* LineHandled: any line of the worker.
LEMMA LineHandled ==
  ASSUME SessionInv, HandleLine PROVE Handled
<1> DEFINE line == Head(lines)
<1>1. batch > 0 /\ UNCHANGED process
  BY DEF HandleLine, TimerUnchanged, workerVars
<1>2. CASE UNCHANGED sessionVars
  BY <1>1, <1>2, Untouched
<1>3. CASE line.type = "exited" /\ Exit(line.clean)
  BY <1>1, <1>3, HeadLine, ExitHandled
<1>4. CASE line.type = "event" /\ Event(line)
  BY <1>1, <1>4, EventHandled
<1>5. CASE line.type = "reply" /\ line.code = "ok" /\ ReplyIsOk(line)
  BY <1>1, <1>5, HeadLine, Lines, ReplyIsOkHandled
<1>6. CASE line.type = "reply" /\ line.code # "ok" /\ ReplyIsError(line)
  BY <1>1, <1>6, HeadLine, Lines, ReplyIsErrorHandled
<1>7. line.type \in {"event", "reply", "exited"}
  BY <1>1, HeadLine, Lines
<1>8. QED
  BY <1>2, <1>3, <1>4, <1>5, <1>6, <1>7 DEF HandleLine
-----------------------------------------------------------------------------
(* The timer callback. *)

\* LoudKept: only the start of a Stream makes one wanted.
LEMMA LoudKept ==
  ASSUME SessionInv, Handled, UNCHANGED process, Loud'
  PROVE  (Loud \/ StartsStream) /\ mode = "STREAM"
<1>1. Loud \/ StartsStream
  BY DEF Handled, Keeps, StartsTrack, Loud, Quiet
<1>2. QED
  BY <1>1 DEF SessionInv, Owner, Roles, StartsStream

\* Disturbed: a disturbance is counted within its bound.
LEMMA Disturbed ==
  ASSUME TypeOK, UNCHANGED disturbed \/ \E kind \in Disturbances : Disturbs(kind)
  PROVE  disturbed' \in 0..MaxDisturbances
BY SessionAssumption DEF TypeOK, Disturbs

\* TimerKeeps: a part of the timer callback keeps the invariant.
LEMMA TimerKeeps ==
  ASSUME SessionInv, Handled, TimerUnchanged,
         lines' = lines \/ (lines # <<>> /\ lines' = Tail(lines)),
         pc' \in {"idle", "lines", "tick"}, batch' \in Nat, batch' <= Len(lines'),
         UNCHANGED disturbed \/ \E kind \in Disturbances : Disturbs(kind),
         pc = "idle" /\ pc' # "idle" /\ ~available => ~Loud'
  PROVE  SessionInv'
<1>1. UNCHANGED <<process, serving, available, pushed, mode>>
  BY DEF TimerUnchanged, workerVars, sceneVars
<1>2. mode' \in {"STREAM", "SELECTED"} /\ disturbed' \in 0..MaxDisturbances
  BY <1>1, Disturbed DEF SessionInv, TypeOK
<1>3. Loud' => mode' = "STREAM"
  BY <1>1, LoudKept
<1>4. pc' # "idle" /\ ~available => ~Loud'
  BY <1>1, LoudKept DEF SessionInv, Owner, Roles, StartsStream
<1>5. QED
  BY <1>1, <1>2, <1>3, <1>4, HandledKeeps

\* PollBeginsKeeps: a poll begins with the orphans and the ingress.
LEMMA PollBeginsKeeps == ASSUME SessionInv, PollBegins PROVE SessionInv'
<1>1. process' = process /\ lines' = lines /\ disturbed' = disturbed /\ TimerUnchanged
      /\ pc' = "lines" /\ batch' = Len(lines)
  BY DEF PollBegins, TimerUnchanged, workerVars
<1>2. Handled /\ (~available => ~Loud')
  BY <1>1, ServeIngressHandled, CancelOrphansHandled DEF PollBegins, Loud
<1>3. Len(lines) \in Nat /\ Len(lines) <= Len(lines')
  BY <1>1 DEF SessionInv, TypeOK, WorkerOK
<1>4. QED
  BY <1>1, <1>2, <1>3, TimerKeeps

\* SameLines: a part of the timer callback that takes no line.
LEMMA SameLines ==
  ASSUME SessionInv, Handled, TimerUnchanged, UNCHANGED <<batch, lines>>,
         pc # "idle", pc' \in {"idle", "lines", "tick"},
         UNCHANGED disturbed \/ \E kind \in Disturbances : Disturbs(kind)
  PROVE  SessionInv'
<1>1. batch' \in Nat /\ batch' <= Len(lines')
  BY DEF SessionInv, TypeOK, Owner, Roles
<1>2. QED
  BY <1>1, TimerKeeps

\* PollEndsKeeps: a poll ends with the ingress.
LEMMA PollEndsKeeps == ASSUME SessionInv, PollEnds PROVE SessionInv'
<1>1. process' = process /\ UNCHANGED <<batch, lines, disturbed>> /\ TimerUnchanged
      /\ pc = "lines" /\ pc' = "tick"
  BY DEF PollEnds, TimerUnchanged, workerVars
<1>2. CASE available
  BY <1>1, <1>2, ServeIngressHandled, SameLines DEF PollEnds
<1>3. CASE ~available
  <2>1. Quiet \/ process # "up"
    BY <1>1, <1>3 DEF SessionInv, Owner, Roles, Loud
  <2>2. status \in Statuses
    BY Basics DEF SessionOK
  <2>3. Handled
    BY <1>1, <1>3, <2>1, <2>2, DropsAudio DEF PollEnds
  <2>4. QED
    BY <1>1, <2>3, SameLines
<1>4. QED
  BY <1>2, <1>3

\* TakesLine: a part of the timer callback that takes the next line.
LEMMA TakesLine ==
  ASSUME SessionInv, Handled, TimerUnchanged, pc = "lines", UNCHANGED pc,
         batch > 0, batch' = batch - 1, lines' = Tail(lines),
         UNCHANGED disturbed \/ \E kind \in Disturbances : Disturbs(kind)
  PROVE  SessionInv'
<1>1. lines # <<>> /\ lines \in Seq(Line) /\ batch \in Nat /\ batch <= Len(lines)
  BY HeadLine DEF SessionInv, TypeOK, Owner, Roles
<1>2. batch' \in Nat /\ batch' <= Len(lines')
  BY <1>1, Behead
<1>3. QED
  BY <1>1, <1>2, TimerKeeps

\* HandleLineKeeps: a poll handles one line.
LEMMA HandleLineKeeps == ASSUME SessionInv, HandleLine PROVE SessionInv'
<1>1. Handled
  BY LineHandled
<1>2. QED
  BY <1>1, TakesLine DEF HandleLine

\* FirstFrameFailsKeeps: the first frame cannot be presented.
LEMMA FirstFrameFailsKeeps == ASSUME SessionInv, FirstFrameFails PROVE SessionInv'
<1>1. batch > 0 /\ process' = process /\ available /\ "failure" \in Disturbances
  BY DEF FirstFrameFails, TimerUnchanged, workerVars, Disturbs
<1>2. live.id # None
  BY <1>1, HeadLine, Lines DEF FirstFrameFails, Operations, None
<1>3. stream.id # None
  BY <1>2, Basics DEF PresentationFollowsStream
<1>4. Handled
  BY <1>1, <1>3, PresentationStoppedHandled DEF FirstFrameFails
<1>5. QED
  BY <1>1, <1>4, TakesLine DEF FirstFrameFails

\* PresentationGoesOnKeeps: the tail is not over.
LEMMA PresentationGoesOnKeeps == ASSUME SessionInv, PresentationGoesOn PROVE SessionInv'
<1>1. UNCHANGED sessionVars /\ process' = process
  BY DEF PresentationGoesOn, Tick, TimerUnchanged, workerVars
<1>2. QED
  BY <1>1, Untouched, SameLines DEF PresentationGoesOn, Tick

\* PresentationEndsKeeps: the tail is over, or its scene gone.
LEMMA PresentationEndsKeeps == ASSUME SessionInv, PresentationEnds PROVE SessionInv'
<1>1. process' = process /\ live.id # None /\ pc = "tick"
  BY DEF PresentationEnds, Tick, TimerUnchanged, workerVars
<1>2. stream.id # None /\ ~stream.stopRequested
  BY <1>1, Basics DEF PresentationFollowsStream
<1>3. Over(stream.id) \/ (~available /\ process # "up")
  <2>1. CASE available
    BY <2>1, Basics DEF PresentationEnds, Blank
  <2>2. CASE ~available
    BY <1>1, <1>2, <2>2 DEF SessionInv, Owner, Roles, Loud, Quiet
  <2>3. QED
    BY <2>1, <2>2
<1>4. Handled
  BY <1>1, <1>2, <1>3, PresentationStoppedHandled DEF PresentationEnds
<1>5. QED
  BY <1>1, <1>4, SameLines DEF PresentationEnds, Tick

\* PresentationFailsKeeps: a frame cannot be presented.
LEMMA PresentationFailsKeeps == ASSUME SessionInv, PresentationFails PROVE SessionInv'
<1>1. process' = process /\ live.frames /\ available /\ "failure" \in Disturbances
      /\ pc = "tick"
  BY DEF PresentationFails, Tick, TimerUnchanged, workerVars, Disturbs
<1>2. stream.id # None
  BY <1>1, Basics DEF PresentationFollowsStream, Blank
<1>3. Handled
  BY <1>1, <1>2, PresentationStoppedHandled DEF PresentationFails
<1>4. QED
  BY <1>1, <1>3, SameLines DEF PresentationFails, Tick
-----------------------------------------------------------------------------
(* The source, and the callbacks of the user interface. *)

\* SourceKeeps: the source adds to the ingress.
LEMMA SourceKeeps ==
  ASSUME SessionInv, PushChunk \/ FinishPcm PROVE SessionInv'
<1>1. /\ UNCHANGED <<pc, batch, mode, available, status, stream, live, track,
                     loaded, expected, rejected, client, inbox, operations, heard,
                     lines, process, serving, disturbed>>
  BY DEF PushChunk, FinishPcm, PcmUnchanged, sceneVars, workerVars
<1>2. /\ ingress \in Ingress /\ ingress.chunks \in Seq(Chunks) /\ pushed \in 0..MaxChunks
      /\ ~ingress.ending /\ Audio
  BY DEF SessionInv, TypeOK, SessionOK, Ingress, PushChunk, FinishPcm
<1>3. /\ ingress' \in Ingress /\ pushed' \in 0..MaxChunks /\ Sent' = Sent
      /\ \A i \in DOMAIN ingress'.chunks : ingress'.chunks[i] = Sent + i
      /\ Sent \in 0..pushed'
  <2>1. CASE PushChunk
    <3>1. /\ pushed' = pushed + 1 /\ pushed' \in Chunks /\ pushed' \in 0..MaxChunks
          /\ ingress' = [ingress EXCEPT !.open = TRUE,
                                        !.chunks = Append(ingress.chunks, pushed')]
      BY <1>2, <2>1, SessionAssumption DEF PushChunk, Chunks
    <3>2. /\ Append(ingress.chunks, pushed') \in Seq(Chunks)
          /\ Len(Append(ingress.chunks, pushed')) = Len(ingress.chunks) + 1
          /\ DOMAIN ingress.chunks = 1..Len(ingress.chunks)
          /\ DOMAIN Append(ingress.chunks, pushed') = 1..(Len(ingress.chunks) + 1)
          /\ \A i \in DOMAIN ingress.chunks :
               Append(ingress.chunks, pushed')[i] = ingress.chunks[i]
          /\ Append(ingress.chunks, pushed')[Len(ingress.chunks) + 1] = pushed'
      BY <1>2, <3>1, Appended, SMTT(30)
    <3>3. ingress' \in Ingress /\ ingress'.chunks = Append(ingress.chunks, pushed')
      BY <1>2, <3>1, <3>2 DEF Ingress
    <3>4. Len(ingress.chunks) \in Nat /\ pushed \in Nat
      BY <1>2
    <3>5. Sent' = Sent /\ Sent \in 0..pushed'
      BY <1>2, <3>1, <3>2, <3>3, <3>4, SMTT(30) DEF Sent, Audio
    <3>6. ASSUME NEW i \in DOMAIN ingress'.chunks
          PROVE  ingress'.chunks[i] = Sent + i
      <4>1. CASE i \in DOMAIN ingress.chunks
        BY <1>2, <3>2, <3>3, <4>1 DEF Audio
      <4>2. CASE i = Len(ingress.chunks) + 1
        BY <3>1, <3>2, <3>3, <3>4, <4>2 DEF Sent
      <4>3. QED
        BY <3>2, <3>3, <3>4, <3>6, <4>1, <4>2
    <3>7. QED
      BY <3>1, <3>3, <3>5, <3>6
  <2>2. CASE FinishPcm
    <3>1. ingress' \in Ingress /\ ingress'.chunks = ingress.chunks /\ pushed' = pushed
      BY <1>2, <2>2 DEF FinishPcm, Ingress
    <3>2. QED
      BY <1>2, <3>1 DEF Sent, Audio
  <2>3. QED
    BY <2>1, <2>2
<1>4. TypeOK'
  BY <1>1, <1>3 DEF SessionInv, TypeOK, SessionOK, WorkerOK
<1>5. Owner'
  BY <1>1 DEF SessionInv, Owner, PresentationFollowsStream, Blank, Roles, Loud, Quiet
<1>6. WholeSourceBeforeEnd'
  BY <1>1, <1>2 DEF Audio, WholeSourceBeforeEnd
<1>7. InOrder' /\ (Loud' = Loud)
  BY <1>1, <1>2 DEF Audio, InOrder, Loud, Quiet
<1>8. Audio'
  BY <1>1, <1>2, <1>3, <1>6, <1>7 DEF Audio
<1>9. OneStart' /\ Known' /\ GivenUp' /\ Cancels' /\ Kinds'
  BY <1>1 DEF SessionInv, OneStart, Known, GivenUp, Over, CanRequest, Cancels, Kinds
<1>10. QED
  BY <1>4, <1>5, <1>8, <1>9 DEF SessionInv

\* SceneRemovedKeeps: the scene is removed between two callbacks.
LEMMA SceneRemovedKeeps == ASSUME SessionInv, SceneRemoved PROVE SessionInv'
<1>1. /\ UNCHANGED <<pc, batch, mode, pushed, lines, process, serving, status,
                     ingress, stream, live, track, loaded, expected, rejected,
                     client, inbox, operations, heard>>
      /\ pc = "idle" /\ available' = FALSE /\ "removal" \in Disturbances
  BY DEF SceneRemoved, sessionVars, workerVars, Disturbs
<1>2. disturbed' \in 0..MaxDisturbances
  BY <1>1, Disturbed DEF SceneRemoved, SessionInv
<1>3. TypeOK'
  BY <1>1, <1>2 DEF SessionInv, TypeOK, SessionOK, WorkerOK
<1>4. Owner'
  BY <1>1 DEF SessionInv, Owner, PresentationFollowsStream, Blank, Roles, Loud, Quiet
<1>5. Audio'
  BY <1>1 DEF SessionInv, Audio, Sent, InOrder, WholeSourceBeforeEnd, Loud, Quiet
<1>6. OneStart' /\ Known' /\ GivenUp' /\ Cancels' /\ Kinds'
  BY <1>1 DEF SessionInv, OneStart, Known, GivenUp, Over, CanRequest, Cancels, Kinds
<1>7. QED
  BY <1>3, <1>4, <1>5, <1>6 DEF SessionInv

\* CallbackKeeps: a callback of the user interface keeps the invariant.
LEMMA CallbackKeeps ==
  ASSUME SessionInv, Handled, Callback,
         mode' \in {"STREAM", "SELECTED"}, mode' = mode \/ Quiet' \/ process # "up",
         \E kind \in Disturbances : Disturbs(kind)
  PROVE  SessionInv'
<1>1. UNCHANGED <<pc, batch, available, pushed, lines, process, serving>>
  BY DEF Callback, workerVars
<1>2. /\ pc' \in {"idle", "lines", "tick"} /\ pc' = "idle"
      /\ batch' \in Nat /\ batch' <= Len(lines') /\ disturbed' \in 0..MaxDisturbances
  BY <1>1, Disturbed DEF Callback, SessionInv, TypeOK, Owner, Roles
<1>3. Loud' => mode' = "STREAM"
  BY <1>1, LoudKept DEF Loud
<1>4. QED
  BY <1>1, <1>2, <1>3, HandledKeeps

\* StreamIsCanceled: the Stream is canceled and its audio dropped.
LEMMA StreamIsCanceled ==
  ASSUME SessionInv, UNCHANGED process, stream.id # None, CancelStream,
         live' = NoLive, ingress' = NoIngress, status' \in Statuses,
         UNCHANGED <<track, loaded, expected, rejected, client, operations, heard>>
  PROVE  Handled /\ Quiet'
<1>1. /\ stream' \in Stream /\ stream'.id = stream.id /\ stream'.stopRequested
      /\ stream'.endSent = stream.endSent /\ stream'.workerEnded = stream.workerEnded
      /\ inbox' \in Seq(Request) /\ Quiet'
      /\ \E request \in Request : /\ request.method = "cancel"
                                  /\ request.operation = stream.id
                                  /\ inbox' = Append(inbox, request)
  BY CancelsStream DEF Quiet
<1>2. SessionOK'
  BY <1>1, Basics, Nothing DEF SessionOK
<1>3. track.id = None
  BY Basics
<1>4. Blank' /\ PresentationFollowsStream'
  BY <1>1, <1>3, Basics, Nothing DEF Blank, PresentationFollowsStream, None
<1>5. Keeps
  BY <1>1, <1>3, Basics DEF Keeps, Own
<1>6. KeepsAudio
  BY <1>1 DEF KeepsAudio
<1>7. QED
  BY <1>1, <1>2, <1>3, <1>4, <1>5, <1>6, Basics DEF Handled

\* ModeHandled: the handling of a new input mode.
LEMMA ModeHandled ==
  ASSUME SessionInv, InputModeChanged
  PROVE  Handled /\ (Quiet' \/ process # "up")
<1>1. /\ process' = process
      /\ UNCHANGED <<loaded, expected, rejected, client, heard>>
      /\ status \in Statuses /\ {"error", "ending", "ready"} \subseteq Statuses
  BY Basics DEF InputModeChanged, Callback, workerVars, SessionOK, Statuses, StreamStatuses
<1>2. CASE /\ stream.id # None /\ ~stream.stopRequested /\ CanRequest
           /\ CancelStream /\ StopPresentation /\ ingress' = NoIngress
           /\ status' \in {"ending", status} /\ UNCHANGED <<track, operations>>
  BY <1>1, <1>2, StreamIsCanceled DEF StopPresentation
<1>3. CASE /\ stream.id # None /\ ~stream.stopRequested /\ ~CanRequest
           /\ status' = "error"
           /\ UNCHANGED <<inbox, stream, live, ingress, track, operations>>
  <2>1. process # "up"
    BY <1>3, Basics DEF CanRequest, Quiet, SessionOK
  <2>2. /\ live.terminal => stream.workerEnded
        /\ live.frames => live.id # None
        /\ stream.workerEnded => Over(stream.id)
    BY Basics DEF Blank
  <2>3. QED
    BY <1>1, <1>3, <2>1, <2>2, Advances, Basics
<1>4. CASE /\ stream.stopRequested /\ ingress' = NoIngress
           /\ UNCHANGED <<stream, live, track, status, inbox, operations>>
  BY <1>1, <1>4, DropsAudio DEF Quiet
<1>5. CASE /\ track.id # None /\ UNCHANGED <<stream, live, operations>>
           /\ \/ /\ CancelTrack(mode' = "SELECTED")
                 /\ ingress' = NoIngress /\ status' = "ready"
              \/ status' = "error" /\ UNCHANGED <<track, inbox, ingress>>
  <2>1. Quiet /\ Quiet'
    BY <1>5, Basics DEF Quiet
  <2>2. CASE CancelTrack(mode' = "SELECTED") /\ ingress' = NoIngress /\ status' = "ready"
    <3>1. (mode' = "SELECTED") \in BOOLEAN
      OBVIOUS
    <3>2. /\ track' \in Track /\ track'.id = track.id /\ inbox' \in Seq(Request)
          /\ \/ inbox' = inbox
             \/ \E request \in Request : /\ request.method = "cancel"
                                         /\ request.operation = track.id
                                         /\ inbox' = Append(inbox, request)
      BY <1>5, <2>2, <3>1, CancelsTrack
    <3>3. QED
      BY <1>1, <1>5, <2>1, <2>2, <3>2, TrackRequests
  <2>3. CASE status' = "error" /\ UNCHANGED <<track, inbox, ingress>>
    BY <1>1, <1>5, <2>1, <2>3, TrackRequests, Basics
  <2>4. QED
    BY <1>5, <2>2, <2>3
<1>6. CASE /\ stream.id = None /\ track.id = None /\ ingress' = NoIngress
           /\ EnsureTrack(mode', status) /\ UNCHANGED <<stream, live>>
  <2>1. /\ track' \in Track /\ ~track'.restart /\ status' \in Statuses
        /\ operations' \in 0..MaxOperations /\ inbox' \in Seq(Request)
        /\ \/ track' = NoTrack /\ UNCHANGED <<operations, inbox>>
           \/ /\ CanRequest /\ operations' = operations + 1
              /\ track'.id = operations'
              /\ inbox' = Append(inbox, [method |-> "track_start",
                                         operation |-> operations'])
    BY <1>1, <1>6, EnsuresTrack, Basics
  <2>2. ~stream.stopRequested /\ ~stream.workerEnded /\ ~stream.endSent /\ Quiet'
    BY <1>6, Basics DEF Blank, Quiet
  <2>3. SessionOK'
    BY <1>1, <1>6, <2>1, Basics, Nothing DEF SessionOK
  <2>4. Blank' /\ PresentationFollowsStream'
    <3>1. {None, track'.id} \subseteq 0..operations'
      BY <2>1, Basics, Nothing DEF None
    <3>2. QED
      BY <1>6, <2>1, <2>2, <3>1, Basics DEF Blank, PresentationFollowsStream
  <2>5. Keeps \/ StartsTrack
    BY <1>1, <1>6, <2>1, <2>2, Nothing DEF Keeps, StartsTrack, Begins, Quiet
  <2>6. KeepsAudio
    BY <1>1, <1>6, <2>2 DEF KeepsAudio
  <2>7. QED
    BY <1>1, <1>6, <2>1, <2>2, <2>3, <2>4, <2>5, <2>6, Basics DEF Handled
<1>7. QED
  BY <1>2, <1>3, <1>4, <1>5, <1>6 DEF InputModeChanged

\* InputModeChangedKeeps: a new input mode cancels, or starts a track.
LEMMA InputModeChangedKeeps == ASSUME SessionInv, InputModeChanged PROVE SessionInv'
<1>1. /\ Callback /\ mode' \in {"STREAM", "SELECTED"}
      /\ \E kind \in Disturbances : Disturbs(kind)
  BY DEF InputModeChanged, Disturbs
<1>2. QED
  BY <1>1, ModeHandled, CallbackKeeps

\* SettingsEditedKeeps: settings are sent to the Stream, or it fails.
LEMMA SettingsEditedKeeps == ASSUME SessionInv, SettingsEdited PROVE SessionInv'
<1>1. /\ Callback /\ mode' \in {"STREAM", "SELECTED"} /\ mode' = mode
      /\ process' = process /\ stream.id # None
      /\ \E kind \in Disturbances : Disturbs(kind)
  BY DEF SettingsEdited, Disturbs, Callback, workerVars, SessionInv, TypeOK
<1>2. CASE /\ Send("stream_settings", stream.id)
           /\ UNCHANGED <<status, ingress, stream, live, track, loaded,
                          expected, rejected, client, operations, heard>>
  <2>1. status' \in Statuses /\ heard' \in [Operations -> Seq(Chunks)] /\ KeepsAudio
    BY <1>2, Basics DEF SessionOK, KeepsAudio
  <2>2. Handled
    BY <1>1, <1>2, <2>1, SendsToStream, Basics
  <2>3. QED
    BY <1>1, <2>2, CallbackKeeps
<1>3. CASE FailStream(TRUE)
  BY <1>1, <1>3, FailStreamHandled, CallbackKeeps
<1>4. QED
  BY <1>2, <1>3 DEF SettingsEdited

\* StopWorkerHandled: the worker is stopped by its user.
LEMMA StopWorkerHandled == ASSUME SessionInv, StopWorker PROVE Handled
<1>1. /\ process' = process /\ live' = NoLive
      /\ UNCHANGED <<rejected, operations, heard>>
  BY DEF StopWorker, Callback, workerVars, StopPresentation
<1>2. status' \in Statuses
  BY DEF StopWorker, Statuses
<1>3. CASE /\ client = "gone" /\ loaded' = FALSE /\ stream' = NoStream
           /\ track' = NoTrack /\ ingress' \in {ingress, NoIngress}
           /\ UNCHANGED <<expected, client, inbox>>
  <2>1. SessionOK'
    BY <1>1, <1>2, <1>3, Basics, Nothing DEF SessionOK
  <2>2. Blank' /\ PresentationFollowsStream'
    BY <1>1, <1>3, Basics, Nothing DEF Blank, PresentationFollowsStream, None
  <2>3. Keeps /\ KeepsAudio
    BY <1>1, <1>3, Nothing DEF Keeps, KeepsAudio, Quiet, CanRequest
  <2>4. QED
    BY <1>1, <1>3, <2>1, <2>2, <2>3, Basics, Nothing DEF Handled, Quiet
<1>4. CASE /\ client = "stopping"
           /\ UNCHANGED <<loaded, stream, track, ingress, expected, client, inbox>>
  <2>1. SessionOK'
    BY <1>1, <1>2, <1>4, Basics, Nothing DEF SessionOK
  <2>2. Blank' /\ PresentationFollowsStream'
    BY <1>1, <1>4, Basics, Nothing DEF Blank, PresentationFollowsStream, Quiet, None
  <2>3. Keeps /\ KeepsAudio
    BY <1>1, <1>4, Basics DEF Keeps, KeepsAudio, Quiet
  <2>4. QED
    BY <1>1, <1>4, <2>1, <2>2, <2>3, Basics DEF Handled, Quiet
<1>5. CASE /\ stream' = [stream EXCEPT !.stopRequested = stream.id # None]
           /\ expected' = TRUE /\ BeginShutdown
           /\ UNCHANGED <<loaded, track, ingress>>
  <2>1. /\ client' \in {"stopping", "gone"} /\ (process = "up" => client' = "stopping")
        /\ inbox' \in Seq(Request)
        /\ \/ inbox' = inbox
           \/ \E request \in Request : /\ request.method = "shutdown"
                                       /\ request.operation = None
                                       /\ inbox' = Append(inbox, request)
    BY <1>5, Shutdowns
  <2>2. /\ stream' \in Stream /\ stream'.id = stream.id
        /\ stream'.stopRequested = (stream.id # None)
        /\ stream'.endSent = stream.endSent /\ stream'.workerEnded = stream.workerEnded
    BY <1>5, Basics DEF Stream
  <2>3. SessionOK'
    BY <1>1, <1>2, <1>5, <2>1, <2>2, Basics, Nothing DEF SessionOK
  <2>4. Blank' /\ PresentationFollowsStream' /\ Quiet'
    BY <1>1, <1>5, <2>2, Basics, Nothing DEF Blank, PresentationFollowsStream, Quiet, None
  <2>5. Keeps
    BY <1>1, <1>5, <2>1, <2>2, <2>4, Basics DEF Keeps, Own
  <2>6. KeepsAudio
    BY <1>1, <1>5, <2>2 DEF KeepsAudio
  <2>7. QED
    BY <1>1, <1>5, <2>1, <2>2, <2>3, <2>4, <2>5, <2>6, Basics DEF Handled
<1>6. QED
  BY <1>3, <1>4, <1>5 DEF StopWorker

\* StopWorkerKeeps: ... which keeps the invariant.
LEMMA StopWorkerKeeps == ASSUME SessionInv, StopWorker PROVE SessionInv'
<1>1. /\ Callback /\ mode' \in {"STREAM", "SELECTED"} /\ mode' = mode
      /\ \E kind \in Disturbances : Disturbs(kind)
  BY DEF StopWorker, Disturbs, Callback, SessionInv, TypeOK
<1>2. QED
  BY <1>1, StopWorkerHandled, CallbackKeeps
-----------------------------------------------------------------------------
(* The worker. *)

\* InboxKept: a request in the inbox was there before.
LEMMA InboxKept ==
  ASSUME SessionOK, inbox' = inbox \/ (inbox # <<>> /\ inbox' = Tail(inbox)),
         NEW i \in DOMAIN inbox'
  PROVE  \E j \in DOMAIN inbox :
           /\ inbox'[i] = inbox[j]
           /\ j = IF inbox' = inbox THEN i ELSE i + 1
<1>1. inbox \in Seq(Request)
  BY DEF SessionOK
<1>2. CASE inbox # <<>> /\ inbox' = Tail(inbox)
  <2>1. i + 1 \in DOMAIN inbox /\ inbox'[i] = inbox[i + 1]
    BY <1>1, <1>2, Behead
  <2>2. inbox' # inbox
    BY <1>1, <1>2, Behead
  <2>3. QED
    BY <2>1, <2>2
<1>3. QED
  BY <1>2

\* OverStays: an operation that is over stays over.
LEMMA OverStays ==
  ASSUME SessionOK, OneStart, Serves, NEW o \in Operations, Over(o)
  PROVE  Over(o)'
<1>1. ASSUME NEW i \in DOMAIN inbox', inbox'[i].method \in Starts
      PROVE  inbox'[i].operation # o
  BY <1>1, InboxKept DEF Serves, Over
<1>2. o # None
  BY DEF Operations, None
<1>3. serving'.id = o => serving'.phase = "finishing"
  <2>1. CASE GoesOn
    BY <2>1 DEF GoesOn, Over
  <2>2. CASE IsStarted
    <3>1. inbox \in Seq(Request) /\ inbox # <<>>
      BY <2>2 DEF SessionOK, IsStarted
    <3>2. Head(inbox) = inbox[1] /\ 1 \in DOMAIN inbox
      BY <3>1, Behead
    <3>3. QED
      BY <2>2, <3>2 DEF IsStarted, Over
  <2>3. CASE serving' = Idle
    BY <1>2, <2>3 DEF Idle
  <2>4. QED
    BY <2>1, <2>2, <2>3 DEF Serves
<1>4. QED
  BY <1>1, <1>3 DEF Over

\* OneStartStays: the worker reads a start and becomes busy with it.
LEMMA OneStartStays ==
  ASSUME TypeOK, OneStart, Serves PROVE OneStart'
<1>1. inbox \in Seq(Request) /\ SessionOK
  BY DEF TypeOK, SessionOK
<1>2. serving'.id = None <=> serving'.phase = "idle"
  <2>1. CASE GoesOn
    BY <2>1 DEF GoesOn, OneStart
  <2>2. CASE IsStarted
    BY <1>1, <2>2, Behead DEF IsStarted, OneStart
  <2>3. CASE serving' = Idle
    BY <2>3 DEF Idle
  <2>4. QED
    BY <2>1, <2>2, <2>3 DEF Serves
<1>3. ASSUME NEW i \in DOMAIN inbox', inbox'[i].method \in Starts
      PROVE  /\ serving'.phase \in {"idle", "finishing"}
             /\ inbox'[i].operation \notin {serving'.id, None}
             /\ \A j \in DOMAIN inbox' : inbox'[j].method \in Starts => i = j
  <2>1. PICK k \in DOMAIN inbox :
          inbox'[i] = inbox[k] /\ k = IF inbox' = inbox THEN i ELSE i + 1
    BY <1>1, InboxKept DEF Serves
  <2>2. /\ serving.phase \in {"idle", "finishing"}
        /\ inbox[k].operation \notin {serving.id, None}
        /\ \A j \in DOMAIN inbox : inbox[j].method \in Starts => k = j
    BY <1>3, <2>1 DEF OneStart
  <2>3. ASSUME NEW j \in DOMAIN inbox', inbox'[j].method \in Starts PROVE i = j
    <3>1. PICK l \in DOMAIN inbox :
            inbox'[j] = inbox[l] /\ l = IF inbox' = inbox THEN j ELSE j + 1
      BY <1>1, InboxKept DEF Serves
    <3>2. k = l
      BY <2>2, <2>3, <3>1
    <3>3. i \in Int /\ j \in Int
      BY <1>1, Behead DEF Serves
    <3>4. QED
      BY <2>1, <3>1, <3>2, <3>3
  <2>4. ~IsStarted
    <3> SUFFICES ASSUME IsStarted PROVE FALSE
      OBVIOUS
    <3>1. /\ 1 \in DOMAIN inbox /\ inbox[1].method \in Starts
          /\ i + 1 \in DOMAIN inbox /\ inbox'[i] = inbox[i + 1] /\ i \in 1..Len(inbox)
      BY <1>1, Behead DEF IsStarted
    <3>2. i + 1 = 1
      BY <1>3, <3>1 DEF OneStart
    <3>3. QED
      BY <1>1, <3>1, <3>2
  <2>5. CASE GoesOn
    BY <2>1, <2>2, <2>3, <2>5 DEF GoesOn
  <2>6. CASE serving' = Idle
    BY <2>1, <2>2, <2>3, <2>6 DEF Idle
  <2>7. QED
    BY <2>4, <2>5, <2>6 DEF Serves
<1>4. QED
  BY <1>2, <1>3 DEF OneStart

\* ServesKeeps: a step of the worker keeps the invariant.
LEMMA ServesKeeps == ASSUME SessionInv, Serves PROVE SessionInv'
<1>1. /\ TypeOK /\ SessionOK /\ Owner /\ Audio /\ OneStart /\ Known /\ GivenUp
      /\ Cancels /\ Kinds /\ inbox \in Seq(Request) /\ lines \in Seq(Line)
      /\ batch \in Nat /\ operations \in 0..MaxOperations
  BY DEF SessionInv, TypeOK, SessionOK, WorkerOK
<1>2. inbox' \in Seq(Request)
  <2>1. inbox' = inbox \/ (inbox # <<>> /\ inbox' = Tail(inbox))
    BY DEF Serves
  <2>2. QED
    BY <1>1, <2>1, Behead
<1>3. SessionOK'
  BY <1>1, <1>2 DEF SessionOK, Serves
<1>4. TypeOK'
  BY <1>1, <1>3 DEF TypeOK, Serves
<1>5. \A i \in DOMAIN inbox' : \E j \in DOMAIN inbox : inbox'[i] = inbox[j]
  BY <1>1, InboxKept DEF Serves
<1>6. lines' \in Seq(Line) /\ Len(lines) \in Nat /\ Len(lines') \in Nat
  BY <1>1, <1>4 DEF TypeOK, WorkerOK
<1>7. Owner'
  <2>1. Loud' => Loud
    BY DEF Serves, Loud, Quiet
  <2>2. batch' <= Len(lines')
    BY <1>1, <1>6 DEF Serves, Owner, Roles
  <2>3. \A i \in DOMAIN lines' : lines'[i].type = "exited" => process' # "up"
    BY <1>1 DEF Serves, Owner, Roles, Fresh
  <2>4. Roles'
    BY <1>1, <2>1, <2>2, <2>3 DEF Serves, Owner, Roles, Quiet
  <2>5. QED
    BY <1>1, <2>4 DEF Serves, Owner, PresentationFollowsStream, Blank
<1>8. Audio'
  <2>1. Loud' => Loud
    BY DEF Serves, Loud, Quiet
  <2>2. WholeSourceBeforeEnd'
    BY <1>1 DEF Serves, Audio, WholeSourceBeforeEnd
  <2>3. QED
    BY <1>1, <2>1, <2>2 DEF Serves, Audio, Sent, InOrder
<1>9. OneStart'
  BY <1>1, OneStartStays
<1>10. Known'
  <2>1. serving'.id <= operations
    <3>1. CASE GoesOn
      BY <1>1, <3>1 DEF GoesOn, Known
    <3>2. CASE IsStarted
      BY <1>1, <3>2, Behead DEF IsStarted, Known
    <3>3. CASE serving' = Idle
      BY <1>1, <3>3 DEF Idle, None
    <3>4. QED
      BY <3>1, <3>2, <3>3 DEF Serves
  <2>2. QED
    BY <1>1, <1>5, <2>1, SMTT(30) DEF Known, Serves, Fresh
<1>11. GivenUp'
  <2>1. ASSUME NEW i \in DOMAIN lines', Terminal(lines'[i]), NEW o,
               o = lines'[i].operation
        PROVE  Over(o)'
    <3>1. lines'[i] \in Line
      BY <1>6, Element
    <3>2. o \in Operations
      BY <2>1, <3>1, Lines DEF Terminal
    <3>3. CASE i \in DOMAIN lines /\ lines'[i] = lines[i]
      BY <1>1, <2>1, <3>2, <3>3, OverStays DEF GivenUp
    <3>4. CASE Fresh(lines'[i])
      BY <2>1, <3>2, <3>4 DEF Fresh
    <3>5. QED
      BY <3>3, <3>4 DEF Serves
  <2>2. \A i \in DOMAIN lines' : Terminal(lines'[i]) => Over(lines[i].operation)'
    BY <2>1 DEF Over
  <2>3. stream'.workerEnded => Over(stream.id)'
    <3>1. SUFFICES ASSUME stream.workerEnded PROVE Over(stream.id)'
      BY DEF Serves
    <3>2. stream.id \in Operations
      BY <1>1, <3>1 DEF Owner, Blank, SessionOK, Stream
    <3>3. \A o \in Operations : o = stream.id => Over(o)'
      BY <1>1, <3>1, OverStays DEF GivenUp
    <3>4. QED
      BY <3>2, <3>3 DEF Serves, Over
  <2>4. ASSUME CanRequest', NEW o \in 1..operations, o \notin {stream.id, track.id}
        PROVE  Over(o)'
    <3>1. CanRequest /\ o \in Operations
      BY <1>1, <2>4, SessionAssumption DEF CanRequest, Serves, Operations
    <3>2. QED
      BY <1>1, <2>4, <3>1, OverStays DEF GivenUp
  <2>5. QED
    BY <2>2, <2>3, <2>4 DEF GivenUp, Serves
<1>12. Cancels'
  BY <1>1, <1>5, SMTT(30) DEF Cancels, Serves, Fresh
<1>13. Kinds'
  BY <1>1, <1>5 DEF Kinds, Serves, Fresh
<1>14. QED
  BY <1>4, <1>7, <1>8, <1>9, <1>10, <1>11, <1>12, <1>13 DEF SessionInv

\* Said: one line more.
LEMMA Said ==
  ASSUME WorkerOK, NEW line \in Line, Says(line)
  PROVE  /\ lines' \in Seq(Line) /\ Len(lines) <= Len(lines')
         /\ \A i \in DOMAIN lines' :
              (i \in DOMAIN lines /\ lines'[i] = lines[i]) \/ lines'[i] = line
<1>1. lines \in Seq(Line) /\ lines' = Append(lines, line)
  BY DEF WorkerOK, Says
<1>2. QED
  BY <1>1, Appended

\* WorkerBasics: what the worker relies on.
LEMMA WorkerBasics ==
  ASSUME SessionInv
  PROVE  /\ WorkerOK /\ serving \in Serving /\ lines \in Seq(Line)
         /\ inbox \in Seq(Request) /\ disturbed \in 0..MaxDisturbances
         /\ serving.id \in Operations \cup {None} /\ serving.id <= operations
         /\ serving.id = None <=> serving.phase = "idle"
         /\ track.id # None /\ serving.id = track.id
              => ~serving.fed /\ serving.chunks = 0
         /\ operations \in Nat /\ process \in {"up", "exited", "crashed", "reaped"}
         /\ Len(lines) <= Len(lines)
BY DEF SessionInv, TypeOK, SessionOK, WorkerOK, Serving, Known, OneStart, Kinds

\* HeadRequest: what the next request asks for.
LEMMA HeadRequest ==
  ASSUME SessionInv, inbox # <<>>
  PROVE  LET request == Head(inbox) IN
         /\ request \in Request /\ request.operation \in Operations \cup {None}
         /\ request.method \in Methods /\ request.operation <= operations
         /\ request.operation = None => request.method = "shutdown"
         /\ request.method = "cancel" /\ request.operation = stream.id
              /\ stream.id # None => stream.stopRequested
         /\ track.id # None /\ request.method \in StreamMethods
              => request.operation # track.id
<1>1. Head(inbox) = inbox[1] /\ 1 \in DOMAIN inbox /\ Head(inbox) \in Request
  BY WorkerBasics, Behead
<1>2. QED
  BY <1>1 DEF Request, SessionInv, Known, Cancels, Kinds

\* Quietly: a step of the worker that says nothing.
LEMMA Quietly ==
  ASSUME SessionInv, ControllerUnchanged, UNCHANGED <<inbox, lines>>,
         disturbed' \in 0..MaxDisturbances, serving' \in Serving,
         process' \in {"up", "exited", "crashed", "reaped"},
         process' = "up" => process = "up", GoesOn \/ serving' = Idle,
         track.id # None /\ serving'.id = track.id
           => ~serving'.fed /\ serving'.chunks = 0
  PROVE  Serves
BY WorkerBasics DEF ControllerUnchanged, sceneVars, Serves, WorkerOK

\* Speaks: a step of the worker that says a line.
LEMMA Speaks ==
  ASSUME SessionInv, ControllerUnchanged, NEW line \in Line, Says(line), Fresh(line),
         disturbed' \in 0..MaxDisturbances, serving' \in Serving,
         process' \in {"up", "exited", "crashed", "reaped"},
         process' = "up" => process = "up", GoesOn \/ IsStarted,
         inbox' = inbox \/ (inbox # <<>> /\ inbox' = Tail(inbox)),
         track.id # None /\ serving'.id = track.id
           => ~serving'.fed /\ serving'.chunks = 0
  PROVE  Serves
<1>1. /\ lines' \in Seq(Line) /\ Len(lines) <= Len(lines')
      /\ \A i \in DOMAIN lines' :
           (i \in DOMAIN lines /\ lines'[i] = lines[i]) \/ Fresh(lines'[i])
  BY WorkerBasics, Said
<1>2. QED
  BY <1>1 DEF ControllerUnchanged, sceneVars, Serves, WorkerOK

\* Replies: a request that was read is answered.
LEMMA Replies ==
  ASSUME SessionInv, inbox # <<>>,
         NEW code \in {"ok", "busy", "operation_not_found", "failed"},
         Head(inbox).method = "cancel" => code \in {"ok", "operation_not_found"},
         Head(inbox).method = "shutdown" => code = "ok"
  PROVE  LET line == [type |-> "reply", code |-> code, method |-> Head(inbox).method,
                      operation |-> Head(inbox).operation]
         IN  line \in Line /\ Fresh(line) /\ (Answers(Head(inbox), code) => Says(line))
<1> DEFINE line == [type |-> "reply", code |-> code, method |-> Head(inbox).method,
                    operation |-> Head(inbox).operation]
<1>1. line \in Line /\ (Answers(Head(inbox), code) => Says(line))
  BY HeadRequest DEF Line, Reply, Answers
<1>2. Fresh(line)
  BY HeadRequest DEF Fresh, Terminal, OfStream
<1>3. QED
  BY <1>1, <1>2

\* WorkerStartsServes: a start is refused, fails or succeeds.
LEMMA WorkerStartsServes ==
  ASSUME SessionInv, NEW method \in Starts, WorkerStarts(method) PROVE Serves
<1>1. /\ inbox # <<>> /\ Head(inbox).method = method /\ inbox' = Tail(inbox)
      /\ ControllerUnchanged /\ process' = process
  BY DEF WorkerStarts, WorkerReads
<1>2. Head(inbox).method \notin {"cancel", "shutdown"} /\ Head(inbox).operation # None
      /\ Head(inbox).operation \in Operations
  BY <1>1, HeadRequest DEF Starts
<1>3. disturbed' \in 0..MaxDisturbances
  BY WorkerBasics, SessionAssumption DEF WorkerStarts, Disturbs
<1>4. CASE serving' = serving
  <2>1. PICK code \in {"busy", "failed", "ok"} : Answers(Head(inbox), code)
    BY DEF WorkerStarts
  <2>2. GoesOn
    BY <1>4 DEF GoesOn
  <2>3. QED
    BY <1>1, <1>2, <1>3, <1>4, <2>1, <2>2, Replies, Speaks, WorkerBasics
<1>5. CASE /\ serving.id = None /\ Answers(Head(inbox), "ok")
           /\ serving' = [Idle EXCEPT
                !.id = Head(inbox).operation, !.phase = "running",
                !.kind = IF method = "stream_start" THEN "stream" ELSE "track"]
  <2>1. /\ serving' \in Serving /\ serving'.id = Head(inbox).operation
        /\ serving'.phase = "running" /\ ~serving'.fed /\ serving'.chunks = 0
    <3>1. Idle \in Serving /\ ~Idle.fed /\ Idle.chunks = 0
      BY SessionAssumption DEF Idle, Serving
    <3>2. PICK kind \in {"stream", "track"} :
            serving' = [Idle EXCEPT !.id = Head(inbox).operation,
                                    !.phase = "running", !.kind = kind]
      BY <1>5
    <3>3. QED
      BY <1>2, <3>1, <3>2 DEF Serving
  <2>2. IsStarted
    BY <1>1, <1>5, <2>1 DEF IsStarted
  <2>3. QED
    BY <1>1, <1>2, <1>3, <1>5, <2>1, <2>2, Replies, Speaks, WorkerBasics
<1>6. QED
  BY <1>4, <1>5 DEF WorkerStarts

\* WorkerTakesServes: a request is taken, deferred or refused.
LEMMA WorkerTakesServes ==
  ASSUME SessionInv, NEW accepted \in Serving,
         NEW method \in {"stream_chunk", "stream_settings", "track_chunk",
                         "stream_end", "cancel"},
         accepted.id = serving.id, accepted.phase = serving.phase,
         method \notin StreamMethods
           => accepted.fed = serving.fed /\ accepted.chunks = serving.chunks,
         WorkerTakes(method, accepted)
  PROVE  Serves
<1>1. /\ inbox # <<>> /\ Head(inbox).method = method /\ inbox' = Tail(inbox)
      /\ ControllerUnchanged /\ process' = process /\ disturbed' = disturbed
  BY DEF WorkerTakes, WorkerReads
<1>2. CASE Runs(Head(inbox).operation) /\ serving' = accepted
  <2>1. GoesOn
    BY <1>2 DEF GoesOn
  <2>2. track.id # None /\ serving'.id = track.id
          => ~serving'.fed /\ serving'.chunks = 0
    BY <1>1, <1>2, HeadRequest, WorkerBasics DEF Runs
  <2>3. CASE lines' = lines
    <3>1. \A i \in DOMAIN lines' : i \in DOMAIN lines /\ lines'[i] = lines[i]
      BY <2>3
    <3>2. QED
      BY <1>1, <1>2, <2>1, <2>2, <2>3, <3>1, WorkerBasics
      DEF ControllerUnchanged, sceneVars, Serves, WorkerOK
  <2>4. CASE Answers(Head(inbox), "ok")
    BY <1>1, <1>2, <2>1, <2>2, <2>4, Replies, Speaks, WorkerBasics
  <2>5. QED
    BY <1>2, <2>3, <2>4 DEF WorkerTakes
<1>3. CASE Answers(Head(inbox), "operation_not_found") /\ serving' = serving
  <2>1. GoesOn
    BY <1>3 DEF GoesOn
  <2>2. QED
    BY <1>1, <1>3, <2>1, Replies, Speaks, WorkerBasics
<1>4. QED
  BY <1>2, <1>3 DEF WorkerTakes

\* Requests that are taken, each with what it changes.
LEMMA RequestsServe ==
  ASSUME SessionInv,
         \/ WorkerTakes("stream_chunk", [serving EXCEPT !.chunks = @ + 1])
         \/ \E method \in DeferredMethods :
              WorkerTakes(method, [serving EXCEPT !.deferred = @ + 1])
         \/ WorkerTakes("stream_end", [serving EXCEPT !.end = TRUE, !.fed = TRUE])
         \/ WorkerTakes("cancel", [serving EXCEPT !.canceled = TRUE])
  PROVE  Serves
<1>1. serving \in Serving
  BY WorkerBasics
<1>2. CASE WorkerTakes("stream_chunk", [serving EXCEPT !.chunks = @ + 1])
  <2> DEFINE accepted == [serving EXCEPT !.chunks = @ + 1]
  <2>1. /\ accepted \in Serving /\ accepted.id = serving.id
        /\ accepted.phase = serving.phase
    BY <1>1 DEF Serving
  <2>2. "stream_chunk" \in StreamMethods
    BY DEF StreamMethods
  <2> HIDE DEF accepted
  <2>3. WorkerTakes("stream_chunk", accepted)
    BY <1>2 DEF accepted
  <2>4. QED
    BY <2>1, <2>2, <2>3, WorkerTakesServes
<1>3. ASSUME NEW method \in DeferredMethods,
             WorkerTakes(method, [serving EXCEPT !.deferred = @ + 1])
      PROVE  Serves
  <2> DEFINE accepted == [serving EXCEPT !.deferred = @ + 1]
  <2>1. /\ accepted \in Serving /\ accepted.id = serving.id
        /\ accepted.phase = serving.phase /\ accepted.fed = serving.fed
        /\ accepted.chunks = serving.chunks
    BY <1>1 DEF Serving
  <2> HIDE DEF accepted
  <2>2. WorkerTakes(method, accepted) /\ method \in {"stream_settings", "track_chunk"}
    BY <1>3 DEF accepted, DeferredMethods
  <2>3. QED
    BY <2>1, <2>2, WorkerTakesServes
<1>4. CASE WorkerTakes("stream_end", [serving EXCEPT !.end = TRUE, !.fed = TRUE])
  <2> DEFINE accepted == [serving EXCEPT !.end = TRUE, !.fed = TRUE]
  <2>1. /\ accepted \in Serving /\ accepted.id = serving.id
        /\ accepted.phase = serving.phase
    BY <1>1 DEF Serving
  <2>2. "stream_end" \in StreamMethods
    BY DEF StreamMethods
  <2> HIDE DEF accepted
  <2>3. WorkerTakes("stream_end", accepted)
    BY <1>4 DEF accepted
  <2>4. QED
    BY <2>1, <2>2, <2>3, WorkerTakesServes
<1>5. CASE WorkerTakes("cancel", [serving EXCEPT !.canceled = TRUE])
  <2> DEFINE accepted == [serving EXCEPT !.canceled = TRUE]
  <2>1. /\ accepted \in Serving /\ accepted.id = serving.id
        /\ accepted.phase = serving.phase /\ accepted.fed = serving.fed
        /\ accepted.chunks = serving.chunks
    BY <1>1 DEF Serving
  <2> HIDE DEF accepted
  <2>2. WorkerTakes("cancel", accepted)
    BY <1>5 DEF accepted
  <2>3. QED
    BY <2>1, <2>2, WorkerTakesServes
<1>6. QED
  BY <1>2, <1>3, <1>4, <1>5

\* ShutdownServes: a shutdown stops the operation, then the process.
LEMMA ShutdownServes == ASSUME SessionInv, WorkerStops \/ WorkerExits PROVE Serves
<1>1. CASE WorkerStops
  <2>1. serving' = [serving EXCEPT !.canceled = TRUE] /\ serving \in Serving
    BY <1>1, WorkerBasics DEF WorkerStops
  <2>2. /\ serving' \in Serving /\ serving'.id = serving.id /\ serving'.fed = serving.fed
        /\ serving'.phase = serving.phase /\ serving'.chunks = serving.chunks
    BY <2>1 DEF Serving
  <2>3. QED
    BY <1>1, <2>2, WorkerBasics, Quietly DEF WorkerStops, GoesOn
<1>2. CASE WorkerExits
  <2>1. /\ inbox # <<>> /\ Head(inbox).method = "shutdown" /\ inbox' = Tail(inbox)
        /\ ControllerUnchanged /\ process' = "exited" /\ disturbed' = disturbed
        /\ serving' = serving /\ Answers(Head(inbox), "ok")
    BY <1>2 DEF WorkerExits, ShutdownRead
  <2>2. GoesOn
    BY <2>1 DEF GoesOn
  <2>3. QED
    BY <2>1, <2>2, Replies, Speaks, WorkerBasics
<1>3. QED
  BY <1>1, <1>2

\* Events: an operation that is served says something about itself.
LEMMA Events ==
  ASSUME SessionInv, serving.id # None,
         NEW name \in {"stream_credit", "stream_frame", "stream_ended",
                       "track_ended", "error"},
         name \in {"stream_ended", "track_ended", "error"} =>
           \A o \in Operations : o = serving.id => Over(o)',
         name \in {"stream_credit", "stream_frame"} /\ track.id # None
           => serving.id # track.id,
         Announces(name)
  PROVE  \E line \in Line : Says(line) /\ Fresh(line)
<1> DEFINE line == [type |-> "event", name |-> name, operation |-> serving.id]
<1>1. line \in Line /\ Says(line)
  BY WorkerBasics DEF Line, EventLine, Announces
<1>2. Fresh(line)
  BY WorkerBasics DEF Fresh, Terminal, OfStream
<1>3. QED
  BY <1>1, <1>2

\* Appends a run of replies.
LEMMA WorkerAppliesServes == ASSUME SessionInv, WorkerApplies PROVE Serves
<1> DEFINE reply == [type |-> "reply", code |-> "ok", method |-> Deferred.method,
                     operation |-> serving.id]
           replies == [i \in 1..serving.deferred |-> reply]
<1>1. /\ process = "up" /\ serving.phase = "running" /\ lines' = lines \o replies
      /\ serving' = [serving EXCEPT !.deferred = 0] /\ serving \in Serving
      /\ ControllerUnchanged /\ UNCHANGED <<inbox, process, disturbed>>
  BY WorkerBasics DEF WorkerApplies, Runs
<1>2. reply \in Line
  BY <1>1, WorkerBasics DEF Line, Reply, Deferred, Methods
<1>3. Fresh(reply)
  <2>1. serving.id # None /\ serving.id <= operations
    BY <1>1, WorkerBasics
  <2>2. Deferred.method # "cancel"
    BY DEF Deferred
  <2>3. QED
    BY <2>1, <2>2 DEF Fresh, Terminal, OfStream
<1>4. /\ serving' \in Serving /\ serving'.id = serving.id /\ serving'.fed = serving.fed
      /\ serving'.phase = serving.phase /\ serving'.chunks = serving.chunks
      /\ serving.deferred \in Nat
  BY <1>1 DEF Serving
<1>5. /\ lines' \in Seq(Line) /\ Len(lines) <= Len(lines')
      /\ \A i \in DOMAIN lines' :
           (i \in DOMAIN lines /\ lines'[i] = lines[i]) \/ lines'[i] = reply
  <2> HIDE DEF reply
  <2>1. replies \in Seq(Line) /\ Len(replies) = serving.deferred
        /\ \A i \in 1..serving.deferred : replies[i] = reply
    BY <1>2, <1>4
  <2> HIDE DEF replies
  <2>2. lines \in Seq(Line) /\ Len(lines) \in Nat
    BY WorkerBasics
  <2>3. /\ lines \o replies \in Seq(Line)
        /\ Len(lines \o replies) = Len(lines) + Len(replies)
        /\ \A i \in 1..(Len(lines) + Len(replies)) : (lines \o replies)[i] =
             IF i <= Len(lines) THEN lines[i] ELSE replies[i - Len(lines)]
    BY <2>1, <2>2, ConcatProperties
  <2>4. Len(lines') = Len(lines) + serving.deferred /\ lines' \in Seq(Line)
    BY <1>1, <2>1, <2>3
  <2>5. ASSUME NEW i \in DOMAIN lines'
        PROVE  (i \in DOMAIN lines /\ lines'[i] = lines[i]) \/ lines'[i] = reply
    <3>1. i \in 1..(Len(lines) + serving.deferred)
      BY <2>4
    <3>2. CASE i <= Len(lines)
      BY <1>1, <1>4, <2>1, <2>2, <2>3, <3>1, <3>2
    <3>3. CASE i > Len(lines)
      <4>1. i - Len(lines) \in 1..serving.deferred
        BY <1>4, <2>2, <3>1, <3>3
      <4>2. lines'[i] = replies[i - Len(lines)]
        BY <1>1, <1>4, <2>1, <2>2, <2>3, <3>1, <3>3
      <4>3. QED
        BY <2>1, <4>1, <4>2
    <3>4. QED
      BY <2>2, <3>1, <3>2, <3>3
  <2>6. QED
    BY <1>4, <2>2, <2>4, <2>5
<1>6. \A i \in DOMAIN lines' :
        (i \in DOMAIN lines /\ lines'[i] = lines[i]) \/ Fresh(lines'[i])
  BY <1>3, <1>5
<1>7. QED
  BY <1>1, <1>4, <1>5, <1>6, WorkerBasics
  DEF ControllerUnchanged, sceneVars, Serves, WorkerOK, GoesOn

\* WorkerCreditsServes: a chunk is consumed and credited.
LEMMA WorkerCreditsServes == ASSUME SessionInv, WorkerCredits PROVE Serves
<1>1. /\ process = "up" /\ serving.phase = "running" /\ serving.chunks > 0
      /\ Announces("stream_credit") /\ serving \in Serving
      /\ serving' = [serving EXCEPT !.chunks = serving.chunks - 1, !.fed = TRUE]
      /\ ControllerUnchanged /\ UNCHANGED <<inbox, process, disturbed>>
  BY WorkerBasics DEF WorkerCredits, Runs, Consumed
<1>2. /\ serving' \in Serving /\ serving'.id = serving.id
      /\ serving'.phase = serving.phase
  <2>1. serving.chunks - 1 \in Nat
    BY <1>1 DEF Serving
  <2>2. QED
    BY <1>1, <2>1 DEF Serving
<1>3. serving.id # None /\ (track.id # None => serving.id # track.id)
  BY <1>1, WorkerBasics
<1>4. PICK line \in Line : Says(line) /\ Fresh(line)
  BY <1>1, <1>3, Events
<1>5. QED
  BY <1>1, <1>2, <1>3, <1>4, Speaks, WorkerBasics DEF GoesOn

\* WorkerFramesServes: a frame is computed.
LEMMA WorkerFramesServes == ASSUME SessionInv, WorkerFrames PROVE Serves
<1>1. /\ process = "up" /\ serving.phase = "running" /\ serving.fed
      /\ serving.frames < MaxFrames
      /\ Announces("stream_frame") /\ serving \in Serving
      /\ serving' = [serving EXCEPT !.frames = serving.frames + 1]
      /\ ControllerUnchanged /\ UNCHANGED <<inbox, process, disturbed>>
  BY WorkerBasics DEF WorkerFrames, Runs
<1>2. /\ serving' \in Serving /\ serving'.id = serving.id
      /\ serving'.phase = serving.phase
  BY <1>1, SessionAssumption DEF Serving
<1>3. serving.id # None /\ (track.id # None => serving.id # track.id)
  BY <1>1, WorkerBasics
<1>4. PICK line \in Line : Says(line) /\ Fresh(line)
  BY <1>1, <1>3, Events
<1>5. QED
  BY <1>1, <1>2, <1>3, <1>4, Speaks, WorkerBasics DEF GoesOn

\* WorkerCommitsServes: the operation ends or fails, which is not said yet.
LEMMA WorkerCommitsServes == ASSUME SessionInv, WorkerCommits PROVE Serves
<1>1. /\ serving.phase = "running" /\ serving \in Serving
      /\ ControllerUnchanged /\ UNCHANGED <<inbox, lines, process>>
  BY WorkerBasics DEF WorkerCommits
<1>2. /\ serving' \in Serving /\ serving'.id = serving.id /\ serving'.fed = serving.fed
      /\ serving'.phase = "committed" /\ serving'.chunks = serving.chunks
  <2>1. \/ serving' = [serving EXCEPT !.phase = "committed"]
        \/ serving' = [serving EXCEPT !.phase = "committed", !.outcome = "failed"]
    BY DEF WorkerCommits
  <2>2. CASE serving' = [serving EXCEPT !.phase = "committed"]
    BY <1>1, <2>2 DEF Serving
  <2>3. CASE serving' = [serving EXCEPT !.phase = "committed", !.outcome = "failed"]
    BY <1>1, <2>3 DEF Serving
  <2> QED
    BY <2>1, <2>2, <2>3
<1>3. disturbed' \in 0..MaxDisturbances
  BY WorkerBasics, SessionAssumption DEF WorkerCommits, Disturbs
<1>4. QED
  BY <1>1, <1>2, <1>3, Quietly, WorkerBasics DEF GoesOn

\* WorkerRejectsServes: a deferred request is rejected.
LEMMA WorkerRejectsServes == ASSUME SessionInv, WorkerRejects PROVE Serves
<1>1. /\ serving.phase = "committed" /\ serving.deferred > 0
      /\ serving' = [serving EXCEPT !.deferred = serving.deferred - 1]
      /\ serving \in Serving
      /\ ControllerUnchanged /\ UNCHANGED <<inbox, process, disturbed>>
  BY WorkerBasics DEF WorkerRejects
<1>2. /\ serving' \in Serving /\ serving'.id = serving.id /\ serving'.fed = serving.fed
      /\ serving'.phase = serving.phase /\ serving'.chunks = serving.chunks
  BY <1>1 DEF Serving
<1>3. PICK code \in {"failed", "operation_not_found"} : Answers(Deferred, code)
  BY DEF WorkerRejects
<1> DEFINE line == [type |-> "reply", code |-> code, method |-> Deferred.method,
                    operation |-> serving.id]
<1>4. line \in Line /\ Says(line)
  BY <1>3, WorkerBasics DEF Line, Reply, Answers, Deferred, Methods
<1>5. serving.id # None /\ Deferred.method # "cancel"
  BY <1>1, WorkerBasics DEF Deferred
<1>6. Fresh(line)
  BY <1>5, WorkerBasics DEF Fresh, Terminal, OfStream
<1>7. QED
  BY <1>1, <1>2, <1>4, <1>6, Speaks, WorkerBasics DEF GoesOn

\* WorkerTerminalServes: the end of the operation is said.
LEMMA WorkerTerminalServes == ASSUME SessionInv, WorkerTerminal PROVE Serves
<1>1. /\ serving.phase = "committed" /\ serving \in Serving
      /\ serving' = [serving EXCEPT !.phase = "finishing"]
      /\ ControllerUnchanged /\ UNCHANGED <<inbox, process, disturbed>>
  BY WorkerBasics DEF WorkerTerminal
<1>2. /\ serving' \in Serving /\ serving'.id = serving.id /\ serving'.fed = serving.fed
      /\ serving'.phase = "finishing" /\ serving'.chunks = serving.chunks
  BY <1>1 DEF Serving
<1>3. serving.id # None
  BY <1>1, WorkerBasics
<1>4. \A o \in Operations : o = serving.id => Over(o)'
  BY <1>1, <1>2 DEF Over, SessionInv, OneStart
<1>5. PICK name \in {"stream_ended", "track_ended", "error"} : Announces(name)
  BY DEF WorkerTerminal
<1>6. PICK line \in Line : Says(line) /\ Fresh(line)
  BY <1>3, <1>4, <1>5, Events
<1>7. QED
  BY <1>1, <1>2, <1>6, Speaks, WorkerBasics DEF GoesOn

\* The operation is reset, or the process is gone and with it the operation.
LEMMA ResetServes == ASSUME SessionInv, WorkerFinishes \/ WorkerDies PROVE Serves
<1>1. /\ serving' = Idle /\ Idle \in Serving /\ ~Idle.fed /\ Idle.chunks = 0
  BY SessionAssumption DEF WorkerFinishes, WorkerDies, Idle, Serving
<1>2. /\ ControllerUnchanged /\ UNCHANGED <<inbox, lines>>
      /\ process = "up" /\ process' \in {"up", "crashed"}
  BY DEF WorkerFinishes, WorkerDies
<1>3. disturbed' \in 0..MaxDisturbances
  BY WorkerBasics, SessionAssumption DEF WorkerFinishes, WorkerDies, Disturbs
<1>4. QED
  BY <1>1, <1>2, <1>3, Quietly

\* ExitReportedServes: the watch thread reports the exit.
LEMMA ExitReportedServes == ASSUME SessionInv, ExitReported PROVE Serves
<1> DEFINE line == [type |-> "exited", clean |-> process = "exited"]
<1>1. /\ Says(line) /\ process' = "reaped" /\ client' = "gone"
      /\ UNCHANGED <<pc, batch, mode, available, status, ingress, stream, live,
                     track, loaded, expected, rejected, inbox, operations, heard,
                     pushed, serving, disturbed>>
  BY DEF ExitReported, sceneVars
<1>2. line \in Line
  BY DEF Line, Exited
<1>3. Fresh(line)
  BY <1>1 DEF Fresh, Terminal, OfStream
<1>4. /\ lines' \in Seq(Line) /\ Len(lines) <= Len(lines')
      /\ \A i \in DOMAIN lines' :
           (i \in DOMAIN lines /\ lines'[i] = lines[i]) \/ Fresh(lines'[i])
  BY <1>1, <1>2, <1>3, Said, WorkerBasics
<1>5. QED
  BY <1>1, <1>4, WorkerBasics DEF Serves, WorkerOK, GoesOn

\* WorkerServes: every step of the worker serves.
LEMMA WorkerServes == ASSUME SessionInv, WorkerRuns \/ WorkerDies PROVE Serves
BY WorkerStartsServes, RequestsServe, ShutdownServes, WorkerAppliesServes,
   WorkerCreditsServes, WorkerFramesServes, WorkerCommitsServes,
   WorkerRejectsServes, WorkerTerminalServes, ResetServes, ExitReportedServes
DEF WorkerRuns, MainThread, OperationThread

\* WorkerKeeps: every step of the worker keeps the invariant.
LEMMA WorkerKeeps == ASSUME SessionInv, WorkerRuns \/ WorkerDies PROVE SessionInv'
BY WorkerServes, ServesKeeps
-----------------------------------------------------------------------------
\* UnchangedKeeps: a stuttering step keeps the invariant.
LEMMA UnchangedKeeps == ASSUME SessionInv, UNCHANGED vars PROVE SessionInv'
<1>1. /\ UNCHANGED <<pc, batch, mode, available, pushed, lines, process, serving,
                     disturbed>>
      /\ UNCHANGED sessionVars
  BY DEF vars, sceneVars, workerVars
<1>2. Serves
  <2>1. \A i \in DOMAIN lines' : i \in DOMAIN lines /\ lines'[i] = lines[i]
    BY <1>1
  <2>2. QED
    BY <1>1, <2>1, WorkerBasics DEF Serves, sessionVars, WorkerOK, GoesOn
<1>3. QED
  BY <1>2, ServesKeeps

\* SessionInvariance: the inductive invariant of a session.
THEOREM SessionInvariance == Spec => []SessionInv
<1>1. Init => SessionInv
  BY InitKeeps
<1>2. SessionInv /\ [Next]_vars => SessionInv'
  <2> SUFFICES ASSUME SessionInv, [Next]_vars PROVE SessionInv'
    OBVIOUS
  <2>1. CASE PushChunk \/ FinishPcm
    BY <2>1, SourceKeeps
  <2>2. CASE SceneRemoved \/ InputModeChanged \/ SettingsEdited \/ StopWorker
    BY <2>2, SceneRemovedKeeps, InputModeChangedKeeps, SettingsEditedKeeps,
       StopWorkerKeeps
  <2>3. CASE Timer
    BY <2>3, PollBeginsKeeps, PollEndsKeeps, HandleLineKeeps,
       FirstFrameFailsKeeps, PresentationGoesOnKeeps, PresentationEndsKeeps,
       PresentationFailsKeeps DEF Timer
  <2>4. CASE WorkerRuns \/ WorkerDies
    BY <2>4, WorkerKeeps
  <2>5. CASE UNCHANGED vars
    BY <2>5, UnchangedKeeps
  <2>6. QED
    BY <2>1, <2>2, <2>3, <2>4, <2>5 DEF Next
<1>3. QED
  BY <1>1, <1>2, PTL DEF Spec

\* TypeCorrect: every variable of a session keeps to its values.
THEOREM TypeCorrect == Spec => []TypeOK
<1>1. SessionInv => TypeOK
  BY DEF SessionInv
<1>2. QED
  BY <1>1, SessionInvariance, PTL

\* AudioIsInOrder: the worker hears each Stream as one uninterrupted piece of
\* the source's PCM, in order and nothing twice, and stream_end follows the
\* last chunk, for every number of chunks, Streams and disturbances.
THEOREM AudioIsInOrder == Spec => []AudioInOrder
<1>1. SessionInv => AudioInOrder
  BY DEF SessionInv, Audio, AudioInOrder
<1>2. QED
  BY <1>1, SessionInvariance, PTL

\* OneOwnerAtATime: the presentation is that of the Stream which is wanted, no
\* Stream and track coexist, and a start meets a worker that is free.
THEOREM OneOwnerAtATime == Spec => []OneOwner
<1>1. SessionInv => OneOwner
  BY DEF SessionInv, Owner, OneStart, OneOwner, OneOperation
<1>2. QED
  BY <1>1, SessionInvariance, PTL
-----------------------------------------------------------------------------
(***************************************************************************)
(* The credit of a Stream is in one place, and a worker that keeps the     *)
(* contract is kept.                                                       *)
(***************************************************************************)

ChunkOf(request, o) == request.method = "stream_chunk" /\ request.operation = o
CreditOf(line, o) ==
  line.type = "event" /\ line.name = "stream_credit" /\ line.operation = o
StartReplyOf(line, o) ==
  line.type = "reply" /\ line.method = "stream_start" /\ line.operation = o
EventOf(line, o) == line.type = "event" /\ line.operation = o

\* Nothing of a Stream is on its way before its start was read.
StartIsFirst ==
  \A i \in DOMAIN inbox :
    inbox[i].method \in Starts /\ inbox[i].operation = stream.id /\ stream.id # None =>
      /\ stream.credit /\ ~stream.ready
      /\ \A j \in DOMAIN inbox : ~ChunkOf(inbox[j], stream.id)
      /\ \A j \in DOMAIN lines :
           ~CreditOf(lines[j], stream.id) /\ ~StartReplyOf(lines[j], stream.id)

\* No event follows the terminal one, also not where the Stream plays its tail.
LastWord ==
  /\ \A i, j \in DOMAIN lines :
       i < j /\ Terminal(lines[i]) => ~EventOf(lines[j], lines[i].operation)
  /\ stream.workerEnded => \A i \in DOMAIN lines : ~EventOf(lines[i], stream.id)

\* Events are of an operation that the controller has.
Expected ==
  CanRequest => \A i \in DOMAIN lines :
    lines[i].type = "event" => lines[i].operation \in {stream.id, track.id}

\* The track of a scene that is gone is canceled before its lines are handled.
Orphaned ==
  pc # "idle" /\ ~available /\ track.id # None => track.cancelRequested

CreditInv ==
  /\ StartIsFirst /\ OneCredit
  /\ LastWord /\ Expected /\ Orphaned
  /\ process # "up" => serving.id = None
  /\ rejected => expected \/ (stream.id = None /\ process # "up")
-----------------------------------------------------------------------------
(* What a handler of the controller does to the credit, and to what the    *)
(* worker still says.                                                      *)

\* Another request than a chunk, or none.
NoChunk ==
  \/ inbox' = inbox
  \/ \E request \in Request :
       request.method # "stream_chunk" /\ inbox' = Append(inbox, request)

Spends ==
  /\ stream.ready /\ stream.credit /\ ~stream'.credit
  /\ inbox' = Append(inbox, [method |-> "stream_chunk", operation |-> stream.id])

Takes(line) == lines # <<>> /\ line = Head(lines) /\ lines' = Tail(lines)

Credits ==
  /\ \E line \in Line : Takes(line) /\ CreditOf(line, stream.id)
  /\ stream'.credit /\ inbox' = inbox

Readies ==
  \/ stream'.ready = stream.ready
  \/ \E line \in Line : Takes(line) /\ StartReplyOf(line, stream.id)

Flow ==
  \/ stream'.id = None
  \/ StartsStream /\ stream'.credit /\ ~stream'.ready
  \/ /\ stream'.id = stream.id /\ Readies
     /\ \/ stream'.credit = stream.credit /\ NoChunk
        \/ Spends
        \/ Credits

\* The worker has said its last event of the operation.
Unheard(operation) == \A i \in DOMAIN lines' : ~EventOf(lines'[i], operation)

Dismissed ==
  /\ stream'.id # stream.id /\ stream.id # None => Unheard(stream.id) \/ ~CanRequest'
  /\ track'.id # track.id /\ track.id # None => Unheard(track.id) \/ ~CanRequest'
  /\ stream'.workerEnded => stream.workerEnded \/ Unheard(stream.id)

Marked ==
  /\ expected => expected' \/ (stream'.id = None /\ process # "up")
  /\ rejected' => rejected \/ expected'
  /\ rejected' /\ ~rejected => ~CanRequest \/ (track.cancelRequested /\ ~available)
  /\ track'.id = track.id /\ track.id # None /\ track.cancelRequested
       => track'.cancelRequested
  /\ track'.id \in {track.id, None} \/ available

\* A credit that is handled is not lost, as long as the worker runs the Stream.
CreditHandled ==
  \A line \in Line :
    Takes(line) /\ CreditOf(line, stream.id) /\ stream'.id = stream.id =>
      \/ Credits \/ expected' \/ stream'.stopRequested
      \/ serving.id # stream.id \/ stream.id = None

Effects == Handled /\ Flow /\ Dismissed /\ Marked
-----------------------------------------------------------------------------
(* Counting in a sequence. *)

Where(s, G) == {i \in DOMAIN s : s[i] \in G}
Count(s, G) == Cardinality(Where(s, G))

\* CountFinite: what is counted in a sequence is finite.
LEMMA CountFinite ==
  ASSUME NEW S, NEW s \in Seq(S), NEW G
  PROVE  IsFiniteSet(Where(s, G)) /\ Count(s, G) \in Nat
<1>1. DOMAIN s = 1..Len(s) /\ Len(s) \in Int
  OBVIOUS
<1>2. IsFiniteSet(1..Len(s)) /\ Where(s, G) \in SUBSET (1..Len(s))
  BY <1>1, FS_Interval DEF Where
<1>3. IsFiniteSet(Where(s, G))
  BY <1>2, FS_Subset
<1>4. QED
  BY <1>3, FS_CardinalityType DEF Count

\* CountAppend: one more, if the new element counts.
LEMMA CountAppend ==
  ASSUME NEW S, NEW s \in Seq(S), NEW e \in S, NEW G
  PROVE  Count(Append(s, e), G) = Count(s, G) + (IF e \in G THEN 1 ELSE 0)
<1> DEFINE t == Append(s, e)
<1>1. /\ Len(s) \in Nat /\ DOMAIN s = 1..Len(s) /\ DOMAIN t = 1..(Len(s) + 1)
      /\ \A i \in DOMAIN s : t[i] = s[i]
      /\ t[Len(s) + 1] = e
  BY Appended
<1> HIDE DEF t
<1>2. Len(s) + 1 \notin Where(s, G)
  BY <1>1 DEF Where
<1>3. CASE e \in G
  <2>1. Where(t, G) = Where(s, G) \cup {Len(s) + 1}
    BY <1>1, <1>3 DEF Where
  <2>2. QED
    BY <1>2, <1>3, <2>1, CountFinite, FS_AddElement DEF Count, t
<1>4. CASE e \notin G
  <2>1. Where(t, G) = Where(s, G)
    BY <1>1, <1>4 DEF Where
  <2>2. QED
    BY <1>4, <2>1, CountFinite DEF Count, t
<1>5. QED
  BY <1>3, <1>4

\* CountTail: one less, if the head counted.
LEMMA CountTail ==
  ASSUME NEW S, NEW s \in Seq(S), s # <<>>, NEW G
  PROVE  Count(s, G) = Count(Tail(s), G) + (IF Head(s) \in G THEN 1 ELSE 0)
<1> DEFINE t == Tail(s)
           later == Where(s, G) \ {1}
           shift == [i \in Where(t, G) |-> i + 1]
<1>1. /\ t \in Seq(S) /\ Len(s) \in Nat /\ Len(s) > 0 /\ DOMAIN s = 1..Len(s)
      /\ DOMAIN t = 1..(Len(s) - 1) /\ Head(s) = s[1]
      /\ \A i \in DOMAIN t : t[i] = s[i + 1]
  BY Behead
<1> HIDE DEF t
<1>2. shift \in Bijection(Where(t, G), later)
  <2>1. \A i \in Where(t, G) : i + 1 \in later
    BY <1>1 DEF Where
  <2>2. \A i, j \in Where(t, G) : shift[i] = shift[j] => i = j
    BY <1>1 DEF Where
  <2>3. ASSUME NEW j \in later PROVE \E i \in Where(t, G) : shift[i] = j
    <3>1. j \in 2..Len(s) /\ s[j] \in G
      BY <1>1 DEF Where
    <3>2. j - 1 \in DOMAIN t /\ t[j - 1] = s[j]
      BY <1>1, <3>1
    <3>3. j - 1 \in Where(t, G) /\ shift[j - 1] = j
      BY <3>1, <3>2 DEF Where
    <3>4. QED
      BY <3>3
  <2>4. shift \in [Where(t, G) -> later]
    BY <2>1
  <2>5. QED
    BY <2>2, <2>3, <2>4, Fun_IsBij
<1>3. Cardinality(later) = Count(t, G)
  <2>1. ExistsBijection(Where(t, G), later)
    BY <1>2 DEF ExistsBijection
  <2>2. IsFiniteSet(Where(t, G))
    BY <1>1, CountFinite
  <2>3. QED
    BY <2>1, <2>2, FS_Bijection DEF Count
<1>4. IsFiniteSet(Where(s, G)) /\ Count(s, G) \in Nat
  BY CountFinite
<1>5. 1 \in Where(s, G) <=> Head(s) \in G
  BY <1>1 DEF Where
<1>6. Cardinality(later) =
        IF 1 \in Where(s, G) THEN Count(s, G) - 1 ELSE Count(s, G)
  BY <1>4, FS_RemoveElement DEF Count
<1>7. QED
  BY <1>3, <1>4, <1>5, <1>6 DEF t

\* The requests and lines that OneCredit counts.
ChunksOf(o) == {request \in Request : ChunkOf(request, o)}
CreditsOf(o) == {line \in Line : CreditOf(line, o)}

\* Counted: the two cardinalities of OneCredit are counts.
LEMMA Counted ==
  ASSUME NEW requests \in Seq(Request), NEW said \in Seq(Line), NEW o
  PROVE  /\ Cardinality({i \in DOMAIN requests :
               /\ requests[i].method = "stream_chunk"
               /\ requests[i].operation = o}) = Count(requests, ChunksOf(o))
         /\ Cardinality({i \in DOMAIN said :
               /\ said[i].type = "event" /\ said[i].name = "stream_credit"
               /\ said[i].operation = o}) = Count(said, CreditsOf(o))
<1>1. \A i \in DOMAIN requests : requests[i] \in Request
  OBVIOUS
<1>2. \A i \in DOMAIN said : said[i] \in Line
  OBVIOUS
<1>3. {i \in DOMAIN requests : /\ requests[i].method = "stream_chunk"
                              /\ requests[i].operation = o} = Where(requests, ChunksOf(o))
  BY <1>1 DEF Where, ChunksOf, ChunkOf
<1>4. {i \in DOMAIN said : /\ said[i].type = "event" /\ said[i].name = "stream_credit"
                          /\ said[i].operation = o} = Where(said, CreditsOf(o))
  BY <1>2 DEF Where, CreditsOf, CreditOf
<1>5. QED
  BY <1>3, <1>4 DEF Count

\* Wanted: the Stream whose credit is counted.
Wanted ==
  stream.id # None /\ Runs(stream.id) /\ ~stream.stopRequested /\ ~expected
Total ==
  Count(inbox, ChunksOf(stream.id)) + serving.chunks
    + Count(lines, CreditsOf(stream.id)) + (IF stream.credit THEN 1 ELSE 0)

\* Sums: OneCredit is about one sum ...
LEMMA Sums ==
  ASSUME inbox \in Seq(Request), lines \in Seq(Line)
  PROVE  OneCredit <=> (Wanted => Total = 1)
BY Counted DEF OneCredit, ChunksToRead, CreditsToHandle, Wanted, Total

\* SumsNext: ... also in the next state.
LEMMA SumsNext ==
  ASSUME inbox' \in Seq(Request), lines' \in Seq(Line)
  PROVE  OneCredit' <=> (Wanted' => Total' = 1)
BY Counted DEF OneCredit, ChunksToRead, CreditsToHandle, Wanted, Total
-----------------------------------------------------------------------------
(* What a handler does keeps the credit. *)

\* LinesTaken: the lines after a handler were there before it, in this order.
LEMMA LinesTaken ==
  ASSUME lines \in Seq(Line),
         lines' = lines \/ (lines # <<>> /\ lines' = Tail(lines)),
         NEW i \in DOMAIN lines'
  PROVE  \E j \in DOMAIN lines :
           lines'[i] = lines[j] /\ j = (IF lines' = lines THEN i ELSE i + 1) /\ i \in Nat
<1>1. CASE lines' = lines
  BY <1>1
<1>2. CASE lines # <<>> /\ lines' = Tail(lines) /\ lines' # lines
  BY <1>2, Behead
<1>3. QED
  BY <1>1, <1>2

\* SameStream: what is known where the handler keeps the Stream.
LEMMA SameStream ==
  ASSUME SessionInv, Effects, stream'.id # None
  PROVE  /\ \/ StartsStream /\ stream'.credit /\ ~stream'.ready /\ stream'.id = operations + 1
            \/ /\ stream'.id = stream.id /\ Keeps /\ Readies
               /\ (stream'.credit = stream.credit /\ NoChunk) \/ Spends \/ Credits
         /\ operations \in Nat /\ stream.id <= operations /\ serving.id <= operations
<1>1. operations \in Nat /\ stream.id <= operations /\ serving.id <= operations
  BY DEF SessionInv, TypeOK, SessionOK, Owner, Blank, Known
<1>2. stream.id # operations + 1
  BY <1>1, Basics DEF Stream, Operations, None
<1>3. ~StartsTrack
  BY DEF StartsTrack
<1>4. StartsStream => stream'.id = operations + 1
  BY DEF StartsStream, Begins
<1>5. QED
  BY <1>1, <1>2, <1>3, <1>4 DEF Effects, Handled, Flow

\* StartIsFirstKept: a start is sent before anything else of its Stream.
LEMMA StartIsFirstKept ==
  ASSUME SessionInv, StartIsFirst, Effects,
         lines' = lines \/ (lines # <<>> /\ lines' = Tail(lines))
  PROVE  StartIsFirst'
<1> SUFFICES ASSUME NEW i \in DOMAIN inbox', inbox'[i].method \in Starts,
                    inbox'[i].operation = stream'.id, stream'.id # None
             PROVE  /\ stream'.credit /\ ~stream'.ready
                    /\ \A j \in DOMAIN inbox' : ~ChunkOf(inbox'[j], stream'.id)
                    /\ \A j \in DOMAIN lines' :
                         ~CreditOf(lines'[j], stream'.id)
                           /\ ~StartReplyOf(lines'[j], stream'.id)
  BY DEF StartIsFirst, ChunkOf, CreditOf, StartReplyOf
<1>1. SessionOK /\ Handled /\ lines \in Seq(Line) /\ inbox \in Seq(Request)
  BY WorkerBasics, Basics DEF Effects
<1>2. \A j \in DOMAIN lines' : \E k \in DOMAIN lines : lines'[j] = lines[k]
  BY <1>1, LinesTaken
<1>3. \A j \in DOMAIN inbox :
        inbox[j].operation \in Int /\ inbox[j].operation <= operations
  <2> SUFFICES ASSUME NEW j \in DOMAIN inbox
               PROVE  inbox[j].operation \in Int /\ inbox[j].operation <= operations
    OBVIOUS
  <2>1. inbox[j] \in Request
    BY <1>1, Element
  <2>2. inbox[j].operation \in Int
    BY <2>1 DEF Request, Operations, None
  <2>3. QED
    BY <2>2 DEF SessionInv, Known
<1>4. \A k \in DOMAIN lines : lines[k].type # "exited" => lines[k].operation <= operations
  BY DEF SessionInv, Known
<1>5. CASE StartsStream
  <2>1. /\ stream'.credit /\ ~stream'.ready /\ stream'.id = operations + 1
        /\ operations \in Nat
    BY <1>5, SameStream, Basics DEF StartsStream, Begins, Effects, Flow, Stream, Operations, None
  <2>2. ASSUME NEW j \in DOMAIN inbox' PROVE ~ChunkOf(inbox'[j], stream'.id)
    <3>1. CASE j \in DOMAIN inbox /\ inbox'[j] = inbox[j]
      BY <1>3, <2>1, <3>1 DEF ChunkOf
    <3>2. CASE inbox'[j].method = "stream_start"
      BY <3>2 DEF ChunkOf
    <3>3. ~Keeps
      BY <1>5, <2>1, Basics DEF Keeps, StartsStream, Begins, SessionOK
    <3>4. QED
      BY <1>1, <1>5, <3>1, <3>2, <3>3, Requests
  <2>3. ASSUME NEW j \in DOMAIN lines'
        PROVE  ~CreditOf(lines'[j], stream'.id) /\ ~StartReplyOf(lines'[j], stream'.id)
    <3>1. PICK k \in DOMAIN lines : lines'[j] = lines[k]
      BY <1>2
    <3>2. lines[k] \in Line
      BY <1>1, Element
    <3>3. lines[k].type # "exited" => lines[k].operation # operations + 1
      BY <1>4, <2>1, <3>2, Lines DEF Operations, None
    <3>4. QED
      BY <2>1, <3>1, <3>3 DEF CreditOf, StartReplyOf
  <2>4. QED
    BY <2>1, <2>2, <2>3
<1>6. CASE ~StartsStream
  <2>1. /\ stream'.id = stream.id /\ Keeps /\ Readies
        /\ (stream'.credit = stream.credit /\ NoChunk) \/ Spends \/ Credits
    BY <1>6, SameStream
  <2>2. ~StartsTrack
    BY DEF StartsTrack
  <2>3. ~Own(inbox'[i])
    BY DEF Own, Starts
  <2>4. i \in DOMAIN inbox /\ inbox'[i] = inbox[i]
    BY <1>1, <1>6, <2>2, <2>3, Requests
  <2>5. /\ stream.credit /\ ~stream.ready
        /\ \A j \in DOMAIN inbox : ~ChunkOf(inbox[j], stream.id)
        /\ \A j \in DOMAIN lines :
             ~CreditOf(lines[j], stream.id) /\ ~StartReplyOf(lines[j], stream.id)
    BY <2>1, <2>4 DEF StartIsFirst
  <2>6. \A line \in Line : Takes(line) => \E k \in DOMAIN lines : line = lines[k]
    BY <1>1, Behead DEF Takes
  <2>7. ~stream'.ready
    BY <2>1, <2>5, <2>6 DEF Readies
  <2>8. stream'.credit = stream.credit /\ NoChunk
    BY <2>1, <2>5, <2>6 DEF Spends, Credits
  <2>9. ASSUME NEW j \in DOMAIN inbox' PROVE ~ChunkOf(inbox'[j], stream.id)
    <3>1. CASE inbox' = inbox
      BY <2>5, <3>1
    <3>2. ASSUME NEW request \in Request, request.method # "stream_chunk",
                 inbox' = Append(inbox, request)
          PROVE  ~ChunkOf(inbox'[j], stream.id)
      <4>1. (j \in DOMAIN inbox /\ inbox'[j] = inbox[j]) \/ inbox'[j] = request
        BY <1>1, <3>2, Appended
      <4>2. QED
        BY <2>5, <3>2, <4>1 DEF ChunkOf
    <3>3. QED
      BY <2>8, <3>1, <3>2 DEF NoChunk
  <2>10. QED
    BY <1>2, <2>1, <2>5, <2>7, <2>8, <2>9
<1>7. QED
  BY <1>5, <1>6

\* OneCreditKept: the credit stays where it is, is spent on a chunk, or comes
\* back with the line that is handled.
LEMMA OneCreditKept ==
  ASSUME SessionInv, OneCredit, Effects, inbox' \in Seq(Request), lines' \in Seq(Line),
         UNCHANGED serving,
         lines' = lines \/ (lines # <<>> /\ lines' = Tail(lines)),
         CreditHandled
  PROVE  OneCredit'
<1> SUFFICES ASSUME Wanted' PROVE Total' = 1
  BY SumsNext
<1>1. /\ lines \in Seq(Line) /\ inbox \in Seq(Request) /\ serving \in Serving
      /\ stream \in Stream /\ stream' \in Stream /\ serving.chunks \in Nat
  BY WorkerBasics, Basics DEF Serving, Effects, Handled, SessionOK
<1>2. stream'.id # None /\ ~stream'.stopRequested /\ ~expected' /\ serving.id = stream'.id
  BY DEF Wanted, Runs
<1>3. /\ stream'.id = stream.id /\ Keeps
      /\ (stream'.credit = stream.credit /\ NoChunk) \/ Spends \/ Credits
  BY <1>2, SameStream
<1>4. Wanted
  <2>1. ~Quiet' /\ ~Quiet
    BY <1>2, <1>3 DEF Keeps, Quiet
  <2>2. ~expected
    BY <1>2 DEF Effects, Marked
  <2>3. QED
    BY <1>2, <1>3, <2>1, <2>2 DEF Wanted, Quiet, Runs
<1> DEFINE C == ChunksOf(stream.id)
           D == CreditsOf(stream.id)
<1>5. Total = 1
  BY <1>1, <1>4, Sums
<1>6. /\ Count(inbox, C) \in Nat /\ Count(lines, D) \in Nat
      /\ Count(inbox', C) \in Nat /\ Count(lines', D) \in Nat
  BY <1>1, CountFinite
<1>7. Total' = Count(inbox', C) + serving.chunks + Count(lines', D)
                 + (IF stream'.credit THEN 1 ELSE 0)
  BY <1>3 DEF Total, ChunksOf, CreditsOf
<1>8. Total = Count(inbox, C) + serving.chunks + Count(lines, D)
                 + (IF stream.credit THEN 1 ELSE 0)
  BY DEF Total
<1>9. Credits \/ Count(lines', D) = Count(lines, D)
  <2>1. SUFFICES ASSUME ~Credits, lines # <<>>, lines' = Tail(lines)
                 PROVE  Count(lines', D) = Count(lines, D)
    OBVIOUS
  <2>2. Head(lines) \in Line
    BY <1>1, <2>1, Behead
  <2>3. Takes(Head(lines))
    BY <2>1 DEF Takes
  <2>4. ~CreditOf(Head(lines), stream.id)
    BY <1>2, <1>3, <2>1, <2>2, <2>3 DEF CreditHandled
  <2>5. Head(lines) \notin D
    BY <2>4 DEF CreditsOf
  <2> HIDE DEF D
  <2>6. Count(lines, D) = Count(Tail(lines), D) + 0
    BY <1>1, <2>1, <2>5, CountTail
  <2>7. QED
    BY <1>6, <2>1, <2>6
<1>10. CASE Credits
  <2>1. PICK line \in Line : Takes(line) /\ CreditOf(line, stream.id)
    BY <1>10 DEF Credits
  <2>2. stream'.credit /\ inbox' = inbox
    BY <1>10 DEF Credits
  <2>3. Head(lines) \in D /\ lines # <<>> /\ lines' = Tail(lines)
    BY <2>1 DEF CreditsOf, Takes
  <2> HIDE DEF C, D
  <2>4. Count(lines, D) = Count(lines', D) + 1
    BY <1>1, <2>3, CountTail
  <2>5. QED
    BY <1>1, <1>5, <1>6, <1>7, <1>8, <2>2, <2>4, SMTT(30)
<1>11. CASE ~Credits /\ stream'.credit = stream.credit /\ NoChunk
  <2>1. CASE inbox' = inbox
    BY <1>5, <1>7, <1>8, <1>9, <1>11, <2>1
  <2>2. ASSUME NEW request \in Request, request.method # "stream_chunk",
               inbox' = Append(inbox, request)
        PROVE  Total' = 1
    <3>1. request \notin C
      BY <2>2 DEF ChunksOf, ChunkOf
    <3> HIDE DEF C, D
    <3>2. Count(inbox', C) = Count(inbox, C) + 0
      BY <1>1, <2>2, <3>1, CountAppend
    <3>3. Count(inbox', C) = Count(inbox, C)
      BY <1>6, <3>2
    <3>4. QED
      BY <1>5, <1>7, <1>8, <1>9, <1>11, <3>3
  <2>3. QED
    BY <1>11, <2>1, <2>2 DEF NoChunk
<1>12. CASE ~Credits /\ Spends
  <2> DEFINE request == [method |-> "stream_chunk", operation |-> stream.id]
  <2>1. request \in Request /\ request \in C
    BY <1>1 DEF Request, Methods, Stream, ChunksOf, ChunkOf
  <2>2. inbox' = Append(inbox, request) /\ stream.credit /\ ~stream'.credit
    BY <1>12 DEF Spends
  <2> HIDE DEF C, D, request
  <2>3. Count(inbox', C) = Count(inbox, C) + 1
    BY <1>1, <2>1, <2>2, CountAppend
  <2>4. QED
    BY <1>1, <1>5, <1>6, <1>7, <1>8, <1>9, <1>12, <2>2, <2>3, SMTT(30)
<1>13. QED
  BY <1>3, <1>10, <1>11, <1>12

\* SaidKept: what the worker said last is not of an operation that was given up.
LEMMA SaidKept ==
  ASSUME SessionInv, LastWord, Expected, Effects, UNCHANGED process,
         lines' = lines \/ (lines # <<>> /\ lines' = Tail(lines))
  PROVE  LastWord' /\ Expected'
<1>1. lines \in Seq(Line) /\ DOMAIN lines = 1..Len(lines)
  BY WorkerBasics
<1>2. ASSUME NEW i \in DOMAIN lines', NEW j \in DOMAIN lines',
             i < j, Terminal(lines'[i])
      PROVE  ~EventOf(lines'[j], lines'[i].operation)
  <2>1. PICK k \in DOMAIN lines : /\ lines'[i] = lines[k] /\ i \in Nat
                                 /\ k = (IF lines' = lines THEN i ELSE i + 1)
    BY <1>1, LinesTaken
  <2>2. PICK l \in DOMAIN lines : /\ lines'[j] = lines[l] /\ j \in Nat
                                 /\ l = (IF lines' = lines THEN j ELSE j + 1)
    BY <1>1, LinesTaken
  <2>3. k < l
    BY <1>2, <2>1, <2>2
  <2>4. QED
    BY <1>2, <2>1, <2>2, <2>3 DEF LastWord
<1>3. ASSUME stream'.workerEnded, NEW i \in DOMAIN lines'
      PROVE  ~EventOf(lines'[i], stream'.id)
  <2>1. PICK k \in DOMAIN lines : lines'[i] = lines[k]
    BY <1>1, LinesTaken
  <2>2. stream'.id # None
    BY <1>3 DEF Effects, Handled, Blank
  <2>3. stream'.id = stream.id
    BY <1>3, <2>2, SameStream DEF StartsStream, Begins
  <2>4. stream.workerEnded \/ Unheard(stream.id)
    BY <1>3 DEF Effects, Dismissed
  <2>5. QED
    BY <2>1, <2>3, <2>4 DEF LastWord, Unheard
<1>4. ASSUME CanRequest', NEW i \in DOMAIN lines', lines'[i].type = "event"
      PROVE  lines'[i].operation \in {stream'.id, track'.id}
  <2>1. PICK k \in DOMAIN lines : lines'[i] = lines[k]
    BY <1>1, LinesTaken
  <2>2. CanRequest
    BY <1>4 DEF CanRequest, Effects, Handled
  <2>3. lines'[i].operation \in {stream.id, track.id}
    BY <1>4, <2>1, <2>2 DEF Expected
  <2>4. /\ stream'.id # stream.id /\ stream.id # None => Unheard(stream.id)
        /\ track'.id # track.id /\ track.id # None => Unheard(track.id)
    BY <1>4 DEF Effects, Dismissed
  <2>5. lines'[i].operation # None
    BY <1>1, <1>4, <2>1, Element, Lines DEF Operations, None
  <2>6. /\ lines'[i].operation = stream.id => stream'.id = stream.id
        /\ lines'[i].operation = track.id => track'.id = track.id
    BY <1>4, <2>4, <2>5 DEF Unheard, EventOf
  <2>7. QED
    BY <2>3, <2>6
<1>5. LastWord'
  BY <1>2, <1>3 DEF LastWord, Terminal, EventOf
<1>6. Expected'
  BY <1>4 DEF Expected, CanRequest
<1>7. QED
  BY <1>5, <1>6

\* EffectsKeep: a handler with these effects keeps the invariant.
LEMMA EffectsKeep ==
  ASSUME SessionInv, CreditInv, Effects, UNCHANGED <<process, serving, available>>,
         lines' = lines \/ (lines # <<>> /\ lines' = Tail(lines)),
         pc' # "idle" /\ ~available /\ track'.id # None
           => pc # "idle" \/ track'.cancelRequested,
         CreditHandled
  PROVE  CreditInv'
<1>1. inbox' \in Seq(Request) /\ lines' \in Seq(Line)
  <2>1. inbox' \in Seq(Request)
    BY DEF Effects, Handled, SessionOK
  <2>2. lines' \in Seq(Line)
    BY WorkerBasics, Behead, SMTT(30)
  <2>3. QED
    BY <2>1, <2>2
<1>2. StartIsFirst' /\ OneCredit' /\ LastWord' /\ Expected'
  BY <1>1, StartIsFirstKept, OneCreditKept, SaidKept DEF CreditInv
<1>3. Orphaned'
  BY DEF CreditInv, Orphaned, Effects, Marked
<1>4. rejected' => expected' \/ (stream'.id = None /\ process' # "up")
  <2>1. CASE rejected /\ ~expected
    <3>1. stream.id = None /\ process # "up"
      BY <2>1 DEF CreditInv
    <3>2. stream'.id = None
      BY <3>1 DEF Effects, Handled, Keeps, StartsStream, StartsTrack, Begins, CanRequest
    <3>3. QED
      BY <3>1, <3>2
  <2>2. QED
    BY <2>1 DEF Effects, Marked
<1>5. QED
  BY <1>2, <1>3, <1>4 DEF CreditInv
-----------------------------------------------------------------------------
(* The handlers of the controller. *)

\* Plain: a handler that spends no credit, rejects nobody and keeps a track's
\* cancel.
LEMMA Plain ==
  ASSUME SessionInv, Handled, Dismissed, UNCHANGED <<expected, rejected>>,
         \/ stream'.id = None
         \/ /\ stream'.id = stream.id /\ stream'.ready = stream.ready
            /\ stream'.credit = stream.credit /\ NoChunk,
         track'.id \in {track.id, None} \/ available,
         track'.id = track.id /\ track.id # None /\ track.cancelRequested
           => track'.cancelRequested
  PROVE  Effects
BY DEF Effects, Flow, Marked, Readies

\* UntouchedEffects: a handler that returns early has them.
LEMMA UntouchedEffects ==
  ASSUME SessionInv, UNCHANGED process, UNCHANGED sessionVars PROVE Effects
<1>1. UNCHANGED <<stream, track, expected, rejected, inbox>>
  BY DEF sessionVars
<1>2. Handled /\ Dismissed /\ NoChunk
  BY <1>1, Untouched DEF Dismissed, NoChunk
<1>3. QED
  BY <1>1, <1>2, Plain

\* RejectEffects: a worker is rejected for the one reason there may be.
LEMMA RejectEffects ==
  ASSUME SessionInv, UNCHANGED process, Reject,
         rejected \/ ~CanRequest \/ (track.cancelRequested /\ ~available)
  PROVE  Effects
<1>1. Handled
  BY RejectHandled
<1>2. /\ stream' = NoStream /\ track' = NoTrack /\ expected'
  BY DEF Reject, ReleaseStream
<1>3. ~CanRequest'
  BY Shutdowns DEF Reject, CanRequest
<1>4. Flow /\ Dismissed /\ Marked
  BY <1>2, <1>3, Nothing DEF Flow, Dismissed, Marked
<1>5. QED
  BY <1>1, <1>4 DEF Effects

\* CancelHolds: a cancel leaves the credit of the Stream.
LEMMA CancelHolds ==
  ASSUME SessionInv, stream.id # None, CancelStream
  PROVE  /\ stream'.id = stream.id /\ stream'.ready = stream.ready
         /\ stream'.credit = stream.credit /\ stream'.workerEnded = stream.workerEnded
         /\ stream'.stopRequested /\ NoChunk
<1>1. /\ stream'.id = stream.id /\ stream'.ready = stream.ready
      /\ stream'.credit = stream.credit
  BY Basics DEF CancelStream, Stream
<1>2. NoChunk
  BY CancelsStream DEF NoChunk
<1>3. QED
  BY <1>1, <1>2, CancelsStream

\* FailStreamEffects: a failed Stream is released, or canceled (_fail_stream).
LEMMA FailStreamEffects ==
  ASSUME SessionInv, UNCHANGED process, stream.id # None,
         NEW cancelWorker \in BOOLEAN,
         ~cancelWorker => Over(stream.id) /\ Unheard(stream.id),
         FailStream(cancelWorker)
  PROVE  Effects
<1>1. CASE Reject /\ ~CanRequest
  BY <1>1, RejectEffects
<1>2. CASE ~(cancelWorker /\ ~stream.stopRequested /\ ~CanRequest)
  <2>1. UNCHANGED <<track, expected, rejected>>
    BY <1>2 DEF FailStream
  <2>2. \/ stream' = NoStream /\ Unheard(stream.id)
        \/ UNCHANGED <<stream, inbox>>
        \/ CancelStream
    BY <1>2 DEF FailStream
  <2>3. Handled
    BY FailStreamHandled
  <2>4. Dismissed
    BY <2>1, <2>2, CancelHolds, Nothing DEF Dismissed
  <2>5. \/ stream'.id = None
        \/ /\ stream'.id = stream.id /\ stream'.ready = stream.ready
           /\ stream'.credit = stream.credit /\ NoChunk
    BY <2>2, CancelHolds, Nothing DEF NoChunk
  <2>6. QED
    BY <2>1, <2>3, <2>4, <2>5, Plain
<1>3. QED
  BY <1>1, <1>2 DEF FailStream

\* StreamIsOverEffects: a Stream that is over leaves room for a track.
LEMMA StreamIsOverEffects ==
  ASSUME SessionInv, UNCHANGED process, stream.id # None, Over(stream.id),
         Unheard(stream.id), available, StreamIsOver
  PROVE  Effects
<1>1. stream' = NoStream /\ UNCHANGED <<expected, rejected>>
  BY DEF StreamIsOver, ReleaseStream
<1>2. Handled /\ track.id = None
  BY StreamIsOverHandled, Basics
<1>3. Dismissed
  BY <1>1, <1>2, Nothing DEF Dismissed
<1>4. QED
  BY <1>1, <1>2, <1>3, Nothing, Plain

\* EndedUnheard: nothing is heard of a Stream that the worker ended.
LEMMA EndedUnheard ==
  ASSUME SessionInv, LastWord, stream.workerEnded,
         lines' = lines \/ (lines # <<>> /\ lines' = Tail(lines))
  PROVE  Unheard(stream.id)
<1>1. lines \in Seq(Line)
  BY WorkerBasics
<1>2. QED
  BY <1>1, LinesTaken DEF Unheard, LastWord

\* PresentationStoppedEffects: a presentation stops, and so does its Stream.
LEMMA PresentationStoppedEffects ==
  ASSUME SessionInv, LastWord, UNCHANGED process, stream.id # None,
         lines' = lines \/ (lines # <<>> /\ lines' = Tail(lines)),
         NEW failed \in BOOLEAN,
         \/ Over(stream.id) /\ Unheard(stream.id)
         \/ failed /\ available
         \/ ~available /\ process # "up",
         PresentationStopped(failed)
  PROVE  Effects
<1>1. Handled
  BY PresentationStoppedHandled
<1>2. CASE ~available
  <2>1. stream' = NoStream /\ UNCHANGED <<track, expected, rejected, client>>
    BY <1>2 DEF PresentationStopped, ReleaseStream
  <2>2. Dismissed
    BY <1>2, <2>1, Nothing DEF Dismissed, CanRequest
  <2>3. QED
    BY <1>1, <2>1, <2>2, Nothing, Plain
<1>3. CASE available /\ failed
  <2>1. FailStream(~stream.workerEnded) /\ (~stream.workerEnded) \in BOOLEAN
    BY <1>3 DEF PresentationStopped
  <2>2. ~(~stream.workerEnded) => Over(stream.id) /\ Unheard(stream.id)
    BY Basics, EndedUnheard
  <2>3. QED
    BY <2>1, <2>2, FailStreamEffects
<1>4. CASE available /\ ~failed
  BY <1>4, StreamIsOverEffects DEF PresentationStopped
<1>5. QED
  BY <1>2, <1>3, <1>4

\* CancelTrackHolds: a track that is canceled stays canceled.
LEMMA CancelTrackHolds ==
  ASSUME SessionInv, track.id # None, NEW restart \in BOOLEAN, CancelTrack(restart)
  PROVE  track'.id = track.id /\ track'.cancelRequested
<1>1. track \in Track
  BY Basics
<1>2. CASE track.cancelRequested
  BY <1>1, <1>2 DEF CancelTrack, Track
<1>3. CASE ~track.cancelRequested
  BY <1>1, <1>3 DEF CancelTrack, Track
<1>4. QED
  BY <1>2, <1>3

\* TrackEffects: what is done for a track leaves the Stream, there is none.
LEMMA TrackEffects ==
  ASSUME SessionInv, Handled, track.id # None, stream' = stream,
         UNCHANGED <<expected, rejected>>,
         track'.id \in {track.id, None} \/ available,
         track'.id # track.id => Unheard(track.id) \/ ~CanRequest',
         track'.id = track.id /\ track.cancelRequested => track'.cancelRequested
  PROVE  Effects
<1>1. stream.id = None
  BY Basics
<1>2. Dismissed
  BY DEF Dismissed
<1>3. QED
  BY <1>1, <1>2, Plain

\* FailTrackEffects: a failed upload is canceled, or forgotten.
LEMMA FailTrackEffects ==
  ASSUME SessionInv, UNCHANGED process, track.id # None, FailTrack PROVE Effects
<1>1. Handled
  BY FailTrackHandled
<1>2. UNCHANGED <<stream, expected, rejected, client>>
  BY DEF FailTrack
<1>3. CASE CanCancelTrack
  <2>1. track' = [track EXCEPT !.cancelRequested = TRUE, !.restart = FALSE]
    BY <1>3 DEF FailTrack
  <2>2. track'.id = track.id /\ track'.cancelRequested
    BY <2>1, Basics DEF Track
  <2>3. QED
    BY <1>1, <1>2, <2>2, TrackEffects
<1>4. CASE ~CanCancelTrack
  <2>1. track' = NoTrack /\ ~CanRequest
    BY <1>4 DEF FailTrack, CanCancelTrack
  <2>2. QED
    BY <1>1, <1>2, <2>1, Nothing, TrackEffects DEF CanRequest
<1>5. QED
  BY <1>3, <1>4

\* TrackOverEffects: the track is over, and may be started again.
LEMMA TrackOverEffects ==
  ASSUME SessionInv, UNCHANGED process, track.id # None, Over(track.id),
         Unheard(track.id), TrackEnded \/ TrackFailed
  PROVE  Effects
<1>1. Handled
  BY TrackEndedHandled, TrackFailedHandled
<1>2. UNCHANGED <<stream, expected, rejected>>
  BY DEF TrackEnded, TrackFailed
<1>3. track'.id \in {track.id, None} \/ available
  BY Nothing DEF TrackEnded, TrackFailed
<1>4. track.id \in 0..operations /\ operations \in Nat
  BY Basics DEF Blank
<1>5. track'.id # track.id
  <2>1. CASE track' = NoTrack
    BY <2>1, Nothing
  <2>2. CASE EnsureTrack(mode, "ready")
    <3>1. "ready" \in Statuses
      BY DEF Statuses
    <3>2. track' = NoTrack \/ track'.id = operations + 1
      BY <2>2, <3>1, EnsuresTrack, Basics
    <3>3. QED
      BY <1>4, <3>2, Nothing
  <2>3. QED
    BY <2>1, <2>2 DEF TrackEnded, TrackFailed
<1>6. QED
  BY <1>1, <1>2, <1>3, <1>5, TrackEffects

\* ServeIngressEffects: the credit is spent on a chunk, and only then.
LEMMA ServeIngressEffects ==
  ASSUME SessionInv, UNCHANGED process, available, ServeIngress
  PROVE  Effects
<1>1. Handled
  BY ServeIngressHandled
<1>2. CASE UNCHANGED sessionVars
  BY <1>2, UntouchedEffects
<1>3. CASE UNCHANGED <<stream, track, inbox, expected, rejected>>
  BY <1>1, <1>3, Plain DEF Dismissed, NoChunk
<1>4. CASE stream.id = None /\ OpenStream
  <2>1. CASE ~CanRequest
    BY <1>3, <1>4, <2>1 DEF OpenStream
  <2>2. CASE CanRequest /\ track.id # None
    <3>1. CancelTrack(FALSE) /\ UNCHANGED <<stream, expected, rejected>>
      BY <1>4, <2>2 DEF OpenStream, TrackInTheWay
    <3>2. track'.id = track.id /\ track'.cancelRequested
      BY <2>2, <3>1, CancelTrackHolds
    <3>3. QED
      BY <1>1, <2>2, <3>1, <3>2, TrackEffects
  <2>3. CASE CanRequest /\ track.id = None /\ StartStream
    <3>1. /\ operations' = operations + 1
          /\ stream' = [NoStream EXCEPT !.id = operations', !.credit = TRUE]
          /\ UNCHANGED <<track, expected, rejected>>
      BY <2>3 DEF StartStream
    <3>2. stream'.id = operations + 1 /\ stream'.credit /\ ~stream'.ready
          /\ ~stream'.workerEnded
      BY <3>1 DEF NoStream
    <3>3. operations \in Nat
      BY Basics
    <3>4. StartsStream
      <4>1. ~Keeps
        BY <3>1, <3>3 DEF Keeps
      <4>2. ~StartsTrack
        BY <3>2, <3>3 DEF StartsTrack, None
      <4>3. QED
        BY <1>1, <4>1, <4>2 DEF Handled
    <3>5. Flow /\ Dismissed /\ Marked
      BY <1>4, <3>1, <3>2, <3>4 DEF Flow, Dismissed, Marked
    <3>6. QED
      BY <1>1, <3>5 DEF Effects
  <2>4. QED
    BY <1>2, <1>4, <2>1, <2>2, <2>3 DEF OpenStream, TrackInTheWay
<1>5. CASE stream.id # None /\ SendEnd
  <2>1. CASE CanRequest
    <3>1. /\ Send("stream_end", stream.id)
          /\ stream' = [stream EXCEPT !.endSent = TRUE]
          /\ UNCHANGED <<track, expected, rejected>>
      BY <1>5, <2>1 DEF SendEnd
    <3>2. /\ stream'.id = stream.id /\ stream'.ready = stream.ready
          /\ stream'.credit = stream.credit /\ stream'.workerEnded = stream.workerEnded
      BY <3>1, Basics DEF Stream
    <3>3. NoChunk
      BY <3>1, Basics, Appends DEF NoChunk, Methods, Stream
    <3>4. Dismissed
      BY <3>1, <3>2 DEF Dismissed
    <3>5. QED
      BY <1>1, <3>1, <3>2, <3>3, <3>4, Plain
  <2>2. CASE ~CanRequest
    BY <1>5, <2>2, FailStreamEffects DEF SendEnd
  <2>3. QED
    BY <2>1, <2>2
<1>6. CASE stream.id # None /\ stream.ready /\ stream.credit /\ SendChunk
  <2>1. CASE CanRequest
    <3>1. /\ Send("stream_chunk", stream.id)
          /\ stream' = [stream EXCEPT !.credit = FALSE]
          /\ UNCHANGED <<track, expected, rejected>>
      BY <1>6, <2>1 DEF SendChunk, CreditLeft
    <3>2. /\ stream'.id = stream.id /\ stream'.ready = stream.ready
          /\ ~stream'.credit /\ stream'.workerEnded = stream.workerEnded
      BY <3>1, Basics DEF Stream
    <3>3. Spends
      BY <1>6, <3>1, <3>2 DEF Spends, Send
    <3>4. Flow /\ Dismissed /\ Marked
      BY <3>1, <3>2, <3>3 DEF Flow, Readies, Dismissed, Marked
    <3>5. QED
      BY <1>1, <3>4 DEF Effects
  <2>2. CASE ~CanRequest
    BY <1>6, <2>2, FailStreamEffects DEF SendChunk
  <2>3. QED
    BY <2>1, <2>2
<1>7. QED
  BY <1>2, <1>3, <1>4, <1>5, <1>6 DEF ServeIngress

\* CancelOrphansEffects: the operations of a scene that is gone are canceled.
LEMMA CancelOrphansEffects ==
  ASSUME SessionInv, CreditInv, UNCHANGED <<process, lines>>, ~available, CancelOrphans
  PROVE  Effects /\ (track'.id # None => track'.cancelRequested)
<1>1. Handled
  BY CancelOrphansHandled
<1>2. CASE Reject /\ ~CanRequest
  BY <1>2, RejectEffects, Nothing DEF Reject
<1>3. CASE /\ UNCHANGED <<expected, rejected, client>>
           /\ IF track.id # None THEN CancelTrack(FALSE) /\ UNCHANGED stream
              ELSE IF stream.workerEnded
              THEN stream' = NoStream /\ UNCHANGED <<track, inbox>>
              ELSE IF stream.id # None /\ ~stream.stopRequested
              THEN CancelStream /\ UNCHANGED track
              ELSE UNCHANGED <<stream, track, inbox>>
  <2>1. CASE track.id # None
    <3>1. CancelTrack(FALSE) /\ stream' = stream
      BY <1>3, <2>1
    <3>2. track'.id = track.id /\ track'.cancelRequested
      BY <2>1, <3>1, CancelTrackHolds
    <3>3. QED
      BY <1>1, <1>3, <2>1, <3>1, <3>2, TrackEffects
  <2>2. CASE track.id = None
    <3>1. /\ track' = track
          /\ \/ stream.workerEnded /\ stream' = NoStream
             \/ stream.id # None /\ CancelStream
             \/ UNCHANGED <<stream, inbox>>
      BY <1>3, <2>2
    <3>2. Dismissed
      BY <3>1, CancelHolds, EndedUnheard, Nothing DEF Dismissed, CreditInv
    <3>3. \/ stream'.id = None
          \/ /\ stream'.id = stream.id /\ stream'.ready = stream.ready
             /\ stream'.credit = stream.credit /\ NoChunk
      BY <3>1, CancelHolds, Nothing DEF NoChunk
    <3>4. QED
      BY <1>1, <1>3, <2>2, <3>1, <3>2, <3>3, Plain
  <2>3. QED
    BY <2>1, <2>2
<1>4. QED
  BY <1>2, <1>3 DEF CancelOrphans, CanCancelTrack

\* ReplyIsOkEffects: a start that was accepted opens the Stream to its chunks.
LEMMA ReplyIsOkEffects ==
  ASSUME SessionInv, UNCHANGED process, NEW line \in Reply, Takes(line),
         line.operation = None => line.method = "shutdown", ReplyIsOk(line)
  PROVE  Effects
<1>1. Handled
  BY ReplyIsOkHandled
<1>2. CASE UNCHANGED sessionVars
  BY <1>2, UntouchedEffects
<1>3. CASE /\ line.method = "stream_start" /\ stream.id = line.operation
           /\ stream' = [stream EXCEPT !.ready = TRUE]
           /\ UNCHANGED <<track, expected, rejected, inbox>>
  <2>1. /\ stream'.id = stream.id /\ stream'.credit = stream.credit
        /\ stream'.workerEnded = stream.workerEnded
    BY <1>3, Basics DEF Stream
  <2>2. Readies /\ NoChunk
    BY <1>3 DEF Readies, StartReplyOf, Reply, Line, NoChunk
  <2>3. Flow /\ Dismissed /\ Marked
    BY <1>3, <2>1, <2>2 DEF Flow, Dismissed, Marked
  <2>4. QED
    BY <1>1, <2>3 DEF Effects
<1>4. CASE /\ track.id = line.operation /\ line.method = "track_start"
           /\ UNCHANGED <<stream, track, expected, rejected>>
  <2>1. track.id # None
    BY <1>4
  <2>2. QED
    BY <1>1, <1>4, <2>1, TrackEffects
<1>5. CASE track.id = line.operation /\ line.method = "track_start" /\ FailTrack
  BY <1>5, FailTrackEffects
<1>6. QED
  BY <1>2, <1>3, <1>4, <1>5 DEF ReplyIsOk

\* ReplyIsErrorEffects: only the upload of a scene that is gone is a violation.
LEMMA ReplyIsErrorEffects ==
  ASSUME SessionInv, Orphaned, pc = "lines", UNCHANGED process,
         NEW line \in Reply, line.code # "ok", line.operation # None,
         line.method = "cancel" =>
           /\ line.code \in {"ok", "operation_not_found"}
           /\ line.operation = stream.id /\ stream.id # None => stream.stopRequested,
         ReplyIsError(line)
  PROVE  Effects
<1>1. CASE UNCHANGED sessionVars
  BY <1>1, UntouchedEffects
<1>2. CASE track.id = line.operation /\ ~available /\ Reject
  <2>1. track.cancelRequested
    BY <1>2 DEF Orphaned
  <2>2. QED
    BY <1>2, <2>1, RejectEffects
<1>3. CASE track.id = line.operation /\ FailTrack
  BY <1>3, FailTrackEffects
<1>4. CASE /\ stream.id = line.operation
           /\ ~(stream.stopRequested /\ line.code = "operation_not_found")
           /\ FailStream(line.method # "cancel")
  <2>1. FailStream(TRUE)
    BY <1>4
  <2>2. QED
    BY <1>4, <2>1, FailStreamEffects
<1>5. QED
  BY <1>1, <1>2, <1>3, <1>4 DEF ReplyIsError

\* ReleaseEffects: an event that only releases its operation.
LEMMA ReleaseEffects ==
  ASSUME SessionInv, UNCHANGED process, NEW line, line.operation # None,
         line.name \in {"stream_ended", "track_ended", "error"} =>
           Over(line.operation) /\ Unheard(line.operation),
         Release(line)
  PROVE  Effects
<1>1. Handled
  BY ReleaseHandled
<1>2. CASE UNCHANGED sessionVars
  BY <1>2, UntouchedEffects
<1>3. CASE /\ line.name \in {"stream_ended", "track_ended", "error"}
           /\ UNCHANGED <<expected, rejected, inbox>>
           /\ track' = IF track.id = line.operation THEN NoTrack ELSE track
           /\ IF stream.id = line.operation THEN stream' = NoStream
              ELSE stream' = stream
  <2>1. Dismissed
    BY <1>3, Nothing DEF Dismissed
  <2>2. QED
    BY <1>1, <1>3, <2>1, Nothing, Plain DEF NoChunk
<1>4. QED
  BY <1>2, <1>3 DEF Release, ReleaseStream

\* StreamEndedEffects: the end of a Stream, at once or after the tail.
LEMMA StreamEndedEffects ==
  ASSUME SessionInv, LastWord, UNCHANGED process, stream.id # None, Over(stream.id),
         Unheard(stream.id), available, NEW line \in Line, Takes(line), StreamEnded
  PROVE  Effects
<1>1. lines' = lines \/ (lines # <<>> /\ lines' = Tail(lines))
  BY DEF Takes
<1>2. CASE StreamIsOver
  BY <1>2, StreamIsOverEffects
<1>3. CASE PresentationStopped(FALSE)
  BY <1>1, <1>3, PresentationStoppedEffects
<1>4. CASE /\ stream' = [stream EXCEPT !.workerEnded = TRUE]
           /\ UNCHANGED <<track, expected, rejected, inbox>>
  <2>1. /\ stream'.id = stream.id /\ stream'.ready = stream.ready
        /\ stream'.credit = stream.credit
    BY <1>4, Basics DEF Stream
  <2>2. Handled
    BY StreamEndedHandled
  <2>3. Dismissed /\ NoChunk
    BY <1>4, <2>1 DEF Dismissed, NoChunk
  <2>4. QED
    BY <1>4, <2>1, <2>2, <2>3, Plain
<1>5. QED
  BY <1>2, <1>3, <1>4 DEF StreamEnded

\* StreamEventEffects: the credit that comes back is the one that is missing.
LEMMA StreamEventEffects ==
  ASSUME SessionInv, LastWord, UNCHANGED process, stream.id # None, available,
         NEW line \in EventLine, Takes(line), line.operation = stream.id,
         line.name \in {"stream_ended", "track_ended", "error"} =>
           Over(stream.id) /\ Unheard(stream.id),
         StreamEvent(line.name)
  PROVE  Effects /\ (line.name = "stream_credit" => Credits \/ stream'.stopRequested)
<1> DEFINE name == line.name
<1>1. Handled /\ (~stream.stopRequested => live.id = stream.id)
  BY StreamEventHandled, Basics DEF PresentationFollowsStream
<1>2. line \in Line
  BY DEF Line
<1>3. CASE name = "error"
  <2>1. FailStream(FALSE)
    BY <1>1, <1>3 DEF StreamEvent
  <2>2. QED
    BY <1>3, <2>1, FailStreamEffects
<1>4. CASE name = "stream_ended"
  <2>1. StreamEnded
    BY <1>1, <1>4 DEF StreamEvent
  <2>2. QED
    BY <1>2, <1>4, <2>1, StreamEndedEffects
<1>5. CASE name \notin {"error", "stream_ended"}
  <2>1. /\ stream' = [stream EXCEPT
             !.credit = stream.credit \/ (name = "stream_credit" /\ ~stream.stopRequested)]
        /\ UNCHANGED <<track, expected, rejected, inbox>>
    BY <1>1, <1>5 DEF StreamEvent
  <2>2. /\ stream'.id = stream.id /\ stream'.ready = stream.ready
        /\ stream'.workerEnded = stream.workerEnded
        /\ stream'.stopRequested = stream.stopRequested
        /\ stream'.credit =
             (stream.credit \/ (name = "stream_credit" /\ ~stream.stopRequested))
    BY <2>1, Basics DEF Stream
  <2>3. Dismissed /\ NoChunk
    BY <2>1, <2>2 DEF Dismissed, NoChunk
  <2>4. CASE name = "stream_credit" /\ ~stream.stopRequested
    <3>1. Credits
      BY <1>2, <2>1, <2>2, <2>4 DEF Credits, CreditOf, EventLine
    <3>2. Flow /\ Marked
      BY <2>1, <2>2, <3>1 DEF Flow, Readies, Marked
    <3>3. QED
      BY <1>1, <2>3, <3>1, <3>2 DEF Effects
  <2>5. CASE ~(name = "stream_credit" /\ ~stream.stopRequested)
    <3>1. stream'.credit = stream.credit
      <4>1. stream.credit \in BOOLEAN
        BY Basics DEF Stream
      <4>2. QED
        BY <2>2, <2>5, <4>1
    <3>2. Effects
      BY <1>1, <2>1, <2>2, <2>3, <3>1, Plain
    <3>3. QED
      BY <2>2, <2>5, <3>2
  <2>6. QED
    BY <2>4, <2>5
<1>6. QED
  BY <1>3, <1>4, <1>5

\* AfterTheEnd: a terminal event that is handled is the last of its operation.
LEMMA AfterTheEnd ==
  ASSUME SessionInv, LastWord, NEW line, Takes(line), Terminal(line)
  PROVE  Unheard(line.operation)
<1>1. lines \in Seq(Line) /\ lines # <<>> /\ line = Head(lines) /\ lines' = Tail(lines)
  BY WorkerBasics DEF Takes
<1>2. /\ line = lines[1] /\ 1 \in DOMAIN lines /\ DOMAIN lines' = 1..(Len(lines) - 1)
      /\ \A i \in DOMAIN lines' : lines'[i] = lines[i + 1] /\ i + 1 \in DOMAIN lines
  BY <1>1, Behead
<1>3. ASSUME NEW i \in DOMAIN lines' PROVE ~EventOf(lines'[i], line.operation)
  <2>1. lines'[i] = lines[i + 1] /\ i + 1 \in DOMAIN lines /\ 1 < i + 1
    BY <1>2
  <2>2. QED
    BY <1>2, <2>1 DEF LastWord
<1>4. QED
  BY <1>3 DEF Unheard

\* EventEffects: an event of the operation that the controller has, or of none.
LEMMA EventEffects ==
  ASSUME SessionInv, CreditInv, UNCHANGED process, pc = "lines", batch > 0,
         NEW line, Takes(line), line.type = "event", ~rejected, Event(line)
  PROVE  Effects /\ CreditHandled
<1>1. /\ line = Head(lines) /\ line \in EventLine /\ line \in Line
      /\ line.operation \in Operations /\ line.operation # None
  BY HeadLine, Lines DEF Operations, None, Takes
<1>2. /\ line.name \in {"stream_ended", "track_ended", "error"} =>
           Over(line.operation) /\ Unheard(line.operation)
      /\ line.name \in {"stream_credit", "stream_frame", "stream_ended",
                        "track_ended", "error"}
      /\ line.name \in {"stream_credit", "stream_frame"} /\ track.id # None
           => line.operation # track.id
  BY <1>1, HeadLine, AfterTheEnd DEF Terminal, OfStream, EventLine, CreditInv
<1>3. CreditHandled \/ CreditOf(line, stream.id)
  BY DEF CreditHandled, Takes
<1>4. CASE expected /\ Release(line)
  <2>1. Effects
    BY <1>1, <1>2, <1>4, ReleaseEffects
  <2>2. CreditHandled
    BY <1>2, <1>3, <1>4 DEF CreditHandled, CreditOf, Release, sessionVars
  <2>3. QED
    BY <2>1, <2>2
<1>5. CASE line.operation \notin {track.id, stream.id} /\ Reject
  <2>1. ~CanRequest
    <3>1. 1 \in DOMAIN lines /\ line = lines[1]
      BY <1>1, HeadLine, Behead
    <3>2. QED
      BY <1>5, <3>1 DEF CreditInv, Expected
  <2>2. QED
    BY <1>3, <1>5, <2>1, RejectEffects DEF CreditOf
<1>6. CASE /\ line.operation \in {track.id, stream.id} /\ ~available /\ Release(line)
  <2>1. Effects
    BY <1>1, <1>2, <1>6, ReleaseEffects
  <2>2. ~Loud
    BY <1>6 DEF SessionInv, Owner, Roles
  <2>3. ASSUME CreditOf(line, stream.id) PROVE CreditHandled
    <3>1. stream' = stream
      BY <1>6, <2>3 DEF Release, sessionVars, CreditOf
    <3>2. CASE stream.stopRequested \/ stream.id = None
      BY <3>1, <3>2 DEF CreditHandled
    <3>3. CASE process # "up"
      BY <3>1, <3>3 DEF CreditHandled, CreditInv
    <3>4. QED
      BY <2>2, <3>2, <3>3 DEF Loud, Quiet
  <2>4. QED
    BY <1>3, <2>1, <2>3
<1>7. CASE /\ available /\ line.operation \in {track.id, stream.id}
           /\ line.name = "track_ended" /\ TrackEnded
  <2>1. CASE track.id # None
    <3>1. line.operation = track.id
      BY <1>1, <1>7, <2>1, Basics
    <3>2. QED
      BY <1>2, <1>3, <1>7, <2>1, <3>1, TrackOverEffects DEF CreditOf
  <2>2. CASE track.id = None
    <3>1. Handled /\ UNCHANGED <<stream, expected, rejected>>
      BY <1>1, <1>2, <1>7, <2>2, TrackEndedHandled DEF TrackEnded
    <3>2. stream.id # None
      BY <1>1, <1>7, <2>2
    <3>3. NoChunk
      <4>1. ~StartsTrack
        BY <3>1, <3>2 DEF StartsTrack
      <4>2. ~StartsStream
        BY <3>1, Basics DEF StartsStream, Begins, Blank
      <4>3. operations' = operations /\ operations \in Nat
        BY <3>1, <4>1, <4>2, Basics DEF Handled, Keeps
      <4>4. CASE EnsureTrack(mode, "ready")
        <5>1. "ready" \in Statuses
          BY DEF Statuses
        <5>2. inbox' = inbox
          BY <4>3, <4>4, <5>1, EnsuresTrack, Basics
        <5>3. QED
          BY <5>2 DEF NoChunk
      <4>5. CASE inbox' = inbox
        BY <4>5 DEF NoChunk
      <4>6. QED
        BY <1>7, <4>4, <4>5 DEF TrackEnded
    <3>4. Dismissed
      BY <2>2, <3>1 DEF Dismissed
    <3>5. QED
      BY <1>3, <1>7, <2>2, <3>1, <3>3, <3>4, Plain DEF CreditOf
  <2>3. QED
    BY <2>1, <2>2
<1>8. CASE /\ available /\ line.operation = track.id /\ line.name # "track_ended"
           /\ TrackFailed
  <2>1. track.id # None /\ line.operation # stream.id
    BY <1>1, <1>8, Basics
  <2>2. CASE line.name \in {"stream_ended", "error"}
    BY <1>2, <1>3, <1>8, <2>1, <2>2, TrackOverEffects DEF CreditOf
  <2>3. QED
    BY <1>2, <1>8, <2>1, <2>2
<1>9. CASE /\ available /\ line.operation = stream.id /\ StreamEvent(line.name)
  <2>1. Effects /\ (line.name = "stream_credit" => Credits \/ stream'.stopRequested)
    BY <1>1, <1>2, <1>9, StreamEventEffects DEF CreditInv
  <2>2. QED
    BY <1>3, <2>1 DEF CreditHandled, CreditOf
<1>10. QED
  BY <1>4, <1>5, <1>6, <1>7, <1>8, <1>9 DEF Event

\* ExitEffects: the report of the exit forgets everything.
LEMMA ExitEffects ==
  ASSUME SessionInv, UNCHANGED process, process # "up", NEW clean, Exit(clean)
  PROVE  Effects
<1>1. Handled
  BY ExitHandled
<1>2. stream' = NoStream /\ track' = NoTrack /\ rejected' = rejected
  BY DEF Exit, ReleaseStream
<1>3. Flow /\ Dismissed /\ Marked
  BY <1>2, Nothing DEF Flow, Dismissed, Marked, CanRequest
<1>4. QED
  BY <1>1, <1>3 DEF Effects

\* LineEffects: any line of the worker.
LEMMA LineEffects ==
  ASSUME SessionInv, CreditInv, HandleLine PROVE Effects /\ CreditHandled
<1> DEFINE line == Head(lines)
<1>1. batch > 0 /\ pc = "lines" /\ UNCHANGED process /\ Takes(line)
  BY HeadLine DEF HandleLine, TimerUnchanged, workerVars, Takes
<1>2. line \in Line /\ line.type \in {"event", "reply", "exited"}
  BY <1>1, HeadLine, Lines
<1>3. CreditHandled \/ CreditOf(line, stream.id)
  BY DEF CreditHandled, Takes
<1>4. CASE line.type = "exited" /\ Exit(line.clean)
  BY <1>1, <1>3, <1>4, HeadLine, ExitEffects DEF CreditOf
<1>5. CASE line.type = "event" /\ ~rejected /\ Event(line)
  BY <1>1, <1>5, EventEffects
<1>6. CASE rejected /\ UNCHANGED sessionVars
  <2>1. CreditHandled
    BY <1>6 DEF CreditHandled, CreditInv, sessionVars
  <2>2. QED
    BY <1>1, <1>6, <2>1, UntouchedEffects
<1>7. CASE line.type = "reply" /\ UNCHANGED sessionVars
  BY <1>1, <1>3, <1>7, UntouchedEffects DEF CreditOf
<1>8. CASE line.type = "reply" /\ line.code = "ok" /\ ReplyIsOk(line)
  BY <1>1, <1>3, <1>8, HeadLine, Lines, ReplyIsOkEffects DEF CreditOf
<1>9. CASE line.type = "reply" /\ line.code # "ok" /\ ReplyIsError(line)
  BY <1>1, <1>3, <1>9, HeadLine, Lines, ReplyIsErrorEffects DEF CreditOf, CreditInv
<1>10. QED
  BY <1>2, <1>4, <1>5, <1>6, <1>7, <1>8, <1>9 DEF HandleLine
-----------------------------------------------------------------------------
(* The steps of the controller. *)

\* NoLineTaken: a step that takes no line keeps the invariant by its effects.
LEMMA NoLineTaken ==
  ASSUME SessionInv, CreditInv, Effects, UNCHANGED <<process, serving, available, lines>>,
         pc' # "idle" /\ ~available /\ track'.id # None
           => pc # "idle" \/ track'.cancelRequested
  PROVE  CreditInv'
<1>1. ~\E line \in Line : Takes(line)
  <2>1. lines \in Seq(Line)
    BY WorkerBasics
  <2>2. QED
    BY <2>1, Behead DEF Takes
<1>2. CreditHandled
  BY <1>1 DEF CreditHandled
<1>3. QED
  BY <1>2, EffectsKeep

\* PollBeginsCredit: a poll begins with the orphans and the ingress.
LEMMA PollBeginsCredit ==
  ASSUME SessionInv, CreditInv, PollBegins PROVE Effects /\ CreditInv'
<1>1. UNCHANGED <<process, serving, available, lines>>
  BY DEF PollBegins, TimerUnchanged, workerVars, sceneVars
<1>2. Effects /\ (~available /\ track'.id # None => track'.cancelRequested)
  BY <1>1, ServeIngressEffects, CancelOrphansEffects DEF PollBegins
<1>3. QED
  BY <1>1, <1>2, NoLineTaken

\* PollEndsCredit: a poll ends with the ingress.
LEMMA PollEndsCredit ==
  ASSUME SessionInv, CreditInv, PollEnds PROVE Effects /\ CreditInv'
<1>1. UNCHANGED <<process, serving, available, lines>> /\ pc = "lines"
  BY DEF PollEnds, TimerUnchanged, workerVars, sceneVars
<1>2. CASE available
  BY <1>1, <1>2, ServeIngressEffects, NoLineTaken DEF PollEnds
<1>3. CASE ~available
  <2>1. /\ ingress' = NoIngress
        /\ UNCHANGED <<status, stream, live, track, loaded, expected, rejected,
                       client, inbox, operations, heard>>
    BY <1>3 DEF PollEnds
  <2>2. Quiet \/ process # "up"
    BY <1>1, <1>3 DEF SessionInv, Owner, Roles, Loud
  <2>3. status' \in Statuses
    BY <2>1, Basics DEF SessionOK
  <2>4. Handled
    BY <1>1, <2>1, <2>2, <2>3, DropsAudio
  <2>5. Dismissed /\ NoChunk
    BY <2>1 DEF Dismissed, NoChunk
  <2>6. Effects
    BY <2>1, <2>4, <2>5, Plain
  <2>7. QED
    BY <1>1, <2>6, NoLineTaken
<1>4. QED
  BY <1>2, <1>3

\* HandleLineCredit: a poll handles one line.
LEMMA HandleLineCredit ==
  ASSUME SessionInv, CreditInv, HandleLine PROVE Effects /\ CreditInv'
<1>1. /\ UNCHANGED <<process, serving, available>> /\ pc = "lines"
      /\ lines # <<>> /\ lines' = Tail(lines)
  BY HeadLine DEF HandleLine, TimerUnchanged, workerVars, sceneVars
<1>2. Effects /\ CreditHandled
  BY LineEffects
<1>3. QED
  BY <1>1, <1>2, EffectsKeep

\* FirstFrameFailsCredit: the first frame cannot be presented.
LEMMA FirstFrameFailsCredit ==
  ASSUME SessionInv, CreditInv, FirstFrameFails PROVE Effects /\ CreditInv'
<1>1. /\ UNCHANGED <<process, serving, available>> /\ pc = "lines" /\ available
      /\ lines # <<>> /\ lines' = Tail(lines) /\ batch > 0
      /\ PresentationStopped(TRUE) /\ Head(lines).name = "stream_frame"
      /\ Head(lines).type = "event" /\ Head(lines).operation = live.id
  BY HeadLine DEF FirstFrameFails, TimerUnchanged, workerVars, sceneVars
<1>2. live.id # None
  BY <1>1, HeadLine, Lines DEF Operations, None
<1>3. stream.id # None
  BY <1>2, Basics DEF PresentationFollowsStream
<1>4. Effects
  BY <1>1, <1>3, PresentationStoppedEffects DEF CreditInv
<1>5. CreditHandled
  BY <1>1 DEF CreditHandled, Takes, CreditOf
<1>6. QED
  BY <1>1, <1>4, <1>5, EffectsKeep

\* TickCredit: the presentation goes on, ends or fails.
LEMMA TickCredit ==
  ASSUME SessionInv, CreditInv,
         PresentationGoesOn \/ PresentationEnds \/ PresentationFails
  PROVE  Effects /\ CreditInv'
<1>1. UNCHANGED <<process, serving, available, lines>> /\ pc = "tick" /\ pc' = "idle"
  BY DEF PresentationGoesOn, PresentationEnds, PresentationFails, Tick,
     TimerUnchanged, workerVars, sceneVars
<1>2. CASE PresentationGoesOn
  BY <1>1, <1>2, UntouchedEffects, NoLineTaken DEF PresentationGoesOn
<1>3. CASE PresentationEnds
  <2>1. live.id # None /\ PresentationStopped(FALSE)
    BY <1>3 DEF PresentationEnds
  <2>2. stream.id # None /\ ~stream.stopRequested
    BY <2>1, Basics DEF PresentationFollowsStream
  <2>3. (Over(stream.id) /\ Unheard(stream.id)) \/ (~available /\ process # "up")
    <3>1. CASE available
      BY <1>1, <1>3, <3>1, Basics, EndedUnheard DEF PresentationEnds, Blank, CreditInv
    <3>2. CASE ~available
      BY <1>1, <2>2, <3>2 DEF SessionInv, Owner, Roles, Loud, Quiet
    <3>3. QED
      BY <3>1, <3>2
  <2>4. Effects
    BY <1>1, <2>1, <2>2, <2>3, PresentationStoppedEffects DEF CreditInv
  <2>5. QED
    BY <1>1, <2>4, NoLineTaken
<1>4. CASE PresentationFails
  <2>1. live.frames /\ available /\ PresentationStopped(TRUE)
    BY <1>4 DEF PresentationFails
  <2>2. stream.id # None
    BY <2>1, Basics DEF PresentationFollowsStream, Blank
  <2>3. Effects
    BY <1>1, <2>1, <2>2, PresentationStoppedEffects DEF CreditInv
  <2>4. QED
    BY <1>1, <2>3, NoLineTaken
<1>5. QED
  BY <1>2, <1>3, <1>4

\* ModeEffects: a new mode cancels, or starts a track where nothing runs.
LEMMA ModeEffects == ASSUME SessionInv, InputModeChanged PROVE Effects
<1>1. /\ Handled /\ process' = process /\ available
      /\ UNCHANGED <<expected, rejected, client>>
  BY ModeHandled DEF InputModeChanged, Callback, workerVars
<1>2. CASE stream.id # None /\ CancelStream /\ track' = track
  <2>1. Dismissed
    BY <1>2, CancelHolds DEF Dismissed
  <2>2. QED
    BY <1>1, <1>2, <2>1, CancelHolds, Plain
<1>3. CASE UNCHANGED <<stream, track, inbox>>
  BY <1>1, <1>3, Plain DEF Dismissed, NoChunk
<1>4. CASE track.id # None /\ CancelTrack(mode' = "SELECTED") /\ stream' = stream
  <2>1. (mode' = "SELECTED") \in BOOLEAN
    OBVIOUS
  <2>2. track'.id = track.id /\ track'.cancelRequested
    BY <1>4, <2>1, CancelTrackHolds
  <2>3. QED
    BY <1>1, <1>4, <2>2, TrackEffects
<1>5. CASE stream.id = None /\ track.id = None /\ stream' = stream
  BY <1>1, <1>5, Plain DEF Dismissed
<1>6. QED
  BY <1>2, <1>3, <1>4, <1>5 DEF InputModeChanged

\* SettingsEffects: settings are sent to the Stream, or it fails.
LEMMA SettingsEffects == ASSUME SessionInv, SettingsEdited PROVE Effects
<1>1. process' = process /\ stream.id # None
  BY DEF SettingsEdited, Callback, workerVars
<1>2. CASE /\ Send("stream_settings", stream.id)
           /\ UNCHANGED <<status, ingress, stream, live, track, loaded,
                          expected, rejected, client, operations, heard>>
  <2>1. status' \in Statuses /\ heard' \in [Operations -> Seq(Chunks)] /\ KeepsAudio
    BY <1>2, Basics DEF SessionOK, KeepsAudio
  <2>2. Handled
    BY <1>1, <1>2, <2>1, SendsToStream, Basics
  <2>3. NoChunk
    BY <1>2, Basics, Appends DEF NoChunk, Methods, Stream
  <2>4. Dismissed
    BY <1>2 DEF Dismissed
  <2>5. QED
    BY <1>2, <2>2, <2>3, <2>4, Plain
<1>3. CASE FailStream(TRUE)
  BY <1>1, <1>3, FailStreamEffects
<1>4. QED
  BY <1>2, <1>3 DEF SettingsEdited

\* StopEffects: the worker is stopped by its user.
LEMMA StopEffects == ASSUME SessionInv, StopWorker PROVE Effects
<1>1. Handled /\ process' = process /\ rejected' = rejected
  BY StopWorkerHandled DEF StopWorker, Callback, workerVars
<1>2. CASE /\ client = "gone" /\ stream' = NoStream /\ track' = NoTrack
           /\ UNCHANGED <<expected, client>>
  <2>1. Dismissed
    BY <1>2, Nothing DEF Dismissed, CanRequest
  <2>2. QED
    BY <1>1, <1>2, <2>1, Nothing, Plain
<1>3. CASE UNCHANGED <<stream, track, expected, inbox>>
  BY <1>1, <1>3, Plain DEF Dismissed, NoChunk
<1>4. CASE /\ stream' = [stream EXCEPT !.stopRequested = stream.id # None]
           /\ expected' = TRUE /\ track' = track /\ BeginShutdown
  <2>1. /\ stream'.id = stream.id /\ stream'.ready = stream.ready
        /\ stream'.credit = stream.credit /\ stream'.workerEnded = stream.workerEnded
    BY <1>4, Basics DEF Stream
  <2>2. NoChunk
    BY <1>4, Shutdowns DEF NoChunk
  <2>3. Flow /\ Dismissed /\ Marked
    BY <1>1, <1>4, <2>1, <2>2 DEF Flow, Readies, Dismissed, Marked
  <2>4. QED
    BY <1>1, <2>3 DEF Effects
<1>5. QED
  BY <1>2, <1>3, <1>4 DEF StopWorker

\* CallbackCredit: the callbacks of the scene keep the invariant.
LEMMA CallbackCredit ==
  ASSUME SessionInv, CreditInv, InputModeChanged \/ SettingsEdited \/ StopWorker
  PROVE  Effects /\ CreditInv'
<1>1. /\ UNCHANGED <<process, serving, available, lines>> /\ pc' = "idle"
  BY DEF InputModeChanged, SettingsEdited, StopWorker, Callback, workerVars
<1>2. Effects
  BY ModeEffects, SettingsEffects, StopEffects
<1>3. QED
  BY <1>1, <1>2, NoLineTaken

\* SourceCredit: neither the source nor the removal of a scene touches it.
LEMMA SourceCredit ==
  ASSUME SessionInv, CreditInv, PushChunk \/ FinishPcm \/ SceneRemoved
  PROVE  CreditInv' /\ rejected' = rejected
<1>1. /\ UNCHANGED <<pc, stream, track, expected, rejected, client, inbox, lines,
                     process, serving>>
      /\ pc # "idle" => available' = available
  BY DEF PushChunk, FinishPcm, SceneRemoved, PcmUnchanged, sessionVars, sceneVars,
     workerVars
<1>2. StartIsFirst' /\ LastWord' /\ Expected' /\ Orphaned'
  BY <1>1 DEF CreditInv, StartIsFirst, LastWord, Expected, Orphaned, ChunkOf,
     CreditOf, StartReplyOf, EventOf, Terminal, CanRequest
<1>3. OneCredit'
  BY <1>1 DEF CreditInv, OneCredit, ChunksToRead, CreditsToHandle, Runs
<1>4. QED
  BY <1>1, <1>2, <1>3 DEF CreditInv
-----------------------------------------------------------------------------
(* The steps of the worker. *)

\* It answers the start that it reads, and says something of the operation
\* that it serves.
Utters(line) ==
  /\ line.type = "event" =>
       line.operation = serving.id /\ serving.phase \in {"running", "committed"}
  /\ line.type = "reply" /\ line.method = "stream_start" =>
       inbox # <<>> /\ Head(inbox).method = "stream_start" /\ inbox' = Tail(inbox)

\* Lines are added after the others, and at most one of them is an event.
Speech ==
  /\ \A i \in DOMAIN lines : i \in DOMAIN lines' /\ lines'[i] = lines[i]
  /\ \A i \in DOMAIN lines' \ DOMAIN lines : Utters(lines'[i])
  /\ \A i, j \in DOMAIN lines' \ DOMAIN lines :
       lines'[i].type = "event" => i = j

\* Spoken: one line more is said, which may be a credit.
LEMMA Spoken ==
  ASSUME SessionInv, NEW line \in Line, Says(line), Utters(line), NEW o
  PROVE  /\ Speech /\ lines' \in Seq(Line)
         /\ Count(lines', CreditsOf(o)) =
              Count(lines, CreditsOf(o)) + (IF CreditOf(line, o) THEN 1 ELSE 0)
<1>1. lines \in Seq(Line) /\ lines' = Append(lines, line)
  BY WorkerBasics DEF Says
<1>2. /\ lines' \in Seq(Line) /\ Len(lines) \in Nat
      /\ DOMAIN lines = 1..Len(lines) /\ DOMAIN lines' = 1..(Len(lines) + 1)
      /\ \A i \in DOMAIN lines : lines'[i] = lines[i]
      /\ lines'[Len(lines) + 1] = line
  BY <1>1, Appended
<1>3. \A i \in DOMAIN lines' \ DOMAIN lines : i = Len(lines) + 1
  BY <1>2
<1>4. Speech
  BY <1>2, <1>3 DEF Speech
<1>5. line \in CreditsOf(o) <=> CreditOf(line, o)
  BY DEF CreditsOf
<1>6. QED
  BY <1>1, <1>2, <1>4, <1>5, CountAppend

\* Silent: nothing more is said.
LEMMA Silent ==
  ASSUME UNCHANGED lines PROVE Speech
BY DEF Speech

\* Read: the request that was read is not in the inbox any more.
LEMMA Read ==
  ASSUME SessionInv, inbox # <<>>, inbox' = Tail(inbox), NEW o
  PROVE  /\ inbox' \in Seq(Request)
         /\ Count(inbox, ChunksOf(o)) = Count(inbox', ChunksOf(o))
              + (IF ChunkOf(Head(inbox), o) THEN 1 ELSE 0)
<1>1. inbox \in Seq(Request)
  BY WorkerBasics
<1>2. Head(inbox) \in Request /\ Tail(inbox) \in Seq(Request)
  BY <1>1, Behead
<1>3. Head(inbox) \in ChunksOf(o) <=> ChunkOf(Head(inbox), o)
  BY <1>2 DEF ChunksOf
<1>4. QED
  BY <1>1, <1>2, <1>3, CountTail

\* Balanced: what is counted in one place less is counted in another one more.
LEMMA Balanced ==
  ASSUME SessionInv, OneCredit, ControllerUnchanged,
         inbox' \in Seq(Request), lines' \in Seq(Line),
         Wanted' =>
           /\ Runs(stream.id)
           /\ Count(inbox', ChunksOf(stream.id)) + serving'.chunks
                + Count(lines', CreditsOf(stream.id))
              = Count(inbox, ChunksOf(stream.id)) + serving.chunks
                + Count(lines, CreditsOf(stream.id))
  PROVE  OneCredit'
<1> SUFFICES ASSUME Wanted' PROVE Total' = 1
  BY SumsNext
<1>1. stream' = stream /\ expected' = expected
  BY DEF ControllerUnchanged
<1>2. Wanted
  BY <1>1 DEF Wanted
<1>3. Total = 1
  BY <1>2, WorkerBasics, Sums
<1>4. ChunksOf(stream.id)' = ChunksOf(stream.id) /\ CreditsOf(stream.id)' = CreditsOf(stream.id)
  BY <1>1 DEF ChunksOf, CreditsOf
<1>5. Total' = Count(inbox', ChunksOf(stream.id)) + serving'.chunks
                 + Count(lines', CreditsOf(stream.id)) + (IF stream.credit THEN 1 ELSE 0)
  BY <1>1, <1>4 DEF Total
<1>6. QED
  BY <1>3, <1>5 DEF Total

\* ReplyUtters: a reply to the request that was read, which is no credit.
LEMMA ReplyUtters ==
  ASSUME SessionInv, inbox # <<>>, inbox' = Tail(inbox),
         NEW code \in {"ok", "busy", "operation_not_found", "failed"},
         Answers(Head(inbox), code), NEW o
  PROVE  /\ Speech /\ lines' \in Seq(Line)
         /\ Count(lines', CreditsOf(o)) = Count(lines, CreditsOf(o))
<1> DEFINE line == [type |-> "reply", code |-> code, method |-> Head(inbox).method,
                    operation |-> Head(inbox).operation]
<1>1. line \in Line /\ Says(line)
  BY HeadRequest DEF Line, Reply, Answers
<1>2. Utters(line) /\ ~CreditOf(line, o)
  BY DEF Utters, CreditOf
<1> HIDE DEF line
<1>3. Count(lines, CreditsOf(o)) \in Nat
  BY WorkerBasics, CountFinite
<1>4. QED
  BY <1>1, <1>2, <1>3, Spoken

\* What a step of the worker does to the credit.
Balances ==
  Speech /\ OneCredit' /\ (process' # "up" => serving'.id = None)

\* StartBalances: a Stream starts with its first credit at the controller.
LEMMA StartBalances ==
  ASSUME SessionInv, CreditInv, NEW method \in Starts, WorkerStarts(method)
  PROVE  Balances
<1>1. /\ inbox # <<>> /\ Head(inbox).method = method /\ inbox' = Tail(inbox)
      /\ ControllerUnchanged /\ process' = process /\ process = "up"
  BY DEF WorkerStarts, WorkerReads
<1>2. PICK code \in {"busy", "failed", "ok"} : Answers(Head(inbox), code)
  BY DEF WorkerStarts
<1>3. /\ Speech /\ lines' \in Seq(Line)
      /\ Count(lines', CreditsOf(stream.id)) = Count(lines, CreditsOf(stream.id))
  BY <1>1, <1>2, ReplyUtters
<1>4. /\ inbox' \in Seq(Request)
      /\ Count(inbox, ChunksOf(stream.id)) = Count(inbox', ChunksOf(stream.id)) + 0
  <2>1. ~ChunkOf(Head(inbox), stream.id)
    BY <1>1 DEF ChunkOf, Starts
  <2>2. QED
    BY <1>1, <2>1, Read
<1>5. Count(inbox', ChunksOf(stream.id)) \in Nat
  BY <1>4, CountFinite
<1>6. CASE serving' = serving
  <2>1. Wanted' => Runs(stream.id)
    BY <1>1, <1>6 DEF Wanted, Runs, ControllerUnchanged
  <2>2. OneCredit'
    BY <1>1, <1>3, <1>4, <1>5, <1>6, <2>1, Balanced DEF CreditInv
  <2>3. QED
    BY <1>1, <1>3, <2>2 DEF Balances
<1>7. CASE serving'.id = Head(inbox).operation /\ serving'.chunks = 0
  <2>1. ASSUME Wanted' PROVE Total' = 1
    <3>1. /\ stream' = stream /\ stream.id # None /\ Head(inbox).operation = stream.id
      BY <1>1, <1>7, <2>1 DEF Wanted, Runs, ControllerUnchanged
    <3>2. Head(inbox) = inbox[1] /\ 1 \in DOMAIN inbox
      BY <1>1, WorkerBasics, Behead
    <3>3. /\ stream.credit
          /\ \A j \in DOMAIN inbox : ~ChunkOf(inbox[j], stream.id)
          /\ \A j \in DOMAIN lines : ~CreditOf(lines[j], stream.id)
      BY <1>1, <3>1, <3>2 DEF CreditInv, StartIsFirst
    <3>4. Where(inbox, ChunksOf(stream.id)) = {} /\ Where(lines, CreditsOf(stream.id)) = {}
      BY <3>3 DEF Where, ChunksOf, CreditsOf
    <3>5. Count(inbox, ChunksOf(stream.id)) = 0 /\ Count(lines, CreditsOf(stream.id)) = 0
      BY <3>4, FS_EmptySet DEF Count
    <3>6. ChunksOf(stream.id)' = ChunksOf(stream.id) /\ CreditsOf(stream.id)' = CreditsOf(stream.id)
      BY <3>1 DEF ChunksOf, CreditsOf
    <3>7. Total' = Count(inbox', ChunksOf(stream.id)) + serving'.chunks
                     + Count(lines', CreditsOf(stream.id)) + 1
      BY <3>1, <3>3, <3>6 DEF Total
    <3>8. QED
      BY <1>3, <1>4, <1>5, <1>7, <3>5, <3>7
  <2>2. OneCredit'
    BY <1>3, <1>4, <2>1, SumsNext
  <2>3. QED
    BY <1>1, <1>3, <2>2 DEF Balances
<1>8. QED
  BY <1>6, <1>7 DEF WorkerStarts, Idle

\* TakeBalances: a chunk that was on its way is in the worker, unless its Stream
\* does not run.
LEMMA TakeBalances ==
  ASSUME SessionInv, CreditInv, NEW method \in Methods \ Starts, NEW accepted,
         accepted.id = serving.id, accepted.phase = serving.phase,
         serving.canceled => accepted.canceled,
         accepted.chunks = serving.chunks + (IF method = "stream_chunk" THEN 1 ELSE 0),
         WorkerTakes(method, accepted)
  PROVE  Balances
<1>1. /\ inbox # <<>> /\ Head(inbox).method = method /\ inbox' = Tail(inbox)
      /\ ControllerUnchanged /\ process' = process /\ process = "up"
  BY DEF WorkerTakes, WorkerReads
<1>2. /\ Speech /\ lines' \in Seq(Line)
      /\ Count(lines', CreditsOf(stream.id)) = Count(lines, CreditsOf(stream.id))
  <2>1. CASE lines' = lines
    BY <2>1, Silent, WorkerBasics
  <2>2. CASE lines' # lines
    <3>1. PICK code \in {"ok", "operation_not_found"} : Answers(Head(inbox), code)
      BY <2>2 DEF WorkerTakes
    <3>2. QED
      BY <1>1, <3>1, ReplyUtters
  <2>3. QED
    BY <2>1, <2>2
<1>3. /\ inbox' \in Seq(Request)
      /\ Count(inbox, ChunksOf(stream.id)) = Count(inbox', ChunksOf(stream.id))
           + (IF ChunkOf(Head(inbox), stream.id) THEN 1 ELSE 0)
  BY <1>1, Read
<1>4. /\ Count(inbox', ChunksOf(stream.id)) \in Nat /\ serving.chunks \in Nat
      /\ Count(lines, CreditsOf(stream.id)) \in Nat
  BY <1>3, WorkerBasics, CountFinite DEF Serving
<1>5. ASSUME Wanted'
      PROVE  /\ Runs(stream.id)
             /\ Count(inbox', ChunksOf(stream.id)) + serving'.chunks
                  + Count(lines', CreditsOf(stream.id))
                = Count(inbox, ChunksOf(stream.id)) + serving.chunks
                  + Count(lines, CreditsOf(stream.id))
  <2>1. /\ serving'.id = stream.id /\ serving'.phase = "running" /\ ~serving'.canceled
    BY <1>1, <1>5 DEF Wanted, Runs, ControllerUnchanged
  <2>2. CASE Runs(Head(inbox).operation) /\ serving' = accepted
    <3>1. Runs(stream.id) /\ Head(inbox).operation = stream.id
      BY <2>1, <2>2 DEF Runs
    <3>2. ChunkOf(Head(inbox), stream.id) <=> method = "stream_chunk"
      BY <1>1, <3>1 DEF ChunkOf
    <3>3. QED
      BY <1>2, <1>3, <1>4, <2>2, <3>1, <3>2
  <2>3. CASE ~Runs(Head(inbox).operation) /\ serving' = serving
    <3>1. Runs(stream.id)
      BY <2>1, <2>3 DEF Runs
    <3>2. ~ChunkOf(Head(inbox), stream.id)
      BY <2>3, <3>1 DEF ChunkOf
    <3>3. QED
      BY <1>2, <1>3, <1>4, <2>3, <3>1, <3>2
  <2>4. QED
    BY <2>2, <2>3 DEF WorkerTakes
<1>6. OneCredit'
  BY <1>1, <1>2, <1>3, <1>5, Balanced DEF CreditInv
<1>7. QED
  BY <1>1, <1>2, <1>6 DEF Balances

\* TakesBalance: a request that is taken, each with what it changes.
LEMMA TakesBalance ==
  ASSUME SessionInv, CreditInv,
         \/ WorkerTakes("stream_chunk", [serving EXCEPT !.chunks = @ + 1])
         \/ \E method \in DeferredMethods :
              WorkerTakes(method, [serving EXCEPT !.deferred = @ + 1])
         \/ WorkerTakes("stream_end", [serving EXCEPT !.end = TRUE, !.fed = TRUE])
         \/ WorkerTakes("cancel", [serving EXCEPT !.canceled = TRUE])
  PROVE  Balances
<1>1. /\ serving \in Serving /\ serving.chunks \in Nat
      /\ {"stream_chunk", "stream_settings", "track_chunk", "stream_end", "cancel"}
           \subseteq Methods \ Starts
  BY WorkerBasics DEF Serving, Methods, Starts
<1>2. CASE WorkerTakes("stream_chunk", [serving EXCEPT !.chunks = @ + 1])
  <2> DEFINE accepted == [serving EXCEPT !.chunks = @ + 1]
  <2>1. /\ accepted.id = serving.id /\ accepted.phase = serving.phase
        /\ accepted.canceled = serving.canceled /\ accepted.chunks = serving.chunks + 1
    BY <1>1 DEF Serving
  <2> HIDE DEF accepted
  <2>2. WorkerTakes("stream_chunk", accepted)
    BY <1>2 DEF accepted
  <2>3. QED
    BY <1>1, <2>1, <2>2, TakeBalances
<1>3. ASSUME NEW method \in DeferredMethods,
             WorkerTakes(method, [serving EXCEPT !.deferred = @ + 1])
      PROVE  Balances
  <2> DEFINE accepted == [serving EXCEPT !.deferred = @ + 1]
  <2>1. /\ accepted.id = serving.id /\ accepted.phase = serving.phase
        /\ accepted.canceled = serving.canceled /\ accepted.chunks = serving.chunks + 0
    BY <1>1 DEF Serving
  <2> HIDE DEF accepted
  <2>2. /\ WorkerTakes(method, accepted) /\ method \in {"stream_settings", "track_chunk"}
    BY <1>3 DEF accepted, DeferredMethods
  <2>3. QED
    BY <1>1, <2>1, <2>2, TakeBalances
<1>4. CASE WorkerTakes("stream_end", [serving EXCEPT !.end = TRUE, !.fed = TRUE])
  <2> DEFINE accepted == [serving EXCEPT !.end = TRUE, !.fed = TRUE]
  <2>1. /\ accepted.id = serving.id /\ accepted.phase = serving.phase
        /\ accepted.canceled = serving.canceled /\ accepted.chunks = serving.chunks + 0
    BY <1>1 DEF Serving
  <2> HIDE DEF accepted
  <2>2. WorkerTakes("stream_end", accepted)
    BY <1>4 DEF accepted
  <2>3. QED
    BY <1>1, <2>1, <2>2, TakeBalances
<1>5. CASE WorkerTakes("cancel", [serving EXCEPT !.canceled = TRUE])
  <2> DEFINE accepted == [serving EXCEPT !.canceled = TRUE]
  <2>1. /\ accepted.id = serving.id /\ accepted.phase = serving.phase
        /\ accepted.canceled /\ accepted.chunks = serving.chunks + 0
    BY <1>1 DEF Serving
  <2> HIDE DEF accepted
  <2>2. WorkerTakes("cancel", accepted)
    BY <1>5 DEF accepted
  <2>3. QED
    BY <1>1, <2>1, <2>2, TakeBalances
<1>6. QED
  BY <1>2, <1>3, <1>4, <1>5

\* CreditBalances: a chunk that is consumed comes back as a credit.
LEMMA CreditBalances ==
  ASSUME SessionInv, CreditInv, WorkerCredits PROVE Balances
<1>1. /\ process = "up" /\ process' = process /\ Runs(serving.id) /\ serving.chunks > 0
      /\ serving \in Serving /\ ControllerUnchanged /\ inbox' = inbox
      /\ Announces("stream_credit")
      /\ serving' = [serving EXCEPT !.chunks = serving.chunks - 1, !.fed = TRUE]
  BY WorkerBasics DEF WorkerCredits, Consumed
<1> DEFINE line == [type |-> "event", name |-> "stream_credit", operation |-> serving.id]
<1>2. /\ line \in Line /\ Says(line) /\ Utters(line)
      /\ CreditOf(line, stream.id) <=> serving.id = stream.id
  BY <1>1, WorkerBasics DEF Line, EventLine, Announces, Utters, Runs, CreditOf
<1> HIDE DEF line
<1>3. /\ Speech /\ lines' \in Seq(Line)
      /\ Count(lines', CreditsOf(stream.id)) = Count(lines, CreditsOf(stream.id))
           + (IF CreditOf(line, stream.id) THEN 1 ELSE 0)
  BY <1>2, Spoken
<1>4. /\ serving'.id = serving.id /\ serving'.chunks = serving.chunks - 1
      /\ serving.chunks \in Nat /\ inbox' \in Seq(Request)
      /\ Count(inbox, ChunksOf(stream.id)) \in Nat
      /\ Count(lines, CreditsOf(stream.id)) \in Nat
  BY <1>1, WorkerBasics, CountFinite DEF Serving
<1>5. Wanted' => serving.id = stream.id
  BY <1>1, <1>4 DEF Wanted, Runs, ControllerUnchanged
<1>6. OneCredit'
  <2> DEFINE toRead == Count(inbox, ChunksOf(stream.id))
             credits == Count(lines, CreditsOf(stream.id))
             creditsNext == Count(lines', CreditsOf(stream.id))
  <2>1. toRead \in Nat /\ credits \in Nat
    BY <1>4
  <2>2. ASSUME Wanted'
        PROVE  creditsNext = credits + 1 /\ Runs(stream.id)
    BY <1>1, <1>2, <1>3, <1>5, <2>2
  <2>3. toRead = Count(inbox', ChunksOf(stream.id))
    BY <1>1
  <2> HIDE DEF toRead, credits, creditsNext
  <2>4. ASSUME Wanted'
        PROVE  toRead + serving'.chunks + creditsNext = toRead + serving.chunks + credits
    BY <1>4, <2>1, <2>2, <2>4, SMTT(30)
  <2>5. OneCredit /\ ControllerUnchanged
    BY <1>1 DEF CreditInv
  <2>6. QED
    BY <1>3, <1>4, <2>2, <2>3, <2>4, <2>5, Balanced DEF toRead, credits, creditsNext
<1>7. QED
  BY <1>1, <1>3, <1>6 DEF Balances

\* OtherBalances: a step that reads nothing, consumes nothing and says no credit.
LEMMA OtherBalances ==
  ASSUME SessionInv, CreditInv, Speech, ControllerUnchanged, lines' \in Seq(Line),
         UNCHANGED inbox, process' # "up" => serving'.id = None,
         Count(lines', CreditsOf(stream.id)) = Count(lines, CreditsOf(stream.id)),
         \/ serving' = Idle
         \/ serving'.phase # "running" \/ serving'.canceled
         \/ /\ serving'.id = serving.id /\ serving'.phase = serving.phase
            /\ serving'.canceled = serving.canceled /\ serving'.chunks = serving.chunks
  PROVE  Balances
<1>1. Wanted' => Runs(stream.id) /\ serving'.chunks = serving.chunks
  BY DEF Wanted, Runs, ControllerUnchanged, Idle
<1>2. OneCredit'
  BY <1>1, WorkerBasics, Balanced DEF CreditInv
<1>3. QED
  BY <1>2 DEF Balances

\* NoCreditSaid: one line more, which is no credit.
LEMMA NoCreditSaid ==
  ASSUME SessionInv, NEW line \in Line, Says(line), Utters(line), ~CreditOf(line, stream.id)
  PROVE  /\ Speech /\ lines' \in Seq(Line)
         /\ Count(lines', CreditsOf(stream.id)) = Count(lines, CreditsOf(stream.id))
<1>1. Count(lines, CreditsOf(stream.id)) \in Nat
  BY WorkerBasics, CountFinite
<1>2. QED
  BY <1>1, Spoken

\* AppliesBalances: the settings that are applied at once are answered one by one.
LEMMA AppliesBalances ==
  ASSUME SessionInv, CreditInv, WorkerApplies PROVE Balances
<1> DEFINE reply == [type |-> "reply", code |-> "ok", method |-> Deferred.method,
                     operation |-> serving.id]
           replies == [i \in 1..serving.deferred |-> reply]
<1>1. /\ process = "up" /\ process' = process /\ lines' = lines \o replies
      /\ serving' = [serving EXCEPT !.deferred = 0] /\ serving \in Serving
      /\ ControllerUnchanged /\ inbox' = inbox /\ serving.deferred \in Nat
  BY WorkerBasics DEF WorkerApplies, Serving
<1>2. reply \in Line /\ reply.type = "reply" /\ reply.method # "stream_start"
  BY WorkerBasics DEF Line, Reply, Deferred, Methods
<1> HIDE DEF reply
<1>3. /\ replies \in Seq(Line) /\ Len(replies) = serving.deferred
      /\ \A i \in 1..serving.deferred : replies[i] = reply
  <2>1. serving.deferred \in Nat /\ reply \in Line
    BY <1>1, <1>2
  <2>2. QED
    BY <2>1
<1> HIDE DEF replies
<1>4. lines \in Seq(Line) /\ Len(lines) \in Nat /\ DOMAIN lines = 1..Len(lines)
  BY WorkerBasics
<1>5. /\ lines' \in Seq(Line) /\ DOMAIN lines' = 1..(Len(lines) + serving.deferred)
      /\ \A i \in 1..(Len(lines) + serving.deferred) : lines'[i] =
           IF i <= Len(lines) THEN lines[i] ELSE replies[i - Len(lines)]
  BY <1>1, <1>3, <1>4, ConcatProperties, SMTT(30)
<1>6. ASSUME NEW i \in DOMAIN lines' \ DOMAIN lines PROVE lines'[i] = reply
  <2>1. i - Len(lines) \in 1..serving.deferred /\ ~(i <= Len(lines))
    BY <1>1, <1>4, <1>5, SMTT(30)
  <2>2. QED
    BY <1>3, <1>5, <2>1
<1>7. \A i \in DOMAIN lines : i \in DOMAIN lines' /\ lines'[i] = lines[i]
  BY <1>1, <1>4, <1>5
<1>8. Speech
  BY <1>2, <1>6, <1>7 DEF Speech, Utters
<1>9. reply \notin CreditsOf(stream.id)
  BY <1>2 DEF CreditsOf, CreditOf
<1>10. Where(lines', CreditsOf(stream.id)) = Where(lines, CreditsOf(stream.id))
  BY <1>6, <1>7, <1>9 DEF Where
<1>11. /\ serving'.id = serving.id /\ serving'.phase = serving.phase
       /\ serving'.canceled = serving.canceled /\ serving'.chunks = serving.chunks
  BY <1>1 DEF Serving
<1>12. QED
  BY <1>1, <1>5, <1>8, <1>10, <1>11, OtherBalances DEF Count

\* FramesBalance: a frame is no credit.
LEMMA FramesBalance == ASSUME SessionInv, CreditInv, WorkerFrames PROVE Balances
<1>1. /\ process = "up" /\ process' = process /\ Runs(serving.id)
      /\ serving \in Serving /\ ControllerUnchanged /\ inbox' = inbox
      /\ Announces("stream_frame")
      /\ serving' = [serving EXCEPT !.frames = serving.frames + 1]
  BY WorkerBasics DEF WorkerFrames
<1> DEFINE line == [type |-> "event", name |-> "stream_frame", operation |-> serving.id]
<1>2. line \in Line /\ Says(line) /\ Utters(line) /\ ~CreditOf(line, stream.id)
  BY <1>1, WorkerBasics DEF Line, EventLine, Announces, Utters, Runs, CreditOf
<1>3. /\ serving'.id = serving.id /\ serving'.phase = serving.phase
      /\ serving'.canceled = serving.canceled /\ serving'.chunks = serving.chunks
  BY <1>1 DEF Serving
<1>4. QED
  BY <1>1, <1>2, <1>3, NoCreditSaid, OtherBalances

\* TerminalBalances: a Stream whose end is said does not run.
LEMMA TerminalBalances == ASSUME SessionInv, CreditInv, WorkerTerminal PROVE Balances
<1>1. /\ process = "up" /\ process' = process /\ serving.phase = "committed"
      /\ serving \in Serving /\ ControllerUnchanged /\ inbox' = inbox
      /\ serving' = [serving EXCEPT !.phase = "finishing"]
  BY WorkerBasics DEF WorkerTerminal
<1>2. PICK name \in {"stream_ended", "track_ended", "error"} : Announces(name)
  BY DEF WorkerTerminal
<1> DEFINE line == [type |-> "event", name |-> name, operation |-> serving.id]
<1>3. line \in Line /\ Says(line) /\ Utters(line) /\ ~CreditOf(line, stream.id)
  BY <1>1, <1>2, WorkerBasics DEF Line, EventLine, Announces, Utters, CreditOf
<1>4. serving'.phase # "running"
  BY <1>1 DEF Serving
<1>5. QED
  BY <1>1, <1>3, <1>4, NoCreditSaid, OtherBalances

\* RejectsBalance: a Stream that rejects requests does not run.
LEMMA RejectsBalance == ASSUME SessionInv, CreditInv, WorkerRejects PROVE Balances
<1>1. /\ process = "up" /\ process' = process /\ serving.phase = "committed"
      /\ serving \in Serving /\ ControllerUnchanged /\ inbox' = inbox
      /\ serving' = [serving EXCEPT !.deferred = serving.deferred - 1]
  BY WorkerBasics DEF WorkerRejects
<1>2. PICK code \in {"failed", "operation_not_found"} : Answers(Deferred, code)
  BY DEF WorkerRejects
<1> DEFINE line == [type |-> "reply", code |-> code, method |-> Deferred.method,
                    operation |-> serving.id]
<1>3. line \in Line /\ Says(line) /\ Utters(line) /\ ~CreditOf(line, stream.id)
  BY <1>2, WorkerBasics DEF Line, Reply, Answers, Deferred, Methods, Utters, CreditOf
<1>4. serving'.phase # "running"
  BY <1>1 DEF Serving
<1>5. QED
  BY <1>1, <1>3, <1>4, NoCreditSaid, OtherBalances

\* Steps that say nothing: the operation is stopped, committed or reset.
LEMMA SilentBalances ==
  ASSUME SessionInv, CreditInv,
         WorkerCommits \/ WorkerFinishes \/ WorkerStops \/ WorkerDies
  PROVE  Balances
<1>1. /\ ControllerUnchanged /\ UNCHANGED <<inbox, lines>> /\ serving \in Serving
  BY WorkerBasics DEF WorkerCommits, WorkerFinishes, WorkerStops, WorkerDies
<1>2. Speech /\ lines' \in Seq(Line)
  BY <1>1, Silent, WorkerBasics
<1>3. CASE WorkerFinishes \/ WorkerDies
  BY <1>1, <1>2, <1>3, OtherBalances DEF WorkerFinishes, WorkerDies, Idle
<1>4. CASE WorkerCommits \/ WorkerStops
  <2>1. process = "up" /\ process' = process
    BY <1>4 DEF WorkerCommits, WorkerStops, ShutdownRead
  <2>2. serving'.phase # "running" \/ serving'.canceled
    BY <1>1, <1>4 DEF WorkerCommits, WorkerStops, Serving
  <2>3. QED
    BY <1>1, <1>2, <2>1, <2>2, OtherBalances
<1>5. QED
  BY <1>3, <1>4

\* ExitBalances: a process that exits serves nothing.
LEMMA ExitBalances ==
  ASSUME SessionInv, CreditInv, WorkerExits \/ ExitReported PROVE Balances
<1>1. serving' = serving /\ serving.id = None /\ stream' = stream
  BY DEF WorkerExits, ExitReported, Idle, CreditInv, ControllerUnchanged
<1>2. Speech
  <2>1. CASE WorkerExits
    BY <2>1, ReplyUtters DEF WorkerExits, ShutdownRead
  <2>2. CASE ExitReported
    <3> DEFINE line == [type |-> "exited", clean |-> process = "exited"]
    <3>1. line \in Line /\ Says(line) /\ Utters(line)
      BY <2>2 DEF ExitReported, Line, Exited, Utters
    <3>2. QED
      BY <3>1, Spoken
  <2>3. QED
    BY <2>1, <2>2
<1>3. OneCredit'
  BY <1>1 DEF OneCredit, Runs
<1>4. QED
  BY <1>1, <1>2, <1>3 DEF Balances

\* WorkerBalances: every step of the worker keeps the sum.
LEMMA WorkerBalances ==
  ASSUME SessionInv, CreditInv, WorkerRuns \/ WorkerDies PROVE Balances
BY StartBalances, TakesBalance, CreditBalances, AppliesBalances, FramesBalance,
   TerminalBalances, RejectsBalance, SilentBalances, ExitBalances
DEF WorkerRuns, MainThread, OperationThread

\* StartIsFirstStays: a start that was not read is not answered, and nothing is
\* said of its operation.
LEMMA StartIsFirstStays ==
  ASSUME SessionInv, StartIsFirst, Serves, Speech PROVE StartIsFirst'
<1> SUFFICES ASSUME NEW i \in DOMAIN inbox', inbox'[i].method \in Starts,
                    inbox'[i].operation = stream.id, stream.id # None
             PROVE  /\ stream.credit /\ ~stream.ready
                    /\ \A j \in DOMAIN inbox' : ~ChunkOf(inbox'[j], stream.id)
                    /\ \A j \in DOMAIN lines' :
                         ~CreditOf(lines'[j], stream.id)
                           /\ ~StartReplyOf(lines'[j], stream.id)
  BY DEF StartIsFirst, Serves, ChunkOf, CreditOf, StartReplyOf
<1>1. SessionOK /\ inbox \in Seq(Request) /\ lines \in Seq(Line)
  BY WorkerBasics, Basics
<1>2. PICK k \in DOMAIN inbox :
        inbox'[i] = inbox[k] /\ k = IF inbox' = inbox THEN i ELSE i + 1
  BY <1>1, InboxKept DEF Serves
<1>3. /\ stream.credit /\ ~stream.ready
      /\ \A j \in DOMAIN inbox : ~ChunkOf(inbox[j], stream.id)
      /\ \A j \in DOMAIN lines :
           ~CreditOf(lines[j], stream.id) /\ ~StartReplyOf(lines[j], stream.id)
  BY <1>2 DEF StartIsFirst
<1>4. /\ serving.id # stream.id
      /\ \A j \in DOMAIN inbox : inbox[j].method \in Starts => k = j
  BY <1>2 DEF SessionInv, OneStart
<1>5. ~(inbox # <<>> /\ Head(inbox).method = "stream_start" /\ inbox' = Tail(inbox))
  <2> SUFFICES ASSUME inbox # <<>>, Head(inbox).method = "stream_start",
                      inbox' = Tail(inbox)
               PROVE  FALSE
    OBVIOUS
  <2>1. /\ 1 \in DOMAIN inbox /\ Head(inbox) = inbox[1] /\ i \in 1..(Len(inbox) - 1)
        /\ inbox' # inbox /\ Len(inbox) \in Nat
    BY <1>1, Behead
  <2>2. k = 1 /\ k = i + 1
    BY <1>2, <1>4, <2>1 DEF Starts
  <2>3. QED
    BY <2>1, <2>2
<1>6. ASSUME NEW j \in DOMAIN lines'
      PROVE  ~CreditOf(lines'[j], stream.id) /\ ~StartReplyOf(lines'[j], stream.id)
  <2>1. CASE j \in DOMAIN lines
    BY <1>3, <2>1 DEF Speech
  <2>2. CASE j \notin DOMAIN lines
    BY <1>4, <1>5, <2>2 DEF Speech, Utters, CreditOf, StartReplyOf
  <2>3. QED
    BY <2>1, <2>2
<1>7. \A j \in DOMAIN inbox' : ~ChunkOf(inbox'[j], stream.id)
  BY <1>1, <1>3, InboxKept DEF Serves
<1>8. QED
  BY <1>3, <1>6, <1>7

\* SaidStays: what is said is said of the operation that is served, which no
\* terminal event has ended and which the controller has.
LEMMA SaidStays ==
  ASSUME SessionInv, LastWord, Expected, Serves, Speech PROVE LastWord' /\ Expected'
<1>1. /\ lines \in Seq(Line) /\ lines' \in Seq(Line)
      /\ DOMAIN lines = 1..Len(lines) /\ DOMAIN lines' = 1..Len(lines')
      /\ Len(lines) \in Nat /\ Len(lines') \in Nat
  BY WorkerBasics DEF Serves, WorkerOK
<1>2. ASSUME NEW j \in DOMAIN lines' \ DOMAIN lines, lines'[j].type = "event"
      PROVE  /\ lines'[j].operation = serving.id /\ ~Over(serving.id)
             /\ serving.id \in 1..operations
  <2>1. lines'[j].operation = serving.id /\ serving.phase \in {"running", "committed"}
    BY <1>2 DEF Speech, Utters
  <2>2. serving.id \in 1..operations
    BY <2>1, WorkerBasics DEF Operations, None
  <2>3. QED
    BY <2>1, <2>2 DEF Over
<1>3. ASSUME NEW i \in DOMAIN lines', NEW j \in DOMAIN lines',
             i < j, Terminal(lines'[i])
      PROVE  ~EventOf(lines'[j], lines'[i].operation)
  <2>1. CASE i \in DOMAIN lines /\ j \in DOMAIN lines
    BY <1>3, <2>1 DEF LastWord, Speech
  <2>2. CASE i \in DOMAIN lines /\ j \notin DOMAIN lines
    <3>1. Over(lines'[i].operation)
      BY <1>3, <2>2 DEF SessionInv, GivenUp, Speech
    <3>2. QED
      BY <1>2, <2>2, <3>1 DEF EventOf
  <2>3. CASE i \notin DOMAIN lines /\ j \in DOMAIN lines
    BY <1>1, <1>3, <2>3
  <2>4. CASE i \notin DOMAIN lines /\ j \notin DOMAIN lines
    BY <1>1, <1>3, <2>4 DEF Speech, Terminal
  <2>5. QED
    BY <2>1, <2>2, <2>3, <2>4
<1>4. ASSUME stream.workerEnded, NEW i \in DOMAIN lines'
      PROVE  ~EventOf(lines'[i], stream.id)
  <2>1. Over(stream.id)
    BY <1>4 DEF SessionInv, GivenUp
  <2>2. QED
    BY <1>2, <1>4, <2>1 DEF LastWord, Speech, EventOf
<1>5. ASSUME CanRequest', NEW i \in DOMAIN lines', lines'[i].type = "event"
      PROVE  lines'[i].operation \in {stream.id, track.id}
  <2>1. CanRequest
    BY <1>5 DEF CanRequest, Serves
  <2>2. CASE i \in DOMAIN lines
    BY <1>5, <2>1, <2>2 DEF Expected, Speech
  <2>3. CASE i \notin DOMAIN lines
    BY <1>2, <1>5, <2>1, <2>3 DEF SessionInv, GivenUp
  <2>4. QED
    BY <2>2, <2>3
<1>6. stream' = stream /\ track' = track
  BY DEF Serves
<1>7. LastWord'
  BY <1>3, <1>4, <1>6 DEF LastWord, Terminal, EventOf
<1>8. Expected'
  BY <1>5, <1>6 DEF Expected, CanRequest
<1>9. QED
  BY <1>7, <1>8

\* WorkerCredit: every step of the worker keeps the invariant.
LEMMA WorkerCredit ==
  ASSUME SessionInv, CreditInv, WorkerRuns \/ WorkerDies
  PROVE  CreditInv' /\ rejected' = rejected
<1>1. Serves /\ Balances
  BY WorkerServes, WorkerBalances
<1>2. StartIsFirst' /\ OneCredit' /\ LastWord' /\ Expected'
  BY <1>1, StartIsFirstStays, SaidStays DEF CreditInv, Balances
<1>3. UNCHANGED <<pc, available, stream, track, expected, rejected>>
      /\ (process' = "up" => process = "up")
  BY <1>1 DEF Serves
<1>4. QED
  BY <1>1, <1>2, <1>3 DEF CreditInv, Orphaned, Balances
-----------------------------------------------------------------------------
\* UnchangedCredit: a stuttering step keeps the invariant.
LEMMA UnchangedCredit ==
  ASSUME SessionInv, CreditInv, UNCHANGED vars PROVE CreditInv' /\ rejected' = rejected
<1>1. UNCHANGED <<pc, available, stream, track, expected, rejected, client, inbox,
                  lines, process, serving>>
  BY DEF vars, sceneVars, sessionVars, workerVars
<1>2. StartIsFirst' /\ LastWord' /\ Expected' /\ Orphaned'
  BY <1>1 DEF CreditInv, StartIsFirst, LastWord, Expected, Orphaned, ChunkOf,
     CreditOf, StartReplyOf, EventOf, Terminal, CanRequest
<1>3. OneCredit'
  BY <1>1 DEF CreditInv, OneCredit, ChunksToRead, CreditsToHandle, Runs
<1>4. QED
  BY <1>1, <1>2, <1>3 DEF CreditInv

\* InitCredit: at first there is no Stream.
LEMMA InitCredit == Init => CreditInv
<1> SUFFICES ASSUME Init PROVE CreditInv
  OBVIOUS
<1>1. /\ inbox = <<>> /\ lines = <<>> /\ stream.id = None /\ ~stream.workerEnded
      /\ pc = "idle" /\ ~rejected /\ serving.id = None
  BY DEF Init, NoStream, Idle
<1>2. QED
  BY <1>1 DEF CreditInv, StartIsFirst, OneCredit, LastWord, Expected, Orphaned

\* Steps: what every step does to the invariant, and to a worker that is kept.
LEMMA Steps ==
  ASSUME SessionInv, CreditInv, [Next]_vars
  PROVE  CreditInv' /\ (Marked \/ rejected' = rejected)
<1>1. CASE PushChunk \/ FinishPcm \/ SceneRemoved
  BY <1>1, SourceCredit
<1>2. CASE InputModeChanged \/ SettingsEdited \/ StopWorker
  BY <1>2, CallbackCredit DEF Effects
<1>3. CASE Timer
  BY <1>3, PollBeginsCredit, PollEndsCredit, HandleLineCredit,
     FirstFrameFailsCredit, TickCredit DEF Timer, Effects
<1>4. CASE WorkerRuns \/ WorkerDies
  BY <1>4, WorkerCredit
<1>5. CASE UNCHANGED vars
  BY <1>5, UnchangedCredit
<1>6. QED
  BY <1>1, <1>2, <1>3, <1>4, <1>5 DEF Next

\* CreditInvariance: the credit's part of the inductive invariant.
THEOREM CreditInvariance == Spec => [](SessionInv /\ CreditInv)
<1>1. SessionInv /\ CreditInv /\ [Next]_vars => CreditInv'
  BY Steps
<1>2. QED
  BY <1>1, InitCredit, SessionInvariance, PTL DEF Spec

\* OneCreditAtATime: while a Stream runs, its credit is with the controller, in
\* a chunk on its way, with the worker or on its way back, and there is one.
THEOREM OneCreditAtATime == Spec => []OneCredit
<1>1. SessionInv /\ CreditInv => OneCredit
  BY DEF CreditInv
<1>2. QED
  BY <1>1, CreditInvariance, PTL

\* ConformantWorkersAreKept: no interleaving of edits, cancels, mode changes and
\* failures makes the controller take a worker's events for a violation of the
\* contract, but for an upload whose scene is gone.
THEOREM ConformantWorkersAreKept == Spec => ConformantWorkerIsKept
<1>1. SessionInv /\ CreditInv /\ [Next]_vars =>
        [rejected' /\ ~rejected
           => ~CanRequest \/ (track.cancelRequested /\ ~available)]_vars
  BY Steps DEF Marked
<1>2. QED
  BY <1>1, CreditInvariance, PTL DEF Spec, ConformantWorkerIsKept
=============================================================================
