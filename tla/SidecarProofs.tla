---------------------------- MODULE SidecarProofs ----------------------------
(***************************************************************************)
(* A client that says its worker is gone is right, and a worker is written *)
(* its own requests in their order, for every number of workers, requests  *)
(* and lines.                                                              *)
(***************************************************************************)
EXTENDS SidecarProperties, FiniteSetTheorems, TLAPS

\* Where the main thread can be.
Calls ==
  /\ process # None => process = spawned
  /\ pc \in {"wait", "terminated", "killed"} => closing
  /\ pc \in {"wait", "terminated", "killed", "close", "join"} => process # None
  /\ closing /\ pc \in {"shutdown", "request", "mark"} => process # None
  /\ pc \in {"put", "put_shutdown"} => process # None
  /\ pc \in {"spawn", "closed"} => process = None
  /\ pc \in {"ready", "put", "spawn"} => ~closing
  /\ pc = "spawn" \/ (pc \in {"close", "join"} /\ ~closing) =>
       spawned < MaxWorkers

\* What there is of each process.
Lives ==
  /\ \A p \in Workers : p > spawned =>
       /\ life[p] = "none" /\ accepted[p] = <<>> /\ delivered[p] = <<>>
       /\ writer[p] = "none" /\ reader[p] = "none" /\ watch[p] = "none"
  /\ \A p \in 1..spawned :
       /\ life[p] # "none"
       /\ writer[p] # "none" /\ reader[p] # "none" /\ watch[p] # "none"
       /\ life[p] = "running" => watch[p] = "wait"
  /\ closed \subseteq 1..spawned

\* What is left in a pipe was written.
Pipes == \A p \in Workers : unread[p] <= written[p]

\* A writer writes no sentinel.
Holding == \A p \in Workers : writer[p] = "write" => holds[p] # None

\* A process can survive the client's interest in it only as a killed one.
Survives(p) == KillExpires /\ signal[p] = "kill"

Gone ==
  /\ \A p \in 1..spawned : life[p] = "running" => p = process \/ Survives(p)
  /\ pc = "killed" /\ Running(process) => signal[process] = "kill"
  /\ pc \in {"close", "join"} /\ Running(process) => Survives(process)
  /\ state \in {"stopped", "failed"} => ~Running(process)

\* The worker has not been asked to shut down.
Unasked == Running(process) /\ state = "running" /\ pc # "mark"

\* A worker is asked to shut down once.
Numbered ==
  /\ NewRequest \in Nat \ {0}
  /\ UNION {Range(accepted[p]) : p \in Workers} = 1..(NewRequest - 1)
  /\ shutdowns \subseteq 1..(NewRequest - 1)
  /\ NewRequest - 1 <= limits.requests + Cardinality(shutdowns)
  /\ Cardinality(shutdowns) <= spawned
  /\ Unasked => Cardinality(shutdowns) < spawned
  /\ Running(process) /\ pc = "request" => Unasked
  /\ pc = "put" => NewRequest <= limits.requests + Cardinality(shutdowns)
  /\ pc = "put_shutdown" => Cardinality(shutdowns) < spawned

StopInv == TypeOK /\ Calls /\ Lives /\ Pipes /\ Holding /\ Gone /\ Numbered
-----------------------------------------------------------------------------
USE SidecarAssumption

\* MainTyped: the main thread keeps its types, and is where a call can be.
LEMMA MainTyped ==
  ASSUME StopInv, Next, UNCHANGED limits
  PROVE  MainOK' /\ Calls'
<1>1. MainOK /\ WorkersOK /\ Calls
  BY DEF StopInv, TypeOK
<1>2. CASE Request \/ Put \/ CloseStreams
  BY <1>1, <1>2 DEF MainOK, Calls, Request, Put, CloseStreams, Running,
     workerVars
<1>3. CASE Start \/ Stop \/ Close
  <2>1. CASE Start
    BY <1>1, <2>1 DEF MainOK, Calls, Start, workerVars
  <2>2. CASE Stop
    BY <1>1, <2>2 DEF MainOK, Calls, Stop, workerVars
  <2>3. CASE Close
    BY <1>1, <2>3 DEF MainOK, Calls, Close, Running, workerVars
  <2>4. QED
    BY <1>3, <2>1, <2>2, <2>3
<1>4. CASE Spawn
  BY <1>1, <1>4 DEF MainOK, WorkersOK, Calls, Spawn, None
<1>5. CASE BeginShutdown \/ RequestShutdown \/ MarkStopping
  BY <1>1, <1>5 DEF MainOK, Calls, BeginShutdown, RequestShutdown,
     MarkStopping, Return, Running, workerVars
<1>6. CASE Poll \/ Tick
  BY <1>1, <1>6 DEF MainOK, Calls, Poll, Tick, workerVars
<1>7. CASE Wait
  <2>1. /\ UNCHANGED <<closing, process, state, deadline, spawned>>
        /\ pc \in {"wait", "terminated", "killed"}
        /\ pc' \in {"close", "terminated", "killed"}
    BY <1>7 DEF Wait
  <2>2. QED
    BY <1>1, <2>1 DEF MainOK, Calls
<1>8. CASE Join
  BY <1>1, <1>8 DEF MainOK, Calls, Join, workerVars, None
<1>9. ASSUME NEW p \in 1..spawned, WatchThread(p)
      PROVE  MainOK' /\ Calls'
  BY <1>1, <1>9 DEF MainOK, Calls, WatchThread, WatchWaits, WatchJoins,
     WatchReports, mainVars, workerVars
<1>10. ASSUME NEW p \in 1..spawned,
              \/ WriterThread(p)
              \/ WriterWrites(p)
              \/ ReaderThread(p)
              \/ WorkerWrites(p)
              \/ WorkerExits(p)
       PROVE  MainOK' /\ Calls'
  <2>1. UNCHANGED <<pc, closing, process, state, deadline, spawned>>
    BY <1>10 DEF WriterThread, WriterGets, WriterFails, WriterWrites,
       ReaderThread, ReaderReads, ReaderRejects, ReaderEnds, WorkerWrites,
       WorkerExits, mainVars, workerVars
  <2>2. QED
    BY <1>1, <2>1 DEF MainOK, Calls
<1>11. QED
  BY <1>2, <1>3, <1>4, <1>5, <1>6, <1>7, <1>8, <1>9, <1>10
     DEF Next, Continues, Timer

\* WorkersTyped: the processes keep their types, and their pipes hold what they
\* wrote.
LEMMA WorkersTyped ==
  ASSUME StopInv, Next, UNCHANGED limits
  PROVE  WorkersOK' /\ Pipes'
<1>1. /\ WorkersOK /\ MainOK /\ Calls /\ Pipes /\ limits' = limits
      /\ limits.lines \in Nat
  BY DEF StopInv, TypeOK
<1>2. CASE Request \/ Put \/ Start \/ Stop \/ BeginShutdown
           \/ RequestShutdown \/ MarkStopping \/ Poll \/ Close \/ Join
  <2>1. UNCHANGED workerVars
    BY <1>2 DEF Request, Put, Start, Stop, BeginShutdown, RequestShutdown,
       MarkStopping, Poll, Close, Join
  <2>2. QED
    BY <1>1, <2>1 DEF workerVars, WorkersOK, Pipes
<1>3. CASE Spawn
  <2>1. CASE process' = spawned + 1
    <3>1. spawned < MaxWorkers /\ process' \in Workers
      BY <1>1, <1>3, <2>1 DEF Spawn, Calls, WorkersOK, Workers
    <3>2. life' \in [Workers -> {"none", "running", "exited"}]
      BY <1>1, <1>3 DEF Spawn, WorkersOK
    <3>3. spawned' \in 0..MaxWorkers
      BY <1>1, <1>3, <3>1 DEF Spawn, WorkersOK
    <3>4. QED
      BY <1>1, <1>3, <3>2, <3>3 DEF Spawn, WorkersOK, Pipes
  <2>2. CASE UNCHANGED <<spawned, life>>
    BY <1>1, <1>3, <2>2 DEF Spawn, WorkersOK, Pipes
  <2>3. QED
    BY <1>3, <2>1, <2>2 DEF Spawn
<1>4. CASE Tick \/ Wait
  <2>1. signal' \in [Workers -> {"none", "terminate", "kill"}]
    BY <1>1, <1>4 DEF Tick, Wait, Send, Escalation, WorkersOK
  <2>2. QED
    BY <1>1, <1>4, <2>1 DEF Tick, Wait, WorkersOK, Pipes
<1>5. CASE CloseStreams
  BY <1>1, <1>5 DEF CloseStreams, WorkersOK, Calls, MainOK, Workers, None, Pipes
<1>6. ASSUME NEW p \in 1..spawned,
             \/ WriterThread(p)
             \/ WriterWrites(p)
             \/ WatchThread(p)
             \/ ReaderEnds(p)
      PROVE  WorkersOK' /\ Pipes'
  <2>1. UNCHANGED workerVars
    BY <1>6 DEF WriterThread, WriterGets, WriterFails, WriterWrites,
       WatchThread, WatchWaits, WatchJoins, WatchReports, ReaderEnds
  <2>2. QED
    BY <1>1, <2>1 DEF workerVars, WorkersOK, Pipes
<1>7. ASSUME NEW p \in 1..spawned,
             ReaderReads(p) \/ ReaderRejects(p) \/ WorkerExits(p)
      PROVE  WorkersOK' /\ Pipes'
  <2>1. p \in Workers
    BY <1>1 DEF WorkersOK, Workers
  <2>2. CASE ReaderReads(p)
    BY <1>1, <2>1, <2>2, SMTT(30) DEF ReaderReads, WorkersOK, Pipes
  <2>3. CASE ReaderRejects(p)
    BY <1>1, <2>1, <2>3 DEF ReaderRejects, Send, WorkersOK, Pipes
  <2>4. CASE WorkerExits(p)
    BY <1>1, <2>1, <2>4 DEF WorkerExits, WorkersOK, Pipes
  <2>5. QED
    BY <1>7, <2>2, <2>3, <2>4
<1>8. ASSUME NEW p \in 1..spawned, WorkerWrites(p)
      PROVE  WorkersOK' /\ Pipes'
  BY <1>1, <1>8, SMTT(30) DEF WorkerWrites, WorkersOK, Workers, Pipes
<1>9. QED
  BY <1>2, <1>3, <1>4, <1>5, <1>6, <1>7, <1>8
     DEF Next, Continues, Timer, ReaderThread

\* ThreadsTyped: the threads keep their types.
LEMMA ThreadsTyped ==
  ASSUME StopInv, Next, UNCHANGED limits
  PROVE  ThreadsOK' /\ Holding'
<1>1. /\ ThreadsOK /\ Holding /\ WorkersOK /\ QueuesOK /\ limits' = limits
      /\ Requests' = Requests
  BY DEF StopInv, TypeOK, Requests
<1>2. CASE Request \/ Put \/ Start \/ Stop \/ BeginShutdown
           \/ RequestShutdown \/ MarkStopping \/ Poll \/ Tick \/ Close
           \/ Wait \/ CloseStreams \/ Join
  <2>1. UNCHANGED threadVars
    BY <1>2 DEF Request, Put, Start, Stop, BeginShutdown, RequestShutdown,
       MarkStopping, Poll, Tick, Close, Wait, CloseStreams, Join
  <2>2. QED
    BY <1>1, <2>1 DEF threadVars, ThreadsOK, Holding
<1>3. CASE Spawn
  BY <1>1, <1>3 DEF Spawn, ThreadsOK, Holding
<1>4. ASSUME NEW p \in 1..spawned, WriterGets(p)
      PROVE  ThreadsOK' /\ Holding'
  <2>1. Head(outgoing) \in {None} \cup Requests
    BY <1>1, <1>4 DEF WriterGets, QueuesOK
  <2>2. QED
    BY <1>1, <1>4, <2>1 DEF WriterGets, ThreadsOK, Holding
<1>5. ASSUME NEW p \in 1..spawned, WriterWrites(p)
      PROVE  ThreadsOK' /\ Holding'
  <2>1. Append(delivered[p], holds[p]) \in Seq(Requests)
    BY <1>1, <1>5 DEF WriterWrites, Holding, ThreadsOK, WorkersOK, Workers
  <2>2. QED
    BY <1>1, <1>5, <2>1 DEF WriterWrites, ThreadsOK, Holding
<1>6. ASSUME NEW p \in 1..spawned,
             \/ WriterFails(p)
             \/ ReaderThread(p)
             \/ WatchThread(p)
             \/ WorkerWrites(p)
             \/ WorkerExits(p)
      PROVE  ThreadsOK' /\ Holding'
  <2>1. /\ UNCHANGED <<delivered, holds>>
        /\ \/ UNCHANGED writer
           \/ writer' = [writer EXCEPT ![p] = "ended"]
        /\ \/ UNCHANGED reader
           \/ reader' = [reader EXCEPT ![p] = "ended"]
        /\ \/ UNCHANGED watch
           \/ \E next \in {"join", "report", "ended"} :
                watch' = [watch EXCEPT ![p] = next]
    BY <1>6 DEF WriterFails, ReaderThread, ReaderReads, ReaderRejects,
       ReaderEnds, WatchThread, WatchWaits, WatchJoins, WatchReports,
       WorkerWrites, WorkerExits, threadVars
  <2>2. QED
    BY <1>1, <2>1 DEF ThreadsOK, Holding
<1>7. QED
  BY <1>2, <1>3, <1>4, <1>5, <1>6 DEF Next, Continues, Timer, WriterThread

\* QueueGrows: a request takes the next number, whichever worker it is for.
LEMMA QueueGrows ==
  ASSUME StopInv, Put, UNCHANGED limits,
         NewRequest <= limits.requests + MaxWorkers
  PROVE  /\ accepted' \in [Workers -> Seq(Requests)]
         /\ outgoing' \in Seq({None} \cup Requests)
         /\ NewRequest \in Requests
         /\ UNION {Range(accepted'[p]) : p \in Workers} = 1..NewRequest
         /\ NewRequest' = NewRequest + 1
<1>1. /\ process \in Workers /\ NewRequest \in Requests
      /\ accepted \in [Workers -> Seq(Requests)]
      /\ outgoing \in Seq({None} \cup Requests)
  <2>1. process \in Workers
    BY DEF StopInv, TypeOK, MainOK, WorkersOK, Calls, Put, Workers, None
  <2>2. /\ limits.requests \in Nat /\ MaxWorkers \in Nat
        /\ NewRequest \in Nat \ {0}
    BY DEF StopInv, TypeOK, Numbered
  <2>3. NewRequest \in Requests
    BY <2>2 DEF Requests
  <2>4. QED
    BY <2>1, <2>3 DEF StopInv, TypeOK, QueuesOK
<1>2. /\ accepted' \in [Workers -> Seq(Requests)]
      /\ outgoing' \in Seq({None} \cup Requests)
  BY <1>1 DEF Put
<1>3. Range(accepted'[process]) = Range(accepted[process]) \cup {NewRequest}
  <2> DEFINE old == accepted[process]
             new == accepted'[process]
  <2>1. old \in Seq(Requests) /\ new = Append(old, NewRequest)
    BY <1>1 DEF Put
  <2>2. /\ DOMAIN old = 1..Len(old) /\ DOMAIN new = 1..(Len(old) + 1)
        /\ new[Len(old) + 1] = NewRequest /\ Len(old) \in Nat
        /\ \A i \in 1..Len(old) : new[i] = old[i]
    BY <1>1, <2>1
  <2>3. \A i \in DOMAIN new : i \in DOMAIN old \/ i = Len(old) + 1
    BY <2>2
  <2> HIDE DEF old, new
  <2>4. Range(new) = Range(old) \cup {NewRequest}
    BY <2>2, <2>3 DEF Range
  <2>5. QED
    BY <2>4 DEF old, new
<1>4. \A p \in Workers : p # process => accepted'[p] = accepted[p]
  BY <1>1 DEF Put
<1>5. UNION {Range(accepted'[p]) : p \in Workers}
        = (UNION {Range(accepted[p]) : p \in Workers}) \cup {NewRequest}
  <2>1. ASSUME NEW x, x \in UNION {Range(accepted'[p]) : p \in Workers}
        PROVE  x \in (UNION {Range(accepted[p]) : p \in Workers})
                       \cup {NewRequest}
    <3>1. PICK p \in Workers : x \in Range(accepted'[p])
      BY <2>1
    <3>2. QED
      BY <1>3, <1>4, <3>1
  <2>2. ASSUME NEW x, x \in (UNION {Range(accepted[p]) : p \in Workers})
                              \cup {NewRequest}
        PROVE  x \in UNION {Range(accepted'[p]) : p \in Workers}
    <3>1. CASE x = NewRequest
      BY <1>1, <1>3, <3>1
    <3>2. CASE x \in UNION {Range(accepted[p]) : p \in Workers}
      <4>1. PICK p \in Workers : x \in Range(accepted[p])
        BY <3>2
      <4>2. x \in Range(accepted'[p])
        BY <1>3, <1>4, <4>1
      <4>3. QED
        BY <4>1, <4>2
    <3>3. QED
      BY <2>2, <3>1, <3>2
  <2>3. QED
    BY <2>1, <2>2
<1>6. UNION {Range(accepted'[p]) : p \in Workers} = 1..NewRequest
  <2>1. /\ NewRequest \in Nat \ {0}
        /\ UNION {Range(accepted[p]) : p \in Workers} = 1..(NewRequest - 1)
    BY DEF StopInv, Numbered
  <2>2. (1..(NewRequest - 1)) \cup {NewRequest} = 1..NewRequest
    BY <2>1
  <2>3. QED
    BY <1>5, <2>1, <2>2
<1>7. NewRequest' = NewRequest + 1
  <2>1. NewRequest \in Nat \ {0}
    BY DEF StopInv, Numbered
  <2>2. Cardinality(1..NewRequest) = NewRequest
    BY <2>1, FS_Interval
  <2>3. Cardinality(UNION {Range(accepted'[p]) : p \in Workers}) = NewRequest
    BY <1>6, <2>2
  <2>4. NewRequest' = 1 + Cardinality(UNION {Range(accepted'[p]) : p \in Workers})
    BY DEF NewRequest
  <2>5. QED
    BY <2>1, <2>3, <2>4
<1>8. QED
  BY <1>1, <1>2, <1>6, <1>7

\* NumberKept: nothing else gives a number to a request.
LEMMA NumberKept ==
  ASSUME StopInv, UNCHANGED <<limits, accepted, shutdowns, spawned>>,
         Unasked' => Unasked, Running(process)' /\ pc' = "request" => Unasked',
         pc' = "put" => NewRequest <= limits.requests + Cardinality(shutdowns),
         pc' = "put_shutdown" => Cardinality(shutdowns) < spawned
  PROVE  Numbered'
BY DEF StopInv, Numbered, NewRequest

\* NumbersKept: the number of requests, and of those to shut down, is bounded.
LEMMA NumbersKept ==
  ASSUME StopInv, Next, UNCHANGED limits
  PROVE  Numbered' /\ accepted' \in [Workers -> Seq(Requests)]
                   /\ shutdowns' \subseteq Requests
<1>1. /\ limits.requests \in Nat /\ MaxWorkers \in Nat /\ spawned \in 0..MaxWorkers
      /\ Numbered /\ Calls /\ Lives /\ Gone /\ MainOK /\ WorkersOK
      /\ accepted \in [Workers -> Seq(Requests)] /\ shutdowns \subseteq Requests
  BY DEF StopInv, TypeOK, WorkersOK, QueuesOK
<1>2. IsFiniteSet(shutdowns) /\ Cardinality(shutdowns) \in Nat
  <2>1. IsFiniteSet(1..(NewRequest - 1))
    BY <1>1, FS_Interval DEF Numbered
  <2>2. IsFiniteSet(shutdowns)
    BY <1>1, <2>1, FS_Subset DEF Numbered
  <2>3. QED
    BY <2>2, FS_CardinalityType
<1>3. CASE Put /\ pc = "put"
  <2>1. /\ pc' = "ready"
        /\ UNCHANGED <<state, process, life, shutdowns, spawned>>
        /\ NewRequest <= limits.requests + Cardinality(shutdowns)
    BY <1>1, <1>3 DEF Put, Numbered, workerVars
  <2>2. NewRequest <= limits.requests + MaxWorkers
    BY <1>1, <1>2, <2>1 DEF Numbered
  <2>3. /\ NewRequest' = NewRequest + 1
        /\ accepted' \in [Workers -> Seq(Requests)]
        /\ UNION {Range(accepted'[p]) : p \in Workers} = 1..NewRequest
    BY <1>3, <2>2, QueueGrows
  <2>4. Numbered'
    BY <1>1, <1>2, <1>3, <2>1, <2>3 DEF Numbered, Running, Unasked
  <2>5. QED
    BY <1>1, <2>1, <2>3, <2>4
<1>4. CASE Put /\ pc = "put_shutdown"
  <2>1. /\ pc' = "mark" /\ shutdowns' = shutdowns \cup {NewRequest}
        /\ UNCHANGED <<state, process, life, spawned>>
    BY <1>4 DEF Put, workerVars
  <2>2. Cardinality(shutdowns) < spawned
    BY <1>1, <1>4 DEF Numbered
  <2>3. NewRequest <= limits.requests + MaxWorkers
    BY <1>1, <1>2, <2>2 DEF Numbered
  <2>4. /\ NewRequest' = NewRequest + 1 /\ NewRequest \in Requests
        /\ accepted' \in [Workers -> Seq(Requests)]
        /\ UNION {Range(accepted'[p]) : p \in Workers} = 1..NewRequest
    BY <1>4, <2>3, QueueGrows
  <2>5. Cardinality(shutdowns') = Cardinality(shutdowns) + 1
    <3>1. NewRequest \notin shutdowns
      BY <1>1 DEF Numbered
    <3>2. QED
      BY <1>2, <2>1, <3>1, FS_AddElement
  <2>6. Numbered'
    BY <1>1, <1>2, <2>1, <2>2, <2>4, <2>5 DEF Numbered, Running, Unasked
  <2>7. QED
    BY <1>1, <2>1, <2>4, <2>6
<1>5. CASE Spawn
  <2>1. Cardinality(shutdowns) <= spawned /\ UNCHANGED <<accepted, shutdowns>>
    BY <1>1, <1>5 DEF Numbered, Spawn, requestVars
  <2>2. CASE UNCHANGED <<spawned, process>>
    BY <1>1, <1>5, <2>1, <2>2, NumberKept DEF Spawn, Calls, Running, Unasked
  <2>3. CASE spawned' = spawned + 1
    <3>1. NewRequest' = NewRequest /\ pc' = "ready" /\ limits' = limits
      BY <1>5, <2>1 DEF Spawn, NewRequest
    <3>2. spawned \in Nat
      BY <1>1
    <3>3. QED
      BY <1>1, <1>2, <2>1, <2>3, <3>1, <3>2 DEF Numbered
  <2>4. QED
    BY <1>1, <1>5, <2>1, <2>2, <2>3 DEF Spawn
<1>6. CASE ~Put /\ ~Spawn
  <2>1. UNCHANGED <<accepted, shutdowns, spawned>>
    BY <1>6 DEF Next, Continues, Timer, WatchThread, WriterThread, ReaderThread,
       Request, Start, Stop, Close, BeginShutdown, RequestShutdown,
       MarkStopping, Wait,
       CloseStreams, Join, Poll, Tick, WatchWaits, WatchJoins, WatchReports,
       WriterGets, WriterFails, WriterWrites, ReaderReads, ReaderRejects,
       ReaderEnds, WorkerWrites, WorkerExits, requestVars, workerVars
  <2> DEFINE Kept ==
        /\ Unasked' => Unasked
        /\ Running(process)' /\ pc' = "request" => Unasked'
        /\ pc' = "put" => NewRequest <= limits.requests + Cardinality(shutdowns)
        /\ pc' = "put_shutdown" => Cardinality(shutdowns) < spawned
  <2>2. Kept
    <3>1. NewRequest \in Nat
      BY <1>1 DEF Numbered
    <3>2. CASE Request
      BY <1>1, <1>2, <3>1, <3>2 DEF Request, Running, Unasked, workerVars
    <3>3. CASE Start \/ Stop \/ Close \/ Poll \/ Tick \/ Wait \/ CloseStreams
      BY <1>1, <3>3 DEF Start, Stop, Close, Poll, Tick, Wait, CloseStreams,
         Running, Unasked, workerVars
    <3>4. CASE MarkStopping \/ Join
      BY <1>1, <3>4 DEF MarkStopping, Join, Running, Unasked, Return,
         workerVars, None
    <3>5. CASE BeginShutdown
      BY <1>1, <3>5 DEF BeginShutdown, Running, Unasked, Return, workerVars,
         MainOK, Gone
    <3>6. CASE RequestShutdown
      BY <1>1, <3>6 DEF RequestShutdown, Running, Unasked, workerVars, Numbered
    <3>7. ASSUME NEW p \in 1..spawned, WatchThread(p)
          PROVE  Kept
      BY <1>1, <3>7 DEF WatchThread, WatchWaits, WatchJoins, WatchReports,
         Watched, Running, Unasked, mainVars, workerVars, Numbered, Lives
    <3>8. ASSUME NEW p \in 1..spawned,
                 \/ WriterThread(p)
                 \/ WriterWrites(p)
                 \/ ReaderThread(p)
                 \/ WorkerWrites(p)
                 \/ WorkerExits(p)
          PROVE  Kept
      <4>1. /\ UNCHANGED mainVars
            /\ UNCHANGED life \/ life' = [life EXCEPT ![p] = "exited"]
        BY <3>8 DEF WriterThread, WriterGets, WriterFails, WriterWrites,
           ReaderThread, ReaderReads, ReaderRejects, ReaderEnds, WorkerWrites,
           WorkerExits, workerVars
      <4>2. Running(process)' => Running(process)
        BY <1>1, <4>1, SMTT(30) DEF Running, mainVars, MainOK, WorkersOK, Workers, None
      <4>3. QED
        BY <1>1, <4>1, <4>2 DEF Unasked, mainVars, Numbered
    <3>9. QED
      BY <1>6, <3>2, <3>3, <3>4, <3>5, <3>6, <3>7, <3>8
         DEF Next, Continues, Timer
  <2>3. Numbered'
    BY <2>1, <2>2, NumberKept
  <2>4. QED
    BY <1>1, <2>1, <2>3
<1>7. QED
  BY <1>3, <1>4, <1>5, <1>6 DEF Put

\* QueuesTyped: the queues keep their types.
LEMMA QueuesTyped ==
  ASSUME StopInv, Next, UNCHANGED limits
  PROVE  QueuesOK'
<1>1. /\ QueuesOK /\ Requests' = Requests
      /\ accepted' \in [Workers -> Seq(Requests)] /\ shutdowns' \subseteq Requests
      /\ 1..spawned \subseteq Workers
  BY NumbersKept DEF StopInv, TypeOK, WorkersOK, Workers, Requests
<1>2. CASE Put
  <2>1. /\ accepted'[process] = Append(accepted[process], NewRequest)
        /\ accepted[process] \in Seq(Requests)
        /\ accepted'[process] \in Seq(Requests)
    BY <1>1, <1>2 DEF Put, QueuesOK, StopInv, TypeOK, MainOK, Calls, None
  <2>2. accepted'[process][Len(accepted[process]) + 1] = NewRequest
    BY <2>1
  <2>3. NewRequest \in Requests
    BY <2>1, <2>2
  <2>4. QED
    BY <1>1, <1>2, <2>3 DEF Put, QueuesOK
<1>3. CASE Spawn
  BY <1>1, <1>3 DEF Spawn, QueuesOK
<1>4. CASE Poll
  BY <1>1, <1>4 DEF Poll, QueuesOK
<1>5. CASE CloseStreams
  BY <1>1, <1>5 DEF CloseStreams, QueuesOK
<1>6. CASE Request \/ Start \/ Stop \/ Close \/ BeginShutdown
           \/ RequestShutdown \/ MarkStopping \/ Wait \/ Join \/ Tick
  <2>1. UNCHANGED queueVars
    BY <1>6 DEF Request, Start, Stop, Close, BeginShutdown, RequestShutdown,
       MarkStopping, Wait, Join, Tick
  <2>2. QED
    BY <1>1, <2>1 DEF queueVars, QueuesOK
<1>7. ASSUME NEW p \in 1..spawned,
             \/ WatchThread(p)
             \/ WriterThread(p)
             \/ WriterWrites(p)
             \/ ReaderThread(p)
             \/ WorkerWrites(p)
             \/ WorkerExits(p)
      PROVE  QueuesOK'
  <2>1. \/ UNCHANGED outgoing
        \/ outgoing # <<>> /\ outgoing' = Tail(outgoing)
        \/ outgoing' = Append(outgoing, None)
    BY <1>7 DEF WatchThread, WatchWaits, WatchJoins, WatchReports,
       WriterThread, WriterGets, WriterFails, WriterWrites, ReaderThread,
       ReaderReads, ReaderRejects, ReaderEnds, WorkerWrites, WorkerExits,
       queueVars
  <2>2. /\ UNCHANGED polled
        /\ \/ UNCHANGED events
           \/ \E type \in {"message", "exited"} :
                events' = Append(events, [type |-> type, worker |-> p])
    BY <1>7 DEF WatchThread, WatchWaits, WatchJoins, WatchReports,
       WriterThread, WriterGets, WriterFails, WriterWrites, ReaderThread,
       ReaderReads, ReaderRejects, ReaderEnds, WorkerWrites, WorkerExits,
       queueVars
  <2>3. outgoing' \in Seq({None} \cup Requests)
    <3>1. CASE outgoing # <<>> /\ outgoing' = Tail(outgoing)
      BY <1>1, <3>1 DEF QueuesOK
    <3>2. CASE outgoing' = Append(outgoing, None)
      BY <1>1, <3>2 DEF QueuesOK
    <3>3. QED
      BY <1>1, <2>1, <3>1, <3>2 DEF QueuesOK
  <2>4. events' \in Seq(Event) /\ polled' \in 0..Len(events')
    <3>1. CASE UNCHANGED events
      BY <1>1, <2>2, <3>1 DEF QueuesOK
    <3>2. ASSUME NEW event \in Event, events' = Append(events, event)
          PROVE  events' \in Seq(Event) /\ polled' \in 0..Len(events')
      BY <1>1, <2>2, <3>2 DEF QueuesOK
    <3>3. \A type \in {"message", "exited"} :
            [type |-> type, worker |-> p] \in Event
      BY <1>1 DEF Event
    <3>4. QED
      BY <2>2, <3>1, <3>2, <3>3
  <2>5. QED
    BY <1>1, <2>3, <2>4 DEF QueuesOK
<1>8. QED
  BY <1>2, <1>3, <1>4, <1>5, <1>6, <1>7 DEF Next, Continues, Timer

\* LivesKept: a process is spawned with its threads, and its watch thread goes
\* on once it has exited.
LEMMA LivesKept ==
  ASSUME StopInv, Next, UNCHANGED limits
  PROVE  Lives'
<1>1. /\ WorkersOK /\ ThreadsOK /\ Lives /\ Calls /\ MainOK /\ Gone
      /\ accepted \in [Workers -> Seq(Requests)]
      /\ 1..spawned \subseteq Workers
  BY SMTT(30) DEF StopInv, TypeOK, WorkersOK, Workers, QueuesOK
<1>2. CASE Request \/ RequestShutdown \/ Put
  <2>1. /\ UNCHANGED <<workerVars, threadVars>>
        /\ \/ UNCHANGED accepted
           \/ accepted' = [accepted EXCEPT ![process] = Append(@, NewRequest)]
    BY <1>2 DEF Request, RequestShutdown, Put, requestVars
  <2>2. \A p \in Workers : p > spawned => p # process
    BY <1>1 DEF MainOK, WorkersOK, Workers
  <2>3. \A p \in Workers : p > spawned => accepted'[p] = accepted[p]
    BY <1>1, <2>1, <2>2
  <2>4. QED
    BY <1>1, <2>1, <2>3 DEF Lives, workerVars, threadVars
<1>3. CASE Spawn
  <2>1. UNCHANGED <<accepted, delivered, closed>>
    BY <1>3 DEF Spawn, requestVars
  <2>2. CASE UNCHANGED <<spawned, life, writer, reader, watch>>
    BY <1>1, <2>1, <2>2 DEF Lives
  <2>3. CASE spawned' = spawned + 1
    <3>1. process' = spawned + 1 /\ process' \in Workers
      BY <1>1, <1>3, <2>3 DEF Spawn, Calls, WorkersOK, Workers
    <3>2. /\ life' = [life EXCEPT ![spawned + 1] = "running"]
          /\ writer' = [writer EXCEPT ![spawned + 1] = "get"]
          /\ reader' = [reader EXCEPT ![spawned + 1] = "read"]
          /\ watch' = [watch EXCEPT ![spawned + 1] = "wait"]
      BY <1>3, <2>3, <3>1 DEF Spawn
    <3>3. spawned \in Nat
      BY <1>1 DEF WorkersOK
    <3>4. QED
      <4>1. \A p \in Workers : p # spawned + 1 =>
              /\ life'[p] = life[p] /\ writer'[p] = writer[p]
              /\ reader'[p] = reader[p] /\ watch'[p] = watch[p]
        BY <1>1, <3>2 DEF WorkersOK, ThreadsOK
      <4>2. /\ life'[spawned + 1] = "running" /\ writer'[spawned + 1] = "get"
            /\ reader'[spawned + 1] = "read" /\ watch'[spawned + 1] = "wait"
        BY <1>1, <3>1, <3>2 DEF WorkersOK, ThreadsOK
      <4>3. \A p \in Workers : p > spawned' => p > spawned /\ p # spawned + 1
        BY <2>3, <3>3 DEF Workers
      <4>4. \A p \in 1..spawned' :
              p = spawned + 1 \/ (p \in 1..spawned /\ p \in Workers
                                  /\ p # spawned + 1)
        BY <1>1, <2>3, <3>3
      <4>5. closed' \subseteq 1..spawned'
        BY <1>1, <2>1, <2>3, <3>3 DEF Lives
      <4>6. \A p \in Workers : p > spawned' =>
              /\ life'[p] = "none" /\ accepted'[p] = <<>>
              /\ delivered'[p] = <<>>
              /\ writer'[p] = "none" /\ reader'[p] = "none"
              /\ watch'[p] = "none"
        <5> SUFFICES ASSUME NEW p \in Workers, p > spawned'
                     PROVE  /\ life'[p] = "none" /\ accepted'[p] = <<>>
                            /\ delivered'[p] = <<>>
                            /\ writer'[p] = "none" /\ reader'[p] = "none"
                            /\ watch'[p] = "none"
          OBVIOUS
        <5>1. p > spawned /\ p # spawned + 1
          BY <4>3
        <5>2. QED
          BY <1>1, <2>1, <4>1, <5>1 DEF Lives
      <4>7. \A p \in 1..spawned' :
              /\ life'[p] # "none"
              /\ writer'[p] # "none" /\ reader'[p] # "none"
              /\ watch'[p] # "none"
              /\ life'[p] = "running" => watch'[p] = "wait"
        <5> SUFFICES ASSUME NEW p \in 1..spawned'
                     PROVE  /\ life'[p] # "none"
                            /\ writer'[p] # "none" /\ reader'[p] # "none"
                            /\ watch'[p] # "none"
                            /\ life'[p] = "running" => watch'[p] = "wait"
          OBVIOUS
        <5>1. CASE p = spawned + 1
          BY <4>2, <5>1
        <5>2. CASE p \in 1..spawned /\ p \in Workers /\ p # spawned + 1
          BY <1>1, <4>1, <5>2 DEF Lives
        <5>3. QED
          BY <4>4, <5>1, <5>2
      <4>8. QED
        BY <4>5, <4>6, <4>7 DEF Lives
  <2>4. QED
    BY <1>3, <2>2, <2>3 DEF Spawn
<1>4. CASE Start \/ Stop \/ Close \/ BeginShutdown \/ MarkStopping \/ Wait
           \/ Join \/ Poll \/ Tick \/ CloseStreams
  <2>1. /\ UNCHANGED <<accepted, threadVars, spawned, life>>
        /\ closed' \in {closed, closed \cup {process}}
        /\ closed' # closed => pc = "close"
    BY <1>4 DEF Start, Stop, Close, BeginShutdown, MarkStopping, Wait, Join,
       Poll, Tick, CloseStreams, requestVars, workerVars
  <2>2. closed' \subseteq 1..spawned
    <3>1. pc = "close" => process \in 1..spawned
      BY <1>1 DEF Calls, MainOK, WorkersOK, None
    <3>2. QED
      BY <1>1, <2>1, <3>1 DEF Lives
  <2>3. QED
    BY <1>1, <2>1, <2>2 DEF Lives, threadVars
<1>5. ASSUME NEW p \in 1..spawned,
             \/ WatchThread(p)
             \/ WriterThread(p)
             \/ WriterWrites(p)
             \/ ReaderThread(p)
             \/ WorkerWrites(p)
             \/ WorkerExits(p)
      PROVE  Lives'
  <2>1. /\ UNCHANGED <<accepted, spawned, closed>>
        /\ \A q \in Workers : q # p =>
             /\ life'[q] = life[q] /\ delivered'[q] = delivered[q]
             /\ writer'[q] = writer[q] /\ reader'[q] = reader[q]
             /\ watch'[q] = watch[q]
    BY <1>1, <1>5 DEF WatchThread, WatchWaits, WatchJoins, WatchReports,
       WriterThread, WriterGets, WriterFails, WriterWrites, ReaderThread,
       ReaderReads, ReaderRejects, ReaderEnds, WorkerWrites, WorkerExits,
       requestVars, workerVars, threadVars, WorkersOK, ThreadsOK
  <2>2. /\ life'[p] \in {life[p], "exited"}
        /\ writer'[p] \in {writer[p], "ended", "write", "get"}
        /\ reader'[p] \in {reader[p], "ended"}
        /\ \/ watch'[p] = watch[p]
           \/ watch'[p] # "none" /\ life'[p] = life[p]
              /\ (watch[p] = "wait" => life[p] = "exited")
    BY <1>1, <1>5 DEF WatchThread, WatchWaits, WatchJoins, WatchReports,
       WriterThread, WriterGets, WriterFails, WriterWrites, ReaderThread,
       ReaderReads, ReaderRejects, ReaderEnds, WorkerWrites, WorkerExits,
       requestVars, workerVars, threadVars, WorkersOK, ThreadsOK
  <2>3. QED
    <3>1. \A q \in Workers : q > spawned => q # p
      BY <1>1 DEF WorkersOK, Workers
    <3>2. p \in Workers
      BY <1>1
    <3>3. /\ life'[p] # "none" /\ writer'[p] # "none"
          /\ reader'[p] # "none" /\ watch'[p] # "none"
          /\ life'[p] = "running" => watch'[p] = "wait"
      BY <1>1, <2>2 DEF Lives
    <3>4. spawned' = spawned /\ closed' \subseteq 1..spawned
      BY <1>1, <2>1 DEF Lives
    <3>5. ASSUME NEW q \in Workers, q > spawned
          PROVE  /\ life'[q] = "none" /\ accepted'[q] = <<>>
                 /\ delivered'[q] = <<>> /\ writer'[q] = "none"
                 /\ reader'[q] = "none" /\ watch'[q] = "none"
      <4>1. q # p
        BY <3>1, <3>5
      <4>2. QED
        BY <1>1, <2>1, <3>5, <4>1 DEF Lives
    <3>6. ASSUME NEW q \in 1..spawned
          PROVE  /\ life'[q] # "none" /\ writer'[q] # "none"
                 /\ reader'[q] # "none" /\ watch'[q] # "none"
                 /\ life'[q] = "running" => watch'[q] = "wait"
      <4>1. CASE q = p
        BY <3>3, <4>1
      <4>2. CASE q # p
        <5>1. q \in Workers
          BY <1>1
        <5>2. QED
          BY <1>1, <2>1, <4>2, <5>1 DEF Lives
      <4>3. QED
        BY <4>1, <4>2
    <3>7. QED
      BY <3>4, <3>5, <3>6 DEF Lives
<1>6. QED
  BY <1>2, <1>3, <1>4, <1>5 DEF Next, Continues, Timer

\* GoneKept: the state says stopped or failed only once the process has exited
\* or, if it outlasts its kill, is given up.
LEMMA GoneKept ==
  ASSUME StopInv, Next, UNCHANGED limits
  PROVE  Gone'
<1>1. /\ WorkersOK /\ ThreadsOK /\ Lives /\ Calls /\ MainOK /\ Gone
      /\ 1..spawned \subseteq Workers
  BY DEF StopInv, TypeOK, WorkersOK, Workers
<1>2. CASE Request \/ Put \/ Poll \/ CloseStreams
  <2>1. /\ UNCHANGED <<process, state, spawned, life, signal>>
        /\ pc' # "killed" /\ (pc' \in {"close", "join"} => pc = "close")
    BY <1>1, <1>2 DEF Request, Put, Poll, CloseStreams, workerVars
  <2>2. QED
    BY <1>1, <2>1 DEF Gone, Running, Survives
<1>3. CASE Start \/ Stop \/ Close
  <2>1. /\ UNCHANGED <<process, state, spawned, life, signal>>
        /\ pc' # "killed" /\ (pc' \in {"close", "join"} => ~Running(process))
    BY <1>1, <1>3 DEF Start, Stop, Close, workerVars
  <2>2. QED
    BY <1>1, <2>1 DEF Gone, Running, Survives
<1>4. CASE Spawn
  <2>1. CASE UNCHANGED <<spawned, process, life>>
    BY <1>1, <1>4, <2>1 DEF Spawn, Gone, Calls, Running, Survives, None
  <2>2. CASE spawned' = spawned + 1
    <3>1. process' = spawned + 1 /\ process' \in Workers
      BY <1>1, <1>4, <2>2 DEF Spawn, Calls, WorkersOK, Workers
    <3>2. /\ life' = [life EXCEPT ![spawned + 1] = "running"]
          /\ signal' = signal /\ pc' = "ready" /\ state' = "running"
          /\ process = None /\ spawned \in Nat
      BY <1>1, <1>4, <2>2, <3>1 DEF Spawn, Calls, WorkersOK
    <3>3. QED
      BY <1>1, <2>2, <3>1, <3>2 DEF Gone, Survives, WorkersOK, None
  <2>3. QED
    BY <1>4, <2>1, <2>2 DEF Spawn
<1>5. CASE BeginShutdown \/ RequestShutdown \/ MarkStopping
  <2>1. /\ UNCHANGED <<process, spawned, life, signal>>
        /\ pc' \notin {"killed", "close", "join"}
        /\ state' \in {"stopped", "failed"} =>
             state' = state \/ ~Running(process)
    BY <1>5 DEF BeginShutdown, RequestShutdown, MarkStopping, Return, workerVars
  <2>2. QED
    BY <1>1, <2>1 DEF Gone, Running, Survives
<1>6. CASE Tick
  <2>1. /\ UNCHANGED <<pc, process, state, spawned, life>> /\ pc = "ready"
        /\ \A p \in Workers : signal[p] = "kill" => signal'[p] = "kill"
    BY <1>1, <1>6 DEF Tick, Send, WorkersOK
  <2>2. QED
    BY <1>1, <2>1 DEF Gone, Running, Survives
<1>7. CASE Wait
  <2>1. /\ UNCHANGED <<process, state, spawned, life>> /\ process \in Workers
        /\ \A p \in Workers : signal[p] = "kill" => signal'[p] = "kill"
    BY <1>1, <1>7 DEF Wait, Send, WorkersOK, Calls, MainOK, None
  <2>2. CASE pc' = "close"
    BY <1>1, <1>7, <2>1, <2>2 DEF Wait, Gone, Running, Survives
  <2>3. CASE pc' = "terminated"
    BY <1>1, <2>1, <2>3 DEF Gone, Running, Survives
  <2>4. CASE pc' = "killed"
    <3>1. signal'[process] = "kill"
      BY <1>1, <1>7, <2>1, <2>4 DEF Wait, Send, WorkersOK
    <3>2. QED
      BY <1>1, <2>1, <2>4, <3>1 DEF Gone, Running, Survives
  <2>5. QED
    BY <1>7, <2>2, <2>3, <2>4 DEF Wait
<1>8. CASE Join
  <2>1. /\ UNCHANGED <<spawned, life, signal>> /\ process' = None
        /\ pc' \in {"closed", "spawn"} /\ pc = "join"
    BY <1>8 DEF Join, workerVars
  <2>2. QED
    BY <1>1, <2>1 DEF Gone, Running, Survives, None
<1>9. ASSUME NEW p \in 1..spawned,
             \/ WatchThread(p)
             \/ WriterThread(p)
             \/ WriterWrites(p)
             \/ ReaderThread(p)
             \/ WorkerWrites(p)
             \/ WorkerExits(p)
      PROVE  Gone'
  <2>1. /\ UNCHANGED <<pc, process, spawned>>
        /\ \A q \in Workers : /\ life'[q] = "running" => life[q] = "running"
                              /\ signal[q] = "kill" => signal'[q] = "kill"
    BY <1>1, <1>9 DEF WatchThread, WatchWaits, WatchJoins, WatchReports,
       WriterThread, WriterGets, WriterFails, WriterWrites, ReaderThread,
       ReaderReads, ReaderRejects, ReaderEnds, WorkerWrites, WorkerExits,
       mainVars, workerVars, WorkersOK, Send
  <2>2. state' = state \/ ~Running(process)
    BY <1>1, <1>9 DEF WatchThread, WatchWaits, WatchJoins, WatchReports, Watched,
       WriterThread, WriterGets, WriterFails, WriterWrites, ReaderThread,
       ReaderReads, ReaderRejects, ReaderEnds, WorkerWrites, WorkerExits,
       mainVars, Running, Lives
  <2>3. process # None => process \in Workers
    BY <1>1 DEF MainOK, None
  <2>4. QED
    BY <1>1, <2>1, <2>2, <2>3 DEF Gone, Running, Survives
<1>10. QED
  BY <1>2, <1>3, <1>4, <1>5, <1>6, <1>7, <1>8, <1>9 DEF Next, Continues, Timer

\* InitStops: nothing runs yet.
LEMMA InitStops == Init => StopInv
<1> SUFFICES ASSUME Init PROVE StopInv
  OBVIOUS
<1>1. TypeOK
  <2>1. MainOK
    <3>1. process = 0 /\ spawned = 0
      BY DEF Init, None
    <3>2. process \in 0..spawned
      BY <3>1
    <3>3. QED
      BY <3>2 DEF Init, MainOK
  <2>2. QueuesOK
    BY DEF Init, QueuesOK
  <2>3. limits \in Limits /\ limits.lines \in Nat
    BY DEF Init
  <2>4. WorkersOK
    BY <2>3 DEF Init, WorkersOK
  <2>5. ThreadsOK
    BY DEF Init, ThreadsOK
  <2>6. QED
    BY <2>1, <2>2, <2>3, <2>4, <2>5 DEF TypeOK
<1>2. Calls /\ Lives /\ Pipes /\ Holding /\ Gone
  BY DEF Init, Calls, Lives, Pipes, Holding, Gone, Running, Workers, None
<1>3. Numbered
  <2>1. UNION {Range(accepted[p]) : p \in Workers} = {}
    <3>1. \A p \in Workers : Range(accepted[p]) = {}
      BY DEF Init, Range
    <3>2. QED
      BY <3>1
  <2>2. /\ Cardinality(UNION {Range(accepted[p]) : p \in Workers}) = 0
        /\ Cardinality(shutdowns) = 0
    BY <2>1, FS_EmptySet DEF Init
  <2>3. NewRequest = 1
    BY <2>2 DEF NewRequest
  <2>4. limits.requests \in Nat /\ shutdowns = {} /\ spawned = 0
        /\ process = None
    BY DEF Init
  <2>5. ~Running(process) /\ pc = "ready"
    BY <2>4 DEF Init, Running
  <2>6. QED
    BY <2>1, <2>2, <2>3, <2>4, <2>5 DEF Numbered, Unasked
<1>4. QED
  BY <1>1, <1>2, <1>3 DEF StopInv

\* StepStops: every step keeps the invariant.
LEMMA StepStops ==
  StopInv /\ [Next /\ UNCHANGED limits]_vars => StopInv'
<1> SUFFICES ASSUME StopInv, [Next /\ UNCHANGED limits]_vars PROVE StopInv'
  OBVIOUS
<1>1. CASE Next /\ UNCHANGED limits
  BY <1>1, MainTyped, QueuesTyped, WorkersTyped, ThreadsTyped, LivesKept,
     GoneKept, NumbersKept DEF StopInv, TypeOK
<1>2. CASE UNCHANGED vars
  <2>1. /\ UNCHANGED <<mainVars, requestVars, queueVars>>
        /\ UNCHANGED <<workerVars, threadVars, limits>>
    BY <1>2 DEF vars, clientVars
  <2>2. TypeOK'
    BY <2>1 DEF StopInv, TypeOK, MainOK, QueuesOK, WorkersOK, ThreadsOK,
       Requests, mainVars, requestVars, queueVars, workerVars, threadVars
  <2>3. Calls' /\ Lives' /\ Pipes' /\ Holding'
    BY <2>1 DEF StopInv, Calls, Lives, Pipes, Holding, mainVars, requestVars,
       workerVars, threadVars
  <2>4. Gone'
    BY <2>1 DEF StopInv, Gone, Survives, Running, mainVars, workerVars
  <2>5. Numbered'
    BY <2>1, NumberKept DEF StopInv, Numbered, Unasked, Running, mainVars,
       requestVars, workerVars
  <2>6. QED
    BY <2>2, <2>3, <2>4, <2>5 DEF StopInv
<1>3. QED
  BY <1>1, <1>2

\* StopInvariance: the inductive invariant, for every value of the constants.
THEOREM StopInvariance == Spec => []StopInv
  BY InitStops, StepStops, PTL DEF Spec

\* TypeCorrect: queues, threads and processes keep their types; no request is
\* numbered beyond those of the bound and one shutdown for each worker.
THEOREM TypeCorrect == Spec => []TypeOK
<1>1. StopInv => TypeOK
  BY DEF StopInv
<1>2. QED
  BY <1>1, StopInvariance, PTL

\* Outlived: a client that says stopped or failed has no process left, but
\* for one that was sent a kill and outlasted the wait for it.
Outlived ==
  state \in {"stopped", "failed"} => \A p \in Workers : Running(p) => Survives(p)

\* OnlyKilledSurvive: Outlived holds however long a killed process takes.
THEOREM OnlyKilledSurvive == Spec => []Outlived
<1>1. StopInv => Outlived
  <2> SUFFICES ASSUME StopInv, state \in {"stopped", "failed"},
                      NEW p \in Workers, Running(p)
               PROVE  Survives(p)
    BY DEF Outlived
  <2>1. p \in 1..spawned
    <3>1. life[p] = "running" /\ ~(p > spawned)
      BY DEF StopInv, Lives, Running
    <3>2. spawned \in Nat /\ p \in Nat \ {0}
      BY DEF StopInv, TypeOK, WorkersOK, Workers
    <3>3. QED
      BY <3>1, <3>2
  <2>2. p # process
    BY DEF StopInv, Gone
  <2>3. QED
    BY <2>1, <2>2 DEF StopInv, Gone, Running
<1>2. QED
  BY <1>1, StopInvariance, PTL

\* NoneSurvives: where a killed process goes within close's last wait, a client
\* that says stopped or failed has no process left.
THEOREM NoneSurvives ==
  ASSUME ~KillExpires
  PROVE  Spec => []StoppedMeansGone
<1>1. Outlived => StoppedMeansGone
  BY DEF Outlived, Survives, StoppedMeansGone
<1>2. QED
  BY <1>1, OnlyKilledSurvive, PTL
-----------------------------------------------------------------------------
\* The requests the writer of a worker took off the queue.
Taken(p) ==
  IF writer[p] = "write" THEN Len(delivered[p]) + 1 ELSE Len(delivered[p])

Written(p) ==
  /\ Taken(p) <= Len(accepted[p])
  /\ \A i \in 1..Len(delivered[p]) : delivered[p][i] = accepted[p][i]
  /\ writer[p] = "write" => holds[p] = accepted[p][Taken(p)]

\* No sentinel is among the first i of the queue.
Ahead(i) == \A j \in 1..i : outgoing[j] # None

\* The rest is still on the queue, as far as there is no sentinel: a request may
\* be put after the sentinel of a worker that has just exited.
Queued(p) ==
  /\ \A i \in 1..Len(outgoing) : Ahead(i) =>
       /\ Taken(p) + i <= Len(accepted[p])
       /\ outgoing[i] = accepted[p][Taken(p) + i]
  /\ Ahead(Len(outgoing)) => Len(accepted[p]) = Taken(p) + Len(outgoing)

\* What was written is what was queued first.
Handed(p) == Written(p) /\ (writer[p] \in {"get", "write"} => Queued(p))

\* The threads of a process that was replaced or closed have ended.
Threads ==
  /\ \A p \in 1..spawned : p # process =>
       writer[p] = "ended" /\ reader[p] = "ended" /\ watch[p] = "ended"
  /\ \A p \in 1..spawned : watch[p] \in {"report", "ended"} =>
       writer[p] = "ended" /\ reader[p] = "ended"
  /\ process \in closed => pc = "join"

Reported ==
  /\ \A i \in 1..Len(events) :
       /\ events[i].worker <= spawned
       /\ events[i].type = "exited" => watch[events[i].worker] = "ended"
  /\ ExitIsLast

InOrder == Threads /\ Reported /\ \A p \in 1..spawned : Handed(p)

SidecarInv == StopInv /\ (~limits.joinsExpire => InOrder)
-----------------------------------------------------------------------------
\* ThreadsKept: a process is replaced or closed only when its threads have
\* ended.
LEMMA ThreadsKept ==
  ASSUME StopInv, Threads, Next, UNCHANGED limits, ~limits.joinsExpire
  PROVE  Threads'
<1>1. /\ WorkersOK /\ ThreadsOK /\ Lives /\ Calls /\ MainOK
      /\ 1..spawned \subseteq Workers
  BY DEF StopInv, TypeOK, WorkersOK, Workers
<1>2. CASE Spawn
  <2>1. CASE UNCHANGED <<spawned, process, writer, reader, watch>>
    BY <1>1, <1>2, <2>1 DEF Spawn, Threads, Calls, Lives, None
  <2>2. CASE spawned' = spawned + 1
    <3>1. /\ process = None /\ process' = spawned + 1 /\ process' \in Workers
          /\ spawned \in Nat
      BY <1>1, <1>2, <2>2 DEF Spawn, Calls, WorkersOK, Workers
    <3>2. /\ writer' = [writer EXCEPT ![spawned + 1] = "get"]
          /\ reader' = [reader EXCEPT ![spawned + 1] = "read"]
          /\ watch' = [watch EXCEPT ![spawned + 1] = "wait"]
          /\ closed' = closed
      BY <1>2, <2>2, <3>1 DEF Spawn
    <3>3. \A p \in 1..spawned' : p # process' => p \in 1..spawned
      BY <2>2, <3>1
    <3>4. \A p \in 1..spawned : p # spawned + 1 /\ p # process /\ p \in Workers
      BY <1>1, <3>1 DEF None
    <3>5. spawned + 1 \notin closed
      BY <1>1, <3>1 DEF Lives
    <3>6. \A p \in 1..spawned :
            writer'[p] = "ended" /\ reader'[p] = "ended" /\ watch'[p] = "ended"
      BY <1>1, <3>2, <3>4 DEF Threads, WorkersOK, ThreadsOK
    <3>7. watch'[spawned + 1] = "wait"
      BY <1>1, <3>1, <3>2 DEF ThreadsOK
    <3>8. QED
      BY <3>1, <3>2, <3>3, <3>5, <3>6, <3>7 DEF Threads
  <2>3. QED
    BY <1>2, <2>1, <2>2 DEF Spawn
<1>3. CASE Join
  <2>1. /\ UNCHANGED <<spawned, threadVars, closed>> /\ process' = None
        /\ writer[process] = "ended" /\ reader[process] = "ended"
        /\ watch[process] = "ended"
    BY <1>3 DEF Join, Joined, workerVars
  <2>2. QED
    BY <1>1, <2>1 DEF Threads, threadVars, Lives, None
<1>4. CASE CloseStreams
  BY <1>1, <1>4 DEF CloseStreams, Threads, threadVars
<1>5. CASE Request \/ Put \/ Start \/ Stop \/ Close \/ BeginShutdown
           \/ RequestShutdown \/ MarkStopping \/ Wait \/ Poll \/ Tick
  <2>1. UNCHANGED <<process, spawned, threadVars, closed>> /\ pc # "join"
    BY <1>5 DEF Request, Put, Start, Stop, Close, BeginShutdown,
       RequestShutdown, MarkStopping, Wait, Poll, Tick, workerVars
  <2>2. QED
    BY <2>1 DEF Threads, threadVars
<1>6. ASSUME NEW p \in 1..spawned, WatchThread(p)
      PROVE  Threads'
  <2>1. /\ UNCHANGED <<process, spawned, closed, writer, reader, pc>>
        /\ \A q \in Workers : q # p => watch'[q] = watch[q]
        /\ watch[p] # "ended"
        /\ watch'[p] \in {"report", "ended"} =>
             writer[p] = "ended" /\ reader[p] = "ended"
    BY <1>1, <1>6 DEF WatchThread, WatchWaits, WatchJoins, WatchReports,
       PipesJoined, mainVars, workerVars, ThreadsOK, Threads
  <2>2. QED
    BY <1>1, <2>1 DEF Threads
<1>7. ASSUME NEW p \in 1..spawned,
             \/ WriterThread(p)
             \/ WriterWrites(p)
             \/ ReaderThread(p)
             \/ WorkerWrites(p)
             \/ WorkerExits(p)
      PROVE  Threads'
  <2>1. /\ UNCHANGED <<process, spawned, closed, watch, pc>>
        /\ \A q \in Workers : q # p =>
             writer'[q] = writer[q] /\ reader'[q] = reader[q]
        /\ writer[p] = "ended" => writer'[p] = "ended"
        /\ reader[p] = "ended" => reader'[p] = "ended"
    BY <1>1, <1>7 DEF WriterThread, WriterGets, WriterFails, WriterWrites,
       ReaderThread, ReaderReads, ReaderRejects, ReaderEnds, WorkerWrites,
       WorkerExits, mainVars, workerVars, threadVars, ThreadsOK
  <2>2. QED
    BY <1>1, <2>1 DEF Threads
<1>8. QED
  BY <1>2, <1>3, <1>4, <1>5, <1>6, <1>7 DEF Next, Continues, Timer

\* StillReported: as long as no event is put, none comes out of order.
LEMMA StillReported ==
  ASSUME StopInv, Reported, UNCHANGED events, spawned' \in {spawned, spawned + 1},
         \A p \in 1..spawned : watch[p] = "ended" => watch'[p] = "ended"
  PROVE  Reported'
<1>1. spawned \in Nat /\ events \in Seq(Event)
  BY DEF StopInv, TypeOK, WorkersOK, QueuesOK
<1>2. \A i \in 1..Len(events) : events[i].worker \in 1..spawned
  <2>1. \A i \in 1..Len(events) : events[i] \in Event
    BY <1>1
  <2>2. QED
    BY <1>1, <2>1 DEF Reported, Event, Workers
<1>3. ExitIsLast'
  BY DEF Reported, ExitIsLast
<1>4. QED
  BY <1>1, <1>2, <1>3 DEF Reported

\* PutLast: the last worker may put an event as long as its exit is not put.
LEMMA PutLast ==
  ASSUME StopInv, Reported, spawned' = spawned, NEW p \in 1..spawned, p = spawned,
         watch[p] # "ended", NEW type \in {"message", "exited"},
         events' = Append(events, [type |-> type, worker |-> p]),
         \A q \in 1..spawned : q # p => watch'[q] = watch[q],
         type = "exited" => watch'[p] = "ended"
  PROVE  Reported'
<1> DEFINE last == [type |-> type, worker |-> p]
<1>1. spawned \in Nat /\ events \in Seq(Event) /\ last \in Event
  BY DEF StopInv, TypeOK, WorkersOK, QueuesOK, Event, Workers
<1>2. /\ Len(events') = Len(events) + 1 /\ Len(events) \in Nat
      /\ \A i \in 1..Len(events) : events'[i] = events[i]
      /\ events'[Len(events) + 1] = last
  BY <1>1
<1>3. \A i \in 1..Len(events) : events[i] \in Event /\ events[i].worker \in 1..spawned
  <2>1. \A i \in 1..Len(events) : events[i] \in Event
    BY <1>1
  <2>2. QED
    BY <1>1, <2>1 DEF Reported, Event, Workers
<1>4. \A i \in 1..Len(events) :
        events[i].worker < p \/ (events[i].worker = p /\ events[i].type = "message")
  BY <1>1, <1>3 DEF Reported, Event
<1>5. ExitIsLast'
  <2> SUFFICES ASSUME NEW i \in 1..Len(events'), NEW j \in 1..Len(events'), i < j
               PROVE  \/ events'[i].worker < events'[j].worker
                      \/ /\ events'[i].worker = events'[j].worker
                         /\ events'[i].type = "message"
    BY DEF ExitIsLast
  <2>1. i \in 1..Len(events) /\ events'[i] = events[i]
    BY <1>2
  <2>2. CASE j \in 1..Len(events)
    BY <1>2, <2>1, <2>2 DEF Reported, ExitIsLast
  <2>3. CASE j = Len(events) + 1
    BY <1>2, <1>4, <2>1, <2>3
  <2>4. QED
    BY <1>2, <2>2, <2>3
<1>6. ASSUME NEW i \in 1..Len(events')
      PROVE  /\ events'[i].worker <= spawned'
             /\ events'[i].type = "exited" => watch'[events'[i].worker] = "ended"
  <2>1. CASE i \in 1..Len(events)
    <3>1. events'[i] = events[i] /\ events[i].worker \in 1..spawned
      BY <1>2, <1>3, <2>1
    <3>2. events[i].type = "exited" => events[i].worker # p
      BY <2>1 DEF Reported
    <3>3. QED
      BY <1>1, <2>1, <3>1, <3>2 DEF Reported
  <2>2. CASE i = Len(events) + 1
    BY <1>1, <1>2, <2>2
  <2>3. QED
    BY <1>2, <2>1, <2>2
<1>7. QED
  BY <1>5, <1>6 DEF Reported

\* ReportedKept: each event is of the last worker, and its exit is the last.
LEMMA ReportedKept ==
  ASSUME StopInv, Threads, Reported, Next, UNCHANGED limits
  PROVE  Reported'
<1>1. /\ WorkersOK /\ ThreadsOK /\ Lives /\ Calls /\ MainOK
      /\ 1..spawned \subseteq Workers
  BY DEF StopInv, TypeOK, WorkersOK, Workers
<1>2. ASSUME NEW p \in 1..spawned, ReaderReads(p)
      PROVE  Reported'
  <2>1. p = spawned /\ watch[p] # "ended"
    BY <1>1, <1>2 DEF ReaderReads, Threads, Calls, None
  <2>2. UNCHANGED <<spawned, watch>>
    BY <1>2 DEF ReaderReads, threadVars
  <2>3. QED
    BY <1>2, <2>1, <2>2, PutLast DEF ReaderReads
<1>3. ASSUME NEW p \in 1..spawned, WatchReports(p)
      PROVE  Reported'
  <2>1. p = spawned /\ watch[p] # "ended"
    BY <1>1, <1>3 DEF WatchReports, Threads, Calls, None
  <2>2. /\ UNCHANGED spawned /\ watch'[p] = "ended"
        /\ \A q \in 1..spawned : q # p => watch'[q] = watch[q]
    BY <1>1, <1>3 DEF WatchReports, workerVars, ThreadsOK
  <2>3. QED
    BY <1>3, <2>1, <2>2, PutLast DEF WatchReports
<1>4. CASE Spawn
  <2>1. \A p \in 1..spawned : p # spawned + 1
    BY <1>1 DEF WorkersOK
  <2>2. \A p \in 1..spawned : watch'[p] = watch[p]
    BY <1>1, <1>4, <2>1 DEF Spawn, ThreadsOK
  <2>3. UNCHANGED events /\ spawned' \in {spawned, spawned + 1}
    BY <1>4 DEF Spawn
  <2>4. QED
    BY <2>2, <2>3, StillReported
<1>5. CASE /\ ~Spawn
           /\ \A p \in 1..spawned : ~ReaderReads(p) /\ ~WatchReports(p)
  <2>1. /\ UNCHANGED <<events, spawned>>
        /\ \/ UNCHANGED watch
           \/ \E p \in 1..spawned : WatchWaits(p) \/ WatchJoins(p)
    BY <1>5 DEF Next, Continues, Timer, WatchThread, WriterThread, ReaderThread,
       Request, Put, Start, Stop, Close, BeginShutdown, RequestShutdown,
       MarkStopping, Wait, CloseStreams, Join, Poll, Tick, WatchWaits, WatchJoins,
       WriterGets, WriterFails, WriterWrites, ReaderRejects,
       ReaderEnds, WorkerWrites, WorkerExits, queueVars, workerVars, threadVars
  <2>2. \A p \in 1..spawned : watch[p] = "ended" => watch'[p] = "ended"
    BY <1>1, <2>1 DEF WatchWaits, WatchJoins, ThreadsOK
  <2>3. QED
    BY <2>1, <2>2, StillReported
<1>6. QED
  BY <1>2, <1>3, <1>4, <1>5

\* HandedTypes: what the lemmas below need to know of a worker's requests.
LEMMA HandedTypes ==
  ASSUME StopInv, NEW p \in 1..spawned
  PROVE  /\ p \in Workers
         /\ accepted[p] \in Seq(Requests) /\ delivered[p] \in Seq(Requests)
         /\ outgoing \in Seq({None} \cup Requests) /\ None \notin Requests
         /\ Taken(p) \in Nat /\ Taken(p) >= Len(delivered[p])
<1>1. /\ p \in Workers /\ QueuesOK /\ ThreadsOK
  BY DEF StopInv, TypeOK, WorkersOK, Workers
<1>2. /\ accepted[p] \in Seq(Requests) /\ delivered[p] \in Seq(Requests)
      /\ outgoing \in Seq({None} \cup Requests) /\ None \notin Requests
  BY <1>1 DEF QueuesOK, ThreadsOK, None, Requests
<1>3. Len(delivered[p]) \in Nat
  BY <1>2
<1>4. QED
  BY <1>1, <1>2, <1>3 DEF Taken

\* WrittenSame: a writer that ends leaves what was written.
LEMMA WrittenSame ==
  ASSUME StopInv, NEW p \in 1..spawned, Written(p),
         accepted'[p] = accepted[p], delivered'[p] = delivered[p],
         \/ writer'[p] = "ended"
         \/ writer'[p] = writer[p] /\ holds'[p] = holds[p]
  PROVE  Written(p)'
<1>1. CASE writer'[p] = "ended"
  <2>1. Taken(p)' = Len(delivered[p]) /\ Len(delivered[p]) \in Nat
        /\ Len(accepted[p]) \in Nat
    BY <1>1, HandedTypes DEF Taken
  <2>2. QED
    BY <1>1, <2>1, HandedTypes DEF Written
<1>2. CASE writer'[p] = writer[p] /\ holds'[p] = holds[p]
  BY <1>2 DEF Written, Taken
<1>3. QED
  BY <1>1, <1>2

\* QueuedSame: nothing is put on the queue or taken off it.
LEMMA QueuedSame ==
  ASSUME NEW p \in 1..spawned, Queued(p), UNCHANGED outgoing,
         accepted'[p] = accepted[p], delivered'[p] = delivered[p],
         writer'[p] = writer[p]
  PROVE  Queued(p)'
BY DEF Queued, Ahead, Taken

\* SentinelPut: a sentinel leaves what is ahead of it.
LEMMA SentinelPut ==
  ASSUME StopInv, NEW p \in 1..spawned, Queued(p),
         outgoing' = Append(outgoing, None),
         accepted'[p] = accepted[p], delivered'[p] = delivered[p],
         writer'[p] = writer[p]
  PROVE  Queued(p)'
<1>1. /\ Len(outgoing) \in Nat /\ Len(outgoing') = Len(outgoing) + 1
      /\ \A i \in 1..Len(outgoing) : outgoing'[i] = outgoing[i]
      /\ outgoing'[Len(outgoing) + 1] = None
      /\ Taken(p)' = Taken(p) /\ Taken(p) \in Nat /\ Len(accepted[p]) \in Nat
  BY HandedTypes DEF Taken
<1>2. ~Ahead(Len(outgoing))'
  BY <1>1 DEF Ahead
<1>3. \A i \in 1..Len(outgoing) : Ahead(i)' => Ahead(i)
  BY <1>1 DEF Ahead
<1>4. ASSUME NEW i \in 1..Len(outgoing'), Ahead(i)'
      PROVE  /\ Taken(p) + i <= Len(accepted[p])
             /\ outgoing'[i] = accepted[p][Taken(p) + i]
  <2>1. i \in 1..Len(outgoing)
    BY <1>1, <1>2, <1>4
  <2>2. QED
    BY <1>1, <1>3, <1>4, <2>1 DEF Queued
<1>5. QED
  BY <1>1, <1>2, <1>4 DEF Queued

\* RequestPut: a request is put after those queued before it, or after a
\* sentinel.
LEMMA RequestPut ==
  ASSUME StopInv, StopInv', Threads, Put, NEW p \in 1..spawned, Handed(p)
  PROVE  Handed(p)'
<1>1. accepted \in [Workers -> Seq(Requests)] /\ p \in Workers
  BY HandedTypes DEF StopInv, TypeOK, QueuesOK
<1>2. CASE p # process
  <2>1. writer[p] = "ended" /\ accepted'[p] = accepted[p]
    BY <1>1, <1>2 DEF Threads, Put
  <2>2. QED
    BY <2>1, WrittenSame DEF Put, Handed, threadVars
<1>3. CASE p = process
  <2> DEFINE old == accepted[p]
             new == accepted'[p]
  <2>1. /\ new = Append(old, NewRequest) /\ old \in Seq(Requests)
        /\ Len(old) \in Nat /\ Len(new) = Len(old) + 1
        /\ \A i \in 1..Len(old) : new[i] = old[i]
        /\ new[Len(old) + 1] = NewRequest
    <3>1. new = Append(old, NewRequest) /\ old \in Seq(Requests)
      BY <1>1, <1>3 DEF Put
    <3>2. QED
      BY <3>1
  <2>2. /\ Taken(p)' = Taken(p) /\ Taken(p) \in Nat
        /\ Len(delivered[p]) \in Nat /\ Taken(p) >= Len(delivered[p])
        /\ UNCHANGED <<delivered, writer, holds, watch>>
    BY HandedTypes DEF Put, Taken, threadVars
  <2>3. Written(p)'
    <3>1. Written(p)
      BY DEF Handed
    <3>2. \A i \in 1..Len(delivered[p]) : i \in 1..Len(old)
      BY <2>1, <2>2, <3>1 DEF Written
    <3>3. writer[p] = "write" => Taken(p) \in 1..Len(old)
      BY <2>1, <2>2, <3>1 DEF Written, Taken
    <3> HIDE DEF old, new
    <3>4. /\ Taken(p) <= Len(old)
          /\ \A i \in 1..Len(delivered[p]) : delivered[p][i] = old[i]
          /\ writer[p] = "write" => holds[p] = old[Taken(p)]
      BY <3>1 DEF Written, old
    <3>5. /\ Taken(p) <= Len(new)
          /\ \A i \in 1..Len(delivered[p]) : delivered[p][i] = new[i]
          /\ writer[p] = "write" => holds[p] = new[Taken(p)]
      BY <2>1, <2>2, <3>2, <3>3, <3>4
    <3>6. QED
      BY <2>2, <3>5 DEF Written, new
  <2>4. ASSUME writer[p] \in {"get", "write"}
        PROVE  Queued(p)'
    <3>1. Queued(p)
      BY <2>4 DEF Handed
    <3>2. /\ Len(outgoing) \in Nat /\ Len(outgoing') = Len(outgoing) + 1
          /\ \A i \in 1..Len(outgoing) : outgoing'[i] = outgoing[i]
          /\ outgoing'[Len(outgoing) + 1] = NewRequest
      <4>1. outgoing \in Seq({None} \cup Requests)
            /\ outgoing' = Append(outgoing, NewRequest)
        BY HandedTypes DEF Put
      <4>2. QED
        BY <4>1
    <3>3. \A i \in 0..Len(outgoing) : Ahead(i)' => Ahead(i)
      BY <3>2 DEF Ahead
    <3>4. Ahead(Len(outgoing))' => Ahead(Len(outgoing))
      BY <3>2 DEF Ahead
    <3> HIDE DEF old, new
    <3>5. ASSUME NEW i \in 1..Len(outgoing'), Ahead(i)'
          PROVE  /\ Taken(p) + i <= Len(new)
                 /\ outgoing'[i] = new[Taken(p) + i]
      <4>1. CASE i \in 1..Len(outgoing)
        <5>1. Taken(p) + i <= Len(old) /\ outgoing[i] = old[Taken(p) + i]
          BY <3>1, <3>3, <3>5, <4>1 DEF Queued, old
        <5>2. Taken(p) + i \in 1..Len(old)
          BY <2>1, <2>2, <3>2, <4>1, <5>1
        <5>3. QED
          BY <2>1, <3>2, <4>1, <5>1, <5>2
      <4>2. CASE i = Len(outgoing) + 1
        <5>1. Len(old) = Taken(p) + Len(outgoing)
          BY <3>1, <3>2, <3>4, <3>5, <4>2 DEF Queued, old
        <5>2. QED
          BY <2>1, <2>2, <3>2, <4>2, <5>1
      <4>3. QED
        BY <3>2, <4>1, <4>2
    <3>6. Ahead(Len(outgoing))' => Len(new) = Taken(p) + Len(outgoing')
      <4>1. Ahead(Len(outgoing)) => Len(old) = Taken(p) + Len(outgoing)
        BY <3>1 DEF Queued, old
      <4>2. QED
        BY <2>1, <2>2, <3>2, <3>4, <4>1
    <3>7. QED
      BY <2>2, <3>5, <3>6 DEF Queued, new
  <2>5. QED
    BY <2>2, <2>3, <2>4 DEF Handed
<1>4. QED
  BY <1>2, <1>3

\* Got: the writer takes the first request that it has not written, or a
\* sentinel after the last.
LEMMA Got ==
  ASSUME StopInv, NEW p \in 1..spawned, WriterGets(p), Handed(p)
  PROVE  Handed(p)'
<1>1. /\ p \in Workers /\ writer[p] = "get" /\ Queued(p) /\ Written(p)
      /\ outgoing # <<>> /\ outgoing' = Tail(outgoing)
      /\ UNCHANGED <<accepted, delivered, watch, closed>>
  BY HandedTypes DEF WriterGets, Handed, requestVars, workerVars
<1>2. /\ Len(outgoing) \in Nat \ {0} /\ Len(outgoing') = Len(outgoing) - 1
      /\ \A i \in 1..Len(outgoing') : outgoing'[i] = outgoing[i + 1]
      /\ Head(outgoing) = outgoing[1]
  BY <1>1, HandedTypes
<1>3. /\ Taken(p) = Len(delivered[p]) /\ Taken(p) \in Nat
      /\ Len(accepted[p]) \in Nat
      /\ \A i \in 1..Len(accepted[p]) : accepted[p][i] # None
  BY <1>1, HandedTypes DEF Taken
<1>4. CASE outgoing[1] = None
  <2>1. writer'[p] = "ended"
    BY <1>1, <1>2, <1>4 DEF WriterGets, StopInv, TypeOK, ThreadsOK
  <2>2. QED
    BY <1>1, <2>1, WrittenSame DEF Handed
<1>5. CASE outgoing[1] # None
  <2>1. writer'[p] = "write" /\ holds'[p] = outgoing[1]
    BY <1>1, <1>2, <1>5 DEF WriterGets, StopInv, TypeOK, ThreadsOK
  <2>2. Taken(p)' = Taken(p) + 1
    BY <1>1, <1>3, <2>1 DEF Taken
  <2>3. Taken(p) + 1 <= Len(accepted[p]) /\ outgoing[1] = accepted[p][Taken(p) + 1]
    BY <1>1, <1>2, <1>5 DEF Queued, Ahead
  <2>4. Written(p)'
    BY <1>1, <1>3, <2>1, <2>2, <2>3 DEF Written
  <2>5. \A i \in 0..Len(outgoing') : Ahead(i)' => Ahead(i + 1)
    <3> SUFFICES ASSUME NEW i \in 0..Len(outgoing'), Ahead(i)',
                        NEW j \in 1..(i + 1)
                 PROVE  outgoing[j] # None
      BY DEF Ahead
    <3>1. CASE j = 1
      BY <1>5, <3>1
    <3>2. CASE j # 1
      <4>1. j - 1 \in 1..i /\ j - 1 \in 1..Len(outgoing') /\ (j - 1) + 1 = j
        BY <1>2, <3>2
      <4>2. outgoing'[j - 1] # None
        BY <4>1 DEF Ahead
      <4>3. outgoing'[j - 1] = outgoing[(j - 1) + 1]
        BY <1>2, <4>1
      <4>4. QED
        BY <4>1, <4>2, <4>3
    <3>3. QED
      BY <3>1, <3>2
  <2>6. Queued(p)'
    <3>1. ASSUME NEW i \in 1..Len(outgoing'), Ahead(i)'
          PROVE  /\ Taken(p) + 1 + i <= Len(accepted[p])
                 /\ outgoing'[i] = accepted[p][Taken(p) + 1 + i]
      <4>1. /\ i + 1 \in 1..Len(outgoing) /\ i \in 0..Len(outgoing')
            /\ Taken(p) + (i + 1) = Taken(p) + 1 + i
        <5>1. \A j, t \in Nat : t + (j + 1) = t + 1 + j
          OBVIOUS
        <5>2. /\ i \in Nat /\ i + 1 \in 1..Len(outgoing)
              /\ i \in 0..Len(outgoing')
          BY <1>2
        <5>3. QED
          BY <1>3, <5>1, <5>2
      <4>2. /\ Taken(p) + (i + 1) <= Len(accepted[p])
            /\ outgoing[i + 1] = accepted[p][Taken(p) + (i + 1)]
        BY <1>1, <2>5, <3>1, <4>1 DEF Queued
      <4>3. QED
        BY <1>2, <3>1, <4>1, <4>2
    <3>2. Ahead(Len(outgoing))' =>
            Len(accepted[p]) = Taken(p) + 1 + Len(outgoing')
      <4>1. /\ Len(outgoing') \in 0..Len(outgoing')
            /\ Len(outgoing') + 1 = Len(outgoing)
            /\ Taken(p) + 1 + Len(outgoing') = Taken(p) + Len(outgoing)
        BY <1>2, <1>3
      <4>2. QED
        BY <1>1, <2>5, <4>1 DEF Queued
    <3>3. QED
      BY <1>1, <2>2, <3>1, <3>2 DEF Queued
  <2>7. QED
    BY <2>4, <2>6 DEF Handed
<1>6. QED
  BY <1>4, <1>5

\* Wrote: the writer writes the request it holds.
LEMMA Wrote ==
  ASSUME StopInv, NEW p \in 1..spawned, WriterWrites(p), Handed(p)
  PROVE  Handed(p)'
<1>1. /\ p \in Workers /\ writer[p] = "write" /\ Queued(p) /\ Written(p)
      /\ writer'[p] = "get"
      /\ UNCHANGED <<accepted, outgoing, watch, closed>>
  BY HandedTypes DEF WriterWrites, Handed, requestVars, queueVars, workerVars,
     StopInv, TypeOK, ThreadsOK
<1>2. /\ delivered'[p] = Append(delivered[p], holds[p])
      /\ Len(delivered[p]) \in Nat
      /\ Len(delivered'[p]) = Len(delivered[p]) + 1
      /\ \A i \in 1..Len(delivered[p]) : delivered'[p][i] = delivered[p][i]
      /\ delivered'[p][Len(delivered[p]) + 1] = holds[p]
  <2>1. delivered'[p] = Append(delivered[p], holds[p])
    BY <1>1 DEF WriterWrites, StopInv, TypeOK, ThreadsOK
  <2>2. delivered[p] \in Seq(Requests)
    BY HandedTypes
  <2>3. holds[p] \in Requests
    BY <1>1 DEF StopInv, TypeOK, ThreadsOK, Holding
  <2>4. QED
    BY <2>1, <2>2, <2>3
<1>3. Taken(p)' = Taken(p) /\ Taken(p) = Len(delivered[p]) + 1
  BY <1>1, <1>2 DEF Taken
<1>4. Written(p)'
  BY <1>1, <1>2, <1>3 DEF Written
<1>5. Queued(p)'
  BY <1>1, <1>3 DEF Queued, Ahead
<1>6. QED
  BY <1>4, <1>5 DEF Handed

\* HandedKept: a worker is written its requests, in their order.
LEMMA HandedKept ==
  ASSUME StopInv, StopInv', InOrder, Next, UNCHANGED limits, ~limits.joinsExpire
  PROVE  \A p \in 1..spawned' : Handed(p)'
<1>1. /\ WorkersOK /\ ThreadsOK /\ Lives /\ Calls /\ MainOK /\ Threads
      /\ 1..spawned \subseteq Workers /\ \A p \in 1..spawned : Handed(p)
  <2>1. WorkersOK /\ ThreadsOK /\ Lives /\ Calls /\ MainOK
    BY DEF StopInv, TypeOK
  <2>2. 1..spawned \subseteq Workers
    BY <2>1 DEF WorkersOK, Workers
  <2>3. QED
    BY <2>1, <2>2 DEF InOrder
<1>2. CASE Put
  <2>1. spawned' = spawned
    BY <1>2 DEF Put, workerVars
  <2>2. QED
    BY <1>1, <1>2, <2>1, RequestPut
<1>3. CASE Spawn
  <2>1. /\ UNCHANGED <<accepted, delivered, holds>> /\ process = None
        /\ outgoing' = <<>>
    BY <1>1, <1>3 DEF Spawn, Calls, requestVars
  <2>2. ASSUME NEW p \in 1..spawned
        PROVE  Handed(p)'
    <3>1. writer[p] = "ended"
      BY <1>1, <2>1, <2>2 DEF Threads, None
    <3>2. p # spawned + 1
      BY <1>1, <2>2 DEF WorkersOK
    <3>3. writer'[p] = "ended"
      BY <1>1, <1>3, <2>2, <3>1, <3>2 DEF Spawn, ThreadsOK
    <3>4. QED
      BY <1>1, <2>1, <2>2, <3>3, WrittenSame DEF Handed
  <2>3. ASSUME spawned' = spawned + 1, NEW p \in 1..spawned', p = spawned + 1
        PROVE  Handed(p)'
    <3>1. p \in Workers /\ p > spawned
      BY <1>1, <1>3, <2>3 DEF Spawn, Calls, WorkersOK, Workers
    <3>2. accepted[p] = <<>> /\ delivered[p] = <<>>
      BY <1>1, <3>1 DEF Lives
    <3>3. writer'[p] = "get"
      BY <1>1, <1>3, <2>3, <3>1 DEF Spawn, ThreadsOK
    <3>4. Len(<<>>) = 0
      OBVIOUS
    <3>5. Taken(p)' = 0
      BY <2>1, <3>2, <3>3, <3>4 DEF Taken
    <3>6. QED
      BY <2>1, <3>2, <3>3, <3>4, <3>5 DEF Handed, Written, Queued, Ahead
  <2>4. \A p \in 1..spawned' :
          p \in 1..spawned \/ (p = spawned + 1 /\ spawned' = spawned + 1)
    BY <1>1, <1>3 DEF Spawn, WorkersOK
  <2>5. QED
    BY <2>2, <2>3, <2>4
<1>4. CASE CloseStreams
  <2>1. /\ UNCHANGED <<accepted, threadVars, spawned>> /\ process \in closed'
        /\ outgoing' = Append(outgoing, None)
    BY <1>4 DEF CloseStreams, requestVars
  <2>2. SUFFICES ASSUME NEW p \in 1..spawned PROVE Handed(p)'
    BY <2>1
  <2>3. Written(p)'
    BY <1>1, <2>1, WrittenSame DEF Handed, threadVars
  <2>4. writer[p] \in {"get", "write"} => Queued(p)'
    BY <1>1, <2>1, SentinelPut DEF Handed, threadVars, Threads
  <2>5. QED
    BY <2>1, <2>3, <2>4 DEF Handed, threadVars
<1>5. ASSUME NEW p \in 1..spawned, WriterGets(p) \/ WriterWrites(p)
      PROVE  \A q \in 1..spawned' : Handed(q)'
  <2>1. /\ p = process /\ UNCHANGED <<accepted, spawned>>
        /\ \A q \in Workers : q # p =>
             delivered'[q] = delivered[q] /\ writer'[q] = writer[q]
    BY <1>1, <1>5 DEF WriterGets, WriterWrites, Threads, requestVars, workerVars,
       ThreadsOK
  <2>2. Handed(p)'
    BY <1>1, <1>5, Got, Wrote
  <2>3. ASSUME NEW q \in 1..spawned, q # p
        PROVE  Handed(q)'
    BY <1>1, <2>1, <2>3, WrittenSame DEF Handed, Threads
  <2>4. QED
    BY <2>1, <2>2, <2>3
<1>6. ASSUME NEW p \in 1..spawned, WriterFails(p)
      PROVE  \A q \in 1..spawned' : Handed(q)'
  <2>1. /\ p = process /\ UNCHANGED <<accepted, delivered, spawned>>
        /\ writer'[p] = "ended"
        /\ \A q \in Workers : q # p => writer'[q] = writer[q]
    BY <1>1, <1>6 DEF WriterFails, Threads, requestVars, workerVars, ThreadsOK
  <2>2. ASSUME NEW q \in 1..spawned
        PROVE  writer'[q] = "ended"
    BY <1>1, <2>1, <2>2 DEF Threads
  <2>3. QED
    BY <1>1, <2>1, <2>2, WrittenSame DEF Handed
<1>7. ASSUME NEW p \in 1..spawned, WatchWaits(p)
      PROVE  \A q \in 1..spawned' : Handed(q)'
  <2>1. /\ p = process /\ UNCHANGED <<accepted, delivered, writer, holds, spawned>>
        /\ outgoing' = Append(outgoing, None) /\ watch'[p] = "join"
    BY <1>1, <1>7 DEF WatchWaits, Threads, requestVars, workerVars, ThreadsOK
  <2>2. SUFFICES ASSUME NEW q \in 1..spawned PROVE Handed(q)'
    BY <2>1
  <2>3. Written(q)'
    BY <1>1, <2>1, WrittenSame DEF Handed
  <2>4. writer[q] \in {"get", "write"} => Queued(q)'
    BY <1>1, <2>1, SentinelPut DEF Handed, Threads
  <2>5. QED
    BY <2>1, <2>3, <2>4 DEF Handed
<1>8. CASE /\ ~Put /\ ~Spawn /\ ~CloseStreams
           /\ \A p \in 1..spawned :
                /\ ~WriterGets(p) /\ ~WriterWrites(p) /\ ~WriterFails(p)
                /\ ~WatchWaits(p)
  <2>1. UNCHANGED <<accepted, outgoing, delivered, writer, holds, spawned>>
    BY <1>8 DEF Next, Continues, Timer, WatchThread, WriterThread, ReaderThread,
       Request, Start, Stop, Close, BeginShutdown, RequestShutdown, MarkStopping,
       Wait, Join, Poll, Tick, WatchJoins, WatchReports, ReaderReads,
       ReaderRejects, ReaderEnds, WorkerWrites, WorkerExits, requestVars,
       queueVars, workerVars, threadVars
  <2>2. SUFFICES ASSUME NEW p \in 1..spawned PROVE Handed(p)'
    BY <2>1
  <2>3. Written(p)'
    BY <1>1, <2>1, WrittenSame DEF Handed
  <2>4. writer[p] \in {"get", "write"} => Queued(p)'
    BY <1>1, <2>1, QueuedSame DEF Handed
  <2>5. QED
    BY <2>1, <2>3, <2>4 DEF Handed
<1>9. QED
  BY <1>2, <1>3, <1>4, <1>5, <1>6, <1>7, <1>8

\* SidecarInvariance: the inductive invariant, for every value of the constants.
THEOREM SidecarInvariance == Spec => []SidecarInv
<1>1. Init => SidecarInv
  <2> SUFFICES ASSUME Init PROVE InOrder
    BY InitStops DEF SidecarInv
  <2>1. spawned = 0 /\ events = <<>> /\ closed = {}
    BY DEF Init
  <2>2. \A p \in 1..spawned : FALSE
    BY <2>1
  <2>3. QED
    BY <2>1, <2>2 DEF InOrder, Threads, Reported, ExitIsLast
<1>2. SidecarInv /\ [Next /\ UNCHANGED limits]_vars => SidecarInv'
  <2> SUFFICES ASSUME SidecarInv, [Next /\ UNCHANGED limits]_vars,
                      ~limits'.joinsExpire
               PROVE  InOrder'
    BY StepStops DEF SidecarInv
  <2>1. StopInv /\ StopInv'
    BY StepStops DEF SidecarInv
  <2>2. CASE Next /\ UNCHANGED limits
    <3>1. InOrder /\ ~limits.joinsExpire
      BY <2>2 DEF SidecarInv
    <3>2. QED
      BY <2>1, <2>2, <3>1, ThreadsKept, ReportedKept, HandedKept DEF InOrder
  <2>3. CASE UNCHANGED vars
    <3>1. UNCHANGED <<pc, process, spawned, closed, accepted, delivered>>
      BY <2>3 DEF vars, clientVars, mainVars, requestVars, workerVars,
         threadVars
    <3>2. UNCHANGED <<outgoing, events, holds, writer, reader, watch, limits>>
      BY <2>3 DEF vars, clientVars, queueVars, threadVars
    <3>3. InOrder
      BY <3>2 DEF SidecarInv
    <3>4. Threads'
      BY <3>1, <3>2, <3>3 DEF InOrder, Threads
    <3>5. Reported'
      BY <3>1, <3>2, <3>3 DEF InOrder, Reported, ExitIsLast
    <3>6. \A p \in 1..spawned' : Handed(p)'
      BY <3>1, <3>2, <3>3 DEF InOrder, Handed, Written, Queued, Ahead, Taken
    <3>7. QED
      BY <3>4, <3>5, <3>6 DEF InOrder
  <2>4. QED
    BY <2>2, <2>3
<1>3. QED
  BY <1>1, <1>2, PTL DEF Spec

\* RequestsAndExitInOrder: as long as threads end in time, each worker is
\* written its own requests in their order and without a gap, and its exit is
\* the last of its events, through any number of crashes and restarts.
THEOREM RequestsAndExitInOrder == Spec => []Delivered
<1>1. SidecarInv => Delivered
  <2> SUFFICES ASSUME SidecarInv, ~limits.joinsExpire
               PROVE  DeliveredInOrder /\ ExitIsLast
    BY DEF Delivered
  <2>1. StopInv /\ InOrder
    BY DEF SidecarInv
  <2>2. ASSUME NEW p \in Workers
        PROVE  IsPrefix(delivered[p], accepted[p])
    <3>1. CASE p \in 1..spawned
      <4>1. /\ accepted[p] \in Seq(Requests) /\ delivered[p] \in Seq(Requests)
            /\ Taken(p) \in Nat /\ Taken(p) >= Len(delivered[p])
        BY <2>1, <3>1, HandedTypes
      <4>2. /\ Len(delivered[p]) <= Len(accepted[p])
            /\ \A i \in 1..Len(delivered[p]) : delivered[p][i] = accepted[p][i]
        BY <2>1, <3>1, <4>1 DEF InOrder, Handed, Written
      <4>3. SubSeq(delivered[p], 1, Len(delivered[p]))
              = SubSeq(accepted[p], 1, Len(delivered[p]))
        BY <4>1, <4>2
      <4>4. QED
        BY <4>2, <4>3 DEF IsPrefix
    <3>2. CASE p \notin 1..spawned
      <4>1. p > spawned
        BY <2>1, <3>2 DEF StopInv, TypeOK, WorkersOK, Workers
      <4>2. accepted[p] = <<>> /\ delivered[p] = <<>>
        BY <2>1, <4>1 DEF StopInv, Lives
      <4>3. QED
        BY <4>2 DEF IsPrefix
    <3>3. QED
      BY <3>1, <3>2
  <2>3. QED
    BY <2>1, <2>2 DEF DeliveredInOrder, InOrder, Reported
<1>2. QED
  BY <1>1, SidecarInvariance, PTL
=============================================================================
