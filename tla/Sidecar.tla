------------------------------ MODULE Sidecar ------------------------------
(***************************************************************************)
(* SidecarClient of audio2face/sidecar.py: one worker process at a time,   *)
(* the threads that carry its lines, and the bounded shutdown; with the    *)
(* calls the RuntimeController makes on Blender's main thread.             *)
(*                                                                         *)
(* The stderr thread and ClientDiagnostic events only carry text and are   *)
(* left out.  The worker process is external.                              *)
(***************************************************************************)
EXTENDS Integers, Sequences, FiniteSets, SequencesExt

CONSTANTS
  MaxWorkers,   \* bound: processes spawned
  Limits,       \* the conditions of a behavior, one of these:
                \*   requests: bound, requests queued, shutdowns apart
                \*   lines: bound, lines one worker writes
                \*   joinsExpire: whether a thread may outlast the timeout of
                \*     its join, as when another process has inherited the
                \*     worker's pipes
  KillExpires   \* whether a killed process may outlast close's last wait

ASSUME SidecarAssumption ==
  /\ MaxWorkers \in Nat /\ KillExpires \in BOOLEAN
  /\ Limits \subseteq [requests : Nat, lines : Nat, joinsExpire : BOOLEAN]

Workers == 1..MaxWorkers
None == 0   \* no process; also the sentinel None on the outgoing queue

VARIABLES
  pc,        \* where the main thread is
  closing,   \* the call in progress is close
  process,   \* _process
  state,     \* _state
  deadline,  \* the later of _shutdown_deadline and _terminate_deadline set
  outgoing,  \* _outgoing: request numbers and None
  events,    \* what was put on _incoming, in order
  polled,    \* how many of them were taken off it
  accepted,  \* the requests queued for each worker
  shutdowns, \* the shutdown requests among them
  delivered, \* the requests written to each worker's stdin
  spawned,   \* number of processes spawned
  life,      \* of each process
  code,      \* its return code
  signal,    \* the strongest signal sent to it
  closed,    \* processes whose pipes were closed
  unread,    \* lines in the stdout pipe of each
  written,   \* lines each wrote
  writer,    \* thread a2f-worker-stdin of each
  holds,     \* the line it took off _outgoing
  reader,    \* thread a2f-worker-stdout of each
  watch,     \* thread a2f-worker-watch of each
  limits     \* the conditions of this behavior

mainVars == <<pc, closing, process, state, deadline>>
requestVars == <<accepted, shutdowns>>
queueVars == <<outgoing, events, polled>>
workerVars == <<spawned, life, code, signal, closed, unread, written>>
threadVars == <<delivered, writer, holds, reader, watch>>
clientVars == <<mainVars, requestVars, queueVars, workerVars, threadVars>>
vars == <<clientVars, limits>>

Requests == 1..(limits.requests + 2 * MaxWorkers)
Event == [type : {"message", "exited"}, worker : Workers]

MainOK ==
  /\ pc \in {"ready", "put", "shutdown", "request", "put_shutdown", "mark",
             "wait", "terminated", "killed", "close", "join", "spawn", "closed"}
  /\ closing \in BOOLEAN
  /\ process \in 0..spawned
  /\ state \in {"stopped", "running", "stopping", "failed"}
  /\ deadline \in {"none", "shutdown", "terminate"}

QueuesOK ==
  /\ outgoing \in Seq({None} \cup Requests)
  /\ events \in Seq(Event) /\ polled \in 0..Len(events)
  /\ accepted \in [Workers -> Seq(Requests)] /\ shutdowns \subseteq Requests

WorkersOK ==
  /\ spawned \in 0..MaxWorkers
  /\ life \in [Workers -> {"none", "running", "exited"}]
  /\ code \in [Workers -> {0, 1}]
  /\ signal \in [Workers -> {"none", "terminate", "kill"}]
  /\ closed \subseteq Workers
  /\ unread \in [Workers -> 0..limits.lines]
  /\ written \in [Workers -> 0..limits.lines]

ThreadsOK ==
  /\ delivered \in [Workers -> Seq(Requests)]
  /\ writer \in [Workers -> {"none", "get", "write", "ended"}]
  /\ holds \in [Workers -> {None} \cup Requests]
  /\ reader \in [Workers -> {"none", "read", "ended"}]
  /\ watch \in [Workers -> {"none", "wait", "join", "report", "ended"}]

TypeOK == limits \in Limits /\ MainOK /\ QueuesOK /\ WorkersOK /\ ThreadsOK

Init ==
  /\ limits \in Limits
  /\ pc = "ready" /\ closing = FALSE
  /\ process = None /\ state = "stopped" /\ deadline = "none"
  /\ outgoing = <<>> /\ events = <<>> /\ polled = 0
  /\ accepted = [p \in Workers |-> <<>>] /\ shutdowns = {}
  /\ delivered = [p \in Workers |-> <<>>]
  /\ spawned = 0
  /\ life = [p \in Workers |-> "none"] /\ code = [p \in Workers |-> 0]
  /\ signal = [p \in Workers |-> "none"] /\ closed = {}
  /\ unread = [p \in Workers |-> 0] /\ written = [p \in Workers |-> 0]
  /\ writer = [p \in Workers |-> "none"] /\ holds = [p \in Workers |-> None]
  /\ reader = [p \in Workers |-> "none"] /\ watch = [p \in Workers |-> "none"]

Running(p) == p # None /\ life[p] = "running"
-----------------------------------------------------------------------------
\* Blender's main thread.  A call is several steps where it takes _state_lock
\* more than once or waits.

\* begin_shutdown returns to close or to its caller in the controller.
Return == IF closing THEN "wait" ELSE "ready"

\* The number of the next request.
NewRequest == 1 + Cardinality(UNION {Range(accepted[p]) : p \in Workers})

\* request, its locked check ...
Request ==
  /\ pc = "ready"
  /\ Running(process) /\ state # "stopping"
  /\ NewRequest - Cardinality(shutdowns) <= limits.requests
  /\ pc' = "put"
  /\ UNCHANGED <<closing, process, state, deadline, requestVars, queueVars,
                 workerVars, threadVars>>

\* ... and the put, by which the worker may be gone.
Put ==
  /\ pc \in {"put", "put_shutdown"}
  /\ pc' = IF pc = "put" THEN "ready" ELSE "mark"
  /\ outgoing' = Append(outgoing, NewRequest)
  /\ accepted' = [accepted EXCEPT ![process] = Append(@, NewRequest)]
  /\ shutdowns' = IF pc = "put" THEN shutdowns ELSE shutdowns \cup {NewRequest}
  /\ UNCHANGED <<closing, process, state, deadline, events, polled, workerVars,
                 threadVars>>

\* RuntimeController.start refuses a running and a stopping client; a prior
\* process is closed before its queues are used again.
Start ==
  /\ pc = "ready"
  /\ state \in {"stopped", "failed"} /\ ~Running(process)
  /\ spawned < MaxWorkers
  /\ pc' = IF process = None THEN "spawn" ELSE "close"
  /\ UNCHANGED <<closing, process, state, deadline, requestVars, queueVars,
                 workerVars, threadVars>>

Spawn ==
  /\ pc = "spawn"
  /\ outgoing' = <<>>
  /\ polled' = Len(events)
  /\ deadline' = "none"
  /\ pc' = "ready"
  /\ \/ /\ state' = "failed"
        /\ UNCHANGED <<process, spawned, life, writer, reader, watch>>
     \/ /\ state' = "running"
        /\ process' = spawned + 1
        /\ spawned' = process'
        /\ life' = [life EXCEPT ![process'] = "running"]
        /\ writer' = [writer EXCEPT ![process'] = "get"]
        /\ reader' = [reader EXCEPT ![process'] = "read"]
        /\ watch' = [watch EXCEPT ![process'] = "wait"]
  /\ UNCHANGED <<closing, requestVars, events, code, signal, closed, unread,
                 written, delivered, holds>>

\* RuntimeController.stop, and a handshake that timed out.
Stop ==
  /\ pc = "ready"
  /\ state = "running"
  /\ pc' = "shutdown"
  /\ UNCHANGED <<closing, process, state, deadline, requestVars, queueVars,
                 workerVars, threadVars>>

\* begin_shutdown, its first locked section ...
BeginShutdown ==
  /\ pc = "shutdown"
  /\ state' = IF Running(process) THEN state ELSE "stopped"
  /\ pc' = IF Running(process) /\ state # "stopping" THEN "request" ELSE Return
  /\ UNCHANGED <<closing, process, deadline, requestVars, queueVars, workerVars,
                 threadVars>>

\* ... the request, refused if the worker is gone ...
RequestShutdown ==
  /\ pc = "request"
  /\ pc' = IF Running(process) THEN "put_shutdown" ELSE "mark"
  /\ UNCHANGED <<closing, process, state, deadline, requestVars, queueVars,
                 workerVars, threadVars>>

\* ... and its second locked section.
MarkStopping ==
  /\ pc = "mark"
  /\ state' = "stopping"
  /\ deadline' = "shutdown"
  /\ pc' = Return
  /\ UNCHANGED <<closing, process, requestVars, queueVars, workerVars,
                 threadVars>>

\* Faults: a worker that ignores terminate is left alone, or sent what is no
\* signal.
TerminateAgain == "terminate"
TerminateTwice == "shutdown"

\* The signal of a second missed deadline.
Escalation == "kill"

\* A killed process stays killed.
Send(p, sent) ==
  signal' = [signal EXCEPT ![p] = IF @ = "kill" THEN @ ELSE sent]

\* tick: a missed deadline is answered with terminate, then with kill.
Tick ==
  /\ pc = "ready"
  /\ state = "stopping" /\ Running(process)
  /\ \/ /\ deadline = "shutdown"
        /\ Send(process, "terminate")
        /\ deadline' = "terminate"
     \/ /\ deadline = "terminate"
        /\ Send(process, Escalation)
        /\ deadline' = "shutdown"
  /\ UNCHANGED <<pc, closing, process, state, requestVars, queueVars, spawned,
                 life, code, closed, unread, written, threadVars>>

\* poll, one event at a time: a message may break the contract, and
\* _reject_worker_contract shuts the worker down.
Poll ==
  /\ pc = "ready"
  /\ polled < Len(events)
  /\ polled' = polled + 1
  /\ \/ pc' = "ready"
     \/ events[polled'].type = "message" /\ pc' = "shutdown"
  /\ UNCHANGED <<closing, process, state, deadline, requestVars, outgoing,
                 events, workerVars, threadVars>>

\* close, as the controller is disposed of.
Close ==
  /\ pc = "ready"
  /\ closing' = TRUE
  /\ pc' = IF process = None THEN "closed"
           ELSE IF Running(process) THEN "shutdown" ELSE "close"
  /\ UNCHANGED <<process, state, deadline, requestVars, queueVars, workerVars,
                 threadVars>>

\* A missed wait is answered with a signal, the last one with nothing.
Wait ==
  /\ pc \in {"wait", "terminated", "killed"}
  /\ \/ /\ ~Running(process) \/ (pc = "killed" /\ KillExpires)
        /\ pc' = "close"
        /\ UNCHANGED signal
     \/ /\ pc = "wait" /\ Running(process)
        /\ pc' = "terminated"
        /\ Send(process, "terminate")
     \/ /\ pc = "terminated" /\ Running(process)
        /\ pc' = "killed"
        /\ Send(process, "kill")
  /\ UNCHANGED <<closing, process, state, deadline, requestVars, queueVars,
                 spawned, life, code, closed, unread, written, threadVars>>

\* The writer is told to end and the pipes are closed ...
CloseStreams ==
  /\ pc = "close"
  /\ outgoing' = Append(outgoing, None)
  /\ closed' = closed \cup {process}
  /\ pc' = "join"
  /\ UNCHANGED <<closing, process, state, deadline, requestVars, events, polled,
                 spawned, life, code, signal, unread, written, threadVars>>

\* Fault: the threads of the prior process are not joined.
NotJoined(p) == TRUE

\* ... and the threads joined.
Joined(p) ==
  limits.joinsExpire \/ {writer[p], reader[p], watch[p]} = {"ended"}

Join ==
  /\ pc = "join"
  /\ Joined(process)
  /\ process' = None /\ state' = "stopped" /\ deadline' = "none"
  /\ pc' = IF closing THEN "closed" ELSE "spawn"
  /\ UNCHANGED <<closing, requestVars, queueVars, workerVars, threadVars>>
-----------------------------------------------------------------------------
\* The threads of a process share the two queues with those of any other.

\* _writer_loop takes a line, or the sentinel ...
WriterGets(p) ==
  /\ writer[p] = "get"
  /\ outgoing # <<>>
  /\ outgoing' = Tail(outgoing)
  /\ holds' = [holds EXCEPT ![p] = Head(outgoing)]
  /\ writer' = [writer EXCEPT ![p] =
                  IF Head(outgoing) = None THEN "ended" ELSE "write"]
  /\ UNCHANGED <<mainVars, requestVars, events, polled, workerVars, delivered,
                 reader, watch>>

\* ... which it writes, while the worker reads ...
WriterWrites(p) ==
  /\ writer[p] = "write"
  /\ Running(p) /\ p \notin closed
  /\ delivered' = [delivered EXCEPT ![p] = Append(@, holds[p])]
  /\ writer' = [writer EXCEPT ![p] = "get"]
  /\ holds' = [holds EXCEPT ![p] = None]
  /\ UNCHANGED <<mainVars, requestVars, queueVars, workerVars, reader, watch>>

\* ... and ends with an OSError or a ValueError once it is gone.
WriterFails(p) ==
  /\ writer[p] = "write"
  /\ ~Running(p) \/ p \in closed
  /\ writer' = [writer EXCEPT ![p] = "ended"]
  /\ UNCHANGED <<mainVars, requestVars, queueVars, workerVars, delivered, holds,
                 reader, watch>>

\* _stdout_loop: a valid line ...
ReaderReads(p) ==
  /\ reader[p] = "read"
  /\ unread[p] > 0
  /\ unread' = [unread EXCEPT ![p] = @ - 1]
  /\ events' = Append(events, [type |-> "message", worker |-> p])
  /\ UNCHANGED <<mainVars, requestVars, outgoing, polled, spawned, life, code,
                 signal, closed, written, threadVars>>

\* ... an invalid one, which terminates the worker ...
ReaderRejects(p) ==
  /\ reader[p] = "read"
  /\ unread[p] > 0
  /\ reader' = [reader EXCEPT ![p] = "ended"]
  /\ Send(p, "terminate")
  /\ UNCHANGED <<mainVars, requestVars, queueVars, spawned, life, code, closed,
                 unread, written, delivered, writer, holds, watch>>

\* ... and the end of the pipe, or a pipe that close has closed.
ReaderEnds(p) ==
  /\ reader[p] = "read"
  /\ p \in closed \/ (~Running(p) /\ unread[p] = 0)
  /\ reader' = [reader EXCEPT ![p] = "ended"]
  /\ UNCHANGED <<mainVars, requestVars, queueVars, workerVars, delivered, writer,
                 holds, watch>>

\* _watch_loop: the process is gone ...
WatchWaits(p) ==
  /\ watch[p] = "wait"
  /\ life[p] = "exited"
  /\ outgoing' = Append(outgoing, None)
  /\ watch' = [watch EXCEPT ![p] = "join"]
  /\ UNCHANGED <<mainVars, requestVars, events, polled, workerVars, delivered,
                 writer, holds, reader>>

\* Fault: the pipe threads are joined without a timeout.
PipesAwaited(p) == {writer[p], reader[p]} = {"ended"}

PipesJoined(p) ==
  limits.joinsExpire \/ {writer[p], reader[p]} = {"ended"}

\* Fault: a thread does not look whose exit it records.
AnyProcess(p) == TRUE

Watched(p) == process = p

\* ... its pipe threads are joined and the state set, under _state_lock ...
WatchJoins(p) ==
  /\ watch[p] = "join"
  /\ PipesJoined(p)
  /\ IF Watched(p)
     THEN /\ state' = IF code[p] = 0 THEN "stopped" ELSE "failed"
          /\ deadline' = "none"
     ELSE UNCHANGED <<state, deadline>>
  /\ watch' = [watch EXCEPT ![p] = "report"]
  /\ UNCHANGED <<pc, closing, process, requestVars, queueVars, workerVars,
                 delivered, writer, holds, reader>>

\* ... and ProcessExited is put.
WatchReports(p) ==
  /\ watch[p] = "report"
  /\ events' = Append(events, [type |-> "exited", worker |-> p])
  /\ watch' = [watch EXCEPT ![p] = "ended"]
  /\ UNCHANGED <<mainVars, requestVars, outgoing, polled, workerVars, delivered,
                 writer, holds, reader>>
-----------------------------------------------------------------------------
\* The worker process.
WorkerWrites(p) ==
  /\ Running(p)
  /\ written[p] < limits.lines
  /\ written' = [written EXCEPT ![p] = @ + 1]
  /\ unread' = [unread EXCEPT ![p] = @ + 1]
  /\ UNCHANGED <<mainVars, requestVars, queueVars, spawned, life, code, signal,
                 closed, threadVars>>

\* It exits with 0 when it was asked to or its stdin was closed, and may fail
\* at any time.
WorkerExits(p) ==
  /\ Running(p)
  /\ \E returncode \in {0, 1} :
       /\ returncode = 0 =>
            p \in closed \/ Range(delivered[p]) \cap shutdowns # {}
       /\ code' = [code EXCEPT ![p] = returncode]
  /\ life' = [life EXCEPT ![p] = "exited"]
  /\ UNCHANGED <<mainVars, requestVars, queueVars, spawned, signal, closed,
                 unread, written, threadVars>>
-----------------------------------------------------------------------------
\* What the main thread does once a call has begun.
Continues ==
  \/ Put
  \/ Spawn
  \/ BeginShutdown
  \/ RequestShutdown
  \/ MarkStopping
  \/ Wait
  \/ CloseStreams
  \/ Join

Timer == Poll \/ Tick

WatchThread(p) == WatchWaits(p) \/ WatchJoins(p) \/ WatchReports(p)

WriterThread(p) == WriterGets(p) \/ WriterFails(p)

ReaderThread(p) == ReaderReads(p) \/ ReaderRejects(p) \/ ReaderEnds(p)

Next ==
  \/ Request
  \/ Start
  \/ Stop
  \/ Close
  \/ Continues
  \/ Timer
  \/ \E p \in 1..spawned :
       \/ WatchThread(p)
       \/ WriterThread(p)
       \/ WriterWrites(p)
       \/ ReaderThread(p)
       \/ WorkerWrites(p)
       \/ WorkerExits(p)

Spec == Init /\ [][Next /\ UNCHANGED limits]_vars

Killed(p) == signal[p] = "kill" /\ WorkerExits(p)

\* Blender's timer ticks and polls, the threads run and a killed process goes.
\* A worker need not read its stdin, write, or exit when it is asked to, and
\* an inherited pipe need not end.
FairSpec ==
  /\ Spec
  /\ WF_clientVars(Continues) /\ WF_clientVars(Poll) /\ WF_clientVars(Tick)
  /\ \A p \in Workers :
       /\ WF_clientVars(WatchThread(p)) /\ WF_clientVars(WriterThread(p))
       /\ (\E l \in Limits : l.joinsExpire) \/ WF_clientVars(ReaderThread(p))
       /\ WF_clientVars(Killed(p))
=============================================================================
