------------------------- MODULE SidecarProperties -------------------------
(***************************************************************************)
(* What the RuntimeController relies on in its SidecarClient, across       *)
(* crashes and restarts of the worker.                                     *)
(***************************************************************************)
EXTENDS Sidecar

\* StoppedMeansGone: a client that says stopped or failed has no process left,
\* whoever set the state.  Optimize Models replaces the engines and start
\* spawns the next worker on the strength of that state alone.
StoppedMeansGone ==
  state \in {"stopped", "failed"} => \A p \in Workers : ~Running(p)

\* Delivered: as long as threads end in time, a worker is written the requests
\* queued for it, in their order and without a gap, and none queued for the
\* worker before it, although the threads of both take lines off the same
\* queue; and (tests/test_sidecar.py: shutdown_events[-1] is exit_event)
\* ProcessExited is the last event of its worker, and nothing of an earlier
\* worker comes after an event of a later one.
DeliveredInOrder ==
  \A p \in Workers : IsPrefix(delivered[p], accepted[p])
ExitIsLast ==
  \A i, j \in 1..Len(events) : i < j =>
    \/ events[i].worker < events[j].worker
    \/ events[i].worker = events[j].worker /\ events[i].type = "message"
Delivered == ~limits.joinsExpire => DeliveredInOrder /\ ExitIsLast

\* WorkerStops: a shutdown ends the process, whatever the worker does: the
\* deadlines of tick escalate to a kill.
WorkerStops ==
  \A p \in Workers : (process = p /\ state = "stopping") ~> ~Running(p)

\* ExitReported: the controller is told of the exit of its worker, unless it
\* replaces or closes the client first.
ExitReported ==
  \A p \in Workers :
    (process = p /\ life[p] = "exited") ~>
      \/ process # p
      \/ \E i \in 1..polled : events[i] = [type |-> "exited", worker |-> p]

\* StoppingEnds (docs/architecture.md: "Any live worker --Stop Worker-->
\* STOPPING --> IDLE"): STOPPING is left again.
StoppingEnds == (state = "stopping") ~> (state # "stopping")
=============================================================================
