-------------------------- MODULE WorkerInvariant --------------------------
(***************************************************************************)
(* The inductive invariant behind ExactlyOneReply and IdleIsReleased: where *)
(* the two threads of the worker can be together, and who owns a request    *)
(* whose answer was left to the operation thread.                           *)
(***************************************************************************)
EXTENDS WorkerProperties

Ending == thread \in {"reject", "finish"}

\* What a place of one thread says about the rest of the state.
Places ==
  /\ thread \in {"settings", "acknowledge", "drain"} => kind = "stream"
  /\ thread = "render" => kind = "track"
  /\ Ending => committed /\ backend = "none" /\ audio = 0 /\ pc # "displace"
  /\ pc = "displace" => /\ operation # 0
                        /\ received[Len(received)].method = "track_render"

\* Until the terminal event is committed, a deferred request that is queued is
\* registered as pending ...
QueueOwned ==
  ~Ending => \A id \in queue : received[id].method \in Deferred => id \in pending

\* ... and so are the settings taken by the operation thread ...
BatchOwned ==
  thread \in {"settings", "acknowledge"} =>
    \A id \in batch : /\ id \in pending /\ id \notin queue
                      /\ received[id].method = "stream_settings"

\* ... and the command of a track.
CommandOwned ==
  (kind = "track" /\ thread \in {"command", "render"}) =>
    command \in pending /\ command \notin queue

\* The queue of a track holds its own commands only.
QueueOfTrack ==
  kind = "track" => \A id \in queue : received[id].method \in TrackMethods

\* Ownership: as long as the operation may still answer it, a deferred request
\* has one owner that will: the queue, the batch of settings being applied or
\* the command being executed; none is in two of them.
Ownership == QueueOwned /\ BatchOwned /\ CommandOwned /\ QueueOfTrack

\* IInv: the inductive invariant of the worker.
IInv == TypeOK /\ IdleIsReleased /\ Places /\ Ownership /\ ExactlyOneReply
=============================================================================
