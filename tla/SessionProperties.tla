------------------------- MODULE SessionProperties -------------------------
(***************************************************************************)
(* What the user of a session relies on: sources of PCM, the presentation  *)
(* on the meshes, and the model that stays ready for the next input.       *)
(***************************************************************************)
EXTENDS StreamSession

\* ConformantWorkerIsKept: a worker that keeps the contract and was not asked to
\* stop is not shut down for a "contract violation": whatever edits, cancels,
\* mode changes, failures and removals of the scene crossed its lines, no event
\* finds its operation unknown and no frame its presentation gone.  The one
\* exception is an upload whose scene is removed: a chunk already on its way is
\* refused with operation_not_found, and that reply counts as a violation.
ConformantWorkerIsKept ==
  [][rejected' /\ ~rejected
       => ~CanRequest \/ (track.cancelRequested /\ ~available)]_vars

\* AudioInOrder: what the worker hears of one Stream is one uninterrupted piece
\* of what the source pushed, in order, and no chunk is heard twice, not even
\* by a Stream and the one that replaced it; stream_end is sent when the source
\* has finished and every chunk it pushed was sent.
InOrder ==
  /\ \A o \in Operations : \A i \in 1..Len(heard[o]) :
       heard[o][i] = heard[o][1] + i - 1
  /\ \A o, later \in Operations : o < later =>
       \A i \in DOMAIN heard[o] : \A j \in DOMAIN heard[later] :
         heard[o][i] < heard[later][j]
WholeSourceBeforeEnd ==
  stream.endSent /\ ~stream.stopRequested /\ process = "up"
    => ingress.ending /\ ingress.chunks = <<>>
AudioInOrder == InOrder /\ WholeSourceBeforeEnd

\* OneCredit: while the worker runs the Stream, the credit for the next chunk
\* is in exactly one place: with the controller, in a chunk on its way, in a
\* chunk the worker has not consumed, or in a stream_credit on its way back.
\* Two would overrun the worker; none would stall the source for ever.
ChunksToRead ==
  Cardinality({i \in DOMAIN inbox : /\ inbox[i].method = "stream_chunk"
                                    /\ inbox[i].operation = stream.id})
CreditsToHandle ==
  Cardinality({i \in DOMAIN lines : /\ lines[i].type = "event"
                                    /\ lines[i].name = "stream_credit"
                                    /\ lines[i].operation = stream.id})
OneCredit ==
  stream.id # None /\ Runs(stream.id) /\ ~stream.stopRequested /\ ~expected
    => ChunksToRead + serving.chunks + CreditsToHandle
         + (IF stream.credit THEN 1 ELSE 0) = 1

\* OneOwner: the meshes are driven by the active Stream until it is canceled,
\* failed or released, and by nothing else: frames of a Stream that was given
\* up never reach them.  A Stream and a Selected track never coexist, and a
\* start is only on its way to a worker that has ended the operation before.
PresentationFollowsStream ==
  live.id = IF stream.stopRequested THEN None ELSE stream.id
OneOperation ==
  /\ stream.id = None \/ track.id = None
  /\ (\E i \in DOMAIN inbox : inbox[i].method \in Starts)
       => serving.phase \in {"idle", "finishing"}
OneOwner == PresentationFollowsStream /\ OneOperation

\* StreamIsReleased: a Stream whose cancel or end the worker accepted leaves
\* room for the next operation, whatever fails meanwhile.  The one exception is
\* a Stream that is canceled after its worker ended it (CanceledIsReleased).
StreamIsReleased ==
  \A o \in Operations :
    (stream.id = o /\ serving.id = o /\ (serving.canceled \/ serving.end))
      ~> (stream.id # o \/ (stream.workerEnded /\ stream.stopRequested))

\* CanceledIsReleased: a Stream that is canceled is over some time later.
\* "cancel stops queued Stream execution without draining and returns the
\* model to ready state" (docs/architecture.md).
CanceledIsReleased ==
  \A o \in Operations :
    (stream.id = o /\ stream.stopRequested) ~> (stream.id # o)
=============================================================================
