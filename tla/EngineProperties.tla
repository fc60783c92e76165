-------------------------- MODULE EngineProperties --------------------------
(***************************************************************************)
(* What Optimize Models guarantees about the engines of the selected       *)
(* models, whichever step fails, is canceled or is the last one.           *)
(***************************************************************************)
EXTENDS EngineActivation

\* PairNeverMixed: two engines in place always come from the same run, even
\* after a crash or a failed rollback: both earlier engines leave before the
\* first new one arrives, so a broken pair is never loadable.
PairNeverMixed ==
  (\A model \in Models : place[model] # Absent) =>
    place["face"] = place["emotion"]

\* StableUnderWorker: no engine changes under a running worker, although the
\* thread of a closed controller may still run when the next one starts it.
StableUnderWorker == [][worker => UNCHANGED place]_vars

\* OnlyCurrentRunMoves: an engine is moved only by the run its controller
\* still waits for: a run that was abandoned by close never activates.
OnlyCurrentRunMoves ==
  [][place' # place => current # 0 /\ stage[current] \in Activation]_vars

\* OutcomeIsTrue: a run reported complete has activated both its engines, one
\* reported canceled neither, and both have left no file behind.
OutcomeIsTrue ==
  [][\A run \in Runs :
       (stage[run] # "ended" /\ stage'[run] = "ended" /\ current = run) =>
         /\ outcome'[run] = "complete" =>
              place' = [model \in Models |-> run]
         /\ outcome'[run] = "canceled" => Installed(run)' = {}
         /\ outcome'[run] # "error" =>
              BackedUp(run)' = {} /\ temporary'[run] = {}]_vars

\* CancelIsHonored: a canceled run ends and its controller becomes free.
CancelIsHonored ==
  \A run \in Runs : (current = run /\ canceled[run]) ~> (current # run)

-----------------------------------------------------------------------------
\* The engines a rollback of the activation in progress would leave.
Activating ==
  {run \in Runs : stage[run] \in {"backup", "install", "withdraw", "restore"}}

Restorable ==
  [model \in Models |->
    IF \E run \in Activating : backup[run][model] # Absent
    THEN LET run == CHOOSE run \in Activating : backup[run][model] # Absent
         IN  backup[run][model]
    ELSE IF place[model] \in Activating THEN Absent
    ELSE place[model]]

\* What no rollback promises to survive.
Damaged == failures > 1 \/ \E run \in Runs : stage[run] = "killed"

\* What an activation has committed to.
Lost == -2
Committed == IF Damaged THEN [model \in Models |-> Lost] ELSE Restorable

Store == INSTANCE EngineStore WITH store <- Committed

\* AtomicActivation ("Build and atomically activate both selected TensorRT
\* engines."): the replaces and unlinks of an activation, rolled back or not,
\* amount to one atomic step of EngineStore or to none, until Blender is killed
\* or a second operation fails.
AtomicActivation == Store!Spec
=============================================================================
