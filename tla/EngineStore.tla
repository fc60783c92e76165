---------------------------- MODULE EngineStore ----------------------------
(***************************************************************************)
(* What Optimize Models promises: the pair of TensorRT engines the worker  *)
(* loads is replaced as a whole, by one run, while no worker is running.   *)
(***************************************************************************)
EXTENDS Integers

CONSTANTS
  Models,  \* the two selected models
  MaxRuns, \* bound: optimizations started
  Lost     \* an engine of which nothing is known

Absent == -1   \* no network.trt
Earlier == 0   \* a network.trt of before the first run

VARIABLES
  store,  \* for each model, the run that built its engine
  worker  \* whether a worker process runs

vars == <<store, worker>>

Init ==
  /\ store \in [Models -> {Absent, Earlier}]
  /\ worker = FALSE

Activate(run) ==
  /\ ~worker
  /\ store' = [model \in Models |-> run]
  /\ UNCHANGED worker

\* A crash, or a failure of the rollback of a failure.
Damage ==
  /\ store' = [model \in Models |-> Lost]
  /\ worker' \in {worker, FALSE}

StartWorker ==
  /\ \A model \in Models : store[model] # Absent
  /\ worker' = TRUE
  /\ UNCHANGED store

StopWorker == worker' = FALSE /\ UNCHANGED store

Next ==
  \/ StartWorker
  \/ StopWorker
  \/ Damage
  \/ \E run \in 1..MaxRuns : Activate(run)

Spec == Init /\ [][Next]_vars
=============================================================================
