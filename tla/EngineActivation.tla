-------------------------- MODULE EngineActivation --------------------------
(***************************************************************************)
(* Optimize Models: optimize_models and _activate_engines of               *)
(* audio2face/model_optimize.py on their background thread, and the part   *)
(* of the RuntimeController (audio2face/runtime.py) that starts, cancels,  *)
(* polls and abandons them.  A controller is closed when Blender loads     *)
(* another file or unregisters the extension; its thread may outlive it.   *)
(***************************************************************************)
EXTENDS Integers, FiniteSets

CONSTANTS
  MaxRuns,         \* bound: optimizations started
  MaxControllers,  \* bound: controllers created
  MaxFailures,     \* bound: failed file operations
  Crashes          \* whether Blender may be killed

ASSUME EngineAssumption ==
  /\ MaxRuns \in Nat /\ MaxControllers \in Nat \ {0} /\ MaxFailures \in Nat
  /\ Crashes \in BOOLEAN

Models == {"face", "emotion"}
Runs == 1..MaxRuns
Absent == -1   \* no such file
Earlier == 0   \* an engine built before the first run

VARIABLES
  place,       \* network.trt of each model: the run that built it
  temporary,   \* for each run, the models whose candidate file exists
  backup,      \* for each run and model, the engine in its backup file
  stage,       \* where each run's thread is
  canceled,    \* each run's optimization_cancel is set
  outcome,     \* the terminal event each run reports
  started,     \* number of runs started
  current,     \* optimization_thread; 0 for None
  controllers, \* number of controllers created
  worker,      \* whether the client's worker process runs
  failures     \* number of failed file operations

fileVars == <<place, temporary, backup>>
controllerVars == <<started, current, controllers, worker>>
vars == <<fileVars, stage, canceled, outcome, controllerVars, failures>>

\* The stages of _activate_engines past its checks.
Activation == {"backup", "install", "withdraw", "restore", "discard"}
Stages == {"unstarted", "start", "face", "emotion", "commit", "cleanup",
           "ended", "killed"} \cup Activation

FilesOK ==
  /\ place \in [Models -> {Absent, Earlier} \cup Runs]
  /\ temporary \in [Runs -> SUBSET Models]
  /\ backup \in [Runs -> [Models -> {Absent, Earlier} \cup Runs]]

RunsOK ==
  /\ stage \in [Runs -> Stages]
  /\ outcome \in [Runs -> {"complete", "canceled", "error"}]

FlagsOK == canceled \in [Runs -> BOOLEAN] /\ worker \in BOOLEAN

CountersOK ==
  /\ started \in 0..MaxRuns /\ current \in 0..started
  /\ controllers \in 0..MaxControllers
  /\ failures \in 0..MaxFailures

TypeOK == FilesOK /\ RunsOK /\ FlagsOK /\ CountersOK

Init ==
  /\ place \in [Models -> {Absent, Earlier}]
  /\ temporary = [run \in Runs |-> {}]
  /\ backup = [run \in Runs |-> [model \in Models |-> Absent]]
  /\ stage = [run \in Runs |-> "unstarted"]
  /\ canceled = [run \in Runs |-> FALSE]
  /\ outcome = [run \in Runs |-> "complete"]
  /\ started = 0 /\ current = 0 /\ controllers = 1
  /\ worker = FALSE
  /\ failures = 0

\* The tuple of candidates is (face, emotion).
First(models) == IF "face" \in models THEN "face" ELSE "emotion"
Last(models) == IF "emotion" \in models THEN "emotion" ELSE "face"

Go(run, next) == stage' = [stage EXCEPT ![run] = next]

\* Fault: a failure does not reach the terminal event.
FailSilently(run, next) ==
  /\ failures < MaxFailures
  /\ failures' = failures + 1
  /\ UNCHANGED outcome
  /\ Go(run, next)

\* Fault: it is reported as a kind of event the controller does not know.
FailOddly(run, next) ==
  /\ failures < MaxFailures
  /\ failures' = failures + 1
  /\ outcome' = [outcome EXCEPT ![run] = "failed"]
  /\ Go(run, next)

\* A file operation or a check raises: whatever the run has done since, the
\* exception that leaves it last is its terminal event.
Fail(run, next) ==
  /\ failures < MaxFailures
  /\ failures' = failures + 1
  /\ outcome' = [outcome EXCEPT ![run] = "error"]
  /\ Go(run, next)
-----------------------------------------------------------------------------
\* The controller, on Blender's main thread.

\* Fault: the cancel event is set without commit_lock.
AnyTime(run) == TRUE

\* commit_lock is free: the run is not activating its engines.
CommitLockFree(run) ==
  run \notin {other \in Runs : stage[other] \in Activation}

OptimizeModels ==
  /\ current = 0 /\ ~worker
  /\ started < MaxRuns
  /\ started' = started + 1
  /\ current' = started'
  /\ Go(started', "start")
  /\ UNCHANGED <<fileVars, canceled, outcome, controllers, worker, failures>>

CancelModelOptimization ==
  /\ current # 0
  /\ CommitLockFree(current)
  /\ canceled' = [canceled EXCEPT ![current] = TRUE]
  /\ UNCHANGED <<fileVars, stage, outcome, controllerVars, failures>>

\* _poll_optimization_events takes the terminal event of the thread.
PollOptimization ==
  /\ current # 0
  /\ stage[current] = "ended"
  /\ current' = 0
  /\ UNCHANGED <<fileVars, stage, canceled, outcome, started, controllers,
                 worker, failures>>

\* start: require_inference_spec needs both engines.
StartWorker ==
  /\ current = 0 /\ ~worker
  /\ \A model \in Models : place[model] # Absent
  /\ worker' = TRUE
  /\ UNCHANGED <<fileVars, stage, canceled, outcome, started, current,
                 controllers, failures>>

WorkerExits ==
  /\ worker
  /\ worker' = FALSE
  /\ UNCHANGED <<fileVars, stage, canceled, outcome, started, current,
                 controllers, failures>>

\* close, then the controller of the next file.  The thread is joined for
\* SHUTDOWN_TIMEOUT_SECONDS only, so it may be anywhere.
CloseController ==
  /\ controllers < MaxControllers
  /\ CommitLockFree(current)
  /\ canceled' = [run \in Runs |-> canceled[run] \/ run = current]
  /\ current' = 0 /\ worker' = FALSE
  /\ controllers' = controllers + 1
  /\ UNCHANGED <<fileVars, stage, outcome, started, failures>>

\* Blender is killed with its threads and its worker; the files stay.
Crash ==
  /\ Crashes
  /\ controllers < MaxControllers
  /\ stage' = [run \in Runs |->
       IF stage[run] \in {"unstarted", "ended"} THEN stage[run] ELSE "killed"]
  /\ current' = 0 /\ worker' = FALSE
  /\ controllers' = controllers + 1
  /\ UNCHANGED <<fileVars, canceled, outcome, started, failures>>
-----------------------------------------------------------------------------
\* optimize_models, on the thread of a run.

\* Fault: a canceled run goes on.
NeverSeen(run) == FALSE

\* _check_cancelled
CancelSeen(run) == canceled[run]

\* A run is canceled before it builds, while trtexec runs, or under the lock.
StopCanceled(run) ==
  /\ stage[run] \in {"start", "face", "emotion", "commit"}
  /\ CancelSeen(run)
  /\ outcome' = [outcome EXCEPT ![run] = "canceled"]
  /\ Go(run, "cleanup")
  /\ UNCHANGED <<fileVars, canceled, controllerVars, failures>>

BuildStarts(run) ==
  /\ stage[run] = "start"
  /\ ~CancelSeen(run)
  /\ Go(run, "face")
  /\ UNCHANGED <<fileVars, canceled, outcome, controllerVars, failures>>

\* _build_engine returns a candidate: trtexec may finish before the loop sees
\* the cancel event.
BuildEngine(run, model) ==
  /\ stage[run] = model
  /\ temporary' = [temporary EXCEPT ![run] = @ \cup {model}]
  /\ Go(run, IF model = "face" THEN "emotion" ELSE "commit")
  /\ UNCHANGED <<place, backup, canceled, outcome, controllerVars, failures>>

\* The log directory is missing, _build_engine raises, or _activate_engines
\* refuses a candidate or a destination: nothing was moved yet.
BuildFails(run) ==
  /\ \/ stage[run] \in {"start", "face", "emotion"}
     \/ stage[run] = "commit" /\ ~CancelSeen(run)
  /\ Fail(run, "cleanup")
  /\ UNCHANGED <<fileVars, canceled, controllerVars>>

\* commit_lock is taken and the cancel event looked at a last time.
Commit(run) ==
  /\ stage[run] = "commit"
  /\ ~CancelSeen(run)
  /\ Go(run, "backup")
  /\ UNCHANGED <<fileVars, canceled, outcome, controllerVars, failures>>

\* Fault: the engines in place are overwritten.
NothingToBackUp(run) == {}

ToBackUp(run) == {model \in Models : place[model] # Absent}

BackUp(run) ==
  /\ stage[run] = "backup"
  /\ IF ToBackUp(run) = {}
     THEN Go(run, "install") /\ UNCHANGED <<place, backup>>
     ELSE LET model == First(ToBackUp(run)) IN
          /\ backup' = [backup EXCEPT ![run][model] = place[model]]
          /\ place' = [place EXCEPT ![model] = Absent]
          /\ UNCHANGED stage
  /\ UNCHANGED <<temporary, canceled, outcome, controllerVars, failures>>

Install(run) ==
  /\ stage[run] = "install"
  /\ LET model == First(temporary[run]) IN
     /\ place' = [place EXCEPT ![model] = run]
     /\ temporary' = [temporary EXCEPT ![run] = @ \ {model}]
  /\ Go(run, IF temporary'[run] = {} THEN "discard" ELSE "install")
  /\ UNCHANGED <<backup, canceled, outcome, controllerVars, failures>>

\* Fault: the engines already installed are left in place.
NothingToWithdraw(run) == {}

Installed(run) == {model \in Models : place[model] = run}

BackedUp(run) == {model \in Models : backup[run][model] # Absent}

\* The handler of _activate_engines: installed engines are removed ...
Withdraw(run) ==
  /\ stage[run] = "withdraw"
  /\ IF Installed(run) = {}
     THEN Go(run, "restore") /\ UNCHANGED place
     ELSE /\ place' = [place EXCEPT ![Last(Installed(run))] = Absent]
          /\ UNCHANGED stage
  /\ UNCHANGED <<temporary, backup, canceled, outcome, controllerVars,
                 failures>>

\* ... and the earlier ones put back.
Restore(run) ==
  /\ stage[run] = "restore"
  /\ IF BackedUp(run) = {}
     THEN Go(run, "cleanup") /\ UNCHANGED <<place, backup>>
     ELSE LET model == Last(BackedUp(run)) IN
          /\ place' = [place EXCEPT ![model] = backup[run][model]]
          /\ backup' = [backup EXCEPT ![run][model] = Absent]
          /\ UNCHANGED stage
  /\ UNCHANGED <<temporary, canceled, outcome, controllerVars, failures>>

\* The backups of a complete activation are removed.
Discard(run) ==
  /\ stage[run] = "discard"
  /\ IF BackedUp(run) = {}
     THEN Go(run, "cleanup") /\ UNCHANGED backup
     ELSE /\ backup' = [backup EXCEPT ![run][First(BackedUp(run))] = Absent]
          /\ UNCHANGED stage
  /\ UNCHANGED <<place, temporary, canceled, outcome, controllerVars, failures>>

\* A replace or an unlink raises: a backup or an install is rolled back, a
\* rollback or a discard is given up.
ActivationFails(run) ==
  /\ stage[run] \in Activation
  /\ Fail(run, IF stage[run] \in {"backup", "install"} THEN "withdraw"
               ELSE "cleanup")
  /\ UNCHANGED <<fileVars, canceled, controllerVars>>

\* The finally clause removes the candidates, then run_optimization puts the
\* terminal event; an unlink that raises ends the clause and is the outcome.
CleanUp(run) ==
  /\ stage[run] = "cleanup"
  /\ IF temporary[run] = {}
     THEN Go(run, "ended") /\ UNCHANGED temporary
     ELSE /\ temporary' = [temporary EXCEPT ![run] = @ \ {First(@)}]
          /\ UNCHANGED stage
  /\ UNCHANGED <<place, backup, canceled, outcome, controllerVars, failures>>

CleanUpFails(run) ==
  /\ stage[run] = "cleanup" /\ temporary[run] # {}
  /\ Fail(run, "ended")
  /\ UNCHANGED <<fileVars, canceled, controllerVars>>
-----------------------------------------------------------------------------
MainThread ==
  \/ OptimizeModels
  \/ CancelModelOptimization
  \/ PollOptimization
  \/ StartWorker
  \/ WorkerExits
  \/ CloseController
  \/ Crash

Failure(run) == BuildFails(run) \/ ActivationFails(run) \/ CleanUpFails(run)

\* What the thread does on its own; trtexec may run for ever.
Proceeds(run) ==
  \/ StopCanceled(run)
  \/ BuildStarts(run)
  \/ Commit(run)
  \/ BackUp(run)
  \/ Install(run)
  \/ Withdraw(run)
  \/ Restore(run)
  \/ Discard(run)
  \/ CleanUp(run)

Thread(run) ==
  \/ Proceeds(run)
  \/ \E model \in Models : BuildEngine(run, model)
  \/ Failure(run)

Next == MainThread \/ \E run \in 1..started : Thread(run)

Spec == Init /\ [][Next]_vars

\* The thread runs and Blender's timer polls.
FairSpec ==
  Spec /\ WF_vars(PollOptimization) /\ \A run \in Runs : WF_vars(Proceeds(run))
=============================================================================
