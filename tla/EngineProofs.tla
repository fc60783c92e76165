---------------------------- MODULE EngineProofs ----------------------------
(***************************************************************************)
(* The engines of the two models, for every number of runs, controllers    *)
(* and failures: the pair in place is never mixed, only the current run    *)
(* moves an engine, and none moves under a worker; an activation, rolled   *)
(* back or not, is one step of EngineStore or none; and what a run reports *)
(* of itself is true of the files.                                         *)
(***************************************************************************)
EXTENDS EngineProperties, TLAPS

\* A run no controller waits for is canceled before it may activate.
Abandoned ==
  \A run \in Runs : run # current =>
    /\ stage[run] \notin Activation
    /\ stage[run] \in {"start", "face", "emotion", "commit"} => canceled[run]

\* Nothing of a run is in place before it activates.
Fresh ==
  \A run \in Runs :
    /\ run > started => stage[run] = "unstarted"
    /\ stage[run] \in {"unstarted", "start", "face", "emotion", "commit"} =>
         \A model \in Models : backup[run][model] = Absent

WorkerAlone == worker => current = 0

\* What a run has moved while it activates: the engines it found came from one
\* earlier run, and its own meet none of them.
Holds(run, earlier) ==
  /\ \A model \in Models : backup[run][model] \in {Absent, earlier}
  /\ \/ \A model \in Models : place[model] \in {Absent, earlier}
     \/ \A model \in Models : place[model] \in {Absent, run}
  /\ stage[run] \in {"backup", "restore"} =>
       \A model \in Models : place[model] \in {Absent, earlier}
  /\ stage[run] = "install" =>
       \A model \in Models : place[model] \in {Absent, run}

Moving == {"backup", "install", "withdraw", "restore"}

Separate ==
  \A run \in Runs : stage[run] \in Moving =>
    \E earlier \in {Earlier} \cup Runs : Holds(run, earlier)

EngineInv ==
  TypeOK /\ Abandoned /\ Fresh /\ WorkerAlone /\ Separate /\ PairNeverMixed
-----------------------------------------------------------------------------
\* InitTyped: the first controller and the files it finds are well typed.
LEMMA InitTyped == Init => TypeOK
<1> SUFFICES ASSUME Init PROVE TypeOK
  OBVIOUS
<1>1. FilesOK
  BY DEF Init, FilesOK, Runs
<1>2. RunsOK
  BY DEF Init, RunsOK, Stages
<1>3. FlagsOK
  BY DEF Init, FlagsOK
<1>4. CountersOK
  BY EngineAssumption DEF Init, CountersOK
<1>5. QED
  BY <1>1, <1>2, <1>3, <1>4 DEF TypeOK

\* ChosenModel: First and Last name a model, of the set they are given unless
\* it is empty.
LEMMA ChosenModel ==
  ASSUME NEW models \in SUBSET Models
  PROVE  /\ First(models) \in Models /\ Last(models) \in Models
         /\ models # {} => First(models) \in models /\ Last(models) \in models
  BY DEF First, Last, Models

\* FilesTyped: every file holds the engine of a run, or an earlier one, or nothing.
LEMMA FilesTyped ==
  ASSUME TypeOK, [Next]_vars
  PROVE  FilesOK'
<1> USE DEF TypeOK, FilesOK
<1>1. CASE OptimizeModels
  BY <1>1 DEF OptimizeModels, fileVars
<1>2. CASE CancelModelOptimization
  BY <1>2 DEF CancelModelOptimization, fileVars
<1>3. CASE PollOptimization
  BY <1>3 DEF PollOptimization, fileVars
<1>4. CASE StartWorker
  BY <1>4 DEF StartWorker, fileVars
<1>5. CASE WorkerExits
  BY <1>5 DEF WorkerExits, fileVars
<1>6. CASE CloseController
  BY <1>6 DEF CloseController, fileVars
<1>7. CASE Crash
  BY <1>7 DEF Crash, fileVars
<1>8. CASE UNCHANGED vars
  BY <1>8 DEF vars, fileVars
<1> SUFFICES ASSUME NEW run \in 1..started, Thread(run) PROVE  FilesOK'
  BY <1>1, <1>2, <1>3, <1>4, <1>5, <1>6, <1>7, <1>8 DEF Next, MainThread
<1>9. run \in Runs
  BY EngineAssumption DEF CountersOK, Runs
<1>10. CASE StopCanceled(run)
  BY <1>9, <1>10 DEF StopCanceled, fileVars
<1>11. CASE BuildStarts(run)
  BY <1>9, <1>11 DEF BuildStarts, fileVars
<1>12. CASE Commit(run)
  BY <1>9, <1>12 DEF Commit, fileVars
<1>13. CASE BackUp(run)
  <2>1. First(ToBackUp(run)) \in Models
    BY ChosenModel DEF ToBackUp
  <2>2. PICK model \in Models :
           \/ backup' = backup
           \/ \E engine \in {Absent, Earlier} \cup Runs :
                backup' = [backup EXCEPT ![run][model] = engine]
    BY <1>9, <1>13, <2>1 DEF BackUp
  <2>3. backup' \in [Runs -> [Models -> {Absent, Earlier} \cup Runs]]
    BY <2>2, <1>9
  <2>4. QED
    BY <1>9, <1>13, <2>1, <2>3 DEF BackUp
<1>14. CASE Install(run)
  <2>1. First(temporary[run]) \in Models
    BY <1>9, ChosenModel
  <2>2. QED
    BY <1>9, <1>14, <2>1 DEF Install
<1>15. CASE Withdraw(run)
  <2>1. Last(Installed(run)) \in Models
    BY ChosenModel DEF Installed
  <2>2. QED
    BY <1>9, <1>15, <2>1 DEF Withdraw
<1>16. CASE Restore(run)
  <2>1. Last(BackedUp(run)) \in Models
    BY ChosenModel DEF BackedUp
  <2>2. PICK model \in Models :
           \/ backup' = backup
           \/ \E engine \in {Absent, Earlier} \cup Runs :
                backup' = [backup EXCEPT ![run][model] = engine]
    BY <1>9, <1>16, <2>1 DEF Restore
  <2>3. backup' \in [Runs -> [Models -> {Absent, Earlier} \cup Runs]]
    BY <2>2, <1>9
  <2>4. QED
    BY <1>9, <1>16, <2>1, <2>3 DEF Restore
<1>17. CASE Discard(run)
  <2>1. First(BackedUp(run)) \in Models
    BY ChosenModel DEF BackedUp
  <2>2. PICK model \in Models :
           \/ backup' = backup
           \/ \E engine \in {Absent, Earlier} \cup Runs :
                backup' = [backup EXCEPT ![run][model] = engine]
    BY <1>9, <1>17, <2>1 DEF Discard
  <2>3. backup' \in [Runs -> [Models -> {Absent, Earlier} \cup Runs]]
    BY <2>2, <1>9
  <2>4. QED
    BY <1>9, <1>17, <2>1, <2>3 DEF Discard
<1>18. CASE CleanUp(run)
  BY <1>9, <1>18 DEF CleanUp
<1>19. CASE \E model \in Models : BuildEngine(run, model)
  BY <1>9, <1>19 DEF BuildEngine, fileVars
<1>20. CASE BuildFails(run)
  BY <1>9, <1>20 DEF BuildFails, Fail, fileVars
<1>21. CASE ActivationFails(run)
  BY <1>9, <1>21 DEF ActivationFails, Fail, fileVars
<1>22. CASE CleanUpFails(run)
  BY <1>9, <1>22 DEF CleanUpFails, Fail, fileVars
<1>23. QED
  BY <1>10, <1>11, <1>12, <1>13, <1>14, <1>15, <1>16,
     <1>17, <1>18, <1>19, <1>20, <1>21, <1>22
     DEF Thread, Proceeds, Failure

\* RunsTyped: every run is at a known stage and reports a known event.
LEMMA RunsTyped ==
  ASSUME TypeOK, [Next]_vars
  PROVE  RunsOK'
<1> USE DEF TypeOK, RunsOK
<1>1. CASE OptimizeModels
  BY <1>1, EngineAssumption DEF OptimizeModels, CountersOK, Runs, Stages,
     Activation, Go
<1>2. CASE CancelModelOptimization
  BY <1>2 DEF CancelModelOptimization
<1>3. CASE PollOptimization
  BY <1>3 DEF PollOptimization
<1>4. CASE StartWorker
  BY <1>4 DEF StartWorker
<1>5. CASE WorkerExits
  BY <1>5 DEF WorkerExits
<1>6. CASE CloseController
  BY <1>6 DEF CloseController
<1>7. CASE Crash
  BY <1>7 DEF Crash, Stages, Activation, Go
<1>8. CASE UNCHANGED vars
  BY <1>8 DEF vars
<1> SUFFICES ASSUME NEW run \in 1..started, Thread(run) PROVE  RunsOK'
  BY <1>1, <1>2, <1>3, <1>4, <1>5, <1>6, <1>7, <1>8 DEF Next, MainThread
<1>9. run \in Runs
  BY EngineAssumption DEF CountersOK, Runs
<1>10. CASE StopCanceled(run)
  BY <1>9, <1>10 DEF StopCanceled, Stages, Activation, Go
<1>11. CASE BuildStarts(run)
  BY <1>9, <1>11 DEF BuildStarts, Stages, Activation, Go
<1>12. CASE Commit(run)
  BY <1>9, <1>12 DEF Commit, Stages, Activation, Go
<1>13. CASE BackUp(run)
  BY <1>9, <1>13 DEF BackUp, Stages, Activation, Go
<1>14. CASE Install(run)
  BY <1>9, <1>14 DEF Install, Stages, Activation, Go
<1>15. CASE Withdraw(run)
  BY <1>9, <1>15 DEF Withdraw, Stages, Activation, Go
<1>16. CASE Restore(run)
  BY <1>9, <1>16 DEF Restore, Stages, Activation, Go
<1>17. CASE Discard(run)
  BY <1>9, <1>17 DEF Discard, Stages, Activation, Go
<1>18. CASE CleanUp(run)
  BY <1>9, <1>18 DEF CleanUp, Stages, Activation, Go
<1>19. CASE \E model \in Models : BuildEngine(run, model)
  BY <1>9, <1>19 DEF BuildEngine, Stages, Activation, Go
<1>20. CASE BuildFails(run)
  BY <1>9, <1>20 DEF BuildFails, Fail, Stages, Activation, Go
<1>21. CASE ActivationFails(run)
  BY <1>9, <1>21 DEF ActivationFails, Fail, Stages, Activation, Go
<1>22. CASE CleanUpFails(run)
  BY <1>9, <1>22 DEF CleanUpFails, Fail, Stages, Activation, Go
<1>23. QED
  BY <1>10, <1>11, <1>12, <1>13, <1>14, <1>15, <1>16,
     <1>17, <1>18, <1>19, <1>20, <1>21, <1>22
     DEF Thread, Proceeds, Failure

\* FlagsTyped: the cancel events and the worker's presence are Booleans.
LEMMA FlagsTyped ==
  ASSUME TypeOK, [Next]_vars
  PROVE  FlagsOK'
<1> USE DEF TypeOK, FlagsOK
<1>1. CASE OptimizeModels
  BY <1>1 DEF OptimizeModels, controllerVars
<1>2. CASE CancelModelOptimization
  BY <1>2 DEF CancelModelOptimization, controllerVars
<1>3. CASE PollOptimization
  BY <1>3 DEF PollOptimization, controllerVars
<1>4. CASE StartWorker
  BY <1>4 DEF StartWorker, controllerVars
<1>5. CASE WorkerExits
  BY <1>5 DEF WorkerExits, controllerVars
<1>6. CASE CloseController
  BY <1>6 DEF CloseController, controllerVars
<1>7. CASE Crash
  BY <1>7 DEF Crash, controllerVars
<1>8. CASE UNCHANGED vars
  BY <1>8 DEF vars, controllerVars
<1> SUFFICES ASSUME NEW run \in 1..started, Thread(run) PROVE  FlagsOK'
  BY <1>1, <1>2, <1>3, <1>4, <1>5, <1>6, <1>7, <1>8 DEF Next, MainThread
<1>9. run \in Runs
  BY EngineAssumption DEF CountersOK, Runs
<1>10. CASE StopCanceled(run)
  BY <1>10 DEF StopCanceled, controllerVars
<1>11. CASE BuildStarts(run)
  BY <1>11 DEF BuildStarts, controllerVars
<1>12. CASE Commit(run)
  BY <1>12 DEF Commit, controllerVars
<1>13. CASE BackUp(run)
  BY <1>13 DEF BackUp, controllerVars
<1>14. CASE Install(run)
  BY <1>14 DEF Install, controllerVars
<1>15. CASE Withdraw(run)
  BY <1>15 DEF Withdraw, controllerVars
<1>16. CASE Restore(run)
  BY <1>16 DEF Restore, controllerVars
<1>17. CASE Discard(run)
  BY <1>17 DEF Discard, controllerVars
<1>18. CASE CleanUp(run)
  BY <1>18 DEF CleanUp, controllerVars
<1>19. CASE \E model \in Models : BuildEngine(run, model)
  BY <1>19 DEF BuildEngine, Models, controllerVars
<1>20. CASE BuildFails(run)
  BY <1>20 DEF BuildFails, Fail, controllerVars
<1>21. CASE ActivationFails(run)
  BY <1>21 DEF ActivationFails, Fail, controllerVars
<1>22. CASE CleanUpFails(run)
  BY <1>22 DEF CleanUpFails, Fail, controllerVars
<1>23. QED
  BY <1>10, <1>11, <1>12, <1>13, <1>14, <1>15, <1>16,
     <1>17, <1>18, <1>19, <1>20, <1>21, <1>22
     DEF Thread, Proceeds, Failure

\* CountersTyped: no counter leaves its bounds.
LEMMA CountersTyped ==
  ASSUME TypeOK, [Next]_vars
  PROVE  CountersOK'
<1> USE DEF TypeOK, CountersOK
<1>1. CASE OptimizeModels
  BY <1>1, EngineAssumption DEF OptimizeModels, controllerVars
<1>2. CASE CancelModelOptimization
  BY <1>2, EngineAssumption DEF CancelModelOptimization, controllerVars
<1>3. CASE PollOptimization
  BY <1>3, EngineAssumption DEF PollOptimization, controllerVars
<1>4. CASE StartWorker
  BY <1>4, EngineAssumption DEF StartWorker, controllerVars
<1>5. CASE WorkerExits
  BY <1>5, EngineAssumption DEF WorkerExits, controllerVars
<1>6. CASE CloseController
  BY <1>6, EngineAssumption DEF CloseController, controllerVars
<1>7. CASE Crash
  BY <1>7, EngineAssumption DEF Crash, controllerVars
<1>8. CASE UNCHANGED vars
  BY <1>8 DEF vars, controllerVars
<1> SUFFICES ASSUME NEW run \in 1..started, Thread(run) PROVE  CountersOK'
  BY <1>1, <1>2, <1>3, <1>4, <1>5, <1>6, <1>7, <1>8 DEF Next, MainThread
<1>9. run \in Runs
  BY EngineAssumption DEF CountersOK, Runs
<1>10. CASE StopCanceled(run)
  BY <1>10, EngineAssumption DEF StopCanceled, controllerVars
<1>11. CASE BuildStarts(run)
  BY <1>11, EngineAssumption DEF BuildStarts, controllerVars
<1>12. CASE Commit(run)
  BY <1>12, EngineAssumption DEF Commit, controllerVars
<1>13. CASE BackUp(run)
  BY <1>13, EngineAssumption DEF BackUp, controllerVars
<1>14. CASE Install(run)
  BY <1>14, EngineAssumption DEF Install, controllerVars
<1>15. CASE Withdraw(run)
  BY <1>15, EngineAssumption DEF Withdraw, controllerVars
<1>16. CASE Restore(run)
  BY <1>16, EngineAssumption DEF Restore, controllerVars
<1>17. CASE Discard(run)
  BY <1>17, EngineAssumption DEF Discard, controllerVars
<1>18. CASE CleanUp(run)
  BY <1>18, EngineAssumption DEF CleanUp, controllerVars
<1>19. CASE \E model \in Models : BuildEngine(run, model)
  BY <1>19, EngineAssumption DEF BuildEngine, Models, controllerVars
<1>20. CASE BuildFails(run)
  BY <1>20, EngineAssumption DEF BuildFails, Fail, controllerVars
<1>21. CASE ActivationFails(run)
  BY <1>21, EngineAssumption DEF ActivationFails, Fail, controllerVars
<1>22. CASE CleanUpFails(run)
  BY <1>22, EngineAssumption DEF CleanUpFails, Fail, controllerVars
<1>23. QED
  BY <1>10, <1>11, <1>12, <1>13, <1>14, <1>15, <1>16,
     <1>17, <1>18, <1>19, <1>20, <1>21, <1>22
     DEF Thread, Proceeds, Failure

\* StepTyped: no step of either thread leaves the types.
LEMMA StepTyped == TypeOK /\ [Next]_vars => TypeOK'
<1> SUFFICES ASSUME TypeOK, [Next]_vars PROVE TypeOK'
  OBVIOUS
<1>1. FilesOK'
  BY FilesTyped
<1>2. RunsOK'
  BY RunsTyped
<1>3. FlagsOK'
  BY FlagsTyped
<1>4. CountersOK'
  BY CountersTyped
<1>5. QED
  BY <1>1, <1>2, <1>3, <1>4 DEF TypeOK

\* TypeCorrect: files, stages, events and counters stay in their types, for
\* every number of runs, controllers and failures.
THEOREM TypeCorrect == Spec => []TypeOK
  BY InitTyped, StepTyped, PTL DEF Spec
-----------------------------------------------------------------------------
\* InitKeeps: the invariant holds before the first run.
LEMMA InitKeeps == Init => EngineInv
<1> SUFFICES ASSUME Init PROVE EngineInv
  OBVIOUS
<1>1. TypeOK
  BY InitTyped
<1>2. Abandoned /\ Fresh /\ WorkerAlone /\ Separate
  BY DEF Init, Abandoned, Fresh, WorkerAlone, Separate, Activation, Moving
<1>3. PairNeverMixed
  BY DEF Init, PairNeverMixed, Models, Absent, Earlier
<1>4. QED
  BY <1>1, <1>2, <1>3 DEF EngineInv

\* AbandonedKept: only the current run can be, or come to be, activating:
\* close waits for commit_lock and sets the cancel event of the run it abandons.
LEMMA AbandonedKept ==
  ASSUME TypeOK, Abandoned, Fresh, [Next]_vars
  PROVE  Abandoned'
<1> USE DEF TypeOK, RunsOK, FlagsOK, CountersOK, Runs, Abandoned, Fresh, Activation
<1>1. CASE OptimizeModels
  BY <1>1 DEF OptimizeModels, controllerVars, Go
<1>2. CASE CancelModelOptimization
  BY <1>2 DEF CancelModelOptimization, controllerVars, Go
<1>3. CASE PollOptimization
  BY <1>3 DEF PollOptimization, controllerVars, Go
<1>4. CASE StartWorker
  BY <1>4 DEF StartWorker, controllerVars, Go
<1>5. CASE WorkerExits
  BY <1>5 DEF WorkerExits, controllerVars, Go
<1>6. CASE CloseController
  BY <1>6 DEF CloseController, CommitLockFree, controllerVars, Go
<1>7. CASE Crash
  BY <1>7 DEF Crash, controllerVars, Go
<1>8. CASE UNCHANGED vars
  BY <1>8 DEF vars, controllerVars
<1> SUFFICES ASSUME NEW run \in 1..started, Thread(run) PROVE  Abandoned'
  BY <1>1, <1>2, <1>3, <1>4, <1>5, <1>6, <1>7, <1>8 DEF Next, MainThread
<1>9. run \in Runs /\ run <= started
  BY EngineAssumption DEF CountersOK, Runs
<1>10. CASE StopCanceled(run)
  BY <1>9, <1>10 DEF StopCanceled, CancelSeen, controllerVars, Go
<1>11. CASE BuildStarts(run)
  BY <1>9, <1>11 DEF BuildStarts, CancelSeen, controllerVars, Go
<1>12. CASE Commit(run)
  BY <1>9, <1>12 DEF Commit, CancelSeen, controllerVars, Go
<1>13. CASE BackUp(run)
  BY <1>9, <1>13 DEF BackUp, controllerVars, Go
<1>14. CASE Install(run)
  BY <1>9, <1>14 DEF Install, controllerVars, Go
<1>15. CASE Withdraw(run)
  BY <1>9, <1>15 DEF Withdraw, controllerVars, Go
<1>16. CASE Restore(run)
  BY <1>9, <1>16 DEF Restore, controllerVars, Go
<1>17. CASE Discard(run)
  BY <1>9, <1>17 DEF Discard, controllerVars, Go
<1>18. CASE CleanUp(run)
  BY <1>9, <1>18, ZenonT(40) DEF CleanUp, controllerVars, Go
<1>19. CASE \E model \in Models : BuildEngine(run, model)
  BY <1>9, <1>19 DEF BuildEngine, Models, controllerVars, Go
<1>20. CASE BuildFails(run)
  BY <1>9, <1>20 DEF BuildFails, Fail, CancelSeen, controllerVars, Go
<1>21. CASE ActivationFails(run)
  BY <1>9, <1>21 DEF ActivationFails, Fail, controllerVars, Go
<1>22. CASE CleanUpFails(run)
  BY <1>9, <1>22 DEF CleanUpFails, Fail, controllerVars, Go
<1>23. QED
  BY <1>10, <1>11, <1>12, <1>13, <1>14, <1>15, <1>16,
     <1>17, <1>18, <1>19, <1>20, <1>21, <1>22
     DEF Thread, Proceeds, Failure

\* FreshKept: a run has nothing in a backup file until it activates.
LEMMA FreshKept ==
  ASSUME TypeOK, Fresh, [Next]_vars
  PROVE  Fresh'
<1> USE DEF TypeOK, RunsOK, CountersOK, FilesOK, Runs, Fresh
<1>1. CASE OptimizeModels
  BY <1>1 DEF OptimizeModels, controllerVars, fileVars, Go, Activation
<1>2. CASE CancelModelOptimization
  BY <1>2 DEF CancelModelOptimization, controllerVars, fileVars, Go, Activation
<1>3. CASE PollOptimization
  BY <1>3 DEF PollOptimization, controllerVars, fileVars, Go, Activation
<1>4. CASE StartWorker
  BY <1>4 DEF StartWorker, controllerVars, fileVars, Go, Activation
<1>5. CASE WorkerExits
  BY <1>5 DEF WorkerExits, controllerVars, fileVars, Go, Activation
<1>6. CASE CloseController
  BY <1>6 DEF CloseController, controllerVars, fileVars, Go, Activation
<1>7. CASE Crash
  BY <1>7 DEF Crash, controllerVars, fileVars, Go, Activation
<1>8. CASE UNCHANGED vars
  BY <1>8 DEF vars, controllerVars, fileVars
<1> SUFFICES ASSUME NEW run \in 1..started, Thread(run) PROVE  Fresh'
  BY <1>1, <1>2, <1>3, <1>4, <1>5, <1>6, <1>7, <1>8 DEF Next, MainThread
<1>9. run \in Runs /\ run <= started
  BY EngineAssumption DEF CountersOK, Runs
<1>10. CASE StopCanceled(run)
  BY <1>9, <1>10 DEF StopCanceled, controllerVars, fileVars, Go, Activation
<1>11. CASE BuildStarts(run)
  BY <1>9, <1>11 DEF BuildStarts, controllerVars, fileVars, Go, Activation
<1>12. CASE Commit(run)
  BY <1>9, <1>12 DEF Commit, controllerVars, fileVars, Go, Activation
<1>13. CASE BackUp(run)
  <2>1. \A other \in Runs : other # run => backup'[other] = backup[other]
    BY <1>9, <1>13 DEF BackUp
  <2>2. stage[run] \in Activation /\ stage'[run] \in Activation \cup {"cleanup"}
    BY <1>9, <1>13 DEF BackUp, Go, Activation
  <2>3. \A other \in Runs : other # run => stage'[other] = stage[other]
    BY <1>9, <1>13 DEF BackUp, Go
  <2>4. QED
    BY <1>9, <1>13, <2>1, <2>2, <2>3 DEF BackUp, controllerVars, Activation
<1>14. CASE Install(run)
  BY <1>9, <1>14 DEF Install, controllerVars, fileVars, Go, Activation
<1>15. CASE Withdraw(run)
  BY <1>9, <1>15 DEF Withdraw, controllerVars, fileVars, Go, Activation
<1>16. CASE Restore(run)
  <2>1. \A other \in Runs : other # run => backup'[other] = backup[other]
    BY <1>9, <1>16 DEF Restore
  <2>2. stage[run] \in Activation /\ stage'[run] \in Activation \cup {"cleanup"}
    BY <1>9, <1>16 DEF Restore, Go, Activation
  <2>3. \A other \in Runs : other # run => stage'[other] = stage[other]
    BY <1>9, <1>16 DEF Restore, Go
  <2>4. QED
    BY <1>9, <1>16, <2>1, <2>2, <2>3 DEF Restore, controllerVars, Activation
<1>17. CASE Discard(run)
  <2>1. \A other \in Runs : other # run => backup'[other] = backup[other]
    BY <1>9, <1>17 DEF Discard
  <2>2. stage[run] \in Activation /\ stage'[run] \in Activation \cup {"cleanup"}
    BY <1>9, <1>17 DEF Discard, Go, Activation
  <2>3. \A other \in Runs : other # run => stage'[other] = stage[other]
    BY <1>9, <1>17 DEF Discard, Go
  <2>4. QED
    BY <1>9, <1>17, <2>1, <2>2, <2>3 DEF Discard, controllerVars, Activation
<1>18. CASE CleanUp(run)
  BY <1>9, <1>18 DEF CleanUp, controllerVars, fileVars, Go, Activation
<1>19. CASE \E model \in Models : BuildEngine(run, model)
  BY <1>9, <1>19 DEF BuildEngine, Models, controllerVars, fileVars, Go, Activation
<1>20. CASE BuildFails(run)
  BY <1>9, <1>20 DEF BuildFails, Fail, controllerVars, fileVars, Go, Activation
<1>21. CASE ActivationFails(run)
  BY <1>9, <1>21 DEF ActivationFails, Fail, controllerVars, fileVars, Go, Activation
<1>22. CASE CleanUpFails(run)
  BY <1>9, <1>22 DEF CleanUpFails, Fail, controllerVars, fileVars, Go, Activation
<1>23. QED
  BY <1>10, <1>11, <1>12, <1>13, <1>14, <1>15, <1>16,
     <1>17, <1>18, <1>19, <1>20, <1>21, <1>22
     DEF Thread, Proceeds, Failure

\* AloneKept: a worker runs only while no run is current.
LEMMA AloneKept ==
  ASSUME TypeOK, WorkerAlone, [Next]_vars
  PROVE  WorkerAlone'
<1> USE DEF TypeOK, FlagsOK, CountersOK, WorkerAlone
<1>1. CASE OptimizeModels
  BY <1>1 DEF OptimizeModels, controllerVars
<1>2. CASE CancelModelOptimization
  BY <1>2 DEF CancelModelOptimization, controllerVars
<1>3. CASE PollOptimization
  BY <1>3 DEF PollOptimization, controllerVars
<1>4. CASE StartWorker
  BY <1>4 DEF StartWorker, controllerVars
<1>5. CASE WorkerExits
  BY <1>5 DEF WorkerExits, controllerVars
<1>6. CASE CloseController
  BY <1>6 DEF CloseController, controllerVars
<1>7. CASE Crash
  BY <1>7 DEF Crash, controllerVars
<1>8. CASE UNCHANGED vars
  BY <1>8 DEF vars, controllerVars
<1> SUFFICES ASSUME NEW run \in 1..started, Thread(run) PROVE  WorkerAlone'
  BY <1>1, <1>2, <1>3, <1>4, <1>5, <1>6, <1>7, <1>8 DEF Next, MainThread
<1>9. run \in Runs /\ run <= started
  BY EngineAssumption DEF CountersOK, Runs
<1>10. CASE StopCanceled(run)
  BY <1>10 DEF StopCanceled, controllerVars
<1>11. CASE BuildStarts(run)
  BY <1>11 DEF BuildStarts, controllerVars
<1>12. CASE Commit(run)
  BY <1>12 DEF Commit, controllerVars
<1>13. CASE BackUp(run)
  BY <1>13 DEF BackUp, controllerVars
<1>14. CASE Install(run)
  BY <1>14 DEF Install, controllerVars
<1>15. CASE Withdraw(run)
  BY <1>15 DEF Withdraw, controllerVars
<1>16. CASE Restore(run)
  BY <1>16 DEF Restore, controllerVars
<1>17. CASE Discard(run)
  BY <1>17 DEF Discard, controllerVars
<1>18. CASE CleanUp(run)
  BY <1>18 DEF CleanUp, controllerVars
<1>19. CASE \E model \in Models : BuildEngine(run, model)
  BY <1>19 DEF BuildEngine, Models, controllerVars
<1>20. CASE BuildFails(run)
  BY <1>20 DEF BuildFails, Fail, controllerVars
<1>21. CASE ActivationFails(run)
  BY <1>21 DEF ActivationFails, Fail, controllerVars
<1>22. CASE CleanUpFails(run)
  BY <1>22 DEF CleanUpFails, Fail, controllerVars
<1>23. QED
  BY <1>10, <1>11, <1>12, <1>13, <1>14, <1>15, <1>16,
     <1>17, <1>18, <1>19, <1>20, <1>21, <1>22
     DEF Thread, Proceeds, Failure

\* OneActivation: two runs that hold commit_lock are the same run.
LEMMA OneActivation ==
  ASSUME Abandoned, NEW run \in Runs, NEW other \in Runs,
         stage[run] \in Activation, stage[other] \in Activation
  PROVE  run = other
  BY DEF Abandoned

\* StillSeparate: a step that moves no engine keeps the engines of the runs
\* apart, if no run starts or goes forward in its activation.
LEMMA StillSeparate ==
  ASSUME Separate, PairNeverMixed, place' = place, backup' = backup,
         \A run \in Runs : stage'[run] \in Moving =>
           \/ stage'[run] = stage[run]
           \/ stage'[run] = "withdraw" /\ stage[run] \in Moving
  PROVE  Separate' /\ PairNeverMixed'
<1>1. PairNeverMixed'
  BY DEF PairNeverMixed
<1> SUFFICES ASSUME NEW run \in Runs, stage'[run] \in Moving
             PROVE  \E earlier \in {Earlier} \cup Runs : Holds(run, earlier)'
  BY <1>1 DEF Separate
<1>2. PICK earlier \in {Earlier} \cup Runs : Holds(run, earlier)
  BY DEF Separate
<1>3. Holds(run, earlier)'
  BY <1>2 DEF Holds
<1>4. QED
  BY <1>3

\* OneOrigin: the engines in place, if any, come from one run.
LEMMA OneOrigin ==
  ASSUME FilesOK, PairNeverMixed
  PROVE  \E earlier \in {Earlier} \cup Runs :
           \A model \in Models : place[model] \in {Absent, earlier}
<1>1. /\ place["face"] \in {Absent, Earlier} \cup Runs
      /\ place["emotion"] \in {Absent, Earlier} \cup Runs
  BY DEF FilesOK, Models
<1>2. CASE place["face"] = Absent /\ place["emotion"] = Absent
  BY <1>2 DEF Models
<1>3. CASE place["face"] = Absent /\ place["emotion"] # Absent
  BY <1>1, <1>3 DEF Models
<1>4. CASE place["face"] # Absent /\ place["emotion"] = Absent
  BY <1>1, <1>4 DEF Models
<1>5. CASE place["face"] # Absent /\ place["emotion"] # Absent
  <2>1. place["face"] = place["emotion"]
    BY <1>5 DEF PairNeverMixed, Models
  <2>2. QED
    BY <1>1, <1>5, <2>1 DEF Models
<1>6. QED
  BY <1>2, <1>3, <1>4, <1>5

\* OnlyOneMoves: what is left to show of a step of the run that activates.
LEMMA OnlyOneMoves ==
  ASSUME RunsOK, Abandoned, NEW run \in Runs, stage[run] \in Activation,
         \A other \in Runs : other # run => stage'[other] = stage[other],
         stage'[run] \in Moving =>
           \E earlier \in {Earlier} \cup Runs : Holds(run, earlier)'
  PROVE  Separate'
<1> SUFFICES ASSUME NEW other \in Runs, stage'[other] \in Moving
             PROVE  \E earlier \in {Earlier} \cup Runs : Holds(other, earlier)'
  BY DEF Separate
<1>1. other = run
  BY DEF Abandoned, Moving, Activation
<1>2. QED
  BY <1>1

\* SeparateKept: no step mixes the engines of two runs.  Both earlier engines
\* are in backup files before the first new one is installed, and the new ones
\* are withdrawn before the first earlier one returns.
LEMMA SeparateKept ==
  ASSUME EngineInv, [Next]_vars
  PROVE  Separate' /\ PairNeverMixed'
<1> USE DEF EngineInv, TypeOK, RunsOK
<1>1. CASE OptimizeModels
  BY <1>1, StillSeparate DEF OptimizeModels, fileVars, Moving, Go, CountersOK, Runs
<1>2. CASE CancelModelOptimization
  BY <1>2, StillSeparate DEF CancelModelOptimization, fileVars, Moving
<1>3. CASE PollOptimization
  BY <1>3, StillSeparate DEF PollOptimization, fileVars, Moving
<1>4. CASE StartWorker
  BY <1>4, StillSeparate DEF StartWorker, fileVars, Moving
<1>5. CASE WorkerExits
  BY <1>5, StillSeparate DEF WorkerExits, fileVars, Moving
<1>6. CASE CloseController
  BY <1>6, StillSeparate DEF CloseController, fileVars, Moving
<1>7. CASE Crash
  BY <1>7, StillSeparate DEF Crash, fileVars, Moving
<1>8. CASE UNCHANGED vars
  BY <1>8, StillSeparate DEF vars, fileVars, Moving
<1> SUFFICES ASSUME NEW run \in 1..started, Thread(run)
             PROVE  Separate' /\ PairNeverMixed'
  BY <1>1, <1>2, <1>3, <1>4, <1>5, <1>6, <1>7, <1>8 DEF Next, MainThread
<1>9. run \in Runs
  BY EngineAssumption DEF CountersOK, Runs
<1>10. CASE StopCanceled(run)
  BY <1>9, <1>10, StillSeparate DEF StopCanceled, fileVars, Moving, Go
<1>11. CASE BuildStarts(run)
  BY <1>9, <1>11, StillSeparate DEF BuildStarts, fileVars, Moving, Go
<1>12. CASE Commit(run)
  <2>1. \A other \in Runs : other # run => stage'[other] = stage[other]
    BY <1>9, <1>12 DEF Commit, Go
  <2>2. PICK earlier \in {Earlier} \cup Runs :
           \A model \in Models : place[model] \in {Absent, earlier}
    BY OneOrigin
  <2>3. stage'[run] = "backup" /\ place' = place /\ backup' = backup
    BY <1>9, <1>12 DEF Commit, Go, fileVars
  <2>4. Holds(run, earlier)'
    BY <1>9, <1>12, <2>2, <2>3 DEF Holds, Fresh, Commit
  <2>5. PairNeverMixed'
    BY <2>3 DEF PairNeverMixed
  <2>6. ASSUME NEW other \in Runs, other # run, stage'[other] \in Moving
        PROVE  \E before \in {Earlier} \cup Runs : Holds(other, before)'
    <3>1. PICK before \in {Earlier} \cup Runs : Holds(other, before)
      BY <2>1, <2>6 DEF Separate
    <3>2. Holds(other, before)'
      BY <2>1, <2>3, <2>6, <3>1 DEF Holds
    <3>3. QED
      BY <3>2
  <2>7. QED
    BY <2>4, <2>5, <2>6 DEF Separate
<1>13. CASE BackUp(run)
  <2>1. \A other \in Runs : other # run => stage'[other] = stage[other]
    BY <1>9, <1>13 DEF BackUp, Go
  <2>2. stage[run] = "backup"
    BY <1>13 DEF BackUp
  <2>3. PICK earlier \in {Earlier} \cup Runs : Holds(run, earlier)
    BY <1>9, <2>2 DEF Separate, Moving
  <2>4. CASE ToBackUp(run) = {}
    <3>1. stage'[run] = "install" /\ place' = place /\ backup' = backup
      BY <1>9, <1>13, <2>4 DEF BackUp, Go
    <3>2. \A model \in Models : place[model] = Absent
      BY <2>4 DEF ToBackUp
    <3>3. Holds(run, earlier)' /\ PairNeverMixed'
      BY <2>3, <3>1, <3>2 DEF Holds, PairNeverMixed
    <3>4. QED
      BY <1>9, <2>1, <2>2, <3>3, OnlyOneMoves DEF Activation
  <2>5. CASE ToBackUp(run) # {}
    <3>1. PICK model \in ToBackUp(run) : model = First(ToBackUp(run))
      BY <2>5, ChosenModel DEF ToBackUp
    <3>2. /\ model \in Models /\ stage' = stage
          /\ place' = [place EXCEPT ![model] = Absent]
      BY <1>13, <2>5, <3>1 DEF BackUp, ToBackUp
    <3>3. /\ backup'[run][model] = place[model]
          /\ \A other \in Models : other # model =>
               backup'[run][other] = backup[run][other]
      BY <1>9, <1>13, <2>5, <3>1, <3>2 DEF BackUp, FilesOK
    <3>4. /\ \A other \in Models : other # model => place'[other] = place[other]
          /\ place'[model] = Absent
      BY <3>2 DEF FilesOK
    <3>5. Holds(run, earlier)'
      BY <2>2, <2>3, <3>2, <3>3, <3>4 DEF Holds
    <3>6. PairNeverMixed'
      BY <3>2, <3>4 DEF PairNeverMixed, Models
    <3>7. QED
      BY <1>9, <2>1, <2>2, <3>5, <3>6, OnlyOneMoves DEF Activation
  <2>6. QED
    BY <2>4, <2>5
<1>14. CASE Install(run)
  <2>1. \A other \in Runs : other # run => stage'[other] = stage[other]
    BY <1>9, <1>14 DEF Install, Go
  <2>2. stage[run] = "install"
    BY <1>14 DEF Install
  <2>3. PICK earlier \in {Earlier} \cup Runs : Holds(run, earlier)
    BY <1>9, <2>2 DEF Separate, Moving
  <2>4. PICK model \in Models : place' = [place EXCEPT ![model] = run]
    BY <1>9, <1>14, ChosenModel DEF Install, FilesOK
  <2>5. \A other \in Models : place'[other] \in {Absent, run}
    BY <2>2, <2>3, <2>4 DEF Holds, FilesOK
  <2>6. backup' = backup /\ stage'[run] \in {"install", "discard"}
    BY <1>9, <1>14 DEF Install, Go
  <2>7. stage'[run] \in Moving => Holds(run, earlier)'
    BY <2>3, <2>5, <2>6 DEF Holds, Moving
  <2>8. PairNeverMixed'
    BY <2>5 DEF PairNeverMixed, Models
  <2>9. QED
    BY <1>9, <2>1, <2>2, <2>7, <2>8, OnlyOneMoves DEF Activation
<1>15. CASE Withdraw(run)
  <2>1. \A other \in Runs : other # run => stage'[other] = stage[other]
    BY <1>9, <1>15 DEF Withdraw, Go
  <2>2. stage[run] = "withdraw"
    BY <1>15 DEF Withdraw
  <2>3. PICK earlier \in {Earlier} \cup Runs : Holds(run, earlier)
    BY <1>9, <2>2 DEF Separate, Moving
  <2>4. CASE Installed(run) = {}
    <3>1. stage'[run] = "restore" /\ place' = place /\ backup' = backup
      BY <1>9, <1>15, <2>4 DEF Withdraw, Go
    <3>2. \A model \in Models : place[model] # run
      BY <2>4 DEF Installed
    <3>3. Holds(run, earlier)' /\ PairNeverMixed'
      BY <2>3, <3>1, <3>2 DEF Holds, PairNeverMixed
    <3>4. QED
      BY <1>9, <2>1, <2>2, <3>3, OnlyOneMoves DEF Activation
  <2>5. CASE Installed(run) # {}
    <3>1. PICK model \in Installed(run) : model = Last(Installed(run))
      BY <2>5, ChosenModel DEF Installed
    <3>2. /\ model \in Models /\ stage' = stage
          /\ place' = [place EXCEPT ![model] = Absent]
      BY <1>15, <2>5, <3>1 DEF Withdraw, Installed
    <3>3. backup' = backup
      BY <1>15 DEF Withdraw
    <3>4. /\ \A other \in Models : other # model => place'[other] = place[other]
          /\ place'[model] = Absent
      BY <3>2 DEF FilesOK
    <3>5. Holds(run, earlier)'
      BY <2>2, <2>3, <3>2, <3>3, <3>4 DEF Holds
    <3>6. PairNeverMixed'
      BY <3>2, <3>4 DEF PairNeverMixed, Models
    <3>7. QED
      BY <1>9, <2>1, <2>2, <3>5, <3>6, OnlyOneMoves DEF Activation
  <2>6. QED
    BY <2>4, <2>5
<1>16. CASE Restore(run)
  <2>1. \A other \in Runs : other # run => stage'[other] = stage[other]
    BY <1>9, <1>16 DEF Restore, Go
  <2>2. stage[run] = "restore"
    BY <1>16 DEF Restore
  <2>3. PICK earlier \in {Earlier} \cup Runs : Holds(run, earlier)
    BY <1>9, <2>2 DEF Separate, Moving
  <2>4. CASE BackedUp(run) = {}
    <3>1. stage'[run] = "cleanup" /\ place' = place /\ backup' = backup
      BY <1>9, <1>16, <2>4 DEF Restore, Go
    <3>2. PairNeverMixed'
      BY <3>1 DEF PairNeverMixed
    <3>3. (stage'[run] \in Moving => Holds(run, earlier)') /\ PairNeverMixed'
      BY <3>1, <3>2 DEF Moving
    <3>4. QED
      BY <1>9, <2>1, <2>2, <3>3, OnlyOneMoves DEF Activation
  <2>5. CASE BackedUp(run) # {}
    <3>1. PICK model \in BackedUp(run) : model = Last(BackedUp(run))
      BY <2>5, ChosenModel DEF BackedUp
    <3>2. /\ model \in Models /\ stage' = stage
          /\ place' = [place EXCEPT ![model] = backup[run][model]]
      BY <1>16, <2>5, <3>1 DEF Restore, BackedUp
    <3>3. /\ backup'[run][model] = Absent
          /\ \A other \in Models : other # model =>
               backup'[run][other] = backup[run][other]
      BY <1>9, <1>16, <2>5, <3>1, <3>2 DEF Restore, FilesOK
    <3>4. /\ \A other \in Models : other # model => place'[other] = place[other]
          /\ place'[model] = backup[run][model]
      BY <3>2 DEF FilesOK
    <3>5. Holds(run, earlier)'
      BY <2>2, <2>3, <3>2, <3>3, <3>4 DEF Holds
    <3>6. PairNeverMixed'
      BY <2>2, <2>3, <3>2, <3>4 DEF PairNeverMixed, Models, Holds
    <3>7. QED
      BY <1>9, <2>1, <2>2, <3>5, <3>6, OnlyOneMoves DEF Activation
  <2>6. QED
    BY <2>4, <2>5
<1>17. CASE Discard(run)
  <2>1. \A other \in Runs : other # run => stage'[other] = stage[other]
    BY <1>9, <1>17 DEF Discard, Go
  <2>2. /\ stage[run] = "discard" /\ stage'[run] \in {"discard", "cleanup"}
        /\ place' = place
    BY <1>9, <1>17 DEF Discard, Go
  <2>3. PairNeverMixed'
    BY <2>2 DEF PairNeverMixed
  <2>4. QED
    BY <1>9, <2>1, <2>2, <2>3, OnlyOneMoves DEF Activation, Moving
<1>18. CASE CleanUp(run)
  BY <1>9, <1>18, StillSeparate DEF CleanUp, fileVars, Moving, Go
<1>19. CASE \E model \in Models : BuildEngine(run, model)
  BY <1>9, <1>19, StillSeparate DEF BuildEngine, fileVars, Moving, Go, Models
<1>20. CASE BuildFails(run)
  BY <1>9, <1>20, StillSeparate DEF BuildFails, Fail, fileVars, Moving, Go
<1>21. CASE ActivationFails(run)
  BY <1>9, <1>21, StillSeparate DEF ActivationFails, Fail, fileVars, Moving,
     Go, Activation
<1>22. CASE CleanUpFails(run)
  BY <1>9, <1>22, StillSeparate DEF CleanUpFails, Fail, fileVars, Moving, Go
<1>23. QED
  BY <1>10, <1>11, <1>12, <1>13, <1>14, <1>15, <1>16,
     <1>17, <1>18, <1>19, <1>20, <1>21, <1>22
     DEF Thread, Proceeds, Failure

\* StepKeeps: no step of either thread leaves the invariant.
LEMMA StepKeeps == EngineInv /\ [Next]_vars => EngineInv'
<1> SUFFICES ASSUME EngineInv, [Next]_vars PROVE EngineInv'
  OBVIOUS
<1>1. TypeOK'
  BY StepTyped DEF EngineInv
<1>2. Abandoned'
  BY AbandonedKept DEF EngineInv
<1>3. Fresh'
  BY FreshKept DEF EngineInv
<1>4. WorkerAlone'
  BY AloneKept DEF EngineInv
<1>5. Separate' /\ PairNeverMixed'
  BY SeparateKept
<1>6. QED
  BY <1>1, <1>2, <1>3, <1>4, <1>5 DEF EngineInv

\* Invariance: the inductive invariant, for every value of the constants.
THEOREM Invariance == Spec => []EngineInv
  BY InitKeeps, StepKeeps, PTL DEF Spec

\* NeverMixed: whatever fails, is canceled or crashes, and however many runs
\* there are, an engine pair in place was built by one run.
THEOREM NeverMixed == Spec => []PairNeverMixed
<1>1. EngineInv => PairNeverMixed
  BY DEF EngineInv
<1>2. QED
  BY <1>1, Invariance, PTL

\* MovedByCurrent: an engine changes place only while its run activates, which
\* only the current run does.
LEMMA MovedByCurrent ==
  ASSUME EngineInv, [Next]_vars, place' # place
  PROVE  current # 0 /\ stage[current] \in Activation
<1>1. ~(MainThread \/ UNCHANGED vars)
  BY DEF MainThread, OptimizeModels, CancelModelOptimization, PollOptimization,
         StartWorker, WorkerExits, CloseController, Crash, vars, fileVars
<1>2. PICK run \in 1..started : Thread(run)
  BY <1>1 DEF Next
<1>3. run \in Runs /\ run # 0
  BY EngineAssumption DEF EngineInv, TypeOK, CountersOK, Runs
<1>4. stage[run] \in Activation
  BY <1>2 DEF Thread, Proceeds, Failure, StopCanceled, BuildStarts, Commit, BackUp,
     Install, Withdraw, Restore, Discard, CleanUp, BuildEngine, BuildFails,
     ActivationFails, CleanUpFails, fileVars, Activation
<1>5. current = run
  BY <1>3, <1>4 DEF EngineInv, Abandoned
<1>6. QED
  BY <1>3, <1>4, <1>5

\* AbandonedNeverActivates: a run whose controller was closed moves no engine,
\* however long its thread survives it.
THEOREM AbandonedNeverActivates == Spec => OnlyCurrentRunMoves
<1>1. EngineInv /\ [Next]_vars =>
        [place' # place => current # 0 /\ stage[current] \in Activation]_vars
  BY MovedByCurrent
<1>2. QED
  BY <1>1, Invariance, PTL DEF Spec, OnlyCurrentRunMoves

\* WorkerSeesOnePair: the engines do not change while a worker runs.
THEOREM WorkerSeesOnePair == Spec => StableUnderWorker
<1>1. EngineInv /\ [Next]_vars => [worker => UNCHANGED place]_vars
  BY MovedByCurrent DEF EngineInv, WorkerAlone
<1>2. QED
  BY <1>1, Invariance, PTL DEF Spec, StableUnderWorker
-----------------------------------------------------------------------------
(* The files a run has, which an activation that is rolled back puts back. *)

Before == {"unstarted", "start", "face", "emotion", "commit"}

\* The run has not moved any file and, if it was canceled, will not.
Untouched(run) ==
  stage[run] \in Before \/ (stage[run] = "cleanup" /\ outcome[run] = "canceled")

Unplaced(run) ==
  Untouched(run) \/ stage[run] \in {"backup", "restore"} =>
    \A model \in Models : place[model] # run

\* No run keeps an engine of one that may still take it back.
Unsaved(run) ==
  Untouched(run) \/ stage[run] \in Moving =>
    \A other \in Runs : \A model \in Models : backup[other][model] # run

Built(run) ==
  /\ stage[run] = "emotion" => "face" \in temporary[run]
  /\ stage[run] \in {"commit", "backup"} => temporary[run] = Models
  /\ stage[run] = "install" =>
       /\ temporary[run] # {}
       /\ \A model \in Models \ temporary[run] : place[model] = run

Saved(run) ==
  /\ stage[run] = "backup" =>
       \A model \in Models : Absent \in {place[model], backup[run][model]}
  /\ stage[run] = "cleanup" /\ outcome[run] # "error" =>
       \A model \in Models : backup[run][model] = Absent

\* The event a run will report agrees with where it is.
Reports(run) ==
  /\ stage[run] \in Before \cup {"backup", "install", "discard"} =>
       outcome[run] = "complete"
  /\ stage[run] \in {"withdraw", "restore"} =>
       outcome[run] = "error" /\ failures > 0
  /\ stage[run] \in {"discard", "cleanup"} /\ outcome[run] = "complete"
       /\ run = current => \A model \in Models : place[model] = run

Story(run) ==
  Unplaced(run) /\ Unsaved(run) /\ Built(run) /\ Saved(run) /\ Reports(run)

StoryInv == EngineInv /\ \A run \in Runs : Story(run)
-----------------------------------------------------------------------------
\* InitStory: no run has begun.
LEMMA InitStory == Init => StoryInv
<1> SUFFICES ASSUME Init PROVE StoryInv
  OBVIOUS
<1>1. \A run \in Runs : Story(run)
  BY DEF Init, Story, Unplaced, Unsaved, Built, Saved, Reports, Untouched,
     Before, Moving, Absent, Earlier, Runs
<1>2. QED
  BY <1>1, InitKeeps DEF StoryInv

\* QuietStory: steps that touch no file, stage, event or failure keep the
\* story of every run.
LEMMA QuietStory ==
  ASSUME StoryInv, UNCHANGED <<fileVars, stage, outcome, failures>>,
         current' \in {current, 0}
  PROVE  \A run \in Runs : Story(run)'
  BY DEF StoryInv, Story, Unplaced, Unsaved, Built, Saved, Reports, Untouched,
     fileVars, Runs

\* MainStory: the controller keeps the story of every run.
LEMMA MainStory ==
  ASSUME StoryInv, MainThread \/ UNCHANGED vars
  PROVE  \A run \in Runs : Story(run)'
<1>1. CASE OptimizeModels
  <2>1. PICK new \in Runs : new = started'
    BY <1>1, EngineAssumption DEF OptimizeModels, StoryInv, EngineInv, TypeOK,
       CountersOK, Runs
  <2>2. /\ stage[new] = "unstarted" /\ stage'[new] = "start" /\ current' = new
        /\ \A run \in Runs : run # new => stage'[run] = stage[run]
        /\ UNCHANGED <<fileVars, outcome, failures>>
    BY <1>1, <2>1, EngineAssumption DEF OptimizeModels, Go, StoryInv,
       EngineInv, TypeOK, RunsOK, CountersOK, Fresh, Runs
  <2>3. Story(new)'
    BY <2>2 DEF StoryInv, Story, Unplaced, Unsaved, Built, Saved,
       Reports, Untouched, fileVars, Before, Moving
  <2>4. ASSUME NEW run \in Runs, run # new PROVE Story(run)'
    BY <2>2, <2>4 DEF StoryInv, Story, Unplaced, Unsaved, Built,
       Saved, Reports, Untouched, fileVars
  <2>5. QED
    BY <2>3, <2>4
<1>2. CASE Crash
  <2>1. /\ UNCHANGED <<fileVars, outcome, failures>> /\ current' = 0
        /\ \A run \in Runs : stage'[run] \in {stage[run], "killed"}
    BY <1>2 DEF Crash
  <2>2. QED
    BY <2>1 DEF StoryInv, Story, Unplaced, Unsaved, Built, Saved, Reports,
       Untouched, fileVars, Before, Moving, Runs
<1>3. CASE ~(OptimizeModels \/ Crash)
  <2>1. /\ UNCHANGED <<fileVars, stage, outcome, failures>>
        /\ current' \in {current, 0}
    BY <1>3 DEF MainThread, CancelModelOptimization, PollOptimization,
       StartWorker, WorkerExits, CloseController, controllerVars, vars, fileVars
  <2>2. QED
    BY <2>1, QuietStory
<1>4. QED
  BY <1>1, <1>2, <1>3

\* ThreadStory: what a step of a run's thread does to its own story and to those of
\* the others, of which none is activating when it moves a file.
LEMMA ThreadStory ==
  ASSUME StoryInv, NEW run \in Runs, Thread(run)
  PROVE  \A other \in Runs : Story(other)'
<1>1. /\ TypeOK /\ Abandoned /\ Fresh
      /\ \A other \in Runs : Story(other)
  BY DEF StoryInv, EngineInv
<1>2. /\ current' = current
      /\ \A other \in Runs : other # run =>
           /\ stage'[other] = stage[other] /\ outcome'[other] = outcome[other]
           /\ temporary'[other] = temporary[other]
           /\ backup'[other] = backup[other]
  BY <1>1 DEF Thread, Proceeds, Failure, StopCanceled, BuildStarts, Commit,
     BackUp, Install, Withdraw, Restore, Discard, CleanUp, BuildEngine,
     BuildFails, ActivationFails, CleanUpFails, controllerVars, Go, Fail,
     fileVars, TypeOK, FilesOK, RunsOK
<1>3. stage[run] \in Activation =>
        /\ run = current
        /\ \A other \in Runs : other # run => stage[other] \notin Activation
  BY <1>1 DEF Abandoned
<1> USE DEF Story, Unplaced, Unsaved, Built, Saved, Reports, Untouched, Before,
        Moving, Go, Fail, fileVars
<1>4. CASE StopCanceled(run)
  BY <1>1, <1>2, <1>4 DEF StopCanceled, Fresh, TypeOK, RunsOK
<1>5. CASE BuildStarts(run)
  BY <1>1, <1>2, <1>5 DEF BuildStarts, TypeOK, RunsOK
<1>6. CASE Commit(run)
  BY <1>1, <1>2, <1>6 DEF Commit, TypeOK, RunsOK, Fresh
<1>7. CASE BackUp(run)
  <2>1. stage[run] = "backup"
    BY <1>7 DEF BackUp
  <2>2. CASE ToBackUp(run) = {}
    <3>1. /\ stage'[run] = "install" /\ place' = place /\ backup' = backup
          /\ UNCHANGED <<temporary, outcome, failures>>
      BY <1>1, <1>7, <2>2 DEF BackUp, Go, TypeOK, RunsOK
    <3>2. QED
      BY <1>1, <1>2, <2>1, <3>1 DEF Models
  <2>3. CASE ToBackUp(run) # {}
    <3>1. PICK model \in ToBackUp(run) : model = First(ToBackUp(run))
      BY <2>3, ChosenModel DEF ToBackUp
    <3>2. /\ model \in Models /\ stage' = stage /\ place[model] # Absent
          /\ place'[model] = Absent /\ backup'[run][model] = place[model]
          /\ \A m \in Models : m # model =>
               place'[m] = place[m] /\ backup'[run][m] = backup[run][m]
          /\ UNCHANGED <<temporary, outcome, failures>>
      BY <1>1, <1>7, <2>3, <3>1 DEF BackUp, ToBackUp, TypeOK, FilesOK
    <3>3. \A r \in Runs : place[model] = r =>
            /\ ~Untouched(r) /\ stage[r] \notin Moving
      BY <1>1, <1>3, <2>1, <3>2 DEF Activation
    <3>4. \A other \in Runs : Unsaved(other)'
      BY <1>1, <1>2, <3>2, <3>3
    <3>5. \A other \in Runs : /\ Unplaced(other)' /\ Built(other)'
                              /\ Saved(other)' /\ Reports(other)'
      BY <1>1, <1>2, <1>3, <2>1, <3>2 DEF Absent, Runs, Activation
    <3>6. QED
      BY <3>4, <3>5
  <2>4. QED
    BY <2>2, <2>3
<1>8. CASE Install(run)
  <2>1. stage[run] = "install"
    BY <1>8 DEF Install
  <2>2. PICK model \in temporary[run] : model = First(temporary[run])
    BY <1>1, <2>1, ChosenModel DEF TypeOK, FilesOK
  <2>3. /\ model \in Models /\ place' = [place EXCEPT ![model] = run]
        /\ temporary'[run] = temporary[run] \ {model}
        /\ stage'[run] = IF temporary'[run] = {} THEN "discard" ELSE "install"
        /\ UNCHANGED <<backup, outcome, failures>>
    BY <1>1, <1>8, <2>2 DEF Install, Go, TypeOK, FilesOK, RunsOK
  <2>4. QED
    BY <1>1, <1>2, <1>3, <2>1, <2>3 DEF Activation, TypeOK, FilesOK
<1>9. CASE Withdraw(run)
  <2>1. stage[run] = "withdraw"
    BY <1>9 DEF Withdraw
  <2>2. CASE Installed(run) = {}
    BY <1>1, <1>2, <1>9, <2>1, <2>2 DEF Withdraw, Installed, TypeOK, RunsOK
  <2>3. CASE Installed(run) # {}
    <3>1. PICK model \in Models : place' = [place EXCEPT ![model] = Absent]
      BY <1>9, <2>3, ChosenModel DEF Withdraw, Installed
    <3>2. UNCHANGED <<stage, backup, temporary, outcome, failures>>
      BY <1>9, <2>3 DEF Withdraw
    <3>3. QED
      BY <1>1, <1>2, <1>3, <2>1, <3>1, <3>2
         DEF Activation, TypeOK, FilesOK, Absent, Runs
  <2>4. QED
    BY <2>2, <2>3
<1>10. CASE Restore(run)
  <2>1. stage[run] = "restore"
    BY <1>10 DEF Restore
  <2>2. CASE BackedUp(run) = {}
    BY <1>1, <1>2, <1>10, <2>1, <2>2 DEF Restore, TypeOK, RunsOK
  <2>3. CASE BackedUp(run) # {}
    <3>1. PICK model \in Models : model = Last(BackedUp(run))
      BY ChosenModel DEF BackedUp
    <3>2. /\ place' = [place EXCEPT ![model] = backup[run][model]]
          /\ backup' = [backup EXCEPT ![run][model] = Absent]
          /\ UNCHANGED <<stage, temporary, outcome, failures>>
      BY <1>10, <2>3, <3>1 DEF Restore
    <3>3. QED
      BY <1>1, <1>2, <1>3, <2>1, <3>2
         DEF Activation, TypeOK, FilesOK, Absent, Runs
  <2>4. QED
    BY <2>2, <2>3
<1>11. CASE Discard(run)
  <2>1. stage[run] = "discard"
    BY <1>11 DEF Discard
  <2>2. CASE BackedUp(run) = {}
    BY <1>1, <1>2, <1>11, <2>1, <2>2 DEF Discard, BackedUp, TypeOK, RunsOK
  <2>3. CASE BackedUp(run) # {}
    <3>1. PICK model \in Models : model = First(BackedUp(run))
      BY ChosenModel DEF BackedUp
    <3>2. /\ backup'[run] = [backup[run] EXCEPT ![model] = Absent]
          /\ UNCHANGED <<place, stage, temporary, outcome, failures>>
      BY <1>1, <1>11, <2>3, <3>1 DEF Discard, TypeOK, FilesOK
    <3>3. QED
      BY <1>1, <1>2, <2>1, <3>2 DEF TypeOK, FilesOK, Absent, Runs
  <2>4. QED
    BY <2>2, <2>3
<1>12. CASE CleanUp(run)
  BY <1>1, <1>2, <1>12 DEF CleanUp, TypeOK, RunsOK, FilesOK
<1>13. CASE \E model \in Models : BuildEngine(run, model)
  BY <1>1, <1>2, <1>13 DEF BuildEngine, TypeOK, RunsOK, FilesOK, Models
<1>14. CASE BuildFails(run)
  BY <1>1, <1>2, <1>14 DEF BuildFails, TypeOK, RunsOK, CountersOK
<1>15. CASE ActivationFails(run)
  BY <1>1, <1>2, <1>3, <1>15 DEF ActivationFails, TypeOK, RunsOK, CountersOK,
     Activation
<1>16. CASE CleanUpFails(run)
  BY <1>1, <1>2, <1>16 DEF CleanUpFails, TypeOK, RunsOK, CountersOK
<1>17. QED
  BY <1>4, <1>5, <1>6, <1>7, <1>8, <1>9, <1>10, <1>11, <1>12, <1>13, <1>14,
     <1>15, <1>16 DEF Thread, Proceeds, Failure

\* StepStory: every step keeps the stories.
LEMMA StepStory == StoryInv /\ [Next]_vars => StoryInv'
<1> SUFFICES ASSUME StoryInv, [Next]_vars PROVE StoryInv'
  OBVIOUS
<1>1. EngineInv'
  BY StepKeeps DEF StoryInv
<1>2. \A run \in Runs : Story(run)'
  <2>1. CASE MainThread \/ UNCHANGED vars
    BY <2>1, MainStory
  <2>2. ASSUME NEW run \in 1..started, Thread(run)
        PROVE  \A other \in Runs : Story(other)'
    BY <2>2, ThreadStory, EngineAssumption
       DEF StoryInv, EngineInv, TypeOK, CountersOK, Runs
  <2>3. QED
    BY <2>1, <2>2 DEF Next
<1>3. QED
  BY <1>1, <1>2 DEF StoryInv

\* StoryInvariance: the inductive invariant, for every value of the constants.
THEOREM StoryInvariance == Spec => []StoryInv
  BY InitStory, StepStory, PTL DEF Spec
-----------------------------------------------------------------------------
\* ReportsAreTrue: what a run whose controller still waits for it reports is
\* true of the engines, and it leaves a file behind only with an error.
THEOREM ReportsAreTrue == Spec => OutcomeIsTrue
<1>1. StoryInv /\ [Next]_vars =>
        [\A run \in Runs :
           (stage[run] # "ended" /\ stage'[run] = "ended" /\ current = run) =>
             /\ outcome'[run] = "complete" =>
                  place' = [model \in Models |-> run]
             /\ outcome'[run] = "canceled" => Installed(run)' = {}
             /\ outcome'[run] # "error" =>
                  BackedUp(run)' = {} /\ temporary'[run] = {}]_vars
  <2> SUFFICES ASSUME StoryInv, [Next]_vars, NEW run \in Runs, current = run,
                      stage[run] # "ended", stage'[run] = "ended"
               PROVE  /\ outcome'[run] = "complete" =>
                           place' = [model \in Models |-> run]
                      /\ outcome'[run] = "canceled" => Installed(run)' = {}
                      /\ outcome'[run] # "error" =>
                           BackedUp(run)' = {} /\ temporary'[run] = {}
    OBVIOUS
  <2> USE DEF StoryInv, EngineInv, TypeOK, RunsOK
  <2>1. PICK r \in 1..started : Thread(r)
    BY EngineAssumption DEF Next, MainThread, OptimizeModels,
       CancelModelOptimization, PollOptimization, StartWorker, WorkerExits,
       CloseController, Crash, vars, Go, CountersOK, Runs
  <2>2. r \in Runs
    BY EngineAssumption DEF CountersOK, Runs
  <2>3. CleanUp(run) \/ CleanUpFails(run)
    BY <2>1, <2>2 DEF Thread, Proceeds, Failure, StopCanceled, BuildStarts,
       Commit, BackUp, Install, Withdraw, Restore, Discard, BuildEngine,
       BuildFails, ActivationFails, CleanUp, CleanUpFails, Go, Fail
  <2>4. CASE CleanUp(run)
    <3>1. /\ stage[run] = "cleanup" /\ temporary[run] = {}
          /\ UNCHANGED <<place, backup, temporary, outcome>>
      BY <2>4 DEF CleanUp, Go
    <3>2. place \in [Models -> {Absent, Earlier} \cup Runs]
      BY DEF FilesOK
    <3>3. Unplaced(run) /\ Saved(run) /\ Reports(run)
      BY DEF Story
    <3>4. QED
      BY <3>1, <3>2, <3>3 DEF Unplaced, Untouched, Saved, Reports, Installed,
         BackedUp
  <2>5. CASE CleanUpFails(run)
    BY <2>5 DEF CleanUpFails, Fail
  <2>6. QED
    BY <2>3, <2>4, <2>5
<1>2. QED
  BY <1>1, StoryInvariance, PTL DEF Spec, OutcomeIsTrue
-----------------------------------------------------------------------------
\* The engines a rollback of a run would leave.
RolledBack(run) ==
  [model \in Models |->
     IF backup[run][model] # Absent THEN backup[run][model]
     ELSE IF place[model] = run THEN Absent ELSE place[model]]

\* OneRestorable: while a run activates, its rollback tells what is restorable.
LEMMA OneRestorable ==
  ASSUME EngineInv, NEW run \in Runs, stage[run] \in Moving
  PROVE  Restorable = RolledBack(run)
<1>1. Activating = {run}
  BY DEF EngineInv, Abandoned, Activating, Moving, Activation
<1>2. ASSUME NEW model \in Models, backup[run][model] # Absent
      PROVE  (CHOOSE r \in Activating : backup[r][model] # Absent) = run
  BY <1>1, <1>2
<1>3. QED
  BY <1>1, <1>2 DEF Restorable, RolledBack

\* NoneRestorable: while none does, the engines are where they belong.
LEMMA NoneRestorable ==
  ASSUME \A run \in Runs : stage[run] \notin Moving, EngineInv
  PROVE  Restorable = place
<1>1. Activating = {}
  BY DEF Activating, Moving
<1>2. QED
  BY <1>1 DEF Restorable, EngineInv, TypeOK, FilesOK, Runs

\* DamageLasts: what a crash or a failed rollback lost stays lost, and no worker
\* is started in the step that loses it.
LEMMA DamageLasts ==
  ASSUME EngineInv, [Next]_vars
  PROVE  /\ Damaged => Damaged'
         /\ Damaged' /\ ~Damaged => worker' \in {worker, FALSE}
<1> USE DEF EngineInv, TypeOK, CountersOK, RunsOK
<1>1. CASE MainThread \/ UNCHANGED vars
  <2>1. failures' = failures
    BY <1>1 DEF MainThread, OptimizeModels, CancelModelOptimization,
       PollOptimization, StartWorker, WorkerExits, CloseController, Crash, vars
  <2>2. \A run \in Runs : stage[run] = "killed" => stage'[run] = "killed"
    BY <1>1, EngineAssumption DEF MainThread, OptimizeModels, Go, Fresh, Runs,
       CancelModelOptimization, PollOptimization, StartWorker, WorkerExits,
       CloseController, Crash, vars
  <2>3. stage' = stage \/ worker' \in {worker, FALSE}
    BY <1>1 DEF MainThread, OptimizeModels, CancelModelOptimization,
       PollOptimization, StartWorker, WorkerExits, CloseController, Crash, vars
  <2>4. QED
    BY <2>1, <2>2, <2>3 DEF Damaged
<1>2. ASSUME NEW run \in 1..started, Thread(run)
      PROVE  /\ worker' = worker /\ failures' \in Nat /\ failures' >= failures
             /\ \A r \in Runs : stage[r] = "killed" => stage'[r] = "killed"
  BY <1>2, EngineAssumption DEF Thread, Proceeds, Failure, StopCanceled,
     BuildStarts, Commit, BackUp, Install, Withdraw, Restore, Discard, CleanUp,
     BuildEngine, BuildFails, ActivationFails, CleanUpFails, controllerVars, Go,
     Fail, Activation, Models
<1>3. QED
  <2>1. CASE \E run \in 1..started : Thread(run)
    <3>1. PICK run \in 1..started : Thread(run)
      BY <2>1
    <3>2. /\ worker' = worker /\ failures' \in Nat /\ failures' >= failures
          /\ \A r \in Runs : stage[r] = "killed" => stage'[r] = "killed"
      BY <1>2, <3>1
    <3>3. failures \in Nat
      BY EngineAssumption
    <3>4. QED
      BY <3>2, <3>3 DEF Damaged
  <2>2. QED
    BY <1>1, <2>1 DEF Next

\* MainThreadCommits: the controller commits nothing; a worker it starts finds
\* both engines.
LEMMA MainThreadCommits ==
  ASSUME EngineInv, MainThread \/ UNCHANGED vars, ~Damaged'
  PROVE  /\ Restorable' = Restorable
         /\ \/ worker' \in {worker, FALSE}
            \/ worker' = TRUE /\ \A model \in Models : Restorable[model] # Absent
<1>1. CASE OptimizeModels
  <2>1. \A run \in Runs : stage[run] \notin Moving
    BY <1>1 DEF OptimizeModels, EngineInv, Abandoned, Moving, Activation, Runs
  <2>2. /\ \A run \in Runs : stage'[run] \in {stage[run], "start"}
        /\ UNCHANGED <<place, backup, worker>>
    BY <1>1 DEF OptimizeModels, Go, EngineInv, TypeOK, RunsOK, fileVars
  <2>3. Activating = {} /\ Activating' = {}
    BY <2>1, <2>2 DEF Activating, Moving
  <2>4. QED
    BY <2>2, <2>3 DEF Restorable
<1>2. CASE StartWorker
  <2>1. \A run \in Runs : stage[run] \notin Moving
    BY <1>2 DEF StartWorker, EngineInv, Abandoned, Moving, Activation, Runs
  <2>2. Restorable = place
    BY <2>1, NoneRestorable
  <2>3. UNCHANGED <<place, backup, stage>>
    BY <1>2 DEF StartWorker, fileVars
  <2>4. QED
    BY <1>2, <2>2, <2>3 DEF StartWorker, Restorable, Activating
<1>3. CASE Crash
  <2>1. UNCHANGED <<place, backup>> /\ worker' = FALSE
    BY <1>3 DEF Crash, fileVars
  <2>2. stage' = stage
    BY <1>3 DEF Crash, Damaged, EngineInv, TypeOK, RunsOK
  <2>3. QED
    BY <2>1, <2>2 DEF Restorable, Activating
<1>4. CASE ~(OptimizeModels \/ StartWorker \/ Crash)
  <2>1. UNCHANGED <<place, backup, stage>> /\ worker' \in {worker, FALSE}
    BY <1>4 DEF MainThread, CancelModelOptimization, PollOptimization,
       WorkerExits, CloseController, controllerVars, vars, fileVars
  <2>2. QED
    BY <2>1 DEF Restorable, Activating
<1>5. QED
  BY <1>1, <1>2, <1>3, <1>4

\* ThreadCommits: a step of a thread commits nothing or, where no worker runs,
\* both its engines.
LEMMA ThreadCommits ==
  ASSUME StoryInv, NEW run \in 1..started, Thread(run), ~Damaged, ~Damaged'
  PROVE  /\ worker' = worker
         /\ \/ Restorable' = Restorable
            \/ ~worker /\ Restorable' = [model \in Models |-> run]
<1>1. /\ EngineInv /\ TypeOK /\ Abandoned /\ Fresh /\ WorkerAlone
      /\ run \in Runs
      /\ \A other \in Runs : Story(other)
  BY EngineAssumption DEF StoryInv, EngineInv, TypeOK, CountersOK, Runs
<1>2. EngineInv'
  BY <1>1, StepKeeps DEF Next
<1>3. /\ worker' = worker
      /\ \A other \in Runs : other # run =>
           stage'[other] = stage[other] /\ backup'[other] = backup[other]
  BY <1>1 DEF Thread, Proceeds, Failure, StopCanceled, BuildStarts, Commit,
     BackUp, Install, Withdraw, Restore, Discard, CleanUp, BuildEngine,
     BuildFails, ActivationFails, CleanUpFails, controllerVars, Go, Fail,
     fileVars, TypeOK, FilesOK, RunsOK
<1>4. stage[run] \in Activation =>
        \A other \in Runs : other # run => stage[other] \notin Activation
  BY <1>1 DEF Abandoned
<1>5. CASE stage[run] \in Moving
  <2>1. Restorable = RolledBack(run) /\ run = current /\ ~worker
    BY <1>1, <1>5, OneRestorable DEF Abandoned, WorkerAlone, Moving, Activation,
       Runs
  <2>2. \A other \in Runs : other # run => stage'[other] \notin Moving
    BY <1>3, <1>4, <1>5 DEF Moving, Activation
  <2>3. ASSUME stage'[run] \in Moving PROVE Restorable' = RolledBack(run)'
    <3>1. Activating' = {run}
      BY <1>1, <2>2, <2>3 DEF Activating, Moving
    <3>2. ASSUME NEW model \in Models, backup'[run][model] # Absent
          PROVE  (CHOOSE r \in Activating' : backup'[r][model] # Absent) = run
      BY <3>1, <3>2
    <3>3. QED
      BY <3>1, <3>2 DEF Restorable, RolledBack
  <2>4. ASSUME stage'[run] \notin Moving PROVE Restorable' = place'
    <3>1. Activating' = {}
      BY <2>2, <2>4 DEF Activating, Moving
    <3>2. QED
      BY <1>2, <3>1 DEF Restorable, EngineInv, TypeOK, FilesOK
  <2>5. CASE BackUp(run)
    <3>1. CASE ToBackUp(run) = {}
      <4>1. /\ stage[run] = "backup" /\ stage'[run] = "install"
            /\ UNCHANGED <<place, backup>>
        BY <1>1, <2>5, <3>1 DEF BackUp, Go, TypeOK, RunsOK
      <4>2. QED
        BY <1>3, <2>1, <2>3, <4>1 DEF RolledBack, Moving
    <3>2. CASE ToBackUp(run) # {}
      <4>1. PICK model \in ToBackUp(run) : model = First(ToBackUp(run))
        BY <3>2, ChosenModel DEF ToBackUp
      <4>2. /\ model \in Models /\ stage[run] = "backup" /\ stage' = stage
            /\ place[model] # Absent
            /\ place'[model] = Absent /\ backup'[run][model] = place[model]
            /\ \A m \in Models : m # model =>
                 place'[m] = place[m] /\ backup'[run][m] = backup[run][m]
        BY <1>1, <2>5, <3>2, <4>1 DEF BackUp, ToBackUp, TypeOK, FilesOK
      <4>3. /\ \A m \in Models : place[m] # run
            /\ backup[run][model] = Absent
        BY <1>1, <4>2 DEF Story, Unplaced, Saved
      <4>4. QED
        BY <1>3, <2>1, <2>3, <4>2, <4>3 DEF RolledBack, Moving
    <3>3. QED
      BY <3>1, <3>2
  <2>6. CASE Install(run)
    <3>1. stage[run] = "install"
      BY <2>6 DEF Install
    <3>2. PICK model \in temporary[run] : model = First(temporary[run])
      BY <1>1, <3>1, ChosenModel DEF TypeOK, FilesOK, Story, Built
    <3>3. /\ model \in Models /\ place' = [place EXCEPT ![model] = run]
          /\ temporary'[run] = temporary[run] \ {model} /\ backup' = backup
          /\ stage'[run] = IF temporary'[run] = {} THEN "discard" ELSE "install"
      BY <1>1, <2>6, <3>2 DEF Install, Go, TypeOK, FilesOK, RunsOK
    <3>4. place \in [Models -> {Absent, Earlier} \cup Runs]
      BY <1>1 DEF TypeOK, FilesOK
    <3>5. CASE temporary'[run] = {}
      <4>1. \A m \in Models : place'[m] = run
        BY <1>1, <3>1, <3>3, <3>4, <3>5 DEF Story, Built
      <4>2. Restorable' = place'
        BY <2>4, <3>3, <3>5 DEF Moving
      <4>3. place' = [m \in Models |-> run]
        BY <3>3, <3>4, <4>1
      <4>4. QED
        BY <1>3, <2>1, <4>2, <4>3
    <3>6. CASE temporary'[run] # {}
      <4>1. Restorable' = RolledBack(run)'
        BY <2>3, <3>3, <3>6 DEF Moving
      <4>2. place[model] \in {Absent, run}
        BY <1>1, <3>1, <3>3 DEF EngineInv, Separate, Holds, Moving
      <4>3. QED
        BY <1>3, <2>1, <3>3, <3>4, <4>1, <4>2 DEF RolledBack
    <3>7. QED
      BY <3>5, <3>6
  <2>7. CASE Withdraw(run)
    <3>1. stage[run] = "withdraw" /\ backup' = backup
      BY <2>7 DEF Withdraw
    <3>2. CASE Installed(run) = {}
      BY <1>1, <1>3, <2>1, <2>3, <2>7, <3>1, <3>2
         DEF Withdraw, Installed, Go, Moving, RolledBack, TypeOK, RunsOK
    <3>3. CASE Installed(run) # {}
      <4>1. PICK model \in Installed(run) :
              place' = [place EXCEPT ![model] = Absent]
        BY <2>7, <3>3, ChosenModel DEF Withdraw, Installed
      <4>2. /\ place[model] = run /\ place'[model] = Absent /\ stage' = stage
            /\ \A m \in Models : m # model => place'[m] = place[m]
        BY <1>1, <2>7, <3>3, <4>1 DEF Withdraw, Installed, TypeOK, FilesOK
      <4>3. QED
        BY <1>3, <2>1, <2>3, <3>1, <4>2 DEF Moving, RolledBack, Absent, Runs
    <3>4. QED
      BY <3>2, <3>3
  <2>8. CASE Restore(run)
    <3>1. /\ stage[run] = "restore" /\ \A model \in Models : place[model] # run
          /\ place \in [Models -> {Absent, Earlier} \cup Runs]
      BY <1>1, <2>8 DEF Restore, Story, Unplaced, TypeOK, FilesOK
    <3>2. CASE BackedUp(run) = {}
      <4>1. /\ stage'[run] = "cleanup" /\ place' = place
            /\ \A model \in Models : backup[run][model] = Absent
        BY <1>1, <2>8, <3>2 DEF Restore, BackedUp, Go, TypeOK, RunsOK
      <4>2. RolledBack(run) = place
        BY <3>1, <4>1 DEF RolledBack
      <4>3. QED
        BY <1>3, <2>1, <2>4, <4>1, <4>2 DEF Moving
    <3>3. CASE BackedUp(run) # {}
      <4>1. PICK model \in BackedUp(run) : model = Last(BackedUp(run))
        BY <3>3, ChosenModel DEF BackedUp
      <4>2. /\ model \in Models /\ stage' = stage
            /\ place'[model] = backup[run][model]
            /\ backup[run][model] # Absent /\ backup'[run][model] = Absent
            /\ \A m \in Models : m # model =>
                 place'[m] = place[m] /\ backup'[run][m] = backup[run][m]
        BY <1>1, <2>8, <3>3, <4>1 DEF Restore, BackedUp, TypeOK, FilesOK
      <4>3. backup[run][model] # run
        BY <1>1, <3>1, <4>2 DEF Story, Unsaved, Moving
      <4>4. QED
        BY <1>3, <2>1, <2>3, <3>1, <4>2, <4>3 DEF Moving, RolledBack
    <3>4. QED
      BY <3>2, <3>3
  <2>9. CASE ActivationFails(run)
    <3>1. stage[run] \in {"backup", "install"}
      BY <1>1, <1>5, <2>9, EngineAssumption DEF ActivationFails, Fail, Damaged,
         Story, Reports, Moving, TypeOK, CountersOK
    <3>2. stage'[run] = "withdraw" /\ UNCHANGED <<place, backup>>
      BY <1>1, <2>9, <3>1 DEF ActivationFails, Fail, Go, fileVars, TypeOK, RunsOK
    <3>3. QED
      BY <1>3, <2>1, <2>3, <3>2 DEF RolledBack, Moving
  <2>10. QED
    BY <1>5, <2>5, <2>6, <2>7, <2>8, <2>9 DEF Moving, Thread, Proceeds, Failure,
       StopCanceled, BuildStarts, Commit, Discard, CleanUp, BuildEngine,
       BuildFails, CleanUpFails, Models
<1>6. CASE stage[run] \notin Moving /\ stage'[run] \in Moving
  <2>1. Commit(run)
    BY <1>1, <1>6 DEF Moving, Thread, Proceeds, Failure,
       StopCanceled, BuildStarts, Discard, CleanUp, BuildEngine, BackUp, Install,
       Withdraw, Restore, ActivationFails,
       BuildFails, CleanUpFails, Models, Go, Fail, Activation, TypeOK, RunsOK
  <2>2. run = current
    BY <1>1, <2>1 DEF Commit, CancelSeen, Abandoned
  <2>3. /\ UNCHANGED <<place, backup>>
        /\ \A other \in Runs : stage[other] \notin Moving
        /\ \A other \in Runs : other # run => stage'[other] \notin Moving
        /\ \A model \in Models : backup[run][model] = Absent
        /\ \A model \in Models : place[model] # run
    BY <1>1, <1>3, <1>6, <2>1, <2>2 DEF Commit, fileVars, Abandoned, Fresh,
       Moving, Activation, Story, Unplaced, Untouched, Before
  <2>4. Activating = {} /\ Activating' = {run}
    BY <1>1, <1>6, <2>3 DEF Activating, Moving
  <2>5. Restorable = [model \in Models |-> place[model]]
    BY <2>4 DEF Restorable
  <2>6. Restorable' = [model \in Models |-> place[model]]
    <3>1. ASSUME NEW model \in Models
          PROVE  /\ ~\E r \in Activating' : backup'[r][model] # Absent
                 /\ place'[model] \notin Activating'
                 /\ place'[model] = place[model]
      BY <2>3, <2>4
    <3>2. QED
      BY <3>1 DEF Restorable
  <2>7. QED
    BY <1>3, <2>5, <2>6
<1>7. CASE stage[run] \notin Moving /\ stage'[run] \notin Moving
  <2>1. place' = place
    BY <1>7 DEF Moving, Thread, Proceeds, Failure, StopCanceled, BuildStarts,
       Commit, BackUp, Install, Withdraw, Restore, Discard, CleanUp,
       BuildEngine, BuildFails, ActivationFails, CleanUpFails, fileVars
  <2>2. Activating' = Activating /\ run \notin Activating
    BY <1>3, <1>7 DEF Activating, Moving
  <2>3. \A other \in Activating : backup'[other] = backup[other]
    BY <1>3, <2>2 DEF Activating
  <2>4. \A model \in Models :
          {other \in Activating : backup'[other][model] # Absent}
            = {other \in Activating : backup[other][model] # Absent}
    BY <2>3
  <2>5. QED
    BY <1>3, <2>1, <2>2, <2>3, ZenonT(40) DEF Restorable
<1>8. QED
  BY <1>5, <1>6, <1>7

\* ActivationIsAtomic: every step of either thread, rolled back or not, is one
\* of EngineStore or none.
THEOREM ActivationIsAtomic == Spec => AtomicActivation
<1>1. Init => Store!Init
  <2> SUFFICES ASSUME Init PROVE Store!Init
    OBVIOUS
  <2>1. EngineInv /\ \A run \in Runs : stage[run] = "unstarted"
    BY InitKeeps DEF Init
  <2>2. ~Damaged
    BY <2>1 DEF Damaged, Init
  <2>3. Committed = place
    BY <2>1, <2>2, NoneRestorable DEF Committed, Moving
  <2>4. QED
    BY <2>3 DEF Init, Store!Init, Store!Absent, Store!Earlier, Absent, Earlier
<1>2. StoryInv /\ [Next]_vars => [Store!Next]_(Store!vars)
  <2> SUFFICES ASSUME StoryInv, [Next]_vars PROVE [Store!Next]_(Store!vars)
    OBVIOUS
  <2>1. EngineInv
    BY DEF StoryInv
  <2>2. CASE Damaged'
    <3>1. CASE Damaged
      <4>1. UNCHANGED Committed
        BY <2>2, <3>1 DEF Committed
      <4>2. worker' \in BOOLEAN
        BY <2>1, StepTyped DEF EngineInv, TypeOK, FlagsOK
      <4>3. \A model \in Models : Committed[model] # Store!Absent
        BY <3>1 DEF Committed, Lost, Store!Absent
      <4>4. QED
        BY <4>1, <4>2, <4>3 DEF Store!Next, Store!StartWorker, Store!StopWorker
    <3>2. CASE ~Damaged
      <4>1. Committed' = [model \in Models |-> Lost]
        BY <2>2 DEF Committed
      <4>2. worker' \in {worker, FALSE}
        BY <2>1, <2>2, <3>2, DamageLasts
      <4>3. QED
        BY <4>1, <4>2 DEF Store!Next, Store!Damage
    <3>3. QED
      BY <3>1, <3>2
  <2>3. CASE ~Damaged'
    <3>1. ~Damaged
      BY <2>1, <2>3, DamageLasts
    <3>2. Committed = Restorable /\ Committed' = Restorable'
      BY <2>3, <3>1 DEF Committed
    <3>3. CASE MainThread \/ UNCHANGED vars
      BY <2>1, <2>3, <3>2, <3>3, MainThreadCommits DEF Store!Next,
         Store!StartWorker, Store!StopWorker, Store!vars, Store!Absent, Absent
    <3>4. CASE \E run \in 1..started : Thread(run)
      <4>1. PICK run \in 1..started : Thread(run) /\ run \in Runs
        BY <2>1, <3>4, EngineAssumption
           DEF EngineInv, TypeOK, CountersOK, Runs
      <4>2. CASE Restorable' = Restorable
        BY <2>3, <3>1, <3>2, <4>1, <4>2, ThreadCommits DEF Store!vars
      <4>3. CASE ~worker /\ Restorable' = [model \in Models |-> run]
        BY <2>3, <3>1, <3>2, <4>1, <4>3, ThreadCommits
           DEF Store!Next, Store!Activate, Runs
      <4>4. QED
        BY <2>3, <3>1, <4>1, <4>2, <4>3, ThreadCommits
    <3>5. QED
      BY <3>3, <3>4 DEF Next
  <2>4. QED
    BY <2>2, <2>3
<1>3. QED
  BY <1>1, <1>2, StoryInvariance, PTL DEF Spec, AtomicActivation, Store!Spec
=============================================================================
