------------------------- MODULE UpdaterFacadeProofs -------------------------
(***************************************************************************)
(* Proofs about UpdaterFacade for any number of releases, requests and     *)
(* periodic runs and any queue limit.  A task that start() accepted is     *)
(* never left without a worker, and the update that is ready is the one    *)
(* the current generation's check selected.  The pending update is worked  *)
(* on by one thread at a time, a helper is launched at most once for a     *)
(* generation and not against a rollback, a shutdown cancels and silences  *)
(* the worker, and the callbacks tell the application the state it is in.  *)
(***************************************************************************)
EXTENDS UpdaterFacade, SequenceTheorems, TLAPS

-----------------------------------------------------------------------------
(* The queue. *)

(* The timer only asks for checks. *)
Asked == {t \in Task : t.run # 0 => t.kind \in {"check", "checkDownload"}}

(* workerBusy is set as long as tasks wait, and while it is set somebody   *)
(* creates or is the worker.                                               *)
QueueInv ==
    /\ queue \in Seq(Asked) /\ Len(queue) <= MaxPendingTasks
    /\ call \in Asked \union {None} /\ runs \in Nat /\ looking \subseteq Nat /\ firing \subseteq Nat
    /\ queue # <<>> /\ ~shuttingDown => busy
    /\ busy /\ ~shuttingDown => spawning \/ worker # "none"

(* Generations are numbered. *)
NextGenNat == nextGen \in Nat /\ curGen \in Nat

(* What the queue invariant needs of a step that does not touch the queue. *)
QueueKept ==
    /\ UNCHANGED <<queue, busy, spawning, call, runs, looking, firing>>
    /\ down # "no" => down' # "no"
    /\ worker # "none" => worker' # "none"

(* A step that leaves the queue, the calls and the timer alone. *)
LEMMA QueueKeptInv ==
    ASSUME QueueInv, QueueKept
    PROVE  QueueInv'
BY DEF QueueInv, QueueKept, shuttingDown

(* start() queues a task, or refuses it when the queue is full. *)
LEMMA EnqueueInv ==
    ASSUME QueueInv, NEW t \in Asked, Enqueue(t), UNCHANGED <<down, worker>>
    PROVE  /\ queue' \in Seq(Asked) /\ Len(queue') <= MaxPendingTasks
           /\ queue' # <<>> /\ ~shuttingDown' => busy'
           /\ busy' /\ ~shuttingDown' => spawning' \/ worker' # "none"
<1>1. CASE shuttingDown \/ Len(queue) >= MaxPendingTasks
  BY <1>1 DEF Enqueue, start, QueueInv, shuttingDown
<1>2. CASE ~shuttingDown /\ ~(Len(queue) >= MaxPendingTasks)
  <2>1. /\ queue' = Append(queue, t) /\ busy' = TRUE
        /\ spawning' = (spawning \/ ~busy)
    BY <1>2 DEF Enqueue
  <2>2. /\ queue' \in Seq(Asked) /\ Len(queue') = Len(queue) + 1
    BY <2>1, AppendProperties DEF QueueInv
  <2>3. Len(queue) \in Nat /\ Len(queue') <= MaxPendingTasks
    BY <1>2, <2>2, LenProperties, FacadeAssumption DEF QueueInv
  <2>4. QED
    BY <1>2, <2>1, <2>2, <2>3 DEF QueueInv, shuttingDown
<1>3. QED
  BY <1>1, <1>2

(* The worker's steps other than Take keep the worker alive. *)
LEMMA WorkerKeeps ==
    ASSUME WorkerStep, ~Take
    PROVE  QueueKept
<1> USE DEF Finish, Proceed, Report, Refuse, SetGenerationState, BeginGeneration,
            elsewhere, start, timer, sync, world, work, QueueKept
<1>1. CASE InstallToken
  BY <1>1 DEF InstallToken
<1>2. CASE BeginCheck
  BY <1>2 DEF BeginCheck
<1>3. CASE BeginDownload
  BY <1>3 DEF BeginDownload
<1>4. CASE BeginApply
  BY <1>4 DEF BeginApply
<1>5. CASE TaskThrows
  BY <1>5 DEF TaskThrows
<1>6. CASE CheckFails \/ Download \/ DownloadFails
  BY <1>6 DEF CheckFails, Download, DownloadFails
<1>7. CASE CommitReady \/ Consume
  BY <1>7 DEF CommitReady, Consume
<1>8. CASE \E release \in Releases \union {None} : CheckSucceeds(release)
  BY <1>8 DEF CheckSucceeds
<1>9. CASE \E o \in Outcomes : ValidatePendingHealth(o) \/ SavePending(o)
  BY <1>9 DEF ValidatePendingHealth, SavePending
<1>10. CASE \E o \in Outcomes : LaunchApply(o)
  BY <1>10 DEF LaunchApply
<1>11. QED
  BY <1>1, <1>2, <1>3, <1>4, <1>5, <1>6, <1>7, <1>8, <1>9, <1>10 DEF WorkerStep

(* The worker takes the next task, or leaves when there is none. *)
LEMMA TakeInv ==
    ASSUME QueueInv, Take
    PROVE  QueueInv'
<1>1. CASE shuttingDown \/ queue = <<>>
  BY <1>1 DEF Take, QueueInv, shuttingDown, timer
<1>2. CASE ~(shuttingDown \/ queue = <<>>)
  <2>1. queue' = Tail(queue) /\ worker' = "token"
        /\ UNCHANGED <<busy, spawning, call, runs, looking, firing, down>>
    BY <1>2 DEF Take, timer
  <2>2. Tail(queue) \in Seq(Asked) /\ Len(Tail(queue)) = Len(queue) - 1
    BY <1>2, HeadTailProperties DEF QueueInv
  <2>3. Len(queue) \in Nat
    BY DEF QueueInv
  <2>4. QED
    BY <1>2, <2>1, <2>2, <2>3, FacadeAssumption DEF QueueInv, shuttingDown
<1>3. QED
  BY <1>1, <1>2

(* The calls of start() and the creation of the worker. *)
LEMMA StartStepInv ==
    ASSUME QueueInv, StartStep
    PROVE  QueueInv'
<1>1. CASE Start
  <2>1. Enqueue(call) /\ call \in Asked /\ call' = None
        /\ UNCHANGED <<down, worker, runs, looking, firing>>
    BY <1>1 DEF Start, QueueInv, work, timer
  <2>2. QED
    BY <2>1, EnqueueInv DEF QueueInv
<1>2. ASSUME NEW o \in {"ok", "fail"}, Spawn(o) PROVE QueueInv'
  <2>1. UNCHANGED <<down, call, runs, looking, firing>>
    BY <1>2 DEF Spawn, timer
  <2>2. \/ queue' = <<>> /\ busy' = FALSE
        \/ worker' = "take" /\ UNCHANGED <<queue, busy>>
    BY <1>2 DEF Spawn
  <2>3. CASE queue' = <<>> /\ busy' = FALSE
    BY <2>1, <2>3, FacadeAssumption DEF QueueInv, shuttingDown
  <2>4. CASE worker' = "take" /\ UNCHANGED <<queue, busy>>
    BY <2>1, <2>4 DEF QueueInv, shuttingDown
  <2>5. QED
    BY <2>2, <2>3, <2>4
<1>3. ASSUME NEW run \in looking, Trigger(run) PROVE QueueInv'
  <2>1. UNCHANGED <<queue, busy, spawning, worker, down, call, runs>>
    BY <1>3 DEF Trigger, start, work
  <2>2. looking' \subseteq Nat /\ firing' \subseteq Nat
    BY <1>3 DEF Trigger, QueueInv
  <2>3. QED
    BY <2>1, <2>2 DEF QueueInv, shuttingDown
<1>4. ASSUME NEW run \in firing, NEW kind \in {"check", "checkDownload"},
             StartFromTimer(run, kind)
      PROVE  QueueInv'
  <2> DEFINE t == [kind |-> kind, gen |-> 0, run |-> run]
  <2>1. Enqueue(t) /\ firing' = firing \ {run} /\ UNCHANGED <<down, worker, call, runs, looking>>
    BY <1>4 DEF StartFromTimer, work
  <2>2. t \in Asked
    BY DEF QueueInv, Task, Asked
  <2> HIDE DEF t
  <2>3. QED
    BY <2>1, <2>2, EnqueueInv DEF QueueInv
<1>5. CASE CheckPost \/ Dispatch
  <2>1. QueueKept
    BY <1>5 DEF CheckPost, Dispatch, errorStep, QueueKept, work, timer
  <2>2. QED
    BY <2>1, QueueKeptInv
<1>6. QED
  BY <1>1, <1>2, <1>3, <1>4, <1>5 DEF StartStep

(* The application's calls. *)
LEMMA ApplicationStepInv ==
    ASSUME QueueInv, NextGenNat, ApplicationStep
    PROVE  QueueInv'
<1>1. ASSUME NEW kind \in {"check", "checkDownload", "download", "apply"}, Call(kind)
      PROVE  QueueInv'
  <2>1. CaptureFor(kind) \in Nat
    BY DEF CaptureFor, NextGenNat
  <2>2. call' \in Asked
    BY <1>1, <2>1 DEF Call, Task, Asked
  <2>3. UNCHANGED <<queue, busy, spawning, runs, looking, firing, down, worker>>
    BY <1>1 DEF Call, start, timer, work
  <2>4. QED
    BY <2>2, <2>3 DEF QueueInv, shuttingDown
<1>2. CASE StartPeriodicCheck
  <2>1. runs' \in Nat /\ UNCHANGED <<queue, busy, spawning, call, looking, firing, down, worker>>
    BY <1>2 DEF StartPeriodicCheck, QueueInv, start, work
  <2>2. QED
    BY <2>1 DEF QueueInv, shuttingDown
<1>3. CASE (\E name \in {"healthy", "rollback"} : BeginOperation(name)) \/ Cancel
           \/ StopPeriodicCheck \/ ShutdownFlag \/ ShutdownDetach
  <2>1. QueueKept
    BY <1>3 DEF BeginOperation, Cancel, StopPeriodicCheck, ShutdownFlag, ShutdownDetach,
                QueueKept, start, timer, work, alone
  <2>2. QED
    BY <2>1, QueueKeptInv
<1>4. QED
  BY <1>1, <1>2, <1>3 DEF ApplicationStep

(* Every step keeps the queue invariant. *)
LEMMA QueueStep ==
    ASSUME QueueInv, NextGenNat, Next
    PROVE  QueueInv'
<1>1. CASE WorkerStep
  <2>1. CASE Take
    BY <2>1, TakeInv
  <2>2. CASE ~Take
    BY <1>1, <2>2, WorkerKeeps, QueueKeptInv
  <2>3. QED
    BY <2>1, <2>2
<1>2. CASE StartStep
  BY <1>2, StartStepInv
<1>3. CASE OperationStep
  <2>1. QueueKept
    BY <1>3 DEF OperationStep, LoadPending, CommitHealthyVersion, RequestRollback, untouched,
                QueueKept, start, timer
  <2>2. QED
    BY <2>1, QueueKeptInv
<1>4. CASE ShutdownStep
  <2>1. CASE ShutdownClear
    BY <2>1, FacadeAssumption DEF ShutdownClear, QueueInv, shuttingDown, alone, timer
  <2>2. CASE ShutdownCancel \/ ShutdownJoin
    <3>1. QueueKept
      BY <2>2 DEF ShutdownCancel, ShutdownJoin, QueueKept, alone, start, timer
    <3>2. QED
      BY <3>1, QueueKeptInv
  <2>3. QED
    BY <1>4, <2>1, <2>2 DEF ShutdownStep
<1>5. CASE ApplicationStep
  BY <1>5, ApplicationStepInv
<1>6. CASE Deliver \/ DeadlinePasses
  <2>1. QueueKept
    BY <1>6 DEF Deliver, DeadlinePasses, QueueKept, start, timer, work
  <2>2. QED
    BY <2>1, QueueKeptInv
<1>7. ASSUME NEW run \in 1 .. runs, ReadStateForTrigger(run) PROVE QueueInv'
  <2>1. run \in Nat /\ looking' = looking \union {run}
        /\ UNCHANGED <<queue, busy, spawning, call, runs, firing, down, worker>>
    BY <1>7 DEF ReadStateForTrigger, QueueInv, start, work
  <2>2. QED
    BY <2>1 DEF QueueInv, shuttingDown
<1>8. QED
  BY <1>1, <1>2, <1>3, <1>4, <1>5, <1>6, <1>7 DEF Next

-----------------------------------------------------------------------------
(* The generations. *)

(* What the worker holds: a task somebody asked for; no update is ready    *)
(* while it makes or launches one, and what it downloads is what the check *)
(* of the current generation selected.                                     *)
ReadyInv ==
    /\ nextGen \in Nat \ {0} /\ curGen \in Nat /\ checked \in Checked \union {None}
    /\ ReadyAgrees
    /\ curGen = 0 => ready = None
    /\ worker \notin {"none", "take"} => task \in Asked
    /\ worker = "consume" => task.kind = "apply"
    /\ worker \in {"health", "fetch", "download", "save", "commit"} => curGen # 0
    /\ worker \in {"health", "fetch", "download", "save", "commit", "launch"} => ready = None
    /\ worker \in {"download", "save", "commit"} =>
          checked = [id |-> curGen, release |-> found]

(* What it needs of the threads that are not the worker. *)
ReadyKept ==
    /\ UNCHANGED <<stateValue, generations, found, task>>
    /\ worker' = worker \/ worker' = "take"

(* A step of another thread. *)
LEMMA ReadyKeptInv ==
    ASSUME ReadyInv, ReadyKept
    PROVE  ReadyInv'
BY DEF ReadyInv, ReadyAgrees, ReadyKept, generations

(* Callers, the timer, the synchronous operations and shutdown leave the   *)
(* generations to the worker.                                              *)
LEMMA OthersKeep ==
    ASSUME Next, ~WorkerStep
    PROVE  ReadyKept
<1> USE DEF ReadyKept, work
<1>1. CASE StartStep
  BY <1>1 DEF StartStep, Start, CheckPost, Dispatch, errorStep,
              Spawn, Trigger, StartFromTimer
<1>2. CASE OperationStep
  BY <1>2 DEF OperationStep, LoadPending, CommitHealthyVersion, RequestRollback, untouched
<1>3. CASE ShutdownStep
  BY <1>3 DEF ShutdownStep, ShutdownClear, ShutdownCancel, ShutdownJoin, alone
<1>4. CASE ApplicationStep
  BY <1>4 DEF ApplicationStep, Call, BeginOperation, Cancel, StartPeriodicCheck,
              StopPeriodicCheck, ShutdownFlag, ShutdownDetach, alone
<1>5. CASE Deliver \/ DeadlinePasses \/ \E run \in 1 .. runs : ReadStateForTrigger(run)
  BY <1>5 DEF Deliver, DeadlinePasses, ReadStateForTrigger
<1>6. QED
  BY <1>1, <1>2, <1>3, <1>4, <1>5 DEF Next

(* A task that ends, with its generation kept or given up. *)
LEMMA EndInv ==
    ASSUME ReadyInv, \/ Finish /\ UNCHANGED <<stateValue, generations>>
                     \/ Report
                     \/ Finish /\ ready = None /\ UNCHANGED generations
    PROVE  ReadyInv'
BY DEF ReadyInv, ReadyAgrees, Finish, Report, generations

(* A new generation starts with nothing checked and nothing ready. *)
LEMMA BeginGenerationInv ==
    ASSUME ReadyInv, worker = "begin", BeginGeneration
    PROVE  ReadyInv'
BY DEF ReadyInv, ReadyAgrees, BeginGeneration, Proceed

(* Every step of the worker keeps the generations in agreement. *)
LEMMA WorkerReady ==
    ASSUME QueueInv, ReadyInv, WorkerStep
    PROVE  ReadyInv'
<1>1. CASE Take
  <2>1. UNCHANGED <<stateValue, generations, found>>
    BY <1>1 DEF Take
  <2>2. worker' = "none" \/ (worker' = "token" /\ task' \in Asked)
    <3>1. queue # <<>> => Head(queue) \in Asked
      BY HeadTailProperties DEF QueueInv
    <3>2. QED
      BY <1>1, <3>1 DEF Take
  <2>3. QED
    BY <2>1, <2>2 DEF ReadyInv, ReadyAgrees, generations
<1>2. CASE InstallToken
  BY <1>2 DEF InstallToken, ReadyInv, ReadyAgrees, generations
<1>3. CASE BeginCheck
  BY <1>3, EndInv, BeginGenerationInv DEF BeginCheck, Refuse
<1>4. CASE BeginDownload
  <2>1. CASE task.gen # 0 /\ curGen = task.gen /\ checked # None /\ checked.id = task.gen
             /\ Downloadable(task.gen) /\ checked.release # None
    <3>1. checked = [id |-> curGen, release |-> checked.release] /\ ready = None
      BY <2>1 DEF ReadyInv, Checked, Downloadable
    <3>2. UNCHANGED generations /\ (Finish \/ Proceed("download", checked.release))
      BY <1>4, <2>1 DEF BeginDownload
    <3>3. CASE Finish
      BY <3>1, <3>2, <3>3, EndInv
    <3>4. CASE Proceed("download", checked.release)
      BY <1>4, <2>1, <3>1, <3>2, <3>4
         DEF BeginDownload, ReadyInv, ReadyAgrees, Proceed, generations
    <3>5. QED
      BY <3>2, <3>3, <3>4
  <2>2. CASE ~(task.gen # 0 /\ curGen = task.gen /\ checked # None /\ checked.id = task.gen
               /\ Downloadable(task.gen) /\ checked.release # None)
    <3>1. worker = "begin" /\ (BeginGeneration \/ \E c : Refuse(c))
      BY <1>4, <2>2 DEF BeginDownload
    <3>2. CASE BeginGeneration
      BY <3>1, <3>2, BeginGenerationInv
    <3>3. CASE \E c : Refuse(c)
      BY <3>3, EndInv DEF Refuse
    <3>4. QED
      BY <3>1, <3>2, <3>3
  <2>3. QED
    BY <2>1, <2>2
<1>5. CASE BeginApply
  <2>1. CASE Report \/ Refuse(<<Unguarded("error")>>)
    BY <2>1, EndInv DEF Refuse
  <2>2. CASE Proceed("consume", ready.release) /\ UNCHANGED <<stateValue, generations, posted>>
    BY <1>5, <2>2 DEF BeginApply, Proceed, ReadyInv, ReadyAgrees, generations
  <2>3. QED
    BY <1>5, <2>1, <2>2 DEF BeginApply
<1>6. CASE TaskThrows
  <2>1. CASE curGen # 0
    BY <1>6, <2>1, EndInv DEF TaskThrows
  <2>2. CASE curGen = 0
    <3>1. Finish /\ ready = None /\ UNCHANGED generations
      BY <1>6, <2>2 DEF TaskThrows, ReadyInv
    <3>2. QED
      BY <3>1, EndInv
  <2>3. QED
    BY <2>1, <2>2
<1>7. CASE CheckFails \/ DownloadFails
  BY <1>7, EndInv DEF CheckFails, DownloadFails
<1>8. CASE Download
  BY <1>8 DEF Download, Proceed, ReadyInv, ReadyAgrees, generations
<1>9. CASE CommitReady
  BY <1>9 DEF CommitReady, Finish, ReadyInv, ReadyAgrees
<1>10. CASE Consume
  <2>1. CASE ReadyNow(task.gen)
    BY <1>10, <2>1 DEF Consume, Proceed, ReadyInv, ReadyAgrees
  <2>2. CASE ~ReadyNow(task.gen)
    BY <1>10, <2>2, EndInv DEF Consume, Refuse
  <2>3. QED
    BY <2>1, <2>2
<1>11. ASSUME NEW release \in Releases \union {None}, CheckSucceeds(release) PROVE ReadyInv'
  <2>1. /\ worker = "fetch" /\ ready' = None /\ UNCHANGED <<nextGen, curGen>>
        /\ checked' = [id |-> curGen, release |-> release]
        /\ Finish \/ Proceed("download", release)
    BY <1>11 DEF CheckSucceeds
  <2>2. checked' \in Checked
    BY <2>1 DEF Checked, ReadyInv
  <2>3. QED
    BY <2>1, <2>2 DEF Finish, Proceed, ReadyInv, ReadyAgrees
<1>12. ASSUME NEW o \in Outcomes, ValidatePendingHealth(o) PROVE ReadyInv'
  <2>1. CASE Report
    BY <2>1, EndInv
  <2>2. CASE SetGenerationState("Checking", "fetch", <<>>)
    BY <1>12, <2>2 DEF ValidatePendingHealth, SetGenerationState, Finish, Proceed, ReadyInv,
                       ReadyAgrees, generations
  <2>3. QED
    BY <1>12, <2>1, <2>2 DEF ValidatePendingHealth
<1>13. ASSUME NEW o \in Outcomes, SavePending(o) PROVE ReadyInv'
  <2>1. CASE Report
    BY <2>1, EndInv
  <2>2. CASE Proceed("commit", found) /\ UNCHANGED <<stateValue, generations, posted>>
    BY <1>13, <2>2 DEF SavePending, Proceed, ReadyInv, ReadyAgrees, generations
  <2>3. QED
    BY <1>13, <2>1, <2>2 DEF SavePending
<1>14. ASSUME NEW o \in Outcomes, LaunchApply(o) PROVE ReadyInv'
  BY <1>14, EndInv DEF LaunchApply
<1>15. QED
  BY <1>1, <1>2, <1>3, <1>4, <1>5, <1>6, <1>7, <1>8, <1>9, <1>10, <1>11, <1>12, <1>13,
     <1>14 DEF WorkerStep

-----------------------------------------------------------------------------
(* The theorems. *)

FacadeInv == QueueInv /\ ReadyInv

(* The invariant holds when the process starts. *)
LEMMA FacadeInit == Init => FacadeInv
BY FacadeAssumption DEF Init, FacadeInv, QueueInv, ReadyInv, ReadyAgrees, shuttingDown

(* And after every step of every thread. *)
LEMMA FacadeNext == FacadeInv /\ [Next]_vars => FacadeInv'
<1> SUFFICES ASSUME FacadeInv, [Next]_vars PROVE FacadeInv'
  OBVIOUS
<1>1. CASE Next
  <2>1. QueueInv'
    BY <1>1, QueueStep DEF FacadeInv, ReadyInv, NextGenNat
  <2>2. ReadyInv'
    BY <1>1, WorkerReady, OthersKeep, ReadyKeptInv DEF FacadeInv
  <2>3. QED
    BY <2>1, <2>2 DEF FacadeInv
<1>2. CASE UNCHANGED vars
  <2>1. QueueKept /\ ReadyKept
    BY <1>2 DEF vars, start, work, timer, QueueKept, ReadyKept
  <2>2. QED
    BY <2>1, QueueKeptInv, ReadyKeptInv DEF FacadeInv
<1>3. QED
  BY <1>1, <1>2

(* The invariant holds in every reachable state. *)
THEOREM FacadeInvariance == Spec => []FacadeInv
BY FacadeInit, FacadeNext, PTL DEF Spec

(* For any queue limit and any interleaving of calls, timer, worker and    *)
(* failed thread creations: an accepted task always has a worker, or a     *)
(* caller about to create one.                                             *)
THEOREM TasksAreNotLost == Spec => []NoLostTask
<1>1. FacadeInv => NoLostTask
  BY DEF FacadeInv, QueueInv, NoLostTask
<1>2. QED
  BY <1>1, FacadeInvariance, PTL

(* For any releases and requests: what is ready is what the check of the   *)
(* current generation selected.                                            *)
THEOREM ReadyIsChecked == Spec => []ReadyAgrees
<1>1. FacadeInv => ReadyAgrees
  BY DEF FacadeInv, ReadyInv
<1>2. QED
  BY <1>1, FacadeInvariance, PTL

(* Only the worker takes a ready update away, and only for a call of the   *)
(* application: the timer's own check gives way to it.                     *)
LEMMA ReadyTaken ==
    ASSUME FacadeInv, Next, ready # None, ready' = None
    PROVE  task.run = 0
<1> USE DEF FacadeInv
<1>1. stateValue = "ReadyToApply"
  BY DEF ReadyInv, ReadyAgrees
<1>2. WorkerStep
  BY OthersKeep DEF ReadyKept, generations
<1>3. worker \in {"begin", "consume"}
  BY <1>2 DEF WorkerStep, ReadyInv, Take, InstallToken, BeginCheck, BeginDownload, BeginApply,
     TaskThrows, CheckFails, Download, DownloadFails, CommitReady, Consume, CheckSucceeds,
     ValidatePendingHealth, SavePending, LaunchApply, generations
<1>4. task \in Asked
  BY <1>3 DEF ReadyInv
<1>5. CASE task.kind \in {"download", "apply"}
  BY <1>4, <1>5 DEF Asked, Task
<1>6. CASE task.kind \in {"check", "checkDownload"}
  <2>1. worker = "begin"
    BY <1>3, <1>6 DEF ReadyInv
  <2>2. BeginCheck \/ TaskThrows
    BY <1>2, <1>6, <2>1 DEF WorkerStep, Take, InstallToken, BeginDownload, BeginApply,
       CheckFails, Download, DownloadFails, CommitReady, Consume, CheckSucceeds,
       ValidatePendingHealth, SavePending, LaunchApply
  <2>3. CASE BeginCheck
    <3>1. ~CheckBlocked
      BY <2>3 DEF BeginCheck, Refuse, generations
    <3>2. QED
      BY <1>1, <3>1 DEF CheckBlocked
  <2>4. CASE TaskThrows
    BY <1>1, <2>4 DEF TaskThrows, CheckBlocked
  <2>5. QED
    BY <2>2, <2>3, <2>4
<1>7. QED
  BY <1>4, <1>5, <1>6 DEF Asked, Task

(* For any releases, requests and periodic runs: a periodic check never    *)
(* takes away an update that is ready.                                     *)
THEOREM TimerKeepsReady == Spec => PeriodicKeepsReady
<1>1. FacadeInv /\ [Next]_vars => [ready # None /\ ready' = None => task.run = 0]_vars
  BY ReadyTaken
<1>2. QED
  BY <1>1, FacadeInvariance, PTL DEF Spec, PeriodicKeepsReady

-----------------------------------------------------------------------------
(* The pending update: locks, shutdown, helpers and the states it is in. *)

(* operationMutex: whoever works on the pending update holds it. *)
LockInv ==
    /\ op \in {"none", "healthy", "rollback", "confirm", "request"}
    /\ opLock \in {"free", "worker", "app"}
    /\ opLock = "app" <=> op # "none"
    /\ opLock = "worker" <=> worker \notin {"none", "take", "token", "begin"}
    /\ shuttingDown => op = "none" /\ call = None

(* The token of the running task, and a shutdown that has joined. *)
ShutdownInv ==
    /\ worker \notin {"none", "take", "token"} => token \in {"live", "cancelled"}
    /\ ShutdownCancelsWork
    /\ down = "done" => worker = "none"

(* The pending update while somebody works on it, and what it says of the  *)
(* helpers that were launched.                                             *)
PendingInv ==
    /\ pending \in Releases \union {Running, None}
    /\ op \in {"confirm", "request"} => pending = opPending /\ opPending \in {None, Running}
    /\ ready # None => ready.release \in Releases
    /\ worker \in {"download", "save", "commit", "consume", "launch"} => found \in Releases
    /\ worker \in {"commit", "consume", "launch"} => pending = found

(* A generation for which the helper was started is spent: it cannot be    *)
(* downloaded or applied again.                                            *)
Spent == /\ ready = None /\ worker \in {"none", "take", "token", "begin"}
         /\ stateValue = "Applying" \/ checked = None

HelperInv ==
    /\ launched \in Seq(Launch) /\ nextGen > curGen
    /\ worker \in {"consume", "launch"} => curGen # 0
    /\ worker = "launch" => stateValue = "Applying"
    /\ \A i \in DOMAIN launched : launched[i].intent = "Install" =>
          /\ launched[i].gen \in 1 .. curGen /\ pending # Running
          /\ launched[i].gen = curGen => Spent
    /\ \A i \in DOMAIN launched : launched[i].intent = "Rollback" => pending = Running \/ confirmed
    /\ OneHelper

(* The callback the application will go by. *)
Shows(c) == c.what \in States /\ (c.gen # 0 => c.gen = curGen)

Announced(cs, before, state) ==
    \/ \E k \in DOMAIN cs : /\ Shows(cs[k]) /\ cs[k].what = state
                            /\ \A j \in DOMAIN cs : j > k => ~Shows(cs[j])
    \/ (\A k \in DOMAIN cs : ~Shows(cs[k])) /\ before = state

ViewInv ==
    /\ posted \in Seq(Callback)
    /\ ~shuttingDown /\ worker # "health" => Announced(posted, seen, stateValue)

-----------------------------------------------------------------------------
(* operationMutex and shutdown. *)

(* What the locks and the token need of the worker's own steps. *)
LEMMA WorkerLock ==
    ASSUME FacadeInv, LockInv, WorkerStep
    PROVE  LockInv'
<1> USE DEF LockInv, Finish, Proceed, Report, Refuse, SetGenerationState, BeginGeneration,
            elsewhere, sync, shuttingDown
<1>1. CASE Take \/ InstallToken
  BY <1>1 DEF Take, InstallToken
<1>2. CASE BeginCheck
  BY <1>2 DEF BeginCheck
<1>3. CASE BeginDownload
  BY <1>3 DEF BeginDownload
<1>4. CASE BeginApply \/ TaskThrows
  BY <1>4 DEF BeginApply, TaskThrows
<1>5. CASE CheckFails \/ Download \/ DownloadFails
  BY <1>5 DEF CheckFails, Download, DownloadFails
<1>6. CASE CommitReady \/ Consume
  BY <1>6 DEF CommitReady, Consume
<1>7. CASE \E release \in Releases \union {None} : CheckSucceeds(release)
  BY <1>7 DEF CheckSucceeds
<1>8. CASE \E o \in Outcomes : ValidatePendingHealth(o) \/ SavePending(o)
  BY <1>8 DEF ValidatePendingHealth, SavePending
<1>9. CASE \E o \in Outcomes : LaunchApply(o)
  BY <1>9 DEF LaunchApply
<1>10. QED
  BY <1>1, <1>2, <1>3, <1>4, <1>5, <1>6, <1>7, <1>8, <1>9 DEF WorkerStep

(* Every step leaves operationMutex with whoever works on the update. *)
LEMMA LockNext ==
    ASSUME FacadeInv, LockInv, Next
    PROVE  LockInv'
<1> USE DEF LockInv, shuttingDown
<1>1. CASE WorkerStep
  BY <1>1, WorkerLock
<1>2. CASE StartStep
  BY <1>2 DEF StartStep, Start, CheckPost, Dispatch, errorStep,
              Spawn, Trigger, StartFromTimer, work, sync
<1>3. CASE OperationStep
  BY <1>3 DEF OperationStep, LoadPending, CommitHealthyVersion, RequestRollback, Return,
              untouched
<1>4. CASE ShutdownStep
  BY <1>4 DEF ShutdownStep, ShutdownClear, ShutdownCancel, ShutdownJoin, alone, sync
<1>5. CASE ApplicationStep
  BY <1>5 DEF ApplicationStep, Call, BeginOperation, Cancel, StartPeriodicCheck,
              StopPeriodicCheck, ShutdownFlag, ShutdownDetach, alone, work, sync
<1>6. CASE Deliver \/ DeadlinePasses \/ \E run \in 1 .. runs : ReadStateForTrigger(run)
  BY <1>6 DEF Deliver, DeadlinePasses, ReadStateForTrigger, work, sync
<1>7. QED
  BY <1>1, <1>2, <1>3, <1>4, <1>5, <1>6 DEF Next

(* The worker's steps against a shutdown that is under way. *)
LEMMA WorkerShutdown ==
    ASSUME FacadeInv, ShutdownInv, WorkerStep
    PROVE  ShutdownInv'
<1> USE DEF ShutdownInv, ShutdownCancelsWork, Finish, Proceed, Report, Refuse,
            SetGenerationState, BeginGeneration, elsewhere, shuttingDown
<1>1. CASE Take \/ InstallToken
  BY <1>1 DEF Take, InstallToken
<1>2. CASE BeginCheck
  BY <1>2 DEF BeginCheck
<1>3. CASE BeginDownload
  BY <1>3 DEF BeginDownload
<1>4. CASE BeginApply \/ TaskThrows
  BY <1>4 DEF BeginApply, TaskThrows
<1>5. CASE CheckFails \/ Download \/ DownloadFails
  BY <1>5 DEF CheckFails, Download, DownloadFails
<1>6. CASE CommitReady \/ Consume
  BY <1>6 DEF CommitReady, Consume
<1>7. CASE \E release \in Releases \union {None} : CheckSucceeds(release)
  BY <1>7 DEF CheckSucceeds
<1>8. CASE \E o \in Outcomes : ValidatePendingHealth(o) \/ SavePending(o)
  BY <1>8 DEF ValidatePendingHealth, SavePending
<1>9. CASE \E o \in Outcomes : LaunchApply(o)
  BY <1>9 DEF LaunchApply
<1>10. QED
  BY <1>1, <1>2, <1>3, <1>4, <1>5, <1>6, <1>7, <1>8, <1>9 DEF WorkerStep

(* Every step respects a shutdown: the token it cancels stays cancelled,   *)
(* and no worker is created after it.                                      *)
LEMMA ShutdownNext ==
    ASSUME FacadeInv, ShutdownInv, Next
    PROVE  ShutdownInv'
<1> USE DEF ShutdownInv, ShutdownCancelsWork, shuttingDown
<1>1. CASE WorkerStep
  BY <1>1, WorkerShutdown
<1>2. CASE StartStep
  BY <1>2 DEF StartStep, Start, CheckPost, Dispatch, errorStep,
              Spawn, Trigger, StartFromTimer, work
<1>3. CASE OperationStep
  BY <1>3 DEF OperationStep, LoadPending, CommitHealthyVersion, RequestRollback, untouched
<1>4. CASE ShutdownStep
  BY <1>4 DEF ShutdownStep, ShutdownClear, ShutdownCancel, ShutdownJoin, CancelToken, alone
<1>5. CASE ApplicationStep
  BY <1>5 DEF ApplicationStep, Call, BeginOperation, Cancel, CancelToken, StartPeriodicCheck,
              StopPeriodicCheck, ShutdownFlag, ShutdownDetach, alone, work
<1>6. CASE Deliver \/ DeadlinePasses \/ \E run \in 1 .. runs : ReadStateForTrigger(run)
  BY <1>6 DEF Deliver, DeadlinePasses, ReadStateForTrigger, work
<1>7. QED
  BY <1>1, <1>2, <1>3, <1>4, <1>5, <1>6 DEF Next

-----------------------------------------------------------------------------
(* The pending update. *)

(* The worker makes, saves and applies one release at a time. *)
LEMMA WorkerPending ==
    ASSUME FacadeInv, LockInv, PendingInv, WorkerStep
    PROVE  PendingInv'
<1> USE DEF FacadeInv, LockInv, PendingInv, Finish, Proceed, Report, Refuse,
            SetGenerationState, BeginGeneration, elsewhere, sync, store, generations
<1>1. CASE Take \/ InstallToken
  BY <1>1 DEF Take, InstallToken
<1>2. CASE BeginCheck
  BY <1>2 DEF BeginCheck
<1>3. CASE BeginDownload
  <2>1. checked # None /\ checked.release # None => checked.release \in Releases
    BY DEF ReadyInv, Checked
  <2>2. QED
    BY <1>3, <2>1 DEF BeginDownload
<1>4. CASE BeginApply
  <2>1. ReadyNow(task.gen) => ready # None
    BY DEF ReadyNow
  <2>2. QED
    BY <1>4, <2>1 DEF BeginApply
<1>5. CASE TaskThrows
  BY <1>5 DEF TaskThrows
<1>6. CASE CheckFails \/ Download \/ DownloadFails
  BY <1>6 DEF CheckFails, Download, DownloadFails
<1>7. CASE CommitReady \/ Consume
  BY <1>7 DEF CommitReady, Consume
<1>8. CASE \E release \in Releases \union {None} : CheckSucceeds(release)
  BY <1>8 DEF CheckSucceeds
<1>9. CASE \E o \in Outcomes : ValidatePendingHealth(o)
  BY <1>9 DEF ValidatePendingHealth, ReconcileRollback
<1>10. CASE \E o \in Outcomes : SavePending(o)
  BY <1>10 DEF SavePending, SavePendingUpdate
<1>11. CASE \E o \in Outcomes : LaunchApply(o)
  BY <1>11 DEF LaunchApply
<1>12. QED
  BY <1>1, <1>2, <1>3, <1>4, <1>5, <1>6, <1>7, <1>8, <1>9, <1>10, <1>11 DEF WorkerStep

(* A synchronous call holds operationMutex while it works on the update. *)
LEMMA PendingNext ==
    ASSUME FacadeInv, LockInv, PendingInv, Next
    PROVE  PendingInv'
<1> USE DEF LockInv, PendingInv
<1>1. CASE WorkerStep
  BY <1>1, WorkerPending
<1>2. CASE StartStep
  BY <1>2 DEF StartStep, Start, CheckPost, Dispatch, errorStep,
              Spawn, Trigger, StartFromTimer, work, sync, store, generations
<1>3. CASE \E o \in Outcomes : LoadPending(o)
  BY <1>3 DEF LoadPending, ReconcileRollback, Return, untouched, generations
<1>4. CASE \E o \in Outcomes : CommitHealthyVersion(o)
  BY <1>4 DEF CommitHealthyVersion, Return, untouched, store, generations
<1>5. CASE \E o \in Outcomes : RequestRollback(o)
  BY <1>5 DEF RequestRollback, Return, untouched, store, generations
<1>6. CASE ShutdownStep
  BY <1>6 DEF ShutdownStep, ShutdownClear, ShutdownCancel, ShutdownJoin, alone, sync, store,
              generations
<1>7. CASE ApplicationStep
  BY <1>7 DEF ApplicationStep, Call, BeginOperation, Cancel, StartPeriodicCheck,
              StopPeriodicCheck, ShutdownFlag, ShutdownDetach, alone, work, sync, store,
              generations
<1>8. CASE Deliver \/ DeadlinePasses \/ \E run \in 1 .. runs : ReadStateForTrigger(run)
  BY <1>8 DEF Deliver, DeadlinePasses, ReadStateForTrigger, work, sync, store, generations
<1>9. QED
  BY <1>1, <1>2, <1>3, <1>4, <1>5, <1>6, <1>7, <1>8 DEF Next, OperationStep

-----------------------------------------------------------------------------
(* The helpers. *)

(* What a step that launches nothing must respect: an update once awaited  *)
(* is not awaited again, it ceases to be by being confirmed, and a spent   *)
(* generation stays spent.                                                 *)
HelpersKept ==
    /\ launched' = launched
    /\ pending' = Running => pending = Running
    /\ pending = Running /\ pending' # Running => confirmed'
    /\ confirmed => confirmed'
    /\ curGen' \in Nat /\ nextGen' > curGen'
    /\ curGen' > curGen \/ (curGen' = curGen /\ (curGen # 0 /\ Spent => Spent'))
    /\ worker' \in {"consume", "launch"} => curGen' # 0
    /\ worker' = "launch" => stateValue' = "Applying"

(* Then nothing changes about the helpers. *)
LEMMA HelpersKeptInv ==
    ASSUME HelperInv, HelpersKept, curGen \in Nat
    PROVE  HelperInv'
<1>1. \A i \in DOMAIN launched' : launched'[i].intent = "Install" =>
          launched'[i].gen \in 1 .. curGen' /\ pending' # Running
          /\ (launched'[i].gen = curGen' => Spent')
  BY DEF HelperInv, HelpersKept
<1>2. \A i \in DOMAIN launched' : launched'[i].intent = "Rollback" =>
          pending' = Running \/ confirmed'
  BY DEF HelperInv, HelpersKept
<1>3. OneHelper'
  BY DEF HelperInv, HelpersKept, OneHelper
<1>4. QED
  BY <1>1, <1>2, <1>3 DEF HelperInv, HelpersKept

(* The worker's steps other than the launch. *)
LEMMA WorkerHelpers ==
    ASSUME FacadeInv, LockInv, PendingInv, HelperInv, WorkerStep,
           ~\E o \in Outcomes : LaunchApply(o)
    PROVE  HelpersKept
<1> USE DEF FacadeInv, HelpersKept, Spent, Finish, Proceed, Report, Refuse, SetGenerationState,
            BeginGeneration, elsewhere, store, generations
<1>0. nextGen \in Nat /\ curGen \in Nat /\ nextGen > curGen
  BY DEF ReadyInv, HelperInv
<1>1. CASE Take \/ InstallToken
  BY <1>0, <1>1 DEF Take, InstallToken
<1>2. CASE BeginCheck
  BY <1>0, <1>2 DEF BeginCheck
<1>3. CASE BeginDownload
  BY <1>0, <1>3 DEF BeginDownload, Downloadable
<1>4. CASE BeginApply
  <2>1. ReadyNow(task.gen) => ready # None /\ curGen # 0
    BY DEF ReadyNow
  <2>2. QED
    BY <1>0, <1>4, <2>1 DEF BeginApply
<1>5. CASE TaskThrows
  BY <1>0, <1>5 DEF TaskThrows
<1>6. CASE CheckFails \/ Download \/ DownloadFails
  BY <1>0, <1>6 DEF CheckFails, Download, DownloadFails
<1>7. CASE CommitReady
  BY <1>0, <1>7 DEF CommitReady
<1>8. CASE Consume
  BY <1>0, <1>8 DEF Consume, ReadyNow, HelperInv
<1>9. CASE \E release \in Releases \union {None} : CheckSucceeds(release)
  BY <1>0, <1>9 DEF CheckSucceeds
<1>10. CASE \E o \in Outcomes : ValidatePendingHealth(o)
  BY <1>0, <1>10, FacadeAssumption DEF ValidatePendingHealth, ReconcileRollback, RolledBackPending
<1>11. CASE \E o \in Outcomes : SavePending(o)
  <2>1. found # Running
    BY <1>11, FacadeAssumption DEF SavePending, PendingInv
  <2>2. \A o \in Outcomes : SavePendingUpdate(found, o) =>
           (pending' = Running <=> pending = Running)
    BY <2>1, FacadeAssumption DEF SavePendingUpdate
  <2>3. QED
    BY <1>0, <1>11, <2>2 DEF SavePending
<1>12. QED
  BY <1>1, <1>2, <1>3, <1>4, <1>5, <1>6, <1>7, <1>8, <1>9, <1>10, <1>11 DEF WorkerStep

(* The worker launches the helper for a generation that is not spent. *)
LEMMA LaunchHelper ==
    ASSUME FacadeInv, PendingInv, HelperInv, NEW o \in Outcomes, LaunchApply(o)
    PROVE  HelperInv'
<1>0. /\ nextGen \in Nat /\ curGen \in Nat /\ curGen # 0 /\ nextGen > curGen
      /\ worker = "launch" /\ stateValue = "Applying" /\ ready = None
      /\ pending = found /\ found \in Releases /\ pending # Running
  BY FacadeAssumption DEF LaunchApply, FacadeInv, ReadyInv, PendingInv, HelperInv
<1>1. CASE launched' = launched
  <2>1. HelpersKept
    BY <1>0, <1>1 DEF LaunchApply, HelpersKept, Finish, Report, Spent, store, generations
  <2>2. QED
    BY <1>0, <2>1, HelpersKeptInv
<1>2. CASE launched' # launched
  <2> DEFINE l == [intent |-> "Install", gen |-> curGen, release |-> found]
  <2>1. /\ launched' = Append(launched, l) /\ Finish
        /\ stateValue' = "Applying" \/ checked' = None
        /\ ready' = None
        /\ UNCHANGED <<nextGen, curGen, pending, confirmed>>
    BY <1>0, <1>2 DEF LaunchApply, Report, store, generations
  <2>2. l \in Launch
    BY <1>0 DEF Launch
  <2> HIDE DEF l
  <2>3. /\ launched \in Seq(Launch) /\ launched' \in Seq(Launch)
        /\ Len(launched) \in Nat /\ Len(launched') = Len(launched) + 1
        /\ \A i \in 1 .. Len(launched) : launched'[i] = launched[i]
        /\ launched'[Len(launched) + 1] = l
        /\ DOMAIN launched = 1 .. Len(launched) /\ DOMAIN launched' = 1 .. Len(launched')
    BY <2>1, <2>2, AppendProperties, LenProperties DEF HelperInv
  <2>4. l.intent = "Install" /\ l.gen = curGen
    BY DEF l
  <2>5. Spent'
    BY <1>0, <2>1 DEF Spent, Finish
  <2>6. ASSUME NEW i \in DOMAIN launched'
        PROVE  /\ launched'[i].intent = "Install" => /\ launched'[i].gen \in 1 .. curGen'
                                                     /\ pending' # Running
                                                     /\ launched'[i].gen = curGen' => Spent'
               /\ launched'[i].intent = "Rollback" => pending' = Running \/ confirmed'
    BY <1>0, <2>1, <2>3, <2>4, <2>5 DEF HelperInv
  <2>7. \A i \in 1 .. Len(launched) : launched[i].intent = "Install" => launched[i].gen # curGen
    BY <1>0, <2>3 DEF HelperInv, Spent
  <2>8. ASSUME NEW i \in DOMAIN launched', NEW j \in DOMAIN launched',
               launched'[i].intent = "Install", launched'[i] = launched'[j]
        PROVE  i = j
    <3>1. i \in 1 .. Len(launched) \/ i = Len(launched) + 1
      BY <2>3
    <3>2. j \in 1 .. Len(launched) \/ j = Len(launched) + 1
      BY <2>3
    <3>3. QED
      BY <2>3, <2>4, <2>7, <2>8, <3>1, <3>2 DEF HelperInv, OneHelper
  <2>9. ASSUME NEW i \in DOMAIN launched', NEW j \in DOMAIN launched',
               launched'[i].intent = "Install", launched'[j].intent = "Rollback"
        PROVE  j < i /\ confirmed'
    <3>1. j \in 1 .. Len(launched) /\ launched[j].intent = "Rollback"
      BY <2>3, <2>4, <2>9
    <3>2. confirmed'
      BY <1>0, <2>1, <2>3, <3>1 DEF HelperInv
    <3>3. CASE i \in 1 .. Len(launched)
      BY <2>3, <2>9, <3>1, <3>2, <3>3 DEF HelperInv, OneHelper
    <3>4. CASE i = Len(launched) + 1
      BY <2>3, <3>1, <3>2, <3>4
    <3>5. QED
      BY <2>3, <3>3, <3>4
  <2>10. OneHelper'
    BY <2>8, <2>9 DEF OneHelper
  <2>11. QED
    BY <1>0, <2>1, <2>3, <2>6, <2>10 DEF HelperInv, Finish
<1>3. QED
  BY <1>1, <1>2

(* A rollback is launched only for the update that awaits confirmation. *)
LEMMA LaunchRollback ==
    ASSUME FacadeInv, PendingInv, HelperInv, NEW o \in Outcomes, RequestRollback(o)
    PROVE  HelperInv'
<1>0. /\ nextGen \in Nat /\ curGen \in Nat /\ nextGen > curGen
      /\ opPending \in {None, Running} /\ pending = opPending
      /\ UNCHANGED <<stateValue, nextGen, curGen, checked, ready, pending, confirmed, worker>>
  BY DEF RequestRollback, FacadeInv, ReadyInv, PendingInv, HelperInv, untouched, store,
         generations
<1>1. CASE launched' = launched
  <2>1. HelpersKept
    BY <1>0, <1>1 DEF HelpersKept, Spent, HelperInv
  <2>2. QED
    BY <1>0, <2>1, HelpersKeptInv
<1>2. CASE launched' # launched
  <2> DEFINE l == [intent |-> "Rollback", gen |-> 0, release |-> opPending]
  <2>1. launched' = Append(launched, l) /\ opPending = Running /\ pending = Running
    BY <1>0, <1>2 DEF RequestRollback
  <2>2. l \in Launch
    BY <2>1 DEF Launch
  <2> HIDE DEF l
  <2>3. /\ launched \in Seq(Launch) /\ launched' \in Seq(Launch)
        /\ Len(launched) \in Nat /\ Len(launched') = Len(launched) + 1
        /\ \A i \in 1 .. Len(launched) : launched'[i] = launched[i]
        /\ launched'[Len(launched) + 1] = l
        /\ DOMAIN launched = 1 .. Len(launched) /\ DOMAIN launched' = 1 .. Len(launched')
    BY <2>1, <2>2, AppendProperties, LenProperties DEF HelperInv
  <2>4. l.intent = "Rollback"
    BY DEF l
  <2>5. \A i \in DOMAIN launched' : launched'[i].intent # "Install"
    BY <2>1, <2>3, <2>4 DEF HelperInv
  <2>6. QED
    BY <1>0, <2>1, <2>3, <2>5 DEF HelperInv, OneHelper
<1>3. QED
  BY <1>1, <1>2

(* Every step respects the helpers that were launched. *)
LEMMA HelperNext ==
    ASSUME FacadeInv, LockInv, PendingInv, HelperInv, Next
    PROVE  HelperInv'
<1>0. nextGen \in Nat /\ curGen \in Nat /\ nextGen > curGen
  BY DEF FacadeInv, ReadyInv, HelperInv
<1>1. CASE WorkerStep
  BY <1>0, <1>1, LaunchHelper, WorkerHelpers, HelpersKeptInv
<1>2. CASE \E o \in Outcomes : RequestRollback(o)
  BY <1>2, LaunchRollback
<1>3. CASE \E o \in Outcomes : LoadPending(o) \/ CommitHealthyVersion(o)
  <2>1. CASE \E o \in Outcomes : LoadPending(o)
    <3>1. HelpersKept
      BY <1>0, <2>1, FacadeAssumption
         DEF LoadPending, ReconcileRollback, RolledBackPending, HelpersKept, HelperInv, Spent,
             untouched, generations
    <3>2. QED
      BY <1>0, <3>1, HelpersKeptInv
  <2>2. CASE \E o \in Outcomes : CommitHealthyVersion(o)
    <3>1. HelpersKept
      BY <1>0, <2>2, FacadeAssumption
         DEF CommitHealthyVersion, HelpersKept, HelperInv, Spent, untouched, store, generations
    <3>2. QED
      BY <1>0, <3>1, HelpersKeptInv
  <2>3. QED
    BY <1>3, <2>1, <2>2
<1>4. CASE ~WorkerStep /\ ~OperationStep
  <2>1. UNCHANGED <<stateValue, nextGen, curGen, checked, ready>>
        /\ (worker' = worker \/ worker' = "take")
    BY <1>4, OthersKeep DEF ReadyKept, generations
  <2>2. UNCHANGED <<launched, pending, confirmed>>
    BY <1>4 DEF Next, StartStep, Start, CheckPost, Dispatch, errorStep,
                Spawn, Trigger, StartFromTimer, ShutdownStep,
       ShutdownClear, ShutdownCancel, ShutdownJoin, ApplicationStep, Call, BeginOperation,
       Cancel, StartPeriodicCheck, StopPeriodicCheck, ShutdownFlag, ShutdownDetach, Deliver,
       DeadlinePasses, ReadStateForTrigger, alone, store
  <2>3. HelpersKept
    BY <1>0, <2>1, <2>2 DEF HelpersKept, HelperInv, Spent
  <2>4. QED
    BY <1>0, <2>3, HelpersKeptInv
<1>5. QED
  BY <1>1, <1>2, <1>3, <1>4 DEF Next, OperationStep

-----------------------------------------------------------------------------
(* What the application is told. *)

(* The callbacks in the dispatcher after more were posted. *)
LEMMA PostedAfter ==
    ASSUME posted \in Seq(Callback), NEW cs \in Seq(Callback), posted' = posted \o cs
    PROVE  /\ posted' \in Seq(Callback) /\ Len(posted) \in Nat /\ Len(cs) \in Nat
           /\ DOMAIN posted' = 1 .. Len(posted) + Len(cs)
           /\ DOMAIN posted = 1 .. Len(posted) /\ DOMAIN cs = 1 .. Len(cs)
           /\ \A i \in 1 .. Len(posted) : posted'[i] = posted[i]
           /\ \A i \in 1 .. Len(cs) : posted'[Len(posted) + i] = cs[i]
<1>1. posted' \in Seq(Callback) /\ Len(posted') = Len(posted) + Len(cs)
  BY ConcatProperties
<1>2. \A i \in 1 .. Len(posted) + Len(cs) :
         posted'[i] = IF i <= Len(posted) THEN posted[i] ELSE cs[i - Len(posted)]
  BY ConcatProperties
<1>3. Len(posted) \in Nat /\ Len(cs) \in Nat
  BY LenProperties
<1>4. QED
  BY <1>1, <1>2, <1>3, LenProperties

(* A state that is posted last is the one the application will know. *)
LEMMA StatePosted ==
    ASSUME ViewInv, NEW cs \in Seq(Callback), posted' = posted \o cs,
           NEW k \in DOMAIN cs, Shows(cs[k])', cs[k].what = stateValue',
           \A j \in DOMAIN cs : j > k => ~Shows(cs[j])'
    PROVE  ViewInv'
<1>1. /\ posted' \in Seq(Callback) /\ Len(posted) \in Nat /\ Len(cs) \in Nat
      /\ DOMAIN posted' = 1 .. Len(posted) + Len(cs)
      /\ DOMAIN posted = 1 .. Len(posted) /\ DOMAIN cs = 1 .. Len(cs)
      /\ \A i \in 1 .. Len(posted) : posted'[i] = posted[i]
      /\ \A i \in 1 .. Len(cs) : posted'[Len(posted) + i] = cs[i]
  BY PostedAfter DEF ViewInv
<1>2. Len(posted) + k \in DOMAIN posted' /\ posted'[Len(posted) + k] = cs[k]
  BY <1>1
<1>3. ASSUME NEW j \in DOMAIN posted', j > Len(posted) + k PROVE ~Shows(posted[j])'
  <2>0. j - Len(posted) \in 1 .. Len(cs) /\ j = Len(posted) + (j - Len(posted))
    BY <1>1, <1>3
  <2>1. PICK i \in DOMAIN cs : j = Len(posted) + i
    BY <1>1, <2>0
  <2>2. posted'[j] = cs[i] /\ i > k
    BY <1>1, <1>3, <2>1
  <2>3. QED
    BY <2>2 DEF Shows
<1>4. Announced(posted, seen, stateValue)'
  BY <1>2, <1>3 DEF Announced, Shows
<1>5. QED
  BY <1>1, <1>4 DEF ViewInv

(* Other callbacks do not matter for it. *)
LEMMA OtherPosted ==
    ASSUME ViewInv, NEW cs \in Seq(Callback), posted' = posted \o cs,
           \A j \in DOMAIN cs : ~Shows(cs[j]), UNCHANGED <<seen, stateValue, curGen, down>>,
           worker # "health"
    PROVE  ViewInv'
<1>1. /\ posted' \in Seq(Callback) /\ Len(posted) \in Nat /\ Len(cs) \in Nat
      /\ DOMAIN posted' = 1 .. Len(posted) + Len(cs)
      /\ DOMAIN posted = 1 .. Len(posted) /\ DOMAIN cs = 1 .. Len(cs)
      /\ \A i \in 1 .. Len(posted) : posted'[i] = posted[i]
      /\ \A i \in 1 .. Len(cs) : posted'[Len(posted) + i] = cs[i]
  BY PostedAfter DEF ViewInv
<1>2. \A c : Shows(c)' <=> Shows(c)
  BY DEF Shows
<1>3. ASSUME NEW j \in DOMAIN posted', j > Len(posted) PROVE ~Shows(posted'[j])
  <2>0. j - Len(posted) \in 1 .. Len(cs) /\ j = Len(posted) + (j - Len(posted))
    BY <1>1, <1>3
  <2>1. PICK i \in DOMAIN cs : j = Len(posted) + i
    BY <1>1, <2>0
  <2>2. QED
    BY <1>1, <2>1
<1>4. ASSUME Announced(posted, seen, stateValue) PROVE Announced(posted, seen, stateValue)'
  <2>1. CASE \A k \in DOMAIN posted : ~Shows(posted[k])
    <3>1. seen = stateValue
      BY <1>4, <2>1 DEF Announced
    <3>2. \A k \in DOMAIN posted' : ~Shows(posted'[k])
      BY <1>1, <1>3, <2>1
    <3>3. QED
      BY <3>1, <3>2 DEF Announced, Shows
  <2>2. CASE \E k \in DOMAIN posted : Shows(posted[k])
    <3>1. PICK k \in DOMAIN posted : /\ Shows(posted[k]) /\ posted[k].what = stateValue
                                     /\ \A j \in DOMAIN posted : j > k => ~Shows(posted[j])
      BY <1>4, <2>2 DEF Announced
    <3>2. k \in DOMAIN posted' /\ posted'[k] = posted[k]
      BY <1>1
    <3>3. \A j \in DOMAIN posted' : j > k => ~Shows(posted'[j])
      BY <1>1, <1>3, <3>1
    <3>4. QED
      BY <1>2, <3>1, <3>2, <3>3 DEF Announced, Shows
  <2>3. QED
    BY <2>1, <2>2
<1>5. QED
  BY <1>1, <1>4 DEF ViewInv, shuttingDown

(* One or two callbacks, as the worker posts them; a shutdown posts none. *)
LEMMA OnePosted ==
    ASSUME ViewInv, NEW a \in Callback, Post(<<a>>), down' = down,
           \/ a.what = stateValue' /\ Shows(a)'
           \/ ~Shows(a) /\ worker # "health" /\ UNCHANGED <<seen, stateValue, curGen>>
    PROVE  ViewInv'
<1>1. CASE shuttingDown
  BY <1>1 DEF Post, ViewInv, shuttingDown
<1>2. CASE ~shuttingDown
  <2>1. posted' = posted \o <<a>> /\ <<a>> \in Seq(Callback) /\ DOMAIN <<a>> = {1} /\ <<a>>[1] = a
    BY <1>2 DEF Post
  <2> DEFINE cs == <<a>>
  <2>2. CASE a.what = stateValue' /\ Shows(a)'
    <3>1. 1 \in DOMAIN cs /\ cs \in Seq(Callback) /\ posted' = posted \o cs
          /\ cs[1].what = stateValue' /\ \A j \in DOMAIN cs : j > 1 => ~Shows(cs[j])'
      BY <2>1, <2>2
    <3>2. Shows(cs[1])'
      BY <2>1, <2>2 DEF Shows
    <3> HIDE DEF cs
    <3>3. QED
      BY <3>1, <3>2, StatePosted
  <2>3. CASE ~Shows(a) /\ worker # "health" /\ UNCHANGED <<seen, stateValue, curGen>>
    <3>1. \A j \in DOMAIN cs : ~Shows(cs[j])
      BY <2>1, <2>3
    <3>2. cs \in Seq(Callback) /\ posted' = posted \o cs
      BY <2>1
    <3> HIDE DEF cs
    <3>3. QED
      BY <2>3, <3>1, <3>2, OtherPosted
  <2>4. QED
    BY <2>2, <2>3
<1>3. QED
  BY <1>1, <1>2

(* Two of them: the state first or the state last. *)
LEMMA TwoPosted ==
    ASSUME ViewInv, NEW a \in Callback, NEW b \in Callback, Post(<<a, b>>), down' = down,
           \/ a.what = stateValue' /\ Shows(a)' /\ ~Shows(b)'
           \/ b.what = stateValue' /\ Shows(b)'
    PROVE  ViewInv'
<1>1. CASE shuttingDown
  BY <1>1 DEF Post, ViewInv, shuttingDown
<1>2. CASE ~shuttingDown
  <2>1. posted' = posted \o <<a, b>> /\ <<a, b>> \in Seq(Callback) /\ DOMAIN <<a, b>> = {1, 2}
        /\ <<a, b>>[1] = a /\ <<a, b>>[2] = b
    BY <1>2 DEF Post
  <2> DEFINE cs == <<a, b>>
  <2>2. CASE a.what = stateValue' /\ Shows(a)' /\ ~Shows(b)'
    <3>1. \A j \in DOMAIN cs : j > 1 => ~Shows(cs[j])'
      BY <2>1, <2>2 DEF Shows
    <3>2. QED
      BY <2>1, <2>2, <3>1, StatePosted
  <2>3. CASE b.what = stateValue' /\ Shows(b)'
    <3>1. \A j \in DOMAIN cs : j > 2 => ~Shows(cs[j])'
      BY <2>1
    <3>2. QED
      BY <2>1, <2>3, <3>1, StatePosted
  <2>4. QED
    BY <1>2, <2>2, <2>3
<1>3. QED
  BY <1>1, <1>2

(* Nothing is posted and the state is left alone. *)
LEMMA NothingPosted ==
    ASSUME ViewInv, UNCHANGED <<posted, seen>>, down # "no" => down' # "no",
           \/ worker' = "health"
           \/ UNCHANGED <<stateValue, curGen>> /\ (worker # "health" \/ down # "no")
    PROVE  ViewInv'
BY DEF ViewInv, Announced, Shows, shuttingDown

(* The callbacks there are. *)
LEMMA CallbackFacts ==
    ASSUME FacadeInv, UNCHANGED curGen, NEW c
    PROVE  /\ \A w \in States : c \in {ForGen(w), Unguarded(w)} =>
                 c \in Callback /\ c.what = w /\ Shows(c)'
           /\ \A w \in {"result", "ready", "error"} : c \in {ForGen(w), Unguarded(w)} =>
                 c \in Callback /\ ~Shows(c) /\ ~Shows(c)'
<1>1. curGen \in Nat
  BY DEF FacadeInv, ReadyInv
<1>2. QED
  BY <1>1 DEF ForGen, Unguarded, Callback, Shows, States

(* Two callbacks the state is in, in either order. *)
LEMMA StateAndMorePosted ==
    ASSUME FacadeInv, ViewInv, UNCHANGED <<down, curGen>>, NEW a, NEW b,
           NEW w \in {"result", "ready", "error"}, stateValue' \in States,
           \/ Post(<<a, b>>) \/ Post(<<b, a>>),
           a \in {ForGen(stateValue'), Unguarded(stateValue')}, b \in {ForGen(w), Unguarded(w)}
    PROVE  ViewInv'
<1>1. a \in Callback /\ a.what = stateValue' /\ Shows(a)'
  BY CallbackFacts
<1>2. b \in Callback /\ ~Shows(b)'
  BY CallbackFacts
<1>3. QED
  BY <1>1, <1>2, TwoPosted

(* A state alone. *)
LEMMA StateAlonePosted ==
    ASSUME FacadeInv, ViewInv, UNCHANGED <<down, curGen>>, NEW a, stateValue' \in States,
           Post(<<a>>), a \in {ForGen(stateValue'), Unguarded(stateValue')}
    PROVE  ViewInv'
<1>1. a \in Callback /\ a.what = stateValue' /\ Shows(a)'
  BY CallbackFacts
<1>2. QED
  BY <1>1, OnePosted

(* The dispatcher delivers a callback, unless its generation is gone. *)
LEMMA DeliverView ==
    ASSUME ViewInv, Deliver
    PROVE  ViewInv'
<1>1. /\ posted # <<>> /\ posted' = Tail(posted)
      /\ seen' = (IF Guard(Head(posted)) /\ Head(posted).what \in States
                  THEN Head(posted).what ELSE seen)
      /\ UNCHANGED <<stateValue, curGen, worker, down>>
  BY DEF Deliver, generations, work
<1>2. /\ posted' \in Seq(Callback) /\ Len(posted) \in Nat /\ Len(posted') = Len(posted) - 1
      /\ DOMAIN posted = 1 .. Len(posted) /\ DOMAIN posted' = 1 .. Len(posted')
      /\ \A i \in 1 .. Len(posted') : posted'[i] = posted[i + 1]
      /\ Head(posted) = posted[1] /\ 1 \in DOMAIN posted
  BY <1>1, HeadTailProperties, LenProperties, EmptySeq DEF ViewInv
<1>3. seen' = IF Shows(posted[1]) THEN posted[1].what ELSE seen
  BY <1>1, <1>2 DEF Guard, Shows, States
<1>4. ASSUME Announced(posted, seen, stateValue) PROVE Announced(posted, seen, stateValue)'
  <2>1. CASE \A k \in DOMAIN posted : ~Shows(posted[k])
    <3>1. seen' = stateValue /\ \A k \in DOMAIN posted' : ~Shows(posted'[k])
      BY <1>2, <1>3, <1>4, <2>1 DEF Announced
    <3>2. QED
      BY <1>1, <3>1 DEF Announced, Shows
  <2>2. CASE \E k \in DOMAIN posted : Shows(posted[k])
    <3>1. PICK k \in DOMAIN posted : /\ Shows(posted[k]) /\ posted[k].what = stateValue
                                     /\ \A j \in DOMAIN posted : j > k => ~Shows(posted[j])
      BY <1>4, <2>2 DEF Announced
    <3>2. CASE k = 1
      <4>1. seen' = stateValue
        BY <1>3, <3>1, <3>2
      <4>2. \A j \in DOMAIN posted' : ~Shows(posted'[j])
        BY <1>2, <3>1, <3>2
      <4>3. QED
        BY <1>1, <4>1, <4>2 DEF Announced, Shows
    <3>3. CASE k # 1
      <4>1. k - 1 \in DOMAIN posted' /\ posted'[k - 1] = posted[k]
        BY <1>2, <3>3
      <4>2. \A j \in DOMAIN posted' : j > k - 1 => ~Shows(posted'[j])
        BY <1>2, <3>1
      <4>3. QED
        BY <1>1, <3>1, <4>1, <4>2 DEF Announced, Shows
    <3>4. QED
      BY <3>2, <3>3
  <2>3. QED
    BY <2>1, <2>2
<1>5. QED
  BY <1>1, <1>2, <1>4 DEF ViewInv, shuttingDown

(* A generation that is given up says so. *)
LEMMA ReportView ==
    ASSUME FacadeInv, ViewInv, Report, UNCHANGED <<seen, down>>
    PROVE  ViewInv'
<1>1. CASE shuttingDown
  BY <1>1, NothingPosted DEF Report, shuttingDown, generations
<1>2. CASE ~shuttingDown
  <2>1. stateValue' = "Failed" /\ curGen' = curGen /\ Post(<<ForGen("Failed"), ForGen("error")>>)
    BY <1>2 DEF Report
  <2>2. PICK a, b : a = ForGen("Failed") /\ b = ForGen("error")
    OBVIOUS
  <2>3. QED
    BY <2>1, <2>2, StateAndMorePosted DEF States
<1>3. QED
  BY <1>1, <1>2

(* A task that is refused says nothing of the state. *)
LEMMA RefuseView ==
    ASSUME FacadeInv, ViewInv, UNCHANGED <<seen, down>>, worker = "begin" \/ worker = "consume",
           NEW cs \in {<<>>, <<ForGen("error")>>, <<Unguarded("error")>>}, Refuse(cs)
    PROVE  ViewInv'
<1>1. UNCHANGED <<stateValue, curGen>> /\ Post(cs)
  BY DEF Refuse, generations
<1>2. CASE cs = <<>>
  <2>1. posted' = posted
    BY <1>1, <1>2, ConcatEmptySeq DEF Post, ViewInv
  <2>2. QED
    BY <1>1, <2>1, NothingPosted
<1>3. CASE cs # <<>>
  <2>1. PICK a \in {ForGen("error"), Unguarded("error")} : cs = <<a>>
    BY <1>3
  <2>2. a \in Callback /\ ~Shows(a)
    BY <1>1, CallbackFacts
  <2>3. QED
    BY <1>1, <2>1, <2>2, OnePosted
<1>4. QED
  BY <1>2, <1>3

(* A task that begins on a new generation, or is refused. *)
LEMMA BeginView ==
    ASSUME FacadeInv, ViewInv, BeginCheck \/ BeginDownload \/ BeginApply \/ TaskThrows
    PROVE  ViewInv'
<1>0. worker = "begin" /\ UNCHANGED <<seen, down>>
  BY DEF BeginCheck, BeginDownload, BeginApply, TaskThrows, elsewhere
<1>1. CASE \E cs \in {<<>>, <<ForGen("error")>>, <<Unguarded("error")>>} : Refuse(cs)
  BY <1>0, <1>1, RefuseView
<1>2. CASE Report
  BY <1>0, <1>2, ReportView
<1>3. CASE BeginGeneration
  BY <1>0, <1>3, NothingPosted DEF BeginGeneration, Proceed
<1>4. CASE BeginCheck
  BY <1>1, <1>3, <1>4 DEF BeginCheck
<1>5. CASE BeginDownload
  <2>1. CASE /\ stateValue' = "Downloading" /\ UNCHANGED generations
             /\ Post(<<ForGen("Downloading")>>)
    <3>1. PICK a : a = ForGen("Downloading")
      OBVIOUS
    <3>2. QED
      BY <1>0, <2>1, <3>1, StateAlonePosted DEF States, generations
  <2>2. QED
    BY <1>1, <1>3, <1>5, <2>1 DEF BeginDownload
<1>6. CASE BeginApply
  <2>1. CASE UNCHANGED <<stateValue, generations, posted>>
    BY <1>0, <2>1, NothingPosted DEF generations
  <2>2. QED
    BY <1>1, <1>2, <1>6, <2>1 DEF BeginApply
<1>7. CASE TaskThrows
  <2>1. CASE ~Report
    <3>1. stateValue' = "Failed" /\ UNCHANGED generations
          /\ Post(<<Unguarded("Failed"), Unguarded("error")>>)
      BY <1>7, <2>1 DEF TaskThrows
    <3>2. PICK a, b : a = Unguarded("Failed") /\ b = Unguarded("error")
      OBVIOUS
    <3>3. QED
      BY <1>0, <3>1, <3>2, StateAndMorePosted DEF States, generations
  <2>2. QED
    BY <1>2, <2>1
<1>8. QED
  BY <1>4, <1>5, <1>6, <1>7

(* A check that ends, and the state it ends in. *)
LEMMA CheckView ==
    ASSUME FacadeInv, ViewInv, NEW release \in Releases \union {None}, CheckSucceeds(release)
    PROVE  ViewInv'
<1>0. worker = "fetch" /\ UNCHANGED <<seen, down, curGen>> /\ stateValue' \in States
  BY DEF CheckSucceeds, elsewhere, States
<1>1. PICK a, b : a = ForGen(stateValue') /\ b = ForGen("result")
  OBVIOUS
<1>2. Post(<<a, b>>) \/ Post(<<b, a>>)
  BY <1>1 DEF CheckSucceeds
<1>3. QED
  BY <1>0, <1>1, <1>2, StateAndMorePosted

(* A new generation announces that it checks. *)
LEMMA HealthView ==
    ASSUME FacadeInv, ViewInv, NEW o \in Outcomes, ValidatePendingHealth(o)
    PROVE  ViewInv'
<1>0. UNCHANGED <<seen, down>>
  BY DEF ValidatePendingHealth, elsewhere
<1>1. CASE Report
  BY <1>0, <1>1, ReportView
<1>2. CASE SetGenerationState("Checking", "fetch", <<>>)
  <2>1. PICK a : a = ForGen("Checking")
    OBVIOUS
  <2>2. <<>> \o <<a>> = <<a>>
    OBVIOUS
  <2>3. Post(<<a>>) /\ stateValue' = "Checking" /\ UNCHANGED curGen
    BY <1>2, <2>1, <2>2 DEF SetGenerationState, generations
  <2>4. QED
    BY <1>0, <2>1, <2>3, StateAlonePosted DEF States
<1>3. QED
  BY <1>1, <1>2 DEF ValidatePendingHealth

(* The worker announces every state it enters. *)
LEMMA WorkerView ==
    ASSUME FacadeInv, ViewInv, WorkerStep
    PROVE  ViewInv'
<1>0. UNCHANGED <<seen, down>>
  BY DEF WorkerStep, Take, InstallToken, BeginCheck, BeginDownload, BeginApply, TaskThrows,
     CheckFails, Download, DownloadFails, CommitReady, Consume, CheckSucceeds,
     ValidatePendingHealth, SavePending, LaunchApply, elsewhere
<1>1. CASE BeginCheck \/ BeginDownload \/ BeginApply \/ TaskThrows
  BY <1>1, BeginView
<1>2. CASE \E release \in Releases \union {None} : CheckSucceeds(release)
  BY <1>2, CheckView
<1>3. CASE \E o \in Outcomes : ValidatePendingHealth(o)
  BY <1>3, HealthView
<1>4. CASE Report
  BY <1>0, <1>4, ReportView
<1>5. CASE worker # "health" /\ UNCHANGED <<stateValue, generations, posted>>
  BY <1>0, <1>5, NothingPosted DEF generations
<1>6. CASE Take \/ InstallToken \/ CheckFails \/ Download \/ DownloadFails
  BY <1>4, <1>5, <1>6 DEF Take, InstallToken, CheckFails, Download, DownloadFails
<1>7. CASE CommitReady
  <2>1. PICK a, b : a = ForGen("ReadyToApply") /\ b = ForGen("ready")
    OBVIOUS
  <2>2. QED
    BY <1>0, <1>7, <2>1, StateAndMorePosted DEF CommitReady, States
<1>8. CASE Consume
  <2>1. CASE ReadyNow(task.gen)
    <3>1. PICK a : a = ForGen("Applying")
      OBVIOUS
    <3>2. QED
      BY <1>0, <1>8, <2>1, <3>1, StateAlonePosted DEF Consume, States
  <2>2. CASE ~ReadyNow(task.gen)
    <3>1. PICK cs \in {<<>>, <<ForGen("error")>>, <<Unguarded("error")>>} : Refuse(cs)
      BY <1>8, <2>2 DEF Consume
    <3>2. QED
      BY <1>0, <1>8, <3>1, RefuseView DEF Consume
  <2>3. QED
    BY <2>1, <2>2
<1>9. CASE \E o \in Outcomes : SavePending(o)
  BY <1>4, <1>5, <1>9 DEF SavePending
<1>10. CASE \E o \in Outcomes : LaunchApply(o)
  BY <1>4, <1>5, <1>10 DEF LaunchApply
<1>11. QED
  BY <1>1, <1>2, <1>3, <1>6, <1>7, <1>8, <1>9, <1>10 DEF WorkerStep

(* A caller whose task cannot be queued is told, and nothing else. *)
LEMMA ErrorPosted ==
    ASSUME FacadeInv, ViewInv, posted' = Append(posted, Unguarded("error")),
           UNCHANGED <<seen, stateValue, curGen, down, worker>>
    PROVE  ViewInv'
<1>1. PICK a : a = Unguarded("error")
  OBVIOUS
<1>2. a \in Callback /\ ~Shows(a)
  BY <1>1, CallbackFacts
<1>3. CASE worker # "health" /\ ~shuttingDown
  <2>1. Post(<<a>>)
    BY <1>1, <1>2, <1>3 DEF Post, ViewInv
  <2>2. QED
    BY <1>2, <1>3, <2>1, OnePosted
<1>4. CASE worker = "health" \/ shuttingDown
  <2>1. posted' \in Seq(Callback)
    BY <1>1, <1>2 DEF ViewInv
  <2>2. QED
    BY <1>4, <2>1 DEF ViewInv, shuttingDown
<1>5. QED
  BY <1>3, <1>4

(* Every step keeps what the application was told, or will be, true. *)
LEMMA ViewNext ==
    ASSUME FacadeInv, ViewInv, Next
    PROVE  ViewInv'
<1>1. CASE WorkerStep
  BY <1>1, WorkerView
<1>2. CASE Deliver
  BY <1>2, DeliverView
<1>3. ASSUME UNCHANGED <<posted, seen, stateValue, curGen>>, down # "no" => down' # "no",
             worker' = worker \/ worker = "none"
      PROVE  ViewInv'
  BY <1>3 DEF ViewInv, Announced, Shows, shuttingDown
<1>4. CASE StartStep
  <2>1. UNCHANGED <<seen, stateValue, curGen, down>> /\ (worker' = worker \/ worker = "none")
    BY <1>4 DEF StartStep, Start, CheckPost, Dispatch, errorStep,
                Spawn, Trigger, StartFromTimer, work, generations
  <2>2. \/ posted' = posted
        \/ posted' = Append(posted, Unguarded("error")) /\ worker' = worker
    BY <1>4 DEF StartStep, Start, CheckPost, Dispatch, errorStep,
                Spawn, Trigger, StartFromTimer, work
  <2>3. QED
    BY <1>3, <2>1, <2>2, ErrorPosted
<1>5. CASE OperationStep
  <2>1. UNCHANGED <<posted, seen, stateValue, curGen, down, worker>>
    BY <1>5 DEF OperationStep, LoadPending, CommitHealthyVersion, RequestRollback, untouched,
                generations
  <2>2. QED
    BY <1>3, <2>1
<1>6. CASE ShutdownStep
  <2>1. UNCHANGED <<posted, seen, stateValue, curGen, worker>> /\ down' # "no"
    BY <1>6 DEF ShutdownStep, ShutdownClear, ShutdownCancel, ShutdownJoin, alone, generations
  <2>2. QED
    BY <1>3, <2>1
<1>7. CASE ApplicationStep
  <2>1. UNCHANGED <<posted, seen, stateValue, curGen, worker>> /\ (down' = down \/ down' # "no")
    BY <1>7 DEF ApplicationStep, Call, BeginOperation, Cancel, StartPeriodicCheck,
       StopPeriodicCheck, ShutdownFlag, ShutdownDetach, alone, work, generations
  <2>2. QED
    BY <1>3, <2>1
<1>8. CASE DeadlinePasses \/ \E run \in 1 .. runs : ReadStateForTrigger(run)
  <2>1. UNCHANGED <<posted, seen, stateValue, curGen, worker, down>>
    BY <1>8 DEF DeadlinePasses, ReadStateForTrigger, work, generations
  <2>2. QED
    BY <1>3, <2>1
<1>9. QED
  BY <1>1, <1>2, <1>4, <1>5, <1>6, <1>7, <1>8 DEF Next

-----------------------------------------------------------------------------
(* The errors of start(). *)

ErrorsInv == refused \in Nat /\ dispatching \in Nat

(* They are counted, and after the shutdown has begun nobody passes the    *)
(* check of post() any more.                                               *)
LEMMA ErrorsNext ==
    ASSUME ErrorsInv, Next
    PROVE  ErrorsInv' /\ (shuttingDown => dispatching' <= dispatching)
<1> USE DEF ErrorsInv, start
<1>1. ASSUME NEW t, Enqueue(t) PROVE refused' \in Nat /\ dispatching' = dispatching
  BY <1>1 DEF Enqueue
<1>2. CASE StartStep
  <2>1. ASSUME Start \/ \E run \in firing, kind \in {"check", "checkDownload"} :
                           StartFromTimer(run, kind)
        PROVE  refused' \in Nat /\ dispatching' = dispatching
    <3>1. PICK t : Enqueue(t)
      BY <2>1 DEF Start, StartFromTimer
    <3>2. QED
      BY <1>1, <3>1
  <2>2. CASE \E o \in {"ok", "fail"} : Spawn(o)
    BY <2>2 DEF Spawn
  <2>3. CASE \E run \in looking : Trigger(run)
    BY <2>3 DEF Trigger
  <2>4. CASE CheckPost \/ Dispatch
    BY <2>4 DEF CheckPost, Dispatch
  <2>5. QED
    BY <1>2, <2>1, <2>2, <2>3, <2>4 DEF StartStep
<1>3. CASE WorkerStep
  BY <1>3 DEF WorkerStep, Take, InstallToken, BeginCheck, BeginDownload, BeginApply,
     TaskThrows, CheckFails, Download, DownloadFails, CommitReady, Consume, CheckSucceeds,
     ValidatePendingHealth, SavePending, LaunchApply, elsewhere
<1>4. CASE OperationStep
  BY <1>4 DEF OperationStep, LoadPending, CommitHealthyVersion, RequestRollback, untouched
<1>5. CASE ShutdownStep
  BY <1>5 DEF ShutdownStep, ShutdownClear, ShutdownCancel, ShutdownJoin
<1>6. CASE ApplicationStep
  BY <1>6 DEF ApplicationStep, Call, BeginOperation, Cancel, StartPeriodicCheck,
     StopPeriodicCheck, ShutdownFlag, ShutdownDetach
<1>7. CASE Deliver \/ DeadlinePasses \/ \E run \in 1 .. runs : ReadStateForTrigger(run)
  BY <1>7 DEF Deliver, DeadlinePasses, ReadStateForTrigger
<1>8. QED
  BY <1>2, <1>3, <1>4, <1>5, <1>6, <1>7 DEF Next

-----------------------------------------------------------------------------
(* The invariant of the facade. *)

SafeInv ==
    FacadeInv /\ LockInv /\ ShutdownInv /\ PendingInv /\ HelperInv /\ ViewInv /\ ErrorsInv

(* It holds when the updater is made. *)
LEMMA SafeInit == Init => SafeInv
<1> SUFFICES ASSUME Init PROVE SafeInv
  OBVIOUS
<1>1. FacadeInv
  BY FacadeInit
<1>2. LockInv /\ ShutdownInv
  BY DEF Init, LockInv, ShutdownInv, ShutdownCancelsWork, shuttingDown
<1>3. PendingInv
  BY FacadeAssumption DEF Init, PendingInv
<1>4. HelperInv
  BY DEF Init, HelperInv, OneHelper
<1>5. ViewInv
  BY DEF Init, ViewInv, Announced
<1>6. ErrorsInv
  BY DEF Init, ErrorsInv
<1>7. QED
  BY <1>1, <1>2, <1>3, <1>4, <1>5, <1>6 DEF SafeInv

(* And every step keeps it. *)
LEMMA SafeNext == SafeInv /\ [Next]_vars => SafeInv'
<1> SUFFICES ASSUME SafeInv, [Next]_vars PROVE SafeInv'
  OBVIOUS
<1> USE DEF SafeInv
<1>1. FacadeInv'
  BY FacadeNext
<1>2. CASE Next
  BY <1>1, <1>2, LockNext, ShutdownNext, PendingNext, HelperNext, ViewNext,
     ErrorsNext
<1>3. CASE UNCHANGED vars
  <2>1. LockInv' /\ ShutdownInv' /\ PendingInv'
    BY <1>3 DEF vars, work, sync, store, generations, LockInv, ShutdownInv, PendingInv,
                ShutdownCancelsWork, shuttingDown
  <2>2. HelperInv'
    BY <1>3 DEF vars, work, store, generations, HelperInv, OneHelper, Spent
  <2>3. ViewInv'
    BY <1>3 DEF vars, work, generations, ViewInv, Announced, Shows, shuttingDown
  <2>4. ErrorsInv'
    BY <1>3 DEF vars, start, ErrorsInv
  <2>5. QED
    BY <1>1, <2>1, <2>2, <2>3, <2>4
<1>4. QED
  BY <1>2, <1>3

(* The invariant holds in every reachable state. *)
THEOREM SafeInvariance == Spec => []SafeInv
BY SafeInit, SafeNext, PTL DEF Spec

(* For any requests, threads and interleavings: applyAndRestartAsync       *)
(* starts the helper at most once for a generation, and never beside a     *)
(* rollback of a release that is not confirmed.                            *)
THEOREM HelperIsStartedOnce == Spec => []OneHelper
<1>1. SafeInv => OneHelper
  BY DEF SafeInv, HelperInv
<1>2. QED
  BY <1>1, SafeInvariance, PTL

(* For any requests and any order of delivery and posting: an application  *)
(* that handled every callback knows the state, although the callbacks of  *)
(* generations that were superseded in between are dropped.                *)
THEOREM ApplicationKnowsTheState == Spec => []ObservedState
<1>1. SafeInv => ObservedState
  <2> SUFFICES ASSUME ViewInv, posted = <<>>, worker = "none", ~shuttingDown
               PROVE  seen = stateValue
    BY DEF SafeInv, ObservedState
  <2>1. Announced(<<>>, seen, stateValue)
    BY DEF ViewInv
  <2>2. QED
    BY <2>1 DEF Announced
<1>2. QED
  BY <1>1, SafeInvariance, PTL

(* For any task the worker may be in when shutdown() is called: once the   *)
(* token is cancelled, no task uses the network with a live one.           *)
THEOREM ShutdownReachesTheWorker == Spec => []ShutdownCancelsWork
<1>1. SafeInv => ShutdownCancelsWork
  BY DEF SafeInv, ShutdownInv
<1>2. QED
  BY <1>1, SafeInvariance, PTL

(* After shutdown() has joined, no thread is left that stores, launches or *)
(* changes the state, and nothing is handed to the dispatcher but by a     *)
(* call of start() that looked before: whatever calls and timers were      *)
(* still on their way.                                                     *)
THEOREM JoinedMeansQuiet == Spec => QuietAfterShutdown
<1> DEFINE Same == UNCHANGED <<pending, launched, stateValue, worker>>
           Told == \/ UNCHANGED posted
                   \/ posted # <<>> /\ posted' = Tail(posted)
                   \/ /\ dispatching' = dispatching - 1
                      /\ posted' = Append(posted, Unguarded("error"))
<1>1. ASSUME SafeInv, Next, down = "done"
      PROVE  Same /\ dispatching' <= dispatching /\ Told
  <2>1. worker = "none" /\ op = "none" /\ shuttingDown
    BY <1>1 DEF SafeInv, ShutdownInv, LockInv, shuttingDown
  <2>2. ~WorkerStep
    BY <2>1 DEF WorkerStep, Take, InstallToken, BeginCheck, BeginDownload, BeginApply,
       TaskThrows, CheckFails, Download, DownloadFails, CommitReady, Consume, CheckSucceeds,
       ValidatePendingHealth, SavePending, LaunchApply
  <2>3. ~OperationStep
    BY <2>1 DEF OperationStep, LoadPending, CommitHealthyVersion, RequestRollback
  <2>4. ASSUME StartStep PROVE Same /\ Told
    BY <2>1, <2>4 DEF StartStep, Start, CheckPost, Dispatch, errorStep,
                      Spawn, Trigger, StartFromTimer, work, store
  <2>5. ASSUME ShutdownStep PROVE Same /\ Told
    BY <2>5 DEF ShutdownStep, ShutdownClear, ShutdownCancel, ShutdownJoin, alone, store
  <2>6. ASSUME ApplicationStep PROVE Same /\ Told
    BY <2>1, <2>6 DEF ApplicationStep, Call, BeginOperation, Cancel, StartPeriodicCheck,
       StopPeriodicCheck, ShutdownFlag, ShutdownDetach, alone, work, store
  <2>7. ASSUME Deliver \/ DeadlinePasses \/ \E run \in 1 .. runs : ReadStateForTrigger(run)
        PROVE  Same /\ Told
    BY <2>7 DEF Deliver, DeadlinePasses, ReadStateForTrigger, work, store
  <2>8. dispatching' <= dispatching
    BY <1>1, <2>1, ErrorsNext DEF SafeInv
  <2>9. QED
    BY <1>1, <2>2, <2>3, <2>4, <2>5, <2>6, <2>7, <2>8 DEF Next
<1>2. SafeInv /\ [Next]_vars =>
         [down = "done" => Same /\ dispatching' <= dispatching /\ Told]_vars
  BY <1>1
<1>3. QED
  BY <1>2, SafeInvariance, PTL DEF Spec, QuietAfterShutdown

-----------------------------------------------------------------------------
(* The update that is ready is the one that is pending, unless the receipt *)
(* of a rollback says that the very release was given back.                *)

NoRollbackReceipt == receipt.kind = "rollback" => receipt.release \notin Releases

(* Without such a receipt nothing takes the pending update of a ready      *)
(* generation away.                                                        *)
LEMMA PersistedNext ==
    ASSUME SafeInv, NoRollbackReceipt, PersistedUntilApplied, Next
    PROVE  NoRollbackReceipt' /\ PersistedUntilApplied'
<1> USE DEF SafeInv, PersistedUntilApplied
<1>1. UNCHANGED receipt
  BY DEF Next, WorkerStep, Take, InstallToken, BeginCheck, BeginDownload, BeginApply,
     TaskThrows, CheckFails, Download, DownloadFails, CommitReady, Consume, CheckSucceeds,
     ValidatePendingHealth, SavePending, LaunchApply, elsewhere, world,
     StartStep, Start, CheckPost, Dispatch, errorStep,
     Spawn, Trigger, StartFromTimer, OperationStep, LoadPending,
     CommitHealthyVersion, RequestRollback, untouched, ShutdownStep, ShutdownClear,
     ShutdownCancel, ShutdownJoin, alone, ApplicationStep, Call, BeginOperation, Cancel,
     StartPeriodicCheck, StopPeriodicCheck, ShutdownFlag, ShutdownDetach, Deliver,
     DeadlinePasses, ReadStateForTrigger
<1>2. ~RolledBackPending
  BY DEF RolledBackPending, NoRollbackReceipt, PendingInv
<1>3. ready # None => pending \in Releases /\ pending \notin {None, Running}
  BY FacadeAssumption DEF PendingInv
<1>4. CASE ready' = ready /\ pending' = pending
  BY <1>1, <1>4 DEF NoRollbackReceipt
<1>5. CASE ready' = None
  BY <1>1, <1>5 DEF NoRollbackReceipt
<1>6. CASE CommitReady
  BY <1>1, <1>6 DEF CommitReady, PendingInv, NoRollbackReceipt, store
<1>7. CASE WorkerStep /\ ~CommitReady
  <2>1. ready' = ready \/ ready' = None
    BY <1>7 DEF WorkerStep, Take, InstallToken, BeginCheck, BeginDownload, BeginApply,
       TaskThrows, CheckFails, Download, DownloadFails, Consume, CheckSucceeds,
       ValidatePendingHealth, SavePending, LaunchApply, Report, Refuse, SetGenerationState,
       BeginGeneration, generations
  <2>2. pending' = pending \/ \E o \in Outcomes : SavePending(o)
    BY <1>2, <1>7 DEF WorkerStep, Take, InstallToken, BeginCheck, BeginDownload, BeginApply,
       TaskThrows, CheckFails, Download, DownloadFails, Consume, CheckSucceeds,
       ValidatePendingHealth, ReconcileRollback, LaunchApply, store
  <2>3. CASE \E o \in Outcomes : SavePending(o)
    <3>1. ready # None => pending' = pending
      BY <1>3, <2>3 DEF SavePending, SavePendingUpdate
    <3>2. QED
      BY <1>4, <1>5, <2>1, <3>1
  <2>4. QED
    BY <1>4, <1>5, <2>1, <2>2, <2>3
<1>8. CASE OperationStep
  <2>1. ready' = ready
    BY <1>8 DEF OperationStep, LoadPending, CommitHealthyVersion, RequestRollback, untouched,
                generations
  <2>2. ready # None => pending' = pending
    BY <1>2, <1>3, <1>8 DEF OperationStep, LoadPending, ReconcileRollback, PendingInv,
       CommitHealthyVersion, RequestRollback, store
  <2>3. QED
    BY <1>4, <1>5, <2>1, <2>2
<1>9. CASE ~WorkerStep /\ ~OperationStep
  <2>1. ready' = ready
    BY <1>9, OthersKeep DEF ReadyKept, generations
  <2>2. pending' = pending
    BY <1>9 DEF Next, StartStep, Start, CheckPost, Dispatch, errorStep,
                Spawn, Trigger, StartFromTimer, ShutdownStep,
       ShutdownClear, ShutdownCancel, ShutdownJoin, ApplicationStep, Call, BeginOperation,
       Cancel, StartPeriodicCheck, StopPeriodicCheck, ShutdownFlag, ShutdownDetach, Deliver,
       DeadlinePasses, ReadStateForTrigger, alone, store
  <2>3. QED
    BY <1>4, <2>1, <2>2
<1>10. QED
  BY <1>6, <1>7, <1>8, <1>9

(* An update that is ready is persisted as the pending update, for every   *)
(* updater that does not start with the receipt of a rollback of a release *)
(* it is offered again; with such a receipt the run FacadeStaleReceipt     *)
(* shows the opposite.                                                     *)
THEOREM ReadyIsPersisted ==
    ASSUME \A s \in Starts : s.receipt.kind = "rollback" => s.receipt.release \notin Releases
    PROVE  Spec => []PersistedUntilApplied
<1>1. Init => NoRollbackReceipt /\ PersistedUntilApplied
  BY DEF Init, NoRollbackReceipt, PersistedUntilApplied
<1>2. /\ SafeInv /\ NoRollbackReceipt /\ PersistedUntilApplied /\ [Next]_vars
      => (NoRollbackReceipt /\ PersistedUntilApplied)'
  <2> SUFFICES ASSUME SafeInv, NoRollbackReceipt, PersistedUntilApplied, [Next]_vars
               PROVE  (NoRollbackReceipt /\ PersistedUntilApplied)'
    OBVIOUS
  <2>1. CASE Next
    BY <2>1, PersistedNext
  <2>2. CASE UNCHANGED vars
    BY <2>2 DEF vars, world, store, generations, NoRollbackReceipt, PersistedUntilApplied
  <2>3. QED
    BY <2>1, <2>2
<1>3. QED
  BY <1>1, <1>2, SafeInvariance, PTL DEF Spec

=============================================================================
