---------------------------- MODULE UpdaterFacade ----------------------------
(***************************************************************************)
(* The library's facade, src/Updater.cpp, for one run of the application:  *)
(* calls from application threads, the task queue and its worker thread,   *)
(* the periodic thread, the dispatcher that delivers callbacks, the state  *)
(* store's pending update and the launch of the external updater.  A step  *)
(* is what a thread does under one lock, or one call that leaves the       *)
(* process.  The terminal receipt does not change while the application    *)
(* runs: a helper waits for the process to exit.                           *)
(***************************************************************************)
EXTENDS Naturals, Sequences, FiniteSets

CONSTANTS
    Releases,           \* releases newer than the running one
    Running,            \* the release that is running
    None,
    Starts,             \* [pending, receipt] the process may start with
    MaxPendingTasks,    \* Impl::maxPendingTasks
    MaxRequests,        \* bound on calls and periodic triggers
    MaxRuns             \* bound on startPeriodicCheck calls

States == {"Idle", "Checking", "UpToDate", "UpdateAvailable", "Downloading",
           "ReadyToApply", "Applying", "Failed"}
Receipt == [kind : {"none", "install", "rollback"}, release : Releases \union {Running, None}]

(* gen: the generation captured by the call, 0 if none was; run: the       *)
(* periodic run that asked, 0 for a call of the application.               *)
Task == [kind : {"check", "checkDownload", "download", "apply"},
         gen : Nat, run : Nat]

(* A callback in the dispatcher; gen 0 is not tied to a generation. *)
Callback == [gen : Nat, what : States \union {"result", "ready", "error"}]

Checked == [id : Nat, release : Releases \union {None}]
Ready == [id : Nat, release : Releases]
Launch == [intent : {"Install", "Rollback"}, gen : Nat, release : Releases \union {Running}]

ASSUME FacadeAssumption ==
    /\ Running \notin Releases /\ None \notin Releases \union {Running}
    /\ None \notin Task \union Checked \union Ready
    /\ Starts \subseteq [pending : Releases \union {Running, None}, receipt : Receipt]
    /\ MaxPendingTasks \in Nat \ {0} /\ MaxRequests \in Nat /\ MaxRuns \in Nat

VARIABLES
    stateValue,     \* Impl::stateValue
    nextGen, curGen,
    checked, ready, \* checkedGeneration, readyGeneration
    queue, busy,    \* pendingTasks, workerBusy
    spawning,       \* a call of start() is about to create the worker
    refused,        \* calls of start() that are about to post an error
    dispatching,    \* those of them that looked and did not see the shutdown
    worker, task,   \* where the worker thread is, and with what
    token,          \* currentToken: "none", "live" or "cancelled"
    found,          \* the decision or plan the task works on
    opLock,         \* operationMutex: "free", "worker" or "app"
    op, opPending,  \* the synchronous call in progress and what it loaded
    call,           \* an asynchronous call that has captured its generation
    periodic, runs, \* the periodic run that is not stopped, and how many there were
    looking,        \* runs whose trigger has read the state
    firing,         \* runs whose trigger is about to call start()
    pending, confirmed, receipt, expired,
    posted, seen,   \* callbacks not yet delivered, last state delivered
    launched,       \* helpers started, in order
    down,           \* shutdown(): "no", "flagged", "cleared", "joining", "done", "detached"
    requests

generations == <<nextGen, curGen, checked, ready>>
work == <<worker, task, found, token, opLock>>
start == <<queue, busy, spawning, refused, dispatching>>
sync == <<op, opPending>>
timer == <<periodic, runs, looking, firing>>
store == <<pending, confirmed>>
world == <<receipt, expired>>
vars == <<stateValue, generations, work, start, sync, call, timer, store, world,
          posted, seen, launched, down, requests>>

WorkerPcs == {"none", "take", "token", "begin", "health", "fetch", "download",
              "save", "commit", "consume", "launch"}

(* Every variable holds a value of its type. *)
TypeOK ==
    /\ stateValue \in States /\ seen \in States
    /\ nextGen \in Nat /\ curGen \in Nat
    /\ checked \in Checked \union {None} /\ ready \in Ready \union {None}
    /\ queue \in Seq(Task) /\ busy \in BOOLEAN /\ spawning \in BOOLEAN
    /\ refused \in Nat /\ dispatching \in Nat
    /\ worker \in WorkerPcs /\ task \in Task \union {None}
    /\ token \in {"none", "live", "cancelled"}
    /\ found \in Releases \union {None}
    /\ opLock \in {"free", "worker", "app"}
    /\ op \in {"none", "healthy", "rollback", "confirm", "request"}
    /\ opPending \in Releases \union {Running, None}
    /\ call \in Task \union {None}
    /\ periodic \in Nat /\ runs \in 0 .. MaxRuns /\ looking \in SUBSET Nat /\ firing \in SUBSET Nat
    /\ pending \in Releases \union {Running, None} /\ confirmed \in BOOLEAN
    /\ receipt \in Receipt /\ expired \in BOOLEAN
    /\ posted \in Seq(Callback)
    /\ launched \in Seq(Launch)
    /\ down \in {"no", "flagged", "cleared", "joining", "done", "detached"}
    /\ requests \in 0 .. MaxRequests

Init ==
    /\ stateValue = "Idle" /\ seen = "Idle"
    /\ nextGen = 1 /\ curGen = 0 /\ checked = None /\ ready = None
    /\ queue = <<>> /\ busy = FALSE /\ spawning = FALSE
    /\ refused = 0 /\ dispatching = 0
    /\ worker = "none" /\ task = None /\ token = "none" /\ found = None
    /\ opLock = "free" /\ op = "none" /\ opPending = None /\ call = None
    /\ periodic = 0 /\ runs = 0 /\ looking = {} /\ firing = {}
    /\ \E s \in Starts : pending = s.pending /\ receipt = s.receipt
    /\ confirmed = FALSE /\ expired = FALSE
    /\ posted = <<>> /\ launched = <<>>
    /\ down = "no" /\ requests = 0

shuttingDown == down # "no"
Ask == requests < MaxRequests /\ requests' = requests + 1

-----------------------------------------------------------------------------
(* Callbacks. *)

(* post(), called by a task of the worker: it looks for a shutdown and     *)
(* hands the callbacks to the dispatcher.  shutdown() does not look at     *)
(* what was dispatched and joins the worker, so this is one step.          *)
Post(callbacks) == posted' = IF shuttingDown THEN posted ELSE posted \o callbacks

ForGen(what) == [gen |-> curGen, what |-> what]
Unguarded(what) == [gen |-> 0, what |-> what]

(* The generation's guard is cleared when the next one begins, the ready   *)
(* guard when the ready generation is consumed or invalidated.             *)
Guard(c) ==
    /\ c.gen # 0 => c.gen = curGen
    /\ c.what = "ready" => ready # None /\ ready.id = c.gen

Deliver ==
    /\ posted # <<>>
    /\ posted' = Tail(posted)
    /\ seen' = IF Guard(Head(posted)) /\ Head(posted).what \in States
               THEN Head(posted).what ELSE seen
    /\ UNCHANGED <<stateValue, generations, work, start, sync, call, timer, store,
                   world, launched, down, requests>>

-----------------------------------------------------------------------------
(* Calls: capture the generation, then start(). *)

ReadyNow(gen) ==
    /\ gen # 0 /\ curGen = gen
    /\ checked # None /\ checked.id = gen
    /\ ready # None /\ ready.id = gen
    /\ stateValue = "ReadyToApply"

CaptureFor(kind) ==
    CASE kind = "download" -> IF stateValue \in {"Idle", "Failed"} THEN 0 ELSE curGen
      [] kind = "apply" -> IF ReadyNow(curGen) THEN curGen ELSE 0
      [] OTHER -> 0

Call(kind) ==
    /\ call = None /\ ~shuttingDown /\ Ask
    /\ call' = [kind |-> kind, gen |-> CaptureFor(kind), run |-> 0]
    /\ UNCHANGED <<stateValue, generations, work, start, sync, timer, store, world,
                   posted, seen, launched, down>>

(* start(): queue the task; the first caller of an idle updater also       *)
(* creates the worker thread, outside the lock.  A full queue is reported, *)
(* unless queueOverflowNotification says that another call is reporting it *)
(* (which of the pending errors report a full queue is not kept).          *)
Enqueue(t) ==
    IF shuttingDown THEN UNCHANGED start
    ELSE IF Len(queue) >= MaxPendingTasks
    THEN /\ refused' \in {refused + 1} \union (IF refused + dispatching > 0 THEN {refused} ELSE {})
         /\ UNCHANGED <<queue, busy, spawning, dispatching>>
    ELSE /\ queue' = Append(queue, t)
         /\ busy' = TRUE
         /\ spawning' = (spawning \/ ~busy)
         /\ UNCHANGED <<refused, dispatching>>

Start ==
    /\ call # None
    /\ Enqueue(call)
    /\ call' = None
    /\ UNCHANGED <<stateValue, generations, work, sync, timer, store, world, posted, seen,
                   launched, down, requests>>

(* Mutant: the worker is created although shutdown has begun. *)
MutSpawn(o) ==
    /\ spawning /\ worker = "none"
    /\ spawning' = FALSE /\ worker' = "take"
    /\ o = "ok"
    /\ UNCHANGED <<queue, busy, refused, dispatching, stateValue, generations, task, found,
                   token, opLock, sync, call, timer, store, world, posted, seen, launched,
                   down, requests>>

(* A thread that cannot be created drops the queue and is reported. *)
Spawn(o) ==
    /\ spawning /\ worker = "none"
    /\ spawning' = FALSE
    /\ IF shuttingDown \/ o = "fail"
       THEN queue' = <<>> /\ busy' = FALSE /\ UNCHANGED worker
       ELSE worker' = "take" /\ UNCHANGED <<queue, busy>>
    /\ o = "fail" => ~shuttingDown
    /\ refused' = IF o = "fail" THEN refused + 1 ELSE refused
    /\ UNCHANGED <<dispatching, stateValue, generations, task, found, token, opLock, sync,
                   call, timer, store, world, posted, seen, launched, down, requests>>

(* notifyError of start() on the caller's thread, which shutdown() does    *)
(* not wait for: post() looks for a shutdown, and dispatches afterwards.   *)
(* Whose call it is, the application's or a timer's, is not kept.          *)
errorStep == <<stateValue, generations, work, queue, busy, spawning, sync, call, timer,
               store, world, seen, launched, down, requests>>

(* Mutant: post() does not look for a shutdown. *)
MutCheckPost ==
    /\ refused > 0 /\ refused' = refused - 1
    /\ dispatching' = dispatching + 1
    /\ UNCHANGED <<errorStep, posted>>

CheckPost ==
    /\ refused > 0 /\ refused' = refused - 1
    /\ dispatching' = IF shuttingDown THEN dispatching ELSE dispatching + 1
    /\ UNCHANGED <<errorStep, posted>>

Dispatch ==
    /\ dispatching > 0 /\ dispatching' = dispatching - 1
    /\ posted' = Append(posted, Unguarded("error"))
    /\ UNCHANGED <<errorStep, refused>>

(* cancel() reaches the task that has installed its token, if any. *)
CancelToken == token' = IF token = "live" THEN "cancelled" ELSE token

Cancel ==
    /\ ~shuttingDown /\ token = "live"
    /\ CancelToken
    /\ UNCHANGED <<stateValue, generations, worker, task, found, opLock, start, sync,
                   call, timer, store, world, posted, seen, launched, down, requests>>

-----------------------------------------------------------------------------
(* Periodic checks: each run has a stop token of its own. *)

stopped(run) == run # periodic

StartPeriodicCheck ==
    /\ ~shuttingDown /\ runs < MaxRuns
    /\ runs' = runs + 1 /\ periodic' = runs + 1
    /\ UNCHANGED <<stateValue, generations, work, start, sync, call, looking, firing, store,
                   world, posted, seen, launched, down, requests>>

StopPeriodicCheck ==
    /\ periodic # 0 /\ ~shuttingDown
    /\ periodic' = 0
    /\ UNCHANGED <<stateValue, generations, work, start, sync, call, runs, looking, firing,
                   store, world, posted, seen, launched, down, requests>>

(* The trigger reads the state first and the queue afterwards. *)
ReadStateForTrigger(run) ==
    /\ ~stopped(run) /\ run \notin looking \union firing
    /\ stateValue \notin {"Checking", "Downloading", "ReadyToApply", "Applying"}
    /\ ~shuttingDown /\ Ask
    /\ looking' = looking \union {run}
    /\ UNCHANGED <<stateValue, generations, work, start, sync, call, periodic, runs, firing,
                   store, world, posted, seen, launched, down>>

Trigger(run) ==
    /\ run \in looking
    /\ looking' = looking \ {run}
    /\ firing' = IF stopped(run) \/ shuttingDown \/ busy \/ queue # <<>> THEN firing
                 ELSE firing \union {run}
    /\ UNCHANGED <<stateValue, generations, work, start, sync, call, periodic, runs,
                   store, world, posted, seen, launched, down, requests>>

StartFromTimer(run, kind) ==
    /\ run \in firing
    /\ Enqueue([kind |-> kind, gen |-> 0, run |-> run])
    /\ firing' = firing \ {run}
    /\ UNCHANGED <<stateValue, generations, work, sync, call, periodic, runs,
                   looking, store, world, posted, seen, launched, down, requests>>

-----------------------------------------------------------------------------
(* The worker: runPendingTasks. *)

(* Mutant: the worker leaves without saying so. *)
MutTake ==
    /\ worker = "take"
    /\ IF shuttingDown \/ queue = <<>>
       THEN worker' = "none" /\ UNCHANGED <<busy, queue, task>>
       ELSE worker' = "token" /\ task' = Head(queue) /\ queue' = Tail(queue) /\ UNCHANGED busy
    /\ UNCHANGED <<stateValue, generations, found, token, opLock, spawning, refused,
                   dispatching, sync, call, timer, store, world, posted, seen, launched,
                   down, requests>>

Take ==
    /\ worker = "take"
    /\ IF shuttingDown \/ queue = <<>>
       THEN worker' = "none" /\ busy' = FALSE /\ UNCHANGED <<queue, task>>
       ELSE worker' = "token" /\ task' = Head(queue) /\ queue' = Tail(queue) /\ UNCHANGED busy
    /\ UNCHANGED <<stateValue, generations, found, token, opLock, spawning, refused,
                   dispatching, sync, call, timer, store, world, posted, seen, launched,
                   down, requests>>

InstallToken ==
    /\ worker = "token"
    /\ worker' = "begin" /\ token' = "live"
    /\ UNCHANGED <<stateValue, generations, task, found, opLock, start, sync, call,
                   timer, store, world, posted, seen, launched, down, requests>>

(* Mutant: the operation lock is kept after the task. *)
MutFinish == worker' = "take" /\ task' = None /\ found' = None /\ token' = "none" /\ opLock' = "worker"

(* The task returns: release operationMutex, drop the token. *)
Finish == worker' = "take" /\ task' = None /\ found' = None /\ token' = "none" /\ opLock' = "free"

Proceed(label, release) ==
    worker' = label /\ found' = release /\ opLock' = "worker" /\ UNCHANGED <<task, token>>

(* notifyError and return. *)
Refuse(callbacks) ==
    Finish /\ Post(callbacks) /\ UNCHANGED <<stateValue, generations>>

(* Mutant: the failed state is not announced. *)
MutReport ==
    /\ Finish
    /\ IF shuttingDown THEN UNCHANGED <<stateValue, generations, posted>>
       ELSE /\ checked' = None /\ ready' = None /\ stateValue' = "Failed"
            /\ UNCHANGED <<nextGen, curGen>>
            /\ Post(<<ForGen("error")>>)

(* reportGenerationError: the generation is given up, unless shutting down. *)
Report ==
    /\ Finish
    /\ IF shuttingDown THEN UNCHANGED <<stateValue, generations, posted>>
       ELSE /\ checked' = None /\ ready' = None /\ stateValue' = "Failed"
            /\ UNCHANGED <<nextGen, curGen>>
            /\ Post(<<ForGen("Failed"), ForGen("error")>>)

(* Mutant: a new generation leaves the old update ready. *)
MutBeginGeneration ==
    /\ curGen' = nextGen /\ nextGen' = nextGen + 1
    /\ checked' = None /\ UNCHANGED ready
    /\ Proceed("health", None) /\ UNCHANGED <<stateValue, posted>>

BeginGeneration ==
    /\ curGen' = nextGen /\ nextGen' = nextGen + 1
    /\ checked' = None /\ ready' = None
    /\ Proceed("health", None) /\ UNCHANGED <<stateValue, posted>>

(* Mutant: shutdown is not noticed. *)
MutSetGenerationState(next, label, callbacks) ==
    /\ stateValue' = next /\ UNCHANGED <<generations>>
    /\ Post(callbacks \o <<ForGen(next)>>)
    /\ Proceed(label, found)

(* setGenerationState at the start of a phase; a shutdown ends the task. *)
SetGenerationState(next, label, callbacks) ==
    /\ stateValue' = next
    /\ Post(callbacks \o <<ForGen(next)>>)
    /\ UNCHANGED generations
    /\ IF shuttingDown THEN Finish ELSE Proceed(label, found)

elsewhere == <<start, sync, call, timer, world, seen, down, requests>>

(* Mutant: only the trigger looks for a ready update. *)
MutCheckBlocked == stateValue = "Applying"

(* A check, whoever asked, once it holds operationMutex. *)
CheckBlocked ==
    \/ stateValue = "Applying"
    \/ task.run # 0 /\ stateValue = "ReadyToApply"

BeginCheck ==
    /\ worker = "begin" /\ opLock = "free"
    /\ task.kind \in {"check", "checkDownload"}
    /\ IF task.run # 0 /\ stopped(task.run) THEN Refuse(<<>>)
       ELSE IF CheckBlocked
       THEN Refuse(IF task.run = 0 THEN <<Unguarded("error")>> ELSE <<>>)
       ELSE BeginGeneration
    /\ UNCHANGED <<elsewhere, store, launched>>

(* downloadAsync for a captured generation, or with a check of its own. *)
Downloadable(gen) ==
    checked.id = gen /\ ready = None /\ stateValue = "UpdateAvailable"

BeginDownload ==
    /\ worker = "begin" /\ opLock = "free" /\ task.kind = "download"
    /\ IF task.gen = 0
       THEN IF stateValue \in {"Checking", "Downloading", "ReadyToApply", "Applying"}
            THEN Refuse(<<Unguarded("error")>>)
            ELSE BeginGeneration
       ELSE IF curGen # task.gen THEN Refuse(<<>>)
       ELSE IF checked = None \/ checked.id # task.gen THEN Refuse(<<ForGen("error")>>)
       ELSE IF checked.release = None THEN Refuse(<<>>)
       ELSE IF ~Downloadable(task.gen) THEN Refuse(<<ForGen("error")>>)
       ELSE /\ stateValue' = "Downloading" /\ UNCHANGED generations
            /\ Post(<<ForGen("Downloading")>>)
            /\ IF shuttingDown THEN Finish ELSE Proceed("download", checked.release)
    /\ UNCHANGED <<elsewhere, store, launched>>

(* Mutant: any receipt that is not the pending update's counts. *)
MutRolledBackPending ==
    /\ pending \notin {None, Running}
    /\ receipt.kind # "none" /\ receipt.release # pending

(* validatePendingHealth with loadPendingAndReconcileRollback: a pending   *)
(* update whose rollback the receipt records is cleared; a pending update  *)
(* that is running must be the receipt's and within its deadline.          *)
RolledBackPending ==
    /\ pending \notin {None, Running}
    /\ receipt = [kind |-> "rollback", release |-> pending]

Authorized == receipt = [kind |-> "install", release |-> pending] /\ ~expired

Outcomes == {"ok", "lost", "shown"}

(* A read that fails is "lost" as well. *)
ReconcileRollback(o) ==
    IF RolledBackPending
    THEN pending' = (IF o = "lost" THEN pending ELSE None)
    ELSE o # "shown" /\ UNCHANGED pending

ValidatePendingHealth(o) ==
    /\ worker = "health"
    /\ ReconcileRollback(o)
    /\ IF o # "ok" \/ (pending = Running /\ ~Authorized) THEN Report
       ELSE SetGenerationState("Checking", "fetch", <<>>)
    /\ UNCHANGED <<elsewhere, confirmed, launched>>

(* A configuration that cannot work, or a failing fetch, plan or snapshot. *)
CheckFails ==
    /\ worker \in {"health", "fetch"}
    /\ Report
    /\ UNCHANGED <<elsewhere, store, launched>>

(* storeChecked, the state and the result; then the download if asked for. *)
CheckSucceeds(release) ==
    /\ worker = "fetch"
    /\ checked' = [id |-> curGen, release |-> release] /\ ready' = None
    /\ UNCHANGED <<nextGen, curGen>>
    /\ IF task.kind = "check" \/ release = None
       THEN /\ stateValue' = IF release = None THEN "UpToDate" ELSE "UpdateAvailable"
            /\ Post(IF task.kind = "download" THEN <<ForGen("result"), ForGen(stateValue')>>
                    ELSE <<ForGen(stateValue'), ForGen("result")>>)
            /\ Finish
       ELSE /\ stateValue' = "Downloading"
            /\ Post(<<ForGen("result"), ForGen("Downloading")>>)
            /\ IF shuttingDown THEN Finish ELSE Proceed("download", release)
    /\ UNCHANGED <<elsewhere, store, launched>>

(* executeDownloads and writeApplyPlan. *)
Download ==
    /\ worker = "download"
    /\ Proceed("save", found)
    /\ UNCHANGED <<stateValue, generations, posted, elsewhere, store, launched>>

DownloadFails ==
    /\ worker = "download"
    /\ Report
    /\ UNCHANGED <<elsewhere, store, launched>>

(* Mutant: a different pending update is overwritten. *)
MutSavePendingUpdate(release, o) ==
    pending' = IF o = "lost" THEN pending ELSE release

(* savePendingUpdate: never replaces a different pending update. *)
SavePendingUpdate(release, o) ==
    /\ pending # None => o = (IF pending = release THEN "ok" ELSE "lost")
    /\ pending' = IF o = "lost" THEN pending ELSE release

SavePending(o) ==
    /\ worker = "save"
    /\ SavePendingUpdate(found, o)
    /\ IF o = "ok" THEN Proceed("commit", found) /\ UNCHANGED <<stateValue, generations, posted>>
       ELSE Report
    /\ UNCHANGED <<elsewhere, confirmed, launched>>

CommitReady ==
    /\ worker = "commit"
    /\ ready' = [id |-> curGen, release |-> found]
    /\ stateValue' = "ReadyToApply"
    /\ Post(<<ForGen("ReadyToApply"), ForGen("ready")>>)
    /\ Finish
    /\ UNCHANGED <<nextGen, curGen, checked, elsewhere, store, launched>>

(* applyAndRestartAsync: the captured generation must be ready and pending. *)
BeginApply ==
    /\ worker = "begin" /\ opLock = "free" /\ task.kind = "apply"
    /\ IF ~ReadyNow(task.gen) THEN Refuse(<<Unguarded("error")>>)
       ELSE IF pending # ready.release THEN Report
       ELSE Proceed("consume", ready.release) /\ UNCHANGED <<stateValue, generations, posted>>
    /\ UNCHANGED <<elsewhere, store, launched>>

(* Mutant: the ready generation is not consumed. *)
MutConsume ==
    /\ worker = "consume"
    /\ Proceed("launch", found)
    /\ UNCHANGED <<stateValue, generations, posted, elsewhere, store, launched>>

Consume ==
    /\ worker = "consume"
    /\ IF ReadyNow(task.gen)
       THEN /\ ready' = None /\ stateValue' = "Applying"
            /\ Post(<<ForGen("Applying")>>)
            /\ Proceed("launch", found)
            /\ UNCHANGED <<nextGen, curGen, checked>>
       ELSE Refuse(<<ForGen("error")>>)
    /\ UNCHANGED <<elsewhere, store, launched>>

(* The launcher also reports an error when the helper runs and only its    *)
(* launch status could not be read ("shown").                              *)
LaunchApply(o) ==
    /\ worker = "launch"
    /\ IF shuttingDown
       THEN o = "ok" /\ Finish /\ UNCHANGED <<stateValue, generations, posted, launched>>
       ELSE /\ launched' = IF o = "lost" THEN launched
                           ELSE Append(launched, [intent |-> "Install", gen |-> curGen,
                                                  release |-> found])
            /\ IF o = "ok" THEN Finish /\ UNCHANGED <<stateValue, generations, posted>>
               ELSE Report
    /\ UNCHANGED <<elsewhere, store>>

(* A task that throws: reportCurrentError.  A periodic task that is not to *)
(* run returns before anything that can throw.                             *)
TaskThrows ==
    /\ worker = "begin" /\ opLock = "free"
    /\ task.run # 0 => ~stopped(task.run) /\ ~CheckBlocked
    /\ IF curGen # 0 THEN Report
       ELSE /\ Finish /\ stateValue' = "Failed" /\ UNCHANGED generations
            /\ Post(<<Unguarded("Failed"), Unguarded("error")>>)
    /\ UNCHANGED <<elsewhere, store, launched>>

-----------------------------------------------------------------------------
(* markCurrentVersionHealthy and rollbackLastUpdate: only when no task is  *)
(* queued or running, and holding operationMutex until they return.        *)

BeginOperation(name) ==
    /\ op = "none" /\ Ask
    /\ ~shuttingDown /\ ~busy /\ queue = <<>> /\ opLock = "free"
    /\ opLock' = "app" /\ op' = name
    /\ UNCHANGED <<stateValue, generations, worker, task, found, token, start, opPending,
                   call, timer, store, world, posted, seen, launched, down>>

Return == op' = "none" /\ opPending' = None /\ opLock' = "free"

untouched == <<stateValue, generations, worker, task, found, token, start, call,
               timer, world, posted, seen, down, requests>>

(* loadPendingAndReconcileRollback, then the checks before the last step. *)
LoadPending(o) ==
    /\ op \in {"healthy", "rollback"}
    /\ ReconcileRollback(o)
    /\ IF o = "ok" /\ (pending' = None \/ (pending' = Running /\
             IF op = "healthy" THEN Authorized
             ELSE receipt = [kind |-> "install", release |-> Running]))
       THEN /\ op' = IF op = "healthy" THEN "confirm" ELSE "request"
            /\ opPending' = pending' /\ UNCHANGED opLock
       ELSE Return
    /\ UNCHANGED <<untouched, confirmed, launched>>

(* commitHealthyVersion: compare and set on the pending update. *)
CommitHealthyVersion(o) ==
    /\ op = "confirm"
    /\ IF pending = opPending
       THEN IF o = "lost" THEN UNCHANGED store
            ELSE pending' = None /\ confirmed' = TRUE
       ELSE o = "ok" /\ UNCHANGED store
    /\ Return
    /\ UNCHANGED <<untouched, launched>>

(* writeRollbackRequestPlan and launchApplyProcess. *)
RequestRollback(o) ==
    /\ op = "request"
    /\ IF opPending = None THEN o = "ok" /\ UNCHANGED launched
       ELSE launched' = IF o = "lost" THEN launched
                        ELSE Append(launched, [intent |-> "Rollback", gen |-> 0,
                                               release |-> opPending])
    /\ Return
    /\ UNCHANGED <<untouched, store>>

-----------------------------------------------------------------------------
(* shutdown(), from the destructor: no call is in progress. *)

alone == <<stateValue, generations, worker, task, found, opLock, sync, call, store,
           world, posted, seen, launched, requests>>

ShutdownFlag ==
    /\ down = "no" /\ call = None /\ op = "none"
    /\ down' = "flagged"
    /\ UNCHANGED <<alone, token, start, timer>>

ShutdownClear ==
    /\ down = "flagged"
    /\ down' = "cleared" /\ queue' = <<>>
    /\ UNCHANGED <<alone, token, busy, spawning, refused, dispatching, timer>>

ShutdownCancel ==
    /\ down = "cleared"
    /\ down' = "joining"
    /\ CancelToken
    /\ periodic' = 0
    /\ UNCHANGED <<alone, start, runs, looking, firing>>

ShutdownJoin ==
    /\ down = "joining" /\ worker = "none"
    /\ down' = "done"
    /\ UNCHANGED <<alone, token, start, timer>>

(* A callback on the worker destroyed the updater: it cannot join itself. *)
ShutdownDetach ==
    /\ down = "joining" /\ worker # "none"
    /\ down' = "detached"
    /\ UNCHANGED <<alone, token, start, timer>>

(* The health confirmation deadline of an installed release passes. *)
DeadlinePasses ==
    /\ ~expired /\ receipt.kind = "install"
    /\ expired' = TRUE
    /\ UNCHANGED <<stateValue, generations, work, start, sync, call, timer, store,
                   receipt, posted, seen, launched, down, requests>>

-----------------------------------------------------------------------------
WorkerStep ==
    \/ Take \/ InstallToken \/ BeginCheck \/ BeginDownload \/ BeginApply \/ TaskThrows
    \/ CheckFails \/ Download \/ DownloadFails \/ CommitReady \/ Consume
    \/ \E release \in Releases \union {None} : CheckSucceeds(release)
    \/ \E o \in Outcomes : ValidatePendingHealth(o) \/ SavePending(o) \/ LaunchApply(o)

StartStep ==
    \/ Start \/ CheckPost \/ Dispatch
    \/ \E o \in {"ok", "fail"} : Spawn(o)
    \/ \E run \in looking : Trigger(run)
    \/ \E run \in firing, kind \in {"check", "checkDownload"} : StartFromTimer(run, kind)

OperationStep ==
    \/ \E o \in Outcomes : LoadPending(o) \/ CommitHealthyVersion(o) \/ RequestRollback(o)

ShutdownStep == ShutdownClear \/ ShutdownCancel \/ ShutdownJoin

ApplicationStep ==
    \/ \E kind \in {"check", "checkDownload", "download", "apply"} : Call(kind)
    \/ \E name \in {"healthy", "rollback"} : BeginOperation(name)
    \/ Cancel \/ StartPeriodicCheck \/ StopPeriodicCheck
    \/ ShutdownFlag \/ ShutdownDetach

Next ==
    \/ WorkerStep \/ StartStep \/ OperationStep \/ ShutdownStep \/ ApplicationStep
    \/ Deliver \/ DeadlinePasses
    \/ \E run \in 1 .. runs : ReadStateForTrigger(run)

Spec == Init /\ [][Next]_vars

(* Threads that have been started run: the worker (network operations are  *)
(* bounded by their timeouts), a call in progress, the dispatcher.  Nobody *)
(* is obliged to call, to stop a timer or to shut down.                    *)
FairSpec ==
    /\ Spec
    /\ WF_vars(WorkerStep) /\ WF_vars(StartStep) /\ WF_vars(OperationStep)
    /\ WF_vars(ShutdownStep) /\ WF_vars(Deliver)

-----------------------------------------------------------------------------
(* Properties. *)

(* Until shutdown, a task start() accepted has a worker that will look at  *)
(* it, or a caller about to create one, however calls and the end of the   *)
(* worker interleave; the queue stays within its limit.                    *)
NoLostTask ==
    /\ queue # <<>> /\ ~shuttingDown => busy /\ (spawning \/ worker # "none")
    /\ Len(queue) <= MaxPendingTasks

(* readyGeneration, checkedGeneration, currentGeneration and stateValue    *)
(* agree: what applyAndRestartAsync would launch is what the last check of *)
(* the current generation selected.                                        *)
ReadyAgrees ==
    ready # None =>
        /\ stateValue = "ReadyToApply" /\ ready.id = curGen
        /\ checked = [id |-> curGen, release |-> ready.release]

(* An update that is ready to apply is persisted as the pending update.    *)
PersistedUntilApplied == ready # None => pending = ready.release

(* The application that handled every callback knows the state, although   *)
(* callbacks of superseded generations are dropped.                        *)
ObservedState ==
    posted = <<>> /\ worker = "none" /\ ~shuttingDown => seen = stateValue

(* applyAndRestartAsync starts the helper at most once for a generation.   *)
(* No rollback is launched once an installation was, and an installation   *)
(* after a rollback only if the running release was confirmed in between,  *)
(* which ended the possibility of rolling it back.                         *)
OneHelper ==
    /\ \A i, j \in DOMAIN launched :
          launched[i].intent = "Install" /\ launched[i] = launched[j] => i = j
    /\ \A i, j \in DOMAIN launched :
          launched[i].intent = "Install" /\ launched[j].intent = "Rollback" =>
              j < i /\ confirmed

(* Once shutdown() has cancelled, no task uses the network with a token    *)
(* that is not cancelled, so joining the worker does not wait for a whole  *)
(* check or download.                                                      *)
ShutdownCancelsWork ==
    down \in {"joining", "done", "detached"} /\ worker \in {"fetch", "download"} =>
        token = "cancelled"

(* A periodic check never takes away an update that is ready, also when    *)
(* the update became ready after the timer fired.                          *)
PeriodicKeepsReady ==
    [][ready # None /\ ready' = None => task.run = 0]_vars

(* After shutdown() has returned no thread of the updater is left: nothing *)
(* is stored or launched and the state stays.  Callbacks that were posted  *)
(* before may still be delivered.  The only new one is the error of a call *)
(* of start() that had already looked for the shutdown and not seen it (a  *)
(* timer's thread is detached): whoever looks after the return posts       *)
(* nothing.                                                                *)
QuietAfterShutdown ==
    [][down = "done" =>
         /\ UNCHANGED <<pending, launched, stateValue, worker>>
         /\ dispatching' <= dispatching
         /\ \/ UNCHANGED posted
            \/ posted # <<>> /\ posted' = Tail(posted)
            \/ /\ dispatching' = dispatching - 1
               /\ posted' = Append(posted, Unguarded("error"))]_vars

(* The queue drains: a request start() accepted is taken up or, when the   *)
(* updater shuts down or its thread cannot be created, dropped.            *)
RequestsServed == (queue # <<>>) ~> (queue = <<>>)

(* A shutdown comes to an end: the worker it joins always terminates.      *)
ShutdownEnds == (down = "flagged") ~> (down \in {"done", "detached"})
=============================================================================
