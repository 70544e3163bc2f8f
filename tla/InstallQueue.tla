----------------------------- MODULE InstallQueue -----------------------------
(***************************************************************************)
(* The install queue of the workspace controller at the level of its lock  *)
(* and its one condition variable (src/pkg/manager/workspace/              *)
(* controller.go).  Workers wait in dequeue for a job, deletes wait in     *)
(* waitInstallIdle for an install to end, both on queueCond; Submit wakes  *)
(* one waiter with Signal and has no say which, everybody else wakes all   *)
(* with Broadcast.  What an install does is WorkspaceLifecycle's subject;  *)
(* here it only ends.                                                      *)
(*                                                                         *)
(* Every action is one critical section of c.mu.  queueCond.Wait releases  *)
(* the lock and sleeps in one step; a waiter that is woken has to take the *)
(* lock again and re-evaluates its condition.                              *)
(***************************************************************************)
EXTENDS Naturals, FiniteSets

CONSTANTS
    Workers,        \* the install workers
    Deletes,        \* calls of Delete
    Ids,            \* workspaces
    MaxSubmits      \* bound: calls of Submit

ASSUME WorkersAssumption == IsFiniteSet(Workers) /\ Workers # {}
ASSUME DisjointAssumption == Workers \cap Deletes = {}
ASSUME MaxSubmitsAssumption == MaxSubmits \in Nat

VARIABLES
    queue,          \* c.queue: the jobs, numbered in the order submitted
    installRunning, \* c.installRunning: installs running per workspace
    worker,         \* where each worker is in dequeue and runOneInstall
    job,            \* the workspace each worker installs
    delete,         \* where each Delete is in waitInstallIdle
    target,         \* the workspace each Delete is about
    ctxDone,        \* the context of each Delete is done
    stopped,        \* c.stopped
    submits         \* calls of Submit so far

queueVars == <<queue, installRunning, worker, job, delete, target, ctxDone, stopped, submits>>

\* Type invariant.  A worker or a delete is on its way to the lock ("ready",
\* "check"), asleep on queueCond, busy or finished.
QueueTypeOK ==
    /\ queue \subseteq [n : Nat, id : Ids]
    /\ installRunning \in [Ids -> Nat]
    /\ worker \in [Workers -> {"ready", "asleep", "running", "gone"}]
    /\ job \in [Workers -> Ids]
    /\ delete \in [Deletes -> {"idle", "enter", "check", "asleep", "done", "left"}]
    /\ target \in [Deletes -> Ids]
    /\ ctxDone \in [Deletes -> BOOLEAN]
    /\ stopped \in BOOLEAN
    /\ submits \in Nat

\* The controller has been started.  A job or target is arbitrary until set.
QueueInit ==
    /\ queue = {}
    /\ installRunning = [id \in Ids |-> 0]
    /\ worker = [w \in Workers |-> "ready"]
    /\ job \in [Workers -> Ids]
    /\ delete = [d \in Deletes |-> "idle"]
    /\ target \in [Deletes -> Ids]
    /\ ctxDone = [d \in Deletes |-> FALSE]
    /\ stopped = FALSE
    /\ submits = 0

----------------------------------------------------------------------------
(* The condition variable.                                                 *)

AsleepWorkers == {w \in Workers : worker[w] = "asleep"}
AsleepDeletes == {d \in Deletes : delete[d] = "asleep"}

\* Everybody in W and D, all of them asleep, wakes up.
Wake(W, D) ==
    /\ worker' = [w \in Workers |-> IF w \in W THEN "ready" ELSE worker[w]]
    /\ delete' = [d \in Deletes |-> IF d \in D THEN "check" ELSE delete[d]]

\* A faulty variant: Submit wakes nobody.
SignalNobody == UNCHANGED <<worker, delete>>

\* queueCond.Signal(): one waiter, if there is one.  Which one is the
\* runtime's choice.
Signal ==
    \/ \E w \in AsleepWorkers : Wake({w}, {})
    \/ \E d \in AsleepDeletes : Wake({}, {d})
    \/ AsleepWorkers = {} /\ AsleepDeletes = {} /\ UNCHANGED <<worker, delete>>

----------------------------------------------------------------------------
(* Submit and Stop.                                                        *)

Submit(id) ==
    /\ ~stopped
    /\ submits < MaxSubmits
    /\ submits' = submits + 1
    /\ queue' = queue \cup {[n |-> submits, id |-> id]}
    /\ Signal
    /\ UNCHANGED <<installRunning, job, target, ctxDone, stopped>>

\* A faulty variant: Stop does not wake the workers.
StopQuietly ==
    /\ ~stopped
    /\ stopped' = TRUE
    /\ UNCHANGED <<queue, installRunning, worker, job, delete, target, ctxDone, submits>>

Stop ==
    /\ ~stopped
    /\ stopped' = TRUE
    /\ Wake(AsleepWorkers, AsleepDeletes)
    /\ UNCHANGED <<queue, installRunning, job, target, ctxDone, submits>>

----------------------------------------------------------------------------
(* A worker: dequeue, the install, finishTrackedInstall.                   *)

DequeueWaits(w) ==
    /\ worker[w] = "ready"
    /\ queue = {}
    /\ ~stopped
    /\ worker' = [worker EXCEPT ![w] = "asleep"]
    /\ UNCHANGED <<queue, installRunning, job, delete, target, ctxDone, stopped, submits>>

\* c.queue[0]
IsHead(j) == \A k \in queue : j.n <= k.n

DequeueTakes(w) ==
    /\ worker[w] = "ready"
    /\ \E j \in queue :
            /\ IsHead(j)
            /\ queue' = queue \ {j}
            /\ installRunning' = [installRunning EXCEPT ![j.id] = @ + 1]
            /\ job' = [job EXCEPT ![w] = j.id]
    /\ worker' = [worker EXCEPT ![w] = "running"]
    /\ UNCHANGED <<delete, target, ctxDone, stopped, submits>>

DequeueExits(w) ==
    /\ worker[w] = "ready"
    /\ queue = {}
    /\ stopped
    /\ worker' = [worker EXCEPT ![w] = "gone"]
    /\ UNCHANGED <<queue, installRunning, job, delete, target, ctxDone, stopped, submits>>

\* A faulty variant: the end of an install wakes one waiter only.
FinishSignals(w) ==
    /\ worker[w] = "running"
    /\ installRunning' = [installRunning EXCEPT ![job[w]] = @ - 1]
    /\ \/ \E v \in AsleepWorkers :
             worker' = [worker EXCEPT ![w] = "ready", ![v] = "ready"] /\ UNCHANGED delete
       \/ \E d \in AsleepDeletes :
             worker' = [worker EXCEPT ![w] = "ready"] /\ delete' = [delete EXCEPT ![d] = "check"]
       \/ /\ AsleepWorkers = {} /\ AsleepDeletes = {}
          /\ worker' = [worker EXCEPT ![w] = "ready"] /\ UNCHANGED delete
    /\ UNCHANGED <<queue, job, target, ctxDone, stopped, submits>>

FinishInstall(w) ==
    /\ worker[w] = "running"
    /\ installRunning' = [installRunning EXCEPT ![job[w]] = @ - 1]
    /\ Wake(AsleepWorkers \cup {w}, AsleepDeletes)
    /\ UNCHANGED <<queue, job, target, ctxDone, stopped, submits>>

----------------------------------------------------------------------------
(* A Delete: takeAndCancelQueuedInstalls, waitInstallIdle.                 *)

\* The test of c.stopped comes before the lock, so Stop may come in between.
DeleteEnters(d, id) ==
    /\ delete[d] = "idle"
    /\ ~stopped
    /\ target' = [target EXCEPT ![d] = id]
    /\ delete' = [delete EXCEPT ![d] = "enter"]
    /\ UNCHANGED <<queue, installRunning, worker, job, ctxDone, stopped, submits>>

DeleteTakes(d) ==
    /\ delete[d] = "enter"
    /\ queue' = {j \in queue : j.id # target[d]}
    /\ Wake(AsleepWorkers, AsleepDeletes \cup {d})
    /\ UNCHANGED <<installRunning, job, target, ctxDone, stopped, submits>>

DeleteWaits(d) ==
    /\ delete[d] = "check"
    /\ installRunning[target[d]] > 0
    /\ ~ctxDone[d]
    /\ delete' = [delete EXCEPT ![d] = "asleep"]
    /\ UNCHANGED <<queue, installRunning, worker, job, target, ctxDone, stopped, submits>>

\* A faulty variant: a Delete that has been woken does not look again.
DeleteProceedsBlindly(d) ==
    /\ delete[d] = "check"
    /\ delete' = [delete EXCEPT ![d] = "done"]
    /\ UNCHANGED <<queue, installRunning, worker, job, target, ctxDone, stopped, submits>>

\* No install of the workspace runs, whatever the context says.
DeleteProceeds(d) ==
    /\ delete[d] = "check"
    /\ installRunning[target[d]] = 0
    /\ delete' = [delete EXCEPT ![d] = "done"]
    /\ UNCHANGED <<queue, installRunning, worker, job, target, ctxDone, stopped, submits>>

\* An install runs and the context is done: Delete returns its error.
DeleteGivesUp(d) ==
    /\ delete[d] = "check"
    /\ installRunning[target[d]] > 0
    /\ ctxDone[d]
    /\ delete' = [delete EXCEPT ![d] = "left"]
    /\ UNCHANGED <<queue, installRunning, worker, job, target, ctxDone, stopped, submits>>

\* The context is done.  The goroutine waitInstallIdle starts broadcasts under
\* the lock; the context may be done some time before it does.
CtxDone(d) ==
    /\ delete[d] \in {"check", "asleep"}
    /\ ~ctxDone[d]
    /\ ctxDone' = [ctxDone EXCEPT ![d] = TRUE]
    /\ UNCHANGED <<queue, installRunning, worker, job, delete, target, stopped, submits>>

CtxBroadcast(d) ==
    /\ ctxDone[d]
    /\ delete[d] = "asleep"
    /\ Wake(AsleepWorkers, AsleepDeletes)
    /\ UNCHANGED <<queue, installRunning, job, target, ctxDone, stopped, submits>>

----------------------------------------------------------------------------
WorkerStep(w) == DequeueWaits(w) \/ DequeueTakes(w) \/ DequeueExits(w) \/ FinishInstall(w)
DeleteStep(d) == DeleteTakes(d) \/ DeleteWaits(d) \/ DeleteProceeds(d) \/ DeleteGivesUp(d) \/ CtxBroadcast(d)

QueueNext ==
    \/ \E id \in Ids : Submit(id)
    \/ Stop
    \/ \E w \in Workers : WorkerStep(w)
    \/ \E d \in Deletes : DeleteStep(d) \/ CtxDone(d) \/ (\E id \in Ids : DeleteEnters(d, id))

QueueSpec == QueueInit /\ [][QueueNext]_queueVars

\* Goroutines that hold or want the lock run on, and every install ends: it
\* works under contexts that expire.  Nobody has to call Submit, Delete or Stop.
Fairness ==
    /\ \A w \in Workers : WF_queueVars(WorkerStep(w))
    /\ \A d \in Deletes : WF_queueVars(DeleteStep(d))

FairSpec == QueueSpec /\ Fairness

----------------------------------------------------------------------------
(* Properties.                                                             *)

\* No lost wakeup: while a job is queued some worker is on its way to the queue
\* or busy and will come back to it, although the Signal of Submit may have gone
\* to a Delete.
QueuedJobHasWorker == queue # {} => \E w \in Workers : worker[w] \in {"ready", "running"}

\* installRunning counts the workers that are installing a workspace, also when
\* two installs of it overlap.
RunningCounts ==
    \A id \in Ids :
        installRunning[id] = Cardinality({w \in Workers : worker[w] = "running" /\ job[w] = id})

\* Nobody oversleeps: a worker sleeps only while the controller runs, a Delete
\* only while an install of its workspace does, and a worker leaves only when
\* the stopped controller has no job left.
SleepersHaveReason ==
    /\ \A w \in Workers : worker[w] = "asleep" => ~stopped
    /\ \A d \in Deletes : delete[d] = "asleep" => installRunning[target[d]] > 0
    /\ \A w \in Workers : worker[w] = "gone" => stopped /\ queue = {}

\* A Delete that waits for an install gets on, or gives up when its context is done.
DeleteGetsOn ==
    \A d \in Deletes : delete[d] \in {"enter", "check", "asleep"} ~> delete[d] \in {"done", "left"}

----------------------------------------------------------------------------
(* What the queue is for its users.  Who sleeps and who wakes is not seen, *)
(* and an install runs while a worker is at it, whatever the counter says. *)

Work == [w \in Workers |-> IF worker[w] = "running" THEN {job[w]} ELSE {}]
Gone == {w \in Workers : worker[w] = "gone"}
DeletePoint(d) == IF delete[d] = "enter" THEN "enter" ELSE IF delete[d] = "done" THEN "alone" ELSE "wait"
DeleteCalls == [d \in Deletes |-> IF delete[d] \in {"idle", "left"}
                                  THEN [at |-> "out", of |-> {}]
                                  ELSE [at |-> DeletePoint(d), of |-> {target[d]}]]

Jobs == INSTANCE JobQueue WITH work <- Work, gone <- Gone, calls <- DeleteCalls

\* Lock, counter and condition variable implement the queue that the install
\* controller is modelled with: a waiter proceeds as if it had been watching.
JobQueueSafe == Jobs!JobSafe

\* ... and nobody waits for ever for what is there: a queued job is taken although
\* the one Signal may go to a Delete, the workers leave a stopped queue, and a Delete
\* gets on when no install of its workspace runs.
JobQueueKept == Jobs!JobSpec

=============================================================================
