------------------------- MODULE InstallController -------------------------
(***************************************************************************)
(* workspace.Controller: a pool of install workers fed by a FIFO queue,    *)
(* and the synchronous Delete that cancels, waits for and undoes an        *)
(* install.  A step is one critical section of the controller's mutex, one *)
(* repository call or one InfraOps / AgentSpec call; what lies between two *)
(* such points is local to the goroutine.                                  *)
(*                                                                         *)
(* The queue is the set of pending jobs stamped with their submission      *)
(* number, so that dequeue takes the oldest and Delete filters by id.      *)
(* The condition variable is abstracted here to "a waiter proceeds once    *)
(* its condition holds"; InstallQueue has it in detail.                    *)
(*                                                                         *)
(* retryRepoWrite repeats a failed repository call: with this repository a *)
(* failure (row gone, status moved, closed) is permanent, so one attempt   *)
(* has the outcome of three.                                               *)
(***************************************************************************)
EXTENDS Naturals, WorkspaceRepo, WorkspaceInfra

CONSTANTS
  Workers,        \* install workers
  Deleters,       \* concurrent callers of DeleteWorkspace, one call each
  Listers         \* those of them who find the id by listing

ASSUME ListersAssumption == Listers \subseteq Deleters

otherVars == <<schedVars, facadeVars>>

Jobs == [ticket : Nat, id : WorkspaceIds, dir : DirOptions]

NoJob == [ticket |-> 0, id |-> NoId, dir |-> NoId]

WorkerPoints == {"idle", "run", "init", "attach", "install", "probe", "reload",
                 "persist", "commit", "fail", "cleanup", "finish", "exit"}

DeletePoints == {"idle", "take", "wait", "get", "open", "clear", "remove", "done"}

ControllerTypeOK ==
  /\ aged \subseteq WorkspaceIds
  /\ started \in BOOLEAN
  /\ stopped \in BOOLEAN
  /\ queue \subseteq Jobs
  /\ tickets \in Nat
  /\ wpc \in [Workers -> WorkerPoints]
  /\ wjob \in [Workers -> Jobs \cup {NoJob}]
  /\ wctx \in [Workers -> {"live", "canceled", "expired"}]
  /\ wcode \in [Workers -> Codes]
  /\ wlatest \in [Workers -> Rows \cup {NoRow}]
  /\ installed \subseteq WorkspaceIds
  /\ dpc \in [Deleters -> DeletePoints]
  /\ dtarget \in [Deleters -> WorkspaceIds \cup {NoId}]
  /\ drow \in [Deleters -> Rows \cup {NoRow}]
  /\ dhandle \in [Deleters -> SUBSET WorkspaceIds]
  /\ early \subseteq WorkspaceIds
  /\ uncleared \subseteq WorkspaceIds

ControllerInit ==
  /\ aged = {}
  /\ started = FALSE
  /\ stopped = FALSE
  /\ queue = {}
  /\ tickets = 0
  /\ wpc = [k \in Workers |-> "idle"]
  /\ wjob = [k \in Workers |-> NoJob]
  /\ wctx = [k \in Workers |-> "live"]
  /\ wcode = [k \in Workers |-> "none"]
  /\ wlatest = [k \in Workers |-> NoRow]
  /\ installed = {}
  /\ dpc = [d \in Deleters |-> "idle"]
  /\ dtarget = [d \in Deleters |-> NoId]
  /\ drow = [d \in Deleters |-> NoRow]
  /\ dhandle = [d \in Deleters |-> {}]
  /\ early = {}
  /\ uncleared = {}

-----------------------------------------------------------------------------
(* Helpers                                                                 *)

(* installRunning[w] > 0                                                   *)
Running(w) == \E k \in Workers : wjob[k].id = w

JobPath(k) == LocalPath[wjob[k].dir]

(* Controller.installCtx is canceled.                                      *)
RootCanceled == phase \in {"canceled", "drain", "closed"}

MayFail(op) == op \in Faults

(* Worker k moves on without touching the repository or the host.          *)
Goto(k, point) == wpc' = [wpc EXCEPT ![k] = point]

(* classifyFailure: a deadline or a cancellation of the job's context      *)
(* explains the error whatever it says.                                    *)
ClassifyFailure(k, code) ==
  CASE wctx[k] = "expired"  -> "install.timeout"
    [] wctx[k] = "canceled" -> "shutdown"
    [] OTHER                -> code

(* Worker k gives up and will persist code with transitionToFailed.        *)
GiveUp(k, code) ==
  /\ Goto(k, "fail")
  /\ wcode' = [wcode EXCEPT ![k] = code]

-----------------------------------------------------------------------------
(* A faulty variant: Submit does not look at stopped.                      *)
SubmitWhenStarted == started

(* Submit, called by the facade: rejected unless started and not stopped.  *)
SubmitOK == started /\ ~stopped

(* A faulty variant: the job is queued twice.                              *)
EnqueueTwice(w, dir) ==
  /\ queue' = queue \cup {[ticket |-> tickets + n, id |-> w, dir |-> dir] : n \in {0, 1}}
  /\ tickets' = tickets + 2
  /\ UNCHANGED <<started, stopped>>

Enqueue(w, dir) ==
  /\ queue' = queue \cup {[ticket |-> tickets, id |-> w, dir |-> dir]}
  /\ tickets' = tickets + 1
  /\ UNCHANGED <<started, stopped>>

(* dequeue: take the oldest job under a fresh context of the install root, *)
(* which Stop has perhaps canceled already.                                *)
Dequeue(k) ==
  /\ started
  /\ wpc[k] = "idle"
  /\ \E job \in queue :
       /\ \A other \in queue : job.ticket <= other.ticket
       /\ queue' = queue \ {job}
       /\ wjob' = [wjob EXCEPT ![k] = job]
  /\ wctx' = [wctx EXCEPT ![k] = IF RootCanceled THEN "canceled" ELSE "live"]
  /\ Goto(k, "run")
  /\ UNCHANGED <<repoVars, fs, aged, started, stopped, tickets, wcode, wlatest,
                 installed, deleteVars, otherVars>>

(* A worker leaves only when the queue is drained and Stop was called.     *)
WorkerExit(k) ==
  /\ started
  /\ wpc[k] = "idle"
  /\ queue = {}
  /\ stopped
  /\ Goto(k, "exit")
  /\ UNCHANGED <<repoVars, fs, aged, queueVars, wjob, wctx, wcode, wlatest,
                 installed, deleteVars, otherVars>>

(* runInstall: an install canceled before it starts touches nothing.       *)
StartInstall(k) ==
  /\ wpc[k] = "run"
  /\ IF wctx[k] = "canceled"
     THEN GiveUp(k, "shutdown")
     ELSE Goto(k, "init") /\ UNCHANGED wcode
  /\ UNCHANGED <<repoVars, fs, aged, queueVars, wjob, wctx, wlatest, installed, deleteVars, otherVars>>

(* factory and ops.Init.  An Init that fails, or whose context ends while  *)
(* it runs, may have made the directory.                                   *)
RunInit(k) ==
  /\ wpc[k] = "init"
  /\ LET w == wjob[k].id
         p == JobPath(k)
     IN \/ /\ wctx[k] = "live" /\ InitOK(p)
           /\ InitDir(w, p)
           /\ Goto(k, "attach")
           /\ UNCHANGED wcode
        \/ /\ wctx[k] # "live" \/ ~InitOK(p) \/ MayFail("install")
           /\ GiveUp(k, ClassifyFailure(k, "install.error"))
           /\ UNCHANGED fs \/ (InitOK(p) /\ InitDir(w, p))
  /\ UNCHANGED <<repoVars, aged, queueVars, wjob, wctx, wlatest, installed, deleteVars, otherVars>>

(* One phase of the install that writes part into the directory.  An error *)
(* can come before or after some of the files were written.                *)
WritePhase(k, from, part, to) ==
  /\ wpc[k] = from
  /\ LET w == wjob[k].id
         p == JobPath(k)
         linked == w \in RootsAt(p)
     IN \/ /\ wctx[k] = "live" /\ linked
           /\ PutFiles(w, p, part)
           /\ Goto(k, to)
           /\ UNCHANGED wcode
        \/ /\ wctx[k] # "live" \/ ~linked \/ MayFail("install")
           /\ GiveUp(k, ClassifyFailure(k, "install.error"))
           /\ \/ UNCHANGED fs
              \/ linked /\ MayFail("install") /\ PutFiles(w, p, part)
  /\ UNCHANGED <<repoVars, aged, queueVars, wjob, wctx, wlatest, installed, deleteVars, otherVars>>

AttachPlugins(k) == WritePhase(k, "attach", "plugins", "install")

InstallAgent(k) == WritePhase(k, "install", "agent", "probe")

(* The confirming probe needs the handle's directory to be in place; the   *)
(* agent binary may be unavailable.  An unhealthy answer is a probe error, *)
(* the probe's own deadline counts as an install timeout.                  *)
ConfirmProbe(k) ==
  /\ wpc[k] = "probe"
  /\ LET linked == wjob[k].id \in RootsAt(JobPath(k))
     IN \/ /\ wctx[k] = "live" /\ linked
           /\ installed' = installed \cup {wjob[k].id}
           /\ Goto(k, "reload")
           /\ UNCHANGED wcode
        \/ /\ wctx[k] # "live" \/ ~linked \/ MayFail("probe")
           /\ \E code \in {"probe.error", "install.timeout", ClassifyFailure(k, "probe.error")} :
                GiveUp(k, code)
           /\ UNCHANGED installed
  /\ UNCHANGED <<repoVars, fs, aged, queueVars, wjob, wctx, wlatest, deleteVars, otherVars>>

(* Reload before finalize.  A row that left init in the meantime is kept   *)
(* for diagnosis after an install timeout and cleaned up otherwise.        *)
Reload(k) ==
  /\ wpc[k] = "reload"
  /\ LET w == wjob[k].id
     IN \/ /\ ~GetOK(w)
           /\ GiveUp(k, "install.error")
           /\ UNCHANGED wlatest
        \/ /\ GetOK(w) /\ byID[w].status # "init"
           /\ IF byID[w].status = "failed" /\ byID[w].code = "install.timeout"
              THEN Goto(k, "finish")
              ELSE Goto(k, "cleanup")
           /\ UNCHANGED <<wcode, wlatest>>
        \/ /\ GetOK(w) /\ byID[w].status = "init"
           /\ wlatest' = [wlatest EXCEPT ![k] = byID[w]]
           /\ Goto(k, "persist")
           /\ UNCHANGED wcode
  /\ UNCHANGED <<repoVars, fs, aged, queueVars, wjob, wctx, installed, deleteVars, otherVars>>

(* Persist the placed plugins with a whole-row Update of the reloaded row. *)
PersistPlugins(k) ==
  /\ wpc[k] = "persist"
  /\ LET w == wjob[k].id
         row == [wlatest[k] EXCEPT !.placed = TRUE]
     IN /\ Update(w, row)
        /\ IF UpdateOK(w, row)
           THEN Goto(k, "commit") /\ UNCHANGED wcode
           ELSE GiveUp(k, "install.error")
  /\ UNCHANGED <<fs, aged, queueVars, wjob, wctx, wlatest, installed, deleteVars, otherVars>>

(* The commit point: init -> healthy.  A lost race (the status is no       *)
(* longer init) counts as success.                                         *)
CommitHealthy(k) ==
  /\ wpc[k] = "commit"
  /\ LET w == wjob[k].id
     IN /\ UpdateStatusCAS(w, "controller", "init", "healthy", "none")
        /\ IF GetOK(w)
           THEN Goto(k, "finish") /\ UNCHANGED wcode
           ELSE GiveUp(k, "install.error")
  /\ UNCHANGED <<fs, aged, queueVars, wjob, wctx, wlatest, installed, deleteVars, otherVars>>

(* transitionToFailed: errors are logged, a lost race is ignored.          *)
TransitionToFailed(k) ==
  /\ wpc[k] = "fail"
  /\ UpdateStatusCAS(wjob[k].id, "controller", "init", "failed", wcode[k])
  /\ Goto(k, "finish")
  /\ UNCHANGED <<fs, aged, queueVars, wjob, wctx, wcode, wlatest, installed, deleteVars, otherVars>>

(* cleanupStaleInstallEffects clears through the install's own handle;     *)
(* under a context that is done, or on an error, Clear does nothing.       *)
CleanupStale(k) ==
  /\ wpc[k] = "cleanup"
  /\ \/ wctx[k] = "live" /\ ClearDir({wjob[k].id}, wjob[k].dir)
     \/ wctx[k] # "live" /\ UNCHANGED fs
     \/ MayFail("clear") /\ ClearFails({wjob[k].id}, wjob[k].dir)
  /\ Goto(k, "finish")
  /\ UNCHANGED <<repoVars, aged, queueVars, wjob, wctx, wcode, wlatest, installed, deleteVars, otherVars>>

(* finishTrackedInstall.                                                   *)
FinishInstall(k) ==
  /\ wpc[k] = "finish"
  /\ Goto(k, "idle")
  /\ wjob' = [wjob EXCEPT ![k] = NoJob]
  /\ wcode' = [wcode EXCEPT ![k] = "none"]
  /\ wlatest' = [wlatest EXCEPT ![k] = NoRow]
  /\ wctx' = [wctx EXCEPT ![k] = "live"]
  /\ UNCHANGED <<repoVars, fs, aged, queueVars, installed, deleteVars, otherVars>>

(* The install's own deadline, InstallTimeout after it started running.    *)
(* CreatedAt is earlier, so the row has outlived InstallTimeout too.       *)
ExpireInstall(k) ==
  /\ wpc[k] \in {"init", "attach", "install", "probe", "reload", "cleanup"}
  /\ wctx[k] = "live"
  /\ wjob[k].id \in aged
  /\ wctx' = [wctx EXCEPT ![k] = "expired"]
  /\ UNCHANGED <<repoVars, fs, aged, queueVars, wpc, wjob, wcode, wlatest,
                 installed, deleteVars, otherVars>>

(* A row that stays in init grows older than InstallTimeout.               *)
Age(w) ==
  /\ HasStatus(w, "init")
  /\ w \notin aged
  /\ aged' = aged \cup {w}
  /\ UNCHANGED <<repoVars, fs, queueVars, workerVars, deleteVars, otherVars>>

WorkerStep(k) ==
  \/ StartInstall(k)
  \/ RunInit(k)
  \/ AttachPlugins(k)
  \/ InstallAgent(k)
  \/ ConfirmProbe(k)
  \/ Reload(k)
  \/ PersistPlugins(k)
  \/ CommitHealthy(k)
  \/ TransitionToFailed(k)
  \/ CleanupStale(k)
  \/ FinishInstall(k)

-----------------------------------------------------------------------------
(* Controller.Delete                                                       *)

DeleteGoto(d, point) == dpc' = [dpc EXCEPT ![d] = point]

DeleteReturn(d) ==
  /\ DeleteGoto(d, "done")
  /\ dtarget' = [dtarget EXCEPT ![d] = NoId]
  /\ drow' = [drow EXCEPT ![d] = NoRow]
  /\ dhandle' = [dhandle EXCEPT ![d] = {}]

(* The test of stopped comes before the lock, so Stop may come in between. *)
DeleteBegin(d, w) ==
  /\ dpc[d] = "idle"
  /\ IF stopped
     THEN DeleteReturn(d)
     ELSE /\ DeleteGoto(d, "take")
          /\ dtarget' = [dtarget EXCEPT ![d] = w]
          /\ UNCHANGED <<drow, dhandle>>
  /\ UNCHANGED <<repoVars, fs, aged, queueVars, workerVars, early, uncleared, otherVars>>

(* takeAndCancelQueuedInstalls and the call of the cancel function it      *)
(* returns: the two commute with everything in between, since an id in     *)
(* flight has no second job in the queue.  A Delete that found the id by   *)
(* listing may come here before Create has submitted the job.              *)
DeleteTake(d) ==
  /\ dpc[d] = "take"
  /\ queue' = {job \in queue : job.id # dtarget[d]}
  /\ wctx' = [k \in Workers |->
                IF wjob[k].id = dtarget[d] /\ wctx[k] = "live" THEN "canceled" ELSE wctx[k]]
  /\ DeleteGoto(d, "wait")
  /\ early' = IF cpc[dtarget[d]] = "inserted" THEN early \cup {dtarget[d]} ELSE early
  /\ UNCHANGED <<repoVars, fs, aged, started, stopped, tickets, wpc, wjob, wcode, wlatest,
                 installed, dtarget, drow, dhandle, uncleared, otherVars>>

(* A faulty variant: Delete does not wait for the worker.                  *)
DeleteWithoutWait(d) ==
  /\ dpc[d] = "wait"
  /\ DeleteGoto(d, "get")
  /\ UNCHANGED <<repoVars, fs, aged, queueVars, workerVars, dtarget, drow, dhandle,
                 early, uncleared, otherVars>>

(* waitInstallIdle                                                         *)
DeleteWaitIdle(d) ==
  /\ dpc[d] = "wait"
  /\ ~Running(dtarget[d])
  /\ DeleteGoto(d, "get")
  /\ UNCHANGED <<repoVars, fs, aged, queueVars, workerVars, dtarget, drow, dhandle,
                 early, uncleared, otherVars>>

(* The caller's context ends while an install is still running.            *)
DeleteAbandon(d) ==
  /\ dpc[d] = "wait"
  /\ Running(dtarget[d])
  /\ DeleteReturn(d)
  /\ UNCHANGED <<repoVars, fs, aged, queueVars, workerVars, early, uncleared, otherVars>>

DeleteGet(d) ==
  /\ dpc[d] = "get"
  /\ IF GetOK(dtarget[d])
     THEN /\ drow' = [drow EXCEPT ![d] = byID[dtarget[d]]]
          /\ DeleteGoto(d, "open")
          /\ UNCHANGED <<dtarget, dhandle>>
     ELSE DeleteReturn(d)
  /\ UNCHANGED <<repoVars, fs, aged, queueVars, workerVars, early, uncleared, otherVars>>

(* factory, Open and Uninstall.  Errors are only logged: without an        *)
(* InfraOps the row goes at once, without an open root Clear still runs.   *)
DeleteOpen(d) ==
  /\ dpc[d] = "open"
  /\ \/ /\ dhandle' = [dhandle EXCEPT ![d] = RootsAt(LocalPath[drow[d].dir])]
        /\ DeleteGoto(d, "clear")
        /\ UNCHANGED uncleared
     \/ /\ MayFail("clear")
        /\ dhandle' = [dhandle EXCEPT ![d] = {}]
        /\ DeleteGoto(d, "clear")
        /\ UNCHANGED uncleared
     \/ /\ MayFail("clear")
        /\ DeleteGoto(d, "remove")
        /\ uncleared' = uncleared \cup {dtarget[d]}
        /\ UNCHANGED dhandle
  /\ UNCHANGED <<repoVars, fs, aged, queueVars, workerVars, dtarget, drow, early, otherVars>>

DeleteClear(d) ==
  /\ dpc[d] = "clear"
  /\ \/ ClearDir(dhandle[d], drow[d].dir) /\ UNCHANGED uncleared
     \/ /\ MayFail("clear")
        /\ ClearFails(dhandle[d], drow[d].dir)
        /\ uncleared' = uncleared \cup {dtarget[d]}
  /\ DeleteGoto(d, "remove")
  /\ UNCHANGED <<repoVars, aged, queueVars, workerVars, dtarget, drow, dhandle, early, otherVars>>

(* The row is deleted whatever happened to the directory.                  *)
DeleteRemove(d) ==
  /\ dpc[d] = "remove"
  /\ Delete(dtarget[d])
  /\ DeleteReturn(d)
  /\ UNCHANGED <<fs, aged, queueVars, workerVars, early, uncleared, otherVars>>

DeleteStep(d) ==
  \/ DeleteTake(d)
  \/ DeleteWaitIdle(d)
  \/ DeleteGet(d)
  \/ DeleteOpen(d)
  \/ DeleteClear(d)
  \/ DeleteRemove(d)

=============================================================================
