-------------------------- MODULE WorkspaceFacade --------------------------
(***************************************************************************)
(* The workspace half of manager.Manager: CreateWorkspace, DeleteWorkspace *)
(* and the manager's Start and Stop.  CreateWorkspace holds one mutex from *)
(* its uniqueness check to the end of Submit, but neither the controller's *)
(* Delete nor Stop takes that mutex.                                       *)
(***************************************************************************)
EXTENDS ProbeScheduler

CONSTANT StopMode   \* "never", "patient" or "impatient": Stop's context

ASSUME StopAssumption == StopMode \in {"never", "patient", "impatient"}

Phases == {"built", "running", "sched", "ctrl", "canceled", "drain", "closed"}

FacadeTypeOK ==
  /\ phase \in Phases
  /\ stopExpired \in BOOLEAN
  /\ cpc \in [WorkspaceIds -> {"new", "checked", "inserted", "undo", "done"}]
  /\ creq \in [WorkspaceIds -> Rows \cup {NoRow}]

FacadeInit ==
  /\ phase = "built"
  /\ stopExpired = FALSE
  /\ cpc = [w \in WorkspaceIds |-> "new"]
  /\ creq = [w \in WorkspaceIds |-> NoRow]

(* beginOp admits an operation until Stop is called.                       *)
Accepting == phase \in {"built", "running"}

ActiveCreates == {w \in WorkspaceIds : cpc[w] \in {"checked", "inserted", "undo"}}

ActiveDeletes == {d \in Deleters : dpc[d] \notin {"idle", "done"}}

-----------------------------------------------------------------------------
(* CreateWorkspace                                                         *)

(* A faulty variant: only healthy workspaces count.                        *)
DirTakenByHealthy(dir) ==
  \E v \in WorkspaceIds : HasStatus(v, "healthy") /\ CanonicalDir[byID[v].dir] = CanonicalDir[dir]

(* ensureWorkspaceInfraUniqueness, on the manager's canonical form.        *)
DirTaken(dir) ==
  \E v \in WorkspaceIds : Exists(v) /\ CanonicalDir[byID[v].dir] = CanonicalDir[dir]

(* A faulty variant: the status is left at its zero value.                 *)
NewRowWithoutStatus(alias, dir) ==
  [status |-> "", code |-> "none", alias |-> alias, dir |-> dir, placed |-> FALSE]

NewRow(alias, dir) ==
  [status |-> "init", code |-> "none", alias |-> alias, dir |-> dir, placed |-> FALSE]

CreateReturns(w) ==
  /\ cpc' = [cpc EXCEPT ![w] = "done"]
  /\ creq' = [creq EXCEPT ![w] = NoRow]

CreateCheck(w, alias, dir) ==
  /\ Accepting
  /\ cpc[w] = "new"
  /\ ActiveCreates = {}
  /\ IF DirTaken(dir)
     THEN CreateReturns(w)
     ELSE /\ cpc' = [cpc EXCEPT ![w] = "checked"]
          /\ creq' = [creq EXCEPT ![w] = NewRow(alias, dir)]
  /\ UNCHANGED <<repoVars, controllerVars, schedVars, phase, stopExpired>>

(* The alias conflict is found by Insert itself.                           *)
CreateInsert(w) ==
  /\ cpc[w] = "checked"
  /\ Insert(w, creq[w])
  /\ IF InsertOK(w, creq[w])
     THEN cpc' = [cpc EXCEPT ![w] = "inserted"] /\ UNCHANGED creq
     ELSE CreateReturns(w)
  /\ UNCHANGED <<controllerVars, schedVars, phase, stopExpired>>

CreateSubmit(w) ==
  /\ cpc[w] = "inserted"
  /\ IF SubmitOK
     THEN Enqueue(w, creq[w].dir) /\ CreateReturns(w)
     ELSE UNCHANGED <<queueVars, creq>> /\ cpc' = [cpc EXCEPT ![w] = "undo"]
  /\ UNCHANGED <<repoVars, fs, aged, workerVars, deleteVars, schedVars, phase, stopExpired>>

(* Compensation: the row of a workspace that could not be submitted goes.  *)
CreateUndo(w) ==
  /\ cpc[w] = "undo"
  /\ Delete(w)
  /\ CreateReturns(w)
  /\ UNCHANGED <<controllerVars, schedVars, phase, stopExpired>>

CreateStep(w) == CreateInsert(w) \/ CreateSubmit(w) \/ CreateUndo(w)

(* DeleteWorkspace by a caller who holds the id CreateWorkspace returned   *)
(* or found it by listing, perhaps before CreateWorkspace has submitted it.*)
DeleteCall(d, w) ==
  /\ Accepting
  /\ cpc[w] = "done" \/ (d \in Listers /\ Exists(w))
  /\ DeleteBegin(d, w)

-----------------------------------------------------------------------------
(* Start and Stop                                                          *)

Start ==
  /\ phase = "built"
  /\ phase' = "running"
  /\ started' = TRUE
  /\ spc' = "idle"
  /\ UNCHANGED <<repoVars, fs, aged, stopped, queue, tickets, workerVars, deleteVars,
                 scancel, snap, swatch, ppc, pout, platest, stopExpired, cpc, creq>>

(* stopInProgress, then scheduler.Stop cancels the loop ...                *)
StopBegin ==
  /\ StopMode # "never"
  /\ Accepting
  /\ phase' = "sched"
  /\ scancel' = TRUE
  /\ UNCHANGED <<repoVars, controllerVars, spc, snap, swatch, ppc, pout, platest,
                 stopExpired, cpc, creq>>

(* A faulty variant: Stop waits for a loop that was never started.         *)
StopSchedulerAlwaysWaits ==
  /\ phase = "sched"
  /\ spc = "exit" \/ stopExpired
  /\ phase' = "ctrl"
  /\ stopped' = TRUE
  /\ UNCHANGED <<repoVars, fs, aged, started, queue, tickets, workerVars, deleteVars,
                 schedVars, stopExpired, cpc, creq>>

(* ... and waits for it; controller.Stop closes the queue to Submit ...    *)
StopScheduler ==
  /\ phase = "sched"
  /\ spc \in {"off", "exit"} \/ stopExpired
  /\ phase' = "ctrl"
  /\ stopped' = TRUE
  /\ UNCHANGED <<repoVars, fs, aged, started, queue, tickets, workerVars, deleteVars,
                 schedVars, stopExpired, cpc, creq>>

(* ... and only then, outside the mutex, cancels the installs ...          *)
StopCancel ==
  /\ phase = "ctrl"
  /\ phase' = "canceled"
  /\ wctx' = [k \in Workers |->
                IF wjob[k] # NoJob /\ wctx[k] = "live" THEN "canceled" ELSE wctx[k]]
  /\ UNCHANGED <<repoVars, fs, aged, queueVars, wpc, wjob, wcode, wlatest, installed,
                 deleteVars, schedVars, stopExpired, cpc, creq>>

(* ... and waits for the workers.                                          *)
StopWorkers ==
  /\ phase = "canceled"
  /\ ~started \/ stopExpired \/ \A k \in Workers : wpc[k] = "exit"
  /\ phase' = "drain"
  /\ UNCHANGED <<repoVars, controllerVars, schedVars, stopExpired, cpc, creq>>

(* apiWg.Wait, then the repositories are closed.                           *)
StopClose ==
  /\ phase = "drain"
  /\ stopExpired \/ (ActiveCreates = {} /\ ActiveDeletes = {})
  /\ phase' = "closed"
  /\ Close
  /\ UNCHANGED <<controllerVars, schedVars, stopExpired, cpc, creq>>

(* An impatient caller's context runs out at any point of Stop.            *)
StopExpire ==
  /\ StopMode = "impatient"
  /\ phase \in {"sched", "ctrl", "canceled", "drain"}
  /\ ~stopExpired
  /\ stopExpired' = TRUE
  /\ UNCHANGED <<repoVars, controllerVars, schedVars, phase, cpc, creq>>

StopStep == StopScheduler \/ StopCancel \/ StopWorkers \/ StopClose

=============================================================================
