--------------------- MODULE WorkspaceLifecycle_proofs ----------------------
(***************************************************************************)
(* Theorems about the workspace manager for any number of workspaces,      *)
(* workers and callers, one part for each: types and indexes, and the      *)
(* refinement of the status machine; the exclusion of installs and         *)
(* Deletes; the copies of a row that a worker and a probe hold while they  *)
(* are at work; the owner of a workspace in init; Stop; directories.       *)
(***************************************************************************)
EXTENDS WorkspaceLifecycle, TLAPS

(***************************************************************************)
(* What the repository calls do to the two maps.                           *)
(***************************************************************************)

(* A row with a new status is a row, with the same alias and directory.    *)
LEMMA WithStatusFacts ==
  ASSUME NEW row \in Rows, NEW next \in Statuses, NEW code \in Codes
  PROVE  /\ WithStatus(row, next, code) \in Rows
         /\ WithStatus(row, next, code).status = next
         /\ WithStatus(row, next, code).alias = row.alias
         /\ WithStatus(row, next, code).dir = row.dir
  BY DEF WithStatus, Rows, Codes

(* UpdateStatusCAS keeps the types and touches only byID.                  *)
LEMMA CASFacts ==
  ASSUME NEW w \in WorkspaceIds, NEW writer, NEW expect,
         NEW next \in Statuses, NEW code \in Codes,
         RepoTypeOK, UpdateStatusCAS(w, writer, expect, next, code)
  PROVE  RepoTypeOK'
  <1>1. CASE CASOK(w, writer, expect, next)
    <2>1. byID[w] \in Rows
      BY <1>1 DEF RepoTypeOK, CASOK, GetOK, Exists
    <2>2. WithStatus(byID[w], next, code) \in Rows
      BY <2>1, WithStatusFacts
    <2> QED BY <1>1, <2>2 DEF RepoTypeOK, UpdateStatusCAS
  <1>2. CASE ~CASOK(w, writer, expect, next)
    BY <1>2 DEF RepoTypeOK, UpdateStatusCAS
  <1> QED BY <1>1, <1>2

(* Update writes one whole row.                                            *)
LEMMA UpdateFacts ==
  ASSUME NEW w \in WorkspaceIds, NEW row \in Rows, RepoTypeOK, Update(w, row)
  PROVE  RepoTypeOK'
  BY DEF RepoTypeOK, Update

(* Insert adds a row and its alias.                                        *)
LEMMA InsertFacts ==
  ASSUME NEW w \in WorkspaceIds, NEW row \in Rows, RepoTypeOK, Insert(w, row)
  PROVE  RepoTypeOK'
  BY DEF RepoTypeOK, Insert, Rows

(* Delete removes a row and its alias.                                     *)
LEMMA DeleteFacts ==
  ASSUME NEW w \in WorkspaceIds, RepoTypeOK, Delete(w)
  PROVE  RepoTypeOK'
  BY NoRowAssumption DEF RepoTypeOK, Delete, GetOK, Exists, Rows

(***************************************************************************)
(* Type correctness.  The locals of a goroutine are reset to NoJob, NoRow  *)
(* or NoId between calls, so the types alone are not inductive: a step     *)
(* that reads a local needs LocalsDefined.                                 *)
(***************************************************************************)
TypeInv == TypeOK /\ LocalsDefined

(* A worker that runs has a job; its failure codes are codes.              *)
LEMMA JobFacts ==
  ASSUME TypeInv, NEW k \in Workers, wpc[k] \notin {"idle", "exit"}
  PROVE  /\ wjob[k] \in Jobs
         /\ wjob[k].id \in WorkspaceIds
         /\ wcode[k] \in Codes
         /\ \A code \in Codes : ClassifyFailure(k, code) \in Codes
  BY DEF TypeInv, TypeOK, ControllerTypeOK, LocalsDefined, Jobs, ClassifyFailure, Codes

(* The host keeps its type under every InfraOps call.                      *)
LEMMA InfraFacts ==
  ASSUME InfraTypeOK, NEW w \in WorkspaceIds, NEW p, NEW part \in Parts, NEW handle, NEW dir
  PROVE  /\ InitDir(w, p) => InfraTypeOK'
         /\ PutFiles(w, p, part) => InfraTypeOK'
         /\ ClearDir(handle, dir) => InfraTypeOK'
         /\ ClearFails(handle, dir) => InfraTypeOK'
         /\ UNCHANGED fs => InfraTypeOK'
  BY DEF InfraTypeOK, InitDir, PutFiles, ClearDir, ClearFails, RootsOnly, Parts

(* The steps of an install worker.                                         *)
LEMMA WorkerTypes ==
  ASSUME TypeInv, NEW k \in Workers,
         Dequeue(k) \/ WorkerExit(k) \/ WorkerStep(k) \/ ExpireInstall(k)
  PROVE  TypeInv'
  <1> USE DEF TypeInv, TypeOK, repoVars, otherVars, queueVars, workerVars, deleteVars,
              schedVars, facadeVars, ControllerTypeOK,
              SchedulerTypeOK, FacadeTypeOK, LocalsDefined, Goto, GiveUp, WorkerPoints
  <1>1. CASE Dequeue(k)
    BY <1>1 DEF Dequeue, RepoTypeOK, InfraTypeOK
  <1>2. CASE WorkerExit(k)
    BY <1>2 DEF WorkerExit, RepoTypeOK, InfraTypeOK
  <1>0. CASE StartInstall(k)
    <2>1. wcode' \in [Workers -> Codes]
      BY <1>0 DEF StartInstall, Codes
    <2>2. CASE wctx[k] = "canceled"
      BY <1>0, <2>1, <2>2, JobFacts DEF StartInstall, RepoTypeOK, InfraTypeOK
    <2>3. CASE wctx[k] # "canceled"
      BY <1>0, <2>1, <2>3, JobFacts DEF StartInstall, RepoTypeOK, InfraTypeOK
    <2> QED BY <2>2, <2>3
  <1>3. CASE RunInit(k)
    <2>1. InfraTypeOK'
      BY <1>3, JobFacts, InfraFacts DEF RunInit, Parts
    <2>2. wcode' \in [Workers -> Codes]
      BY <1>3, JobFacts DEF RunInit, Codes
    <2> QED BY <1>3, <2>1, <2>2, JobFacts DEF RunInit, RepoTypeOK
  <1>4. ASSUME NEW from \in {"attach", "install"}, NEW part \in Parts,
               NEW to \in {"install", "probe"}, WritePhase(k, from, part, to)
        PROVE  TypeInv'
    <2>1. InfraTypeOK'
      BY <1>4, JobFacts, InfraFacts DEF WritePhase
    <2>2. wcode' \in [Workers -> Codes]
      BY <1>4, JobFacts DEF WritePhase, Codes
    <2> QED BY <1>4, <2>1, <2>2, JobFacts DEF WritePhase, RepoTypeOK
  <1>5. CASE AttachPlugins(k) \/ InstallAgent(k)
    BY <1>4, <1>5 DEF AttachPlugins, InstallAgent, Parts
  <1>6. CASE ConfirmProbe(k)
    <2>1. wcode' \in [Workers -> Codes]
      BY <1>6, JobFacts DEF ConfirmProbe, Codes
    <2>2. installed' \subseteq WorkspaceIds
      BY <1>6, JobFacts DEF ConfirmProbe
    <2>3. \E point \in {"reload", "fail"} : Goto(k, point)
      BY <1>6 DEF ConfirmProbe
    <2>4. UNCHANGED <<repoVars, fs, aged, queueVars, wjob, wctx, wlatest, deleteVars, otherVars>>
      BY <1>6 DEF ConfirmProbe
    <2>5. wpc[k] = "probe"
      BY <1>6 DEF ConfirmProbe
    <2> QED BY <2>1, <2>2, <2>3, <2>4, <2>5, JobFacts DEF RepoTypeOK, InfraTypeOK
  <1>7. CASE Reload(k)
    <2>1. wcode' \in [Workers -> Codes]
      BY <1>7 DEF Reload, Codes
    <2>2. /\ wpc[k] = "reload" /\ wjob[k] \in Jobs
          /\ UNCHANGED <<repoVars, fs, aged, queueVars, wjob, wctx, installed, deleteVars, otherVars>>
      BY <1>7, JobFacts DEF Reload
    <2>3. CASE wlatest' = wlatest /\ \E point \in {"fail", "finish", "cleanup"} : Goto(k, point)
      BY <2>1, <2>2, <2>3 DEF RepoTypeOK, InfraTypeOK
    <2>4. CASE /\ byID[wjob[k].id] \in Rows
               /\ wlatest' = [wlatest EXCEPT ![k] = byID[wjob[k].id]]
               /\ Goto(k, "persist")
      BY <2>1, <2>2, <2>4 DEF RepoTypeOK, InfraTypeOK
    <2>5. GetOK(wjob[k].id) => byID[wjob[k].id] \in Rows
      BY <1>7, JobFacts DEF Reload, GetOK, Exists, RepoTypeOK
    <2> QED BY <1>7, <2>3, <2>4, <2>5 DEF Reload
  <1>8. CASE PersistPlugins(k)
    <2> DEFINE row == [wlatest[k] EXCEPT !.placed = TRUE]
    <2>1. row \in Rows
      <3>1. wlatest[k] \in Rows
        BY <1>8 DEF PersistPlugins
      <3> QED BY <3>1 DEF Rows
    <2>2. RepoTypeOK'
      BY <1>8, <2>1, JobFacts, UpdateFacts DEF PersistPlugins
    <2>3. wcode' \in [Workers -> Codes]
      BY <1>8 DEF PersistPlugins, Codes
    <2> QED BY <1>8, <2>2, <2>3, JobFacts DEF PersistPlugins, InfraTypeOK
  <1>9. CASE CommitHealthy(k)
    <2>1. RepoTypeOK'
      BY <1>9, JobFacts, CASFacts DEF CommitHealthy, Statuses, Codes
    <2>2. wcode' \in [Workers -> Codes]
      BY <1>9 DEF CommitHealthy, Codes
    <2> QED BY <1>9, <2>1, <2>2, JobFacts DEF CommitHealthy, InfraTypeOK
  <1>10. CASE TransitionToFailed(k)
    <2>1. RepoTypeOK'
      BY <1>10, JobFacts, CASFacts DEF TransitionToFailed, Statuses
    <2> QED BY <1>10, <2>1, JobFacts DEF TransitionToFailed, InfraTypeOK
  <1>11. CASE CleanupStale(k)
    <2>1. InfraTypeOK'
      <3>1. ClearDir({wjob[k].id}, wjob[k].dir) \/ UNCHANGED fs
              \/ ClearFails({wjob[k].id}, wjob[k].dir)
        BY <1>11 DEF CleanupStale
      <3> QED BY <3>1 DEF InfraTypeOK, ClearDir, ClearFails, RootsOnly
    <2> QED BY <1>11, <2>1, JobFacts DEF CleanupStale, RepoTypeOK
  <1>12. CASE FinishInstall(k)
    BY <1>12 DEF FinishInstall, RepoTypeOK, InfraTypeOK, Codes
  <1>13. CASE ExpireInstall(k)
    BY <1>13 DEF ExpireInstall, RepoTypeOK, InfraTypeOK
  <1> QED BY <1>0, <1>1, <1>2, <1>3, <1>5, <1>6, <1>7, <1>8, <1>9, <1>10, <1>11, <1>12, <1>13
          DEF WorkerStep

(* The steps of a Delete call, and the clock.                              *)
LEMMA DeleteTypes ==
  ASSUME TypeInv, NEW d \in Deleters,
         DeleteStep(d) \/ DeleteAbandon(d) \/ \E w \in WorkspaceIds : DeleteCall(d, w)
  PROVE  TypeInv'
  <1> USE DEF TypeInv, TypeOK, repoVars, otherVars, queueVars, workerVars,
              schedVars, facadeVars, ControllerTypeOK, SchedulerTypeOK, FacadeTypeOK,
              LocalsDefined, DeleteGoto, DeleteReturn, DeletePoints
  <1>0. ASSUME NEW w \in WorkspaceIds, DeleteCall(d, w)
        PROVE  TypeInv'
    <2>1. CASE stopped
      BY <1>0, <2>1 DEF DeleteCall, DeleteBegin, RepoTypeOK, InfraTypeOK
    <2>2. CASE ~stopped
      BY <1>0, <2>2 DEF DeleteCall, DeleteBegin, RepoTypeOK, InfraTypeOK
    <2> QED BY <2>1, <2>2
  <1>1. CASE DeleteTake(d)
    <2>1. wctx' \in [Workers -> {"live", "canceled", "expired"}]
      BY <1>1 DEF DeleteTake
    <2>2. queue' \subseteq Jobs
      BY <1>1 DEF DeleteTake
    <2> QED BY <1>1, <2>1, <2>2 DEF DeleteTake, RepoTypeOK, InfraTypeOK
  <1>2. CASE DeleteWaitIdle(d)
    BY <1>2 DEF DeleteWaitIdle, RepoTypeOK, InfraTypeOK
  <1>3. CASE DeleteAbandon(d)
    BY <1>3 DEF DeleteAbandon, RepoTypeOK, InfraTypeOK
  <1>4. CASE DeleteGet(d)
    <2>1. GetOK(dtarget[d]) => byID[dtarget[d]] \in Rows
      BY <1>4 DEF DeleteGet, GetOK, Exists, RepoTypeOK
    <2>2. CASE GetOK(dtarget[d])
      BY <1>4, <2>1, <2>2 DEF DeleteGet, RepoTypeOK, InfraTypeOK
    <2>3. CASE ~GetOK(dtarget[d])
      BY <1>4, <2>3 DEF DeleteGet, RepoTypeOK, InfraTypeOK
    <2> QED BY <2>2, <2>3
  <1>5. CASE DeleteOpen(d)
    <2>1. dhandle' \in [Deleters -> SUBSET WorkspaceIds]
      <3>1. RootsAt(LocalPath[drow[d].dir]) \in SUBSET WorkspaceIds
        BY DEF RootsAt
      <3> QED BY <1>5, <3>1 DEF DeleteOpen
    <2> QED BY <1>5, <2>1 DEF DeleteOpen, RepoTypeOK, InfraTypeOK
  <1>6. CASE DeleteClear(d)
    <2>1. InfraTypeOK'
      BY <1>6 DEF DeleteClear, InfraTypeOK, ClearDir, ClearFails, RootsOnly
    <2> QED BY <1>6, <2>1 DEF DeleteClear, RepoTypeOK
  <1>7. CASE DeleteRemove(d)
    <2>1. RepoTypeOK'
      BY <1>7, DeleteFacts DEF DeleteRemove
    <2> QED BY <1>7, <2>1 DEF DeleteRemove, InfraTypeOK
  <1> QED BY <1>0, <1>1, <1>2, <1>3, <1>4, <1>5, <1>6, <1>7 DEF DeleteStep

(* The steps of a scheduler tick.                                          *)
LEMMA SchedulerTypes ==
  ASSUME TypeInv, SchedulerNext
  PROVE  TypeInv'
  <1> USE DEF TypeInv, TypeOK, repoVars, controllerVars, queueVars, workerVars, deleteVars,
              facadeVars, ControllerTypeOK, SchedulerTypeOK, FacadeTypeOK, LocalsDefined,
              ProbeDone
  <1>1. CASE Tick
    <2>1. \A w \in WorkspaceIds : ppc'[w] # "none" => byID[w] \in Rows
      BY <1>1 DEF Tick, HasStatus, Exists, RepoTypeOK
    <2>2. ppc' \in [WorkspaceIds -> {"none", "todo"}]
      BY <1>1 DEF Tick
    <2> QED BY <1>1, <2>1, <2>2 DEF Tick, RepoTypeOK, InfraTypeOK
  <1>2. ASSUME NEW w \in WorkspaceIds, ProbeStep(w)
        PROVE  TypeInv'
    <2>1. CASE FailTimedOut(w)
      <3>1. RepoTypeOK'
        BY <2>1, CASFacts DEF FailTimedOut, Statuses, Codes
      <3> QED BY <2>1, <3>1 DEF FailTimedOut, InfraTypeOK
    <2>2. CASE ProbeOne(w)
      BY <2>2 DEF ProbeOne, RepoTypeOK, InfraTypeOK
    <2>3. CASE ProbeCanceled(w)
      BY <2>3 DEF ProbeCanceled, RepoTypeOK, InfraTypeOK
    <2>4. CASE RecordChange(w)
      <3>1. pout[w] \in Statuses /\ ProbeCode(w) \in Codes
        BY DEF Statuses, Codes, ProbeCode
      <3>2. RepoTypeOK'
        BY <2>4, <3>1, CASFacts DEF RecordChange
      <3> QED BY <2>4, <3>2 DEF RecordChange, InfraTypeOK
    <2>5. CASE RecordReload(w)
      <3>1. GetOK(w) => byID[w] \in Rows
        BY DEF GetOK, Exists, RepoTypeOK
      <3> QED BY <2>5, <3>1 DEF RecordReload, RepoTypeOK, InfraTypeOK
    <2>6. CASE RecordWrite(w)
      <3>1. platest[w] \in Rows /\ ProbeCode(w) \in Codes
        BY <2>6 DEF RecordWrite, ProbeCode, Codes
      <3>2. [platest[w] EXCEPT !.code = ProbeCode(w)] \in Rows
        BY <3>1 DEF Rows
      <3>3. RepoTypeOK'
        BY <2>6, <3>2, UpdateFacts DEF RecordWrite
      <3> QED BY <2>6, <3>3 DEF RecordWrite, InfraTypeOK
    <2> QED BY <1>2, <2>1, <2>2, <2>3, <2>4, <2>5, <2>6 DEF ProbeStep
  <1>3. CASE TickDone
    BY <1>3 DEF TickDone, RepoTypeOK, InfraTypeOK
  <1>4. CASE SchedulerExit
    BY <1>4 DEF SchedulerExit, RepoTypeOK, InfraTypeOK
  <1> QED BY <1>1, <1>2, <1>3, <1>4 DEF SchedulerNext

(* The steps of CreateWorkspace.                                           *)
LEMMA CreateTypes ==
  ASSUME TypeInv, NEW w \in WorkspaceIds,
         \/ CreateStep(w)
         \/ \E alias \in AliasKeys, dir \in DirOptions : CreateCheck(w, alias, dir)
  PROVE  TypeInv'
  <1> USE DEF TypeInv, TypeOK, controllerVars, queueVars, workerVars, deleteVars,
              schedVars, ControllerTypeOK, SchedulerTypeOK, FacadeTypeOK, LocalsDefined,
              CreateReturns
  <1>1. ASSUME NEW alias \in AliasKeys, NEW dir \in DirOptions, CreateCheck(w, alias, dir)
        PROVE  TypeInv'
    <2>1. NewRow(alias, dir) \in Rows
      BY DEF NewRow, Rows, Statuses, Codes
    <2> QED BY <1>1, <2>1 DEF CreateCheck, repoVars, RepoTypeOK, InfraTypeOK
  <1>2. CASE CreateInsert(w)
    <2>1. RepoTypeOK'
      BY <1>2, InsertFacts DEF CreateInsert
    <2> QED BY <1>2, <2>1 DEF CreateInsert, InfraTypeOK
  <1>3. CASE CreateSubmit(w)
    <2>1. CASE SubmitOK
      <3>1. creq[w].dir \in DirOptions
        BY <1>3 DEF CreateSubmit, Rows
      <3>2. queue' \subseteq Jobs /\ tickets' \in Nat
        BY <1>3, <2>1, <3>1 DEF CreateSubmit, Enqueue, Jobs
      <3> QED BY <1>3, <2>1, <3>2 DEF CreateSubmit, Enqueue, repoVars, RepoTypeOK, InfraTypeOK
    <2>2. CASE ~SubmitOK
      BY <1>3, <2>2 DEF CreateSubmit, repoVars, RepoTypeOK, InfraTypeOK
    <2> QED BY <2>1, <2>2
  <1>4. CASE CreateUndo(w)
    <2>1. RepoTypeOK'
      BY <1>4, DeleteFacts DEF CreateUndo
    <2> QED BY <1>4, <2>1 DEF CreateUndo, InfraTypeOK
  <1> QED BY <1>1, <1>2, <1>3, <1>4 DEF CreateStep

(* The steps of Start and Stop.                                            *)
LEMMA StopTypes ==
  ASSUME TypeInv, Start \/ StopBegin \/ StopStep \/ StopExpire
  PROVE  TypeInv'
  <1> USE DEF TypeInv, TypeOK, repoVars, controllerVars, queueVars, workerVars, deleteVars,
              schedVars, RepoTypeOK, InfraTypeOK, ControllerTypeOK, SchedulerTypeOK,
              FacadeTypeOK, LocalsDefined, Phases
  <1>1. CASE Start
    BY <1>1 DEF Start
  <1>2. CASE StopBegin
    BY <1>2 DEF StopBegin
  <1>3. CASE StopScheduler
    BY <1>3 DEF StopScheduler
  <1>4. CASE StopCancel
    <2>1. wctx' \in [Workers -> {"live", "canceled", "expired"}]
      BY <1>4 DEF StopCancel
    <2> QED BY <1>4, <2>1 DEF StopCancel
  <1>5. CASE StopWorkers
    BY <1>5 DEF StopWorkers
  <1>6. CASE StopClose
    BY <1>6 DEF StopClose, Close
  <1>7. CASE StopExpire
    BY <1>7 DEF StopExpire
  <1> QED BY <1>1, <1>2, <1>3, <1>4, <1>5, <1>6, <1>7 DEF StopStep

(* The initial state has every local empty.                                *)
LEMMA InitTypes == Init => TypeInv
  <1> SUFFICES ASSUME Init PROVE TypeInv
    OBVIOUS
  <1> USE DEF Init
  <1>1. RepoTypeOK
    BY DEF RepoInit, RepoTypeOK
  <1>2. InfraTypeOK
    BY DEF InfraInit, InfraTypeOK
  <1>3. ControllerTypeOK
    BY DEF ControllerInit, ControllerTypeOK, WorkerPoints, DeletePoints, Codes
  <1>4. SchedulerTypeOK
    BY DEF SchedulerInit, SchedulerTypeOK
  <1>5. FacadeTypeOK
    BY DEF FacadeInit, FacadeTypeOK, Phases
  <1>6. LocalsDefined
    BY DEF ControllerInit, SchedulerInit, FacadeInit, LocalsDefined
  <1> QED BY <1>1, <1>2, <1>3, <1>4, <1>5, <1>6 DEF TypeInv, TypeOK

(* Every step keeps the types.                                             *)
LEMMA StepTypes == TypeInv /\ [Next]_vars => TypeInv'
  <1> SUFFICES ASSUME TypeInv, [Next]_vars PROVE TypeInv'
    OBVIOUS
  <1>1. CASE ControllerNext
    <2>1. ASSUME NEW w \in WorkspaceIds, Age(w) PROVE TypeInv'
      BY <2>1 DEF Age, TypeInv, TypeOK, repoVars, queueVars, workerVars, deleteVars,
                  otherVars, schedVars, facadeVars, RepoTypeOK, InfraTypeOK,
                  ControllerTypeOK, SchedulerTypeOK, FacadeTypeOK, LocalsDefined
    <2> QED BY <1>1, <2>1, WorkerTypes, DeleteTypes DEF ControllerNext
  <1>2. CASE SchedulerNext
    BY <1>2, SchedulerTypes
  <1>3. CASE FacadeNext
    BY <1>3, CreateTypes, DeleteTypes, StopTypes DEF FacadeNext
  <1>4. CASE UNCHANGED vars
    BY <1>4 DEF vars, TypeInv, TypeOK, repoVars, controllerVars, queueVars, workerVars,
                deleteVars, schedVars, facadeVars, RepoTypeOK, InfraTypeOK,
                ControllerTypeOK, SchedulerTypeOK, FacadeTypeOK, LocalsDefined
  <1> QED BY <1>1, <1>2, <1>3, <1>4 DEF Next, Terminated

(* TypeOK, and with it the absence of an unset local where the code would  *)
(* dereference one, for any number of workspaces, workers and callers.     *)
THEOREM TypeCorrect == Spec => [](TypeOK /\ LocalsDefined)
  <1>1. Spec => []TypeInv
    BY InitTypes, StepTypes, PTL DEF Spec
  <1>2. TypeInv => TypeOK /\ LocalsDefined
    BY DEF TypeInv
  <1> QED BY <1>1, <1>2, PTL

(***************************************************************************)
(* Who writes the repository.                                              *)
(***************************************************************************)

(* What the workers, the scheduler and Delete may do to the row of w.      *)
RowWrite(w) ==
  \/ \E row \in Rows : Update(w, row)
  \/ \E writer \in {"controller", "scheduler"}, expect, next \in Statuses, code \in Codes :
       UpdateStatusCAS(w, writer, expect, next, code)
  \/ Delete(w)

(* Outside CreateWorkspace the repository is only written row by row.      *)
LEMMA RepoSteps ==
  ASSUME TypeInv, [Next]_vars
  PROVE  \/ UNCHANGED <<byID, idByAliasKey, cpc, creq>>
         \/ \E w \in WorkspaceIds : RowWrite(w) /\ UNCHANGED <<cpc, creq>>
         \/ \E w \in WorkspaceIds : CreateStep(w)
         \/ \E w \in WorkspaceIds, alias \in AliasKeys, dir \in DirOptions :
              CreateCheck(w, alias, dir)
  <1> DEFINE Quiet == UNCHANGED <<byID, idByAliasKey, cpc, creq>>
             Written == \E w \in WorkspaceIds : RowWrite(w) /\ UNCHANGED <<cpc, creq>>
  <1> USE DEF repoVars, otherVars, schedVars, facadeVars, controllerVars
  <1>1. ASSUME NEW k \in Workers, WorkerStep(k)
        PROVE  Quiet \/ Written
    <2>1. CASE PersistPlugins(k)
      <3>1. wlatest[k] \in Rows /\ wjob[k].id \in WorkspaceIds
        BY <2>1, JobFacts DEF PersistPlugins, TypeInv, LocalsDefined
      <3>2. [wlatest[k] EXCEPT !.placed = TRUE] \in Rows
        BY <3>1 DEF Rows
      <3> QED BY <2>1, <3>1, <3>2 DEF PersistPlugins, RowWrite
    <2>2. CASE CommitHealthy(k)
      BY <2>2, JobFacts DEF CommitHealthy, RowWrite, Statuses, Codes
    <2>3. CASE TransitionToFailed(k)
      BY <2>3, JobFacts DEF TransitionToFailed, RowWrite, Statuses
    <2> QED BY <1>1, <2>1, <2>2, <2>3
            DEF WorkerStep, StartInstall, RunInit, AttachPlugins, InstallAgent, WritePhase, ConfirmProbe,
                Reload, CleanupStale, FinishInstall
  <1>2. ASSUME NEW k \in Workers, Dequeue(k) \/ WorkerExit(k) \/ ExpireInstall(k)
        PROVE  Quiet
    BY <1>2 DEF Dequeue, WorkerExit, ExpireInstall
  <1>3. ASSUME NEW w \in WorkspaceIds, Age(w)
        PROVE  Quiet
    BY <1>3 DEF Age
  <1>4. ASSUME NEW d \in Deleters,
               DeleteStep(d) \/ DeleteAbandon(d) \/ \E w \in WorkspaceIds : DeleteCall(d, w)
        PROVE  Quiet \/ Written
    <2>1. CASE DeleteRemove(d)
      BY <2>1 DEF DeleteRemove, RowWrite, TypeInv, LocalsDefined
    <2> QED BY <1>4, <2>1 DEF DeleteStep, DeleteTake, DeleteWaitIdle, DeleteGet, DeleteOpen, DeleteClear,
                              DeleteAbandon, DeleteCall, DeleteBegin
  <1>5. ASSUME NEW w \in WorkspaceIds, ProbeStep(w)
        PROVE  Quiet \/ Written
    <2>1. CASE FailTimedOut(w)
      BY <2>1 DEF FailTimedOut, RowWrite, Statuses, Codes
    <2>2. CASE RecordChange(w)
      <3>1. /\ pout[w] \in Statuses /\ ProbeCode(w) \in Codes
            /\ snap[w] \in Rows
        BY <2>2 DEF RecordChange, TypeInv, TypeOK, SchedulerTypeOK, LocalsDefined, Statuses,
                    Codes, ProbeCode
      <3>2. snap[w].status \in Statuses
        BY <3>1 DEF Rows
      <3> QED BY <2>2, <3>1, <3>2 DEF RecordChange, RowWrite
    <2>3. CASE RecordWrite(w)
      <3>1. platest[w] \in Rows /\ ProbeCode(w) \in Codes
        BY <2>3 DEF RecordWrite, TypeInv, LocalsDefined, ProbeCode, Codes
      <3>2. [platest[w] EXCEPT !.code = ProbeCode(w)] \in Rows
        BY <3>1 DEF Rows
      <3> QED BY <2>3, <3>2 DEF RecordWrite, RowWrite
    <2> QED BY <1>5, <2>1, <2>2, <2>3
            DEF ProbeStep, ProbeOne, ProbeCanceled, RecordReload
  <1>6. CASE Tick \/ TickDone \/ SchedulerExit
    BY <1>6 DEF Tick, TickDone, SchedulerExit
  <1>7. CASE Start \/ StopBegin \/ StopStep \/ StopExpire
    BY <1>7 DEF Start, StopBegin, StopStep, StopScheduler, StopCancel, StopWorkers,
                StopClose, Close, StopExpire
  <1>8. CASE UNCHANGED vars
    BY <1>8 DEF vars
  <1> QED BY <1>1, <1>2, <1>3, <1>4, <1>5, <1>6, <1>7, <1>8
          DEF Next, ControllerNext, SchedulerNext, FacadeNext, Terminated

(* Each repository call keeps the alias index in step with the rows.       *)
LEMMA RepoKeepsIndex ==
  ASSUME RepoTypeOK, AliasIndexConsistent, NEW w \in WorkspaceIds,
         RowWrite(w) \/ \E row \in Rows : Insert(w, row)
  PROVE  AliasIndexConsistent'
  <1> USE NoRowAssumption, NoIdAssumption DEF RepoTypeOK, AliasIndexConsistent, Exists
  <1>1. ASSUME NEW row \in Rows, Update(w, row) PROVE AliasIndexConsistent'
    BY <1>1 DEF Update, UpdateOK, GetOK
  <1>2. ASSUME NEW writer, NEW expect, NEW next \in Statuses, NEW code \in Codes,
               UpdateStatusCAS(w, writer, expect, next, code)
        PROVE  AliasIndexConsistent'
    <2>1. CASE CASOK(w, writer, expect, next)
      <3>1. byID[w] \in Rows
        BY <2>1 DEF CASOK, GetOK
      <3>2. /\ WithStatus(byID[w], next, code) \in Rows
            /\ WithStatus(byID[w], next, code).alias = byID[w].alias
        BY <3>1, WithStatusFacts
      <3> QED BY <1>2, <2>1, <3>1, <3>2 DEF UpdateStatusCAS
    <2>2. CASE ~CASOK(w, writer, expect, next)
      BY <1>2, <2>2 DEF UpdateStatusCAS
    <2> QED BY <2>1, <2>2
  <1>3. CASE Delete(w)
    BY <1>3 DEF Delete, GetOK, Rows
  <1>4. ASSUME NEW row \in Rows, Insert(w, row) PROVE AliasIndexConsistent'
    BY <1>4 DEF Insert, InsertOK, Rows
  <1> QED BY <1>1, <1>2, <1>3, <1>4 DEF RowWrite

(* GetByAlias and Get never disagree: under every interleaving of the      *)
(* facade, the workers and the scheduler idByAliasKey is the inverse of    *)
(* the rows' aliases.                                                      *)
THEOREM AliasIndexCorrect == Spec => []AliasIndexConsistent
  <1>1. Init => AliasIndexConsistent
    BY DEF Init, RepoInit, AliasIndexConsistent, Exists
  <1>2. TypeInv /\ AliasIndexConsistent /\ [Next]_vars => AliasIndexConsistent'
    <2> SUFFICES ASSUME TypeInv, AliasIndexConsistent, [Next]_vars
                 PROVE  AliasIndexConsistent'
      OBVIOUS
    <2> USE DEF TypeInv, TypeOK
    <2>1. CASE UNCHANGED <<byID, idByAliasKey>>
      BY <2>1 DEF AliasIndexConsistent, Exists
    <2>2. ASSUME NEW w \in WorkspaceIds, RowWrite(w) PROVE AliasIndexConsistent'
      BY <2>2, RepoKeepsIndex
    <2>3. ASSUME NEW w \in WorkspaceIds, CreateStep(w) PROVE AliasIndexConsistent'
      <3>1. CASE CreateInsert(w)
        BY <3>1, RepoKeepsIndex DEF CreateInsert, LocalsDefined
      <3>2. CASE CreateSubmit(w)
        BY <3>2, <2>1 DEF CreateSubmit, repoVars
      <3>3. CASE CreateUndo(w)
        BY <3>3, RepoKeepsIndex DEF CreateUndo, RowWrite
      <3> QED BY <2>3, <3>1, <3>2, <3>3 DEF CreateStep
    <2>4. ASSUME NEW w \in WorkspaceIds, NEW alias \in AliasKeys, NEW dir \in DirOptions,
                 CreateCheck(w, alias, dir)
          PROVE  AliasIndexConsistent'
      BY <2>4, <2>1 DEF CreateCheck, repoVars
    <2> QED BY <2>1, <2>2, <2>3, <2>4, RepoSteps
  <1>3. Spec => []TypeInv
    BY TypeCorrect, PTL DEF TypeInv
  <1> QED BY <1>1, <1>2, <1>3, PTL DEF Spec

(***************************************************************************)
(* The status column implements the abstract state machine.                *)
(***************************************************************************)

(* A row appears only after its Create has passed its checks, so an id     *)
(* without a row is unused or used up, never both in turn; and it appears  *)
(* in init.                                                                *)
RowsAreCreated ==
  /\ \A w \in WorkspaceIds : Exists(w) => cpc[w] \in {"inserted", "undo", "done"}
  /\ \A w \in WorkspaceIds : cpc[w] = "checked" => creq[w].status = "init"

(* What may happen to an existing row: nothing, removal, a rewrite under   *)
(* the same status, or an edge of the state machine.                       *)
LegalRowStep(w) ==
  /\ \A v \in WorkspaceIds \ {w} : byID'[v] = byID[v]
  /\ \/ byID'[w] = byID[w]
     \/ Exists(w) /\ ~Exists(w)'
     \/ Exists(w) /\ Exists(w)' /\ byID'[w].status = byID[w].status
     \/ Exists(w) /\ Exists(w)' /\ byID[w].status = "init" /\ byID'[w].status = "healthy"
     \/ Exists(w) /\ Exists(w)' /\ byID[w].status = "init" /\ byID'[w].status = "failed"
     \/ Exists(w) /\ Exists(w)' /\ byID[w].status = "healthy" /\ byID'[w].status = "failed"
     \/ Exists(w) /\ Exists(w)' /\ byID[w].status = "failed" /\ byID'[w].status = "healthy"

(* Update refuses another status, the compare-and-swap another edge.       *)
LEMMA RowWriteMoves ==
  ASSUME RepoTypeOK, NEW w \in WorkspaceIds, RowWrite(w)
  PROVE  LegalRowStep(w)
  <1> USE NoRowAssumption DEF RepoTypeOK, Exists, GetOK, LegalRowStep
  <1>1. ASSUME NEW row \in Rows, Update(w, row) PROVE LegalRowStep(w)
    BY <1>1 DEF Update, UpdateOK
  <1>2. ASSUME NEW writer, NEW expect \in Statuses, NEW next \in Statuses, NEW code \in Codes,
               UpdateStatusCAS(w, writer, expect, next, code)
        PROVE  LegalRowStep(w)
    <2>1. CASE CASOK(w, writer, expect, next)
      <3> DEFINE row == WithStatus(byID[w], next, code)
      <3>1. byID[w] \in Rows
        BY <2>1 DEF CASOK
      <3>2. row \in Rows /\ row.status = next
        BY <3>1, WithStatusFacts
      <3>3. byID[w].status = expect /\ TransitionByWriter(writer, expect, next)
        BY <2>1 DEF CASOK
      <3>4. byID' = [byID EXCEPT ![w] = row]
        BY <1>2, <2>1 DEF UpdateStatusCAS
      <3> HIDE DEF row
      <3>5. byID[w] # NoRow /\ byID'[w] = row /\ row # NoRow
        BY <3>1, <3>2, <3>4
      <3>6. \A v \in WorkspaceIds \ {w} : byID'[v] = byID[v]
        BY <3>4
      <3> QED BY <3>2, <3>3, <3>5, <3>6 DEF TransitionByWriter
    <2>2. CASE ~CASOK(w, writer, expect, next)
      BY <1>2, <2>2 DEF UpdateStatusCAS
    <2> QED BY <2>1, <2>2
  <1>3. CASE Delete(w)
    BY <1>3 DEF Delete
  <1> QED BY <1>1, <1>2, <1>3 DEF RowWrite

(* RowsAreCreated is an invariant.                                         *)
LEMMA RowsCreated == Spec => []RowsAreCreated
  <1>1. Init => RowsAreCreated
    BY DEF Init, RepoInit, FacadeInit, RowsAreCreated, Exists
  <1>2. TypeInv /\ RowsAreCreated /\ [Next]_vars => RowsAreCreated'
    <2> SUFFICES ASSUME TypeInv, RowsAreCreated, [Next]_vars
                 PROVE  RowsAreCreated'
      OBVIOUS
    <2> USE DEF RowsAreCreated, TypeInv, TypeOK, RepoTypeOK, FacadeTypeOK
    <2>1. CASE UNCHANGED <<byID, idByAliasKey, cpc, creq>>
      BY <2>1 DEF Exists
    <2>2. ASSUME NEW w \in WorkspaceIds, RowWrite(w), UNCHANGED <<cpc, creq>> PROVE RowsAreCreated'
      BY <2>2, RowWriteMoves DEF LegalRowStep, Exists
    <2>3. ASSUME NEW w \in WorkspaceIds, CreateStep(w) PROVE RowsAreCreated'
      <3>1. CASE CreateInsert(w)
        BY <3>1 DEF CreateInsert, Insert, InsertOK, CreateReturns, Exists
      <3>2. CASE CreateSubmit(w)
        BY <3>2 DEF CreateSubmit, CreateReturns, repoVars, Exists
      <3>3. CASE CreateUndo(w)
        BY <3>3 DEF CreateUndo, CreateReturns, Delete, Exists
      <3> QED BY <2>3, <3>1, <3>2, <3>3 DEF CreateStep
    <2>4. ASSUME NEW w \in WorkspaceIds, NEW alias \in AliasKeys, NEW dir \in DirOptions,
                 CreateCheck(w, alias, dir)
          PROVE  RowsAreCreated'
      <3>1. NewRow(alias, dir).status = "init"
        BY DEF NewRow
      <3> QED BY <2>4, <3>1 DEF CreateCheck, CreateReturns, repoVars, Exists
    <2> QED BY <2>1, <2>2, <2>3, <2>4, RepoSteps
  <1>3. Spec => []TypeInv
    BY TypeCorrect, PTL DEF TypeInv
  <1> QED BY <1>1, <1>2, <1>3, PTL DEF Spec

(* One entry of the status column changes.                                 *)
LEMMA ColumnMove ==
  ASSUME NEW w \in WorkspaceIds, NEW from, NEW to,
         StatusOf(w) \in from, StatusOf(w)' = to,
         \A v \in WorkspaceIds \ {w} : StatusOf(v)' = StatusOf(v)
  PROVE  Abstract!Move(w, from, to)
  BY DEF Abstract!Move

(* No entry of the status column changes.                                  *)
LEMMA ColumnStays ==
  ASSUME \A v \in WorkspaceIds : StatusOf(v)' = StatusOf(v)
  PROVE  UNCHANGED [w \in WorkspaceIds |-> StatusOf(w)]
  OBVIOUS

(* The status column of the manager follows the design's state machine for *)
(* any number of workspaces, workers and callers: nobody re-enters init,   *)
(* nobody but a live row is removed and an id is never used again.         *)
THEOREM StatusRefinement == Spec => StatusMachine
  <1> DEFINE column == [w \in WorkspaceIds |-> StatusOf(w)]
  <1>1. Init => Abstract!StatusInit
    BY DEF Init, RepoInit, FacadeInit, Abstract!StatusInit, StatusOf, Exists
  <1>2. TypeInv /\ RowsAreCreated /\ [Next]_vars => [Abstract!StatusNext]_column
    <2> SUFFICES ASSUME TypeInv, RowsAreCreated, [Next]_vars
                 PROVE  Abstract!StatusNext \/ UNCHANGED column
      OBVIOUS
    <2> USE DEF Abstract!StatusNext, TypeInv, TypeOK, RepoTypeOK
    <2>1. CASE UNCHANGED <<byID, cpc>>
      BY <2>1, ColumnStays DEF StatusOf, Exists
    <2>2. ASSUME NEW w \in WorkspaceIds, RowWrite(w), UNCHANGED <<cpc, creq>>
          PROVE  Abstract!StatusNext \/ UNCHANGED column
      <3>1. LegalRowStep(w)
        BY <2>2, RowWriteMoves
      <3>2. \A v \in WorkspaceIds \ {w} : StatusOf(v)' = StatusOf(v)
        BY <2>2, <3>1 DEF LegalRowStep, StatusOf, Exists
      <3>3. CASE byID'[w] = byID[w]
        BY <2>2, <3>2, <3>3, ColumnStays DEF StatusOf, Exists
      <3>4. CASE Exists(w) /\ ~Exists(w)'
        <4>1. byID[w] \in Rows
          BY <3>4 DEF Exists
        <4>2. StatusOf(w) \in Abstract!Live
          BY <3>4, <4>1 DEF StatusOf, Abstract!Live, Rows, Statuses
        <4>3. StatusOf(w)' = "gone"
          BY <2>2, <3>4 DEF StatusOf, RowsAreCreated
        <4> QED BY <3>2, <4>2, <4>3, ColumnMove DEF Abstract!Remove
      <3>5. CASE Exists(w) /\ Exists(w)'
        <4>1. StatusOf(w) = byID[w].status /\ StatusOf(w)' = byID'[w].status
          BY <3>5 DEF StatusOf
        <4>2. CASE byID'[w].status = byID[w].status
          BY <3>2, <4>1, <4>2, ColumnStays
        <4>3. CASE byID'[w].status # byID[w].status
          <5>1. \E from, to \in Statuses :
                  /\ byID[w].status = from /\ byID'[w].status = to
                  /\ \/ from = "init" /\ to \in {"healthy", "failed"}
                     \/ from = "healthy" /\ to = "failed"
                     \/ from = "failed" /\ to = "healthy"
            BY <3>1, <3>5, <4>3 DEF LegalRowStep, Statuses
          <5>2. PICK from, to \in Statuses :
                  /\ StatusOf(w) \in {from} /\ StatusOf(w)' = to
                  /\ \/ from = "init" /\ to \in {"healthy", "failed"}
                     \/ from = "healthy" /\ to = "failed"
                     \/ from = "failed" /\ to = "healthy"
            BY <4>1, <5>1
          <5>3. Abstract!Move(w, {from}, to)
            BY <3>2, <5>2, ColumnMove
          <5> QED BY <5>2, <5>3 DEF Abstract!Resolve, Abstract!Degrade, Abstract!Recover
        <4> QED BY <4>2, <4>3
      <3> QED BY <3>1, <3>3, <3>4, <3>5 DEF LegalRowStep
    <2>3. ASSUME NEW w \in WorkspaceIds, CreateStep(w)
          PROVE  Abstract!StatusNext \/ UNCHANGED column
      <3> USE DEF FacadeTypeOK
      <3>1. CASE CreateInsert(w)
        <4>1. StatusOf(w) = "unused"
          BY <3>1 DEF CreateInsert, StatusOf, RowsAreCreated
        <4>2. \A v \in WorkspaceIds \ {w} : StatusOf(v)' = StatusOf(v)
          BY <3>1 DEF CreateInsert, Insert, InsertOK, CreateReturns, StatusOf, Exists
        <4>3. CASE InsertOK(w, creq[w])
          <5>1. byID'[w] = creq[w] /\ creq[w] \in Rows
            BY <3>1, <4>3 DEF CreateInsert, Insert, LocalsDefined
          <5>2. StatusOf(w)' = "init"
            BY <3>1, <5>1, NoRowAssumption DEF CreateInsert, StatusOf, Exists, RowsAreCreated
          <5> QED BY <4>1, <4>2, <5>2, ColumnMove DEF Abstract!Create
        <4>4. CASE ~InsertOK(w, creq[w])
          <5>1. StatusOf(w)' = "gone"
            BY <3>1, <4>4 DEF CreateInsert, Insert, CreateReturns, StatusOf, Exists, RowsAreCreated
          <5> QED BY <4>1, <4>2, <5>1, ColumnMove DEF Abstract!Refuse
        <4> QED BY <4>3, <4>4
      <3>2. CASE CreateSubmit(w)
        BY <3>2, ColumnStays DEF CreateSubmit, CreateReturns, repoVars, StatusOf, Exists
      <3>3. CASE CreateUndo(w)
        <4>1. \A v \in WorkspaceIds \ {w} : StatusOf(v)' = StatusOf(v)
          BY <3>3 DEF CreateUndo, CreateReturns, Delete, StatusOf, Exists
        <4>2. CASE GetOK(w)
          <5>1. byID[w] \in Rows
            BY <4>2 DEF GetOK, Exists
          <5>2. StatusOf(w) \in Abstract!Live
            BY <4>2, <5>1 DEF GetOK, StatusOf, Abstract!Live, Rows, Statuses
          <5>3. StatusOf(w)' = "gone"
            BY <3>3, <4>2 DEF CreateUndo, CreateReturns, Delete, StatusOf, Exists
          <5> QED BY <4>1, <5>2, <5>3, ColumnMove DEF Abstract!Remove
        <4>3. CASE ~GetOK(w)
          BY <3>3, <4>1, <4>3, ColumnStays
             DEF CreateUndo, CreateReturns, Delete, StatusOf, Exists
        <4> QED BY <4>2, <4>3
      <3> QED BY <2>3, <3>1, <3>2, <3>3 DEF CreateStep
    <2>4. ASSUME NEW w \in WorkspaceIds, NEW alias \in AliasKeys, NEW dir \in DirOptions,
                 CreateCheck(w, alias, dir)
          PROVE  Abstract!StatusNext \/ UNCHANGED column
      <3> USE DEF FacadeTypeOK
      <3>1. \A v \in WorkspaceIds \ {w} : StatusOf(v)' = StatusOf(v)
        BY <2>4 DEF CreateCheck, CreateReturns, repoVars, StatusOf, Exists
      <3>2. StatusOf(w) = "unused" /\ StatusOf(w)' \in {"unused", "gone"}
        BY <2>4 DEF CreateCheck, CreateReturns, repoVars, StatusOf, Exists, RowsAreCreated
      <3>3. CASE StatusOf(w)' = "unused"
        BY <3>1, <3>2, <3>3, ColumnStays
      <3>4. CASE StatusOf(w)' = "gone"
        BY <3>1, <3>2, <3>4, ColumnMove DEF Abstract!Refuse
      <3> QED BY <3>2, <3>3, <3>4
    <2> QED BY <2>1, <2>2, <2>3, <2>4, RepoSteps
  <1>3. Spec => []TypeInv
    BY TypeCorrect, PTL DEF TypeInv
  <1> QED BY <1>1, <1>2, <1>3, RowsCreated, PTL DEF Spec, StatusMachine, Abstract!StatusSafe

(***************************************************************************)
(* Installs exclude each other and Delete excludes installs.               *)
(***************************************************************************)

(* Who changes the set of pending and running installs and the Deletes.    *)
LEMMA InstallSteps ==
  ASSUME TypeInv, [Next]_vars
  PROVE  \/ UNCHANGED <<queue, wjob, cpc, dpc, dtarget>>
         \/ \E d \in Deleters : /\ DeleteStep(d) \/ DeleteAbandon(d)
                               /\ UNCHANGED <<queue, wjob, cpc>>
         \/ \E d \in Deleters : DeleteTake(d)
         \/ \E k \in Workers : Dequeue(k)
         \/ \E k \in Workers : FinishInstall(k)
         \/ \E d \in Deleters, w \in WorkspaceIds : DeleteCall(d, w)
         \/ \E w \in WorkspaceIds : CreateStep(w)
         \/ \E w \in WorkspaceIds, alias \in AliasKeys, dir \in DirOptions :
              CreateCheck(w, alias, dir)
  <1> DEFINE Quiet == UNCHANGED <<queue, wjob, cpc, dpc, dtarget>>
  <1> USE DEF queueVars, workerVars, deleteVars, otherVars, facadeVars, controllerVars
  <1>1. ASSUME NEW k \in Workers, WorkerStep(k), ~FinishInstall(k)
        PROVE  Quiet
    BY <1>1 DEF WorkerStep, StartInstall, RunInit, AttachPlugins, InstallAgent, WritePhase, ConfirmProbe,
                Reload, PersistPlugins, CommitHealthy, TransitionToFailed, CleanupStale
  <1>2. ASSUME NEW k \in Workers, WorkerExit(k) \/ ExpireInstall(k)
        PROVE  Quiet
    BY <1>2 DEF WorkerExit, ExpireInstall
  <1>3. ASSUME NEW w \in WorkspaceIds, Age(w)
        PROVE  Quiet
    BY <1>3 DEF Age
  <1>4. ASSUME NEW d \in Deleters, DeleteStep(d) \/ DeleteAbandon(d), ~DeleteTake(d)
        PROVE  UNCHANGED <<queue, wjob, cpc>>
    BY <1>4 DEF DeleteStep, DeleteWaitIdle, DeleteGet, DeleteOpen, DeleteClear, DeleteRemove,
                DeleteAbandon
  <1>5. CASE SchedulerNext
    BY <1>5 DEF SchedulerNext, Tick, ProbeStep, FailTimedOut, ProbeOne, ProbeCanceled,
                RecordChange, RecordReload, RecordWrite, TickDone, SchedulerExit
  <1>6. CASE Start \/ StopBegin \/ StopStep \/ StopExpire
    BY <1>6 DEF Start, StopBegin, StopStep, StopScheduler, StopCancel, StopWorkers,
                StopClose, StopExpire
  <1>7. CASE UNCHANGED vars
    BY <1>7 DEF vars
  <1> QED BY <1>1, <1>2, <1>3, <1>4, <1>5, <1>6, <1>7
          DEF Next, ControllerNext, FacadeNext, Terminated

(* The three parts of OneInstallerPerWorkspace are inductive together: a   *)
(* job enters the queue only from a Create that has not returned, whose id *)
(* the third part keeps out of the queue and the workers until then.       *)
LEMMA InstallerStep ==
  ASSUME TypeInv, OneInstallerPerWorkspace, [Next]_vars
  PROVE  OneInstallerPerWorkspace'
  <1> USE NoIdAssumption
      DEF TypeInv, TypeOK, ControllerTypeOK, FacadeTypeOK, LocalsDefined,
          OneInstallerPerWorkspace, Queued, Running
  <1>1. CASE UNCHANGED <<queue, wjob, cpc>>
    BY <1>1
  <1>2. ASSUME NEW k \in Workers, Dequeue(k) PROVE OneInstallerPerWorkspace'
    <2>1. PICK job \in queue : queue' = queue \ {job} /\ wjob' = [wjob EXCEPT ![k] = job]
      BY <1>2 DEF Dequeue
    <2>2. UNCHANGED cpc
      BY <1>2 DEF Dequeue, otherVars, facadeVars
    <2>3. job \in Jobs /\ job.id \in WorkspaceIds
      BY DEF Jobs
    <2>4. \A l \in Workers : wjob[l] # NoJob => wjob[l].id # job.id
      BY <2>1
    <2>5. \A l \in Workers : wjob[l].id # job.id
      BY <2>3, <2>4 DEF NoJob
    <2>6. \A i \in queue' : i \in queue /\ i.id # job.id
      BY <2>1
    <2>7. \A l \in Workers : wjob'[l] = IF l = k THEN job ELSE wjob[l]
      BY <2>1
    <2>8. \A l \in Workers : wjob'[l] # NoJob =>
            /\ \A i \in queue' : i.id # wjob'[l].id
            /\ \A m \in Workers : wjob'[m].id = wjob'[l].id => m = l
      BY <2>5, <2>6, <2>7
    <2>9. \A w \in WorkspaceIds :
            (\E i \in queue' : i.id = w) \/ (\E l \in Workers : wjob'[l].id = w) => cpc'[w] = "done"
      BY <2>1, <2>2, <2>6, <2>7
    <2> QED BY <2>6, <2>8, <2>9
  <1>3. ASSUME NEW k \in Workers, FinishInstall(k) PROVE OneInstallerPerWorkspace'
    <2>1. wjob' = [wjob EXCEPT ![k] = NoJob] /\ UNCHANGED <<queue, cpc>>
      BY <1>3 DEF FinishInstall, queueVars, otherVars, facadeVars
    <2>2. NoJob.id = NoId
      BY DEF NoJob
    <2>3. \A l \in Workers : wjob'[l] = IF l = k THEN NoJob ELSE wjob[l]
      BY <2>1
    <2>4. \A l \in Workers : wjob'[l] # NoJob =>
            /\ wjob'[l] = wjob[l]
            /\ \A m \in Workers : wjob'[m].id = wjob'[l].id => m = l
      <3> SUFFICES ASSUME NEW l \in Workers, wjob'[l] # NoJob,
                          NEW m \in Workers, wjob'[m].id = wjob'[l].id
                   PROVE  m = l
        BY <2>3
      <3>1. wjob'[l] = wjob[l] /\ wjob[l] \in Jobs /\ wjob[l].id \in WorkspaceIds
        BY <2>3 DEF Jobs
      <3> QED BY <2>2, <2>3, <3>1
    <2>5. \A w \in WorkspaceIds : \A l \in Workers : wjob'[l].id = w => wjob[l].id = w
      BY <2>2, <2>3
    <2> QED BY <2>1, <2>4, <2>5
  <1>4. ASSUME NEW d \in Deleters, DeleteTake(d) PROVE OneInstallerPerWorkspace'
    <2>1. queue' \subseteq queue /\ UNCHANGED <<wjob, cpc>>
      BY <1>4 DEF DeleteTake, otherVars, facadeVars
    <2> QED BY <2>1
  <1>7. ASSUME NEW d \in Deleters, NEW w \in WorkspaceIds, DeleteCall(d, w)
        PROVE  OneInstallerPerWorkspace'
    BY <1>1, <1>7 DEF DeleteCall, DeleteBegin, queueVars, workerVars, otherVars, facadeVars
  <1>5. ASSUME NEW w \in WorkspaceIds, CreateStep(w) PROVE OneInstallerPerWorkspace'
    <2>1. CASE CreateInsert(w) \/ CreateUndo(w)
      BY <2>1 DEF CreateInsert, CreateUndo, CreateReturns, controllerVars, queueVars, workerVars
    <2>2. CASE CreateSubmit(w)
      <3>1. UNCHANGED wjob /\ cpc[w] = "inserted"
        BY <2>2 DEF CreateSubmit, workerVars
      <3>2. CASE SubmitOK
        <4> DEFINE job == [ticket |-> tickets, id |-> w, dir |-> creq[w].dir]
        <4>1. queue' = queue \cup {job} /\ cpc' = [cpc EXCEPT ![w] = "done"]
          BY <2>2, <3>2 DEF CreateSubmit, Enqueue, CreateReturns
        <4>2. job.id = w
          OBVIOUS
        <4> HIDE DEF job
        <4> QED BY <3>1, <4>1, <4>2
      <3>3. CASE ~SubmitOK
        BY <2>2, <3>1, <3>3 DEF CreateSubmit, queueVars
      <3> QED BY <3>2, <3>3
    <2> QED BY <1>5, <2>1, <2>2 DEF CreateStep
  <1>6. ASSUME NEW w \in WorkspaceIds, NEW alias \in AliasKeys, NEW dir \in DirOptions,
               CreateCheck(w, alias, dir)
        PROVE  OneInstallerPerWorkspace'
    BY <1>6 DEF CreateCheck, CreateReturns, controllerVars, queueVars, workerVars
  <1> QED BY <1>1, <1>2, <1>3, <1>4, <1>5, <1>6, <1>7, InstallSteps

(* No id is queued twice or run by two workers, whatever callers do.       *)
THEOREM InstallerExclusion == Spec => []OneInstallerPerWorkspace
  <1>1. Init => OneInstallerPerWorkspace
    BY NoIdAssumption
       DEF Init, ControllerInit, OneInstallerPerWorkspace, Queued, Running, NoJob
  <1>2. Spec => []TypeInv
    BY TypeCorrect, PTL DEF TypeInv
  <1> QED BY <1>1, <1>2, InstallerStep, PTL DEF Spec

(***************************************************************************)
(* Delete and installs.                                                    *)
(***************************************************************************)

(* What was observed of an id stays observed.                              *)
LEMMA ObservationsGrow ==
  ASSUME [Next]_vars
  PROVE  early \subseteq early' /\ uncleared \subseteq uncleared'
  <1> DEFINE Grow == early \subseteq early' /\ uncleared \subseteq uncleared'
  <1>1. ASSUME NEW d \in Deleters,
               DeleteStep(d) \/ DeleteAbandon(d) \/ \E w \in WorkspaceIds : DeleteCall(d, w)
        PROVE  Grow
    BY <1>1 DEF DeleteStep, DeleteTake, DeleteWaitIdle, DeleteGet, DeleteOpen, DeleteClear, DeleteRemove,
                DeleteAbandon, DeleteCall, DeleteBegin
  <1> USE DEF controllerVars, deleteVars
  <1>2. ASSUME NEW k \in Workers, Dequeue(k) \/ WorkerExit(k) \/ WorkerStep(k) \/ ExpireInstall(k)
        PROVE  Grow
    BY <1>2 DEF Dequeue, WorkerExit, ExpireInstall, WorkerStep, StartInstall, RunInit, AttachPlugins,
                InstallAgent, WritePhase, ConfirmProbe, Reload, PersistPlugins, CommitHealthy,
                TransitionToFailed, CleanupStale, FinishInstall
  <1>3. ASSUME SchedulerNext PROVE Grow
    BY <1>3 DEF SchedulerNext, Tick, ProbeStep, FailTimedOut, ProbeOne, ProbeCanceled, RecordChange,
                RecordReload, RecordWrite, TickDone, SchedulerExit
  <1>4. ASSUME NEW w \in WorkspaceIds,
               Age(w) \/ CreateStep(w) \/ \E a \in AliasKeys, o \in DirOptions : CreateCheck(w, a, o)
        PROVE  Grow
    BY <1>4 DEF Age, CreateCheck, CreateStep, CreateInsert, CreateSubmit, CreateUndo
  <1>5. ASSUME Start \/ StopBegin \/ StopStep \/ StopExpire PROVE Grow
    BY <1>5 DEF Start, StopBegin, StopStep, StopScheduler, StopCancel, StopWorkers, StopClose, StopExpire
  <1>6. ASSUME UNCHANGED vars PROVE Grow
    BY <1>6 DEF vars
  <1> QED BY <1>1, <1>2, <1>3, <1>4, <1>5, <1>6 DEF Next, ControllerNext, FacadeNext, Terminated

(* A Delete under way is about an id that was inserted.  Past DeleteTake,  *)
(* unless it was early, its Create will not submit it any more, so that    *)
(* nobody can queue it again once DeleteTake has emptied the queue of it.  *)
DeleteClaimsId ==
  \A d \in Deleters :
    /\ dpc[d] \notin {"idle", "done"} => cpc[dtarget[d]] \in {"inserted", "undo", "done"}
    /\ dpc[d] \in {"wait", "get", "open", "clear", "remove"} /\ dtarget[d] \notin early =>
         cpc[dtarget[d]] # "inserted" /\ ~Queued(dtarget[d])

(* One step keeps the claim, and with it the exclusion.                    *)
LEMMA DeleteExclusionStep ==
  ASSUME TypeInv, RowsAreCreated, DeleteClaimsId, DeleteExcludesInstall, [Next]_vars
  PROVE  DeleteClaimsId' /\ DeleteExcludesInstall'
  <1>0. early \subseteq early'
    BY ObservationsGrow
  <1> USE DEF TypeInv, TypeOK, ControllerTypeOK, FacadeTypeOK, LocalsDefined,
              DeleteClaimsId, DeleteExcludesInstall, Queued, Running, DeletePoints
  <1>1. CASE UNCHANGED <<queue, wjob, cpc, dpc, dtarget>>
    BY <1>0, <1>1
  <1>2. ASSUME NEW d \in Deleters, DeleteStep(d) \/ DeleteAbandon(d),
               UNCHANGED <<queue, wjob, cpc>>
        PROVE  DeleteClaimsId' /\ DeleteExcludesInstall'
    <2> USE DEF DeleteGoto, DeleteReturn
    <2>1. CASE DeleteWaitIdle(d)
      BY <1>0, <1>2, <2>1 DEF DeleteWaitIdle
    <2>2. CASE DeleteAbandon(d) \/ DeleteRemove(d)
      BY <1>0, <1>2, <2>2 DEF DeleteAbandon, DeleteRemove
    <2>3. CASE DeleteGet(d)
      <3>1. CASE dpc' = [dpc EXCEPT ![d] = "open"] /\ UNCHANGED dtarget
        BY <1>0, <1>2, <2>3, <3>1 DEF DeleteGet
      <3>2. CASE DeleteReturn(d)
        BY <1>0, <1>2, <3>2
      <3> QED BY <2>3, <3>1, <3>2 DEF DeleteGet
    <2>4. CASE DeleteOpen(d) \/ DeleteClear(d)
      BY <1>0, <1>2, <2>4 DEF DeleteOpen, DeleteClear
    <2>5. CASE DeleteTake(d)
      BY <1>0, <1>2, <2>5 DEF DeleteTake
    <2> QED BY <1>2, <2>1, <2>2, <2>3, <2>4, <2>5 DEF DeleteStep
  <1>3. ASSUME NEW k \in Workers, Dequeue(k)
        PROVE  DeleteClaimsId' /\ DeleteExcludesInstall'
    <2>1. PICK job \in queue : queue' = queue \ {job} /\ wjob' = [wjob EXCEPT ![k] = job]
      BY <1>3 DEF Dequeue
    <2>2. UNCHANGED <<cpc, dpc, dtarget>>
      BY <1>3 DEF Dequeue, deleteVars, otherVars, facadeVars
    <2>3. \A l \in Workers : wjob'[l] = job \/ wjob'[l] = wjob[l]
      BY <2>1
    <2> QED BY <1>0, <2>1, <2>2, <2>3
  <1>4. ASSUME NEW k \in Workers, FinishInstall(k)
        PROVE  DeleteClaimsId' /\ DeleteExcludesInstall'
    <2>1. wjob' = [wjob EXCEPT ![k] = NoJob] /\ UNCHANGED <<queue, cpc, dpc, dtarget>>
      BY <1>4 DEF FinishInstall, queueVars, deleteVars, otherVars, facadeVars
    <2>2. \A l \in Workers, w \in WorkspaceIds : wjob'[l].id = w => wjob[l].id = w
      BY <2>1, NoIdAssumption DEF NoJob
    <2> QED BY <1>0, <2>1, <2>2
  <1>5. ASSUME NEW d \in Deleters, NEW w \in WorkspaceIds, DeleteCall(d, w)
        PROVE  DeleteClaimsId' /\ DeleteExcludesInstall'
    <2>1. UNCHANGED <<queue, wjob, cpc>> /\ cpc[w] \in {"inserted", "undo", "done"}
      BY <1>5 DEF DeleteCall, DeleteBegin, queueVars, workerVars, otherVars, facadeVars, RowsAreCreated
    <2>2. CASE stopped
      BY <1>0, <1>5, <2>1, <2>2 DEF DeleteCall, DeleteBegin, DeleteReturn, DeleteGoto
    <2>3. CASE ~stopped
      BY <1>0, <1>5, <2>1, <2>3 DEF DeleteCall, DeleteBegin, DeleteGoto
    <2> QED BY <2>2, <2>3
  <1>8. ASSUME NEW d \in Deleters, DeleteTake(d)
        PROVE  DeleteClaimsId' /\ DeleteExcludesInstall'
    <2>1. UNCHANGED <<wjob, cpc, dtarget>> /\ queue' \subseteq queue
      BY <1>8 DEF DeleteTake, otherVars, facadeVars
    <2>2. dpc[d] = "take" /\ dpc' = [dpc EXCEPT ![d] = "wait"]
      BY <1>8 DEF DeleteTake, DeleteGoto
    <2>3. /\ \A job \in queue' : job.id # dtarget[d]
          /\ cpc[dtarget[d]] = "inserted" => dtarget[d] \in early'
      BY <1>8 DEF DeleteTake
    <2> QED BY <1>0, <2>1, <2>2, <2>3
  <1>6. ASSUME NEW w \in WorkspaceIds, CreateStep(w)
        PROVE  DeleteClaimsId' /\ DeleteExcludesInstall'
    <2>1. UNCHANGED <<wjob, dpc, dtarget>> /\ cpc[w] # "done"
      BY <1>6 DEF CreateStep, CreateInsert, CreateSubmit, CreateUndo, controllerVars,
                  workerVars, deleteVars
    <2>2. /\ \A v \in WorkspaceIds : cpc[v] \in {"undo", "done"} => cpc'[v] \in {"undo", "done"}
          /\ cpc[w] = "inserted" => cpc'[w] \in {"undo", "done"}
          /\ \A v \in WorkspaceIds \ {w} : cpc'[v] = cpc[v]
      BY <1>6 DEF CreateStep, CreateInsert, CreateSubmit, CreateUndo, CreateReturns
    <2>3. \A job \in queue' : job \in queue \/ (job.id = w /\ cpc[w] = "inserted")
      BY <1>6 DEF CreateStep, CreateInsert, CreateSubmit, CreateUndo, Enqueue, controllerVars,
                  queueVars
    <2> QED BY <1>0, <2>1, <2>2, <2>3
  <1>7. ASSUME NEW w \in WorkspaceIds, NEW alias \in AliasKeys, NEW dir \in DirOptions,
               CreateCheck(w, alias, dir)
        PROVE  DeleteClaimsId' /\ DeleteExcludesInstall'
    <2>1. UNCHANGED <<queue, wjob, dpc, dtarget>> /\ cpc[w] = "new"
      BY <1>7 DEF CreateCheck, controllerVars, queueVars, workerVars, deleteVars
    <2>2. \A v \in WorkspaceIds \ {w} : cpc'[v] = cpc[v]
      BY <1>7 DEF CreateCheck, CreateReturns
    <2> QED BY <1>0, <2>1, <2>2
  <1> QED BY <1>1, <1>2, <1>3, <1>4, <1>5, <1>6, <1>7, <1>8, InstallSteps

(* Delete opens and clears a directory that no worker is installing into   *)
(* and no queued job will touch, unless it looked for the job between the  *)
(* Insert and the Submit of CreateWorkspace.                               *)
THEOREM DeleteExclusion == Spec => []DeleteExcludesInstall
  <1>1. Init => DeleteClaimsId /\ DeleteExcludesInstall
    BY DEF Init, ControllerInit, DeleteClaimsId, DeleteExcludesInstall
  <1>2. Spec => []TypeInv
    BY TypeCorrect, PTL DEF TypeInv
  <1>3. TypeInv /\ RowsAreCreated /\ (DeleteClaimsId /\ DeleteExcludesInstall) /\ [Next]_vars
          => (DeleteClaimsId /\ DeleteExcludesInstall)'
    BY DeleteExclusionStep
  <1> QED BY <1>1, <1>2, <1>3, RowsCreated, PTL DEF Spec

(***************************************************************************)
(* The installs as jobs: the manager implements JobQueue, as InstallQueue  *)
(* does.                                                                   *)
(***************************************************************************)

(* What JobQueue does not see: the phases of an install, and what a Delete *)
(* does once it is alone.                                                  *)
LEMMA JobsUnseen ==
  ASSUME UNCHANGED <<queue, tickets, stopped, wjob, dpc, dtarget>>,
         \A k \in Workers : wpc'[k] = "exit" <=> wpc[k] = "exit"
  PROVE  UNCHANGED InstallJobs!vars
  <1>1. UNCHANGED <<QueuedJobs, tickets, stopped>>
    BY DEF QueuedJobs
  <1>2. UNCHANGED <<WorkersWork, WorkersGone>>
    BY DEF WorkersWork, WorkersGone
  <1>3. UNCHANGED DeleteCalls
    BY DEF DeleteCalls, DeletePoint
  <1> QED BY <1>1, <1>2, <1>3 DEF InstallJobs!vars

(* A worker takes the oldest job, works on it, and gives it back.  Removing *)
(* the job removes its number and id, since no two jobs have the same id.  *)
LEMMA WorkerIsAtJobs ==
  ASSUME TypeInv, OneInstallerPerWorkspace, NEW k \in Workers,
         Dequeue(k) \/ WorkerExit(k) \/ WorkerStep(k) \/ ExpireInstall(k)
  PROVE  InstallJobs!JobNext \/ UNCHANGED InstallJobs!vars
  <1> USE DEF queueVars, deleteVars
  <1>0. /\ wpc \in [Workers -> WorkerPoints] /\ wjob \in [Workers -> Jobs \cup {NoJob}]
        /\ queue \subseteq Jobs
        /\ \A l \in Workers : wpc[l] \notin {"idle", "exit"} => wjob[l] \in Jobs
        /\ \A l \in Workers : wpc[l] \in {"idle", "exit"} => wjob[l] = NoJob
    BY DEF TypeInv, TypeOK, ControllerTypeOK, LocalsDefined
  <1>1. \A job \in Jobs : job # NoJob
    BY NoIdAssumption DEF Jobs, NoJob
  <1>2. CASE Dequeue(k)
    <2>1. PICK job \in queue : /\ \A other \in queue : job.ticket <= other.ticket
                               /\ queue' = queue \ {job}
                               /\ wjob' = [wjob EXCEPT ![k] = job]
      BY <1>2 DEF Dequeue
    <2>2. wpc[k] = "idle" /\ wpc' = [wpc EXCEPT ![k] = "run"] /\ UNCHANGED <<tickets, stopped, dpc, dtarget>>
      BY <1>2 DEF Dequeue, Goto
    <2> DEFINE taken == [n |-> job.ticket, id |-> job.id]
    <2>3. taken \in QueuedJobs /\ (\A other \in QueuedJobs : taken.n <= other.n)
      BY <2>1 DEF QueuedJobs
    <2>4. QueuedJobs' = QueuedJobs \ {taken}
      <3>1. \A other \in queue : other.id = job.id => other = job
        BY <2>1 DEF OneInstallerPerWorkspace
      <3>2. \A other \in queue : [n |-> other.ticket, id |-> other.id] = taken => other = job
        BY <3>1
      <3> QED BY <2>1, <3>2 DEF QueuedJobs
    <2>5. job \in Jobs
      BY <1>0, <2>1
    <2>6. WorkersWork' = [WorkersWork EXCEPT ![k] = {taken.id}]
      BY <1>0, <1>1, <2>1, <2>5 DEF WorkersWork
    <2>7. WorkersGone' = WorkersGone
      BY <1>0, <2>2 DEF WorkersGone
    <2>8. DeleteCalls' = DeleteCalls
      BY <2>2 DEF DeleteCalls, DeletePoint
    <2>9. InstallJobs!Free(k)
      BY <1>0, <2>2 DEF InstallJobs!Free, WorkersWork, WorkersGone
    <2>10. InstallJobs!Take(k)
      BY <2>2, <2>3, <2>4, <2>6, <2>7, <2>8, <2>9 DEF InstallJobs!Take
    <2> QED BY <2>10 DEF InstallJobs!JobNext
  <1>3. CASE WorkerExit(k)
    <2>1. /\ wpc[k] = "idle" /\ wpc' = [wpc EXCEPT ![k] = "exit"] /\ queue = {} /\ stopped
          /\ UNCHANGED <<queue, tickets, stopped, wjob, dpc, dtarget>>
      BY <1>3 DEF WorkerExit, Goto
    <2>2. QueuedJobs = {} /\ UNCHANGED <<QueuedJobs, WorkersWork>>
      BY <2>1 DEF QueuedJobs, WorkersWork
    <2>3. WorkersGone' = WorkersGone \cup {k}
      BY <1>0, <2>1 DEF WorkersGone
    <2>4. DeleteCalls' = DeleteCalls
      BY <2>1 DEF DeleteCalls, DeletePoint
    <2>5. InstallJobs!Free(k)
      BY <1>0, <2>1 DEF InstallJobs!Free, WorkersWork, WorkersGone
    <2>6. InstallJobs!Leave(k)
      BY <2>1, <2>2, <2>3, <2>4, <2>5 DEF InstallJobs!Leave
    <2> QED BY <2>6 DEF InstallJobs!JobNext
  <1>4. CASE FinishInstall(k)
    <2>1. /\ wpc[k] = "finish" /\ wpc' = [wpc EXCEPT ![k] = "idle"] /\ wjob' = [wjob EXCEPT ![k] = NoJob]
          /\ UNCHANGED <<queue, tickets, stopped, dpc, dtarget>>
      BY <1>4 DEF FinishInstall, Goto
    <2>2. WorkersWork[k] # {} /\ WorkersWork' = [WorkersWork EXCEPT ![k] = {}]
      BY <1>0, <1>1, <2>1 DEF WorkersWork
    <2>3. WorkersGone' = WorkersGone
      BY <1>0, <2>1 DEF WorkersGone
    <2>4. DeleteCalls' = DeleteCalls /\ QueuedJobs' = QueuedJobs
      BY <2>1 DEF DeleteCalls, DeletePoint, QueuedJobs
    <2>5. InstallJobs!Finish(k)
      BY <2>1, <2>2, <2>3, <2>4 DEF InstallJobs!Finish
    <2> QED BY <2>5 DEF InstallJobs!JobNext
  <1>5. CASE (WorkerStep(k) \/ ExpireInstall(k)) /\ ~FinishInstall(k)
    <2>1. UNCHANGED <<queue, tickets, stopped, wjob, dpc, dtarget>>
      BY <1>5 DEF WorkerStep, StartInstall, RunInit, AttachPlugins, InstallAgent, WritePhase, ConfirmProbe,
                  Reload, PersistPlugins, CommitHealthy, TransitionToFailed, CleanupStale, ExpireInstall
    <2>2. \/ UNCHANGED wpc
          \/ wpc[k] # "exit" /\ \E point \in WorkerPoints \ {"exit"} : wpc' = [wpc EXCEPT ![k] = point]
      BY <1>5 DEF WorkerStep, StartInstall, RunInit, AttachPlugins, InstallAgent, WritePhase, ConfirmProbe,
                  Reload, PersistPlugins, CommitHealthy, TransitionToFailed, CleanupStale, ExpireInstall,
                  Goto, GiveUp, WorkerPoints
    <2>3. \A l \in Workers : wpc'[l] = "exit" <=> wpc[l] = "exit"
      BY <1>0, <2>2
    <2> QED BY <2>1, <2>3, JobsUnseen
  <1> QED BY <1>2, <1>3, <1>4, <1>5 DEF WorkerStep

(* A Delete goes through the queue as JobQueue says: it takes its jobs     *)
(* back, and is alone when no worker has its workspace.                    *)
LEMMA DeleteIsCall ==
  ASSUME TypeInv, NEW d \in Deleters,
         DeleteStep(d) \/ DeleteAbandon(d) \/ (\E w \in WorkspaceIds : DeleteCall(d, w))
  PROVE  InstallJobs!JobNext \/ UNCHANGED InstallJobs!vars
  <1> USE DEF queueVars, workerVars
  <1> DEFINE Out == [at |-> "out", of |-> {}]
             Call(point) == [at |-> point, of |-> {dtarget[d]}]
             Only(call) == DeleteCalls' = [DeleteCalls EXCEPT ![d] = call]
             Elsewhere == UNCHANGED <<tickets, stopped, WorkersWork, WorkersGone>>
  <1>0. /\ dpc \in [Deleters -> DeletePoints] /\ dtarget \in [Deleters -> WorkspaceIds \cup {NoId}]
        /\ dpc[d] \notin {"idle", "done"} => dtarget[d] \in WorkspaceIds
        /\ wjob \in [Workers -> Jobs \cup {NoJob}]
    BY DEF TypeInv, TypeOK, ControllerTypeOK, LocalsDefined
  <1>1. Elsewhere
    <2>1. UNCHANGED <<tickets, stopped, wjob, wpc>>
      BY DEF DeleteStep, DeleteTake, DeleteWaitIdle, DeleteGet, DeleteOpen, DeleteClear, DeleteRemove,
             DeleteAbandon, DeleteCall, DeleteBegin
    <2> QED BY <2>1 DEF WorkersWork, WorkersGone
  <1>2. ASSUME NEW point \in DeletePoints \ {"idle", "done"},
               dpc' = [dpc EXCEPT ![d] = point], dtarget' = dtarget
        PROVE  Only(Call(DeletePoint(d)'))
    BY <1>0, <1>2 DEF DeleteCalls, DeletePoint
  <1>3. ASSUME DeleteReturn(d)
        PROVE  Only(Out)
    BY <1>0, <1>3 DEF DeleteReturn, DeleteGoto, DeleteCalls, DeletePoint
  <1>4. dpc[d] \notin {"idle", "done"} => DeleteCalls[d] = Call(DeletePoint(d))
    BY DEF DeleteCalls
  <1>5. ASSUME NEW point, dpc[d] \notin {"idle", "done"}
        PROVE  [DeleteCalls EXCEPT ![d].at = point] = [DeleteCalls EXCEPT ![d] = Call(point)]
    <2>1. [DeleteCalls[d] EXCEPT !.at = point] = Call(point)
      BY <1>4, <1>5
    <2> HIDE DEF Call
    <2> QED BY <2>1, Zenon
  <1>6. dpc[d] \notin {"idle", "done"} =>
           (InstallJobs!AtIt(d) = {} <=> ~Running(dtarget[d]))
    <2> SUFFICES ASSUME dpc[d] \notin {"idle", "done"}
                 PROVE  InstallJobs!AtIt(d) = {} <=> ~Running(dtarget[d])
      OBVIOUS
    <2>1. DeleteCalls[d].of = {dtarget[d]} /\ dtarget[d] # NoId
      BY <1>0, <1>4, NoIdAssumption
    <2>2. \A k \in Workers : WorkersWork[k] \cap {dtarget[d]} # {} <=> wjob[k].id = dtarget[d]
      BY <2>1 DEF WorkersWork, NoJob
    <2> QED BY <2>1, <2>2 DEF InstallJobs!AtIt, Running
  <1>7. CASE DeleteTake(d)
    <2>1. /\ dpc[d] = "take" /\ dpc' = [dpc EXCEPT ![d] = "wait"] /\ dtarget' = dtarget
          /\ queue' = {job \in queue : job.id # dtarget[d]}
      BY <1>7 DEF DeleteTake, DeleteGoto
    <2>2. DeletePoint(d) = "enter" /\ DeletePoint(d)' = "wait"
      BY <1>0, <2>1 DEF DeletePoint
    <2>3. DeleteCalls[d] = Call("enter") /\ Only(Call("wait"))
      BY <1>2, <1>4, <2>1, <2>2 DEF DeletePoints
    <2>4. QueuedJobs' = {job \in QueuedJobs : job.id \notin DeleteCalls[d].of}
      <3>1. DeleteCalls[d].of = {dtarget[d]}
        BY <2>3
      <3> QED BY <2>1, <3>1 DEF QueuedJobs
    <2>5. InstallJobs!TakeBack(d)
      <3>1. DeleteCalls[d].at = "enter"
        BY <2>3
      <3>2. DeleteCalls' = [DeleteCalls EXCEPT ![d].at = "wait"]
        BY <1>5, <2>1, <2>3
      <3> QED BY <1>1, <2>4, <3>1, <3>2 DEF InstallJobs!TakeBack, InstallJobs!Move
    <2> QED BY <2>5 DEF InstallJobs!JobNext
  <1>8. CASE DeleteWaitIdle(d)
    <2>1. /\ dpc[d] = "wait" /\ dpc' = [dpc EXCEPT ![d] = "get"] /\ dtarget' = dtarget
          /\ queue' = queue /\ ~Running(dtarget[d])
      BY <1>8 DEF DeleteWaitIdle, DeleteGoto, deleteVars
    <2>2. DeletePoint(d) = "wait" /\ DeletePoint(d)' = "alone"
      BY <1>0, <2>1 DEF DeletePoint
    <2>3. DeleteCalls[d] = Call("wait") /\ Only(Call("alone"))
      BY <1>2, <1>4, <2>1, <2>2 DEF DeletePoints
    <2>4. QueuedJobs' = QueuedJobs
      BY <2>1 DEF QueuedJobs
    <2>5. InstallJobs!GoOn(d)
      <3>1. DeleteCalls[d].at = "wait"
        BY <2>3
      <3>2. DeleteCalls' = [DeleteCalls EXCEPT ![d].at = "alone"]
        BY <1>5, <2>1, <2>3
      <3>3. InstallJobs!AtIt(d) = {}
        BY <1>6, <2>1
      <3> QED BY <1>1, <2>4, <3>1, <3>2, <3>3 DEF InstallJobs!GoOn, InstallJobs!Move
    <2> QED BY <2>5 DEF InstallJobs!JobNext
  <1>9. CASE DeleteAbandon(d)
    <2>1. dpc[d] = "wait" /\ queue' = queue /\ Running(dtarget[d]) /\ DeleteReturn(d)
      BY <1>9 DEF DeleteAbandon
    <2>2. DeleteCalls[d] = Call("wait") /\ Only(Out)
      BY <1>3, <1>4, <2>1 DEF DeletePoint
    <2>3. QueuedJobs' = QueuedJobs
      BY <2>1 DEF QueuedJobs
    <2>4. InstallJobs!GiveUp(d)
      BY <1>1, <1>6, <2>1, <2>2, <2>3 DEF InstallJobs!GiveUp, InstallJobs!Out
    <2> QED BY <2>4 DEF InstallJobs!JobNext
  <1>10. CASE DeleteGet(d) \/ DeleteOpen(d) \/ DeleteClear(d) \/ DeleteRemove(d)
    <2>1. /\ dpc[d] \in {"get", "open", "clear", "remove"} /\ queue' = queue
          /\ \/ DeleteReturn(d)
             \/ /\ dtarget' = dtarget
                /\ \E point \in {"open", "clear", "remove"} : dpc' = [dpc EXCEPT ![d] = point]
      BY <1>10 DEF DeleteGet, DeleteOpen, DeleteClear, DeleteRemove, DeleteGoto
    <2>2. QueuedJobs' = QueuedJobs
      BY <2>1 DEF QueuedJobs
    <2>3. DeletePoint(d) = "alone" /\ DeleteCalls[d] = Call("alone")
      BY <1>4, <2>1 DEF DeletePoint
    <2>4. CASE DeleteReturn(d)
      <3>1. InstallJobs!Return(d)
        BY <1>1, <1>3, <2>2, <2>3, <2>4 DEF InstallJobs!Return, InstallJobs!Out
      <3> QED BY <3>1 DEF InstallJobs!JobNext
    <2>5. ASSUME dtarget' = dtarget,
                 NEW point \in {"open", "clear", "remove"}, dpc' = [dpc EXCEPT ![d] = point]
          PROVE  UNCHANGED InstallJobs!vars
      <3>1. DeletePoint(d)' = "alone"
        BY <1>0, <2>5 DEF DeletePoint
      <3>2. Only(Call("alone"))
        BY <1>2, <2>5, <3>1 DEF DeletePoints
      <3>3. DeleteCalls' = DeleteCalls
        BY <2>3, <3>2 DEF DeleteCalls
      <3> QED BY <1>1, <2>2, <3>3 DEF InstallJobs!vars
    <2> QED BY <2>1, <2>4, <2>5
  <1>11. ASSUME NEW w \in WorkspaceIds, DeleteCall(d, w)
         PROVE  InstallJobs!JobNext \/ UNCHANGED InstallJobs!vars
    <2>1. dpc[d] = "idle" /\ queue' = queue
      BY <1>11 DEF DeleteCall, DeleteBegin
    <2>2. QueuedJobs' = QueuedJobs /\ DeleteCalls[d] = Out
      BY <2>1 DEF QueuedJobs, DeleteCalls
    <2>3. CASE stopped
      <3>1. DeleteReturn(d)
        BY <1>11, <2>3 DEF DeleteCall, DeleteBegin
      <3>2. DeleteCalls' = DeleteCalls
        BY <1>3, <2>2, <3>1 DEF DeleteCalls
      <3> QED BY <1>1, <2>2, <3>2 DEF InstallJobs!vars
    <2>4. CASE ~stopped
      <3>1. dpc' = [dpc EXCEPT ![d] = "take"] /\ dtarget' = [dtarget EXCEPT ![d] = w]
        BY <1>11, <2>4 DEF DeleteCall, DeleteBegin, DeleteGoto
      <3>2. Only([at |-> "enter", of |-> {w}])
        BY <1>0, <3>1 DEF DeleteCalls, DeletePoint
      <3>3. InstallJobs!CallDelete(d, w)
        BY <1>1, <2>2, <2>4, <3>2 DEF InstallJobs!CallDelete, InstallJobs!Out
      <3> QED BY <3>3 DEF InstallJobs!JobNext
    <2> QED BY <2>3, <2>4
  <1> QED BY <1>7, <1>8, <1>9, <1>10, <1>11 DEF DeleteStep

(* The manager, whatever its callers, its scheduler and Stop do, uses its  *)
(* queue as JobQueue has it: what InstallQueue shows of the mutex, the     *)
(* counter and the condition variable is about this queue.                 *)
THEOREM InstallsImplementJobs == Spec => InstallsAreJobs
  <1> USE DEF queueVars, workerVars, deleteVars, otherVars, facadeVars, controllerVars
  <1>1. Init => InstallJobs!JobInit
    BY DEF Init, ControllerInit, InstallJobs!JobInit, InstallJobs!Out, QueuedJobs, WorkersWork, WorkersGone, DeleteCalls
  <1>2. TypeInv /\ OneInstallerPerWorkspace /\ [Next]_vars => InstallJobs!JobNext \/ UNCHANGED InstallJobs!vars
    <2> SUFFICES ASSUME TypeInv, OneInstallerPerWorkspace, [Next]_vars
                 PROVE  InstallJobs!JobNext \/ UNCHANGED InstallJobs!vars
      OBVIOUS
    <2> DEFINE Quiet == UNCHANGED <<queue, tickets, stopped, wjob, wpc, dpc, dtarget>>
    <2>1. Quiet => UNCHANGED InstallJobs!vars
      BY JobsUnseen
    <2>2. ASSUME NEW w \in WorkspaceIds, Age(w) \/ CreateInsert(w) \/ CreateUndo(w)
          PROVE  Quiet
      BY <2>2 DEF Age, CreateInsert, CreateUndo
    <2>3. ASSUME NEW w \in WorkspaceIds, NEW alias \in AliasKeys, NEW dir \in DirOptions,
                 CreateCheck(w, alias, dir)
          PROVE  Quiet
      BY <2>3 DEF CreateCheck
    <2>4. ASSUME NEW w \in WorkspaceIds, CreateSubmit(w)
          PROVE  InstallJobs!JobNext \/ UNCHANGED InstallJobs!vars
      <3>1. UNCHANGED <<wjob, wpc, dpc, dtarget>>
        BY <2>4 DEF CreateSubmit
      <3>2. CASE SubmitOK
        <4>1. ~stopped /\ stopped' = stopped /\ Enqueue(w, creq[w].dir)
          BY <2>4, <3>2 DEF CreateSubmit, SubmitOK, Enqueue
        <4>2. QueuedJobs' = QueuedJobs \cup {[n |-> tickets, id |-> w]} /\ tickets' = tickets + 1
          <5> DEFINE new == [ticket |-> tickets, id |-> w, dir |-> creq[w].dir]
          <5>1. queue' = queue \cup {new} /\ tickets' = tickets + 1
            BY <4>1 DEF Enqueue
          <5>2. [n |-> new.ticket, id |-> new.id] = [n |-> tickets, id |-> w]
            OBVIOUS
          <5> HIDE DEF new
          <5> QED BY <5>1, <5>2, Zenon DEF QueuedJobs
        <4>3. UNCHANGED <<WorkersWork, WorkersGone, DeleteCalls>>
          BY <3>1 DEF WorkersWork, WorkersGone, DeleteCalls, DeletePoint
        <4>4. InstallJobs!Submit(w)
          BY <4>1, <4>2, <4>3 DEF InstallJobs!Submit
        <4> QED BY <4>4 DEF InstallJobs!JobNext
      <3>3. CASE ~SubmitOK
        BY <2>1, <2>4, <3>1, <3>3 DEF CreateSubmit
      <3> QED BY <3>2, <3>3
    <2>5. CASE SchedulerNext
      <3>1. Quiet
        BY <2>5 DEF SchedulerNext, Tick, ProbeStep, FailTimedOut, ProbeOne, ProbeCanceled,
                    RecordChange, RecordReload, RecordWrite, TickDone, SchedulerExit
      <3> QED BY <2>1, <3>1
    <2>6. CASE StopScheduler
      <3>1. stopped' = TRUE /\ UNCHANGED <<queue, tickets, wjob, wpc, dpc, dtarget>>
        BY <2>6 DEF StopScheduler
      <3>2. UNCHANGED <<QueuedJobs, tickets, WorkersWork, WorkersGone, DeleteCalls>>
        BY <3>1 DEF QueuedJobs, WorkersWork, WorkersGone, DeleteCalls, DeletePoint
      <3>3. CASE stopped
        BY <3>1, <3>2, <3>3 DEF InstallJobs!vars
      <3>4. CASE ~stopped
        <4>1. InstallJobs!Stop
          BY <3>1, <3>2, <3>4 DEF InstallJobs!Stop
        <4> QED BY <4>1 DEF InstallJobs!JobNext
      <3> QED BY <3>3, <3>4
    <2>7. CASE Start \/ StopBegin \/ StopCancel \/ StopWorkers \/ StopClose \/ StopExpire
      <3>1. Quiet
        BY <2>7 DEF Start, StopBegin, StopCancel, StopWorkers, StopClose, StopExpire
      <3> QED BY <2>1, <3>1
    <2>8. CASE UNCHANGED vars
      BY <2>1, <2>8 DEF vars
    <2> QED BY <2>1, <2>2, <2>3, <2>4, <2>5, <2>6, <2>7, <2>8, WorkerIsAtJobs, DeleteIsCall
            DEF Next, ControllerNext, FacadeNext, CreateStep, StopStep, Terminated
  <1>3. Spec => []TypeInv
    BY TypeCorrect, PTL DEF TypeInv
  <1> QED BY <1>1, <1>2, <1>3, InstallerExclusion, PTL DEF Spec, InstallsAreJobs, InstallJobs!JobSafe

(***************************************************************************)
(* A row that is written back whole is the row that was read.              *)
(***************************************************************************)

(* How the row of v can change in one step, and who changes it: it is      *)
(* inserted or removed, its status moves and never to init, or the worker  *)
(* of v or the probe of v rewrites it from the copy it holds.              *)
LEMMA RowFate ==
  ASSUME TypeInv, [Next]_vars, NEW v \in WorkspaceIds, byID'[v] # byID[v]
  PROVE  \/ CreateInsert(v) /\ InsertOK(v, creq[v])
         \/ /\ Exists(v) /\ ~Exists(v)'
            /\ CreateUndo(v) \/ \E d \in Deleters : DeleteRemove(d) /\ dtarget[d] = v
         \/ /\ Exists(v) /\ Exists(v)'
            /\ byID'[v].status # byID[v].status /\ byID'[v].status # "init"
            /\ byID'[v].dir = byID[v].dir
            /\ byID[v].status = "init" \/ RecordChange(v)
         \/ \E k \in Workers : LET row == [wlatest[k] EXCEPT !.placed = TRUE]
                               IN PersistPlugins(k) /\ wjob[k].id = v /\ UpdateOK(v, row) /\ byID'[v] = row
         \/ LET row == [platest[v] EXCEPT !.code = ProbeCode(v)]
            IN RecordWrite(v) /\ UpdateOK(v, row) /\ byID'[v] = row
  <1> DEFINE Moved == /\ Exists(v) /\ Exists(v)'
                      /\ byID'[v].status # byID[v].status /\ byID'[v].status # "init"
                      /\ byID'[v].dir = byID[v].dir
                      /\ byID[v].status = "init" \/ RecordChange(v)
             Removed == /\ Exists(v) /\ ~Exists(v)'
                        /\ CreateUndo(v) \/ \E d \in Deleters : DeleteRemove(d) /\ dtarget[d] = v
  <1> USE DEF repoVars, otherVars, schedVars, facadeVars, controllerVars
  <1>0. byID \in [WorkspaceIds -> Rows \cup {NoRow}]
    BY DEF TypeInv, TypeOK, RepoTypeOK
  <1>1. ASSUME NEW w \in WorkspaceIds, NEW writer, NEW expect \in Statuses, NEW next \in Statuses,
               NEW code \in Codes, UpdateStatusCAS(w, writer, expect, next, code),
               expect = "init" \/ RecordChange(w)
        PROVE  Moved
    <2>1. CASE CASOK(w, writer, expect, next)
      <3>1. byID[w] \in Rows /\ byID[w].status = expect
        BY <1>0, <2>1 DEF CASOK, GetOK, Exists
      <3>2. byID' = [byID EXCEPT ![w] = WithStatus(byID[w], next, code)]
        BY <1>1, <2>1 DEF UpdateStatusCAS
      <3>3. w = v
        BY <1>0, <3>2
      <3>4. byID'[v] = WithStatus(byID[v], next, code)
        BY <1>0, <3>2, <3>3
      <3>5. /\ byID'[v] \in Rows /\ byID'[v].status = next /\ byID'[v].dir = byID[v].dir
        BY <3>1, <3>3, <3>4, WithStatusFacts
      <3>6. expect # next /\ next # "init"
        BY <2>1 DEF CASOK, TransitionByWriter
      <3> QED BY <1>1, <3>1, <3>3, <3>5, <3>6, NoRowAssumption DEF Exists
    <2>2. CASE ~CASOK(w, writer, expect, next)
      BY <1>1, <2>2 DEF UpdateStatusCAS
    <2> QED BY <2>1, <2>2
  <1>2. ASSUME NEW w \in WorkspaceIds, Delete(w)
        PROVE  w = v /\ Exists(v) /\ ~Exists(v)'
    BY <1>0, <1>2 DEF Delete, GetOK, Exists
  <1>3. ASSUME NEW k \in Workers, WorkerStep(k)
        PROVE  \/ Moved
               \/ LET row == [wlatest[k] EXCEPT !.placed = TRUE]
                  IN PersistPlugins(k) /\ wjob[k].id = v /\ UpdateOK(v, row) /\ byID'[v] = row
    <2>1. CASE PersistPlugins(k)
      BY <1>0, <2>1 DEF PersistPlugins, Update
    <2>2. CASE CommitHealthy(k)
      <3>1. wjob[k].id \in WorkspaceIds
        BY <2>2, JobFacts DEF CommitHealthy
      <3> QED BY <1>1, <2>2, <3>1 DEF CommitHealthy, Statuses, Codes
    <2>3. CASE TransitionToFailed(k)
      <3>1. wjob[k].id \in WorkspaceIds /\ wcode[k] \in Codes
        BY <2>3, JobFacts DEF TransitionToFailed
      <3> QED BY <1>1, <2>3, <3>1 DEF TransitionToFailed, Statuses
    <2> QED BY <1>3, <2>1, <2>2, <2>3
            DEF WorkerStep, StartInstall, RunInit, AttachPlugins, InstallAgent, WritePhase, ConfirmProbe,
                Reload, CleanupStale, FinishInstall
  <1>4. ASSUME NEW d \in Deleters,
               DeleteStep(d) \/ DeleteAbandon(d) \/ \E w \in WorkspaceIds : DeleteCall(d, w)
        PROVE  Removed
    <2>1. CASE DeleteRemove(d)
      BY <1>2, <2>1 DEF DeleteRemove, TypeInv, LocalsDefined
    <2> QED BY <1>4, <2>1 DEF DeleteStep, DeleteTake, DeleteWaitIdle, DeleteGet, DeleteOpen, DeleteClear,
                              DeleteAbandon, DeleteCall, DeleteBegin
  <1>5. ASSUME NEW w \in WorkspaceIds, ProbeStep(w)
        PROVE  \/ Moved
               \/ LET row == [platest[v] EXCEPT !.code = ProbeCode(v)]
                  IN RecordWrite(v) /\ UpdateOK(v, row) /\ byID'[v] = row
    <2>1. CASE FailTimedOut(w)
      BY <1>1, <2>1 DEF FailTimedOut, Statuses, Codes
    <2>2. CASE RecordChange(w)
      <3>1. /\ pout[w] \in Statuses /\ ProbeCode(w) \in Codes
            /\ snap[w] \in Rows
        BY <2>2 DEF RecordChange, TypeInv, TypeOK, SchedulerTypeOK, LocalsDefined, Statuses,
                    Codes, ProbeCode
      <3>2. snap[w].status \in Statuses
        BY <3>1 DEF Rows
      <3> QED BY <1>1, <2>2, <3>1, <3>2 DEF RecordChange
    <2>3. CASE RecordWrite(w)
      <3>1. w = v
        BY <1>0, <2>3 DEF RecordWrite, Update
      <3> QED BY <1>0, <2>3, <3>1 DEF RecordWrite, Update
    <2> QED BY <1>5, <2>1, <2>2, <2>3
            DEF ProbeStep, ProbeOne, ProbeCanceled, RecordReload
  <1>6. ASSUME NEW w \in WorkspaceIds, CreateStep(w)
        PROVE  Removed \/ (CreateInsert(v) /\ InsertOK(v, creq[v]))
    <2>1. CASE CreateInsert(w)
      BY <1>0, <2>1 DEF CreateInsert, Insert
    <2>2. CASE CreateUndo(w)
      BY <1>2, <2>2 DEF CreateUndo
    <2> QED BY <1>6, <2>1, <2>2 DEF CreateStep, CreateSubmit
  <1>7. ASSUME UNCHANGED byID PROVE FALSE
    BY <1>7
  <1>8. ASSUME NEW k \in Workers, Dequeue(k) \/ WorkerExit(k) \/ ExpireInstall(k) PROVE FALSE
    BY <1>7, <1>8 DEF Dequeue, WorkerExit, ExpireInstall
  <1>9. ASSUME NEW w \in WorkspaceIds, Age(w) \/ \E a \in AliasKeys, o \in DirOptions : CreateCheck(w, a, o)
        PROVE  FALSE
    BY <1>7, <1>9 DEF Age, CreateCheck
  <1>10. ASSUME Tick \/ TickDone \/ SchedulerExit \/ Start \/ StopBegin \/ StopStep \/ StopExpire
         PROVE FALSE
    BY <1>7, <1>10 DEF Tick, TickDone, SchedulerExit, Start, StopBegin, StopStep, StopScheduler, StopCancel,
                StopWorkers, StopClose, Close, StopExpire
  <1>11. ASSUME UNCHANGED vars PROVE FALSE
    BY <1>7, <1>11 DEF vars
  <1> HIDE DEF Moved, Removed
  <1>12. \/ CreateInsert(v) /\ InsertOK(v, creq[v])
         \/ Removed \/ Moved
         \/ \E k \in Workers : LET row == [wlatest[k] EXCEPT !.placed = TRUE]
                               IN PersistPlugins(k) /\ wjob[k].id = v /\ UpdateOK(v, row) /\ byID'[v] = row
         \/ LET row == [platest[v] EXCEPT !.code = ProbeCode(v)]
            IN RecordWrite(v) /\ UpdateOK(v, row) /\ byID'[v] = row
    BY <1>3, <1>4, <1>5, <1>6, <1>8, <1>9, <1>10, <1>11
       DEF Next, ControllerNext, SchedulerNext, FacadeNext, Terminated
  <1> QED BY <1>12 DEF Moved, Removed

(* The copies of a row that goroutines hold between their reload and their *)
(* Update: a probe holds a settled row of a workspace that was created, a  *)
(* worker a row in init; with NoLostUpdate this is inductive.              *)
HeldCopies ==
  /\ \A w \in WorkspaceIds : ppc[w] = "write" =>
       platest[w].status \in {"healthy", "failed"} /\ cpc[w] \notin {"new", "checked"}
  /\ \A k \in Workers : wpc[k] = "persist" => wlatest[k].status = "init"

(* A Create that has inserted its row never goes back.                     *)
LEMMA CreateMovesOn ==
  ASSUME TypeInv, [Next]_vars, NEW w \in WorkspaceIds
  PROVE  /\ cpc[w] \notin {"new", "checked"} => cpc'[w] \notin {"new", "checked"}
         /\ cpc[w] = "done" => cpc'[w] = "done"
  <1> USE DEF TypeInv, TypeOK, FacadeTypeOK
  <1>1. ASSUME NEW v \in WorkspaceIds, CreateStep(v) PROVE cpc[w] # "done" \/ cpc'[w] = cpc[w]
    BY <1>1 DEF CreateStep, CreateInsert, CreateSubmit, CreateUndo, CreateReturns
  <1>2. ASSUME NEW v \in WorkspaceIds, CreateStep(v)
        PROVE  cpc[w] \notin {"new", "checked"} => cpc'[w] \notin {"new", "checked"}
    BY <1>2 DEF CreateStep, CreateInsert, CreateSubmit, CreateUndo, CreateReturns
  <1>3. ASSUME NEW v \in WorkspaceIds, NEW alias \in AliasKeys, NEW dir \in DirOptions,
               CreateCheck(v, alias, dir)
        PROVE  cpc[w] # "new" => cpc'[w] = cpc[w]
    BY <1>3 DEF CreateCheck, CreateReturns
  <1> QED BY <1>1, <1>2, <1>3, RepoSteps

(* A probe holds a copy only because it held it before or reloads it now.  *)
LEMMA ProbeCopySteps ==
  ASSUME TypeInv, [Next]_vars, NEW w \in WorkspaceIds, ppc'[w] = "write"
  PROVE  \/ ppc[w] = "write" /\ platest'[w] = platest[w] /\ ~RecordWrite(w)
         \/ /\ GetOK(w) /\ byID[w].status \in {"healthy", "failed"}
            /\ platest'[w] = byID[w] /\ UNCHANGED byID
  <1> USE DEF TypeInv, TypeOK, SchedulerTypeOK
  <1>1. CASE UNCHANGED <<ppc, platest>>
    BY <1>1 DEF RecordWrite, ProbeDone
  <1>2. ASSUME NEW v \in WorkspaceIds, ProbeStep(v)
        PROVE  \/ ppc[w] = "write" /\ platest'[w] = platest[w] /\ ~RecordWrite(w)
               \/ /\ GetOK(w) /\ byID[w].status \in {"healthy", "failed"}
                  /\ platest'[w] = byID[w] /\ UNCHANGED byID
    <2>1. CASE FailTimedOut(v)
      BY <1>1, <2>1 DEF FailTimedOut
    <2>2. CASE ProbeOne(v) \/ ProbeCanceled(v)
      BY <2>2 DEF ProbeOne, ProbeCanceled, RecordWrite, ProbeDone
    <2>3. CASE RecordChange(v) \/ RecordWrite(v)
      BY <2>3 DEF RecordChange, RecordWrite, ProbeDone
    <2>4. CASE RecordReload(v)
      BY <2>4 DEF RecordReload, RecordWrite, ProbeDone, repoVars
    <2> QED BY <1>2, <2>1, <2>2, <2>3, <2>4 DEF ProbeStep
  <1>3. CASE Tick
    BY <1>3 DEF Tick
  <1>4. CASE TickDone \/ SchedulerExit
    BY <1>1, <1>4 DEF TickDone, SchedulerExit
  <1>5. ASSUME ControllerNext PROVE UNCHANGED <<ppc, platest>>
    <2> USE DEF otherVars, schedVars
    <2>1. ASSUME NEW k \in Workers, Dequeue(k) \/ WorkerExit(k) \/ WorkerStep(k) \/ ExpireInstall(k)
          PROVE  UNCHANGED <<ppc, platest>>
      BY <2>1 DEF Dequeue, WorkerExit, ExpireInstall, WorkerStep, StartInstall, RunInit, AttachPlugins,
                  InstallAgent, WritePhase, ConfirmProbe, Reload, PersistPlugins, CommitHealthy,
                  TransitionToFailed, CleanupStale, FinishInstall
    <2>2. ASSUME NEW d \in Deleters, DeleteStep(d) \/ DeleteAbandon(d)
          PROVE  UNCHANGED <<ppc, platest>>
      BY <2>2 DEF DeleteStep, DeleteTake, DeleteWaitIdle, DeleteGet, DeleteOpen, DeleteClear, DeleteRemove,
                  DeleteAbandon
    <2> QED BY <1>5, <2>1, <2>2 DEF ControllerNext, Age
  <1>6. ASSUME FacadeNext PROVE UNCHANGED <<ppc, platest>>
    BY <1>6 DEF FacadeNext, CreateCheck, CreateStep, CreateInsert, CreateSubmit, CreateUndo, DeleteCall,
                DeleteBegin, Start, StopBegin, StopStep, StopScheduler, StopCancel, StopWorkers, StopClose,
                StopExpire, otherVars, schedVars
  <1>7. CASE UNCHANGED vars
    BY <1>1, <1>7 DEF vars, schedVars
  <1> QED BY <1>1, <1>2, <1>3, <1>4, <1>5, <1>6, <1>7 DEF Next, SchedulerNext, Terminated

(* A worker's control point and locals change by its own steps only.       *)
LEMMA WorkerFrame ==
  ASSUME TypeInv, [Next]_vars, NEW k \in Workers
  PROVE  \/ wpc'[k] = wpc[k] /\ wjob'[k] = wjob[k] /\ wlatest'[k] = wlatest[k]
         \/ Dequeue(k) \/ WorkerExit(k) \/ WorkerStep(k)
  <1> DEFINE Same == wpc'[k] = wpc[k] /\ wjob'[k] = wjob[k] /\ wlatest'[k] = wlatest[k]
  <1> USE DEF TypeInv, TypeOK, ControllerTypeOK
  <1>1. ASSUME NEW l \in Workers \ {k}, Dequeue(l) \/ WorkerExit(l) \/ WorkerStep(l)
        PROVE  Same
    <2> USE DEF Goto, GiveUp
    <2>1. CASE Dequeue(l) \/ WorkerExit(l) \/ FinishInstall(l)
      BY <2>1 DEF Dequeue, WorkerExit, FinishInstall
    <2>2. CASE StartInstall(l) \/ RunInit(l) \/ AttachPlugins(l) \/ InstallAgent(l)
      BY <2>2 DEF StartInstall, RunInit, AttachPlugins, InstallAgent, WritePhase
    <2>3. CASE ConfirmProbe(l) \/ PersistPlugins(l)
      BY <2>3 DEF ConfirmProbe, PersistPlugins
    <2>4. CASE CommitHealthy(l) \/ TransitionToFailed(l) \/ CleanupStale(l)
      BY <2>4 DEF CommitHealthy, TransitionToFailed, CleanupStale
    <2>5. CASE Reload(l)
      BY <2>5 DEF Reload
    <2> QED BY <1>1, <2>1, <2>2, <2>3, <2>4, <2>5 DEF WorkerStep
  <1>2. ASSUME NEW l \in Workers, ExpireInstall(l) PROVE Same
    BY <1>2 DEF ExpireInstall
  <1>3. ASSUME NEW d \in Deleters, DeleteStep(d) \/ DeleteAbandon(d) PROVE Same
    BY <1>3 DEF DeleteStep, DeleteTake, DeleteWaitIdle, DeleteGet, DeleteOpen, DeleteClear, DeleteRemove,
                DeleteAbandon, workerVars
  <1>4. ASSUME NEW w \in WorkspaceIds, Age(w) PROVE Same
    BY <1>4 DEF Age, workerVars
  <1>5. ASSUME SchedulerNext PROVE Same
    BY <1>5 DEF SchedulerNext, Tick, ProbeStep, FailTimedOut, ProbeOne, ProbeCanceled, RecordChange,
                RecordReload, RecordWrite, TickDone, SchedulerExit, controllerVars, workerVars
  <1>6. ASSUME FacadeNext PROVE Same
    BY <1>6 DEF FacadeNext, CreateCheck, CreateStep, CreateInsert, CreateSubmit, CreateUndo, DeleteCall,
                DeleteBegin, Start, StopBegin, StopStep, StopScheduler, StopCancel, StopWorkers, StopClose,
                StopExpire, controllerVars, workerVars
  <1>7. ASSUME UNCHANGED vars PROVE Same
    BY <1>7 DEF vars, controllerVars, workerVars
  <1> QED BY <1>1, <1>2, <1>3, <1>4, <1>5, <1>6, <1>7 DEF Next, ControllerNext, Terminated

(* A Delete call's control point and locals change by its own steps only.  *)
LEMMA DeleteFrame ==
  ASSUME TypeInv, [Next]_vars, NEW d \in Deleters
  PROVE  \/ dpc'[d] = dpc[d] /\ dtarget'[d] = dtarget[d] /\ drow'[d] = drow[d] /\ dhandle'[d] = dhandle[d]
         \/ DeleteStep(d) \/ DeleteAbandon(d) \/ \E w \in WorkspaceIds : DeleteCall(d, w)
  <1> DEFINE Same == /\ dpc'[d] = dpc[d] /\ dtarget'[d] = dtarget[d]
                     /\ drow'[d] = drow[d] /\ dhandle'[d] = dhandle[d]
  <1> USE DEF TypeInv, TypeOK, ControllerTypeOK
  <1>1. ASSUME NEW e \in Deleters \ {d},
               DeleteStep(e) \/ DeleteAbandon(e) \/ \E w \in WorkspaceIds : DeleteCall(e, w)
        PROVE  Same
    BY <1>1 DEF DeleteStep, DeleteTake, DeleteWaitIdle, DeleteGet, DeleteOpen, DeleteClear, DeleteRemove,
                DeleteAbandon, DeleteCall, DeleteBegin, DeleteGoto, DeleteReturn
  <1>2. ASSUME NEW k \in Workers, Dequeue(k) \/ WorkerExit(k) \/ WorkerStep(k) \/ ExpireInstall(k)
        PROVE  Same
    BY <1>2 DEF Dequeue, WorkerExit, ExpireInstall, WorkerStep, StartInstall, RunInit, AttachPlugins,
                InstallAgent, WritePhase, ConfirmProbe, Reload, PersistPlugins, CommitHealthy,
                TransitionToFailed, CleanupStale, FinishInstall, deleteVars
  <1>3. ASSUME NEW w \in WorkspaceIds, Age(w) PROVE Same
    BY <1>3 DEF Age, deleteVars
  <1>4. ASSUME SchedulerNext PROVE Same
    BY <1>4 DEF SchedulerNext, Tick, ProbeStep, FailTimedOut, ProbeOne, ProbeCanceled, RecordChange,
                RecordReload, RecordWrite, TickDone, SchedulerExit, controllerVars, deleteVars
  <1>5. ASSUME NEW w \in WorkspaceIds,
               CreateStep(w) \/ \E a \in AliasKeys, o \in DirOptions : CreateCheck(w, a, o)
        PROVE  Same
    BY <1>5 DEF CreateCheck, CreateStep, CreateInsert, CreateSubmit, CreateUndo, controllerVars, deleteVars
  <1>6. ASSUME Start \/ StopBegin \/ StopStep \/ StopExpire PROVE Same
    BY <1>6 DEF Start, StopBegin, StopStep, StopScheduler, StopCancel, StopWorkers, StopClose,
                StopExpire, controllerVars, deleteVars
  <1>7. ASSUME UNCHANGED vars PROVE Same
    BY <1>7 DEF vars, controllerVars, deleteVars
  <1> QED BY <1>1, <1>2, <1>3, <1>4, <1>5, <1>6, <1>7 DEF Next, ControllerNext, FacadeNext, Terminated

(* A worker holds a copy only because it held it before or reloads it now. *)
LEMMA WorkerCopySteps ==
  ASSUME TypeInv, [Next]_vars, NEW k \in Workers, wpc'[k] = "persist"
  PROVE  \/ /\ wpc[k] = "persist" /\ wlatest'[k] = wlatest[k] /\ wjob'[k] = wjob[k]
            /\ ~PersistPlugins(k)
         \/ /\ GetOK(wjob[k].id) /\ byID[wjob[k].id].status = "init"
            /\ wlatest'[k] = byID[wjob[k].id] /\ UNCHANGED <<byID, wjob>>
  <1> USE DEF TypeInv, TypeOK, ControllerTypeOK, Goto, GiveUp
  <1>1. ~Dequeue(k) /\ ~WorkerExit(k) /\ ~PersistPlugins(k)
    BY DEF Dequeue, WorkerExit, PersistPlugins
  <1>2. ASSUME WorkerStep(k) PROVE Reload(k)
    BY <1>2 DEF WorkerStep, StartInstall, RunInit, AttachPlugins, InstallAgent, WritePhase, ConfirmProbe,
                PersistPlugins, CommitHealthy, TransitionToFailed, CleanupStale, FinishInstall
  <1>3. CASE Reload(k)
    BY <1>3 DEF Reload, repoVars
  <1> QED BY <1>1, <1>2, <1>3, WorkerFrame

(* One step keeps the copies good: the only other writers of the row are   *)
(* refused by Update's and the compare-and-swap's test of the status, or   *)
(* kept away by OneInstallerPerWorkspace.                                  *)
LEMMA CopyStep ==
  ASSUME TypeInv, RowsAreCreated, OneInstallerPerWorkspace, HeldCopies, NoLostUpdate, [Next]_vars
  PROVE  HeldCopies' /\ NoLostUpdate'
  <1>1. ASSUME NEW w \in WorkspaceIds, ppc'[w] = "write"
        PROVE  /\ platest'[w].status \in {"healthy", "failed"} /\ cpc'[w] \notin {"new", "checked"}
               /\ Exists(w)' => byID'[w] = platest'[w]
    <2>1. CASE GetOK(w) /\ byID[w].status \in {"healthy", "failed"} /\ platest'[w] = byID[w]
               /\ UNCHANGED byID
      <3>1. cpc[w] \notin {"new", "checked"}
        BY <2>1 DEF GetOK, RowsAreCreated
      <3> QED BY <2>1, <3>1, CreateMovesOn
    <2>2. CASE ppc[w] = "write" /\ platest'[w] = platest[w] /\ ~RecordWrite(w)
      <3>1. platest[w].status \in {"healthy", "failed"} /\ cpc[w] \notin {"new", "checked"}
        BY <2>2 DEF HeldCopies
      <3>2. ASSUME Exists(w)' PROVE byID'[w] = platest[w]
        <4>1. CASE byID'[w] = byID[w]
          BY <2>2, <3>2, <4>1 DEF NoLostUpdate, Exists
        <4>2. CASE byID'[w] # byID[w]
          <5>1. ~CreateInsert(w)
            BY <3>1 DEF CreateInsert
          <5>2. Exists(w) => byID[w] = platest[w]
            BY <2>2 DEF NoLostUpdate
          <5>3. ~RecordChange(w)
            BY <2>2 DEF RecordChange
          <5>4. ASSUME NEW k \in Workers, PersistPlugins(k), wjob[k].id = w,
                       UpdateOK(w, [wlatest[k] EXCEPT !.placed = TRUE])
                PROVE  FALSE
            <6>1. wlatest[k] \in Rows /\ wlatest[k].status = "init"
              BY <5>4 DEF PersistPlugins, TypeInv, LocalsDefined, HeldCopies
            <6>2. [wlatest[k] EXCEPT !.placed = TRUE].status = "init"
              BY <6>1 DEF Rows
            <6> QED BY <3>1, <5>2, <5>4, <6>2 DEF UpdateOK, GetOK
          <5> QED BY <2>2, <3>1, <3>2, <4>2, <5>1, <5>2, <5>3, <5>4, RowFate
        <4> QED BY <4>1, <4>2
      <3> QED BY <2>2, <3>1, <3>2, CreateMovesOn
    <2> QED BY <1>1, <2>1, <2>2, ProbeCopySteps
  <1>2. ASSUME NEW k \in Workers, wpc'[k] = "persist"
        PROVE  /\ wlatest'[k].status = "init"
               /\ HasStatus(wjob[k].id, "init")' => byID'[wjob'[k].id] = wlatest'[k]
    <2>1. CASE GetOK(wjob[k].id) /\ byID[wjob[k].id].status = "init"
               /\ wlatest'[k] = byID[wjob[k].id] /\ UNCHANGED <<byID, wjob>>
      BY <2>1
    <2>2. CASE wpc[k] = "persist" /\ wlatest'[k] = wlatest[k] /\ wjob'[k] = wjob[k]
               /\ ~PersistPlugins(k)
      <3>0. PICK v \in WorkspaceIds : v = wjob[k].id
        BY <2>2, JobFacts
      <3>1. wlatest[k].status = "init" /\ wjob[k] # NoJob
        BY <2>2, <3>0, NoIdAssumption DEF HeldCopies, NoJob
      <3>2. cpc[v] = "done" /\ \A l \in Workers : wjob[l].id = v => l = k
        BY <3>0, <3>1 DEF OneInstallerPerWorkspace, Running
      <3>3. ASSUME Exists(v)', byID'[v].status = "init" PROVE byID'[v] = wlatest[k]
        <4>1. CASE byID'[v] = byID[v]
          BY <2>2, <3>0, <3>3, <4>1 DEF NoLostUpdate, Exists, HasStatus
        <4>2. CASE byID'[v] # byID[v]
          <5>1. ~CreateInsert(v)
            BY <3>2 DEF CreateInsert
          <5>2. \A l \in Workers : PersistPlugins(l) => wjob[l].id # v
            BY <2>2, <3>2
          <5>3. ASSUME RecordWrite(v), byID'[v] = [platest[v] EXCEPT !.code = ProbeCode(v)]
                PROVE  FALSE
            <6>1. platest[v] \in Rows /\ platest[v].status # "init"
              BY <3>1, <5>3 DEF RecordWrite, TypeInv, LocalsDefined, HeldCopies
            <6> QED BY <3>3, <5>3, <6>1 DEF Rows
          <5> QED BY <3>1, <3>3, <4>2, <5>1, <5>2, <5>3, RowFate
        <4> QED BY <4>1, <4>2
      <3> QED BY <2>2, <3>0, <3>1, <3>3 DEF HasStatus, Exists
    <2> QED BY <1>2, <2>1, <2>2, WorkerCopySteps
  <1> QED BY <1>1, <1>2 DEF HeldCopies, NoLostUpdate

(* Reload-then-Update loses no update, for any number of workspaces,       *)
(* workers and callers, whenever a Delete or a Stop comes in between: the  *)
(* copy a probe or a worker is about to write back is still the row.       *)
THEOREM UpdatesAreNotLost == Spec => []NoLostUpdate
  <1>1. Init => HeldCopies /\ NoLostUpdate
    BY DEF Init, ControllerInit, SchedulerInit, HeldCopies, NoLostUpdate
  <1>2. TypeInv /\ RowsAreCreated /\ OneInstallerPerWorkspace /\ (HeldCopies /\ NoLostUpdate)
          /\ [Next]_vars => (HeldCopies /\ NoLostUpdate)'
    BY CopyStep
  <1>3. Spec => []TypeInv
    BY TypeCorrect, PTL DEF TypeInv
  <1> QED BY <1>1, <1>2, <1>3, RowsCreated, InstallerExclusion, PTL DEF Spec

(***************************************************************************)
(* A workspace in init has somebody who will take it on.                   *)
(***************************************************************************)

(* A row is in init only because it was before or is inserted now.         *)
LEMMA InitIsOld ==
  ASSUME TypeInv, [Next]_vars, NEW v \in WorkspaceIds, HasStatus(v, "init")'
  PROVE  HasStatus(v, "init") \/ (CreateInsert(v) /\ InsertOK(v, creq[v]))
  <1> USE DEF HasStatus
  <1>1. CASE byID'[v] = byID[v]
    BY <1>1 DEF Exists
  <1>2. ASSUME NEW row, UpdateOK(v, row), byID'[v] = row PROVE HasStatus(v, "init")
    BY <1>2 DEF UpdateOK, GetOK
  <1>3. CASE byID'[v] # byID[v]
    BY <1>2, <1>3, RowFate
  <1> QED BY <1>1, <1>3

(* The repository is closed once and for all.                              *)
LEMMA ClosedStaysClosed ==
  ASSUME TypeInv, [Next]_vars, repoClosed
  PROVE  repoClosed'
  <1> USE DEF repoVars
  <1>1. CASE ControllerNext
    BY <1>1 DEF ControllerNext, Dequeue, WorkerExit, ExpireInstall, WorkerStep, StartInstall, RunInit,
                AttachPlugins, InstallAgent, WritePhase, ConfirmProbe, Reload, PersistPlugins,
                CommitHealthy, TransitionToFailed, CleanupStale, FinishInstall, Age, DeleteStep, DeleteTake,
                DeleteWaitIdle, DeleteGet, DeleteOpen, DeleteClear, DeleteRemove, DeleteAbandon, Update,
                UpdateStatusCAS, Delete
  <1>2. CASE SchedulerNext
    BY <1>2 DEF SchedulerNext, Tick, ProbeStep, FailTimedOut, ProbeOne, ProbeCanceled, RecordChange,
                RecordReload, RecordWrite, TickDone, SchedulerExit, Update, UpdateStatusCAS
  <1>3. CASE FacadeNext
    BY <1>3 DEF FacadeNext, CreateCheck, CreateStep, CreateInsert, CreateSubmit, CreateUndo, DeleteCall,
                DeleteBegin, Start, StopBegin, StopStep, StopScheduler, StopCancel, StopWorkers, StopClose,
                StopExpire, Insert, Delete, Close
  <1>4. CASE UNCHANGED vars
    BY <1>4 DEF vars
  <1> QED BY <1>1, <1>2, <1>3, <1>4 DEF Next, Terminated

(* A worker that is done with its install has settled the row: whichever   *)
(* way it left the install, the row is not in init any more.               *)
SettledWhenDone ==
  \A k \in Workers : wpc[k] \in {"cleanup", "finish"} /\ ~repoClosed =>
    ~HasStatus(wjob[k].id, "init")

(* How a worker gets to its last steps.                                    *)
LEMMA SettledStep ==
  ASSUME TypeInv, OneInstallerPerWorkspace, SettledWhenDone, [Next]_vars
  PROVE  SettledWhenDone'
  <1> SUFFICES ASSUME NEW k \in Workers, wpc'[k] \in {"cleanup", "finish"}, ~repoClosed',
                      HasStatus(wjob[k].id, "init")'
               PROVE  FALSE
    BY DEF SettledWhenDone
  <1> USE DEF TypeInv, TypeOK, ControllerTypeOK
  <1>0. ~repoClosed
    BY ClosedStaysClosed
  <1>1. ~Dequeue(k) /\ ~WorkerExit(k)
    BY DEF Dequeue, WorkerExit, Goto
  <1>2. wpc[k] \notin {"idle", "exit"} /\ wjob'[k] = wjob[k]
    <2>1. CASE WorkerStep(k)
      BY <2>1 DEF WorkerStep, StartInstall, RunInit, AttachPlugins, InstallAgent, WritePhase, ConfirmProbe,
                  Reload, PersistPlugins, CommitHealthy, TransitionToFailed, CleanupStale, FinishInstall, Goto
    <2> QED BY <1>1, <2>1, WorkerFrame
  <1>3. PICK v \in WorkspaceIds : v = wjob[k].id
    BY <1>2, JobFacts
  <1>4. cpc[v] = "done" /\ HasStatus(v, "init")'
    BY <1>2, <1>3 DEF OneInstallerPerWorkspace, Running, HasStatus, Exists
  <1>5. HasStatus(v, "init")
    BY <1>4, InitIsOld DEF CreateInsert
  <1>6. wpc[k] \notin {"cleanup", "finish"}
    BY <1>0, <1>3, <1>5 DEF SettledWhenDone
  <1>7. Reload(k) \/ CommitHealthy(k) \/ TransitionToFailed(k)
    <2>1. ASSUME StartInstall(k) \/ RunInit(k) \/ AttachPlugins(k) \/ InstallAgent(k) \/ ConfirmProbe(k)
                 \/ PersistPlugins(k) \/ CleanupStale(k) \/ FinishInstall(k)
          PROVE  FALSE
      BY <1>6, <2>1 DEF StartInstall, RunInit, AttachPlugins, InstallAgent, WritePhase, ConfirmProbe,
                  PersistPlugins, CleanupStale, FinishInstall, Goto, GiveUp
    <2> QED BY <1>1, <1>6, <2>1, WorkerFrame DEF WorkerStep
  <1>8. GetOK(v) /\ byID[v].status = "init"
    BY <1>0, <1>5 DEF GetOK, HasStatus
  <1>9. ~Reload(k)
    BY <1>3, <1>8 DEF Reload, Goto, GiveUp
  <1>10. ASSUME NEW next \in {"healthy", "failed"}, NEW code \in Codes,
                UpdateStatusCAS(v, "controller", "init", next, code)
         PROVE  FALSE
    <2>1. CASOK(v, "controller", "init", next)
      BY <1>8 DEF CASOK, TransitionByWriter
    <2>2. byID[v] \in Rows
      BY <1>8 DEF GetOK, Exists, RepoTypeOK
    <2>3. byID'[v] = WithStatus(byID[v], next, code)
      BY <1>10, <2>1 DEF UpdateStatusCAS, RepoTypeOK
    <2>4. next \in Statuses
      BY DEF Statuses
    <2>5. byID'[v].status = next
      BY <2>2, <2>3, <2>4, WithStatusFacts
    <2> QED BY <1>4, <2>5 DEF HasStatus
  <1>11. "none" \in Codes /\ wcode[k] \in Codes
    BY DEF Codes
  <1> QED BY <1>3, <1>7, <1>9, <1>10, <1>11 DEF CommitHealthy, TransitionToFailed

(* A queued job stays, is taken by a worker, or is taken by a Delete.      *)
LEMMA QueuedJobSteps ==
  ASSUME TypeInv, [Next]_vars, NEW job \in queue
  PROVE  \/ job \in queue'
         \/ \E k \in Workers : Dequeue(k) /\ wjob'[k] = job
         \/ \E d \in Deleters : DeleteTake(d) /\ dtarget[d] = job.id
  <1> USE DEF TypeInv, TypeOK, ControllerTypeOK
  <1>1. ASSUME NEW k \in Workers, Dequeue(k) PROVE job \in queue' \/ wjob'[k] = job
    BY <1>1 DEF Dequeue
  <1>2. ASSUME NEW d \in Deleters, DeleteTake(d) PROVE job \in queue' \/ dtarget[d] = job.id
    BY <1>2 DEF DeleteTake
  <1>3. ASSUME NEW k \in Workers, FinishInstall(k) PROVE job \in queue'
    BY <1>3 DEF FinishInstall, queueVars
  <1>4. ASSUME NEW d \in Deleters, NEW w \in WorkspaceIds, DeleteCall(d, w) PROVE job \in queue'
    BY <1>4 DEF DeleteCall, DeleteBegin, queueVars
  <1>5. ASSUME NEW w \in WorkspaceIds, CreateStep(w) PROVE job \in queue'
    BY <1>5 DEF CreateStep, CreateInsert, CreateSubmit, CreateUndo, Enqueue, controllerVars, queueVars
  <1>6. ASSUME NEW w \in WorkspaceIds, NEW alias \in AliasKeys, NEW dir \in DirOptions,
               CreateCheck(w, alias, dir)
        PROVE  job \in queue'
    BY <1>6 DEF CreateCheck, controllerVars, queueVars
  <1> QED BY <1>1, <1>2, <1>3, <1>4, <1>5, <1>6, InstallSteps

(* Ownership of an init row is handed on, never dropped: by Submit to the  *)
(* queue, by dequeue to a worker, by takeAndCancelQueuedInstalls to the    *)
(* Delete; a worker or a Delete lets go only of a settled or removed row.  *)
LEMMA OwnerStep ==
  ASSUME TypeInv, OneInstallerPerWorkspace, SettledWhenDone, InitHasOwner, [Next]_vars
  PROVE  InitHasOwner'
  <1> DEFINE Owned(w) == \/ cpc[w] \in {"inserted", "undo"}
                         \/ Queued(w)
                         \/ \E k \in Workers : wjob[k].id = w /\ wpc[k] \notin {"cleanup", "finish"}
                         \/ \E d \in Deleters : /\ dtarget[d] = w
                                                /\ dpc[d] \in {"wait", "get", "open", "clear", "remove"}
  <1> SUFFICES ASSUME NEW w \in WorkspaceIds, HasStatus(w, "init")', ~repoClosed'
               PROVE  Owned(w)'
    BY DEF InitHasOwner
  <1> USE DEF TypeInv, TypeOK, ControllerTypeOK, FacadeTypeOK
  <1>0. ~repoClosed /\ SettledWhenDone'
    BY ClosedStaysClosed, SettledStep
  <1>1. CASE CreateInsert(w) /\ InsertOK(w, creq[w])
    BY <1>1 DEF CreateInsert
  <1>2. CASE HasStatus(w, "init")
    <2>0. GetOK(w)
      BY <1>0, <1>2 DEF GetOK, HasStatus
    <2>1. ~Delete(w)
      BY <2>0 DEF Delete, HasStatus, Exists, RepoTypeOK
    <2>2. CASE cpc[w] \in {"inserted", "undo"}
      <3>1. ASSUME NEW v \in WorkspaceIds, CreateStep(v) PROVE Owned(w)'
        <4>1. CASE v # w
          BY <2>2, <3>1, <4>1 DEF CreateStep, CreateInsert, CreateSubmit, CreateUndo, CreateReturns
        <4>2. CASE v = w
          <5>1. CreateSubmit(w)
            BY <2>1, <2>2, <3>1, <4>2 DEF CreateStep, CreateInsert, CreateUndo
          <5>2. CASE SubmitOK
            <6>1. [ticket |-> tickets, id |-> w, dir |-> creq[w].dir] \in queue'
              BY <5>1, <5>2 DEF CreateSubmit, Enqueue
            <6> QED BY <6>1 DEF Queued
          <5>3. CASE ~SubmitOK
            BY <5>1, <5>3 DEF CreateSubmit
          <5> QED BY <5>2, <5>3
        <4> QED BY <4>1, <4>2
      <3>2. ASSUME NEW v \in WorkspaceIds, NEW alias \in AliasKeys, NEW dir \in DirOptions,
                   CreateCheck(v, alias, dir)
            PROVE  Owned(w)'
        BY <2>2, <3>2 DEF CreateCheck, CreateReturns
      <3> QED BY <2>2, <3>1, <3>2, RepoSteps
    <2>3. CASE Queued(w)
      <3>1. PICK job \in queue : job.id = w
        BY <2>3 DEF Queued
      <3>2. CASE job \in queue'
        BY <3>1, <3>2 DEF Queued
      <3>3. ASSUME NEW k \in Workers, Dequeue(k), wjob'[k] = job PROVE Owned(w)'
        BY <3>1, <3>3 DEF Dequeue, Goto
      <3>4. ASSUME NEW d \in Deleters, DeleteTake(d), dtarget[d] = job.id PROVE Owned(w)'
        BY <3>1, <3>4 DEF DeleteTake, DeleteGoto
      <3> QED BY <3>2, <3>3, <3>4, QueuedJobSteps
    <2>4. ASSUME NEW k \in Workers, wjob[k].id = w, wpc[k] \notin {"cleanup", "finish"}
          PROVE  Owned(w)'
      <3>1. wpc[k] \notin {"idle", "exit"}
        BY <2>4, NoIdAssumption DEF LocalsDefined, NoJob
      <3>2. wjob'[k] = wjob[k]
        <4>1. ASSUME WorkerStep(k) PROVE wjob'[k] = wjob[k]
          BY <2>4, <4>1 DEF WorkerStep, StartInstall, RunInit, AttachPlugins, InstallAgent, WritePhase,
                            ConfirmProbe, Reload, PersistPlugins, CommitHealthy, TransitionToFailed,
                            CleanupStale, FinishInstall
        <4> QED BY <3>1, <4>1, WorkerFrame DEF Dequeue, WorkerExit
      <3>3. wpc'[k] \notin {"cleanup", "finish"}
        BY <1>0, <2>4, <3>2 DEF SettledWhenDone, HasStatus, Exists
      <3> QED BY <2>4, <3>2, <3>3
    <2>5. ASSUME NEW d \in Deleters, dtarget[d] = w,
                 dpc[d] \in {"wait", "get", "open", "clear", "remove"}
          PROVE  Owned(w)'
      <3> USE DEF DeleteGoto
      <3>1. CASE dpc'[d] = dpc[d] /\ dtarget'[d] = dtarget[d]
        BY <2>5, <3>1
      <3>2. CASE DeleteAbandon(d)
        <4>1. PICK k \in Workers : wjob[k].id = w
          BY <2>5, <3>2 DEF DeleteAbandon, Running
        <4>2. UNCHANGED <<wjob, wpc>>
          BY <3>2 DEF DeleteAbandon, workerVars
        <4>3. wpc[k] \notin {"cleanup", "finish"}
          BY <1>0, <1>2, <4>1 DEF SettledWhenDone
        <4> QED BY <4>1, <4>2, <4>3
      <3>3. CASE DeleteStep(d)
        <4>1. ~DeleteTake(d) /\ ~DeleteRemove(d)
          BY <2>1, <2>5 DEF DeleteTake, DeleteRemove
        <4>2. CASE DeleteWaitIdle(d) \/ DeleteOpen(d) \/ DeleteClear(d)
          BY <2>5, <4>2 DEF DeleteWaitIdle, DeleteOpen, DeleteClear
        <4>3. CASE DeleteGet(d)
          BY <2>0, <2>5, <4>3 DEF DeleteGet
        <4> QED BY <3>3, <4>1, <4>2, <4>3 DEF DeleteStep
      <3>4. ~ \E v \in WorkspaceIds : DeleteCall(d, v)
        BY <2>5 DEF DeleteCall, DeleteBegin
      <3> QED BY <3>1, <3>2, <3>3, <3>4, DeleteFrame
    <2> HIDE DEF Owned
    <2>6. Owned(w)
      BY <1>0, <1>2 DEF InitHasOwner, Owned
    <2> QED BY <2>2, <2>3, <2>4, <2>5, <2>6 DEF Owned
  <1> QED BY <1>1, <1>2, InitIsOld

(* No workspace is forgotten in init: whatever the order of Submit, of     *)
(* dequeue, of Deletes that give up and of Stop, someone is still bound to *)
(* settle or remove every init row, also when callers delete early.        *)
THEOREM InitIsOwned == Spec => []InitHasOwner
  <1>1. Init => SettledWhenDone /\ InitHasOwner
    BY DEF Init, RepoInit, ControllerInit, SettledWhenDone, InitHasOwner, HasStatus, Exists
  <1>2. TypeInv /\ OneInstallerPerWorkspace /\ (SettledWhenDone /\ InitHasOwner) /\ [Next]_vars
          => (SettledWhenDone /\ InitHasOwner)'
    BY SettledStep, OwnerStep
  <1>3. Spec => []TypeInv
    BY TypeCorrect, PTL DEF TypeInv
  <1> QED BY <1>1, <1>2, <1>3, InstallerExclusion, PTL DEF Spec

(***************************************************************************)
(* A Stop in time leaves nobody at work and nobody waiting.                *)
(***************************************************************************)

(* How far Stop has got and what that says of the others.                  *)
StopOrder ==
  /\ repoClosed <=> phase = "closed"
  /\ phase \in {"ctrl", "canceled", "drain", "closed"} => stopped
  /\ ~started => queue = {} /\ \A k \in Workers : wpc[k] = "idle"
  /\ \A k \in Workers : wpc[k] = "exit" => queue = {} /\ stopped
  /\ ~stopExpired /\ phase \in {"ctrl", "canceled", "drain", "closed"} => spc \in {"off", "exit"}
  /\ ~stopExpired /\ phase \in {"drain", "closed"} =>
       ~started \/ \A k \in Workers : wpc[k] = "exit"

(* Start and Stop are the only ones to move the manager's phase.           *)
LEMMA PhaseSteps ==
  ASSUME TypeInv, [Next]_vars
  PROVE  \/ UNCHANGED <<phase, stopExpired, started, stopped, repoClosed>>
         \/ Start \/ StopBegin \/ StopStep \/ StopExpire
  <1> DEFINE Same == UNCHANGED <<phase, stopExpired, started, stopped, repoClosed>>
  <1> USE DEF otherVars, facadeVars, repoVars, queueVars, controllerVars
  <1>1. ASSUME NEW k \in Workers, Dequeue(k) \/ WorkerExit(k) \/ WorkerStep(k) \/ ExpireInstall(k)
        PROVE  Same
    BY <1>1 DEF Dequeue, WorkerExit, ExpireInstall, WorkerStep, StartInstall, RunInit,
                AttachPlugins, InstallAgent, WritePhase, ConfirmProbe, Reload, PersistPlugins,
                CommitHealthy, TransitionToFailed, CleanupStale, FinishInstall, Update, UpdateStatusCAS
  <1>2. ASSUME NEW d \in Deleters,
               DeleteStep(d) \/ DeleteAbandon(d) \/ \E w \in WorkspaceIds : DeleteCall(d, w)
        PROVE  Same
    BY <1>2 DEF DeleteStep, DeleteTake, DeleteWaitIdle, DeleteGet, DeleteOpen, DeleteClear, DeleteRemove,
                DeleteAbandon, DeleteCall, DeleteBegin, Delete
  <1>3. ASSUME NEW w \in WorkspaceIds, Age(w) PROVE Same
    BY <1>3 DEF Age
  <1>4. ASSUME SchedulerNext PROVE Same
    BY <1>4 DEF SchedulerNext, Tick, ProbeStep, FailTimedOut, ProbeOne, ProbeCanceled, RecordChange,
                RecordReload, RecordWrite, TickDone, SchedulerExit, Update, UpdateStatusCAS
  <1>5. ASSUME NEW w \in WorkspaceIds,
               CreateStep(w) \/ \E a \in AliasKeys, o \in DirOptions : CreateCheck(w, a, o)
        PROVE  Same
    BY <1>5 DEF CreateCheck, CreateStep, CreateInsert, CreateSubmit, CreateUndo, Enqueue, Insert, Delete
  <1>6. ASSUME UNCHANGED vars PROVE Same
    BY <1>6 DEF vars
  <1> QED BY <1>1, <1>2, <1>3, <1>4, <1>5, <1>6 DEF Next, ControllerNext, FacadeNext, Terminated

(* The queue grows only while Submit is open; nothing leaves off or exit.  *)
LEMMA QueueAndScheduler ==
  ASSUME TypeInv, [Next]_vars
  PROVE  /\ queue' \subseteq queue \/ SubmitOK
         /\ spc \in {"off", "exit"} => spc' \in {"off", "exit"} \/ Start
  <1> USE DEF TypeInv, TypeOK, ControllerTypeOK, otherVars, facadeVars, schedVars, queueVars, controllerVars
  <1>1. queue' \subseteq queue \/ SubmitOK
    <2>1. ASSUME NEW k \in Workers, Dequeue(k) \/ FinishInstall(k) PROVE queue' \subseteq queue
      BY <2>1 DEF Dequeue, FinishInstall
    <2>2. ASSUME NEW d \in Deleters, DeleteTake(d) \/ \E w \in WorkspaceIds : DeleteCall(d, w)
          PROVE  queue' \subseteq queue
      BY <2>2 DEF DeleteTake, DeleteCall, DeleteBegin
    <2>3. ASSUME NEW w \in WorkspaceIds, CreateStep(w) PROVE queue' \subseteq queue \/ SubmitOK
      BY <2>3 DEF CreateStep, CreateInsert, CreateSubmit, CreateUndo
    <2>4. ASSUME NEW w \in WorkspaceIds, NEW alias \in AliasKeys, NEW dir \in DirOptions,
                 CreateCheck(w, alias, dir)
          PROVE  queue' \subseteq queue
      BY <2>4 DEF CreateCheck
    <2> QED BY <2>1, <2>2, <2>3, <2>4, InstallSteps
  <1>2. spc \in {"off", "exit"} => spc' \in {"off", "exit"} \/ Start
    <2>1. ASSUME NEW k \in Workers, Dequeue(k) \/ WorkerExit(k) \/ WorkerStep(k) \/ ExpireInstall(k)
          PROVE  UNCHANGED spc
      BY <2>1 DEF Dequeue, WorkerExit, ExpireInstall, WorkerStep, StartInstall, RunInit,
                  AttachPlugins, InstallAgent, WritePhase, ConfirmProbe, Reload, PersistPlugins,
                  CommitHealthy, TransitionToFailed, CleanupStale, FinishInstall
    <2>2. ASSUME NEW d \in Deleters,
                 DeleteStep(d) \/ DeleteAbandon(d) \/ \E w \in WorkspaceIds : DeleteCall(d, w)
          PROVE  UNCHANGED spc
      BY <2>2 DEF DeleteStep, DeleteTake, DeleteWaitIdle, DeleteGet, DeleteOpen, DeleteClear, DeleteRemove,
                  DeleteAbandon, DeleteCall, DeleteBegin
    <2>3. ASSUME NEW w \in WorkspaceIds,
                 Age(w) \/ CreateStep(w) \/ \E a \in AliasKeys, o \in DirOptions : CreateCheck(w, a, o)
          PROVE  UNCHANGED spc
      BY <2>3 DEF Age, CreateCheck, CreateStep, CreateInsert, CreateSubmit, CreateUndo
    <2>4. ASSUME SchedulerNext PROVE UNCHANGED spc \/ spc \notin {"off", "exit"}
      BY <2>4 DEF SchedulerNext, Tick, ProbeStep, FailTimedOut, ProbeOne, ProbeCanceled, RecordChange,
                  RecordReload, RecordWrite, TickDone, SchedulerExit
    <2>5. ASSUME StopBegin \/ StopStep \/ StopExpire PROVE UNCHANGED spc
      BY <2>5 DEF StopBegin, StopStep, StopScheduler, StopCancel, StopWorkers, StopClose, StopExpire
    <2>6. ASSUME UNCHANGED vars PROVE UNCHANGED spc
      BY <2>6 DEF vars
    <2> QED BY <2>1, <2>2, <2>3, <2>4, <2>5, <2>6 DEF Next, ControllerNext, FacadeNext, Terminated
  <1> QED BY <1>1, <1>2

(* A worker leaves idle only when started, and never leaves exit.          *)
LEMMA WorkerEnds ==
  ASSUME TypeInv, [Next]_vars, NEW k \in Workers
  PROVE  /\ wpc[k] = "exit" => wpc'[k] = "exit"
         /\ wpc[k] = "idle" /\ ~started => wpc'[k] = "idle"
         /\ wpc'[k] = "exit" => wpc[k] = "exit" \/ (queue = {} /\ stopped /\ UNCHANGED <<queue, stopped>>)
  <1> USE DEF TypeInv, TypeOK, ControllerTypeOK, Goto, GiveUp
  <1>1. CASE Dequeue(k)
    BY <1>1 DEF Dequeue
  <1>2. CASE WorkerExit(k)
    BY <1>2 DEF WorkerExit, queueVars
  <1>3. CASE WorkerStep(k)
    BY <1>3 DEF WorkerStep, StartInstall, RunInit, AttachPlugins, InstallAgent, WritePhase,
                ConfirmProbe, Reload, PersistPlugins, CommitHealthy, TransitionToFailed,
                CleanupStale, FinishInstall
  <1> QED BY <1>1, <1>2, <1>3, WorkerFrame

(* The order of Stop is kept.                                              *)
LEMMA StopOrderStep ==
  ASSUME TypeInv, StopOrder, [Next]_vars
  PROVE  StopOrder'
  <1> USE DEF TypeInv, TypeOK, FacadeTypeOK, Phases, StopOrder
  <1>0. stopped => queue' \subseteq queue
    BY QueueAndScheduler DEF SubmitOK
  <1>1. ~started => queue' \subseteq queue
    BY QueueAndScheduler DEF SubmitOK
  <1>2. CASE UNCHANGED <<phase, stopExpired, started, stopped, repoClosed>>
    <2>1. ~started' => queue' = {} /\ \A k \in Workers : wpc'[k] = "idle"
      BY <1>1, <1>2, WorkerEnds
    <2>2. \A k \in Workers : wpc'[k] = "exit" => queue' = {} /\ stopped'
      BY <1>0, <1>2, WorkerEnds
    <2>3. spc \in {"off", "exit"} => spc' \in {"off", "exit"}
      BY <1>2, QueueAndScheduler DEF Start
    <2> QED BY <1>2, <2>1, <2>2, <2>3, WorkerEnds
  <1>3. CASE Start
    BY <1>3 DEF Start, workerVars, repoVars
  <1>4. CASE StopBegin
    BY <1>4 DEF StopBegin, Accepting, controllerVars, queueVars, workerVars, repoVars
  <1>5. CASE StopScheduler
    BY <1>5 DEF StopScheduler, schedVars, workerVars, repoVars
  <1>6. CASE StopCancel
    BY <1>6 DEF StopCancel, schedVars, queueVars, repoVars
  <1>7. CASE StopWorkers
    BY <1>7 DEF StopWorkers, controllerVars, queueVars, workerVars, schedVars, repoVars
  <1>8. CASE StopClose
    BY <1>8 DEF StopClose, Close, controllerVars, queueVars, workerVars, schedVars
  <1>9. CASE StopExpire
    BY <1>9 DEF StopExpire, controllerVars, queueVars, workerVars, schedVars, repoVars
  <1> QED BY <1>2, <1>3, <1>4, <1>5, <1>6, <1>7, <1>8, <1>9, PhaseSteps DEF StopStep

(* When the workers have left and the calls have returned nobody owns an   *)
(* init row, so there is none.                                             *)
LEMMA StopLeavesStep ==
  ASSUME Workers # {}, TypeInv, StopOrder, InitHasOwner, StopLeavesNothingBehind, [Next]_vars
  PROVE  StopLeavesNothingBehind'
  <1> SUFFICES ASSUME phase' = "closed", ~stopExpired'
               PROVE  /\ \A w \in WorkspaceIds : ~HasStatus(w, "init")'
                      /\ queue' = {}
                      /\ \A k \in Workers : wjob'[k] = NoJob
                      /\ \A w \in WorkspaceIds : ppc'[w] = "none"
    BY DEF StopLeavesNothingBehind
  <1>1. StopOrder' /\ TypeInv'
    BY StopOrderStep, StepTypes
  <1>2. queue' = {}
    BY <1>1 DEF StopOrder
  <1>3. \A k \in Workers : wjob'[k] = NoJob
    BY <1>1 DEF StopOrder, TypeInv, LocalsDefined
  <1>4. \A w \in WorkspaceIds : ppc'[w] = "none"
    BY <1>1 DEF StopOrder, TypeInv, LocalsDefined
  <1>5. ASSUME NEW w \in WorkspaceIds, HasStatus(w, "init")' PROVE FALSE
    <2>1. CASE phase = "closed"
      <3>1. repoClosed /\ ~stopExpired
        BY <2>1, PhaseSteps DEF StopOrder, Start, StopBegin, StopStep, StopScheduler, StopCancel, StopWorkers,
                           StopClose, StopExpire, Accepting
      <3>2. ~HasStatus(w, "init")
        BY <2>1, <3>1 DEF StopLeavesNothingBehind
      <3> QED BY <1>5, <3>1, <3>2, InitIsOld DEF InsertOK
    <2>2. CASE phase # "closed"
      <3>1. StopClose
        BY <2>2, PhaseSteps DEF Start, StopBegin, StopStep, StopScheduler, StopCancel, StopWorkers, StopExpire
      <3>2. /\ ~stopExpired /\ phase = "drain" /\ ~repoClosed
            /\ UNCHANGED <<byID, wjob, queue>>
            /\ ActiveCreates = {} /\ ActiveDeletes = {}
        BY <3>1 DEF StopClose, Close, StopOrder, controllerVars, workerVars, queueVars
      <3>3. HasStatus(w, "init")
        BY <1>5, <3>2 DEF HasStatus, Exists
      <3>4. ~Queued(w) /\ \A k \in Workers : wjob[k].id # w
        BY <1>2, <1>3, <3>2, NoIdAssumption DEF Queued, NoJob
      <3> QED BY <3>2, <3>3, <3>4 DEF InitHasOwner, ActiveCreates, ActiveDeletes
    <2> QED BY <2>1, <2>2
  <1> QED BY <1>2, <1>3, <1>4, <1>5

(* A Stop that is given the time it needs leaves nothing half done: no row *)
(* in init, no job, no install and no probe, for any number of workspaces, *)
(* of callers and of workers but none.                                     *)
THEOREM StopIsComplete ==
  ASSUME Workers # {}
  PROVE  Spec => []StopLeavesNothingBehind
  <1>1. Init => StopOrder /\ StopLeavesNothingBehind
    BY DEF Init, RepoInit, ControllerInit, FacadeInit, StopOrder, StopLeavesNothingBehind
  <1>2. TypeInv /\ InitHasOwner /\ (StopOrder /\ StopLeavesNothingBehind) /\ [Next]_vars
          => (StopOrder /\ StopLeavesNothingBehind)'
    BY StopOrderStep, StopLeavesStep
  <1>3. Spec => []TypeInv
    BY TypeCorrect, PTL DEF TypeInv
  <1> QED BY <1>1, <1>2, <1>3, InitIsOwned, PTL DEF Spec

(***************************************************************************)
(* A directory belongs to one workspace, and to one that has its row,      *)
(* but for the ids that a Delete met too early or could not clear.         *)
(***************************************************************************)

(* A row keeps its directory as long as it exists: the status writes copy  *)
(* it and the whole-row writes start from the row itself (NoLostUpdate).   *)
LEMMA RowKeepsDirectory ==
  ASSUME TypeInv, HeldCopies, NoLostUpdate, [Next]_vars,
         NEW v \in WorkspaceIds, Exists(v), Exists(v)'
  PROVE  byID'[v].dir = byID[v].dir
  <1>1. ASSUME NEW k \in Workers, PersistPlugins(k), wjob[k].id = v,
               UpdateOK(v, [wlatest[k] EXCEPT !.placed = TRUE]),
               byID'[v] = [wlatest[k] EXCEPT !.placed = TRUE]
        PROVE  byID'[v].dir = byID[v].dir
    <2>1. wlatest[k] \in Rows /\ wlatest[k].status = "init" /\ wpc[k] = "persist"
      BY <1>1 DEF PersistPlugins, TypeInv, LocalsDefined, HeldCopies
    <2>2. byID'[v].status = "init" /\ byID'[v].dir = wlatest[k].dir
      BY <1>1, <2>1 DEF Rows
    <2>3. byID[v].status = "init"
      BY <1>1, <2>2 DEF UpdateOK
    <2>4. byID[v] = wlatest[k]
      BY <1>1, <2>1, <2>3 DEF NoLostUpdate, HasStatus
    <2> QED BY <2>2, <2>4
  <1>2. ASSUME RecordWrite(v), byID'[v] = [platest[v] EXCEPT !.code = ProbeCode(v)]
        PROVE  byID'[v].dir = byID[v].dir
    <2>1. platest[v] \in Rows /\ byID[v] = platest[v]
      BY <1>2 DEF RecordWrite, TypeInv, LocalsDefined, NoLostUpdate
    <2> QED BY <1>2, <2>1 DEF Rows
  <1>3. CASE byID'[v] # byID[v]
    BY <1>1, <1>2, <1>3, RowFate DEF InsertOK
  <1> QED BY <1>3

(* A row appears by CreateInsert only ...                                  *)
LEMMA RowAppears ==
  ASSUME TypeInv, [Next]_vars, NEW v \in WorkspaceIds, ~Exists(v), Exists(v)'
  PROVE  CreateInsert(v) /\ InsertOK(v, creq[v])
  <1>1. byID'[v] # byID[v]
    BY DEF Exists
  <1> QED BY <1>1, RowFate DEF UpdateOK, GetOK

(* ... and goes by CreateUndo or by a Delete only.                         *)
LEMMA RowGoes ==
  ASSUME TypeInv, [Next]_vars, NEW v \in WorkspaceIds, Exists(v), ~Exists(v)'
  PROVE  CreateUndo(v) \/ \E d \in Deleters : DeleteRemove(d) /\ dtarget[d] = v
  <1>1. byID'[v] # byID[v]
    BY DEF Exists
  <1>2. ASSUME NEW k \in Workers, byID'[v] = [wlatest[k] EXCEPT !.placed = TRUE], wpc[k] = "persist"
        PROVE  Exists(v)'
    <2>1. wlatest[k] \in Rows
      BY <1>2 DEF TypeInv, LocalsDefined
    <2>2. byID'[v] \in Rows
      BY <1>2, <2>1 DEF Rows
    <2> QED BY <2>2, NoRowAssumption DEF Exists
  <1>3. ASSUME byID'[v] = [platest[v] EXCEPT !.code = ProbeCode(v)], ppc[v] = "write"
        PROVE  Exists(v)'
    <2>1. platest[v] \in Rows /\ ProbeCode(v) \in Codes
      BY <1>3 DEF TypeInv, LocalsDefined, ProbeCode, Codes
    <2>2. byID'[v] \in Rows
      BY <1>3, <2>1 DEF Rows
    <2> QED BY <2>2, NoRowAssumption DEF Exists
  <1> QED BY <1>1, <1>2, <1>3, RowFate DEF InsertOK, PersistPlugins, RecordWrite

(* What one step does to what is at a path: nothing, everything goes, only *)
(* the directory stays, a worker makes or adopts the directory, which then *)
(* has no files, or a worker adds a file to the directory it has open.     *)
LEMMA FileSteps ==
  ASSUME TypeInv, [Next]_vars, NEW p \in Paths
  PROVE  \/ fs'[p] = fs[p]
         \/ fs'[p] = {}
         \/ fs'[p] = RootsOnly(p)
         \/ \E k \in Workers, part \in Parts :
              /\ wpc[k] \notin {"idle", "exit"} /\ p = JobPath(k)
              /\ fs'[p] = fs[p] \cup {<<wjob[k].id, part>>}
              /\ IF part = "root" THEN InitOK(p) ELSE wjob[k].id \in RootsAt(p)
              /\ UNCHANGED <<byID, cpc, queue, wjob, dpc, dtarget>>
  <1> DEFINE Added == \E k \in Workers, part \in Parts :
                        /\ wpc[k] \notin {"idle", "exit"} /\ p = JobPath(k)
                        /\ fs'[p] = fs[p] \cup {<<wjob[k].id, part>>}
                        /\ IF part = "root" THEN InitOK(p) ELSE wjob[k].id \in RootsAt(p)
                        /\ UNCHANGED <<byID, cpc, queue, wjob, dpc, dtarget>>
             Goal == fs'[p] = fs[p] \/ fs'[p] = {} \/ fs'[p] = RootsOnly(p) \/ Added
  <1>0. fs \in [Paths -> SUBSET (WorkspaceIds \X Parts)]
    BY DEF TypeInv, TypeOK, InfraTypeOK
  <1>1. ASSUME NEW handle, NEW dir, ClearDir(handle, dir) \/ ClearFails(handle, dir) PROVE Goal
    BY <1>0, <1>1 DEF ClearDir, ClearFails, RootsOnly
  <1>2. ASSUME NEW k \in Workers, RunInit(k) PROVE Goal
    <2>1. /\ wpc[k] \notin {"idle", "exit"} /\ UNCHANGED <<byID, cpc, queue, wjob, dpc, dtarget>>
          /\ UNCHANGED fs \/ (InitOK(JobPath(k)) /\ InitDir(wjob[k].id, JobPath(k)))
      BY <1>2 DEF RunInit, repoVars, queueVars, deleteVars, otherVars, facadeVars
    <2>2. CASE UNCHANGED fs
      BY <2>2
    <2>3. CASE InitOK(JobPath(k)) /\ InitDir(wjob[k].id, JobPath(k))
      <3>1. CASE p = JobPath(k)
        <4>1. fs'[p] = fs[p] \cup {<<wjob[k].id, "root">>} /\ "root" \in Parts
          BY <1>0, <2>3, <3>1 DEF InitDir, Parts
        <4> QED BY <2>1, <2>3, <3>1, <4>1
      <3>2. CASE p # JobPath(k)
        BY <1>0, <2>3, <3>2 DEF InitDir
      <3> QED BY <3>1, <3>2
    <2> QED BY <2>1, <2>2, <2>3
  <1>3. ASSUME NEW k \in Workers, AttachPlugins(k) \/ InstallAgent(k) PROVE Goal
    <2>1. PICK part \in Parts \ {"root"} :
          /\ wpc[k] \notin {"idle", "exit"} /\ UNCHANGED <<byID, cpc, queue, wjob, dpc, dtarget>>
          /\ UNCHANGED fs \/ (wjob[k].id \in RootsAt(JobPath(k)) /\ PutFiles(wjob[k].id, JobPath(k), part))
      BY <1>3 DEF AttachPlugins, InstallAgent, WritePhase, repoVars, queueVars, deleteVars,
                  otherVars, facadeVars, Parts
    <2>2. CASE UNCHANGED fs
      BY <2>2
    <2>3. CASE wjob[k].id \in RootsAt(JobPath(k)) /\ PutFiles(wjob[k].id, JobPath(k), part)
      <3>1. CASE p = JobPath(k)
        <4>1. fs'[p] = fs[p] \cup {<<wjob[k].id, part>>}
          BY <1>0, <2>3, <3>1 DEF PutFiles
        <4> QED BY <2>1, <2>3, <3>1, <4>1
      <3>2. CASE p # JobPath(k)
        BY <1>0, <2>3, <3>2 DEF PutFiles
      <3> QED BY <3>1, <3>2
    <2> QED BY <2>1, <2>2, <2>3
  <1>4. ASSUME NEW k \in Workers, CleanupStale(k) PROVE Goal
    BY <1>1, <1>4 DEF CleanupStale
  <1>5. ASSUME NEW d \in Deleters, DeleteClear(d) PROVE Goal
    BY <1>1, <1>5 DEF DeleteClear
  <1> HIDE DEF Added
  <1>6. ASSUME NEW k \in Workers, Dequeue(k) \/ WorkerExit(k) \/ WorkerStep(k) \/ ExpireInstall(k)
        PROVE  Goal
    BY <1>2, <1>3, <1>4, <1>6 DEF Dequeue, WorkerExit, ExpireInstall, WorkerStep, StartInstall,
                ConfirmProbe, Reload, PersistPlugins, CommitHealthy, TransitionToFailed, FinishInstall
  <1>7. ASSUME NEW d \in Deleters,
               DeleteStep(d) \/ DeleteAbandon(d) \/ \E w \in WorkspaceIds : DeleteCall(d, w)
        PROVE  Goal
    BY <1>5, <1>7 DEF DeleteStep, DeleteTake, DeleteWaitIdle, DeleteGet, DeleteOpen, DeleteRemove,
                DeleteAbandon, DeleteCall, DeleteBegin
  <1> USE DEF controllerVars
  <1>8. ASSUME SchedulerNext PROVE UNCHANGED fs
    BY <1>8 DEF SchedulerNext, Tick, ProbeStep, FailTimedOut, ProbeOne, ProbeCanceled, RecordChange,
                RecordReload, RecordWrite, TickDone, SchedulerExit
  <1>9. ASSUME NEW w \in WorkspaceIds,
               Age(w) \/ CreateStep(w) \/ \E a \in AliasKeys, o \in DirOptions : CreateCheck(w, a, o)
        PROVE  UNCHANGED fs
    BY <1>9 DEF Age, CreateCheck, CreateStep, CreateInsert, CreateSubmit, CreateUndo
  <1>10. ASSUME Start \/ StopBegin \/ StopStep \/ StopExpire PROVE UNCHANGED fs
    BY <1>10 DEF Start, StopBegin, StopStep, StopScheduler, StopCancel, StopWorkers, StopClose, StopExpire
  <1>11. ASSUME UNCHANGED vars PROVE UNCHANGED fs
    BY <1>11 DEF vars
  <1>12. Goal
    BY <1>6, <1>7, <1>8, <1>9, <1>10, <1>11 DEF Next, ControllerNext, FacadeNext, Terminated
  <1> QED BY <1>12 DEF Added

(* An entry of a workspace that is new at a path is put there by a worker  *)
(* that installs the workspace.                                            *)
LEMMA EntrySteps ==
  ASSUME TypeInv, [Next]_vars, NEW w \in WorkspaceIds, NEW p \in Paths, NEW part \in Parts,
         <<w, part>> \in fs'[p], <<w, part>> \notin fs[p]
  PROVE  /\ \E k \in Workers : /\ wpc[k] \notin {"idle", "exit"} /\ wjob[k].id = w
                               /\ wjob'[k] = wjob[k] /\ p = JobPath(k)
         /\ fs'[p] = fs[p] \cup {<<w, part>>}
         /\ IF part = "root" THEN InitOK(p) ELSE w \in RootsAt(p)
         /\ UNCHANGED <<byID, cpc, queue, wjob, dpc, dtarget>>
  <1>1. RootsOnly(p) \subseteq fs[p]
    BY DEF RootsOnly
  <1>2. ASSUME NEW k \in Workers, NEW other \in Parts,
               fs'[p] = fs[p] \cup {<<wjob[k].id, other>>}
        PROVE  wjob[k].id = w /\ other = part
    BY <1>2
  <1>3. PICK k \in Workers, other \in Parts :
          /\ wpc[k] \notin {"idle", "exit"} /\ p = JobPath(k)
          /\ fs'[p] = fs[p] \cup {<<wjob[k].id, other>>}
          /\ IF other = "root" THEN InitOK(p) ELSE wjob[k].id \in RootsAt(p)
          /\ UNCHANGED <<byID, cpc, queue, wjob, dpc, dtarget>>
    BY <1>1, FileSteps
  <1>4. wjob[k].id = w /\ other = part
    BY <1>2, <1>3
  <1> QED BY <1>3, <1>4

(* What is on the host was put there by an install, not before its job was *)
(* taken from the queue.                                                   *)
FilesWereInstalled ==
  \A w \in WorkspaceIds, p \in Paths : p \in Footprint(w) => cpc[w] = "done" /\ ~Queued(w)

(* A job, queued or running, and a Create about to submit have their row,  *)
(* with the directory they will use, unless a Delete came early.           *)
JobsHaveRows ==
  /\ \A job \in queue : job.id \notin early => Exists(job.id) /\ byID[job.id].dir = job.dir
  /\ \A k \in Workers : wjob[k] # NoJob /\ wjob[k].id \notin early =>
       Exists(wjob[k].id) /\ byID[wjob[k].id].dir = wjob[k].dir
  /\ \A w \in WorkspaceIds \ early : cpc[w] = "inserted" => Exists(w) /\ byID[w].dir = creq[w].dir

(* The row of an install is not taken away under it.                       *)
LEMMA RowIsKept ==
  ASSUME TypeInv, OneInstallerPerWorkspace, HeldCopies, NoLostUpdate, DeleteClaimsId,
         DeleteExcludesInstall, [Next]_vars, NEW w \in WorkspaceIds, Exists(w), w \notin early,
         Queued(w) \/ Running(w) \/ cpc[w] = "inserted"
  PROVE  Exists(w)' /\ byID'[w].dir = byID[w].dir
  <1>1. ~CreateUndo(w)
    BY DEF OneInstallerPerWorkspace, CreateUndo
  <1>2. ASSUME NEW d \in Deleters, DeleteRemove(d), dtarget[d] = w PROVE FALSE
    BY <1>2 DEF DeleteRemove, DeleteClaimsId, DeleteExcludesInstall
  <1>3. Exists(w)'
    BY <1>1, <1>2, RowGoes
  <1> QED BY <1>3, RowKeepsDirectory

(* A job in the queue was there before or is submitted now.                *)
LEMMA NewJobs ==
  ASSUME TypeInv, [Next]_vars, NEW job \in queue'
  PROVE  \/ job \in queue
         \/ \E w \in WorkspaceIds : /\ cpc[w] = "inserted" /\ UNCHANGED byID
                                    /\ job.id = w /\ job.dir = creq[w].dir
  <1> USE DEF controllerVars, queueVars
  <1>1. ASSUME NEW k \in Workers, Dequeue(k) \/ FinishInstall(k) PROVE job \in queue
    BY <1>1 DEF Dequeue, FinishInstall
  <1>2. ASSUME NEW d \in Deleters, DeleteTake(d) \/ \E w \in WorkspaceIds : DeleteCall(d, w)
        PROVE  job \in queue
    BY <1>2 DEF DeleteTake, DeleteCall, DeleteBegin
  <1>3. ASSUME NEW w \in WorkspaceIds, CreateStep(w), job \notin queue
        PROVE  /\ cpc[w] = "inserted" /\ UNCHANGED byID
               /\ job.id = w /\ job.dir = creq[w].dir
    BY <1>3 DEF CreateStep, CreateInsert, CreateSubmit, CreateUndo, Enqueue, repoVars
  <1>4. ASSUME NEW w \in WorkspaceIds, NEW alias \in AliasKeys, NEW dir \in DirOptions,
               CreateCheck(w, alias, dir)
        PROVE  job \in queue
    BY <1>4 DEF CreateCheck
  <1> QED BY <1>1, <1>2, <1>3, <1>4, InstallSteps

(* A worker's job was its own before or comes from the queue.              *)
LEMMA NewWork ==
  ASSUME TypeInv, [Next]_vars, NEW k \in Workers, wjob'[k] # NoJob
  PROVE  wjob'[k] = wjob[k] \/ wjob'[k] \in queue
  <1> USE DEF TypeInv, TypeOK, ControllerTypeOK
  <1>1. ASSUME WorkerStep(k), ~FinishInstall(k) PROVE UNCHANGED wjob
    BY <1>1 DEF WorkerStep, StartInstall, RunInit, AttachPlugins, InstallAgent, WritePhase, ConfirmProbe,
                Reload, PersistPlugins, CommitHealthy, TransitionToFailed, CleanupStale
  <1> QED BY <1>1, WorkerFrame DEF Dequeue, WorkerExit, FinishInstall

(* How the Create of w got to where it is.                                 *)
LEMMA CreateSteps ==
  ASSUME TypeInv, [Next]_vars, NEW w \in WorkspaceIds
  PROVE  /\ cpc'[w] = "inserted" =>
              creq'[w] = creq[w] /\ (cpc[w] = "inserted" \/ (CreateInsert(w) /\ InsertOK(w, creq[w])))
         /\ cpc'[w] = "checked" =>
              \/ cpc[w] = "checked" /\ creq'[w] = creq[w] /\ ~CreateInsert(w)
              \/ /\ ActiveCreates = {} /\ UNCHANGED byID
                 /\ \E dir \in DirOptions : ~DirTaken(dir) /\ creq'[w].dir = dir
         /\ w \in ActiveCreates' =>
              \/ w \in ActiveCreates
              \/ ActiveCreates = {} /\ ActiveCreates' \subseteq {w}
  <1> USE DEF TypeInv, TypeOK, FacadeTypeOK, ActiveCreates
  <1>1. CASE UNCHANGED <<cpc, creq>>
    BY <1>1 DEF CreateInsert, CreateReturns
  <1>2. ASSUME NEW v \in WorkspaceIds, CreateStep(v), v # w PROVE cpc'[w] = cpc[w] /\ creq'[w] = creq[w]
    BY <1>2 DEF CreateStep, CreateInsert, CreateSubmit, CreateUndo, CreateReturns
  <1>3. CASE CreateInsert(w)
    BY <1>3 DEF CreateInsert, CreateReturns
  <1>4. CASE CreateSubmit(w) \/ CreateUndo(w)
    BY <1>4 DEF CreateSubmit, CreateUndo, CreateReturns
  <1>5. ASSUME NEW v \in WorkspaceIds, NEW alias \in AliasKeys, NEW dir \in DirOptions,
               CreateCheck(v, alias, dir), v # w
        PROVE  cpc'[w] = cpc[w] /\ creq'[w] = creq[w] /\ ~CreateInsert(w)
    BY <1>5 DEF CreateCheck, CreateReturns, CreateInsert, controllerVars
  <1>6. ASSUME NEW alias \in AliasKeys, NEW dir \in DirOptions, CreateCheck(w, alias, dir)
        PROVE  /\ ActiveCreates = {} /\ UNCHANGED byID /\ ActiveCreates' \subseteq {w}
               /\ cpc'[w] = "done" \/ (cpc'[w] = "checked" /\ ~DirTaken(dir) /\ creq'[w].dir = dir)
    BY <1>6 DEF CreateCheck, CreateReturns, NewRow, repoVars
  <1>7. ASSUME NEW v \in WorkspaceIds, CreateStep(v), v # w PROVE cpc'[w] = "checked" => ~CreateInsert(w)
    BY <1>2, <1>7 DEF CreateInsert, CreateReturns
  <1> QED BY <1>1, <1>2, <1>3, <1>4, <1>5, <1>6, <1>7, RepoSteps DEF CreateStep

(* Every job keeps its row.                                                *)
LEMMA JobsHaveRowsStep ==
  ASSUME TypeInv, OneInstallerPerWorkspace, HeldCopies, NoLostUpdate, DeleteClaimsId,
         DeleteExcludesInstall, JobsHaveRows, [Next]_vars
  PROVE  JobsHaveRows'
  <1> USE DEF TypeInv, TypeOK, ControllerTypeOK
  <1>0. early \subseteq early'
    BY ObservationsGrow
  <1>1. ASSUME NEW w \in WorkspaceIds, Exists(w), w \notin early,
               Queued(w) \/ Running(w) \/ cpc[w] = "inserted"
        PROVE  Exists(w)' /\ byID'[w].dir = byID[w].dir
    BY <1>1, RowIsKept
  <1>2. \A job \in queue : job.id \notin early => Exists(job.id)' /\ byID'[job.id].dir = job.dir
    <2> SUFFICES ASSUME NEW job \in queue, job.id \notin early
                 PROVE  Exists(job.id)' /\ byID'[job.id].dir = job.dir
      OBVIOUS
    <2>1. PICK w \in WorkspaceIds : w = job.id
      BY DEF Jobs
    <2>2. Queued(w) /\ Exists(w) /\ byID[w].dir = job.dir
      BY <2>1 DEF Queued, JobsHaveRows
    <2> QED BY <1>1, <2>1, <2>2
  <1>3. \A job \in queue' : job.id \notin early' => Exists(job.id)' /\ byID'[job.id].dir = job.dir
    <2> SUFFICES ASSUME NEW job \in queue', job.id \notin early
                 PROVE  Exists(job.id)' /\ byID'[job.id].dir = job.dir
      BY <1>0
    <2>1. ASSUME NEW w \in WorkspaceIds, cpc[w] = "inserted", UNCHANGED byID,
                 job.id = w, job.dir = creq[w].dir
          PROVE  Exists(job.id)' /\ byID'[job.id].dir = job.dir
      BY <2>1 DEF JobsHaveRows, Exists
    <2> QED BY <1>2, <2>1, NewJobs
  <1>4. ASSUME NEW k \in Workers, wjob'[k] # NoJob, wjob'[k].id \notin early'
        PROVE  Exists(wjob[k].id)' /\ byID'[wjob'[k].id].dir = wjob'[k].dir
    <2>1. CASE wjob'[k] = wjob[k]
      <3>1. PICK w \in WorkspaceIds : w = wjob[k].id
        BY <1>4, <2>1 DEF Jobs
      <3>2. Running(w) /\ Exists(w) /\ byID[w].dir = wjob[k].dir /\ w \notin early
        BY <1>0, <1>4, <2>1, <3>1 DEF Running, JobsHaveRows
      <3>3. Exists(w)' /\ byID'[w].dir = byID[w].dir
        BY <1>1, <3>2
      <3> QED BY <2>1, <3>1, <3>2, <3>3 DEF Exists
    <2>2. CASE wjob'[k] \in queue
      BY <1>0, <1>2, <1>4, <2>2 DEF Exists
    <2> QED BY <1>4, <2>1, <2>2, NewWork
  <1>5. ASSUME NEW w \in WorkspaceIds, cpc'[w] = "inserted", w \notin early'
        PROVE  Exists(w)' /\ byID'[w].dir = creq'[w].dir
    <2>1. creq'[w] = creq[w] /\ w \notin early
      BY <1>0, <1>5, CreateSteps
    <2>2. CASE cpc[w] = "inserted"
      BY <1>1, <2>1, <2>2 DEF JobsHaveRows
    <2>3. CASE CreateInsert(w) /\ InsertOK(w, creq[w])
      <3>1. creq[w] \in Rows /\ byID'[w] = creq[w]
        BY <2>3 DEF CreateInsert, Insert, RepoTypeOK, LocalsDefined
      <3> QED BY <2>1, <3>1, NoRowAssumption DEF Exists
    <2> QED BY <1>5, <2>2, <2>3, CreateSteps
  <1> QED BY <1>3, <1>4, <1>5 DEF JobsHaveRows

(* CreateWorkspace calls exclude each other, and the directory that one of *)
(* them found free stays free until it has inserted its row.               *)
OneCreate ==
  /\ \A v, w \in ActiveCreates : v = w
  /\ \A w \in WorkspaceIds : cpc[w] = "checked" => ~DirTaken(creq[w].dir)

(* The first half of NoSharedDirectory.                                    *)
RowsAreApart ==
  \A v, w \in WorkspaceIds :
    Exists(v) /\ Exists(w) /\ CanonicalDir[byID[v].dir] = CanonicalDir[byID[w].dir] => v = w

(* The check of the directory is not stale when the row is inserted.       *)
LEMMA OneCreateStep ==
  ASSUME TypeInv, HeldCopies, NoLostUpdate, OneCreate, [Next]_vars
  PROVE  OneCreate'
  <1>1. \A v, w \in ActiveCreates' : v = w
    <2> SUFFICES ASSUME NEW v \in WorkspaceIds, NEW w \in WorkspaceIds,
                        v \in ActiveCreates', w \in ActiveCreates'
                 PROVE  v = w
      BY DEF ActiveCreates
    <2> QED BY CreateSteps DEF OneCreate
  <1>2. ASSUME NEW w \in WorkspaceIds, cpc'[w] = "checked" PROVE ~DirTaken(creq[w].dir)'
    <2>1. CASE cpc[w] = "checked" /\ creq'[w] = creq[w] /\ ~CreateInsert(w)
      <3>1. ASSUME NEW v \in WorkspaceIds, Exists(v)'
            PROVE  Exists(v) /\ byID'[v].dir = byID[v].dir
        <4>1. CASE ~Exists(v)
          <5>1. CreateInsert(v)
            BY <3>1, <4>1, RowAppears
          <5>2. v \in ActiveCreates /\ w \in ActiveCreates
            BY <2>1, <5>1 DEF CreateInsert, ActiveCreates
          <5> QED BY <2>1, <5>1, <5>2 DEF OneCreate
        <4>2. CASE Exists(v)
          BY <3>1, <4>2, RowKeepsDirectory
        <4> QED BY <4>1, <4>2
      <3> QED BY <2>1, <3>1 DEF OneCreate, DirTaken, Exists
    <2>2. ASSUME UNCHANGED byID, NEW dir \in DirOptions, ~DirTaken(dir), creq'[w].dir = dir
          PROVE  ~DirTaken(creq[w].dir)'
      BY <2>2 DEF DirTaken, Exists
    <2> QED BY <1>2, <2>1, <2>2, CreateSteps
  <1> QED BY <1>1, <1>2 DEF OneCreate

(* Rows stay apart.                                                        *)
LEMMA RowsApartStep ==
  ASSUME TypeInv, HeldCopies, NoLostUpdate, OneCreate, RowsAreApart, [Next]_vars
  PROVE  RowsAreApart'
  <1> USE DEF TypeInv, TypeOK, RepoTypeOK
  <1>1. ASSUME NEW v \in WorkspaceIds, NEW w \in WorkspaceIds, CreateInsert(w), InsertOK(w, creq[w]),
               Exists(v), Exists(v)', CanonicalDir[byID'[v].dir] = CanonicalDir[byID'[w].dir]
        PROVE  v = w
    <2>1. byID'[w] = creq[w] /\ creq[w] \in Rows /\ ~DirTaken(creq[w].dir)
      BY <1>1 DEF CreateInsert, Insert, LocalsDefined, OneCreate
    <2>2. byID'[v].dir = byID[v].dir
      BY <1>1, RowKeepsDirectory
    <2>3. CanonicalDir[byID[v].dir] = CanonicalDir[creq[w].dir]
      BY <1>1, <2>1, <2>2
    <2> QED BY <1>1, <2>1, <2>3 DEF DirTaken
  <1> SUFFICES ASSUME NEW v \in WorkspaceIds, NEW w \in WorkspaceIds, Exists(v)', Exists(w)',
                      CanonicalDir[byID'[v].dir] = CanonicalDir[byID'[w].dir]
               PROVE  v = w
    BY DEF RowsAreApart, Exists
  <1>2. CASE Exists(v) /\ Exists(w)
    BY <1>2, RowKeepsDirectory DEF RowsAreApart
  <1>3. CASE Exists(v) /\ ~Exists(w)
    BY <1>1, <1>3, RowAppears
  <1>4. CASE ~Exists(v) /\ Exists(w)
    <2>1. CreateInsert(v) /\ InsertOK(v, creq[v])
      BY <1>4, RowAppears
    <2>2. CanonicalDir[byID'[w].dir] = CanonicalDir[byID'[v].dir]
      OBVIOUS
    <2> QED BY <1>1, <1>4, <2>1, <2>2
  <1>5. CASE ~Exists(v) /\ ~Exists(w)
    <2>1. v \in ActiveCreates /\ w \in ActiveCreates
      BY <1>5, RowAppears DEF CreateInsert, ActiveCreates
    <2> QED BY <2>1 DEF OneCreate
  <1> QED BY <1>2, <1>3, <1>4, <1>5

(* What is on the host lies where an install is allowed to put it.         *)
LEMMA FilesWereInstalledStep ==
  ASSUME TypeInv, OneInstallerPerWorkspace, FilesWereInstalled, [Next]_vars
  PROVE  FilesWereInstalled'
  <1> SUFFICES ASSUME NEW w \in WorkspaceIds, NEW p \in Paths, p \in Footprint(w)'
               PROVE  cpc'[w] = "done" /\ ~Queued(w)'
    BY DEF FilesWereInstalled
  <1>1. PICK part \in Parts : <<w, part>> \in fs'[p]
    BY DEF Footprint
  <1>2. CASE <<w, part>> \in fs[p]
    <2>1. cpc[w] = "done" /\ ~Queued(w)
      BY <1>2 DEF FilesWereInstalled, Footprint
    <2>2. ASSUME NEW job \in queue', job.id = w PROVE FALSE
      BY <2>1, <2>2, NewJobs DEF Queued
    <2> QED BY <2>1, <2>2, CreateMovesOn DEF Queued
  <1>3. CASE <<w, part>> \notin fs[p]
    <2>1. /\ \E k \in Workers : wpc[k] \notin {"idle", "exit"} /\ wjob[k].id = w
          /\ UNCHANGED <<cpc, queue>>
      BY <1>1, <1>3, EntrySteps
    <2>2. PICK k \in Workers : wpc[k] \notin {"idle", "exit"} /\ wjob[k].id = w
      BY <2>1
    <2>3. wjob[k] # NoJob
      BY <2>2, NoIdAssumption DEF NoJob
    <2>4. cpc[w] = "done" /\ ~Queued(w)
      BY <2>2, <2>3 DEF OneInstallerPerWorkspace, Running
    <2> QED BY <2>1, <2>4 DEF Queued
  <1> QED BY <1>2, <1>3

(* A worker with an open directory finds no other workspace's files there. *)
InstallIsAlone ==
  \A k \in Workers, w \in WorkspaceIds \ early, p \in Paths \ AmbiguousPaths :
    wjob[k].id \notin early /\ wjob[k].id # w /\ p = JobPath(k) /\ wjob[k].id \in RootsAt(p) =>
      p \notin Contents(w)

(* Two installs at one path that is not ambiguous are one.                 *)
LEMMA InstallsAreApart ==
  ASSUME TypeInv, JobsHaveRows, RowsAreApart, NEW k \in Workers, NEW l \in Workers,
         wjob[k] \in Jobs, wjob[l] \in Jobs, wjob[k].id \notin early, wjob[l].id \notin early,
         JobPath(k) = JobPath(l), JobPath(k) \notin AmbiguousPaths
  PROVE  wjob[k].id = wjob[l].id
  <1>1. /\ wjob[k] # NoJob /\ wjob[k].id \in WorkspaceIds /\ wjob[k].dir \in DirOptions
        /\ wjob[l] # NoJob /\ wjob[l].id \in WorkspaceIds /\ wjob[l].dir \in DirOptions
    BY NoIdAssumption DEF Jobs, NoJob
  <1>2. CanonicalDir[wjob[k].dir] = CanonicalDir[wjob[l].dir]
    BY <1>1 DEF AmbiguousPaths, JobPath
  <1> QED BY <1>1, <1>2 DEF JobsHaveRows, RowsAreApart

(* Init looks before it adopts a directory, and nobody who could write     *)
(* there later has a row of his own for it.                                *)
LEMMA InstallIsAloneStep ==
  ASSUME TypeInv, OneInstallerPerWorkspace, JobsHaveRows, RowsAreApart, FilesWereInstalled,
         InstallIsAlone, [Next]_vars
  PROVE  InstallIsAlone'
  <1> SUFFICES ASSUME NEW k \in Workers, NEW w \in WorkspaceIds, NEW p \in Paths \ AmbiguousPaths,
                      w \notin early, wjob'[k].id \notin early, wjob'[k].id # w,
                      p = LocalPath[wjob'[k].dir], <<wjob'[k].id, "root">> \in fs'[p],
                      wjob'[k].id \in WorkspaceIds,
                      NEW part \in Parts \ {"root"}, <<w, part>> \in fs'[p]
               PROVE  FALSE
    BY ObservationsGrow DEF InstallIsAlone, JobPath, RootsAt, Contents
  <1> DEFINE v == wjob'[k].id
  <1> USE DEF TypeInv, TypeOK, ControllerTypeOK
  <1>0. wjob'[k] # NoJob
    BY NoIdAssumption DEF NoJob
  <1>1. wjob'[k] = wjob[k]
    <2> SUFFICES ASSUME wjob'[k] # wjob[k] PROVE FALSE
      OBVIOUS
    <2>1. wjob'[k] \in queue
      BY <1>0, NewWork
    <2>2. <<v, "root">> \notin fs[p]
      BY <2>1 DEF FilesWereInstalled, Footprint, Queued, Parts
    <2> QED BY <2>2, EntrySteps DEF Parts
  <1>2. CASE <<w, part>> \in fs[p]
    <2>1. CASE <<v, "root">> \in fs[p]
      BY <1>1, <1>2, <2>1 DEF InstallIsAlone, JobPath, RootsAt, Contents
    <2>2. CASE <<v, "root">> \notin fs[p]
      <3>1. InitOK(p)
        BY <2>2, EntrySteps DEF Parts
      <3> QED BY <1>2, <3>1 DEF InitOK
    <2> QED BY <2>1, <2>2
  <1>3. CASE <<w, part>> \notin fs[p]
    <2>1. PICK l \in Workers : wpc[l] \notin {"idle", "exit"} /\ wjob[l].id = w /\ p = JobPath(l)
      BY <1>3, EntrySteps
    <2>2. wjob[l] \in Jobs /\ wjob[k] \in Jobs
      BY <1>0, <1>1, <2>1 DEF LocalsDefined
    <2> QED BY <1>1, <2>1, <2>2, InstallsAreApart DEF JobPath
  <1> QED BY <1>2, <1>3

(* The second half of NoSharedDirectory.                                   *)
FilesAreApart ==
  \A v, w \in WorkspaceIds \ early : v # w => Contents(v) \cap Contents(w) \subseteq AmbiguousPaths

(* A worker that writes does so where it is alone.                         *)
LEMMA FilesApartStep ==
  ASSUME TypeInv, InstallIsAlone, FilesAreApart, [Next]_vars
  PROVE  FilesAreApart'
  <1>1. ASSUME NEW v \in WorkspaceIds \ early, NEW w \in WorkspaceIds \ early, v # w,
               NEW p \in Paths \ AmbiguousPaths, NEW one \in Parts \ {"root"}, NEW two \in Parts \ {"root"},
               <<v, one>> \in fs'[p], <<v, one>> \notin fs[p], <<w, two>> \in fs'[p]
        PROVE  FALSE
    <2>1. PICK k \in Workers : wjob[k].id = v /\ p = JobPath(k)
      BY <1>1, EntrySteps
    <2>2. v \in RootsAt(p) /\ <<w, two>> \in fs[p]
      BY <1>1, EntrySteps
    <2> QED BY <1>1, <2>1, <2>2 DEF InstallIsAlone, Contents
  <1> SUFFICES ASSUME NEW v \in WorkspaceIds \ early, NEW w \in WorkspaceIds \ early, v # w,
                      NEW p \in Paths \ AmbiguousPaths, p \in Contents(v)', p \in Contents(w)'
               PROVE  FALSE
    BY ObservationsGrow DEF FilesAreApart, Contents
  <1>2. PICK one \in Parts \ {"root"} : <<v, one>> \in fs'[p]
    BY DEF Contents
  <1>3. PICK two \in Parts \ {"root"} : <<w, two>> \in fs'[p]
    BY DEF Contents
  <1>4. CASE <<v, one>> \in fs[p] /\ <<w, two>> \in fs[p]
    BY <1>4 DEF FilesAreApart, Contents
  <1> QED BY <1>1, <1>2, <1>3, <1>4


(* What a workspace has on the host lies in the directory its row names;   *)
(* without the row there is at most a directory that keep_dir asks for.    *)
FilesHaveRows ==
  \A w \in WorkspaceIds \ (early \cup uncleared), p \in Paths :
    p \in Footprint(w) =>
      IF Exists(w) THEN p = LocalPath[byID[w].dir] ELSE p \in KeptPaths /\ p \notin Contents(w)

(* A Delete whose row still exists read the row's directory; what it       *)
(* opened is still there or the workspace has lost everything; and when it *)
(* removes the row the files are gone.                                     *)
DeleteKnowsDirectory ==
  \A d \in Deleters :
    /\ dpc[d] \notin {"idle", "done"}
    /\ Exists(dtarget[d])
    /\ dtarget[d] \notin early \cup uncleared
    => /\ dpc[d] \in {"open", "clear"} => drow[d].dir = byID[dtarget[d]].dir
       /\ dpc[d] = "clear" => \/ StillAt(dhandle[d], LocalPath[drow[d].dir])
                              \/ Footprint(dtarget[d]) = {}
       /\ dpc[d] = "remove" => /\ Contents(dtarget[d]) = {}
                               /\ Footprint(dtarget[d]) \subseteq KeptPaths

(* A workspace that is not being installed gets nothing new.               *)
LEMMA NothingNew ==
  ASSUME TypeInv, [Next]_vars, NEW w \in WorkspaceIds, ~Running(w)
  PROVE  Footprint(w)' \subseteq Footprint(w) /\ Contents(w)' \subseteq Contents(w)
  <1>1. ASSUME NEW p \in Paths, NEW part \in Parts, <<w, part>> \in fs'[p] PROVE <<w, part>> \in fs[p]
    BY <1>1, EntrySteps DEF Running
  <1>2. Footprint(w)' \subseteq Footprint(w)
    BY <1>1 DEF Footprint
  <1>3. Contents(w)' \subseteq Contents(w)
    BY <1>1 DEF Contents
  <1> QED BY <1>2, <1>3

(* Only keep_dir leaves anything without a row.                            *)
LEMMA FilesHaveRowsStep ==
  ASSUME TypeInv, OneInstallerPerWorkspace, HeldCopies, NoLostUpdate, JobsHaveRows,
         FilesWereInstalled, FilesHaveRows, DeleteKnowsDirectory, [Next]_vars
  PROVE  FilesHaveRows'
  <1> SUFFICES ASSUME NEW w \in WorkspaceIds, w \notin early \cup uncleared,
                      NEW p \in Paths, p \in Footprint(w)'
               PROVE  /\ Exists(w)' => p = LocalPath[byID'[w].dir]
                      /\ ~Exists(w)' => p \in KeptPaths /\ p \notin Contents(w)'
    BY ObservationsGrow DEF FilesHaveRows, KeptPaths
  <1>1. CASE Running(w)
    <2>1. PICK k \in Workers : wjob[k].id = w
      BY <1>1 DEF Running
    <2>2. wjob[k] # NoJob
      BY <2>1, NoIdAssumption DEF NoJob
    <2>3. Exists(w) /\ byID[w].dir = wjob[k].dir /\ cpc[w] = "done"
      BY <2>1, <2>2 DEF JobsHaveRows, OneInstallerPerWorkspace, Running
    <2>4. p \in Footprint(w) => p = LocalPath[byID[w].dir]
      BY <2>3 DEF FilesHaveRows
    <2>5. CASE p \in Footprint(w)
      <3>1. CASE Exists(w)'
        BY <2>3, <2>4, <2>5, <3>1, RowKeepsDirectory
      <3>2. CASE ~Exists(w)'
        <4>1. ~CreateUndo(w)
          BY <2>3 DEF CreateUndo
        <4>2. PICK d \in Deleters : DeleteRemove(d) /\ dtarget[d] = w
          BY <2>3, <3>2, <4>1, RowGoes
        <4>3. Contents(w) = {} /\ Footprint(w) \subseteq KeptPaths
          BY <2>3, <4>2 DEF DeleteRemove, DeleteKnowsDirectory
        <4>4. UNCHANGED fs
          BY <4>2 DEF DeleteRemove
        <4> QED BY <2>5, <3>2, <4>3, <4>4 DEF Contents
      <3> QED BY <3>1, <3>2
    <2>6. CASE p \notin Footprint(w)
      <3>1. PICK part \in Parts : <<w, part>> \in fs'[p] /\ <<w, part>> \notin fs[p]
        BY <2>6 DEF Footprint
      <3>2. PICK l \in Workers : wpc[l] \notin {"idle", "exit"} /\ wjob[l].id = w /\ p = JobPath(l)
        BY <3>1, EntrySteps
      <3>3. UNCHANGED byID
        BY <3>1, EntrySteps
      <3>4. wjob[l] # NoJob
        BY <3>2, NoIdAssumption DEF NoJob
      <3>5. byID[w].dir = wjob[l].dir
        BY <3>2, <3>4 DEF JobsHaveRows
      <3> QED BY <2>3, <3>2, <3>3, <3>5 DEF JobPath, Exists
    <2> QED BY <2>5, <2>6
  <1>2. CASE ~Running(w)
    <2>1. p \in Footprint(w) /\ Contents(w)' \subseteq Contents(w)
      BY <1>2, NothingNew
    <2>2. cpc[w] = "done"
      BY <2>1 DEF FilesWereInstalled
    <2>3. CASE Exists(w) /\ Exists(w)'
      BY <2>1, <2>3, RowKeepsDirectory DEF FilesHaveRows
    <2>4. CASE Exists(w) /\ ~Exists(w)'
      <3>1. ~CreateUndo(w)
        BY <2>2 DEF CreateUndo
      <3>2. PICK d \in Deleters : DeleteRemove(d) /\ dtarget[d] = w
        BY <2>4, <3>1, RowGoes
      <3>3. Contents(w) = {} /\ Footprint(w) \subseteq KeptPaths
        BY <2>4, <3>2 DEF DeleteRemove, DeleteKnowsDirectory
      <3> QED BY <2>1, <2>4, <3>3
    <2>5. CASE ~Exists(w)
      <3>1. ~Exists(w)'
        BY <2>2, <2>5, RowAppears DEF CreateInsert
      <3> QED BY <2>1, <2>5, <3>1 DEF FilesHaveRows
    <2> QED BY <2>3, <2>4, <2>5
  <1> QED BY <1>1, <1>2

(* A Delete knows what it clears and has cleared it.                       *)
LEMMA DeleteKnowsStep ==
  ASSUME TypeInv, HeldCopies, NoLostUpdate, DeleteClaimsId, DeleteExcludesInstall,
         FilesHaveRows, DeleteKnowsDirectory, [Next]_vars
  PROVE  DeleteKnowsDirectory'
  <1> SUFFICES ASSUME NEW d \in Deleters, dpc'[d] \notin {"idle", "done"}, Exists(dtarget[d])',
                      dtarget'[d] \notin early' \cup uncleared'
               PROVE  /\ dpc'[d] \in {"open", "clear"} => drow'[d].dir = byID'[dtarget'[d]].dir
                      /\ dpc'[d] = "clear" => \/ StillAt(dhandle[d], LocalPath[drow[d].dir])'
                                              \/ Footprint(dtarget[d])' = {}
                      /\ dpc'[d] = "remove" => /\ Contents(dtarget[d])' = {}
                                               /\ Footprint(dtarget[d])' \subseteq KeptPaths
    BY DEF DeleteKnowsDirectory, KeptPaths
  <1> USE DEF TypeInv, TypeOK, ControllerTypeOK
  <1>0. dtarget'[d] \notin early \cup uncleared
    BY ObservationsGrow
  <1>1. CASE \E w \in WorkspaceIds : DeleteCall(d, w)
    BY <1>1 DEF DeleteCall, DeleteBegin, DeleteGoto, DeleteReturn
  <1>2. ~DeleteAbandon(d) /\ ~DeleteRemove(d)
    BY DEF DeleteAbandon, DeleteRemove, DeleteReturn, DeleteGoto
  <1>3. CASE /\ dpc'[d] = dpc[d] /\ dtarget'[d] = dtarget[d]
             /\ drow'[d] = drow[d] /\ dhandle'[d] = dhandle[d]
    <2>1. PICK w \in WorkspaceIds : w = dtarget[d]
      BY <1>3 DEF LocalsDefined
    <2>2. cpc[w] \in {"inserted", "undo", "done"} /\ Exists(w)'
      BY <1>3, <2>1 DEF DeleteClaimsId, Exists
    <2>3. Exists(w)
      BY <2>2, RowAppears DEF CreateInsert
    <2>4. byID'[w].dir = byID[w].dir
      BY <2>2, <2>3, RowKeepsDirectory
    <2>5. ASSUME dpc[d] \in {"clear", "remove"}
          PROVE  Footprint(w)' \subseteq Footprint(w) /\ Contents(w)' \subseteq Contents(w)
      <3>1. ~Running(w)
        BY <1>0, <1>3, <2>1, <2>5 DEF DeleteExcludesInstall
      <3> QED BY <3>1, NothingNew
    <2>6. ASSUME dpc[d] = "clear"
          PROVE  StillAt(dhandle[d], LocalPath[drow[d].dir])' \/ Footprint(w)' = {}
      <3>1. drow[d].dir = byID[w].dir
        BY <1>0, <1>3, <2>1, <2>3, <2>6 DEF DeleteKnowsDirectory
      <3> DEFINE p == LocalPath[drow[d].dir]
      <3>2. p \in Paths /\ Footprint(w) \subseteq {p}
        BY <1>0, <1>3, <2>1, <2>3, <3>1, DirAssumption
           DEF FilesHaveRows, Footprint, RepoTypeOK, Exists, Rows
      <3>3. CASE Footprint(w) = {}
        BY <2>5, <2>6, <3>3
      <3>4. CASE StillAt(dhandle[d], p)
        <4>1. CASE fs'[p] = {}
          <5>1. p \notin Footprint(w)'
            BY <4>1 DEF Footprint
          <5> QED BY <2>5, <2>6, <3>2, <5>1
        <4>2. CASE fs'[p] # {}
          <5>1. \A v \in WorkspaceIds : <<v, "root">> \in fs[p] => <<v, "root">> \in fs'[p]
            BY <3>2, <4>2, FileSteps DEF RootsOnly
          <5> QED BY <1>3, <3>4, <5>1 DEF StillAt, RootsAt
        <4> QED BY <4>1, <4>2
      <3> QED BY <1>0, <1>3, <2>1, <2>3, <2>6, <3>3, <3>4 DEF DeleteKnowsDirectory
    <2>7. ASSUME dpc[d] = "remove" PROVE Contents(w)' = {} /\ Footprint(w)' \subseteq KeptPaths
      BY <1>0, <1>3, <2>1, <2>3, <2>5, <2>7 DEF DeleteKnowsDirectory
    <2>8. dpc[d] \in {"open", "clear"} => drow[d].dir = byID[w].dir
      BY <1>0, <1>3, <2>1, <2>3 DEF DeleteKnowsDirectory
    <2>9. Footprint(dtarget[d])' = Footprint(w)' /\ Contents(dtarget[d])' = Contents(w)'
      BY <1>3, <2>1 DEF Footprint, Contents
    <2> QED BY <1>3, <2>1, <2>4, <2>6, <2>7, <2>8, <2>9
  <1>4. CASE DeleteTake(d) \/ DeleteWaitIdle(d)
    BY <1>4 DEF DeleteTake, DeleteWaitIdle, DeleteGoto
  <1>5. CASE DeleteGet(d)
    BY <1>5 DEF DeleteGet, DeleteGoto, DeleteReturn, repoVars
  <1>6. CASE DeleteOpen(d)
    <2>1. /\ dpc[d] = "open" /\ UNCHANGED <<byID, fs, dtarget, drow>>
          /\ dpc'[d] = "clear"
          /\ dhandle'[d] = RootsAt(LocalPath[drow[d].dir]) \/ dhandle'[d] = {}
      BY <1>6 DEF DeleteOpen, DeleteGoto, repoVars
    <2>2. drow[d].dir = byID[dtarget[d]].dir
      BY <1>0, <2>1 DEF DeleteKnowsDirectory, Exists
    <2>3. StillAt(dhandle[d], LocalPath[drow[d].dir])'
      BY <2>1 DEF StillAt, RootsAt
    <2> QED BY <2>1, <2>2, <2>3
  <1>7. CASE DeleteClear(d)
    <2>1. PICK w \in WorkspaceIds : w = dtarget[d]
      BY <1>7 DEF LocalsDefined, DeleteClear
    <2>2. /\ dpc[d] = "clear" /\ dpc'[d] = "remove" /\ UNCHANGED <<byID, dtarget>>
          /\ ClearDir(dhandle[d], drow[d].dir)
      BY <1>7 DEF DeleteClear, DeleteGoto, repoVars
    <2>3. /\ Exists(w) /\ drow[d].dir = byID[w].dir
          /\ StillAt(dhandle[d], LocalPath[drow[d].dir]) \/ Footprint(w) = {}
      BY <1>0, <2>1, <2>2 DEF DeleteKnowsDirectory, Exists
    <2> DEFINE p == LocalPath[drow[d].dir]
    <2>4. Footprint(w) \subseteq {p} /\ p \in Paths /\ drow[d].dir \in DirOptions
      BY <1>0, <2>1, <2>2, <2>3, DirAssumption DEF FilesHaveRows, Footprint, RepoTypeOK, Exists, Rows
    <2>5. ~Running(w)
      BY <1>0, <2>1, <2>2 DEF DeleteExcludesInstall
    <2>6. Footprint(w)' \subseteq Footprint(w) /\ Contents(w)' \subseteq Contents(w)
      BY <2>5, NothingNew
    <2>7. Contents(w) \subseteq Footprint(w)
      BY DEF Contents, Footprint
    <2>8. Contents(w)' = {} /\ Footprint(w)' \subseteq KeptPaths
      <3>1. CASE Footprint(w) = {}
        BY <2>6, <2>7, <3>1
      <3>2. CASE StillAt(dhandle[d], p)
        <4>1. fs'[p] = IF drow[d].dir \in KeepDir THEN RootsOnly(p) ELSE {}
          BY <2>2, <2>4, <3>2 DEF ClearDir, InfraTypeOK
        <4>2. p \notin Contents(w)'
          <5>1. ASSUME NEW part, <<w, part>> \in fs'[p] PROVE part = "root"
            BY <4>1, <5>1 DEF RootsOnly
          <5> HIDE DEF p
          <5> QED BY <5>1 DEF Contents
        <4>3. p \in Footprint(w)' => p \in KeptPaths
          BY <4>1 DEF Footprint, KeptPaths
        <4> QED BY <2>4, <2>6, <2>7, <4>2, <4>3
      <3> QED BY <2>3, <3>1, <3>2
    <2>9. Footprint(dtarget[d])' = Footprint(w)' /\ Contents(dtarget[d])' = Contents(w)'
      BY <2>1, <2>2 DEF Footprint, Contents
    <2> QED BY <2>2, <2>8, <2>9
  <1> QED BY <1>1, <1>2, <1>3, <1>4, <1>5, <1>6, <1>7, DeleteFrame DEF DeleteStep

(* The directories' inductive invariant.                                   *)
DirectoryInv ==
  /\ DeleteClaimsId /\ DeleteExcludesInstall
  /\ JobsHaveRows /\ OneCreate /\ RowsAreApart
  /\ FilesWereInstalled /\ InstallIsAlone /\ FilesAreApart
  /\ FilesHaveRows /\ DeleteKnowsDirectory

(* DirectoryInv holds throughout, whatever fails and whoever deletes what. *)
LEMMA DirectoriesInvariant == Spec => []DirectoryInv
  <1>1. Init => HeldCopies /\ NoLostUpdate /\ DirectoryInv
    <2> USE DEF Init, RepoInit, InfraInit, ControllerInit, SchedulerInit, FacadeInit
    <2>1. Init => HeldCopies /\ NoLostUpdate
      BY DEF HeldCopies, NoLostUpdate
    <2>2. Init => DeleteClaimsId /\ DeleteExcludesInstall /\ JobsHaveRows /\ DeleteKnowsDirectory
      BY DEF DeleteClaimsId, DeleteExcludesInstall, JobsHaveRows, DeleteKnowsDirectory
    <2>3. Init => OneCreate /\ RowsAreApart
      BY DEF OneCreate, ActiveCreates, RowsAreApart, Exists
    <2>4. Init => FilesWereInstalled /\ FilesHaveRows
      BY DEF FilesWereInstalled, FilesHaveRows, Footprint
    <2>5. Init => InstallIsAlone /\ FilesAreApart
      BY DEF InstallIsAlone, FilesAreApart, Contents
    <2> QED BY <2>1, <2>2, <2>3, <2>4, <2>5 DEF DirectoryInv
  <1>2. TypeInv /\ RowsAreCreated /\ OneInstallerPerWorkspace
          /\ (HeldCopies /\ NoLostUpdate /\ DirectoryInv) /\ [Next]_vars
          => (HeldCopies /\ NoLostUpdate /\ DirectoryInv)'
    <2> SUFFICES ASSUME TypeInv, RowsAreCreated, OneInstallerPerWorkspace, HeldCopies, NoLostUpdate,
                        DirectoryInv, [Next]_vars
                 PROVE  (HeldCopies /\ NoLostUpdate /\ DirectoryInv)'
      OBVIOUS
    <2> USE DEF DirectoryInv
    <2>1. HeldCopies' /\ NoLostUpdate'
      BY CopyStep
    <2>2. DeleteClaimsId' /\ DeleteExcludesInstall'
      BY DeleteExclusionStep
    <2>3. JobsHaveRows' /\ OneCreate' /\ RowsAreApart'
      BY JobsHaveRowsStep, OneCreateStep, RowsApartStep
    <2>4. FilesWereInstalled' /\ InstallIsAlone' /\ FilesAreApart'
      BY FilesWereInstalledStep, InstallIsAloneStep, FilesApartStep
    <2>5. FilesHaveRows' /\ DeleteKnowsDirectory'
      BY FilesHaveRowsStep, DeleteKnowsStep
    <2> QED BY <2>1, <2>2, <2>3, <2>4, <2>5
  <1>3. Spec => []TypeInv
    BY TypeCorrect, PTL DEF TypeInv
  <1> QED BY <1>1, <1>2, <1>3, RowsCreated, InstallerExclusion, PTL DEF Spec

(* Two rows never name one directory, and the files of two workspaces are  *)
(* never in one: for every pair of path functions, with failing Clears and *)
(* kept directories, but for ids deleted before they were submitted and    *)
(* for paths that the manager's check takes for two.                       *)
THEOREM DirectoriesAreExclusive == Spec => []NoSharedDirectory
  <1>1. DirectoryInv => NoSharedDirectory
    BY DEF DirectoryInv, NoSharedDirectory, RowsAreApart, FilesAreApart
  <1> QED BY <1>1, DirectoriesInvariant, PTL

(* A workspace whose row is gone has left no file on the host, and only a  *)
(* directory that keep_dir asks for, whichever of its installs were        *)
(* interrupted and however many Deletes raced, but for the Deletes whose   *)
(* Clear failed or that came before the submission.                        *)
THEOREM DirectoriesAreNotOrphaned == Spec => []NoOrphanDirectory
  <1>1. DirectoryInv => NoOrphanDirectory
    <2> SUFFICES ASSUME DirectoryInv, NEW w \in WorkspaceIds \ (early \cup uncleared), ~Exists(w)
                 PROVE  Contents(w) = {} /\ Footprint(w) \subseteq KeptPaths
      BY DEF NoOrphanDirectory
    <2>1. Contents(w) \subseteq Footprint(w) /\ Footprint(w) \subseteq Paths
      BY DEF Contents, Footprint
    <2> QED BY <2>1 DEF DirectoryInv, FilesHaveRows
  <1> QED BY <1>1, DirectoriesInvariant, PTL
=============================================================================
