------------------------- MODULE WorkspaceLifecycle -------------------------
(***************************************************************************)
(* The workspace manager as a whole: callers of CreateWorkspace and        *)
(* DeleteWorkspace, the install workers, the probe scheduler, the          *)
(* repository, the directories and the manager's Start and Stop, all       *)
(* running concurrently.                                                   *)
(***************************************************************************)
EXTENDS WorkspaceFacade

vars == <<repoVars, controllerVars, schedVars, facadeVars>>

(* Type invariant of the composition: rows, jobs and control points are    *)
(* what the code can hold; in particular no row without a status is stored *)
(* or about to be.                                                         *)
TypeOK ==
  /\ RepoTypeOK
  /\ InfraTypeOK
  /\ ControllerTypeOK
  /\ SchedulerTypeOK
  /\ FacadeTypeOK

Init ==
  /\ RepoInit
  /\ InfraInit
  /\ ControllerInit
  /\ SchedulerInit
  /\ FacadeInit

ControllerNext ==
  \/ \E k \in Workers : Dequeue(k) \/ WorkerExit(k) \/ WorkerStep(k) \/ ExpireInstall(k)
  \/ \E w \in WorkspaceIds : Age(w)
  \/ \E d \in Deleters : DeleteStep(d) \/ DeleteAbandon(d)

SchedulerNext ==
  \/ Tick
  \/ \E w \in WorkspaceIds : ProbeStep(w)
  \/ TickDone
  \/ SchedulerExit

FacadeNext ==
  \/ \E w \in WorkspaceIds, alias \in AliasKeys, dir \in DirOptions : CreateCheck(w, alias, dir)
  \/ \E w \in WorkspaceIds : CreateStep(w)
  \/ \E d \in Deleters, w \in WorkspaceIds : DeleteCall(d, w)
  \/ Start
  \/ StopBegin
  \/ StopStep
  \/ StopExpire

(* The manager is closed and everything has run to its end.                *)
Terminated ==
  /\ phase = "closed"
  /\ ActiveCreates = {} /\ ActiveDeletes = {}
  /\ spc \in {"off", "exit"}
  /\ started => \A k \in Workers : wpc[k] = "exit"
  /\ UNCHANGED vars

Next == ControllerNext \/ SchedulerNext \/ FacadeNext \/ Terminated

Spec == Init /\ [][Next]_vars

(* The goroutines of the manager keep running and every call they make     *)
(* returns: workers and probes run under contexts with deadlines, tickers  *)
(* keep ticking, an API call that was accepted runs to its end.  A select  *)
(* chooses at random among the cases that are ready, so the scheduler's    *)
(* loop does not take due ticks for ever after it was canceled.  Nothing   *)
(* is assumed of the callers, of the clock or of the hosts' answers.       *)
Fairness ==
  /\ \A k \in Workers : WF_vars(Dequeue(k)) /\ WF_vars(WorkerExit(k)) /\ WF_vars(WorkerStep(k))
  /\ \A d \in Deleters : WF_vars(DeleteStep(d))
  /\ \A w \in WorkspaceIds : WF_vars(CreateStep(w)) /\ WF_vars(ProbeStep(w))
  /\ WF_vars(Tick) /\ WF_vars(TickDone) /\ SF_vars(SchedulerExit)
  /\ WF_vars(StopStep)

FairSpec == Spec /\ Fairness

-----------------------------------------------------------------------------
(* Safety                                                                  *)

Queued(w) == \E job \in queue : job.id = w

(* An install belongs to one worker: no id is queued twice, queued while a *)
(* worker runs it, or run by two workers, and only ids whose Create got as *)
(* far as Submit are queued or run.  The controller relies on this when it *)
(* keeps one cancel function per id (controller.go dequeue).               *)
OneInstallerPerWorkspace ==
  /\ \A i, j \in queue : i.id = j.id => i = j
  /\ \A k \in Workers : wjob[k] # NoJob =>
       /\ ~Queued(wjob[k].id)
       /\ \A l \in Workers : wjob[l].id = wjob[k].id => l = k
  /\ \A w \in WorkspaceIds : Queued(w) \/ Running(w) => cpc[w] = "done"

(* Every row still in init has someone who will move it on: the Create     *)
(* that inserted it, its job in the queue, the worker that runs it, or the *)
(* Delete that took its job away.  Otherwise it would sit in init until    *)
(* the watchdog, or after Stop for ever.                                   *)
InitHasOwner ==
  \A w \in WorkspaceIds : HasStatus(w, "init") /\ ~repoClosed =>
    \/ cpc[w] \in {"inserted", "undo"}
    \/ Queued(w)
    \/ \E k \in Workers : wjob[k].id = w /\ wpc[k] \notin {"cleanup", "finish"}
    \/ \E d \in Deleters : dtarget[d] = w /\ dpc[d] \in {"wait", "get", "open", "clear", "remove"}

(* Past its wait, Delete has the workspace to itself: no worker installs   *)
(* it and no job for it is queued while Delete opens and clears the        *)
(* directory (controller.go, comment on Delete).  The one way around it is *)
(* a Delete that looked for the job between Create's Insert and Submit.    *)
DeleteExcludesInstall ==
  \A d \in Deleters : dpc[d] \in {"get", "open", "clear", "remove"} /\ dtarget[d] \notin early =>
    ~Running(dtarget[d]) /\ ~Queued(dtarget[d])

(* A workspace whose row is gone has left no file on the host, and a       *)
(* directory only where keep_dir asks for it: neither an interrupted       *)
(* install, nor a failed one, nor two racing Deletes, nor another          *)
(* workspace at the same path leave an orphan behind.  The two ways to get *)
(* one are a Delete whose Clear failed, which the code only logs, and a    *)
(* Delete that looked for the job before it was submitted.                 *)
NoOrphanDirectory ==
  \A w \in WorkspaceIds \ (early \cup uncleared) :
    cpc[w] = "done" /\ ~Exists(w) => Contents(w) = {} /\ Footprint(w) \subseteq KeptPaths

(* The scheduler's reload-then-Update and the controller's do not lose an  *)
(* update: a row that still exists with the status it was read with is the *)
(* row that was read.  Update writes the whole row, so anything written in *)
(* between would be undone.                                                *)
NoLostUpdate ==
  /\ \A w \in WorkspaceIds : ppc[w] = "write" /\ Exists(w) => byID[w] = platest[w]
  /\ \A k \in Workers : wpc[k] = "persist" /\ HasStatus(wjob[k].id, "init") =>
       byID[wjob[k].id] = wlatest[k]

(* Two rows never name the same directory, and the files of at most one    *)
(* workspace are at a path: CreateWorkspace's check and insert, Init's     *)
(* emptiness check and the wait of Delete add up, whatever Clear leaves    *)
(* behind.  The two ways around it are a Delete that looked for the job    *)
(* before it was submitted, and a path that the manager's check takes for  *)
(* two because it does not trim the option.                                *)
NoSharedDirectory ==
  /\ \A v, w \in WorkspaceIds :
       Exists(v) /\ Exists(w) /\ CanonicalDir[byID[v].dir] = CanonicalDir[byID[w].dir] => v = w
  /\ \A v, w \in WorkspaceIds \ early :
       v # w => Contents(v) \cap Contents(w) \subseteq AmbiguousPaths

(* When Stop returns without its context having expired nothing is left    *)
(* half done: no row is in init, no job is queued and nothing runs.        *)
StopLeavesNothingBehind ==
  phase = "closed" /\ ~stopExpired =>
    /\ \A w \in WorkspaceIds : ~HasStatus(w, "init")
    /\ queue = {}
    /\ \A k \in Workers : wjob[k] = NoJob
    /\ \A w \in WorkspaceIds : ppc[w] = "none"

(* The locals of a goroutine are set where its control point uses them,    *)
(* and probes belong to a tick of a started scheduler.                     *)
LocalsDefined ==
  /\ \A k \in Workers : wpc[k] \notin {"idle", "exit"} => wjob[k] \in Jobs
  /\ \A k \in Workers : wpc[k] \in {"idle", "exit"} => wjob[k] = NoJob
  /\ \A k \in Workers : wpc[k] = "persist" => wlatest[k] \in Rows
  /\ \A d \in Deleters : dpc[d] \notin {"idle", "done"} => dtarget[d] \in WorkspaceIds
  /\ \A d \in Deleters : dpc[d] \in {"open", "clear"} => drow[d] \in Rows
  /\ \A w \in WorkspaceIds : ppc[w] \in {"todo", "record"} => snap[w] \in Rows
  /\ \A w \in WorkspaceIds : ppc[w] = "write" => platest[w] \in Rows
  /\ \A w \in WorkspaceIds : cpc[w] \in {"checked", "inserted"} => creq[w] \in Rows
  /\ \A w \in WorkspaceIds : ppc[w] # "none" => spc = "tick"
  /\ phase = "built" => spc = "off"

-----------------------------------------------------------------------------
(* Liveness, under FairSpec                                                *)

Misreported(w) == HasStatus(w, "healthy") /\ ~DirExists(LocalPath[byID[w].dir])

(* While the scheduler runs, a row that says healthy although its          *)
(* directory is gone is corrected.                                         *)
MisreportIsCorrected ==
  \A w \in WorkspaceIds : Misreported(w) ~> ~Misreported(w) \/ scancel

(* Stop completes without help from its context.                           *)
StopCompletes == phase = "sched" ~> phase = "closed"

-----------------------------------------------------------------------------
(* What the detailed specification promises through its status column.     *)

StatusOf(w) ==
  IF Exists(w) THEN byID[w].status
  ELSE IF cpc[w] \in {"new", "checked"} THEN "unused" ELSE "gone"

Abstract == INSTANCE WorkspaceStatus
              WITH Ids <- WorkspaceIds, status <- [w \in WorkspaceIds |-> StatusOf(w)]

(* The status column follows the state machine of the design, whatever     *)
(* the interleaving of the facade, the workers and the scheduler.          *)
StatusMachine == Abstract!StatusSafe

(* ... and no workspace stays in init.                                     *)
StatusMachineFair == Abstract!StatusSpec

(* The installs as JobQueue has them: what is queued, at work and waiting. *)
QueuedJobs == {[n |-> job.ticket, id |-> job.id] : job \in queue}

WorkersWork == [k \in Workers |-> IF wjob[k] = NoJob THEN {} ELSE {wjob[k].id}]

WorkersGone == {k \in Workers : wpc[k] = "exit"}

DeletePoint(d) == IF dpc[d] = "take" THEN "enter" ELSE IF dpc[d] = "wait" THEN "wait" ELSE "alone"

DeleteCalls == [d \in Deleters |-> IF dpc[d] \in {"idle", "done"}
                                   THEN [at |-> "out", of |-> {}]
                                   ELSE [at |-> DeletePoint(d), of |-> {dtarget[d]}]]

InstallJobs == INSTANCE JobQueue
                 WITH Deletes <- Deleters, Ids <- WorkspaceIds,
                      queue <- QueuedJobs, submits <- tickets, work <- WorkersWork,
                      gone <- WorkersGone, calls <- DeleteCalls

(* The manager uses its queue as the queue of InstallQueue can be used:    *)
(* both implement JobQueue, the one with rows, directories and Stop around *)
(* it, the other with the mutex and the condition variable inside.         *)
InstallsAreJobs == InstallJobs!JobSafe

-----------------------------------------------------------------------------
(* Statements of the documentation that the code does not keep             *)

(* "healthy is persisted only after the post-install probe succeeds."      *)
HealthyOnlyAfterInstall ==
  \A w \in WorkspaceIds : HasStatus(w, "healthy") => w \in installed

(* "failed is persisted before any cleanup that destroys evidence": a      *)
(* worker's cleanup never empties the directory of a healthy workspace.    *)
CleanupOnlyAfterFailed ==
  [][\A k \in Workers : wpc[k] = "cleanup" /\ wpc'[k] # "cleanup" /\ fs' # fs =>
        ~HasStatus(wjob[k].id, "healthy")]_vars

(* "If the failure was an install timeout, preserve the directory for      *)
(* diagnosis": a worker does not clear a workspace that the watchdog       *)
(* failed and that is still failed.                                        *)
TimedOutDirectoryKept ==
  [][\A k \in Workers : wpc[k] = "cleanup" /\ wpc'[k] # "cleanup" /\ fs' # fs =>
        ~(wjob[k].id \in aged /\ HasStatus(wjob[k].id, "failed"))]_vars

(* Delete "waits until no worker is still running that install before      *)
(* opening infra", whenever it was called.                                 *)
DeleteAlwaysExcludesInstall ==
  \A d \in Deleters : dpc[d] \in {"get", "open", "clear", "remove"} =>
    ~Running(dtarget[d]) /\ ~Queued(dtarget[d])

(* The manager "refuses to register two workspaces with the same canonical *)
(* path", as localdir understands the path.                                *)
OneWorkspacePerPath ==
  \A v, w \in WorkspaceIds :
    Exists(v) /\ Exists(w) /\ LocalPath[byID[v].dir] = LocalPath[byID[w].dir] => v = w

(* "deleting a non-existent workspace returns ErrWorkspaceNotFound without *)
(* side effects."                                                          *)
DeleteOfGoneHasNoEffect ==
  [][\A d \in Deleters : dpc[d] = "clear" /\ dpc'[d] = "remove" /\ fs' # fs =>
        Exists(dtarget[d])]_vars

=============================================================================
