---------------------- MODULE ConditionVariables_proofs ----------------------
(***************************************************************************)
(* Theorems about the two components whose goroutines sleep on a           *)
(* sync.Cond: the install queue of the workspace controller, for any       *)
(* number of workers, deletes, workspaces and jobs, and a localdir         *)
(* InfraOps, for any number of callers, calls and directories.             *)
(***************************************************************************)
EXTENDS InstallQueue, LocalDir, FiniteSetTheorems, TLAPS

-----------------------------------------------------------------------------
(* The install queue.  The inductive invariant is the conjunction of the   *)
(* type invariant, RunningCounts, SleepersHaveReason and the property of   *)
(* interest, QueuedJobHasWorker: the last needs to know that no Delete     *)
(* sleeps when no worker runs, so that the Signal of Submit cannot go      *)
(* astray just then.                                                       *)

\* What every step of the queue preserves.
QueueInv == QueueTypeOK /\ RunningCounts /\ SleepersHaveReason /\ QueuedJobHasWorker

\* The workers that install a workspace.
Installing(id) == {w \in Workers : worker[w] = "running" /\ job[w] = id}

\* Waking workers and deletes keeps the types of both, and changes no worker
\* that is running unless it is one of those woken.
LEMMA WakeFacts ==
    ASSUME QueueTypeOK, NEW W, NEW D, Wake(W, D)
    PROVE  /\ worker' \in [Workers -> {"ready", "asleep", "running", "gone"}]
           /\ delete' \in [Deletes -> {"idle", "enter", "check", "asleep", "done", "left"}]
           /\ \A w \in Workers : worker'[w] = IF w \in W THEN "ready" ELSE worker[w]
           /\ \A d \in Deletes : delete'[d] = IF d \in D THEN "check" ELSE delete[d]
BY DEF QueueTypeOK, Wake

\* Signal wakes at most one sleeper and nobody else moves; with a sleeper there,
\* one wakes.
LEMMA SignalFacts ==
    ASSUME QueueTypeOK, Signal
    PROVE  /\ worker' \in [Workers -> {"ready", "asleep", "running", "gone"}]
           /\ delete' \in [Deletes -> {"idle", "enter", "check", "asleep", "done", "left"}]
           /\ \A w \in Workers : worker'[w] = worker[w] \/ (worker[w] = "asleep" /\ worker'[w] = "ready")
           /\ \A d \in Deletes : delete'[d] = delete[d] \/ (delete[d] = "asleep" /\ delete'[d] = "check")
           /\ AsleepWorkers # {} /\ AsleepDeletes = {} => \E w \in Workers : worker'[w] = "ready"
<1>1. CASE \E w \in AsleepWorkers : Wake({w}, {})
  <2> PICK w \in AsleepWorkers : Wake({w}, {})  BY <1>1
  <2> QED BY WakeFacts DEF AsleepWorkers
<1>2. CASE \E d \in AsleepDeletes : Wake({}, {d})
  <2> PICK d \in AsleepDeletes : Wake({}, {d})  BY <1>2
  <2> QED BY WakeFacts DEF AsleepDeletes
<1>3. CASE AsleepWorkers = {} /\ AsleepDeletes = {} /\ UNCHANGED <<worker, delete>>
  BY <1>3 DEF QueueTypeOK
<1> QED BY <1>1, <1>2, <1>3 DEF Signal

\* The types hold at first and every step keeps them, given that only an install
\* that is counted ends.
LEMMA QueueTypeStep ==
    ASSUME QueueTypeOK, RunningCounts, [QueueNext]_queueVars
    PROVE  QueueTypeOK'
<1> USE DEF QueueTypeOK
<1>1. ASSUME NEW id \in Ids, Submit(id) PROVE QueueTypeOK'
  BY <1>1, SignalFacts DEF Submit
<1>2. CASE Stop
  BY <1>2, WakeFacts DEF Stop
<1>3. ASSUME NEW w \in Workers, WorkerStep(w) PROVE QueueTypeOK'
  <2>1. CASE DequeueWaits(w)
    BY <2>1 DEF DequeueWaits
  <2>2. CASE DequeueTakes(w)
    BY <2>2 DEF DequeueTakes
  <2>3. CASE DequeueExits(w)
    BY <2>3 DEF DequeueExits
  <2>4. CASE FinishInstall(w)
    <3>1. w \in Installing(job[w]) /\ installRunning[job[w]] = Cardinality(Installing(job[w]))
      BY <2>4 DEF FinishInstall, Installing, RunningCounts
    <3>2. IsFiniteSet(Installing(job[w]))
      BY WorkersAssumption, FS_Subset DEF Installing
    <3>3. installRunning[job[w]] # 0
      BY <3>1, <3>2, FS_EmptySet
    <3>4. installRunning' \in [Ids -> Nat]
      BY <2>4, <3>3 DEF FinishInstall
    <3> QED BY <2>4, <3>4, WakeFacts DEF FinishInstall
  <2> QED BY <1>3, <2>1, <2>2, <2>3, <2>4 DEF WorkerStep
<1>4. ASSUME NEW d \in Deletes, DeleteStep(d) PROVE QueueTypeOK'
  <2>1. CASE DeleteTakes(d)
    BY <2>1, WakeFacts DEF DeleteTakes
  <2>2. CASE DeleteWaits(d) \/ DeleteProceeds(d) \/ DeleteGivesUp(d)
    BY <2>2 DEF DeleteWaits, DeleteProceeds, DeleteGivesUp
  <2>3. CASE CtxBroadcast(d)
    BY <2>3, WakeFacts DEF CtxBroadcast
  <2> QED BY <1>4, <2>1, <2>2, <2>3 DEF DeleteStep
<1>5. ASSUME NEW d \in Deletes, NEW id \in Ids, CtxDone(d) \/ DeleteEnters(d, id) PROVE QueueTypeOK'
  BY <1>5 DEF CtxDone, DeleteEnters
<1>6. ASSUME NEW d \in Deletes, CtxDone(d) PROVE QueueTypeOK'
  BY <1>6 DEF CtxDone
<1>7. CASE UNCHANGED queueVars
  BY <1>7 DEF queueVars
<1> QED BY <1>1, <1>2, <1>3, <1>4, <1>5, <1>6, <1>7 DEF QueueNext

\* What a step does to the running installs: a worker starts one, a worker ends
\* one, or all are as before.
LEMMA RunningMoves ==
    ASSUME QueueTypeOK, [QueueNext]_queueVars
    PROVE  \/ \E w \in Workers : DequeueTakes(w)
           \/ \E w \in Workers : FinishInstall(w)
           \/ /\ UNCHANGED <<installRunning, job>>
              /\ \A w \in Workers : worker'[w] = "running" <=> worker[w] = "running"
<1>1. ASSUME NEW id \in Ids, Submit(id)
      PROVE  UNCHANGED <<installRunning, job>> /\ \A w \in Workers : worker'[w] = "running" <=> worker[w] = "running"
  BY <1>1, SignalFacts DEF Submit
<1>2. ASSUME Stop
      PROVE  UNCHANGED <<installRunning, job>> /\ \A w \in Workers : worker'[w] = "running" <=> worker[w] = "running"
  BY <1>2, WakeFacts DEF Stop, AsleepWorkers
<1>3. ASSUME NEW w \in Workers, DequeueWaits(w) \/ DequeueExits(w)
      PROVE  UNCHANGED <<installRunning, job>> /\ \A v \in Workers : worker'[v] = "running" <=> worker[v] = "running"
  BY <1>3 DEF DequeueWaits, DequeueExits, QueueTypeOK
<1>4. ASSUME NEW d \in Deletes, DeleteTakes(d) \/ CtxBroadcast(d)
      PROVE  UNCHANGED <<installRunning, job>> /\ \A w \in Workers : worker'[w] = "running" <=> worker[w] = "running"
  BY <1>4, WakeFacts DEF DeleteTakes, CtxBroadcast, AsleepWorkers
<1>5. ASSUME NEW d \in Deletes,
             DeleteWaits(d) \/ DeleteProceeds(d) \/ DeleteGivesUp(d) \/ CtxDone(d) \/ (\E id \in Ids : DeleteEnters(d, id))
      PROVE  UNCHANGED <<installRunning, job>> /\ \A w \in Workers : worker'[w] = "running" <=> worker[w] = "running"
  BY <1>5 DEF DeleteWaits, DeleteProceeds, DeleteGivesUp, CtxDone, DeleteEnters
<1>6. ASSUME UNCHANGED queueVars
      PROVE  UNCHANGED <<installRunning, job>> /\ \A w \in Workers : worker'[w] = "running" <=> worker[w] = "running"
  BY <1>6 DEF queueVars
<1> QED BY <1>1, <1>2, <1>3, <1>4, <1>5, <1>6 DEF QueueNext, WorkerStep, DeleteStep

\* installRunning keeps counting the installs.
LEMMA QueueCountStep ==
    ASSUME QueueTypeOK, RunningCounts, [QueueNext]_queueVars
    PROVE  RunningCounts'
<1> SUFFICES ASSUME NEW id \in Ids
             PROVE  installRunning'[id] = Cardinality(Installing(id)')
  BY DEF RunningCounts, Installing
<1>1. IsFiniteSet(Installing(id)) /\ installRunning[id] = Cardinality(Installing(id))
  BY WorkersAssumption, FS_Subset DEF Installing, RunningCounts
<1>2. ASSUME NEW w \in Workers, DequeueTakes(w)
      PROVE  installRunning'[id] = Cardinality(Installing(id)')
  <2> PICK j \in queue : /\ installRunning' = [installRunning EXCEPT ![j.id] = @ + 1]
                         /\ job' = [job EXCEPT ![w] = j.id]
    BY <1>2 DEF DequeueTakes
  <2>1. w \notin Installing(id) /\ j.id \in Ids
    BY <1>2 DEF DequeueTakes, Installing, QueueTypeOK
  <2>2. CASE id = j.id
    <3>1. Installing(id)' = Installing(id) \cup {w}
      BY <1>2, <2>2 DEF DequeueTakes, Installing, QueueTypeOK
    <3>2. Cardinality(Installing(id) \cup {w}) = Cardinality(Installing(id)) + 1
      BY <1>1, <2>1, FS_AddElement
    <3>3. installRunning'[id] = installRunning[id] + 1
      BY <2>1, <2>2 DEF QueueTypeOK
    <3> QED BY <1>1, <3>1, <3>2, <3>3
  <2>3. CASE id # j.id
    <3>1. Installing(id)' = Installing(id)
      BY <1>2, <2>1, <2>3 DEF DequeueTakes, Installing, QueueTypeOK
    <3>2. installRunning'[id] = installRunning[id]
      BY <2>1, <2>3 DEF QueueTypeOK
    <3> QED BY <1>1, <3>1, <3>2
  <2> QED BY <2>2, <2>3
<1>3. ASSUME NEW w \in Workers, FinishInstall(w)
      PROVE  installRunning'[id] = Cardinality(Installing(id)')
  <2>1. Installing(id)' = Installing(id) \ {w}
    BY <1>3, WakeFacts DEF FinishInstall, Installing, AsleepWorkers
  <2>2. Cardinality(Installing(id) \ {w})
           = IF w \in Installing(id) THEN Cardinality(Installing(id)) - 1 ELSE Cardinality(Installing(id))
    BY <1>1, FS_RemoveElement
  <2>3. w \in Installing(id) <=> job[w] = id
    BY <1>3 DEF FinishInstall, Installing
  <2>4. installRunning'[id] = IF job[w] = id THEN installRunning[id] - 1 ELSE installRunning[id]
    BY <1>3 DEF FinishInstall, QueueTypeOK
  <2> QED BY <1>1, <2>1, <2>2, <2>3, <2>4
<1>4. ASSUME UNCHANGED <<installRunning, job>>,
             \A w \in Workers : worker'[w] = "running" <=> worker[w] = "running"
      PROVE  installRunning'[id] = Cardinality(Installing(id)')
  <2>1. Installing(id)' = Installing(id)
    BY <1>4 DEF Installing
  <2> QED BY <1>1, <1>4, <2>1
<1> QED BY <1>2, <1>3, <1>4, RunningMoves

\* Sleepers keep their reason: whoever takes it away wakes them.
LEMMA QueueSleepersStep ==
    ASSUME QueueTypeOK, SleepersHaveReason, [QueueNext]_queueVars
    PROVE  SleepersHaveReason'
<1>1. ASSUME NEW id \in Ids, Submit(id) PROVE SleepersHaveReason'
  BY <1>1, SignalFacts DEF Submit, SleepersHaveReason, QueueTypeOK
<1>2. CASE Stop
  BY <1>2, WakeFacts DEF Stop, SleepersHaveReason, AsleepWorkers, AsleepDeletes
<1>3. ASSUME NEW w \in Workers, WorkerStep(w) PROVE SleepersHaveReason'
  <2>1. CASE DequeueWaits(w)
    BY <2>1 DEF DequeueWaits, SleepersHaveReason, QueueTypeOK
  <2>2. CASE DequeueTakes(w)
    <3> PICK j \in queue : installRunning' = [installRunning EXCEPT ![j.id] = @ + 1]
      BY <2>2 DEF DequeueTakes
    <3>1. \A id \in Ids : installRunning[id] > 0 => installRunning'[id] > 0
      BY DEF QueueTypeOK
    <3> QED BY <2>2, <3>1 DEF DequeueTakes, SleepersHaveReason, QueueTypeOK
  <2>3. CASE DequeueExits(w)
    BY <2>3 DEF DequeueExits, SleepersHaveReason, QueueTypeOK
  <2>4. CASE FinishInstall(w)
    BY <2>4, WakeFacts DEF FinishInstall, SleepersHaveReason, AsleepWorkers, AsleepDeletes
  <2> QED BY <1>3, <2>1, <2>2, <2>3, <2>4 DEF WorkerStep
<1>4. ASSUME NEW d \in Deletes, DeleteStep(d) PROVE SleepersHaveReason'
  <2>1. CASE DeleteTakes(d)
    BY <2>1, WakeFacts DEF DeleteTakes, SleepersHaveReason, AsleepWorkers, AsleepDeletes
  <2>2. CASE DeleteWaits(d) \/ DeleteProceeds(d) \/ DeleteGivesUp(d)
    BY <2>2 DEF DeleteWaits, DeleteProceeds, DeleteGivesUp, SleepersHaveReason, QueueTypeOK
  <2>3. CASE CtxBroadcast(d)
    BY <2>3, WakeFacts DEF CtxBroadcast, SleepersHaveReason, AsleepWorkers, AsleepDeletes
  <2> QED BY <1>4, <2>1, <2>2, <2>3 DEF DeleteStep
<1>5. ASSUME NEW d \in Deletes, NEW id \in Ids, DeleteEnters(d, id) PROVE SleepersHaveReason'
  BY <1>5 DEF DeleteEnters, SleepersHaveReason, QueueTypeOK
<1>6. ASSUME NEW d \in Deletes, CtxDone(d) PROVE SleepersHaveReason'
  BY <1>6 DEF CtxDone, SleepersHaveReason
<1>7. CASE UNCHANGED queueVars
  BY <1>7 DEF queueVars, SleepersHaveReason
<1> QED BY <1>1, <1>2, <1>3, <1>4, <1>5, <1>6, <1>7 DEF QueueNext

\* A queued job keeps a worker that will get to it.
LEMMA WorkerStaysForQueue ==
    ASSUME QueueInv, [QueueNext]_queueVars
    PROVE  QueuedJobHasWorker'
<1> DEFINE Active(w) == worker[w] \in {"ready", "running"}
<1> USE DEF QueueInv
<1>1. ASSUME NEW id \in Ids, Submit(id) PROVE QueuedJobHasWorker'
  <2>1. CASE \E w \in Workers : Active(w)
    BY <1>1, <2>1, SignalFacts DEF Submit, QueuedJobHasWorker
  <2>2. CASE \A w \in Workers : ~Active(w)
    <3>1. \A w \in Workers : worker[w] = "asleep"
      BY <1>1, <2>2 DEF Submit, SleepersHaveReason, QueueTypeOK
    <3>2. \A i \in Ids : installRunning[i] = 0
      <4> TAKE i \in Ids
      <4>1. {w \in Workers : worker[w] = "running" /\ job[w] = i} = {}
        BY <3>1
      <4> QED BY <4>1, FS_EmptySet DEF RunningCounts
    <3>3. AsleepDeletes = {}
      BY <3>2 DEF SleepersHaveReason, AsleepDeletes, QueueTypeOK
    <3>4. AsleepWorkers # {}
      BY <3>1, WorkersAssumption DEF AsleepWorkers
    <3> QED BY <1>1, <3>3, <3>4, SignalFacts DEF Submit, QueuedJobHasWorker
  <2> QED BY <2>1, <2>2
<1>2. CASE Stop
  BY <1>2, WakeFacts DEF Stop, QueuedJobHasWorker
<1>3. ASSUME NEW w \in Workers, WorkerStep(w) PROVE QueuedJobHasWorker'
  <2>1. CASE DequeueWaits(w) \/ DequeueExits(w)
    BY <2>1 DEF DequeueWaits, DequeueExits, QueuedJobHasWorker
  <2>2. CASE DequeueTakes(w)
    <3>1. worker'[w] = "running"
      BY <2>2 DEF DequeueTakes, QueueTypeOK
    <3> QED BY <3>1 DEF QueuedJobHasWorker
  <2>3. CASE FinishInstall(w)
    <3>1. worker'[w] = "ready"
      BY <2>3, WakeFacts DEF FinishInstall
    <3> QED BY <3>1 DEF QueuedJobHasWorker
  <2> QED BY <1>3, <2>1, <2>2, <2>3 DEF WorkerStep
<1>4. ASSUME NEW d \in Deletes, DeleteTakes(d) PROVE QueuedJobHasWorker'
  <2>1. queue' # {} => queue # {}
    BY <1>4 DEF DeleteTakes
  <2> QED BY <1>4, <2>1, WakeFacts DEF DeleteTakes, QueuedJobHasWorker
<1>5. ASSUME NEW d \in Deletes, CtxBroadcast(d) PROVE QueuedJobHasWorker'
  BY <1>5, WakeFacts DEF CtxBroadcast, QueuedJobHasWorker
<1>6. ASSUME NEW d \in Deletes,
             DeleteWaits(d) \/ DeleteProceeds(d) \/ DeleteGivesUp(d) \/ CtxDone(d) \/ (\E id \in Ids : DeleteEnters(d, id))
      PROVE  QueuedJobHasWorker'
  BY <1>6 DEF DeleteWaits, DeleteProceeds, DeleteGivesUp, CtxDone, DeleteEnters, QueuedJobHasWorker
<1>7. CASE UNCHANGED queueVars
  BY <1>7 DEF queueVars, QueuedJobHasWorker
<1> QED BY <1>1, <1>2, <1>3, <1>4, <1>5, <1>6, <1>7 DEF QueueNext, DeleteStep

\* Together: QueueInv holds at first and is inductive.
LEMMA QueueInvariant == QueueSpec => []QueueInv
<1>1. QueueInit => QueueInv
  <2> SUFFICES ASSUME QueueInit PROVE QueueInv
    OBVIOUS
  <2>1. QueueTypeOK
    BY DEF QueueInit, QueueTypeOK
  <2>2. RunningCounts
    <3> SUFFICES ASSUME NEW id \in Ids
                 PROVE  installRunning[id] = Cardinality(Installing(id))
      BY DEF RunningCounts, Installing
    <3>1. Installing(id) = {} /\ installRunning[id] = 0
      BY DEF QueueInit, Installing
    <3> QED BY <3>1, FS_EmptySet
  <2>3. SleepersHaveReason /\ QueuedJobHasWorker
    BY DEF QueueInit, SleepersHaveReason, QueuedJobHasWorker
  <2> QED BY <2>1, <2>2, <2>3 DEF QueueInv
<1>2. QueueInv /\ [QueueNext]_queueVars => QueueInv'
  BY QueueTypeStep, QueueCountStep, QueueSleepersStep, WorkerStaysForQueue DEF QueueInv
<1> QED BY <1>1, <1>2, PTL DEF QueueSpec

\* No wakeup is lost: dequeue, Submit, waitInstallIdle and finishTrackedInstall
\* share one condition variable, and still a queued job never waits with every
\* worker asleep or gone, for any number of workers and deletes.
THEOREM NoLostWakeup == QueueSpec => []QueuedJobHasWorker
<1>1. QueueInv => QueuedJobHasWorker
  BY DEF QueueInv
<1> QED BY <1>1, QueueInvariant, PTL

\* Nobody sleeps past the event it waits for: no worker once the controller is
\* stopped, no Delete once the install it waits for has ended.
THEOREM NoOversleeping == QueueSpec => []SleepersHaveReason
<1>1. QueueInv => SleepersHaveReason
  BY DEF QueueInv
<1> QED BY <1>1, QueueInvariant, PTL

\* The counter waitInstallIdle tests is the number of workers installing the
\* workspace.
THEOREM InstallsCounted == QueueSpec => []RunningCounts
<1>1. QueueInv => RunningCounts
  BY DEF QueueInv
<1> QED BY <1>1, QueueInvariant, PTL

\* Who sleeps and who is awake makes no difference to the abstract queue.
LEMMA WorkUnseen ==
    ASSUME job' = job,
           \A w \in Workers : (worker'[w] = "running") = (worker[w] = "running"),
           \A w \in Workers : (worker'[w] = "gone") = (worker[w] = "gone")
    PROVE  Work' = Work /\ Gone' = Gone
BY DEF Work, Gone

LEMMA CallsUnseen ==
    ASSUME target' = target,
           \A d \in Deletes : \/ delete'[d] = delete[d]
                              \/ delete'[d] \in {"check", "asleep"} /\ delete[d] \in {"check", "asleep"}
    PROVE  DeleteCalls' = DeleteCalls
<1>1. \A d \in Deletes : /\ delete'[d] \in {"idle", "left"} <=> delete[d] \in {"idle", "left"}
                         /\ DeletePoint(d)' = DeletePoint(d)
  BY DEF DeletePoint
<1> QED BY <1>1 DEF DeleteCalls

LEMMA WakeUnseen ==
    ASSUME QueueTypeOK, NEW W \in SUBSET AsleepWorkers, NEW D \in SUBSET AsleepDeletes,
           Wake(W, D), job' = job, target' = target
    PROVE  Work' = Work /\ Gone' = Gone /\ DeleteCalls' = DeleteCalls
<1>1. \A w \in Workers : worker'[w] = worker[w] \/ (worker[w] = "asleep" /\ worker'[w] = "ready")
  BY WakeFacts DEF AsleepWorkers
<1>2. \A d \in Deletes : delete'[d] = delete[d] \/ (delete[d] = "asleep" /\ delete'[d] = "check")
  BY WakeFacts DEF AsleepDeletes
<1>3. Work' = Work /\ Gone' = Gone
  BY <1>1, WorkUnseen
<1>4. DeleteCalls' = DeleteCalls
  BY <1>2, CallsUnseen
<1> QED BY <1>3, <1>4

\* What a worker does is one step of the abstract queue, or none.
LEMMA WorkerImplements ==
    ASSUME QueueInv, NEW w \in Workers, WorkerStep(w)
    PROVE  Jobs!JobNext \/ UNCHANGED Jobs!vars
<1>0. QueueTypeOK /\ RunningCounts
  BY DEF QueueInv
<1>1. CASE DequeueWaits(w)
  <2>1. Work' = Work /\ Gone' = Gone
    BY <1>0, <1>1, WorkUnseen DEF DequeueWaits, QueueTypeOK
  <2>2. DeleteCalls' = DeleteCalls
    BY <1>1 DEF DequeueWaits, DeleteCalls, DeletePoint
  <2> QED BY <1>1, <2>1, <2>2 DEF DequeueWaits, Jobs!vars
<1>2. CASE DequeueTakes(w)
  <2>1. PICK j \in queue : /\ IsHead(j)
                           /\ queue' = queue \ {j}
                           /\ job' = [job EXCEPT ![w] = j.id]
    BY <1>2 DEF DequeueTakes
  <2>2. worker[w] = "ready" /\ worker' = [worker EXCEPT ![w] = "running"]
    BY <1>2 DEF DequeueTakes
  <2>3. Work' = [Work EXCEPT ![w] = {j.id}] /\ Gone' = Gone
    BY <1>0, <2>1, <2>2 DEF Work, Gone, QueueTypeOK
  <2>4. DeleteCalls' = DeleteCalls
    BY <1>2 DEF DequeueTakes, DeleteCalls, DeletePoint
  <2>5. Jobs!Free(w)
    BY <2>2 DEF Jobs!Free, Work, Gone
  <2>6. Jobs!Take(w)
    BY <1>2, <2>1, <2>3, <2>4, <2>5 DEF DequeueTakes, Jobs!Take, IsHead
  <2> QED BY <2>6 DEF Jobs!JobNext
<1>3. CASE DequeueExits(w)
  <2>1. worker[w] = "ready" /\ worker' = [worker EXCEPT ![w] = "gone"] /\ job' = job
    BY <1>3 DEF DequeueExits
  <2>2. Work' = Work /\ Gone' = Gone \cup {w}
    BY <1>0, <2>1 DEF Work, Gone, QueueTypeOK
  <2>3. DeleteCalls' = DeleteCalls
    BY <1>3 DEF DequeueExits, DeleteCalls, DeletePoint
  <2>4. Jobs!Free(w)
    BY <2>1 DEF Jobs!Free, Work, Gone
  <2>5. Jobs!Leave(w)
    BY <1>3, <2>2, <2>3, <2>4 DEF DequeueExits, Jobs!Leave
  <2> QED BY <2>5 DEF Jobs!JobNext
<1>4. CASE FinishInstall(w)
  <2>1. /\ worker[w] = "running" /\ job' = job
        /\ \A v \in Workers : worker'[v] = IF v \in AsleepWorkers \cup {w} THEN "ready" ELSE worker[v]
        /\ \A d \in Deletes : delete'[d] = IF d \in AsleepDeletes THEN "check" ELSE delete[d]
    BY <1>0, <1>4, WakeFacts DEF FinishInstall
  <2>2. Work' = [Work EXCEPT ![w] = {}] /\ Gone' = Gone /\ Work[w] # {}
    BY <2>1 DEF Work, Gone, AsleepWorkers
  <2>3. DeleteCalls' = DeleteCalls
    BY <1>4, <2>1, CallsUnseen DEF FinishInstall, AsleepDeletes
  <2>4. Jobs!Finish(w)
    BY <1>4, <2>2, <2>3 DEF FinishInstall, Jobs!Finish
  <2> QED BY <2>4 DEF Jobs!JobNext
<1> QED BY <1>1, <1>2, <1>3, <1>4 DEF WorkerStep

\* So is what a Delete does: it goes on only when no worker is at its workspace, since
\* the counter it tests counts them.
LEMMA DeleteImplements ==
    ASSUME QueueInv, NEW d \in Deletes, DeleteStep(d) \/ CtxDone(d) \/ (\E id \in Ids : DeleteEnters(d, id))
    PROVE  Jobs!JobNext \/ UNCHANGED Jobs!vars
<1>0. QueueTypeOK /\ RunningCounts
  BY DEF QueueInv
<1>1. CASE DeleteTakes(d)
  <2>1. /\ delete[d] = "enter" /\ job' = job
        /\ \A w \in Workers : worker'[w] = IF w \in AsleepWorkers THEN "ready" ELSE worker[w]
        /\ \A c \in Deletes : delete'[c] = IF c \in AsleepDeletes \cup {d} THEN "check" ELSE delete[c]
    BY <1>0, <1>1, WakeFacts DEF DeleteTakes
  <2>2. Work' = Work /\ Gone' = Gone
    BY <2>1, WorkUnseen DEF AsleepWorkers
  <2>3. /\ DeleteCalls[d] = [at |-> "enter", of |-> {target[d]}]
        /\ DeleteCalls' = [DeleteCalls EXCEPT ![d].at = "wait"]
    <3>1. \A c \in Deletes \ {d} : /\ delete'[c] \in {"idle", "left"} <=> delete[c] \in {"idle", "left"}
                                   /\ DeletePoint(c)' = DeletePoint(c)
      BY <2>1 DEF DeletePoint, AsleepDeletes
    <3>2. target' = target
      BY <1>1 DEF DeleteTakes
    <3> QED BY <2>1, <3>1, <3>2 DEF DeleteCalls, DeletePoint
  <2>4. Jobs!TakeBack(d)
    BY <1>1, <2>2, <2>3 DEF DeleteTakes, Jobs!TakeBack, Jobs!Move
  <2> QED BY <2>4 DEF Jobs!JobNext
<1>2. CASE DeleteWaits(d)
  <2>1. DeleteCalls' = DeleteCalls
    BY <1>0, <1>2, CallsUnseen DEF DeleteWaits, QueueTypeOK
  <2>2. Work' = Work /\ Gone' = Gone
    BY <1>2 DEF DeleteWaits, Work, Gone
  <2> QED BY <1>2, <2>1, <2>2 DEF DeleteWaits, Jobs!vars
<1>3. CASE DeleteProceeds(d) \/ DeleteGivesUp(d)
  <2>1. /\ delete[d] = "check" /\ target' = target
        /\ DeleteProceeds(d) => delete' = [delete EXCEPT ![d] = "done"] /\ installRunning[target[d]] = 0
        /\ DeleteGivesUp(d) => delete' = [delete EXCEPT ![d] = "left"] /\ installRunning[target[d]] > 0
    BY <1>3 DEF DeleteProceeds, DeleteGivesUp
  <2>2. /\ DeleteCalls[d] = [at |-> "wait", of |-> {target[d]}]
        /\ DeleteProceeds(d) => DeleteCalls' = [DeleteCalls EXCEPT ![d].at = "alone"]
        /\ DeleteGivesUp(d) => DeleteCalls' = [DeleteCalls EXCEPT ![d] = [at |-> "out", of |-> {}]]
    <3>1. DeleteCalls[d] = [at |-> "wait", of |-> {target[d]}]
      BY <2>1 DEF DeleteCalls, DeletePoint
    <3>2. ASSUME DeleteProceeds(d)
          PROVE  DeleteCalls' = [DeleteCalls EXCEPT ![d] = [at |-> "alone", of |-> {target[d]}]]
      BY <1>0, <2>1, <3>2 DEF DeleteCalls, DeletePoint, QueueTypeOK
    <3>3. ASSUME DeleteGivesUp(d)
          PROVE  DeleteCalls' = [DeleteCalls EXCEPT ![d] = [at |-> "out", of |-> {}]]
      BY <1>0, <2>1, <3>3 DEF DeleteCalls, DeletePoint, QueueTypeOK
    <3>4. [DeleteCalls EXCEPT ![d].at = "alone"] = [DeleteCalls EXCEPT ![d] = [at |-> "alone", of |-> {target[d]}]]
      <4>1. [DeleteCalls[d] EXCEPT !.at = "alone"] = [at |-> "alone", of |-> {target[d]}]
        BY <3>1
      <4> QED BY <4>1, Zenon
    <3> QED BY <3>1, <3>2, <3>3, <3>4
  <2>3. UNCHANGED <<queue, submits, stopped, Work, Gone>>
    BY <1>3 DEF DeleteProceeds, DeleteGivesUp, Work, Gone
  <2>4. Jobs!AtIt(d) = Installing(target[d])
    <3>1. DeleteCalls[d].of = {target[d]}
      BY <2>2
    <3>2. \A w \in Workers : Work[w] \cap {target[d]} # {} <=> worker[w] = "running" /\ job[w] = target[d]
      BY DEF Work
    <3> QED BY <3>1, <3>2 DEF Jobs!AtIt, Installing
  <2>5. IsFiniteSet(Installing(target[d])) /\ installRunning[target[d]] = Cardinality(Installing(target[d]))
    BY <1>0, WorkersAssumption, FS_Subset DEF RunningCounts, Installing, QueueTypeOK
  <2>6. Installing(target[d]) = {} <=> installRunning[target[d]] = 0
    BY <2>5, FS_EmptySet
  <2>7. CASE DeleteProceeds(d)
    <3>1. Jobs!GoOn(d)
      BY <2>1, <2>2, <2>3, <2>4, <2>6, <2>7 DEF Jobs!GoOn, Jobs!Move
    <3> QED BY <3>1 DEF Jobs!JobNext
  <2>8. CASE DeleteGivesUp(d)
    <3>1. installRunning[target[d]] # 0
      BY <1>0, <2>1, <2>8 DEF QueueTypeOK
    <3>2. Jobs!GiveUp(d)
      BY <2>2, <2>3, <2>4, <2>6, <2>8, <3>1 DEF Jobs!GiveUp, Jobs!Out
    <3> QED BY <3>2 DEF Jobs!JobNext
  <2> QED BY <1>3, <2>7, <2>8
<1>4. CASE CtxBroadcast(d)
  <2>1. Work' = Work /\ Gone' = Gone /\ DeleteCalls' = DeleteCalls
    BY <1>0, <1>4, WakeUnseen DEF CtxBroadcast
  <2> QED BY <1>4, <2>1 DEF CtxBroadcast, Jobs!vars
<1>5. CASE CtxDone(d)
  BY <1>5 DEF CtxDone, Work, Gone, DeleteCalls, DeletePoint, Jobs!vars
<1>6. ASSUME NEW id \in Ids, DeleteEnters(d, id)
      PROVE  Jobs!JobNext
  <2>1. Work' = Work /\ Gone' = Gone
    BY <1>6 DEF DeleteEnters, Work, Gone
  <2>2. /\ DeleteCalls' = [DeleteCalls EXCEPT ![d] = [at |-> "enter", of |-> {id}]]
        /\ DeleteCalls[d] = [at |-> "out", of |-> {}]
    BY <1>0, <1>6 DEF DeleteEnters, DeleteCalls, DeletePoint, QueueTypeOK
  <2>3. Jobs!CallDelete(d, id)
    BY <1>6, <2>1, <2>2 DEF DeleteEnters, Jobs!CallDelete, Jobs!Out
  <2> QED BY <2>3 DEF Jobs!JobNext
<1> QED BY <1>1, <1>2, <1>3, <1>4, <1>5, <1>6 DEF DeleteStep

\* The queue with its lock, its counter and its condition variable is, to the workers
\* and the Deletes, the plain queue that InstallController has: jobs are taken oldest
\* first and once each, no Delete goes on while an install of its workspace runs or
\* gives up while none does, and no worker leaves while a job is queued.
THEOREM QueueImplementsJobs == QueueSpec => JobQueueSafe
<1>1. QueueInit => Jobs!JobInit
  BY DEF QueueInit, Jobs!JobInit, Jobs!Out, Work, Gone, DeleteCalls
<1>2. QueueInv /\ [QueueNext]_queueVars => Jobs!JobNext \/ UNCHANGED Jobs!vars
  <2> SUFFICES ASSUME QueueInv, [QueueNext]_queueVars
               PROVE  Jobs!JobNext \/ UNCHANGED Jobs!vars
    OBVIOUS
  <2>0. QueueTypeOK
    BY DEF QueueInv
  <2>1. ASSUME NEW id \in Ids, Submit(id) PROVE Jobs!JobNext
    <3>1. /\ \A w \in Workers : worker'[w] = worker[w] \/ (worker[w] = "asleep" /\ worker'[w] = "ready")
          /\ \A d \in Deletes : delete'[d] = delete[d] \/ (delete[d] = "asleep" /\ delete'[d] = "check")
          /\ job' = job
      BY <2>0, <2>1, SignalFacts DEF Submit
    <3>2. Work' = Work /\ Gone' = Gone
      BY <3>1, WorkUnseen
    <3>3. DeleteCalls' = DeleteCalls
      BY <2>1, <3>1, CallsUnseen DEF Submit
    <3>4. Jobs!Submit(id)
      BY <2>1, <3>2, <3>3 DEF Submit, Jobs!Submit
    <3> QED BY <3>4 DEF Jobs!JobNext
  <2>2. ASSUME Stop PROVE Jobs!JobNext
    <3>1. Work' = Work /\ Gone' = Gone /\ DeleteCalls' = DeleteCalls
      BY <2>0, <2>2, WakeUnseen DEF Stop
    <3>2. Jobs!Stop
      BY <2>2, <3>1 DEF Stop, Jobs!Stop
    <3> QED BY <3>2 DEF Jobs!JobNext
  <2>3. ASSUME UNCHANGED queueVars PROVE UNCHANGED Jobs!vars
    BY <2>3 DEF queueVars, Jobs!vars, Work, Gone, DeleteCalls, DeletePoint
  <2> QED BY <2>1, <2>2, <2>3, WorkerImplements, DeleteImplements DEF QueueNext
<1> QED BY <1>1, <1>2, QueueInvariant, PTL DEF QueueSpec, JobQueueSafe, Jobs!JobSafe

-----------------------------------------------------------------------------
(* localdir: Clear excludes the operations, no Broadcast is missed, and    *)
(* Clear removes what the instance wrote and nothing else.                 *)

\* Who is in an operation.
Running == {c \in Callers : InOp(c)}

(* What the mutex protects: one Clear at a time, announced by clearing; no *)
(* operation counted while it removes; a root only while initialized, and  *)
(* no Clear and no root once cleared.                                      *)
LockInv ==
  /\ \A c, d \in Callers : Clearing(c) /\ Clearing(d) => c = d
  /\ clearing <=> \E c \in Callers : Clearing(c)
  /\ (\E c \in Callers : Removing(c)) => activeOps = 0
  /\ activeOps = Cardinality(Running)
  /\ initialized <=> root # NoInode
  /\ \A c \in Callers : InOp(c) => initialized /\ handle[c] = root
  /\ cleared => ~clearing /\ ~initialized

(* Who sleeps, and for what.                                               *)
SleepInv == \A c \in asleep : pc[c] \in {"enter", "drain"} /\ ~Ready(c)

(* Where the files of this instance are: a directory nobody made is empty, *)
(* a path replaced under the root or under a running Clear has none of     *)
(* them, and what Clear has still to remove is in its listing.             *)
FilesInv ==
  /\ \A i \in Inodes : i \notin used => contents[i] = {}
  /\ path \in used \cup {NoInode} /\ root \in used \cup {NoInode}
  /\ initialized /\ path \notin {root, NoInode} => contents[path] \cap OurNames = {}
  /\ \A c \in Callers : Removing(c) =>
       /\ handle[c] \in used
       /\ path \notin {handle[c], NoInode} => contents[path] \cap OurNames = {}
       /\ contents[handle[c]] \cap OurNames \subseteq IF pc[c] = "sweep" THEN listing ELSE {}
       /\ root \in {handle[c], NoInode}

-----------------------------------------------------------------------------
(* Types and the count of operations                                       *)

(* Only BeginOp and Release change who is in an operation, and each of     *)
(* them counts it.                                                         *)
LEMMA CountStep ==
  ASSUME TypeOK, LockInv, [Next]_vars
  PROVE  /\ activeOps' = Cardinality(Running')
         /\ activeOps' \in 0 .. Cardinality(Callers)
  <1> USE DEF opsVars, diskVars, callVars
  <1>1. IsFiniteSet(Callers) /\ IsFiniteSet(Running) /\ Cardinality(Callers) \in Nat
    BY LocalDirAssumption, FS_Subset, FS_CardinalityType, Running \in SUBSET Callers DEF Running
  <1>2. Cardinality(Running') \in 0 .. Cardinality(Callers)
    <2>1. Running' \in SUBSET Callers
      BY DEF Running
    <2> QED BY <1>1, <2>1, FS_Subset, FS_CardinalityType
  <1>3. ASSUME Running' = Running, activeOps' = activeOps
        PROVE  activeOps' = Cardinality(Running')
    BY <1>3 DEF LockInv
  <1>4. ASSUME NEW c \in Callers, BeginOp(c)
        PROVE  activeOps' = Cardinality(Running')
    <2>1. CASE Return(c) /\ UNCHANGED activeOps
      <3>1. Running' = Running
        BY <1>4, <2>1 DEF Running, InOp, BeginOp, Proceeds, Return, TypeOK
      <3> QED BY <1>3, <2>1, <3>1
    <2>2. CASE activeOps' = activeOps + 1 /\ Goto(c, "busy")
      <3>1. Running' = Running \cup {c} /\ c \notin Running
        BY <1>4, <2>2 DEF Running, InOp, BeginOp, Proceeds, Goto, TypeOK
      <3> QED BY <1>1, <2>2, <3>1, FS_AddElement DEF LockInv
    <2> QED BY <1>4, <2>1, <2>2 DEF BeginOp
  <1>5. ASSUME NEW c \in Callers, InOp(c), Release(c)
        PROVE  activeOps' = Cardinality(Running')
    <2>1. Running' = Running \ {c} /\ c \in Running
      BY <1>5 DEF Running, InOp, Release, Return, TypeOK
    <2> QED BY <1>1, <1>5, <2>1, FS_RemoveElement DEF LockInv, Release
  <1>6. ASSUME NEW c \in Callers, EndUse(c) \/ PutEnd(c)
        PROVE  activeOps' = Cardinality(Running')
    BY <1>5, <1>6 DEF EndUse, PutEnd, InOp
  <1>7. ASSUME NEW c \in Callers, Step(c), ~BeginOp(c), ~EndUse(c), ~PutEnd(c)
        PROVE  activeOps' = Cardinality(Running')
    <2>1. CASE Sleep(c) \/ Watcher(c) \/ GiveUp(c) \/ InitDir(c) \/ OpenDir(c) \/ PutTemp(c)
      <3>1. Running' = Running /\ activeOps' = activeOps
        BY <2>1 DEF Sleep, Watcher, GiveUp, InitDir, OpenDir, PutTemp, Running, InOp, Proceeds, Goto, Return,
                    Publish, TypeOK
      <3> QED BY <1>3, <3>1
    <2>2. CASE ClearBegin(c) \/ ClearDrained(c) \/ SweepOne(c) \/ SweepFails(c) \/ SweepDone(c)
               \/ UnlinkCheck(c) \/ Rmdir(c)
      <3>1. Running' = Running /\ activeOps' = activeOps
        BY <2>2 DEF ClearBegin, ClearDrained, SweepOne, SweepFails, SweepDone, UnlinkCheck, Rmdir, ClearEnd,
                    Running, InOp, Proceeds, Goto, Return, TypeOK
      <3> QED BY <1>3, <3>1
    <2> QED BY <1>7, <2>1, <2>2 DEF Step
  <1>8. ASSUME NEW c \in Callers, NEW method \in Methods, Cancel(c) \/ Call(c, method)
        PROVE  activeOps' = Cardinality(Running')
    <2>1. Running' = Running /\ activeOps' = activeOps
      BY <1>8 DEF Cancel, Call, Running, InOp, TypeOK
    <2> QED BY <1>3, <2>1
  <1>9. ASSUME Replace \/ ForeignWrite \/ Terminated \/ UNCHANGED vars
        PROVE  activeOps' = Cardinality(Running')
    <2>1. Running' = Running /\ activeOps' = activeOps
      BY <1>9 DEF Replace, ForeignWrite, Terminated, vars, Running, InOp
    <2> QED BY <1>3, <2>1
  <1>10. activeOps' = Cardinality(Running')
    BY <1>4, <1>6, <1>7, <1>8, <1>9 DEF Next, Methods
  <1> QED BY <1>2, <1>10

\* Every step keeps the types.
LEMMA TypeStep ==
  ASSUME TypeOK, LockInv, [Next]_vars
  PROVE  TypeOK'
  <1> USE DEF opsVars, diskVars, callVars
  <1> DEFINE Rest == /\ keepDir \in BOOLEAN
                     /\ initialized \in BOOLEAN /\ cleared \in BOOLEAN /\ clearing \in BOOLEAN
                     /\ root \in Inodes \cup {NoInode}
                     /\ path \in Inodes \cup {NoInode}
                     /\ contents \in [Inodes -> SUBSET Names]
                     /\ used \subseteq Inodes
                     /\ asleep \subseteq Callers
                     /\ listing \subseteq Names
                     /\ calls \in 0 .. MaxCalls
             Locals == /\ pc \in [Callers -> {"idle", "enter", "busy", "put", "drain", "sweep",
                                              "unlink", "rmdir"}]
                       /\ op \in [Callers -> Methods]
                       /\ ctx \in [Callers -> {"live", "done"}]
                       /\ handle \in [Callers -> Inodes \cup {NoInode}]
  <1>1. activeOps' \in 0 .. Cardinality(Callers)
    BY CountStep
  <1>2. Rest /\ Locals
    BY DEF TypeOK
  <1>3. ASSUME NEW c \in Callers, Step(c)
        PROVE  Rest' /\ Locals'
    <2> USE DEF Goto, Return, Methods
    <2>1. CASE Sleep(c) \/ Watcher(c) \/ GiveUp(c)
      BY <1>2, <2>1 DEF Sleep, Watcher, GiveUp
    <2>2. CASE InitDir(c) \/ OpenDir(c)
      BY <1>2, <2>2 DEF InitDir, OpenDir, Publish
    <2>3. CASE BeginOp(c) \/ EndUse(c)
      BY <1>2, <2>3 DEF BeginOp, EndUse, Release
    <2>4. CASE PutTemp(c) \/ PutEnd(c)
      <3>1. contents' \in [Inodes -> SUBSET Names]
        BY <1>2, <2>4 DEF PutTemp, PutEnd, DropTemp, Names, OurNames
      <3> QED BY <1>2, <2>4, <3>1 DEF PutTemp, PutEnd, Release
    <2>5. CASE ClearBegin(c) \/ SweepFails(c) \/ SweepDone(c)
      BY <1>2, <2>5 DEF ClearBegin, SweepFails, SweepDone, ClearEnd
    <2>7. CASE ClearDrained(c)
      <3>1. CASE root = NoInode /\ path = NoInode
        BY <1>2, <2>7, <3>1 DEF ClearDrained, ClearEnd
      <3>2. CASE ~(root = NoInode /\ path = NoInode)
        <4>1. PICK opened \in Inodes : /\ handle' = [handle EXCEPT ![c] = opened]
                                      /\ listing' = contents[opened]
          BY <1>2, <2>7, <3>2 DEF ClearDrained
        <4> QED BY <1>2, <2>7, <3>2, <4>1 DEF ClearDrained
      <3> QED BY <3>1, <3>2
    <2>6. CASE SweepOne(c) \/ UnlinkCheck(c) \/ Rmdir(c)
      BY <1>2, <2>6 DEF SweepOne, UnlinkCheck, Rmdir, ClearEnd
    <2> QED BY <1>3, <2>1, <2>2, <2>3, <2>4, <2>5, <2>6, <2>7 DEF Step
  <1>4. ASSUME NEW c \in Callers, NEW method \in Methods, Cancel(c) \/ Call(c, method)
        PROVE  Rest' /\ Locals'
    BY <1>2, <1>4, LocalDirAssumption DEF Cancel, Call
  <1>5. ASSUME Replace \/ ForeignWrite \/ Terminated \/ UNCHANGED vars
        PROVE  Rest' /\ Locals'
    BY <1>2, <1>5 DEF Replace, ForeignWrite, Terminated, vars, Names
  <1>6. Rest' /\ Locals'
    BY <1>3, <1>4, <1>5 DEF Next, Methods
  <1> QED BY <1>1, <1>6 DEF TypeOK

-----------------------------------------------------------------------------
(* The lock                                                                *)

\* Every step keeps what the mutex protects.
LEMMA LockStep ==
  ASSUME TypeOK, LockInv, [Next]_vars
  PROVE  LockInv'
  <1> USE DEF opsVars, diskVars, callVars, Clearing, Removing, InOp
  <1> DEFINE Rest == /\ \A c, d \in Callers : Clearing(c) /\ Clearing(d) => c = d
                     /\ clearing <=> \E c \in Callers : Clearing(c)
                     /\ (\E c \in Callers : Removing(c)) => activeOps = 0
                     /\ initialized <=> root # NoInode
                     /\ \A c \in Callers : InOp(c) => initialized /\ handle[c] = root
                     /\ cleared => ~clearing /\ ~initialized
  <1>1. Rest
    BY DEF LockInv
  <1>2. activeOps' = Cardinality(Running')
    BY CountStep
  <1>3. activeOps = 0 => \A c \in Callers : ~InOp(c)
    <2>1. IsFiniteSet(Running)
      BY LocalDirAssumption, FS_Subset, Running \in SUBSET Callers DEF Running
    <2> QED BY <2>1, FS_EmptySet DEF LockInv, Running
  <1>4. ASSUME NEW c \in Callers, Step(c)
        PROVE  Rest'
    <2> USE DEF Goto, Return, Proceeds, Ready, Drained, NotClearing
    <2>1. CASE Sleep(c) \/ Watcher(c)
      BY <1>1, <2>1 DEF Sleep, Watcher
    <2>2. CASE GiveUp(c)
      BY <1>1, <2>2 DEF GiveUp, TypeOK
    <2>3. CASE InitDir(c)
      BY <1>1, <2>3, LocalDirAssumption DEF InitDir, Publish, TypeOK
    <2>4. CASE OpenDir(c)
      BY <1>1, <2>4 DEF OpenDir, Publish, TypeOK
    <2>5. CASE BeginOp(c)
      BY <1>1, <2>5 DEF BeginOp, TypeOK
    <2>6. CASE EndUse(c) \/ PutEnd(c)
      BY <1>1, <1>3, <2>6 DEF EndUse, PutEnd, Release, TypeOK
    <2>7. CASE PutTemp(c)
      BY <1>1, <2>7 DEF PutTemp, TypeOK
    <2>8. CASE ClearBegin(c)
      BY <1>1, <2>8 DEF ClearBegin, TypeOK
    <2>9. ASSUME Clearing(c), ClearEnd(c, TRUE) \/ ClearEnd(c, FALSE), activeOps = 0
          PROVE  Rest'
      BY <1>1, <1>3, <2>9 DEF ClearEnd, TypeOK
    <2>10. CASE ClearDrained(c)
      <3>1. CASE root = NoInode /\ path = NoInode
        BY <2>9, <2>10, <3>1 DEF ClearDrained
      <3>2. CASE ~(root = NoInode /\ path = NoInode)
        <4>1. pc[c] = "drain" /\ activeOps = 0 /\ UNCHANGED <<activeOps, clearing, initialized, cleared, root>>
          BY <2>10, <3>2 DEF ClearDrained
        <4>2. \A d \in Callers : pc'[d] = IF d = c THEN "sweep" ELSE pc[d]
          BY <2>10, <3>2 DEF ClearDrained, TypeOK
        <4>3. \A d \in Callers : ~InOp(d)'
          BY <1>3, <4>1, <4>2
        <4>4. \A d \in Callers : Clearing(d)' <=> Clearing(d)
          BY <4>1, <4>2
        <4> QED BY <1>1, <4>1, <4>3, <4>4
      <3> QED BY <3>1, <3>2
    <2>11. CASE SweepOne(c)
      BY <1>1, <2>11 DEF SweepOne
    <2>12. CASE SweepFails(c) \/ SweepDone(c) \/ UnlinkCheck(c) \/ Rmdir(c)
      <3>1. Removing(c) /\ activeOps = 0
        BY <1>1, <2>12 DEF SweepFails, SweepDone, UnlinkCheck, Rmdir
      <3>2. CASE ClearEnd(c, TRUE) \/ ClearEnd(c, FALSE)
        BY <2>9, <3>1, <3>2
      <3>3. CASE (Goto(c, "unlink") \/ Goto(c, "rmdir")) /\ UNCHANGED <<opsVars, asleep, handle>>
        BY <1>1, <1>3, <3>1, <3>3 DEF TypeOK
      <3> QED BY <2>12, <3>2, <3>3 DEF SweepFails, SweepDone, UnlinkCheck, Rmdir
    <2> QED BY <1>4, <2>1, <2>2, <2>3, <2>4, <2>5, <2>6, <2>7, <2>8, <2>10, <2>11, <2>12 DEF Step
  <1>5. ASSUME NEW c \in Callers, NEW method \in Methods, Cancel(c) \/ Call(c, method)
        PROVE  Rest'
    BY <1>1, <1>5 DEF Cancel, Call, TypeOK
  <1>6. ASSUME Replace \/ ForeignWrite \/ Terminated \/ UNCHANGED vars
        PROVE  Rest'
    BY <1>1, <1>6 DEF Replace, ForeignWrite, Terminated, vars
  <1>7. Rest'
    BY <1>4, <1>5, <1>6 DEF Next, Methods
  <1> QED BY <1>2, <1>7 DEF LockInv

(* A sleeper's predicate cannot become true without a Broadcast, and only  *)
(* awake callers move on.                                                  *)
LEMMA SleepStep ==
  ASSUME TypeOK, LockInv, SleepInv, [Next]_vars
  PROVE  SleepInv'
  <1> USE DEF opsVars, diskVars, callVars, SleepInv, Ready, Drained, NotClearing
  <1>1. ASSUME NEW c \in Callers, Step(c)
        PROVE  SleepInv'
    <2> USE DEF Goto, Return, Proceeds
    <2>1. CASE Sleep(c) \/ Watcher(c)
      BY <2>1 DEF Sleep, Watcher
    <2>2. CASE GiveUp(c)
      BY <2>2 DEF GiveUp, TypeOK
    <2>3. CASE InitDir(c) \/ OpenDir(c)
      BY <2>3 DEF InitDir, OpenDir, Publish, TypeOK
    <2>4. CASE BeginOp(c)
      <3>1. \A d \in asleep : d # c /\ d \in Callers /\ pc'[d] = pc[d]
        BY <2>4 DEF BeginOp, TypeOK
      <3>2. activeOps \in Nat /\ (activeOps' = activeOps \/ activeOps' = activeOps + 1)
        BY <2>4 DEF BeginOp, TypeOK
      <3> QED BY <2>4, <3>1, <3>2 DEF BeginOp
    <2>5. CASE EndUse(c) \/ PutEnd(c)
      <3>1. Release(c) /\ pc[c] \notin {"enter", "drain"}
        BY <2>5 DEF EndUse, PutEnd
      <3>2. \A d \in asleep : d # c /\ d \in Callers /\ pc'[d] = pc[d]
        BY <3>1 DEF Release, TypeOK
      <3>3. activeOps \in Nat
        BY DEF TypeOK
      <3> QED BY <3>1, <3>2, <3>3 DEF Release
    <2>6. CASE PutTemp(c)
      BY <2>6 DEF PutTemp, TypeOK
    <2>7. CASE ClearBegin(c)
      BY <2>7 DEF ClearBegin, TypeOK
    <2>8. CASE ClearDrained(c) \/ SweepOne(c) \/ SweepFails(c)
      BY <2>8 DEF ClearDrained, SweepOne, SweepFails, ClearEnd, TypeOK
    <2>9. CASE SweepDone(c) \/ UnlinkCheck(c) \/ Rmdir(c)
      BY <2>9 DEF SweepDone, UnlinkCheck, Rmdir, ClearEnd, TypeOK
    <2> QED BY <1>1, <2>1, <2>2, <2>3, <2>4, <2>5, <2>6, <2>7, <2>8, <2>9 DEF Step
  <1>2. ASSUME NEW c \in Callers, NEW method \in Methods, Cancel(c) \/ Call(c, method)
        PROVE  SleepInv'
    BY <1>2 DEF Cancel, Call, TypeOK
  <1>3. CASE Replace \/ ForeignWrite \/ Terminated \/ UNCHANGED vars
    BY <1>3 DEF Replace, ForeignWrite, Terminated, vars
  <1> QED BY <1>1, <1>2, <1>3 DEF Next, Methods

(* Temporary files: the only one of c is the one its PutFile is writing.   *)
LEMMA TempStep ==
  ASSUME TypeOK, LockInv, NoStrayTemp, [Next]_vars
  PROVE  NoStrayTemp'
  <1> USE DEF opsVars, diskVars, callVars, NoStrayTemp
  <1>1. ASSUME NEW c \in Callers, Step(c)
        PROVE  NoStrayTemp'
    <2> USE DEF Goto, Return, Proceeds
    <2>1. ASSUME UNCHANGED contents, \A d \in Callers : pc[d] = "put" => UNCHANGED <<pc[d], handle[d]>>
          PROVE  NoStrayTemp'
      BY <2>1
    <2>2. CASE Sleep(c) \/ Watcher(c) \/ GiveUp(c) \/ InitDir(c) \/ OpenDir(c) \/ BeginOp(c)
      BY <2>1, <2>2 DEF Sleep, Watcher, GiveUp, InitDir, OpenDir, BeginOp, Publish, TypeOK
    <2>3. CASE EndUse(c) \/ ClearBegin(c) \/ ClearDrained(c) \/ SweepFails(c) \/ SweepDone(c)
      BY <2>1, <2>3 DEF EndUse, ClearBegin, ClearDrained, SweepFails, SweepDone, Release, ClearEnd, TypeOK
    <2>4. CASE UnlinkCheck(c) \/ Rmdir(c)
      BY <2>1, <2>4 DEF UnlinkCheck, Rmdir, ClearEnd, TypeOK
    <2>5. CASE PutTemp(c)
      <3>1. handle[c] \in Inodes
        BY <2>5 DEF PutTemp, LockInv, InOp, TypeOK
      <3> QED BY <2>5, <3>1 DEF PutTemp, TypeOK, Temp
    <2>6. CASE PutEnd(c)
      <3>1. \A i \in Inodes : contents'[i] \subseteq contents[i] \cup {<<"file", c>>}
        BY <2>6 DEF PutEnd, DropTemp, TypeOK
      <3>2. \A i \in Inodes : Temp(c) \notin contents'[i]
        BY <2>6 DEF PutEnd, DropTemp, TypeOK, Temp
      <3>3. \A d \in Callers : Temp(d) # <<"file", c>>
        BY DEF Temp
      <3> QED BY <2>6, <3>1, <3>2, <3>3 DEF PutEnd, Release, TypeOK
    <2>7. CASE SweepOne(c)
      <3>1. \A i \in Inodes : contents'[i] \subseteq contents[i]
        BY <2>7 DEF SweepOne, TypeOK
      <3> QED BY <2>7, <3>1 DEF SweepOne
    <2> QED BY <1>1, <2>2, <2>3, <2>4, <2>5, <2>6, <2>7 DEF Step
  <1>2. ASSUME NEW c \in Callers, NEW method \in Methods, Cancel(c) \/ Call(c, method)
        PROVE  NoStrayTemp'
    BY <1>2 DEF Cancel, Call, TypeOK
  <1>3. CASE ForeignWrite
    <2>1. \A i \in Inodes : contents'[i] \subseteq contents[i] \cup {<<"foreign", NoInode>>}
      BY <1>3 DEF ForeignWrite, TypeOK
    <2>2. \A d \in Callers : Temp(d) # <<"foreign", NoInode>>
      BY DEF Temp
    <2> QED BY <1>3, <2>1, <2>2 DEF ForeignWrite
  <1>4. CASE Replace \/ Terminated \/ UNCHANGED vars
    BY <1>4 DEF Replace, Terminated, vars
  <1> QED BY <1>1, <1>2, <1>3, <1>4 DEF Next, Methods

-----------------------------------------------------------------------------
(* The files                                                               *)

(* Where the names of this instance may appear, and what else may change   *)
(* in a directory or at the path.                                          *)
LEMMA FilesStep ==
  ASSUME TypeOK, LockInv, FilesInv, [Next]_vars
  PROVE  FilesInv'
  <1> USE DEF opsVars, diskVars, callVars, FilesInv
  <1>0. activeOps = 0 => \A c \in Callers : ~InOp(c)
    <2>1. IsFiniteSet(Running)
      BY LocalDirAssumption, FS_Subset, Running \in SUBSET Callers DEF Running
    <2> QED BY <2>1, FS_EmptySet DEF LockInv, Running
  <1>1. ASSUME NEW c \in Callers, Step(c)
        PROVE  FilesInv'
    <2> USE DEF Goto, Return, Proceeds, Removing
    <2>1. CASE Sleep(c) \/ Watcher(c) \/ GiveUp(c)
      BY <2>1 DEF Sleep, Watcher, GiveUp, TypeOK
    <2>2. CASE InitDir(c)
      <3>1. \A d \in Callers : ~Removing(d)
        BY <2>2 DEF InitDir, Ready, NotClearing, LockInv, Clearing
      <3>2. \A d \in Callers : ~Removing(d)'
        BY <2>2, <3>1 DEF InitDir, TypeOK
      <3>3. CASE UNCHANGED <<opsVars, diskVars>>
        BY <3>2, <3>3
      <3>4. CASE Publish(path) /\ UNCHANGED diskVars
        BY <3>2, <3>4 DEF Publish
      <3>5. ASSUME NEW inode \in Inodes \ used, path' = inode, used' = used \cup {inode},
                   UNCHANGED contents, Publish(inode) \/ (~initialized /\ UNCHANGED opsVars)
            PROVE  FilesInv'
        BY <3>2, <3>5 DEF Publish
      <3> QED BY <2>2, <3>3, <3>4, <3>5 DEF InitDir
    <2>3. CASE OpenDir(c)
      <3>1. \A d \in Callers : ~Removing(d)
        BY <2>3 DEF OpenDir, Ready, NotClearing, LockInv, Clearing
      <3>2. \A d \in Callers : ~Removing(d)'
        BY <2>3, <3>1 DEF OpenDir, TypeOK
      <3> QED BY <2>3, <3>1, <3>2 DEF OpenDir, Publish, TypeOK
    <2>4. CASE BeginOp(c)
      BY <2>4 DEF BeginOp, TypeOK
    <2>5. CASE EndUse(c)
      BY <2>5 DEF EndUse, Release, TypeOK
    <2>6. CASE PutTemp(c) \/ PutEnd(c)
      <3>1. InOp(c) /\ initialized /\ handle[c] = root /\ root \in used
        BY <2>6 DEF PutTemp, PutEnd, InOp, LockInv
      <3>2. \A d \in Callers : ~Removing(d)
        BY <1>0, <3>1 DEF LockInv
      <3>3. \A d \in Callers : ~Removing(d)'
        BY <2>6, <3>2 DEF PutTemp, PutEnd, Release, TypeOK
      <3>4. \A i \in Inodes : i # root => contents'[i] = contents[i]
        BY <2>6, <3>1 DEF PutTemp, PutEnd, DropTemp, TypeOK
      <3>5. UNCHANGED <<path, used, root, initialized>>
        BY <2>6 DEF PutTemp, PutEnd, Release
      <3>6. path \in Inodes \cup {NoInode} /\ used \subseteq Inodes
        BY DEF TypeOK
      <3> QED BY <3>1, <3>3, <3>4, <3>5, <3>6
    <2>7. CASE ClearBegin(c)
      BY <2>7 DEF ClearBegin, TypeOK
    <2>8. ASSUME Clearing(c), ClearEnd(c, TRUE) \/ ClearEnd(c, FALSE), UNCHANGED <<contents, used>>,
                 path' \in {path, NoInode}
          PROVE  FilesInv'
      <3>1. \A d \in Callers : ~Removing(d)'
        BY <2>8 DEF ClearEnd, TypeOK, LockInv, Clearing
      <3> QED BY <2>8, <3>1 DEF ClearEnd, TypeOK
    <2>9. CASE ClearDrained(c)
      <3>1. CASE root = NoInode /\ path = NoInode
        BY <2>8, <2>9, <3>1 DEF ClearDrained, Clearing
      <3>2. CASE ~(root = NoInode /\ path = NoInode)
        <4>1. PICK opened \in Inodes : /\ handle' = [handle EXCEPT ![c] = opened]
                                      /\ listing' = contents[opened]
                                      /\ opened = IF root # NoInode THEN root ELSE path
          BY <2>9, <3>2 DEF ClearDrained, TypeOK
        <4>2. UNCHANGED <<opsVars, diskVars>> /\ opened \in used
          BY <2>9, <3>2, <4>1 DEF ClearDrained
        <4>3. \A d \in Callers : Removing(d)' => d = c
          BY <2>9, <3>2 DEF ClearDrained, TypeOK, LockInv, Clearing
        <4>4. handle'[c] = opened /\ pc'[c] = "sweep"
          BY <2>9, <3>2, <4>1 DEF ClearDrained, TypeOK
        <4>5. path \notin {opened, NoInode} => contents[path] \cap OurNames = {}
          BY <4>1 DEF LockInv
        <4> QED BY <4>1, <4>2, <4>3, <4>4, <4>5
      <3> QED BY <3>1, <3>2
    <2>10. CASE SweepOne(c)
      <3>1. PICK name \in listing : /\ contents' = [contents EXCEPT ![handle[c]] = @ \ {name}]
                                    /\ listing' = listing \ {name}
        BY <2>10 DEF SweepOne, Swept
      <3>2. UNCHANGED <<opsVars, path, used, pc, handle>> /\ pc[c] = "sweep"
        BY <2>10 DEF SweepOne
      <3>3. \A d \in Callers : Removing(d) => d = c
        BY <3>2 DEF LockInv, Clearing
      <3>4. handle[c] \in Inodes /\ used \subseteq Inodes /\ path \in Inodes \cup {NoInode}
        BY <2>10 DEF SweepOne, Swept, TypeOK
      <3>5. contents \in [Inodes -> SUBSET Names]
        BY DEF TypeOK
      <3>6. /\ \A i \in Inodes : i # handle[c] => contents'[i] = contents[i]
            /\ contents'[handle[c]] = contents[handle[c]] \ {name}
        BY <3>1, <3>4, <3>5
      <3> QED BY <3>1, <3>2, <3>3, <3>4, <3>6
    <2>11. CASE SweepFails(c)
      BY <2>8, <2>11 DEF SweepFails, Clearing
    <2>12. CASE SweepDone(c) \/ UnlinkCheck(c) \/ Rmdir(c)
      <3>1. CASE ClearEnd(c, TRUE) \/ ClearEnd(c, FALSE)
        <4>1. Clearing(c) /\ UNCHANGED <<contents, used>> /\ path' \in {path, NoInode}
          BY <2>12 DEF SweepDone, UnlinkCheck, Rmdir, Clearing
        <4> QED BY <2>8, <3>1, <4>1
      <3>2. CASE SweepDone(c) /\ Goto(c, "unlink") /\ UNCHANGED <<opsVars, asleep, handle>>
        BY <3>2 DEF SweepDone, TypeOK
      <3>3. CASE UnlinkCheck(c) /\ Goto(c, "rmdir") /\ UNCHANGED <<opsVars, asleep, handle>>
        BY <3>3 DEF UnlinkCheck, TypeOK
      <3> QED BY <2>12, <3>1, <3>2, <3>3 DEF SweepDone, UnlinkCheck, Rmdir
    <2> QED BY <1>1, <2>1, <2>2, <2>3, <2>4, <2>5, <2>6, <2>7, <2>9, <2>10, <2>11, <2>12 DEF Step
  <1>2. ASSUME NEW c \in Callers, NEW method \in Methods, Cancel(c) \/ Call(c, method)
        PROVE  FilesInv'
    BY <1>2 DEF Cancel, Call, TypeOK, Removing
  <1>3. CASE Replace
    <2>1. PICK inode \in Inodes \ used : path' = inode /\ used' = used \cup {inode}
      BY <1>3 DEF Replace
    <2>2. contents[inode] = {}
      BY <2>1
    <2>3. UNCHANGED <<opsVars, contents, callVars>>
      BY <1>3 DEF Replace
    <2> QED BY <2>1, <2>2, <2>3 DEF Removing
  <1>4. CASE ForeignWrite
    <2>1. /\ path \in used /\ path \in Inodes
          /\ \A i \in Inodes : i # path => contents'[i] = contents[i]
          /\ contents'[path] = contents[path] \cup {<<"foreign", NoInode>>}
      BY <1>4 DEF ForeignWrite, TypeOK
    <2>2. <<"foreign", NoInode>> \notin OurNames
      BY DEF OurNames, Temp
    <2>3. \A i \in Inodes : contents'[i] \cap OurNames = contents[i] \cap OurNames
      BY <2>1, <2>2
    <2>4. UNCHANGED <<opsVars, path, used, callVars>> /\ used \subseteq Inodes
      BY <1>4 DEF ForeignWrite, TypeOK
    <2> QED BY <2>1, <2>3, <2>4 DEF Removing
  <1>5. CASE Terminated \/ UNCHANGED vars
    BY <1>5 DEF Terminated, vars, Removing
  <1> QED BY <1>1, <1>2, <1>3, <1>4, <1>5 DEF Next, Methods

(* What a successful Clear establishes and nothing afterwards undoes: no   *)
(* operation starts, and a path that is replaced is replaced by a          *)
(* directory this instance never saw.                                      *)
LEMMA ClearedStep ==
  ASSUME TypeOK, LockInv, FilesInv, ClearedLeavesNothing, [Next]_vars
  PROVE  ClearedLeavesNothing'
  <1> USE DEF opsVars, diskVars, callVars, ClearedLeavesNothing
  <1>1. ASSUME NEW c \in Callers, Step(c)
        PROVE  ClearedLeavesNothing'
    <2> USE DEF Goto, Return, Proceeds
    <2>1. CASE Sleep(c) \/ Watcher(c) \/ GiveUp(c) \/ OpenDir(c) \/ BeginOp(c) \/ EndUse(c) \/ ClearBegin(c)
      BY <2>1 DEF Sleep, Watcher, GiveUp, OpenDir, BeginOp, EndUse, ClearBegin, Release, Publish
    <2>2. CASE InitDir(c)
      BY <2>2 DEF InitDir, Publish
    <2>3. CASE PutTemp(c) \/ PutEnd(c)
      <3>1. initialized /\ UNCHANGED cleared
        BY <2>3 DEF PutTemp, PutEnd, Release, LockInv, InOp
      <3> QED BY <3>1 DEF LockInv
    <2>4. CASE ClearDrained(c)
      BY <2>4 DEF ClearDrained, ClearEnd
    <2>5. CASE SweepOne(c)
      <3>1. clearing /\ UNCHANGED cleared
        BY <2>5 DEF SweepOne, LockInv, Clearing, Removing
      <3> QED BY <3>1 DEF LockInv
    <2>6. CASE SweepFails(c)
      <3>1. cleared' <=> cleared
        BY <2>6 DEF SweepFails, ClearEnd, TypeOK
      <3> QED BY <2>6, <3>1 DEF SweepFails
    <2>7. CASE SweepDone(c)
      BY <2>7 DEF SweepDone, FilesInv, Removing, ClearEnd
    <2>8. CASE UnlinkCheck(c)
      BY <2>8 DEF UnlinkCheck, FilesInv, Removing, ClearEnd
    <2>9. CASE Rmdir(c)
      <3>1. ~cleared
        BY <2>9 DEF Rmdir, LockInv, Clearing, Removing
      <3>2. CASE path' = NoInode
        BY <3>2
      <3>3. CASE path' # NoInode
        BY <2>9, <3>1, <3>3 DEF Rmdir, ClearEnd, TypeOK
      <3> QED BY <3>2, <3>3
    <2> QED BY <1>1, <2>1, <2>2, <2>3, <2>4, <2>5, <2>6, <2>7, <2>8, <2>9 DEF Step
  <1>2. ASSUME NEW c \in Callers, NEW method \in Methods, Cancel(c) \/ Call(c, method)
        PROVE  ClearedLeavesNothing'
    BY <1>2 DEF Cancel, Call
  <1>3. CASE Replace
    BY <1>3 DEF Replace, FilesInv
  <1>4. CASE ForeignWrite
    <2>1. path \in Inodes /\ contents'[path] = contents[path] \cup {<<"foreign", NoInode>>}
      BY <1>4 DEF ForeignWrite, TypeOK
    <2>2. <<"foreign", NoInode>> \notin OurNames
      BY DEF OurNames, Temp
    <2> QED BY <1>4, <2>1, <2>2 DEF ForeignWrite
  <1>5. CASE Terminated \/ UNCHANGED vars
    BY <1>5 DEF Terminated, vars
  <1> QED BY <1>1, <1>2, <1>3, <1>4, <1>5 DEF Next, Methods

\* What every step of the directory preserves.
LocalDirInv ==
  TypeOK /\ LockInv /\ SleepInv /\ NoStrayTemp /\ FilesInv /\ ClearedLeavesNothing

\* It holds of a new directory.
LEMMA LocalDirInit == Init => LocalDirInv
  <1> SUFFICES ASSUME Init PROVE LocalDirInv
    OBVIOUS
  <1> USE DEF Init
  <1>1. Running = {} /\ Cardinality(Running) = 0
    BY FS_EmptySet DEF Running, InOp
  <1>2. Cardinality(Callers) \in Nat
    BY LocalDirAssumption, FS_CardinalityType
  <1>3. PICK occupied \in SUBSET used :
          contents = [i \in Inodes |-> IF i \in occupied THEN {<<"foreign", NoInode>>} ELSE {}]
    OBVIOUS
  <1>4. TypeOK
    <2>1. contents \in [Inodes -> SUBSET Names]
      BY <1>3 DEF Names
    <2>2. activeOps \in 0 .. Cardinality(Callers) /\ calls \in 0 .. MaxCalls
      BY <1>2, LocalDirAssumption
    <2> QED BY <2>1, <2>2 DEF TypeOK, Methods
  <1>5. LockInv
    BY <1>1 DEF LockInv, Clearing, Removing, InOp
  <1>6. SleepInv /\ ClearedLeavesNothing
    BY DEF SleepInv, ClearedLeavesNothing
  <1>7. NoStrayTemp
    BY <1>3 DEF NoStrayTemp, Temp
  <1>8. FilesInv
    BY <1>3, <1>4 DEF FilesInv, Removing, TypeOK
  <1> QED BY <1>4, <1>5, <1>6, <1>7, <1>8 DEF LocalDirInv

\* It holds throughout.
LEMMA LocalDirInvariant == Spec => []LocalDirInv
  <1>1. LocalDirInv /\ [Next]_vars => LocalDirInv'
    BY TypeStep, LockStep, SleepStep, TempStep, FilesStep, ClearedStep DEF LocalDirInv
  <1> QED BY <1>1, LocalDirInit, PTL DEF Spec

(* The localdir backend keeps its types, the count of operations included. *)
THEOREM LocalDirTypes == Spec => []TypeOK
  <1>1. LocalDirInv => TypeOK
    BY DEF LocalDirInv
  <1> QED BY <1>1, LocalDirInvariant, PTL

(* Clear has the directory to itself although it gives the mutex up while  *)
(* it removes files, and every operation works through the open root.      *)
THEOREM ClearIsExclusive == Spec => []ClearExcludesOperations
  <1>1. LocalDirInv => ClearExcludesOperations
    <2> SUFFICES ASSUME LocalDirInv PROVE ClearExcludesOperations
      OBVIOUS
    <2>1. IsFiniteSet(Running) /\ LockInv /\ TypeOK
      BY LocalDirAssumption, FS_Subset, Running \in SUBSET Callers DEF Running, LocalDirInv
    <2>2. activeOps = 0 => \A c \in Callers : ~InOp(c)
      <3>1. activeOps = Cardinality(Running)
        BY <2>1 DEF LockInv
      <3>2. activeOps = 0 => Running = {}
        BY <2>1, <3>1, FS_EmptySet
      <3> QED BY <3>2 DEF Running
    <2>3. initialized = (root # NoInode)
      BY <2>1 DEF LockInv, TypeOK
    <2> QED BY <2>1, <2>2, <2>3 DEF ClearExcludesOperations, LockInv, Running, Clearing
  <1> QED BY <1>1, LocalDirInvariant, PTL

(* No Broadcast of ops.cond is missed.                                     *)
THEOREM SleepersAreWoken == Spec => []NobodyOversleeps
  <1>1. LocalDirInv => NobodyOversleeps
    BY DEF LocalDirInv, NobodyOversleeps, SleepInv, LockInv
  <1> QED BY <1>1, LocalDirInvariant, PTL

(* The temporary sibling of a PutFile does not outlive the call.           *)
THEOREM TempsAreRemoved == Spec => []NoStrayTemp
  <1>1. LocalDirInv => NoStrayTemp
    BY DEF LocalDirInv
  <1> QED BY <1>1, LocalDirInvariant, PTL

(* A Clear that reports success has removed what this instance wrote.      *)
THEOREM ClearIsComplete == Spec => []ClearedLeavesNothing
  <1>1. LocalDirInv => ClearedLeavesNothing
    BY DEF LocalDirInv
  <1> QED BY <1>1, LocalDirInvariant, PTL

(* Clear takes nothing out of a directory that replaced its own.           *)
THEOREM ReplacementsSurvive == Spec => ReplacementContentsSurvive
  <1> DEFINE Kept(c) == \A i \in Inodes \ {handle[c]} :
                          /\ contents[i] \subseteq contents'[i]
                          /\ path = i /\ contents[i] # {} => path' # NoInode
  <1>1. ASSUME LocalDirInv, Next, NEW c \in Callers, Removing(c)
        PROVE  Kept(c)
    <2> USE DEF opsVars, diskVars, callVars
    <2>1. TypeOK /\ LockInv /\ IsFiniteSet(Running)
      BY <1>1, LocalDirAssumption, FS_Subset, Running \in SUBSET Callers DEF Running, LocalDirInv
    <2>2. \A d \in Callers : ~InOp(d) /\ (Clearing(d) => d = c)
      BY <1>1, <2>1, FS_EmptySet DEF LockInv, Running, Clearing
    <2>3. ASSUME UNCHANGED <<path, contents>> PROVE Kept(c)
      BY <2>1, <2>3, LocalDirAssumption
    <2>4. ASSUME NEW d \in Callers, Step(d) PROVE Kept(c)
      <3>1. CASE Sleep(d) \/ Watcher(d) \/ GiveUp(d) \/ OpenDir(d) \/ BeginOp(d) \/ EndUse(d) \/ ClearBegin(d)
                 \/ ClearDrained(d) \/ SweepFails(d) \/ SweepDone(d) \/ UnlinkCheck(d)
        BY <2>3, <3>1 DEF Sleep, Watcher, GiveUp, OpenDir, BeginOp, EndUse, ClearBegin, ClearDrained,
                          SweepFails, SweepDone, UnlinkCheck
      <3>2. CASE InitDir(d)
        <4>1. clearing
          BY <1>1, <2>1 DEF LockInv, Clearing
        <4> QED BY <3>2, <4>1 DEF InitDir, Proceeds, Ready, NotClearing
      <3>3. CASE PutTemp(d) \/ PutEnd(d)
        BY <2>2, <3>3 DEF PutTemp, PutEnd, InOp
      <3>4. CASE SweepOne(d)
        <4>1. d = c
          BY <2>2, <3>4 DEF SweepOne, Clearing, Removing
        <4> QED BY <2>1, <3>4, <4>1, LocalDirAssumption DEF SweepOne, Swept, TypeOK
      <3>5. CASE Rmdir(d)
        BY <2>1, <3>5, LocalDirAssumption DEF Rmdir, TypeOK
      <3> QED BY <2>4, <3>1, <3>2, <3>3, <3>4, <3>5 DEF Step
    <2>5. ASSUME NEW d \in Callers, NEW method \in Methods, Cancel(d) \/ Call(d, method) PROVE Kept(c)
      BY <2>3, <2>5 DEF Cancel, Call
    <2>6. CASE Replace
      BY <2>1, <2>6, LocalDirAssumption DEF Replace, TypeOK
    <2>7. CASE ForeignWrite
      BY <2>1, <2>7, LocalDirAssumption DEF ForeignWrite, TypeOK
    <2>8. CASE Terminated
      BY <2>3, <2>8 DEF Terminated, vars
    <2> QED BY <1>1, <2>4, <2>5, <2>6, <2>7, <2>8 DEF Next, Methods
  <1>2. LocalDirInv /\ [Next]_vars => [\A c \in Callers : Removing(c) => Kept(c)]_vars
    BY <1>1
  <1> QED BY <1>2, LocalDirInvariant, PTL DEF Spec, ReplacementContentsSurvive

=============================================================================
