--------------------------- MODULE ProbeScheduler ---------------------------
(***************************************************************************)
(* workspace.ProbeScheduler: each tick takes one snapshot of the rows,     *)
(* fails the init rows that outlived InstallTimeout and probes the healthy *)
(* and the failed ones on a bounded pool of goroutines.  The tick waits    *)
(* for its probes before the next one starts.                              *)
(*                                                                         *)
(* Everything the tick decides is decided on the snapshot; by the time it  *)
(* writes, workers and Delete calls have moved on.                         *)
(***************************************************************************)
EXTENDS InstallController, FiniteSets

CONSTANT ProbeWorkers   \* size of the probe pool

ASSUME ProbeAssumption == ProbeWorkers \in Nat \ {0}

SchedulerTypeOK ==
  /\ spc \in {"off", "idle", "tick", "exit"}
  /\ scancel \in BOOLEAN
  /\ snap \in [WorkspaceIds -> Rows \cup {NoRow}]
  /\ swatch \subseteq WorkspaceIds
  /\ ppc \in [WorkspaceIds -> {"none", "todo", "record", "write"}]
  /\ pout \in [WorkspaceIds -> {"healthy", "failed"}]
  /\ platest \in [WorkspaceIds -> Rows \cup {NoRow}]

SchedulerInit ==
  /\ spc = "off"
  /\ scancel = FALSE
  /\ snap = [w \in WorkspaceIds |-> NoRow]
  /\ swatch = {}
  /\ ppc = [w \in WorkspaceIds |-> "none"]
  /\ pout = [w \in WorkspaceIds |-> "failed"]
  /\ platest = [w \in WorkspaceIds |-> NoRow]

-----------------------------------------------------------------------------
(* installTimedOut                                                         *)
InstallTimedOut(w) == HasStatus(w, "init") /\ w \in aged

(* runTick: list all rows and sort them into watchdog and probe work.  The *)
(* list is one page: 100 rows.  The loop's select may take a tick that is  *)
(* due although runCtx was canceled.                                       *)
Tick ==
  /\ spc = "idle"
  /\ ~repoClosed
  /\ snap' = byID
  /\ swatch' = {w \in WorkspaceIds : InstallTimedOut(w)}
  /\ ppc' = [w \in WorkspaceIds |->
               IF HasStatus(w, "healthy") \/ HasStatus(w, "failed") THEN "todo" ELSE "none"]
  /\ spc' = "tick"
  /\ UNCHANGED <<repoVars, controllerVars, scancel, pout, platest, facadeVars>>

(* The watchdog's write, before any probe of the tick starts.              *)
FailTimedOut(w) ==
  /\ spc = "tick"
  /\ w \in swatch
  /\ UpdateStatusCAS(w, "scheduler", "init", "failed", "install.timeout")
  /\ swatch' = swatch \ {w}
  /\ UNCHANGED <<controllerVars, spc, scancel, snap, ppc, pout, platest, facadeVars>>

Probing == {w \in WorkspaceIds : ppc[w] \in {"record", "write"}}

(* probeOne up to its outcome: the directory must open and the agent's     *)
(* probe must succeed in it.                                               *)
ProbeOne(w) ==
  /\ spc = "tick"
  /\ swatch = {}
  /\ ppc[w] = "todo"
  /\ ~scancel
  /\ Cardinality(Probing) < ProbeWorkers
  /\ \E outcome \in {"healthy", "failed"} :
       /\ outcome = "healthy" => DirExists(LocalPath[snap[w].dir])
       /\ outcome = "failed" => ~DirExists(LocalPath[snap[w].dir]) \/ MayFail("probe")
       /\ pout' = [pout EXCEPT ![w] = outcome]
  /\ ppc' = [ppc EXCEPT ![w] = "record"]
  /\ UNCHANGED <<repoVars, controllerVars, spc, scancel, snap, swatch, platest, facadeVars>>

(* A probe that has not produced an outcome when runCtx is canceled        *)
(* records nothing.                                                        *)
ProbeCanceled(w) ==
  /\ ppc[w] = "todo"
  /\ scancel
  /\ swatch = {}
  /\ ppc' = [ppc EXCEPT ![w] = "none"]
  /\ UNCHANGED <<repoVars, controllerVars, spc, scancel, snap, swatch, pout, platest, facadeVars>>

(* The code stored with a failed probe.                                    *)
ProbeCode(w) == IF pout[w] = "healthy" THEN "none" ELSE "probe.error"

(* The probe's goroutine takes its next row.                               *)
ProbeDone(w) ==
  /\ ppc' = [ppc EXCEPT ![w] = "none"]
  /\ pout' = [pout EXCEPT ![w] = "failed"]

(* recordProbeOutcome: a changed status goes through a compare-and-swap on *)
(* the snapshot's status; an unchanged one reloads the row first.          *)
RecordChange(w) ==
  /\ ppc[w] = "record"
  /\ snap[w].status # pout[w]
  /\ UpdateStatusCAS(w, "scheduler", snap[w].status, pout[w], ProbeCode(w))
  /\ ProbeDone(w)
  /\ UNCHANGED <<controllerVars, spc, scancel, snap, swatch, platest, facadeVars>>

RecordReload(w) ==
  /\ ppc[w] = "record"
  /\ snap[w].status = pout[w]
  /\ IF GetOK(w) /\ byID[w].status = pout[w]
     THEN /\ platest' = [platest EXCEPT ![w] = byID[w]]
          /\ ppc' = [ppc EXCEPT ![w] = "write"]
          /\ UNCHANGED pout
     ELSE /\ ProbeDone(w)
          /\ UNCHANGED platest
  /\ UNCHANGED <<repoVars, controllerVars, spc, scancel, snap, swatch, facadeVars>>

RecordWrite(w) ==
  /\ ppc[w] = "write"
  /\ Update(w, [platest[w] EXCEPT !.code = ProbeCode(w)])
  /\ ProbeDone(w)
  /\ platest' = [platest EXCEPT ![w] = NoRow]
  /\ UNCHANGED <<controllerVars, spc, scancel, snap, swatch, facadeVars>>

(* wg.Wait: the tick ends with its last probe.                             *)
TickDone ==
  /\ spc = "tick"
  /\ swatch = {}
  /\ \A w \in WorkspaceIds : ppc[w] = "none"
  /\ spc' = "idle"
  /\ snap' = [w \in WorkspaceIds |-> NoRow]
  /\ UNCHANGED <<repoVars, controllerVars, scancel, swatch, ppc, pout, platest, facadeVars>>

(* loop returns once runCtx is canceled.                                   *)
SchedulerExit ==
  /\ spc = "idle"
  /\ scancel
  /\ spc' = "exit"
  /\ UNCHANGED <<repoVars, controllerVars, scancel, snap, swatch, ppc, pout, platest, facadeVars>>

ProbeStep(w) ==
  \/ FailTimedOut(w)
  \/ ProbeOne(w)
  \/ ProbeCanceled(w)
  \/ RecordChange(w)
  \/ RecordReload(w)
  \/ RecordWrite(w)

=============================================================================
