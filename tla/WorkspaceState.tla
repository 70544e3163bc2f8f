--------------------------- MODULE WorkspaceState ---------------------------
(***************************************************************************)
(* State and names shared by the modules of the workspace manager.         *)
(*                                                                         *)
(* A row keeps what the program's decisions depend on: its status, the     *)
(* code of its StatusError, its alias key (namespace and alias together),  *)
(* the directory option and whether the paths of the placed plugins were   *)
(* recorded.  Timestamps are left out: the one that matters, CreatedAt, is *)
(* the set "aged" of the lifecycle's clock.                                *)
(***************************************************************************)
CONSTANTS
  WorkspaceIds,   \* ids the generator can hand out, each used at most once
  AliasKeys,      \* (namespace, alias) pairs
  DirOptions,     \* infra_options: a spelling of dir, with or without keep_dir
  NoRow,          \* absence of a row
  NoId            \* absence of an id

Statuses == {"init", "healthy", "failed"}

(* Codes of StatusError, by the family the program distinguishes.          *)
Codes == {"none", "shutdown", "install.timeout", "install.error", "probe.error"}

Rows == [status : Statuses, code : Codes, alias : AliasKeys,
         dir : DirOptions, placed : BOOLEAN]

ASSUME NoRowAssumption == NoRow \notin Rows
ASSUME NoIdAssumption == NoId \notin WorkspaceIds

-----------------------------------------------------------------------------
(* The repository                                                          *)

VARIABLES
  byID,           \* id -> row, or NoRow
  idByAliasKey,   \* alias key -> id, or NoId
  repoClosed      \* Close was called

repoVars == <<byID, idByAliasKey, repoClosed>>

(* The host                                                                *)

VARIABLE
  fs              \* what is at each path, see WorkspaceInfra

(* The controller and its callers                                          *)

VARIABLES
  aged,           \* ids whose row is older than InstallTimeout (CreatedAt)
  started, stopped, \* Controller.started, Controller.stopped
  queue,          \* pending install jobs
  tickets,        \* number of jobs submitted so far
  wpc,            \* control point of each worker
  wjob,           \* the job a worker runs
  wctx,           \* the job's context: live, canceled or past its deadline
  wcode,          \* failure code a worker is about to persist
  wlatest,        \* runInstall's latest: the row as reloaded before finalize
  installed,      \* observation: ids whose post-install probe succeeded
  dpc,            \* control point of each Delete call
  dtarget,        \* the id it deletes
  drow,           \* the row it read
  dhandle,        \* the directory its Open named, {} if Open failed
  early,          \* observation: ids whose job a Delete sought before Submit
  uncleared       \* observation: ids whose directory a Delete gave up on

queueVars == <<started, stopped, queue, tickets>>
workerVars == <<wpc, wjob, wctx, wcode, wlatest, installed>>
deleteVars == <<dpc, dtarget, drow, dhandle, early, uncleared>>

controllerVars == <<fs, aged, queueVars, workerVars, deleteVars>>

(* The probe scheduler                                                     *)

VARIABLES
  spc,            \* scheduler loop: off, waiting for a tick, in a tick, gone
  scancel,        \* Stop canceled runCtx
  snap,           \* rows as listed by the current tick
  swatch,         \* init rows of the snapshot found too old
  ppc,            \* progress of the probe of each row in this tick
  pout,           \* outcome of that probe
  platest         \* row reloaded by recordProbeOutcome

schedVars == <<spc, scancel, snap, swatch, ppc, pout, platest>>

(* The facade                                                              *)

VARIABLES
  phase,          \* how far Start and Stop have got
  stopExpired,    \* the context given to Stop is done
  cpc,            \* progress of the CreateWorkspace call of each id
  creq            \* the row that call will insert

facadeVars == <<phase, stopExpired, cpc, creq>>

=============================================================================
