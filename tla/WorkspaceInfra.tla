--------------------------- MODULE WorkspaceInfra ---------------------------
(***************************************************************************)
(* What the workspaces' InfraOps leave on the host: the directories of the *)
(* localdir backend as the controller and the scheduler use them.  Each    *)
(* call of the code builds a fresh InfraOps value with its own root        *)
(* handle, so a handle can outlive the directory it was opened on.         *)
(*                                                                         *)
(* fs[p] is the set of <<workspace, part>> pairs present at path p.  A     *)
(* "root" entry stands for the directory inode as created or adopted by    *)
(* that workspace's Init; "plugins" and "agent" stand for the files that   *)
(* attachPlugins and AgentSpec.Install write.                              *)
(***************************************************************************)
EXTENDS WorkspaceState

CONSTANTS
  Paths,          \* directories on the host
  CanonicalDir,   \* DirOptions -> Paths: filepath.Clean, used by the manager
  LocalPath,      \* DirOptions -> Paths: TrimSpace then Clean, used by localdir
  KeepDir,        \* the options with keep_dir: Clear leaves the directory
  Faults          \* which external operations may fail

ASSUME DirAssumption ==
  /\ CanonicalDir \in [DirOptions -> Paths]
  /\ LocalPath \in [DirOptions -> Paths]
  /\ KeepDir \subseteq DirOptions
  /\ Faults \subseteq {"install", "probe", "clear"}

Parts == {"root", "plugins", "agent"}

InfraTypeOK == fs \in [Paths -> SUBSET (WorkspaceIds \X Parts)]

InfraInit == fs = [p \in Paths |-> {}]

(* The workspaces whose handles name the directory now at p.               *)
RootsAt(p) == {w \in WorkspaceIds : <<w, "root">> \in fs[p]}

DirExists(p) == RootsAt(p) # {}

(* Where a workspace has files, and where it has files or its directory.   *)
Contents(w) == {p \in Paths : \E part \in Parts \ {"root"} : <<w, part>> \in fs[p]}

Footprint(w) == {p \in Paths : \E part \in Parts : <<w, part>> \in fs[p]}

(* The paths that some option asks to keep.                                *)
KeptPaths == {LocalPath[dir] : dir \in KeepDir}

(* The paths under which localdir takes for one directory what the         *)
(* manager takes for two.                                                  *)
AmbiguousPaths ==
  {LocalPath[dir] : dir \in {a \in DirOptions :
     \E b \in DirOptions : LocalPath[a] = LocalPath[b] /\ CanonicalDir[a] # CanonicalDir[b]}}

-----------------------------------------------------------------------------
(* Init accepts an absent or an empty directory only.                      *)
InitOK(p) == \A w \in WorkspaceIds, part \in Parts \ {"root"} : <<w, part>> \notin fs[p]

InitDir(w, p) == fs' = [fs EXCEPT ![p] = @ \cup {<<w, "root">>}]

(* A write goes through the root handle and fails once that directory has  *)
(* been unlinked.                                                          *)
PutFiles(w, p, part) == fs' = [fs EXCEPT ![p] = @ \cup {<<w, part>>}]

(* clearRootContents: the files go, the directory stays.                   *)
RootsOnly(p) == {e \in fs[p] : e[2] = "root"}

(* A faulty variant: the directory is removed only if it is empty already. *)
ClearEmptyOnly(handle, dir) ==
  LET p == LocalPath[dir]
  IN fs' = IF fs[p] = RootsOnly(p) /\ dir \notin KeepDir THEN [fs EXCEPT ![p] = {}] ELSE fs

(* The directory a Clear works on is still the one at the path: the one    *)
(* the workspaces in handle opened or, without a handle, whatever is there.*)
StillAt(handle, p) == handle = {} \/ handle \subseteq RootsAt(p)

(* Clear removes the contents of that directory and, without keep_dir, the *)
(* directory too; a replacement is left alone.                             *)
ClearDir(handle, dir) ==
  LET p == LocalPath[dir]
  IN fs' = IF StillAt(handle, p)
           THEN [fs EXCEPT ![p] = IF dir \in KeepDir THEN RootsOnly(p) ELSE {}]
           ELSE fs

(* A Clear that fails has removed nothing, or the contents but not the     *)
(* directory itself.                                                       *)
ClearFails(handle, dir) ==
  LET p == LocalPath[dir]
  IN \/ UNCHANGED fs
     \/ StillAt(handle, p) /\ fs' = [fs EXCEPT ![p] = RootsOnly(p)]

=============================================================================
