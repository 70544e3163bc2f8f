---------------------------- MODULE PluginAttach ----------------------------
(***************************************************************************)
(* How the files of plugins get into a workspace: the zip reader and the   *)
(* manifest (src/pkg/manager/plugin), the snapshot that CreateWorkspace    *)
(* takes of the plugins it is to attach, the worker's attachPlugins, and   *)
(* the layout and the seed files of the Claude Code specification.  While  *)
(* one workspace is installed, plugins are uploaded, overwritten and       *)
(* deleted; uploads that race with each other are in PluginCatalog.        *)
(*                                                                         *)
(* A path is a sequence of segments, a segment a sequence of tokens: <<>>  *)
(* is the empty segment of a leading, trailing or double slash, and a name *)
(* keeps its dashes apart.  A content hash is the archive it is the hash   *)
(* of.  The order of the files after the manifest, which the code sorts by *)
(* name, is left open.                                                     *)
(***************************************************************************)
EXTENDS Integers, Sequences, FiniteSets, SequencesExt

CONSTANTS
    Plugins,       \* the ids
    Archives,      \* what is offered for upload: their entries and their manifest
    MaxExpanded,   \* defaultMaxExpandedBytes
    MaxUploads,    \* bound: uploads
    NoArchive      \* absence of a row or a blob

ManifestFile == << <<"manifest.toml">> >>
Sections == {<<"skills">>, <<"rules">>, <<"hooks">>, <<"subagents">>, <<"mcps">>, <<"assets">>}

\* An entry of an archive, whose size is what a file expands to.
Entries == [path : Seq(Seq(STRING)), kind : {"file", "dir", "link"}, size : Nat]

ASSUME AttachAssumption ==
    /\ MaxExpanded \in Nat /\ MaxUploads \in Nat
    /\ NoArchive \notin Archives
    /\ \A a \in Archives : a.entries \in Seq(Entries)

----------------------------------------------------------------------------
(* The zip reader.                                                         *)

\* isSafeArchivePath.  Of a safe path path.Clean changes nothing.
Safe(path) == path # <<>> /\ Range(path) \cap {<<>>, <<".">>, <<"..">>} = {}

\* canonicalZipHeaderPath: a directory has one slash at its end.
Canonical(entry) == IF entry.kind = "dir" /\ Last(entry.path) = <<>> THEN Front(entry.path) ELSE entry.path

HeaderOK(entry) ==
    /\ entry.kind # "link"
    /\ entry.kind = "dir" => Last(entry.path) = <<>>
    /\ Safe(Canonical(entry))

\* totalExpanded: the bytes of the files among the first k entries, for each k.
TotalExpanded(entries) ==
    LET total[k \in 0..Len(entries)] ==
          IF k = 0 THEN 0
          ELSE total[k - 1] + (IF entries[k].kind = "file" THEN entries[k].size ELSE 0)
    IN  total

\* A faulty variant: every file has the whole budget.
FitsAlone(archive) ==
    \A i \in DOMAIN archive.entries : archive.entries[i].kind = "file" =>
        archive.entries[i].size <= MaxExpanded

\* Each file is read with what the files before it have left of the budget, and
\* not at all when that is nothing.
Fits(archive) ==
    \A i \in DOMAIN archive.entries : archive.entries[i].kind = "file" =>
        LET budget == MaxExpanded - TotalExpanded(archive.entries)[i - 1]
        IN  budget > 0 /\ archive.entries[i].size <= budget

FileSet(archive) == {Canonical(e) : e \in {e \in Range(archive.entries) : e.kind = "file"}}

\* validateManifestArchivePaths: a path is a file or has files under it.
ManifestPathsExist(archive) ==
    \A p \in archive.manifest.paths : Safe(p) /\ \E f \in FileSet(archive) : IsPrefix(p, f)

\* openFromZip succeeds.  "valid" is ValidateManifest's verdict on the rest.
Opens(archive) ==
    /\ \A e \in Range(archive.entries) : HeaderOK(e)
    /\ IsInjective([i \in DOMAIN archive.entries |-> Canonical(archive.entries[i])])
    /\ Fits(archive)
    /\ ManifestFile \in FileSet(archive)
    /\ archive.manifest.valid
    /\ ManifestPathsExist(archive)

----------------------------------------------------------------------------
(* The layout.                                                             *)

Letters(name) == {i \in DOMAIN name : name[i] # "-"}

\* sanitizePluginName, for what plugin.name may be: dashes at the ends go, and of
\* several in a row one is left.
Sanitize(name) ==
    LET kept == {i \in DOMAIN name : name[i] = "-" =>
                    /\ \E j \in Letters(name) : j < i
                    /\ \E j \in Letters(name) : i < j
                    /\ name[i - 1] # "-"}
    IN  [k \in 1..Cardinality(kept) |-> name[CHOOSE i \in kept : Cardinality({j \in kept : j <= i}) = k]]

\* PluginDirectoryKey, <<>> when it fails.
PluginDirectory(archive) ==
    LET name == Sanitize(archive.manifest.name)
    IN  IF name = <<>> THEN <<>> ELSE << <<".claude">>, <<"plugins">>, name >>

\* What fs.WalkDir reaches: a file hides what claims to be under it.
Walked(archive) == {f \in FileSet(archive) : \A g \in FileSet(archive) : IsPrefix(g, f) => g = f}

Mappable(path) == path[1] \in Sections \/ Len(path) = 1

MapPath(archive, path) == PluginDirectory(archive) \o path

Settings == << <<".claude">>, <<"settings.json">> >>
WorkspaceAgents == << <<"AGENTS.md">> >>

----------------------------------------------------------------------------
VARIABLES
    rows, blobs,   \* what the plugin repository and the plugin storage hold
    op,            \* the call on each plugin: "fresh", "idle", "upload", "delete" or "gone"
    uploads,       \* how many uploads there were
    pc,            \* the install of the workspace
    wanted,        \* the ids CreateWorkspace was given
    refs,          \* its snapshot of their rows: id and content hash
    opened,        \* the readers of attachPlugins, in the order of refs
    plan,          \* the files of the current plugin that are still to be placed
    placed,        \* the targets of those that have been
    attached,      \* the result: for each plugin done, the paths recorded for it
    disk           \* the working directory: content of each file, by path

catalogVars == <<rows, blobs, op, uploads>>
attachVars == <<wanted, refs, opened, plan, placed, attached>>
vars == <<catalogVars, pc, attachVars, disk>>

Init ==
    /\ rows = [p \in Plugins |-> NoArchive]
    /\ blobs = rows
    /\ op = [p \in Plugins |-> "fresh"]
    /\ uploads = 0
    /\ pc = "new"
    /\ wanted = <<>>
    /\ refs = <<>>
    /\ opened = <<>>
    /\ plan = {}
    /\ placed = {}
    /\ attached = <<>>
    /\ disk = [path \in {} |-> NoArchive]

----------------------------------------------------------------------------
(* CreatePlugin and DeletePlugin, one call at a time for each plugin: the  *)
(* blob before the row and the row before the blob.                        *)

\* A new plugin gets an id of its own; an overwrite keeps the id, and the name by
\* which the plugin was found.  Plugins of one name are of different namespaces.
UploadPut(p, archive) ==
    /\ \/ op[p] = "fresh"
       \/ op[p] = "idle" /\ archive.manifest.name = rows[p].manifest.name
    /\ uploads < MaxUploads
    /\ Opens(archive)
    /\ blobs' = [blobs EXCEPT ![p] = archive]
    /\ op' = [op EXCEPT ![p] = "upload"]
    /\ uploads' = uploads + 1
    /\ UNCHANGED <<rows, pc, attachVars, disk>>

UploadCommit(p) ==
    /\ op[p] = "upload"
    /\ rows' = [rows EXCEPT ![p] = blobs[p]]
    /\ op' = [op EXCEPT ![p] = "idle"]
    /\ UNCHANGED <<blobs, uploads, pc, attachVars, disk>>

\* The row cannot be written: the old blob is put back, or the new one deleted.
UploadRollback(p) ==
    /\ op[p] = "upload"
    /\ blobs' = [blobs EXCEPT ![p] = rows[p]]
    /\ op' = [op EXCEPT ![p] = IF rows[p] = NoArchive THEN "gone" ELSE "idle"]
    /\ UNCHANGED <<rows, uploads, pc, attachVars, disk>>

DeletePluginRow(p) ==
    /\ op[p] = "idle"
    /\ rows' = [rows EXCEPT ![p] = NoArchive]
    /\ op' = [op EXCEPT ![p] = "delete"]
    /\ UNCHANGED <<blobs, uploads, pc, attachVars, disk>>

DeletePluginBlob(p) ==
    /\ op[p] = "delete"
    /\ blobs' = [blobs EXCEPT ![p] = NoArchive]
    /\ op' = [op EXCEPT ![p] = "gone"]
    /\ UNCHANGED <<rows, uploads, pc, attachVars, disk>>

----------------------------------------------------------------------------
(* resolveAttachedPlugins.                                                 *)

CreateWorkspace(ids) ==
    /\ pc = "new"
    /\ pc' = IF IsInjective(ids) THEN "resolve" ELSE "refused"
    /\ wanted' = ids
    /\ UNCHANGED <<catalogVars, refs, opened, plan, placed, attached, disk>>

Resolve ==
    /\ pc = "resolve"
    /\ IF Len(refs) = Len(wanted)
       THEN pc' = (IF wanted = <<>> THEN "exec" ELSE "open") /\ UNCHANGED refs
       ELSE LET p == wanted[Len(refs) + 1]
            IN  IF rows[p] = NoArchive
                THEN pc' = "refused" /\ UNCHANGED refs
                ELSE refs' = Append(refs, [id |-> p, hash |-> rows[p]]) /\ UNCHANGED pc
    /\ UNCHANGED <<catalogVars, wanted, opened, plan, placed, attached, disk>>

----------------------------------------------------------------------------
(* attachPlugins.                                                          *)

\* A faulty variant: the content hash is not compared.
OpenAnything ==
    /\ pc = "open"
    /\ IF Len(opened) = Len(refs)
       THEN pc' = "keys" /\ UNCHANGED opened
       ELSE LET blob == blobs[refs[Len(opened) + 1].id]
            IN  IF blob = NoArchive
                THEN pc' = "failed" /\ UNCHANGED opened
                ELSE opened' = Append(opened, blob) /\ UNCHANGED pc
    /\ UNCHANGED <<catalogVars, wanted, refs, plan, placed, attached, disk>>

Open ==
    /\ pc = "open"
    /\ IF Len(opened) = Len(refs)
       THEN pc' = "keys" /\ UNCHANGED opened
       ELSE LET ref == refs[Len(opened) + 1]
                blob == blobs[ref.id]
            IN  IF blob # ref.hash \/ ~Opens(blob)
                THEN pc' = "failed" /\ UNCHANGED opened
                ELSE opened' = Append(opened, blob) /\ UNCHANGED pc
    /\ UNCHANGED <<catalogVars, wanted, refs, plan, placed, attached, disk>>

\* A faulty variant: collisions are left to Apply.
CheckDirectoriesNonEmpty ==
    /\ pc = "keys"
    /\ pc' = IF \A k \in DOMAIN opened : PluginDirectory(opened[k]) # <<>> THEN "apply" ELSE "failed"
    /\ UNCHANGED <<catalogVars, attachVars, disk>>

\* The directories are compared before anything is written.
CheckDirectories ==
    /\ pc = "keys"
    /\ LET directories == [k \in DOMAIN opened |-> PluginDirectory(opened[k])]
       IN  pc' = IF IsInjective(directories) /\ <<>> \notin Range(directories) THEN "apply" ELSE "failed"
    /\ UNCHANGED <<catalogVars, attachVars, disk>>

Current == opened[Len(attached) + 1]

\* ensureNoPluginNameCollision
Occupied(directory) ==
    \E path \in DOMAIN disk : IsPrefix(directory, path)

\* Apply up to its first PutFile: the collision check and buildWritePlan.
ApplyPlan ==
    /\ pc = "apply"
    /\ IF Len(attached) = Len(opened)
       THEN pc' = "exec" /\ UNCHANGED plan
       ELSE IF Occupied(PluginDirectory(Current)) \/ \E f \in Walked(Current) : ~Mappable(f)
            THEN pc' = "failed" /\ UNCHANGED plan
            ELSE pc' = "put" /\ plan' = Walked(Current)
    /\ UNCHANGED <<catalogVars, wanted, refs, opened, placed, attached, disk>>

Content(archive, source) == [of |-> archive, source |-> source]

Write(path, content) == disk' = [p \in DOMAIN disk \cup {path} |-> IF p = path THEN content ELSE disk[p]]

\* PutFile, the manifest first.
ApplyPut ==
    /\ pc = "put"
    /\ \E f \in plan :
          /\ ManifestFile \in plan => f = ManifestFile
          /\ plan' = plan \ {f}
          /\ placed' = placed \cup {MapPath(Current, f)}
          /\ Write(MapPath(Current, f), Content(Current, f))
    /\ UNCHANGED <<catalogVars, pc, wanted, refs, opened, attached>>

ApplyDone ==
    /\ pc = "put"
    /\ plan = {}
    /\ pc' = "apply"
    /\ attached' = Append(attached, placed)
    /\ placed' = {}
    /\ UNCHANGED <<catalogVars, wanted, refs, opened, plan, disk>>

----------------------------------------------------------------------------
(* Spec.Install: the binary, the settings, the workspace's AGENTS.md, and  *)
(* the worker's last write, which records the attached plugins.            *)

InstallExec ==
    /\ pc = "exec"
    /\ pc' = "settings"
    /\ UNCHANGED <<catalogVars, attachVars, disk>>

InstallSettings ==
    /\ pc = "settings"
    /\ pc' = "agents"
    /\ Write(Settings, Content(NoArchive, Settings))
    /\ UNCHANGED <<catalogVars, attachVars>>

InstallAgents ==
    /\ pc = "agents"
    /\ pc' = "done"
    /\ Write(WorkspaceAgents, Content(NoArchive, WorkspaceAgents))
    /\ UNCHANGED <<catalogVars, attachVars>>

\* A call into a repository, the storage or the infrastructure fails, or the install's context
\* is done.  The directory stays as it is.
Fail ==
    /\ pc \in {"resolve", "open", "apply", "put", "exec", "settings", "agents"}
    /\ pc' = IF pc = "resolve" THEN "refused" ELSE "failed"
    /\ UNCHANGED <<catalogVars, attachVars, disk>>

Install ==
    \/ Resolve \/ Open \/ CheckDirectories \/ ApplyPlan \/ ApplyPut \/ ApplyDone
    \/ InstallExec \/ InstallSettings \/ InstallAgents \/ Fail

Through ==
    /\ pc \in {"refused", "failed", "done"}
    /\ UNCHANGED vars

Next ==
    \/ \E p \in Plugins :
          \/ \E archive \in Archives : UploadPut(p, archive)
          \/ UploadCommit(p) \/ UploadRollback(p) \/ DeletePluginRow(p) \/ DeletePluginBlob(p)
    \/ \E n \in 0..Cardinality(Plugins) : \E ids \in [1..n -> Plugins] : CreateWorkspace(ids)
    \/ Install
    \/ Through

Spec == Init /\ [][Next]_vars

----------------------------------------------------------------------------
(* Properties.                                                             *)

\* No file claims to lie under another: a tree that a directory can hold.
TreeShaped(archive) == \A f, g \in FileSet(archive) : IsPrefix(f, g) => f = g

\* Where the files of plugin k of the snapshot belong.
Place(k, source) == << <<".claude">>, <<"plugins">>, Sanitize(refs[k].hash.manifest.name) >> \o source

\* The working directory holds what the workspace's row says and nothing else,
\* although plugins are overwritten and deleted between the snapshot and the
\* install, and between one plugin and the next: every file is a file of the
\* snapshot's version of a plugin in that plugin's directory, or one of the two
\* the specification writes, and none has taken another's place.  After a
\* successful install none is missing either, and the paths recorded for each
\* plugin are the paths of its files.
DirectoryIsSnapshot ==
    /\ \A path \in DOMAIN disk :
          \/ disk[path].of = NoArchive /\ disk[path].source = path
          \/ \E k \in DOMAIN refs : disk[path].of = refs[k].hash /\ path = Place(k, disk[path].source)
    /\ pc = "done" =>
          /\ {Settings, WorkspaceAgents} \subseteq DOMAIN disk
          /\ \A k \in DOMAIN refs : TreeShaped(refs[k].hash) =>
                LET places == {Place(k, f) : f \in FileSet(refs[k].hash)}
                IN  /\ attached[k] = places
                    /\ \A path \in places : path \in DOMAIN disk /\ disk[path].of = refs[k].hash

\* "the install worker MUST detect this before calling PutFile, so the working
\* directory remains coherent": of plugins that would share a directory, and of
\* plugins one of which is not what the snapshot says, not a file is written.
NothingWrittenUnlessSound ==
    DOMAIN disk # {} =>
        /\ \A i, j \in DOMAIN refs : i # j => Place(i, <<>>) # Place(j, <<>>)
        /\ \A k \in DOMAIN refs : Opens(refs[k].hash) /\ opened[k] = refs[k].hash

\* No plugin that can be attached expands to more than the limit, however its
\* bytes are spread over its files.
ExpandedWithinLimit ==
    \A p \in Plugins : blobs[p] # NoArchive =>
        TotalExpanded(blobs[p].entries)[Len(blobs[p].entries)] <= MaxExpanded
=============================================================================
