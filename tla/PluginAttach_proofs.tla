------------------------- MODULE PluginAttach_proofs -------------------------
(***************************************************************************)
(* The working directory an install leaves, for any archives, any number   *)
(* of plugins and whatever happens to the catalog meanwhile.               *)
(***************************************************************************)
EXTENDS PluginAttach, WellFoundedInduction, TLAPS

\* Where Apply puts the files of an archive.
Targets(archive) == {MapPath(archive, f) : f \in Walked(archive)}

\* The types of the catalog and of the install.
AttachTypes ==
    /\ rows \in [Plugins -> Archives \cup {NoArchive}]
    /\ blobs \in [Plugins -> Archives \cup {NoArchive}]
    /\ wanted \in Seq(Plugins)
    /\ refs \in Seq([id : Plugins, hash : Archives])
    /\ opened \in Seq(Archives)
    /\ attached \in Seq({Targets(a) : a \in Archives})

\* The readers are those of the snapshot, and the directories are apart.
Sound ==
    /\ Len(opened) = Len(refs)
    /\ \A k \in 1..Len(opened) : PluginDirectory(opened[k]) # <<>>
    /\ \A i, j \in 1..Len(opened) : i # j => PluginDirectory(opened[i]) # PluginDirectory(opened[j])

\* The plugins have been compared, and the install goes on.
Attaching == pc \in {"apply", "put", "exec", "settings", "agents", "done"}

\* Nothing is written before every plugin is opened and compared.
OpenInv ==
    /\ Len(opened) <= Len(refs)
    /\ \A k \in 1..Len(opened) : opened[k] = refs[k].hash /\ Opens(opened[k])
    /\ pc = "new" => refs = <<>>
    /\ pc = "resolve" => Len(refs) <= Len(wanted)
    /\ pc \in {"new", "resolve"} => opened = <<>>
    /\ pc \in {"new", "resolve", "open", "keys"} => attached = <<>> /\ placed = {} /\ DOMAIN disk = {}
    /\ pc = "keys" => Len(opened) = Len(refs)
    /\ Attaching \/ DOMAIN disk # {} => Sound

\* The file is there and is of the archive.
InPlace(path, archive) == path \in DOMAIN disk /\ disk[path].of = archive

\* Every file belongs to the snapshot or to the specification.
FilesKnown ==
    \A path \in DOMAIN disk :
       \/ disk[path].of = NoArchive /\ disk[path].source = path
       \/ \E k \in DOMAIN refs : disk[path].of = refs[k].hash /\ path = Place(k, disk[path].source)

\* What is written when: the plugins attached so far, the files of the current
\* one that are no longer in the plan, and the specification's own files.
ProgressInv ==
    Attaching =>
      /\ Len(attached) <= Len(opened)
      /\ \A k \in 1..Len(attached) :
            attached[k] = Targets(opened[k]) /\ \A path \in attached[k] : InPlace(path, opened[k])
      /\ pc # "put" => placed = {}
      /\ pc = "put" =>
            /\ Len(attached) < Len(opened)
            /\ plan \subseteq Walked(Current)
            /\ placed = {MapPath(Current, f) : f \in Walked(Current) \ plan}
            /\ \A path \in placed : InPlace(path, Current)
      /\ pc \in {"exec", "settings", "agents", "done"} => Len(attached) = Len(opened)
      /\ pc \in {"agents", "done"} => Settings \in DOMAIN disk
      /\ pc = "done" => WorkspaceAgents \in DOMAIN disk

\* What every step preserves.
AttachInv == AttachTypes /\ OpenInv /\ FilesKnown /\ ProgressInv

----------------------------------------------------------------------------
(* Paths                                                                   *)

\* What a reader walks are files of its archive, and their paths sequences of names.
LEMMA FilePaths ==
  ASSUME NEW a \in Archives
  PROVE  FileSet(a) \subseteq Seq(Seq(STRING)) /\ Walked(a) \subseteq FileSet(a)
  <1>1. ASSUME NEW e \in Range(a.entries), e.kind = "file"
        PROVE  Canonical(e) \in Seq(Seq(STRING))
    <2>1. Canonical(e) = e.path
      BY <1>1 DEF Canonical
    <2>2. a.entries \in Seq(Entries)
      BY AttachAssumption
    <2>3. e \in Entries
      BY <2>2 DEF Range
    <2> QED BY <2>1, <2>3 DEF Entries
  <1> QED BY <1>1 DEF FileSet, Walked

\* The first three components of a path under a plugin's directory.
LEMMA UnderDirectory ==
  ASSUME NEW name, NEW f \in Seq(Seq(STRING))
  PROVE  LET path == << <<".claude">>, <<"plugins">>, name >> \o f
         IN  path[1] = <<".claude">> /\ path[2] = <<"plugins">> /\ path[3] = name
  <1> DEFINE S == Seq(STRING) \cup {<<".claude">>, <<"plugins">>, name}
             d == << <<".claude">>, <<"plugins">>, name >>
  <1>1. <<".claude">> \in S /\ <<"plugins">> \in S /\ name \in S
    OBVIOUS
  <1>2. f \in Seq(S)
    OBVIOUS
  <1> HIDE DEF S
  <1>3. d \in Seq(S) /\ Len(d) = 3
    BY <1>1
  <1>4. \A i \in 1..3 : (d \o f)[i] = d[i]
    BY <1>2, <1>3
  <1> QED BY <1>4

\* The directory itself.
LEMMA DirectoryPath ==
  ASSUME NEW name
  PROVE  << <<".claude">>, <<"plugins">>, name >> \o <<>> = << <<".claude">>, <<"plugins">>, name >>
  <1> DEFINE S == Seq(STRING) \cup {<<".claude">>, <<"plugins">>, name}
  <1>1. <<".claude">> \in S /\ <<"plugins">> \in S /\ name \in S
    OBVIOUS
  <1> HIDE DEF S
  <1>2. << <<".claude">>, <<"plugins">>, name >> \in Seq(S)
    BY <1>1
  <1> QED BY <1>2

\* A directory that is not refused is named after the plugin.
LEMMA DirectoryOf ==
  ASSUME NEW a, PluginDirectory(a) # <<>>
  PROVE  PluginDirectory(a) = << <<".claude">>, <<"plugins">>, Sanitize(a.manifest.name) >>
  BY DEF PluginDirectory

\* Files of plugins with different directories have different paths, and neither
\* of the specification's files is among them.
LEMMA PathsApart ==
  ASSUME NEW a \in Archives, NEW b \in Archives, NEW f \in FileSet(a), NEW g \in FileSet(b),
         PluginDirectory(a) # <<>>, PluginDirectory(b) # <<>>
  PROVE  /\ PluginDirectory(a) # PluginDirectory(b) => MapPath(a, f) # MapPath(b, g)
         /\ MapPath(a, f) \notin {Settings, WorkspaceAgents}
  <1> DEFINE x == Sanitize(a.manifest.name)
             y == Sanitize(b.manifest.name)
  <1>1. f \in Seq(Seq(STRING)) /\ g \in Seq(Seq(STRING))
    BY FilePaths
  <1>2. /\ PluginDirectory(a) = << <<".claude">>, <<"plugins">>, x >>
        /\ PluginDirectory(b) = << <<".claude">>, <<"plugins">>, y >>
    BY DirectoryOf
  <1> HIDE DEF x, y
  <1>3. MapPath(a, f)[1] = <<".claude">> /\ MapPath(a, f)[2] = <<"plugins">> /\ MapPath(a, f)[3] = x
    BY <1>1, <1>2, UnderDirectory DEF MapPath
  <1>4. MapPath(b, g)[3] = y
    BY <1>1, <1>2, UnderDirectory DEF MapPath
  <1>5. PluginDirectory(a) # PluginDirectory(b) => MapPath(a, f) # MapPath(b, g)
    BY <1>2, <1>3, <1>4
  <1>6. Settings[2] # <<"plugins">> /\ WorkspaceAgents[1] # <<".claude">>
    BY DEF Settings, WorkspaceAgents
  <1> QED BY <1>3, <1>5, <1>6

----------------------------------------------------------------------------
(* Steps                                                                   *)

\* The install leaves the catalog alone, and the catalog the install.
LEMMA CatalogOrInstall ==
  ASSUME [Next]_vars
  PROVE  \/ UNCHANGED <<pc, attachVars, disk>>
         \/ (Install \/ \E n \in 0..Cardinality(Plugins) : \E ids \in [1..n -> Plugins] : CreateWorkspace(ids))
            /\ UNCHANGED catalogVars
  <1> USE DEF catalogVars, attachVars
  <1>1. ASSUME NEW p \in Plugins, NEW archive \in Archives,
               \/ UploadPut(p, archive) \/ UploadCommit(p) \/ UploadRollback(p)
               \/ DeletePluginRow(p) \/ DeletePluginBlob(p)
        PROVE  UNCHANGED <<pc, attachVars, disk>>
    BY <1>1 DEF UploadPut, UploadCommit, UploadRollback, DeletePluginRow, DeletePluginBlob
  <1>2. ASSUME NEW p \in Plugins, UploadCommit(p) \/ UploadRollback(p) \/ DeletePluginRow(p) \/ DeletePluginBlob(p)
        PROVE  UNCHANGED <<pc, attachVars, disk>>
    BY <1>2 DEF UploadCommit, UploadRollback, DeletePluginRow, DeletePluginBlob
  <1>3. CASE Install
    BY <1>3 DEF Install, Resolve, Open, CheckDirectories, ApplyPlan, ApplyPut, ApplyDone, InstallExec,
                InstallSettings, InstallAgents, Fail
  <1>4. ASSUME NEW n \in 0..Cardinality(Plugins), NEW ids \in [1..n -> Plugins], CreateWorkspace(ids)
        PROVE  UNCHANGED catalogVars
    BY <1>4 DEF CreateWorkspace
  <1>5. CASE Through \/ UNCHANGED vars
    BY <1>5 DEF Through, vars
  <1> QED BY <1>1, <1>2, <1>3, <1>4, <1>5 DEF Next

\* What is at a place of the snapshot and of the readers.
LEMMA AtPlace ==
  ASSUME AttachTypes
  PROVE  /\ \A k \in 1..Len(refs) : refs[k] \in [id : Plugins, hash : Archives] /\ refs[k].hash \in Archives
         /\ \A k \in 1..Len(opened) : opened[k] \in Archives
         /\ Len(refs) \in Nat /\ Len(opened) \in Nat /\ Len(attached) \in Nat
  <1> DEFINE S == [id : Plugins, hash : Archives]
             T == {Targets(a) : a \in Archives}
  <1>1. refs \in Seq(S) /\ attached \in Seq(T) /\ opened \in Seq(Archives)
    BY DEF AttachTypes
  <1>2. \A r \in S : r.hash \in Archives
    OBVIOUS
  <1> HIDE DEF S, T
  <1>3. /\ \A k \in 1..Len(refs) : refs[k] \in S
        /\ Len(refs) \in Nat /\ Len(opened) \in Nat /\ Len(attached) \in Nat
    BY <1>1
  <1>4. \A k \in 1..Len(opened) : opened[k] \in Archives
    BY <1>1
  <1> QED BY <1>2, <1>3, <1>4 DEF S

\* Every step keeps the types.
LEMMA AttachTypesStep ==
  ASSUME AttachInv, [Next]_vars
  PROVE  AttachTypes'
  <1> USE DEF catalogVars, attachVars
  <1>0. AttachTypes
    BY DEF AttachInv
  <1>1. rows' \in [Plugins -> Archives \cup {NoArchive}] /\ blobs' \in [Plugins -> Archives \cup {NoArchive}]
    <2>1. ASSUME NEW p \in Plugins, UploadCommit(p) \/ UploadRollback(p) \/ DeletePluginRow(p) \/ DeletePluginBlob(p)
          PROVE  rows' \in [Plugins -> Archives \cup {NoArchive}] /\ blobs' \in [Plugins -> Archives \cup {NoArchive}]
      BY <1>0, <2>1 DEF AttachTypes, UploadCommit, UploadRollback, DeletePluginRow, DeletePluginBlob
    <2>2. ASSUME NEW p \in Plugins, NEW archive \in Archives, UploadPut(p, archive)
          PROVE  rows' \in [Plugins -> Archives \cup {NoArchive}] /\ blobs' \in [Plugins -> Archives \cup {NoArchive}]
      BY <1>0, <2>2 DEF AttachTypes, UploadPut
    <2>3. ASSUME UNCHANGED <<rows, blobs>>
          PROVE  rows' \in [Plugins -> Archives \cup {NoArchive}] /\ blobs' \in [Plugins -> Archives \cup {NoArchive}]
      BY <1>0, <2>3 DEF AttachTypes
    <2>4. CASE Install \/ \E n \in 0..Cardinality(Plugins) : \E ids \in [1..n -> Plugins] : CreateWorkspace(ids)
      BY <2>3, <2>4 DEF Install, Resolve, Open, CheckDirectories, ApplyPlan, ApplyPut, ApplyDone,
                InstallExec, InstallSettings, InstallAgents, Fail, CreateWorkspace
    <2>5. CASE Through \/ UNCHANGED vars
      BY <2>3, <2>5 DEF Through, vars
    <2> QED BY <2>1, <2>2, <2>4, <2>5 DEF Next
  <1>2. ASSUME UNCHANGED <<wanted, refs, opened, attached>>
        PROVE  AttachTypes'
    BY <1>0, <1>1, <1>2 DEF AttachTypes
  <1>3. ASSUME NEW n \in 0..Cardinality(Plugins), NEW ids \in [1..n -> Plugins], CreateWorkspace(ids)
        PROVE  AttachTypes'
    <2>1. ids \in Seq(Plugins)
      BY <1>3
    <2> QED BY <1>0, <1>1, <1>3, <2>1 DEF CreateWorkspace, AttachTypes
  <1>4. CASE Resolve
    <2>1. CASE UNCHANGED refs
      BY <1>2, <1>4, <2>1 DEF Resolve
    <2>2. CASE refs' # refs
      <3>1. Len(refs) + 1 \in 1..Len(wanted)
        BY <1>4, <2>2 DEF Resolve, AttachInv, OpenInv, AttachTypes
      <3>2. PICK p \in Plugins : p = wanted[Len(refs) + 1]
        BY <1>0, <3>1 DEF AttachTypes
      <3>3. rows[p] \in Archives /\ refs' = Append(refs, [id |-> p, hash |-> rows[p]])
        BY <1>0, <1>4, <2>2, <3>2 DEF Resolve, AttachTypes
      <3>4. refs' \in Seq([id : Plugins, hash : Archives])
        BY <1>0, <3>3 DEF AttachTypes
      <3> QED BY <1>0, <1>1, <1>4, <3>4 DEF Resolve, AttachTypes
    <2> QED BY <2>1, <2>2
  <1>5. CASE Open
    <2>1. CASE UNCHANGED opened
      BY <1>2, <1>5, <2>1 DEF Open
    <2>2. CASE opened' # opened
      <3>1. Len(opened) + 1 \in 1..Len(refs)
        BY <1>0, <1>5, <2>2 DEF Open, AttachInv, OpenInv, AttachTypes
      <3>2. PICK ref \in [id : Plugins, hash : Archives] : ref = refs[Len(opened) + 1]
        BY <1>0, <3>1, AtPlace
      <3>3. opened' = Append(opened, ref.hash)
        BY <1>5, <2>2, <3>2 DEF Open
      <3>4. opened' \in Seq(Archives)
        BY <1>0, <3>3 DEF AttachTypes
      <3> QED BY <1>0, <1>1, <1>5, <3>4 DEF Open, AttachTypes
    <2> QED BY <2>1, <2>2
  <1>6. CASE ApplyDone
    <2>1. Len(attached) + 1 \in 1..Len(opened) /\ placed = Targets(Current)
      BY <1>0, <1>6 DEF ApplyDone, AttachInv, ProgressInv, Attaching, Targets, AttachTypes
    <2>2. Current \in Archives
      BY <1>0, <2>1 DEF Current, AttachTypes
    <2>3. attached' = Append(attached, placed) /\ placed \in {Targets(a) : a \in Archives}
      BY <1>6, <2>1, <2>2 DEF ApplyDone
    <2>4. attached' \in Seq({Targets(a) : a \in Archives})
      BY <1>0, <2>3 DEF AttachTypes
    <2> QED BY <1>0, <1>1, <1>6, <2>4 DEF ApplyDone, AttachTypes
  <1>7. CASE CheckDirectories \/ ApplyPlan \/ ApplyPut \/ InstallExec \/ InstallSettings \/ InstallAgents \/ Fail
    BY <1>2, <1>7 DEF CheckDirectories, ApplyPlan, ApplyPut, InstallExec, InstallSettings, InstallAgents, Fail
  <1>8. CASE UNCHANGED <<pc, attachVars, disk>>
    BY <1>2, <1>8
  <1> QED BY <1>3, <1>4, <1>5, <1>6, <1>7, <1>8, CatalogOrInstall DEF Install

\* The readers are opened in the order of the snapshot, and compared before
\* anything is written.
LEMMA OpenInvStep ==
  ASSUME AttachInv, [Next]_vars
  PROVE  OpenInv'
  <1> USE DEF catalogVars, attachVars
  <1>0. AttachTypes /\ OpenInv
    BY DEF AttachInv
  <1>1. CASE UNCHANGED <<pc, attachVars, disk>>
    BY <1>0, <1>1 DEF OpenInv, Sound, Attaching
  <1>2. ASSUME NEW n \in 0..Cardinality(Plugins), NEW ids \in [1..n -> Plugins], CreateWorkspace(ids)
        PROVE  OpenInv'
    <2>1. refs = <<>> /\ opened = <<>> /\ wanted' \in Seq(Plugins)
      BY <1>0, <1>2 DEF OpenInv, CreateWorkspace
    <2>2. Len(refs) <= Len(wanted')
      BY <2>1
    <2> QED BY <1>0, <1>2, <2>1, <2>2 DEF OpenInv, CreateWorkspace, Attaching
  <1>3. CASE Resolve
    <2>1. opened = <<>> /\ opened' = <<>> /\ Len(opened') = 0 /\ DOMAIN disk' = {} /\ attached' = <<>> /\ placed' = {}
      BY <1>0, <1>3 DEF OpenInv, Resolve
    <2>2. CASE Len(refs) = Len(wanted)
      <3>1. wanted = <<>> => Len(refs') = 0
        BY <1>3, <2>2 DEF Resolve
      <3>2. pc' = "exec" => Sound'
        BY <1>3, <2>1, <2>2, <3>1 DEF Resolve, Sound
      <3>3. pc' \in {"exec", "open"} /\ (pc' = "exec" \/ ~Attaching')
        BY <1>3, <2>2 DEF Resolve, Attaching
      <3> QED BY <1>0, <1>3, <2>1, <2>2, <3>2, <3>3, AtPlace DEF OpenInv, Resolve
    <2>3. CASE Len(refs) # Len(wanted)
      <3>1. pc' \in {"resolve", "refused"}
        BY <1>3, <2>3 DEF Resolve
      <3>2. Len(refs') \in Nat /\ (pc' = "resolve" => Len(refs') <= Len(wanted'))
        <4>1. CASE UNCHANGED refs
          BY <1>0, <1>3, <4>1, AtPlace DEF OpenInv, Resolve, AttachTypes
        <4>2. CASE refs' # refs
          <5>1. Len(refs') = Len(refs) + 1
            BY <1>0, <1>3, <2>3, <4>2 DEF Resolve, AttachTypes
          <5> QED BY <1>0, <1>3, <2>3, <5>1, AtPlace DEF OpenInv, Resolve, AttachTypes
        <4> QED BY <4>1, <4>2
      <3> QED BY <2>1, <3>1, <3>2 DEF OpenInv, Attaching
    <2> QED BY <2>2, <2>3
  <1>4. CASE Open
    <2>1. /\ attached' = <<>> /\ placed' = {} /\ DOMAIN disk' = {} /\ refs' = refs
          /\ pc' \in {"open", "keys", "failed"}
      BY <1>0, <1>4 DEF OpenInv, Open
    <2>2. CASE UNCHANGED opened
      BY <1>0, <1>4, <2>1, <2>2, AtPlace DEF OpenInv, Open, Attaching
    <2>3. CASE opened' # opened
      <3>1. Len(opened) + 1 \in 1..Len(refs)
        BY <1>0, <1>4, <2>3, AtPlace DEF Open, OpenInv
      <3>2. PICK blob \in Archives : blob = refs[Len(opened) + 1].hash
        BY <1>0, <3>1, AtPlace
      <3>3. opened' = Append(opened, blob) /\ Opens(blob) /\ pc' = "open"
        BY <1>4, <2>3, <3>2 DEF Open
      <3>4. /\ Len(opened') = Len(opened) + 1
            /\ \A k \in 1..Len(opened') : \/ k \in 1..Len(opened) /\ opened'[k] = opened[k]
                                          \/ k = Len(opened) + 1 /\ opened'[k] = blob
        BY <1>0, <3>3 DEF AttachTypes
      <3>5. \A k \in 1..Len(opened') : opened'[k] = refs[k].hash /\ Opens(opened'[k])
        BY <1>0, <3>2, <3>3, <3>4 DEF OpenInv
      <3> QED BY <1>0, <2>1, <3>1, <3>3, <3>4, <3>5, AtPlace DEF OpenInv, Attaching
    <2> QED BY <2>2, <2>3
  <1>5. CASE CheckDirectories
    <2>1. DOMAIN opened = 1..Len(opened)
      BY <1>0 DEF AttachTypes
    <2>2. ASSUME pc' = "apply"
          PROVE  Sound
      <3> DEFINE directories == [k \in DOMAIN opened |-> PluginDirectory(opened[k])]
      <3>1. IsInjective(directories) /\ <<>> \notin Range(directories)
        BY <1>5, <2>2 DEF CheckDirectories
      <3>2. \A i, j \in DOMAIN opened : i # j => directories[i] # directories[j]
        BY <3>1 DEF IsInjective
      <3>3. \A k \in DOMAIN opened : directories[k] # <<>>
        BY <3>1 DEF Range
      <3> QED BY <1>0, <1>5, <2>1, <3>2, <3>3 DEF Sound, OpenInv, CheckDirectories
    <2>3. pc' \in {"apply", "failed"} /\ UNCHANGED <<refs, opened, disk, wanted>> /\ DOMAIN disk = {}
      BY <1>0, <1>5 DEF CheckDirectories, OpenInv
    <2> QED BY <1>0, <2>2, <2>3 DEF OpenInv, Attaching, Sound
  <1>6. CASE ApplyPlan \/ ApplyPut \/ ApplyDone \/ InstallExec \/ InstallSettings \/ InstallAgents
             \/ (Fail /\ pc # "resolve" /\ pc # "open")
    <2>1. Attaching /\ UNCHANGED <<refs, opened, wanted>>
      BY <1>6 DEF ApplyPlan, ApplyPut, ApplyDone, InstallExec, InstallSettings, InstallAgents, Fail, Attaching
    <2>2. pc' \in {"apply", "put", "exec", "settings", "agents", "done", "failed"}
      BY <1>6 DEF ApplyPlan, ApplyPut, ApplyDone, InstallExec, InstallSettings, InstallAgents, Fail
    <2> QED BY <1>0, <2>1, <2>2 DEF OpenInv, Sound
  <1>7. CASE Fail /\ pc \in {"resolve", "open"}
    BY <1>0, <1>7 DEF Fail, OpenInv, Attaching
  <1> QED BY <1>1, <1>2, <1>3, <1>4, <1>5, <1>6, <1>7, CatalogOrInstall DEF Install

\* Whose file is being placed.
LEMMA CurrentIs ==
  ASSUME AttachInv, pc = "put" \/ (pc = "apply" /\ Len(attached) # Len(opened))
  PROVE  /\ Len(attached) + 1 \in 1..Len(opened) /\ Len(attached) + 1 \in DOMAIN refs
         /\ Current = refs[Len(attached) + 1].hash /\ Current \in Archives
         /\ PluginDirectory(Current) = << <<".claude">>, <<"plugins">>, Sanitize(Current.manifest.name) >>
         /\ PluginDirectory(Current) # <<>>
  <1>1. AttachTypes /\ Attaching /\ Sound
    BY DEF AttachInv, OpenInv, Attaching
  <1>2. Len(attached) + 1 \in 1..Len(opened) /\ Len(opened) = Len(refs)
    BY <1>1, AtPlace DEF AttachInv, ProgressInv, Sound
  <1>3. Current \in Archives /\ Current = refs[Len(attached) + 1].hash /\ PluginDirectory(Current) # <<>>
    BY <1>1, <1>2, AtPlace DEF Current, AttachInv, OpenInv, Sound
  <1>4. DOMAIN refs = 1..Len(refs)
    BY <1>1 DEF AttachTypes
  <1> QED BY <1>2, <1>3, <1>4, DirectoryOf

\* A file is written into its plugin's directory, or is one of the specification's.
LEMMA FilesKnownStep ==
  ASSUME AttachInv, [Next]_vars
  PROVE  FilesKnown'
  <1> USE DEF catalogVars, attachVars
  <1>0. FilesKnown /\ OpenInv /\ AttachTypes
    BY DEF AttachInv
  <1>1. ASSUME UNCHANGED <<disk, refs>>
        PROVE  FilesKnown'
    BY <1>0, <1>1 DEF FilesKnown, Place
  <1>2. ASSUME DOMAIN disk' = {}
        PROVE  FilesKnown'
    BY <1>2 DEF FilesKnown
  <1>3. CASE Resolve
    BY <1>0, <1>2, <1>3 DEF Resolve, OpenInv
  <1>4. CASE ApplyPut
    <2>1. PICK f \in plan : Write(MapPath(Current, f), Content(Current, f))
      BY <1>4 DEF ApplyPut
    <2> DEFINE k == Len(attached) + 1
               target == MapPath(Current, f)
    <2>3. k \in DOMAIN refs /\ Current = refs[k].hash /\ target = Place(k, f)
      BY <1>4, CurrentIs DEF ApplyPut, MapPath, Place
    <2>4. UNCHANGED refs /\ \A j, g : Place(j, g)' = Place(j, g)
      BY <1>4 DEF ApplyPut, Place
    <2>5. DOMAIN disk' = DOMAIN disk \cup {target}
          /\ \A path \in DOMAIN disk' : disk'[path] = IF path = target THEN Content(Current, f) ELSE disk[path]
      BY <2>1 DEF Write
    <2>6. Content(Current, f).of = Current /\ Content(Current, f).source = f
      BY DEF Content
    <2> HIDE DEF k, target
    <2>7. ASSUME NEW path \in DOMAIN disk'
          PROVE  \/ disk'[path].of = NoArchive /\ disk'[path].source = path
                 \/ \E j \in DOMAIN refs : disk'[path].of = refs[j].hash /\ path = Place(j, disk'[path].source)
      <3>1. CASE path = target
        BY <2>3, <2>5, <2>6, <3>1
      <3>2. CASE path # target
        BY <1>0, <2>5, <3>2 DEF FilesKnown
      <3> QED BY <3>1, <3>2
    <2> QED BY <2>4, <2>7 DEF FilesKnown, Place
  <1>5. ASSUME NEW target, Write(target, Content(NoArchive, target)), UNCHANGED refs
        PROVE  FilesKnown'
    BY <1>0, <1>5 DEF FilesKnown, Write, Content, Place
  <1>6. CASE InstallSettings \/ InstallAgents
    BY <1>5, <1>6 DEF InstallSettings, InstallAgents
  <1>7. CASE Open \/ CheckDirectories \/ ApplyPlan \/ ApplyDone \/ InstallExec \/ Fail
    BY <1>1, <1>7 DEF Open, CheckDirectories, ApplyPlan, ApplyDone, InstallExec, Fail
  <1>8. ASSUME NEW n \in 0..Cardinality(Plugins), NEW ids \in [1..n -> Plugins], CreateWorkspace(ids)
        PROVE  FilesKnown'
    BY <1>1, <1>8 DEF CreateWorkspace
  <1>9. CASE UNCHANGED <<pc, attachVars, disk>>
    BY <1>1, <1>9
  <1> QED BY <1>3, <1>4, <1>6, <1>7, <1>8, <1>9, CatalogOrInstall DEF Install

\* A write leaves the other files.
LEMMA WriteKeeps ==
  ASSUME NEW target, NEW content, Write(target, content)
  PROVE  /\ DOMAIN disk' = DOMAIN disk \cup {target}
         /\ disk'[target] = content
         /\ \A path, a : InPlace(path, a) /\ path # target => path \in DOMAIN disk' /\ disk'[path].of = a
  BY DEF Write, InPlace

\* The files of an attached plugin are where no later write goes.
LEMMA AttachedApart ==
  ASSUME AttachInv, Attaching, NEW k \in 1..Len(attached), NEW path \in attached[k]
  PROVE  /\ path \notin {Settings, WorkspaceAgents}
         /\ pc = "put" => \A f \in plan : path # MapPath(Current, f)
  <1>1. AttachTypes /\ Sound /\ k \in 1..Len(opened) /\ path \in Targets(opened[k])
    <2>1. AttachTypes /\ Sound /\ Len(attached) <= Len(opened) /\ attached[k] = Targets(opened[k])
      BY DEF AttachInv, OpenInv, ProgressInv
    <2> QED BY <2>1, AtPlace
  <1>2. PICK a \in Archives : a = opened[k]
    BY <1>1, AtPlace
  <1>3. PICK g \in FileSet(a) : path = MapPath(a, g)
    BY <1>1, <1>2, FilePaths DEF Targets
  <1>4. PluginDirectory(a) # <<>>
    BY <1>1, <1>2 DEF Sound
  <1>5. path \notin {Settings, WorkspaceAgents}
    BY <1>3, <1>4, PathsApart
  <1>6. ASSUME pc = "put", NEW f \in plan
        PROVE  path # MapPath(Current, f)
    <2>1. PICK b \in Archives : b = Current
      BY <1>6, CurrentIs
    <2>2. f \in FileSet(b)
      BY <1>6, <2>1, FilePaths DEF AttachInv, ProgressInv
    <2>3. PluginDirectory(b) # <<>> /\ Len(attached) + 1 \in 1..Len(opened)
      BY <1>6, <2>1, CurrentIs
    <2>4. k # Len(attached) + 1
      BY <1>1, AtPlace
    <2>5. PluginDirectory(a) # PluginDirectory(b)
      BY <1>1, <1>2, <2>1, <2>3, <2>4 DEF Sound, Current
    <2> QED BY <1>3, <1>4, <2>1, <2>2, <2>3, <2>5, PathsApart
  <1> QED BY <1>5, <1>6

\* Every step keeps what has been written: no file takes the place of another.
LEMMA ProgressStep ==
  ASSUME AttachInv, [Next]_vars
  PROVE  ProgressInv'
  <1> USE DEF catalogVars, attachVars
  <1>0. ProgressInv /\ OpenInv /\ AttachTypes
    BY DEF AttachInv
  <1>1. CASE UNCHANGED <<pc, attachVars, disk>>
    BY <1>0, <1>1 DEF ProgressInv, Attaching, InPlace, Current
  <1>2. ASSUME ~Attaching'
        PROVE  ProgressInv'
    BY <1>2 DEF ProgressInv
  <1>3. ASSUME attached' = <<>>, placed' = {}, pc' \in {"apply", "exec"}, opened' \in Seq(Archives),
               pc' = "exec" => opened' = <<>>
        PROVE  ProgressInv'
    <2>1. Len(attached') = 0 /\ Len(opened') \in Nat /\ (pc' = "exec" => Len(opened') = 0)
      BY <1>3
    <2> QED BY <1>3, <2>1 DEF ProgressInv
  <1>4. ASSUME NEW n \in 0..Cardinality(Plugins), NEW ids \in [1..n -> Plugins], CreateWorkspace(ids)
        PROVE  ProgressInv'
    BY <1>2, <1>4 DEF CreateWorkspace, Attaching
  <1>5. CASE Resolve
    <2>1. pc' \in {"exec", "open", "refused", "resolve"} /\ opened' = <<>> /\ attached' = <<>> /\ placed' = {}
      BY <1>0, <1>5 DEF Resolve, OpenInv
    <2> QED BY <1>2, <1>3, <2>1 DEF Attaching
  <1>6. CASE Open \/ Fail
    BY <1>2, <1>6 DEF Open, Fail, Attaching
  <1>7. CASE CheckDirectories
    <2>1. pc' \in {"apply", "failed"} /\ opened' \in Seq(Archives) /\ attached' = <<>> /\ placed' = {}
      BY <1>0, <1>7 DEF CheckDirectories, OpenInv, AttachTypes
    <2> QED BY <1>2, <1>3, <2>1 DEF Attaching
  <1>8. CASE ApplyPlan
    <2>1. UNCHANGED <<opened, attached, placed, disk>> /\ placed = {} /\ Attaching
      BY <1>0, <1>8 DEF ApplyPlan, ProgressInv, Attaching
    <2>2. CASE pc' = "put"
      <3>1. Len(attached) # Len(opened) /\ plan' = Walked(Current) /\ Current' = Current
        BY <1>8, <2>2 DEF ApplyPlan, Current
      <3>2. Len(attached) < Len(opened)
        BY <1>0, <2>1, <3>1, AtPlace DEF ProgressInv
      <3>3. placed' = {MapPath(Current, f) : f \in Walked(Current) \ plan'}
        BY <2>1, <3>1
      <3> QED BY <1>0, <2>1, <2>2, <3>1, <3>2, <3>3 DEF ProgressInv, InPlace
    <2>3. CASE pc' = "exec"
      BY <1>0, <1>8, <2>1, <2>3 DEF ApplyPlan, ProgressInv, InPlace
    <2> QED BY <1>2, <1>8, <2>2, <2>3 DEF ApplyPlan, Attaching
  <1>9. CASE ApplyPut
    <2>1. PICK f \in plan : /\ plan' = plan \ {f}
                            /\ placed' = placed \cup {MapPath(Current, f)}
                            /\ Write(MapPath(Current, f), Content(Current, f))
      BY <1>9 DEF ApplyPut
    <2> DEFINE target == MapPath(Current, f)
    <2>2. pc = "put" /\ pc' = "put" /\ Attaching /\ UNCHANGED <<refs, opened, attached>> /\ Current' = Current
      BY <1>9 DEF ApplyPut, Attaching, Current
    <2>3. PICK c \in Archives : c = Current
      BY <2>2, CurrentIs
    <2>4. /\ DOMAIN disk' = DOMAIN disk \cup {target}
          /\ disk'[target] = Content(Current, f)
          /\ \A path, a : InPlace(path, a) /\ path # target => path \in DOMAIN disk' /\ disk'[path].of = a
      BY <2>1, WriteKeeps
    <2>5. target \in DOMAIN disk' /\ disk'[target].of = Current
      BY <2>4 DEF Content
    <2>6. ASSUME NEW k \in 1..Len(attached), NEW path \in attached[k]
          PROVE  path \in DOMAIN disk' /\ disk'[path].of = opened[k]
      <3>1. path # target
        BY <2>2, AttachedApart
      <3>2. InPlace(path, opened[k])
        BY <1>0, <2>2 DEF ProgressInv
      <3> QED BY <2>4, <3>1, <3>2
    <2>7. ASSUME NEW path \in placed'
          PROVE  path \in DOMAIN disk' /\ disk'[path].of = Current
      <3>1. CASE path = target
        BY <2>5, <3>1
      <3>2. CASE path # target
        <4>1. InPlace(path, Current)
          BY <1>0, <2>1, <2>2, <3>2 DEF ProgressInv
        <4> QED BY <2>4, <3>2, <4>1
      <3> QED BY <3>1, <3>2
    <2>8. /\ plan' \subseteq Walked(Current)
          /\ placed' = {MapPath(Current, g) : g \in Walked(Current) \ plan'}
      <3>1. plan \subseteq Walked(Current) /\ placed = {MapPath(Current, g) : g \in Walked(Current) \ plan}
        BY <1>0, <2>2 DEF ProgressInv
      <3>2. Walked(Current) \ plan' = (Walked(Current) \ plan) \cup {f}
        BY <2>1, <3>1
      <3>3. {MapPath(Current, g) : g \in (Walked(Current) \ plan) \cup {f}}
              = {MapPath(Current, g) : g \in Walked(Current) \ plan} \cup {MapPath(Current, f)}
        OBVIOUS
      <3> QED BY <2>1, <3>1, <3>2, <3>3
    <2> HIDE DEF target
    <2> QED BY <1>0, <2>2, <2>6, <2>7, <2>8 DEF ProgressInv, Attaching, InPlace
  <1>10. CASE ApplyDone
    <2>1. pc = "put" /\ pc' = "apply" /\ Attaching /\ UNCHANGED <<opened, disk>>
          /\ attached' = Append(attached, placed) /\ placed' = {}
      BY <1>10 DEF ApplyDone, Attaching
    <2>2. Len(attached) < Len(opened) /\ placed = Targets(Current) /\ \A path \in placed : InPlace(path, Current)
      BY <1>0, <1>10, <2>1 DEF ProgressInv, ApplyDone, Targets
    <2>3. /\ Len(attached') = Len(attached) + 1
          /\ \A k \in 1..Len(attached') : \/ k \in 1..Len(attached) /\ attached'[k] = attached[k]
                                          \/ k = Len(attached) + 1 /\ attached'[k] = placed
      <3> DEFINE T == {Targets(a) : a \in Archives}
      <3>1. attached \in Seq(T) /\ placed \in T
        BY <1>0, <2>1, <2>2, CurrentIs DEF AttachTypes
      <3> HIDE DEF T
      <3> QED BY <2>1, <3>1
    <2>4. \A k \in 1..Len(attached') :
            attached'[k] = Targets(opened[k]) /\ \A path \in attached'[k] : InPlace(path, opened[k])
      BY <1>0, <2>1, <2>2, <2>3 DEF ProgressInv, Current
    <2>5. Len(attached') <= Len(opened)
      BY <1>0, <2>2, <2>3, AtPlace
    <2> QED BY <2>1, <2>4, <2>5 DEF ProgressInv, InPlace
  <1>11. CASE InstallExec
    BY <1>0, <1>11 DEF InstallExec, ProgressInv, Attaching, InPlace
  <1>12. ASSUME NEW target \in {Settings, WorkspaceAgents}, Write(target, Content(NoArchive, target)),
                UNCHANGED attachVars, Attaching, pc \in {"settings", "agents"}
         PROVE  /\ \A k \in 1..Len(attached') :
                     /\ attached'[k] = Targets(opened'[k])
                     /\ \A path \in attached'[k] : path \in DOMAIN disk' /\ disk'[path].of = opened'[k]
                /\ DOMAIN disk' = DOMAIN disk \cup {target}
    <2>1. ASSUME NEW k \in 1..Len(attached), NEW path \in attached[k]
          PROVE  path \in DOMAIN disk' /\ disk'[path].of = opened[k]
      <3>1. path # target
        BY <1>12, AttachedApart
      <3>2. InPlace(path, opened[k])
        BY <1>0, <1>12 DEF ProgressInv
      <3> QED BY <1>12, <3>1, <3>2, WriteKeeps
    <2> QED BY <1>0, <1>12, <2>1, WriteKeeps DEF ProgressInv
  <1>13. CASE InstallSettings
    <2>1. Attaching /\ pc \in {"settings", "agents"}
      BY <1>13 DEF InstallSettings, Attaching
    <2> QED BY <1>0, <1>12, <1>13, <2>1 DEF InstallSettings, ProgressInv, InPlace
  <1>14. CASE InstallAgents
    <2>1. Attaching /\ pc \in {"settings", "agents"}
      BY <1>14 DEF InstallAgents, Attaching
    <2> QED BY <1>0, <1>12, <1>14, <2>1 DEF InstallAgents, ProgressInv, InPlace
  <1> QED BY <1>1, <1>4, <1>5, <1>6, <1>7, <1>8, <1>9, <1>10, <1>11, <1>13, <1>14, CatalogOrInstall DEF Install

----------------------------------------------------------------------------
(* The theorems                                                            *)

\* The invariant holds of an install that has not begun.
LEMMA AttachInit ==
  ASSUME Init
  PROVE  AttachInv
  <1>1. refs = <<>> /\ opened = <<>> /\ attached = <<>> /\ DOMAIN disk = {} /\ pc = "new" /\ placed = {}
    BY DEF Init
  <1>2. Len(refs) = 0 /\ Len(opened) = 0
    BY <1>1
  <1>3. AttachTypes
    BY DEF Init, AttachTypes
  <1>4. OpenInv /\ ProgressInv /\ FilesKnown
    BY <1>1, <1>2 DEF OpenInv, ProgressInv, FilesKnown, Attaching
  <1> QED BY <1>3, <1>4 DEF AttachInv

\* Every step keeps it.
LEMMA AttachStep == AttachInv /\ [Next]_vars => AttachInv'
  BY AttachTypesStep, OpenInvStep, FilesKnownStep, ProgressStep DEF AttachInv

\* It holds throughout.
LEMMA AttachInvariant == Spec => []AttachInv
  BY AttachInit, AttachStep, PTL DEF Spec

\* The readers are the snapshot, and their directories are the places.
LEMMA ReadersAreSnapshot ==
  ASSUME AttachInv, Sound
  PROVE  /\ DOMAIN refs = 1..Len(opened)
         /\ \A k \in DOMAIN refs :
              /\ refs[k].hash \in Archives /\ opened[k] = refs[k].hash /\ Opens(refs[k].hash)
              /\ PluginDirectory(refs[k].hash)
                   = << <<".claude">>, <<"plugins">>, Sanitize(refs[k].hash.manifest.name) >>
  <1>1. AttachTypes /\ DOMAIN refs = 1..Len(refs) /\ Len(refs) = Len(opened)
    BY DEF AttachInv, AttachTypes, Sound
  <1>2. \A k \in DOMAIN refs : opened[k] = refs[k].hash /\ Opens(refs[k].hash) /\ PluginDirectory(refs[k].hash) # <<>>
    BY <1>1 DEF AttachInv, OpenInv, Sound
  <1> QED BY <1>1, <1>2, AtPlace, DirectoryOf

\* An install that reports success has left exactly the files of the snapshot's
\* plugins, each in its plugin's directory, and the two of the specification, and
\* has recorded their paths; and at no time, in no failed install either, is there
\* a file in the directory that is not one of these: whatever is uploaded over the
\* plugins or deleted while resolveAttachedPlugins and attachPlugins run.
THEOREM InstalledDirectoryIsSnapshot == Spec => []DirectoryIsSnapshot
  <1>1. AttachInv => DirectoryIsSnapshot
    <2> SUFFICES ASSUME AttachInv
                 PROVE  DirectoryIsSnapshot
      OBVIOUS
    <2>1. ASSUME pc = "done"
          PROVE  {Settings, WorkspaceAgents} \subseteq DOMAIN disk
      BY <2>1 DEF AttachInv, ProgressInv, Attaching
    <2>2. ASSUME pc = "done", NEW k \in DOMAIN refs, TreeShaped(refs[k].hash)
          PROVE  /\ attached[k] = {Place(k, f) : f \in FileSet(refs[k].hash)}
                 /\ \A path \in attached[k] : path \in DOMAIN disk /\ disk[path].of = refs[k].hash
      <3>1. Attaching /\ Sound
        BY <2>2 DEF AttachInv, OpenInv, Attaching
      <3>2. k \in 1..Len(attached) /\ opened[k] = refs[k].hash
        BY <2>2, <3>1, ReadersAreSnapshot DEF AttachInv, ProgressInv
      <3>3. /\ attached[k] = Targets(refs[k].hash)
            /\ \A path \in attached[k] : path \in DOMAIN disk /\ disk[path].of = refs[k].hash
        BY <2>2, <3>1, <3>2 DEF AttachInv, ProgressInv, InPlace
      <3>4. Walked(refs[k].hash) = FileSet(refs[k].hash)
        BY <2>2 DEF Walked, TreeShaped
      <3>5. \A f : MapPath(refs[k].hash, f) = Place(k, f)
        BY <2>2, <3>1, ReadersAreSnapshot DEF MapPath, Place
      <3> QED BY <3>3, <3>4, <3>5 DEF Targets
    <2> QED BY <2>1, <2>2 DEF DirectoryIsSnapshot, AttachInv, FilesKnown
  <1> QED BY <1>1, AttachInvariant, PTL

\* Of plugins two of which would share a directory, or one of which is not what the
\* snapshot says or does not open, attachPlugins writes not a single file: the
\* comparison of PluginDirectoryKey and of the content hashes comes before the
\* first PutFile, for all of them.
THEOREM PluginsAreCheckedFirst == Spec => []NothingWrittenUnlessSound
  <1>1. AttachInv => NothingWrittenUnlessSound
    <2> SUFFICES ASSUME AttachInv, DOMAIN disk # {}
                 PROVE  /\ \A i, j \in DOMAIN refs : i # j => Place(i, <<>>) # Place(j, <<>>)
                        /\ \A k \in DOMAIN refs : Opens(refs[k].hash) /\ opened[k] = refs[k].hash
      BY DEF NothingWrittenUnlessSound
    <2>1. Sound
      BY DEF AttachInv, OpenInv
    <2>2. \A k \in DOMAIN refs : Place(k, <<>>) = PluginDirectory(opened[k])
      BY <2>1, ReadersAreSnapshot, DirectoryPath DEF Place
    <2>3. \A i, j \in DOMAIN refs : i # j => PluginDirectory(opened[i]) # PluginDirectory(opened[j])
      BY <2>1, ReadersAreSnapshot DEF Sound
    <2> QED BY <2>1, <2>2, <2>3, ReadersAreSnapshot
  <1> QED BY <1>1, AttachInvariant, PTL

----------------------------------------------------------------------------
(* The limit on what an archive expands to.  Induction comes from the      *)
(* well-foundedness of < on Nat.                                           *)

\* A set of numbers that is not empty has a least one.
LEMMA Least ==
  ASSUME NEW T \in SUBSET Nat, T # {}
  PROVE  \E m \in T : \A k \in T : m <= k
  <1> DEFINE R == OpToRel(<, Nat)
  <1>1. IsWellFoundedOn(R, Nat)
    BY NatLessThanWellFounded
  <1>2. \A x, y \in Nat : x < y => <<x, y>> \in R
    BY Zenon DEF OpToRel
  <1> HIDE DEF R
  <1>3. PICK m \in T : \A y \in T : ~(<<y, m>> \in R)
    BY <1>1, WFMin
  <1>4. \A k \in T : ~(k < m)
    BY <1>2, <1>3
  <1> QED BY <1>4

\* A set that has 0, and n + 1 with every n, has every number.
LEMMA Induct ==
  ASSUME NEW S, 0 \in S, \A n \in Nat : n \in S => n + 1 \in S
  PROVE  \A n \in Nat : n \in S
  <1> DEFINE T == {n \in Nat : n \notin S}
  <1>1. SUFFICES ASSUME T # {} PROVE FALSE
    OBVIOUS
  <1>2. PICK m \in T : \A k \in T : m <= k
    BY <1>1, Least
  <1>3. m # 0 /\ m \in Nat /\ m - 1 \in Nat /\ m - 1 \notin T
    BY <1>2
  <1>4. m - 1 \in S
    BY <1>3
  <1>5. (m - 1) + 1 = m
    BY <1>3
  <1> QED BY <1>3, <1>4, <1>5

\* The bytes an entry adds.
FileBytes(entry) == IF entry.kind = "file" THEN entry.size ELSE 0

\* The recursive function in the definition of TotalExpanded exists.
LEMMA TotalExists ==
  ASSUME NEW s
  PROVE  \A n \in Nat : \E f : f = [k \in 0..n |-> IF k = 0 THEN 0 ELSE f[k-1] + FileBytes(s[k])]
  <1> DEFINE S == {n \in Nat : \E f : f = [k \in 0..n |-> IF k = 0 THEN 0 ELSE f[k-1] + FileBytes(s[k])]}
  <1>1. 0 \in S
    <2> DEFINE f == [k \in 0..0 |-> 0]
    <2>1. f = [k \in 0..0 |-> IF k = 0 THEN 0 ELSE f[k-1] + FileBytes(s[k])]
      OBVIOUS
    <2> QED BY <2>1
  <1>2. ASSUME NEW n \in Nat, n \in S
        PROVE  n + 1 \in S
    <2>1. PICK f : f = [k \in 0..n |-> IF k = 0 THEN 0 ELSE f[k-1] + FileBytes(s[k])]
      BY <1>2
    <2> DEFINE g == [k \in 0..(n + 1) |-> IF k = n + 1 THEN f[k-1] + FileBytes(s[k]) ELSE f[k]]
    <2>2. \A k \in 0..(n + 1) : k # 0 => g[k - 1] = f[k - 1]
      OBVIOUS
    <2>3. \A k \in 0..n : f[k] = IF k = 0 THEN 0 ELSE f[k-1] + FileBytes(s[k])
      BY <2>1
    <2>4. \A k \in 0..(n + 1) : g[k] = IF k = 0 THEN 0 ELSE g[k-1] + FileBytes(s[k])
      BY <2>2, <2>3
    <2>5. g = [k \in 0..(n + 1) |-> g[k]]
      OBVIOUS
    <2>6. g = [k \in 0..(n + 1) |-> IF k = 0 THEN 0 ELSE g[k-1] + FileBytes(s[k])]
      <3> HIDE DEF g
      <3> QED BY <2>4, <2>5
    <2> HIDE DEF g
    <2>7. \E h : h = [k \in 0..(n + 1) |-> IF k = 0 THEN 0 ELSE h[k-1] + FileBytes(s[k])]
      BY <2>6, Zenon
    <2>8. n + 1 \in Nat
      OBVIOUS
    <2> QED BY <2>7, <2>8, Zenon
  <1> HIDE DEF S
  <1>3. \A n \in Nat : n \in S
    BY <1>1, <1>2, Induct
  <1> QED BY <1>3 DEF S

\* It adds the entries up one by one.
LEMMA TotalStep ==
  ASSUME NEW s \in Seq(Entries)
  PROVE  /\ TotalExpanded(s)[0] = 0
         /\ \A k \in 1..Len(s) : TotalExpanded(s)[k] = TotalExpanded(s)[k - 1] + FileBytes(s[k])
  <1> DEFINE F(f) == [k \in 0..Len(s) |-> IF k = 0 THEN 0 ELSE f[k-1] + FileBytes(s[k])]
             T == CHOOSE f : f = F(f)
  <1>1. TotalExpanded(s) = T
    BY DEF TotalExpanded, FileBytes
  <1>2. Len(s) \in Nat
    OBVIOUS
  <1>3. \E f : f = F(f)
    BY <1>2, TotalExists, Zenon
  <1>4. T = F(T)
    <2> HIDE DEF F
    <2> QED BY <1>3, Zenon
  <1> HIDE DEF T
  <1>5. T[0] = 0 /\ \A k \in 1..Len(s) : T[k] = T[k - 1] + FileBytes(s[k])
    BY <1>2, <1>4
  <1> QED BY <1>1, <1>5

\* The budget bounds the sum, although it is compared with one file at a time.
LEMMA FitsInLimit ==
  ASSUME NEW a \in Archives, Fits(a)
  PROVE  TotalExpanded(a.entries)[Len(a.entries)] <= MaxExpanded
  <1>1. PICK s \in Seq(Entries) : s = a.entries
    BY AttachAssumption
  <1>2. PICK T : T = TotalExpanded(s)
    OBVIOUS
  <1>3. T[0] = 0 /\ \A k \in 1..Len(s) : T[k] = T[k - 1] + FileBytes(s[k])
    BY <1>2, TotalStep
  <1>4. \A k \in 1..Len(s) : s[k].kind = "file" => s[k].size <= MaxExpanded - T[k - 1]
    <2>1. DOMAIN s = 1..Len(s)
      OBVIOUS
    <2>2. \A k \in DOMAIN a.entries : a.entries[k].kind = "file" =>
             a.entries[k].size <= MaxExpanded - TotalExpanded(a.entries)[k - 1]
      BY Zenon DEF Fits
    <2> QED BY <1>1, <1>2, <2>1, <2>2, Zenon
  <1>5. \A k \in 1..Len(s) : FileBytes(s[k]) \in Nat /\ (s[k].kind # "file" => FileBytes(s[k]) = 0)
                              /\ (s[k].kind = "file" => FileBytes(s[k]) = s[k].size)
    <2>1. \A k \in 1..Len(s) : s[k] \in Entries
      OBVIOUS
    <2> QED BY <2>1 DEF Entries, FileBytes
  <1> DEFINE S == {k \in Nat : k \in 0..Len(s) => T[k] \in Nat /\ T[k] <= MaxExpanded}
  <1>6. 0 \in S
    BY <1>3, AttachAssumption
  <1>7. ASSUME NEW k \in Nat, k \in S
        PROVE  k + 1 \in S
    <2> SUFFICES ASSUME k + 1 \in 0..Len(s)
                 PROVE  T[k + 1] \in Nat /\ T[k + 1] <= MaxExpanded
      OBVIOUS
    <2>1. k + 1 \in 1..Len(s) /\ k \in 0..Len(s) /\ (k + 1) - 1 = k
      OBVIOUS
    <2>2. T[k] \in Nat /\ T[k] <= MaxExpanded
      BY <1>7, <2>1
    <2>3. T[k + 1] = T[k] + FileBytes(s[k + 1])
      BY <1>3, <2>1
    <2>4. FileBytes(s[k + 1]) \in Nat /\ (FileBytes(s[k + 1]) = 0 \/ FileBytes(s[k + 1]) <= MaxExpanded - T[k])
      BY <1>4, <1>5, <2>1
    <2>5. \A x, y, z \in Nat : x <= z /\ (y = 0 \/ y <= z - x) => x + y \in Nat /\ x + y <= z
      OBVIOUS
    <2>6. MaxExpanded \in Nat
      BY AttachAssumption
    <2> QED BY <2>2, <2>3, <2>4, <2>5, <2>6
  <1> HIDE DEF S
  <1>8. \A k \in Nat : k \in S
    BY <1>6, <1>7, Induct
  <1>9. Len(s) \in Nat /\ Len(s) \in 0..Len(s)
    OBVIOUS
  <1> QED BY <1>1, <1>2, <1>8, <1>9 DEF S

\* What is stored or listed has been opened.
CatalogOpens == \A p \in Plugins : /\ rows[p] # NoArchive => rows[p] \in Archives /\ Opens(rows[p])
                                   /\ blobs[p] # NoArchive => blobs[p] \in Archives /\ Opens(blobs[p])

LEMMA CatalogOpensStep ==
  ASSUME AttachTypes, CatalogOpens, [Next]_vars
  PROVE  CatalogOpens'
  <1> USE DEF catalogVars, AttachTypes
  <1>1. ASSUME NEW p \in Plugins, NEW archive \in Archives, UploadPut(p, archive)
        PROVE  CatalogOpens'
    <2>1. /\ Opens(archive) /\ UNCHANGED rows
          /\ \A q \in Plugins : blobs'[q] = IF q = p THEN archive ELSE blobs[q]
      BY <1>1 DEF UploadPut
    <2> QED BY <2>1 DEF CatalogOpens, Opens, Fits, FileSet, ManifestPathsExist
  <1>2. ASSUME NEW p \in Plugins, UploadCommit(p) \/ UploadRollback(p) \/ DeletePluginRow(p) \/ DeletePluginBlob(p)
        PROVE  CatalogOpens'
    <2>1. \A q \in Plugins : /\ rows'[q] \in {rows[q], blobs[q], NoArchive}
                              /\ blobs'[q] \in {rows[q], blobs[q], NoArchive}
      BY <1>2 DEF UploadCommit, UploadRollback, DeletePluginRow, DeletePluginBlob
    <2> QED BY <2>1 DEF CatalogOpens
  <1>3. ASSUME UNCHANGED <<rows, blobs>>
        PROVE  CatalogOpens'
    BY <1>3 DEF CatalogOpens
  <1>4. CASE Install \/ \E n \in 0..Cardinality(Plugins) : \E ids \in [1..n -> Plugins] : CreateWorkspace(ids)
    BY <1>3, <1>4 DEF Install, Resolve, Open, CheckDirectories, ApplyPlan, ApplyPut, ApplyDone,
              InstallExec, InstallSettings, InstallAgents, Fail, CreateWorkspace
  <1>5. CASE Through \/ UNCHANGED vars
    BY <1>3, <1>5 DEF Through, vars
  <1> QED BY <1>1, <1>2, <1>4, <1>5 DEF Next

\* openFromZip hands each file the rest of the budget and only ever compares one file
\* with it; still no blob that an upload stores, that a failed upload puts back or
\* that is left by a rollback expands to more than the limit in all.
THEOREM BlobsWithinLimit == Spec => []ExpandedWithinLimit
  <1>1. Init => CatalogOpens
    BY DEF Init, CatalogOpens
  <1>2. AttachInv /\ CatalogOpens /\ [Next]_vars => CatalogOpens'
    BY CatalogOpensStep DEF AttachInv
  <1>3. CatalogOpens => ExpandedWithinLimit
    <2> SUFFICES ASSUME CatalogOpens, NEW p \in Plugins, blobs[p] # NoArchive
                 PROVE  TotalExpanded(blobs[p].entries)[Len(blobs[p].entries)] <= MaxExpanded
      BY DEF ExpandedWithinLimit
    <2>1. PICK a \in Archives : a = blobs[p] /\ Fits(a)
      BY DEF CatalogOpens, Opens
    <2> QED BY <2>1, FitsInLimit
  <1> QED BY <1>1, <1>2, <1>3, AttachInvariant, PTL DEF Spec
=============================================================================
