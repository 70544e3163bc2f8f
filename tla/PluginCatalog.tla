---------------------------- MODULE PluginCatalog ----------------------------
(***************************************************************************)
(* Plugins: the metadata repository, the blob storage and the manager's    *)
(* CreatePlugin and DeletePlugin over the two.  Each repository or storage *)
(* call runs under its own mutex and is one step; the manager holds no     *)
(* lock across its calls, so two uploads of one name, or an upload and a   *)
(* delete, interleave between them.                                        *)
(*                                                                         *)
(* Each upload brings a body of its own and the generator gives it a fresh *)
(* id, so the upload stands for both: blobs[i] = u says that the body of   *)
(* upload u is stored under the id handed to upload i, and a content hash  *)
(* is the upload whose body it is the hash of.                             *)
(***************************************************************************)
CONSTANTS
  Uploads,        \* CreatePlugin calls
  Removals,       \* DeletePlugin calls
  PluginNames,    \* (namespace, name) pairs
  NoPlugin,       \* absence of a row, an id or a blob
  Flaky,          \* a repository write may fail for a reason of its own
  MayClose        \* Stop's context expires: it closes under running calls

ASSUME CatalogAssumption ==
  /\ NoPlugin \notin Uploads \cup [name : PluginNames, hash : Uploads]
  /\ {Flaky, MayClose} \subseteq BOOLEAN

VARIABLES
  byID, idByNameKey,   \* PluginRepository
  blobs,               \* PluginStorage
  closed,              \* both were closed by Stop
  upc, uname,          \* per upload: control point and the name in its manifest
  uid,                 \* the id it stores under
  uold,                \* the previous body, read before an overwrite
  rpc, rid,            \* per removal: control point and the id it removes
  contended            \* observation: names on which two calls overlapped

repoVars == <<byID, idByNameKey>>
uploadVars == <<upc, uname, uid, uold>>
removalVars == <<rpc, rid>>
vars == <<repoVars, blobs, closed, uploadVars, removalVars, contended>>

PluginRows == [name : PluginNames, hash : Uploads]

UploadPoints == {"idle", "lookup", "readold", "put", "insert", "update", "undo", "restore", "done"}

(* Type invariant.  A row is stored with its name and its content hash.    *)
TypeOK ==
  /\ byID \in [Uploads -> PluginRows \cup {NoPlugin}]
  /\ idByNameKey \in [PluginNames -> Uploads \cup {NoPlugin}]
  /\ blobs \in [Uploads -> Uploads \cup {NoPlugin}]
  /\ closed \in BOOLEAN
  /\ upc \in [Uploads -> UploadPoints]
  /\ uname \in [Uploads -> PluginNames]
  /\ uid \in [Uploads -> Uploads]
  /\ uold \in [Uploads -> Uploads \cup {NoPlugin}]
  /\ rpc \in [Removals -> {"idle", "row", "blob", "done"}]
  /\ rid \in [Removals -> Uploads \cup {NoPlugin}]
  /\ contended \subseteq PluginNames

Init ==
  /\ byID = [i \in Uploads |-> NoPlugin]
  /\ idByNameKey = [n \in PluginNames |-> NoPlugin]
  /\ blobs = [i \in Uploads |-> NoPlugin]
  /\ closed = FALSE
  /\ upc = [u \in Uploads |-> "idle"]
  /\ uname \in [Uploads -> PluginNames]
  /\ uid = [u \in Uploads |-> u]
  /\ uold = [u \in Uploads |-> NoPlugin]
  /\ rpc = [r \in Removals |-> "idle"]
  /\ rid = [r \in Removals |-> NoPlugin]
  /\ contended = {}

-----------------------------------------------------------------------------
(* PluginRepository and PluginStorage                                      *)

Stored(i) == byID[i] # NoPlugin

RowOf(u) == [name |-> uname[u], hash |-> u]

InsertOK(u) == ~closed /\ ~Stored(uid[u]) /\ idByNameKey[uname[u]] = NoPlugin

UpdateOK(u) ==
  /\ ~closed
  /\ Stored(uid[u])
  /\ idByNameKey[uname[u]] \in {NoPlugin, uid[u]}

(* Insert, and Update, which re-indexes the row under its name.            *)
WriteRow(u) ==
  /\ byID' = [byID EXCEPT ![uid[u]] = RowOf(u)]
  /\ idByNameKey' = [idByNameKey EXCEPT ![uname[u]] = uid[u]]

DeleteRow(i) ==
  /\ byID' = [byID EXCEPT ![i] = NoPlugin]
  /\ idByNameKey' = [idByNameKey EXCEPT ![byID[i].name] = NoPlugin]

Put(i, body) == blobs' = IF closed THEN blobs ELSE [blobs EXCEPT ![i] = body]

DeleteBlob(i) == blobs' = IF closed THEN blobs ELSE [blobs EXCEPT ![i] = NoPlugin]

-----------------------------------------------------------------------------
(* Manager.CreatePlugin                                                    *)

Goto(u, point) == upc' = [upc EXCEPT ![u] = point]

Finished ==
  /\ \A u \in Uploads : upc[u] \in {"idle", "done"}
  /\ \A r \in Removals : rpc[r] \in {"idle", "done"}

(* A call that concerns name n is under way.  An id keeps the name of the  *)
(* upload it was made for: an overwrite has the same name.                 *)
Busy(n) ==
  \/ \E u \in Uploads : upc[u] \notin {"idle", "done"} /\ uname[u] = n
  \/ \E r \in Removals : rpc[r] \notin {"idle", "done"} /\ uname[rid[r]] = n

(* A call on n begins.                                                     *)
Observe(n) == contended' = IF Busy(n) THEN contended \cup {n} ELSE contended

(* beginOp, and everything up to the repository: body, manifest, name.     *)
UploadBegin(u) ==
  /\ upc[u] = "idle"
  /\ ~closed
  /\ Goto(u, "lookup")
  /\ Observe(uname[u])
  /\ UNCHANGED <<repoVars, blobs, closed, uname, uid, uold, removalVars>>

(* GetByName decides between a fresh upload and an overwrite.              *)
UploadLookup(u) ==
  /\ upc[u] = "lookup"
  /\ IF closed THEN Goto(u, "done") /\ UNCHANGED uid
     ELSE LET i == idByNameKey[uname[u]]
          IN IF i = NoPlugin
             THEN Goto(u, "put") /\ UNCHANGED uid
             ELSE Goto(u, "readold") /\ uid' = [uid EXCEPT ![u] = i]
  /\ UNCHANGED <<repoVars, blobs, closed, uname, uold, removalVars, contended>>

UploadReadOld(u) ==
  /\ upc[u] = "readold"
  /\ IF closed \/ blobs[uid[u]] = NoPlugin
     THEN Goto(u, "done") /\ UNCHANGED uold
     ELSE Goto(u, "put") /\ uold' = [uold EXCEPT ![u] = blobs[uid[u]]]
  /\ UNCHANGED <<repoVars, blobs, closed, uname, uid, removalVars, contended>>

UploadPut(u) ==
  /\ upc[u] = "put"
  /\ Put(uid[u], u)
  /\ Goto(u, IF closed THEN "done" ELSE IF uold[u] = NoPlugin THEN "insert" ELSE "update")
  /\ UNCHANGED <<repoVars, closed, uname, uid, uold, removalVars, contended>>

(* The metadata write is the commit point; a failure is compensated.       *)
UploadInsert(u) ==
  /\ upc[u] = "insert"
  /\ \/ InsertOK(u) /\ WriteRow(u) /\ Goto(u, "done")
     \/ (~InsertOK(u) \/ Flaky) /\ UNCHANGED repoVars /\ Goto(u, "undo")
  /\ UNCHANGED <<blobs, closed, uname, uid, uold, removalVars, contended>>

UploadUpdate(u) ==
  /\ upc[u] = "update"
  /\ \/ UpdateOK(u) /\ WriteRow(u) /\ Goto(u, "done")
     \/ (~UpdateOK(u) \/ Flaky) /\ UNCHANGED repoVars /\ Goto(u, "restore")
  /\ UNCHANGED <<blobs, closed, uname, uid, uold, removalVars, contended>>

(* Best-effort delete of a fresh blob whose row was refused.               *)
UploadUndo(u) ==
  /\ upc[u] = "undo"
  /\ DeleteBlob(uid[u])
  /\ Goto(u, "done")
  /\ UNCHANGED <<repoVars, closed, uname, uid, uold, removalVars, contended>>

(* A faulty variant: the new body is put back instead of the old.          *)
RestoreOwn(u) ==
  /\ upc[u] = "restore"
  /\ Put(uid[u], u)
  /\ Goto(u, "done")
  /\ UNCHANGED <<repoVars, closed, uname, uid, uold, removalVars, contended>>

(* restorePluginBlob puts the previous body back.                          *)
UploadRestore(u) ==
  /\ upc[u] = "restore"
  /\ Put(uid[u], uold[u])
  /\ Goto(u, "done")
  /\ UNCHANGED <<repoVars, closed, uname, uid, uold, removalVars, contended>>

Upload(u) ==
  \/ UploadBegin(u) \/ UploadLookup(u) \/ UploadReadOld(u) \/ UploadPut(u)
  \/ UploadInsert(u) \/ UploadUpdate(u) \/ UploadUndo(u) \/ UploadRestore(u)

-----------------------------------------------------------------------------
(* Manager.DeletePlugin: the row first, then the blob                      *)

RemovalBegin(r, i) ==
  /\ rpc[r] = "idle"
  /\ ~closed
  /\ IF Stored(i)
     THEN /\ rpc' = [rpc EXCEPT ![r] = "row"]
          /\ rid' = [rid EXCEPT ![r] = i]
          /\ Observe(uname[i])
     ELSE rpc' = [rpc EXCEPT ![r] = "done"] /\ UNCHANGED <<rid, contended>>
  /\ UNCHANGED <<repoVars, blobs, closed, uploadVars>>

RemoveRow(r) ==
  /\ rpc[r] = "row"
  /\ \/ /\ ~closed /\ Stored(rid[r])
        /\ DeleteRow(rid[r])
        /\ rpc' = [rpc EXCEPT ![r] = "blob"]
     \/ /\ closed \/ ~Stored(rid[r]) \/ Flaky
        /\ UNCHANGED repoVars
        /\ rpc' = [rpc EXCEPT ![r] = "done"]
  /\ UNCHANGED <<blobs, closed, uploadVars, rid, contended>>

(* A faulty variant: the blob goes while the row is still there.           *)
RemoveBlobFirst(r) ==
  /\ rpc[r] \in {"row", "blob"}
  /\ DeleteBlob(rid[r])
  /\ rpc' = [rpc EXCEPT ![r] = IF rpc[r] = "blob" THEN "done" ELSE "row"]
  /\ UNCHANGED <<repoVars, closed, uploadVars, rid, contended>>

RemoveBlob(r) ==
  /\ rpc[r] = "blob"
  /\ DeleteBlob(rid[r])
  /\ rpc' = [rpc EXCEPT ![r] = "done"]
  /\ UNCHANGED <<repoVars, closed, uploadVars, rid, contended>>

(* Stop closes the repository and the storage under the calls it could     *)
(* not wait for.                                                           *)
Close ==
  /\ MayClose
  /\ ~closed
  /\ closed' = TRUE
  /\ UNCHANGED <<repoVars, blobs, uploadVars, removalVars, contended>>

Terminated ==
  /\ Finished
  /\ closed \/ /\ \A u \in Uploads : upc[u] = "done"
               /\ \A r \in Removals : rpc[r] = "done"
  /\ UNCHANGED vars

Next ==
  \/ \E u \in Uploads : Upload(u)
  \/ \E r \in Removals : RemoveRow(r) \/ RemoveBlob(r) \/ \E i \in Uploads : RemovalBegin(r, i)
  \/ Close
  \/ Terminated

Spec == Init /\ [][Next]_vars

-----------------------------------------------------------------------------
(* There is never queryable metadata without bytes: whatever uploads,      *)
(* removals and failures are under way, a name leads to its row and a row  *)
(* to its blob, and every row is found by its name.  It rests on the order *)
(* of the writes on all four paths of the two calls.                       *)
CatalogComplete ==
  /\ \A n \in PluginNames : idByNameKey[n] # NoPlugin =>
       Stored(idByNameKey[n]) /\ byID[idByNameKey[n]].name = n
  /\ \A i \in Uploads : Stored(i) => idByNameKey[byID[i].name] = i /\ blobs[i] # NoPlugin

(* A plugin whose calls never overlapped is whole whenever none of them is *)
(* under way, whatever calls on other plugins do and whichever metadata    *)
(* write failed: its row has the content hash of its blob, so that         *)
(* attachPlugins accepts it, and without a row no blob is left behind.     *)
UncontendedPluginIntact ==
  ~closed => \A i \in Uploads : uname[i] \notin contended /\ ~Busy(uname[i]) =>
    blobs[i] = IF Stored(i) THEN byID[i].hash ELSE NoPlugin

(* "overwrites the row and the content (atomic at the manager level)": no  *)
(* matter which uploads overlapped, in the end a row and its blob come     *)
(* from the same upload.                                                   *)
OverwriteIsAtomic ==
  ~closed => \A i \in Uploads : Stored(i) /\ ~Busy(uname[i]) => blobs[i] = byID[i].hash

(* "removes the zip from the backend": a plugin without a row has no blob. *)
NoOrphanBlob ==
  ~closed => \A i \in Uploads : ~Stored(i) /\ ~Busy(uname[i]) => blobs[i] = NoPlugin

=============================================================================
