------------------------ MODULE PluginCatalog_proofs ------------------------
(***************************************************************************)
(* The plugin catalog, for any number of uploads, removals and names: no   *)
(* metadata without bytes, whatever overlaps; and row and blob of the same *)
(* upload for a plugin whose calls did not overlap.                        *)
(***************************************************************************)
EXTENDS PluginCatalog, TLAPS

(* Which ids the calls work on.  An upload writes under its own id until   *)
(* it finds the name taken, and then under that of an upload that is over; *)
(* an upload's own id gets a row only at its end.                          *)
UploadInv ==
  \A u \in Uploads :
    /\ uname[uid[u]] = uname[u]
    /\ uid[u] # u => upc[uid[u]] = "done"
    /\ upc[u] \in {"idle", "lookup", "insert", "undo"} => uid[u] = u
    /\ upc[u] = "put" /\ uold[u] = NoPlugin => uid[u] = u
    /\ upc[u] \in {"idle", "lookup", "readold"} => uold[u] = NoPlugin
    /\ upc[u] \in {"update", "restore"} => uold[u] # NoPlugin
    /\ upc[u] \in {"insert", "undo"} => blobs[u] = u
    /\ Stored(u) => upc[u] = "done" /\ byID[u].name = uname[u]

(* A removal takes the blob of a row that is gone for good.                *)
RemovalInv ==
  \A r \in Removals :
    /\ rpc[r] \in {"row", "blob"} => rid[r] \in Uploads /\ upc[rid[r]] = "done"
    /\ rpc[r] = "blob" => ~Stored(rid[r])

\* The call is under way.
UploadActive(u) == upc[u] \notin {"idle", "done"}

\* The call is under way.
RemovalActive(r) == rpc[r] \notin {"idle", "done"}

(* On a name that is not contended there is one call at a time.            *)
Alone ==
  /\ \A u, v \in Uploads : UploadActive(u) /\ UploadActive(v) /\ uname[u] = uname[v] =>
       u = v \/ uname[u] \in contended
  /\ \A u \in Uploads, r \in Removals : UploadActive(u) /\ RemovalActive(r) /\ uname[u] = uname[rid[r]] =>
       uname[u] \in contended
  /\ \A r, s \in Removals : RemovalActive(r) /\ RemovalActive(s) /\ uname[rid[r]] = uname[rid[s]] =>
       r = s \/ uname[rid[r]] \in contended

(* The blob a whole plugin has, and who may be about to change it.         *)
Want(i) == IF Stored(i) THEN byID[i].hash ELSE NoPlugin

\* Some call has written one half of the plugin and not the other.
Touched(i) ==
  \/ upc[i] \in {"insert", "undo"}
  \/ \E u \in Uploads : upc[u] \in {"update", "restore"} /\ uid[u] = i
  \/ \E r \in Removals : rpc[r] = "blob" /\ rid[r] = i

(* What a call on an uncontended name knows, and what it left behind.      *)
WholeInv ==
  ~closed =>
    /\ \A i \in Uploads : uname[i] \notin contended => Touched(i) \/ blobs[i] = Want(i)
    /\ \A u \in Uploads : uname[u] \notin contended =>
         /\ upc[u] = "readold" => Stored(uid[u])
         /\ upc[u] = "put" /\ uold[u] # NoPlugin => Stored(uid[u]) /\ uold[u] = byID[uid[u]].hash
         /\ upc[u] \in {"update", "restore"} =>
              Stored(uid[u]) /\ uold[u] = byID[uid[u]].hash /\ blobs[uid[u]] = u

-----------------------------------------------------------------------------
\* Every step keeps the types.
LEMMA CatalogTypeStep ==
  ASSUME TypeOK, UploadInv, RemovalInv, [Next]_vars
  PROVE  TypeOK'
  <1> USE DEF TypeOK, repoVars, uploadVars, removalVars, UploadPoints, Goto
  <1>1. ASSUME NEW u \in Uploads, Upload(u)
        PROVE  TypeOK'
    <2>1. CASE UploadBegin(u)
      BY <2>1 DEF UploadBegin, Observe
    <2>2. CASE UploadLookup(u) \/ UploadReadOld(u)
      BY <2>2 DEF UploadLookup, UploadReadOld
    <2>3. CASE UploadPut(u) \/ UploadUndo(u) \/ UploadRestore(u)
      BY <2>3 DEF UploadPut, UploadUndo, UploadRestore, Put, DeleteBlob
    <2>4. CASE UploadInsert(u) \/ UploadUpdate(u)
      <3>1. RowOf(u) \in PluginRows
        BY DEF RowOf, PluginRows
      <3> QED BY <2>4, <3>1 DEF UploadInsert, UploadUpdate, WriteRow
    <2> QED BY <1>1, <2>1, <2>2, <2>3, <2>4 DEF Upload
  <1>2. ASSUME NEW r \in Removals, NEW i \in Uploads, RemovalBegin(r, i)
        PROVE  TypeOK'
    BY <1>2 DEF RemovalBegin, Observe
  <1>3. ASSUME NEW r \in Removals, RemoveRow(r)
        PROVE  TypeOK'
    <2>1. rid[r] \in Uploads
      BY <1>3 DEF RemoveRow, RemovalInv
    <2> QED BY <1>3, <2>1 DEF RemoveRow, DeleteRow, Stored, PluginRows
  <1>4. ASSUME NEW r \in Removals, RemoveBlob(r)
        PROVE  TypeOK'
    BY <1>4 DEF RemoveBlob, DeleteBlob
  <1>5. CASE Close \/ Terminated \/ UNCHANGED vars
    BY <1>5 DEF Close, Terminated, vars
  <1> QED BY <1>1, <1>2, <1>3, <1>4, <1>5 DEF Next

(* The name index and the rows agree, and a row has bytes.                 *)
LEMMA CompleteStep ==
  ASSUME TypeOK, UploadInv, RemovalInv, CatalogComplete, [Next]_vars
  PROVE  CatalogComplete'
  <1> USE DEF repoVars, uploadVars, removalVars
  <1>1. ASSUME UNCHANGED repoVars, \A i \in Uploads : Stored(i) /\ blobs[i] # NoPlugin => blobs'[i] # NoPlugin
        PROVE  CatalogComplete'
    BY <1>1 DEF CatalogComplete, Stored
  <1>2. ASSUME NEW i \in Uploads, ~Stored(i), DeleteBlob(i), UNCHANGED repoVars
        PROVE  CatalogComplete'
    BY <1>1, <1>2 DEF DeleteBlob, TypeOK
  <1>3. ASSUME NEW u \in Uploads, Upload(u)
        PROVE  CatalogComplete'
    <2>1. CASE UploadBegin(u) \/ UploadLookup(u) \/ UploadReadOld(u)
      BY <1>1, <2>1 DEF UploadBegin, UploadLookup, UploadReadOld
    <2>2. CASE UploadPut(u)
      BY <1>1, <2>2, CatalogAssumption DEF UploadPut, Put, TypeOK
    <2>3. CASE UploadRestore(u)
      BY <1>1, <2>3 DEF UploadRestore, Put, TypeOK, UploadInv
    <2>4. CASE UploadUndo(u)
      BY <1>2, <2>4 DEF UploadUndo, UploadInv
    <2>5. ASSUME NEW i \in Uploads, i = uid[u], WriteRow(u), blobs[i] # NoPlugin, UNCHANGED blobs,
                 idByNameKey[uname[u]] \in {NoPlugin, i}, Stored(i) => byID[i].name = uname[u]
          PROVE  CatalogComplete'
      <3>1. RowOf(u) # NoPlugin /\ RowOf(u).name = uname[u] /\ uname[u] \in PluginNames
        <4>1. RowOf(u).hash = u /\ RowOf(u).name = uname[u]
          BY DEF RowOf
        <4>2. uname[u] \in PluginNames
          BY DEF TypeOK
        <4>3. RowOf(u) # NoPlugin
          BY <4>2, CatalogAssumption DEF RowOf
        <4> QED BY <4>1, <4>2, <4>3
      <3>2. /\ byID'[i] = RowOf(u) /\ \A j \in Uploads : j # i => byID'[j] = byID[j]
            /\ idByNameKey'[uname[u]] = i
            /\ \A n \in PluginNames : n # uname[u] => idByNameKey'[n] = idByNameKey[n]
        BY <2>5, <3>1 DEF WriteRow, TypeOK
      <3>3. \A n \in PluginNames : n # uname[u] => idByNameKey[n] # i
        BY <2>5, CatalogAssumption DEF CatalogComplete
      <3>4. \A j \in Uploads : j # i /\ Stored(j) => byID[j].name # uname[u] /\ byID[j].name \in PluginNames
        <4>1. \A j \in Uploads : Stored(j) => byID[j].name \in PluginNames
          BY DEF TypeOK, PluginRows, Stored
        <4> QED BY <2>5, <4>1, CatalogAssumption DEF CatalogComplete
      <3>5. \A n \in PluginNames : idByNameKey[n] \in Uploads \cup {NoPlugin}
        BY DEF TypeOK
      <3> QED BY <2>5, <3>1, <3>2, <3>3, <3>4, <3>5 DEF CatalogComplete, Stored
    <2>6. CASE UploadInsert(u)
      <3>1. uid[u] \in Uploads /\ uid[u] = u /\ blobs[u] # NoPlugin
        BY <2>6, CatalogAssumption DEF UploadInsert, UploadInv, TypeOK
      <3>2. CASE InsertOK(u) /\ WriteRow(u)
        BY <2>5, <2>6, <3>1, <3>2 DEF UploadInsert, InsertOK
      <3>3. CASE UNCHANGED repoVars
        BY <1>1, <2>6, <3>3 DEF UploadInsert
      <3> QED BY <2>6, <3>2, <3>3 DEF UploadInsert
    <2>7. CASE UploadUpdate(u)
      <3>1. uid[u] \in Uploads
        BY DEF TypeOK
      <3>2. CASE UpdateOK(u) /\ WriteRow(u)
        <4>1. blobs[uid[u]] # NoPlugin /\ byID[uid[u]].name = uname[u]
          BY <3>1, <3>2 DEF UpdateOK, CatalogComplete, UploadInv
        <4> QED BY <2>5, <2>7, <3>1, <3>2, <4>1 DEF UploadUpdate, UpdateOK
      <3>3. CASE UNCHANGED repoVars
        BY <1>1, <2>7, <3>3 DEF UploadUpdate
      <3> QED BY <2>7, <3>2, <3>3 DEF UploadUpdate
    <2> QED BY <1>3, <2>1, <2>2, <2>3, <2>4, <2>6, <2>7 DEF Upload
  <1>4. ASSUME NEW r \in Removals, RemoveRow(r)
        PROVE  CatalogComplete'
    <2>1. PICK i \in Uploads : i = rid[r]
      BY <1>4 DEF RemoveRow, RemovalInv
    <2>2. CASE Stored(i) /\ DeleteRow(i)
      <3>1. byID[i].name \in PluginNames /\ idByNameKey[byID[i].name] = i
        BY <2>2 DEF CatalogComplete, TypeOK, Stored, PluginRows
      <3>2. /\ byID'[i] = NoPlugin /\ \A j \in Uploads : j # i => byID'[j] = byID[j]
            /\ idByNameKey'[byID[i].name] = NoPlugin
            /\ \A n \in PluginNames : n # byID[i].name => idByNameKey'[n] = idByNameKey[n]
        BY <2>2, <3>1 DEF DeleteRow, TypeOK
      <3>3. \A n \in PluginNames : idByNameKey[n] \in Uploads \cup {NoPlugin}
        BY DEF TypeOK
      <3>4. \A j \in Uploads : Stored(j) => byID[j].name \in PluginNames
        BY DEF TypeOK, Stored, PluginRows
      <3>5. UNCHANGED blobs
        BY <1>4 DEF RemoveRow
      <3> QED BY <3>1, <3>2, <3>3, <3>4, <3>5 DEF CatalogComplete, Stored
    <2>3. CASE UNCHANGED repoVars
      BY <1>1, <1>4, <2>3 DEF RemoveRow
    <2> QED BY <1>4, <2>1, <2>2, <2>3 DEF RemoveRow
  <1>5. ASSUME NEW r \in Removals, RemoveBlob(r)
        PROVE  CatalogComplete'
    BY <1>2, <1>5 DEF RemoveBlob, RemovalInv
  <1>6. ASSUME NEW r \in Removals, NEW i \in Uploads, RemovalBegin(r, i)
        PROVE  CatalogComplete'
    BY <1>1, <1>6 DEF RemovalBegin
  <1>7. CASE Close \/ Terminated \/ UNCHANGED vars
    BY <1>1, <1>7 DEF Close, Terminated, vars
  <1> QED BY <1>3, <1>4, <1>5, <1>6, <1>7 DEF Next

(* Uploads keep to their ids.  An upload that is over stays over, and an   *)
(* id whose upload is over is the only kind another call can work on.      *)
LEMMA UploadInvStep ==
  ASSUME TypeOK, UploadInv, RemovalInv, CatalogComplete, [Next]_vars
  PROVE  UploadInv'
  <1> USE DEF repoVars, uploadVars, removalVars
  <1>1. ASSUME NEW u \in Uploads, Upload(u)
        PROVE  UploadInv'
    <2>1. /\ uid \in [Uploads -> Uploads] /\ uname \in [Uploads -> PluginNames]
          /\ upc \in [Uploads -> UploadPoints] /\ uold \in [Uploads -> Uploads \cup {NoPlugin}]
          /\ blobs \in [Uploads -> Uploads \cup {NoPlugin}]
          /\ byID \in [Uploads -> PluginRows \cup {NoPlugin}]
      BY DEF TypeOK
    <2> USE <2>1 DEF Goto, Stored
    <2>2. CASE UploadBegin(u)
      BY <2>2 DEF UploadBegin, UploadInv
    <2>3. CASE UploadLookup(u)
      <3>1. CASE UNCHANGED uid
        BY <2>3, <3>1 DEF UploadLookup, UploadInv
      <3>2. CASE uid' # uid
        <4>1. PICK i \in Uploads : /\ i = idByNameKey[uname[u]] /\ uid' = [uid EXCEPT ![u] = i]
                                   /\ upc' = [upc EXCEPT ![u] = "readold"]
          BY <2>3, <3>2 DEF UploadLookup, TypeOK
        <4>2. uname[u] \in PluginNames /\ Stored(i) /\ byID[i].name = uname[u]
          BY <4>1, CatalogAssumption DEF CatalogComplete
        <4>3. upc[i] = "done" /\ uname[i] = uname[u] /\ i # u
          BY <2>3, <4>2 DEF UploadInv, UploadLookup
        <4>4. UNCHANGED <<byID, blobs, uname, uold>> /\ upc[u] = "lookup"
          BY <2>3 DEF UploadLookup
        <4>5. ASSUME NEW v \in Uploads, v # u
              PROVE  uid'[v] = uid[v] /\ upc'[v] = upc[v] /\ uid[v] # u
          BY <4>1, <4>4, <4>5 DEF UploadInv
        <4> QED BY <4>1, <4>3, <4>4, <4>5 DEF UploadInv
      <3> QED BY <3>1, <3>2
    <2>4. CASE UploadReadOld(u)
      BY <2>4 DEF UploadReadOld, UploadInv
    <2>5. CASE UploadPut(u)
      <3>1. \A v \in Uploads : v # u /\ upc[v] \in {"insert", "undo"} => uid[u] # v
        BY <2>5 DEF UploadPut, UploadInv
      <3>2. \A v \in Uploads : v # uid[u] => blobs'[v] = blobs[v]
        BY <2>5 DEF UploadPut, Put
      <3>3. upc'[u] = "insert" => uid[u] = u /\ blobs'[u] = u
        BY <2>5 DEF UploadPut, Put, UploadInv
      <3> QED BY <2>5, <3>1, <3>2, <3>3 DEF UploadPut, UploadInv
    <2>6. CASE UploadRestore(u) \/ UploadUndo(u)
      <3>1. \A v \in Uploads : v # u /\ upc[v] \in {"insert", "undo"} => uid[u] # v
        BY <2>6 DEF UploadRestore, UploadUndo, UploadInv
      <3>2. \A v \in Uploads : v # uid[u] => blobs'[v] = blobs[v]
        BY <2>6 DEF UploadRestore, UploadUndo, Put, DeleteBlob
      <3> QED BY <2>6, <3>1, <3>2 DEF UploadRestore, UploadUndo, UploadInv
    <2>7. CASE UploadInsert(u) \/ UploadUpdate(u)
      <3>1. RowOf(u).name = uname[u]
        BY DEF RowOf
      <3>2. \A v \in Uploads : byID'[v] # byID[v] =>
              /\ v = uid[u] /\ byID'[v] = RowOf(u) /\ upc'[u] = "done"
              /\ v = u \/ upc[v] = "done"
        BY <2>7 DEF UploadInsert, UploadUpdate, WriteRow, UploadInv
      <3>3. UNCHANGED <<blobs, uname, uid, uold>>
        BY <2>7 DEF UploadInsert, UploadUpdate
      <3>4. /\ \A v \in Uploads : v # u => upc'[v] = upc[v]
            /\ upc[u] \in {"insert", "update"} /\ upc'[u] \in {"done", "undo", "restore"}
            /\ upc'[u] = "undo" => upc[u] = "insert"
            /\ upc'[u] = "restore" => upc[u] = "update"
        BY <2>7 DEF UploadInsert, UploadUpdate
      <3>5. \A v \in Uploads : uid[v] # v => upc'[uid[v]] = "done"
        BY <3>4 DEF UploadInv
      <3>6. \A v \in Uploads : byID'[v] # NoPlugin => upc'[v] = "done" /\ byID'[v].name = uname[v]
        BY <3>1, <3>2, <3>4 DEF UploadInv
      <3> QED BY <3>3, <3>4, <3>5, <3>6 DEF UploadInv
    <2> QED BY <1>1, <2>2, <2>3, <2>4, <2>5, <2>6, <2>7 DEF Upload
  <1>2. ASSUME UNCHANGED uploadVars, \A v \in Uploads : byID'[v] \in {byID[v], NoPlugin},
               \A v \in Uploads : upc[v] # "done" => blobs'[v] = blobs[v]
        PROVE  UploadInv'
    BY <1>2 DEF UploadInv, Stored
  <1>3. ASSUME NEW r \in Removals, RemoveRow(r) \/ RemoveBlob(r)
        PROVE  UploadInv'
    <2>1. rid[r] \in Uploads /\ upc[rid[r]] = "done"
      BY <1>3 DEF RemoveRow, RemoveBlob, RemovalInv
    <2>2. \A v \in Uploads : byID'[v] \in {byID[v], NoPlugin}
      BY <1>3, <2>1 DEF RemoveRow, RemoveBlob, DeleteRow, TypeOK
    <2>3. \A v \in Uploads : upc[v] # "done" => blobs'[v] = blobs[v]
      BY <1>3, <2>1 DEF RemoveRow, RemoveBlob, DeleteBlob, TypeOK
    <2> QED BY <1>2, <1>3, <2>2, <2>3 DEF RemoveRow, RemoveBlob
  <1>4. ASSUME NEW r \in Removals, NEW i \in Uploads, RemovalBegin(r, i)
        PROVE  UploadInv'
    BY <1>2, <1>4 DEF RemovalBegin
  <1>5. CASE Close \/ Terminated \/ UNCHANGED vars
    BY <1>2, <1>5 DEF Close, Terminated, vars
  <1> QED BY <1>1, <1>3, <1>4, <1>5 DEF Next

(* A row that is gone does not come back under a removal.                  *)
LEMMA RemovalInvStep ==
  ASSUME TypeOK, UploadInv, RemovalInv, CatalogComplete, [Next]_vars
  PROVE  RemovalInv'
  <1> USE DEF repoVars, uploadVars, removalVars
  <1>1. ASSUME NEW i \in Uploads, upc[i] = "done"
        PROVE  upc'[i] = "done" /\ (~Stored(i) => ~Stored(i)')
    <2>1. ASSUME NEW u \in Uploads, Upload(u)
          PROVE  upc'[i] = "done" /\ (~Stored(i) => ~Stored(i)')
      <3>1. i # u /\ upc'[i] = "done"
        BY <1>1, <2>1 DEF Upload, UploadBegin, UploadLookup, UploadReadOld, UploadPut, UploadInsert,
                          UploadUpdate, UploadUndo, UploadRestore, Goto, TypeOK
      <3>2. byID'[i] # byID[i] => Stored(i)
        BY <1>1, <2>1, <3>1 DEF Upload, UploadBegin, UploadLookup, UploadReadOld, UploadPut, UploadInsert,
                          UploadUpdate, UploadUndo, UploadRestore, WriteRow, TypeOK, UploadInv, UpdateOK
      <3> QED BY <3>1, <3>2 DEF Stored
    <2>2. ASSUME NEW r \in Removals, NEW j \in Uploads, RemoveRow(r) \/ RemoveBlob(r) \/ RemovalBegin(r, j)
          PROVE  upc'[i] = "done" /\ (~Stored(i) => ~Stored(i)')
      BY <1>1, <2>2 DEF RemoveRow, RemoveBlob, RemovalBegin, DeleteRow, TypeOK, Stored, RemovalInv
    <2>3. CASE Close \/ Terminated \/ UNCHANGED vars
      BY <1>1, <2>3 DEF Close, Terminated, vars, Stored
    <2> QED BY <1>1, <2>1, <2>2, <2>3 DEF Next
  <1>2. ASSUME NEW r \in Removals, UNCHANGED <<rpc[r], rid[r]>>
        PROVE  /\ rpc'[r] \in {"row", "blob"} => rid'[r] \in Uploads /\ upc'[rid'[r]] = "done"
               /\ rpc'[r] = "blob" => ~Stored(rid[r])'
    <2>1. CASE rpc[r] \in {"row", "blob"}
      <3>1. PICK i \in Uploads : i = rid[r]
        BY <2>1 DEF RemovalInv
      <3> QED BY <1>1, <1>2, <2>1, <3>1 DEF RemovalInv, Stored
    <2> QED BY <1>2, <2>1
  <1>3. ASSUME NEW r \in Removals, RemoveRow(r) \/ RemoveBlob(r) \/ \E i \in Uploads : RemovalBegin(r, i)
        PROVE  RemovalInv'
    <2>1. \A s \in Removals : s # r => UNCHANGED <<rpc[s], rid[s]>>
      BY <1>3 DEF RemoveRow, RemoveBlob, RemovalBegin, TypeOK
    <2>2. /\ rpc'[r] \in {"row", "blob"} => rid'[r] \in Uploads /\ upc'[rid'[r]] = "done"
          /\ rpc'[r] = "blob" => ~Stored(rid[r])'
      BY <1>3 DEF RemoveRow, RemoveBlob, RemovalBegin, DeleteRow, TypeOK, RemovalInv, UploadInv, Stored
    <2> QED BY <1>2, <2>1, <2>2 DEF RemovalInv
  <1>4. CASE UNCHANGED removalVars
    BY <1>2, <1>4 DEF RemovalInv
  <1>5. CASE \E u \in Uploads : Upload(u)
    BY <1>4, <1>5 DEF Upload, UploadBegin, UploadLookup, UploadReadOld, UploadPut, UploadInsert,
                      UploadUpdate, UploadUndo, UploadRestore
  <1>6. CASE Close \/ Terminated \/ UNCHANGED vars
    BY <1>4, <1>6 DEF Close, Terminated, vars
  <1> QED BY <1>3, <1>5, <1>6 DEF Next

-----------------------------------------------------------------------------
(* Plugins whose calls do not overlap                                      *)

(* Every call but the first on a name is observed.                         *)
LEMMA AloneStep ==
  ASSUME TypeOK, Alone, [Next]_vars
  PROVE  Alone'
  <1> USE DEF repoVars, uploadVars, removalVars, UploadActive, RemovalActive
  <1>1. ASSUME UNCHANGED <<uname, contended>>,
               \A u \in Uploads : UploadActive(u)' => UploadActive(u),
               \A r \in Removals : RemovalActive(r)' => RemovalActive(r) /\ rid'[r] = rid[r]
        PROVE  Alone'
    BY <1>1 DEF Alone
  <1>2. ASSUME NEW u \in Uploads, UploadBegin(u)
        PROVE  Alone'
    <2>1. /\ \A v \in Uploads : UploadActive(v)' => v = u \/ UploadActive(v)
          /\ UNCHANGED <<uname, rpc, rid>> /\ contended \subseteq contended'
      BY <1>2 DEF UploadBegin, Goto, TypeOK, Observe
    <2>2. \A v \in Uploads : UploadActive(v) /\ uname[v] = uname[u] => uname[u] \in contended'
      BY <1>2 DEF UploadBegin, Observe, Busy
    <2>3. \A r \in Removals : RemovalActive(r) /\ uname[rid[r]] = uname[u] => uname[u] \in contended'
      BY <1>2 DEF UploadBegin, Observe, Busy
    <2> QED BY <2>1, <2>2, <2>3 DEF Alone
  <1>3. ASSUME NEW u \in Uploads, Upload(u), ~UploadBegin(u)
        PROVE  Alone'
    <2>1. UploadActive(u) /\ \A v \in Uploads : v # u => upc'[v] = upc[v]
      BY <1>3 DEF Upload, UploadLookup, UploadReadOld, UploadPut, UploadInsert, UploadUpdate, UploadUndo,
                  UploadRestore, Goto, TypeOK
    <2>2. UNCHANGED <<uname, contended, rpc, rid>>
      BY <1>3 DEF Upload, UploadLookup, UploadReadOld, UploadPut, UploadInsert, UploadUpdate, UploadUndo,
                  UploadRestore
    <2> QED BY <1>1, <2>1, <2>2
  <1>4. ASSUME NEW r \in Removals, RemoveRow(r) \/ RemoveBlob(r)
        PROVE  Alone'
    BY <1>1, <1>4 DEF RemoveRow, RemoveBlob, TypeOK
  <1>5. ASSUME NEW r \in Removals, NEW i \in Uploads, RemovalBegin(r, i)
        PROVE  Alone'
    <2>1. CASE ~Stored(i)
      BY <1>1, <1>5, <2>1 DEF RemovalBegin, TypeOK
    <2>2. CASE Stored(i)
      <3>1. /\ \A s \in Removals : RemovalActive(s)' => s = r \/ (RemovalActive(s) /\ rid'[s] = rid[s])
            /\ rid'[r] = i
            /\ UNCHANGED <<uname, upc>> /\ contended \subseteq contended'
        BY <1>5, <2>2 DEF RemovalBegin, TypeOK, Observe
      <3>2. \A v \in Uploads : UploadActive(v) /\ uname[v] = uname[i] => uname[i] \in contended'
        BY <1>5, <2>2 DEF RemovalBegin, Observe, Busy
      <3>3. \A s \in Removals : RemovalActive(s) /\ uname[rid[s]] = uname[i] => uname[i] \in contended'
        BY <1>5, <2>2 DEF RemovalBegin, Observe, Busy
      <3> QED BY <3>1, <3>2, <3>3 DEF Alone
    <2> QED BY <2>1, <2>2
  <1>6. CASE Close \/ Terminated \/ UNCHANGED vars
    BY <1>1, <1>6 DEF Close, Terminated, vars
  <1> QED BY <1>2, <1>3, <1>4, <1>5, <1>6 DEF Next

(* One call leaves the plugins of other names alone.                       *)
LEMMA OtherNames ==
  ASSUME TypeOK, UploadInv, NEW u \in Uploads, NEW v \in Uploads, uname[v] # uname[u]
  PROVE  uid[v] # uid[u] /\ uid[v] # u /\ uid[u] # v
  BY DEF UploadInv

\* Every step keeps the plugins nobody works on whole.
LEMMA WholeStep ==
  ASSUME TypeOK, UploadInv, RemovalInv, CatalogComplete, Alone, WholeInv, [Next]_vars
  PROVE  WholeInv'
  <1> USE DEF repoVars, uploadVars, removalVars
  <1> DEFINE Knows(u) ==
        /\ upc[u] = "readold" => Stored(uid[u])
        /\ upc[u] = "put" /\ uold[u] # NoPlugin => Stored(uid[u]) /\ uold[u] = byID[uid[u]].hash
        /\ upc[u] \in {"update", "restore"} =>
             Stored(uid[u]) /\ uold[u] = byID[uid[u]].hash /\ blobs[uid[u]] = u
  <1>1. CASE closed'
    BY <1>1 DEF WholeInv
  <1>2. CASE ~closed'
    <2> USE <1>2
    <2>0. /\ ~closed /\ uname' = uname /\ contended \subseteq contended'
          /\ uid \in [Uploads -> Uploads] /\ uname \in [Uploads -> PluginNames]
          /\ upc \in [Uploads -> UploadPoints] /\ uold \in [Uploads -> Uploads \cup {NoPlugin}]
          /\ blobs \in [Uploads -> Uploads \cup {NoPlugin}]
          /\ byID \in [Uploads -> PluginRows \cup {NoPlugin}]
      BY DEF TypeOK, Next, Upload, UploadBegin, UploadLookup, UploadReadOld, UploadPut, UploadInsert,
             UploadUpdate, UploadUndo, UploadRestore, RemoveRow, RemoveBlob, RemovalBegin, Close,
             Terminated, vars, Observe
    <2>1. \A i \in Uploads : uname[i] \notin contended' => Touched(i) \/ blobs[i] = Want(i)
      BY <2>0 DEF WholeInv
    <2>2. \A v \in Uploads : uname[v] \notin contended' => Knows(v)
      BY <2>0 DEF WholeInv
    <2>3. ASSUME \A i \in Uploads : uname[i] \notin contended' => Touched(i)' \/ blobs'[i] = Want(i)',
                 \A v \in Uploads : uname[v] \notin contended' => Knows(v)'
          PROVE  WholeInv'
      BY <2>0, <2>3 DEF WholeInv
    <2>4. ASSUME UNCHANGED <<byID, blobs, upc, uid, uold>>,
                 \A r \in Removals : rpc[r] = "blob" => rpc'[r] = "blob" /\ rid'[r] = rid[r]
          PROVE  WholeInv'
      <3>1. \A i \in Uploads : Touched(i) => Touched(i)'
        BY <2>4 DEF Touched
      <3>2. \A i \in Uploads : Want(i)' = Want(i)
        BY <2>4 DEF Want, Stored
      <3>3. \A v \in Uploads : Knows(v) => Knows(v)'
        BY <2>4 DEF Stored
      <3> QED BY <2>1, <2>2, <2>3, <2>4, <3>1, <3>2, <3>3
    <2>5. ASSUME NEW u \in Uploads, Upload(u)
          PROVE  WholeInv'
      <3>0. /\ UNCHANGED <<rpc, rid>>
            /\ \A v \in Uploads : v # u => UNCHANGED <<upc[v], uid[v], uold[v]>>
        BY <2>0, <2>5 DEF Upload, UploadBegin, UploadLookup, UploadReadOld, UploadPut, UploadInsert,
             UploadUpdate, UploadUndo, UploadRestore, Goto
      <3>1. CASE UploadBegin(u) \/ UploadLookup(u) \/ UploadReadOld(u)
        <4>0. UNCHANGED <<byID, blobs>> /\ upc[u] \in {"idle", "lookup", "readold"}
          BY <3>1 DEF UploadBegin, UploadLookup, UploadReadOld
        <4>1. \A i \in Uploads : Touched(i) => Touched(i)'
          BY <2>0, <3>0, <4>0 DEF Touched
        <4>2. \A i \in Uploads : Want(i)' = Want(i)
          BY <4>0 DEF Want, Stored
        <4>3. \A v \in Uploads : v # u /\ Knows(v) => Knows(v)'
          BY <3>0, <4>0 DEF Stored
        <4>4. uname[u] \notin contended' => Knows(u)'
          <5>1. CASE UploadBegin(u)
            BY <2>0, <5>1 DEF UploadBegin, Goto
          <5>2. CASE UploadLookup(u)
            <6>1. uname[u] \in PluginNames /\ uold[u] = NoPlugin
              BY <2>0, <5>2 DEF UploadLookup, UploadInv
            <6> QED BY <2>0, <5>2, <6>1 DEF UploadLookup, Goto, CatalogComplete, Stored
          <5>3. CASE UploadReadOld(u)
            <6>1. PICK i \in Uploads : i = uid[u]
              BY <2>0
            <6>2. uname[u] \notin contended' => blobs[i] = Want(i) \/ blobs[i] = NoPlugin
              <7>1. UploadActive(u) /\ upc[u] = "readold" /\ uname[i] = uname[u]
                BY <5>3, <6>1 DEF UploadReadOld, UploadActive, UploadInv
              <7>2. uname[u] \notin contended' => uname[u] \notin contended
                BY <2>0
              <7>3. uname[u] \notin contended' => ~Touched(i)
                BY <2>0, <7>1, <7>2 DEF Touched, Alone, UploadActive, RemovalActive, UploadInv
              <7> QED BY <2>1, <7>1, <7>3
            <6>3. uname[u] \notin contended' => Stored(i)
              BY <2>2, <5>3, <6>1 DEF UploadReadOld
            <6> QED BY <2>0, <4>0, <5>3, <6>1, <6>2, <6>3 DEF UploadReadOld, Goto, Stored, Want
          <5> QED BY <3>1, <5>1, <5>2, <5>3
        <4> QED BY <2>1, <2>2, <2>3, <4>0, <4>1, <4>2, <4>3, <4>4
      <3>2. ASSUME NEW i \in Uploads, i = uid[u], UploadActive(u), UNCHANGED uid,
                   \A j \in Uploads : j # i => UNCHANGED <<byID[j], blobs[j]>>,
                   uname[u] \notin contended' => (Touched(i)' \/ blobs'[i] = Want(i)') /\ Knows(u)'
            PROVE  WholeInv'
        <4>1. uname[i] = uname[u] /\ (upc[u] \in {"insert", "undo"} => u = i)
          BY <3>2 DEF UploadInv
        <4>2. ASSUME NEW j \in Uploads, j # i, uname[j] \notin contended'
              PROVE  Touched(j)' \/ blobs'[j] = Want(j)'
          <5>1. Touched(j) \/ blobs[j] = Want(j)
            BY <2>1, <4>2
          <5>2. Touched(j) => Touched(j)'
            <6>1. CASE upc[j] \in {"insert", "undo"}
              BY <3>0, <4>1, <4>2, <6>1 DEF Touched
            <6>2. ASSUME NEW v \in Uploads, upc[v] \in {"update", "restore"}, uid[v] = j
                  PROVE  Touched(j)'
              BY <3>0, <3>2, <4>2, <6>2 DEF Touched
            <6>3. ASSUME NEW r \in Removals, rpc[r] = "blob", rid[r] = j
                  PROVE  Touched(j)'
              BY <3>0, <6>3 DEF Touched
            <6> QED BY <6>1, <6>2, <6>3 DEF Touched
          <5>3. Want(j)' = Want(j) /\ blobs'[j] = blobs[j]
            BY <3>2, <4>2 DEF Want, Stored
          <5> QED BY <5>1, <5>2, <5>3
        <4>3. ASSUME NEW v \in Uploads, v # u, uname[v] \notin contended'
              PROVE  Knows(v)'
          <5>1. CASE UploadActive(v)
            <6>1. uname[v] # uname[u]
              BY <2>0, <3>2, <4>3, <5>1 DEF Alone
            <6>2. uid[v] # i /\ uid[v] \in Uploads
              BY <2>0, <3>2, <6>1, OtherNames
            <6> QED BY <2>2, <3>0, <3>2, <4>3, <6>2 DEF Stored
          <5>2. CASE ~UploadActive(v)
            BY <3>0, <4>3, <5>2 DEF UploadActive
          <5> QED BY <5>1, <5>2
        <4> QED BY <2>3, <3>2, <4>1, <4>2, <4>3
      <3>3. PICK i \in Uploads : i = uid[u]
        BY <2>0
      <3>4. CASE UploadPut(u)
        <4>1. UploadActive(u) /\ UNCHANGED <<byID, uid, uold>> /\ upc[u] = "put"
          BY <3>4 DEF UploadPut, UploadActive
        <4>2. blobs' = [blobs EXCEPT ![i] = u]
          BY <2>0, <3>3, <3>4 DEF UploadPut, Put
        <4>3. upc'[u] = IF uold[u] = NoPlugin THEN "insert" ELSE "update"
          BY <2>0, <3>4 DEF UploadPut, Goto
        <4>4. uold[u] = NoPlugin => i = u
          BY <3>3, <4>1 DEF UploadInv
        <4>5. Touched(i)'
          BY <3>3, <4>1, <4>3, <4>4 DEF Touched
        <4>6. uname[u] \notin contended' => Knows(u)'
          BY <2>0, <2>2, <3>3, <4>1, <4>2, <4>3 DEF Stored
        <4>7. \A j \in Uploads : j # i => UNCHANGED <<byID[j], blobs[j]>>
          BY <2>0, <4>1, <4>2
        <4> QED BY <3>2, <3>3, <4>1, <4>5, <4>6, <4>7
      <3>5. CASE UploadInsert(u) \/ UploadUpdate(u)
        <4>1. UploadActive(u) /\ UNCHANGED <<blobs, uid, uold>> /\ upc[u] \in {"insert", "update"}
          BY <3>5 DEF UploadInsert, UploadUpdate, UploadActive
        <4>2. CASE WriteRow(u) /\ upc' = [upc EXCEPT ![u] = "done"]
          <5>1. byID'[i] = RowOf(u) /\ \A j \in Uploads : j # i => byID'[j] = byID[j]
            BY <2>0, <3>3, <4>2 DEF WriteRow
          <5>2. RowOf(u).hash = u /\ RowOf(u) # NoPlugin
            BY <2>0, CatalogAssumption DEF RowOf
          <5>3. uname[u] \notin contended' => blobs[i] = u
            BY <2>2, <3>3, <4>1 DEF UploadInv
          <5>4. uname[u] \notin contended' => blobs'[i] = Want(i)'
            BY <4>1, <5>1, <5>2, <5>3 DEF Want, Stored
          <5>5. Knows(u)'
            BY <2>0, <4>2
          <5> QED BY <3>2, <3>3, <4>1, <5>1, <5>4, <5>5
        <4>3. CASE UNCHANGED repoVars /\ upc' = [upc EXCEPT ![u] = IF upc[u] = "insert" THEN "undo" ELSE "restore"]
          <5>1. Touched(i)'
            BY <2>0, <3>3, <4>1, <4>3 DEF Touched, UploadInv
          <5>2. uname[u] \notin contended' => Knows(u)'
            BY <2>0, <2>2, <4>1, <4>3 DEF Stored
          <5> QED BY <3>2, <3>3, <4>1, <4>3, <5>1, <5>2
        <4> QED BY <3>5, <4>2, <4>3 DEF UploadInsert, UploadUpdate, Goto
      <3>6. CASE UploadUndo(u) \/ UploadRestore(u)
        <4>1. /\ UploadActive(u) /\ UNCHANGED <<byID, uid, uold>> /\ upc[u] \in {"undo", "restore"}
              /\ upc' = [upc EXCEPT ![u] = "done"]
          BY <3>6 DEF UploadUndo, UploadRestore, UploadActive, Goto
        <4>2. blobs' = [blobs EXCEPT ![i] = IF upc[u] = "undo" THEN NoPlugin ELSE uold[u]]
          BY <2>0, <3>3, <3>6 DEF UploadUndo, UploadRestore, Put, DeleteBlob
        <4>3. uname[u] \notin contended' => blobs'[i] = Want(i)'
          <5>1. CASE upc[u] = "undo"
            BY <2>0, <3>3, <4>1, <4>2, <5>1 DEF Want, Stored, UploadInv
          <5>2. CASE upc[u] = "restore"
            BY <2>0, <2>2, <3>3, <4>1, <4>2, <5>2 DEF Want, Stored
          <5> QED BY <4>1, <5>1, <5>2
        <4>4. Knows(u)'
          BY <2>0, <4>1
        <4>5. \A j \in Uploads : j # i => UNCHANGED <<byID[j], blobs[j]>>
          BY <2>0, <4>1, <4>2
        <4> QED BY <3>2, <3>3, <4>1, <4>3, <4>4, <4>5
      <3> QED BY <2>5, <3>1, <3>4, <3>5, <3>6 DEF Upload
    <2>6. ASSUME NEW r \in Removals, NEW i \in Uploads, i = rid[r], RemovalActive(r),
                 UNCHANGED <<upc, uid, uold, rid>>,
                 \A j \in Uploads : j # i => UNCHANGED <<byID[j], blobs[j]>>,
                 \A s \in Removals : s # r => rpc'[s] = rpc[s],
                 Touched(i)' \/ blobs'[i] = Want(i)'
          PROVE  WholeInv'
      <3>1. ASSUME NEW j \in Uploads, j # i, uname[j] \notin contended'
            PROVE  Touched(j)' \/ blobs'[j] = Want(j)'
        <4>1. Touched(j) => Touched(j)'
          BY <2>6, <3>1 DEF Touched
        <4>2. Want(j)' = Want(j) /\ blobs'[j] = blobs[j]
          BY <2>6, <3>1 DEF Want, Stored
        <4> QED BY <2>1, <3>1, <4>1, <4>2
      <3>2. ASSUME NEW v \in Uploads, uname[v] \notin contended'
            PROVE  Knows(v)'
        <4>1. CASE UploadActive(v)
          <5>1. uname[v] # uname[i] /\ uid[v] # i /\ uid[v] \in Uploads
            BY <2>0, <2>6, <3>2, <4>1 DEF Alone, UploadInv
          <5> QED BY <2>2, <2>6, <3>2, <5>1 DEF Stored
        <4>2. CASE ~UploadActive(v)
          BY <2>6, <4>2 DEF UploadActive
        <4> QED BY <4>1, <4>2
      <3> QED BY <2>3, <2>6, <3>1, <3>2
    <2>7. ASSUME NEW r \in Removals, RemoveRow(r)
          PROVE  WholeInv'
      <3>1. PICK i \in Uploads : i = rid[r]
        BY <2>7 DEF RemoveRow, RemovalInv
      <3>2. CASE DeleteRow(i) /\ rpc' = [rpc EXCEPT ![r] = "blob"]
        <4>1. Touched(i)'
          BY <2>7, <3>1, <3>2 DEF RemoveRow, Touched, TypeOK
        <4>2. /\ \A j \in Uploads : j # i => UNCHANGED <<byID[j], blobs[j]>>
              /\ \A s \in Removals : s # r => rpc'[s] = rpc[s]
              /\ RemovalActive(r) /\ UNCHANGED <<upc, uid, uold, rid>>
          BY <2>7, <3>1, <3>2 DEF RemoveRow, DeleteRow, TypeOK, RemovalActive
        <4> QED BY <2>6, <3>1, <4>1, <4>2
      <3>3. CASE UNCHANGED repoVars /\ rpc' = [rpc EXCEPT ![r] = "done"]
        BY <2>4, <2>7, <3>3 DEF RemoveRow, TypeOK
      <3> QED BY <2>7, <3>1, <3>2, <3>3 DEF RemoveRow
    <2>8. ASSUME NEW r \in Removals, RemoveBlob(r)
          PROVE  WholeInv'
      <3>1. PICK i \in Uploads : i = rid[r] /\ ~Stored(i)
        BY <2>8 DEF RemoveBlob, RemovalInv
      <3>2. blobs' = [blobs EXCEPT ![i] = NoPlugin] /\ UNCHANGED byID
        BY <2>0, <2>8, <3>1 DEF RemoveBlob, DeleteBlob
      <3>3. blobs'[i] = Want(i)'
        BY <2>0, <3>1, <3>2 DEF Want, Stored
      <3>4. /\ \A j \in Uploads : j # i => UNCHANGED <<byID[j], blobs[j]>>
            /\ \A s \in Removals : s # r => rpc'[s] = rpc[s]
            /\ RemovalActive(r) /\ UNCHANGED <<upc, uid, uold, rid>>
        BY <2>0, <2>8, <3>2 DEF RemoveBlob, TypeOK, RemovalActive
      <3> QED BY <2>6, <3>1, <3>3, <3>4
    <2>9. ASSUME NEW r \in Removals, NEW i \in Uploads, RemovalBegin(r, i)
          PROVE  WholeInv'
      BY <2>4, <2>9 DEF RemovalBegin, TypeOK
    <2>10. CASE Close \/ Terminated \/ UNCHANGED vars
      BY <2>4, <2>10 DEF Close, Terminated, vars
    <2> QED BY <2>5, <2>7, <2>8, <2>9, <2>10 DEF Next
  <1> QED BY <1>1, <1>2

-----------------------------------------------------------------------------
\* What every step of the catalog preserves.
CatalogInv ==
  TypeOK /\ UploadInv /\ RemovalInv /\ CatalogComplete /\ Alone /\ WholeInv

\* It holds throughout.
LEMMA CatalogInvariant == Spec => []CatalogInv
  <1>1. Init => CatalogInv
    <2> SUFFICES ASSUME Init PROVE CatalogInv
      OBVIOUS
    <2> USE CatalogAssumption DEF Init
    <2>1. TypeOK
      BY DEF TypeOK, UploadPoints
    <2>2. UploadInv /\ RemovalInv /\ CatalogComplete
      BY DEF UploadInv, RemovalInv, CatalogComplete, Stored
    <2>3. Alone /\ WholeInv
      BY DEF Alone, UploadActive, RemovalActive, WholeInv, Want, Stored
    <2> QED BY <2>1, <2>2, <2>3 DEF CatalogInv
  <1>2. CatalogInv /\ [Next]_vars => CatalogInv'
    BY CatalogTypeStep, UploadInvStep, RemovalInvStep, CompleteStep, AloneStep, WholeStep DEF CatalogInv
  <1> QED BY <1>1, <1>2, PTL DEF Spec

(* The plugin repository and storage keep their types.                     *)
THEOREM CatalogTypes == Spec => []TypeOK
  <1>1. CatalogInv => TypeOK
    BY DEF CatalogInv
  <1> QED BY <1>1, CatalogInvariant, PTL

(* CreatePlugin and DeletePlugin, however many of them interleave, never   *)
(* leave a name without its row or a row without its blob.                 *)
THEOREM NoRowWithoutBytes == Spec => []CatalogComplete
  <1>1. CatalogInv => CatalogComplete
    BY DEF CatalogInv
  <1> QED BY <1>1, CatalogInvariant, PTL

(* The compensation in CreatePlugin restores a plugin whose calls did not  *)
(* overlap: its row is the row of its blob.                                *)
THEOREM UncontendedPluginsStayWhole == Spec => []UncontendedPluginIntact
  <1>1. CatalogInv => UncontendedPluginIntact
    <2> SUFFICES ASSUME CatalogInv, ~closed, NEW i \in Uploads, uname[i] \notin contended, ~Busy(uname[i])
                 PROVE  blobs[i] = Want(i)
      BY DEF UncontendedPluginIntact, Want
    <2>1. ~Touched(i)
      BY DEF Touched, Busy, CatalogInv, UploadInv
    <2> QED BY <2>1 DEF CatalogInv, WholeInv
  <1> QED BY <1>1, CatalogInvariant, PTL

=============================================================================
