--------------------------- MODULE WorkspaceRepo ---------------------------
(***************************************************************************)
(* The in-memory workspace repository (pkg/storage/memory).  Every method  *)
(* of the code runs under one mutex, so a call is one step: the operators  *)
(* below say when a call succeeds (...OK) and what it does to the two maps *)
(* when it succeeds or fails.  A failing call changes nothing.             *)
(***************************************************************************)
EXTENDS WorkspaceState

(* The maps are total, NoRow and NoId standing for absent entries.         *)
RepoTypeOK ==
  /\ byID \in [WorkspaceIds -> Rows \cup {NoRow}]
  /\ idByAliasKey \in [AliasKeys -> WorkspaceIds \cup {NoId}]
  /\ repoClosed \in BOOLEAN

RepoInit ==
  /\ byID = [w \in WorkspaceIds |-> NoRow]
  /\ idByAliasKey = [a \in AliasKeys |-> NoId]
  /\ repoClosed = FALSE

-----------------------------------------------------------------------------
Exists(w) == byID[w] # NoRow

HasStatus(w, s) == Exists(w) /\ byID[w].status = s

(* Get returns the row or an error.                                        *)
GetOK(w) == ~repoClosed /\ Exists(w)

InsertOK(w, row) ==
  /\ ~repoClosed
  /\ ~Exists(w)
  /\ row.status \in Statuses
  /\ idByAliasKey[row.alias] = NoId

Insert(w, row) ==
  /\ byID' = IF InsertOK(w, row) THEN [byID EXCEPT ![w] = row] ELSE byID
  /\ idByAliasKey' = IF InsertOK(w, row)
                     THEN [idByAliasKey EXCEPT ![row.alias] = w]
                     ELSE idByAliasKey
  /\ UNCHANGED repoClosed

(* A faulty variant of UpdateOK: a stale status is written back.           *)
UpdateAnyStatus(w, row) == GetOK(w) /\ row.alias = byID[w].alias

(* Update writes a whole row, but never changes a status: a copy whose     *)
(* status is out of date is refused.                                       *)
UpdateOK(w, row) ==
  /\ GetOK(w)
  /\ row.status = byID[w].status
  /\ row.alias = byID[w].alias

Update(w, row) ==
  /\ byID' = IF UpdateOK(w, row) THEN [byID EXCEPT ![w] = row] ELSE byID
  /\ UNCHANGED <<idByAliasKey, repoClosed>>

(* A faulty variant: the controller may not fail an install.               *)
NoControllerFailure(writer, from, to) ==
  \/ writer = "controller" /\ from = "init" /\ to = "healthy"
  \/ writer = "scheduler" /\ from # to /\ to # "init"

(* A faulty variant: the scheduler may not fail a healthy row.             *)
NoDegrade(writer, from, to) ==
  \/ writer = "controller" /\ from = "init" /\ to \in {"healthy", "failed"}
  \/ writer = "scheduler" /\ <<from, to>> \in {<<"init", "failed">>, <<"failed", "healthy">>}

(* Which status change each writer may ask for.                            *)
TransitionByWriter(writer, from, to) ==
  \/ writer = "controller" /\ from = "init" /\ to \in {"healthy", "failed"}
  \/ writer = "scheduler" /\ <<from, to>> \in {<<"init", "failed">>,
                                               <<"healthy", "failed">>,
                                               <<"failed", "healthy">>}

CASOK(w, writer, expect, next) ==
  /\ GetOK(w)
  /\ byID[w].status = expect
  /\ TransitionByWriter(writer, expect, next)

(* A healthy row carries no StatusError.                                   *)
WithStatus(row, next, code) ==
  [status |-> next, code |-> IF next = "healthy" THEN "none" ELSE code,
   alias |-> row.alias, dir |-> row.dir, placed |-> row.placed]

UpdateStatusCAS(w, writer, expect, next, code) ==
  /\ byID' = IF CASOK(w, writer, expect, next)
             THEN [byID EXCEPT ![w] = WithStatus(byID[w], next, code)]
             ELSE byID
  /\ UNCHANGED <<idByAliasKey, repoClosed>>

(* A faulty variant: the alias entry stays.                                *)
DeleteKeepsAlias(w) ==
  /\ byID' = IF GetOK(w) THEN [byID EXCEPT ![w] = NoRow] ELSE byID
  /\ UNCHANGED <<idByAliasKey, repoClosed>>

Delete(w) ==
  /\ byID' = IF GetOK(w) THEN [byID EXCEPT ![w] = NoRow] ELSE byID
  /\ idByAliasKey' = IF GetOK(w)
                     THEN [idByAliasKey EXCEPT ![byID[w].alias] = NoId]
                     ELSE idByAliasKey
  /\ UNCHANGED repoClosed

Close ==
  /\ repoClosed' = TRUE
  /\ UNCHANGED <<byID, idByAliasKey>>

-----------------------------------------------------------------------------
(* The alias index and the rows agree: every entry of idByAliasKey names a *)
(* row that carries that alias and every row is found under its alias.     *)
(* Insert, Update and Delete maintain the two maps separately.             *)
AliasIndexConsistent ==
  /\ \A a \in AliasKeys :
       idByAliasKey[a] # NoId =>
         Exists(idByAliasKey[a]) /\ byID[idByAliasKey[a]].alias = a
  /\ \A w \in WorkspaceIds : Exists(w) => idByAliasKey[byID[w].alias] = w

=============================================================================
