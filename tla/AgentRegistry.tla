---------------------------- MODULE AgentRegistry ----------------------------
(***************************************************************************)
(* The orchestrator's in-memory registry of workspaces (src/pkg/           *)
(* orchestrator/registry/registry.go, MemoryRegistry): three maps and the  *)
(* id of the default workspace, kept consistent by hand.  Every method     *)
(* holds the registry's lock from its first read to its last write, so it  *)
(* is one action here.                                                     *)
(*                                                                         *)
(* A name is given as it is after trimming; Blank is what a name of spaces *)
(* trims to.  The other tests of validateWorkspace look at nothing that is *)
(* kept here and reject in the same way.                                   *)
(***************************************************************************)
CONSTANTS
    Ids,            \* workspace ids
    Aliases,        \* aliases
    Factories,      \* agent factories
    Blank,          \* the empty name; also "no id" in defaultID and byAlias
    NoRow,          \* absence from byID
    NoFactory       \* a nil factory; absence from factories

ASSUME BlankAssumption == Blank \notin Ids \cup Aliases
ASSUME NoFactoryAssumption == NoFactory \notin Factories

Rows == [alias : Aliases, enabled : BOOLEAN, isDefaultEntry : BOOLEAN]

ASSUME NoRowAssumption == NoRow \notin Rows

VARIABLES
    byID,           \* the row of each id
    byAlias,        \* the id of each alias
    factories,      \* the factory of each id
    defaultID       \* the default workspace

vars == <<byID, byAlias, factories, defaultID>>

\* Type invariant.  No blank name is ever stored as an id or as an alias.
TypeOK ==
    /\ byID \in [Ids -> Rows \cup {NoRow}]
    /\ byAlias \in [Aliases -> Ids \cup {Blank}]
    /\ factories \in [Ids -> Factories \cup {NoFactory}]
    /\ defaultID \in Ids \cup {Blank}

\* NewMemory
Init ==
    /\ byID = [id \in Ids |-> NoRow]
    /\ byAlias = [a \in Aliases |-> Blank]
    /\ factories = [id \in Ids |-> NoFactory]
    /\ defaultID = Blank

----------------------------------------------------------------------------
Exists(id) == byID[id] # NoRow

\* validateWorkspace, on the two names.
ValidateWorkspace(id, alias) == id # Blank /\ alias # Blank

Row(alias, enabled, default) ==
    [alias |-> alias, enabled |-> enabled, isDefaultEntry |-> default]

\* The rows once id has the given row; the row of the workspace `demoted`, if
\* any, loses its default flag first.
Stored(id, row, demoted) ==
    [i \in Ids |->
        IF i = id THEN row
        ELSE IF i = demoted THEN Row(byID[i].alias, byID[i].enabled, FALSE)
        ELSE byID[i]]

\* A faulty variant: nothing is displaced.
DemotesNobody(default) == Blank

\* The default workspace a row that claims the default displaces.
Demoted(default) == IF default THEN defaultID ELSE Blank

\* A faulty variant: the factory is not stored.
RegisterWithoutFactory(id, alias, enabled, default, factory) ==
    /\ ValidateWorkspace(id, alias)
    /\ ~Exists(id)
    /\ byAlias[alias] = Blank
    /\ byID' = Stored(id, Row(alias, enabled, default), Demoted(default))
    /\ byAlias' = [byAlias EXCEPT ![alias] = id]
    /\ defaultID' = IF default THEN id ELSE defaultID
    /\ UNCHANGED factories

Register(id, alias, enabled, default, factory) ==
    /\ factory # NoFactory
    /\ ValidateWorkspace(id, alias)
    /\ ~Exists(id)
    /\ byAlias[alias] = Blank
    /\ byID' = Stored(id, Row(alias, enabled, default), Demoted(default))
    /\ byAlias' = [byAlias EXCEPT ![alias] = id]
    /\ factories' = [factories EXCEPT ![id] = factory]
    /\ defaultID' = IF default THEN id ELSE defaultID

\* A faulty variant: the alias may change.
UpdateRenames(id, alias, enabled, default) ==
    /\ ValidateWorkspace(id, alias)
    /\ Exists(id)
    /\ byID' = Stored(id, Row(alias, enabled, default), Demoted(default))
    /\ defaultID' = CASE default -> id
                      [] ~default /\ defaultID = id -> Blank
                      [] OTHER -> defaultID
    /\ UNCHANGED <<byAlias, factories>>

Update(id, alias, enabled, default) ==
    /\ ValidateWorkspace(id, alias)
    /\ Exists(id)
    /\ alias = byID[id].alias
    /\ byID' = Stored(id, Row(alias, enabled, default), Demoted(default))
    /\ defaultID' = CASE default -> id
                      [] ~default /\ defaultID = id -> Blank
                      [] OTHER -> defaultID
    /\ UNCHANGED <<byAlias, factories>>

SetEnabled(id, enabled) ==
    /\ Exists(id)
    /\ byID[id].enabled # enabled
    /\ byID' = [byID EXCEPT ![id] = Row(@.alias, enabled, @.isDefaultEntry)]
    /\ UNCHANGED <<byAlias, factories, defaultID>>

Disable(id) == SetEnabled(id, FALSE)

Enable(id) == SetEnabled(id, TRUE)

----------------------------------------------------------------------------
(* The lookups, by what they return.                                       *)

LookupByIDLocked(id) ==
    CASE ~Exists(id) -> "workspace not found"
      [] Exists(id) /\ ~byID[id].enabled -> "disabled"
      [] Exists(id) /\ byID[id].enabled /\ factories[id] = NoFactory -> "invalid"
      [] OTHER -> "found"

LookupByAlias(alias) ==
    IF byAlias[alias] = Blank THEN "alias not found" ELSE LookupByIDLocked(byAlias[alias])

LookupDefault == IF defaultID = Blank THEN "no default" ELSE LookupByIDLocked(defaultID)

----------------------------------------------------------------------------
Call(id, alias, enabled, default) ==
    \/ \E factory \in Factories \cup {NoFactory} :
          Register(id, alias, enabled, default, factory)
    \/ Update(id, alias, enabled, default)

Next ==
    \/ \E id \in Ids \cup {Blank}, alias \in Aliases \cup {Blank}, enabled, default \in BOOLEAN :
          Call(id, alias, enabled, default)
    \/ \E id \in Ids : Disable(id) \/ Enable(id)

Spec == Init /\ [][Next]_vars

----------------------------------------------------------------------------
(* Properties.                                                             *)

\* At most one workspace is the default, and the flag on the rows and defaultID
\* agree on which: promoting by Register or Update demotes the previous one,
\* and clearing the flag of the default unsets it.
OneDefault == \A id \in Ids : id = defaultID <=> Exists(id) /\ byID[id].isDefaultEntry

\* byAlias is the inverse of the alias column of byID, so two workspaces never
\* share an alias.
AliasesConsistent ==
    \A a \in Aliases, id \in Ids : byAlias[a] = id <=> Exists(id) /\ byID[id].alias = a

\* No lookup finds half a registration: an alias or a default that is there
\* leads to a row, and an enabled row to a factory.
NoDanglingLookup ==
    /\ \A id \in Ids : LookupByIDLocked(id) # "invalid"
    /\ \A a \in Aliases : LookupByAlias(a) \notin {"workspace not found", "invalid"}
    /\ LookupDefault \notin {"workspace not found", "invalid"}

\* A registration is permanent: no call removes a workspace, moves its alias or
\* replaces its factory.
BindingsArePermanent ==
    [][\A id \in Ids : Exists(id) =>
          /\ Exists(id)'
          /\ byID'[id].alias = byID[id].alias
          /\ factories'[id] = factories[id]]_vars
=============================================================================
