--------------------- MODULE OrchestratorLeaves_proofs ----------------------
(***************************************************************************)
(* The registry, for any ids, aliases and factories, and the id generator, *)
(* for any callers and any clock.  The registry's invariant joins          *)
(* the type invariant, OneDefault, AliasesConsistent and the fact that     *)
(* every row has a factory, which is what NoDanglingLookup rests on.       *)
(***************************************************************************)
EXTENDS OrchestratorLeaves, TLAPS

(***************************************************************************)
(* The registry.                                                           *)
(***************************************************************************)

\* A row never comes without its factory.
HasFactory == \A id \in Ids : Exists(id) => factories[id] # NoFactory

\* What every call of the registry preserves.
RegistryInv == TypeOK /\ OneDefault /\ AliasesConsistent /\ HasFactory

\* What Register and Update write: the row of id is the new one, the demoted
\* row loses its flag and keeps the rest, all others stay.
LEMMA StoredFacts ==
    ASSUME TypeOK, OneDefault, NEW id \in Ids, NEW alias \in Aliases,
           NEW enabled \in BOOLEAN, NEW default \in BOOLEAN,
           byID' = Stored(id, Row(alias, enabled, default), Demoted(default))
    PROVE  /\ byID' \in [Ids -> Rows \cup {NoRow}]
           /\ Exists(id)' /\ byID'[id].alias = alias /\ byID'[id].isDefaultEntry = default
           /\ \A i \in Ids \ {id} :
                 /\ Exists(i)' <=> Exists(i)
                 /\ Exists(i) => byID'[i].alias = byID[i].alias
                 /\ Exists(i) => (byID'[i].isDefaultEntry <=> byID[i].isDefaultEntry /\ ~default)
<1> DEFINE new == Row(alias, enabled, default)
<1>1. new \in Rows /\ new.alias = alias /\ new.isDefaultEntry = default
  BY DEF Row, Rows
<1>2. \A i \in Ids : Exists(i) => byID[i] \in Rows
  BY DEF TypeOK, Exists
<1>3. \A i \in Ids : Exists(i) =>
        LET r == Row(byID[i].alias, byID[i].enabled, FALSE)
        IN  r \in Rows /\ r.alias = byID[i].alias /\ r.isDefaultEntry = FALSE
  BY <1>2 DEF Row, Rows
<1>4. \A i \in Ids : byID'[i] = IF i = id THEN new
                                ELSE IF i = Demoted(default) THEN Row(byID[i].alias, byID[i].enabled, FALSE)
                                ELSE byID[i]
  BY DEF Stored
<1>5. \A i \in Ids : i = Demoted(default) <=> default /\ Exists(i) /\ byID[i].isDefaultEntry
  BY BlankAssumption DEF Demoted, OneDefault
<1>6. byID' \in [Ids -> Rows \cup {NoRow}]
  <2>1. \A i \in Ids : byID'[i] \in Rows \cup {NoRow}
    BY <1>1, <1>3, <1>4, <1>5 DEF TypeOK
  <2> QED BY <2>1 DEF Stored
<1>7. Exists(id)' /\ byID'[id].alias = alias /\ byID'[id].isDefaultEntry = default
  BY <1>1, <1>4, NoRowAssumption DEF Exists
<1>8. ASSUME NEW i \in Ids \ {id}
      PROVE  /\ Exists(i)' <=> Exists(i)
             /\ Exists(i) => byID'[i].alias = byID[i].alias
             /\ Exists(i) => (byID'[i].isDefaultEntry <=> byID[i].isDefaultEntry /\ ~default)
  <2>1. CASE i = Demoted(default)
    <3> DEFINE r == Row(byID[i].alias, byID[i].enabled, FALSE)
    <3>1. default /\ Exists(i) /\ byID[i].isDefaultEntry /\ byID'[i] = r
      BY <2>1, <1>4, <1>5
    <3>2. r \in Rows /\ r.alias = byID[i].alias /\ r.isDefaultEntry = FALSE
      BY <1>3, <3>1
    <3> HIDE DEF r
    <3>3. Exists(i)'
      BY <3>1, <3>2, NoRowAssumption DEF Exists
    <3> QED BY <3>1, <3>2, <3>3
  <2>2. CASE i # Demoted(default)
    <3>1. byID'[i] = byID[i]
      BY <1>4, <2>2
    <3> QED BY <2>2, <3>1, <1>5 DEF Exists
  <2> QED BY <2>1, <2>2
<1> QED BY <1>6, <1>7, <1>8

\* Register and Update keep the invariant, and every binding.
LEMMA CallStep ==
    ASSUME RegistryInv, NEW id \in Ids \cup {Blank}, NEW alias \in Aliases \cup {Blank},
           NEW enabled \in BOOLEAN, NEW default \in BOOLEAN, Call(id, alias, enabled, default)
    PROVE  /\ RegistryInv'
           /\ \A i \in Ids : Exists(i) => /\ Exists(i)'
                                          /\ byID'[i].alias = byID[i].alias
                                          /\ factories'[i] = factories[i]
<1>1. id \in Ids /\ alias \in Aliases
  BY DEF Call, Register, Update, ValidateWorkspace
<1>2. byID' = Stored(id, Row(alias, enabled, default), Demoted(default))
  BY DEF Call, Register, Update
<1>3. /\ byID' \in [Ids -> Rows \cup {NoRow}]
      /\ Exists(id)' /\ byID'[id].alias = alias /\ byID'[id].isDefaultEntry = default
      /\ \A i \in Ids \ {id} :
            /\ Exists(i)' <=> Exists(i)
            /\ Exists(i) => byID'[i].alias = byID[i].alias
            /\ Exists(i) => (byID'[i].isDefaultEntry <=> byID[i].isDefaultEntry /\ ~default)
  BY <1>1, <1>2, StoredFacts DEF RegistryInv
<1>4. defaultID' = IF default THEN id ELSE IF defaultID = id THEN Blank ELSE defaultID
  <2>1. ASSUME NEW factory \in Factories \cup {NoFactory}, Register(id, alias, enabled, default, factory)
        PROVE  defaultID # id /\ defaultID' = IF default THEN id ELSE defaultID
    BY <1>1, <2>1 DEF Register, RegistryInv, OneDefault
  <2>2. CASE Update(id, alias, enabled, default)
    BY <2>2 DEF Update
  <2> QED BY <2>1, <2>2 DEF Call
<1>5. OneDefault'
  <2> SUFFICES ASSUME NEW i \in Ids
               PROVE  i = defaultID' <=> Exists(i)' /\ byID'[i].isDefaultEntry
    BY DEF OneDefault, Exists
  <2>1. CASE i = id
    BY <2>1, <1>1, <1>3, <1>4, BlankAssumption
  <2>2. CASE i # id
    BY <2>2, <1>3, <1>4, BlankAssumption DEF RegistryInv, OneDefault
  <2> QED BY <2>1, <2>2
<1>6. ASSUME NEW factory \in Factories \cup {NoFactory}, Register(id, alias, enabled, default, factory)
      PROVE  /\ RegistryInv'
             /\ \A i \in Ids : Exists(i) => i # id /\ factories'[i] = factories[i]
  <2>1. /\ \A i \in Ids : factories'[i] = IF i = id THEN factory ELSE factories[i]
        /\ \A a \in Aliases : byAlias'[a] = IF a = alias THEN id ELSE byAlias[a]
        /\ factory # NoFactory /\ ~Exists(id) /\ byAlias[alias] = Blank
    BY <1>1, <1>6 DEF Register, RegistryInv, TypeOK
  <2>2. TypeOK'
    BY <1>1, <1>3, <1>4, <1>6 DEF Register, RegistryInv, TypeOK
  <2>3. AliasesConsistent'
    <3> SUFFICES ASSUME NEW a \in Aliases, NEW i \in Ids
                 PROVE  byAlias'[a] = i <=> Exists(i)' /\ byID'[i].alias = a
      BY DEF AliasesConsistent, Exists
    <3>1. \A b \in Aliases, k \in Ids : byAlias[b] = k <=> Exists(k) /\ byID[k].alias = b
      BY DEF RegistryInv, AliasesConsistent
    <3>2. CASE i = id
      BY <3>1, <3>2, <2>1, <1>1, <1>3
    <3>3. CASE i # id
      BY <3>1, <3>3, <2>1, <1>1, <1>3, BlankAssumption
    <3> QED BY <3>2, <3>3
  <2>4. HasFactory'
    BY <2>1, <1>1, <1>3 DEF RegistryInv, HasFactory, Exists
  <2> QED BY <1>5, <2>1, <2>2, <2>3, <2>4 DEF RegistryInv
<1>7. ASSUME Update(id, alias, enabled, default)
      PROVE  /\ RegistryInv'
             /\ Exists(id) /\ alias = byID[id].alias /\ factories' = factories
  <2>1. Exists(id) /\ alias = byID[id].alias /\ factories' = factories /\ byAlias' = byAlias
    BY <1>7 DEF Update
  <2>2. TypeOK'
    BY <1>1, <1>3, <1>4, <2>1 DEF RegistryInv, TypeOK
  <2>3. AliasesConsistent'
    BY <1>1, <1>3, <2>1 DEF RegistryInv, AliasesConsistent, Exists
  <2>4. HasFactory'
    BY <1>1, <1>3, <2>1 DEF RegistryInv, HasFactory, Exists
  <2> QED BY <1>5, <2>1, <2>2, <2>3, <2>4 DEF RegistryInv
<1> QED BY <1>1, <1>3, <1>6, <1>7 DEF Call

\* Disable and Enable keep the invariant, and every binding.
LEMMA EnableStep ==
    ASSUME RegistryInv, NEW id \in Ids, NEW enabled \in BOOLEAN, SetEnabled(id, enabled)
    PROVE  /\ RegistryInv'
           /\ \A i \in Ids : Exists(i) => /\ Exists(i)'
                                          /\ byID'[i].alias = byID[i].alias
                                          /\ factories'[i] = factories[i]
<1> DEFINE new == Row(byID[id].alias, enabled, byID[id].isDefaultEntry)
<1>1. byID[id] \in Rows
  BY DEF SetEnabled, Exists, RegistryInv, TypeOK
<1>2. new \in Rows /\ new.alias = byID[id].alias /\ new.isDefaultEntry = byID[id].isDefaultEntry
  BY <1>1 DEF Row, Rows
<1>3. byID' = [byID EXCEPT ![id] = new]
  BY DEF SetEnabled
<1> HIDE DEF new
<1>4. TypeOK' /\ UNCHANGED <<byAlias, factories, defaultID>>
  BY <1>2, <1>3 DEF SetEnabled, RegistryInv, TypeOK
<1>5. \A i \in Ids : /\ Exists(i)' <=> Exists(i)
                     /\ byID'[i].alias = byID[i].alias
                     /\ byID'[i].isDefaultEntry = byID[i].isDefaultEntry
  BY <1>1, <1>2, <1>3, NoRowAssumption DEF Exists, RegistryInv, TypeOK
<1>6. OneDefault' /\ AliasesConsistent' /\ HasFactory'
  BY <1>4, <1>5 DEF RegistryInv, OneDefault, AliasesConsistent, HasFactory, Exists
<1> QED BY <1>4, <1>5, <1>6 DEF RegistryInv

\* Every step keeps the invariant and every binding.
LEMMA RegistryStep ==
    ASSUME RegistryInv, [Next]_vars
    PROVE  /\ RegistryInv'
           /\ \A i \in Ids : Exists(i) => /\ Exists(i)'
                                          /\ byID'[i].alias = byID[i].alias
                                          /\ factories'[i] = factories[i]
<1>1. CASE UNCHANGED vars
  BY <1>1 DEF vars, RegistryInv, TypeOK, OneDefault, AliasesConsistent, HasFactory, Exists
<1> QED BY <1>1, CallStep, EnableStep DEF Next, Disable, Enable

\* The invariant holds throughout.
LEMMA RegistryInvariant == Spec => []RegistryInv
<1>1. Init => RegistryInv
  BY BlankAssumption DEF Init, RegistryInv, TypeOK, OneDefault, AliasesConsistent, HasFactory, Exists
<1>2. RegistryInv /\ [Next]_vars => RegistryInv'
  BY RegistryStep
<1> QED BY <1>1, <1>2, PTL DEF Spec

\* The default flag of the rows and defaultID never disagree, and at most one
\* workspace is the default.
THEOREM DefaultUnique == Spec => []OneDefault
<1>1. RegistryInv => OneDefault
  BY DEF RegistryInv
<1> QED BY <1>1, RegistryInvariant, PTL

\* Every alias and every default that can be looked up leads to a whole
\* registration: row and factory.
THEOREM LookupsComplete == Spec => []NoDanglingLookup
<1>1. RegistryInv => NoDanglingLookup
  <2> SUFFICES ASSUME RegistryInv PROVE NoDanglingLookup
    OBVIOUS
  <2>1. \A id \in Ids : LookupByIDLocked(id) # "invalid"
    BY DEF RegistryInv, HasFactory, LookupByIDLocked
  <2>2. \A id \in Ids : Exists(id) => LookupByIDLocked(id) # "workspace not found"
    BY DEF LookupByIDLocked
  <2>3. \A a \in Aliases : byAlias[a] # Blank => byAlias[a] \in Ids /\ Exists(byAlias[a])
    BY DEF RegistryInv, TypeOK, AliasesConsistent
  <2>4. defaultID # Blank => defaultID \in Ids /\ Exists(defaultID)
    BY DEF RegistryInv, TypeOK, OneDefault
  <2> QED BY <2>1, <2>2, <2>3, <2>4 DEF NoDanglingLookup, LookupByAlias, LookupDefault
<1> QED BY <1>1, RegistryInvariant, PTL

\* A registered workspace keeps its alias and its factory for ever.
THEOREM RegistrationsPermanent == Spec => BindingsArePermanent
<1>1. RegistryInv /\ [Next]_vars =>
        [\A id \in Ids : Exists(id) => /\ Exists(id)'
                                       /\ byID'[id].alias = byID[id].alias
                                       /\ factories'[id] = factories[id]]_vars
  BY RegistryStep
<1> QED BY <1>1, RegistryInvariant, PTL DEF Spec, BindingsArePermanent

(***************************************************************************)
(* The id generator.                                                       *)
(***************************************************************************)

\* What lastUnixNano bounds: every stamp that is out, every id returned, and with
\* these every id that a caller waiting for the mutex has seen.
Bounded ==
    /\ \A id \in ids : id <= lastUnixNano
    /\ \A c \in Callers : caller[c] = "entropy" => stamp[c] <= lastUnixNano
    /\ \A c \in Callers : caller[c] = "lock" => \A id \in before[c] : id <= lastUnixNano

\* What every step of the generator preserves.
IdInv == IdTypeOK /\ Bounded /\ IdsFollowCalls

\* A stamp is later than the one before it, whatever the clock shows.
LEMMA StampAdvances ==
    ASSUME lastUnixNano \in Nat, NEW now \in Times
    PROVE  Stamp(now) \in Nat /\ lastUnixNano < Stamp(now)
  BY IdGenAssumption DEF Stamp

\* It holds of a new generator.
LEMMA IdInvInit == IdInit => IdInv
  BY DEF IdInit, IdInv, IdTypeOK, Bounded, IdsFollowCalls

\* It is kept by every step.
LEMMA IdInvNext == IdInv /\ [IdNext]_idVars => IdInv'
<1> SUFFICES ASSUME IdInv, [IdNext]_idVars PROVE IdInv'
  OBVIOUS
<1> USE DEF IdInv
<1>1. ASSUME NEW c \in Callers, CallNextID(c) PROVE IdInv'
  BY <1>1 DEF CallNextID, IdTypeOK, Bounded, IdsFollowCalls
<1>2. ASSUME NEW c \in Callers, TakeStamp(c) PROVE IdInv'
  <2>1. PICK now \in Times : lastUnixNano' = Stamp(now) /\ stamp' = [stamp EXCEPT ![c] = Stamp(now)]
    BY <1>2 DEF TakeStamp
  <2>2. lastUnixNano' \in Nat /\ lastUnixNano < lastUnixNano'
    BY <2>1, StampAdvances DEF IdTypeOK
  <2>3. /\ caller[c] = "lock" /\ caller' = [caller EXCEPT ![c] = "entropy"]
        /\ stamp' = [stamp EXCEPT ![c] = lastUnixNano']
        /\ before' = before /\ ids' = ids
    BY <1>2, <2>1 DEF TakeStamp
  <2>4. IdTypeOK'
    BY <2>2, <2>3 DEF IdTypeOK
  <2>5. Bounded'
    BY <2>2, <2>3 DEF IdTypeOK, Bounded
  <2>6. IdsFollowCalls'
    BY <2>2, <2>3 DEF IdTypeOK, Bounded, IdsFollowCalls
  <2> QED BY <2>4, <2>5, <2>6
<1>3. ASSUME NEW c \in Callers, ReturnID(c) PROVE IdInv'
  <2>1. IdTypeOK'
    BY <1>3 DEF ReturnID, IdTypeOK
  <2>2. Bounded'
    BY <1>3 DEF ReturnID, IdTypeOK, Bounded
  <2>3. IdsFollowCalls'
    BY <1>3 DEF ReturnID, IdTypeOK, IdsFollowCalls
  <2> QED BY <2>1, <2>2, <2>3
<1>4. ASSUME NEW c \in Callers, NoEntropy(c) PROVE IdInv'
  BY <1>4 DEF NoEntropy, IdTypeOK, Bounded, IdsFollowCalls
<1>5. CASE UNCHANGED idVars
  BY <1>5 DEF idVars, IdTypeOK, Bounded, IdsFollowCalls
<1> QED BY <1>1, <1>2, <1>3, <1>4, <1>5 DEF IdNext

\* Ids are unique and follow the order of the calls, for any number of callers
\* and whatever the clock does.
THEOREM IdsOrdered == IdSpec => []IdsFollowCalls
<1>1. IdInv => IdsFollowCalls
  BY DEF IdInv
<1> QED BY IdInvInit, IdInvNext, <1>1, PTL DEF IdSpec
=============================================================================
