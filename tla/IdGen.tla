-------------------------------- MODULE IdGen --------------------------------
(***************************************************************************)
(* The default id generator of the orchestrator (src/pkg/orchestrator/     *)
(* idgen/idgen.go): nextID takes a time stamp under the mutex and leaves   *)
(* the mutex before it reads entropy and returns.  The clock may stand     *)
(* still or go back between two calls, so each reading is any time at all. *)
(* Ids are sorted by their stamp, which is printed at a fixed width; the   *)
(* entropy behind it is left out, as if it were always the same.           *)
(***************************************************************************)
EXTENDS Integers, FiniteSets

CONSTANTS
    Callers,     \* the goroutines that ask for ids
    Times,       \* what the clock may show
    MaxIds       \* bound: ids given out

ASSUME IdGenAssumption == Times \subseteq Nat /\ MaxIds \in Nat

VARIABLES
    lastUnixNano,   \* the generator's last stamp
    caller,         \* each caller: "out", "lock", "entropy" or "panicked"
    stamp,          \* the stamp it was given
    before,         \* the ids that had been returned when its call began
    ids             \* the ids returned

idVars == <<lastUnixNano, caller, stamp, before, ids>>

\* NewDefault
IdInit ==
    /\ lastUnixNano = 0
    /\ caller = [c \in Callers |-> "out"]
    /\ stamp = [c \in Callers |-> 0]
    /\ before = [c \in Callers |-> {}]
    /\ ids = {}

CallNextID(c) ==
    /\ caller[c] = "out"
    /\ Cardinality(ids) + Cardinality({d \in Callers : caller[d] # "out"}) < MaxIds
    /\ caller' = [caller EXCEPT ![c] = "lock"]
    /\ before' = [before EXCEPT ![c] = ids]
    /\ UNCHANGED <<lastUnixNano, stamp, ids>>

\* A faulty variant: a clock that stands still is trusted.
StampUnlessBack(now) == IF now < lastUnixNano THEN lastUnixNano + 1 ELSE now

Stamp(now) == IF now <= lastUnixNano THEN lastUnixNano + 1 ELSE now

\* From Lock to Unlock.
TakeStamp(c) ==
    /\ caller[c] = "lock"
    /\ \E now \in Times :
          /\ lastUnixNano' = Stamp(now)
          /\ stamp' = [stamp EXCEPT ![c] = Stamp(now)]
    /\ caller' = [caller EXCEPT ![c] = "entropy"]
    /\ UNCHANGED <<before, ids>>

ReturnID(c) ==
    /\ caller[c] = "entropy"
    /\ caller' = [caller EXCEPT ![c] = "out"]
    /\ ids' = ids \cup {stamp[c]}
    /\ UNCHANGED <<lastUnixNano, stamp, before>>

\* No entropy: nextID panics.
NoEntropy(c) ==
    /\ caller[c] = "entropy"
    /\ caller' = [caller EXCEPT ![c] = "panicked"]
    /\ UNCHANGED <<lastUnixNano, stamp, before, ids>>

IdNext == \E c \in Callers : CallNextID(c) \/ TakeStamp(c) \/ ReturnID(c) \/ NoEntropy(c)

IdSpec == IdInit /\ [][IdNext]_idVars

----------------------------------------------------------------------------
\* Type invariant.
IdTypeOK ==
    /\ lastUnixNano \in Nat
    /\ caller \in [Callers -> {"out", "lock", "entropy", "panicked"}]
    /\ stamp \in [Callers -> Nat]
    /\ before \in [Callers -> SUBSET Nat]
    /\ ids \subseteq Nat

\* "Lexicographically sortable by creation time within the same generator
\* instance": an id sorts after every id that had been returned when it was asked
\* for, and no id is given out twice, although callers overtake each other
\* between the mutex and their return and the clock need not advance.
IdsFollowCalls ==
    \A c \in Callers : caller[c] = "entropy" =>
        /\ \A id \in before[c] : id < stamp[c]
        /\ stamp[c] \notin ids
        /\ \A d \in Callers : caller[d] = "entropy" /\ stamp[d] = stamp[c] => d = c
=============================================================================
