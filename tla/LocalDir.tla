------------------------------ MODULE LocalDir ------------------------------
(***************************************************************************)
(* One InfraOps value of the localdir backend, shared by concurrent        *)
(* callers: Init, Open, the operations that hold the root handle (PutFile  *)
(* in detail; Exec, GetFile and Request as "Use") and Clear.  A step is    *)
(* one critical section of ops.mu or one file-system call made outside it. *)
(*                                                                         *)
(* ops.cond is modelled as it is: a caller whose predicate fails sleeps,   *)
(* and only a Broadcast wakes it, from a release, from the end of a Clear  *)
(* or from the watcher goroutine of a waiter whose context ended.          *)
(*                                                                         *)
(* A directory is an inode, so that a path can be replaced under an open   *)
(* handle; contents holds the names in it.  Other processes may replace    *)
(* the path or add a file at any time.                                     *)
(***************************************************************************)
EXTENDS Naturals, FiniteSets

CONSTANTS
  Callers,
  Inodes,
  NoInode,
  MaxCalls,       \* bound on the calls all callers make together
  Foreign         \* other processes touch the directory

ASSUME LocalDirAssumption ==
  /\ NoInode \notin Inodes
  /\ Foreign \in BOOLEAN
  /\ MaxCalls \in Nat
  /\ IsFiniteSet(Callers)

VARIABLES
  keepDir,        \* the keep_dir option; it does not change
  initialized, cleared, clearing, activeOps, root,   \* fields of ops
  path,           \* inode at ops.dir
  contents,       \* names in each directory
  used,           \* inodes handed out so far
  pc, op, ctx,    \* per caller: control point, method, context
  asleep,         \* callers inside cond.Wait
  handle,         \* the root a caller works through
  listing,        \* the entries the running Clear has read and not yet removed
  calls           \* calls made so far

opsVars == <<keepDir, initialized, cleared, clearing, activeOps, root>>
diskVars == <<path, contents, used>>
callVars == <<pc, op, ctx, asleep, handle, listing, calls>>
vars == <<opsVars, diskVars, callVars>>

Methods == {"Init", "Open", "PutFile", "Use", "Clear"}

Temp(c) == <<"tmp", c>>     \* the temporary sibling of c's PutFile
OurNames == {<<"file", c>> : c \in Callers} \cup {Temp(c) : c \in Callers}
Names == OurNames \cup {<<"foreign", NoInode>>}

(* Type invariant.  The count of running operations stays between none and *)
(* one for each caller.                                                    *)
TypeOK ==
  /\ keepDir \in BOOLEAN
  /\ initialized \in BOOLEAN /\ cleared \in BOOLEAN /\ clearing \in BOOLEAN
  /\ activeOps \in 0 .. Cardinality(Callers)
  /\ root \in Inodes \cup {NoInode}
  /\ path \in Inodes \cup {NoInode}
  /\ contents \in [Inodes -> SUBSET Names]
  /\ used \subseteq Inodes
  /\ pc \in [Callers -> {"idle", "enter", "busy", "put", "drain", "sweep", "unlink", "rmdir"}]
  /\ op \in [Callers -> Methods]
  /\ ctx \in [Callers -> {"live", "done"}]
  /\ asleep \subseteq Callers
  /\ handle \in [Callers -> Inodes \cup {NoInode}]
  /\ listing \subseteq Names
  /\ calls \in 0 .. MaxCalls

(* The directory may exist, empty or not, before the first call.           *)
Init ==
  /\ keepDir \in BOOLEAN
  /\ initialized = FALSE /\ cleared = FALSE /\ clearing = FALSE
  /\ activeOps = 0 /\ root = NoInode
  /\ path \in Inodes \cup {NoInode}
  /\ used = {path} \ {NoInode}
  /\ \E occupied \in SUBSET used :
       contents = [i \in Inodes |-> IF i \in occupied THEN {<<"foreign", NoInode>>} ELSE {}]
  /\ pc = [c \in Callers |-> "idle"]
  /\ op = [c \in Callers |-> "Use"]
  /\ ctx = [c \in Callers |-> "live"]
  /\ asleep = {}
  /\ handle = [c \in Callers |-> NoInode]
  /\ listing = {}
  /\ calls = 0

-----------------------------------------------------------------------------
(* Control                                                                 *)

Goto(c, point) ==
  /\ pc' = [pc EXCEPT ![c] = point]
  /\ UNCHANGED <<op, ctx>>

(* The call is over, and with it its locals.                               *)
Return(c) ==
  /\ pc' = [pc EXCEPT ![c] = "idle"]
  /\ op' = [op EXCEPT ![c] = "Use"]
  /\ ctx' = [ctx EXCEPT ![c] = "live"]
  /\ handle' = [handle EXCEPT ![c] = NoInode]

Call(c, method) ==
  /\ pc[c] = "idle"
  /\ calls < MaxCalls
  /\ calls' = calls + 1
  /\ op' = [op EXCEPT ![c] = method]
  /\ pc' = [pc EXCEPT ![c] = "enter"]
  /\ UNCHANGED <<opsVars, diskVars, ctx, asleep, handle, listing>>

(* The caller's context ends.                                              *)
Cancel(c) ==
  /\ pc[c] # "idle"
  /\ ctx[c] = "live"
  /\ ctx' = [ctx EXCEPT ![c] = "done"]
  /\ UNCHANGED <<opsVars, diskVars, pc, op, asleep, handle, listing, calls>>

(* The watcher of waitCondWithContextLocked.                               *)
Watcher(c) ==
  /\ c \in asleep
  /\ ctx[c] = "done"
  /\ asleep' = {}
  /\ UNCHANGED <<opsVars, diskVars, pc, op, ctx, handle, listing, calls>>

(* A faulty variant: Clear does not wait for running operations.           *)
DrainedAlways == TRUE

(* What waitCondWithContextLocked waits for: Clear, for the operations to  *)
(* end; every other call, and a second Clear, for the running one.         *)
Drained == activeOps = 0

NotClearing == ~clearing

Ready(c) == IF pc[c] = "enter" THEN NotClearing ELSE Drained

Sleep(c) ==
  /\ pc[c] \in {"enter", "drain"}
  /\ c \notin asleep /\ ctx[c] = "live" /\ ~Ready(c)
  /\ asleep' = asleep \cup {c}
  /\ UNCHANGED <<opsVars, diskVars, pc, op, ctx, handle, listing, calls>>

(* Awake, with the context live and the predicate satisfied.               *)
Proceeds(c, point) == pc[c] = point /\ c \notin asleep /\ ctx[c] = "live" /\ Ready(c)

(* A waiter whose context is done returns its error; a Clear that had      *)
(* already announced itself takes that back.                               *)
GiveUp(c) ==
  /\ pc[c] \in {"enter", "drain"}
  /\ c \notin asleep /\ ctx[c] = "done"
  /\ IF pc[c] = "drain"
     THEN clearing' = FALSE /\ asleep' = {}
     ELSE UNCHANGED <<clearing, asleep>>
  /\ Return(c)
  /\ UNCHANGED <<keepDir, initialized, cleared, activeOps, root, diskVars, listing, calls>>

-----------------------------------------------------------------------------
(* Init and Open, which hold the mutex throughout                          *)

Publish(inode) ==
  /\ root' = inode
  /\ initialized' = TRUE
  /\ UNCHANGED <<keepDir, cleared, clearing, activeOps>>

(* Init takes an absent or an empty directory.  A context that ends before *)
(* setRootLocked leaves the directory it made and no root.                 *)
InitDir(c) ==
  /\ Proceeds(c, "enter") /\ op[c] = "Init"
  /\ \/ /\ cleared \/ initialized \/ (path # NoInode /\ contents[path] # {})
        /\ UNCHANGED <<opsVars, diskVars>>
     \/ /\ ~cleared /\ ~initialized /\ path # NoInode /\ contents[path] = {}
        /\ Publish(path) \/ UNCHANGED opsVars
        /\ UNCHANGED diskVars
     \/ /\ ~cleared /\ ~initialized /\ path = NoInode
        /\ \E inode \in Inodes \ used :
             /\ path' = inode
             /\ used' = used \cup {inode}
             /\ Publish(inode) \/ UNCHANGED opsVars
        /\ UNCHANGED contents
  /\ Return(c)
  /\ UNCHANGED <<asleep, listing, calls>>

OpenDir(c) ==
  /\ Proceeds(c, "enter") /\ op[c] = "Open"
  /\ \/ UNCHANGED opsVars
     \/ ~cleared /\ ~initialized /\ path # NoInode /\ Publish(path)
  /\ Return(c)
  /\ UNCHANGED <<diskVars, asleep, listing, calls>>

-----------------------------------------------------------------------------
(* Operations through the root                                             *)

BeginOp(c) ==
  /\ Proceeds(c, "enter") /\ op[c] \in {"PutFile", "Use"}
  /\ IF cleared \/ ~initialized
     THEN Return(c) /\ UNCHANGED activeOps
     ELSE /\ activeOps' = activeOps + 1
          /\ handle' = [handle EXCEPT ![c] = root]
          /\ Goto(c, "busy")
  /\ UNCHANGED <<keepDir, initialized, cleared, clearing, root, diskVars, asleep, listing, calls>>

(* A faulty variant: the last operation does not wake a waiting Clear.     *)
ReleaseQuietly(c) ==
  /\ activeOps' = activeOps - 1
  /\ Return(c)
  /\ UNCHANGED <<keepDir, initialized, cleared, clearing, root, asleep>>

Release(c) ==
  /\ activeOps' = activeOps - 1
  /\ asleep' = IF activeOps = 1 THEN {} ELSE asleep
  /\ Return(c)
  /\ UNCHANGED <<keepDir, initialized, cleared, clearing, root>>

(* Exec, GetFile, Request, and a PutFile refused before its first write.   *)
EndUse(c) ==
  /\ pc[c] = "busy"
  /\ Release(c)
  /\ UNCHANGED <<diskVars, listing, calls>>

PutTemp(c) ==
  /\ pc[c] = "busy" /\ op[c] = "PutFile"
  /\ contents' = [contents EXCEPT ![handle[c]] = @ \cup {Temp(c)}]
  /\ Goto(c, "put")
  /\ UNCHANGED <<opsVars, path, used, asleep, handle, listing, calls>>

(* A faulty variant: a failed PutFile leaves its temporary file.           *)
AbortKeepsTemp(c) == contents

(* Rename into place, or remove the temporary file on any error.           *)
DropTemp(c) == [contents EXCEPT ![handle[c]] = @ \ {Temp(c)}]

PutEnd(c) ==
  /\ pc[c] = "put"
  /\ \/ contents' = [contents EXCEPT ![handle[c]] = (@ \ {Temp(c)}) \cup {<<"file", c>>}]
     \/ contents' = DropTemp(c)
  /\ Release(c)
  /\ UNCHANGED <<path, used, listing, calls>>

-----------------------------------------------------------------------------
(* Clear                                                                   *)

ClearBegin(c) ==
  /\ Proceeds(c, "enter") /\ op[c] = "Clear"
  /\ IF cleared
     THEN Return(c) /\ UNCHANGED clearing
     ELSE clearing' = TRUE /\ Goto(c, "drain") /\ UNCHANGED handle
  /\ UNCHANGED <<keepDir, initialized, cleared, activeOps, root, diskVars, asleep, listing, calls>>

(* A faulty variant: a Clear that failed counts as done.                   *)
ClearEndsCleared(c, ok) ==
  /\ root' = NoInode /\ initialized' = FALSE /\ cleared' = TRUE
  /\ clearing' = FALSE
  /\ asleep' = {}
  /\ Return(c)
  /\ UNCHANGED <<keepDir, activeOps>>

(* The end of Clear: the root is closed either way, cleared only on        *)
(* success.                                                                *)
ClearEnd(c, ok) ==
  /\ root' = NoInode
  /\ initialized' = FALSE
  /\ cleared' = (cleared \/ ok)
  /\ clearing' = FALSE
  /\ asleep' = {}
  /\ Return(c)
  /\ UNCHANGED <<keepDir, activeOps>>

(* Without a root Clear opens whatever is at the path.  clearRootContents  *)
(* reads the directory once ...                                            *)
ClearDrained(c) ==
  /\ Proceeds(c, "drain")
  /\ IF root = NoInode /\ path = NoInode
     THEN ClearEnd(c, TRUE) /\ UNCHANGED listing
     ELSE LET opened == IF root # NoInode THEN root ELSE path
          IN /\ handle' = [handle EXCEPT ![c] = opened]
             /\ listing' = contents[opened]
             /\ Goto(c, "sweep")
             /\ UNCHANGED <<opsVars, asleep>>
  /\ UNCHANGED <<diskVars, calls>>

(* A faulty variant: entries are removed by their path, not through the    *)
(* root handle.                                                            *)
SweptByPath(c) == path

(* ... and removes what it read, one entry at a time, through the handle.  *)
Swept(c) == handle[c]

SweepOne(c) ==
  /\ pc[c] = "sweep" /\ ctx[c] = "live"
  /\ Swept(c) # NoInode
  /\ \E name \in listing :
       /\ contents' = [contents EXCEPT ![Swept(c)] = @ \ {name}]
       /\ listing' = listing \ {name}
  /\ UNCHANGED <<opsVars, path, used, pc, op, ctx, asleep, handle, calls>>

(* The context ended, or an entry or the directory cannot be read or       *)
(* removed.                                                                *)
SweepFails(c) ==
  /\ pc[c] = "sweep"
  /\ ClearEnd(c, FALSE)
  /\ listing' = {}
  /\ UNCHANGED <<diskVars, calls>>

SweepDone(c) ==
  /\ pc[c] = "sweep" /\ listing = {}
  /\ IF keepDir
     THEN ClearEnd(c, TRUE)
     ELSE Goto(c, "unlink") /\ UNCHANGED <<opsVars, asleep, handle>>
  /\ UNCHANGED <<diskVars, listing, calls>>

(* The directory goes unless the path no longer names it: first the path   *)
(* is looked at ...                                                        *)
UnlinkCheck(c) ==
  /\ pc[c] = "unlink"
  /\ \/ path # handle[c] /\ ClearEnd(c, TRUE)
     \/ path = handle[c] /\ Goto(c, "rmdir") /\ UNCHANGED <<opsVars, asleep, handle>>
  /\ UNCHANGED <<diskVars, listing, calls>>

(* ... and then, in a second call, whatever is there is removed.  That     *)
(* fails on a directory with something in it.                              *)
Rmdir(c) ==
  /\ pc[c] = "rmdir"
  /\ \/ path = NoInode /\ ClearEnd(c, TRUE) /\ UNCHANGED path
     \/ path # NoInode /\ contents[path] = {} /\ path' = NoInode /\ ClearEnd(c, TRUE)
     \/ path # NoInode /\ contents[path] # {} /\ ClearEnd(c, FALSE) /\ UNCHANGED path
  /\ UNCHANGED <<contents, used, listing, calls>>

-----------------------------------------------------------------------------
(* Other processes                                                         *)

Replace ==
  /\ Foreign
  /\ path # NoInode
  /\ \E inode \in Inodes \ used :
       path' = inode /\ used' = used \cup {inode}
  /\ UNCHANGED <<opsVars, contents, callVars>>

ForeignWrite ==
  /\ Foreign
  /\ path # NoInode
  /\ <<"foreign", NoInode>> \notin contents[path]
  /\ contents' = [contents EXCEPT ![path] = @ \cup {<<"foreign", NoInode>>}]
  /\ UNCHANGED <<opsVars, path, used, callVars>>

-----------------------------------------------------------------------------
Step(c) ==
  \/ Sleep(c) \/ Watcher(c) \/ GiveUp(c)
  \/ InitDir(c) \/ OpenDir(c)
  \/ BeginOp(c) \/ EndUse(c) \/ PutTemp(c) \/ PutEnd(c)
  \/ ClearBegin(c) \/ ClearDrained(c)
  \/ SweepOne(c) \/ SweepFails(c) \/ SweepDone(c)
  \/ UnlinkCheck(c) \/ Rmdir(c)

Terminated == (\A c \in Callers : pc[c] = "idle") /\ calls = MaxCalls /\ UNCHANGED vars

Next ==
  \/ \E c \in Callers : Step(c) \/ Cancel(c) \/ \E method \in Methods : Call(c, method)
  \/ Replace \/ ForeignWrite
  \/ Terminated

Spec == Init /\ [][Next]_vars

-----------------------------------------------------------------------------
Removing(c) == pc[c] \in {"sweep", "unlink", "rmdir"}

Clearing(c) == pc[c] = "drain" \/ Removing(c)

InOp(c) == pc[c] \in {"busy", "put"}

(* Clear has the directory to itself: while it removes files no operation  *)
(* of this instance is under way and no second Clear has started, although *)
(* Clear does not hold the mutex then.  An operation works through the     *)
(* root that the instance still holds open: neither Clear nor a failed     *)
(* Clear closes it under a running operation, and every one is counted.    *)
ClearExcludesOperations ==
  /\ \A c \in Callers : Removing(c) =>
       /\ clearing
       /\ \A d \in Callers \ {c} : ~InOp(d) /\ ~Clearing(d)
  /\ \A c \in Callers : InOp(c) => initialized /\ handle[c] = root
  /\ initialized = (root # NoInode)
  /\ activeOps = Cardinality({c \in Callers : InOp(c)})

(* No Broadcast is missed: a caller sleeps only while what it waits for is *)
(* still missing, a Clear for running operations to end and every other    *)
(* call for a Clear that some caller is really carrying out.  So the last  *)
(* release, the end of a Clear and a Clear that is given up all wake       *)
(* whoever may proceed.                                                    *)
NobodyOversleeps ==
  /\ \A c \in asleep : ~Ready(c)
  /\ clearing => \E c \in Callers : Clearing(c)

(* A PutFile that failed leaves no temporary file behind.                  *)
NoStrayTemp ==
  \A c \in Callers, i \in Inodes :
    Temp(c) \in contents[i] => pc[c] = "put" /\ handle[c] = i

(* After a successful Clear nothing this instance wrote is left at the     *)
(* path, whatever was cleared, re-opened, replaced or cancelled before.    *)
ClearedLeavesNothing ==
  cleared => path = NoInode \/ contents[path] \cap OurNames = {}

(* While Clear removes files, nothing is taken out of a directory other    *)
(* than the one it opened, and no such directory with something in it      *)
(* disappears: a path that was replaced keeps its contents, even if that   *)
(* happens between Clear's check of the path and its os.Remove.            *)
ReplacementContentsSurvive ==
  [][\A c \in Callers : Removing(c) =>
       \A i \in Inodes \ {handle[c]} :
         /\ contents[i] \subseteq contents'[i]
         /\ path = i /\ contents[i] # {} => path' # NoInode]_vars

(* Clear never removes a path that was replaced after the root was opened: *)
(* when it comes to os.Remove the path is its own directory, is gone, or   *)
(* names a directory that os.Remove refuses.                               *)
ReplacementKept ==
  \A c \in Callers : pc[c] = "rmdir" =>
    path \in {handle[c], NoInode} \/ contents[path] # {}

=============================================================================
