------------------------------ MODULE JobQueue ------------------------------
(***************************************************************************)
(* What the controller's install queue promises to those who use it, with  *)
(* no lock, no condition variable and no counter: jobs are taken in the    *)
(* order submitted, each by one worker; Delete takes the queued jobs of    *)
(* its workspace away and goes on when no worker is installing it, or      *)
(* gives up while one does; a worker leaves only a stopped and empty       *)
(* queue.  Nobody waits for ever for what is there.                        *)
(***************************************************************************)
EXTENDS Naturals

CONSTANTS Workers, Deletes, Ids

VARIABLES
    queue,       \* the jobs, numbered in the order submitted
    submits,     \* how many there have been
    stopped,
    work,        \* what each worker installs: a set of at most one workspace
    gone,        \* the workers that have left
    calls        \* each Delete: where it is, and the workspace it is about

vars == <<queue, submits, stopped, work, gone, calls>>

Out == [at |-> "out", of |-> {}]

JobInit ==
    /\ queue = {} /\ submits = 0 /\ stopped = FALSE
    /\ work = [w \in Workers |-> {}]
    /\ gone = {}
    /\ calls = [d \in Deletes |-> Out]

Submit(id) ==
    /\ ~stopped
    /\ queue' = queue \cup {[n |-> submits, id |-> id]}
    /\ submits' = submits + 1
    /\ UNCHANGED <<stopped, work, gone, calls>>

Stop ==
    /\ ~stopped
    /\ stopped' = TRUE
    /\ UNCHANGED <<queue, submits, work, gone, calls>>

Free(w) == work[w] = {} /\ w \notin gone

Take(w) ==
    /\ Free(w)
    /\ \E j \in queue :
          /\ \A k \in queue : j.n <= k.n
          /\ queue' = queue \ {j}
          /\ work' = [work EXCEPT ![w] = {j.id}]
    /\ UNCHANGED <<submits, stopped, gone, calls>>

Finish(w) ==
    /\ work[w] # {}
    /\ work' = [work EXCEPT ![w] = {}]
    /\ UNCHANGED <<queue, submits, stopped, gone, calls>>

Leave(w) ==
    /\ Free(w)
    /\ stopped /\ queue = {}
    /\ gone' = gone \cup {w}
    /\ UNCHANGED <<queue, submits, stopped, work, calls>>

CallDelete(d, id) ==
    /\ ~stopped
    /\ calls[d] = Out
    /\ calls' = [calls EXCEPT ![d] = [at |-> "enter", of |-> {id}]]
    /\ UNCHANGED <<queue, submits, stopped, work, gone>>

Move(d, from, to) == calls[d].at = from /\ calls' = [calls EXCEPT ![d].at = to]

TakeBack(d) ==
    /\ Move(d, "enter", "wait")
    /\ queue' = {j \in queue : j.id \notin calls[d].of}
    /\ UNCHANGED <<submits, stopped, work, gone>>

\* The workers installing the workspace that d is about.
AtIt(d) == {w \in Workers : work[w] \cap calls[d].of # {}}

GoOn(d) ==
    /\ Move(d, "wait", "alone")
    /\ AtIt(d) = {}
    /\ UNCHANGED <<queue, submits, stopped, work, gone>>

GiveUp(d) ==
    /\ calls[d].at = "wait"
    /\ AtIt(d) # {}
    /\ calls' = [calls EXCEPT ![d] = Out]
    /\ UNCHANGED <<queue, submits, stopped, work, gone>>

Return(d) ==
    /\ calls[d].at = "alone"
    /\ calls' = [calls EXCEPT ![d] = Out]
    /\ UNCHANGED <<queue, submits, stopped, work, gone>>

JobNext ==
    \/ \E id \in Ids : Submit(id)
    \/ Stop
    \/ \E w \in Workers : Take(w) \/ Finish(w) \/ Leave(w)
    \/ \E d \in Deletes : TakeBack(d) \/ GoOn(d) \/ GiveUp(d) \/ Return(d) \/ (\E id \in Ids : CallDelete(d, id))

JobSafe == JobInit /\ [][JobNext]_vars

\* Somebody takes a queued job while somebody is free; every install ends; every
\* worker leaves a stopped queue; every Delete gets on when it may.
JobSpec ==
    /\ JobSafe
    /\ WF_vars(\E w \in Workers : Take(w))
    /\ \A w \in Workers : WF_vars(Finish(w)) /\ WF_vars(Leave(w))
    /\ \A d \in Deletes : WF_vars(TakeBack(d)) /\ WF_vars(GoOn(d))
=============================================================================
