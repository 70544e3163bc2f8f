-------------------------- MODULE WorkspaceStatus --------------------------
(***************************************************************************)
(* What the manager promises about the status of a workspace, whoever      *)
(* writes it: the state machine of the manager's design, one per id.  A    *)
(* row appears in init, leaves init once and for all, alternates between   *)
(* healthy and failed, and may be removed at any time; an id is never      *)
(* used again.  No workspace stays in init for ever.                       *)
(***************************************************************************)
CONSTANT Ids

VARIABLE status   \* per id: unused, init, healthy, failed or gone

Live == {"init", "healthy", "failed"}

StatusInit == status = [w \in Ids |-> "unused"]

Move(w, from, to) ==
  /\ status[w] \in from
  /\ status' = [status EXCEPT ![w] = to]

Create(w) == Move(w, {"unused"}, "init")

(* A create that is refused uses its id up.                                *)
Refuse(w) == Move(w, {"unused"}, "gone")

Resolve(w) == Move(w, {"init"}, "healthy") \/ Move(w, {"init"}, "failed")

Recover(w) == Move(w, {"failed"}, "healthy")

Degrade(w) == Move(w, {"healthy"}, "failed")

Remove(w) == Move(w, Live, "gone")

StatusNext ==
  \E w \in Ids :
    Create(w) \/ Refuse(w) \/ Resolve(w) \/ Recover(w) \/ Degrade(w) \/ Remove(w)

(* Someone settles every workspace: the installer, the watchdog, a Delete. *)
Settle(w) == status[w] = "init" /\ (Resolve(w) \/ Remove(w))

StatusSafe == StatusInit /\ [][StatusNext]_status

StatusSpec == StatusSafe /\ \A w \in Ids : WF_status(Settle(w))

=============================================================================
