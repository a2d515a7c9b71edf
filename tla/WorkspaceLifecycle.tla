------------------------- MODULE WorkspaceLifecycle -------------------------
(***************************************************************************)
(* What the workspace service promises its callers about the state of a    *)
(* workspace, without gates, failure codes or provider calls.              *)
(* WorkspaceService implements it; Maintenance relies on it.               *)
(*                                                                         *)
(* "off" stands for every state in which no runtime may be live: no row    *)
(* yet, queued, awaiting_setup_approval, suspended and failed.             *)
(***************************************************************************)
CONSTANT Workspaces

VARIABLES
    ws,      \* the state of every workspace
    closed   \* the maintenance drain is set and every earlier start has settled

lifecycleVars == <<ws, closed>>

WorkspaceStates == {"off", "provisioning", "live", "suspending", "deleting", "gone"}

Move(w, from, to) ==
    /\ ws[w] \in from
    /\ ws' = [ws EXCEPT ![w] = to]
    /\ UNCHANGED closed

\* A start is admitted: never while the drain is closed.
Reserve(w) == ~closed /\ Move(w, {"off"}, "provisioning")

\* A start succeeds, or is given up with nothing left running.
Provisioned(w) == Move(w, {"provisioning"}, "live")
Abandoned(w) == Move(w, {"provisioning"}, "off")

Suspending(w) == Move(w, {"live"}, "suspending")
Suspended(w) == Move(w, {"suspending"}, "off")

\* A tombstone is final.
Tombstoned(w) == Move(w, WorkspaceStates \ {"deleting", "gone"}, "deleting")
Finalized(w) == Move(w, {"deleting"}, "gone")

WorkspaceStep(w) ==
    \/ Reserve(w) \/ Provisioned(w) \/ Abandoned(w)
    \/ Suspending(w) \/ Suspended(w)
    \/ Tombstoned(w) \/ Finalized(w)

SetClosed == closed' \in BOOLEAN /\ UNCHANGED ws

LifecycleInit == ws \in [Workspaces -> {"off", "provisioning"}] /\ closed = FALSE
LifecycleNext == SetClosed \/ \E w \in Workspaces : WorkspaceStep(w)
LifecycleSpec == LifecycleInit /\ [][LifecycleNext]_lifecycleVars

=============================================================================
