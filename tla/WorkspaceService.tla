-------------------------- MODULE WorkspaceService --------------------------
(***************************************************************************)
(* The workspace service of the control plane (internal/workspace), the    *)
(* admission controller it consults (internal/admission), the workspace    *)
(* rows it keeps (internal/postgres/workspace.go) and the Coder provider   *)
(* it drives (internal/coder/client.go).                                   *)
(*                                                                         *)
(* Every operation runs in its own goroutine.  An operation on workspace w *)
(* holds w's mutation gate from start to return: op[w] is its program      *)
(* state and op[w] = NoOp says the gate is free.  admissionGate and        *)
(* runtimeGate are the service's two global one-token channels.  Between   *)
(* two store or provider calls any other goroutine may run, any call may   *)
(* fail, and the process may crash: rows and providers survive a crash,    *)
(* operations, gates and the client's quota cache do not.                  *)
(***************************************************************************)
EXTENDS Integers, FiniteSets, FiniteSetsExt

CONSTANTS
    Workspaces,   \* logical workspace IDs (one owner)
    Lifecycle,    \* the lifecycle worker, when it runs ReconcileCapacity
    Maintenance,  \* the maintenance coordinator, when it holds admission
    None,         \* nobody holds a gate
    MaxRunning,   \* admission.Capacity.MaxRunning
    Pool,         \* Total - Reserve, in units of one scarce resource
    MinShare,     \* admission.Capacity.Minimum
    Inputs,       \* whether a new workspace has private inputs: BOOLEAN or one case
    Devcontainer, \* whether its repository has a Dev Container: likewise
    Faults,       \* the kinds of failure and intervention the environment may inject
    MaxFaults     \* bound: how many failures one behaviour contains

FaultKinds == {"crash", "store", "provider", "quota", "local", "disk", "maintenance"}

ASSUME ConstantsAssumption ==
    /\ IsFiniteSet(Workspaces)
    /\ Lifecycle \notin Workspaces
    /\ Maintenance \notin Workspaces \cup {Lifecycle}
    /\ None \notin Workspaces \cup {Lifecycle, Maintenance}
    /\ MaxRunning \in Nat \ {0}
    /\ Pool \in Nat \ {0}
    /\ MinShare \in Nat \ {0}
    /\ MaxFaults \in Nat
    /\ Inputs \subseteq BOOLEAN /\ Devcontainer \subseteq BOOLEAN
    /\ Faults \subseteq FaultKinds

VARIABLES
    rows,           \* the workspaces table
    phase,          \* what the provider resource of a workspace is doing
    limit,          \* the resource limit of the provider's latest build
    quotas,         \* Client.quotas: the last quota this process applied, 0 if none
    op,             \* the operation in flight for each workspace, and Lifecycle's
    admissionGate,  \* holder of Service.admissionGate
    runtimeGate,    \* holder of Service.runtimeGate
    drain,          \* Controller.maintenanceDrain and how far BeginMaintenanceDrain got
    faults          \* failures still allowed

vars == <<rows, phase, limit, quotas, op, admissionGate, runtimeGate, drain, faults>>

Actors == Workspaces \cup {Lifecycle}

-----------------------------------------------------------------------------
(* Rows *)

\* "none" and "gone" stand for a row not yet inserted and one finally deleted:
\* identifiers are random and never reused.  "ready", "needs_attention" and
\* "maintenance" are left out because no code path ever writes them.
LiveStates == {"running", "idle"}
States == {"none", "gone", "queued", "provisioning", "awaiting_setup_approval",
           "suspending", "suspended", "failed", "deleting"} \cup LiveStates

\* The failure codes the control flow reads.  "legacy" stands for the two
\* phases of older releases, "" and capacity_rebalance_pending; "other" for
\* every code that is only shown to the owner.
CleanupCodes == {"provision_cleanup_pending", "start_cleanup_pending",
                 "initialize_cleanup_pending"}
Codes == {"", "start_reserved", "provision_unconfirmed", "setup_stop_pending",
          "private_inputs_recreate", "legacy", "other"} \cup CleanupCodes

Row == [state : States,
        code : Codes,         \* FailureCode
        prov : BOOLEAN,       \* ProviderResourceID # ""
        quota : 0..Pool,      \* Quota
        inputs : BOOLEAN,     \* PrivateInputsPending
        dev : BOOLEAN,        \* DevcontainerDir # ""
        approved : BOOLEAN]   \* SetupApproved

NoRow == [state |-> "none", code |-> "", prov |-> FALSE, quota |-> 0,
          inputs |-> FALSE, dev |-> FALSE, approved |-> FALSE]

Exists(r) == r.state \notin {"none", "gone"}

\* Mutant: a workspace on its way down no longer counts.
CountsAsRunningMutant(r) == r.state \in {"provisioning", "deleting"} \cup LiveStates

CountsAsRunning(r) ==
    r.state \in {"provisioning", "suspending", "deleting"} \cup LiveStates

stableLiveProviderState(r) == r.state \in LiveStates

definitelyStoppedStartReservation(r) ==
    r.state = "provisioning" /\ r.code = "start_reserved"

privateInputsIncomplete(r) == r.inputs \/ r.code = "private_inputs_recreate"

quarantined(r) == [r EXCEPT !.state = "failed", !.code = "private_inputs_recreate"]

\* Mutant: quarantine without the check for a tombstone.
mayQuarantineMutant(r) == ~(r.state = "failed" /\ r.code = "private_inputs_recreate")

\* quarantinePrivateInputs refuses a tombstone and a row already quarantined.
mayQuarantine(r) ==
    /\ r.state # "deleting"
    /\ ~(r.state = "failed" /\ r.code = "private_inputs_recreate")

-----------------------------------------------------------------------------
(* Admission and shares *)

consumers == {w \in Workspaces : CountsAsRunning(rows[w])}

share(n) == Pool \div n

SharesDefined(n) == n <= MaxRunning /\ (n > 0 => share(n) >= MinShare)

\* PlanStart on a snapshot of the rows: admitted, and the quota of the decision.
\* diskOK is the measured free disk against the reserve and pending volumes.
PlanStart(diskOK) ==
    LET count == Cardinality(consumers) + 1
        considered == drain = "open" /\ count <= MaxRunning
    IN [admitted |-> considered /\ share(count) >= MinShare /\ diskOK,
        quota |-> IF considered THEN share(count) ELSE 0]

-----------------------------------------------------------------------------
(* Operations *)

Kinds == {"create", "approve", "deny", "retry", "reconcile", "resume", "suspend",
          "idle_suspend", "delete", "drain", "capacity"}

\* Control points: the call an operation makes next.  An operation is at one
\* of RuntimePCs exactly while it holds runtimeGate.
RuntimePCs ==
    {"provision", "list", "quota", "apply", "shrink", "save_unconfirmed",
     "call_provision", "save_provisioned", "save_start_pending", "call_start",
     "call_initialize", "save_running", "setup_stop", "save_awaiting",
     "save_setup_pending", "save_cleanup", "cleanup_stop", "save_failed",
     "reconcile", "lookup", "save_found", "save_reserved", "suspend",
     "save_suspending", "suspend_stop", "save_suspended", "delete",
     "delete_lookup", "save_delete_found", "call_delete", "finalize",
     "drain", "drain_lookup", "save_drain_found", "drain_stop", "save_drained"}
PCs == {"idle", "wait_admission", "decide", "commit", "inputs", "wait_runtime",
        "save_denied"} \cup RuntimePCs

NoOp == [kind |-> "capacity", pc |-> "idle", row |-> NoRow, final |-> "",
         starting |-> FALSE, todo |-> {}, cur |-> None, target |-> 0]

Op == [kind : Kinds, pc : PCs,
       row : Row,                  \* the goroutine's private copy of the row
       final : Codes,              \* the code a failed start ends in
       starting : BOOLEAN,         \* rebalancing for a start (startingID = own ID)
       todo : SUBSET Workspaces,   \* targets not yet rebalanced
       cur : Workspaces \cup {None},  \* the target being rebalanced
       target : 0..Pool]           \* the share every consumer is brought to

Fault(kind) == kind \in Faults /\ faults > 0 /\ faults' = faults - 1

Goto(w, pc) == op' = [op EXCEPT ![w].pc = pc]

ReleaseGates(a) ==
    /\ admissionGate' = IF admissionGate = a THEN None ELSE admissionGate
    /\ runtimeGate' = IF runtimeGate = a THEN None ELSE runtimeGate

\* The operation returns: its deferred releases free the gates it holds.
Return(a) ==
    /\ op' = [op EXCEPT ![a] = NoOp]
    /\ ReleaseGates(a)

KeepGates == UNCHANGED <<admissionGate, runtimeGate>>
KeepProvider == UNCHANGED <<phase, limit, quotas>>

\* store.Save of the private copy, changed to r, then on to pc.
Save(w, r, pc) ==
    /\ rows' = [rows EXCEPT ![w] = r]
    /\ op' = [op EXCEPT ![w].row = r, ![w].pc = pc]
    /\ KeepGates /\ KeepProvider /\ UNCHANGED <<drain, faults>>

SaveAndReturn(w, r) ==
    /\ rows' = [rows EXCEPT ![w] = r]
    /\ Return(w)
    /\ KeepProvider /\ UNCHANGED <<drain, faults>>

\* store.Save, then the best-effort rebalance every completed transition ends in.
SaveAndRebalance(w, r) ==
    /\ rows' = [rows EXCEPT ![w] = r]
    /\ op' = [op EXCEPT ![w].row = r, ![w].pc = "list", ![w].starting = FALSE]
    /\ KeepGates /\ KeepProvider /\ UNCHANGED <<drain, faults>>

\* A step that only moves the operation on, and one that only ends it.
Continue(w, pc) ==
    /\ Goto(w, pc)
    /\ KeepGates /\ KeepProvider /\ UNCHANGED <<rows, drain, faults>>
GiveUp(w) ==
    /\ Return(w)
    /\ KeepProvider /\ UNCHANGED <<rows, drain, faults>>

-----------------------------------------------------------------------------
(* Starting an operation: acquireWorkspaceMutation, and the checks made before *)
(* a global gate is awaited.  A call that its checks refuse changes nothing.   *)

Begin(w, kind, pc) ==
    /\ op[w].pc = "idle"
    /\ op' = [op EXCEPT ![w].kind = kind, ![w].row = rows[w], ![w].pc = pc]
    /\ KeepGates /\ KeepProvider /\ UNCHANGED <<rows, drain, faults>>

\* Create: the row exists only in memory until it is admitted or queued.
Create(w) ==
    /\ rows[w].state = "none"
    /\ op[w].pc = "idle"
    /\ \E dev \in Devcontainer, inputs \in Inputs :
          op' = [op EXCEPT ![w].kind = "create", ![w].pc = "wait_admission",
                           ![w].row = [NoRow EXCEPT !.state = "queued", !.dev = dev,
                                                    !.inputs = inputs]]
    /\ KeepGates /\ KeepProvider /\ UNCHANGED <<rows, drain, faults>>

ApproveSetup(w) ==
    /\ rows[w].state = "awaiting_setup_approval" /\ ~rows[w].approved
    /\ Begin(w, "approve", "wait_admission")

DenySetup(w) ==
    /\ rows[w].state = "awaiting_setup_approval" /\ ~rows[w].approved
    /\ Begin(w, "deny", "save_denied")

SaveDenied(w) ==
    /\ op[w].pc = "save_denied"
    /\ SaveAndReturn(w, [op[w].row EXCEPT !.state = "failed", !.code = "other"])

\* Retry of a row whose private inputs may be partial quarantines it.
RetryQuarantine(w) ==
    /\ op[w].pc = "idle"
    /\ Exists(rows[w]) /\ privateInputsIncomplete(rows[w]) /\ mayQuarantine(rows[w])
    /\ rows' = [rows EXCEPT ![w] = quarantined(rows[w])]
    /\ UNCHANGED <<op, drain, faults>> /\ KeepGates /\ KeepProvider

Retry(w) ==
    /\ ~privateInputsIncomplete(rows[w])
    /\ \/ /\ rows[w].state = "provisioning"
          /\ Begin(w, "reconcile", "wait_admission")
       \/ /\ rows[w].state \in {"failed", "queued"}
          /\ Begin(w, "retry", "wait_admission")

Resume(w) ==
    /\ rows[w].state = "suspended"
    /\ Begin(w, "resume", "wait_admission")

Suspend(w) ==
    /\ rows[w].state \in LiveStates \cup {"suspending"}
    /\ Begin(w, "suspend", "wait_runtime")

SuspendIfInactive(w) ==
    /\ rows[w].state \in {"idle", "suspending"}
    /\ Begin(w, "idle_suspend", "wait_runtime")

\* Which rows an automatic deletion may claim is WorkspaceRetention's subject.
Delete(w) ==
    /\ Exists(rows[w])
    /\ Begin(w, "delete", "wait_runtime")

ReconcileMaintenanceDrain(w) ==
    /\ drain = "drained"
    /\ rows[w].state = "provisioning"
    /\ Begin(w, "drain", "wait_runtime")

-----------------------------------------------------------------------------
(* The global gates *)

acquireAdmission(w) ==
    /\ op[w].pc = "wait_admission"
    /\ admissionGate = None
    /\ admissionGate' = w
    /\ Goto(w, IF op[w].kind = "reconcile" THEN "wait_runtime" ELSE "decide")
    /\ UNCHANGED <<rows, runtimeGate, drain, faults>> /\ KeepProvider

\* runtimeGate, then the fresh store.Get every holder makes first.
AfterRuntime(kind) ==
    CASE kind = "resume"                      -> "list"
      [] kind = "reconcile"                   -> "reconcile"
      [] kind \in {"suspend", "idle_suspend"} -> "suspend"
      [] kind = "delete"                      -> "delete"
      [] kind = "drain"                       -> "drain"
      [] OTHER                                -> "provision"

\* Mutant: the operation goes on with the copy it read before it waited.
acquireRuntimeMutant(w) ==
    /\ op[w].pc = "wait_runtime"
    /\ runtimeGate = None
    /\ runtimeGate' = w
    /\ op' = [op EXCEPT ![w].pc = AfterRuntime(op[w].kind),
                        ![w].starting = (op[w].kind = "resume")]
    /\ UNCHANGED <<rows, admissionGate, drain, faults>> /\ KeepProvider

acquireRuntime(w) ==
    /\ op[w].pc = "wait_runtime"
    /\ runtimeGate = None
    /\ runtimeGate' = w
    /\ op' = [op EXCEPT ![w].row = rows[w], ![w].pc = AfterRuntime(op[w].kind),
                        ![w].starting = (op[w].kind = "resume")]
    /\ UNCHANGED <<rows, admissionGate, drain, faults>> /\ KeepProvider

-----------------------------------------------------------------------------
(* Reservation: reserveNewStart and reserveExistingStart *)

validate(kind, r) ==
    CASE kind = "approve" -> r.state = "awaiting_setup_approval" /\ r.dev
      [] kind = "retry"   -> r.state \in {"failed", "queued"}
      [] kind = "resume"  -> r.state = "suspended"
      [] OTHER            -> TRUE

\* Get, validate, Snapshot and PlanStart; the decision is still private.
Decide(w, diskOK) ==
    LET kind == op[w].kind
        r == IF kind = "create" THEN op[w].row ELSE rows[w]
        d == PlanStart(diskOK)
        reserved == [r EXCEPT !.quota = d.quota,
                              !.approved = @ \/ kind = "approve",
                              !.state = IF d.admitted THEN "provisioning" ELSE "queued",
                              !.code = IF d.admitted THEN "start_reserved" ELSE "other"]
    IN /\ op[w].pc = "decide"
       /\ IF kind # "create" /\ privateInputsIncomplete(r)
            THEN /\ faults' = faults
                 /\ rows' = [rows EXCEPT ![w] = IF mayQuarantine(r) THEN quarantined(r) ELSE r]
                 /\ Return(w)
          ELSE IF ~validate(kind, r)
            THEN /\ faults' = faults
                 /\ Return(w) /\ UNCHANGED rows
          ELSE /\ IF diskOK THEN faults' = faults ELSE Fault("disk")
               /\ op' = [op EXCEPT ![w].row = reserved, ![w].pc = "commit"]
               /\ KeepGates /\ UNCHANGED rows
       /\ KeepProvider /\ UNCHANGED drain

\* store.Create or store.Save of the decision.
Commit(w) ==
    LET r == op[w].row
    IN /\ op[w].pc = "commit"
       /\ \/ /\ op[w].kind = "create" /\ r.inputs
             /\ Save(w, r, "inputs")
          \/ /\ ~(op[w].kind = "create" /\ r.inputs) /\ r.state = "provisioning"
             /\ Save(w, r, "wait_runtime")
          \/ /\ ~(op[w].kind = "create" /\ r.inputs) /\ r.state = "queued"
             /\ SaveAndReturn(w, r)

\* preparePrivateInputs: the marker is cleared only after every private value
\* is durable; any failure quarantines the row.
PrepareInputs(w) ==
    LET ready == [op[w].row EXCEPT !.inputs = FALSE]
    IN /\ op[w].pc = "inputs"
       /\ \/ /\ ready.state = "provisioning"
             /\ Save(w, ready, "wait_runtime")
          \/ /\ ready.state = "queued"
             /\ SaveAndReturn(w, ready)
          \/ /\ Fault("local")
             /\ rows' = [rows EXCEPT ![w] = quarantined(op[w].row)]
             /\ Return(w)
             /\ KeepProvider /\ UNCHANGED drain

-----------------------------------------------------------------------------
(* reconcileCapacityQuotas: every stable live peer is brought to its equal    *)
(* share, peers first and the starting workspace last.                        *)

unresolved(w, self, starting) ==
    /\ ~(starting /\ w = self)
    /\ ~stableLiveProviderState(rows[w])
    /\ ~definitelyStoppedStartReservation(rows[w])

\* List, Shares and the preflight over unresolved consumers.
ListConsumers(a) ==
    LET n == Cardinality(consumers)
        starting == op[a].starting
    IN /\ op[a].pc = "list"
       /\ IF SharesDefined(n) /\ \A w \in consumers : ~unresolved(w, a, starting)
            THEN /\ op' = [op EXCEPT ![a].pc = "quota",
                                     ![a].target = IF n = 0 THEN 0 ELSE share(n),
                                     ![a].todo = {w \in consumers :
                                                    /\ stableLiveProviderState(rows[w])
                                                    /\ ~(starting /\ w = a)}]
                 /\ KeepGates
            ELSE Return(a)   \* a start keeps its reservation for the next retry
       /\ KeepProvider /\ UNCHANGED <<rows, drain, faults>>

\* Mutant: the expansion is recorded only afterwards.
RaiseQuotaMutant(a, w) ==
    /\ op[a].pc = "quota"
    /\ w \in op[a].todo
    /\ op' = [op EXCEPT ![a].pc = "apply", ![a].todo = @ \ {w}, ![a].cur = w]
    /\ KeepGates /\ KeepProvider /\ UNCHANGED <<rows, drain, faults>>

\* Record an expansion before the provider can make it: the next target w.
\* Peers are handled in creation order; the order is left open here.
RaiseQuota(a, w) ==
    LET target == op[a].target
    IN /\ op[a].pc = "quota"
       /\ w \in op[a].todo
       /\ rows' = [rows EXCEPT ![w].quota = IF @ > target THEN @ ELSE target]
       /\ op' = [op EXCEPT ![a].pc = "apply", ![a].todo = @ \ {w}, ![a].cur = w]
       /\ KeepGates /\ KeepProvider /\ UNCHANGED <<drain, faults>>

\* Client.ApplyQuota: a quota this process remembers applying is not built
\* again; otherwise a start build carries it, and is waited for.  A failed or
\* interrupted build may or may not have changed the limit.
ApplyQuota(a) ==
    LET w == op[a].cur
        target == op[a].target
    IN /\ op[a].pc = "apply"
       /\ \/ /\ limit' = [limit EXCEPT ![w] = IF quotas[w] = target THEN @ ELSE target]
             /\ quotas' = [quotas EXCEPT ![w] = target]
             /\ Goto(a, "shrink")
             /\ KeepGates /\ UNCHANGED faults
          \/ /\ Fault("quota")
             /\ quotas[w] # target
             /\ limit' \in {limit, [limit EXCEPT ![w] = target]}
             /\ UNCHANGED quotas
             /\ Return(a)
       /\ UNCHANGED <<rows, phase, drain>>

\* Record a reduction only once the provider has made it.
ShrinkQuota(a) ==
    /\ op[a].pc = "shrink"
    /\ rows' = [rows EXCEPT ![op[a].cur].quota = op[a].target]
    /\ op' = [op EXCEPT ![a].pc = "quota", ![a].cur = None]
    /\ KeepGates /\ KeepProvider /\ UNCHANGED <<drain, faults>>

\* All peers done: the starting workspace takes its own share and goes on to
\* its provider call; a background rebalance is over.
FinishQuota(a) ==
    /\ op[a].pc = "quota"
    /\ op[a].todo = {}
    /\ ~op[a].starting
    /\ GiveUp(a)

FinishStartQuota(w) ==
    LET r == [op[w].row EXCEPT !.quota = op[w].target]
    IN /\ op[w].pc = "quota"
       /\ op[w].todo = {}
       /\ op[w].starting
       /\ rows' = [rows EXCEPT ![w].quota = op[w].target]
       /\ op' = [op EXCEPT ![w].row = r, ![w].starting = FALSE, ![w].target = 0,
                           ![w].pc = IF r.prov THEN "save_start_pending"
                                               ELSE "save_unconfirmed"]
       /\ KeepGates /\ KeepProvider /\ UNCHANGED <<drain, faults>>

ReconcileCapacity ==
    /\ op[Lifecycle].pc = "idle"
    /\ runtimeGate = None
    /\ runtimeGate' = Lifecycle
    /\ Goto(Lifecycle, "list")
    /\ UNCHANGED <<rows, admissionGate, drain, faults>> /\ KeepProvider

-----------------------------------------------------------------------------
(* provision, and the tail of Resume, which is the same from the quotas on *)

\* Mutant: the peers are not brought to the new share before the start.
ProvisionMutant(w) ==
    /\ op[w].pc = "provision"
    /\ Continue(w, "save_unconfirmed")

Provision(w) ==
    /\ op[w].pc = "provision"
    /\ IF privateInputsIncomplete(op[w].row)
         THEN /\ rows' = [rows EXCEPT ![w] = quarantined(op[w].row)]
              /\ Return(w)
         ELSE /\ op' = [op EXCEPT ![w].pc = "list", ![w].starting = TRUE]
              /\ KeepGates /\ UNCHANGED rows
    /\ KeepProvider /\ UNCHANGED <<drain, faults>>

\* Mutant: the marker that no start was attempted survives the provider call.
SaveUnconfirmedMutant(w) ==
    /\ op[w].pc = "save_unconfirmed"
    /\ Continue(w, "call_provision")

\* The durable proof marker is replaced before the first provider call.
SaveUnconfirmed(w) ==
    /\ op[w].pc = "save_unconfirmed"
    /\ Save(w, [op[w].row EXCEPT !.code = "provision_unconfirmed"], "call_provision")

\* Client.Provision: an existing resource is adopted; a create launches an
\* initial build.  A lost answer leaves the marker to be reconciled.
CallProvision(w) ==
    LET created == IF phase[w] = "absent"
                     THEN /\ phase' = [phase EXCEPT ![w] = "live"]
                          /\ limit' = [limit EXCEPT ![w] = op[w].row.quota]
                     ELSE UNCHANGED <<phase, limit>>
    IN /\ op[w].pc = "call_provision"
       /\ \/ created /\ Goto(w, "save_provisioned") /\ KeepGates /\ UNCHANGED faults
          \/ Fault("provider") /\ created /\ Return(w)
          \/ Fault("provider") /\ UNCHANGED <<phase, limit>> /\ Return(w)
       /\ UNCHANGED <<rows, quotas, drain>>

SaveProvisioned(w) ==
    /\ op[w].pc = "save_provisioned"
    /\ Save(w, [op[w].row EXCEPT !.prov = TRUE, !.code = "start_cleanup_pending"],
            "call_start")

markProviderStartPending(w) ==
    /\ op[w].pc = "save_start_pending"
    /\ Save(w, [op[w].row EXCEPT !.code = "start_cleanup_pending"], "call_start")

\* Client.startIdempotent: an active start build is only waited for.
CallStart(w) ==
    LET started == IF phase[w] = "live"
                     THEN UNCHANGED <<phase, limit>>
                     ELSE /\ phase' = [phase EXCEPT ![w] = "live"]
                          /\ limit' = [limit EXCEPT ![w] = op[w].row.quota]
        failed == op' = [op EXCEPT ![w].pc = "save_cleanup", ![w].final = "start_cleanup_pending"]
    IN /\ op[w].pc = "call_start"
       /\ \/ started /\ Goto(w, "call_initialize") /\ UNCHANGED faults
          \/ Fault("provider") /\ started /\ failed
          \/ Fault("provider") /\ UNCHANGED <<phase, limit>> /\ failed
       /\ KeepGates /\ UNCHANGED <<rows, quotas, drain>>

CallInitialize(w) ==
    LET r == op[w].row
        setup == r.dev /\ ~r.approved /\ op[w].kind # "resume"
    IN /\ op[w].pc = "call_initialize"
       /\ \/ Goto(w, IF setup THEN "setup_stop" ELSE "save_running") /\ UNCHANGED faults
          \/ /\ Fault("provider")
             /\ op' = [op EXCEPT ![w].pc = "save_cleanup",
                                 ![w].final = "initialize_cleanup_pending"]
       /\ KeepGates /\ KeepProvider /\ UNCHANGED <<rows, drain>>

SaveRunning(w) ==
    /\ op[w].pc = "save_running"
    /\ SaveAndRebalance(w, [op[w].row EXCEPT !.state = "running", !.code = ""])

\* Client.StopAndWait, with what follows a confirmed and an unconfirmed stop.
StopAndWait(w, confirmed, Unconfirmed) ==
    \/ /\ phase' = [phase EXCEPT ![w] = IF @ = "absent" THEN @ ELSE "stopped"]
       /\ quotas' = [quotas EXCEPT ![w] = IF phase[w] = "absent" THEN 0 ELSE @]
       /\ Goto(w, confirmed)
       /\ KeepGates /\ UNCHANGED <<rows, limit, drain, faults>>
    \/ /\ Fault("provider")
       /\ phase' \in {phase, [phase EXCEPT ![w] = IF @ = "absent" THEN @ ELSE "stopped"]}
       /\ Unconfirmed
       /\ UNCHANGED <<rows, limit, quotas, drain>>

SetupStop(w) ==
    /\ op[w].pc = "setup_stop"
    /\ StopAndWait(w, "save_awaiting", Goto(w, "save_setup_pending") /\ KeepGates)

SaveSetupPending(w) ==
    /\ op[w].pc = "save_setup_pending"
    /\ SaveAndReturn(w, [op[w].row EXCEPT !.code = "setup_stop_pending"])

SaveAwaiting(w) ==
    /\ op[w].pc = "save_awaiting"
    /\ SaveAndRebalance(w, [op[w].row EXCEPT !.state = "awaiting_setup_approval",
                                             !.code = ""])

-----------------------------------------------------------------------------
(* cleanupFailedRuntime and finishFailedRuntimeCleanup *)

SaveCleanup(w) ==
    /\ op[w].pc = "save_cleanup"
    /\ Save(w, [op[w].row EXCEPT !.code = op[w].final], "cleanup_stop")

CleanupStop(w) ==
    /\ op[w].pc = "cleanup_stop"
    /\ StopAndWait(w, "save_failed", Return(w))

\* Mutant: a failed start is quarantined like a row with partial private inputs.
SaveFailedMutant(w) ==
    /\ op[w].pc = "save_failed"
    /\ SaveAndRebalance(w, quarantined(op[w].row))

SaveFailed(w) ==
    /\ op[w].pc = "save_failed"
    /\ SaveAndRebalance(w, [op[w].row EXCEPT !.state = "failed", !.code = "other"])

-----------------------------------------------------------------------------
(* reconcileProvisioning: resume whatever durable phase a crash left behind *)

ReconcileProvisioning(w) ==
    LET r == op[w].row
    IN /\ op[w].pc = "reconcile"
       /\ \/ r.code = "start_reserved" /\ Continue(w, "provision")
          \/ r.code \in CleanupCodes /\ r.prov /\ Continue(w, "cleanup_stop")
          \/ r.code = "setup_stop_pending" /\ Continue(w, "setup_stop")
          \/ r.code \in {"provision_unconfirmed", "legacy"} /\ ~r.prov /\ Continue(w, "lookup")
          \/ /\ r.code = "legacy" /\ r.prov
             /\ Save(w, [r EXCEPT !.code = "start_cleanup_pending"], "cleanup_stop")

\* Client.LookupProvisioned: absence is positive, a failed lookup says nothing.
Lookup(w, found, absent) ==
    \/ /\ Goto(w, IF phase[w] = "absent" THEN absent ELSE found)
       /\ KeepGates /\ KeepProvider /\ UNCHANGED <<rows, drain, faults>>
    \/ /\ Fault("provider")
       /\ Return(w)
       /\ KeepProvider /\ UNCHANGED <<rows, drain>>

ReconcileLookup(w) ==
    /\ op[w].pc = "lookup"
    /\ Lookup(w, "save_found", "save_reserved")

SaveFound(w) ==
    /\ op[w].pc = "save_found"
    /\ Save(w, [op[w].row EXCEPT !.prov = TRUE, !.code = "provision_cleanup_pending"],
            "cleanup_stop")

SaveReserved(w) ==
    /\ op[w].pc = "save_reserved"
    /\ SaveAndReturn(w, [op[w].row EXCEPT !.code = "start_reserved"])

-----------------------------------------------------------------------------
(* Suspend, SuspendIfInactive and completeSuspension *)

\* A workspace already suspending skips the checkpoint; otherwise the
\* checkpoint is made while the row still says the workspace is live.
StartSuspension(w) ==
    /\ op[w].pc = "suspend"
    /\ \/ op[w].row.state = "suspending" /\ Continue(w, "suspend_stop")
       \/ /\ op[w].row.state \in IF op[w].kind = "suspend" THEN LiveStates ELSE {"idle"}
          /\ \/ Continue(w, "save_suspending")
             \/ /\ Fault("local")
                /\ Return(w) /\ KeepProvider /\ UNCHANGED <<rows, drain>>
       \/ /\ op[w].kind = "idle_suspend" /\ op[w].row.state = "running"
          /\ GiveUp(w)

\* Mutant: the stop is issued before the row leaves the live states.
SaveSuspendingMutant(w) ==
    /\ op[w].pc = "save_suspending"
    /\ Continue(w, "suspend_stop")

\* Suspend writes its private copy; SuspendIfInactive claims the row only if
\* it is still idle, then reads it back.
SaveSuspending(w) ==
    LET suspending == [op[w].row EXCEPT !.state = "suspending"]
    IN /\ op[w].pc = "save_suspending"
       /\ IF op[w].kind = "suspend" \/ rows[w].state = "idle"
            THEN Save(w, suspending, "suspend_stop")
            ELSE GiveUp(w)

\* The application boundary drains terminals and previews first; its failure
\* is a store fault here.
SuspendStop(w) ==
    /\ op[w].pc = "suspend_stop"
    /\ StopAndWait(w, "save_suspended", Return(w))

SaveSuspended(w) ==
    /\ op[w].pc = "save_suspended"
    /\ SaveAndRebalance(w, [op[w].row EXCEPT !.state = "suspended"])

-----------------------------------------------------------------------------
(* Delete *)

\* Mutant: a row without a provider ID is taken to have no provider resource.
SaveDeletingMutant(w) ==
    /\ op[w].pc = "delete"
    /\ Save(w, [op[w].row EXCEPT !.state = "deleting"],
            IF op[w].row.prov THEN "call_delete" ELSE "finalize")

\* Policy and checkpoint checks, then the tombstone.
SaveDeleting(w) ==
    LET next == IF op[w].row.prov THEN "call_delete" ELSE "delete_lookup"
    IN /\ op[w].pc = "delete"
       /\ \/ op[w].row.state = "deleting" /\ Continue(w, next)
          \/ /\ op[w].row.state # "deleting"
             /\ Save(w, [op[w].row EXCEPT !.state = "deleting"], next)
          \/ /\ op[w].row.state # "deleting" /\ Fault("local")
             /\ Return(w) /\ KeepProvider /\ UNCHANGED <<rows, drain>>

DeleteLookup(w) ==
    /\ op[w].pc = "delete_lookup"
    /\ Lookup(w, "save_delete_found", "finalize")

SaveDeleteFound(w) ==
    /\ op[w].pc = "save_delete_found"
    /\ Save(w, [op[w].row EXCEPT !.prov = TRUE], "call_delete")

\* Client.Delete waits until the provider answers 404.
CallDelete(w) ==
    LET deleted == phase' = [phase EXCEPT ![w] = "absent"]
    IN /\ op[w].pc = "call_delete"
       /\ \/ /\ deleted /\ quotas' = [quotas EXCEPT ![w] = 0]
             /\ Goto(w, "finalize") /\ KeepGates /\ UNCHANGED faults
          \/ /\ Fault("provider")
             /\ deleted \/ UNCHANGED phase
             /\ Return(w) /\ UNCHANGED quotas
       /\ UNCHANGED <<rows, limit, drain>>

\* The deletion boundary, then FinalizeDelete, which only removes a tombstone.
FinalizeDelete(w) ==
    /\ op[w].pc = "finalize"
    /\ rows[w].state = "deleting"
    /\ SaveAndRebalance(w, [NoRow EXCEPT !.state = "gone"])

-----------------------------------------------------------------------------
(* ReconcileMaintenanceDrain *)

DrainWorkspace(w) ==
    LET r == op[w].row
    IN /\ op[w].pc = "drain"
       /\ IF privateInputsIncomplete(r)
            THEN IF mayQuarantine(r) THEN SaveAndReturn(w, quarantined(r)) ELSE GiveUp(w)
          ELSE IF r.state # "provisioning" THEN GiveUp(w)
          ELSE Continue(w, IF r.prov THEN "drain_stop" ELSE "drain_lookup")

DrainLookup(w) ==
    /\ op[w].pc = "drain_lookup"
    /\ Lookup(w, "save_drain_found", "save_drained")

SaveDrainFound(w) ==
    /\ op[w].pc = "save_drain_found"
    /\ Save(w, [op[w].row EXCEPT !.prov = TRUE], "drain_stop")

DrainStop(w) ==
    /\ op[w].pc = "drain_stop"
    /\ StopAndWait(w, "save_drained", Return(w))

persistMaintenanceDrainResult(w) ==
    /\ op[w].pc = "save_drained"
    /\ SaveAndRebalance(w, [op[w].row EXCEPT !.state = "failed", !.code = "other"])

-----------------------------------------------------------------------------
(* The maintenance admission boundary *)

SetMaintenanceDrain ==
    /\ "maintenance" \in Faults
    /\ \/ drain = "open" /\ drain' = "flagged"
       \/ drain = "flagged" /\ drain' = "open"
       \/ drain = "drained" /\ admissionGate # Maintenance /\ drain' = "open"
    /\ UNCHANGED <<rows, op, faults>> /\ KeepGates /\ KeepProvider

\* Mutant: the flag alone is taken as the boundary.
BeginMaintenanceDrainMutant ==
    /\ drain = "flagged" /\ drain' = "drained"
    /\ UNCHANGED <<rows, op, faults>> /\ KeepGates /\ KeepProvider

\* Admission first, then once across runtimeGate: every provider mutation
\* admitted before the flag was set has finished.
BeginMaintenanceDrain ==
    /\ \/ /\ drain = "flagged" /\ admissionGate = None
          /\ admissionGate' = Maintenance /\ drain' = "crossing"
       \/ /\ drain = "crossing" /\ runtimeGate = None
          /\ drain' = "drained" /\ UNCHANGED admissionGate
       \/ /\ drain = "drained" /\ admissionGate = Maintenance
          /\ admissionGate' = None /\ UNCHANGED drain
    /\ UNCHANGED <<rows, op, runtimeGate, faults>> /\ KeepProvider

-----------------------------------------------------------------------------
(* Updates that take no gate *)

\* store.TouchActivity and MarkIdleIfInactive: narrow updates of one column
\* guarded by the state; the activity clock is WorkspaceRetention's subject.
TouchActivity(w) ==
    /\ rows[w].state = "idle"
    /\ rows' = [rows EXCEPT ![w].state = "running"]
    /\ UNCHANGED <<op, drain, faults>> /\ KeepGates /\ KeepProvider

MarkIdleIfInactive(w) ==
    /\ rows[w].state = "running"
    /\ rows' = [rows EXCEPT ![w].state = "idle"]
    /\ UNCHANGED <<op, drain, faults>> /\ KeepGates /\ KeepProvider

-----------------------------------------------------------------------------
(* Failures *)

\* A store call fails, before or after its commit, or a boundary or context
\* fails: the operation returns from wherever it is.
StoreError(a) ==
    /\ op[a].pc # "idle"
    /\ Fault("store")
    /\ Return(a)
    /\ KeepProvider /\ UNCHANGED <<rows, drain>>

\* The process restarts.  Before anything else runs, the maintenance coordinator
\* sets the drain again if a durable run needs it (Coordinator.Recover): then no
\* operation is in flight and the drain is complete at once.
Crash ==
    /\ Fault("crash")
    /\ op' = [a \in Actors |-> NoOp]
    /\ admissionGate' = None /\ runtimeGate' = None
    /\ quotas' = [w \in Workspaces |-> 0]
    /\ drain' \in (IF "maintenance" \in Faults THEN {"open", "drained"} ELSE {"open"})
    /\ UNCHANGED <<rows, phase, limit>>

-----------------------------------------------------------------------------
(* An empty installation, or one upgraded from a release that left a          *)
(* provisioning row without a phase marker.                                   *)

LegacyRow(prov) ==
    [NoRow EXCEPT !.state = "provisioning", !.code = "legacy", !.prov = prov]

Init ==
    /\ \/ /\ rows = [w \in Workspaces |-> NoRow]
          /\ phase = [w \in Workspaces |-> "absent"]
          /\ limit = [w \in Workspaces |-> 0]
       \/ \E w \in Workspaces, prov \in BOOLEAN, q \in {0, Pool},
             p \in {"absent", "stopped", "live"} :
             /\ prov => p # "absent"
             /\ p = "absent" <=> q = 0
             /\ rows = [v \in Workspaces |-> IF v = w THEN LegacyRow(prov) ELSE NoRow]
             /\ phase = [v \in Workspaces |-> IF v = w THEN p ELSE "absent"]
             /\ limit = [v \in Workspaces |-> IF v = w THEN q ELSE 0]
    /\ quotas = [w \in Workspaces |-> 0]
    /\ op = [a \in Actors |-> NoOp]
    /\ admissionGate = None
    /\ runtimeGate = None
    /\ drain = "open"
    /\ faults = MaxFaults

\* Everything an operation on w does once it has begun.
Step(w) ==
    \/ SaveDenied(w) \/ acquireAdmission(w) \/ acquireRuntime(w)
    \/ Decide(w, TRUE) \/ Commit(w) \/ PrepareInputs(w)
    \/ ListConsumers(w) \/ (\E v \in Workspaces : RaiseQuota(w, v)) \/ ApplyQuota(w)
    \/ ShrinkQuota(w) \/ FinishQuota(w) \/ FinishStartQuota(w)
    \/ Provision(w) \/ SaveUnconfirmed(w) \/ CallProvision(w) \/ SaveProvisioned(w)
    \/ markProviderStartPending(w) \/ CallStart(w) \/ CallInitialize(w)
    \/ SaveRunning(w) \/ SetupStop(w) \/ SaveSetupPending(w) \/ SaveAwaiting(w)
    \/ SaveCleanup(w) \/ CleanupStop(w) \/ SaveFailed(w)
    \/ ReconcileProvisioning(w) \/ ReconcileLookup(w) \/ SaveFound(w) \/ SaveReserved(w)
    \/ StartSuspension(w) \/ SaveSuspending(w) \/ SuspendStop(w) \/ SaveSuspended(w)
    \/ SaveDeleting(w) \/ DeleteLookup(w) \/ SaveDeleteFound(w) \/ CallDelete(w)
    \/ FinalizeDelete(w)
    \/ DrainWorkspace(w) \/ DrainLookup(w) \/ SaveDrainFound(w) \/ DrainStop(w)
    \/ persistMaintenanceDrainResult(w)

\* The background rebalance of the lifecycle worker.
LifecycleStep ==
    \/ ReconcileCapacity
    \/ ListConsumers(Lifecycle)
    \/ \E v \in Workspaces : RaiseQuota(Lifecycle, v)
    \/ ApplyQuota(Lifecycle) \/ ShrinkQuota(Lifecycle) \/ FinishQuota(Lifecycle)

\* Calls the owner may make at any time.
Request(w) ==
    \/ Create(w) \/ ApproveSetup(w) \/ DenySetup(w) \/ RetryQuarantine(w) \/ Retry(w)
    \/ Resume(w) \/ Suspend(w) \/ SuspendIfInactive(w) \/ Delete(w)
    \/ ReconcileMaintenanceDrain(w) \/ TouchActivity(w) \/ MarkIdleIfInactive(w)

Next ==
    \/ \E w \in Workspaces : Request(w) \/ Step(w) \/ Decide(w, FALSE)
    \/ LifecycleStep
    \/ SetMaintenanceDrain \/ BeginMaintenanceDrain
    \/ \E a \in Actors : StoreError(a)
    \/ Crash

Spec == Init /\ [][Next]_vars

\* Mutants: the scan leaves out the suspensions that failed, or the queue.
ScanMutant(w) ==
    \/ rows[w].state \in {"provisioning", "queued"} /\ (Retry(w) \/ RetryQuarantine(w))
    \/ rows[w].state = "deleting" /\ Delete(w)
ScanQueueMutant(w) ==
    \/ rows[w].state = "provisioning" /\ (Retry(w) \/ RetryQuarantine(w))
    \/ rows[w].state = "suspending" /\ SuspendIfInactive(w)
    \/ rows[w].state = "deleting" /\ Delete(w)

\* The lifecycle scan visits every row once a minute and retries each
\* unfinished durable phase (lifecycle/coordinator.go Scan).
Scan(w) ==
    \/ rows[w].state \in {"provisioning", "queued"} /\ (Retry(w) \/ RetryQuarantine(w))
    \/ rows[w].state = "suspending" /\ SuspendIfInactive(w)
    \/ rows[w].state = "deleting" /\ Delete(w)

\* An operation that runs keeps running, and a waiter on a channel gate is
\* served in arrival order, hence strong fairness on its steps; the scan
\* returns to every row, and waits for its mutation gate like any caller.
Fairness ==
    /\ \A w \in Workspaces : SF_vars(Step(w)) /\ SF_vars(Scan(w))
    /\ WF_vars(LifecycleStep)
    /\ WF_vars(BeginMaintenanceDrain)

FairSpec == Spec /\ Fairness

-----------------------------------------------------------------------------
(* Properties *)

\* Every variable has its declared shape.
TypeOK ==
    /\ rows \in [Workspaces -> Row]
    /\ phase \in [Workspaces -> {"absent", "stopped", "live"}]
    /\ limit \in [Workspaces -> 0..Pool]
    /\ quotas \in [Workspaces -> 0..Pool]
    /\ op \in [Actors -> Op]
    /\ admissionGate \in Workspaces \cup {Maintenance, None}
    /\ runtimeGate \in Actors \cup {None}
    /\ drain \in {"open", "flagged", "crossing", "drained"}
    /\ faults \in 0..MaxFaults

\* A provider that may be live is always covered by a durable row that counts
\* against capacity and does not claim that no start was attempted, whatever
\* call failed and wherever the process crashed (service.go:1547-1553).
LiveProviderIsAccounted ==
    \A w \in Workspaces :
        phase[w] = "live" =>
            /\ CountsAsRunning(rows[w])
            /\ ~definitelyStoppedStartReservation(rows[w])

\* A row shown as running or idle has a live provider behind it: no stop or
\* delete is ever issued before the row left the live states.
LiveRowHasProvider ==
    \A w \in Workspaces :
        stableLiveProviderState(rows[w]) => rows[w].prov /\ phase[w] = "live"

\* Once the row is finally deleted nothing of the workspace is left at the
\* provider, even when the create answer was lost (service.go:1105-1108).
NoOrphanedProvider ==
    \A w \in Workspaces : ~Exists(rows[w]) => phase[w] = "absent"

\* No provider call is ever made for a workspace whose creation-time private
\* inputs are not known to be durable (service.go:340-345).
InputsDurableBeforeProvider ==
    \A w \in Workspaces :
        privateInputsIncomplete(rows[w]) => phase[w] = "absent"

\* The provider runtimes that may be live never exceed the configured maximum.
AtMostMaxRunning ==
    Cardinality({w \in Workspaces : phase[w] = "live"}) <= MaxRunning

\* The limits of all possibly live runtimes together fit the workspace pool
\* (service.go:1437-1440).
CapacityNotExceeded ==
    MapThenSumSet(LAMBDA w : limit[w], {w \in Workspaces : phase[w] = "live"}) <= Pool

\* The recorded quota of a stable runtime is an upper bound of what the
\* provider really grants, in every crash window (service.go:1520-1523).
RecordedQuotaIsUpperBound ==
    \A w \in Workspaces : stableLiveProviderState(rows[w]) => limit[w] <= rows[w].quota

\* Control points at which an operation works on the private copy of the row it
\* read under runtimeGate: everything but the closing background rebalance.
QuotaPCs == {"list", "quota", "apply", "shrink"}
UsesPrivateCopy(o) == o.pc \in RuntimePCs /\ (o.pc \in QuotaPCs => o.starting)

\* A private copy c of row r that nothing but that flip separates from it.
Fresh(c, r) ==
    \/ c = r
    \/ /\ {c.state, r.state} \subseteq LiveStates
       /\ [c EXCEPT !.state = r.state] = r

\* The full-row Saves never carry stale data: until an operation's last Save
\* its private copy agrees with the durable row, apart from the running/idle
\* flip that TouchActivity and MarkIdleIfInactive make without a gate.
PrivateCopyIsFresh ==
    \A w \in Workspaces :
        UsesPrivateCopy(op[w]) => Fresh(op[w].row, rows[w])

\* A deletion tombstone is final: nothing rewrites it, it can only disappear
\* (quarantinePrivateInputs and DenySetup refuse it).
DeletionIsFinal ==
    [][\A w \in Workspaces :
          rows[w].state = "deleting" => rows'[w].state \in {"deleting", "gone"}]_vars

\* Every durable transitional phase is eventually left, whatever failure or
\* crash produced it, once failures cease: a start resolves, a suspension
\* completes and a tombstone disappears.
TransitionsComplete ==
    \A w \in Workspaces :
        /\ rows[w].state = "provisioning" ~> rows[w].state # "provisioning"
        /\ rows[w].state = "suspending" ~> rows[w].state \in {"suspended", "deleting", "gone"}
        /\ rows[w].state = "deleting" ~> rows[w].state = "gone"

\* No workspace stays queued forever while the running limit leaves room.
QueueIsServed ==
    \A w \in Workspaces :
        ~ <>[](rows[w].state = "queued" /\ Cardinality(consumers) < MaxRunning)

\* The rows implement the lifecycle the rest of the control plane relies on, and
\* no start is admitted behind a completed drain (service.go:653-657).
lifecycleState(r) ==
    CASE r.state \in LiveStates -> "live"
      [] r.state \in {"provisioning", "suspending", "deleting", "gone"} -> r.state
      [] OTHER -> "off"

Abstract == INSTANCE WorkspaceLifecycle WITH
    ws <- [w \in Workspaces |-> lifecycleState(rows[w])],
    closed <- drain = "drained"

ImplementsLifecycle == Abstract!LifecycleSpec

-----------------------------------------------------------------------------
(* The inductive invariant.  What a row r and a provider phase p satisfy      *)
(* depends on where the operation o on that workspace is: for every control   *)
(* point, the facts the code relies on there.                                 *)

\* Two versions of a row that no gated write separates: the quota and the
\* running/idle flip may differ.
Close(r, s) ==
    /\ r.code = s.code /\ r.prov = s.prov /\ r.inputs = s.inputs
    /\ r.state = s.state \/ (r.state \in LiveStates /\ s.state \in LiveStates)

StartPCs == {"save_unconfirmed", "call_provision", "save_provisioned",
             "save_start_pending", "call_start", "call_initialize", "save_running"}
RecoverPCs == {"provision", "setup_stop", "save_awaiting", "save_setup_pending",
               "save_cleanup", "cleanup_stop", "save_failed", "reconcile", "lookup",
               "save_found", "save_reserved"}
DrainPCs == {"drain", "drain_lookup", "save_drain_found", "drain_stop", "save_drained"}
DeletePCs == {"delete_lookup", "save_delete_found", "call_delete", "finalize"}
StartKinds == {"create", "approve", "retry", "resume"}
\* The states a start may begin in.
RestStates == {"none", "queued", "awaiting_setup_approval", "suspended", "failed"}

Starting(o) == o.pc \in StartPCs \/ (o.pc \in QuotaPCs /\ o.starting)

\* What holds whatever the operation is doing.
RowFacts(r, p) ==
    /\ p = "live" => CountsAsRunning(r) /\ ~definitelyStoppedStartReservation(r)
    /\ stableLiveProviderState(r) => r.prov /\ p = "live"
    /\ ~Exists(r) => p = "absent"
    /\ privateInputsIncomplete(r) => p = "absent"

\* The private copy is the durable row wherever it will be written back.
CopyFacts(o, r) ==
    o.pc \in {"save_denied", "inputs"} \/ UsesPrivateCopy(o) => Close(o.row, r)

\* Before the runtime gate is held: which kind of operation is where, and which
\* state its row waits in.
WaitFacts(o, r) ==
    /\ o.pc = "save_denied" => r.state = "awaiting_setup_approval"
    /\ o.pc = "wait_admission" => o.kind \in StartKinds \cup {"reconcile"}
    /\ o.pc \in {"decide", "commit"} => o.kind \in StartKinds
    /\ o.kind = "create" /\ o.pc \in {"wait_admission", "decide", "commit"} => r.state = "none"
    /\ o.kind \in StartKinds /\ o.pc \in {"wait_admission", "decide", "commit"}
          => r.state \in RestStates
    /\ o.pc = "commit" => /\ o.row.state \in {"provisioning", "queued"}
                          /\ o.row.code \in {"start_reserved", "other"}
                          /\ o.row.inputs => o.kind = "create"
    /\ o.pc = "inputs" => /\ r.inputs /\ r.state \in {"provisioning", "queued"}
                          /\ r.code \in {"start_reserved", "other"} /\ o.kind = "create"
    /\ o.pc = "wait_admission" /\ o.kind = "reconcile" => r.state = "provisioning"
    /\ o.pc = "wait_runtime" =>
          /\ o.kind \notin {"deny", "capacity"}
          /\ o.kind \in StartKinds \cup {"reconcile", "drain"} => r.state = "provisioning"
          /\ o.kind = "delete" => Exists(r)
          /\ o.kind = "resume" => ~privateInputsIncomplete(r)

\* Under the runtime gate: which state the row is in.
StateFacts(o, r) ==
    /\ o.pc \in RecoverPCs \cup DrainPCs => r.state = "provisioning"
    /\ Starting(o) => r.state = "provisioning" /\ ~privateInputsIncomplete(r)
    /\ o.pc = "save_suspending" => r.state \in LiveStates
    /\ o.pc = "delete" => Exists(r)
    /\ o.pc \in {"suspend_stop", "save_suspended"} => r.state = "suspending"
    /\ o.pc \in DeletePCs => r.state = "deleting"

\* What the provider is doing, and which durable marker covers it.
ProviderFacts(o, r, p) ==
    /\ o.pc \in {"save_awaiting", "save_failed", "save_suspended", "save_drained"} => p # "live"
    /\ o.pc \in {"save_reserved", "finalize"} => p = "absent"
    /\ o.pc = "call_provision" => r.code = "provision_unconfirmed"
    /\ o.pc = "call_start" => r.code = "start_cleanup_pending"
    /\ o.pc = "save_cleanup" => o.final \in CleanupCodes
    /\ o.pc \in {"call_initialize", "save_running"} => p = "live"
    /\ o.pc \in {"save_start_pending", "call_start", "call_initialize", "save_running"}
          => r.prov

Facts(o, r, p) ==
    /\ RowFacts(r, p) /\ CopyFacts(o, r) /\ WaitFacts(o, r)
    /\ StateFacts(o, r) /\ ProviderFacts(o, r, p)

\* At every control point of every operation the row and the provider are what
\* that point of the code relies on.
ControlInvariant == \A w \in Workspaces : Facts(op[w], rows[w], phase[w])

-----------------------------------------------------------------------------
(* The inductive invariant of the running limit.  A tombstone is not bounded  *)
(* by MaxRunning: Delete may add one to any number of runtimes.  What is      *)
(* bounded is the rows that hold or may still get a runtime.                  *)

SlotStates == {"provisioning", "suspending"} \cup LiveStates

InSlot(w) == rows[w].state \in SlotStates \/ phase[w] = "live"

Slots == {w \in Workspaces : InSlot(w)}

AdmittingPCs == {"decide", "commit"}

\* A start is decided and committed under admissionGate, and until it is committed
\* the place it was admitted to stays free.
AdmissionInvariant ==
    /\ Cardinality(Slots) <= MaxRunning
    /\ \A w \in Workspaces :
          /\ op[w].pc \in AdmittingPCs => admissionGate = w
          /\ op[w].pc = "commit" /\ op[w].row.state = "provisioning"
                => Cardinality(Slots) < MaxRunning

\* Behind a completed drain no admitted start is still to be committed.
DrainInvariant ==
    drain \in {"crossing", "drained"} =>
        \A w \in Workspaces : op[w].pc = "commit" => op[w].row.state # "provisioning"

-----------------------------------------------------------------------------
(* The inductive invariant of the private copies *)

\* A start rebalances its peers and never itself.
SparesItself(o, w) ==
    (o.pc \in QuotaPCs /\ ~o.starting) \/ w \notin o.todo \cup {o.cur}

\* What runs under runtimeGate holds it, so nothing else rewrites the row of a
\* workspace whose operation works on a private copy.
FreshInvariant ==
    /\ \A a \in Actors : op[a].pc \in RuntimePCs => runtimeGate = a
    /\ \A w \in Workspaces :
          /\ UsesPrivateCopy(op[w]) => Fresh(op[w].row, rows[w])
          /\ SparesItself(op[w], w)

-----------------------------------------------------------------------------
(* The inductive invariant of the recorded quotas.  A quota the client        *)
(* remembers may be older than the runtime: a start does not update the       *)
(* cache.  What saves the bound is the rebalance that closes every start,     *)
(* under the gates the start already held.                                    *)

\* No store call and no quota build fails.
NothingLost == "store" \notin Faults /\ "quota" \notin Faults

AdmittedKinds == StartKinds \cup {"reconcile"}
RebalancePCs == {"quota", "apply", "shrink"}

\* A start o of w holds admissionGate g until it returns, and until its rebalance
\* is over its row r says that no runtime was started.
ReservationFacts(o, r, g, w) ==
    /\ o.kind \in AdmittedKinds /\ o.pc \notin {"idle", "wait_admission"} => g = w
    /\ o.pc \in {"reconcile", "provision"} \/ Starting(o) => o.kind \in AdmittedKinds
    /\ o.pc = "commit" /\ o.row.state = "provisioning" => o.row.code = "start_reserved"
    /\ (\/ o.pc = "inputs" /\ r.state = "provisioning"
        \/ o.pc = "wait_runtime" /\ o.kind \in StartKinds
        \/ o.pc = "provision"
        \/ o.pc \in QuotaPCs /\ o.starting)
          => r.code = "start_reserved"

ReservationInvariant ==
    \A w \in Workspaces : ReservationFacts(op[w], rows[w], admissionGate, w)

\* The rebalance of the start of w went through, and would go through again.
Settled(w) ==
    /\ admissionGate = w
    /\ SharesDefined(Cardinality(consumers))
    /\ \A v \in consumers : ~unresolved(v, w, TRUE)

\* A start takes no more than the share of the consumers there still are.
StartFacts(w) ==
    LET o == op[w]
    IN /\ o.pc \in StartPCs \/ (o.pc \in RebalancePCs /\ o.starting) => Settled(w)
       /\ o.pc \in RebalancePCs /\ o.starting => o.target <= share(Cardinality(consumers))
       /\ o.pc \in StartPCs => o.row.quota <= share(Cardinality(consumers))
       /\ o.pc \in {"save_unconfirmed", "call_provision", "save_start_pending"}
             => phase[w] # "live"
       /\ o.pc \in {"save_provisioned", "call_start", "call_initialize", "save_running"}
             => (phase[w] = "live" => limit[w] <= o.row.quota)

\* The target the rebalance o still has to bring to its share is w.
Due(o, w) == w \in o.todo \/ (o.pc = "apply" /\ o.cur = w)

\* The rebalance that closes the start of w.
Closing(w) ==
    /\ ~op[w].starting
    /\ op[w].pc = "list" \/ (op[w].pc \in RebalancePCs /\ Due(op[w], w))

ClosingFacts(w) ==
    stableLiveProviderState(rows[w]) /\ Closing(w) =>
        /\ op[w].pc = "list" => Settled(w) /\ limit[w] <= share(Cardinality(consumers))
        /\ op[w].pc # "list" => limit[w] <= op[w].target

\* A rebalance between its calls: the expansion is recorded, the reduction made.
RebalanceFacts(a) ==
    LET o == op[a]
    IN /\ o.pc \in RebalancePCs /\ (o.todo # {} \/ o.pc # "quota") => o.target > 0
       /\ o.pc \in {"apply", "shrink"} => o.cur \in Workspaces
       /\ o.pc = "apply" /\ stableLiveProviderState(rows[o.cur])
             => o.target <= rows[o.cur].quota
       /\ o.pc = "shrink" /\ stableLiveProviderState(rows[o.cur])
             => limit[o.cur] <= o.target /\ quotas[o.cur] = o.target

\* What the client remembers of w bounds its limit.
Remembered(w) == quotas[w] = 0 \/ limit[w] <= quotas[w]

RecordFacts(w) ==
    stableLiveProviderState(rows[w]) =>
        limit[w] <= rows[w].quota /\ (Remembered(w) \/ Closing(w))

QuotaInvariant ==
    /\ \A w \in Workspaces : StartFacts(w) /\ ClosingFacts(w) /\ RecordFacts(w)
    /\ \A a \in Actors : RebalanceFacts(a)

=============================================================================
