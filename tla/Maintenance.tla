---------------------------- MODULE Maintenance ----------------------------
(***************************************************************************)
(* The maintenance coordinator (internal/maintenance), its durable run     *)
(* (internal/postgres/maintenance.go), the API calls that advance it       *)
(* (internal/application/maintenance.go) and the worker that schedules it  *)
(* (cmd/control-plane/main.go).  The workspaces it drains behave as        *)
(* WorkspaceLifecycle says.                                                *)
(*                                                                         *)
(* The worker and every API call are goroutines: each reads the active     *)
(* run, decides on its private copy and writes it back by compare and      *)
(* swap on the state.  The admission flag is local to the process.         *)
(***************************************************************************)
EXTENDS Integers, WorkspaceLifecycle

CONSTANTS
    Callers,    \* concurrent API calls
    None,       \* no workspace
    MaxRuns,    \* bound: how many runs one behaviour creates
    MaxPasses,  \* maximumDrainConvergencePasses
    MaxFaults   \* bound: failed calls and crashes in one behaviour

ASSUME MaintenanceAssumption ==
    /\ None \notin Workspaces
    /\ MaxRuns \in Nat /\ MaxFaults \in Nat
    /\ MaxPasses \in Nat \ {0}

VARIABLES
    flag,    \* Controller.maintenanceDrain
    run,     \* the latest row of maintenance_runs; at most one is active
    clock,   \* where now is: before WarningAt, between, or at ScheduledFor
    worker,  \* the scheduler goroutine
    call,    \* API calls in flight
    faults   \* failures still allowed

vars == <<ws, closed, flag, run, clock, worker, call, faults>>

-----------------------------------------------------------------------------
(* Runs *)

HostStates == {"ready_for_update", "updating", "reboot_required"}
ClosedStates == HostStates \cup {"draining", "verifying"}
Cancellable == {"scheduled", "warning"}
RunStates == ClosedStates \cup Cancellable \cup {"completed", "failed", "cancelled"}

Run == [id : 0..MaxRuns, state : RunStates, urgent : BOOLEAN]
NoRun == [id |-> 0, state |-> "cancelled", urgent |-> FALSE]

Active(r) == r.state \in ClosedStates \cup Cancellable

Fault == faults > 0 /\ faults' = faults - 1

\* Store.Create: the unique index admits one active run.  A weekly run may be
\* created inside its own warning period, an urgent one always is.
Insert(urgent) ==
    IF Active(run) \/ run.id = MaxRuns
      THEN UNCHANGED <<run, clock>>
      ELSE /\ run' = [id |-> run.id + 1, state |-> "scheduled", urgent |-> urgent]
           /\ clock' \in IF urgent THEN {"warning"} ELSE {"early", "warning"}

\* Mutant: the update does not ask for the state that was read.
SwapsMutant(r) == run.id = r.id

\* Store.Transition: UPDATE ... WHERE id = r.id AND state = r.state.
Swaps(r) == run.id = r.id /\ run.state = r.state

TransitionTo(r, state) == run' = [run EXCEPT !.state = IF Swaps(r) THEN state ELSE @]

-----------------------------------------------------------------------------
(* The worker: ScheduleWeekly, then RunOnce *)

\* view is the snapshot of the current pass, without what the pass has handled;
\* saved is history: cur has been checkpointed for this drain.
Nothing == [w \in Workspaces |-> "off"]
NoWork == [pc |-> "idle", run |-> NoRun, due |-> FALSE, view |-> Nothing, cur |-> None,
           saved |-> FALSE, err |-> FALSE, pass |-> 0]

Sleep == worker' = NoWork
Proceed(pc) == worker' = [worker EXCEPT !.pc = pc]

KeepWorkspaces == UNCHANGED <<ws, closed>>
KeepRuns == UNCHANGED <<run, clock>>

\* ScheduleWeekly reads the active run, and inserts one if there is none.
ScheduleWeekly ==
    /\ \/ /\ worker.pc = "idle"
          /\ Proceed(IF Active(run) THEN "run" ELSE "insert")
          /\ KeepRuns
       \/ /\ worker.pc = "insert"
          /\ Insert(FALSE)
          /\ Proceed("run")
    /\ KeepWorkspaces /\ UNCHANGED <<flag, call, faults>>

\* Mutant: a drain that returned with an error is not taken up again.
RunOnceMutant ==
    /\ worker.pc = "run"
    /\ LET next == CASE run.state = "scheduled" /\ clock # "early" -> "warn"
                     [] run.state \in Cancellable /\ clock = "due" -> "start"
                     [] OTHER -> "idle"
       IN worker' = IF next = "idle" THEN NoWork
                    ELSE [worker EXCEPT !.pc = next, !.run = run, !.due = (clock = "due")]
    /\ KeepWorkspaces /\ KeepRuns /\ UNCHANGED <<flag, call, faults>>

\* RunOnce reads the active run and the time once and works on that copy.
RunOnce ==
    /\ worker.pc = "run"
    /\ LET next == CASE run.state = "scheduled" /\ clock # "early" -> "warn"
                     [] run.state \in Cancellable /\ clock = "due" -> "start"
                     [] run.state = "draining" -> "close"
                     [] OTHER -> "idle"
       IN worker' = IF next = "idle" THEN NoWork
                    ELSE [worker EXCEPT !.pc = next, !.run = run, !.due = (clock = "due")]
    /\ KeepWorkspaces /\ KeepRuns /\ UNCHANGED <<flag, call, faults>>

\* A swap the worker makes; it goes on only with a copy that was current.  The
\* swap may fail before or after its commit, and so may the activity entry that
\* follows some of them: RunOnce then returns.
Advance(state, pc) ==
    /\ \/ /\ TransitionTo(worker.run, state)
          /\ worker' = IF Swaps(worker.run) /\ pc # "idle"
                         THEN [worker EXCEPT !.run.state = state, !.pc = pc]
                         ELSE NoWork
          /\ UNCHANGED faults
       \/ Fault /\ Sleep /\ (UNCHANGED run \/ TransitionTo(worker.run, state))
    /\ KeepWorkspaces /\ UNCHANGED <<flag, clock, call>>

Warn == worker.pc = "warn" /\ Advance("warning", IF worker.due THEN "start" ELSE "idle")

StartDraining == worker.pc = "start" /\ Advance("draining", "close")

SetMaintenanceDrain ==
    /\ worker.pc = "close"
    /\ flag' = TRUE
    /\ Proceed("begin")
    /\ KeepWorkspaces /\ KeepRuns /\ UNCHANGED <<call, faults>>

\* Mutant: the snapshot is taken before the starts in flight have settled.
BeginMaintenanceDrainMutant ==
    /\ worker.pc = "begin"
    /\ Proceed("list")
    /\ KeepRuns /\ UNCHANGED <<ws, closed, flag, call, faults>>

\* Returns once every start admitted before the flag is in the rows.
BeginMaintenanceDrain ==
    /\ worker.pc = "begin"
    /\ \/ closed' = flag /\ Proceed("list") /\ UNCHANGED faults
       \/ Fault /\ Sleep /\ UNCHANGED closed
    /\ KeepRuns /\ UNCHANGED <<ws, flag, call>>

providerUnsafe(s) == s \in {"provisioning", "live", "suspending", "deleting"}
unsafeWorkspaces(view) == {w \in Workspaces : providerUnsafe(view[w])}

\* The snapshot a pass works through; an empty one ends the drain.
Snapshot(pass) ==
    worker' = [worker EXCEPT !.view = ws, !.pass = pass, !.err = FALSE,
                             !.pc = IF unsafeWorkspaces(ws) = {} THEN "ready" ELSE "pass"]

ListAll ==
    /\ worker.pc = "list"
    /\ \/ Snapshot(0) /\ UNCHANGED faults
       \/ Fault /\ Sleep
    /\ KeepWorkspaces /\ KeepRuns /\ UNCHANGED <<flag, call>>

\* One workspace of the pass, treated by the state the snapshot has for it; the
\* call that follows meets whatever state it has reached by then.
DrainOne(w) ==
    /\ worker.pc = "pass" /\ w \in unsafeWorkspaces(worker.view)
    /\ worker' = [worker EXCEPT !.view[w] = "off", !.cur = w,
                    !.pc = CASE worker.view[w] = "live" -> "checkpoint"
                             [] worker.view[w] = "suspending" -> "suspend"
                             [] worker.view[w] = "deleting" -> "delete"
                             [] worker.view[w] = "provisioning" -> "reconcile"]
    /\ KeepWorkspaces /\ KeepRuns /\ UNCHANGED <<flag, call, faults>>

Handled(err) == worker' = [worker EXCEPT !.pc = "pass", !.cur = None, !.saved = FALSE,
                                       !.err = @ \/ err]

\* CreateRequired: a best-effort run goes on without its checkpoint.
CreateRequired(w) ==
    /\ worker.pc = "checkpoint" /\ worker.cur = w
    /\ \/ worker' = [worker EXCEPT !.saved = TRUE, !.pc = "suspend"] /\ UNCHANGED faults
       \/ /\ Fault
          /\ IF worker.run.urgent
               THEN worker' = [worker EXCEPT !.err = TRUE, !.pc = "suspend"]
               ELSE Handled(TRUE)
    /\ KeepRuns /\ UNCHANGED <<ws, closed, flag, call>>

\* A call of the workspace service that fails, changing nothing more.
CallFails == Fault /\ Handled(TRUE) /\ UNCHANGED ws

\* Suspend claims a live workspace, after a checkpoint of its own, and confirms
\* the stop of one that is suspending; it refuses any other.
Suspend(w) ==
    /\ worker.pc = "suspend" /\ worker.cur = w
    /\ \/ /\ ws[w] = "live" /\ ws' = [ws EXCEPT ![w] = "suspending"]
          /\ UNCHANGED <<worker, faults>>
       \/ /\ ws[w] = "suspending" /\ ws' = [ws EXCEPT ![w] = "off"]
          /\ Handled(FALSE) /\ UNCHANGED faults
       \/ /\ ws[w] \notin {"live", "suspending"} /\ Handled(TRUE)
          /\ UNCHANGED <<ws, faults>>
       \/ CallFails
    /\ KeepRuns /\ UNCHANGED <<closed, flag, call>>

\* Delete finishes a tombstone; one that is gone is not found.
Delete(w) ==
    /\ worker.pc = "delete" /\ worker.cur = w
    /\ \/ /\ ws[w] = "deleting" /\ ws' = [ws EXCEPT ![w] = "gone"]
          /\ Handled(FALSE) /\ UNCHANGED faults
       \/ ws[w] = "gone" /\ Handled(TRUE) /\ UNCHANGED <<ws, faults>>
       \/ CallFails
    /\ KeepRuns /\ UNCHANGED <<closed, flag, call>>

\* ReconcileMaintenanceDrain fails a start closed and leaves anything else alone.
ReconcileMaintenanceDrain(w) ==
    /\ worker.pc = "reconcile" /\ worker.cur = w
    /\ \/ /\ ws' = IF ws[w] = "provisioning" THEN [ws EXCEPT ![w] = "off"] ELSE ws
          /\ Handled(FALSE) /\ UNCHANGED faults
       \/ CallFails
    /\ KeepRuns /\ UNCHANGED <<closed, flag, call>>

\* The pass is over: its counters are persisted and the workspaces listed again.
\* A pass with errors that left something unsafe, and the last pass, return.
NextPass ==
    /\ worker.pc = "pass" /\ unsafeWorkspaces(worker.view) = {}
    /\ \/ /\ IF \/ ~Swaps(worker.run)
                \/ worker.err /\ unsafeWorkspaces(ws) # {}
                \/ worker.pass + 1 = MaxPasses
               THEN Sleep
               ELSE Snapshot(worker.pass + 1)
          /\ UNCHANGED faults
       \/ Fault /\ Sleep
    /\ KeepWorkspaces /\ KeepRuns /\ UNCHANGED <<flag, call>>

markReady == worker.pc = "ready" /\ Advance("ready_for_update", "idle")

Work ==
    \/ ScheduleWeekly \/ RunOnce \/ Warn \/ StartDraining
    \/ SetMaintenanceDrain \/ BeginMaintenanceDrain \/ ListAll
    \/ \E w \in Workspaces :
          \/ DrainOne(w) \/ CreateRequired(w)
          \/ Suspend(w) \/ Delete(w) \/ ReconcileMaintenanceDrain(w)
    \/ NextPass \/ markReady

-----------------------------------------------------------------------------
(* API calls *)

Kinds == {"weekly", "urgent", "cancel", "begin_update", "updates_applied", "reboot",
          "begin_verification", "complete"}

NoCall == [kind |-> "cancel", pc |-> "idle", run |-> NoRun]

\* The states a call accepts, and the state it moves the run to.
Accepts(kind) ==
    CASE kind = "weekly" -> {}
      [] kind \in {"urgent", "cancel"} -> Cancellable
      [] kind = "begin_update" -> {"ready_for_update"}
      [] kind \in {"updates_applied", "reboot"} -> {"updating"}
      [] kind = "begin_verification" -> {"reboot_required"}
      [] kind = "complete" -> {"verifying"}

Target(kind) ==
    CASE kind \in {"urgent", "cancel"} -> "cancelled"
      [] kind = "begin_update" -> "updating"
      [] kind = "reboot" -> "reboot_required"
      [] kind \in {"updates_applied", "begin_verification"} -> "verifying"
      [] kind = "complete" -> "completed"

Answer(c) == call' = [call EXCEPT ![c] = NoCall]
Go(c, pc) == call' = [call EXCEPT ![c].pc = pc]

\* The caller names the run it was shown.
Request(c, kind) ==
    /\ call[c].pc = "idle"
    /\ call' = [call EXCEPT ![c] = [kind |-> kind, pc |-> "read",
                                       run |-> [NoRun EXCEPT !.id = run.id]]]
    /\ KeepWorkspaces /\ KeepRuns /\ UNCHANGED <<flag, worker, faults>>

\* Store.Active, and the check of what it returns.
Read(c) ==
    LET kind == call[c].kind
        accepted == /\ Active(run) /\ run.state \in Accepts(kind)
                    /\ kind = "urgent" \/ run.id = call[c].run.id
        next == IF kind = "complete" THEN "ping" ELSE "swap"
    IN /\ call[c].pc = "read"
       /\ IF accepted THEN call' = [call EXCEPT ![c].run = run, ![c].pc = next]
          ELSE IF kind \in {"weekly", "urgent"} /\ ~Active(run) THEN Go(c, "insert")
          ELSE Answer(c)
       /\ KeepWorkspaces /\ KeepRuns /\ UNCHANGED <<flag, worker, faults>>

\* Health of the database and of Coder.
Ping(c) ==
    /\ call[c].pc = "ping"
    /\ \/ Go(c, "swap") /\ UNCHANGED faults
       \/ Fault /\ Go(c, "fail")
    /\ KeepWorkspaces /\ KeepRuns /\ UNCHANGED <<flag, worker>>

\* The compare and swap of transition, Cancel, Complete and ScheduleUrgent, which
\* may fail before or after its commit.  Cancel and Complete then reopen admission.
Swap(c) ==
    LET kind == call[c].kind
        next == CASE kind = "urgent" -> "insert"
                  [] kind \in {"cancel", "complete"} -> "open"
                  [] OTHER -> "idle"
    IN /\ call[c].pc = "swap"
       /\ \/ /\ TransitionTo(call[c].run, Target(kind))
             /\ IF Swaps(call[c].run) /\ next # "idle" THEN Go(c, next) ELSE Answer(c)
             /\ UNCHANGED faults
          \/ Fault /\ Answer(c) /\ (UNCHANGED run \/ TransitionTo(call[c].run, Target(kind)))
       /\ KeepWorkspaces /\ UNCHANGED <<clock, flag, worker>>

\* Store.Create for ScheduleMaintenance.
Create(c) ==
    /\ call[c].pc = "insert"
    /\ Insert(call[c].kind = "urgent")
    /\ Answer(c)
    /\ KeepWorkspaces /\ UNCHANGED <<flag, worker, faults>>

\* fail reopens admission whether or not the run could be marked failed.
fail(c) ==
    /\ call[c].pc = "fail"
    /\ \/ TransitionTo(call[c].run, "failed") /\ UNCHANGED faults
       \/ Fault /\ UNCHANGED run
    /\ Go(c, "open")
    /\ KeepWorkspaces /\ UNCHANGED <<clock, flag, worker>>

ReopenAdmission(c) ==
    /\ call[c].pc = "open"
    /\ flag' = FALSE /\ closed' = FALSE
    /\ Answer(c)
    /\ KeepRuns /\ UNCHANGED <<ws, worker, faults>>

Serve(c) == Read(c) \/ Ping(c) \/ Swap(c) \/ Create(c) \/ fail(c) \/ ReopenAdmission(c)

-----------------------------------------------------------------------------
(* Everything else *)

\* Time moves to the warning and to the window of the active run.  The shortest
\* warning lead is a minute and a health check has 30 seconds: a call that is
\* verifying, or about to reopen admission, ends before.
Tick ==
    /\ Active(run)
    /\ \A c \in Callers : call[c].pc \notin {"ping", "fail", "open"}
    /\ \/ clock = "early" /\ clock' = "warning"
       \/ clock = "warning" /\ clock' = "due"
    /\ KeepWorkspaces /\ UNCHANGED <<run, flag, worker, call, faults>>

\* Owners and the lifecycle worker go on using the workspace service.
Use(w) ==
    /\ WorkspaceStep(w)
    /\ worker' = [worker EXCEPT !.saved = @ /\ ~(w = worker.cur /\ ws'[w] = "live")]
    /\ KeepRuns /\ UNCHANGED <<flag, call, faults>>

\* Mutant: the restart takes the run to be over once the host is updated.
RecoverMutant == run.state \in {"draining", "ready_for_update", "updating"}

\* The drain flag a restarted process sets before it serves anything.
Recover == run.state \in ClosedStates

Crash ==
    /\ Fault
    /\ flag' = Recover /\ closed' = Recover
    /\ Sleep /\ call' = [c \in Callers |-> NoCall]
    /\ KeepRuns /\ UNCHANGED ws

Init ==
    /\ LifecycleInit
    /\ flag = FALSE
    /\ run = NoRun /\ clock = "early"
    /\ worker = NoWork /\ call = [c \in Callers |-> NoCall]
    /\ faults = MaxFaults

Next ==
    \/ Work
    \/ \E c \in Callers : Serve(c) \/ \E kind \in Kinds : Request(c, kind)
    \/ \E w \in Workspaces : Use(w)
    \/ Tick \/ Crash

Spec == Init /\ [][Next]_vars

\* The worker runs every minute, and a call that has begun ends.
Fairness == WF_vars(Work) /\ \A c \in Callers : WF_vars(Serve(c))

FairSpec == Spec /\ Fairness

-----------------------------------------------------------------------------
(* Properties *)

ListedPCs == {"pass", "checkpoint", "suspend", "delete", "reconcile", "ready"}
DrainPCs == ListedPCs \cup {"close", "begin", "list"}
WorkerPCs == DrainPCs \cup {"idle", "insert", "run", "warn", "start"}
CallPCs == {"idle", "read", "ping", "swap", "insert", "fail", "open"}

Worker == [pc : WorkerPCs, run : Run, due : BOOLEAN, view : [Workspaces -> WorkspaceStates],
           cur : Workspaces \cup {None}, saved : BOOLEAN, err : BOOLEAN,
           pass : 0..(MaxPasses - 1)]
Call == [kind : Kinds, pc : CallPCs, run : Run]

\* Every variable has its declared shape.
TypeOK ==
    /\ ws \in [Workspaces -> WorkspaceStates]
    /\ closed \in BOOLEAN /\ flag \in BOOLEAN
    /\ run \in Run /\ clock \in {"early", "warning", "due"}
    /\ worker \in Worker /\ call \in [Callers -> Call]
    /\ faults \in 0..MaxFaults

Settled == \A w \in Workspaces : ws[w] \notin {"provisioning", "live", "suspending"}

\* While the host may be updated or rebooted no runtime is up and none can be
\* started, whatever crashed and whoever called meanwhile (coordinator.go:321-325).
HostUpdateFindsNothingRunning == run.state \in HostStates => closed /\ Settled

\* What the coordinator relies on at every point of its code, whatever the other
\* goroutines do: it drains the run that is active, behind a closed admission
\* (326-348), nothing its snapshot has as up is starting again (362-391), and
\* whoever may still reopen admission does so before the next drain (501, 554).
WorkerFacts ==
    /\ worker.run.id <= run.id
    /\ worker.pc = "warn" => worker.run.state = "scheduled"
    /\ worker.pc = "start" => worker.due /\ worker.run.state \in Cancellable
    /\ worker.pc \in {"warn", "start"} /\ worker.run.id = run.id =>
          worker.run.urgent = run.urgent /\ (worker.due => clock = "due")
    /\ worker.pc \in DrainPCs => worker.run = run /\ run.state = "draining"
    /\ worker.pc \in DrainPCs \ {"close"} => flag
    /\ worker.pc \in ListedPCs \cup {"list"} => closed
    /\ worker.pc = "ready" => Settled

SnapshotFacts ==
    \A w \in Workspaces :
        /\ worker.pc \in ListedPCs =>
              /\ worker.view[w] = "live" => ws[w] # "provisioning"
              /\ worker.view[w] = "suspending" => ws[w] \notin {"provisioning", "live"}
        /\ worker.pc \in {"checkpoint", "suspend"} /\ worker.cur = w => ws[w] # "provisioning"
        /\ worker.pc = "suspend" /\ worker.cur = w /\ ws[w] = "live" =>
              worker.run.urgent \/ worker.saved

CallFacts ==
    \A c \in Callers :
        /\ call[c].pc = "swap" => call[c].run.state \in Accepts(call[c].kind)
        /\ call[c].pc \in {"ping", "fail"} => call[c].kind = "complete" /\ call[c].run.state = "verifying"
        /\ call[c].pc \in {"ping", "fail", "open"} =>
              /\ run.state \notin HostStates \cup {"draining"}
              /\ run.state \in Cancellable => clock # "due"

CoordinatorInvariant ==
    WorkerFacts /\ SnapshotFacts /\ CallFacts /\ HostUpdateFindsNothingRunning

\* Once its drain has begun a run is neither cancelled nor superseded: a call that
\* read the run before loses the race (coordinator.go:519).
DrainIsNotCancelled ==
    [][run.state \in ClosedStates => run'.state # "cancelled"]_vars

\* A scheduled drain stops no workspace it has not checkpointed, even when the
\* workspace changed after the snapshot (coordinator.go:369-375).
ScheduledDrainCheckpointsFirst ==
    [][\A w \in Workspaces :
          worker.pc = "suspend" /\ worker.cur = w /\ ws[w] = "live" /\ ws'[w] = "suspending"
              => worker.run.urgent \/ worker.saved]_vars

\* A drain ends once failures cease, whatever the owners do meanwhile.
DrainCompletes == run.state = "draining" ~> run.state # "draining"

\* "Admission stays closed across every error and process restart: only successful
\* post-update verification reopens it" (coordinator.go:321-323).
OnlyVerificationReopens ==
    [][flag /\ ~flag' => run.state \notin {"verifying", "failed"}]_vars

=============================================================================
