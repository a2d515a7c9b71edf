-------------------------- MODULE MaintenanceProofs --------------------------
(***************************************************************************)
(* Theorems about Maintenance, for any number of workspaces, API calls,    *)
(* runs, passes and failures.                                              *)
(*                                                                         *)
(* IInv is inductive.  There is one lemma per action; what several actions *)
(* share (a swap of the run, the end of a worker's round, the frame of the *)
(* workspaces) has a lemma of its own.                                     *)
(***************************************************************************)
EXTENDS Maintenance, TLAPS

IInv == TypeOK /\ CoordinatorInvariant

-----------------------------------------------------------------------------
(* Types *)

LEMMA NoRunType == NoRun \in Run /\ NoRun.id = 0
BY MaintenanceAssumption DEF NoRun, Run, RunStates

LEMMA NoWorkType == NoWork \in Worker /\ NoWork.pc = "idle" /\ NoWork.run.id = 0
BY MaintenanceAssumption, NoRunType
   DEF NoWork, Nothing, Worker, WorkerPCs, WorkspaceStates

LEMMA NoCallType == NoCall \in Call /\ NoCall.pc = "idle"
BY NoRunType DEF NoCall, Call, CallPCs, Kinds

LEMMA RunFields ==
    ASSUME NEW r \in Run
    PROVE  r.id \in 0..MaxRuns /\ r.state \in RunStates /\ r.urgent \in BOOLEAN
BY DEF Run

LEMMA WorkerFields ==
    ASSUME NEW x \in Worker
    PROVE  /\ x.pc \in WorkerPCs /\ x.run \in Run /\ x.due \in BOOLEAN
           /\ x.view \in [Workspaces -> WorkspaceStates] /\ x.cur \in Workspaces \cup {None}
           /\ x.saved \in BOOLEAN /\ x.err \in BOOLEAN /\ x.pass \in 0..(MaxPasses - 1)
BY DEF Worker

LEMMA CallFields ==
    ASSUME NEW x \in Call
    PROVE  x.kind \in Kinds /\ x.pc \in CallPCs /\ x.run \in Run
BY DEF Call

\* The ways the worker's record changes, field by field.
LEMMA Proceeds ==
    ASSUME NEW x \in Worker, NEW pc \in WorkerPCs, NEW y, y = [x EXCEPT !.pc = pc]
    PROVE  /\ y \in Worker /\ y.pc = pc /\ y.run = x.run /\ y.due = x.due
           /\ y.view = x.view /\ y.cur = x.cur /\ y.saved = x.saved
BY DEF Worker

LEMMA TakesRun ==
    ASSUME worker \in Worker, run \in Run, NEW pc \in WorkerPCs,
           worker' = [worker EXCEPT !.pc = pc, !.run = run, !.due = (clock = "due")]
    PROVE  worker' \in Worker /\ worker'.pc = pc /\ worker'.run = run /\ (worker'.due <=> clock = "due")
<1>1. (clock = "due") \in BOOLEAN
  OBVIOUS
<1>2. PICK b \in BOOLEAN : b = (clock = "due")
  BY <1>1
<1>3. worker' = [worker EXCEPT !.pc = pc, !.run = run, !.due = b]
  BY <1>2
<1>4. worker' \in Worker /\ worker'.pc = pc /\ worker'.run = run /\ worker'.due = b
  BY <1>3 DEF Worker
<1>. QED BY <1>2, <1>4

LEMMA Advances ==
    ASSUME worker \in Worker, NEW pc \in WorkerPCs, NEW s \in RunStates,
           worker' = [worker EXCEPT !.run.state = s, !.pc = pc]
    PROVE  /\ worker' \in Worker /\ worker'.pc = pc /\ worker'.due = worker.due
           /\ worker'.run.id = worker.run.id /\ worker'.run.state = s
           /\ worker'.run.urgent = worker.run.urgent
BY DEF Worker, Run

LEMMA Snapshots ==
    ASSUME worker \in Worker, ws \in [Workspaces -> WorkspaceStates], NEW pc \in WorkerPCs,
           NEW n \in 0..(MaxPasses - 1),
           worker' = [worker EXCEPT !.view = ws, !.pass = n, !.err = FALSE, !.pc = pc]
    PROVE  worker' \in Worker /\ worker'.pc = pc /\ worker'.view = ws /\ worker'.run = worker.run
BY DEF Worker

LEMMA Picks ==
    ASSUME worker \in Worker, NEW pc \in WorkerPCs, NEW w \in Workspaces,
           worker' = [worker EXCEPT !.view[w] = "off", !.cur = w, !.pc = pc]
    PROVE  /\ worker' \in Worker /\ worker'.pc = pc /\ worker'.cur = w
           /\ worker'.run = worker.run
           /\ worker'.view[w] = "off" /\ \A v \in Workspaces \ {w} : worker'.view[v] = worker.view[v]
BY DEF Worker, WorkspaceStates

LEMMA Saves ==
    ASSUME worker \in Worker, NEW pc \in WorkerPCs,
           \/ worker' = [worker EXCEPT !.saved = TRUE, !.pc = pc]
           \/ worker' = [worker EXCEPT !.err = TRUE, !.pc = pc] /\ worker.run.urgent
    PROVE  /\ worker' \in Worker /\ worker'.pc = pc /\ worker'.run = worker.run
           /\ worker'.view = worker.view /\ worker'.cur = worker.cur
           /\ worker'.run.urgent \/ worker'.saved
BY DEF Worker

LEMMA Handles ==
    ASSUME worker \in Worker, NEW b \in BOOLEAN, Handled(b)
    PROVE  /\ worker' \in Worker /\ worker'.pc = "pass" /\ worker'.run = worker.run
           /\ worker'.view = worker.view
BY DEF Handled, Worker, WorkerPCs, DrainPCs, ListedPCs

\* A failure uses up one of those allowed.
LEMMA FaultType ==
    ASSUME faults \in 0..MaxFaults, Fault \/ UNCHANGED faults
    PROVE  faults' \in 0..MaxFaults
BY MaintenanceAssumption DEF Fault

\* A swap moves the run that was read from the state that was read, or nothing.
LEMMA SwapType ==
    ASSUME run \in Run, NEW r \in Run, NEW s \in RunStates, TransitionTo(r, s)
    PROVE  /\ run' \in Run /\ run'.id = run.id /\ run'.urgent = run.urgent
           /\ Swaps(r) => /\ run.state = r.state /\ run.id = r.id
                          /\ run'.state = s /\ run' = [run EXCEPT !.state = s]
           /\ ~Swaps(r) => run' = run
BY DEF TransitionTo, Swaps, Run

\* A new run comes only after the last one has ended.
LEMMA InsertType ==
    ASSUME run \in Run, clock \in {"early", "warning", "due"}, NEW u \in BOOLEAN, Insert(u)
    PROVE  /\ run' \in Run /\ clock' \in {"early", "warning", "due"}
           /\ \/ UNCHANGED <<run, clock>>
              \/ /\ ~Active(run) /\ run'.id = run.id + 1
                 /\ run'.state = "scheduled" /\ clock' # "due"
BY MaintenanceAssumption DEF Insert, Run, RunStates, Cancellable

\* The workspaces themselves: behind a closed admission nothing starts.
LEMMA StepFacts ==
    ASSUME ws \in [Workspaces -> WorkspaceStates], NEW w \in Workspaces, WorkspaceStep(w)
    PROVE  /\ ws' \in [Workspaces -> WorkspaceStates] /\ closed' = closed
           /\ \A v \in Workspaces \ {w} : ws'[v] = ws[v]
           /\ ws[w] # "provisioning" /\ closed => ws'[w] # "provisioning"
           /\ ws[w] # "provisioning" => ws'[w] # "live"
           /\ ws[w] \notin {"provisioning", "live"} => ws'[w] # "suspending"
BY DEF WorkspaceStep, Reserve, Provisioned, Abandoned, Suspending, Suspended, Tombstoned,
       Finalized, Move, WorkspaceStates

-----------------------------------------------------------------------------
(* Frames *)

LEMMA Basics ==
    ASSUME IInv
    PROVE  /\ ws \in [Workspaces -> WorkspaceStates] /\ closed \in BOOLEAN /\ flag \in BOOLEAN
           /\ run \in Run /\ clock \in {"early", "warning", "due"}
           /\ worker \in Worker /\ call \in [Callers -> Call] /\ faults \in 0..MaxFaults
           /\ run.id \in 0..MaxRuns /\ run.state \in RunStates
           /\ worker.run \in Run /\ worker.pc \in WorkerPCs /\ worker.run.id \in 0..MaxRuns
           /\ WorkerFacts /\ SnapshotFacts /\ CallFacts /\ HostUpdateFindsNothingRunning
<1>1. TypeOK /\ CoordinatorInvariant
  BY DEF IInv
<1>2. run \in Run /\ worker \in Worker
  BY <1>1 DEF TypeOK
<1>3. worker.run \in Run /\ worker.pc \in WorkerPCs
  BY <1>2, WorkerFields
<1>. QED BY <1>1, <1>2, <1>3, RunFields DEF TypeOK, CoordinatorInvariant

\* The worker goes back to sleep, and the run is left alone.
LEMMA Sleeping ==
    ASSUME IInv, Sleep, UNCHANGED <<ws, closed, flag, run, clock, call>>, Fault \/ UNCHANGED faults
    PROVE  IInv'
<1>. USE Basics
<1>1. worker' \in Worker /\ worker'.pc = "idle" /\ worker'.run.id = 0
  BY NoWorkType DEF Sleep
<1>2. TypeOK'
  BY <1>1, FaultType DEF TypeOK
<1>3. WorkerFacts'
  BY <1>1 DEF WorkerFacts, DrainPCs, ListedPCs
<1>4. SnapshotFacts'
  BY <1>1 DEF SnapshotFacts, ListedPCs
<1>5. CallFacts' /\ HostUpdateFindsNothingRunning'
  BY DEF CallFacts, HostUpdateFindsNothingRunning, Settled
<1>. QED BY <1>2, <1>3, <1>4, <1>5 DEF IInv, CoordinatorInvariant

\* The run and the calls are left alone by a step of the drain that keeps the
\* worker inside it; what the step has to show is about its snapshot only.
LEMMA Draining ==
    ASSUME IInv, worker.pc \in DrainPCs,
           UNCHANGED <<run, clock, call>>, Fault \/ UNCHANGED faults,
           ws' \in [Workspaces -> WorkspaceStates], closed' \in BOOLEAN, flag' \in BOOLEAN,
           worker' \in Worker, worker'.run = worker.run, worker'.pc \in DrainPCs,
           worker'.pc # "close" => flag',
           worker'.pc \in ListedPCs \cup {"list"} => closed',
           worker'.pc = "ready" => Settled',
           SnapshotFacts'
    PROVE  IInv'
<1>. USE Basics
<1>1. TypeOK'
  BY FaultType DEF TypeOK
<1>2. run.state = "draining" /\ worker.run = run
  BY DEF WorkerFacts
<1>3. WorkerFacts'
  BY <1>2 DEF WorkerFacts, DrainPCs, ListedPCs
<1>4. CallFacts'
  BY DEF CallFacts
<1>5. HostUpdateFindsNothingRunning'
  BY <1>2 DEF HostUpdateFindsNothingRunning, HostStates
<1>. QED BY <1>1, <1>3, <1>4, <1>5 DEF IInv, CoordinatorInvariant

\* A swap of the run by the worker: to a warning, to the drain, or out of it.
LEMMA WorkerSwaps ==
    ASSUME IInv, NEW s \in RunStates, TransitionTo(worker.run, s),
           UNCHANGED <<ws, closed, flag, clock, call>>,
           \/ worker.pc = "warn" /\ s = "warning"
           \/ worker.pc = "start" /\ s = "draining"
           \/ worker.pc = "ready" /\ s = "ready_for_update"
    PROVE  /\ run' \in Run /\ run'.id = run.id
           /\ CallFacts' /\ HostUpdateFindsNothingRunning'
<1>. USE Basics
<1>1. /\ run' \in Run /\ run'.id = run.id
      /\ Swaps(worker.run) => run.state = worker.run.state /\ run.id = worker.run.id /\ run'.state = s
      /\ ~Swaps(worker.run) => run' = run
  BY SwapType
<1>2. CASE ~Swaps(worker.run)
  BY <1>1, <1>2 DEF CallFacts, HostUpdateFindsNothingRunning, Settled
<1>3. CASE Swaps(worker.run)
  <2>1. CASE worker.pc = "warn" /\ s = "warning"
    <3>1. run.state = "scheduled" /\ run'.state = "warning"
      BY <1>1, <1>3, <2>1 DEF WorkerFacts
    <3>. QED BY <1>1, <3>1 DEF CallFacts, HostUpdateFindsNothingRunning, HostStates, Cancellable
  <2>2. CASE worker.pc = "start" /\ s = "draining"
    <3>1. run.state \in Cancellable /\ clock = "due" /\ run'.state = "draining"
      BY <1>1, <1>3, <2>2 DEF WorkerFacts
    <3>. QED BY <1>1, <3>1 DEF CallFacts, HostUpdateFindsNothingRunning, HostStates, Cancellable
  <2>3. CASE worker.pc = "ready" /\ s = "ready_for_update"
    <3>1. run.state = "draining" /\ closed /\ Settled /\ run'.state = "ready_for_update"
      BY <1>1, <1>3, <2>3 DEF WorkerFacts, DrainPCs, ListedPCs
    <3>. QED BY <1>1, <3>1 DEF CallFacts, HostUpdateFindsNothingRunning, HostStates, Cancellable, Settled
  <2>. QED BY <2>1, <2>2, <2>3
<1>. QED BY <1>1, <1>2, <1>3

-----------------------------------------------------------------------------
(* The worker *)

LEMMA ScheduleWeeklyPreserves ==
    ASSUME IInv, ScheduleWeekly
    PROVE  IInv'
<1>. USE Basics
<1>1. PICK pc \in {"run", "insert"} : Proceed(pc)
  BY DEF ScheduleWeekly
<1>2. /\ worker' \in Worker /\ worker'.pc = pc /\ worker'.run = worker.run
  BY <1>1, Proceeds DEF Proceed, WorkerPCs
<1>3. /\ run' \in Run /\ clock' \in {"early", "warning", "due"}
      /\ \/ UNCHANGED <<run, clock>>
         \/ /\ ~Active(run) /\ run'.id = run.id + 1
            /\ run'.state = "scheduled" /\ clock' # "due"
  BY InsertType DEF ScheduleWeekly, KeepRuns
<1>4. UNCHANGED <<ws, closed, flag, call, faults>>
  BY DEF ScheduleWeekly, KeepWorkspaces
<1>5. TypeOK'
  BY <1>2, <1>3, <1>4 DEF TypeOK
<1>6. WorkerFacts'
  BY <1>2, <1>3 DEF WorkerFacts, DrainPCs, ListedPCs
<1>7. SnapshotFacts'
  BY <1>2 DEF SnapshotFacts, ListedPCs
<1>8. CallFacts' /\ HostUpdateFindsNothingRunning'
  BY <1>3, <1>4 DEF CallFacts, HostUpdateFindsNothingRunning, Settled, HostStates
<1>. QED BY <1>5, <1>6, <1>7, <1>8 DEF IInv, CoordinatorInvariant

LEMMA RunOncePreserves ==
    ASSUME IInv, RunOnce
    PROVE  IInv'
<1>. USE Basics
<1>1. UNCHANGED <<ws, closed, flag, run, clock, call, faults>>
  BY DEF RunOnce, KeepWorkspaces, KeepRuns
<1>2. CASE Sleep
  BY <1>1, <1>2, Sleeping
<1>3. CASE \E pc \in {"warn", "start", "close"} :
             /\ worker' = [worker EXCEPT !.pc = pc, !.run = run, !.due = (clock = "due")]
             /\ pc = "warn" => run.state = "scheduled"
             /\ pc = "start" => run.state \in Cancellable /\ clock = "due"
             /\ pc = "close" => run.state = "draining"
  <2>1. PICK pc \in {"warn", "start", "close"} :
             /\ worker' = [worker EXCEPT !.pc = pc, !.run = run, !.due = (clock = "due")]
             /\ pc = "warn" => run.state = "scheduled"
             /\ pc = "start" => run.state \in Cancellable /\ clock = "due"
             /\ pc = "close" => run.state = "draining"
    BY <1>3
  <2>2. pc \in WorkerPCs
    BY DEF WorkerPCs, DrainPCs
  <2>3. worker' \in Worker /\ worker'.pc = pc /\ worker'.run = run /\ (worker'.due <=> clock = "due")
    BY <2>1, <2>2, TakesRun
  <2>4. TypeOK'
    BY <1>1, <2>3 DEF TypeOK
  <2>5. WorkerFacts'
    BY <1>1, <2>1, <2>3 DEF WorkerFacts, DrainPCs, ListedPCs
  <2>6. SnapshotFacts' /\ CallFacts' /\ HostUpdateFindsNothingRunning'
    BY <1>1, <2>3 DEF SnapshotFacts, ListedPCs, CallFacts, HostUpdateFindsNothingRunning, Settled
  <2>. QED BY <2>4, <2>5, <2>6 DEF IInv, CoordinatorInvariant
<1>. QED
  <2>. DEFINE next == CASE run.state = "scheduled" /\ clock # "early" -> "warn"
                        [] run.state \in Cancellable /\ clock = "due" -> "start"
                        [] run.state = "draining" -> "close"
                        [] OTHER -> "idle"
  <2>1. /\ next \in {"warn", "start", "close", "idle"}
        /\ next = "warn" => run.state = "scheduled"
        /\ next = "start" => run.state \in Cancellable /\ clock = "due"
        /\ next = "close" => run.state = "draining"
    OBVIOUS
  <2>2. worker' = IF next = "idle" THEN NoWork
                  ELSE [worker EXCEPT !.pc = next, !.run = run, !.due = (clock = "due")]
    BY DEF RunOnce
  <2>. HIDE DEF next
  <2>3. CASE next = "idle"
    BY <1>2, <2>2, <2>3 DEF Sleep
  <2>4. CASE next # "idle"
    BY <1>3, <2>1, <2>2, <2>4
  <2>. QED BY <2>3, <2>4

\* Warn, StartDraining and markReady.
LEMMA AdvancePreserves ==
    ASSUME IInv, Warn \/ StartDraining \/ markReady
    PROVE  IInv'
<1>. USE Basics
<1>1. PICK s \in RunStates, pc \in {"start", "close", "idle"} :
         /\ Advance(s, pc)
         /\ \/ worker.pc = "warn" /\ s = "warning" /\ pc \in {"start", "idle"} /\ (pc = "start" => worker.due)
            \/ worker.pc = "start" /\ s = "draining" /\ pc = "close"
            \/ worker.pc = "ready" /\ s = "ready_for_update" /\ pc = "idle"
  BY DEF Warn, StartDraining, markReady, RunStates, ClosedStates, HostStates, Cancellable
<1>2. UNCHANGED <<ws, closed, flag, clock, call>>
  BY <1>1 DEF Advance, KeepWorkspaces
<1>3. CASE UNCHANGED run /\ Sleep /\ Fault
  BY <1>2, <1>3, Sleeping
<1>4. CASE TransitionTo(worker.run, s) /\ (Fault \/ UNCHANGED faults)
  <2>1. /\ run' \in Run /\ run'.id = run.id
        /\ CallFacts' /\ HostUpdateFindsNothingRunning'
    BY <1>1, <1>2, <1>4, WorkerSwaps
  <2>2. CASE Sleep
    <3>1. worker' \in Worker /\ worker'.pc = "idle" /\ worker'.run.id = 0
      BY <2>2, NoWorkType DEF Sleep
    <3>2. TypeOK'
      BY <1>2, <1>4, <2>1, <3>1, FaultType DEF TypeOK
    <3>3. WorkerFacts' /\ SnapshotFacts'
      BY <2>1, <3>1 DEF WorkerFacts, SnapshotFacts, DrainPCs, ListedPCs
    <3>. QED BY <2>1, <3>2, <3>3 DEF IInv, CoordinatorInvariant
  <2>3. CASE /\ Swaps(worker.run) /\ pc # "idle" /\ UNCHANGED faults
             /\ worker' = [worker EXCEPT !.run.state = s, !.pc = pc]
    <3>1. pc \in WorkerPCs
      BY DEF WorkerPCs, DrainPCs
    <3>2. /\ worker' \in Worker /\ worker'.pc = pc /\ worker'.due = worker.due
          /\ worker'.run.id = worker.run.id /\ worker'.run.state = s
          /\ worker'.run.urgent = worker.run.urgent
      BY <2>3, <3>1, Advances
    <3>3. /\ run.id = worker.run.id /\ run.state = worker.run.state
          /\ run'.state = s /\ run' = [run EXCEPT !.state = s]
      BY <1>4, <2>3, SwapType
    <3>4. TypeOK'
      BY <1>2, <2>1, <2>3, <3>2 DEF TypeOK
    <3>5. CASE pc = "start"
      <4>1. worker.pc = "warn" /\ s = "warning" /\ worker.due
        BY <1>1, <3>5
      <4>. QED BY <1>2, <2>1, <3>2, <3>3, <3>4, <3>5, <4>1
               DEF IInv, CoordinatorInvariant, WorkerFacts, SnapshotFacts, DrainPCs, ListedPCs, Cancellable
    <3>6. CASE pc = "close"
      <4>1. s = "draining"
        BY <1>1, <3>6
      <4>2. worker'.run \in Run /\ worker'.run.urgent = run'.urgent
        BY <1>1, <2>1, <3>2, <3>3, <3>6, WorkerFields DEF WorkerFacts, Run
      <4>3. worker'.run = run'
        BY <2>1, <3>2, <3>3, <4>2 DEF Run
      <4>4. WorkerFacts' /\ SnapshotFacts'
        BY <2>1, <3>2, <3>3, <3>6, <4>1, <4>3 DEF WorkerFacts, SnapshotFacts, DrainPCs, ListedPCs
      <4>. QED BY <2>1, <3>4, <4>4 DEF IInv, CoordinatorInvariant
    <3>. QED BY <2>3, <3>5, <3>6
  <2>. QED BY <1>1, <1>4, <2>2, <2>3 DEF Advance, Sleep
<1>. QED BY <1>1, <1>3, <1>4 DEF Advance

LEMMA SetMaintenanceDrainPreserves ==
    ASSUME IInv, SetMaintenanceDrain
    PROVE  IInv'
<1>. USE Basics
<1>1. /\ worker.pc = "close" /\ UNCHANGED <<ws, closed, run, clock, call, faults>> /\ flag' = TRUE
  BY DEF SetMaintenanceDrain, KeepWorkspaces, KeepRuns
<1>2. worker' \in Worker /\ worker'.pc = "begin" /\ worker'.run = worker.run
  BY Proceeds DEF SetMaintenanceDrain, Proceed, WorkerPCs, DrainPCs
<1>3. SnapshotFacts'
  BY <1>2 DEF SnapshotFacts, ListedPCs
<1>. QED BY <1>1, <1>2, <1>3, Draining DEF DrainPCs, ListedPCs

LEMMA BeginMaintenanceDrainPreserves ==
    ASSUME IInv, BeginMaintenanceDrain
    PROVE  IInv'
<1>. USE Basics
<1>1. /\ worker.pc = "begin" /\ flag /\ UNCHANGED <<ws, flag, run, clock, call>>
  BY DEF BeginMaintenanceDrain, KeepRuns, WorkerFacts, DrainPCs, ListedPCs
<1>2. CASE Fault /\ Sleep /\ UNCHANGED closed
  BY <1>1, <1>2, Sleeping
<1>3. CASE closed' = flag /\ Proceed("list") /\ UNCHANGED faults
  <2>1. worker' \in Worker /\ worker'.pc = "list" /\ worker'.run = worker.run
    BY <1>3, Proceeds DEF Proceed, WorkerPCs, DrainPCs
  <2>2. SnapshotFacts'
    BY <2>1 DEF SnapshotFacts, ListedPCs
  <2>. QED BY <1>1, <1>3, <2>1, <2>2, Draining DEF DrainPCs, ListedPCs
<1>. QED BY <1>2, <1>3 DEF BeginMaintenanceDrain

\* The first snapshot and those of the later passes.
LEMMA SnapshotPreserves ==
    ASSUME IInv, worker.pc \in {"list", "pass"}, NEW n \in 0..(MaxPasses - 1), Snapshot(n),
           UNCHANGED <<ws, closed, flag, run, clock, call, faults>>
    PROVE  IInv'
<1>. USE Basics
<1>1. flag /\ closed /\ worker.pc \in DrainPCs
  BY DEF WorkerFacts, DrainPCs, ListedPCs
<1>2. PICK pc \in {"ready", "pass"} :
         /\ worker' = [worker EXCEPT !.view = ws, !.pass = n, !.err = FALSE, !.pc = pc]
         /\ pc = "ready" => unsafeWorkspaces(ws) = {}
  BY DEF Snapshot
<1>3. worker' \in Worker /\ worker'.pc = pc /\ worker'.view = ws /\ worker'.run = worker.run
  BY <1>2, Snapshots DEF WorkerPCs, DrainPCs, ListedPCs
<1>4. pc = "ready" => Settled
  BY <1>2 DEF unsafeWorkspaces, providerUnsafe, Settled
<1>5. SnapshotFacts' /\ (pc = "ready" => Settled')
  BY <1>3, <1>4 DEF SnapshotFacts, Settled
<1>. QED BY <1>1, <1>3, <1>5, Draining DEF DrainPCs, ListedPCs

LEMMA ListAllPreserves ==
    ASSUME IInv, ListAll
    PROVE  IInv'
<1>1. UNCHANGED <<ws, closed, flag, run, clock, call>> /\ worker.pc = "list"
  BY DEF ListAll, KeepWorkspaces, KeepRuns
<1>2. 0 \in 0..(MaxPasses - 1)
  BY MaintenanceAssumption
<1>3. CASE Snapshot(0) /\ UNCHANGED faults
  BY <1>1, <1>2, <1>3, SnapshotPreserves
<1>4. CASE Fault /\ Sleep
  BY <1>1, <1>4, Sleeping
<1>. QED BY <1>3, <1>4 DEF ListAll

LEMMA NextPassPreserves ==
    ASSUME IInv, NextPass
    PROVE  IInv'
<1>. USE Basics
<1>1. UNCHANGED <<ws, closed, flag, run, clock, call>> /\ worker.pc = "pass"
  BY DEF NextPass, KeepWorkspaces, KeepRuns
<1>2. CASE Sleep /\ (Fault \/ UNCHANGED faults)
  BY <1>1, <1>2, Sleeping
<1>3. CASE Snapshot(worker.pass + 1) /\ UNCHANGED faults /\ worker.pass + 1 # MaxPasses
  <2>1. worker.pass \in 0..(MaxPasses - 1)
    BY WorkerFields
  <2>2. worker.pass + 1 \in 0..(MaxPasses - 1)
    BY <1>3, <2>1, MaintenanceAssumption
  <2>. QED BY <1>1, <1>3, <2>2, SnapshotPreserves
<1>. QED BY <1>2, <1>3 DEF NextPass

LEMMA DrainOnePreserves ==
    ASSUME IInv, NEW w \in Workspaces, DrainOne(w)
    PROVE  IInv'
<1>. USE Basics
<1>1. /\ worker.pc = "pass" /\ providerUnsafe(worker.view[w])
      /\ UNCHANGED <<ws, closed, flag, run, clock, call, faults>>
  BY DEF DrainOne, unsafeWorkspaces, KeepWorkspaces, KeepRuns
<1>2. PICK pc \in {"checkpoint", "suspend", "delete", "reconcile"} :
         /\ worker' = [worker EXCEPT !.view[w] = "off", !.cur = w, !.pc = pc]
         /\ pc = "checkpoint" => worker.view[w] = "live"
         /\ pc = "suspend" => worker.view[w] = "suspending"
  <2>. DEFINE pc == CASE worker.view[w] = "live" -> "checkpoint"
                      [] worker.view[w] = "suspending" -> "suspend"
                      [] worker.view[w] = "deleting" -> "delete"
                      [] worker.view[w] = "provisioning" -> "reconcile"
  <2>1. /\ pc \in {"checkpoint", "suspend", "delete", "reconcile"}
        /\ pc = "checkpoint" => worker.view[w] = "live"
        /\ pc = "suspend" => worker.view[w] = "suspending"
    BY <1>1 DEF providerUnsafe
  <2>2. worker' = [worker EXCEPT !.view[w] = "off", !.cur = w, !.pc = pc]
    BY DEF DrainOne
  <2>. HIDE DEF pc
  <2>. QED BY <2>1, <2>2
<1>3. /\ worker' \in Worker /\ worker'.pc = pc /\ worker'.cur = w
      /\ worker'.run = worker.run
      /\ worker'.view[w] = "off" /\ \A v \in Workspaces \ {w} : worker'.view[v] = worker.view[v]
  BY <1>2, Picks DEF WorkerPCs, DrainPCs, ListedPCs
<1>4. flag /\ closed
  BY <1>1 DEF WorkerFacts, DrainPCs, ListedPCs
<1>5. SnapshotFacts'
  BY <1>1, <1>2, <1>3 DEF SnapshotFacts, ListedPCs
<1>. QED BY <1>1, <1>3, <1>4, <1>5, Draining DEF DrainPCs, ListedPCs

LEMMA CreateRequiredPreserves ==
    ASSUME IInv, NEW w \in Workspaces, CreateRequired(w)
    PROVE  IInv'
<1>. USE Basics
<1>1. /\ worker.pc = "checkpoint" /\ worker.cur = w
      /\ UNCHANGED <<ws, closed, flag, run, clock, call>> /\ (Fault \/ UNCHANGED faults)
  BY DEF CreateRequired, KeepRuns
<1>2. flag /\ closed
  BY <1>1 DEF WorkerFacts, DrainPCs, ListedPCs
<1>3. CASE Handled(TRUE)
  <2>1. worker' \in Worker /\ worker'.pc = "pass" /\ worker'.run = worker.run /\ worker'.view = worker.view
    BY <1>3, Handles
  <2>2. SnapshotFacts'
    BY <1>1, <2>1 DEF SnapshotFacts, ListedPCs
  <2>. QED BY <1>1, <1>2, <2>1, <2>2, Draining DEF DrainPCs, ListedPCs
<1>4. CASE \/ worker' = [worker EXCEPT !.saved = TRUE, !.pc = "suspend"]
           \/ worker' = [worker EXCEPT !.err = TRUE, !.pc = "suspend"] /\ worker.run.urgent
  <2>1. /\ worker' \in Worker /\ worker'.pc = "suspend" /\ worker'.run = worker.run
        /\ worker'.view = worker.view /\ worker'.cur = worker.cur
        /\ worker'.run.urgent \/ worker'.saved
    BY <1>4, Saves DEF WorkerPCs, DrainPCs, ListedPCs
  <2>2. SnapshotFacts'
    BY <1>1, <2>1 DEF SnapshotFacts, ListedPCs
  <2>. QED BY <1>1, <1>2, <2>1, <2>2, Draining DEF DrainPCs, ListedPCs
<1>. QED BY <1>3, <1>4 DEF CreateRequired

\* Suspend, Delete and ReconcileMaintenanceDrain: no workspace is started.
LEMMA OperationPreserves ==
    ASSUME IInv, NEW w \in Workspaces, Suspend(w) \/ Delete(w) \/ ReconcileMaintenanceDrain(w)
    PROVE  IInv'
<1>. USE Basics
<1>1. /\ worker.pc \in {"suspend", "delete", "reconcile"} /\ worker.cur = w
      /\ UNCHANGED <<closed, flag, run, clock, call>> /\ (Fault \/ UNCHANGED faults)
  BY DEF Suspend, Delete, ReconcileMaintenanceDrain, CallFails, KeepRuns
<1>2. flag /\ closed
  BY <1>1 DEF WorkerFacts, DrainPCs, ListedPCs
<1>3. /\ ws' \in [Workspaces -> WorkspaceStates]
      /\ \A v \in Workspaces : ws'[v] = ws[v] \/ ws'[v] \notin {"provisioning", "live"}
  BY DEF Suspend, Delete, ReconcileMaintenanceDrain, CallFails, WorkspaceStates
<1>4. CASE UNCHANGED worker
  <2>1. SnapshotFacts'
    BY <1>1, <1>3, <1>4 DEF SnapshotFacts, ListedPCs
  <2>. QED BY <1>1, <1>2, <1>3, <1>4, <2>1, Draining DEF DrainPCs, ListedPCs
<1>5. CASE \E b \in BOOLEAN : Handled(b)
  <2>1. worker' \in Worker /\ worker'.pc = "pass" /\ worker'.run = worker.run /\ worker'.view = worker.view
    BY <1>5, Handles
  <2>2. SnapshotFacts'
    BY <1>1, <1>3, <2>1 DEF SnapshotFacts, ListedPCs
  <2>. QED BY <1>1, <1>2, <1>3, <2>1, <2>2, Draining DEF DrainPCs, ListedPCs
<1>. QED BY <1>4, <1>5 DEF Suspend, Delete, ReconcileMaintenanceDrain, CallFails

LEMMA WorkPreserves ==
    ASSUME IInv, Work
    PROVE  IInv'
BY ScheduleWeeklyPreserves, RunOncePreserves, AdvancePreserves, SetMaintenanceDrainPreserves,
   BeginMaintenanceDrainPreserves, ListAllPreserves, NextPassPreserves, DrainOnePreserves,
   CreateRequiredPreserves, OperationPreserves
   DEF Work

-----------------------------------------------------------------------------
(* API calls *)

\* A step of one call that leaves the worker and the workspaces alone.
LEMMA Calling ==
    ASSUME IInv, NEW c \in Callers, NEW x \in Call, call' = [call EXCEPT ![c] = x],
           UNCHANGED <<ws, closed, flag, worker>>, Fault \/ UNCHANGED faults,
           run' \in Run, clock' \in {"early", "warning", "due"},
           \/ UNCHANGED <<run, clock>>
           \/ /\ clock' = clock /\ run'.id = run.id /\ run'.urgent = run.urgent
              /\ run.state \in HostStates /\ run'.state \in HostStates \cup {"verifying"}
           \/ /\ clock' = clock /\ run'.id = run.id /\ run'.urgent = run.urgent
              /\ run.state # "draining" /\ ~Active(run')
           \/ /\ ~Active(run) /\ run'.id = run.id + 1
              /\ run'.state = "scheduled" /\ clock' # "due",
           x.pc = "swap" => x.run.state \in Accepts(x.kind),
           x.pc \in {"ping", "fail"} => x.kind = "complete" /\ x.run.state = "verifying",
           x.pc \in {"ping", "fail", "open"} =>
              /\ run'.state \notin HostStates \cup {"draining"}
              /\ run'.state \in Cancellable => clock' # "due"
    PROVE  IInv'
<1>. USE Basics
<1>1. call' \in [Callers -> Call] /\ call'[c] = x /\ \A d \in Callers \ {c} : call'[d] = call[d]
  OBVIOUS
<1>2. TypeOK'
  BY <1>1, FaultType DEF TypeOK
<1>3. worker.pc \in DrainPCs => UNCHANGED <<run, clock>>
  BY DEF WorkerFacts, HostStates, Active, ClosedStates
<1>4. WorkerFacts'
  BY <1>3 DEF WorkerFacts, Settled, DrainPCs, ListedPCs
<1>5. SnapshotFacts'
  BY DEF SnapshotFacts
<1>6. HostUpdateFindsNothingRunning'
  BY DEF HostUpdateFindsNothingRunning, HostStates, Settled, Active, ClosedStates
<1>7. \A d \in Callers \ {c} : call[d].pc \in {"ping", "fail", "open"} =>
              /\ run'.state \notin HostStates \cup {"draining"}
              /\ run'.state \in Cancellable => clock' # "due"
  BY DEF CallFacts, HostStates, Cancellable, Active, ClosedStates
<1>8. CallFacts'
  BY <1>1, <1>7 DEF CallFacts
<1>. QED BY <1>2, <1>4, <1>5, <1>6, <1>8 DEF IInv, CoordinatorInvariant

\* The ways a call's record changes.
LEMMA CallMoves ==
    ASSUME NEW x \in Call, NEW pc \in CallPCs
    PROVE  /\ [x EXCEPT !.pc = pc] \in Call
           /\ [x EXCEPT !.pc = pc].pc = pc
           /\ [x EXCEPT !.pc = pc].kind = x.kind
           /\ [x EXCEPT !.pc = pc].run = x.run
BY DEF Call

\* Its answer: the caller is gone.
LEMMA Answering ==
    ASSUME IInv, NEW c \in Callers, Answer(c),
           UNCHANGED <<ws, closed, flag, worker>>, Fault \/ UNCHANGED faults,
           run' \in Run, clock' \in {"early", "warning", "due"},
           \/ UNCHANGED <<run, clock>>
           \/ /\ clock' = clock /\ run'.id = run.id /\ run'.urgent = run.urgent
              /\ run.state \in HostStates /\ run'.state \in HostStates \cup {"verifying"}
           \/ /\ clock' = clock /\ run'.id = run.id /\ run'.urgent = run.urgent
              /\ run.state # "draining" /\ ~Active(run')
           \/ /\ ~Active(run) /\ run'.id = run.id + 1
              /\ run'.state = "scheduled" /\ clock' # "due"
    PROVE  IInv'
BY NoCallType, Calling DEF Answer

\* It moves on, with the copy it has.
LEMMA Going ==
    ASSUME IInv, NEW c \in Callers, NEW pc \in CallPCs, Go(c, pc),
           UNCHANGED <<ws, closed, flag, worker>>, Fault \/ UNCHANGED faults,
           run' \in Run, UNCHANGED clock,
           \/ UNCHANGED run
           \/ /\ run'.id = run.id /\ run'.urgent = run.urgent
              /\ run.state # "draining" /\ ~Active(run'),
           pc = "swap" => call[c].run.state \in Accepts(call[c].kind),
           pc \in {"ping", "fail"} => call[c].kind = "complete" /\ call[c].run.state = "verifying",
           pc \in {"ping", "fail", "open"} =>
              /\ run'.state \notin HostStates \cup {"draining"}
              /\ run'.state \in Cancellable => clock # "due"
    PROVE  IInv'
<1>. USE Basics
<1>. DEFINE x == [call[c] EXCEPT !.pc = pc]
<1>1. call[c] \in Call
  OBVIOUS
<1>2. x \in Call /\ x.pc = pc /\ x.kind = call[c].kind /\ x.run = call[c].run
  BY <1>1, CallMoves
<1>3. call' = [call EXCEPT ![c] = x]
  BY DEF Go
<1>. HIDE DEF x
<1>. QED BY <1>2, <1>3, Calling

LEMMA RequestPreserves ==
    ASSUME IInv, NEW c \in Callers, NEW kind \in Kinds, Request(c, kind)
    PROVE  IInv'
<1>. USE Basics
<1>. DEFINE r == [NoRun EXCEPT !.id = run.id]
            x == [kind |-> kind, pc |-> "read", run |-> r]
<1>1. r \in Run
  BY NoRunType DEF Run
<1>. HIDE DEF r
<1>2. x \in Call /\ x.pc = "read"
  BY <1>1 DEF Call, CallPCs
<1>3. call' = [call EXCEPT ![c] = x] /\ UNCHANGED <<ws, closed, run, clock, flag, worker, faults>>
  BY DEF Request, KeepWorkspaces, KeepRuns, r
<1>. HIDE DEF x
<1>. QED BY <1>2, <1>3, Calling

LEMMA ReadPreserves ==
    ASSUME IInv, NEW c \in Callers, Read(c)
    PROVE  IInv'
<1>. USE Basics
<1>1. UNCHANGED <<ws, closed, run, clock, flag, worker, faults>>
  BY DEF Read, KeepWorkspaces, KeepRuns
<1>2. CASE Answer(c)
  BY <1>1, <1>2, Answering
<1>3. CASE Go(c, "insert")
  BY <1>1, <1>3, Going DEF CallPCs
<1>4. CASE \E pc \in {"ping", "swap"} :
             /\ call' = [call EXCEPT ![c].run = run, ![c].pc = pc]
             /\ run.state \in Accepts(call[c].kind)
             /\ pc = "ping" => call[c].kind = "complete"
  <2>1. PICK pc \in {"ping", "swap"} :
             /\ call' = [call EXCEPT ![c].run = run, ![c].pc = pc]
             /\ run.state \in Accepts(call[c].kind)
             /\ pc = "ping" => call[c].kind = "complete"
    BY <1>4
  <2>. DEFINE x == [call[c] EXCEPT !.run = run, !.pc = pc]
  <2>2. call[c] \in Call
    OBVIOUS
  <2>3. x \in Call /\ x.pc = pc /\ x.run = run /\ x.kind = call[c].kind
    BY <2>2 DEF Call, CallPCs
  <2>4. call' = [call EXCEPT ![c] = x]
    BY <2>1, <2>2
  <2>. HIDE DEF x
  <2>5. pc = "ping" => run.state = "verifying"
    BY <2>1 DEF Accepts
  <2>6. /\ x.pc = "swap" => x.run.state \in Accepts(x.kind)
        /\ x.pc \in {"ping", "fail"} => x.kind = "complete" /\ x.run.state = "verifying"
        /\ x.pc \in {"ping", "fail", "open"} =>
              /\ run'.state \notin HostStates \cup {"draining"}
              /\ run'.state \in Cancellable => clock' # "due"
    BY <1>1, <2>1, <2>3, <2>5 DEF HostStates, Cancellable
  <2>. QED BY <1>1, <2>3, <2>4, <2>6, Calling
<1>. QED BY <1>2, <1>3, <1>4 DEF Read

LEMMA PingPreserves ==
    ASSUME IInv, NEW c \in Callers, Ping(c)
    PROVE  IInv'
<1>. USE Basics
<1>1. UNCHANGED <<ws, closed, run, clock, flag, worker>> /\ call[c].pc = "ping" /\ (Fault \/ UNCHANGED faults)
  BY DEF Ping, KeepWorkspaces, KeepRuns
<1>2. call[c].kind = "complete" /\ call[c].run.state = "verifying"
  BY <1>1 DEF CallFacts
<1>3. call[c].run.state \in Accepts(call[c].kind)
  BY <1>2 DEF Accepts
<1>4. run.state \notin HostStates \cup {"draining"} /\ (run.state \in Cancellable => clock # "due")
  BY <1>1 DEF CallFacts
<1>5. \E pc \in {"swap", "fail"} : Go(c, pc)
  BY DEF Ping
<1>. QED BY <1>1, <1>2, <1>3, <1>4, <1>5, Going DEF CallPCs

\* What a call's swap can do to the run.
LEMMA CallSwaps ==
    ASSUME IInv, NEW c \in Callers, call[c].pc = "swap",
           TransitionTo(call[c].run, Target(call[c].kind))
    PROVE  /\ run' \in Run
           /\ \/ UNCHANGED run
              \/ /\ run'.id = run.id /\ run'.urgent = run.urgent
                 /\ run.state \in HostStates /\ run'.state \in HostStates \cup {"verifying"}
              \/ /\ run'.id = run.id /\ run'.urgent = run.urgent
                 /\ run.state # "draining" /\ ~Active(run')
           /\ Swaps(call[c].run) /\ call[c].kind \in {"urgent", "cancel", "complete"} =>
                 /\ run'.id = run.id /\ run'.urgent = run.urgent
                 /\ run.state # "draining" /\ ~Active(run')
           /\ Active(run) /\ run.state \notin Cancellable => run'.state # "cancelled"
<1>. USE Basics
<1>1. call[c].kind \in Kinds /\ call[c].run \in Run
  BY CallFields
<1>2. Target(call[c].kind) \in RunStates \/ call[c].kind = "weekly"
  BY <1>1 DEF Target, Kinds, RunStates, ClosedStates, HostStates, Cancellable
<1>3. call[c].run.state \in Accepts(call[c].kind)
  BY DEF CallFacts
<1>4. call[c].kind # "weekly"
  BY <1>3 DEF Accepts
<1>5. /\ run' \in Run /\ run'.id = run.id /\ run'.urgent = run.urgent
      /\ Swaps(call[c].run) => run.state = call[c].run.state /\ run'.state = Target(call[c].kind)
      /\ ~Swaps(call[c].run) => run' = run
  BY <1>1, <1>2, <1>4, SwapType
<1>6. CASE ~Swaps(call[c].run)
  BY <1>5, <1>6 DEF Active, ClosedStates, Cancellable, HostStates
<1>7. CASE Swaps(call[c].run)
  <2>1. run.state \in Accepts(call[c].kind) /\ run'.state = Target(call[c].kind)
    BY <1>3, <1>5, <1>7
  <2>2. CASE call[c].kind \in {"urgent", "cancel"}
    <3>1. run.state \in Cancellable /\ run'.state = "cancelled"
      BY <2>1, <2>2 DEF Accepts, Target
    <3>. QED BY <1>5, <3>1 DEF Cancellable, Active, ClosedStates, HostStates
  <2>3. CASE call[c].kind = "complete"
    <3>1. run.state = "verifying" /\ run'.state = "completed"
      BY <2>1, <2>3 DEF Accepts, Target
    <3>. QED BY <1>5, <3>1 DEF Cancellable, Active, ClosedStates, HostStates
  <2>4. CASE call[c].kind \in {"begin_update", "updates_applied", "reboot", "begin_verification"}
    <3>1. run.state \in HostStates /\ run'.state \in HostStates \cup {"verifying"}
      BY <2>1, <2>4 DEF Accepts, Target, HostStates
    <3>. QED BY <1>5, <2>4, <3>1 DEF HostStates
  <2>. QED BY <1>1, <1>4, <2>2, <2>3, <2>4 DEF Kinds
<1>. QED BY <1>6, <1>7

LEMMA SwapPreserves ==
    ASSUME IInv, NEW c \in Callers, Swap(c)
    PROVE  IInv'
<1>. USE Basics
<1>1. /\ call[c].pc = "swap"
      /\ UNCHANGED <<ws, closed, clock, flag, worker>> /\ (Fault \/ UNCHANGED faults)
  BY DEF Swap, KeepWorkspaces
<1>2. CASE UNCHANGED run /\ Answer(c)
  BY <1>1, <1>2, Answering
<1>3. CASE TransitionTo(call[c].run, Target(call[c].kind)) /\ Answer(c)
  BY <1>1, <1>3, CallSwaps, Answering
<1>4. CASE /\ TransitionTo(call[c].run, Target(call[c].kind)) /\ Swaps(call[c].run)
           /\ \/ call[c].kind = "urgent" /\ Go(c, "insert")
              \/ call[c].kind \in {"cancel", "complete"} /\ Go(c, "open")
  <2>1. /\ run' \in Run /\ run'.id = run.id /\ run'.urgent = run.urgent
        /\ run.state # "draining" /\ ~Active(run')
    BY <1>1, <1>4, CallSwaps
  <2>2. run'.state \notin HostStates \cup {"draining"} /\ run'.state \notin Cancellable
    BY <2>1 DEF Active, ClosedStates
  <2>3. PICK pc \in {"insert", "open"} : Go(c, pc)
    BY <1>4
  <2>. QED BY <1>1, <2>1, <2>2, <2>3, Going DEF CallPCs
<1>. QED BY <1>1, <1>2, <1>3, <1>4 DEF Swap

LEMMA CreatePreserves ==
    ASSUME IInv, NEW c \in Callers, Create(c)
    PROVE  IInv'
<1>. USE Basics
<1>1. Answer(c) /\ UNCHANGED <<ws, closed, flag, worker, faults>>
  BY DEF Create, KeepWorkspaces
<1>2. PICK u \in BOOLEAN : Insert(u)
  BY DEF Create
<1>. QED BY <1>1, <1>2, InsertType, Answering

LEMMA failPreserves ==
    ASSUME IInv, NEW c \in Callers, fail(c)
    PROVE  IInv'
<1>. USE Basics
<1>1. /\ call[c].pc = "fail" /\ Go(c, "open")
      /\ UNCHANGED <<ws, closed, clock, flag, worker>> /\ (Fault \/ UNCHANGED faults)
  BY DEF fail, KeepWorkspaces
<1>2. call[c].kind = "complete" /\ call[c].run.state = "verifying"
  BY <1>1 DEF CallFacts
<1>3. run.state \notin HostStates \cup {"draining"} /\ (run.state \in Cancellable => clock # "due")
  BY <1>1 DEF CallFacts
<1>4. CASE UNCHANGED run
  BY <1>1, <1>3, <1>4, Going DEF CallPCs
<1>5. CASE TransitionTo(call[c].run, "failed")
  <2>1. call[c].run \in Run /\ "failed" \in RunStates
    BY CallFields DEF RunStates
  <2>2. /\ run' \in Run /\ run'.id = run.id /\ run'.urgent = run.urgent
        /\ run' = run \/ run'.state = "failed"
    BY <1>5, <2>1, SwapType
  <2>3. run' = run \/ (~Active(run') /\ run'.state \notin HostStates \cup {"draining"} \cup Cancellable)
    BY <2>2 DEF Active, ClosedStates, HostStates, Cancellable
  <2>. QED BY <1>1, <1>3, <2>2, <2>3, Going DEF CallPCs
<1>. QED BY <1>4, <1>5 DEF fail

\* Nobody reopens admission while a drain or a host update needs it closed.
LEMMA ReopenAdmissionPreserves ==
    ASSUME IInv, NEW c \in Callers, ReopenAdmission(c)
    PROVE  IInv'
<1>. USE Basics
<1>1. /\ call[c].pc = "open" /\ flag' = FALSE /\ closed' = FALSE
      /\ call' = [call EXCEPT ![c] = NoCall] /\ UNCHANGED <<ws, run, clock, worker, faults>>
  BY DEF ReopenAdmission, Answer, KeepRuns
<1>2. run.state \notin HostStates \cup {"draining"}
  BY <1>1 DEF CallFacts
<1>3. call' \in [Callers -> Call] /\ call'[c] = NoCall /\ \A d \in Callers \ {c} : call'[d] = call[d]
  BY <1>1, NoCallType
<1>4. TypeOK'
  BY <1>1, <1>3 DEF TypeOK
<1>5. WorkerFacts'
  BY <1>1, <1>2 DEF WorkerFacts, DrainPCs, ListedPCs
<1>6. SnapshotFacts' /\ HostUpdateFindsNothingRunning'
  BY <1>1, <1>2 DEF SnapshotFacts, HostUpdateFindsNothingRunning
<1>7. CallFacts'
  BY <1>1, <1>3, NoCallType DEF CallFacts
<1>. QED BY <1>4, <1>5, <1>6, <1>7 DEF IInv, CoordinatorInvariant

LEMMA ServePreserves ==
    ASSUME IInv, NEW c \in Callers, Serve(c)
    PROVE  IInv'
BY ReadPreserves, PingPreserves, SwapPreserves, CreatePreserves, failPreserves,
   ReopenAdmissionPreserves
   DEF Serve

-----------------------------------------------------------------------------
(* Everything else *)

LEMMA TickPreserves ==
    ASSUME IInv, Tick
    PROVE  IInv'
<1>. USE Basics
<1>1. /\ UNCHANGED <<ws, closed, run, flag, worker, call, faults>>
      /\ clock' \in {"warning", "due"} /\ clock # "due"
      /\ \A c \in Callers : call[c].pc \notin {"ping", "fail", "open"}
  BY DEF Tick, KeepWorkspaces
<1>2. TypeOK'
  BY <1>1 DEF TypeOK
<1>3. WorkerFacts'
  BY <1>1 DEF WorkerFacts, Settled
<1>4. SnapshotFacts' /\ HostUpdateFindsNothingRunning'
  BY <1>1 DEF SnapshotFacts, HostUpdateFindsNothingRunning, Settled
<1>5. CallFacts'
  BY <1>1 DEF CallFacts
<1>. QED BY <1>2, <1>3, <1>4, <1>5 DEF IInv, CoordinatorInvariant

\* Owners cannot disturb a drain: behind it nothing starts, so a workspace only
\* comes down between the snapshot and its turn.
LEMMA UsePreserves ==
    ASSUME IInv, NEW w \in Workspaces, Use(w)
    PROVE  IInv'
<1>. USE Basics
<1>1. UNCHANGED <<run, clock, flag, call, faults>>
  BY DEF Use, KeepRuns
<1>2. /\ ws' \in [Workspaces -> WorkspaceStates] /\ closed' = closed
      /\ \A v \in Workspaces \ {w} : ws'[v] = ws[v]
      /\ ws[w] # "provisioning" /\ closed => ws'[w] # "provisioning"
      /\ ws[w] # "provisioning" => ws'[w] # "live"
      /\ ws[w] \notin {"provisioning", "live"} => ws'[w] # "suspending"
  BY StepFacts DEF Use
<1>3. PICK b \in BOOLEAN : /\ worker' = [worker EXCEPT !.saved = b]
                           /\ worker.saved /\ ~(w = worker.cur /\ ws'[w] = "live") => b
  <2>1. worker.saved \in BOOLEAN
    BY WorkerFields
  <2>. DEFINE b == worker.saved /\ ~(w = worker.cur /\ ws'[w] = "live")
  <2>2. b \in BOOLEAN
    OBVIOUS
  <2>3. worker' = [worker EXCEPT !.saved = b]
    BY DEF Use
  <2>. QED BY <2>2, <2>3
<1>4. /\ worker' \in Worker /\ worker'.pc = worker.pc /\ worker'.run = worker.run
      /\ worker'.due = worker.due /\ worker'.view = worker.view /\ worker'.cur = worker.cur
      /\ worker'.saved = b
  BY <1>3 DEF Worker
<1>5. TypeOK'
  BY <1>1, <1>2, <1>4 DEF TypeOK
<1>6. closed /\ Settled => Settled'
  BY <1>2 DEF Settled
<1>7. WorkerFacts'
  BY <1>1, <1>2, <1>4, <1>6 DEF WorkerFacts, ListedPCs, DrainPCs
<1>8. SnapshotFacts'
  <2>1. worker.pc \in ListedPCs => closed
    BY DEF WorkerFacts, ListedPCs
  <2>2. ASSUME NEW v \in Workspaces, worker.pc \in ListedPCs
        PROVE  /\ worker'.view[v] = "live" => ws'[v] # "provisioning"
               /\ worker'.view[v] = "suspending" => ws'[v] \notin {"provisioning", "live"}
               /\ worker'.pc \in {"checkpoint", "suspend"} /\ worker'.cur = v => ws'[v] # "provisioning"
    BY <1>2, <1>4, <2>1, <2>2 DEF SnapshotFacts
  <2>3. ASSUME NEW v \in Workspaces, worker.pc = "suspend", worker.cur = v, ws'[v] = "live"
        PROVE  worker'.run.urgent \/ worker'.saved
    <3>1. ws[v] = "live" /\ v # w
      BY <1>2, <2>1, <2>3 DEF SnapshotFacts, WorkspaceStep, Reserve, Provisioned, Abandoned,
             Suspending, Suspended, Tombstoned, Finalized, Move, Use
    <3>. QED BY <1>3, <1>4, <2>3, <3>1 DEF SnapshotFacts
  <2>. QED BY <1>4, <2>2, <2>3 DEF SnapshotFacts, ListedPCs
<1>9. CallFacts' /\ HostUpdateFindsNothingRunning'
  BY <1>1, <1>2, <1>6 DEF CallFacts, HostUpdateFindsNothingRunning
<1>. QED BY <1>5, <1>7, <1>8, <1>9 DEF IInv, CoordinatorInvariant

LEMMA CrashPreserves ==
    ASSUME IInv, Crash
    PROVE  IInv'
<1>. USE Basics
<1>1. /\ Fault /\ UNCHANGED <<ws, run, clock>> /\ flag' = Recover /\ closed' = Recover
      /\ worker' = NoWork /\ call' = [c \in Callers |-> NoCall]
  BY DEF Crash, KeepRuns, Sleep
<1>2. TypeOK'
  BY <1>1, FaultType, NoWorkType, NoCallType DEF TypeOK, Recover
<1>3. WorkerFacts' /\ SnapshotFacts'
  BY <1>1, NoWorkType DEF WorkerFacts, SnapshotFacts, DrainPCs, ListedPCs
<1>4. CallFacts'
  BY <1>1, NoCallType DEF CallFacts
<1>5. HostUpdateFindsNothingRunning'
  BY <1>1 DEF HostUpdateFindsNothingRunning, Settled, Recover, ClosedStates
<1>. QED BY <1>2, <1>3, <1>4, <1>5 DEF IInv, CoordinatorInvariant

-----------------------------------------------------------------------------
(* The inductive invariant *)

LEMMA InitIInv ==
    ASSUME Init
    PROVE  IInv
<1>1. /\ run = NoRun /\ worker = NoWork /\ call = [c \in Callers |-> NoCall]
      /\ ws \in [Workspaces -> {"off", "provisioning"}] /\ closed = FALSE /\ flag = FALSE
      /\ clock = "early" /\ faults = MaxFaults
  BY DEF Init, LifecycleInit
<1>2. TypeOK
  <2>1. ws \in [Workspaces -> WorkspaceStates]
    BY <1>1 DEF WorkspaceStates
  <2>2. faults \in 0..MaxFaults
    BY <1>1, MaintenanceAssumption
  <2>3. call \in [Callers -> Call]
    BY <1>1, NoCallType
  <2>. QED BY <1>1, <2>1, <2>2, <2>3, NoRunType, NoWorkType DEF TypeOK
<1>3. WorkerFacts /\ SnapshotFacts
  BY <1>1, NoRunType, NoWorkType DEF WorkerFacts, SnapshotFacts, DrainPCs, ListedPCs
<1>4. CallFacts
  BY <1>1, NoCallType DEF CallFacts
<1>5. HostUpdateFindsNothingRunning
  BY <1>1 DEF HostUpdateFindsNothingRunning, HostStates, NoRun
<1>. QED BY <1>2, <1>3, <1>4, <1>5 DEF IInv, CoordinatorInvariant

LEMMA StepIInv ==
    ASSUME IInv, [Next]_vars
    PROVE  IInv'
<1>1. CASE Next
  BY <1>1, WorkPreserves, ServePreserves, RequestPreserves, UsePreserves, TickPreserves,
     CrashPreserves
     DEF Next
<1>2. CASE UNCHANGED vars
  BY <1>2 DEF vars, IInv, TypeOK, CoordinatorInvariant, WorkerFacts, SnapshotFacts, CallFacts,
     HostUpdateFindsNothingRunning, Settled
<1>. QED BY <1>1, <1>2

LEMMA Invariance == Spec => []IInv
<1>1. Init => IInv
  BY InitIInv
<1>2. IInv /\ [Next]_vars => IInv'
  BY StepIInv
<1>. QED BY <1>1, <1>2, PTL DEF Spec

\* No step cancels a run whose drain has begun.
LEMMA StepKeepsDrain ==
    ASSUME IInv, Next, run.state \in ClosedStates
    PROVE  run'.state # "cancelled"
<1>. USE Basics
<1>1. Active(run) /\ run.state # "cancelled" /\ run.state \notin Cancellable
  BY DEF Active, ClosedStates, HostStates, Cancellable
<1>2. ASSUME NEW u \in BOOLEAN, Insert(u)
      PROVE  UNCHANGED run
  BY <1>1, <1>2, InsertType
<1>3. CASE ScheduleWeekly
  BY <1>1, <1>2, <1>3 DEF ScheduleWeekly, KeepRuns
<1>4. CASE Warn \/ StartDraining \/ markReady
  <2>1. PICK s \in RunStates \ {"cancelled"} : TransitionTo(worker.run, s) \/ UNCHANGED run
    BY <1>4 DEF Warn, StartDraining, markReady, Advance, RunStates, ClosedStates, HostStates, Cancellable
  <2>. QED BY <1>1, <2>1, SwapType
<1>5. ASSUME NEW c \in Callers, Swap(c)
      PROVE  run'.state # "cancelled"
  BY <1>1, <1>5, CallSwaps DEF Swap
<1>6. ASSUME NEW c \in Callers, Create(c)
      PROVE  run'.state # "cancelled"
  BY <1>1, <1>2, <1>6 DEF Create
<1>7. ASSUME NEW c \in Callers, fail(c)
      PROVE  run'.state # "cancelled"
  <2>1. call[c].run \in Run /\ "failed" \in RunStates
    BY CallFields DEF RunStates
  <2>. QED BY <1>1, <1>7, <2>1, SwapType DEF fail
<1>8. ASSUME NEW c \in Callers, \/ Read(c) \/ Ping(c) \/ ReopenAdmission(c)
                                \/ \E kind \in Kinds : Request(c, kind)
      PROVE  UNCHANGED run
  BY <1>8 DEF Read, Ping, ReopenAdmission, Request, KeepRuns
<1>9. CASE \/ RunOnce \/ SetMaintenanceDrain \/ BeginMaintenanceDrain \/ ListAll \/ NextPass
  BY <1>1, <1>9 DEF RunOnce, SetMaintenanceDrain, BeginMaintenanceDrain, ListAll, NextPass, KeepRuns
<1>10. ASSUME NEW w \in Workspaces,
              \/ DrainOne(w) \/ CreateRequired(w) \/ Suspend(w) \/ Delete(w)
              \/ ReconcileMaintenanceDrain(w) \/ Use(w)
       PROVE  UNCHANGED run
  BY <1>10 DEF DrainOne, CreateRequired, Suspend, Delete, ReconcileMaintenanceDrain, Use, KeepRuns
<1>11. CASE Tick \/ Crash
  BY <1>1, <1>11 DEF Tick, Crash, KeepRuns
<1>. QED BY <1>1, <1>3, <1>4, <1>5, <1>6, <1>7, <1>8, <1>9, <1>10, <1>11 DEF Next, Work, Serve

-----------------------------------------------------------------------------
(* Theorems *)

\* The coordinator's state keeps its shape; in particular the convergence loop
\* never goes beyond its last pass (coordinator.go:350).
THEOREM MaintenanceTypes == Spec => []TypeOK
<1>1. IInv => TypeOK
  BY DEF IInv
<1>. QED BY <1>1, Invariance, PTL

\* While the host may be updated nothing runs and nothing can be started, for any
\* number of workspaces, calls and failures (coordinator.go:321-325).
THEOREM HostUpdateIsSafe == Spec => []HostUpdateFindsNothingRunning
<1>1. IInv => HostUpdateFindsNothingRunning
  BY DEF IInv, CoordinatorInvariant
<1>. QED BY <1>1, Invariance, PTL

\* The worker always drains the active run behind a closed admission, and what it
\* knows from its snapshot stays true until it is used (coordinator.go:326-428).
THEOREM CoordinatorFacts == Spec => []CoordinatorInvariant
<1>1. IInv => CoordinatorInvariant
  BY DEF IInv
<1>. QED BY <1>1, Invariance, PTL

\* A cancellation or an urgent run that read the run before its drain began loses
\* the race (coordinator.go:235 and 519).
THEOREM DrainsAreNotCancelled == Spec => DrainIsNotCancelled
<1>1. IInv /\ [Next]_vars => [run.state \in ClosedStates => run'.state # "cancelled"]_vars
  BY StepKeepsDrain
<1>. QED BY <1>1, Invariance, PTL DEF Spec, DrainIsNotCancelled

\* The coordinator suspends no workspace on the word of a snapshot it has outgrown
\* (coordinator.go:369-391).
THEOREM CheckpointsComeFirst == Spec => ScheduledDrainCheckpointsFirst
<1>1. IInv /\ [Next]_vars =>
        [\A w \in Workspaces :
            worker.pc = "suspend" /\ worker.cur = w /\ ws[w] = "live" /\ ws'[w] = "suspending"
                => worker.run.urgent \/ worker.saved]_vars
  BY Basics DEF SnapshotFacts
<1>. QED BY <1>1, Invariance, PTL DEF Spec, ScheduledDrainCheckpointsFirst

=============================================================================
