------------------------- MODULE WorkspaceRetention -------------------------
(***************************************************************************)
(* Inactivity, Git risk and retention of one workspace: the lifecycle      *)
(* worker (internal/lifecycle/coordinator.go), the periodic checkpoint     *)
(* scheduler (internal/checkpoint/scheduler.go), the owner's calls and the *)
(* row updates that take no gate (internal/postgres/workspace.go).         *)
(*                                                                         *)
(* WorkspaceService has the gates, capacity and crash recovery; here an    *)
(* operation holds the workspace's mutation gate while op.kind # "none",   *)
(* and what matters is time and the several goroutines that write the same *)
(* row: some through a private copy, some one column at a time.            *)
(*                                                                         *)
(* Time passes in ticks of one lifecycle scan interval.  Timestamps are    *)
(* kept as ages, capped at the age beyond which nothing tells them apart.  *)
(***************************************************************************)
EXTENDS Integers

CONSTANTS
    IdleTimeout,         \* idle_timeout_minutes, in ticks
    CheckpointInterval,  \* CheckpointInterval, in ticks
    Retention,           \* 7, 30 or 90 days, in ticks
    CallTicks,           \* bound: ticks one scan or one scheduler run may take
    MaxCalls,            \* bound: what the owner and the processes do in one behaviour
    MaxFailures          \* bound: helper and provider failures in one behaviour

ASSUME TimingAssumption ==
    /\ IdleTimeout \in Nat \ {0}
    /\ CheckpointInterval \in Nat \ {0}
    /\ Retention \in Nat \ {0}
    /\ CallTicks \in Nat
    /\ MaxCalls \in Nat
    /\ MaxFailures \in Nat

VARIABLES
    row,         \* the workspace row
    up,          \* the provider runtime is live
    dirty,       \* the volume holds work that is not pushed
    ckpt,        \* the latest checkpoint: "none", "old" or "current"
    op,          \* the operation that holds the mutation gate
    scan,        \* the lifecycle worker
    pending,     \* Coordinator.pending: age of the recorded terminal activity
    scheduler,   \* the checkpoint scheduler
    checkpointAge,  \* ticks since the scheduler's ticker fired
    api,         \* a SaveFile call between its helper call and its row update
    calls,       \* calls and writes still to come; at 0 everyone has gone away for good
    failures,    \* failures still allowed
    late         \* history: work was written after the checkpoint and under
                 \* a suspension or deletion that had already made its own

vars == <<row, up, dirty, ckpt, op, scan, pending, scheduler, checkpointAge, api,
          calls, failures, late>>

Live == {"running", "idle"}
NoEvent == IdleTimeout + 1

WorkspaceStates ==
    Live \cup {"provisioning", "suspending", "suspended", "deleting", "gone"}

Row == [state : WorkspaceStates,
        dirty : BOOLEAN,             \* Dirty or Unpushed
        keep : BOOLEAN,              \* Retention = forever
        inactive : 0..IdleTimeout,   \* age of LastActivityAt
        suspended : 0..Retention]    \* age of SuspendedAt

MayAutoDelete(r) == ~r.dirty /\ ~r.keep

older(age, cap) == IF age < cap THEN age + 1 ELSE cap

Fail == failures > 0 /\ failures' = failures - 1

quiet == calls = 0
Act == calls > 0 /\ calls' = calls - 1

-----------------------------------------------------------------------------
(* Updates of one column, made without a gate *)

\* store.TouchActivity: refused unless live; GREATEST keeps the later time.
\* The lifecycle worker's expected timestamp then no longer matches.
Touched(age) ==
    IF row.state \in Live
      THEN [row EXCEPT !.state = "running",
                       !.inactive = IF age < @ THEN age ELSE @]
      ELSE row

stillUnchanged(age) ==
    \/ scan.pc = "idle"
    \/ scan.unchanged /\ ~(row.state \in Live /\ age < row.inactive)

TouchActivity(age) ==
    /\ row' = Touched(age)
    /\ scan' = [scan EXCEPT !.unchanged = stillUnchanged(age)]

KeepAlive ==
    /\ Act /\ row.state \in Live
    /\ TouchActivity(0)
    /\ UNCHANGED <<up, dirty, ckpt, op, pending, scheduler, checkpointAge, api,
                   failures, late>>

UpdatePolicy(keep) ==
    /\ Act /\ row.state # "gone"
    /\ row' = [row EXCEPT !.keep = keep]
    /\ UNCHANGED <<up, dirty, ckpt, op, scan, pending, scheduler, checkpointAge, api, failures, late>>

-----------------------------------------------------------------------------
(* Work in the volume *)

\* Whatever writes to the volume.  Once the row has left the live states, or an
\* operation is at one of these control points, the checkpoint is behind.
Written ==
    /\ dirty' = TRUE
    /\ ckpt' = IF ckpt = "current" THEN "old" ELSE ckpt
    /\ late' = (late \/ row.state \notin Live \/ op.pc \in {"claim", "tombstone"})

\* Work in a terminal is observed by the PTY loop, which only records it for
\* the lifecycle worker; a process in the background is not observed at all.
\* Both can go on until the provider has stopped.
Work(terminal, pushed) ==
    /\ Act /\ up
    /\ IF pushed THEN dirty' = FALSE /\ UNCHANGED <<ckpt, late>> ELSE Written
    /\ pending' = IF terminal THEN 0 ELSE pending
    /\ op' = [op EXCEPT !.heard = @ \/ (terminal /\ op.kind = "idle_suspend" /\ op.pc \in {"checkpoint", "claim"})]
    /\ UNCHANGED <<row, up, scan, scheduler, checkpointAge, api, failures>>

\* SaveFile: the helper writes the file; the row follows in a second step.
SaveFile ==
    /\ Act /\ up /\ row.state \in Live /\ api = "none"
    /\ Written
    /\ api' = "sync"
    /\ UNCHANGED <<row, up, op, scan, pending, scheduler, checkpointAge, failures>>

syncGitState ==
    /\ api = "sync"
    /\ api' = "none"
    /\ row' = [Touched(0) EXCEPT !.dirty = dirty]
    /\ scan' = [scan EXCEPT !.unchanged = stillUnchanged(0)]
    /\ UNCHANGED <<up, dirty, ckpt, op, pending, scheduler, checkpointAge, calls,
                   failures, late>>

\* The checkpoint helper: dirty work is exported and persisted, and the live
\* Git status is returned; a clean workspace has nothing to export.
CheckpointCreated ==
    /\ up
    /\ ckpt' = IF dirty THEN "current" ELSE ckpt

-----------------------------------------------------------------------------
(* Operations under the mutation gate.  op.row is the goroutine's copy of the *)
(* row, written back whole; op.heard is history: terminal activity arrived    *)
(* while an automatic suspension was making its checkpoint.                   *)

NoRow == [state |-> "gone", dirty |-> FALSE, keep |-> FALSE, inactive |-> 0, suspended |-> 0]
NoOp == [kind |-> "none", pc |-> "none", row |-> NoRow, heard |-> FALSE]
Idle == op.kind = "none"

\* The lifecycle worker is back in its loop; a tick it missed is still due.
NoScan(due) == [pc |-> "idle", due |-> due, seen |-> "gone", age |-> 0, unchanged |-> TRUE]
EndScan == scan' = NoScan(scan.due)

\* The gate is released; a scan that waited for the operation goes on.
Return ==
    /\ op' = NoOp
    /\ IF op.kind \in {"idle_suspend", "auto_delete"} THEN EndScan ELSE UNCHANGED scan

Begin(kind, pc) == op' = [kind |-> kind, pc |-> pc, row |-> row, heard |-> FALSE]

KeepRuntime == UNCHANGED <<up, dirty, ckpt, late>>
KeepLoops == UNCHANGED <<pending, scheduler, checkpointAge, api>>
KeepWorkers == KeepLoops /\ UNCHANGED calls

\* The owner's calls: a fresh Get, and the checks made on it.
Suspend ==
    /\ Act /\ Idle
    /\ \/ row.state \in Live /\ Begin("suspend", "checkpoint")
       \/ row.state = "suspending" /\ Begin("suspend", "stop")
    /\ KeepRuntime /\ KeepLoops /\ UNCHANGED <<row, scan, failures>>

Resume ==
    /\ Act /\ Idle /\ row.state = "suspended"
    /\ row' = [row EXCEPT !.state = "provisioning", !.inactive = 0, !.suspended = 0]
    /\ op' = [kind |-> "resume", pc |-> "start", row |-> row', heard |-> FALSE]
    /\ scan' = [scan EXCEPT !.unchanged = (scan.pc = "idle")]
    /\ KeepRuntime /\ KeepLoops /\ UNCHANGED failures

\* A stopped workspace with known risk needs an existing checkpoint.
Delete ==
    /\ Act /\ Idle
    /\ \/ row.state \in Live /\ Begin("delete", "checkpoint")
       \/ /\ row.state \in {"suspending", "suspended"}
          /\ row.dirty => ckpt # "none"
          /\ Begin("delete", "tombstone")
       \/ row.state = "deleting" /\ Begin("delete", "delete")
    /\ KeepRuntime /\ KeepLoops /\ UNCHANGED <<row, scan, failures>>

\* Mutant: the row's last known Git risk decides whether there is work to export.
CheckpointMutant ==
    /\ op.pc = "checkpoint"
    /\ up
    /\ ckpt' = IF row.dirty THEN "current" ELSE ckpt
    /\ late' = FALSE
    /\ op' = [op EXCEPT !.pc = IF op.kind = "delete" THEN "tombstone" ELSE "claim"]
    /\ KeepWorkers /\ UNCHANGED <<row, up, dirty, scan, failures>>

\* checkpoint.Create before a suspension or a deletion.  Only SuspendIfInactive
\* discards the live Git status.
Checkpoint ==
    /\ op.pc = "checkpoint"
    /\ \/ /\ CheckpointCreated /\ late' = FALSE
          /\ op' = [op EXCEPT !.pc = IF op.kind = "delete" THEN "tombstone" ELSE "claim",
                              !.row.dirty = IF op.kind = "idle_suspend" THEN @ ELSE dirty]
          /\ UNCHANGED <<scan, failures>>
       \/ Fail /\ Return /\ UNCHANGED <<ckpt, late>>
    /\ KeepWorkers /\ UNCHANGED <<row, up, dirty>>

\* Suspend saves its copy; SuspendIfInactive claims the row by compare-and-swap
\* and reads it back.
Claim ==
    /\ op.pc = "claim"
    /\ \/ /\ op.kind = "suspend" \/ (row.state = "idle" /\ scan.unchanged)
          /\ row' = [IF op.kind = "suspend" THEN op.row ELSE row EXCEPT !.state = "suspending"]
          /\ op' = [op EXCEPT !.pc = "stop", !.row = row', !.heard = FALSE]
          /\ UNCHANGED scan
       \/ /\ op.kind = "idle_suspend" /\ ~(row.state = "idle" /\ scan.unchanged)
          /\ Return /\ UNCHANGED row
    /\ KeepRuntime /\ KeepWorkers /\ UNCHANGED failures

\* completeSuspension: the boundary, then StopAndWait; a failure of either
\* leaves the durable suspending row for the next retry.
Stop ==
    /\ op.pc = "stop"
    /\ \/ up' = FALSE /\ op' = [op EXCEPT !.pc = "save"] /\ UNCHANGED <<scan, failures>>
       \/ Fail /\ up' \in {up, FALSE} /\ Return
    /\ KeepWorkers /\ UNCHANGED <<row, dirty, ckpt, late>>

SaveSuspended ==
    /\ op.pc = "save"
    /\ row' = [op.row EXCEPT !.state = "suspended", !.suspended = 0]
    /\ Return
    /\ KeepRuntime /\ KeepWorkers /\ UNCHANGED failures

\* A start that fails is WorkspaceService's subject.
Start ==
    /\ op.pc = "start"
    /\ up' = TRUE
    /\ op' = [op EXCEPT !.pc = "running"]
    /\ KeepWorkers /\ UNCHANGED <<row, dirty, ckpt, late, scan, failures>>

SaveRunning ==
    /\ op.pc = "running"
    /\ row' = [op.row EXCEPT !.state = "running"]
    /\ Return
    /\ KeepRuntime /\ KeepWorkers /\ UNCHANGED failures

Tombstone ==
    /\ op.pc = "tombstone"
    /\ row' = [op.row EXCEPT !.state = "deleting", !.suspended = 0]
    /\ op' = [op EXCEPT !.pc = "delete", !.row = row']
    /\ KeepRuntime /\ KeepWorkers /\ UNCHANGED <<scan, failures>>

\* Provider deletion, the deletion boundary and FinalizeDelete.
FinalizeDelete ==
    /\ op.pc = "delete"
    /\ \/ /\ up' = FALSE
          /\ row' = [row EXCEPT !.state = "gone"]
          /\ UNCHANGED failures
       \/ Fail /\ up' \in {up, FALSE} /\ UNCHANGED row
    /\ Return
    /\ KeepWorkers /\ UNCHANGED <<dirty, ckpt, late>>

Operation ==
    Checkpoint \/ Claim \/ Stop \/ SaveSuspended \/ Start \/ SaveRunning
    \/ Tombstone \/ FinalizeDelete

-----------------------------------------------------------------------------
(* The lifecycle worker: one goroutine flushes recorded activity and scans *)

flushActivity ==
    /\ scan.pc = "idle" /\ pending # NoEvent
    /\ TouchActivity(pending)
    /\ pending' = NoEvent
    /\ UNCHANGED <<up, dirty, ckpt, op, scheduler, checkpointAge, api, calls, failures, late>>

\* Mutant: the scan does not come back to a tombstone.
ScanTombstoneMutant ==
    /\ scan.pc = "idle" /\ scan.due
    /\ pending \in {0, NoEvent}
    /\ scan' = CASE row.state \in Live /\ row.inactive = IdleTimeout ->
                      [NoScan(FALSE) EXCEPT !.pc = "probe", !.seen = row.state]
                 [] row.state = "suspending" ->
                      [NoScan(FALSE) EXCEPT !.pc = "suspend", !.seen = row.state]
                 [] row.state = "suspended" /\ MayAutoDelete(row)
                      /\ row.suspended = Retention ->
                      [NoScan(FALSE) EXCEPT !.pc = "delete", !.seen = row.state]
                 [] OTHER -> NoScan(FALSE)
    /\ KeepRuntime /\ KeepWorkers /\ UNCHANGED <<row, op, failures>>

\* ListAll, and what the scan does with the row it read.  Recorded activity was
\* flushed just before, so what is pending arrived since.
Scan ==
    LET next ==
          CASE row.state \in Live -> IF row.inactive < IdleTimeout THEN "idle" ELSE "probe"
            [] row.state = "suspending" -> "suspend"
            [] row.state = "suspended" ->
                 IF MayAutoDelete(row) /\ row.suspended = Retention THEN "delete" ELSE "idle"
            [] row.state = "deleting" -> "delete"
            [] OTHER -> "idle"
    IN /\ scan.pc = "idle" /\ scan.due
       /\ pending \in {0, NoEvent}
       /\ scan' = IF next = "idle" THEN NoScan(FALSE)
                   ELSE [NoScan(FALSE) EXCEPT !.pc = next, !.seen = row.state]
       /\ KeepRuntime /\ KeepWorkers /\ UNCHANGED <<row, op, failures>>

\* A failed probe preserves the runtime; a busy one counts as activity at the
\* time the scan began.
Probe ==
    /\ scan.pc = "probe"
    /\ \/ /\ scan' = [scan EXCEPT !.pc = IF scan.seen = "running" THEN "mark" ELSE "suspend"]
          /\ UNCHANGED <<row, failures>>
       \/ /\ ~quiet
          /\ row' = Touched(scan.age)
          /\ EndScan
          /\ UNCHANGED failures
       \/ Fail /\ EndScan /\ UNCHANGED row
    /\ KeepRuntime /\ KeepWorkers /\ UNCHANGED op

\* Mutant: activity since the scan read the row is not looked for.
MarkIdleIfInactiveMutant ==
    /\ scan.pc = "mark"
    /\ row' = IF row.state = "running" THEN [row EXCEPT !.state = "idle"] ELSE row
    /\ EndScan
    /\ KeepRuntime /\ KeepWorkers /\ UNCHANGED <<op, failures>>

MarkIdleIfInactive ==
    /\ scan.pc = "mark"
    /\ row' = IF row.state = "running" /\ scan.unchanged
                THEN [row EXCEPT !.state = "idle"] ELSE row
    /\ EndScan
    /\ KeepRuntime /\ KeepWorkers /\ UNCHANGED <<op, failures>>

\* The gate, the fresh Get and its checks; an operation that goes on keeps the
\* scan waiting.
SuspendIfInactive ==
    /\ scan.pc = "suspend" /\ Idle
    /\ \/ /\ row.state = "suspending" /\ Begin("idle_suspend", "stop")
          /\ scan' = [scan EXCEPT !.pc = "op"]
       \/ /\ row.state = "idle" /\ scan.unchanged /\ Begin("idle_suspend", "checkpoint")
          /\ scan' = [scan EXCEPT !.pc = "op"]
       \/ /\ row.state # "suspending" /\ ~(row.state = "idle" /\ scan.unchanged)
          /\ EndScan /\ UNCHANGED op
    /\ KeepRuntime /\ KeepWorkers /\ UNCHANGED <<row, failures>>

AutomaticDelete ==
    /\ scan.pc = "delete" /\ Idle
    /\ \/ /\ row.state = "deleting" /\ Begin("auto_delete", "delete")
          /\ scan' = [scan EXCEPT !.pc = "op"]
       \/ /\ row.state = "suspended" /\ MayAutoDelete(row)
          /\ Begin("auto_delete", "tombstone")
          /\ scan' = [scan EXCEPT !.pc = "op"]
       \/ /\ row.state # "deleting" /\ ~(row.state = "suspended" /\ MayAutoDelete(row))
          /\ EndScan /\ UNCHANGED op
    /\ KeepRuntime /\ KeepWorkers /\ UNCHANGED <<row, failures>>

Lifecycle ==
    flushActivity \/ Scan \/ Probe \/ MarkIdleIfInactive \/ SuspendIfInactive
    \/ AutomaticDelete

-----------------------------------------------------------------------------
(* The checkpoint scheduler: RunOnce *)

\* The ticker fires and the candidates are listed.
ListCandidates ==
    /\ scheduler.pc = "idle" /\ checkpointAge = CheckpointInterval
    /\ checkpointAge' = 0
    /\ scheduler' = [scheduler EXCEPT !.pc = IF row.state \in Live THEN "create" ELSE "idle"]
    /\ UNCHANGED <<row, up, dirty, ckpt, op, scan, pending, api, calls, failures, late>>

PeriodicCheckpoint ==
    /\ scheduler.pc = "create"
    /\ \/ /\ CheckpointCreated
          /\ scheduler' = [pc |-> "risk", dirty |-> dirty]
          /\ UNCHANGED failures
       \/ /\ Fail \/ (~up /\ UNCHANGED failures)
          /\ scheduler' = [scheduler EXCEPT !.pc = "idle"]
          /\ UNCHANGED ckpt
    /\ UNCHANGED <<row, up, dirty, op, scan, pending, checkpointAge, api, calls, late>>

\* A narrow update whatever the state of the row.
UpdateGitRisk ==
    /\ scheduler.pc = "risk"
    /\ row' = [row EXCEPT !.dirty = scheduler.dirty]
    /\ scheduler' = [scheduler EXCEPT !.pc = "touch"]
    /\ UNCHANGED <<up, dirty, ckpt, op, scan, pending, checkpointAge, api, calls, failures,
                   late>>

CheckpointTouch ==
    /\ scheduler.pc = "touch"
    /\ TouchActivity(0)
    /\ scheduler' = [pc |-> "idle", dirty |-> FALSE]
    /\ UNCHANGED <<up, dirty, ckpt, op, pending, checkpointAge, api, calls, failures, late>>

Scheduler == ListCandidates \/ PeriodicCheckpoint \/ UpdateGitRisk \/ CheckpointTouch

-----------------------------------------------------------------------------
(* Time *)

\* The tickers are punctual: time does not pass while a worker that is due has
\* not begun, nor while one has been running for CallTicks.
Tick ==
    /\ IF scan.pc = "idle" THEN ~scan.due /\ pending = NoEvent ELSE scan.age < CallTicks
    /\ IF scheduler.pc = "idle" THEN checkpointAge < CheckpointInterval
                                ELSE checkpointAge < CallTicks
    /\ row' = [row EXCEPT !.inactive = older(@, IdleTimeout),
                          !.suspended = IF row.state = "suspended" THEN older(@, Retention)
                                                                   ELSE @]
    /\ op' = [op EXCEPT !.row.inactive = IF Idle THEN @ ELSE older(@, IdleTimeout)]
    /\ scan' = [scan EXCEPT !.due = TRUE,
                            !.age = IF scan.pc = "idle" THEN 0 ELSE older(@, IdleTimeout)]
    /\ pending' = IF pending = NoEvent THEN NoEvent ELSE older(pending, IdleTimeout)
    /\ checkpointAge' = older(checkpointAge, CheckpointInterval)
    /\ UNCHANGED <<up, dirty, ckpt, scheduler, api, calls, failures, late>>

\* From some moment on the owner and the processes of the workspace do nothing.
GoQuiet ==
    /\ ~quiet /\ api = "none"
    /\ calls' = 0
    /\ UNCHANGED <<row, up, dirty, ckpt, op, scan, pending, scheduler, checkpointAge, api,
                   failures, late>>

-----------------------------------------------------------------------------
Init ==
    /\ row = [state |-> "running", dirty |-> FALSE, keep |-> FALSE, inactive |-> 0,
              suspended |-> 0]
    /\ up = TRUE
    /\ dirty = FALSE /\ ckpt = "none" /\ late = FALSE
    /\ op = NoOp
    /\ scan = NoScan(FALSE)
    /\ pending = NoEvent
    /\ scheduler = [pc |-> "idle", dirty |-> FALSE]
    /\ checkpointAge = CheckpointInterval
    /\ api = "none"
    /\ calls = MaxCalls
    /\ failures = MaxFailures

Owner ==
    \/ KeepAlive
    \/ \E keep \in BOOLEAN : UpdatePolicy(keep)
    \/ \E terminal, pushed \in BOOLEAN : Work(terminal, pushed)
    \/ SaveFile
    \/ Suspend \/ Resume \/ Delete

Next == Owner \/ syncGitState \/ Operation \/ Lifecycle \/ Scheduler \/ Tick \/ GoQuiet

Spec == Init /\ [][Next]_vars

\* Goroutines that can run do run, and time passes.
Fairness ==
    /\ WF_vars(syncGitState) /\ WF_vars(Operation) /\ WF_vars(Lifecycle)
    /\ WF_vars(Scheduler) /\ WF_vars(Tick)

FairSpec == Spec /\ Fairness

-----------------------------------------------------------------------------
(* Properties *)

Op == [kind : {"none", "suspend", "idle_suspend", "resume", "delete", "auto_delete"},
       pc : {"none", "checkpoint", "claim", "stop", "save", "start", "running",
             "tombstone", "delete"},
       row : Row, heard : BOOLEAN]
ScanRecord == [pc : {"idle", "probe", "mark", "suspend", "delete", "op"}, due : BOOLEAN,
               seen : WorkspaceStates, age : 0..IdleTimeout, unchanged : BOOLEAN]

\* Every variable has its declared shape.
TypeOK ==
    /\ row \in Row /\ up \in BOOLEAN /\ dirty \in BOOLEAN /\ late \in BOOLEAN
    /\ ckpt \in {"none", "old", "current"}
    /\ op \in Op
    /\ scan \in ScanRecord
    /\ pending \in 0..NoEvent
    /\ scheduler \in [pc : {"idle", "create", "risk", "touch"}, dirty : BOOLEAN]
    /\ checkpointAge \in 0..CheckpointInterval
    /\ api \in {"none", "sync"} /\ calls \in 0..MaxCalls /\ failures \in 0..MaxFailures

\* The lifecycle worker marks a workspace idle, and claims an idle one for
\* suspension, only while its recorded activity is older than the timeout,
\* however long probe and checkpoint took (service.go:815-823).
IdleClaimIsExpired ==
    [][\/ row.state = "running" /\ row'.state = "idle"
       \/ row.state = "idle" /\ row'.state = "suspending" /\ op.kind = "idle_suspend"
       => row.inactive = IdleTimeout]_vars

\* Whatever way a workspace was stopped, the work its volume held when the
\* checkpoint of that operation was made is in the latest checkpoint.
RecoverableWhenStopped ==
    ~up /\ dirty /\ ~late => ckpt = "current"

(* What keeps both so.  Each control point of an operation is reached in one  *)
(* state of the row, and once the row has left the live states, or the        *)
(* operation has made its checkpoint, work is in that checkpoint or late.     *)
Protected == dirty /\ ~late => ckpt = "current"

OperationFacts ==
    /\ op.pc = "none" <=> op.kind = "none"
    /\ op.pc \in {"start", "running"} <=> op.kind = "resume"
    /\ op.kind = "resume" <=> row.state = "provisioning"
    /\ op.pc = "checkpoint" =>
          row.state \in Live /\ op.kind \in {"suspend", "idle_suspend", "delete"}
    /\ op.pc = "claim" => row.state \in Live /\ op.kind \in {"suspend", "idle_suspend"}
    /\ op.pc \in {"stop", "save"} => row.state = "suspending"
    /\ op.pc = "tombstone" => row.state \in Live \cup {"suspending", "suspended"}
    /\ op.pc = "delete" => row.state = "deleting"
    /\ op.pc = "running" \/ row.state \in Live => up
    /\ op.pc = "save" => ~up
    /\ row.state \notin Live \/ op.pc \in {"claim", "tombstone"} => Protected

(* A scan that has seen no activity since it read the row has read an expired *)
(* one, and no resume has begun since; a scan that waits for its operation    *)
(* has one.                                                                   *)
ScanFacts ==
    /\ scan.pc = "op" <=> op.kind \in {"idle_suspend", "auto_delete"}
    /\ scan.pc # "idle" /\ scan.unchanged =>
          /\ op.kind # "resume"
          /\ row.state \in Live => row.inactive = IdleTimeout

RetentionInvariant == TypeOK /\ OperationFacts /\ ScanFacts

\* A workspace nobody uses is eventually suspended.
QuietIsSuspended ==
    quiet ~> row.state \in {"suspended", "deleting", "gone"}

\* A workspace nobody uses is eventually deleted, unless its row protects it.
QuietIsReclaimed ==
    quiet ~> (row.state = "gone" \/ ~MayAutoDelete(row))

\* A workspace nobody uses gives back what it holds: the runtime, and then the
\* volume, although any step of the way may fail (coordinator.go:216-320).
QuietIsReleased == QuietIsSuspended /\ QuietIsReclaimed

\* "Dirty or unpushed workspaces are never automatically deleted"
\* (ARCHITECTURE.md:501), for work that the checkpoint before the suspension saw.
DirtyIsNeverAutoDeleted ==
    [][row.state # "gone" /\ row'.state = "gone" /\ op.kind = "auto_delete"
       => ~dirty \/ late]_vars

\* "No provider stop is issued if activity arrived while the checkpoint was
\* being created" (service.go:822-823).
ActivityPreventsIdleStop ==
    [][op.pc = "claim" /\ row'.state = "suspending" => ~op.heard]_vars

=============================================================================
