-------------------------- MODULE RetentionProofs --------------------------
(***************************************************************************)
(* Theorems about WorkspaceRetention, for any timeout, checkpoint interval *)
(* and retention, and any number of calls and failures.                    *)
(*                                                                         *)
(* RetentionInvariant is inductive.  Steps outside the mutation gate write *)
(* a column of the row or move a worker (Aside); the steps of an operation *)
(* are taken one by one.                                                   *)
(***************************************************************************)
EXTENDS WorkspaceRetention, TLAPS

-----------------------------------------------------------------------------
(* Records *)

LEMMA RowFields ==
    ASSUME NEW r \in Row
    PROVE  /\ r.state \in WorkspaceStates /\ r.dirty \in BOOLEAN /\ r.keep \in BOOLEAN
           /\ r.inactive \in 0..IdleTimeout /\ r.suspended \in 0..Retention
BY DEF Row

LEMMA RowUpdates ==
    ASSUME NEW r \in Row
    PROVE  /\ \A s \in WorkspaceStates :
                 LET n == [r EXCEPT !.state = s] IN
                 n \in Row /\ n.state = s /\ n.inactive = r.inactive
           /\ \A d \in BOOLEAN :
                 LET n == [r EXCEPT !.dirty = d] IN
                 n \in Row /\ n.state = r.state /\ n.inactive = r.inactive
           /\ \A k \in BOOLEAN :
                 LET n == [r EXCEPT !.keep = k] IN
                 n \in Row /\ n.state = r.state /\ n.inactive = r.inactive
           /\ \A i \in 0..IdleTimeout :
                 LET n == [r EXCEPT !.inactive = i] IN
                 n \in Row /\ n.state = r.state /\ n.inactive = i
           /\ \A u \in 0..Retention :
                 LET n == [r EXCEPT !.suspended = u] IN
                 n \in Row /\ n.state = r.state /\ n.inactive = r.inactive
BY DEF Row

LEMMA OpFields ==
    ASSUME NEW o \in Op
    PROVE  o.row \in Row /\ o.heard \in BOOLEAN
BY DEF Op

LEMMA ZeroAges ==
    /\ IdleTimeout \in 0..IdleTimeout /\ Retention \in 0..Retention
    /\ 0 \in 0..IdleTimeout /\ 0 \in 0..Retention /\ 0 \in 0..NoEvent /\ NoEvent \in 0..NoEvent
    /\ CheckpointInterval \in 0..CheckpointInterval /\ 0 \in 0..CheckpointInterval
BY TimingAssumption DEF NoEvent

LEMMA NoOpFacts ==
    /\ NoRow \in Row /\ NoOp \in Op
    /\ NoOp.kind = "none" /\ NoOp.pc = "none"
<1>1. NoRow \in Row
  BY ZeroAges DEF NoRow, Row, WorkspaceStates
<1>. QED BY <1>1 DEF NoOp, Op

LEMMA NoScanFacts ==
    ASSUME NEW due \in BOOLEAN
    PROVE  NoScan(due) \in ScanRecord /\ NoScan(due).pc = "idle"
BY ZeroAges DEF NoScan, ScanRecord, WorkspaceStates

LEMMA Older ==
    ASSUME NEW cap \in Nat, NEW age \in 0..cap
    PROVE  older(age, cap) \in 0..cap /\ (age = cap => older(age, cap) = cap)
BY DEF older

\* What a touch leaves of the row.
LEMMA TouchedRow ==
    ASSUME row \in Row, NEW age \in 0..NoEvent
    PROVE  /\ Touched(age) \in Row
           /\ \/ Touched(age).state = row.state
              \/ {Touched(age).state, row.state} \subseteq Live
           /\ ~(row.state \in Live /\ age < row.inactive) => Touched(age).inactive = row.inactive
<1>1. CASE row.state \notin Live
  BY <1>1 DEF Touched
<1>2. CASE row.state \in Live
  <2>1. PICK i \in 0..IdleTimeout : /\ i = IF age < row.inactive THEN age ELSE row.inactive
                                    /\ ~(age < row.inactive) => i = row.inactive
    BY RowFields, TimingAssumption DEF NoEvent
  <2>2. Touched(age) = [row EXCEPT !.state = "running", !.inactive = i]
    BY <1>2, <2>1 DEF Touched
  <2>3. "running" \in WorkspaceStates /\ "running" \in Live
    BY DEF WorkspaceStates, Live
  <2>4. /\ Touched(age) \in Row /\ Touched(age).state = "running"
        /\ Touched(age).inactive = i
    BY <2>2, <2>3 DEF Row
  <2>. QED BY <1>2, <2>1, <2>3, <2>4
<1>. QED BY <1>1, <1>2

LEMMA Counters ==
    ASSUME TypeOK
    PROVE  /\ Act => calls' \in 0..MaxCalls
           /\ Fail => failures' \in 0..MaxFailures
BY TimingAssumption DEF TypeOK, Act, Fail

-----------------------------------------------------------------------------
(* Steps beside the operations *)

\* The operation stays where it is, and so does the row's state but for the
\* running/idle flip; a scan that goes on unchanged has an expired row.
LEMMA Aside ==
    ASSUME RetentionInvariant, TypeOK',
           row'.state = row.state \/ {row'.state, row.state} \subseteq Live,
           op'.kind = op.kind, op'.pc = op.pc, up' = up,
           row.state \notin Live \/ op.pc \in {"claim", "tombstone"} => Protected',
           scan'.pc = "op" <=> scan.pc = "op",
           scan'.pc # "idle" /\ scan'.unchanged =>
              op.kind # "resume" /\ (row'.state \in Live => row'.inactive = IdleTimeout)
    PROVE  RetentionInvariant'
<1>1. \A s \in {"provisioning", "suspending", "suspended", "deleting"} : s \notin Live
  BY DEF Live
<1>2. OperationFacts'
  BY <1>1, SMTT(30) DEF RetentionInvariant, OperationFacts
<1>3. ScanFacts'
  BY DEF RetentionInvariant, ScanFacts
<1>. QED BY <1>2, <1>3 DEF RetentionInvariant

\* A touch that does not break the scan's compare and swap changes nothing the
\* scan relies on.
LEMMA TouchIsSeen ==
    ASSUME RetentionInvariant, NEW age \in 0..NoEvent, TouchActivity(age)
    PROVE  /\ row' \in Row /\ scan' \in ScanRecord
           /\ row'.state = row.state \/ {row'.state, row.state} \subseteq Live
           /\ scan'.pc = scan.pc
           /\ scan'.pc # "idle" /\ scan'.unchanged =>
                 op.kind # "resume" /\ (row'.state \in Live => row'.inactive = IdleTimeout)
<1>1. row \in Row /\ scan \in ScanRecord /\ row' = Touched(age)
  BY DEF RetentionInvariant, TypeOK, TouchActivity
<1>2. stillUnchanged(age) \in BOOLEAN
  BY <1>1 DEF stillUnchanged, ScanRecord
<1>3. scan' \in ScanRecord /\ scan'.pc = scan.pc /\ scan'.unchanged = stillUnchanged(age)
  BY <1>1, <1>2 DEF TouchActivity, ScanRecord
<1>4. ASSUME scan'.pc # "idle", scan'.unchanged
      PROVE  op.kind # "resume" /\ (row'.state \in Live => row'.inactive = IdleTimeout)
  <2>1. scan.pc # "idle" /\ scan.unchanged /\ ~(row.state \in Live /\ age < row.inactive)
    BY <1>3, <1>4 DEF stillUnchanged
  <2>2. op.kind # "resume" /\ (row.state \in Live => row.inactive = IdleTimeout)
    BY <2>1 DEF RetentionInvariant, ScanFacts
  <2>. QED BY <1>1, <2>1, <2>2, TouchedRow
<1>. QED BY <1>1, <1>3, <1>4, TouchedRow

LEMMA StillProtected ==
    ASSUME RetentionInvariant, UNCHANGED <<dirty, ckpt, late>>,
           row.state \notin Live \/ op.pc \in {"claim", "tombstone"}
    PROVE  Protected'
BY DEF RetentionInvariant, OperationFacts, Protected

\* Work behind a checkpoint is late.
LEMMA WrittenIsProtected ==
    ASSUME RetentionInvariant, Written,
           row.state \notin Live \/ op.pc \in {"claim", "tombstone"}
    PROVE  Protected'
BY DEF Written, Protected

LEMMA WrittenTypes ==
    ASSUME TypeOK, Written
    PROVE  dirty' \in BOOLEAN /\ ckpt' \in {"none", "old", "current"} /\ late' \in BOOLEAN
BY DEF TypeOK, Written

LEMMA OwnerKeeps ==
    ASSUME RetentionInvariant,
           \/ KeepAlive \/ (\E keep \in BOOLEAN : UpdatePolicy(keep)) \/ SaveFile
           \/ (\E terminal, pushed \in BOOLEAN : Work(terminal, pushed))
    PROVE  RetentionInvariant'
<1>1. TypeOK
  BY DEF RetentionInvariant
<1>2. CASE KeepAlive
  <2>1. TouchActivity(0) /\ calls' \in 0..MaxCalls
    BY <1>1, <1>2, Counters DEF KeepAlive
  <2>2. TypeOK'
    BY <1>1, <1>2, <2>1, ZeroAges, TouchIsSeen DEF TypeOK, KeepAlive
  <2>3. op' = op /\ up' = up /\ UNCHANGED <<dirty, ckpt, late>>
    BY <1>2 DEF KeepAlive
  <2>. QED BY <2>1, <2>2, <2>3, ZeroAges, TouchIsSeen, StillProtected, Aside
<1>3. ASSUME NEW keep \in BOOLEAN, UpdatePolicy(keep)
      PROVE  RetentionInvariant'
  <2>1. /\ row' \in Row /\ row'.state = row.state /\ row'.inactive = row.inactive
        /\ calls' \in 0..MaxCalls
    BY <1>1, <1>3, RowUpdates, Counters DEF UpdatePolicy, TypeOK
  <2>2. op' = op /\ up' = up /\ scan' = scan /\ UNCHANGED <<dirty, ckpt, late>>
    BY <1>3 DEF UpdatePolicy
  <2>3. TypeOK'
    BY <1>1, <1>3, <2>1 DEF TypeOK, UpdatePolicy
  <2>4. scan.pc # "idle" /\ scan.unchanged =>
           op.kind # "resume" /\ (row'.state \in Live => row'.inactive = IdleTimeout)
    BY <2>1 DEF RetentionInvariant, ScanFacts
  <2>. QED BY <2>1, <2>2, <2>3, <2>4, StillProtected, Aside
<1>4. CASE SaveFile
  <2>1. Written /\ calls' \in 0..MaxCalls
    BY <1>1, <1>4, Counters DEF SaveFile
  <2>2. op' = op /\ up' = up /\ scan' = scan /\ row' = row
    BY <1>4 DEF SaveFile
  <2>3. TypeOK'
    BY <1>1, <1>4, <2>1, WrittenTypes DEF TypeOK, SaveFile
  <2>4. scan.pc # "idle" /\ scan.unchanged =>
           op.kind # "resume" /\ (row.state \in Live => row.inactive = IdleTimeout)
    BY DEF RetentionInvariant, ScanFacts
  <2>. QED BY <2>1, <2>2, <2>3, <2>4, WrittenIsProtected, Aside
<1>5. ASSUME NEW terminal \in BOOLEAN, NEW pushed \in BOOLEAN, Work(terminal, pushed)
      PROVE  RetentionInvariant'
  <2>1. calls' \in 0..MaxCalls /\ up' = up /\ scan' = scan /\ row' = row
    BY <1>1, <1>5, Counters DEF Work
  <2>2. PICK h \in BOOLEAN : op' = [op EXCEPT !.heard = h]
    BY <1>1, <1>5 DEF Work, TypeOK, Op
  <2>3. op' \in Op /\ op'.kind = op.kind /\ op'.pc = op.pc
    BY <1>1, <2>2 DEF TypeOK, Op
  <2>4. dirty' \in BOOLEAN /\ ckpt' \in {"none", "old", "current"} /\ late' \in BOOLEAN
    BY <1>1, <1>5, WrittenTypes DEF Work, TypeOK
  <2>5. pending' \in 0..NoEvent
    BY <1>1, <1>5, ZeroAges DEF Work, TypeOK
  <2>6. TypeOK'
    BY <1>1, <1>5, <2>1, <2>3, <2>4, <2>5 DEF TypeOK, Work
  <2>7. row.state \notin Live \/ op.pc \in {"claim", "tombstone"} => Protected'
    BY <1>5, WrittenIsProtected DEF Work, Protected
  <2>8. scan.pc # "idle" /\ scan.unchanged =>
           op.kind # "resume" /\ (row.state \in Live => row.inactive = IdleTimeout)
    BY DEF RetentionInvariant, ScanFacts
  <2>. QED BY <2>1, <2>3, <2>6, <2>7, <2>8, Aside
<1>. QED BY <1>2, <1>3, <1>4, <1>5

LEMMA SyncKeeps ==
    ASSUME RetentionInvariant, syncGitState
    PROVE  RetentionInvariant'
<1>1. TypeOK
  BY DEF RetentionInvariant
<1>2. PICK r \in Row : /\ r = Touched(0)
                       /\ r.state = row.state \/ {r.state, row.state} \subseteq Live
                       /\ ~(row.state \in Live /\ 0 < row.inactive) => r.inactive = row.inactive
  BY <1>1, ZeroAges, TouchedRow DEF TypeOK
<1>3. row' \in Row /\ row'.state = r.state /\ row'.inactive = r.inactive
  BY <1>1, <1>2, RowUpdates DEF syncGitState, TypeOK
<1>4. stillUnchanged(0) \in BOOLEAN
  BY <1>1 DEF stillUnchanged, ScanRecord, TypeOK
<1>5. scan' \in ScanRecord /\ scan'.pc = scan.pc /\ scan'.unchanged = stillUnchanged(0)
  BY <1>1, <1>4 DEF syncGitState, ScanRecord, TypeOK
<1>6. TypeOK'
  BY <1>1, <1>3, <1>5 DEF TypeOK, syncGitState
<1>7. ASSUME scan'.pc # "idle", scan'.unchanged
      PROVE  op.kind # "resume" /\ (row'.state \in Live => row'.inactive = IdleTimeout)
  <2>1. scan.pc # "idle" /\ scan.unchanged /\ ~(row.state \in Live /\ 0 < row.inactive)
    BY <1>5, <1>7 DEF stillUnchanged
  <2>2. op.kind # "resume" /\ (row.state \in Live => row.inactive = IdleTimeout)
    BY <2>1 DEF RetentionInvariant, ScanFacts
  <2>. QED BY <1>2, <1>3, <2>1, <2>2
<1>8. op' = op /\ up' = up /\ UNCHANGED <<dirty, ckpt, late>>
  BY DEF syncGitState
<1>. QED BY <1>2, <1>3, <1>5, <1>6, <1>7, <1>8, StillProtected, Aside

LEMMA FlushKeeps ==
    ASSUME RetentionInvariant, flushActivity
    PROVE  RetentionInvariant'
<1>1. TypeOK
  BY DEF RetentionInvariant
<1>2. TouchActivity(pending) /\ pending \in 0..NoEvent
  BY <1>1 DEF flushActivity, TypeOK
<1>3. TypeOK'
  BY <1>1, <1>2, ZeroAges, TouchIsSeen DEF TypeOK, flushActivity
<1>4. op' = op /\ up' = up /\ UNCHANGED <<dirty, ckpt, late>>
  BY DEF flushActivity
<1>. QED BY <1>2, <1>3, <1>4, TouchIsSeen, StillProtected, Aside

\* Where the scan and what it looks at stay, so does its promise.
LEMMA ScanStays ==
    ASSUME RetentionInvariant, scan' = scan, row'.state = row.state,
           row'.inactive = row.inactive
    PROVE  scan'.pc # "idle" /\ scan'.unchanged =>
              op.kind # "resume" /\ (row'.state \in Live => row'.inactive = IdleTimeout)
BY DEF RetentionInvariant, ScanFacts

LEMMA SchedulerKeeps ==
    ASSUME RetentionInvariant, Scheduler
    PROVE  RetentionInvariant'
<1>1. TypeOK
  BY DEF RetentionInvariant
<1>2. CASE ListCandidates
  <2>1. scheduler' \in [pc : {"idle", "create", "risk", "touch"}, dirty : BOOLEAN]
    BY <1>1, <1>2 DEF ListCandidates, TypeOK
  <2>2. TypeOK'
    BY <1>1, <1>2, <2>1, ZeroAges DEF TypeOK, ListCandidates
  <2>3. op' = op /\ up' = up /\ row' = row /\ scan' = scan /\ UNCHANGED <<dirty, ckpt, late>>
    BY <1>2 DEF ListCandidates
  <2>. QED BY <2>2, <2>3, ScanStays, StillProtected, Aside
<1>3. CASE PeriodicCheckpoint
  <2>1. scheduler' \in [pc : {"idle", "create", "risk", "touch"}, dirty : BOOLEAN]
    BY <1>1, <1>3 DEF PeriodicCheckpoint, TypeOK
  <2>2. ckpt' \in {"none", "old", "current"} /\ failures' \in 0..MaxFailures
    BY <1>1, <1>3, Counters DEF PeriodicCheckpoint, CheckpointCreated, TypeOK
  <2>3. op' = op /\ up' = up /\ row' = row /\ scan' = scan /\ UNCHANGED <<dirty, late>>
    BY <1>3 DEF PeriodicCheckpoint
  <2>4. TypeOK'
    BY <1>1, <1>3, <2>1, <2>2, <2>3 DEF TypeOK, PeriodicCheckpoint
  <2>5. ckpt' = ckpt \/ (dirty => ckpt' = "current")
    BY <1>3 DEF PeriodicCheckpoint, CheckpointCreated
  <2>6. row.state \notin Live \/ op.pc \in {"claim", "tombstone"} => Protected'
    BY <2>3, <2>5 DEF RetentionInvariant, OperationFacts, Protected
  <2>. QED BY <2>3, <2>4, <2>6, ScanStays, Aside
<1>4. CASE UpdateGitRisk
  <2>1. scheduler' \in [pc : {"idle", "create", "risk", "touch"}, dirty : BOOLEAN]
    BY <1>1, <1>4 DEF UpdateGitRisk, TypeOK
  <2>2. row' \in Row /\ row'.state = row.state /\ row'.inactive = row.inactive
    BY <1>1, <1>4, RowUpdates DEF UpdateGitRisk, TypeOK
  <2>3. TypeOK'
    BY <1>1, <1>4, <2>1, <2>2 DEF TypeOK, UpdateGitRisk
  <2>4. op' = op /\ up' = up /\ scan' = scan /\ UNCHANGED <<dirty, ckpt, late>>
    BY <1>4 DEF UpdateGitRisk
  <2>. QED BY <2>2, <2>3, <2>4, ScanStays, StillProtected, Aside
<1>5. CASE CheckpointTouch
  <2>1. TouchActivity(0)
    BY <1>5 DEF CheckpointTouch
  <2>2. TypeOK'
    BY <1>1, <1>5, <2>1, ZeroAges, TouchIsSeen DEF TypeOK, CheckpointTouch
  <2>3. op' = op /\ up' = up /\ UNCHANGED <<dirty, ckpt, late>>
    BY <1>5 DEF CheckpointTouch
  <2>. QED BY <2>1, <2>2, <2>3, ZeroAges, TouchIsSeen, StillProtected, Aside
<1>. QED BY <1>2, <1>3, <1>4, <1>5 DEF Scheduler

\* An expired row stays expired.
LEMMA TickKeeps ==
    ASSUME RetentionInvariant, Tick
    PROVE  RetentionInvariant'
<1>1. TypeOK /\ row \in Row /\ op \in Op /\ scan \in ScanRecord
  BY DEF RetentionInvariant, TypeOK
<1>2. PICK i \in 0..IdleTimeout : /\ i = older(row.inactive, IdleTimeout)
                                  /\ row.inactive = IdleTimeout => i = IdleTimeout
  BY <1>1, RowFields, Older, TimingAssumption
<1>3. PICK u \in 0..Retention :
         u = IF row.state = "suspended" THEN older(row.suspended, Retention) ELSE row.suspended
  BY <1>1, RowFields, Older, TimingAssumption
<1>4. row' = [row EXCEPT !.inactive = i, !.suspended = u]
  BY <1>2, <1>3 DEF Tick
<1>5. row' \in Row /\ row'.state = row.state /\ row'.inactive = i
  BY <1>1, <1>4 DEF Row
<1>6. PICK c \in 0..IdleTimeout :
         c = IF Idle THEN op.row.inactive ELSE older(op.row.inactive, IdleTimeout)
  BY <1>1, OpFields, RowFields, Older, TimingAssumption
<1>7. PICK r \in Row : r = [op.row EXCEPT !.inactive = c]
  BY <1>1, OpFields, RowUpdates
<1>8. op' = [op EXCEPT !.row = r]
  BY <1>6, <1>7 DEF Tick
<1>9. op' \in Op /\ op'.kind = op.kind /\ op'.pc = op.pc
  BY <1>1, <1>8 DEF Op
<1>10. PICK a \in 0..IdleTimeout :
          a = IF scan.pc = "idle" THEN 0 ELSE older(scan.age, IdleTimeout)
  <2>1. scan.age \in 0..IdleTimeout
    BY <1>1 DEF ScanRecord
  <2>. QED BY <2>1, ZeroAges, Older, TimingAssumption
<1>11. scan' = [scan EXCEPT !.due = TRUE, !.age = a]
  BY <1>10 DEF Tick
<1>12. scan' \in ScanRecord /\ scan'.pc = scan.pc /\ scan'.unchanged = scan.unchanged
  BY <1>1, <1>11 DEF ScanRecord
<1>13. pending' \in 0..NoEvent
  <2>1. CASE pending = NoEvent
    BY <2>1, ZeroAges DEF Tick
  <2>2. CASE pending # NoEvent
    <3>1. pending \in 0..IdleTimeout
      BY <1>1, <2>2, TimingAssumption DEF TypeOK, NoEvent
    <3>2. pending' \in 0..IdleTimeout
      BY <2>2, <3>1, Older, TimingAssumption DEF Tick
    <3>. QED BY <3>2, TimingAssumption DEF NoEvent
  <2>. QED BY <2>1, <2>2
<1>14. checkpointAge' \in 0..CheckpointInterval
  BY <1>1, Older, TimingAssumption DEF Tick, TypeOK
<1>15. up' = up /\ UNCHANGED <<dirty, ckpt, late>>
  BY DEF Tick
<1>16. TypeOK'
  BY <1>1, <1>5, <1>9, <1>12, <1>13, <1>14, <1>15 DEF Tick, TypeOK
<1>17. scan'.pc # "idle" /\ scan'.unchanged =>
          op.kind # "resume" /\ (row'.state \in Live => row'.inactive = IdleTimeout)
  BY <1>2, <1>5, <1>12 DEF RetentionInvariant, ScanFacts
<1>. QED BY <1>5, <1>9, <1>12, <1>15, <1>16, <1>17, StillProtected, Aside

LEMMA QuietKeeps ==
    ASSUME RetentionInvariant, GoQuiet
    PROVE  RetentionInvariant'
<1>1. TypeOK'
  BY TimingAssumption DEF RetentionInvariant, GoQuiet, TypeOK
<1>2. op' = op /\ up' = up /\ row' = row /\ scan' = scan /\ UNCHANGED <<dirty, ckpt, late>>
  BY DEF GoQuiet
<1>. QED BY <1>1, <1>2, ScanStays, StillProtected, Aside

-----------------------------------------------------------------------------
(* The lifecycle worker *)

\* A scan begins with the row it reads.
LEMMA ScanKeeps ==
    ASSUME RetentionInvariant, Scan
    PROVE  RetentionInvariant'
<1>1. TypeOK /\ row \in Row /\ scan.pc = "idle" /\ row.inactive \in 0..IdleTimeout
  BY RowFields DEF RetentionInvariant, TypeOK, Scan
<1>2. op' = op /\ up' = up /\ row' = row /\ UNCHANGED <<dirty, ckpt, late>>
  BY DEF Scan, KeepRuntime
<1>3. PICK next \in {"idle", "probe", "suspend", "delete"} :
         /\ scan' = IF next = "idle" THEN NoScan(FALSE)
                    ELSE [NoScan(FALSE) EXCEPT !.pc = next, !.seen = row.state]
         /\ next # "idle" => /\ row.state # "provisioning"
                             /\ row.state \in Live => ~(row.inactive < IdleTimeout)
  BY DEF Scan, Live
<1>4. scan' \in ScanRecord /\ scan'.pc = next
  BY <1>1, <1>3, NoScanFacts, RowFields DEF ScanRecord
<1>5. TypeOK'
  BY <1>1, <1>2, <1>4 DEF TypeOK, Scan, KeepWorkers, KeepLoops
<1>6. scan'.pc # "idle" =>
         op.kind # "resume" /\ (row'.state \in Live => row'.inactive = IdleTimeout)
  <2>1. scan'.pc # "idle" => op.kind # "resume"
    BY <1>3, <1>4 DEF RetentionInvariant, OperationFacts
  <2>2. ~(row.inactive < IdleTimeout) => row.inactive = IdleTimeout
    BY <1>1, TimingAssumption
  <2>3. scan'.pc # "idle" => (row'.state \in Live => row'.inactive = IdleTimeout)
    BY <1>2, <1>3, <1>4, <2>2
  <2>. QED BY <2>1, <2>3
<1>. QED BY <1>1, <1>2, <1>4, <1>5, <1>6, StillProtected, Aside

LEMMA EndScanFacts ==
    ASSUME TypeOK, EndScan
    PROVE  scan' \in ScanRecord /\ scan'.pc = "idle"
BY NoScanFacts DEF EndScan, TypeOK, ScanRecord

LEMMA ProbeKeeps ==
    ASSUME RetentionInvariant, Probe
    PROVE  RetentionInvariant'
<1>1. TypeOK /\ row \in Row /\ scan \in ScanRecord /\ scan.pc = "probe"
  BY DEF RetentionInvariant, TypeOK, Probe
<1>2. op' = op /\ up' = up /\ UNCHANGED <<dirty, ckpt, late>>
  BY DEF Probe, KeepRuntime
<1>3. failures' \in 0..MaxFailures
  BY <1>1, Counters DEF Probe, TypeOK
<1>4. CASE /\ scan' = [scan EXCEPT !.pc = IF scan.seen = "running" THEN "mark" ELSE "suspend"]
           /\ row' = row
  <2>1. PICK pc \in {"mark", "suspend"} : scan' = [scan EXCEPT !.pc = pc]
    BY <1>4
  <2>2. scan' \in ScanRecord /\ scan'.pc = pc /\ scan'.unchanged = scan.unchanged
    BY <1>1, <2>1 DEF ScanRecord
  <2>3. TypeOK'
    BY <1>1, <1>2, <1>3, <1>4, <2>2 DEF TypeOK, Probe, KeepWorkers, KeepLoops
  <2>4. scan'.unchanged => op.kind # "resume" /\ (row.state \in Live => row.inactive = IdleTimeout)
    BY <1>1, <2>2 DEF RetentionInvariant, ScanFacts
  <2>. QED BY <1>1, <1>2, <1>4, <2>2, <2>3, <2>4, StillProtected, Aside
<1>5. CASE EndScan /\ (row' = row \/ row' = Touched(scan.age))
  <2>1. scan' \in ScanRecord /\ scan'.pc = "idle"
    BY <1>1, <1>5, EndScanFacts
  <2>2. scan.age \in 0..NoEvent
    BY <1>1, TimingAssumption DEF ScanRecord, NoEvent
  <2>3. row' \in Row /\ (row'.state = row.state \/ {row'.state, row.state} \subseteq Live)
    BY <1>1, <1>5, <2>2, TouchedRow
  <2>4. TypeOK'
    BY <1>1, <1>2, <1>3, <2>1, <2>3 DEF TypeOK, Probe, KeepWorkers, KeepLoops
  <2>. QED BY <1>1, <1>2, <2>1, <2>3, <2>4, StillProtected, Aside
<1>. QED BY <1>4, <1>5 DEF Probe

LEMMA MarkKeeps ==
    ASSUME RetentionInvariant, MarkIdleIfInactive
    PROVE  RetentionInvariant'
<1>1. TypeOK /\ row \in Row /\ scan.pc = "mark"
  BY DEF RetentionInvariant, TypeOK, MarkIdleIfInactive
<1>2. op' = op /\ up' = up /\ UNCHANGED <<dirty, ckpt, late>>
  BY DEF MarkIdleIfInactive, KeepRuntime
<1>3. scan' \in ScanRecord /\ scan'.pc = "idle"
  BY <1>1, EndScanFacts DEF MarkIdleIfInactive
<1>4. row' \in Row /\ (row'.state = row.state \/ {row'.state, row.state} \subseteq Live)
  <2>1. "idle" \in WorkspaceStates /\ {"idle", "running"} \subseteq Live
    BY DEF WorkspaceStates, Live
  <2>. QED BY <1>1, <2>1, RowUpdates DEF MarkIdleIfInactive
<1>5. TypeOK'
  BY <1>1, <1>2, <1>3, <1>4 DEF TypeOK, MarkIdleIfInactive, KeepWorkers, KeepLoops
<1>. QED BY <1>1, <1>2, <1>3, <1>4, <1>5, StillProtected, Aside

-----------------------------------------------------------------------------
(* Operations *)

\* An operation begins on the row it read.
LEMMA Begun ==
    ASSUME TypeOK,
           NEW kind \in {"suspend", "idle_suspend", "delete", "auto_delete"},
           NEW pc \in {"checkpoint", "stop", "tombstone", "delete"}, Begin(kind, pc)
    PROVE  op' \in Op /\ op'.kind = kind /\ op'.pc = pc
BY DEF Begin, Op, TypeOK

\* The gate was free, the row allows the first step, and nothing else moves.
LEMMA BeginKeeps ==
    ASSUME RetentionInvariant, TypeOK', Idle, row' = row, up' = up,
           UNCHANGED <<dirty, ckpt, late>>,
           NEW kind \in {"suspend", "idle_suspend", "delete", "auto_delete"},
           NEW pc \in {"checkpoint", "stop", "tombstone", "delete"},
           op'.kind = kind, op'.pc = pc,
           pc = "checkpoint" => row.state \in Live /\ kind # "auto_delete",
           pc = "stop" => row.state = "suspending",
           pc = "tombstone" => row.state \in {"suspending", "suspended"},
           pc = "delete" => row.state = "deleting",
           scan'.unchanged = scan.unchanged, scan'.pc # "idle" => scan.pc # "idle",
           scan'.pc = "op" <=> kind \in {"idle_suspend", "auto_delete"}
    PROVE  RetentionInvariant'
<1>1. \A s \in {"provisioning", "suspending", "suspended", "deleting"} : s \notin Live
  BY DEF Live
<1>2. row.state # "provisioning"
  BY DEF Idle, RetentionInvariant, OperationFacts
<1>3. row.state \notin Live => Protected'
  BY DEF RetentionInvariant, OperationFacts, Protected
<1>4. row.state \in Live => up
  BY DEF RetentionInvariant, OperationFacts
<1>5. OperationFacts'
  BY <1>1, <1>2, <1>3, <1>4, SMTT(30) DEF OperationFacts
<1>6. ScanFacts'
  BY DEF RetentionInvariant, ScanFacts
<1>. QED BY <1>5, <1>6 DEF RetentionInvariant

LEMMA CallsKeep ==
    ASSUME RetentionInvariant, Suspend \/ Delete
    PROVE  RetentionInvariant'
<1>1. TypeOK /\ Idle /\ calls' \in 0..MaxCalls
  BY Counters DEF RetentionInvariant, Suspend, Delete
<1>2. row' = row /\ up' = up /\ scan' = scan /\ UNCHANGED <<dirty, ckpt, late>>
  BY DEF Suspend, Delete, KeepRuntime
<1>3. PICK kind \in {"suspend", "delete"}, pc \in {"checkpoint", "stop", "tombstone", "delete"} :
         /\ Begin(kind, pc)
         /\ pc = "checkpoint" => row.state \in Live
         /\ pc = "stop" => row.state = "suspending"
         /\ pc = "tombstone" => row.state \in {"suspending", "suspended"}
         /\ pc = "delete" => row.state = "deleting"
  <2>1. CASE Suspend
    BY <2>1, Zenon DEF Suspend
  <2>2. CASE Delete
    BY <2>2 DEF Delete
  <2>. QED BY <2>1, <2>2
<1>4. op' \in Op /\ op'.kind = kind /\ op'.pc = pc
  BY <1>1, <1>3, Begun
<1>5. TypeOK'
  BY <1>1, <1>2, <1>4 DEF TypeOK, Suspend, Delete, KeepLoops
<1>6. scan.pc # "op"
  BY <1>1 DEF Idle, RetentionInvariant, ScanFacts
<1>. QED BY <1>1, <1>2, <1>3, <1>4, <1>5, <1>6, BeginKeeps

LEMMA WorkerBegins ==
    ASSUME RetentionInvariant, SuspendIfInactive \/ AutomaticDelete
    PROVE  RetentionInvariant'
<1>1. /\ TypeOK /\ Idle /\ scan \in ScanRecord /\ scan.pc \in {"suspend", "delete"}
      /\ row' = row /\ up' = up /\ UNCHANGED <<dirty, ckpt, late>>
  BY DEF RetentionInvariant, TypeOK, SuspendIfInactive, AutomaticDelete, KeepRuntime
<1>2. CASE EndScan /\ op' = op
  <2>1. scan' \in ScanRecord /\ scan'.pc = "idle"
    BY <1>1, <1>2, EndScanFacts
  <2>2. TypeOK'
    BY <1>1, <1>2, <2>1 DEF TypeOK, SuspendIfInactive, AutomaticDelete, KeepWorkers, KeepLoops
  <2>. QED BY <1>1, <1>2, <2>1, <2>2, StillProtected, Aside
<1>3. ASSUME NEW kind \in {"idle_suspend", "auto_delete"},
             NEW pc \in {"checkpoint", "stop", "tombstone", "delete"},
             Begin(kind, pc), scan' = [scan EXCEPT !.pc = "op"],
             pc = "checkpoint" => row.state \in Live /\ kind # "auto_delete",
             pc = "stop" => row.state = "suspending",
             pc = "tombstone" => row.state = "suspended",
             pc = "delete" => row.state = "deleting"
      PROVE  RetentionInvariant'
  <2>1. scan' \in ScanRecord /\ scan'.pc = "op" /\ scan'.unchanged = scan.unchanged
    BY <1>1, <1>3 DEF ScanRecord
  <2>2. op' \in Op /\ op'.kind = kind /\ op'.pc = pc
    BY <1>1, <1>3, Begun
  <2>3. TypeOK'
    BY <1>1, <2>1, <2>2 DEF TypeOK, SuspendIfInactive, AutomaticDelete, KeepWorkers, KeepLoops
  <2>. QED BY <1>1, <1>3, <2>1, <2>2, <2>3, BeginKeeps
<1>4. CASE SuspendIfInactive
  <2>1. "idle" \in Live
    BY DEF Live
  <2>2. \/ EndScan /\ op' = op
        \/ /\ Begin("idle_suspend", "stop") /\ scan' = [scan EXCEPT !.pc = "op"]
           /\ row.state = "suspending"
        \/ /\ Begin("idle_suspend", "checkpoint") /\ scan' = [scan EXCEPT !.pc = "op"]
           /\ row.state = "idle"
    BY <1>4, Zenon DEF SuspendIfInactive
  <2>. QED BY <1>2, <1>3, <2>1, <2>2
<1>5. CASE AutomaticDelete
  <2>1. \/ EndScan /\ op' = op
        \/ /\ Begin("auto_delete", "delete") /\ scan' = [scan EXCEPT !.pc = "op"]
           /\ row.state = "deleting"
        \/ /\ Begin("auto_delete", "tombstone") /\ scan' = [scan EXCEPT !.pc = "op"]
           /\ row.state = "suspended"
    BY <1>5, Zenon DEF AutomaticDelete
  <2>. QED BY <1>2, <1>3, <2>1
<1>. QED BY <1>4, <1>5

LEMMA NotLive ==
    /\ \A s \in {"provisioning", "suspending", "suspended", "deleting", "gone"} :
          s \notin Live /\ s \in WorkspaceStates
    /\ \A s \in Live : s \in WorkspaceStates
BY DEF Live, WorkspaceStates

\* A resume begins on a stopped workspace, whose work is protected; a scan that
\* is on its way will find the row changed.
LEMMA ResumeKeeps ==
    ASSUME RetentionInvariant, Resume
    PROVE  RetentionInvariant'
<1>1. /\ TypeOK /\ row \in Row /\ scan \in ScanRecord /\ Idle /\ row.state = "suspended"
      /\ calls' \in 0..MaxCalls /\ up' = up /\ UNCHANGED <<dirty, ckpt, late>>
  BY Counters DEF RetentionInvariant, TypeOK, Resume, KeepRuntime
<1>2. row' \in Row /\ row'.state = "provisioning"
  BY <1>1, ZeroAges, NotLive DEF Resume, Row
<1>3. op' \in Op /\ op'.kind = "resume" /\ op'.pc = "start"
  BY <1>2 DEF Resume, Op
<1>4. scan' \in ScanRecord /\ scan'.pc = scan.pc /\ scan'.unchanged = (scan.pc = "idle")
  BY <1>1 DEF Resume, ScanRecord
<1>5. TypeOK'
  BY <1>1, <1>2, <1>3, <1>4 DEF TypeOK, Resume, KeepLoops
<1>6. Protected'
  BY <1>1, NotLive, StillProtected
<1>7. OperationFacts'
  BY <1>2, <1>3, <1>6, NotLive DEF OperationFacts
<1>8. scan.pc # "op"
  BY <1>1 DEF Idle, RetentionInvariant, ScanFacts
<1>9. ScanFacts'
  BY <1>3, <1>4, <1>8 DEF ScanFacts
<1>. QED BY <1>5, <1>7, <1>9 DEF RetentionInvariant

LEMMA Returned ==
    ASSUME TypeOK, Return
    PROVE  op' \in Op /\ op'.kind = "none" /\ op'.pc = "none" /\ scan' \in ScanRecord
<1>1. CASE scan' = scan
  BY <1>1, NoOpFacts DEF Return, TypeOK
<1>2. CASE EndScan
  BY <1>2, NoOpFacts, EndScanFacts DEF Return
<1>. QED BY <1>1, <1>2 DEF Return

\* The gate is given back in a state of the row that needs no operation.
LEMMA ReturnKeeps ==
    ASSUME RetentionInvariant, TypeOK', Return,
           row'.state # "provisioning",
           row'.state \in Live => up',
           row'.state \notin Live => Protected',
           scan'.pc # "idle" /\ scan'.unchanged =>
              (row'.state \in Live => row'.inactive = IdleTimeout)
    PROVE  RetentionInvariant'
<1>1. op'.kind = "none" /\ op'.pc = "none"
  BY Returned DEF RetentionInvariant
<1>2. OperationFacts'
  BY <1>1 DEF OperationFacts
<1>3. scan'.pc # "op"
  <2>1. CASE op.kind \in {"idle_suspend", "auto_delete"}
    BY <2>1, EndScanFacts DEF Return, RetentionInvariant
  <2>2. CASE op.kind \notin {"idle_suspend", "auto_delete"}
    BY <2>2 DEF Return, RetentionInvariant, ScanFacts
  <2>. QED BY <2>1, <2>2
<1>4. ScanFacts'
  BY <1>1, <1>3 DEF ScanFacts
<1>. QED BY <1>2, <1>4 DEF RetentionInvariant

\* A scan that goes on after the operation still has its promise.
LEMMA ReturnedScan ==
    ASSUME RetentionInvariant, Return
    PROVE  scan'.pc # "idle" /\ scan'.unchanged =>
              /\ op.kind # "resume"
              /\ row.state \in Live => row.inactive = IdleTimeout
<1>1. CASE scan' = scan
  BY <1>1 DEF RetentionInvariant, ScanFacts
<1>2. CASE EndScan
  BY <1>2, EndScanFacts DEF RetentionInvariant
<1>. QED BY <1>1, <1>2 DEF Return

\* What holds at the control points where an operation has to hold the row.
LEMMA ControlPoint ==
    ASSUME RetentionInvariant
    PROVE  /\ op.pc \in {"checkpoint", "claim"} => row.state \in Live /\ up
           /\ op.pc \in {"stop", "save"} => row.state = "suspending"
           /\ op.pc = "delete" => row.state = "deleting"
           /\ op.pc \in {"start", "running"} =>
                 row.state = "provisioning" /\ op.kind = "resume"
           /\ op.pc \in {"claim", "stop", "save", "start", "running", "tombstone", "delete"} =>
                 Protected
           /\ op.pc \in {"checkpoint", "claim", "stop", "save", "tombstone", "delete"} =>
                 op.kind \notin {"none", "resume"} /\ row.state # "provisioning"
BY NotLive, SMTT(30) DEF RetentionInvariant, OperationFacts

LEMMA CheckpointKeeps ==
    ASSUME RetentionInvariant, Checkpoint
    PROVE  RetentionInvariant'
<1>1. /\ TypeOK /\ op \in Op /\ op.pc = "checkpoint" /\ row' = row /\ up' = up /\ dirty' = dirty
      /\ op.kind \in {"suspend", "idle_suspend", "delete"}
  BY DEF RetentionInvariant, TypeOK, OperationFacts, Checkpoint
<1>2. row.state \in Live /\ up /\ row.state # "provisioning"
  BY <1>1, ControlPoint
<1>3. CASE Fail /\ Return /\ UNCHANGED <<ckpt, late>>
  <2>1. TypeOK'
    BY <1>1, <1>3, Counters, Returned DEF TypeOK, Checkpoint, KeepWorkers, KeepLoops
  <2>. QED BY <1>1, <1>2, <1>3, <2>1, ReturnedScan, ReturnKeeps
<1>4. CASE /\ CheckpointCreated /\ late' = FALSE /\ UNCHANGED <<scan, failures>>
           /\ op' = [op EXCEPT !.pc = IF op.kind = "delete" THEN "tombstone" ELSE "claim",
                               !.row.dirty = IF op.kind = "idle_suspend" THEN @ ELSE dirty]
  <2>1. PICK d \in BOOLEAN : d = IF op.kind = "idle_suspend" THEN op.row.dirty ELSE dirty
    BY <1>1, OpFields, RowFields DEF TypeOK
  <2>2. PICK r \in Row : r = [op.row EXCEPT !.dirty = d]
    BY <1>1, OpFields, RowUpdates
  <2>3. PICK pc \in {"tombstone", "claim"} :
           pc = IF op.kind = "delete" THEN "tombstone" ELSE "claim"
    OBVIOUS
  <2>4. op' = [op EXCEPT !.pc = pc, !.row = r]
    BY <1>4, <2>1, <2>2, <2>3
  <2>5. op' \in Op /\ op'.kind = op.kind /\ op'.pc = pc
    BY <1>1, <2>4 DEF Op
  <2>6. ckpt' \in {"none", "old", "current"} /\ Protected'
    BY <1>1, <1>4 DEF CheckpointCreated, TypeOK, Protected
  <2>7. TypeOK'
    BY <1>1, <1>4, <2>5, <2>6 DEF TypeOK, Checkpoint, KeepWorkers, KeepLoops
  <2>8. OperationFacts'
    BY <1>1, <1>2, <2>3, <2>5, <2>6 DEF OperationFacts
  <2>9. ScanFacts'
    BY <1>1, <1>4, <2>5 DEF RetentionInvariant, ScanFacts
  <2>. QED BY <2>7, <2>8, <2>9 DEF RetentionInvariant
<1>. QED BY <1>3, <1>4 DEF Checkpoint

\* The claim takes the row out of the live states with its work protected.
LEMMA ClaimKeeps ==
    ASSUME RetentionInvariant, Claim
    PROVE  RetentionInvariant'
<1>1. /\ TypeOK /\ row \in Row /\ op \in Op /\ op.pc = "claim"
      /\ up' = up /\ UNCHANGED <<dirty, ckpt, late>>
  BY DEF RetentionInvariant, TypeOK, Claim, KeepRuntime
<1>2. /\ row.state \in Live /\ up /\ Protected' /\ row.state # "provisioning"
      /\ op.kind \notin {"none", "resume"}
  BY <1>1, ControlPoint, StillProtected
<1>3. CASE Return /\ row' = row
  <2>1. TypeOK'
    BY <1>1, <1>3, Returned DEF TypeOK, Claim, KeepWorkers, KeepLoops
  <2>. QED BY <1>1, <1>2, <1>3, <2>1, ReturnedScan, ReturnKeeps
<1>4. CASE /\ row' = [IF op.kind = "suspend" THEN op.row ELSE row EXCEPT !.state = "suspending"]
           /\ op' = [op EXCEPT !.pc = "stop", !.row = row', !.heard = FALSE]
           /\ scan' = scan
  <2>1. row' \in Row /\ row'.state = "suspending"
    BY <1>1, <1>4, OpFields, RowUpdates, NotLive
  <2>2. op' \in Op /\ op'.kind = op.kind /\ op'.pc = "stop"
    BY <1>1, <1>4, <2>1 DEF Op
  <2>3. TypeOK'
    BY <1>1, <1>4, <2>1, <2>2 DEF TypeOK, Claim, KeepWorkers, KeepLoops
  <2>4. OperationFacts'
    BY <1>2, <2>1, <2>2, NotLive DEF OperationFacts
  <2>5. ScanFacts'
    BY <1>4, <2>1, <2>2, NotLive DEF RetentionInvariant, ScanFacts
  <2>. QED BY <2>3, <2>4, <2>5 DEF RetentionInvariant
<1>. QED BY <1>3, <1>4 DEF Claim

LEMMA StopKeeps ==
    ASSUME RetentionInvariant, Stop
    PROVE  RetentionInvariant'
<1>1. /\ TypeOK /\ row \in Row /\ op \in Op /\ op.pc = "stop" /\ row' = row
      /\ UNCHANGED <<dirty, ckpt, late>> /\ up' \in BOOLEAN
  BY DEF RetentionInvariant, TypeOK, Stop
<1>2. row.state = "suspending" /\ Protected' /\ op.kind \notin {"none", "resume"}
  BY <1>1, ControlPoint, NotLive, StillProtected
<1>3. CASE Fail /\ Return
  <2>1. TypeOK'
    BY <1>1, <1>3, Counters, Returned DEF TypeOK, Stop, KeepWorkers, KeepLoops
  <2>. QED BY <1>1, <1>2, <1>3, <2>1, NotLive, ReturnedScan, ReturnKeeps
<1>4. CASE up' = FALSE /\ op' = [op EXCEPT !.pc = "save"] /\ UNCHANGED <<scan, failures>>
  <2>1. op' \in Op /\ op'.kind = op.kind /\ op'.pc = "save"
    BY <1>1, <1>4 DEF Op
  <2>2. TypeOK'
    BY <1>1, <1>4, <2>1 DEF TypeOK, Stop, KeepWorkers, KeepLoops
  <2>3. OperationFacts'
    BY <1>1, <1>2, <1>4, <2>1, NotLive DEF OperationFacts
  <2>4. ScanFacts'
    BY <1>1, <1>4, <2>1 DEF RetentionInvariant, ScanFacts
  <2>. QED BY <2>2, <2>3, <2>4 DEF RetentionInvariant
<1>. QED BY <1>3, <1>4 DEF Stop

LEMMA SaveSuspendedKeeps ==
    ASSUME RetentionInvariant, SaveSuspended
    PROVE  RetentionInvariant'
<1>1. /\ TypeOK /\ op \in Op /\ op.pc = "save" /\ Return
      /\ up' = up /\ UNCHANGED <<dirty, ckpt, late>>
  BY DEF RetentionInvariant, TypeOK, SaveSuspended, KeepRuntime
<1>2. Protected'
  BY <1>1, ControlPoint, NotLive, StillProtected
<1>3. row' \in Row /\ row'.state = "suspended"
  BY <1>1, OpFields, ZeroAges, NotLive DEF SaveSuspended, Row
<1>4. TypeOK'
  BY <1>1, <1>3, Returned DEF TypeOK, SaveSuspended, KeepWorkers, KeepLoops
<1>. QED BY <1>1, <1>2, <1>3, <1>4, NotLive, ReturnKeeps

LEMMA StartKeeps ==
    ASSUME RetentionInvariant, Start
    PROVE  RetentionInvariant'
<1>1. /\ TypeOK /\ op \in Op /\ op.pc = "start" /\ row' = row /\ scan' = scan /\ up' = TRUE
      /\ UNCHANGED <<dirty, ckpt, late>>
  BY DEF RetentionInvariant, TypeOK, Start
<1>2. row.state = "provisioning" /\ op.kind = "resume" /\ Protected'
  BY <1>1, ControlPoint, NotLive, StillProtected
<1>3. op' \in Op /\ op'.kind = op.kind /\ op'.pc = "running"
  BY <1>1 DEF Start, Op
<1>4. TypeOK'
  BY <1>1, <1>3 DEF TypeOK, Start, KeepWorkers, KeepLoops
<1>5. OperationFacts'
  BY <1>1, <1>2, <1>3, NotLive DEF OperationFacts
<1>6. ScanFacts'
  BY <1>1, <1>3 DEF RetentionInvariant, ScanFacts
<1>. QED BY <1>4, <1>5, <1>6 DEF RetentionInvariant

\* The workspace is live again; no scan that read it before relies on its age.
LEMMA SaveRunningKeeps ==
    ASSUME RetentionInvariant, SaveRunning
    PROVE  RetentionInvariant'
<1>1. /\ TypeOK /\ op \in Op /\ op.pc = "running" /\ Return /\ up' = up
  BY DEF RetentionInvariant, TypeOK, SaveRunning, KeepRuntime
<1>2. op.kind = "resume" /\ up
  BY <1>1 DEF RetentionInvariant, OperationFacts
<1>3. "running" \in Live /\ "running" \in WorkspaceStates
  BY DEF Live, WorkspaceStates
<1>4. row' \in Row /\ row'.state = "running"
  BY <1>1, <1>3, OpFields, RowUpdates DEF SaveRunning
<1>5. TypeOK'
  BY <1>1, <1>4, Returned DEF TypeOK, SaveRunning, KeepRuntime, KeepWorkers, KeepLoops
<1>. QED BY <1>1, <1>2, <1>3, <1>4, <1>5, ReturnedScan, ReturnKeeps

LEMMA TombstoneKeeps ==
    ASSUME RetentionInvariant, Tombstone
    PROVE  RetentionInvariant'
<1>1. /\ TypeOK /\ op \in Op /\ op.pc = "tombstone" /\ scan' = scan
      /\ up' = up /\ UNCHANGED <<dirty, ckpt, late>>
  BY DEF RetentionInvariant, TypeOK, Tombstone, KeepRuntime
<1>2. Protected' /\ op.kind \notin {"none", "resume"}
  BY <1>1, ControlPoint, StillProtected
<1>3. row' \in Row /\ row'.state = "deleting"
  BY <1>1, OpFields, ZeroAges, NotLive DEF Tombstone, Row
<1>4. op' \in Op /\ op'.kind = op.kind /\ op'.pc = "delete"
  BY <1>1, <1>3 DEF Tombstone, Op
<1>5. TypeOK'
  BY <1>1, <1>3, <1>4 DEF TypeOK, Tombstone, KeepRuntime, KeepWorkers, KeepLoops
<1>6. OperationFacts'
  BY <1>2, <1>3, <1>4, NotLive DEF OperationFacts
<1>7. ScanFacts'
  BY <1>1, <1>3, <1>4, NotLive DEF RetentionInvariant, ScanFacts
<1>. QED BY <1>5, <1>6, <1>7 DEF RetentionInvariant

LEMMA FinalizeKeeps ==
    ASSUME RetentionInvariant, FinalizeDelete
    PROVE  RetentionInvariant'
<1>1. /\ TypeOK /\ row \in Row /\ op.pc = "delete" /\ Return
      /\ up' \in BOOLEAN /\ UNCHANGED <<dirty, ckpt, late>> /\ failures' \in 0..MaxFailures
  BY Counters DEF RetentionInvariant, TypeOK, FinalizeDelete
<1>2. Protected' /\ row.state = "deleting"
  BY <1>1, ControlPoint, NotLive, StillProtected
<1>3. row' \in Row /\ row'.state \in {"deleting", "gone"}
  <2>1. "gone" \in WorkspaceStates
    BY NotLive
  <2>2. row' = row \/ row' = [row EXCEPT !.state = "gone"]
    BY DEF FinalizeDelete
  <2>3. [row EXCEPT !.state = "gone"] \in Row /\ [row EXCEPT !.state = "gone"].state = "gone"
    BY <1>1, <2>1 DEF Row
  <2>. QED BY <1>1, <1>2, <2>2, <2>3
<1>4. TypeOK'
  BY <1>1, <1>3, Returned DEF TypeOK, FinalizeDelete, KeepWorkers, KeepLoops
<1>. QED BY <1>1, <1>2, <1>3, <1>4, NotLive, ReturnKeeps

-----------------------------------------------------------------------------
(* The specification *)

LEMMA InitRetention ==
    Init => RetentionInvariant
<1>. SUFFICES ASSUME Init PROVE RetentionInvariant
  OBVIOUS
<1>1. row \in Row /\ row.state = "running"
  BY ZeroAges, NotLive DEF Init, Row, Live
<1>2. op \in Op /\ op.kind = "none" /\ op.pc = "none"
  BY NoOpFacts DEF Init
<1>3. scan \in ScanRecord /\ scan.pc = "idle"
  BY NoScanFacts DEF Init
<1>4. TypeOK
  <2>1. scheduler \in [pc : {"idle", "create", "risk", "touch"}, dirty : BOOLEAN]
    BY DEF Init
  <2>2. calls \in 0..MaxCalls /\ failures \in 0..MaxFailures
    BY TimingAssumption DEF Init
  <2>. QED BY <1>1, <1>2, <1>3, <2>1, <2>2, ZeroAges DEF Init, TypeOK
<1>5. Protected /\ up = TRUE
  BY DEF Init, Protected
<1>6. OperationFacts
  BY <1>1, <1>2, <1>5 DEF OperationFacts
<1>7. ScanFacts
  BY <1>2, <1>3 DEF ScanFacts
<1>. QED BY <1>4, <1>6, <1>7 DEF RetentionInvariant

LEMMA NextKeeps ==
    ASSUME RetentionInvariant, [Next]_vars
    PROVE  RetentionInvariant'
<1>1. CASE Owner
  BY <1>1, OwnerKeeps, CallsKeep, ResumeKeeps DEF Owner
<1>2. CASE syncGitState
  BY <1>2, SyncKeeps
<1>3. CASE Operation
  BY <1>3, CheckpointKeeps, ClaimKeeps, StopKeeps, SaveSuspendedKeeps, StartKeeps,
     SaveRunningKeeps, TombstoneKeeps, FinalizeKeeps DEF Operation
<1>4. CASE Lifecycle
  BY <1>4, FlushKeeps, ScanKeeps, ProbeKeeps, MarkKeeps, WorkerBegins DEF Lifecycle
<1>5. CASE Scheduler
  BY <1>5, SchedulerKeeps
<1>6. CASE Tick
  BY <1>6, TickKeeps
<1>7. CASE GoQuiet
  BY <1>7, QuietKeeps
<1>8. CASE UNCHANGED vars
  BY <1>8 DEF vars, RetentionInvariant, TypeOK, OperationFacts, ScanFacts, Protected
<1>. QED BY <1>1, <1>2, <1>3, <1>4, <1>5, <1>6, <1>7, <1>8 DEF Next

LEMMA RetentionHolds ==
    Spec => []RetentionInvariant
BY InitRetention, NextKeeps, PTL DEF Spec

\* Whatever stopped the provider runtime, the owner's suspension, the idle
\* worker's, a deletion or a failed retry of one, the unpushed work the volume
\* held when the checkpoint of that operation was made is in the latest
\* checkpoint (service.go:824-863, 905-977, 1045-1145).
THEOREM StoppedIsRecoverable ==
    Spec => []RecoverableWhenStopped
<1>1. RetentionInvariant => RecoverableWhenStopped
  BY DEF RetentionInvariant, OperationFacts, Protected, RecoverableWhenStopped
<1>. QED BY <1>1, RetentionHolds, PTL

-----------------------------------------------------------------------------
(* Who may call a workspace idle *)

LEMMA TouchedState ==
    ASSUME row \in Row, NEW age
    PROVE  Touched(age).state \in {row.state, "running"}
BY DEF Touched, Row

\* Only the mark and the claim lead to an idle or a suspending row.
LEMMA IdleByWorker ==
    ASSUME TypeOK, Next, ~MarkIdleIfInactive, ~Claim
    PROVE  row'.state = row.state \/ row'.state \notin {"idle", "suspending"}
<1>1. row \in Row /\ op.row \in Row
  BY OpFields DEF TypeOK
<1>2. CASE Owner
  <2>1. CASE KeepAlive
    BY <1>1, <2>1, TouchedState DEF KeepAlive, TouchActivity
  <2>2. CASE \E keep \in BOOLEAN : UpdatePolicy(keep)
    BY <1>1, <2>2, RowUpdates DEF UpdatePolicy
  <2>3. CASE \/ \E terminal, pushed \in BOOLEAN : Work(terminal, pushed)
             \/ SaveFile \/ Suspend \/ Delete
    BY <2>3 DEF Work, SaveFile, Suspend, Delete
  <2>4. CASE Resume
    BY <1>1, <2>4 DEF Resume, Row
  <2>. QED BY <1>2, <2>1, <2>2, <2>3, <2>4 DEF Owner
<1>3. CASE syncGitState
  <2>1. Touched(0) \in Row
    BY <1>1, ZeroAges, TouchedRow
  <2>2. row'.state = Touched(0).state
    BY <1>3, <2>1 DEF syncGitState, Row
  <2>. QED BY <1>1, <2>2, TouchedState
<1>4. CASE Operation
  <2>1. row' = row \/ row'.state \in {"suspended", "running", "deleting", "gone"}
    BY <1>1, <1>4 DEF Operation, Checkpoint, Stop, SaveSuspended, Start, SaveRunning,
       Tombstone, FinalizeDelete, Row
  <2>. QED BY <2>1
<1>5. CASE Lifecycle
  <2>1. CASE flushActivity
    BY <1>1, <2>1, TouchedState DEF flushActivity, TouchActivity
  <2>2. CASE Probe
    BY <1>1, <2>2, TouchedState DEF Probe
  <2>3. CASE Scan \/ SuspendIfInactive \/ AutomaticDelete
    BY <2>3 DEF Scan, SuspendIfInactive, AutomaticDelete
  <2>. QED BY <1>5, <2>1, <2>2, <2>3 DEF Lifecycle
<1>6. CASE Scheduler
  <2>1. CASE ListCandidates \/ PeriodicCheckpoint
    BY <2>1 DEF ListCandidates, PeriodicCheckpoint
  <2>2. CASE UpdateGitRisk
    BY <1>1, <2>2 DEF UpdateGitRisk, Row
  <2>3. CASE CheckpointTouch
    BY <1>1, <2>3, TouchedState DEF CheckpointTouch, TouchActivity
  <2>. QED BY <1>6, <2>1, <2>2, <2>3 DEF Scheduler
<1>7. CASE Tick
  <2>1. row'.state = row.state
    BY <1>1, <1>7 DEF Tick, Row
  <2>. QED BY <2>1
<1>8. CASE GoQuiet
  BY <1>8 DEF GoQuiet
<1>. QED BY <1>2, <1>3, <1>4, <1>5, <1>6, <1>7, <1>8 DEF Next

\* The lifecycle worker marks a workspace idle, and claims an idle one for its
\* automatic suspension, only while the row's recorded activity is older than
\* the idle timeout, whatever was written to the row while the probe and the
\* checkpoint ran (service.go:815-823, postgres/workspace.go).
THEOREM IdleClaimsAreExpired ==
    Spec => IdleClaimIsExpired
<1>1. ASSUME RetentionInvariant, [Next]_vars,
             \/ row.state = "running" /\ row'.state = "idle"
             \/ row.state = "idle" /\ row'.state = "suspending" /\ op.kind = "idle_suspend"
      PROVE  row.inactive = IdleTimeout
  <2>1. TypeOK /\ Next
    BY <1>1 DEF RetentionInvariant, vars
  <2>2. "running" \in Live /\ "idle" \in Live
    BY DEF Live
  <2>3. CASE MarkIdleIfInactive
    <3>1. scan.pc = "mark" /\ scan.unchanged
      BY <1>1, <2>3 DEF MarkIdleIfInactive
    <3>. QED BY <1>1, <2>2, <3>1 DEF RetentionInvariant, ScanFacts
  <2>4. CASE Claim
    <3>1. op.row \in Row /\ row \in Row
      BY <2>1, OpFields DEF TypeOK
    <3>2. row'.state # "idle"
      BY <1>1, <2>4, <3>1 DEF Claim, Row
    <3>3. op.kind = "idle_suspend" /\ row.state = "idle" /\ row' # row
      BY <1>1, <3>2
    <3>4. scan.unchanged
      BY <2>4, <3>3 DEF Claim
    <3>5. scan.pc = "op"
      BY <1>1, <3>3 DEF RetentionInvariant, ScanFacts
    <3>. QED BY <1>1, <2>2, <3>3, <3>4, <3>5 DEF RetentionInvariant, ScanFacts
  <2>. QED BY <1>1, <2>1, <2>3, <2>4, IdleByWorker
<1>2. RetentionInvariant /\ [Next]_vars =>
         [\/ row.state = "running" /\ row'.state = "idle"
          \/ row.state = "idle" /\ row'.state = "suspending" /\ op.kind = "idle_suspend"
          => row.inactive = IdleTimeout]_vars
  BY <1>1
<1>. QED BY <1>2, RetentionHolds, PTL DEF Spec, IdleClaimIsExpired

=============================================================================
