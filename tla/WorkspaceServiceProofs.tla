----------------------- MODULE WorkspaceServiceProofs -----------------------
(***************************************************************************)
(* Theorems about WorkspaceService, for every value of its constants.      *)
(*                                                                         *)
(* IInv is inductive.  A step changes one workspace through the operation  *)
(* that holds its mutation gate, and every other workspace at most in its  *)
(* quota or in the running/idle flip, which Facts does not depend on       *)
(* (Frame).  So one lemma per way of ending a step (Save, Return, ...)     *)
(* reduces each action to Facts of the operation, row and provider phase   *)
(* it leaves behind for its own workspace.                                 *)
(*                                                                         *)
(* The running limit, the freshness of private copies and the refinement   *)
(* of WorkspaceLifecycle follow, each from an invariant of its own about   *)
(* the gates: AdmissionInvariant, FreshInvariant, DrainInvariant.          *)
(*                                                                         *)
(* The bound of the recorded quotas needs two more.  ReservationInvariant  *)
(* says that a start keeps admissionGate from its decision to its return,  *)
(* and QuotaInvariant that the rebalance closing a start will still go     *)
(* through, which is what makes up for the quota cache a start leaves      *)
(* stale.  Steps are classed by what they can disturb there: Plain ones    *)
(* start nothing, Chain ones are inside a start, and the rest rebalance.   *)
(***************************************************************************)
EXTENDS WorkspaceService, FiniteSetTheorems, TLAPS

IInv == TypeOK /\ ControlInvariant

Phases == {"absent", "stopped", "live"}

\* The variables a workspace's facts do not mention keep their types.
RestOK ==
    /\ limit \in [Workspaces -> 0..Pool]
    /\ quotas \in [Workspaces -> 0..Pool]
    /\ admissionGate \in Workspaces \cup {Maintenance, None}
    /\ runtimeGate \in Actors \cup {None}
    /\ drain \in {"open", "flagged", "crossing", "drained"}
    /\ faults \in 0..MaxFaults

-----------------------------------------------------------------------------
(* Types *)

LEMMA FiniteConsumers ==
    Cardinality(consumers) \in Nat
BY ConstantsAssumption, FS_Subset, FS_CardinalityType DEF consumers

LEMMA ShareType ==
    ASSUME NEW n \in Nat, n # 0
    PROVE  share(n) \in 0..Pool
<1>1. Pool \in Nat
  BY ConstantsAssumption
<1>2. Pool \div n \in Nat /\ Pool \div n <= Pool
  BY <1>1, SMT
<1>. QED BY <1>1, <1>2 DEF share

LEMMA NoOpType == NoOp \in Op
BY ConstantsAssumption
   DEF NoOp, NoRow, Op, Row, Kinds, PCs, RuntimePCs, Codes, States, LiveStates

LEMMA Types ==
    ASSUME IInv, NEW w \in Workspaces
    PROVE  /\ rows[w] \in Row /\ op[w] \in Op /\ op[w].row \in Row
           /\ phase[w] \in Phases /\ w \in Actors
           /\ RestOK
           /\ Facts(op[w], rows[w], phase[w])
BY SMTT(60) DEF IInv, TypeOK, ControlInvariant, Op, Actors, Phases, RestOK

\* The ways an operation's record changes.
LEMMA OpMoved ==
    ASSUME NEW o \in Op, NEW r \in Row, NEW pc \in PCs
    PROVE  /\ [o EXCEPT !.pc = pc] \in Op
           /\ [o EXCEPT !.row = r, !.pc = pc] \in Op
           /\ \A b \in BOOLEAN : [o EXCEPT !.row = r, !.pc = pc, !.starting = b] \in Op
           /\ \A k \in Kinds : [o EXCEPT !.kind = k, !.row = r, !.pc = pc] \in Op
           /\ \A c \in Codes : [o EXCEPT !.pc = pc, !.final = c] \in Op
           /\ \A b \in BOOLEAN : [o EXCEPT !.pc = pc, !.starting = b] \in Op
BY Zenon DEF Op

LEMMA PCNames == "list" \in PCs
BY DEF PCs, RuntimePCs

\* The ways an operation rewrites its copy of the row.
LEMMA RowState ==
    ASSUME NEW r \in Row, NEW st \in States
    PROVE  [r EXCEPT !.state = st] \in Row
BY DEF Row

LEMMA RowCode ==
    ASSUME NEW r \in Row, NEW c \in Codes
    PROVE  [r EXCEPT !.code = c] \in Row
BY DEF Row

LEMMA RowStateCode ==
    ASSUME NEW r \in Row, NEW st \in States, NEW c \in Codes
    PROVE  [r EXCEPT !.state = st, !.code = c] \in Row
BY DEF Row

LEMMA RowFound ==
    ASSUME NEW r \in Row
    PROVE  [r EXCEPT !.prov = TRUE] \in Row
BY DEF Row

LEMMA RowFoundCode ==
    ASSUME NEW r \in Row, NEW c \in Codes
    PROVE  [r EXCEPT !.prov = TRUE, !.code = c] \in Row
BY DEF Row

LEMMA RowReady ==
    ASSUME NEW r \in Row
    PROVE  [r EXCEPT !.inputs = FALSE] \in Row
BY DEF Row

LEMMA RowReserved ==
    ASSUME NEW r \in Row, NEW st \in States, NEW c \in Codes, NEW q \in 0..Pool,
           NEW b \in BOOLEAN
    PROVE  [r EXCEPT !.quota = q, !.approved = b, !.state = st, !.code = c] \in Row
BY DEF Row

LEMMA NoRowType == NoRow \in Row
BY ConstantsAssumption DEF NoRow, Row, States, Codes

LEMMA StateNames ==
    {"gone", "queued", "provisioning", "awaiting_setup_approval", "suspending",
     "suspended", "failed", "deleting", "running", "idle"} \subseteq States
BY DEF States, LiveStates

LEMMA CodeNames ==
    {"", "start_reserved", "provision_unconfirmed", "setup_stop_pending",
     "private_inputs_recreate", "other", "provision_cleanup_pending",
     "start_cleanup_pending", "initialize_cleanup_pending"} \subseteq Codes
BY DEF Codes, CleanupCodes

-----------------------------------------------------------------------------
(* Steps *)

\* Nothing a workspace's facts say depends on the quota or the idle flip.
LEMMA Frame ==
    ASSUME NEW o \in Op, NEW r \in Row, NEW s \in Row, NEW p, Facts(o, r, p), Close(r, s)
    PROVE  Facts(o, s, p)
<1>1. RowFacts(s, p)
  BY DEF Facts, RowFacts, Close, CountsAsRunning, definitelyStoppedStartReservation,
         stableLiveProviderState, Exists, privateInputsIncomplete, LiveStates
<1>2. CopyFacts(o, s)
  BY DEF Facts, CopyFacts, Close
<1>3. WaitFacts(o, s)
  BY DEF Facts, WaitFacts, Close, Exists, privateInputsIncomplete, LiveStates, RestStates
<1>4. StateFacts(o, s)
  BY DEF Facts, StateFacts, Close, Exists, privateInputsIncomplete, LiveStates
<1>5. ProviderFacts(o, s, p)
  BY DEF Facts, ProviderFacts, Close
<1>. QED BY <1>1, <1>2, <1>3, <1>4, <1>5 DEF Facts

\* A step of the operation on w that leaves o, r and p behind.
LEMMA OwnStep ==
    ASSUME IInv, NEW w \in Workspaces, NEW o \in Op, NEW r \in Row, NEW p \in Phases,
           rows' = [rows EXCEPT ![w] = r],
           op' = [op EXCEPT ![w] = o],
           phase' = [phase EXCEPT ![w] = p],
           RestOK', Facts(o, r, p)
    PROVE  IInv'
<1>1. TypeOK'
  BY DEF IInv, TypeOK, RestOK, Phases, Actors
<1>2. ControlInvariant'
  <2>. SUFFICES ASSUME NEW v \in Workspaces
                PROVE  Facts(op'[v], rows'[v], phase'[v])
    BY DEF ControlInvariant
  <2>1. CASE v = w
    BY <2>1 DEF IInv, TypeOK, Actors
  <2>2. CASE v # w
    <3>1. op'[v] = op[v] /\ rows'[v] = rows[v] /\ phase'[v] = phase[v]
      BY <2>2 DEF IInv, TypeOK, Actors
    <3>. QED BY <3>1, Types
  <2>. QED BY <2>1, <2>2
<1>. QED BY <1>1, <1>2 DEF IInv

\* An operation that is over, or only rebalances, relies on nothing of its own.
LEMMA FactsAtRest ==
    ASSUME NEW o, NEW r, NEW p, RowFacts(r, p),
           o.pc = "idle" \/ (o.pc \in QuotaPCs /\ ~o.starting)
    PROVE  Facts(o, r, p)
BY DEF Facts, CopyFacts, WaitFacts, StateFacts, ProviderFacts, UsesPrivateCopy, Starting,
       RuntimePCs, QuotaPCs, StartPCs, RecoverPCs, DrainPCs, DeletePCs

LEMMA ReleaseType ==
    ASSUME RestOK, NEW a, ReleaseGates(a)
    PROVE  /\ admissionGate' \in Workspaces \cup {Maintenance, None}
           /\ runtimeGate' \in Actors \cup {None}
BY DEF RestOK, ReleaseGates

LEMMA FaultType ==
    ASSUME RestOK, NEW kind, Fault(kind)
    PROVE  faults' \in 0..MaxFaults
BY ConstantsAssumption DEF RestOK, Fault

\* A step in which the operation returns, having written r.
LEMMA ReturnStep ==
    ASSUME IInv, NEW w \in Workspaces, NEW r \in Row, NEW p \in Phases,
           Return(w),
           rows' = [rows EXCEPT ![w] = r],
           phase' = [phase EXCEPT ![w] = p],
           limit' \in [Workspaces -> 0..Pool], quotas' \in [Workspaces -> 0..Pool],
           drain' = drain, faults' \in 0..MaxFaults, RowFacts(r, p)
    PROVE  IInv'
<1>1. Facts(NoOp, r, p)
  BY FactsAtRest, Zenon DEF NoOp
<1>2. RestOK'
  BY Types, ReleaseType DEF RestOK, Return
<1>. QED BY <1>1, <1>2, NoOpType, OwnStep DEF Return

\* Nothing but the operation's own record changes when rows or phase do not.
LEMMA Unchanged ==
    ASSUME IInv, NEW w \in Workspaces
    PROVE  /\ rows = [rows EXCEPT ![w] = rows[w]]
           /\ phase = [phase EXCEPT ![w] = phase[w]]
BY DEF IInv, TypeOK

\* o is what becomes of operation old when it moves to pc with row r.
Moved(o, old, r, pc) ==
    /\ o.pc = pc /\ o.row = r
    /\ o.kind = old.kind /\ o.final = old.final /\ o.starting = old.starting

LEMMA SaveStep ==
    ASSUME IInv, NEW w \in Workspaces, NEW r \in Row, NEW pc \in PCs, Save(w, r, pc),
           ASSUME NEW o \in Op, NEW p \in Phases, p = phase[w], Moved(o, op[w], r, pc)
           PROVE  Facts(o, r, p)
    PROVE  IInv'
<1>1. PICK o \in Op : o = [op[w] EXCEPT !.row = r, !.pc = pc]
  BY Types, OpMoved, Zenon
<1>2. PICK p \in Phases : p = phase[w]
  BY Types
<1>3. RestOK'
  BY Types DEF RestOK, Save, KeepGates, KeepProvider
<1>4. op' = [op EXCEPT ![w] = o]
  BY <1>1 DEF Save
<1>5. rows' = [rows EXCEPT ![w] = r] /\ phase' = [phase EXCEPT ![w] = p]
  BY <1>2, Unchanged DEF Save, KeepProvider
<1>6. Moved(o, op[w], r, pc)
  BY <1>1, Types DEF Moved, Op
<1>7. Facts(o, r, p)
  BY <1>2, <1>6
<1>. QED BY <1>3, <1>4, <1>5, <1>7, OwnStep

LEMMA SaveAndReturnStep ==
    ASSUME IInv, NEW w \in Workspaces, NEW r \in Row, SaveAndReturn(w, r),
           RowFacts(r, phase[w])
    PROVE  IInv'
<1>1. PICK p \in Phases : p = phase[w]
  BY Types
<1>2. rows' = [rows EXCEPT ![w] = r] /\ phase' = [phase EXCEPT ![w] = p]
  BY <1>1, Unchanged DEF SaveAndReturn, KeepProvider
<1>3. /\ limit' \in [Workspaces -> 0..Pool] /\ quotas' \in [Workspaces -> 0..Pool]
      /\ drain' = drain /\ faults' \in 0..MaxFaults /\ Return(w)
  BY Types DEF SaveAndReturn, KeepProvider, RestOK
<1>. QED BY <1>1, <1>2, <1>3, ReturnStep

LEMMA SaveAndRebalanceStep ==
    ASSUME IInv, NEW w \in Workspaces, NEW r \in Row, SaveAndRebalance(w, r),
           RowFacts(r, phase[w])
    PROVE  IInv'
<1>1. PICK o \in Op : o = [op[w] EXCEPT !.row = r, !.pc = "list", !.starting = FALSE]
  BY Types, OpMoved, PCNames, Zenon
<1>2. PICK p \in Phases : p = phase[w]
  BY Types
<1>3. RestOK'
  BY Types DEF RestOK, SaveAndRebalance, KeepGates, KeepProvider
<1>4. op' = [op EXCEPT ![w] = o]
  BY <1>1 DEF SaveAndRebalance
<1>5. rows' = [rows EXCEPT ![w] = r] /\ phase' = [phase EXCEPT ![w] = p]
  BY <1>2, Unchanged DEF SaveAndRebalance, KeepProvider
<1>6. o.pc = "list" /\ ~o.starting
  BY <1>1, Types DEF Op
<1>7. Facts(o, r, p)
  BY <1>2, <1>6, FactsAtRest DEF QuotaPCs
<1>. QED BY <1>3, <1>4, <1>5, <1>7, OwnStep

\* An operation that gives up, after a failure or not.
LEMMA GiveUpStep ==
    ASSUME IInv, NEW w \in Workspaces, Return(w), KeepProvider, UNCHANGED <<rows, drain>>,
           faults' \in 0..MaxFaults
    PROVE  IInv'
<1>1. PICK r \in Row, p \in Phases : r = rows[w] /\ p = phase[w]
  BY Types
<1>2. rows' = [rows EXCEPT ![w] = r] /\ phase' = [phase EXCEPT ![w] = p]
  BY <1>1, Unchanged DEF KeepProvider
<1>3. limit' \in [Workspaces -> 0..Pool] /\ quotas' \in [Workspaces -> 0..Pool]
  BY Types DEF KeepProvider, RestOK
<1>4. RowFacts(r, p)
  BY <1>1, Types DEF Facts
<1>. QED BY <1>2, <1>3, <1>4, ReturnStep

\* An operation that leaves o behind, with the row as it was and provider phase p.
LEMMA OpStep ==
    ASSUME IInv, NEW w \in Workspaces, NEW o \in Op, NEW p \in Phases,
           op' = [op EXCEPT ![w] = o], phase' = [phase EXCEPT ![w] = p],
           rows' = rows, RestOK', Facts(o, rows[w], p)
    PROVE  IInv'
<1>1. PICK r \in Row : r = rows[w]
  BY Types
<1>2. rows' = [rows EXCEPT ![w] = r]
  BY <1>1, Unchanged
<1>3. Facts(o, r, p)
  BY <1>1
<1>. QED BY <1>2, <1>3, OwnStep

\* The same with the provider left alone.
LEMMA KeepStep ==
    ASSUME IInv, NEW w \in Workspaces, NEW o \in Op,
           op' = [op EXCEPT ![w] = o], UNCHANGED <<rows, phase>>,
           RestOK', Facts(o, rows[w], phase[w])
    PROVE  IInv'
<1>1. PICK p \in Phases : p = phase[w]
  BY Types
<1>2. phase' = [phase EXCEPT ![w] = p]
  BY <1>1, Unchanged
<1>. QED BY <1>1, <1>2, OpStep

-----------------------------------------------------------------------------
(* Actions that write the row and go on *)

USE DEF RowFacts, CopyFacts, WaitFacts, StateFacts, ProviderFacts, UsesPrivateCopy,
        Starting, Close, CountsAsRunning, definitelyStoppedStartReservation,
        stableLiveProviderState, Exists, privateInputsIncomplete, LiveStates, CleanupCodes,
        RuntimePCs, QuotaPCs, StartPCs, RecoverPCs, DrainPCs, DeletePCs, StartKinds, RestStates,
        Phases

LEMMA SaveUnconfirmedStep ==
    ASSUME IInv, NEW w \in Workspaces, SaveUnconfirmed(w)
    PROVE  IInv'
<1>1. PICK r \in Row : r = [op[w].row EXCEPT !.code = "provision_unconfirmed"]
  BY Types, RowCode, CodeNames, Zenon
<1>2. Save(w, r, "call_provision") /\ op[w].pc = "save_unconfirmed" /\ "call_provision" \in PCs
  BY <1>1 DEF SaveUnconfirmed, PCs
<1>3. /\ r.state = op[w].row.state /\ r.code = "provision_unconfirmed"
      /\ r.prov = op[w].row.prov /\ r.inputs = op[w].row.inputs
  BY <1>1, Types DEF Row
<1>4. Facts(op[w], rows[w], phase[w])
  BY Types
<1>5. ASSUME NEW o \in Op, NEW p \in Phases, p = phase[w], Moved(o, op[w], r, "call_provision")
      PROVE  Facts(o, r, p)
  BY <1>2, <1>3, <1>4, <1>5 DEF Facts, Moved
<1>. QED BY <1>2, <1>5, SaveStep, Zenon

LEMMA SaveProvisionedStep ==
    ASSUME IInv, NEW w \in Workspaces, SaveProvisioned(w)
    PROVE  IInv'
<1>1. PICK r \in Row : r = [op[w].row EXCEPT !.prov = TRUE, !.code = "start_cleanup_pending"]
  BY Types, RowFoundCode, CodeNames, Zenon
<1>2. Save(w, r, "call_start") /\ op[w].pc = "save_provisioned" /\ "call_start" \in PCs
  BY <1>1 DEF SaveProvisioned, PCs
<1>3. /\ r.state = op[w].row.state /\ r.code = "start_cleanup_pending"
      /\ r.prov = TRUE /\ r.inputs = op[w].row.inputs
  BY <1>1, Types DEF Row
<1>4. Facts(op[w], rows[w], phase[w])
  BY Types
<1>5. ASSUME NEW o \in Op, NEW p \in Phases, p = phase[w], Moved(o, op[w], r, "call_start")
      PROVE  Facts(o, r, p)
  BY <1>2, <1>3, <1>4, <1>5 DEF Facts, Moved
<1>. QED BY <1>2, <1>5, SaveStep, Zenon

LEMMA markProviderStartPendingStep ==
    ASSUME IInv, NEW w \in Workspaces, markProviderStartPending(w)
    PROVE  IInv'
<1>1. PICK r \in Row : r = [op[w].row EXCEPT !.code = "start_cleanup_pending"]
  BY Types, RowCode, CodeNames, Zenon
<1>2. Save(w, r, "call_start") /\ op[w].pc = "save_start_pending" /\ "call_start" \in PCs
  BY <1>1 DEF markProviderStartPending, PCs
<1>3. /\ r.state = op[w].row.state /\ r.code = "start_cleanup_pending"
      /\ r.prov = op[w].row.prov /\ r.inputs = op[w].row.inputs
  BY <1>1, Types DEF Row
<1>4. Facts(op[w], rows[w], phase[w])
  BY Types
<1>5. ASSUME NEW o \in Op, NEW p \in Phases, p = phase[w], Moved(o, op[w], r, "call_start")
      PROVE  Facts(o, r, p)
  BY <1>2, <1>3, <1>4, <1>5 DEF Facts, Moved
<1>. QED BY <1>2, <1>5, SaveStep, Zenon

LEMMA SaveCleanupStep ==
    ASSUME IInv, NEW w \in Workspaces, SaveCleanup(w)
    PROVE  IInv'
<1>1. PICK r \in Row : r = [op[w].row EXCEPT !.code = op[w].final]
  <2>1. op[w].final \in Codes
    BY Types DEF Op
  <2>. QED BY <2>1, Types, RowCode
<1>2. Save(w, r, "cleanup_stop") /\ op[w].pc = "save_cleanup" /\ "cleanup_stop" \in PCs
  BY <1>1 DEF SaveCleanup, PCs
<1>3. /\ r.state = op[w].row.state /\ r.code = op[w].final
      /\ r.prov = op[w].row.prov /\ r.inputs = op[w].row.inputs
  BY <1>1, Types DEF Row
<1>4. Facts(op[w], rows[w], phase[w])
  BY Types
<1>5. ASSUME NEW o \in Op, NEW p \in Phases, p = phase[w], Moved(o, op[w], r, "cleanup_stop")
      PROVE  Facts(o, r, p)
  BY <1>2, <1>3, <1>4, <1>5 DEF Facts, Moved
<1>. QED BY <1>2, <1>5, SaveStep, Zenon

LEMMA SaveFoundStep ==
    ASSUME IInv, NEW w \in Workspaces, SaveFound(w)
    PROVE  IInv'
<1>1. PICK r \in Row : r = [op[w].row EXCEPT !.prov = TRUE, !.code = "provision_cleanup_pending"]
  BY Types, RowFoundCode, CodeNames, Zenon
<1>2. Save(w, r, "cleanup_stop") /\ op[w].pc = "save_found" /\ "cleanup_stop" \in PCs
  BY <1>1 DEF SaveFound, PCs
<1>3. /\ r.state = op[w].row.state /\ r.code = "provision_cleanup_pending"
      /\ r.prov = TRUE /\ r.inputs = op[w].row.inputs
  BY <1>1, Types DEF Row
<1>4. Facts(op[w], rows[w], phase[w])
  BY Types
<1>5. ASSUME NEW o \in Op, NEW p \in Phases, p = phase[w], Moved(o, op[w], r, "cleanup_stop")
      PROVE  Facts(o, r, p)
  BY <1>2, <1>3, <1>4, <1>5 DEF Facts, Moved
<1>. QED BY <1>2, <1>5, SaveStep, Zenon

LEMMA SaveDeleteFoundStep ==
    ASSUME IInv, NEW w \in Workspaces, SaveDeleteFound(w)
    PROVE  IInv'
<1>1. PICK r \in Row : r = [op[w].row EXCEPT !.prov = TRUE]
  BY Types, RowFound
<1>2. Save(w, r, "call_delete") /\ op[w].pc = "save_delete_found" /\ "call_delete" \in PCs
  BY <1>1 DEF SaveDeleteFound, PCs
<1>3. /\ r.state = op[w].row.state /\ r.code = op[w].row.code
      /\ r.prov = TRUE /\ r.inputs = op[w].row.inputs
  BY <1>1, Types DEF Row
<1>4. Facts(op[w], rows[w], phase[w])
  BY Types
<1>5. ASSUME NEW o \in Op, NEW p \in Phases, p = phase[w], Moved(o, op[w], r, "call_delete")
      PROVE  Facts(o, r, p)
  BY <1>2, <1>3, <1>4, <1>5 DEF Facts, Moved
<1>. QED BY <1>2, <1>5, SaveStep, Zenon

LEMMA SaveDrainFoundStep ==
    ASSUME IInv, NEW w \in Workspaces, SaveDrainFound(w)
    PROVE  IInv'
<1>1. PICK r \in Row : r = [op[w].row EXCEPT !.prov = TRUE]
  BY Types, RowFound
<1>2. Save(w, r, "drain_stop") /\ op[w].pc = "save_drain_found" /\ "drain_stop" \in PCs
  BY <1>1 DEF SaveDrainFound, PCs
<1>3. /\ r.state = op[w].row.state /\ r.code = op[w].row.code
      /\ r.prov = TRUE /\ r.inputs = op[w].row.inputs
  BY <1>1, Types DEF Row
<1>4. Facts(op[w], rows[w], phase[w])
  BY Types
<1>5. ASSUME NEW o \in Op, NEW p \in Phases, p = phase[w], Moved(o, op[w], r, "drain_stop")
      PROVE  Facts(o, r, p)
  BY <1>2, <1>3, <1>4, <1>5 DEF Facts, Moved
<1>. QED BY <1>2, <1>5, SaveStep, Zenon

-----------------------------------------------------------------------------
(* Actions that write the row and end the operation, or leave it rebalancing *)

LEMMA SaveDeniedStep ==
    ASSUME IInv, NEW w \in Workspaces, SaveDenied(w)
    PROVE  IInv'
<1>1. PICK r \in Row : r = [op[w].row EXCEPT !.state = "failed", !.code = "other"]
  BY Types, RowStateCode, StateNames, CodeNames, Zenon
<1>2. SaveAndReturn(w, r) /\ op[w].pc = "save_denied"
  BY <1>1 DEF SaveDenied
<1>3. /\ r.state = "failed" /\ r.code = "other"
      /\ r.prov = op[w].row.prov /\ r.inputs = op[w].row.inputs
  BY <1>1, Types DEF Row
<1>4. Facts(op[w], rows[w], phase[w])
  BY Types
<1>5. RowFacts(r, phase[w])
  BY <1>2, <1>3, <1>4 DEF Facts
<1>. QED BY <1>2, <1>5, SaveAndReturnStep

LEMMA SaveSetupPendingStep ==
    ASSUME IInv, NEW w \in Workspaces, SaveSetupPending(w)
    PROVE  IInv'
<1>1. PICK r \in Row : r = [op[w].row EXCEPT !.code = "setup_stop_pending"]
  BY Types, RowCode, CodeNames, Zenon
<1>2. SaveAndReturn(w, r) /\ op[w].pc = "save_setup_pending"
  BY <1>1 DEF SaveSetupPending
<1>3. /\ r.state = op[w].row.state /\ r.code = "setup_stop_pending"
      /\ r.prov = op[w].row.prov /\ r.inputs = op[w].row.inputs
  BY <1>1, Types DEF Row
<1>4. Facts(op[w], rows[w], phase[w])
  BY Types
<1>5. RowFacts(r, phase[w])
  BY <1>2, <1>3, <1>4 DEF Facts
<1>. QED BY <1>2, <1>5, SaveAndReturnStep

LEMMA SaveReservedStep ==
    ASSUME IInv, NEW w \in Workspaces, SaveReserved(w)
    PROVE  IInv'
<1>1. PICK r \in Row : r = [op[w].row EXCEPT !.code = "start_reserved"]
  BY Types, RowCode, CodeNames, Zenon
<1>2. SaveAndReturn(w, r) /\ op[w].pc = "save_reserved"
  BY <1>1 DEF SaveReserved
<1>3. /\ r.state = op[w].row.state /\ r.code = "start_reserved"
      /\ r.prov = op[w].row.prov /\ r.inputs = op[w].row.inputs
  BY <1>1, Types DEF Row
<1>4. Facts(op[w], rows[w], phase[w])
  BY Types
<1>5. RowFacts(r, phase[w])
  BY <1>2, <1>3, <1>4 DEF Facts
<1>. QED BY <1>2, <1>5, SaveAndReturnStep

LEMMA SaveRunningStep ==
    ASSUME IInv, NEW w \in Workspaces, SaveRunning(w)
    PROVE  IInv'
<1>1. PICK r \in Row : r = [op[w].row EXCEPT !.state = "running", !.code = ""]
  BY Types, RowStateCode, StateNames, CodeNames, Zenon
<1>2. SaveAndRebalance(w, r) /\ op[w].pc = "save_running"
  BY <1>1 DEF SaveRunning
<1>3. /\ r.state = "running" /\ r.code = ""
      /\ r.prov = op[w].row.prov /\ r.inputs = op[w].row.inputs
  BY <1>1, Types DEF Row
<1>4. Facts(op[w], rows[w], phase[w])
  BY Types
<1>5. RowFacts(r, phase[w])
  BY <1>2, <1>3, <1>4, Zenon DEF Facts
<1>. QED BY <1>2, <1>5, SaveAndRebalanceStep

LEMMA SaveAwaitingStep ==
    ASSUME IInv, NEW w \in Workspaces, SaveAwaiting(w)
    PROVE  IInv'
<1>1. PICK r \in Row : r = [op[w].row EXCEPT !.state = "awaiting_setup_approval", !.code = ""]
  BY Types, RowStateCode, StateNames, CodeNames, Zenon
<1>2. SaveAndRebalance(w, r) /\ op[w].pc = "save_awaiting"
  BY <1>1 DEF SaveAwaiting
<1>3. /\ r.state = "awaiting_setup_approval" /\ r.code = ""
      /\ r.prov = op[w].row.prov /\ r.inputs = op[w].row.inputs
  BY <1>1, Types DEF Row
<1>4. Facts(op[w], rows[w], phase[w])
  BY Types
<1>5. RowFacts(r, phase[w])
  BY <1>2, <1>3, <1>4, Zenon DEF Facts
<1>. QED BY <1>2, <1>5, SaveAndRebalanceStep

LEMMA SaveFailedStep ==
    ASSUME IInv, NEW w \in Workspaces, SaveFailed(w)
    PROVE  IInv'
<1>1. PICK r \in Row : r = [op[w].row EXCEPT !.state = "failed", !.code = "other"]
  BY Types, RowStateCode, StateNames, CodeNames, Zenon
<1>2. SaveAndRebalance(w, r) /\ op[w].pc = "save_failed"
  BY <1>1 DEF SaveFailed
<1>3. /\ r.state = "failed" /\ r.code = "other"
      /\ r.prov = op[w].row.prov /\ r.inputs = op[w].row.inputs
  BY <1>1, Types DEF Row
<1>4. Facts(op[w], rows[w], phase[w])
  BY Types
<1>5. RowFacts(r, phase[w])
  BY <1>2, <1>3, <1>4 DEF Facts
<1>. QED BY <1>2, <1>5, SaveAndRebalanceStep

LEMMA SaveSuspendedStep ==
    ASSUME IInv, NEW w \in Workspaces, SaveSuspended(w)
    PROVE  IInv'
<1>1. PICK r \in Row : r = [op[w].row EXCEPT !.state = "suspended"]
  BY Types, RowState, StateNames
<1>2. SaveAndRebalance(w, r) /\ op[w].pc = "save_suspended"
  BY <1>1 DEF SaveSuspended
<1>3. /\ r.state = "suspended" /\ r.code = op[w].row.code
      /\ r.prov = op[w].row.prov /\ r.inputs = op[w].row.inputs
  BY <1>1, Types DEF Row
<1>4. Facts(op[w], rows[w], phase[w])
  BY Types
<1>5. RowFacts(r, phase[w])
  BY <1>2, <1>3, <1>4 DEF Facts
<1>. QED BY <1>2, <1>5, SaveAndRebalanceStep

LEMMA persistMaintenanceDrainResultStep ==
    ASSUME IInv, NEW w \in Workspaces, persistMaintenanceDrainResult(w)
    PROVE  IInv'
<1>1. PICK r \in Row : r = [op[w].row EXCEPT !.state = "failed", !.code = "other"]
  BY Types, RowStateCode, StateNames, CodeNames, Zenon
<1>2. SaveAndRebalance(w, r) /\ op[w].pc = "save_drained"
  BY <1>1 DEF persistMaintenanceDrainResult
<1>3. /\ r.state = "failed" /\ r.code = "other"
      /\ r.prov = op[w].row.prov /\ r.inputs = op[w].row.inputs
  BY <1>1, Types DEF Row
<1>4. Facts(op[w], rows[w], phase[w])
  BY Types
<1>5. RowFacts(r, phase[w])
  BY <1>2, <1>3, <1>4 DEF Facts
<1>. QED BY <1>2, <1>5, SaveAndRebalanceStep

LEMMA FinalizeDeleteStep ==
    ASSUME IInv, NEW w \in Workspaces, FinalizeDelete(w)
    PROVE  IInv'
<1>1. PICK r \in Row : r = [NoRow EXCEPT !.state = "gone"]
  BY NoRowType, RowState, StateNames
<1>2. SaveAndRebalance(w, r) /\ op[w].pc = "finalize"
  BY <1>1 DEF FinalizeDelete
<1>3. r.state = "gone" /\ r.code = ""
  BY <1>1, Zenon DEF NoRow
<1>4. Facts(op[w], rows[w], phase[w])
  BY Types
<1>5. RowFacts(r, phase[w])
  BY <1>2, <1>3, <1>4, Zenon DEF Facts
<1>. QED BY <1>2, <1>5, SaveAndRebalanceStep

-----------------------------------------------------------------------------
(* Actions that move the operation without writing the row *)

\* The calls that may begin on a row, and where they wait first.
MayBegin(kind, pc, r) ==
    \/ pc = "wait_admission" /\ kind \in {"approve", "retry", "resume"} /\ r.state \in RestStates
    \/ pc = "wait_admission" /\ kind = "reconcile" /\ r.state = "provisioning"
    \/ pc = "save_denied" /\ kind = "deny" /\ r.state = "awaiting_setup_approval"
    \/ pc = "wait_runtime" /\ kind \in {"suspend", "idle_suspend"}
    \/ pc = "wait_runtime" /\ kind = "delete" /\ Exists(r)
    \/ pc = "wait_runtime" /\ kind = "drain" /\ r.state = "provisioning"

LEMMA BeginFacts ==
    ASSUME NEW o, NEW r, NEW p, RowFacts(r, p), MayBegin(o.kind, o.pc, r), o.row = r
    PROVE  Facts(o, r, p)
BY DEF Facts, MayBegin

LEMMA MayBeginTypes ==
    ASSUME NEW kind, NEW pc, NEW r, MayBegin(kind, pc, r)
    PROVE  kind \in Kinds /\ pc \in PCs
BY DEF MayBegin, Kinds, PCs

LEMMA BeginStep ==
    ASSUME IInv, NEW w \in Workspaces, NEW kind, NEW pc, Begin(w, kind, pc),
           MayBegin(kind, pc, rows[w])
    PROVE  IInv'
<1>1. PICK r \in Row, p \in Phases : r = rows[w] /\ p = phase[w]
  BY Types
<1>2. kind \in Kinds /\ pc \in PCs
  BY <1>1, MayBeginTypes
<1>3. PICK o \in Op : o = [op[w] EXCEPT !.kind = kind, !.row = r, !.pc = pc]
  BY <1>2, Types, OpMoved, Zenon
<1>4. o.kind = kind /\ o.pc = pc /\ o.row = r
  BY <1>3, Types DEF Op
<1>5. Facts(op[w], r, p)
  BY <1>1, Types
<1>6. RowFacts(r, p)
  BY <1>5 DEF Facts
<1>7. Facts(o, r, p)
  BY <1>1, <1>4, <1>6, BeginFacts
<1>8. op' = [op EXCEPT ![w] = o]
  BY <1>1, <1>3 DEF Begin
<1>9. RestOK' /\ UNCHANGED <<rows, phase>>
  BY Types DEF Begin, RestOK, KeepGates, KeepProvider
<1>. QED BY <1>1, <1>7, <1>8, <1>9, KeepStep, Zenon

LEMMA BeginningsStep ==
    ASSUME IInv, NEW w \in Workspaces,
           \/ ApproveSetup(w) \/ DenySetup(w) \/ Retry(w) \/ Resume(w) \/ Suspend(w)
           \/ SuspendIfInactive(w) \/ Delete(w) \/ ReconcileMaintenanceDrain(w)
    PROVE  IInv'
<1>1. PICK kind, pc : Begin(w, kind, pc) /\ MayBegin(kind, pc, rows[w])
  <2>1. CASE ApproveSetup(w)
    BY <2>1 DEF ApproveSetup, MayBegin
  <2>2. CASE DenySetup(w)
    BY <2>2 DEF DenySetup, MayBegin
  <2>3. CASE Retry(w)
    BY <2>3 DEF Retry, MayBegin
  <2>4. CASE Resume(w)
    BY <2>4 DEF Resume, MayBegin
  <2>5. CASE Suspend(w)
    BY <2>5 DEF Suspend, MayBegin
  <2>6. CASE SuspendIfInactive(w)
    BY <2>6 DEF SuspendIfInactive, MayBegin
  <2>7. CASE Delete(w)
    BY <2>7 DEF Delete, MayBegin
  <2>8. CASE ReconcileMaintenanceDrain(w)
    BY <2>8 DEF ReconcileMaintenanceDrain, MayBegin
  <2>. QED BY <2>1, <2>2, <2>3, <2>4, <2>5, <2>6, <2>7, <2>8
<1>. QED BY <1>1, BeginStep

LEMMA CreateStep ==
    ASSUME IInv, NEW w \in Workspaces, Create(w)
    PROVE  IInv'
<1>1. PICK dev \in Devcontainer, inputs \in Inputs :
         op' = [op EXCEPT ![w].kind = "create", ![w].pc = "wait_admission",
                          ![w].row = [NoRow EXCEPT !.state = "queued", !.dev = dev,
                                                   !.inputs = inputs]]
  BY Zenon DEF Create
<1>2. dev \in BOOLEAN /\ inputs \in BOOLEAN
  BY ConstantsAssumption
<1>3. PICK r \in Row : r = [NoRow EXCEPT !.state = "queued", !.dev = dev, !.inputs = inputs]
  BY <1>2, NoRowType, StateNames, Zenon DEF Row
<1>4. "create" \in Kinds /\ "wait_admission" \in PCs
  BY DEF Kinds, PCs
<1>5. PICK o \in Op : o = [op[w] EXCEPT !.kind = "create", !.row = r, !.pc = "wait_admission"]
  BY <1>4, Types, OpMoved, Zenon
<1>6. op' = [op EXCEPT ![w] = o]
  BY <1>1, <1>3, <1>5
<1>7. o.kind = "create" /\ o.pc = "wait_admission"
  BY <1>5, Types DEF Op
<1>8. rows[w].state = "none" /\ Facts(op[w], rows[w], phase[w])
  BY Types DEF Create
<1>9. Facts(o, rows[w], phase[w])
  BY <1>7, <1>8 DEF Facts
<1>10. RestOK' /\ UNCHANGED <<rows, phase>>
  BY Types DEF Create, RestOK, KeepGates, KeepProvider
<1>. QED BY <1>6, <1>9, <1>10, KeepStep

LEMMA acquireAdmissionStep ==
    ASSUME IInv, NEW w \in Workspaces, acquireAdmission(w)
    PROVE  IInv'
<1>1. PICK pc \in PCs : pc = IF op[w].kind = "reconcile" THEN "wait_runtime" ELSE "decide"
  BY DEF PCs
<1>2. PICK o \in Op : o = [op[w] EXCEPT !.pc = pc]
  BY Types, OpMoved, Zenon
<1>3. op' = [op EXCEPT ![w] = o]
  BY <1>1, <1>2 DEF acquireAdmission, Goto
<1>4. o.pc = pc /\ o.kind = op[w].kind
  BY <1>2, Types DEF Op
<1>5. op[w].pc = "wait_admission" /\ Facts(op[w], rows[w], phase[w])
  BY Types DEF acquireAdmission
<1>6. Facts(o, rows[w], phase[w])
  BY <1>1, <1>4, <1>5 DEF Facts
<1>7. RestOK' /\ UNCHANGED <<rows, phase>>
  BY Types DEF acquireAdmission, RestOK, KeepProvider
<1>. QED BY <1>3, <1>6, <1>7, KeepStep, Zenon

\* The fresh read under runtimeGate finds what the kind of operation waited for.
LEMMA AfterRuntimeFacts ==
    ASSUME NEW old, NEW o, NEW r, NEW p, Facts(old, r, p), old.pc = "wait_runtime",
           old.kind \in Kinds, o.kind = old.kind, o.row = r,
           o.pc = AfterRuntime(old.kind), o.starting = (old.kind = "resume")
    PROVE  Facts(o, r, p)
<1>1. CASE old.kind = "resume"
  BY <1>1 DEF Facts, AfterRuntime
<1>2. CASE old.kind \in {"create", "approve", "retry"}
  BY <1>2 DEF Facts, AfterRuntime
<1>3. CASE old.kind = "reconcile"
  BY <1>3 DEF Facts, AfterRuntime
<1>4. CASE old.kind \in {"suspend", "idle_suspend", "delete", "drain"}
  BY <1>4 DEF Facts, AfterRuntime
<1>. QED BY <1>1, <1>2, <1>3, <1>4 DEF Facts, Kinds

LEMMA acquireRuntimeStep ==
    ASSUME IInv, NEW w \in Workspaces, acquireRuntime(w)
    PROVE  IInv'
<1>1. PICK pc \in PCs : pc = AfterRuntime(op[w].kind)
  BY DEF PCs, AfterRuntime
<1>2. PICK b \in BOOLEAN : b = (op[w].kind = "resume")
  BY Zenon
<1>3. PICK o \in Op : o = [op[w] EXCEPT !.row = rows[w], !.pc = pc, !.starting = b]
  BY Types, OpMoved, Zenon
<1>4. op' = [op EXCEPT ![w] = o]
  BY <1>1, <1>2, <1>3 DEF acquireRuntime
<1>5. o.pc = pc /\ o.kind = op[w].kind /\ o.row = rows[w] /\ o.starting = b
  BY <1>3, Types DEF Op
<1>6. op[w].pc = "wait_runtime" /\ Facts(op[w], rows[w], phase[w])
  BY Types DEF acquireRuntime
<1>7. Facts(o, rows[w], phase[w])
  <2>1. op[w].kind \in Kinds
    BY Types DEF Op
  <2>. QED BY <1>1, <1>2, <1>5, <1>6, <2>1, AfterRuntimeFacts
<1>8. RestOK' /\ UNCHANGED <<rows, phase>>
  BY Types DEF acquireRuntime, RestOK, KeepProvider, Actors
<1>. QED BY <1>4, <1>7, <1>8, KeepStep

-----------------------------------------------------------------------------
(* Reservation and quarantine *)

\* A step that writes r and ends the operation, or finds no operation at all.
LEMMA QuarantineFacts ==
    ASSUME NEW r \in Row, NEW p, RowFacts(r, p), privateInputsIncomplete(r), Exists(r)
    PROVE  quarantined(r) \in Row /\ RowFacts(quarantined(r), p)
<1>1. "failed" \in States /\ "private_inputs_recreate" \in Codes
  BY StateNames, CodeNames, Zenon
<1>2. quarantined(r) \in Row
  BY <1>1, RowStateCode, Zenon DEF quarantined
<1>3. quarantined(r).state = "failed" /\ p = "absent"
  BY DEF quarantined, Row
<1>. QED BY <1>2, <1>3

LEMMA RetryQuarantineStep ==
    ASSUME IInv, NEW w \in Workspaces, RetryQuarantine(w)
    PROVE  IInv'
<1>1. PICK r \in Row, o \in Op, p \in Phases : r = rows[w] /\ o = op[w] /\ p = phase[w]
  BY Types
<1>2. Facts(o, r, p)
  BY <1>1, Types
<1>3. o.pc = "idle" /\ privateInputsIncomplete(r) /\ Exists(r)
  BY <1>1 DEF RetryQuarantine
<1>4. PICK q \in Row : q = quarantined(r) /\ RowFacts(q, p)
  <2>1. RowFacts(r, p)
    BY <1>2 DEF Facts
  <2>. QED BY <1>3, <2>1, QuarantineFacts
<1>5. Facts(o, q, p)
  BY <1>3, <1>4, FactsAtRest
<1>6. /\ rows' = [rows EXCEPT ![w] = q] /\ op' = [op EXCEPT ![w] = o]
      /\ phase' = [phase EXCEPT ![w] = p]
  BY <1>1, <1>4 DEF RetryQuarantine, KeepProvider, IInv, TypeOK
<1>7. RestOK'
  BY Types DEF RetryQuarantine, RestOK, KeepGates, KeepProvider
<1>. QED BY <1>5, <1>6, <1>7, OwnStep

LEMMA PlanStartType ==
    ASSUME NEW diskOK \in BOOLEAN
    PROVE  PlanStart(diskOK).quota \in 0..Pool /\ PlanStart(diskOK).admitted \in BOOLEAN
<1>1. PICK n \in Nat : n = Cardinality(consumers) + 1 /\ n # 0
  BY FiniteConsumers
<1>2. share(n) \in 0..Pool /\ 0 \in 0..Pool
  BY <1>1, ShareType, ConstantsAssumption
<1>. QED BY <1>1, <1>2 DEF PlanStart

LEMMA DecideFacts ==
    ASSUME NEW old, NEW o, NEW r, NEW p, Facts(old, r, p), old.pc = "decide",
           o.pc = "commit", o.kind = old.kind, validate(old.kind, r),
           o.row.state \in {"provisioning", "queued"},
           o.row.code \in {"start_reserved", "other"},
           old.kind = "create" \/ ~o.row.inputs
    PROVE  Facts(o, r, p)
BY DEF Facts, validate

LEMMA DecideStep ==
    ASSUME IInv, NEW w \in Workspaces, NEW diskOK \in BOOLEAN, Decide(w, diskOK)
    PROVE  IInv'
<1> DEFINE kind == op[w].kind
           d == PlanStart(diskOK)
<1>1. PICK r \in Row : r = IF kind = "create" THEN op[w].row ELSE rows[w]
  BY Types
<1>2. PICK s \in Row, o \in Op, p \in Phases : s = rows[w] /\ o = op[w] /\ p = phase[w]
  BY Types
<1>3. Facts(o, s, p) /\ o.pc = "decide"
  BY <1>2, Types DEF Decide
<1>4. /\ KeepProvider /\ UNCHANGED drain
      /\ \/ /\ kind # "create" /\ privateInputsIncomplete(r)
            /\ faults' = faults
            /\ rows' = [rows EXCEPT ![w] = IF mayQuarantine(r) THEN quarantined(r) ELSE r]
            /\ Return(w)
         \/ /\ faults' = faults /\ Return(w) /\ UNCHANGED rows
         \/ /\ kind = "create" \/ ~privateInputsIncomplete(r)
            /\ validate(kind, r)
            /\ faults' = faults \/ Fault("disk")
            /\ op' = [op EXCEPT ![w].row = [r EXCEPT !.quota = d.quota,
                                  !.approved = @ \/ kind = "approve",
                                  !.state = IF d.admitted THEN "provisioning" ELSE "queued",
                                  !.code = IF d.admitted THEN "start_reserved" ELSE "other"],
                                ![w].pc = "commit"]
            /\ KeepGates /\ UNCHANGED rows
  BY <1>1 DEF Decide
<1>5. RowFacts(s, p) /\ faults \in 0..MaxFaults
  BY <1>3, Types DEF Facts, RestOK
<1>6. CASE /\ kind # "create" /\ privateInputsIncomplete(r)
           /\ faults' = faults
           /\ rows' = [rows EXCEPT ![w] = IF mayQuarantine(r) THEN quarantined(r) ELSE r]
           /\ Return(w)
  <2>1. r = s
    BY <1>1, <1>2, <1>6
  <2>2. PICK q \in Row : /\ RowFacts(q, p)
                         /\ q = IF mayQuarantine(r) THEN quarantined(r) ELSE r
    <3>1. CASE mayQuarantine(r) /\ Exists(r)
      <4>1. quarantined(r) \in Row /\ RowFacts(quarantined(r), p)
        BY <1>5, <1>6, <2>1, <3>1, QuarantineFacts
      <4>. QED BY <3>1, <4>1
    <3>2. CASE mayQuarantine(r) /\ ~Exists(r)
      <4>1. quarantined(r) \in Row
        BY StateNames, CodeNames, RowStateCode, Zenon DEF quarantined
      <4>2. quarantined(r).state = "failed" /\ p = "absent"
        BY <1>5, <2>1, <3>2 DEF quarantined, Row
      <4>. QED BY <3>2, <4>1, <4>2
    <3>3. CASE ~mayQuarantine(r)
      BY <1>5, <2>1, <3>3
    <3>. QED BY <3>1, <3>2, <3>3
  <2>3. rows' = [rows EXCEPT ![w] = q] /\ phase' = [phase EXCEPT ![w] = p]
    BY <1>2, <1>4, <1>6, <2>2, Unchanged DEF KeepProvider
  <2>4. limit' \in [Workspaces -> 0..Pool] /\ quotas' \in [Workspaces -> 0..Pool]
    BY <1>4, Types DEF KeepProvider, RestOK
  <2>. QED BY <1>4, <1>5, <1>6, <2>2, <2>3, <2>4, ReturnStep
<1>7. CASE faults' = faults /\ Return(w) /\ UNCHANGED rows
  BY <1>4, <1>5, <1>7, GiveUpStep
<1>8. CASE /\ kind = "create" \/ ~privateInputsIncomplete(r)
           /\ validate(kind, r)
           /\ faults' = faults \/ Fault("disk")
           /\ op' = [op EXCEPT ![w].row = [r EXCEPT !.quota = d.quota,
                                  !.approved = @ \/ kind = "approve",
                                  !.state = IF d.admitted THEN "provisioning" ELSE "queued",
                                  !.code = IF d.admitted THEN "start_reserved" ELSE "other"],
                               ![w].pc = "commit"]
           /\ KeepGates /\ UNCHANGED rows
  <2>1. PICK q \in 0..Pool, b \in BOOLEAN : q = d.quota /\ b = d.admitted
    BY PlanStartType
  <2>2. PICK st \in States, c \in Codes :
           /\ st = IF b THEN "provisioning" ELSE "queued"
           /\ c = IF b THEN "start_reserved" ELSE "other"
    BY StateNames, CodeNames, Zenon
  <2>3. PICK n \in Row : /\ n.state = st /\ n.code = c /\ n.inputs = r.inputs
                         /\ n = [r EXCEPT !.quota = q, !.approved = @ \/ kind = "approve",
                                          !.state = st, !.code = c]
    <3>1. PICK a \in BOOLEAN : a = (r.approved \/ kind = "approve")
      OBVIOUS
    <3>2. PICK n \in Row : n = [r EXCEPT !.quota = q, !.approved = a, !.state = st, !.code = c]
      BY RowReserved, Zenon
    <3>3. n.state = st /\ n.code = c /\ n.inputs = r.inputs
      BY <3>2, SMTT(60) DEF Row
    <3>. QED BY <3>1, <3>2, <3>3
  <2>4. PICK m \in Op : m = [o EXCEPT !.row = n, !.pc = "commit"]
    <3>1. "commit" \in PCs
      BY DEF PCs
    <3>. QED BY <3>1, OpMoved, Zenon
  <2>5. m.pc = "commit" /\ m.row = n /\ m.kind = o.kind
    BY <2>4 DEF Op
  <2>6. op' = [op EXCEPT ![w] = m]
    BY <1>2, <1>8, <2>1, <2>2, <2>3, <2>4
  <2>7. validate(o.kind, s) /\ (o.kind = "create" \/ ~n.inputs)
    BY <1>1, <1>2, <1>8, <2>3 DEF validate
  <2>8. n.state \in {"provisioning", "queued"} /\ n.code \in {"start_reserved", "other"}
    BY <2>2, <2>3
  <2>9. Facts(m, s, p)
    BY <1>3, <2>5, <2>7, <2>8, DecideFacts
  <2>10. RestOK'
    BY <1>4, <1>5, <1>8, Types, FaultType DEF RestOK, KeepGates, KeepProvider
  <2>11. UNCHANGED <<rows, phase>>
    BY <1>4, <1>8 DEF KeepProvider
  <2>. QED BY <1>2, <2>6, <2>9, <2>10, <2>11, KeepStep
<1>. QED BY <1>4, <1>6, <1>7, <1>8

LEMMA CommitStep ==
    ASSUME IInv, NEW w \in Workspaces, Commit(w)
    PROVE  IInv'
<1>1. PICK r \in Row, s \in Row, old \in Op, p \in Phases :
         r = old.row /\ s = rows[w] /\ old = op[w] /\ p = phase[w]
  BY Types
<1>2. Facts(old, s, p) /\ old.pc = "commit"
  BY <1>1, Types DEF Commit
<1>3. \/ Save(w, r, "inputs") /\ old.kind = "create" /\ r.inputs
      \/ /\ Save(w, r, "wait_runtime") /\ (old.kind # "create" \/ ~r.inputs)
         /\ r.state = "provisioning"
      \/ SaveAndReturn(w, r)
  BY <1>1 DEF Commit
<1>4. "inputs" \in PCs /\ "wait_runtime" \in PCs
  BY DEF PCs
<1>5. /\ p # "live" /\ (old.kind = "create" => p = "absent")
      /\ r.state \in {"provisioning", "queued"} /\ r.code \in {"start_reserved", "other"}
      /\ r.inputs => old.kind = "create"
      /\ old.kind \in StartKinds
  BY <1>1, <1>2 DEF Facts
<1>6. RowFacts(r, p)
  BY <1>5
<1>7. CASE Save(w, r, "inputs") /\ old.kind = "create" /\ r.inputs
  <2>1. ASSUME NEW o \in Op, NEW q \in Phases, q = phase[w], Moved(o, op[w], r, "inputs")
        PROVE  Facts(o, r, q)
    BY <1>1, <1>5, <1>6, <1>7, <2>1 DEF Facts, Moved
  <2>. QED BY <1>4, <1>7, <2>1, SaveStep, Zenon
<1>8. CASE /\ Save(w, r, "wait_runtime") /\ (old.kind # "create" \/ ~r.inputs)
           /\ r.state = "provisioning"
  <2>1. ASSUME NEW o \in Op, NEW q \in Phases, q = phase[w], Moved(o, op[w], r, "wait_runtime")
        PROVE  Facts(o, r, q)
    BY <1>1, <1>5, <1>6, <1>8, <2>1 DEF Facts, Moved
  <2>. QED BY <1>4, <1>8, <2>1, SaveStep, Zenon
<1>9. CASE SaveAndReturn(w, r)
  BY <1>1, <1>6, <1>9, SaveAndReturnStep
<1>. QED BY <1>3, <1>7, <1>8, <1>9

LEMMA PrepareInputsStep ==
    ASSUME IInv, NEW w \in Workspaces, PrepareInputs(w)
    PROVE  IInv'
<1>1. PICK r \in Row, s \in Row, old \in Op, p \in Phases :
         r = old.row /\ s = rows[w] /\ old = op[w] /\ p = phase[w]
  BY Types
<1>2. Facts(old, s, p) /\ old.pc = "inputs"
  BY <1>1, Types DEF PrepareInputs
<1>3. PICK n \in Row : n = [r EXCEPT !.inputs = FALSE]
  BY RowReady
<1>4. n.state = r.state /\ n.code = r.code /\ ~n.inputs
  BY <1>3 DEF Row
<1>5. \/ Save(w, n, "wait_runtime") /\ n.state = "provisioning"
      \/ SaveAndReturn(w, n)
      \/ /\ Fault("local") /\ Return(w) /\ KeepProvider /\ UNCHANGED drain
         /\ rows' = [rows EXCEPT ![w] = quarantined(r)]
  BY <1>1, <1>3 DEF PrepareInputs
<1>6. /\ p = "absent" /\ old.kind = "create" /\ r.inputs
      /\ r.state \in {"provisioning", "queued"} /\ r.code \in {"start_reserved", "other"}
  BY <1>1, <1>2 DEF Facts
<1>7. RowFacts(n, p) /\ RowFacts(r, p)
  BY <1>4, <1>6
<1>8. CASE Save(w, n, "wait_runtime") /\ n.state = "provisioning"
  <2>1. ASSUME NEW o \in Op, NEW q \in Phases, q = phase[w], Moved(o, op[w], n, "wait_runtime")
        PROVE  Facts(o, n, q)
    BY <1>1, <1>4, <1>6, <1>7, <1>8, <2>1 DEF Facts, Moved
  <2>2. "wait_runtime" \in PCs
    BY DEF PCs
  <2>. QED BY <1>8, <2>1, <2>2, SaveStep, Zenon
<1>9. CASE SaveAndReturn(w, n)
  BY <1>1, <1>7, <1>9, SaveAndReturnStep
<1>10. CASE /\ Fault("local") /\ Return(w) /\ KeepProvider /\ UNCHANGED drain
            /\ rows' = [rows EXCEPT ![w] = quarantined(r)]
  <2>1. PICK q \in Row : q = quarantined(r) /\ RowFacts(q, p)
    BY <1>6, <1>7, QuarantineFacts
  <2>2. rows' = [rows EXCEPT ![w] = q] /\ phase' = [phase EXCEPT ![w] = p]
    BY <1>1, <1>10, <2>1, Unchanged DEF KeepProvider
  <2>3. /\ limit' \in [Workspaces -> 0..Pool] /\ quotas' \in [Workspaces -> 0..Pool]
        /\ faults' \in 0..MaxFaults
    BY <1>10, Types, FaultType DEF KeepProvider, RestOK
  <2>. QED BY <1>10, <2>1, <2>2, <2>3, ReturnStep
<1>. QED BY <1>5, <1>8, <1>9, <1>10

-----------------------------------------------------------------------------
(* Rebalancing: an actor that changes nothing of the rows but quotas *)

LEMMA ActorTypes ==
    ASSUME IInv, NEW a \in Actors
    PROVE  /\ op[a] \in Op /\ RestOK
           /\ op[a].target \in 0..Pool /\ op[a].todo \subseteq Workspaces
BY DEF IInv, TypeOK, Op, RestOK

LEMMA RebalanceStep ==
    ASSUME IInv, NEW a \in Actors, NEW o \in Op,
           op' = [op EXCEPT ![a] = o], phase' = phase,
           rows' \in [Workspaces -> Row],
           \A v \in Workspaces : Close(rows[v], rows'[v]),
           RestOK',
           a \in Workspaces => Facts(o, rows[a], phase[a])
    PROVE  IInv'
<1>1. TypeOK'
  BY DEF IInv, TypeOK, RestOK
<1>2. ASSUME NEW v \in Workspaces
      PROVE  Facts(op'[v], rows'[v], phase'[v])
  <2>1. PICK n \in Op, r \in Row, s \in Row, p \in Phases :
           /\ n = op'[v] /\ r = rows[v] /\ s = rows'[v] /\ p = phase[v] /\ phase'[v] = p
    BY <1>1, Types DEF TypeOK, Actors
  <2>2. Close(r, s)
    BY <2>1
  <2>3. Facts(n, r, p)
    <3>1. CASE v = a
      <4>1. n = o
        BY <2>1, <3>1 DEF IInv, TypeOK
      <4>. QED BY <2>1, <3>1, <4>1
    <3>2. CASE v # a
      <4>1. n = op[v]
        BY <2>1, <3>2 DEF IInv, TypeOK
      <4>. QED BY <2>1, <4>1, Types
    <3>. QED BY <3>1, <3>2
  <2>. QED BY <2>1, <2>2, <2>3, Frame
<1>. QED BY <1>1, <1>2 DEF IInv, ControlInvariant

LEMMA SameRows ==
    ASSUME IInv
    PROVE  rows \in [Workspaces -> Row] /\ \A v \in Workspaces : Close(rows[v], rows[v])
BY DEF IInv, TypeOK

\* A quota written to one row leaves every row as good as it was.
LEMMA QuotaWritten ==
    ASSUME IInv, NEW v \in Workspaces \cup {None}, NEW q \in 0..Pool,
           rows' = [rows EXCEPT ![v].quota = q]
    PROVE  /\ rows' \in [Workspaces -> Row]
           /\ \A u \in Workspaces : Close(rows[u], rows'[u])
<1>1. rows \in [Workspaces -> Row]
  BY DEF IInv, TypeOK
<1>2. ASSUME NEW u \in Workspaces
      PROVE  rows'[u] \in Row /\ Close(rows[u], rows'[u])
  BY <1>1 DEF Row
<1>. QED BY <1>1, <1>2

\* While it rebalances an operation depends on the same facts all along.
LEMMA QuotaFacts ==
    ASSUME NEW old, NEW o, NEW r, NEW p, Facts(old, r, p), old.pc \in QuotaPCs,
           o.pc \in QuotaPCs, o.starting = old.starting, o.row = old.row, o.kind = old.kind
    PROVE  Facts(o, r, p)
BY DEF Facts

LEMMA ActorReturnStep ==
    ASSUME IInv, NEW a \in Actors, Return(a), rows' = rows, phase' = phase,
           limit' \in [Workspaces -> 0..Pool], quotas' \in [Workspaces -> 0..Pool],
           drain' = drain, faults' \in 0..MaxFaults
    PROVE  IInv'
<1>1. RestOK'
  BY ActorTypes, ReleaseType DEF RestOK, Return
<1>2. a \in Workspaces => Facts(NoOp, rows[a], phase[a])
  <2>. SUFFICES ASSUME a \in Workspaces
                PROVE  Facts(NoOp, rows[a], phase[a])
    OBVIOUS
  <2>1. RowFacts(rows[a], phase[a])
    BY Types DEF Facts
  <2>. QED BY <2>1, FactsAtRest, Zenon DEF NoOp
<1>3. op' = [op EXCEPT ![a] = NoOp]
  BY DEF Return
<1>. QED BY <1>1, <1>2, <1>3, NoOpType, SameRows, RebalanceStep

\* A step of a that stays within the rebalance, leaving o behind.
LEMMA QuotaStep ==
    ASSUME IInv, NEW a \in Actors, NEW o \in Op, op[a].pc \in QuotaPCs,
           op' = [op EXCEPT ![a] = o], phase' = phase,
           rows' \in [Workspaces -> Row],
           \A v \in Workspaces : Close(rows[v], rows'[v]),
           RestOK',
           o.pc \in QuotaPCs, o.starting = op[a].starting, o.row = op[a].row,
           o.kind = op[a].kind
    PROVE  IInv'
<1>1. a \in Workspaces => Facts(o, rows[a], phase[a])
  BY Types, QuotaFacts
<1>. QED BY <1>1, RebalanceStep

LEMMA ListConsumersStep ==
    ASSUME IInv, NEW a \in Actors, ListConsumers(a)
    PROVE  IInv'
<1> DEFINE n == Cardinality(consumers)
           peers == {w \in consumers : stableLiveProviderState(rows[w])
                                       /\ ~(op[a].starting /\ w = a)}
<1>1. /\ op[a].pc = "list" /\ KeepProvider /\ UNCHANGED <<rows, drain, faults>>
      /\ \/ /\ op' = [op EXCEPT ![a].pc = "quota",
                                ![a].target = IF n = 0 THEN 0 ELSE share(n),
                                ![a].todo = peers]
            /\ KeepGates
         \/ Return(a)
  BY DEF ListConsumers
<1>2. CASE /\ op' = [op EXCEPT ![a].pc = "quota",
                               ![a].target = IF n = 0 THEN 0 ELSE share(n),
                               ![a].todo = peers]
           /\ KeepGates
  <2>1. PICK t \in 0..Pool : t = IF n = 0 THEN 0 ELSE share(n)
    <3>1. n \in Nat
      BY FiniteConsumers
    <3>2. CASE n = 0
      BY <3>2, ConstantsAssumption
    <3>3. CASE n # 0
      BY <3>1, <3>3, ShareType
    <3>. QED BY <3>2, <3>3
  <2>2. PICK todo \in SUBSET Workspaces : todo = peers
    BY DEF consumers
  <2>3. PICK o \in Op : o = [op[a] EXCEPT !.pc = "quota", !.target = t, !.todo = todo]
    <3>1. "quota" \in PCs
      BY DEF PCs
    <3>. QED BY <3>1, ActorTypes DEF Op
  <2>4. /\ o.pc = "quota" /\ o.starting = op[a].starting /\ o.row = op[a].row
        /\ o.kind = op[a].kind
    BY <2>3, ActorTypes DEF Op
  <2>5. op' = [op EXCEPT ![a] = o]
    BY <1>2, <2>1, <2>2, <2>3
  <2>6. RestOK' /\ phase' = phase /\ rows' = rows
    BY <1>1, <1>2, ActorTypes DEF RestOK, KeepProvider, KeepGates
  <2>7. op[a].pc \in QuotaPCs /\ o.pc \in QuotaPCs
    BY <1>1, <2>4
  <2>. QED BY <2>4, <2>5, <2>6, <2>7, SameRows, QuotaStep
<1>3. CASE Return(a)
  BY <1>1, <1>3, ActorReturnStep, ActorTypes DEF KeepProvider, RestOK
<1>. QED BY <1>1, <1>2, <1>3

LEMMA RaiseQuotaStep ==
    ASSUME IInv, NEW a \in Actors, NEW w \in Workspaces, RaiseQuota(a, w)
    PROVE  IInv'
<1>1. PICK q \in 0..Pool : q = IF rows[w].quota > op[a].target THEN rows[w].quota
                                                               ELSE op[a].target
  BY Types, ActorTypes DEF Row
<1>2. rows' = [rows EXCEPT ![w].quota = q]
  BY <1>1 DEF RaiseQuota
<1>3. PICK o \in Op : o = [op[a] EXCEPT !.pc = "apply", !.todo = @ \ {w}, !.cur = w]
  <2>1. "apply" \in PCs
    BY DEF PCs
  <2>. QED BY <2>1, ActorTypes DEF Op
<1>4. /\ o.pc = "apply" /\ o.starting = op[a].starting /\ o.row = op[a].row
      /\ o.kind = op[a].kind
  BY <1>3, ActorTypes DEF Op
<1>5. op' = [op EXCEPT ![a] = o]
  BY <1>3 DEF RaiseQuota
<1>6. RestOK' /\ phase' = phase
  BY ActorTypes DEF RestOK, RaiseQuota, KeepProvider, KeepGates
<1>7. op[a].pc \in QuotaPCs /\ o.pc \in QuotaPCs
  BY <1>4 DEF RaiseQuota
<1>8. /\ rows' \in [Workspaces -> Row]
      /\ \A u \in Workspaces : Close(rows[u], rows'[u])
  BY <1>2, QuotaWritten
<1>. QED BY <1>4, <1>5, <1>6, <1>7, <1>8, QuotaStep

LEMMA ApplyQuotaStep ==
    ASSUME IInv, NEW a \in Actors, ApplyQuota(a)
    PROVE  IInv'
<1>1. op[a].pc = "apply" /\ UNCHANGED <<rows, phase, drain>>
  BY DEF ApplyQuota
<1>2. limit' \in [Workspaces -> 0..Pool] /\ quotas' \in [Workspaces -> 0..Pool]
  BY ActorTypes DEF ApplyQuota, RestOK
<1>3. CASE Goto(a, "shrink") /\ KeepGates /\ UNCHANGED faults
  <2>1. PICK o \in Op : o = [op[a] EXCEPT !.pc = "shrink"]
    <3>1. "shrink" \in PCs
      BY DEF PCs
    <3>. QED BY <3>1, ActorTypes DEF Op
  <2>2. /\ o.pc = "shrink" /\ o.starting = op[a].starting /\ o.row = op[a].row
        /\ o.kind = op[a].kind
    BY <2>1, ActorTypes DEF Op
  <2>3. op' = [op EXCEPT ![a] = o]
    BY <1>3, <2>1 DEF Goto
  <2>4. RestOK' /\ phase' = phase /\ rows' = rows
    BY <1>1, <1>2, <1>3, ActorTypes DEF RestOK, KeepGates
  <2>5. op[a].pc \in QuotaPCs /\ o.pc \in QuotaPCs
    BY <1>1, <2>2
  <2>. QED BY <2>2, <2>3, <2>4, <2>5, SameRows, QuotaStep
<1>4. CASE Fault("quota") /\ Return(a)
  BY <1>1, <1>2, <1>4, ActorTypes, FaultType, ActorReturnStep
<1>. QED BY <1>3, <1>4 DEF ApplyQuota

LEMMA ShrinkQuotaStep ==
    ASSUME IInv, NEW a \in Actors, ShrinkQuota(a)
    PROVE  IInv'
<1>1. PICK v \in Workspaces \cup {None}, q \in 0..Pool : v = op[a].cur /\ q = op[a].target
  BY ActorTypes DEF Op
<1>2. rows' = [rows EXCEPT ![v].quota = q]
  BY <1>1 DEF ShrinkQuota
<1>3. PICK o \in Op : o = [op[a] EXCEPT !.pc = "quota", !.cur = None]
  <2>1. "quota" \in PCs
    BY DEF PCs
  <2>. QED BY <2>1, ActorTypes DEF Op
<1>4. /\ o.pc = "quota" /\ o.starting = op[a].starting /\ o.row = op[a].row
      /\ o.kind = op[a].kind
  BY <1>3, ActorTypes DEF Op
<1>5. op' = [op EXCEPT ![a] = o]
  BY <1>3 DEF ShrinkQuota
<1>6. RestOK' /\ phase' = phase
  BY ActorTypes DEF RestOK, ShrinkQuota, KeepProvider, KeepGates
<1>7. op[a].pc \in QuotaPCs /\ o.pc \in QuotaPCs
  BY <1>4 DEF ShrinkQuota
<1>8. /\ rows' \in [Workspaces -> Row]
      /\ \A u \in Workspaces : Close(rows[u], rows'[u])
  BY <1>2, QuotaWritten
<1>. QED BY <1>4, <1>5, <1>6, <1>7, <1>8, QuotaStep

LEMMA FinishQuotaStep ==
    ASSUME IInv, NEW a \in Actors, FinishQuota(a)
    PROVE  IInv'
BY ActorReturnStep, ActorTypes DEF FinishQuota, GiveUp, KeepProvider, RestOK

LEMMA StoreErrorStep ==
    ASSUME IInv, NEW a \in Actors, StoreError(a)
    PROVE  IInv'
BY ActorReturnStep, ActorTypes, FaultType DEF StoreError, KeepProvider, RestOK

LEMMA ReconcileCapacityStep ==
    ASSUME IInv, ReconcileCapacity
    PROVE  IInv'
<1>1. Lifecycle \in Actors /\ Lifecycle \notin Workspaces /\ "list" \in PCs
  BY ConstantsAssumption, PCNames DEF Actors
<1>2. PICK o \in Op : o = [op[Lifecycle] EXCEPT !.pc = "list"]
  BY <1>1, ActorTypes DEF Op
<1>3. op' = [op EXCEPT ![Lifecycle] = o]
  BY <1>2 DEF ReconcileCapacity, Goto
<1>4. RestOK' /\ phase' = phase /\ rows' = rows
  BY <1>1, ActorTypes DEF RestOK, ReconcileCapacity, KeepProvider
<1>. QED BY <1>1, <1>3, <1>4, SameRows, RebalanceStep

LEMMA RowQuota ==
    ASSUME NEW r \in Row, NEW q \in 0..Pool
    PROVE  /\ [r EXCEPT !.quota = q] \in Row
           /\ Close(r, [r EXCEPT !.quota = q])
           /\ Close([r EXCEPT !.quota = q], r)
BY DEF Row

LEMMA OpFinished ==
    ASSUME NEW o \in Op, NEW r \in Row, NEW pc \in PCs, NEW t \in 0..Pool
    PROVE  [o EXCEPT !.row = r, !.starting = FALSE, !.target = t, !.pc = pc] \in Op
BY DEF Op

LEMMA FinishStartQuotaFacts ==
    ASSUME NEW old, NEW o, NEW r, NEW s, NEW p, Facts(old, r, p), old.pc = "quota",
           old.starting, o.kind = old.kind, Close(r, s), Close(o.row, old.row),
           o.pc = IF o.row.prov THEN "save_start_pending" ELSE "save_unconfirmed"
    PROVE  Facts(o, s, p)
BY DEF Facts

LEMMA FinishStartQuotaStep ==
    ASSUME IInv, NEW w \in Workspaces, FinishStartQuota(w)
    PROVE  IInv'
<1>1. PICK r \in Row, old \in Op, p \in Phases, t \in 0..Pool :
         r = rows[w] /\ old = op[w] /\ p = phase[w] /\ t = old.target
  BY Types DEF Op
<1>2. Facts(old, r, p) /\ old.pc = "quota" /\ old.starting /\ old.row \in Row
  BY <1>1, Types DEF FinishStartQuota
<1>3. PICK s \in Row : s = [r EXCEPT !.quota = t] /\ Close(r, s)
  BY RowQuota
<1>4. PICK n \in Row : n = [old.row EXCEPT !.quota = t] /\ Close(n, old.row)
  <2>1. PICK x \in Row : x = old.row
    BY <1>2
  <2>2. PICK n \in Row : n = [x EXCEPT !.quota = t] /\ Close(n, x)
    BY RowQuota
  <2>. QED BY <2>1, <2>2
<1>5. PICK pc \in PCs : pc = IF n.prov THEN "save_start_pending" ELSE "save_unconfirmed"
  BY DEF PCs
<1>6. PICK o \in Op : o = [old EXCEPT !.row = n, !.starting = FALSE, !.target = 0, !.pc = pc]
  <2>1. 0 \in 0..Pool
    BY ConstantsAssumption
  <2>. QED BY <2>1, OpFinished, Zenon
<1>7. o.kind = old.kind /\ o.row = n /\ o.pc = pc
  BY <1>6 DEF Op
<1>8. Facts(o, s, p)
  <2>1. o.pc = IF o.row.prov THEN "save_start_pending" ELSE "save_unconfirmed"
    BY <1>5, <1>7
  <2>2. Close(r, s) /\ Close(o.row, old.row)
    BY <1>3, <1>4, <1>7
  <2>. HIDE DEF Close
  <2>. QED BY <1>2, <1>7, <2>1, <2>2, FinishStartQuotaFacts
<1>9. /\ rows' = [rows EXCEPT ![w] = s] /\ op' = [op EXCEPT ![w] = o]
      /\ phase' = [phase EXCEPT ![w] = p]
  BY <1>1, <1>3, <1>4, <1>5, <1>6, Unchanged DEF FinishStartQuota, KeepProvider
<1>10. RestOK'
  BY Types DEF RestOK, FinishStartQuota, KeepGates, KeepProvider
<1>. QED BY <1>8, <1>9, <1>10, OwnStep, ZenonT(60)

-----------------------------------------------------------------------------
(* Provider calls *)

\* What becomes of operation old when it moves to pc and keeps its row.
LEMMA GotoOp ==
    ASSUME IInv, NEW w \in Workspaces, NEW pc \in PCs, Goto(w, pc)
    PROVE  \E o \in Op : op' = [op EXCEPT ![w] = o] /\ Moved(o, op[w], op[w].row, pc)
<1>1. PICK o \in Op : o = [op[w] EXCEPT !.pc = pc]
  BY Types, OpMoved, Zenon
<1>2. Moved(o, op[w], op[w].row, pc)
  BY <1>1, Types DEF Moved, Op
<1>. QED BY <1>1, <1>2 DEF Goto

LEMMA ProvisionStep ==
    ASSUME IInv, NEW w \in Workspaces, Provision(w)
    PROVE  IInv'
<1>1. PICK r \in Row, s \in Row, old \in Op, p \in Phases :
         r = old.row /\ s = rows[w] /\ old = op[w] /\ p = phase[w]
  BY Types
<1>2. Facts(old, s, p) /\ old.pc = "provision"
  BY <1>1, Types DEF Provision
<1>3. CASE privateInputsIncomplete(r)
  <2>1. RowFacts(r, p) /\ Exists(r)
    BY <1>1, <1>2 DEF Facts
  <2>2. PICK q \in Row : q = quarantined(r) /\ RowFacts(q, p)
    BY <1>3, <2>1, QuarantineFacts
  <2>3. rows' = [rows EXCEPT ![w] = q] /\ phase' = [phase EXCEPT ![w] = p] /\ Return(w)
    BY <1>1, <1>3, <2>2, Unchanged DEF Provision, KeepProvider
  <2>4. /\ limit' \in [Workspaces -> 0..Pool] /\ quotas' \in [Workspaces -> 0..Pool]
        /\ faults' \in 0..MaxFaults /\ drain' = drain
    BY Types DEF Provision, KeepProvider, RestOK
  <2>. QED BY <2>2, <2>3, <2>4, ReturnStep
<1>4. CASE ~privateInputsIncomplete(r)
  <2>1. PICK o \in Op : o = [old EXCEPT !.pc = "list", !.starting = TRUE]
    BY PCNames, OpMoved, NoRowType, Zenon
  <2>2. o.pc = "list" /\ o.starting /\ o.row = r /\ o.kind = old.kind
    BY <1>1, <2>1 DEF Op
  <2>3. Facts(o, s, p)
    BY <1>1, <1>2, <1>4, <2>2 DEF Facts
  <2>4. op' = [op EXCEPT ![w] = o] /\ UNCHANGED <<rows, phase>>
    BY <1>1, <1>4, <2>1 DEF Provision, KeepProvider
  <2>5. RestOK'
    BY <1>1, <1>4, Types DEF Provision, RestOK, KeepProvider, KeepGates
  <2>. QED BY <1>1, <2>3, <2>4, <2>5, KeepStep, Zenon
<1>. QED BY <1>3, <1>4

\* A call that may change the provider and moves the operation to pc.
LEMMA CallStep ==
    ASSUME IInv, NEW w \in Workspaces, NEW pc \in PCs, NEW p \in Phases,
           Goto(w, pc), phase' = [phase EXCEPT ![w] = p], rows' = rows,
           limit' \in [Workspaces -> 0..Pool], quotas' \in [Workspaces -> 0..Pool],
           KeepGates, drain' = drain, faults' \in 0..MaxFaults,
           ASSUME NEW o \in Op, Moved(o, op[w], op[w].row, pc)
           PROVE  Facts(o, rows[w], p)
    PROVE  IInv'
<1>1. PICK o \in Op : op' = [op EXCEPT ![w] = o] /\ Moved(o, op[w], op[w].row, pc)
  BY GotoOp
<1>2. Facts(o, rows[w], p)
  BY <1>1
<1>3. RestOK'
  BY Types DEF RestOK, KeepGates
<1>. QED BY <1>1, <1>2, <1>3, OpStep

\* A call after which the operation returns.
LEMMA CallReturnStep ==
    ASSUME IInv, NEW w \in Workspaces, NEW p \in Phases,
           Return(w), phase' = [phase EXCEPT ![w] = p], rows' = rows,
           limit' \in [Workspaces -> 0..Pool], quotas' \in [Workspaces -> 0..Pool],
           drain' = drain, faults' \in 0..MaxFaults, RowFacts(rows[w], p)
    PROVE  IInv'
<1>1. PICK r \in Row : r = rows[w]
  BY Types
<1>2. rows' = [rows EXCEPT ![w] = r]
  BY <1>1, Unchanged
<1>3. RowFacts(r, p)
  BY <1>1
<1>. HIDE DEF RowFacts
<1>. QED BY <1>2, <1>3, ReturnStep

LEMMA CallProvisionStep ==
    ASSUME IInv, NEW w \in Workspaces, CallProvision(w)
    PROVE  IInv'
<1>1. /\ op[w].pc = "call_provision" /\ UNCHANGED <<rows, quotas, drain>>
      /\ Facts(op[w], rows[w], phase[w]) /\ phase[w] \in Phases
  BY Types DEF CallProvision
<1>2. PICK p \in Phases :
         /\ phase' = [phase EXCEPT ![w] = p]
         /\ p = phase[w] \/ p = "live"
         /\ (Goto(w, "save_provisioned") /\ KeepGates) \/ Return(w)
  <2>1. phase = [phase EXCEPT ![w] = phase[w]]
    BY Unchanged
  <2>. QED BY <1>1, <2>1 DEF CallProvision
<1>3. /\ limit' \in [Workspaces -> 0..Pool] /\ quotas' \in [Workspaces -> 0..Pool]
  BY Types DEF CallProvision, RestOK, Row
<1>4. faults' \in 0..MaxFaults
  BY Types, FaultType DEF CallProvision, RestOK
<1>5. CASE Goto(w, "save_provisioned") /\ KeepGates
  <2>1. ASSUME NEW o \in Op, Moved(o, op[w], op[w].row, "save_provisioned")
        PROVE  Facts(o, rows[w], p)
    BY <1>1, <1>2, <2>1 DEF Facts, Moved
  <2>2. "save_provisioned" \in PCs
    BY DEF PCs
  <2>. QED BY <1>1, <1>2, <1>3, <1>4, <1>5, <2>1, <2>2, CallStep, Zenon
<1>6. CASE Return(w)
  <2>1. RowFacts(rows[w], p)
    BY <1>1, <1>2 DEF Facts
  <2>. HIDE DEF RowFacts
  <2>. QED BY <1>1, <1>2, <1>3, <1>4, <1>6, <2>1, CallReturnStep
<1>. QED BY <1>2, <1>5, <1>6

LEMMA CallStartStep ==
    ASSUME IInv, NEW w \in Workspaces, CallStart(w)
    PROVE  IInv'
<1>1. /\ op[w].pc = "call_start" /\ UNCHANGED <<rows, quotas, drain>> /\ KeepGates
      /\ Facts(op[w], rows[w], phase[w]) /\ phase[w] \in Phases
  BY Types DEF CallStart
<1> DEFINE failed == op' = [op EXCEPT ![w].pc = "save_cleanup",
                                      ![w].final = "start_cleanup_pending"]
<1>2. PICK p \in Phases :
         /\ phase' = [phase EXCEPT ![w] = p]
         /\ \/ p = "live" /\ Goto(w, "call_initialize")
            \/ p \in {"live", phase[w]} /\ failed
  <2>1. phase = [phase EXCEPT ![w] = phase[w]]
    BY Unchanged
  <2>2. \/ phase' = [phase EXCEPT ![w] = "live"] /\ Goto(w, "call_initialize")
        \/ phase' = [phase EXCEPT ![w] = "live"] /\ failed
        \/ phase' = [phase EXCEPT ![w] = phase[w]] /\ failed
    <3>1. phase[w] = "live" => phase = [phase EXCEPT ![w] = "live"]
      BY <2>1
    <3>. QED BY <2>1, <3>1 DEF CallStart
  <2>3. "live" \in Phases
    OBVIOUS
  <2>. HIDE DEF failed, Phases
  <2>. QED BY <1>1, <2>2, <2>3
<1>3. /\ limit' \in [Workspaces -> 0..Pool] /\ quotas' \in [Workspaces -> 0..Pool]
  BY Types DEF CallStart, RestOK, Row
<1>4. faults' \in 0..MaxFaults
  BY Types, FaultType DEF CallStart, RestOK
<1>5. CASE p = "live" /\ Goto(w, "call_initialize")
  <2>1. ASSUME NEW o \in Op, Moved(o, op[w], op[w].row, "call_initialize")
        PROVE  Facts(o, rows[w], p)
    BY <1>1, <1>5, <2>1 DEF Facts, Moved
  <2>2. "call_initialize" \in PCs
    BY DEF PCs
  <2>. QED BY <1>1, <1>2, <1>3, <1>4, <1>5, <2>1, <2>2, CallStep, Zenon
<1>6. CASE p \in {"live", phase[w]} /\ failed
  <2>1. PICK o \in Op : o = [op[w] EXCEPT !.pc = "save_cleanup",
                                          !.final = "start_cleanup_pending"]
    <3>1. "save_cleanup" \in PCs /\ "start_cleanup_pending" \in Codes
      BY CodeNames, Zenon DEF PCs
    <3>. QED BY <3>1, Types, OpMoved, Zenon
  <2>2. /\ o.pc = "save_cleanup" /\ o.final = "start_cleanup_pending"
        /\ o.row = op[w].row /\ o.kind = op[w].kind
    BY <2>1, Types DEF Op
  <2>3. Facts(o, rows[w], p)
    BY <1>1, <1>6, <2>2 DEF Facts
  <2>4. op' = [op EXCEPT ![w] = o]
    BY <1>6, <2>1
  <2>5. RestOK'
    BY <1>1, <1>3, <1>4, Types DEF RestOK, KeepGates
  <2>. QED BY <1>1, <1>2, <2>3, <2>4, <2>5, OpStep, Zenon
<1>. QED BY <1>2, <1>5, <1>6

LEMMA CallInitializeStep ==
    ASSUME IInv, NEW w \in Workspaces, CallInitialize(w)
    PROVE  IInv'
<1>1. /\ op[w].pc = "call_initialize" /\ UNCHANGED <<rows, drain>>
      /\ KeepGates /\ KeepProvider
      /\ Facts(op[w], rows[w], phase[w])
  BY Types DEF CallInitialize
<1>2. faults' \in 0..MaxFaults
  BY Types, FaultType DEF CallInitialize, RestOK
<1>3. RestOK' /\ UNCHANGED <<rows, phase>>
  BY <1>1, <1>2, Types DEF RestOK, KeepGates, KeepProvider
<1>4. PICK o \in Op :
         /\ op' = [op EXCEPT ![w] = o] /\ o.row = op[w].row /\ o.kind = op[w].kind
         /\ \/ o.pc \in {"setup_stop", "save_running"}
            \/ o.pc = "save_cleanup" /\ o.final = "initialize_cleanup_pending"
  <2>1. CASE \E pc \in {"setup_stop", "save_running"} : Goto(w, pc)
    <3>1. PICK pc \in PCs : pc \in {"setup_stop", "save_running"} /\ Goto(w, pc)
      BY <2>1 DEF PCs
    <3>. QED BY <3>1, GotoOp DEF Moved
  <2>2. CASE op' = [op EXCEPT ![w].pc = "save_cleanup",
                              ![w].final = "initialize_cleanup_pending"]
    <3>1. "save_cleanup" \in PCs /\ "initialize_cleanup_pending" \in Codes
      BY CodeNames, Zenon DEF PCs
    <3>2. PICK o \in Op : o = [op[w] EXCEPT !.pc = "save_cleanup",
                                            !.final = "initialize_cleanup_pending"]
      BY <3>1, Types, OpMoved, Zenon
    <3>3. /\ o.pc = "save_cleanup" /\ o.final = "initialize_cleanup_pending"
          /\ o.row = op[w].row /\ o.kind = op[w].kind
      BY <3>2, Types DEF Op
    <3>. QED BY <2>2, <3>2, <3>3, Zenon
  <2>. QED BY <2>1, <2>2 DEF CallInitialize
<1>5. Facts(o, rows[w], phase[w])
  BY <1>1, <1>4 DEF Facts
<1>. QED BY <1>3, <1>4, <1>5, KeepStep

\* What a stop, confirmed or not, leaves of the provider.
LEMMA StopPhases ==
    ASSUME IInv, NEW w \in Workspaces,
           phase' \in {phase, [phase EXCEPT ![w] = IF @ = "absent" THEN @ ELSE "stopped"]}
    PROVE  \E p \in Phases : /\ phase' = [phase EXCEPT ![w] = p]
                             /\ p = "live" => phase[w] = "live"
                             /\ p = "absent" <=> phase[w] = "absent"
<1>1. phase = [phase EXCEPT ![w] = phase[w]] /\ phase[w] \in Phases
  BY Unchanged, Types
<1>. QED BY <1>1

\* The stops whose failure ends the operation, and where a confirmed one leads.
StopNext(pc, next) ==
    \/ pc = "cleanup_stop" /\ next = "save_failed"
    \/ pc = "suspend_stop" /\ next = "save_suspended"
    \/ pc = "drain_stop" /\ next = "save_drained"

LEMMA StopFacts ==
    ASSUME NEW old, NEW o, NEW r, NEW p, NEW q, Facts(old, r, p),
           StopNext(old.pc, o.pc), o.row = old.row, o.kind = old.kind,
           q # "live", q = "absent" <=> p = "absent"
    PROVE  Facts(o, r, q)
BY DEF Facts, StopNext

LEMMA StopReturnFacts ==
    ASSUME NEW old, NEW r, NEW p, NEW q, NEW next, Facts(old, r, p),
           StopNext(old.pc, next),
           q = "live" => p = "live", q = "absent" <=> p = "absent"
    PROVE  RowFacts(r, q)
BY DEF Facts, StopNext

LEMMA StopStep ==
    ASSUME IInv, NEW w \in Workspaces, NEW next \in PCs, StopNext(op[w].pc, next),
           StopAndWait(w, next, Return(w))
    PROVE  IInv'
<1>1. Facts(op[w], rows[w], phase[w])
  BY Types
<1>2. CASE /\ phase' = [phase EXCEPT ![w] = IF @ = "absent" THEN @ ELSE "stopped"]
           /\ quotas' = [quotas EXCEPT ![w] = IF phase[w] = "absent" THEN 0 ELSE @]
           /\ Goto(w, next)
           /\ KeepGates /\ UNCHANGED <<rows, limit, drain, faults>>
  <2>1. PICK p \in Phases : /\ phase' = [phase EXCEPT ![w] = p] /\ p # "live"
                            /\ p = "absent" <=> phase[w] = "absent"
    BY <1>2, Types
  <2>2. /\ limit' \in [Workspaces -> 0..Pool] /\ quotas' \in [Workspaces -> 0..Pool]
        /\ faults' \in 0..MaxFaults
    BY <1>2, Types, ConstantsAssumption DEF RestOK
  <2>3. ASSUME NEW o \in Op, Moved(o, op[w], op[w].row, next)
        PROVE  Facts(o, rows[w], p)
    BY <1>1, <2>1, <2>3, StopFacts DEF Moved
  <2>. QED BY <1>2, <2>1, <2>2, <2>3, CallStep, ZenonT(60)
<1>3. CASE /\ Fault("provider")
           /\ phase' \in {phase, [phase EXCEPT ![w] = IF @ = "absent" THEN @ ELSE "stopped"]}
           /\ Return(w)
           /\ UNCHANGED <<rows, limit, quotas, drain>>
  <2>1. PICK p \in Phases : /\ phase' = [phase EXCEPT ![w] = p]
                            /\ p = "live" => phase[w] = "live"
                            /\ p = "absent" <=> phase[w] = "absent"
    BY <1>3, StopPhases
  <2>2. RowFacts(rows[w], p)
    BY <1>1, <2>1, StopReturnFacts
  <2>3. /\ limit' \in [Workspaces -> 0..Pool] /\ quotas' \in [Workspaces -> 0..Pool]
        /\ faults' \in 0..MaxFaults
    BY <1>3, Types, FaultType DEF RestOK
  <2>. HIDE DEF RowFacts
  <2>. QED BY <1>3, <2>1, <2>2, <2>3, CallReturnStep
<1>. QED BY <1>2, <1>3 DEF StopAndWait

LEMMA StopsStep ==
    ASSUME IInv, NEW w \in Workspaces, CleanupStop(w) \/ SuspendStop(w) \/ DrainStop(w)
    PROVE  IInv'
<1>1. {"save_failed", "save_suspended", "save_drained"} \subseteq PCs
  BY DEF PCs
<1>2. CASE CleanupStop(w)
  BY <1>1, <1>2, StopStep DEF CleanupStop, StopNext
<1>3. CASE SuspendStop(w)
  BY <1>1, <1>3, StopStep DEF SuspendStop, StopNext
<1>4. CASE DrainStop(w)
  BY <1>1, <1>4, StopStep DEF DrainStop, StopNext
<1>. QED BY <1>2, <1>3, <1>4

LEMMA SetupStopFacts ==
    ASSUME NEW old, NEW o, NEW r, NEW p, NEW q, Facts(old, r, p), old.pc = "setup_stop",
           o.row = old.row, o.kind = old.kind,
           q = "live" => p = "live", q = "absent" <=> p = "absent",
           o.pc = "save_setup_pending" \/ (o.pc = "save_awaiting" /\ q # "live")
    PROVE  Facts(o, r, q)
BY DEF Facts

LEMMA SetupStopStep ==
    ASSUME IInv, NEW w \in Workspaces, SetupStop(w)
    PROVE  IInv'
<1>1. op[w].pc = "setup_stop" /\ Facts(op[w], rows[w], phase[w])
  BY Types DEF SetupStop
<1>2. PICK pc \in {"save_awaiting", "save_setup_pending"}, p \in Phases :
         /\ phase' = [phase EXCEPT ![w] = p] /\ (p = "absent" <=> phase[w] = "absent")
         /\ p = "live" => phase[w] = "live"
         /\ pc = "save_awaiting" => p # "live"
         /\ Goto(w, pc)
  <2>1. CASE /\ phase' = [phase EXCEPT ![w] = IF @ = "absent" THEN @ ELSE "stopped"]
             /\ Goto(w, "save_awaiting")
    BY <2>1, Types
  <2>2. CASE /\ phase' \in {phase, [phase EXCEPT ![w] = IF @ = "absent" THEN @ ELSE "stopped"]}
             /\ Goto(w, "save_setup_pending")
    <3>1. PICK p \in Phases : /\ phase' = [phase EXCEPT ![w] = p]
                              /\ p = "live" => phase[w] = "live"
                              /\ p = "absent" <=> phase[w] = "absent"
      BY <2>2, StopPhases
    <3>. QED BY <2>2, <3>1
  <2>. QED BY <2>1, <2>2 DEF SetupStop, StopAndWait
<1>3. /\ limit' \in [Workspaces -> 0..Pool] /\ quotas' \in [Workspaces -> 0..Pool]
      /\ UNCHANGED <<rows, drain>> /\ KeepGates
  BY Types, ConstantsAssumption DEF SetupStop, StopAndWait, RestOK
<1>4. faults' \in 0..MaxFaults
  BY Types, FaultType DEF SetupStop, StopAndWait, RestOK
<1>5. ASSUME NEW o \in Op, Moved(o, op[w], op[w].row, pc)
      PROVE  Facts(o, rows[w], p)
  <2>1. o.pc = "save_setup_pending" \/ (o.pc = "save_awaiting" /\ p # "live")
    BY <1>2, <1>5 DEF Moved
  <2>2. o.row = op[w].row /\ o.kind = op[w].kind
    BY <1>5 DEF Moved
  <2>. QED BY <1>1, <1>2, <2>1, <2>2, SetupStopFacts
<1>6. pc \in PCs
  BY <1>2 DEF PCs
<1>. QED BY <1>2, <1>3, <1>4, <1>5, <1>6, CallStep, Zenon

\* The lookups, and where a found and an absent resource lead.
LookupNext(pc, found, absent) ==
    \/ pc = "lookup" /\ found = "save_found" /\ absent = "save_reserved"
    \/ pc = "delete_lookup" /\ found = "save_delete_found" /\ absent = "finalize"
    \/ pc = "drain_lookup" /\ found = "save_drain_found" /\ absent = "save_drained"

LEMMA LookupFacts ==
    ASSUME NEW old, NEW o, NEW r, NEW p, NEW found, NEW absent, Facts(old, r, p),
           LookupNext(old.pc, found, absent), o.row = old.row, o.kind = old.kind,
           o.pc = IF p = "absent" THEN absent ELSE found
    PROVE  Facts(o, r, p)
<1>1. CASE old.pc = "lookup"
  BY <1>1 DEF Facts, LookupNext
<1>2. CASE old.pc = "delete_lookup"
  BY <1>2 DEF Facts, LookupNext
<1>3. CASE old.pc = "drain_lookup"
  BY <1>3 DEF Facts, LookupNext
<1>. QED BY <1>1, <1>2, <1>3 DEF LookupNext

LEMMA LookupStep ==
    ASSUME IInv, NEW w \in Workspaces, NEW found \in PCs, NEW absent \in PCs,
           LookupNext(op[w].pc, found, absent), Lookup(w, found, absent)
    PROVE  IInv'
<1>1. Facts(op[w], rows[w], phase[w])
  BY Types
<1>2. CASE /\ Goto(w, IF phase[w] = "absent" THEN absent ELSE found)
           /\ KeepGates /\ KeepProvider /\ UNCHANGED <<rows, drain, faults>>
  <2>1. PICK pc \in PCs : pc = IF phase[w] = "absent" THEN absent ELSE found
    OBVIOUS
  <2>2. PICK o \in Op : op' = [op EXCEPT ![w] = o] /\ Moved(o, op[w], op[w].row, pc)
    BY <1>2, <2>1, GotoOp
  <2>3. Facts(o, rows[w], phase[w])
    BY <1>1, <2>1, <2>2, LookupFacts DEF Moved
  <2>4. RestOK' /\ UNCHANGED <<rows, phase>>
    BY <1>2, Types DEF RestOK, KeepGates, KeepProvider
  <2>. QED BY <2>2, <2>3, <2>4, KeepStep
<1>3. CASE Fault("provider") /\ Return(w) /\ KeepProvider /\ UNCHANGED <<rows, drain>>
  BY <1>3, Types, FaultType, GiveUpStep
<1>. QED BY <1>2, <1>3 DEF Lookup

LEMMA LookupsStep ==
    ASSUME IInv, NEW w \in Workspaces,
           ReconcileLookup(w) \/ DeleteLookup(w) \/ DrainLookup(w)
    PROVE  IInv'
<1>1. {"save_found", "save_reserved", "save_delete_found", "finalize",
       "save_drain_found", "save_drained"} \subseteq PCs
  BY DEF PCs
<1>2. CASE ReconcileLookup(w)
  BY <1>1, <1>2, LookupStep DEF ReconcileLookup, LookupNext
<1>3. CASE DeleteLookup(w)
  BY <1>1, <1>3, LookupStep DEF DeleteLookup, LookupNext
<1>4. CASE DrainLookup(w)
  BY <1>1, <1>4, LookupStep DEF DrainLookup, LookupNext
<1>. QED BY <1>2, <1>3, <1>4

-----------------------------------------------------------------------------
(* Choosing the next step from the private copy of the row *)

\* The operation goes on to pc with the copy it has.
LEMMA ContinueMoved ==
    ASSUME IInv, NEW w \in Workspaces, NEW pc \in PCs, Continue(w, pc),
           ASSUME NEW o \in Op, Moved(o, op[w], op[w].row, pc)
           PROVE  Facts(o, rows[w], phase[w])
    PROVE  IInv'
<1>1. PICK o \in Op : op' = [op EXCEPT ![w] = o] /\ Moved(o, op[w], op[w].row, pc)
  BY GotoOp DEF Continue
<1>2. Facts(o, rows[w], phase[w])
  BY <1>1
<1>3. RestOK' /\ UNCHANGED <<rows, phase>>
  BY Types DEF RestOK, Continue, KeepGates, KeepProvider
<1>. QED BY <1>1, <1>2, <1>3, KeepStep

LEMMA ReconcileFacts ==
    ASSUME NEW old, NEW o, NEW r, NEW p, Facts(old, r, p), old.pc = "reconcile",
           o.row = old.row, o.kind = old.kind,
           o.pc \in {"provision", "cleanup_stop", "setup_stop", "lookup"}
    PROVE  Facts(o, r, p)
BY DEF Facts

LEMMA ReconcileProvisioningStep ==
    ASSUME IInv, NEW w \in Workspaces, ReconcileProvisioning(w)
    PROVE  IInv'
<1>1. op[w].pc = "reconcile" /\ Facts(op[w], rows[w], phase[w])
  BY Types DEF ReconcileProvisioning
<1>2. CASE \E pc \in {"provision", "cleanup_stop", "setup_stop", "lookup"} : Continue(w, pc)
  <2>1. PICK pc \in PCs : /\ pc \in {"provision", "cleanup_stop", "setup_stop", "lookup"}
                          /\ Continue(w, pc)
    BY <1>2 DEF PCs
  <2>2. ASSUME NEW o \in Op, Moved(o, op[w], op[w].row, pc)
        PROVE  Facts(o, rows[w], phase[w])
    BY <1>1, <2>1, <2>2, ReconcileFacts DEF Moved
  <2>. QED BY <2>1, <2>2, ContinueMoved, Zenon
<1>3. CASE /\ op[w].row.code = "legacy" /\ op[w].row.prov
           /\ Save(w, [op[w].row EXCEPT !.code = "start_cleanup_pending"], "cleanup_stop")
  <2>1. PICK r \in Row : r = [op[w].row EXCEPT !.code = "start_cleanup_pending"]
    BY Types, RowCode, CodeNames, Zenon
  <2>2. Save(w, r, "cleanup_stop") /\ "cleanup_stop" \in PCs
    BY <1>3, <2>1 DEF PCs
  <2>3. /\ r.state = op[w].row.state /\ r.code = "start_cleanup_pending"
        /\ r.prov = op[w].row.prov /\ r.inputs = op[w].row.inputs
    BY <2>1, Types DEF Row
  <2>4. ASSUME NEW o \in Op, NEW p \in Phases, p = phase[w],
               Moved(o, op[w], r, "cleanup_stop")
        PROVE  Facts(o, r, p)
    BY <1>1, <1>3, <2>3, <2>4, ZenonT(60) DEF Facts, Moved
  <2>. QED BY <2>2, <2>4, SaveStep, Zenon
<1>. QED BY <1>2, <1>3 DEF ReconcileProvisioning

LEMMA StartSuspensionFacts ==
    ASSUME NEW old, NEW o, NEW r, NEW p, Facts(old, r, p), old.pc = "suspend",
           o.row = old.row, o.kind = old.kind,
           \/ o.pc = "suspend_stop" /\ old.row.state = "suspending"
           \/ o.pc = "save_suspending" /\ old.row.state \in LiveStates
    PROVE  Facts(o, r, p)
BY DEF Facts

LEMMA StartSuspensionStep ==
    ASSUME IInv, NEW w \in Workspaces, StartSuspension(w)
    PROVE  IInv'
<1>1. op[w].pc = "suspend" /\ Facts(op[w], rows[w], phase[w])
  BY Types DEF StartSuspension
<1>2. \/ \E pc \in {"suspend_stop", "save_suspending"} :
            /\ Continue(w, pc)
            /\ pc = "suspend_stop" => op[w].row.state = "suspending"
            /\ pc = "save_suspending" => op[w].row.state \in LiveStates
      \/ Fault("local") /\ Return(w) /\ KeepProvider /\ UNCHANGED <<rows, drain>>
      \/ GiveUp(w)
  BY DEF StartSuspension
<1>3. CASE \E pc \in {"suspend_stop", "save_suspending"} :
            /\ Continue(w, pc)
            /\ pc = "suspend_stop" => op[w].row.state = "suspending"
            /\ pc = "save_suspending" => op[w].row.state \in LiveStates
  <2>1. PICK pc \in PCs : /\ pc \in {"suspend_stop", "save_suspending"} /\ Continue(w, pc)
                          /\ pc = "suspend_stop" => op[w].row.state = "suspending"
                          /\ pc = "save_suspending" => op[w].row.state \in LiveStates
    BY <1>3 DEF PCs
  <2>2. ASSUME NEW o \in Op, Moved(o, op[w], op[w].row, pc)
        PROVE  Facts(o, rows[w], phase[w])
    BY <1>1, <2>1, <2>2, StartSuspensionFacts DEF Moved
  <2>. QED BY <2>1, <2>2, ContinueMoved, Zenon
<1>4. CASE Fault("local") /\ Return(w) /\ KeepProvider /\ UNCHANGED <<rows, drain>>
  BY <1>4, Types, FaultType, GiveUpStep
<1>5. CASE GiveUp(w)
  BY <1>5, Types, GiveUpStep DEF GiveUp, RestOK
<1>. QED BY <1>2, <1>3, <1>4, <1>5

LEMMA SaveSuspendingStep ==
    ASSUME IInv, NEW w \in Workspaces, SaveSuspending(w)
    PROVE  IInv'
<1>1. op[w].pc = "save_suspending" /\ Facts(op[w], rows[w], phase[w])
  BY Types DEF SaveSuspending
<1>2. PICK r \in Row : r = [op[w].row EXCEPT !.state = "suspending"]
  BY Types, RowState, StateNames
<1>3. /\ r.state = "suspending" /\ r.code = op[w].row.code
      /\ r.prov = op[w].row.prov /\ r.inputs = op[w].row.inputs
  BY <1>2, Types DEF Row
<1>4. Save(w, r, "suspend_stop") \/ GiveUp(w)
  BY <1>2 DEF SaveSuspending
<1>5. CASE Save(w, r, "suspend_stop")
  <2>1. ASSUME NEW o \in Op, NEW p \in Phases, p = phase[w],
               Moved(o, op[w], r, "suspend_stop")
        PROVE  Facts(o, r, p)
    BY <1>1, <1>3, <2>1 DEF Facts, Moved
  <2>2. "suspend_stop" \in PCs
    BY DEF PCs
  <2>. QED BY <1>5, <2>1, <2>2, SaveStep, Zenon
<1>6. CASE GiveUp(w)
  BY <1>6, Types, GiveUpStep DEF GiveUp, RestOK
<1>. QED BY <1>4, <1>5, <1>6

LEMMA SaveDeletingStep ==
    ASSUME IInv, NEW w \in Workspaces, SaveDeleting(w)
    PROVE  IInv'
<1>1. op[w].pc = "delete" /\ Facts(op[w], rows[w], phase[w])
  BY Types DEF SaveDeleting
<1>2. PICK r \in Row : r = [op[w].row EXCEPT !.state = "deleting"]
  BY Types, RowState, StateNames
<1>3. /\ r.state = "deleting" /\ r.code = op[w].row.code
      /\ r.prov = op[w].row.prov /\ r.inputs = op[w].row.inputs
  BY <1>2, Types DEF Row
<1>4. PICK pc \in PCs : /\ pc \in {"call_delete", "delete_lookup"}
                        /\ pc = IF op[w].row.prov THEN "call_delete" ELSE "delete_lookup"
  BY DEF PCs
<1>5. \/ op[w].row.state = "deleting" /\ Continue(w, pc)
      \/ Save(w, r, pc)
      \/ Fault("local") /\ Return(w) /\ KeepProvider /\ UNCHANGED <<rows, drain>>
  BY <1>2, <1>4 DEF SaveDeleting
<1>6. CASE op[w].row.state = "deleting" /\ Continue(w, pc)
  <2>1. ASSUME NEW o \in Op, Moved(o, op[w], op[w].row, pc)
        PROVE  Facts(o, rows[w], phase[w])
    BY <1>1, <1>4, <1>6, <2>1 DEF Facts, Moved
  <2>. QED BY <1>6, <2>1, ContinueMoved, Zenon
<1>7. CASE Save(w, r, pc)
  <2>1. ASSUME NEW o \in Op, NEW p \in Phases, p = phase[w], Moved(o, op[w], r, pc)
        PROVE  Facts(o, r, p)
    BY <1>1, <1>3, <1>4, <2>1 DEF Facts, Moved
  <2>. QED BY <1>7, <2>1, SaveStep, Zenon
<1>8. CASE Fault("local") /\ Return(w) /\ KeepProvider /\ UNCHANGED <<rows, drain>>
  BY <1>8, Types, FaultType, GiveUpStep
<1>. QED BY <1>5, <1>6, <1>7, <1>8

LEMMA CallDeleteStep ==
    ASSUME IInv, NEW w \in Workspaces, CallDelete(w)
    PROVE  IInv'
<1>1. /\ op[w].pc = "call_delete" /\ UNCHANGED <<rows, limit, drain>>
      /\ Facts(op[w], rows[w], phase[w])
  BY Types DEF CallDelete
<1>2. PICK p \in Phases :
         /\ phase' = [phase EXCEPT ![w] = p]
         /\ \/ p = "absent" /\ Goto(w, "finalize") /\ KeepGates
            \/ p \in {"absent", phase[w]} /\ Return(w)
  <2>1. phase = [phase EXCEPT ![w] = phase[w]] /\ phase[w] \in Phases
    BY Unchanged, Types
  <2>. QED BY <2>1 DEF CallDelete
<1>3. limit' \in [Workspaces -> 0..Pool] /\ quotas' \in [Workspaces -> 0..Pool]
  BY Types, ConstantsAssumption DEF CallDelete, RestOK
<1>4. faults' \in 0..MaxFaults
  BY Types, FaultType DEF CallDelete, RestOK
<1>5. CASE p = "absent" /\ Goto(w, "finalize") /\ KeepGates
  <2>1. ASSUME NEW o \in Op, Moved(o, op[w], op[w].row, "finalize")
        PROVE  Facts(o, rows[w], p)
    BY <1>1, <1>5, <2>1 DEF Facts, Moved
  <2>2. "finalize" \in PCs
    BY DEF PCs
  <2>. QED BY <1>1, <1>2, <1>3, <1>4, <1>5, <2>1, <2>2, CallStep, Zenon
<1>6. CASE p \in {"absent", phase[w]} /\ Return(w)
  <2>1. RowFacts(rows[w], p)
    BY <1>1, <1>6 DEF Facts
  <2>. HIDE DEF RowFacts
  <2>. QED BY <1>1, <1>2, <1>3, <1>4, <1>6, <2>1, CallReturnStep
<1>. QED BY <1>2, <1>5, <1>6

LEMMA DrainWorkspaceStep ==
    ASSUME IInv, NEW w \in Workspaces, DrainWorkspace(w)
    PROVE  IInv'
<1>1. PICK r \in Row, s \in Row, old \in Op, p \in Phases :
         r = old.row /\ s = rows[w] /\ old = op[w] /\ p = phase[w]
  BY Types
<1>2. Facts(old, s, p) /\ old.pc = "drain"
  BY <1>1, Types DEF DrainWorkspace
<1>3. \/ privateInputsIncomplete(r) /\ mayQuarantine(r) /\ SaveAndReturn(w, quarantined(r))
      \/ GiveUp(w)
      \/ /\ r.state = "provisioning"
         /\ \E pc \in {"drain_stop", "drain_lookup"} : Continue(w, pc)
  BY <1>1 DEF DrainWorkspace
<1>4. CASE privateInputsIncomplete(r) /\ mayQuarantine(r) /\ SaveAndReturn(w, quarantined(r))
  <2>1. p = "absent"
    BY <1>1, <1>2, <1>4 DEF Facts
  <2>2. PICK q \in Row : q = quarantined(r)
    BY StateNames, CodeNames, RowStateCode, Zenon DEF quarantined
  <2>3. q.state = "failed"
    BY <2>2 DEF quarantined, Row
  <2>4. RowFacts(q, p)
    BY <2>1, <2>3
  <2>. QED BY <1>1, <1>4, <2>2, <2>4, SaveAndReturnStep
<1>5. CASE GiveUp(w)
  BY <1>5, Types, GiveUpStep DEF GiveUp, RestOK
<1>6. CASE r.state = "provisioning" /\ \E pc \in {"drain_stop", "drain_lookup"} : Continue(w, pc)
  <2>1. PICK pc \in PCs : pc \in {"drain_stop", "drain_lookup"} /\ Continue(w, pc)
    BY <1>6 DEF PCs
  <2>2. ASSUME NEW o \in Op, Moved(o, op[w], op[w].row, pc)
        PROVE  Facts(o, rows[w], phase[w])
    BY <1>1, <1>2, <1>6, <2>1, <2>2 DEF Facts, Moved
  <2>. QED BY <2>1, <2>2, ContinueMoved, Zenon
<1>. QED BY <1>3, <1>4, <1>5, <1>6

-----------------------------------------------------------------------------
(* Steps that belong to no operation *)

\* The rows move within Close and nothing else of a workspace changes.
LEMMA QuietStep ==
    ASSUME IInv, op' = op, phase' = phase, rows' \in [Workspaces -> Row],
           \A v \in Workspaces : Close(rows[v], rows'[v]), RestOK'
    PROVE  IInv'
<1>1. PICK o \in Op : o = op[Lifecycle]
  BY ActorTypes DEF Actors
<1>2. op' = [op EXCEPT ![Lifecycle] = o]
  BY <1>1 DEF IInv, TypeOK
<1>3. Lifecycle \in Actors /\ Lifecycle \notin Workspaces
  BY ConstantsAssumption DEF Actors
<1>. HIDE DEF Close
<1>. QED BY <1>2, <1>3, RebalanceStep

LEMMA FlipStep ==
    ASSUME IInv, NEW w \in Workspaces, TouchActivity(w) \/ MarkIdleIfInactive(w)
    PROVE  IInv'
<1>1. PICK st \in LiveStates : rows' = [rows EXCEPT ![w].state = st]
  BY DEF TouchActivity, MarkIdleIfInactive
<1>2. rows[w].state \in LiveStates
  BY DEF TouchActivity, MarkIdleIfInactive
<1>3. rows \in [Workspaces -> Row] /\ st \in States
  BY <1>1, StateNames DEF IInv, TypeOK
<1>4. ASSUME NEW u \in Workspaces
      PROVE  rows'[u] \in Row /\ Close(rows[u], rows'[u])
  BY <1>1, <1>2, <1>3 DEF Row
<1>5. rows' \in [Workspaces -> Row]
  BY <1>1, <1>3, <1>4
<1>6. RestOK' /\ op' = op /\ phase' = phase
  BY Types DEF TouchActivity, MarkIdleIfInactive, RestOK, KeepGates, KeepProvider
<1>7. \A u \in Workspaces : Close(rows[u], rows'[u])
  BY <1>4
<1>. HIDE DEF Close
<1>. QED BY <1>5, <1>6, <1>7, QuietStep

LEMMA RestTypes ==
    ASSUME IInv
    PROVE  RestOK
BY DEF IInv, TypeOK, RestOK

LEMMA MaintenanceStep ==
    ASSUME IInv, SetMaintenanceDrain \/ BeginMaintenanceDrain
    PROVE  IInv'
<1>1. RestOK' /\ op' = op /\ phase' = phase /\ rows' = rows
  BY RestTypes DEF SetMaintenanceDrain, BeginMaintenanceDrain, RestOK, KeepGates, KeepProvider
<1>. QED BY <1>1, SameRows, QuietStep

LEMMA CrashStep ==
    ASSUME IInv, Crash
    PROVE  IInv'
<1>1. TypeOK'
  BY NoOpType, RestTypes, FaultType, ConstantsAssumption DEF Crash, IInv, TypeOK, RestOK
<1>2. ASSUME NEW w \in Workspaces
      PROVE  Facts(op'[w], rows'[w], phase'[w])
  <2>1. op'[w] = NoOp /\ rows'[w] = rows[w] /\ phase'[w] = phase[w]
    BY DEF Crash, Actors
  <2>2. RowFacts(rows[w], phase[w])
    BY Types DEF Facts
  <2>3. NoOp.pc = "idle"
    BY DEF NoOp
  <2>. QED BY <2>1, <2>2, <2>3, FactsAtRest
<1>. QED BY <1>1, <1>2 DEF IInv, ControlInvariant

LEMMA StutterStep ==
    ASSUME IInv, UNCHANGED vars
    PROVE  IInv'
<1>1. RestOK' /\ op' = op /\ phase' = phase /\ rows' = rows
  BY RestTypes DEF vars, RestOK
<1>. QED BY <1>1, SameRows, QuietStep

-----------------------------------------------------------------------------
(* The inductive invariant *)

LEMMA StepStep ==
    ASSUME IInv, NEW w \in Workspaces, Step(w)
    PROVE  IInv'
<1>1. w \in Actors
  BY DEF Actors
<1>2. CASE SaveDenied(w) \/ acquireAdmission(w) \/ acquireRuntime(w)
  BY <1>2, SaveDeniedStep, acquireAdmissionStep, acquireRuntimeStep
<1>3. CASE Decide(w, TRUE) \/ Commit(w) \/ PrepareInputs(w)
  BY <1>3, DecideStep, CommitStep, PrepareInputsStep
<1>4. CASE \/ ListConsumers(w) \/ (\E v \in Workspaces : RaiseQuota(w, v)) \/ ApplyQuota(w)
           \/ ShrinkQuota(w) \/ FinishQuota(w) \/ FinishStartQuota(w)
  BY <1>1, <1>4, ListConsumersStep, RaiseQuotaStep, ApplyQuotaStep, ShrinkQuotaStep,
     FinishQuotaStep, FinishStartQuotaStep
<1>5. CASE \/ Provision(w) \/ SaveUnconfirmed(w) \/ CallProvision(w) \/ SaveProvisioned(w)
           \/ markProviderStartPending(w) \/ CallStart(w) \/ CallInitialize(w)
  BY <1>5, ProvisionStep, SaveUnconfirmedStep, CallProvisionStep, SaveProvisionedStep,
     markProviderStartPendingStep, CallStartStep, CallInitializeStep
<1>6. CASE SaveRunning(w) \/ SetupStop(w) \/ SaveSetupPending(w) \/ SaveAwaiting(w)
  BY <1>6, SaveRunningStep, SetupStopStep, SaveSetupPendingStep, SaveAwaitingStep
<1>7. CASE SaveCleanup(w) \/ CleanupStop(w) \/ SaveFailed(w)
  BY <1>7, SaveCleanupStep, StopsStep, SaveFailedStep
<1>8. CASE \/ ReconcileProvisioning(w) \/ ReconcileLookup(w) \/ SaveFound(w)
           \/ SaveReserved(w)
  BY <1>8, ReconcileProvisioningStep, LookupsStep, SaveFoundStep, SaveReservedStep
<1>9. CASE StartSuspension(w) \/ SaveSuspending(w) \/ SuspendStop(w) \/ SaveSuspended(w)
  BY <1>9, StartSuspensionStep, SaveSuspendingStep, StopsStep, SaveSuspendedStep
<1>10. CASE \/ SaveDeleting(w) \/ DeleteLookup(w) \/ SaveDeleteFound(w) \/ CallDelete(w)
            \/ FinalizeDelete(w)
  BY <1>10, SaveDeletingStep, LookupsStep, SaveDeleteFoundStep, CallDeleteStep,
     FinalizeDeleteStep
<1>11. CASE \/ DrainWorkspace(w) \/ DrainLookup(w) \/ SaveDrainFound(w) \/ DrainStop(w)
            \/ persistMaintenanceDrainResult(w)
  BY <1>11, DrainWorkspaceStep, LookupsStep, SaveDrainFoundStep, StopsStep,
     persistMaintenanceDrainResultStep
<1>. QED BY <1>2, <1>3, <1>4, <1>5, <1>6, <1>7, <1>8, <1>9, <1>10, <1>11 DEF Step

LEMMA RequestStep ==
    ASSUME IInv, NEW w \in Workspaces, Request(w)
    PROVE  IInv'
BY CreateStep, BeginningsStep, RetryQuarantineStep, FlipStep DEF Request

LEMMA LifecycleStepStep ==
    ASSUME IInv, LifecycleStep
    PROVE  IInv'
<1>1. Lifecycle \in Actors
  BY DEF Actors
<1>. QED BY <1>1, ReconcileCapacityStep, ListConsumersStep, RaiseQuotaStep, ApplyQuotaStep,
            ShrinkQuotaStep, FinishQuotaStep DEF LifecycleStep

LEMMA NextStep ==
    ASSUME IInv, [Next]_vars
    PROVE  IInv'
<1>1. CASE \E w \in Workspaces : Request(w) \/ Step(w) \/ Decide(w, FALSE)
  BY <1>1, RequestStep, StepStep, DecideStep
<1>2. CASE LifecycleStep
  BY <1>2, LifecycleStepStep
<1>3. CASE SetMaintenanceDrain \/ BeginMaintenanceDrain
  BY <1>3, MaintenanceStep
<1>4. CASE \E a \in Actors : StoreError(a)
  BY <1>4, StoreErrorStep
<1>5. CASE Crash
  BY <1>5, CrashStep
<1>6. CASE UNCHANGED vars
  BY <1>6, StutterStep
<1>. QED BY <1>1, <1>2, <1>3, <1>4, <1>5, <1>6 DEF Next

LEMMA LegacyRowType ==
    ASSUME NEW prov \in BOOLEAN
    PROVE  LegacyRow(prov) \in Row
<1>1. "provisioning" \in States /\ "legacy" \in Codes
  BY DEF States, Codes
<1>2. \A r \in Row, st \in States, c \in Codes :
         [r EXCEPT !.state = st, !.code = c, !.prov = prov] \in Row
  BY DEF Row
<1>. QED BY <1>1, <1>2, NoRowType, Zenon DEF LegacyRow

LEMMA InitIInv ==
    ASSUME Init
    PROVE  IInv
<1>1. 0 \in 0..Pool /\ Pool \in 0..Pool /\ MaxFaults \in 0..MaxFaults
  BY ConstantsAssumption
<1>2. /\ rows \in [Workspaces -> Row] /\ phase \in [Workspaces -> Phases]
      /\ limit \in [Workspaces -> 0..Pool]
      /\ \A w \in Workspaces : RowFacts(rows[w], phase[w])
  <2>1. CASE /\ rows = [w \in Workspaces |-> NoRow]
             /\ phase = [w \in Workspaces |-> "absent"]
             /\ limit = [w \in Workspaces |-> 0]
    <3>1. RowFacts(NoRow, "absent")
      BY DEF NoRow
    <3>. QED BY <1>1, <2>1, <3>1, NoRowType
  <2>2. CASE \E w \in Workspaces, prov \in BOOLEAN, q \in {0, Pool},
                p \in {"absent", "stopped", "live"} :
               /\ prov => p # "absent"
               /\ p = "absent" <=> q = 0
               /\ rows = [v \in Workspaces |-> IF v = w THEN LegacyRow(prov) ELSE NoRow]
               /\ phase = [v \in Workspaces |-> IF v = w THEN p ELSE "absent"]
               /\ limit = [v \in Workspaces |-> IF v = w THEN q ELSE 0]
    <3>1. PICK w \in Workspaces, prov \in BOOLEAN, q \in 0..Pool, p \in Phases :
               /\ rows = [v \in Workspaces |-> IF v = w THEN LegacyRow(prov) ELSE NoRow]
               /\ phase = [v \in Workspaces |-> IF v = w THEN p ELSE "absent"]
               /\ limit = [v \in Workspaces |-> IF v = w THEN q ELSE 0]
      BY <1>1, <2>2
    <3>2. RowFacts(NoRow, "absent") /\ RowFacts(LegacyRow(prov), p)
      BY DEF NoRow, LegacyRow
    <3>. HIDE DEF RowFacts
    <3>. QED BY <1>1, <3>1, <3>2, NoRowType, LegacyRowType
  <2>. QED BY <2>1, <2>2 DEF Init
<1>3. TypeOK
  BY <1>1, <1>2, NoOpType DEF Init, TypeOK
<1>4. ASSUME NEW w \in Workspaces
      PROVE  Facts(op[w], rows[w], phase[w])
  <2>1. op[w] = NoOp
    BY DEF Init, Actors
  <2>2. NoOp.pc = "idle"
    BY DEF NoOp
  <2>. QED BY <1>2, <2>1, <2>2, FactsAtRest
<1>. QED BY <1>3, <1>4 DEF IInv, ControlInvariant

LEMMA Invariance == Spec => []IInv
BY InitIInv, NextStep, PTL DEF Spec

-----------------------------------------------------------------------------
(* Theorems *)

\* Every variable of the service, the store and the provider keeps its shape
\* whatever operations, failures and crashes interleave.
THEOREM TypeCorrect == Spec => []TypeOK
<1>1. IInv => TypeOK
  BY DEF IInv
<1>. QED BY <1>1, Invariance, PTL

\* Wherever any operation of the service is, the durable row and the provider
\* are what that point of service.go relies on.
THEOREM ControlPoints == Spec => []ControlInvariant
<1>1. IInv => ControlInvariant
  BY DEF IInv
<1>. QED BY <1>1, Invariance, PTL

\* A provider that may be live is covered by a counted row that does not claim
\* that no start was attempted (definitelyStoppedStartReservation).
THEOREM Accounting == Spec => []LiveProviderIsAccounted
<1>1. IInv => LiveProviderIsAccounted
  BY DEF IInv, ControlInvariant, Facts, LiveProviderIsAccounted
<1>. QED BY <1>1, Invariance, PTL

\* A workspace shown as running or idle has a live provider: the order of row
\* and provider changes in suspend, delete and cleanup is right.
THEOREM LiveRows == Spec => []LiveRowHasProvider
<1>1. IInv => LiveRowHasProvider
  BY DEF IInv, ControlInvariant, Facts, LiveRowHasProvider
<1>. QED BY <1>1, Invariance, PTL

\* FinalizeDelete leaves nothing at the provider, even after a lost create
\* answer.
THEOREM NoOrphans == Spec => []NoOrphanedProvider
<1>1. IInv => NoOrphanedProvider
  BY DEF IInv, ControlInvariant, Facts, NoOrphanedProvider
<1>. QED BY <1>1, Invariance, PTL

\* No provider exists for a workspace whose private inputs may be partial.
THEOREM DurableInputs == Spec => []InputsDurableBeforeProvider
<1>1. IInv => InputsDurableBeforeProvider
  BY DEF IInv, ControlInvariant, Facts, InputsDurableBeforeProvider
<1>. QED BY <1>1, Invariance, PTL

-----------------------------------------------------------------------------
(* A tombstone is final *)

Kept(v) == rows[v].state = "deleting" => rows'[v].state \in {"deleting", "gone"}

\* Writing one row keeps every tombstone if that row was none.
LEMMA WriteKeeps ==
    ASSUME IInv, NEW w \in Workspaces, NEW r, NEW v \in Workspaces,
           rows' = [rows EXCEPT ![w] = r],
           rows[w].state = "deleting" => r.state \in {"deleting", "gone"}
    PROVE  Kept(v)
BY DEF IInv, TypeOK, Kept

LEMMA QuotaKeeps ==
    ASSUME IInv, NEW u \in Workspaces \cup {None}, NEW q, NEW v \in Workspaces,
           rows' = [rows EXCEPT ![u].quota = q]
    PROVE  Kept(v)
BY DEF IInv, TypeOK, Row, Kept

\* Where a full-row Save is pending outside Delete the row is no tombstone.
WritePCs == {"save_denied", "commit", "inputs", "provision", "save_unconfirmed",
             "save_provisioned", "save_start_pending", "save_running", "save_setup_pending",
             "save_awaiting", "save_cleanup", "save_failed", "reconcile", "save_found",
             "save_reserved", "save_suspending", "save_suspended", "save_drain_found",
             "save_drained"}

LEMMA NoTombstone ==
    ASSUME NEW o, NEW r, NEW p, Facts(o, r, p), o.pc \in WritePCs
    PROVE  r.state # "deleting"
BY DEF Facts, WritePCs

LEMMA PendingWriteKeeps ==
    ASSUME IInv, NEW w \in Workspaces, NEW v \in Workspaces, op[w].pc \in WritePCs,
           rows' = rows \/ \E r : rows' = [rows EXCEPT ![w] = r]
    PROVE  Kept(v)
<1>1. rows[w].state # "deleting"
  BY Types, NoTombstone
<1>2. CASE rows' = rows
  BY <1>2 DEF Kept
<1>3. CASE \E r : rows' = [rows EXCEPT ![w] = r]
  BY <1>1, <1>3, WriteKeeps
<1>. QED BY <1>2, <1>3

LEMMA DecideKeeps ==
    ASSUME IInv, NEW w \in Workspaces, NEW v \in Workspaces, NEW diskOK \in BOOLEAN,
           Decide(w, diskOK)
    PROVE  Kept(v)
<1>1. CASE rows' = rows
  BY <1>1 DEF Kept
<1>2. CASE rows' = [rows EXCEPT ![w] = IF mayQuarantine(rows[w]) THEN quarantined(rows[w])
                                                               ELSE rows[w]]
  <2>1. CASE mayQuarantine(rows[w])
    BY <1>2, <2>1, WriteKeeps DEF mayQuarantine
  <2>2. CASE ~mayQuarantine(rows[w])
    BY <1>2, <2>2 DEF IInv, TypeOK, Kept
  <2>. QED BY <2>1, <2>2
<1>. QED BY <1>1, <1>2 DEF Decide

LEMMA StepKeeps ==
    ASSUME IInv, NEW w \in Workspaces, NEW v \in Workspaces, Step(w)
    PROVE  Kept(v)
<1>1. CASE \/ acquireAdmission(w) \/ acquireRuntime(w) \/ ListConsumers(w) \/ ApplyQuota(w)
           \/ FinishQuota(w) \/ CallProvision(w) \/ CallStart(w) \/ CallInitialize(w)
           \/ SetupStop(w) \/ CleanupStop(w) \/ SuspendStop(w) \/ DrainStop(w)
           \/ ReconcileLookup(w) \/ DeleteLookup(w) \/ DrainLookup(w)
           \/ StartSuspension(w) \/ CallDelete(w)
  <2>1. rows' = rows
    BY <1>1 DEF acquireAdmission, acquireRuntime, ListConsumers, ApplyQuota, FinishQuota,
                CallProvision, CallStart, CallInitialize, SetupStop, CleanupStop, SuspendStop,
                DrainStop, ReconcileLookup, DeleteLookup, DrainLookup, StartSuspension,
                CallDelete, StopAndWait, Lookup, GiveUp, Continue
  <2>. QED BY <2>1 DEF Kept
<1>2. CASE (\E u \in Workspaces : RaiseQuota(w, u)) \/ ShrinkQuota(w) \/ FinishStartQuota(w)
  <2>1. \E q : \E u \in Workspaces \cup {None} : rows' = [rows EXCEPT ![u].quota = q]
    <3>1. op[w].cur \in Workspaces \cup {None}
      BY Types DEF Op
    <3>. QED BY <1>2, <3>1, Zenon DEF RaiseQuota, ShrinkQuota, FinishStartQuota
  <2>. QED BY <2>1, QuotaKeeps
<1>3. CASE \/ SaveDenied(w) \/ Commit(w) \/ PrepareInputs(w) \/ Provision(w)
           \/ SaveUnconfirmed(w) \/ SaveProvisioned(w) \/ markProviderStartPending(w)
           \/ SaveRunning(w) \/ SaveSetupPending(w) \/ SaveAwaiting(w) \/ SaveCleanup(w)
           \/ SaveFailed(w) \/ ReconcileProvisioning(w) \/ SaveFound(w) \/ SaveReserved(w)
           \/ SaveSuspending(w) \/ SaveSuspended(w) \/ SaveDrainFound(w)
           \/ persistMaintenanceDrainResult(w)
  <2>1. op[w].pc \in WritePCs
    BY <1>3, SMTT(60) DEF SaveDenied, Commit, PrepareInputs, Provision, SaveUnconfirmed,
                SaveProvisioned, markProviderStartPending, SaveRunning, SaveSetupPending,
                SaveAwaiting, SaveCleanup, SaveFailed, ReconcileProvisioning, SaveFound,
                SaveReserved, SaveSuspending, SaveSuspended, SaveDrainFound,
                persistMaintenanceDrainResult, WritePCs
  <2>2. rows' = rows \/ \E r : rows' = [rows EXCEPT ![w] = r]
    BY <1>3, Zenon DEF SaveDenied, Commit, PrepareInputs, Provision, SaveUnconfirmed,
                SaveProvisioned, markProviderStartPending, SaveRunning, SaveSetupPending,
                SaveAwaiting, SaveCleanup, SaveFailed, ReconcileProvisioning, SaveFound,
                SaveReserved, SaveSuspending, SaveSuspended, SaveDrainFound,
                persistMaintenanceDrainResult, Save, SaveAndReturn, SaveAndRebalance,
                Continue, GiveUp
  <2>. QED BY <2>1, <2>2, PendingWriteKeeps, SMTT(60)
<1>4. CASE Decide(w, TRUE)
  BY <1>4, DecideKeeps
<1>5. CASE SaveDeleting(w) \/ SaveDeleteFound(w) \/ FinalizeDelete(w)
  <2>1. CASE rows' = rows
    BY <2>1 DEF Kept
  <2>2. CASE \E r \in Row : /\ rows' = [rows EXCEPT ![w] = r]
                            /\ r.state \in {"deleting", "gone"}
    BY <2>2, WriteKeeps
  <2>3. CASE SaveDeleting(w)
    <3>1. [op[w].row EXCEPT !.state = "deleting"] \in Row
      BY Types, RowState, StateNames
    <3>2. [op[w].row EXCEPT !.state = "deleting"].state = "deleting"
      BY Types DEF Row
    <3>. QED BY <2>1, <2>2, <2>3, <3>1, <3>2 DEF SaveDeleting, Continue, Save
  <2>4. CASE SaveDeleteFound(w)
    <3>1. [op[w].row EXCEPT !.prov = TRUE] \in Row
      BY Types, RowFound
    <3>2. op[w].row.state = "deleting"
      BY <2>4, Types DEF Facts, SaveDeleteFound
    <3>3. [op[w].row EXCEPT !.prov = TRUE].state = "deleting"
      BY <3>2, Types DEF Row
    <3>. QED BY <2>2, <2>4, <3>1, <3>3 DEF SaveDeleteFound, Save
  <2>5. CASE FinalizeDelete(w)
    <3>1. [NoRow EXCEPT !.state = "gone"] \in Row
      BY NoRowType, RowState, StateNames
    <3>2. [NoRow EXCEPT !.state = "gone"].state = "gone"
      BY DEF NoRow
    <3>. QED BY <2>2, <2>5, <3>1, <3>2 DEF FinalizeDelete, SaveAndRebalance
  <2>. QED BY <1>5, <2>3, <2>4, <2>5
<1>6. CASE DrainWorkspace(w)
  <2>1. CASE rows' = rows
    BY <2>1 DEF Kept
  <2>2. CASE mayQuarantine(op[w].row) /\ rows' = [rows EXCEPT ![w] = quarantined(op[w].row)]
    <3>1. op[w].row.state # "deleting"
      BY <2>2 DEF mayQuarantine
    <3>2. rows[w].state # "deleting"
      BY <1>6, <3>1, Types DEF Facts, DrainWorkspace
    <3>. QED BY <2>2, <3>2, WriteKeeps
  <2>. QED BY <1>6, <2>1, <2>2 DEF DrainWorkspace, SaveAndReturn, GiveUp, Continue
<1>. QED BY <1>1, <1>2, <1>3, <1>4, <1>5, <1>6 DEF Step

LEMMA NextKeeps ==
    ASSUME IInv, [Next]_vars, NEW v \in Workspaces
    PROVE  Kept(v)
<1>1. ASSUME NEW w \in Workspaces, Request(w)
      PROVE  Kept(v)
  <2>1. CASE RetryQuarantine(w)
    BY <2>1, WriteKeeps DEF RetryQuarantine, mayQuarantine
  <2>2. CASE TouchActivity(w) \/ MarkIdleIfInactive(w)
    BY <2>2 DEF TouchActivity, MarkIdleIfInactive, IInv, TypeOK, Row, Kept
  <2>3. CASE rows' = rows
    BY <2>3 DEF Kept
  <2>. QED BY <1>1, <2>1, <2>2, <2>3, Zenon
           DEF Request, Create, ApproveSetup, DenySetup, Retry, Resume, Suspend,
               SuspendIfInactive, Delete, ReconcileMaintenanceDrain, Begin
<1>2. ASSUME LifecycleStep
      PROVE  Kept(v)
  <2>1. CASE (\E u \in Workspaces : RaiseQuota(Lifecycle, u)) \/ ShrinkQuota(Lifecycle)
    <3>1. op[Lifecycle].cur \in Workspaces \cup {None}
      BY ActorTypes DEF Actors, Op
    <3>2. \E q : \E u \in Workspaces \cup {None} : rows' = [rows EXCEPT ![u].quota = q]
      BY <2>1, <3>1, Zenon DEF RaiseQuota, ShrinkQuota
    <3>. QED BY <3>2, QuotaKeeps
  <2>2. CASE rows' = rows
    BY <2>2 DEF Kept
  <2>. QED BY <1>2, <2>1, <2>2
           DEF LifecycleStep, ReconcileCapacity, ListConsumers, ApplyQuota, FinishQuota, GiveUp
<1>3. CASE SetMaintenanceDrain \/ BeginMaintenanceDrain \/ (\E a \in Actors : StoreError(a))
           \/ Crash \/ UNCHANGED vars
  <2>1. rows' = rows
    BY <1>3 DEF SetMaintenanceDrain, BeginMaintenanceDrain, StoreError, Crash, vars
  <2>. QED BY <2>1 DEF Kept
<1>. QED BY <1>1, <1>2, <1>3, StepKeeps, DecideKeeps DEF Next

\* A tombstone only ever disappears: no full-row Save of a stale copy, no
\* quarantine and no recovery rewrites a deleting row.
THEOREM TombstonesAreFinal == Spec => DeletionIsFinal
<1>1. IInv /\ [Next]_vars =>
         [\A w \in Workspaces :
             rows[w].state = "deleting" => rows'[w].state \in {"deleting", "gone"}]_vars
  BY NextKeeps DEF Kept
<1>. QED BY <1>1, Invariance, PTL DEF Spec, DeletionIsFinal

-----------------------------------------------------------------------------
(* The running limit.  Only Commit gives a workspace a slot it did not have:  *)
(* every other step of an actor a leaves the admitting operations of the      *)
(* others and their gate alone (Alone) and takes no slot (NoNewSlot).         *)

NoNewSlot == \A v \in Workspaces : InSlot(v)' => InSlot(v)

Alone(a) ==
    /\ \A v \in Workspaces : v # a => op'[v] = op[v]
    /\ \A v \in Workspaces : v = a => op'[v].pc \notin AdmittingPCs
    /\ admissionGate' = admissionGate \/ admissionGate \in {a, None}

LEMMA SlotsFinite ==
    IsFiniteSet(Slots) /\ Cardinality(Slots) \in Nat
BY ConstantsAssumption, FS_Subset, FS_CardinalityType DEF Slots

LEMMA SlotsShrink ==
    ASSUME NoNewSlot
    PROVE  Cardinality(Slots') \in Nat /\ Cardinality(Slots') <= Cardinality(Slots)
<1>1. Slots' \subseteq Slots
  BY DEF NoNewSlot, Slots
<1>. QED BY <1>1, SlotsFinite, FS_Subset, FS_CardinalityType

LEMMA AloneKeeps ==
    ASSUME IInv, AdmissionInvariant, NEW a, Alone(a), NoNewSlot
    PROVE  AdmissionInvariant'
<1>1. /\ Cardinality(Slots') \in Nat /\ Cardinality(Slots) \in Nat /\ MaxRunning \in Nat
      /\ Cardinality(Slots') <= Cardinality(Slots)
  BY SlotsShrink, SlotsFinite, ConstantsAssumption
<1>2. Cardinality(Slots') <= MaxRunning
  BY <1>1 DEF AdmissionInvariant
<1>3. ASSUME NEW w \in Workspaces, op'[w].pc \in AdmittingPCs
      PROVE  op'[w] = op[w] /\ admissionGate = w /\ admissionGate' = w
  <2>1. w # a /\ op'[w] = op[w]
    BY <1>3 DEF Alone
  <2>2. admissionGate = w
    BY <1>3, <2>1 DEF AdmissionInvariant
  <2>3. w # None
    BY ConstantsAssumption
  <2>. QED BY <2>1, <2>2, <2>3 DEF Alone
<1>4. ASSUME NEW w \in Workspaces, op'[w].pc = "commit", op'[w].row.state = "provisioning"
      PROVE  Cardinality(Slots') < MaxRunning
  <2>1. op'[w] = op[w]
    BY <1>3, <1>4 DEF AdmittingPCs
  <2>2. Cardinality(Slots) < MaxRunning
    BY <1>4, <2>1 DEF AdmissionInvariant
  <2>. QED BY <1>1, <2>2
<1>. QED BY <1>2, <1>3, <1>4 DEF AdmissionInvariant

LEMMA OpAlone ==
    ASSUME IInv, NEW a \in Actors, NEW o, op' = [op EXCEPT ![a] = o], o.pc \notin AdmittingPCs,
           admissionGate' = admissionGate
    PROVE  Alone(a)
BY DEF IInv, TypeOK, Actors, Alone

LEMMA GotoAlone ==
    ASSUME IInv, NEW a \in Actors, NEW pc, Goto(a, pc), pc \notin AdmittingPCs,
           admissionGate' = admissionGate
    PROVE  Alone(a)
BY DEF IInv, TypeOK, Op, Actors, Goto, Alone

LEMMA ReturnAlone ==
    ASSUME IInv, NEW a \in Actors, Return(a)
    PROVE  Alone(a)
<1>1. NoOp.pc \notin AdmittingPCs
  BY DEF NoOp, AdmittingPCs
<1>. QED BY <1>1 DEF IInv, TypeOK, Actors, Return, ReleaseGates, Alone

LEMMA SaveAlone ==
    ASSUME IInv, NEW w \in Workspaces, NEW r, NEW pc, Save(w, r, pc), pc \notin AdmittingPCs
    PROVE  Alone(w)
BY DEF IInv, TypeOK, Op, Actors, Save, KeepGates, Alone

LEMMA RebalanceAlone ==
    ASSUME IInv, NEW w \in Workspaces, NEW r, SaveAndRebalance(w, r)
    PROVE  Alone(w)
BY DEF IInv, TypeOK, Op, Actors, SaveAndRebalance, KeepGates, Alone, AdmittingPCs

LEMMA ContinueAlone ==
    ASSUME IInv, NEW w \in Workspaces, NEW pc, Continue(w, pc), pc \notin AdmittingPCs
    PROVE  Alone(w)
<1>1. w \in Actors
  BY DEF Actors
<1>. QED BY <1>1, GotoAlone DEF Continue, KeepGates

LEMMA ReturningAlone ==
    ASSUME IInv, NEW w \in Workspaces, NEW r, SaveAndReturn(w, r) \/ GiveUp(w)
    PROVE  Alone(w)
<1>1. w \in Actors
  BY DEF Actors
<1>. QED BY <1>1, ReturnAlone DEF SaveAndReturn, GiveUp

\* The ways a step treats the slots.
LEMMA SameRowsNoSlot ==
    ASSUME rows' = rows,
           \A v \in Workspaces : phase'[v] = "live" => InSlot(v)
    PROVE  NoNewSlot
BY DEF NoNewSlot, InSlot

LEMMA WriteNoSlot ==
    ASSUME IInv, NEW w \in Workspaces, NEW r,
           rows' = rows \/ rows' = [rows EXCEPT ![w] = r], phase' = phase,
           r.state \in SlotStates => InSlot(w)
    PROVE  NoNewSlot
BY DEF IInv, TypeOK, NoNewSlot, InSlot

LEMMA QuotaNoSlot ==
    ASSUME IInv, NEW u \in Workspaces \cup {None}, NEW q,
           rows' = [rows EXCEPT ![u].quota = q], phase' = phase
    PROVE  NoNewSlot
BY DEF IInv, TypeOK, Row, NoNewSlot, InSlot

\* Where a full-row Save is pending under the runtime gate the row has a slot.
SlotPCs == WritePCs \ {"save_denied", "commit", "inputs"}

LEMMA HasSlot ==
    ASSUME NEW o, NEW r, NEW p, Facts(o, r, p), o.pc \in SlotPCs
    PROVE  r.state \in SlotStates
BY DEF Facts, SlotPCs, WritePCs, SlotStates, LiveStates

LEMMA PendingWriteNoSlot ==
    ASSUME IInv, NEW w \in Workspaces, op[w].pc \in SlotPCs, phase' = phase,
           rows' = rows \/ \E r : rows' = [rows EXCEPT ![w] = r]
    PROVE  NoNewSlot
<1>1. InSlot(w)
  BY Types, HasSlot DEF InSlot
<1>. QED BY <1>1, WriteNoSlot

\* The stops, lookups and the deletion leave no runtime that was not there.
LEMMA StopQuiet ==
    ASSUME IInv, NEW w \in Workspaces, NEW pc, NEW next, pc \notin AdmittingPCs,
           next \notin AdmittingPCs,
           \/ StopAndWait(w, pc, Return(w))
           \/ StopAndWait(w, pc, Goto(w, next) /\ KeepGates)
    PROVE  Alone(w) /\ NoNewSlot
<1>1. w \in Actors
  BY DEF Actors
<1>2. \/ Goto(w, pc) /\ KeepGates
      \/ Goto(w, next) /\ KeepGates
      \/ Return(w)
  BY DEF StopAndWait
<1>3. rows' = rows /\ \A v \in Workspaces : phase'[v] = "live" => phase[v] = "live"
  BY DEF StopAndWait, IInv, TypeOK
<1>4. Alone(w)
  BY <1>1, <1>2, GotoAlone, ReturnAlone DEF KeepGates
<1>. QED BY <1>3, <1>4, SameRowsNoSlot DEF InSlot

LEMMA LookupQuiet ==
    ASSUME IInv, NEW w \in Workspaces, NEW found, NEW absent, Lookup(w, found, absent),
           found \notin AdmittingPCs, absent \notin AdmittingPCs
    PROVE  Alone(w) /\ NoNewSlot
<1>1. w \in Actors
  BY DEF Actors
<1>2. Alone(w)
  <2>1. CASE Return(w)
    BY <1>1, <2>1, ReturnAlone
  <2>2. CASE Goto(w, found) /\ KeepGates
    BY <1>1, <2>2, GotoAlone DEF KeepGates
  <2>3. CASE Goto(w, absent) /\ KeepGates
    BY <1>1, <2>3, GotoAlone DEF KeepGates
  <2>. QED BY <2>1, <2>2, <2>3 DEF Lookup
<1>3. rows' = rows /\ phase' = phase
  BY DEF Lookup, KeepProvider
<1>. QED BY <1>2, <1>3, SameRowsNoSlot DEF InSlot

LEMMA StopsQuiet ==
    ASSUME IInv, NEW w \in Workspaces,
           \/ SetupStop(w) \/ CleanupStop(w) \/ SuspendStop(w) \/ DrainStop(w)
           \/ ReconcileLookup(w) \/ DeleteLookup(w) \/ DrainLookup(w)
    PROVE  Alone(w) /\ NoNewSlot
<1>1. \A pc \in {"save_awaiting", "save_setup_pending", "save_failed", "save_suspended",
                 "save_drained", "save_found", "save_reserved", "save_delete_found",
                 "finalize", "save_drain_found"} : pc \notin AdmittingPCs
  BY DEF AdmittingPCs
<1>2. CASE SetupStop(w)
  BY <1>1, <1>2, StopQuiet DEF SetupStop
<1>3. CASE CleanupStop(w)
  BY <1>1, <1>3, StopQuiet DEF CleanupStop
<1>4. CASE SuspendStop(w)
  BY <1>1, <1>4, StopQuiet DEF SuspendStop
<1>5. CASE DrainStop(w)
  BY <1>1, <1>5, StopQuiet DEF DrainStop
<1>6. CASE ReconcileLookup(w) \/ DeleteLookup(w) \/ DrainLookup(w)
  BY <1>1, <1>6, LookupQuiet DEF ReconcileLookup, DeleteLookup, DrainLookup
<1>. QED BY <1>2, <1>3, <1>4, <1>5, <1>6

\* The calls that may start a runtime are made for a provisioning row.
LEMMA CallsQuiet ==
    ASSUME IInv, NEW w \in Workspaces,
           \/ CallProvision(w) \/ CallStart(w) \/ CallInitialize(w) \/ CallDelete(w)
           \/ StartSuspension(w)
    PROVE  Alone(w) /\ NoNewSlot
<1>1. w \in Actors
  BY DEF Actors
<1>2. rows' = rows
  BY DEF CallProvision, CallStart, CallInitialize, CallDelete, StartSuspension, Continue, GiveUp
<1>3. ASSUME NEW v \in Workspaces, phase'[v] = "live"
      PROVE  InSlot(v)
  <2>1. CASE CallProvision(w) \/ CallStart(w)
    <3>1. rows[w].state = "provisioning"
      BY <2>1, Types DEF Facts, CallProvision, CallStart
    <3>2. phase'[v] = phase[v] \/ v = w
      BY <2>1 DEF CallProvision, CallStart, IInv, TypeOK
    <3>. QED BY <1>3, <3>1, <3>2, SMTT(60) DEF InSlot, SlotStates
  <2>2. CASE CallInitialize(w) \/ CallDelete(w) \/ StartSuspension(w)
    <3>1. phase'[v] = "live" => phase[v] = "live"
      BY <2>2 DEF CallInitialize, CallDelete, StartSuspension, Continue, GiveUp, KeepProvider,
                  IInv, TypeOK
    <3>. QED BY <1>3, <3>1 DEF InSlot
  <2>. QED BY <2>1, <2>2
<1>4. Alone(w)
  <2>1. \/ Return(w)
        \/ /\ admissionGate' = admissionGate
           /\ \/ \E pc \in {"save_provisioned", "call_initialize", "setup_stop", "save_running",
                            "finalize", "suspend_stop", "save_suspending"} : Goto(w, pc)
              \/ \E f : op' = [op EXCEPT ![w].pc = "save_cleanup", ![w].final = f]
    BY Zenon DEF CallProvision, CallStart, CallInitialize, CallDelete, StartSuspension, Continue, GiveUp,
           KeepGates
  <2>2. CASE Return(w)
    BY <1>1, <2>2, ReturnAlone
  <2>3. CASE \E pc \in {"save_provisioned", "call_initialize", "setup_stop", "save_running",
                        "finalize", "suspend_stop", "save_suspending"} :
                Goto(w, pc) /\ admissionGate' = admissionGate
    BY <1>1, <2>3, GotoAlone DEF AdmittingPCs
  <2>4. CASE /\ admissionGate' = admissionGate
             /\ \E f : op' = [op EXCEPT ![w].pc = "save_cleanup", ![w].final = f]
    BY <2>4 DEF IInv, TypeOK, Op, Actors, Alone, AdmittingPCs
  <2>. QED BY <2>1, <2>2, <2>3, <2>4
<1>. QED BY <1>2, <1>3, <1>4, SameRowsNoSlot

\* The rebalance changes quotas only.
LEMMA RaiseQuotaQuiet ==
    ASSUME IInv, NEW a \in Actors, NEW w \in Workspaces, RaiseQuota(a, w)
    PROVE  Alone(a) /\ NoNewSlot
<1>1. PICK q : q = IF rows[w].quota > op[a].target THEN rows[w].quota ELSE op[a].target
  OBVIOUS
<1>2. rows' = [rows EXCEPT ![w].quota = q] /\ phase' = phase
  BY <1>1 DEF RaiseQuota, KeepProvider
<1>3. PICK o : o = [op[a] EXCEPT !.pc = "apply", !.todo = @ \ {w}, !.cur = w]
  OBVIOUS
<1>4. o.pc = "apply"
  BY <1>3, ActorTypes DEF Op
<1>5. op' = [op EXCEPT ![a] = o] /\ admissionGate' = admissionGate
  BY <1>3 DEF RaiseQuota, KeepGates
<1>6. o.pc \notin AdmittingPCs
  BY <1>4 DEF AdmittingPCs
<1>. QED BY <1>2, <1>5, <1>6, OpAlone, QuotaNoSlot

LEMMA ShrinkQuotaQuiet ==
    ASSUME IInv, NEW a \in Actors, ShrinkQuota(a)
    PROVE  Alone(a) /\ NoNewSlot
<1>1. PICK v \in Workspaces \cup {None}, q \in 0..Pool : v = op[a].cur /\ q = op[a].target
  BY ActorTypes DEF Op
<1>2. rows' = [rows EXCEPT ![v].quota = q] /\ phase' = phase
  BY <1>1 DEF ShrinkQuota, KeepProvider
<1>3. PICK o : o = [op[a] EXCEPT !.pc = "quota", !.cur = None]
  OBVIOUS
<1>4. o.pc = "quota"
  BY <1>3, ActorTypes DEF Op
<1>5. op' = [op EXCEPT ![a] = o] /\ admissionGate' = admissionGate
  BY <1>3 DEF ShrinkQuota, KeepGates
<1>6. o.pc \notin AdmittingPCs
  BY <1>4 DEF AdmittingPCs
<1>. QED BY <1>2, <1>5, <1>6, OpAlone, QuotaNoSlot

LEMMA ListConsumersQuiet ==
    ASSUME IInv, NEW a \in Actors, ListConsumers(a)
    PROVE  Alone(a) /\ NoNewSlot
<1> DEFINE n == Cardinality(consumers)
           peers == {w \in consumers : stableLiveProviderState(rows[w])
                                       /\ ~(op[a].starting /\ w = a)}
<1>1. /\ KeepProvider /\ UNCHANGED <<rows, drain, faults>>
      /\ \/ /\ op' = [op EXCEPT ![a].pc = "quota",
                                ![a].target = IF n = 0 THEN 0 ELSE share(n),
                                ![a].todo = peers]
            /\ KeepGates
         \/ Return(a)
  BY DEF ListConsumers
<1>2. NoNewSlot
  BY <1>1, SameRowsNoSlot DEF KeepProvider, InSlot
<1>3. CASE /\ op' = [op EXCEPT ![a].pc = "quota",
                               ![a].target = IF n = 0 THEN 0 ELSE share(n),
                               ![a].todo = peers]
           /\ KeepGates
  <2>1. PICK t, todo : t = (IF n = 0 THEN 0 ELSE share(n)) /\ todo = peers
    OBVIOUS
  <2>2. PICK o : o = [op[a] EXCEPT !.pc = "quota", !.target = t, !.todo = todo]
    OBVIOUS
  <2>3. o.pc = "quota"
    BY <2>2, ActorTypes DEF Op
  <2>4. op' = [op EXCEPT ![a] = o] /\ admissionGate' = admissionGate
    BY <1>3, <2>1, <2>2 DEF KeepGates
  <2>5. o.pc \notin AdmittingPCs
    BY <2>3 DEF AdmittingPCs
  <2>. QED BY <1>2, <2>4, <2>5, OpAlone
<1>. QED BY <1>1, <1>2, <1>3, ReturnAlone

LEMMA ApplyQuotaQuiet ==
    ASSUME IInv, NEW a \in Actors, ApplyQuota(a) \/ FinishQuota(a)
    PROVE  Alone(a) /\ NoNewSlot
<1>1. phase' = phase /\ rows' = rows
  BY DEF ApplyQuota, FinishQuota, GiveUp, KeepProvider
<1>2. Return(a) \/ (Goto(a, "shrink") /\ admissionGate' = admissionGate)
  BY DEF ApplyQuota, FinishQuota, GiveUp, KeepGates
<1>3. "shrink" \notin AdmittingPCs
  BY DEF AdmittingPCs
<1>. QED BY <1>1, <1>2, <1>3, GotoAlone, ReturnAlone, SameRowsNoSlot DEF InSlot

LEMMA QuotasQuiet ==
    ASSUME IInv, NEW a \in Actors,
           \/ ListConsumers(a) \/ (\E u \in Workspaces : RaiseQuota(a, u)) \/ ApplyQuota(a)
           \/ ShrinkQuota(a) \/ FinishQuota(a)
    PROVE  Alone(a) /\ NoNewSlot
BY ListConsumersQuiet, RaiseQuotaQuiet, ApplyQuotaQuiet, ShrinkQuotaQuiet

LEMMA FinishStartQuotaQuiet ==
    ASSUME IInv, NEW w \in Workspaces, FinishStartQuota(w)
    PROVE  Alone(w) /\ NoNewSlot
<1>1. NoNewSlot
  <2>1. phase' = phase /\ rows' = [rows EXCEPT ![w].quota = op[w].target]
    BY DEF FinishStartQuota, KeepProvider
  <2>. QED BY <2>1, QuotaNoSlot
<1>2. PICK r : r = [op[w].row EXCEPT !.quota = op[w].target]
  OBVIOUS
<1>3. PICK pc : pc = IF r.prov THEN "save_start_pending" ELSE "save_unconfirmed"
  OBVIOUS
<1>4. PICK o : o = [op[w] EXCEPT !.row = r, !.starting = FALSE, !.target = 0, !.pc = pc]
  OBVIOUS
<1>5. op' = [op EXCEPT ![w] = o] /\ admissionGate' = admissionGate /\ w \in Actors
  BY <1>2, <1>3, <1>4 DEF FinishStartQuota, KeepGates, Actors
<1>6. o.pc \notin AdmittingPCs
  <2>1. o.pc = pc
    BY <1>4, Types DEF Op
  <2>. QED BY <1>3, <2>1 DEF AdmittingPCs
<1>. QED BY <1>1, <1>5, <1>6, OpAlone

\* A full-row Save under the runtime gate is made for a row that has a slot.
LEMMA SaveQuiet ==
    ASSUME IInv, NEW w \in Workspaces, NEW r, op[w].pc \in SlotPCs,
           \/ \E pc : pc \notin AdmittingPCs /\ (Save(w, r, pc) \/ Continue(w, pc))
           \/ SaveAndReturn(w, r) \/ SaveAndRebalance(w, r) \/ GiveUp(w)
    PROVE  Alone(w) /\ NoNewSlot
<1>1. Alone(w)
  BY SaveAlone, ContinueAlone, ReturningAlone, RebalanceAlone
<1>2. phase' = phase /\ (rows' = rows \/ rows' = [rows EXCEPT ![w] = r])
  BY DEF Save, Continue, SaveAndReturn, SaveAndRebalance, GiveUp, KeepProvider
<1>. QED BY <1>1, <1>2, PendingWriteNoSlot

LEMMA SavesQuiet ==
    ASSUME IInv, NEW w \in Workspaces,
           \/ SaveUnconfirmed(w) \/ SaveProvisioned(w)
           \/ markProviderStartPending(w) \/ SaveRunning(w) \/ SaveSetupPending(w)
           \/ SaveAwaiting(w) \/ SaveCleanup(w) \/ SaveFailed(w) \/ ReconcileProvisioning(w)
           \/ SaveFound(w) \/ SaveReserved(w) \/ SaveSuspending(w) \/ SaveSuspended(w)
           \/ SaveDrainFound(w) \/ persistMaintenanceDrainResult(w)
    PROVE  Alone(w) /\ NoNewSlot
<1>1. op[w].pc \in SlotPCs
  BY DEF SaveUnconfirmed, SaveProvisioned, markProviderStartPending, SaveRunning,
         SaveSetupPending, SaveAwaiting, SaveCleanup, SaveFailed, ReconcileProvisioning,
         SaveFound, SaveReserved, SaveSuspending, SaveSuspended, SaveDrainFound,
         persistMaintenanceDrainResult, WritePCs, SlotPCs
<1>2. \A pc \in {"call_provision", "call_start", "cleanup_stop", "suspend_stop", "drain_stop",
                 "provision", "setup_stop", "lookup"} : pc \notin AdmittingPCs
  BY DEF AdmittingPCs
<1>3. CASE \/ SaveUnconfirmed(w) \/ SaveProvisioned(w) \/ markProviderStartPending(w)
           \/ SaveCleanup(w) \/ SaveFound(w) \/ SaveDrainFound(w)
  <2>1. \E r : \E pc \in {"call_provision", "call_start", "cleanup_stop", "drain_stop"} :
           Save(w, r, pc)
    BY <1>3, Zenon DEF SaveUnconfirmed, SaveProvisioned, markProviderStartPending, SaveCleanup,
                       SaveFound, SaveDrainFound
  <2>. QED BY <1>1, <1>2, <2>1, SaveQuiet
<1>4. CASE \/ SaveRunning(w) \/ SaveAwaiting(w) \/ SaveFailed(w) \/ SaveSuspended(w)
           \/ persistMaintenanceDrainResult(w)
  BY <1>1, <1>4, SaveQuiet
     DEF SaveRunning, SaveAwaiting, SaveFailed, SaveSuspended, persistMaintenanceDrainResult
<1>5. CASE SaveSetupPending(w) \/ SaveReserved(w)
  BY <1>1, <1>5, SaveQuiet DEF SaveSetupPending, SaveReserved
<1>6. CASE ReconcileProvisioning(w)
  <2>1. \/ \E pc \in {"provision", "cleanup_stop", "setup_stop", "lookup"} : Continue(w, pc)
        \/ \E r : Save(w, r, "cleanup_stop")
    BY <1>6, Zenon DEF ReconcileProvisioning
  <2>. QED BY <1>1, <1>2, <2>1, SaveQuiet
<1>7. CASE SaveSuspending(w)
  <2>1. GiveUp(w) \/ \E r : Save(w, r, "suspend_stop")
    BY <1>7, Zenon DEF SaveSuspending
  <2>. QED BY <1>1, <1>2, <2>1, SaveQuiet
<1>. QED BY <1>3, <1>4, <1>5, <1>6, <1>7

LEMMA ProvisionQuiet ==
    ASSUME IInv, NEW w \in Workspaces, Provision(w)
    PROVE  Alone(w) /\ NoNewSlot
<1>1. NoNewSlot
  <2>1. phase' = phase /\ (rows' = rows \/ \E r : rows' = [rows EXCEPT ![w] = r])
    BY DEF Provision, KeepProvider
  <2>2. op[w].pc \in SlotPCs
    BY DEF Provision, SlotPCs, WritePCs
  <2>. QED BY <2>1, <2>2, PendingWriteNoSlot
<1>2. w \in Actors
  BY DEF Actors
<1>3. CASE Return(w)
  BY <1>1, <1>2, <1>3, ReturnAlone
<1>4. CASE op' = [op EXCEPT ![w].pc = "list", ![w].starting = TRUE] /\ KeepGates
  <2>1. PICK o : o = [op[w] EXCEPT !.pc = "list", !.starting = TRUE]
    OBVIOUS
  <2>2. op' = [op EXCEPT ![w] = o] /\ admissionGate' = admissionGate
    BY <1>4, <2>1 DEF KeepGates
  <2>3. o.pc \notin AdmittingPCs
    BY <2>1, Types DEF Op, AdmittingPCs
  <2>. QED BY <1>1, <1>2, <2>2, <2>3, OpAlone
<1>. QED BY <1>3, <1>4 DEF Provision

\* The other Saves leave the row in no slot, or in the one it had.
LEMMA PlainSavesQuiet ==
    ASSUME IInv, NEW w \in Workspaces,
           \/ SaveDenied(w) \/ PrepareInputs(w) \/ SaveDeleting(w) \/ SaveDeleteFound(w)
           \/ FinalizeDelete(w) \/ DrainWorkspace(w)
    PROVE  Alone(w) /\ NoNewSlot
<1>1. w \in Actors
  BY DEF Actors
<1>2. \A pc \in {"wait_runtime", "call_delete", "delete_lookup", "drain_stop", "drain_lookup"} :
         pc \notin AdmittingPCs
  BY DEF AdmittingPCs
<1>3. \A r \in Row : quarantined(r).state \notin SlotStates
  BY DEF quarantined, Row, SlotStates, LiveStates
<1>4. CASE SaveDenied(w)
  <2>1. PICK r : r = [op[w].row EXCEPT !.state = "failed", !.code = "other"]
    OBVIOUS
  <2>2. r.state \notin SlotStates
    BY <2>1, Types DEF Row, SlotStates, LiveStates
  <2>3. SaveAndReturn(w, r)
    BY <1>4, <2>1 DEF SaveDenied
  <2>. QED BY <2>2, <2>3, ReturningAlone, WriteNoSlot DEF SaveAndReturn, KeepProvider
<1>5. CASE PrepareInputs(w)
  <2>1. PICK r : r = [op[w].row EXCEPT !.inputs = FALSE]
    OBVIOUS
  <2>2. r.state \in SlotStates => InSlot(w)
    <3>1. r.state = op[w].row.state
      BY <2>1, Types DEF Row
    <3>2. op[w].row.state = rows[w].state
      BY <1>5, Types DEF Facts, PrepareInputs
    <3>. QED BY <3>1, <3>2 DEF InSlot
  <2>3. \/ Save(w, r, "wait_runtime") \/ SaveAndReturn(w, r)
        \/ /\ rows' = [rows EXCEPT ![w] = quarantined(op[w].row)]
           /\ Return(w) /\ KeepProvider
    BY <1>5, <2>1 DEF PrepareInputs
  <2>4. CASE Save(w, r, "wait_runtime") \/ SaveAndReturn(w, r)
    BY <1>2, <2>2, <2>4, SaveAlone, ReturningAlone, WriteNoSlot
       DEF Save, SaveAndReturn, KeepProvider
  <2>5. CASE /\ rows' = [rows EXCEPT ![w] = quarantined(op[w].row)]
             /\ Return(w) /\ KeepProvider
    BY <1>1, <1>3, <2>5, Types, ReturnAlone, WriteNoSlot DEF KeepProvider
  <2>. QED BY <2>3, <2>4, <2>5
<1>6. CASE SaveDeleting(w)
  <2>1. PICK r : r = [op[w].row EXCEPT !.state = "deleting"]
    OBVIOUS
  <2>2. r.state \notin SlotStates
    BY <2>1, Types DEF Row, SlotStates, LiveStates
  <2>3. \/ \E pc \in {"call_delete", "delete_lookup"} : Continue(w, pc) \/ Save(w, r, pc)
        \/ Return(w) /\ KeepProvider /\ UNCHANGED rows
    BY <1>6, <2>1 DEF SaveDeleting
  <2>4. (rows' = rows \/ rows' = [rows EXCEPT ![w] = r]) /\ phase' = phase
    BY <2>3 DEF Continue, Save, KeepProvider
  <2>. QED BY <1>1, <1>2, <2>2, <2>3, <2>4, ContinueAlone, SaveAlone, ReturnAlone, WriteNoSlot
<1>7. CASE SaveDeleteFound(w)
  <2>1. PICK r : r = [op[w].row EXCEPT !.prov = TRUE]
    OBVIOUS
  <2>2. r.state \notin SlotStates
    <3>1. op[w].row.state = "deleting"
      BY <1>7, Types DEF Facts, SaveDeleteFound
    <3>. QED BY <2>1, <3>1, Types DEF Row, SlotStates, LiveStates
  <2>3. Save(w, r, "call_delete")
    BY <1>7, <2>1 DEF SaveDeleteFound
  <2>. QED BY <1>2, <2>2, <2>3, SaveAlone, WriteNoSlot DEF Save, KeepProvider
<1>8. CASE FinalizeDelete(w)
  <2>1. PICK r : r = [NoRow EXCEPT !.state = "gone"]
    OBVIOUS
  <2>2. r.state \notin SlotStates
    BY <2>1, NoRowType DEF Row, SlotStates, LiveStates
  <2>3. SaveAndRebalance(w, r)
    BY <1>8, <2>1 DEF FinalizeDelete
  <2>4. rows' = [rows EXCEPT ![w] = r] /\ phase' = phase
    BY <2>3, Zenon DEF SaveAndRebalance, KeepProvider
  <2>. QED BY <2>2, <2>3, <2>4, RebalanceAlone, WriteNoSlot
<1>9. CASE DrainWorkspace(w)
  <2>1. \/ SaveAndReturn(w, quarantined(op[w].row)) \/ GiveUp(w)
        \/ \E pc \in {"drain_stop", "drain_lookup"} : Continue(w, pc)
    BY <1>9 DEF DrainWorkspace
  <2>2. CASE SaveAndReturn(w, quarantined(op[w].row))
    BY <1>3, <2>2, Types, ReturningAlone, WriteNoSlot DEF SaveAndReturn, KeepProvider
  <2>3. CASE GiveUp(w) \/ \E pc \in {"drain_stop", "drain_lookup"} : Continue(w, pc)
    <3>1. rows' = rows /\ phase' = phase
      BY <2>3 DEF GiveUp, Continue, KeepProvider
    <3>2. NoNewSlot
      BY <3>1, SameRowsNoSlot DEF InSlot
    <3>. QED BY <1>2, <2>3, <3>2, ReturningAlone, ContinueAlone
  <2>. QED BY <2>1, <2>2, <2>3
<1>. QED BY <1>4, <1>5, <1>6, <1>7, <1>8, <1>9

LEMMA BeginQuiet ==
    ASSUME IInv, NEW w \in Workspaces, NEW kind, NEW pc, pc \notin AdmittingPCs,
           Begin(w, kind, pc)
    PROVE  Alone(w) /\ NoNewSlot
<1>1. PICK r : r = rows[w]
  OBVIOUS
<1>2. PICK o : o = [op[w] EXCEPT !.kind = kind, !.row = r, !.pc = pc]
  OBVIOUS
<1>3. op' = [op EXCEPT ![w] = o] /\ admissionGate' = admissionGate /\ w \in Actors
  BY <1>1, <1>2 DEF Begin, KeepGates, Actors
<1>4. o.pc = pc
  BY <1>2, Types DEF Op
<1>5. rows' = rows /\ phase' = phase
  BY DEF Begin, KeepProvider
<1>. QED BY <1>3, <1>4, <1>5, OpAlone, SameRowsNoSlot DEF InSlot

LEMMA CreateQuiet ==
    ASSUME IInv, NEW w \in Workspaces, Create(w)
    PROVE  Alone(w) /\ NoNewSlot
<1>1. PICK dev, inputs :
         op' = [op EXCEPT ![w].kind = "create", ![w].pc = "wait_admission",
                          ![w].row = [NoRow EXCEPT !.state = "queued", !.dev = dev,
                                                   !.inputs = inputs]]
  BY Zenon DEF Create
<1>2. PICK r : r = [NoRow EXCEPT !.state = "queued", !.dev = dev, !.inputs = inputs]
  OBVIOUS
<1>3. PICK o : o = [op[w] EXCEPT !.kind = "create", !.pc = "wait_admission", !.row = r]
  OBVIOUS
<1>4. op' = [op EXCEPT ![w] = o] /\ w \in Actors
  BY <1>1, <1>2, <1>3 DEF Actors
<1>5. o.pc \notin AdmittingPCs
  <2>1. o.pc = "wait_admission"
    BY <1>3, Types DEF Op
  <2>. QED BY <2>1 DEF AdmittingPCs
<1>6. rows' = rows /\ phase' = phase /\ admissionGate' = admissionGate
  BY Zenon DEF Create, KeepProvider, KeepGates
<1>. QED BY <1>4, <1>5, <1>6, OpAlone, SameRowsNoSlot DEF InSlot

LEMMA acquireRuntimeQuiet ==
    ASSUME IInv, NEW w \in Workspaces, acquireRuntime(w)
    PROVE  Alone(w) /\ NoNewSlot
<1>1. PICK r, pc, b : r = rows[w] /\ pc = AfterRuntime(op[w].kind)
                      /\ b = (op[w].kind = "resume")
  OBVIOUS
<1>2. PICK o : o = [op[w] EXCEPT !.row = r, !.pc = pc, !.starting = b]
  OBVIOUS
<1>3. op' = [op EXCEPT ![w] = o] /\ admissionGate' = admissionGate /\ w \in Actors
  BY <1>1, <1>2 DEF acquireRuntime, Actors
<1>4. o.pc = pc
  BY <1>2, Types DEF Op
<1>5. pc \notin AdmittingPCs
  BY <1>1 DEF AfterRuntime, AdmittingPCs
<1>6. rows' = rows /\ phase' = phase
  BY DEF acquireRuntime, KeepProvider
<1>. QED BY <1>3, <1>4, <1>5, <1>6, OpAlone, SameRowsNoSlot DEF InSlot

LEMMA RequestQuiet ==
    ASSUME IInv, NEW w \in Workspaces, Request(w)
    PROVE  \E a : Alone(a) /\ NoNewSlot
<1>1. \A pc \in {"wait_admission", "save_denied", "wait_runtime"} : pc \notin AdmittingPCs
  BY DEF AdmittingPCs
<1>2. CASE Create(w)
  BY <1>2, CreateQuiet
<1>3. CASE \/ ApproveSetup(w) \/ DenySetup(w) \/ Retry(w) \/ Resume(w) \/ Suspend(w)
           \/ SuspendIfInactive(w) \/ Delete(w) \/ ReconcileMaintenanceDrain(w)
  <2>1. \E kind : \E pc \in {"wait_admission", "save_denied", "wait_runtime"} :
           Begin(w, kind, pc)
    BY <1>3, Zenon DEF ApproveSetup, DenySetup, Retry, Resume, Suspend, SuspendIfInactive, Delete,
                       ReconcileMaintenanceDrain
  <2>. QED BY <1>1, <2>1, BeginQuiet
<1>4. CASE RetryQuarantine(w) \/ TouchActivity(w) \/ MarkIdleIfInactive(w)
  <2>1. op' = op /\ admissionGate' = admissionGate /\ phase' = phase
    BY <1>4 DEF RetryQuarantine, TouchActivity, MarkIdleIfInactive, KeepGates, KeepProvider
  <2>2. Alone(Maintenance)
    BY <2>1, ConstantsAssumption DEF Alone
  <2>3. CASE RetryQuarantine(w)
    <3>1. quarantined(rows[w]).state \notin SlotStates
      BY Types DEF quarantined, Row, SlotStates, LiveStates
    <3>. QED BY <2>1, <2>2, <2>3, <3>1, WriteNoSlot DEF RetryQuarantine
  <2>4. CASE TouchActivity(w) \/ MarkIdleIfInactive(w)
    <3>1. InSlot(w) /\ \E r : rows' = [rows EXCEPT ![w] = r]
      BY <2>4 DEF TouchActivity, MarkIdleIfInactive, InSlot, SlotStates, LiveStates
    <3>. QED BY <2>1, <2>2, <3>1, WriteNoSlot
  <2>. QED BY <1>4, <2>3, <2>4
<1>. QED BY <1>2, <1>3, <1>4 DEF Request

\* The maintenance boundary, a failed call and a crash.
LEMMA OutsideKeeps ==
    ASSUME IInv, AdmissionInvariant,
           \/ SetMaintenanceDrain \/ BeginMaintenanceDrain \/ (\E a \in Actors : StoreError(a))
           \/ Crash \/ UNCHANGED vars
    PROVE  AdmissionInvariant'
<1>1. rows' = rows /\ phase' = phase
  BY DEF SetMaintenanceDrain, BeginMaintenanceDrain, StoreError, Crash, vars, KeepProvider
<1>2. NoNewSlot
  BY <1>1, SameRowsNoSlot DEF InSlot
<1>3. CASE SetMaintenanceDrain \/ BeginMaintenanceDrain \/ UNCHANGED vars
  <2>1. Alone(Maintenance)
    BY <1>3, ConstantsAssumption
       DEF SetMaintenanceDrain, BeginMaintenanceDrain, vars, KeepGates, Alone
  <2>. QED BY <1>2, <2>1, AloneKeeps
<1>4. CASE \E a \in Actors : StoreError(a)
  BY <1>2, <1>4, ReturnAlone, AloneKeeps DEF StoreError
<1>5. CASE Crash
  <2>1. \A v \in Workspaces : op'[v].pc \notin AdmittingPCs
    <3>1. NoOp.pc \notin AdmittingPCs
      BY DEF NoOp, AdmittingPCs
    <3>. QED BY <1>5, <3>1 DEF Crash, Actors
  <2>2. Cardinality(Slots') <= MaxRunning
    BY <1>2, SlotsShrink, SlotsFinite, ConstantsAssumption DEF AdmissionInvariant
  <2>. QED BY <2>1, <2>2 DEF AdmissionInvariant, AdmittingPCs
<1>. QED BY <1>3, <1>4, <1>5

-----------------------------------------------------------------------------
(* The three steps under the admission gate *)

LEMMA acquireAdmissionKeeps ==
    ASSUME IInv, AdmissionInvariant, NEW w \in Workspaces, acquireAdmission(w)
    PROVE  AdmissionInvariant'
<1>1. NoNewSlot
  <2>1. rows' = rows /\ phase' = phase
    BY DEF acquireAdmission, KeepProvider
  <2>. QED BY <2>1, SameRowsNoSlot DEF InSlot
<1>2. Cardinality(Slots') <= MaxRunning
  BY <1>1, SlotsShrink, SlotsFinite, ConstantsAssumption DEF AdmissionInvariant
<1>3. admissionGate = None /\ admissionGate' = w
  BY DEF acquireAdmission
<1>4. ASSUME NEW v \in Workspaces, v # w
      PROVE  op'[v].pc \notin AdmittingPCs
  <2>1. op'[v] = op[v]
    BY <1>4 DEF acquireAdmission, Goto, IInv, TypeOK, Actors
  <2>2. v # None
    BY ConstantsAssumption
  <2>. QED BY <1>3, <2>1, <2>2 DEF AdmissionInvariant
<1>5. op'[w].pc \in {"wait_runtime", "decide"}
  BY DEF acquireAdmission, Goto, IInv, TypeOK, Op, Actors
<1>. QED BY <1>2, <1>3, <1>4, <1>5 DEF AdmissionInvariant, AdmittingPCs

\* A start admitted by PlanStart leaves a place free among the slots.
LEMMA PlaceIsFree ==
    ASSUME IInv, NEW diskOK \in BOOLEAN, PlanStart(diskOK).admitted
    PROVE  Cardinality(Slots) < MaxRunning
<1>1. Cardinality(consumers) + 1 <= MaxRunning
  BY DEF PlanStart
<1>2. Slots \subseteq consumers
  <2>1. ASSUME NEW w \in Workspaces, InSlot(w)
        PROVE  CountsAsRunning(rows[w])
    BY <2>1, Types DEF Facts, InSlot, SlotStates
  <2>. QED BY <2>1 DEF Slots, consumers
<1>3. IsFiniteSet(consumers)
  BY ConstantsAssumption, FS_Subset DEF consumers
<1>4. Cardinality(Slots) <= Cardinality(consumers)
  BY <1>2, <1>3, FS_Subset
<1>. QED BY <1>1, <1>4, SlotsFinite, FiniteConsumers, ConstantsAssumption

LEMMA DecideKeepsLimit ==
    ASSUME IInv, AdmissionInvariant, NEW w \in Workspaces, NEW diskOK \in BOOLEAN,
           Decide(w, diskOK)
    PROVE  AdmissionInvariant'
<1> DEFINE kind == op[w].kind
           d == PlanStart(diskOK)
<1>1. PICK r \in Row : r = IF kind = "create" THEN op[w].row ELSE rows[w]
  BY Types
<1>2. w \in Actors
  BY DEF Actors
<1>3. /\ KeepProvider /\ op[w].pc = "decide"
      /\ \/ /\ kind # "create"
            /\ rows' = [rows EXCEPT ![w] = IF mayQuarantine(r) THEN quarantined(r) ELSE r]
            /\ Return(w)
         \/ Return(w) /\ UNCHANGED rows
         \/ /\ op' = [op EXCEPT ![w].row = [r EXCEPT !.quota = d.quota,
                                  !.approved = @ \/ kind = "approve",
                                  !.state = IF d.admitted THEN "provisioning" ELSE "queued",
                                  !.code = IF d.admitted THEN "start_reserved" ELSE "other"],
                                ![w].pc = "commit"]
            /\ KeepGates /\ UNCHANGED rows
  BY <1>1 DEF Decide
<1>4. phase' = phase
  BY <1>3 DEF KeepProvider
<1>5. CASE /\ kind # "create"
           /\ rows' = [rows EXCEPT ![w] = IF mayQuarantine(r) THEN quarantined(r) ELSE r]
           /\ Return(w)
  <2>1. PICK q : q = IF mayQuarantine(r) THEN quarantined(r) ELSE r
    OBVIOUS
  <2>2. q.state \in SlotStates => InSlot(w)
    <3>1. quarantined(r).state \notin SlotStates
      BY DEF quarantined, Row, SlotStates, LiveStates
    <3>2. r = rows[w]
      BY <1>1, <1>5
    <3>. QED BY <2>1, <3>1, <3>2 DEF InSlot
  <2>3. rows' = [rows EXCEPT ![w] = q]
    BY <1>5, <2>1
  <2>4. NoNewSlot
    BY <1>4, <2>2, <2>3, WriteNoSlot
  <2>. QED BY <1>2, <1>5, <2>4, ReturnAlone, AloneKeeps
<1>6. CASE Return(w) /\ UNCHANGED rows
  <2>1. NoNewSlot
    BY <1>4, <1>6, SameRowsNoSlot DEF InSlot
  <2>. QED BY <1>2, <1>6, <2>1, ReturnAlone, AloneKeeps
<1>7. CASE /\ op' = [op EXCEPT ![w].row = [r EXCEPT !.quota = d.quota,
                                  !.approved = @ \/ kind = "approve",
                                  !.state = IF d.admitted THEN "provisioning" ELSE "queued",
                                  !.code = IF d.admitted THEN "start_reserved" ELSE "other"],
                               ![w].pc = "commit"]
           /\ KeepGates /\ UNCHANGED rows
  <2>1. NoNewSlot
    BY <1>4, <1>7, SameRowsNoSlot DEF InSlot
  <2>2. Cardinality(Slots') <= MaxRunning /\ Cardinality(Slots') <= Cardinality(Slots)
    BY <2>1, SlotsShrink, SlotsFinite, ConstantsAssumption DEF AdmissionInvariant
  <2>3. PICK q \in 0..Pool, b \in BOOLEAN : q = d.quota /\ b = d.admitted
    BY PlanStartType
  <2>4. PICK st \in States, c \in Codes :
           /\ st = IF b THEN "provisioning" ELSE "queued"
           /\ c = IF b THEN "start_reserved" ELSE "other"
    BY StateNames, CodeNames, Zenon
  <2>5. PICK n : /\ n.state = st
                 /\ n = [r EXCEPT !.quota = q, !.approved = @ \/ kind = "approve",
                                  !.state = st, !.code = c]
    <3>1. PICK n : n = [r EXCEPT !.quota = q, !.approved = @ \/ kind = "approve",
                                 !.state = st, !.code = c]
      OBVIOUS
    <3>2. n.state = st
      BY <3>1 DEF Row
    <3>. QED BY <3>1, <3>2
  <2>6. PICK o : o = [op[w] EXCEPT !.row = n, !.pc = "commit"]
    OBVIOUS
  <2>7. o.pc = "commit" /\ o.row = n
    BY <2>6, Types DEF Op
  <2>8. op' = [op EXCEPT ![w] = o]
    BY <1>7, <2>3, <2>4, <2>5, <2>6
  <2>9. op'[w] = o /\ \A v \in Workspaces : v # w => op'[v] = op[v]
    BY <2>8 DEF IInv, TypeOK, Actors
  <2>10. admissionGate = w /\ admissionGate' = w
    BY <1>3, <1>7 DEF AdmissionInvariant, KeepGates, AdmittingPCs
  <2>11. n.state = "provisioning" => Cardinality(Slots) < MaxRunning
    BY <2>3, <2>4, <2>5, PlaceIsFree
  <2>12. ASSUME NEW v \in Workspaces, v # w
         PROVE  op'[v].pc \notin AdmittingPCs
    BY <2>9, <2>10, <2>12 DEF AdmissionInvariant
  <2>13. n.state = "provisioning" => Cardinality(Slots') < MaxRunning
    BY <2>1, <2>2, <2>11, SlotsShrink, SlotsFinite, ConstantsAssumption
  <2>. QED BY <2>2, <2>7, <2>9, <2>10, <2>12, <2>13 DEF AdmissionInvariant, AdmittingPCs
<1>. QED BY <1>3, <1>5, <1>6, <1>7

LEMMA CommitKeepsLimit ==
    ASSUME IInv, AdmissionInvariant, NEW w \in Workspaces, Commit(w)
    PROVE  AdmissionInvariant'
<1>1. PICK r \in Row : r = op[w].row
  BY Types
<1>2. \/ SaveAndReturn(w, r) /\ r.state = "queued"
      \/ \E pc \in {"inputs", "wait_runtime"} : Save(w, r, pc)
  BY <1>1 DEF Commit
<1>3. phase[w] # "live" /\ r.state \in {"provisioning", "queued"}
  BY <1>1, Types DEF Facts, Commit
<1>4. \A pc \in {"inputs", "wait_runtime"} : pc \notin AdmittingPCs
  BY DEF AdmittingPCs
<1>5. Alone(w) /\ rows' = [rows EXCEPT ![w] = r] /\ phase' = phase
  <2>1. Alone(w)
    BY <1>2, <1>4, SaveAlone, ReturningAlone
  <2>. QED BY <1>2, <2>1 DEF Save, SaveAndReturn, KeepProvider
<1>6. CASE r.state = "queued"
  <2>1. r.state \notin SlotStates
    BY <1>6 DEF SlotStates, LiveStates
  <2>2. NoNewSlot
    BY <1>5, <2>1, WriteNoSlot
  <2>. QED BY <1>5, <2>2, AloneKeeps
<1>7. CASE r.state = "provisioning"
  <2>1. admissionGate = w /\ Cardinality(Slots) < MaxRunning
    BY <1>1, <1>7 DEF Commit, AdmissionInvariant, AdmittingPCs
  <2>2. Slots' \subseteq Slots \cup {w}
    BY <1>5 DEF Slots, InSlot, IInv, TypeOK
  <2>3. /\ IsFiniteSet(Slots \cup {w})
        /\ Cardinality(Slots \cup {w}) \in Nat
        /\ Cardinality(Slots \cup {w}) <= Cardinality(Slots) + 1
    <3>1. /\ IsFiniteSet(Slots \cup {w})
          /\ Cardinality(Slots \cup {w})
               = IF w \in Slots THEN Cardinality(Slots) ELSE Cardinality(Slots) + 1
      BY SlotsFinite, FS_AddElement
    <3>. QED BY <3>1, SlotsFinite
  <2>4. Cardinality(Slots') \in Nat /\ Cardinality(Slots') <= Cardinality(Slots \cup {w})
    BY <2>2, <2>3, FS_Subset, FS_CardinalityType
  <2>5. Cardinality(Slots') <= MaxRunning
    BY <2>1, <2>3, <2>4, SlotsFinite, ConstantsAssumption
  <2>6. ASSUME NEW v \in Workspaces
        PROVE  op'[v].pc \notin AdmittingPCs
    <3>1. CASE v = w
      BY <1>5, <3>1 DEF Alone
    <3>2. CASE v # w
      BY <1>5, <2>1, <3>2 DEF Alone, AdmissionInvariant
    <3>. QED BY <3>1, <3>2
  <2>. QED BY <2>5, <2>6 DEF AdmissionInvariant, AdmittingPCs
<1>. QED BY <1>3, <1>6, <1>7


\* Every step of an operation but these three.
LEMMA StepQuiet ==
    ASSUME IInv, NEW w \in Workspaces, Step(w)
    PROVE  \/ acquireAdmission(w) \/ Decide(w, TRUE) \/ Commit(w)
           \/ Alone(w) /\ NoNewSlot
<1>1. w \in Actors
  BY DEF Actors
<1>2. CASE \/ ListConsumers(w) \/ (\E v \in Workspaces : RaiseQuota(w, v)) \/ ApplyQuota(w)
           \/ ShrinkQuota(w) \/ FinishQuota(w) \/ FinishStartQuota(w)
  BY <1>1, <1>2, QuotasQuiet, FinishStartQuotaQuiet
<1>3. CASE \/ CallProvision(w) \/ CallStart(w) \/ CallInitialize(w) \/ CallDelete(w)
           \/ StartSuspension(w) \/ acquireRuntime(w) \/ Provision(w)
  BY <1>3, CallsQuiet, acquireRuntimeQuiet, ProvisionQuiet
<1>4. CASE \/ SetupStop(w) \/ CleanupStop(w) \/ SuspendStop(w) \/ DrainStop(w)
           \/ ReconcileLookup(w) \/ DeleteLookup(w) \/ DrainLookup(w)
  BY <1>4, StopsQuiet
<1>5. CASE \/ SaveUnconfirmed(w) \/ SaveProvisioned(w)
           \/ markProviderStartPending(w) \/ SaveRunning(w) \/ SaveSetupPending(w)
           \/ SaveAwaiting(w) \/ SaveCleanup(w) \/ SaveFailed(w) \/ ReconcileProvisioning(w)
           \/ SaveFound(w) \/ SaveReserved(w) \/ SaveSuspending(w) \/ SaveSuspended(w)
           \/ SaveDrainFound(w) \/ persistMaintenanceDrainResult(w)
  BY <1>5, SavesQuiet
<1>6. CASE \/ SaveDenied(w) \/ PrepareInputs(w) \/ SaveDeleting(w) \/ SaveDeleteFound(w)
           \/ FinalizeDelete(w) \/ DrainWorkspace(w)
  BY <1>6, PlainSavesQuiet
<1>. QED BY <1>2, <1>3, <1>4, <1>5, <1>6 DEF Step

LEMMA LifecycleQuiet ==
    ASSUME IInv, LifecycleStep
    PROVE  Alone(Lifecycle) /\ NoNewSlot
<1>1. Lifecycle \in Actors
  BY DEF Actors
<1>2. CASE ReconcileCapacity
  <2>1. rows' = rows /\ phase' = phase /\ admissionGate' = admissionGate
        /\ Goto(Lifecycle, "list")
    BY <1>2 DEF ReconcileCapacity, KeepProvider
  <2>2. "list" \notin AdmittingPCs
    BY DEF AdmittingPCs
  <2>3. NoNewSlot
    BY <2>1, SameRowsNoSlot DEF InSlot
  <2>. QED BY <1>1, <2>1, <2>2, <2>3, GotoAlone
<1>. QED BY <1>1, <1>2, QuotasQuiet DEF LifecycleStep

LEMMA StepKeepsLimit ==
    ASSUME IInv, AdmissionInvariant, NEW w \in Workspaces, Step(w)
    PROVE  AdmissionInvariant'
<1>1. CASE acquireAdmission(w)
  BY <1>1, acquireAdmissionKeeps
<1>2. CASE Decide(w, TRUE)
  BY <1>2, DecideKeepsLimit
<1>3. CASE Commit(w)
  BY <1>3, CommitKeepsLimit
<1>. QED BY <1>1, <1>2, <1>3, StepQuiet, AloneKeeps

LEMMA NextKeepsLimit ==
    ASSUME IInv, AdmissionInvariant, [Next]_vars
    PROVE  AdmissionInvariant'
<1>1. CASE \E w \in Workspaces : Request(w) \/ Step(w) \/ Decide(w, FALSE)
  BY <1>1, RequestQuiet, AloneKeeps, StepKeepsLimit, DecideKeepsLimit
<1>2. CASE LifecycleStep
  BY <1>2, LifecycleQuiet, AloneKeeps
<1>3. CASE \/ SetMaintenanceDrain \/ BeginMaintenanceDrain \/ (\E a \in Actors : StoreError(a))
           \/ Crash \/ UNCHANGED vars
  BY <1>3, OutsideKeeps
<1>. QED BY <1>1, <1>2, <1>3 DEF Next

\* An installation starts with at most the one workspace of an older release.
LEMMA InitLimit ==
    ASSUME Init
    PROVE  AdmissionInvariant
<1>1. \A w \in Workspaces : op[w].pc \notin AdmittingPCs
  <2>1. NoOp.pc \notin AdmittingPCs
    BY DEF NoOp, AdmittingPCs
  <2>. QED BY <2>1 DEF Init, Actors
<1>2. NoRow.state \notin SlotStates
  BY DEF NoRow, SlotStates, LiveStates
<1>3. \E x : Slots \subseteq {x}
  <2>1. CASE /\ rows = [w \in Workspaces |-> NoRow]
             /\ phase = [w \in Workspaces |-> "absent"]
    BY <1>2, <2>1 DEF Slots, InSlot
  <2>2. CASE \E prov, p : \E w \in Workspaces :
               /\ rows = [v \in Workspaces |-> IF v = w THEN LegacyRow(prov) ELSE NoRow]
               /\ phase = [v \in Workspaces |-> IF v = w THEN p ELSE "absent"]
    <3>1. PICK w \in Workspaces : \A v \in Workspaces :
              v # w => rows[v] = NoRow /\ phase[v] = "absent"
      BY <2>2
    <3>2. Slots \subseteq {w}
      BY <1>2, <3>1 DEF Slots, InSlot
    <3>. QED BY <3>2
  <2>. QED BY <2>1, <2>2 DEF Init
<1>4. PICK x : Slots \subseteq {x}
  BY <1>3
<1>5. IsFiniteSet({x}) /\ Cardinality({x}) = 1
  BY FS_Singleton
<1>6. Cardinality(Slots) <= 1
  BY <1>4, <1>5, FS_Subset
<1>7. Cardinality(Slots) <= MaxRunning
  BY <1>6, SlotsFinite, ConstantsAssumption
<1>. QED BY <1>1, <1>7 DEF AdmissionInvariant, AdmittingPCs

\* Starts are decided one at a time, and the place a start was admitted to stays
\* free until its reservation is durable.
LEMMA LimitInvariance == Spec => [](IInv /\ AdmissionInvariant)
<1>1. Init => IInv /\ AdmissionInvariant
  BY InitIInv, InitLimit
<1>2. IInv /\ AdmissionInvariant /\ [Next]_vars => (IInv /\ AdmissionInvariant)'
  BY NextStep, NextKeepsLimit
<1>. QED BY <1>1, <1>2, PTL DEF Spec

\* However starts, suspensions, deletions, drains, failures and crashes
\* interleave, no more than MaxRunning provider runtimes are ever live.
THEOREM RunningLimit == Spec => []AtMostMaxRunning
<1>1. AdmissionInvariant => AtMostMaxRunning
  <2>1. {w \in Workspaces : phase[w] = "live"} \subseteq Slots
    BY DEF Slots, InSlot
  <2>2. /\ Cardinality({w \in Workspaces : phase[w] = "live"}) \in Nat
        /\ Cardinality({w \in Workspaces : phase[w] = "live"}) <= Cardinality(Slots)
    BY <2>1, SlotsFinite, FS_Subset, FS_CardinalityType
  <2>. QED BY <2>2, SlotsFinite, ConstantsAssumption DEF AdmissionInvariant, AtMostMaxRunning
<1>. QED BY <1>1, LimitInvariance, PTL

-----------------------------------------------------------------------------
(* The private copies.  A step of actor a leaves the operations of the others *)
(* alone, and their rows too unless a holds runtimeGate (Others); what it     *)
(* leaves behind for its own operation is Own.                                *)

HIDE DEF UsesPrivateCopy, RuntimePCs, QuotaPCs

Others(a) ==
    /\ \A v \in Actors : v # a => op'[v] = op[v]
    /\ runtimeGate' = runtimeGate \/ runtimeGate \in {a, None}
    /\ runtimeGate = a \/ \A v \in Workspaces : v # a => rows'[v] = rows[v]

Own(a) ==
    /\ op'[a].pc \in RuntimePCs => runtimeGate' = a
    /\ a \in Workspaces => /\ UsesPrivateCopy(op'[a]) => Fresh(op'[a].row, rows'[a])
                           /\ SparesItself(op'[a], a)

LEMMA OthersOwn ==
    ASSUME IInv, FreshInvariant, NEW a \in Actors, Others(a), Own(a)
    PROVE  FreshInvariant'
<1>1. ASSUME NEW b \in Actors, op'[b].pc \in RuntimePCs
      PROVE  runtimeGate' = b
  <2>1. CASE b = a
    BY <1>1, <2>1 DEF Own
  <2>2. CASE b # a
    <3>1. runtimeGate = b
      BY <1>1, <2>2 DEF Others, FreshInvariant
    <3>2. b # None
      BY ConstantsAssumption DEF Actors
    <3>. QED BY <2>2, <3>1, <3>2 DEF Others
  <2>. QED BY <2>1, <2>2
<1>2. ASSUME NEW w \in Workspaces
      PROVE  /\ UsesPrivateCopy(op'[w]) => Fresh(op'[w].row, rows'[w])
             /\ SparesItself(op'[w], w)
  <2>1. CASE w = a
    BY <2>1 DEF Own
  <2>2. CASE w # a
    <3>1. op'[w] = op[w]
      BY <2>2 DEF Others, Actors
    <3>2. SparesItself(op'[w], w)
      BY <3>1 DEF FreshInvariant
    <3>3. ASSUME UsesPrivateCopy(op'[w])
          PROVE  Fresh(op'[w].row, rows'[w])
      <4>1. UsesPrivateCopy(op[w])
        BY <3>1, <3>3
      <4>2. runtimeGate = w
        BY <4>1 DEF FreshInvariant, UsesPrivateCopy, Actors
      <4>3. rows'[w] = rows[w]
        BY <2>2, <4>2 DEF Others
      <4>. QED BY <3>1, <4>1, <4>3 DEF FreshInvariant
    <3>. QED BY <3>2, <3>3
  <2>. QED BY <2>1, <2>2
<1>. QED BY <1>1, <1>2 DEF FreshInvariant

\* The row of w may have been written, no other one.
WritesOnly(w) == rows' = rows \/ \E r : rows' = [rows EXCEPT ![w] = r]

LEMMA MovedFresh ==
    ASSUME IInv, FreshInvariant, NEW w \in Workspaces, NEW o, op' = [op EXCEPT ![w] = o],
           WritesOnly(w), runtimeGate' = runtimeGate,
           o.pc \in RuntimePCs => op[w].pc \in RuntimePCs,
           UsesPrivateCopy(o) => Fresh(o.row, rows'[w]),
           SparesItself(o, w)
    PROVE  FreshInvariant'
<1>1. w \in Actors /\ op'[w] = o /\ \A v \in Actors : v # w => op'[v] = op[v]
  BY DEF IInv, TypeOK, Actors
<1>2. \A v \in Workspaces : v # w => rows'[v] = rows[v]
  BY DEF IInv, TypeOK, WritesOnly
<1>3. Others(w)
  BY <1>1, <1>2 DEF Others
<1>4. o.pc \in RuntimePCs => runtimeGate' = w
  BY <1>1 DEF FreshInvariant
<1>5. Own(w)
  BY <1>1, <1>4 DEF Own
<1>. QED BY <1>1, <1>3, <1>5, OthersOwn

LEMMA NoOpFresh ==
    /\ NoOp.pc \notin RuntimePCs /\ ~UsesPrivateCopy(NoOp)
    /\ \A w \in Workspaces : SparesItself(NoOp, w)
<1>1. NoOp.pc = "idle" /\ NoOp.todo = {} /\ NoOp.cur = None
  BY DEF NoOp
<1>2. NoOp.pc \notin RuntimePCs /\ ~UsesPrivateCopy(NoOp)
  BY <1>1 DEF RuntimePCs, UsesPrivateCopy
<1>. QED BY <1>1, <1>2, ConstantsAssumption DEF SparesItself

LEMMA ReturnedFresh ==
    ASSUME IInv, FreshInvariant, NEW a \in Actors, Return(a), WritesOnly(a)
    PROVE  FreshInvariant'
<1>1. op'[a] = NoOp /\ \A v \in Actors : v # a => op'[v] = op[v]
  BY DEF IInv, TypeOK, Return
<1>2. \A v \in Workspaces : v # a => rows'[v] = rows[v]
  BY DEF IInv, TypeOK, WritesOnly
<1>3. Others(a)
  BY <1>1, <1>2 DEF Others, Return, ReleaseGates
<1>4. Own(a)
  BY <1>1, NoOpFresh DEF Own
<1>. QED BY <1>3, <1>4, OthersOwn

\* An operation outside the rebalance moves on, writing its copy back or not.
LEMMA GoneFresh ==
    ASSUME IInv, FreshInvariant, NEW w \in Workspaces, NEW o, op' = [op EXCEPT ![w] = o],
           rows' = rows, runtimeGate' = runtimeGate,
           o.row = op[w].row, o.todo = op[w].todo, o.cur = op[w].cur,
           o.pc \notin QuotaPCs, op[w].pc \notin QuotaPCs,
           o.pc \in RuntimePCs => op[w].pc \in RuntimePCs
    PROVE  FreshInvariant'
<1>1. WritesOnly(w)
  BY DEF WritesOnly
<1>2. UsesPrivateCopy(o) => UsesPrivateCopy(op[w])
  BY DEF UsesPrivateCopy
<1>3. UsesPrivateCopy(o) => Fresh(o.row, rows'[w])
  BY <1>2 DEF FreshInvariant
<1>4. SparesItself(o, w)
  BY DEF SparesItself, FreshInvariant
<1>. QED BY <1>1, <1>3, <1>4, MovedFresh

LEMMA GotoFresh ==
    ASSUME IInv, FreshInvariant, NEW w \in Workspaces, NEW pc, Goto(w, pc),
           rows' = rows, runtimeGate' = runtimeGate,
           pc \notin QuotaPCs, op[w].pc \notin QuotaPCs,
           pc \in RuntimePCs => op[w].pc \in RuntimePCs
    PROVE  FreshInvariant'
<1>1. PICK o : o = [op[w] EXCEPT !.pc = pc]
  OBVIOUS
<1>2. o.pc = pc /\ o.row = op[w].row /\ o.todo = op[w].todo /\ o.cur = op[w].cur
  BY <1>1, Types DEF Op
<1>3. op' = [op EXCEPT ![w] = o]
  BY <1>1 DEF Goto
<1>. QED BY <1>2, <1>3, GoneFresh

LEMMA SavedFresh ==
    ASSUME IInv, FreshInvariant, NEW w \in Workspaces, NEW r, NEW pc, Save(w, r, pc),
           pc \notin QuotaPCs, op[w].pc \notin QuotaPCs,
           pc \in RuntimePCs => op[w].pc \in RuntimePCs
    PROVE  FreshInvariant'
<1>1. PICK o : o = [op[w] EXCEPT !.row = r, !.pc = pc]
  OBVIOUS
<1>2. o.pc = pc /\ o.row = r /\ o.todo = op[w].todo /\ o.cur = op[w].cur
  BY <1>1, Types DEF Op
<1>3. /\ op' = [op EXCEPT ![w] = o]
      /\ rows' = [rows EXCEPT ![w] = r] /\ runtimeGate' = runtimeGate
  BY <1>1 DEF Save, KeepGates
<1>4. rows'[w] = r
  BY <1>3 DEF IInv, TypeOK
<1>5. SparesItself(o, w)
  BY <1>2 DEF SparesItself, FreshInvariant
<1>. QED BY <1>2, <1>3, <1>4, <1>5, MovedFresh DEF Fresh, WritesOnly

LEMMA RebalancedFresh ==
    ASSUME IInv, FreshInvariant, NEW w \in Workspaces, NEW r, SaveAndRebalance(w, r),
           op[w].pc \in RuntimePCs
    PROVE  FreshInvariant'
<1>1. PICK o : o = [op[w] EXCEPT !.row = r, !.pc = "list", !.starting = FALSE]
  OBVIOUS
<1>2. o.pc = "list" /\ ~o.starting
  BY <1>1, Types DEF Op
<1>3. /\ op' = [op EXCEPT ![w] = o]
      /\ rows' = [rows EXCEPT ![w] = r] /\ runtimeGate' = runtimeGate
  BY <1>1 DEF SaveAndRebalance, KeepGates
<1>4. "list" \in QuotaPCs
  BY DEF QuotaPCs
<1>5. ~UsesPrivateCopy(o) /\ SparesItself(o, w)
  BY <1>2, <1>4 DEF UsesPrivateCopy, SparesItself
<1>. QED BY <1>3, <1>5, MovedFresh DEF WritesOnly

\* One of the ways a step of an operation outside the rebalance ends.
Ends(w, pcs) ==
    \/ \E pc \in pcs : Continue(w, pc) \/ \E r : Save(w, r, pc)
    \/ \E r : SaveAndReturn(w, r) \/ SaveAndRebalance(w, r)
    \/ GiveUp(w)
    \/ Return(w) /\ WritesOnly(w)

LEMMA EndsFresh ==
    ASSUME IInv, FreshInvariant, NEW w \in Workspaces, op[w].pc \in RuntimePCs \ QuotaPCs,
           NEW pcs, pcs \cap QuotaPCs = {}, Ends(w, pcs)
    PROVE  FreshInvariant'
<1>1. w \in Actors
  BY DEF Actors
<1>2. ASSUME NEW pc \in pcs, Continue(w, pc)
      PROVE  FreshInvariant'
  BY <1>2, GotoFresh DEF Continue, KeepGates
<1>3. ASSUME NEW pc \in pcs, NEW r, Save(w, r, pc)
      PROVE  FreshInvariant'
  BY <1>3, SavedFresh
<1>4. ASSUME NEW r, SaveAndReturn(w, r)
      PROVE  FreshInvariant'
  BY <1>1, <1>4, ReturnedFresh DEF SaveAndReturn, WritesOnly
<1>5. ASSUME NEW r, SaveAndRebalance(w, r)
      PROVE  FreshInvariant'
  BY <1>5, RebalancedFresh
<1>6. CASE GiveUp(w)
  BY <1>1, <1>6, ReturnedFresh DEF GiveUp, WritesOnly
<1>7. CASE Return(w) /\ WritesOnly(w)
  BY <1>1, <1>7, ReturnedFresh
<1>. QED BY <1>2, <1>3, <1>4, <1>5, <1>6, <1>7 DEF Ends

NextPCs == {"call_provision", "save_provisioned", "call_start", "call_initialize", "save_running",
            "setup_stop", "save_awaiting", "save_setup_pending", "cleanup_stop", "save_failed",
            "provision", "lookup", "save_found", "save_reserved", "suspend_stop",
            "save_suspending", "save_suspended", "call_delete", "delete_lookup",
            "save_delete_found", "finalize", "drain_stop", "drain_lookup", "save_drain_found",
            "save_drained"}

LEMMA NextPCsFacts == NextPCs \cap QuotaPCs = {}
BY DEF NextPCs, QuotaPCs

LEMMA SavesFresh ==
    ASSUME IInv, FreshInvariant, NEW w \in Workspaces,
           \/ SaveUnconfirmed(w) \/ SaveProvisioned(w)
           \/ markProviderStartPending(w) \/ SaveRunning(w) \/ SaveSetupPending(w)
           \/ SaveAwaiting(w) \/ SaveCleanup(w) \/ SaveFailed(w) \/ ReconcileProvisioning(w)
           \/ SaveFound(w) \/ SaveReserved(w) \/ SaveSuspending(w) \/ SaveSuspended(w)
           \/ SaveDrainFound(w) \/ persistMaintenanceDrainResult(w)
    PROVE  FreshInvariant'
<1>1. op[w].pc \in RuntimePCs \ QuotaPCs
  BY DEF SaveUnconfirmed, SaveProvisioned, markProviderStartPending, SaveRunning,
         SaveSetupPending, SaveAwaiting, SaveCleanup, SaveFailed, ReconcileProvisioning,
         SaveFound, SaveReserved, SaveSuspending, SaveSuspended, SaveDrainFound,
         persistMaintenanceDrainResult, RuntimePCs, QuotaPCs
<1>2. /\ "call_provision" \in NextPCs /\ "call_start" \in NextPCs /\ "cleanup_stop" \in NextPCs
      /\ "drain_stop" \in NextPCs /\ "provision" \in NextPCs /\ "setup_stop" \in NextPCs
      /\ "lookup" \in NextPCs /\ "suspend_stop" \in NextPCs
  BY DEF NextPCs
<1>3. Ends(w, NextPCs)
  <2>1. CASE \/ SaveUnconfirmed(w) \/ SaveProvisioned(w) \/ markProviderStartPending(w)
             \/ SaveCleanup(w) \/ SaveFound(w) \/ SaveDrainFound(w)
    BY <1>2, <2>1, Zenon DEF SaveUnconfirmed, SaveProvisioned, markProviderStartPending,
                             SaveCleanup, SaveFound, SaveDrainFound, Ends
  <2>2. CASE \/ SaveRunning(w) \/ SaveAwaiting(w) \/ SaveFailed(w) \/ SaveSuspended(w)
             \/ persistMaintenanceDrainResult(w) \/ SaveSetupPending(w) \/ SaveReserved(w)
    BY <2>2, Zenon DEF SaveRunning, SaveAwaiting, SaveFailed, SaveSuspended,
                       persistMaintenanceDrainResult, SaveSetupPending, SaveReserved, Ends
  <2>3. CASE ReconcileProvisioning(w)
    BY <1>2, <2>3, Zenon DEF ReconcileProvisioning, Ends
  <2>4. CASE SaveSuspending(w)
    BY <1>2, <2>4, Zenon DEF SaveSuspending, Ends
  <2>. QED BY <2>1, <2>2, <2>3, <2>4
<1>. QED BY <1>1, <1>3, NextPCsFacts, EndsFresh

LEMMA DeletesFresh ==
    ASSUME IInv, FreshInvariant, NEW w \in Workspaces,
           \/ SaveDeleting(w) \/ SaveDeleteFound(w) \/ FinalizeDelete(w) \/ DrainWorkspace(w)
           \/ StartSuspension(w)
    PROVE  FreshInvariant'
<1>1. op[w].pc \in RuntimePCs \ QuotaPCs
  BY DEF SaveDeleting, SaveDeleteFound, FinalizeDelete, DrainWorkspace, StartSuspension,
         RuntimePCs, QuotaPCs
<1>2. /\ "call_delete" \in NextPCs /\ "delete_lookup" \in NextPCs /\ "drain_stop" \in NextPCs
      /\ "drain_lookup" \in NextPCs /\ "suspend_stop" \in NextPCs
      /\ "save_suspending" \in NextPCs
  BY DEF NextPCs
<1>3. Ends(w, NextPCs)
  <2>1. CASE SaveDeleting(w)
    <3>1. PICK r, next : /\ r = [op[w].row EXCEPT !.state = "deleting"]
                         /\ next = IF op[w].row.prov THEN "call_delete" ELSE "delete_lookup"
      OBVIOUS
    <3>2. next \in NextPCs
      BY <1>2, <3>1
    <3>3. Continue(w, next) \/ Save(w, r, next) \/ (Return(w) /\ WritesOnly(w))
      BY <2>1, <3>1 DEF SaveDeleting, WritesOnly
    <3>. QED BY <3>2, <3>3, Zenon DEF Ends
  <2>2. CASE SaveDeleteFound(w) \/ FinalizeDelete(w)
    BY <1>2, <2>2, Zenon DEF SaveDeleteFound, FinalizeDelete, Ends
  <2>3. CASE DrainWorkspace(w)
    <3>1. \/ \E r : SaveAndReturn(w, r)
          \/ GiveUp(w)
          \/ Continue(w, "drain_stop") \/ Continue(w, "drain_lookup")
      BY <2>3 DEF DrainWorkspace
    <3>. QED BY <1>2, <3>1, Zenon DEF Ends
  <2>4. CASE StartSuspension(w)
    BY <1>2, <2>4, Zenon DEF StartSuspension, WritesOnly, Ends
  <2>. QED BY <2>1, <2>2, <2>3, <2>4
<1>. QED BY <1>1, <1>3, NextPCsFacts, EndsFresh

\* The provider calls write no row.
LEMMA CallsFresh ==
    ASSUME IInv, FreshInvariant, NEW w \in Workspaces, op[w].pc \in RuntimePCs \ QuotaPCs,
           rows' = rows,
           Return(w) \/ (KeepGates /\ \E pc \in NextPCs : Goto(w, pc))
    PROVE  FreshInvariant'
<1>1. w \in Actors
  BY DEF Actors
<1>2. CASE Return(w)
  BY <1>1, <1>2, ReturnedFresh DEF WritesOnly
<1>3. ASSUME NEW pc \in NextPCs, Goto(w, pc), KeepGates
      PROVE  FreshInvariant'
  BY <1>3, NextPCsFacts, GotoFresh DEF KeepGates
<1>. QED BY <1>2, <1>3

LEMMA StopsFresh ==
    ASSUME IInv, FreshInvariant, NEW w \in Workspaces,
           \/ SetupStop(w) \/ CleanupStop(w) \/ SuspendStop(w) \/ DrainStop(w)
           \/ ReconcileLookup(w) \/ DeleteLookup(w) \/ DrainLookup(w)
           \/ CallProvision(w) \/ CallDelete(w)
    PROVE  FreshInvariant'
<1>1. op[w].pc \in RuntimePCs \ QuotaPCs
  BY DEF SetupStop, CleanupStop, SuspendStop, DrainStop, ReconcileLookup, DeleteLookup,
         DrainLookup, CallProvision, CallDelete, RuntimePCs, QuotaPCs
<1>2. rows' = rows
  BY DEF SetupStop, CleanupStop, SuspendStop, DrainStop, ReconcileLookup, DeleteLookup,
         DrainLookup, CallProvision, CallDelete, StopAndWait, Lookup
<1>3. /\ "save_awaiting" \in NextPCs /\ "save_setup_pending" \in NextPCs
      /\ "save_failed" \in NextPCs /\ "save_suspended" \in NextPCs /\ "save_drained" \in NextPCs
      /\ "save_found" \in NextPCs /\ "save_reserved" \in NextPCs
      /\ "save_delete_found" \in NextPCs /\ "finalize" \in NextPCs
      /\ "save_drain_found" \in NextPCs /\ "save_provisioned" \in NextPCs
  BY DEF NextPCs
<1>4. Return(w) \/ (KeepGates /\ \E pc \in NextPCs : Goto(w, pc))
  <2>1. CASE SetupStop(w) \/ CleanupStop(w) \/ SuspendStop(w) \/ DrainStop(w)
    BY <1>3, <2>1, Zenon DEF SetupStop, CleanupStop, SuspendStop, DrainStop, StopAndWait
  <2>2. CASE ReconcileLookup(w) \/ DeleteLookup(w) \/ DrainLookup(w)
    <3>1. PICK found \in NextPCs, absent \in NextPCs : Lookup(w, found, absent)
      BY <1>3, <2>2, Zenon DEF ReconcileLookup, DeleteLookup, DrainLookup
    <3>. QED BY <3>1 DEF Lookup
  <2>3. CASE CallProvision(w) \/ CallDelete(w)
    BY <1>3, <2>3, Zenon DEF CallProvision, CallDelete
  <2>. QED BY <2>1, <2>2, <2>3
<1>. QED BY <1>1, <1>2, <1>4, CallsFresh

\* A failed start or initialization goes on to its cleanup.
LEMMA StartsFresh ==
    ASSUME IInv, FreshInvariant, NEW w \in Workspaces, CallStart(w) \/ CallInitialize(w)
    PROVE  FreshInvariant'
<1>1. op[w].pc \in RuntimePCs \ QuotaPCs
  BY DEF CallStart, CallInitialize, RuntimePCs, QuotaPCs
<1>2. rows' = rows /\ KeepGates
  BY DEF CallStart, CallInitialize
<1>3. /\ "call_initialize" \in NextPCs /\ "setup_stop" \in NextPCs
      /\ "save_running" \in NextPCs
  BY DEF NextPCs
<1>4. \/ \E pc \in NextPCs : Goto(w, pc)
      \/ \E f : op' = [op EXCEPT ![w].pc = "save_cleanup", ![w].final = f]
  BY <1>3, Zenon DEF CallStart, CallInitialize
<1>5. ASSUME NEW f, op' = [op EXCEPT ![w].pc = "save_cleanup", ![w].final = f]
      PROVE  FreshInvariant'
  <2>1. PICK o : o = [op[w] EXCEPT !.pc = "save_cleanup", !.final = f]
    OBVIOUS
  <2>2. o.pc = "save_cleanup" /\ o.row = op[w].row /\ o.todo = op[w].todo /\ o.cur = op[w].cur
    BY <2>1, Types DEF Op
  <2>3. op' = [op EXCEPT ![w] = o]
    BY <1>5, <2>1
  <2>4. o.pc \notin QuotaPCs
    BY <2>2 DEF QuotaPCs
  <2>. QED BY <1>1, <1>2, <2>2, <2>3, <2>4, GoneFresh DEF KeepGates
<1>. QED BY <1>1, <1>2, <1>4, <1>5, CallsFresh

LEMMA ProvisionFresh ==
    ASSUME IInv, FreshInvariant, NEW w \in Workspaces, Provision(w)
    PROVE  FreshInvariant'
<1>1. op[w].pc \in RuntimePCs \ QuotaPCs /\ w \in Actors
  BY DEF Provision, RuntimePCs, QuotaPCs, Actors
<1>2. CASE Return(w)
  <2>1. WritesOnly(w)
    BY DEF Provision, WritesOnly
  <2>. QED BY <1>1, <1>2, <2>1, ReturnedFresh
<1>3. CASE /\ op' = [op EXCEPT ![w].pc = "list", ![w].starting = TRUE]
           /\ KeepGates /\ UNCHANGED rows
  <2>1. PICK o : o = [op[w] EXCEPT !.pc = "list", !.starting = TRUE]
    OBVIOUS
  <2>2. o.row = op[w].row /\ o.todo = op[w].todo /\ o.cur = op[w].cur
    BY <2>1, Types DEF Op
  <2>3. op' = [op EXCEPT ![w] = o]
    BY <1>3, <2>1
  <2>4. UsesPrivateCopy(op[w])
    BY <1>1 DEF UsesPrivateCopy
  <2>5. Fresh(o.row, rows'[w]) /\ SparesItself(o, w)
    BY <1>1, <1>3, <2>2, <2>4 DEF FreshInvariant, SparesItself
  <2>6. WritesOnly(w) /\ runtimeGate' = runtimeGate
    BY <1>3 DEF WritesOnly, KeepGates
  <2>. QED BY <1>1, <2>3, <2>5, <2>6, MovedFresh
<1>. QED BY <1>2, <1>3 DEF Provision

LEMMA acquireRuntimeFresh ==
    ASSUME IInv, FreshInvariant, NEW w \in Workspaces, acquireRuntime(w)
    PROVE  FreshInvariant'
<1>1. PICK r, pc, b : r = rows[w] /\ pc = AfterRuntime(op[w].kind)
                      /\ b = (op[w].kind = "resume")
  OBVIOUS
<1>2. PICK o : o = [op[w] EXCEPT !.row = r, !.pc = pc, !.starting = b]
  OBVIOUS
<1>3. /\ op' = [op EXCEPT ![w] = o] /\ w \in Actors
      /\ rows' = rows /\ runtimeGate = None /\ runtimeGate' = w /\ op[w].pc = "wait_runtime"
  BY <1>1, <1>2 DEF acquireRuntime, Actors
<1>4. op'[w] = o /\ \A v \in Actors : v # w => op'[v] = op[v]
  BY <1>3 DEF IInv, TypeOK
<1>5. o.row = rows'[w] /\ o.todo = op[w].todo /\ o.cur = op[w].cur
  BY <1>1, <1>2, <1>3, Types DEF Op
<1>6. SparesItself(o, w)
  BY <1>3, <1>5 DEF SparesItself, FreshInvariant, QuotaPCs
<1>7. Others(w) /\ Own(w)
  BY <1>3, <1>4, <1>5, <1>6 DEF Others, Own, Fresh
<1>. QED BY <1>3, <1>7, OthersOwn

\* An actor in the rebalance holds runtimeGate and may write any row.
LEMMA RebalancerFresh ==
    ASSUME IInv, FreshInvariant, NEW a \in Actors, NEW o, op' = [op EXCEPT ![a] = o],
           runtimeGate' = runtimeGate, op[a].pc \in QuotaPCs,
           a \in Workspaces => /\ UsesPrivateCopy(o) => Fresh(o.row, rows'[a])
                               /\ SparesItself(o, a)
    PROVE  FreshInvariant'
<1>1. op'[a] = o /\ \A v \in Actors : v # a => op'[v] = op[v]
  BY DEF IInv, TypeOK
<1>2. runtimeGate = a
  BY DEF FreshInvariant, QuotaPCs, RuntimePCs
<1>3. Others(a) /\ Own(a)
  BY <1>1, <1>2 DEF Others, Own
<1>. QED BY <1>3, OthersOwn

LEMMA StartingCopy ==
    ASSUME FreshInvariant, NEW w \in Workspaces, op[w].pc \in QuotaPCs, op[w].starting
    PROVE  Fresh(op[w].row, rows[w]) /\ w \notin op[w].todo /\ w # op[w].cur
BY DEF FreshInvariant, UsesPrivateCopy, SparesItself, QuotaPCs, RuntimePCs

LEMMA ListConsumersFresh ==
    ASSUME IInv, FreshInvariant, NEW a \in Actors, ListConsumers(a)
    PROVE  FreshInvariant'
<1> DEFINE n == Cardinality(consumers)
           peers == {w \in consumers : stableLiveProviderState(rows[w])
                                       /\ ~(op[a].starting /\ w = a)}
<1>1. /\ UNCHANGED <<rows, drain, faults>> /\ op[a].pc = "list"
      /\ \/ /\ op' = [op EXCEPT ![a].pc = "quota",
                                ![a].target = IF n = 0 THEN 0 ELSE share(n),
                                ![a].todo = peers]
            /\ KeepGates
         \/ Return(a)
  BY DEF ListConsumers
<1>2. CASE /\ op' = [op EXCEPT ![a].pc = "quota",
                               ![a].target = IF n = 0 THEN 0 ELSE share(n),
                               ![a].todo = peers]
           /\ KeepGates
  <2>1. PICK t, todo : t = (IF n = 0 THEN 0 ELSE share(n)) /\ todo = peers
    OBVIOUS
  <2>2. PICK o : o = [op[a] EXCEPT !.pc = "quota", !.target = t, !.todo = todo]
    OBVIOUS
  <2>3. /\ o.pc = "quota" /\ o.todo = todo /\ o.cur = op[a].cur /\ o.row = op[a].row
        /\ o.starting = op[a].starting
    BY <2>2, ActorTypes DEF Op
  <2>4. op' = [op EXCEPT ![a] = o] /\ runtimeGate' = runtimeGate /\ rows' = rows
    BY <1>1, <1>2, <2>1, <2>2 DEF KeepGates
  <2>5. op[a].pc \in QuotaPCs /\ o.pc \in QuotaPCs
    BY <1>1, <2>3 DEF QuotaPCs
  <2>6. op[a].starting => a \notin todo
    BY <2>1
  <2>7. a \in Workspaces => /\ UsesPrivateCopy(o) => Fresh(o.row, rows'[a])
                            /\ SparesItself(o, a)
    BY <2>3, <2>4, <2>5, <2>6, StartingCopy DEF UsesPrivateCopy, SparesItself
  <2>. QED BY <2>4, <2>5, <2>7, RebalancerFresh
<1>3. CASE Return(a)
  BY <1>1, <1>3, ReturnedFresh DEF WritesOnly
<1>. QED BY <1>1, <1>2, <1>3

LEMMA RaiseQuotaFresh ==
    ASSUME IInv, FreshInvariant, NEW a \in Actors, NEW w \in Workspaces, RaiseQuota(a, w)
    PROVE  FreshInvariant'
<1>1. PICK q : q = IF rows[w].quota > op[a].target THEN rows[w].quota ELSE op[a].target
  OBVIOUS
<1>2. rows' = [rows EXCEPT ![w].quota = q] /\ w \in op[a].todo /\ op[a].pc = "quota"
  BY <1>1 DEF RaiseQuota
<1>3. PICK o : o = [op[a] EXCEPT !.pc = "apply", !.todo = @ \ {w}, !.cur = w]
  OBVIOUS
<1>4. /\ o.pc = "apply" /\ o.todo \subseteq op[a].todo /\ o.cur = w /\ o.row = op[a].row
      /\ o.starting = op[a].starting
  BY <1>3, ActorTypes DEF Op
<1>5. op' = [op EXCEPT ![a] = o] /\ runtimeGate' = runtimeGate
  BY <1>3 DEF RaiseQuota, KeepGates
<1>6. op[a].pc \in QuotaPCs /\ o.pc \in QuotaPCs
  BY <1>2, <1>4 DEF QuotaPCs
<1>7. ASSUME a \in Workspaces, op[a].starting
      PROVE  Fresh(o.row, rows'[a]) /\ SparesItself(o, a)
  <2>1. Fresh(op[a].row, rows[a]) /\ a \notin op[a].todo /\ w # a
    BY <1>2, <1>6, <1>7, StartingCopy
  <2>2. rows'[a] = rows[a]
    BY <1>2, <1>7, <2>1 DEF IInv, TypeOK
  <2>. QED BY <1>4, <2>1, <2>2 DEF SparesItself
<1>8. a \in Workspaces => /\ UsesPrivateCopy(o) => Fresh(o.row, rows'[a])
                          /\ SparesItself(o, a)
  BY <1>4, <1>6, <1>7 DEF UsesPrivateCopy, SparesItself
<1>. QED BY <1>5, <1>6, <1>8, RebalancerFresh

LEMMA ShrinkQuotaFresh ==
    ASSUME IInv, FreshInvariant, NEW a \in Actors, ShrinkQuota(a)
    PROVE  FreshInvariant'
<1>1. PICK v \in Workspaces \cup {None} : v = op[a].cur
  BY ActorTypes DEF Op
<1>0. PICK q : q = op[a].target
  OBVIOUS
<1>2. rows' = [rows EXCEPT ![v].quota = q] /\ op[a].pc = "shrink"
  BY <1>0, <1>1 DEF ShrinkQuota
<1>3. PICK o : o = [op[a] EXCEPT !.pc = "quota", !.cur = None]
  OBVIOUS
<1>4. /\ o.pc = "quota" /\ o.todo = op[a].todo /\ o.cur = None /\ o.row = op[a].row
      /\ o.starting = op[a].starting
  BY <1>3, ActorTypes DEF Op
<1>5. op' = [op EXCEPT ![a] = o] /\ runtimeGate' = runtimeGate
  BY <1>3 DEF ShrinkQuota, KeepGates
<1>6. op[a].pc \in QuotaPCs /\ o.pc \in QuotaPCs
  BY <1>2, <1>4 DEF QuotaPCs
<1>7. ASSUME a \in Workspaces, op[a].starting
      PROVE  Fresh(o.row, rows'[a]) /\ SparesItself(o, a)
  <2>1. Fresh(op[a].row, rows[a]) /\ a \notin op[a].todo /\ v # a
    BY <1>1, <1>6, <1>7, StartingCopy
  <2>2. rows'[a] = rows[a]
    BY <1>2, <1>7, <2>1 DEF IInv, TypeOK
  <2>3. a # None
    BY <1>7, ConstantsAssumption
  <2>. QED BY <1>4, <2>1, <2>2, <2>3 DEF SparesItself
<1>8. a \in Workspaces => /\ UsesPrivateCopy(o) => Fresh(o.row, rows'[a])
                          /\ SparesItself(o, a)
  BY <1>4, <1>6, <1>7 DEF UsesPrivateCopy, SparesItself
<1>. QED BY <1>5, <1>6, <1>8, RebalancerFresh

LEMMA ApplyQuotaFresh ==
    ASSUME IInv, FreshInvariant, NEW a \in Actors, ApplyQuota(a) \/ FinishQuota(a)
    PROVE  FreshInvariant'
<1>1. rows' = rows
  BY DEF ApplyQuota, FinishQuota, GiveUp
<1>2. Return(a) \/ (op[a].pc = "apply" /\ Goto(a, "shrink") /\ KeepGates)
  BY DEF ApplyQuota, FinishQuota, GiveUp
<1>3. CASE Return(a)
  BY <1>1, <1>3, ReturnedFresh DEF WritesOnly
<1>4. CASE op[a].pc = "apply" /\ Goto(a, "shrink") /\ KeepGates
  <2>1. PICK o : o = [op[a] EXCEPT !.pc = "shrink"]
    OBVIOUS
  <2>2. /\ o.pc = "shrink" /\ o.todo = op[a].todo /\ o.cur = op[a].cur /\ o.row = op[a].row
        /\ o.starting = op[a].starting
    BY <2>1, ActorTypes DEF Op
  <2>3. op' = [op EXCEPT ![a] = o] /\ runtimeGate' = runtimeGate
    BY <1>4, <2>1 DEF Goto, KeepGates
  <2>4. op[a].pc \in QuotaPCs /\ o.pc \in QuotaPCs
    BY <1>4, <2>2 DEF QuotaPCs
  <2>5. a \in Workspaces => /\ UsesPrivateCopy(o) => Fresh(o.row, rows'[a])
                            /\ SparesItself(o, a)
    BY <1>1, <2>2, <2>4, StartingCopy DEF UsesPrivateCopy, SparesItself
  <2>. QED BY <2>3, <2>4, <2>5, RebalancerFresh
<1>. QED BY <1>2, <1>3, <1>4

LEMMA QuotaWrittenFresh ==
    ASSUME NEW c \in Row, NEW s \in Row, NEW q \in 0..Pool, Fresh(c, s)
    PROVE  Fresh([c EXCEPT !.quota = q], [s EXCEPT !.quota = q])
BY DEF Fresh, Row

LEMMA FinishStartQuotaFresh ==
    ASSUME IInv, FreshInvariant, NEW w \in Workspaces, FinishStartQuota(w)
    PROVE  FreshInvariant'
<1>1. PICK q \in 0..Pool : q = op[w].target
  BY Types, ActorTypes
<1>2. PICK r : r = [op[w].row EXCEPT !.quota = q]
  OBVIOUS
<1>3. PICK pc : pc = IF r.prov THEN "save_start_pending" ELSE "save_unconfirmed"
  OBVIOUS
<1>4. PICK o : o = [op[w] EXCEPT !.row = r, !.starting = FALSE, !.target = 0, !.pc = pc]
  OBVIOUS
<1>5. /\ op' = [op EXCEPT ![w] = o] /\ runtimeGate' = runtimeGate
      /\ rows' = [rows EXCEPT ![w].quota = q] /\ op[w].pc = "quota" /\ op[w].starting
  BY <1>1, <1>2, <1>3, <1>4 DEF FinishStartQuota, KeepGates
<1>6. o.row = r /\ o.todo = op[w].todo /\ o.cur = op[w].cur
  BY <1>4, Types DEF Op
<1>7. op[w].pc \in QuotaPCs /\ w \in Actors
  BY <1>5 DEF QuotaPCs, Actors
<1>8. Fresh(op[w].row, rows[w]) /\ w \notin op[w].todo /\ w # op[w].cur
  BY <1>5, <1>7, StartingCopy
<1>9. rows'[w] = [rows[w] EXCEPT !.quota = q]
  BY <1>5 DEF IInv, TypeOK
<1>10. Fresh(o.row, rows'[w])
  BY <1>2, <1>6, <1>8, <1>9, Types, QuotaWrittenFresh
<1>11. SparesItself(o, w)
  BY <1>6, <1>8 DEF SparesItself
<1>. QED BY <1>5, <1>7, <1>10, <1>11, RebalancerFresh

\* Before runtimeGate is held nothing is said of the copy.
LEMMA WaitingFresh ==
    ASSUME IInv, FreshInvariant, NEW w \in Workspaces, NEW o, op' = [op EXCEPT ![w] = o],
           WritesOnly(w), runtimeGate' = runtimeGate,
           o.todo = op[w].todo, o.cur = op[w].cur,
           op[w].pc \notin QuotaPCs, o.pc \notin RuntimePCs
    PROVE  FreshInvariant'
<1>1. ~UsesPrivateCopy(o)
  BY DEF UsesPrivateCopy
<1>2. SparesItself(o, w)
  BY DEF SparesItself, FreshInvariant
<1>. QED BY <1>1, <1>2, MovedFresh

WaitingPCs == {"idle", "wait_admission", "decide", "commit", "inputs", "wait_runtime",
               "save_denied"}

LEMMA WaitingPCsFacts == \A pc \in WaitingPCs : pc \notin RuntimePCs /\ pc \notin QuotaPCs
BY DEF WaitingPCs, RuntimePCs, QuotaPCs

LEMMA BeginFresh ==
    ASSUME IInv, FreshInvariant, NEW w \in Workspaces, NEW kind, NEW pc \in WaitingPCs,
           Begin(w, kind, pc)
    PROVE  FreshInvariant'
<1>1. PICK r : r = rows[w]
  OBVIOUS
<1>2. PICK o : o = [op[w] EXCEPT !.kind = kind, !.row = r, !.pc = pc]
  OBVIOUS
<1>3. /\ op' = [op EXCEPT ![w] = o] /\ runtimeGate' = runtimeGate /\ op[w].pc = "idle"
      /\ rows' = rows
  BY <1>1, <1>2 DEF Begin, KeepGates
<1>4. o.pc = pc /\ o.todo = op[w].todo /\ o.cur = op[w].cur
  BY <1>2, Types DEF Op
<1>5. op[w].pc \in WaitingPCs
  BY <1>3 DEF WaitingPCs
<1>. QED BY <1>3, <1>4, <1>5, WaitingPCsFacts, WaitingFresh DEF WritesOnly

LEMMA CreateFresh ==
    ASSUME IInv, FreshInvariant, NEW w \in Workspaces, Create(w)
    PROVE  FreshInvariant'
<1>1. PICK dev, inputs :
         op' = [op EXCEPT ![w].kind = "create", ![w].pc = "wait_admission",
                          ![w].row = [NoRow EXCEPT !.state = "queued", !.dev = dev,
                                                   !.inputs = inputs]]
  BY Zenon DEF Create
<1>2. PICK r : r = [NoRow EXCEPT !.state = "queued", !.dev = dev, !.inputs = inputs]
  OBVIOUS
<1>3. PICK o : o = [op[w] EXCEPT !.kind = "create", !.pc = "wait_admission", !.row = r]
  OBVIOUS
<1>4. op' = [op EXCEPT ![w] = o]
  BY <1>1, <1>2, <1>3
<1>5. o.pc = "wait_admission" /\ o.todo = op[w].todo /\ o.cur = op[w].cur
  BY <1>3, Types DEF Op
<1>6. rows' = rows /\ runtimeGate' = runtimeGate /\ op[w].pc = "idle"
  BY Zenon DEF Create, KeepGates
<1>7. op[w].pc \in WaitingPCs /\ o.pc \in WaitingPCs
  BY <1>5, <1>6 DEF WaitingPCs
<1>. QED BY <1>4, <1>5, <1>6, <1>7, WaitingPCsFacts, WaitingFresh DEF WritesOnly

LEMMA acquireAdmissionFresh ==
    ASSUME IInv, FreshInvariant, NEW w \in Workspaces, acquireAdmission(w)
    PROVE  FreshInvariant'
<1>1. PICK pc \in WaitingPCs :
         pc = IF op[w].kind = "reconcile" THEN "wait_runtime" ELSE "decide"
  BY DEF WaitingPCs
<1>2. /\ Goto(w, pc) /\ rows' = rows /\ runtimeGate' = runtimeGate
      /\ op[w].pc = "wait_admission"
  BY <1>1 DEF acquireAdmission
<1>3. op[w].pc \in WaitingPCs
  BY <1>2 DEF WaitingPCs
<1>. QED BY <1>2, <1>3, WaitingPCsFacts, GotoFresh

LEMMA DecideFresh ==
    ASSUME IInv, FreshInvariant, NEW w \in Workspaces, NEW diskOK \in BOOLEAN,
           Decide(w, diskOK)
    PROVE  FreshInvariant'
<1>1. /\ op[w].pc = "decide"
      /\ \/ Return(w) /\ WritesOnly(w)
         \/ /\ \E n : op' = [op EXCEPT ![w].row = n, ![w].pc = "commit"]
            /\ KeepGates /\ UNCHANGED rows
  BY DEF Decide, WritesOnly
<1>2. CASE Return(w) /\ WritesOnly(w)
  BY <1>2, ReturnedFresh DEF Actors
<1>3. ASSUME NEW n, op' = [op EXCEPT ![w].row = n, ![w].pc = "commit"], KeepGates,
             UNCHANGED rows
      PROVE  FreshInvariant'
  <2>1. PICK o : o = [op[w] EXCEPT !.row = n, !.pc = "commit"]
    OBVIOUS
  <2>2. op' = [op EXCEPT ![w] = o] /\ runtimeGate' = runtimeGate /\ WritesOnly(w)
    BY <1>3, <2>1 DEF KeepGates, WritesOnly
  <2>3. o.pc = "commit" /\ o.todo = op[w].todo /\ o.cur = op[w].cur
    BY <2>1, Types DEF Op
  <2>4. op[w].pc \in WaitingPCs /\ o.pc \in WaitingPCs
    BY <1>1, <2>3 DEF WaitingPCs
  <2>. QED BY <2>2, <2>3, <2>4, WaitingPCsFacts, WaitingFresh
<1>. QED BY <1>1, <1>2, <1>3

\* The Saves made before runtimeGate is awaited.
LEMMA EarlySavesFresh ==
    ASSUME IInv, FreshInvariant, NEW w \in Workspaces,
           Commit(w) \/ PrepareInputs(w) \/ SaveDenied(w)
    PROVE  FreshInvariant'
<1>1. op[w].pc \in WaitingPCs /\ "inputs" \in WaitingPCs /\ "wait_runtime" \in WaitingPCs
  BY DEF Commit, PrepareInputs, SaveDenied, WaitingPCs
<1>2. \/ \E r : \E pc \in WaitingPCs : Save(w, r, pc)
      \/ Return(w) /\ WritesOnly(w)
  <2>1. CASE Commit(w)
    BY <1>1, <2>1, Zenon DEF Commit, SaveAndReturn, WritesOnly
  <2>2. CASE PrepareInputs(w)
    BY <1>1, <2>2, Zenon DEF PrepareInputs, SaveAndReturn, WritesOnly
  <2>3. CASE SaveDenied(w)
    BY <2>3, Zenon DEF SaveDenied, SaveAndReturn, WritesOnly
  <2>. QED BY <2>1, <2>2, <2>3
<1>3. CASE Return(w) /\ WritesOnly(w)
  BY <1>3, ReturnedFresh DEF Actors
<1>4. ASSUME NEW r, NEW pc \in WaitingPCs, Save(w, r, pc)
      PROVE  FreshInvariant'
  BY <1>1, <1>4, WaitingPCsFacts, SavedFresh
<1>. QED BY <1>2, <1>3, <1>4

LEMMA FlippedFresh ==
    ASSUME NEW c \in Row, NEW s \in Row, NEW st \in LiveStates, s.state \in LiveStates,
           Fresh(c, s)
    PROVE  Fresh(c, [s EXCEPT !.state = st])
BY DEF Fresh, Row, LiveStates

\* TouchActivity and MarkIdleIfInactive: the one write an operation may overlook.
LEMMA FlipFresh ==
    ASSUME IInv, FreshInvariant, NEW w \in Workspaces,
           TouchActivity(w) \/ MarkIdleIfInactive(w)
    PROVE  FreshInvariant'
<1>1. op' = op /\ runtimeGate' = runtimeGate
  BY DEF TouchActivity, MarkIdleIfInactive, KeepGates
<1>2. PICK st \in LiveStates : rows' = [rows EXCEPT ![w].state = st] /\ rows[w].state \in LiveStates
  BY DEF TouchActivity, MarkIdleIfInactive, LiveStates
<1>3. ASSUME NEW v \in Workspaces, UsesPrivateCopy(op[v])
      PROVE  Fresh(op[v].row, rows'[v])
  <2>1. Fresh(op[v].row, rows[v])
    BY <1>3 DEF FreshInvariant
  <2>2. CASE v = w
    <3>1. rows'[v] = [rows[v] EXCEPT !.state = st]
      BY <1>2, <2>2 DEF IInv, TypeOK
    <3>2. PICK c \in Row, s \in Row : c = op[v].row /\ s = rows[v]
      BY Types
    <3>3. s.state \in LiveStates /\ Fresh(c, s)
      BY <1>2, <2>1, <2>2, <3>2
    <3>4. Fresh(c, [s EXCEPT !.state = st])
      BY <3>3, FlippedFresh
    <3>. QED BY <3>1, <3>2, <3>4
  <2>3. CASE v # w
    BY <1>2, <2>1, <2>3 DEF IInv, TypeOK
  <2>. QED BY <2>2, <2>3
<1>. QED BY <1>1, <1>3 DEF FreshInvariant

LEMMA RequestFresh ==
    ASSUME IInv, FreshInvariant, NEW w \in Workspaces, Request(w)
    PROVE  FreshInvariant'
<1>1. CASE Create(w)
  BY <1>1, CreateFresh
<1>2. CASE \/ ApproveSetup(w) \/ DenySetup(w) \/ Retry(w) \/ Resume(w) \/ Suspend(w)
           \/ SuspendIfInactive(w) \/ Delete(w) \/ ReconcileMaintenanceDrain(w)
  <2>1. "wait_admission" \in WaitingPCs /\ "save_denied" \in WaitingPCs
        /\ "wait_runtime" \in WaitingPCs
    BY DEF WaitingPCs
  <2>2. \E kind : \E pc \in WaitingPCs : Begin(w, kind, pc)
    BY <1>2, <2>1, Zenon DEF ApproveSetup, DenySetup, Retry, Resume, Suspend, SuspendIfInactive,
                             Delete, ReconcileMaintenanceDrain
  <2>. QED BY <2>2, BeginFresh
<1>3. CASE RetryQuarantine(w)
  <2>1. /\ op' = op /\ runtimeGate' = runtimeGate /\ op[w].pc = "idle"
        /\ rows' = [rows EXCEPT ![w] = quarantined(rows[w])]
    BY <1>3 DEF RetryQuarantine, KeepGates
  <2>2. op[w].pc \in WaitingPCs
    BY <2>1 DEF WaitingPCs
  <2>3. op' = [op EXCEPT ![w] = op[w]]
    BY <2>1 DEF IInv, TypeOK
  <2>. QED BY <2>1, <2>2, <2>3, WaitingPCsFacts, WaitingFresh DEF WritesOnly
<1>4. CASE TouchActivity(w) \/ MarkIdleIfInactive(w)
  BY <1>4, FlipFresh
<1>. QED BY <1>1, <1>2, <1>3, <1>4 DEF Request

LEMMA StepFresh ==
    ASSUME IInv, FreshInvariant, NEW w \in Workspaces, Step(w)
    PROVE  FreshInvariant'
<1>1. w \in Actors
  BY DEF Actors
<1>2. CASE acquireAdmission(w) \/ acquireRuntime(w) \/ Decide(w, TRUE)
  BY <1>2, acquireAdmissionFresh, acquireRuntimeFresh, DecideFresh
<1>3. CASE Commit(w) \/ PrepareInputs(w) \/ SaveDenied(w)
  BY <1>3, EarlySavesFresh
<1>4. CASE \/ ListConsumers(w) \/ (\E v \in Workspaces : RaiseQuota(w, v)) \/ ApplyQuota(w)
           \/ ShrinkQuota(w) \/ FinishQuota(w) \/ FinishStartQuota(w)
  BY <1>1, <1>4, ListConsumersFresh, RaiseQuotaFresh, ApplyQuotaFresh, ShrinkQuotaFresh,
     FinishStartQuotaFresh
<1>5. CASE \/ SetupStop(w) \/ CleanupStop(w) \/ SuspendStop(w) \/ DrainStop(w)
           \/ ReconcileLookup(w) \/ DeleteLookup(w) \/ DrainLookup(w)
           \/ CallProvision(w) \/ CallDelete(w)
  BY <1>5, StopsFresh
<1>6. CASE CallStart(w) \/ CallInitialize(w) \/ Provision(w)
  BY <1>6, StartsFresh, ProvisionFresh
<1>7. CASE \/ SaveUnconfirmed(w) \/ SaveProvisioned(w)
           \/ markProviderStartPending(w) \/ SaveRunning(w) \/ SaveSetupPending(w)
           \/ SaveAwaiting(w) \/ SaveCleanup(w) \/ SaveFailed(w) \/ ReconcileProvisioning(w)
           \/ SaveFound(w) \/ SaveReserved(w) \/ SaveSuspending(w) \/ SaveSuspended(w)
           \/ SaveDrainFound(w) \/ persistMaintenanceDrainResult(w)
  BY <1>7, SavesFresh
<1>8. CASE \/ SaveDeleting(w) \/ SaveDeleteFound(w) \/ FinalizeDelete(w) \/ DrainWorkspace(w)
           \/ StartSuspension(w)
  BY <1>8, DeletesFresh
<1>. QED BY <1>2, <1>3, <1>4, <1>5, <1>6, <1>7, <1>8 DEF Step

LEMMA NextFresh ==
    ASSUME IInv, FreshInvariant, [Next]_vars
    PROVE  FreshInvariant'
<1>1. CASE \E w \in Workspaces : Request(w) \/ Step(w) \/ Decide(w, FALSE)
  BY <1>1, RequestFresh, StepFresh, DecideFresh
<1>2. CASE LifecycleStep
  <2>1. Lifecycle \in Actors /\ Lifecycle \notin Workspaces
    BY ConstantsAssumption DEF Actors
  <2>2. CASE ReconcileCapacity
    <3>1. /\ op' = [op EXCEPT ![Lifecycle].pc = "list"] /\ rows' = rows
          /\ runtimeGate = None /\ runtimeGate' = Lifecycle
      BY <2>2 DEF ReconcileCapacity, Goto
    <3>2. \A v \in Actors : v # Lifecycle => op'[v] = op[v]
      BY <3>1 DEF IInv, TypeOK
    <3>3. Others(Lifecycle) /\ Own(Lifecycle)
      BY <2>1, <3>1, <3>2 DEF Others, Own
    <3>. QED BY <2>1, <3>3, OthersOwn
  <2>. QED BY <1>2, <2>1, <2>2, ListConsumersFresh, RaiseQuotaFresh, ApplyQuotaFresh,
              ShrinkQuotaFresh DEF LifecycleStep
<1>3. CASE SetMaintenanceDrain \/ BeginMaintenanceDrain \/ UNCHANGED vars
  <2>1. rows' = rows /\ op' = op /\ runtimeGate' = runtimeGate
    BY <1>3 DEF SetMaintenanceDrain, BeginMaintenanceDrain, vars, KeepGates
  <2>. QED BY <2>1 DEF FreshInvariant
<1>4. CASE \E a \in Actors : StoreError(a)
  BY <1>4, ReturnedFresh DEF StoreError, WritesOnly
<1>5. CASE Crash
  <2>1. op' = [a \in Actors |-> NoOp]
    BY <1>5 DEF Crash
  <2>. QED BY <2>1, NoOpFresh DEF FreshInvariant, Actors
<1>. QED BY <1>1, <1>2, <1>3, <1>4, <1>5 DEF Next

LEMMA FreshInvariance == Spec => []FreshInvariant
<1>1. Init => FreshInvariant
  BY NoOpFresh DEF Init, FreshInvariant, Actors
<1>2. IInv /\ FreshInvariant /\ [Next]_vars => FreshInvariant'
  BY NextFresh
<1>. QED BY <1>1, <1>2, Invariance, PTL DEF Spec

\* A full-row Save never carries stale data: whatever runs beside an operation,
\* its private copy is the durable row until its last Save, apart from the
\* running/idle flip.
THEOREM SavesAreFresh == Spec => []PrivateCopyIsFresh
<1>1. FreshInvariant => PrivateCopyIsFresh
  BY DEF FreshInvariant, PrivateCopyIsFresh
<1>. QED BY <1>1, FreshInvariance, PTL

-----------------------------------------------------------------------------
(* The drain.  Only the maintenance boundary and a restart change it.         *)

LEMMA StepKeepsDrain ==
    ASSUME NEW w, Step(w)
    PROVE  drain' = drain
<1>1. CASE SaveDenied(w) \/ acquireAdmission(w) \/ acquireRuntime(w)
  BY <1>1 DEF SaveDenied, SaveAndReturn, acquireAdmission, acquireRuntime
<1>2. CASE Decide(w, TRUE) \/ Commit(w) \/ PrepareInputs(w)
  BY <1>2, Zenon DEF Decide, Commit, PrepareInputs, Save, SaveAndReturn
<1>3. CASE \/ ListConsumers(w) \/ (\E v \in Workspaces : RaiseQuota(w, v)) \/ ApplyQuota(w)
           \/ ShrinkQuota(w) \/ FinishQuota(w) \/ FinishStartQuota(w)
  BY <1>3, Zenon DEF ListConsumers, RaiseQuota, ApplyQuota, ShrinkQuota, FinishQuota, GiveUp,
                     FinishStartQuota
<1>4. CASE \/ Provision(w) \/ SaveUnconfirmed(w) \/ CallProvision(w) \/ SaveProvisioned(w)
           \/ markProviderStartPending(w) \/ CallStart(w) \/ CallInitialize(w)
  BY <1>4, Zenon DEF Provision, SaveUnconfirmed, CallProvision, SaveProvisioned,
                     markProviderStartPending, CallStart, CallInitialize, Save
<1>5. CASE SaveRunning(w) \/ SetupStop(w) \/ SaveSetupPending(w) \/ SaveAwaiting(w)
  BY <1>5, Zenon DEF SaveRunning, SetupStop, SaveSetupPending, SaveAwaiting, SaveAndReturn,
                     SaveAndRebalance, StopAndWait
<1>6. CASE SaveCleanup(w) \/ CleanupStop(w) \/ SaveFailed(w)
  BY <1>6, Zenon DEF SaveCleanup, CleanupStop, SaveFailed, Save, SaveAndRebalance, StopAndWait
<1>7. CASE ReconcileProvisioning(w) \/ ReconcileLookup(w) \/ SaveFound(w) \/ SaveReserved(w)
  BY <1>7, Zenon DEF ReconcileProvisioning, ReconcileLookup, SaveFound, SaveReserved, Save,
                     SaveAndReturn, Continue, Lookup
<1>8. CASE StartSuspension(w) \/ SaveSuspending(w) \/ SuspendStop(w) \/ SaveSuspended(w)
  BY <1>8, Zenon DEF StartSuspension, SaveSuspending, SuspendStop, SaveSuspended, Save,
                     SaveAndRebalance, Continue, GiveUp, StopAndWait
<1>9. CASE \/ SaveDeleting(w) \/ DeleteLookup(w) \/ SaveDeleteFound(w) \/ CallDelete(w)
           \/ FinalizeDelete(w)
  BY <1>9, Zenon DEF SaveDeleting, DeleteLookup, SaveDeleteFound, CallDelete, FinalizeDelete,
                     Save, SaveAndRebalance, Continue, Lookup
<1>10. CASE \/ DrainWorkspace(w) \/ DrainLookup(w) \/ SaveDrainFound(w) \/ DrainStop(w)
            \/ persistMaintenanceDrainResult(w)
  BY <1>10, Zenon DEF DrainWorkspace, DrainLookup, SaveDrainFound, DrainStop,
                      persistMaintenanceDrainResult, Save, SaveAndReturn, SaveAndRebalance,
                      Continue, GiveUp, Lookup, StopAndWait
<1>. QED BY <1>1, <1>2, <1>3, <1>4, <1>5, <1>6, <1>7, <1>8, <1>9, <1>10 DEF Step

LEMMA RequestKeepsDrain ==
    ASSUME NEW w, Request(w)
    PROVE  drain' = drain
BY Zenon DEF Request, Create, ApproveSetup, DenySetup, RetryQuarantine, Retry, Resume, Suspend,
             SuspendIfInactive, Delete, ReconcileMaintenanceDrain, TouchActivity,
             MarkIdleIfInactive, Begin

LEMMA LifecycleKeepsDrain ==
    ASSUME LifecycleStep
    PROVE  drain' = drain
BY Zenon DEF LifecycleStep, ReconcileCapacity, ListConsumers, RaiseQuota, ApplyQuota, ShrinkQuota,
             FinishQuota, GiveUp

\* Nothing new is about to be committed.
LEMMA AloneKeepsDrain ==
    ASSUME DrainInvariant, NEW a, Alone(a), drain' = drain
    PROVE  DrainInvariant'
BY DEF DrainInvariant, Alone, AdmittingPCs

LEMMA DecideKeepsDrain ==
    ASSUME IInv, DrainInvariant, NEW w \in Workspaces, NEW diskOK \in BOOLEAN,
           Decide(w, diskOK)
    PROVE  DrainInvariant' /\ drain' = drain
<1>1. drain' = drain
  BY Zenon DEF Decide
<1>2. SUFFICES ASSUME drain \in {"crossing", "drained"}, NEW v \in Workspaces,
                      op'[v].pc = "commit"
               PROVE  op'[v].row.state # "provisioning"
  BY <1>1 DEF DrainInvariant
<1>3. ~PlanStart(diskOK).admitted
  BY <1>2 DEF PlanStart
<1>4. PICK r \in Row : r = IF op[w].kind = "create" THEN op[w].row ELSE rows[w]
  BY Types
<1>5. \/ Return(w)
      \/ op' = [op EXCEPT ![w].row = [r EXCEPT !.quota = PlanStart(diskOK).quota,
                                               !.approved = @ \/ op[w].kind = "approve",
                                               !.state = "queued", !.code = "other"],
                          ![w].pc = "commit"]
  BY <1>3, <1>4 DEF Decide
<1>6. CASE v # w
  <2>1. op'[v] = op[v]
    BY <1>5, <1>6 DEF Return, IInv, TypeOK, Actors
  <2>. QED BY <1>2, <2>1 DEF DrainInvariant
<1>7. CASE v = w /\ Return(w)
  <2>1. op'[v] = NoOp
    BY <1>7 DEF Return, IInv, TypeOK, Actors
  <2>2. NoOp.pc = "idle"
    BY DEF NoOp
  <2>. QED BY <1>2, <2>1, <2>2
<1>8. CASE v = w /\ ~Return(w)
  <2>1. PICK n : n = [r EXCEPT !.quota = PlanStart(diskOK).quota,
                               !.approved = @ \/ op[w].kind = "approve",
                               !.state = "queued", !.code = "other"]
    OBVIOUS
  <2>2. n.state = "queued"
    BY <2>1 DEF Row
  <2>3. PICK o : o = [op[w] EXCEPT !.row = n, !.pc = "commit"]
    OBVIOUS
  <2>4. o.row = n
    BY <2>3, Types DEF Op
  <2>5. op' = [op EXCEPT ![w] = o]
    BY <1>5, <1>8, <2>1, <2>3
  <2>6. op'[v] = o
    BY <1>8, <2>5 DEF IInv, TypeOK, Actors
  <2>. QED BY <2>2, <2>4, <2>6
<1>. QED BY <1>6, <1>7, <1>8

LEMMA NextKeepsDrain ==
    ASSUME IInv, AdmissionInvariant, DrainInvariant, [Next]_vars
    PROVE  DrainInvariant'
<1>1. ASSUME NEW w \in Workspaces, Step(w)
      PROVE  DrainInvariant'
  <2>1. drain' = drain
    BY <1>1, StepKeepsDrain
  <2>2. CASE acquireAdmission(w)
    <3>1. \A v \in Workspaces : op'[v].pc = "commit" => op'[v] = op[v]
      BY <2>2 DEF acquireAdmission, Goto, IInv, TypeOK, Op, Actors
    <3>. QED BY <2>1, <3>1 DEF DrainInvariant
  <2>3. CASE Decide(w, TRUE)
    BY <2>3, DecideKeepsDrain
  <2>4. CASE Commit(w)
    <3>1. \A pc \in {"inputs", "wait_runtime"} : pc \notin AdmittingPCs
      BY DEF AdmittingPCs
    <3>2. Alone(w)
      BY <2>4, <3>1, SaveAlone, ReturningAlone DEF Commit
    <3>. QED BY <2>1, <3>2, AloneKeepsDrain
  <2>. QED BY <1>1, <2>1, <2>2, <2>3, <2>4, StepQuiet, AloneKeepsDrain
<1>2. ASSUME NEW w \in Workspaces, Request(w)
      PROVE  DrainInvariant'
  BY <1>2, RequestQuiet, RequestKeepsDrain, AloneKeepsDrain
<1>3. CASE LifecycleStep
  BY <1>3, LifecycleQuiet, LifecycleKeepsDrain, AloneKeepsDrain
<1>4. CASE \E a \in Actors : StoreError(a)
  BY <1>4, ReturnAlone, AloneKeepsDrain DEF StoreError
<1>5. CASE SetMaintenanceDrain \/ UNCHANGED vars
  BY <1>5 DEF SetMaintenanceDrain, vars, DrainInvariant
<1>6. CASE BeginMaintenanceDrain
  <2>1. op' = op
    BY <1>6 DEF BeginMaintenanceDrain
  <2>2. CASE drain \in {"crossing", "drained"}
    BY <2>1, <2>2 DEF DrainInvariant
  <2>3. CASE drain = "flagged"
    <3>1. admissionGate = None
      BY <1>6, <2>3 DEF BeginMaintenanceDrain
    <3>2. \A v \in Workspaces : op[v].pc # "commit"
      BY <3>1, ConstantsAssumption DEF AdmissionInvariant, AdmittingPCs
    <3>. QED BY <2>1, <3>2 DEF DrainInvariant
  <2>. QED BY <1>6, <2>2, <2>3 DEF BeginMaintenanceDrain
<1>7. CASE Crash
  <2>1. \A v \in Workspaces : op'[v] = NoOp
    BY <1>7 DEF Crash, Actors
  <2>2. NoOp.pc = "idle"
    BY DEF NoOp
  <2>. QED BY <2>1, <2>2 DEF DrainInvariant
<1>. QED BY <1>1, <1>2, <1>3, <1>4, <1>5, <1>6, <1>7, DecideKeepsDrain DEF Next

-----------------------------------------------------------------------------
(* Refinement.  Every write of a row is a move of WorkspaceLifecycle or none, *)
(* and every other step leaves the lifecycle alone or moves the drain.        *)

AbstractStep == [Abstract!LifecycleNext]_(Abstract!lifecycleVars)

\* The move from row r to row s.
LifecycleMove(r, s) ==
    LET from == lifecycleState(r)
        to == lifecycleState(s)
    IN \/ from = to
       \/ from = "off" /\ to = "provisioning" /\ drain # "drained"
       \/ from = "provisioning" /\ to \in {"live", "off"}
       \/ from = "live" /\ to = "suspending"
       \/ from = "suspending" /\ to = "off"
       \/ from \notin {"deleting", "gone"} /\ to = "deleting"
       \/ from = "deleting" /\ to = "gone"

LEMMA LifecycleStates ==
    ASSUME NEW r
    PROVE  lifecycleState(r) \in Abstract!WorkspaceStates
BY DEF lifecycleState, Abstract!WorkspaceStates

LEMMA WriteRefines ==
    ASSUME IInv, NEW w \in Workspaces, NEW r, rows' = [rows EXCEPT ![w] = r], drain' = drain,
           LifecycleMove(rows[w], r)
    PROVE  AbstractStep
<1> DEFINE ws == [v \in Workspaces |-> lifecycleState(rows[v])]
<1>1. ws' = [ws EXCEPT ![w] = lifecycleState(r)]
  BY DEF IInv, TypeOK
<1>2. ws[w] = lifecycleState(rows[w]) /\ ws[w] \in Abstract!WorkspaceStates
  BY LifecycleStates
<1>3. CASE lifecycleState(r) = lifecycleState(rows[w])
  <2>1. ws' = ws
    BY <1>1, <1>2, <1>3
  <2>. QED BY <2>1 DEF AbstractStep, Abstract!lifecycleVars
<1>4. CASE lifecycleState(r) # lifecycleState(rows[w])
  <2>1. Abstract!WorkspaceStep(w)
    BY <1>1, <1>2, <1>4 DEF LifecycleMove, Abstract!WorkspaceStep, Abstract!Move, Abstract!Reserve,
       Abstract!Provisioned, Abstract!Abandoned, Abstract!Suspending, Abstract!Suspended,
       Abstract!Tombstoned, Abstract!Finalized
  <2>. QED BY <2>1 DEF AbstractStep, Abstract!LifecycleNext
<1>. QED BY <1>3, <1>4

LEMMA SameStatesRefine ==
    ASSUME \A v \in Workspaces : lifecycleState(rows'[v]) = lifecycleState(rows[v]),
           drain' = drain
    PROVE  AbstractStep
BY DEF AbstractStep, Abstract!lifecycleVars

LEMMA DrainRefines ==
    ASSUME rows' = rows
    PROVE  AbstractStep
BY DEF AbstractStep, Abstract!LifecycleNext, Abstract!SetClosed

LEMMA QuotaRefines ==
    ASSUME IInv, NEW u \in Workspaces \cup {None}, NEW q, rows' = [rows EXCEPT ![u].quota = q],
           drain' = drain
    PROVE  AbstractStep
<1>1. \A v \in Workspaces : rows'[v].state = rows[v].state
  BY DEF IInv, TypeOK, Row
<1>. QED BY <1>1, SameStatesRefine DEF lifecycleState

\* What the row's state becomes.
LEMMA RowMoves ==
    ASSUME NEW r, NEW s
    PROVE  /\ r.state = s.state => LifecycleMove(r, s)
           /\ r.state = "provisioning"
                 /\ s.state \in LiveStates \cup {"awaiting_setup_approval", "failed"}
              => LifecycleMove(r, s)
           /\ r.state \in RestStates /\ s.state \in RestStates => LifecycleMove(r, s)
           /\ r.state \in LiveStates /\ s.state = "suspending" => LifecycleMove(r, s)
           /\ r.state = "suspending" /\ s.state \in {"suspended", "failed"} => LifecycleMove(r, s)
           /\ Exists(r) /\ s.state = "deleting" => LifecycleMove(r, s)
           /\ r.state = "deleting" /\ s.state = "gone" => LifecycleMove(r, s)
           /\ r.state \in RestStates /\ s.state = "provisioning" /\ drain # "drained"
              => LifecycleMove(r, s)
BY DEF LifecycleMove, lifecycleState, RestStates, LiveStates, Exists

\* The Saves of a start and of a recovery that keep the row provisioning.
LEMMA ProvisioningRefines ==
    ASSUME IInv, NEW w \in Workspaces, drain' = drain,
           \/ SaveUnconfirmed(w) \/ SaveProvisioned(w) \/ markProviderStartPending(w)
           \/ SaveSetupPending(w) \/ SaveCleanup(w) \/ ReconcileProvisioning(w)
           \/ SaveFound(w) \/ SaveReserved(w) \/ SaveDrainFound(w) \/ SaveDeleteFound(w)
    PROVE  AbstractStep
<1>1. PICK c \in Row : c = op[w].row
  BY Types
<1>2. c.state = rows[w].state
  <2>1. op[w].pc \in {"save_unconfirmed", "save_provisioned", "save_start_pending",
                      "save_setup_pending", "save_cleanup", "reconcile", "save_found",
                      "save_reserved", "save_drain_found", "save_delete_found"}
    BY DEF SaveUnconfirmed, SaveProvisioned, markProviderStartPending, SaveSetupPending,
           SaveCleanup, ReconcileProvisioning, SaveFound, SaveReserved, SaveDrainFound,
           SaveDeleteFound
  <2>. QED BY <1>1, <2>1, Types DEF Facts, UsesPrivateCopy, RuntimePCs, QuotaPCs
<1>3. ASSUME NEW k
      PROVE  /\ [c EXCEPT !.code = k].state = c.state
             /\ [c EXCEPT !.prov = TRUE].state = c.state
  BY DEF Row
<1>4. ASSUME NEW k
      PROVE  [c EXCEPT !.prov = TRUE, !.code = k].state = c.state
  BY DEF Row
<1>5. \/ rows' = rows
      \/ \E k : rows' = [rows EXCEPT ![w] = [c EXCEPT !.code = k]]
      \/ \E k : rows' = [rows EXCEPT ![w] = [c EXCEPT !.prov = TRUE, !.code = k]]
      \/ rows' = [rows EXCEPT ![w] = [c EXCEPT !.prov = TRUE]]
  <2>1. CASE \/ SaveUnconfirmed(w) \/ markProviderStartPending(w) \/ SaveCleanup(w)
    BY <1>1, <2>1, Zenon DEF SaveUnconfirmed, markProviderStartPending, SaveCleanup, Save
  <2>2. CASE SaveSetupPending(w) \/ SaveReserved(w)
    BY <1>1, <2>2, Zenon DEF SaveSetupPending, SaveReserved, SaveAndReturn
  <2>3. CASE SaveProvisioned(w) \/ SaveFound(w)
    BY <1>1, <2>3, Zenon DEF SaveProvisioned, SaveFound, Save
  <2>4. CASE SaveDrainFound(w) \/ SaveDeleteFound(w)
    BY <1>1, <2>4, Zenon DEF SaveDrainFound, SaveDeleteFound, Save
  <2>5. CASE ReconcileProvisioning(w)
    BY <1>1, <2>5, Zenon DEF ReconcileProvisioning, Save, Continue
  <2>. QED BY <2>1, <2>2, <2>3, <2>4, <2>5, Zenon
<1>6. CASE rows' = rows
  BY <1>6, DrainRefines
<1>7. ASSUME NEW r, rows' = [rows EXCEPT ![w] = r], r.state = c.state
      PROVE  AbstractStep
  BY <1>2, <1>7, RowMoves, WriteRefines
<1>8. CASE rows' = [rows EXCEPT ![w] = [c EXCEPT !.prov = TRUE]]
  BY <1>3, <1>7, <1>8, Zenon
<1>9. CASE \E k : rows' = [rows EXCEPT ![w] = [c EXCEPT !.code = k]]
  BY <1>3, <1>7, <1>9, Zenon
<1>10. CASE \E k : rows' = [rows EXCEPT ![w] = [c EXCEPT !.prov = TRUE, !.code = k]]
  BY <1>4, <1>7, <1>10, Zenon
<1>. QED BY <1>5, <1>6, <1>8, <1>9, <1>10, Zenon

LEMMA QuarantinedState ==
    ASSUME NEW r \in Row
    PROVE  quarantined(r).state = "failed"
BY DEF quarantined, Row

\* The Saves that end a start, a suspension or a deletion.
LEMMA EndingsRefine ==
    ASSUME IInv, NEW w \in Workspaces, drain' = drain,
           \/ SaveRunning(w) \/ SaveAwaiting(w) \/ SaveFailed(w) \/ Provision(w)
           \/ SaveSuspending(w) \/ SaveSuspended(w) \/ FinalizeDelete(w)
           \/ persistMaintenanceDrainResult(w) \/ SaveDeleting(w) \/ DrainWorkspace(w)
           \/ SaveDenied(w)
    PROVE  AbstractStep
<1>1. PICK c \in Row, s \in Row : c = op[w].row /\ s = rows[w]
  BY Types
<1>2. Facts(op[w], s, phase[w])
  BY <1>1, Types
<1>3. CASE SaveRunning(w) \/ SaveAwaiting(w) \/ SaveFailed(w) \/ persistMaintenanceDrainResult(w)
  <2>1. s.state = "provisioning"
    BY <1>2, <1>3 DEF Facts, SaveRunning, SaveAwaiting, SaveFailed, persistMaintenanceDrainResult
  <2>2. \E k : \E st \in {"running", "awaiting_setup_approval", "failed"} :
           rows' = [rows EXCEPT ![w] = [c EXCEPT !.state = st, !.code = k]]
    BY <1>1, <1>3, Zenon DEF SaveRunning, SaveAwaiting, SaveFailed,
                             persistMaintenanceDrainResult, SaveAndRebalance
  <2>3. ASSUME NEW st \in {"running", "awaiting_setup_approval", "failed"}, NEW k,
               rows' = [rows EXCEPT ![w] = [c EXCEPT !.state = st, !.code = k]]
        PROVE  AbstractStep
    <3>1. [c EXCEPT !.state = st, !.code = k].state = st
      BY DEF Row
    <3>2. LifecycleMove(s, [c EXCEPT !.state = st, !.code = k])
      BY <2>1, <3>1, RowMoves DEF LiveStates
    <3>. QED BY <1>1, <2>3, <3>2, WriteRefines
  <2>. QED BY <2>2, <2>3, Zenon
<1>4. CASE SaveDenied(w)
  <2>1. s.state = "awaiting_setup_approval"
    BY <1>2, <1>4 DEF Facts, SaveDenied
  <2>2. rows' = [rows EXCEPT ![w] = [c EXCEPT !.state = "failed", !.code = "other"]]
    BY <1>1, <1>4 DEF SaveDenied, SaveAndReturn
  <2>3. [c EXCEPT !.state = "failed", !.code = "other"].state = "failed"
    BY DEF Row
  <2>4. LifecycleMove(s, [c EXCEPT !.state = "failed", !.code = "other"])
    BY <2>1, <2>3, RowMoves DEF RestStates
  <2>. QED BY <1>1, <2>2, <2>4, WriteRefines
<1>5. CASE Provision(w)
  <2>1. s.state = "provisioning"
    BY <1>2, <1>5 DEF Facts, Provision
  <2>2. rows' = rows \/ rows' = [rows EXCEPT ![w] = quarantined(c)]
    BY <1>1, <1>5 DEF Provision
  <2>3. LifecycleMove(s, quarantined(c))
    BY <2>1, QuarantinedState, RowMoves
  <2>. QED BY <1>1, <2>2, <2>3, WriteRefines, DrainRefines
<1>6. CASE SaveSuspending(w)
  <2>1. s.state \in LiveStates
    BY <1>2, <1>6 DEF Facts, SaveSuspending
  <2>2. rows' = rows \/ rows' = [rows EXCEPT ![w] = [c EXCEPT !.state = "suspending"]]
    BY <1>1, <1>6 DEF SaveSuspending, Save, GiveUp
  <2>3. [c EXCEPT !.state = "suspending"].state = "suspending"
    BY DEF Row
  <2>4. LifecycleMove(s, [c EXCEPT !.state = "suspending"])
    BY <2>1, <2>3, RowMoves
  <2>. QED BY <1>1, <2>2, <2>4, WriteRefines, DrainRefines
<1>7. CASE SaveSuspended(w)
  <2>1. s.state = "suspending"
    BY <1>2, <1>7 DEF Facts, SaveSuspended
  <2>2. rows' = [rows EXCEPT ![w] = [c EXCEPT !.state = "suspended"]]
    BY <1>1, <1>7, Zenon DEF SaveSuspended, SaveAndRebalance
  <2>3. [c EXCEPT !.state = "suspended"].state = "suspended"
    BY DEF Row
  <2>4. LifecycleMove(s, [c EXCEPT !.state = "suspended"])
    BY <2>1, <2>3, RowMoves
  <2>. QED BY <1>1, <2>2, <2>4, WriteRefines
<1>8. CASE FinalizeDelete(w)
  <2>1. PICK g : g = [NoRow EXCEPT !.state = "gone"]
    OBVIOUS
  <2>2. g.state = "gone"
    BY <2>1, NoRowType DEF Row
  <2>3. rows' = [rows EXCEPT ![w] = g] /\ s.state = "deleting"
    BY <1>1, <1>8, <2>1, Zenon DEF FinalizeDelete, SaveAndRebalance
  <2>. QED BY <1>1, <2>2, <2>3, RowMoves, WriteRefines
<1>9. CASE SaveDeleting(w)
  <2>1. Exists(s)
    BY <1>2, <1>9 DEF Facts, SaveDeleting
  <2>2. rows' = rows \/ rows' = [rows EXCEPT ![w] = [c EXCEPT !.state = "deleting"]]
    BY <1>1, <1>9 DEF SaveDeleting, Save, Continue
  <2>3. [c EXCEPT !.state = "deleting"].state = "deleting"
    BY DEF Row
  <2>4. LifecycleMove(s, [c EXCEPT !.state = "deleting"])
    BY <2>1, <2>3, RowMoves
  <2>. QED BY <1>1, <2>2, <2>4, WriteRefines, DrainRefines
<1>10. CASE DrainWorkspace(w)
  <2>1. s.state = "provisioning"
    BY <1>2, <1>10 DEF Facts, DrainWorkspace
  <2>2. rows' = rows \/ rows' = [rows EXCEPT ![w] = quarantined(c)]
    BY <1>1, <1>10 DEF DrainWorkspace, SaveAndReturn, GiveUp, Continue
  <2>3. LifecycleMove(s, quarantined(c))
    BY <2>1, QuarantinedState, RowMoves
  <2>. QED BY <1>1, <2>2, <2>3, WriteRefines, DrainRefines
<1>. QED BY <1>3, <1>4, <1>5, <1>6, <1>7, <1>8, <1>9, <1>10

\* Quarantine never takes a live or deleted workspace.
LEMMA QuarantineRefines ==
    ASSUME IInv, NEW w \in Workspaces, drain' = drain,
           rows' = [rows EXCEPT ![w] = quarantined(rows[w])],
           Exists(rows[w]) \/ rows[w].state = "none", privateInputsIncomplete(rows[w]),
           mayQuarantine(rows[w])
    PROVE  AbstractStep
<1>1. rows[w] \in Row /\ quarantined(rows[w]).state = "failed"
  BY Types, QuarantinedState
<1>2. rows[w].state \in RestStates \cup {"provisioning", "suspending"}
  <2>1. rows[w].state \notin LiveStates
    BY Types DEF Facts
  <2>2. rows[w].state # "deleting" /\ rows[w].state \in States
    BY <1>1 DEF mayQuarantine, Row
  <2>. QED BY <2>1, <2>2 DEF States, RestStates, LiveStates
<1>3. LifecycleMove(rows[w], quarantined(rows[w]))
  BY <1>1, <1>2, RowMoves DEF RestStates
<1>. QED BY <1>3, WriteRefines

LEMMA AdmissionRefines ==
    ASSUME IInv, DrainInvariant, NEW w \in Workspaces, drain' = drain,
           \/ \E diskOK \in BOOLEAN : Decide(w, diskOK)
           \/ Commit(w) \/ PrepareInputs(w)
    PROVE  AbstractStep
<1>1. PICK c \in Row, s \in Row : c = op[w].row /\ s = rows[w]
  BY Types
<1>2. Facts(op[w], s, phase[w])
  BY <1>1, Types
<1>3. ASSUME NEW diskOK \in BOOLEAN, Decide(w, diskOK)
      PROVE  AbstractStep
  <2>1. s.state \in RestStates
    BY <1>2, <1>3, ZenonT(60) DEF Facts, Decide
  <2>2. \/ rows' = rows
        \/ rows' = [rows EXCEPT ![w] = IF mayQuarantine(s) THEN quarantined(s) ELSE s]
    BY <1>1, <1>3, Zenon DEF Decide
  <2>3. LifecycleMove(s, quarantined(s)) /\ LifecycleMove(s, s)
    BY <2>1, QuarantinedState, RowMoves DEF RestStates
  <2>. QED BY <1>1, <2>2, <2>3, WriteRefines, DrainRefines, SMTT(60)
<1>4. CASE Commit(w)
  <2>1. rows' = [rows EXCEPT ![w] = c]
    BY <1>1, <1>4 DEF Commit, Save, SaveAndReturn
  <2>2. s.state \in RestStates /\ c.state \in {"provisioning", "queued"}
    BY <1>1, <1>2, <1>4 DEF Facts, Commit
  <2>3. c.state = "provisioning" => drain # "drained"
    BY <1>1, <1>4 DEF Commit, DrainInvariant
  <2>4. LifecycleMove(s, c)
    BY <2>2, <2>3, RowMoves DEF RestStates
  <2>. QED BY <1>1, <2>1, <2>4, WriteRefines
<1>5. CASE PrepareInputs(w)
  <2>1. \/ rows' = [rows EXCEPT ![w] = [c EXCEPT !.inputs = FALSE]]
        \/ rows' = [rows EXCEPT ![w] = quarantined(c)]
    BY <1>1, <1>5 DEF PrepareInputs, Save, SaveAndReturn
  <2>2. c.state = s.state /\ s.state \in {"provisioning", "queued"}
    BY <1>1, <1>2, <1>5 DEF Facts, PrepareInputs
  <2>3. [c EXCEPT !.inputs = FALSE].state = c.state
    BY DEF Row
  <2>4. LifecycleMove(s, [c EXCEPT !.inputs = FALSE]) /\ LifecycleMove(s, quarantined(c))
    BY <2>2, <2>3, QuarantinedState, RowMoves DEF RestStates
  <2>. QED BY <1>1, <2>1, <2>4, WriteRefines
<1>. QED BY <1>3, <1>4, <1>5

\* The writes of a rebalance are quota writes.
LEMMA QuotaWrites ==
    ASSUME NEW a, op[a].cur \in Workspaces \cup {None},
           (\E v \in Workspaces : RaiseQuota(a, v)) \/ ShrinkQuota(a)
    PROVE  \E q : \E u \in Workspaces \cup {None} : rows' = [rows EXCEPT ![u].quota = q]
<1>1. ASSUME NEW v \in Workspaces, RaiseQuota(a, v)
      PROVE  \E q : rows' = [rows EXCEPT ![v].quota = q]
  BY <1>1, Zenon DEF RaiseQuota
<1>2. ASSUME ShrinkQuota(a)
      PROVE  \E q : rows' = [rows EXCEPT ![op[a].cur].quota = q]
  BY <1>2, Zenon DEF ShrinkQuota
<1>3. \A v \in Workspaces : v \in Workspaces \cup {None}
  OBVIOUS
<1>. QED BY <1>1, <1>2, <1>3, Zenon

LEMMA StepRefines ==
    ASSUME IInv, DrainInvariant, NEW w \in Workspaces, Step(w)
    PROVE  AbstractStep
<1>1. drain' = drain
  BY StepKeepsDrain
<1>2. CASE \/ acquireAdmission(w) \/ acquireRuntime(w) \/ ListConsumers(w) \/ ApplyQuota(w)
           \/ FinishQuota(w) \/ CallProvision(w) \/ CallStart(w) \/ CallInitialize(w)
           \/ SetupStop(w) \/ CleanupStop(w) \/ SuspendStop(w) \/ DrainStop(w)
           \/ ReconcileLookup(w) \/ DeleteLookup(w) \/ DrainLookup(w)
           \/ StartSuspension(w) \/ CallDelete(w)
  <2>1. rows' = rows
    BY <1>2 DEF acquireAdmission, acquireRuntime, ListConsumers, ApplyQuota, FinishQuota,
                CallProvision, CallStart, CallInitialize, SetupStop, CleanupStop, SuspendStop,
                DrainStop, ReconcileLookup, DeleteLookup, DrainLookup, StartSuspension,
                CallDelete, StopAndWait, Lookup, GiveUp, Continue
  <2>. QED BY <2>1, DrainRefines
<1>3. CASE (\E u \in Workspaces : RaiseQuota(w, u)) \/ ShrinkQuota(w) \/ FinishStartQuota(w)
  <2>1. \E q : \E u \in Workspaces \cup {None} : rows' = [rows EXCEPT ![u].quota = q]
    <3>1. op[w].cur \in Workspaces \cup {None}
      BY Types DEF Op
    <3>2. CASE FinishStartQuota(w)
      <4>1. \E q : rows' = [rows EXCEPT ![w].quota = q]
        BY <3>2, Zenon DEF FinishStartQuota
      <4>2. w \in Workspaces \cup {None}
        OBVIOUS
      <4>. QED BY <4>1, <4>2, Zenon
    <3>. QED BY <1>3, <3>1, <3>2, QuotaWrites
  <2>. QED BY <1>1, <2>1, QuotaRefines
<1>4. CASE \/ SaveUnconfirmed(w) \/ SaveProvisioned(w) \/ markProviderStartPending(w)
           \/ SaveSetupPending(w) \/ SaveCleanup(w) \/ ReconcileProvisioning(w)
           \/ SaveFound(w) \/ SaveReserved(w) \/ SaveDrainFound(w) \/ SaveDeleteFound(w)
  BY <1>1, <1>4, ProvisioningRefines
<1>5. CASE \/ SaveRunning(w) \/ SaveAwaiting(w) \/ SaveFailed(w) \/ Provision(w)
           \/ SaveSuspending(w) \/ SaveSuspended(w) \/ FinalizeDelete(w)
           \/ persistMaintenanceDrainResult(w) \/ SaveDeleting(w) \/ DrainWorkspace(w)
           \/ SaveDenied(w)
  BY <1>1, <1>5, EndingsRefine
<1>6. CASE Decide(w, TRUE) \/ Commit(w) \/ PrepareInputs(w)
  BY <1>1, <1>6, AdmissionRefines
<1>. QED BY <1>2, <1>3, <1>4, <1>5, <1>6 DEF Step

LEMMA NextRefines ==
    ASSUME IInv, DrainInvariant, [Next]_vars
    PROVE  AbstractStep
<1>1. ASSUME NEW w \in Workspaces, Request(w)
      PROVE  AbstractStep
  <2>1. drain' = drain
    BY <1>1, RequestKeepsDrain
  <2>2. CASE RetryQuarantine(w)
    BY <2>1, <2>2, QuarantineRefines DEF RetryQuarantine
  <2>3. CASE TouchActivity(w) \/ MarkIdleIfInactive(w)
    <3>1. \A v \in Workspaces : \/ rows'[v].state = rows[v].state
                                \/ {rows'[v].state, rows[v].state} \subseteq LiveStates
      BY <2>3, SMTT(60) DEF TouchActivity, MarkIdleIfInactive, LiveStates, IInv, TypeOK, Row
    <3>2. \A v \in Workspaces : lifecycleState(rows'[v]) = lifecycleState(rows[v])
      BY <3>1 DEF lifecycleState
    <3>. QED BY <2>1, <3>2, SameStatesRefine
  <2>4. CASE rows' = rows
    BY <2>4, DrainRefines
  <2>5. CASE \/ Create(w) \/ ApproveSetup(w) \/ DenySetup(w) \/ Retry(w) \/ Resume(w)
             \/ Suspend(w) \/ SuspendIfInactive(w) \/ Delete(w) \/ ReconcileMaintenanceDrain(w)
    <3>1. rows' = rows
      BY <2>5, Zenon DEF Create, ApproveSetup, DenySetup, Retry, Resume, Suspend,
                         SuspendIfInactive, Delete, ReconcileMaintenanceDrain, Begin
    <3>. QED BY <2>4, <3>1
  <2>. QED BY <1>1, <2>2, <2>3, <2>5 DEF Request
<1>2. ASSUME NEW w \in Workspaces, Decide(w, FALSE)
      PROVE  AbstractStep
  BY <1>2, DecideKeepsDrain, AdmissionRefines
<1>3. CASE LifecycleStep
  <2>1. CASE (\E u \in Workspaces : RaiseQuota(Lifecycle, u)) \/ ShrinkQuota(Lifecycle)
    <3>1. op[Lifecycle].cur \in Workspaces \cup {None}
      BY ActorTypes DEF Actors, Op
    <3>2. \E q : \E u \in Workspaces \cup {None} : rows' = [rows EXCEPT ![u].quota = q]
      BY <2>1, <3>1, QuotaWrites
    <3>. QED BY <1>3, <3>2, LifecycleKeepsDrain, QuotaRefines
  <2>2. CASE rows' = rows
    BY <2>2, DrainRefines
  <2>. QED BY <1>3, <2>1, <2>2
           DEF LifecycleStep, ReconcileCapacity, ListConsumers, ApplyQuota, FinishQuota, GiveUp
<1>4. CASE SetMaintenanceDrain \/ BeginMaintenanceDrain \/ (\E a \in Actors : StoreError(a))
           \/ Crash \/ UNCHANGED vars
  <2>1. rows' = rows
    BY <1>4 DEF SetMaintenanceDrain, BeginMaintenanceDrain, StoreError, Crash, vars
  <2>. QED BY <2>1, DrainRefines
<1>. QED BY <1>1, <1>2, <1>3, <1>4, StepRefines DEF Next

LEMMA InitRefines ==
    ASSUME Init
    PROVE  Abstract!LifecycleInit /\ DrainInvariant
<1>1. NoOp.pc = "idle"
  BY DEF NoOp
<1>2. DrainInvariant
  BY <1>1 DEF Init, DrainInvariant, Actors
<1>3. NoRow.state \in {"none", "provisioning"}
  BY DEF NoRow
<1>4. \A prov \in BOOLEAN : LegacyRow(prov).state = "provisioning"
  BY DEF LegacyRow, NoRow
<1>5. \A w \in Workspaces : rows[w].state \in {"none", "provisioning"}
  BY <1>3, <1>4 DEF Init
<1>6. \A w \in Workspaces : lifecycleState(rows[w]) \in {"off", "provisioning"}
  BY <1>5 DEF lifecycleState, LiveStates
<1>. QED BY <1>2, <1>6 DEF Init, Abstract!LifecycleInit

\* The detailed service, with its gates, private copies, failure codes, faults
\* and crashes, implements the lifecycle the rest of the control plane relies
\* on: every Save of a row is one move of WorkspaceLifecycle or none, and no
\* start is reserved behind a completed drain.
THEOREM LifecycleRefinement == Spec => ImplementsLifecycle
<1>1. IInv /\ AdmissionInvariant /\ DrainInvariant /\ [Next]_vars => DrainInvariant'
  BY NextKeepsDrain
<1>2. IInv /\ DrainInvariant /\ [Next]_vars => [Abstract!LifecycleNext]_(Abstract!lifecycleVars)
  BY NextRefines DEF AbstractStep
<1>3. Init => Abstract!LifecycleInit /\ DrainInvariant
  BY InitRefines
<1>. QED BY <1>1, <1>2, <1>3, LimitInvariance, PTL DEF Spec, ImplementsLifecycle,
            Abstract!LifecycleSpec

HIDE DEF RowFacts, CopyFacts, WaitFacts, StateFacts, ProviderFacts, Starting, Close,
         CountsAsRunning, definitelyStoppedStartReservation, stableLiveProviderState, Exists,
         privateInputsIncomplete, LiveStates, CleanupCodes, StartPCs, RecoverPCs, DrainPCs,
         DeletePCs, StartKinds, RestStates, Phases

-----------------------------------------------------------------------------
(* The reservations.  A step of actor a leaves alone what the starts of the   *)
(* others rely on; what it leaves behind for its own is shown step by step.   *)

LEMMA ReservationKept ==
    ASSUME NEW o, NEW r, NEW s, NEW g, NEW h, NEW w, ReservationFacts(o, r, g, w),
           s.code = r.code, s.state = "provisioning" => r.state = "provisioning",
           g = w => h = w
    PROVE  ReservationFacts(o, s, h, w)
<1>1. /\ o.kind \in AdmittedKinds /\ o.pc \notin {"idle", "wait_admission"} => h = w
      /\ o.pc \in {"reconcile", "provision"} \/ Starting(o) => o.kind \in AdmittedKinds
      /\ o.pc = "commit" /\ o.row.state = "provisioning" => o.row.code = "start_reserved"
  BY DEF ReservationFacts
<1>2. (\/ o.pc = "inputs" /\ s.state = "provisioning"
       \/ o.pc = "wait_runtime" /\ o.kind \in StartKinds
       \/ o.pc = "provision"
       \/ o.pc \in QuotaPCs /\ o.starting)
         => s.code = "start_reserved"
  BY DEF ReservationFacts
<1>. QED BY <1>1, <1>2 DEF ReservationFacts

LEMMA ReservationFrame ==
    ASSUME ReservationInvariant, NEW a,
           \A v \in Workspaces : v # a =>
              /\ op'[v] = op[v] /\ rows'[v].code = rows[v].code
              /\ rows'[v].state = "provisioning" => rows[v].state = "provisioning",
           admissionGate' = admissionGate \/ admissionGate \in {a, None},
           a \in Workspaces => ReservationFacts(op'[a], rows'[a], admissionGate', a)
    PROVE  ReservationInvariant'
<1>. SUFFICES ASSUME NEW v \in Workspaces, v # a
              PROVE  ReservationFacts(op'[v], rows'[v], admissionGate', v)
  BY DEF ReservationInvariant
<1>1. v # None
  BY ConstantsAssumption
<1>2. op'[v] = op[v] /\ (admissionGate = v => admissionGate' = v)
  BY <1>1
<1>3. /\ rows'[v].code = rows[v].code
      /\ rows'[v].state = "provisioning" => rows[v].state = "provisioning"
  OBVIOUS
<1>4. ReservationFacts(op[v], rows[v], admissionGate, v)
  BY DEF ReservationInvariant
<1>5. ReservationFacts(op[v], rows'[v], admissionGate', v)
  BY <1>2, <1>3, <1>4, ReservationKept
<1>. QED BY <1>2, <1>5

\* Where nothing is said of a reservation but that a start holds its gate.
LEMMA NoReservation ==
    ASSUME NEW o, NEW r, NEW g, NEW w, ~Starting(o),
           o.pc \notin {"reconcile", "provision", "commit", "inputs", "wait_runtime"},
           o.pc \in QuotaPCs => ~o.starting,
           o.kind \in AdmittedKinds /\ o.pc \notin {"idle", "wait_admission"} => g = w
    PROVE  ReservationFacts(o, r, g, w)
BY DEF ReservationFacts

LEMMA NoOpParts ==
    /\ NoOp.pc = "idle" /\ NoOp.kind = "capacity" /\ ~NoOp.starting /\ NoOp.todo = {}
    /\ ~Starting(NoOp)
BY DEF NoOp, Starting, StartPCs, QuotaPCs

LEMMA NoOpReservation ==
    ASSUME NEW r, NEW g, NEW w
    PROVE  ReservationFacts(NoOp, r, g, w)
<1>1. NoOp.pc \notin QuotaPCs
  BY NoOpParts DEF QuotaPCs
<1>. QED BY <1>1, NoOpParts, NoReservation

LEMMA ReturnedReservation ==
    ASSUME IInv, ReservationInvariant, NEW a \in Actors, Return(a), WritesOnly(a)
    PROVE  ReservationInvariant'
<1>1. op'[a] = NoOp /\ \A v \in Workspaces : v # a => op'[v] = op[v]
  BY DEF IInv, TypeOK, Actors, Return
<1>2. \A v \in Workspaces : v # a => rows'[v] = rows[v]
  BY DEF IInv, TypeOK, WritesOnly
<1>3. admissionGate' = admissionGate \/ admissionGate \in {a, None}
  BY DEF Return, ReleaseGates
<1>. QED BY <1>1, <1>2, <1>3, NoOpReservation, ReservationFrame

\* The operation of w goes on, writing no other row.
LEMMA MovedReservation ==
    ASSUME IInv, ReservationInvariant, NEW w \in Workspaces, NEW o, op' = [op EXCEPT ![w] = o],
           WritesOnly(w), admissionGate' = admissionGate,
           ReservationFacts(o, rows'[w], admissionGate, w)
    PROVE  ReservationInvariant'
<1>1. op'[w] = o /\ \A v \in Workspaces : v # w => op'[v] = op[v]
  BY DEF IInv, TypeOK, Actors
<1>2. \A v \in Workspaces : v # w => rows'[v] = rows[v]
  BY DEF IInv, TypeOK, WritesOnly
<1>. QED BY <1>1, <1>2, ReservationFrame

-----------------------------------------------------------------------------
(* Most steps under runtimeGate start nothing: they write no live row, leave  *)
(* the limit of every live row alone and end up outside a start (Plain).      *)

PlainPCs == {"setup_stop", "save_awaiting", "save_setup_pending", "save_cleanup", "cleanup_stop",
             "save_failed", "lookup", "save_found", "save_reserved", "suspend_stop",
             "save_suspending", "save_suspended", "call_delete", "delete_lookup",
             "save_delete_found", "finalize", "drain_stop", "drain_lookup", "save_drain_found",
             "save_drained"}

Plain(w) ==
    /\ op[w].pc \in RuntimePCs \ QuotaPCs
    /\ \A v \in Actors : v # w => op'[v] = op[v]
    /\ \/ op'[w] = NoOp /\ ReleaseGates(w)
       \/ /\ op'[w].kind = op[w].kind /\ KeepGates
          /\ \/ op'[w].pc \in PlainPCs
             \/ /\ op'[w].pc = "list" /\ ~op'[w].starting
                /\ ~stableLiveProviderState(rows'[w])
    /\ \A v \in Workspaces : v # w => /\ rows'[v] = rows[v] /\ limit'[v] = limit[v]
                                      /\ quotas'[v] = quotas[v]
    /\ \/ ~stableLiveProviderState(rows'[w])
       \/ /\ rows'[w] = rows[w] /\ limit'[w] = limit[w]
          /\ quotas'[w] \in {quotas[w], 0}

LEMMA PlainPCsFacts ==
    ASSUME NEW pc \in PlainPCs
    PROVE  /\ pc \notin QuotaPCs /\ pc \notin StartPCs
           /\ pc \notin {"reconcile", "provision", "commit", "inputs", "wait_runtime", "list"}
BY DEF PlainPCs, QuotaPCs, StartPCs

LEMMA PlainReservation ==
    ASSUME IInv, ReservationInvariant, NEW w \in Workspaces, Plain(w)
    PROVE  ReservationInvariant'
<1>1. \A v \in Workspaces : v # w => op'[v] = op[v] /\ rows'[v] = rows[v]
  BY DEF Plain, Actors
<1>2. admissionGate' = admissionGate \/ admissionGate \in {w, None}
  BY DEF Plain, ReleaseGates, KeepGates
<1>3. CASE op'[w] = NoOp
  BY <1>1, <1>2, <1>3, NoOpReservation, ReservationFrame
<1>4. CASE op'[w].kind = op[w].kind /\ admissionGate' = admissionGate
           /\ (op'[w].pc \in PlainPCs \/ (op'[w].pc = "list" /\ ~op'[w].starting))
  <2>1. /\ ~Starting(op'[w]) /\ (op'[w].pc \in QuotaPCs => ~op'[w].starting)
        /\ op'[w].pc \notin {"reconcile", "provision", "commit", "inputs", "wait_runtime"}
    BY <1>4, PlainPCsFacts DEF Starting, StartPCs, QuotaPCs
  <2>2. op[w].pc \notin {"idle", "wait_admission"}
    BY DEF Plain, RuntimePCs
  <2>3. op'[w].kind \in AdmittedKinds => admissionGate' = w
    BY <1>4, <2>2 DEF ReservationInvariant, ReservationFacts
  <2>4. ReservationFacts(op'[w], rows'[w], admissionGate', w)
    BY <2>1, <2>3, NoReservation
  <2>. QED BY <1>1, <1>2, <2>4, ReservationFrame
<1>. QED BY <1>3, <1>4 DEF Plain, KeepGates

\* The ways a plain step ends.
LEMMA ContinuePlain ==
    ASSUME IInv, NEW w \in Workspaces, op[w].pc \in RuntimePCs \ QuotaPCs, NEW pc \in PlainPCs,
           Goto(w, pc), KeepGates, rows' = rows, limit' = limit,
           \A v \in Workspaces : quotas'[v] = quotas[v] \/ (v = w /\ quotas'[v] = 0)
    PROVE  Plain(w)
<1>1. op'[w].pc = pc /\ op'[w].kind = op[w].kind /\ \A v \in Actors : v # w => op'[v] = op[v]
  BY DEF IInv, TypeOK, Op, Actors, Goto
<1>. QED BY <1>1 DEF Plain

LEMMA ReturnPlain ==
    ASSUME IInv, NEW w \in Workspaces, op[w].pc \in RuntimePCs \ QuotaPCs, Return(w),
           quotas' = quotas,
           \/ rows' = rows /\ limit' = limit
           \/ \E r : /\ rows' = [rows EXCEPT ![w] = r] /\ ~stableLiveProviderState(r)
                     /\ \A v \in Workspaces : v # w => limit'[v] = limit[v]
    PROVE  Plain(w)
<1>1. op'[w] = NoOp /\ \A v \in Actors : v # w => op'[v] = op[v]
  BY DEF IInv, TypeOK, Actors, Return
<1>2. CASE rows' = rows /\ limit' = limit
  BY <1>1, <1>2 DEF Plain, Return
<1>3. ASSUME NEW r, rows' = [rows EXCEPT ![w] = r], ~stableLiveProviderState(r),
             \A v \in Workspaces : v # w => limit'[v] = limit[v]
      PROVE  Plain(w)
  <2>1. rows'[w] = r /\ \A v \in Workspaces : v # w => rows'[v] = rows[v]
    BY <1>3 DEF IInv, TypeOK
  <2>. QED BY <1>1, <1>3, <2>1 DEF Plain, Return
<1>. QED BY <1>2, <1>3

LEMMA SavePlain ==
    ASSUME IInv, NEW w \in Workspaces, op[w].pc \in RuntimePCs \ QuotaPCs, NEW pc \in PlainPCs,
           NEW r, Save(w, r, pc), ~stableLiveProviderState(r)
    PROVE  Plain(w)
<1>1. op'[w].pc = pc /\ op'[w].kind = op[w].kind /\ \A v \in Actors : v # w => op'[v] = op[v]
  BY DEF IInv, TypeOK, Op, Actors, Save
<1>2. rows'[w] = r /\ \A v \in Workspaces : v # w => rows'[v] = rows[v]
  BY DEF IInv, TypeOK, Save
<1>3. KeepGates /\ limit' = limit /\ quotas' = quotas
  BY DEF Save, KeepProvider
<1>. QED BY <1>1, <1>2, <1>3 DEF Plain

LEMMA RebalancePlain ==
    ASSUME IInv, NEW w \in Workspaces, op[w].pc \in RuntimePCs \ QuotaPCs,
           NEW r, SaveAndRebalance(w, r), ~stableLiveProviderState(r)
    PROVE  Plain(w)
<1>1. /\ op'[w].pc = "list" /\ ~op'[w].starting /\ op'[w].kind = op[w].kind
      /\ \A v \in Actors : v # w => op'[v] = op[v]
  BY DEF IInv, TypeOK, Op, Actors, SaveAndRebalance
<1>2. rows'[w] = r /\ \A v \in Workspaces : v # w => rows'[v] = rows[v]
  BY DEF IInv, TypeOK, SaveAndRebalance
<1>3. KeepGates /\ limit' = limit /\ quotas' = quotas
  BY DEF SaveAndRebalance, KeepProvider
<1>. QED BY <1>1, <1>2, <1>3 DEF Plain

\* Where the row and its copy are in a transitional state.
TransitionalPCs == StartPCs \cup RecoverPCs \cup DrainPCs \cup DeletePCs
                       \cup {"suspend_stop", "save_suspended"}

LEMMA TransitionalCopy ==
    ASSUME IInv, NEW w \in Workspaces, op[w].pc \in TransitionalPCs
    PROVE  /\ op[w].pc \in RuntimePCs \ QuotaPCs
           /\ op[w].row.state = rows[w].state
           /\ rows[w].state \in {"provisioning", "suspending", "deleting"}
<1>1. op[w].pc \in RuntimePCs \ QuotaPCs
  BY DEF TransitionalPCs, StartPCs, RecoverPCs, DrainPCs, DeletePCs, RuntimePCs, QuotaPCs
<1>2. rows[w].state \in {"provisioning", "suspending", "deleting"}
  BY Types DEF Facts, StateFacts, Starting, TransitionalPCs
<1>3. Close(op[w].row, rows[w])
  BY <1>1, Types DEF Facts, CopyFacts, UsesPrivateCopy
<1>. QED BY <1>1, <1>2, <1>3 DEF Close, LiveStates

OffStates == {"provisioning", "suspending", "deleting", "failed", "suspended",
              "awaiting_setup_approval", "gone", "queued"}

LEMMA OffState ==
    ASSUME NEW r, r.state \in OffStates
    PROVE  ~stableLiveProviderState(r)
BY DEF stableLiveProviderState, LiveStates, OffStates

LEMMA EditedRow ==
    ASSUME NEW c \in Row
    PROVE  /\ \A st \in OffStates : ~stableLiveProviderState([c EXCEPT !.state = st])
           /\ \A st \in OffStates : \A k :
                 ~stableLiveProviderState([c EXCEPT !.state = st, !.code = k])
           /\ ~stableLiveProviderState(quarantined(c))
           /\ c.state \in OffStates =>
                 /\ \A k : ~stableLiveProviderState([c EXCEPT !.code = k])
                 /\ \A k : ~stableLiveProviderState([c EXCEPT !.prov = TRUE, !.code = k])
                 /\ ~stableLiveProviderState([c EXCEPT !.prov = TRUE])
BY DEF Row, quarantined, stableLiveProviderState, LiveStates, OffStates

LEMMA SavesPlain ==
    ASSUME IInv, NEW w \in Workspaces,
           \/ SaveSetupPending(w) \/ SaveAwaiting(w) \/ SaveCleanup(w) \/ SaveFailed(w)
           \/ SaveFound(w) \/ SaveReserved(w) \/ SaveSuspended(w) \/ SaveDrainFound(w)
           \/ persistMaintenanceDrainResult(w) \/ SaveDeleteFound(w) \/ FinalizeDelete(w)
    PROVE  Plain(w)
<1>1. op[w].pc \in TransitionalPCs
  BY DEF SaveSetupPending, SaveAwaiting, SaveCleanup, SaveFailed, SaveFound, SaveReserved,
         SaveSuspended, SaveDrainFound, persistMaintenanceDrainResult, SaveDeleteFound,
         FinalizeDelete, TransitionalPCs, RecoverPCs, DrainPCs, DeletePCs
<1>2. PICK c \in Row : c = op[w].row
  BY Types
<1>3. op[w].pc \in RuntimePCs \ QuotaPCs /\ c.state \in {"provisioning", "suspending", "deleting"}
  BY <1>1, <1>2, TransitionalCopy
<1>4. "cleanup_stop" \in PlainPCs /\ "drain_stop" \in PlainPCs /\ "call_delete" \in PlainPCs
  BY DEF PlainPCs
<1>5. CASE SaveSetupPending(w) \/ SaveReserved(w)
  <2>1. PICK k : SaveAndReturn(w, [c EXCEPT !.code = k])
    BY <1>2, <1>5 DEF SaveSetupPending, SaveReserved
  <2>2. ~stableLiveProviderState([c EXCEPT !.code = k])
    BY <1>3, EditedRow, Zenon DEF OffStates
  <2>3. Return(w) /\ rows' = [rows EXCEPT ![w] = [c EXCEPT !.code = k]] /\ quotas' = quotas
        /\ limit' = limit
    BY <2>1 DEF SaveAndReturn, KeepProvider
  <2>. QED BY <1>3, <2>2, <2>3, ReturnPlain
<1>6. CASE SaveAwaiting(w) \/ SaveFailed(w) \/ persistMaintenanceDrainResult(w)
  <2>1. PICK st \in {"failed", "awaiting_setup_approval"}, k \in {"", "other"} :
           SaveAndRebalance(w, [c EXCEPT !.state = st, !.code = k])
    BY <1>2, <1>6, SMTT(60) DEF SaveAwaiting, SaveFailed, persistMaintenanceDrainResult
  <2>2. ~stableLiveProviderState([c EXCEPT !.state = st, !.code = k])
    BY EditedRow, Zenon DEF OffStates
  <2>. QED BY <1>3, <2>1, <2>2, RebalancePlain, Zenon
<1>7. CASE SaveSuspended(w)
  <2>1. SaveAndRebalance(w, [c EXCEPT !.state = "suspended"])
    BY <1>2, <1>7, SMTT(60) DEF SaveSuspended
  <2>2. ~stableLiveProviderState([c EXCEPT !.state = "suspended"])
    BY EditedRow, Zenon DEF OffStates
  <2>. QED BY <1>3, <2>1, <2>2, RebalancePlain
<1>8. CASE FinalizeDelete(w)
  <2>1. SaveAndRebalance(w, [NoRow EXCEPT !.state = "gone"])
    BY <1>8, SMTT(60) DEF FinalizeDelete
  <2>2. ~stableLiveProviderState([NoRow EXCEPT !.state = "gone"])
    BY NoRowType, EditedRow, Zenon DEF OffStates
  <2>. QED BY <1>3, <2>1, <2>2, RebalancePlain
<1>9. CASE SaveCleanup(w)
  <2>1. PICK k : Save(w, [c EXCEPT !.code = k], "cleanup_stop")
    BY <1>2, <1>9 DEF SaveCleanup
  <2>2. ~stableLiveProviderState([c EXCEPT !.code = k])
    BY <1>3, EditedRow, Zenon DEF OffStates
  <2>. QED BY <1>3, <1>4, <2>1, <2>2, SavePlain
<1>10. CASE SaveFound(w)
  <2>1. PICK k : Save(w, [c EXCEPT !.prov = TRUE, !.code = k], "cleanup_stop")
    BY <1>2, <1>10, ZenonT(60) DEF SaveFound
  <2>2. ~stableLiveProviderState([c EXCEPT !.prov = TRUE, !.code = k])
    BY <1>3, EditedRow, Zenon DEF OffStates
  <2>. QED BY <1>3, <1>4, <2>1, <2>2, SavePlain
<1>11. CASE SaveDrainFound(w) \/ SaveDeleteFound(w)
  <2>1. PICK pc \in PlainPCs : Save(w, [c EXCEPT !.prov = TRUE], pc)
    BY <1>2, <1>4, <1>11, SMTT(60) DEF SaveDrainFound, SaveDeleteFound
  <2>2. ~stableLiveProviderState([c EXCEPT !.prov = TRUE])
    BY <1>3, EditedRow, Zenon DEF OffStates
  <2>. QED BY <1>3, <2>1, <2>2, SavePlain
<1>. QED BY <1>5, <1>6, <1>7, <1>8, <1>9, <1>10, <1>11

LEMMA MorePlain ==
    ASSUME IInv, NEW w \in Workspaces,
           SaveSuspending(w) \/ SaveDeleting(w) \/ DrainWorkspace(w) \/ StartSuspension(w)
    PROVE  Plain(w)
<1>1. op[w].pc \in RuntimePCs \ QuotaPCs
  BY DEF SaveSuspending, SaveDeleting, DrainWorkspace, StartSuspension, RuntimePCs, QuotaPCs
<1>2. PICK c \in Row : c = op[w].row
  BY Types
<1>3. /\ "suspend_stop" \in PlainPCs /\ "call_delete" \in PlainPCs /\ "delete_lookup" \in PlainPCs
      /\ "drain_stop" \in PlainPCs /\ "drain_lookup" \in PlainPCs
      /\ "save_suspending" \in PlainPCs
  BY DEF PlainPCs
<1>4. ASSUME NEW pc \in PlainPCs, Continue(w, pc)
      PROVE  Plain(w)
  BY <1>1, <1>4, ContinuePlain DEF Continue, KeepProvider
<1>5. ASSUME Return(w), KeepProvider, rows' = rows
      PROVE  Plain(w)
  BY <1>1, <1>5, ReturnPlain DEF KeepProvider
<1>6. CASE SaveSuspending(w)
  <2>1. GiveUp(w) \/ Save(w, [c EXCEPT !.state = "suspending"], "suspend_stop")
    BY <1>2, <1>6, SMTT(60) DEF SaveSuspending
  <2>2. ~stableLiveProviderState([c EXCEPT !.state = "suspending"])
    BY EditedRow, Zenon DEF OffStates
  <2>. QED BY <1>1, <1>3, <1>5, <2>1, <2>2, SavePlain DEF GiveUp
<1>7. CASE SaveDeleting(w)
  <2>1. PICK next \in PlainPCs : next = IF c.prov THEN "call_delete" ELSE "delete_lookup"
    BY <1>3
  <2>2. \/ Continue(w, next) \/ Save(w, [c EXCEPT !.state = "deleting"], next)
        \/ Return(w) /\ KeepProvider /\ rows' = rows
    BY <1>2, <1>7, <2>1, SMTT(60) DEF SaveDeleting
  <2>3. ~stableLiveProviderState([c EXCEPT !.state = "deleting"])
    BY EditedRow, Zenon DEF OffStates
  <2>. QED BY <1>1, <1>4, <1>5, <2>2, <2>3, SavePlain
<1>8. CASE DrainWorkspace(w)
  <2>1. \/ SaveAndReturn(w, quarantined(c))
        \/ GiveUp(w)
        \/ Continue(w, "drain_stop") \/ Continue(w, "drain_lookup")
    BY <1>2, <1>8 DEF DrainWorkspace
  <2>2. CASE SaveAndReturn(w, quarantined(c))
    <3>1. ~stableLiveProviderState(quarantined(c))
      BY EditedRow, Zenon DEF OffStates
    <3>2. Return(w) /\ rows' = [rows EXCEPT ![w] = quarantined(c)] /\ quotas' = quotas
          /\ limit' = limit
      BY <2>2 DEF SaveAndReturn, KeepProvider
    <3>. QED BY <1>1, <3>1, <3>2, ReturnPlain
  <2>. QED BY <1>3, <1>4, <1>5, <2>1, <2>2 DEF GiveUp
<1>9. CASE StartSuspension(w)
  <2>1. \/ Continue(w, "suspend_stop") \/ Continue(w, "save_suspending")
        \/ Return(w) /\ KeepProvider /\ rows' = rows
    BY <1>9 DEF StartSuspension, GiveUp
  <2>. QED BY <1>3, <1>4, <1>5, <2>1
<1>. QED BY <1>6, <1>7, <1>8, <1>9

LEMMA StopPlain ==
    ASSUME IInv, NEW w \in Workspaces, op[w].pc \in RuntimePCs \ QuotaPCs,
           NEW pc \in PlainPCs, NEW next \in PlainPCs,
           \/ StopAndWait(w, pc, Return(w))
           \/ StopAndWait(w, pc, Goto(w, next) /\ KeepGates)
    PROVE  Plain(w)
<1>1. rows' = rows /\ limit' = limit
  BY DEF StopAndWait
<1>2. \A v \in Workspaces : quotas'[v] = quotas[v] \/ (v = w /\ quotas'[v] = 0)
  BY DEF StopAndWait, IInv, TypeOK
<1>3. \/ KeepGates /\ (Goto(w, pc) \/ Goto(w, next))
      \/ Return(w) /\ quotas' = quotas
  BY DEF StopAndWait
<1>. QED BY <1>1, <1>2, <1>3, ContinuePlain, ReturnPlain

LEMMA CallsPlain ==
    ASSUME IInv, NEW w \in Workspaces,
           \/ SetupStop(w) \/ CleanupStop(w) \/ SuspendStop(w) \/ DrainStop(w)
           \/ ReconcileLookup(w) \/ DeleteLookup(w) \/ DrainLookup(w) \/ CallDelete(w)
    PROVE  Plain(w)
<1>1. op[w].pc \in RuntimePCs \ QuotaPCs
  BY DEF SetupStop, CleanupStop, SuspendStop, DrainStop, ReconcileLookup, DeleteLookup,
         DrainLookup, CallDelete, RuntimePCs, QuotaPCs
<1>2. /\ "save_awaiting" \in PlainPCs /\ "save_setup_pending" \in PlainPCs
      /\ "save_failed" \in PlainPCs /\ "save_suspended" \in PlainPCs
      /\ "save_drained" \in PlainPCs /\ "save_found" \in PlainPCs
      /\ "save_reserved" \in PlainPCs /\ "save_delete_found" \in PlainPCs
      /\ "finalize" \in PlainPCs /\ "save_drain_found" \in PlainPCs
  BY DEF PlainPCs
<1>3. CASE SetupStop(w)
  BY <1>1, <1>2, <1>3, StopPlain DEF SetupStop
<1>4. CASE CleanupStop(w) \/ SuspendStop(w) \/ DrainStop(w)
  BY <1>1, <1>2, <1>4, StopPlain DEF CleanupStop, SuspendStop, DrainStop
<1>5. CASE ReconcileLookup(w) \/ DeleteLookup(w) \/ DrainLookup(w)
  <2>1. PICK found \in PlainPCs, absent \in PlainPCs : Lookup(w, found, absent)
    BY <1>2, <1>5, Zenon DEF ReconcileLookup, DeleteLookup, DrainLookup
  <2>2. rows' = rows /\ limit' = limit /\ quotas' = quotas
    BY <2>1 DEF Lookup, KeepProvider
  <2>3. Return(w) \/ (KeepGates /\ (Goto(w, found) \/ Goto(w, absent)))
    BY <2>1 DEF Lookup
  <2>. QED BY <1>1, <2>2, <2>3, ContinuePlain, ReturnPlain
<1>6. CASE CallDelete(w)
  <2>1. rows' = rows /\ limit' = limit
    BY <1>6 DEF CallDelete
  <2>2. \A v \in Workspaces : quotas'[v] = quotas[v] \/ (v = w /\ quotas'[v] = 0)
    BY <1>6 DEF CallDelete, IInv, TypeOK
  <2>3. (Goto(w, "finalize") /\ KeepGates) \/ (Return(w) /\ quotas' = quotas)
    BY <1>6 DEF CallDelete
  <2>. QED BY <1>1, <1>2, <2>1, <2>2, <2>3, ContinuePlain, ReturnPlain
<1>. QED BY <1>3, <1>4, <1>5, <1>6

\* The steps of a start from its rebalance to its last Save (Chain).
Chain(w) ==
    /\ op[w].pc \in StartPCs /\ op'[w].pc \in StartPCs
    /\ \A v \in Actors : v # w => op'[v] = op[v]
    /\ op'[w].kind = op[w].kind /\ op'[w].row.quota = op[w].row.quota /\ KeepGates
    /\ \A v \in Workspaces : v # w => rows'[v] = rows[v] /\ limit'[v] = limit[v]
    /\ rows'[w].state = "provisioning"
    /\ quotas' = quotas

LEMMA ChainReservation ==
    ASSUME IInv, ReservationInvariant, NEW w \in Workspaces, Chain(w)
    PROVE  ReservationInvariant'
<1>1. \A v \in Workspaces : v # w => op'[v] = op[v] /\ rows'[v] = rows[v]
  BY DEF Chain, Actors
<1>2. Starting(op[w]) /\ op[w].pc \notin {"idle", "wait_admission"}
  BY DEF Chain, Starting, StartPCs
<1>3. op[w].kind \in AdmittedKinds /\ admissionGate = w
  BY <1>2 DEF ReservationInvariant, ReservationFacts
<1>4. op'[w].kind \in AdmittedKinds /\ admissionGate' = w
  BY <1>3 DEF Chain, KeepGates
<1>5. /\ op'[w].pc \notin {"commit", "inputs", "wait_runtime", "provision"}
      /\ op'[w].pc \notin QuotaPCs
  BY DEF Chain, StartPCs, QuotaPCs
<1>6. ReservationFacts(op'[w], rows'[w], admissionGate', w)
  BY <1>4, <1>5 DEF ReservationFacts
<1>. QED BY <1>1, <1>4, <1>6, ReservationFrame DEF Chain, KeepGates

LEMMA SavedChain ==
    ASSUME IInv, NEW w \in Workspaces, op[w].pc \in StartPCs, NEW pc \in StartPCs, NEW r,
           Save(w, r, pc), r.state = "provisioning", r.quota = op[w].row.quota
    PROVE  Chain(w)
<1>1. /\ op'[w].pc = pc /\ op'[w].kind = op[w].kind /\ op'[w].row = r
      /\ \A v \in Actors : v # w => op'[v] = op[v]
  BY DEF IInv, TypeOK, Op, Actors, Save
<1>2. rows'[w] = r /\ \A v \in Workspaces : v # w => rows'[v] = rows[v]
  BY DEF IInv, TypeOK, Save
<1>3. KeepGates /\ limit' = limit /\ quotas' = quotas
  BY DEF Save, KeepProvider
<1>. QED BY <1>1, <1>2, <1>3 DEF Chain

LEMMA CalledChain ==
    ASSUME IInv, NEW w \in Workspaces, op[w].pc \in StartPCs, NEW pc \in StartPCs,
           Goto(w, pc), KeepGates, rows' = rows, quotas' = quotas,
           \A v \in Workspaces : v # w => limit'[v] = limit[v]
    PROVE  Chain(w)
<1>1. /\ op'[w].pc = pc /\ op'[w].kind = op[w].kind /\ op'[w].row = op[w].row
      /\ \A v \in Actors : v # w => op'[v] = op[v]
  BY DEF IInv, TypeOK, Op, Actors, Goto
<1>2. rows[w].state = "provisioning"
  BY Types DEF Facts, StateFacts, Starting
<1>. QED BY <1>1, <1>2 DEF Chain

LEMMA ChainedRow ==
    ASSUME NEW c \in Row, NEW k
    PROVE  /\ [c EXCEPT !.code = k].state = c.state
           /\ [c EXCEPT !.code = k].quota = c.quota
           /\ [c EXCEPT !.prov = TRUE, !.code = k].state = c.state
           /\ [c EXCEPT !.prov = TRUE, !.code = k].quota = c.quota
BY DEF Row

LEMMA StartSaves ==
    ASSUME IInv, NEW w \in Workspaces,
           SaveUnconfirmed(w) \/ SaveProvisioned(w) \/ markProviderStartPending(w)
    PROVE  /\ Chain(w) /\ phase' = phase /\ limit' = limit
           /\ op'[w].pc = "call_provision" => op[w].pc = "save_unconfirmed"
           /\ op'[w].pc # "call_provision" =>
                 op'[w].pc = "call_start" /\ op[w].pc \in {"save_provisioned", "save_start_pending"}
<1>1. op[w].pc \in StartPCs /\ "call_provision" \in StartPCs /\ "call_start" \in StartPCs
  BY DEF SaveUnconfirmed, SaveProvisioned, markProviderStartPending, StartPCs
<1>2. PICK c \in Row : c = op[w].row
  BY Types
<1>3. c.state = "provisioning"
  BY <1>1, <1>2, Types, TransitionalCopy DEF TransitionalPCs, Facts, StateFacts, Starting
<1>4. CASE SaveUnconfirmed(w) \/ markProviderStartPending(w)
  <2>1. PICK k, pc : /\ Save(w, [c EXCEPT !.code = k], pc)
                     /\ \/ pc = "call_provision" /\ op[w].pc = "save_unconfirmed"
                        \/ pc = "call_start" /\ op[w].pc = "save_start_pending"
    BY <1>2, <1>4 DEF SaveUnconfirmed, markProviderStartPending
  <2>2. Chain(w)
    BY <1>1, <1>2, <1>3, <2>1, ChainedRow, SavedChain
  <2>3. op'[w].pc = pc /\ phase' = phase /\ limit' = limit
    BY <2>1 DEF Save, KeepProvider, IInv, TypeOK, Op, Actors
  <2>. QED BY <2>1, <2>2, <2>3
<1>5. CASE SaveProvisioned(w)
  <2>1. PICK k : Save(w, [c EXCEPT !.prov = TRUE, !.code = k], "call_start")
    BY <1>2, <1>5, Zenon DEF SaveProvisioned
  <2>2. Chain(w)
    BY <1>1, <1>2, <1>3, <2>1, ChainedRow, SavedChain
  <2>3. op'[w].pc = "call_start" /\ phase' = phase /\ limit' = limit
    BY <2>1 DEF Save, KeepProvider, IInv, TypeOK, Op, Actors
  <2>. QED BY <1>5, <2>2, <2>3 DEF SaveProvisioned
<1>. QED BY <1>4, <1>5

\* The provider calls of a start either go on or end in its cleanup.  A build
\* carries the quota of the private copy.
Built(w) ==
    /\ \A v \in Workspaces : v # w => phase'[v] = phase[v] /\ limit'[v] = limit[v]
    /\ \/ phase'[w] = phase[w] /\ limit'[w] = limit[w]
       \/ phase[w] # "live" /\ limit'[w] = op[w].row.quota

LEMMA StartBuilds ==
    ASSUME IInv, NEW w \in Workspaces, CallProvision(w) \/ CallStart(w) \/ CallInitialize(w)
    PROVE  Built(w)
<1>1. CASE CallProvision(w)
  BY <1>1 DEF CallProvision, Built, IInv, TypeOK
<1>2. CASE CallStart(w)
  BY <1>2 DEF CallStart, Built, IInv, TypeOK
<1>3. CASE CallInitialize(w)
  BY <1>3 DEF CallInitialize, KeepProvider, Built
<1>. QED BY <1>1, <1>2, <1>3

LEMMA CleanupPlain ==
    ASSUME IInv, NEW w \in Workspaces, op[w].pc \in StartPCs, NEW f, rows' = rows,
           op' = [op EXCEPT ![w].pc = "save_cleanup", ![w].final = f], KeepGates,
           quotas' = quotas, \A v \in Workspaces : v # w => limit'[v] = limit[v]
    PROVE  Plain(w)
<1>1. /\ op'[w].pc = "save_cleanup" /\ op'[w].kind = op[w].kind
      /\ \A v \in Actors : v # w => op'[v] = op[v]
  BY DEF IInv, TypeOK, Op, Actors
<1>2. op[w].pc \in RuntimePCs \ QuotaPCs /\ ~stableLiveProviderState(rows[w])
  BY TransitionalCopy, OffState DEF TransitionalPCs, OffStates
<1>. QED BY <1>1, <1>2 DEF Plain, PlainPCs

LEMMA StartCalls ==
    ASSUME IInv, NEW w \in Workspaces, CallProvision(w) \/ CallStart(w) \/ CallInitialize(w)
    PROVE  \/ Plain(w)
           \/ /\ Chain(w)
              /\ \/ op[w].pc = "call_provision" /\ op'[w].pc = "save_provisioned"
                 \/ op[w].pc = "call_start" /\ op'[w].pc = "call_initialize"
                 \/ op[w].pc = "call_initialize" /\ op'[w].pc = "save_running"
<1>1. /\ op[w].pc \in StartPCs /\ "save_provisioned" \in StartPCs
      /\ "call_initialize" \in StartPCs /\ "save_running" \in StartPCs
  BY DEF CallProvision, CallStart, CallInitialize, StartPCs
<1>2. \A v \in Workspaces : v # w => limit'[v] = limit[v]
  BY StartBuilds DEF Built
<1>3. rows' = rows /\ quotas' = quotas
  BY DEF CallProvision, CallStart, CallInitialize, KeepProvider
<1>4. op[w].pc \in RuntimePCs \ QuotaPCs /\ ~stableLiveProviderState(rows[w])
  BY <1>1, TransitionalCopy, OffState DEF TransitionalPCs, OffStates
<1>5. ASSUME NEW pc \in StartPCs, Goto(w, pc), KeepGates
      PROVE  Chain(w) /\ op'[w].pc = pc
  <2>1. Chain(w)
    BY <1>1, <1>2, <1>3, <1>5, CalledChain
  <2>. QED BY <1>5, <2>1 DEF Goto, IInv, TypeOK, Op, Actors
<1>6. CASE CallProvision(w)
  <2>1. CASE Return(w)
    <3>1. rows' = [rows EXCEPT ![w] = rows[w]]
      BY <1>3 DEF IInv, TypeOK
    <3>. QED BY <1>2, <1>3, <1>4, <2>1, <3>1, ReturnPlain
  <2>2. CASE Goto(w, "save_provisioned") /\ KeepGates
    BY <1>1, <1>5, <1>6, <2>2 DEF CallProvision
  <2>. QED BY <1>6, <2>1, <2>2 DEF CallProvision
<1>7. CASE CallStart(w)
  <2>1. CASE op' = [op EXCEPT ![w].pc = "save_cleanup", ![w].final = "start_cleanup_pending"]
    BY <1>1, <1>2, <1>3, <1>7, <2>1, CleanupPlain DEF CallStart
  <2>2. CASE Goto(w, "call_initialize")
    BY <1>1, <1>5, <1>7, <2>2 DEF CallStart
  <2>. QED BY <1>7, <2>1, <2>2 DEF CallStart
<1>8. CASE CallInitialize(w)
  <2>1. CASE op' = [op EXCEPT ![w].pc = "save_cleanup", ![w].final = "initialize_cleanup_pending"]
    BY <1>1, <1>2, <1>3, <1>8, <2>1, CleanupPlain DEF CallInitialize
  <2>2. CASE Goto(w, "save_running")
    BY <1>1, <1>5, <1>8, <2>2 DEF CallInitialize
  <2>3. CASE Goto(w, "setup_stop")
    <3>1. "setup_stop" \in PlainPCs /\ limit' = limit /\ KeepGates
      BY <1>8 DEF PlainPCs, CallInitialize, KeepProvider
    <3>. QED BY <1>3, <1>4, <2>3, <3>1, ContinuePlain
  <2>4. Goto(w, "save_running") \/ Goto(w, "setup_stop")
        \/ op' = [op EXCEPT ![w].pc = "save_cleanup", ![w].final = "initialize_cleanup_pending"]
    BY <1>8 DEF CallInitialize
  <2>. QED BY <2>1, <2>2, <2>3, <2>4
<1>. QED BY <1>6, <1>7, <1>8

LEMMA ReconcileEnds ==
    ASSUME IInv, NEW w \in Workspaces, ReconcileProvisioning(w)
    PROVE  Plain(w) \/ (Continue(w, "provision") /\ op[w].row.code = "start_reserved")
<1>1. op[w].pc \in TransitionalPCs
  BY DEF ReconcileProvisioning, TransitionalPCs, RecoverPCs
<1>2. PICK c \in Row : c = op[w].row
  BY Types
<1>3. op[w].pc \in RuntimePCs \ QuotaPCs /\ c.state \in {"provisioning", "suspending", "deleting"}
  BY <1>1, <1>2, TransitionalCopy
<1>4. "cleanup_stop" \in PlainPCs /\ "setup_stop" \in PlainPCs /\ "lookup" \in PlainPCs
  BY DEF PlainPCs
<1>5. \/ Continue(w, "provision") /\ op[w].row.code = "start_reserved"
      \/ \E pc \in PlainPCs : Continue(w, pc)
      \/ Save(w, [c EXCEPT !.code = "start_cleanup_pending"], "cleanup_stop")
  BY <1>2, <1>4, Zenon DEF ReconcileProvisioning
<1>6. ASSUME NEW pc \in PlainPCs, Continue(w, pc)
      PROVE  Plain(w)
  BY <1>3, <1>6, ContinuePlain, SMTT(60) DEF Continue, KeepProvider
<1>7. ~stableLiveProviderState([c EXCEPT !.code = "start_cleanup_pending"])
  BY <1>3, EditedRow, Zenon DEF OffStates
<1>. QED BY <1>3, <1>4, <1>5, <1>6, <1>7, SavePlain

LEMMA ProvisionEnds ==
    ASSUME IInv, NEW w \in Workspaces, Provision(w)
    PROVE  \/ Plain(w)
           \/ /\ op' = [op EXCEPT ![w].pc = "list", ![w].starting = TRUE]
              /\ KeepGates /\ KeepProvider /\ rows' = rows
<1>1. op[w].pc \in RuntimePCs \ QuotaPCs
  BY DEF Provision, RuntimePCs, QuotaPCs
<1>2. PICK c \in Row : c = op[w].row
  BY Types
<1>3. ~stableLiveProviderState(quarantined(c))
  BY EditedRow, Zenon
<1>4. \/ Return(w) /\ rows' = [rows EXCEPT ![w] = quarantined(c)] /\ KeepProvider
      \/ /\ op' = [op EXCEPT ![w].pc = "list", ![w].starting = TRUE]
         /\ KeepGates /\ KeepProvider /\ rows' = rows
  BY <1>2 DEF Provision
<1>. QED BY <1>1, <1>3, <1>4, ReturnPlain DEF KeepProvider

LEMMA ProvisioningReservation ==
    ASSUME IInv, ReservationInvariant, NEW w \in Workspaces,
           ReconcileProvisioning(w) \/ Provision(w)
    PROVE  ReservationInvariant'
<1>1. ReservationFacts(op[w], rows[w], admissionGate, w) /\ op[w] \in Op
  BY Types DEF ReservationInvariant
<1>2. op[w].pc \in {"reconcile", "provision"}
  BY DEF ReconcileProvisioning, Provision
<1>3. op[w].kind \in AdmittedKinds /\ admissionGate = w
  BY <1>1, <1>2 DEF ReservationFacts
<1>4. CASE Continue(w, "provision") /\ op[w].row.code = "start_reserved"
           /\ ReconcileProvisioning(w)
  <2>1. PICK o : o = [op[w] EXCEPT !.pc = "provision"]
    OBVIOUS
  <2>2. o.pc = "provision" /\ o.kind = op[w].kind
    BY <1>1, <2>1 DEF Op
  <2>3. op' = [op EXCEPT ![w] = o] /\ admissionGate' = admissionGate /\ rows' = rows
    BY <1>4, <2>1 DEF Continue, Goto, KeepGates
  <2>4. Close(op[w].row, rows[w])
    BY <1>4, Types DEF Facts, CopyFacts, UsesPrivateCopy, ReconcileProvisioning, RuntimePCs,
                       QuotaPCs
  <2>5. rows'[w].code = "start_reserved"
    BY <1>4, <2>3, <2>4 DEF Close
  <2>6. ReservationFacts(o, rows'[w], admissionGate, w)
    BY <1>3, <2>2, <2>5 DEF ReservationFacts
  <2>. QED BY <2>3, <2>6, MovedReservation DEF WritesOnly
<1>5. CASE /\ op' = [op EXCEPT ![w].pc = "list", ![w].starting = TRUE]
           /\ KeepGates /\ rows' = rows /\ Provision(w)
  <2>1. PICK o : o = [op[w] EXCEPT !.pc = "list", !.starting = TRUE]
    OBVIOUS
  <2>2. o.pc = "list" /\ o.kind = op[w].kind
    BY <1>1, <2>1 DEF Op
  <2>3. op' = [op EXCEPT ![w] = o] /\ admissionGate' = admissionGate
    BY <1>5, <2>1 DEF KeepGates
  <2>4. rows'[w].code = "start_reserved"
    BY <1>1, <1>5 DEF ReservationFacts, Provision
  <2>5. ReservationFacts(o, rows'[w], admissionGate, w)
    BY <1>3, <2>2, <2>4 DEF ReservationFacts
  <2>. QED BY <1>5, <2>3, <2>5, MovedReservation DEF WritesOnly
<1>. QED BY <1>4, <1>5, ReconcileEnds, ProvisionEnds, PlainReservation

\* The last Save of a start, after which it only rebalances.
LEMMA SaveRunningReservation ==
    ASSUME IInv, ReservationInvariant, NEW w \in Workspaces, SaveRunning(w)
    PROVE  ReservationInvariant'
<1>1. PICK r : SaveAndRebalance(w, r) /\ op[w].pc = "save_running"
  BY Zenon DEF SaveRunning
<1>2. PICK o : o = [op[w] EXCEPT !.row = r, !.pc = "list", !.starting = FALSE]
  OBVIOUS
<1>3. o.pc = "list" /\ ~o.starting /\ o.kind = op[w].kind
  BY <1>2, Types DEF Op
<1>4. /\ op' = [op EXCEPT ![w] = o] /\ admissionGate' = admissionGate
      /\ rows' = [rows EXCEPT ![w] = r]
  BY <1>1, <1>2 DEF SaveAndRebalance, KeepGates
<1>5. o.kind \in AdmittedKinds => admissionGate = w
  BY <1>1, <1>3 DEF ReservationInvariant, ReservationFacts
<1>6. ReservationFacts(o, rows'[w], admissionGate, w)
  BY <1>3, <1>5, NoReservation DEF Starting, StartPCs, QuotaPCs
<1>. QED BY <1>4, <1>6, MovedReservation DEF WritesOnly

\* The rebalance of actor a goes on: quotas apart, no row changes.
LEMMA RebalancingReservation ==
    ASSUME IInv, ReservationInvariant, NEW a \in Actors, NEW o, op' = [op EXCEPT ![a] = o],
           op[a].pc \in QuotaPCs, o.pc \in QuotaPCs \cup StartPCs,
           o.kind = op[a].kind, o.pc \in QuotaPCs => o.starting = op[a].starting,
           o.pc \in StartPCs => op[a].starting,
           admissionGate' = admissionGate,
           \A v \in Workspaces : Close(rows[v], rows'[v])
    PROVE  ReservationInvariant'
<1>1. op'[a] = o /\ \A v \in Workspaces : v # a => op'[v] = op[v]
  BY DEF IInv, TypeOK, Actors
<1>2. \A v \in Workspaces : /\ rows'[v].code = rows[v].code
                            /\ rows'[v].state = "provisioning" => rows[v].state = "provisioning"
  BY DEF Close, LiveStates
<1>3. ASSUME a \in Workspaces
      PROVE  ReservationFacts(o, rows'[a], admissionGate', a)
  <2>1. ReservationFacts(op[a], rows[a], admissionGate, a)
    BY <1>3 DEF ReservationInvariant
  <2>2. Starting(o) => op[a].starting /\ Starting(op[a])
    BY DEF Starting, QuotaPCs, StartPCs
  <2>3. /\ op[a].pc \notin {"idle", "wait_admission"}
        /\ o.pc \notin {"reconcile", "provision", "commit", "inputs", "wait_runtime"}
    BY DEF QuotaPCs, StartPCs
  <2>4. o.kind \in AdmittedKinds => admissionGate' = a
    BY <2>1, <2>3 DEF ReservationFacts
  <2>5. Starting(o) => o.kind \in AdmittedKinds
    BY <2>1, <2>2 DEF ReservationFacts
  <2>6. o.pc \in QuotaPCs /\ o.starting => rows'[a].code = "start_reserved"
    BY <1>2, <1>3, <2>1 DEF ReservationFacts
  <2>. QED BY <2>3, <2>4, <2>5, <2>6 DEF ReservationFacts
<1>. QED BY <1>1, <1>2, <1>3, ReservationFrame

\* o is what becomes of operation old when its rebalance moves to pc.
Rebalanced(o, old, pc) ==
    o.pc = pc /\ o.kind = old.kind /\ o.starting = old.starting /\ o.row = old.row

Peers(a) == {w \in consumers : stableLiveProviderState(rows[w]) /\ ~(op[a].starting /\ w = a)}

Passes(a) ==
    /\ SharesDefined(Cardinality(consumers))
    /\ \A w \in consumers : ~unresolved(w, a, op[a].starting)

LEMMA ListParts ==
    ASSUME IInv, NEW a \in Actors, ListConsumers(a)
    PROVE  /\ op[a].pc = "list" /\ KeepProvider /\ rows' = rows
           /\ \/ ~Passes(a) /\ Return(a)
              \/ Passes(a) /\ KeepGates /\ \E o :
                    /\ op' = [op EXCEPT ![a] = o] /\ Rebalanced(o, op[a], "quota")
                    /\ o.todo = Peers(a)
                    /\ o.target = IF Cardinality(consumers) = 0 THEN 0
                                                               ELSE share(Cardinality(consumers))
<1> DEFINE n == Cardinality(consumers)
           next == [op EXCEPT ![a].pc = "quota",
                              ![a].target = IF n = 0 THEN 0 ELSE share(n),
                              ![a].todo = Peers(a)]
<1>1. /\ op[a].pc = "list" /\ KeepProvider /\ rows' = rows
      /\ \/ ~Passes(a) /\ Return(a)
         \/ Passes(a) /\ KeepGates /\ op' = next
  BY DEF ListConsumers, Passes, Peers
<1>2. PICK t, todo : t = (IF n = 0 THEN 0 ELSE share(n)) /\ todo = Peers(a)
  OBVIOUS
<1>3. PICK o : o = [op[a] EXCEPT !.pc = "quota", !.target = t, !.todo = todo]
  OBVIOUS
<1>4. Rebalanced(o, op[a], "quota") /\ o.todo = todo /\ o.target = t
  BY <1>3, ActorTypes DEF Op, Rebalanced
<1>5. next = [op EXCEPT ![a] = o]
  BY <1>2, <1>3
<1>. HIDE DEF next
<1>. QED BY <1>1, <1>2, <1>4, <1>5

LEMMA RaiseParts ==
    ASSUME IInv, NEW a \in Actors, NEW w \in Workspaces, RaiseQuota(a, w)
    PROVE  /\ op[a].pc = "quota" /\ w \in op[a].todo /\ KeepGates /\ KeepProvider
           /\ \E o : /\ op' = [op EXCEPT ![a] = o] /\ Rebalanced(o, op[a], "apply")
                     /\ o.todo = op[a].todo \ {w} /\ o.cur = w /\ o.target = op[a].target
           /\ \E q \in 0..Pool : /\ rows' = [rows EXCEPT ![w].quota = q]
                                 /\ q >= rows[w].quota /\ q >= op[a].target
<1>1. PICK t \in 0..Pool, old \in 0..Pool : t = op[a].target /\ old = rows[w].quota
  BY ActorTypes, Types DEF Row
<1>2. PICK q \in 0..Pool : q = IF old > t THEN old ELSE t
  OBVIOUS
<1>3. q >= old /\ q >= t
  BY <1>2
<1>4. rows' = [rows EXCEPT ![w].quota = q]
  BY <1>1, <1>2 DEF RaiseQuota
<1>5. PICK todo : todo = op[a].todo \ {w}
  OBVIOUS
<1>6. PICK o : o = [op[a] EXCEPT !.pc = "apply", !.todo = todo, !.cur = w]
  OBVIOUS
<1>7. /\ Rebalanced(o, op[a], "apply") /\ o.todo = todo /\ o.cur = w
      /\ o.target = op[a].target
  BY <1>6, ActorTypes DEF Op, Rebalanced
<1>8. op' = [op EXCEPT ![a] = o]
  BY <1>5, <1>6 DEF RaiseQuota
<1>. QED BY <1>1, <1>3, <1>4, <1>5, <1>7, <1>8 DEF RaiseQuota

LEMMA ApplyParts ==
    ASSUME IInv, NothingLost, NEW a \in Actors, ApplyQuota(a)
    PROVE  /\ op[a].pc = "apply" /\ KeepGates /\ rows' = rows /\ phase' = phase
           /\ \E o : /\ op' = [op EXCEPT ![a] = o] /\ Rebalanced(o, op[a], "shrink")
                     /\ o.todo = op[a].todo /\ o.cur = op[a].cur /\ o.target = op[a].target
           /\ \A v \in Workspaces : v # op[a].cur =>
                 limit'[v] = limit[v] /\ quotas'[v] = quotas[v]
           /\ op[a].cur \in Workspaces =>
                 /\ quotas'[op[a].cur] = op[a].target
                 /\ limit'[op[a].cur] = IF quotas[op[a].cur] = op[a].target
                                          THEN limit[op[a].cur] ELSE op[a].target
<1>1. /\ op[a].pc = "apply" /\ KeepGates /\ rows' = rows /\ phase' = phase
      /\ Goto(a, "shrink")
      /\ limit' = [limit EXCEPT ![op[a].cur] = IF quotas[op[a].cur] = op[a].target
                                                 THEN @ ELSE op[a].target]
      /\ quotas' = [quotas EXCEPT ![op[a].cur] = op[a].target]
  BY DEF ApplyQuota, Fault, NothingLost
<1>2. PICK o : o = [op[a] EXCEPT !.pc = "shrink"]
  OBVIOUS
<1>3. /\ Rebalanced(o, op[a], "shrink") /\ o.todo = op[a].todo /\ o.cur = op[a].cur
      /\ o.target = op[a].target
  BY <1>2, ActorTypes DEF Op, Rebalanced
<1>4. op' = [op EXCEPT ![a] = o]
  BY <1>1, <1>2 DEF Goto
<1>5. limit \in [Workspaces -> 0..Pool] /\ quotas \in [Workspaces -> 0..Pool]
  BY DEF IInv, TypeOK
<1>6. \A v \in Workspaces : v # op[a].cur => limit'[v] = limit[v] /\ quotas'[v] = quotas[v]
  BY <1>1, <1>5
<1>7. op[a].cur \in Workspaces =>
         /\ quotas'[op[a].cur] = op[a].target
         /\ limit'[op[a].cur] = IF quotas[op[a].cur] = op[a].target
                                  THEN limit[op[a].cur] ELSE op[a].target
  BY <1>1, <1>5
<1>. QED BY <1>1, <1>3, <1>4, <1>6, <1>7

LEMMA ShrinkParts ==
    ASSUME IInv, NEW a \in Actors, ShrinkQuota(a)
    PROVE  /\ op[a].pc = "shrink" /\ KeepGates /\ KeepProvider
           /\ op[a].cur \in Workspaces \cup {None}
           /\ \E o : /\ op' = [op EXCEPT ![a] = o] /\ Rebalanced(o, op[a], "quota")
                     /\ o.todo = op[a].todo /\ o.cur = None /\ o.target = op[a].target
           /\ \E q \in 0..Pool : /\ q = op[a].target
                                 /\ rows' = [rows EXCEPT ![op[a].cur].quota = q]
<1>1. PICK q \in 0..Pool : q = op[a].target
  BY ActorTypes
<1>2. PICK o : o = [op[a] EXCEPT !.pc = "quota", !.cur = None]
  OBVIOUS
<1>3. /\ Rebalanced(o, op[a], "quota") /\ o.todo = op[a].todo /\ o.cur = None
      /\ o.target = op[a].target /\ op[a].cur \in Workspaces \cup {None}
  BY <1>2, ActorTypes DEF Op, Rebalanced
<1>4. op' = [op EXCEPT ![a] = o]
  BY <1>2 DEF ShrinkQuota
<1>5. rows' = [rows EXCEPT ![op[a].cur].quota = q]
  BY <1>1 DEF ShrinkQuota
<1>. QED BY <1>1, <1>3, <1>4, <1>5 DEF ShrinkQuota

LEMMA FinishParts ==
    ASSUME IInv, NEW w \in Workspaces, FinishStartQuota(w)
    PROVE  /\ op[w].pc = "quota" /\ op[w].starting /\ KeepGates /\ KeepProvider
           /\ \E o : /\ op' = [op EXCEPT ![w] = o] /\ o.kind = op[w].kind
                     /\ o.pc \in {"save_start_pending", "save_unconfirmed"}
                     /\ o.row.quota = op[w].target
           /\ \E q \in 0..Pool : /\ q = op[w].target
                                 /\ rows' = [rows EXCEPT ![w].quota = q]
<1>1. PICK q \in 0..Pool : q = op[w].target
  BY Types, ActorTypes
<1>2. PICK r : r = [op[w].row EXCEPT !.quota = q]
  OBVIOUS
<1>3. PICK pc : pc = IF r.prov THEN "save_start_pending" ELSE "save_unconfirmed"
  OBVIOUS
<1>4. PICK o : o = [op[w] EXCEPT !.row = r, !.starting = FALSE, !.target = 0, !.pc = pc]
  OBVIOUS
<1>5. /\ op' = [op EXCEPT ![w] = o] /\ rows' = [rows EXCEPT ![w].quota = q]
  BY <1>1, <1>2, <1>3, <1>4 DEF FinishStartQuota
<1>6. o.row = r /\ o.pc = pc /\ o.kind = op[w].kind
  BY <1>4, Types DEF Op
<1>7. r.quota = q
  BY <1>2, Types DEF Row
<1>. QED BY <1>1, <1>3, <1>5, <1>6, <1>7 DEF FinishStartQuota

LEMMA ApplyReservation ==
    ASSUME IInv, ReservationInvariant, NEW a \in Actors, ApplyQuota(a)
    PROVE  ReservationInvariant'
<1>1. op[a].pc = "apply" /\ rows' = rows /\ (Return(a) \/ (Goto(a, "shrink") /\ KeepGates))
  BY DEF ApplyQuota
<1>2. CASE Goto(a, "shrink") /\ KeepGates
  <2>1. PICK o : o = [op[a] EXCEPT !.pc = "shrink"]
    OBVIOUS
  <2>2. Rebalanced(o, op[a], "shrink") /\ op' = [op EXCEPT ![a] = o]
    BY <1>2, <2>1, ActorTypes DEF Op, Rebalanced, Goto
  <2>. QED BY <1>1, <1>2, <2>2, SameRows, RebalancingReservation
           DEF Rebalanced, KeepGates, QuotaPCs, StartPCs
<1>. QED BY <1>1, <1>2, ReturnedReservation DEF WritesOnly

LEMMA QuotaReservation ==
    ASSUME IInv, ReservationInvariant, NEW a \in Actors,
           \/ ListConsumers(a) \/ (\E v \in Workspaces : RaiseQuota(a, v)) \/ ApplyQuota(a)
           \/ ShrinkQuota(a) \/ FinishQuota(a)
    PROVE  ReservationInvariant'
<1>0. /\ "list" \in QuotaPCs /\ "quota" \in QuotaPCs /\ "apply" \in QuotaPCs
      /\ "shrink" \in QuotaPCs /\ QuotaPCs \cap StartPCs = {}
  BY DEF QuotaPCs, StartPCs
<1>1. CASE ListConsumers(a)
  BY <1>0, <1>1, ListParts, SameRows, RebalancingReservation, ReturnedReservation
     DEF Rebalanced, KeepGates, WritesOnly
<1>2. ASSUME NEW v \in Workspaces, RaiseQuota(a, v)
      PROVE  ReservationInvariant'
  <2>1. \A u \in Workspaces : Close(rows[u], rows'[u])
    BY <1>2, RaiseParts, QuotaWritten
  <2>. QED BY <1>0, <1>2, <2>1, RaiseParts, RebalancingReservation DEF Rebalanced, KeepGates
<1>3. CASE ShrinkQuota(a)
  <2>1. \A u \in Workspaces : Close(rows[u], rows'[u])
    BY <1>3, ShrinkParts, QuotaWritten
  <2>. QED BY <1>0, <1>3, <2>1, ShrinkParts, RebalancingReservation DEF Rebalanced, KeepGates
<1>4. CASE FinishQuota(a)
  BY <1>4, ReturnedReservation DEF FinishQuota, GiveUp, WritesOnly
<1>. QED BY <1>1, <1>2, <1>3, <1>4, ApplyReservation

LEMMA FinishReservation ==
    ASSUME IInv, ReservationInvariant, NEW w \in Workspaces, FinishStartQuota(w)
    PROVE  ReservationInvariant'
<1>1. PICK o : /\ op' = [op EXCEPT ![w] = o] /\ o.kind = op[w].kind
               /\ o.pc \in {"save_start_pending", "save_unconfirmed"}
  BY FinishParts
<1>2. op[w].pc = "quota" /\ op[w].starting /\ KeepGates
  BY FinishParts
<1>3. \A u \in Workspaces : Close(rows[u], rows'[u])
  BY FinishParts, QuotaWritten
<1>4. o.pc \in StartPCs /\ o.pc \notin QuotaPCs /\ op[w].pc \in QuotaPCs /\ w \in Actors
  BY <1>1, <1>2 DEF StartPCs, QuotaPCs, Actors
<1>. QED BY <1>1, <1>2, <1>3, <1>4, RebalancingReservation DEF KeepGates

\* The steps before runtimeGate is held.
LEMMA BeginReservation ==
    ASSUME IInv, ReservationInvariant, NEW w \in Workspaces, NEW kind, NEW pc,
           Begin(w, kind, pc),
           pc = "wait_admission" \/ (pc \in {"wait_runtime", "save_denied"}
                                     /\ kind \notin AdmittedKinds)
    PROVE  ReservationInvariant'
<1>1. PICK r : r = rows[w]
  OBVIOUS
<1>2. PICK o : o = [op[w] EXCEPT !.kind = kind, !.row = r, !.pc = pc]
  OBVIOUS
<1>3. op' = [op EXCEPT ![w] = o] /\ admissionGate' = admissionGate /\ rows' = rows
  BY <1>1, <1>2 DEF Begin, KeepGates
<1>4. o.pc = pc /\ o.kind = kind
  BY <1>2, Types DEF Op
<1>5. ReservationFacts(o, rows'[w], admissionGate, w)
  BY <1>4 DEF ReservationFacts, Starting, StartPCs, QuotaPCs, AdmittedKinds
<1>. QED BY <1>3, <1>5, MovedReservation DEF WritesOnly

LEMMA CreateReservation ==
    ASSUME IInv, ReservationInvariant, NEW w \in Workspaces, Create(w)
    PROVE  ReservationInvariant'
<1>1. PICK r : op' = [op EXCEPT ![w].kind = "create", ![w].pc = "wait_admission", ![w].row = r]
  BY Zenon DEF Create
<1>2. PICK o : o = [op[w] EXCEPT !.kind = "create", !.pc = "wait_admission", !.row = r]
  OBVIOUS
<1>3. op' = [op EXCEPT ![w] = o] /\ admissionGate' = admissionGate /\ rows' = rows
  BY <1>1, <1>2, Zenon DEF Create, KeepGates
<1>4. o.pc = "wait_admission"
  BY <1>2, Types DEF Op
<1>5. ReservationFacts(o, rows'[w], admissionGate, w)
  BY <1>4 DEF ReservationFacts, Starting, StartPCs, QuotaPCs
<1>. QED BY <1>3, <1>5, MovedReservation DEF WritesOnly

LEMMA RequestReservation ==
    ASSUME IInv, ReservationInvariant, NEW w \in Workspaces, Request(w)
    PROVE  ReservationInvariant'
<1>1. CASE Create(w)
  BY <1>1, CreateReservation
<1>2. CASE ApproveSetup(w) \/ Retry(w) \/ Resume(w)
  <2>1. \E kind : Begin(w, kind, "wait_admission")
    BY <1>2, Zenon DEF ApproveSetup, Retry, Resume
  <2>. QED BY <2>1, BeginReservation
<1>3. CASE \/ DenySetup(w) \/ Suspend(w) \/ SuspendIfInactive(w) \/ Delete(w)
           \/ ReconcileMaintenanceDrain(w)
  <2>1. \E kind \in {"deny", "suspend", "idle_suspend", "delete", "drain"} :
           \E pc \in {"wait_runtime", "save_denied"} : Begin(w, kind, pc)
    BY <1>3, Zenon DEF DenySetup, Suspend, SuspendIfInactive, Delete, ReconcileMaintenanceDrain
  <2>. QED BY <2>1, BeginReservation DEF AdmittedKinds, StartKinds
<1>4. CASE RetryQuarantine(w)
  <2>1. /\ op' = op /\ admissionGate' = admissionGate /\ op[w].pc = "idle"
        /\ rows' = [rows EXCEPT ![w] = quarantined(rows[w])]
    BY <1>4 DEF RetryQuarantine, KeepGates
  <2>2. op' = [op EXCEPT ![w] = op[w]]
    BY <2>1 DEF IInv, TypeOK
  <2>3. ReservationFacts(op[w], rows'[w], admissionGate, w)
    BY <2>1 DEF ReservationFacts, Starting, StartPCs, QuotaPCs
  <2>. QED BY <2>1, <2>2, <2>3, MovedReservation DEF WritesOnly
<1>5. CASE TouchActivity(w) \/ MarkIdleIfInactive(w)
  <2>1. /\ op' = op /\ admissionGate' = admissionGate
        /\ rows[w].state \in LiveStates
        /\ \E st \in LiveStates : rows' = [rows EXCEPT ![w].state = st]
    BY <1>5 DEF TouchActivity, MarkIdleIfInactive, LiveStates, KeepGates
  <2>2. \A v \in Workspaces : /\ rows'[v].code = rows[v].code
                              /\ rows'[v].state = "provisioning" => rows[v].state = "provisioning"
    BY <2>1 DEF IInv, TypeOK, Row, LiveStates
  <2>. QED BY <2>1, <2>2, ConstantsAssumption, ReservationFrame
<1>. QED BY <1>1, <1>2, <1>3, <1>4, <1>5 DEF Request

LEMMA acquireAdmissionReservation ==
    ASSUME IInv, ReservationInvariant, NEW w \in Workspaces, acquireAdmission(w)
    PROVE  ReservationInvariant'
<1>1. PICK pc : pc = IF op[w].kind = "reconcile" THEN "wait_runtime" ELSE "decide"
  OBVIOUS
<1>2. /\ op'[w].pc = pc /\ op'[w].kind = op[w].kind
      /\ \A v \in Workspaces : v # w => op'[v] = op[v]
  BY <1>1 DEF acquireAdmission, Goto, IInv, TypeOK, Op, Actors
<1>3. rows' = rows /\ admissionGate = None /\ admissionGate' = w
  BY DEF acquireAdmission
<1>4. ReservationFacts(op'[w], rows'[w], admissionGate', w)
  BY <1>1, <1>2, <1>3 DEF ReservationFacts, Starting, StartPCs, QuotaPCs, StartKinds
<1>. QED BY <1>2, <1>3, <1>4, ReservationFrame

LEMMA acquireRuntimeReservation ==
    ASSUME IInv, ReservationInvariant, NEW w \in Workspaces, acquireRuntime(w)
    PROVE  ReservationInvariant'
<1>1. PICK r, pc, b : r = rows[w] /\ pc = AfterRuntime(op[w].kind)
                      /\ b = (op[w].kind = "resume")
  OBVIOUS
<1>2. PICK o : o = [op[w] EXCEPT !.row = r, !.pc = pc, !.starting = b]
  OBVIOUS
<1>3. /\ op' = [op EXCEPT ![w] = o] /\ rows' = rows /\ admissionGate' = admissionGate
      /\ op[w].pc = "wait_runtime"
  BY <1>1, <1>2 DEF acquireRuntime
<1>4. o.pc = pc /\ o.kind = op[w].kind /\ o.starting = b
  BY <1>2, Types DEF Op
<1>5. /\ ReservationFacts(op[w], rows[w], admissionGate, w)
      /\ op[w].kind \in Kinds \ {"deny", "capacity"}
  BY <1>3, Types DEF ReservationInvariant, Facts, WaitFacts, Op
<1>6. o.kind \in AdmittedKinds => admissionGate = w
  BY <1>3, <1>4, <1>5 DEF ReservationFacts
<1>7. CASE o.kind = "resume"
  <2>1. pc = "list" /\ rows'[w].code = "start_reserved"
    BY <1>1, <1>3, <1>4, <1>5, <1>7 DEF AfterRuntime, ReservationFacts, StartKinds
  <2>2. ReservationFacts(o, rows'[w], admissionGate, w)
    BY <1>4, <1>6, <1>7, <2>1 DEF ReservationFacts, AdmittedKinds, StartKinds
  <2>. QED BY <1>3, <2>2, MovedReservation DEF WritesOnly
<1>8. CASE o.kind \in {"create", "approve", "retry"}
  <2>1. pc = "provision" /\ rows'[w].code = "start_reserved"
    BY <1>1, <1>3, <1>4, <1>5, <1>8 DEF AfterRuntime, ReservationFacts, StartKinds
  <2>2. ReservationFacts(o, rows'[w], admissionGate, w)
    BY <1>4, <1>6, <1>8, <2>1 DEF ReservationFacts, AdmittedKinds, StartKinds
  <2>. QED BY <1>3, <2>2, MovedReservation DEF WritesOnly
<1>9. CASE o.kind = "reconcile"
  <2>1. pc = "reconcile"
    BY <1>1, <1>4, <1>9 DEF AfterRuntime
  <2>2. ReservationFacts(o, rows'[w], admissionGate, w)
    BY <1>4, <1>6, <1>9, <2>1 DEF ReservationFacts, AdmittedKinds, QuotaPCs
  <2>. QED BY <1>3, <2>2, MovedReservation DEF WritesOnly
<1>10. CASE o.kind \in {"suspend", "idle_suspend", "delete", "drain"}
  <2>1. pc \in {"suspend", "delete", "drain"}
    BY <1>1, <1>4, <1>10 DEF AfterRuntime
  <2>2. ReservationFacts(o, rows'[w], admissionGate, w)
    BY <1>4, <1>6, <2>1, NoReservation DEF Starting, StartPCs, QuotaPCs
  <2>. QED BY <1>3, <2>2, MovedReservation DEF WritesOnly
<1>. QED BY <1>4, <1>5, <1>7, <1>8, <1>9, <1>10 DEF Kinds

LEMMA DecidedRow ==
    ASSUME NEW r \in Row, NEW q, NEW b, NEW d \in BOOLEAN
    PROVE  LET n == [r EXCEPT !.quota = q, !.approved = b,
                              !.state = IF d THEN "provisioning" ELSE "queued",
                              !.code = IF d THEN "start_reserved" ELSE "other"]
           IN n.state = "provisioning" => n.code = "start_reserved"
BY DEF Row

LEMMA DecideReservation ==
    ASSUME IInv, ReservationInvariant, NEW w \in Workspaces, NEW diskOK \in BOOLEAN,
           Decide(w, diskOK)
    PROVE  ReservationInvariant'
<1>1. PICK s \in Row : s = IF op[w].kind = "create" THEN op[w].row ELSE rows[w]
  BY Types
<1>2. PICK d : d = PlanStart(diskOK)
  OBVIOUS
<1>3. d.admitted \in BOOLEAN
  BY <1>2 DEF PlanStart
<1>4. PICK n : n = [s EXCEPT !.quota = d.quota, !.approved = @ \/ op[w].kind = "approve",
                             !.state = IF d.admitted THEN "provisioning" ELSE "queued",
                             !.code = IF d.admitted THEN "start_reserved" ELSE "other"]
  OBVIOUS
<1>5. n.state = "provisioning" => n.code = "start_reserved"
  BY <1>3, <1>4, DecidedRow
<1>6. /\ op[w].pc = "decide"
      /\ \/ Return(w) /\ WritesOnly(w)
         \/ op' = [op EXCEPT ![w].row = n, ![w].pc = "commit"] /\ KeepGates /\ rows' = rows
  BY <1>1, <1>2, <1>4 DEF Decide, WritesOnly
<1>7. CASE Return(w) /\ WritesOnly(w)
  BY <1>7, ReturnedReservation DEF Actors
<1>8. CASE op' = [op EXCEPT ![w].row = n, ![w].pc = "commit"] /\ KeepGates /\ rows' = rows
  <2>1. PICK o : o = [op[w] EXCEPT !.row = n, !.pc = "commit"]
    OBVIOUS
  <2>2. o.pc = "commit" /\ o.row = n /\ o.kind = op[w].kind
    BY <2>1, Types DEF Op
  <2>3. op' = [op EXCEPT ![w] = o] /\ admissionGate' = admissionGate
    BY <1>8, <2>1 DEF KeepGates
  <2>4. o.kind \in AdmittedKinds => admissionGate = w
    BY <1>6, <2>2 DEF ReservationInvariant, ReservationFacts
  <2>5. ReservationFacts(o, rows'[w], admissionGate, w)
    BY <1>5, <2>2, <2>4 DEF ReservationFacts, Starting, StartPCs, QuotaPCs
  <2>. QED BY <1>8, <2>3, <2>5, MovedReservation DEF WritesOnly
<1>. QED BY <1>6, <1>7, <1>8

LEMMA EarlySavesReservation ==
    ASSUME IInv, ReservationInvariant, NEW w \in Workspaces,
           Commit(w) \/ PrepareInputs(w) \/ SaveDenied(w)
    PROVE  ReservationInvariant'
<1>1. ReservationFacts(op[w], rows[w], admissionGate, w) /\ op[w].row \in Row
  BY Types DEF ReservationInvariant
<1>2. CASE Return(w) /\ WritesOnly(w)
  BY <1>2, ReturnedReservation DEF Actors
<1>3. ASSUME NEW r, NEW pc \in {"inputs", "wait_runtime"}, Save(w, r, pc),
             op[w].pc \in {"commit", "inputs"},
             r.state = "provisioning" => r.code = "start_reserved",
             pc = "wait_runtime" => r.state = "provisioning"
      PROVE  ReservationInvariant'
  <2>1. PICK o : o = [op[w] EXCEPT !.row = r, !.pc = pc]
    OBVIOUS
  <2>2. o.pc = pc /\ o.kind = op[w].kind
    BY <2>1, Types DEF Op
  <2>3. /\ op' = [op EXCEPT ![w] = o] /\ admissionGate' = admissionGate
        /\ rows' = [rows EXCEPT ![w] = r]
    BY <1>3, <2>1 DEF Save, KeepGates
  <2>4. rows'[w] = r
    BY <2>3 DEF IInv, TypeOK
  <2>5. o.kind \in AdmittedKinds => admissionGate = w
    BY <1>1, <1>3, <2>2 DEF ReservationFacts
  <2>6. ReservationFacts(o, rows'[w], admissionGate, w)
    BY <1>3, <2>2, <2>4, <2>5 DEF ReservationFacts, Starting, StartPCs, QuotaPCs
  <2>. QED BY <2>3, <2>6, MovedReservation DEF WritesOnly
<1>4. CASE Commit(w)
  <2>1. /\ op[w].pc = "commit"
        /\ \/ Return(w) /\ WritesOnly(w)
           \/ Save(w, op[w].row, "inputs")
           \/ Save(w, op[w].row, "wait_runtime") /\ op[w].row.state = "provisioning"
    BY <1>4 DEF Commit, SaveAndReturn, WritesOnly
  <2>2. op[w].row.state = "provisioning" => op[w].row.code = "start_reserved"
    BY <1>1, <2>1 DEF ReservationFacts
  <2>. QED BY <1>2, <1>3, <2>1, <2>2
<1>5. CASE PrepareInputs(w)
  <2>1. PICK r : r = [op[w].row EXCEPT !.inputs = FALSE]
    OBVIOUS
  <2>2. r.state = op[w].row.state /\ r.code = op[w].row.code
    BY <1>1, <2>1 DEF Row
  <2>3. /\ op[w].pc = "inputs"
        /\ \/ Return(w) /\ WritesOnly(w)
           \/ Save(w, r, "wait_runtime") /\ r.state = "provisioning"
    BY <1>5, <2>1 DEF PrepareInputs, SaveAndReturn, WritesOnly
  <2>4. Close(op[w].row, rows[w])
    BY <2>3, Types DEF Facts, CopyFacts
  <2>5. r.state = "provisioning" => r.code = "start_reserved"
    BY <1>1, <2>2, <2>3, <2>4 DEF ReservationFacts, Close, LiveStates
  <2>. QED BY <1>2, <1>3, <2>3, <2>5
<1>6. CASE SaveDenied(w)
  BY <1>2, <1>6, Zenon DEF SaveDenied, SaveAndReturn, WritesOnly
<1>. QED BY <1>4, <1>5, <1>6

LEMMA StepReservation ==
    ASSUME IInv, ReservationInvariant, NEW w \in Workspaces, Step(w)
    PROVE  ReservationInvariant'
<1>1. w \in Actors
  BY DEF Actors
<1>2. CASE acquireAdmission(w) \/ acquireRuntime(w) \/ Decide(w, TRUE)
  BY <1>2, acquireAdmissionReservation, acquireRuntimeReservation, DecideReservation
<1>3. CASE Commit(w) \/ PrepareInputs(w) \/ SaveDenied(w)
  BY <1>3, EarlySavesReservation
<1>4. CASE \/ ListConsumers(w) \/ (\E v \in Workspaces : RaiseQuota(w, v)) \/ ApplyQuota(w)
           \/ ShrinkQuota(w) \/ FinishQuota(w) \/ FinishStartQuota(w)
  BY <1>1, <1>4, QuotaReservation, FinishReservation
<1>5. CASE ReconcileProvisioning(w) \/ Provision(w) \/ SaveRunning(w)
  BY <1>5, ProvisioningReservation, SaveRunningReservation
<1>6. CASE \/ SaveUnconfirmed(w) \/ SaveProvisioned(w) \/ markProviderStartPending(w)
           \/ CallProvision(w) \/ CallStart(w) \/ CallInitialize(w)
  BY <1>6, StartSaves, StartCalls, ChainReservation, PlainReservation
<1>7. CASE \/ SaveSetupPending(w) \/ SaveAwaiting(w) \/ SaveCleanup(w) \/ SaveFailed(w)
           \/ SaveFound(w) \/ SaveReserved(w) \/ SaveSuspended(w) \/ SaveDrainFound(w)
           \/ persistMaintenanceDrainResult(w) \/ SaveDeleteFound(w) \/ FinalizeDelete(w)
  BY <1>7, SavesPlain, PlainReservation
<1>8. CASE SaveSuspending(w) \/ SaveDeleting(w) \/ DrainWorkspace(w) \/ StartSuspension(w)
  BY <1>8, MorePlain, PlainReservation
<1>9. CASE \/ SetupStop(w) \/ CleanupStop(w) \/ SuspendStop(w) \/ DrainStop(w)
           \/ ReconcileLookup(w) \/ DeleteLookup(w) \/ DrainLookup(w) \/ CallDelete(w)
  BY <1>9, CallsPlain, PlainReservation
<1>. QED BY <1>2, <1>3, <1>4, <1>5, <1>6, <1>7, <1>8, <1>9, Zenon DEF Step

LEMMA NextReservation ==
    ASSUME IInv, ReservationInvariant, [Next]_vars
    PROVE  ReservationInvariant'
<1>1. CASE \E w \in Workspaces : Request(w) \/ Step(w) \/ Decide(w, FALSE)
  BY <1>1, RequestReservation, StepReservation, DecideReservation
<1>2. CASE LifecycleStep
  <2>1. Lifecycle \in Actors /\ Lifecycle \notin Workspaces
    BY ConstantsAssumption DEF Actors
  <2>2. CASE ReconcileCapacity
    <3>1. /\ op' = [op EXCEPT ![Lifecycle].pc = "list"] /\ rows' = rows
          /\ admissionGate' = admissionGate
      BY <2>2 DEF ReconcileCapacity, Goto
    <3>2. \A v \in Workspaces : v # Lifecycle => op'[v] = op[v]
      BY <3>1 DEF IInv, TypeOK, Actors
    <3>. QED BY <2>1, <3>1, <3>2, ReservationFrame
  <2>. QED BY <1>2, <2>1, <2>2, QuotaReservation DEF LifecycleStep
<1>3. CASE SetMaintenanceDrain \/ BeginMaintenanceDrain \/ UNCHANGED vars
  <2>1. /\ rows' = rows /\ op' = op
        /\ admissionGate' = admissionGate \/ admissionGate \in {Maintenance, None}
    BY <1>3 DEF SetMaintenanceDrain, BeginMaintenanceDrain, vars, KeepGates
  <2>. QED BY <2>1, ConstantsAssumption, ReservationFrame
<1>4. CASE \E a \in Actors : StoreError(a)
  BY <1>4, ReturnedReservation DEF StoreError, WritesOnly
<1>5. CASE Crash
  <2>1. \A w \in Workspaces : op'[w] = NoOp
    BY <1>5 DEF Crash, Actors
  <2>. QED BY <2>1, NoOpReservation DEF ReservationInvariant
<1>. QED BY <1>1, <1>2, <1>3, <1>4, <1>5 DEF Next

\* A start is at its admission gate from its decision to its return, and its
\* rebalance runs on a reservation that says nothing was started yet.
LEMMA ReservationInvariance == Spec => []ReservationInvariant
<1>1. Init => ReservationInvariant
  <2>1. Init => \A w \in Workspaces : op[w] = NoOp
    BY DEF Init, Actors
  <2>. QED BY <2>1, NoOpReservation DEF ReservationInvariant
<1>2. IInv /\ ReservationInvariant /\ [Next]_vars => ReservationInvariant'
  BY NextReservation
<1>. QED BY <1>1, <1>2, Invariance, PTL DEF Spec

-----------------------------------------------------------------------------
(* The recorded quotas.  Fewer consumers never get less each. *)

LEMMA ShareFalls ==
    ASSUME NEW m \in Nat, NEW n \in Nat, m > 0, m <= n
    PROVE  share(m) \in Nat /\ share(n) \in Nat /\ share(n) <= share(m)
<1>1. Pool \in Nat
  BY ConstantsAssumption
<1>2. PICK p \in Nat, q \in Nat : p = Pool \div m /\ q = Pool \div n
  BY <1>1, SMT
<1>3. Pool < m * (p + 1) /\ n * q <= Pool
  BY <1>1, <1>2, SMT
<1>4. ASSUME p + 1 <= q
      PROVE  FALSE
  <2>1. m * (p + 1) <= m * q
    BY <1>4, SMT
  <2>2. m * q <= n * q
    BY SMT
  <2>3. m * (p + 1) \in Nat /\ m * q \in Nat /\ n * q \in Nat
    BY SMT
  <2>. QED BY <1>1, <1>3, <2>1, <2>2, <2>3
<1>. QED BY <1>2, <1>4 DEF share

LEMMA ConsumersFinite ==
    /\ IsFiniteSet(consumers) /\ Cardinality(consumers) \in Nat
    /\ \A w \in consumers : Cardinality(consumers) > 0
<1>1. IsFiniteSet(consumers) /\ Cardinality(consumers) \in Nat
  BY ConstantsAssumption, FS_Subset, FS_CardinalityType DEF consumers
<1>2. consumers # {} => Cardinality(consumers) # 0
  BY <1>1, FS_EmptySet
<1>. QED BY <1>1, <1>2

LEMMA ConsumersFinitePrimed ==
    /\ IsFiniteSet(consumers') /\ Cardinality(consumers') \in Nat
    /\ \A w \in consumers' : Cardinality(consumers') > 0
<1>1. IsFiniteSet(consumers') /\ Cardinality(consumers') \in Nat
  BY ConstantsAssumption, FS_Subset, FS_CardinalityType DEF consumers
<1>2. consumers' # {} => Cardinality(consumers') # 0
  BY <1>1, FS_EmptySet
<1>. QED BY <1>1, <1>2

\* A rebalance that went through still would when consumers left.
LEMMA SettledKept ==
    ASSUME NEW w \in Workspaces, Settled(w), admissionGate' = w, w \in consumers',
           \A v \in consumers' : v \in consumers /\ (unresolved(v, w, TRUE)' => unresolved(v, w, TRUE))
    PROVE  /\ Settled(w)'
           /\ \A q \in Nat : q <= share(Cardinality(consumers)) => q <= share(Cardinality(consumers'))
<1>1. consumers' \subseteq consumers
  OBVIOUS
<1>2. PICK m \in Nat, n \in Nat : m = Cardinality(consumers') /\ n = Cardinality(consumers)
  BY ConsumersFinite, ConsumersFinitePrimed
<1>3. m > 0 /\ m <= n
  BY <1>1, <1>2, ConsumersFinite, ConsumersFinitePrimed, FS_Subset
<1>4. share(m) \in Nat /\ share(n) \in Nat /\ share(n) <= share(m)
  BY <1>3, ShareFalls
<1>5. MaxRunning \in Nat /\ MinShare \in Nat
  BY ConstantsAssumption
<1>6. SharesDefined(m)
  <2>1. SharesDefined(n)
    BY <1>2 DEF Settled
  <2>. QED BY <1>3, <1>4, <1>5, <2>1 DEF SharesDefined
<1>7. Settled(w)'
  BY <1>2, <1>6 DEF Settled
<1>8. \A q \in Nat : q <= share(n) => q <= share(m)
  BY <1>4
<1>. QED BY <1>2, <1>7, <1>8

\* The case in which no consumer changes.
LEMMA SettledSame ==
    ASSUME NEW w \in Workspaces, Settled(w), admissionGate' = w,
           consumers' = consumers,
           \A v \in consumers : unresolved(v, w, TRUE)' => unresolved(v, w, TRUE)
    PROVE  Settled(w)'
BY DEF Settled

LEMMA PCGroups ==
    /\ StartPCs \subseteq RuntimePCs /\ QuotaPCs \subseteq RuntimePCs
    /\ RebalancePCs = QuotaPCs \ {"list"} /\ "list" \in QuotaPCs
    /\ StartPCs \cap QuotaPCs = {}
    /\ {"apply", "shrink", "quota"} = RebalancePCs
    /\ {"save_unconfirmed", "call_provision", "save_start_pending", "save_provisioned",
        "call_start", "call_initialize", "save_running"} = StartPCs
BY DEF StartPCs, QuotaPCs, RuntimePCs, RebalancePCs

\* Numbers are numbers.
LEMMA Quantities ==
    ASSUME IInv
    PROVE  /\ \A w \in Workspaces : limit[w] \in Nat /\ quotas[w] \in Nat /\ rows[w].quota \in Nat
           /\ \A w \in Workspaces : op[w].row.quota \in Nat
           /\ \A a \in Actors : op[a].target \in Nat
<1>1. \A w \in Workspaces : limit[w] \in Nat /\ quotas[w] \in Nat
  BY ConstantsAssumption DEF IInv, TypeOK
<1>2. \A w \in Workspaces : rows[w].quota \in Nat /\ op[w].row.quota \in Nat
  BY Types, ConstantsAssumption DEF Row
<1>3. \A a \in Actors : op[a].target \in Nat
  BY ActorTypes, ConstantsAssumption
<1>. QED BY <1>1, <1>2, <1>3

LEMMA StartConsumes ==
    ASSUME IInv, NEW w \in Workspaces, Starting(op[w])
    PROVE  w \in consumers /\ rows[w].state = "provisioning" /\ ~stableLiveProviderState(rows[w])
<1>1. rows[w].state = "provisioning"
  BY Types DEF Facts, StateFacts
<1>. QED BY <1>1 DEF consumers, CountsAsRunning, stableLiveProviderState, LiveStates

\* Outside runtimeGate an operation takes part in none of this.
LEMMA WaitingQuota ==
    ASSUME NEW a, op'[a].pc \notin RuntimePCs
    PROVE  StartFacts(a)' /\ ClosingFacts(a)' /\ RebalanceFacts(a)' /\ ~Closing(a)'
<1>1. op'[a].pc \notin StartPCs /\ op'[a].pc \notin QuotaPCs
  BY PCGroups
<1>2. op'[a].pc \notin RebalancePCs /\ op'[a].pc # "list"
  BY <1>1, PCGroups
<1>3. /\ op'[a].pc \notin {"apply", "shrink"}
      /\ op'[a].pc \notin {"save_unconfirmed", "call_provision", "save_start_pending"}
      /\ op'[a].pc \notin {"save_provisioned", "call_start", "call_initialize", "save_running"}
  BY <1>1, <1>2, PCGroups
<1>4. ~Closing(a)'
  BY <1>2 DEF Closing
<1>5. StartFacts(a)'
  BY <1>1, <1>2, <1>3 DEF StartFacts
<1>6. RebalanceFacts(a)'
  BY <1>2, <1>3 DEF RebalanceFacts
<1>. QED BY <1>4, <1>5, <1>6 DEF ClosingFacts

\* While a holds runtimeGate nobody else is in a start or a rebalance.
LEMMA OthersWait ==
    ASSUME FreshInvariant, NEW a \in Actors, op[a].pc \in RuntimePCs,
           NEW v \in Actors, v # a
    PROVE  op[v].pc \notin RuntimePCs
BY DEF FreshInvariant

LEMMA NotClosing ==
    ASSUME NEW v, op[v].pc \notin RuntimePCs
    PROVE  ~Closing(v)
BY PCGroups DEF Closing

LEMMA HolderQuota ==
    ASSUME FreshInvariant, NEW a \in Actors, op[a].pc \in RuntimePCs,
           \A v \in Actors : v # a => op'[v] = op[v],
           a \in Workspaces => StartFacts(a)' /\ ClosingFacts(a)',
           RebalanceFacts(a)',
           \A v \in Workspaces : RecordFacts(v)'
    PROVE  QuotaInvariant'
<1>1. \A v \in Actors : v # a => StartFacts(v)' /\ ClosingFacts(v)' /\ RebalanceFacts(v)'
  BY OthersWait, WaitingQuota
<1>2. \A v \in Workspaces : StartFacts(v)' /\ ClosingFacts(v)' /\ RecordFacts(v)'
  BY <1>1 DEF Actors
<1>3. \A v \in Actors : RebalanceFacts(v)'
  BY <1>1
<1>. QED BY <1>2, <1>3 DEF QuotaInvariant

\* The record of v stays what it was.
LEMMA RecordKept ==
    ASSUME IInv, IInv', QuotaInvariant, NEW v \in Workspaces,
           stableLiveProviderState(rows'[v]) =>
              /\ stableLiveProviderState(rows[v]) /\ rows[v].quota <= rows'[v].quota
              /\ limit'[v] = limit[v] /\ quotas'[v] \in {quotas[v], 0},
           stableLiveProviderState(rows'[v]) /\ Closing(v) => Closing(v)'
    PROVE  RecordFacts(v)'
<1>. SUFFICES ASSUME stableLiveProviderState(rows'[v])
              PROVE  limit'[v] <= rows'[v].quota /\ (Remembered(v)' \/ Closing(v)')
  BY DEF RecordFacts
<1>1. limit[v] <= rows[v].quota /\ (Remembered(v) \/ Closing(v))
  BY DEF QuotaInvariant, RecordFacts
<1>2. limit[v] \in Nat /\ rows[v].quota \in Nat
  BY Quantities
<1>3. rows'[v].quota \in Nat
  BY ConstantsAssumption DEF IInv, TypeOK, Row
<1>4. limit'[v] <= rows'[v].quota
  BY <1>1, <1>2, <1>3
<1>5. Remembered(v) => Remembered(v)'
  BY DEF Remembered
<1>. QED BY <1>1, <1>4, <1>5

\* A step that starts nothing and ends no rebalance.
LEMMA PlainQuota ==
    ASSUME IInv, IInv', FreshInvariant, QuotaInvariant, NEW w \in Workspaces, Plain(w)
    PROVE  QuotaInvariant'
<1>1. w \in Actors /\ op[w].pc \in RuntimePCs \ QuotaPCs
  BY DEF Actors, Plain
<1>2. ~Closing(w)
  BY <1>1, PCGroups DEF Closing
<1>3. \A v \in Workspaces : ~Closing(v)
  BY <1>1, <1>2, OthersWait, NotClosing DEF Actors
<1>4. \A v \in Workspaces : rows[v].quota <= rows[v].quota
  BY Quantities
<1>5. \A v \in Workspaces : RecordFacts(v)'
  BY <1>3, <1>4, RecordKept DEF Plain
<1>6. /\ op'[w].pc \notin StartPCs /\ op'[w].pc \notin RebalancePCs
      /\ op'[w].pc = "list" => ~stableLiveProviderState(rows'[w])
  <2>1. CASE op'[w] = NoOp
    BY <2>1, NoOpParts DEF StartPCs, RebalancePCs
  <2>2. CASE op'[w].pc \in PlainPCs
    BY <2>2, PlainPCsFacts, PCGroups
  <2>3. CASE op'[w].pc = "list" /\ ~stableLiveProviderState(rows'[w])
    BY <2>3 DEF StartPCs, RebalancePCs
  <2>. QED BY <2>1, <2>2, <2>3 DEF Plain
<1>7. /\ op'[w].pc \notin {"apply", "shrink"}
      /\ op'[w].pc \notin {"save_unconfirmed", "call_provision", "save_start_pending"}
      /\ op'[w].pc \notin {"save_provisioned", "call_start", "call_initialize", "save_running"}
  BY <1>6, PCGroups
<1>8. StartFacts(w)' /\ RebalanceFacts(w)'
  BY <1>6, <1>7 DEF StartFacts, RebalanceFacts
<1>9. ClosingFacts(w)'
  BY <1>6 DEF ClosingFacts, Closing
<1>10. \A v \in Actors : v # w => op'[v] = op[v]
  BY DEF Plain
<1>. QED BY <1>1, <1>5, <1>8, <1>9, <1>10, HolderQuota

\* A step that leaves alone what v settled: its gate, and the consumers.
Undisturbed(v) ==
    /\ admissionGate' = v /\ (v \in consumers => v \in consumers')
    /\ \A u \in consumers' : u \in consumers /\ (unresolved(u, v, TRUE)' => unresolved(u, v, TRUE))

\* A step of an operation that does not hold runtimeGate.
LEMMA OutsideQuota ==
    ASSUME IInv, IInv', QuotaInvariant, limit' = limit, quotas' = quotas, phase' = phase,
           \A a \in Actors : op[a].pc \in RuntimePCs \/ op'[a].pc \in RuntimePCs => op'[a] = op[a],
           \A v \in Workspaces : stableLiveProviderState(rows'[v]) =>
              stableLiveProviderState(rows[v]) /\ rows'[v].quota = rows[v].quota,
           \A v \in Workspaces : op[v].pc \in RuntimePCs /\ admissionGate = v => Undisturbed(v)
    PROVE  QuotaInvariant'
<1>1. \A v \in Workspaces : v \in Actors
  BY DEF Actors
<1>2. ASSUME NEW v \in Workspaces
      PROVE  RecordFacts(v)'
  <2>1. Closing(v) => op[v].pc \in RuntimePCs
    BY PCGroups DEF Closing
  <2>2. Closing(v) => op'[v] = op[v]
    BY <1>1, <2>1
  <2>3. Closing(v) => Closing(v)'
    BY <2>2 DEF Closing, Due
  <2>4. rows[v].quota <= rows[v].quota
    BY Quantities
  <2>. QED BY <2>3, <2>4, RecordKept
<1>3. ASSUME NEW v \in Workspaces, op'[v] = op[v], op[v].pc \in RuntimePCs,
             Settled(v), v \in consumers
      PROVE  /\ Settled(v)'
             /\ \A q \in Nat : q <= share(Cardinality(consumers)) => q <= share(Cardinality(consumers'))
  <2>1. Undisturbed(v)
    BY <1>3 DEF Settled
  <2>. QED BY <1>3, <2>1, SettledKept DEF Undisturbed
<1>4. ASSUME NEW v \in Workspaces, op'[v] = op[v], op[v].pc \in RuntimePCs
      PROVE  StartFacts(v)'
  <2>1. StartFacts(v) /\ op[v].target \in Nat /\ op[v].row.quota \in Nat
    BY <1>1, Quantities DEF QuotaInvariant
  <2>2. PICK o : o = op[v] /\ o = op'[v]
    BY <1>4
  <2>3. ASSUME o.pc \in StartPCs \/ (o.pc \in RebalancePCs /\ o.starting)
        PROVE  /\ Settled(v)'
               /\ \A q \in Nat : q <= share(Cardinality(consumers)) => q <= share(Cardinality(consumers'))
    <3>1. Starting(op[v])
      BY <2>2, <2>3, PCGroups DEF Starting
    <3>2. v \in consumers
      BY <3>1, StartConsumes
    <3>3. Settled(v)
      BY <2>1, <2>2, <2>3 DEF StartFacts
    <3>. QED BY <1>3, <1>4, <3>2, <3>3
  <2>4. o.pc \in RebalancePCs /\ o.starting => o.target <= share(Cardinality(consumers'))
    BY <2>1, <2>2, <2>3 DEF StartFacts
  <2>5. o.pc \in StartPCs => o.row.quota <= share(Cardinality(consumers'))
    BY <2>1, <2>2, <2>3 DEF StartFacts
  <2>6. /\ o.pc \in {"save_unconfirmed", "call_provision", "save_start_pending"}
             => phase'[v] # "live"
        /\ o.pc \in {"save_provisioned", "call_start", "call_initialize", "save_running"}
             => (phase'[v] = "live" => limit'[v] <= o.row.quota)
    BY <2>1, <2>2 DEF StartFacts
  <2>. QED BY <2>2, <2>3, <2>4, <2>5, <2>6 DEF StartFacts
<1>5. ASSUME NEW v \in Workspaces, op'[v] = op[v], op[v].pc \in RuntimePCs
      PROVE  ClosingFacts(v)'
  <2>. SUFFICES ASSUME stableLiveProviderState(rows'[v]), Closing(v)'
                PROVE  /\ op'[v].pc = "list" => Settled(v)' /\ limit'[v] <= share(Cardinality(consumers'))
                       /\ op'[v].pc # "list" => limit'[v] <= op'[v].target
    BY DEF ClosingFacts
  <2>1. Closing(v) /\ stableLiveProviderState(rows[v])
    BY <1>5 DEF Closing, Due
  <2>2. /\ op[v].pc = "list" => Settled(v) /\ limit[v] <= share(Cardinality(consumers))
        /\ op[v].pc # "list" => limit[v] <= op[v].target
    BY <2>1 DEF QuotaInvariant, ClosingFacts
  <2>3. v \in consumers /\ limit[v] \in Nat
    BY <2>1, Quantities DEF consumers, CountsAsRunning, stableLiveProviderState
  <2>. QED BY <1>3, <1>5, <2>2, <2>3
<1>6. ASSUME NEW a \in Actors, op'[a] = op[a]
      PROVE  RebalanceFacts(a)'
  <2>1. RebalanceFacts(a)
    BY DEF QuotaInvariant
  <2>2. PICK o : o = op[a] /\ o = op'[a]
    BY <1>6
  <2>3. PICK c : c = o.cur
    OBVIOUS
  <2>. QED BY <2>1, <2>2, <2>3 DEF RebalanceFacts
<1>7. \A a \in Actors : op'[a].pc \in RuntimePCs => op'[a] = op[a] /\ op[a].pc \in RuntimePCs
  OBVIOUS
<1>8. \A v \in Workspaces : StartFacts(v)' /\ ClosingFacts(v)'
  BY <1>1, <1>4, <1>5, <1>7, WaitingQuota
<1>9. \A a \in Actors : RebalanceFacts(a)'
  BY <1>6, <1>7, WaitingQuota
<1>. QED BY <1>2, <1>8, <1>9 DEF QuotaInvariant

\* A step of the operation of w before it holds runtimeGate.
LEMMA WaitingStepQuota ==
    ASSUME IInv, IInv', QuotaInvariant, NEW w \in Workspaces, KeepProvider,
           \A a \in Actors : a # w => op'[a] = op[a],
           op[w].pc \notin RuntimePCs, op'[w].pc \notin RuntimePCs,
           \A v \in Workspaces : v # w => rows'[v] = rows[v],
           rows'[w] = rows[w] \/ ~stableLiveProviderState(rows'[w]),
           \/ admissionGate = w
           \/ /\ admissionGate' = admissionGate \/ admissionGate = None
              /\ rows'[w] = rows[w] \/ ~CountsAsRunning(rows'[w])
    PROVE  QuotaInvariant'
<1>1. \A a \in Actors : op[a].pc \in RuntimePCs \/ op'[a].pc \in RuntimePCs => op'[a] = op[a]
  OBVIOUS
<1>2. \A v \in Workspaces : stableLiveProviderState(rows'[v]) =>
         stableLiveProviderState(rows[v]) /\ rows'[v].quota = rows[v].quota
  OBVIOUS
<1>3. ASSUME NEW v \in Workspaces, op[v].pc \in RuntimePCs, admissionGate = v
      PROVE  Undisturbed(v)
  <2>1. v # w /\ v # None
    BY <1>3, ConstantsAssumption
  <2>2. admissionGate' = v /\ (rows'[w] = rows[w] \/ ~CountsAsRunning(rows'[w]))
    BY <1>3, <2>1
  <2>3. \A u \in consumers' : rows'[u] = rows[u]
    BY <2>2 DEF consumers
  <2>4. \A u \in consumers' : u \in consumers /\ (unresolved(u, v, TRUE)' => unresolved(u, v, TRUE))
    BY <2>3 DEF consumers, unresolved
  <2>5. v \in consumers => v \in consumers'
    BY <2>1 DEF consumers
  <2>. QED BY <2>2, <2>4, <2>5 DEF Undisturbed
<1>. QED BY <1>1, <1>2, <1>3, OutsideQuota DEF KeepProvider

LEMMA WaitPCs ==
    {"idle", "wait_admission", "decide", "commit", "inputs", "wait_runtime", "save_denied"}
        \cap RuntimePCs = {}
BY DEF RuntimePCs

LEMMA RequestQuota ==
    ASSUME IInv, IInv', QuotaInvariant, NEW w \in Workspaces, Request(w)
    PROVE  QuotaInvariant'
<1>1. CASE Create(w)
  <2>1. PICK r : op' = [op EXCEPT ![w].kind = "create", ![w].pc = "wait_admission", ![w].row = r]
    BY <1>1, Zenon DEF Create
  <2>2. op'[w].pc = "wait_admission" /\ \A a \in Actors : a # w => op'[a] = op[a]
    BY <2>1 DEF IInv, TypeOK, Op, Actors
  <2>3. KeepProvider /\ rows' = rows /\ admissionGate' = admissionGate /\ op[w].pc = "idle"
    BY <1>1, Zenon DEF Create, KeepGates
  <2>. QED BY <2>2, <2>3, WaitPCs, WaitingStepQuota
<1>2. ASSUME NEW kind, NEW pc \in {"wait_admission", "wait_runtime", "save_denied"},
             Begin(w, kind, pc)
      PROVE  QuotaInvariant'
  <2>1. PICK r : op' = [op EXCEPT ![w].kind = kind, ![w].row = r, ![w].pc = pc]
    BY <1>2, Zenon DEF Begin
  <2>2. op'[w].pc = pc /\ \A a \in Actors : a # w => op'[a] = op[a]
    BY <2>1 DEF IInv, TypeOK, Op, Actors
  <2>3. KeepProvider /\ rows' = rows /\ admissionGate' = admissionGate /\ op[w].pc = "idle"
    BY <1>2 DEF Begin, KeepGates
  <2>. QED BY <2>2, <2>3, WaitPCs, WaitingStepQuota
<1>3. CASE \/ ApproveSetup(w) \/ Retry(w) \/ Resume(w) \/ DenySetup(w) \/ Suspend(w)
           \/ SuspendIfInactive(w) \/ Delete(w) \/ ReconcileMaintenanceDrain(w)
  <2>1. \E kind : \E pc \in {"wait_admission", "wait_runtime", "save_denied"} : Begin(w, kind, pc)
    BY <1>3, Zenon DEF ApproveSetup, Retry, Resume, DenySetup, Suspend, SuspendIfInactive,
                       Delete, ReconcileMaintenanceDrain
  <2>. QED BY <1>2, <2>1
<1>4. CASE RetryQuarantine(w)
  <2>1. PICK r \in Row : r = rows[w]
    BY Types
  <2>2. /\ op' = op /\ admissionGate' = admissionGate /\ op[w].pc = "idle" /\ KeepProvider
        /\ rows' = [rows EXCEPT ![w] = quarantined(r)]
    BY <1>4, <2>1 DEF RetryQuarantine, KeepGates
  <2>3. rows'[w] = quarantined(r) /\ \A v \in Workspaces : v # w => rows'[v] = rows[v]
    BY <2>2 DEF IInv, TypeOK
  <2>4. ~stableLiveProviderState(quarantined(r)) /\ ~CountsAsRunning(quarantined(r))
    BY DEF stableLiveProviderState, CountsAsRunning, quarantined, Row, LiveStates
  <2>. QED BY <2>2, <2>3, <2>4, WaitPCs, WaitingStepQuota
<1>5. CASE TouchActivity(w) \/ MarkIdleIfInactive(w)
  <2>1. /\ op' = op /\ admissionGate' = admissionGate /\ KeepProvider
        /\ rows[w].state \in LiveStates
        /\ \E st \in LiveStates : rows' = [rows EXCEPT ![w].state = st]
    BY <1>5 DEF TouchActivity, MarkIdleIfInactive, LiveStates, KeepGates
  <2>2. /\ rows'[w].quota = rows[w].quota /\ stableLiveProviderState(rows'[w])
        /\ stableLiveProviderState(rows[w]) /\ \A v \in Workspaces : v # w => rows'[v] = rows[v]
    BY <2>1 DEF IInv, TypeOK, Row, stableLiveProviderState
  <2>3. CountsAsRunning(rows'[w]) /\ CountsAsRunning(rows[w])
    BY <2>2 DEF CountsAsRunning, stableLiveProviderState
  <2>4. consumers' = consumers
    BY <2>2, <2>3 DEF consumers
  <2>5. \A v \in Workspaces : \A u \in consumers' : unresolved(u, v, TRUE)' => unresolved(u, v, TRUE)
    BY <2>2 DEF unresolved, consumers
  <2>6. \A v \in Workspaces : admissionGate = v => Undisturbed(v)
    BY <2>1, <2>4, <2>5 DEF Undisturbed
  <2>7. \A v \in Workspaces : stableLiveProviderState(rows'[v]) =>
           stableLiveProviderState(rows[v]) /\ rows'[v].quota = rows[v].quota
    BY <2>2
  <2>. QED BY <2>1, <2>6, <2>7, OutsideQuota DEF KeepProvider
<1>. QED BY <1>1, <1>3, <1>4, <1>5 DEF Request

LEMMA AdmittingQuota ==
    ASSUME IInv, IInv', ReservationInvariant, QuotaInvariant, NEW w \in Workspaces,
           \/ SaveDenied(w) \/ acquireAdmission(w) \/ Commit(w) \/ PrepareInputs(w)
           \/ \E diskOK \in BOOLEAN : Decide(w, diskOK)
    PROVE  QuotaInvariant'
<1>1. PICK c \in Row : c = op[w].row
  BY Types
<1>2. ASSUME Return(w), NEW r, rows' = [rows EXCEPT ![w] = r], KeepProvider,
             op[w].pc \notin RuntimePCs, r = rows[w] \/ ~CountsAsRunning(r)
      PROVE  QuotaInvariant'
  <2>1. op'[w] = NoOp /\ \A a \in Actors : a # w => op'[a] = op[a]
    BY <1>2 DEF Return, IInv, TypeOK, Actors
  <2>2. rows'[w] = r /\ \A v \in Workspaces : v # w => rows'[v] = rows[v]
    BY <1>2 DEF IInv, TypeOK
  <2>3. admissionGate' = admissionGate \/ admissionGate = w
    BY <1>2 DEF Return, ReleaseGates
  <2>4. ~CountsAsRunning(r) => ~stableLiveProviderState(r)
    BY DEF CountsAsRunning, stableLiveProviderState
  <2>5. op'[w].pc \notin RuntimePCs
    BY <2>1, NoOpParts, WaitPCs
  <2>6. rows'[w] = rows[w] \/ ~CountsAsRunning(rows'[w])
    BY <1>2, <2>2
  <2>. QED BY <1>2, <2>1, <2>2, <2>3, <2>4, <2>5, <2>6, WaitingStepQuota
<1>3. ASSUME op[w].pc \in {"commit", "inputs", "decide"}
      PROVE  admissionGate = w
  <2>1. op[w].kind \in StartKinds
    BY <1>3, Types DEF Facts, WaitFacts, StartKinds
  <2>. QED BY <1>3, <2>1 DEF ReservationInvariant, ReservationFacts, AdmittedKinds
<1>4. ASSUME NEW r, NEW pc \in {"inputs", "wait_runtime"}, Save(w, r, pc), admissionGate = w,
             r.state \in OffStates, op[w].pc \notin RuntimePCs
      PROVE  QuotaInvariant'
  <2>1. op'[w].pc = pc /\ \A a \in Actors : a # w => op'[a] = op[a]
    BY <1>4 DEF Save, IInv, TypeOK, Op, Actors
  <2>2. rows'[w] = r /\ \A v \in Workspaces : v # w => rows'[v] = rows[v]
    BY <1>4 DEF Save, IInv, TypeOK
  <2>3. op'[w].pc \notin RuntimePCs /\ KeepProvider /\ ~stableLiveProviderState(rows'[w])
    BY <1>4, <2>1, <2>2, WaitPCs, OffState DEF Save
  <2>. QED BY <1>4, <2>1, <2>2, <2>3, WaitingStepQuota
<1>5. CASE SaveDenied(w)
  <2>1. /\ Return(w) /\ KeepProvider /\ op[w].pc = "save_denied"
        /\ rows' = [rows EXCEPT ![w] = [c EXCEPT !.state = "failed", !.code = "other"]]
    BY <1>1, <1>5 DEF SaveDenied, SaveAndReturn
  <2>2. ~CountsAsRunning([c EXCEPT !.state = "failed", !.code = "other"])
    BY DEF CountsAsRunning, LiveStates, Row
  <2>. QED BY <1>2, <2>1, <2>2, WaitPCs
<1>6. CASE acquireAdmission(w)
  <2>1. PICK pc \in {"wait_runtime", "decide"} : Goto(w, pc)
    BY <1>6 DEF acquireAdmission
  <2>2. op'[w].pc = pc /\ \A a \in Actors : a # w => op'[a] = op[a]
    BY <2>1 DEF Goto, IInv, TypeOK, Op, Actors
  <2>3. KeepProvider /\ rows' = rows /\ admissionGate = None /\ op[w].pc = "wait_admission"
    BY <1>6 DEF acquireAdmission
  <2>. QED BY <2>2, <2>3, WaitPCs, WaitingStepQuota
<1>7. CASE Commit(w)
  <2>1. /\ op[w].pc = "commit"
        /\ \/ SaveAndReturn(w, c) /\ c.state = "queued"
           \/ \E pc \in {"inputs", "wait_runtime"} : Save(w, c, pc)
    BY <1>1, <1>7 DEF Commit
  <2>2. c.state \in {"provisioning", "queued"}
    BY <1>1, <2>1, Types DEF Facts, WaitFacts
  <2>3. c.state \in OffStates /\ (c.state = "queued" => ~CountsAsRunning(c))
    BY <2>2 DEF OffStates, CountsAsRunning, LiveStates
  <2>. QED BY <1>2, <1>3, <1>4, <2>1, <2>3, WaitPCs DEF SaveAndReturn
<1>8. CASE PrepareInputs(w)
  <2>1. PICK r : r = [c EXCEPT !.inputs = FALSE]
    OBVIOUS
  <2>2. /\ op[w].pc = "inputs"
        /\ \/ SaveAndReturn(w, r) /\ r.state = "queued"
           \/ Save(w, r, "wait_runtime") /\ r.state = "provisioning"
           \/ Return(w) /\ rows' = [rows EXCEPT ![w] = quarantined(c)] /\ KeepProvider
    BY <1>1, <1>8, <2>1 DEF PrepareInputs
  <2>3. ~CountsAsRunning(quarantined(c)) /\ (r.state = "queued" => ~CountsAsRunning(r))
    BY DEF CountsAsRunning, quarantined, Row, LiveStates
  <2>4. "provisioning" \in OffStates
    BY DEF OffStates
  <2>. QED BY <1>2, <1>3, <1>4, <2>2, <2>3, <2>4, WaitPCs DEF SaveAndReturn
<1>9. ASSUME NEW diskOK \in BOOLEAN, Decide(w, diskOK)
      PROVE  QuotaInvariant'
  <2>1. PICK r \in Row : r = rows[w]
    BY Types
  <2>2. /\ op[w].pc = "decide" /\ KeepProvider
        /\ \/ Return(w) /\ rows' = rows
           \/ Return(w) /\ \E s \in {r, quarantined(r)} : rows' = [rows EXCEPT ![w] = s]
           \/ rows' = rows /\ KeepGates /\ \E n : op' = [op EXCEPT ![w].row = n, ![w].pc = "commit"]
    BY <1>9, <2>1, ZenonT(60) DEF Decide
  <2>3. ~CountsAsRunning(quarantined(r)) /\ rows = [rows EXCEPT ![w] = r]
    BY <2>1 DEF CountsAsRunning, quarantined, Row, LiveStates, IInv, TypeOK
  <2>4. ASSUME NEW n, op' = [op EXCEPT ![w].row = n, ![w].pc = "commit"], rows' = rows, KeepGates
        PROVE  QuotaInvariant'
    <3>1. op'[w].pc = "commit" /\ \A a \in Actors : a # w => op'[a] = op[a]
      BY <2>4 DEF IInv, TypeOK, Op, Actors
    <3>. QED BY <1>3, <2>2, <2>4, <3>1, WaitPCs, WaitingStepQuota
  <2>. QED BY <1>2, <2>1, <2>2, <2>3, <2>4, WaitPCs
<1>. QED BY <1>5, <1>6, <1>7, <1>8, <1>9

\* A step of a, alone under runtimeGate, towards the rebalance of a start.
LEMMA PreludeQuota ==
    ASSUME IInv, IInv', QuotaInvariant, NEW a \in Actors, KeepProvider, rows' = rows,
           \A v \in Actors : v # a => op'[v] = op[v] /\ op[v].pc \notin RuntimePCs,
           op[a].pc \notin QuotaPCs, op'[a].pc \notin StartPCs, op'[a].pc \notin RebalancePCs,
           op'[a].pc = "list" /\ a \in Workspaces => op'[a].starting
    PROVE  QuotaInvariant'
<1>1. /\ op'[a].pc \notin {"apply", "shrink"}
      /\ op'[a].pc \notin {"save_unconfirmed", "call_provision", "save_start_pending"}
      /\ op'[a].pc \notin {"save_provisioned", "call_start", "call_initialize", "save_running"}
  BY PCGroups
<1>2. StartFacts(a)' /\ RebalanceFacts(a)' /\ (a \in Workspaces => ClosingFacts(a)')
  BY <1>1 DEF StartFacts, RebalanceFacts, ClosingFacts, Closing
<1>3. \A v \in Actors : v # a => StartFacts(v)' /\ ClosingFacts(v)' /\ RebalanceFacts(v)'
  BY WaitingQuota
<1>4. \A v \in Workspaces : ~Closing(v)
  BY NotClosing, PCGroups DEF Closing, Actors
<1>5. \A v \in Workspaces : rows[v].quota <= rows[v].quota
  BY Quantities
<1>6. \A v \in Workspaces : RecordFacts(v)'
  BY <1>4, <1>5, RecordKept DEF KeepProvider
<1>7. \A v \in Workspaces : StartFacts(v)' /\ ClosingFacts(v)'
  BY <1>2, <1>3 DEF Actors
<1>8. \A v \in Actors : RebalanceFacts(v)'
  BY <1>2, <1>3
<1>. QED BY <1>6, <1>7, <1>8 DEF QuotaInvariant

LEMMA GateFree ==
    ASSUME FreshInvariant, runtimeGate = None
    PROVE  \A v \in Actors : op[v].pc \notin RuntimePCs
BY ConstantsAssumption DEF FreshInvariant, Actors

LEMMA AcquiringQuota ==
    ASSUME IInv, IInv', FreshInvariant, QuotaInvariant, NEW w \in Workspaces, acquireRuntime(w)
    PROVE  QuotaInvariant'
<1>1. PICK r, pc, b : r = rows[w] /\ pc = AfterRuntime(op[w].kind)
                      /\ b = (op[w].kind = "resume")
  OBVIOUS
<1>2. PICK o : o = [op[w] EXCEPT !.row = r, !.pc = pc, !.starting = b]
  OBVIOUS
<1>3. /\ op' = [op EXCEPT ![w] = o] /\ rows' = rows /\ KeepProvider
      /\ op[w].pc = "wait_runtime" /\ runtimeGate = None
  BY <1>1, <1>2 DEF acquireRuntime
<1>4. o.pc = pc /\ o.starting = b
  BY <1>2, Types DEF Op
<1>5. op'[w] = o /\ \A v \in Actors : v # w => op'[v] = op[v]
  BY <1>3 DEF IInv, TypeOK, Actors
<1>6. /\ pc \in {"list", "reconcile", "suspend", "delete", "drain", "provision"}
      /\ pc = "list" => b
  BY <1>1 DEF AfterRuntime
<1>7. pc \notin StartPCs /\ pc \notin RebalancePCs /\ op[w].pc \notin QuotaPCs
  BY <1>3, <1>6 DEF StartPCs, RebalancePCs, QuotaPCs
<1>. QED BY <1>3, <1>4, <1>5, <1>6, <1>7, GateFree, PreludeQuota DEF Actors

LEMMA ReconcileCapacityQuota ==
    ASSUME IInv, IInv', FreshInvariant, QuotaInvariant, ReconcileCapacity
    PROVE  QuotaInvariant'
<1>1. Lifecycle \in Actors /\ Lifecycle \notin Workspaces
  BY ConstantsAssumption DEF Actors
<1>2. /\ op' = [op EXCEPT ![Lifecycle].pc = "list"] /\ rows' = rows /\ KeepProvider
      /\ op[Lifecycle].pc = "idle" /\ runtimeGate = None
  BY DEF ReconcileCapacity, Goto
<1>3. op'[Lifecycle].pc = "list" /\ \A v \in Actors : v # Lifecycle => op'[v] = op[v]
  BY <1>1, <1>2, ActorTypes DEF IInv, TypeOK, Op
<1>4. /\ op'[Lifecycle].pc \notin StartPCs /\ op'[Lifecycle].pc \notin RebalancePCs
      /\ op[Lifecycle].pc \notin QuotaPCs
  BY <1>2, <1>3 DEF StartPCs, RebalancePCs, QuotaPCs
<1>. QED BY <1>1, <1>2, <1>3, <1>4, GateFree, PreludeQuota

LEMMA ProvisioningQuota ==
    ASSUME IInv, IInv', FreshInvariant, QuotaInvariant, NEW w \in Workspaces,
           ReconcileProvisioning(w) \/ Provision(w)
    PROVE  QuotaInvariant'
<1>1. op[w].pc \in RuntimePCs /\ op[w].pc \notin QuotaPCs /\ w \in Actors
  BY DEF ReconcileProvisioning, Provision, RuntimePCs, QuotaPCs, Actors
<1>2. CASE Continue(w, "provision")
  <2>1. op'[w].pc = "provision" /\ \A v \in Actors : v # w => op'[v] = op[v]
    BY <1>2 DEF Continue, Goto, IInv, TypeOK, Op, Actors
  <2>2. op'[w].pc \notin StartPCs /\ op'[w].pc \notin RebalancePCs /\ op'[w].pc # "list"
    BY <2>1 DEF StartPCs, RebalancePCs
  <2>. QED BY <1>1, <1>2, <2>1, <2>2, OthersWait, PreludeQuota DEF Continue
<1>3. CASE /\ op' = [op EXCEPT ![w].pc = "list", ![w].starting = TRUE]
           /\ KeepProvider /\ rows' = rows
  <2>1. op'[w].pc = "list" /\ op'[w].starting /\ \A v \in Actors : v # w => op'[v] = op[v]
    BY <1>3 DEF IInv, TypeOK, Op, Actors
  <2>2. op'[w].pc \notin StartPCs /\ op'[w].pc \notin RebalancePCs
    BY <2>1 DEF StartPCs, RebalancePCs
  <2>. QED BY <1>1, <1>3, <2>1, <2>2, OthersWait, PreludeQuota
<1>. QED BY <1>2, <1>3, ReconcileEnds, ProvisionEnds, PlainQuota

\* A step inside a start changes no consumer.
LEMMA ChainQuota ==
    ASSUME IInv, IInv', FreshInvariant, QuotaInvariant, NEW w \in Workspaces, Chain(w),
           /\ op'[w].pc \in {"save_unconfirmed", "call_provision", "save_start_pending"}
                => phase'[w] # "live"
           /\ op'[w].pc \in {"save_provisioned", "call_start", "call_initialize", "save_running"}
                => (phase'[w] = "live" => limit'[w] <= op[w].row.quota)
    PROVE  QuotaInvariant'
<1>1. /\ w \in Actors /\ op[w].pc \in StartPCs /\ op'[w].pc \in StartPCs
      /\ op[w].pc \in RuntimePCs /\ Starting(op[w])
  BY PCGroups DEF Chain, Actors, Starting
<1>2. w \in consumers /\ rows[w].state = "provisioning" /\ rows'[w].state = "provisioning"
  BY <1>1, StartConsumes DEF Chain
<1>3. consumers' = consumers
  BY <1>2 DEF consumers, CountsAsRunning, Chain
<1>4. \A v \in consumers : unresolved(v, w, TRUE)' => unresolved(v, w, TRUE)
  BY DEF Chain, unresolved, consumers
<1>5. Settled(w) /\ op[w].row.quota <= share(Cardinality(consumers))
  BY <1>1 DEF QuotaInvariant, StartFacts
<1>6. Settled(w)'
  BY <1>3, <1>4, <1>5, SettledSame DEF Chain, KeepGates, Settled
<1>7. op'[w].pc \notin RebalancePCs /\ op'[w].pc # "list"
  BY <1>1, PCGroups
<1>8. StartFacts(w)'
  BY <1>3, <1>5, <1>6, <1>7 DEF StartFacts, Chain
<1>9. RebalanceFacts(w)' /\ ClosingFacts(w)'
  BY <1>7, PCGroups DEF RebalanceFacts, ClosingFacts, Closing
<1>10. \A v \in Workspaces : ~Closing(v)
  <2>1. ~Closing(w)
    BY <1>1, PCGroups DEF Closing
  <2>. QED BY <1>1, <2>1, OthersWait, NotClosing DEF Actors
<1>11. \A v \in Workspaces : rows[v].quota <= rows[v].quota
  BY Quantities
<1>12. ~stableLiveProviderState(rows'[w])
  BY <1>2 DEF stableLiveProviderState, LiveStates
<1>13. \A v \in Workspaces : RecordFacts(v)'
  BY <1>10, <1>11, <1>12, RecordKept DEF Chain
<1>. QED BY <1>1, <1>8, <1>9, <1>13, HolderQuota DEF Chain

LEMMA StartingQuota ==
    ASSUME IInv, IInv', FreshInvariant, QuotaInvariant, NEW w \in Workspaces,
           \/ SaveUnconfirmed(w) \/ SaveProvisioned(w) \/ markProviderStartPending(w)
           \/ CallProvision(w) \/ CallStart(w) \/ CallInitialize(w)
    PROVE  QuotaInvariant'
<1>1. /\ op[w].pc \in {"save_unconfirmed", "call_provision", "save_start_pending"}
            => phase[w] # "live"
      /\ op[w].pc \in {"save_provisioned", "call_start", "call_initialize", "save_running"}
            => (phase[w] = "live" => limit[w] <= op[w].row.quota)
  BY DEF QuotaInvariant, StartFacts
<1>2. limit[w] \in Nat /\ op[w].row.quota \in Nat
  BY Quantities
<1>3. CASE SaveUnconfirmed(w) \/ SaveProvisioned(w) \/ markProviderStartPending(w)
  <2>1. /\ Chain(w) /\ phase' = phase /\ limit' = limit
        /\ \/ op'[w].pc = "call_provision" /\ op[w].pc = "save_unconfirmed"
           \/ op'[w].pc = "call_start" /\ op[w].pc \in {"save_provisioned", "save_start_pending"}
    BY <1>3, StartSaves
  <2>. QED BY <1>1, <2>1, ChainQuota
<1>4. CASE CallProvision(w) \/ CallStart(w) \/ CallInitialize(w)
  <2>1. Built(w)
    BY <1>4, StartBuilds
  <2>2. CASE Plain(w)
    BY <2>2, PlainQuota
  <2>3. CASE /\ Chain(w)
             /\ \/ op[w].pc = "call_provision" /\ op'[w].pc = "save_provisioned"
                \/ op[w].pc = "call_start" /\ op'[w].pc = "call_initialize"
                \/ op[w].pc = "call_initialize" /\ op'[w].pc = "save_running"
    <3>1. phase'[w] = "live" => limit'[w] <= op[w].row.quota
      BY <1>1, <1>2, <2>1, <2>3 DEF Built
    <3>2. op'[w].pc \notin {"save_unconfirmed", "call_provision", "save_start_pending"}
      BY <2>3
    <3>. QED BY <2>3, <3>1, <3>2, ChainQuota
  <2>. QED BY <1>4, <2>2, <2>3, StartCalls
<1>. QED BY <1>3, <1>4

\* Rows that differ in their quotas only make no difference to what is settled.
LEMMA CloseRows ==
    ASSUME IInv, \A v \in Workspaces : Close(rows[v], rows'[v])
    PROVE  /\ consumers' = consumers
           /\ \A v \in Workspaces :
                 stableLiveProviderState(rows'[v]) <=> stableLiveProviderState(rows[v])
           /\ \A w \in Workspaces : Settled(w) /\ admissionGate' = admissionGate => Settled(w)'
<1>1. \A v \in Workspaces :
         stableLiveProviderState(rows'[v]) <=> stableLiveProviderState(rows[v])
  BY DEF Close, stableLiveProviderState
<1>2. \A v \in Workspaces : CountsAsRunning(rows'[v]) <=> CountsAsRunning(rows[v])
  BY DEF Close, CountsAsRunning
<1>3. \A v \in Workspaces : definitelyStoppedStartReservation(rows'[v])
                               <=> definitelyStoppedStartReservation(rows[v])
  BY DEF Close, definitelyStoppedStartReservation, LiveStates
<1>4. consumers' = consumers
  BY <1>2 DEF consumers
<1>5. ASSUME NEW w \in Workspaces, Settled(w), admissionGate' = admissionGate
      PROVE  Settled(w)'
  <2>1. \A v \in consumers : unresolved(v, w, TRUE)' => unresolved(v, w, TRUE)
    BY <1>1, <1>3 DEF unresolved, consumers
  <2>2. admissionGate' = w
    BY <1>5 DEF Settled
  <2>. QED BY <1>4, <1>5, <2>1, <2>2, SettledSame
<1>. QED BY <1>1, <1>4, <1>5

\* The rebalance of a start goes on with the same target.
LEMMA RebalancedStart ==
    ASSUME IInv, QuotaInvariant, NEW a \in Workspaces, \A v \in Workspaces : Close(rows[v], rows'[v]),
           admissionGate' = admissionGate, op[a].pc \in RebalancePCs, op'[a].pc \in RebalancePCs,
           op'[a].starting = op[a].starting, op'[a].target = op[a].target
    PROVE  StartFacts(a)'
<1>1. /\ op'[a].pc \notin StartPCs
      /\ op'[a].pc \notin {"save_unconfirmed", "call_provision", "save_start_pending"}
      /\ op'[a].pc \notin {"save_provisioned", "call_start", "call_initialize", "save_running"}
  BY PCGroups
<1>2. op[a].starting => Settled(a) /\ op[a].target <= share(Cardinality(consumers))
  BY DEF QuotaInvariant, StartFacts
<1>3. op'[a].starting => Settled(a)' /\ op'[a].target <= share(Cardinality(consumers'))
  BY <1>2, CloseRows
<1>. QED BY <1>1, <1>3 DEF StartFacts

LEMMA ShareOfConsumers ==
    ASSUME NEW w \in consumers
    PROVE  share(Cardinality(consumers)) \in Nat /\ Cardinality(consumers) # 0
<1>1. Cardinality(consumers) \in Nat /\ Cardinality(consumers) > 0
  BY ConsumersFinite
<1>. QED BY <1>1, ShareFalls

\* The Save that makes a started workspace live.
LEMMA SaveRunningQuota ==
    ASSUME IInv, IInv', FreshInvariant, QuotaInvariant, NEW w \in Workspaces, SaveRunning(w)
    PROVE  QuotaInvariant'
<1>1. PICK c \in Row : c = op[w].row
  BY Types
<1>2. PICK r : r = [c EXCEPT !.state = "running", !.code = ""]
  OBVIOUS
<1>3. r.state = "running" /\ r.quota = c.quota
  BY <1>2 DEF Row
<1>4. SaveAndRebalance(w, r) /\ op[w].pc = "save_running"
  BY <1>1, <1>2 DEF SaveRunning
<1>5. /\ op'[w].pc = "list" /\ ~op'[w].starting
      /\ \A v \in Actors : v # w => op'[v] = op[v]
  BY <1>4 DEF SaveAndRebalance, IInv, TypeOK, Op, Actors
<1>6. /\ rows'[w] = r /\ \A v \in Workspaces : v # w => rows'[v] = rows[v]
  BY <1>4 DEF SaveAndRebalance, IInv, TypeOK
<1>7. admissionGate' = admissionGate /\ KeepProvider
  BY <1>4 DEF SaveAndRebalance, KeepGates
<1>8. w \in Actors /\ op[w].pc \in RuntimePCs /\ op[w].pc \in StartPCs /\ op[w].pc \notin QuotaPCs
  BY <1>4 DEF RuntimePCs, StartPCs, QuotaPCs, Actors
<1>9. Settled(w) /\ c.quota <= share(Cardinality(consumers))
  BY <1>1, <1>8 DEF QuotaInvariant, StartFacts
<1>10. phase[w] = "live"
  BY <1>4, Types DEF Facts, ProviderFacts
<1>11. limit[w] <= c.quota
  BY <1>1, <1>4, <1>10 DEF QuotaInvariant, StartFacts
<1>12. w \in consumers
  BY <1>8, StartConsumes DEF Starting
<1>13. consumers' = consumers
  BY <1>3, <1>6, <1>12 DEF consumers, CountsAsRunning, LiveStates
<1>14. \A v \in consumers : unresolved(v, w, TRUE)' => unresolved(v, w, TRUE)
  BY <1>6 DEF unresolved, consumers
<1>15. Settled(w)'
  BY <1>7, <1>9, <1>13, <1>14, SettledSame DEF Settled
<1>16. limit[w] <= share(Cardinality(consumers))
  <2>1. limit[w] \in Nat /\ c.quota \in Nat
    BY <1>1, Quantities
  <2>. QED BY <1>9, <1>11, <1>12, <2>1, ShareOfConsumers
<1>17. Closing(w)'
  BY <1>5 DEF Closing
<1>18. ClosingFacts(w)'
  BY <1>5, <1>7, <1>13, <1>15, <1>16 DEF ClosingFacts, KeepProvider
<1>19. StartFacts(w)' /\ RebalanceFacts(w)'
  BY <1>5, PCGroups DEF StartFacts, RebalanceFacts
<1>20. RecordFacts(w)'
  BY <1>3, <1>6, <1>7, <1>11, <1>17 DEF RecordFacts, KeepProvider
<1>21. \A v \in Workspaces : v # w => ~Closing(v)
  BY <1>8, OthersWait, NotClosing DEF Actors
<1>22. \A v \in Workspaces : rows[v].quota <= rows[v].quota
  BY Quantities
<1>23. \A v \in Workspaces : v # w => RecordFacts(v)'
  BY <1>6, <1>7, <1>21, <1>22, RecordKept DEF KeepProvider
<1>. QED BY <1>5, <1>8, <1>18, <1>19, <1>20, <1>23, HolderQuota

\* A step of the rebalance of a, which alone holds runtimeGate.
LEMMA RebalancerParts ==
    ASSUME IInv, FreshInvariant, NEW a \in Actors, op[a].pc \in QuotaPCs
    PROVE  /\ op[a].pc \in RuntimePCs
           /\ \A v \in Workspaces : v # a => ~Closing(v)
           /\ \A o : op' = [op EXCEPT ![a] = o] =>
                 op'[a] = o /\ \A v \in Actors : v # a => op'[v] = op[v]
<1>1. op[a].pc \in RuntimePCs
  BY PCGroups
<1>2. \A v \in Workspaces : v # a => ~Closing(v)
  BY <1>1, OthersWait, NotClosing DEF Actors
<1>3. ASSUME NEW o, op' = [op EXCEPT ![a] = o]
      PROVE  op'[a] = o /\ \A v \in Actors : v # a => op'[v] = op[v]
  BY <1>3 DEF IInv, TypeOK
<1>. QED BY <1>1, <1>2, <1>3

\* The rebalance of a ends where nothing of it is due.
LEMMA RebalanceEndQuota ==
    ASSUME IInv, IInv', FreshInvariant, QuotaInvariant, NEW a \in Actors, op[a].pc \in QuotaPCs,
           Return(a), rows' = rows, KeepProvider,
           a \in Workspaces => ~(stableLiveProviderState(rows[a]) /\ Closing(a))
    PROVE  QuotaInvariant'
<1>1. op'[a] = NoOp /\ \A v \in Actors : v # a => op'[v] = op[v]
  BY DEF Return, IInv, TypeOK
<1>2. op'[a].pc \notin RuntimePCs
  BY <1>1, NoOpParts, WaitPCs
<1>3. StartFacts(a)' /\ ClosingFacts(a)' /\ RebalanceFacts(a)'
  BY <1>2, WaitingQuota
<1>4. \A v \in Workspaces : ~(stableLiveProviderState(rows[v]) /\ Closing(v))
  BY RebalancerParts
<1>5. \A v \in Workspaces : rows[v].quota <= rows[v].quota
  BY Quantities
<1>6. \A v \in Workspaces : RecordFacts(v)'
  BY <1>4, <1>5, RecordKept DEF KeepProvider
<1>. QED BY <1>1, <1>3, <1>6, RebalancerParts, HolderQuota

LEMMA ListQuota ==
    ASSUME IInv, IInv', FreshInvariant, ReservationInvariant, QuotaInvariant, NEW a \in Actors,
           ListConsumers(a)
    PROVE  QuotaInvariant'
<1>1. op[a].pc = "list" /\ KeepProvider /\ rows' = rows /\ op[a].pc \in QuotaPCs
  BY ListParts, PCGroups
<1>2. ASSUME a \in Workspaces, stableLiveProviderState(rows[a]), ~op[a].starting
      PROVE  /\ Closing(a) /\ a \in consumers /\ Settled(a)
             /\ limit[a] <= share(Cardinality(consumers))
  <2>1. Closing(a)
    BY <1>1, <1>2 DEF Closing
  <2>2. a \in consumers
    BY <1>2 DEF consumers, CountsAsRunning, stableLiveProviderState
  <2>. QED BY <1>1, <1>2, <2>1, <2>2 DEF QuotaInvariant, ClosingFacts
<1>3. CASE ~Passes(a) /\ Return(a)
  <2>1. ASSUME a \in Workspaces, stableLiveProviderState(rows[a]), Closing(a)
        PROVE  FALSE
    <3>1. ~op[a].starting
      BY <2>1 DEF Closing
    <3>2. Settled(a)
      BY <1>2, <2>1, <3>1
    <3>3. \A v \in consumers : ~unresolved(v, a, op[a].starting)
      BY <2>1, <3>2 DEF Settled, unresolved
    <3>. QED BY <1>3, <3>2, <3>3 DEF Passes, Settled
  <2>. QED BY <1>1, <1>3, <2>1, RebalanceEndQuota
<1>4. ASSUME Passes(a), KeepGates, NEW o, op' = [op EXCEPT ![a] = o],
             Rebalanced(o, op[a], "quota"), o.todo = Peers(a),
             o.target = IF Cardinality(consumers) = 0 THEN 0 ELSE share(Cardinality(consumers))
      PROVE  QuotaInvariant'
  <2>1. /\ op'[a] = o /\ o.pc = "quota" /\ o.starting = op[a].starting
        /\ \A v \in Actors : v # a => op'[v] = op[v]
    BY <1>1, <1>4, RebalancerParts DEF Rebalanced
  <2>2. consumers' = consumers /\ \A w \in Workspaces : Settled(w) => Settled(w)'
    BY <1>1, <1>4, SameRows, CloseRows DEF KeepGates
  <2>3. o.pc \notin StartPCs /\ o.pc \in RebalancePCs
    BY <2>1 DEF StartPCs, RebalancePCs
  <2>4. ASSUME a \in Workspaces
        PROVE  StartFacts(a)'
    <3>1. ASSUME o.starting
          PROVE  Settled(a)' /\ o.target <= share(Cardinality(consumers))
      <4>1. op[a].starting /\ Starting(op[a])
        BY <1>1, <2>1, <3>1 DEF Starting
      <4>2. a \in consumers
        BY <2>4, <4>1, StartConsumes
      <4>3. admissionGate = a
        <5>1. ReservationFacts(op[a], rows[a], admissionGate, a)
          BY <2>4 DEF ReservationInvariant
        <5>2. op[a].kind \in AdmittedKinds
          BY <4>1, <5>1 DEF ReservationFacts
        <5>. QED BY <1>1, <5>1, <5>2 DEF ReservationFacts
      <4>4. \A v \in consumers : ~unresolved(v, a, TRUE)
        BY <1>4, <4>1 DEF Passes, unresolved
      <4>5. Settled(a)
        BY <1>4, <4>3, <4>4 DEF Settled, Passes
      <4>6. o.target = share(Cardinality(consumers)) /\ o.target \in Nat
        BY <1>4, <4>2, ShareOfConsumers
      <4>7. o.target <= share(Cardinality(consumers))
        BY <4>6
      <4>. QED BY <2>2, <2>4, <4>5, <4>7
    <3>. QED BY <2>1, <2>2, <2>3, <3>1 DEF StartFacts
  <2>5. RebalanceFacts(a)'
    <3>1. ASSUME o.todo # {}
          PROVE  o.target > 0
      <4>1. PICK v : v \in consumers
        BY <1>4, <3>1 DEF Peers
      <4>2. share(Cardinality(consumers)) \in Nat /\ Cardinality(consumers) # 0
        BY <4>1, ShareOfConsumers
      <4>3. Cardinality(consumers) \in Nat /\ Cardinality(consumers) > 0
        BY <4>1, ConsumersFinite
      <4>4. share(Cardinality(consumers)) >= MinShare /\ MinShare \in Nat /\ MinShare > 0
        BY <1>4, <4>3, ConstantsAssumption DEF Passes, SharesDefined
      <4>. QED BY <1>4, <4>2, <4>4
    <3>. QED BY <2>1, <3>1 DEF RebalanceFacts
  <2>6. ASSUME a \in Workspaces
        PROVE  ClosingFacts(a)'
    <3>. SUFFICES ASSUME stableLiveProviderState(rows'[a]), Closing(a)'
                  PROVE  limit'[a] <= op'[a].target
      BY <2>1 DEF ClosingFacts
    <3>1. ~op[a].starting /\ stableLiveProviderState(rows[a])
      BY <1>1, <2>1 DEF Closing
    <3>2. a \in consumers /\ limit[a] <= share(Cardinality(consumers))
      BY <1>2, <2>6, <3>1
    <3>3. o.target = share(Cardinality(consumers))
      BY <1>4, <3>2, ShareOfConsumers
    <3>. QED BY <1>1, <2>1, <3>2, <3>3 DEF KeepProvider
  <2>7. ASSUME NEW v \in Workspaces
        PROVE  RecordFacts(v)'
    <3>1. stableLiveProviderState(rows'[v]) /\ Closing(v) => Closing(v)'
      <4>. SUFFICES ASSUME stableLiveProviderState(rows'[v]), Closing(v)
                    PROVE  Closing(v)'
        OBVIOUS
      <4>1. v = a /\ ~op[a].starting
        BY <1>1, RebalancerParts DEF Closing
      <4>2. a \in o.todo
        BY <1>1, <1>2, <1>4, <4>1 DEF Peers
      <4>. QED BY <2>1, <2>3, <4>1, <4>2 DEF Closing, Due
    <3>2. rows[v].quota <= rows[v].quota
      BY Quantities
    <3>. QED BY <1>1, <3>1, <3>2, RecordKept DEF KeepProvider
  <2>. QED BY <1>1, <2>1, <2>4, <2>5, <2>6, <2>7, RebalancerParts, HolderQuota
<1>. QED BY <1>3, <1>4, ListParts

\* The row of w gets a new quota.
LEMMA QuotaRow ==
    ASSUME IInv, NEW w \in Workspaces, NEW q \in 0..Pool, rows' = [rows EXCEPT ![w].quota = q]
    PROVE  /\ rows'[w].quota = q /\ \A v \in Workspaces : v # w => rows'[v] = rows[v]
           /\ \A v \in Workspaces : Close(rows[v], rows'[v])
           /\ \A v \in Workspaces :
                 stableLiveProviderState(rows'[v]) <=> stableLiveProviderState(rows[v])
<1>1. rows'[w].quota = q /\ \A v \in Workspaces : v # w => rows'[v] = rows[v]
  BY DEF IInv, TypeOK, Row
<1>2. \A v \in Workspaces : Close(rows[v], rows'[v])
  BY QuotaWritten
<1>. QED BY <1>1, <1>2, CloseRows

LEMMA RaiseQuotaQuota ==
    ASSUME IInv, IInv', FreshInvariant, QuotaInvariant, NEW a \in Actors, NEW w \in Workspaces,
           RaiseQuota(a, w)
    PROVE  QuotaInvariant'
<1>1. PICK o : /\ op' = [op EXCEPT ![a] = o] /\ Rebalanced(o, op[a], "apply")
               /\ o.todo = op[a].todo \ {w} /\ o.cur = w /\ o.target = op[a].target
  BY RaiseParts
<1>2. PICK q \in 0..Pool : /\ rows' = [rows EXCEPT ![w].quota = q]
                           /\ q >= rows[w].quota /\ q >= op[a].target
  BY RaiseParts
<1>3. op[a].pc = "quota" /\ w \in op[a].todo /\ KeepGates /\ KeepProvider
  BY RaiseParts
<1>4. op[a].pc \in RebalancePCs /\ "apply" \in RebalancePCs /\ op[a].pc \in QuotaPCs
  BY <1>3 DEF RebalancePCs, QuotaPCs
<1>5. /\ op'[a] = o /\ o.pc = "apply" /\ o.starting = op[a].starting
      /\ \A v \in Actors : v # a => op'[v] = op[v]
  BY <1>1, <1>4, RebalancerParts DEF Rebalanced
<1>6. /\ rows'[w].quota = q /\ \A v \in Workspaces : v # w => rows'[v] = rows[v]
      /\ \A v \in Workspaces : Close(rows[v], rows'[v])
      /\ \A v \in Workspaces :
            stableLiveProviderState(rows'[v]) <=> stableLiveProviderState(rows[v])
  BY <1>2, QuotaRow
<1>7. a \in Workspaces => StartFacts(a)'
  BY <1>1, <1>3, <1>4, <1>5, <1>6, RebalancedStart DEF KeepGates
<1>8. op[a].target > 0 /\ op[a].target \in Nat
  BY <1>3, <1>4, Quantities DEF QuotaInvariant, RebalanceFacts
<1>9. op[a].target <= q
  BY <1>2, <1>8
<1>10. RebalanceFacts(a)'
  BY <1>1, <1>5, <1>6, <1>8, <1>9 DEF RebalanceFacts
<1>11. ASSUME a \in Workspaces
       PROVE  (Closing(a)' <=> Closing(a)) /\ ClosingFacts(a)'
  <2>1. a \in op[a].todo <=> (a \in o.todo \/ o.cur = a)
    BY <1>1, <1>3
  <2>2. Closing(a)' <=> Closing(a)
    BY <1>3, <1>4, <1>5, <2>1 DEF Closing, Due
  <2>3. stableLiveProviderState(rows[a]) /\ Closing(a) => limit[a] <= op[a].target
    BY <1>3, <1>11 DEF QuotaInvariant, ClosingFacts
  <2>. QED BY <1>1, <1>3, <1>5, <1>6, <1>11, <2>2, <2>3 DEF ClosingFacts, KeepProvider
<1>12. ASSUME NEW v \in Workspaces
       PROVE  RecordFacts(v)'
  <2>1. Closing(v) => Closing(v)'
    BY <1>4, <1>11, RebalancerParts
  <2>2. rows[v].quota <= rows'[v].quota
    <3>1. rows[v].quota \in Nat
      BY Quantities
    <3>. QED BY <1>2, <1>6, <3>1
  <2>. QED BY <1>3, <1>6, <2>1, <2>2, RecordKept DEF KeepProvider
<1>. QED BY <1>4, <1>5, <1>7, <1>10, <1>11, <1>12, RebalancerParts, HolderQuota

LEMMA ApplyQuotaQuota ==
    ASSUME IInv, IInv', NothingLost, FreshInvariant, QuotaInvariant, NEW a \in Actors,
           ApplyQuota(a)
    PROVE  QuotaInvariant'
<1>1. PICK o : /\ op' = [op EXCEPT ![a] = o] /\ Rebalanced(o, op[a], "shrink")
               /\ o.todo = op[a].todo /\ o.cur = op[a].cur /\ o.target = op[a].target
  BY ApplyParts
<1>2. op[a].pc = "apply" /\ KeepGates /\ rows' = rows /\ phase' = phase
  BY ApplyParts
<1>3. op[a].pc \in RebalancePCs /\ "shrink" \in RebalancePCs /\ op[a].pc \in QuotaPCs
  BY <1>2 DEF RebalancePCs, QuotaPCs
<1>4. /\ op'[a] = o /\ o.pc = "shrink" /\ o.starting = op[a].starting
      /\ \A v \in Actors : v # a => op'[v] = op[v]
  BY <1>1, <1>3, RebalancerParts DEF Rebalanced
<1>5. PICK c \in Workspaces, t \in Nat : c = op[a].cur /\ t = op[a].target /\ t > 0
  BY <1>2, <1>3, Quantities DEF QuotaInvariant, RebalanceFacts
<1>6. /\ \A v \in Workspaces : v # c => limit'[v] = limit[v] /\ quotas'[v] = quotas[v]
      /\ quotas'[c] = t /\ limit'[c] = IF quotas[c] = t THEN limit[c] ELSE t
  BY <1>5, ApplyParts
<1>7. a \in Workspaces => StartFacts(a)'
  BY <1>1, <1>2, <1>3, <1>4, SameRows, RebalancedStart DEF KeepGates
<1>8. ASSUME stableLiveProviderState(rows[c])
      PROVE  limit'[c] <= t /\ t <= rows[c].quota
  <2>1. t <= rows[c].quota
    BY <1>2, <1>5, <1>8 DEF QuotaInvariant, RebalanceFacts
  <2>2. CASE quotas[c] # t
    BY <1>6, <2>1, <2>2
  <2>3. CASE quotas[c] = t /\ Remembered(c)
    BY <1>5, <1>6, <2>1, <2>3 DEF Remembered
  <2>4. CASE quotas[c] = t /\ Closing(c)
    <3>1. c = a
      BY <1>3, <2>4, RebalancerParts
    <3>2. limit[c] <= t
      BY <1>2, <1>5, <1>8, <2>4, <3>1 DEF QuotaInvariant, ClosingFacts
    <3>. QED BY <1>6, <2>1, <2>4, <3>2
  <2>5. Remembered(c) \/ Closing(c)
    BY <1>8 DEF QuotaInvariant, RecordFacts
  <2>. QED BY <2>2, <2>3, <2>4, <2>5
<1>9. RebalanceFacts(a)'
  BY <1>1, <1>2, <1>4, <1>5, <1>6, <1>8 DEF RebalanceFacts
<1>10. ASSUME a \in Workspaces
       PROVE  /\ Closing(a)' => Closing(a)
              /\ Closing(a) /\ a # c => Closing(a)'
  BY <1>1, <1>2, <1>3, <1>4, <1>5 DEF Closing, Due
<1>11. ASSUME a \in Workspaces
       PROVE  ClosingFacts(a)'
  <2>. SUFFICES ASSUME stableLiveProviderState(rows'[a]), Closing(a)'
                PROVE  limit'[a] <= op'[a].target
    BY <1>4 DEF ClosingFacts
  <2>1. stableLiveProviderState(rows[a]) /\ Closing(a)
    BY <1>2, <1>10, <1>11
  <2>2. CASE a = c
    BY <1>1, <1>4, <1>5, <1>8, <2>1, <2>2
  <2>3. CASE a # c
    <3>1. limit[a] <= op[a].target
      BY <1>2, <1>11, <2>1 DEF QuotaInvariant, ClosingFacts
    <3>. QED BY <1>1, <1>4, <1>6, <1>11, <2>3, <3>1
  <2>. QED BY <2>2, <2>3
<1>12. ASSUME NEW v \in Workspaces
       PROVE  RecordFacts(v)'
  <2>1. CASE v = c
    <3>. SUFFICES ASSUME stableLiveProviderState(rows'[c])
                  PROVE  limit'[c] <= rows'[c].quota /\ Remembered(c)'
      BY <2>1 DEF RecordFacts
    <3>1. limit'[c] <= t /\ t <= rows[c].quota
      BY <1>2, <1>8
    <3>2. limit'[c] \in Nat /\ rows[c].quota \in Nat
      BY <1>5, <1>6, Quantities
    <3>3. limit'[c] <= rows'[c].quota
      BY <1>2, <3>1, <3>2
    <3>4. Remembered(c)'
      BY <1>6, <3>1 DEF Remembered
    <3>. QED BY <3>3, <3>4
  <2>2. CASE v # c
    <3>1. Closing(v) => Closing(v)'
      BY <1>3, <1>10, <2>2, RebalancerParts
    <3>2. rows[v].quota <= rows[v].quota
      BY Quantities
    <3>. QED BY <1>2, <1>6, <2>2, <3>1, <3>2, RecordKept
  <2>. QED BY <2>1, <2>2
<1>. QED BY <1>3, <1>4, <1>7, <1>9, <1>11, <1>12, RebalancerParts, HolderQuota

LEMMA ShrinkQuotaQuota ==
    ASSUME IInv, IInv', FreshInvariant, QuotaInvariant, NEW a \in Actors, ShrinkQuota(a)
    PROVE  QuotaInvariant'
<1>1. PICK o : /\ op' = [op EXCEPT ![a] = o] /\ Rebalanced(o, op[a], "quota")
               /\ o.todo = op[a].todo /\ o.cur = None /\ o.target = op[a].target
  BY ShrinkParts
<1>2. op[a].pc = "shrink" /\ KeepGates /\ KeepProvider
  BY ShrinkParts
<1>3. op[a].pc \in RebalancePCs /\ "quota" \in RebalancePCs /\ op[a].pc \in QuotaPCs
  BY <1>2 DEF RebalancePCs, QuotaPCs
<1>4. /\ op'[a] = o /\ o.pc = "quota" /\ o.starting = op[a].starting
      /\ \A v \in Actors : v # a => op'[v] = op[v]
  BY <1>1, <1>3, RebalancerParts DEF Rebalanced
<1>5. PICK c \in Workspaces : c = op[a].cur /\ op[a].target > 0
  BY <1>2, <1>3 DEF QuotaInvariant, RebalanceFacts
<1>6. PICK q \in 0..Pool : q = op[a].target /\ rows' = [rows EXCEPT ![c].quota = q]
  BY <1>5, ShrinkParts
<1>7. /\ rows'[c].quota = q /\ \A v \in Workspaces : v # c => rows'[v] = rows[v]
      /\ \A v \in Workspaces : Close(rows[v], rows'[v])
      /\ \A v \in Workspaces :
            stableLiveProviderState(rows'[v]) <=> stableLiveProviderState(rows[v])
  BY <1>6, QuotaRow
<1>8. a \in Workspaces => StartFacts(a)'
  BY <1>1, <1>2, <1>3, <1>4, <1>7, RebalancedStart DEF KeepGates
<1>9. RebalanceFacts(a)'
  BY <1>1, <1>4, <1>5 DEF RebalanceFacts
<1>10. ASSUME a \in Workspaces
       PROVE  (Closing(a)' <=> Closing(a)) /\ ClosingFacts(a)'
  <2>1. Closing(a)' <=> Closing(a)
    BY <1>1, <1>2, <1>3, <1>4 DEF Closing, Due
  <2>2. stableLiveProviderState(rows[a]) /\ Closing(a) => limit[a] <= op[a].target
    BY <1>2, <1>10 DEF QuotaInvariant, ClosingFacts
  <2>. QED BY <1>1, <1>2, <1>4, <1>7, <1>10, <2>1, <2>2 DEF ClosingFacts, KeepProvider
<1>11. ASSUME NEW v \in Workspaces
       PROVE  RecordFacts(v)'
  <2>1. CASE v = c
    <3>1. stableLiveProviderState(rows[c]) => limit[c] <= q /\ quotas[c] = q
      BY <1>2, <1>5, <1>6 DEF QuotaInvariant, RebalanceFacts
    <3>. QED BY <1>2, <1>7, <2>1, <3>1 DEF RecordFacts, Remembered, KeepProvider
  <2>2. CASE v # c
    <3>1. Closing(v) => Closing(v)'
      BY <1>3, <1>10, RebalancerParts
    <3>2. rows[v].quota <= rows[v].quota
      BY Quantities
    <3>. QED BY <1>2, <1>7, <2>2, <3>1, <3>2, RecordKept DEF KeepProvider
  <2>. QED BY <2>1, <2>2
<1>. QED BY <1>3, <1>4, <1>8, <1>9, <1>10, <1>11, RebalancerParts, HolderQuota

LEMMA FinishQuotaQuota ==
    ASSUME IInv, IInv', FreshInvariant, QuotaInvariant, NEW a \in Actors, FinishQuota(a)
    PROVE  QuotaInvariant'
<1>1. /\ op[a].pc = "quota" /\ op[a].todo = {} /\ Return(a) /\ rows' = rows /\ KeepProvider
  BY DEF FinishQuota, GiveUp
<1>2. op[a].pc \in QuotaPCs /\ ~Closing(a)
  BY <1>1 DEF Closing, Due, QuotaPCs
<1>. QED BY <1>1, <1>2, RebalanceEndQuota

LEMMA FinishStartQuotaQuota ==
    ASSUME IInv, IInv', FreshInvariant, ReservationInvariant, QuotaInvariant,
           NEW w \in Workspaces, FinishStartQuota(w)
    PROVE  QuotaInvariant'
<1>1. PICK o : /\ op' = [op EXCEPT ![w] = o] /\ o.pc \in {"save_start_pending", "save_unconfirmed"}
               /\ o.row.quota = op[w].target
  BY FinishParts
<1>2. PICK q \in 0..Pool : q = op[w].target /\ rows' = [rows EXCEPT ![w].quota = q]
  BY FinishParts
<1>3. op[w].pc = "quota" /\ op[w].starting /\ KeepGates /\ KeepProvider
  BY FinishParts
<1>4. w \in Actors /\ op[w].pc \in QuotaPCs /\ op[w].pc \in RebalancePCs
  BY <1>3 DEF Actors, QuotaPCs, RebalancePCs
<1>5. op'[w] = o /\ \A v \in Actors : v # w => op'[v] = op[v]
  BY <1>1, <1>4, RebalancerParts
<1>6. /\ \A v \in Workspaces : v # w => rows'[v] = rows[v]
      /\ \A v \in Workspaces : Close(rows[v], rows'[v])
      /\ \A v \in Workspaces :
            stableLiveProviderState(rows'[v]) <=> stableLiveProviderState(rows[v])
  BY <1>2, QuotaRow
<1>7. ~stableLiveProviderState(rows[w]) /\ rows[w].state = "provisioning"
  BY <1>3, <1>4, StartConsumes DEF Starting
<1>8. rows[w].code = "start_reserved"
  BY <1>3, <1>4 DEF ReservationInvariant, ReservationFacts
<1>9. phase[w] # "live"
  BY <1>7, <1>8, Types DEF Facts, RowFacts, definitelyStoppedStartReservation
<1>10. Settled(w)' /\ o.row.quota <= share(Cardinality(consumers'))
  <2>1. Settled(w) /\ op[w].target <= share(Cardinality(consumers))
    BY <1>3, <1>4 DEF QuotaInvariant, StartFacts
  <2>. QED BY <1>1, <1>3, <1>6, <2>1, CloseRows DEF KeepGates
<1>11. o.pc \in StartPCs /\ o.pc \notin RebalancePCs /\ o.pc # "list"
  BY <1>1 DEF StartPCs, RebalancePCs
<1>12. StartFacts(w)'
  BY <1>1, <1>3, <1>5, <1>9, <1>10, <1>11 DEF StartFacts, KeepProvider
<1>13. RebalanceFacts(w)' /\ ClosingFacts(w)'
  BY <1>5, <1>11, PCGroups DEF RebalanceFacts, ClosingFacts, Closing
<1>14. ASSUME NEW v \in Workspaces
       PROVE  RecordFacts(v)'
  <2>1. CASE v = w
    BY <1>6, <1>7, <2>1 DEF RecordFacts
  <2>2. CASE v # w
    <3>1. ~Closing(v) /\ rows[v].quota <= rows[v].quota
      BY <1>4, <2>2, RebalancerParts, Quantities
    <3>. QED BY <1>3, <1>6, <2>2, <3>1, RecordKept DEF KeepProvider
  <2>. QED BY <2>1, <2>2
<1>. QED BY <1>4, <1>5, <1>12, <1>13, <1>14, RebalancerParts, HolderQuota

LEMMA StepQuota ==
    ASSUME IInv, IInv', NothingLost, FreshInvariant, ReservationInvariant, QuotaInvariant,
           NEW w \in Workspaces, Step(w)
    PROVE  QuotaInvariant'
<1>1. w \in Actors
  BY DEF Actors
<1>2. CASE \/ SaveDenied(w) \/ acquireAdmission(w) \/ Commit(w) \/ PrepareInputs(w)
           \/ Decide(w, TRUE)
  BY <1>2, AdmittingQuota
<1>3. CASE acquireRuntime(w)
  BY <1>3, AcquiringQuota
<1>4. CASE \/ ListConsumers(w) \/ (\E v \in Workspaces : RaiseQuota(w, v)) \/ ApplyQuota(w)
           \/ ShrinkQuota(w) \/ FinishQuota(w) \/ FinishStartQuota(w)
  BY <1>1, <1>4, ListQuota, RaiseQuotaQuota, ApplyQuotaQuota, ShrinkQuotaQuota,
     FinishQuotaQuota, FinishStartQuotaQuota
<1>5. CASE ReconcileProvisioning(w) \/ Provision(w) \/ SaveRunning(w)
  BY <1>5, ProvisioningQuota, SaveRunningQuota
<1>6. CASE \/ SaveUnconfirmed(w) \/ SaveProvisioned(w) \/ markProviderStartPending(w)
           \/ CallProvision(w) \/ CallStart(w) \/ CallInitialize(w)
  BY <1>6, StartingQuota
<1>7. CASE \/ SaveSetupPending(w) \/ SaveAwaiting(w) \/ SaveCleanup(w) \/ SaveFailed(w)
           \/ SaveFound(w) \/ SaveReserved(w) \/ SaveSuspended(w) \/ SaveDrainFound(w)
           \/ persistMaintenanceDrainResult(w) \/ SaveDeleteFound(w) \/ FinalizeDelete(w)
  BY <1>7, SavesPlain, PlainQuota
<1>8. CASE SaveSuspending(w) \/ SaveDeleting(w) \/ DrainWorkspace(w) \/ StartSuspension(w)
  BY <1>8, MorePlain, PlainQuota
<1>9. CASE \/ SetupStop(w) \/ CleanupStop(w) \/ SuspendStop(w) \/ DrainStop(w)
           \/ ReconcileLookup(w) \/ DeleteLookup(w) \/ DrainLookup(w) \/ CallDelete(w)
  BY <1>9, CallsPlain, PlainQuota
<1>. QED BY <1>2, <1>3, <1>4, <1>5, <1>6, <1>7, <1>8, <1>9, Zenon DEF Step

\* Nothing is in flight: what is recorded is all there is.
LEMMA IdleQuota ==
    ASSUME \A a \in Actors : op[a] = NoOp,
           \A w \in Workspaces : stableLiveProviderState(rows[w]) =>
              limit[w] <= rows[w].quota /\ quotas[w] = 0
    PROVE  QuotaInvariant
<1>1. \A a \in Actors : op[a].pc = "idle"
  BY NoOpParts
<1>2. \A a \in Actors : /\ op[a].pc \notin StartPCs /\ op[a].pc \notin RebalancePCs
                        /\ op[a].pc # "list"
  BY <1>1 DEF StartPCs, RebalancePCs
<1>3. \A a \in Actors : StartFacts(a) /\ ClosingFacts(a) /\ RebalanceFacts(a)
  BY <1>1, <1>2 DEF StartFacts, ClosingFacts, Closing, RebalanceFacts
<1>4. \A w \in Workspaces : RecordFacts(w)
  BY DEF RecordFacts, Remembered
<1>5. \A w \in Workspaces : w \in Actors
  BY DEF Actors
<1>. QED BY <1>3, <1>4, <1>5 DEF QuotaInvariant

LEMMA InitQuota == Init => QuotaInvariant
<1>. SUFFICES ASSUME Init
              PROVE  QuotaInvariant
  OBVIOUS
<1>1. \A a \in Actors : op[a] = NoOp
  BY DEF Init
<1>2. \A w \in Workspaces : ~stableLiveProviderState(rows[w])
  <2>1. ~stableLiveProviderState(NoRow)
    BY DEF stableLiveProviderState, NoRow, LiveStates
  <2>2. \A b : ~stableLiveProviderState(LegacyRow(b))
    BY NoRowType DEF stableLiveProviderState, LegacyRow, LiveStates, Row
  <2>3. \A w \in Workspaces : rows[w] = NoRow \/ \E b \in BOOLEAN : rows[w] = LegacyRow(b)
    BY DEF Init
  <2>. QED BY <2>1, <2>2, <2>3
<1>. QED BY <1>1, <1>2, IdleQuota

LEMMA NextQuota ==
    ASSUME IInv, NothingLost, FreshInvariant, ReservationInvariant, QuotaInvariant, [Next]_vars
    PROVE  QuotaInvariant'
<1>0. IInv'
  BY NextStep
<1>1. CASE \E w \in Workspaces : Request(w) \/ Step(w) \/ Decide(w, FALSE)
  BY <1>0, <1>1, RequestQuota, StepQuota, AdmittingQuota
<1>2. CASE LifecycleStep
  <2>1. Lifecycle \in Actors
    BY DEF Actors
  <2>. QED BY <1>0, <1>2, <2>1, ReconcileCapacityQuota, ListQuota, RaiseQuotaQuota,
              ApplyQuotaQuota, ShrinkQuotaQuota, FinishQuotaQuota DEF LifecycleStep
<1>3. CASE SetMaintenanceDrain \/ BeginMaintenanceDrain \/ UNCHANGED vars
  <2>1. /\ rows' = rows /\ op' = op /\ phase' = phase /\ limit' = limit /\ quotas' = quotas
        /\ admissionGate' = admissionGate \/ admissionGate \in {Maintenance, None}
    BY <1>3 DEF SetMaintenanceDrain, BeginMaintenanceDrain, vars, KeepGates, KeepProvider
  <2>2. \A v \in Workspaces : admissionGate = v => admissionGate' = v
    BY <2>1, ConstantsAssumption
  <2>3. consumers' = consumers
    BY <2>1 DEF consumers
  <2>4. \A v \in Workspaces : admissionGate = v => Undisturbed(v)
    BY <2>1, <2>2, <2>3 DEF Undisturbed, unresolved
  <2>. QED BY <1>0, <2>1, <2>4, OutsideQuota
<1>4. CASE \E a \in Actors : StoreError(a)
  BY <1>4 DEF StoreError, Fault, NothingLost
<1>5. CASE Crash
  <2>1. /\ \A a \in Actors : op'[a] = NoOp
        /\ \A w \in Workspaces : quotas'[w] = 0
        /\ rows' = rows /\ limit' = limit
    BY <1>5 DEF Crash
  <2>2. \A w \in Workspaces : stableLiveProviderState(rows'[w]) =>
           limit'[w] <= rows'[w].quota /\ quotas'[w] = 0
    BY <2>1 DEF QuotaInvariant, RecordFacts
  <2>3. \A a \in Actors : op'[a] = NoOp
    BY <2>1
  <2>4. ASSUME NEW a \in Actors
        PROVE  StartFacts(a)' /\ ClosingFacts(a)' /\ RebalanceFacts(a)'
    <3>1. op'[a].pc \notin RuntimePCs
      BY <2>3, NoOpParts, WaitPCs
    <3>. QED BY <3>1, WaitingQuota
  <2>5. \A w \in Workspaces : RecordFacts(w)'
    BY <2>2 DEF RecordFacts, Remembered
  <2>6. \A w \in Workspaces : w \in Actors
    BY DEF Actors
  <2>. QED BY <2>4, <2>5, <2>6 DEF QuotaInvariant
<1>. QED BY <1>1, <1>2, <1>3, <1>4, <1>5 DEF Next

\* While no store call and no quota build fails (whatever else does: provider
\* calls, disk measurements, local checkpoints, and the process may crash
\* anywhere), the quota recorded in the row of a stable live runtime bounds the
\* limit its provider grants (service.go reconcileCapacityQuotas: an expansion
\* is recorded before it is built, a reduction after).  The hypothesis is
\* needed: TLC refutes the property with either failure.
THEOREM RecordedQuotas == NothingLost => (Spec => []RecordedQuotaIsUpperBound)
<1>. SUFFICES ASSUME NothingLost
              PROVE  Spec => []RecordedQuotaIsUpperBound
  OBVIOUS
<1>1. Init => QuotaInvariant
  BY InitQuota
<1>2. IInv /\ FreshInvariant /\ ReservationInvariant /\ QuotaInvariant /\ [Next]_vars
         => QuotaInvariant'
  BY NextQuota
<1>3. QuotaInvariant => RecordedQuotaIsUpperBound
  BY DEF QuotaInvariant, RecordFacts, RecordedQuotaIsUpperBound
<1>. QED BY <1>1, <1>2, <1>3, Invariance, FreshInvariance, ReservationInvariance, PTL DEF Spec

=============================================================================
