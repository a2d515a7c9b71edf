--------------------------- MODULE HoldingsProofs ---------------------------
(***************************************************************************)
(* Theorems about what the system holds for the owner, for any number of   *)
(* processes, rows, keys, commits, workspaces, files and uses:             *)
(* KeyRotation, CodexAuth, GitHubAuthority, GitIndex, SecretGrants and     *)
(* Checkpoints.                                                            *)
(***************************************************************************)
EXTENDS Checkpoints, GitIndex, KeyRotation, SecretGrants, CodexAuth, GitHubAuthority, TLAPS,
        FiniteSetTheorems

-----------------------------------------------------------------------------
(* KeyRotation *)

LEMMA RotationInit == KeyRotationInit => RotationInvariant
<1> SUFFICES ASSUME KeyRotationInit PROVE RotationInvariant
  OBVIOUS
<1>1. /\ rotator = [at |-> "idle", next |-> NoKey, rows |-> {}, seen |-> {}]
      /\ rotator.at = "idle" /\ Serving = {}
  BY DEF KeyRotationInit, Resting, Serving
<1>2. envelope \in [Rows -> MasterKeys \cup {NoKey}]
  BY DEF KeyRotationInit
<1>3. server \in [Servers -> [up : BOOLEAN, key : MasterKeys, lease : BOOLEAN]]
  BY DEF KeyRotationInit
<1>4. rotator \in [at : {"idle", "locked", "loaded", "applied", "switch"},
                  next : MasterKeys \cup {NoKey}, rows : SUBSET Rows, seen : SUBSET Rows]
  BY <1>1
<1>5. KeyRotationTypeOK
  BY <1>1, <1>2, <1>3, <1>4 DEF KeyRotationInit, KeyRotationTypeOK
<1> QED BY <1>1, <1>5
        DEF KeyRotationInit, RotationInvariant, OneKeyForEveryRow, Live, InMaintenance

LEMMA ServersKeepRotation ==
    ASSUME RotationInvariant, NEW s \in Servers,
           \/ ServerStarts(s) \/ ServerStops(s) \/ LeaseConnectionLost(s)
           \/ \E r \in Rows : ServerWrites(s, r) \/ ServerDeletes(s, r)
    PROVE  RotationInvariant'
<1> USE KeyRotationAssumption DEF RotationInvariant, KeyRotationTypeOK, OneKeyForEveryRow, Live, Serving,
                                  Leases, InMaintenance
<1>1. CASE ServerStarts(s)
  BY <1>1 DEF ServerStarts
<1>2. CASE ServerStops(s)
  BY <1>2, ZenonT(60) DEF ServerStops
<1>3. CASE LeaseConnectionLost(s)
  BY <1>3, ZenonT(60) DEF LeaseConnectionLost
<1>4. ASSUME NEW r \in Rows, ServerWrites(s, r)
      PROVE  RotationInvariant'
  BY <1>4 DEF ServerWrites
<1>5. ASSUME NEW r \in Rows, ServerDeletes(s, r)
      PROVE  RotationInvariant'
  BY <1>5 DEF ServerDeletes
<1> QED BY <1>1, <1>2, <1>3, <1>4, <1>5

LEMMA RotatorKeepsRotation ==
    ASSUME RotationInvariant,
           \/ \E k \in MasterKeys : RotateAcquires(k)
           \/ \E r \in Rows : UpdateRow(r)
           \/ LoadAndPrepare \/ NothingToUpdate \/ RotationCommits \/ RotationFails \/ SwitchKeyFile
    PROVE  RotationInvariant'
<1> USE KeyRotationAssumption DEF RotationInvariant, KeyRotationTypeOK, OneKeyForEveryRow, Live, Serving,
                                  Leases, InMaintenance, Resting
<1>1. ASSUME NEW k \in MasterKeys, RotateAcquires(k)
      PROVE  RotationInvariant'
  BY <1>1, ZenonT(60) DEF RotateAcquires
<1>2. ASSUME NEW r \in Rows, UpdateRow(r)
      PROVE  RotationInvariant'
  BY <1>2, Zenon DEF UpdateRow
<1>3. CASE LoadAndPrepare
  BY <1>3, Zenon DEF LoadAndPrepare
<1>4. CASE NothingToUpdate
  BY <1>4 DEF NothingToUpdate
<1>5. CASE RotationCommits
  <2>1. /\ envelope' \in [Rows -> MasterKeys \cup {NoKey}]
        /\ \A r \in Rows : envelope'[r] = IF r \in rotator.rows THEN rotator.next ELSE envelope[r]
        /\ audited' = rotator.next /\ rotator.next \in MasterKeys
        /\ UNCHANGED <<keyFile, server, leaseLost>>
    BY <1>5 DEF RotationCommits
  <2>2. leaseLost \/ (rotator.rows = Live /\ Serving = {})
    BY <1>5 DEF RotationCommits
  <2>3. leaseLost \/ \A r \in Rows : envelope'[r] # NoKey => envelope'[r] = rotator.next
    BY <2>1, <2>2
  <2>4. CASE rotator' = [rotator EXCEPT !.at = "switch", !.rows = {}, !.seen = {}] /\ UNCHANGED unanswered
    <3>1. /\ rotator' \in [at : {"idle", "locked", "loaded", "applied", "switch"},
                           next : MasterKeys \cup {NoKey}, rows : SUBSET Rows, seen : SUBSET Rows]
          /\ rotator'.at = "switch" /\ rotator'.next = rotator.next
      BY <2>4
    <3> QED BY <2>1, <2>2, <2>3, <2>4, <3>1
  <2>5. CASE rotator' = Resting /\ unanswered' = TRUE
    <3>1. /\ rotator' \in [at : {"idle", "locked", "loaded", "applied", "switch"},
                           next : MasterKeys \cup {NoKey}, rows : SUBSET Rows, seen : SUBSET Rows]
          /\ rotator'.at = "idle"
      BY <2>5
    <3> QED BY <2>1, <2>2, <2>3, <2>5, <3>1
  <2> QED BY <1>5, <2>4, <2>5 DEF RotationCommits
<1>6. CASE RotationFails
  BY <1>6 DEF RotationFails
<1>7. CASE SwitchKeyFile
  BY <1>7 DEF SwitchKeyFile
<1> QED BY <1>1, <1>2, <1>3, <1>4, <1>5, <1>6, <1>7

(* Wherever a server or the rotator stops or fails, and for any number of      *)
(* them, no row is left under a key other than that of the key file, except    *)
(* the one of a committed rotation that was reported as failed: AcquireServe-  *)
(* Lease excludes the rotation, and the rotation replaces every row or none.   *)
THEOREM RotationIsSafe == KeyRotationSpec => []OneKeyForEveryRow
<1>1. RotationInvariant /\ [KeyRotationNext]_rotationVars => RotationInvariant'
  <2> SUFFICES ASSUME RotationInvariant, [KeyRotationNext]_rotationVars PROVE RotationInvariant'
    OBVIOUS
  <2>1. CASE UNCHANGED rotationVars
    BY <2>1 DEF rotationVars, RotationInvariant, KeyRotationTypeOK, OneKeyForEveryRow, Live, Serving,
                Leases, InMaintenance
  <2> QED BY <2>1, ServersKeepRotation, RotatorKeepsRotation DEF KeyRotationNext
<1>2. RotationInvariant => OneKeyForEveryRow
  BY DEF RotationInvariant
<1> QED BY RotationInit, <1>1, <1>2, PTL DEF KeyRotationSpec

-----------------------------------------------------------------------------
(* CodexAuth *)

LEMMA CodexAuthStarts == CodexAuthInit => CodexAuthInvariant
<1> SUFFICES ASSUME CodexAuthInit PROVE CodexAuthInvariant
  OBVIOUS
<1>1. /\ authKey = FALSE /\ runtimeAuth = 0 /\ sealedAuth = 0 /\ obtained = 0 /\ newest = 0
      /\ lost = FALSE /\ cut = FALSE
      /\ run \in [CodexRuns -> {"idle", "login", "codex"}]
  BY DEF CodexAuthInit
<1>2. RunLeases = {}
  BY DEF CodexAuthInit, RunLeases
<1>3. 0 \in 0..MaxCredentials
  BY CodexAuthAssumption
<1> QED BY <1>1, <1>2, <1>3 DEF CodexAuthInvariant, CodexAuthTypeOK, CredentialFollowsOwner,
           EnvelopeIsCurrent, DisconnectedIsGone, AuthStatus

\* The operations of the manager that no single process owns.
LEMMA ManagerKeepsCredential ==
    ASSUME CodexAuthInvariant,
           ConfigureAuth \/ SealBoundary \/ StopContainer \/ RevokeAuth \/ RevokeStops
    PROVE  CodexAuthInvariant'
<1> USE CodexAuthAssumption DEF CodexAuthInvariant, CodexAuthTypeOK, CredentialFollowsOwner,
                                EnvelopeIsCurrent, DisconnectedIsGone, RunLeases, AuthStatus
<1>0. 0 \in 0..MaxCredentials
  OBVIOUS
<1>1. CASE ConfigureAuth
  BY <1>1 DEF ConfigureAuth
<1>2. CASE SealBoundary
  BY <1>2 DEF SealBoundary
<1>3. CASE StopContainer
  <2>1. RunLeases' = {} /\ run' \in [CodexRuns -> {"idle", "login", "codex"}]
    BY <1>3 DEF StopContainer
  <2> QED BY <1>0, <1>3, <2>1 DEF StopContainer
<1>4. CASE RevokeAuth
  <2>1. RunLeases' = {}
    BY <1>4 DEF RevokeAuth
  <2> QED BY <1>0, <1>4, <2>1 DEF RevokeAuth
<1>5. CASE RevokeStops
  <2>1. RunLeases' = {}
    BY <1>5 DEF RevokeStops
  <2> QED BY <1>0, <1>5, <2>1 DEF RevokeStops
<1> QED BY <1>1, <1>2, <1>3, <1>4, <1>5

LEMMA ProcessKeepsCredential ==
    ASSUME CodexAuthInvariant, NEW p \in CodexRuns,
           \/ \E kind \in {"login", "codex"} : BeginRun(p, kind)
           \/ Obtain(p) \/ Logout(p) \/ CloseRun(p) \/ CloseDies(p) \/ RunDies(p)
    PROVE  CodexAuthInvariant'
<1> USE CodexAuthAssumption DEF CodexAuthInvariant, CodexAuthTypeOK, CredentialFollowsOwner,
                                EnvelopeIsCurrent, DisconnectedIsGone, RunLeases, AuthStatus, RunIs
<1>1. ASSUME NEW kind \in {"login", "codex"}, BeginRun(p, kind)
      PROVE  CodexAuthInvariant'
  BY <1>1 DEF BeginRun
<1>2. CASE Obtain(p)
  BY <1>2 DEF Obtain
<1>3. CASE Logout(p)
  BY <1>3 DEF Logout
<1>4. CASE CloseRun(p)
  BY <1>4 DEF CloseRun
<1>5. CASE CloseDies(p)
  BY <1>5 DEF CloseDies
<1>6. CASE RunDies(p)
  BY <1>6 DEF RunDies
<1> QED BY <1>1, <1>2, <1>3, <1>4, <1>5, <1>6

(* The credential follows its owner for any number of wrapped processes and    *)
(* of credentials, however their beginnings, ends and deaths interleave with   *)
(* checkpoints, suspensions and a disconnect (codex_auth.go:176-587).          *)
THEOREM CredentialIsKept == CodexAuthSpec => []CredentialFollowsOwner
<1>1. CodexAuthInvariant /\ [CodexAuthNext]_codexVars => CodexAuthInvariant'
  <2> SUFFICES ASSUME CodexAuthInvariant, [CodexAuthNext]_codexVars PROVE CodexAuthInvariant'
    OBVIOUS
  <2>1. CASE UNCHANGED codexVars
    BY <2>1 DEF codexVars, CodexAuthInvariant, CodexAuthTypeOK, CredentialFollowsOwner,
                EnvelopeIsCurrent, DisconnectedIsGone, RunLeases, AuthStatus
  <2> QED BY <2>1, ManagerKeepsCredential, ProcessKeepsCredential DEF CodexAuthNext
<1>2. CodexAuthInvariant => CredentialFollowsOwner
  BY DEF CodexAuthInvariant
<1> QED BY CodexAuthStarts, <1>1, <1>2, PTL DEF CodexAuthSpec

-----------------------------------------------------------------------------
(* GitHubAuthority *)

LEMMA AuthorityStarts == AuthorityInit => AuthorityInvariant
<1> SUFFICES ASSUME AuthorityInit PROVE AuthorityInvariant
  OBVIOUS
<1>1. NoUse \in UseRecord
  BY DEF NoUse, UseRecord, Syncs
<1>2. AuthorityTypeOK
  <2>1. install \in [known : BOOLEAN, suspended : BOOLEAN, disconnected : BOOLEAN]
    <3>1. \A b \in BOOLEAN : [known |-> b, suspended |-> FALSE, disconnected |-> FALSE]
             \in [known : BOOLEAN, suspended : BOOLEAN, disconnected : BOOLEAN]
      OBVIOUS
    <3> QED BY <3>1 DEF AuthorityInit
  <2> QED BY <1>1, <2>1 DEF AuthorityInit, AuthorityTypeOK
<1>3. \A u \in Uses : use[u] = NoUse
  BY DEF AuthorityInit
<1>4. SoundUse(NoUse) /\ GuardedUse(NoUse, closed)
  BY DEF NoUse, SoundUse, GuardedUse, Recorded, Armed, Severed
<1> QED BY <1>2, <1>3, <1>4 DEF AuthorityInit, AuthorityInvariant, Revocations

\* A step of one use, which lifts revocations or leaves them alone.
LEMMA OneUseChanges ==
    ASSUME AuthorityInvariant, NEW u \in Uses, NEW x \in UseRecord, UseIs(u, x), SoundUse(x),
           install' \in [known : BOOLEAN, suspended : BOOLEAN, disconnected : BOOLEAN],
           Revocations', closed' \subseteq closed, UNCHANGED suspended,
           unguarded' \in BOOLEAN, unguarded => unguarded', unguarded' \/ GuardedUse(x, closed')
    PROVE  AuthorityInvariant'
<1>1. use' \in [Uses -> UseRecord] /\ use'[u] = x /\ \A v \in Uses \ {u} : use'[v] = use[v]
  BY DEF AuthorityInvariant, AuthorityTypeOK, UseIs
<1>2. AuthorityTypeOK'
  BY <1>1 DEF AuthorityInvariant, AuthorityTypeOK
<1>3. ASSUME NEW v \in Uses PROVE SoundUse(use'[v]) /\ (unguarded' \/ GuardedUse(use'[v], closed'))
  <2>1. CASE v = u
    BY <1>1, <2>1 DEF GuardedUse, Recorded, Armed, Severed
  <2>2. CASE v # u
    BY <1>1, <2>2 DEF AuthorityInvariant, GuardedUse, Recorded, Armed, Severed
  <2> QED BY <2>1, <2>2
<1> QED BY <1>2, <1>3 DEF AuthorityInvariant, SoundUse, Recorded, Armed, Severed

\* ... and leaves everything but the use alone.
LEMMA OnlyUseChanges ==
    ASSUME AuthorityInvariant, NEW u \in Uses, NEW x \in UseRecord, UseIs(u, x), SoundUse(x),
           UNCHANGED <<install, suspended, closed, unguarded>>, unguarded \/ GuardedUse(x, closed)
    PROVE  AuthorityInvariant'
<1>1. Revocations' /\ (unguarded' \/ GuardedUse(x, closed'))
  BY DEF AuthorityInvariant, Revocations, GuardedUse
<1> QED BY <1>1, OneUseChanges DEF AuthorityInvariant, AuthorityTypeOK

\* A use that ends keeps its record and its remote end.
LEMMA EndedUse ==
    ASSUME AuthorityInvariant, NEW u \in Uses, UseEnds(u), UNCHANGED <<install, suspended, closed, unguarded>>
    PROVE  AuthorityInvariant'
<1> DEFINE x == [use[u] EXCEPT !.at = "idle", !.lease = "none"]
<1>0. use[u] \in UseRecord /\ SoundUse(use[u]) /\ (unguarded \/ GuardedUse(use[u], closed))
  BY DEF AuthorityInvariant, AuthorityTypeOK
<1>1. /\ x \in UseRecord /\ x.at = "idle" /\ x.kind = use[u].kind /\ x.record = use[u].record
      /\ x.remote = use[u].remote /\ x.token = use[u].token /\ x.dropped = use[u].dropped
  BY <1>0, ZenonT(60) DEF UseRecord
<1>2. UseIs(u, x)
  BY DEF UseEnds
<1> HIDE DEF x
<1>3. SoundUse(x) /\ (unguarded \/ GuardedUse(x, closed))
  BY <1>0, <1>1 DEF SoundUse, GuardedUse, Recorded, Armed, Severed
<1> QED BY <1>1, <1>2, <1>3, OnlyUseChanges

LEMMA LocksKeepAuthority ==
    ASSUME AuthorityInvariant, NEW u \in Uses,
           \/ \E kind \in Syncs \cup {"use"} : Acquire(u, kind)
           \/ Leaves(u) \/ LeaseLost(u)
    PROVE  AuthorityInvariant'
<1>0. use[u] \in UseRecord /\ SoundUse(use[u]) /\ (unguarded \/ GuardedUse(use[u], closed))
  BY DEF AuthorityInvariant, AuthorityTypeOK
<1> USE DEF UseRecord, SoundUse, GuardedUse, Recorded, Armed, Severed, Syncs
<1>1. ASSUME NEW kind \in Syncs \cup {"use"}, Acquire(u, kind)
      PROVE  AuthorityInvariant'
  BY <1>1, OnlyUseChanges DEF Acquire, NoUse
<1>2. CASE Leaves(u)
  <2>1. CASE UseEnds(u)
    BY <1>2, <2>1, EndedUse DEF Leaves
  <2>2. CASE use[u].at = "operate" /\ UseIs(u, [use[u] EXCEPT !.at = "idle", !.lease = "none",
                                                                !.remote = TRUE])
    BY <1>0, <1>2, <2>2, OnlyUseChanges, ZenonT(60) DEF Leaves
  <2> QED BY <1>2, <2>1, <2>2 DEF Leaves
<1>3. CASE LeaseLost(u)
  <2> DEFINE x == [use[u] EXCEPT !.lease = "none"]
  <2>0. /\ x \in UseRecord /\ x.at = use[u].at /\ x.kind = use[u].kind /\ x.record = use[u].record
        /\ x.remote = use[u].remote /\ x.preserve = use[u].preserve
        /\ x.token = use[u].token /\ x.dropped = use[u].dropped
    BY <1>0
  <2>1. x \in UseRecord /\ SoundUse(x) /\ (unguarded' \/ GuardedUse(x, closed'))
    <3> HIDE DEF x
    <3>1. SoundUse(x)
      BY <1>0, <2>0
    <3>2. unguarded' \/ (use[u].kind \notin Syncs /\ use[u].record # "none")
      BY <1>0, <1>3 DEF LeaseLost
    <3>3. unguarded' \/ ~unguarded
      BY <1>3 DEF LeaseLost
    <3>4. closed' = closed
      BY <1>3 DEF LeaseLost
    <3> QED BY <1>0, <2>0, <3>1, <3>2, <3>3, <3>4
  <2>2. Revocations'
    BY <1>3 DEF LeaseLost, Revocations, AuthorityInvariant
  <2>3. unguarded' \in BOOLEAN /\ (unguarded => unguarded') /\ UNCHANGED <<install, suspended, closed>>
    BY <1>3 DEF LeaseLost
  <2>4. install \in [known : BOOLEAN, suspended : BOOLEAN, disconnected : BOOLEAN]
    BY DEF AuthorityInvariant, AuthorityTypeOK
  <2>5. UseIs(u, x)
    BY <1>3 DEF LeaseLost
  <2> HIDE DEF x, UseRecord, SoundUse, GuardedUse
  <2> QED BY <2>1, <2>2, <2>3, <2>4, <2>5, OneUseChanges
<1> QED BY <1>1, <1>2, <1>3

\* Steps that look at the installation or change it.
LEMMA ChecksKeepAuthority ==
    ASSUME AuthorityInvariant, NEW u \in Uses,
           \/ AuthorizeUse(u) \/ BeginReconnect(u) \/ Refresh(u) \/ CheckActive(u) \/ CompleteReconnect(u)
    PROVE  AuthorityInvariant'
<1>0. /\ use[u] \in UseRecord /\ SoundUse(use[u]) /\ (unguarded \/ GuardedUse(use[u], closed))
      /\ Revocations /\ closed \subseteq {"disconnect", "suspend"} /\ unguarded \in BOOLEAN
      /\ install \in [known : BOOLEAN, suspended : BOOLEAN, disconnected : BOOLEAN]
  BY DEF AuthorityInvariant, AuthorityTypeOK
<1>1. CASE AuthorizeUse(u)
  <2>1. CASE Active
    <3>1. unguarded \/ closed = {}
      BY <1>0, <2>1 DEF Active, Revocations
    <3> QED BY <1>0, <1>1, <2>1, <3>1, OnlyUseChanges
            DEF AuthorizeUse, Goes, UseRecord, SoundUse, GuardedUse, Recorded, Armed, Severed, Syncs
  <2>2. CASE ~Active
    BY <1>1, <2>2, EndedUse DEF AuthorizeUse
  <2> QED BY <2>1, <2>2
<1>2. CASE BeginReconnect(u)
  <2> DEFINE x == [use[u] EXCEPT !.at = "provider"]
  <2>1. x \in UseRecord /\ SoundUse(x) /\ (unguarded' \/ GuardedUse(x, closed'))
    BY <1>0, <1>2 DEF BeginReconnect, UseRecord, SoundUse, GuardedUse, Recorded, Armed, Severed, Syncs
  <2>2. Revocations' /\ install' \in [known : BOOLEAN, suspended : BOOLEAN, disconnected : BOOLEAN]
    BY <1>0, <1>2 DEF BeginReconnect, Revocations
  <2>3. UseIs(u, x) /\ closed' \subseteq closed /\ UNCHANGED <<suspended, unguarded>>
    BY <1>2 DEF BeginReconnect, Goes
  <2> HIDE DEF x
  <2> QED BY <1>0, <2>1, <2>2, <2>3, OneUseChanges
<1>3. CASE Refresh(u)
  <2> DEFINE x == [use[u] EXCEPT !.at = "refreshed"]
  <2>1. x \in UseRecord /\ SoundUse(x) /\ (unguarded' \/ GuardedUse(x, closed'))
    BY <1>0, <1>3 DEF Refresh, UseRecord, SoundUse, GuardedUse, Recorded, Armed, Severed, Syncs
  <2>2. Revocations' /\ install' \in [known : BOOLEAN, suspended : BOOLEAN, disconnected : BOOLEAN]
    BY <1>0, <1>3 DEF Refresh, Revocations
  <2>3. UseIs(u, x) /\ closed' \subseteq closed /\ UNCHANGED <<suspended, unguarded>>
    BY <1>3 DEF Refresh, Goes
  <2> HIDE DEF x
  <2> QED BY <1>0, <2>1, <2>2, <2>3, OneUseChanges
<1>4. CASE CheckActive(u)
  <2>1. CASE Active \/ (use[u].kind = "reconnect" /\ ~install.suspended)
    <3>1. unguarded \/ closed = {}
      BY <1>0, <1>4, <2>1 DEF CheckActive, Active, Revocations, GuardedUse
    <3> QED BY <1>0, <1>4, <2>1, <3>1, OnlyUseChanges
            DEF CheckActive, Goes, UseRecord, SoundUse, GuardedUse, Recorded, Armed, Severed, Syncs
  <2>2. CASE ~(Active \/ (use[u].kind = "reconnect" /\ ~install.suspended))
    BY <1>4, <2>2, EndedUse DEF CheckActive
  <2> QED BY <2>1, <2>2
<1>5. CASE CompleteReconnect(u)
  <2> DEFINE x == [use[u] EXCEPT !.at = "idle", !.lease = "none"]
  <2>0. unguarded \/ closed = {}
    BY <1>0, <1>5 DEF CompleteReconnect, GuardedUse
  <2>1. x \in UseRecord /\ SoundUse(x) /\ (unguarded' \/ GuardedUse(x, closed'))
    BY <1>0, <1>5 DEF CompleteReconnect, UseRecord, SoundUse, GuardedUse, Recorded, Armed, Severed, Syncs
  <2>2. Revocations' /\ install' \in [known : BOOLEAN, suspended : BOOLEAN, disconnected : BOOLEAN]
    BY <1>0, <1>5, <2>0 DEF CompleteReconnect, Revocations
  <2>3. UseIs(u, x) /\ closed' \subseteq closed /\ UNCHANGED <<suspended, unguarded>>
    BY <1>5 DEF CompleteReconnect, UseEnds
  <2> HIDE DEF x
  <2> QED BY <1>0, <2>1, <2>2, <2>3, OneUseChanges
<1> QED BY <1>1, <1>2, <1>3, <1>4, <1>5

\* The steps of UseInstallationToken, and what ends after it.
LEMMA TokenStepsKeepAuthority ==
    ASSUME AuthorityInvariant, NEW u \in Uses,
           \/ ReserveUse(u) \/ Mint(u) \/ Date(u) \/ OperationReturns(u) \/ OperationAmbiguous(u)
           \/ OperationDropped(u) \/ RevokeToken(u) \/ Settle(u) \/ RemoteEnds(u) \/ RecordExpires(u)
    PROVE  AuthorityInvariant'
<1>0. use[u] \in UseRecord /\ SoundUse(use[u]) /\ (unguarded \/ GuardedUse(use[u], closed))
  BY DEF AuthorityInvariant, AuthorityTypeOK
<1> USE <1>0, OnlyUseChanges DEF TokenStep, UseRecord, SoundUse, GuardedUse, Recorded, Armed, Severed, Syncs
<1>1. CASE ReserveUse(u)
  BY <1>1, ZenonT(60) DEF ReserveUse
<1>2. CASE Mint(u)
  <2>1. CASE UseIs(u, [use[u] EXCEPT !.at = "date", !.token = "live"])
    BY <1>2, <2>1, ZenonT(60) DEF Mint
  <2>2. CASE UseIs(u, [use[u] EXCEPT !.at = "idle", !.lease = "none", !.record = "revoked"])
    <3> DEFINE x == [use[u] EXCEPT !.at = "idle", !.lease = "none", !.record = "revoked"]
    <3>1. x \in UseRecord /\ x.at = "idle" /\ x.kind = use[u].kind /\ x.remote = use[u].remote
      BY ZenonT(60)
    <3>2. UseIs(u, x) /\ use[u].at = "mint" /\ TokenStep
      BY <1>2, <2>2 DEF Mint
    <3> HIDE DEF x, UseRecord
    <3> QED BY <3>1, <3>2
  <2> QED BY <1>2, <2>1, <2>2 DEF Mint
<1>3. CASE Date(u)
  <2>1. CASE UseIs(u, [use[u] EXCEPT !.at = "operate", !.record = "dated"])
    BY <1>3, <2>1, ZenonT(60) DEF Date
  <2>2. CASE Goes(u, "cleanup")
    BY <1>3, <2>2 DEF Date, Goes
  <2> QED BY <1>3, <2>1, <2>2 DEF Date
<1>4. CASE OperationReturns(u)
  BY <1>4 DEF OperationReturns, Goes
<1>5. CASE OperationAmbiguous(u)
  <2>1. PICK record \in {"tight", "dated"}, left \in BOOLEAN :
           /\ left => use[u].kind = "use"
           /\ UseIs(u, [use[u] EXCEPT !.at = "cleanup", !.remote = left, !.preserve = TRUE,
                                      !.record = record])
    BY <1>5, ZenonT(60) DEF OperationAmbiguous
  <2>1a. use[u].at = "operate" /\ TokenStep
    BY <1>5, Zenon DEF OperationAmbiguous
  <2> DEFINE x == [use[u] EXCEPT !.at = "cleanup", !.remote = left, !.preserve = TRUE, !.record = record]
  <2>2. /\ x \in UseRecord /\ x.at = "cleanup" /\ x.kind = use[u].kind /\ x.record = record
        /\ x.lease = use[u].lease /\ x.preserve /\ x.remote = left
    BY ZenonT(60)
  <2>3. UseIs(u, x) /\ (left => use[u].kind = "use")
    BY <2>1
  <2> HIDE DEF x, UseRecord
  <2>4. SoundUse(x) /\ (unguarded \/ GuardedUse(x, closed))
    BY <2>1a, <2>2, <2>3
  <2> QED BY <2>1a, <2>2, <2>3, <2>4
<1>5a. CASE OperationDropped(u)
  <2> DEFINE x == [use[u] EXCEPT !.at = "cleanup", !.remote = TRUE, !.dropped = TRUE]
  <2>1. /\ x \in UseRecord /\ x.at = "cleanup" /\ x.kind = use[u].kind /\ x.record = use[u].record
        /\ x.lease = use[u].lease /\ x.dropped
    BY ZenonT(60)
  <2>2. UseIs(u, x) /\ use[u].at = "operate" /\ use[u].kind = "use" /\ TokenStep
    BY <1>5a DEF OperationDropped
  <2> HIDE DEF x, UseRecord
  <2> QED BY <2>1, <2>2
<1>6. CASE RevokeToken(u)
  <2>1. CASE UseIs(u, [use[u] EXCEPT !.at = "settle", !.token = "revoked"])
    <3> DEFINE x == [use[u] EXCEPT !.at = "settle", !.token = "revoked"]
    <3>1. /\ x \in UseRecord /\ x.at = "settle" /\ x.kind = use[u].kind /\ x.record = use[u].record
          /\ x.lease = use[u].lease /\ x.remote = use[u].remote /\ x.preserve = use[u].preserve
          /\ x.token = "revoked" /\ x.dropped = use[u].dropped
      BY ZenonT(60)
    <3>2. UseIs(u, x)
      BY <2>1
    <3> HIDE DEF x, UseRecord
    <3> QED BY <1>6, <3>1, <3>2 DEF RevokeToken
  <2>2. ASSUME NEW token \in {"live", "revoked"},
               UseIs(u, [use[u] EXCEPT !.at = "idle", !.lease = "none", !.token = token])
        PROVE  AuthorityInvariant'
    <3> DEFINE x == [use[u] EXCEPT !.at = "idle", !.lease = "none", !.token = token]
    <3>1. /\ x \in UseRecord /\ x.at = "idle" /\ x.kind = use[u].kind /\ x.record = use[u].record
          /\ x.remote = use[u].remote
      BY ZenonT(60)
    <3>2. UseIs(u, x)
      BY <2>2
    <3> HIDE DEF x, UseRecord
    <3> QED BY <1>6, <3>1, <3>2 DEF RevokeToken
  <2> QED BY <1>6, <2>1, <2>2 DEF RevokeToken
<1>7. CASE Settle(u)
  <2>1. CASE UseEnds(u)
    BY <1>7, <2>1, EndedUse DEF Settle
  <2>2. CASE /\ ~(use[u].preserve /\ use[u].remote)
             /\ UseIs(u, [use[u] EXCEPT
                   !.at = IF use[u].kind \in Syncs /\ ~use[u].preserve THEN "synced" ELSE "idle",
                   !.lease = IF use[u].kind \in Syncs /\ ~use[u].preserve THEN @ ELSE "none",
                   !.record = "revoked"])
    <3> DEFINE at == IF use[u].kind \in Syncs /\ ~use[u].preserve THEN "synced" ELSE "idle"
               lease == IF use[u].kind \in Syncs /\ ~use[u].preserve THEN use[u].lease ELSE "none"
               x == [use[u] EXCEPT !.at = at, !.lease = lease, !.record = "revoked"]
    <3>1. /\ x \in UseRecord /\ x.at = at /\ x.kind = use[u].kind /\ x.record = "revoked"
          /\ x.lease = lease /\ x.remote = use[u].remote /\ x.token = use[u].token
          /\ x.dropped = use[u].dropped /\ x.preserve = use[u].preserve
      <4>1. at \in {"synced", "idle"} /\ lease \in {"none", "shared", "exclusive"}
        OBVIOUS
      <4> HIDE DEF at, lease
      <4> QED BY <4>1, ZenonT(60)
    <3>2. UseIs(u, x)
      BY <2>2
    <3>3. use[u].at = "settle" /\ use[u].token = "revoked" /\ TokenStep
      BY <1>7 DEF Settle
    <3>4. use[u].remote => Severed(use[u]) /\ use[u].kind = "use"
      BY <2>2, <3>3
    <3> HIDE DEF x, UseRecord
    <3>5. ~Armed(x) /\ ~Recorded(x)
      BY <3>1, <3>4
    <3>6. SoundUse(x)
      BY <3>1, <3>4, <3>5
    <3>7. unguarded \/ GuardedUse(x, closed)
      BY <3>1, <3>3, <3>5
    <3> HIDE DEF at, lease, SoundUse, GuardedUse
    <3> QED BY <3>1, <3>2, <3>3, <3>6, <3>7
  <2> QED BY <1>7, <2>1, <2>2 DEF Settle
<1>8. CASE RemoteEnds(u)
  <2> DEFINE x == [use[u] EXCEPT !.remote = FALSE]
  <2>1. /\ x \in UseRecord /\ x.at = use[u].at /\ x.kind = use[u].kind /\ x.record = use[u].record
        /\ x.lease = use[u].lease /\ ~x.remote /\ x.token = use[u].token
    OBVIOUS
  <2>2. UseIs(u, x)
    BY <1>8 DEF RemoteEnds
  <2> HIDE DEF x, UseRecord
  <2> QED BY <1>8, <2>1, <2>2 DEF RemoteEnds
<1>9. CASE RecordExpires(u)
  <2> DEFINE token == IF use[u].record = "tight" THEN use[u].token ELSE "expired"
             x == [use[u] EXCEPT !.record = "expired", !.token = token]
  <2>1. token \in {"none", "live", "revoked", "expired"}
    OBVIOUS
  <2>2. UseIs(u, x)
    BY <1>9 DEF RecordExpires
  <2> HIDE DEF token
  <2>3. /\ x \in UseRecord /\ x.at = use[u].at /\ x.kind = use[u].kind /\ x.record = "expired"
        /\ x.remote = use[u].remote
    BY <2>1, ZenonT(60)
  <2> HIDE DEF x, UseRecord
  <2> QED BY <1>9, <2>2, <2>3 DEF RecordExpires
<1> QED BY <1>1, <1>2, <1>3, <1>4, <1>5, <1>5a, <1>6, <1>7, <1>8, <1>9

\* A revocation is reported complete when nobody has a lock and no record is
\* outstanding: then nobody is past the check.
LEMMA RevocationKeepsAuthority ==
    ASSUME AuthorityInvariant,
           (\E kind \in {"disconnect", "suspend"} : RevokeAuthority(kind)) \/ ProviderChanges
    PROVE  AuthorityInvariant'
<1>1. ASSUME NEW kind \in {"disconnect", "suspend"}, RevokeAuthority(kind)
      PROVE  AuthorityInvariant'
  <2>1. AuthorityTypeOK' /\ Revocations' /\ UNCHANGED <<use, unguarded>>
    BY <1>1 DEF RevokeAuthority, AuthorityInvariant, AuthorityTypeOK, Revocations
  <2>2. ASSUME NEW u \in Uses, ~unguarded PROVE GuardedUse(use'[u], closed')
    <3>1. GuardedUse(use[u], closed) /\ SoundUse(use[u])
      BY <2>2 DEF AuthorityInvariant
    <3>2. use[u] \in UseRecord /\ use[u].lease = "none"
      BY <1>1 DEF RevokeAuthority, Holders, AuthorityInvariant, AuthorityTypeOK, UseRecord
    <3>3. CASE Outstanding
      BY <1>1, <2>1, <3>1, <3>2, <3>3 DEF RevokeAuthority, GuardedUse
    <3>4. CASE ~Outstanding
      BY <1>1, <2>1, <3>1, <3>2, <3>4
         DEF RevokeAuthority, GuardedUse, SoundUse, Recorded, Armed, Severed, Outstanding, Syncs
    <3> QED BY <3>3, <3>4
  <2> QED BY <2>1, <2>2 DEF AuthorityInvariant
<1>2. CASE ProviderChanges
  BY <1>2 DEF ProviderChanges, AuthorityInvariant, AuthorityTypeOK, Revocations, GuardedUse
<1> QED BY <1>1, <1>2

(* For any number of uses in any number of processes: a disconnect or a        *)
(* suspension that was reported complete has ended every use of a token, the   *)
(* ones a lost lock or a dead process left behind included, and what a helper  *)
(* nobody was told of can still do is done with a revoked token                *)
(* (token_use.go:104-199, repository.go:570-640).                              *)
THEOREM DisconnectIsEffective == AuthoritySpec => []DisconnectEndsTokenUse
<1>1. AuthorityInvariant /\ [AuthorityNext]_authorityVars => AuthorityInvariant'
  <2> SUFFICES ASSUME AuthorityInvariant, [AuthorityNext]_authorityVars PROVE AuthorityInvariant'
    OBVIOUS
  <2>1. CASE UNCHANGED authorityVars
    BY <2>1 DEF authorityVars, AuthorityInvariant, AuthorityTypeOK, Revocations, GuardedUse
  <2> QED BY <2>1, LocksKeepAuthority, ChecksKeepAuthority, TokenStepsKeepAuthority, RevocationKeepsAuthority
          DEF AuthorityNext
<1>2. AuthorityInvariant => DisconnectEndsTokenUse
  BY DEF AuthorityInvariant, DisconnectEndsTokenUse, GuardedUse, Recorded, Armed, Severed
<1> QED BY AuthorityStarts, <1>1, <1>2, PTL DEF AuthoritySpec

-----------------------------------------------------------------------------
(* GitIndex *)

\* Commits are numbered as they are made, so that the next number is free.
LEMMA FreshIsNew ==
    ASSUME GitIndexTypeOK
    PROVE  \E k \in 0..MaxCommits : Made = 0..k /\ Fresh = k + 1
<1>1. PICK k \in 0..MaxCommits : Made = 0..k
  BY DEF GitIndexTypeOK
<1>2. Cardinality(0..k) = k + 1
  BY GitIndexAssumption, FS_Interval
<1> QED BY <1>1, <1>2 DEF Fresh

LEMMA GitIndexStarts == GitIndexInit => GitIndexInvariant
<1> SUFFICES ASSUME GitIndexInit PROVE GitIndexInvariant
  OBVIOUS
<1>1. Made = {0} /\ commits[0] = [secret |-> FALSE, parent |-> 0, reach |-> {0}]
  BY DEF GitIndexInit, Made
<1>2. Made = 0..0 /\ 0 \in 0..MaxCommits /\ 0 \in 0..MaxWrites
  BY <1>1, GitIndexAssumption
<1>3. commits \in [Made -> CommitRecord]
  BY <1>1 DEF GitIndexInit, CommitRecord
<1>4. NoNative \in NativeRecord
  BY <1>1 DEF NoNative, NativeRecord
<1>5. GitIndexTypeOK
  BY <1>1, <1>2, <1>3, <1>4 DEF GitIndexInit, GitIndexTypeOK
<1>6. OnlyScannedIsPublished
  BY <1>1 DEF GitIndexInit, OnlyScannedIsPublished, Reach
<1>7. \A n \in Natives : native[n] = NoNative
  BY DEF GitIndexInit
<1> QED BY <1>5, <1>6, <1>7 DEF GitIndexInit, GitIndexInvariant, SoundNative, SoundLock, NoNative, Unlocked

\* What a commit is never changes, and what it reaches neither.
LEMMA CommitsAreKept ==
    ASSUME GitIndexTypeOK, Fresh <= MaxCommits, NEW secret \in BOOLEAN, NEW parent \in Made,
           NewCommit(secret, parent)
    PROVE  /\ Made' = Made \cup {Fresh} /\ Fresh \notin Made /\ Fresh \in Made'
           /\ \E k \in 0..MaxCommits : Made' = 0..k
           /\ commits' \in [Made' -> CommitRecord']
           /\ \A c \in Made : commits'[c] = commits[c]
           /\ commits'[Fresh].parent = parent
<1>1. PICK k \in 0..MaxCommits : Made = 0..k /\ Fresh = k + 1
  BY FreshIsNew
<1>2. Made' = Made \cup {Fresh} /\ Fresh \notin Made
  BY <1>1 DEF NewCommit, Made
<1>3. Made' = 0..(k + 1) /\ k + 1 \in 0..MaxCommits
  BY <1>1, <1>2, GitIndexAssumption
<1>4. /\ \A c \in Made : commits'[c] = commits[c]
      /\ commits'[Fresh] = [secret |-> secret, parent |-> parent, reach |-> Reach(parent) \cup {Fresh}]
  BY <1>2 DEF NewCommit, Made
<1>5. \A c \in Made : commits[c] \in CommitRecord
  BY DEF GitIndexTypeOK
<1>6. Reach(parent) \subseteq Made
  BY <1>5 DEF Reach, CommitRecord
<1>7. commits'[Fresh] \in CommitRecord'
  BY <1>2, <1>4, <1>6 DEF CommitRecord
<1>8. \A c \in Made : commits'[c] \in CommitRecord'
  BY <1>2, <1>4, <1>5 DEF CommitRecord
<1>9. commits' \in [Made' -> CommitRecord']
  BY <1>2, <1>7, <1>8 DEF NewCommit, Made
<1> QED BY <1>2, <1>3, <1>4, <1>9

\* A commit is made, and at most the record of one operation changes.
LEMMA CommitKeepsGit ==
    ASSUME GitIndexInvariant, Fresh <= MaxCommits, NEW secret \in BOOLEAN, NEW parent \in Made,
           NewCommit(secret, parent), UNCHANGED <<index, lock, remote, writing, writes>>, tip' \in Made',
           native' \in [Natives -> NativeRecord'],
           \A n \in Natives : \/ native'[n] = native[n]
                              \/ /\ native'[n].at = "update" /\ native'[n].since = native[n].since
                                 /\ native'[n].commit = Fresh /\ native'[n].base = parent
    PROVE  GitIndexInvariant'
<1>1. /\ Made' = Made \cup {Fresh} /\ \E k \in 0..MaxCommits : Made' = 0..k
      /\ commits' \in [Made' -> CommitRecord'] /\ \A c \in Made : commits'[c] = commits[c]
      /\ commits'[Fresh].parent = parent
  BY CommitsAreKept DEF GitIndexInvariant
<1>2. GitIndexTypeOK'
  BY <1>1 DEF GitIndexInvariant, GitIndexTypeOK, Unlocked
<1>3. \A c \in Made : commits[c].reach \subseteq Made
  BY DEF GitIndexInvariant, GitIndexTypeOK, CommitRecord
<1>4. OnlyScannedIsPublished'
  BY <1>1, <1>3 DEF GitIndexInvariant, GitIndexTypeOK, OnlyScannedIsPublished, Reach
<1>5. ASSUME NEW n \in Natives PROVE SoundNative(native[n])' /\ SoundLock(n)'
  <2>1. native[n] \in NativeRecord
    BY DEF GitIndexInvariant, GitIndexTypeOK
  <2>2. CASE native'[n] = native[n]
    BY <1>1, <1>3, <2>1, <2>2, SMTT(60) DEF GitIndexInvariant, SoundNative, SoundLock, Reach, NativeRecord
  <2>3. CASE /\ native'[n].at = "update" /\ native'[n].since = native[n].since
             /\ native'[n].commit = Fresh /\ native'[n].base = parent
    BY <1>1, <2>3 DEF GitIndexInvariant, SoundNative, SoundLock
  <2> QED BY <2>2, <2>3
<1> QED BY <1>2, <1>4, <1>5 DEF GitIndexInvariant

\* No operation is under way: nothing is claimed of the record.
LEMMA NoNativeIsSound ==
    ASSUME GitIndexInvariant
    PROVE  /\ NoNative \in NativeRecord /\ SoundNative(NoNative)
           /\ NoNative.at = "idle" /\ NoNative.since = {} /\ 0 \in Made
<1>1. 0 \in Made
  BY GitIndexAssumption DEF GitIndexInvariant, GitIndexTypeOK
<1> QED BY <1>1 DEF NoNative, NativeRecord, SoundNative

\* What other operations do to one that works on its copy.
LEMMA ToldFacts ==
    ASSUME NEW m \in Natives, native[m] \in NativeRecord, NEW events \in SUBSET Events, NEW x, x = Told(m, events)
    PROVE  /\ x \in NativeRecord
           /\ x.at = native[m].at /\ x.base = native[m].base /\ x.commit = native[m].commit
           /\ native[m].since \subseteq x.since /\ x.since \subseteq native[m].since \cup events
           /\ native[m].at = "rename" /\ m \in lock /\ "robbed" \in events => "robbed" \in x.since
<1> DEFINE here == IF native[m].at \in Copied THEN {"pulled", "rewritten"} ELSE {}
           gap == IF native[m].at = "rename" /\ m \in lock THEN {"robbed"} ELSE {}
           now == native[m].since \cup (events \cap (here \cup gap))
<1>1. now \in SUBSET Events
  BY DEF NativeRecord
<1>2. x = [native[m] EXCEPT !.since = now]
  BY DEF Told
<1>3. /\ native[m].since \subseteq now /\ now \subseteq native[m].since \cup events
      /\ native[m].at = "rename" /\ m \in lock /\ "robbed" \in events => "robbed" \in now
  OBVIOUS
<1> HIDE DEF now
<1> QED BY <1>1, <1>2, <1>3 DEF NativeRecord

\* The lock file goes, by a rename or a removal, or a pull writes the index and
\* leaves the lock: whoever is about to rename a lock file is robbed of it.
LEMMA PassingKeepsGit ==
    ASSUME GitIndexInvariant, NEW n, NEW events \in SUBSET Events, Passes(n, events),
           UNCHANGED <<commits, remote, writes>>, tip' \in Made, index' \in BOOLEAN, writing' \in BOOLEAN,
           \/ lock' = Unlocked /\ "robbed" \in events
           \/ lock' = lock /\ "rewritten" \notin events
    PROVE  GitIndexInvariant'
<1>1. UNCHANGED <<Made, CommitRecord, NativeRecord>>
  BY DEF Made, CommitRecord, NativeRecord
<1>2. ASSUME NEW m \in Natives
      PROVE  native'[m] \in NativeRecord /\ SoundNative(native[m])' /\ SoundLock(m)'
  <2>1. native[m] \in NativeRecord /\ SoundNative(native[m]) /\ SoundLock(m)
    BY DEF GitIndexInvariant, GitIndexTypeOK
  <2>2. CASE m = n
    <3>1. native'[m] = NoNative
      BY <2>2 DEF Passes
    <3> QED BY <3>1, NoNativeIsSound DEF SoundNative, SoundLock
  <2>3. CASE m # n
    <3>1. native'[m] = Told(m, events)
      BY <2>3 DEF Passes
    <3>2. /\ native'[m] \in NativeRecord
          /\ native'[m].at = native[m].at /\ native'[m].base = native[m].base
          /\ native'[m].commit = native[m].commit
          /\ native[m].since \subseteq native'[m].since /\ native'[m].since \subseteq native[m].since \cup events
          /\ native[m].at = "rename" /\ m \in lock /\ "robbed" \in events => "robbed" \in native'[m].since
      BY <2>1, <3>1, ToldFacts
    <3>3. SoundNative(native[m])'
      BY <2>1, <3>2 DEF SoundNative, Reach
    <3>4. SoundLock(m)'
      BY <2>1, <3>2 DEF SoundLock, Unlocked
    <3> QED BY <3>2, <3>3, <3>4
  <2> QED BY <2>2, <2>3
<1>3. native' \in [Natives -> NativeRecord]
  BY <1>2 DEF Passes
<1>4. GitIndexTypeOK'
  BY <1>1, <1>3 DEF GitIndexInvariant, GitIndexTypeOK, Unlocked
<1> QED BY <1>2, <1>4 DEF GitIndexInvariant, OnlyScannedIsPublished, Reach

\* index.lock becomes the index.
LEMMA IndexWriteKeepsGit ==
    ASSUME GitIndexInvariant, NEW secret \in BOOLEAN, NEW h, ReplaceIndex(secret, h),
           UNCHANGED <<commits, tip, remote, writes>>, writing' \in BOOLEAN
    PROVE  GitIndexInvariant'
<1>1. Passes(h, {"rewritten", "robbed"}) /\ lock' = Unlocked /\ index' \in BOOLEAN
  BY DEF ReplaceIndex
<1>2. tip' \in Made
  BY DEF GitIndexInvariant, GitIndexTypeOK
<1> DEFINE events == {"rewritten", "robbed"}
<1>3. events \in SUBSET Events /\ "robbed" \in events /\ Passes(h, events)
  BY <1>1 DEF Events
<1> HIDE DEF events
<1> QED BY <1>1, <1>2, <1>3, PassingKeepsGit

\* One operation moves on, and the index stays as it is.
LEMMA NativeMoveKeepsGit ==
    ASSUME GitIndexInvariant, NEW n \in Natives, NEW x \in NativeRecord, NativeIs(n, x), SoundNative(x),
           UNCHANGED <<index, commits, writing, writes>>, tip' \in Made, remote' \in Made, OnlyScannedIsPublished',
           lock' = lock \/ (lock = Unlocked /\ lock' = {n}),
           n \in lock' => "rewritten" \notin x.since,
           x.at = "rename" => n \in lock' \/ "robbed" \in x.since
    PROVE  GitIndexInvariant'
<1>1. UNCHANGED <<Made, CommitRecord, NativeRecord>>
  BY DEF Made, CommitRecord, NativeRecord
<1>2. native' \in [Natives -> NativeRecord] /\ native'[n] = x /\ \A m \in Natives \ {n} : native'[m] = native[m]
  BY DEF NativeIs, GitIndexInvariant, GitIndexTypeOK
<1>3. lock' = Unlocked \/ \E h \in Natives \cup {Shell} : lock' = {h}
  BY DEF GitIndexInvariant, GitIndexTypeOK, Unlocked
<1>4. GitIndexTypeOK'
  BY <1>1, <1>2, <1>3 DEF GitIndexInvariant, GitIndexTypeOK, Unlocked
<1>5. ASSUME NEW m \in Natives PROVE SoundNative(native[m])' /\ SoundLock(m)'
  BY <1>2 DEF GitIndexInvariant, SoundNative, SoundLock, Reach, Unlocked
<1> QED BY <1>4, <1>5 DEF GitIndexInvariant

\* An operation ends, and may have found that the lock file is its own.
LEMMA EndingKeepsGit ==
    ASSUME GitIndexInvariant, NEW n \in Natives, NativeIs(n, NoNative) \/ Ends(n),
           UNCHANGED <<index, lock, commits, remote, writing, writes>>, tip' \in Made
    PROVE  GitIndexInvariant'
<1>1. OnlyScannedIsPublished' /\ remote' \in Made
  BY DEF GitIndexInvariant, GitIndexTypeOK, OnlyScannedIsPublished, Reach
<1> DEFINE x == [NoNative EXCEPT !.at = "close"]
<1>2. x \in NativeRecord /\ x.at = "close" /\ x.since = {}
  BY NoNativeIsSound DEF NoNative, NativeRecord
<1>3. NativeIs(n, NoNative) \/ NativeIs(n, x)
  BY DEF Ends
<1> HIDE DEF x
<1>4. SoundNative(x)
  BY <1>2 DEF SoundNative
<1>5. CASE NativeIs(n, NoNative)
  BY <1>1, <1>5, NoNativeIsSound, NativeMoveKeepsGit
<1>6. CASE NativeIs(n, x)
  BY <1>1, <1>2, <1>4, <1>6, NativeMoveKeepsGit
<1> QED BY <1>3, <1>5, <1>6

\* Stage.
LEMMA StagingKeepsGit ==
    ASSUME GitIndexInvariant, NEW n \in Natives,
           \/ \E op0 \in {"stage", "commit"} : BeginSnapshot(n, op0)
           \/ \E s \in BOOLEAN : ScanStage(n, s)
           \/ Install(n) \/ Rename(n) \/ RemoveLock(n) \/ Unstage(n)
    PROVE  GitIndexInvariant'
<1>0. /\ native[n] \in NativeRecord /\ SoundNative(native[n]) /\ SoundLock(n)
      /\ tip \in Made /\ remote \in Made /\ index \in BOOLEAN /\ writing \in BOOLEAN
      /\ commits[tip].secret \in BOOLEAN
  BY DEF GitIndexInvariant, GitIndexTypeOK, CommitRecord
<1>1. ASSUME UNCHANGED <<commits, remote>> PROVE OnlyScannedIsPublished'
  BY <1>1 DEF GitIndexInvariant, OnlyScannedIsPublished, Reach
<1>2. ASSUME NEW op0 \in {"stage", "commit"}, BeginSnapshot(n, op0) PROVE GitIndexInvariant'
  <2> DEFINE x == [NoNative EXCEPT !.at = "scan", !.op = op0, !.snap = index]
  <2>1. x \in NativeRecord /\ x.at = "scan" /\ x.since = {}
    BY <1>0, NoNativeIsSound DEF NoNative, NativeRecord, Copied
  <2>2. NativeIs(n, x)
    BY <1>2 DEF BeginSnapshot
  <2> HIDE DEF x
  <2>3. SoundNative(x)
    BY <2>1 DEF SoundNative
  <2> QED BY <1>0, <1>1, <1>2, <2>1, <2>2, <2>3, NativeMoveKeepsGit DEF BeginSnapshot
<1>3. ASSUME NEW s \in BOOLEAN, ScanStage(n, s) PROVE GitIndexInvariant'
  <2>1. CASE s
    BY <1>0, <1>3, <2>1, EndingKeepsGit DEF ScanStage
  <2>2. CASE ~s
    <3> DEFINE x == [native[n] EXCEPT !.at = "install", !.snap = FALSE]
    <3>1. x \in NativeRecord /\ x.at = "install" /\ x.since = native[n].since
      BY <1>0 DEF NativeRecord, Copied
    <3>2. NativeIs(n, x)
      BY <1>3, <2>2 DEF ScanStage
    <3> HIDE DEF x
    <3>3. SoundNative(x) /\ (n \in lock => "rewritten" \notin x.since)
      BY <1>0, <3>1 DEF SoundNative, SoundLock
    <3> QED BY <1>0, <1>1, <1>3, <3>1, <3>2, <3>3, NativeMoveKeepsGit DEF ScanStage
  <2> QED BY <2>1, <2>2
<1>4. CASE Install(n)
  <2>1. CASE lock = {n}
    <3> DEFINE x == [native[n] EXCEPT !.at = "rename"]
    <3>1. x \in NativeRecord /\ x.at = "rename" /\ x.since = native[n].since
      BY <1>0 DEF NativeRecord, Copied
    <3>2. NativeIs(n, x)
      BY <1>4, <2>1 DEF Install
    <3> HIDE DEF x
    <3>3. SoundNative(x) /\ "rewritten" \notin x.since
      BY <1>0, <2>1, <3>1 DEF SoundNative, SoundLock
    <3> QED BY <1>0, <1>1, <1>4, <2>1, <3>1, <3>2, <3>3, NativeMoveKeepsGit DEF Install
  <2>2. CASE lock # {n}
    BY <1>0, <1>4, <2>2, EndingKeepsGit DEF Install
  <2> QED BY <2>1, <2>2
<1>5. CASE Rename(n)
  <2>1. native[n].snap \in BOOLEAN
    BY <1>0 DEF NativeRecord
  <2>2. CASE lock = Unlocked /\ NativeIs(n, NoNative) /\ UNCHANGED <<index, lock>>
    BY <1>0, <1>5, <2>2, EndingKeepsGit DEF Rename
  <2>3. ASSUME NEW s \in BOOLEAN, ReplaceIndex(s, n) PROVE GitIndexInvariant'
    BY <1>0, <1>5, <2>3, IndexWriteKeepsGit DEF Rename
  <2> QED BY <1>5, <2>1, <2>2, <2>3 DEF Rename
<1>6. CASE RemoveLock(n)
  <2> DEFINE events == {"robbed"}
  <2>1. events \in SUBSET Events /\ "robbed" \in events /\ Passes(n, events)
    BY <1>6 DEF RemoveLock, Events
  <2> HIDE DEF events
  <2> QED BY <1>0, <1>6, <2>1, PassingKeepsGit DEF RemoveLock
<1>7. CASE Unstage(n)
  BY <1>0, <1>7, IndexWriteKeepsGit DEF Unstage
<1> QED BY <1>2, <1>3, <1>4, <1>5, <1>6, <1>7

\* CommitAs.
LEMMA CommittingKeepsGit ==
    ASSUME GitIndexInvariant, NEW n \in Natives, ScanCommit(n) \/ CommitTree(n) \/ UpdateRef(n)
    PROVE  GitIndexInvariant'
<1>0. /\ native[n] \in NativeRecord /\ SoundNative(native[n]) /\ SoundLock(n) /\ tip \in Made /\ remote \in Made
  BY DEF GitIndexInvariant, GitIndexTypeOK
<1>1. CASE ScanCommit(n)
  <2>1. CASE native[n].snap
    BY <1>0, <1>1, <2>1, EndingKeepsGit DEF ScanCommit
  <2>2. CASE ~native[n].snap
    <3> DEFINE x == [native[n] EXCEPT !.at = "commit", !.base = tip]
    <3>1. x \in NativeRecord /\ x.at = "commit" /\ x.since = native[n].since
      BY <1>0 DEF NativeRecord, Copied
    <3>2. NativeIs(n, x)
      BY <1>1, <2>2 DEF ScanCommit
    <3> HIDE DEF x
    <3>3. SoundNative(x) /\ (n \in lock => "rewritten" \notin x.since)
      BY <1>0, <3>1 DEF SoundNative, SoundLock
    <3>4. OnlyScannedIsPublished'
      BY <1>1 DEF ScanCommit, GitIndexInvariant, OnlyScannedIsPublished, Reach
    <3> QED BY <1>0, <1>1, <3>1, <3>2, <3>3, <3>4, NativeMoveKeepsGit DEF ScanCommit
  <2> QED BY <2>1, <2>2
<1>2. CASE CommitTree(n)
  <2> DEFINE x == [native[n] EXCEPT !.at = "update", !.commit = Fresh]
  <2>1. native[n].base \in Made
    BY <1>0 DEF NativeRecord
  <2>2. Made' = Made \cup {Fresh}
    BY <1>2, <2>1, CommitsAreKept DEF CommitTree, GitIndexInvariant
  <2>3. \A m \in Natives : native[m] \in NativeRecord'
    BY <2>2 DEF GitIndexInvariant, GitIndexTypeOK, NativeRecord
  <2>4. x \in NativeRecord' /\ x.at = "update" /\ x.commit = Fresh /\ x.base = native[n].base /\ x.since = native[n].since
    BY <1>0, <2>2 DEF NativeRecord, Copied
  <2>5. native' = [native EXCEPT ![n] = x]
    BY <1>2 DEF CommitTree, NativeIs
  <2> HIDE DEF x
  <2>6. /\ native' \in [Natives -> NativeRecord'] /\ native'[n] = x
        /\ \A m \in Natives \ {n} : native'[m] = native[m]
    BY <2>3, <2>4, <2>5 DEF GitIndexInvariant, GitIndexTypeOK
  <2>7. tip' \in Made'
    BY <1>0, <1>2, <2>2 DEF CommitTree
  <2> QED BY <1>2, <2>1, <2>4, <2>6, <2>7, CommitKeepsGit DEF CommitTree
<1>3. CASE UpdateRef(n)
  <2>1. tip' \in Made
    BY <1>0, <1>3 DEF UpdateRef, NativeRecord
  <2> QED BY <1>3, <2>1, EndingKeepsGit DEF UpdateRef
<1> QED BY <1>1, <1>2, <1>3

LEMMA TransfersKeepGit ==
    ASSUME GitIndexInvariant, NEW n \in Natives,
           ScanPush(n) \/ Push(n) \/ PullFetches(n) \/ PullMoves(n) \/ PullWritesIndex(n) \/ NativeFails(n)
    PROVE  GitIndexInvariant'
<1>0. /\ native[n] \in NativeRecord /\ SoundNative(native[n]) /\ SoundLock(n)
      /\ tip \in Made /\ remote \in Made /\ writing \in BOOLEAN
      /\ \A c \in Made : commits[c].secret \in BOOLEAN
  BY DEF GitIndexInvariant, GitIndexTypeOK, CommitRecord
<1>1. native[n].base \in Made /\ native[n].commit \in Made
  BY <1>0 DEF NativeRecord
<1>2. ASSUME UNCHANGED <<commits, remote>> PROVE OnlyScannedIsPublished'
  BY <1>2 DEF GitIndexInvariant, OnlyScannedIsPublished, Reach
<1>3. CASE ScanPush(n)
  <2> DEFINE x == [NoNative EXCEPT !.at = "push", !.op = "push", !.commit = tip]
  <2>1. x \in NativeRecord /\ x.at = "push" /\ x.commit = tip /\ x.since = {}
    BY <1>0, NoNativeIsSound DEF NoNative, NativeRecord
  <2>2. NativeIs(n, x)
    BY <1>3 DEF ScanPush
  <2> HIDE DEF x
  <2>3. SoundNative(x)
    BY <1>3, <2>1 DEF ScanPush, SoundNative, GitIndexInvariant, OnlyScannedIsPublished
  <2> QED BY <1>0, <1>2, <1>3, <2>1, <2>2, <2>3, NativeMoveKeepsGit DEF ScanPush
<1>4. CASE Push(n)
  <2>1. remote' \in Made
    BY <1>0, <1>1, <1>4 DEF Push
  <2>2. OnlyScannedIsPublished'
    BY <1>0, <1>4 DEF Push, SoundNative, GitIndexInvariant, OnlyScannedIsPublished, Reach
  <2> QED BY <1>0, <1>4, <2>1, <2>2, NoNativeIsSound, NativeMoveKeepsGit DEF Push
<1>5. CASE PullFetches(n)
  <2> DEFINE x == [NoNative EXCEPT !.at = "pull", !.op = "pull", !.base = tip, !.commit = remote]
  <2>1. x \in NativeRecord /\ x.at = "pull" /\ x.base = tip /\ x.commit = remote /\ x.since = {}
    BY <1>0, NoNativeIsSound DEF NoNative, NativeRecord
  <2>2. NativeIs(n, x)
    BY <1>5 DEF PullFetches
  <2> HIDE DEF x
  <2>3. SoundNative(x)
    BY <1>5, <2>1 DEF PullFetches, SoundNative
  <2> QED BY <1>0, <1>2, <1>5, <2>1, <2>2, <2>3, NativeMoveKeepsGit DEF PullFetches
<1>6. CASE PullMoves(n)
  <2> DEFINE p == IF native[n].at = "pull" THEN "reset" ELSE "write"
             x == [native[n] EXCEPT !.at = p]
  <2>1. p \in {"reset", "write"} /\ (p = "reset" => native[n].at = "pull")
    OBVIOUS
  <2>2. NativeIs(n, x)
    BY <1>6 DEF PullMoves
  <2> HIDE DEF p
  <2>3. /\ x \in NativeRecord /\ x.at = p /\ x.base = native[n].base /\ x.commit = native[n].commit
        /\ x.since = native[n].since
    BY <1>0, <2>1 DEF NativeRecord
  <2> HIDE DEF x
  <2>4. SoundNative(x) /\ (n \in lock => "rewritten" \notin x.since) /\ x.at # "rename"
    BY <1>0, <2>1, <2>3 DEF SoundNative, SoundLock
  <2> QED BY <1>0, <1>1, <1>2, <1>6, <2>2, <2>3, <2>4, NativeMoveKeepsGit DEF PullMoves
<1>7. CASE PullWritesIndex(n)
  <2> DEFINE events == {"pulled"}
  <2>1. events \in SUBSET Events /\ "rewritten" \notin events /\ Passes(n, events)
    BY <1>7 DEF PullWritesIndex, Events
  <2>2. index' \in BOOLEAN /\ tip' \in Made /\ writing' \in BOOLEAN
    BY <1>0, <1>1, <1>7 DEF PullWritesIndex
  <2> HIDE DEF events
  <2> QED BY <1>7, <2>1, <2>2, PassingKeepsGit DEF PullWritesIndex
<1>8. CASE NativeFails(n)
  BY <1>0, <1>8, EndingKeepsGit DEF NativeFails
<1> QED BY <1>3, <1>4, <1>5, <1>6, <1>7, <1>8

LEMMA TerminalKeepsGit ==
    ASSUME GitIndexInvariant, ShellStep
    PROVE  GitIndexInvariant'
<1>0. tip \in Made /\ writing \in BOOLEAN /\ index \in BOOLEAN
  BY DEF GitIndexInvariant, GitIndexTypeOK
<1>1. ASSUME UNCHANGED <<index, commits, remote, native>>, tip' \in Made, writes' \in 0..MaxWrites,
             writing' \in BOOLEAN, lock' = lock \/ (lock = Unlocked /\ lock' = {Shell})
      PROVE  GitIndexInvariant'
  <2>1. UNCHANGED <<Made, CommitRecord, NativeRecord>>
    BY <1>1 DEF Made, CommitRecord, NativeRecord
  <2>2. lock' = Unlocked \/ \E h \in Natives \cup {Shell} : lock' = {h}
    BY <1>1 DEF GitIndexInvariant, GitIndexTypeOK
  <2>3. GitIndexTypeOK'
    BY <1>1, <2>1, <2>2 DEF GitIndexInvariant, GitIndexTypeOK
  <2>4. \A n \in Natives : n \in lock' <=> n \in lock
    BY <1>1, GitIndexAssumption DEF Unlocked
  <2>5. \A n \in Natives : SoundNative(native[n])' /\ SoundLock(n)'
    BY <1>1, <2>4 DEF GitIndexInvariant, SoundNative, SoundLock, Reach
  <2> QED BY <1>1, <2>3, <2>5 DEF GitIndexInvariant, OnlyScannedIsPublished, Reach
<1>2. CASE ShellLocks
  <2>1. writes' \in 0..MaxWrites
    BY <1>2, GitIndexAssumption DEF ShellLocks, GitIndexInvariant, GitIndexTypeOK
  <2> QED BY <1>0, <1>1, <1>2, <2>1 DEF ShellLocks
<1>3. CASE ShellRemovesLock
  <2> DEFINE events == {"robbed"}
  <2>1. events \in SUBSET Events /\ "robbed" \in events /\ Passes(Shell, events)
    BY <1>3 DEF ShellRemovesLock, Events
  <2> HIDE DEF events
  <2> QED BY <1>0, <1>3, <2>1, PassingKeepsGit DEF ShellRemovesLock
<1>4. ASSUME NEW s \in BOOLEAN, ShellWrites(s) PROVE GitIndexInvariant'
  <2>1. CASE lock = Unlocked
    BY <1>0, <1>1, <1>4, <2>1 DEF ShellWrites, GitIndexInvariant, GitIndexTypeOK
  <2>2. CASE lock # Unlocked
    BY <1>4, <2>2, IndexWriteKeepsGit DEF ShellWrites
  <2> QED BY <2>1, <2>2
<1>5. ASSUME NEW s \in BOOLEAN, ShellCommits(s) PROVE GitIndexInvariant'
  <2>1. Made' = Made \cup {Fresh}
    BY <1>0, <1>5, CommitsAreKept DEF ShellCommits, GitIndexInvariant
  <2>2. native' \in [Natives -> NativeRecord']
    BY <1>5, <2>1 DEF ShellCommits, GitIndexInvariant, GitIndexTypeOK, NativeRecord
  <2> QED BY <1>0, <1>5, <2>1, <2>2, CommitKeepsGit DEF ShellCommits
<1>6. ASSUME NEW c \in 0..MaxCommits, ShellMovesBranch(c) PROVE GitIndexInvariant'
  BY <1>0, <1>1, <1>6 DEF ShellMovesBranch, GitIndexInvariant, GitIndexTypeOK
<1> QED BY <1>2, <1>3, <1>4, <1>5, <1>6 DEF ShellStep

LEMMA GitIndexIsInductive == GitIndexInvariant /\ [GitIndexNext]_gitVars => GitIndexInvariant'
<1> SUFFICES ASSUME GitIndexInvariant, [GitIndexNext]_gitVars PROVE GitIndexInvariant'
  OBVIOUS
<1>1. CASE UNCHANGED gitVars
  BY <1>1 DEF gitVars, GitIndexInvariant, GitIndexTypeOK, Made, CommitRecord, NativeRecord, SoundNative, SoundLock,
              OnlyScannedIsPublished, Reach
<1>2. ASSUME NEW n \in Natives, NativeStep(n) PROVE GitIndexInvariant'
  BY <1>2, StagingKeepsGit, CommittingKeepsGit, TransfersKeepGit DEF NativeStep
<1> QED BY <1>1, <1>2, TerminalKeepsGit DEF GitIndexNext

(* Whatever the terminal commits, resets or rewrites between a scan and a      *)
(* push, for any number of operations and commits, a secret is not published   *)
(* by a native push (Push, service.go:361-419).                                *)
THEOREM PushIsScanned == GitIndexSpec => []OnlyScannedIsPublished
<1>1. GitIndexInvariant => OnlyScannedIsPublished
  BY DEF GitIndexInvariant
<1> QED BY GitIndexStarts, GitIndexIsInductive, <1>1, PTL DEF GitIndexSpec

\* Only these steps move the branch.
LEMMA BranchMoves ==
    ASSUME GitIndexInvariant, GitIndexNext, NEW n \in Natives, native'[n] # native[n], tip' # tip
    PROVE  UpdateRef(n) \/ PullMoves(n)
<1>1. ASSUME ShellStep PROVE FALSE
  BY <1>1 DEF ShellStep, ShellLocks, ShellRemovesLock, ShellWrites, ShellCommits, ShellMovesBranch
<1>2. PICK m \in Natives : NativeStep(m)
  BY <1>1 DEF GitIndexNext
<1>3. UpdateRef(m) \/ PullMoves(m)
  BY <1>2 DEF NativeStep, BeginSnapshot, ScanStage, Install, Rename, RemoveLock, ScanCommit, CommitTree, Unstage,
     ScanPush, Push, PullFetches, PullWritesIndex, NativeFails
<1>4. \E x : native' = [native EXCEPT ![m] = x]
  BY <1>3 DEF UpdateRef, PullMoves, Ends, NativeIs
<1>5. m = n
  BY <1>4 DEF GitIndexInvariant, GitIndexTypeOK
<1> QED BY <1>3, <1>5

(* A native operation never overwrites what the terminal did since it looked:  *)
(* the lock with its identity check keeps the index it replaces the one it     *)
(* copied, and the compare-and-swap keeps the branch (index_transaction.go:    *)
(* 30-168, service.go:305).  The two gaps are in the statement: a lock taken   *)
(* away after the check, and what a pull writes without it.                    *)
THEOREM TerminalWorkIsKept == GitIndexSpec => NativeKeepsTerminalWork
<1> DEFINE Kept(n) ==
        /\ native[n].at = "rename" /\ native'[n] = NoNative /\ index' # index
            => \/ lock = {n} /\ "rewritten" \notin native[n].since
               \/ "robbed" \in native[n].since
        /\ native[n].at = "update" /\ native'[n] # native[n] /\ tip' # tip
            => commits[tip'].parent = tip
        /\ native[n].at \in {"pull", "reset"} /\ native'[n] # native[n] /\ tip' # tip
            => (tip = native[n].base => tip \in Reach(tip'))
<1>1. ASSUME GitIndexInvariant, GitIndexNext, NEW n \in Natives PROVE Kept(n)
  <2>1. SoundNative(native[n]) /\ SoundLock(n) /\ (lock = Unlocked \/ \E h \in Natives \cup {Shell} : lock = {h})
    BY <1>1 DEF GitIndexInvariant, GitIndexTypeOK
  <2>2. native[n].at = "rename" /\ native'[n] = NoNative /\ index' # index
            => \/ lock = {n} /\ "rewritten" \notin native[n].since
               \/ "robbed" \in native[n].since
    BY <2>1 DEF SoundLock, Unlocked
  <2>3. ASSUME native[n].at \in {"update", "pull", "reset"}, native'[n] # native[n], tip' # tip
        PROVE  /\ native[n].at = "update" => commits[tip'].parent = tip
               /\ native[n].at # "update" /\ tip = native[n].base => tip \in Reach(tip')
    <3>1. UpdateRef(n) \/ PullMoves(n)
      BY <1>1, <2>3, BranchMoves
    <3>2. CASE UpdateRef(n)
      BY <2>1, <2>3, <3>2 DEF UpdateRef, SoundNative
    <3>3. CASE PullMoves(n)
      BY <2>1, <2>3, <3>3 DEF PullMoves, SoundNative
    <3> QED BY <3>1, <3>2, <3>3
  <2> QED BY <2>2, <2>3
<1>2. GitIndexInvariant /\ [GitIndexNext]_gitVars => [\A n \in Natives : Kept(n)]_gitVars
  BY <1>1
<1> QED BY GitIndexStarts, GitIndexIsInductive, <1>2, PTL DEF GitIndexSpec, NativeKeepsTerminalWork

-----------------------------------------------------------------------------
(* SecretGrants: the order of the gates *)

\* Every set of natural numbers that is not empty has a least element.
LEMMA LeastElement ==
    ASSUME NEW T \in SUBSET Nat, T # {}
    PROVE  \E m \in T : \A y \in T : m <= y
<1> DEFINE Below(x) == {y \in T : y < x}
           Family == {Below(x) : x \in T}
<1>1. ASSUME NEW x \in T PROVE IsFiniteSet(Below(x))
  <2>1. x \in Nat /\ \A y \in Below(x) : y \in 0..x
    OBVIOUS
  <2>2. Below(x) \in SUBSET (0..x)
    <3> HIDE DEF Below
    <3> QED BY <2>1
  <2>3. IsFiniteSet(0..x)
    BY <2>1, FS_Interval
  <2> HIDE DEF Below
  <2> QED BY <2>2, <2>3, FS_Subset
<1>2. Family \subseteq FiniteSubsetsOf(Nat) /\ Family # {}
  BY <1>1 DEF FiniteSubsetsOf
<1>3. PICK B \in Family : \A C \in Family : <<C, B>> \notin StrictSubsetOrdering(Nat)
  <2> HIDE DEF Family
  <2> QED BY <1>2, FS_StrictSubsetOrderingWellFounded, WFMin
<1>4. PICK m \in T : B = Below(m)
  OBVIOUS
<1>5. ASSUME NEW y \in T, y < m PROVE FALSE
  <2>0. Below(y) \subseteq Below(m)
    <3>1. \A z \in T : z < y => z < m
      BY <1>5
    <3> QED BY <3>1
  <2>1. Below(y) \in Family /\ y \in Below(m) /\ y \notin Below(y)
    BY <1>5
  <2>2. Below(y) \in SUBSET Nat /\ Below(m) \in SUBSET Nat
    OBVIOUS
  <2> HIDE DEF Below, Family
  <2>3. <<Below(y), Below(m)>> \in StrictSubsetOrdering(Nat)
    BY <2>0, <2>1, <2>2 DEF StrictSubsetOrdering
  <2> QED BY <1>3, <1>4, <2>1, <2>3
<1> QED BY <1>5

LEMMA MinIsLeast ==
    ASSUME NEW T \in SUBSET Spaces, T # {}
    PROVE  Min(T) \in T /\ \A y \in T : Min(T) <= y
<1>1. \E m \in T : \A y \in T : m <= y
  BY LeastElement, SecretGrantsAssumption DEF Spaces
<1> QED BY <1>1 DEF Min

LEMMA GreatestElement ==
    ASSUME NEW T \in SUBSET Spaces, T # {}
    PROVE  \E m \in T : \A y \in T : y <= m
<1> DEFINE D == {NumSpaces - y : y \in T}
<1>1. D \in SUBSET Nat /\ D # {}
  <2>1. ASSUME NEW y \in T
        PROVE  NumSpaces - y \in Nat
    BY SecretGrantsAssumption DEF Spaces
  <2> QED BY <2>1
<1>2. PICK d \in D : \A e \in D : d <= e
  <2> HIDE DEF D
  <2> QED BY <1>1, LeastElement
<1>3. PICK m \in T : d = NumSpaces - m
  OBVIOUS
<1>4. ASSUME NEW y \in T PROVE y <= m
  <2>1. NumSpaces - y \in D /\ y \in Int /\ m \in Int /\ NumSpaces \in Int
    BY SecretGrantsAssumption DEF Spaces
  <2>2. NumSpaces - m <= NumSpaces - y
    <3> HIDE DEF D
    <3> QED BY <1>2, <1>3, <2>1
  <2> HIDE DEF D
  <2> QED BY <2>1, <2>2
<1> QED BY <1>4

\* Operations whose gates are ordered do not wait in a circle: the one that
\* waits for the highest gate waits for an operation that wants a higher one.
LEMMA OrderedGates == GatesInvariant => GatesAreOrdered
<1> SUFFICES ASSUME GatesInvariant, NEW set \in (SUBSET Mutations) \ {{}},
                    \A o \in set :
                        /\ op[o].at = "lock"
                        /\ \A w \in LockOrder(op[o].want) : \E u \in set \ {o} : w \in op[u].held
             PROVE  FALSE
  BY DEF GatesAreOrdered
<1> DEFINE T == {Min(op[o].want) : o \in set}
<1>1. ASSUME NEW o \in set
      PROVE  /\ Min(op[o].want) \in op[o].want /\ Min(op[o].want) \in Spaces
             /\ \A h \in op[o].held : h < Min(op[o].want)
  <2>1. op[o].want \in SUBSET Spaces /\ op[o].want # {}
    BY DEF GatesInvariant, OpRecord, GateOrder
  <2>2. Min(op[o].want) \in op[o].want
    BY <2>1, MinIsLeast
  <2> HIDE DEF Min
  <2> QED BY <2>1, <2>2 DEF GatesInvariant, GateOrder
<1>2. PICK m \in T : \A y \in T : y <= m
  <2>1. \A y \in T : y \in Spaces
    BY <1>1
  <2>2. T # {}
    OBVIOUS
  <2> HIDE DEF T
  <2> QED BY <2>1, <2>2, GreatestElement
<1>3. PICK o \in set : m = Min(op[o].want)
  OBVIOUS
<1>4. PICK u \in set \ {o} : m \in op[u].held
  BY <1>3 DEF LockOrder
<1>5. m < Min(op[u].want) /\ Min(op[u].want) \in T
  BY <1>1, <1>4
<1>6. m \in Int /\ Min(op[u].want) \in Int
  BY <1>1, <1>3 DEF Spaces
<1> QED BY <1>2, <1>5, <1>6

LEMMA OpKeepsGates ==
    ASSUME GatesInvariant, NEW o \in Mutations, NEW x \in OpRecord, OpIs(o, x), GateOrder(x)
    PROVE  GatesInvariant'
BY DEF GatesInvariant, OpIs, GateOrder

LEMMA StepsKeepGates ==
    ASSUME GatesInvariant, [SecretGrantsNext]_grantVars
    PROVE  GatesInvariant'
<1> USE DEF OpRecord, GateOrder
<1>1. NoOp \in OpRecord /\ GateOrder(NoOp)
  BY DEF NoOp
<1>2. \A o \in Mutations : op[o] \in OpRecord /\ GateOrder(op[o])
  BY DEF GatesInvariant
<1>3. ASSUME NEW o \in Mutations, NEW s \in Secrets, NEW kind \in {"update", "delete"},
             BeginSecret(o, s, kind)
      PROVE  GatesInvariant'
  <2>1. Affected(s) \subseteq Spaces
    BY DEF Affected
  <2> QED BY <1>3, <2>1, OpKeepsGates DEF BeginSecret, Begins, NoOp
<1>4. ASSUME NEW o \in Mutations, NEW s \in Secrets, NEW w \in Spaces, NEW kind \in {"grant", "revoke"},
             BeginGrant(o, s, w, kind)
      PROVE  GatesInvariant'
  BY <1>4, OpKeepsGates DEF BeginGrant, Begins, NoOp
<1>5. ASSUME NEW o \in Mutations, NEW w \in Spaces, BeginLaunch(o, w)
      PROVE  GatesInvariant'
  BY <1>5, OpKeepsGates DEF BeginLaunch, Begins, NoOp
<1>6. ASSUME NEW o \in Mutations, Lock(o)
      PROVE  GatesInvariant'
  <2> DEFINE w == Min(op[o].want)
             a == IF op[o].want = {w} THEN "mutate" ELSE op[o].at
             left == op[o].want \ {w}
             taken == op[o].held \cup {w}
             x == [op[o] EXCEPT !.want = left, !.held = taken, !.at = a]
  <2>1. OpIs(o, x) /\ op[o].at = "lock"
    BY <1>6 DEF Lock, LockOrder
  <2>2. op[o].want \in SUBSET Spaces /\ op[o].want # {}
    BY <1>2, <2>1
  <2>3. w \in op[o].want /\ \A y \in op[o].want : w <= y
    BY <2>2, MinIsLeast
  <2> HIDE DEF w
  <2>4. x \in OpRecord /\ x.want = op[o].want \ {w} /\ x.held = op[o].held \cup {w}
        /\ x.at = IF op[o].want = {w} THEN "mutate" ELSE "lock"
    <3>1. op[o] \in OpRecord /\ op[o].at = "lock"
      BY <1>2, <2>1
    <3>2. w \in Spaces
      BY <2>2, <2>3
    <3>3. a = IF op[o].want = {w} THEN "mutate" ELSE "lock"
      BY <3>1
    <3>4. a \in {"lock", "mutate"} /\ left \in SUBSET Spaces /\ taken \in SUBSET Spaces
      BY <3>1, <3>2
    <3> HIDE DEF a, left, taken
    <3>5. x \in OpRecord /\ x.want = left /\ x.held = taken /\ x.at = a
      BY <3>1, <3>4
    <3> HIDE DEF x
    <3> QED BY <3>3, <3>5 DEF left, taken
  <2> HIDE DEF x
  <2>5. \A h \in x.held, y \in x.want : h < y
    BY <1>2, <2>2, <2>3, <2>4 DEF Spaces
  <2>6. GateOrder(x)
    BY <2>3, <2>4, <2>5
  <2> QED BY <2>1, <2>4, <2>6, OpKeepsGates
<1>7. ASSUME NEW o \in Mutations, Mutate(o)
      PROVE  GatesInvariant'
  <2>1. op[o] \in OpRecord /\ op[o].at = "mutate"
    BY <1>2, <1>7, Zenon DEF Mutate
  <2>2. CASE OpIs(o, NoOp)
    BY <1>1, <2>2, OpKeepsGates
  <2>3. ASSUME NEW due, due \subseteq op[o].held, OpIs(o, [op[o] EXCEPT !.at = "sync", !.sync = due])
        PROVE  GatesInvariant'
    <3> DEFINE x == [op[o] EXCEPT !.at = "sync", !.sync = due]
    <3>1. x \in OpRecord /\ GateOrder(x)
      BY <1>2, <2>1, <2>3
    <3>2. OpIs(o, x)
      BY <2>3
    <3> HIDE DEF x
    <3> QED BY <3>1, <3>2, OpKeepsGates
  <2>4. \/ OpIs(o, NoOp)
        \/ OpIs(o, [op[o] EXCEPT !.at = "sync", !.sync = op[o].held])
        \/ \E due \in SUBSET Running(op[o].held) : OpIs(o, [op[o] EXCEPT !.at = "sync", !.sync = due])
    BY <1>7, Zenon DEF Mutate
  <2>5. CASE OpIs(o, [op[o] EXCEPT !.at = "sync", !.sync = op[o].held])
    BY <2>3, <2>5, Zenon
  <2>6. ASSUME NEW due \in SUBSET Running(op[o].held),
               OpIs(o, [op[o] EXCEPT !.at = "sync", !.sync = due])
        PROVE  GatesInvariant'
    <3>1. due \subseteq op[o].held
      BY DEF Running
    <3> QED BY <2>3, <2>6, <3>1, Zenon
  <2> QED BY <2>2, <2>4, <2>5, <2>6, Zenon
<1>8. ASSUME NEW o \in Mutations, NEW w \in Spaces, Sync(o, w) \/ SyncFails(o, w)
      PROVE  GatesInvariant'
  BY <1>1, <1>2, <1>8, OpKeepsGates DEF Sync, SyncFails
<1>9. ASSUME NEW o \in Mutations, OpenTerminal(o) \/ Return(o)
      PROVE  GatesInvariant'
  <2>1. op[o] \in OpRecord /\ GateOrder(op[o])
    BY <1>2
  <2>2. CASE OpenTerminal(o)
    <3>1. OpIs(o, [op[o] EXCEPT !.at = "opened"]) /\ op[o].at = "sync"
      BY <2>2, Zenon DEF OpenTerminal
    <3> DEFINE x == [op[o] EXCEPT !.at = "opened"]
    <3>2. x \in OpRecord /\ x.at = "opened" /\ x.want = op[o].want /\ x.held = op[o].held
      BY <2>1
    <3> HIDE DEF x
    <3>3. GateOrder(x)
      BY <2>1, <3>1, <3>2
    <3> QED BY <3>1, <3>2, <3>3, OpKeepsGates DEF x
  <2>3. CASE Return(o)
    BY <1>1, <2>3, OpKeepsGates DEF Return
  <2> QED BY <1>9, <2>2, <2>3
<1>10. ASSUME UNCHANGED op PROVE GatesInvariant'
  BY <1>10 DEF GatesInvariant
<1>11. ASSUME NEW w \in Spaces, ProcessStarts(w) \/ Suspending(w) \/ Drain(w) \/ Resume(w) \/ Configured(w)
       PROVE  GatesInvariant'
  BY <1>10, <1>11 DEF ProcessStarts, Suspending, Drain, Resume, Configured
<1>12. ASSUME NEW s \in Secrets, CreateSecret(s) PROVE GatesInvariant'
  BY <1>10, <1>12 DEF CreateSecret
<1> QED BY <1>3, <1>4, <1>5, <1>6, <1>7, <1>8, <1>9, <1>10, <1>11, <1>12 DEF SecretGrantsNext, grantVars

(* For any number of operations, secrets and workspaces: no set of operations  *)
(* waits in a circle for gates, because lockSecretWorkspaces takes them in     *)
(* order (application/secrets.go:61-115, 134-185, 212-264).                    *)
THEOREM GatesDoNotDeadlock == SecretGrantsSpec => []GatesAreOrdered
<1>1. SecretGrantsInit => GatesInvariant
  <2> SUFFICES ASSUME SecretGrantsInit PROVE GatesInvariant
    OBVIOUS
  <2>1. NoOp \in OpRecord /\ GateOrder(NoOp)
    BY DEF NoOp, OpRecord, GateOrder
  <2> QED BY <2>1 DEF SecretGrantsInit, GatesInvariant
<1> QED BY <1>1, StepsKeepGates, OrderedGates, PTL DEF SecretGrantsSpec

-----------------------------------------------------------------------------
(* SecretGrants: what a launch finds *)

LEMMA GrantedTyped ==
    ASSUME SecretGrantsTypeOK, NEW w \in Spaces
    PROVE  Granted(w) \in GrantSet
<1>1. value \in [Secrets -> Nat]
  BY DEF SecretGrantsTypeOK
<1>2. \A g \in Granted(w) : g \in Secrets \X Nat
  <2> SUFFICES ASSUME NEW g \in Granted(w) PROVE g \in Secrets \X Nat
    OBVIOUS
  <2>1. PICK s \in Secrets : g = <<s, value[s]>>
    BY DEF Granted
  <2> QED BY <1>1, <2>1
<1> QED BY <1>2 DEF GrantSet

LEMMA GrantedKept ==
    ASSUME UNCHANGED <<value, deleted, grants>>
    PROVE  /\ \A w : Granted(w)' = Granted(w)
           /\ \A s : Affected(s)' = Affected(s)
BY DEF Granted, Affected

\* What a step leaves as it is for the operation u.
LeavesAlone(u) ==
    /\ \A w \in op[u].held : Attached(w) =>
        /\ Attached(w)' /\ tmpfs'[w] = tmpfs[w]
        /\ Granted(w)' = Granted(w) /\ tab'[w].redacts = tab[w].redacts
    /\ \A s \in op[u].secret : value'[s] > 0 /\ Affected(s)' \subseteq Affected(s)

LEMMA OpLeftAlone ==
    ASSUME GrantsInvariant, NEW u \in Mutations, op'[u] = op[u], LeavesAlone(u)
    PROVE  SoundOp(op[u])'
<1>1. PICK x : x = op[u]
  OBVIOUS
<1>2. op'[u] = x /\ SoundOp(x) /\ x \in OpRecord
  BY <1>1 DEF GrantsInvariant, SecretGrantsTypeOK
<1>3. /\ \A w \in x.held : Attached(w) =>
        /\ Attached(w)' /\ tmpfs'[w] = tmpfs[w]
        /\ Granted(w)' = Granted(w) /\ tab'[w].redacts = tab[w].redacts
      /\ \A s \in x.secret : value'[s] > 0 /\ Affected(s)' \subseteq Affected(s)
  BY <1>1 DEF LeavesAlone
<1> HIDE DEF Attached, Granted, Affected
<1>4. x.kind \in {"update", "delete"} /\ x.at \in {"lock", "mutate"} =>
          \A s \in x.secret : Affected(s)' \subseteq x.want \cup x.held
  BY <1>2, <1>3 DEF SoundOp
<1>5. x.sync \subseteq x.held /\ \A w \in x.sync : Attached(w)'
  BY <1>2, <1>3 DEF SoundOp
<1>6. x.kind = "launch" /\ x.at \in {"sync", "opened"} =>
          \A w \in x.held : Attached(w)' /\ (w \in x.sync \/ tmpfs'[w] = {Granted(w)'})
  BY <1>2, <1>3 DEF SoundOp
<1>7. x.at = "opened" => \A w \in x.held : tab'[w].redacts = Granted(w)'
  BY <1>2, <1>3 DEF SoundOp
<1> QED BY <1>2, <1>3, <1>4, <1>5, <1>6, <1>7 DEF SoundOp

\* A step of one operation.
LEMMA OneOpKeepsGrants ==
    ASSUME GrantsInvariant, SecretGrantsTypeOK', NEW o \in Mutations, SoundOp(op[o])',
           \A u \in Mutations \ {o} :
                op'[u] = op[u] /\ Exclusive(op'[o], op[u]) /\ LeavesAlone(u),
           \A g \in grants' : value'[g[2]] > 0,
           \A w \in Spaces \ stale' : FileIsCurrent(w)'
    PROVE  GrantsInvariant'
<1>1. \A u \in Mutations : SoundOp(op[u])'
  BY OpLeftAlone
<1>2. \A u, v \in Mutations : u # v => Exclusive(op'[u], op'[v])
  BY DEF GrantsInvariant, Exclusive
<1> QED BY <1>1, <1>2 DEF GrantsInvariant, Exclusive

\* A step of the workspace or of the owner.
LEMMA NoOpKeepsGrants ==
    ASSUME GrantsInvariant, SecretGrantsTypeOK', UNCHANGED op, \A u \in Mutations : LeavesAlone(u),
           \A g \in grants' : value'[g[2]] > 0,
           \A w \in Spaces \ stale' : FileIsCurrent(w)'
    PROVE  GrantsInvariant'
<1>1. \A u \in Mutations : SoundOp(op[u])'
  BY OpLeftAlone
<1> QED BY <1>1 DEF GrantsInvariant, Exclusive

\* A step of one operation that takes gates, gives them back, or waits.
LEMMA OpAloneKeepsGrants ==
    ASSUME GrantsInvariant, NEW o \in Mutations, NEW x \in OpRecord, OpIs(o, x), SoundOp(x),
           UNCHANGED <<value, deleted, grants, space, tmpfs, tab, stale>>, begun' \in 0..MaxMutations,
           \A u \in Mutations \ {o} : Exclusive(x, op[u])
    PROVE  GrantsInvariant'
<1>1. op'[o] = x /\ op' \in [Mutations -> OpRecord] /\ \A u \in Mutations \ {o} : op'[u] = op[u]
  BY DEF OpIs, GrantsInvariant, SecretGrantsTypeOK
<1>2. SecretGrantsTypeOK'
  BY <1>1 DEF GrantsInvariant, SecretGrantsTypeOK
<1>3. \A w : Granted(w)' = Granted(w)
  BY GrantedKept
<1>4. \A s : Affected(s)' = Affected(s)
  BY GrantedKept
<1>5. \A w : Attached(w)' <=> Attached(w)
  BY DEF Attached
<1>6. \A u \in Mutations : LeavesAlone(u)
  <2> SUFFICES ASSUME NEW u \in Mutations PROVE LeavesAlone(u)
    OBVIOUS
  <2>1. \A s \in op[u].secret : value[s] > 0
    BY DEF GrantsInvariant, SoundOp
  <2> QED BY <1>3, <1>4, <1>5, <2>1 DEF LeavesAlone
<1>7. SoundOp(op[o])'
  BY <1>1, <1>3, <1>4, <1>5 DEF SoundOp
<1>8. \A w \in Spaces \ stale' : FileIsCurrent(w)'
  BY <1>3 DEF GrantsInvariant, FileIsCurrent
<1>9. \A g \in grants' : value'[g[2]] > 0
  BY DEF GrantsInvariant
<1> QED BY <1>1, <1>2, <1>6, <1>7, <1>8, <1>9, OneOpKeepsGrants

LEMMA FreeOp ==
    ASSUME GrantsInvariant
    PROVE  /\ NoOp \in OpRecord /\ SoundOp(NoOp)
           /\ \A u \in Mutations : Exclusive(NoOp, op[u])
BY DEF NoOp, OpRecord, SoundOp, Exclusive

\* An operation begins.
LEMMA BeginningsKeepGrants ==
    ASSUME GrantsInvariant, NEW o \in Mutations,
           \/ \E s \in Secrets, kind \in {"update", "delete"} : BeginSecret(o, s, kind)
           \/ \E s \in Secrets, w \in Spaces, kind \in {"grant", "revoke"} : BeginGrant(o, s, w, kind)
           \/ \E w \in Spaces : BeginLaunch(o, w)
    PROVE  GrantsInvariant'
<1>0. ASSUME NEW x, Begins(o, x) PROVE OpIs(o, x) /\ begun' \in 0..MaxMutations
  BY <1>0, SecretGrantsAssumption DEF Begins, GrantsInvariant, SecretGrantsTypeOK
<1>1. ASSUME NEW s \in Secrets, NEW kind \in {"update", "delete"}, BeginSecret(o, s, kind)
      PROVE  GrantsInvariant'
  <2> DEFINE a == IF Affected(s) = {} THEN "mutate" ELSE "lock"
             x == [NoOp EXCEPT !.at = a, !.kind = kind, !.secret = {s}, !.want = Affected(s)]
  <2>1. Affected(s) \in SUBSET Spaces /\ a \in {"lock", "mutate"} /\ (a = "lock" <=> Affected(s) # {})
    BY DEF Affected
  <2>2. Begins(o, x) /\ ~SecretBusy(s) /\ value[s] > 0
        /\ UNCHANGED <<value, deleted, grants, space, tmpfs, tab, stale>>
    BY <1>1, Zenon DEF BeginSecret
  <2> HIDE DEF a, Affected
  <2>3. x \in OpRecord /\ x.at = a /\ x.kind = kind /\ x.secret = {s} /\ x.want = Affected(s)
        /\ x.held = {} /\ x.sync = {}
    BY <2>1 DEF NoOp, OpRecord
  <2> HIDE DEF x
  <2>4. SoundOp(x)
    BY <2>1, <2>2, <2>3 DEF SoundOp
  <2>5. \A u \in Mutations \ {o} : Exclusive(x, op[u])
    BY <2>2, <2>3 DEF Exclusive, SecretBusy
  <2> QED BY <1>0, <2>2, <2>3, <2>4, <2>5, OpAloneKeepsGrants
<1>2. ASSUME NEW s \in Secrets, NEW w \in Spaces, NEW kind \in {"grant", "revoke"}, BeginGrant(o, s, w, kind)
      PROVE  GrantsInvariant'
  <2> DEFINE x == [NoOp EXCEPT !.at = "lock", !.kind = kind, !.secret = {s}, !.want = {w}]
  <2>1. Begins(o, x) /\ ~SecretBusy(s) /\ value[s] > 0
        /\ UNCHANGED <<value, deleted, grants, space, tmpfs, tab, stale>>
    BY <1>2, Zenon DEF BeginGrant
  <2>2. x \in OpRecord /\ x.at = "lock" /\ x.kind = kind /\ x.secret = {s} /\ x.want = {w}
        /\ x.held = {} /\ x.sync = {}
    BY DEF NoOp, OpRecord
  <2> HIDE DEF x
  <2>3. SoundOp(x)
    BY <2>1, <2>2 DEF SoundOp
  <2>4. \A u \in Mutations \ {o} : Exclusive(x, op[u])
    BY <2>1, <2>2 DEF Exclusive, SecretBusy
  <2> QED BY <1>0, <2>1, <2>2, <2>3, <2>4, OpAloneKeepsGrants
<1>3. ASSUME NEW w \in Spaces, BeginLaunch(o, w)
      PROVE  GrantsInvariant'
  <2> DEFINE x == [NoOp EXCEPT !.at = "lock", !.kind = "launch", !.want = {w}]
  <2>1. Begins(o, x) /\ UNCHANGED <<value, deleted, grants, space, tmpfs, tab, stale>>
    BY <1>3, Zenon DEF BeginLaunch
  <2>2. x \in OpRecord /\ x.at = "lock" /\ x.kind = "launch" /\ x.secret = {} /\ x.want = {w}
        /\ x.held = {} /\ x.sync = {}
    BY DEF NoOp, OpRecord
  <2> HIDE DEF x
  <2>3. SoundOp(x)
    BY <2>2 DEF SoundOp
  <2>4. \A u \in Mutations \ {o} : Exclusive(x, op[u])
    BY <2>2 DEF Exclusive
  <2> QED BY <1>0, <2>1, <2>2, <2>3, <2>4, OpAloneKeepsGrants
<1> QED BY <1>1, <1>2, <1>3

\* A gate is taken, or all are given back.
LEMMA LockKeepsGrants ==
    ASSUME GrantsInvariant, NEW o \in Mutations, Lock(o) \/ Return(o)
    PROVE  GrantsInvariant'
<1>0. /\ op[o] \in OpRecord /\ SoundOp(op[o]) /\ begun \in 0..MaxMutations
      /\ \A u \in Mutations \ {o} : Exclusive(op[o], op[u])
  BY DEF GrantsInvariant, SecretGrantsTypeOK
<1>1. CASE Lock(o)
  <2> DEFINE w == Min(op[o].want)
             a == IF op[o].want = {w} THEN "mutate" ELSE op[o].at
             left == op[o].want \ {w}
             taken == op[o].held \cup {w}
             x == [op[o] EXCEPT !.want = left, !.held = taken, !.at = a]
  <2>1. OpIs(o, x) /\ op[o].at = "lock" /\ ~Busy(w)
    BY <1>1 DEF Lock, LockOrder
  <2>2. op[o].want \in SUBSET Spaces /\ op[o].want # {}
    BY <1>0, <2>1 DEF OpRecord, SoundOp
  <2>3. w \in op[o].want
    BY <2>2, MinIsLeast
  <2> HIDE DEF w
  <2>4. /\ a \in {"lock", "mutate"} /\ (a = "lock" <=> left # {})
        /\ left \in SUBSET Spaces /\ taken \in SUBSET Spaces
        /\ left \cup taken = op[o].want \cup op[o].held
    BY <1>0, <2>1, <2>2, <2>3 DEF OpRecord
  <2> HIDE DEF a, left, taken
  <2>5. /\ x \in OpRecord /\ x.want = left /\ x.held = taken /\ x.at = a
        /\ x.kind = op[o].kind /\ x.secret = op[o].secret /\ x.sync = op[o].sync
    BY <1>0, <2>4 DEF OpRecord
  <2> HIDE DEF x
  <2>6. SoundOp(x)
    BY <1>0, <2>1, <2>4, <2>5 DEF SoundOp
  <2>7. \A u \in Mutations \ {o} : Exclusive(x, op[u])
    BY <1>0, <2>1, <2>5 DEF Exclusive, Busy, taken
  <2>8. UNCHANGED <<begun, value, deleted, grants, space, tmpfs, tab, stale>>
    BY <1>1, Zenon DEF Lock
  <2> QED BY <1>0, <2>1, <2>5, <2>6, <2>7, <2>8, OpAloneKeepsGrants
<1>2. CASE Return(o)
  BY <1>0, <1>2, FreeOp, OpAloneKeepsGrants DEF Return
<1> QED BY <1>1, <1>2

LEMMA NotPaired ==
    ASSUME NEW A, NEW B, NEW a, NEW b, a \notin A \/ b \notin B
    PROVE  <<a, b>> \notin A \X B
OBVIOUS

\* The store is changed, or a launch reaches a running workspace.
LEMMA MutateKeepsGrants ==
    ASSUME GrantsInvariant, NEW o \in Mutations, Mutate(o)
    PROVE  GrantsInvariant'
<1> DEFINE x0 == op[o]
           s == op[o].secret
           kind == op[o].kind
           held == op[o].held
<1>0. /\ op[o] \in OpRecord /\ SoundOp(op[o]) /\ begun \in 0..MaxMutations
      /\ \A u \in Mutations \ {o} : Exclusive(op[o], op[u])
  BY DEF GrantsInvariant, SecretGrantsTypeOK
<1>1. op[o].at = "mutate" /\ UNCHANGED <<begun, space, tmpfs, tab>>
  BY Zenon DEF Mutate
<1>2. CASE /\ kind = "launch" /\ Running(held) # {}
           /\ OpIs(o, [op[o] EXCEPT !.at = "sync", !.sync = held])
           /\ UNCHANGED <<value, deleted, grants, stale>>
  <2> DEFINE x == [op[o] EXCEPT !.at = "sync", !.sync = held]
  <2>1. x \in OpRecord /\ x.at = "sync" /\ x.sync = held /\ x.kind = kind /\ x.secret = s /\ x.held = held
        /\ x.want = op[o].want
    BY <1>0 DEF OpRecord
  <2>2. OpIs(o, x)
    BY <1>2
  <2> HIDE DEF x
  <2>3. \A w \in held : Attached(w)
    BY <1>0, <1>1, <1>2 DEF Running, Attached, SoundOp
  <2>4. SoundOp(x)
    BY <1>0, <1>1, <1>2, <2>1, <2>3 DEF SoundOp
  <2>5. \A u \in Mutations \ {o} : Exclusive(x, op[u])
    BY <1>0, <1>1, <2>1 DEF Exclusive
  <2>6. UNCHANGED <<value, deleted, grants, space, tmpfs, tab, stale>> /\ begun' \in 0..MaxMutations
    BY <1>0, <1>1, <1>2
  <2> QED BY <2>1, <2>2, <2>4, <2>5, <2>6, OpAloneKeepsGrants
<1>3. ASSUME NEW due \in SUBSET Running(held),
           /\ kind # "launch"
           /\ value' = [y \in Secrets |-> IF y \in s /\ kind = "update" THEN value[y] + 1 ELSE value[y]]
           /\ deleted' = IF kind = "delete" THEN deleted \cup s ELSE deleted
           /\ grants' = CASE kind = "grant"  -> grants \cup (held \X s)
                          [] kind = "revoke" -> grants \ (held \X s)
                          [] kind = "delete" -> grants \ (Spaces \X s)
                          [] OTHER           -> grants
           /\ stale' = stale \cup held
           /\ OpIs(o, [op[o] EXCEPT !.at = "sync", !.sync = due])
      PROVE GrantsInvariant'
  <2> DEFINE x == [op[o] EXCEPT !.at = "sync", !.sync = due]
  <2>1. due \subseteq held /\ \A w \in due : Attached(w)
    BY DEF Running, Attached
  <2>2. x \in OpRecord /\ x.at = "sync" /\ x.sync = due /\ x.kind = kind /\ x.secret = s
        /\ x.held = held /\ x.want = op[o].want
    BY <1>0, <2>1 DEF OpRecord
  <2>3. OpIs(o, x)
    BY <1>3
  <2> HIDE DEF x
  <2>4. op'[o] = x /\ op' \in [Mutations -> OpRecord] /\ \A u \in Mutations \ {o} : op'[u] = op[u]
    BY <2>2, <2>3 DEF OpIs, GrantsInvariant, SecretGrantsTypeOK
  <2>5. /\ value \in [Secrets -> Nat] /\ deleted \subseteq Secrets
        /\ grants \subseteq Spaces \X Secrets /\ stale \subseteq Spaces
        /\ s \subseteq Secrets /\ held \subseteq Spaces
    BY <1>0 DEF GrantsInvariant, SecretGrantsTypeOK, OpRecord
  <2>6. /\ value' \in [Secrets -> Nat] /\ deleted' \subseteq Secrets /\ stale' \subseteq Spaces
        /\ \A y \in Secrets : value'[y] >= value[y] /\ (y \notin s => value'[y] = value[y])
    BY <1>3, <2>5
  <2>7. grants' \subseteq grants \cup (held \X s) /\ grants \subseteq grants' \cup (Spaces \X s)
    BY <1>3, <2>5
  <2>8. grants' \subseteq Spaces \X Secrets
    BY <2>5, <2>7
  <2>9. SecretGrantsTypeOK'
    BY <1>1, <2>4, <2>6, <2>8 DEF GrantsInvariant, SecretGrantsTypeOK
  <2>10. \A y \in s : value[y] > 0
    BY <1>0 DEF SoundOp
  <2>11. \A g \in grants' : value'[g[2]] > 0
    <3> SUFFICES ASSUME NEW g \in grants' PROVE value'[g[2]] > 0
      OBVIOUS
    <3>1. g[2] \in Secrets /\ (g \in grants \/ g[2] \in s)
      BY <2>5, <2>7, <2>8
    <3>2. value[g[2]] > 0
      BY <2>10, <3>1 DEF GrantsInvariant
    <3> QED BY <2>5, <2>6, <3>1, <3>2
  <2>12. \A w \in Spaces \ held, y \in s : <<w, y>> \in grants' <=> <<w, y>> \in grants
    <3>1. kind \in {"update", "delete"} => \A w \in Spaces \ held, y \in s : <<w, y>> \notin grants
      BY <1>0, <1>1 DEF SoundOp, Affected
    <3>2. kind \in {"update", "delete"} => grants' \subseteq grants
      BY <1>3
    <3>3. kind \notin {"update", "delete"} => grants' = grants \cup (held \X s) \/ grants' = grants \ (held \X s)
                                             \/ grants' = grants
      BY <1>3
    <3> SUFFICES ASSUME NEW w \in Spaces \ held, NEW y \in s
                 PROVE  <<w, y>> \in grants' <=> <<w, y>> \in grants
      BY Zenon
    <3> DEFINE g == <<w, y>>
    <3>4. g \notin held \X s
      BY NotPaired
    <3>5. kind \in {"update", "delete"} => g \notin grants
      BY <3>1
    <3> HIDE DEF g
    <3>6. g \in grants' <=> g \in grants
      BY <3>2, <3>3, <3>4, <3>5
    <3> QED BY <3>6 DEF g
  <2>13. \A w \in Spaces \ held, y \in Secrets : <<w, y>> \in grants' <=> <<w, y>> \in grants
    <3> SUFFICES ASSUME NEW w \in Spaces \ held, NEW y \in Secrets, y \notin s
                 PROVE  <<w, y>> \in grants' <=> <<w, y>> \in grants
      BY <2>12, Zenon
    <3> DEFINE g == <<w, y>>
    <3>1. g \notin held \X s /\ g \notin Spaces \X s
      BY NotPaired
    <3> HIDE DEF g
    <3>2. g \in grants' <=> g \in grants
      BY <2>7, <3>1
    <3> QED BY <3>2 DEF g
  <2>14. \A w \in Spaces \ held, y \in Secrets : <<w, y>> \in grants =>
            value'[y] = value[y] /\ (y \in deleted' <=> y \in deleted)
    <3>1. kind \in {"update", "delete"} => \A w \in Spaces \ held, y \in s : <<w, y>> \notin grants
      BY <1>0, <1>1 DEF SoundOp, Affected
    <3> QED BY <1>3, <2>5, <2>6, <3>1
  <2>15. \A w \in Spaces \ held : Granted(w)' = Granted(w)
    BY <2>13, <2>14 DEF Granted
  <2>16. \A u \in Mutations \ {o} : LeavesAlone(u)
    <3> SUFFICES ASSUME NEW u \in Mutations \ {o} PROVE LeavesAlone(u)
      OBVIOUS
    <3>1. op[u].held \subseteq Spaces \ held /\ op[u].secret \cap s = {} /\ op[u].secret \subseteq Secrets
          /\ \A y \in op[u].secret : value[y] > 0
      BY <1>0, <1>1 DEF Exclusive, GrantsInvariant, SecretGrantsTypeOK, OpRecord, SoundOp
    <3>2. \A y \in op[u].secret : value'[y] > 0
      BY <2>5, <2>6, <3>1
    <3>3. \A y \in op[u].secret : Affected(y)' \subseteq Affected(y)
      BY <2>7, <3>1 DEF Affected
    <3>4. \A w : Attached(w)' <=> Attached(w)
      BY <1>1 DEF Attached
    <3> QED BY <1>1, <2>15, <3>1, <3>2, <3>3, <3>4 DEF LeavesAlone
  <2>17. SoundOp(op[o])'
    <3>1. \A w : Attached(w)' <=> Attached(w)
      BY <1>1 DEF Attached
    <3>2. \A y \in s : value'[y] > 0
      BY <2>5, <2>6, <2>10
    <3>3. x.want = {}
      BY <1>0, <1>1, <2>2 DEF SoundOp
    <3> QED BY <1>3, <2>1, <2>2, <2>4, <3>1, <3>2, <3>3 DEF SoundOp
  <2>18. \A u \in Mutations \ {o} : Exclusive(op'[o], op[u])
    BY <1>0, <1>1, <2>2, <2>4 DEF Exclusive
  <2>19. \A w \in Spaces \ stale' : FileIsCurrent(w)'
    BY <1>1, <1>3, <2>15 DEF GrantsInvariant, FileIsCurrent
  <2> QED BY <2>4, <2>9, <2>11, <2>16, <2>17, <2>18, <2>19, OneOpKeepsGrants
<1>4. CASE OpIs(o, NoOp) /\ UNCHANGED <<value, deleted, grants, stale>>
  BY <1>0, <1>1, <1>4, FreeOp, OpAloneKeepsGrants
<1> QED BY <1>2, <1>3, <1>4, Zenon DEF Mutate

\* The file of a workspace the operation holds is written or lost.
LEMMA OneFileKeepsGrants ==
    ASSUME GrantsInvariant, NEW o \in Mutations, NEW w \in op[o].held, NEW x \in OpRecord, OpIs(o, x),
           NEW file \in SUBSET GrantSet, tmpfs' = [tmpfs EXCEPT ![w] = file],
           UNCHANGED <<begun, value, deleted, grants, space, tab>>,
           op[o].at = "sync",
           stale' \subseteq Spaces, stale \ {w} \subseteq stale',
           w \notin stale' => file = {Granted(w)} /\ Attached(w),
           \/ x = NoOp
           \/ /\ x.sync = op[o].sync \ {w} /\ x.at = op[o].at /\ x.kind = op[o].kind
              /\ x.secret = op[o].secret /\ x.want = op[o].want /\ x.held = op[o].held,
           x.kind = "launch" => file = {Granted(w)}
    PROVE  GrantsInvariant'
<1>0. w \in Spaces /\ op[o] \in OpRecord /\ op \in [Mutations -> OpRecord] /\ SoundOp(op[o])
  BY DEF GrantsInvariant, SecretGrantsTypeOK, OpRecord
<1>1. op'[o] = x /\ op' \in [Mutations -> OpRecord] /\ \A u \in Mutations \ {o} : op'[u] = op[u]
  BY <1>0 DEF OpIs
<1>2. tmpfs' \in [Spaces -> SUBSET GrantSet] /\ tmpfs'[w] = file /\ \A v \in Spaces \ {w} : tmpfs'[v] = tmpfs[v]
  BY <1>0 DEF GrantsInvariant, SecretGrantsTypeOK
<1>3. SecretGrantsTypeOK'
  BY <1>1, <1>2 DEF GrantsInvariant, SecretGrantsTypeOK
<1>4. \A v : Granted(v)' = Granted(v)
  BY GrantedKept
<1>5. \A y : Affected(y)' = Affected(y)
  BY GrantedKept
<1>6. \A v : Attached(v)' <=> Attached(v)
  BY DEF Attached
<1>7. \A u \in Mutations \ {o} : Exclusive(op'[o], op[u])
  BY <1>1 DEF GrantsInvariant, Exclusive, NoOp
<1>8. \A u \in Mutations \ {o} : LeavesAlone(u)
  <2> SUFFICES ASSUME NEW u \in Mutations \ {o} PROVE LeavesAlone(u)
    OBVIOUS
  <2>1. op[u].held \subseteq Spaces \ {w} /\ \A y \in op[u].secret : value[y] > 0
    BY DEF GrantsInvariant, SecretGrantsTypeOK, OpRecord, SoundOp, Exclusive
  <2> QED BY <1>2, <1>4, <1>5, <1>6, <2>1 DEF LeavesAlone
<1>9. SoundOp(op[o])'
  <2>1. CASE x = NoOp
    BY <1>1, <2>1 DEF NoOp, SoundOp
  <2>2. CASE /\ x.sync = op[o].sync \ {w} /\ x.at = op[o].at /\ x.kind = op[o].kind
             /\ x.secret = op[o].secret /\ x.want = op[o].want /\ x.held = op[o].held
    <3>3. x.held \subseteq Spaces
      BY DEF OpRecord
    <3> HIDE DEF Attached, Granted, Affected
    <3>4. x.sync \subseteq x.held /\ \A v \in x.sync : Attached(v)'
      BY <1>6, <1>0, <2>2 DEF SoundOp
    <3>5. x.at = "sync" /\ x.kind = "launch" =>
             \A v \in x.held : Attached(v)' /\ (v \in x.sync \/ tmpfs'[v] = {Granted(v)'})
      BY <1>2, <1>4, <1>6, <1>0, <2>2, <3>3 DEF SoundOp
    <3>6. \A t \in x.secret : value'[t] > 0
      BY <1>0, <2>2 DEF SoundOp
    <3>7. x.kind \in {"update", "delete"} /\ x.at \in {"lock", "mutate"} =>
             \A t \in x.secret : Affected(t)' \subseteq x.want \cup x.held
      BY <1>5, <1>0, <2>2 DEF SoundOp
    <3>8. /\ x.at = "lock" <=> x.want # {}
          /\ x.at = "idle" => x.held = {} /\ x.secret = {}
          /\ x.at # "sync" => x.sync = {}
          /\ x.at # "opened"
          /\ x.kind = "launch" => x.secret = {} /\ \E v \in Spaces : x.want \cup x.held = {v}
      BY <1>0, <2>2 DEF SoundOp
    <3> QED BY <1>1, <3>4, <3>5, <3>6, <3>7, <3>8 DEF SoundOp
  <2> QED BY <2>1, <2>2
<1>10. \A v \in Spaces \ stale' : FileIsCurrent(v)'
  <2> SUFFICES ASSUME NEW v \in Spaces \ stale' PROVE FileIsCurrent(v)'
    OBVIOUS
  <2>1. CASE v = w
    BY <1>2, <1>4, <2>1 DEF FileIsCurrent, Attached
  <2>2. CASE v # w
    BY <1>2, <1>4, <2>2 DEF FileIsCurrent, GrantsInvariant
  <2> QED BY <2>1, <2>2
<1>11. \A g \in grants' : value'[g[2]] > 0
  BY DEF GrantsInvariant
<1> QED BY <1>1, <1>3, <1>7, <1>8, <1>9, <1>10, <1>11, OneOpKeepsGrants

\* A workspace is synchronized, or that fails.
LEMMA SyncKeepsGrants ==
    ASSUME GrantsInvariant, NEW o \in Mutations, NEW w \in Spaces, Sync(o, w) \/ SyncFails(o, w)
    PROVE  GrantsInvariant'
<1> DEFINE left == op[o].sync \ {w}
           x == [op[o] EXCEPT !.sync = left]
<1>0. op[o] \in OpRecord /\ SoundOp(op[o]) /\ stale \subseteq Spaces /\ tmpfs \in [Spaces -> SUBSET GrantSet]
  BY DEF GrantsInvariant, SecretGrantsTypeOK
<1>1. op[o].at = "sync" /\ w \in op[o].sync /\ UNCHANGED <<begun, value, deleted, grants, space, tab>>
  BY Zenon DEF Sync, SyncFails
<1>2. /\ x \in OpRecord /\ x.at = "sync" /\ x.sync = left /\ x.kind = op[o].kind /\ x.secret = op[o].secret
      /\ x.held = op[o].held /\ x.want = op[o].want
  BY <1>0, <1>1 DEF OpRecord
<1>3. w \in op[o].held /\ Attached(w)
  BY <1>0, <1>1 DEF SoundOp
<1>4. op[o].kind = "launch" => op[o].secret = {}
  BY <1>0 DEF SoundOp
<1>5. Granted(w) \in GrantSet
  BY GrantedTyped DEF GrantsInvariant
<1>6. CASE Sync(o, w)
  <2>1. OpIs(o, x) /\ tmpfs' = [tmpfs EXCEPT ![w] = {Granted(w)}] /\ stale' = stale \ {w}
    BY <1>6, Zenon DEF Sync
  <2> HIDE DEF x, left
  <2>2. {Granted(w)} \in SUBSET GrantSet /\ stale' \subseteq Spaces /\ stale \ {w} \subseteq stale'
    BY <1>0, <1>5, <2>1
  <2> QED BY <1>1, <1>2, <1>3, <2>1, <2>2, OneFileKeepsGrants DEF left
<1>7. CASE SyncFails(o, w)
  <2>1. PICK file \in {tmpfs[w], {}, {Granted(w)}} : tmpfs' = [tmpfs EXCEPT ![w] = file]
    BY <1>7, Zenon DEF SyncFails
  <2>2. file \in SUBSET GrantSet /\ stale' = stale \cup {w}
    BY <1>0, <1>5, <1>7 DEF SyncFails
  <2>3. CASE op[o].kind = "launch"
    <3>1. OpIs(o, NoOp)
      BY <1>7, <2>3 DEF SyncFails
    <3>2. NoOp \in OpRecord /\ NoOp.held = {} /\ NoOp.secret = {} /\ NoOp.kind # "launch"
      BY DEF NoOp, OpRecord
    <3> HIDE DEF x, left
    <3> QED BY <1>0, <1>1, <1>3, <2>1, <2>2, <3>1, <3>2, OneFileKeepsGrants
  <2>4. CASE op[o].kind # "launch"
    <3>1. OpIs(o, x)
      BY <1>7, <2>4, Zenon DEF SyncFails
    <3> HIDE DEF x, left
    <3> QED BY <1>0, <1>1, <1>2, <1>3, <2>1, <2>2, <2>4, <3>1, OneFileKeepsGrants DEF left
  <2> QED BY <2>3, <2>4
<1> QED BY <1>6, <1>7

\* The terminal of a launch is opened.
LEMMA OpenKeepsGrants ==
    ASSUME GrantsInvariant, NEW o \in Mutations, OpenTerminal(o)
    PROVE  GrantsInvariant'
<1> DEFINE held == op[o].held
           x == [op[o] EXCEPT !.at = "opened"]
<1>0. op[o] \in OpRecord /\ SoundOp(op[o]) /\ held \subseteq Spaces
  BY DEF GrantsInvariant, SecretGrantsTypeOK, OpRecord
<1>1. /\ op[o].at = "sync" /\ op[o].sync = {} /\ op[o].kind = "launch" /\ OpIs(o, x)
      /\ UNCHANGED <<begun, value, deleted, grants, space, tmpfs, stale>>
  BY Zenon DEF OpenTerminal
<1>3. tab' = [w \in Spaces |-> IF w \in held THEN [open |-> TRUE, redacts |-> Granted(w), exposed |-> FALSE]
                                ELSE tab[w]]
  BY Zenon DEF OpenTerminal
<1>4. \A w \in Spaces : Granted(w) \in GrantSet
  BY GrantedTyped DEF GrantsInvariant
<1> HIDE DEF Granted
<1>5. /\ tab' \in [Spaces -> [open : BOOLEAN, redacts : GrantSet, exposed : BOOLEAN]]
      /\ \A w \in held : tab'[w].redacts = Granted(w)
      /\ \A w \in Spaces \ held : tab'[w] = tab[w]
  BY <1>0, <1>3, <1>4 DEF GrantsInvariant, SecretGrantsTypeOK
<1>6. /\ x \in OpRecord /\ x.at = "opened" /\ x.kind = "launch" /\ x.held = held /\ x.sync = {}
      /\ x.secret = op[o].secret /\ x.want = op[o].want
  BY <1>0, <1>1 DEF OpRecord
<1> HIDE DEF x
<1>7. op'[o] = x /\ op' \in [Mutations -> OpRecord] /\ \A u \in Mutations \ {o} : op'[u] = op[u]
  BY <1>1, <1>6 DEF OpIs, GrantsInvariant, SecretGrantsTypeOK
<1>8. SecretGrantsTypeOK'
  BY <1>1, <1>5, <1>7 DEF GrantsInvariant, SecretGrantsTypeOK
<1>9. \A v : Granted(v)' = Granted(v)
  BY <1>1, GrantedKept
<1>10. \A y : Affected(y)' = Affected(y)
  BY <1>1, GrantedKept
<1>11. \A v : Attached(v)' <=> Attached(v)
  BY <1>1 DEF Attached
<1>12. \A u \in Mutations \ {o} : Exclusive(op'[o], op[u])
  BY <1>1, <1>6, <1>7 DEF GrantsInvariant, Exclusive
<1>13. \A u \in Mutations \ {o} : LeavesAlone(u)
  <2> SUFFICES ASSUME NEW u \in Mutations \ {o} PROVE LeavesAlone(u)
    OBVIOUS
  <2>1. op[u].held \subseteq Spaces \ held /\ \A y \in op[u].secret : value[y] > 0
    BY DEF GrantsInvariant, SecretGrantsTypeOK, OpRecord, SoundOp, Exclusive
  <2> QED BY <1>1, <1>5, <1>9, <1>10, <1>11, <2>1 DEF LeavesAlone
<1>14. SoundOp(op[o])'
  <2>1. \A w \in held : Attached(w)' /\ tmpfs'[w] = {Granted(w)'} /\ tab'[w].redacts = Granted(w)'
    BY <1>0, <1>1, <1>5, <1>9, <1>11 DEF SoundOp
  <2> HIDE DEF Attached
  <2>2. /\ x.secret = {} /\ x.want = {} /\ \E v \in Spaces : x.want \cup x.held = {v}
    BY <1>0, <1>1, <1>6 DEF SoundOp
  <2> QED BY <1>6, <1>7, <2>1, <2>2 DEF SoundOp
<1>15. \A v \in Spaces \ stale' : FileIsCurrent(v)'
  BY <1>1, <1>9 DEF FileIsCurrent, GrantsInvariant
<1>16. \A g \in grants' : value'[g[2]] > 0
  BY <1>1 DEF GrantsInvariant
<1> QED BY <1>7, <1>8, <1>12, <1>13, <1>14, <1>15, <1>16, OneOpKeepsGrants

\* A step of one workspace.
LEMMA OneSpaceKeepsGrants ==
    ASSUME GrantsInvariant, SecretGrantsTypeOK', UNCHANGED <<begun, value, deleted, grants, op, stale>>,
           NEW w \in Spaces,
           \A v \in Spaces \ {w} : space'[v] = space[v] /\ tmpfs'[v] = tmpfs[v] /\ tab'[v].redacts = tab[v].redacts,
           Attached(w) /\ Busy(w) => Attached(w)' /\ tmpfs'[w] = tmpfs[w] /\ tab'[w].redacts = tab[w].redacts,
           FileIsCurrent(w) => FileIsCurrent(w)'
    PROVE  GrantsInvariant'
<1>1. \A v : Granted(v)' = Granted(v)
  BY GrantedKept
<1>2. \A y : Affected(y)' = Affected(y)
  BY GrantedKept
<1>3. \A u \in Mutations : LeavesAlone(u)
  <2> SUFFICES ASSUME NEW u \in Mutations PROVE LeavesAlone(u)
    OBVIOUS
  <2>1. op[u].held \subseteq Spaces /\ \A y \in op[u].secret : value[y] > 0
    BY DEF GrantsInvariant, SecretGrantsTypeOK, OpRecord, SoundOp
  <2>2. w \in op[u].held => Busy(w)
    BY DEF Busy
  <2>3. \A v \in Spaces \ {w} : Attached(v)' <=> Attached(v)
    BY DEF Attached
  <2> QED BY <1>1, <1>2, <2>1, <2>2, <2>3 DEF LeavesAlone
<1>4. \A v \in Spaces \ stale' : FileIsCurrent(v)'
  <2>1. \A v \in Spaces \ {w} : FileIsCurrent(v) => FileIsCurrent(v)'
    BY <1>1 DEF FileIsCurrent
  <2> QED BY <2>1 DEF GrantsInvariant
<1>5. \A g \in grants' : value'[g[2]] > 0
  BY DEF GrantsInvariant
<1> QED BY <1>3, <1>4, <1>5, NoOpKeepsGrants

\* The workspace is suspended, drained, resumed and configured.
LEMMA SpacesKeepGrants ==
    ASSUME GrantsInvariant, NEW w \in Spaces,
           Suspending(w) \/ Drain(w) \/ Resume(w) \/ Configured(w)
    PROVE  GrantsInvariant'
<1> DEFINE SpaceRecord == [at : {"running", "suspending", "stopped", "configuring"}, grants : GrantSet]
<1>0. /\ SecretGrantsTypeOK /\ space \in [Spaces -> SpaceRecord] /\ tmpfs \in [Spaces -> SUBSET GrantSet]
      /\ tab \in [Spaces -> [open : BOOLEAN, redacts : GrantSet, exposed : BOOLEAN]]
  BY DEF GrantsInvariant, SecretGrantsTypeOK
<1>1. {} \in GrantSet /\ Granted(w) \in GrantSet
  BY <1>0, GrantedTyped DEF GrantSet
<1>2. ASSUME NEW a \in {"running", "suspending", "stopped", "configuring"}, NEW g \in GrantSet, SpaceIs(w, a, g)
      PROVE  /\ space' \in [Spaces -> SpaceRecord] /\ space'[w].at = a /\ space'[w].grants = g
             /\ \A v \in Spaces \ {w} : space'[v] = space[v]
  BY <1>0, <1>2 DEF SpaceIs
<1>3. CASE Suspending(w)
  <2>1. /\ space[w].at = "running" /\ SpaceIs(w, "suspending", {})
        /\ UNCHANGED <<begun, value, deleted, grants, tmpfs, tab, op, stale>>
    BY <1>3, Zenon DEF Suspending
  <2>2. /\ space' \in [Spaces -> SpaceRecord] /\ space'[w].at = "suspending"
        /\ \A v \in Spaces \ {w} : space'[v] = space[v]
    BY <1>1, <1>2, <2>1
  <2>3. SecretGrantsTypeOK'
    BY <1>0, <2>1, <2>2 DEF SecretGrantsTypeOK
  <2>4. Attached(w)' /\ FileIsCurrent(w)'
    BY <2>2 DEF Attached, FileIsCurrent
  <2> QED BY <2>1, <2>2, <2>3, <2>4, OneSpaceKeepsGrants
<1>4. CASE Drain(w)
  <2>1. /\ ~Busy(w) /\ SpaceIs(w, "stopped", {})
        /\ tmpfs' = [tmpfs EXCEPT ![w] = {}] /\ tab' = [tab EXCEPT ![w] = NoTab]
        /\ UNCHANGED <<begun, value, deleted, grants, op, stale>>
    BY <1>4, Zenon DEF Drain
  <2>2. /\ space' \in [Spaces -> SpaceRecord] /\ space'[w].at = "stopped"
        /\ \A v \in Spaces \ {w} : space'[v] = space[v]
    BY <1>1, <1>2, <2>1
  <2>3. NoTab \in [open : BOOLEAN, redacts : GrantSet, exposed : BOOLEAN]
    BY <1>1 DEF NoTab
  <2> HIDE DEF NoTab
  <2>4. /\ tmpfs' \in [Spaces -> SUBSET GrantSet] /\ \A v \in Spaces \ {w} : tmpfs'[v] = tmpfs[v]
        /\ tab' \in [Spaces -> [open : BOOLEAN, redacts : GrantSet, exposed : BOOLEAN]]
        /\ \A v \in Spaces \ {w} : tab'[v] = tab[v]
    BY <1>0, <2>1, <2>3
  <2>5. SecretGrantsTypeOK'
    BY <1>0, <2>1, <2>2, <2>4 DEF SecretGrantsTypeOK
  <2>6. FileIsCurrent(w)'
    BY <2>2 DEF FileIsCurrent
  <2> QED BY <2>1, <2>2, <2>4, <2>5, <2>6, OneSpaceKeepsGrants
<1>5. CASE Resume(w)
  <2>1. /\ space[w].at = "stopped" /\ SpaceIs(w, "configuring", Granted(w))
        /\ UNCHANGED <<begun, value, deleted, grants, tmpfs, tab, op, stale>>
    BY <1>5, Zenon DEF Resume
  <2>2. /\ space' \in [Spaces -> SpaceRecord] /\ space'[w].at = "configuring" /\ space'[w].grants = Granted(w)
        /\ \A v \in Spaces \ {w} : space'[v] = space[v]
    BY <1>1, <1>2, <2>1
  <2>3. SecretGrantsTypeOK'
    BY <1>0, <2>1, <2>2 DEF SecretGrantsTypeOK
  <2>4. Granted(w)' = Granted(w)
    BY <2>1, GrantedKept
  <2>5. ~Attached(w) /\ FileIsCurrent(w)'
    BY <2>1, <2>2, <2>4 DEF Attached, FileIsCurrent
  <2> QED BY <2>1, <2>2, <2>3, <2>5, OneSpaceKeepsGrants
<1>6. CASE Configured(w)
  <2>1. /\ space[w].at = "configuring" /\ tmpfs' = [tmpfs EXCEPT ![w] = {space[w].grants}]
        /\ SpaceIs(w, "running", {}) /\ UNCHANGED <<begun, value, deleted, grants, tab, op, stale>>
    BY <1>6, Zenon DEF Configured
  <2>2. /\ space' \in [Spaces -> SpaceRecord] /\ space'[w].at = "running"
        /\ \A v \in Spaces \ {w} : space'[v] = space[v]
    BY <1>1, <1>2, <2>1
  <2>3. space[w].grants \in GrantSet
    BY <1>0
  <2>4. /\ tmpfs' \in [Spaces -> SUBSET GrantSet] /\ tmpfs'[w] = {space[w].grants}
        /\ \A v \in Spaces \ {w} : tmpfs'[v] = tmpfs[v]
    BY <1>0, <2>1, <2>3
  <2>5. SecretGrantsTypeOK'
    BY <1>0, <2>1, <2>2, <2>4 DEF SecretGrantsTypeOK
  <2>6. Granted(w)' = Granted(w)
    BY <2>1, GrantedKept
  <2>7. ~Attached(w) /\ (FileIsCurrent(w) => FileIsCurrent(w)')
    BY <2>1, <2>2, <2>4, <2>6 DEF Attached, FileIsCurrent
  <2> QED BY <2>1, <2>2, <2>4, <2>5, <2>7, OneSpaceKeepsGrants
<1> QED BY <1>3, <1>4, <1>5, <1>6

\* A terminal's process starts.
LEMMA ProcessKeepsGrants ==
    ASSUME GrantsInvariant, NEW w \in Spaces, ProcessStarts(w)
    PROVE  GrantsInvariant'
<1>1. PICK file \in tmpfs[w] : tab' = [tab EXCEPT ![w].exposed = ~(file \subseteq tab[w].redacts)]
  BY Zenon DEF ProcessStarts
<1>2. UNCHANGED <<begun, value, deleted, grants, space, tmpfs, op, stale>>
  BY Zenon DEF ProcessStarts
<1>3. SecretGrantsTypeOK
  BY DEF GrantsInvariant
<1> DEFINE e == ~(file \subseteq tab[w].redacts)
<1>4. e \in BOOLEAN
  OBVIOUS
<1>5. tab' = [tab EXCEPT ![w].exposed = e]
  BY <1>1
<1> HIDE DEF e
<1>6. /\ tab' \in [Spaces -> [open : BOOLEAN, redacts : GrantSet, exposed : BOOLEAN]]
      /\ \A v \in Spaces : tab'[v].redacts = tab[v].redacts
  BY <1>3, <1>4, <1>5 DEF SecretGrantsTypeOK
<1>7. SecretGrantsTypeOK'
  BY <1>2, <1>3, <1>6 DEF SecretGrantsTypeOK
<1>8. Granted(w)' = Granted(w)
  BY <1>2, GrantedKept
<1>9. /\ Attached(w) => Attached(w)'
      /\ FileIsCurrent(w) => FileIsCurrent(w)'
  BY <1>2, <1>8 DEF Attached, FileIsCurrent
<1> QED BY <1>2, <1>6, <1>7, <1>9, OneSpaceKeepsGrants

\* A secret is created: nothing can have been granted of it before.
LEMMA CreateKeepsGrants ==
    ASSUME GrantsInvariant, NEW s \in Secrets, CreateSecret(s)
    PROVE  GrantsInvariant'
<1>1. /\ value[s] = 0 /\ value' = [value EXCEPT ![s] = 1]
      /\ UNCHANGED <<begun, deleted, grants, space, tmpfs, tab, op, stale>>
  BY DEF CreateSecret
<1>2. value \in [Secrets -> Nat] /\ grants \subseteq Spaces \X Secrets
  BY DEF GrantsInvariant, SecretGrantsTypeOK
<1>3. value' \in [Secrets -> Nat] /\ \A y \in Secrets : value[y] > 0 => value'[y] = value[y]
  BY <1>1, <1>2
<1>4. SecretGrantsTypeOK'
  BY <1>1, <1>3 DEF GrantsInvariant, SecretGrantsTypeOK
<1>5. \A w \in Spaces, y \in Secrets : <<w, y>> \in grants => value'[y] = value[y]
  BY <1>2, <1>3 DEF GrantsInvariant
<1>6. \A w \in Spaces : Granted(w)' = Granted(w)
  BY <1>1, <1>5 DEF Granted
<1>7. \A y : Affected(y)' = Affected(y)
  BY <1>1 DEF Affected
<1>8. \A v : Attached(v)' <=> Attached(v)
  BY <1>1 DEF Attached
<1>9. \A u \in Mutations : LeavesAlone(u)
  <2> SUFFICES ASSUME NEW u \in Mutations PROVE LeavesAlone(u)
    OBVIOUS
  <2>1. op[u].held \subseteq Spaces /\ op[u].secret \subseteq Secrets /\ \A y \in op[u].secret : value[y] > 0
    BY DEF GrantsInvariant, SecretGrantsTypeOK, OpRecord, SoundOp
  <2> QED BY <1>1, <1>3, <1>6, <1>7, <1>8, <2>1 DEF LeavesAlone
<1>10. \A v \in Spaces \ stale' : FileIsCurrent(v)'
  BY <1>1, <1>6 DEF GrantsInvariant, FileIsCurrent
<1>11. \A g \in grants' : value'[g[2]] > 0
  BY <1>1, <1>2, <1>3 DEF GrantsInvariant
<1> QED BY <1>1, <1>4, <1>9, <1>10, <1>11, NoOpKeepsGrants

LEMMA StutterKeepsGrants ==
    ASSUME GrantsInvariant, UNCHANGED grantVars
    PROVE  GrantsInvariant'
<1>1. UNCHANGED <<value, deleted, grants, space, tmpfs, tab, op, begun, stale>>
  BY DEF grantVars
<1>2. \A w : Granted(w)' = Granted(w)
  BY <1>1, GrantedKept
<1>3. \A s : Affected(s)' = Affected(s)
  BY <1>1, GrantedKept
<1>4. \A w : Attached(w)' <=> Attached(w)
  BY <1>1 DEF Attached
<1>5. SecretGrantsTypeOK'
  BY <1>1 DEF GrantsInvariant, SecretGrantsTypeOK
<1>6. \A u \in Mutations : LeavesAlone(u)
  BY <1>1, <1>2, <1>3, <1>4 DEF LeavesAlone, GrantsInvariant, SoundOp
<1>7. \A w \in Spaces \ stale' : FileIsCurrent(w)'
  BY <1>1, <1>2 DEF GrantsInvariant, FileIsCurrent
<1> QED BY <1>1, <1>5, <1>6, <1>7, NoOpKeepsGrants DEF GrantsInvariant

LEMMA InitGrants == SecretGrantsInit => GrantsInvariant
<1> SUFFICES ASSUME SecretGrantsInit PROVE GrantsInvariant
  OBVIOUS
<1>1. op = [o \in Mutations |-> NoOp] /\ space = [w \in Spaces |-> [at |-> "stopped", grants |-> {}]]
      /\ tab = [w \in Spaces |-> NoTab] /\ tmpfs = [w \in Spaces |-> {}]
  BY DEF SecretGrantsInit
<1>2. value \in [Secrets -> {0, 1}] /\ deleted = {} /\ begun = 0 /\ stale = {}
      /\ grants \in SUBSET (Spaces \X {s \in Secrets : value[s] = 1})
  BY DEF SecretGrantsInit
<1>3. {} \in GrantSet
  BY DEF GrantSet
<1>4. NoOp \in OpRecord /\ SoundOp(NoOp) /\ Exclusive(NoOp, NoOp)
  BY DEF NoOp, OpRecord, SoundOp, Exclusive
<1>5. NoTab \in [open : BOOLEAN, redacts : GrantSet, exposed : BOOLEAN]
  BY <1>3 DEF NoTab
<1>6. space \in [Spaces -> [at : {"running", "suspending", "stopped", "configuring"}, grants : GrantSet]]
      /\ \A w \in Spaces : space[w].at = "stopped"
  BY <1>1, <1>3
<1>7. grants \subseteq Spaces \X Secrets /\ \A g \in grants : value[g[2]] > 0
  BY <1>2
<1> HIDE DEF NoOp, NoTab
<1>8. SecretGrantsTypeOK
  BY <1>1, <1>2, <1>3, <1>4, <1>5, <1>6, <1>7, SecretGrantsAssumption DEF SecretGrantsTypeOK
<1>9. \A w \in Spaces : FileIsCurrent(w)
  BY <1>6 DEF FileIsCurrent
<1> QED BY <1>1, <1>4, <1>7, <1>8, <1>9 DEF GrantsInvariant

LEMMA StepsKeepGrants == GrantsInvariant /\ [SecretGrantsNext]_grantVars => GrantsInvariant'
<1> SUFFICES ASSUME GrantsInvariant, [SecretGrantsNext]_grantVars PROVE GrantsInvariant'
  OBVIOUS
<1>1. CASE \E o \in Mutations :
              \/ \E s \in Secrets, kind \in {"update", "delete"} : BeginSecret(o, s, kind)
              \/ \E s \in Secrets, w \in Spaces, kind \in {"grant", "revoke"} : BeginGrant(o, s, w, kind)
              \/ \E w \in Spaces : BeginLaunch(o, w)
  BY <1>1, BeginningsKeepGrants, Zenon
<1>2. CASE \E o \in Mutations : Lock(o) \/ Return(o)
  BY <1>2, LockKeepsGrants
<1>3. CASE \E o \in Mutations : Mutate(o)
  BY <1>3, MutateKeepsGrants
<1>4. CASE \E o \in Mutations, w \in Spaces : Sync(o, w) \/ SyncFails(o, w)
  BY <1>4, SyncKeepsGrants
<1>5. CASE \E o \in Mutations : OpenTerminal(o)
  BY <1>5, OpenKeepsGrants
<1>6. CASE \E s \in Secrets : CreateSecret(s)
  BY <1>6, CreateKeepsGrants
<1>7. CASE \E w \in Spaces : ProcessStarts(w)
  BY <1>7, ProcessKeepsGrants
<1>8. CASE \E w \in Spaces : Suspending(w) \/ Drain(w) \/ Resume(w) \/ Configured(w)
  BY <1>8, SpacesKeepGrants
<1>9. CASE UNCHANGED grantVars
  BY <1>9, StutterKeepsGrants
<1> QED BY <1>1, <1>2, <1>3, <1>4, <1>5, <1>6, <1>7, <1>8, <1>9, Zenon DEF SecretGrantsNext

(* For any number of secrets, workspaces and operations: when a terminal has   *)
(* just been opened, the file its process will load holds what is granted and  *)
(* nothing else, and the redactor of its output knows every value of it,       *)
(* whatever grants, rotations, deletions, suspensions and failures race the    *)
(* launch (application/secrets.go:188-264, terminals.go:320-411).              *)
THEOREM LaunchesAreCurrent == SecretGrantsSpec => []LaunchIsCurrent
<1>1. GrantsInvariant => LaunchIsCurrent
  <2> SUFFICES ASSUME GrantsInvariant PROVE LaunchIsCurrent
    OBVIOUS
  <2>1. \A o \in Mutations : op[o].at = "opened" =>
          \A w \in op[o].held : tmpfs[w] = {Granted(w)} /\ tab[w].redacts = Granted(w)
    BY DEF GrantsInvariant, SoundOp
  <2>2. \A w \in Spaces \ stale :
          space[w].at = "running" /\ ~Busy(w) => \A file \in tmpfs[w] : file = Granted(w)
    BY DEF GrantsInvariant, FileIsCurrent
  <2> QED BY <2>1, <2>2, Zenon DEF LaunchIsCurrent
<1> QED BY <1>1, InitGrants, StepsKeepGrants, PTL DEF SecretGrantsSpec

-----------------------------------------------------------------------------
(* Checkpoints *)

LEMMA ArchiveDomain ==
    ASSUME NEW a \in Archives
    PROVE  DOMAIN a \subseteq Files /\ \A p \in DOMAIN a : a[p] \in Contents \cup {Absent}
BY DEF Archives

LEMMA ArchiveMade ==
    ASSUME NEW paths \in SUBSET Files, NEW a \in [paths -> Contents \cup {Absent}]
    PROVE  a \in Archives
BY DEF Archives

LEMMA EmptyArchive == <<>> \in Archives /\ DOMAIN <<>> = {}
<1>1. <<>> \in [{} -> Contents \cup {Absent}] /\ DOMAIN <<>> = {}
  OBVIOUS
<1> QED BY <1>1 DEF Archives

LEMMA NoWorkIsWork ==
    NoWork \in Work /\ NoWork.at = "idle" /\ NoWork.kind = "none" /\ NoWork.archive = <<>>
BY EmptyArchive DEF NoWork, Work

LEMMA NoHelperIsHelper ==
    NoHelper \in Helper /\ NoHelper.at = "idle" /\ DOMAIN NoHelper.archive = {}
    /\ NoHelper.undo = {}
BY EmptyArchive DEF NoHelper, Helper

LEMMA OldestIsLeast ==
    ASSUME NEW ids \in SUBSET Nat, ids # {}
    PROVE  Oldest(ids) \in ids /\ \A j \in ids : Oldest(ids) <= j
<1>1. \E i \in ids : \A j \in ids : i <= j
  BY LeastElement
<1> QED BY <1>1 DEF Oldest

\* Pruning never takes the latest checkpoint: it is not expired, and it is the
\* oldest only where there is no surplus.
LEMMA PruneSparesLatest ==
    ASSUME StoreFacts, nextId - 1 \in jsons
    PROVE  \A full \in BOOLEAN : PruneNext(full) \subseteq jsons /\ nextId - 1 \notin PruneNext(full)
<1> TAKE full \in BOOLEAN
<1> DEFINE kept == {i \in jsons : i > horizon \/ i = nextId - 1}
           many == Cardinality(kept) > MaxCheckpoints \/ (full /\ Cardinality(kept) > 1)
           surplus == IF many THEN {Oldest(kept)} ELSE {}
<1>1. jsons \in SUBSET Nat /\ \A i \in jsons : i \in Nat /\ i <= nextId - 1
  BY DEF StoreFacts
<1>2. nextId - 1 \in kept /\ kept \subseteq jsons
  OBVIOUS
<1>3. PruneNext(full) = (jsons \ kept) \cup surplus
  BY DEF PruneNext
<1> HIDE DEF kept
<1>4. kept = {nextId - 1} => Cardinality(kept) = 1
  BY FS_Singleton
<1>5. Oldest(kept) \in kept /\ \A j \in kept : Oldest(kept) <= j
  BY <1>1, <1>2, OldestIsLeast
<1>6. ASSUME many PROVE Oldest(kept) # nextId - 1
  <2>1. kept # {nextId - 1}
    BY <1>4, <1>6, CheckpointsAssumption
  <2>2. PICK i \in kept : i # nextId - 1
    BY <1>2, <2>1
  <2>3. i \in Nat /\ i <= nextId - 1 /\ nextId \in Nat
    BY <1>1, <1>2, <2>2 DEF StoreFacts
  <2> QED BY <1>5, <2>2, <2>3
<1> QED BY <1>2, <1>3, <1>5, <1>6

\* What a step that stays away from the files and the helper leaves.
LEMMA RestoreLeftAlone ==
    ASSUME RestoreFacts, tree' = tree, helper' = helper
    PROVE  RestoreFacts'
<1>1. HelperFacts'
  BY DEF RestoreFacts, HelperFacts
<1>2. PathFacts'
  BY DEF RestoreFacts, PathFacts
<1>3. RestoreIsAllOrNothing'
  BY DEF RestoreFacts, RestoreIsAllOrNothing
<1> QED BY <1>1, <1>2, <1>3 DEF RestoreFacts

LEMMA StoreLeftAlone ==
    ASSUME StoreFacts, UNCHANGED <<delta, jsons, zips, nextId, acked>>,
           tree' \in [Files -> Contents \cup {Absent}]
    PROVE  StoreFacts'
BY DEF StoreFacts

LEMMA WorkEnded ==
    ASSUME WorkEnds
    PROVE  WorkFacts'
BY NoWorkIsWork DEF WorkEnds, WorkIs, WorkFacts

LEMMA WorkLeftAlone ==
    ASSUME WorkFacts, UNCHANGED <<work, nextId, jsons, zips>>
    PROVE  WorkFacts'
BY DEF WorkFacts

\* An operation begins: nothing but its record changes.
LEMMA BeginKeepsCheckpoints ==
    ASSUME RecoveryInvariant, UNCHANGED <<tree, edits, storeVars, helper, acked>>,
           work' \in Work, work'.at = "export",
           work'.kind = "file" => DOMAIN work'.archive = work'.paths
    PROVE  RecoveryInvariant'
<1>1. UNCHANGED <<delta, jsons, zips, nextId, acked, tree, helper>>
  BY DEF storeVars
<1>2. tree' \in [Files -> Contents \cup {Absent}]
  BY <1>1 DEF RecoveryInvariant, StoreFacts
<1>3. StoreFacts' /\ RestoreFacts'
  BY <1>1, <1>2, StoreLeftAlone, RestoreLeftAlone DEF RecoveryInvariant
<1>4. WorkFacts'
  BY DEF WorkFacts
<1> QED BY <1>3, <1>4 DEF RecoveryInvariant

LEMMA BeginCreateKeeps ==
    ASSUME RecoveryInvariant, BeginCreate
    PROVE  RecoveryInvariant'
<1>1. Changed \in SUBSET Files
  BY DEF Changed
<1>2. work' = [NoWork EXCEPT !.at = "export", !.kind = "create", !.paths = Changed]
  BY DEF BeginCreate, WorkIs
<1>3. work' \in Work /\ work'.at = "export" /\ work'.kind = "create"
  BY <1>1, <1>2, NoWorkIsWork DEF Work
<1>4. UNCHANGED <<tree, edits, storeVars, helper, acked>>
  BY DEF BeginCreate
<1> QED BY <1>3, <1>4, BeginKeepsCheckpoints

LEMMA BeginDiscardKeeps ==
    ASSUME RecoveryInvariant, NEW paths \in SUBSET Files, BeginDiscard(paths)
    PROVE  RecoveryInvariant'
<1>2. work' = [NoWork EXCEPT !.at = "export", !.kind = "discard", !.paths = paths]
  BY DEF BeginDiscard, WorkIs
<1>3. work' \in Work /\ work'.at = "export" /\ work'.kind = "discard"
  BY <1>2, NoWorkIsWork DEF Work
<1>4. UNCHANGED <<tree, edits, storeVars, helper, acked>>
  BY DEF BeginDiscard
<1> QED BY <1>3, <1>4, BeginKeepsCheckpoints

LEMMA BeginWorkspaceKeeps ==
    ASSUME RecoveryInvariant, NEW id \in 1..MaxIds, BeginWorkspace(id)
    PROVE  RecoveryInvariant'
<1>1. delta[id] \in Archives /\ DOMAIN delta[id] \in SUBSET Files
  BY ArchiveDomain DEF RecoveryInvariant, StoreFacts
<1>2. work' = [NoWork EXCEPT !.at = "export", !.kind = "workspace", !.paths = DOMAIN delta[id],
                             !.archive = delta[id]]
  BY DEF BeginWorkspace, WorkIs
<1>3. work' \in Work /\ work'.at = "export" /\ work'.kind = "workspace"
  BY <1>1, <1>2, NoWorkIsWork DEF Work
<1>4. UNCHANGED <<tree, edits, storeVars, helper, acked>>
  BY DEF BeginWorkspace
<1> QED BY <1>3, <1>4, BeginKeepsCheckpoints

LEMMA BeginFileKeeps ==
    ASSUME RecoveryInvariant, NEW id \in 1..MaxIds, NEW p \in Files, BeginFile(id, p)
    PROVE  RecoveryInvariant'
<1>1. delta[id][p] \in Contents \cup {Absent}
  BY ArchiveDomain DEF RecoveryInvariant, StoreFacts, BeginFile
<1>2. PICK a \in [{p} -> Contents \cup {Absent}] : a = [q \in {p} |-> delta[id][p]]
  BY <1>1
<1>3. a \in Archives /\ DOMAIN a = {p} /\ {p} \in SUBSET Files
  BY ArchiveMade
<1>4. work' = [NoWork EXCEPT !.at = "export", !.kind = "file", !.paths = {p}, !.archive = a]
  BY <1>2 DEF BeginFile, WorkIs
<1>5. work' \in Work /\ work'.at = "export" /\ work'.paths = {p} /\ work'.archive = a
  BY <1>3, <1>4, NoWorkIsWork DEF Work
<1>6. UNCHANGED <<tree, edits, storeVars, helper, acked>>
  BY DEF BeginFile
<1> QED BY <1>3, <1>5, <1>6, BeginKeepsCheckpoints

\* The next step of an operation: its position and its identity move.
LEMMA WorkMoves ==
    ASSUME RecoveryInvariant, StoreFacts', tree' = tree, helper' = helper,
           NEW at \in {"archive", "metadata", "prune", "unlink", "apply", "await"}, NEW id \in Nat,
           work' \in Work, work'.at = at, work'.id = id, work'.kind = work.kind,
           work'.archive = work.archive, work'.paths = work.paths,
           at \in {"archive", "metadata", "prune"} => id = nextId' - 1,
           at \in {"archive", "metadata"} => id > 0,
           at \in {"archive", "metadata", "unlink"} => id \notin jsons',
           at = "metadata" => id \in zips',
           at \in {"prune", "unlink"} => nextId' - 1 \in jsons',
           at = "apply" => id \in jsons'
    PROVE  RecoveryInvariant'
<1>1. work.kind = "file" => DOMAIN work.archive = work.paths
  BY DEF RecoveryInvariant, WorkFacts
<1>2. WorkFacts'
  BY <1>1 DEF WorkFacts
<1> QED BY <1>2, RestoreLeftAlone DEF RecoveryInvariant

LEMMA ExportKeeps ==
    ASSUME RecoveryInvariant, Export
    PROVE  RecoveryInvariant'
<1>1. StoreFacts /\ work \in Work /\ UNCHANGED <<tree, jsons, zips, acked, helper>>
  BY DEF RecoveryInvariant, WorkFacts, Export
<1>2. CASE WorkEnds /\ UNCHANGED <<delta, version, nextId>>
  <2>1. StoreFacts'
    BY <1>1, <1>2 DEF StoreFacts
  <2> QED BY <1>1, <1>2, <2>1, RestoreLeftAlone, WorkEnded DEF RecoveryInvariant
<1>3. CASE ~(WorkEnds /\ UNCHANGED <<delta, version, nextId>>)
  <2>1. PICK paths \in SUBSET Files :
           /\ delta' = [delta EXCEPT ![nextId] = [p \in paths |-> tree[p]]]
           /\ nextId' = nextId + 1
           /\ work' = [work EXCEPT !.at = "archive", !.id = nextId]
    <3>1. Changed \in SUBSET Files /\ work.paths \in SUBSET Files
      BY <1>1 DEF Changed, Work
    <3> QED BY <1>3, <3>1, Zenon DEF Export, WorkIs
  <2>2. [p \in paths |-> tree[p]] \in Archives
    <3>1. [p \in paths |-> tree[p]] \in [paths -> Contents \cup {Absent}]
      BY <1>1 DEF StoreFacts
    <3> QED BY <3>1, ArchiveMade
  <2>3. delta' \in [1..MaxIds -> Archives]
    BY <1>1, <2>1, <2>2 DEF StoreFacts
  <2>4. nextId \in Nat /\ nextId' - 1 = nextId /\ nextId \notin jsons'
    BY <1>1, <2>1 DEF StoreFacts
  <2>5. StoreFacts'
    <3>1. \A i \in 0..nextId - 1 : i \in 0..nextId' - 1
      BY <1>1, <2>1 DEF StoreFacts
    <3>2. nextId' \in Nat \ {0}
      BY <1>1, <2>1 DEF StoreFacts
    <3>3. \A i \in 1..nextId - 1 : i \in 1..nextId' - 1
      BY <1>1, <2>1 DEF StoreFacts
    <3> QED BY <1>1, <2>3, <3>1, <3>2, <3>3 DEF StoreFacts
  <2>6. work' \in Work /\ work'.at = "archive" /\ work'.id = nextId /\ work'.kind = work.kind
        /\ work'.archive = work.archive /\ work'.paths = work.paths
    BY <1>1, <2>1, <2>4 DEF Work
  <2>7. nextId > 0
    BY <1>1 DEF StoreFacts
  <2> QED BY <1>1, <2>4, <2>5, <2>6, <2>7, WorkMoves
<1> QED BY <1>2, <1>3

LEMMA WriteArchiveKeeps ==
    ASSUME RecoveryInvariant, WriteArchive
    PROVE  RecoveryInvariant'
<1>1. /\ StoreFacts /\ work \in Work /\ UNCHANGED <<tree, delta, jsons, nextId, acked, helper>>
      /\ zips' = zips \cup {work.id} /\ work.id = nextId - 1 /\ work.id \notin jsons
      /\ work.id > 0
  BY DEF RecoveryInvariant, WorkFacts, WriteArchive
<1>2. StoreFacts'
  BY <1>1 DEF StoreFacts
<1>3. work' = [work EXCEPT !.at = "metadata"]
  BY DEF WriteArchive, WorkIs
<1>4. work' \in Work /\ work'.at = "metadata" /\ work'.id = work.id /\ work'.kind = work.kind
      /\ work'.archive = work.archive /\ work'.paths = work.paths /\ work.id \in Nat
  BY <1>1, <1>3 DEF Work
<1> QED BY <1>1, <1>2, <1>4, WorkMoves

LEMMA WriteMetadataKeeps ==
    ASSUME RecoveryInvariant, WriteMetadata
    PROVE  RecoveryInvariant'
<1>1. /\ StoreFacts /\ work \in Work /\ UNCHANGED <<tree, delta, nextId, acked, helper>>
      /\ work.id = nextId - 1 /\ work.id \notin jsons /\ work.id \in zips /\ work.id > 0
  BY DEF RecoveryInvariant, WorkFacts, WriteMetadata
<1>2. CASE jsons' = jsons \cup {work.id} /\ UNCHANGED zips /\ WorkIs([work EXCEPT !.at = "prune"])
  <2>1. work.id \in 1..nextId - 1
    BY <1>1 DEF StoreFacts
  <2>2. StoreFacts'
    BY <1>1, <1>2, <2>1 DEF StoreFacts
  <2>3. work' = [work EXCEPT !.at = "prune"] /\ nextId' - 1 \in jsons'
    BY <1>1, <1>2 DEF WorkIs
  <2>4. work' \in Work /\ work'.at = "prune" /\ work'.id = work.id /\ work'.kind = work.kind
        /\ work'.archive = work.archive /\ work'.paths = work.paths /\ work.id \in Nat
    BY <1>1, <2>3 DEF Work
  <2>5. nextId' - 1 \in jsons' /\ work.id = nextId' - 1 /\ tree' = tree /\ helper' = helper
    BY <1>1, <2>3
  <2> QED BY <2>2, <2>4, <2>5, WorkMoves
<1>3. CASE zips' \in {zips, zips \ {work.id}} /\ UNCHANGED jsons /\ WorkEnds
  <2>1. StoreFacts'
    BY <1>1, <1>3 DEF StoreFacts
  <2> QED BY <1>1, <1>3, <2>1, RestoreLeftAlone, WorkEnded DEF RecoveryInvariant
<1> QED BY <1>2, <1>3 DEF WriteMetadata, WorkFails

LEMMA PruneMetadataKeeps ==
    ASSUME RecoveryInvariant, NEW id \in 1..MaxIds, PruneMetadata(id)
    PROVE  RecoveryInvariant'
<1>1. /\ StoreFacts /\ work \in Work /\ UNCHANGED <<tree, delta, zips, nextId, acked, helper>>
      /\ jsons' = jsons \ {id} /\ (\E full \in BOOLEAN : id \in PruneNext(full))
      /\ nextId - 1 \in jsons
  BY DEF RecoveryInvariant, WorkFacts, PruneMetadata
<1>2. nextId - 1 \in jsons'
  BY <1>1, PruneSparesLatest
<1>3. StoreFacts'
  BY <1>1, <1>2 DEF StoreFacts
<1>4. id \in Nat /\ id \notin jsons' /\ nextId' - 1 \in jsons'
  BY <1>1, <1>2
<1>5. work' = [work EXCEPT !.at = "unlink", !.id = id]
  BY DEF PruneMetadata, WorkIs
<1>6. work' \in Work /\ work'.at = "unlink" /\ work'.id = id /\ work'.kind = work.kind
      /\ work'.archive = work.archive /\ work'.paths = work.paths
  BY <1>1, <1>4, <1>5 DEF Work
<1> QED BY <1>1, <1>3, <1>4, <1>6, WorkMoves

LEMMA PruneArchiveKeeps ==
    ASSUME RecoveryInvariant, PruneArchive
    PROVE  RecoveryInvariant'
<1>1. /\ StoreFacts /\ work \in Work /\ UNCHANGED <<tree, delta, jsons, nextId, acked, helper>>
      /\ zips' = zips \ {work.id} /\ work.id \notin jsons /\ nextId - 1 \in jsons
  BY DEF RecoveryInvariant, WorkFacts, PruneArchive
<1>2. StoreFacts' /\ nextId - 1 \in Nat
  BY <1>1 DEF StoreFacts
<1>3. work' = [work EXCEPT !.at = "prune", !.id = nextId - 1]
  BY DEF PruneArchive, WorkIs
<1>4. work' \in Work /\ work'.at = "prune" /\ work'.id = nextId - 1 /\ work'.kind = work.kind
      /\ work'.archive = work.archive /\ work'.paths = work.paths
  BY <1>1, <1>2, <1>3 DEF Work
<1> QED BY <1>1, <1>2, <1>4, WorkMoves

LEMMA PersistedKeeps ==
    ASSUME RecoveryInvariant, Persisted
    PROVE  RecoveryInvariant'
<1>1. /\ StoreFacts /\ work \in Work /\ UNCHANGED <<tree, delta, jsons, zips, nextId, helper>>
      /\ acked' = work.id /\ work.id = nextId - 1 /\ nextId - 1 \in jsons
  BY DEF RecoveryInvariant, WorkFacts, Persisted, storeVars
<1>2. StoreFacts'
  BY <1>1 DEF StoreFacts
<1>3. CASE WorkEnds
  BY <1>1, <1>2, <1>3, RestoreLeftAlone, WorkEnded DEF RecoveryInvariant
<1>4. CASE WorkIs([work EXCEPT !.at = "apply"])
  <2>1. work' = [work EXCEPT !.at = "apply"]
    BY <1>4 DEF WorkIs
  <2>2. work' \in Work /\ work'.at = "apply" /\ work'.id = work.id /\ work'.kind = work.kind
        /\ work'.archive = work.archive /\ work'.paths = work.paths /\ work.id \in Nat
    BY <1>1, <2>1 DEF Work
  <2> QED BY <1>1, <1>2, <2>2, WorkMoves
<1> QED BY <1>3, <1>4 DEF Persisted

\* A path that somebody else writes is no longer the restore's to answer for.
LEMMA TouchKeepsRestore ==
    ASSUME RestoreFacts, NEW S \in SUBSET Files, \A q \in Files \ S : tree'[q] = tree[q], Touch(S)
    PROVE  RestoreFacts'
<1>1. helper \in Helper /\ DOMAIN helper.archive \subseteq Files
  <2>1. helper \in Helper /\ helper.archive \in Archives
    BY DEF RestoreFacts, HelperFacts, Helper
  <2> QED BY <2>1, ArchiveDomain
<1>2. helper' = [helper EXCEPT !.touched = @ \cup S]
  BY DEF Touch
<1>3. /\ helper' \in Helper /\ helper'.at = helper.at /\ helper'.archive = helper.archive
      /\ helper'.todo = helper.todo /\ helper'.journal = helper.journal
      /\ helper'.undo = helper.undo /\ helper'.before = helper.before
      /\ helper'.report = helper.report /\ helper'.touched = helper.touched \cup S
  BY <1>1, <1>2 DEF Helper
<1>4. HelperFacts'
  BY <1>3 DEF RestoreFacts, HelperFacts
<1>5. ASSUME NEW p \in DOMAIN helper'.archive \ helper'.touched
      PROVE  p \in DOMAIN helper.archive \ helper.touched /\ tree'[p] = tree[p]
  BY <1>1, <1>3, <1>5
<1>6. PathFacts'
  BY <1>3, <1>5 DEF RestoreFacts, PathFacts
<1>7. RestoreIsAllOrNothing'
  BY <1>3, <1>5 DEF RestoreFacts, RestoreIsAllOrNothing
<1> QED BY <1>4, <1>6, <1>7 DEF RestoreFacts

LEMMA ApplyFileKeeps ==
    ASSUME RecoveryInvariant, ApplyFile
    PROVE  RecoveryInvariant'
<1>1. /\ StoreFacts /\ work \in Work /\ UNCHANGED <<delta, jsons, zips, nextId, acked>>
      /\ DOMAIN work.archive = work.paths /\ WorkEnds /\ Touch(work.paths)
      /\ tree \in [Files -> Contents \cup {Absent}]
  BY DEF RecoveryInvariant, StoreFacts, WorkFacts, ApplyFile, storeVars
<1>2. work.archive \in Archives /\ work.paths \in SUBSET Files
  BY <1>1 DEF Work
<1>3. \A p \in DOMAIN work.archive : work.archive[p] \in Contents \cup {Absent}
  BY <1>2, ArchiveDomain
<1>4. tree' = [p \in Files |-> IF p \in DOMAIN work.archive THEN work.archive[p] ELSE tree[p]]
  BY DEF ApplyFile
<1>5. /\ tree' \in [Files -> Contents \cup {Absent}]
      /\ \A q \in Files \ work.paths : tree'[q] = tree[q]
  BY <1>1, <1>3, <1>4
<1>6. RestoreFacts'
  BY <1>1, <1>2, <1>5, TouchKeepsRestore DEF RecoveryInvariant
<1>7. StoreFacts' /\ WorkFacts'
  BY <1>1, <1>5, StoreLeftAlone, WorkEnded
<1> QED BY <1>6, <1>7 DEF RecoveryInvariant

LEMMA ApplyDiscardKeeps ==
    ASSUME RecoveryInvariant, NEW done \in SUBSET Files, ApplyDiscard(done)
    PROVE  RecoveryInvariant'
<1>1. /\ StoreFacts /\ UNCHANGED <<delta, jsons, zips, nextId, acked, work>> /\ Touch(done)
      /\ tree \in [Files -> Contents \cup {Absent}]
      /\ tree' = [p \in Files |-> IF p \in done THEN HeadContent ELSE tree[p]]
  BY DEF RecoveryInvariant, StoreFacts, ApplyDiscard, storeVars
<1>2. tree' \in [Files -> Contents \cup {Absent}] /\ \A q \in Files \ done : tree'[q] = tree[q]
  BY <1>1, CheckpointsAssumption
<1>3. RestoreFacts'
  BY <1>1, <1>2, TouchKeepsRestore DEF RecoveryInvariant
<1>4. StoreFacts' /\ WorkFacts'
  BY <1>1, <1>2, StoreLeftAlone, WorkLeftAlone DEF RecoveryInvariant
<1> QED BY <1>3, <1>4 DEF RecoveryInvariant

LEMMA EditKeeps ==
    ASSUME RecoveryInvariant, NEW p \in Files, NEW c \in Contents \cup {Absent}, Edit(p, c)
    PROVE  RecoveryInvariant'
<1>1. /\ StoreFacts /\ UNCHANGED <<delta, jsons, zips, nextId, acked, work>> /\ Touch({p})
      /\ tree \in [Files -> Contents \cup {Absent}] /\ tree' = [tree EXCEPT ![p] = c]
  BY DEF RecoveryInvariant, StoreFacts, Edit, storeVars
<1>2. tree' \in [Files -> Contents \cup {Absent}] /\ \A q \in Files \ {p} : tree'[q] = tree[q]
  BY <1>1
<1>3. RestoreFacts'
  BY <1>1, <1>2, TouchKeepsRestore DEF RecoveryInvariant
<1>4. StoreFacts' /\ WorkFacts'
  BY <1>1, <1>2, StoreLeftAlone, WorkLeftAlone DEF RecoveryInvariant
<1> QED BY <1>3, <1>4 DEF RecoveryInvariant

LEMMA RestoreStartsKeeps ==
    ASSUME RecoveryInvariant, RestoreStarts
    PROVE  RecoveryInvariant'
<1>1. /\ StoreFacts /\ work \in Work /\ UNCHANGED <<tree, delta, jsons, zips, nextId, acked>>
      /\ tree \in [Files -> Contents \cup {Absent}]
      /\ (work.kind = "file" => DOMAIN work.archive = work.paths)
  BY DEF RecoveryInvariant, StoreFacts, WorkFacts, RestoreStarts, storeVars
<1>2. /\ work.archive \in Archives /\ DOMAIN work.archive \in SUBSET Files /\ tree \in Archives
      /\ <<>> \in Archives /\ DOMAIN <<>> = {}
  <2>1. work.archive \in Archives
    BY <1>1 DEF Work
  <2> QED BY <1>1, <2>1, ArchiveDomain, ArchiveMade, EmptyArchive
<1>3. /\ helper' = [NoHelper EXCEPT !.at = "apply", !.archive = work.archive,
                                   !.todo = DOMAIN work.archive, !.before = tree]
      /\ work' = [work EXCEPT !.at = "await"]
  BY DEF RestoreStarts, WorkIs
<1>4. /\ helper' \in Helper /\ helper'.at = "apply" /\ helper'.archive = work.archive
      /\ helper'.todo = DOMAIN work.archive /\ helper'.journal = <<>> /\ helper'.undo = {}
      /\ helper'.before = tree /\ helper'.report = "none"
  BY <1>2, <1>3 DEF NoHelper, Helper
<1>5. HelperFacts'
  BY <1>2, <1>4 DEF HelperFacts
<1>6. PathFacts'
  BY <1>1, <1>2, <1>4 DEF PathFacts
<1>7. RestoreIsAllOrNothing'
  BY <1>1, <1>4 DEF RestoreIsAllOrNothing
<1>8. /\ work' \in Work /\ work'.at = "await" /\ work'.kind = work.kind
      /\ work'.archive = work.archive /\ work'.paths = work.paths
  BY <1>1, <1>3 DEF Work
<1>9. WorkFacts'
  BY <1>1, <1>8 DEF WorkFacts
<1>10. StoreFacts'
  BY <1>1, StoreLeftAlone
<1> QED BY <1>5, <1>6, <1>7, <1>9, <1>10 DEF RecoveryInvariant, RestoreFacts

\* What a step of the helper leaves of the rest.
LEMMA HelperStepLeaves ==
    ASSUME RecoveryInvariant, UNCHANGED <<edits, storeVars, work, acked>>,
           tree' \in [Files -> Contents \cup {Absent}], RestoreFacts'
    PROVE  RecoveryInvariant'
<1>1. UNCHANGED <<delta, jsons, zips, nextId, acked, work>>
  BY DEF storeVars
<1> QED BY <1>1, StoreLeftAlone, WorkLeftAlone DEF RecoveryInvariant

LEMMA HelperTyped ==
    ASSUME RecoveryInvariant
    PROVE  /\ helper \in Helper /\ tree \in [Files -> Contents \cup {Absent}]
           /\ helper.archive \in Archives /\ helper.journal \in Archives
           /\ DOMAIN helper.archive \subseteq Files /\ DOMAIN helper.journal \subseteq Files
           /\ \A p \in DOMAIN helper.archive : helper.archive[p] \in Contents \cup {Absent}
           /\ \A p \in DOMAIN helper.journal : helper.journal[p] \in Contents \cup {Absent}
<1>1. helper \in Helper /\ tree \in [Files -> Contents \cup {Absent}]
  BY DEF RecoveryInvariant, StoreFacts, RestoreFacts, HelperFacts
<1>2. helper.archive \in Archives /\ helper.journal \in Archives
  BY <1>1 DEF Helper
<1> QED BY <1>1, <1>2, ArchiveDomain

LEMMA SetAsideKeeps ==
    ASSUME RecoveryInvariant, NEW p \in Files, SetAside(p)
    PROVE  RecoveryInvariant'
<1> DEFINE journal == [q \in DOMAIN helper.journal \cup {p} |->
                         IF q = p THEN tree[p] ELSE helper.journal[q]]
<1>1. /\ helper \in Helper /\ tree \in [Files -> Contents \cup {Absent}]
      /\ DOMAIN helper.journal \subseteq Files
      /\ \A q \in DOMAIN helper.journal : helper.journal[q] \in Contents \cup {Absent}
      /\ DOMAIN helper.archive \subseteq Files
  BY HelperTyped
<1>2. journal \in Archives /\ DOMAIN journal = DOMAIN helper.journal \cup {p}
  <2>1. journal \in [DOMAIN helper.journal \cup {p} -> Contents \cup {Absent}]
    BY <1>1
  <2> QED BY <1>1, <2>1, ArchiveMade
<1>3. /\ journal[p] = tree[p]
      /\ \A q \in DOMAIN helper.journal : q # p => journal[q] = helper.journal[q]
  OBVIOUS
<1>4. helper' = [helper EXCEPT !.at = "place", !.undo = {p}, !.journal = journal]
  BY <1>1 DEF SetAside, Helper
<1> HIDE DEF journal
<1>5. /\ helper' \in Helper /\ helper'.at = "place" /\ helper'.archive = helper.archive
      /\ helper'.todo = helper.todo /\ helper'.journal = journal /\ helper'.undo = {p}
      /\ helper'.before = helper.before /\ helper'.report = helper.report
      /\ helper'.touched = helper.touched
  BY <1>1, <1>2, <1>4 DEF Helper
<1>6. /\ helper.at = "apply" /\ p \in helper.todo /\ tree' = [tree EXCEPT ![p] = Absent]
      /\ UNCHANGED <<edits, storeVars, work, acked>>
  BY DEF SetAside
<1>7. /\ tree' \in [Files -> Contents \cup {Absent}] /\ tree'[p] = Absent
      /\ \A q \in Files : q # p => tree'[q] = tree[q]
  BY <1>1, <1>6
<1>8. HelperFacts /\ PathFacts /\ RestoreIsAllOrNothing
  BY DEF RecoveryInvariant, RestoreFacts
<1>9. /\ helper.todo \subseteq DOMAIN helper.archive /\ helper.undo = {}
      /\ DOMAIN helper.journal = DOMAIN helper.archive \ helper.todo
      /\ helper.report = "none" /\ p \notin DOMAIN helper.journal
  BY <1>6, <1>8 DEF HelperFacts
<1>10. HelperFacts'
  BY <1>2, <1>5, <1>6, <1>9 DEF HelperFacts
<1>11. ASSUME NEW q \in DOMAIN helper.archive \ helper.touched
       PROVE  /\ q \notin DOMAIN journal => tree'[q] = helper.before[q]
              /\ q \in DOMAIN journal =>
                   /\ journal[q] = helper.before[q]
                   /\ q = p => tree'[q] = Absent
                   /\ q # p => tree'[q] = helper.archive[q]
  <2>1. /\ q \notin DOMAIN helper.journal => tree[q] = helper.before[q]
        /\ q \in DOMAIN helper.journal => /\ helper.journal[q] = helper.before[q]
                                          /\ tree[q] = helper.archive[q]
    BY <1>6, <1>8, <1>9, <1>11 DEF PathFacts
  <2> QED BY <1>1, <1>2, <1>3, <1>7, <1>9, <1>11, <2>1
<1>12. PathFacts'
  BY <1>5, <1>11 DEF PathFacts
<1>13. RestoreIsAllOrNothing'
  BY <1>5, <1>9, <1>11 DEF RestoreIsAllOrNothing
<1> QED BY <1>6, <1>7, <1>10, <1>12, <1>13, HelperStepLeaves DEF RestoreFacts

LEMMA PlaceKeeps ==
    ASSUME RecoveryInvariant, NEW p \in Files, Place(p)
    PROVE  RecoveryInvariant'
<1>1. /\ helper \in Helper /\ tree \in [Files -> Contents \cup {Absent}]
      /\ DOMAIN helper.archive \subseteq Files
      /\ \A q \in DOMAIN helper.archive : helper.archive[q] \in Contents \cup {Absent}
  BY HelperTyped
<1>2. /\ helper.at = "place" /\ helper.undo = {p}
      /\ helper' = [helper EXCEPT !.at = "apply", !.undo = {}, !.todo = @ \ {p}]
      /\ UNCHANGED <<edits, storeVars, work, acked>>
  BY DEF Place
<1>3. /\ helper' \in Helper /\ helper'.at = "apply" /\ helper'.archive = helper.archive
      /\ helper'.todo = helper.todo \ {p} /\ helper'.journal = helper.journal
      /\ helper'.undo = {} /\ helper'.before = helper.before
      /\ helper'.report = helper.report /\ helper'.touched = helper.touched
  BY <1>1, <1>2 DEF Helper
<1>4. HelperFacts /\ PathFacts /\ RestoreIsAllOrNothing
  BY DEF RecoveryInvariant, RestoreFacts
<1>5. /\ helper.todo \subseteq DOMAIN helper.archive /\ p \in helper.todo
      /\ DOMAIN helper.journal = (DOMAIN helper.archive \ helper.todo) \cup {p}
      /\ helper.report = "none"
  BY <1>2, <1>4 DEF HelperFacts
<1>6. /\ tree' \in [Files -> Contents \cup {Absent}]
      /\ helper.archive[p] # Absent => tree'[p] = helper.archive[p]
      /\ helper.archive[p] = Absent => tree'[p] = tree[p]
      /\ \A q \in Files : q # p => tree'[q] = tree[q]
  <2>1. CASE helper.archive[p] = Absent
    <3>1. tree' = tree
      BY <2>1 DEF Place
    <3> QED BY <1>1, <2>1, <3>1
  <2>2. CASE helper.archive[p] # Absent
    <3>1. tree' = [tree EXCEPT ![p] = helper.archive[p]]
      BY <2>2 DEF Place
    <3>2. helper.archive[p] \in Contents \cup {Absent}
      BY <1>1, <1>5
    <3> QED BY <1>1, <2>2, <3>1, <3>2
  <2> QED BY <2>1, <2>2
<1>7. HelperFacts'
  BY <1>3, <1>5 DEF HelperFacts
<1>8. ASSUME NEW q \in DOMAIN helper.archive \ helper.touched
      PROVE  /\ q \notin DOMAIN helper.journal => tree'[q] = helper.before[q]
             /\ q \in DOMAIN helper.journal =>
                  /\ helper.journal[q] = helper.before[q]
                  /\ tree'[q] = helper.archive[q]
  <2>1. /\ q \notin DOMAIN helper.journal => tree[q] = helper.before[q]
        /\ q \in DOMAIN helper.journal => /\ helper.journal[q] = helper.before[q]
                                          /\ q = p => tree[q] = Absent
                                          /\ q # p => tree[q] = helper.archive[q]
    BY <1>2, <1>4, <1>8 DEF PathFacts
  <2> QED BY <1>1, <1>5, <1>6, <1>8, <2>1
<1>9. PathFacts'
  BY <1>3, <1>8 DEF PathFacts
<1>10. RestoreIsAllOrNothing'
  BY <1>3, <1>5, <1>8 DEF RestoreIsAllOrNothing
<1> QED BY <1>2, <1>6, <1>7, <1>9, <1>10, HelperStepLeaves DEF RestoreFacts

LEMMA RestoredKeeps ==
    ASSUME RecoveryInvariant, Restored
    PROVE  RecoveryInvariant'
<1>1. helper \in Helper /\ tree \in [Files -> Contents \cup {Absent}] /\ <<>> \in Archives
  BY HelperTyped, EmptyArchive
<1>2. /\ helper.at = "apply" /\ helper.todo = {} /\ tree' = tree
      /\ helper' = [helper EXCEPT !.at = "done", !.journal = <<>>, !.report = "restored"]
      /\ UNCHANGED <<edits, storeVars, work, acked>>
  BY DEF Restored
<1>3. /\ helper' \in Helper /\ helper'.at = "done" /\ helper'.archive = helper.archive
      /\ helper'.undo = helper.undo /\ helper'.report = "restored"
      /\ helper'.touched = helper.touched
  BY <1>1, <1>2 DEF Helper
<1>4. HelperFacts /\ PathFacts
  BY DEF RecoveryInvariant, RestoreFacts
<1>5. helper.undo = {} /\ DOMAIN helper.journal = DOMAIN helper.archive
  BY <1>2, <1>4 DEF HelperFacts
<1>6. \A p \in DOMAIN helper.archive \ helper.touched : tree[p] = helper.archive[p]
  BY <1>2, <1>4, <1>5 DEF PathFacts
<1>7. HelperFacts' /\ PathFacts'
  BY <1>3, <1>5 DEF HelperFacts, PathFacts
<1>8. RestoreIsAllOrNothing'
  BY <1>2, <1>3, <1>6 DEF RestoreIsAllOrNothing
<1> QED BY <1>1, <1>2, <1>7, <1>8, HelperStepLeaves DEF RestoreFacts

LEMMA ApplyFailsKeeps ==
    ASSUME RecoveryInvariant, ApplyFails
    PROVE  RecoveryInvariant'
<1>1. /\ helper \in Helper /\ tree \in [Files -> Contents \cup {Absent}]
      /\ DOMAIN helper.journal \in SUBSET Files
  BY HelperTyped
<1>2. /\ helper.at \in {"apply", "place"} /\ tree' = tree
      /\ helper' = [helper EXCEPT !.at = "rollback", !.undo = DOMAIN helper.journal]
      /\ UNCHANGED <<edits, storeVars, work, acked>>
  BY DEF ApplyFails
<1>3. /\ helper' \in Helper /\ helper'.at = "rollback" /\ helper'.archive = helper.archive
      /\ helper'.journal = helper.journal /\ helper'.undo = DOMAIN helper.journal
      /\ helper'.before = helper.before /\ helper'.report = helper.report
      /\ helper'.touched = helper.touched
  BY <1>1, <1>2 DEF Helper
<1>4. HelperFacts /\ PathFacts /\ RestoreIsAllOrNothing
  BY DEF RecoveryInvariant, RestoreFacts
<1>5. DOMAIN helper.journal \subseteq DOMAIN helper.archive /\ helper.report = "none"
  BY <1>2, <1>4 DEF HelperFacts
<1>6. HelperFacts'
  BY <1>3, <1>5 DEF HelperFacts
<1>7. PathFacts'
  BY <1>2, <1>3, <1>4 DEF PathFacts
<1>8. RestoreIsAllOrNothing'
  BY <1>2, <1>3, <1>4 DEF RestoreIsAllOrNothing
<1> QED BY <1>1, <1>2, <1>6, <1>7, <1>8, HelperStepLeaves DEF RestoreFacts

LEMMA UndoRecordKeeps ==
    ASSUME RecoveryInvariant, NEW p \in Files, UndoRecord(p)
    PROVE  RecoveryInvariant'
<1>1. /\ helper \in Helper /\ tree \in [Files -> Contents \cup {Absent}]
      /\ DOMAIN helper.archive \subseteq Files
      /\ \A q \in DOMAIN helper.journal : helper.journal[q] \in Contents \cup {Absent}
  BY HelperTyped
<1>2. /\ helper.at = "rollback" /\ p \in helper.undo
      /\ tree' = [tree EXCEPT ![p] = helper.journal[p]]
      /\ helper' = [helper EXCEPT !.undo = @ \ {p}]
      /\ UNCHANGED <<edits, storeVars, work, acked>>
  BY DEF UndoRecord
<1>3. /\ helper' \in Helper /\ helper'.at = helper.at /\ helper'.archive = helper.archive
      /\ helper'.journal = helper.journal /\ helper'.undo = helper.undo \ {p}
      /\ helper'.before = helper.before /\ helper'.report = helper.report
      /\ helper'.touched = helper.touched
  BY <1>1, <1>2 DEF Helper
<1>4. HelperFacts /\ PathFacts /\ RestoreIsAllOrNothing
  BY DEF RecoveryInvariant, RestoreFacts
<1>5. helper.undo \subseteq DOMAIN helper.journal /\ helper.report = "none"
  BY <1>2, <1>4 DEF HelperFacts
<1>6. /\ tree' \in [Files -> Contents \cup {Absent}] /\ tree'[p] = helper.journal[p]
      /\ \A q \in Files : q # p => tree'[q] = tree[q]
  <2>1. helper.journal[p] \in Contents \cup {Absent}
    BY <1>1, <1>2, <1>5
  <2> QED BY <1>1, <1>2, <2>1
<1>7. HelperFacts'
  BY <1>2, <1>3, <1>4, <1>5 DEF HelperFacts
<1>8. ASSUME NEW q \in DOMAIN helper.archive \ helper.touched
      PROVE  /\ q \in helper.undo => helper.journal[q] = helper.before[q]
             /\ q \notin helper.undo \ {p} => tree'[q] = helper.before[q]
  <2>1. /\ q \in helper.undo => helper.journal[q] = helper.before[q]
        /\ q \notin helper.undo => tree[q] = helper.before[q]
    BY <1>2, <1>4, <1>8 DEF PathFacts
  <2> QED BY <1>1, <1>2, <1>6, <1>8, <2>1
<1>9. PathFacts'
  BY <1>2, <1>3, <1>8 DEF PathFacts
<1>10. RestoreIsAllOrNothing'
  BY <1>3, <1>5, <1>8 DEF RestoreIsAllOrNothing
<1> QED BY <1>2, <1>6, <1>7, <1>9, <1>10, HelperStepLeaves DEF RestoreFacts

LEMMA RolledBackKeeps ==
    ASSUME RecoveryInvariant, RolledBack
    PROVE  RecoveryInvariant'
<1>1. helper \in Helper /\ tree \in [Files -> Contents \cup {Absent}] /\ <<>> \in Archives
  BY HelperTyped, EmptyArchive
<1>2. /\ helper.at = "rollback" /\ helper.undo = {} /\ tree' = tree
      /\ helper' = [helper EXCEPT !.at = "done", !.journal = <<>>, !.report = "rolledBack"]
      /\ UNCHANGED <<edits, storeVars, work, acked>>
  BY DEF RolledBack
<1>3. /\ helper' \in Helper /\ helper'.at = "done" /\ helper'.archive = helper.archive
      /\ helper'.undo = helper.undo /\ helper'.report = "rolledBack"
      /\ helper'.before = helper.before /\ helper'.touched = helper.touched
  BY <1>1, <1>2 DEF Helper
<1>4. PathFacts
  BY DEF RecoveryInvariant, RestoreFacts
<1>5. \A p \in DOMAIN helper.archive \ helper.touched : tree[p] = helper.before[p]
  BY <1>2, <1>4 DEF PathFacts
<1>6. HelperFacts' /\ PathFacts'
  BY <1>2, <1>3 DEF HelperFacts, PathFacts
<1>7. RestoreIsAllOrNothing'
  BY <1>2, <1>3, <1>5 DEF RestoreIsAllOrNothing
<1> QED BY <1>1, <1>2, <1>6, <1>7, HelperStepLeaves DEF RestoreFacts

\* The helper stops where it is; its journal stays.
LEMMA RestoreInterrupted ==
    ASSUME RecoveryInvariant, tree' = tree, UNCHANGED <<edits, storeVars, work, acked>>,
           helper.at \in {"apply", "place", "rollback"},
           NEW at \in {"done", "killed"},
           helper' = [helper EXCEPT !.at = at, !.report = "incomplete"]
    PROVE  RecoveryInvariant'
<1>1. helper \in Helper /\ tree' \in [Files -> Contents \cup {Absent}]
  BY HelperTyped
<1>2. /\ helper' \in Helper /\ helper'.at = at /\ helper'.archive = helper.archive
      /\ helper'.undo = helper.undo /\ helper'.report = "incomplete"
      /\ helper'.before = helper.before /\ helper'.touched = helper.touched
      /\ helper'.journal = helper.journal
  BY <1>1 DEF Helper
<1>3. HelperFacts /\ PathFacts /\ RestoreIsAllOrNothing
  BY DEF RecoveryInvariant, RestoreFacts
<1>4. helper.report = "none" /\ helper.undo \subseteq DOMAIN helper.archive
  BY <1>3 DEF HelperFacts
<1>5. HelperFacts' /\ PathFacts'
  BY <1>2, <1>4 DEF HelperFacts, PathFacts
<1>6. RestoreIsAllOrNothing'
  BY <1>2, <1>3, <1>4 DEF RestoreIsAllOrNothing
<1> QED BY <1>1, <1>5, <1>6, HelperStepLeaves DEF RestoreFacts

LEMMA RollbackFailsKeeps ==
    ASSUME RecoveryInvariant, RollbackFails
    PROVE  RecoveryInvariant'
BY RestoreInterrupted DEF RollbackFails

LEMMA HelperKilledKeeps ==
    ASSUME RecoveryInvariant, HelperKilled
    PROVE  RecoveryInvariant'
BY RestoreInterrupted DEF HelperKilled

\* The operation ends, with an answer or without one.
LEMMA EndsKeeps ==
    ASSUME RecoveryInvariant, WorkEnds, UNCHANGED <<tree, edits, storeVars, helper, acked>>
    PROVE  RecoveryInvariant'
<1>1. UNCHANGED <<delta, jsons, zips, nextId, acked, tree, helper>>
  BY DEF storeVars
<1>2. tree' \in [Files -> Contents \cup {Absent}]
  BY <1>1 DEF RecoveryInvariant, StoreFacts
<1> QED BY <1>1, <1>2, StoreLeftAlone, RestoreLeftAlone, WorkEnded DEF RecoveryInvariant

\* The clock, a damaged archive, or nothing at all.
LEMMA CheckpointsIdle ==
    ASSUME RecoveryInvariant,
           UNCHANGED <<tree, edits, delta, zips, jsons, nextId, work, helper, acked>>
    PROVE  RecoveryInvariant'
<1>1. tree' \in [Files -> Contents \cup {Absent}]
  BY DEF RecoveryInvariant, StoreFacts
<1> QED BY <1>1, StoreLeftAlone, RestoreLeftAlone, WorkLeftAlone DEF RecoveryInvariant

LEMMA CheckpointsInitHolds == CheckpointsInit => RecoveryInvariant
<1> SUFFICES ASSUME CheckpointsInit PROVE RecoveryInvariant
  OBVIOUS
<1>1. PICK legacy \in {{}, {1}}, c \in Contents :
         /\ delta = [i \in 1..MaxIds |-> IF i \in legacy THEN [p \in Files |-> c] ELSE <<>>]
         /\ zips = legacy /\ jsons = legacy /\ nextId = Cardinality(legacy) + 1
         /\ acked = Cardinality(legacy)
  BY DEF CheckpointsInit
<1>2. Cardinality({}) = 0 /\ Cardinality({1}) = 1
  BY FS_EmptySet, FS_Singleton
<1>3. [p \in Files |-> c] \in Archives /\ <<>> \in Archives
  <2>1. [p \in Files |-> c] \in [Files -> Contents \cup {Absent}]
    OBVIOUS
  <2> QED BY <2>1, ArchiveMade, EmptyArchive
<1>4. delta \in [1..MaxIds -> Archives]
  BY <1>1, <1>3
<1>5. tree \in [Files -> Contents \cup {Absent}]
  BY CheckpointsAssumption DEF CheckpointsInit
<1>6. StoreFacts
  <2>1. CASE legacy = {}
    BY <1>1, <1>2, <1>4, <1>5, <2>1 DEF StoreFacts
  <2>2. CASE legacy = {1}
    BY <1>1, <1>2, <1>4, <1>5, <2>2 DEF StoreFacts
  <2> QED BY <2>1, <2>2
<1>7. work = NoWork /\ helper = NoHelper
  BY DEF CheckpointsInit
<1>8. WorkFacts
  BY <1>7, NoWorkIsWork DEF WorkFacts
<1>9. RestoreFacts
  BY <1>7, NoHelperIsHelper DEF RestoreFacts, HelperFacts, PathFacts, RestoreIsAllOrNothing
<1> QED BY <1>6, <1>8, <1>9 DEF RecoveryInvariant

LEMMA CheckpointsNextKeeps ==
    ASSUME RecoveryInvariant, [CheckpointsNext]_checkpointVars
    PROVE  RecoveryInvariant'
<1>1. CASE UNCHANGED checkpointVars
  BY <1>1, CheckpointsIdle DEF checkpointVars
<1>2. CASE BeginCreate
  BY <1>2, BeginCreateKeeps
<1>3. CASE Export
  BY <1>3, ExportKeeps
<1>4. CASE WriteArchive
  BY <1>4, WriteArchiveKeeps
<1>5. CASE WriteMetadata
  BY <1>5, WriteMetadataKeeps
<1>6. CASE PruneArchive
  BY <1>6, PruneArchiveKeeps
<1>7. CASE Persisted
  BY <1>7, PersistedKeeps
<1>8. ASSUME NEW paths \in SUBSET Files, BeginDiscard(paths) PROVE RecoveryInvariant'
  BY <1>8, BeginDiscardKeeps
<1>9. ASSUME NEW paths \in SUBSET Files, ApplyDiscard(paths) PROVE RecoveryInvariant'
  BY <1>9, ApplyDiscardKeeps
<1>10. ASSUME NEW id \in 1..MaxIds, BeginWorkspace(id) PROVE RecoveryInvariant'
  BY <1>10, BeginWorkspaceKeeps
<1>11. ASSUME NEW id \in 1..MaxIds, PruneMetadata(id) PROVE RecoveryInvariant'
  BY <1>11, PruneMetadataKeeps
<1>12. ASSUME NEW id \in 1..MaxIds, Rot(id) PROVE RecoveryInvariant'
  BY <1>12, CheckpointsIdle DEF Rot
<1>13. ASSUME NEW id \in 1..MaxIds, NEW p \in Files, BeginFile(id, p) PROVE RecoveryInvariant'
  BY <1>13, BeginFileKeeps
<1>14. CASE ApplyFile
  BY <1>14, ApplyFileKeeps
<1>15. CASE RestoreStarts
  BY <1>15, RestoreStartsKeeps
<1>16. CASE Restored
  BY <1>16, RestoredKeeps
<1>17. CASE ApplyFails
  BY <1>17, ApplyFailsKeeps
<1>18. CASE RolledBack
  BY <1>18, RolledBackKeeps
<1>19. CASE RollbackFails
  BY <1>19, RollbackFailsKeeps
<1>20. ASSUME NEW p \in Files, SetAside(p) PROVE RecoveryInvariant'
  BY <1>20, SetAsideKeeps
<1>21. ASSUME NEW p \in Files, Place(p) PROVE RecoveryInvariant'
  BY <1>21, PlaceKeeps
<1>22. ASSUME NEW p \in Files, UndoRecord(p) PROVE RecoveryInvariant'
  BY <1>22, UndoRecordKeeps
<1>23. CASE HelperKilled
  BY <1>23, HelperKilledKeeps
<1>24. CASE Answered
  BY <1>24, EndsKeeps DEF Answered
<1>25. CASE GiveUp
  BY <1>25, EndsKeeps DEF GiveUp, WorkFails
<1>25a. CASE DiscardAbandoned
  BY <1>25a, CheckpointsIdle DEF DiscardAbandoned, storeVars
<1>26. CASE Age
  BY <1>26, CheckpointsIdle DEF Age
<1>27. ASSUME NEW p \in Files, NEW c \in Contents \cup {Absent}, Edit(p, c)
       PROVE  RecoveryInvariant'
  BY <1>27, EditKeeps
<1> QED BY <1>1, <1>2, <1>3, <1>4, <1>5, <1>6, <1>7, <1>8, <1>9, <1>10, <1>11, <1>12, <1>13,
           <1>14, <1>15, <1>16, <1>17, <1>18, <1>19, <1>20, <1>21, <1>22, <1>23, <1>24, <1>25,
           <1>25a, <1>26, <1>27, Zenon DEF CheckpointsNext

\* A discard whose checkpoints stay as they are, over an unchanged workspace.
LEMMA DiscardLeftAlone ==
    ASSUME DiscardFacts, UNCHANGED <<tree, delta, nextId, discard>>,
           discard.at = "protect" <=> work'.kind = "discard" /\ work'.at \in Persisting,
           discard.at = "apply" => (work' = NoWork \/ work'.kind = "create") /\ acked' >= discard.id
    PROVE  DiscardFacts'
<1>1. ASSUME NEW i \in discard.id..nextId - 1, discard.at \in {"protect", "apply"}
      PROVE  Covers(i, discard.paths \ discard.touched)'
  <2>1. Covers(i, discard.paths \ discard.touched)
    BY <1>1 DEF DiscardFacts
  <2> QED BY <2>1 DEF Covers
<1> QED BY <1>1 DEF DiscardFacts

\* A discard that is over has nothing to answer for.
LEMMA DiscardOver ==
    ASSUME DiscardFacts, discard' \in {NoDiscard, [NoDiscard EXCEPT !.at = "orphan", !.paths = discard.paths]},
           ~(work'.kind = "discard" /\ work'.at \in Persisting)
    PROVE  DiscardFacts'
<1>1. discard.paths \in SUBSET Files
  BY DEF DiscardFacts
<1>2. PICK at \in {"idle", "orphan"}, paths \in SUBSET Files :
         discard' = [at |-> at, paths |-> paths, id |-> 0, touched |-> {}]
  <2>1. CASE discard' = NoDiscard
    BY <2>1 DEF NoDiscard
  <2>2. CASE discard' = [NoDiscard EXCEPT !.at = "orphan", !.paths = discard.paths]
    <3>1. discard' = [at |-> "orphan", paths |-> discard.paths, id |-> 0, touched |-> {}]
      BY <2>2 DEF NoDiscard
    <3> QED BY <1>1, <3>1
  <2> QED BY <2>1, <2>2
<1> QED BY <1>2 DEF DiscardFacts

\* An operation of another kind than a discard, or one that has yet to export.
LEMMA WorkLeavesDiscard ==
    ASSUME DiscardFacts, UNCHANGED <<tree, delta, nextId, discard>>, discard.at # "protect",
           work'.kind # "discard" \/ work'.at \notin Persisting,
           discard.at = "apply" => work' = NoWork \/ work'.kind = "create", acked' = acked
    PROVE  DiscardFacts'
BY DiscardLeftAlone DEF DiscardFacts

\* The operation ends without a checkpoint.
LEMMA FailureEndsDiscard ==
    ASSUME DiscardFacts, UNCHANGED <<tree, delta, nextId, acked>>, WorkFails
    PROVE  DiscardFacts'
<1>1. work' = NoWork /\ NoWork.kind = "none" /\ NoWork.at = "idle"
  BY NoWorkIsWork DEF WorkFails, WorkEnds, WorkIs
<1>2. CASE discard.at = "protect"
  BY <1>1, <1>2, DiscardOver DEF WorkFails, DiscardIs
<1>3. CASE discard.at # "protect"
  BY <1>1, <1>3, WorkLeavesDiscard DEF WorkFails, DiscardIs
<1> QED BY <1>2, <1>3

LEMMA BeginsLeaveDiscard ==
    ASSUME CheckpointsInvariant, UNCHANGED <<tree, edits, storeVars, discard, helper, acked>>, work = NoWork,
           work'.at = "export", discard.at # "apply" \/ work'.kind = "create"
    PROVE  DiscardFacts'
<1>1. DiscardFacts /\ UNCHANGED <<tree, delta, nextId, discard, acked>>
  BY DEF CheckpointsInvariant, storeVars
<1>2. discard.at # "protect"
  BY <1>1, NoWorkIsWork DEF DiscardFacts
<1> QED BY <1>1, <1>2, WorkLeavesDiscard DEF Persisting

LEMMA BeginCreateLeaves ==
    ASSUME CheckpointsInvariant, BeginCreate
    PROVE  DiscardFacts'
<1>1. /\ work' = [NoWork EXCEPT !.at = "export", !.kind = "create", !.paths = Changed]
      /\ work = NoWork /\ UNCHANGED <<tree, edits, storeVars, discard, helper, acked>>
  BY DEF BeginCreate, WorkIs
<1>2. work'.at = "export" /\ work'.kind = "create"
  BY <1>1, NoWorkIsWork DEF Work
<1> QED BY <1>1, <1>2, BeginsLeaveDiscard

LEMMA BeginDiscardLeaves ==
    ASSUME CheckpointsInvariant, NEW paths \in SUBSET Files, BeginDiscard(paths)
    PROVE  DiscardFacts'
<1>1. /\ work' = [NoWork EXCEPT !.at = "export", !.kind = "discard", !.paths = paths]
      /\ work = NoWork /\ UNCHANGED <<tree, edits, storeVars, discard, helper, acked>>
      /\ discard.at # "apply"
  BY DEF BeginDiscard, WorkIs
<1>2. work'.at = "export"
  BY <1>1, NoWorkIsWork DEF Work
<1> QED BY <1>1, <1>2, BeginsLeaveDiscard

LEMMA BeginWorkspaceLeaves ==
    ASSUME CheckpointsInvariant, NEW id \in 1..MaxIds, BeginWorkspace(id)
    PROVE  DiscardFacts'
<1>1. /\ work' = [NoWork EXCEPT !.at = "export", !.kind = "workspace", !.paths = DOMAIN delta[id],
                                !.archive = delta[id]]
      /\ work = NoWork /\ UNCHANGED <<tree, edits, storeVars, discard, helper, acked>>
      /\ discard.at # "apply"
  BY DEF BeginWorkspace, WorkIs, MutationFree
<1>2. work'.at = "export"
  BY <1>1, NoWorkIsWork DEF Work
<1> QED BY <1>1, <1>2, BeginsLeaveDiscard

LEMMA BeginFileLeaves ==
    ASSUME CheckpointsInvariant, NEW id \in 1..MaxIds, NEW p \in Files, BeginFile(id, p)
    PROVE  DiscardFacts'
<1>1. /\ work' = [NoWork EXCEPT !.at = "export", !.kind = "file", !.paths = {p},
                                !.archive = [q \in {p} |-> delta[id][p]]]
      /\ work = NoWork /\ UNCHANGED <<tree, edits, storeVars, discard, helper, acked>>
      /\ discard.at # "apply"
  BY DEF BeginFile, WorkIs, MutationFree
<1>2. work'.at = "export"
  BY <1>1, NoWorkIsWork DEF Work
<1> QED BY <1>1, <1>2, BeginsLeaveDiscard

\* The new checkpoint has every change there is, and the older ones stay.
LEMMA ExportCovers ==
    ASSUME CheckpointsInvariant, Export
    PROVE  DiscardFacts'
<1>1. /\ DiscardFacts /\ StoreFacts /\ work \in Work /\ UNCHANGED <<tree, acked>>
      /\ work.at = "export" /\ nextId <= MaxIds
  BY DEF CheckpointsInvariant, RecoveryInvariant, WorkFacts, Export
<1>2. discard.at # "protect"
  BY <1>1 DEF DiscardFacts, Persisting
<1>3. CASE WorkEnds /\ UNCHANGED <<delta, version, nextId, discard>>
  <2>1. work' = NoWork /\ work'.kind = "none"
    BY <1>3, NoWorkIsWork DEF WorkEnds, WorkIs
  <2> QED BY <1>1, <1>2, <1>3, <2>1, WorkLeavesDiscard
<1>4. CASE ~(WorkEnds /\ UNCHANGED <<delta, version, nextId, discard>>)
  <2> DEFINE paths == IF work.kind \in {"file", "workspace"} /\ work.paths # {} THEN work.paths
                      ELSE Changed
  <2>1. /\ delta' = [delta EXCEPT ![nextId] = [p \in paths |-> tree[p]]]
        /\ nextId' = nextId + 1
        /\ work' = [work EXCEPT !.at = "archive", !.id = nextId]
        /\ IF work.kind = "discard"
             THEN discard' = [NoDiscard EXCEPT !.at = "protect", !.paths = work.paths, !.id = nextId]
             ELSE discard' = discard
    BY <1>4, Zenon DEF Export, WorkIs, DiscardIs
  <2>2. work'.kind = work.kind /\ work'.at = "archive"
    BY <1>1, <2>1 DEF Work
  <2>3. nextId \in Nat \ {0} /\ nextId \in DOMAIN delta /\ nextId' - 1 = nextId
    BY <1>1, <2>1 DEF StoreFacts
  <2>4. delta'[nextId] = [p \in paths |-> tree[p]] /\ \A i \in 1..nextId - 1 : delta'[i] = delta[i]
    BY <1>1, <2>1, <2>3 DEF StoreFacts
  <2>5. ASSUME work.kind \in {"create", "discard"}, NEW p \in Files, tree'[p] # HeadContent
        PROVE  p \in DOMAIN delta'[nextId] /\ delta'[nextId][p] = tree'[p]
    <3>1. paths = Changed
      BY <2>5
    <3>2. p \in paths
      BY <1>1, <2>5, <3>1 DEF Changed
    <3> HIDE DEF paths
    <3> QED BY <1>1, <2>4, <3>2
  <2> HIDE DEF paths
  <2>6. CASE work.kind = "discard"
    <3>1. discard' = [at |-> "protect", paths |-> work.paths, id |-> nextId, touched |-> {}]
      BY <2>1, <2>6 DEF NoDiscard
    <3>2. work.paths \in SUBSET Files
      BY <1>1 DEF Work
    <3>3. \A i \in discard'.id..nextId' - 1 : i = nextId
      BY <2>3, <3>1
    <3>4. discard'.paths \ discard'.touched \in SUBSET Files
      BY <3>1, <3>2
    <3>5. \A p \in discard'.paths \ discard'.touched :
             tree'[p] # HeadContent => p \in DOMAIN delta'[nextId] /\ delta'[nextId][p] = tree'[p]
      BY <2>5, <2>6, <3>4
    <3> QED BY <2>2, <2>3, <2>6, <3>1, <3>2, <3>3, <3>5 DEF DiscardFacts, Covers, Persisting
  <2>7. CASE work.kind # "discard"
    <3>1. discard' = discard
      BY <2>1, <2>7
    <3>2. CASE discard.at # "apply"
      BY <1>1, <1>2, <2>2, <2>7, <3>1, <3>2 DEF DiscardFacts
    <3>3. CASE discard.at = "apply"
      <4>1. /\ work.kind = "create" /\ acked >= discard.id /\ discard.id \in 1..nextId - 1
            /\ discard.paths \ discard.touched \in SUBSET Files
            /\ \A i \in discard.id..nextId - 1 : Covers(i, discard.paths \ discard.touched)
        BY <1>1, <3>3, NoWorkIsWork DEF DiscardFacts
      <4>2. ASSUME NEW i \in discard.id..nextId, NEW p \in discard.paths \ discard.touched,
                   tree'[p] # HeadContent
            PROVE  p \in DOMAIN delta'[i] /\ delta'[i][p] = tree'[p]
        <5>1. CASE i = nextId
          BY <2>5, <4>1, <4>2, <5>1
        <5>2. CASE i # nextId
          <6>1. i \in discard.id..nextId - 1 /\ i \in 1..nextId - 1
            BY <2>3, <4>1, <4>2, <5>2
          <6>2. Covers(i, discard.paths \ discard.touched) /\ delta'[i] = delta[i]
            BY <2>4, <4>1, <6>1
          <6> QED BY <1>1, <4>2, <6>2 DEF Covers
        <5> QED BY <5>1, <5>2
      <4>3. discard.id \in 1..nextId' - 1
        BY <2>3, <4>1
      <4> QED BY <1>1, <1>2, <2>2, <2>3, <3>1, <3>3, <4>1, <4>2, <4>3 DEF DiscardFacts, Covers
    <3> QED BY <3>2, <3>3
  <2> QED BY <2>6, <2>7
<1> QED BY <1>3, <1>4

\* The steps from the archive to the last pruning stay within the operation.
LEMMA PersistingLeavesDiscard ==
    ASSUME CheckpointsInvariant, NEW at \in Persisting, work.at \in Persisting,
           work'.at = at, work'.kind = work.kind, UNCHANGED <<tree, delta, nextId, discard, acked>>
    PROVE  DiscardFacts'
<1>1. DiscardFacts
  BY DEF CheckpointsInvariant
<1>2. discard.at = "apply" => work.kind = "create" /\ acked >= discard.id
  BY <1>1, NoWorkIsWork DEF DiscardFacts, Persisting
<1>3. discard.at = "protect" <=> work'.kind = "discard" /\ work'.at \in Persisting
  BY <1>1 DEF DiscardFacts
<1> QED BY <1>1, <1>2, <1>3, DiscardLeftAlone

LEMMA WriteArchiveLeaves ==
    ASSUME CheckpointsInvariant, WriteArchive
    PROVE  DiscardFacts'
<1>1. /\ work \in Work /\ work' = [work EXCEPT !.at = "metadata"] /\ work.at = "archive"
      /\ UNCHANGED <<tree, delta, nextId, discard, acked>>
  BY DEF CheckpointsInvariant, RecoveryInvariant, WorkFacts, WriteArchive, WorkIs
<1>2. work'.at = "metadata" /\ work'.kind = work.kind
  BY <1>1 DEF Work
<1> QED BY <1>1, <1>2, PersistingLeavesDiscard DEF Persisting

LEMMA WriteMetadataLeaves ==
    ASSUME CheckpointsInvariant, WriteMetadata
    PROVE  DiscardFacts'
<1>1. /\ work \in Work /\ work.at = "metadata" /\ UNCHANGED <<tree, delta, nextId, acked>>
      /\ DiscardFacts
  BY DEF CheckpointsInvariant, RecoveryInvariant, WorkFacts, WriteMetadata
<1>2. CASE work' = [work EXCEPT !.at = "prune"] /\ UNCHANGED discard
  <2>1. work'.at = "prune" /\ work'.kind = work.kind
    BY <1>1, <1>2 DEF Work
  <2> QED BY <1>1, <1>2, <2>1, PersistingLeavesDiscard DEF Persisting
<1>3. CASE WorkFails
  BY <1>1, <1>3, FailureEndsDiscard
<1> QED BY <1>2, <1>3 DEF WriteMetadata, WorkIs

LEMMA PruneMetadataLeaves ==
    ASSUME CheckpointsInvariant, NEW id \in 1..MaxIds, PruneMetadata(id)
    PROVE  DiscardFacts'
<1>1. /\ work \in Work /\ work' = [work EXCEPT !.at = "unlink", !.id = id] /\ work.at = "prune"
      /\ UNCHANGED <<tree, delta, nextId, discard, acked>>
  BY DEF CheckpointsInvariant, RecoveryInvariant, WorkFacts, PruneMetadata, WorkIs
<1>2. work'.at = "unlink" /\ work'.kind = work.kind
  BY <1>1 DEF Work
<1> QED BY <1>1, <1>2, PersistingLeavesDiscard DEF Persisting

LEMMA PruneArchiveLeaves ==
    ASSUME CheckpointsInvariant, PruneArchive
    PROVE  DiscardFacts'
<1>1. /\ work \in Work /\ work' = [work EXCEPT !.at = "prune", !.id = nextId - 1] /\ work.at = "unlink"
      /\ UNCHANGED <<tree, delta, nextId, discard, acked>>
  BY DEF CheckpointsInvariant, RecoveryInvariant, WorkFacts, PruneArchive, WorkIs
<1>2. work'.at = "prune" /\ work'.kind = work.kind
  BY <1>1 DEF Work
<1> QED BY <1>1, <1>2, PersistingLeavesDiscard DEF Persisting

\* The gate is released, and the discard goes on without it.
LEMMA PersistedLeavesDiscard ==
    ASSUME CheckpointsInvariant, Persisted
    PROVE  DiscardFacts'
<1>1. /\ DiscardFacts /\ StoreFacts /\ work \in Work /\ UNCHANGED <<tree, delta, nextId>>
      /\ work.at = "prune" /\ acked' = nextId - 1
  BY DEF CheckpointsInvariant, RecoveryInvariant, WorkFacts, Persisted, storeVars
<1>2. discard.at \in {"protect", "apply"} => discard.id \in 1..nextId - 1 /\ acked' >= discard.id
  BY <1>1 DEF DiscardFacts, StoreFacts
<1>3. CASE work.kind = "discard"
  <2>1. discard.at = "protect" /\ discard' = [discard EXCEPT !.at = "apply"]
    BY <1>1, <1>3 DEF DiscardFacts, Persisting, Persisted, DiscardIs
  <2>2. /\ discard' \in [at : {"idle", "protect", "apply", "orphan"}, paths : SUBSET Files, id : Nat,
                         touched : SUBSET Files]
        /\ discard'.at = "apply" /\ discard'.id = discard.id /\ discard'.paths = discard.paths
        /\ discard'.touched = discard.touched
    BY <1>1, <2>1 DEF DiscardFacts
  <2>3. work' = NoWork /\ NoWork.kind = "none"
    BY <1>3, NoWorkIsWork DEF Persisted, WorkEnds, WorkIs
  <2>4. ASSUME NEW i \in discard'.id..nextId' - 1
        PROVE  Covers(i, discard.paths \ discard.touched)
    BY <1>1, <2>1, <2>2, <2>4 DEF DiscardFacts
  <2> QED BY <1>1, <1>2, <2>1, <2>2, <2>3, <2>4 DEF DiscardFacts, Covers
<1>4. CASE work.kind # "discard"
  <2>1. discard' = discard /\ discard.at # "protect"
    BY <1>1, <1>4 DEF DiscardFacts, Persisted
  <2>2. CASE discard.at = "apply"
    <3>1. work.kind = "create"
      BY <1>1, <2>2, NoWorkIsWork DEF DiscardFacts
    <3>2. work' = NoWork /\ NoWork.kind = "none"
      BY <3>1, NoWorkIsWork DEF Persisted, WorkEnds, WorkIs
    <3> QED BY <1>1, <1>2, <2>1, <2>2, <3>2, DiscardLeftAlone
  <2>3. CASE discard.at # "apply"
    <3>1. work' = NoWork \/ work' = [work EXCEPT !.at = "apply"]
      BY DEF Persisted, WorkEnds, WorkIs
    <3>2. ~(work'.kind = "discard" /\ work'.at \in Persisting)
      BY <1>1, <1>4, <3>1, NoWorkIsWork DEF Work
    <3> QED BY <1>1, <2>1, <2>3, <3>2, DiscardLeftAlone
  <2> QED BY <2>2, <2>3
<1> QED BY <1>3, <1>4

\* Another writer takes a path out of what the discard answers for.
LEMMA SeenByDiscard ==
    ASSUME CheckpointsInvariant, NEW p \in Files, DiscardSees({p}),
           \A q \in Files \ {p} : tree'[q] = tree[q], UNCHANGED <<delta, nextId, work, acked>>
    PROVE  DiscardFacts'
<1>1. DiscardFacts
  BY DEF CheckpointsInvariant
<1>2. CASE discard.at \in {"protect", "apply"}
  <2>1. discard' = [discard EXCEPT !.touched = @ \cup {p}]
    BY <1>2 DEF DiscardSees, DiscardIs
  <2>2. /\ discard' \in [at : {"idle", "protect", "apply", "orphan"}, paths : SUBSET Files, id : Nat,
                         touched : SUBSET Files]
        /\ discard'.at = discard.at /\ discard'.id = discard.id /\ discard'.paths = discard.paths
        /\ discard'.touched = discard.touched \cup {p}
    BY <1>1, <2>1 DEF DiscardFacts
  <2>3. ASSUME NEW i \in discard'.id..nextId' - 1,
               NEW q \in discard'.paths \ discard'.touched, tree'[q] # HeadContent
        PROVE  q \in DOMAIN delta'[i] /\ delta'[i][q] = tree'[q]
    <3>1. Covers(i, discard.paths \ discard.touched)
      BY <1>1, <1>2, <2>2, <2>3 DEF DiscardFacts
    <3>2. q \in discard.paths \ discard.touched /\ tree'[q] = tree[q]
      BY <2>2, <2>3
    <3> QED BY <2>3, <3>1, <3>2 DEF Covers
  <2> QED BY <1>1, <1>2, <2>2, <2>3 DEF DiscardFacts, Covers
<1>3. CASE discard.at \notin {"protect", "apply"}
  <2>1. discard' = discard
    BY <1>3 DEF DiscardSees, DiscardIs
  <2> QED BY <1>1, <1>3, <2>1 DEF DiscardFacts
<1> QED BY <1>2, <1>3

LEMMA PlaceIsSeen ==
    ASSUME CheckpointsInvariant, NEW p \in Files, Place(p)
    PROVE  DiscardFacts'
<1>1. /\ tree \in [Files -> Contents \cup {Absent}] /\ UNCHANGED <<delta, nextId, work, acked>>
      /\ DiscardSees({p})
      /\ tree' = tree \/ tree' = [tree EXCEPT ![p] = helper.archive[p]]
  BY DEF CheckpointsInvariant, RecoveryInvariant, StoreFacts, Place, storeVars
<1> QED BY <1>1, SeenByDiscard

LEMMA WritesAreSeen ==
    ASSUME CheckpointsInvariant, NEW p \in Files, NEW c, tree' = [tree EXCEPT ![p] = c],
           DiscardSees({p}), UNCHANGED <<storeVars, work, acked>>
    PROVE  DiscardFacts'
<1>1. tree \in [Files -> Contents \cup {Absent}] /\ UNCHANGED <<delta, nextId, work, acked>>
  BY DEF CheckpointsInvariant, RecoveryInvariant, StoreFacts, storeVars
<1> QED BY <1>1, SeenByDiscard

\* What changes neither the files, nor the store, nor an operation.
LEMMA DiscardIdle ==
    ASSUME CheckpointsInvariant, UNCHANGED <<tree, delta, nextId, discard, work, acked>>
    PROVE  DiscardFacts'
BY DiscardLeftAlone DEF CheckpointsInvariant, DiscardFacts

LEMMA ApplyFileLeaves ==
    ASSUME CheckpointsInvariant, ApplyFile
    PROVE  DiscardFacts'
<1>1. DiscardFacts /\ discard' = discard /\ work.at = "apply" /\ work.kind = "file" /\ work' = NoWork
  BY DEF CheckpointsInvariant, ApplyFile, WorkEnds, WorkIs
<1>2. discard.at \notin {"protect", "apply"}
  BY <1>1, NoWorkIsWork DEF DiscardFacts
<1> QED BY <1>1, <1>2, NoWorkIsWork DEF DiscardFacts

LEMMA RestoreStartsLeaves ==
    ASSUME CheckpointsInvariant, RestoreStarts
    PROVE  DiscardFacts'
<1>1. /\ DiscardFacts /\ work \in Work /\ discard' = discard /\ work.kind = "workspace"
      /\ work' = [work EXCEPT !.at = "await"]
  BY DEF CheckpointsInvariant, RecoveryInvariant, WorkFacts, RestoreStarts, WorkIs
<1>2. discard.at \notin {"protect", "apply"} /\ work'.kind = "workspace"
  BY <1>1, NoWorkIsWork DEF DiscardFacts, Work
<1> QED BY <1>1, <1>2 DEF DiscardFacts

LEMMA DiscardEnds ==
    ASSUME CheckpointsInvariant, DiscardAbandoned \/ \E done \in SUBSET Files : ApplyDiscard(done)
    PROVE  DiscardFacts'
<1>1. DiscardFacts /\ work' = work /\ discard.at # "protect"
  BY DEF CheckpointsInvariant, DiscardAbandoned, ApplyDiscard
<1>2. discard' \in {NoDiscard, [NoDiscard EXCEPT !.at = "orphan", !.paths = discard.paths]}
  BY DEF DiscardAbandoned, ApplyDiscard, DiscardIs
<1>3. ~(work'.kind = "discard" /\ work'.at \in Persisting)
  BY <1>1 DEF DiscardFacts
<1> QED BY <1>1, <1>2, <1>3, DiscardOver

LEMMA AnsweredLeaves ==
    ASSUME CheckpointsInvariant, Answered
    PROVE  DiscardFacts'
<1>1. /\ DiscardFacts /\ work' = NoWork /\ work.at = "await"
      /\ UNCHANGED <<tree, delta, nextId, discard, acked>>
  BY DEF CheckpointsInvariant, Answered, WorkEnds, WorkIs, storeVars
<1>2. discard.at # "protect"
  BY <1>1 DEF DiscardFacts, Persisting
<1> QED BY <1>1, <1>2, NoWorkIsWork, WorkLeavesDiscard

LEMMA GiveUpLeaves ==
    ASSUME CheckpointsInvariant, GiveUp
    PROVE  DiscardFacts'
<1>1. DiscardFacts /\ UNCHANGED <<tree, delta, nextId, acked>> /\ WorkFails
  BY DEF CheckpointsInvariant, GiveUp, storeVars
<1> QED BY <1>1, FailureEndsDiscard

LEMMA DiscardStaysRecoverable ==
    ASSUME CheckpointsInvariant, [CheckpointsNext]_checkpointVars
    PROVE  DiscardFacts'
<1>1. CASE UNCHANGED checkpointVars
  BY <1>1, DiscardIdle DEF checkpointVars
<1>2. CASE BeginCreate
  BY <1>2, BeginCreateLeaves
<1>3. CASE Export
  BY <1>3, ExportCovers
<1>4. CASE WriteArchive
  BY <1>4, WriteArchiveLeaves
<1>5. CASE WriteMetadata
  BY <1>5, WriteMetadataLeaves
<1>6. CASE PruneArchive
  BY <1>6, PruneArchiveLeaves
<1>7. CASE Persisted
  BY <1>7, PersistedLeavesDiscard
<1>8. ASSUME NEW paths \in SUBSET Files, BeginDiscard(paths) PROVE DiscardFacts'
  BY <1>8, BeginDiscardLeaves
<1>9. ASSUME NEW paths \in SUBSET Files, ApplyDiscard(paths) PROVE DiscardFacts'
  BY <1>9, DiscardEnds
<1>10. ASSUME NEW id \in 1..MaxIds, BeginWorkspace(id) PROVE DiscardFacts'
  BY <1>10, BeginWorkspaceLeaves
<1>11. ASSUME NEW id \in 1..MaxIds, PruneMetadata(id) PROVE DiscardFacts'
  BY <1>11, PruneMetadataLeaves
<1>12. ASSUME NEW id \in 1..MaxIds, Rot(id) PROVE DiscardFacts'
  BY <1>12, DiscardIdle DEF Rot
<1>13. ASSUME NEW id \in 1..MaxIds, NEW p \in Files, BeginFile(id, p) PROVE DiscardFacts'
  BY <1>13, BeginFileLeaves
<1>14. CASE ApplyFile
  BY <1>14, ApplyFileLeaves
<1>15. CASE RestoreStarts
  BY <1>15, RestoreStartsLeaves
<1>16. CASE Restored
  BY <1>16, DiscardIdle DEF Restored, storeVars
<1>17. CASE ApplyFails
  BY <1>17, DiscardIdle DEF ApplyFails, storeVars
<1>18. CASE RolledBack
  BY <1>18, DiscardIdle DEF RolledBack, storeVars
<1>19. CASE RollbackFails
  BY <1>19, DiscardIdle DEF RollbackFails, storeVars
<1>20. ASSUME NEW p \in Files, SetAside(p) PROVE DiscardFacts'
  BY <1>20, WritesAreSeen DEF SetAside
<1>21. ASSUME NEW p \in Files, Place(p) PROVE DiscardFacts'
  BY <1>21, PlaceIsSeen
<1>22. ASSUME NEW p \in Files, UndoRecord(p) PROVE DiscardFacts'
  BY <1>22, WritesAreSeen DEF UndoRecord
<1>23. CASE HelperKilled
  BY <1>23, DiscardIdle DEF HelperKilled, storeVars
<1>24. CASE Answered
  BY <1>24, AnsweredLeaves
<1>25. CASE GiveUp
  BY <1>25, GiveUpLeaves
<1>26. CASE DiscardAbandoned
  BY <1>26, DiscardEnds
<1>27. CASE Age
  BY <1>27, DiscardIdle DEF Age
<1>28. ASSUME NEW p \in Files, NEW c \in Contents \cup {Absent}, Edit(p, c) PROVE DiscardFacts'
  BY <1>28, WritesAreSeen DEF Edit
<1> QED BY <1>1, <1>2, <1>3, <1>4, <1>5, <1>6, <1>7, <1>8, <1>9, <1>10, <1>11, <1>12, <1>13,
           <1>14, <1>15, <1>16, <1>17, <1>18, <1>19, <1>20, <1>21, <1>22, <1>23, <1>24, <1>25,
           <1>26, <1>27, <1>28, Zenon DEF CheckpointsNext

(* Whatever error or crash interrupts a checkpoint, a pruning, a discard or a  *)
(* restore, and whatever the terminal writes meanwhile: the newest checkpoint  *)
(* a caller was told of, or a later one, is listed with its whole archive; the *)
(* changes a discard takes away are in a listed checkpoint for as long as the  *)
(* application waits for it, although a periodic checkpoint may have pruned    *)
(* the one made for it; and a whole restore is all or nothing on every path    *)
(* that nobody else wrote (service.go:550-705, recovery.go:100-152,            *)
(* restore_workspace.go:261-441).                                              *)
THEOREM RecoveryStaysSound == CheckpointsSpec => []RecoveryIsSound
<1>1. CheckpointsInvariant => RecoveryIsSound
  <2> SUFFICES ASSUME CheckpointsInvariant PROVE RecoveryIsSound
    OBVIOUS
  <2>1. NewestCheckpointSurvives /\ RestoreIsAllOrNothing
    BY DEF CheckpointsInvariant, RecoveryInvariant, StoreFacts, WorkFacts, RestoreFacts,
           NewestCheckpointSurvives
  <2>2. ASSUME discard.at = "apply"
        PROVE  \E i \in jsons : i >= discard.id /\ Covers(i, discard.paths \ discard.touched)
    <3>1. /\ discard.id \in 1..nextId - 1 /\ acked >= discard.id
          /\ \A i \in discard.id..nextId - 1 : Covers(i, discard.paths \ discard.touched)
      BY <2>2 DEF CheckpointsInvariant, DiscardFacts
    <3>2. nextId \in Nat /\ acked \in Nat /\ \A i \in jsons : i \in 1..nextId - 1
      BY DEF CheckpointsInvariant, RecoveryInvariant, StoreFacts
    <3>3. PICK i \in jsons : i >= acked
      BY <3>1, <3>2 DEF CheckpointsInvariant, RecoveryInvariant, StoreFacts
    <3>4. i >= discard.id /\ i \in discard.id..nextId - 1
      BY <3>1, <3>2, <3>3
    <3> QED BY <3>1, <3>3, <3>4
  <2> QED BY <2>1, <2>2 DEF RecoveryIsSound, DiscardIsRecoverable
<1>2. CheckpointsInit => CheckpointsInvariant
  <2> SUFFICES ASSUME CheckpointsInit PROVE DiscardFacts
    BY CheckpointsInitHolds DEF CheckpointsInvariant
  <2>1. discard = [at |-> "idle", paths |-> {}, id |-> 0, touched |-> {}] /\ work = NoWork
    BY DEF CheckpointsInit, NoDiscard
  <2> QED BY <2>1, NoWorkIsWork DEF DiscardFacts
<1>3. CheckpointsInvariant /\ [CheckpointsNext]_checkpointVars => CheckpointsInvariant'
  BY CheckpointsNextKeeps, DiscardStaysRecoverable DEF CheckpointsInvariant
<1> QED BY <1>1, <1>2, <1>3, PTL DEF CheckpointsSpec

=============================================================================
