---------------------------- MODULE KeyRotation ----------------------------
(***************************************************************************)
(* Rewrapping every envelope under a new master key                        *)
(* (internal/postgres/master_key_rotation.go and the rewrap-master-key     *)
(* command), beside the servers that write envelopes (internal/vault).     *)
(*                                                                         *)
(* A server holds a shared advisory lock in a database session of its own  *)
(* for as long as it serves; the rotator takes the exclusive one.  Nothing *)
(* watches that session: when it is lost the server goes on, on the other  *)
(* connections of its pool.  The operator follows the runbook: after a     *)
(* rotation the key file is switched before a server is started.           *)
(***************************************************************************)
EXTENDS Integers, FiniteSets, TLC

CONSTANTS
    Servers,    \* serving processes
    Rows,       \* rows of passkeys, encrypted_secrets and notification_endpoints
    MasterKeys, \* master keys
    NoKey       \* a row that does not exist

ASSUME KeyRotationAssumption == NoKey \notin MasterKeys

VARIABLES
    envelope,   \* rows: the key that wraps their data key, or NoKey
    keyFile,    \* the configured MASTER_KEY_FILE
    server,     \* servers: position, key read at start, lease
    rotator,    \* the command: position, new key, rows loaded and locked
    audited,    \* the key that the last rotation in audit_events led to
    leaseLost,  \* history: a server has served without its lease
    unanswered  \* history: a rotation that was committed has reported a failure

rotationVars == <<envelope, keyFile, server, rotator, audited, leaseLost, unanswered>>

Resting == [at |-> "idle", next |-> NoKey, rows |-> {}, seen |-> {}]
Live == {r \in Rows : envelope[r] # NoKey}
Leases == {s \in Servers : server[s].lease}
Serving == {s \in Servers : server[s].up}
InMaintenance == rotator.at \in {"locked", "loaded", "applied"}

-----------------------------------------------------------------------------
(* Servers *)

\* buildServer: AcquireServeLease, or exit
ServerStarts(s) ==
    /\ ~server[s].up /\ rotator.at # "switch"
    /\ ~InMaintenance
    /\ server' = [server EXCEPT ![s] = [up |-> TRUE, key |-> keyFile, lease |-> TRUE]]
    /\ UNCHANGED <<envelope, keyFile, rotator, audited, leaseLost, unanswered>>

\* serverRuntime.Close or a crash
ServerStops(s) ==
    /\ server[s].up
    /\ server' = [server EXCEPT ![s] = [@ EXCEPT !.up = FALSE, !.lease = FALSE]]
    /\ UNCHANGED <<envelope, keyFile, rotator, audited, leaseLost, unanswered>>

LeaseConnectionLost(s) ==
    /\ server[s].lease
    /\ server' = [server EXCEPT ![s].lease = FALSE] /\ leaseLost' = TRUE
    /\ UNCHANGED <<envelope, keyFile, rotator, audited, unanswered>>

\* Vault.Encrypt and an insert or update: rows the rotator has locked make it wait.
ServerWrites(s, r) ==
    /\ server[s].up /\ r \notin rotator.rows
    /\ envelope' = [envelope EXCEPT ![r] = server[s].key]
    /\ UNCHANGED <<keyFile, server, rotator, audited, leaseLost, unanswered>>

ServerDeletes(s, r) ==
    /\ server[s].up /\ r \in Live \ rotator.rows
    /\ envelope' = [envelope EXCEPT ![r] = NoKey]
    /\ UNCHANGED <<keyFile, server, rotator, audited, leaseLost, unanswered>>

-----------------------------------------------------------------------------
(* The rotator *)

\* Mutant: the rotator takes a shared lock, as a server does.
RotateAcquiresMutant(k) ==
    /\ rotator.at = "idle" /\ k # keyFile
    /\ rotator' = [Resting EXCEPT !.at = "locked", !.next = k]
    /\ UNCHANGED <<envelope, keyFile, server, audited, leaseLost, unanswered>>

\* Rotate: pg_try_advisory_lock, refused while any lease is held
RotateAcquires(k) ==
    /\ rotator.at = "idle" /\ k # keyFile /\ Leases = {}
    /\ rotator' = [Resting EXCEPT !.at = "locked", !.next = k]
    /\ UNCHANGED <<envelope, keyFile, server, audited, leaseLost, unanswered>>

\* The loads lock every row of the snapshot; each is decrypted, rewrapped and
\* the new envelope verified before the first update.
LoadAndPrepare ==
    /\ rotator.at = "locked" /\ \A r \in Live : envelope[r] = keyFile
    /\ rotator' = [rotator EXCEPT !.at = "loaded", !.rows = Live]
    /\ UNCHANGED <<envelope, keyFile, server, audited, leaseLost, unanswered>>

\* UpdatePasskey, UpdateEncryptedSecret, UpdateAPNSToken: seen by nobody yet
UpdateRow(r) ==
    /\ rotator.at = "loaded" /\ r \in rotator.rows \ rotator.seen
    /\ rotator' = [rotator EXCEPT !.seen = @ \cup {r},
                                  !.at = IF rotator.seen \cup {r} = rotator.rows THEN "applied" ELSE @]
    /\ UNCHANGED <<envelope, keyFile, server, audited, leaseLost, unanswered>>

NothingToUpdate ==
    /\ rotator.at = "loaded" /\ rotator.rows = {}
    /\ rotator' = [rotator EXCEPT !.at = "applied"]
    /\ UNCHANGED <<envelope, keyFile, server, audited, leaseLost, unanswered>>

\* InsertAudit and Commit.  The operator switches the key file after a success;
\* when the answer to COMMIT is lost, or the command dies just after it, a failure
\* is reported and the key file stays what it was.
RotationCommits ==
    /\ rotator.at = "applied"
    /\ envelope' = [r \in Rows |-> IF r \in rotator.rows THEN rotator.next ELSE envelope[r]]
    /\ audited' = rotator.next
    /\ \/ /\ rotator' = [rotator EXCEPT !.at = "switch", !.rows = {}, !.seen = {}]
          /\ UNCHANGED unanswered
       \/ rotator' = Resting /\ unanswered' = TRUE
    /\ UNCHANGED <<keyFile, server, leaseLost>>

\* An unreadable row, an update that fails, a connection lost or a crash before
\* COMMIT: rolled back.
RotationFails ==
    /\ InMaintenance /\ rotator' = Resting
    /\ UNCHANGED <<envelope, keyFile, server, audited, leaseLost, unanswered>>

SwitchKeyFile ==
    /\ rotator.at = "switch"
    /\ keyFile' = rotator.next /\ rotator' = Resting
    /\ UNCHANGED <<envelope, server, audited, leaseLost, unanswered>>

-----------------------------------------------------------------------------
KeyRotationInit ==
    /\ keyFile \in MasterKeys
    /\ envelope \in [Rows -> {keyFile, NoKey}]
    /\ server = [s \in Servers |-> [up |-> FALSE, key |-> keyFile, lease |-> FALSE]]
    /\ rotator = Resting /\ audited = keyFile /\ leaseLost = FALSE /\ unanswered = FALSE

KeyRotationNext ==
    \/ \E s \in Servers :
        \/ ServerStarts(s) \/ ServerStops(s) \/ LeaseConnectionLost(s)
        \/ \E r \in Rows : ServerWrites(s, r) \/ ServerDeletes(s, r)
    \/ \E k \in MasterKeys : RotateAcquires(k)
    \/ \E r \in Rows : UpdateRow(r)
    \/ LoadAndPrepare \/ NothingToUpdate \/ RotationCommits \/ RotationFails \/ SwitchKeyFile

KeyRotationSpec == KeyRotationInit /\ [][KeyRotationNext]_rotationVars

-----------------------------------------------------------------------------
(* Properties *)

KeyRotationTypeOK ==
    /\ envelope \in [Rows -> MasterKeys \cup {NoKey}] /\ keyFile \in MasterKeys
    /\ server \in [Servers -> [up : BOOLEAN, key : MasterKeys, lease : BOOLEAN]]
    /\ rotator \in [at : {"idle", "locked", "loaded", "applied", "switch"},
                    next : MasterKeys \cup {NoKey}, rows : SUBSET Rows, seen : SUBSET Rows]
    /\ rotator.at # "idle" => rotator.next \in MasterKeys
    /\ audited \in MasterKeys /\ leaseLost \in BOOLEAN /\ unanswered \in BOOLEAN

(* As long as no server has lost the session of its lease, no rotation        *)
(* overlaps a server, servers have the key of the key file, and every         *)
(* envelope is wrapped under that key, or under the new one until the         *)
(* operator switches, wherever a server or the rotator stops or fails.  Once  *)
(* a committed rotation has been reported as failed, an envelope may instead  *)
(* be under the key of the last rotation in audit_events, and under no third  *)
(* one (master_key_rotation.go:31-55, 115-140, 188-300).                      *)
OneKeyForEveryRow ==
    leaseLost \/
    /\ \A r \in Live :
         \/ envelope[r] = IF rotator.at = "switch" THEN rotator.next ELSE keyFile
         \/ unanswered /\ envelope[r] = audited
    /\ \A s \in Serving : server[s].key = keyFile
    /\ InMaintenance => Serving = {}

(* What keeps it so: a server that is up has its lease, nobody serves between *)
(* a commit and the switch of the key file, and the rows the rotator has      *)
(* locked are all the rows there are (AcquireServeLease, Rotate, Load).       *)
RotationInvariant ==
    /\ KeyRotationTypeOK /\ OneKeyForEveryRow
    /\ rotator.at = "switch" => audited = rotator.next
    /\ leaseLost \/
       /\ Serving \subseteq Leases
       /\ rotator.at = "switch" => Serving = {}
       /\ rotator.at = "switch" => \A r \in Live : envelope[r] = rotator.next
       /\ rotator.at \in {"loaded", "applied"} => rotator.rows = Live

(* A rotation never overlaps a serving process (SECURITY.md:192 and the       *)
(* comment on ServeLease, master_key_rotation.go:28-30).                      *)
RotationExcludesServing == InMaintenance => Serving = {}
=============================================================================
