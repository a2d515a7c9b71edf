--------------------------- MODULE Notifications ---------------------------
(***************************************************************************)
(* Push endpoints and their delivery: RegisterPushDevice with its          *)
(* transaction (application/previews_settings.go,                          *)
(* postgres/application_state.go), the sweep of a device's endpoints by    *)
(* SessionStore.RevokeDevice (postgres/session.go), and the dispatcher     *)
(* (notifications/dispatcher.go) that lists endpoints, sends and marks the *)
(* outcome.                                                                *)
(*                                                                         *)
(* Registration and revocation of one device share a gate of the process;  *)
(* a caller that gives up after COMMIT was sent releases it while the      *)
(* database still holds the transaction.  All tokens are of one provider   *)
(* environment and of the configured topic.                                *)
(***************************************************************************)
EXTENDS Integers, FiniteSets

CONSTANTS
    PushDevices,    \* devices of the owner
    PushTokens,     \* APNs tokens, as they rotate
    Registrations,  \* registration calls under way
    QueueCapacity,  \* dispatcher queue
    MaxAttempts     \* sends of one push to one endpoint

ASSUME NotificationsAssumption == {QueueCapacity, MaxAttempts} \subseteq Nat \ {0}

VARIABLES
    retired,        \* phones whose devices row has revoked_at
    endpoint,       \* [phone, token] -> "none", "enabled" or "revoked"
    registration,   \* registration calls and their transactions
    pushQueue,      \* tasks waiting for the worker
    pushing,        \* the worker: step, endpoints listed, attempts made
    quietHours,     \* settings: no push is sent
    dispatching     \* FALSE once Close cancelled the dispatcher

notificationVars ==
    <<retired, endpoint, registration, pushQueue, pushing, quietHours, dispatching>>
endpointVars == <<retired, endpoint, registration>>
dispatcherVars == <<pushQueue, pushing, quietHours, dispatching>>

NoRegistration == [at |-> "idle", phone |-> {}, token |-> {}, rotated |-> {}, gate |-> FALSE]
NoPush == [at |-> "idle", listed |-> {}, tried |-> 0]
Endpoints == PushDevices \X PushTokens
Enabled(p) == {t \in PushTokens : endpoint[p, t] = "enabled"}
GateFree(p) == \A r \in Registrations : ~(registration[r].gate /\ p \in registration[r].phone)
\* Rows locked FOR UPDATE by a registration that has not committed.
DeviceRowFree(p) ==
    \A r \in Registrations : registration[r].at # "gated" => p \notin registration[r].phone
RegistrationIs(r, record) == registration' = [registration EXCEPT ![r] = record]

-----------------------------------------------------------------------------
(* RegisterPushDevice *)

\* The admission gate of the device, then ValidatePrincipal.
RegisterBegins(r, p, t) ==
    /\ registration[r].at = "idle" /\ GateFree(p) /\ p \notin retired
    /\ RegistrationIs(r, [at |-> "gated", phone |-> {p}, token |-> {t}, rotated |-> {},
                          gate |-> TRUE])
    /\ UNCHANGED <<retired, endpoint, dispatcherVars>>

RegisterLocksMutant(r) ==
    /\ registration[r].at = "gated"
    /\ RegistrationIs(r, IF registration[r].phone \subseteq retired THEN NoRegistration
                         ELSE [registration[r] EXCEPT !.at = "locked"])
    /\ UNCHANGED <<retired, endpoint, dispatcherVars>>

\* SELECT revoked_at ... FOR UPDATE: a revoked device is refused.
RegisterLocks(r) ==
    /\ registration[r].at = "gated"
    /\ \A p \in registration[r].phone : DeviceRowFree(p)
    /\ RegistrationIs(r, IF registration[r].phone \subseteq retired THEN NoRegistration
                         ELSE [registration[r] EXCEPT !.at = "locked"])
    /\ UNCHANGED <<retired, endpoint, dispatcherVars>>

\* Earlier tokens of the device are disabled in the transaction.
RegisterRotates(r) ==
    /\ registration[r].at = "locked"
    /\ RegistrationIs(r, [registration[r] EXCEPT !.at = "committing",
           !.rotated = {e \in Endpoints : /\ e[1] \in registration[r].phone
                                          /\ e[2] \notin registration[r].token
                                          /\ endpoint[e] = "enabled"}])
    /\ UNCHANGED <<retired, endpoint, dispatcherVars>>

\* The upsert and COMMIT.
RegisterCommits(r) ==
    LET c == registration[r] IN
    /\ c.at = "committing"
    /\ endpoint' = [e \in Endpoints |->
           IF e \in c.phone \X c.token THEN "enabled"
           ELSE IF e \in c.rotated THEN "revoked" ELSE endpoint[e]]
    /\ RegistrationIs(r, NoRegistration)
    /\ UNCHANGED <<retired, dispatcherVars>>

\* The request is cancelled: rolled back, or its COMMIT is already on the way
\* and the gate is released before the database executes it.
RegisterLeaves(r) ==
    /\ registration[r].gate
    /\ \/ RegistrationIs(r, NoRegistration)
       \/ /\ registration[r].at = "committing"
          /\ RegistrationIs(r, [registration[r] EXCEPT !.gate = FALSE])
    /\ UNCHANGED <<retired, endpoint, dispatcherVars>>

\* SessionStore.RevokeDevice under the same gate and the same row lock: the
\* device and, in the same transaction, its endpoints.
RetirePhone(p) ==
    /\ GateFree(p) /\ DeviceRowFree(p)
    /\ retired' = retired \cup {p}
    /\ endpoint' = [e \in Endpoints |->
           IF e[1] = p /\ endpoint[e] # "none" THEN "revoked" ELSE endpoint[e]]
    /\ UNCHANGED <<registration, dispatcherVars>>

-----------------------------------------------------------------------------
(* The dispatcher *)

\* HandleCodexEvent and NotifyActivity never block: a full queue drops the task.
Enqueue ==
    /\ dispatching /\ pushQueue < QueueCapacity
    /\ pushQueue' = pushQueue + 1
    /\ UNCHANGED <<endpointVars, pushing, quietHours, dispatching>>

\* The worker takes a task; the activity row is written (or the task ends) and
\* quiet hours end it.
TakeTask ==
    /\ dispatching /\ pushing.at = "idle" /\ pushQueue > 0
    /\ pushQueue' = pushQueue - 1
    /\ \/ pushing' = pushing
       \/ ~quietHours /\ pushing' = [NoPush EXCEPT !.at = "listing"]
    /\ UNCHANGED <<endpointVars, quietHours, dispatching>>

ListEndpoints ==
    /\ pushing.at = "listing"
    /\ pushing' = [at |-> "sending", listed |-> {e \in Endpoints : endpoint[e] = "enabled"},
                   tried |-> 0]
    /\ UNCHANGED <<endpointVars, pushQueue, quietHours, dispatching>>

\* SendPush to one listed endpoint: delivered (MarkNotificationDelivered touches
\* only an enabled row), a last failure (a mark that disables nothing), or a
\* failure that is tried again.
SendPush(e) ==
    /\ pushing.at = "sending" /\ e \in pushing.listed /\ dispatching
    /\ \/ pushing' = [pushing EXCEPT !.listed = @ \ {e}, !.tried = 0]
       \/ /\ pushing.tried + 1 < MaxAttempts
          /\ pushing' = [pushing EXCEPT !.tried = @ + 1]
    /\ UNCHANGED <<endpointVars, pushQueue, quietHours, dispatching>>

\* APNs answers that the token is unregistered: MarkNotificationFailed with
\* disable, on a row that is not revoked yet.
Unregistered(e) ==
    /\ pushing.at = "sending" /\ e \in pushing.listed /\ dispatching
    /\ pushing' = [pushing EXCEPT !.listed = @ \ {e}, !.tried = 0]
    /\ endpoint' = [endpoint EXCEPT ![e] = "revoked"]
    /\ UNCHANGED <<retired, registration, pushQueue, quietHours, dispatching>>

\* Every endpoint was tried, the event timed out, or the dispatcher closed.
PushEnds ==
    /\ pushing.at # "idle"
    /\ pushing' = NoPush
    /\ UNCHANGED <<endpointVars, pushQueue, quietHours, dispatching>>

SetQuietHours ==
    /\ quietHours' = ~quietHours
    /\ UNCHANGED <<endpointVars, pushQueue, pushing, dispatching>>

\* Close: queued tasks are lost with the process, and a new one starts empty.
CloseDispatcher ==
    /\ dispatching' = ~dispatching
    /\ pushQueue' = 0
    /\ pushing' = NoPush
    /\ UNCHANGED <<endpointVars, quietHours>>

NotificationsInit ==
    /\ retired = {}
    /\ endpoint = [e \in Endpoints |-> "none"]
    /\ registration = [r \in Registrations |-> NoRegistration]
    /\ pushQueue = 0 /\ pushing = NoPush
    /\ quietHours = FALSE /\ dispatching = TRUE

NotificationsNext ==
    \/ \E r \in Registrations :
        \/ \E p \in PushDevices, t \in PushTokens : RegisterBegins(r, p, t)
        \/ RegisterLocks(r) \/ RegisterRotates(r) \/ RegisterCommits(r) \/ RegisterLeaves(r)
    \/ \E p \in PushDevices : RetirePhone(p)
    \/ Enqueue \/ TakeTask \/ ListEndpoints \/ PushEnds \/ SetQuietHours \/ CloseDispatcher
    \/ \E e \in Endpoints : SendPush(e) \/ Unregistered(e)

NotificationsSpec == NotificationsInit /\ [][NotificationsNext]_notificationVars

EndpointsTypeOK ==
    /\ retired \subseteq PushDevices
    /\ endpoint \in [Endpoints -> {"none", "enabled", "revoked"}]
    /\ registration \in [Registrations ->
           [at : {"idle", "gated", "locked", "committing"}, phone : SUBSET PushDevices,
            token : SUBSET PushTokens, rotated : SUBSET Endpoints, gate : BOOLEAN]]

NotificationsTypeOK ==
    /\ EndpointsTypeOK
    /\ pushQueue \in 0 .. QueueCapacity
    /\ pushing \in [at : {"idle", "listing", "sending"}, listed : SUBSET Endpoints,
                    tried : 0 .. MaxAttempts]
    /\ quietHours \in BOOLEAN /\ dispatching \in BOOLEAN

\* A revoked device has no enabled push endpoint, and a device has at most one,
\* whatever registrations, rotations, revocations and late delivery marks are
\* under way (RegisterNotification against SessionStore.RevokeDevice).
EndpointsFollowDevices ==
    \A p \in PushDevices : Cardinality(Enabled(p)) <= IF p \in retired THEN 0 ELSE 1

\* Why it holds: a registration that holds the device row has a device that is
\* not revoked, holds it alone, and will disable every other enabled endpoint
\* of the device; the gate is not needed for it.
SoundCall(r, c) ==
    /\ c.at = "idle" => c.phone = {}
    /\ c.at # "idle" => \E p \in PushDevices, t \in PushTokens : c.phone = {p} /\ c.token = {t}
    /\ c.at \in {"locked", "committing"} =>
        /\ c.phone \cap retired = {}
        /\ \A s \in Registrations \ {r} :
             registration[s].at # "gated" => registration[s].phone \cap c.phone = {}
    /\ c.at = "committing" =>
        \A e \in Endpoints :
            /\ e \in c.rotated => e[1] \in c.phone
            /\ endpoint[e] = "enabled" /\ e[1] \in c.phone /\ e[2] \notin c.token => e \in c.rotated

NotificationsInvariant ==
    /\ EndpointsTypeOK
    /\ \A r \in Registrations : SoundCall(r, registration[r])
    /\ \A e, f \in Endpoints :
        endpoint[e] = "enabled" /\ endpoint[f] = "enabled" /\ e[1] = f[1] => e = f
    /\ \A e \in Endpoints : endpoint[e] = "enabled" => e[1] \notin retired
=============================================================================
