----------------------------- MODULE Enrollment -----------------------------
(***************************************************************************)
(* Enrolment of the one owner (internal/passkeys/service.go, bootstrap.go, *)
(* internal/postgres/passkeys.go, bootstrap.go, recovery.go and the        *)
(* bootstrap-token and recover-passkeys commands): bootstrap credentials,  *)
(* first enrolment, further passkeys and their revocation, and the reset   *)
(* after the total loss of every passkey.                                  *)
(*                                                                         *)
(* Every transaction takes one advisory lock.  A serializable one has its  *)
(* snapshot from before the wait for the lock, and PostgreSQL refuses it   *)
(* when a row it read or writes has changed since; a read-committed one    *)
(* looks at the tables again after the wait.  So a transaction is two      *)
(* steps: it begins, and it ends with every statement that follows the     *)
(* lock.  One app installation stands for all.                             *)
(***************************************************************************)
EXTENDS Integers, FiniteSets

CONSTANTS
    Bootstraps,     \* bootstrap and recovery credentials that may be generated
    Passkeys,       \* passkeys that may be created
    Requests,       \* requests of the native client under way
    MaxPasskeys     \* the limit of twenty passkeys

ASSUME EnrollmentAssumption == MaxPasskeys \in Nat \ {0}

VARIABLES
    owners,         \* rows of users
    bootstrap,      \* credentials: state, and whether they are for recovery
    passkeys,       \* rows of passkeys
    spent,          \* history: the bootstrap credential each passkey came from
    device,         \* the device row of the installation
    request,        \* requests: position, credential, passkey and snapshot
    command,        \* the administrator's command: position and snapshot
    serving,        \* the control plane is up
    recovering      \* history: reset, and nobody enrolled since

enrollmentVars ==
    <<owners, bootstrap, passkeys, spent, device, request, command, serving, recovering>>
tables == <<owners, bootstrap, passkeys, spent, device, recovering>>

NoTables == [owners |-> 0, bootstrap |-> <<>>, passkeys |-> {}]
Snapshot == [owners |-> owners, bootstrap |-> bootstrap, passkeys |-> passkeys]
NoRequest == [at |-> "idle", token |-> {}, recovery |-> FALSE, key |-> {}, seen |-> NoTables]
NoCommand == [at |-> "idle", seen |-> NoTables]
RequestIs(r, record) == request' = [request EXCEPT ![r] = record]
RequestEnds(r) == RequestIs(r, NoRequest)

\* IsValid, and what UPDATE ... WHERE consumed_at IS NULL AND disabled_at IS NULL changes
Usable(b) == bootstrap[b].at = "open"
Disabled(bs) ==
    [b \in Bootstraps |-> IF bs[b].at \in {"open", "expired"} THEN [bs[b] EXCEPT !.at = "disabled"]
                          ELSE bs[b]]
Unused == Passkeys \ (DOMAIN spent \cup UNION {request[r].key : r \in Requests})
\* A new identifier, of a passkey or of a bootstrap credential.
NewPasskey == CHOOSE k \in Unused : TRUE
NewBootstrap == CHOOSE b \in Bootstraps : bootstrap[b].at = "none"
Generates == \E b \in Bootstraps : bootstrap[b].at = "none"

-----------------------------------------------------------------------------
(* The commands *)

\* bootstrapToken refuses once there is an owner, in a query of its own ...
BootstrapChecks ==
    /\ command.at = "idle" /\ owners = 0
    /\ command' = [NoCommand EXCEPT !.at = "checked"]
    /\ UNCHANGED <<tables, request, serving>>

\* ... and begins Replace; recoverPasskeys refuses while a server is connected.
ReplaceBegins ==
    /\ command.at = "checked"
    /\ command' = [at |-> "replace", seen |-> Snapshot]
    /\ UNCHANGED <<tables, request, serving>>

Replace ==
    /\ command.at = "replace"
    /\ \/ /\ bootstrap = command.seen.bootstrap
          /\ Generates
          /\ bootstrap' = [Disabled(bootstrap) EXCEPT
                               ![NewBootstrap] = [at |-> "open", recovery |-> FALSE]]
       \/ UNCHANGED bootstrap
    /\ command' = NoCommand
    /\ UNCHANGED <<owners, passkeys, spent, device, recovering, request, serving>>

ResetBegins ==
    /\ command.at = "idle" /\ ~serving /\ owners > 0
    /\ command' = [at |-> "reset", seen |-> Snapshot]
    /\ UNCHANGED <<tables, request, serving>>

\* ResetPasskeyEnrollment
Reset ==
    /\ command.at = "reset"
    /\ \/ /\ bootstrap = command.seen.bootstrap
          /\ Generates
          /\ bootstrap' = [Disabled(bootstrap) EXCEPT
                               ![NewBootstrap] = [at |-> "open", recovery |-> TRUE]]
          /\ passkeys' = passkeys \ command.seen.passkeys
          /\ device' = IF device = "live" THEN "revoked" ELSE device
          /\ recovering' = TRUE
       \/ UNCHANGED <<bootstrap, passkeys, device, recovering>>
    /\ command' = NoCommand
    /\ UNCHANGED <<owners, spent, request, serving>>

-----------------------------------------------------------------------------
(* First enrolment, and enrolment after a reset *)

\* BeginBootstrapRegistration: the credential, its binding and the owner are
\* read one after the other; each is read here when the next step needs it.
BeginReadsToken(r, b) ==
    /\ serving /\ request[r].at = "idle" /\ Usable(b)
    /\ RequestIs(r, [NoRequest EXCEPT !.at = "begin", !.token = {b}, !.recovery = bootstrap[b].recovery])
    /\ UNCHANGED <<tables, command, serving>>

BeginReadsOwner(r) ==
    /\ request[r].at = "begin"
    /\ \/ /\ owners > 0 /\ ~request[r].recovery       \* bootstrap is over
          /\ bootstrap' = Disabled(bootstrap) /\ RequestEnds(r)
       \/ /\ owners = 0 /\ ~request[r].recovery /\ Unused # {}
          /\ RequestIs(r, [request[r] EXCEPT !.at = "ceremony"]) /\ UNCHANGED bootstrap
       \/ /\ owners > 0 /\ request[r].recovery /\ passkeys = {}   \* OwnerForRecovery
          /\ RequestIs(r, [request[r] EXCEPT !.at = "ceremony"]) /\ UNCHANGED bootstrap
       \/ /\ request[r].recovery /\ (owners = 0 \/ passkeys # {})
          /\ RequestEnds(r) /\ UNCHANGED bootstrap
    /\ UNCHANGED <<owners, passkeys, spent, device, recovering, command, serving>>

\* FinishBootstrapRegistration: the ceremony is used up and the credential
\* validated again; then the enrolment begins its transaction.
FinishValidates(r) ==
    /\ request[r].at = "ceremony"
    /\ \E b \in request[r].token :
        IF Usable(b)
        THEN /\ Unused # {}
             /\ RequestIs(r, [request[r] EXCEPT !.at = "enrol", !.key = {NewPasskey}, !.seen = Snapshot])
        ELSE RequestEnds(r)
    /\ UNCHANGED <<tables, command, serving>>

Spend(keys, token) ==
    spent' = [k \in DOMAIN spent \cup keys |-> IF k \in DOMAIN spent THEN spent[k] ELSE token]

Enrolled(r) ==
    /\ passkeys' = passkeys \cup request[r].key
    /\ Spend(request[r].key, request[r].token)
    /\ device' = "live"

\* CreateOwnerWithCredential: one user, its device and its passkey
CreateOwner(r) ==
    /\ request[r].at = "enrol" /\ ~request[r].recovery
    /\ \/ /\ owners = request[r].seen.owners /\ owners = 0
          /\ owners' = owners + 1 /\ Enrolled(r)
          /\ RequestIs(r, [request[r] EXCEPT !.at = "consume"])
       \/ RequestEnds(r) /\ UNCHANGED <<owners, passkeys, spent, device>>
    /\ UNCHANGED <<bootstrap, recovering, command, serving>>

\* Consume, and when it finds nothing to consume Disable
ConsumeToken(r) ==
    /\ request[r].at = "consume"
    /\ \E b \in request[r].token :
        bootstrap' = IF Usable(b) THEN [bootstrap EXCEPT ![b].at = "consumed"] ELSE Disabled(bootstrap)
    /\ RequestEnds(r)
    /\ UNCHANGED <<owners, passkeys, spent, device, recovering, command, serving>>

\* CreateCredentialForRecoveredOwner: the credential is consumed in the
\* transaction that creates the passkey, and only for an owner without one.
CreateRecovered(r) ==
    /\ request[r].at = "enrol" /\ request[r].recovery
    /\ \/ /\ \A b \in request[r].token : Usable(b) /\ bootstrap[b] = request[r].seen.bootstrap[b]
          /\ request[r].seen.passkeys = {}
          /\ Enrolled(r) /\ recovering' = FALSE
          /\ bootstrap' = [b \in Bootstraps |->
                IF b \in request[r].token THEN [bootstrap[b] EXCEPT !.at = "consumed"] ELSE bootstrap[b]]
       \/ UNCHANGED <<bootstrap, passkeys, spent, device, recovering>>
    /\ RequestEnds(r)
    /\ UNCHANGED <<owners, command, serving>>

-----------------------------------------------------------------------------
(* Further passkeys, their revocation, and logins *)

\* BeginAdditionalRegistration and FinishAdditionalRegistration up to the lock
AddBegins(r) ==
    /\ serving /\ request[r].at = "idle"
    /\ owners > 0 /\ device = "live" /\ passkeys # {}
    /\ Unused # {} /\ RequestIs(r, [NoRequest EXCEPT !.at = "add", !.key = {NewPasskey}])
    /\ UNCHANGED <<tables, command, serving>>

\* CreateAdditionalCredential
AddCommits(r) ==
    /\ request[r].at = "add"
    /\ \/ /\ device = "live" /\ Cardinality(passkeys) \in 1..(MaxPasskeys - 1)
          /\ passkeys' = passkeys \cup request[r].key
          /\ Spend(request[r].key, {})
       \/ UNCHANGED <<passkeys, spent>>
    /\ RequestEnds(r)
    /\ UNCHANGED <<owners, bootstrap, device, recovering, command, serving>>

RevokeBegins(r, k) ==
    /\ serving /\ request[r].at = "idle" /\ k \in passkeys
    /\ RequestIs(r, [NoRequest EXCEPT !.at = "revoke", !.key = {k}, !.seen = Snapshot])
    /\ UNCHANGED <<tables, command, serving>>

\* Mutant: the transaction is serializable, so it counts in a snapshot taken
\* before the wait for the lock.
RevokeCredentialMutant(r) ==
    /\ request[r].at = "revoke"
    /\ \/ /\ Cardinality(request[r].seen.passkeys) > 1 /\ passkeys' = passkeys \ request[r].key
       \/ UNCHANGED passkeys
    /\ RequestEnds(r)
    /\ UNCHANGED <<owners, bootstrap, spent, device, recovering, command, serving>>

\* RevokeCredential: never the final one
RevokeCredential(r) ==
    /\ request[r].at = "revoke"
    /\ \/ /\ request[r].key \subseteq passkeys /\ Cardinality(passkeys) > 1
          /\ passkeys' = passkeys \ request[r].key
       \/ UNCHANGED passkeys
    /\ RequestEnds(r)
    /\ UNCHANGED <<owners, bootstrap, spent, device, recovering, command, serving>>

\* FinishLogin finds or creates the device row; RevokeDevice revokes it.
Login ==
    /\ serving /\ passkeys # {} /\ device # "live" /\ device' = "live"
    /\ UNCHANGED <<owners, bootstrap, passkeys, spent, recovering, request, command, serving>>

DeviceRevoked ==
    /\ serving /\ device = "live" /\ device' = "revoked"
    /\ UNCHANGED <<owners, bootstrap, passkeys, spent, recovering, request, command, serving>>

-----------------------------------------------------------------------------
(* Time and the process *)

BootstrapExpires(b) ==
    /\ Usable(b) /\ bootstrap' = [bootstrap EXCEPT ![b].at = "expired"]
    /\ UNCHANGED <<owners, passkeys, spent, device, recovering, request, command, serving>>

\* The administrator does not start a server while recover-passkeys runs; a
\* server that stops or crashes loses its ceremonies and open transactions.
ServeStarts ==
    /\ ~serving /\ command.at # "reset" /\ serving' = TRUE
    /\ UNCHANGED <<tables, request, command>>

ServeStops ==
    /\ serving /\ serving' = FALSE
    /\ request' = [r \in Requests |-> NoRequest]
    /\ UNCHANGED <<tables, command>>

-----------------------------------------------------------------------------
EnrollmentInit ==
    /\ owners = 0 /\ passkeys = {} /\ spent = <<>> /\ device = "none"
    /\ bootstrap = [b \in Bootstraps |-> [at |-> "none", recovery |-> FALSE]]
    /\ request = [r \in Requests |-> NoRequest]
    /\ command = NoCommand /\ serving = FALSE /\ recovering = FALSE

EnrollmentNext ==
    \/ BootstrapChecks \/ ReplaceBegins \/ Replace \/ ResetBegins \/ Reset
    \/ \E r \in Requests :
        \/ \E b \in Bootstraps : BeginReadsToken(r, b)
        \/ BeginReadsOwner(r) \/ FinishValidates(r) \/ CreateOwner(r) \/ ConsumeToken(r)
        \/ CreateRecovered(r) \/ AddBegins(r) \/ AddCommits(r)
        \/ \E k \in Passkeys : RevokeBegins(r, k)
        \/ RevokeCredential(r)
    \/ Login \/ DeviceRevoked \/ ServeStarts \/ ServeStops
    \/ \E b \in Bootstraps : BootstrapExpires(b)

EnrollmentSpec == EnrollmentInit /\ [][EnrollmentNext]_enrollmentVars

-----------------------------------------------------------------------------
(* Properties *)

EnrollmentTypeOK ==
    /\ owners \in 0..Cardinality(Requests) /\ passkeys \subseteq DOMAIN spent
    /\ DOMAIN spent \subseteq Passkeys
    /\ bootstrap \in [Bootstraps -> [at : {"none", "open", "consumed", "disabled", "expired"},
                                     recovery : BOOLEAN]]
    /\ device \in {"none", "live", "revoked"} /\ serving \in BOOLEAN /\ recovering \in BOOLEAN
    /\ command.at \in {"idle", "checked", "replace", "reset"}
    /\ \A r \in Requests :
        /\ request[r].at \in {"idle", "begin", "ceremony", "enrol", "consume", "add", "revoke"}
        /\ request[r].token \subseteq Bootstraps /\ request[r].key \subseteq Passkeys

(* There is one owner at most; however enrolments, further registrations and  *)
(* revocations race, an enrolled owner is never left without a passkey except *)
(* between a reset and the recovery; a reset leaves no earlier passkey; and a *)
(* bootstrap credential enrols one passkey at most                            *)
(* (postgres/passkeys.go:51-105, 125-187, 214-272, 309-350; recovery.go:29-115). *)
OwnerKeepsAccess ==
    /\ owners <= 1 /\ Cardinality(passkeys) <= MaxPasskeys
    /\ owners = 1 /\ passkeys = {} => recovering
    /\ recovering => passkeys = {}
    /\ \A k, l \in DOMAIN spent : k # l /\ spent[k] = spent[l] => spent[k] = {}

(* What keeps it so.  At most one credential is open, and one that is open for *)
(* a recovery, or not yet made, enrolled nobody ...                            *)
Credential == [at : {"none", "open", "consumed", "disabled", "expired"}, recovery : BOOLEAN]
Tables == [owners : {0, 1}, bootstrap : [Bootstraps -> Credential] \cup {<<>>},
           passkeys : SUBSET Passkeys]
EnrollmentRequest ==
    [at : {"idle", "begin", "ceremony", "enrol", "consume", "add", "revoke"},
     token : SUBSET Bootstraps, recovery : BOOLEAN, key : SUBSET Passkeys, seen : Tables]

OwnerFacts ==
    /\ owners \in {0, 1} /\ passkeys \in SUBSET Passkeys /\ IsFiniteSet(passkeys)
    /\ Cardinality(passkeys) <= MaxPasskeys
    /\ owners = 0 => passkeys = {} /\ ~recovering /\ DOMAIN spent = {}
    /\ owners = 1 /\ passkeys = {} => recovering
    /\ recovering => passkeys = {}

CredentialFacts ==
    /\ bootstrap \in [Bootstraps -> Credential]
    /\ \A b, c \in Bootstraps : Usable(b) /\ Usable(c) => b = c
    /\ \A b \in Bootstraps :
        /\ bootstrap[b].recovery => owners = 1
        /\ bootstrap[b].at = "none" \/ (Usable(b) /\ bootstrap[b].recovery) =>
              \A k \in DOMAIN spent : spent[k] # {b}
    /\ \A k, l \in DOMAIN spent : k # l /\ spent[k] = spent[l] => spent[k] = {}

(* ... a recovery that saw no passkey holds a credential that is no longer     *)
(* open once there is one, because whoever enrolled used it up ...             *)
SoundRequest(q, credentials, keys) ==
    /\ q.at \in {"begin", "ceremony", "enrol", "consume"} =>
         \E b \in Bootstraps : /\ q.token = {b} /\ credentials[b].at # "none"
                               /\ credentials[b].recovery = q.recovery
    /\ q.at \in {"enrol", "consume", "add", "revoke"} => \E k \in Passkeys : q.key = {k}
    /\ q.at = "enrol" /\ q.recovery /\ q.seen.passkeys = {} /\ keys # {} =>
         \A b \in q.token : credentials[b].at # "open"

(* ... and nothing is served, so nothing is enrolled, while a reset runs.      *)
EnrollmentInvariant ==
    /\ OwnerFacts /\ CredentialFacts
    /\ request \in [Requests -> EnrollmentRequest]
    /\ \A r \in Requests : SoundRequest(request[r], bootstrap, passkeys)
    /\ ~serving => \A r \in Requests : request[r].at = "idle"
    /\ command \in [at : {"idle", "checked", "replace", "reset"}, seen : Tables]
    /\ command.at = "reset" => ~serving /\ owners = 1 /\ passkeys \subseteq command.seen.passkeys
=============================================================================
