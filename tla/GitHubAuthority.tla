--------------------------- MODULE GitHubAuthority ---------------------------
(***************************************************************************)
(* The authority of one GitHub App installation: short-lived tokens        *)
(* (githubapp/token_use.go, client.go, used by githubworkspace,            *)
(* application/workspace_io.go and githubsync), synchronization with the   *)
(* provider (githubsync), and disconnection, suspension and reconnection   *)
(* (postgres/repository.go), serialized by a session-level advisory lock.  *)
(*                                                                         *)
(* A use reserves a durable record before it mints a token, and the record *)
(* outlives it when it is known that the end of the use is in doubt: the   *)
(* helper a use leaves behind in a workspace is one the caller of          *)
(* UseInstallationToken may not have been told of.  Any provider or        *)
(* database call may fail, a process may die, and the database session     *)
(* that holds a lock may be lost without its process noticing.  Tokens are *)
(* assumed to live longer than the time allowed for a use.                 *)
(***************************************************************************)
EXTENDS Integers, FiniteSets

CONSTANT Uses   \* operations under way, in any control-plane process

VARIABLES
    install,    \* github_installations: known, suspended, disconnected
    suspended,  \* the provider's own state
    use,        \* operations: kind, step, lock, record, token, remote user,
                \* preserveAuthorityUntil, and a remote user nobody was told of
    closed,     \* history: the revocations reported as complete and in force
    unguarded   \* history: a lock was lost where no record stood in for it

authorityVars == <<install, suspended, use, closed, unguarded>>

NoUse == [kind |-> "none", at |-> "idle", lease |-> "none", record |-> "none",
          token |-> "none", remote |-> FALSE, preserve |-> FALSE, dropped |-> FALSE]
UseIs(u, record) == use' = [use EXCEPT ![u] = record]
Goes(u, step) == UseIs(u, [use[u] EXCEPT !.at = step])
Syncs == {"sync", "unsuspend", "reconnect"}
Holders(kind) == {u \in Uses : use[u].lease = kind}
Active == install.known /\ ~install.suspended /\ ~install.disconnected
\* outstandingGitHubTokenUse
Outstanding == \E u \in Uses : use[u].record \in {"reserved", "dated", "tight"}

-----------------------------------------------------------------------------
(* Locks *)

\* WithGitHubInstallationLease for a token use, WithGitHubInstallationSyncLease
\* for a synchronization.
Acquire(u, kind) ==
    /\ use[u].at = "idle" /\ use[u].record \in {"none", "revoked", "expired"}
    /\ ~use[u].remote /\ Holders("exclusive") = {}
    /\ kind \in Syncs => Holders("shared") = {}
    /\ UseIs(u, [NoUse EXCEPT !.kind = kind, !.at = "locked",
                              !.lease = IF kind \in Syncs THEN "exclusive" ELSE "shared"])
    /\ UNCHANGED <<install, suspended, closed, unguarded>>

\* The process dies, or returns after its last step or an error: the lock goes.
\* What a helper does remotely goes on.
UseEnds(u) == UseIs(u, [use[u] EXCEPT !.at = "idle", !.lease = "none"])
Leaves(u) ==
    /\ use[u].at # "idle"
    /\ UseEnds(u) \/ (use[u].at = "operate" /\ UseIs(u, [use[u] EXCEPT !.at = "idle", !.lease = "none",
                                                                    !.remote = TRUE]))
    /\ UNCHANGED <<install, suspended, closed, unguarded>>

LeaseLost(u) ==
    /\ use[u].lease # "none"
    /\ UseIs(u, [use[u] EXCEPT !.lease = "none"])
    /\ unguarded' = (unguarded \/ use[u].kind \in Syncs \/ use[u].record = "none")
    /\ UNCHANGED <<install, suspended, closed>>

-----------------------------------------------------------------------------
(* Authority *)

\* The shared lease looks at the installation; the synchronization looks after
\* it has refreshed it.
AuthorizeUse(u) ==
    /\ use[u].kind = "use" /\ use[u].at = "locked"
    /\ IF Active THEN Goes(u, "reserve") ELSE UseEnds(u)
    /\ UNCHANGED <<install, suspended, closed, unguarded>>

\* BeginGitHubInstallationReconnect disables the local authority first.
BeginReconnect(u) ==
    /\ use[u].kind = "reconnect" /\ use[u].at = "locked"
    /\ install' = [install EXCEPT !.disconnected = TRUE]
    /\ closed' = closed \ {"disconnect"}
    /\ Goes(u, "provider")
    /\ UNCHANGED <<suspended, unguarded>>

\* Installation fails for a suspended one; upsertInstallation keeps both
\* revocations, but an unsuspend event clears the provider's.
Refresh(u) ==
    /\ use[u].at = IF use[u].kind = "reconnect" THEN "provider" ELSE "locked"
    /\ use[u].kind \in Syncs /\ ~suspended
    /\ install' = [known |-> TRUE,
                   suspended |-> install.known /\ install.suspended /\ use[u].kind # "unsuspend",
                   disconnected |-> IF install.known THEN install.disconnected
                                    ELSE use[u].kind = "reconnect"]
    /\ closed' = IF use[u].kind = "unsuspend" THEN closed \ {"suspend"} ELSE closed
    /\ Goes(u, "refreshed")
    /\ UNCHANGED <<suspended, unguarded>>

\* GitHubInstallationActive; a reconnection asks for the provider's part only.
CheckActive(u) ==
    /\ use[u].at = "refreshed"
    /\ IF Active \/ (use[u].kind = "reconnect" /\ ~install.suspended)
       THEN Goes(u, "reserve") ELSE UseEnds(u)
    /\ UNCHANGED <<install, suspended, closed, unguarded>>

\* CompleteGitHubInstallationReconnect, after the repositories were written
CompleteReconnect(u) ==
    /\ use[u].kind = "reconnect" /\ use[u].at = "synced"
    /\ ~Outstanding /\ ~install.suspended
    /\ install' = [install EXCEPT !.disconnected = FALSE]
    /\ UseEnds(u)
    /\ UNCHANGED <<suspended, closed, unguarded>>

\* DisconnectGitHubInstallation, SuspendInstallation: one transaction on the
\* session that holds the exclusive lock.  The revocation is durable at once,
\* but a success is reported only when no record is outstanding.
RevokeAuthority(kind) ==
    /\ Holders("exclusive") = {} /\ Holders("shared") = {} /\ install.known
    /\ install' = IF kind = "disconnect" THEN [install EXCEPT !.disconnected = TRUE]
                  ELSE [install EXCEPT !.suspended = TRUE]
    /\ closed' = IF Outstanding THEN closed ELSE closed \cup {kind}
    /\ UNCHANGED <<suspended, use, unguarded>>

ProviderChanges ==
    /\ suspended' = ~suspended
    /\ UNCHANGED <<install, use, closed, unguarded>>

-----------------------------------------------------------------------------
(* UseInstallationToken *)

TokenStep == UNCHANGED <<install, suspended, closed, unguarded>>

\* BeginGitHubInstallationTokenUse: two hours, before anything is minted.
ReserveUse(u) ==
    /\ use[u].at = "reserve"
    /\ UseIs(u, [use[u] EXCEPT !.at = "mint", !.record = "reserved"])
    /\ TokenStep

\* InstallationToken; when it fails the reservation is dropped, if that succeeds.
Mint(u) ==
    /\ use[u].at = "mint"
    /\ \/ UseIs(u, [use[u] EXCEPT !.at = "date", !.token = "live"])
       \/ UseIs(u, [use[u] EXCEPT !.at = "idle", !.lease = "none", !.record = "revoked"])
    /\ TokenStep

\* SetGitHubInstallationTokenUseExpiry, to the token's; or the lifetime is
\* invalid or the record cannot be dated, and the token is not used.
Date(u) ==
    /\ use[u].at = "date"
    /\ \/ UseIs(u, [use[u] EXCEPT !.at = "operate", !.record = "dated"])
       \/ Goes(u, "cleanup")
    /\ TokenStep

\* The operation ends, with an error or without, and so did its helper, if any.
OperationReturns(u) ==
    /\ use[u].at = "operate"
    /\ Goes(u, "cleanup")
    /\ TokenStep

\* The operation was cancelled, or its helper's exit was not observed and the
\* error says so: the record is moved to the deadline, if that succeeds, and
\* kept.  A synchronization runs no helper.
OperationAmbiguous(u) ==
    /\ use[u].at = "operate"
    /\ \E record \in {"tight", "dated"}, remote \in BOOLEAN :
        /\ remote => use[u].kind = "use"
        /\ UseIs(u, [use[u] EXCEPT !.at = "cleanup", !.remote = remote, !.preserve = TRUE,
                                   !.record = record])
    /\ TokenStep

\* The helper's exit was not observed and the error does not say so: runHelper
\* formats RemoteHelperAmbiguityError into an external error of its own, unless
\* a context error is what it wraps.
OperationDropped(u) ==
    /\ use[u].at = "operate" /\ use[u].kind = "use"
    /\ UseIs(u, [use[u] EXCEPT !.at = "cleanup", !.remote = TRUE, !.dropped = TRUE])
    /\ TokenStep

\* RevokeInstallationToken; the answer may be lost, or the call never arrive.
RevokeToken(u) ==
    /\ use[u].at = "cleanup"
    /\ \/ UseIs(u, [use[u] EXCEPT !.at = "settle", !.token = "revoked"])
       \/ \E token \in {"live", "revoked"} :
             UseIs(u, [use[u] EXCEPT !.at = "idle", !.lease = "none", !.token = token])
    /\ TokenStep

\* Mutant: a revoked token ends the authority of its record at once.
SettleMutant(u) ==
    /\ use[u].at = "settle"
    /\ UseIs(u, [use[u] EXCEPT !.at = IF use[u].kind \in Syncs THEN "synced" ELSE "idle",
                               !.lease = IF use[u].kind \in Syncs THEN @ ELSE "none",
                               !.record = "revoked"])
    /\ TokenStep

\* RevokeGitHubInstallationTokenUse, unless the record is preserved until a
\* deadline that has not passed; an operation that succeeded lets a
\* synchronization write its repositories.
Settle(u) ==
    /\ use[u].at = "settle"
    /\ \/ use[u].preserve /\ UseEnds(u)
       \/ /\ ~(use[u].preserve /\ use[u].remote)
          /\ UseIs(u, [use[u] EXCEPT
                !.at = IF use[u].kind \in Syncs /\ ~use[u].preserve THEN "synced" ELSE "idle",
                !.lease = IF use[u].kind \in Syncs /\ ~use[u].preserve THEN @ ELSE "none",
                !.record = "revoked"])
    /\ TokenStep

\* The helper an operation left behind finishes, before its deadline.
RemoteEnds(u) ==
    /\ use[u].remote
    /\ UseIs(u, [use[u] EXCEPT !.remote = FALSE])
    /\ TokenStep

\* The remote deadline passes, and later the expiry of the token: the record
\* lasts until one or the other.
RecordExpires(u) ==
    /\ use[u].record \in {"reserved", "dated", "tight"} /\ use[u].at = "idle" /\ ~use[u].remote
    /\ UseIs(u, [use[u] EXCEPT !.record = "expired",
                               !.token = IF use[u].record = "tight" THEN @ ELSE "expired"])
    /\ TokenStep

-----------------------------------------------------------------------------
AuthorityInit ==
    /\ install \in {[known |-> FALSE, suspended |-> FALSE, disconnected |-> FALSE],
                    [known |-> TRUE, suspended |-> FALSE, disconnected |-> FALSE]}
    /\ suspended = FALSE /\ use = [u \in Uses |-> NoUse] /\ closed = {} /\ unguarded = FALSE

AuthorityNext ==
    \/ \E u \in Uses :
        \/ \E kind \in Syncs \cup {"use"} : Acquire(u, kind)
        \/ Leaves(u) \/ LeaseLost(u) \/ AuthorizeUse(u) \/ BeginReconnect(u) \/ Refresh(u)
        \/ CheckActive(u) \/ CompleteReconnect(u) \/ ReserveUse(u) \/ Mint(u) \/ Date(u)
        \/ OperationReturns(u) \/ OperationAmbiguous(u) \/ OperationDropped(u)
        \/ RevokeToken(u) \/ Settle(u) \/ RemoteEnds(u) \/ RecordExpires(u)
    \/ \E kind \in {"disconnect", "suspend"} : RevokeAuthority(kind)
    \/ ProviderChanges

AuthoritySpec == AuthorityInit /\ [][AuthorityNext]_authorityVars

-----------------------------------------------------------------------------
(* Properties *)

UseRecord ==
    [kind : {"none", "use"} \cup Syncs,
     at : {"idle", "locked", "provider", "refreshed", "reserve", "mint", "date", "operate", "cleanup",
           "settle", "synced"},
     lease : {"none", "shared", "exclusive"},
     record : {"none", "reserved", "dated", "tight", "revoked", "expired"},
     token : {"none", "live", "revoked", "expired"},
     remote : BOOLEAN, preserve : BOOLEAN, dropped : BOOLEAN]

AuthorityTypeOK ==
    /\ install \in [known : BOOLEAN, suspended : BOOLEAN, disconnected : BOOLEAN]
    /\ suspended \in BOOLEAN /\ unguarded \in BOOLEAN /\ closed \subseteq {"disconnect", "suspend"}
    /\ use \in [Uses -> UseRecord]

\* A helper nobody was told of whose token GitHub has revoked: it can do no more
\* than finish the request that was authorized before.
Severed(x) == x.dropped /\ x.token = "revoked"

(* When a disconnect or a suspension has been reported as complete, and until  *)
(* the owner reconnects or the provider lifts the suspension, nobody mints or  *)
(* uses a token of the installation, neither a process whose lock was lost nor *)
(* a helper left behind by a process that died or gave up; a failed            *)
(* revocation, an ambiguous operation and a crash only delay the report.  Only *)
(* a helper whose ambiguous end was not passed on may still be there, and its  *)
(* token is revoked (token_use.go:104-199, repository.go:570-640).             *)
DisconnectEndsTokenUse ==
    closed # {} /\ ~unguarded =>
        \A u \in Uses : /\ use[u].at \notin {"mint", "date", "operate"}
                       /\ use[u].remote => Severed(use[u])

(* "The durable authority record must remain outstanding through SafeAfter     *)
(* even if GitHub accepts an explicit token revocation: an already-authorized  *)
(* Git HTTP request can still be completing remotely" (token_use.go:50-54): no *)
(* helper is left when a disconnect has been reported as complete.             *)
DisconnectOutlivesHelpers ==
    closed # {} /\ ~unguarded => \A u \in Uses : ~use[u].remote

(* What keeps it so.  A record is outstanding from before the token is minted  *)
(* until the last step of the use, and for as long as a helper goes on that    *)
(* can authorize a request (UseInstallationToken).                             *)
Recorded(x) == x.at \in {"mint", "date", "operate", "cleanup", "settle"}
Armed(x) == x.remote /\ ~Severed(x)
SoundUse(x) ==
    /\ Recorded(x) \/ Armed(x) => x.record \in {"reserved", "dated", "tight"}
    /\ x.at \in {"locked", "provider", "refreshed", "reserve"} => x.record = "none"
    /\ x.at = "synced" => x.kind \in Syncs
    /\ x.at = "settle" => x.token = "revoked"
    /\ x.remote /\ x.at # "idle" => x.kind = "use" /\ x.at \in {"cleanup", "settle"}
    /\ x.remote /\ x.at # "idle" => x.preserve \/ x.dropped

(* Where no record is, and during all of a synchronization, the lock speaks    *)
(* for the use; and nobody is past the check of the installation while a       *)
(* revocation is in force (WithGitHubInstallationLease and its siblings).      *)
GuardedUse(x, revoked) ==
    /\ x.at # "idle" /\ (x.kind \in Syncs \/ ~Recorded(x)) => x.lease # "none"
    /\ Recorded(x) \/ x.at \in {"reserve", "synced"} \/ Armed(x) => revoked = {}
    /\ x.kind = "reconnect" /\ x.at \in {"provider", "refreshed"} => "disconnect" \notin revoked

(* The revocations in force are the ones the installation shows.               *)
Revocations ==
    /\ "suspend" \in closed => install.known /\ install.suspended
    /\ "disconnect" \in closed /\ ~unguarded => install.known /\ install.disconnected

AuthorityInvariant ==
    /\ AuthorityTypeOK /\ Revocations
    /\ \A u \in Uses : SoundUse(use[u]) /\ (unguarded \/ GuardedUse(use[u], closed))

(* "If the process crashes or revocation is ambiguous, the unrevoked metadata  *)
(* remains until GitHub's authoritative expiry and blocks a successful         *)
(* disconnect, suspension, or reconnect completion" (token_use.go:58-61): a    *)
(* complete disconnect leaves no token that GitHub would still accept.         *)
UnrevokedTokenBlocksDisconnect ==
    closed # {} /\ ~unguarded => \A u \in Uses : use[u].token # "live"

(* A success is "a strict no-later-mint-or-use boundary"                       *)
(* (postgres/repository.go:577-579), the loss of a lock included.              *)
DisconnectIsABoundary ==
    closed # {} => \A u \in Uses : use[u].at \notin {"mint", "date", "operate"}
=============================================================================
