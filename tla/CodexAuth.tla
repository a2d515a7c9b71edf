------------------------------ MODULE CodexAuth ------------------------------
(***************************************************************************)
(* The Codex credential of a workspace (workspacehelper/codex_auth.go,     *)
(* application/connections.go): sealed under a per-workspace key on the    *)
(* volume, materialized in tmpfs while wrapped Codex processes hold        *)
(* leases, sealed again by the last of them, and revoked on disconnect.    *)
(*                                                                         *)
(* Every operation of the manager holds a file lock, so it is one step;    *)
(* a process may also die in the middle of one.  Leases of dead processes  *)
(* do not count (activeLeases).  Credentials are well formed, and a        *)
(* wrapper and the Codex it runs die together.                             *)
(***************************************************************************)
EXTENDS Integers

CONSTANTS
    CodexRuns,      \* wrapped Codex processes
    MaxCredentials  \* bound: credentials obtained by login or refresh

ASSUME CodexAuthAssumption == MaxCredentials \in Nat \ {0}

VARIABLES
    authKey,        \* whether tmpfs holds the key
    runtimeAuth,    \* the credential in tmpfs, 0 when there is none
    sealedAuth,     \* the credential in the envelope, 0 when there is none
    run,            \* processes: "idle", or running and holding a lease
    newest,         \* history: credential the last login, refresh or logout left
    obtained,       \* number of credentials obtained
    lost,           \* history: a process died before it sealed a change
    cut             \* history: disconnected, and not configured since

codexVars == <<authKey, runtimeAuth, sealedAuth, run, newest, obtained, lost, cut>>

RunLeases == {p \in CodexRuns : run[p] # "idle"}
RunIs(p, s) == run' = [run EXCEPT ![p] = s]

-----------------------------------------------------------------------------
(* configure, beginMode *)

\* After provisioning and after every resumption.
ConfigureAuth ==
    /\ authKey' = TRUE /\ cut' = FALSE
    /\ UNCHANGED <<runtimeAuth, sealedAuth, run, newest, obtained, lost>>

\* beginMode: without leases the envelope is authoritative and replaces what a
\* dead process left in tmpfs; only a device login may begin without one.
BeginRun(p, kind) ==
    LET shown == IF RunLeases = {} THEN sealedAuth ELSE runtimeAuth IN
    /\ run[p] = "idle" /\ authKey
    /\ runtimeAuth' = shown
    /\ IF RunLeases = {} THEN newest' = sealedAuth /\ lost' = FALSE ELSE UNCHANGED <<newest, lost>>
    /\ IF kind = "login" \/ shown # 0 THEN RunIs(p, kind) ELSE UNCHANGED run
    /\ UNCHANGED <<authKey, sealedAuth, obtained, cut>>

-----------------------------------------------------------------------------
(* Codex itself *)

\* A login completes, or a token is refreshed.
Obtain(p) ==
    /\ run[p] = "login" \/ (run[p] = "codex" /\ runtimeAuth # 0)
    /\ obtained < MaxCredentials /\ obtained' = obtained + 1
    /\ runtimeAuth' = obtained + 1 /\ newest' = obtained + 1
    /\ UNCHANGED <<authKey, sealedAuth, run, lost, cut>>

\* codex logout removes the file.
Logout(p) ==
    /\ run[p] = "codex"
    /\ runtimeAuth' = 0 /\ newest' = 0
    /\ UNCHANGED <<authKey, sealedAuth, run, obtained, lost, cut>>

-----------------------------------------------------------------------------
(* close, sealBoundary, status *)

\* Mutant: every process seals and purges when it ends.
CloseRunMutant(p) ==
    /\ run[p] # "idle" /\ RunIs(p, "idle")
    /\ sealedAuth' = runtimeAuth /\ runtimeAuth' = 0
    /\ UNCHANGED <<authKey, newest, obtained, lost, cut>>

\* The last lease seals (a removed file removes the envelope) and purges.
CloseRun(p) ==
    /\ run[p] # "idle" /\ RunIs(p, "idle")
    /\ IF RunLeases = {p} THEN sealedAuth' = runtimeAuth /\ runtimeAuth' = 0
       ELSE UNCHANGED <<sealedAuth, runtimeAuth>>
    /\ UNCHANGED <<authKey, newest, obtained, lost, cut>>

\* It dies after it sealed and before it purged.
CloseDies(p) ==
    /\ RunLeases = {p} /\ RunIs(p, "idle")
    /\ sealedAuth' = runtimeAuth
    /\ UNCHANGED <<authKey, runtimeAuth, newest, obtained, lost, cut>>

\* It is killed, or dies before it has sealed.
RunDies(p) ==
    /\ run[p] # "idle" /\ RunIs(p, "idle")
    /\ lost' = (lost \/ (RunLeases = {p} /\ runtimeAuth # sealedAuth))
    /\ UNCHANGED <<authKey, runtimeAuth, sealedAuth, newest, obtained, cut>>

\* sealBoundary, at a checkpoint, a suspension or a deletion.
SealBoundary ==
    /\ authKey
    /\ sealedAuth' = IF runtimeAuth # 0 THEN runtimeAuth ELSE sealedAuth
    /\ runtimeAuth' = IF RunLeases = {} THEN 0 ELSE runtimeAuth
    /\ lost' = (lost /\ sealedAuth' # newest)
    /\ UNCHANGED <<authKey, run, newest, obtained, cut>>

\* The container stops: tmpfs and the processes are gone.
StopContainer ==
    /\ authKey' = FALSE /\ runtimeAuth' = 0 /\ run' = [p \in CodexRuns |-> "idle"]
    /\ lost' = (lost \/ (RunLeases # {} /\ runtimeAuth # sealedAuth))
    /\ UNCHANGED <<sealedAuth, newest, obtained, cut>>

\* status
AuthStatus ==
    IF runtimeAuth # 0 \/ sealedAuth # 0
    THEN IF sealedAuth # 0 /\ ~authKey THEN "unavailable" ELSE "connected"
    ELSE IF RunLeases # {} THEN "authenticating" ELSE "disconnected"

-----------------------------------------------------------------------------
(* revoke, after the application's Codex sessions were told to end *)

RevokeAuth ==
    /\ RunLeases = {}
    /\ authKey' = FALSE /\ runtimeAuth' = 0 /\ sealedAuth' = 0 /\ newest' = 0
    /\ cut' = TRUE /\ lost' = FALSE
    /\ UNCHANGED <<run, obtained>>

\* It stops half-way: the materialized file is gone, perhaps the envelope too.
RevokeStops ==
    /\ RunLeases = {} /\ runtimeAuth' = 0
    /\ \/ UNCHANGED <<sealedAuth, newest, lost>>
       \/ sealedAuth' = 0 /\ newest' = 0 /\ lost' = FALSE
    /\ UNCHANGED <<authKey, run, obtained, cut>>

-----------------------------------------------------------------------------
CodexAuthInit ==
    /\ authKey = FALSE /\ runtimeAuth = 0 /\ sealedAuth = 0 /\ obtained = 0 /\ newest = 0
    /\ run = [p \in CodexRuns |-> "idle"] /\ lost = FALSE /\ cut = FALSE

CodexAuthNext ==
    \/ ConfigureAuth \/ SealBoundary \/ StopContainer \/ RevokeAuth \/ RevokeStops
    \/ \E p \in CodexRuns :
        \/ \E kind \in {"login", "codex"} : BeginRun(p, kind)
        \/ Obtain(p) \/ Logout(p) \/ CloseRun(p) \/ CloseDies(p) \/ RunDies(p)

CodexAuthSpec == CodexAuthInit /\ [][CodexAuthNext]_codexVars

-----------------------------------------------------------------------------
(* Properties *)

CodexAuthTypeOK ==
    /\ authKey \in BOOLEAN /\ lost \in BOOLEAN /\ cut \in BOOLEAN
    /\ {runtimeAuth, sealedAuth, newest, obtained} \subseteq 0..MaxCredentials
    /\ run \in [CodexRuns -> {"idle", "login", "codex"}]

(* When no Codex runs, the envelope holds the credential that the last login,  *)
(* refresh or logout of any of the processes left, however their beginnings    *)
(* and ends were interleaved, unless one died with a change that nobody had    *)
(* sealed (codex_auth.go:176-345).                                             *)
EnvelopeIsCurrent == RunLeases = {} /\ ~lost => sealedAuth = newest

(* After a disconnect was confirmed, and until the workspace is configured     *)
(* again, no form of the credential and no process that holds a lease is left, *)
(* and the reported state is "disconnected" (codex_auth.go:501-587,            *)
(* connections.go:147-165).                                                    *)
DisconnectedIsGone ==
    cut => /\ ~authKey /\ runtimeAuth = 0 /\ sealedAuth = 0 /\ RunLeases = {}
           /\ AuthStatus = "disconnected"

(* The sealed credential follows what the owner did last: it is neither lost   *)
(* nor kept (codexAuthManager, DisconnectCodex).                               *)
CredentialFollowsOwner == EnvelopeIsCurrent /\ DisconnectedIsGone

(* What keeps it so: while anybody runs, tmpfs holds the newest credential,    *)
(* and what a dead process left there is that credential or nothing, so that   *)
(* the next seal cannot bring back an older one (beginMode, sealBoundary).     *)
CodexAuthInvariant ==
    /\ CodexAuthTypeOK /\ CredentialFollowsOwner
    /\ RunLeases # {} => runtimeAuth = newest
    /\ runtimeAuth \in {0, newest}
=============================================================================
