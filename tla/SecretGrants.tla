---------------------------- MODULE SecretGrants ----------------------------
(***************************************************************************)
(* Owner secrets granted to workspaces (internal/application/secrets.go,   *)
(* internal/postgres/secrets.go) and their materialization in a running    *)
(* workspace (workspacehelper/runtime_secrets.go), where terminal          *)
(* processes inherit them (application/terminals.go, coder/pty.go,         *)
(* workspacehelper/terminal.go).                                           *)
(*                                                                         *)
(* An operation takes the gate of its secret, then the gates of the        *)
(* workspaces it touches in order, changes the database and synchronizes   *)
(* each running workspace.  A call of the helper that fails was not        *)
(* executed, removed the old file only, or was executed and its answer     *)
(* lost.  The suspension of a workspace takes its gate; its resumption     *)
(* configures the workspace without it.                                    *)
(***************************************************************************)
EXTENDS Integers, FiniteSets, FiniteSetsExt, TLC

CONSTANTS
    Secrets,    \* secrets of the owner
    NumSpaces,  \* number of workspaces
    Mutations,  \* operations under way
    MaxValues,  \* bound: values a secret has had
    MaxMutations \* bound: operations begun

ASSUME SecretGrantsAssumption ==
    NumSpaces \in Nat /\ MaxValues \in Nat \ {0} /\ MaxMutations \in Nat

VARIABLES
    value,      \* secrets: number of the current value, 0 before it is created
    deleted,    \* deleted secrets
    grants,     \* active grants: workspace and secret
    space,      \* workspaces: running, suspending, stopped, or configuring with a set
    tmpfs,      \* workspaces: the grant file, {} when there is none
    tab,        \* workspaces: the terminal's redactor, and whether its process
                \* inherited a value the redactor does not know
    op,         \* operations
    begun,      \* number of operations begun
    stale       \* history: workspaces whose last change is not yet synchronized

grantVars == <<value, deleted, grants, space, tmpfs, tab, op, begun, stale>>

Spaces == 1..NumSpaces
NoOp == [at |-> "idle", kind |-> "none", secret |-> {}, want |-> {}, held |-> {}, sync |-> {}]
NoTab == [open |-> FALSE, redacts |-> {}, exposed |-> FALSE]
OpIs(o, record) == op' = [op EXCEPT ![o] = record]
Begins(o, record) ==
    /\ op[o].at = "idle" /\ begun < MaxMutations /\ begun' = begun + 1
    /\ OpIs(o, record)
Busy(w) == \E o \in Mutations : w \in op[o].held
SecretBusy(s) == \E o \in Mutations : op[o].at # "idle" /\ s \in op[o].secret

\* LoadGrantedWorkspaceSecrets
Granted(w) == {<<s, value[s]>> : s \in {x \in Secrets \ deleted : <<w, x>> \in grants}}
\* ListSecretWorkspaceIDs
Affected(s) == {w \in Spaces : <<w, s>> \in grants}

-----------------------------------------------------------------------------
(* Gates *)

\* UpdateSecret, DeleteSecret: the secret's gate, and the workspaces it affects
BeginSecret(o, s, kind) ==
    /\ ~SecretBusy(s)
    /\ value[s] > 0 /\ s \notin deleted /\ (kind = "update" => value[s] < MaxValues)
    /\ Begins(o, [NoOp EXCEPT !.at = IF Affected(s) = {} THEN "mutate" ELSE "lock",
                            !.kind = kind, !.secret = {s}, !.want = Affected(s)])
    /\ UNCHANGED <<value, deleted, grants, space, tmpfs, tab, stale>>

\* GrantWorkspaceSecret, RevokeWorkspaceSecret
BeginGrant(o, s, w, kind) ==
    /\ ~SecretBusy(s) /\ value[s] > 0
    /\ Begins(o, [NoOp EXCEPT !.at = "lock", !.kind = kind, !.secret = {s}, !.want = {w}])
    /\ UNCHANGED <<value, deleted, grants, space, tmpfs, tab, stale>>

\* CreateTerminalConnection up to startTerminalRuntime
BeginLaunch(o, w) ==
    /\ ~tab[w].open
    /\ Begins(o, [NoOp EXCEPT !.at = "lock", !.kind = "launch", !.want = {w}])
    /\ UNCHANGED <<value, deleted, grants, space, tmpfs, tab, stale>>

\* Mutant: the workspaces are locked in the order the query happened to return.
LockOrderMutant(ws) == ws

\* lockSecretWorkspaces sorts the identifiers first.
LockOrder(ws) == {Min(ws)}

Lock(o) ==
    /\ op[o].at = "lock"
    /\ \E w \in LockOrder(op[o].want) :
        /\ ~Busy(w)
        /\ OpIs(o, [op[o] EXCEPT !.want = @ \ {w}, !.held = @ \cup {w},
                                 !.at = IF op[o].want = {w} THEN "mutate" ELSE @])
    /\ UNCHANGED <<begun, value, deleted, grants, space, tmpfs, tab, stale>>

-----------------------------------------------------------------------------
(* The change, its synchronization, and the launch *)

\* syncLiveWorkspaceSecretGrants is for the workspaces seen running here; the
\* others wait for their next launch.
Running(ws) == {w \in ws : space[w].at = "running"}

\* UpdateSecret, DeleteSecret, GrantWorkspaceSecret, RevokeWorkspaceSecret of
\* the store.  A workspace that began to run since it was read is not
\* synchronized, and none is when an error is reported of a change that was
\* committed.  A refusal ends the operation, and so does a launch in a workspace
\* that is not running.
Mutate(o) ==
    LET s == op[o].secret
        kind == op[o].kind IN
    /\ op[o].at = "mutate"
    /\ \/ /\ kind = "launch" /\ Running(op[o].held) # {}
          /\ OpIs(o, [op[o] EXCEPT !.at = "sync", !.sync = op[o].held])
          /\ UNCHANGED <<value, deleted, grants, stale>>
       \/ /\ kind # "launch" /\ (kind \in {"grant", "update"} => s \cap deleted = {})
          /\ value' = [x \in Secrets |-> IF x \in s /\ kind = "update" THEN value[x] + 1 ELSE value[x]]
          /\ deleted' = IF kind = "delete" THEN deleted \cup s ELSE deleted
          /\ grants' = CASE kind = "grant"  -> grants \cup (op[o].held \X s)
                         [] kind = "revoke" -> grants \ (op[o].held \X s)
                         [] kind = "delete" -> grants \ (Spaces \X s)
                         [] OTHER           -> grants
          /\ stale' = stale \cup op[o].held
          /\ \E due \in SUBSET Running(op[o].held) : OpIs(o, [op[o] EXCEPT !.at = "sync", !.sync = due])
       \/ OpIs(o, NoOp) /\ UNCHANGED <<value, deleted, grants, stale>>
    /\ UNCHANGED <<begun, space, tmpfs, tab>>

\* syncWorkspaceRuntimeSecrets loads the grants and replaces the file.
Sync(o, w) ==
    /\ op[o].at = "sync" /\ w \in op[o].sync
    /\ tmpfs' = [tmpfs EXCEPT ![w] = {Granted(w)}] /\ stale' = stale \ {w}
    /\ OpIs(o, [op[o] EXCEPT !.sync = @ \ {w}])
    /\ UNCHANGED <<begun, value, deleted, grants, space, tab>>

\* Mutant: a launch goes on when the synchronization has failed.
SyncFailsMutant(o, w) ==
    /\ op[o].at = "sync" /\ w \in op[o].sync
    /\ \E file \in {tmpfs[w], {}, {Granted(w)}} : tmpfs' = [tmpfs EXCEPT ![w] = file]
    /\ stale' = stale \cup {w}
    /\ OpIs(o, [op[o] EXCEPT !.sync = @ \ {w}])
    /\ UNCHANGED <<begun, value, deleted, grants, space, tab>>

\* A failure: the other workspaces are still synchronized, a launch is over.
SyncFails(o, w) ==
    /\ op[o].at = "sync" /\ w \in op[o].sync
    /\ \E file \in {tmpfs[w], {}, {Granted(w)}} : tmpfs' = [tmpfs EXCEPT ![w] = file]
    /\ stale' = stale \cup {w}
    /\ OpIs(o, IF op[o].kind = "launch" THEN NoOp ELSE [op[o] EXCEPT !.sync = @ \ {w}])
    /\ UNCHANGED <<begun, value, deleted, grants, space, tab>>

\* The redactor is built from the grants, the PTY opened and registered.
OpenTerminal(o) ==
    /\ op[o].at = "sync" /\ op[o].sync = {} /\ op[o].kind = "launch"
    /\ tab' = [w \in Spaces |->
                 IF w \in op[o].held THEN [open |-> TRUE, redacts |-> Granted(w), exposed |-> FALSE] ELSE tab[w]]
    /\ OpIs(o, [op[o] EXCEPT !.at = "opened"])
    /\ UNCHANGED <<begun, value, deleted, grants, space, tmpfs, stale>>

Return(o) ==
    /\ \/ op[o].at = "opened"
       \/ op[o].at = "sync" /\ op[o].sync = {} /\ op[o].kind # "launch"
    /\ OpIs(o, NoOp)
    /\ UNCHANGED <<begun, value, deleted, grants, space, tmpfs, tab, stale>>

\* PTYRuntime.run dials on its own, and again whenever the connection ends;
\* the command it runs loads the file when tmux has no session yet.
ProcessStarts(w) ==
    /\ tab[w].open /\ space[w].at \in {"running", "suspending"}
    /\ \E file \in tmpfs[w] : tab' = [tab EXCEPT ![w].exposed = ~(file \subseteq tab[w].redacts)]
    /\ UNCHANGED <<begun, value, deleted, grants, space, tmpfs, op, stale>>

CreateSecret(s) ==
    /\ value[s] = 0 /\ value' = [value EXCEPT ![s] = 1]
    /\ UNCHANGED <<begun, deleted, grants, space, tmpfs, tab, op, stale>>

-----------------------------------------------------------------------------
(* The workspace: suspension, seal, resumption *)

SpaceIs(w, at, set) == space' = [space EXCEPT ![w] = [at |-> at, grants |-> set]]

Suspending(w) ==
    /\ space[w].at = "running" /\ SpaceIs(w, "suspending", {})
    /\ UNCHANGED <<begun, value, deleted, grants, tmpfs, tab, op, stale>>

\* beginWorkspaceRuntimeDrain, under the gate of the workspace: the terminals
\* are unregistered, the file purged with the sealing checkpoint, the provider
\* stopped.
Drain(w) ==
    /\ space[w].at = "suspending" /\ ~Busy(w)
    /\ SpaceIs(w, "stopped", {})
    /\ tmpfs' = [tmpfs EXCEPT ![w] = {}] /\ tab' = [tab EXCEPT ![w] = NoTab]
    /\ UNCHANGED <<begun, value, deleted, grants, op, stale>>

\* configure: the grants are loaded, sent, and later written.
Resume(w) ==
    /\ space[w].at = "stopped" /\ SpaceIs(w, "configuring", Granted(w))
    /\ UNCHANGED <<begun, value, deleted, grants, tmpfs, tab, op, stale>>

Configured(w) ==
    /\ space[w].at = "configuring"
    /\ tmpfs' = [tmpfs EXCEPT ![w] = {space[w].grants}] /\ SpaceIs(w, "running", {})
    /\ UNCHANGED <<begun, value, deleted, grants, tab, op, stale>>

-----------------------------------------------------------------------------
SecretGrantsInit ==
    /\ value \in [Secrets -> {0, 1}] /\ deleted = {}
    /\ grants \in SUBSET (Spaces \X {s \in Secrets : value[s] = 1})
    /\ space = [w \in Spaces |-> [at |-> "stopped", grants |-> {}]]
    /\ tmpfs = [w \in Spaces |-> {}] /\ tab = [w \in Spaces |-> NoTab]
    /\ op = [o \in Mutations |-> NoOp] /\ begun = 0 /\ stale = {}

SecretGrantsNext ==
    \/ \E o \in Mutations :
        \/ \E s \in Secrets, kind \in {"update", "delete"} : BeginSecret(o, s, kind)
        \/ \E s \in Secrets, w \in Spaces, kind \in {"grant", "revoke"} : BeginGrant(o, s, w, kind)
        \/ \E w \in Spaces : BeginLaunch(o, w) \/ Sync(o, w) \/ SyncFails(o, w)
        \/ Lock(o) \/ Mutate(o) \/ OpenTerminal(o) \/ Return(o)
    \/ \E s \in Secrets : CreateSecret(s)
    \/ \E w \in Spaces : ProcessStarts(w) \/ Suspending(w) \/ Drain(w) \/ Resume(w) \/ Configured(w)

SecretGrantsSpec == SecretGrantsInit /\ [][SecretGrantsNext]_grantVars

-----------------------------------------------------------------------------
(* Properties *)

OpRecord == [at : {"idle", "lock", "mutate", "sync", "opened"},
             kind : {"none", "update", "delete", "grant", "revoke", "launch"}, secret : SUBSET Secrets,
             want : SUBSET Spaces, held : SUBSET Spaces, sync : SUBSET Spaces]
GrantSet == SUBSET (Secrets \X Nat)
SecretGrantsTypeOK ==
    /\ value \in [Secrets -> Nat] /\ deleted \subseteq Secrets
    /\ grants \subseteq Spaces \X Secrets /\ stale \subseteq Spaces
    /\ space \in [Spaces -> [at : {"running", "suspending", "stopped", "configuring"}, grants : GrantSet]]
    /\ tmpfs \in [Spaces -> SUBSET GrantSet]
    /\ tab \in [Spaces -> [open : BOOLEAN, redacts : GrantSet, exposed : BOOLEAN]]
    /\ begun \in 0..MaxMutations /\ op \in [Mutations -> OpRecord]

(* When a terminal has just been opened, what its process will find in the    *)
(* workspace is what is granted and what the redactor knows, whatever grants, *)
(* rotations and deletions race the launch; and a running workspace nobody is *)
(* changing holds no value that is not granted, unless the synchronization of *)
(* its last change failed or was put off (application/secrets.go:188-264,     *)
(* terminals.go:320-411).                                                     *)
LaunchIsCurrent ==
    /\ \A o \in Mutations : op[o].at = "opened" =>
        \A w \in op[o].held : tmpfs[w] = {Granted(w)} /\ tab[w].redacts = Granted(w)
    /\ \A w \in Spaces \ stale :
        space[w].at = "running" /\ ~Busy(w) => \A file \in tmpfs[w] : file = Granted(w)

(* The gates of secrets and workspaces are taken without a cycle: in no set   *)
(* of operations does each wait for a gate another one of the set holds       *)
(* (application/secrets.go:61-115, 134-185, 212-264; workspaces.go:273-320).  *)
GatesAreOrdered ==
    ~\E set \in (SUBSET Mutations) \ {{}} : \A o \in set :
        /\ op[o].at = "lock"
        /\ \A w \in LockOrder(op[o].want) : \E u \in set \ {o} : w \in op[u].held

(* What keeps the order: an operation holds only gates below the ones it      *)
(* still wants, and none when it is over (lockSecretWorkspaces).              *)
GateOrder(x) ==
    /\ x.at = "lock" <=> x.want # {}
    /\ x.at = "idle" => x.held = {}
    /\ \A h \in x.held, w \in x.want : h < w
GatesInvariant == op \in [Mutations -> OpRecord] /\ \A o \in Mutations : GateOrder(op[o])

(* What keeps a launch current.  An operation on a secret has, or will have,  *)
(* the gate of every workspace the secret is granted to; it synchronizes only *)
(* workspaces it holds, which cannot stop meanwhile; and a launch has written *)
(* the file of every workspace it no longer has to synchronize.               *)
Attached(w) == space[w].at \in {"running", "suspending"}
SoundOp(x) ==
    /\ x.at = "lock" <=> x.want # {}
    /\ x.at = "idle" => x.held = {} /\ x.secret = {}
    /\ x.at # "sync" => x.sync = {}
    /\ x.at = "opened" => x.kind = "launch"
    /\ x.kind = "launch" => x.secret = {} /\ \E w \in Spaces : x.want \cup x.held = {w}
    /\ x.kind \in {"update", "delete"} /\ x.at \in {"lock", "mutate"} =>
          \A s \in x.secret : Affected(s) \subseteq x.want \cup x.held
    /\ \A s \in x.secret : value[s] > 0
    /\ x.sync \subseteq x.held /\ \A w \in x.sync : Attached(w)
    /\ x.kind = "launch" /\ x.at \in {"sync", "opened"} =>
          \A w \in x.held : Attached(w) /\ (w \in x.sync \/ tmpfs[w] = {Granted(w)})
    /\ x.at = "opened" => \A w \in x.held : tab[w].redacts = Granted(w)

(* Two operations share neither a gate nor a secret; what is granted exists;  *)
(* and a workspace whose file, or the one it is about to write, is not what   *)
(* is granted is one of those whose synchronization is due.                   *)
Exclusive(x, y) ==
    /\ x.held \cap y.held = {}
    /\ x.at # "idle" /\ y.at # "idle" => x.secret \cap y.secret = {}
FileIsCurrent(w) ==
    /\ space[w].at = "running" => \A file \in tmpfs[w] : file = Granted(w)
    /\ space[w].at = "configuring" => space[w].grants = Granted(w)
GrantsInvariant ==
    /\ SecretGrantsTypeOK
    /\ \A o \in Mutations : SoundOp(op[o])
    /\ \A o, u \in Mutations : o # u => Exclusive(op[o], op[u])
    /\ \A g \in grants : value[g[2]] > 0
    /\ \A w \in Spaces \ stale : FileIsCurrent(w)

(* What a terminal's process has inherited is known to the redactor of its    *)
(* output (SECURITY.md:139: "A terminal cannot start without a redactor built *)
(* from the current authoritative grant set").                                *)
InheritedIsRedacted == \A w \in Spaces : ~tab[w].exposed
=============================================================================
