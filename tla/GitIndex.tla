------------------------------ MODULE GitIndex ------------------------------
(***************************************************************************)
(* Native Git operations beside the owner's terminal                       *)
(* (internal/gitops/service.go, index_transaction.go, mutation_guard.go,   *)
(* and the git dispatch of internal/workspacehelper/helper.go).            *)
(*                                                                         *)
(* Stage and commit hold Git's own index.lock and work on a private copy   *)
(* of the index; they compare the lock file with the one they created and  *)
(* then rename or remove it by its path, in a second step.  A commit moves *)
(* the branch by compare-and-swap; a push names the commit that was        *)
(* scanned; a pull leaves branch and index to go-git, which takes no lock. *)
(* Native operations may overlap, because a helper outlives a control      *)
(* plane that stopped waiting for it.  The terminal uses Git as it likes:  *)
(* it takes index.lock to write the index, moves the branch with or        *)
(* without it, and may delete a lock it finds.  A tree is told apart by    *)
(* whether it holds a granted secret.                                      *)
(***************************************************************************)
EXTENDS Integers, FiniteSets

CONSTANTS
    Natives,     \* native operations under way (helper processes)
    Shell,       \* the terminal's Git, as the holder of a lock
    MaxCommits,  \* bound: commits made
    MaxWrites    \* bound: index writes by the terminal

ASSUME GitIndexAssumption == Shell \notin Natives /\ MaxCommits \in Nat \ {0} /\ MaxWrites \in Nat

VARIABLES
    index,    \* the index: whether its tree holds a secret
    lock,     \* holder of index.lock
    commits,  \* commits made: secret, parent, and all they reach; 0 is the root
    tip,      \* the checked-out branch
    remote,   \* the branch on GitHub
    native,   \* the operations
    writing,  \* the terminal's Git created index.lock and is about to rename it
    writes    \* index writes by the terminal

gitVars == <<index, lock, commits, tip, remote, native, writing, writes>>

Unlocked == {}
\* snap: the private copy; since: history, what happened since it was made.
NoNative == [at |-> "idle", op |-> "none", snap |-> FALSE, since |-> {}, base |-> 0, commit |-> 0]
Copied == {"scan", "install", "rename", "commit", "update"}  \* with a private copy
Events == {"pulled",     \* a pull wrote the index, whoever held the lock
           "rewritten",  \* somebody renamed index.lock to the index
           "robbed"}     \* its lock went after install had compared it
Made == DOMAIN commits
Fresh == Cardinality(Made)
NativeIs(n, record) == native' = [native EXCEPT ![n] = record]

\* A commit and its ancestors.
Reach(c) == commits[c].reach

NewCommit(secret, parent) ==
    commits' = [c \in Made \cup {Fresh} |->
        IF c = Fresh THEN [secret |-> secret, parent |-> parent, reach |-> Reach(parent) \cup {Fresh}]
        ELSE commits[c]]

\* The operation of n, if n is native, ends, and the others live through the events.
Told(m, events) ==
    LET here == IF native[m].at \in Copied THEN {"pulled", "rewritten"} ELSE {}
        gap == IF native[m].at = "rename" /\ m \in lock THEN {"robbed"} ELSE {}
    IN [native[m] EXCEPT !.since = @ \cup (events \cap (here \cup gap))]
Passes(n, events) == native' = [m \in Natives |-> IF m = n THEN NoNative ELSE Told(m, events)]

\* index.lock, whoever created it, becomes the index.
ReplaceIndex(secret, n) ==
    index' = secret /\ lock' = Unlocked /\ Passes(n, {"rewritten", "robbed"})

\* close, first step: is the lock file still the one created here?
Ends(n) == NativeIs(n, IF lock = {n} THEN [NoNative EXCEPT !.at = "close"] ELSE NoNative)

-----------------------------------------------------------------------------
(* Stage and CommitAs *)

\* beginIndexSnapshot: O_EXCL on index.lock, then a private copy of the index.
BeginSnapshot(n, op) ==
    /\ native[n] = NoNative /\ lock = Unlocked
    /\ lock' = {n}
    /\ NativeIs(n, [NoNative EXCEPT !.at = "scan", !.op = op, !.snap = index])
    /\ UNCHANGED <<index, commits, tip, remote, writing, writes>>

\* git add into the copy, write-tree, validateStagedPaths, ScanTree: a tree with
\* a secret is refused.
ScanStage(n, secret) ==
    /\ native[n].at = "scan" /\ native[n].op = "stage"
    /\ IF secret THEN Ends(n)
       ELSE NativeIs(n, [native[n] EXCEPT !.at = "install", !.snap = FALSE])
    /\ UNCHANGED <<index, lock, commits, tip, remote, writing, writes>>

\* Mutant: the lock file is not compared with the one that was created.
InstallMutant(n) ==
    /\ native[n].at = "install"
    /\ NativeIs(n, [native[n] EXCEPT !.at = "rename"])
    /\ UNCHANGED <<index, lock, commits, tip, remote, writing, writes>>

\* install: the copy into the open lock file, whose path must still lead to it.
Install(n) ==
    /\ native[n].at = "install"
    /\ NativeIs(n, IF lock = {n} THEN [native[n] EXCEPT !.at = "rename"] ELSE NoNative)
    /\ UNCHANGED <<index, lock, commits, tip, remote, writing, writes>>

\* The rename by path: it fails without a lock file, and takes another's with
\* what that one has written so far.
Rename(n) ==
    /\ native[n].at = "rename"
    /\ \/ lock = Unlocked /\ NativeIs(n, NoNative) /\ UNCHANGED <<index, lock>>
       \/ lock = {n} /\ ReplaceIndex(native[n].snap, n)
       \/ lock \notin {Unlocked, {n}} /\ \E s \in BOOLEAN : ReplaceIndex(s, n)
    /\ UNCHANGED <<commits, tip, remote, writing, writes>>

\* close, second step: the removal by path.
RemoveLock(n) ==
    /\ native[n].at = "close"
    /\ lock' = Unlocked /\ Passes(n, {"robbed"})
    /\ UNCHANGED <<index, commits, tip, remote, writing, writes>>

\* rev-parse HEAD, and the scan of the copy's tree.
ScanCommit(n) ==
    /\ native[n].at = "scan" /\ native[n].op = "commit"
    /\ IF native[n].snap THEN Ends(n)
       ELSE NativeIs(n, [native[n] EXCEPT !.at = "commit", !.base = tip])
    /\ UNCHANGED <<index, lock, commits, tip, remote, writing, writes>>

\* commit-tree, and the scan of the commit object.
CommitTree(n) ==
    /\ native[n].at = "commit" /\ Fresh <= MaxCommits
    /\ NewCommit(FALSE, native[n].base)
    /\ NativeIs(n, [native[n] EXCEPT !.at = "update", !.commit = Fresh])
    /\ UNCHANGED <<index, lock, tip, remote, writing, writes>>

\* update-ref headRef commit head: refused when the branch has moved.
UpdateRef(n) ==
    /\ native[n].at = "update"
    /\ tip' = IF tip = native[n].base THEN native[n].commit ELSE tip
    /\ Ends(n)
    /\ UNCHANGED <<index, lock, commits, remote, writing, writes>>

\* Unstage and DiscardTracked: git restore locks and writes, one step here.
Unstage(n) ==
    /\ native[n] = NoNative /\ lock = Unlocked
    /\ ReplaceIndex(commits[tip].secret, n)
    /\ UNCHANGED <<commits, tip, remote, writing, writes>>

-----------------------------------------------------------------------------
(* Push and Pull *)

\* The tip, the branches on GitHub, and the scan of what only the tip reaches.
ScanPush(n) ==
    /\ native[n] = NoNative
    /\ \A c \in Reach(tip) \ Reach(remote) : ~commits[c].secret
    /\ NativeIs(n, [NoNative EXCEPT !.at = "push", !.op = "push", !.commit = tip])
    /\ UNCHANGED <<index, lock, commits, tip, remote, writing, writes>>

\* Mutant: the push names the branch.
PushMutant(n) ==
    /\ native[n].at = "push"
    /\ remote' = IF remote \in Reach(tip) THEN tip ELSE remote
    /\ NativeIs(n, NoNative)
    /\ UNCHANGED <<index, lock, commits, tip, writing, writes>>

\* tip:headRef without force: GitHub refuses what is not a fast-forward.
Push(n) ==
    /\ native[n].at = "push"
    /\ remote' = IF remote \in Reach(native[n].commit) THEN native[n].commit ELSE remote
    /\ NativeIs(n, NoNative)
    /\ UNCHANGED <<index, lock, commits, tip, writing, writes>>

\* PullContext of go-git: the fetch, and HEAD must be an ancestor of what came.
PullFetches(n) ==
    /\ native[n] = NoNative
    /\ tip # remote /\ tip \in Reach(remote)
    /\ NativeIs(n, [NoNative EXCEPT !.at = "pull", !.op = "pull", !.base = tip, !.commit = remote])
    /\ UNCHANGED <<index, lock, commits, tip, remote, writing, writes>>

\* The branch is set without its old value, after the fetch and again by the
\* reset, which in between ends the pull over unstaged changes (NativeFails).
PullMoves(n) ==
    /\ native[n].at \in {"pull", "reset"}
    /\ tip' = native[n].commit
    /\ NativeIs(n, [native[n] EXCEPT !.at = IF @ = "pull" THEN "reset" ELSE "write"])
    /\ UNCHANGED <<index, lock, commits, remote, writing, writes>>

\* The reset writes the index: no index.lock, and staged work does not stop it.
PullWritesIndex(n) ==
    /\ native[n].at = "write"
    /\ index' = commits[native[n].commit].secret /\ Passes(n, {"pulled"})
    /\ UNCHANGED <<lock, commits, tip, remote, writing, writes>>

\* An error or a timeout, which close follows; or the helper is killed.
NativeFails(n) ==
    /\ native[n].at # "idle"
    /\ \/ NativeIs(n, NoNative)
       \/ native[n].at \in Copied /\ Ends(n)
    /\ UNCHANGED <<index, lock, commits, tip, remote, writing, writes>>

-----------------------------------------------------------------------------
(* The terminal *)

ShellLocks ==
    /\ lock = Unlocked /\ ~writing /\ writes < MaxWrites
    /\ lock' = {Shell} /\ writing' = TRUE /\ writes' = writes + 1
    /\ UNCHANGED <<index, commits, tip, remote, native>>

\* git add, reset, checkout ... of anything: Git too renames by path.
ShellWrites(secret) ==
    /\ writing /\ writing' = FALSE
    /\ IF lock = Unlocked THEN UNCHANGED <<index, lock, native>> ELSE ReplaceIndex(secret, Shell)
    /\ UNCHANGED <<commits, tip, remote, writes>>

\* git commit, or commit-tree and update-ref, which need no index.lock.
ShellCommits(secret) ==
    /\ Fresh <= MaxCommits
    /\ NewCommit(secret, tip) /\ tip' = Fresh
    /\ UNCHANGED <<index, lock, remote, native, writing, writes>>

\* git reset --soft, git branch --force.
ShellMovesBranch(c) ==
    /\ c \in Made /\ c # tip
    /\ tip' = c
    /\ UNCHANGED <<index, lock, commits, remote, native, writing, writes>>

\* rm .git/index.lock
ShellRemovesLock ==
    /\ lock \cap Natives # {}
    /\ lock' = Unlocked /\ Passes(Shell, {"robbed"})
    /\ UNCHANGED <<index, commits, tip, remote, writing, writes>>

-----------------------------------------------------------------------------
GitIndexInit ==
    /\ index = FALSE /\ lock = Unlocked
    /\ commits = [c \in {0} |-> [secret |-> FALSE, parent |-> 0, reach |-> {0}]] /\ tip = 0 /\ remote = 0
    /\ native = [n \in Natives |-> NoNative] /\ writing = FALSE /\ writes = 0

NativeStep(n) ==
    \/ \E op \in {"stage", "commit"} : BeginSnapshot(n, op)
    \/ \E s \in BOOLEAN : ScanStage(n, s)
    \/ Install(n) \/ Rename(n) \/ RemoveLock(n)
    \/ ScanCommit(n) \/ CommitTree(n) \/ UpdateRef(n) \/ Unstage(n)
    \/ ScanPush(n) \/ Push(n)
    \/ PullFetches(n) \/ PullMoves(n) \/ PullWritesIndex(n)
    \/ NativeFails(n)

ShellStep ==
    \/ ShellLocks \/ ShellRemovesLock
    \/ \E s \in BOOLEAN : ShellWrites(s) \/ ShellCommits(s)
    \/ \E c \in 0..MaxCommits : ShellMovesBranch(c)

GitIndexNext == ShellStep \/ \E n \in Natives : NativeStep(n)

GitIndexSpec == GitIndexInit /\ [][GitIndexNext]_gitVars

-----------------------------------------------------------------------------
(* Properties *)

CommitRecord == [secret : BOOLEAN, parent : Made, reach : SUBSET Made]
NativeRecord == [at : Copied \cup {"idle", "close", "push", "pull", "reset", "write"},
                 op : {"none", "stage", "commit", "push", "pull"},
                 snap : BOOLEAN, since : SUBSET Events, base : Made, commit : Made]
GitIndexTypeOK ==
    /\ index \in BOOLEAN /\ writing \in BOOLEAN /\ writes \in 0..MaxWrites
    /\ lock = Unlocked \/ \E h \in Natives \cup {Shell} : lock = {h}
    /\ \E k \in 0..MaxCommits : Made = 0..k
    /\ commits \in [Made -> CommitRecord]
    /\ tip \in Made /\ remote \in Made
    /\ native \in [Natives -> NativeRecord]

(* Nothing that holds a granted secret reaches GitHub through a native push,  *)
(* although the terminal moves the branch, commits secrets and rewrites the   *)
(* index between the scan and the push (Push, service.go:361-419).            *)
OnlyScannedIsPublished == \A c \in Reach(remote) : ~commits[c].secret

(* What keeps this and the next property so: a push names a commit that       *)
(* nothing secret reaches; a commit about to become the tip is a child of the *)
(* tip its operation read, and a pull descends from it; nobody but a pull     *)
(* writes the index while a lock stands, so that the copy of whoever created  *)
(* it is otherwise current; who is about to rename index.lock still has it,   *)
(* or lost it after the comparison.                                           *)
SoundNative(x) ==
    /\ x.at = "push" => \A c \in Reach(x.commit) : ~commits[c].secret
    /\ x.at = "update" => commits[x.commit].parent = x.base
    /\ x.at \in {"pull", "reset"} => x.base \in Reach(x.commit)
SoundLock(n) ==
    /\ n \in lock => "rewritten" \notin native[n].since
    /\ native[n].at = "rename" => n \in lock \/ "robbed" \in native[n].since
GitIndexInvariant ==
    /\ GitIndexTypeOK /\ OnlyScannedIsPublished
    /\ \A n \in Natives : SoundNative(native[n]) /\ SoundLock(n)

(* A native operation replaces only what it read.  The index a stage puts in  *)
(* place is its own and, but for a pull, derived from the one it replaces,    *)
(* unless its lock went between the comparison and the rename; a commit moves *)
(* the branch to a child of the tip; a pull that finds the tip it read moves  *)
(* it to a descendant.  All this whatever the terminal did in between         *)
(* (index_transaction.go:30-168; update-ref with the old value,               *)
(* service.go:305; PullContext, 344-347).                                     *)
NativeKeepsTerminalWork ==
    [][\A n \in Natives :
        /\ native[n].at = "rename" /\ native'[n] = NoNative /\ index' # index
            => \/ lock = {n} /\ "rewritten" \notin native[n].since
               \/ "robbed" \in native[n].since
        /\ native[n].at = "update" /\ native'[n] # native[n] /\ tip' # tip
            => commits[tip'].parent = tip
        /\ native[n].at \in {"pull", "reset"} /\ native'[n] # native[n] /\ tip' # tip
            => (tip = native[n].base => tip \in Reach(tip'))]_gitVars

(* "Native pull is always fast-forward-only." (workspacehelper/helper.go:135) *)
(* It is not: go-git compares the branch with the fetched commit and then     *)
(* sets it without its old value, over a commit made in between.              *)
PullIsFastForwardOnly ==
    [][\A n \in Natives :
        native[n].at = "pull" /\ native'[n].at = "reset" => tip \in Reach(tip')]_gitVars
=============================================================================
