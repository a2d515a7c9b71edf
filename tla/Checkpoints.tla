---------------------------- MODULE Checkpoints ----------------------------
(***************************************************************************)
(* Checkpoints of one workspace and the operations they protect            *)
(* (internal/checkpoint/service.go, internal/workspacehelper/checkpoint.go *)
(* and restore_workspace.go, internal/application/recovery.go).            *)
(*                                                                         *)
(* The control plane keeps a checkpoint as two files, an archive and its   *)
(* metadata, and does one operation on the workspace at a time.  A whole   *)
(* restore runs in the workspace helper, under Git's index.lock and with a *)
(* rollback journal; the helper outlives a control plane that crashes or   *)
(* gives up waiting.  A discard holds the gate only for its checkpoint and *)
(* the application's mutation lock until it is over: restores wait for it, *)
(* periodic checkpoints do not.  The owner's terminal may write any file   *)
(* meanwhile.  Checkpoint identities grow with their creation time.        *)
(***************************************************************************)
EXTENDS Integers, FiniteSets

CONSTANTS
    Files,           \* paths that are neither sensitive nor unsafe
    Contents,        \* what a file may contain
    Absent,          \* the content of a path that does not exist
    HeadContent,     \* what HEAD records for every path
    MaxCheckpoints,  \* Config.MaxCheckpoints
    MaxIds,          \* bound: checkpoints begun
    MaxEdits         \* bound: writes by the owner's terminal

ASSUME CheckpointsAssumption ==
    /\ Absent \notin Contents /\ HeadContent \in Contents
    /\ MaxCheckpoints \in Nat \ {0} /\ MaxIds \in Nat /\ MaxEdits \in Nat

VARIABLES
    tree,       \* the workspace: content of each path
    edits,      \* writes by the terminal so far
    delta,      \* what a checkpoint recorded: a function on some paths
    version,    \* archive version: 1 restores single files only
    zips,       \* archives on disk
    jsons,      \* metadata on disk
    rotten,     \* archives whose bytes changed on disk
    horizon,    \* checkpoints up to this one are older than the retention
    nextId,     \* the next identity
    work,       \* the operation that holds the workspace's operation gate
    discard,    \* the discard under way: its paths and its checkpoint; touched
                \* is the history of what else wrote since that was exported
    helper,     \* the whole restore in the workspace
    acked       \* history: the newest checkpoint reported to a caller

checkpointVars == <<tree, edits, delta, version, zips, jsons, rotten, horizon,
                    nextId, work, discard, helper, acked>>
storeVars == <<delta, version, zips, jsons, rotten, horizon, nextId>>

NoDiscard == [at |-> "idle", paths |-> {}, id |-> 0, touched |-> {}]
NoWork == [at |-> "idle", kind |-> "none", paths |-> {}, archive |-> <<>>, id |-> 0]
\* todo: entries to apply; journal: files set aside; undo: records to roll back.
\* before, touched and report are the history of the last restore.
NoHelper == [at |-> "idle", archive |-> <<>>, todo |-> {}, journal |-> <<>>, undo |-> {},
             before |-> <<>>, touched |-> {}, report |-> "none"]

\* The paths the helper exports when none are named: what differs from HEAD.
Changed == {p \in Files : tree[p] # HeadContent}

\* load, validateArchive and checkpointMatches accept the checkpoint.
Verified(id) == id \in jsons /\ id \in zips /\ id \notin rotten

WorkIs(record) == work' = record
WorkEnds == WorkIs(NoWork)
DiscardIs(record) == discard' = record
\* The gate is released after an error; a discard ends with its checkpoint.
WorkFails ==
    WorkEnds /\ DiscardIs(IF discard.at = "protect" THEN NoDiscard ELSE discard)

\* The application's mutation lock is free for a restore or another discard.
\* Bound: a discard nobody waits for any more has ended before the next one.
MutationFree == discard.at # "apply"

-----------------------------------------------------------------------------
(* Begin: the gate is taken, the source verified and held in memory. *)

\* Create, which the scheduler calls whatever else is under way.
BeginCreate ==
    /\ work = NoWork
    /\ WorkIs([NoWork EXCEPT !.at = "export", !.kind = "create", !.paths = Changed])
    /\ UNCHANGED <<tree, edits, storeVars, discard, helper, acked>>

\* DiscardGitChanges: a required checkpoint of all that changed.
BeginDiscard(paths) ==
    /\ work = NoWork /\ paths # {} /\ discard.at \notin {"apply", "orphan"}
    /\ WorkIs([NoWork EXCEPT !.at = "export", !.kind = "discard", !.paths = paths])
    /\ UNCHANGED <<tree, edits, storeVars, discard, helper, acked>>

\* RestoreFileProtected: an entry that is present in the archive.
BeginFile(id, p) ==
    /\ work = NoWork /\ MutationFree /\ Verified(id) /\ p \in DOMAIN delta[id] /\ delta[id][p] # Absent
    /\ WorkIs([NoWork EXCEPT !.at = "export", !.kind = "file", !.paths = {p},
                             !.archive = [q \in {p} |-> delta[id][p]]])
    /\ UNCHANGED <<tree, edits, storeVars, discard, helper, acked>>

\* RestoreWorkspace: not from a legacy archive.
BeginWorkspace(id) ==
    /\ work = NoWork /\ MutationFree /\ Verified(id) /\ version[id] = 2
    /\ WorkIs([NoWork EXCEPT !.at = "export", !.kind = "workspace",
                             !.paths = DOMAIN delta[id], !.archive = delta[id]])
    /\ UNCHANGED <<tree, edits, storeVars, discard, helper, acked>>

-----------------------------------------------------------------------------
(* create and persist *)

\* checkpointExport.  An export of named paths records absent ones as deleted;
\* a clean workspace needs no checkpoint unless one is required.
Export ==
    LET paths == IF work.kind \in {"file", "workspace"} /\ work.paths # {} THEN work.paths
                 ELSE Changed
    IN
    /\ work.at = "export" /\ nextId <= MaxIds
    /\ IF work.kind = "create" /\ paths = {}
         THEN WorkEnds /\ UNCHANGED <<delta, version, nextId, discard>>
         ELSE /\ delta' = [delta EXCEPT ![nextId] = [p \in paths |-> tree[p]]]
              /\ version' = [version EXCEPT ![nextId] = 2]
              /\ nextId' = nextId + 1
              /\ WorkIs([work EXCEPT !.at = "archive", !.id = nextId])
              /\ IF work.kind = "discard"
                   THEN DiscardIs([NoDiscard EXCEPT !.at = "protect", !.paths = work.paths,
                                                    !.id = nextId])
                   ELSE UNCHANGED discard
    /\ UNCHANGED <<tree, edits, zips, jsons, rotten, horizon, helper, acked>>

WriteArchive ==
    /\ work.at = "archive"
    /\ zips' = zips \cup {work.id}
    /\ WorkIs([work EXCEPT !.at = "metadata"])
    /\ UNCHANGED <<tree, edits, delta, version, jsons, rotten, horizon, nextId, discard, helper,
                   acked>>

\* Written, or not: then the archive is removed again, if that succeeds.
WriteMetadata ==
    /\ work.at = "metadata"
    /\ \/ /\ jsons' = jsons \cup {work.id} /\ UNCHANGED <<zips, discard>>
          /\ WorkIs([work EXCEPT !.at = "prune"])
       \/ /\ zips' \in {zips, zips \ {work.id}} /\ UNCHANGED jsons
          /\ WorkFails
    /\ UNCHANGED <<tree, edits, delta, version, rotten, horizon, nextId, helper, acked>>

Oldest(ids) == CHOOSE i \in ids : \A j \in ids : i <= j

\* Mutant: the newest checkpoint goes first.
PruneNextMutant(full) ==
    LET kept == {i \in jsons : i > horizon \/ i = nextId - 1}
        surplus == IF Cardinality(kept) > MaxCheckpoints \/ (full /\ Cardinality(kept) > 1)
                     THEN {CHOOSE i \in kept : \A j \in kept : j <= i} ELSE {}
    IN  (jsons \ kept) \cup surplus

\* pruneLocked: expired ones, and the oldest while there are too many or they
\* are too large.  Age is measured from the creation of the newest, so that one
\* is never expired, and no archive alone exceeds the quota of a workspace.
PruneNext(full) ==
    LET kept == {i \in jsons : i > horizon \/ i = nextId - 1}
        surplus == IF Cardinality(kept) > MaxCheckpoints \/ (full /\ Cardinality(kept) > 1)
                     THEN {Oldest(kept)} ELSE {}
    IN  (jsons \ kept) \cup surplus

\* removeLocked: the metadata ...
PruneMetadata(id) ==
    /\ work.at = "prune" /\ \E full \in BOOLEAN : id \in PruneNext(full)
    /\ jsons' = jsons \ {id}
    /\ WorkIs([work EXCEPT !.at = "unlink", !.id = id])
    /\ UNCHANGED <<tree, edits, delta, version, zips, rotten, horizon, nextId, discard, helper,
                   acked>>

\* ... then the archive.
PruneArchive ==
    /\ work.at = "unlink"
    /\ zips' = zips \ {work.id}
    /\ WorkIs([work EXCEPT !.at = "prune", !.id = nextId - 1])
    /\ UNCHANGED <<tree, edits, delta, version, jsons, rotten, horizon, nextId, discard, helper,
                   acked>>

\* The checkpoint is made.  A restore goes on; the gate of a discard is released,
\* as it is for a checkpoint of its own.
Persisted ==
    /\ work.at = "prune" /\ PruneNext(FALSE) = {}
    /\ acked' = work.id
    /\ IF work.kind \in {"create", "discard"} THEN WorkEnds
       ELSE WorkIs([work EXCEPT !.at = "apply"])
    /\ IF work.kind = "discard" THEN DiscardIs([discard EXCEPT !.at = "apply"])
       ELSE UNCHANGED discard
    /\ UNCHANGED <<tree, edits, storeVars, helper>>

-----------------------------------------------------------------------------
(* The protected operation *)

\* A restore under way sees that a path was written by someone else.
Touch(paths) == helper' = [helper EXCEPT !.touched = @ \cup paths]

\* And so does a discard, after its checkpoint was exported.
DiscardSees(paths) ==
    DiscardIs(IF discard.at \in {"protect", "apply"} THEN [discard EXCEPT !.touched = @ \cup paths]
              ELSE discard)

\* restoreCheckpointFile renames a finished file into place.
ApplyFile ==
    /\ work.at = "apply" /\ work.kind = "file"
    /\ tree' = [p \in Files |-> IF p \in DOMAIN work.archive THEN work.archive[p] ELSE tree[p]]
    /\ Touch(work.paths) /\ WorkEnds
    /\ UNCHANGED <<edits, storeVars, discard, acked>>

\* git restore needs index.lock; interrupted, it has restored some paths.
ApplyDiscard(done) ==
    /\ discard.at \in {"apply", "orphan"}
    /\ done \subseteq discard.paths
    /\ done # {} => helper.at \in {"idle", "done"}
    /\ tree' = [p \in Files |-> IF p \in done THEN HeadContent ELSE tree[p]]
    /\ Touch(done) /\ DiscardIs(NoDiscard)
    /\ UNCHANGED <<edits, storeVars, work, acked>>

\* The answer is lost or the control plane crashes: the mutation lock is gone,
\* while the helper may still discard.
DiscardAbandoned ==
    /\ discard.at = "apply"
    /\ DiscardIs([NoDiscard EXCEPT !.at = "orphan", !.paths = discard.paths])
    /\ UNCHANGED <<tree, edits, storeVars, work, helper, acked>>

\* applyWorkspaceRestore takes index.lock, stages, and opens its journal.
RestoreStarts ==
    /\ work.at = "apply" /\ work.kind = "workspace" /\ helper.at \in {"idle", "done"}
    /\ helper' = [NoHelper EXCEPT !.at = "apply", !.archive = work.archive,
                                  !.todo = DOMAIN work.archive, !.before = tree]
    /\ WorkIs([work EXCEPT !.at = "await"])
    /\ UNCHANGED <<tree, edits, storeVars, discard, acked>>

\* The file in the way is renamed into the journal.
SetAside(p) ==
    /\ helper.at = "apply" /\ p \in helper.todo
    /\ tree' = [tree EXCEPT ![p] = Absent]
    /\ helper' = [helper EXCEPT !.at = "place", !.undo = {p},
                                !.journal = [q \in DOMAIN @ \cup {p} |->
                                               IF q = p THEN tree[p] ELSE @[q]]]
    /\ DiscardSees({p})
    /\ UNCHANGED <<edits, storeVars, work, acked>>

\* The staged file is renamed into place; a recorded deletion leaves the gap.
Place(p) ==
    /\ helper.at = "place" /\ helper.undo = {p}
    /\ tree' = IF helper.archive[p] = Absent THEN tree
               ELSE [tree EXCEPT ![p] = helper.archive[p]]
    /\ helper' = [helper EXCEPT !.at = "apply", !.undo = {}, !.todo = @ \ {p}]
    /\ DiscardSees({p})
    /\ UNCHANGED <<edits, storeVars, work, acked>>

\* All applied: the journal is removed and the lock released.
Restored ==
    /\ helper.at = "apply" /\ helper.todo = {}
    /\ helper' = [helper EXCEPT !.at = "done", !.journal = <<>>, !.report = "restored"]
    /\ UNCHANGED <<tree, edits, storeVars, work, discard, acked>>

\* An error, or the deadline of the request: rollbackWorkspaceRestore.
ApplyFails ==
    /\ helper.at \in {"apply", "place"} /\ helper.todo # {}
    /\ helper' = [helper EXCEPT !.at = "rollback", !.undo = DOMAIN helper.journal]
    /\ UNCHANGED <<tree, edits, storeVars, work, discard, acked>>

\* One record: what is at the path goes, and the file set aside returns.
UndoRecord(p) ==
    /\ helper.at = "rollback" /\ p \in helper.undo
    /\ tree' = [tree EXCEPT ![p] = helper.journal[p]]
    /\ helper' = [helper EXCEPT !.undo = @ \ {p}]
    /\ DiscardSees({p})
    /\ UNCHANGED <<edits, storeVars, work, acked>>

RolledBack ==
    /\ helper.at = "rollback" /\ helper.undo = {}
    /\ helper' = [helper EXCEPT !.at = "done", !.journal = <<>>, !.report = "rolledBack"]
    /\ UNCHANGED <<tree, edits, storeVars, work, discard, acked>>

\* An error in the rollback keeps the journal and releases the lock; a helper
\* that is killed leaves both behind.
RollbackFails ==
    /\ helper.at = "rollback" /\ helper.undo # {}
    /\ helper' = [helper EXCEPT !.at = "done", !.report = "incomplete"]
    /\ UNCHANGED <<tree, edits, storeVars, work, discard, acked>>

HelperKilled ==
    /\ helper.at \in {"apply", "place", "rollback"}
    /\ helper' = [helper EXCEPT !.at = "killed", !.report = "incomplete"]
    /\ UNCHANGED <<tree, edits, storeVars, work, discard, acked>>

\* The response, whatever it is, ends the operation.
Answered ==
    /\ work.at = "await" /\ helper.at \in {"done", "killed"}
    /\ WorkEnds
    /\ UNCHANGED <<tree, edits, storeVars, discard, helper, acked>>

-----------------------------------------------------------------------------
(* Environment *)

\* An error of any step, a lost helper answer, or a crash of the control plane.
GiveUp ==
    /\ work # NoWork
    /\ WorkFails
    /\ UNCHANGED <<tree, edits, storeVars, helper, acked>>

\* The owner's terminal writes or removes a file.
Edit(p, c) ==
    /\ edits < MaxEdits /\ tree[p] # c
    /\ tree' = [tree EXCEPT ![p] = c]
    /\ edits' = edits + 1 /\ Touch({p}) /\ DiscardSees({p})
    /\ UNCHANGED <<storeVars, work, acked>>

\* Time passes: older checkpoints leave the retention.
Age ==
    /\ horizon' \in horizon + 1 .. nextId - 1
    /\ UNCHANGED <<tree, edits, delta, version, zips, jsons, rotten, nextId, work, discard, helper,
                   acked>>

\* An archive is damaged on disk.
Rot(id) ==
    /\ id \in zips \ rotten /\ rotten = {}
    /\ rotten' = {id}
    /\ UNCHANGED <<tree, edits, delta, version, zips, jsons, horizon, nextId, work, discard, helper,
                   acked>>

-----------------------------------------------------------------------------
\* The first checkpoint is a legacy one, or none.
CheckpointsInit ==
    /\ tree = [p \in Files |-> HeadContent] /\ edits = 0
    /\ \E legacy \in {{}, {1}}, c \in Contents :
        /\ delta = [i \in 1..MaxIds |-> IF i \in legacy THEN [p \in Files |-> c] ELSE <<>>]
        /\ version = [i \in 1..MaxIds |-> 1]
        /\ zips = legacy /\ jsons = legacy /\ nextId = Cardinality(legacy) + 1
        /\ acked = Cardinality(legacy)
    /\ rotten = {} /\ horizon = 0 /\ work = NoWork /\ helper = NoHelper
    /\ discard = NoDiscard

CheckpointsNext ==
    \/ BeginCreate \/ Export \/ WriteArchive \/ WriteMetadata \/ PruneArchive \/ Persisted
    \/ \E paths \in SUBSET Files : BeginDiscard(paths) \/ ApplyDiscard(paths)
    \/ \E id \in 1..MaxIds : \/ BeginWorkspace(id) \/ PruneMetadata(id) \/ Rot(id)
                             \/ \E p \in Files : BeginFile(id, p)
    \/ ApplyFile \/ RestoreStarts \/ Restored \/ ApplyFails \/ RolledBack \/ RollbackFails
    \/ \E p \in Files : SetAside(p) \/ Place(p) \/ UndoRecord(p)
    \/ HelperKilled \/ Answered \/ GiveUp \/ DiscardAbandoned \/ Age
    \/ \E p \in Files, c \in Contents \cup {Absent} : Edit(p, c)

CheckpointsSpec == CheckpointsInit /\ [][CheckpointsNext]_checkpointVars

-----------------------------------------------------------------------------
(* Properties *)

CheckpointsTypeOK ==
    /\ tree \in [Files -> Contents \cup {Absent}] /\ edits \in 0..MaxEdits
    /\ \A i \in 1..MaxIds : DOMAIN delta[i] \subseteq Files
    /\ version \in [1..MaxIds -> {1, 2}]
    /\ zips \subseteq 1..MaxIds /\ jsons \subseteq 1..MaxIds /\ rotten \subseteq 1..MaxIds
    /\ horizon \in 0..MaxIds /\ nextId \in 1..MaxIds + 1 /\ acked \in 0..MaxIds
    /\ work.at \in {"idle", "export", "archive", "metadata", "prune", "unlink", "apply", "await"}
    /\ helper.at \in {"idle", "apply", "place", "rollback", "done", "killed"}
    /\ discard.at \in {"idle", "protect", "apply", "orphan"}

(* Whatever step an error or a crash interrupts, every listed checkpoint has  *)
(* its whole archive, and the newest one a caller was told of is still there, *)
(* or a later one: pruning never takes the last recovery point away           *)
(* (persist, pruneLocked, removeLocked, service.go:550-705).                  *)
NewestCheckpointSurvives ==
    /\ jsons \subseteq zips
    /\ acked > 0 => \E i \in jsons : i >= acked
    /\ work.at = "apply" => work.id \in jsons

\* Checkpoint i has what the discard is about to take away from these paths.
Covers(i, paths) ==
    \A p \in paths : tree[p] # HeadContent => p \in DOMAIN delta[i] /\ delta[i][p] = tree[p]

(* A discard takes away nothing that cannot be brought back: as long as the    *)
(* application waits for it, some listed checkpoint has every change it is     *)
(* about to discard that was there when it began.  A periodic checkpoint may   *)
(* have pruned the discard's own, but then it has recorded as much             *)
(* (DiscardGitChanges, recovery.go:100-152; RunOnce, scheduler.go:83-131).     *)
DiscardIsRecoverable ==
    discard.at = "apply" =>
        \E i \in jsons : i >= discard.id /\ Covers(i, discard.paths \ discard.touched)

(* "An empty manifest remains useful proof of the exact pre-operation state    *)
(* and gives every destructive action a visible token" (service.go:147-149):   *)
(* the recovery checkpoint of a discard that is under way is listed.           *)
DiscardKeepsItsToken == discard.at = "apply" => discard.id \in jsons

(* A whole restore is all or nothing.  A restore that reports success has     *)
(* brought back every recorded path, one that reports a rollback has undone   *)
(* every one, and one that is interrupted has each prior file either in place *)
(* or in its journal; paths that somebody else wrote meanwhile are theirs     *)
(* (applyWorkspaceRestore, restore_workspace.go:261-441).                     *)
RestoreIsAllOrNothing ==
    \A p \in DOMAIN helper.archive \ helper.touched :
        /\ helper.report = "restored" => tree[p] = helper.archive[p]
        /\ helper.report = "rolledBack" => tree[p] = helper.before[p]
        /\ helper.report \in {"none", "incomplete"} =>
              \/ tree[p] = helper.before[p]
              \/ p \in DOMAIN helper.journal /\ helper.journal[p] = helper.before[p]

(* What checkpoints promise the owner: there is one to go back to, after a     *)
(* discard as well, and going back to it leaves the workspace in one state or  *)
(* the other.                                                                  *)
RecoveryIsSound == NewestCheckpointSurvives /\ DiscardIsRecoverable /\ RestoreIsAllOrNothing

(* What keeps it so.  The identity an operation is writing is the latest, and  *)
(* it is listed from its metadata on until the operation ends.                 *)
Archives == UNION {[paths -> Contents \cup {Absent}] : paths \in SUBSET Files}
Work == [at : {"idle", "export", "archive", "metadata", "prune", "unlink", "apply", "await"},
         kind : {"none", "create", "discard", "file", "workspace"}, paths : SUBSET Files,
         archive : Archives, id : Nat]
Helper == [at : {"idle", "apply", "place", "rollback", "done", "killed"}, archive : Archives,
           todo : SUBSET Files, journal : Archives, undo : SUBSET Files, before : Archives,
           touched : SUBSET Files, report : {"none", "restored", "rolledBack", "incomplete"}]

StoreFacts ==
    /\ tree \in [Files -> Contents \cup {Absent}] /\ delta \in [1..MaxIds -> Archives]
    /\ nextId \in Nat \ {0} /\ acked \in 0..nextId - 1
    /\ jsons \subseteq 1..nextId - 1 /\ jsons \subseteq zips
    /\ acked > 0 => \E i \in jsons : i >= acked

WorkFacts ==
    /\ work \in Work
    /\ work.at \in {"archive", "metadata", "prune"} => work.id = nextId - 1
    /\ work.at \in {"archive", "metadata"} => work.id > 0
    /\ work.at \in {"archive", "metadata", "unlink"} => work.id \notin jsons
    /\ work.at = "metadata" => work.id \in zips
    /\ work.at \in {"prune", "unlink"} => nextId - 1 \in jsons
    /\ work.at = "apply" => work.id \in jsons
    /\ work.kind = "file" => DOMAIN work.archive = work.paths

(* While entries are applied the journal holds what was in the way of those    *)
(* that are done and of the one that is being placed ...                       *)
HelperFacts ==
    /\ helper \in Helper
    /\ helper.at = "idle" => DOMAIN helper.archive = {}
    /\ helper.at \in {"apply", "place"} =>
         /\ helper.todo \subseteq DOMAIN helper.archive /\ helper.undo \subseteq helper.todo
         /\ DOMAIN helper.journal = (DOMAIN helper.archive \ helper.todo) \cup helper.undo
    /\ helper.at = "apply" => helper.undo = {}
    /\ helper.at = "rollback" => helper.undo \subseteq DOMAIN helper.journal
    /\ helper.at \in {"apply", "place", "rollback"} => helper.report = "none"
    /\ helper.undo \subseteq DOMAIN helper.archive

(* ... and the workspace the rest; a rollback has put back all but the records *)
(* it has still to undo.                                                       *)
PathFacts ==
    \A p \in DOMAIN helper.archive \ helper.touched :
        /\ helper.at \in {"apply", "place"} /\ p \notin DOMAIN helper.journal =>
              tree[p] = helper.before[p]
        /\ helper.at \in {"apply", "place"} /\ p \in DOMAIN helper.journal =>
              /\ helper.journal[p] = helper.before[p]
              /\ p \in helper.undo => tree[p] = Absent
              /\ p \notin helper.undo => tree[p] = helper.archive[p]
        /\ helper.at = "rollback" /\ p \in helper.undo => helper.journal[p] = helper.before[p]
        /\ helper.at = "rollback" /\ p \notin helper.undo => tree[p] = helper.before[p]

RestoreFacts == HelperFacts /\ PathFacts /\ RestoreIsAllOrNothing

RecoveryInvariant == StoreFacts /\ WorkFacts /\ RestoreFacts

(* From the export of a discard's checkpoint until the discard is over, every  *)
(* checkpoint made is one of all that changed, and has what is to be discarded.*)
Persisting == {"archive", "metadata", "prune", "unlink"}
DiscardFacts ==
    /\ discard \in [at : {"idle", "protect", "apply", "orphan"}, paths : SUBSET Files, id : Nat,
                    touched : SUBSET Files]
    /\ discard.at = "protect" <=>
          work.kind = "discard" /\ work.at \in Persisting
    /\ discard.at = "apply" => (work = NoWork \/ work.kind = "create") /\ acked >= discard.id
    /\ discard.at \in {"protect", "apply"} =>
          /\ discard.id \in 1..nextId - 1
          /\ \A i \in discard.id..nextId - 1 : Covers(i, discard.paths \ discard.touched)

CheckpointsInvariant == RecoveryInvariant /\ DiscardFacts
=============================================================================
