------------------------------ MODULE Sessions ------------------------------
(***************************************************************************)
(* Refresh families and their credentials (internal/session/session.go on  *)
(* internal/postgres/session.go): issue, rotation, replay, revocation of a *)
(* family and of a device.                                                 *)
(*                                                                         *)
(* Transactions run at READ COMMITTED and are interleaved statement by     *)
(* statement: a statement sees what was committed when it began, a row     *)
(* another transaction has locked makes it wait, and effects appear at the *)
(* commit.  Every transaction may fail at any point (a lost connection, or *)
(* the victim of a deadlock) and is then rolled back; an expired           *)
(* credential is refused in the same way.                                  *)
(***************************************************************************)
EXTENDS Integers, Sequences

CONSTANTS
    Handsets,   \* devices of the owner
    Families,   \* refresh families that may be created
    Txs,        \* transactions under way
    MaxPairs    \* bound: credential pairs issued

ASSUME SessionsAssumption == MaxPairs \in Nat

VARIABLES
    handset,    \* devices: "active" or "revoked"
    family,     \* families: device and "none", "live" or "revoked"
    pairs,      \* committed pairs of credentials: family, parent, used, revoked
    tx,         \* transactions: statement, subject, snapshot and row locks
    replayed    \* history: families for which a caller was told of a replay

sessionVars == <<handset, family, pairs, tx, replayed>>

NoTx == [at |-> "idle", pair |-> 0, device |-> {}, families |-> {}, seen |-> {},
         replay |-> FALSE, locks |-> {}]
Issued == DOMAIN pairs
PairsOf(fs) == {n \in Issued : pairs[n].family \in fs}
FamiliesOf(h) == {f \in Families : family[f].at # "none" /\ family[f].device = h}
\* A row another transaction has locked.
Locked(t, row) == \E u \in Txs \ {t} : row \in tx[u].locks
FamilyRows(fs) == {<<"family", f>> : f \in fs}
TxIs(t, record) == tx' = [tx EXCEPT ![t] = record]

\* insertSessionRecord, twice
Insert(f, parent) ==
    [family |-> f, parent |-> parent, used |-> FALSE, revoked |-> FALSE]

-----------------------------------------------------------------------------
(* CreatePair *)

CreateLocks(t, f, h) ==
    /\ tx[t].at = "idle" /\ family[f].at = "none"
    /\ \A u \in Txs : f \notin tx[u].families
    /\ ~Locked(t, <<"device", h>>) /\ handset[h] = "active"
    /\ TxIs(t, [NoTx EXCEPT !.at = "create", !.families = {f}, !.device = {h},
                            !.locks = {<<"device", h>>}])
    /\ UNCHANGED <<handset, family, pairs, replayed>>

CreateCommits(t) ==
    /\ tx[t].at = "create" /\ Len(pairs) < MaxPairs
    /\ \E f \in tx[t].families, h \in tx[t].device :
        /\ family' = [family EXCEPT ![f] = [device |-> h, at |-> "live"]]
        /\ pairs' = Append(pairs, Insert(f, 0))
    /\ TxIs(t, NoTx)
    /\ UNCHANGED <<handset, replayed>>

-----------------------------------------------------------------------------
(* Rotate *)

\* Manager.Rotate reads the credential before the transaction: a revoked one is
\* refused, a used one revokes its family.
RotateStarts(t, n) ==
    /\ tx[t].at = "idle" /\ n \in Issued /\ ~pairs[n].revoked
    /\ TxIs(t, [NoTx EXCEPT !.at = IF pairs[n].used THEN "replay" ELSE "rotate", !.pair = n])
    /\ UNCHANGED <<handset, family, pairs, replayed>>

\* SELECT ... FOR UPDATE, and the decisions taken on the locked row.
RotateLocks(t) ==
    LET n == tx[t].pair IN
    /\ tx[t].at = "rotate" /\ ~Locked(t, <<"pair", n>>)
    /\ IF pairs[n].revoked THEN TxIs(t, NoTx)
       ELSE TxIs(t, [tx[t] EXCEPT !.at = IF pairs[n].used THEN "replay" ELSE "advance",
                                  !.locks = {<<"pair", n>>}])
    /\ UNCHANGED <<handset, family, pairs, replayed>>

\* Mutant: the rotation does not ask whether the family is still live.
RotateCommitsMutant(t) ==
    LET n == tx[t].pair IN
    /\ tx[t].at = "advance" /\ Len(pairs) < MaxPairs
    /\ pairs' = Append([pairs EXCEPT ![n].used = TRUE], Insert(pairs[n].family, n))
    /\ TxIs(t, NoTx)
    /\ UNCHANGED <<handset, family, replayed>>

\* The old credential is consumed, the new pair inserted, and last the family
\* advanced, if it is not revoked.
RotateCommits(t) ==
    LET n == tx[t].pair IN
    /\ tx[t].at = "advance" /\ Len(pairs) < MaxPairs
    /\ ~Locked(t, <<"family", pairs[n].family>>)
    /\ IF family[pairs[n].family].at = "revoked" THEN UNCHANGED pairs
       ELSE pairs' = Append([pairs EXCEPT ![n].used = TRUE], Insert(pairs[n].family, n))
    /\ TxIs(t, NoTx)
    /\ UNCHANGED <<handset, family, replayed>>

-----------------------------------------------------------------------------
(* RevokeFamily, RevokeDevice, and the revocation that answers a replay *)

\* revokeFamilyTx: the family first.
RevokeStarts(t, f) ==
    /\ tx[t].at = "idle" /\ family[f].at # "none" /\ ~Locked(t, <<"family", f>>)
    /\ TxIs(t, [NoTx EXCEPT !.at = "families", !.families = {f}, !.locks = FamilyRows({f})])
    /\ UNCHANGED <<handset, family, pairs, replayed>>

ReplayRevokes(t) ==
    LET f == pairs[tx[t].pair].family IN
    /\ tx[t].at = "replay" /\ ~Locked(t, <<"family", f>>)
    /\ TxIs(t, [tx[t] EXCEPT !.at = "families", !.families = {f}, !.replay = TRUE,
                             !.locks = @ \cup FamilyRows({f})])
    /\ UNCHANGED <<handset, family, pairs, replayed>>

\* RevokeDevice: the device row, then its families.
RevokeDeviceStarts(t, h) ==
    /\ tx[t].at = "idle" /\ ~Locked(t, <<"device", h>>)
    /\ TxIs(t, [NoTx EXCEPT !.at = "device", !.device = {h}, !.locks = {<<"device", h>>}])
    /\ UNCHANGED <<handset, family, pairs, replayed>>

RevokeDeviceFamilies(t) ==
    LET fs == UNION {FamiliesOf(h) : h \in tx[t].device} IN
    /\ tx[t].at = "device" /\ \A f \in fs : ~Locked(t, <<"family", f>>)
    /\ TxIs(t, [tx[t] EXCEPT !.at = "families", !.families = fs,
                             !.locks = @ \cup FamilyRows(fs)])
    /\ UNCHANGED <<handset, family, pairs, replayed>>

\* UPDATE session_tokens begins: it changes the rows it sees now ...
RevokeSeesTokens(t) ==
    /\ tx[t].at = "families"
    /\ TxIs(t, [tx[t] EXCEPT !.at = "tokens", !.seen = PairsOf(tx[t].families)])
    /\ UNCHANGED <<handset, family, pairs, replayed>>

\* ... once none of them is locked; then the transaction commits.
RevokeCommits(t) ==
    /\ tx[t].at = "tokens" /\ \A n \in tx[t].seen : ~Locked(t, <<"pair", n>>)
    /\ family' = [f \in Families |->
          IF f \in tx[t].families THEN [family[f] EXCEPT !.at = "revoked"] ELSE family[f]]
    /\ pairs' = [n \in Issued |->
          IF n \in tx[t].seen THEN [pairs[n] EXCEPT !.revoked = TRUE] ELSE pairs[n]]
    /\ handset' = [h \in Handsets |-> IF h \in tx[t].device THEN "revoked" ELSE handset[h]]
    /\ replayed' = IF tx[t].replay THEN replayed \cup tx[t].families ELSE replayed
    /\ TxIs(t, NoTx)

\* The transaction is rolled back.
Fail(t) ==
    /\ tx[t].at # "idle"
    /\ TxIs(t, NoTx)
    /\ UNCHANGED <<handset, family, pairs, replayed>>

-----------------------------------------------------------------------------
SessionsInit ==
    /\ handset = [h \in Handsets |-> "active"]
    /\ family \in [Families -> [device : Handsets, at : {"none"}]]
    /\ pairs = <<>> /\ tx = [t \in Txs |-> NoTx] /\ replayed = {}

SessionsNext ==
    \E t \in Txs :
        \/ \E f \in Families : RevokeStarts(t, f) \/ \E h \in Handsets : CreateLocks(t, f, h)
        \/ CreateCommits(t)
        \/ \E n \in 1..MaxPairs : RotateStarts(t, n)
        \/ RotateLocks(t) \/ RotateCommits(t) \/ ReplayRevokes(t)
        \/ \E h \in Handsets : RevokeDeviceStarts(t, h)
        \/ RevokeDeviceFamilies(t) \/ RevokeSeesTokens(t) \/ RevokeCommits(t)
        \/ Fail(t)

SessionsSpec == SessionsInit /\ [][SessionsNext]_sessionVars

-----------------------------------------------------------------------------
(* Properties *)

PairRecord == [family : Families, parent : 0..MaxPairs, used : BOOLEAN, revoked : BOOLEAN]
Rows == ({"device"} \X Handsets) \cup ({"pair"} \X (1..MaxPairs)) \cup ({"family"} \X Families)
TxSteps == {"idle", "create", "rotate", "advance", "replay", "device", "families", "tokens"}
TxRecord ==
    [at : TxSteps,
     pair : 0..MaxPairs, device : SUBSET Handsets, families : SUBSET Families,
     seen : SUBSET (1..MaxPairs), replay : BOOLEAN, locks : SUBSET Rows]

SessionsTypeOK ==
    /\ handset \in [Handsets -> {"active", "revoked"}]
    /\ family \in [Families -> [device : Handsets, at : {"none", "live", "revoked"}]]
    /\ pairs \in Seq(PairRecord) /\ Len(pairs) <= MaxPairs
    /\ tx \in [Txs -> TxRecord]
    /\ replayed \subseteq Families

(* A request is authenticated by its access credential alone, so no committed *)
(* credential of a revoked family or device is usable, not even one issued by *)
(* a rotation or a login that raced the revocation; a refresh credential has  *)
(* one successor at most; and a caller told of a replay has lost the family   *)
(* (postgres/session.go:28-157, 219-262, 304-328).                            *)
RevokedMeansDead ==
    /\ \A n \in Issued :
        family[pairs[n].family].at = "revoked" \/ handset[family[pairs[n].family].device] = "revoked"
            => pairs[n].revoked
    /\ \A n, m \in Issued :
        n # m /\ pairs[n].parent = pairs[m].parent => pairs[n].parent = 0
    /\ \A f \in replayed : family[f].at = "revoked"

(* Why it holds.  The row locks are exclusive.  A transaction that is about   *)
(* to commit a pair holds the row that a revocation would have to lock; one   *)
(* that revokes holds the families it found, has seen all their pairs, and,   *)
(* when it revokes a device, has found all families of that device.           *)
SoundTx(c) ==
    /\ c.at = "create" =>
        \E f \in Families, h \in Handsets :
            /\ c.families = {f} /\ family[f].at = "none"
            /\ c.device = {h} /\ handset[h] = "active" /\ <<"device", h>> \in c.locks
    /\ c.at \in {"rotate", "replay", "advance"} => c.pair \in Issued /\ c.device = {}
    /\ c.at = "advance" => <<"pair", c.pair>> \in c.locks /\ ~pairs[c.pair].used
    /\ c.at = "device" => \A h \in c.device : <<"device", h>> \in c.locks
    /\ c.at \in {"families", "tokens"} =>
        /\ \A f \in c.families : family[f].at # "none" /\ <<"family", f>> \in c.locks
        /\ \A h \in c.device : <<"device", h>> \in c.locks /\ FamiliesOf(h) \subseteq c.families
    /\ c.at = "tokens" => PairsOf(c.families) \subseteq c.seen

TxsApart(c, d) ==
    /\ c.locks \cap d.locks = {}
    /\ "create" \in {c.at, d.at} => c.families \cap d.families = {}

SoundPairs ==
    /\ \A n \in Issued :
        /\ family[pairs[n].family].at # "none"
        /\ family[pairs[n].family].at = "revoked" => pairs[n].revoked
        /\ pairs[n].parent # 0 => pairs[n].parent \in Issued /\ pairs[pairs[n].parent].used
    /\ \A n, m \in Issued :
        n # m /\ pairs[n].parent = pairs[m].parent => pairs[n].parent = 0

SoundFamilies ==
    /\ \A f \in Families :
        family[f].at # "none" /\ handset[family[f].device] = "revoked" => family[f].at = "revoked"
    /\ \A f \in replayed : family[f].at = "revoked"

SessionsInvariant ==
    /\ SessionsTypeOK /\ SoundPairs /\ SoundFamilies
    /\ \A t \in Txs : SoundTx(tx[t])
    /\ \A t, u \in Txs : t # u => TxsApart(tx[t], tx[u])
=============================================================================
