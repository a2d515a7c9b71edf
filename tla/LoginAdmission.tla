--------------------------- MODULE LoginAdmission ---------------------------
(***************************************************************************)
(* Passkey ceremonies and the admission of anonymous logins                *)
(* (internal/passkeys/admission.go and the ceremony table of service.go).  *)
(*                                                                         *)
(* A login reserves a slot, builds its WebAuthn options without the lock,  *)
(* and commits the ceremony or cancels.  A device has one login ceremony:  *)
(* a new one replaces it, and then needs no slot of its own.  Registration *)
(* ceremonies share the table and must not be crowded out.                 *)
(***************************************************************************)
EXTENDS Integers, FiniteSets

CONSTANTS
    Apps,               \* app installations (device hashes)
    Calls,              \* concurrent BeginLogin and FinishLogin calls
    CeremonyIds,        \* ceremony identities; random, so free ones are reused
    NoApp,              \* the device of a registration ceremony
    MaxCeremonies,      \* maximumCeremonies
    MaxLogins,          \* maximumLoginCeremonies
    MaxUnknownLogins,   \* maximumUnknownLoginCeremonies
    AppBurst,           \* deviceLoginBurst
    GlobalBurst         \* knownLoginBurst and unknownLoginBurst

ASSUME AdmissionAssumption ==
    /\ NoApp \notin Apps /\ AppBurst \in Nat \ {0} /\ GlobalBurst \in Nat \ {0}
    /\ MaxCeremonies \in Nat /\ MaxLogins \in 0..MaxCeremonies /\ MaxUnknownLogins \in Nat

VARIABLES
    ceremonies,  \* the table: records with id, kind, app, known and whether expired
    byActive,    \* the login ceremony of an app
    byDevice,    \* admission record of an app: rate tokens, inFlight
    rate,        \* tokens of the two global buckets
    counts,      \* active, unknownActive, pendingSlots, pendingUnknown
    calls,       \* the calls under way
    knownReady, knownApps,  \* the cache of known devices
    storedApps   \* devices in the store

admissionVars == <<ceremonies, byActive, byDevice, rate, counts, calls,
                   knownReady, knownApps, storedApps>>

Idle == [at |-> "idle", app |-> NoApp, known |-> FALSE, reserved |-> FALSE]
Ids == {c.id : c \in ceremonies}
Logins == {c \in ceremonies : c.kind = "login"}
CallIs(p, record) == calls' = [calls EXCEPT ![p] = record]
Less(n, k) == IF n > k THEN n - k ELSE 0
Bucket(known) == IF known THEN "known" ELSE "unknown"

-----------------------------------------------------------------------------
(* The table without a set of ceremonies: removeCeremonyLocked, and with the  *)
(* expired ones cleanupCeremoniesLocked, which precedes every use.            *)

Expired == {c \in ceremonies : c.expired}
Linked(gone) == {c \in gone : c.kind = "login" /\ byActive[c.app] = {c.id}}
ActiveWithout(gone) ==
    [a \in Apps |-> IF \E c \in Linked(gone) : c.app = a THEN {} ELSE byActive[a]]
CountsWithout(gone) ==
    [counts EXCEPT !.active = Less(@, Cardinality(Linked(gone))),
                   !.unknownActive = Less(@, Cardinality({c \in Linked(gone) : ~c.known}))]

\* releasePendingLocked
Released(c, known) ==
    [c EXCEPT !.pendingSlots = Less(@, 1),
              !.pendingUnknown = IF known THEN @ ELSE Less(@, 1)]

\* No room for another login beside n ceremonies.
Full(n, c, known) ==
    \/ n + c.pendingSlots >= MaxCeremonies
    \/ c.active + c.pendingSlots >= MaxLogins
    \/ ~known /\ c.unknownActive + c.pendingUnknown >= MaxUnknownLogins

-----------------------------------------------------------------------------
(* BeginLogin *)

\* knownDevice: the cache is loaded on first use; a failed load fails the login.
LookUp(p, a) ==
    /\ calls[p] = Idle
    /\ knownReady' = TRUE
    /\ knownApps' = IF knownReady THEN knownApps ELSE storedApps
    /\ CallIs(p, [Idle EXCEPT !.at = "looked", !.app = a, !.known = a \in knownApps'])
    /\ UNCHANGED <<ceremonies, byActive, byDevice, rate, counts, storedApps>>

\* cleanupAdmissionsLocked forgets an idle app whose bucket is full.
AdmissionsWithout(active) ==
    [a \in Apps |->
        IF ~byDevice[a].inFlight /\ active[a] = {} /\ byDevice[a].tokens = AppBurst
          THEN [tokens |-> AppBurst, inFlight |-> FALSE] ELSE byDevice[a]]

\* reserveLogin
Reserve(p) ==
    LET a == calls[p].app
        known == calls[p].known
        active == ActiveWithout(Expired)
        left == CountsWithout(Expired)
        devices == AdmissionsWithout(active)
        replacing == active[a] # {}
        refused == \/ devices[a].inFlight \/ devices[a].tokens < 1
                   \/ rate[Bucket(known)] < 1
                   \/ ~replacing /\ Full(Cardinality(ceremonies \ Expired), left, known)
    IN
    /\ calls[p].at = "looked"
    /\ ceremonies' = ceremonies \ Expired /\ byActive' = active
    /\ IF refused
         THEN byDevice' = devices /\ counts' = left /\ UNCHANGED rate /\ CallIs(p, Idle)
         ELSE /\ byDevice' = [devices EXCEPT ![a] = [tokens |-> @.tokens - 1, inFlight |-> TRUE]]
              /\ rate' = [rate EXCEPT ![Bucket(known)] = @ - 1]
              /\ counts' = IF replacing THEN left
                           ELSE [left EXCEPT !.pendingSlots = @ + 1,
                                             !.pendingUnknown = IF known THEN @ ELSE @ + 1]
              /\ CallIs(p, [calls[p] EXCEPT !.at = "reserved", !.reserved = ~replacing])
    /\ UNCHANGED <<knownReady, knownApps, storedApps>>

\* cancelLogin: the options could not be made, or the commit was refused.
Cancel(p) ==
    /\ calls[p].at \in {"reserved", "refused"}
    /\ byDevice' = [byDevice EXCEPT ![calls[p].app].inFlight = FALSE]
    /\ counts' = IF calls[p].reserved THEN Released(counts, calls[p].known) ELSE counts
    /\ CallIs(p, Idle)
    /\ UNCHANGED <<ceremonies, byActive, rate, knownReady, knownApps, storedApps>>

\* Mutant: a replacement is not admitted anew when there is nothing to replace.
CommitMutant(p, id) ==
    LET a == calls[p].app
        known == calls[p].known
        gone == Expired \cup {c \in ceremonies : {c.id} = byActive[a]}
        left == IF calls[p].reserved THEN Released(CountsWithout(gone), known)
                ELSE CountsWithout(gone)
    IN
    /\ calls[p].at = "reserved" /\ id \notin Ids
    /\ ceremonies' = (ceremonies \ gone) \cup
         {[id |-> id, kind |-> "login", app |-> a, known |-> known, expired |-> FALSE]}
    /\ byActive' = [ActiveWithout(gone) EXCEPT ![a] = {id}]
    /\ counts' = [left EXCEPT !.active = @ + 1,
                              !.unknownActive = IF known THEN @ ELSE @ + 1]
    /\ byDevice' = [byDevice EXCEPT ![a].inFlight = FALSE]
    /\ CallIs(p, Idle)
    /\ UNCHANGED <<rate, knownReady, knownApps, storedApps>>

\* commitLogin: the app's ceremony is replaced; a call that counted on a
\* replacement and finds none is admitted like a new one.
Commit(p, id) ==
    LET a == calls[p].app
        known == calls[p].known
        present == ceremonies \ Expired
        replaced == {c \in present : {c.id} = byActive[a]}
        gone == Expired \cup replaced
        left == IF calls[p].reserved THEN Released(CountsWithout(gone), known)
                ELSE CountsWithout(gone)
        refused == /\ ~calls[p].reserved /\ replaced = {}
                   /\ Full(Cardinality(ceremonies \ gone), left, known)
    IN
    /\ calls[p].at = "reserved" /\ id \notin Ids
    /\ IF refused
         THEN /\ ceremonies' = ceremonies \ gone /\ byActive' = ActiveWithout(gone)
              /\ counts' = left /\ UNCHANGED byDevice
              /\ CallIs(p, [calls[p] EXCEPT !.at = "refused"])
         ELSE /\ ceremonies' = (ceremonies \ gone) \cup
                   {[id |-> id, kind |-> "login", app |-> a, known |-> known, expired |-> FALSE]}
              /\ byActive' = [ActiveWithout(gone) EXCEPT ![a] = {id}]
              /\ counts' = [left EXCEPT !.active = @ + 1,
                                        !.unknownActive = IF known THEN @ ELSE @ + 1]
              /\ byDevice' = [byDevice EXCEPT ![a].inFlight = FALSE]
              /\ CallIs(p, Idle)
    /\ UNCHANGED <<rate, knownReady, knownApps, storedApps>>

-----------------------------------------------------------------------------
(* Registrations, and the end of ceremonies *)

\* saveCeremony
SaveRegistration(id) ==
    /\ id \notin Ids
    /\ ceremonies' = (ceremonies \ Expired) \cup
         (IF Cardinality(ceremonies \ Expired) + counts.pendingSlots >= MaxCeremonies THEN {}
          ELSE {[id |-> id, kind |-> "registration", app |-> NoApp, known |-> TRUE,
                 expired |-> FALSE]})
    /\ byActive' = ActiveWithout(Expired) /\ counts' = CountsWithout(Expired)
    /\ UNCHANGED <<byDevice, rate, calls, knownReady, knownApps, storedApps>>

\* consume: a ceremony is used once, whatever becomes of it.  A login that
\* verifies has its device in the store (ResolveDevice) before the cache is told.
Consume(p, id) ==
    LET c == CHOOSE x \in ceremonies : x.id = id
        gone == Expired \cup {c}
    IN
    /\ calls[p] = Idle /\ id \in Ids
    /\ ceremonies' = ceremonies \ gone /\ byActive' = ActiveWithout(gone)
    /\ counts' = CountsWithout(gone)
    /\ \/ /\ c.kind = "login" /\ ~c.expired
          /\ storedApps' = storedApps \cup {c.app}
          /\ CallIs(p, [Idle EXCEPT !.at = "resolved", !.app = c.app])
       \/ UNCHANGED <<storedApps, calls>>
    /\ UNCHANGED <<byDevice, rate, knownReady, knownApps>>

\* rememberKnownDevice
RememberApp(p) ==
    /\ calls[p].at = "resolved"
    /\ knownApps' = IF knownReady THEN knownApps \cup {calls[p].app} ELSE knownApps
    /\ CallIs(p, Idle)
    /\ UNCHANGED <<ceremonies, byActive, byDevice, rate, counts, knownReady, storedApps>>

\* Time: a ceremony passes its deadline; a bucket is credited a token.
CeremonyExpires(id) ==
    /\ \E c \in ceremonies : c.id = id /\ ~c.expired
    /\ ceremonies' = {IF c.id = id THEN [c EXCEPT !.expired = TRUE] ELSE c : c \in ceremonies}
    /\ UNCHANGED <<byActive, byDevice, rate, counts, calls, knownReady, knownApps, storedApps>>

RefillApp(a) ==
    /\ byDevice[a].tokens < AppBurst
    /\ byDevice' = [byDevice EXCEPT ![a].tokens = @ + 1]
    /\ UNCHANGED <<ceremonies, byActive, rate, counts, calls, knownReady, knownApps, storedApps>>

RefillGlobal(b) ==
    /\ rate[b] < GlobalBurst
    /\ rate' = [rate EXCEPT ![b] = @ + 1]
    /\ UNCHANGED <<ceremonies, byActive, byDevice, counts, calls, knownReady, knownApps, storedApps>>

-----------------------------------------------------------------------------
AdmissionInit ==
    /\ ceremonies = {} /\ byActive = [a \in Apps |-> {}]
    /\ byDevice = [a \in Apps |-> [tokens |-> AppBurst, inFlight |-> FALSE]]
    /\ rate = [b \in {"known", "unknown"} |-> GlobalBurst]
    /\ counts = [active |-> 0, unknownActive |-> 0, pendingSlots |-> 0, pendingUnknown |-> 0]
    /\ calls = [p \in Calls |-> Idle]
    /\ knownReady = FALSE /\ knownApps = {} /\ storedApps \in SUBSET Apps

AdmissionNext ==
    \/ \E p \in Calls :
        \/ \E a \in Apps : LookUp(p, a)
        \/ Reserve(p) \/ Cancel(p) \/ RememberApp(p)
        \/ \E id \in CeremonyIds : Commit(p, id) \/ Consume(p, id)
    \/ \E id \in CeremonyIds : SaveRegistration(id) \/ CeremonyExpires(id)
    \/ \E a \in Apps : RefillApp(a)
    \/ \E b \in {"known", "unknown"} : RefillGlobal(b)

AdmissionSpec == AdmissionInit /\ [][AdmissionNext]_admissionVars

-----------------------------------------------------------------------------
(* Properties *)

Ceremony ==
    [id : CeremonyIds, kind : {"login", "registration"}, app : Apps \cup {NoApp},
     known : BOOLEAN, expired : BOOLEAN]
Counts == [active : Nat, unknownActive : Nat, pendingSlots : Nat, pendingUnknown : Nat]
LoginCall ==
    [at : {"idle", "looked", "reserved", "refused", "resolved"}, app : Apps \cup {NoApp},
     known : BOOLEAN, reserved : BOOLEAN]

AdmissionTypeOK ==
    /\ ceremonies \subseteq Ceremony
    /\ byActive \in [Apps -> SUBSET CeremonyIds]
    /\ byDevice \in [Apps -> [tokens : 0..AppBurst, inFlight : BOOLEAN]]
    /\ rate \in [{"known", "unknown"} -> 0..GlobalBurst]
    /\ counts \in Counts
    /\ calls \in [Calls -> LoginCall]
    /\ knownReady \in BOOLEAN /\ knownApps \subseteq storedApps /\ storedApps \subseteq Apps

Reservations == {p \in Calls : calls[p].at \in {"reserved", "refused"} /\ calls[p].reserved}

(* Logins and the slots reserved for them never fill the ceremony table: a    *)
(* slot is neither leaked nor given twice when a reservation is cancelled, a  *)
(* ceremony is replaced, consumed or expires while its replacement is being   *)
(* made, and registrations keep their reserve (reserveLogin, commitLogin,     *)
(* cancelLogin, admission.go:137-246).                                        *)
RegistrationsKeepTheirReserve ==
    /\ Cardinality(ceremonies) + Cardinality(Reservations) <= MaxCeremonies
    /\ Cardinality(Logins) + Cardinality(Reservations) <= MaxLogins
    /\ counts.active = Cardinality(Logins)
    /\ counts.unknownActive = Cardinality({c \in Logins : ~c.known})
    /\ counts.pendingSlots = Cardinality(Reservations)
    /\ \A a \in Apps : Cardinality({c \in Logins : c.app = a}) <= 1

-----------------------------------------------------------------------------
(* The inductive invariant *)

LoginsOf(table) == {c \in table : c.kind = "login"}
UnknownOf(table) == {c \in table : c.kind = "login" /\ ~c.known}

\* A table of ceremonies, the links to its logins and the counters agree: a
\* login is the one its app is linked to, and an app is linked to a login.
TableIsSound(table, active, c) ==
    /\ table \subseteq Ceremony /\ IsFiniteSet(table)
    /\ active \in [Apps -> SUBSET CeremonyIds]
    /\ c \in Counts
    /\ \A x, y \in table : x.id = y.id => x = y
    /\ \A x \in table : x.kind = "login" => x.app \in Apps /\ active[x.app] = {x.id}
    /\ \A a \in Apps : active[a] # {} =>
          \E x \in table : x.kind = "login" /\ x.app = a /\ active[a] = {x.id}
    /\ c.active = Cardinality(LoginsOf(table))
    /\ c.unknownActive = Cardinality(UnknownOf(table))

\* There is room for the reserved slots.
HasRoom(table, c) ==
    /\ Cardinality(table) + c.pendingSlots <= MaxCeremonies
    /\ c.active + c.pendingSlots <= MaxLogins

\* Every reserved slot is held by a call.
SlotsAreHeld ==
    /\ calls \in [Calls -> LoginCall]
    /\ \A p \in Calls : calls[p].at \in {"looked", "reserved", "refused"} => calls[p].app \in Apps
    /\ \A p \in Calls : calls[p].at = "looked" => ~calls[p].reserved
    /\ IsFiniteSet(Reservations)
    /\ counts.pendingSlots = Cardinality(Reservations)

AdmissionInvariant ==
    /\ TableIsSound(ceremonies, byActive, counts)
    /\ HasRoom(ceremonies, counts)
    /\ SlotsAreHeld
=============================================================================
