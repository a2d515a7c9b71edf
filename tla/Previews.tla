------------------------------ MODULE Previews ------------------------------
(***************************************************************************)
(* Private previews of one workspace: routes (application/                 *)
(* previews_settings.go, postgres/application_state.go), the grants and    *)
(* active requests of the token manager (preview/tokens.go), the gateway   *)
(* (preview/gateway.go) and the tunnels behind it (coder/portforward.go).  *)
(*                                                                         *)
(* The operations on routes hold the workspace's gate, `job`.  A route     *)
(* stands for one port of one provider resource.  Contexts are cancelled   *)
(* after the token manager's mutex is released.                            *)
(***************************************************************************)
EXTENDS Integers, FiniteSets, Sequences

CONSTANTS
    Routes,         \* ports of the workspace that may be previewed
    Handhelds,      \* devices of the owner
    Visits,         \* requests at the gateway
    MaxTickets,     \* bound: grants issued
    MaxActive,      \* the limit on authorized requests
    MaxForwards     \* maximumPortForwards

ASSUME PreviewsAssumption ==
    MaxTickets \in Nat /\ MaxActive \in Nat \ {0} /\ MaxForwards \in Nat \ {0}

VARIABLES
    listed,         \* preview_routes: the routes that are not revoked
    tickets,        \* grants ever issued: route and device
    valid,          \* grants in the token manager
    expired,        \* grants past their expiry
    visit,          \* requests: step, grant, and whether the context is cancelled
    active,         \* requests registered in activeByRoute
    activeCount,    \* the manager's count of them
    tunnel,         \* routes: "none", "starting" or "ready"
    job,            \* the operation holding the workspace's gate
    farewell,       \* devices: the step of their revocation
    parting,        \* devices: removed requests it has still to cancel
    quiet,          \* history: routes whose runtime was revoked, no grant since
    raced           \* history: those of which a request was parting at that time

previewVars == <<listed, tickets, valid, expired, visit, active, activeCount, tunnel, job,
                 farewell, parting, quiet, raced>>

IssuedTickets == DOMAIN tickets
NoVisit == [at |-> "idle", ticket |-> 0, cancelled |-> FALSE]
NoJob == [at |-> "idle", kind |-> "none", todo |-> {}, route |-> {}, by |-> {}, cancels |-> {}]
VisitIs(v, record) == visit' = [visit EXCEPT ![v] = record]
Cancelled(vs) == [v \in Visits |-> IF v \in vs /\ visit[v].at # "idle"
                                   THEN [visit[v] EXCEPT !.cancelled = TRUE] ELSE visit[v]]
VisitsOf(ts) == {v \in active : visit[v].ticket \in ts}
OfRoute(r) == {t \in IssuedTickets : tickets[t].route = r}
OfDevice(d) == {t \in IssuedTickets : tickets[t].device = d}
\* acquireTerminalAdmission: held by a device's revocation and by an access it asks for.
AdmissionFree(d) == farewell[d] \in {"none", "done"} /\ ~(job.at = "issue" /\ d \in job.by)

-----------------------------------------------------------------------------
(* The token manager's critical sections *)

\* removeGrantLocked, decrementActiveOwnerLocked: grants and requests leave.
Removes(ts, vs) ==
    /\ valid' = valid \ ts
    /\ active' = active \ vs /\ activeCount' = activeCount - Cardinality(vs)
\* cleanupLocked: what has expired.
Swept == valid \cap expired
SweptVisits == VisitsOf(expired)

-----------------------------------------------------------------------------
(* Operations under the workspace's gate *)

Jobs(record) == job.at = "idle" /\ job' = [NoJob EXCEPT !.kind = record.kind, !.at = record.at,
                                           !.todo = record.todo, !.by = record.by]
RoutesUnchanged == UNCHANGED <<tickets, valid, expired, visit, active, activeCount, tunnel,
                               farewell, parting, quiet, raced>>

\* ListPreviews: the listening ports replace the routes in one transaction, and
\* the runtime of those that are gone is revoked.  A commit whose answer is lost
\* ends the call before that.
ListPreviews(ports) ==
    /\ Jobs([kind |-> "list", at |-> "next", todo |-> listed \ ports, by |-> {}])
    /\ listed' = ports
    /\ RoutesUnchanged

ListFails(ports) ==
    /\ job.at = "idle" /\ listed' = ports
    /\ UNCHANGED job /\ RoutesUnchanged

\* RevokePreviewAccess of a listed route, or the drain of a workspace that is
\* suspended ("drain") or deleted ("delete"): the listed routes are read.
BeginRevocation(kind, rs) ==
    /\ rs \subseteq listed /\ (kind # "revoke" => rs = listed)
    /\ Jobs([kind |-> kind, at |-> "next", todo |-> rs, by |-> {}])
    /\ UNCHANGED listed /\ RoutesUnchanged

\* RevokeRoute: the grants and the active requests of the route leave ...
RevokeRoute(r) ==
    /\ job.at = "next" /\ r \in job.todo
    /\ Removes(OfRoute(r) \cup Swept, VisitsOf(OfRoute(r)) \cup SweptVisits)
    /\ job' = [job EXCEPT !.at = "cancel", !.route = {r}, !.todo = @ \ {r},
                          !.cancels = VisitsOf(OfRoute(r)) \cup SweptVisits]
    /\ raced' = IF \E d \in Handhelds : \E v \in parting[d] : visit[v].ticket \in OfRoute(r)
                THEN raced \cup {r} ELSE raced \ {r}
    /\ quiet' = quiet \ {r}
    /\ UNCHANGED <<listed, tickets, expired, visit, tunnel, farewell, parting>>

\* ... cancelAll, outside the mutex ...
CancelAll ==
    /\ job.at = "cancel"
    /\ visit' = Cancelled(job.cancels)
    /\ job' = [job EXCEPT !.at = "tunnel", !.cancels = {}]
    /\ UNCHANGED <<listed, tickets, valid, expired, active, activeCount, tunnel, farewell, parting, quiet, raced>>

\* ... and PortForwardManager.Revoke removes and reaps the tunnel.
RevokeTunnel ==
    /\ job.at = "tunnel"
    /\ tunnel' = [r \in Routes |-> IF r \in job.route THEN "none" ELSE tunnel[r]]
    /\ quiet' = quiet \cup job.route
    /\ job' = [job EXCEPT !.at = IF job.kind \in {"revoke", "drain"} THEN "record" ELSE "next"]
    /\ UNCHANGED <<listed, tickets, valid, expired, visit, active, activeCount, farewell,
                   parting, raced>>

\* RevokePreviewRoute, which may fail.
RecordRevocation ==
    /\ job.at = "record"
    /\ listed' \in {listed, listed \ job.route}
    /\ job' = [job EXCEPT !.at = "next"]
    /\ RoutesUnchanged

EndJob ==
    /\ job.at = "next" /\ job.todo = {}
    /\ job' = NoJob
    /\ UNCHANGED listed /\ RoutesUnchanged

\* CreatePreviewAccess reads the route and takes the device's admission; the
\* principal is validated before the grant is issued.
BeginAccess(d, r) ==
    /\ r \in listed /\ AdmissionFree(d) /\ farewell[d] = "none"
    /\ Jobs([kind |-> "access", at |-> "issue", todo |-> {r}, by |-> {d}])
    /\ UNCHANGED listed /\ RoutesUnchanged

\* Issue, which may sweep what has expired, or a refusal.
Issue(sweep) ==
    /\ job.at = "issue"
    /\ \/ /\ Len(tickets) < MaxTickets
          /\ \E r \in job.todo, d \in job.by :
                /\ tickets' = Append(tickets, [route |-> r, device |-> d])
                /\ quiet' = quiet \ {r} /\ raced' = raced \ {r}
          /\ valid' = (valid \ IF sweep THEN expired ELSE {}) \cup {Len(tickets) + 1}
       \/ /\ UNCHANGED <<tickets, quiet, raced>>
          /\ valid' = valid \ IF sweep THEN expired ELSE {}
    /\ active' = active \ (IF sweep THEN SweptVisits ELSE {})
    /\ activeCount' = activeCount - Cardinality(IF sweep THEN SweptVisits ELSE {})
    /\ visit' = Cancelled(IF sweep THEN SweptVisits ELSE {})
    /\ job' = NoJob
    /\ UNCHANGED <<listed, expired, tunnel, farewell, parting>>

-----------------------------------------------------------------------------
(* Revocation of a device or of its session family, under its admission *)

\* The session is revoked, ...
BeginFarewell(d) ==
    /\ farewell[d] = "none" /\ AdmissionFree(d)
    /\ farewell' = [farewell EXCEPT ![d] = "session"]
    /\ UNCHANGED <<listed, tickets, valid, expired, visit, active, activeCount, tunnel, job,
                   parting, quiet, raced>>

\* ... then RevokeDevice: grants and active requests of the device leave, ...
RevokeDevicePreviews(d) ==
    /\ farewell[d] = "session"
    /\ Removes(OfDevice(d) \cup Swept, VisitsOf(OfDevice(d)) \cup SweptVisits)
    /\ parting' = [parting EXCEPT ![d] = VisitsOf(OfDevice(d)) \cup SweptVisits]
    /\ farewell' = [farewell EXCEPT ![d] = "cancel"]
    /\ UNCHANGED <<listed, tickets, expired, visit, tunnel, job, quiet, raced>>

\* ... and the contexts are cancelled before it returns.
CancelParting(d) ==
    /\ farewell[d] = "cancel"
    /\ visit' = Cancelled(parting[d])
    /\ parting' = [parting EXCEPT ![d] = {}]
    /\ farewell' = [farewell EXCEPT ![d] = "done"]
    /\ UNCHANGED <<listed, tickets, valid, expired, active, activeCount, tunnel, job, quiet, raced>>

-----------------------------------------------------------------------------
(* Gateway.ServeHTTP and PortForwardManager *)

VisitStep == UNCHANGED <<listed, tickets, expired, job, farewell, parting, quiet, raced>>

\* The route is resolved from the database first.
Resolve(v, t) ==
    /\ visit[v].at = "idle" /\ t \in IssuedTickets /\ tickets[t].route \in listed
    /\ VisitIs(v, [NoVisit EXCEPT !.at = "resolved", !.ticket = t])
    /\ VisitStep /\ UNCHANGED <<valid, active, activeCount, tunnel>>

\* Authorize: the grant and the capacity, in one critical section.
Authorize(v, sweep) ==
    LET gone == IF sweep THEN SweptVisits ELSE {} IN
    /\ visit[v].at = "resolved"
    /\ valid' = valid \ (IF sweep THEN expired ELSE {})
    /\ LET left == activeCount - Cardinality(gone)
           granted == visit[v].ticket \in valid \ expired /\ left < MaxActive IN
       /\ active' = (active \ gone) \cup (IF granted THEN {v} ELSE {})
       /\ activeCount' = left + IF granted THEN 1 ELSE 0
       /\ visit' = [Cancelled(gone) EXCEPT ![v] =
                       IF granted THEN [visit[v] EXCEPT !.at = "authorized"] ELSE NoVisit]
    /\ VisitStep /\ UNCHANGED tunnel

\* Target: under the tunnels' mutex a cancelled request is turned away, so it
\* cannot recreate a tunnel that was just revoked.
Target(v) ==
    LET r == tickets[visit[v].ticket].route IN
    /\ visit[v].at = "authorized" /\ ~visit[v].cancelled
    /\ \/ tunnel[r] # "none" /\ UNCHANGED tunnel
       \/ /\ tunnel[r] = "none" /\ Cardinality({x \in Routes : tunnel[x] # "none"}) < MaxForwards
          /\ tunnel' = [tunnel EXCEPT ![r] = "starting"]
    /\ VisitIs(v, [visit[v] EXCEPT !.at = "waiting"])
    /\ VisitStep /\ UNCHANGED <<valid, active, activeCount>>

\* The tunnel is ready and the request is proxied through it.
Proxies(v) ==
    /\ visit[v].at = "waiting" /\ tunnel[tickets[visit[v].ticket].route] = "ready"
    /\ VisitIs(v, [visit[v] EXCEPT !.at = "proxied"])
    /\ VisitStep /\ UNCHANGED <<valid, active, activeCount, tunnel>>

\* Mutant: the count is taken down whoever removed the request.
ReleaseMutant(v) ==
    /\ visit[v].at \in {"authorized", "waiting", "proxied"}
    /\ active' = active \ {v} /\ activeCount' = activeCount - 1
    /\ VisitIs(v, NoVisit)
    /\ job' = [job EXCEPT !.cancels = @ \ {v}]
    /\ parting' = [d \in Handhelds |-> parting[d] \ {v}]
    /\ UNCHANGED <<listed, tickets, valid, expired, tunnel, farewell, quiet, raced>>

\* The request ends, for whatever reason, and releases its authorization, unless
\* a revocation already has.
Release(v) ==
    /\ visit[v].at \in {"authorized", "waiting", "proxied"}
    /\ active' = active \ {v} /\ activeCount' = activeCount - (IF v \in active THEN 1 ELSE 0)
    /\ VisitIs(v, NoVisit)
    /\ job' = [job EXCEPT !.cancels = @ \ {v}]
    /\ parting' = [d \in Handhelds |-> parting[d] \ {v}]
    /\ UNCHANGED <<listed, tickets, valid, expired, tunnel, farewell, quiet, raced>>

\* startLocked: the child reports ready, or exits (by itself or at the startup
\* deadline) and removes itself.
TunnelIs(r, s) ==
    /\ tunnel[r] # "none" /\ s # "starting" /\ tunnel[r] # s
    /\ tunnel' = [tunnel EXCEPT ![r] = s]
    /\ VisitStep /\ UNCHANGED <<valid, visit, active, activeCount>>

\* The expiry of a grant is the deadline of its requests' contexts.
GrantExpires(t) ==
    /\ t \in IssuedTickets \ expired
    /\ expired' = expired \cup {t}
    /\ visit' = Cancelled({v \in Visits : visit[v].ticket = t /\ visit[v].at # "resolved"})
    /\ UNCHANGED <<listed, tickets, valid, active, activeCount, tunnel, job, farewell, parting, quiet, raced>>

-----------------------------------------------------------------------------
PreviewsInit ==
    /\ listed \in SUBSET Routes /\ tickets = <<>> /\ valid = {} /\ expired = {}
    /\ visit = [v \in Visits |-> NoVisit] /\ active = {} /\ activeCount = 0
    /\ tunnel = [r \in Routes |-> "none"] /\ job = NoJob
    /\ farewell = [d \in Handhelds |-> "none"] /\ parting = [d \in Handhelds |-> {}]
    /\ quiet = {} /\ raced = {}

PreviewsNext ==
    \/ \E ports \in SUBSET Routes : ListPreviews(ports) \/ ListFails(ports)
    \/ \E rs \in SUBSET Routes, kind \in {"revoke", "drain", "delete"} :
        (kind = "revoke" => Cardinality(rs) = 1) /\ BeginRevocation(kind, rs)
    \/ \E r \in Routes : RevokeRoute(r) \/ \E s \in {"none", "ready"} : TunnelIs(r, s)
    \/ CancelAll \/ RevokeTunnel \/ RecordRevocation \/ EndJob
    \/ \E d \in Handhelds : (\E r \in Routes : BeginAccess(d, r)) \/ BeginFarewell(d)
                             \/ RevokeDevicePreviews(d) \/ CancelParting(d)
    \/ \E sweep \in BOOLEAN : Issue(sweep) \/ \E v \in Visits : Authorize(v, sweep)
    \/ \E v \in Visits : Target(v) \/ Proxies(v) \/ Release(v)
                         \/ \E t \in 1..MaxTickets : Resolve(v, t)
    \/ \E t \in 1..MaxTickets : GrantExpires(t)

PreviewsSpec == PreviewsInit /\ [][PreviewsNext]_previewVars

-----------------------------------------------------------------------------
(* Properties *)

PreviewsTypeOK ==
    /\ listed \subseteq Routes /\ quiet \subseteq Routes
    /\ tickets \in Seq([route : Routes, device : Handhelds])
    /\ valid \subseteq IssuedTickets /\ expired \subseteq IssuedTickets
    /\ visit \in [Visits -> [at : {"idle", "resolved", "authorized", "waiting", "proxied"},
                             ticket : 0..MaxTickets, cancelled : BOOLEAN]]
    /\ active \subseteq Visits /\ activeCount \in Int
    /\ tunnel \in [Routes -> {"none", "starting", "ready"}]
    /\ farewell \in [Handhelds -> {"none", "session", "cancel", "done"}]
    /\ parting \in [Handhelds -> SUBSET Visits] /\ raced \subseteq Routes

(* Once the revocation of a route's runtime has returned, and until the next   *)
(* access is granted, the route has no grant, no tunnel and no request whose   *)
(* context is alive, whatever requests were on their way through the gateway,  *)
(* unless one of them was just then being taken out by the revocation of its   *)
(* device; a device that is gone has no grant, and no live request but those   *)
(* that the revocation of a route is about to cancel; and the count that       *)
(* limits requests is exact (preview/tokens.go:225-300, portforward.go:75-78). *)
Alive(ts) == {v \in Visits : /\ visit[v].at \in {"authorized", "waiting", "proxied"}
                             /\ visit[v].ticket \in ts /\ ~visit[v].cancelled}
RevokedPreviewIsGone ==
    /\ \A r \in quiet \ raced :
        OfRoute(r) \cap valid = {} /\ Alive(OfRoute(r)) = {} /\ tunnel[r] = "none"
    /\ \A d \in Handhelds : farewell[d] = "done" =>
        OfDevice(d) \cap valid = {} /\ Alive(OfDevice(d)) \subseteq job.cancels \cup UNION {parting[e] : e \in Handhelds}
    /\ activeCount = Cardinality(active)

(* The tunnels' manager says its second look at the context "prevents a late   *)
(* gateway Target call from recreating a tunnel after Revoke found nothing"    *)
(* (coder/portforward.go:76-78): a revoked route has no tunnel.                *)
RevokedRouteHasNoTunnel == \A r \in quiet : tunnel[r] = "none"

(* What keeps it so.  The requests that the manager counts are being served,   *)
(* and a served request whose context is alive is counted, unless a revocation *)
(* has it in hand to cancel ...                                                *)
Served == {"authorized", "waiting", "proxied"}
PreviewVisit == [at : {"idle", "resolved"} \cup Served, ticket : Nat, cancelled : BOOLEAN]
PreviewJob == [at : {"idle", "next", "cancel", "tunnel", "record", "issue"},
               kind : {"none", "list", "revoke", "drain", "delete", "access"},
               todo : SUBSET Routes, route : SUBSET Routes, by : SUBSET Handhelds,
               cancels : SUBSET Visits]
Running(v) == visit[v].at \in Served /\ ~visit[v].cancelled

VisitFacts ==
    /\ tickets \in Seq([route : Routes, device : Handhelds]) /\ valid \subseteq IssuedTickets
    /\ visit \in [Visits -> PreviewVisit]
    /\ \A v \in Visits : visit[v].at # "idle" => visit[v].ticket \in IssuedTickets
    /\ active \in SUBSET Visits /\ IsFiniteSet(active) /\ activeCount = Cardinality(active)
    /\ \A v \in active : visit[v].at \in Served

PendingFacts ==
    /\ job \in PreviewJob /\ parting \in [Handhelds -> SUBSET Visits]
    /\ farewell \in [Handhelds -> {"none", "session", "cancel", "done"}]
    /\ job.at # "cancel" => job.cancels = {}
    /\ job.at = "issue" => \A d \in job.by : farewell[d] = "none"
    /\ \A d \in Handhelds : farewell[d] # "cancel" => parting[d] = {}
    /\ \A v \in Visits : Running(v) =>
         v \in active \/ v \in job.cancels \/ \E d \in Handhelds : v \in parting[d]

(* ... so when the grants of a route or of a device leave, what is left of its *)
(* requests is in hand, and without a grant none is added.                     *)
RouteFacts ==
    /\ tunnel \in [Routes -> {"none", "starting", "ready"}] /\ quiet \in SUBSET Routes
    /\ \A r \in job.route : job.at \in {"cancel", "tunnel"} =>
         /\ \A t \in valid : tickets[t].route # r
         /\ \A v \in Visits : r \notin raced /\ Running(v) /\ tickets[visit[v].ticket].route = r =>
              v \in job.cancels
    /\ \A r \in quiet \ raced :
         /\ tunnel[r] = "none" /\ \A t \in valid : tickets[t].route # r
         /\ \A v \in Visits : Running(v) => tickets[visit[v].ticket].route # r

DeviceFacts ==
    \A d \in Handhelds : farewell[d] \in {"cancel", "done"} =>
        /\ \A t \in valid : tickets[t].device # d
        /\ \A v \in active : tickets[visit[v].ticket].device # d

PreviewsInvariant ==
    listed \in SUBSET Routes /\ VisitFacts /\ PendingFacts /\ RouteFacts /\ DeviceFacts
=============================================================================
