------------------------------ MODULE Terminal ------------------------------
(***************************************************************************)
(* Access to a terminal: the gateway's admission, gates, revocation and    *)
(* close (internal/terminal: gateway.go, lease.go, capacity.go,            *)
(* connection_admission.go) for one tab, and the application calls that    *)
(* open, revoke and close it (internal/application: terminals.go,          *)
(* passkeys.go, workspaces.go).                                            *)
(*                                                                         *)
(* A connection is served by two goroutines: the reader applies the frames *)
(* of the client, the writer owns the WebSocket.  A revocation or a close  *)
(* marks the gates of a connection under the locks and waits for what has  *)
(* already begun after it has given the locks up.  What an input does to   *)
(* the tab's receipts, reconnect tokens, pings and the shutdown of the     *)
(* manager are not modelled.                                               *)
(***************************************************************************)
EXTENDS Integers, FiniteSets

CONSTANTS
    Devices,              \* installations of the owner's app
    Conns,                \* slots for WebSocket connections
    None,                 \* nobody
    MaxTickets,           \* maxUnusedTicketsPerDevice
    MaxSubscribers,       \* maxSubscribersPerTab
    MaxDeviceSubscribers  \* maxSubscribersPerDevice

ASSUME TerminalAssumption ==
    /\ IsFiniteSet(Conns)
    /\ None \notin Devices \cup {"connect", "revoke", "close"} /\ "close" \notin Devices
    /\ MaxTickets \in Nat
    /\ MaxSubscribers \in Nat /\ MaxDeviceSubscribers \in Nat

VARIABLES
    session,     \* the device's durable session is valid
    workspace,   \* holder of the workspace mutation lock
    admission,   \* holder of each device's terminal admission gate
    connect,     \* CreateTerminalConnection, one request per device
    revoke,      \* Application.RevokeDevice: the connections it drains, and
                 \* whether a revocation of the device has returned success
    closing,     \* Unregister on behalf of a close or a suspension
    tab,         \* the tab's entry in Manager.tabs
    drains,      \* connections beginClose waits for
    runtime,     \* the PTY runtime behind the tab
    running,     \* Application.running
    tickets,     \* unused tickets of each device
    subscribers, \* Manager.subscribers, and the owner's and the tab's count
    byDevice,    \* Manager.subscribersByDevice
    conn,        \* connections
    lease        \* holder of the input lease

app == <<session, workspace, admission, connect, revoke, closing, running>>
manager == <<tab, drains, runtime, tickets, subscribers, byDevice>>
vars == <<app, manager, conn, lease>>

-----------------------------------------------------------------------------
(* Connections and their gates *)

Free == [at |-> "free", device |-> None, installed |-> FALSE, revoked |-> FALSE,
         cancelled |-> FALSE, reader |-> "none", writer |-> "none"]

\* inFlight of the two gates.  The reader is inside the mutation gate from
\* begin to the end of handleFrame, the writer during conn.Write.
MutationInFlight(c) == conn[c].reader \in {"apply", "send", "wait"}
DeliveryInFlight(c) == conn[c].writer \in {"frame", "response"}
Drained(c) == ~MutationInFlight(c) /\ ~DeliveryInFlight(c)

Installed == {c \in Conns : conn[c].installed}

\* revoke on both gates and closeSubscriber, for a set of subscribers.
Mark(C) == conn' = [c \in Conns |-> [conn[c] EXCEPT !.revoked = @ \/ c \in C]]

Reader(c, at) == conn' = [conn EXCEPT ![c].reader = at]
\* handleFrame returned nil, or an error: then ServeHTTP cancels the context.
NextFrame(c) == conn' = [conn EXCEPT ![c].reader = "read"]
ReaderFails(c) ==
    conn' = [conn EXCEPT ![c].reader = "done", ![c].cancelled = TRUE]
\* writeFrames returned: its goroutine cancels the connection's context.
WriterExits(c) == conn' = [conn EXCEPT ![c].writer = "done", ![c].cancelled = TRUE]

-----------------------------------------------------------------------------
(* Application.CreateTerminalConnection *)

\* A request authenticates at HTTP ingress, before any lock.  A device has one
\* session, and a revoked one is never valid again.
Authenticate(d) ==
    /\ connect[d] = "idle" /\ session[d]
    /\ connect' = [connect EXCEPT ![d] = "authenticated"]
    /\ UNCHANGED <<session, workspace, admission, revoke, closing, running, manager,
                   conn, lease>>

\* acquireWorkspaceMutation
ConnectLock(d) ==
    /\ connect[d] = "authenticated" /\ workspace = None
    /\ workspace' = d
    /\ connect' = [connect EXCEPT ![d] = "locked"]
    /\ UNCHANGED <<session, admission, revoke, closing, running, manager, conn, lease>>

\* Mutant: the principal that was authenticated at ingress is not asked again.
ConnectGateMutant(d) ==
    /\ connect[d] = "locked" /\ admission[d] = None
    /\ connect' = [connect EXCEPT ![d] = "validated"]
    /\ admission' = [admission EXCEPT ![d] = "connect"]
    /\ UNCHANGED <<session, workspace, revoke, closing, running, manager, conn, lease>>

\* The admission gate, then ValidatePrincipal; both locks are given back on
\* every return.
ConnectGate(d) ==
    /\ connect[d] = "locked" /\ admission[d] = None
    /\ IF session[d]
         THEN /\ connect' = [connect EXCEPT ![d] = "validated"]
              /\ admission' = [admission EXCEPT ![d] = "connect"]
              /\ UNCHANGED workspace
         ELSE /\ connect' = [connect EXCEPT ![d] = "idle"]
              /\ workspace' = None
              /\ UNCHANGED admission
    /\ UNCHANGED <<session, revoke, closing, running, manager, conn, lease>>

\* ensureTerminalRuntime: Register puts a fresh tabState, a new replay
\* generation, into the table unless the tab is already running.
EnsureRuntime ==
    IF running
      THEN UNCHANGED <<running, tab, drains, runtime, lease>>
      ELSE /\ tab = "absent"
           /\ tab' = "open" /\ drains' = {} /\ runtime' = "open" /\ running' = TRUE
           /\ lease' = None

\* Manager.Issue refuses a tab that is not open, and a device whose unused
\* tickets are at the limit.
Issue(d) ==
    tickets' = [tickets EXCEPT ![d] = IF tab' = "open" /\ @ < MaxTickets THEN @ + 1 ELSE @]

\* The rest of CreateTerminalConnection runs under both locks.  Looking up the
\* tab or the workspace, or starting the PTY, may fail, and so may touching the
\* workspace once the PTY runs.
ConnectReturns(d) ==
    /\ connect[d] = "validated"
    /\ \/ EnsureRuntime /\ (Issue(d) \/ UNCHANGED tickets)
       \/ UNCHANGED <<running, tab, drains, runtime, lease, tickets>>
    /\ connect' = [connect EXCEPT ![d] = "idle"]
    /\ admission' = [admission EXCEPT ![d] = None]
    /\ workspace' = None
    /\ UNCHANGED <<session, revoke, closing, subscribers, byDevice, conn>>

\* cleanupLocked and the expiry checks of Issue and admit.
TicketExpires(d) ==
    /\ tickets[d] > 0
    /\ tickets' = [tickets EXCEPT ![d] = @ - 1]
    /\ UNCHANGED <<app, tab, drains, runtime, subscribers, byDevice, conn, lease>>

-----------------------------------------------------------------------------
(* Gateway.ServeHTTP *)

\* reserveSubscriberLocked and tabState.subscribe
HasRoom(d) ==
    /\ tab = "open"
    /\ subscribers < MaxSubscribers /\ byDevice[d] < MaxDeviceSubscribers

\* Manager.admit: the ticket is consumed and the subscriber installed in one
\* critical section ...
Admit(c, d) ==
    /\ conn[c] = Free /\ tickets[d] > 0 /\ HasRoom(d)
    /\ tickets' = [tickets EXCEPT ![d] = @ - 1]
    /\ subscribers' = subscribers + 1
    /\ byDevice' = [byDevice EXCEPT ![d] = @ + 1]
    /\ conn' = [conn EXCEPT ![c].at = "admitted", ![c].device = d, ![c].installed = TRUE]
    /\ UNCHANGED <<app, tab, drains, runtime, lease>>

\* ... or the ticket is consumed and the connection refused.
Refuse(d) ==
    /\ tickets[d] > 0 /\ ~HasRoom(d)
    /\ tickets' = [tickets EXCEPT ![d] = @ - 1]
    /\ UNCHANGED <<app, tab, drains, runtime, subscribers, byDevice, conn, lease>>

\* websocket.Accept succeeds and the writer is started, or the handler returns.
Accept(c) ==
    /\ conn[c].at = "admitted"
    /\ \E ok \in BOOLEAN :
         conn' = [conn EXCEPT ![c].at = "serving",
                    ![c].reader = IF ok THEN "read" ELSE "done",
                    ![c].writer = IF ok THEN "idle" ELSE "done"]
    /\ UNCHANGED <<app, manager, lease>>

\* conn.Read fails: the client left, the frame is malformed, or the context is
\* cancelled.  The reader returns and ServeHTTP cancels the writer.
ReadFails(c) ==
    /\ conn[c].reader = "read"
    /\ ReaderFails(c)
    /\ UNCHANGED <<app, manager, lease>>

\* The deferred Manager.unsubscribe: out of the tab, then out of the counts.
Unsubscribe(c) ==
    /\ conn[c].installed /\ conn[c].reader = "done" /\ conn[c].writer = "done"
    /\ conn' = [conn EXCEPT ![c].installed = FALSE, ![c].revoked = TRUE, ![c].at = "leaving"]
    /\ UNCHANGED <<app, manager, lease>>

\* The drains are over: releaseSubscriberLocked, and the handler returns.
Release(c) ==
    /\ conn[c].at = "leaving" /\ Drained(c)
    /\ subscribers' = subscribers - 1
    /\ byDevice' = [byDevice EXCEPT ![conn[c].device] = @ - 1]
    /\ conn' = [conn EXCEPT ![c] = Free]
    /\ UNCHANGED <<app, tab, drains, runtime, tickets, lease>>

-----------------------------------------------------------------------------
(* The reader: Gateway.readFrames and handleFrame *)

\* A frame that mutates the terminal (frameMutatesTerminalState) enters the
\* mutation gate or is refused.  A ping is answered as an input is, outside the
\* gate, and is left out.
ReadFrame(c) ==
    /\ conn[c].reader = "read" /\ ~conn[c].cancelled
    /\ IF conn[c].revoked THEN ReaderFails(c) ELSE Reader(c, "apply")
    /\ UNCHANGED <<app, manager, lease>>

\* handleFrame: a lease request is granted or refused, a plain input, a resize
\* and a confirmation are done at once, an idempotent input goes on to its
\* receipt.  Any of them may fail and end the reader.
ApplyFrame(c) ==
    /\ conn[c].reader = "apply"
    /\ \/ \E take \in BOOLEAN :
            /\ lease' = IF lease = None \/ take THEN conn[c].device ELSE lease
            /\ NextFrame(c)
       \/ /\ NextFrame(c) \/ Reader(c, "send") \/ ReaderFails(c)
          /\ UNCHANGED lease
    /\ UNCHANGED <<app, manager>>

LeaseExpires ==
    /\ lease # None
    /\ lease' = None
    /\ UNCHANGED <<app, manager, conn>>

\* sendResponse gives up when the context is cancelled.
SendFails(c) ==
    /\ conn[c].reader \in {"send", "wait"} /\ conn[c].cancelled
    /\ ReaderFails(c)
    /\ UNCHANGED <<app, manager, lease>>

-----------------------------------------------------------------------------
(* The writer: writeFrames, writeConnectionResponse and writeFrame *)

\* Mutant: the delivery gate is not entered.
TakeFrameMutant(c) ==
    /\ conn[c].writer = "idle"
    /\ conn' = [conn EXCEPT ![c].writer = "frame"]
    /\ UNCHANGED <<app, manager, lease>>

\* A replayed or broadcast frame enters the delivery gate, or the writer leaves.
TakeFrame(c) ==
    /\ conn[c].writer = "idle"
    /\ IF conn[c].revoked THEN WriterExits(c) ELSE conn' = [conn EXCEPT ![c].writer = "frame"]
    /\ UNCHANGED <<app, manager, lease>>

TakeResponse(c) ==
    /\ conn[c].writer = "idle" /\ conn[c].reader = "send"
    /\ conn' = [conn EXCEPT ![c].reader = "wait",
                  ![c].writer = IF conn[c].revoked THEN "done" ELSE "response",
                  ![c].cancelled = @ \/ conn[c].revoked]
    /\ UNCHANGED <<app, manager, lease>>

\* conn.Write returns; a response is answered to the reader if it still waits.
Written(c) ==
    /\ DeliveryInFlight(c)
    /\ conn' = [conn EXCEPT ![c].writer = "idle",
                  ![c].reader = IF conn[c].writer = "response" /\ @ = "wait"
                                  THEN "read" ELSE @]
    /\ UNCHANGED <<app, manager, lease>>

\* Mutant: the writer's goroutine leaves without cancelling the context.
WriterLeavesMutant(c) ==
    /\ \/ DeliveryInFlight(c)
       \/ conn[c].writer = "idle" /\ (conn[c].revoked \/ conn[c].cancelled)
    /\ conn' = [conn EXCEPT ![c].writer = "done"]
    /\ UNCHANGED <<app, manager, lease>>

\* A write fails or times out, or the writer sees revoked or ctx.Done.
WriterLeaves(c) ==
    /\ \/ DeliveryInFlight(c)
       \/ conn[c].writer = "idle" /\ (conn[c].revoked \/ conn[c].cancelled)
    /\ WriterExits(c)
    /\ UNCHANGED <<app, manager, lease>>

\* broadcastLocked finds the subscriber's queue full and closes it.
Overflow(c) ==
    /\ conn[c].installed /\ ~conn[c].revoked /\ tab = "open"
    /\ Mark({c})
    /\ UNCHANGED <<app, manager, lease>>

-----------------------------------------------------------------------------
(* Application.RevokeDevice, RevokeCurrentSession and a replayed refresh *)

NoRevoke == [pc |-> "idle", drains |-> {}, done |-> FALSE]

\* The call returns, with or without success, and gives the gate back.
RevokeEnds(d, ok) ==
    /\ revoke' = [revoke EXCEPT ![d] = [NoRevoke EXCEPT !.done = revoke[d].done \/ ok]]
    /\ admission' = [admission EXCEPT ![d] = None]

\* acquireTerminalAdmission.  A device may be revoked more than once.
RevokeGate(d) ==
    /\ revoke[d].pc = "idle" /\ admission[d] = None
    /\ admission' = [admission EXCEPT ![d] = "revoke"]
    /\ revoke' = [revoke EXCEPT ![d].pc = "commit"]
    /\ UNCHANGED <<session, workspace, connect, closing, running, manager, conn, lease>>

\* The durable revocation.  When the store reports an error nothing is swept,
\* although the error of a COMMIT does not say that nothing was revoked.
RevokeSession(d) ==
    /\ revoke[d].pc = "commit"
    /\ \/ /\ session' = [session EXCEPT ![d] = FALSE]
          /\ revoke' = [revoke EXCEPT ![d].pc = "sweep"]
          /\ UNCHANGED admission
       \/ /\ session' = [session EXCEPT ![d] = FALSE] \/ UNCHANGED session
          /\ RevokeEnds(d, FALSE)
    /\ UNCHANGED <<workspace, connect, closing, running, manager, conn, lease>>

\* Manager.RevokeDevice under the manager's and the tab's lock.  Subscribers that
\* an earlier tabState left behind are revoked already; marking them again, here
\* or in BeginClose, changes nothing.
Sweep(d) ==
    /\ revoke[d].pc = "sweep"
    /\ tickets' = [tickets EXCEPT ![d] = 0]
    /\ LET mine == {c \in Installed : tab # "absent" /\ conn[c].device = d}
       IN /\ Mark(mine)
          /\ revoke' = [revoke EXCEPT ![d] = [pc |-> "drain", drains |-> mine, done |-> @.done]]
    /\ UNCHANGED <<session, workspace, admission, connect, closing, running, tab, drains,
                   runtime, subscribers, byDevice, lease>>

\* waitForConnectionDrains, lease.Release, and the return.
RevokeReturns(d) ==
    /\ revoke[d].pc = "drain"
    /\ \A c \in revoke[d].drains : conn[c].device = d => Drained(c)
    /\ lease' = IF lease = d THEN None ELSE lease
    /\ RevokeEnds(d, TRUE)
    /\ UNCHANGED <<session, workspace, connect, closing, running, manager, conn>>

-----------------------------------------------------------------------------
(* CloseTerminalTab, DisconnectCodex and beginWorkspaceRuntimeDrain *)

\* tabState.beginClose
BeginClose ==
    IF tab = "open" THEN tab' = "closed" /\ drains' = Installed /\ Mark(Installed)
                    ELSE UNCHANGED <<tab, drains, conn>>

\* acquireWorkspaceMutation, and the tab is no longer in Application.running.
CloseLock ==
    /\ closing = "idle" /\ workspace = None
    /\ workspace' = "close" /\ closing' = "unregister" /\ running' = FALSE
    /\ UNCHANGED <<session, admission, connect, revoke, manager, conn, lease>>

\* Manager.Unregister: close the tab and purge its credentials in one step.
Unregister ==
    /\ closing = "unregister"
    /\ BeginClose
    /\ tickets' = [d \in Devices |-> 0]
    /\ closing' = IF tab = "absent" THEN "return" ELSE "drain"
    /\ UNCHANGED <<session, workspace, admission, connect, revoke, running, runtime,
                   subscribers, byDevice, lease>>

\* waitClosed, then closeRuntime.
CloseRuntime ==
    /\ closing = "drain" /\ \A c \in drains : Drained(c)
    /\ runtime' = "closed" /\ closing' = "delete"
    /\ UNCHANGED <<session, workspace, admission, connect, revoke, running, tab, drains,
                   tickets, subscribers, byDevice, conn, lease>>

\* Unregister deletes the tab, and its caller gives the workspace lock back.
CloseReturns ==
    /\ closing \in {"delete", "return"}
    /\ tab' = "absent" /\ drains' = {}
    /\ closing' = "idle" /\ workspace' = None
    /\ UNCHANGED <<session, admission, connect, revoke, running, runtime, tickets,
                   subscribers, byDevice, conn, lease>>

-----------------------------------------------------------------------------
(* Specification *)

Init ==
    /\ session = [d \in Devices |-> TRUE]
    /\ workspace = None
    /\ admission = [d \in Devices |-> None]
    /\ connect = [d \in Devices |-> "idle"]
    /\ revoke = [d \in Devices |-> NoRevoke]
    /\ closing = "idle"
    /\ tab = "absent" /\ drains = {} /\ runtime = "closed" /\ running = FALSE
    /\ tickets = [d \in Devices |-> 0]
    /\ subscribers = 0 /\ byDevice = [d \in Devices |-> 0]
    /\ conn = [c \in Conns |-> Free]
    /\ lease = None

Connecting(d) ==
    Authenticate(d) \/ ConnectLock(d) \/ ConnectGate(d) \/ ConnectReturns(d)

Revoking(d) == RevokeGate(d) \/ RevokeSession(d) \/ Sweep(d) \/ RevokeReturns(d)

Closing == CloseLock \/ Unregister \/ CloseRuntime \/ CloseReturns

Handler(c) == Accept(c) \/ Unsubscribe(c) \/ Release(c)

\* What a reader does once it has a frame.
Handling(c) == ApplyFrame(c) \/ SendFails(c)

Reading(c) == ReadFails(c) \/ ReadFrame(c)

Writing(c) == TakeFrame(c) \/ TakeResponse(c) \/ Written(c) \/ WriterLeaves(c)

Next ==
    \/ \E d \in Devices : Connecting(d) \/ Revoking(d) \/ TicketExpires(d) \/ Refuse(d)
    \/ \E c \in Conns, d \in Devices : Admit(c, d)
    \/ \E c \in Conns :
         Handler(c) \/ Handling(c) \/ Reading(c) \/ Writing(c) \/ Overflow(c)
    \/ Closing \/ LeaseExpires

Spec == Init /\ [][Next]_vars

\* Calls that have begun go on.  A sync.Mutex starves nobody, so whoever waits
\* for a lock that keeps becoming free gets it.
CallFairness ==
    /\ \A d \in Devices :
         /\ SF_vars(ConnectLock(d) \/ ConnectGate(d) \/ ConnectReturns(d))
         /\ WF_vars(RevokeSession(d) \/ Sweep(d) \/ RevokeReturns(d))
    /\ WF_vars(Unregister \/ CloseRuntime \/ CloseReturns)

\* A frame in the gate is bounded by the PTY's write timeout, a WebSocket write
\* by its own, and conn.Read returns once the context is cancelled.  Nothing
\* obliges a client to send, or a healthy connection to end.
ConnectionFairness ==
    \A c \in Conns :
        /\ WF_vars(Handler(c) \/ Handling(c) \/ (conn[c].cancelled /\ ReadFails(c)))
        /\ WF_vars(Writing(c))

FairSpec == Spec /\ CallFairness /\ ConnectionFairness

-----------------------------------------------------------------------------
(* Properties *)

Connection ==
    [at : {"free", "admitted", "serving", "leaving"}, device : Devices \cup {None},
     installed : BOOLEAN, revoked : BOOLEAN, cancelled : BOOLEAN,
     reader : {"none", "read", "apply", "send", "wait", "done"},
     writer : {"none", "idle", "frame", "response", "done"}]

\* Every variable keeps its type; the Go types of the manager, the tab and the
\* connection allow more.
TypeOK ==
    /\ session \in [Devices -> BOOLEAN]
    /\ workspace \in Devices \cup {"close", None}
    /\ admission \in [Devices -> {"connect", "revoke", None}]
    /\ connect \in [Devices -> {"idle", "authenticated", "locked", "validated"}]
    /\ revoke \in [Devices -> [pc : {"idle", "commit", "sweep", "drain"},
                               drains : SUBSET Conns, done : BOOLEAN]]
    /\ closing \in {"idle", "unregister", "drain", "delete", "return"}
    /\ tab \in {"absent", "open", "closed"} /\ drains \in SUBSET Conns
    /\ runtime \in {"open", "closed"} /\ running \in BOOLEAN
    /\ tickets \in [Devices -> Nat]
    /\ subscribers \in Int /\ byDevice \in [Devices -> Int]
    /\ conn \in [Conns -> Connection]
    /\ lease \in Devices \cup {None}

\* The device has no ticket, nothing on its behalf is on its way to the PTY or to
\* a WebSocket, and it does not hold the input lease.
Silent(d) ==
    /\ tickets[d] = 0 /\ lease # d
    /\ \A c \in Conns : conn[c].device = d => Drained(c)

\* A device is silent from the moment a revocation of it has returned success,
\* whatever requests it authenticated before and however many revocations of it
\* follow or fail (Manager.RevokeDevice, gateway.go:434-475).
RevokedIsSilent == \A d \in Devices : revoke[d].done => Silent(d)

\* What gateway.go:434-437 asks of its callers: "Persistent session revocation
\* must call this after committing its durable credential mutation so a redeemed
\* ticket cannot outlive sign-out".  The callers return without it when the
\* commit is reported as an error (passkeys.go:188-190 and 220-222).
NoTicketOutlivesSignOut ==
    \A d \in Devices : ~session[d] /\ revoke[d].pc = "idle" => Silent(d)

\* No frame is being applied to a tab whose runtime has been closed: Unregister
\* waits for the mutations it cut off before it calls closeRuntime
\* (gateway.go:357-385).
MutationHasRuntime == \A c \in Conns : MutationInFlight(c) => runtime = "open"

-----------------------------------------------------------------------------
(* What the two rest on *)

\* A lock is held by the call that is between its acquire and its release.
LocksAreHeld ==
    /\ \A d \in Devices :
         /\ admission[d] = "connect" <=> connect[d] = "validated"
         /\ admission[d] = "revoke" <=> revoke[d].pc # "idle"
         /\ workspace = d <=> connect[d] \in {"locked", "validated"}
    /\ workspace = "close" <=> closing # "idle"

\* Where a connection is decides what its goroutines can be doing.
ConnectionsAreWellFormed ==
    \A c \in Conns :
        /\ conn[c].installed <=> conn[c].at \in {"admitted", "serving"}
        /\ conn[c].at = "free" <=> conn[c].device = None
        /\ conn[c].at \in {"free", "admitted"} => conn[c].reader = "none" /\ conn[c].writer = "none"
        /\ conn[c].at = "leaving" => /\ conn[c].revoked
                                     /\ conn[c].reader = "done" /\ conn[c].writer = "done"

\* How far a close has come, and what it has already cut off.
CloseIsOrdered ==
    /\ tab = "closed" <=> closing \in {"drain", "delete"}
    /\ closing = "return" => tab = "absent"
    /\ closing = "delete" \/ tab = "absent" <=> runtime = "closed"
    /\ \A c \in Conns :
         /\ tab # "open" /\ conn[c].at # "free" => conn[c].revoked
         /\ tab = "closed" /\ ~Drained(c) => c \in drains
         /\ runtime = "closed" => Drained(c)

\* The device can start nothing.
CutOff(d) ==
    /\ ~session[d] /\ tickets[d] = 0
    /\ \A c \in Conns : conn[c].device = d => conn[c].revoked

\* How far a revocation has come, and what a successful one leaves behind.
RevocationIsOrdered ==
    \A d \in Devices :
        /\ connect[d] = "validated" => session[d]
        /\ revoke[d].pc = "sweep" => ~session[d]
        /\ revoke[d].done \/ revoke[d].pc = "drain" => CutOff(d)
        /\ revoke[d].pc = "drain" =>
             \A c \in Conns : conn[c].device = d /\ ~Drained(c) => c \in revoke[d].drains
        /\ revoke[d].done => Silent(d)

\* The inductive invariant: what is not drained yet is in the set somebody still
\* waits for, and whoever has been cut off cannot begin again (gateway.go:434-475
\* and 689-712).
AccessInvariant ==
    /\ TypeOK
    /\ LocksAreHeld
    /\ ConnectionsAreWellFormed
    /\ CloseIsOrdered
    /\ RevocationIsOrdered

-----------------------------------------------------------------------------
\* The admission counts are the connections that have not been released, and
\* stay within the limits (capacity.go:67-92).
CountsAreExact ==
    /\ subscribers = Cardinality({c \in Conns : conn[c].at # "free"})
    /\ subscribers <= MaxSubscribers
    /\ \A d \in Devices :
         /\ byDevice[d] = Cardinality({c \in Conns : conn[c].device = d})
         /\ byDevice[d] <= MaxDeviceSubscribers

\* A revocation, a close and a connection request return, so that again and again
\* none of its kind is under way: what they wait for under their locks, the
\* drains and each other, ends by itself (gateway.go:357-385 and 468-474,
\* terminals.go:178-184).
CallsReturn ==
    /\ \A d \in Devices : []<>(revoke[d].pc = "idle") /\ []<>(connect[d] = "idle")
    /\ []<>(closing = "idle")

\* A connection whose subscriber was closed, by a revocation, a close or a full
\* queue, ends and gives its place back, although its client does nothing
\* (gateway.go:873-923).
ClosedSubscriberLeaves ==
    \A c \in Conns : conn[c].revoked ~> conn[c].at = "free"
=============================================================================
