--------------------------- MODULE TerminalProofs ---------------------------
(***************************************************************************)
(* Theorems about Terminal, for any number of devices and connections and  *)
(* any limits.                                                             *)
(*                                                                         *)
(* AccessInvariant is inductive.  The steps of a connection's goroutines   *)
(* change one record and nothing else; what they may do to it is the step  *)
(* relation Evolves, and one lemma shows that Evolves keeps the invariant. *)
(***************************************************************************)
EXTENDS Terminal, FiniteSetTheorems, TLAPS

-----------------------------------------------------------------------------
(* Connections *)

WellFormed(r) ==
    /\ r.installed <=> r.at \in {"admitted", "serving"}
    /\ r.at = "free" <=> r.device = None
    /\ r.at \in {"free", "admitted"} => r.reader = "none" /\ r.writer = "none"
    /\ r.at = "leaving" => r.revoked /\ r.reader = "done" /\ r.writer = "done"

Busy(r) == r.reader \in {"apply", "send", "wait"} \/ r.writer \in {"frame", "response"}

\* What a step of a connection's own goroutines does to its record: it begins
\* nothing once the gates are revoked.
Evolves(r, s) ==
    /\ s \in Connection /\ WellFormed(s) /\ s.device = r.device
    /\ r.revoked => s.revoked
    /\ Busy(s) => Busy(r) \/ ~r.revoked

LEMMA ConnectionFields ==
    ASSUME NEW r \in Connection
    PROVE  /\ r.at \in {"free", "admitted", "serving", "leaving"}
           /\ r.device \in Devices \cup {None}
           /\ r.installed \in BOOLEAN /\ r.revoked \in BOOLEAN /\ r.cancelled \in BOOLEAN
           /\ r.reader \in {"none", "read", "apply", "send", "wait", "done"}
           /\ r.writer \in {"none", "idle", "frame", "response", "done"}
BY DEF Connection

LEMMA FreeConnection == Free \in Connection /\ Free.at = "free" /\ Free.device = None
                        /\ ~Free.installed /\ ~Free.revoked /\ Free.reader = "none" /\ Free.writer = "none"
BY DEF Free, Connection

LEMMA BusyIsNotDrained ==
    ASSUME NEW c \in Conns
    PROVE  /\ Drained(c) <=> ~Busy(conn[c])
           /\ Drained(c)' <=> ~Busy(conn'[c])
BY DEF Drained, Busy, MutationInFlight, DeliveryInFlight

LEMMA WellFormedConnections ==
    ConnectionsAreWellFormed <=> \A c \in Conns : WellFormed(conn[c])
BY DEF ConnectionsAreWellFormed, WellFormed

LEMMA EvolvesSelf ==
    ASSUME NEW r \in Connection, WellFormed(r)
    PROVE  Evolves(r, r)
BY DEF Evolves

\* A step of the goroutines of some connections keeps the invariant.
LEMMA EvolvesKeepsInvariant ==
    ASSUME AccessInvariant, UNCHANGED <<app, manager>>,
           conn' \in [Conns -> Connection], \A c \in Conns : Evolves(conn[c], conn'[c]),
           \/ lease' = lease
           \/ \E c \in Conns : Busy(conn[c]) /\ lease' = conn[c].device /\ conn[c].device # None
    PROVE  AccessInvariant'
<1>1. TypeOK'
  <2>1. lease' \in Devices \cup {None}
    BY DEF AccessInvariant, TypeOK, Connection
  <2> QED BY <2>1 DEF AccessInvariant, TypeOK, app, manager
<1>2. LocksAreHeld'
  BY DEF AccessInvariant, LocksAreHeld, app
<1>3. ConnectionsAreWellFormed'
  BY DEF ConnectionsAreWellFormed, Evolves, WellFormed
<1>4. ASSUME NEW c \in Conns
      PROVE  /\ conn'[c].device = conn[c].device
             /\ conn'[c].at = "free" <=> conn[c].at = "free"
             /\ conn[c].revoked => conn'[c].revoked
             /\ ~Drained(c)' => ~Drained(c) \/ ~conn[c].revoked
  BY BusyIsNotDrained DEF Evolves, WellFormed, AccessInvariant, ConnectionsAreWellFormed
<1>5. CloseIsOrdered'
  <2>1. ASSUME NEW c \in Conns, runtime' = "closed" PROVE Drained(c)'
    <3>1. tab # "open" /\ Drained(c)
      BY <2>1 DEF AccessInvariant, CloseIsOrdered, manager
    <3>2. CASE conn[c].at = "free"
      BY <3>1, <3>2, <1>3, <1>4, BusyIsNotDrained
         DEF ConnectionsAreWellFormed, Busy
    <3>3. CASE conn[c].at # "free"
      BY <3>1, <3>3, <1>4 DEF AccessInvariant, CloseIsOrdered
    <3> QED BY <3>2, <3>3
  <2>2. ASSUME NEW c \in Conns, tab' = "closed", ~Drained(c)' PROVE c \in drains'
    <3>1. conn'[c].at # "free"
      BY <2>2, <1>3, BusyIsNotDrained DEF ConnectionsAreWellFormed, Busy
    <3>2. tab = "closed" /\ conn[c].revoked
      BY <2>2, <3>1, <1>4 DEF AccessInvariant, CloseIsOrdered, manager
    <3> QED BY <2>2, <3>2, <1>4 DEF AccessInvariant, CloseIsOrdered, manager
  <2>3. ASSUME NEW c \in Conns, tab' # "open", conn'[c].at # "free" PROVE conn'[c].revoked
    BY <2>3, <1>4 DEF AccessInvariant, CloseIsOrdered, manager
  <2> QED BY <2>1, <2>2, <2>3 DEF AccessInvariant, CloseIsOrdered, app, manager
<1>6. RevocationIsOrdered'
  <2>1. ASSUME NEW d \in Devices, CutOff(d)
        PROVE  CutOff(d)' /\ \A c \in Conns : conn'[c].device = d /\ ~Drained(c)' => ~Drained(c)
    <3>1. ~session'[d] /\ tickets'[d] = 0
      BY <2>1 DEF CutOff, app, manager
    <3>2. \A c \in Conns : conn'[c].device = d =>
            conn[c].revoked /\ conn'[c].revoked /\ (~Drained(c)' => ~Drained(c))
      BY <2>1, <1>4 DEF CutOff
    <3> QED BY <3>1, <3>2 DEF CutOff
  <2>2. ASSUME NEW d \in Devices, CutOff(d), Silent(d)
        PROVE  Silent(d)'
    <3>1. tickets'[d] = 0
      BY <2>2 DEF Silent, manager
    <3>2. lease' # d
      BY <2>2, BusyIsNotDrained DEF Silent
    <3>3. \A c \in Conns : conn'[c].device = d => Drained(c)'
      BY <2>1, <2>2, <1>4 DEF Silent
    <3> QED BY <3>1, <3>2, <3>3 DEF Silent
  <2>3. \A d \in Devices : session'[d] = session[d] /\ connect'[d] = connect[d] /\ revoke'[d] = revoke[d]
    BY DEF app
  <2>4. \A c \in Conns : conn'[c].device = conn[c].device
    BY <1>4
  <2> QED BY <2>1, <2>2, <2>3, <2>4 DEF AccessInvariant, RevocationIsOrdered
<1> QED BY <1>1, <1>2, <1>3, <1>5, <1>6 DEF AccessInvariant

LEMMA OneEvolves ==
    ASSUME AccessInvariant, UNCHANGED <<app, manager>>,
           NEW c \in Conns, NEW s, conn' = [conn EXCEPT ![c] = s], Evolves(conn[c], s),
           lease' = lease \/ (Busy(conn[c]) /\ lease' = conn[c].device)
    PROVE  AccessInvariant'
<1>1. conn \in [Conns -> Connection]
  BY DEF AccessInvariant, TypeOK
<1>2. s \in Connection
  BY DEF Evolves
<1>3. conn' \in [Conns -> Connection]
  BY <1>1, <1>2
<1>4. ASSUME NEW x \in Conns PROVE Evolves(conn[x], conn'[x])
  <2>1. CASE x = c
    BY <2>1, <1>1
  <2>2. CASE x # c
    <3>1. WellFormed(conn[x])
      BY WellFormedConnections DEF AccessInvariant
    <3> QED BY <2>2, <3>1, <1>1, EvolvesSelf
  <2> QED BY <2>1, <2>2
<1>5. Busy(conn[c]) => conn[c].device # None
  BY <1>1, WellFormedConnections DEF AccessInvariant, WellFormed, Busy
<1> QED BY <1>3, <1>4, <1>5, EvolvesKeepsInvariant

\* The record the step of a connection starts from.
LEMMA Here ==
    ASSUME AccessInvariant, NEW c \in Conns
    PROVE  conn[c] \in Connection /\ WellFormed(conn[c])
BY WellFormedConnections DEF AccessInvariant, TypeOK

-----------------------------------------------------------------------------
(* The steps of the goroutines *)

\* The reader moves on.
LEMMA ReaderEvolves ==
    ASSUME NEW r \in Connection, WellFormed(r), r.reader \notin {"none", "done"},
           NEW at \in {"read", "apply", "send", "wait", "done"}, NEW b \in BOOLEAN,
           at \in {"read", "done"} \/ Busy(r) \/ ~r.revoked
    PROVE  /\ Evolves(r, [r EXCEPT !.reader = at])
           /\ Evolves(r, [r EXCEPT !.reader = at, !.cancelled = b])
BY ZenonT(60) DEF Evolves, WellFormed, Busy, Connection

\* The writer moves on.
LEMMA WriterEvolves ==
    ASSUME NEW r \in Connection, WellFormed(r), r.writer \notin {"none", "done"},
           NEW at \in {"idle", "frame", "response", "done"}, NEW b \in BOOLEAN,
           at \in {"idle", "done"} \/ Busy(r) \/ ~r.revoked
    PROVE  /\ Evolves(r, [r EXCEPT !.writer = at])
           /\ Evolves(r, [r EXCEPT !.writer = at, !.cancelled = b])
BY ZenonT(60) DEF Evolves, WellFormed, Busy, Connection

LEMMA NextFrameStep ==
    ASSUME AccessInvariant, UNCHANGED <<app, manager>>, NEW c \in Conns,
           conn[c].reader \notin {"none", "done"}, NextFrame(c) \/ ReaderFails(c),
           lease' = lease \/ (Busy(conn[c]) /\ lease' = conn[c].device)
    PROVE  AccessInvariant'
<1>1. CASE NextFrame(c)
  <2>1. Evolves(conn[c], [conn[c] EXCEPT !.reader = "read"])
    BY Here, ReaderEvolves
  <2>2. conn' = [conn EXCEPT ![c] = [conn[c] EXCEPT !.reader = "read"]]
    BY <1>1 DEF NextFrame
  <2> QED BY <2>1, <2>2, OneEvolves
<1>2. CASE ReaderFails(c)
  <2>1. Evolves(conn[c], [conn[c] EXCEPT !.reader = "done", !.cancelled = TRUE])
    BY Here, ReaderEvolves
  <2>2. conn' = [conn EXCEPT ![c] = [conn[c] EXCEPT !.reader = "done", !.cancelled = TRUE]]
    BY <1>2, Here DEF ReaderFails
  <2> QED BY <2>1, <2>2, OneEvolves
<1> QED BY <1>1, <1>2

LEMMA WriterExitsStep ==
    ASSUME AccessInvariant, UNCHANGED <<app, manager, lease>>, NEW c \in Conns,
           conn[c].writer \notin {"none", "done"}, WriterExits(c)
    PROVE  AccessInvariant'
<1>1. Evolves(conn[c], [conn[c] EXCEPT !.writer = "done", !.cancelled = TRUE])
  BY Here, WriterEvolves
<1>2. conn' = [conn EXCEPT ![c] = [conn[c] EXCEPT !.writer = "done", !.cancelled = TRUE]]
  BY Here DEF WriterExits
<1> QED BY <1>1, <1>2, OneEvolves

LEMMA AcceptStep ==
    ASSUME AccessInvariant, NEW c \in Conns, Accept(c)
    PROVE  AccessInvariant'
<1>1. PICK s : /\ conn' = [conn EXCEPT ![c] = s]
               /\ \/ s = [conn[c] EXCEPT !.at = "serving", !.reader = "read", !.writer = "idle"]
                  \/ s = [conn[c] EXCEPT !.at = "serving", !.reader = "done", !.writer = "done"]
  BY ZenonT(60) DEF Accept
<1>2. Evolves(conn[c], s)
  BY <1>1, Here, ZenonT(60) DEF Accept, Evolves, WellFormed, Busy, Connection
<1> QED BY <1>1, <1>2, OneEvolves DEF Accept

LEMMA UnsubscribeStep ==
    ASSUME AccessInvariant, NEW c \in Conns, Unsubscribe(c)
    PROVE  AccessInvariant'
<1> DEFINE s == [conn[c] EXCEPT !.installed = FALSE, !.revoked = TRUE, !.at = "leaving"]
<1>1. Evolves(conn[c], s)
  BY Here DEF Unsubscribe, Evolves, WellFormed, Busy, Connection
<1>2. conn' = [conn EXCEPT ![c] = s]
  BY DEF Unsubscribe
<1> QED BY <1>1, <1>2, OneEvolves DEF Unsubscribe

LEMMA ReadingStep ==
    ASSUME AccessInvariant, NEW c \in Conns, Reading(c)
    PROVE  AccessInvariant'
<1>1. CASE ReadFails(c)
  BY <1>1, NextFrameStep DEF ReadFails
<1>2. CASE ReadFrame(c)
  <2>1. CASE conn[c].revoked
    BY <1>2, <2>1, NextFrameStep, SMTT(60) DEF ReadFrame
  <2>2. CASE ~conn[c].revoked
    BY <1>2, <2>2, Here, ReaderEvolves, OneEvolves DEF ReadFrame, Reader
  <2> QED BY <2>1, <2>2
<1> QED BY <1>1, <1>2 DEF Reading

LEMMA HandlingStep ==
    ASSUME AccessInvariant, NEW c \in Conns, Handling(c)
    PROVE  AccessInvariant'
<1>1. CASE ApplyFrame(c)
  <2>1. Busy(conn[c]) /\ UNCHANGED <<app, manager>> /\ conn[c].reader \notin {"none", "done"}
    BY <1>1 DEF ApplyFrame, Busy
  <2>2. lease' = lease \/ lease' = conn[c].device
    BY <1>1 DEF ApplyFrame
  <2>3. CASE NextFrame(c) \/ ReaderFails(c)
    BY <2>1, <2>2, <2>3, NextFrameStep
  <2>4. CASE Reader(c, "send")
    BY <2>1, <2>2, <2>4, Here, ReaderEvolves, OneEvolves DEF Reader
  <2> QED BY <1>1, <2>3, <2>4 DEF ApplyFrame
<1>2. CASE SendFails(c)
  BY <1>2, NextFrameStep DEF SendFails
<1> QED BY <1>1, <1>2 DEF Handling

LEMMA WritingStep ==
    ASSUME AccessInvariant, NEW c \in Conns, Writing(c)
    PROVE  AccessInvariant'
<1>1. CASE TakeFrame(c)
  <2>1. CASE conn[c].revoked
    BY <1>1, <2>1, WriterExitsStep DEF TakeFrame
  <2>2. CASE ~conn[c].revoked
    <3>1. Evolves(conn[c], [conn[c] EXCEPT !.writer = "frame"])
      BY <1>1, <2>2, Here, WriterEvolves DEF TakeFrame
    <3>2. conn' = [conn EXCEPT ![c] = [conn[c] EXCEPT !.writer = "frame"]]
      BY <1>1, <2>2 DEF TakeFrame
    <3> QED BY <1>1, <3>1, <3>2, OneEvolves DEF TakeFrame
  <2> QED BY <2>1, <2>2
<1>2. CASE TakeResponse(c)
  <2> DEFINE s == [conn[c] EXCEPT !.reader = "wait",
                     !.writer = IF conn[c].revoked THEN "done" ELSE "response",
                     !.cancelled = conn[c].cancelled \/ conn[c].revoked]
  <2>1. Evolves(conn[c], s)
    BY <1>2, Here, ZenonT(60) DEF TakeResponse, Evolves, WellFormed, Busy, Connection
  <2>2. conn' = [conn EXCEPT ![c] = s]
    BY <1>2, Here DEF TakeResponse, Connection
  <2> QED BY <1>2, <2>1, <2>2, OneEvolves DEF TakeResponse
<1>3. CASE Written(c)
  <2> DEFINE s == [conn[c] EXCEPT !.writer = "idle",
                     !.reader = IF conn[c].writer = "response" /\ conn[c].reader = "wait"
                                  THEN "read" ELSE conn[c].reader]
  <2>1. Evolves(conn[c], s)
    BY <1>3, Here DEF Written, DeliveryInFlight, Evolves, WellFormed, Busy, Connection
  <2>2. conn' = [conn EXCEPT ![c] = s]
    BY <1>3, Here DEF Written, Connection
  <2> QED BY <1>3, <2>1, <2>2, OneEvolves DEF Written
<1>4. CASE WriterLeaves(c)
  BY <1>4, WriterExitsStep DEF WriterLeaves, DeliveryInFlight
<1> QED BY <1>1, <1>2, <1>3, <1>4 DEF Writing

-----------------------------------------------------------------------------
(* Marking gates *)

LEMMA MarkFacts ==
    ASSUME conn \in [Conns -> Connection], NEW C, Mark(C)
    PROVE  /\ conn' \in [Conns -> Connection]
           /\ \A c \in Conns :
                /\ conn'[c].at = conn[c].at /\ conn'[c].device = conn[c].device
                /\ conn'[c].installed = conn[c].installed
                /\ conn'[c].reader = conn[c].reader /\ conn'[c].writer = conn[c].writer
                /\ conn'[c].revoked <=> conn[c].revoked \/ c \in C
<1>1. ASSUME NEW c \in Conns
      PROVE  /\ conn'[c] \in Connection
             /\ conn'[c].at = conn[c].at /\ conn'[c].device = conn[c].device
             /\ conn'[c].installed = conn[c].installed
             /\ conn'[c].reader = conn[c].reader /\ conn'[c].writer = conn[c].writer
             /\ conn'[c].revoked <=> conn[c].revoked \/ c \in C
  <2>1. PICK b \in BOOLEAN : b <=> conn[c].revoked \/ c \in C
    OBVIOUS
  <2>2. conn[c] \in Connection
    OBVIOUS
  <2>3. conn'[c] = [conn[c] EXCEPT !.revoked = b]
    BY <2>1, <2>2 DEF Mark, Connection
  <2> QED BY <2>1, <2>2, <2>3 DEF Connection
<1>2. conn' = [c \in Conns |-> conn'[c]]
  BY DEF Mark
<1> QED BY <1>1, <1>2

LEMMA MarkKeepsWellFormed ==
    ASSUME AccessInvariant, NEW C, Mark(C)
    PROVE  /\ ConnectionsAreWellFormed'
           /\ \A c \in Conns : Drained(c)' <=> Drained(c)
<1>1. conn \in [Conns -> Connection]
  BY DEF AccessInvariant, TypeOK
<1> QED BY <1>1, MarkFacts DEF AccessInvariant, ConnectionsAreWellFormed, Drained,
           MutationInFlight, DeliveryInFlight

LEMMA OverflowStep ==
    ASSUME AccessInvariant, NEW c \in Conns, Overflow(c)
    PROVE  AccessInvariant'
<1>1. conn \in [Conns -> Connection] /\ Mark({c})
  BY DEF AccessInvariant, TypeOK, Overflow
<1>2. \A x \in Conns : WellFormed(conn'[x])
  BY <1>1, MarkKeepsWellFormed DEF ConnectionsAreWellFormed, WellFormed
<1>3. \A x \in Conns : Evolves(conn[x], conn'[x])
  BY <1>1, <1>2, MarkFacts DEF Evolves, Busy
<1> QED BY <1>1, <1>3, MarkFacts, EvolvesKeepsInvariant DEF Overflow

-----------------------------------------------------------------------------
(* The calls *)

LEMMA SameConnections ==
    ASSUME AccessInvariant, UNCHANGED conn
    PROVE  /\ ConnectionsAreWellFormed'
           /\ \A c \in Conns : Drained(c)' <=> Drained(c)
BY DEF AccessInvariant, ConnectionsAreWellFormed, Drained, MutationInFlight, DeliveryInFlight

\* The locks' holders are told apart by the assumption.
LEMMA Holders ==
    ASSUME NEW d \in Devices
    PROVE  d # None /\ d # "close" /\ None # "connect" /\ None # "revoke" /\ None # "close"
BY TerminalAssumption

LEMMA ConnectingStep ==
    ASSUME AccessInvariant, NEW d \in Devices, Connecting(d)
    PROVE  AccessInvariant'
<1> USE DEF AccessInvariant
<1>0. conn' = conn /\ ConnectionsAreWellFormed' /\ \A c \in Conns : Drained(c)' <=> Drained(c)
  <2>1. conn' = conn
    BY DEF Connecting, Authenticate, ConnectLock, ConnectGate, ConnectReturns
  <2> QED BY <2>1, SameConnections
<1>1. CASE Authenticate(d)
  <2>1. TypeOK'
    BY <1>1 DEF Authenticate, TypeOK, manager
  <2>2. LocksAreHeld'
    BY <1>1, Holders DEF Authenticate, TypeOK, LocksAreHeld
  <2>3. CloseIsOrdered'
    BY <1>1, <1>0 DEF Authenticate, CloseIsOrdered, manager
  <2>4. RevocationIsOrdered'
    BY <1>1, <1>0 DEF Authenticate, TypeOK, RevocationIsOrdered, CutOff, Silent, manager
  <2> QED BY <1>0, <2>1, <2>2, <2>3, <2>4
<1>2. CASE ConnectLock(d)
  <2>1. TypeOK'
    BY <1>2 DEF ConnectLock, TypeOK, manager
  <2>2. LocksAreHeld'
    BY <1>2, Holders DEF ConnectLock, TypeOK, LocksAreHeld
  <2>3. CloseIsOrdered'
    BY <1>2, <1>0 DEF ConnectLock, CloseIsOrdered, manager
  <2>4. RevocationIsOrdered'
    BY <1>2, <1>0 DEF ConnectLock, TypeOK, RevocationIsOrdered, CutOff, Silent, manager
  <2> QED BY <1>0, <2>1, <2>2, <2>3, <2>4
<1>3. CASE ConnectGate(d)
  <2>1. TypeOK'
    BY <1>3 DEF ConnectGate, TypeOK, manager
  <2>2. LocksAreHeld'
    BY <1>3, Holders DEF ConnectGate, TypeOK, LocksAreHeld
  <2>3. CloseIsOrdered'
    BY <1>3, <1>0 DEF ConnectGate, CloseIsOrdered, manager
  <2>4. RevocationIsOrdered'
    BY <1>3, <1>0 DEF ConnectGate, TypeOK, RevocationIsOrdered, CutOff, Silent, manager
  <2> QED BY <1>0, <2>1, <2>2, <2>3, <2>4
<1>4. CASE ConnectReturns(d)
  <2>0. /\ session[d] /\ closing = "idle"
        /\ tickets' \in [Devices -> Nat] /\ \A e \in Devices : e # d => tickets'[e] = tickets[e]
        /\ lease' \in {lease, None}
    <3>1. session[d] /\ workspace = d /\ workspace # "close"
      BY <1>4, Holders DEF ConnectReturns, LocksAreHeld, RevocationIsOrdered
    <3>2. tickets' \in [Devices -> Nat] /\ \A e \in Devices : e # d => tickets'[e] = tickets[e]
      BY <1>4 DEF ConnectReturns, Issue, TypeOK
    <3> QED BY <1>4, <3>1, <3>2 DEF ConnectReturns, EnsureRuntime, LocksAreHeld, TypeOK
  <2>1. TypeOK'
    BY <1>4, <2>0 DEF ConnectReturns, EnsureRuntime, TypeOK
  <2>2. LocksAreHeld'
    BY <1>4, Holders DEF ConnectReturns, TypeOK, LocksAreHeld
  <2>3. CloseIsOrdered'
    BY <1>4, <1>0, <2>0 DEF ConnectReturns, EnsureRuntime, CloseIsOrdered
  <2>4. RevocationIsOrdered'
    BY <1>4, <1>0, <2>0, Holders DEF ConnectReturns, TypeOK, RevocationIsOrdered, CutOff, Silent
  <2> QED BY <1>0, <2>1, <2>2, <2>3, <2>4
<1> QED BY <1>1, <1>2, <1>3, <1>4 DEF Connecting

\* A ticket is spent, whether or not a connection comes of it.
LEMMA SpentTicketStep ==
    ASSUME AccessInvariant, NEW d \in Devices, TicketExpires(d) \/ Refuse(d)
    PROVE  AccessInvariant'
<1> USE DEF AccessInvariant
<1>1. conn' = conn /\ ConnectionsAreWellFormed' /\ \A c \in Conns : Drained(c)' <=> Drained(c)
  BY SameConnections DEF TicketExpires, Refuse
<1>2. /\ tickets' \in [Devices -> Nat]
      /\ \A e \in Devices : tickets[e] = 0 => tickets'[e] = 0
  BY DEF TicketExpires, Refuse, TypeOK
<1>3. UNCHANGED <<app, tab, drains, runtime, subscribers, byDevice, lease>>
  BY DEF TicketExpires, Refuse
<1>4. TypeOK'
  BY <1>1, <1>2, <1>3 DEF TypeOK, app
<1>5. LocksAreHeld'
  BY <1>3 DEF LocksAreHeld, app
<1>6. CloseIsOrdered'
  BY <1>1, <1>3 DEF CloseIsOrdered, app
<1>7. RevocationIsOrdered'
  BY <1>1, <1>2, <1>3 DEF RevocationIsOrdered, CutOff, Silent, app
<1> QED BY <1>1, <1>4, <1>5, <1>6, <1>7

LEMMA AdmitStep ==
    ASSUME AccessInvariant, NEW c \in Conns, NEW d \in Devices, Admit(c, d)
    PROVE  AccessInvariant'
<1> USE DEF AccessInvariant
<1>1. conn[c] = Free /\ tickets[d] > 0 /\ tab = "open" /\ conn \in [Conns -> Connection]
  BY DEF Admit, HasRoom, TypeOK
<1>2. /\ conn' \in [Conns -> Connection]
      /\ \A x \in Conns : x # c => conn'[x] = conn[x]
      /\ conn'[c].device = d /\ conn'[c].at = "admitted" /\ conn'[c].installed
      /\ conn'[c].reader = "none" /\ conn'[c].writer = "none"
  BY <1>1, FreeConnection DEF Admit, Connection
<1>3. \A x \in Conns : Drained(x)' <=> Drained(x)
  BY <1>1, <1>2, FreeConnection DEF Drained, MutationInFlight, DeliveryInFlight
<1>4. UNCHANGED <<app, tab, drains, runtime, lease>>
  BY DEF Admit
<1>5. /\ tickets' \in [Devices -> Nat] /\ subscribers' \in Int /\ byDevice' \in [Devices -> Int]
      /\ \A e \in Devices : tickets[e] = 0 => tickets'[e] = 0
  BY <1>1 DEF Admit, TypeOK
<1>6. TypeOK'
  BY <1>2, <1>4, <1>5 DEF TypeOK, app
<1>7. LocksAreHeld'
  BY <1>4 DEF LocksAreHeld, app
<1>8. ConnectionsAreWellFormed'
  BY <1>2, Holders DEF ConnectionsAreWellFormed
<1>9. CloseIsOrdered'
  BY <1>1, <1>3, <1>4 DEF CloseIsOrdered, app
<1>10. RevocationIsOrdered'
  <2>1. ~revoke[d].done /\ revoke[d].pc # "drain"
    BY <1>1 DEF RevocationIsOrdered, CutOff, TypeOK
  <2>2. Drained(c)'
    BY <1>2 DEF Drained, MutationInFlight, DeliveryInFlight
  <2>3. ASSUME NEW e \in Devices, e # d
        PROVE  (CutOff(e) => CutOff(e)') /\ (Silent(e) => Silent(e)')
    BY <1>2, <1>3, <1>4, <1>5, <2>3 DEF CutOff, Silent, app
  <2>4. /\ UNCHANGED <<session, connect, revoke>>
        /\ \A e \in Devices : e # d => \A x \in Conns :
              conn'[x].device = e => conn[x].device = e
    BY <1>2, <1>4 DEF app
  <2> QED BY <1>3, <2>1, <2>3, <2>4 DEF RevocationIsOrdered
<1> QED BY <1>6, <1>7, <1>8, <1>9, <1>10

LEMMA ReleaseStep ==
    ASSUME AccessInvariant, NEW c \in Conns, Release(c)
    PROVE  AccessInvariant'
<1> USE DEF AccessInvariant
<1>1. conn[c].at = "leaving" /\ Drained(c) /\ conn[c].device \in Devices /\ conn \in [Conns -> Connection]
  BY DEF Release, TypeOK, Connection, ConnectionsAreWellFormed
<1>2. /\ conn' \in [Conns -> Connection]
      /\ \A x \in Conns : x # c => conn'[x] = conn[x]
      /\ conn'[c] = Free
  BY <1>1, FreeConnection DEF Release
<1>3. \A x \in Conns : Drained(x)' <=> Drained(x)
  BY <1>1, <1>2, FreeConnection DEF Drained, MutationInFlight, DeliveryInFlight
<1>4. UNCHANGED <<app, tab, drains, runtime, tickets, lease>>
  BY DEF Release
<1>5. subscribers' \in Int /\ byDevice' \in [Devices -> Int]
  BY <1>1 DEF Release, TypeOK
<1>6. TypeOK'
  BY <1>2, <1>4, <1>5 DEF TypeOK, app
<1>7. LocksAreHeld'
  BY <1>4 DEF LocksAreHeld, app
<1>8. ConnectionsAreWellFormed'
  BY <1>2, FreeConnection DEF ConnectionsAreWellFormed
<1>9. CloseIsOrdered'
  BY <1>2, <1>3, <1>4, FreeConnection DEF CloseIsOrdered, app
<1>10. RevocationIsOrdered'
  BY <1>2, <1>3, <1>4, FreeConnection, Holders DEF RevocationIsOrdered, CutOff, Silent, app
<1> QED BY <1>6, <1>7, <1>8, <1>9, <1>10

LEMMA LeaseExpiresStep ==
    ASSUME AccessInvariant, LeaseExpires
    PROVE  AccessInvariant'
<1>1. conn' = conn /\ ConnectionsAreWellFormed' /\ \A c \in Conns : Drained(c)' <=> Drained(c)
  BY SameConnections DEF LeaseExpires
<1>2. TypeOK' /\ LocksAreHeld'
  BY DEF LeaseExpires, AccessInvariant, TypeOK, LocksAreHeld, app, manager
<1>3. CloseIsOrdered'
  BY <1>1 DEF LeaseExpires, AccessInvariant, CloseIsOrdered, app, manager
<1>4. RevocationIsOrdered'
  BY <1>1, Holders DEF LeaseExpires, AccessInvariant, RevocationIsOrdered, CutOff, Silent, app, manager
<1> QED BY <1>1, <1>2, <1>3, <1>4 DEF AccessInvariant

-----------------------------------------------------------------------------
(* Revocation *)

\* What a revocation leaves when it returns.
LEMMA RevokeEndsFacts ==
    ASSUME TypeOK, NEW d \in Devices, NEW ok \in BOOLEAN, RevokeEnds(d, ok)
    PROVE  /\ revoke' \in [Devices -> [pc : {"idle", "commit", "sweep", "drain"},
                                      drains : SUBSET Conns, done : BOOLEAN]]
           /\ revoke'[d].pc = "idle" /\ (revoke'[d].done <=> revoke[d].done \/ ok)
           /\ \A e \in Devices : e # d => revoke'[e] = revoke[e]
<1>1. PICK b \in BOOLEAN : b <=> revoke[d].done \/ ok
  OBVIOUS
<1>2. b = (revoke[d].done \/ ok)
  <2>1. revoke[d].done \in BOOLEAN
    BY DEF TypeOK
  <2> QED BY <1>1, <2>1
<1>3. revoke' = [revoke EXCEPT ![d] = [pc |-> "idle", drains |-> {}, done |-> b]]
  <2>1. [NoRevoke EXCEPT !.done = b] = [pc |-> "idle", drains |-> {}, done |-> b]
    BY DEF NoRevoke
  <2> QED BY <1>2, <2>1 DEF RevokeEnds
<1> QED BY <1>1, <1>3 DEF TypeOK

LEMMA RevokingStep ==
    ASSUME AccessInvariant, NEW d \in Devices, Revoking(d)
    PROVE  AccessInvariant'
<1> USE DEF AccessInvariant
<1>1. CASE RevokeGate(d)
  <2>0. conn' = conn /\ ConnectionsAreWellFormed' /\ \A c \in Conns : Drained(c)' <=> Drained(c)
    BY <1>1, SameConnections DEF RevokeGate
  <2>1. TypeOK'
    BY <1>1 DEF RevokeGate, TypeOK, manager
  <2>2. LocksAreHeld'
    BY <1>1, Holders DEF RevokeGate, TypeOK, LocksAreHeld
  <2>3. CloseIsOrdered'
    BY <1>1, <2>0 DEF RevokeGate, CloseIsOrdered, manager
  <2>4. RevocationIsOrdered'
    BY <1>1, <2>0 DEF RevokeGate, TypeOK, RevocationIsOrdered, CutOff, Silent, manager
  <2> QED BY <2>0, <2>1, <2>2, <2>3, <2>4
<1>2. CASE RevokeSession(d)
  <2>0. conn' = conn /\ ConnectionsAreWellFormed' /\ \A c \in Conns : Drained(c)' <=> Drained(c)
    BY <1>2, SameConnections DEF RevokeSession
  <2>1. TypeOK'
    <3>1. session' \in [Devices -> BOOLEAN]
      BY <1>2 DEF RevokeSession, RevokeEnds, TypeOK
    <3>2. revoke' \in [Devices -> [pc : {"idle", "commit", "sweep", "drain"}, drains : SUBSET Conns,
                            done : BOOLEAN]]
      <4>1. CASE revoke' = [revoke EXCEPT ![d].pc = "sweep"]
        BY <4>1 DEF TypeOK
      <4>2. CASE RevokeEnds(d, FALSE)
        BY <4>2, RevokeEndsFacts
      <4> QED BY <1>2, <4>1, <4>2 DEF RevokeSession
    <3>3. admission' \in [Devices -> {"connect", "revoke", None}]
      BY <1>2 DEF RevokeSession, RevokeEnds, TypeOK
    <3> QED BY <1>2, <3>1, <3>2, <3>3 DEF RevokeSession, TypeOK, manager
  <2>2. LocksAreHeld'
    BY <1>2, Holders DEF RevokeSession, TypeOK, LocksAreHeld, RevokeEnds, NoRevoke
  <2>3. CloseIsOrdered'
    BY <1>2, <2>0 DEF RevokeSession, CloseIsOrdered, manager
  <2>4. RevocationIsOrdered'
    <3>1. connect[d] # "validated"
      BY <1>2 DEF RevokeSession, LocksAreHeld
    <3>2. /\ revoke'[d].pc \in {"idle", "sweep"} /\ (revoke'[d].done <=> revoke[d].done)
          /\ revoke'[d].pc = "sweep" => ~session'[d]
          /\ \A e \in Devices : e # d => revoke'[e] = revoke[e] /\ session'[e] = session[e]
          /\ \A e \in Devices : ~session[e] => ~session'[e]
      <4>1. CASE RevokeEnds(d, FALSE)
        BY <1>2, <4>1, RevokeEndsFacts DEF RevokeSession, TypeOK
      <4>2. CASE /\ session' = [session EXCEPT ![d] = FALSE]
                 /\ revoke' = [revoke EXCEPT ![d].pc = "sweep"]
        BY <4>2 DEF TypeOK
      <4> QED BY <1>2, <4>1, <4>2 DEF RevokeSession
    <3>3. UNCHANGED <<connect, tickets, conn, lease>>
      BY <1>2 DEF RevokeSession, manager
    <3>4. \A e \in Devices : (CutOff(e) => CutOff(e)') /\ (Silent(e) => Silent(e)')
      BY <2>0, <3>2, <3>3 DEF CutOff, Silent
    <3> QED BY <2>0, <3>1, <3>2, <3>3, <3>4 DEF RevocationIsOrdered
  <2> QED BY <2>0, <2>1, <2>2, <2>3, <2>4
<1>3. CASE Sweep(d)
  <2> DEFINE mine == {c \in Installed : tab # "absent" /\ conn[c].device = d}
  <2>0. /\ conn \in [Conns -> Connection] /\ Mark(mine) /\ mine \subseteq Conns
        /\ ConnectionsAreWellFormed' /\ \A c \in Conns : Drained(c)' <=> Drained(c)
    BY <1>3, MarkKeepsWellFormed DEF Sweep, TypeOK, Installed
  <2>r. /\ revoke' \in [Devices -> [pc : {"idle", "commit", "sweep", "drain"},
                                   drains : SUBSET Conns, done : BOOLEAN]]
        /\ revoke'[d].pc = "drain" /\ revoke'[d].drains = mine
        /\ revoke'[d].done = revoke[d].done
        /\ \A e \in Devices : e # d => revoke'[e] = revoke[e]
    <3> HIDE DEF mine
    <3>1. revoke' = [revoke EXCEPT ![d] = [pc |-> "drain", drains |-> mine, done |-> revoke[d].done]]
      BY <1>3 DEF Sweep, mine
    <3> QED BY <2>0, <3>1 DEF TypeOK
  <2>1. TypeOK'
    <3>1. revoke' \in [Devices -> [pc : {"idle", "commit", "sweep", "drain"}, drains : SUBSET Conns,
                                  done : BOOLEAN]]
      BY <2>r
    <3>2. conn' \in [Conns -> Connection] /\ tickets' \in [Devices -> Nat]
      BY <1>3, <2>0, MarkFacts DEF Sweep, TypeOK
    <3> QED BY <1>3, <3>1, <3>2 DEF Sweep, TypeOK
  <2>2. LocksAreHeld'
    BY <1>3 DEF Sweep, TypeOK, LocksAreHeld
  <2>3. CloseIsOrdered'
    BY <1>3, <2>0, MarkFacts DEF Sweep, CloseIsOrdered
  <2>4. \A c \in Conns : conn[c].device = d => conn'[c].revoked /\ (~Drained(c) => c \in mine)
    <3> SUFFICES ASSUME NEW c \in Conns, conn[c].device = d
                 PROVE  conn'[c].revoked /\ (~Drained(c) => c \in mine)
      OBVIOUS
    <3>1. conn[c].at \in {"admitted", "serving", "leaving"}
      BY <2>0, ConnectionFields, Holders DEF ConnectionsAreWellFormed
    <3>2. CASE conn[c].installed /\ tab # "absent"
      BY <2>0, <3>2, MarkFacts DEF Installed
    <3>3. CASE ~conn[c].installed
      BY <2>0, <3>1, <3>3, MarkFacts
         DEF ConnectionsAreWellFormed, Drained, MutationInFlight, DeliveryInFlight
    <3>4. CASE tab = "absent"
      BY <2>0, <3>1, <3>4, MarkFacts DEF CloseIsOrdered
    <3> QED BY <2>0, <3>2, <3>3, <3>4, ConnectionFields
  <2>5. RevocationIsOrdered'
    <3>1. /\ UNCHANGED <<session, connect, lease>>
          /\ tickets'[d] = 0 /\ revoke'[d].pc = "drain" /\ revoke'[d].drains = mine
          /\ revoke'[d].done = revoke[d].done
          /\ \A e \in Devices : e # d => tickets'[e] = tickets[e] /\ revoke'[e] = revoke[e]
      BY <1>3, <2>r DEF Sweep, TypeOK
    <3>2. /\ ~session[d] /\ (connect[d] = "validated" => session[d])
      BY <1>3 DEF Sweep, RevocationIsOrdered
    <3>3. \A c \in Conns : /\ conn'[c].device = conn[c].device
                           /\ conn[c].revoked => conn'[c].revoked
                           /\ Drained(c)' <=> Drained(c)
      BY <2>0, MarkFacts
    <3>4. CutOff(d)' /\ (Silent(d) => Silent(d)')
      BY <2>4, <3>1, <3>2, <3>3 DEF CutOff, Silent
    <3>5. \A e \in Devices : e # d => (CutOff(e) => CutOff(e)') /\ (Silent(e) => Silent(e)')
      BY <3>1, <3>3 DEF CutOff, Silent
    <3> HIDE DEF mine
    <3> QED BY <2>4, <3>1, <3>2, <3>3, <3>4, <3>5 DEF RevocationIsOrdered
  <2> QED BY <2>0, <2>1, <2>2, <2>3, <2>5
<1>4. CASE RevokeReturns(d)
  <2>0. conn' = conn /\ ConnectionsAreWellFormed' /\ \A c \in Conns : Drained(c)' <=> Drained(c)
    BY <1>4, SameConnections DEF RevokeReturns
  <2>1. TypeOK'
    BY <1>4 DEF RevokeReturns, TypeOK, RevokeEnds, NoRevoke, manager
  <2>2. LocksAreHeld'
    BY <1>4, Holders DEF RevokeReturns, TypeOK, LocksAreHeld, RevokeEnds, NoRevoke
  <2>3. CloseIsOrdered'
    BY <1>4, <2>0 DEF RevokeReturns, CloseIsOrdered, manager
  <2>4. RevocationIsOrdered'
    BY <1>4, <2>0, Holders DEF RevokeReturns, TypeOK, RevocationIsOrdered, CutOff, Silent, RevokeEnds, NoRevoke, manager
  <2> QED BY <2>0, <2>1, <2>2, <2>3, <2>4
<1> QED BY <1>1, <1>2, <1>3, <1>4 DEF Revoking

-----------------------------------------------------------------------------
(* Closing *)

LEMMA ClosingStep ==
    ASSUME AccessInvariant, Closing
    PROVE  AccessInvariant'
<1> USE DEF AccessInvariant
<1>1. CASE CloseLock
  <2>0. conn' = conn /\ ConnectionsAreWellFormed' /\ \A c \in Conns : Drained(c)' <=> Drained(c)
    BY <1>1, SameConnections DEF CloseLock
  <2>1. TypeOK'
    BY <1>1 DEF CloseLock, TypeOK, manager
  <2>2. LocksAreHeld'
    BY <1>1, Holders DEF CloseLock, TypeOK, LocksAreHeld
  <2>3. CloseIsOrdered'
    BY <1>1, <2>0 DEF CloseLock, CloseIsOrdered, manager
  <2>4. RevocationIsOrdered'
    BY <1>1, <2>0 DEF CloseLock, RevocationIsOrdered, CutOff, Silent, manager
  <2> QED BY <2>0, <2>1, <2>2, <2>3, <2>4
<1>2. CASE Unregister
  <2>0. /\ conn' \in [Conns -> Connection] /\ ConnectionsAreWellFormed'
        /\ \A c \in Conns : /\ conn'[c].device = conn[c].device /\ conn'[c].at = conn[c].at
                            /\ conn[c].revoked => conn'[c].revoked
                            /\ Drained(c)' <=> Drained(c)
        /\ tab = "open" => \A c \in Conns : conn[c].installed => conn'[c].revoked /\ c \in drains'
    <3>1. conn \in [Conns -> Connection]
      BY DEF TypeOK
    <3>2. CASE tab = "open"
      <4>1. Mark(Installed) /\ drains' = Installed
        BY <1>2, <3>2 DEF Unregister, BeginClose
      <4> QED BY <3>1, <4>1, MarkFacts, MarkKeepsWellFormed DEF Installed
    <3>3. CASE tab # "open"
      <4>1. conn' = conn
        BY <1>2, <3>3 DEF Unregister, BeginClose
      <4> QED BY <3>1, <3>3, <4>1, SameConnections
    <3> QED BY <3>2, <3>3
  <2>1. TypeOK'
    BY <1>2, <2>0 DEF Unregister, BeginClose, TypeOK, Installed
  <2>2. LocksAreHeld'
    BY <1>2 DEF Unregister, LocksAreHeld
  <2>3. CloseIsOrdered'
    <3>1. tab \in {"absent", "open"}
      BY <1>2 DEF Unregister, CloseIsOrdered, TypeOK
    <3>2. CASE tab = "open"
      <4>1. tab' = "closed" /\ closing' = "drain" /\ runtime' = runtime /\ runtime # "closed"
        BY <1>2, <3>2 DEF Unregister, BeginClose, CloseIsOrdered
      <4>2. \A c \in Conns : conn'[c].at # "free" => conn'[c].revoked
        <5> SUFFICES ASSUME NEW c \in Conns, conn'[c].at # "free" PROVE conn'[c].revoked
          OBVIOUS
        <5>1. conn[c].at \in {"admitted", "serving", "leaving"}
          BY <2>0, Here, ConnectionFields
        <5>2. conn[c].installed \/ conn[c].revoked
          BY <5>1 DEF ConnectionsAreWellFormed
        <5> QED BY <2>0, <3>2, <5>2
      <4>3. \A c \in Conns : ~Drained(c) => c \in drains'
        BY <2>0, <3>2, ConnectionFields
           DEF ConnectionsAreWellFormed, Drained, MutationInFlight, DeliveryInFlight, TypeOK
      <4>4. \A c \in Conns : Drained(c)' <=> Drained(c)
        BY <2>0
      <4> QED BY <4>1, <4>2, <4>3, <4>4 DEF CloseIsOrdered
    <3>3. CASE tab = "absent"
      <4>1. conn' = conn /\ tab' = "absent" /\ closing' = "return" /\ runtime' = runtime /\ runtime = "closed"
        BY <1>2, <3>3 DEF Unregister, BeginClose, CloseIsOrdered
      <4>2. \A c \in Conns : Drained(c)' <=> Drained(c)
        BY <2>0
      <4> QED BY <3>3, <4>1, <4>2 DEF CloseIsOrdered
    <3> QED BY <3>1, <3>2, <3>3
  <2>4. RevocationIsOrdered'
    <3>1. /\ UNCHANGED <<session, connect, revoke, lease>>
          /\ \A d \in Devices : tickets'[d] = 0
      BY <1>2 DEF Unregister
    <3>2. \A c \in Conns : /\ conn'[c].device = conn[c].device
                           /\ conn[c].revoked => conn'[c].revoked
                           /\ Drained(c)' <=> Drained(c)
      BY <2>0
    <3>3. \A d \in Devices : (CutOff(d) => CutOff(d)') /\ (Silent(d) => Silent(d)')
      BY <3>1, <3>2 DEF CutOff, Silent
    <3> QED BY <3>1, <3>2, <3>3 DEF RevocationIsOrdered
  <2> QED BY <2>0, <2>1, <2>2, <2>3, <2>4
<1>3. CASE CloseRuntime
  <2>0. conn' = conn /\ ConnectionsAreWellFormed' /\ \A c \in Conns : Drained(c)' <=> Drained(c)
    BY <1>3, SameConnections DEF CloseRuntime
  <2>1. TypeOK'
    BY <1>3 DEF CloseRuntime, TypeOK
  <2>2. LocksAreHeld'
    BY <1>3 DEF CloseRuntime, LocksAreHeld
  <2>3. CloseIsOrdered'
    BY <1>3, <2>0 DEF CloseRuntime, CloseIsOrdered
  <2>4. RevocationIsOrdered'
    BY <1>3, <2>0 DEF CloseRuntime, RevocationIsOrdered, CutOff, Silent
  <2> QED BY <2>0, <2>1, <2>2, <2>3, <2>4
<1>4. CASE CloseReturns
  <2>0. conn' = conn /\ ConnectionsAreWellFormed' /\ \A c \in Conns : Drained(c)' <=> Drained(c)
    BY <1>4, SameConnections DEF CloseReturns
  <2>1. TypeOK'
    BY <1>4 DEF CloseReturns, TypeOK
  <2>2. LocksAreHeld'
    <3>1. workspace = "close" /\ workspace' = None /\ closing' = "idle" /\ None # "close"
      BY <1>4, TerminalAssumption DEF CloseReturns, LocksAreHeld
    <3>2. \A d \in Devices : d # None /\ d # "close"
      BY Holders
    <3> QED BY <1>4, <3>1, <3>2 DEF CloseReturns, LocksAreHeld
  <2>3. CloseIsOrdered'
    BY <1>4, <2>0 DEF CloseReturns, CloseIsOrdered
  <2>4. RevocationIsOrdered'
    BY <1>4, <2>0 DEF CloseReturns, RevocationIsOrdered, CutOff, Silent
  <2> QED BY <2>0, <2>1, <2>2, <2>3, <2>4
<1> QED BY <1>1, <1>2, <1>3, <1>4 DEF Closing

-----------------------------------------------------------------------------
(* The theorems *)

LEMMA InitialAccess == Init => AccessInvariant
<1> SUFFICES ASSUME Init PROVE AccessInvariant
  OBVIOUS
<1>1. \A c \in Conns : conn[c] = Free /\ Drained(c)
  BY FreeConnection DEF Init, Drained, MutationInFlight, DeliveryInFlight
<1>2. TypeOK
  <2>1. conn \in [Conns -> Connection]
    BY FreeConnection DEF Init
  <2>2. revoke \in [Devices -> [pc : {"idle", "commit", "sweep", "drain"}, drains : SUBSET Conns,
                            done : BOOLEAN]]
    BY DEF Init, NoRevoke
  <2>3. session \in [Devices -> BOOLEAN] /\ running \in BOOLEAN
    BY DEF Init
  <2>4. /\ admission \in [Devices -> {"connect", "revoke", None}]
        /\ connect \in [Devices -> {"idle", "authenticated", "locked", "validated"}]
        /\ tickets \in [Devices -> Nat] /\ subscribers \in Int /\ byDevice \in [Devices -> Int]
    BY DEF Init
  <2> QED BY <2>1, <2>2, <2>3, <2>4 DEF Init, TypeOK
<1>3. LocksAreHeld
  BY Holders, TerminalAssumption DEF Init, LocksAreHeld, NoRevoke
<1>4. ConnectionsAreWellFormed
  BY <1>1, FreeConnection DEF ConnectionsAreWellFormed
<1>5. CloseIsOrdered
  BY <1>1, FreeConnection DEF Init, CloseIsOrdered
<1>6. RevocationIsOrdered
  BY DEF Init, RevocationIsOrdered, NoRevoke
<1> QED BY <1>2, <1>3, <1>4, <1>5, <1>6 DEF AccessInvariant

LEMMA NextKeepsAccess ==
    ASSUME AccessInvariant, [Next]_vars
    PROVE  AccessInvariant'
<1>1. ASSUME NEW d \in Devices, Connecting(d) \/ Revoking(d) \/ TicketExpires(d) \/ Refuse(d)
      PROVE  AccessInvariant'
  BY <1>1, ConnectingStep, RevokingStep, SpentTicketStep
<1>2. ASSUME NEW c \in Conns, NEW d \in Devices, Admit(c, d)
      PROVE  AccessInvariant'
  BY <1>2, AdmitStep
<1>3. ASSUME NEW c \in Conns,
             Handler(c) \/ Handling(c) \/ Reading(c) \/ Writing(c) \/ Overflow(c)
      PROVE  AccessInvariant'
  BY <1>3, AcceptStep, UnsubscribeStep, ReleaseStep, HandlingStep, ReadingStep, WritingStep,
     OverflowStep DEF Handler
<1>4. CASE UNCHANGED vars
  <2>1. ConnectionsAreWellFormed' /\ \A c \in Conns : Drained(c)' <=> Drained(c)
    BY <1>4, SameConnections DEF vars
  <2>2. TypeOK' /\ LocksAreHeld'
    BY <1>4 DEF AccessInvariant, TypeOK, LocksAreHeld, vars, app, manager
  <2>3. CloseIsOrdered' /\ RevocationIsOrdered'
    BY <1>4, <2>1 DEF AccessInvariant, CloseIsOrdered, RevocationIsOrdered, CutOff, Silent, vars, app, manager
  <2> QED BY <2>1, <2>2, <2>3 DEF AccessInvariant
<1> QED BY <1>1, <1>2, <1>3, <1>4, ClosingStep, LeaseExpiresStep DEF Next

\* Locks, connections, the close and the revocation stay in step with each other
\* under every interleaving (gateway.go:434-475 and 689-712).
THEOREM AccessIsOrderly == Spec => []AccessInvariant
<1>1. AccessInvariant /\ [Next]_vars => AccessInvariant'
  BY NextKeepsAccess
<1> QED BY InitialAccess, <1>1, PTL DEF Spec

\* Every variable keeps its type.
THEOREM TypeCorrect == Spec => []TypeOK
<1>1. AccessInvariant => TypeOK
  BY DEF AccessInvariant
<1> QED BY AccessIsOrderly, <1>1, PTL

\* After a revocation has returned success, nothing of the device is in flight, and
\* it has neither a ticket nor the lease, for good (Manager.RevokeDevice).
THEOREM RevocationIsFinal == Spec => []RevokedIsSilent
<1>1. AccessInvariant => RevokedIsSilent
  BY DEF AccessInvariant, RevocationIsOrdered, RevokedIsSilent
<1> QED BY AccessIsOrderly, <1>1, PTL

\* No frame is applied to a runtime that has been closed (Manager.Unregister).
THEOREM RuntimeOutlivesMutations == Spec => []MutationHasRuntime
<1>1. AccessInvariant => MutationHasRuntime
  BY DEF AccessInvariant, CloseIsOrdered, MutationHasRuntime, Drained, TypeOK
<1> QED BY AccessIsOrderly, <1>1, PTL

-----------------------------------------------------------------------------
(* The admission counts *)

Occupied == {c \in Conns : conn[c].at # "free"}
OfDevice(d) == {c \in Conns : conn[c].device = d}

LEMMA CountedSetsAreFinite ==
    IsFiniteSet(Occupied) /\ \A d \in Devices : IsFiniteSet(OfDevice(d))
BY TerminalAssumption, FS_Subset DEF Occupied, OfDevice

\* Only admission and release change whose connection a slot is, or a count.
LEMMA OnlyAdmissionCounts ==
    ASSUME AccessInvariant, [Next]_vars,
           \A c \in Conns : ~Release(c) /\ \A d \in Devices : ~Admit(c, d)
    PROVE  /\ \A c \in Conns : conn'[c].device = conn[c].device
           /\ UNCHANGED <<subscribers, byDevice>>
<1> USE DEF manager
<1>0. conn \in [Conns -> Connection]
  BY DEF AccessInvariant, TypeOK
<1>1. ASSUME NEW C, Mark(C) PROVE \A c \in Conns : conn'[c].device = conn[c].device
  BY <1>0, <1>1, MarkFacts
<1>2. ASSUME NEW d \in Devices, Connecting(d) \/ TicketExpires(d) \/ Refuse(d)
      PROVE  conn' = conn /\ UNCHANGED <<subscribers, byDevice>>
  BY <1>2 DEF Connecting, Authenticate, ConnectLock, ConnectGate, ConnectReturns, TicketExpires, Refuse
<1>3. ASSUME NEW d \in Devices, Revoking(d)
      PROVE  /\ \A c \in Conns : conn'[c].device = conn[c].device
             /\ UNCHANGED <<subscribers, byDevice>>
  BY <1>1, <1>3 DEF Revoking, RevokeGate, RevokeSession, Sweep, RevokeReturns
<1>4. ASSUME NEW c \in Conns, Accept(c) \/ Unsubscribe(c) \/ Handling(c) \/ Reading(c)
      PROVE  /\ \A x \in Conns : conn'[x].device = conn[x].device
             /\ UNCHANGED <<subscribers, byDevice>>
  <2>1. UNCHANGED <<subscribers, byDevice>>
    BY <1>4 DEF Accept, Unsubscribe, Handling, ApplyFrame, SendFails, Reading, ReadFails, ReadFrame
  <2>2. CASE Accept(c) \/ Unsubscribe(c)
    <3>1. conn'[c].device = conn[c].device
      <4>1. CASE Accept(c)
        <5>1. PICK ok \in BOOLEAN :
                conn'[c] = [conn[c] EXCEPT !.at = "serving",
                              !.reader = IF ok THEN "read" ELSE "done",
                              !.writer = IF ok THEN "idle" ELSE "done"]
          BY <1>0, <4>1 DEF Accept
        <5> QED BY <1>0, <5>1 DEF Connection
      <4>2. CASE Unsubscribe(c)
        BY <1>0, <4>2 DEF Unsubscribe, Connection
      <4> QED BY <2>2, <4>1, <4>2
    <3>2. \A x \in Conns : x # c => conn'[x] = conn[x]
      BY <1>0, <2>2 DEF Accept, Unsubscribe
    <3> QED BY <2>1, <3>1, <3>2
  <2>3. CASE NextFrame(c) \/ ReaderFails(c) \/ \E at \in {"apply", "send"} : Reader(c, at)
    BY <1>0, <2>1, <2>3 DEF NextFrame, ReaderFails, Reader, Connection
  <2> QED BY <1>4, <2>2, <2>3 DEF Handling, ApplyFrame, SendFails, Reading, ReadFails, ReadFrame
<1>5. ASSUME NEW c \in Conns, Writing(c)
      PROVE  /\ \A x \in Conns : conn'[x].device = conn[x].device
             /\ UNCHANGED <<subscribers, byDevice>>
  <2>1. UNCHANGED <<subscribers, byDevice>>
    BY <1>5 DEF Writing, TakeFrame, TakeResponse, Written, WriterLeaves
  <2>2. CASE TakeFrame(c)
    BY <1>0, <2>1, <2>2 DEF TakeFrame, WriterExits, Connection
  <2>3. CASE TakeResponse(c)
    BY <1>0, <2>1, <2>3 DEF TakeResponse, Connection
  <2>4. CASE Written(c)
    BY <1>0, <2>1, <2>4 DEF Written, Connection
  <2>5. CASE WriterLeaves(c)
    BY <1>0, <2>1, <2>5 DEF WriterLeaves, WriterExits, Connection
  <2> QED BY <1>5, <2>2, <2>3, <2>4, <2>5 DEF Writing
<1>6. ASSUME NEW c \in Conns, Overflow(c)
      PROVE  /\ \A x \in Conns : conn'[x].device = conn[x].device
             /\ UNCHANGED <<subscribers, byDevice>>
  BY <1>1, <1>6 DEF Overflow
<1>7. CASE Closing
  BY <1>1, <1>7 DEF Closing, CloseLock, Unregister, BeginClose, CloseRuntime, CloseReturns
<1>8. CASE LeaseExpires \/ UNCHANGED vars
  BY <1>8 DEF LeaseExpires, vars
<1> QED BY <1>2, <1>3, <1>4, <1>5, <1>6, <1>7, <1>8 DEF Next, Handler

LEMMA NextKeepsCounts ==
    ASSUME AccessInvariant, CountsAreExact, [Next]_vars
    PROVE  CountsAreExact'
<1>0. AccessInvariant'
  BY NextKeepsAccess
<1>1. /\ \A c \in Conns : conn[c].at = "free" <=> conn[c].device = None
      /\ \A c \in Conns : conn'[c].at = "free" <=> conn'[c].device = None
      /\ conn \in [Conns -> Connection]
  BY <1>0 DEF AccessInvariant, ConnectionsAreWellFormed, TypeOK
<1>2. CASE \A c \in Conns : ~Release(c) /\ \A d \in Devices : ~Admit(c, d)
  <2>1. Occupied' = Occupied /\ \A d \in Devices : OfDevice(d)' = OfDevice(d)
    BY <1>1, <1>2, OnlyAdmissionCounts DEF Occupied, OfDevice
  <2> QED BY <1>2, <2>1, OnlyAdmissionCounts DEF CountsAreExact, Occupied, OfDevice
<1>3. ASSUME NEW c \in Conns, NEW d \in Devices, Admit(c, d)
      PROVE  CountsAreExact'
  <2>1. /\ conn[c].at = "free" /\ conn[c].device = None /\ HasRoom(d)
        /\ conn'[c].at = "admitted" /\ conn'[c].device = d
        /\ \A x \in Conns : x # c => conn'[x] = conn[x]
        /\ subscribers' = subscribers + 1 /\ byDevice' = [byDevice EXCEPT ![d] = byDevice[d] + 1]
    BY <1>1, <1>3, FreeConnection DEF Admit, Connection
  <2>2. /\ Occupied' = Occupied \cup {c} /\ c \notin Occupied
        /\ OfDevice(d)' = OfDevice(d) \cup {c} /\ c \notin OfDevice(d)
        /\ \A e \in Devices : e # d => OfDevice(e)' = OfDevice(e)
    BY <2>1, Holders DEF Occupied, OfDevice
  <2>3. /\ Cardinality(Occupied') = Cardinality(Occupied) + 1
        /\ Cardinality(OfDevice(d)') = Cardinality(OfDevice(d)) + 1
    BY <2>2, CountedSetsAreFinite, FS_AddElement
  <2>4. Cardinality(Occupied) \in Nat /\ \A e \in Devices : Cardinality(OfDevice(e)) \in Nat
    BY CountedSetsAreFinite, FS_CardinalityType
  <2>5. /\ subscribers = Cardinality(Occupied) /\ subscribers < MaxSubscribers
        /\ \A e \in Devices : byDevice[e] = Cardinality(OfDevice(e)) /\ byDevice[e] <= MaxDeviceSubscribers
        /\ byDevice[d] < MaxDeviceSubscribers /\ byDevice \in [Devices -> Int]
    BY <2>1 DEF CountsAreExact, HasRoom, Occupied, OfDevice, AccessInvariant, TypeOK
  <2>6. subscribers' = Cardinality(Occupied') /\ subscribers' <= MaxSubscribers
    BY <2>1, <2>3, <2>4, <2>5, TerminalAssumption
  <2>7. ASSUME NEW e \in Devices
        PROVE  byDevice'[e] = Cardinality(OfDevice(e)') /\ byDevice'[e] <= MaxDeviceSubscribers
    <3>1. CASE e = d
      BY <2>1, <2>3, <2>4, <2>5, <3>1, TerminalAssumption
    <3>2. CASE e # d
      BY <2>1, <2>2, <2>5, <3>2
    <3> QED BY <3>1, <3>2
  <2> QED BY <2>6, <2>7 DEF CountsAreExact, Occupied, OfDevice
<1>4. ASSUME NEW c \in Conns, Release(c)
      PROVE  CountsAreExact'
  <2>0. conn[c].at # "free"
    BY <1>4 DEF Release
  <2>d. PICK d \in Devices : conn[c].device = d
    BY <1>1, <2>0, ConnectionFields
  <2>1. /\ conn[c].at # "free" /\ conn[c].device = d
        /\ conn'[c].at = "free" /\ conn'[c].device = None
        /\ \A x \in Conns : x # c => conn'[x] = conn[x]
        /\ subscribers' = subscribers - 1 /\ byDevice' = [byDevice EXCEPT ![d] = byDevice[d] - 1]
    BY <1>1, <1>4, <2>0, <2>d, FreeConnection DEF Release
  <2>2. /\ Occupied' = Occupied \ {c} /\ c \in Occupied
        /\ OfDevice(d)' = OfDevice(d) \ {c} /\ c \in OfDevice(d)
        /\ \A e \in Devices : e # d => OfDevice(e)' = OfDevice(e)
    BY <2>1, Holders DEF Occupied, OfDevice
  <2>3. /\ Cardinality(Occupied') = Cardinality(Occupied) - 1
        /\ Cardinality(OfDevice(d)') = Cardinality(OfDevice(d)) - 1
    BY <2>1, <2>2, CountedSetsAreFinite, FS_RemoveElement, ZenonT(60)
  <2>4. Cardinality(Occupied) \in Nat /\ \A e \in Devices : Cardinality(OfDevice(e)) \in Nat
    BY CountedSetsAreFinite, FS_CardinalityType
  <2>5. /\ subscribers = Cardinality(Occupied) /\ subscribers <= MaxSubscribers
        /\ \A e \in Devices : byDevice[e] = Cardinality(OfDevice(e)) /\ byDevice[e] <= MaxDeviceSubscribers
        /\ byDevice \in [Devices -> Int]
    BY DEF CountsAreExact, Occupied, OfDevice, AccessInvariant, TypeOK
  <2>6. subscribers' = Cardinality(Occupied') /\ subscribers' <= MaxSubscribers
    BY <2>1, <2>3, <2>4, <2>5, TerminalAssumption
  <2>7. ASSUME NEW e \in Devices
        PROVE  byDevice'[e] = Cardinality(OfDevice(e)') /\ byDevice'[e] <= MaxDeviceSubscribers
    <3>1. CASE e = d
      BY <2>1, <2>3, <2>4, <2>5, <3>1, TerminalAssumption
    <3>2. CASE e # d
      BY <2>1, <2>2, <2>5, <3>2
    <3> QED BY <3>1, <3>2
  <2> QED BY <2>6, <2>7 DEF CountsAreExact, Occupied, OfDevice
<1> QED BY <1>2, <1>3, <1>4

\* The counts the limits are checked against are the connections that exist, so
\* the limits hold and releaseSubscriberLocked never panics (capacity.go:67-92).
THEOREM LimitsHold == Spec => []CountsAreExact
<1>1. Init => CountsAreExact
  <2> SUFFICES ASSUME Init PROVE CountsAreExact
    OBVIOUS
  <2>1. Occupied = {} /\ \A d \in Devices : OfDevice(d) = {}
    BY FreeConnection, Holders DEF Init, Occupied, OfDevice
  <2>2. Cardinality(Occupied) = 0 /\ \A d \in Devices : Cardinality(OfDevice(d)) = 0
    BY <2>1, FS_EmptySet
  <2> QED BY <2>2, TerminalAssumption DEF Init, CountsAreExact, Occupied, OfDevice
<1>2. AccessInvariant /\ CountsAreExact /\ [Next]_vars => CountsAreExact'
  BY NextKeepsCounts
<1> QED BY AccessIsOrderly, <1>1, <1>2, PTL DEF Spec
=============================================================================
