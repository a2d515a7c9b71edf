--------------------------- MODULE TerminalReplay ---------------------------
(***************************************************************************)
(* Output of a terminal tab as one client sees it: the replay ring         *)
(* (internal/terminal/replay.go), the bounded queue of a subscriber and    *)
(* the replay a reconnecting client gets (gateway.go), over several        *)
(* gateway generations.  The client is the one the protocol describes      *)
(* (packages/api-contract/terminal-v1.md) and TerminalSessionModel.swift   *)
(* implements: it remembers the last sequence it has shown, asks for what  *)
(* follows, and resets its view at a gap marker.                           *)
(***************************************************************************)
EXTENDS Integers, Sequences

CONSTANTS
    RingFrames,     \* terminalReplayMaxFrames
    QueueFrames,    \* terminalSubscriberQueueFrames
    MaxOutput,      \* bound: output frames of one generation
    MaxGenerations  \* bound: times the tab is registered

ASSUME ReplayAssumption ==
    /\ RingFrames \in Nat \ {0} /\ QueueFrames \in Nat
    /\ MaxOutput \in Nat /\ MaxGenerations \in Nat \ {0}

VARIABLES
    generation,  \* registrations of the tab so far
    next,        \* Ring.next
    kept,        \* frames in the ring; the latest has sequence next - 1
    viewer,      \* the client: its cursor, the generations its view stems from
    ticket,      \* afterSequence of an unused ticket
    stream       \* the subscriber: frames of the initial replay, and its queue

replayVars == <<generation, next, kept, viewer, ticket, stream>>

NoTicket == -1
NoStream == [up |-> FALSE, initial |-> <<>>, queue |-> <<>>]
Frames == [kind : {"output", "gap", "other"}, sequence : Nat, generation : 1..MaxGenerations]
Frame(kind, sequence) ==
    [kind |-> kind, sequence |-> sequence, generation |-> generation]

-----------------------------------------------------------------------------
(* Ring *)

Earliest == next - kept
Latest == next - 1

\* The retained frames after a sequence, in order.
Retained(after) ==
    LET first == IF after + 1 > Earliest THEN after + 1 ELSE Earliest
    IN [i \in 1..(next - first) |-> Frame("output", first + i - 1)]

\* Mutant: a cursor just before the retained window counts as inside it.
AfterMutant(sequence) ==
    LET gap == IF kept = 0 THEN sequence > Latest
               ELSE sequence + 2 < Earliest \/ sequence > Latest
    IN IF gap THEN <<Frame("gap", Earliest)>> \o Retained(Earliest - 1) ELSE Retained(sequence)

\* Ring.After and the initial frames of ServeHTTP: the cursor is inside the
\* retained window, or a gap marker precedes the whole window.  An empty ring
\* announces a gap only to a cursor from another generation.
After(sequence) ==
    LET gap == IF kept = 0 THEN sequence > Latest
               ELSE sequence < Earliest - 1 \/ sequence > Latest
    IN IF gap THEN <<Frame("gap", Earliest)>> \o Retained(Earliest - 1) ELSE Retained(sequence)

\* broadcastLocked: a subscriber that cannot take the frame is closed, and its
\* delivery gate lets nothing more out.
Broadcast(frame) ==
    stream' = IF ~stream.up THEN stream
              ELSE IF Len(stream.queue) < QueueFrames
                THEN [stream EXCEPT !.queue = Append(@, frame)]
                ELSE NoStream

\* Ring.Append and appendOutput under the tab's mutex.  How many frames stay
\* depends on their bytes; the newest always does.
Output ==
    /\ next <= MaxOutput
    /\ \E n \in 1..(kept + 1) : n <= RingFrames /\ kept' = n
    /\ next' = next + 1
    /\ Broadcast(Frame("output", next))
    /\ UNCHANGED <<generation, viewer, ticket>>

\* Manager.Notify, and the lease frames: they take room in the queue but are
\* not retained.
Notify ==
    /\ stream.up
    /\ Broadcast(Frame("other", 0))
    /\ UNCHANGED <<generation, next, kept, viewer, ticket>>

\* Register after a restart of the process, or after the tab was closed.
NewGeneration ==
    /\ generation < MaxGenerations
    /\ generation' = generation + 1 /\ next' = 1 /\ kept' = 0
    /\ ticket' = NoTicket /\ stream' = NoStream
    /\ UNCHANGED viewer

-----------------------------------------------------------------------------
(* The client *)

\* Issue with the client's cursor.
RequestTicket ==
    /\ ~stream.up
    /\ ticket' = viewer.cursor
    /\ UNCHANGED <<generation, next, kept, viewer, stream>>

\* admit: the replay is cut and the subscriber installed under one lock.
Subscribe ==
    /\ ticket # NoTicket
    /\ stream' = [up |-> TRUE, initial |-> After(ticket), queue |-> <<>>]
    /\ ticket' = NoTicket
    /\ UNCHANGED <<generation, next, kept, viewer>>

Pending == stream.initial \o stream.queue

\* What the client does with a frame: show it, reset at a gap, ignore what it
\* has already shown, and hang up when something is missing.
Show(frame) ==
    \/ /\ frame.kind = "gap"
       /\ viewer' = [cursor |-> frame.sequence - 1, stems |-> {}]
    \/ /\ frame.kind = "output" /\ frame.sequence = viewer.cursor + 1
       /\ viewer' = [cursor |-> frame.sequence, stems |-> viewer.stems \cup {frame.generation}]
    \/ /\ frame.kind # "gap"
       /\ frame.kind = "output" => frame.sequence <= viewer.cursor
       /\ UNCHANGED viewer

Receive ==
    /\ stream.up /\ Pending # <<>>
    /\ Show(Head(Pending))
    /\ stream' = IF stream.initial # <<>>
                   THEN [stream EXCEPT !.initial = Tail(@)]
                   ELSE [stream EXCEPT !.queue = Tail(@)]
    /\ UNCHANGED <<generation, next, kept, ticket>>

Disconnect ==
    /\ stream.up
    /\ stream' = NoStream
    /\ UNCHANGED <<generation, next, kept, viewer, ticket>>

-----------------------------------------------------------------------------
ReplayInit ==
    /\ generation = 1 /\ next = 1 /\ kept = 0
    /\ viewer = [cursor |-> 0, stems |-> {}]
    /\ ticket = NoTicket /\ stream = NoStream

ReplayNext ==
    \/ Output \/ Notify \/ NewGeneration
    \/ RequestTicket \/ Subscribe \/ Receive \/ Disconnect

ReplaySpec == ReplayInit /\ [][ReplayNext]_replayVars

-----------------------------------------------------------------------------
(* Properties *)

ReplayTypeOK ==
    /\ generation \in 1..MaxGenerations /\ next \in 1..(MaxOutput + 1)
    /\ kept \in 0..RingFrames /\ kept < next
    /\ viewer \in [cursor : 0..MaxOutput, stems : SUBSET (1..MaxGenerations)]
    /\ ticket \in {NoTicket} \cup 0..MaxOutput
    /\ stream \in [up : BOOLEAN, initial : Seq(Frames), queue : Seq(Frames)]
    /\ Len(stream.queue) <= QueueFrames

(* A connected client never meets a hole: each output frame it gets is the    *)
(* next one or an old one, whatever was evicted, overflowed or restarted; and *)
(* when it has read all that is on its way it has the latest output           *)
(* (Ring.After, subscribe and broadcastLocked).                               *)
ReplayIsComplete ==
    stream.up =>
        /\ Pending # <<>> /\ Head(Pending).kind = "output"
             => Head(Pending).sequence <= viewer.cursor + 1
        /\ Pending = <<>> => viewer.cursor = Latest

(* What keeps it: from where the client is, or will be after the gap marker   *)
(* at the head, every output up to the latest is on its way, once and in      *)
(* order; and a ticket is for the cursor its client still has.                *)
Start(p, cursor) == IF Len(p) > 0 /\ p[1].kind = "gap" THEN p[1].sequence - 1 ELSE cursor
Unbroken(p, cursor, latest) ==
    LET start == Start(p, cursor) IN
    /\ start \in 0..latest
    /\ \A i \in 1..Len(p) :
        /\ p[i].kind = "gap" => i = 1
        /\ p[i].kind = "output" => p[i].sequence \in start + 1 .. latest
    /\ \A i, j \in 1..Len(p) :
        i < j /\ p[i].kind = "output" /\ p[j].kind = "output" => p[i].sequence < p[j].sequence
    /\ \A s \in start + 1 .. latest :
        \E i \in 1..Len(p) : p[i].kind = "output" /\ p[i].sequence = s
ReplayInvariant ==
    /\ ReplayTypeOK
    /\ kept = 0 => next = 1
    /\ ticket # NoTicket => ~stream.up /\ ticket = viewer.cursor
    /\ stream.up => Unbroken(Pending, viewer.cursor, Latest)

(* A client that has read everything shows the output of one generation: a    *)
(* replay "never silently pretends a truncated replay is complete"            *)
(* (terminal-v1.md:52).                                                       *)
ViewIsOneGeneration ==
    stream.up /\ Pending = <<>> => viewer.stems \subseteq {generation}
=============================================================================
