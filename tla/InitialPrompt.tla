--------------------------- MODULE InitialPrompt ---------------------------
(***************************************************************************)
(* Delivery of a workspace's initial prompt through the PTY of a Codex tab *)
(* (internal/coder/pty.go, startTerminalRuntime in                         *)
(* internal/application/terminals.go, the stored prompt in                 *)
(* internal/postgres/application_state.go).                                *)
(*                                                                         *)
(* A runtime dials Coder again whenever its socket breaks.  The prompt is  *)
(* written only to a socket on which the child has produced output and     *)
(* which has stayed the current one for a settle interval; then the stored *)
(* prompt is marked delivered.                                             *)
(***************************************************************************)
EXTENDS Integers, FiniteSets

CONSTANTS
    CodexTabs,   \* tabs of kind codex
    MaxDials,    \* bound: sockets one runtime opens
    MaxPrompts   \* bound: writes of the prompt

ASSUME PromptAssumption == MaxDials \in Nat /\ MaxPrompts \in Nat

VARIABLES
    stored,   \* the prompt is stored and not marked delivered
    pty,      \* the runtime of each tab
    marks,    \* delivered callbacks that have not reached the store
    prompts   \* history: writes of the prompt to a PTY

promptVars == <<stored, pty, marks, prompts>>

(* A runtime: its current socket (0 while it reconnects), the sockets it has  *)
(* opened, its copy of the prompt, the socket that armed the delivery, the    *)
(* settle timers, the deliveries under way and the closed sockets.  Three are *)
(* history: the sockets with output, those written to, the reported failures. *)
Off == [on |-> FALSE, socket |-> 0, dials |-> 0, copy |-> FALSE, ready |-> 0,
        timers |-> {}, sending |-> {}, dead |-> {}, rendered |-> {}, wrote |-> {}, failed |-> 0]

Sockets(t) == 1..pty[t].dials
\* A delivery that failed disarms its socket and closes it; the reader notices
\* later, and what it still reads may arm the dead socket again.
AbandonPrompt(r, s) == [r EXCEPT !.ready = IF @ = s THEN 0 ELSE @, !.dead = @ \cup {s}]

\* startTerminalRuntime loads the stored prompt for every Codex tab.
StartRuntime(t) ==
    /\ ~pty[t].on
    /\ pty' = [pty EXCEPT ![t] = [Off EXCEPT !.on = TRUE, !.copy = stored]]
    /\ UNCHANGED <<stored, marks, prompts>>

\* PTYRuntime.run: dial, and dial again with a delay.
Dial(t) ==
    /\ pty[t].on /\ pty[t].socket = 0 /\ pty[t].dials < MaxDials
    /\ pty' = [pty EXCEPT ![t].socket = pty[t].dials + 1, ![t].dials = @ + 1]
    /\ UNCHANGED <<stored, marks, prompts>>

LoseSocket(t) ==
    /\ pty[t].socket # 0
    /\ pty' = [pty EXCEPT ![t].socket = 0, ![t].ready = IF @ = pty[t].socket THEN 0 ELSE @]
    /\ UNCHANGED <<stored, marks, prompts>>

\* Output of the child; scheduleInitialPrompt arms one delivery per socket.
Render(t) ==
    LET s == pty[t].socket
        arms == pty[t].copy /\ pty[t].ready = 0
    IN
    /\ s # 0
    /\ pty' = [pty EXCEPT ![t].rendered = @ \cup {s},
                          ![t].ready = IF arms THEN s ELSE @,
                          ![t].timers = IF arms THEN @ \cup {s} ELSE @]
    /\ UNCHANGED <<stored, marks, prompts>>

\* The settle interval has passed: sendInitialPrompt looks whether the same
\* socket is still the current and the armed one, and closes it otherwise.
TerminalSettles(t) ==
    \E s \in pty[t].timers :
        LET r == [pty[t] EXCEPT !.timers = @ \ {s}] IN
        /\ pty' = [pty EXCEPT ![t] =
              IF ~r.copy THEN r
              ELSE IF r.socket = s /\ r.ready = s THEN [r EXCEPT !.sending = @ \cup {s}]
              ELSE AbandonPrompt(r, s)]
        /\ UNCHANGED <<stored, marks, prompts>>

\* Mutant: the prompt goes to whatever socket is current, as other input does.
WritePromptMutant(t) ==
    \E s \in pty[t].sending :
        /\ prompts < MaxPrompts /\ pty[t].socket # 0 /\ pty[t].copy
        /\ pty' = [pty EXCEPT ![t].sending = @ \ {s}, ![t].wrote = @ \cup {pty[t].socket},
                              ![t].copy = FALSE, ![t].ready = 0]
        /\ prompts' = prompts + 1 /\ marks' = marks + 1
        /\ UNCHANGED stored

\* serializedPTYWrite: behind the write gate the socket is checked once more.
\* The write succeeds; or it fails, perhaps after its effect, and the socket is
\* closed with the prompt still to be delivered.
WritePrompt(t) ==
    \E s \in pty[t].sending :
        LET r == [pty[t] EXCEPT !.sending = @ \ {s}]
            stillReady == r.socket = s /\ r.ready = s /\ r.copy
        IN
        /\ \/ /\ stillReady /\ s \notin r.dead /\ prompts < MaxPrompts
              /\ pty' = [pty EXCEPT ![t] =
                    [r EXCEPT !.wrote = @ \cup {s}, !.copy = FALSE, !.ready = 0]]
              /\ prompts' = prompts + 1 /\ marks' = marks + 1
           \/ /\ stillReady /\ s \notin r.dead /\ prompts < MaxPrompts
              /\ pty' = [pty EXCEPT ![t] =
                    [AbandonPrompt(r, s) EXCEPT !.wrote = @ \cup {s}, !.failed = @ + 1]]
              /\ prompts' = prompts + 1 /\ UNCHANGED marks
           \/ /\ pty' = [pty EXCEPT ![t] = AbandonPrompt(r, s)]
              /\ UNCHANGED <<prompts, marks>>
        /\ UNCHANGED stored

\* MarkWorkspaceInitialPromptDelivered; its error is ignored.
MarkDelivered ==
    /\ marks > 0
    /\ marks' = marks - 1
    /\ stored' \in {stored, FALSE}
    /\ UNCHANGED <<pty, prompts>>

\* PTYRuntime.Close: timers and writes of the runtime end with its context.
ClosePty(t) ==
    /\ pty[t].on
    /\ pty' = [pty EXCEPT ![t] = Off]
    /\ UNCHANGED <<stored, marks, prompts>>

-----------------------------------------------------------------------------
PromptInit ==
    /\ stored = TRUE /\ marks = 0 /\ prompts = 0
    /\ pty = [t \in CodexTabs |-> Off]

PromptNext ==
    \/ \E t \in CodexTabs :
        \/ StartRuntime(t) \/ Dial(t) \/ LoseSocket(t) \/ Render(t)
        \/ TerminalSettles(t) \/ WritePrompt(t) \/ ClosePty(t)
    \/ MarkDelivered

PromptSpec == PromptInit /\ [][PromptNext]_promptVars

-----------------------------------------------------------------------------
(* Properties *)

PromptTypeOK ==
    /\ stored \in BOOLEAN /\ prompts \in 0..MaxPrompts /\ marks \in 0..prompts
    /\ \A t \in CodexTabs :
        /\ pty[t].on \in BOOLEAN /\ pty[t].copy \in BOOLEAN
        /\ pty[t].socket \in {0} \cup Sockets(t) /\ pty[t].ready \in {0} \cup Sockets(t)
        /\ pty[t].timers \cup pty[t].sending \cup pty[t].dead \cup pty[t].rendered \cup pty[t].wrote
             \subseteq Sockets(t)

(* One runtime writes the prompt to one socket, on which the child had spoken,*)
(* and to another only after a write that reported a failure: a delivery      *)
(* armed for a socket that broke meanwhile does not reach its replacement,    *)
(* nor does a second timer repeat it (scheduleInitialPrompt and               *)
(* sendInitialPrompt, pty.go:178-256).                                        *)
PromptIsGated ==
    \A t \in CodexTabs :
        /\ pty[t].wrote \subseteq pty[t].rendered
        /\ Cardinality(pty[t].wrote) <= pty[t].failed + (IF pty[t].copy THEN 0 ELSE 1)

(* What keeps it: a delivery is armed only by a socket with output.           *)
PtyRecord == [on : BOOLEAN, socket : Nat, dials : Nat, copy : BOOLEAN, ready : Nat,
              timers : SUBSET (Nat \ {0}), sending : SUBSET (Nat \ {0}), dead : SUBSET Nat,
              rendered : SUBSET Nat, wrote : SUBSET Nat, failed : Nat]
GatedPty(r) ==
    /\ r.ready # 0 => r.ready \in r.rendered
    /\ IsFiniteSet(r.wrote) /\ r.wrote \subseteq r.rendered
    /\ Cardinality(r.wrote) <= r.failed + (IF r.copy THEN 0 ELSE 1)
PromptInvariant ==
    /\ stored \in BOOLEAN /\ pty \in [CodexTabs -> PtyRecord]
    /\ \A t \in CodexTabs : GatedPty(pty[t])

(* "... the one-shot write" (docs/adr/0003-terminal-and-codex-events.md:39):  *)
(* the prompt reaches a Codex child once.                                     *)
PromptIsOneShot == prompts <= 1
=============================================================================
