--------------------------- MODULE StreamsProofs ---------------------------
(***************************************************************************)
(* Proofs about what a terminal tab carries: the initial prompt            *)
(* (InitialPrompt), output and its replay (TerminalReplay), and composer   *)
(* input with its receipts (TerminalInput), for any number of tabs,        *)
(* connections, drafts and frames and for any sizes of ring and queue.     *)
(***************************************************************************)
EXTENDS InitialPrompt, TerminalReplay, TerminalInput, TLAPS, FiniteSetTheorems, SequenceTheorems

-----------------------------------------------------------------------------
(* InitialPrompt *)

\* A step of one runtime.
LEMMA OnePtyKeepsPrompt ==
    ASSUME PromptInvariant, NEW t \in CodexTabs, NEW r \in PtyRecord, GatedPty(r),
           pty' = [pty EXCEPT ![t] = r], stored' \in BOOLEAN
    PROVE  PromptInvariant'
<1>1. pty' \in [CodexTabs -> PtyRecord] /\ pty'[t] = r /\ \A u \in CodexTabs \ {t} : pty'[u] = pty[u]
  BY DEF PromptInvariant
<1>2. \A u \in CodexTabs : GatedPty(pty[u])'
  BY <1>1 DEF PromptInvariant, GatedPty
<1> QED BY <1>1, <1>2 DEF PromptInvariant

LEMMA OffIsGated == Off \in PtyRecord /\ GatedPty(Off)
BY FS_EmptySet DEF Off, PtyRecord, GatedPty

\* The runtime starts, dials, loses its socket and is closed.
LEMMA SocketsKeepPrompt ==
    ASSUME PromptInvariant, NEW t \in CodexTabs,
           StartRuntime(t) \/ Dial(t) \/ LoseSocket(t) \/ ClosePty(t)
    PROVE  PromptInvariant'
<1>0. pty[t] \in PtyRecord /\ GatedPty(pty[t]) /\ stored \in BOOLEAN /\ pty \in [CodexTabs -> PtyRecord]
  BY DEF PromptInvariant
<1>1. CASE StartRuntime(t)
  <2> DEFINE r == [Off EXCEPT !.on = TRUE, !.copy = stored]
  <2>1. r \in PtyRecord /\ r.ready = 0 /\ r.wrote = {} /\ r.rendered = {} /\ r.failed = 0
    BY <1>0 DEF Off, PtyRecord
  <2>2. pty' = [pty EXCEPT ![t] = r] /\ UNCHANGED stored
    BY <1>1, Zenon DEF StartRuntime
  <2> HIDE DEF r
  <2>3. GatedPty(r)
    BY <2>1, FS_EmptySet DEF GatedPty
  <2> QED BY <1>0, <2>1, <2>2, <2>3, OnePtyKeepsPrompt
<1>2. CASE Dial(t)
  <2> DEFINE n == pty[t].dials + 1
             r == [pty[t] EXCEPT !.socket = n, !.dials = n]
  <2>0. n \in Nat
    BY <1>0 DEF PtyRecord
  <2>2. pty' = [pty EXCEPT ![t] = r] /\ UNCHANGED stored
    BY <1>0, <1>2 DEF Dial, PtyRecord
  <2> HIDE DEF n
  <2>1. /\ r \in PtyRecord /\ r.ready = pty[t].ready /\ r.wrote = pty[t].wrote
        /\ r.rendered = pty[t].rendered /\ r.failed = pty[t].failed /\ r.copy = pty[t].copy
    BY <1>0, <2>0 DEF PtyRecord
  <2> HIDE DEF r
  <2>3. GatedPty(r)
    BY <1>0, <2>1 DEF GatedPty
  <2> QED BY <1>0, <2>1, <2>2, <2>3, OnePtyKeepsPrompt
<1>3. CASE LoseSocket(t)
  <2> DEFINE q == IF pty[t].ready = pty[t].socket THEN 0 ELSE pty[t].ready
             r == [pty[t] EXCEPT !.socket = 0, !.ready = q]
  <2>0. q \in Nat /\ (q # 0 => q = pty[t].ready)
    BY <1>0 DEF PtyRecord
  <2>2. pty' = [pty EXCEPT ![t] = r] /\ UNCHANGED stored
    BY <1>0, <1>3 DEF LoseSocket, PtyRecord
  <2> HIDE DEF q
  <2>1. /\ r \in PtyRecord /\ r.ready = q /\ r.wrote = pty[t].wrote
        /\ r.rendered = pty[t].rendered /\ r.failed = pty[t].failed /\ r.copy = pty[t].copy
    BY <1>0, <2>0 DEF PtyRecord
  <2> HIDE DEF r
  <2>3. GatedPty(r)
    BY <1>0, <2>0, <2>1 DEF GatedPty
  <2> QED BY <1>0, <2>1, <2>2, <2>3, OnePtyKeepsPrompt
<1>4. CASE ClosePty(t)
  BY <1>0, <1>4, OffIsGated, OnePtyKeepsPrompt DEF ClosePty
<1> QED BY <1>1, <1>2, <1>3, <1>4

\* Output arms the delivery of its own socket.
LEMMA RenderKeepsPrompt ==
    ASSUME PromptInvariant, NEW t \in CodexTabs, Render(t)
    PROVE  PromptInvariant'
<1> DEFINE s == pty[t].socket
           arms == pty[t].copy /\ pty[t].ready = 0
           q == IF arms THEN s ELSE pty[t].ready
           m == IF arms THEN pty[t].timers \cup {s} ELSE pty[t].timers
           out == pty[t].rendered \cup {s}
           r == [pty[t] EXCEPT !.rendered = out, !.ready = q, !.timers = m]
<1>0. pty[t] \in PtyRecord /\ GatedPty(pty[t]) /\ stored \in BOOLEAN /\ pty \in [CodexTabs -> PtyRecord]
  BY DEF PromptInvariant
<1>1. s \in Nat /\ q \in Nat /\ m \in SUBSET (Nat \ {0}) /\ out \in SUBSET Nat /\ (q # 0 => q = s \/ q = pty[t].ready)
  BY <1>0 DEF PtyRecord, Render
<1>2. pty' = [pty EXCEPT ![t] = r] /\ UNCHANGED stored
  BY <1>0 DEF Render, PtyRecord
<1> HIDE DEF q, m
<1>3. /\ r \in PtyRecord /\ r.ready = q /\ r.wrote = pty[t].wrote
      /\ r.rendered = out /\ r.failed = pty[t].failed /\ r.copy = pty[t].copy
  BY <1>0, <1>1 DEF PtyRecord
<1> HIDE DEF r
<1>4. GatedPty(r)
  BY <1>0, <1>1, <1>3 DEF GatedPty
<1> QED BY <1>0, <1>2, <1>3, <1>4, OnePtyKeepsPrompt

\* What an abandoned delivery leaves: the socket disarmed and closed.
LEMMA AbandonIsGated ==
    ASSUME NEW r \in PtyRecord, GatedPty(r), NEW s \in Nat
    PROVE  /\ AbandonPrompt(r, s) \in PtyRecord /\ GatedPty(AbandonPrompt(r, s))
           /\ AbandonPrompt(r, s).wrote = r.wrote /\ AbandonPrompt(r, s).rendered = r.rendered
           /\ AbandonPrompt(r, s).failed = r.failed /\ AbandonPrompt(r, s).copy = r.copy
<1> DEFINE q == IF r.ready = s THEN 0 ELSE r.ready
           x == [r EXCEPT !.ready = q, !.dead = r.dead \cup {s}]
<1>1. x = AbandonPrompt(r, s)
  BY DEF AbandonPrompt, PtyRecord
<1>2. q \in Nat /\ (q # 0 => q = r.ready)
  BY DEF PtyRecord
<1> HIDE DEF q
<1>3. /\ x \in PtyRecord /\ x.ready = q /\ x.wrote = r.wrote /\ x.rendered = r.rendered
      /\ x.failed = r.failed /\ x.copy = r.copy
  BY <1>2 DEF PtyRecord
<1> HIDE DEF x
<1>4. GatedPty(x)
  BY <1>2, <1>3 DEF GatedPty
<1> QED BY <1>1, <1>3, <1>4

LEMMA SettlesKeepsPrompt ==
    ASSUME PromptInvariant, NEW t \in CodexTabs, TerminalSettles(t)
    PROVE  PromptInvariant'
<1>0. pty[t] \in PtyRecord /\ GatedPty(pty[t]) /\ stored \in BOOLEAN /\ pty \in [CodexTabs -> PtyRecord]
  BY DEF PromptInvariant
<1>1. PICK s \in pty[t].timers :
        /\ pty' = [pty EXCEPT ![t] =
              LET r == [pty[t] EXCEPT !.timers = pty[t].timers \ {s}] IN
              IF ~r.copy THEN r
              ELSE IF r.socket = s /\ r.ready = s THEN [r EXCEPT !.sending = r.sending \cup {s}]
              ELSE AbandonPrompt(r, s)]
        /\ UNCHANGED stored
  BY Zenon DEF TerminalSettles
<1> DEFINE r == [pty[t] EXCEPT !.timers = pty[t].timers \ {s}]
<1>2. s \in Nat \ {0}
  BY <1>0 DEF PtyRecord
<1>3. /\ r \in PtyRecord /\ r.ready = pty[t].ready /\ r.wrote = pty[t].wrote
      /\ r.rendered = pty[t].rendered /\ r.failed = pty[t].failed /\ r.copy = pty[t].copy
  BY <1>0 DEF PtyRecord
<1>4. /\ pty' = [pty EXCEPT ![t] =
              IF ~r.copy THEN r
              ELSE IF r.socket = s /\ r.ready = s THEN [r EXCEPT !.sending = r.sending \cup {s}]
              ELSE AbandonPrompt(r, s)]
      /\ UNCHANGED stored
  BY <1>1
<1> HIDE DEF r
<1>5. GatedPty(r)
  BY <1>0, <1>3 DEF GatedPty
<1> DEFINE x == [r EXCEPT !.sending = r.sending \cup {s}]
<1>6. /\ x \in PtyRecord /\ x.ready = r.ready /\ x.wrote = r.wrote /\ x.rendered = r.rendered
      /\ x.failed = r.failed /\ x.copy = r.copy
  BY <1>2, <1>3 DEF PtyRecord
<1>7. \/ pty' = [pty EXCEPT ![t] = r]
      \/ pty' = [pty EXCEPT ![t] = x]
      \/ pty' = [pty EXCEPT ![t] = AbandonPrompt(r, s)]
  BY <1>4
<1> HIDE DEF x
<1>8. GatedPty(x)
  BY <1>5, <1>6 DEF GatedPty
<1>9. AbandonPrompt(r, s) \in PtyRecord /\ GatedPty(AbandonPrompt(r, s))
  BY <1>2, <1>3, <1>5, AbandonIsGated
<1> QED BY <1>0, <1>3, <1>4, <1>5, <1>6, <1>7, <1>8, <1>9, OnePtyKeepsPrompt

\* The prompt is written to the socket that armed it, or abandoned.
LEMMA WriteKeepsPrompt ==
    ASSUME PromptInvariant, NEW t \in CodexTabs, WritePrompt(t)
    PROVE  PromptInvariant'
<1>0. pty[t] \in PtyRecord /\ GatedPty(pty[t]) /\ stored \in BOOLEAN /\ pty \in [CodexTabs -> PtyRecord]
  BY DEF PromptInvariant
<1> DEFINE R(s) == [pty[t] EXCEPT !.sending = pty[t].sending \ {s}]
           A(s) == AbandonPrompt(R(s), s)
<1>1. PICK s \in pty[t].sending :
        \/ /\ R(s).ready = s /\ R(s).copy
           /\ pty' = [pty EXCEPT ![t] = [R(s) EXCEPT !.wrote = R(s).wrote \cup {s}, !.copy = FALSE, !.ready = 0]]
        \/ /\ R(s).ready = s /\ R(s).copy
           /\ pty' = [pty EXCEPT ![t] = [A(s) EXCEPT !.wrote = A(s).wrote \cup {s}, !.failed = A(s).failed + 1]]
        \/ pty' = [pty EXCEPT ![t] = A(s)]
  BY Zenon DEF WritePrompt
<1> DEFINE r == R(s)
           a == AbandonPrompt(r, s)
<1>2. s \in Nat \ {0}
  BY <1>0 DEF PtyRecord
<1>3. /\ r \in PtyRecord /\ r.ready = pty[t].ready /\ r.wrote = pty[t].wrote
      /\ r.rendered = pty[t].rendered /\ r.failed = pty[t].failed /\ r.copy = pty[t].copy
  BY <1>0 DEF PtyRecord
<1>4. stored' = stored
  BY DEF WritePrompt
<1> HIDE DEF R
<1>5. GatedPty(r)
  BY <1>0, <1>3 DEF GatedPty
<1>6. a \in PtyRecord /\ GatedPty(a) /\ a.wrote = r.wrote /\ a.rendered = r.rendered
      /\ a.failed = r.failed /\ a.copy = r.copy
  BY <1>2, <1>3, <1>5, AbandonIsGated
<1>7. CASE pty' = [pty EXCEPT ![t] = a]
  BY <1>0, <1>4, <1>6, <1>7, OnePtyKeepsPrompt
<1>8. ASSUME r.ready = s, r.copy
      PROVE  /\ s # 0 => s \in r.rendered
             /\ IsFiniteSet(r.wrote \cup {s}) /\ Cardinality(r.wrote \cup {s}) <= r.failed + 1
  <2>0. r.failed \in Nat
    BY <1>3 DEF PtyRecord
  <2>1. IsFiniteSet(r.wrote) /\ Cardinality(r.wrote) <= r.failed
    BY <1>5, <1>8, <2>0 DEF GatedPty
  <2>2. /\ IsFiniteSet(r.wrote \cup {s})
        /\ Cardinality(r.wrote \cup {s}) = Cardinality(r.wrote) \/ Cardinality(r.wrote \cup {s}) = Cardinality(r.wrote) + 1
    BY <2>1, FS_AddElement
  <2>3. Cardinality(r.wrote) \in Nat /\ r.failed \in Nat
    BY <1>3, <2>1, FS_CardinalityType DEF PtyRecord
  <2> QED BY <1>5, <1>8, <2>1, <2>2, <2>3 DEF GatedPty
<1>9. CASE /\ r.ready = s /\ r.copy
           /\ pty' = [pty EXCEPT ![t] = [r EXCEPT !.wrote = r.wrote \cup {s}, !.copy = FALSE, !.ready = 0]]
  <2> DEFINE x == [r EXCEPT !.wrote = r.wrote \cup {s}, !.copy = FALSE, !.ready = 0]
  <2>1. /\ x \in PtyRecord /\ x.ready = 0 /\ x.wrote = r.wrote \cup {s} /\ x.rendered = r.rendered
        /\ x.failed = r.failed /\ x.copy = FALSE
    BY <1>2, <1>3 DEF PtyRecord
  <2>2. pty' = [pty EXCEPT ![t] = x]
    BY <1>9
  <2> HIDE DEF x, r
  <2>4. GatedPty(x)
    BY <1>5, <1>8, <1>9, <2>1, <1>2 DEF GatedPty
  <2> QED BY <1>0, <1>4, <2>1, <2>2, <2>4, OnePtyKeepsPrompt
<1>10. CASE /\ r.ready = s /\ r.copy
            /\ pty' = [pty EXCEPT ![t] = [a EXCEPT !.wrote = a.wrote \cup {s}, !.failed = a.failed + 1]]
  <2> DEFINE w == a.wrote \cup {s}
             n == a.failed + 1
             x == [a EXCEPT !.wrote = w, !.failed = n]
  <2>1. pty' = [pty EXCEPT ![t] = x]
    BY <1>10
  <2> HIDE DEF a
  <2>2. w \in SUBSET Nat /\ n \in Nat /\ w = r.wrote \cup {s} /\ n = r.failed + 1
    BY <1>2, <1>6 DEF PtyRecord
  <2> HIDE DEF w, n
  <2>3. /\ x \in PtyRecord /\ x.ready = a.ready /\ x.wrote = w /\ x.rendered = a.rendered
        /\ x.failed = n /\ x.copy = a.copy
    BY <1>6, <2>2 DEF PtyRecord
  <2> HIDE DEF x, r
  <2>4. IsFiniteSet(w) /\ Cardinality(w) <= n /\ w \subseteq a.rendered
    BY <1>2, <1>5, <1>6, <1>8, <1>10, <2>2 DEF GatedPty
  <2>5. Cardinality(w) <= n + (IF x.copy THEN 0 ELSE 1)
    BY <2>2, <2>4, FS_CardinalityType
  <2>6. GatedPty(x)
    BY <1>6, <2>3, <2>4, <2>5 DEF GatedPty
  <2> QED BY <1>0, <1>4, <2>1, <2>3, <2>6, OnePtyKeepsPrompt
<1> QED BY <1>1, <1>7, <1>9, <1>10 DEF R

(* For any number of Codex tabs: one runtime writes the prompt only to sockets *)
(* on which the child had spoken, and to more than one only after a write that *)
(* reported a failure (scheduleInitialPrompt, sendInitialPrompt).              *)
THEOREM PromptStaysGated == PromptSpec => []PromptIsGated
<1>1. PromptInit => PromptInvariant
  BY OffIsGated DEF PromptInit, PromptInvariant
<1>2. PromptInvariant /\ [PromptNext]_promptVars => PromptInvariant'
  <2> SUFFICES ASSUME PromptInvariant, [PromptNext]_promptVars PROVE PromptInvariant'
    OBVIOUS
  <2>1. CASE MarkDelivered
    BY <2>1 DEF MarkDelivered, PromptInvariant
  <2>2. CASE UNCHANGED promptVars
    BY <2>2 DEF promptVars, PromptInvariant
  <2> QED BY <2>1, <2>2, SocketsKeepPrompt, RenderKeepsPrompt, SettlesKeepsPrompt, WriteKeepsPrompt
          DEF PromptNext
<1>3. PromptInvariant => PromptIsGated
  BY DEF PromptInvariant, PromptIsGated, GatedPty
<1> QED BY <1>1, <1>2, <1>3, PTL DEF PromptSpec

-----------------------------------------------------------------------------
(* TerminalReplay *)

LEMMA FrameAt ==
    ASSUME NEW p \in Seq(Frames)
    PROVE  Len(p) \in Nat /\ \A i \in 1..Len(p) : p[i] \in Frames /\ p[i].sequence \in Nat
<1>1. Len(p) \in Nat /\ \A i \in 1..Len(p) : p[i] \in Frames
  BY LenProperties, ElementOfSeq
<1> QED BY <1>1 DEF Frames

\* An output after the latest, or another frame, joins what is on its way.
LEMMA OutputJoins ==
    ASSUME NEW p \in Seq(Frames), NEW q \in Seq(Frames), NEW cursor \in Nat, NEW latest \in Nat,
           Unbroken(p, cursor, latest), Len(q) = Len(p) + 1, \A i \in 1..Len(p) : q[i] = p[i],
           q[Len(q)].kind = "output", q[Len(q)].sequence = latest + 1
    PROVE  Unbroken(q, cursor, latest + 1)
<1> DEFINE start == Start(p, cursor)
           n == Len(p)
<1>1. n \in Nat /\ \A i \in 1..n : p[i].sequence \in Nat /\ q[i] = p[i]
  BY FrameAt
<1>2. Start(q, cursor) = start
  BY <1>1 DEF Start
<1>3. start \in 0..latest
  BY DEF Unbroken
<1> HIDE DEF start, n
<1>4. \A i \in 1..n : /\ p[i].kind = "gap" => i = 1
                      /\ p[i].kind = "output" => p[i].sequence \in start + 1 .. latest
  BY DEF Unbroken, start, n
<1>5. \A i \in 1..n + 1 : /\ q[i].kind = "gap" => i = 1
                          /\ q[i].kind = "output" => q[i].sequence \in start + 1 .. latest + 1
  BY <1>1, <1>3, <1>4, SMTT(60) DEF n
<1>6. \A i, j \in 1..n : i < j /\ p[i].kind = "output" /\ p[j].kind = "output" => p[i].sequence < p[j].sequence
  BY DEF Unbroken, n
<1>7. \A i, j \in 1..n + 1 : i < j /\ q[i].kind = "output" /\ q[j].kind = "output" => q[i].sequence < q[j].sequence
  <2> SUFFICES ASSUME NEW i \in 1..n + 1, NEW j \in 1..n + 1, i < j, q[i].kind = "output", q[j].kind = "output"
               PROVE  q[i].sequence < q[j].sequence
    OBVIOUS
  <2>1. i \in 1..n /\ q[i] = p[i] /\ p[i].sequence \in start + 1 .. latest
    BY <1>1, <1>4
  <2>2. CASE j \in 1..n
    BY <1>1, <1>6, <2>1, <2>2
  <2>3. CASE j = n + 1
    <3>1. q[j].sequence = latest + 1
      BY <2>3 DEF n
    <3>2. p[i].sequence \in Nat /\ p[i].sequence <= latest
      BY <1>1, <1>3, <2>1
    <3>3. p[i].sequence < latest + 1
      BY <3>2
    <3> QED BY <2>1, <3>1, <3>3
  <2>4. j \in 1..n \/ j = n + 1
    BY <1>1
  <2> QED BY <2>2, <2>3, <2>4
<1>8. \A s \in start + 1 .. latest : \E i \in 1..n : p[i].kind = "output" /\ p[i].sequence = s
  BY DEF Unbroken, start, n
<1>9. \A s \in start + 1 .. latest + 1 : \E i \in 1..n + 1 : q[i].kind = "output" /\ q[i].sequence = s
  <2> SUFFICES ASSUME NEW s \in start + 1 .. latest + 1
               PROVE  \E i \in 1..n + 1 : q[i].kind = "output" /\ q[i].sequence = s
    OBVIOUS
  <2>1. CASE s = latest + 1
    BY <1>1, <2>1 DEF n
  <2>2. CASE s # latest + 1
    <3>1. PICK i \in 1..n : p[i].kind = "output" /\ p[i].sequence = s
      BY <1>3, <1>8, <2>2, SMTT(60)
    <3> QED BY <1>1, <3>1
  <2> QED BY <2>1, <2>2
<1>10. Start(q, cursor) \in 0..latest + 1
  BY <1>2, <1>3
<1> QED BY <1>2, <1>5, <1>7, <1>9, <1>10 DEF Unbroken, n

LEMMA OtherJoins ==
    ASSUME NEW p \in Seq(Frames), NEW q \in Seq(Frames), NEW cursor \in Nat, NEW latest \in Nat,
           Unbroken(p, cursor, latest), Len(q) = Len(p) + 1, \A i \in 1..Len(p) : q[i] = p[i],
           q[Len(q)].kind = "other"
    PROVE  Unbroken(q, cursor, latest)
<1> DEFINE start == Start(p, cursor)
           n == Len(p)
<1>1. n \in Nat /\ \A i \in 1..n : q[i] = p[i]
  OBVIOUS
<1>2. Start(q, cursor) = start /\ start \in 0..latest
  BY <1>1 DEF Start, Unbroken
<1> HIDE DEF start, n
<1>3. \A i \in 1..n + 1 : /\ q[i].kind = "gap" => i = 1
                          /\ q[i].kind = "output" => q[i].sequence \in start + 1 .. latest
  BY <1>1, SMTT(60) DEF Unbroken, n, start
<1>4. \A i, j \in 1..n + 1 : i < j /\ q[i].kind = "output" /\ q[j].kind = "output" => q[i].sequence < q[j].sequence
  <2> SUFFICES ASSUME NEW i \in 1..n + 1, NEW j \in 1..n + 1, i < j, q[i].kind = "output", q[j].kind = "output"
               PROVE  q[i].sequence < q[j].sequence
    OBVIOUS
  <2>1. i \in 1..n /\ j \in 1..n /\ q[i] = p[i] /\ q[j] = p[j]
    BY <1>1 DEF n
  <2> QED BY <2>1 DEF Unbroken, n
<1>5. \A s \in start + 1 .. latest : \E i \in 1..n + 1 : q[i].kind = "output" /\ q[i].sequence = s
  <2> SUFFICES ASSUME NEW s \in start + 1 .. latest
               PROVE  \E i \in 1..n + 1 : q[i].kind = "output" /\ q[i].sequence = s
    OBVIOUS
  <2>1. PICK i \in 1..n : p[i].kind = "output" /\ p[i].sequence = s
    BY DEF Unbroken, n, start
  <2> QED BY <1>1, <2>1
<1> QED BY <1>2, <1>3, <1>4, <1>5 DEF Unbroken, n

\* The frame at the head is the next output, or a gap, or neither.
LEMMA HeadIsNext ==
    ASSUME NEW p \in Seq(Frames), NEW cursor \in Nat, NEW latest \in Nat, Unbroken(p, cursor, latest)
    PROVE  /\ Len(p) = 0 => cursor = latest
           /\ Len(p) > 0 /\ p[1].kind = "output" => p[1].sequence = cursor + 1
<1>1. CASE Len(p) = 0
  BY <1>1 DEF Unbroken, Start
<1>2. CASE Len(p) > 0 /\ p[1].kind = "output"
  <2>1. Start(p, cursor) = cursor /\ Len(p) \in Nat /\ 1 \in 1..Len(p)
    BY <1>2 DEF Start
  <2>2. p[1].sequence \in cursor + 1 .. latest
    BY <1>2, <2>1 DEF Unbroken
  <2>3. PICK i \in 1..Len(p) : p[i].kind = "output" /\ p[i].sequence = cursor + 1
    BY <2>1, <2>2 DEF Unbroken
  <2>4. i = 1 \/ p[1].sequence < cursor + 1
    BY <1>2, <2>1, <2>3 DEF Unbroken
  <2> QED BY <2>2, <2>3, <2>4
<1> QED BY <1>1, <1>2

\* The client takes the frame at the head.
LEMMA HeadLeaves ==
    ASSUME NEW p \in Seq(Frames), NEW q \in Seq(Frames), NEW cursor \in Nat, NEW latest \in Nat,
           Unbroken(p, cursor, latest), Len(p) > 0, Len(q) = Len(p) - 1,
           \A i \in 1..Len(q) : q[i] = p[i + 1],
           NEW c \in Nat,
           p[1].kind = "gap" => c = p[1].sequence - 1,
           p[1].kind = "output" => c = p[1].sequence,
           p[1].kind \notin {"gap", "output"} => c = cursor
    PROVE  Unbroken(q, c, latest)
<1> DEFINE start == Start(p, cursor)
           n == Len(q)
<1>0. n \in Nat /\ Len(p) = n + 1 /\ \A i \in 1..n : q[i] = p[i + 1] /\ i + 1 \in 1..Len(p) /\ i + 1 # 1
  <2>1. Len(p) \in Nat /\ Len(q) \in Nat
    BY LenProperties
  <2> QED BY <2>1
<1>1. \A i \in 1..n : q[i].kind # "gap"
  <2>1. \A i \in 1..Len(p) : p[i].kind = "gap" => i = 1
    BY DEF Unbroken
  <2> QED BY <1>0, <2>1
<1>2. Start(q, c) = c
  BY <1>0, <1>1 DEF Start
<1>3. start \in 0..latest
  BY DEF Unbroken
<1>4. p[1].kind = "output" => start = cursor /\ c = start + 1 /\ c <= latest
  <2> SUFFICES ASSUME p[1].kind = "output" PROVE start = cursor /\ c = start + 1 /\ c <= latest
    OBVIOUS
  <2>1. start = cursor
    BY DEF Start
  <2>2. p[1].sequence = cursor + 1 /\ 1 \in 1..Len(p)
    BY <1>0, HeadIsNext
  <2>3. p[1].sequence \in start + 1 .. latest
    BY <2>2 DEF Unbroken
  <2> QED BY <2>1, <2>2, <2>3
<1>5. p[1].kind # "output" => c = start
  BY <1>0 DEF Start
<1> HIDE DEF start, n
<1>6. c \in 0..latest
  BY <1>3, <1>4, <1>5
<1>7. \A i \in 1..n : q[i].kind = "output" => q[i].sequence \in c + 1 .. latest
  <2> SUFFICES ASSUME NEW i \in 1..n, q[i].kind = "output" PROVE q[i].sequence \in c + 1 .. latest
    OBVIOUS
  <2>1. p[i + 1].sequence \in start + 1 .. latest
    BY <1>0 DEF Unbroken, start
  <2>2. p[1].kind = "output" => p[1].sequence < p[i + 1].sequence
    BY <1>0 DEF Unbroken
  <2> QED BY <1>0, <1>4, <1>5, <2>1, <2>2
<1>8. \A i, j \in 1..n : i < j /\ q[i].kind = "output" /\ q[j].kind = "output" => q[i].sequence < q[j].sequence
  <2> SUFFICES ASSUME NEW i \in 1..n, NEW j \in 1..n, i < j, q[i].kind = "output", q[j].kind = "output"
               PROVE  q[i].sequence < q[j].sequence
    OBVIOUS
  <2>1. i + 1 \in 1..Len(p) /\ j + 1 \in 1..Len(p) /\ i + 1 < j + 1 /\ q[i] = p[i + 1] /\ q[j] = p[j + 1]
    BY <1>0
  <2> QED BY <2>1 DEF Unbroken
<1>9. \A s \in c + 1 .. latest : \E i \in 1..n : q[i].kind = "output" /\ q[i].sequence = s
  <2> SUFFICES ASSUME NEW s \in c + 1 .. latest
               PROVE  \E i \in 1..n : q[i].kind = "output" /\ q[i].sequence = s
    OBVIOUS
  <2>1. s \in start + 1 .. latest
    BY <1>3, <1>4, <1>5
  <2>2. PICK j \in 1..Len(p) : p[j].kind = "output" /\ p[j].sequence = s
    BY <2>1 DEF Unbroken, start
  <2>3. j # 1
    BY <1>4, <1>6, <2>2
  <2>4. j - 1 \in 1..n /\ q[j - 1] = p[j]
    BY <1>0, <2>2, <2>3
  <2> QED BY <2>2, <2>4
<1> QED BY <1>1, <1>2, <1>6, <1>7, <1>8, <1>9 DEF Unbroken, n

\* What a subscriber is given at first (Ring.After).
LEMMA AfterIsUnbroken ==
    ASSUME ReplayTypeOK, kept = 0 => next = 1, NEW cursor \in Nat
    PROVE  After(cursor) \in Seq(Frames) /\ Unbroken(After(cursor), cursor, Latest)
<1>1. /\ next \in Nat /\ kept \in Nat /\ kept < next /\ generation \in 1..MaxGenerations
      /\ Earliest \in Nat /\ Latest \in Nat /\ Earliest >= 1 /\ Earliest <= next /\ Latest = next - 1
  BY ReplayAssumption DEF ReplayTypeOK, Earliest, Latest
<1>2. ASSUME NEW a \in Nat, a + 1 >= Earliest, a <= Latest
      PROVE  /\ Retained(a) \in Seq(Frames) /\ Len(Retained(a)) = next - (a + 1)
             /\ \A i \in 1..next - (a + 1) :
                  Retained(a)[i].kind = "output" /\ Retained(a)[i].sequence = a + i
  <2> DEFINE first == IF a + 1 > Earliest THEN a + 1 ELSE Earliest
             n == next - first
  <2>1. first = a + 1 /\ n \in Nat /\ n = next - (a + 1)
    BY <1>1, <1>2
  <2>2. Retained(a) = [i \in 1..n |-> Frame("output", first + i - 1)]
    BY DEF Retained
  <2> HIDE DEF first, n
  <2>3. \A i \in 1..n : /\ Frame("output", first + i - 1) \in Frames
                        /\ Frame("output", first + i - 1).kind = "output"
                        /\ Frame("output", first + i - 1).sequence = a + i
    BY <1>1, <2>1 DEF Frame, Frames
  <2>4. Retained(a) \in Seq(Frames) /\ Len(Retained(a)) = n
    BY <2>1, <2>2, <2>3, IsASeq, LenProperties
  <2> QED BY <2>1, <2>2, <2>3, <2>4
<1>3. CASE IF kept = 0 THEN cursor > Latest ELSE cursor < Earliest - 1 \/ cursor > Latest
  <2> DEFINE g == Frame("gap", Earliest)
             w == Retained(Earliest - 1)
             p == <<g>> \o w
             n == next - Earliest
  <2>1. After(cursor) = p
    BY <1>3 DEF After
  <2>2. g \in Frames /\ g.kind = "gap" /\ g.sequence = Earliest
    BY <1>1 DEF Frame, Frames
  <2>3. /\ w \in Seq(Frames) /\ Len(w) = n /\ n \in Nat
        /\ \A i \in 1..n : w[i].kind = "output" /\ w[i].sequence = Earliest - 1 + i
    BY <1>1, <1>2
  <2> HIDE DEF g, w, n
  <2>4. <<g>> \in Seq(Frames) /\ Len(<<g>>) = 1 /\ <<g>>[1] = g
    BY <2>2
  <2>5. /\ p \in Seq(Frames) /\ Len(p) = n + 1 /\ p[1] = g
        /\ \A i \in 2..n + 1 : p[i].kind = "output" /\ p[i].sequence = Earliest - 2 + i
    <3>1. /\ p \in Seq(Frames) /\ Len(p) = 1 + n
          /\ \A i \in 1..1 + n : p[i] = IF i <= 1 THEN <<g>>[i] ELSE w[i - 1]
      BY <2>3, <2>4, ConcatProperties
    <3> HIDE DEF p
    <3>2. \A i \in 2..n + 1 : p[i] = w[i - 1] /\ i - 1 \in 1..n
      BY <2>3, <3>1
    <3> QED BY <1>1, <2>3, <2>4, <3>1, <3>2
  <2> HIDE DEF p
  <2>6. Start(p, cursor) = Earliest - 1
    BY <2>2, <2>3, <2>5 DEF Start
  <2>7. \A s \in Earliest - 1 + 1 .. Latest : \E i \in 1..n + 1 : p[i].kind = "output" /\ p[i].sequence = s
    <3> SUFFICES ASSUME NEW s \in Earliest .. Latest
                 PROVE  \E i \in 1..n + 1 : p[i].kind = "output" /\ p[i].sequence = s
      BY <1>1
    <3>1. s - Earliest + 2 \in 2..n + 1
      BY <1>1 DEF n
    <3> QED BY <1>1, <2>5, <3>1
  <2>8. \A i \in 1..n + 1 : /\ p[i].kind = "gap" => i = 1
                            /\ p[i].kind = "output" => p[i].sequence \in Earliest - 1 + 1 .. Latest
    <3> SUFFICES ASSUME NEW i \in 1..n + 1
                 PROVE  /\ p[i].kind = "gap" => i = 1
                        /\ p[i].kind = "output" => p[i].sequence \in Earliest .. Latest
      BY <1>1
    <3>1. i = 1 \/ i \in 2..n + 1
      BY <2>3
    <3>2. i \in 2..n + 1 => Earliest - 2 + i \in Earliest .. Latest
      BY <1>1 DEF n
    <3> QED BY <2>2, <2>5, <3>1, <3>2
  <2>9. \A i, j \in 1..n + 1 : i < j /\ p[i].kind = "output" /\ p[j].kind = "output" => p[i].sequence < p[j].sequence
    <3> SUFFICES ASSUME NEW i \in 1..n + 1, NEW j \in 1..n + 1, i < j, p[i].kind = "output"
                 PROVE  p[i].sequence < p[j].sequence
      OBVIOUS
    <3>1. i # 1
      BY <2>2, <2>5
    <3>2. i \in 2..n + 1 /\ j \in 2..n + 1
      BY <2>3, <3>1
    <3> QED BY <1>1, <2>5, <3>2
  <2>10. Earliest - 1 \in 0..Latest
    BY <1>1
  <2> QED BY <2>1, <2>5, <2>6, <2>7, <2>8, <2>9, <2>10 DEF Unbroken
<1>4. CASE ~(IF kept = 0 THEN cursor > Latest ELSE cursor < Earliest - 1 \/ cursor > Latest)
  <2> DEFINE p == Retained(cursor)
             n == next - (cursor + 1)
  <2>1. cursor + 1 >= Earliest /\ cursor <= Latest
    BY <1>1, <1>4 DEF Earliest, Latest
  <2>2. After(cursor) = p
    BY <1>4 DEF After
  <2>3. /\ p \in Seq(Frames) /\ Len(p) = n /\ n \in Nat
        /\ \A i \in 1..n : p[i].kind = "output" /\ p[i].sequence = cursor + i
    BY <1>1, <1>2, <2>1
  <2> HIDE DEF p, n
  <2>4. Start(p, cursor) = cursor
    BY <2>3 DEF Start
  <2>5. \A s \in cursor + 1 .. Latest : \E i \in 1..n : p[i].kind = "output" /\ p[i].sequence = s
    <3> SUFFICES ASSUME NEW s \in cursor + 1 .. Latest
                 PROVE  \E i \in 1..n : p[i].kind = "output" /\ p[i].sequence = s
      OBVIOUS
    <3>1. s - cursor \in 1..n /\ cursor + (s - cursor) = s
      BY <1>1 DEF n
    <3> QED BY <2>3, <3>1
  <2>6. \A i \in 1..n : cursor + i \in cursor + 1 .. Latest
    BY <1>1 DEF n
  <2>7. \A i, j \in 1..n : i < j => p[i].sequence < p[j].sequence
    BY <2>3
  <2>8. \A i \in 1..n : p[i].kind # "gap" /\ p[i].sequence \in cursor + 1 .. Latest
    BY <2>3, <2>6
  <2>9. cursor \in 0..Latest /\ Len(p) = n
    BY <1>1, <2>1, <2>3
  <2>10. Unbroken(p, cursor, Latest)
    BY <2>4, <2>5, <2>7, <2>8, <2>9 DEF Unbroken
  <2> QED BY <2>2, <2>3, <2>10
<1> QED BY <1>3, <1>4

\* The frames on their way: those of the initial replay, then the queue's.
LEMMA PendingFrames ==
    ASSUME NEW a \in Seq(Frames), NEW b \in Seq(Frames)
    PROVE  /\ a \o b \in Seq(Frames) /\ Len(a) \in Nat /\ Len(b) \in Nat
           /\ Len(a \o b) = Len(a) + Len(b)
           /\ \A i \in 1..Len(a) : (a \o b)[i] = a[i]
           /\ \A i \in 1..Len(b) : (a \o b)[Len(a) + i] = b[i]
<1>1. Len(a) \in Nat /\ Len(b) \in Nat
  BY LenProperties
<1>2. /\ a \o b \in Seq(Frames) /\ Len(a \o b) = Len(a) + Len(b)
      /\ \A i \in 1..Len(a) + Len(b) : (a \o b)[i] = IF i <= Len(a) THEN a[i] ELSE b[i - Len(a)]
  BY ConcatProperties
<1>3. \A i \in 1..Len(b) : Len(a) + i \in 1..Len(a) + Len(b) /\ ~(Len(a) + i <= Len(a)) /\ (Len(a) + i) - Len(a) = i
  BY <1>1
<1> QED BY <1>1, <1>2, <1>3

\* A frame that the subscriber can take goes to the end of what is on its way.
LEMMA QueueGrows ==
    ASSUME NEW a \in Seq(Frames), NEW b \in Seq(Frames), NEW f \in Frames
    PROVE  LET p == a \o b
               q == a \o Append(b, f)
           IN  /\ p \in Seq(Frames) /\ q \in Seq(Frames) /\ Append(b, f) \in Seq(Frames)
               /\ Len(Append(b, f)) = Len(b) + 1 /\ Len(q) = Len(p) + 1
               /\ \A i \in 1..Len(p) : q[i] = p[i]
               /\ q[Len(q)] = f
<1> DEFINE b1 == Append(b, f)
           p == a \o b
           q == a \o b1
<1>1. /\ b1 \in Seq(Frames) /\ Len(b1) = Len(b) + 1 /\ b1[Len(b) + 1] = f
      /\ \A i \in 1..Len(b) : b1[i] = b[i]
  BY AppendProperties
<1> HIDE DEF b1
<1>2. /\ p \in Seq(Frames) /\ Len(a) \in Nat /\ Len(b) \in Nat /\ Len(p) = Len(a) + Len(b)
      /\ \A i \in 1..Len(a) + Len(b) : p[i] = IF i <= Len(a) THEN a[i] ELSE b[i - Len(a)]
  BY ConcatProperties, LenProperties
<1>3. /\ q \in Seq(Frames) /\ Len(q) = Len(a) + Len(b1)
      /\ \A i \in 1..Len(a) + Len(b1) : q[i] = IF i <= Len(a) THEN a[i] ELSE b1[i - Len(a)]
  BY <1>1, ConcatProperties
<1> HIDE DEF p, q
<1>4. Len(q) = Len(p) + 1
  BY <1>1, <1>2, <1>3
<1>5. \A i \in 1..Len(p) : q[i] = p[i]
  <2> SUFFICES ASSUME NEW i \in 1..Len(p) PROVE q[i] = p[i]
    OBVIOUS
  <2>1. CASE i <= Len(a)
    BY <1>1, <1>2, <1>3, <2>1
  <2>2. CASE ~(i <= Len(a))
    <3>1. i - Len(a) \in 1..Len(b)
      BY <1>2, <2>2
    <3>2. b1[i - Len(a)] = b[i - Len(a)]
      BY <1>1, <3>1
    <3> QED BY <1>1, <1>2, <1>3, <2>2, <3>2
  <2> QED BY <2>1, <2>2
<1>6. q[Len(q)] = f
  <2>1. Len(q) \in 1..Len(a) + Len(b1) /\ ~(Len(q) <= Len(a)) /\ Len(q) - Len(a) = Len(b) + 1
    BY <1>1, <1>2, <1>3
  <2> QED BY <1>1, <1>3, <2>1
<1> QED BY <1>1, <1>2, <1>3, <1>4, <1>5, <1>6 DEF p, q, b1

\* Reading takes the first of them.
LEMMA QueueShrinks ==
    ASSUME NEW a \in Seq(Frames), NEW b \in Seq(Frames), a \o b # <<>>
    PROVE  LET p == a \o b
               a1 == IF a # <<>> THEN Tail(a) ELSE a
               b1 == IF a # <<>> THEN b ELSE Tail(b)
               q == a1 \o b1
           IN  /\ p \in Seq(Frames) /\ a1 \in Seq(Frames) /\ b1 \in Seq(Frames) /\ q \in Seq(Frames)
               /\ Len(b1) <= Len(b) /\ Len(p) > 0 /\ Head(p) = p[1] /\ Len(q) = Len(p) - 1
               /\ \A i \in 1..Len(q) : q[i] = p[i + 1]
<1> DEFINE p == a \o b
           a1 == IF a # <<>> THEN Tail(a) ELSE a
           b1 == IF a # <<>> THEN b ELSE Tail(b)
           q == a1 \o b1
<1>1. /\ p \in Seq(Frames) /\ Len(a) \in Nat /\ Len(b) \in Nat /\ Len(p) = Len(a) + Len(b)
      /\ \A i \in 1..Len(a) + Len(b) : p[i] = IF i <= Len(a) THEN a[i] ELSE b[i - Len(a)]
  BY ConcatProperties, LenProperties
<1>2. (Len(p) = 0 <=> p = <<>>) /\ (Len(a) = 0 <=> a = <<>>) /\ (Len(b) = 0 <=> b = <<>>)
  BY <1>1, EmptySeq
<1>3. Len(p) > 0 /\ Head(p) = p[1]
  BY <1>1, <1>2, HeadTailProperties
<1>4. CASE a # <<>>
  <2> DEFINE t == Tail(a)
  <2>1. t \in Seq(Frames) /\ Len(t) = Len(a) - 1 /\ \A i \in 1..Len(t) : t[i] = a[i + 1]
    BY <1>4, HeadTailProperties
  <2>2. a1 = t /\ b1 = b
    BY <1>4
  <2> HIDE DEF t, a1, b1
  <2>3. /\ q \in Seq(Frames) /\ Len(q) = Len(t) + Len(b)
        /\ \A i \in 1..Len(t) + Len(b) : q[i] = IF i <= Len(t) THEN t[i] ELSE b[i - Len(t)]
    BY <2>1, <2>2, ConcatProperties
  <2> HIDE DEF p, q
  <2>4. \A i \in 1..Len(q) : q[i] = p[i + 1]
    <3> SUFFICES ASSUME NEW i \in 1..Len(q) PROVE q[i] = p[i + 1]
      OBVIOUS
    <3>1. i + 1 \in 1..Len(a) + Len(b)
      BY <1>1, <2>1, <2>3
    <3>2. CASE i <= Len(t)
      BY <1>1, <2>1, <2>3, <3>1, <3>2
    <3>3. CASE ~(i <= Len(t))
      <4>1. ~(i + 1 <= Len(a)) /\ i - Len(t) = (i + 1) - Len(a)
        BY <1>1, <2>1, <3>3
      <4> QED BY <1>1, <2>3, <3>1, <3>3, <4>1
    <3> QED BY <3>2, <3>3
  <2> QED BY <1>1, <1>3, <2>1, <2>2, <2>3, <2>4 DEF p, q, a1, b1
<1>5. CASE a = <<>>
  <2> DEFINE t == Tail(b)
  <2>0. Len(a) = 0 /\ b # <<>>
    BY <1>1, <1>2, <1>3, <1>5
  <2>1. t \in Seq(Frames) /\ Len(t) = Len(b) - 1 /\ \A i \in 1..Len(t) : t[i] = b[i + 1]
    BY <2>0, HeadTailProperties
  <2>2. a1 = a /\ b1 = t
    BY <1>5
  <2> HIDE DEF t, a1, b1
  <2>3. /\ q \in Seq(Frames) /\ Len(q) = Len(a) + Len(t)
        /\ \A i \in 1..Len(a) + Len(t) : q[i] = IF i <= Len(a) THEN a[i] ELSE t[i - Len(a)]
    BY <2>1, <2>2, ConcatProperties
  <2> HIDE DEF p, q
  <2>4. \A i \in 1..Len(q) : q[i] = p[i + 1]
    <3> SUFFICES ASSUME NEW i \in 1..Len(q) PROVE q[i] = p[i + 1]
      OBVIOUS
    <3>1. i \in 1..Len(t) /\ i \in 1..Len(a) + Len(t) /\ ~(i <= Len(a)) /\ i - Len(a) = i
      BY <1>1, <2>0, <2>1, <2>3
    <3>2. i + 1 \in 1..Len(a) + Len(b) /\ ~(i + 1 <= Len(a)) /\ (i + 1) - Len(a) = i + 1
      BY <1>1, <2>0, <2>1, <3>1
    <3>3. q[i] = t[i] /\ p[i + 1] = b[i + 1]
      BY <1>1, <2>3, <3>1, <3>2
    <3> QED BY <2>1, <3>1, <3>3
  <2> QED BY <1>1, <1>3, <2>0, <2>1, <2>2, <2>3, <2>4 DEF p, q, a1, b1
<1> QED BY <1>4, <1>5

\* broadcastLocked, on a stream whose frames are unbroken.
LEMMA BroadcastKeepsType ==
    ASSUME ReplayTypeOK, NEW f \in Frames, Broadcast(f)
    PROVE  /\ stream' \in [up : BOOLEAN, initial : Seq(Frames), queue : Seq(Frames)]
           /\ Len(stream'.queue) <= QueueFrames
           /\ stream'.up => /\ stream.up
                            /\ Pending \in Seq(Frames) /\ Pending' \in Seq(Frames)
                            /\ Len(Pending') = Len(Pending) + 1
                            /\ \A i \in 1..Len(Pending) : Pending'[i] = Pending[i]
                            /\ Pending'[Len(Pending')] = f
<1>1. /\ stream \in [up : BOOLEAN, initial : Seq(Frames), queue : Seq(Frames)]
      /\ Len(stream.queue) <= QueueFrames /\ QueueFrames \in Nat
  BY ReplayAssumption DEF ReplayTypeOK
<1>2. CASE ~stream.up
  BY <1>1, <1>2 DEF Broadcast
<1>3. CASE stream.up /\ Len(stream.queue) < QueueFrames
  <2> DEFINE b == Append(stream.queue, f)
             x == [stream EXCEPT !.queue = b]
  <2>1. stream' = x
    BY <1>3 DEF Broadcast
  <2>2. /\ b \in Seq(Frames) /\ Len(b) = Len(stream.queue) + 1
        /\ LET p == stream.initial \o stream.queue
               q == stream.initial \o b
           IN  /\ p \in Seq(Frames) /\ q \in Seq(Frames) /\ Len(q) = Len(p) + 1
               /\ \A i \in 1..Len(p) : q[i] = p[i]
               /\ q[Len(q)] = f
    BY <1>1, QueueGrows
  <2> HIDE DEF b
  <2>3. /\ x \in [up : BOOLEAN, initial : Seq(Frames), queue : Seq(Frames)]
        /\ x.initial = stream.initial /\ x.queue = b
    BY <1>1, <2>2
  <2>4. Len(stream.queue) \in Nat /\ Len(b) <= QueueFrames
    BY <1>1, <1>3, <2>2, LenProperties
  <2>5. Pending' = stream.initial \o b /\ Pending = stream.initial \o stream.queue
    BY <2>1, <2>3 DEF Pending
  <2> HIDE DEF x
  <2> QED BY <1>3, <2>1, <2>2, <2>3, <2>4, <2>5
<1>4. CASE stream.up /\ ~(Len(stream.queue) < QueueFrames)
  BY <1>1, <1>4 DEF Broadcast, NoStream
<1> QED BY <1>2, <1>3, <1>4

LEMMA OutputKeepsReplay ==
    ASSUME ReplayInvariant, Output
    PROVE  ReplayInvariant'
<1>1. /\ ReplayTypeOK /\ next \in Nat /\ next >= 1 /\ kept \in Nat /\ generation \in 1..MaxGenerations
      /\ viewer \in [cursor : 0..MaxOutput, stems : SUBSET (1..MaxGenerations)]
      /\ ticket \in {NoTicket} \cup 0..MaxOutput /\ viewer.cursor \in Nat /\ MaxOutput \in Nat
      /\ kept < next
  BY ReplayAssumption DEF ReplayInvariant, ReplayTypeOK
<1>2. /\ next <= MaxOutput /\ next' = next + 1 /\ generation' = generation /\ viewer' = viewer /\ ticket' = ticket
      /\ Broadcast(Frame("output", next))
  BY DEF Output
<1>3. kept' \in 1..RingFrames /\ kept' <= kept + 1
  BY <1>1, ReplayAssumption DEF Output
<1>4. /\ Frame("output", next) \in Frames /\ Frame("output", next).kind = "output"
      /\ Frame("output", next).sequence = next
  BY <1>1 DEF Frame, Frames
<1>5. /\ stream' \in [up : BOOLEAN, initial : Seq(Frames), queue : Seq(Frames)]
      /\ Len(stream'.queue) <= QueueFrames
      /\ stream'.up => /\ stream.up
                       /\ Pending \in Seq(Frames) /\ Pending' \in Seq(Frames)
                       /\ Len(Pending') = Len(Pending) + 1
                       /\ \A i \in 1..Len(Pending) : Pending'[i] = Pending[i]
                       /\ Pending'[Len(Pending')] = Frame("output", next)
  BY <1>1, <1>2, <1>4, BroadcastKeepsType
<1>6. ReplayTypeOK'
  BY <1>1, <1>2, <1>3, <1>5, ReplayAssumption DEF ReplayTypeOK, NoTicket
<1>7. kept' # 0
  BY <1>3
<1>8. ticket' # NoTicket => ~stream'.up /\ ticket' = viewer'.cursor
  BY <1>2, <1>5 DEF ReplayInvariant
<1>9. stream'.up => Unbroken(Pending', viewer'.cursor, Latest')
  <2> SUFFICES ASSUME stream'.up PROVE Unbroken(Pending', viewer'.cursor, Latest')
    OBVIOUS
  <2>1. Unbroken(Pending, viewer.cursor, Latest)
    BY <1>5 DEF ReplayInvariant
  <2>2. Latest \in Nat /\ Latest' = Latest + 1 /\ next = Latest + 1
    BY <1>1, <1>2 DEF Latest
  <2>3. PICK p : p = Pending
    OBVIOUS
  <2>4. PICK q : q = Pending'
    OBVIOUS
  <2>5. Unbroken(q, viewer.cursor, Latest + 1)
    BY <1>1, <1>4, <1>5, <2>1, <2>2, <2>3, <2>4, OutputJoins
  <2> QED BY <1>2, <2>2, <2>4, <2>5
<1> QED BY <1>6, <1>7, <1>8, <1>9 DEF ReplayInvariant

LEMMA NotifyKeepsReplay ==
    ASSUME ReplayInvariant, Notify
    PROVE  ReplayInvariant'
<1>1. ReplayTypeOK /\ generation \in 1..MaxGenerations /\ viewer.cursor \in Nat /\ next \in Nat /\ next >= 1
  BY ReplayAssumption DEF ReplayInvariant, ReplayTypeOK
<1>2. UNCHANGED <<generation, next, kept, viewer, ticket>> /\ Broadcast(Frame("other", 0)) /\ stream.up
  BY DEF Notify
<1>3. Frame("other", 0) \in Frames /\ Frame("other", 0).kind = "other"
  BY <1>1 DEF Frame, Frames
<1>4. /\ stream' \in [up : BOOLEAN, initial : Seq(Frames), queue : Seq(Frames)]
      /\ Len(stream'.queue) <= QueueFrames
      /\ stream'.up => /\ stream.up
                       /\ Pending \in Seq(Frames) /\ Pending' \in Seq(Frames)
                       /\ Len(Pending') = Len(Pending) + 1
                       /\ \A i \in 1..Len(Pending) : Pending'[i] = Pending[i]
                       /\ Pending'[Len(Pending')] = Frame("other", 0)
  BY <1>1, <1>2, <1>3, BroadcastKeepsType
<1>5. ReplayTypeOK'
  BY <1>1, <1>2, <1>4 DEF ReplayTypeOK
<1>6. stream'.up => Unbroken(Pending', viewer'.cursor, Latest')
  <2> SUFFICES ASSUME stream'.up PROVE Unbroken(Pending', viewer'.cursor, Latest')
    OBVIOUS
  <2>1. Unbroken(Pending, viewer.cursor, Latest)
    BY <1>4 DEF ReplayInvariant
  <2>2. Latest \in Nat /\ Latest' = Latest
    BY <1>1, <1>2 DEF Latest
  <2>3. PICK p : p = Pending
    OBVIOUS
  <2>4. PICK q : q = Pending'
    OBVIOUS
  <2>5. Unbroken(q, viewer.cursor, Latest)
    BY <1>1, <1>3, <1>4, <2>1, <2>2, <2>3, <2>4, OtherJoins
  <2> QED BY <1>2, <2>2, <2>4, <2>5
<1> QED BY <1>2, <1>4, <1>5, <1>6 DEF ReplayInvariant

LEMMA SubscribeKeepsReplay ==
    ASSUME ReplayInvariant, Subscribe
    PROVE  ReplayInvariant'
<1>1. /\ ReplayTypeOK /\ (kept = 0 => next = 1)
      /\ ticket = viewer.cursor /\ viewer.cursor \in Nat
  BY ReplayAssumption DEF ReplayInvariant, ReplayTypeOK, Subscribe
<1>2. After(ticket) \in Seq(Frames) /\ Unbroken(After(ticket), ticket, Latest)
  BY <1>1, AfterIsUnbroken
<1>3. PICK a : a = After(ticket)
  OBVIOUS
<1>4. /\ stream' = [up |-> TRUE, initial |-> a, queue |-> <<>>] /\ ticket' = NoTicket
      /\ UNCHANGED <<generation, next, kept, viewer>>
  BY <1>3 DEF Subscribe
<1>5. Pending' = a \o <<>> /\ stream'.queue = <<>> /\ stream'.up
  BY <1>4 DEF Pending
<1>6. Pending' = a
  BY <1>2, <1>3, <1>5, ConcatEmptySeq
<1>7. ReplayTypeOK'
  <2>1. <<>> \in Seq(Frames) /\ Len(<<>>) = 0
    OBVIOUS
  <2>2. stream' \in [up : BOOLEAN, initial : Seq(Frames), queue : Seq(Frames)]
    BY <1>2, <1>3, <1>4, <2>1
  <2> QED BY <1>1, <1>4, <1>5, <2>1, <2>2, ReplayAssumption DEF ReplayTypeOK
<1>8. Unbroken(Pending', viewer'.cursor, Latest')
  BY <1>1, <1>2, <1>3, <1>4, <1>6 DEF Latest
<1> QED BY <1>1, <1>4, <1>7, <1>8 DEF ReplayInvariant

LEMMA ReceiveKeepsReplay ==
    ASSUME ReplayInvariant, Receive
    PROVE  ReplayInvariant'
<1>1. /\ ReplayTypeOK /\ viewer.cursor \in Nat /\ next \in 1..(MaxOutput + 1) /\ MaxOutput \in Nat
      /\ viewer \in [cursor : 0..MaxOutput, stems : SUBSET (1..MaxGenerations)]
      /\ stream \in [up : BOOLEAN, initial : Seq(Frames), queue : Seq(Frames)]
      /\ Len(stream.queue) <= QueueFrames /\ QueueFrames \in Nat
  BY ReplayAssumption DEF ReplayInvariant, ReplayTypeOK
<1>2. /\ stream.up /\ Pending # <<>> /\ Show(Head(Pending))
      /\ UNCHANGED <<generation, next, kept, ticket>>
  BY DEF Receive
<1>3. Unbroken(Pending, viewer.cursor, Latest) /\ ticket = NoTicket
  BY <1>2 DEF ReplayInvariant
<1>0. PICK a \in Seq(Frames), b \in Seq(Frames) : a = stream.initial /\ b = stream.queue
  BY <1>1
<1> DEFINE a1 == IF a # <<>> THEN Tail(a) ELSE a
           b1 == IF a # <<>> THEN b ELSE Tail(b)
<1>4. stream' = [stream EXCEPT !.initial = a1, !.queue = b1]
  BY <1>0, <1>1 DEF Receive
<1>5. PICK p : p = Pending
  OBVIOUS
<1>6. PICK q : q = a1 \o b1
  OBVIOUS
<1>7. /\ p \in Seq(Frames) /\ a1 \in Seq(Frames) /\ b1 \in Seq(Frames) /\ q \in Seq(Frames)
      /\ Len(b1) <= Len(stream.queue) /\ Len(p) > 0 /\ Head(p) = p[1] /\ Len(q) = Len(p) - 1
      /\ \A i \in 1..Len(q) : q[i] = p[i + 1]
  <2>1. p = a \o b /\ p # <<>>
    BY <1>0, <1>2, <1>5 DEF Pending
  <2> HIDE DEF a1, b1
  <2>2. /\ a \o b \in Seq(Frames) /\ a1 \in Seq(Frames) /\ b1 \in Seq(Frames) /\ a1 \o b1 \in Seq(Frames)
        /\ Len(b1) <= Len(b) /\ Len(a \o b) > 0 /\ Head(a \o b) = (a \o b)[1] /\ Len(a1 \o b1) = Len(a \o b) - 1
        /\ \A i \in 1..Len(a1 \o b1) : (a1 \o b1)[i] = (a \o b)[i + 1]
    BY <2>1, QueueShrinks, Zenon DEF a1, b1
  <2> QED BY <1>0, <1>6, <2>1, <2>2
<1> HIDE DEF a1, b1
<1>8. /\ stream' \in [up : BOOLEAN, initial : Seq(Frames), queue : Seq(Frames)]
      /\ stream'.initial = a1 /\ stream'.queue = b1 /\ stream'.up = stream.up
  BY <1>1, <1>4, <1>7
<1>9. Pending' = q
  BY <1>6, <1>8 DEF Pending
<1>10. Latest \in Nat /\ Latest = next - 1 /\ Latest <= MaxOutput /\ Latest' = Latest
  BY <1>1, <1>2 DEF Latest
<1>11. /\ p[1] \in Frames /\ 1 \in 1..Len(p) /\ p[1].sequence \in Nat /\ p[1].generation \in 1..MaxGenerations
       /\ p[1].kind = "output" => p[1].sequence = viewer.cursor + 1
       /\ Unbroken(p, viewer.cursor, Latest)
  <2>1. p[1] \in Frames /\ 1 \in 1..Len(p)
    BY <1>7, FrameAt
  <2> QED BY <1>1, <1>3, <1>5, <1>7, <1>10, <2>1, HeadIsNext DEF Frames
<1>12. /\ p[1].kind = "gap" => p[1].sequence - 1 \in 0..Latest
       /\ p[1].kind = "output" => p[1].sequence \in 0..Latest
  BY <1>1, <1>3, <1>5, <1>7, <1>10, <1>11 DEF Unbroken, Start
<1>13. \/ p[1].kind = "gap" /\ viewer' = [cursor |-> p[1].sequence - 1, stems |-> {}]
       \/ /\ p[1].kind = "output"
          /\ viewer' = [cursor |-> p[1].sequence, stems |-> viewer.stems \cup {p[1].generation}]
       \/ p[1].kind \notin {"gap", "output"} /\ viewer' = viewer
  BY <1>1, <1>2, <1>5, <1>7, <1>11, SMTT(60) DEF Show
<1>14. /\ viewer' \in [cursor : 0..MaxOutput, stems : SUBSET (1..MaxGenerations)]
       /\ viewer'.cursor \in Nat
       /\ p[1].kind = "gap" => viewer'.cursor = p[1].sequence - 1
       /\ p[1].kind = "output" => viewer'.cursor = p[1].sequence
       /\ p[1].kind \notin {"gap", "output"} => viewer'.cursor = viewer.cursor
  <2>1. CASE p[1].kind = "gap" /\ viewer' = [cursor |-> p[1].sequence - 1, stems |-> {}]
    BY <1>1, <1>10, <1>12, <2>1
  <2>2. CASE /\ p[1].kind = "output"
             /\ viewer' = [cursor |-> p[1].sequence, stems |-> viewer.stems \cup {p[1].generation}]
    BY <1>1, <1>10, <1>11, <1>12, <2>2
  <2>3. CASE p[1].kind \notin {"gap", "output"} /\ viewer' = viewer
    BY <1>1, <2>3
  <2> QED BY <1>13, <2>1, <2>2, <2>3
<1>15. PICK c : c = viewer'.cursor
  OBVIOUS
<1>16. Unbroken(q, c, Latest)
  BY <1>1, <1>7, <1>10, <1>11, <1>14, <1>15, HeadLeaves
<1>17. ReplayTypeOK'
  <2>1. Len(b1) <= QueueFrames
    BY <1>1, <1>7, LenProperties
  <2> QED BY <1>1, <1>2, <1>8, <1>14, <2>1 DEF ReplayTypeOK
<1> QED BY <1>2, <1>3, <1>9, <1>10, <1>15, <1>16, <1>17 DEF ReplayInvariant

\* No stream is up afterwards, or none was affected.
LEMMA NoStreamKeepsReplay ==
    ASSUME ReplayInvariant, NewGeneration \/ RequestTicket \/ Disconnect
    PROVE  ReplayInvariant'
<1>1. NoStream \in [up : BOOLEAN, initial : Seq(Frames), queue : Seq(Frames)] /\ Len(NoStream.queue) = 0 /\ ~NoStream.up
  BY DEF NoStream
<1>2. CASE NewGeneration
  BY <1>1, <1>2, ReplayAssumption DEF NewGeneration, ReplayInvariant, ReplayTypeOK
<1>3. CASE RequestTicket
  BY <1>3 DEF RequestTicket, ReplayInvariant, ReplayTypeOK
<1>4. CASE Disconnect
  BY <1>1, <1>4, ReplayAssumption DEF Disconnect, ReplayInvariant, ReplayTypeOK
<1> QED BY <1>2, <1>3, <1>4

(* For any ring, queue and number of generations: the client never meets a     *)
(* hole in its output, and has the latest output when it has read everything   *)
(* (Ring.After, subscribe, broadcastLocked).                                   *)
THEOREM ReplayHasNoHoles == ReplaySpec => []ReplayIsComplete
<1>1. ReplayInit => ReplayInvariant
  <2>1. NoStream \in [up : BOOLEAN, initial : Seq(Frames), queue : Seq(Frames)] /\ Len(NoStream.queue) = 0 /\ ~NoStream.up
    BY DEF NoStream
  <2> QED BY <2>1, ReplayAssumption DEF ReplayInit, ReplayInvariant, ReplayTypeOK
<1>2. ReplayInvariant /\ [ReplayNext]_replayVars => ReplayInvariant'
  <2> SUFFICES ASSUME ReplayInvariant, [ReplayNext]_replayVars PROVE ReplayInvariant'
    OBVIOUS
  <2>1. CASE UNCHANGED replayVars
    BY <2>1 DEF replayVars, ReplayInvariant, ReplayTypeOK, Pending, Latest
  <2> QED BY <2>1, OutputKeepsReplay, NotifyKeepsReplay, SubscribeKeepsReplay, ReceiveKeepsReplay,
             NoStreamKeepsReplay DEF ReplayNext
<1>3. ReplayInvariant => ReplayIsComplete
  <2> SUFFICES ASSUME ReplayInvariant, stream.up
               PROVE  /\ Pending # <<>> /\ Head(Pending).kind = "output"
                           => Head(Pending).sequence <= viewer.cursor + 1
                      /\ Pending = <<>> => viewer.cursor = Latest
    BY DEF ReplayIsComplete
  <2>1. /\ viewer.cursor \in Nat /\ Latest \in Nat /\ stream.initial \in Seq(Frames) /\ stream.queue \in Seq(Frames)
        /\ Unbroken(Pending, viewer.cursor, Latest)
    BY ReplayAssumption DEF ReplayInvariant, ReplayTypeOK, Latest
  <2>2. PICK p : p = Pending
    OBVIOUS
  <2>3. p \in Seq(Frames)
    BY <2>1, <2>2, PendingFrames DEF Pending
  <2>4. /\ p = <<>> => Len(p) = 0
        /\ p # <<>> => Len(p) > 0 /\ Head(p) = p[1]
    BY <2>3, EmptySeq, HeadTailProperties, LenProperties
  <2>5. /\ Len(p) = 0 => viewer.cursor = Latest
        /\ Len(p) > 0 /\ p[1].kind = "output" => p[1].sequence = viewer.cursor + 1
    BY <2>1, <2>2, <2>3, HeadIsNext
  <2> QED BY <2>1, <2>2, <2>4, <2>5
<1> QED BY <1>1, <1>2, <1>3, PTL DEF ReplaySpec

-----------------------------------------------------------------------------
(* TerminalInput *)

LinkRecord == [phone : Phones \cup {Nobody}, open : BOOLEAN, key : SUBSET Drafts,
               at : {"free", "read", "renew", "write", "send", "mark", "closed"}]
WireFrames == {"input", "confirm"} \X Drafts

\* What a step does to the ledger never takes back what a connection relies on.
LedgerGrows ==
    \A k \in Drafts : /\ written[k] > 0 => written'[k] > 0
                      /\ Known(k) => Known(k)'
                      /\ Settled(k) => Settled(k)'
\* A step of one connection.
OtherLinksStay(c) ==
    \A x \in Links \ {c} : link'[x] = link[x] /\ toServer'[x] = toServer[x] /\ toPhone'[x] = toPhone[x]

\* The parts of the type invariant that the handlers move.
LEMMA InputTypes ==
    ASSUME InputTypeOK, NEW c \in Links
    PROVE  /\ link[c] \in LinkRecord /\ link \in [Links -> LinkRecord]
           /\ toServer \in [Links -> Seq(WireFrames)] /\ toServer[c] \in Seq(WireFrames) /\ Len(toServer[c]) \in Nat
           /\ toPhone \in [Links -> Seq(Drafts)] /\ toPhone[c] \in Seq(Drafts) /\ Len(toPhone[c]) \in Nat
           /\ \A i \in 1..Len(toPhone[c]) : toPhone[c][i] \in Drafts
           /\ \A i \in 1..Len(toServer[c]) : toServer[c][i] \in WireFrames
           /\ written \in [Drafts -> Nat] /\ ambiguous \in [Drafts -> Nat] /\ forgotten \in [Drafts -> Nat]
<1>1. /\ toPhone[c] \in Seq(Drafts) /\ toServer[c] \in Seq(WireFrames)
      /\ toServer \in [Links -> Seq(WireFrames)]
  BY DEF InputTypeOK, WireFrames
<1>2. Len(toPhone[c]) \in Nat /\ Len(toServer[c]) \in Nat
  BY <1>1, LenProperties
<1>3. /\ \A i \in 1..Len(toPhone[c]) : toPhone[c][i] \in Drafts
      /\ \A i \in 1..Len(toServer[c]) : toServer[c][i] \in WireFrames
  BY <1>1, <1>2, ElementOfSeq
<1> QED BY <1>1, <1>2, <1>3 DEF InputTypeOK, LinkRecord

\* A connection that a step leaves alone stays sound.
LEMMA StillSound ==
    ASSUME InputTypeOK, NEW x \in Links, SoundLink(x), LedgerGrows,
           link'[x] = link[x], toServer'[x] = toServer[x], toPhone'[x] = toPhone[x]
    PROVE  SoundLink(x)'
<1>1. /\ link[x] \in LinkRecord
      /\ \A i \in 1..Len(toPhone[x]) : toPhone[x][i] \in Drafts
  BY InputTypes
<1>2. \A k \in Drafts : OnWire(x, k)' <=> OnWire(x, k)
  BY DEF OnWire
<1>3. link'[x].at \in {"send", "mark"} => \A k \in link'[x].key : Known(k)'
  BY <1>1 DEF SoundLink, LedgerGrows, LinkRecord
<1>4. \A i \in 1..Len(toPhone[x]) : written'[toPhone[x][i]] > 0
  BY <1>1 DEF SoundLink, LedgerGrows
<1>5. \A k \in Drafts : OnWire(x, k)' =>
        link'[x].at = "closed" \/ (link'[x].at = "mark" /\ k \in link'[x].key) \/ Settled(k)'
  BY <1>2 DEF SoundLink, LedgerGrows
<1> QED BY <1>3, <1>4, <1>5 DEF SoundLink

LEMMA OneLinkMoves ==
    ASSUME InputInvariant, NEW c \in Links, LedgerGrows, OtherLinksStay(c),
           InputTypeOK', LedgerIsSound', \A k \in Drafts : draft'[k].at = "sent" => written'[k] > 0,
           SoundLink(c)'
    PROVE  InputInvariant'
<1>1. \A x \in Links : SoundLink(x)'
  <2> SUFFICES ASSUME NEW x \in Links PROVE SoundLink(x)'
    OBVIOUS
  <2>1. CASE x = c
    BY <2>1
  <2>2. CASE x # c
    BY <2>2, StillSound DEF InputInvariant, OtherLinksStay
  <2> QED BY <2>1, <2>2
<1> QED BY <1>1 DEF InputInvariant

\* The ledger is not touched.
LEMMA QuietLedger ==
    ASSUME InputInvariant, UNCHANGED <<receipts, delivered, confirmed, written, ambiguous, forgotten, ptyErrors>>
    PROVE  /\ LedgerGrows /\ LedgerIsSound'
           /\ \A k \in Drafts : (Known(k)' <=> Known(k)) /\ (Settled(k)' <=> Settled(k))
<1>1. \A k \in Drafts : (Known(k)' <=> Known(k)) /\ (Settled(k)' <=> Settled(k))
  BY DEF Known, Settled, Tombstones
<1>2. LedgerIsSound'
  BY DEF InputInvariant, LedgerIsSound, Tombstones
<1> QED BY <1>1, <1>2 DEF LedgerGrows

\* A connection that the gateway has closed has nothing left to promise but
\* the receipts that are on their way.
LEMMA ClosedIsSound ==
    ASSUME NEW c \in Links, link'[c].at = "closed", ~link'[c].open => toPhone'[c] = <<>>,
           \A i \in 1..Len(toPhone'[c]) : written'[toPhone'[c][i]] > 0
    PROVE  SoundLink(c)'
BY DEF SoundLink

\* CloseLink as the handlers use it: what is on its way to the phone stays.
LEMMA CloseLinkIsSound ==
    ASSUME InputInvariant, NEW c \in Links, CloseLink(c), LedgerGrows, toPhone' = toPhone
    PROVE  /\ SoundLink(c)' /\ OtherLinksStay(c)
           /\ link' \in [Links -> LinkRecord] /\ toServer' \in [Links -> Seq(WireFrames)]
<1>1. /\ link[c] \in LinkRecord /\ link \in [Links -> LinkRecord] /\ toServer \in [Links -> Seq(WireFrames)]
      /\ \A i \in 1..Len(toPhone[c]) : toPhone[c][i] \in Drafts
      /\ InputTypeOK /\ SoundLink(c)
  BY InputTypes DEF InputInvariant
<1>2. /\ link'[c].at = "closed" /\ link'[c].open = link[c].open /\ link' \in [Links -> LinkRecord]
      /\ \A x \in Links \ {c} : link'[x] = link[x]
  BY <1>1 DEF CloseLink, LinkRecord
<1>3. /\ toServer' \in [Links -> Seq(WireFrames)]
      /\ \A x \in Links \ {c} : toServer'[x] = toServer[x]
  BY <1>1 DEF CloseLink
<1>4. \A i \in 1..Len(toPhone'[c]) : written'[toPhone'[c][i]] > 0
  BY <1>1 DEF SoundLink, LedgerGrows
<1>5. ~link'[c].open => toPhone'[c] = <<>>
  BY <1>1, <1>2 DEF SoundLink
<1> QED BY <1>2, <1>3, <1>4, <1>5, ClosedIsSound DEF OtherLinksStay

\* Frames of a sequence after Append and Tail, as OnWire sees them.
LEMMA AppendHas ==
    ASSUME NEW S, NEW q \in Seq(S), NEW e \in S, NEW y
    PROVE  /\ Append(q, e) \in Seq(S)
           /\ (\E i \in 1..Len(Append(q, e)) : Append(q, e)[i] = y) <=> (y = e \/ \E i \in 1..Len(q) : q[i] = y)
<1>1. /\ Append(q, e) \in Seq(S) /\ Len(Append(q, e)) = Len(q) + 1 /\ Append(q, e)[Len(q) + 1] = e
      /\ \A i \in 1..Len(q) : Append(q, e)[i] = q[i]
  BY AppendProperties
<1>2. Len(q) \in Nat
  BY LenProperties
<1> QED BY <1>1, <1>2

LEMMA TailHas ==
    ASSUME NEW S, NEW q \in Seq(S), q # <<>>, NEW y
    PROVE  /\ Tail(q) \in Seq(S) /\ Len(q) \in Nat /\ 1 \in 1..Len(q) /\ Head(q) = q[1] /\ Head(q) \in S
           /\ (\E i \in 1..Len(Tail(q)) : Tail(q)[i] = y) => (\E i \in 1..Len(q) : q[i] = y)
<1>1. /\ Tail(q) \in Seq(S) /\ Len(Tail(q)) = Len(q) - 1
      /\ \A i \in 1..Len(Tail(q)) : Tail(q)[i] = q[i + 1]
  BY HeadTailProperties
<1>2. Len(q) \in Nat /\ Len(q) # 0
  BY LenProperties, EmptySeq
<1>3. \A i \in 1..Len(Tail(q)) : i + 1 \in 1..Len(q)
  BY <1>1, <1>2
<1>4. Head(q) = q[1] /\ 1 \in 1..Len(q) /\ q[1] \in S
  BY <1>2, HeadTailProperties, ElementOfSeq
<1>5. (\E i \in 1..Len(Tail(q)) : Tail(q)[i] = y) => (\E i \in 1..Len(q) : q[i] = y)
  BY <1>1, <1>3
<1> QED BY <1>1, <1>2, <1>4, <1>5

\* A connection that is settled and holds no key has nothing else to promise.
LEMMA WireIsSound ==
    ASSUME NEW c \in Links, SoundLink(c), InputTypeOK, LedgerGrows,
           link'[c].at \in {"read", "renew", "write", "send"},
           link'[c].at # "read" => \E k \in Drafts : link'[c].key = {k},
           link'[c].at = "send" => \A k \in link'[c].key : Known(k)',
           link[c].at \in {"read", "renew", "write", "send"}, link'[c].open = link[c].open,
           toPhone'[c] = toPhone[c], \A k \in Drafts : OnWire(c, k)' => OnWire(c, k)
    PROVE  SoundLink(c)'
<1>1. \A i \in 1..Len(toPhone[c]) : toPhone[c][i] \in Drafts
  BY InputTypes
<1>2. \A i \in 1..Len(toPhone[c]) : written'[toPhone[c][i]] > 0
  BY <1>1 DEF SoundLink, LedgerGrows
<1>3. \A k \in Drafts : OnWire(c, k)' => Settled(k)'
  BY DEF SoundLink, LedgerGrows
<1>4. ~link'[c].open => toPhone'[c] = <<>>
  BY DEF SoundLink
<1> QED BY <1>2, <1>3, <1>4 DEF SoundLink

LEMMA DroppedLink ==
    ASSUME NEW r \in LinkRecord, NEW b \in BOOLEAN
    PROVE  [r EXCEPT !.open = b] \in LinkRecord
BY DEF LinkRecord

LEMMA OpenDropLeaveKeepInput ==
    ASSUME InputInvariant, NEW c \in Links,
           (\E p \in Phones : OpenLink(c, p)) \/ DropLink(c) \/ LeaveLink(c)
    PROVE  InputInvariant'
<1>1. /\ InputTypeOK /\ SoundLink(c) /\ link[c] \in LinkRecord /\ link \in [Links -> LinkRecord]
      /\ toServer \in [Links -> Seq(WireFrames)] /\ toPhone \in [Links -> Seq(Drafts)]
      /\ \A i \in 1..Len(toPhone[c]) : toPhone[c][i] \in Drafts
  BY InputTypes DEF InputInvariant
<1>2. /\ UNCHANGED <<receipts, delivered, confirmed, written, ambiguous, forgotten, ptyErrors>>
      /\ draft' = draft /\ toServer' = toServer /\ holder' = holder
  BY DEF OpenLink, DropLink, LeaveLink
<1>3. /\ LedgerGrows /\ LedgerIsSound'
      /\ \A k \in Drafts : (Known(k)' <=> Known(k)) /\ (Settled(k)' <=> Settled(k))
  BY <1>2, QuietLedger
<1>4. /\ link' \in [Links -> LinkRecord] /\ toPhone' \in [Links -> Seq(Drafts)] /\ OtherLinksStay(c)
      /\ SoundLink(c)'
  <2>1. ASSUME NEW p \in Phones, OpenLink(c, p)
        PROVE  link' \in [Links -> LinkRecord] /\ toPhone' \in [Links -> Seq(Drafts)] /\ OtherLinksStay(c) /\ SoundLink(c)'
    <3>1. /\ toPhone' = toPhone /\ link[c].at = "free"
          /\ link'[c] = [phone |-> p, open |-> TRUE, at |-> "read", key |-> {}]
          /\ \A x \in Links \ {c} : link'[x] = link[x]
      BY <1>1, <2>1 DEF OpenLink
    <3>2. link' \in [Links -> LinkRecord]
      BY <1>1, <2>1 DEF OpenLink, LinkRecord
    <3>3. toServer[c] = <<>> /\ toPhone[c] = <<>>
      BY <1>1, <3>1 DEF SoundLink
    <3>4. \A k \in Drafts : ~OnWire(c, k)'
      BY <1>2, <3>1, <3>3 DEF OnWire
    <3>5. SoundLink(c)'
      BY <1>2, <3>1, <3>3, <3>4 DEF SoundLink
    <3> QED BY <1>1, <1>2, <3>1, <3>2, <3>5 DEF OtherLinksStay
  <2>2. CASE DropLink(c)
    <3>1. /\ link'[c] = [link[c] EXCEPT !.open = FALSE] /\ toPhone'[c] = <<>>
          /\ \A x \in Links \ {c} : link'[x] = link[x] /\ toPhone'[x] = toPhone[x]
      BY <1>1, <2>2 DEF DropLink
    <3>2. link' \in [Links -> LinkRecord] /\ toPhone' \in [Links -> Seq(Drafts)]
      <4>1. PICK r \in LinkRecord : r = link[c]
        BY <1>1
      <4>2. [r EXCEPT !.open = FALSE] \in LinkRecord
        BY DroppedLink, Zenon
      <4> QED BY <1>1, <2>2, <4>1, <4>2 DEF DropLink
    <3>3. \A k \in Drafts : OnWire(c, k)' => OnWire(c, k)
      BY <1>2, <3>1 DEF OnWire
    <3>4. link'[c].at = link[c].at /\ link'[c].key = link[c].key /\ link'[c].open = FALSE
      BY <1>1, <3>1 DEF LinkRecord
    <3>5. link'[c].at \in {"send", "mark"} => \A k \in link'[c].key : Known(k)'
      BY <1>1, <1>3, <3>4 DEF SoundLink, LinkRecord
    <3>6. \A k \in Drafts : OnWire(c, k)' =>
             link'[c].at = "closed" \/ (link'[c].at = "mark" /\ k \in link'[c].key) \/ Settled(k)'
      BY <1>1, <1>3, <3>3, <3>4 DEF SoundLink
    <3>7. Len(toPhone'[c]) = 0
      BY <3>1
    <3>8. link'[c].at # "free"
      BY <1>1, <2>2, <3>4 DEF SoundLink, DropLink
    <3>9. link'[c].at \in {"renew", "write", "send", "mark"} => \E k \in Drafts : link'[c].key = {k}
      BY <1>1, <3>4 DEF SoundLink
    <3>10. SoundLink(c)'
      BY <3>1, <3>5, <3>6, <3>7, <3>8, <3>9 DEF SoundLink
    <3> QED BY <1>2, <3>1, <3>2, <3>10 DEF OtherLinksStay
  <2>3. CASE LeaveLink(c)
    <3>1. /\ link'[c] = NoLink /\ toPhone' = toPhone /\ ~link[c].open /\ toServer[c] = <<>>
          /\ \A x \in Links \ {c} : link'[x] = link[x]
      BY <1>1, <2>3 DEF LeaveLink
    <3>2. link' \in [Links -> LinkRecord]
      BY <1>1, <2>3 DEF LeaveLink, LinkRecord, NoLink
    <3>3. toPhone[c] = <<>>
      BY <1>1, <3>1 DEF SoundLink
    <3>4. \A k \in Drafts : ~OnWire(c, k)'
      BY <1>2, <3>1, <3>3 DEF OnWire
    <3>5. SoundLink(c)'
      BY <1>2, <3>1, <3>3, <3>4 DEF SoundLink, NoLink
    <3> QED BY <1>1, <1>2, <3>1, <3>2, <3>5 DEF OtherLinksStay
  <2> QED BY <2>1, <2>2, <2>3
<1>5. InputTypeOK'
  BY <1>1, <1>2, <1>4 DEF InputTypeOK, LinkRecord
<1> QED BY <1>2, <1>3, <1>4, <1>5, OneLinkMoves DEF InputInvariant

LEMMA LeaseKeepsInput ==
    ASSUME InputInvariant, InputLeaseExpires \/ \E c \in Links : \E take \in BOOLEAN : RequestLease(c, take)
    PROVE  InputInvariant'
<1>1. /\ UNCHANGED <<receipts, delivered, confirmed, written, ambiguous, forgotten, ptyErrors>>
      /\ UNCHANGED <<draft, link, toServer, toPhone>>
  BY DEF InputLeaseExpires, RequestLease
<1>2. holder' \in Phones \cup {Nobody}
  BY DEF InputLeaseExpires, RequestLease, InputInvariant, InputTypeOK
<1>3. LedgerGrows /\ LedgerIsSound'
  BY <1>1, QuietLedger
<1>4. \A c \in Links : SoundLink(c)'
  BY <1>1, <1>3, StillSound DEF InputInvariant
<1>5. InputTypeOK'
  BY <1>1, <1>2 DEF InputInvariant, InputTypeOK
<1> QED BY <1>1, <1>3, <1>4, <1>5 DEF InputInvariant

\* What the phone adds to a connection.
LEMMA SendIsSound ==
    ASSUME InputTypeOK, NEW c \in Links, NEW f \in WireFrames, Send(c, f)
    PROVE  /\ toServer' \in [Links -> Seq(WireFrames)]
           /\ \A x \in Links \ {c} : toServer'[x] = toServer[x]
           /\ \A y : (\E i \in 1..Len(toServer'[c]) : toServer'[c][i] = y)
                        => y = f \/ \E i \in 1..Len(toServer[c]) : toServer[c][i] = y
<1>1. toServer \in [Links -> Seq(WireFrames)] /\ toServer[c] \in Seq(WireFrames)
  BY InputTypes
<1>2. CASE link[c].at = "closed"
  BY <1>1, <1>2 DEF Send
<1>3. CASE link[c].at # "closed"
  <2>1. PICK q : q = Append(toServer[c], f)
    OBVIOUS
  <2>2. toServer' = [toServer EXCEPT ![c] = q]
    BY <1>3, <2>1 DEF Send
  <2>3. /\ q \in Seq(WireFrames)
        /\ \A y : (\E i \in 1..Len(q) : q[i] = y) <=> (y = f \/ \E i \in 1..Len(toServer[c]) : toServer[c][i] = y)
    BY <1>1, <2>1, AppendHas
  <2>4. toServer'[c] = q
    BY <1>1, <2>2
  <2> QED BY <1>1, <2>2, <2>3, <2>4
<1> QED BY <1>2, <1>3

LEMMA SendInputKeepsInput ==
    ASSUME InputInvariant, NEW c \in Links, NEW k0 \in Drafts, SendInput(c, k0)
    PROVE  InputInvariant'
<1>1. /\ InputTypeOK /\ SoundLink(c) /\ link[c] \in LinkRecord
      /\ \A i \in 1..Len(toPhone[c]) : toPhone[c][i] \in Drafts
  BY InputTypes DEF InputInvariant
<1>2. /\ UNCHANGED <<receipts, delivered, confirmed, written, ambiguous, forgotten, ptyErrors>>
      /\ link' = link /\ toPhone' = toPhone /\ holder' = holder /\ Send(c, <<"input", k0>>) /\ link[c].open
      /\ draft' = [draft EXCEPT ![k0] = [at |-> "attempted", phone |-> link[c].phone]]
  BY DEF SendInput
<1>3. /\ LedgerGrows /\ LedgerIsSound'
      /\ \A k \in Drafts : (Known(k)' <=> Known(k)) /\ (Settled(k)' <=> Settled(k))
  BY <1>2, QuietLedger
<1>4. /\ toServer' \in [Links -> Seq(WireFrames)]
      /\ \A x \in Links \ {c} : toServer'[x] = toServer[x]
      /\ \A y : (\E i \in 1..Len(toServer'[c]) : toServer'[c][i] = y)
                    => y = <<"input", k0>> \/ \E i \in 1..Len(toServer[c]) : toServer[c][i] = y
  <2>1. PICK f \in WireFrames : f = <<"input", k0>>
    BY <1>1, <1>2 DEF WireFrames
  <2>2. Send(c, f)
    BY <1>1, <1>2, <2>1
  <2>3. /\ toServer' \in [Links -> Seq(WireFrames)]
        /\ \A x \in Links \ {c} : toServer'[x] = toServer[x]
        /\ \A y : (\E i \in 1..Len(toServer'[c]) : toServer'[c][i] = y)
                      => y = f \/ \E i \in 1..Len(toServer[c]) : toServer[c][i] = y
    BY <1>1, <2>2, SendIsSound, Zenon
  <2> QED BY <2>1, <2>3
<1>5. \A k \in Drafts : OnWire(c, k)' => OnWire(c, k)
  <2>1. \A k \in Drafts : <<"confirm", k>> # <<"input", k0>>
    OBVIOUS
  <2> QED BY <1>2, <1>4, <2>1 DEF OnWire
<1>6. link[c].at # "free"
  BY <1>1, <1>2 DEF SoundLink
<1>7. link'[c].at \in {"send", "mark"} => \A k \in link'[c].key : Known(k)'
  BY <1>1, <1>2, <1>3 DEF SoundLink, LinkRecord
<1>8. \A k \in Drafts : OnWire(c, k)' =>
        link'[c].at = "closed" \/ (link'[c].at = "mark" /\ k \in link'[c].key) \/ Settled(k)'
  BY <1>1, <1>2, <1>3, <1>5 DEF SoundLink
<1>9. SoundLink(c)'
  BY <1>1, <1>2, <1>6, <1>7, <1>8 DEF SoundLink
<1>10. draft' \in [Drafts -> [at : {"new", "attempted", "sent"}, phone : Phones \cup {Nobody}]]
  BY <1>1, <1>2 DEF InputTypeOK, LinkRecord
<1>11. \A k \in Drafts : draft'[k].at = "sent" => written'[k] > 0
  BY <1>1, <1>2 DEF InputInvariant, InputTypeOK
<1>12. InputTypeOK'
  BY <1>1, <1>2, <1>4, <1>10 DEF InputTypeOK, WireFrames
<1>13. OtherLinksStay(c)
  BY <1>2, <1>4 DEF OtherLinksStay
<1> QED BY <1>3, <1>9, <1>11, <1>12, <1>13, OneLinkMoves

LEMMA ReceiveReceiptKeepsInput ==
    ASSUME InputInvariant, NEW c \in Links, ReceiveReceipt(c)
    PROVE  InputInvariant'
<1>1. /\ InputTypeOK /\ SoundLink(c) /\ link[c] \in LinkRecord
      /\ toPhone \in [Links -> Seq(Drafts)] /\ toPhone[c] \in Seq(Drafts)
      /\ \A i \in 1..Len(toPhone[c]) : toPhone[c][i] \in Drafts
      /\ written \in [Drafts -> Nat]
  BY InputTypes DEF InputInvariant
<1>2. PICK k0 : k0 = Head(toPhone[c])
  OBVIOUS
<1>3. PICK q : q = Tail(toPhone[c])
  OBVIOUS
<1>4. /\ UNCHANGED <<receipts, delivered, confirmed, written, ambiguous, forgotten, ptyErrors>>
      /\ link' = link /\ holder' = holder /\ Send(c, <<"confirm", k0>>) /\ link[c].open /\ toPhone[c] # <<>>
      /\ draft' = [draft EXCEPT ![k0].at = "sent"] /\ toPhone' = [toPhone EXCEPT ![c] = q]
  BY <1>2, <1>3 DEF ReceiveReceipt
<1>5. /\ k0 \in Drafts /\ 1 \in 1..Len(toPhone[c]) /\ k0 = toPhone[c][1] /\ q \in Seq(Drafts)
      /\ \A y : (\E i \in 1..Len(q) : q[i] = y) => (\E i \in 1..Len(toPhone[c]) : toPhone[c][i] = y)
  BY <1>1, <1>2, <1>3, <1>4, TailHas, SMTT(60)
<1>6. /\ LedgerGrows /\ LedgerIsSound'
      /\ \A k \in Drafts : (Known(k)' <=> Known(k)) /\ (Settled(k)' <=> Settled(k))
  BY <1>4, QuietLedger
<1>7. /\ toServer' \in [Links -> Seq(WireFrames)]
      /\ \A x \in Links \ {c} : toServer'[x] = toServer[x]
      /\ \A y : (\E i \in 1..Len(toServer'[c]) : toServer'[c][i] = y)
                    => y = <<"confirm", k0>> \/ \E i \in 1..Len(toServer[c]) : toServer[c][i] = y
  <2>1. PICK f \in WireFrames : f = <<"confirm", k0>>
    BY <1>1, <1>4, <1>5 DEF WireFrames
  <2>2. Send(c, f)
    BY <1>1, <1>4, <1>5, <2>1
  <2>3. /\ toServer' \in [Links -> Seq(WireFrames)]
        /\ \A x \in Links \ {c} : toServer'[x] = toServer[x]
        /\ \A y : (\E i \in 1..Len(toServer'[c]) : toServer'[c][i] = y)
                      => y = f \/ \E i \in 1..Len(toServer[c]) : toServer[c][i] = y
    BY <1>1, <2>2, SendIsSound, Zenon
  <2> QED BY <2>1, <2>3
<1>8. /\ toPhone'[c] = q /\ toPhone' \in [Links -> Seq(Drafts)]
      /\ \A x \in Links \ {c} : toPhone'[x] = toPhone[x]
  BY <1>1, <1>4, <1>5
<1>9. \A k \in Drafts : OnWire(c, k)' => OnWire(c, k)
  <2> SUFFICES ASSUME NEW k \in Drafts, OnWire(c, k)' PROVE OnWire(c, k)
    OBVIOUS
  <2>1. <<"confirm", k>> = <<"confirm", k0>> => k = k0
    OBVIOUS
  <2>2. \/ \E i \in 1..Len(q) : q[i] = k
        \/ \E i \in 1..Len(toServer'[c]) : toServer'[c][i] = <<"confirm", k>>
    BY <1>8 DEF OnWire
  <2>3. \/ \E i \in 1..Len(toPhone[c]) : toPhone[c][i] = k
        \/ \E i \in 1..Len(toServer[c]) : toServer[c][i] = <<"confirm", k>>
    BY <1>5, <1>7, <2>1, <2>2
  <2> QED BY <2>3 DEF OnWire
<1>10. link[c].at # "free"
  BY <1>1, <1>4 DEF SoundLink
<1>11. link'[c].at \in {"send", "mark"} => \A k \in link'[c].key : Known(k)'
  BY <1>1, <1>4, <1>6 DEF SoundLink, LinkRecord
<1>12. \A k \in Drafts : OnWire(c, k)' =>
         link'[c].at = "closed" \/ (link'[c].at = "mark" /\ k \in link'[c].key) \/ Settled(k)'
  BY <1>1, <1>4, <1>6, <1>9 DEF SoundLink
<1>13. \A i \in 1..Len(q) : written[q[i]] > 0
  BY <1>1, <1>5 DEF SoundLink
<1>14. SoundLink(c)'
  BY <1>1, <1>4, <1>8, <1>10, <1>11, <1>12, <1>13 DEF SoundLink
<1>15. draft' \in [Drafts -> [at : {"new", "attempted", "sent"}, phone : Phones \cup {Nobody}]]
  <2>1. draft \in [Drafts -> [at : {"new", "attempted", "sent"}, phone : Phones \cup {Nobody}]]
    BY <1>1 DEF InputTypeOK
  <2>2. [draft[k0] EXCEPT !.at = "sent"] \in [at : {"new", "attempted", "sent"}, phone : Phones \cup {Nobody}]
    BY <1>5, <2>1
  <2> QED BY <1>4, <2>1, <2>2
<1>16. written[k0] > 0
  BY <1>1, <1>5 DEF SoundLink
<1>17. \A k \in Drafts : draft'[k].at = "sent" => written'[k] > 0
  BY <1>1, <1>4, <1>5, <1>16 DEF InputInvariant, InputTypeOK
<1>18. InputTypeOK'
  BY <1>1, <1>4, <1>7, <1>8, <1>15 DEF InputTypeOK, WireFrames
<1>19. OtherLinksStay(c)
  BY <1>4, <1>7, <1>8 DEF OtherLinksStay
<1> QED BY <1>6, <1>14, <1>17, <1>18, <1>19, OneLinkMoves

\* A handler moves on: the record of its connection.
LEMMA HandlerMoves ==
    ASSUME InputTypeOK, NEW c \in Links,
           NEW at \in {"read", "renew", "write", "send", "mark"}, NEW key \in SUBSET Drafts,
           link' = [link EXCEPT ![c].at = at, ![c].key = key]
    PROVE  /\ link' \in [Links -> LinkRecord] /\ link'[c].at = at /\ link'[c].key = key
           /\ link'[c].open = link[c].open
           /\ \A x \in Links \ {c} : link'[x] = link[x]
<1>1. link[c] \in LinkRecord /\ link \in [Links -> LinkRecord]
  BY InputTypes
<1>2. PICK r : r = [link[c] EXCEPT !.at = at, !.key = key]
  OBVIOUS
<1>3. r \in LinkRecord /\ r.at = at /\ r.key = key /\ r.open = link[c].open
  BY <1>1, <1>2 DEF LinkRecord
<1>4. link' = [link EXCEPT ![c] = r]
  BY <1>1, <1>2
<1> QED BY <1>1, <1>3, <1>4

LEMMA HandlerAtMoves ==
    ASSUME InputTypeOK, NEW c \in Links, NEW at \in {"read", "renew", "write", "send", "mark"},
           HandlerAt(c, at)
    PROVE  /\ link' \in [Links -> LinkRecord] /\ link'[c].at = at /\ link'[c].key = link[c].key
           /\ link'[c].open = link[c].open
           /\ \A x \in Links \ {c} : link'[x] = link[x]
<1>1. link[c] \in LinkRecord /\ link \in [Links -> LinkRecord]
  BY InputTypes
<1>2. PICK r : r = [link[c] EXCEPT !.at = at]
  OBVIOUS
<1>3. r \in LinkRecord /\ r.at = at /\ r.key = link[c].key /\ r.open = link[c].open
  BY <1>1, <1>2 DEF LinkRecord
<1>4. link' = [link EXCEPT ![c] = r]
  BY <1>2 DEF HandlerAt
<1> QED BY <1>1, <1>3, <1>4

\* The handler takes the frame at the head.
LEMMA FrameTaken ==
    ASSUME InputTypeOK, NEW c \in Links, toServer[c] # <<>>,
           toServer' = [toServer EXCEPT ![c] = Tail(toServer[c])], toPhone' = toPhone
    PROVE  /\ Head(toServer[c]) \in WireFrames /\ Head(toServer[c]) = toServer[c][1] /\ 1 \in 1..Len(toServer[c])
           /\ toServer' \in [Links -> Seq(WireFrames)]
           /\ \A x \in Links \ {c} : toServer'[x] = toServer[x] /\ toPhone'[x] = toPhone[x]
           /\ \A k \in Drafts : OnWire(c, k)' => OnWire(c, k)
<1>1. toServer \in [Links -> Seq(WireFrames)] /\ toServer[c] \in Seq(WireFrames)
  BY InputTypes
<1>2. PICK q : q = Tail(toServer[c])
  OBVIOUS
<1>3. /\ q \in Seq(WireFrames) /\ Head(toServer[c]) \in WireFrames /\ Head(toServer[c]) = toServer[c][1]
      /\ 1 \in 1..Len(toServer[c])
      /\ \A y : (\E i \in 1..Len(q) : q[i] = y) => (\E i \in 1..Len(toServer[c]) : toServer[c][i] = y)
  BY <1>1, <1>2, TailHas
<1>4. toServer' = [toServer EXCEPT ![c] = q] /\ toServer'[c] = q
  BY <1>1, <1>2
<1>5. \A k \in Drafts : OnWire(c, k)' => OnWire(c, k)
  BY <1>3, <1>4 DEF OnWire
<1> QED BY <1>1, <1>3, <1>4, <1>5

LEMMA ReadInputKeepsInput ==
    ASSUME InputInvariant, NEW c \in Links, ReadInput(c)
    PROVE  InputInvariant'
<1>1. InputTypeOK /\ SoundLink(c)
  BY DEF InputInvariant
<1>2. /\ UNCHANGED <<receipts, delivered, confirmed, written, ambiguous, forgotten, ptyErrors>>
      /\ draft' = draft /\ toPhone' = toPhone /\ holder' = holder
      /\ link[c].at = "read" /\ toServer[c] # <<>>
      /\ toServer' = [toServer EXCEPT ![c] = Tail(toServer[c])]
  BY DEF ReadInput
<1>3. PICK k0 : k0 = Head(toServer[c])[2]
  OBVIOUS
<1>4. /\ LedgerGrows /\ LedgerIsSound'
      /\ \A k \in Drafts : (Known(k)' <=> Known(k)) /\ (Settled(k)' <=> Settled(k))
  BY <1>2, QuietLedger
<1>5. /\ Head(toServer[c]) \in WireFrames /\ toServer' \in [Links -> Seq(WireFrames)]
      /\ \A x \in Links \ {c} : toServer'[x] = toServer[x] /\ toPhone'[x] = toPhone[x]
      /\ \A k \in Drafts : OnWire(c, k)' => OnWire(c, k)
  BY <1>1, <1>2, FrameTaken
<1>6. k0 \in Drafts
  BY <1>3, <1>5 DEF WireFrames
<1>7. PICK at : at = IF k0 \in receipts \cup Tombstones THEN "send" ELSE "renew"
  OBVIOUS
<1>8. link' = [link EXCEPT ![c].at = at, ![c].key = {k0}]
  BY <1>3, <1>7 DEF ReadInput
<1>9. at \in {"send", "renew"} /\ (at = "send" => Known(k0))
  BY <1>7 DEF Known
<1>10. /\ link' \in [Links -> LinkRecord] /\ link'[c].at = at /\ link'[c].key = {k0}
       /\ link'[c].open = link[c].open
       /\ \A x \in Links \ {c} : link'[x] = link[x]
  <2>1. at \in {"read", "renew", "write", "send", "mark"} /\ {k0} \in SUBSET Drafts
    BY <1>6, <1>9
  <2> QED BY <1>1, <1>8, <2>1, HandlerMoves, ZenonT(60)
<1>11. SoundLink(c)'
  BY <1>1, <1>2, <1>4, <1>5, <1>6, <1>9, <1>10, WireIsSound
<1>12. InputTypeOK'
  BY <1>1, <1>2, <1>5, <1>10 DEF InputTypeOK, LinkRecord, WireFrames
<1>13. OtherLinksStay(c)
  BY <1>5, <1>10 DEF OtherLinksStay
<1> QED BY <1>2, <1>4, <1>11, <1>12, <1>13, OneLinkMoves DEF InputInvariant

LEMMA RenewLeaseKeepsInput ==
    ASSUME InputInvariant, NEW c \in Links, RenewLease(c)
    PROVE  InputInvariant'
<1>1. /\ InputTypeOK /\ SoundLink(c) /\ toServer \in [Links -> Seq(WireFrames)]
      /\ toPhone \in [Links -> Seq(Drafts)]
  BY InputTypes DEF InputInvariant
<1>2. /\ UNCHANGED <<receipts, delivered, confirmed, written, ambiguous, forgotten, ptyErrors>>
      /\ draft' = draft /\ toPhone' = toPhone /\ holder' = holder /\ link[c].at = "renew"
      /\ (HandlerAt(c, "write") /\ toServer' = toServer) \/ CloseLink(c)
  BY DEF RenewLease
<1>3. LedgerGrows /\ LedgerIsSound'
  BY <1>2, QuietLedger
<1>4. /\ SoundLink(c)' /\ OtherLinksStay(c)
      /\ link' \in [Links -> LinkRecord] /\ toServer' \in [Links -> Seq(WireFrames)]
  <2>1. CASE CloseLink(c)
    BY <1>2, <1>3, <2>1, CloseLinkIsSound
  <2>2. CASE HandlerAt(c, "write") /\ toServer' = toServer
    <3>1. /\ link' \in [Links -> LinkRecord] /\ link'[c].at = "write" /\ link'[c].key = link[c].key
          /\ link'[c].open = link[c].open
          /\ \A x \in Links \ {c} : link'[x] = link[x]
      BY <1>1, <2>2, HandlerAtMoves
    <3>2. \A k \in Drafts : OnWire(c, k)' => OnWire(c, k)
      BY <1>2, <2>2 DEF OnWire
    <3>3. \E k \in Drafts : link'[c].key = {k}
      BY <1>1, <1>2, <3>1 DEF SoundLink
    <3>4. SoundLink(c)'
      BY <1>1, <1>2, <1>3, <3>1, <3>2, <3>3, WireIsSound
    <3> QED BY <1>1, <1>2, <2>2, <3>1, <3>4 DEF OtherLinksStay
  <2> QED BY <1>2, <2>1, <2>2
<1>5. InputTypeOK'
  BY <1>1, <1>2, <1>4 DEF InputTypeOK, LinkRecord, WireFrames
<1> QED BY <1>2, <1>3, <1>4, <1>5, OneLinkMoves DEF InputInvariant

\* A key that a step writes to the PTY once more, with or without a receipt.
LEMMA WriteGrows ==
    ASSUME InputInvariant, NEW k0 \in Drafts, k0 \notin receipts \cup Tombstones,
           delivered' = delivered, confirmed' = confirmed, forgotten' = forgotten,
           written' = [written EXCEPT ![k0] = written[k0] + 1],
           \/ receipts' = receipts \cup {k0} /\ ambiguous' = ambiguous
           \/ receipts' = receipts /\ ambiguous' = [ambiguous EXCEPT ![k0] = ambiguous[k0] + 1]
    PROVE  /\ LedgerGrows /\ LedgerIsSound'
           /\ written' \in [Drafts -> Nat] /\ ambiguous' \in [Drafts -> Nat] /\ receipts' \subseteq Drafts
           /\ \A k \in Drafts : written[k] > 0 => written'[k] > 0
<1>1. /\ written \in [Drafts -> Nat] /\ ambiguous \in [Drafts -> Nat] /\ forgotten \in [Drafts -> Nat]
      /\ receipts \subseteq Drafts
  BY DEF InputInvariant, InputTypeOK
<1>2. Tombstones' = Tombstones
  BY DEF Tombstones
<1>3. \A k \in Drafts : written[k] > 0 => written'[k] > 0
  BY <1>1
<1>4. \A k \in Drafts : (Known(k) => Known(k)') /\ (Settled(k) => Settled(k)')
  BY <1>2 DEF Known, Settled
<1>5. \A k \in Drafts :
        written'[k] = (IF k \in receipts' \cup Tombstones THEN 1 ELSE 0) + ambiguous'[k] + forgotten[k]
  <2> SUFFICES ASSUME NEW k \in Drafts
               PROVE  written'[k] = (IF k \in receipts' \cup Tombstones THEN 1 ELSE 0) + ambiguous'[k] + forgotten[k]
    OBVIOUS
  <2>1. written[k] = (IF k \in receipts \cup Tombstones THEN 1 ELSE 0) + ambiguous[k] + forgotten[k]
    BY DEF InputInvariant, LedgerIsSound
  <2>2. CASE k = k0
    BY <1>1, <2>1, <2>2
  <2>3. CASE k # k0
    BY <1>1, <2>1, <2>3
  <2> QED BY <2>2, <2>3
<1>6. LedgerIsSound'
  BY <1>2, <1>5 DEF LedgerIsSound, InputInvariant
<1> QED BY <1>1, <1>3, <1>4, <1>6 DEF LedgerGrows

LEMMA WriteInputKeepsInput ==
    ASSUME InputInvariant, NEW c \in Links, WriteInput(c)
    PROVE  InputInvariant'
<1>1. /\ InputTypeOK /\ SoundLink(c) /\ toServer \in [Links -> Seq(WireFrames)] /\ link[c] \in LinkRecord
      /\ toPhone \in [Links -> Seq(Drafts)] /\ written \in [Drafts -> Nat] /\ ambiguous \in [Drafts -> Nat]
      /\ ptyErrors \in 0..MaxPtyErrors /\ MaxPtyErrors \in Nat
  BY InputTypes, InputAssumption DEF InputInvariant, InputTypeOK
<1>2. /\ draft' = draft /\ toPhone' = toPhone /\ holder' = holder /\ link[c].at = "write"
      /\ delivered' = delivered /\ confirmed' = confirmed /\ forgotten' = forgotten
  BY DEF WriteInput
<1>3. PICK k0 \in link[c].key :
        \/ /\ k0 \in receipts \cup Tombstones
           /\ HandlerAt(c, "send")
           /\ UNCHANGED <<toServer, receipts, written, ambiguous, ptyErrors>>
        \/ CloseLink(c) /\ UNCHANGED <<receipts, written, ambiguous, ptyErrors>>
        \/ /\ k0 \notin receipts \cup Tombstones
           /\ written' = [written EXCEPT ![k0] = written[k0] + 1]
           /\ receipts' = receipts \cup {k0}
           /\ HandlerAt(c, "send")
           /\ UNCHANGED <<toServer, ambiguous, ptyErrors>>
        \/ /\ k0 \notin receipts \cup Tombstones
           /\ ptyErrors < MaxPtyErrors /\ ptyErrors' = ptyErrors + 1
           /\ UNCHANGED <<written, ambiguous>> \/ (/\ written' = [written EXCEPT ![k0] = written[k0] + 1]
                                                   /\ ambiguous' = [ambiguous EXCEPT ![k0] = ambiguous[k0] + 1])
           /\ CloseLink(c) /\ UNCHANGED receipts
  BY Zenon DEF WriteInput
<1>4. k0 \in Drafts /\ link[c].key = {k0}
  BY <1>1, <1>2 DEF SoundLink, LinkRecord
<1>5. /\ LedgerGrows /\ LedgerIsSound'
      /\ written' \in [Drafts -> Nat] /\ ambiguous' \in [Drafts -> Nat] /\ receipts' \subseteq Drafts
      /\ receipts \subseteq receipts'
      /\ ptyErrors' \in 0..MaxPtyErrors
      /\ \A k \in Drafts : written[k] > 0 => written'[k] > 0
  <2>1. ASSUME receipts' = receipts, written' = written, ambiguous' = ambiguous
        PROVE  LedgerGrows /\ LedgerIsSound'
    <3>1. \A k \in Drafts : (Known(k)' <=> Known(k)) /\ (Settled(k)' <=> Settled(k))
      BY <1>2, <2>1 DEF Known, Settled, Tombstones
    <3>2. LedgerIsSound'
      BY <1>2, <2>1 DEF InputInvariant, LedgerIsSound, Tombstones
    <3> QED BY <2>1, <3>1, <3>2 DEF LedgerGrows
  <2>2. CASE receipts' = receipts /\ written' = written /\ ambiguous' = ambiguous
    <3>1. ptyErrors' \in 0..MaxPtyErrors
      BY <1>1, <1>3
    <3> QED BY <1>1, <2>1, <2>2, <3>1 DEF InputTypeOK
  <2>3. CASE /\ k0 \notin receipts \cup Tombstones
             /\ written' = [written EXCEPT ![k0] = written[k0] + 1]
             /\ \/ receipts' = receipts \cup {k0} /\ ambiguous' = ambiguous
                \/ receipts' = receipts /\ ambiguous' = [ambiguous EXCEPT ![k0] = ambiguous[k0] + 1]
    <3>1. ptyErrors' \in 0..MaxPtyErrors
      BY <1>1, <1>3
    <3> QED BY <1>2, <1>4, <2>3, <3>1, WriteGrows
  <2> QED BY <1>3, <2>2, <2>3
<1>6. /\ SoundLink(c)' /\ OtherLinksStay(c)
      /\ link' \in [Links -> LinkRecord] /\ toServer' \in [Links -> Seq(WireFrames)]
  <2>1. CASE CloseLink(c)
    BY <1>2, <1>5, <2>1, CloseLinkIsSound
  <2>2. CASE HandlerAt(c, "send") /\ toServer' = toServer /\ k0 \in receipts' \cup Tombstones
    <3>1. /\ link' \in [Links -> LinkRecord] /\ link'[c].at = "send" /\ link'[c].key = link[c].key
          /\ link'[c].open = link[c].open
          /\ \A x \in Links \ {c} : link'[x] = link[x]
      BY <1>1, <2>2, HandlerAtMoves
    <3>2. \A k \in Drafts : OnWire(c, k)' => OnWire(c, k)
      BY <1>2, <2>2 DEF OnWire
    <3>3. Known(k0)'
      BY <1>2, <2>2 DEF Known, Tombstones
    <3>4. SoundLink(c)'
      BY <1>1, <1>2, <1>4, <1>5, <3>1, <3>2, <3>3, WireIsSound
    <3> QED BY <1>1, <1>2, <2>2, <3>1, <3>4 DEF OtherLinksStay
  <2> QED BY <1>3, <2>1, <2>2
<1>7. InputTypeOK'
  BY <1>1, <1>2, <1>5, <1>6 DEF InputTypeOK, LinkRecord, WireFrames
<1>8. \A k \in Drafts : draft'[k].at = "sent" => written'[k] > 0
  BY <1>2, <1>5 DEF InputInvariant
<1> QED BY <1>5, <1>6, <1>7, <1>8, OneLinkMoves

\* What is known was written.
LEMMA KnownIsWritten ==
    ASSUME InputInvariant, NEW k \in Drafts, Known(k)
    PROVE  written[k] > 0
<1>1. written[k] = (IF k \in receipts \cup Tombstones THEN 1 ELSE 0) + ambiguous[k] + forgotten[k]
  BY DEF InputInvariant, LedgerIsSound
<1>2. ambiguous[k] \in Nat /\ forgotten[k] \in Nat
  BY DEF InputInvariant, InputTypeOK
<1> QED BY <1>1, <1>2 DEF Known

LEMMA SendReceiptKeepsInput ==
    ASSUME InputInvariant, NEW c \in Links, SendReceipt(c)
    PROVE  InputInvariant'
<1>1. /\ InputTypeOK /\ SoundLink(c) /\ toServer \in [Links -> Seq(WireFrames)] /\ link[c] \in LinkRecord
      /\ toPhone \in [Links -> Seq(Drafts)] /\ toPhone[c] \in Seq(Drafts) /\ Len(toPhone[c]) \in Nat
      /\ link \in [Links -> LinkRecord]
      /\ \A i \in 1..Len(toPhone[c]) : toPhone[c][i] \in Drafts
  BY InputTypes DEF InputInvariant
<1>2. /\ UNCHANGED <<receipts, delivered, confirmed, written, ambiguous, forgotten, ptyErrors>>
      /\ draft' = draft /\ holder' = holder /\ link[c].at = "send"
  BY DEF SendReceipt
<1>3. /\ LedgerGrows /\ LedgerIsSound'
      /\ \A k \in Drafts : (Known(k)' <=> Known(k)) /\ (Settled(k)' <=> Settled(k))
  BY <1>2, QuietLedger
<1>4. PICK k0 \in Drafts : link[c].key = {k0}
  BY <1>1, <1>2 DEF SoundLink
<1>5. (CHOOSE k \in link[c].key : TRUE) = k0
  BY <1>4
<1>6. Known(k0) /\ written[k0] > 0
  BY <1>1, <1>2, <1>4, KnownIsWritten DEF SoundLink
<1>7. PICK q : q = Append(toPhone[c], k0)
  OBVIOUS
<1>8. /\ q \in Seq(Drafts) /\ Len(q) = Len(toPhone[c]) + 1 /\ q[Len(toPhone[c]) + 1] = k0
      /\ \A i \in 1..Len(toPhone[c]) : q[i] = toPhone[c][i]
  BY <1>1, <1>7, AppendProperties
<1>9. \A i \in 1..Len(q) : written[q[i]] > 0 /\ (q[i] = k0 \/ \E j \in 1..Len(toPhone[c]) : toPhone[c][j] = q[i])
  <2> SUFFICES ASSUME NEW i \in 1..Len(q)
               PROVE  written[q[i]] > 0 /\ (q[i] = k0 \/ \E j \in 1..Len(toPhone[c]) : toPhone[c][j] = q[i])
    OBVIOUS
  <2>1. CASE i = Len(toPhone[c]) + 1
    BY <1>6, <1>8, <2>1
  <2>2. CASE i # Len(toPhone[c]) + 1
    <3>1. i \in 1..Len(toPhone[c]) /\ q[i] = toPhone[c][i]
      BY <1>1, <1>8, <2>2
    <3> QED BY <1>1, <3>1 DEF SoundLink
  <2> QED BY <2>1, <2>2
<1>10. \/ /\ link[c].open /\ toPhone' = [toPhone EXCEPT ![c] = q]
          /\ (HandlerAt(c, "mark") /\ toServer' = toServer) \/ CloseLink(c)
       \/ CloseLink(c) /\ toPhone' = toPhone
  BY <1>5, <1>7 DEF SendReceipt
<1>11. /\ SoundLink(c)' /\ OtherLinksStay(c) /\ toPhone' \in [Links -> Seq(Drafts)]
       /\ link' \in [Links -> LinkRecord] /\ toServer' \in [Links -> Seq(WireFrames)]
  <2>1. CASE CloseLink(c) /\ toPhone' = toPhone
    BY <1>1, <1>3, <2>1, CloseLinkIsSound
  <2>2. CASE link[c].open /\ toPhone' = [toPhone EXCEPT ![c] = q] /\ CloseLink(c)
    <3>1. /\ toPhone'[c] = q /\ toPhone' \in [Links -> Seq(Drafts)]
          /\ \A x \in Links \ {c} : toPhone'[x] = toPhone[x]
      BY <1>1, <1>8, <2>2
    <3>2. /\ link'[c].at = "closed" /\ link'[c].open = link[c].open /\ link' \in [Links -> LinkRecord]
          /\ \A x \in Links \ {c} : link'[x] = link[x]
      BY <1>1, <2>2 DEF CloseLink, LinkRecord
    <3>3. /\ toServer' \in [Links -> Seq(WireFrames)]
          /\ \A x \in Links \ {c} : toServer'[x] = toServer[x]
      BY <1>1, <2>2 DEF CloseLink
    <3>4. SoundLink(c)'
      BY <1>2, <1>9, <2>2, <3>1, <3>2, ClosedIsSound
    <3> QED BY <3>1, <3>2, <3>3, <3>4 DEF OtherLinksStay
  <2>3. CASE link[c].open /\ toPhone' = [toPhone EXCEPT ![c] = q] /\ HandlerAt(c, "mark") /\ toServer' = toServer
    <3>1. /\ toPhone'[c] = q /\ toPhone' \in [Links -> Seq(Drafts)]
          /\ \A x \in Links \ {c} : toPhone'[x] = toPhone[x]
      BY <1>1, <1>8, <2>3
    <3>2. /\ link' \in [Links -> LinkRecord] /\ link'[c].at = "mark" /\ link'[c].key = link[c].key
          /\ link'[c].open = link[c].open
          /\ \A x \in Links \ {c} : link'[x] = link[x]
      BY <1>1, <2>3, HandlerAtMoves
    <3>3. \A k \in Drafts : OnWire(c, k)' => k = k0 \/ OnWire(c, k)
      BY <1>9, <2>3, <3>1 DEF OnWire
    <3>4. \A k \in Drafts : OnWire(c, k) => Settled(k)
      BY <1>1, <1>2 DEF SoundLink
    <3>5. \A k \in Drafts : OnWire(c, k)' => k \in link'[c].key \/ Settled(k)'
      BY <1>3, <1>4, <3>2, <3>3, <3>4
    <3>6. \A k \in link'[c].key : Known(k)'
      BY <1>3, <1>4, <1>6, <3>2
    <3>7. \E k \in Drafts : link'[c].key = {k}
      BY <1>4, <3>2
    <3>8. link'[c].open /\ \A i \in 1..Len(toPhone'[c]) : written'[toPhone'[c][i]] > 0
      BY <1>2, <1>9, <2>3, <3>1, <3>2
    <3>9. SoundLink(c)'
      BY <3>2, <3>5, <3>6, <3>7, <3>8 DEF SoundLink
    <3> QED BY <1>1, <2>3, <3>1, <3>2, <3>9 DEF OtherLinksStay
  <2> QED BY <1>10, <2>1, <2>2, <2>3
<1>12. InputTypeOK'
  BY <1>1, <1>2, <1>11 DEF InputTypeOK, LinkRecord, WireFrames
<1> QED BY <1>2, <1>3, <1>11, <1>12, OneLinkMoves DEF InputInvariant

LEMMA MarkReceiptKeepsInput ==
    ASSUME InputInvariant, NEW c \in Links, MarkReceipt(c)
    PROVE  InputInvariant'
<1>1. /\ InputTypeOK /\ SoundLink(c) /\ toServer \in [Links -> Seq(WireFrames)] /\ link[c] \in LinkRecord
      /\ toPhone \in [Links -> Seq(Drafts)] /\ receipts \subseteq Drafts /\ delivered \subseteq receipts
      /\ \A i \in 1..Len(toPhone[c]) : toPhone[c][i] \in Drafts
  BY InputTypes DEF InputInvariant, InputTypeOK
<1>2. /\ UNCHANGED <<draft, toPhone, holder, receipts, confirmed, written, ambiguous, forgotten, ptyErrors>>
      /\ link[c].at = "mark"
  BY DEF MarkReceipt
<1>3. PICK k0 \in Drafts : link[c].key = {k0}
  BY <1>1, <1>2 DEF SoundLink
<1>4. \/ /\ k0 \in receipts \cup Tombstones
         /\ link' = [link EXCEPT ![c].at = "read", ![c].key = {}]
         /\ delivered' = delivered \cup ({k0} \cap receipts)
         /\ toServer' = toServer
      \/ CloseLink(c) /\ delivered' = delivered
  BY <1>3, Zenon DEF MarkReceipt
<1>5. delivered \subseteq delivered' /\ delivered' \subseteq receipts
  BY <1>1, <1>4
<1>6. LedgerGrows
  BY <1>2, <1>5 DEF LedgerGrows, Known, Settled, Tombstones
<1>7. LedgerIsSound'
  BY <1>2 DEF InputInvariant, LedgerIsSound, Tombstones
<1>8. /\ SoundLink(c)' /\ OtherLinksStay(c)
      /\ link' \in [Links -> LinkRecord] /\ toServer' \in [Links -> Seq(WireFrames)]
  <2>1. CASE CloseLink(c)
    BY <1>2, <1>6, <2>1, CloseLinkIsSound
  <2>2. CASE /\ k0 \in receipts \cup Tombstones
             /\ link' = [link EXCEPT ![c].at = "read", ![c].key = {}]
             /\ delivered' = delivered \cup ({k0} \cap receipts)
             /\ toServer' = toServer
    <3>1. /\ link' \in [Links -> LinkRecord] /\ link'[c].at = "read" /\ link'[c].key = {}
          /\ link'[c].open = link[c].open
          /\ \A x \in Links \ {c} : link'[x] = link[x]
      <4>1. {} \in SUBSET Drafts /\ "read" \in {"read", "renew", "write", "send", "mark"}
        OBVIOUS
      <4> QED BY <1>1, <2>2, <4>1, HandlerMoves, Zenon
    <3>2. \A k \in Drafts : OnWire(c, k)' => OnWire(c, k)
      BY <1>2, <2>2 DEF OnWire
    <3>3. Settled(k0)'
      BY <1>2, <2>2 DEF Settled, Tombstones
    <3>4. \A k \in Drafts : OnWire(c, k)' => Settled(k)'
      BY <1>1, <1>2, <1>3, <1>6, <3>2, <3>3 DEF SoundLink, LedgerGrows
    <3>5. \A i \in 1..Len(toPhone[c]) : written[toPhone[c][i]] > 0
      BY <1>1 DEF SoundLink
    <3>6. ~link'[c].open => toPhone'[c] = <<>>
      BY <1>1, <1>2, <3>1 DEF SoundLink
    <3>7. SoundLink(c)'
      BY <1>2, <3>1, <3>4, <3>5, <3>6 DEF SoundLink
    <3> QED BY <1>1, <1>2, <2>2, <3>1, <3>7 DEF OtherLinksStay
  <2> QED BY <1>4, <2>1, <2>2
<1>9. InputTypeOK'
  BY <1>1, <1>2, <1>5, <1>8 DEF InputTypeOK, LinkRecord, WireFrames
<1> QED BY <1>2, <1>6, <1>7, <1>8, <1>9, OneLinkMoves DEF InputInvariant

\* A key joins a sequence of distinct keys, or the oldest leaves it.
Entries(p) == {p[i] : i \in 1..Len(p)}
Distinct(p) == \A i, j \in 1..Len(p) : p[i] = p[j] => i = j

LEMMA TombstoneJoins ==
    ASSUME NEW p \in Seq(Drafts), NEW k0 \in Drafts, k0 \notin Entries(p), Distinct(p),
           NEW r, r = Append(p, k0)
    PROVE  r \in Seq(Drafts) /\ Len(r) = Len(p) + 1 /\ Distinct(r) /\ Entries(r) = Entries(p) \cup {k0}
<1> USE DEF Entries, Distinct
<1> DEFINE n == Len(p)
<1>1. /\ r \in Seq(Drafts) /\ Len(r) = n + 1 /\ r[n + 1] = k0 /\ \A i \in 1..n : r[i] = p[i]
  BY AppendProperties
<1>2. n \in Nat
  BY LenProperties
<1>3. ASSUME NEW i \in 1..n + 1, NEW j \in 1..n + 1, r[i] = r[j]
      PROVE  i = j
  <2>1. CASE i = n + 1 /\ j = n + 1
    BY <2>1
  <2>2. CASE i # n + 1 /\ j # n + 1
    <3>1. i \in 1..n /\ j \in 1..n
      BY <1>2, <2>2
    <3> QED BY <1>1, <1>3, <3>1
  <2>3. CASE i = n + 1 /\ j # n + 1
    <3>1. j \in 1..n
      BY <1>2, <2>3
    <3> QED BY <1>1, <1>3, <2>3, <3>1
  <2>4. CASE i # n + 1 /\ j = n + 1
    <3>1. i \in 1..n
      BY <1>2, <2>4
    <3> QED BY <1>1, <1>3, <2>4, <3>1
  <2> QED BY <2>1, <2>2, <2>3, <2>4
<1>4. {r[i] : i \in 1..n + 1} = {p[i] : i \in 1..n} \cup {k0}
  <2>1. \A i \in 1..n + 1 : r[i] \in {p[j] : j \in 1..n} \cup {k0}
    <3> SUFFICES ASSUME NEW i \in 1..n + 1 PROVE r[i] \in {p[j] : j \in 1..n} \cup {k0}
      OBVIOUS
    <3>1. i = n + 1 \/ i \in 1..n
      BY <1>2
    <3> QED BY <1>1, <3>1
  <2>2. \A i \in 1..n : i \in 1..n + 1 /\ p[i] = r[i]
    BY <1>1, <1>2
  <2>3. n + 1 \in 1..n + 1 /\ k0 = r[n + 1]
    BY <1>1, <1>2
  <2> QED BY <2>1, <2>2, <2>3
<1> QED BY <1>1, <1>3, <1>4

LEMMA TombstoneLeaves ==
    ASSUME NEW p \in Seq(Drafts), p # <<>>, Distinct(p), NEW r, r = Tail(p), NEW h, h = Head(p)
    PROVE  /\ r \in Seq(Drafts) /\ Len(r) = Len(p) - 1 /\ Distinct(r) /\ h \in Entries(p) /\ h \in Drafts
           /\ Entries(r) = Entries(p) \ {h}
<1> USE DEF Entries, Distinct
<1> DEFINE n == Len(p)
<1>1. /\ r \in Seq(Drafts) /\ Len(r) = n - 1 /\ \A i \in 1..Len(r) : r[i] = p[i + 1]
      /\ Head(p) = p[1]
  BY HeadTailProperties
<1>2. n \in Nat /\ n # 0 /\ 1 \in 1..n
  BY LenProperties, EmptySeq
<1>6. h = p[1] /\ p[1] \in Drafts
  BY <1>1, <1>2, ElementOfSeq
<1> HIDE DEF n
<1>3. \A i \in 1..n - 1 : r[i] = p[i + 1] /\ i + 1 \in 1..n /\ i + 1 # 1
  BY <1>1, <1>2
<1>4. ASSUME NEW i \in 1..n - 1, NEW j \in 1..n - 1, r[i] = r[j]
      PROVE  i = j
  <2>1. i + 1 = j + 1
    BY <1>3, <1>4 DEF n
  <2> QED BY <1>2, <2>1
<1>5. {r[i] : i \in 1..n - 1} = {p[i] : i \in 1..n} \ {p[1]}
  <2>1. \A i \in 1..n - 1 : r[i] \in {p[j] : j \in 1..n} \ {p[1]}
    BY <1>2, <1>3 DEF n
  <2>2. ASSUME NEW j \in 1..n, p[j] # p[1]
        PROVE  \E i \in 1..n - 1 : r[i] = p[j]
    <3>1. j - 1 \in 1..n - 1 /\ (j - 1) + 1 = j
      BY <1>2, <2>2
    <3>2. r[j - 1] = p[j]
      BY <1>3, <3>1
    <3> QED BY <3>1, <3>2
  <2>3. ASSUME NEW x, x \in {p[i] : i \in 1..n}, x # p[1]
        PROVE  x \in {r[i] : i \in 1..n - 1}
    <3>1. PICK j \in 1..n : x = p[j]
      BY <2>3
    <3>2. PICK i \in 1..n - 1 : r[i] = p[j]
      BY <2>2, <2>3, <3>1, Zenon
    <3> QED BY <3>1, <3>2, Zenon
  <2>4. \A x : x \in {r[i] : i \in 1..n - 1} <=> x \in {p[i] : i \in 1..n} \ {p[1]}
    BY <2>1, <2>3, Zenon
  <2> QED BY <2>4
<1> QED BY <1>1, <1>2, <1>4, <1>5, <1>6 DEF n

\* confirmInputReceipt moves a key from the receipts to the tombstones; the one
\* that makes room is counted as forgotten.
LEMMA ConfirmMovesKey ==
    ASSUME InputInvariant, NEW k0 \in receipts, receipts' = receipts \ {k0}, delivered' = delivered \ {k0},
           Remember(k0), written' = written, ambiguous' = ambiguous
    PROVE  /\ LedgerGrows /\ LedgerIsSound'
           /\ confirmed' \in Seq(Drafts) /\ Len(confirmed') <= MaxConfirmed /\ forgotten' \in [Drafts -> Nat]
<1>1. /\ confirmed \in Seq(Drafts) /\ Len(confirmed) \in Nat /\ Len(confirmed) <= MaxConfirmed
      /\ MaxConfirmed \in Nat /\ MaxConfirmed > 0 /\ k0 \in Drafts
      /\ written \in [Drafts -> Nat] /\ ambiguous \in [Drafts -> Nat] /\ forgotten \in [Drafts -> Nat]
      /\ receipts \subseteq Drafts
  BY InputAssumption, LenProperties DEF InputInvariant, InputTypeOK
<1>2. /\ Distinct(confirmed) /\ Tombstones = Entries(confirmed) /\ Tombstones' = Entries(confirmed')
      /\ receipts \cap Tombstones = {}
      /\ \A k \in Drafts :
           written[k] = (IF k \in receipts \cup Tombstones THEN 1 ELSE 0) + ambiguous[k] + forgotten[k]
  BY DEF InputInvariant, LedgerIsSound, Distinct, Entries, Tombstones
<1>3. k0 \notin Tombstones
  BY <1>2
<1>4. CASE Len(confirmed) # MaxConfirmed
  <2>1. confirmed' = Append(confirmed, k0) /\ forgotten' = forgotten
    BY <1>3, <1>4 DEF Remember
  <2>2. /\ confirmed' \in Seq(Drafts) /\ Len(confirmed') = Len(confirmed) + 1
        /\ Distinct(confirmed') /\ Tombstones' = Tombstones \cup {k0}
    <3>1. PICK r : r = confirmed'
      OBVIOUS
    <3>2. r \in Seq(Drafts) /\ Len(r) = Len(confirmed) + 1 /\ Distinct(r) /\ Entries(r) = Entries(confirmed) \cup {k0}
      BY <1>1, <1>2, <1>3, <2>1, <3>1, TombstoneJoins
    <3> QED BY <1>2, <3>1, <3>2
  <2>3. LedgerIsSound'
    BY <1>2, <2>1, <2>2 DEF LedgerIsSound, Distinct
  <2>4. LedgerGrows
    BY <2>1, <2>2 DEF LedgerGrows, Known, Settled
  <2> QED BY <1>1, <1>4, <2>1, <2>2, <2>3, <2>4
<1>5. CASE Len(confirmed) = MaxConfirmed
  <2>0. PICK h : h = Head(confirmed)
    OBVIOUS
  <2>1. PICK t : t = Tail(confirmed)
    OBVIOUS
  <2>2. confirmed' = Append(t, k0) /\ forgotten' = [forgotten EXCEPT ![h] = forgotten[h] + 1]
    BY <1>3, <1>5, <2>0, <2>1 DEF Remember
  <2>3. confirmed # <<>>
    BY <1>1, <1>5
  <2>4. /\ t \in Seq(Drafts) /\ Len(t) = Len(confirmed) - 1 /\ Distinct(t)
        /\ h \in Tombstones /\ h \in Drafts /\ Entries(t) = Tombstones \ {h}
    BY <1>1, <1>2, <2>0, <2>1, <2>3, TombstoneLeaves
  <2>5. h # k0 /\ h \notin receipts
    BY <1>2, <1>3, <2>4
  <2>6. k0 \notin Entries(t)
    BY <1>3, <2>4
  <2>7. /\ confirmed' \in Seq(Drafts) /\ Len(confirmed') = Len(t) + 1
        /\ Distinct(confirmed') /\ Tombstones' = (Tombstones \ {h}) \cup {k0}
    <3>1. PICK r : r = confirmed'
      OBVIOUS
    <3>2. r \in Seq(Drafts) /\ Len(r) = Len(t) + 1 /\ Distinct(r) /\ Entries(r) = Entries(t) \cup {k0}
      BY <1>1, <2>2, <2>4, <2>6, <3>1, TombstoneJoins
    <3> QED BY <1>2, <2>4, <3>1, <3>2
  <2>8. /\ forgotten' \in [Drafts -> Nat] /\ forgotten'[h] = forgotten[h] + 1 /\ forgotten'[h] > 0
        /\ \A k \in Drafts \ {h} : forgotten'[k] = forgotten[k]
    BY <1>1, <2>2, <2>4, SMTT(60)
  <2>9. \A k \in Drafts :
          written[k] = (IF k \in receipts' \cup Tombstones' THEN 1 ELSE 0) + ambiguous[k] + forgotten'[k]
    <3> SUFFICES ASSUME NEW k \in Drafts
                 PROVE  written[k] = (IF k \in receipts' \cup Tombstones' THEN 1 ELSE 0) + ambiguous[k] + forgotten'[k]
      OBVIOUS
    <3>1. CASE k = h
      BY <1>1, <1>2, <2>4, <2>5, <2>7, <2>8, <3>1
    <3>2. CASE k # h
      BY <1>1, <1>2, <2>7, <2>8, <3>2
    <3> QED BY <3>1, <3>2
  <2>10. receipts' \cap Tombstones' = {}
    BY <1>2, <2>7
  <2>11. LedgerIsSound'
    BY <2>7, <2>9, <2>10 DEF LedgerIsSound, Distinct
  <2>12. LedgerGrows
    <3> SUFFICES ASSUME NEW k \in Drafts
                 PROVE  /\ Known(k) => Known(k)'
                        /\ Settled(k) => Settled(k)'
      BY DEF LedgerGrows
    <3>1. CASE k = h
      BY <2>8, <3>1 DEF Known, Settled
    <3>2. CASE k # h
      BY <2>7, <2>8, <3>2 DEF Known, Settled
    <3> QED BY <3>1, <3>2
  <2>13. Len(confirmed') <= MaxConfirmed
    BY <1>1, <1>5, <2>4, <2>7
  <2> QED BY <1>1, <2>7, <2>8, <2>11, <2>12, <2>13
<1> QED BY <1>4, <1>5

LEMMA ReadConfirmKeepsInput ==
    ASSUME InputInvariant, NEW c \in Links, ReadConfirm(c)
    PROVE  InputInvariant'
<1>1. /\ InputTypeOK /\ SoundLink(c) /\ toServer \in [Links -> Seq(WireFrames)]
      /\ toPhone \in [Links -> Seq(Drafts)] /\ receipts \subseteq Drafts /\ delivered \subseteq receipts
      /\ link \in [Links -> LinkRecord]
  BY InputTypes DEF InputInvariant, InputTypeOK
<1>2. /\ UNCHANGED <<draft, toPhone, holder, written, ambiguous, ptyErrors>>
      /\ link[c].at = "read" /\ toServer[c] # <<>>
  BY DEF ReadConfirm
<1>3. PICK k0 : k0 = Head(toServer[c])[2]
  OBVIOUS
<1>4. \/ /\ k0 \in receipts /\ receipts' = receipts \ {k0} /\ delivered' = delivered \ {k0} /\ Remember(k0)
         /\ toServer' = [toServer EXCEPT ![c] = Tail(toServer[c])] /\ link' = link
      \/ CloseLink(c) /\ UNCHANGED <<receipts, delivered, confirmed, forgotten>>
      \/ /\ toServer' = [toServer EXCEPT ![c] = Tail(toServer[c])]
         /\ UNCHANGED <<link, receipts, delivered, confirmed, forgotten>>
  BY <1>3 DEF ReadConfirm
<1>5. /\ LedgerGrows /\ LedgerIsSound'
      /\ confirmed' \in Seq(Drafts) /\ Len(confirmed') <= MaxConfirmed /\ forgotten' \in [Drafts -> Nat]
      /\ receipts' \subseteq Drafts /\ delivered' \subseteq receipts'
  <2>1. CASE k0 \in receipts /\ receipts' = receipts \ {k0} /\ delivered' = delivered \ {k0} /\ Remember(k0)
    BY <1>1, <1>2, <2>1, ConfirmMovesKey
  <2>2. CASE UNCHANGED <<receipts, delivered, confirmed, forgotten>>
    BY <1>1, <1>2, <2>2, QuietLedger DEF InputTypeOK
  <2> QED BY <1>4, <2>1, <2>2
<1>6. /\ SoundLink(c)' /\ OtherLinksStay(c)
      /\ link' \in [Links -> LinkRecord] /\ toServer' \in [Links -> Seq(WireFrames)]
  <2>1. CASE CloseLink(c)
    BY <1>2, <1>5, <2>1, CloseLinkIsSound
  <2>2. CASE toServer' = [toServer EXCEPT ![c] = Tail(toServer[c])] /\ link' = link
    <3>1. /\ toServer' \in [Links -> Seq(WireFrames)]
          /\ \A x \in Links \ {c} : toServer'[x] = toServer[x] /\ toPhone'[x] = toPhone[x]
          /\ \A k \in Drafts : OnWire(c, k)' => OnWire(c, k)
      BY <1>1, <1>2, <2>2, FrameTaken
    <3>2. SoundLink(c)'
      BY <1>1, <1>2, <1>5, <2>2, <3>1, WireIsSound
    <3> QED BY <1>1, <2>2, <3>1, <3>2 DEF OtherLinksStay
  <2> QED BY <1>4, <2>1, <2>2
<1>7. InputTypeOK'
  BY <1>1, <1>2, <1>5, <1>6 DEF InputTypeOK, LinkRecord, WireFrames
<1> QED BY <1>2, <1>5, <1>6, <1>7, OneLinkMoves DEF InputInvariant

(* For any devices, connections, drafts and bounds of the ledger: a draft's    *)
(* bytes reach the PTY once beyond reported ambiguities and evicted keys, and  *)
(* a receipt tells the truth (writeInput, sendInputReceipt,                    *)
(* confirmInputReceipt, rememberConfirmedInputLocked).                         *)
THEOREM InputStaysExact == InputSpec => []InputIsExact
<1>1. InputInit => InputInvariant
  <2> SUFFICES ASSUME InputInit PROVE InputInvariant
    OBVIOUS
  <2>1. InputTypeOK
    BY InputAssumption DEF InputInit, InputTypeOK, NoLink
  <2>2. Tombstones = {}
    BY DEF InputInit, Tombstones
  <2>3. LedgerIsSound
    BY <2>2 DEF InputInit, LedgerIsSound
  <2>4. \A c \in Links : SoundLink(c)
    BY DEF InputInit, SoundLink, NoLink, OnWire
  <2>5. \A k \in Drafts : draft[k].at # "sent"
    BY DEF InputInit
  <2> QED BY <2>1, <2>3, <2>4, <2>5 DEF InputInvariant
<1>2. InputInvariant /\ [InputNext]_inputVars => InputInvariant'
  <2> SUFFICES ASSUME InputInvariant, [InputNext]_inputVars PROVE InputInvariant'
    OBVIOUS
  <2>1. CASE UNCHANGED inputVars
    <3>1. LedgerGrows /\ LedgerIsSound'
      BY <2>1, QuietLedger DEF inputVars
    <3>2. \A c \in Links : SoundLink(c)'
      BY <2>1, <3>1, StillSound DEF inputVars, InputInvariant
    <3>3. InputTypeOK' /\ draft' = draft /\ written' = written
      BY <2>1 DEF inputVars, InputInvariant, InputTypeOK
    <3> QED BY <3>1, <3>2, <3>3 DEF InputInvariant
  <2>2. ASSUME NEW c \in Links, HandleInput(c) PROVE InputInvariant'
    BY <2>2, ReadInputKeepsInput, RenewLeaseKeepsInput, WriteInputKeepsInput, SendReceiptKeepsInput,
       MarkReceiptKeepsInput, ReadConfirmKeepsInput, OpenDropLeaveKeepInput DEF HandleInput
  <2> QED BY <2>1, <2>2, OpenDropLeaveKeepInput, ReceiveReceiptKeepsInput, SendInputKeepsInput, LeaseKeepsInput
          DEF InputNext
<1>3. InputInvariant => InputIsExact
  <2> SUFFICES ASSUME InputInvariant PROVE WrittenOnce /\ ReceiptsAreHonest
    BY DEF InputIsExact
  <2>1. WrittenOnce
    <3> SUFFICES ASSUME NEW k \in Drafts PROVE written[k] <= 1 + ambiguous[k] + forgotten[k]
      BY DEF WrittenOnce
    <3>1. ambiguous[k] \in Nat /\ forgotten[k] \in Nat
      BY DEF InputInvariant, InputTypeOK
    <3>2. written[k] = (IF k \in receipts \cup Tombstones THEN 1 ELSE 0) + ambiguous[k] + forgotten[k]
      BY DEF InputInvariant, LedgerIsSound
    <3> QED BY <3>1, <3>2
  <2>2. ASSUME NEW c \in Links, link[c].at = "read", toServer[c] # <<>>, Head(toServer[c])[1] = "confirm",
               Head(toServer[c])[2] \in receipts \ delivered, forgotten[Head(toServer[c])[2]] = 0
        PROVE  FALSE
    <3>1. /\ toServer[c] \in Seq(WireFrames) /\ SoundLink(c) /\ receipts \cap Tombstones = {}
      BY InputTypes DEF InputInvariant, LedgerIsSound
    <3>2. PICK f : f = Head(toServer[c])
      OBVIOUS
    <3>3. 1 \in 1..Len(toServer[c]) /\ toServer[c][1] = f /\ f \in WireFrames
      BY <2>2, <3>1, <3>2, TailHas
    <3>4. f = <<"confirm", f[2]>> /\ f[2] \in Drafts
      BY <2>2, <3>2, <3>3 DEF WireFrames
    <3>5. OnWire(c, f[2])
      BY <3>3, <3>4 DEF OnWire
    <3>6. Settled(f[2])
      BY <2>2, <3>1, <3>4, <3>5 DEF SoundLink
    <3> QED BY <2>2, <3>1, <3>2, <3>6 DEF Settled
  <2>3. /\ \A k \in Drafts : draft[k].at = "sent" => written[k] > 0
        /\ \A c \in Links : \A i \in 1..Len(toPhone[c]) : written[toPhone[c][i]] > 0
    BY DEF InputInvariant, SoundLink
  <2> QED BY <2>1, <2>2, <2>3 DEF ReceiptsAreHonest
<1> QED BY <1>1, <1>2, <1>3, PTL DEF InputSpec

=============================================================================
