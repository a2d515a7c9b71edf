--------------------------- MODULE TerminalInput ---------------------------
(***************************************************************************)
(* Composer input of a terminal tab within one gateway generation          *)
(* (internal/terminal/gateway.go, lease.go): idempotency keys, receipts,   *)
(* confirmations, the bounded memory of confirmed keys, and the input      *)
(* lease between devices.                                                  *)
(*                                                                         *)
(* A phone sends a draft under a key and repeats the same frame, on        *)
(* whatever connection it has, until it has seen the receipt; then it      *)
(* confirms.  A connection the phone has given up may still hold frames    *)
(* the gateway has not read.  A key is never used with other bytes, so the *)
(* digests that guard against that are left out.                           *)
(***************************************************************************)
EXTENDS Integers, FiniteSets, Sequences

CONSTANTS
    Phones,        \* devices of the owner
    Links,         \* slots for WebSocket connections
    Drafts,        \* idempotency keys
    Nobody,        \* no device holds the lease
    MaxReceipts,   \* maxInputReceiptsPerDevice
    MaxConfirmed,  \* maxConfirmedInputKeys
    MaxWire,       \* bound: frames in flight on a connection, each way
    MaxPtyErrors   \* bound: PTY writes that fail

ASSUME InputAssumption ==
    /\ Nobody \notin Phones
    /\ MaxReceipts \in Nat /\ MaxConfirmed \in Nat \ {0}
    /\ MaxWire \in Nat /\ MaxPtyErrors \in Nat

VARIABLES
    draft,      \* what the app knows of each draft, and whose it is
    link,       \* connections: the phone, its end, the handler and its key
    toServer,   \* frames on each connection the gateway has not read
    toPhone,    \* receipts on each connection the phone has not read
    holder,     \* holder of the input lease
    receipts,   \* inputReceipts: applied, not confirmed
    delivered,  \* those with receiptWritten
    confirmed,  \* confirmedInputOrder
    written,    \* history: writes to the PTY per key
    ambiguous,  \* history: of these, the ones reported as failed
    forgotten,  \* history: keys whose tombstone was evicted
    ptyErrors   \* PTY writes that have failed

inputVars == <<draft, link, toServer, toPhone, holder, receipts, delivered,
               confirmed, written, ambiguous, forgotten, ptyErrors>>

NoLink == [phone |-> Nobody, open |-> FALSE, at |-> "free", key |-> {}]
Tombstones == {confirmed[i] : i \in 1..Len(confirmed)}

\* The handler moves on with the frame it has in hand.
HandlerAt(c, at) == link' = [link EXCEPT ![c].at = at]
\* handleFrame returned an error: the connection is closed, and what the phone
\* still sends on it is not read.
CloseLink(c) ==
    /\ link' = [link EXCEPT ![c].at = "closed", ![c].key = {}]
    /\ toServer' = [toServer EXCEPT ![c] = <<>>]

-----------------------------------------------------------------------------
(* The phone *)

\* The app opens a connection once it has given up the one before.
OpenLink(c, p) ==
    /\ link[c].at = "free"
    /\ \A x \in Links : ~(link[x].phone = p /\ link[x].open)
    /\ link' = [link EXCEPT ![c] = [phone |-> p, open |-> TRUE, at |-> "read", key |-> {}]]
    /\ UNCHANGED <<draft, toServer, toPhone, holder, receipts, delivered, confirmed,
                   written, ambiguous, forgotten, ptyErrors>>

\* The phone's end is gone: receipts in flight are lost, frames it sent are not.
DropLink(c) ==
    /\ link[c].open
    /\ link' = [link EXCEPT ![c].open = FALSE]
    /\ toPhone' = [toPhone EXCEPT ![c] = <<>>]
    /\ UNCHANGED <<draft, toServer, holder, receipts, delivered, confirmed, written,
                   ambiguous, forgotten, ptyErrors>>

\* A frame is lost when the gateway has already closed its end.
Send(c, frame) ==
    /\ Len(toServer[c]) < MaxWire
    /\ toServer' = IF link[c].at = "closed" THEN toServer
                   ELSE [toServer EXCEPT ![c] = Append(@, frame)]

\* The first attempt to deliver a draft, or a retry with the same key.
SendInput(c, k) ==
    /\ link[c].open
    /\ draft[k].at # "sent" /\ draft[k].phone \in {Nobody, link[c].phone}
    /\ draft' = [draft EXCEPT ![k] = [at |-> "attempted", phone |-> link[c].phone]]
    /\ Send(c, <<"input", k>>)
    /\ UNCHANGED <<link, toPhone, holder, receipts, delivered, confirmed, written,
                   ambiguous, forgotten, ptyErrors>>

\* The receipt reaches the app, which confirms it and forgets the draft.
ReceiveReceipt(c) ==
    /\ link[c].open /\ toPhone[c] # <<>>
    /\ draft' = [draft EXCEPT ![Head(toPhone[c])].at = "sent"]
    /\ toPhone' = [toPhone EXCEPT ![c] = Tail(@)]
    /\ Send(c, <<"confirm", Head(toPhone[c])>>)
    /\ UNCHANGED <<link, holder, receipts, delivered, confirmed, written, ambiguous,
                   forgotten, ptyErrors>>

-----------------------------------------------------------------------------
(* The input lease *)

\* LeaseManager.Request: granted when free, expired or already held, and on
\* an explicit takeover; otherwise denied without effect.
RequestLease(c, take) ==
    /\ link[c].open /\ link[c].at = "read"
    /\ holder \in {Nobody, link[c].phone} \/ take
    /\ holder' = link[c].phone
    /\ UNCHANGED <<draft, link, toServer, toPhone, receipts, delivered, confirmed,
                   written, ambiguous, forgotten, ptyErrors>>

InputLeaseExpires ==
    /\ holder # Nobody
    /\ holder' = Nobody
    /\ UNCHANGED <<draft, link, toServer, toPhone, receipts, delivered, confirmed,
                   written, ambiguous, forgotten, ptyErrors>>

-----------------------------------------------------------------------------
(* handleFrame *)

\* inputWasApplied: a known key is acknowledged again without a lease.
ReadInput(c) ==
    /\ link[c].at = "read" /\ toServer[c] # <<>> /\ Head(toServer[c])[1] = "input"
    /\ LET k == Head(toServer[c])[2]
           known == k \in receipts \cup Tombstones
       IN link' = [link EXCEPT ![c].at = IF known THEN "send" ELSE "renew", ![c].key = {k}]
    /\ toServer' = [toServer EXCEPT ![c] = Tail(@)]
    /\ UNCHANGED <<draft, toPhone, holder, receipts, delivered, confirmed, written,
                   ambiguous, forgotten, ptyErrors>>

\* LeaseManager.Renew
RenewLease(c) ==
    /\ link[c].at = "renew"
    /\ IF holder = link[c].phone
         THEN HandlerAt(c, "write") /\ UNCHANGED toServer
         ELSE CloseLink(c)
    /\ UNCHANGED <<draft, toPhone, holder, receipts, delivered, confirmed, written,
                   ambiguous, forgotten, ptyErrors>>

\* Mutant: the key is not looked up again under the input mutex.
WriteInputMutant(c) ==
    /\ link[c].at = "write"
    /\ \E k \in link[c].key :
        /\ written' = [written EXCEPT ![k] = @ + 1]
        /\ receipts' = receipts \cup {k}
        /\ HandlerAt(c, "send") /\ UNCHANGED <<toServer, ambiguous, ptyErrors>>
    /\ UNCHANGED <<draft, toPhone, holder, delivered, confirmed, forgotten>>

\* writeInput under inputMu: a key that has become known meanwhile is not
\* written again; without room for its receipt nothing is written; a PTY write
\* may fail, with or without its effect.
WriteInput(c) ==
    /\ link[c].at = "write"
    /\ \E k \in link[c].key :
        \/ /\ k \in receipts \cup Tombstones
           /\ HandlerAt(c, "send")
           /\ UNCHANGED <<toServer, receipts, written, ambiguous, ptyErrors>>
        \/ /\ k \notin receipts \cup Tombstones
           /\ Cardinality({x \in receipts : draft[x].phone = link[c].phone}) >= MaxReceipts
           /\ CloseLink(c)
           /\ UNCHANGED <<receipts, written, ambiguous, ptyErrors>>
        \/ /\ k \notin receipts \cup Tombstones
           /\ Cardinality({x \in receipts : draft[x].phone = link[c].phone}) < MaxReceipts
           /\ \/ /\ written' = [written EXCEPT ![k] = @ + 1]
                 /\ receipts' = receipts \cup {k}
                 /\ HandlerAt(c, "send")
                 /\ UNCHANGED <<toServer, ambiguous, ptyErrors>>
              \/ /\ ptyErrors < MaxPtyErrors /\ ptyErrors' = ptyErrors + 1
                 /\ \/ UNCHANGED <<written, ambiguous>>
                    \/ /\ written' = [written EXCEPT ![k] = @ + 1]
                       /\ ambiguous' = [ambiguous EXCEPT ![k] = @ + 1]
                 /\ CloseLink(c) /\ UNCHANGED receipts
    /\ UNCHANGED <<draft, toPhone, holder, delivered, confirmed, forgotten>>

\* sendInputReceipt: the writer delivers the receipt and reports it, or fails,
\* or delivers it while the handler gives up waiting.
SendReceipt(c) ==
    /\ link[c].at = "send"
    /\ \/ /\ link[c].open /\ Len(toPhone[c]) < MaxWire
          /\ toPhone' = [toPhone EXCEPT ![c] = Append(@, CHOOSE k \in link[c].key : TRUE)]
          /\ \/ HandlerAt(c, "mark") /\ UNCHANGED toServer
             \/ CloseLink(c)
       \/ CloseLink(c) /\ UNCHANGED toPhone
    /\ UNCHANGED <<draft, holder, receipts, delivered, confirmed, written, ambiguous,
                   forgotten, ptyErrors>>

\* markInputReceiptWritten: the record is there, or another connection has
\* confirmed the key, or it is gone and the connection is closed.
MarkReceipt(c) ==
    /\ link[c].at = "mark"
    /\ \E k \in link[c].key :
         IF k \in receipts \cup Tombstones
           THEN /\ link' = [link EXCEPT ![c].at = "read", ![c].key = {}]
                /\ delivered' = delivered \cup ({k} \cap receipts)
                /\ UNCHANGED toServer
           ELSE CloseLink(c) /\ UNCHANGED delivered
    /\ UNCHANGED <<draft, toPhone, holder, receipts, confirmed, written, ambiguous,
                   forgotten, ptyErrors>>

\* rememberConfirmedInputLocked: the oldest tombstone makes room.
Remember(k) ==
    IF k \in Tombstones THEN UNCHANGED <<confirmed, forgotten>>
    ELSE IF Len(confirmed) = MaxConfirmed
      THEN /\ confirmed' = Append(Tail(confirmed), k)
           /\ forgotten' = [forgotten EXCEPT ![Head(confirmed)] = @ + 1]
      ELSE confirmed' = Append(confirmed, k) /\ UNCHANGED forgotten

\* confirmInputReceipt: idempotent; an unwritten receipt cannot be confirmed.
ReadConfirm(c) ==
    /\ link[c].at = "read" /\ toServer[c] # <<>> /\ Head(toServer[c])[1] = "confirm"
    /\ LET k == Head(toServer[c])[2] IN
         \/ /\ k \in receipts /\ k \in delivered
            /\ receipts' = receipts \ {k} /\ delivered' = delivered \ {k}
            /\ Remember(k)
            /\ toServer' = [toServer EXCEPT ![c] = Tail(@)] /\ UNCHANGED link
         \/ /\ k \in receipts /\ k \notin delivered
            /\ CloseLink(c) /\ UNCHANGED <<receipts, delivered, confirmed, forgotten>>
         \/ /\ k \notin receipts
            /\ toServer' = [toServer EXCEPT ![c] = Tail(@)]
            /\ UNCHANGED <<link, receipts, delivered, confirmed, forgotten>>
    /\ UNCHANGED <<draft, toPhone, holder, written, ambiguous, ptyErrors>>

\* conn.Read fails once the phone's end is gone and all it sent is read; then,
\* and after an error, the handler unsubscribes.
LeaveLink(c) ==
    /\ ~link[c].open /\ link[c].at \in {"read", "closed"} /\ toServer[c] = <<>>
    /\ link' = [link EXCEPT ![c] = NoLink]
    /\ UNCHANGED <<draft, toServer, toPhone, holder, receipts, delivered, confirmed,
                   written, ambiguous, forgotten, ptyErrors>>

-----------------------------------------------------------------------------
InputInit ==
    /\ draft = [k \in Drafts |-> [at |-> "new", phone |-> Nobody]]
    /\ link = [c \in Links |-> NoLink]
    /\ toServer = [c \in Links |-> <<>>] /\ toPhone = [c \in Links |-> <<>>]
    /\ holder = Nobody
    /\ receipts = {} /\ delivered = {} /\ confirmed = <<>>
    /\ written = [k \in Drafts |-> 0] /\ ambiguous = [k \in Drafts |-> 0]
    /\ forgotten = [k \in Drafts |-> 0] /\ ptyErrors = 0

HandleInput(c) ==
    \/ ReadInput(c) \/ RenewLease(c) \/ WriteInput(c) \/ SendReceipt(c)
    \/ MarkReceipt(c) \/ ReadConfirm(c) \/ LeaveLink(c)

InputNext ==
    \/ \E c \in Links :
        \/ \E p \in Phones : OpenLink(c, p)
        \/ DropLink(c) \/ ReceiveReceipt(c) \/ HandleInput(c)
        \/ \E k \in Drafts : SendInput(c, k)
        \/ \E take \in BOOLEAN : RequestLease(c, take)
    \/ InputLeaseExpires

InputSpec == InputInit /\ [][InputNext]_inputVars

-----------------------------------------------------------------------------
(* Properties *)

InputTypeOK ==
    /\ draft \in [Drafts -> [at : {"new", "attempted", "sent"}, phone : Phones \cup {Nobody}]]
    /\ link \in [Links -> [phone : Phones \cup {Nobody}, open : BOOLEAN, key : SUBSET Drafts,
                           at : {"free", "read", "renew", "write", "send", "mark", "closed"}]]
    /\ toServer \in [Links -> Seq({"input", "confirm"} \X Drafts)]
    /\ toPhone \in [Links -> Seq(Drafts)]
    /\ holder \in Phones \cup {Nobody}
    /\ receipts \subseteq Drafts /\ delivered \subseteq receipts
    /\ confirmed \in Seq(Drafts) /\ Len(confirmed) <= MaxConfirmed
    /\ written \in [Drafts -> Nat] /\ ambiguous \in [Drafts -> Nat]
    /\ forgotten \in [Drafts -> Nat] /\ ptyErrors \in 0..MaxPtyErrors

(* However a draft is retried, on however many connections, its bytes reach   *)
(* the PTY once.  Beyond that only a PTY write that took effect and reported  *)
(* an error, or a frame that outlived MaxConfirmed later confirmations, adds  *)
(* a write (writeInput and confirmInputReceipt, gateway.go:769-861).          *)
WrittenOnce == \A k \in Drafts : written[k] <= 1 + ambiguous[k] + forgotten[k]

(* A phone that holds a receipt may throw the draft away: the bytes were      *)
(* written; and the confirmation it sends is not answered by closing its      *)
(* connection, unless its key was evicted and an old frame wrote it anew      *)
(* (sendInputReceipt and confirmInputReceipt, gateway.go:823-842, 1116-1123). *)
ReceiptsAreHonest ==
    /\ \A k \in Drafts : draft[k].at = "sent" => written[k] > 0
    /\ \A c \in Links : \A i \in 1..Len(toPhone[c]) : written[toPhone[c][i]] > 0
    /\ \A c \in Links :
         (link[c].at = "read" /\ toServer[c] # <<>>) =>
            ~(/\ Head(toServer[c])[1] = "confirm"
              /\ Head(toServer[c])[2] \in receipts \ delivered
              /\ forgotten[Head(toServer[c])[2]] = 0)

(* Input is exact, seen from the PTY and from the phone.                      *)
InputIsExact == WrittenOnce /\ ReceiptsAreHonest

(* The ledger behind it: a key is in one place, and has been written once for *)
(* the place it is in, once for each eviction, and once for each ambiguity.   *)
Known(k) == k \in receipts \cup Tombstones \/ forgotten[k] > 0
Settled(k) == k \in delivered \cup Tombstones \/ forgotten[k] > 0
LedgerIsSound ==
    /\ \A i, j \in 1..Len(confirmed) : confirmed[i] = confirmed[j] => i = j
    /\ receipts \cap Tombstones = {}
    /\ \A k \in Drafts :
        written[k] = (IF k \in receipts \cup Tombstones THEN 1 ELSE 0) + ambiguous[k] + forgotten[k]

(* A connection holds one key from its frame to its receipt; what is on its   *)
(* way to the phone, or confirmed by it, is settled, or is the key whose      *)
(* receipt the handler is about to mark, or can no longer be read.            *)
OnWire(c, k) ==
    \/ \E i \in 1..Len(toPhone[c]) : toPhone[c][i] = k
    \/ \E i \in 1..Len(toServer[c]) : toServer[c][i] = <<"confirm", k>>
SoundLink(c) ==
    /\ link[c].at \in {"renew", "write", "send", "mark"} => \E k \in Drafts : link[c].key = {k}
    /\ link[c].at \in {"send", "mark"} => \A k \in link[c].key : Known(k)
    /\ ~link[c].open => toPhone[c] = <<>>
    /\ link[c].at = "free" => ~link[c].open /\ toServer[c] = <<>>
    /\ \A i \in 1..Len(toPhone[c]) : written[toPhone[c][i]] > 0
    /\ \A k \in Drafts : OnWire(c, k) =>
        link[c].at = "closed" \/ (link[c].at = "mark" /\ k \in link[c].key) \/ Settled(k)

InputInvariant ==
    /\ InputTypeOK
    /\ LedgerIsSound
    /\ \A k \in Drafts : draft[k].at = "sent" => written[k] > 0
    /\ \A c \in Links : SoundLink(c)

(* What the protocol promises: "server writes the bytes at most once per      *)
(* device and tab replay generation" (terminal-v1.md:42).                     *)
AtMostOncePerGeneration ==
    \A k \in Drafts : forgotten[k] = 0 => written[k] <= 1
=============================================================================
