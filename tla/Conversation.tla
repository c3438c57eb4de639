----------------------------- MODULE Conversation -----------------------------
(***************************************************************************)
(* Two devices that run the messaging code against each other: how their   *)
(* directional sessions (src/services/MessagingService.ts) fall out of     *)
(* step and heal.  SendSession has the interleavings inside one device;    *)
(* here a handler is one step, except that a handshake caches its session  *)
(* before it ships the KeyExchange.                                        *)
(*                                                                         *)
(* A generation names one outbound handshake of a device; 0 is "none".  A  *)
(* text opens exactly when the receiver's inbound session has the          *)
(* generation it was sealed with: the counters inside a generation are the *)
(* ratchet's business.  The node keeps what it accepted until it is        *)
(* fetched or pushed and promises no order.                                *)
(***************************************************************************)
EXTENDS Naturals, Sequences, FiniteSetsExt

CONSTANTS
    Devices,   \* the two devices
    Writers,   \* the ones whose users write
    MaxGen,    \* bound: names for generations (reused when forgotten)
    MaxPend,   \* PENDING_DECRYPT_LIMIT_PER_PEER
    MaxFaults  \* bound: failed requests, restarts, reconnects and long delays

ASSUME ConversationAssumption ==
    Writers \subseteq Devices /\ MaxGen \in Nat /\ MaxPend \in Nat /\ MaxFaults \in Nat

VARIABLES
    send,      \* generation of each device's cached send session
    blob,      \* generation of its serialized '#send' session
    shipping,  \* generation whose KeyExchange it is posting (the handshake in flight)
    recv,      \* generation of its inbound session
    cool,      \* within RECOVERY_COOLDOWN_MS of its last recovery
    pend,      \* pendingDecryptByDid: generations of buffered texts, oldest first
    mail,      \* envelopes on their way to it
    faults

vars == <<send, blob, shipping, recv, cool, pend, mail, faults>>

Gens == 1..MaxGen
Envelopes == [type : {"kx", "text", "receipt"}, gen : Gens]

TypeOK ==
    /\ send \in [Devices -> 0..MaxGen]
    /\ blob \in [Devices -> 0..MaxGen]
    /\ shipping \in [Devices -> 0..MaxGen]
    /\ recv \in [Devices -> 0..MaxGen]
    /\ cool \in [Devices -> BOOLEAN]
    /\ pend \in [Devices -> Seq(Gens)] /\ \A d \in Devices : Len(pend[d]) <= MaxPend
    /\ mail \in [Devices -> SUBSET Envelopes]
    /\ faults \in 0..MaxFaults

Init ==
    /\ send = [d \in Devices |-> 0]
    /\ blob = [d \in Devices |-> 0]
    /\ shipping = [d \in Devices |-> 0]
    /\ recv = [d \in Devices |-> 0]
    /\ cool = [d \in Devices |-> FALSE]
    /\ pend = [d \in Devices |-> <<>>]
    /\ mail = [d \in Devices |-> {}]
    /\ faults = 0

Peer(d) == CHOOSE e \in Devices : e # d
Kx(g) == [type |-> "kx", gen |-> g]

Fault == faults < MaxFaults /\ faults' = faults + 1

\* The names that nothing refers to any more, and the one a handshake takes.
FreeGens(d) ==
    Gens \ ({send[d], blob[d], shipping[d], recv[Peer(d)]}
              \cup {e.gen : e \in mail[Peer(d)]}
              \cup {pend[Peer(d)][i] : i \in DOMAIN pend[Peer(d)]})

NewGen(d) == Min(FreeGens(d))

-----------------------------------------------------------------------------
\* getOrInitSendSession with session s cached and blob b stored: take it,
\* join the handshake in flight, restore the blob, or start a handshake.
GetOrInit(d, s, b) ==
    /\ blob' = [blob EXCEPT ![d] = b]
    /\ \/ /\ s # 0 \/ shipping[d] # 0
          /\ send' = [send EXCEPT ![d] = s]
          /\ UNCHANGED shipping
       \/ /\ s = 0 /\ shipping[d] = 0 /\ b # 0
          /\ send' = [send EXCEPT ![d] = b]
          /\ UNCHANGED shipping
       \/ /\ s = 0 /\ shipping[d] = 0 /\ b = 0
          /\ FreeGens(d) # {}
          /\ send' = [send EXCEPT ![d] = NewGen(d)]
          /\ shipping' = [shipping EXCEPT ![d] = NewGen(d)]

\* recoverMissingSession: once per window, forget the send session and shake
\* hands again.
Recover(d) ==
    \/ /\ cool[d]
       /\ UNCHANGED <<send, blob, shipping, cool>>
    \/ /\ ~cool[d]
       /\ cool' = [cool EXCEPT ![d] = TRUE]
       /\ GetOrInit(d, 0, 0)

CompleteOnlyFirst(d, hadPriorInbound) ==
    \/ hadPriorInbound /\ UNCHANGED <<send, blob, shipping, cool>>
    \/ ~hadPriorInbound /\ GetOrInit(d, send[d], blob[d]) /\ UNCHANGED cool

\* completeHandshake: first contact is answered if we have no session yet, a
\* re-handshake of the peer by one of our own, once per window.
CompleteHandshake(d, hadPriorInbound) ==
    \/ hadPriorInbound /\ Recover(d)
    \/ ~hadPriorInbound /\ GetOrInit(d, send[d], blob[d]) /\ UNCHANGED cool

-----------------------------------------------------------------------------
\* The user writes: a handshake first if there is no session, then the text
\* (one at a time is under way, a bound).
SendText(d) ==
    \/ /\ send[d] = 0 /\ shipping[d] = 0
       /\ GetOrInit(d, 0, blob[d])
       /\ UNCHANGED <<recv, cool, pend, mail, faults>>
    \/ /\ send[d] # 0
       /\ \A e \in mail[Peer(d)] : e.type # "text"
       /\ mail' = [mail EXCEPT ![Peer(d)] = @ \cup {[type |-> "text", gen |-> send[d]]}]
       /\ blob' = [blob EXCEPT ![d] = send[d]]
       /\ UNCHANGED <<send, shipping, recv, cool, pend, faults>>

\* The user taps Reconnect, or opens a chat that is out of step: like a
\* recovery, whatever the window.
Reconnect(d) ==
    /\ Fault
    /\ cool' = [cool EXCEPT ![d] = TRUE]
    /\ GetOrInit(d, 0, 0)
    /\ UNCHANGED <<recv, pend, mail>>

\* The tail of initSendSession: the KeyExchange reaches the node, or not.
ShipKeyExchange(d) ==
    /\ shipping[d] # 0
    /\ shipping' = [shipping EXCEPT ![d] = 0]
    /\ \/ /\ mail' = [mail EXCEPT ![Peer(d)] = @ \cup {Kx(shipping[d])}]
          /\ blob' = [blob EXCEPT ![d] = shipping[d]]
          /\ UNCHANGED faults
       \/ /\ Fault
          /\ UNCHANGED <<mail, blob>>
    /\ UNCHANGED <<send, recv, cool, pend>>

\* bufferUndecryptable: the oldest entry falls off a full buffer.
Buffered(buf, g) ==
    IF Len(buf) < MaxPend THEN Append(buf, g) ELSE Tail(Append(buf, g))

Delivered(d, e) == [mail EXCEPT ![d] = @ \ {e}]

\* A KeyExchange becomes the inbound session, drains what it can open, and
\* is answered.
IngestKeyExchange(d, e) ==
    /\ e.type = "kx"
    /\ mail' = Delivered(d, e)
    /\ recv' = [recv EXCEPT ![d] = e.gen]
    /\ pend' = [pend EXCEPT ![d] = SelectSeq(@, LAMBDA g : g # e.gen)]
    /\ CompleteHandshake(d, recv[d] # 0)

\* A text or receipt that opens; a text is answered with a receipt.
IngestOpens(d, e) ==
    /\ e.type # "kx"
    /\ e.gen = recv[d]
    /\ \/ /\ e.type = "receipt"
          /\ mail' = Delivered(d, e)
          /\ UNCHANGED <<send, blob, shipping>>
       \/ /\ e.type = "text"
          /\ GetOrInit(d, send[d], blob[d])
          /\ mail' = IF send'[d] = 0 THEN Delivered(d, e)
                     ELSE [Delivered(d, e) EXCEPT
                             ![Peer(d)] = @ \cup {[type |-> "receipt", gen |-> send'[d]]}]
    /\ UNCHANGED <<recv, cool, pend>>

\* One that does not: placeholder, buffer, recovery.
IngestFails(d, e) ==
    /\ e.type # "kx"
    /\ e.gen # recv[d]
    /\ mail' = Delivered(d, e)
    /\ pend' = [pend EXCEPT ![d] = Buffered(@, e.gen)]
    /\ Recover(d)
    /\ UNCHANGED recv

Ingest(d, e) ==
    /\ e \in mail[d]
    /\ IngestKeyExchange(d, e) \/ IngestOpens(d, e) \/ IngestFails(d, e)
    /\ UNCHANGED faults

\* No handshake and no text of an older generation is under way.
Quiet ==
    \A d \in Devices :
        /\ shipping[d] = 0
        /\ \A e \in mail[d] : e.type # "kx" /\ e.gen = send[Peer(d)]

\* The window closes 60 s after it opened.  What was under way has arrived by
\* then, or else the delay counts as a fault.
CooldownLapses(d) ==
    /\ cool[d]
    /\ (Quiet /\ UNCHANGED faults) \/ Fault
    /\ cool' = [cool EXCEPT ![d] = FALSE]
    /\ UNCHANGED <<send, blob, shipping, recv, pend, mail>>

\* Process death: maps, buffer and handshake are gone; the sessions come back
\* from their blobs if those were saved.
Restart(d) ==
    /\ Fault
    /\ send' = [send EXCEPT ![d] = 0]
    /\ \E b \in {0, blob[d]}, r \in {0, recv[d]} :
          /\ blob' = [blob EXCEPT ![d] = b]
          /\ recv' = [recv EXCEPT ![d] = r]
    /\ shipping' = [shipping EXCEPT ![d] = 0]
    /\ cool' = [cool EXCEPT ![d] = FALSE]
    /\ pend' = [pend EXCEPT ![d] = <<>>]
    /\ UNCHANGED mail

Next ==
    \E d \in Devices :
        \/ d \in Writers /\ SendText(d)
        \/ Reconnect(d) \/ ShipKeyExchange(d)
        \/ \E e \in mail[d] : Ingest(d, e)
        \/ CooldownLapses(d) \/ Restart(d)

\* Requests answer, what the node accepted arrives, windows close, and the
\* users of this run keep writing.
Fairness ==
    \A d \in Devices :
        /\ WF_vars(ShipKeyExchange(d))
        /\ \A e \in Envelopes : WF_vars(Ingest(d, e))
        /\ SF_vars(CooldownLapses(d))
        /\ d \in Writers => WF_vars(SendText(d))

Spec == Init /\ [][Next]_vars /\ Fairness

-----------------------------------------------------------------------------
InStep(d) == send[d] # 0 /\ recv[Peer(d)] = send[d]

\* "Both directions converge": once failed requests, restarts, manual
\* reconnects and long delays end, both directions fall into step for good,
\* whatever they left behind and however the node reordered envelopes; the
\* mutual re-handshakes terminate.
Converges ==
    <>[](\A d \in Devices : InStep(d))
=============================================================================
