---------------------------- MODULE TokenTransfer ----------------------------
(***************************************************************************)
(* Token transfers over the authenticated transport: the transfer itself   *)
(* (SendTokensScreen.handleTransfer, TokenService.transferSov: a nonce is  *)
(* fetched, the transaction signed and posted), the retry loop of quic.ts  *)
(* (rawRequest, runWithSessionRecovery, resetAuthSession), the request     *)
(* queue of the Android module (NativeQuicModule.kt) and the bootstrap     *)
(* that picks the gateway (NetworkBootstrap.ts).                           *)
(*                                                                         *)
(* JavaScript runs one await at a time; every handshake-and-drain runs on  *)
(* a thread of its own and an action of it is one critical section or one  *)
(* native call.  There is one identity, so one queue and one latch.  The   *)
(* node is external: it runs a transfer whose nonce is the current one     *)
(* and refuses any other.  Amounts, addresses and signatures are left out. *)
(***************************************************************************)
EXTENDS Naturals, Sequences, Functions

CONSTANTS
    Transfers,    \* presses of Transfer that pass the form's validation
    Workers,      \* bound: handshake-and-drain threads at the same time
    Gateways,     \* number of configured bootstrap gateways
    MaxAttempts,  \* MAX_ATTEMPTS
    MaxFaults     \* bound: requests and handshakes that fail

ASSUME TransferAssumption ==
    /\ Gateways \in Nat \ {0} /\ MaxAttempts \in Nat \ {0} /\ MaxFaults \in Nat

VARIABLES
    pc,      \* where each transfer is
    kind,    \* the request it is at: its nonce or its post
    attempt, \* the attempt of that request
    nonce,   \* the nonce it was given
    queue,   \* quinnRequestQueue of the identity
    latch,   \* whether quinnHandshakeInProgress holds the identity
    thread,  \* where each handshake-and-drain thread is
    dialled, \* the gateway a thread dials
    taken,   \* the request a thread has taken
    target,  \* the active validator (dial host and expected DID)
    boot,    \* where the bootstrap loop is
    gateway, \* the gateway it is at
    ready,   \* how bootstrapReady resolved
    chain,   \* external: the sender's nonce at the node
    moved,   \* external: how often the tokens of a transfer moved
    faults,
    lost     \* history: transfers that ran and whose answer was lost

callVars == <<kind, attempt, nonce>>
threadVars == <<thread, dialled, taken>>
bootVars == <<target, boot, gateway, ready>>
nodeVars == <<chain, moved, lost>>
vars == <<pc, callVars, queue, latch, threadVars, bootVars, nodeVars, faults>>

Settled == {"done", "error"}

TypeOK ==
    /\ pc \in [Transfers -> {"idle", "wait", "queued", "sent", "reset", "sign", "hung",
                             "done", "error"}]
    /\ kind \in [Transfers -> {"nonce", "post"}]
    /\ attempt \in [Transfers -> 1..MaxAttempts]
    /\ nonce \in [Transfers -> Nat]
    /\ queue \in Seq(Transfers)
    /\ latch \in {"free", "held"}
    /\ thread \in [Workers -> {"idle", "start", "dial", "drain", "send"}]
    /\ dialled \in [Workers -> 0..Gateways]
    /\ taken \in [Workers -> SUBSET Transfers]
    /\ target \in 1..Gateways
    /\ boot \in {"set", "fetch", "done"} /\ gateway \in 1..Gateways
    /\ ready \in {"no", "settled", "timeout"}
    /\ chain \in Nat
    /\ moved \in [Transfers -> Nat]
    /\ faults \in 0..MaxFaults
    /\ lost \subseteq Transfers

Init ==
    /\ pc = [t \in Transfers |-> "idle"]
    /\ kind = [t \in Transfers |-> "nonce"]
    /\ attempt = [t \in Transfers |-> 1]
    /\ nonce = [t \in Transfers |-> 0]
    /\ queue = <<>> /\ latch = "free"
    /\ thread = [w \in Workers |-> "idle"]
    /\ dialled = [w \in Workers |-> 0]
    /\ taken = [w \in Workers |-> {}]
    /\ target = 1 /\ boot = "set" /\ gateway = 1 /\ ready = "no"
    /\ chain = 0
    /\ moved = [t \in Transfers |-> 0]
    /\ faults = 0
    /\ lost = {}

-----------------------------------------------------------------------------
(***************************************************************************)
(* refreshActiveValidator and bootstrapReady.                              *)
(***************************************************************************)

\* Everything queued ends up in state st; the others stay where they are.
Emptied(st) ==
    /\ pc' = [t \in Transfers |-> IF t \in Range(queue) THEN st ELSE pc[t]]
    /\ queue' = <<>>

\* setActiveValidator: the queue is cleared and its promises are forgotten.
BootSet ==
    /\ boot = "set" /\ boot' = "fetch"
    /\ target' = gateway
    /\ Emptied("hung") /\ latch' = "free"
    /\ UNCHANGED <<callVars, threadVars, gateway, ready, nodeVars, faults>>

Settle == ready' = IF ready = "no" THEN "settled" ELSE ready

\* The directory came and names the expected node.
BootAnswers ==
    /\ boot = "fetch" /\ boot' = "done"
    /\ Settle
    /\ UNCHANGED <<pc, callVars, queue, latch, threadVars, target, gateway, nodeVars, faults>>

\* The gateway is rejected: the next one, or the last one tried stays.
BootNext ==
    /\ boot \in {"set", "fetch"}
    /\ \/ gateway < Gateways /\ boot' = "set" /\ gateway' = gateway + 1 /\ UNCHANGED ready
       \/ gateway = Gateways /\ boot' = "done" /\ Settle /\ UNCHANGED gateway
    /\ UNCHANGED <<pc, callVars, queue, latch, threadVars, target, nodeVars, faults>>

\* BOOTSTRAP_TIMEOUT_MS: requests may go while the loop goes on.
BootTimer ==
    /\ ready = "no" /\ ready' = "timeout"
    /\ UNCHANGED <<pc, callVars, queue, latch, threadVars, target, boot, gateway, nodeVars, faults>>

-----------------------------------------------------------------------------
(***************************************************************************)
(* The transfer and its requests, in JavaScript.                           *)
(***************************************************************************)
Go(t, from, to) == pc[t] = from /\ pc' = [pc EXCEPT ![t] = to]

Fault == faults < MaxFaults /\ faults' = faults + 1

\* handleTransfer: the nonce is asked for first.
Press(t) ==
    /\ Go(t, "idle", "wait")
    /\ UNCHANGED <<callVars, queue, latch, threadVars, bootVars, nodeVars, faults>>

\* rawRequest finds no identity to sign for.
NoIdentity(t) ==
    /\ ready # "no"
    /\ Go(t, "wait", "error")
    /\ Fault
    /\ UNCHANGED <<callVars, queue, latch, threadVars, bootVars, nodeVars>>

\* NativeQuic.request: whoever finds the latch free starts a handshake.
Enqueue(t) ==
    /\ ready # "no"
    /\ Go(t, "wait", "queued")
    /\ queue' = Append(queue, t)
    /\ latch' = "held"
    /\ \/ latch = "held" /\ UNCHANGED thread
       \/ /\ latch = "free"
          /\ \E w \in Workers : /\ thread[w] = "idle"
                               /\ thread' = [thread EXCEPT ![w] = "start"]
    /\ UNCHANGED <<callVars, dialled, taken, bootVars, nodeVars, faults>>

CancelAllForgets(t) ==
    /\ Go(t, "reset", "wait")
    /\ queue' = <<>> /\ latch' = "free"
    /\ UNCHANGED <<callVars, threadVars, bootVars, nodeVars, faults>>

CancelAllRefetches(t) ==
    /\ pc[t] = "reset"
    /\ pc' = [u \in Transfers |-> IF u = t THEN "wait"
                                  ELSE IF u \in Range(queue) THEN "error" ELSE pc[u]]
    /\ kind' = [kind EXCEPT ![t] = "nonce"]
    /\ queue' = <<>> /\ latch' = "free"
    /\ UNCHANGED <<attempt, nonce, threadVars, bootVars, nodeVars, faults>>

\* resetAuthSession: cancelAll rejects what is queued ("Session reset" is not
\* a desync) and frees the latch; threads that run go on.  Then the request
\* is sent again.
CancelAll(t) ==
    /\ pc[t] = "reset"
    /\ pc' = [u \in Transfers |-> IF u = t THEN "wait"
                                  ELSE IF u \in Range(queue) THEN "error" ELSE pc[u]]
    /\ queue' = <<>> /\ latch' = "free"
    /\ UNCHANGED <<callVars, threadVars, bootVars, nodeVars, faults>>

\* signSovWalletTransferTransaction, with the nonce that was fetched.
Sign(t) ==
    /\ Go(t, "sign", "wait")
    /\ kind' = [kind EXCEPT ![t] = "post"]
    /\ attempt' = [attempt EXCEPT ![t] = 1]
    /\ UNCHANGED <<nonce, queue, latch, threadVars, bootVars, nodeVars, faults>>

SignFails(t) ==
    /\ Go(t, "sign", "error")
    /\ Fault
    /\ UNCHANGED <<callVars, queue, latch, threadVars, bootVars, nodeVars>>

-----------------------------------------------------------------------------
(***************************************************************************)
(* runHandshakeAndDrain, on a thread.                                      *)
(***************************************************************************)
Dial(w) ==
    /\ thread[w] = "start" /\ thread' = [thread EXCEPT ![w] = "dial"]
    /\ dialled' = [dialled EXCEPT ![w] = target]
    /\ UNCHANGED <<pc, callVars, queue, latch, taken, bootVars, nodeVars, faults>>

\* The node that answered is the one expected now.
Verified(w) ==
    /\ thread[w] = "dial" /\ thread' = [thread EXCEPT ![w] = "drain"]
    /\ dialled[w] = target /\ dialled' = [dialled EXCEPT ![w] = 0]
    /\ UNCHANGED <<pc, callVars, queue, latch, taken, bootVars, nodeVars, faults>>

FailQueueKeepsLatch(w) ==
    /\ \/ thread[w] \in {"start", "dial"} /\ Fault
       \/ thread[w] = "dial" /\ dialled[w] # target /\ UNCHANGED faults
    /\ Emptied("error") /\ UNCHANGED latch
    /\ thread' = [thread EXCEPT ![w] = "idle"] /\ dialled' = [dialled EXCEPT ![w] = 0]
    /\ UNCHANGED <<callVars, taken, bootVars, nodeVars>>

\* failQuinnQueue: no identity, no handshake, or another node than the one
\* expected: everything queued is rejected, and reports the error.
FailQueue(w) ==
    /\ \/ thread[w] \in {"start", "dial"} /\ Fault
       \/ thread[w] = "dial" /\ dialled[w] # target /\ UNCHANGED faults
    /\ Emptied("error") /\ latch' = "free"
    /\ thread' = [thread EXCEPT ![w] = "idle"] /\ dialled' = [dialled EXCEPT ![w] = 0]
    /\ UNCHANGED <<callVars, taken, bootVars, nodeVars>>

\* A handshake error that reads like a desync: failQuinnQueue rejects everything
\* queued with it, and each request that has an attempt left resets and retries.
HandshakeDesynced(w) ==
    LET again == {t \in Range(queue) : attempt[t] < MaxAttempts} IN
    /\ thread[w] = "dial" /\ thread' = [thread EXCEPT ![w] = "idle"]
    /\ Fault
    /\ pc' = [t \in Transfers |-> IF t \in again THEN "reset"
                                  ELSE IF t \in Range(queue) THEN "error" ELSE pc[t]]
    /\ attempt' = [t \in Transfers |-> IF t \in again THEN attempt[t] + 1 ELSE attempt[t]]
    /\ queue' = <<>> /\ latch' = "free"
    /\ dialled' = [dialled EXCEPT ![w] = 0]
    /\ UNCHANGED <<kind, nonce, taken, bootVars, nodeVars>>

\* drainQuinnQueue takes the oldest request, whoever queued it.
Take(w) ==
    /\ queue # <<>> /\ queue' = Tail(queue)
    /\ thread[w] = "drain" /\ thread' = [thread EXCEPT ![w] = "send"]
    /\ taken' = [taken EXCEPT ![w] = {Head(queue)}]
    /\ pc' = [pc EXCEPT ![Head(queue)] = "sent"]
    /\ UNCHANGED <<callVars, latch, dialled, bootVars, nodeVars, faults>>

\* The queue is empty: the latch is freed, also if another thread holds it.
DrainEnds(w) ==
    /\ queue = <<>>
    /\ thread[w] = "drain" /\ thread' = [thread EXCEPT ![w] = "idle"]
    /\ latch' = "free"
    /\ UNCHANGED <<pc, callVars, queue, dialled, taken, bootVars, nodeVars, faults>>

-----------------------------------------------------------------------------
(***************************************************************************)
(* A request at the node, and what becomes of its answer.                  *)
(***************************************************************************)
Accepts(t) == kind[t] = "post" /\ nonce[t] = chain

\* The node runs the request, or refuses it.
Runs(t) ==
    \/ Accepts(t) /\ chain' = chain + 1 /\ moved' = [moved EXCEPT ![t] = @ + 1]
    \/ ~Accepts(t) /\ UNCHANGED <<chain, moved>>

\* The call of thread w for t returns.
Returns(w, t) ==
    /\ thread[w] = "send" /\ thread' = [thread EXCEPT ![w] = "drain"]
    /\ taken[w] = {t} /\ taken' = [taken EXCEPT ![w] = {}]
    /\ UNCHANGED <<kind, queue, latch, dialled, bootVars>>

AnsweredUnchecked(w, t) ==
    /\ Returns(w, t)
    /\ Runs(t)
    /\ \/ /\ kind[t] = "nonce" /\ pc' = [pc EXCEPT ![t] = "sign"]
          /\ nonce' = [nonce EXCEPT ![t] = chain]
       \/ /\ kind[t] = "post" /\ pc' = [pc EXCEPT ![t] = "done"]
          /\ UNCHANGED nonce
    /\ UNCHANGED <<attempt, lost, faults>>

\* The answer arrives; quicRequest throws unless it is a success.
Answered(w, t) ==
    /\ Returns(w, t)
    /\ Runs(t)
    /\ \/ /\ kind[t] = "nonce" /\ pc' = [pc EXCEPT ![t] = "sign"]
          /\ nonce' = [nonce EXCEPT ![t] = chain]
       \/ /\ kind[t] = "post" /\ pc' = [pc EXCEPT ![t] = IF Accepts(t) THEN "done" ELSE "error"]
          /\ UNCHANGED nonce
    /\ UNCHANGED <<attempt, lost, faults>>

\* The client learns nothing: the request may have run or not.
Unanswered(w, t) ==
    /\ Returns(w, t)
    /\ Fault
    /\ \/ UNCHANGED nodeVars
       \/ Runs(t) /\ lost' = IF Accepts(t) THEN lost \cup {t} ELSE lost
    /\ UNCHANGED nonce

DesyncedUncounted(w, t) ==
    /\ Unanswered(w, t)
    /\ pc' = [pc EXCEPT ![t] = "reset"]
    /\ attempt' = [attempt EXCEPT ![t] = @ + 1]

\* A session desync ("invalid counter", a cut answer): again after a reset.
Desynced(w, t) ==
    /\ attempt[t] < MaxAttempts
    /\ Unanswered(w, t)
    /\ pc' = [pc EXCEPT ![t] = "reset"]
    /\ attempt' = [attempt EXCEPT ![t] = @ + 1]

\* The last attempt, any other error, or an answer that cannot be parsed.
RequestFails(w, t) ==
    /\ Unanswered(w, t)
    /\ pc' = [pc EXCEPT ![t] = "error"]
    /\ UNCHANGED attempt

-----------------------------------------------------------------------------
Boot == BootSet \/ BootAnswers \/ BootNext

Script(t) == NoIdentity(t) \/ Enqueue(t) \/ CancelAll(t) \/ Sign(t) \/ SignFails(t)

Serve(w) == \E t \in Transfers : Answered(w, t) \/ Desynced(w, t) \/ RequestFails(w, t)

Thread(w) ==
    \/ Dial(w) \/ Verified(w) \/ FailQueue(w) \/ HandshakeDesynced(w)
    \/ Take(w) \/ DrainEnds(w) \/ Serve(w)

Next ==
    \/ Boot \/ BootTimer
    \/ \E t \in Transfers : Press(t) \/ Script(t)
    \/ \E w \in Workers : Thread(w)

\* Timers fire, promises settle and threads run; native calls time out.
Fairness ==
    /\ WF_vars(Boot) /\ WF_vars(BootTimer)
    /\ \A t \in Transfers : WF_vars(Script(t))
    /\ \A w \in Workers : WF_vars(Thread(w))

Spec == Init /\ [][Next]_vars /\ Fairness

-----------------------------------------------------------------------------
(***************************************************************************)
(* Properties.                                                             *)
(***************************************************************************)

\* A press of Transfer moves the tokens at most once, however often
\* runWithSessionRecovery sends its request again: every attempt carries the
\* same signed nonce.
MovedOnce == \A t \in Transfers : moved[t] <= 1

\* The screen tells the truth: "Transfer submitted" only if the tokens
\* moved, and if they moved it says so, unless an answer was lost on the way.
ReportIsTruthful ==
    \A t \in Transfers :
       /\ pc[t] = "done" => moved[t] = 1
       /\ moved[t] >= 1 => pc[t] = "done" \/ t \in lost

\* The latch never outlives its threads, though cancelAll, a validator
\* switch and every ending drain free it for one another: a held latch with
\* no thread would keep the identity from ever being served again, and a
\* queue without a latch would wait for somebody else's request.
QueueIsServed ==
    /\ queue # <<>> => latch = "held"
    /\ latch = "held" => \E w \in Workers : thread[w] # "idle"

\* Every transfer that was pressed ends in a report, unless a validator
\* switch of a bootstrap that outlived its timeout forgot its request.
TransfersSettle ==
    \A t \in Transfers :
       pc[t] = "wait" ~> pc[t] \in Settled \/ (pc[t] = "hung" /\ ready = "timeout")
=============================================================================
