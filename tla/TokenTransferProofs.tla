------------------------- MODULE TokenTransferProofs -------------------------
(***************************************************************************)
(* A press of Transfer moves tokens at most once and is reported           *)
(* truthfully, and the request queue always has a thread that serves it:   *)
(* for any number of presses, threads, gateways, attempts and faults.      *)
(*                                                                         *)
(* QueueIsServed is inductive.  For the ledger a call must be followed     *)
(* through the transport: it is in the queue once, or with one thread, or  *)
(* in neither (QueueInv, SendInv), so that what rejects the queue never    *)
(* touches a transfer that has already been reported; and a transfer that  *)
(* has moved holds a nonce the node has passed, so no attempt can move it  *)
(* again (LedgerInv).                                                      *)
(***************************************************************************)
EXTENDS TokenTransfer, TLAPS

\* What is in the queue waits in the queue, and only once.
QueueInv ==
    /\ \A i \in 1..Len(queue) : pc[queue[i]] = "queued"
    /\ \A i, j \in 1..Len(queue) : queue[i] = queue[j] => i = j

\* A thread that sends holds a request that is being sent, and holds it alone.
SendInv ==
    /\ \A w \in Workers, t \in Transfers :
          thread[w] = "send" /\ taken[w] = {t} => pc[t] = "sent"
    /\ \A v, w \in Workers, t \in Transfers :
          thread[v] = "send" /\ taken[v] = {t} /\ thread[w] = "send" /\ taken[w] = {t}
          => v = w

\* A transfer moves after its nonce was fetched, and leaves that nonce behind.
LedgerInv ==
    \A t \in Transfers :
       /\ kind[t] = "nonce" => moved[t] = 0
       /\ pc[t] = "sign" => kind[t] = "nonce"
       /\ moved[t] <= 1
       /\ moved[t] = 1 => nonce[t] < chain
       /\ pc[t] = "done" => moved[t] = 1
       /\ moved[t] >= 1 => pc[t] = "done" \/ t \in lost

-----------------------------------------------------------------------------
\* The elements of the queue are transfers.
LEMMA RangeOfQueue ==
    ASSUME TypeOK
    PROVE  /\ Range(queue) \subseteq Transfers
           /\ \A t \in Range(queue) : \E i \in 1..Len(queue) : queue[i] = t
           /\ Len(queue) \in Nat
           /\ \A i \in 1..Len(queue) : queue[i] \in Transfers
  BY DEF TypeOK, Range

\* Taking the head leaves the rest, in order.
LEMMA TailOfQueue ==
    ASSUME TypeOK, queue # <<>>
    PROVE  /\ Head(queue) \in Transfers /\ Head(queue) = queue[1]
           /\ Tail(queue) \in Seq(Transfers)
           /\ Len(queue) \in Nat \ {0}
           /\ Len(Tail(queue)) = Len(queue) - 1
           /\ \A i \in 1..Len(Tail(queue)) : Tail(queue)[i] = queue[i + 1]
  BY DEF TypeOK

\* A request at the node keeps the types of the ledger.
LEMMA RunsTypes ==
    ASSUME TypeOK, NEW t \in Transfers, Runs(t)
    PROVE  chain' \in Nat /\ moved' \in [Transfers -> Nat]
<1>1. CASE Accepts(t)
  <2>1. chain' = chain + 1 /\ moved' = [moved EXCEPT ![t] = moved[t] + 1]
    BY <1>1 DEF Runs
  <2> QED
    BY <2>1 DEF TypeOK
<1>2. CASE ~Accepts(t)
  BY <1>2 DEF Runs, TypeOK
<1> QED
  BY <1>1, <1>2

\* So does a request whose answer is lost.
LEMMA UnansweredTypes ==
    ASSUME TypeOK, NEW w \in Workers, NEW t \in Transfers, Unanswered(w, t)
    PROVE  /\ chain' \in Nat /\ moved' \in [Transfers -> Nat]
           /\ lost' \subseteq Transfers /\ faults' \in 0..MaxFaults
<1>1. chain' \in Nat /\ moved' \in [Transfers -> Nat]
  BY RunsTypes DEF Unanswered, nodeVars, TypeOK
<1>2. lost' \subseteq Transfers
  BY DEF Unanswered, nodeVars, TypeOK
<1>3. faults' \in 0..MaxFaults
  BY TransferAssumption DEF Unanswered, Fault, TypeOK
<1> QED
  BY <1>1, <1>2, <1>3

\* Every action keeps the types of the state.
LEMMA TypeStep ==
    ASSUME TypeOK, [Next]_vars
    PROVE  TypeOK'
<1> USE TransferAssumption DEF TypeOK, callVars, threadVars, bootVars, nodeVars, Go, Fault
<1>1. CASE BootSet
  BY <1>1 DEF BootSet, Emptied
<1>2. CASE BootAnswers \/ BootNext \/ BootTimer
  BY <1>2 DEF BootAnswers, BootNext, BootTimer, Settle
<1>3. ASSUME NEW t \in Transfers, Press(t) \/ Script(t)
      PROVE  TypeOK'
  <2>1. CASE Press(t)
    BY <1>3, <2>1 DEF Press
  <2>2. CASE NoIdentity(t)
    BY <1>3, <2>2 DEF NoIdentity
  <2>3. CASE Enqueue(t)
    <3>1. thread' \in [Workers -> {"idle", "start", "dial", "drain", "send"}]
      BY <2>3 DEF Enqueue
    <3>2. queue' \in Seq(Transfers)
      BY <1>3, <2>3 DEF Enqueue
    <3> QED
      BY <1>3, <2>3, <3>1, <3>2 DEF Enqueue
  <2>4. CASE CancelAll(t)
    <3>1. \A u \in Transfers : pc'[u] \in {"wait", "error", pc[u]}
      BY <2>4 DEF CancelAll
    <3>2. pc' = [u \in Transfers |-> pc'[u]]
      BY <2>4 DEF CancelAll
    <3> QED
      BY <2>4, <3>1, <3>2 DEF CancelAll
  <2>5. CASE Sign(t)
    BY <1>3, <2>5 DEF Sign
  <2>6. CASE SignFails(t)
    BY <1>3, <2>6 DEF SignFails
  <2> QED
    BY <1>3, <2>1, <2>2, <2>3, <2>4, <2>5, <2>6 DEF Script
<1>4. ASSUME NEW w \in Workers, Thread(w)
      PROVE  TypeOK'
  <2>1. CASE Dial(w) \/ Verified(w)
    <3>1. dialled' \in [Workers -> 0..Gateways]
      <4>1. target \in 0..Gateways /\ 0 \in 0..Gateways
        OBVIOUS
      <4> QED
        BY <1>4, <2>1, <4>1 DEF Dial, Verified
    <3> QED
      BY <1>4, <2>1, <3>1 DEF Dial, Verified
  <2>2. CASE FailQueue(w)
    <3>1. faults' \in 0..MaxFaults
      BY <2>2 DEF FailQueue
    <3> QED
      BY <1>4, <2>2, <3>1 DEF FailQueue, Emptied
  <2>7. CASE HandshakeDesynced(w)
    <3>1. \A t \in Transfers : attempt'[t] \in 1..MaxAttempts
      BY <2>7 DEF HandshakeDesynced
    <3>2. attempt' \in [Transfers -> 1..MaxAttempts]
      BY <2>7, <3>1 DEF HandshakeDesynced
    <3>3. faults' \in 0..MaxFaults /\ dialled' \in [Workers -> 0..Gateways]
      BY <2>7 DEF HandshakeDesynced
    <3> QED
      BY <1>4, <2>7, <3>2, <3>3 DEF HandshakeDesynced
  <2>3. CASE Take(w)
    BY <1>4, <2>3, TailOfQueue DEF Take
  <2>4. CASE DrainEnds(w)
    BY <1>4, <2>4 DEF DrainEnds
  <2>5. ASSUME NEW t \in Transfers, Answered(w, t)
        PROVE  TypeOK'
    <3>1. chain' \in Nat /\ moved' \in [Transfers -> Nat]
      BY <2>5, RunsTypes DEF Answered
    <3>2. pc' \in [Transfers -> {"idle", "wait", "queued", "sent", "reset", "sign", "hung",
                                 "done", "error"}]
      BY <2>5 DEF Answered
    <3>3. nonce' \in [Transfers -> Nat]
      BY <2>5 DEF Answered
    <3> QED
      BY <1>4, <2>5, <3>1, <3>2, <3>3 DEF Answered, Returns
  <2>6. ASSUME NEW t \in Transfers, Desynced(w, t) \/ RequestFails(w, t)
        PROVE  TypeOK'
    <3>1. Unanswered(w, t) /\ Returns(w, t) /\ UNCHANGED nonce
      BY <2>6 DEF Desynced, RequestFails, Unanswered
    <3>2. attempt' \in [Transfers -> 1..MaxAttempts]
      <4>1. CASE Desynced(w, t)
        <5>1. attempt[t] + 1 \in 1..MaxAttempts
          BY <4>1 DEF Desynced
        <5> QED
          BY <4>1, <5>1 DEF Desynced
      <4>2. CASE RequestFails(w, t)
        BY <4>2 DEF RequestFails
      <4> QED
        BY <2>6, <4>1, <4>2
    <3> QED
      BY <2>6, <3>1, <3>2, UnansweredTypes DEF Desynced, RequestFails, Returns
  <2> QED
    BY <1>4, <2>1, <2>2, <2>3, <2>4, <2>5, <2>6, <2>7 DEF Thread, Serve
<1>5. CASE UNCHANGED vars
  BY <1>5 DEF vars
<1> QED
  BY <1>1, <1>2, <1>3, <1>4, <1>5 DEF Next, Boot

\* The state of bootstrap, transfers, queue and threads keeps its type under
\* every action of TokenTransfer.
THEOREM TransferTypes == Spec => []TypeOK
<1>1. Init => TypeOK
  BY TransferAssumption DEF Init, TypeOK
<1> QED
  BY <1>1, TypeStep, PTL DEF Spec

-----------------------------------------------------------------------------
\* Enqueueing starts a thread or finds one; whoever empties the queue frees
\* the latch; and a thread only stops by doing both.
LEMMA ServedStep ==
    ASSUME TypeOK, QueueIsServed, [Next]_vars
    PROVE  QueueIsServed'
<1> USE DEF TypeOK, QueueIsServed, callVars, threadVars, bootVars, nodeVars
<1>1. CASE BootSet
  BY <1>1 DEF BootSet, Emptied
<1>2. CASE BootAnswers \/ BootNext \/ BootTimer
  BY <1>2 DEF BootAnswers, BootNext, BootTimer
<1>3. ASSUME NEW t \in Transfers, Press(t) \/ Script(t)
      PROVE  QueueIsServed'
  <2>1. CASE Enqueue(t)
    <3>1. latch' = "held"
      BY <2>1 DEF Enqueue
    <3>2. \E w \in Workers : thread'[w] # "idle"
      BY <2>1 DEF Enqueue
    <3> QED
      BY <3>1, <3>2
  <2>2. CASE CancelAll(t)
    BY <2>2 DEF CancelAll
  <2>3. CASE Press(t) \/ NoIdentity(t) \/ Sign(t) \/ SignFails(t)
    BY <2>3 DEF Press, NoIdentity, Sign, SignFails
  <2> QED
    BY <1>3, <2>1, <2>2, <2>3 DEF Script
<1>4. ASSUME NEW w \in Workers, Thread(w)
      PROVE  QueueIsServed'
  <2>1. CASE FailQueue(w) \/ HandshakeDesynced(w)
    BY <2>1 DEF FailQueue, HandshakeDesynced, Emptied
  <2>2. CASE DrainEnds(w)
    BY <2>2 DEF DrainEnds
  <2>3. CASE Dial(w) \/ Verified(w)
    <3>1. thread'[w] # "idle" /\ UNCHANGED <<queue, latch>>
      BY <1>4, <2>3 DEF Dial, Verified
    <3> QED
      BY <3>1
  <2>4. CASE Take(w)
    <3>1. thread'[w] # "idle" /\ UNCHANGED latch /\ queue # <<>>
      BY <1>4, <2>4 DEF Take
    <3> QED
      BY <3>1
  <2>5. CASE Serve(w)
    <3>1. PICK t \in Transfers : Returns(w, t)
      BY <2>5 DEF Serve, Answered, Desynced, RequestFails, Unanswered
    <3>2. thread'[w] # "idle" /\ UNCHANGED <<queue, latch>>
      BY <1>4, <3>1 DEF Returns
    <3> QED
      BY <3>2
  <2> QED
    BY <1>4, <2>1, <2>2, <2>3, <2>4, <2>5 DEF Thread
<1>5. CASE UNCHANGED vars
  BY <1>5 DEF vars
<1> QED
  BY <1>1, <1>2, <1>3, <1>4, <1>5 DEF Next, Boot

\* A queued request always has a thread that will take it, and the latch of
\* the identity never outlives its threads, whatever cancelAll, validator
\* switches and ending drains do to one another.
THEOREM QueueServed == Spec => []QueueIsServed
<1>1. Init => QueueIsServed
  BY DEF Init, QueueIsServed
<1> QED
  BY <1>1, ServedStep, TransferTypes, PTL DEF Spec

-----------------------------------------------------------------------------
\* Only what waits in the queue is moved when the queue is emptied.
LEMMA EmptiedMoves ==
    ASSUME TypeOK, QueueInv, NEW st, Emptied(st)
    PROVE  /\ \A t \in Transfers : pc'[t] = pc[t] \/ (pc[t] = "queued" /\ pc'[t] = st)
           /\ Len(queue') = 0
<1>1. \A t \in Range(queue) : pc[t] = "queued"
  BY RangeOfQueue DEF QueueInv
<1> QED
  BY <1>1 DEF Emptied, TypeOK

\* So does a desync in the handshake, to a retry or to the report.
LEMMA DesyncedMoves ==
    ASSUME TypeOK, QueueInv, NEW w \in Workers, HandshakeDesynced(w)
    PROVE  /\ \A t \in Transfers :
                 pc'[t] = pc[t] \/ (pc[t] = "queued" /\ pc'[t] \in {"reset", "error"})
           /\ Len(queue') = 0
<1>1. \A t \in Range(queue) : pc[t] = "queued"
  BY RangeOfQueue DEF QueueInv
<1>2. \A t \in Transfers : pc'[t] = pc[t] \/ (t \in Range(queue) /\ pc'[t] \in {"reset", "error"})
  BY DEF HandshakeDesynced, TypeOK
<1>3. Len(queue') = 0
  BY DEF HandshakeDesynced
<1> QED
  BY <1>1, <1>2, <1>3

\* cancelAll moves the caller and what waits in the queue.
LEMMA CancelAllMoves ==
    ASSUME TypeOK, QueueInv, NEW t \in Transfers, CancelAll(t)
    PROVE  /\ \A u \in Transfers : \/ pc'[u] = pc[u]
                                   \/ pc[u] = "queued" /\ pc'[u] = "error"
                                   \/ pc[u] = "reset" /\ pc'[u] = "wait"
           /\ Len(queue') = 0
<1>1. \A u \in Range(queue) : pc[u] = "queued"
  BY RangeOfQueue DEF QueueInv
<1>2. \A u \in Transfers : pc'[u] = IF u = t THEN "wait"
                                   ELSE IF u \in Range(queue) THEN "error" ELSE pc[u]
  BY DEF CancelAll
<1> QED
  BY <1>1, <1>2 DEF CancelAll

\* Emptying the queue disturbs no thread that sends.
LEMMA EmptyKeepsControl ==
    ASSUME QueueInv, SendInv, Len(queue') = 0,
           \A t \in Transfers : pc[t] = "sent" => pc'[t] = "sent",
           \A w \in Workers : thread'[w] = "send" => thread[w] = "send",
           UNCHANGED taken
    PROVE  QueueInv' /\ SendInv'
  BY DEF QueueInv, SendInv

\* Neither does a step of a transfer that is not in the transport.
LEMMA ScriptKeepsControl ==
    ASSUME TypeOK, QueueInv, SendInv, NEW t \in Transfers, NEW from, NEW to,
           Go(t, from, to), from # "queued", from # "sent",
           UNCHANGED <<queue, thread, taken>>
    PROVE  QueueInv' /\ SendInv'
<1>1. \A u \in Transfers : pc[u] \in {"queued", "sent"} => pc'[u] = pc[u]
  BY DEF Go, TypeOK
<1>2. QueueInv'
  BY <1>1, RangeOfQueue DEF QueueInv
<1>3. SendInv'
  BY <1>1 DEF SendInv
<1> QED
  BY <1>2, <1>3

\* A call is in the queue once, or with one thread, or in neither.
LEMMA ControlStep ==
    ASSUME TypeOK, QueueInv, SendInv, [Next]_vars
    PROVE  QueueInv' /\ SendInv'
<1> USE DEF callVars, threadVars, bootVars, nodeVars
<1>1. CASE BootSet
  BY <1>1, EmptiedMoves, EmptyKeepsControl DEF BootSet
<1>2. CASE BootAnswers \/ BootNext \/ BootTimer
  BY <1>2 DEF BootAnswers, BootNext, BootTimer, QueueInv, SendInv
<1>3. ASSUME NEW t \in Transfers, Press(t) \/ Script(t)
      PROVE  QueueInv' /\ SendInv'
  <2>1. CASE Enqueue(t)
    <3>1. pc[t] = "wait" /\ pc' = [pc EXCEPT ![t] = "queued"] /\ queue' = Append(queue, t)
          /\ UNCHANGED taken
      BY <2>1 DEF Enqueue, Go
    <3>2. QueueInv'
      <4>1. Len(queue') = Len(queue) + 1 /\ queue'[Len(queue) + 1] = t
            /\ \A i \in 1..Len(queue) : queue'[i] = queue[i] /\ queue[i] # t
        BY <3>1, RangeOfQueue, SMTT(30) DEF TypeOK, QueueInv
      <4>2. \A i \in 1..Len(queue) : pc'[queue[i]] = "queued"
        BY <3>1, <4>1, RangeOfQueue DEF TypeOK, QueueInv
      <4>3. pc'[t] = "queued"
        BY <3>1 DEF TypeOK
      <4> QED
        BY <4>1, <4>2, <4>3, RangeOfQueue DEF QueueInv
    <3>3. \A w \in Workers : thread'[w] = "send" => thread[w] = "send"
      BY <2>1 DEF Enqueue, TypeOK
    <3>4. \A u \in Transfers : pc[u] = "sent" => pc'[u] = "sent"
      BY <3>1 DEF TypeOK
    <3>5. SendInv'
      BY <3>1, <3>3, <3>4 DEF SendInv
    <3> QED
      BY <3>2, <3>5
  <2>2. CASE CancelAll(t)
    BY <1>3, <2>2, CancelAllMoves, EmptyKeepsControl DEF CancelAll
  <2>3. CASE Press(t)
    BY <1>3, <2>3, ScriptKeepsControl DEF Press
  <2>4. CASE NoIdentity(t)
    BY <1>3, <2>4, ScriptKeepsControl DEF NoIdentity
  <2>5. CASE Sign(t)
    BY <1>3, <2>5, ScriptKeepsControl DEF Sign
  <2>6. CASE SignFails(t)
    BY <1>3, <2>6, ScriptKeepsControl DEF SignFails
  <2> QED
    BY <1>3, <2>1, <2>2, <2>3, <2>4, <2>5, <2>6 DEF Script
<1>4. ASSUME NEW w \in Workers, Thread(w)
      PROVE  QueueInv' /\ SendInv'
  <2>1. CASE FailQueue(w)
    <3>1. \A v \in Workers : thread'[v] = "send" => thread[v] = "send"
      BY <2>1 DEF FailQueue, TypeOK
    <3> QED
      BY <2>1, <3>1, EmptiedMoves, EmptyKeepsControl DEF FailQueue
  <2>9. CASE HandshakeDesynced(w)
    <3>1. \A v \in Workers : thread'[v] = "send" => thread[v] = "send"
      BY <2>9 DEF HandshakeDesynced, TypeOK
    <3> QED
      BY <1>4, <2>9, <3>1, DesyncedMoves, EmptyKeepsControl DEF HandshakeDesynced
  <2>2. CASE Dial(w) \/ Verified(w) \/ DrainEnds(w)
    <3>1. UNCHANGED <<pc, queue, taken>>
      BY <2>2 DEF Dial, Verified, DrainEnds
    <3>2. \A v \in Workers : thread'[v] = "send" => thread[v] = "send"
      BY <2>2 DEF Dial, Verified, DrainEnds, TypeOK
    <3> QED
      BY <3>1, <3>2 DEF QueueInv, SendInv
  <2>3. CASE Take(w)
    <3> DEFINE h == Head(queue)
    <3>1. /\ queue # <<>> /\ queue' = Tail(queue) /\ pc' = [pc EXCEPT ![h] = "sent"]
          /\ thread' = [thread EXCEPT ![w] = "send"] /\ taken' = [taken EXCEPT ![w] = {h}]
      BY <2>3 DEF Take
    <3>2. h \in Transfers /\ pc[h] = "queued"
      BY <3>1, TailOfQueue DEF QueueInv
    <3>3. \A i \in 1..Len(queue') : i + 1 \in 1..Len(queue) /\ queue'[i] = queue[i + 1]
      BY <3>1, TailOfQueue
    <3>4. \A i \in 1..Len(queue') : queue'[i] # h /\ queue'[i] \in Transfers
      BY <3>1, <3>3, TailOfQueue, RangeOfQueue DEF QueueInv
    <3>5. QueueInv'
      <4>1. \A i \in 1..Len(queue') : pc'[queue'[i]] = "queued"
        BY <3>1, <3>3, <3>4, SMTT(30) DEF QueueInv, TypeOK
      <4>2. \A i, j \in 1..Len(queue') : queue'[i] = queue'[j] => i = j
        <5>1. \A i, j \in 1..Len(queue') : queue'[i] = queue'[j] => i + 1 = j + 1
          BY <3>3 DEF QueueInv
        <5> QED
          BY <5>1
      <4> QED
        BY <4>1, <4>2 DEF QueueInv
    <3>6. SendInv'
      <4>1. \A v \in Workers, t \in Transfers :
               v # w /\ thread'[v] = "send" /\ taken'[v] = {t} => pc[t] = "sent" /\ t # h
        BY <3>1, <3>2 DEF SendInv, TypeOK
      <4>2. \A t \in Transfers : taken'[w] = {t} => t = h
        BY <1>4, <3>1 DEF TypeOK
      <4>3. \A t \in Transfers : t # h => pc'[t] = pc[t]
        BY <3>1 DEF TypeOK
      <4>4. pc'[h] = "sent"
        BY <3>1, <3>2 DEF TypeOK
      <4>5. \A v \in Workers : v # w => thread'[v] = thread[v] /\ taken'[v] = taken[v]
        BY <3>1 DEF TypeOK
      <4> QED
        BY <4>1, <4>2, <4>3, <4>4, <4>5 DEF SendInv
    <3> QED
      BY <3>5, <3>6
  <2>4. CASE Serve(w)
    <3>1. PICK t \in Transfers :
             /\ Returns(w, t)
             /\ \E x : pc' = [pc EXCEPT ![t] = x]
      BY <2>4 DEF Serve, Answered, Desynced, RequestFails, Unanswered
    <3>2. /\ thread[w] = "send" /\ taken[w] = {t} /\ UNCHANGED queue
          /\ thread' = [thread EXCEPT ![w] = "drain"] /\ taken' = [taken EXCEPT ![w] = {}]
      BY <3>1 DEF Returns
    <3>3. pc[t] = "sent"
      BY <1>4, <3>2 DEF SendInv
    <3>4. \A u \in Transfers : u # t => pc'[u] = pc[u]
      BY <3>1 DEF TypeOK
    <3>5. QueueInv'
      BY <3>2, <3>3, <3>4, RangeOfQueue DEF QueueInv
    <3>6. \A v \in Workers : thread'[v] = "send" =>
             v # w /\ thread[v] = "send" /\ taken'[v] = taken[v]
      BY <1>4, <3>2 DEF TypeOK
    <3>7. SendInv'
      BY <1>4, <3>2, <3>4, <3>6 DEF SendInv
    <3> QED
      BY <3>5, <3>7
  <2> QED
    BY <1>4, <2>1, <2>2, <2>3, <2>4, <2>9 DEF Thread
<1>5. CASE UNCHANGED vars
  BY <1>5 DEF vars, QueueInv, SendInv
<1> QED
  BY <1>1, <1>2, <1>3, <1>4, <1>5 DEF Next, Boot

-----------------------------------------------------------------------------
\* A step that only moves transfers, none of them to "sign" or away from
\* "done", leaves the ledger's facts alone.
QuietMoves ==
    /\ UNCHANGED <<kind, nonce, chain, moved, lost>>
    /\ \A t \in Transfers : \/ pc'[t] = pc[t]
                            \/ pc[t] # "done" /\ pc'[t] # "sign" /\ pc'[t] # "done"

LEMMA MovesKeepLedger ==
    ASSUME LedgerInv, QuietMoves
    PROVE  LedgerInv'
<1>1. ASSUME NEW t \in Transfers
      PROVE  /\ pc'[t] = "sign" => pc[t] = "sign"
             /\ pc'[t] = "done" <=> pc[t] = "done"
  BY <1>1 DEF QuietMoves
<1> QED
  BY <1>1 DEF LedgerInv, QuietMoves

\* A post that runs, runs for the first time and leaves its nonce behind;
\* every other transfer keeps what it had.
LEMMA RunsOnce ==
    ASSUME TypeOK, LedgerInv, NEW t \in Transfers, Runs(t)
    PROVE  /\ \A u \in Transfers : u # t => moved'[u] = moved[u]
           /\ chain' >= chain
           /\ Accepts(t) => moved[t] = 0 /\ moved'[t] = 1 /\ nonce[t] < chain'
           /\ ~Accepts(t) => moved'[t] = moved[t]
<1>1. CASE Accepts(t)
  <2>1. chain' = chain + 1 /\ moved' = [moved EXCEPT ![t] = moved[t] + 1]
    BY <1>1 DEF Runs
  <2>2. moved[t] = 0
    BY <1>1 DEF Accepts, LedgerInv, TypeOK
  <2> QED
    BY <1>1, <2>1, <2>2 DEF Accepts, TypeOK
<1>2. CASE ~Accepts(t)
  BY <1>2 DEF Runs, TypeOK
<1> QED
  BY <1>1, <1>2

\* No step moves tokens twice or misreports a transfer.
LEMMA LedgerStep ==
    ASSUME TypeOK, QueueInv, SendInv, LedgerInv, [Next]_vars
    PROVE  LedgerInv'
<1> USE DEF callVars, threadVars, bootVars, nodeVars
<1>1. CASE BootSet
  <2>1. QuietMoves
    BY <1>1, EmptiedMoves DEF BootSet, QuietMoves
  <2> QED
    BY <2>1, MovesKeepLedger
<1>2. CASE BootAnswers \/ BootNext \/ BootTimer
  <2>1. QuietMoves
    BY <1>2 DEF BootAnswers, BootNext, BootTimer, QuietMoves
  <2> QED
    BY <2>1, MovesKeepLedger
<1>3. ASSUME NEW t \in Transfers, Press(t) \/ Script(t)
      PROVE  LedgerInv'
  <2>1. CASE Press(t) \/ NoIdentity(t) \/ Enqueue(t) \/ SignFails(t)
    <3>1. UNCHANGED <<kind, nonce, chain, moved, lost>>
      BY <2>1 DEF Press, NoIdentity, Enqueue, SignFails
    <3>2. pc[t] # "done" /\ \E x \in {"wait", "queued", "error"} : pc' = [pc EXCEPT ![t] = x]
      BY <2>1 DEF Press, NoIdentity, Enqueue, SignFails, Go
    <3>3. QuietMoves
      BY <1>3, <3>1, <3>2 DEF TypeOK, QuietMoves
    <3> QED
      BY <3>3, MovesKeepLedger
  <2>2. CASE CancelAll(t)
    <3>1. QuietMoves
      BY <1>3, <2>2, CancelAllMoves DEF CancelAll, QuietMoves
    <3> QED
      BY <3>1, MovesKeepLedger
  <2>3. CASE Sign(t)
    <3>1. /\ pc[t] = "sign" /\ pc' = [pc EXCEPT ![t] = "wait"]
          /\ kind' = [kind EXCEPT ![t] = "post"] /\ UNCHANGED <<nonce, chain, moved, lost>>
      BY <2>3 DEF Sign, Go
    <3>2. moved[t] = 0
      BY <1>3, <3>1 DEF LedgerInv
    <3> QED
      BY <1>3, <3>1, <3>2 DEF LedgerInv, TypeOK
  <2> QED
    BY <1>3, <2>1, <2>2, <2>3 DEF Script
<1>4. ASSUME NEW w \in Workers, Thread(w)
      PROVE  LedgerInv'
  <2>1. CASE FailQueue(w)
    <3>1. QuietMoves
      BY <2>1, EmptiedMoves DEF FailQueue, QuietMoves
    <3> QED
      BY <3>1, MovesKeepLedger
  <2>9. CASE HandshakeDesynced(w)
    <3>1. QuietMoves
      BY <1>4, <2>9, DesyncedMoves DEF HandshakeDesynced, QuietMoves, nodeVars
    <3> QED
      BY <3>1, MovesKeepLedger
  <2>2. CASE Dial(w) \/ Verified(w) \/ DrainEnds(w)
    <3>1. QuietMoves
      BY <2>2 DEF Dial, Verified, DrainEnds, QuietMoves
    <3> QED
      BY <3>1, MovesKeepLedger
  <2>3. CASE Take(w)
    <3>1. Head(queue) \in Transfers /\ pc[Head(queue)] = "queued"
      BY <2>3, TailOfQueue DEF Take, QueueInv
    <3>2. QuietMoves
      BY <2>3, <3>1 DEF Take, TypeOK, QuietMoves
    <3> QED
      BY <3>2, MovesKeepLedger
  <2>4. ASSUME NEW t \in Transfers, Returns(w, t)
        PROVE  pc[t] = "sent" /\ UNCHANGED kind
    BY <1>4, <2>4 DEF Returns, SendInv
  <2>5. ASSUME NEW t \in Transfers, Answered(w, t)
        PROVE  LedgerInv'
    <3>1. pc[t] = "sent" /\ UNCHANGED <<kind, lost>> /\ Runs(t)
      BY <2>4, <2>5 DEF Answered
    <3>2. CASE kind[t] = "nonce"
      <4>1. pc' = [pc EXCEPT ![t] = "sign"] /\ nonce' = [nonce EXCEPT ![t] = chain]
        BY <2>5, <3>2 DEF Answered
      <4>2. UNCHANGED <<chain, moved>> /\ moved[t] = 0
        BY <3>1, <3>2 DEF Runs, Accepts, LedgerInv
      <4> QED
        BY <3>1, <3>2, <4>1, <4>2 DEF LedgerInv, TypeOK
    <3>3. CASE kind[t] = "post"
      <4>1. UNCHANGED nonce
        BY <2>5, <3>3 DEF Answered
      <4>2. CASE Accepts(t)
        <5>1. pc' = [pc EXCEPT ![t] = "done"]
          BY <2>5, <3>3, <4>2 DEF Answered
        <5>2. /\ \A u \in Transfers : u # t => moved'[u] = moved[u] /\ pc'[u] = pc[u]
              /\ moved'[t] = 1 /\ nonce[t] < chain' /\ pc'[t] = "done" /\ chain' >= chain
          BY <3>1, <4>2, <5>1, RunsOnce DEF TypeOK
        <5>3. chain' \in Nat
          BY <3>1, RunsTypes
        <5> QED
          BY <3>1, <3>3, <4>1, <5>2, <5>3 DEF LedgerInv, TypeOK
      <4>3. CASE ~Accepts(t)
        <5>1. pc' = [pc EXCEPT ![t] = "error"]
          BY <2>5, <3>3, <4>3 DEF Answered
        <5>2. UNCHANGED <<chain, moved>>
          BY <3>1, <4>3 DEF Runs
        <5>3. QuietMoves
          BY <3>1, <4>1, <5>1, <5>2 DEF TypeOK, QuietMoves
        <5> QED
          BY <5>3, MovesKeepLedger
      <4> QED
        BY <4>2, <4>3
    <3> QED
      BY <3>2, <3>3 DEF TypeOK
  <2>6. ASSUME NEW t \in Transfers, Desynced(w, t) \/ RequestFails(w, t)
        PROVE  LedgerInv'
    <3>1. pc[t] = "sent" /\ UNCHANGED <<kind, nonce>>
      BY <2>4, <2>6 DEF Desynced, RequestFails, Unanswered
    <3>2. \E x \in {"reset", "error"} : pc' = [pc EXCEPT ![t] = x]
      BY <2>6 DEF Desynced, RequestFails
    <3>3. CASE UNCHANGED nodeVars
      <4>1. QuietMoves
        BY <3>1, <3>2, <3>3 DEF TypeOK, QuietMoves
      <4> QED
        BY <4>1, MovesKeepLedger
    <3>4. CASE Runs(t) /\ lost' = IF Accepts(t) THEN lost \cup {t} ELSE lost
      <4>1. CASE Accepts(t)
        <5>1. /\ \A u \in Transfers : u # t => moved'[u] = moved[u] /\ pc'[u] = pc[u]
              /\ moved'[t] = 1 /\ nonce[t] < chain' /\ chain' >= chain
              /\ pc'[t] \in {"reset", "error"}
          BY <3>2, <3>4, <4>1, RunsOnce DEF TypeOK
        <5>2. chain' \in Nat /\ lost' = lost \cup {t} /\ kind[t] = "post"
          BY <3>4, <4>1, RunsTypes DEF Accepts
        <5> QED
          BY <3>1, <5>1, <5>2 DEF LedgerInv, TypeOK
      <4>2. CASE ~Accepts(t)
        <5>1. UNCHANGED <<chain, moved, lost>>
          BY <3>4, <4>2 DEF Runs
        <5>2. QuietMoves
          BY <3>1, <3>2, <5>1 DEF TypeOK, QuietMoves
        <5> QED
          BY <5>2, MovesKeepLedger
      <4> QED
        BY <4>1, <4>2
    <3> QED
      BY <2>6, <3>3, <3>4 DEF Desynced, RequestFails, Unanswered
  <2> QED
    BY <1>4, <2>1, <2>2, <2>3, <2>5, <2>6, <2>9 DEF Thread, Serve
<1>5. CASE UNCHANGED vars
  <2>1. QuietMoves
    BY <1>5 DEF vars, QuietMoves
  <2> QED
    BY <2>1, MovesKeepLedger
<1> QED
  BY <1>1, <1>2, <1>3, <1>4, <1>5 DEF Next, Boot

\* The inductive invariant of the ledger holds in every state.
LEMMA TransferInvariant == Spec => [](TypeOK /\ QueueInv /\ SendInv /\ LedgerInv)
<1>1. Init => QueueInv /\ SendInv /\ LedgerInv
  BY DEF Init, QueueInv, SendInv, LedgerInv
<1>2. Init => TypeOK
  BY TransferAssumption DEF Init, TypeOK
<1> QED
  BY <1>1, <1>2, TypeStep, ControlStep, LedgerStep, PTL DEF Spec

\* However often runWithSessionRecovery sends a transfer again, and whatever
\* is lost on the way, its tokens move at most once.
THEOREM TokensMoveOnce == Spec => []MovedOnce
<1>1. LedgerInv => MovedOnce
  BY DEF LedgerInv, MovedOnce
<1> QED
  BY <1>1, TransferInvariant, PTL

\* handleTransfer reports a success only if the tokens moved, and a failure
\* of a transfer that moved only if an answer was lost.
THEOREM ReportsAreTruthful == Spec => []ReportIsTruthful
<1>1. LedgerInv => ReportIsTruthful
  BY DEF LedgerInv, ReportIsTruthful
<1> QED
  BY <1>1, TransferInvariant, PTL
=============================================================================
