----------------------------- MODULE PoUWReceipts -----------------------------
(***************************************************************************)
(* The durable receipt queue of the Android proof-of-useful-work module    *)
(* (android/.../pouw: PoUWController.processPendingSubmissions,            *)
(* ReceiptStore, ReceiptDao, SubmissionClient.submitBatch).                *)
(*                                                                         *)
(* Every flush() of the bridge runs in a coroutine of its own, and an      *)
(* action is one database call or one request: whatever another flush,     *)
(* the cleanup loop or a process death does may come between two of them,  *)
(* and each call may fail.                                                 *)
(* A flush works on the copies it read; inserts replace the whole row.     *)
(* Of a row the model keeps its state, its retry count, when it was        *)
(* created and whether its data is still there.  How a receipt is solved   *)
(* and signed ends in one insert (CreateReceipt).                          *)
(***************************************************************************)
EXTENDS Naturals, Sequences, FiniteSets

CONSTANTS
    Receipts,   \* receipt nonces
    Flushes,    \* flushes that may run at the same time
    MaxBatch,   \* MAX_BATCH_SIZE
    MaxRetry,   \* MAX_RETRY_COUNT
    MaxFlushes, \* bound: flushes started
    MaxFaults   \* bound: failed submissions, failed database calls, process deaths

ASSUME ReceiptsAssumption ==
    /\ MaxBatch \in Nat \ {0} /\ MaxRetry \in Nat /\ MaxFlushes \in Nat /\ MaxFaults \in Nat
    /\ IsFiniteSet(Flushes)

VARIABLES
    table,      \* the rows of `receipts`, by nonce
    flush,      \* each flush: where it is, the copies it read, how many of them
                \* the node accepted and refused, which one is being marked, and
                \* the row markRetry found for it
    clock,      \* source of createdAt
    started,    \* flushes started
    faults,
    created,    \* history: receipts created
    acked,      \* history: receipts a response reported as accepted
    refused,    \* history: receipts a response reported as rejected
    failed,     \* history: how often a submission of each receipt failed
    again,      \* history: receipts submitted after a response accepted them
    raced,      \* history: receipts two flushes held at once
    unmarked    \* history: receipts whose acceptance was never recorded, as the
                \* database call failed or the process died before it

historyVars == <<created, acked, refused, failed, again, raced, unmarked>>
boundVars == <<started, faults>>
vars == <<table, flush, clock, boundVars, historyVars>>

Absent  == [st |-> "none", retry |-> 0, at |-> 0, blank |-> FALSE]
Idle    == [pc |-> "idle", batch |-> <<>>, acc |-> 0, rej |-> 0, i |-> 1, found |-> Absent]
Pending == {"CREATED", "QUEUED", "RETRY_WAIT"}
States  == Pending \cup {"ACCEPTED", "REJECTED", "none"}   \* SUBMITTED is never set

Rows    == [st : States, retry : Nat, at : Nat, blank : BOOLEAN]
Copies  == [id : Receipts, row : Rows]
Phases  == {"idle", "queue", "post", "accept", "reject", "retry", "giveup", "mark", "write"}
Frames  == [pc : Phases, batch : Seq(Copies), acc : Nat, rej : Nat, i : Nat, found : Rows]

TypeOK ==
    /\ table \in [Receipts -> Rows]
    /\ flush \in [Flushes -> Frames]
    /\ \A f \in Flushes : Len(flush[f].batch) <= MaxBatch
    /\ clock \in Nat
    /\ started \in 0..MaxFlushes /\ faults \in 0..MaxFaults
    /\ created \subseteq Receipts
    /\ acked \subseteq Receipts /\ refused \subseteq Receipts
    /\ failed \in [Receipts -> Nat]
    /\ again \subseteq Receipts /\ raced \subseteq Receipts /\ unmarked \subseteq Receipts

Init ==
    /\ table = [r \in Receipts |-> Absent]
    /\ flush = [f \in Flushes |-> Idle]
    /\ clock = 0
    /\ started = 0 /\ faults = 0
    /\ created = {}
    /\ acked = {} /\ refused = {}
    /\ failed = [r \in Receipts |-> 0]
    /\ again = {} /\ raced = {} /\ unmarked = {}

-----------------------------------------------------------------------------
\* dao.getPending: what it may answer, the pending rows, oldest first, up to
\* the limit.
GetPending(limit) ==
    {ids \in UNION {[1..n -> Receipts] : n \in 0..limit} :
        LET got == {ids[i] : i \in 1..Len(ids)} IN
        /\ \A i, j \in 1..Len(ids) :
              i < j => ids[i] # ids[j] /\ table[ids[i]].at <= table[ids[j]].at
        /\ \A r \in got : table[r].st \in Pending
        /\ \A r \in Receipts \ got :
              table[r].st \in Pending =>
                 Len(ids) = limit /\ \A s \in got : table[s].at <= table[r].at}

Ids(f) == {flush[f].batch[i].id : i \in DOMAIN flush[f].batch}
Nonce(f) == flush[f].batch[flush[f].i].id
IdsIn(f, a, b) == {flush[f].batch[i].id : i \in (a + 1)..b}

\* Go on with the next receipt of the batch, or leave for pc at its end.
Advance(f, last, pc) ==
    LET c == flush[f] IN
    flush' = [flush EXCEPT ![f] =
        IF c.i < last
        THEN [c EXCEPT !.i = c.i + 1, !.found = Absent,
                       !.pc = IF c.pc \in {"queue", "reject"} THEN c.pc ELSE "retry"]
        ELSE IF pc = "idle" THEN Idle ELSE [c EXCEPT !.i = 1, !.pc = pc]]

\* createReceipt.
CreateReceipt(r) ==
    /\ r \notin created
    /\ created' = created \cup {r}
    /\ table' = [table EXCEPT ![r] = [st |-> "CREATED", retry |-> 0, at |-> clock + 1,
                                      blank |-> FALSE]]
    /\ clock' = clock + 1
    /\ UNCHANGED <<flush, boundVars, acked, refused, failed, again, raced, unmarked>>

-----------------------------------------------------------------------------
(***************************************************************************)
(* processPendingSubmissions.                                              *)
(***************************************************************************)
StartFlush(f) ==
    \E ids \in GetPending(MaxBatch) :
        LET batch == [i \in 1..Len(ids) |-> [id |-> ids[i], row |-> table[ids[i]]]] IN
        /\ flush[f] = Idle
        /\ Len(ids) > 0
        /\ started < MaxFlushes /\ started' = started + 1
        /\ flush' = [flush EXCEPT ![f] = [Idle EXCEPT !.pc = "queue", !.batch = batch]]
        /\ raced' = raced \cup ({ids[i] : i \in 1..Len(ids)} \cap UNION {Ids(g) : g \in Flushes})
        /\ UNCHANGED <<table, clock, faults, created, acked, refused, failed, again, unmarked>>

\* Each copy is written back as QUEUED.
MarkQueued(f) ==
    /\ flush[f].pc = "queue"
    /\ table' = [table EXCEPT ![Nonce(f)] = [flush[f].batch[flush[f].i].row EXCEPT !.st = "QUEUED"]]
    /\ Advance(f, Len(flush[f].batch), "post")
    /\ UNCHANGED <<clock, boundVars, historyVars>>

\* submitBatch answers with counters; the client takes the first ones of the
\* batch for the accepted and the next ones for the rejected.
SubmitAnswers(f, acc, rej) ==
    /\ flush[f].pc = "post"
    /\ acc + rej <= Len(flush[f].batch)
    /\ flush' = [flush EXCEPT ![f] = [@ EXCEPT !.pc = "accept", !.acc = acc, !.rej = rej]]
    /\ again' = again \cup (Ids(f) \cap acked)
    /\ acked' = acked \cup IdsIn(f, 0, acc)
    /\ refused' = refused \cup IdsIn(f, acc, acc + rej)
    /\ UNCHANGED <<table, clock, boundVars, created, failed, raced, unmarked>>

\* The request throws, or its answer is an error: every receipt is marked.
SubmitFails(f) ==
    /\ flush[f].pc = "post"
    /\ faults < MaxFaults /\ faults' = faults + 1
    /\ flush' = [flush EXCEPT ![f].pc = "retry"]
    /\ failed' = [r \in Receipts |-> IF r \in Ids(f) THEN failed[r] + 1 ELSE failed[r]]
    /\ again' = again \cup (Ids(f) \cap acked)
    /\ UNCHANGED <<table, clock, started, created, acked, refused, raced, unmarked>>

\* After markAccepted the rejected receipts are marked, if there are any.
AfterAccepted(f) ==
    flush' = [flush EXCEPT ![f] = IF @.rej = 0 THEN Idle
                                  ELSE [@ EXCEPT !.pc = "reject", !.i = flush[f].acc + 1]]

MarkAcceptedButFirst(f) ==
    /\ flush[f].pc = "accept"
    /\ table' = [r \in Receipts |-> IF r \in IdsIn(f, 1, flush[f].acc) /\ table[r].st # "none"
                                    THEN [table[r] EXCEPT !.st = "ACCEPTED"] ELSE table[r]]
    /\ AfterAccepted(f)
    /\ UNCHANGED <<clock, boundVars, historyVars>>

\* markAccepted: one update for all nonces.
MarkAccepted(f) ==
    /\ flush[f].pc = "accept"
    /\ table' = [r \in Receipts |-> IF r \in IdsIn(f, 0, flush[f].acc) /\ table[r].st # "none"
                                    THEN [table[r] EXCEPT !.st = "ACCEPTED"] ELSE table[r]]
    /\ AfterAccepted(f)
    /\ UNCHANGED <<clock, boundVars, historyVars>>

Rejected(r) ==
    table' = [table EXCEPT ![r].st = IF @ = "none" THEN @ ELSE "REJECTED"]

MarkRejected(f) ==
    /\ flush[f].pc = "reject"
    /\ Rejected(Nonce(f))
    /\ Advance(f, flush[f].acc + flush[f].rej, "idle")
    /\ UNCHANGED <<clock, boundVars, historyVars>>

-----------------------------------------------------------------------------
(***************************************************************************)
(* markRetry.                                                              *)
(***************************************************************************)

MarkRetryReadsEarly(f) ==
    /\ flush[f].pc = "retry"
    /\ LET row == IF <<Nonce(f)>> \in GetPending(1) THEN table[Nonce(f)] ELSE Absent IN
          flush' = [flush EXCEPT ![f].found = row,
                                 ![f].pc = IF row # Absent /\ row.retry + 1 >= MaxRetry THEN "giveup" ELSE "mark"]
    /\ UNCHANGED <<table, clock, boundVars, historyVars>>

\* It looks for the receipt among the first row of getPending(1).
MarkRetryReads(f) ==
    /\ flush[f].pc = "retry"
    /\ LET row == IF <<Nonce(f)>> \in GetPending(1) THEN table[Nonce(f)] ELSE Absent IN
          flush' = [flush EXCEPT ![f].found = row,
                                 ![f].pc = IF row # Absent /\ row.retry >= MaxRetry THEN "giveup" ELSE "mark"]
    /\ UNCHANGED <<table, clock, boundVars, historyVars>>

\* The budget is spent.
MarkRetryGivesUp(f) ==
    /\ flush[f].pc = "giveup"
    /\ Rejected(Nonce(f))
    /\ Advance(f, Len(flush[f].batch), "idle")
    /\ UNCHANGED <<clock, boundVars, historyVars>>

\* dao.markRetry.
MarkRetryUpdates(f) ==
    /\ flush[f].pc = "mark"
    /\ LET row == table[Nonce(f)] IN
          table' = [table EXCEPT ![Nonce(f)] =
             IF row.st = "none" THEN row
             ELSE [row EXCEPT !.st = "RETRY_WAIT", !.retry = row.retry + 1]]
    /\ flush' = [flush EXCEPT ![f].pc = "write"]
    /\ UNCHANGED <<clock, boundVars, historyVars>>

\* The error message is stored by replacing the row: with the one that was
\* found, or else with a new entity that has only the nonce.
MarkRetryWrites(f) ==
    /\ flush[f].pc = "write"
    /\ \/ /\ flush[f].found # Absent
          /\ LET row == flush[f].found IN
                table' = [table EXCEPT ![Nonce(f)] =
                   [row EXCEPT !.st = "RETRY_WAIT", !.retry = row.retry + 1]]
          /\ UNCHANGED clock
       \/ /\ flush[f].found = Absent
          /\ table' = [table EXCEPT ![Nonce(f)] = [st |-> "RETRY_WAIT", retry |-> 1,
                                                   at |-> clock + 1, blank |-> TRUE]]
          /\ clock' = clock + 1
    /\ Advance(f, Len(flush[f].batch), "idle")
    /\ UNCHANGED <<boundVars, historyVars>>

-----------------------------------------------------------------------------
(***************************************************************************)
(* A database call of a flush that fails.  Only the write of MarkQueued is *)
(* outside every try, and ends the flush; the others are swallowed where   *)
(* they are made, and the flush goes on as if they had succeeded: without  *)
(* the mark, or having found no row.                                       *)
(***************************************************************************)
DatabaseFails(f) ==
    /\ faults < MaxFaults /\ faults' = faults + 1
    /\ \/ /\ flush[f].pc = "queue"
          /\ flush' = [flush EXCEPT ![f] = Idle]
          /\ UNCHANGED unmarked
       \/ /\ flush[f].pc = "accept"
          /\ AfterAccepted(f)
          /\ unmarked' = unmarked \cup IdsIn(f, 0, flush[f].acc)
       \/ /\ flush[f].pc = "reject"
          /\ Advance(f, flush[f].acc + flush[f].rej, "idle")
          /\ UNCHANGED unmarked
       \/ /\ flush[f].pc = "retry"
          /\ flush' = [flush EXCEPT ![f].found = Absent, ![f].pc = "mark"]
          /\ UNCHANGED unmarked
       \/ /\ flush[f].pc \in {"giveup", "mark", "write"}
          /\ Advance(f, Len(flush[f].batch), "idle")
          /\ UNCHANGED unmarked
    /\ UNCHANGED <<table, clock, started, created, acked, refused, failed, again, raced>>

-----------------------------------------------------------------------------
CleanupAll(cutoff) ==
    /\ table' = [r \in Receipts |-> IF table[r].at < cutoff THEN Absent ELSE table[r]]
    /\ UNCHANGED <<flush, clock, boundVars, historyVars>>

\* The cleanup loop: accepted receipts created before the cutoff are deleted.
Cleanup(cutoff) ==
    /\ table' = [r \in Receipts |-> IF table[r].st = "ACCEPTED" /\ table[r].at < cutoff
                                    THEN Absent ELSE table[r]]
    /\ UNCHANGED <<flush, clock, boundVars, historyVars>>

\* Process death: the flushes are gone, the database is not.
Crash ==
    /\ faults < MaxFaults /\ faults' = faults + 1
    /\ unmarked' = unmarked \cup
          UNION {IdsIn(f, 0, flush[f].acc) : f \in {g \in Flushes : flush[g].pc = "accept"}}
    /\ flush' = [f \in Flushes |-> Idle]
    /\ UNCHANGED <<table, clock, started, created, acked, refused, failed, again, raced>>

Next ==
    \/ \E r \in Receipts : CreateReceipt(r)
    \/ \E f \in Flushes :
          \/ StartFlush(f) \/ MarkQueued(f)
          \/ \E acc, rej \in 0..MaxBatch : SubmitAnswers(f, acc, rej)
          \/ SubmitFails(f)
          \/ MarkAccepted(f) \/ MarkRejected(f)
          \/ MarkRetryReads(f) \/ MarkRetryGivesUp(f) \/ MarkRetryUpdates(f) \/ MarkRetryWrites(f)
          \/ DatabaseFails(f)
    \/ \E cutoff \in 1..(clock + 1) : Cleanup(cutoff)
    \/ Crash

Spec == Init /\ [][Next]_vars

-----------------------------------------------------------------------------
(***************************************************************************)
(* Properties.                                                             *)
(***************************************************************************)

\* No receipt is lost before the node took it: whatever overlapping flushes,
\* failing database calls, the cleanup loop and process deaths do, its row
\* stays, and its data too unless a submission of it failed.  (markRetry of a
\* failed submission does blank rows: RetryKeepsData.)
NeverLost ==
    \A r \in created \ acked :
        table[r].st # "none" /\ (table[r].blank => failed[r] > 0)

\* A receipt is given up only if the node refused it or more submissions than
\* MAX_RETRY_COUNT failed: overlapping retries never count one failure twice.
NotGivenUpEarly ==
    \A r \in Receipts : table[r].st = "REJECTED" => r \in refused \/ failed[r] > MaxRetry

\* A receipt the node accepted is submitted again only if two flushes held
\* it, or if its acceptance was never recorded because the database call
\* failed or the process died first.
SubmittedOnce == again \subseteq raced \cup unmarked

\* "Update with error message": marking a receipt for retry changes its
\* state, count and error, and leaves its data alone.
RetryKeepsData == \A r \in Receipts : ~table[r].blank
=============================================================================
