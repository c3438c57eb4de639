------------------------- MODULE PoUWReceiptsProofs -------------------------
(***************************************************************************)
(* The receipt queue of the Android module, with any number of receipts,   *)
(* of overlapping flushes, of failing database calls and of process        *)
(* deaths: nothing is lost before the node took it, nothing is given up    *)
(* before its budget of failures is spent, and nothing is submitted again  *)
(* whose acceptance was recorded, races aside.                             *)
(***************************************************************************)
EXTENDS PoUWReceipts, FiniteSetTheorems, TLAPS

\* Where a flush stands in the batch it read, which names no receipt twice.
BatchOK(f) ==
    /\ \A i, j \in 1..Len(flush[f].batch) :
          flush[f].batch[i].id = flush[f].batch[j].id => i = j
    /\ \A i \in 1..Len(flush[f].batch) : flush[f].batch[i].id \in created
    /\ flush[f].pc = "idle" => flush[f] = Idle
    /\ flush[f].pc \in {"queue", "retry", "giveup", "mark", "write"} =>
          flush[f].i \in 1..Len(flush[f].batch)
    /\ flush[f].pc = "post" => flush[f].i = 1 /\ 1 <= Len(flush[f].batch)
    /\ flush[f].pc \in {"accept", "reject"} =>
          flush[f].acc + flush[f].rej <= Len(flush[f].batch)
    /\ flush[f].pc = "reject" =>
          flush[f].i \in (flush[f].acc + 1)..(flush[f].acc + flush[f].rej)

BatchInv == \A f \in Flushes : BatchOK(f)

\* What is in the table was created.
TableInv == \A r \in Receipts : table[r].st # "none" => r \in created

-----------------------------------------------------------------------------
(***************************************************************************)
(* What the actions do to the flushes.                                     *)
(***************************************************************************)

\* A flush keeps its fields' types.
LEMMA FrameTypes ==
    ASSUME TypeOK, NEW f \in Flushes
    PROVE  /\ flush[f].pc \in Phases /\ flush[f].batch \in Seq(Copies)
           /\ Len(flush[f].batch) \in Nat /\ Len(flush[f].batch) <= MaxBatch
           /\ flush[f].acc \in Nat /\ flush[f].rej \in Nat /\ flush[f].i \in Nat
           /\ flush[f].found \in Rows
           /\ \A i \in 1..Len(flush[f].batch) :
                 /\ flush[f].batch[i].id \in Receipts
                 /\ flush[f].batch[i].row \in Rows
           /\ Absent \in Rows /\ Idle \in Frames /\ MaxBatch \in Nat
<1>1. flush[f] \in Frames
  BY DEF TypeOK
<1>2. \A i \in 1..Len(flush[f].batch) : flush[f].batch[i] \in Copies
  BY <1>1 DEF Frames
<1>3. Absent \in Rows
  BY DEF Absent, Rows, States
<1>4. Idle \in Frames
  BY <1>3 DEF Idle, Frames, Phases
<1>5. Len(flush[f].batch) \in Nat /\ Len(flush[f].batch) <= MaxBatch /\ MaxBatch \in Nat
  BY <1>1, ReceiptsAssumption DEF TypeOK, Frames
<1>6. /\ flush[f].pc \in Phases /\ flush[f].batch \in Seq(Copies)
      /\ flush[f].acc \in Nat /\ flush[f].rej \in Nat /\ flush[f].i \in Nat
      /\ flush[f].found \in Rows
  BY <1>1 DEF Frames
<1> QED
  BY <1>2, <1>3, <1>4, <1>5, <1>6 DEF Copies

\* processPendingSubmissions reads its batch: pending rows, each once.
LEMMA StartOutcome ==
    ASSUME TypeOK, NEW f \in Flushes, StartFlush(f)
    PROVE  /\ flush[f] = Idle
           /\ flush' \in [Flushes -> Frames]
           /\ \A g \in Flushes \ {f} : flush'[g] = flush[g]
           /\ flush'[f].pc = "queue" /\ flush'[f].i = 1
           /\ Len(flush'[f].batch) \in 1..MaxBatch
           /\ \A i, j \in 1..Len(flush'[f].batch) :
                 flush'[f].batch[i].id = flush'[f].batch[j].id => i = j
           /\ \A i \in 1..Len(flush'[f].batch) :
                 LET c == flush'[f].batch[i] IN
                 /\ c.id \in Receipts /\ table[c.id].st \in Pending /\ c.row = table[c.id]
           /\ raced' = raced \cup {r \in Receipts :
                 /\ \E i \in 1..Len(flush'[f].batch) : flush'[f].batch[i].id = r
                 /\ \E g \in Flushes : r \in Ids(g)}
           /\ started' = started + 1 /\ started < MaxFlushes
           /\ UNCHANGED <<table, clock, faults, created, acked, refused, failed, again, unmarked>>
<1> DEFINE B(ids) == [i \in 1..Len(ids) |-> [id |-> ids[i], row |-> table[ids[i]]]]
<1>1. PICK ids \in GetPending(MaxBatch) :
        /\ flush[f] = Idle
        /\ Len(ids) > 0
        /\ started < MaxFlushes /\ started' = started + 1
        /\ flush' = [flush EXCEPT ![f] = [Idle EXCEPT !.pc = "queue", !.batch = B(ids)]]
        /\ raced' = raced \cup ({ids[i] : i \in 1..Len(ids)} \cap UNION {Ids(g) : g \in Flushes})
        /\ UNCHANGED <<table, clock, faults, created, acked, refused, failed, again, unmarked>>
  BY DEF StartFlush
<1>2. PICK n \in 0..MaxBatch : ids \in [1..n -> Receipts]
  BY DEF GetPending
<1>3. n \in Nat /\ ids \in Seq(Receipts) /\ Len(ids) = n
  BY <1>2, ReceiptsAssumption
<1>4. \A i \in 1..n : ids[i] \in Receipts /\ table[ids[i]].st \in Pending
  BY <1>2, <1>3 DEF GetPending
<1>5. \A i, j \in 1..n : ids[i] = ids[j] => i = j
  <2>1. \A i, j \in 1..n : i < j => ids[i] # ids[j]
    BY <1>2, <1>3 DEF GetPending
  <2> QED
    BY <1>3, <2>1
<1>6. table \in [Receipts -> Rows]
  BY DEF TypeOK
<1>7. /\ B(ids) \in Seq(Copies) /\ Len(B(ids)) = n
      /\ \A i \in 1..n : B(ids)[i].id = ids[i] /\ B(ids)[i].row = table[ids[i]]
  BY <1>3, <1>4, <1>6 DEF Copies
<1> HIDE DEF B
<1>8. [Idle EXCEPT !.pc = "queue", !.batch = B(ids)] \in Frames
  BY <1>7, FrameTypes DEF Frames, Idle, Phases
<1>9. flush \in [Flushes -> Frames]
  BY DEF TypeOK
<1>10. /\ flush' \in [Flushes -> Frames]
       /\ \A g \in Flushes \ {f} : flush'[g] = flush[g]
       /\ flush'[f] = [Idle EXCEPT !.pc = "queue", !.batch = B(ids)]
  BY <1>1, <1>8, <1>9
<1>11. flush'[f].pc = "queue" /\ flush'[f].i = 1 /\ flush'[f].batch = B(ids)
  BY <1>10 DEF Idle
<1>12. raced' = raced \cup {r \in Receipts :
                 /\ \E i \in 1..Len(flush'[f].batch) : flush'[f].batch[i].id = r
                 /\ \E g \in Flushes : r \in Ids(g)}
  BY <1>1, <1>3, <1>4, <1>7, <1>11
<1> QED
  BY <1>1, <1>3, <1>4, <1>5, <1>7, <1>10, <1>11, <1>12

\* A flush goes on to its next receipt, or leaves the loop.
LEMMA AdvanceOutcome ==
    ASSUME TypeOK, NEW f \in Flushes, NEW last, NEW pc \in {"idle", "post"}, Advance(f, last, pc)
    PROVE  /\ flush' \in [Flushes -> Frames]
           /\ \A g \in Flushes \ {f} : flush'[g] = flush[g]
           /\ \/ /\ flush[f].i < last
                 /\ flush'[f].pc = IF flush[f].pc \in {"queue", "reject"} THEN flush[f].pc ELSE "retry"
                 /\ flush'[f].i = flush[f].i + 1 /\ flush'[f].found = Absent
                 /\ flush'[f].batch = flush[f].batch
                 /\ flush'[f].acc = flush[f].acc /\ flush'[f].rej = flush[f].rej
              \/ /\ ~(flush[f].i < last) /\ pc = "idle"
                 /\ flush'[f] = Idle
              \/ /\ ~(flush[f].i < last) /\ pc = "post"
                 /\ flush'[f].pc = "post" /\ flush'[f].i = 1 /\ flush'[f].found = flush[f].found
                 /\ flush'[f].batch = flush[f].batch
                 /\ flush'[f].acc = flush[f].acc /\ flush'[f].rej = flush[f].rej
<1>1. flush \in [Flushes -> Frames] /\ flush[f] \in Frames
  BY DEF TypeOK
<1> DEFINE on == [flush[f] EXCEPT !.i = flush[f].i + 1, !.found = Absent,
                        !.pc = IF flush[f].pc \in {"queue", "reject"}
                               THEN flush[f].pc ELSE "retry"]
           out == [flush[f] EXCEPT !.i = 1, !.pc = pc]
<1>2. flush' = [flush EXCEPT ![f] = IF flush[f].i < last THEN on
                                    ELSE IF pc = "idle" THEN Idle ELSE out]
  BY DEF Advance
<1>f. Absent \in Rows /\ flush[f].i + 1 \in Nat
  BY FrameTypes
<1>3. /\ on \in Frames /\ on.i = flush[f].i + 1 /\ on.found = Absent
      /\ on.pc = IF flush[f].pc \in {"queue", "reject"} THEN flush[f].pc ELSE "retry"
      /\ on.batch = flush[f].batch /\ on.acc = flush[f].acc /\ on.rej = flush[f].rej
  BY <1>1, <1>f DEF Frames, Phases
<1>4. /\ out \in Frames /\ out.i = 1 /\ out.pc = pc /\ out.found = flush[f].found
      /\ out.batch = flush[f].batch /\ out.acc = flush[f].acc /\ out.rej = flush[f].rej
  BY <1>1 DEF Frames, Phases
<1> HIDE DEF on, out
<1>5. Idle \in Frames
  BY FrameTypes
<1> QED
  BY <1>1, <1>2, <1>3, <1>4, <1>5

\* The other steps of a flush: the batch stays, but for the last one.
SameBatch(f) == flush'[f].batch = flush[f].batch
SameCounts(f) == flush'[f].acc = flush[f].acc /\ flush'[f].rej = flush[f].rej
Alone(f) == /\ flush' \in [Flushes -> Frames]
            /\ \A g \in Flushes \ {f} : flush'[g] = flush[g]

\* The response of submitBatch.
LEMMA AnswerOutcome ==
    ASSUME TypeOK, NEW f \in Flushes, NEW acc \in Nat, NEW rej \in Nat,
           SubmitAnswers(f, acc, rej)
    PROVE  /\ Alone(f) /\ SameBatch(f) /\ flush'[f].i = flush[f].i
           /\ flush'[f].pc = "accept" /\ flush'[f].acc = acc /\ flush'[f].rej = rej
<1>1. flush \in [Flushes -> Frames] /\ flush[f] \in Frames
  BY DEF TypeOK
<1> DEFINE c == [flush[f] EXCEPT !.pc = "accept", !.acc = acc, !.rej = rej]
<1>2. flush' = [flush EXCEPT ![f] = c]
  BY <1>1 DEF SubmitAnswers
<1>3. /\ c \in Frames /\ c.pc = "accept" /\ c.acc = acc /\ c.rej = rej
      /\ c.batch = flush[f].batch /\ c.i = flush[f].i
  BY <1>1 DEF Frames, Phases
<1> QED
  BY <1>1, <1>2, <1>3 DEF Alone, SameBatch

\* A submission that fails.
LEMMA FailsOutcome ==
    ASSUME TypeOK, NEW f \in Flushes, SubmitFails(f)
    PROVE  /\ Alone(f) /\ SameBatch(f) /\ SameCounts(f) /\ flush'[f].i = flush[f].i
           /\ flush'[f].pc = "retry"
<1>1. flush \in [Flushes -> Frames] /\ flush[f] \in Frames
  BY DEF TypeOK
<1> DEFINE c == [flush[f] EXCEPT !.pc = "retry"]
<1>2. flush' = [flush EXCEPT ![f] = c]
  BY <1>1 DEF SubmitFails
<1>3. /\ c \in Frames /\ c.pc = "retry" /\ c.acc = flush[f].acc /\ c.rej = flush[f].rej
      /\ c.batch = flush[f].batch /\ c.i = flush[f].i
  BY <1>1 DEF Frames, Phases
<1> QED
  BY <1>1, <1>2, <1>3 DEF Alone, SameBatch, SameCounts

\* markAccepted ends the flush unless receipts were rejected.
LEMMA AfterOutcome ==
    ASSUME TypeOK, NEW f \in Flushes, AfterAccepted(f)
    PROVE  /\ Alone(f)
           /\ \/ flush'[f] = Idle
              \/ /\ flush'[f].pc = "reject" /\ flush[f].rej # 0
                 /\ flush'[f].i = flush[f].acc + 1 /\ SameBatch(f) /\ SameCounts(f)
<1>1. flush \in [Flushes -> Frames] /\ flush[f] \in Frames
  BY DEF TypeOK
<1> DEFINE c == [flush[f] EXCEPT !.pc = "reject", !.i = flush[f].acc + 1]
<1>2. flush' = [flush EXCEPT ![f] = IF flush[f].rej = 0 THEN Idle ELSE c]
  BY <1>1 DEF AfterAccepted
<1>3. /\ c \in Frames /\ c.pc = "reject" /\ c.acc = flush[f].acc /\ c.rej = flush[f].rej
      /\ c.batch = flush[f].batch /\ c.i = flush[f].acc + 1
  <2>1. flush[f].acc + 1 \in Nat
    BY FrameTypes
  <2> QED
    BY <1>1, <2>1 DEF Frames, Phases
<1>4. Idle \in Frames
  BY FrameTypes
<1> HIDE DEF c
<1> QED
  BY <1>1, <1>2, <1>3, <1>4 DEF Alone, SameBatch, SameCounts

\* ... when it succeeds,
LEMMA AcceptOutcome ==
    ASSUME TypeOK, NEW f \in Flushes, MarkAccepted(f)
    PROVE  /\ Alone(f)
           /\ \/ flush'[f] = Idle
              \/ /\ flush'[f].pc = "reject" /\ flush[f].rej # 0
                 /\ flush'[f].i = flush[f].acc + 1 /\ SameBatch(f) /\ SameCounts(f)
BY AfterOutcome DEF MarkAccepted

\* and when it fails.  The other database calls that fail end the flush, or
\* leave it with the next receipt, or with a row it did not find.
LEMMA DatabaseOutcome ==
    ASSUME TypeOK, NEW f \in Flushes, DatabaseFails(f)
    PROVE  /\ Alone(f) /\ faults < MaxFaults /\ faults' = faults + 1
           /\ UNCHANGED <<table, clock, started, created, acked, refused, failed, again, raced>>
           /\ \/ /\ flush[f].pc \in {"queue", "reject", "giveup", "mark", "write"}
                 /\ flush'[f] = Idle /\ unmarked' = unmarked
              \/ /\ flush[f].pc = "accept"
                 /\ unmarked' = unmarked \cup IdsIn(f, 0, flush[f].acc)
                 /\ \/ flush'[f] = Idle
                    \/ /\ flush'[f].pc = "reject" /\ flush[f].rej # 0
                       /\ flush'[f].i = flush[f].acc + 1 /\ SameBatch(f) /\ SameCounts(f)
              \/ /\ flush[f].pc = "reject" /\ flush'[f].pc = "reject"
                 /\ flush[f].i < flush[f].acc + flush[f].rej /\ flush'[f].i = flush[f].i + 1
                 /\ SameBatch(f) /\ SameCounts(f) /\ unmarked' = unmarked
              \/ /\ flush[f].pc = "retry" /\ flush'[f].pc = "mark"
                 /\ flush'[f].i = flush[f].i /\ flush'[f].found = Absent
                 /\ SameBatch(f) /\ SameCounts(f) /\ unmarked' = unmarked
              \/ /\ flush[f].pc \in {"giveup", "mark", "write"} /\ flush'[f].pc = "retry"
                 /\ flush[f].i < Len(flush[f].batch) /\ flush'[f].i = flush[f].i + 1
                 /\ SameBatch(f) /\ SameCounts(f) /\ unmarked' = unmarked
<1>1. flush \in [Flushes -> Frames] /\ flush[f] \in Frames /\ Idle \in Frames /\ Absent \in Rows
  BY FrameTypes DEF TypeOK
<1>2. /\ faults < MaxFaults /\ faults' = faults + 1
      /\ UNCHANGED <<table, clock, started, created, acked, refused, failed, again, raced>>
  BY DEF DatabaseFails
<1>3. CASE flush[f].pc = "queue"
  <2>1. flush' = [flush EXCEPT ![f] = Idle] /\ unmarked' = unmarked
    BY <1>3 DEF DatabaseFails
  <2> QED
    BY <1>1, <1>2, <1>3, <2>1 DEF Alone
<1>4. CASE flush[f].pc = "accept"
  <2>1. AfterAccepted(f) /\ unmarked' = unmarked \cup IdsIn(f, 0, flush[f].acc)
    BY <1>4 DEF DatabaseFails
  <2> QED
    BY <1>2, <1>4, <2>1, AfterOutcome
<1>5. CASE flush[f].pc = "reject"
  <2>1. Advance(f, flush[f].acc + flush[f].rej, "idle") /\ unmarked' = unmarked
    BY <1>5 DEF DatabaseFails
  <2> QED
    BY <1>2, <1>5, <2>1, AdvanceOutcome DEF Alone, SameBatch, SameCounts
<1>6. CASE flush[f].pc = "retry"
  <2> DEFINE c == [flush[f] EXCEPT !.found = Absent, !.pc = "mark"]
  <2>1. flush' = [flush EXCEPT ![f] = c] /\ unmarked' = unmarked
    BY <1>1, <1>6 DEF DatabaseFails
  <2>2. /\ c \in Frames /\ c.pc = "mark" /\ c.found = Absent /\ c.i = flush[f].i
        /\ c.batch = flush[f].batch /\ c.acc = flush[f].acc /\ c.rej = flush[f].rej
    BY <1>1 DEF Frames, Phases
  <2> HIDE DEF c
  <2> QED
    BY <1>1, <1>2, <1>6, <2>1, <2>2 DEF Alone, SameBatch, SameCounts
<1>7. CASE flush[f].pc \in {"giveup", "mark", "write"}
  <2>1. Advance(f, Len(flush[f].batch), "idle") /\ unmarked' = unmarked
    BY <1>7 DEF DatabaseFails
  <2> QED
    BY <1>2, <1>7, <2>1, AdvanceOutcome DEF Alone, SameBatch, SameCounts
<1> QED
  BY <1>3, <1>4, <1>5, <1>6, <1>7 DEF DatabaseFails

\* markRetry reads the row it goes by, or none.
LEMMA ReadsOutcome ==
    ASSUME TypeOK, BatchInv, NEW f \in Flushes, MarkRetryReads(f)
    PROVE  /\ Alone(f) /\ SameBatch(f) /\ SameCounts(f) /\ flush'[f].i = flush[f].i
           /\ flush'[f].pc \in {"giveup", "mark"}
           /\ flush'[f].found \in {table[Nonce(f)], Absent}
           /\ flush'[f].pc = "giveup" => flush'[f].found.retry >= MaxRetry
<1>1. flush \in [Flushes -> Frames] /\ flush[f] \in Frames
  BY DEF TypeOK
<1> DEFINE row == IF <<Nonce(f)>> \in GetPending(1) THEN table[Nonce(f)] ELSE Absent
           pc  == IF row # Absent /\ row.retry >= MaxRetry THEN "giveup" ELSE "mark"
           c   == [flush[f] EXCEPT !.found = row, !.pc = pc]
<1>2. flush' = [flush EXCEPT ![f] = c]
  BY <1>1 DEF MarkRetryReads
<1>3. Nonce(f) \in Receipts
  BY FrameTypes DEF MarkRetryReads, BatchInv, BatchOK, Nonce
<1>4. row \in Rows /\ row \in {table[Nonce(f)], Absent}
  BY <1>3, FrameTypes DEF TypeOK
<1>5. pc \in {"giveup", "mark"} /\ (pc = "giveup" => row.retry >= MaxRetry)
  OBVIOUS
<1> HIDE DEF row, pc
<1>6. /\ c \in Frames /\ c.pc = pc /\ c.found = row /\ c.acc = flush[f].acc
      /\ c.rej = flush[f].rej /\ c.batch = flush[f].batch /\ c.i = flush[f].i
  BY <1>1, <1>4, <1>5 DEF Frames, Phases
<1> HIDE DEF c
<1> QED
  BY <1>1, <1>2, <1>4, <1>5, <1>6 DEF Alone, SameBatch, SameCounts

\* dao.markRetry.
LEMMA UpdatesOutcome ==
    ASSUME TypeOK, NEW f \in Flushes, MarkRetryUpdates(f)
    PROVE  /\ Alone(f) /\ SameBatch(f) /\ SameCounts(f) /\ flush'[f].i = flush[f].i
           /\ flush'[f].pc = "write" /\ flush'[f].found = flush[f].found
<1>1. flush \in [Flushes -> Frames] /\ flush[f] \in Frames
  BY DEF TypeOK
<1> DEFINE c == [flush[f] EXCEPT !.pc = "write"]
<1>2. flush' = [flush EXCEPT ![f] = c]
  BY <1>1 DEF MarkRetryUpdates
<1>3. /\ c \in Frames /\ c.pc = "write" /\ c.acc = flush[f].acc /\ c.rej = flush[f].rej
      /\ c.batch = flush[f].batch /\ c.i = flush[f].i /\ c.found = flush[f].found
  BY <1>1 DEF Frames, Phases
<1> QED
  BY <1>1, <1>2, <1>3 DEF Alone, SameBatch, SameCounts

-----------------------------------------------------------------------------
(***************************************************************************)
(* What the actions do to the table.                                       *)
(***************************************************************************)

\* A row with another state, and one with a higher count as well.
LEMMA RowTypes ==
    ASSUME NEW row \in Rows, NEW s \in States
    PROVE  /\ [row EXCEPT !.st = s] \in Rows
           /\ [row EXCEPT !.st = s].st = s /\ [row EXCEPT !.st = s].retry = row.retry
           /\ [row EXCEPT !.st = s, !.retry = row.retry + 1] \in Rows
           /\ [row EXCEPT !.st = s, !.retry = row.retry + 1].st = s
           /\ [row EXCEPT !.st = s, !.retry = row.retry + 1].retry = row.retry + 1
           /\ row.retry \in Nat
           /\ [row EXCEPT !.st = s].blank = row.blank
           /\ [row EXCEPT !.st = s, !.retry = row.retry + 1].blank = row.blank
<1>1. row.retry \in Nat /\ row.retry + 1 \in Nat
  BY DEF Rows
<1>2. /\ [row EXCEPT !.st = s] \in Rows
      /\ [row EXCEPT !.st = s].st = s /\ [row EXCEPT !.st = s].retry = row.retry
      /\ [row EXCEPT !.st = s].blank = row.blank
  BY DEF Rows
<1> DEFINE c == [row EXCEPT !.st = s, !.retry = row.retry + 1]
<1>3. c \in Rows /\ c.st = s /\ c.retry = row.retry + 1 /\ c.blank = row.blank
  BY <1>1 DEF Rows
<1> QED
  BY <1>1, <1>2, <1>3

\* The copy that MarkQueued writes back undoes what happened since.
LEMMA QueuedRow ==
    ASSUME TypeOK, BatchInv, NEW f \in Flushes, MarkQueued(f)
    PROVE  /\ table' \in [Receipts -> Rows] /\ Nonce(f) \in Receipts
           /\ \A r \in Receipts \ {Nonce(f)} : table'[r] = table[r]
           /\ table'[Nonce(f)].st = "QUEUED"
           /\ table'[Nonce(f)].retry = flush[f].batch[flush[f].i].row.retry
           /\ table'[Nonce(f)].blank = flush[f].batch[flush[f].i].row.blank
<1>1. Nonce(f) \in Receipts /\ flush[f].batch[flush[f].i].row \in Rows
  BY FrameTypes DEF MarkQueued, BatchInv, BatchOK, Nonce
<1>2. "QUEUED" \in States
  BY DEF States, Pending
<1>3. /\ table \in [Receipts -> Rows]
      /\ table' = [table EXCEPT ![Nonce(f)] =
                      [flush[f].batch[flush[f].i].row EXCEPT !.st = "QUEUED"]]
  BY DEF TypeOK, MarkQueued
<1> QED
  BY <1>1, <1>2, <1>3, RowTypes

\* markAccepted writes the state of the rows that are there, and no other.
LEMMA AcceptedRows ==
    ASSUME TypeOK, NEW f \in Flushes, MarkAccepted(f)
    PROVE  /\ table' \in [Receipts -> Rows]
           /\ \A r \in Receipts :
                 /\ table'[r].retry = table[r].retry /\ table'[r].blank = table[r].blank
                 /\ \/ table'[r] = table[r] /\ (r \in IdsIn(f, 0, flush[f].acc) => table[r].st = "none")
                    \/ /\ r \in IdsIn(f, 0, flush[f].acc) /\ table[r].st # "none"
                       /\ table'[r].st = "ACCEPTED"
<1>1. "ACCEPTED" \in States /\ table \in [Receipts -> Rows]
  BY DEF States, TypeOK
<1> DEFINE In(r) == r \in IdsIn(f, 0, flush[f].acc) /\ table[r].st # "none"
<1>2. table' = [r \in Receipts |-> IF In(r) THEN [table[r] EXCEPT !.st = "ACCEPTED"] ELSE table[r]]
  BY DEF MarkAccepted
<1> HIDE DEF In
<1>3. \A r \in Receipts : table'[r] = IF In(r) THEN [table[r] EXCEPT !.st = "ACCEPTED"] ELSE table[r]
  BY <1>2
<1>4. \A r \in Receipts : table'[r] \in Rows /\ table'[r].retry = table[r].retry
                          /\ table'[r].blank = table[r].blank
                          /\ (In(r) => table'[r].st = "ACCEPTED")
  <2> TAKE r \in Receipts
  <2>1. table[r] \in Rows
    BY <1>1
  <2>2. LET c == [table[r] EXCEPT !.st = "ACCEPTED"]
        IN  /\ c \in Rows /\ c.st = "ACCEPTED" /\ c.retry = table[r].retry
            /\ c.blank = table[r].blank
    BY <1>1, <2>1, RowTypes
  <2> QED
    BY <1>3, <2>1, <2>2
<1>5. table' \in [Receipts -> Rows]
  BY <1>2, <1>4
<1> QED
  BY <1>3, <1>4, <1>5 DEF In

\* markRejected, likewise.
LEMMA RejectedRow ==
    ASSUME TypeOK, NEW n \in Receipts, Rejected(n)
    PROVE  /\ table' \in [Receipts -> Rows]
           /\ \A r \in Receipts \ {n} : table'[r] = table[r]
           /\ table'[n].retry = table[n].retry /\ table'[n].blank = table[n].blank
           /\ table'[n].st = IF table[n].st = "none" THEN "none" ELSE "REJECTED"
<1>1. table \in [Receipts -> Rows] /\ table[n] \in Rows
  BY DEF TypeOK
<1> DEFINE st == IF table[n].st = "none" THEN "none" ELSE "REJECTED"
<1>2. st \in States
  BY DEF States
<1>3. table' = [table EXCEPT ![n] = [table[n] EXCEPT !.st = st]]
  BY <1>1 DEF Rejected
<1> HIDE DEF st
<1> DEFINE c == [table[n] EXCEPT !.st = st]
<1>4. c \in Rows /\ c.st = st /\ c.retry = table[n].retry /\ c.blank = table[n].blank
  BY <1>1, <1>2, RowTypes
<1> HIDE DEF c
<1>5. table' \in [Receipts -> Rows] /\ table'[n] = c
      /\ \A r \in Receipts \ {n} : table'[r] = table[r]
  BY <1>1, <1>3, <1>4 DEF c
<1> QED
  BY <1>4, <1>5 DEF st

\* dao.markRetry counts on the row as it is.
LEMMA UpdatedRow ==
    ASSUME TypeOK, BatchInv, NEW f \in Flushes, MarkRetryUpdates(f)
    PROVE  /\ table' \in [Receipts -> Rows] /\ Nonce(f) \in Receipts
           /\ \A r \in Receipts \ {Nonce(f)} : table'[r] = table[r]
           /\ table'[Nonce(f)].blank = table[Nonce(f)].blank
           /\ \/ table'[Nonce(f)] = table[Nonce(f)]
              \/ /\ table[Nonce(f)].st # "none"
                 /\ table'[Nonce(f)].st = "RETRY_WAIT"
                 /\ table'[Nonce(f)].retry = table[Nonce(f)].retry + 1
<1> DEFINE n == Nonce(f)
<1>1. n \in Receipts
  BY FrameTypes DEF MarkRetryUpdates, BatchInv, BatchOK, Nonce
<1>2. table \in [Receipts -> Rows] /\ table[n] \in Rows /\ "RETRY_WAIT" \in States
  BY <1>1 DEF TypeOK, States, Pending
<1> DEFINE row == [table[n] EXCEPT !.st = "RETRY_WAIT", !.retry = table[n].retry + 1]
<1>3. table' = [table EXCEPT ![n] = IF table[n].st = "none" THEN table[n] ELSE row]
  BY <1>1, <1>2 DEF MarkRetryUpdates
<1>4. row \in Rows /\ row.st = "RETRY_WAIT" /\ row.retry = table[n].retry + 1
      /\ row.blank = table[n].blank
  BY <1>2, RowTypes
<1> HIDE DEF n, row
<1> QED
  BY <1>1, <1>2, <1>3, <1>4 DEF n

\* The insert of markRetry counts on the row as it was read, or on nothing.
LEMMA WrittenRow ==
    ASSUME TypeOK, BatchInv, NEW f \in Flushes, MarkRetryWrites(f)
    PROVE  /\ table' \in [Receipts -> Rows] /\ Nonce(f) \in Receipts
           /\ \A r \in Receipts \ {Nonce(f)} : table'[r] = table[r]
           /\ table'[Nonce(f)].st = "RETRY_WAIT"
           /\ table'[Nonce(f)].retry = flush[f].found.retry + 1
           /\ clock' \in Nat
<1> DEFINE n == Nonce(f)
           found == flush[f].found
<1>1. n \in Receipts /\ found \in Rows
  BY FrameTypes DEF MarkRetryWrites, BatchInv, BatchOK, Nonce
<1>2. table \in [Receipts -> Rows] /\ clock \in Nat /\ "RETRY_WAIT" \in States
  BY DEF TypeOK, States, Pending
<1> DEFINE old   == [found EXCEPT !.st = "RETRY_WAIT", !.retry = found.retry + 1]
           blank == [st |-> "RETRY_WAIT", retry |-> 1, at |-> clock + 1, blank |-> TRUE]
<1>3. /\ old \in Rows /\ old.st = "RETRY_WAIT" /\ old.retry = found.retry + 1
      /\ blank \in Rows /\ blank.st = "RETRY_WAIT" /\ blank.retry = 1
  <2>1. old \in Rows /\ old.st = "RETRY_WAIT" /\ old.retry = found.retry + 1
    BY <1>1, <1>2, RowTypes
  <2>2. blank \in Rows /\ blank.st = "RETRY_WAIT" /\ blank.retry = 1
    BY <1>2 DEF Rows
  <2> QED
    BY <2>1, <2>2
<1>4. \/ table' = [table EXCEPT ![n] = old] /\ clock' = clock
      \/ /\ found = Absent
         /\ table' = [table EXCEPT ![n] = blank] /\ clock' = clock + 1
  BY <1>1 DEF MarkRetryWrites, Rows
<1>5. Absent.retry + 1 = 1
  BY DEF Absent
<1> HIDE DEF n, found, old, blank
<1>6. table'[n].st = "RETRY_WAIT" /\ table'[n].retry = found.retry + 1
  BY <1>1, <1>2, <1>3, <1>4, <1>5
<1> QED
  BY <1>1, <1>2, <1>3, <1>4, <1>6 DEF n, found

\* The cleanup deletes accepted rows.
LEMMA CleanedRows ==
    ASSUME TypeOK, NEW cutoff, Cleanup(cutoff)
    PROVE  /\ table' \in [Receipts -> Rows]
           /\ \A r \in Receipts : \/ table'[r] = table[r]
                                  \/ table[r].st = "ACCEPTED" /\ table'[r] = Absent
<1>1. table \in [Receipts -> Rows] /\ Absent \in Rows
  BY DEF TypeOK, Absent, Rows, States
<1> QED
  BY <1>1 DEF Cleanup

-----------------------------------------------------------------------------
\* An idle flush holds nothing.
LEMMA IdleOK ==
    ASSUME TypeOK, NEW f \in Flushes, Alone(f), flush'[f] = Idle
    PROVE  BatchOK(f)' /\ Len(flush'[f].batch) <= MaxBatch
BY FrameTypes DEF BatchOK, Idle

\* A flush that keeps its batch has to mind its place in it only.
LEMMA SameOK ==
    ASSUME TypeOK, BatchInv, NEW f \in Flushes, SameBatch(f), created' = created,
           flush'[f].pc # "idle",
           flush'[f].pc \in {"queue", "retry", "giveup", "mark", "write"} =>
              flush'[f].i \in 1..Len(flush[f].batch),
           flush'[f].pc = "post" => flush'[f].i = 1 /\ 1 <= Len(flush[f].batch),
           flush'[f].pc \in {"accept", "reject"} =>
              flush'[f].acc + flush'[f].rej <= Len(flush[f].batch),
           flush'[f].pc = "reject" =>
              flush'[f].i \in (flush'[f].acc + 1)..(flush'[f].acc + flush'[f].rej)
    PROVE  BatchOK(f)' /\ Len(flush'[f].batch) <= MaxBatch
<1>1. BatchOK(f) /\ flush'[f].batch = flush[f].batch /\ Len(flush[f].batch) <= MaxBatch
  BY FrameTypes DEF BatchInv, SameBatch
<1> QED
  BY <1>1 DEF BatchOK

\* A step of one flush keeps the batches if it keeps that one.
LEMMA OneMoves ==
    ASSUME TypeOK, BatchInv, NEW f \in Flushes, Alone(f), created' = created,
           BatchOK(f)', Len(flush'[f].batch) <= MaxBatch
    PROVE  /\ BatchInv' /\ flush' \in [Flushes -> Frames]
           /\ \A g \in Flushes : Len(flush'[g].batch) <= MaxBatch
<1>1. \A g \in Flushes \ {f} : BatchOK(g)'
  BY SMTT(30) DEF BatchInv, BatchOK, Alone
<1> QED
  BY <1>1 DEF BatchInv, Alone, TypeOK

\* Every step keeps the types and where the flushes stand.
LEMMA TypeStep ==
    ASSUME TypeOK, BatchInv, TableInv, [Next]_vars
    PROVE  TypeOK' /\ BatchInv' /\ TableInv'
<1> USE DEF boundVars, historyVars
<1>t. table \in [Receipts -> Rows] /\ flush \in [Flushes -> Frames] /\ created \subseteq Receipts
  BY DEF TypeOK
<1>1. ASSUME NEW r \in Receipts, CreateReceipt(r) PROVE TypeOK' /\ BatchInv' /\ TableInv'
  <2> DEFINE row == [st |-> "CREATED", retry |-> 0, at |-> clock + 1, blank |-> FALSE]
  <2>1. row \in Rows /\ clock + 1 \in Nat
    BY DEF Rows, States, Pending, TypeOK
  <2> HIDE DEF row
  <2>2. /\ table' = [table EXCEPT ![r] = row] /\ created' = created \cup {r}
        /\ clock' = clock + 1 /\ flush' = flush
        /\ UNCHANGED <<started, faults, acked, refused, failed, again, raced, unmarked>>
    BY <1>1 DEF CreateReceipt, row
  <2>3. TypeOK'
    BY <1>t, <2>1, <2>2 DEF TypeOK
  <2>4. BatchInv'
    BY <2>2 DEF BatchInv, BatchOK
  <2>5. TableInv'
    BY <1>t, <2>2 DEF TableInv
  <2> QED
    BY <2>3, <2>4, <2>5
<1>2. ASSUME NEW f \in Flushes, StartFlush(f) PROVE TypeOK' /\ BatchInv' /\ TableInv'
  <2>1. Alone(f) /\ Len(flush'[f].batch) \in 1..MaxBatch
    BY <1>2, StartOutcome DEF Alone
  <2>2. \A i \in 1..Len(flush'[f].batch) : flush'[f].batch[i].id \in created
    BY <1>2, StartOutcome DEF TableInv, Pending
  <2>3. created' = created /\ flush'[f].pc = "queue" /\ flush'[f].i = 1
        /\ \A i, j \in 1..Len(flush'[f].batch) :
                 flush'[f].batch[i].id = flush'[f].batch[j].id => i = j
    BY <1>2, StartOutcome
  <2>4. BatchOK(f)' /\ Len(flush'[f].batch) <= MaxBatch
    BY <2>1, <2>2, <2>3, ReceiptsAssumption DEF BatchOK
  <2>5. /\ raced' \subseteq Receipts /\ started' \in 0..MaxFlushes
        /\ UNCHANGED <<table, clock, faults, created, acked, refused, failed, again, unmarked>>
    BY <1>2, StartOutcome, ReceiptsAssumption DEF TypeOK
  <2> QED
    BY <2>1, <2>3, <2>4, <2>5, OneMoves DEF TypeOK, TableInv
<1>3. ASSUME NEW f \in Flushes, MarkQueued(f) PROVE TypeOK' /\ BatchInv' /\ TableInv'
  <2>1. Advance(f, Len(flush[f].batch), "post") /\ flush[f].pc = "queue"
    BY <1>3 DEF MarkQueued
  <2>2. Alone(f) /\ flush'[f].batch = flush[f].batch
    BY <2>1, AdvanceOutcome DEF Alone
  <2>3. \/ /\ flush[f].i < Len(flush[f].batch)
           /\ flush'[f].pc = "queue" /\ flush'[f].i = flush[f].i + 1
        \/ flush'[f].pc = "post" /\ flush'[f].i = 1
    BY <2>1, AdvanceOutcome
  <2>4. BatchOK(f)' /\ Len(flush'[f].batch) <= MaxBatch
    BY <1>3, <2>1, <2>2, <2>3, FrameTypes DEF BatchOK, BatchInv, MarkQueued
  <2>5. UNCHANGED <<clock, started, faults, created, acked, refused, failed, again, raced, unmarked>>
    BY <1>3 DEF MarkQueued
  <2>6. TableInv' /\ table' \in [Receipts -> Rows]
    BY <1>3, <2>1, <2>5, QueuedRow DEF TableInv, BatchInv, BatchOK, Nonce
  <2> QED
    BY <2>2, <2>4, <2>5, <2>6, OneMoves DEF TypeOK
<1>4. ASSUME NEW f \in Flushes, NEW acc \in 0..MaxBatch, NEW rej \in 0..MaxBatch,
             SubmitAnswers(f, acc, rej)
      PROVE  TypeOK' /\ BatchInv' /\ TableInv'
  <2>1. acc \in Nat /\ rej \in Nat
    BY ReceiptsAssumption
  <2>2. /\ Alone(f) /\ SameBatch(f) /\ flush'[f].pc = "accept"
        /\ flush'[f].acc = acc /\ flush'[f].rej = rej
    BY <1>4, <2>1, AnswerOutcome
  <2>3. BatchOK(f)' /\ Len(flush'[f].batch) <= MaxBatch
    BY <1>4, <2>2, FrameTypes DEF BatchOK, BatchInv, SubmitAnswers, SameBatch
  <2>4. /\ UNCHANGED <<table, clock, started, faults, created, failed, raced, unmarked>>
        /\ acc + rej <= Len(flush[f].batch)
    BY <1>4 DEF SubmitAnswers
  <2>5. \A a, b \in Nat : b <= Len(flush[f].batch) => IdsIn(f, a, b) \subseteq Receipts
    BY FrameTypes DEF IdsIn
  <2>6. again' \subseteq Receipts /\ acked' \subseteq Receipts /\ refused' \subseteq Receipts
    <3>1. acc <= Len(flush[f].batch) /\ acc + rej \in Nat /\ 0 \in Nat
      BY <2>1, <2>4, FrameTypes
    <3>2. IdsIn(f, 0, acc) \subseteq Receipts /\ IdsIn(f, acc, acc + rej) \subseteq Receipts
      BY <2>1, <2>4, <2>5, <3>1
    <3> QED
      BY <1>4, <3>2 DEF SubmitAnswers, TypeOK
  <2> QED
    BY <2>2, <2>3, <2>4, <2>6, OneMoves DEF TypeOK, TableInv
<1>5. ASSUME NEW f \in Flushes, SubmitFails(f) PROVE TypeOK' /\ BatchInv' /\ TableInv'
  <2>1. Alone(f) /\ SameBatch(f) /\ flush'[f].pc = "retry" /\ flush'[f].i = flush[f].i
    BY <1>5, FailsOutcome
  <2>2. BatchOK(f)' /\ Len(flush'[f].batch) <= MaxBatch
    BY <1>5, <2>1, FrameTypes DEF BatchOK, BatchInv, SubmitFails, SameBatch
  <2>3. /\ UNCHANGED <<table, clock, started, created, acked, refused, raced, unmarked>>
        /\ faults' \in 0..MaxFaults /\ failed' \in [Receipts -> Nat] /\ again' \subseteq Receipts
    BY <1>5, ReceiptsAssumption DEF SubmitFails, TypeOK
  <2> QED
    BY <2>1, <2>2, <2>3, OneMoves DEF TypeOK, TableInv
<1>6. ASSUME NEW f \in Flushes, MarkAccepted(f) PROVE TypeOK' /\ BatchInv' /\ TableInv'
  <2>1. flush[f].pc = "accept"
        /\ UNCHANGED <<clock, started, faults, created, acked, refused, failed, again, raced, unmarked>>
    BY <1>6 DEF MarkAccepted
  <2>2. Alone(f) /\ (flush'[f] = Idle
                     \/ /\ flush'[f].pc = "reject" /\ flush[f].rej # 0
                        /\ flush'[f].i = flush[f].acc + 1 /\ SameBatch(f) /\ SameCounts(f))
    BY <1>6, AcceptOutcome
  <2>3. BatchOK(f)' /\ Len(flush'[f].batch) <= MaxBatch
    <3>1. CASE flush'[f] = Idle
      BY <2>2, <3>1, IdleOK
    <3>2. CASE flush'[f] # Idle
      <4>1. /\ flush[f].acc \in Nat /\ flush[f].rej \in Nat \ {0}
            /\ flush[f].acc + flush[f].rej <= Len(flush[f].batch)
        BY <2>1, <2>2, <3>2, FrameTypes DEF BatchOK, BatchInv
      <4>2. flush[f].acc + 1 \in (flush[f].acc + 1)..(flush[f].acc + flush[f].rej)
        BY <4>1
      <4> QED
        BY <2>1, <2>2, <3>2, <4>1, <4>2, SameOK DEF SameCounts
    <3> QED
      BY <3>1, <3>2
  <2>4. TableInv' /\ table' \in [Receipts -> Rows]
    BY <1>6, <2>1, AcceptedRows DEF TableInv
  <2> QED
    BY <2>1, <2>2, <2>3, <2>4, OneMoves DEF TypeOK
<1>7. ASSUME NEW f \in Flushes, MarkRejected(f) PROVE TypeOK' /\ BatchInv' /\ TableInv'
  <2>1. /\ flush[f].pc = "reject" /\ Advance(f, flush[f].acc + flush[f].rej, "idle")
        /\ Rejected(Nonce(f))
        /\ UNCHANGED <<clock, started, faults, created, acked, refused, failed, again, raced, unmarked>>
    BY <1>7 DEF MarkRejected
  <2>2. flush[f].i \in 1..Len(flush[f].batch) /\ Nonce(f) \in Receipts
    <3>1. flush[f].i \in 1..Len(flush[f].batch)
      BY <2>1, FrameTypes DEF BatchInv, BatchOK
    <3> QED
      BY <3>1, FrameTypes DEF Nonce
  <2>3. /\ Alone(f)
        /\ \/ flush'[f] = Idle
           \/ /\ flush[f].i < flush[f].acc + flush[f].rej /\ flush'[f].pc = "reject"
              /\ flush'[f].i = flush[f].i + 1 /\ SameBatch(f) /\ SameCounts(f)
    BY <2>1, AdvanceOutcome DEF Alone, SameBatch, SameCounts
  <2>4. BatchOK(f)' /\ Len(flush'[f].batch) <= MaxBatch
    <3>1. CASE flush'[f] = Idle
      BY <2>3, <3>1, IdleOK
    <3>2. CASE flush'[f] # Idle
      <4>1. /\ flush[f].acc + flush[f].rej <= Len(flush[f].batch)
            /\ flush[f].i + 1 \in (flush[f].acc + 1)..(flush[f].acc + flush[f].rej)
        BY <2>1, <2>3, <3>2, FrameTypes DEF BatchOK, BatchInv
      <4> QED
        BY <2>1, <2>3, <3>2, <4>1, SameOK DEF SameCounts
    <3> QED
      BY <3>1, <3>2
  <2>5. TableInv' /\ table' \in [Receipts -> Rows]
    BY <2>1, <2>2, RejectedRow DEF TableInv
  <2> QED
    BY <2>1, <2>3, <2>4, <2>5, OneMoves DEF TypeOK
<1>8. ASSUME NEW f \in Flushes, MarkRetryReads(f) PROVE TypeOK' /\ BatchInv' /\ TableInv'
  <2>1. /\ Alone(f) /\ SameBatch(f) /\ flush'[f].pc \in {"giveup", "mark"}
        /\ flush'[f].i = flush[f].i
    BY <1>8, ReadsOutcome
  <2>2. BatchOK(f)' /\ Len(flush'[f].batch) <= MaxBatch
    <3>1. flush[f].i \in 1..Len(flush[f].batch) /\ created' = created
      BY <1>8 DEF BatchOK, BatchInv, MarkRetryReads
    <3> QED
      BY <2>1, <3>1, SameOK
  <2>3. UNCHANGED <<table, clock, started, faults, created, acked, refused, failed, again, raced, unmarked>>
    BY <1>8 DEF MarkRetryReads
  <2> QED
    BY <2>1, <2>2, <2>3, OneMoves DEF TypeOK, TableInv
<1>9. ASSUME NEW f \in Flushes, MarkRetryGivesUp(f) \/ MarkRetryWrites(f)
      PROVE  TypeOK' /\ BatchInv' /\ TableInv'
  <2>1. /\ flush[f].pc \in {"giveup", "write"} /\ Advance(f, Len(flush[f].batch), "idle")
        /\ UNCHANGED <<started, faults, created, acked, refused, failed, again, raced, unmarked>>
    BY <1>9 DEF MarkRetryGivesUp, MarkRetryWrites
  <2>2. flush[f].i \in 1..Len(flush[f].batch) /\ Nonce(f) \in Receipts /\ Nonce(f) \in created
    BY <2>1, FrameTypes DEF BatchInv, BatchOK, Nonce
  <2>3. /\ Alone(f)
        /\ \/ flush'[f] = Idle
           \/ /\ flush[f].i < Len(flush[f].batch) /\ flush'[f].pc = "retry"
              /\ flush'[f].i = flush[f].i + 1 /\ SameBatch(f)
    BY <2>1, AdvanceOutcome DEF Alone, SameBatch
  <2>4. BatchOK(f)' /\ Len(flush'[f].batch) <= MaxBatch
    <3>1. CASE flush'[f] = Idle
      BY <2>3, <3>1, IdleOK
    <3>2. CASE flush'[f] # Idle
      <4>1. flush[f].i + 1 \in 1..Len(flush[f].batch)
        BY <2>2, <2>3, <3>2, FrameTypes
      <4> QED
        BY <2>1, <2>3, <3>2, <4>1, SameOK
    <3> QED
      BY <3>1, <3>2
  <2>5. TableInv' /\ table' \in [Receipts -> Rows] /\ clock' \in Nat
    <3>1. CASE MarkRetryGivesUp(f)
      BY <2>1, <2>2, <3>1, RejectedRow DEF TableInv, MarkRetryGivesUp, TypeOK
    <3>2. CASE MarkRetryWrites(f)
      BY <2>1, <2>2, <3>2, WrittenRow DEF TableInv
    <3> QED
      BY <1>9, <3>1, <3>2
  <2> QED
    BY <2>1, <2>3, <2>4, <2>5, OneMoves DEF TypeOK
<1>10. ASSUME NEW f \in Flushes, MarkRetryUpdates(f) PROVE TypeOK' /\ BatchInv' /\ TableInv'
  <2>1. /\ Alone(f) /\ SameBatch(f) /\ flush'[f].pc = "write" /\ flush'[f].i = flush[f].i
    BY <1>10, UpdatesOutcome
  <2>2. BatchOK(f)' /\ Len(flush'[f].batch) <= MaxBatch
    BY <1>10, <2>1, FrameTypes DEF BatchOK, BatchInv, MarkRetryUpdates, SameBatch
  <2>3. UNCHANGED <<clock, started, faults, created, acked, refused, failed, again, raced, unmarked>>
    BY <1>10 DEF MarkRetryUpdates
  <2>4. TableInv' /\ table' \in [Receipts -> Rows]
    BY <1>10, <2>3, UpdatedRow DEF TableInv
  <2> QED
    BY <2>1, <2>2, <2>3, <2>4, OneMoves DEF TypeOK
<1>11. ASSUME NEW cutoff, Cleanup(cutoff) PROVE TypeOK' /\ BatchInv' /\ TableInv'
  <2>1. UNCHANGED <<flush, clock, started, faults, created, acked, refused, failed, again, raced, unmarked>>
    BY <1>11 DEF Cleanup
  <2>2. TableInv' /\ table' \in [Receipts -> Rows]
    BY <1>11, <2>1, CleanedRows DEF TableInv, Absent
  <2> QED
    BY <2>1, <2>2 DEF TypeOK, BatchInv, BatchOK
<1>12. CASE Crash
  <2>1. \A f \in Flushes : flush'[f] = Idle
    BY <1>12 DEF Crash
  <2>2. flush' \in [Flushes -> Frames] /\ \A f \in Flushes : Len(flush'[f].batch) <= MaxBatch
    BY <1>12, <2>1, FrameTypes DEF Crash, Idle
  <2>3. BatchInv'
    BY <2>1 DEF BatchInv, BatchOK, Idle
  <2>4. \A f \in Flushes : flush[f].pc = "accept" => IdsIn(f, 0, flush[f].acc) \subseteq Receipts
    BY FrameTypes DEF IdsIn, BatchInv, BatchOK
  <2>5. /\ unmarked' \subseteq Receipts /\ faults' \in 0..MaxFaults
        /\ UNCHANGED <<table, clock, started, created, acked, refused, failed, again, raced>>
    BY <1>12, <2>4, ReceiptsAssumption DEF Crash, TypeOK
  <2> QED
    BY <2>2, <2>3, <2>5 DEF TypeOK, TableInv
<1>13. CASE UNCHANGED vars
  BY <1>13 DEF vars, TypeOK, BatchInv, BatchOK, TableInv
<1>14. ASSUME NEW f \in Flushes, DatabaseFails(f) PROVE TypeOK' /\ BatchInv' /\ TableInv'
  <2>1. /\ Alone(f)
        /\ UNCHANGED <<table, clock, started, created, acked, refused, failed, again, raced>>
    BY <1>14, DatabaseOutcome
  <2>2. BatchOK(f)' /\ Len(flush'[f].batch) <= MaxBatch
    <3>1. CASE flush'[f] = Idle
      BY <2>1, <3>1, IdleOK
    <3>2. CASE flush'[f] # Idle
      <4>1. /\ SameBatch(f) /\ SameCounts(f) /\ flush'[f].pc \in {"reject", "mark", "retry"}
            /\ flush'[f].pc \in {"mark", "retry"} => flush'[f].i \in 1..Len(flush[f].batch)
        BY <1>14, <3>2, DatabaseOutcome, FrameTypes DEF BatchOK, BatchInv
      <4>2. flush'[f].pc = "reject" =>
               /\ flush[f].acc + flush[f].rej <= Len(flush[f].batch)
               /\ flush'[f].i \in (flush[f].acc + 1)..(flush[f].acc + flush[f].rej)
        BY <1>14, <3>2, DatabaseOutcome, FrameTypes DEF BatchOK, BatchInv
      <4> QED
        BY <2>1, <4>1, <4>2, SameOK DEF SameCounts
    <3> QED
      BY <3>1, <3>2
  <2>3. flush[f].pc = "accept" => IdsIn(f, 0, flush[f].acc) \subseteq Receipts
    BY FrameTypes DEF IdsIn, BatchInv, BatchOK
  <2>4. unmarked' \subseteq Receipts /\ faults' \in 0..MaxFaults
    BY <1>14, <2>3, DatabaseOutcome, ReceiptsAssumption DEF TypeOK
  <2> QED
    BY <2>1, <2>2, <2>4, OneMoves DEF TypeOK, TableInv
<1> QED
  BY <1>1, <1>2, <1>3, <1>4, <1>5, <1>6, <1>7, <1>8, <1>9, <1>10, <1>11, <1>12, <1>13, <1>14 DEF Next

\* Initially the table is empty and no flush runs.
LEMMA TypeInit == Init => TypeOK /\ BatchInv /\ TableInv
<1> SUFFICES ASSUME Init PROVE TypeOK /\ BatchInv /\ TableInv
  OBVIOUS
<1>1. Absent \in Rows /\ Idle \in Frames
  BY DEF Absent, Rows, States, Idle, Frames, Phases
<1>2. \A f \in Flushes : flush[f] = Idle /\ Len(flush[f].batch) = 0 /\ flush[f].pc = "idle"
  BY DEF Init, Idle
<1>3. TypeOK
  BY <1>1, <1>2, ReceiptsAssumption DEF Init, TypeOK
<1>4. BatchInv /\ TableInv
  BY <1>2 DEF BatchInv, BatchOK, TableInv, Init, Absent
<1> QED
  BY <1>3, <1>4

\* The receipts table, the flushes and the history keep their types, however
\* many flushes overlap.
THEOREM TypesHold == Spec => []TypeOK
<1> DEFINE IInv == TypeOK /\ BatchInv /\ TableInv
<1>1. Init => IInv
  BY TypeInit
<1>2. IInv /\ [Next]_vars => IInv'
  BY TypeStep
<1> QED
  BY <1>1, <1>2, PTL DEF Spec

-----------------------------------------------------------------------------
(***************************************************************************)
(* Only what the node accepted leaves the table.  The answer of a request  *)
(* is applied in later database calls, so the invariant also speaks of the *)
(* answers a flush has still to apply.                                     *)
(***************************************************************************)
AnswerInv ==
    /\ acked \subseteq created
    /\ \A f \in Flushes : flush[f].pc \in {"accept", "reject"} =>
          /\ \A i \in 1..flush[f].acc : flush[f].batch[i].id \in acked
          /\ \A i \in (flush[f].acc + 1)..(flush[f].acc + flush[f].rej) :
                flush[f].batch[i].id \in refused

LostInv ==
    /\ \A r \in Receipts : table[r].st = "ACCEPTED" => r \in acked
    /\ \A r \in created \ acked : table[r].st # "none"

\* The data of a receipt whose submissions did not fail is everywhere, and
\* markRetry works on receipts whose submission failed.
DataInv ==
    /\ \A r \in Receipts : table[r].blank => failed[r] > 0
    /\ \A f \in Flushes : \A i \in 1..Len(flush[f].batch) :
          \/ failed[flush[f].batch[i].id] > 0
          \/ /\ ~flush[f].batch[i].row.blank
             /\ flush[f].pc \notin {"retry", "giveup", "mark", "write"}

\* The receipts an answer names are those of the batch.
LEMMA AnswerStep ==
    ASSUME TypeOK, BatchInv, AnswerInv, [Next]_vars
    PROVE  AnswerInv'
<1> USE DEF boundVars, historyVars
<1>o. ASSUME NEW f \in Flushes, Alone(f), UNCHANGED <<acked, refused, created>>,
             flush'[f].pc \notin {"accept", "reject"}
      PROVE  AnswerInv'
  BY <1>o DEF AnswerInv, Alone
<1>s. ASSUME NEW f \in Flushes, Alone(f), UNCHANGED <<acked, refused, created>>,
             SameBatch(f), SameCounts(f), flush[f].pc \in {"accept", "reject"}
      PROVE  AnswerInv'
  BY <1>s DEF AnswerInv, Alone, SameBatch, SameCounts
<1>1. ASSUME NEW r \in Receipts, CreateReceipt(r) PROVE AnswerInv'
  BY <1>1 DEF CreateReceipt, AnswerInv
<1>2. ASSUME NEW f \in Flushes, StartFlush(f) PROVE AnswerInv'
  BY <1>2, <1>o, StartOutcome DEF Alone
<1>3. ASSUME NEW f \in Flushes, MarkQueued(f) PROVE AnswerInv'
  BY <1>3, <1>o, AdvanceOutcome DEF MarkQueued, Alone
<1>4. ASSUME NEW f \in Flushes, NEW acc \in 0..MaxBatch, NEW rej \in 0..MaxBatch,
             SubmitAnswers(f, acc, rej)
      PROVE  AnswerInv'
  <2>1. acc \in Nat /\ rej \in Nat /\ acc + rej <= Len(flush[f].batch)
    BY <1>4, ReceiptsAssumption DEF SubmitAnswers
  <2>2. Alone(f) /\ flush'[f].batch = flush[f].batch /\ flush'[f].acc = acc /\ flush'[f].rej = rej
    BY <1>4, <2>1, AnswerOutcome DEF SameBatch
  <2>3. /\ acked' = acked \cup IdsIn(f, 0, acc) /\ refused' = refused \cup IdsIn(f, acc, acc + rej)
        /\ created' = created
    BY <1>4 DEF SubmitAnswers
  <2>4. /\ IdsIn(f, 0, acc) = {flush[f].batch[i].id : i \in 1..acc}
        /\ IdsIn(f, acc, acc + rej) = {flush[f].batch[i].id : i \in (acc + 1)..(acc + rej)}
    BY <2>1 DEF IdsIn
  <2>5. IdsIn(f, 0, acc) \subseteq created
    BY <2>1, <2>4, FrameTypes, SMTT(30) DEF BatchInv, BatchOK
  <2> QED
    BY <2>1, <2>2, <2>3, <2>4, <2>5 DEF AnswerInv, Alone
<1>5. ASSUME NEW f \in Flushes, SubmitFails(f) PROVE AnswerInv'
  BY <1>5, <1>o, FailsOutcome DEF SubmitFails
<1>6. ASSUME NEW f \in Flushes, MarkAccepted(f) PROVE AnswerInv'
  <2>1. flush[f].pc = "accept" /\ UNCHANGED <<acked, refused, created>> /\ Alone(f)
    BY <1>6, AcceptOutcome DEF MarkAccepted
  <2>2. CASE flush'[f] = Idle
    BY <2>1, <2>2, <1>o DEF Idle
  <2>3. CASE flush'[f] # Idle
    BY <1>6, <2>1, <2>3, <1>s, AcceptOutcome
  <2> QED
    BY <2>2, <2>3
<1>7. ASSUME NEW f \in Flushes, MarkRejected(f) PROVE AnswerInv'
  <2>1. /\ flush[f].pc = "reject" /\ UNCHANGED <<acked, refused, created>>
        /\ Advance(f, flush[f].acc + flush[f].rej, "idle")
    BY <1>7 DEF MarkRejected
  <2>2. Alone(f)
    BY <2>1, AdvanceOutcome DEF Alone
  <2>3. CASE flush'[f] = Idle
    BY <2>1, <2>2, <2>3, <1>o DEF Idle
  <2>4. CASE flush'[f] # Idle
    <3>1. SameBatch(f) /\ SameCounts(f)
      BY <2>1, <2>4, AdvanceOutcome DEF SameBatch, SameCounts
    <3> QED
      BY <2>1, <2>2, <3>1, <1>s
  <2> QED
    BY <2>3, <2>4
<1>8. ASSUME NEW f \in Flushes, MarkRetryReads(f) PROVE AnswerInv'
  BY <1>8, <1>o, ReadsOutcome DEF MarkRetryReads
<1>9. ASSUME NEW f \in Flushes, MarkRetryGivesUp(f) \/ MarkRetryWrites(f) PROVE AnswerInv'
  <2>1. /\ flush[f].pc \in {"giveup", "write"} /\ Advance(f, Len(flush[f].batch), "idle")
        /\ UNCHANGED <<acked, refused, created>>
    BY <1>9 DEF MarkRetryGivesUp, MarkRetryWrites
  <2>2. Alone(f) /\ flush'[f].pc \in {"retry", "idle"}
    BY <2>1, AdvanceOutcome DEF Alone, Idle
  <2> QED
    BY <2>1, <2>2, <1>o
<1>10. ASSUME NEW f \in Flushes, MarkRetryUpdates(f) PROVE AnswerInv'
  BY <1>10, <1>o, UpdatesOutcome DEF MarkRetryUpdates
<1>11. ASSUME NEW cutoff, Cleanup(cutoff) PROVE AnswerInv'
  BY <1>11 DEF Cleanup, AnswerInv
<1>12. CASE Crash
  BY <1>12 DEF Crash, AnswerInv, Idle
<1>13. CASE UNCHANGED vars
  BY <1>13 DEF vars, AnswerInv
<1>14. ASSUME NEW f \in Flushes, DatabaseFails(f) PROVE AnswerInv'
  <2>1. Alone(f) /\ UNCHANGED <<acked, refused, created>>
    BY <1>14, DatabaseOutcome
  <2>2. CASE flush'[f] = Idle
    BY <2>1, <2>2, <1>o DEF Idle
  <2>3. CASE flush'[f] # Idle /\ flush'[f].pc = "reject"
    <3>1. SameBatch(f) /\ SameCounts(f) /\ flush[f].pc \in {"accept", "reject"}
      BY <1>14, <2>3, DatabaseOutcome
    <3> QED
      BY <2>1, <3>1, <1>s
  <2>4. CASE flush'[f] # Idle /\ flush'[f].pc # "reject"
    <3>1. flush'[f].pc \in {"mark", "retry"}
      BY <1>14, <2>4, DatabaseOutcome
    <3> QED
      BY <2>1, <3>1, <1>o
  <2> QED
    BY <2>2, <2>3, <2>4
<1> QED
  BY <1>1, <1>2, <1>3, <1>4, <1>5, <1>6, <1>7, <1>8, <1>9, <1>10, <1>11, <1>12, <1>13, <1>14 DEF Next

\* No write removes a row, and none but the mark of an answer accepts one.
LEMMA LostStep ==
    ASSUME TypeOK, BatchInv, AnswerInv, LostInv, [Next]_vars
    PROVE  LostInv'
<1> USE DEF boundVars, historyVars
<1>t. created \subseteq Receipts
  BY DEF TypeOK
<1>k. ASSUME created' = created, acked \subseteq acked',
             \A r \in Receipts :
                \/ table'[r].st = table[r].st
                \/ table'[r].st \in {"QUEUED", "RETRY_WAIT", "REJECTED"}
                \/ table'[r].st = "ACCEPTED" /\ r \in acked
                \/ table[r].st = "ACCEPTED" /\ table'[r].st = "none"
      PROVE  LostInv'
  BY <1>k, <1>t DEF LostInv
<1>1. ASSUME NEW r \in Receipts, CreateReceipt(r) PROVE LostInv'
  <2>1. /\ created' = created \cup {r} /\ acked' = acked /\ table'[r].st = "CREATED"
        /\ \A s \in Receipts \ {r} : table'[s] = table[s]
    BY <1>1 DEF CreateReceipt, TypeOK
  <2> QED
    BY <1>t, <2>1 DEF LostInv
<1>2. ASSUME NEW f \in Flushes, StartFlush(f) PROVE LostInv'
  BY <1>2, <1>k, StartOutcome
<1>3. ASSUME NEW f \in Flushes, MarkQueued(f) PROVE LostInv'
  <2>1. UNCHANGED <<created, acked>>
    BY <1>3 DEF MarkQueued
  <2> QED
    BY <1>3, <2>1, <1>k, QueuedRow
<1>4. ASSUME NEW f \in Flushes, NEW acc \in 0..MaxBatch, NEW rej \in 0..MaxBatch,
             SubmitAnswers(f, acc, rej)
      PROVE  LostInv'
  BY <1>4, <1>k DEF SubmitAnswers
<1>5. ASSUME NEW f \in Flushes, SubmitFails(f) PROVE LostInv'
  BY <1>5, <1>k DEF SubmitFails
<1>6. ASSUME NEW f \in Flushes, MarkAccepted(f) PROVE LostInv'
  <2>1. UNCHANGED <<created, acked>> /\ flush[f].pc = "accept"
    BY <1>6 DEF MarkAccepted
  <2>2. IdsIn(f, 0, flush[f].acc) \subseteq acked
    BY <2>1, FrameTypes DEF AnswerInv, IdsIn
  <2> QED
    BY <1>6, <2>1, <2>2, <1>k, AcceptedRows
<1>7. ASSUME NEW f \in Flushes, MarkRejected(f) \/ MarkRetryGivesUp(f) PROVE LostInv'
  <2>1. /\ UNCHANGED <<created, acked>> /\ Rejected(Nonce(f))
        /\ flush[f].pc \in {"reject", "giveup"}
    BY <1>7 DEF MarkRejected, MarkRetryGivesUp
  <2>2. flush[f].i \in 1..Len(flush[f].batch)
    BY <2>1, FrameTypes DEF BatchInv, BatchOK
  <2>3. Nonce(f) \in Receipts
    BY <2>2, FrameTypes DEF Nonce
  <2> QED
    BY <2>1, <2>3, <1>k, RejectedRow
<1>8. ASSUME NEW f \in Flushes, MarkRetryReads(f) PROVE LostInv'
  BY <1>8, <1>k DEF MarkRetryReads
<1>9. ASSUME NEW f \in Flushes, MarkRetryWrites(f) PROVE LostInv'
  <2>1. UNCHANGED <<created, acked>>
    BY <1>9 DEF MarkRetryWrites
  <2> QED
    BY <1>9, <2>1, <1>k, WrittenRow
<1>10. ASSUME NEW f \in Flushes, MarkRetryUpdates(f) PROVE LostInv'
  <2>1. UNCHANGED <<created, acked>>
    BY <1>10 DEF MarkRetryUpdates
  <2> QED
    BY <1>10, <2>1, <1>k, UpdatedRow
<1>11. ASSUME NEW cutoff, Cleanup(cutoff) PROVE LostInv'
  <2>1. UNCHANGED <<created, acked>> /\ Absent.st = "none"
    BY <1>11 DEF Cleanup, Absent
  <2> QED
    BY <1>11, <2>1, <1>k, CleanedRows
<1>12. CASE Crash \/ UNCHANGED vars
  BY <1>12, <1>k DEF Crash, vars
<1>13. ASSUME NEW f \in Flushes, DatabaseFails(f) PROVE LostInv'
  BY <1>13, <1>k, DatabaseOutcome
<1> QED
  BY <1>1, <1>2, <1>3, <1>4, <1>5, <1>6, <1>7, <1>8, <1>9, <1>10, <1>11, <1>12, <1>13 DEF Next

\* Only markRetry blanks a row, and it is called for failed submissions.
LEMMA DataStep ==
    ASSUME TypeOK, BatchInv, DataInv, [Next]_vars
    PROVE  DataInv'
<1> USE DEF boundVars, historyVars
<1> DEFINE Marking == {"retry", "giveup", "mark", "write"}
           Kept(g) == \A i \in 1..Len(flush'[g].batch) :
                         \/ failed'[flush'[g].batch[i].id] > 0
                         \/ ~flush'[g].batch[i].row.blank /\ flush'[g].pc \notin Marking
<1>f. failed \in [Receipts -> Nat] /\ table \in [Receipts -> Rows]
  BY DEF TypeOK
<1>i. Len(Idle.batch) = 0 /\ ~Absent.blank
  BY DEF Idle, Absent
<1>b. \A g \in Flushes : \A i \in 1..Len(flush[g].batch) : flush[g].batch[i].id \in Receipts
  BY FrameTypes
<1>o. ASSUME NEW f \in Flushes, Alone(f), failed' = failed,
             flush'[f] = Idle \/ SameBatch(f),
             flush'[f].pc \in Marking => flush[f].pc \in Marking,
             \A r \in Receipts : table'[r].blank => failed[r] > 0
      PROVE  DataInv'
  <2>1. Kept(f)
    BY <1>o, <1>i DEF DataInv, SameBatch
  <2>2. \A g \in Flushes \ {f} : Kept(g)
    BY <1>o DEF DataInv, Alone
  <2> QED
    BY <1>o, <2>1, <2>2 DEF DataInv
<1>s. ASSUME flush' = flush, failed' = failed,
             \A r \in Receipts : table'[r].blank => failed[r] > 0
      PROVE  DataInv'
  BY <1>s DEF DataInv
<1>1. ASSUME NEW s \in Receipts, CreateReceipt(s) PROVE DataInv'
  <2>1. \A r \in Receipts : table'[r].blank => table[r].blank
    BY <1>1, <1>f DEF CreateReceipt
  <2> QED
    BY <1>1, <1>s, <2>1 DEF CreateReceipt, DataInv
<1>2. ASSUME NEW f \in Flushes, StartFlush(f) PROVE DataInv'
  <2>1. /\ Alone(f) /\ failed' = failed /\ table' = table /\ flush'[f].pc = "queue"
        /\ \A i \in 1..Len(flush'[f].batch) :
              /\ flush'[f].batch[i].id \in Receipts
              /\ flush'[f].batch[i].row = table[flush'[f].batch[i].id]
    BY <1>2, StartOutcome DEF Alone
  <2>2. Kept(f)
    BY <2>1 DEF DataInv
  <2>3. \A g \in Flushes \ {f} : Kept(g)
    BY <2>1 DEF DataInv, Alone
  <2> QED
    BY <2>1, <2>2, <2>3 DEF DataInv
<1>3. ASSUME NEW f \in Flushes, MarkQueued(f) PROVE DataInv'
  <2>1. flush[f].pc = "queue" /\ flush[f].i \in 1..Len(flush[f].batch) /\ failed' = failed
    BY <1>3 DEF MarkQueued, BatchInv, BatchOK
  <2>2. table'[Nonce(f)].blank => failed[Nonce(f)] > 0
    BY <1>3, <2>1, QueuedRow DEF DataInv, Nonce
  <2>3. \A r \in Receipts : table'[r].blank => failed[r] > 0
    BY <1>3, <2>2, QueuedRow DEF DataInv
  <2>4. Alone(f) /\ SameBatch(f) /\ flush'[f].pc \in {"queue", "post"}
    BY <1>3, <2>1, AdvanceOutcome DEF MarkQueued, Alone, SameBatch
  <2> QED
    BY <1>o, <2>1, <2>3, <2>4
<1>4. ASSUME NEW f \in Flushes, NEW acc \in 0..MaxBatch, NEW rej \in 0..MaxBatch,
             SubmitAnswers(f, acc, rej)
      PROVE  DataInv'
  <2>1. acc \in Nat /\ rej \in Nat
    BY ReceiptsAssumption
  <2>2. Alone(f) /\ SameBatch(f) /\ flush'[f].pc = "accept"
    BY <1>4, <2>1, AnswerOutcome
  <2>3. failed' = failed /\ \A r \in Receipts : table'[r].blank => failed[r] > 0
    BY <1>4 DEF SubmitAnswers, DataInv
  <2> QED
    BY <1>o, <2>2, <2>3
<1>5. ASSUME NEW f \in Flushes, SubmitFails(f) PROVE DataInv'
  <2>1. Alone(f) /\ SameBatch(f) /\ table' = table
    BY <1>5, FailsOutcome DEF SubmitFails
  <2>2. \A r \in Receipts : /\ failed[r] > 0 => failed'[r] > 0
                            /\ r \in Ids(f) => failed'[r] > 0
    BY <1>5, <1>f DEF SubmitFails
  <2>3. \A i \in 1..Len(flush[f].batch) : flush[f].batch[i].id \in Ids(f)
    BY FrameTypes DEF Ids
  <2>4. Kept(f)
    BY <1>b, <2>1, <2>2, <2>3 DEF SameBatch
  <2>5. \A g \in Flushes \ {f} : Kept(g)
    BY <1>b, <2>1, <2>2 DEF DataInv, Alone
  <2> QED
    BY <2>1, <2>2, <2>4, <2>5 DEF DataInv
<1>6. ASSUME NEW f \in Flushes, MarkAccepted(f) PROVE DataInv'
  <2>1. /\ Alone(f) /\ (flush'[f] = Idle \/ SameBatch(f)) /\ failed' = failed
        /\ flush'[f].pc \in {"idle", "reject"}
    BY <1>6, AcceptOutcome DEF MarkAccepted, Idle
  <2>2. \A r \in Receipts : table'[r].blank => failed[r] > 0
    BY <1>6, AcceptedRows DEF DataInv
  <2> QED
    BY <1>o, <2>1, <2>2
<1>7. ASSUME NEW f \in Flushes, MarkRejected(f) \/ MarkRetryGivesUp(f) PROVE DataInv'
  <2>1. /\ Rejected(Nonce(f)) /\ flush[f].pc \in {"reject", "giveup"} /\ failed' = failed
        /\ \E last : Advance(f, last, "idle")
    BY <1>7 DEF MarkRejected, MarkRetryGivesUp
  <2>2. flush[f].i \in 1..Len(flush[f].batch)
    BY <2>1, FrameTypes DEF BatchInv, BatchOK
  <2>3. Nonce(f) \in Receipts
    BY <2>2, FrameTypes DEF Nonce
  <2>4. \A r \in Receipts : table'[r].blank => failed[r] > 0
    BY <2>1, <2>3, RejectedRow DEF DataInv
  <2>5. /\ Alone(f) /\ (flush'[f] = Idle \/ SameBatch(f))
        /\ flush'[f].pc \in {"idle", "reject", "retry"}
        /\ flush'[f].pc = "retry" => flush[f].pc = "giveup"
    BY <2>1, AdvanceOutcome DEF Alone, SameBatch, Idle
  <2> QED
    BY <1>o, <2>1, <2>4, <2>5
<1>8. ASSUME NEW f \in Flushes, MarkRetryReads(f) PROVE DataInv'
  <2>1. /\ Alone(f) /\ SameBatch(f) /\ flush[f].pc = "retry" /\ UNCHANGED <<table, failed>>
    BY <1>8, ReadsOutcome DEF MarkRetryReads
  <2> QED
    BY <1>o, <2>1 DEF DataInv
<1>9. ASSUME NEW f \in Flushes, MarkRetryUpdates(f) PROVE DataInv'
  <2>1. Alone(f) /\ SameBatch(f) /\ flush[f].pc = "mark" /\ failed' = failed
    BY <1>9, UpdatesOutcome DEF MarkRetryUpdates
  <2>2. \A r \in Receipts : table'[r].blank => failed[r] > 0
    BY <1>9, UpdatedRow DEF DataInv
  <2> QED
    BY <1>o, <2>1, <2>2
<1>10. ASSUME NEW f \in Flushes, MarkRetryWrites(f) PROVE DataInv'
  <2>1. /\ flush[f].pc = "write" /\ flush[f].i \in 1..Len(flush[f].batch) /\ failed' = failed
        /\ Advance(f, Len(flush[f].batch), "idle")
    BY <1>10 DEF MarkRetryWrites, BatchInv, BatchOK
  <2>2. failed[Nonce(f)] > 0
    BY <2>1 DEF DataInv, Nonce
  <2>3. \A r \in Receipts : table'[r].blank => failed[r] > 0
    BY <1>10, <2>2, WrittenRow DEF DataInv
  <2>4. Alone(f) /\ (flush'[f] = Idle \/ SameBatch(f))
    BY <2>1, AdvanceOutcome DEF Alone, SameBatch
  <2> QED
    BY <1>o, <2>1, <2>3, <2>4
<1>11. ASSUME NEW cutoff, Cleanup(cutoff) PROVE DataInv'
  <2>1. \A r \in Receipts : table'[r].blank => table[r].blank
    BY <1>11, <1>i, CleanedRows
  <2> QED
    BY <1>11, <1>s, <2>1 DEF Cleanup, DataInv
<1>12. CASE Crash
  <2>1. UNCHANGED <<table, failed>> /\ \A f \in Flushes : Len(flush'[f].batch) = 0
    BY <1>12, <1>i DEF Crash
  <2> QED
    BY <2>1 DEF DataInv
<1>13. CASE UNCHANGED vars
  BY <1>13, <1>s DEF vars, DataInv
<1>14. ASSUME NEW f \in Flushes, DatabaseFails(f) PROVE DataInv'
  <2>1. Alone(f) /\ UNCHANGED <<table, failed>>
    BY <1>14, DatabaseOutcome
  <2>2. /\ flush'[f] = Idle \/ SameBatch(f)
        /\ flush'[f].pc \in Marking => flush[f].pc \in Marking
    BY <1>14, DatabaseOutcome DEF Idle
  <2> QED
    BY <1>o, <2>1, <2>2 DEF DataInv
<1> QED
  BY <1>1, <1>2, <1>3, <1>4, <1>5, <1>6, <1>7, <1>8, <1>9, <1>10, <1>11, <1>12, <1>13, <1>14 DEF Next

\* The invariant that the theorems below share.
QueueInv == TypeOK /\ BatchInv /\ TableInv /\ AnswerInv

\* It holds initially ...
LEMMA QueueInit == Init => QueueInv
<1>1. Init => AnswerInv
  BY DEF Init, AnswerInv, Idle
<1> QED
  BY <1>1, TypeInit DEF QueueInv

\* ... and every step keeps it.
LEMMA QueueStep == QueueInv /\ [Next]_vars => QueueInv'
  BY TypeStep, AnswerStep DEF QueueInv

\* ReceiptStore: a receipt that createReceipt stored stays in the table until
\* a response accepted it, and keeps its data as long as no submission of it
\* failed, whatever overlapping flushes write back, whichever database calls
\* fail, whenever the cleanup runs and wherever the process dies.
THEOREM ReceiptsAreNeverLost == Spec => []NeverLost
<1> DEFINE IInv == QueueInv /\ LostInv /\ DataInv
<1>1. Init => IInv
  <2>1. Init => LostInv
    BY DEF Init, LostInv, Absent
  <2>2. Init => DataInv
    BY DEF Init, DataInv, Absent, Idle
  <2> QED
    BY <2>1, <2>2, QueueInit
<1>2. IInv /\ [Next]_vars => IInv'
  BY QueueStep, LostStep, DataStep DEF QueueInv
<1>3. IInv => NeverLost
  BY DEF QueueInv, TypeOK, LostInv, DataInv, NeverLost
<1> QED
  BY <1>1, <1>2, <1>3, PTL DEF Spec

-----------------------------------------------------------------------------
(***************************************************************************)
(* What was accepted is not submitted again, races aside.  As long as no   *)
(* two flushes held a receipt, the only flush that may hold an accepted    *)
(* one is the one whose answer accepted it, and once that answer is        *)
(* recorded the row is not pending.                                        *)
(***************************************************************************)
Holds(f, r) == \E i \in 1..Len(flush[f].batch) : flush[f].batch[i].id = r
Took(f, r)  == /\ flush[f].pc \in {"accept", "reject"}
               /\ \E i \in 1..flush[f].acc : flush[f].batch[i].id = r

OneHolder ==
    \A r \in Receipts \ raced : \A f, g \in Flushes : Holds(f, r) /\ Holds(g, r) => f = g

AckedOnce ==
    \A r \in acked \ (raced \cup unmarked) :
        /\ \A f \in Flushes : Holds(f, r) => Took(f, r)
        /\ table[r].st \in Pending => \E f \in Flushes : flush[f].pc = "accept" /\ Holds(f, r)

\* Holding a receipt is having its nonce in the batch.
LEMMA HoldsIds ==
    ASSUME TypeOK
    PROVE  /\ \A f \in Flushes : Ids(f) = {r \in Receipts : Holds(f, r)}
           /\ \A f \in Flushes : flush[f] = Idle => \A r : ~Holds(f, r)
<1>1. ASSUME NEW f \in Flushes PROVE Ids(f) = {r \in Receipts : Holds(f, r)}
  <2>1. DOMAIN flush[f].batch = 1..Len(flush[f].batch)
    BY FrameTypes
  <2> QED
    BY <2>1, FrameTypes DEF Ids, Holds
<1>2. ASSUME NEW f \in Flushes, flush[f] = Idle PROVE \A r : ~Holds(f, r)
  <2>1. Len(flush[f].batch) = 0
    BY <1>2 DEF Idle
  <2> QED
    BY <2>1 DEF Holds
<1> QED
  BY <1>1, <1>2

\* A step that is not the start of a flush lets go of receipts at most.
LEMMA KeptOrDropped ==
    ASSUME TypeOK, BatchInv, NEW f \in Flushes,
           \/ MarkQueued(f) \/ SubmitFails(f) \/ MarkAccepted(f) \/ MarkRejected(f)
           \/ MarkRetryReads(f) \/ MarkRetryGivesUp(f) \/ MarkRetryUpdates(f)
           \/ MarkRetryWrites(f) \/ DatabaseFails(f)
    PROVE  Alone(f) /\ (flush'[f] = Idle \/ (SameBatch(f) /\ SameCounts(f) /\ flush'[f].pc # "accept"))
<1>1. ASSUME NEW last, NEW pc \in {"idle", "post"}, Advance(f, last, pc), flush[f].pc # "accept"
      PROVE  Alone(f) /\ (flush'[f] = Idle \/ (SameBatch(f) /\ SameCounts(f) /\ flush'[f].pc # "accept"))
  <2>1. Alone(f)
    BY <1>1, AdvanceOutcome DEF Alone
  <2>2. flush'[f] = Idle \/ (SameBatch(f) /\ SameCounts(f))
    BY <1>1, AdvanceOutcome DEF SameBatch, SameCounts
  <2>3. flush'[f] = Idle \/ flush'[f].pc \in {flush[f].pc, "retry", "post"}
    BY <1>1, AdvanceOutcome
  <2> QED
    BY <1>1, <2>1, <2>2, <2>3
<1>2. CASE MarkQueued(f) \/ MarkRejected(f) \/ MarkRetryGivesUp(f) \/ MarkRetryWrites(f)
  BY <1>1, <1>2 DEF MarkQueued, MarkRejected, MarkRetryGivesUp, MarkRetryWrites
<1>3. CASE SubmitFails(f)
  BY <1>3, FailsOutcome
<1>4. CASE MarkAccepted(f)
  <2>1. Alone(f) /\ (flush'[f] = Idle \/ (flush'[f].pc = "reject" /\ SameBatch(f) /\ SameCounts(f)))
    BY <1>4, AcceptOutcome
  <2> QED
    BY <2>1
<1>5. CASE MarkRetryReads(f)
  BY <1>5, ReadsOutcome
<1>6. CASE MarkRetryUpdates(f)
  BY <1>6, UpdatesOutcome
<1>7. CASE DatabaseFails(f)
  <2>1. Alone(f)
    BY <1>7, DatabaseOutcome
  <2>2. flush'[f] = Idle \/ (SameBatch(f) /\ SameCounts(f) /\ flush'[f].pc # "accept")
    BY <1>7, DatabaseOutcome
  <2> QED
    BY <2>1, <2>2
<1> QED
  BY <1>2, <1>3, <1>4, <1>5, <1>6, <1>7

\* ... so that it never makes a second holder.
LEMMA HolderStep ==
    ASSUME TypeOK, BatchInv, OneHolder, [Next]_vars
    PROVE  OneHolder'
<1> USE DEF boundVars, historyVars
<1>k. ASSUME raced \subseteq raced', \A f \in Flushes, r \in Receipts : Holds(f, r)' => Holds(f, r)
      PROVE  OneHolder'
  BY <1>k DEF OneHolder
<1>a. ASSUME NEW f \in Flushes, Alone(f), flush'[f] = Idle \/ SameBatch(f), raced' = raced
      PROVE  OneHolder'
  <2>1. Len(Idle.batch) = 0
    BY DEF Idle
  <2>2. \A g \in Flushes, r \in Receipts : Holds(g, r)' => Holds(g, r)
    BY <1>a, <2>1 DEF Holds, Alone, SameBatch
  <2> QED
    BY <1>a, <1>k, <2>2
<1>1. ASSUME NEW r \in Receipts, CreateReceipt(r) PROVE OneHolder'
  BY <1>1, <1>k DEF CreateReceipt, Holds
<1>2. ASSUME NEW f \in Flushes, StartFlush(f) PROVE OneHolder'
  <2>1. \A g \in Flushes \ {f} : flush'[g] = flush[g]
    BY <1>2, StartOutcome
  <2>2. raced' = raced \cup {r \in Receipts : Holds(f, r)' /\ \E g \in Flushes : r \in Ids(g)}
    BY <1>2, StartOutcome DEF Holds
  <2>3. \A r \in Receipts : \A g \in Flushes : Holds(g, r) => r \in Ids(g)
    BY HoldsIds
  <2>4. \A r \in Receipts : \A g \in Flushes \ {f} : Holds(g, r)' <=> Holds(g, r)
    BY <2>1 DEF Holds
  <2> QED
    BY <2>2, <2>3, <2>4 DEF OneHolder
<1>3. ASSUME NEW f \in Flushes, NEW acc \in 0..MaxBatch, NEW rej \in 0..MaxBatch,
             SubmitAnswers(f, acc, rej)
      PROVE  OneHolder'
  <2>1. Alone(f) /\ SameBatch(f)
    BY <1>3, AnswerOutcome, ReceiptsAssumption
  <2> QED
    BY <1>3, <2>1, <1>a DEF SubmitAnswers
<1>4. ASSUME NEW f \in Flushes,
             \/ MarkQueued(f) \/ SubmitFails(f) \/ MarkAccepted(f) \/ MarkRejected(f)
             \/ MarkRetryReads(f) \/ MarkRetryGivesUp(f) \/ MarkRetryUpdates(f)
             \/ MarkRetryWrites(f) \/ DatabaseFails(f)
      PROVE  OneHolder'
  <2>1. raced' = raced
    BY <1>4 DEF MarkQueued, SubmitFails, MarkAccepted, MarkRejected, MarkRetryReads,
                MarkRetryGivesUp, MarkRetryUpdates, MarkRetryWrites, DatabaseFails
  <2> QED
    BY <1>4, <2>1, <1>a, KeptOrDropped
<1>5. ASSUME NEW cutoff, Cleanup(cutoff) PROVE OneHolder'
  BY <1>5, <1>k DEF Cleanup, Holds
<1>6. CASE Crash
  BY <1>6, <1>k DEF Crash, Holds, Idle
<1>7. CASE UNCHANGED vars
  BY <1>7, <1>k DEF vars, Holds
<1> QED
  BY <1>1, <1>2, <1>3, <1>4, <1>5, <1>6, <1>7 DEF Next

\* The receipts that were accepted without a race stay with their flush.
LEMMA AckedStep ==
    ASSUME QueueInv, OneHolder, AckedOnce, [Next]_vars
    PROVE  AckedOnce'
<1> USE DEF boundVars, historyVars
<1>q. /\ TypeOK /\ BatchInv /\ acked \subseteq Receipts /\ acked \subseteq created
  BY DEF QueueInv, TypeOK, AnswerInv
<1>i. Len(Idle.batch) = 0 /\ Idle.pc = "idle"
  BY DEF Idle
\* The flush whose step this is held none of them.
<1>a. ASSUME NEW f \in Flushes, Alone(f), flush'[f] = Idle \/ SameBatch(f),
             flush[f].pc \notin {"accept", "reject"}, UNCHANGED <<acked, raced, unmarked>>,
             \A r \in Receipts : Holds(f, r) \/ table'[r] = table[r]
      PROVE  AckedOnce'
  <2> SUFFICES ASSUME NEW r \in acked \ (raced \cup unmarked) PROVE AckedOnce!(r)'
    BY <1>a DEF AckedOnce
  <2>1. ~Holds(f, r)
    BY <1>a DEF AckedOnce, Took
  <2>2. ~Holds(f, r)' /\ table'[r] = table[r]
    BY <1>a, <1>q, <1>i, <2>1 DEF Holds, SameBatch
  <2>3. \A g \in Flushes \ {f} : flush'[g] = flush[g]
    BY <1>a DEF Alone
  <2>4. \A g \in Flushes \ {f} : (Holds(g, r)' <=> Holds(g, r)) /\ (Took(g, r)' <=> Took(g, r))
    BY <2>3 DEF Holds, Took
  <2> QED
    BY <2>1, <2>2, <2>3, <2>4 DEF AckedOnce
<1>1. ASSUME NEW r \in Receipts, CreateReceipt(r) PROVE AckedOnce'
  <2>1. r \notin acked /\ UNCHANGED <<acked, raced, unmarked, flush>>
        /\ \A s \in Receipts \ {r} : table'[s] = table[s]
    BY <1>1, <1>q DEF CreateReceipt, TypeOK
  <2> QED
    BY <2>1, <1>q DEF AckedOnce, Holds, Took
<1>2. ASSUME NEW f \in Flushes, StartFlush(f) PROVE AckedOnce'
  <2>1. /\ \A g \in Flushes \ {f} : flush'[g] = flush[g]
        /\ flush[f] = Idle /\ UNCHANGED <<table, acked, unmarked>>
    BY <1>2, <1>q, StartOutcome
  <2>2. raced' = raced \cup {r \in Receipts : Holds(f, r)' /\ \E g \in Flushes : r \in Ids(g)}
    BY <1>2, <1>q, StartOutcome DEF Holds
  <2>3. \A r \in Receipts : Holds(f, r)' => table[r].st \in Pending
    BY <1>2, <1>q, StartOutcome DEF Holds
  <2> SUFFICES ASSUME NEW r \in acked \ (raced' \cup unmarked) PROVE AckedOnce!(r)'
    BY <2>1 DEF AckedOnce
  <2>4. r \notin raced /\ r \in Receipts
    BY <2>2, <1>q
  <2>5. ~Holds(f, r)'
    BY <2>2, <2>3, <2>4, <1>q, HoldsIds DEF AckedOnce
  <2>6. \A g \in Flushes \ {f} : (Holds(g, r)' <=> Holds(g, r)) /\ (Took(g, r)' <=> Took(g, r))
    BY <2>1 DEF Holds, Took
  <2>7. flush[f].pc # "accept"
    BY <2>1, <1>i
  <2> QED
    BY <2>1, <2>4, <2>5, <2>6, <2>7 DEF AckedOnce
<1>3. ASSUME NEW f \in Flushes, MarkQueued(f) \/ MarkRetryGivesUp(f) \/ MarkRetryUpdates(f)
                                \/ MarkRetryWrites(f)
      PROVE  AckedOnce'
  <2>1. /\ UNCHANGED <<acked, raced, unmarked>>
        /\ flush[f].pc \in {"queue", "giveup", "mark", "write"}
    BY <1>3 DEF MarkQueued, MarkRetryGivesUp, MarkRetryUpdates, MarkRetryWrites
  <2>2. flush[f].i \in 1..Len(flush[f].batch) /\ Holds(f, Nonce(f)) /\ Nonce(f) \in Receipts
    BY <2>1, <1>q, FrameTypes DEF BatchInv, BatchOK, Holds, Nonce
  <2>3. \A r \in Receipts \ {Nonce(f)} : table'[r] = table[r]
    <3>1. CASE MarkQueued(f)
      BY <3>1, <1>q, QueuedRow
    <3>2. CASE MarkRetryGivesUp(f)
      BY <3>2, <2>2, <1>q, RejectedRow DEF MarkRetryGivesUp
    <3>3. CASE MarkRetryUpdates(f)
      BY <3>3, <1>q, UpdatedRow
    <3>4. CASE MarkRetryWrites(f)
      BY <3>4, <1>q, WrittenRow
    <3> QED
      BY <1>3, <3>1, <3>2, <3>3, <3>4
  <2>4. Alone(f) /\ (flush'[f] = Idle \/ SameBatch(f))
    BY <1>3, <1>q, KeptOrDropped
  <2> QED
    BY <2>1, <2>2, <2>3, <2>4, <1>a
<1>4. ASSUME NEW f \in Flushes, SubmitFails(f) \/ MarkRetryReads(f) PROVE AckedOnce'
  <2>1. UNCHANGED <<acked, raced, unmarked, table>> /\ flush[f].pc \in {"post", "retry"}
    BY <1>4 DEF SubmitFails, MarkRetryReads
  <2>2. Alone(f) /\ (flush'[f] = Idle \/ SameBatch(f))
    BY <1>4, <1>q, KeptOrDropped
  <2> QED
    BY <2>1, <2>2, <1>a
<1>5. ASSUME NEW f \in Flushes, NEW acc \in 0..MaxBatch, NEW rej \in 0..MaxBatch,
             SubmitAnswers(f, acc, rej)
      PROVE  AckedOnce'
  <2>1. acc \in Nat /\ rej \in Nat /\ acc + rej <= Len(flush[f].batch) /\ flush[f].pc = "post"
    BY <1>5, ReceiptsAssumption DEF SubmitAnswers
  <2>2. /\ \A g \in Flushes \ {f} : flush'[g] = flush[g]
        /\ flush'[f].batch = flush[f].batch /\ flush'[f].pc = "accept" /\ flush'[f].acc = acc
    BY <1>5, <1>q, <2>1, AnswerOutcome DEF SameBatch, Alone
  <2>3. acked' = acked \cup IdsIn(f, 0, acc) /\ UNCHANGED <<table, raced, unmarked>>
    BY <1>5 DEF SubmitAnswers
  <2>4. \A r \in Receipts : \A g \in Flushes : Holds(g, r)' <=> Holds(g, r)
    BY <2>2 DEF Holds
  <2>5. \A r \in Receipts : \A g \in Flushes \ {f} : Took(g, r)' <=> Took(g, r)
    BY <2>2 DEF Took
  <2>6. \A r \in Receipts : r \in IdsIn(f, 0, acc) => Took(f, r)' /\ Holds(f, r)
    BY <1>q, <2>1, <2>2, FrameTypes DEF IdsIn, Took, Holds
  <2>7. IdsIn(f, 0, acc) \subseteq Receipts
    BY <1>q, <2>1, FrameTypes DEF IdsIn
  <2> SUFFICES ASSUME NEW r \in acked' \ (raced \cup unmarked) PROVE AckedOnce!(r)'
    BY <2>3 DEF AckedOnce
  <2>8. CASE r \in acked
    <3>1. ~Holds(f, r)
      BY <2>1, <2>8 DEF AckedOnce, Took
    <3> QED
      BY <1>q, <2>2, <2>3, <2>4, <2>5, <2>8, <3>1 DEF AckedOnce
  <2>9. CASE r \in IdsIn(f, 0, acc)
    <3>1. \A g \in Flushes : Holds(g, r) => g = f
      BY <2>6, <2>7, <2>9 DEF OneHolder
    <3> QED
      BY <2>2, <2>4, <2>6, <2>7, <2>9, <3>1
  <2> QED
    BY <2>3, <2>8, <2>9
<1>6. ASSUME NEW f \in Flushes, MarkAccepted(f) PROVE AckedOnce'
  <2>1. UNCHANGED <<acked, raced, unmarked>> /\ flush[f].pc = "accept"
    BY <1>6 DEF MarkAccepted
  <2>2. /\ \A g \in Flushes \ {f} : flush'[g] = flush[g]
        /\ \/ flush'[f] = Idle
           \/ flush'[f].pc = "reject" /\ SameBatch(f) /\ SameCounts(f)
    BY <1>6, <1>q, AcceptOutcome DEF Alone
  <2> SUFFICES ASSUME NEW r \in acked \ (raced \cup unmarked) PROVE AckedOnce!(r)'
    BY <2>1 DEF AckedOnce
  <2>3. r \in Receipts
    BY <1>q
  <2>4. Holds(f, r)' => Took(f, r)'
    <3>1. CASE flush'[f] = Idle
      BY <3>1, <1>i DEF Holds
    <3>2. CASE flush'[f].pc = "reject" /\ SameBatch(f) /\ SameCounts(f)
      <4>1. Holds(f, r)' => Holds(f, r)
        BY <3>2 DEF Holds, SameBatch
      <4>2. Holds(f, r) => Took(f, r)
        BY DEF AckedOnce
      <4>3. Took(f, r) => Took(f, r)'
        BY <3>2 DEF Took, SameBatch, SameCounts
      <4> QED
        BY <4>1, <4>2, <4>3
    <3> QED
      BY <2>2, <3>1, <3>2
  <2>5. \A g \in Flushes \ {f} : (Holds(g, r)' <=> Holds(g, r)) /\ (Took(g, r)' <=> Took(g, r))
    BY <2>2 DEF Holds, Took
  <2>6. ASSUME table'[r].st \in Pending
        PROVE  \E g \in Flushes : flush'[g].pc = "accept" /\ Holds(g, r)'
    <3>1. table'[r] = table[r] /\ (r \in IdsIn(f, 0, flush[f].acc) => table[r].st = "none")
      BY <1>6, <1>q, <2>3, <2>6, AcceptedRows DEF Pending
    <3>2. r \notin IdsIn(f, 0, flush[f].acc)
      BY <2>6, <3>1 DEF Pending
    <3>3. ~Holds(f, r)
      <4>1. ~Took(f, r)
        BY <1>q, <3>2, FrameTypes DEF Took, IdsIn
      <4> QED
        BY <4>1 DEF AckedOnce
    <3>4. PICK g \in Flushes : flush[g].pc = "accept" /\ Holds(g, r)
      BY <2>6, <3>1 DEF AckedOnce
    <3>5. g # f
      BY <3>3, <3>4
    <3> QED
      BY <2>2, <2>5, <3>4, <3>5
  <2> QED
    BY <2>4, <2>5, <2>6 DEF AckedOnce
<1>7. ASSUME NEW f \in Flushes, MarkRejected(f) PROVE AckedOnce'
  <2>1. UNCHANGED <<acked, raced, unmarked>> /\ flush[f].pc = "reject" /\ Rejected(Nonce(f))
    BY <1>7 DEF MarkRejected
  <2>2. /\ \A g \in Flushes \ {f} : flush'[g] = flush[g]
        /\ flush'[f] = Idle \/ (flush'[f].pc = "reject" /\ SameBatch(f) /\ SameCounts(f))
    <3>1. Advance(f, flush[f].acc + flush[f].rej, "idle")
      BY <1>7 DEF MarkRejected
    <3> QED
      BY <1>q, <2>1, <3>1, AdvanceOutcome DEF SameBatch, SameCounts
  <2>3. /\ flush[f].i \in 1..Len(flush[f].batch) /\ Nonce(f) \in Receipts
        /\ \A i \in 1..flush[f].acc : flush[f].batch[i].id # Nonce(f)
    <3>1. /\ flush[f].i \in (flush[f].acc + 1)..(flush[f].acc + flush[f].rej)
          /\ flush[f].acc + flush[f].rej <= Len(flush[f].batch)
          /\ \A i, j \in 1..Len(flush[f].batch) :
                flush[f].batch[i].id = flush[f].batch[j].id => i = j
      BY <1>q, <2>1 DEF BatchInv, BatchOK
    <3>2. flush[f].acc \in Nat /\ flush[f].rej \in Nat /\ Len(flush[f].batch) \in Nat
      BY <1>q, FrameTypes
    <3>3. flush[f].i \in 1..Len(flush[f].batch)
          /\ \A i \in 1..flush[f].acc : i \in 1..Len(flush[f].batch) /\ i # flush[f].i
      <4> DEFINE a == flush[f].acc
                 b == flush[f].rej
                 k == flush[f].i
                 n == Len(flush[f].batch)
      <4>1. a \in Nat /\ b \in Nat /\ n \in Nat /\ a + b <= n /\ k \in (a + 1)..(a + b)
        BY <3>1, <3>2
      <4> HIDE DEF a, b, k, n
      <4>2. k \in 1..n /\ \A i \in 1..a : i \in 1..n /\ i # k
        BY <4>1
      <4> QED
        BY <4>2 DEF a, k, n
    <3> QED
      BY <1>q, <3>1, <3>3, FrameTypes DEF Nonce
  <2> SUFFICES ASSUME NEW r \in acked \ (raced \cup unmarked) PROVE AckedOnce!(r)'
    BY <2>1 DEF AckedOnce
  <2>4. r \in Receipts
    BY <1>q
  <2>5. r # Nonce(f)
    <3>1. Holds(f, Nonce(f)) /\ ~Took(f, Nonce(f))
      BY <2>3 DEF Holds, Took, Nonce
    <3> QED
      BY <3>1 DEF AckedOnce
  <2>6. table'[r] = table[r]
    BY <1>q, <2>1, <2>3, <2>4, <2>5, RejectedRow
  <2>7. Holds(f, r)' => Took(f, r)'
    <3>1. CASE flush'[f] = Idle
      BY <3>1, <1>i DEF Holds
    <3>2. CASE flush'[f].pc = "reject" /\ SameBatch(f) /\ SameCounts(f)
      <4>1. Holds(f, r)' => Holds(f, r)
        BY <3>2 DEF Holds, SameBatch
      <4>2. Holds(f, r) => Took(f, r)
        BY DEF AckedOnce
      <4>3. Took(f, r) => Took(f, r)'
        BY <3>2 DEF Took, SameBatch, SameCounts
      <4> QED
        BY <4>1, <4>2, <4>3
    <3> QED
      BY <2>2, <3>1, <3>2
  <2>8. \A g \in Flushes \ {f} : (Holds(g, r)' <=> Holds(g, r)) /\ (Took(g, r)' <=> Took(g, r))
    BY <2>2 DEF Holds, Took
  <2> QED
    BY <2>1, <2>2, <2>6, <2>7, <2>8 DEF AckedOnce
<1>8. ASSUME NEW cutoff, Cleanup(cutoff) PROVE AckedOnce'
  <2>1. UNCHANGED <<acked, raced, unmarked, flush>> /\ Absent.st \notin Pending
    BY <1>8 DEF Cleanup, Absent, Pending
  <2>2. \A r \in Receipts : table'[r] = table[r] \/ table'[r] = Absent
    BY <1>8, <1>q, CleanedRows
  <2> QED
    BY <1>q, <2>1, <2>2 DEF AckedOnce, Holds, Took
<1>9. CASE Crash
  <2>1. /\ UNCHANGED <<acked, table, raced>> /\ \A f \in Flushes : flush'[f] = Idle
        /\ unmarked' = unmarked \cup UNION {IdsIn(f, 0, flush[f].acc) :
                                        f \in {g \in Flushes : flush[g].pc = "accept"}}
    BY <1>9 DEF Crash
  <2> SUFFICES ASSUME NEW r \in acked \ (raced \cup unmarked') PROVE AckedOnce!(r)'
    BY <2>1 DEF AckedOnce
  <2>2. \A f \in Flushes : ~Holds(f, r)'
    BY <2>1, <1>i DEF Holds
  <2>3. ~ \E f \in Flushes : flush[f].pc = "accept" /\ Holds(f, r)
    <3> SUFFICES ASSUME NEW f \in Flushes, flush[f].pc = "accept", Holds(f, r) PROVE FALSE
      OBVIOUS
    <3>1. Took(f, r)
      BY <2>1 DEF AckedOnce
    <3>2. r \in IdsIn(f, 0, flush[f].acc)
      BY <1>q, <3>1, FrameTypes DEF Took, IdsIn
    <3> QED
      BY <2>1, <3>2
  <2> QED
    BY <2>1, <2>2, <2>3 DEF AckedOnce
<1>10. CASE UNCHANGED vars
  BY <1>10 DEF vars, AckedOnce, Holds, Took
<1>11. ASSUME NEW f \in Flushes, DatabaseFails(f) PROVE AckedOnce'
  <2>1. Alone(f) /\ UNCHANGED <<acked, raced, table>> /\ unmarked \subseteq unmarked'
    BY <1>11, <1>q, DatabaseOutcome
  <2>2. CASE flush[f].pc \notin {"accept", "reject"}
    <3>1. unmarked' = unmarked /\ (flush'[f] = Idle \/ SameBatch(f))
      BY <1>11, <1>q, <2>2, DatabaseOutcome
    <3> QED
      BY <2>1, <2>2, <3>1, <1>a
  <2>3. CASE flush[f].pc \in {"accept", "reject"}
    <3>1. flush'[f] = Idle \/ (flush'[f].pc = "reject" /\ SameBatch(f) /\ SameCounts(f))
      BY <1>11, <1>q, <2>3, DatabaseOutcome
    <3> SUFFICES ASSUME NEW r \in acked \ (raced \cup unmarked') PROVE AckedOnce!(r)'
      BY <2>1 DEF AckedOnce
    <3>2. r \in acked \ (raced \cup unmarked)
      BY <2>1
    <3>3. Holds(f, r)' => Took(f, r)'
      <4>1. CASE flush'[f] = Idle
        BY <4>1, <1>i DEF Holds
      <4>2. CASE flush'[f].pc = "reject" /\ SameBatch(f) /\ SameCounts(f)
        <5>1. Holds(f, r)' => Holds(f, r)
          BY <4>2 DEF Holds, SameBatch
        <5>2. Holds(f, r) => Took(f, r)
          BY <3>2 DEF AckedOnce
        <5>3. Took(f, r) => Took(f, r)'
          BY <4>2 DEF Took, SameBatch, SameCounts
        <5> QED
          BY <5>1, <5>2, <5>3
      <4> QED
        BY <3>1, <4>1, <4>2
    <3>4. \A g \in Flushes \ {f} : /\ flush'[g] = flush[g]
                                   /\ Holds(g, r)' <=> Holds(g, r)
                                   /\ Took(g, r)' <=> Took(g, r)
      BY <2>1 DEF Alone, Holds, Took
    <3>5. flush[f].pc = "accept" => ~Holds(f, r)
      <4> SUFFICES ASSUME flush[f].pc = "accept", Holds(f, r) PROVE FALSE
        OBVIOUS
      <4>1. Took(f, r)
        BY <3>2 DEF AckedOnce
      <4>2. r \in IdsIn(f, 0, flush[f].acc)
        BY <1>q, <4>1, FrameTypes DEF Took, IdsIn
      <4> QED
        BY <1>11, <1>q, <4>2, DatabaseOutcome
    <3> QED
      BY <2>1, <3>2, <3>3, <3>4, <3>5 DEF AckedOnce
  <2> QED
    BY <2>2, <2>3
<1> QED
  BY <1>1, <1>2, <1>3, <1>4, <1>5, <1>6, <1>7, <1>8, <1>9, <1>10, <1>11 DEF Next

\* What a submission repeats was raced for, or was not recorded.
LEMMA AgainStep ==
    ASSUME QueueInv, AckedOnce, SubmittedOnce, [Next]_vars
    PROVE  SubmittedOnce'
<1> USE DEF boundVars, historyVars
<1>q. TypeOK /\ acked \subseteq Receipts
  BY DEF QueueInv, TypeOK
<1>p. ASSUME NEW f \in Flushes, flush[f].pc = "post" PROVE Ids(f) \cap acked \subseteq raced \cup unmarked
  BY <1>p, <1>q, HoldsIds DEF AckedOnce, Took
<1>1. ASSUME NEW f \in Flushes, NEW acc, NEW rej, SubmitAnswers(f, acc, rej) PROVE SubmittedOnce'
  BY <1>1, <1>p DEF SubmitAnswers, SubmittedOnce
<1>2. ASSUME NEW f \in Flushes, SubmitFails(f) PROVE SubmittedOnce'
  BY <1>2, <1>p DEF SubmitFails, SubmittedOnce
<1>3. ASSUME NEW f \in Flushes, StartFlush(f) PROVE SubmittedOnce'
  BY <1>3, <1>q, StartOutcome DEF SubmittedOnce
<1>4. ASSUME NEW r \in Receipts, CreateReceipt(r) PROVE SubmittedOnce'
  BY <1>4 DEF CreateReceipt, SubmittedOnce
<1>5. ASSUME NEW f \in Flushes,
             \/ MarkQueued(f) \/ MarkAccepted(f) \/ MarkRejected(f)
             \/ MarkRetryReads(f) \/ MarkRetryGivesUp(f) \/ MarkRetryUpdates(f)
             \/ MarkRetryWrites(f) \/ DatabaseFails(f)
      PROVE  SubmittedOnce'
  BY <1>5 DEF MarkQueued, MarkAccepted, MarkRejected, MarkRetryReads, MarkRetryGivesUp,
              MarkRetryUpdates, MarkRetryWrites, DatabaseFails, SubmittedOnce
<1>6. ASSUME NEW cutoff, Cleanup(cutoff) PROVE SubmittedOnce'
  BY <1>6 DEF Cleanup, SubmittedOnce
<1>7. CASE Crash \/ UNCHANGED vars
  BY <1>7 DEF Crash, vars, SubmittedOnce
<1> QED
  BY <1>1, <1>2, <1>3, <1>4, <1>5, <1>6, <1>7 DEF Next

\* processPendingSubmissions: a receipt that a response accepted is posted
\* again only if two flushes read it, or if its mark never reached the table:
\* the process died before it, or markAccepted swallowed a database error.
THEOREM AcceptedAreSubmittedOnce == Spec => []SubmittedOnce
<1> DEFINE IInv == QueueInv /\ OneHolder /\ AckedOnce /\ SubmittedOnce
<1>1. Init => IInv
  <2>1. Init => OneHolder /\ AckedOnce /\ SubmittedOnce
    BY DEF Init, OneHolder, Holds, Idle, AckedOnce, SubmittedOnce
  <2> QED
    BY <2>1, QueueInit
<1>2. IInv /\ [Next]_vars => IInv'
  BY QueueStep, HolderStep, AckedStep, AgainStep DEF QueueInv
<1>3. IInv => SubmittedOnce
  OBVIOUS
<1> QED
  BY <1>1, <1>2, <1>3, PTL DEF Spec

-----------------------------------------------------------------------------
(***************************************************************************)
(* No failure is counted twice.  Each failed submission lets its flush     *)
(* count once on each of its receipts, and what a receipt may be counted   *)
(* up to is the failures so far less the counts that flushes have still to *)
(* make.  Every retry count there is respects that budget: the one in the  *)
(* table, those in the copies that are written back over it, and the one   *)
(* markRetry read before it counted.                                       *)
(***************************************************************************)
Counting(f, r) ==
    \E i \in 1..Len(flush[f].batch) :
        /\ flush[f].batch[i].id = r
        /\ \/ flush[f].pc \in {"retry", "giveup", "mark"} /\ flush[f].i <= i
           \/ flush[f].pc = "write" /\ flush[f].i < i

Uncounted(r) == {f \in Flushes : Counting(f, r)}

Budget == [r \in Receipts |-> failed[r] - Cardinality(Uncounted(r))]

CountInv ==
    /\ \A r \in Receipts : table[r].retry <= Budget[r]
    /\ \A f \in Flushes : \A i \in 1..Len(flush[f].batch) :
          flush[f].batch[i].row.retry <= Budget[flush[f].batch[i].id]
    /\ \A f \in Flushes :
          /\ flush[f].pc \in {"giveup", "mark"} => flush[f].found.retry <= Budget[Nonce(f)]
          /\ flush[f].pc = "write" => flush[f].found.retry + 1 <= Budget[Nonce(f)]
          /\ flush[f].pc = "giveup" => flush[f].found.retry >= MaxRetry

\* The flushes are finitely many, so the counts to come are a number.
LEMMA UncountedFinite ==
    ASSUME TypeOK, NEW r \in Receipts
    PROVE  /\ IsFiniteSet(Uncounted(r)) /\ Cardinality(Uncounted(r)) \in Nat
           /\ failed[r] \in Nat /\ Budget[r] = failed[r] - Cardinality(Uncounted(r))
           /\ Budget[r] \in Int /\ Budget[r] <= failed[r]
<1>1. IsFiniteSet(Uncounted(r))
  <2>1. Uncounted(r) \subseteq Flushes /\ IsFiniteSet(Flushes)
    BY ReceiptsAssumption DEF Uncounted
  <2> QED
    BY <2>1, FS_Subset
<1>2. Cardinality(Uncounted(r)) \in Nat
  BY <1>1, FS_CardinalityType
<1>3. failed[r] \in Nat
  BY DEF TypeOK
<1>4. Budget[r] = failed[r] - Cardinality(Uncounted(r))
  BY DEF Budget
<1> HIDE DEF Uncounted
<1> QED
  BY <1>1, <1>2, <1>3, <1>4

\* Counts are made or given up, and new ones come with a failure.
LEMMA CountingStep ==
    ASSUME TypeOK, BatchInv, [Next]_vars, NEW r \in Receipts
    PROVE  \/ failed'[r] = failed[r] /\ Uncounted(r)' \subseteq Uncounted(r)
           \/ /\ failed'[r] = failed[r] + 1
              /\ \E f \in Flushes : Uncounted(r)' \subseteq Uncounted(r) \cup {f}
<1> USE DEF boundVars, historyVars
<1> DEFINE Marking == {"retry", "giveup", "mark", "write"}
<1>a. ASSUME NEW f \in Flushes, Alone(f), failed' = failed, Counting(f, r)' => Counting(f, r)
      PROVE  failed'[r] = failed[r] /\ Uncounted(r)' \subseteq Uncounted(r)
  <2>1. \A g \in Flushes \ {f} : Counting(g, r)' <=> Counting(g, r)
    BY <1>a DEF Alone, Counting
  <2> QED
    BY <1>a, <2>1 DEF Uncounted
<1>b. ASSUME NEW f \in Flushes, flush'[f].pc \notin Marking PROVE ~Counting(f, r)'
  BY <1>b DEF Counting
<1>i. Idle.pc = "idle"
  BY DEF Idle
<1>1. ASSUME NEW s \in Receipts, CreateReceipt(s)
      PROVE  failed'[r] = failed[r] /\ Uncounted(r)' \subseteq Uncounted(r)
  BY <1>1 DEF CreateReceipt, Uncounted, Counting
<1>2. ASSUME NEW f \in Flushes, StartFlush(f)
      PROVE  failed'[r] = failed[r] /\ Uncounted(r)' \subseteq Uncounted(r)
  <2>1. Alone(f) /\ failed' = failed /\ flush'[f].pc = "queue"
    BY <1>2, StartOutcome DEF Alone
  <2> QED
    BY <2>1, <1>a, <1>b
<1>3. ASSUME NEW f \in Flushes, NEW acc \in 0..MaxBatch, NEW rej \in 0..MaxBatch,
             SubmitAnswers(f, acc, rej)
      PROVE  failed'[r] = failed[r] /\ Uncounted(r)' \subseteq Uncounted(r)
  <2>1. Alone(f) /\ failed' = failed /\ flush'[f].pc = "accept"
    <3>1. acc \in Nat /\ rej \in Nat
      BY ReceiptsAssumption
    <3>2. failed' = failed
      BY <1>3 DEF SubmitAnswers
    <3> QED
      BY <1>3, <3>1, <3>2, AnswerOutcome
  <2> QED
    BY <2>1, <1>a, <1>b
<1>4. ASSUME NEW f \in Flushes, MarkQueued(f) \/ MarkAccepted(f) \/ MarkRejected(f)
      PROVE  failed'[r] = failed[r] /\ Uncounted(r)' \subseteq Uncounted(r)
  <2>1. failed' = failed
    BY <1>4 DEF MarkQueued, MarkAccepted, MarkRejected
  <2>2. Alone(f) /\ flush'[f].pc \notin Marking
    <3>1. CASE MarkQueued(f)
      BY <3>1, AdvanceOutcome DEF MarkQueued, Alone
    <3>2. CASE MarkAccepted(f)
      BY <3>2, <1>i, AcceptOutcome
    <3>3. CASE MarkRejected(f)
      BY <3>3, <1>i, AdvanceOutcome DEF MarkRejected, Alone
    <3> QED
      BY <1>4, <3>1, <3>2, <3>3
  <2> QED
    BY <2>1, <2>2, <1>a, <1>b
<1>5. ASSUME NEW f \in Flushes, MarkRetryReads(f)
      PROVE  failed'[r] = failed[r] /\ Uncounted(r)' \subseteq Uncounted(r)
  <2>1. /\ Alone(f) /\ flush'[f].batch = flush[f].batch /\ flush'[f].i = flush[f].i
        /\ flush'[f].pc \in {"giveup", "mark"} /\ flush[f].pc = "retry" /\ failed' = failed
    BY <1>5, ReadsOutcome DEF SameBatch, MarkRetryReads
  <2>2. Counting(f, r)' => Counting(f, r)
    BY <2>1 DEF Counting
  <2> QED
    BY <2>1, <2>2, <1>a
<1>6. ASSUME NEW f \in Flushes, MarkRetryGivesUp(f) \/ MarkRetryWrites(f)
      PROVE  failed'[r] = failed[r] /\ Uncounted(r)' \subseteq Uncounted(r)
  <2>1. /\ flush[f].pc \in {"giveup", "write"} /\ Advance(f, Len(flush[f].batch), "idle")
        /\ failed' = failed
    BY <1>6 DEF MarkRetryGivesUp, MarkRetryWrites
  <2>2. /\ Alone(f)
        /\ \/ flush'[f] = Idle
           \/ /\ flush'[f].pc = "retry" /\ flush'[f].i = flush[f].i + 1
              /\ flush'[f].batch = flush[f].batch
    BY <2>1, AdvanceOutcome DEF Alone
  <2>3. Counting(f, r)' => Counting(f, r)
    <3>1. CASE flush'[f] = Idle
      BY <3>1, <1>i, <1>b
    <3>2. CASE /\ flush'[f].pc = "retry" /\ flush'[f].i = flush[f].i + 1
               /\ flush'[f].batch = flush[f].batch
      BY <2>1, <3>2, FrameTypes DEF Counting
    <3> QED
      BY <2>2, <3>1, <3>2
  <2> QED
    BY <2>1, <2>2, <2>3, <1>a
<1>7. ASSUME NEW f \in Flushes, MarkRetryUpdates(f)
      PROVE  failed'[r] = failed[r] /\ Uncounted(r)' \subseteq Uncounted(r)
  <2>1. /\ Alone(f) /\ flush'[f].batch = flush[f].batch /\ flush'[f].i = flush[f].i
        /\ flush'[f].pc = "write" /\ flush[f].pc = "mark" /\ failed' = failed
    BY <1>7, UpdatesOutcome DEF SameBatch, MarkRetryUpdates
  <2>2. Counting(f, r)' => Counting(f, r)
    BY <2>1, FrameTypes DEF Counting
  <2> QED
    BY <2>1, <2>2, <1>a
<1>8. ASSUME NEW cutoff, Cleanup(cutoff)
      PROVE  failed'[r] = failed[r] /\ Uncounted(r)' \subseteq Uncounted(r)
  BY <1>8 DEF Cleanup, Uncounted, Counting
<1>9. CASE Crash
  <2>1. \A f \in Flushes : flush'[f].pc = "idle"
    BY <1>9, <1>i DEF Crash
  <2> QED
    BY <1>9, <2>1 DEF Crash, Uncounted, Counting
<1>10. CASE UNCHANGED vars
  BY <1>10 DEF vars, Uncounted, Counting
<1>11. ASSUME NEW f \in Flushes, SubmitFails(f)
       PROVE  \/ failed'[r] = failed[r] /\ Uncounted(r)' \subseteq Uncounted(r)
              \/ failed'[r] = failed[r] + 1 /\ Uncounted(r)' \subseteq Uncounted(r) \cup {f}
  <2>1. /\ \A g \in Flushes \ {f} : flush'[g] = flush[g]
        /\ flush'[f].batch = flush[f].batch
    BY <1>11, FailsOutcome DEF Alone, SameBatch
  <2>2. \A g \in Flushes \ {f} : Counting(g, r)' <=> Counting(g, r)
    BY <2>1 DEF Counting
  <2>3. CASE r \in Ids(f)
    BY <1>11, <2>2, <2>3 DEF SubmitFails, Uncounted
  <2>4. CASE r \notin Ids(f)
    <3>1. ~Counting(f, r)'
      BY <2>1, <2>4, HoldsIds DEF Counting, Holds
    <3> QED
      BY <1>11, <2>2, <2>4, <3>1 DEF SubmitFails, Uncounted
  <2> QED
    BY <2>3, <2>4
<1>12. ASSUME NEW f \in Flushes, DatabaseFails(f)
       PROVE  failed'[r] = failed[r] /\ Uncounted(r)' \subseteq Uncounted(r)
  <2>1. Alone(f) /\ failed' = failed
    BY <1>12, DatabaseOutcome
  <2>2. CASE flush'[f].pc \notin Marking
    BY <2>1, <2>2, <1>a, <1>b
  <2>3. CASE flush'[f].pc \in Marking
    <3>1. /\ flush'[f].batch = flush[f].batch
          /\ \/ flush[f].pc = "retry" /\ flush'[f].pc = "mark" /\ flush'[f].i = flush[f].i
             \/ /\ flush[f].pc \in {"giveup", "mark", "write"} /\ flush'[f].pc = "retry"
                /\ flush'[f].i = flush[f].i + 1
      BY <1>12, <1>i, <2>3, DatabaseOutcome DEF SameBatch
    <3>2. Counting(f, r)' => Counting(f, r)
      BY <3>1, FrameTypes DEF Counting
    <3> QED
      BY <2>1, <3>2, <1>a
  <2> QED
    BY <2>2, <2>3
<1> QED
  BY <1>1, <1>2, <1>3, <1>4, <1>5, <1>6, <1>7, <1>8, <1>9, <1>10, <1>11, <1>12 DEF Next

\* So no step lowers a budget.
LEMMA BudgetGrows ==
    ASSUME TypeOK, TypeOK', BatchInv, [Next]_vars, NEW r \in Receipts
    PROVE  Budget[r] <= Budget'[r] /\ Budget'[r] \in Int
<1> DEFINE U == Uncounted(r)
<1>1. /\ IsFiniteSet(U) /\ Cardinality(U) \in Nat /\ failed[r] \in Nat
      /\ Budget[r] = failed[r] - Cardinality(U)
  BY UncountedFinite
<1>2. /\ IsFiniteSet(U') /\ Cardinality(U') \in Nat /\ failed'[r] \in Nat
      /\ Budget'[r] = failed'[r] - Cardinality(U')
  <2>1. IsFiniteSet(U')
    <3>1. U' \subseteq Flushes /\ IsFiniteSet(Flushes)
      BY ReceiptsAssumption DEF Uncounted
    <3> QED
      BY <3>1, FS_Subset
  <2>2. Budget'[r] = failed'[r] - Cardinality(U')
    BY DEF Budget
  <2> QED
    BY <2>1, <2>2, FS_CardinalityType DEF TypeOK
<1>3. CASE failed'[r] = failed[r] /\ U' \subseteq U
  <2>1. Cardinality(U') <= Cardinality(U)
    BY <1>1, <1>3, FS_Subset
  <2> HIDE DEF U
  <2> QED
    BY <1>1, <1>2, <1>3, <2>1
<1>4. ASSUME NEW f \in Flushes, failed'[r] = failed[r] + 1, U' \subseteq U \cup {f}
      PROVE  Budget[r] <= Budget'[r] /\ Budget'[r] \in Int
  <2> HIDE DEF U
  <2>1. IsFiniteSet(U \cup {f}) /\ Cardinality(U \cup {f}) <= Cardinality(U) + 1
    BY <1>1, FS_AddElement
  <2>2. Cardinality(U') <= Cardinality(U \cup {f}) /\ Cardinality(U \cup {f}) \in Nat
    BY <1>4, <2>1, FS_Subset, FS_CardinalityType
  <2> QED
    BY <1>1, <1>2, <1>4, <2>1, <2>2
<1> QED
  BY <1>3, <1>4, CountingStep

\* A count that is made raises it by one.
LEMMA CountMade ==
    ASSUME TypeOK, TypeOK', BatchInv, NEW f \in Flushes, MarkRetryUpdates(f)
    PROVE  Budget'[Nonce(f)] = Budget[Nonce(f)] + 1 /\ Budget[Nonce(f)] \in Int
<1> DEFINE n == Nonce(f)
           U == Uncounted(n)
<1>1. /\ flush[f].pc = "mark" /\ flush[f].i \in 1..Len(flush[f].batch)
      /\ \A i, j \in 1..Len(flush[f].batch) :
            flush[f].batch[i].id = flush[f].batch[j].id => i = j
      /\ failed' = failed
  BY DEF MarkRetryUpdates, BatchInv, BatchOK, historyVars
<1>2. n \in Receipts /\ n = flush[f].batch[flush[f].i].id
  BY <1>1, FrameTypes DEF Nonce
<1> HIDE DEF n
<1>3. /\ \A g \in Flushes \ {f} : flush'[g] = flush[g]
      /\ flush'[f].batch = flush[f].batch /\ flush'[f].i = flush[f].i /\ flush'[f].pc = "write"
  BY UpdatesOutcome DEF Alone, SameBatch
<1>4. Counting(f, n)
  BY <1>1, <1>2 DEF Counting
<1> DEFINE Later(g) == \E i \in 1..Len(flush'[g].batch) :
                          /\ flush'[g].batch[i].id = n
                          /\ \/ flush'[g].pc \in {"retry", "giveup", "mark"} /\ flush'[g].i <= i
                             \/ flush'[g].pc = "write" /\ flush'[g].i < i
           W == {g \in Flushes : Later(g)}
<1>5. ~Later(f)
  BY <1>1, <1>2, <1>3, FrameTypes
<1>6. \A g \in Flushes \ {f} : Later(g) <=> Counting(g, n)
  BY <1>3 DEF Counting
<1>7. W = U \ {f} /\ f \in U
  BY <1>4, <1>5, <1>6 DEF Uncounted
<1>8. Budget'[n] = failed'[n] - Cardinality(W)
  BY <1>2 DEF Budget, Uncounted, Counting
<1>9. /\ IsFiniteSet(U) /\ Cardinality(U) \in Nat /\ failed[n] \in Nat
      /\ Budget[n] = failed[n] - Cardinality(U)
  BY <1>2, UncountedFinite
<1> HIDE DEF U, W
<1>10. Cardinality(W) = Cardinality(U) - 1
  BY <1>7, <1>9, FS_RemoveElement
<1>11. Budget'[n] = Budget[n] + 1 /\ Budget[n] \in Int
  BY <1>1, <1>8, <1>9, <1>10
<1> QED
  BY <1>11 DEF n

\* Every step keeps the counts within the budgets.
LEMMA CountStep ==
    ASSUME QueueInv, QueueInv', CountInv, [Next]_vars
    PROVE  CountInv'
<1> USE DEF boundVars, historyVars
<1>q. TypeOK /\ TypeOK' /\ BatchInv
  BY DEF QueueInv
<1>b. \A r \in Receipts : Budget[r] \in Int /\ Budget'[r] \in Int /\ Budget[r] <= Budget'[r]
  BY <1>q, BudgetGrows, UncountedFinite
<1>r. /\ \A r \in Receipts : table[r].retry \in Nat /\ table'[r].retry \in Nat
      /\ \A f \in Flushes : flush[f].found.retry \in Nat
      /\ \A f \in Flushes : \A i \in 1..Len(flush[f].batch) :
            flush[f].batch[i].row.retry \in Nat /\ flush[f].batch[i].id \in Receipts
  BY <1>q, FrameTypes DEF TypeOK, Rows
<1>n. \A f \in Flushes : flush[f].pc \in {"queue", "giveup", "mark", "write", "retry"} =>
         Nonce(f) \in Receipts
  BY <1>q, FrameTypes DEF BatchInv, BatchOK, Nonce
<1>i. Len(Idle.batch) = 0 /\ Idle.pc = "idle" /\ Absent.retry = 0
  BY DEF Idle, Absent
\* What a step leaves alone stays within its budget.
<1>o. ASSUME NEW f \in Flushes, Alone(f),
             \A r \in Receipts : table'[r].retry <= Budget'[r],
             flush'[f] = Idle \/ SameBatch(f),
             flush'[f].pc \in {"giveup", "mark"} => flush'[f].found.retry <= Budget'[Nonce(f)'],
             flush'[f].pc = "write" => flush'[f].found.retry + 1 <= Budget'[Nonce(f)'],
             flush'[f].pc = "giveup" => flush'[f].found.retry >= MaxRetry
      PROVE  CountInv'
  <2>1. \A g \in Flushes \ {f} : flush'[g] = flush[g] /\ Nonce(g)' = Nonce(g)
    BY <1>o DEF Alone, Nonce
  <2>2. \A g \in Flushes : \A i \in 1..Len(flush'[g].batch) :
           flush'[g].batch[i].row.retry <= Budget'[flush'[g].batch[i].id]
    <3>1. \A g \in Flushes : \A i \in 1..Len(flush[g].batch) :
             flush[g].batch[i].row.retry <= Budget'[flush[g].batch[i].id]
      BY <1>b, <1>r DEF CountInv
    <3> QED
      BY <1>o, <1>i, <2>1, <3>1 DEF SameBatch
  <2>3. \A g \in Flushes \ {f} :
          /\ flush[g].pc \in {"giveup", "mark"} => flush[g].found.retry <= Budget'[Nonce(g)]
          /\ flush[g].pc = "write" => flush[g].found.retry + 1 <= Budget'[Nonce(g)]
          /\ flush[g].pc = "giveup" => flush[g].found.retry >= MaxRetry
    BY <1>b, <1>r, <1>n DEF CountInv
  <2>4. \A g \in Flushes :
          /\ flush'[g].pc \in {"giveup", "mark"} => flush'[g].found.retry <= Budget'[Nonce(g)']
          /\ flush'[g].pc = "write" => flush'[g].found.retry + 1 <= Budget'[Nonce(g)']
          /\ flush'[g].pc = "giveup" => flush'[g].found.retry >= MaxRetry
    BY <1>o, <2>1, <2>3
  <2> QED
    BY <1>o, <2>2, <2>4 DEF CountInv
<1>u. \A r \in Receipts : table'[r].retry \in {0, table[r].retry} => table'[r].retry <= Budget'[r]
  BY <1>b, <1>r DEF CountInv
\* The steps that leave the flushes alone.
<1>f. ASSUME flush' = flush, \A r \in Receipts : table'[r].retry \in {0, table[r].retry}
      PROVE  CountInv'
  <2>1. \A r \in Receipts : table'[r].retry <= Budget'[r]
    BY <1>f, <1>u
  <2>2. \A g \in Flushes : \A i \in 1..Len(flush[g].batch) :
           flush[g].batch[i].row.retry <= Budget'[flush[g].batch[i].id]
    BY <1>b, <1>r DEF CountInv
  <2>3. \A g \in Flushes :
          /\ flush[g].pc \in {"giveup", "mark"} => flush[g].found.retry <= Budget'[Nonce(g)]
          /\ flush[g].pc = "write" => flush[g].found.retry + 1 <= Budget'[Nonce(g)]
          /\ flush[g].pc = "giveup" => flush[g].found.retry >= MaxRetry
    BY <1>b, <1>r, <1>n DEF CountInv
  <2>4. \A g \in Flushes : Nonce(g)' = Nonce(g)
    BY <1>f DEF Nonce
  <2> QED
    BY <1>f, <2>1, <2>2, <2>3, <2>4 DEF CountInv
<1>1. ASSUME NEW s \in Receipts, CreateReceipt(s) PROVE CountInv'
  <2>1. \A r \in Receipts : table'[r].retry \in {0, table[r].retry}
    BY <1>1, <1>q DEF CreateReceipt, TypeOK
  <2> QED
    BY <1>1, <1>f, <2>1 DEF CreateReceipt
<1>2. ASSUME NEW f \in Flushes, StartFlush(f) PROVE CountInv'
  <2>1. /\ \A g \in Flushes \ {f} : flush'[g] = flush[g]
        /\ flush'[f].pc = "queue" /\ table' = table
        /\ \A i \in 1..Len(flush'[f].batch) :
              /\ flush'[f].batch[i].id \in Receipts
              /\ flush'[f].batch[i].row = table[flush'[f].batch[i].id]
    BY <1>2, <1>q, StartOutcome
  <2>2. \A r \in Receipts : table[r].retry <= Budget'[r]
    BY <1>b, <1>r DEF CountInv
  <2>3. \A g \in Flushes : \A i \in 1..Len(flush'[g].batch) :
           flush'[g].batch[i].row.retry <= Budget'[flush'[g].batch[i].id]
    <3>1. \A g \in Flushes : \A i \in 1..Len(flush[g].batch) :
             flush[g].batch[i].row.retry <= Budget'[flush[g].batch[i].id]
      BY <1>b, <1>r DEF CountInv
    <3> QED
      BY <2>1, <2>2, <3>1
  <2>4. \A g \in Flushes \ {f} :
          /\ flush[g].pc \in {"giveup", "mark"} => flush[g].found.retry <= Budget'[Nonce(g)]
          /\ flush[g].pc = "write" => flush[g].found.retry + 1 <= Budget'[Nonce(g)]
          /\ flush[g].pc = "giveup" => flush[g].found.retry >= MaxRetry
    BY <1>b, <1>r, <1>n DEF CountInv
  <2>5. \A g \in Flushes \ {f} : Nonce(g)' = Nonce(g)
    BY <2>1 DEF Nonce
  <2> QED
    BY <2>1, <2>2, <2>3, <2>4, <2>5 DEF CountInv
<1>3. ASSUME NEW f \in Flushes, MarkQueued(f) PROVE CountInv'
  <2>1. flush[f].pc = "queue" /\ flush[f].i \in 1..Len(flush[f].batch)
    BY <1>3, <1>q DEF MarkQueued, BatchInv, BatchOK
  <2>2. table'[Nonce(f)].retry <= Budget'[Nonce(f)]
    <3>1. flush[f].batch[flush[f].i].row.retry <= Budget[Nonce(f)]
      BY <2>1 DEF CountInv, Nonce
    <3>2. table'[Nonce(f)].retry = flush[f].batch[flush[f].i].row.retry /\ Nonce(f) \in Receipts
      BY <1>3, <1>q, QueuedRow
    <3>3. flush[f].batch[flush[f].i].row.retry \in Nat
      BY <2>1, <1>r
    <3> QED
      BY <3>1, <3>2, <3>3, <1>b
  <2>3. \A r \in Receipts : table'[r].retry <= Budget'[r]
    BY <1>3, <1>q, <1>u, <2>2, QueuedRow
  <2>4. Alone(f) /\ flush'[f].pc \in {"queue", "post"} /\ SameBatch(f)
    BY <1>3, <1>q, <2>1, AdvanceOutcome DEF MarkQueued, Alone, SameBatch
  <2> QED
    BY <1>o, <2>3, <2>4
<1>4. ASSUME NEW f \in Flushes, NEW acc \in 0..MaxBatch, NEW rej \in 0..MaxBatch,
             SubmitAnswers(f, acc, rej)
      PROVE  CountInv'
  <2>1. acc \in Nat /\ rej \in Nat
    BY ReceiptsAssumption
  <2>2. Alone(f) /\ SameBatch(f) /\ flush'[f].pc = "accept"
    BY <1>4, <1>q, <2>1, AnswerOutcome
  <2>3. table' = table
    BY <1>4 DEF SubmitAnswers
  <2> QED
    BY <1>o, <1>u, <2>2, <2>3
<1>5. ASSUME NEW f \in Flushes, SubmitFails(f) PROVE CountInv'
  <2>1. Alone(f) /\ SameBatch(f) /\ flush'[f].pc = "retry"
    BY <1>5, <1>q, FailsOutcome
  <2>2. table' = table
    BY <1>5 DEF SubmitFails
  <2> QED
    BY <1>o, <1>u, <2>1, <2>2
<1>6. ASSUME NEW f \in Flushes, MarkAccepted(f) PROVE CountInv'
  <2>1. Alone(f) /\ (flush'[f] = Idle \/ SameBatch(f)) /\ flush'[f].pc \in {"idle", "reject"}
    BY <1>6, <1>q, <1>i, AcceptOutcome
  <2>2. \A r \in Receipts : table'[r].retry = table[r].retry
    BY <1>6, <1>q, AcceptedRows
  <2> QED
    BY <1>o, <1>u, <2>1, <2>2
<1>7. ASSUME NEW f \in Flushes, MarkRejected(f) \/ MarkRetryGivesUp(f) PROVE CountInv'
  <2>1. Rejected(Nonce(f)) /\ flush[f].pc \in {"reject", "giveup"}
    BY <1>7 DEF MarkRejected, MarkRetryGivesUp
  <2>2. flush[f].i \in 1..Len(flush[f].batch)
    BY <2>1, <1>q, FrameTypes DEF BatchInv, BatchOK
  <2>3. Nonce(f) \in Receipts
    BY <2>2, <1>q, FrameTypes DEF Nonce
  <2>4. \A r \in Receipts : table'[r].retry = table[r].retry
    BY <1>q, <2>1, <2>3, RejectedRow
  <2>5. \E last : Advance(f, last, "idle")
    BY <1>7 DEF MarkRejected, MarkRetryGivesUp
  <2>6. /\ Alone(f) /\ (flush'[f] = Idle \/ SameBatch(f))
        /\ flush'[f].pc \in {"idle", "reject", "retry"}
    BY <1>q, <1>i, <2>1, <2>5, AdvanceOutcome DEF Alone, SameBatch
  <2> QED
    BY <1>o, <1>u, <2>4, <2>6
<1>8. ASSUME NEW f \in Flushes, MarkRetryReads(f) PROVE CountInv'
  <2>1. /\ Alone(f) /\ SameBatch(f) /\ flush'[f].i = flush[f].i
        /\ flush'[f].pc \in {"giveup", "mark"}
        /\ flush'[f].found \in {table[Nonce(f)], Absent}
        /\ flush'[f].pc = "giveup" => flush'[f].found.retry >= MaxRetry
    BY <1>8, <1>q, ReadsOutcome
  <2>2. table' = table /\ flush[f].pc = "retry"
    BY <1>8 DEF MarkRetryReads
  <2>3. Nonce(f)' = Nonce(f) /\ Nonce(f) \in Receipts
    BY <2>1, <2>2, <1>n DEF Nonce, SameBatch
  <2>4. flush'[f].found.retry \in {table'[Nonce(f)].retry, 0}
    BY <2>1, <2>2, <1>i
  <2>5. table'[Nonce(f)].retry <= Budget'[Nonce(f)] /\ 0 <= Budget'[Nonce(f)]
    <3>1. table'[Nonce(f)].retry <= Budget'[Nonce(f)]
      BY <1>u, <2>2, <2>3
    <3>2. table'[Nonce(f)].retry \in Nat /\ Budget'[Nonce(f)] \in Int
      BY <1>r, <1>b, <2>3
    <3> QED
      BY <3>1, <3>2
  <2>6. flush'[f].found.retry <= Budget'[Nonce(f)']
    BY <2>3, <2>4, <2>5
  <2>7. \A r \in Receipts : table'[r].retry <= Budget'[r]
    BY <1>u, <2>2
  <2> QED
    BY <1>o, <2>1, <2>6, <2>7
<1>9. ASSUME NEW f \in Flushes, MarkRetryUpdates(f) PROVE CountInv'
  <2>1. /\ Alone(f) /\ SameBatch(f) /\ flush'[f].i = flush[f].i
        /\ flush'[f].pc = "write" /\ flush'[f].found = flush[f].found
    BY <1>9, <1>q, UpdatesOutcome
  <2>2. flush[f].pc = "mark"
    BY <1>9 DEF MarkRetryUpdates
  <2>3. Nonce(f)' = Nonce(f) /\ Nonce(f) \in Receipts
    BY <2>1, <2>2, <1>n DEF Nonce, SameBatch
  <2>4. Budget'[Nonce(f)] = Budget[Nonce(f)] + 1 /\ Budget[Nonce(f)] \in Int
    BY <1>9, <1>q, CountMade
  <2>5. flush'[f].found.retry + 1 <= Budget'[Nonce(f)']
    <3>1. flush[f].found.retry <= Budget[Nonce(f)] /\ flush[f].found.retry \in Nat
      BY <2>2, <1>r DEF CountInv
    <3> QED
      BY <2>1, <2>3, <2>4, <3>1
  <2>6. table'[Nonce(f)].retry <= Budget'[Nonce(f)]
    <3>1. table'[Nonce(f)].retry \in {table[Nonce(f)].retry, table[Nonce(f)].retry + 1}
      BY <1>9, <1>q, UpdatedRow
    <3>2. table[Nonce(f)].retry <= Budget[Nonce(f)] /\ table[Nonce(f)].retry \in Nat
      BY <2>3, <1>r DEF CountInv
    <3> QED
      BY <2>4, <3>1, <3>2
  <2>7. \A r \in Receipts : table'[r].retry <= Budget'[r]
    BY <1>9, <1>q, <1>u, <2>6, UpdatedRow
  <2> QED
    BY <1>o, <2>1, <2>5, <2>7
<1>10. ASSUME NEW f \in Flushes, MarkRetryWrites(f) PROVE CountInv'
  <2>1. flush[f].pc = "write" /\ Advance(f, Len(flush[f].batch), "idle")
    BY <1>10 DEF MarkRetryWrites
  <2>2. table'[Nonce(f)].retry <= Budget'[Nonce(f)]
    <3>1. flush[f].found.retry + 1 <= Budget[Nonce(f)] /\ flush[f].found.retry \in Nat
      BY <2>1, <1>r DEF CountInv
    <3>2. table'[Nonce(f)].retry = flush[f].found.retry + 1 /\ Nonce(f) \in Receipts
      BY <1>10, <1>q, WrittenRow
    <3> QED
      BY <3>1, <3>2, <1>b
  <2>3. \A r \in Receipts : table'[r].retry <= Budget'[r]
    BY <1>10, <1>q, <1>u, <2>2, WrittenRow
  <2>4. /\ Alone(f) /\ (flush'[f] = Idle \/ SameBatch(f)) /\ flush'[f].pc \in {"idle", "retry"}
    BY <1>q, <1>i, <2>1, AdvanceOutcome DEF Alone, SameBatch
  <2> QED
    BY <1>o, <2>3, <2>4
<1>11. ASSUME NEW cutoff, Cleanup(cutoff) PROVE CountInv'
  <2>1. \A r \in Receipts : table'[r].retry \in {0, table[r].retry}
    BY <1>11, <1>q, <1>i, CleanedRows
  <2> QED
    BY <1>11, <1>f, <2>1 DEF Cleanup
<1>12. CASE Crash
  <2>1. table' = table /\ \A f \in Flushes : flush'[f] = Idle
    BY <1>12 DEF Crash
  <2>2. \A r \in Receipts : table'[r].retry <= Budget'[r]
    BY <1>u, <2>1
  <2> QED
    BY <1>i, <2>1, <2>2 DEF CountInv
<1>13. CASE UNCHANGED vars
  BY <1>13, <1>f DEF vars
<1>14. ASSUME NEW f \in Flushes, DatabaseFails(f) PROVE CountInv'
  <2>1. Alone(f) /\ table' = table
    BY <1>14, <1>q, DatabaseOutcome
  <2>2. \A r \in Receipts : table'[r].retry <= Budget'[r]
    BY <1>u, <2>1
  <2>3. CASE flush'[f].pc = "mark"
    <3>1. /\ SameBatch(f) /\ flush[f].pc = "retry" /\ flush'[f].i = flush[f].i
          /\ flush'[f].found = Absent
      BY <1>14, <1>q, <1>i, <2>3, DatabaseOutcome
    <3>2. Nonce(f)' = Nonce(f) /\ Nonce(f) \in Receipts
      BY <3>1, <1>n DEF Nonce, SameBatch
    <3>3. 0 <= Budget'[Nonce(f)]
      <4>1. table'[Nonce(f)].retry <= Budget'[Nonce(f)]
        BY <2>2, <3>2
      <4>2. table'[Nonce(f)].retry \in Nat /\ Budget'[Nonce(f)] \in Int
        BY <1>r, <1>b, <2>1, <3>2
      <4> QED
        BY <4>1, <4>2
    <3>4. flush'[f].found.retry <= Budget'[Nonce(f)']
      BY <1>i, <3>1, <3>2, <3>3
    <3> QED
      BY <1>o, <2>1, <2>2, <2>3, <3>1, <3>4
  <2>4. CASE flush'[f].pc # "mark"
    <3>1. /\ flush'[f] = Idle \/ SameBatch(f)
          /\ flush'[f].pc \in {"idle", "reject", "retry"}
      BY <1>14, <1>q, <1>i, <2>4, DatabaseOutcome
    <3> QED
      BY <1>o, <2>1, <2>2, <3>1
  <2> QED
    BY <2>3, <2>4
<1> QED
  BY <1>1, <1>2, <1>3, <1>4, <1>5, <1>6, <1>7, <1>8, <1>9, <1>10, <1>11, <1>12, <1>13, <1>14 DEF Next

\* markRetry gives up at a count that as many failures and one more made.
LEMMA GivenUpStep ==
    ASSUME QueueInv, CountInv, NotGivenUpEarly, [Next]_vars
    PROVE  NotGivenUpEarly'
<1> USE DEF boundVars, historyVars
<1>q. TypeOK /\ BatchInv /\ AnswerInv /\ MaxRetry \in Nat
  BY ReceiptsAssumption DEF QueueInv
<1>f. failed \in [Receipts -> Nat]
  BY <1>q DEF TypeOK
<1>k. ASSUME refused \subseteq refused', \A r \in Receipts : failed'[r] \in {failed[r], failed[r] + 1},
             \A r \in Receipts : table'[r].st = "REJECTED" =>
                \/ table[r].st = "REJECTED" \/ r \in refused \/ failed[r] > MaxRetry
      PROVE  NotGivenUpEarly'
  BY <1>k, <1>q, <1>f DEF NotGivenUpEarly
<1>1. ASSUME NEW s \in Receipts, CreateReceipt(s) PROVE NotGivenUpEarly'
  <2>1. \A r \in Receipts : table'[r] = table[r] \/ table'[r].st = "CREATED"
    BY <1>1, <1>q DEF CreateReceipt, TypeOK
  <2> QED
    BY <1>1, <1>k, <2>1 DEF CreateReceipt
<1>2. ASSUME NEW f \in Flushes, StartFlush(f) PROVE NotGivenUpEarly'
  BY <1>2, <1>q, <1>k, StartOutcome
<1>3. ASSUME NEW f \in Flushes, MarkQueued(f) PROVE NotGivenUpEarly'
  <2>1. UNCHANGED <<refused, failed>>
    BY <1>3 DEF MarkQueued
  <2>2. \A r \in Receipts : table'[r] = table[r] \/ table'[r].st = "QUEUED"
    BY <1>3, <1>q, QueuedRow
  <2> QED
    BY <2>1, <2>2, <1>k
<1>4. ASSUME NEW f \in Flushes, NEW acc, NEW rej, SubmitAnswers(f, acc, rej) PROVE NotGivenUpEarly'
  BY <1>4, <1>k DEF SubmitAnswers
<1>5. ASSUME NEW f \in Flushes, SubmitFails(f) PROVE NotGivenUpEarly'
  BY <1>5, <1>k DEF SubmitFails
<1>6. ASSUME NEW f \in Flushes, MarkAccepted(f) PROVE NotGivenUpEarly'
  <2>1. UNCHANGED <<refused, failed>>
    BY <1>6 DEF MarkAccepted
  <2>2. \A r \in Receipts : table'[r] = table[r] \/ table'[r].st = "ACCEPTED"
    BY <1>6, <1>q, AcceptedRows
  <2> QED
    BY <2>1, <2>2, <1>k
<1>7. ASSUME NEW f \in Flushes, MarkRejected(f) PROVE NotGivenUpEarly'
  <2>1. UNCHANGED <<refused, failed>> /\ flush[f].pc = "reject" /\ Rejected(Nonce(f))
    BY <1>7 DEF MarkRejected
  <2>2. Nonce(f) \in refused
    BY <1>q, <2>1 DEF AnswerInv, BatchInv, BatchOK, Nonce
  <2>3. Nonce(f) \in Receipts
    BY <1>q, <2>2 DEF TypeOK
  <2>4. \A r \in Receipts \ {Nonce(f)} : table'[r] = table[r]
    BY <1>q, <2>1, <2>3, RejectedRow
  <2> QED
    BY <2>1, <2>2, <2>4, <1>k
<1>8. ASSUME NEW f \in Flushes, MarkRetryReads(f) PROVE NotGivenUpEarly'
  BY <1>8, <1>k DEF MarkRetryReads
<1>9. ASSUME NEW f \in Flushes, MarkRetryGivesUp(f) PROVE NotGivenUpEarly'
  <2> DEFINE n == Nonce(f)
             U == Uncounted(n)
  <2>1. UNCHANGED <<refused, failed>> /\ flush[f].pc = "giveup" /\ Rejected(n)
    BY <1>9 DEF MarkRetryGivesUp
  <2>2. flush[f].i \in 1..Len(flush[f].batch)
    BY <1>q, <2>1 DEF BatchInv, BatchOK
  <2>3. n \in Receipts /\ f \in U
    <3>1. n = flush[f].batch[flush[f].i].id /\ flush[f].i \in Nat
      BY <1>q, FrameTypes DEF Nonce
    <3>2. Counting(f, n)
      BY <2>1, <2>2, <3>1 DEF Counting
    <3> QED
      BY <1>q, <2>2, <3>1, <3>2, FrameTypes DEF Uncounted
  <2>4. flush[f].found.retry <= Budget[n] /\ flush[f].found.retry >= MaxRetry
    BY <2>1 DEF CountInv
  <2>5. flush[f].found.retry \in Nat
    BY <1>q, FrameTypes DEF Rows
  <2>6. /\ IsFiniteSet(U) /\ Cardinality(U) \in Nat /\ failed[n] \in Nat
        /\ Budget[n] = failed[n] - Cardinality(U)
    BY <1>q, <2>3, UncountedFinite
  <2>7. \A r \in Receipts \ {n} : table'[r] = table[r]
    BY <1>q, <2>1, <2>3, RejectedRow
  <2> HIDE DEF n, U
  <2>8. Cardinality(U) # 0
    BY <2>3, <2>6, FS_EmptySet
  <2>9. failed[n] > MaxRetry
    BY <1>q, <2>4, <2>5, <2>6, <2>8
  <2> QED
    BY <2>1, <2>7, <2>9, <1>k
<1>10. ASSUME NEW f \in Flushes, MarkRetryUpdates(f) PROVE NotGivenUpEarly'
  <2>1. UNCHANGED <<refused, failed>>
    BY <1>10 DEF MarkRetryUpdates
  <2>2. \A r \in Receipts : table'[r] = table[r] \/ table'[r].st = "RETRY_WAIT"
    BY <1>10, <1>q, UpdatedRow
  <2> QED
    BY <2>1, <2>2, <1>k
<1>11. ASSUME NEW f \in Flushes, MarkRetryWrites(f) PROVE NotGivenUpEarly'
  <2>1. UNCHANGED <<refused, failed>>
    BY <1>11 DEF MarkRetryWrites
  <2>2. \A r \in Receipts : table'[r] = table[r] \/ table'[r].st = "RETRY_WAIT"
    BY <1>11, <1>q, WrittenRow
  <2> QED
    BY <2>1, <2>2, <1>k
<1>12. ASSUME NEW cutoff, Cleanup(cutoff) PROVE NotGivenUpEarly'
  <2>1. UNCHANGED <<refused, failed>> /\ Absent.st = "none"
    BY <1>12 DEF Cleanup, Absent
  <2>2. \A r \in Receipts : table'[r] = table[r] \/ table'[r] = Absent
    BY <1>12, <1>q, CleanedRows
  <2> QED
    BY <2>1, <2>2, <1>k
<1>13. CASE Crash \/ UNCHANGED vars
  BY <1>13, <1>k DEF Crash, vars
<1>14. ASSUME NEW f \in Flushes, DatabaseFails(f) PROVE NotGivenUpEarly'
  BY <1>14, <1>q, <1>k, DatabaseOutcome
<1> QED
  BY <1>1, <1>2, <1>3, <1>4, <1>5, <1>6, <1>7, <1>8, <1>9, <1>10, <1>11, <1>12, <1>13, <1>14 DEF Next

\* ReceiptStore.markRetry reads a row, counts on it and writes the copy back,
\* in three database calls that other flushes interleave: still, a receipt is
\* rejected only if the node refused it or more than MAX_RETRY_COUNT of its
\* submissions failed.
THEOREM ReceiptsAreNotGivenUpEarly == Spec => []NotGivenUpEarly
<1> DEFINE IInv == QueueInv /\ CountInv /\ NotGivenUpEarly
<1>1. Init => IInv
  <2> SUFFICES ASSUME Init PROVE IInv
    OBVIOUS
  <2>1. QueueInv
    BY QueueInit
  <2>2. /\ \A f \in Flushes : Len(flush[f].batch) = 0 /\ flush[f].pc = "idle"
        /\ \A r \in Receipts : table[r].retry = 0 /\ table[r].st = "none" /\ failed[r] = 0
    BY DEF Init, Idle, Absent
  <2>3. \A r \in Receipts : Uncounted(r) = {}
    BY <2>2 DEF Uncounted, Counting
  <2>4. \A r \in Receipts : Budget[r] = 0
    <3> TAKE r \in Receipts
    <3>1. Cardinality({}) = 0
      BY FS_EmptySet
    <3>2. Budget[r] = failed[r] - Cardinality(Uncounted(r))
      BY DEF Budget
    <3>3. Cardinality(Uncounted(r)) = 0
      <4>1. Uncounted(r) = {}
        BY <2>3
      <4> QED
        BY <3>1, <4>1
    <3>4. failed[r] = 0
      BY <2>2
    <3> QED
      BY <3>2, <3>3, <3>4
  <2>5. CountInv
    BY <2>2, <2>4 DEF CountInv
  <2>6. NotGivenUpEarly
    BY <2>2 DEF NotGivenUpEarly
  <2> QED
    BY <2>1, <2>5, <2>6
<1>2. IInv /\ [Next]_vars => IInv'
  BY QueueStep, CountStep, GivenUpStep
<1>3. IInv => NotGivenUpEarly
  OBVIOUS
<1> QED
  BY <1>1, <1>2, <1>3, PTL DEF Spec
=============================================================================
