------------------------- MODULE PoUWControllerProofs -------------------------
(***************************************************************************)
(* Proofs about PoUWController, for any screens, page loads, batch size    *)
(* and policies: the type invariant, that a running controller has a timer *)
(* (RunningMeansTimed), that a receipt's type is one its challenge allows  *)
(* (PolicyAllowsReceipt), and that a receipt is in one place (InOnePlace). *)
(***************************************************************************)
EXTENDS PoUWController, FiniteSetTheorems, TLAPS

(***************************************************************************)
(* A batch is the front of the queue and the rest stays.                   *)
(***************************************************************************)
\* The receipts of a queue or a batch, and that it holds none of them twice.
Ids(q) == {q[i].id : i \in DOMAIN q}
Distinct(q) == \A i, j \in DOMAIN q : q[i].id = q[j].id => i = j

\* splice takes at least one receipt and at most maxBatchSize off the front,
\* and neither half makes a receipt up.
LEMMA SpliceElements ==
    ASSUME NEW q \in Seq(Drafts), q # <<>>
    PROVE  /\ Take(q) \in Batches /\ Rest(q) \in Seq(Drafts)
           /\ Len(Take(q)) \in 1..Len(q)
           /\ Len(Rest(q)) = Len(q) - Len(Take(q))
           /\ \A i \in 1..Len(Take(q)) : Take(q)[i] = q[i]
           /\ \A i \in 1..Len(Rest(q)) : Rest(q)[i] = q[i + Len(Take(q))]
<1> DEFINE n == IF Len(q) < MaxBatch THEN Len(q) ELSE MaxBatch
<1>1. n \in 1..Len(q) /\ n <= MaxBatch /\ n \in Nat /\ Len(q) \in Nat
  BY ControllerAssumption
<1>2. Take(q) = SubSeq(q, 1, n)
  BY DEF Take
<1>3. Len(Take(q)) = n /\ Take(q) \in Seq(Drafts)
  BY <1>1, <1>2
<1>4. \A i \in 1..n : Take(q)[i] = q[i]
  BY <1>1, <1>2
<1>5. Rest(q) = SubSeq(q, n + 1, Len(q))
  BY <1>3 DEF Rest
<1>6. Len(Rest(q)) = Len(q) - n /\ Rest(q) \in Seq(Drafts)
  BY <1>1, <1>5
<1>7. \A i \in 1..(Len(q) - n) : Rest(q)[i] = q[i + n]
  BY <1>1, <1>5
<1> QED
  BY <1>1, <1>3, <1>4, <1>6, <1>7, ControllerAssumption DEF Batches

\* The two halves of a queue without repetitions have none and share none.
LEMMA Splice ==
    ASSUME NEW q \in Seq(Drafts), q # <<>>
    PROVE  /\ Ids(Take(q)) \subseteq Ids(q) /\ Ids(Rest(q)) \subseteq Ids(q)
           /\ Range(Take(q)) \subseteq Range(q) /\ Range(Rest(q)) \subseteq Range(q)
           /\ Distinct(q) => /\ Distinct(Take(q)) /\ Distinct(Rest(q))
                             /\ Ids(Take(q)) \cap Ids(Rest(q)) = {}
<1> DEFINE t == Take(q)
           r == Rest(q)
<1>1. /\ t \in Seq(Drafts) /\ r \in Seq(Drafts)
      /\ Len(t) \in 1..Len(q) /\ Len(r) = Len(q) - Len(t)
      /\ \A i \in 1..Len(t) : t[i] = q[i]
      /\ \A i \in 1..Len(r) : r[i] = q[i + Len(t)]
  BY SpliceElements DEF Batches
<1> HIDE DEF t, r
<1>2. \A i \in DOMAIN t : i \in DOMAIN q /\ t[i] = q[i]
  BY <1>1, SMTT(30)
<1>3. \A i \in DOMAIN r : i + Len(t) \in DOMAIN q /\ r[i] = q[i + Len(t)]
  BY <1>1, SMTT(30)
<1>4. Ids(t) \subseteq Ids(q) /\ Ids(r) \subseteq Ids(q)
  BY <1>2, <1>3 DEF Ids
<1>5. Range(t) \subseteq Range(q) /\ Range(r) \subseteq Range(q)
  BY <1>2, <1>3 DEF Range
<1>6. ASSUME Distinct(q)
      PROVE  Distinct(t) /\ Distinct(r)
  <2>1. Distinct(t)
    BY <1>2, <1>6 DEF Distinct
  <2>2. ASSUME NEW i \in DOMAIN r, NEW j \in DOMAIN r, r[i].id = r[j].id
        PROVE  i = j
    <3>1. i + Len(t) = j + Len(t)
      BY <1>3, <1>6, <2>2 DEF Distinct
    <3> QED
      BY <3>1, <1>1
  <2> QED
    BY <2>1, <2>2 DEF Distinct
<1>7. ASSUME Distinct(q)
      PROVE  Ids(t) \cap Ids(r) = {}
  <2>1. ASSUME NEW i \in DOMAIN t, NEW j \in DOMAIN r, t[i].id = r[j].id
        PROVE  FALSE
    <3>1. i = j + Len(t)
      BY <1>2, <1>3, <1>7, <2>1 DEF Distinct
    <3>2. i \in 1..Len(t) /\ j \in 1..Len(r) /\ Len(t) \in Nat /\ Len(r) \in Nat
      BY <1>1, <2>1
    <3> QED
      BY <3>1, <3>2
  <2> QED
    BY <2>1 DEF Ids
<1> QED
  BY <1>4, <1>5, <1>6, <1>7 DEF t, r

\* unshift: a failed batch in front of the queue.
LEMMA Unshift ==
    ASSUME NEW b \in Seq(Drafts), NEW q \in Seq(Drafts)
    PROVE  /\ b \o q \in Seq(Drafts)
           /\ Ids(b \o q) \subseteq Ids(b) \cup Ids(q)
           /\ Range(b \o q) \subseteq Range(b) \cup Range(q)
           /\ Distinct(b) /\ Distinct(q) /\ Ids(b) \cap Ids(q) = {} => Distinct(b \o q)
<1> DEFINE c == b \o q
<1>1. /\ c \in Seq(Drafts) /\ Len(c) = Len(b) + Len(q)
      /\ Len(b) \in Nat /\ Len(q) \in Nat
      /\ DOMAIN c = 1..Len(c) /\ DOMAIN b = 1..Len(b) /\ DOMAIN q = 1..Len(q)
      /\ \A i \in 1..Len(c) : c[i] = IF i <= Len(b) THEN b[i] ELSE q[i - Len(b)]
  OBVIOUS
<1> HIDE DEF c
<1>2. \A i \in DOMAIN c : \/ i <= Len(b) /\ i \in DOMAIN b /\ c[i] = b[i]
                          \/ ~(i <= Len(b)) /\ i - Len(b) \in DOMAIN q /\ c[i] = q[i - Len(b)]
  BY <1>1
<1>3. Ids(c) \subseteq Ids(b) \cup Ids(q) /\ Range(c) \subseteq Range(b) \cup Range(q)
  BY <1>2 DEF Ids, Range
<1>4. ASSUME Distinct(b), Distinct(q), Ids(b) \cap Ids(q) = {},
             NEW i \in DOMAIN c, NEW j \in DOMAIN c, c[i].id = c[j].id
      PROVE  i = j
  <2>1. CASE i <= Len(b) /\ j <= Len(b)
    BY <1>2, <1>4, <2>1 DEF Distinct
  <2>2. CASE ~(i <= Len(b)) /\ ~(j <= Len(b))
    <3>1. i - Len(b) = j - Len(b)
      BY <1>2, <1>4, <2>2 DEF Distinct
    <3> QED
      BY <3>1, <1>1
  <2>3. CASE i <= Len(b) /\ ~(j <= Len(b))
    BY <1>2, <1>4, <2>3 DEF Ids
  <2>4. CASE ~(i <= Len(b)) /\ j <= Len(b)
    <3>1. c[i].id \in Ids(q) /\ c[j].id \in Ids(b)
      BY <1>2, <2>4 DEF Ids
    <3> QED
      BY <3>1, <1>4
  <2> QED
    BY <2>1, <2>2, <2>3, <2>4
<1> QED
  BY <1>1, <1>3, <1>4 DEF c, Distinct

\* push: a signed receipt at the end of the queue.
LEMMA Push ==
    ASSUME NEW q \in Seq(Drafts), NEW d \in Drafts
    PROVE  /\ Append(q, d) \in Seq(Drafts) /\ Append(q, d) # <<>>
           /\ Ids(Append(q, d)) \subseteq Ids(q) \cup {d.id}
           /\ Range(Append(q, d)) \subseteq Range(q) \cup {d}
           /\ Distinct(q) /\ d.id \notin Ids(q) => Distinct(Append(q, d))
<1> DEFINE c == Append(q, d)
<1>1. /\ c \in Seq(Drafts) /\ Len(c) = Len(q) + 1 /\ Len(q) \in Nat
      /\ DOMAIN c = 1..Len(c) /\ DOMAIN q = 1..Len(q)
      /\ c # <<>>
      /\ \A i \in 1..Len(q) : c[i] = q[i]
      /\ c[Len(q) + 1] = d
  OBVIOUS
<1> HIDE DEF c
<1>2. \A i \in DOMAIN c : \/ i \in DOMAIN q /\ c[i] = q[i]
                          \/ i = Len(q) + 1 /\ c[i] = d
  BY <1>1
<1>3. Ids(c) \subseteq Ids(q) \cup {d.id} /\ Range(c) \subseteq Range(q) \cup {d}
  BY <1>2 DEF Ids, Range
<1>4. Distinct(q) /\ d.id \notin Ids(q) => Distinct(c)
  BY <1>2 DEF Distinct, Ids
<1> QED
  BY <1>1, <1>3, <1>4 DEF c

-----------------------------------------------------------------------------
(***************************************************************************)
(* Types.                                                                  *)
(***************************************************************************)
\* What a page load does when its submitBatch returns or its receipt is
\* queued: on to the second receipt, to the flush, or to the end.
LEMMA NextRecordShape ==
    ASSUME TypeOK, NEW l \in Loads
    PROVE  /\ NextRecord(l) \in LoadStates
           /\ NextRecord(l).pc \in {"done", "record", "flush"}
           /\ NextRecord(l).k = 2
           /\ NextRecord(l).pc = "record" => load[l].k = 1
<1>1. load[l] \in LoadStates
  BY DEF TypeOK
<1> QED
  BY <1>1 DEF NextRecord, LoadStates

\* The state of the load that a caller of submitBatch goes on with.
LEMMA ContinueShape ==
    ASSUME TypeOK, NEW by, Continue(by)
    PROVE  /\ running' \in BOOLEAN
           /\ load' \in [Loads -> LoadStates]
           /\ \A l \in Loads : load'[l] = load[l] \/ load'[l] = NextRecord(l)
<1>1. running' \in BOOLEAN
  BY DEF Continue, TypeOK
<1>2. CASE by \in Loads
  <2>1. load' = [load EXCEPT ![by] = NextRecord(by)]
    BY <1>2 DEF Continue
  <2>2. NextRecord(by) \in LoadStates
    BY <1>2, NextRecordShape
  <2> QED
    BY <1>1, <2>1, <2>2 DEF TypeOK
<1>3. CASE by \notin Loads
  BY <1>1, <1>3 DEF Continue, TypeOK
<1> QED
  BY <1>2, <1>3

\* A receipt drawn up from a challenge is a receipt of this load and kind.
LEMMA DraftShape ==
    ASSUME TypeOK, NEW l \in Loads, NEW ch \in Challenges, Draft(l, ch)
    PROVE  /\ load' \in [Loads -> LoadStates]
           /\ \A m \in Loads : m # l => load'[m] = load[m]
           /\ \/ load'[l] = NextRecord(l)
              \/ /\ load'[l].pc = "sign" /\ load'[l].k = load[l].k
                 /\ load'[l].draft \in Drafts
                 /\ load'[l].draft.id = <<l, load[l].k>>
                 /\ load'[l].draft.policy = ch.types
                 /\ Kind(l) \in ch.types => load'[l].draft.type = Kind(l)
<1> DEFINE d == [id |-> <<l, load[l].k>>,
                 type |-> IF Kind(l) \in ch.types THEN Kind(l) ELSE "hash",
                 policy |-> ch.types]
           n == [load[l] EXCEPT !.pc = "sign", !.draft = d]
<1>1. load \in [Loads -> LoadStates] /\ load[l] \in LoadStates /\ load[l].k \in {1, 2}
  BY DEF TypeOK, LoadStates
<1>2. Kind(l) \in {"manifest", "content"}
  BY <1>1 DEF Kind, Kinds
<1>3. d \in Drafts
  BY <1>1, <1>2 DEF Drafts, Challenges, Receipts
<1>4. n \in LoadStates /\ n.pc = "sign" /\ n.k = load[l].k /\ n.draft = d
  BY <1>1, <1>3 DEF LoadStates
<1>5. load' = [load EXCEPT ![l] = IF ~did THEN NextRecord(l) ELSE n]
  BY DEF Draft
<1>6. NextRecord(l) \in LoadStates
  BY NextRecordShape
<1>7. d.id = <<l, load[l].k>> /\ d.policy = ch.types
      /\ (Kind(l) \in ch.types => d.type = Kind(l))
  OBVIOUS
<1> HIDE DEF d, n
<1>8. /\ load' \in [Loads -> LoadStates]
      /\ \A m \in Loads : m # l => load'[m] = load[m]
      /\ load'[l] = IF ~did THEN NextRecord(l) ELSE n
  BY <1>1, <1>4, <1>5, <1>6
<1> QED
  BY <1>3, <1>4, <1>7, <1>8

\* A submit moves the front of the queue into a request.
LEMMA SubmitShape ==
    ASSUME TypeOK, NEW q \in Seq(Drafts), q # <<>>,
           NEW by \in Screens \cup Loads \cup {None}, Submit(by, q)
    PROVE  queue' \in Seq(Drafts) /\ posts' \subseteq Posts
<1>1. Take(q) \in Batches /\ Rest(q) \in Seq(Drafts)
  BY SpliceElements
<1>2. [by |-> by, batch |-> Take(q)] \in Posts
  BY <1>1 DEF Posts
<1> QED
  BY <1>1, <1>2 DEF Submit, TypeOK

\* A load that gives up holds no receipt.
LEMMA FailsShape ==
    ASSUME TypeOK, NEW l \in Loads, Fails(l)
    PROVE  /\ load' \in [Loads -> LoadStates]
           /\ \A m \in Loads : load'[m] = load[m] \/ load'[m].pc = "done"
           /\ \A m \in Loads : load'[m].k = load[m].k
<1> DEFINE n == [load[l] EXCEPT !.pc = "done", !.draft = None]
<1>1. load \in [Loads -> LoadStates]
  BY DEF TypeOK
<1>2. n \in LoadStates /\ n.pc = "done" /\ n.k = load[l].k
  BY <1>1, ZenonT(30) DEF LoadStates
<1>3. load' = [load EXCEPT ![l] = n]
  BY DEF Fails
<1> HIDE DEF n
<1> QED
  BY <1>1, <1>2, <1>3

LEMMA TypeStep == TypeOK /\ [Next]_vars => TypeOK'
<1> SUFFICES ASSUME TypeOK, [Next]_vars PROVE TypeOK'
  OBVIOUS
<1> USE DEF TypeOK
<1>p. ASSUME NEW p \in posts, PostOk(p) \/ PostFails(p) PROVE TypeOK'
  <2>1. p \in Posts /\ p.batch \in Seq(Drafts)
    BY DEF Posts, Batches
  <2>2. Continue(p.by)
    BY <1>p DEF PostOk, PostFails
  <2>3. /\ running' \in BOOLEAN /\ load' \in [Loads -> LoadStates]
        /\ \A l \in Loads : load'[l] = load[l] \/ load'[l] = NextRecord(l)
    BY <2>2, ContinueShape
  <2>4. \A l \in Loads : load'[l].pc = "sign" => load'[l].draft \in Drafts
    BY <2>3, NextRecordShape
  <2>5. queue' \in Seq(Drafts) /\ posts' \subseteq Posts
    <3>1. p.batch \o queue \in Seq(Drafts)
      BY <2>1, Unshift
    <3> QED
      BY <1>p, <3>1 DEF PostOk, PostFails
  <2>6. \A r \in Range(p.batch) : r.id \in Receipts
    <3>1. Range(p.batch) \subseteq Drafts
      BY <2>1 DEF Range
    <3> QED
      BY <3>1 DEF Drafts
  <2>7. answered' \subseteq Receipts
    BY <1>p, <2>6 DEF PostOk, PostFails
  <2> QED
    BY <1>p, <2>3, <2>4, <2>5, <2>7 DEF PostOk, PostFails
<1>s. ASSUME NEW s \in Screens,
             Mount(s) \/ IdentityRead(s) \/ IdentityFails(s) \/ StartCapFails(s)
      PROVE  TypeOK'
  BY <1>s DEF Mount, IdentityRead, IdentityFails, StartCapFails
<1>a. ASSUME NEW s \in Screens, NEW ch \in Challenges \cup {None}, Started(s, ch)
      PROVE  TypeOK'
  BY <1>a DEF Started
<1>b. ASSUME NEW s \in Screens, Stop(s)
      PROVE  TypeOK'
  <2>1. queue' \in Seq(Drafts) /\ posts' \subseteq Posts /\ running' \in BOOLEAN
    <3>1. CASE queue # <<>> /\ did
      BY <1>b, <3>1, SubmitShape DEF Stop
    <3>2. CASE ~(queue # <<>> /\ did)
      BY <1>b, <3>2 DEF Stop
    <3> QED
      BY <3>1, <3>2
  <2> QED
    BY <1>b, <2>1 DEF Stop
<1>c. ASSUME FlushPressed \/ \E s \in Screens : Tick(s)
      PROVE  TypeOK'
  <2>1. queue' \in Seq(Drafts) /\ posts' \subseteq Posts
    BY <1>c, SubmitShape DEF Tick, FlushPressed
  <2> QED
    BY <1>c, <2>1 DEF Tick, FlushPressed
<1>d. ASSUME NEW l \in Loads,
             \/ (\E s \in Screens : LoadEnds(l, s)) \/ Resolved(l)
             \/ CapFails(l) \/ PlainFails(l) \/ SignFails(l)
      PROVE  TypeOK'
  <2>1. load[l] \in LoadStates
    OBVIOUS
  <2>2. /\ load' \in [Loads -> LoadStates]
        /\ \A m \in Loads : load'[m] = load[m] \/ load'[m].pc # "sign"
    BY <1>d, <2>1 DEF LoadEnds, Resolved, CapFails, PlainFails, SignFails, Fails, LoadStates
  <2> QED
    BY <1>d, <2>2 DEF LoadEnds, Resolved, CapFails, PlainFails, SignFails
<1>e. ASSUME NEW l \in Loads, Record(l) PROVE TypeOK'
  <2>1. CASE Valid(challenge, Kind(l))
    <3>1. challenge \in Challenges
      BY <2>1 DEF Valid
    <3>2. Draft(l, challenge)
      BY <1>e, <2>1 DEF Record
    <3>3. \A m \in Loads : load'[m].pc = "sign" => load'[m].draft \in Drafts
      BY <3>1, <3>2, DraftShape, NextRecordShape
    <3> QED
      BY <1>e, <3>1, <3>2, <3>3, DraftShape DEF Record
  <2>2. CASE ~Valid(challenge, Kind(l))
    <3>1. load' = [load EXCEPT ![l].pc = "cap"]
      BY <1>e, <2>2 DEF Record
    <3>2. load' \in [Loads -> LoadStates] /\ \A m \in Loads : load'[m] = load[m] \/ load'[m].pc # "sign"
      BY <3>1 DEF LoadStates
    <3> QED
      BY <1>e, <3>2 DEF Record
  <2> QED
    BY <2>1, <2>2
<1>f. ASSUME NEW l \in Loads, NEW ch \in Challenges, CapAnswers(l, ch) PROVE TypeOK'
  <2>1. CASE ch.fresh \/ "hash" \in ch.types
    <3>1. Draft(l, ch)
      BY <1>f, <2>1 DEF CapAnswers
    <3>2. \A m \in Loads : load'[m].pc = "sign" => load'[m].draft \in Drafts
      BY <3>1, DraftShape, NextRecordShape
    <3> QED
      BY <1>f, <3>1, <3>2, DraftShape DEF CapAnswers
  <2>2. CASE ~(ch.fresh \/ "hash" \in ch.types)
    <3>1. Fails(l)
      BY <1>f, <2>2 DEF CapAnswers
    <3>2. load' \in [Loads -> LoadStates] /\ \A m \in Loads : load'[m] = load[m] \/ load'[m].pc # "sign"
      BY <3>1, FailsShape
    <3> QED
      BY <1>f, <3>2 DEF CapAnswers
  <2> QED
    BY <2>1, <2>2
<1>g. ASSUME NEW l \in Loads, Signed(l) PROVE TypeOK'
  <2> DEFINE q == Append(queue, load[l].draft)
  <2>1. q \in Seq(Drafts) /\ q # <<>>
    BY <1>g, Push DEF Signed
  <2>2. CASE Len(q) >= MaxBatch
    <3>1. Submit(l, q) /\ load' = [load EXCEPT ![l].pc = "submit"]
      BY <1>g, <2>2 DEF Signed
    <3>2. queue' \in Seq(Drafts) /\ posts' \subseteq Posts
      BY <2>1, <3>1, SubmitShape
    <3>3. load' \in [Loads -> LoadStates] /\ \A m \in Loads : load'[m] = load[m] \/ load'[m].pc # "sign"
      BY <3>1 DEF LoadStates
    <3> QED
      BY <1>g, <3>2, <3>3 DEF Signed
  <2>3. CASE ~(Len(q) >= MaxBatch)
    <3>1. queue' = q /\ load' = [load EXCEPT ![l] = NextRecord(l)] /\ UNCHANGED posts
      BY <1>g, <2>3 DEF Signed
    <3>2. load' \in [Loads -> LoadStates] /\ \A m \in Loads : load'[m] = load[m] \/ load'[m].pc # "sign"
      BY <3>1, NextRecordShape
    <3> QED
      BY <1>g, <2>1, <3>1, <3>2 DEF Signed
  <2> QED
    BY <2>2, <2>3
<1>h. ASSUME NEW l \in Loads, Flush(l) PROVE TypeOK'
  <2>1. queue' \in Seq(Drafts) /\ posts' \subseteq Posts
    <3>1. CASE queue # <<>> /\ did
      BY <1>h, <3>1, SubmitShape DEF Flush
    <3>2. CASE ~(queue # <<>> /\ did)
      BY <1>h, <3>2 DEF Flush
    <3> QED
      BY <3>1, <3>2
  <2>2. load' \in [Loads -> LoadStates] /\ \A m \in Loads : load'[m] = load[m] \/ load'[m].pc # "sign"
    BY <1>h, SMTT(30) DEF Flush, Fails, LoadStates
  <2> QED
    BY <1>h, <2>1, <2>2 DEF Flush
<1>i. CASE ChallengeExpires
  BY <1>i DEF ChallengeExpires, Challenges
<1>j. CASE UNCHANGED vars
  BY <1>j DEF vars
<1> QED
  BY <1>p, <1>s, <1>a, <1>b, <1>c, <1>d, <1>e, <1>f, <1>g, <1>h, <1>i, <1>j
  DEF Next, StartCapAnswers, StartPlainAnswers, StartPlainFails

\* A queue of receipts, batches of one to maxBatchSize receipts, and a receipt
\* at hand whenever one is being signed.
THEOREM TypesHold == Spec => []TypeOK
<1>1. Init => TypeOK
  <2>1. NotLoaded \in LoadStates /\ NotLoaded.pc = "idle"
    BY DEF NotLoaded, LoadStates
  <2>2. ASSUME Init
        PROVE  load \in [Loads -> LoadStates] /\ \A l \in Loads : load[l].pc # "sign"
    BY <2>1, <2>2 DEF Init
  <2>3. <<>> \in Seq(Drafts)
    OBVIOUS
  <2>4. ASSUME Init PROVE mount \in [Screens -> {"off", "identity", "cap", "plain", "on"}]
    BY <2>4 DEF Init
  <2> QED
    BY <2>2, <2>3, <2>4 DEF Init, TypeOK
<1> QED
  BY <1>1, TypeStep, PTL DEF Spec

-----------------------------------------------------------------------------
(***************************************************************************)
(* The timer.  Any interval will do for the invariant, so it needs no      *)
(* strengthening: what matters is that a stop that leaves isRunning set    *)
(* has a request of its own in flight.                                     *)
(***************************************************************************)
\* submitBatch keeps the requests that are in flight.
LEMMA TimedStep == TypeOK /\ RunningMeansTimed /\ [Next]_vars => RunningMeansTimed'
<1> SUFFICES ASSUME TypeOK, RunningMeansTimed, [Next]_vars PROVE RunningMeansTimed'
  OBVIOUS
<1> USE DEF RunningMeansTimed
<1>1. ASSUME NEW p \in posts, PostOk(p) \/ PostFails(p) PROVE RunningMeansTimed'
  <2>1. posts' = posts \ {p} /\ intervals' = intervals /\ running' = (running /\ p.by \notin Screens)
    BY <1>1 DEF PostOk, PostFails, Continue
  <2> QED
    BY <2>1
<1>2. ASSUME NEW s \in Screens, NEW ch, Started(s, ch) PROVE RunningMeansTimed'
  BY <1>2 DEF Started
<1>3. ASSUME NEW s \in Screens, Stop(s) PROVE RunningMeansTimed'
  <2>1. CASE queue # <<>> /\ did
    <3>1. [by |-> s, batch |-> Take(queue)] \in posts'
      BY <1>3, <2>1 DEF Stop, Submit
    <3> QED
      BY <3>1
  <2>2. CASE ~(queue # <<>> /\ did)
    BY <1>3, <2>2 DEF Stop
  <2> QED
    BY <2>1, <2>2
<1>4. ASSUME posts \subseteq posts', UNCHANGED <<running, intervals>> PROVE RunningMeansTimed'
  BY <1>4
<1>5. ASSUME NEW s \in Screens, \/ Mount(s) \/ IdentityRead(s) \/ IdentityFails(s) \/ StartCapFails(s)
                                \/ Tick(s) \/ \E l \in Loads : LoadEnds(l, s)
      PROVE  RunningMeansTimed'
  BY <1>4, <1>5 DEF Mount, IdentityRead, IdentityFails, StartCapFails, Tick, Submit, LoadEnds
<1>6. ASSUME NEW l \in Loads, \/ Resolved(l) \/ Record(l) \/ (\E ch \in Challenges : CapAnswers(l, ch))
                              \/ CapFails(l) \/ PlainFails(l) \/ SignFails(l) \/ Flush(l)
      PROVE  RunningMeansTimed'
  BY <1>4, <1>6 DEF Resolved, Record, CapAnswers, CapFails, PlainFails, SignFails, Flush, Submit
<1>7. ASSUME NEW l \in Loads, Signed(l) PROVE RunningMeansTimed'
  <2>1. posts \subseteq posts' /\ UNCHANGED <<running, intervals>>
    BY <1>7 DEF Signed, Submit
  <2> QED
    BY <1>4, <2>1
<1>8. CASE FlushPressed \/ ChallengeExpires \/ UNCHANGED vars
  BY <1>4, <1>8 DEF FlushPressed, Submit, ChallengeExpires, vars
<1> QED
  BY <1>1, <1>2, <1>3, <1>5, <1>6, <1>7, <1>8
  DEF Next, StartCapAnswers, StartPlainAnswers, StartPlainFails

\* However starts and stops of several screens overlap, the controller never
\* says it runs with no interval left, unless a stop's last batch is still out.
THEOREM RunningControllersAreTimed == Spec => []RunningMeansTimed
<1>1. Init => RunningMeansTimed
  BY DEF Init, RunningMeansTimed
<1> QED
  BY <1>1, TypesHold, TimedStep, PTL DEF Spec

-----------------------------------------------------------------------------
(***************************************************************************)
(* Where receipts come from.  A page load draws one up for the kind it is  *)
(* at and holds it while it is signed; then the queue or a request does.   *)
(***************************************************************************)
\* The receipts in the queue or in a request.
Held == Range(queue) \cup UNION {Range(p.batch) : p \in posts}

\* The receipt of a load being signed claims a type its challenge allows, and
\* is the one of the load's present kind.
SignInv ==
    \A l \in Loads : load[l].pc = "sign" => /\ load[l].draft.type \in load[l].draft.policy
                                            /\ load[l].draft.id = <<l, load[l].k>>

\* Receipts that no load has finished yet.
Early == {"idle", "resolve", "record", "cap", "plain", "sign"}
Fresh == {r \in Receipts : \/ r[2] > load[r[1]].k
                           \/ r[2] = load[r[1]].k /\ load[r[1]].pc \in Early}

\* The ways a load changes in a step.
LoadMove(l) ==
    \/ load'[l] = load[l]
    \/ /\ load'[l].pc = "sign" /\ load[l].pc \in Early /\ load'[l].k = load[l].k
       /\ load'[l].draft.type \in load'[l].draft.policy
       /\ load'[l].draft.id = <<l, load'[l].k>>
    \/ /\ load'[l].pc # "sign" /\ load'[l].k = load[l].k
       /\ load'[l].pc \in Early => load[l].pc \in Early
    \/ load'[l] = NextRecord(l)

\* No step moves a load in another way.
LEMMA LoadsMove == TypeOK /\ [Next]_vars => \A l \in Loads : LoadMove(l)
<1> SUFFICES ASSUME TypeOK, [Next]_vars, NEW m \in Loads PROVE LoadMove(m)
  OBVIOUS
<1> USE DEF LoadMove, Early
<1>0. load \in [Loads -> LoadStates]
  BY DEF TypeOK
<1>u. ASSUME UNCHANGED load PROVE LoadMove(m)
  BY <1>u
<1>f. ASSUME NEW l \in Loads, Fails(l) PROVE LoadMove(m)
  BY <1>f, FailsShape
<1>d. ASSUME NEW l \in Loads, NEW ch \in Challenges, Draft(l, ch), Kind(l) \in ch.types,
             load[l].pc \in {"record", "cap", "plain"}
      PROVE  LoadMove(m)
  BY <1>d, DraftShape
<1>1. ASSUME NEW p \in posts, PostOk(p) \/ PostFails(p) PROVE LoadMove(m)
  BY <1>1, ContinueShape DEF PostOk, PostFails
<1>2. ASSUME NEW s \in Screens, NEW l \in Loads, LoadEnds(l, s) PROVE LoadMove(m)
  BY <1>0, <1>2 DEF LoadEnds, LoadStates
<1>3. ASSUME NEW l \in Loads, Resolved(l) \/ CapFails(l) PROVE LoadMove(m)
  BY <1>0, <1>3, <1>f DEF Resolved, CapFails, LoadStates
<1>4. ASSUME NEW l \in Loads, Record(l) PROVE LoadMove(m)
  <2>1. CASE Valid(challenge, Kind(l))
    BY <1>4, <2>1, <1>d DEF Record, Valid, TypeOK
  <2>2. CASE ~Valid(challenge, Kind(l))
    BY <1>0, <1>4, <2>2 DEF Record, LoadStates
  <2> QED
    BY <2>1, <2>2
<1>5. ASSUME NEW l \in Loads, NEW ch \in Challenges, CapAnswers(l, ch) PROVE LoadMove(m)
  BY <1>5, <1>f, <1>d DEF CapAnswers
<1>6. ASSUME NEW l \in Loads, PlainFails(l) \/ SignFails(l) PROVE LoadMove(m)
  BY <1>6, <1>f DEF PlainFails, SignFails
<1>7. ASSUME NEW l \in Loads, Signed(l) PROVE LoadMove(m)
  <2>1. \/ load' = [load EXCEPT ![l].pc = "submit"]
        \/ load' = [load EXCEPT ![l] = NextRecord(l)]
    BY <1>7 DEF Signed
  <2> QED
    BY <1>0, <2>1 DEF LoadStates
<1>8. ASSUME NEW l \in Loads, Flush(l) PROVE LoadMove(m)
  <2>1. load' = [load EXCEPT ![l].pc = "flushing"] \/ Fails(l)
    BY <1>8 DEF Flush
  <2> QED
    BY <1>0, <2>1, <1>f DEF LoadStates
<1>9. ASSUME NEW s \in Screens,
             \/ Mount(s) \/ IdentityRead(s) \/ IdentityFails(s) \/ StartCapFails(s) \/ Stop(s)
             \/ Tick(s) \/ \E ch : Started(s, ch)
      PROVE  LoadMove(m)
  BY <1>9, <1>u DEF Mount, IdentityRead, IdentityFails, StartCapFails, Stop, Tick, Started
<1>10. CASE FlushPressed \/ ChallengeExpires \/ UNCHANGED vars
  BY <1>10, <1>u DEF FlushPressed, ChallengeExpires, vars
<1> QED
  BY <1>1, <1>2, <1>3, <1>4, <1>5, <1>6, <1>7, <1>8, <1>9, <1>10
  DEF Next, StartCapAnswers, StartPlainAnswers, StartPlainFails

\* A submit makes up no receipt.
LEMMA SubmitHolds ==
    ASSUME NEW q \in Seq(Drafts), q # <<>>, NEW by, Submit(by, q)
    PROVE  Held' \subseteq Range(q) \cup UNION {Range(p.batch) : p \in posts}
<1>1. Range(Take(q)) \subseteq Range(q) /\ Range(Rest(q)) \subseteq Range(q)
  BY Splice
<1>2. \A p \in posts' : p \in posts \/ p.batch = Take(q)
  BY DEF Submit
<1>3. Range(queue') \subseteq Range(q)
  BY <1>1 DEF Submit
<1> QED
  BY <1>1, <1>2, <1>3 DEF Held

\* Only Signed adds a receipt to the queue and the requests, and only a
\* request's receipts become answered.
LEMMA HeldStep ==
    TypeOK /\ [Next]_vars =>
        /\ \/ Held' \subseteq Held
           \/ \E l \in Loads : Signed(l) /\ Held' \subseteq Held \cup {load[l].draft}
        /\ answered' \subseteq answered \cup {r.id : r \in Held}
<1> DEFINE Step == /\ \/ Held' \subseteq Held
                      \/ \E l \in Loads : Signed(l) /\ Held' \subseteq Held \cup {load[l].draft}
                   /\ answered' \subseteq answered \cup {r.id : r \in Held}
<1> SUFFICES ASSUME TypeOK, [Next]_vars PROVE Step
  OBVIOUS
<1>q. queue \in Seq(Drafts) /\ posts \subseteq Posts
  BY DEF TypeOK
<1>u. ASSUME UNCHANGED <<queue, posts, answered>> PROVE Step
  BY <1>u DEF Held
<1>s. ASSUME NEW by, queue # <<>>, Submit(by, queue), UNCHANGED answered PROVE Step
  BY <1>q, <1>s, SubmitHolds DEF Held
<1>1. ASSUME NEW p \in posts, PostOk(p) PROVE Step
  <2>1. Held' \subseteq Held
    BY <1>1 DEF PostOk, Held
  <2>2. Range(p.batch) \subseteq Held
    BY DEF Held
  <2> QED
    BY <1>1, <2>1, <2>2 DEF PostOk
<1>2. ASSUME NEW p \in posts, PostFails(p) PROVE Step
  <2>1. p.batch \in Seq(Drafts)
    BY <1>q DEF Posts, Batches
  <2>2. Range(queue') \subseteq Range(p.batch) \cup Range(queue)
    BY <1>2, <1>q, <2>1, Unshift DEF PostFails
  <2>3. Held' \subseteq Held
    BY <1>2, <2>2 DEF PostFails, Held
  <2> QED
    BY <1>2, <2>3 DEF PostFails
<1>3. ASSUME NEW l \in Loads, Signed(l) PROVE Step
  <2> DEFINE q == Append(queue, load[l].draft)
  <2>1. load[l].draft \in Drafts
    BY <1>3 DEF Signed, TypeOK
  <2>2. q \in Seq(Drafts) /\ q # <<>> /\ Range(q) \subseteq Range(queue) \cup {load[l].draft}
    BY <1>q, <2>1, Push
  <2>3. Submit(l, q) \/ (queue' = q /\ UNCHANGED posts)
    BY <1>3 DEF Signed
  <2> HIDE DEF q
  <2>4. Held' \subseteq Held \cup {load[l].draft}
    <3>1. CASE Submit(l, q)
      BY <2>2, <3>1, SubmitHolds DEF Held
    <3>2. CASE queue' = q /\ UNCHANGED posts
      BY <2>2, <3>2 DEF Held
    <3> QED
      BY <2>3, <3>1, <3>2
  <2>5. UNCHANGED answered
    BY <1>3 DEF Signed
  <2> QED
    BY <1>3, <2>4, <2>5
<1>4. ASSUME NEW s \in Screens, Stop(s) \/ Tick(s) PROVE Step
  BY <1>4, <1>s, <1>u DEF Stop, Tick
<1>5. ASSUME NEW l \in Loads, Flush(l) PROVE Step
  BY <1>5, <1>s, <1>u DEF Flush
<1>6. ASSUME NEW s \in Screens, \/ Mount(s) \/ IdentityRead(s) \/ IdentityFails(s)
                                \/ StartCapFails(s) \/ (\E ch : Started(s, ch))
                                \/ \E l \in Loads : LoadEnds(l, s)
      PROVE  Step
  BY <1>6, <1>u DEF Mount, IdentityRead, IdentityFails, StartCapFails, Started, LoadEnds
<1>7. ASSUME NEW l \in Loads, \/ Resolved(l) \/ Record(l) \/ (\E ch \in Challenges : CapAnswers(l, ch))
                              \/ CapFails(l) \/ PlainFails(l) \/ SignFails(l)
      PROVE  Step
  BY <1>7, <1>u DEF Resolved, Record, CapAnswers, CapFails, PlainFails, SignFails
<1>8. CASE FlushPressed \/ ChallengeExpires \/ UNCHANGED vars
  BY <1>8, <1>s, <1>u DEF FlushPressed, ChallengeExpires, vars
<1> HIDE DEF Step
<1> QED
  BY <1>1, <1>2, <1>3, <1>4, <1>5, <1>6, <1>7, <1>8
  DEF Next, StartCapAnswers, StartPlainAnswers, StartPlainFails

\* The receipt being signed keeps its claim.
LEMMA SignStep == TypeOK /\ SignInv /\ [Next]_vars => SignInv'
<1> SUFFICES ASSUME TypeOK, SignInv, [Next]_vars, NEW l \in Loads, load'[l].pc = "sign"
             PROVE  /\ load'[l].draft.type \in load'[l].draft.policy
                    /\ load'[l].draft.id = <<l, load'[l].k>>
  BY DEF SignInv
<1>1. LoadMove(l)
  BY LoadsMove
<1>2. load'[l] # NextRecord(l)
  BY NextRecordShape
<1> QED
  BY <1>1, <1>2 DEF LoadMove, SignInv

LEMMA PolicyStep ==
    TypeOK /\ SignInv /\ PolicyAllowsReceipt /\ [Next]_vars => PolicyAllowsReceipt'
<1> SUFFICES ASSUME TypeOK, SignInv, PolicyAllowsReceipt, [Next]_vars PROVE PolicyAllowsReceipt'
  OBVIOUS
<1>1. \A r \in Held : r.type \in r.policy
  BY DEF PolicyAllowsReceipt, Held
<1>2. \A l \in Loads : Signed(l) => load[l].draft.type \in load[l].draft.policy
  BY DEF Signed, SignInv
<1>3. \A r \in Held' : r.type \in r.policy
  BY <1>1, <1>2, HeldStep
<1> QED
  BY <1>3 DEF PolicyAllowsReceipt, Held

\* Whatever challenges replace the active one while a receipt is being signed,
\* and however batches fail and are queued again, a receipt that is queued or
\* sent claims a proof type of the very policy it carries.
THEOREM ReceiptsFollowTheirPolicy == Spec => []PolicyAllowsReceipt
<1>1. Init => SignInv /\ PolicyAllowsReceipt
  BY DEF Init, SignInv, PolicyAllowsReceipt, NotLoaded, Range
<1> QED
  BY <1>1, TypesHold, SignStep, PolicyStep, PTL DEF Spec

-----------------------------------------------------------------------------
(***************************************************************************)
(* One place.  InOnePlace counts, and says nothing of receipts still to    *)
(* come.  PlaceInv says it pairwise: the queue, the requests in flight and *)
(* the answered receipts share none.  FreshInv keeps a receipt that has    *)
(* not been queued out of all of them.                                     *)
(***************************************************************************)
PlaceInv ==
    /\ Distinct(queue)
    /\ \A p \in posts : /\ Distinct(p.batch)
                        /\ Ids(p.batch) \cap Ids(queue) = {}
                        /\ Ids(p.batch) \cap answered = {}
    /\ \A p, q \in posts : p # q => Ids(p.batch) \cap Ids(q.batch) = {}
    /\ Ids(queue) \cap answered = {}

FreshInv == answered \cap Fresh = {} /\ \A r \in Held : r.id \notin Fresh

\* A receipt that is not fresh never becomes so, and Signed uses one up.
LEMMA FreshShrinks ==
    TypeOK /\ [Next]_vars =>
        Fresh' \subseteq Fresh /\ \A l \in Loads : Signed(l) => <<l, load[l].k>> \notin Fresh'
<1> SUFFICES ASSUME TypeOK, [Next]_vars
             PROVE  Fresh' \subseteq Fresh /\ \A l \in Loads : Signed(l) => <<l, load[l].k>> \notin Fresh'
  OBVIOUS
<1>0. load \in [Loads -> LoadStates] /\ \A l \in Loads : load[l].k \in {1, 2}
  BY DEF TypeOK, LoadStates
<1>1. ASSUME NEW r \in Fresh' PROVE r \in Fresh
  <2>1. PICK l \in Loads, j \in {1, 2} : r = <<l, j>>
    BY <1>1 DEF Fresh, Receipts
  <2>2. j > load'[l].k \/ (j = load'[l].k /\ load'[l].pc \in Early)
    BY <1>1, <2>1 DEF Fresh
  <2>3. LoadMove(l)
    BY LoadsMove
  <2>4. j > load[l].k \/ (j = load[l].k /\ load[l].pc \in Early)
    <3>1. CASE load'[l] = NextRecord(l)
      <4>1. j = 2 /\ load'[l].pc = "record"
        BY <2>2, <3>1, NextRecordShape DEF Early
      <4> QED
        BY <3>1, <4>1, NextRecordShape
    <3>2. CASE load'[l] # NextRecord(l)
      BY <2>2, <2>3, <3>2 DEF LoadMove
    <3> QED
      BY <3>1, <3>2
  <2> QED
    BY <2>1, <2>4 DEF Fresh, Receipts
<1>2. ASSUME NEW l \in Loads, Signed(l) PROVE <<l, load[l].k>> \notin Fresh'
  <2>1. \/ load' = [load EXCEPT ![l].pc = "submit"]
        \/ load' = [load EXCEPT ![l] = NextRecord(l)]
    BY <1>2 DEF Signed
  <2>2. load'[l].k >= load[l].k /\ ~(load'[l].k = load[l].k /\ load'[l].pc \in Early)
    <3>1. CASE load' = [load EXCEPT ![l].pc = "submit"]
      <4>1. load'[l].k = load[l].k /\ load'[l].pc = "submit"
        BY <1>0, <3>1 DEF LoadStates
      <4> QED
        BY <1>0, <4>1 DEF Early
    <3>2. CASE load' = [load EXCEPT ![l] = NextRecord(l)]
      <4>1. load'[l] = NextRecord(l)
        BY <1>0, <3>2
      <4> QED
        BY <1>0, <4>1, NextRecordShape DEF Early
    <3> QED
      BY <2>1, <3>1, <3>2
  <2>3. load'[l].k \in {1, 2}
    BY TypeStep DEF TypeOK, LoadStates
  <2> QED
    BY <1>0, <2>2, <2>3 DEF Fresh
<1> QED
  BY <1>1, <1>2

LEMMA FreshStep == TypeOK /\ SignInv /\ FreshInv /\ [Next]_vars => FreshInv'
<1> SUFFICES ASSUME TypeOK, SignInv, FreshInv, [Next]_vars PROVE FreshInv'
  OBVIOUS
<1>1. Fresh' \subseteq Fresh /\ \A l \in Loads : Signed(l) => <<l, load[l].k>> \notin Fresh'
  BY FreshShrinks
<1>2. \A l \in Loads : Signed(l) => load[l].draft.id \notin Fresh'
  BY <1>1 DEF Signed, SignInv
<1>3. \A r \in Held' : r.id \notin Fresh'
  BY <1>1, <1>2, HeldStep DEF FreshInv
<1>4. answered' \cap Fresh' = {}
  BY <1>1, HeldStep DEF FreshInv
<1> QED
  BY <1>3, <1>4 DEF FreshInv

\* A submit from a queue without repetitions, apart from the requests and the
\* answers, leaves one.
LEMMA SubmitPlaces ==
    ASSUME NEW q \in Seq(Drafts), q # <<>>, NEW by, Submit(by, q), UNCHANGED answered,
           Distinct(q), Ids(q) \cap answered = {},
           \A p \in posts : /\ Distinct(p.batch)
                            /\ Ids(p.batch) \cap Ids(q) = {}
                            /\ Ids(p.batch) \cap answered = {},
           \A p, o \in posts : p # o => Ids(p.batch) \cap Ids(o.batch) = {}
    PROVE  PlaceInv'
<1> DEFINE t == Take(q)
           n == [by |-> by, batch |-> t]
<1>1. /\ Ids(t) \subseteq Ids(q) /\ Ids(Rest(q)) \subseteq Ids(q)
      /\ Distinct(t) /\ Distinct(Rest(q)) /\ Ids(t) \cap Ids(Rest(q)) = {}
  BY Splice
<1>2. queue' = Rest(q) /\ posts' = posts \cup {n} /\ n.batch = t
  BY DEF Submit
<1> HIDE DEF t, n
<1>3. Distinct(queue') /\ Ids(queue') \cap answered' = {}
  BY <1>1, <1>2
<1>4. ASSUME NEW p \in posts'
      PROVE  /\ Distinct(p.batch)
             /\ Ids(p.batch) \cap Ids(queue') = {}
             /\ Ids(p.batch) \cap answered' = {}
  <2>1. CASE p = n
    BY <1>1, <1>2, <2>1
  <2>2. CASE p \in posts
    BY <1>1, <1>2, <2>2
  <2> QED
    BY <1>2, <1>4, <2>1, <2>2
<1>5. ASSUME NEW p \in posts', NEW o \in posts', p # o
      PROVE  Ids(p.batch) \cap Ids(o.batch) = {}
  BY <1>1, <1>2, <1>5
<1> QED
  BY <1>3, <1>4, <1>5 DEF PlaceInv

LEMMA PlaceStep == TypeOK /\ SignInv /\ FreshInv /\ PlaceInv /\ [Next]_vars => PlaceInv'
<1> SUFFICES ASSUME TypeOK, SignInv, FreshInv, PlaceInv, [Next]_vars PROVE PlaceInv'
  OBVIOUS
<1>q. queue \in Seq(Drafts) /\ posts \subseteq Posts
  BY DEF TypeOK
<1>b. \A p \in posts : p.batch \in Seq(Drafts)
  BY <1>q DEF Posts, Batches
<1>u. ASSUME UNCHANGED <<queue, posts, answered>> PROVE PlaceInv'
  BY <1>u DEF PlaceInv
<1>s. ASSUME NEW by, queue # <<>>, Submit(by, queue), UNCHANGED answered PROVE PlaceInv'
  BY <1>q, <1>s, SubmitPlaces DEF PlaceInv
<1>1. ASSUME NEW p \in posts, PostOk(p) PROVE PlaceInv'
  <2>1. posts' = posts \ {p} /\ queue' = queue
    BY <1>1 DEF PostOk
  <2>2. answered' = answered \cup Ids(p.batch)
    BY <1>1 DEF PostOk, Ids, Range
  <2> QED
    BY <2>1, <2>2 DEF PlaceInv
<1>2. ASSUME NEW p \in posts, PostFails(p) PROVE PlaceInv'
  <2>1. posts' = posts \ {p} /\ queue' = p.batch \o queue /\ answered' = answered
    BY <1>2 DEF PostFails
  <2>2. Distinct(queue') /\ Ids(queue') \subseteq Ids(p.batch) \cup Ids(queue)
    BY <1>q, <1>b, <2>1, Unshift DEF PlaceInv
  <2>3. Ids(queue') \cap answered' = {}
    BY <2>1, <2>2 DEF PlaceInv
  <2>4. \A o \in posts' : Ids(o.batch) \cap Ids(queue') = {}
    BY <2>1, <2>2 DEF PlaceInv
  <2> QED
    BY <2>1, <2>2, <2>3, <2>4 DEF PlaceInv
<1>3. ASSUME NEW l \in Loads, Signed(l) PROVE PlaceInv'
  <2> DEFINE d == load[l].draft
             q == Append(queue, d)
  <2>1. d \in Drafts /\ d.id = <<l, load[l].k>>
    BY <1>3 DEF Signed, TypeOK, SignInv
  <2>2. d.id \in Fresh
    <3>1. load[l].k \in {1, 2}
      BY DEF TypeOK, LoadStates
    <3> QED
      BY <1>3, <2>1, <3>1 DEF Signed, Fresh, Receipts, Early
  <2> HIDE DEF d
  <2>3. d.id \notin answered /\ d.id \notin Ids(queue) /\ \A p \in posts : d.id \notin Ids(p.batch)
    <3>1. Ids(queue) \subseteq {r.id : r \in Held}
      BY DEF Ids, Held, Range
    <3>2. \A p \in posts : Ids(p.batch) \subseteq {r.id : r \in Held}
      BY DEF Ids, Held, Range
    <3> QED
      BY <2>2, <3>1, <3>2 DEF FreshInv
  <2>4. /\ q \in Seq(Drafts) /\ q # <<>>
        /\ Ids(q) \subseteq Ids(queue) \cup {d.id} /\ Distinct(q)
    BY <1>q, <2>1, <2>3, Push DEF PlaceInv
  <2>5. (Submit(l, q) \/ (queue' = q /\ UNCHANGED posts)) /\ UNCHANGED answered
    BY <1>3 DEF Signed, d
  <2> HIDE DEF q
  <2>6. /\ Ids(q) \cap answered = {}
        /\ \A p \in posts : Ids(p.batch) \cap Ids(q) = {}
    BY <2>3, <2>4 DEF PlaceInv
  <2>7. CASE Submit(l, q)
    BY <2>4, <2>5, <2>6, <2>7, SubmitPlaces DEF PlaceInv
  <2>8. CASE queue' = q /\ UNCHANGED posts
    BY <2>4, <2>5, <2>6, <2>8 DEF PlaceInv
  <2> QED
    BY <2>5, <2>7, <2>8
<1>4. ASSUME NEW s \in Screens, Stop(s) \/ Tick(s) PROVE PlaceInv'
  BY <1>4, <1>s, <1>u DEF Stop, Tick
<1>5. ASSUME NEW l \in Loads, Flush(l) PROVE PlaceInv'
  BY <1>5, <1>s, <1>u DEF Flush
<1>6. ASSUME NEW s \in Screens, \/ Mount(s) \/ IdentityRead(s) \/ IdentityFails(s)
                                \/ StartCapFails(s) \/ (\E ch : Started(s, ch))
                                \/ \E l \in Loads : LoadEnds(l, s)
      PROVE  PlaceInv'
  BY <1>6, <1>u DEF Mount, IdentityRead, IdentityFails, StartCapFails, Started, LoadEnds
<1>7. ASSUME NEW l \in Loads, \/ Resolved(l) \/ Record(l) \/ (\E ch \in Challenges : CapAnswers(l, ch))
                              \/ CapFails(l) \/ PlainFails(l) \/ SignFails(l)
      PROVE  PlaceInv'
  BY <1>7, <1>u DEF Resolved, Record, CapAnswers, CapFails, PlainFails, SignFails
<1>8. CASE FlushPressed \/ ChallengeExpires \/ UNCHANGED vars
  BY <1>8, <1>s, <1>u DEF FlushPressed, ChallengeExpires, vars
<1> QED
  BY <1>1, <1>2, <1>3, <1>4, <1>5, <1>6, <1>7, <1>8
  DEF Next, StartCapAnswers, StartPlainAnswers, StartPlainFails

\* A set any two members of which are equal has at most one.
LEMMA AtMostOne ==
    ASSUME NEW S, \A x, y \in S : x = y
    PROVE  Cardinality(S) \in {0, 1} /\ (S = {} => Cardinality(S) = 0)
<1>1. CASE S = {}
  BY <1>1, FS_EmptySet
<1>2. CASE S # {}
  <2>1. PICK x : S = {x}
    BY <1>2
  <2> QED
    BY <1>2, <2>1, FS_Singleton
<1> QED
  BY <1>1, <1>2

\* Counted or said pairwise, it is the same.
LEMMA PlacesCount == PlaceInv => InOnePlace
<1> SUFFICES ASSUME PlaceInv, NEW r \in Receipts
             PROVE  Cardinality(InQueue(r)) + Cardinality(InFlight(r))
                        <= (IF r \in answered THEN 0 ELSE 1)
  BY DEF InOnePlace
<1> DEFINE Q == InQueue(r)
           F == InFlight(r)
<1>1. Q # {} => r \in Ids(queue)
  BY DEF InQueue, Ids
<1>2. ASSUME NEW x \in F
      PROVE  \E p \in posts, i \in DOMAIN x[1].batch :
                 p = x[1] /\ i = x[2] /\ p.batch[i].id = r /\ x = <<p, i>>
  BY DEF InFlight
<1>3. F # {} => \E p \in posts : r \in Ids(p.batch)
  BY <1>2 DEF Ids
<1>4. \A x, y \in Q : x = y
  BY DEF PlaceInv, Distinct, InQueue
<1>5. \A x, y \in F : x = y
  <2> SUFFICES ASSUME NEW x \in F, NEW y \in F PROVE x = y
    OBVIOUS
  <2>1. PICK p \in posts, i \in DOMAIN x[1].batch :
            p = x[1] /\ i = x[2] /\ p.batch[i].id = r /\ x = <<p, i>>
    BY <1>2
  <2>2. PICK o \in posts, j \in DOMAIN y[1].batch :
            o = y[1] /\ j = y[2] /\ o.batch[j].id = r /\ y = <<o, j>>
    BY <1>2
  <2>3. r \in Ids(p.batch) /\ r \in Ids(o.batch)
    BY <2>1, <2>2 DEF Ids
  <2>4. p = o
    BY <2>3 DEF PlaceInv
  <2>5. i = j
    BY <2>1, <2>2, <2>4 DEF PlaceInv, Distinct
  <2> QED
    BY <2>1, <2>2, <2>4, <2>5
<1>6. ~(Q # {} /\ F # {}) /\ (r \in answered => Q = {} /\ F = {})
  BY <1>1, <1>3 DEF PlaceInv
<1> HIDE DEF Q, F
<1>7. /\ Cardinality(Q) \in {0, 1} /\ (Q = {} => Cardinality(Q) = 0)
      /\ Cardinality(F) \in {0, 1} /\ (F = {} => Cardinality(F) = 0)
  BY <1>4, <1>5, AtMostOne
<1>8. Cardinality(Q) + Cardinality(F) <= (IF r \in answered THEN 0 ELSE 1)
  BY <1>6, <1>7
<1> QED
  BY <1>8 DEF Q, F

\* However ticks, flushes, full batches and stops interleave with failing
\* requests, a receipt is queued once or sent once, and not at all after the
\* node answered it.
THEOREM ReceiptsAreInOnePlace == Spec => []InOnePlace
<1>1. Init => SignInv /\ FreshInv /\ PlaceInv
  BY DEF Init, SignInv, FreshInv, PlaceInv, NotLoaded, Held, Range, Ids, Distinct
<1> QED
  BY <1>1, TypesHold, SignStep, FreshStep, PlaceStep, PlacesCount, PTL DEF Spec
===============================================================================
