-------------------------------- MODULE Ingest --------------------------------
(***************************************************************************)
(* The receiving side for one peer (src/services/MessagingService.ts):     *)
(* ingestEnvelopesNative, the buffer of texts that could not be opened,    *)
(* and drainPendingDecrypt, which retries them.                            *)
(*                                                                         *)
(* The push stream and the deposit drain call ingest concurrently and the  *)
(* node may hand out an envelope through both.  An action is the code      *)
(* between two awaits; a native open and the code that continues it are    *)
(* one step.  A text is opened by the native session it is tried on if it  *)
(* was sealed for that generation and the session has not opened it        *)
(* before (the ratchet, external).  What ingest does to the sending side   *)
(* (completeHandshake, recoverMissingSession, what a receipt confirms) is  *)
(* in SendSession and Conversation; placeholders and rows are the store's. *)
(***************************************************************************)
EXTENDS Naturals, Sequences, FiniteSetsExt

CONSTANTS
    Gens,        \* the peer's handshakes, each with its KeyExchange envelope
    Texts,       \* text envelopes
    Receipts,    \* those that carry a read receipt (RECEIPT_MARKER)
    GenOf,       \* the generation each text was sealed in
    Layouts,     \* the ways the texts may get their (epoch, sequence), which names
                 \* their placeholders and starts over with every handshake
    Workers,     \* concurrent calls of ingestEnvelopes
    Drains,      \* concurrent calls of drainPendingDecrypt (a bound)
    Limit,       \* PENDING_DECRYPT_LIMIT_PER_PEER
    MaxCopies,   \* bound: times the node hands out an envelope
    MaxHanded,   \* bound: envelopes handed out, copies included
    MaxSessions  \* bound: native sessions accepted

Envelopes == Gens \cup Texts
Positions == UNION {{l[t] : t \in Texts} : l \in Layouts}

ASSUME IngestAssumption ==
    /\ GenOf \in [Texts -> Gens] /\ \A l \in Layouts : DOMAIN l = Texts
    /\ Gens \cap Texts = {} /\ Receipts \subseteq Texts
    /\ Limit \in Nat \ {0}
    /\ MaxCopies \in Nat /\ MaxHanded \in Nat /\ MaxSessions \in Nat

VARIABLES
    posOf,     \* the position each text was sealed at
    recv,      \* recvSessionByDid: handle of the inbound session, 0 for none
    native,    \* the sessions accepted so far: generation and texts opened
    worker,    \* each ingest: envelopes left, and the handle its text is tried on
    pending,   \* pendingDecryptByDid: the buffered texts, oldest first
    drain,     \* each drain: handle, texts to visit, texts that failed, whether it
               \* still iterates over the array that `pending` names, and whether
               \* it awaits the open of the first text (or saves the session)
    rows,      \* rows that show each text's plaintext
    holders,   \* positions with a placeholder row
    copies,    \* history: times each envelope was handed out
    settled,   \* history: texts whose ingest ended since the last deletion
    dropped,   \* history: texts dropped for want of the sender's key
    evicted,   \* history: texts that fell off a full buffer
    overlapped \* history: two drains ran at once, or a deletion met one

storeVars   == <<rows, holders>>
historyVars == <<copies, settled, dropped, evicted, overlapped>>
vars == <<posOf, recv, native, worker, pending, drain, storeVars, historyVars>>

Idle == [h |-> 0, todo |-> <<>>, failed |-> <<>>, shared |-> FALSE, trying |-> FALSE]
Sessions == [gen : Gens, opened : SUBSET Texts]
WorkerStates == [batch : Seq(Envelopes), h : 0..MaxSessions]
DrainStates == [h : 0..MaxSessions, todo : Seq(Texts), failed : Seq(Texts),
                shared : BOOLEAN, trying : BOOLEAN]

TypeOK ==
    /\ posOf \in Layouts
    /\ recv \in 0..MaxSessions
    /\ native \in Seq(Sessions)
    /\ worker \in [Workers -> WorkerStates]
    /\ pending \in Seq(Texts) /\ Len(pending) <= Limit
    /\ drain \in [Drains -> DrainStates]
    /\ rows \in [Texts -> Nat]
    /\ holders \subseteq Positions
    /\ copies \in [Envelopes -> 0..MaxCopies]
    /\ settled \subseteq Texts /\ dropped \subseteq Texts /\ evicted \subseteq Texts
    /\ overlapped \in BOOLEAN

Init ==
    /\ posOf \in Layouts
    /\ recv = 0
    /\ native = <<>>
    /\ worker = [w \in Workers |-> [batch |-> <<>>, h |-> 0]]
    /\ pending = <<>>
    /\ drain = [d \in Drains |-> Idle]
    /\ rows = [t \in Texts |-> 0]
    /\ holders = {}
    /\ copies = [e \in Envelopes |-> 0]
    /\ settled = {} /\ dropped = {} /\ evicted = {}
    /\ overlapped = FALSE

-----------------------------------------------------------------------------
Running == {d \in Drains : drain[d] # Idle}
Range1(s) == {s[i] : i \in DOMAIN s}
Buffered(t) == \E u \in Range1(pending) : posOf[u] = posOf[t]

Head1(w) == Head(worker[w].batch)
Rest(w) == [worker EXCEPT ![w] = [batch |-> Tail(worker[w].batch), h |-> 0]]

\* Handshakes are processed before texts; the sort is stable.
Prepared(s) ==
    LET Sorts(f) == \A i, j \in DOMAIN s : i < j =>
                        /\ f[i] # f[j]
                        /\ s[f[i]] \in Texts => s[f[j]] \in Texts
                        /\ (s[f[i]] \in Texts <=> s[f[j]] \in Texts) => f[i] < f[j]
    IN  {[i \in DOMAIN s |-> s[f[i]]] : f \in {g \in [DOMAIN s -> DOMAIN s] : Sorts(g)}}

\* A push frame or a batch of the deposit store arrives.
IngestEnvelopes(w, s) ==
    /\ worker[w].batch = <<>>
    /\ \A i, j \in DOMAIN s : s[i] = s[j] => i = j
    /\ \A i \in DOMAIN s : copies[s[i]] < MaxCopies
    /\ MapThenSumSet(LAMBDA e : copies[e], Envelopes) + Len(s) <= MaxHanded
    /\ \E b \in Prepared(s) : worker' = [worker EXCEPT ![w].batch = b]
    /\ copies' = [e \in Envelopes |-> IF e \in Range1(s) THEN copies[e] + 1 ELSE copies[e]]
    /\ UNCHANGED <<posOf, recv, native, pending, drain, storeVars, settled, dropped, evicted, overlapped>>

\* drainPendingDecrypt up to its first await, on inbound session h.
StartDrain(h) ==
    \/ /\ pending = <<>>
       /\ UNCHANGED <<drain, overlapped>>
    \/ /\ pending # <<>>
       /\ \E d \in Drains \ Running :
             drain' = [drain EXCEPT ![d] = [h |-> h, todo |-> pending, failed |-> <<>>,
                                            shared |-> TRUE, trying |-> TRUE]]
       /\ overlapped' = (overlapped \/ Running # {})

\* A KeyExchange is accepted: its session becomes the inbound session, and
\* the buffer is drained through it.
KeyExchangeAccepted(w) ==
    /\ worker[w].batch # <<>> /\ Head1(w) \in Gens
    /\ Len(native) < MaxSessions
    /\ native' = Append(native, [gen |-> Head1(w), opened |-> {}])
    /\ recv' = Len(native')
    /\ worker' = Rest(w)
    /\ StartDrain(recv')
    /\ UNCHANGED <<posOf, pending, storeVars, copies, settled, dropped, evicted>>

\* It is rejected (not for us, malformed) or skipped.
KeyExchangeRejected(w) ==
    /\ worker[w].batch # <<>> /\ Head1(w) \in Gens
    /\ worker' = Rest(w)
    /\ UNCHANGED <<posOf, recv, native, pending, drain, storeVars, historyVars>>

Opens(h, t) == native[h].gen = GenOf[t] /\ t \notin native[h].opened
Opened(h, t) == [native EXCEPT ![h] = [gen |-> native[h].gen, opened |-> native[h].opened \cup {t}]]

BufferUncapped(t) ==
    /\ pending' = IF Buffered(t) THEN pending ELSE Append(pending, t)
    /\ drain' = [d \in Drains |-> IF drain[d].shared /\ ~Buffered(t)
                                  THEN [drain[d] EXCEPT !.todo = Append(@, t)] ELSE drain[d]]
    /\ UNCHANGED evicted

BufferUnseen(t) ==
    /\ pending' = IF Buffered(t) \/ Len(pending) = Limit THEN pending ELSE Append(pending, t)
    /\ evicted' = IF ~Buffered(t) /\ Len(pending) = Limit THEN evicted \cup {t} ELSE evicted
    /\ UNCHANGED drain

\* The text that a running drain visits next, after the one it awaits.
Full == Len(pending) = Limit
NextVisit(d) == IF drain[d].trying THEN 2 ELSE 1
Without(s, i) == [j \in 1..(Len(s) - 1) |-> IF j < i THEN s[j] ELSE s[j + 1]]
Cut(s, i) == IF Full THEN Without(s, i) ELSE s

\* bufferUndecryptable: once per placeholder id; pushed into the array that a
\* running drain may be iterating over, and cut at the front when too long,
\* which makes that drain skip the text it would visit next.
Buffer(t) ==
    \/ /\ Buffered(t)
       /\ UNCHANGED <<pending, drain, evicted>>
    \/ /\ ~Buffered(t)
       /\ pending' = Cut(Append(pending, t), 1)
       /\ drain' = [d \in Drains |->
              IF drain[d].shared
              THEN [drain[d] EXCEPT !.todo = Cut(Append(drain[d].todo, t), NextVisit(d))]
              ELSE drain[d]]
       /\ evicted' = IF ~Full THEN evicted
                     ELSE evicted \cup {Head(pending)} \cup
                          {Append(drain[d].todo, t)[NextVisit(d)] : d \in {c \in Drains : drain[c].shared}}

UndecryptableIsSilent(t) ==
    /\ Buffer(t)
    /\ UNCHANGED storeVars

\* A text that cannot be opened: placeholder (one per id) and buffer.
Undecryptable(t) ==
    /\ holders' = holders \cup {posOf[t]}
    /\ Buffer(t)
    /\ UNCHANGED rows

Ends(w) == worker' = Rest(w) /\ settled' = settled \cup {Head1(w)}

\* A text with no inbound session to try.
TextWithoutSession(w) ==
    /\ worker[w].batch # <<>> /\ Head1(w) \in Texts /\ worker[w].h = 0
    /\ recv = 0
    /\ Undecryptable(Head1(w))
    /\ Ends(w)
    /\ UNCHANGED <<posOf, recv, native, copies, dropped, overlapped>>

\* With one: it will be tried on the session that is current now.
TextFindsSession(w) ==
    /\ worker[w].batch # <<>> /\ Head1(w) \in Texts /\ worker[w].h = 0
    /\ recv # 0
    /\ worker' = [worker EXCEPT ![w].h = recv]
    /\ UNCHANGED <<posOf, recv, native, pending, drain, storeVars, historyVars>>

\* The sender's key cannot be fetched: the text is dropped.
TextDropped(w) ==
    /\ worker[w].h # 0
    /\ Ends(w)
    /\ dropped' = dropped \cup {Head1(w)}
    /\ UNCHANGED <<posOf, recv, native, pending, drain, storeVars, copies, evicted, overlapped>>

\* A text that opens is shown; a receipt is not.
TextOpens(w) ==
    /\ worker[w].h # 0
    /\ Opens(worker[w].h, Head1(w))
    /\ native' = Opened(worker[w].h, Head1(w))
    /\ rows' = IF Head1(w) \in Receipts THEN rows
               ELSE [rows EXCEPT ![Head1(w)] = rows[Head1(w)] + 1]
    /\ Ends(w)
    /\ UNCHANGED <<posOf, recv, pending, drain, holders, copies, dropped, evicted, overlapped>>

TextFails(w) ==
    /\ worker[w].h # 0
    /\ ~Opens(worker[w].h, Head1(w))
    /\ Undecryptable(Head1(w))
    /\ Ends(w)
    /\ UNCHANGED <<posOf, recv, native, copies, dropped, overlapped>>

-----------------------------------------------------------------------------
\* The end of a drain: what failed replaces the peer's array, whatever array
\* that is by now; drains that iterate over the old one are cut off from it.
Finish(d, failed) ==
    /\ pending' = failed
    /\ drain' = [c \in Drains |-> IF c = d THEN Idle ELSE [drain[c] EXCEPT !.shared = FALSE]]

DrainAppends(d) ==
    /\ drain[d].trying
    /\ LET t == Head(drain[d].todo) IN
          /\ Opens(drain[d].h, t)
          /\ native' = Opened(drain[d].h, t)
          /\ rows' = IF t \in Receipts THEN rows ELSE [rows EXCEPT ![t] = rows[t] + 1]
          /\ holders' = holders \ {posOf[t]}
    /\ drain' = [drain EXCEPT ![d].todo = Tail(drain[d].todo), ![d].trying = FALSE]
    /\ UNCHANGED <<posOf, recv, worker, pending, historyVars>>

\* A retry that opens swaps the placeholder, if it is still there, for the
\* text, or removes it if it was a receipt's; the loop goes on when the
\* snapshot of the session is saved.
DrainOpens(d) ==
    /\ drain[d].trying
    /\ LET t == Head(drain[d].todo) IN
          /\ Opens(drain[d].h, t)
          /\ native' = Opened(drain[d].h, t)
          /\ rows' = IF posOf[t] \in holders /\ t \notin Receipts
                     THEN [rows EXCEPT ![t] = rows[t] + 1] ELSE rows
          /\ holders' = holders \ {posOf[t]}
    /\ drain' = [drain EXCEPT ![d].todo = Tail(drain[d].todo), ![d].trying = FALSE]
    /\ UNCHANGED <<posOf, recv, worker, pending, historyVars>>

\* One that does not stays for the next refresh, and the next text is tried.
DrainFails(d) ==
    /\ drain[d].trying
    /\ ~Opens(drain[d].h, Head(drain[d].todo))
    /\ LET failed == Append(drain[d].failed, Head(drain[d].todo)) IN
          IF Len(drain[d].todo) = 1 THEN Finish(d, failed)
          ELSE /\ drain' = [drain EXCEPT ![d].todo = Tail(drain[d].todo), ![d].failed = failed]
               /\ UNCHANGED pending
    /\ UNCHANGED <<posOf, recv, native, worker, storeVars, historyVars>>

DrainSaved(d) ==
    /\ drain[d] # Idle /\ ~drain[d].trying
    /\ IF drain[d].todo = <<>> THEN Finish(d, drain[d].failed)
       ELSE drain' = [drain EXCEPT ![d].trying = TRUE] /\ UNCHANGED pending
    /\ UNCHANGED <<posOf, recv, native, worker, storeVars, historyVars>>

\* deleteConversation: rows, inbound session and buffer; running drains and
\* ingests go on.
DeleteConversation ==
    /\ recv' = 0
    /\ pending' = <<>>
    /\ drain' = [d \in Drains |-> [drain[d] EXCEPT !.shared = FALSE]]
    /\ rows' = [t \in Texts |-> 0]
    /\ holders' = {}
    /\ settled' = {}
    /\ overlapped' = (overlapped \/ Running # {})
    /\ UNCHANGED <<posOf, native, worker, copies, dropped, evicted>>

Work(w) ==
    \/ KeyExchangeAccepted(w) \/ KeyExchangeRejected(w)
    \/ TextWithoutSession(w) \/ TextFindsSession(w) \/ TextDropped(w)
    \/ TextOpens(w) \/ TextFails(w)

Next ==
    \/ \E w \in Workers :
          \/ \E n \in 1..2 : \E s \in [1..n -> Envelopes] : IngestEnvelopes(w, s)
          \/ Work(w)
    \/ \E d \in Drains : DrainOpens(d) \/ DrainFails(d) \/ DrainSaved(d)
    \/ DeleteConversation

Spec == Init /\ [][Next]_vars

-----------------------------------------------------------------------------
(***************************************************************************)
(* Properties.                                                             *)
(***************************************************************************)

\* The texts that share the placeholder of t.
Namesakes(t) == {u \in Texts : posOf[u] = posOf[t]}

\* "so the user sees that a message arrived even though its plaintext is
\* unrecoverable": where a text reached the device there is a message or a
\* placeholder, whatever handshakes, retries and duplicate deliveries ran
\* meanwhile, unless the user deleted it or its sender's key was unavailable.
\* The message may be a namesake's, sealed at the same position of another
\* handshake.  A receipt among the namesakes may take the placeholder with it
\* when it is drained, and nothing is claimed of its position.
NothingVanishes ==
    \A t \in settled \ dropped :
        \/ Namesakes(t) \cap Receipts # {}
        \/ posOf[t] \in holders
        \/ \E u \in Namesakes(t) : rows[u] > 0

\* A text shows twice only if the node handed out the handshake it was
\* sealed in more than once, and also the text, unless a namesake left a
\* placeholder for it: a second copy, a retry or a second drain alone never
\* repeats a message.
ShownOnce ==
    \A t \in Texts : rows[t] > 1 =>
        copies[GenOf[t]] > 1 /\ (copies[t] > 1 \/ Namesakes(t) # {t})

\* A receipt that some session opened was applied.
Applied(t) == t \in Receipts /\ \E i \in DOMAIN native : t \in native[i].opened

\* "We now keep the ciphertext around": a text behind a placeholder of its
\* own is still there to be retried, in the buffer or with the drain that
\* visits it, unless it fell off a full buffer, it was a receipt that has
\* been applied, or two drains (or a deletion and a drain) overlapped.
KeptForRetry ==
    overlapped \/
    \A t \in settled \ evicted :
        \/ rows[t] > 0 \/ Applied(t)
        \/ posOf[t] \notin holders
        \/ Namesakes(t) # {t}
        \/ t \in Range1(pending)
        \/ \E d \in Drains : t \in Range1(drain[d].todo) \cup Range1(drain[d].failed)
=============================================================================
