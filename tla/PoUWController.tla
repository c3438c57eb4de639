---------------------------- MODULE PoUWController ----------------------------
(***************************************************************************)
(* The proof-of-useful-work controller of the JavaScript side              *)
(* (lib-client-react-native-js/PoUWController.ts), with the screens that   *)
(* drive it: a browser screen starts it when it is mounted and stops it    *)
(* when it is unmounted, the controls widget only starts it (usePoUW), and *)
(* every page that finishes loading records two receipts and flushes.      *)
(*                                                                         *)
(* The controller is a singleton and JavaScript runs to the next await, so *)
(* an action is the code between two awaits: a bridge or network call of   *)
(* one caller is open while every other caller goes on.                    *)
(***************************************************************************)
EXTENDS Naturals, Sequences, FiniteSets, Functions

CONSTANTS
    Screens,    \* mounts of a screen that starts the controller
    Loads,      \* page loads
    MaxBatch,   \* maxBatchSize
    Policies,   \* allowed_proof_types the node may answer with
    None        \* no timer, no challenge

ASSUME ControllerAssumption == MaxBatch \in Nat \ {0} /\ None \notin Screens

Kinds == <<"manifest", "content">>      \* the receipts of a load, in order
Challenges == [types : Policies, fresh : BOOLEAN]
Receipts == Loads \X {1, 2}

VARIABLES
    did,        \* clientDid is set
    running,    \* isRunning
    timer,      \* batchTimer: the start that made the interval
    intervals,  \* intervals that still fire
    challenge,  \* activeChallenge
    queue,      \* pendingReceipts
    posts,      \* batches in flight, and who awaits them
    mount,      \* what each screen's start is waiting for
    unmounted,  \* screens that are gone
    load,       \* each page load: where it is, its screen, the receipt at hand
    answered    \* history: receipts of batches the node answered

vars == <<did, running, timer, intervals, challenge, queue, posts, mount, unmounted, load,
          answered>>

NotLoaded == [pc |-> "idle", screen |-> None, k |-> 1, draft |-> None]
Drafts == [id : Receipts, type : {"manifest", "content", "hash"}, policy : Policies]
Batches == {b \in Seq(Drafts) : Len(b) \in 1..MaxBatch}
Posts == [by : Screens \cup Loads \cup {None}, batch : Batches]
LoadStates ==
    [pc : {"idle", "resolve", "record", "cap", "plain", "sign", "submit", "flush", "flushing", "done"},
     screen : Screens \cup {None}, k : {1, 2}, draft : Drafts \cup {None}]

TypeOK ==
    /\ did \in BOOLEAN /\ running \in BOOLEAN
    /\ timer \in Screens \cup {None} /\ intervals \subseteq Screens
    /\ challenge \in Challenges \cup {None}
    /\ queue \in Seq(Drafts) /\ posts \subseteq Posts
    /\ mount \in [Screens -> {"off", "identity", "cap", "plain", "on"}]
    /\ unmounted \subseteq Screens
    /\ load \in [Loads -> LoadStates]
    /\ \A l \in Loads : load[l].pc = "sign" => load[l].draft \in Drafts
    /\ answered \subseteq Receipts

Init ==
    /\ did = FALSE /\ running = FALSE
    /\ timer = None /\ intervals = {}
    /\ challenge = None
    /\ queue = <<>> /\ posts = {}
    /\ mount = [s \in Screens |-> "off"] /\ unmounted = {}
    /\ load = [l \in Loads |-> NotLoaded]
    /\ answered = {}

-----------------------------------------------------------------------------
(***************************************************************************)
(* submitBatch.                                                            *)
(***************************************************************************)
Take(q) == SubSeq(q, 1, IF Len(q) < MaxBatch THEN Len(q) ELSE MaxBatch)
Rest(q) == SubSeq(q, Len(Take(q)) + 1, Len(q))

\* The batch leaves the queue before the request is awaited.
Submit(by, q) ==
    /\ queue' = Rest(q)
    /\ posts' = posts \cup {[by |-> by, batch |-> Take(q)]}

\* What the caller does when its submitBatch returns.
NextRecord(l) == [load[l] EXCEPT !.pc = IF @ = "flushing" THEN "done"
                                        ELSE IF load[l].k = 1 THEN "record" ELSE "flush",
                                 !.k = 2, !.draft = None]
Continue(by) ==
    /\ running' = (running /\ by \notin Screens)
    /\ load' = IF by \in Loads THEN [load EXCEPT ![by] = NextRecord(by)] ELSE load

PostOk(p) ==
    /\ posts' = posts \ {p}
    /\ answered' = answered \cup {r.id : r \in Range(p.batch)}
    /\ Continue(p.by)
    /\ UNCHANGED <<did, timer, intervals, challenge, queue, mount, unmounted>>

PostFailsDrops(p) ==
    /\ posts' = posts \ {p}
    /\ Continue(p.by)
    /\ UNCHANGED <<did, timer, intervals, challenge, queue, mount, unmounted, answered>>

PostFailsCopies(p) ==
    /\ queue' = p.batch \o queue
    /\ Continue(p.by)
    /\ UNCHANGED <<did, timer, intervals, challenge, posts, mount, unmounted, answered>>

\* A failed batch goes back to the front of the queue.
PostFails(p) ==
    /\ posts' = posts \ {p}
    /\ queue' = p.batch \o queue
    /\ Continue(p.by)
    /\ UNCHANGED <<did, timer, intervals, challenge, mount, unmounted, answered>>

\* The flush button of the controls widget.
FlushPressed ==
    /\ \E s \in Screens : mount[s] # "off" /\ s \notin unmounted
    /\ queue # <<>> /\ did
    /\ Submit(None, queue)
    /\ UNCHANGED <<did, running, timer, intervals, challenge, mount, unmounted, load, answered>>

\* An interval fires.
Tick(s) ==
    /\ s \in intervals
    /\ queue # <<>> /\ did
    /\ Submit(None, queue)
    /\ UNCHANGED <<did, running, timer, intervals, challenge, mount, unmounted, load, answered>>

-----------------------------------------------------------------------------
(***************************************************************************)
(* start and stop.                                                         *)
(***************************************************************************)
Mount(s) ==
    /\ mount[s] = "off"
    /\ mount' = [mount EXCEPT ![s] = IF running THEN "on" ELSE "identity"]
    /\ UNCHANGED <<did, running, timer, intervals, challenge, queue, posts, unmounted, load, answered>>

IdentityRead(s) ==
    /\ mount[s] = "identity"
    /\ did' = TRUE
    /\ mount' = [mount EXCEPT ![s] = "cap"]
    /\ UNCHANGED <<running, timer, intervals, challenge, queue, posts, unmounted, load, answered>>

IdentityFails(s) ==
    /\ mount[s] = "identity"
    /\ mount' = [mount EXCEPT ![s] = "on"]
    /\ UNCHANGED <<did, running, timer, intervals, challenge, queue, posts, unmounted, load, answered>>

\* refreshChallenge of start asks for both kinds and settles for one of them;
\* the controller runs even when it got no challenge.
Started(s, ch) ==
    /\ challenge' = ch
    /\ mount' = [mount EXCEPT ![s] = "on"]
    /\ timer' = s /\ intervals' = intervals \cup {s}
    /\ running' = TRUE
    /\ UNCHANGED <<did, queue, posts, unmounted, load, answered>>

StartCapAnswers(s, ch) ==
    /\ mount[s] = "cap" /\ Range(Kinds) \subseteq ch.types
    /\ Started(s, ch)

StartCapFails(s) ==
    /\ mount[s] = "cap"
    /\ mount' = [mount EXCEPT ![s] = "plain"]
    /\ UNCHANGED <<did, running, timer, intervals, challenge, queue, posts, unmounted, load, answered>>

StartPlainAnswers(s, ch) ==
    /\ mount[s] = "plain" /\ Range(Kinds) \cap ch.types # {}
    /\ Started(s, ch)

StartPlainFails(s) == mount[s] = "plain" /\ Started(s, None)

StopUnawaited(s) ==
    /\ mount[s] # "off" /\ s \notin unmounted
    /\ unmounted' = unmounted \cup {s}
    /\ intervals' = intervals \ {timer} /\ timer' = None
    /\ IF queue # <<>> /\ did
          THEN Submit(None, queue) /\ UNCHANGED running
          ELSE running' = FALSE /\ UNCHANGED <<queue, posts>>
    /\ UNCHANGED <<did, challenge, mount, load, answered>>

\* Unmounting calls stop, even while start is still waiting: the current
\* interval is cleared, one batch is submitted, and isRunning falls when that
\* is answered.
Stop(s) ==
    /\ mount[s] # "off" /\ s \notin unmounted
    /\ unmounted' = unmounted \cup {s}
    /\ intervals' = intervals \ {timer} /\ timer' = None
    /\ IF queue # <<>> /\ did
          THEN Submit(s, queue) /\ UNCHANGED running
          ELSE running' = FALSE /\ UNCHANGED <<queue, posts>>
    /\ UNCHANGED <<did, challenge, mount, load, answered>>

-----------------------------------------------------------------------------
(***************************************************************************)
(* A page load: record a manifest receipt, a content receipt, then flush.  *)
(***************************************************************************)
Kind(l) == Kinds[load[l].k]
Fails(l) == load' = [load EXCEPT ![l].pc = "done", ![l].draft = None]

\* onLoadEnd skips a page while another of the same screen is in flight.
LoadEnds(l, s) ==
    /\ load[l].pc = "idle" /\ mount[s] # "off" /\ s \notin unmounted
    /\ \A m \in Loads : load[m].screen = s => load[m].pc = "done"
    /\ load' = [load EXCEPT ![l].pc = "resolve", ![l].screen = s]
    /\ UNCHANGED <<did, running, timer, intervals, challenge, queue, posts, mount, unmounted, answered>>

\* The session id and the domain are read, or one of them throws.
Resolved(l) ==
    /\ load[l].pc = "resolve"
    /\ load' = [load EXCEPT ![l].pc = "record"] \/ Fails(l)
    /\ UNCHANGED <<did, running, timer, intervals, challenge, queue, posts, mount, unmounted, answered>>

\* isChallengeValidForProofs.
Valid(ch, kind) == ch # None /\ ch.fresh /\ kind \in ch.types

\* createAndQueueReceipt after ensureChallenge: the receipt is drawn up from
\* the active challenge, with the hash type if the policy lacks its own.
Draft(l, ch) ==
    load' = [load EXCEPT ![l] =
        IF ~did THEN NextRecord(l)
        ELSE [load[l] EXCEPT !.pc = "sign",
                             !.draft = [id |-> <<l, load[l].k>>,
                                        type |-> IF Kind(l) \in ch.types THEN Kind(l) ELSE "hash",
                                        policy |-> ch.types]]]

Record(l) ==
    /\ load[l].pc = "record"
    /\ IF Valid(challenge, Kind(l)) THEN Draft(l, challenge)
                                    ELSE load' = [load EXCEPT ![l].pc = "cap"]
    /\ UNCHANGED <<did, running, timer, intervals, challenge, queue, posts, mount, unmounted, answered>>

\* refreshChallenge for the kind at hand; a challenge about to expire passes
\* only if it allows the hash type.
CapAnswers(l, ch) ==
    /\ load[l].pc \in {"cap", "plain"} /\ Kind(l) \in ch.types
    /\ challenge' = ch
    /\ IF ch.fresh \/ "hash" \in ch.types THEN Draft(l, ch) ELSE Fails(l)
    /\ UNCHANGED <<did, running, timer, intervals, queue, posts, mount, unmounted, answered>>

CapFails(l) ==
    /\ load[l].pc = "cap"
    /\ load' = [load EXCEPT ![l].pc = "plain"]
    /\ UNCHANGED <<did, running, timer, intervals, challenge, queue, posts, mount, unmounted, answered>>

PlainFails(l) ==
    /\ load[l].pc = "plain"
    /\ challenge' = None
    /\ Fails(l)
    /\ UNCHANGED <<did, running, timer, intervals, queue, posts, mount, unmounted, answered>>

SignedLate(l) ==
    /\ load[l].pc = "sign" /\ challenge # None
    /\ queue' = Append(queue, [load[l].draft EXCEPT !.policy = challenge.types])
    /\ load' = [load EXCEPT ![l] = NextRecord(l)]
    /\ UNCHANGED <<did, running, timer, intervals, challenge, posts, mount, unmounted, answered>>

\* The signed receipt is queued; a full batch is submitted at once.
Signed(l) ==
    /\ load[l].pc = "sign"
    /\ LET q == Append(queue, load[l].draft) IN
          IF Len(q) >= MaxBatch
          THEN Submit(l, q) /\ load' = [load EXCEPT ![l].pc = "submit"]
          ELSE queue' = q /\ load' = [load EXCEPT ![l] = NextRecord(l)] /\ UNCHANGED posts
    /\ UNCHANGED <<did, running, timer, intervals, challenge, mount, unmounted, answered>>

SignFails(l) ==
    /\ load[l].pc = "sign"
    /\ Fails(l)
    /\ UNCHANGED <<did, running, timer, intervals, challenge, queue, posts, mount, unmounted, answered>>

Flush(l) ==
    /\ load[l].pc = "flush"
    /\ IF queue # <<>> /\ did
          THEN Submit(l, queue) /\ load' = [load EXCEPT ![l].pc = "flushing"]
          ELSE Fails(l) /\ UNCHANGED <<queue, posts>>
    /\ UNCHANGED <<did, running, timer, intervals, challenge, mount, unmounted, answered>>

\* Time passes: the challenge is within 30 s of its expiry.
ChallengeExpires ==
    /\ challenge # None /\ challenge.fresh
    /\ challenge' = [challenge EXCEPT !.fresh = FALSE]
    /\ UNCHANGED <<did, running, timer, intervals, queue, posts, mount, unmounted, load, answered>>

-----------------------------------------------------------------------------
Next ==
    \/ \E p \in posts : PostOk(p) \/ PostFails(p)
    \/ \E s \in Screens :
          \/ Mount(s) \/ IdentityRead(s) \/ IdentityFails(s)
          \/ \E ch \in Challenges : StartCapAnswers(s, ch) \/ StartPlainAnswers(s, ch)
          \/ StartCapFails(s) \/ StartPlainFails(s)
          \/ Stop(s) \/ Tick(s)
          \/ \E l \in Loads : LoadEnds(l, s)
    \/ \E l \in Loads :
          \/ Resolved(l) \/ Record(l)
          \/ \E ch \in Challenges : CapAnswers(l, ch)
          \/ CapFails(l) \/ PlainFails(l)
          \/ Signed(l) \/ SignFails(l) \/ Flush(l)
    \/ FlushPressed \/ ChallengeExpires

(***************************************************************************)
(* Fairness: the interval keeps firing, a request returns, and one of      *)
(* endlessly many requests gets through.  Nothing is assumed of the user.  *)
(***************************************************************************)
Fairness ==
    /\ \A s \in Screens : WF_vars(Tick(s))
    /\ WF_vars(\E p \in posts : PostOk(p) \/ PostFails(p))
    /\ SF_vars(\E p \in posts : PostOk(p))

Spec == Init /\ [][Next]_vars /\ Fairness

-----------------------------------------------------------------------------
(***************************************************************************)
(* Properties.                                                             *)
(***************************************************************************)
InQueue(r) == {i \in DOMAIN queue : queue[i].id = r}
InFlight(r) == UNION {{<<p, i>> : i \in {j \in DOMAIN p.batch : p.batch[j].id = r}} : p \in posts}

\* However ticks, flushes, full batches and stops interleave with failing
\* requests, a receipt is in one place only: no batch is sent twice at the
\* same time and nothing that was answered is queued again.
InOnePlace ==
    \A r \in Receipts :
        Cardinality(InQueue(r)) + Cardinality(InFlight(r)) <= (IF r \in answered THEN 0 ELSE 1)

\* A receipt claims a proof type that the challenge it carries allows, although
\* other loads replace the active challenge while it is being signed.
PolicyAllowsReceipt ==
    \A r \in Range(queue) \cup UNION {Range(p.batch) : p \in posts} : r.type \in r.policy

\* While the controller says it runs, some interval is firing, or a stop is
\* about to say otherwise: overlapping starts and stops never leave it
\* running without a timer.
RunningMeansTimed ==
    running => intervals # {} \/ \E p \in posts : p.by \in Screens

\* A queued receipt reaches the node, unless the controller is stopped.
ReceiptsGetThrough ==
    \A r \in Receipts : InQueue(r) \cup InFlight(r) # {} ~> (r \in answered \/ ~running)
=============================================================================
