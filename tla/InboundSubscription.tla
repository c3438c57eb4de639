------------------------- MODULE InboundSubscription -------------------------
(***************************************************************************)
(* The server-push inbound stream of src/services/MessagingService.ts on   *)
(* top of QuicSessionManager: who starts, stops and revives it, and how    *)
(* the native readers' events reach it through the dispatcher of           *)
(* src/services/NativeQuicSession.ts.                                      *)
(*                                                                         *)
(* The subscription is the manager's only caller: the persistent path of   *)
(* src/services/quic.ts is switched off, but its recovery still calls      *)
(* dropSession.  An action is the code between two awaits.  The starter's  *)
(* `finally` runs in the same microtask drain as the end of the open it    *)
(* awaits, before any timer, effect or native event, so it belongs to the  *)
(* action that ends the open.                                              *)
(*                                                                         *)
(* Left out: how long a backoff lasts (inboundReopenAttempts only sets the *)
(* delay), what a frame holds (ingestion is another component), and the    *)
(* difference between QuicInboundClosed and QuicInboundError, whose        *)
(* handlers do the same.  inboundUnsubscribe is set and cleared together   *)
(* with inboundStreamId and is not a variable of its own.                  *)
(*                                                                         *)
(* Native closeSession runs on a thread of its own: it cancels the readers *)
(* it finds on the session, waits for them to leave and frees the session. *)
(* An openInbound that found the session in the table may start a reader   *)
(* in between.  The wait gives up after 2.5 s, which the 1 s poll of a     *)
(* reader never needs; the model waits.  A session that OpenContinues      *)
(* discards was never handed out, so its teardown is not visible.          *)
(***************************************************************************)
EXTENDS QuicSessionManager, Naturals, Sequences

CONSTANTS
    Inbound,        \* the subscription, as a caller of getSession
    Streams,        \* names for inbound streams (a bound)
    NoStream,       \* `null` as a stream id
    MaxFailures,    \* INBOUND_MAX_CONSECUTIVE_FAILURES
    MaxConsumers,   \* bound: screens mounted at once
    MaxBuffered     \* bound: events buffered for one stream

ASSUME InboundAssumption ==
    /\ Inbound \in Callers
    /\ NoStream \notin Streams
    /\ MaxFailures \in Nat /\ MaxConsumers \in Nat /\ MaxBuffered \in Nat

VARIABLES
    inboundStreamId,     \* the published stream, or NoStream
    inboundOpen,         \* where the open in flight is ("none": inboundOpenInFlight is null)
    pendingStreamId,     \* the stream the open in flight got, before it is published
    inboundReopenTimer,  \* a reopen is scheduled
    failures,            \* inboundConsecutiveFailures
    inboundStopped,
    offline,             \* inboundSubscriptionOffline
    capHit,              \* inboundCapHitAtMs: "never" (null), "recent", or "elapsed"
                         \* once INBOUND_CAP_QUIET_MS have passed
    consumers,           \* inboundConsumerCount
    reader,              \* native reader thread of each stream: "cancelled" by
                         \* closeInbound, or "joined" by a closeSession waiting for it
    streamSession,       \* the session each stream rides on
    teardown,            \* closeSession of each session: "asked", "joining" its
                         \* readers, or "none" (not asked, or freed)
    subscribers,         \* streams with a subscriber (subscribersByStreamId)
    buffered             \* bufferedEventsByStreamId

retryVars  == <<inboundReopenTimer, failures, offline, capHit>>
streamVars == <<subscribers, buffered>>
nativeVars == <<reader, streamSession, teardown>>
vars == <<sessionVars, inboundStreamId, inboundOpen, pendingStreamId, retryVars,
          inboundStopped, consumers, nativeVars, streamVars>>

InboundOpenStates == {"none", "session", "stream", "opened"}
ReaderStates == {"none", "running", "cancelled", "joined"}
TeardownStates == {"none", "asked", "joining"}

TypeOK ==
    /\ SessionTypeOK
    /\ inboundStreamId \in Streams \cup {NoStream}
    /\ inboundOpen \in InboundOpenStates
    /\ pendingStreamId \in Streams \cup {NoStream}
    /\ inboundReopenTimer \in BOOLEAN
    /\ failures \in 0..MaxFailures
    /\ inboundStopped \in BOOLEAN
    /\ offline \in BOOLEAN
    /\ capHit \in {"never", "recent", "elapsed"}
    /\ consumers \in 0..MaxConsumers
    /\ reader \in [Streams -> ReaderStates]
    /\ streamSession \in [Streams -> Opens \cup {NoSession}]
    /\ teardown \in [Opens -> TeardownStates]
    /\ subscribers \in SUBSET Streams
    /\ buffered \in [Streams -> Seq({"frame", "closed"})]

Init ==
    /\ SessionInit
    /\ inboundStreamId = NoStream
    /\ inboundOpen = "none"
    /\ pendingStreamId = NoStream
    /\ inboundReopenTimer = FALSE
    /\ failures = 0
    /\ inboundStopped = FALSE
    /\ offline = FALSE
    /\ capHit = "never"
    /\ consumers = 0
    /\ reader = [s \in Streams |-> "none"]
    /\ streamSession = [s \in Streams |-> NoSession]
    /\ teardown = [o \in Opens |-> "none"]
    /\ subscribers = {}
    /\ buffered = [s \in Streams |-> <<>>]

-----------------------------------------------------------------------------
(***************************************************************************)
(* Starting.                                                               *)
(***************************************************************************)

\* The closure subscribeInbound returned: the subscriber and whatever is
\* buffered for the stream are forgotten.
Unsubscribe(s) ==
    /\ subscribers' = subscribers \ {s}
    /\ buffered' = [t \in Streams |-> IF t = s THEN <<>> ELSE buffered[t]]

ResetCap ==
    /\ failures' = 0
    /\ capHit' = "never"
    /\ offline' = FALSE

\* A session id is a UUID: a new open takes no name that a teardown or a
\* reader still refers to.
FreshSession ==
    inFlight' # inFlight =>
        /\ teardown[inFlight'] = "none"
        /\ \A s \in Streams : reader[s] # "none" => streamSession[s] # inFlight'

StartForgetsUnsubscribe(force) ==
    /\ inboundStopped' = FALSE
    /\ inboundStreamId' = IF force THEN NoStream ELSE inboundStreamId
    /\ \/ /\ inboundStreamId' # NoStream \/ inboundOpen # "none"
          /\ UNCHANGED <<sessionVars, inboundOpen>>
       \/ /\ inboundStreamId' = NoStream
          /\ inboundOpen = "none"
          /\ inboundOpen' = "session"
          /\ GetSession(Inbound)
          /\ FreshSession
    /\ UNCHANGED <<pendingStreamId, nativeVars, streamVars>>

\* startInboundSubscription: re-arm, drop a stale stream when forced, then
\* bail out if a stream is open, coalesce into an open in flight, or open.
StartInboundSubscription(force) ==
    /\ inboundStopped' = FALSE
    /\ \/ /\ force
          /\ Unsubscribe(inboundStreamId)
          /\ inboundStreamId' = NoStream
       \/ /\ ~force
          /\ UNCHANGED <<streamVars, inboundStreamId>>
    /\ \/ /\ inboundStreamId' # NoStream \/ inboundOpen # "none"
          /\ UNCHANGED <<sessionVars, inboundOpen>>
       \/ /\ inboundStreamId' = NoStream
          /\ inboundOpen = "none"
          /\ inboundOpen' = "session"
          /\ GetSession(Inbound)
          /\ FreshSession
    /\ UNCHANGED <<pendingStreamId, nativeVars>>

\* registerInboundConsumer: the first mounted screen starts the stream and
\* resets the cap, unless the cap was hit less than a quiet period ago.
RegisterInboundConsumer ==
    /\ consumers < MaxConsumers
    /\ consumers' = consumers + 1
    /\ UNCHANGED inboundReopenTimer
    /\ \/ /\ consumers = 0 /\ capHit # "recent"
          /\ ResetCap
          /\ StartInboundSubscription(FALSE)
       \/ /\ consumers > 0 \/ capHit = "recent"
          /\ UNCHANGED <<sessionVars, inboundStreamId, inboundOpen, pendingStreamId, failures,
                         capHit, offline, inboundStopped, nativeVars, streamVars>>

\* The unregister function: unmounting never tears the stream down.
UnregisterInboundConsumer ==
    /\ consumers > 0
    /\ consumers' = consumers - 1
    /\ UNCHANGED <<sessionVars, inboundStreamId, inboundOpen, pendingStreamId, retryVars,
                   inboundStopped, nativeVars, streamVars>>

ResumeKeepsOffline ==
    /\ boundDid # NoDid
    /\ consumers > 0
    /\ failures' = 0
    /\ StartInboundSubscription(TRUE)
    /\ UNCHANGED <<inboundReopenTimer, consumers, capHit, offline>>

\* AppState 'active' while signed in: AuthContext drains the deposit store
\* and then calls resumeInboundOnForeground.
ResumeInboundOnForeground ==
    /\ boundDid # NoDid
    /\ consumers > 0
    /\ ResetCap
    /\ StartInboundSubscription(TRUE)
    /\ UNCHANGED <<inboundReopenTimer, consumers>>

ScheduleUncapped ==
    IF inboundStopped \/ inboundReopenTimer
    THEN UNCHANGED retryVars
    ELSE /\ failures' = failures + 1
         /\ inboundReopenTimer' = TRUE
         /\ UNCHANGED <<capHit, offline>>

ScheduleCapsSilently ==
    IF inboundStopped \/ inboundReopenTimer \/ failures >= MaxFailures
    THEN UNCHANGED retryVars
    ELSE /\ failures' = failures + 1
         /\ inboundReopenTimer' = TRUE
         /\ UNCHANGED <<capHit, offline>>

\* scheduleInboundReopen: nothing when stopped or already scheduled, offline
\* when the cap is reached, otherwise one more counted attempt.
ScheduleInboundReopen ==
    IF inboundStopped \/ inboundReopenTimer
    THEN UNCHANGED retryVars
    ELSE IF failures >= MaxFailures
    THEN /\ capHit' = "recent"
         /\ offline' = TRUE
         /\ UNCHANGED <<inboundReopenTimer, failures>>
    ELSE /\ failures' = failures + 1
         /\ inboundReopenTimer' = TRUE
         /\ UNCHANGED <<capHit, offline>>

TimerFires ==
    /\ inboundReopenTimer
    /\ inboundReopenTimer' = FALSE
    /\ StartInboundSubscription(FALSE)
    /\ UNCHANGED <<failures, capHit, offline, consumers>>

\* Date.now() moves past inboundCapHitAtMs + INBOUND_CAP_QUIET_MS.
QuietPeriodElapses ==
    /\ capHit = "recent"
    /\ capHit' = "elapsed"
    /\ UNCHANGED <<sessionVars, inboundStreamId, inboundOpen, pendingStreamId,
                   inboundReopenTimer, failures, offline, inboundStopped, consumers,
                   nativeVars, streamVars>>

-----------------------------------------------------------------------------
(***************************************************************************)
(* The open in flight.                                                     *)
(***************************************************************************)

\* getSession rejected: schedule a reopen and return.
GetSessionFailed ==
    /\ inboundOpen = "session"
    /\ call[Inbound].st = "rejected"
    /\ ScheduleInboundReopen
    /\ inboundOpen' = "none"
    /\ UNCHANGED <<sessionVars, inboundStreamId, pendingStreamId, inboundStopped, consumers,
                   nativeVars, streamVars>>

\* getSession resolved: call openInbound with the session it returned.
OpenInbound ==
    /\ inboundOpen = "session"
    /\ call[Inbound].st = "resolved"
    /\ inboundOpen' = "stream"
    /\ UNCHANGED <<sessionVars, inboundStreamId, pendingStreamId, retryVars, inboundStopped,
                   consumers, nativeVars, streamVars>>

\* A stream id is a UUID; the model reuses a name nothing refers to.
FreshStream(s) ==
    /\ reader[s] = "none"
    /\ s \notin subscribers
    /\ s # inboundStreamId

\* Sessions still in the native table: not closed, or not freed yet.
InTable(o) == o \in sessions \/ (o \in Opens /\ teardown[o] # "none")

\* Native openInbound: the session must still be in the table.  The reader
\* starts before the promise resolves in JavaScript.
NativeOpensInbound(s) ==
    /\ inboundOpen = "stream"
    /\ InTable(call[Inbound].id)
    /\ FreshStream(s)
    /\ inboundOpen' = "opened"
    /\ pendingStreamId' = s
    /\ reader' = [reader EXCEPT ![s] = "running"]
    /\ streamSession' = [streamSession EXCEPT ![s] = call[Inbound].id]
    /\ buffered' = [buffered EXCEPT ![s] = <<>>]
    /\ UNCHANGED <<sessionVars, inboundStreamId, retryVars, inboundStopped, consumers,
                   subscribers, teardown>>

OpenInboundFailedGivesUp ==
    /\ inboundOpen = "stream"
    /\ inboundOpen' = "none"
    /\ UNCHANGED <<sessionVars, inboundStreamId, pendingStreamId, retryVars, inboundStopped,
                   consumers, nativeVars, streamVars>>

\* openInbound rejected, because the session is gone or the node refused.
OpenInboundFailed ==
    /\ inboundOpen = "stream"
    /\ ScheduleInboundReopen
    /\ inboundOpen' = "none"
    /\ UNCHANGED <<sessionVars, inboundStreamId, pendingStreamId, inboundStopped, consumers,
                   nativeVars, streamVars>>

\* openInbound resolved: subscribeInbound registers the subscriber and
\* replays what was buffered, and only then is the stream published.  A
\* replayed frame resets the cap; a replayed close finds another stream id
\* in inboundStreamId and is ignored.
SubscribeAndPublish ==
    /\ inboundOpen = "opened"
    /\ subscribers' = subscribers \cup {pendingStreamId}
    /\ buffered' = [buffered EXCEPT ![pendingStreamId] = <<>>]
    /\ \/ /\ \E i \in DOMAIN buffered[pendingStreamId] : buffered[pendingStreamId][i] = "frame"
          /\ ResetCap
       \/ /\ \A i \in DOMAIN buffered[pendingStreamId] : buffered[pendingStreamId][i] # "frame"
          /\ UNCHANGED <<failures, capHit, offline>>
    /\ inboundStreamId' = pendingStreamId
    /\ pendingStreamId' = NoStream
    /\ inboundOpen' = "none"
    /\ UNCHANGED <<sessionVars, inboundReopenTimer, inboundStopped, consumers, nativeVars>>

-----------------------------------------------------------------------------
(***************************************************************************)
(* Native readers and the dispatcher.                                      *)
(***************************************************************************)

\* dispatchOrBuffer without a subscriber.
Buffer(s, event) ==
    /\ s \notin subscribers
    /\ buffered' = [buffered EXCEPT ![s] = Append(@, event)]

\* A reader that is running, or cancelled while a read is returning, emits a
\* frame: delivered to the subscriber, whose onFrame resets the cap, or
\* buffered.
FrameArrives(s) ==
    /\ reader[s] # "none"
    /\ \/ /\ s \in subscribers
          /\ ResetCap
          /\ UNCHANGED buffered
       \/ /\ Len(buffered[s]) < MaxBuffered
          /\ Buffer(s, "frame")
          /\ UNCHANGED <<failures, capHit, offline>>
    /\ UNCHANGED <<sessionVars, inboundStreamId, inboundOpen, pendingStreamId,
                   inboundReopenTimer, inboundStopped, consumers, nativeVars, subscribers>>

\* The peer closes a stream, or a read fails: the reader reports it and ends.
\* onClosed of the published stream drops it and schedules a reopen.
StreamCloses(s) ==
    /\ reader[s] # "none"
    /\ reader' = [reader EXCEPT ![s] = "none"]
    /\ \/ /\ s \in subscribers
          /\ s = inboundStreamId
          /\ inboundStreamId' = NoStream
          /\ Unsubscribe(s)
          /\ ScheduleInboundReopen
       \/ /\ s \in subscribers
          /\ s # inboundStreamId
          /\ UNCHANGED <<inboundStreamId, streamVars, retryVars>>
       \/ /\ Buffer(s, "closed")
          /\ UNCHANGED <<inboundStreamId, subscribers, retryVars>>
    /\ UNCHANGED <<sessionVars, inboundOpen, pendingStreamId, inboundStopped, consumers,
                   streamSession, teardown>>

\* A cancelled reader leaves its loop without an event.
CancelledReaderExits(s) ==
    /\ reader[s] \in {"cancelled", "joined"}
    /\ reader' = [reader EXCEPT ![s] = "none"]
    /\ UNCHANGED <<sessionVars, inboundStreamId, inboundOpen, pendingStreamId, retryVars,
                   inboundStopped, consumers, streamSession, teardown, streamVars>>

\* The thread of closeSession: cancel every reader now on the session ...
NativeCancelsReaders(o) ==
    /\ teardown[o] = "asked"
    /\ teardown' = [teardown EXCEPT ![o] = "joining"]
    /\ reader' = [s \in Streams |-> IF reader[s] # "none" /\ streamSession[s] = o
                                    THEN "joined" ELSE reader[s]]
    /\ UNCHANGED <<sessionVars, inboundStreamId, inboundOpen, pendingStreamId, retryVars,
                   inboundStopped, consumers, streamSession, streamVars>>

\* ... and free the session when those have left.
NativeFreesSession(o) ==
    /\ teardown[o] = "joining"
    /\ \A s \in Streams : reader[s] = "joined" => streamSession[s] # o
    /\ teardown' = [teardown EXCEPT ![o] = "none"]
    /\ UNCHANGED <<sessionVars, inboundStreamId, inboundOpen, pendingStreamId, retryVars,
                   inboundStopped, consumers, reader, streamSession, streamVars>>

-----------------------------------------------------------------------------
(***************************************************************************)
(* Identity changes and transport recovery.                                *)
(***************************************************************************)

\* closeSession of the cached session, if there is one.
AskTeardown ==
    teardown' = [o \in Opens |-> IF o = liveSessionId THEN "asked" ELSE teardown[o]]

\* stopInboundSubscription: closeInbound cancels the reader of the stream.
StopInboundSubscription ==
    /\ inboundStopped' = TRUE
    /\ inboundReopenTimer' = FALSE
    /\ ResetCap
    /\ Unsubscribe(inboundStreamId)
    /\ inboundStreamId' = NoStream
    /\ reader' = [s \in Streams |-> IF s = inboundStreamId /\ reader[s] = "running"
                                    THEN "cancelled" ELSE reader[s]]

\* AuthContext on a new currentIdentity.did: the old identity's effect
\* cleanup stops the subscription, then bindIdentity closes the session.
\* One React commit runs both.
SwitchIdentity(did) ==
    /\ BindIdentity(did)
    /\ AskTeardown
    /\ \/ /\ boundDid # NoDid
          /\ StopInboundSubscription
       \/ /\ boundDid = NoDid
          /\ UNCHANGED <<inboundStopped, retryVars, streamVars, inboundStreamId, reader>>
    /\ UNCHANGED <<inboundOpen, pendingStreamId, consumers, streamSession>>

\* resetAuthSession of quic.ts, after a desynchronised authenticated request.
RecoverTransport ==
    /\ DropSession
    /\ AskTeardown
    /\ UNCHANGED <<inboundStreamId, inboundOpen, pendingStreamId, retryVars, inboundStopped,
                   consumers, reader, streamSession, streamVars>>

OpenStep ==
    /\ OpenSteps
    /\ UNCHANGED <<inboundStreamId, inboundOpen, pendingStreamId, retryVars, inboundStopped,
                   consumers, nativeVars, streamVars>>

-----------------------------------------------------------------------------
SubscriptionSteps ==
    \/ GetSessionFailed
    \/ OpenInbound
    \/ (\E s \in Streams : NativeOpensInbound(s)) \/ OpenInboundFailed
    \/ SubscribeAndPublish

Next ==
    \/ RegisterInboundConsumer
    \/ UnregisterInboundConsumer
    \/ ResumeInboundOnForeground
    \/ TimerFires
    \/ QuietPeriodElapses
    \/ SubscriptionSteps
    \/ \E s \in Streams : FrameArrives(s) \/ StreamCloses(s) \/ CancelledReaderExits(s)
    \/ \E o \in Opens : NativeCancelsReaders(o) \/ NativeFreesSession(o)
    \/ \E did \in Dids \cup {NoDid, EmptyDid} : SwitchIdentity(did)
    \/ RecoverTransport
    \/ OpenStep

\* Continuations run, timers fire, the native calls and threads make progress,
\* a cancelled reader notices within its polling interval, and a read whose
\* session was freed does not last.  Users, the peer and the recovery path owe
\* nothing.
Fairness ==
    /\ WF_vars(SubscriptionSteps)
    /\ WF_vars(TimerFires)
    /\ WF_vars(OpenStep)
    /\ \A o \in Opens : WF_vars(NativeCancelsReaders(o)) /\ WF_vars(NativeFreesSession(o))
    /\ \A s \in Streams : /\ WF_vars(CancelledReaderExits(s))
                          /\ WF_vars(~InTable(streamSession[s]) /\ StreamCloses(s))

Spec == Init /\ [][Next]_vars /\ Fairness

-----------------------------------------------------------------------------
(***************************************************************************)
(* Properties.                                                             *)
(***************************************************************************)

\* A revival is never forgotten: while a screen wants the stream and nobody
\* stopped it, either a stream is published, an open is in flight, a reopen
\* is scheduled, or the subscription shows as offline.  Starts, failed opens,
\* closes and timers have to hand over to each other without a gap.
NeverSilentlyIdle ==
    consumers > 0 /\ ~inboundStopped =>
        \/ inboundStreamId # NoStream
        \/ inboundOpen # "none"
        \/ inboundReopenTimer
        \/ offline

\* The offline badge is truthful: it shows only after the retry budget is
\* spent, and then nothing is open, opening or scheduled behind it.
OfflineIsTruthful ==
    offline => /\ failures = MaxFailures
               /\ capHit # "never"
               /\ inboundStreamId = NoStream
               /\ inboundOpen = "none"
               /\ ~inboundReopenTimer

\* A reader that runs on a session nobody asked to close rides on the cached
\* session of the bound identity: an identity change or a recovery leaves no
\* session behind that feeds a stream and that nobody will ever close, even
\* when it overtakes the open of the session or of the stream.
ReaderRidesOnBoundSession ==
    \A s \in Streams :
        reader[s] = "running" /\ streamSession[s] \in sessions =>
            /\ streamSession[s] = liveSessionId
            /\ openDid[streamSession[s]] = boundDid

\* Frames are forwarded from one stream only, the published one: a stream
\* that was replaced, stopped or closed has no subscriber left to ingest a
\* second copy.
OnlyPublishedIsSubscribed ==
    subscribers = {inboundStreamId} \ {NoStream}

\* While a screen stays mounted and the subscription is not stopped, it ends
\* up with a stream or shows as offline; the open, the retries and the cap
\* never leave it hanging, unless the user keeps re-arming the cap by
\* foregrounding the app again and again.
SubscriptionConverges ==
    <>[][~ResumeInboundOnForeground]_vars =>
        ((consumers > 0 /\ ~inboundStopped)
            ~> (inboundStreamId # NoStream \/ offline \/ inboundStopped \/ consumers = 0))
=============================================================================
