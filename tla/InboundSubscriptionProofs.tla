---------------------- MODULE InboundSubscriptionProofs ----------------------
(***************************************************************************)
(* What the session manager and the inbound subscription on top of it      *)
(* promise for any number of identities, callers, sessions, streams and    *)
(* mounted screens and any retry budget.                                   *)
(*                                                                         *)
(* The first part is about the manager alone, whoever calls it.  There     *)
(* SessionInv is inductive: an open captured the identity that was bound   *)
(* when it started, a caller waits only for an open of the identity it     *)
(* saw, and a session that was opened but not yet cached is in the native  *)
(* table.                                                                  *)
(*                                                                         *)
(* The composition is layered: each of its steps is a step of the session  *)
(* manager or leaves the manager alone, so the manager's invariant carries *)
(* over; on top of it, ControlInv is inductive for the control state of    *)
(* the subscription.  Its key part is that an open in flight and a         *)
(* published stream exclude each other.                                    *)
(***************************************************************************)
EXTENDS InboundSubscription, TLAPS

(***************************************************************************)
(* The session manager.                                                    *)
(***************************************************************************)
\* The cached session's open is over (so no continuation will close it).
LiveIsResolved == liveSessionId # NoSession => openSt[liveSessionId] = "resolved"

\* New callers only join an open of the bound identity.
InFlightIsBound ==
    inFlight # NoSession => boundDid # NoDid /\ openDid[inFlight] = boundDid

\* A call waits for, or returned, an open of the identity it was made under.
CallsFollowIdentity ==
    \A c \in Callers :
        call[c].st \in {"creator", "joined", "resolved"} =>
            /\ call[c].id \in Opens
            /\ openDid[call[c].id] = call[c].did
            /\ call[c].did # NoDid

OpenedIsInTable == \A o \in Opens : openSt[o] = "opened" => o \in sessions

SessionInv ==
    /\ SessionTypeOK
    /\ CachedSessionIsBound
    /\ LiveIsResolved
    /\ InFlightIsBound
    /\ InFlightHasCreator
    /\ CallsFollowIdentity
    /\ OpenedIsInTable

\* The initial state, before any identity is bound, satisfies the invariant.
LEMMA SessionInitInv == SessionInit => SessionInv
  BY NullsAssumption
  DEF SessionInit, SessionInv, SessionTypeOK, CachedSessionIsBound, LiveIsResolved,
      InFlightIsBound, InFlightHasCreator, CallsFollowIdentity, OpenedIsInTable,
      OpenStates, CallStates

\* Every step of the manager, of a caller or of the native module keeps it.
LEMMA SessionStepInv == SessionInv /\ [SessionNext]_sessionVars => SessionInv'
<1> SUFFICES ASSUME SessionInv, [SessionNext]_sessionVars
             PROVE  SessionInv'
  OBVIOUS
<1> USE NullsAssumption
    DEF SessionInv, SessionTypeOK, CachedSessionIsBound, LiveIsResolved, InFlightIsBound,
        InFlightHasCreator, CallsFollowIdentity, OpenedIsInTable, OpenStates, CallStates,
        managerVars, openVars
<1>1. ASSUME NEW did \in Dids \cup {NoDid, EmptyDid}, BindIdentity(did)
      PROVE  SessionInv'
  BY <1>1 DEF BindIdentity, Normalised
<1>2. CASE DropSession
  BY <1>2 DEF DropSession
<1>3. ASSUME NEW c \in Callers, GetSession(c)
      PROVE  SessionInv'
  <2>1. CASE GetSessionUnbound(c)
    BY <1>3, <2>1 DEF GetSession, CanCall, GetSessionUnbound, Called
  <2>2. CASE GetSessionCached(c)
    BY <1>3, <2>2 DEF GetSession, CanCall, GetSessionCached, Called
  <2>3. CASE GetSessionJoins(c)
    BY <1>3, <2>3 DEF GetSession, CanCall, GetSessionJoins, Called
  <2>4. CASE GetSessionOpens(c)
    BY <1>3, <2>4 DEF GetSession, CanCall, GetSessionOpens, Called, Fresh
  <2> QED
    BY <1>3, <2>1, <2>2, <2>3, <2>4 DEF GetSession
<1>4. ASSUME NEW o \in Opens, NativeOpens(o)
      PROVE  SessionInv'
  BY <1>4 DEF NativeOpens
<1>5. ASSUME NEW o \in Opens, NativeOpenFails(o)
      PROVE  SessionInv'
  BY <1>5 DEF NativeOpenFails
<1>6. ASSUME NEW o \in Opens, OpenContinues(o)
      PROVE  SessionInv'
  BY <1>6 DEF OpenContinues
<1>7. ASSUME NEW c \in Callers, CreatorSettles(c)
      PROVE  SessionInv'
  BY <1>7 DEF CreatorSettles, Settle, Settled
<1>8. ASSUME NEW c \in Callers, JoinerSettles(c)
      PROVE  SessionInv'
  BY <1>8 DEF JoinerSettles, Settle, Settled
<1>9. CASE UNCHANGED sessionVars
  BY <1>9 DEF sessionVars
<1> QED
  BY <1>1, <1>2, <1>3, <1>4, <1>5, <1>6, <1>7, <1>8, <1>9 DEF SessionNext, OpenSteps

\* The invariant holds throughout every behaviour of the manager.
THEOREM SessionInvariant == SessionSpec => []SessionInv
  BY SessionInitInv, SessionStepInv, PTL DEF SessionSpec

\* Every variable of the manager, its opens and its callers keeps its type.
THEOREM SessionTypeCorrect == SessionSpec => []SessionTypeOK
<1>1. SessionInv => SessionTypeOK
  BY DEF SessionInv
<1> QED
  BY <1>1, SessionInvariant, PTL

\* The cached session is always open and always the bound identity's.
THEOREM CachedSessionSafe == SessionSpec => []CachedSessionIsBound
<1>1. SessionInv => CachedSessionIsBound
  BY DEF SessionInv
<1> QED
  BY <1>1, SessionInvariant, PTL

\* No caller of getSession is ever given another identity's session.
THEOREM CallerIsolation == SessionSpec => []CallerGetsItsIdentity
<1>1. SessionInv => CallerGetsItsIdentity
  BY DEF SessionInv, CallsFollowIdentity, CallerGetsItsIdentity
<1> QED
  BY <1>1, SessionInvariant, PTL

\* No settled open stays behind as the promise that later calls join.
THEOREM InFlightCleared == SessionSpec => []InFlightHasCreator
<1>1. SessionInv => InFlightHasCreator
  BY DEF SessionInv
<1> QED
  BY <1>1, SessionInvariant, PTL

-----------------------------------------------------------------------------
(***************************************************************************)
(* The manager implements SessionRegister.  A step maps to a step of the   *)
(* register or to a stutter; the invariant supplies that the cached        *)
(* session and the answers are of the identities the register expects.     *)
(***************************************************************************)

\* No session is cached and no call resolved, so the register starts empty.
LEMMA RegisterInit == SessionInit => Register!Init
  BY NullsAssumption DEF SessionInit, Register!Init

\* Every step of the manager is a step of the register or a stutter.
LEMMA RegisterStep ==
    SessionInv /\ SessionInv' /\ [SessionNext]_sessionVars => [Register!Next]_Register!regVars
<1> SUFFICES ASSUME SessionInv, SessionInv', [SessionNext]_sessionVars
             PROVE  [Register!Next]_Register!regVars
  OBVIOUS
<1> USE NullsAssumption
    DEF SessionInv, SessionTypeOK, CachedSessionIsBound, LiveIsResolved, InFlightIsBound,
        CallsFollowIdentity, OpenedIsInTable, OpenStates, CallStates, managerVars, openVars,
        Register!regVars
<1>1. ASSUME NEW did \in Dids \cup {NoDid, EmptyDid}, BindIdentity(did)
      PROVE  Register!Rebind
  BY <1>1 DEF BindIdentity, Normalised, Register!Rebind
<1>2. CASE DropSession
  BY <1>2 DEF DropSession, Register!Next, Register!Drop
<1>3. ASSUME NEW c \in Callers, GetSession(c)
      PROVE  Register!Ask(c)
  <2>1. CASE GetSessionUnbound(c)
    <3> DEFINE ans == [u \in Callers |-> IF call[u].st = "resolved" THEN openDid[call[u].id] ELSE NoDid]
               told == [u \in Callers |-> call[u].did]
               cached == IF liveSessionId = NoSession THEN NoDid ELSE openDid[liveSessionId]
    <3>1. call' = [call EXCEPT ![c] = [st |-> "rejected", did |-> boundDid, id |-> NoSession]]
          /\ UNCHANGED <<boundDid, liveSessionId, openDid>>
      BY <2>1 DEF GetSessionUnbound, Called
    <3>2. cached = NoDid
      BY <2>1 DEF GetSessionUnbound
    <3>3. told' = [told EXCEPT ![c] = boundDid]
      BY <3>1
    <3>4. ans' = [ans EXCEPT ![c] = NoDid]
      BY <3>1
    <3> QED
      BY <3>1, <3>2, <3>3, <3>4 DEF Register!Ask
  <2>2. CASE GetSessionCached(c)
    BY <1>3, <2>2 DEF GetSession, CanCall, GetSessionCached, Called, Register!Ask
  <2>3. CASE GetSessionJoins(c)
    BY <1>3, <2>3, ZenonT(30) DEF GetSession, CanCall, GetSessionJoins, Called, Register!Ask
  <2>4. CASE GetSessionOpens(c)
    <3> DEFINE ans == [u \in Callers |-> IF call[u].st = "resolved" THEN openDid[call[u].id] ELSE NoDid]
               told == [u \in Callers |-> call[u].did]
    <3>1. PICK o \in Opens :
             /\ \A u \in Callers : call[u].id # o
             /\ openDid' = [openDid EXCEPT ![o] = boundDid]
             /\ call' = [call EXCEPT ![c] = [st |-> "creator", did |-> boundDid, id |-> o]]
      BY <2>4 DEF GetSessionOpens, Fresh, Called
    <3>2. liveSessionId = NoSession /\ UNCHANGED <<boundDid, liveSessionId>>
      BY <2>4 DEF GetSessionOpens
    <3>3. told' = [told EXCEPT ![c] = boundDid]
      BY <3>1
    <3>4. ans' = [ans EXCEPT ![c] = NoDid]
      BY <3>1, ZenonT(30)
    <3> QED
      BY <3>2, <3>3, <3>4 DEF Register!Ask
  <2> QED
    BY <1>3, <2>1, <2>2, <2>3, <2>4 DEF GetSession
<1>4. ASSUME NEW o \in Opens, NativeOpens(o) \/ NativeOpenFails(o)
      PROVE  UNCHANGED Register!regVars
  BY <1>4 DEF NativeOpens, NativeOpenFails
<1>5. ASSUME NEW o \in Opens, OpenContinues(o)
      PROVE  Register!Establish \/ UNCHANGED Register!regVars
  BY <1>5 DEF OpenContinues, Register!Establish
<1>6. ASSUME NEW c \in Callers, CreatorSettles(c) \/ JoinerSettles(c)
      PROVE  Register!Answer(c) \/ UNCHANGED Register!regVars
  <2> DEFINE ans == [u \in Callers |-> IF call[u].st = "resolved" THEN openDid[call[u].id] ELSE NoDid]
             told == [u \in Callers |-> call[u].did]
  <2>1. /\ call[c].st \in {"creator", "joined"}
        /\ call' = [call EXCEPT ![c] = [st  |-> openSt[call[c].id],
                                        did |-> call[c].did,
                                        id  |-> IF openSt[call[c].id] = "resolved"
                                                THEN call[c].id ELSE NoSession]]
        /\ UNCHANGED <<boundDid, liveSessionId, openDid>>
    BY <1>6 DEF CreatorSettles, JoinerSettles, Settle
  <2>2. told' = told
    BY <2>1
  <2>3. openDid[call[c].id] = call[c].did
    BY <2>1
  <2>4. CASE openSt[call[c].id] = "resolved"
    <3>1. ans' = [ans EXCEPT ![c] = told[c]]
      BY <2>1, <2>3, <2>4
    <3> QED
      BY <2>1, <2>2, <3>1 DEF Register!Answer
  <2>5. CASE openSt[call[c].id] # "resolved"
    <3>1. ans' = ans
      BY <2>1, <2>5
    <3> QED
      BY <2>1, <2>2, <3>1
  <2> QED
    BY <2>4, <2>5
<1>7. CASE UNCHANGED sessionVars
  BY <1>7 DEF sessionVars
<1> QED
  BY <1>1, <1>2, <1>3, <1>4, <1>5, <1>6, <1>7 DEF SessionNext, OpenSteps, Register!Next

\* The session manager implements the register, for any number of
\* identities, callers and overlapping opens.
THEOREM SessionRefinesRegister == SessionSpec => ImplementsRegister
  BY RegisterInit, RegisterStep, SessionInvariant, PTL
  DEF SessionSpec, ImplementsRegister, Register!Spec

-----------------------------------------------------------------------------
(***************************************************************************)
(* The subscription on top of it.                                          *)
(***************************************************************************)

\* Each step of the composition is a step of the session manager or none.
LEMMA StepIsSessionStep == [Next]_vars => [SessionNext]_sessionVars
<1> SUFFICES ASSUME [Next]_vars PROVE [SessionNext]_sessionVars
  OBVIOUS
<1>a. ASSUME NEW force \in BOOLEAN, StartInboundSubscription(force)
      PROVE  [SessionNext]_sessionVars
  BY <1>a, InboundAssumption DEF StartInboundSubscription, SessionNext
<1>1. CASE RegisterInboundConsumer
  BY <1>1, <1>a DEF RegisterInboundConsumer
<1>2. CASE UnregisterInboundConsumer
  BY <1>2 DEF UnregisterInboundConsumer
<1>3. CASE ResumeInboundOnForeground
  BY <1>3, <1>a DEF ResumeInboundOnForeground
<1>4. CASE TimerFires
  BY <1>4, <1>a DEF TimerFires
<1>5. CASE QuietPeriodElapses
  BY <1>5 DEF QuietPeriodElapses
<1>6. CASE SubscriptionSteps
  BY <1>6 DEF SubscriptionSteps, GetSessionFailed, OpenInbound, NativeOpensInbound,
              OpenInboundFailed, SubscribeAndPublish
<1>7. CASE \/ \E s \in Streams : FrameArrives(s) \/ StreamCloses(s) \/ CancelledReaderExits(s)
           \/ \E o \in Opens : NativeCancelsReaders(o) \/ NativeFreesSession(o)
  BY <1>7 DEF FrameArrives, StreamCloses, CancelledReaderExits, NativeCancelsReaders,
              NativeFreesSession
<1>8. CASE \E did \in Dids \cup {NoDid, EmptyDid} : SwitchIdentity(did)
  BY <1>8 DEF SwitchIdentity, SessionNext
<1>9. CASE RecoverTransport
  BY <1>9 DEF RecoverTransport, SessionNext
<1>10. CASE OpenStep
  BY <1>10 DEF OpenStep, SessionNext
<1>11. CASE UNCHANGED vars
  BY <1>11 DEF vars
<1> QED
  BY <1>1, <1>2, <1>3, <1>4, <1>5, <1>6, <1>7, <1>8, <1>9, <1>10, <1>11 DEF Next

\* The manager's invariant holds throughout the composition.
THEOREM SessionInvariantComposed == Spec => []SessionInv
<1>1. Init => SessionInv
  BY SessionInitInv DEF Init
<1>2. SessionInv /\ [Next]_vars => SessionInv'
  BY StepIsSessionStep, SessionStepInv
<1> QED
  BY <1>1, <1>2, PTL DEF Spec

\* The composition implements the register too: whatever the subscription,
\* its retries and the native readers do, every session that getSession hands
\* to the subscription is of the identity bound when it asked.
THEOREM SubscriptionRefinesRegister == Spec => ImplementsRegister
<1>1. Init => Register!Init
  BY RegisterInit DEF Init
<1>2. SessionInv /\ SessionInv' /\ [Next]_vars => [Register!Next]_Register!regVars
  BY StepIsSessionStep, RegisterStep
<1> QED
  BY <1>1, <1>2, SessionInvariantComposed, PTL DEF Spec, ImplementsRegister, Register!Spec

-----------------------------------------------------------------------------
\* The subscription's own part of the type invariant.
ControlTypeOK ==
    /\ inboundStreamId \in Streams \cup {NoStream}
    /\ inboundOpen \in InboundOpenStates
    /\ pendingStreamId \in Streams \cup {NoStream}
    /\ inboundReopenTimer \in BOOLEAN
    /\ failures \in 0..MaxFailures
    /\ inboundStopped \in BOOLEAN
    /\ offline \in BOOLEAN
    /\ capHit \in {"never", "recent", "elapsed"}
    /\ consumers \in 0..MaxConsumers

StreamTypeOK ==
    /\ reader \in [Streams -> ReaderStates]
    /\ streamSession \in [Streams -> Opens \cup {NoSession}]
    /\ teardown \in [Opens -> TeardownStates]
    /\ subscribers \in SUBSET Streams
    /\ buffered \in [Streams -> Seq({"frame", "closed"})]

\* startInboundSubscription opens only when nothing is published, and nothing
\* else publishes while an open is in flight.
OpenExcludesPublished == inboundOpen # "none" => inboundStreamId = NoStream

\* An open that reached its last step holds the stream it will publish.
OpenedHoldsStream == inboundOpen = "opened" => pendingStreamId \in Streams

\* inboundCapHitAtMs is set and cleared together with the offline flag.
CapMatchesOffline == offline <=> capHit # "never"

ControlInv ==
    /\ ControlTypeOK
    /\ OpenExcludesPublished
    /\ OpenedHoldsStream
    /\ CapMatchesOffline
    /\ OnlyPublishedIsSubscribed
    /\ OfflineIsTruthful
    /\ NeverSilentlyIdle

\* Nothing is open, scheduled or mounted at start-up.
LEMMA ControlInitInv == Init => ControlInv /\ StreamTypeOK
<1> SUFFICES ASSUME Init PROVE ControlInv /\ StreamTypeOK
  OBVIOUS
<1>1. ControlTypeOK
  <2>1. inboundReopenTimer \in BOOLEAN /\ inboundStopped \in BOOLEAN /\ offline \in BOOLEAN
    BY DEF Init
  <2> QED
    BY <2>1, InboundAssumption DEF Init, ControlTypeOK, InboundOpenStates
<1>2. StreamTypeOK
  BY DEF Init, StreamTypeOK, ReaderStates, TeardownStates
<1> QED
  BY <1>1, <1>2
  DEF Init, ControlInv, OpenExcludesPublished, OpenedHoldsStream, CapMatchesOffline,
      OnlyPublishedIsSubscribed, OfflineIsTruthful, NeverSilentlyIdle

\* What a delivered frame, a fresh mount, a foreground or a stop does to the cap.
LEMMA ResetOutcome ==
    ASSUME ResetCap
    PROVE  failures' \in 0..MaxFailures /\ capHit' = "never" /\ offline' \in BOOLEAN /\ ~offline'
<1>1. offline' \in BOOLEAN /\ ~offline'
  BY DEF ResetCap
<1> QED
  BY <1>1, InboundAssumption DEF ResetCap

\* What scheduleInboundReopen does to the retry state, whichever branch it
\* takes: afterwards a reopen is scheduled, the badge shows, or it was stopped.
LEMMA ScheduleOutcome ==
    ASSUME ControlTypeOK, CapMatchesOffline, OfflineIsTruthful, ScheduleInboundReopen
    PROVE  /\ inboundReopenTimer' \in BOOLEAN
           /\ failures' \in 0..MaxFailures
           /\ offline' \in BOOLEAN
           /\ capHit' \in {"never", "recent", "elapsed"}
           /\ CapMatchesOffline'
           /\ offline' => failures' = MaxFailures /\ capHit' # "never" /\ ~inboundReopenTimer'
           /\ inboundStopped \/ inboundReopenTimer' \/ offline'
<1> USE InboundAssumption DEF ControlTypeOK, CapMatchesOffline, OfflineIsTruthful, retryVars
<1>1. CASE inboundStopped \/ inboundReopenTimer
  BY <1>1 DEF ScheduleInboundReopen
<1>2. CASE ~(inboundStopped \/ inboundReopenTimer) /\ failures >= MaxFailures
  <2>1. capHit' = "recent" /\ offline' = TRUE /\ UNCHANGED <<inboundReopenTimer, failures>>
    BY <1>2 DEF ScheduleInboundReopen
  <2>2. failures = MaxFailures
    BY <1>2
  <2> QED
    BY <1>2, <2>1, <2>2
<1>3. CASE ~(inboundStopped \/ inboundReopenTimer) /\ ~(failures >= MaxFailures)
  <2>1. failures' = failures + 1 /\ inboundReopenTimer' = TRUE /\ UNCHANGED <<capHit, offline>>
    BY <1>3 DEF ScheduleInboundReopen
  <2>2. failures' \in 0..MaxFailures /\ ~offline
    BY <1>3, <2>1
  <2> QED
    BY <2>1, <2>2
<1> QED
  BY <1>1, <1>2, <1>3

\* What startInboundSubscription leaves behind: a published stream or an open
\* in flight, never both, and at most the published stream subscribed.
LEMMA StartOutcome ==
    ASSUME ControlInv, NEW force \in BOOLEAN, StartInboundSubscription(force)
    PROVE  /\ inboundStreamId' \in Streams \cup {NoStream}
           /\ inboundOpen' \in InboundOpenStates
           /\ inboundStopped' \in BOOLEAN
           /\ inboundStreamId' # NoStream \/ inboundOpen' # "none"
           /\ OpenExcludesPublished'
           /\ OpenedHoldsStream'
           /\ OnlyPublishedIsSubscribed'
           /\ pendingStreamId' = pendingStreamId
<1> USE InboundAssumption
    DEF ControlInv, ControlTypeOK, OpenExcludesPublished, OpenedHoldsStream,
        OnlyPublishedIsSubscribed, InboundOpenStates
<1>0. inboundStopped' \in BOOLEAN
  BY DEF StartInboundSubscription
<1>1. /\ pendingStreamId' = pendingStreamId
      /\ inboundStreamId' \in {inboundStreamId, NoStream}
      /\ subscribers' = {inboundStreamId'} \ {NoStream}
  BY DEF StartInboundSubscription, Unsubscribe, streamVars
<1>2. \/ inboundStreamId' # NoStream /\ inboundOpen' = inboundOpen
      \/ inboundOpen # "none" /\ inboundOpen' = inboundOpen
      \/ inboundStreamId' = NoStream /\ inboundOpen' = "session"
  BY DEF StartInboundSubscription
<1> QED
  BY <1>0, <1>1, <1>2

\* Every step keeps the control invariant.
LEMMA ControlStepInv == ControlInv /\ [Next]_vars => ControlInv'
<1> SUFFICES ASSUME ControlInv, [Next]_vars
             PROVE  ControlInv'
  OBVIOUS
<1> USE InboundAssumption
    DEF ControlInv, ControlTypeOK, OpenExcludesPublished, OpenedHoldsStream, CapMatchesOffline,
        OnlyPublishedIsSubscribed, OfflineIsTruthful, NeverSilentlyIdle, retryVars, streamVars
<1>1. CASE RegisterInboundConsumer
  <2>0. consumers' \in 0..MaxConsumers /\ consumers' > 0 /\ UNCHANGED inboundReopenTimer
    BY <1>1 DEF RegisterInboundConsumer
  <2>1. CASE ResetCap /\ StartInboundSubscription(FALSE)
    BY <2>0, <2>1, StartOutcome, ResetOutcome
  <2>2. CASE /\ consumers > 0 \/ capHit = "recent"
             /\ UNCHANGED <<inboundStreamId, inboundOpen, pendingStreamId, failures, capHit,
                            offline, inboundStopped, subscribers>>
    <3>1. consumers > 0 \/ offline
      BY <2>2
    <3>2. NeverSilentlyIdle'
      BY <2>0, <2>2, <3>1
    <3> QED
      BY <2>0, <2>2, <3>2
  <2> QED
    BY <1>1, <2>1, <2>2 DEF RegisterInboundConsumer
<1>2. CASE UnregisterInboundConsumer
  BY <1>2 DEF UnregisterInboundConsumer
<1>3. CASE ResumeInboundOnForeground
  BY <1>3, StartOutcome, ResetOutcome DEF ResumeInboundOnForeground
<1>4. CASE TimerFires
  <2>1. inboundReopenTimer' \in BOOLEAN
    BY <1>4 DEF TimerFires
  <2>2. StartInboundSubscription(FALSE) /\ UNCHANGED <<failures, capHit, offline, consumers>>
    BY <1>4 DEF TimerFires
  <2>3. ~offline
    BY <1>4 DEF TimerFires
  <2> QED
    BY <2>1, <2>2, <2>3, StartOutcome
<1>5. CASE QuietPeriodElapses
  BY <1>5 DEF QuietPeriodElapses
<1>6. CASE GetSessionFailed
  BY <1>6, ScheduleOutcome DEF GetSessionFailed, InboundOpenStates
<1>7. CASE OpenInbound
  BY <1>7 DEF OpenInbound, InboundOpenStates
<1>8. ASSUME NEW s \in Streams, NativeOpensInbound(s)
      PROVE  ControlInv'
  BY <1>8 DEF NativeOpensInbound, InboundOpenStates
<1>9. CASE OpenInboundFailed
  BY <1>9, ScheduleOutcome DEF OpenInboundFailed, InboundOpenStates
<1>10. CASE SubscribeAndPublish
  BY <1>10, ResetOutcome DEF SubscribeAndPublish, InboundOpenStates
<1>11. ASSUME NEW s \in Streams, FrameArrives(s)
       PROVE  ControlInv'
  BY <1>11, ResetOutcome DEF FrameArrives
<1>12. ASSUME NEW s \in Streams, StreamCloses(s)
       PROVE  ControlInv'
  <2>1. CASE s \in subscribers /\ s = inboundStreamId
    BY <1>12, <2>1, ScheduleOutcome DEF StreamCloses, Unsubscribe, Buffer
  <2>2. CASE ~(s \in subscribers /\ s = inboundStreamId)
    BY <1>12, <2>2 DEF StreamCloses
  <2> QED
    BY <2>1, <2>2
<1>13. ASSUME \/ \E s \in Streams : CancelledReaderExits(s)
              \/ \E o \in Opens : NativeCancelsReaders(o) \/ NativeFreesSession(o)
       PROVE  ControlInv'
  BY <1>13 DEF CancelledReaderExits, NativeCancelsReaders, NativeFreesSession
<1>14. ASSUME NEW did \in Dids \cup {NoDid, EmptyDid}, SwitchIdentity(did)
       PROVE  ControlInv'
  <2>1. CASE boundDid # NoDid
    <3>1. StopInboundSubscription /\ UNCHANGED <<inboundOpen, pendingStreamId, consumers>>
      BY <1>14, <2>1 DEF SwitchIdentity
    <3>2. /\ inboundStopped' \in BOOLEAN /\ inboundStopped'
          /\ inboundReopenTimer' \in BOOLEAN /\ ~inboundReopenTimer'
      BY <3>1 DEF StopInboundSubscription
    <3>3. ResetCap /\ inboundStreamId' = NoStream /\ subscribers' = {}
      BY <3>1 DEF StopInboundSubscription, Unsubscribe
    <3> QED
      BY <3>1, <3>2, <3>3, ResetOutcome
  <2>2. CASE boundDid = NoDid
    BY <1>14, <2>2 DEF SwitchIdentity
  <2> QED
    BY <2>1, <2>2
<1>15. CASE RecoverTransport
  BY <1>15 DEF RecoverTransport
<1>16. CASE OpenStep
  BY <1>16 DEF OpenStep
<1>17. CASE UNCHANGED vars
  BY <1>17 DEF vars
<1> QED
  BY <1>1, <1>2, <1>3, <1>4, <1>5, <1>6, <1>7, <1>8, <1>9, <1>10, <1>11, <1>12, <1>13, <1>14,
     <1>15, <1>16, <1>17
  DEF Next, SubscriptionSteps

\* The control invariant holds in every reachable state.
THEOREM ControlInvariant == Spec => []ControlInv
<1>1. Init => ControlInv
  BY ControlInitInv
<1> QED
  BY <1>1, ControlStepInv, PTL DEF Spec

\* No revival is ever forgotten, whatever the order of mounts, failed opens,
\* closes, timers, sign-outs and recoveries, for any retry budget.
THEOREM NeverIdle == Spec => []NeverSilentlyIdle
<1>1. ControlInv => NeverSilentlyIdle
  BY DEF ControlInv
<1> QED
  BY <1>1, ControlInvariant, PTL

\* The offline badge shows only when the budget is spent and nothing is going on.
THEOREM OfflineTruthful == Spec => []OfflineIsTruthful
<1>1. ControlInv => OfflineIsTruthful
  BY DEF ControlInv
<1> QED
  BY <1>1, ControlInvariant, PTL

\* At most one stream forwards frames into the store: the published one.
THEOREM OneSubscriber == Spec => []OnlyPublishedIsSubscribed
<1>1. ControlInv => OnlyPublishedIsSubscribed
  BY DEF ControlInv
<1> QED
  BY <1>1, ControlInvariant, PTL

-----------------------------------------------------------------------------
(***************************************************************************)
(* Readers.  With the subscription as the only caller of getSession, at    *)
(* most one native session is ever open and not asked to close.  With more *)
(* callers that is false: the `finally` of an open that was forgotten      *)
(* clears a newer one in flight, and a third call opens a second session.  *)
(***************************************************************************)

\* Nobody else calls, so the subscription never joins an open.
SoleCaller ==
    /\ \A c \in Callers \ {Inbound} : call[c].st = "idle"
    /\ call[Inbound].st # "joined"

\* An open still going on is the subscription's, and nothing is cached.
OpenIsAwaited ==
    \A o \in Opens :
        openSt[o] \in {"opening", "opened"} =>
            call[Inbound].st = "creator" /\ call[Inbound].id = o /\ liveSessionId = NoSession

\* Every native session is being opened or is the cached one.
SessionsAreAccounted ==
    \A o \in sessions : openSt[o] = "opened" \/ (openSt[o] = "resolved" /\ o = liveSessionId)

ResolvedCallIsResolvedOpen ==
    call[Inbound].st = "resolved" => openSt[call[Inbound].id] = "resolved"

OpensHaveIdentity == \A o \in Opens : openSt[o] # "unused" => openDid[o] \in Dids

SoleCallerInv ==
    /\ SessionInv
    /\ SoleCaller
    /\ OpenIsAwaited
    /\ SessionsAreAccounted
    /\ ResolvedCallIsResolvedOpen
    /\ OpensHaveIdentity

\* The manager's steps when the subscription is its only caller.
SoleCallerNext ==
    \/ \E did \in Dids \cup {NoDid, EmptyDid} : BindIdentity(did)
    \/ DropSession
    \/ GetSession(Inbound)
    \/ OpenSteps

\* They keep the account of the open sessions.
LEMMA SoleCallerStep ==
    ASSUME SoleCallerInv, SessionInv', SoleCallerNext \/ UNCHANGED sessionVars
    PROVE  SoleCallerInv'
<1> USE NullsAssumption, InboundAssumption
    DEF SoleCallerInv, SoleCaller, OpenIsAwaited, SessionsAreAccounted,
        ResolvedCallIsResolvedOpen, OpensHaveIdentity
<1>t. SessionTypeOK /\ LiveIsResolved /\ CallsFollowIdentity
  BY DEF SessionInv
<1> USE DEF SessionTypeOK, OpenStates, CallStates
<1>1. ASSUME NEW did \in Dids \cup {NoDid, EmptyDid}, BindIdentity(did)
      PROVE  SoleCallerInv'
  BY <1>1, <1>t DEF BindIdentity
<1>2. CASE DropSession
  BY <1>2, <1>t DEF DropSession
<1>3. CASE GetSession(Inbound)
  <2>1. CASE GetSessionUnbound(Inbound)
    BY <1>3, <1>t, <2>1 DEF GetSession, CanCall, GetSessionUnbound, Called, managerVars, openVars
  <2>2. CASE GetSessionCached(Inbound)
    BY <1>3, <1>t, <2>2
    DEF GetSession, CanCall, GetSessionCached, Called, managerVars, openVars, LiveIsResolved
  <2>3. CASE GetSessionJoins(Inbound)
    <3>1. InFlightHasCreator
      BY DEF SessionInv
    <3>2. FALSE
      BY <1>3, <2>3, <3>1 DEF GetSession, CanCall, GetSessionJoins, InFlightHasCreator
    <3> QED
      BY <3>2
  <2>4. CASE GetSessionOpens(Inbound)
    <3>1. \A o \in Opens : openSt[o] \notin {"opening", "opened"}
      BY <1>3 DEF GetSession, CanCall
    <3>2. PICK o \in Opens : /\ Fresh(o)
                             /\ openSt' = [openSt EXCEPT ![o] = "opening"]
                             /\ openDid' = [openDid EXCEPT ![o] = boundDid]
                             /\ call' = [call EXCEPT ![Inbound] = Called("creator", o)]
      BY <2>4 DEF GetSessionOpens
    <3>3. boundDid \in Dids /\ liveSessionId = NoSession
          /\ UNCHANGED <<boundDid, liveSessionId, sessions>>
      BY <1>t, <2>4 DEF GetSessionOpens
    <3>4. call'[Inbound].st = "creator" /\ call'[Inbound].id = o
      BY <1>t, <3>2 DEF Called
    <3>5. \A c \in Callers \ {Inbound} : call'[c] = call[c]
      BY <1>t, <3>2
    <3>6. /\ openSt'[o] = "opening" /\ openDid'[o] \in Dids
          /\ \A q \in Opens \ {o} : openSt'[q] = openSt[q] /\ openDid'[q] = openDid[q]
      BY <1>t, <3>2, <3>3
    <3>7. o \notin sessions
      BY <3>2 DEF Fresh
    <3> QED
      BY <1>t, <3>1, <3>3, <3>4, <3>5, <3>6, <3>7
  <2> QED
    BY <1>3, <2>1, <2>2, <2>3, <2>4 DEF GetSession
<1>4. ASSUME NEW o \in Opens, NativeOpens(o)
      PROVE  SoleCallerInv'
  BY <1>4, <1>t DEF NativeOpens, managerVars, LiveIsResolved, CallsFollowIdentity
<1>5. ASSUME NEW o \in Opens, NativeOpenFails(o)
      PROVE  SoleCallerInv'
  BY <1>5, <1>t DEF NativeOpenFails, managerVars, LiveIsResolved, CallsFollowIdentity
<1>6. ASSUME NEW o \in Opens, OpenContinues(o)
      PROVE  SoleCallerInv'
  <2>1. openSt[o] = "opened" /\ liveSessionId = NoSession /\ call[Inbound].st = "creator"
        /\ call[Inbound].id = o /\ call' = call /\ openDid' = openDid
    BY <1>6 DEF OpenContinues
  <2>2. \A q \in Opens \ {o} : openSt'[q] = openSt[q] /\ openSt[q] \notin {"opening", "opened"}
    BY <1>6, <1>t, <2>1 DEF OpenContinues
  <2>3. CASE boundDid = openDid[o]
    BY <1>6, <1>t, <2>1, <2>2, <2>3 DEF OpenContinues
  <2>4. CASE boundDid # openDid[o]
    BY <1>6, <1>t, <2>1, <2>2, <2>4 DEF OpenContinues
  <2> QED
    BY <2>3, <2>4
<1>7. ASSUME NEW c \in Callers, CreatorSettles(c) \/ JoinerSettles(c)
      PROVE  SoleCallerInv'
  <2>1. c = Inbound /\ call[c].st = "creator"
    BY <1>7 DEF CreatorSettles, JoinerSettles
  <2>2. call[Inbound].id \in Opens
    BY <1>t, <2>1 DEF CallsFollowIdentity
  <2>3. openSt[call[Inbound].id] \in {"resolved", "rejected"} /\ Settle(Inbound)
        /\ UNCHANGED <<liveSessionId, openSt, openDid, sessions>>
    BY <1>7, <2>1 DEF CreatorSettles, JoinerSettles, Settled, openVars
  <2>4. /\ call'[Inbound].st = openSt[call[Inbound].id]
        /\ openSt[call[Inbound].id] = "resolved" => call'[Inbound].id = call[Inbound].id
        /\ \A d \in Callers \ {Inbound} : call'[d] = call[d]
    BY <1>t, <2>3 DEF Settle
  <2>5. \A o \in Opens : openSt[o] \notin {"opening", "opened"}
    BY <1>t, <2>1, <2>3
  <2> QED
    BY <2>3, <2>4, <2>5
<1>8. CASE UNCHANGED sessionVars
  BY <1>8 DEF sessionVars
<1> QED
  BY <1>1, <1>2, <1>3, <1>4, <1>5, <1>6, <1>7, <1>8 DEF SoleCallerNext, OpenSteps

\* Every step of the composition is one of those or leaves the manager alone.
LEMMA StepIsSoleCallerStep == [Next]_vars => SoleCallerNext \/ UNCHANGED sessionVars
<1> SUFFICES ASSUME [Next]_vars PROVE SoleCallerNext \/ UNCHANGED sessionVars
  OBVIOUS
<1>a. ASSUME NEW force \in BOOLEAN, StartInboundSubscription(force)
      PROVE  SoleCallerNext \/ UNCHANGED sessionVars
  BY <1>a DEF StartInboundSubscription, SoleCallerNext
<1>1. CASE RegisterInboundConsumer \/ ResumeInboundOnForeground \/ TimerFires
  BY <1>1, <1>a DEF RegisterInboundConsumer, ResumeInboundOnForeground, TimerFires
<1>2. CASE UnregisterInboundConsumer \/ QuietPeriodElapses
  BY <1>2 DEF UnregisterInboundConsumer, QuietPeriodElapses
<1>3. CASE SubscriptionSteps
  BY <1>3 DEF SubscriptionSteps, GetSessionFailed, OpenInbound, NativeOpensInbound,
              OpenInboundFailed, SubscribeAndPublish
<1>4. CASE \/ \E s \in Streams : FrameArrives(s) \/ StreamCloses(s) \/ CancelledReaderExits(s)
           \/ \E o \in Opens : NativeCancelsReaders(o) \/ NativeFreesSession(o)
  BY <1>4 DEF FrameArrives, StreamCloses, CancelledReaderExits, NativeCancelsReaders,
              NativeFreesSession
<1>5. CASE (\E did \in Dids \cup {NoDid, EmptyDid} : SwitchIdentity(did)) \/ RecoverTransport
  BY <1>5 DEF SwitchIdentity, RecoverTransport, SoleCallerNext
<1>6. CASE OpenStep
  BY <1>6 DEF OpenStep, SoleCallerNext
<1>7. CASE UNCHANGED vars
  BY <1>7 DEF vars
<1> QED
  BY <1>1, <1>2, <1>3, <1>4, <1>5, <1>6, <1>7 DEF Next

\* The stream is opened on the session that getSession returned.
StreamOpenHasSession == inboundOpen = "stream" => call[Inbound].st = "resolved"

\* A running reader's session came out of an open that is over.
RunningIsResolved ==
    \A s \in Streams :
        reader[s] = "running" =>
            /\ streamSession[s] \in Opens
            /\ openSt[streamSession[s]] \notin {"opening", "opened"}

\* A running reader's session is the cached one unless it was asked to close.
RunningOnCached ==
    \A s \in Streams :
        reader[s] = "running" /\ streamSession[s] \in sessions => streamSession[s] = liveSessionId

ReaderInv ==
    /\ SoleCallerInv
    /\ ControlInv
    /\ StreamTypeOK
    /\ StreamOpenHasSession
    /\ RunningIsResolved
    /\ RunningOnCached

\* Events, buffers, readers and the sessions of streams keep their types.
LEMMA StreamTypeStep ==
    ASSUME ReaderInv, [Next]_vars
    PROVE  StreamTypeOK'
<1> USE InboundAssumption
    DEF StreamTypeOK, streamVars, nativeVars, ReaderStates, TeardownStates
<1>t. StreamTypeOK /\ ControlTypeOK /\ SessionTypeOK /\ OpenedHoldsStream
  BY DEF ReaderInv, ControlInv, SoleCallerInv, SessionInv
<1>u. ASSUME NEW s, Unsubscribe(s)
      PROVE  subscribers' \in SUBSET Streams /\ buffered' \in [Streams -> Seq({"frame", "closed"})]
  <2>1. <<>> \in Seq({"frame", "closed"})
    OBVIOUS
  <2> QED
    BY <1>t, <1>u, <2>1 DEF Unsubscribe
<1>b. ASSUME NEW s \in Streams, NEW e \in {"frame", "closed"}, Buffer(s, e)
      PROVE  buffered' \in [Streams -> Seq({"frame", "closed"})]
  <2>1. Append(buffered[s], e) \in Seq({"frame", "closed"})
    BY <1>t
  <2> QED
    BY <1>b, <1>t, <2>1 DEF Buffer
<1>a. ASSUME NEW force \in BOOLEAN, StartInboundSubscription(force)
      PROVE  StreamTypeOK'
  BY <1>a, <1>t, <1>u DEF StartInboundSubscription
<1>1. CASE RegisterInboundConsumer \/ ResumeInboundOnForeground \/ TimerFires
  BY <1>1, <1>a, <1>t DEF RegisterInboundConsumer, ResumeInboundOnForeground, TimerFires
<1>2. CASE UnregisterInboundConsumer \/ QuietPeriodElapses
  BY <1>2, <1>t DEF UnregisterInboundConsumer, QuietPeriodElapses
<1>3. CASE GetSessionFailed \/ OpenInbound \/ OpenInboundFailed
  BY <1>3, <1>t DEF GetSessionFailed, OpenInbound, OpenInboundFailed
<1>4. ASSUME NEW s \in Streams, NativeOpensInbound(s)
      PROVE  StreamTypeOK'
  <2>1. <<>> \in Seq({"frame", "closed"}) /\ call[Inbound].id \in Opens
    BY <1>4, <1>t DEF NativeOpensInbound, InTable, SessionTypeOK
  <2> QED
    BY <1>4, <1>t, <2>1 DEF NativeOpensInbound
<1>5. CASE SubscribeAndPublish
  <2>1. <<>> \in Seq({"frame", "closed"}) /\ pendingStreamId \in Streams
    BY <1>5, <1>t DEF SubscribeAndPublish, OpenedHoldsStream
  <2> QED
    BY <1>5, <1>t, <2>1 DEF SubscribeAndPublish
<1>6. ASSUME NEW s \in Streams, FrameArrives(s)
      PROVE  StreamTypeOK'
  BY <1>6, <1>b, <1>t DEF FrameArrives
<1>7. ASSUME NEW s \in Streams, StreamCloses(s)
      PROVE  StreamTypeOK'
  BY <1>7, <1>b, <1>t, <1>u DEF StreamCloses
<1>8. ASSUME \/ \E s \in Streams : CancelledReaderExits(s)
             \/ \E o \in Opens : NativeCancelsReaders(o) \/ NativeFreesSession(o)
      PROVE  StreamTypeOK'
  BY <1>8, <1>t DEF CancelledReaderExits, NativeCancelsReaders, NativeFreesSession
<1>9. ASSUME NEW did \in Dids \cup {NoDid, EmptyDid}, SwitchIdentity(did)
      PROVE  StreamTypeOK'
  BY <1>9, <1>t, <1>u DEF SwitchIdentity, StopInboundSubscription, AskTeardown
<1>10. CASE RecoverTransport
  BY <1>10, <1>t DEF RecoverTransport, AskTeardown
<1>11. CASE OpenStep
  BY <1>11, <1>t DEF OpenStep
<1>12. CASE UNCHANGED vars
  BY <1>12, <1>t DEF vars
<1> QED
  BY <1>1, <1>2, <1>3, <1>4, <1>5, <1>6, <1>7, <1>8, <1>9, <1>10, <1>11, <1>12
  DEF Next, SubscriptionSteps

ReaderParts == StreamOpenHasSession /\ RunningIsResolved /\ RunningOnCached

\* A step that leaves the manager alone and starts no reader.
LEMMA QuietReaders ==
    ASSUME ReaderInv, UNCHANGED <<sessionVars, streamSession>>,
           \A s \in Streams : reader'[s] = "running" => reader[s] = "running"
    PROVE  RunningIsResolved' /\ RunningOnCached'
  BY DEF ReaderInv, RunningIsResolved, RunningOnCached, sessionVars

\* Starting or reviving the subscription touches no reader and no cached
\* session, and a new open takes a name that no reader refers to.
LEMMA StartKeepsReaders ==
    ASSUME ReaderInv, NEW force \in BOOLEAN, StartInboundSubscription(force)
    PROVE  ReaderParts'
<1>t. SessionTypeOK /\ StreamTypeOK /\ ReaderParts
  BY DEF ReaderInv, ReaderParts, SoleCallerInv, SessionInv
<1>1. UNCHANGED <<liveSessionId, sessions>> /\ UNCHANGED nativeVars
  BY DEF StartInboundSubscription, GetSession, GetSessionUnbound, GetSessionCached,
         GetSessionJoins, GetSessionOpens, managerVars, openVars, sessionVars
<1>2. inboundOpen' = "stream" => inboundOpen' = inboundOpen /\ call' = call
  BY DEF StartInboundSubscription, sessionVars
<1>3. CASE UNCHANGED openSt
  BY <1>1, <1>2, <1>3, <1>t
  DEF ReaderParts, RunningIsResolved, RunningOnCached, StreamOpenHasSession, nativeVars
<1>4. CASE GetSessionOpens(Inbound) /\ FreshSession
  <2>1. PICK o \in Opens : inFlight' = o /\ inFlight = NoSession
                           /\ openSt' = [openSt EXCEPT ![o] = "opening"]
    BY <1>4 DEF GetSessionOpens
  <2>2. \A s \in Streams : reader[s] = "running" => streamSession[s] # o
    BY <1>4, <2>1, NullsAssumption DEF FreshSession
  <2>3. \A q \in Opens \ {o} : openSt'[q] = openSt[q]
    BY <1>t, <2>1 DEF SessionTypeOK
  <2> QED
    BY <1>1, <1>2, <1>t, <2>2, <2>3
    DEF ReaderParts, RunningIsResolved, RunningOnCached, StreamOpenHasSession, nativeVars
<1> QED
  BY <1>3, <1>4
  DEF StartInboundSubscription, GetSession, GetSessionUnbound, GetSessionCached, GetSessionJoins,
      openVars, sessionVars

\* Every step keeps the readers of open sessions on the cached one.
LEMMA ReaderStepInv == ReaderInv /\ [Next]_vars => ReaderInv'
<1> SUFFICES ASSUME ReaderInv, [Next]_vars
             PROVE  ReaderInv'
  OBVIOUS
<1>t. StreamTypeOK /\ SessionInv /\ SoleCallerInv /\ ControlInv /\ SessionTypeOK
  BY DEF ReaderInv, SoleCallerInv, SessionInv
<1>s. SessionInv'
  BY <1>t, StepIsSessionStep, SessionStepInv
<1>c. SoleCallerInv'
  BY <1>s, <1>t, StepIsSoleCallerStep, SoleCallerStep
<1>k. ControlInv'
  BY <1>t, ControlStepInv
<1>y. StreamTypeOK'
  BY StreamTypeStep
<1>o. StreamOpenHasSession /\ RunningIsResolved /\ RunningOnCached
  BY DEF ReaderInv
<1> SUFFICES ReaderParts'
  BY <1>c, <1>k, <1>y DEF ReaderInv, ReaderParts
<1>q. ASSUME UNCHANGED <<sessionVars, inboundOpen, reader, streamSession>>
      PROVE  ReaderParts'
  BY <1>q, <1>o, QuietReaders DEF ReaderParts, StreamOpenHasSession, sessionVars
<1>1. CASE RegisterInboundConsumer \/ ResumeInboundOnForeground \/ TimerFires
  <2>1. CASE \E force \in BOOLEAN : StartInboundSubscription(force)
    BY <2>1, StartKeepsReaders
  <2>2. CASE UNCHANGED <<sessionVars, inboundOpen, nativeVars>>
    BY <2>2, <1>q DEF nativeVars
  <2> QED
    BY <1>1, <2>1, <2>2 DEF RegisterInboundConsumer, ResumeInboundOnForeground, TimerFires
<1>2. CASE UnregisterInboundConsumer \/ QuietPeriodElapses
  BY <1>2, <1>q DEF UnregisterInboundConsumer, QuietPeriodElapses, nativeVars
<1>3. CASE GetSessionFailed \/ OpenInbound \/ OpenInboundFailed
  BY <1>3, <1>o, QuietReaders
  DEF GetSessionFailed, OpenInbound, OpenInboundFailed, ReaderParts, StreamOpenHasSession,
      nativeVars, sessionVars
<1>4. ASSUME NEW s \in Streams, NativeOpensInbound(s)
      PROVE  ReaderParts'
  <2>1. /\ call[Inbound].id \in Opens /\ call[Inbound].st = "resolved"
        /\ UNCHANGED sessionVars /\ inboundOpen' = "opened"
    BY <1>4, <1>o, <1>t DEF NativeOpensInbound, InTable, StreamOpenHasSession, SessionTypeOK
  <2>2. /\ openSt[call[Inbound].id] = "resolved"
        /\ call[Inbound].id \in sessions => call[Inbound].id = liveSessionId
    BY <1>t, <2>1 DEF SoleCallerInv, SessionsAreAccounted, ResolvedCallIsResolvedOpen
  <2>3. /\ streamSession'[s] = call[Inbound].id
        /\ \A q \in Streams \ {s} : reader'[q] = reader[q] /\ streamSession'[q] = streamSession[q]
    BY <1>4, <1>t DEF NativeOpensInbound, StreamTypeOK
  <2> QED
    BY <1>o, <2>1, <2>2, <2>3
    DEF ReaderParts, RunningIsResolved, RunningOnCached, StreamOpenHasSession, sessionVars
<1>5. CASE SubscribeAndPublish
  BY <1>5, QuietReaders DEF SubscribeAndPublish, ReaderParts, StreamOpenHasSession, nativeVars
<1>6. ASSUME NEW s \in Streams, FrameArrives(s)
      PROVE  ReaderParts'
  BY <1>6, <1>q DEF FrameArrives, nativeVars
<1>7. ASSUME NEW s \in Streams, StreamCloses(s) \/ CancelledReaderExits(s)
      PROVE  ReaderParts'
  <2>1. UNCHANGED <<sessionVars, inboundOpen, streamSession>>
        /\ reader' = [reader EXCEPT ![s] = "none"]
    BY <1>7 DEF StreamCloses, CancelledReaderExits
  <2>2. \A q \in Streams : reader'[q] = "running" => reader[q] = "running"
    BY <1>t, <2>1 DEF StreamTypeOK
  <2> QED
    BY <1>o, <2>1, <2>2, QuietReaders DEF ReaderParts, StreamOpenHasSession, sessionVars
<1>8. ASSUME NEW o \in Opens, NativeCancelsReaders(o) \/ NativeFreesSession(o)
      PROVE  ReaderParts'
  <2>1. UNCHANGED <<sessionVars, inboundOpen, streamSession>>
        /\ \A q \in Streams : reader'[q] = "running" => reader[q] = "running"
    BY <1>8 DEF NativeCancelsReaders, NativeFreesSession
  <2> QED
    BY <1>o, <2>1, QuietReaders DEF ReaderParts, StreamOpenHasSession, sessionVars
<1>9. ASSUME NEW did \in Dids \cup {NoDid, EmptyDid}, SwitchIdentity(did)
      PROVE  ReaderParts'
  <2>1. UNCHANGED <<call, openSt, inboundOpen, streamSession>>
        /\ sessions' = sessions \ {liveSessionId}
    BY <1>9 DEF SwitchIdentity, BindIdentity
  <2>2. \A q \in Streams : reader'[q] = "running" => reader[q] = "running"
    BY <1>9 DEF SwitchIdentity, StopInboundSubscription
  <2> QED
    BY <1>o, <2>1, <2>2 DEF ReaderParts, RunningIsResolved, RunningOnCached, StreamOpenHasSession
<1>10. CASE RecoverTransport
  BY <1>10, <1>o
  DEF RecoverTransport, DropSession, ReaderParts, RunningIsResolved, RunningOnCached,
      StreamOpenHasSession
<1>11. CASE OpenStep
  <2>1. UNCHANGED <<inboundOpen, reader, streamSession>> /\ OpenSteps
    BY <1>11 DEF OpenStep, nativeVars
  <2>2. call[Inbound].st = "resolved" => call'[Inbound] = call[Inbound]
    BY <1>t, <2>1, InboundAssumption
    DEF OpenSteps, NativeOpens, NativeOpenFails, OpenContinues, CreatorSettles, JoinerSettles,
        Settle, SoleCallerInv, SoleCaller, SessionTypeOK
  <2>3. \A o \in Opens : openSt'[o] \in {"opening", "opened"} => openSt[o] \in {"opening", "opened"}
    BY <1>t, <2>1
    DEF OpenSteps, NativeOpens, NativeOpenFails, OpenContinues, CreatorSettles, JoinerSettles,
        openVars, SessionTypeOK
  <2>4. \A o \in sessions' : o \in sessions \/ openSt[o] = "opening"
    BY <2>1
    DEF OpenSteps, NativeOpens, NativeOpenFails, OpenContinues, CreatorSettles, JoinerSettles,
        openVars
  <2>5. liveSessionId' = liveSessionId \/ liveSessionId = NoSession
    BY <1>t, <2>1
    DEF OpenSteps, NativeOpens, NativeOpenFails, OpenContinues, CreatorSettles, JoinerSettles,
        managerVars, SoleCallerInv, OpenIsAwaited
  <2>6. RunningIsResolved' /\ StreamOpenHasSession'
    BY <1>o, <2>1, <2>2, <2>3 DEF RunningIsResolved, StreamOpenHasSession
  <2>7. RunningOnCached'
    BY <1>o, <2>1, <2>4, <2>5, NullsAssumption DEF RunningIsResolved, RunningOnCached
  <2> QED
    BY <2>6, <2>7 DEF ReaderParts
<1>12. CASE UNCHANGED vars
  BY <1>12, <1>q DEF vars, nativeVars
<1> QED
  BY <1>1, <1>2, <1>3, <1>4, <1>5, <1>6, <1>7, <1>8, <1>9, <1>10, <1>11, <1>12
  DEF Next, SubscriptionSteps

\* The whole invariant holds in every reachable state of the composition.
THEOREM ReaderInvariant == Spec => []ReaderInv
<1>1. Init => ReaderInv
  <2> SUFFICES ASSUME Init PROVE ReaderInv
    OBVIOUS
  <2>1. ControlInv /\ StreamTypeOK /\ SessionInv
    BY ControlInitInv, SessionInitInv DEF Init
  <2>2. SoleCallerInv
    BY <2>1, InboundAssumption
    DEF Init, SessionInit, SoleCallerInv, SoleCaller, OpenIsAwaited, SessionsAreAccounted,
        ResolvedCallIsResolvedOpen, OpensHaveIdentity
  <2> QED
    BY <2>1, <2>2 DEF Init, ReaderInv, StreamOpenHasSession, RunningIsResolved, RunningOnCached
<1> QED
  BY <1>1, ReaderStepInv, PTL DEF Spec

\* Type correctness of the composition.
THEOREM TypeCorrect == Spec => []TypeOK
<1>1. ReaderInv => TypeOK
  BY DEF ReaderInv, SoleCallerInv, SessionInv, ControlInv, ControlTypeOK, StreamTypeOK, TypeOK
<1> QED
  BY <1>1, ReaderInvariant, PTL

\* A sign-out, an account switch or a recovery leaves no open session behind
\* that feeds a stream, even when it overtakes the open of the stream.
THEOREM ReadersFollowIdentity == Spec => []ReaderRidesOnBoundSession
<1>1. ReaderInv => ReaderRidesOnBoundSession
  BY NullsAssumption
  DEF ReaderInv, SoleCallerInv, SessionInv, SessionTypeOK, CachedSessionIsBound, RunningOnCached,
      ReaderRidesOnBoundSession
<1> QED
  BY <1>1, ReaderInvariant, PTL
=============================================================================
