-------------------------- MODULE QuicSessionManager --------------------------
(***************************************************************************)
(* The singleton that owns the persistent authenticated QUIC session       *)
(* (src/services/QuicSessionManager.ts): which identity is bound, which    *)
(* native session is cached, and the open that concurrent callers share.   *)
(*                                                                         *)
(* JavaScript runs one callback at a time, so an action is the code that   *)
(* runs between two awaits.  An open has four such pieces: the call of     *)
(* getSession, the native handshake, the continuation that caches or       *)
(* discards the session, and the creator's `finally`.  The continuation of *)
(* another promise may run between any two of them.                        *)
(*                                                                         *)
(* A session is named by the open that produced it.  Host, port, ALPN and  *)
(* the pin are constants of the code and carry no control, and whether the *)
(* bridge is registered is fixed at start-up (it is).  `sessions` holds    *)
(* the sessions opened and not asked to close; how the native modules tear *)
(* a session down is modelled where its readers are (InboundSubscription). *)
(***************************************************************************)
CONSTANTS
    Dids,       \* identities that can be signed in
    Opens,      \* names for opens and the sessions they produce (a bound)
    Callers,    \* concurrent activities that call getSession
    NoDid,      \* `null` as a DID
    EmptyDid,   \* the empty string as a DID
    NoSession   \* `null` as a session id or as an in-flight promise

ASSUME NullsAssumption ==
    NoDid \notin Dids /\ EmptyDid \notin Dids \cup {NoDid} /\ NoSession \notin Opens

VARIABLES
    boundDid,       \* identity the manager is bound to, or NoDid
    liveSessionId,  \* cached session, or NoSession
    inFlight,       \* the open new callers join, or NoSession
    openSt,         \* how far each open has come
    openDid,        \* the `did` each open captured
    sessions,       \* native sessions opened and not asked to close
    call            \* each caller's getSession call: state, DID bound at the
                    \* time of the call, and the open it awaits or returned

managerVars == <<boundDid, liveSessionId, inFlight>>
openVars    == <<openSt, openDid, sessions>>
sessionVars == <<boundDid, liveSessionId, inFlight, openSt, openDid, sessions, call>>

OpenStates == {"unused", "opening", "opened", "resolved", "rejected"}
CallStates == {"idle", "creator", "joined", "resolved", "rejected"}

SessionTypeOK ==
    /\ boundDid \in Dids \cup {NoDid}
    /\ liveSessionId \in Opens \cup {NoSession}
    /\ inFlight \in Opens \cup {NoSession}
    /\ openSt \in [Opens -> OpenStates]
    /\ openDid \in [Opens -> Dids \cup {NoDid}]
    /\ sessions \in SUBSET Opens
    /\ call \in [Callers -> [st  : CallStates,
                             did : Dids \cup {NoDid},
                             id  : Opens \cup {NoSession}]]

SessionInit ==
    /\ boundDid = NoDid
    /\ liveSessionId = NoSession
    /\ inFlight = NoSession
    /\ openSt = [o \in Opens |-> "unused"]
    /\ openDid = [o \in Opens |-> NoDid]
    /\ sessions = {}
    /\ call = [c \in Callers |-> [st |-> "idle", did |-> NoDid, id |-> NoSession]]

-----------------------------------------------------------------------------
(***************************************************************************)
(* Session ids are UUIDs, so an open never sees an old one again.  The     *)
(* model reuses a name only when nothing refers to it any more.            *)
(***************************************************************************)
Fresh(o) ==
    /\ openSt[o] \in {"unused", "resolved", "rejected"}
    /\ o \notin sessions
    /\ \A c \in Callers : call[c].id # o

CanCall(c) == call[c].st \in {"idle", "resolved", "rejected"}

Called(st, id) == [st |-> st, did |-> boundDid, id |-> id]

\* bindIdentity takes the empty string for null.
Normalised(did) == IF did = EmptyDid THEN NoDid ELSE did

BindIdentityLeaksSession(did) ==
    /\ Normalised(did) # boundDid
    /\ boundDid' = Normalised(did)
    /\ liveSessionId' = NoSession
    /\ inFlight' = NoSession
    /\ UNCHANGED <<sessions, openSt, openDid, call>>

BindIdentityKeepsInFlight(did) ==
    /\ Normalised(did) # boundDid
    /\ boundDid' = Normalised(did)
    /\ sessions' = sessions \ {liveSessionId}
    /\ liveSessionId' = NoSession
    /\ UNCHANGED <<inFlight, openSt, openDid, call>>

\* bindIdentity: a change of identity closes the cached session and forgets
\* the open in flight, which keeps running.
BindIdentity(did) ==
    /\ Normalised(did) # boundDid
    /\ boundDid' = Normalised(did)
    /\ sessions' = sessions \ {liveSessionId}
    /\ liveSessionId' = NoSession
    /\ inFlight' = NoSession
    /\ UNCHANGED <<openSt, openDid, call>>

\* dropSession: the transport's recovery path discards the cached session
\* whatever the identity, and forgets the open in flight.
DropSession ==
    /\ sessions' = sessions \ {liveSessionId}
    /\ liveSessionId' = NoSession
    /\ inFlight' = NoSession
    /\ UNCHANGED <<boundDid, openSt, openDid, call>>

\* getSession with no identity bound throws.
GetSessionUnbound(c) ==
    /\ boundDid = NoDid
    /\ call' = [call EXCEPT ![c] = Called("rejected", NoSession)]
    /\ UNCHANGED <<managerVars, openVars>>

\* getSession returns the cached session.
GetSessionCached(c) ==
    /\ boundDid # NoDid
    /\ liveSessionId # NoSession
    /\ call' = [call EXCEPT ![c] = Called("resolved", liveSessionId)]
    /\ UNCHANGED <<managerVars, openVars>>

\* getSession joins the open in flight.
GetSessionJoins(c) ==
    /\ boundDid # NoDid
    /\ liveSessionId = NoSession
    /\ inFlight # NoSession
    /\ call' = [call EXCEPT ![c] = Called("joined", inFlight)]
    /\ UNCHANGED <<managerVars, openVars>>

\* getSession starts an open for the bound identity and awaits it.
GetSessionOpens(c) ==
    /\ boundDid # NoDid
    /\ liveSessionId = NoSession
    /\ inFlight = NoSession
    /\ \E o \in Opens :
          /\ Fresh(o)
          /\ inFlight' = o
          /\ openSt' = [openSt EXCEPT ![o] = "opening"]
          /\ openDid' = [openDid EXCEPT ![o] = boundDid]
          /\ call' = [call EXCEPT ![c] = Called("creator", o)]
    /\ UNCHANGED <<boundDid, liveSessionId, sessions>>

GetSession(c) ==
    /\ CanCall(c)
    /\ \/ GetSessionUnbound(c)
       \/ GetSessionCached(c)
       \/ GetSessionJoins(c)
       \/ GetSessionOpens(c)

-----------------------------------------------------------------------------
(***************************************************************************)
(* The native module: the handshake succeeds or fails some time later.     *)
(***************************************************************************)
NativeOpens(o) ==
    /\ openSt[o] = "opening"
    /\ openSt' = [openSt EXCEPT ![o] = "opened"]
    /\ sessions' = sessions \cup {o}
    /\ UNCHANGED <<managerVars, openDid, call>>

NativeOpenFails(o) ==
    /\ openSt[o] = "opening"
    /\ openSt' = [openSt EXCEPT ![o] = "rejected"]
    /\ UNCHANGED <<managerVars, openDid, sessions, call>>

OpenContinuesUnguarded(o) ==
    /\ openSt[o] = "opened"
    /\ openSt' = [openSt EXCEPT ![o] = "resolved"]
    /\ liveSessionId' = o
    /\ UNCHANGED <<boundDid, inFlight, openDid, sessions, call>>

OpenContinuesSilently(o) ==
    /\ openSt[o] = "opened"
    /\ boundDid = openDid[o]
    /\ openSt' = [openSt EXCEPT ![o] = "resolved"]
    /\ liveSessionId' = o
    /\ UNCHANGED <<boundDid, inFlight, openDid, sessions, call>>

\* The continuation of an open: cached if its identity is still bound,
\* closed and rejected otherwise.
OpenContinues(o) ==
    /\ openSt[o] = "opened"
    /\ \/ /\ boundDid = openDid[o]
          /\ openSt' = [openSt EXCEPT ![o] = "resolved"]
          /\ liveSessionId' = o
          /\ UNCHANGED sessions
       \/ /\ boundDid # openDid[o]
          /\ openSt' = [openSt EXCEPT ![o] = "rejected"]
          /\ sessions' = sessions \ {o}
          /\ UNCHANGED liveSessionId
    /\ UNCHANGED <<boundDid, inFlight, openDid, call>>

Settled(o) == openSt[o] \in {"resolved", "rejected"}

\* The outcome of the open a caller awaits becomes the outcome of its call.
Settle(c) ==
    LET o == call[c].id IN
    call' = [call EXCEPT ![c] = [st  |-> openSt[o],
                                 did |-> @.did,
                                 id  |-> IF openSt[o] = "resolved" THEN o ELSE NoSession]]

CreatorSettlesNoFinally(c) ==
    /\ call[c].st = "creator"
    /\ Settled(call[c].id)
    /\ Settle(c)
    /\ UNCHANGED <<managerVars, openVars>>

\* The caller that started an open resumes: its `finally` clears inFlight,
\* whichever open that is by now.
CreatorSettles(c) ==
    /\ call[c].st = "creator"
    /\ Settled(call[c].id)
    /\ Settle(c)
    /\ inFlight' = NoSession
    /\ UNCHANGED <<boundDid, liveSessionId, openVars>>

\* A caller that joined an open resumes with the same outcome.
JoinerSettles(c) ==
    /\ call[c].st = "joined"
    /\ Settled(call[c].id)
    /\ Settle(c)
    /\ UNCHANGED <<managerVars, openVars>>

-----------------------------------------------------------------------------
OpenSteps ==
    \/ \E o \in Opens : NativeOpens(o) \/ NativeOpenFails(o) \/ OpenContinues(o)
    \/ \E c \in Callers : CreatorSettles(c) \/ JoinerSettles(c)

SessionNext ==
    \/ \E did \in Dids \cup {NoDid, EmptyDid} : BindIdentity(did)
    \/ DropSession
    \/ \E c \in Callers : GetSession(c)
    \/ OpenSteps

\* Promise continuations always run, and a native open answers: it resolves,
\* fails, or times out.  Nothing makes a user sign in or a caller call.
SessionFairness ==
    /\ \A o \in Opens : WF_sessionVars(NativeOpens(o) \/ NativeOpenFails(o) \/ OpenContinues(o))
    /\ \A c \in Callers : WF_sessionVars(CreatorSettles(c) \/ JoinerSettles(c))

SessionSpec == SessionInit /\ [][SessionNext]_sessionVars /\ SessionFairness

-----------------------------------------------------------------------------
(***************************************************************************)
(* Properties.                                                             *)
(***************************************************************************)

\* The cached session is open natively and authenticated as the identity
\* that is bound now, whatever rebinds and drops overlapped its open
\* (the race-guard of getSession and the teardown in bindIdentity).
CachedSessionIsBound ==
    liveSessionId # NoSession =>
        /\ liveSessionId \in sessions
        /\ openDid[liveSessionId] = boundDid

\* getSession never hands a caller a session of another identity than the
\* one bound when it called, even when it joined an open that a sign-out or
\* an account switch overtook.
CallerGetsItsIdentity ==
    \A c \in Callers :
        call[c].st = "resolved" => /\ openDid[call[c].id] = call[c].did
                                   /\ call[c].did # NoDid

\* A failed or discarded open never stays behind as the promise later calls
\* would join: as long as inFlight names an open, the caller that started it
\* has not run its `finally` (which clears it).
InFlightHasCreator ==
    inFlight # NoSession =>
        \E c \in Callers : call[c].st = "creator" /\ call[c].id = inFlight

\* Every call of getSession settles.
CallsSettle ==
    \A c \in Callers :
        (call[c].st \in {"creator", "joined"}) ~> (call[c].st \in {"resolved", "rejected"})

-----------------------------------------------------------------------------
\* The register the manager implements: its live session is the cached one,
\* and a call that resolved was answered with the session it returned.
Register == INSTANCE SessionRegister WITH
    owner <- boundDid,
    live  <- IF liveSessionId = NoSession THEN NoDid ELSE openDid[liveSessionId],
    asked <- [c \in Callers |-> call[c].did],
    got   <- [c \in Callers |-> IF call[c].st = "resolved" THEN openDid[call[c].id] ELSE NoDid]

\* Opens that overlap rebinds, drops and each other are invisible: getSession
\* behaves like a register whose owner and live session change together.
ImplementsRegister == Register!Spec
=============================================================================
