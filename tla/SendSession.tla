----------------------------- MODULE SendSession -----------------------------
(***************************************************************************)
(* Our outbound session with one peer (src/services/MessagingService.ts):  *)
(* the handshake that concurrent sends, read receipts, resends and         *)
(* re-handshakes share, the ratchet they all seal on, and the snapshots    *)
(* that let a restart resume it.                                           *)
(*                                                                         *)
(* A task is one call of an asynchronous function; an action is the code   *)
(* between two awaits.  The bridge runs native calls in the order they are *)
(* made, so a snapshot and its store are one step.  A native session is    *)
(* named by a handle; `gen` names the handshake it stems from and `ctr`    *)
(* is the counter the next seal uses.  `shipped`, `lost`, `accepted` and   *)
(* `unsure` are history.                                                   *)
(***************************************************************************)
EXTENDS Naturals, Sequences

CONSTANTS
    Msgs,      \* text messages: sendTextMessageNative, later resendMessage
    Acks,      \* read receipts: shipReadReceipt
    Shakes,    \* re-handshakes: recoverMissingSession, reconnectSession, completeHandshake
    MaxHandles, \* bound: native sessions created
    MaxSeals,   \* bound: seals on one session
    None       \* no session, blob or task

Tasks == Msgs \cup Acks \cup Shakes
Handles == 1..MaxHandles

ASSUME SendAssumption ==
    /\ None \notin Tasks /\ None \notin Handles
    /\ None \notin {"sent", "pending", "failed"}
    /\ Msgs \cap (Acks \cup Shakes) = {} /\ Acks \cap Shakes = {}
    /\ MaxHandles \in Nat /\ MaxSeals \in Nat

VARIABLES
    sendSession,  \* sendSessionByDid: the cached handle
    inFlight,     \* sendSessionInitInFlight: the task whose handshake others join
    blob,         \* the serialized '#send' session in the store
    native,       \* the native sessions created so far, by handle
    task,         \* where each task is
    row,          \* status of each message's row in the store, None if absent
    disk,         \* blob and rows as last saved
    shipped,      \* handshakes whose KeyExchange the node accepted
    lost,         \* handshakes whose KeyExchange failed or was cut off
    accepted,     \* how often the node accepted each message
    unsure        \* messages the node accepted without our learning or saving it

storeVars   == <<blob, row>>
historyVars == <<shipped, lost, accepted, unsure>>
vars == <<sendSession, inFlight, native, task, disk, storeVars, historyVars>>

Sessions == [gen : Handles, ctr : 0..MaxSeals]
Blobs    == Sessions \cup {None}
Rows     == {None, "sent", "pending", "failed"}
Waiting  == {"restoring", "fetching", "shipping", "saving"}   \* inside initSendSession
Busy     == Waiting \cup {"completing", "joined", "sealing", "posting", "recording"}
Calls    == [pc : Busy \cup {"new", "idle"}, h : Handles \cup {None}, blob : Blobs,
             st : Rows, resend : BOOLEAN]

TypeOK ==
    /\ sendSession \in Handles \cup {None}
    /\ inFlight \in Tasks \cup {None}
    /\ blob \in Blobs
    /\ native \in Seq(Sessions) /\ Len(native) <= MaxHandles
    /\ task \in [Tasks -> Calls]
    /\ row \in [Msgs -> Rows]
    /\ disk \in [blob : Blobs, row : [Msgs -> Rows]]
    /\ shipped \subseteq Handles /\ lost \subseteq Handles
    /\ accepted \in [Msgs -> Nat]
    /\ unsure \subseteq Msgs

Init ==
    /\ sendSession = None
    /\ inFlight = None
    /\ blob = None
    /\ native = <<>>
    /\ task = [t \in Tasks |-> [pc |-> "new", h |-> None, blob |-> None, st |-> None,
                                resend |-> FALSE]]
    /\ row = [m \in Msgs |-> None]
    /\ disk = [blob |-> None, row |-> row]
    /\ shipped = {} /\ lost = {}
    /\ accepted = [m \in Msgs |-> 0]
    /\ unsure = {}

-----------------------------------------------------------------------------
\* A native call that creates a session answers with a handle of its own.
NewSession(s) ==
    /\ Len(native) < MaxHandles
    /\ native' = Append(native, s)

\* A task that returned or threw; a message that is sent again is a resend.
Idle == [pc |-> "idle", h |-> None, blob |-> None, st |-> None, resend |-> TRUE]

\* A task that has its session: a re-handshake is done, the others seal.
Ready(t, h) ==
    IF t \in Shakes THEN Idle ELSE [task[t] EXCEPT !.pc = "sealing", !.h = h, !.blob = None]

\* The row of a resend that threw; a first send has no row yet, and a row
\* deleted meanwhile stays away.
FailedRow(t) == IF task[t].resend /\ row[t] # None THEN "failed" ELSE row[t]

\* getOrInitSendSession with session s cached and blob b stored: take the
\* cached one, join the handshake in flight, or start one.
GetOrInit(t, s, b) ==
    \/ /\ s # None
       /\ task' = [task EXCEPT ![t] = Ready(t, s)]
       /\ UNCHANGED inFlight
    \/ /\ s = None /\ inFlight # None
       /\ task' = [task EXCEPT ![t].pc = "joined"]
       /\ UNCHANGED inFlight
    \/ /\ s = None /\ inFlight = None
       /\ inFlight' = t
       /\ task' = [task EXCEPT ![t].pc = IF b = None THEN "fetching" ELSE "restoring",
                               ![t].blob = b]

Sharers(t) == {t} \cup {u \in Tasks : task[u].pc = "joined"}

ResolveCreatorOnly(t, h) ==
    /\ inFlight' = None
    /\ task' = [task EXCEPT ![t] = Ready(t, h)]

\* The handshake of task t ends well: whoever shares it goes on, and the
\* `finally` of getOrInitSendSession takes it out of the map.
Resolve(t, h) ==
    /\ inFlight' = None
    /\ task' = [u \in Tasks |-> IF u \in Sharers(t) THEN Ready(u, h) ELSE task[u]]

\* ... or throws in everyone who shares it.
Reject(t) ==
    /\ inFlight' = None
    /\ task' = [u \in Tasks |-> IF u \in Sharers(t) THEN Idle ELSE task[u]]
    /\ row' = [m \in Msgs |-> IF m \in Sharers(t) THEN FailedRow(m) ELSE row[m]]

-----------------------------------------------------------------------------
(***************************************************************************)
(* Calls.                                                                  *)
(***************************************************************************)

\* sendTextMessageNative, or shipReadReceipt after a message was opened.
Send(t) ==
    /\ task[t].pc = "new"
    /\ GetOrInit(t, sendSession, blob)
    /\ UNCHANGED <<sendSession, native, disk, storeVars, historyVars>>

\* resendMessage: offered on a failed row, which turns pending first.
Resend(m) ==
    /\ task[m].pc = "idle"
    /\ row[m] = "failed"
    /\ row' = [row EXCEPT ![m] = "pending"]
    /\ GetOrInit(m, sendSession, blob)
    /\ UNCHANGED <<sendSession, native, disk, blob, historyVars>>

RehandshakeForks(t) ==
    /\ task[t].pc = "new"
    /\ sendSession' = None
    /\ blob' = None
    /\ inFlight' = t
    /\ task' = [task EXCEPT ![t].pc = "fetching"]
    /\ UNCHANGED <<native, disk, row, historyVars>>

\* recoverMissingSession (gated by the cooldown) and reconnectSession (not):
\* open the window, resetSendSession, then getOrInitSendSession.  The reset
\* leaves a handshake in flight alone.
Rehandshake(t) ==
    /\ task[t].pc = "new"
    /\ sendSession' = None
    /\ blob' = None
    /\ GetOrInit(t, None, None)
    /\ UNCHANGED <<native, disk, row, historyVars>>

\* completeHandshake on first contact: nothing if a session is cached, else
\* restore the blob (outside the shared handshake), else getOrInitSendSession.
CompleteHandshake(t) ==
    /\ task[t].pc = "new"
    /\ sendSession = None
    /\ \/ /\ blob # None
          /\ task' = [task EXCEPT ![t].pc = "completing", ![t].blob = blob]
          /\ UNCHANGED inFlight
       \/ /\ blob = None
          /\ GetOrInit(t, None, None)
    /\ UNCHANGED <<sendSession, native, disk, storeVars, historyVars>>

\* deleteConversation: the session, its blob, the window and the rows go;
\* tasks and a handshake in flight go on.
DeleteConversation ==
    /\ sendSession' = None
    /\ blob' = None
    /\ row' = [m \in Msgs |-> None]
    /\ UNCHANGED <<inFlight, native, task, disk, historyVars>>

-----------------------------------------------------------------------------
(***************************************************************************)
(* initSendSession.                                                        *)
(***************************************************************************)

\* tryRestoreSession: a new native session from the blob read before the
\* await, cached whatever happened meanwhile.
Restored(t) ==
    /\ task[t].pc \in {"restoring", "completing"}
    /\ NewSession(task[t].blob)
    /\ LET h == Len(native') IN
          /\ sendSession' = h
          /\ \/ task[t].pc = "restoring" /\ Resolve(t, h)
             \/ /\ task[t].pc = "completing"
                /\ task' = [task EXCEPT ![t] = Ready(t, h)]
                /\ UNCHANGED inFlight
    /\ UNCHANGED <<disk, storeVars, historyVars>>

\* The blob does not deserialize: on to a fresh handshake.
RestoreFails(t) ==
    /\ \/ /\ task[t].pc = "restoring"
          /\ task' = [task EXCEPT ![t].pc = "fetching"]
          /\ UNCHANGED inFlight
       \/ /\ task[t].pc = "completing"
          /\ GetOrInit(t, sendSession, blob)
    /\ UNCHANGED <<sendSession, native, disk, storeVars, historyVars>>

\* The peer's keys arrive and initiateSession builds a session, which is
\* cached before its KeyExchange is shipped.
Initiated(t) ==
    /\ task[t].pc = "fetching"
    /\ NewSession([gen |-> Len(native) + 1, ctr |-> 0])
    /\ LET h == Len(native') IN
          /\ sendSession' = h
          /\ task' = [task EXCEPT ![t].pc = "shipping", ![t].h = h]
    /\ UNCHANGED <<inFlight, disk, storeVars, historyVars>>

InitiateFails(t) ==
    /\ task[t].pc = "fetching"
    /\ Reject(t)
    /\ UNCHANGED <<sendSession, native, disk, blob, historyVars>>

KeyExchangeSkipped(t) ==
    /\ task[t].pc = "shipping"
    /\ task' = [task EXCEPT ![t].pc = "saving"]
    /\ UNCHANGED <<sendSession, inFlight, native, disk, storeVars, historyVars>>

\* The node accepts the KeyExchange envelope.
KeyExchangeShipped(t) ==
    /\ task[t].pc = "shipping"
    /\ shipped' = shipped \cup {task[t].h}
    /\ task' = [task EXCEPT ![t].pc = "saving"]
    /\ UNCHANGED <<sendSession, inFlight, native, disk, storeVars, lost, accepted, unsure>>

\* It does not: the handshake throws, its session stays cached.
KeyExchangeFails(t) ==
    /\ task[t].pc = "shipping"
    /\ lost' = lost \cup {task[t].h}
    /\ Reject(t)
    /\ UNCHANGED <<sendSession, native, disk, blob, shipped, accepted, unsure>>

\* persistSession and the end of initSendSession.
InitSaved(t) ==
    /\ task[t].pc = "saving"
    /\ blob' = native[task[t].h]
    /\ Resolve(t, task[t].h)
    /\ UNCHANGED <<sendSession, native, disk, row, historyVars>>

-----------------------------------------------------------------------------
(***************************************************************************)
(* Sealing, posting and recording.                                         *)
(***************************************************************************)

\* sealTextSigned advances the ratchet.
Seal(t) ==
    /\ task[t].pc = "sealing"
    /\ native[task[t].h].ctr < MaxSeals
    /\ native' = [native EXCEPT ![task[t].h].ctr = @ + 1]
    /\ task' = [task EXCEPT ![t].pc = "posting"]
    /\ UNCHANGED <<sendSession, inFlight, disk, storeVars, historyVars>>

\* A seal fails when another identity is current natively by now.
SealFails(t) ==
    /\ task[t].pc = "sealing"
    /\ task' = [task EXCEPT ![t] = Idle]
    /\ row' = [m \in Msgs |-> IF m = t THEN FailedRow(m) ELSE row[m]]
    /\ UNCHANGED <<sendSession, inFlight, native, disk, blob, historyVars>>

\* The row status "sent" stands for what the node answers: sent, queued or
\* delivered.
PostOk(t) ==
    /\ task[t].pc = "posting"
    /\ task' = [task EXCEPT ![t].pc = "recording", ![t].st = "sent"]
    /\ accepted' = [m \in Msgs |-> IF m = t THEN accepted[m] + 1 ELSE accepted[m]]
    /\ UNCHANGED <<sendSession, inFlight, native, disk, storeVars, shipped, lost, unsure>>

PostFailsUnnoticed(t) ==
    /\ task[t].pc = "posting"
    /\ task' = [task EXCEPT ![t].pc = "recording", ![t].st = "sent"]
    /\ UNCHANGED <<sendSession, inFlight, native, disk, storeVars, historyVars>>

\* POST throws: before the node has the envelope, or after (`unsure`).  A
\* first send is recorded as failed; a resend marks its row and, like a
\* receipt, throws without a snapshot.
PostFails(t) ==
    /\ task[t].pc = "posting"
    /\ \/ UNCHANGED <<accepted, unsure>>
       \/ /\ t \in Msgs
          /\ accepted' = [accepted EXCEPT ![t] = @ + 1]
          /\ unsure' = unsure \cup {t}
    /\ \/ /\ t \in Msgs /\ ~task[t].resend
          /\ task' = [task EXCEPT ![t].pc = "recording", ![t].st = "failed"]
          /\ UNCHANGED row
       \/ /\ t \in Acks \/ task[t].resend
          /\ task' = [task EXCEPT ![t] = Idle]
          /\ row' = [m \in Msgs |-> IF m = t THEN FailedRow(m) ELSE row[m]]
    /\ UNCHANGED <<sendSession, inFlight, native, disk, blob, shipped, lost>>

\* getSessionInfo, persistSession, then the row: appended by a first send,
\* updated in place by a resend if it is still there.
Record(t) ==
    /\ task[t].pc = "recording"
    /\ blob' = native[task[t].h]
    /\ task' = [task EXCEPT ![t] = Idle]
    /\ row' = [m \in Msgs |-> IF m = t /\ (~task[m].resend \/ row[m] # None)
                              THEN task[m].st ELSE row[m]]
    /\ UNCHANGED <<sendSession, inFlight, native, disk, historyVars>>

-----------------------------------------------------------------------------
\* The debounced save of the store reaches the keychain (MessagingStore).
Flush ==
    /\ disk' = [blob |-> blob, row |-> row]
    /\ disk' # disk
    /\ UNCHANGED <<sendSession, inFlight, native, task, storeVars, historyVars>>

\* Process death: native sessions, maps and tasks are gone, the store is what
\* was saved.
Crash ==
    /\ sendSession' = None
    /\ inFlight' = None
    /\ blob' = disk.blob
    /\ row' = disk.row
    /\ task' = [t \in Tasks |-> IF task[t].pc = "new" THEN task[t] ELSE Idle]
    /\ lost' = lost \cup {task[t].h : t \in {u \in Tasks : task[u].pc = "shipping"}}
    /\ unsure' = unsure \cup {m \in Msgs : accepted[m] > 0 /\ disk.row[m] # "sent"}
    /\ UNCHANGED <<native, disk, shipped, accepted>>

Progress(t) ==
    \/ Restored(t) \/ RestoreFails(t)
    \/ Initiated(t) \/ InitiateFails(t)
    \/ KeyExchangeShipped(t) \/ KeyExchangeFails(t) \/ InitSaved(t)
    \/ Seal(t) \/ SealFails(t) \/ PostOk(t) \/ PostFails(t) \/ Record(t)

Next ==
    \/ \E t \in Msgs \cup Acks : Send(t)
    \/ \E m \in Msgs : Resend(m)
    \/ \E t \in Shakes : Rehandshake(t) \/ CompleteHandshake(t)
    \/ \E t \in Tasks : Progress(t)
    \/ DeleteConversation \/ Flush \/ Crash

\* Native calls and requests answer, with a result or a timeout.
Spec == Init /\ [][Next]_vars /\ \A t \in Tasks : WF_vars(Progress(t))

-----------------------------------------------------------------------------
(***************************************************************************)
(* Properties.                                                             *)
(***************************************************************************)

\* "One in-flight promise per peer guarantees exactly one handshake": resets,
\* deletions and first contacts that overlap a handshake never fork another.
OneHandshake ==
    \A t, u \in Tasks : task[t].pc \in Waiting /\ task[u].pc \in Waiting => t = u

\* Whatever is cached, stored, saved or held by a task was shipped to the
\* peer, is being shipped, or lost its KeyExchange to a failure: no order of
\* resets, restores and late snapshots leaves a session whose keys nobody
\* ever tried to ship.
KeysAreShipped ==
    LET held == {blob, disk.blob} \cup {native[h] : h \in DOMAIN native}
    IN  \A s \in held \ {None} :
            \/ s.gen \in shipped \cup lost
            \/ \E t \in Tasks : task[t].pc = "shipping" /\ task[t].h = s.gen

\* The status the user sees is the truth about the node, and a message is
\* accepted twice only after a reply was lost: a resend never duplicates.
RowsAreTruthful ==
    \A m \in Msgs \ unsure :
        /\ accepted[m] <= 1
        /\ row[m] = "failed" => accepted[m] = 0
        /\ row[m] = "sent" => accepted[m] = 1

\* A send, receipt or re-handshake settles, also when it joined a handshake
\* that a reset, a deletion or a failure overtook.
TasksSettle ==
    \A t \in Tasks : task[t].pc \in Busy ~> task[t].pc = "idle"
=============================================================================
