---------------------------- MODULE MessagingStore ----------------------------
(***************************************************************************)
(* The in-memory message store (src/services/MessagingMockData.ts) and its *)
(* per-identity persistence in the keychain (src/services/                 *)
(* MessagingStorage.ts): hydration on sign-in, the save gate, the debounced*)
(* save, and the activities that write to the store between two awaits of  *)
(* their own (sends and ingests of src/services/MessagingService.ts).      *)
(*                                                                         *)
(* `memory` is messagesByConversation, a partial function from peers to    *)
(* sets of messages.  The other three maps are cleared, hydrated, deleted  *)
(* and saved together with it; a write to one of them alone matters here   *)
(* for its notify() only (TouchOther).                                     *)
(*                                                                         *)
(* An entry of the keychain is named by the last 16 hex digits of a DID    *)
(* (serviceFor); a member of Dids stands for those digits, by which the    *)
(* identities of a device differ.                                          *)
(*                                                                         *)
(* The keychain is external.  Its calls are asynchronous and complete in   *)
(* the order they were issued (`ops`); a read that completed waits in      *)
(* `loaded` for its continuation to run.  A process death loses the memory *)
(* and the calls not yet performed, and keeps the keychain.                *)
(***************************************************************************)
EXTENDS Naturals, Sequences

CONSTANTS
    Dids,            \* identities that sign in on this device
    Peers,           \* conversations
    Msgs,            \* messages, each sent or received once
    NoDid,           \* `null` as a DID, and no save timer
    EmptyDid,        \* the empty string as a DID
    NoBlob,          \* no keychain entry, or one that cannot be read
    MaxOps           \* bound on keychain calls in flight

ASSUME StoreAssumption ==
    /\ NoDid \notin Dids /\ EmptyDid \notin Dids \cup {NoDid}
    /\ MaxOps \in Nat

Blobs == UNION {[S -> SUBSET Msgs] : S \in SUBSET Peers}

ASSUME NoBlobAssumption == NoBlob \notin Blobs

VARIABLES
    liveSelfDid,  \* the signed-in identity, or NoDid
    memory,       \* messagesByConversation
    saveEnabled,  \* the gate between setSelfDid and the end of hydration
    saveTimer,    \* the DID the pending save captured, or NoDid
    ops,          \* keychain calls issued and not yet performed
    loaded,       \* reads performed whose continuation has not run
    keychain,     \* what is on disk for each identity
    work,         \* each message's activity: none, started, stored, gone
    under,        \* history: identity live when a message was stored
    removed,      \* history: messages the user or a rescue removed
    early,        \* history: memory changed while the gate was closed
    failed        \* history: a keychain call failed since the process started

keychainVars == <<ops, loaded, keychain>>
historyVars  == <<work, under, removed>>
storeVars    == <<liveSelfDid, memory, saveEnabled, saveTimer, ops, loaded, keychain,
                  work, under, removed, early, failed>>

Ops   == [kind : {"load", "save"}, did : Dids, blob : Blobs \cup {NoBlob}]
Reads == [did : Dids, blob : Blobs \cup {NoBlob}]

TypeOK ==
    /\ liveSelfDid \in Dids \cup {NoDid}
    /\ memory \in Blobs
    /\ saveEnabled \in BOOLEAN
    /\ saveTimer \in Dids \cup {NoDid}
    /\ ops \in Seq(Ops)
    /\ loaded \in Seq(Reads)
    /\ keychain \in [Dids -> Blobs \cup {NoBlob}]
    /\ work \in [Msgs -> {"none", "started", "stored", "gone"}]
    /\ under \in [Msgs -> Dids \cup {NoDid}]
    /\ removed \in SUBSET Msgs
    /\ early \in BOOLEAN
    /\ failed \in BOOLEAN

NoMessages == [p \in {} |-> {}]

StoreInit ==
    /\ liveSelfDid = NoDid
    /\ memory = NoMessages
    /\ saveEnabled = FALSE
    /\ saveTimer = NoDid
    /\ ops = <<>>
    /\ loaded = <<>>
    /\ keychain = [d \in Dids |-> NoBlob]
    /\ work = [m \in Msgs |-> "none"]
    /\ under = [m \in Msgs |-> NoDid]
    /\ removed = {}
    /\ early = FALSE
    /\ failed = FALSE

-----------------------------------------------------------------------------
\* The messages of a conversation; getMessages answers [] for an unknown one.
Messages(blob, p) == IF p \in DOMAIN blob THEN blob[p] ELSE {}

\* Map.set on one conversation.
Set(blob, p, msgs) ==
    [q \in DOMAIN blob \cup {p} |-> IF q = p THEN msgs ELSE blob[q]]

\* hydrateFromBlob: the conversations of the blob replace those in memory,
\* the other ones stay.
Hydrated(blob) ==
    [p \in DOMAIN blob \cup DOMAIN memory |-> IF p \in DOMAIN blob THEN blob[p] ELSE memory[p]]

CallsInFlight == Len(ops) + Len(loaded)

\* scheduleSave, the tail of notify(): while the gate is open and somebody is
\* signed in, (re)arm the timer for the identity that is live now.
ScheduleSave ==
    saveTimer' = IF saveEnabled /\ liveSelfDid # NoDid THEN liveSelfDid ELSE saveTimer

\* A write to the conversations, with the notify() that ends every one.
Write(newMemory) ==
    /\ memory' = newMemory
    /\ ScheduleSave
    /\ early' = (early \/ ~saveEnabled)
    /\ UNCHANGED <<liveSelfDid, saveEnabled, ops, loaded, keychain, failed>>

WriteWithoutNotify(newMemory) ==
    /\ memory' = newMemory
    /\ early' = (early \/ ~saveEnabled)
    /\ UNCHANGED <<liveSelfDid, saveEnabled, saveTimer, ops, loaded, keychain, failed>>

-----------------------------------------------------------------------------
Normalised(did) == IF did = EmptyDid THEN NoDid ELSE did

SetSelfDidRaw(did) ==
    /\ did # liveSelfDid
    /\ CallsInFlight < MaxOps
    /\ liveSelfDid' = did
    /\ saveEnabled' = FALSE
    /\ saveTimer' = NoDid
    /\ memory' = NoMessages
    /\ early' = FALSE
    /\ ops' = IF did \notin Dids THEN ops
              ELSE Append(ops, [kind |-> "load", did |-> did, blob |-> NoBlob])
    /\ UNCHANGED <<loaded, keychain, work, under, removed, failed>>

\* setSelfDid: close the gate, cancel the pending save, empty the maps and
\* start loading the new identity's blob.  Its notify() saves nothing.
SetSelfDid(did) ==
    /\ Normalised(did) # liveSelfDid
    /\ CallsInFlight < MaxOps
    /\ liveSelfDid' = Normalised(did)
    /\ saveEnabled' = FALSE
    /\ saveTimer' = NoDid
    /\ memory' = NoMessages
    /\ early' = FALSE
    /\ ops' = IF Normalised(did) = NoDid THEN ops
              ELSE Append(ops, [kind |-> "load", did |-> Normalised(did), blob |-> NoBlob])
    /\ UNCHANGED <<loaded, keychain, work, under, removed, failed>>

LoadContinuesUnchecked ==
    /\ loaded # <<>>
    /\ loaded' = Tail(loaded)
    /\ memory' = IF Head(loaded).blob = NoBlob THEN memory ELSE Hydrated(Head(loaded).blob)
    /\ saveEnabled' = TRUE
    /\ ScheduleSave
    /\ UNCHANGED <<liveSelfDid, ops, keychain, work, under, removed, early, failed>>

\* The continuation of loadMessagingState: bail if the identity changed, else
\* hydrate and notify() (with the gate as it was), and open the gate.  It
\* opens for an unreadable entry too.
LoadContinues ==
    /\ loaded # <<>>
    /\ loaded' = Tail(loaded)
    /\ LET r == Head(loaded)
       IN \/ /\ r.did # liveSelfDid
             /\ UNCHANGED <<memory, saveEnabled, saveTimer>>
          \/ /\ r.did = liveSelfDid
             /\ r.blob = NoBlob
             /\ saveEnabled' = TRUE
             /\ UNCHANGED <<memory, saveTimer>>
          \/ /\ r.did = liveSelfDid
             /\ r.blob # NoBlob
             /\ memory' = Hydrated(r.blob)
             /\ ScheduleSave
             /\ saveEnabled' = TRUE
    /\ UNCHANGED <<liveSelfDid, ops, keychain, work, under, removed, early, failed>>

SaveTimerFiresIdly ==
    /\ saveTimer # NoDid
    /\ CallsInFlight < MaxOps
    /\ saveTimer' = NoDid
    /\ UNCHANGED <<liveSelfDid, memory, saveEnabled, ops, loaded, keychain, work, under,
                   removed, early, failed>>

\* The debounce elapses: save a snapshot of the maps as they are now, under
\* the DID captured when the timer was armed.
SaveTimerFires ==
    /\ saveTimer # NoDid
    /\ CallsInFlight < MaxOps
    /\ saveTimer' = NoDid
    /\ ops' = Append(ops, [kind |-> "save", did |-> saveTimer, blob |-> memory])
    /\ UNCHANGED <<liveSelfDid, memory, saveEnabled, loaded, keychain, work, under,
                   removed, early, failed>>

-----------------------------------------------------------------------------
(***************************************************************************)
(* Activities of MessagingService.  A send or an ingest starts under the   *)
(* identity that is live, awaits native and network calls, and only then   *)
(* writes to the store, under whatever identity is live by that time.      *)
(***************************************************************************)
StartWork(m) ==
    /\ work[m] = "none"
    /\ liveSelfDid # NoDid
    /\ work' = [work EXCEPT ![m] = "started"]
    /\ UNCHANGED <<liveSelfDid, memory, saveEnabled, saveTimer, ops, loaded, keychain, under,
                   removed, early, failed>>

\* History of a message that reaches the store.
Stored(m) ==
    /\ work[m] = "started"
    /\ work' = [work EXCEPT ![m] = "stored"]
    /\ under' = [under EXCEPT ![m] = liveSelfDid]

AppendMessage(m, p) ==
    /\ Stored(m)
    /\ Write(Set(memory, p, Messages(memory, p) \cup {m}))
    /\ UNCHANGED removed

\* replaceMessage: a rescued message takes the slot of its placeholder.
ReplaceMessage(old, m, p) ==
    /\ old \in Messages(memory, p)
    /\ Stored(m)
    /\ Write(Set(memory, p, (memory[p] \ {old}) \cup {m}))
    /\ removed' = removed \cup {old}

RemoveMessageSilently(m, p) ==
    /\ m \in Messages(memory, p)
    /\ WriteWithoutNotify(Set(memory, p, memory[p] \ {m}))
    /\ removed' = removed \cup {m}
    /\ UNCHANGED <<work, under>>

RemoveMessage(m, p) ==
    /\ m \in Messages(memory, p)
    /\ Write(Set(memory, p, memory[p] \ {m}))
    /\ removed' = removed \cup {m}
    /\ UNCHANGED <<work, under>>

\* deleteConversation: the user erases a conversation.
DeleteConversation(p) ==
    /\ Write([q \in DOMAIN memory \ {p} |-> memory[q]])
    /\ removed' = removed \cup Messages(memory, p)
    /\ UNCHANGED <<work, under>>

\* upsertContact, markRead, updateMessageStatus, confirmSentMessage,
\* setSerializedSession and clearSerializedSession: their notify().
TouchOther ==
    /\ ScheduleSave
    /\ UNCHANGED <<liveSelfDid, memory, saveEnabled, ops, loaded, keychain, work, under,
                   removed, early, failed>>

-----------------------------------------------------------------------------
\* The keychain performs the oldest call.  A read that fails and an entry
\* that is absent both come back as null; a write that fails is only logged.
KeychainReads ==
    /\ ops # <<>>
    /\ Head(ops).kind = "load"
    /\ ops' = Tail(ops)
    /\ \/ /\ loaded' = Append(loaded, [did |-> Head(ops).did, blob |-> keychain[Head(ops).did]])
          /\ UNCHANGED failed
       \/ /\ loaded' = Append(loaded, [did |-> Head(ops).did, blob |-> NoBlob])
          /\ failed' = TRUE
    /\ UNCHANGED <<liveSelfDid, memory, saveEnabled, saveTimer, keychain, work, under,
                   removed, early>>

KeychainWrites ==
    /\ ops # <<>>
    /\ Head(ops).kind = "save"
    /\ ops' = Tail(ops)
    /\ \/ /\ keychain' = [keychain EXCEPT ![Head(ops).did] = Head(ops).blob]
          /\ UNCHANGED failed
       \/ /\ failed' = TRUE
          /\ UNCHANGED keychain
    /\ UNCHANGED <<liveSelfDid, memory, saveEnabled, saveTimer, loaded, work, under,
                   removed, early>>

\* The process dies and restarts with nobody signed in.
Crash ==
    /\ liveSelfDid' = NoDid
    /\ memory' = NoMessages
    /\ saveEnabled' = FALSE
    /\ saveTimer' = NoDid
    /\ ops' = <<>>
    /\ loaded' = <<>>
    /\ work' = [m \in Msgs |-> IF work[m] = "started" THEN "gone" ELSE work[m]]
    /\ early' = FALSE
    /\ failed' = FALSE
    /\ UNCHANGED <<keychain, under, removed>>

StoreNext ==
    \/ \E did \in Dids \cup {NoDid, EmptyDid} : SetSelfDid(did)
    \/ LoadContinues
    \/ SaveTimerFires
    \/ \E m \in Msgs : StartWork(m)
    \/ \E m \in Msgs, p \in Peers : AppendMessage(m, p)
    \/ \E old \in Msgs, m \in Msgs, p \in Peers : ReplaceMessage(old, m, p)
    \/ \E m \in Msgs, p \in Peers : RemoveMessage(m, p)
    \/ \E p \in Peers : DeleteConversation(p)
    \/ TouchOther
    \/ KeychainReads
    \/ KeychainWrites
    \/ Crash

(***************************************************************************)
(* Timers fire, keychain calls complete and promise continuations run.     *)
(* That the debounce elapses assumes that bursts of writes end: each write *)
(* re-arms the timer.                                                      *)
(***************************************************************************)
StoreFairness ==
    /\ WF_storeVars(LoadContinues)
    /\ WF_storeVars(SaveTimerFires)
    /\ WF_storeVars(KeychainReads)
    /\ WF_storeVars(KeychainWrites)

StoreSpec == StoreInit /\ [][StoreNext]_storeVars /\ StoreFairness

-----------------------------------------------------------------------------
\* Every message of a blob was stored while identity d was live.
StoredUnder(blob, d) ==
    \A p \in DOMAIN blob : \A m \in blob[p] : under[m] = d

(***************************************************************************)
(* An identity's keychain entry holds only messages that entered the store *)
(* while that identity was live: no load that comes back late, no save     *)
(* timer armed before a switch and no hydration crosses identities         *)
(* (the bail-out and the clearTimeout of setSelfDid).                      *)
(***************************************************************************)
PersistedIsOwn ==
    \A d \in Dids : keychain[d] # NoBlob => StoredUnder(keychain[d], d)

\* The newest state on its way to the disk for the live identity: the
\* pending snapshot, else the last save queued, else what is there.
OnItsWay ==
    LET saves == {i \in DOMAIN ops : ops[i].kind = "save" /\ ops[i].did = liveSelfDid}
    IN  IF saveTimer = liveSelfDid THEN memory
        ELSE IF saves # {}
             THEN ops[CHOOSE i \in saves : \A j \in saves : j <= i].blob
             ELSE IF keychain[liveSelfDid] = NoBlob THEN NoMessages
                                                    ELSE keychain[liveSelfDid]

\* No load of the live identity is outstanding, not even one issued before
\* the identity was signed out and in again.
FullyHydrated ==
    /\ liveSelfDid # NoDid
    /\ saveEnabled
    /\ \A i \in DOMAIN ops : ops[i].kind = "load" => ops[i].did # liveSelfDid
    /\ \A i \in DOMAIN loaded : loaded[i].did # liveSelfDid

(***************************************************************************)
(* Once hydrated, memory never drifts from what is on its way to the disk: *)
(* every write, removal, deletion and repeated hydration is covered by a   *)
(* timer, a queued save or the entry itself.  A keychain call that failed  *)
(* breaks this, and so does a write before hydration (`early`), which is   *)
(* not saved until the next write.                                         *)
(***************************************************************************)
ChangesAreOnTheirWay ==
    FullyHydrated /\ ~early /\ ~failed => OnItsWay = memory

\* A save that was scheduled reaches the disk unless the identity changes or
\* the keychain fails: the debounced save is neither starved nor overtaken by
\* an older one.
ScheduledSaveLands ==
    \A d \in Dids : saveTimer = d ~> keychain[d] = memory \/ liveSelfDid # d \/ failed

\* "otherwise the empty in-memory state above would overwrite the persisted
\* blob": no save erases persisted messages that nobody removed.
SaveKeepsHistory ==
    [][\A d \in Dids : keychain[d] # NoBlob =>
         \A p \in DOMAIN keychain[d] :
             keychain[d][p] \ removed \subseteq Messages(keychain'[d], p)]_storeVars
=============================================================================
