------------------------- MODULE MessagingStoreProofs -------------------------
(***************************************************************************)
(* Separation of identities in the message store, for any number of        *)
(* identities, conversations, messages and keychain calls in flight, and   *)
(* whether or not the keychain fails.                                      *)
(*                                                                         *)
(* PersistedIsOwn speaks of the keychain alone.  StoreInv extends it to    *)
(* every place a blob can be on its way from or to: memory belongs to the  *)
(* live identity, a save or a read in flight to the identity it names, and *)
(* a timer is only ever armed for the live identity.                       *)
(***************************************************************************)
EXTENDS MessagingStore, TLAPS

\* The messages of a blob.
Contents(blob) == UNION {blob[p] : p \in DOMAIN blob}

\* The messages that got into the store while identity d was live.
StoredBy(d) == {m \in Msgs : work[m] = "stored" /\ under[m] = d}

MemoryIsLive == Contents(memory) \subseteq StoredBy(liveSelfDid)

TimerIsLive == saveTimer # NoDid => saveTimer = liveSelfDid

OpsAreOwn ==
    \A i \in 1 .. Len(ops) :
        ops[i].blob # NoBlob => Contents(ops[i].blob) \subseteq StoredBy(ops[i].did)

SavesHaveBlob == \A i \in 1 .. Len(ops) : ops[i].kind = "save" => ops[i].blob # NoBlob

ReadsAreOwn ==
    \A i \in 1 .. Len(loaded) :
        loaded[i].blob # NoBlob => Contents(loaded[i].blob) \subseteq StoredBy(loaded[i].did)

KeychainIsOwn ==
    \A d \in Dids : keychain[d] # NoBlob => Contents(keychain[d]) \subseteq StoredBy(d)

StoreInv ==
    /\ TypeOK
    /\ MemoryIsLive
    /\ TimerIsLive
    /\ OpsAreOwn
    /\ SavesHaveBlob
    /\ ReadsAreOwn
    /\ KeychainIsOwn

-----------------------------------------------------------------------------
\* Facts about blobs: partial functions from conversations to message sets.

\* A blob's domain and values.
LEMMA BlobShape ==
    ASSUME NEW b \in Blobs
    PROVE  /\ DOMAIN b \in SUBSET Peers
           /\ \A p \in DOMAIN b : b[p] \in SUBSET Msgs
           /\ b = [p \in DOMAIN b |-> b[p]]
  BY DEF Blobs

\* Any function of that shape is a blob.
LEMMA BlobOfShape ==
    ASSUME NEW S \in SUBSET Peers, NEW f \in [S -> SUBSET Msgs]
    PROVE  f \in Blobs
  BY DEF Blobs

\* The empty store is a blob.
LEMMA NoMessagesIsBlob == NoMessages \in Blobs
<1>1. NoMessages \in [{} -> SUBSET Msgs]
  BY DEF NoMessages
<1> QED
  BY <1>1, BlobOfShape

\* Writing one conversation of a blob gives a blob.
LEMMA SetIsBlob ==
    ASSUME NEW b \in Blobs, NEW p \in Peers, NEW s \in SUBSET Msgs
    PROVE  Set(b, p, s) \in Blobs
<1>1. DOMAIN b \cup {p} \in SUBSET Peers
  BY BlobShape
<1>2. Set(b, p, s) \in [DOMAIN b \cup {p} -> SUBSET Msgs]
  BY BlobShape DEF Set
<1> QED
  BY <1>1, <1>2, BlobOfShape

\* Hydrating memory from a blob gives a blob.
LEMMA HydratedIsBlob ==
    ASSUME NEW b \in Blobs, memory \in Blobs
    PROVE  Hydrated(b) \in Blobs
<1>1. DOMAIN b \cup DOMAIN memory \in SUBSET Peers
  BY BlobShape
<1>2. Hydrated(b) \in [DOMAIN b \cup DOMAIN memory -> SUBSET Msgs]
  BY BlobShape DEF Hydrated
<1> QED
  BY <1>1, <1>2, BlobOfShape

\* Deleting a conversation from memory gives a blob.
LEMMA DeletedIsBlob ==
    ASSUME memory \in Blobs, NEW p \in Peers
    PROVE  [q \in DOMAIN memory \ {p} |-> memory[q]] \in Blobs
<1>1. DOMAIN memory \ {p} \in SUBSET Peers
  BY BlobShape
<1>2. [q \in DOMAIN memory \ {p} |-> memory[q]] \in [DOMAIN memory \ {p} -> SUBSET Msgs]
  BY BlobShape
<1> QED
  BY <1>1, <1>2, BlobOfShape

\* Hydration adds nothing that is neither in the blob nor in memory.
LEMMA HydratedContents ==
    ASSUME NEW b
    PROVE  Contents(Hydrated(b)) \subseteq Contents(b) \cup Contents(memory)
  BY DEF Contents, Hydrated

\* Writing a conversation adds nothing but what is written.
LEMMA SetContents ==
    ASSUME NEW b, NEW p, NEW s
    PROVE  Contents(Set(b, p, s)) \subseteq Contents(b) \cup s
  BY DEF Contents, Set

\* Storing a message that was not in the store moves no stored message.
LEMMA StoredKeeps ==
    ASSUME TypeOK, NEW m \in Msgs, Stored(m), UNCHANGED liveSelfDid
    PROVE  /\ \A d : StoredBy(d) \subseteq StoredBy(d)'
           /\ m \in StoredBy(liveSelfDid)'
<1>1. work' = [work EXCEPT ![m] = "stored"] /\ under' = [under EXCEPT ![m] = liveSelfDid]
  BY DEF Stored
<1>2. work[m] # "stored"
  BY DEF Stored
<1>3. work'[m] = "stored" /\ under'[m] = liveSelfDid
  BY <1>1 DEF TypeOK
<1>4. \A n \in Msgs \ {m} : work'[n] = work[n] /\ under'[n] = under[n]
  BY <1>1 DEF TypeOK
<1>5. liveSelfDid' = liveSelfDid
  OBVIOUS
<1> QED
  BY <1>2, <1>3, <1>4, <1>5 DEF StoredBy

-----------------------------------------------------------------------------
\* The initial state: nobody is signed in and the keychain is empty.
LEMMA StoreInitInv == StoreInit => StoreInv
<1> SUFFICES ASSUME StoreInit PROVE StoreInv
  OBVIOUS
<1>1. TypeOK
  <2>1. ops \in Seq(Ops) /\ loaded \in Seq(Reads)
    BY DEF StoreInit
  <2>2. saveEnabled \in BOOLEAN /\ early \in BOOLEAN /\ failed \in BOOLEAN
    BY DEF StoreInit
  <2> QED
    BY <2>1, <2>2, NoMessagesIsBlob DEF StoreInit, TypeOK
<1>2. MemoryIsLive
  BY DEF StoreInit, MemoryIsLive, Contents, NoMessages
<1> QED
  BY <1>1, <1>2
  DEF StoreInit, StoreInv, TimerIsLive, OpsAreOwn, SavesHaveBlob, ReadsAreOwn, KeychainIsOwn

\* A step that moves no stored message, and issues and completes no keychain
\* call, keeps what is in flight and on disk separated.
LEMMA InFlightKept ==
    ASSUME StoreInv,
           \A d : StoredBy(d) \subseteq StoredBy(d)',
           UNCHANGED <<ops, loaded, keychain>>
    PROVE  OpsAreOwn' /\ SavesHaveBlob' /\ ReadsAreOwn' /\ KeychainIsOwn'
<1>1. OpsAreOwn'
  BY DEF StoreInv, OpsAreOwn
<1>2. ReadsAreOwn'
  BY DEF StoreInv, ReadsAreOwn
<1>3. KeychainIsOwn'
  BY DEF StoreInv, KeychainIsOwn
<1> QED
  BY <1>1, <1>2, <1>3 DEF StoreInv, SavesHaveBlob

\* A write whose new memory holds only the live identity's messages.
LEMMA WriteKept ==
    ASSUME StoreInv, NEW mem \in Blobs, Write(mem),
           Contents(mem) \subseteq StoredBy(liveSelfDid)',
           \A d : StoredBy(d) \subseteq StoredBy(d)',
           work' \in [Msgs -> {"none", "started", "stored", "gone"}],
           under' \in [Msgs -> Dids \cup {NoDid}],
           removed' \in SUBSET Msgs
    PROVE  StoreInv'
<1>1. UNCHANGED <<ops, loaded, keychain, liveSelfDid, saveEnabled>> /\ memory' = mem
  BY DEF Write
<1>2. early' \in BOOLEAN /\ failed' \in BOOLEAN
  <2>1. early' \in BOOLEAN
    BY DEF Write
  <2>2. failed' \in BOOLEAN
    BY DEF Write, StoreInv, TypeOK
  <2> QED
    BY <2>1, <2>2
<1>3. saveTimer' \in Dids \cup {NoDid} /\ TimerIsLive'
  BY DEF Write, ScheduleSave, StoreInv, TypeOK, TimerIsLive
<1>4. TypeOK'
  BY <1>1, <1>2, <1>3 DEF StoreInv, TypeOK
<1>5. MemoryIsLive'
  BY <1>1 DEF MemoryIsLive
<1> QED
  BY <1>1, <1>3, <1>4, <1>5, InFlightKept DEF StoreInv

\* Every step of the store, of an activity and of the keychain keeps StoreInv.
LEMMA StoreStepInv == StoreInv /\ [StoreNext]_storeVars => StoreInv'
<1> SUFFICES ASSUME StoreInv, [StoreNext]_storeVars
             PROVE  StoreInv'
  OBVIOUS
<1>t. TypeOK
  BY DEF StoreInv
<1>u. ASSUME UNCHANGED <<work, under>>
      PROVE  \A d : StoredBy(d) \subseteq StoredBy(d)'
  BY <1>u DEF StoredBy
<1>1. ASSUME NEW did \in Dids \cup {NoDid, EmptyDid}, SetSelfDid(did)
      PROVE  StoreInv'
  <2>1. Normalised(did) \in Dids \cup {NoDid}
    BY DEF Normalised
  <2>2. ops' \in Seq(Ops) /\ OpsAreOwn' /\ SavesHaveBlob'
    <3>1. CASE Normalised(did) = NoDid
      BY <1>1, <1>u, <3>1 DEF SetSelfDid, StoreInv, TypeOK, OpsAreOwn, SavesHaveBlob
    <3>2. CASE Normalised(did) # NoDid
      <4> DEFINE op == [kind |-> "load", did |-> Normalised(did), blob |-> NoBlob]
      <4>1. op \in Ops
        BY <2>1, <3>2 DEF Ops
      <4>2. ops' = Append(ops, op)
        BY <1>1, <3>2 DEF SetSelfDid
      <4>3. \A i \in 1 .. Len(ops') : ops'[i] = op \/ (i \in 1 .. Len(ops) /\ ops'[i] = ops[i])
        BY <1>t, <4>1, <4>2 DEF TypeOK
      <4>4. op.blob = NoBlob /\ op.kind # "save"
        OBVIOUS
      <4>5. ops' \in Seq(Ops)
        BY <1>t, <4>1, <4>2 DEF TypeOK
      <4> HIDE DEF op
      <4> QED
        BY <1>1, <1>u, <4>3, <4>4, <4>5 DEF SetSelfDid, StoreInv, OpsAreOwn, SavesHaveBlob
    <3> QED
      BY <3>1, <3>2
  <2>3. saveEnabled' \in BOOLEAN /\ early' \in BOOLEAN /\ failed' \in BOOLEAN
    BY <1>1, <1>t DEF SetSelfDid, TypeOK
  <2>4. TypeOK'
    BY <1>1, <1>t, <2>1, <2>2, <2>3, NoMessagesIsBlob DEF SetSelfDid, TypeOK
  <2>5. MemoryIsLive' /\ TimerIsLive'
    BY <1>1 DEF SetSelfDid, MemoryIsLive, TimerIsLive, Contents, NoMessages
  <2>6. ReadsAreOwn' /\ KeychainIsOwn'
    BY <1>1, <1>u DEF SetSelfDid, StoreInv, ReadsAreOwn, KeychainIsOwn
  <2> QED
    BY <2>2, <2>4, <2>5, <2>6 DEF StoreInv
<1>2. CASE LoadContinues
  <2> DEFINE r == Head(loaded)
  <2>1. loaded # <<>> /\ loaded' = Tail(loaded) /\ UNCHANGED <<liveSelfDid, ops, keychain, work, under, removed, early, failed>>
    BY <1>2 DEF LoadContinues
  <2>2. 1 \in 1 .. Len(loaded) /\ r = loaded[1] /\ r \in Reads
    BY <1>t, <2>1 DEF TypeOK
  <2>3. \A i \in 1 .. Len(loaded') : i + 1 \in 1 .. Len(loaded) /\ loaded'[i] = loaded[i + 1]
    BY <1>t, <2>1 DEF TypeOK
  <2>4. loaded' \in Seq(Reads)
    BY <1>t, <2>1 DEF TypeOK
  <2>5. ReadsAreOwn'
    BY <1>u, <2>1, <2>3 DEF StoreInv, ReadsAreOwn
  <2>6. OpsAreOwn' /\ SavesHaveBlob' /\ KeychainIsOwn'
    BY <1>u, <2>1 DEF StoreInv, OpsAreOwn, SavesHaveBlob, KeychainIsOwn
  <2>7. r.blob # NoBlob => r.blob \in Blobs /\ Contents(r.blob) \subseteq StoredBy(r.did)
    BY <2>2 DEF StoreInv, ReadsAreOwn, Reads
  <2>8. memory' \in Blobs /\ MemoryIsLive'
    <3>1. CASE memory' = memory
      BY <1>t, <1>u, <2>1, <3>1 DEF StoreInv, MemoryIsLive, TypeOK
    <3>2. CASE r.did = liveSelfDid /\ r.blob # NoBlob /\ memory' = Hydrated(r.blob)
      <4>1. memory' \in Blobs
        BY <1>t, <2>7, <3>2, HydratedIsBlob DEF TypeOK
      <4>2. Contents(memory') \subseteq Contents(r.blob) \cup Contents(memory)
        BY <3>2, HydratedContents
      <4>3. Contents(memory') \subseteq StoredBy(liveSelfDid)
        BY <2>7, <3>2, <4>2 DEF StoreInv, MemoryIsLive
      <4> QED
        BY <1>u, <2>1, <4>1, <4>3 DEF MemoryIsLive
    <3> QED
      BY <1>2, <3>1, <3>2 DEF LoadContinues
  <2>9. saveTimer' \in Dids \cup {NoDid} /\ TimerIsLive'
    BY <1>2, <1>t, <2>1 DEF LoadContinues, ScheduleSave, StoreInv, TypeOK, TimerIsLive
  <2>10. saveEnabled' \in BOOLEAN
    BY <1>2, <1>t DEF LoadContinues, TypeOK
  <2>11. TypeOK'
    BY <1>t, <2>1, <2>4, <2>8, <2>9, <2>10 DEF TypeOK
  <2> QED
    BY <2>5, <2>6, <2>8, <2>9, <2>11 DEF StoreInv
<1>3. CASE SaveTimerFires
  <2> DEFINE op == [kind |-> "save", did |-> saveTimer, blob |-> memory]
  <2>1. ops' = Append(ops, op) /\ saveTimer' = NoDid /\ saveTimer # NoDid
        /\ UNCHANGED <<liveSelfDid, memory, saveEnabled, loaded, keychain, work, under, removed, early, failed>>
    BY <1>3 DEF SaveTimerFires
  <2>2. saveTimer = liveSelfDid /\ saveTimer \in Dids
    BY <1>t, <2>1 DEF StoreInv, TimerIsLive, TypeOK
  <2>3. op \in Ops
    BY <1>t, <2>2 DEF TypeOK, Ops
  <2>4. op.blob # NoBlob /\ Contents(op.blob) \subseteq StoredBy(op.did)
    BY <1>t, <2>2, NoBlobAssumption DEF StoreInv, MemoryIsLive, TypeOK
  <2>5. ops' \in Seq(Ops)
    BY <1>t, <2>1, <2>3 DEF TypeOK
  <2>6. \A i \in 1 .. Len(ops') : ops'[i] = op \/ (i \in 1 .. Len(ops) /\ ops'[i] = ops[i])
    BY <1>t, <2>1, <2>3 DEF TypeOK
  <2> HIDE DEF op
  <2>7. OpsAreOwn' /\ SavesHaveBlob'
    BY <1>u, <2>1, <2>4, <2>6 DEF StoreInv, OpsAreOwn, SavesHaveBlob
  <2>8. MemoryIsLive' /\ TimerIsLive' /\ ReadsAreOwn' /\ KeychainIsOwn'
    BY <1>u, <2>1 DEF StoreInv, MemoryIsLive, TimerIsLive, ReadsAreOwn, KeychainIsOwn
  <2>9. TypeOK'
    BY <1>t, <2>1, <2>5 DEF TypeOK
  <2> QED
    BY <2>7, <2>8, <2>9 DEF StoreInv
<1>4. ASSUME NEW m \in Msgs, StartWork(m)
      PROVE  StoreInv'
  <2>1. UNCHANGED <<liveSelfDid, memory, saveEnabled, saveTimer, ops, loaded, keychain, under, removed, early, failed>>
    BY <1>4 DEF StartWork
  <2>2. \A d : StoredBy(d) \subseteq StoredBy(d)'
    BY <1>4, <1>t DEF StartWork, TypeOK, StoredBy
  <2>3. TypeOK'
    BY <1>4, <1>t DEF StartWork, TypeOK
  <2>4. MemoryIsLive' /\ TimerIsLive'
    BY <2>1, <2>2 DEF StoreInv, MemoryIsLive, TimerIsLive
  <2> QED
    BY <2>1, <2>2, <2>3, <2>4, InFlightKept DEF StoreInv
<1>5. ASSUME NEW m \in Msgs, NEW p \in Peers, AppendMessage(m, p)
      PROVE  StoreInv'
  <2> DEFINE msgs == Messages(memory, p) \cup {m}
  <2>1. Stored(m) /\ Write(Set(memory, p, msgs)) /\ removed' = removed /\ liveSelfDid' = liveSelfDid
    BY <1>5 DEF AppendMessage, Write
  <2>2. Messages(memory, p) \subseteq Contents(memory) /\ Messages(memory, p) \in SUBSET Msgs
    BY <1>t, BlobShape DEF Messages, Contents, TypeOK
  <2>3. Set(memory, p, msgs) \in Blobs
    BY <1>t, <2>2, SetIsBlob DEF TypeOK
  <2>4. Contents(Set(memory, p, msgs)) \subseteq Contents(memory) \cup msgs
    BY SetContents
  <2>5. (\A d : StoredBy(d) \subseteq StoredBy(d)') /\ m \in StoredBy(liveSelfDid)'
    BY <1>t, <2>1, StoredKeeps
  <2>6. Contents(Set(memory, p, msgs)) \subseteq StoredBy(liveSelfDid)'
    BY <2>1, <2>2, <2>4, <2>5 DEF StoreInv, MemoryIsLive
  <2>7. /\ work' \in [Msgs -> {"none", "started", "stored", "gone"}]
        /\ under' \in [Msgs -> Dids \cup {NoDid}]
        /\ removed' \in SUBSET Msgs
    BY <1>t, <2>1 DEF Stored, TypeOK
  <2> QED
    BY <2>1, <2>3, <2>5, <2>6, <2>7, WriteKept
<1>6. ASSUME NEW old \in Msgs, NEW m \in Msgs, NEW p \in Peers, ReplaceMessage(old, m, p)
      PROVE  StoreInv'
  <2> DEFINE msgs == (memory[p] \ {old}) \cup {m}
  <2>1. Stored(m) /\ Write(Set(memory, p, msgs)) /\ removed' = removed \cup {old} /\ liveSelfDid' = liveSelfDid
    BY <1>6 DEF ReplaceMessage, Write
  <2>2. memory[p] \subseteq Contents(memory) /\ memory[p] \in SUBSET Msgs
    BY <1>6, <1>t, BlobShape DEF ReplaceMessage, Messages, Contents, TypeOK
  <2>3. Set(memory, p, msgs) \in Blobs
    BY <1>t, <2>2, SetIsBlob DEF TypeOK
  <2>4. Contents(Set(memory, p, msgs)) \subseteq Contents(memory) \cup msgs
    BY SetContents
  <2>5. (\A d : StoredBy(d) \subseteq StoredBy(d)') /\ m \in StoredBy(liveSelfDid)'
    BY <1>t, <2>1, StoredKeeps
  <2>6. Contents(Set(memory, p, msgs)) \subseteq StoredBy(liveSelfDid)'
    BY <2>1, <2>2, <2>4, <2>5 DEF StoreInv, MemoryIsLive
  <2>7. /\ work' \in [Msgs -> {"none", "started", "stored", "gone"}]
        /\ under' \in [Msgs -> Dids \cup {NoDid}]
        /\ removed' \in SUBSET Msgs
    BY <1>t, <2>1 DEF Stored, TypeOK
  <2> QED
    BY <2>1, <2>3, <2>5, <2>6, <2>7, WriteKept
<1>7. ASSUME NEW m \in Msgs, NEW p \in Peers, RemoveMessage(m, p)
      PROVE  StoreInv'
  <2> DEFINE msgs == memory[p] \ {m}
  <2>1. /\ Write(Set(memory, p, msgs)) /\ removed' = removed \cup {m}
        /\ UNCHANGED <<liveSelfDid, work, under>>
    BY <1>7 DEF RemoveMessage, Write
  <2>2. msgs \subseteq Contents(memory) /\ msgs \in SUBSET Msgs
    BY <1>7, <1>t, BlobShape DEF RemoveMessage, Messages, Contents, TypeOK
  <2>3. Set(memory, p, msgs) \in Blobs
    BY <1>t, <2>2, SetIsBlob DEF TypeOK
  <2>4. Contents(Set(memory, p, msgs)) \subseteq Contents(memory) \cup msgs
    BY SetContents
  <2>5. Contents(Set(memory, p, msgs)) \subseteq StoredBy(liveSelfDid)'
    BY <1>u, <2>1, <2>2, <2>4 DEF StoreInv, MemoryIsLive
  <2> QED
    BY <1>t, <1>u, <2>1, <2>3, <2>5, WriteKept DEF TypeOK
<1>8. ASSUME NEW p \in Peers, DeleteConversation(p)
      PROVE  StoreInv'
  <2> DEFINE rest == [q \in DOMAIN memory \ {p} |-> memory[q]]
  <2>1. /\ Write(rest) /\ removed' = removed \cup Messages(memory, p)
        /\ UNCHANGED <<liveSelfDid, work, under>>
    BY <1>8 DEF DeleteConversation, Write
  <2>2. rest \in Blobs
    BY <1>t, DeletedIsBlob DEF TypeOK
  <2>3. Contents(rest) \subseteq Contents(memory)
    BY DEF Contents
  <2>4. Contents(rest) \subseteq StoredBy(liveSelfDid)'
    BY <1>u, <2>1, <2>3 DEF StoreInv, MemoryIsLive
  <2>5. removed' \in SUBSET Msgs
    BY <1>8, <1>t, <2>1, BlobShape DEF DeleteConversation, Messages, TypeOK
  <2> HIDE DEF rest
  <2> QED
    BY <1>t, <1>u, <2>1, <2>2, <2>4, <2>5, WriteKept DEF TypeOK
<1>9. CASE TouchOther
  <2>1. UNCHANGED <<liveSelfDid, memory, saveEnabled, ops, loaded, keychain, work, under, removed, early, failed>>
    BY <1>9 DEF TouchOther
  <2>2. saveTimer' \in Dids \cup {NoDid} /\ TimerIsLive'
    BY <1>9, <1>t, <2>1 DEF TouchOther, ScheduleSave, StoreInv, TypeOK, TimerIsLive
  <2>3. TypeOK'
    BY <1>t, <2>1, <2>2 DEF TypeOK
  <2>4. MemoryIsLive'
    BY <1>u, <2>1 DEF StoreInv, MemoryIsLive
  <2> QED
    BY <1>u, <2>1, <2>2, <2>3, <2>4, InFlightKept DEF StoreInv
<1>10. CASE KeychainReads
  <2> DEFINE op == Head(ops)
  <2>1. /\ ops # <<>> /\ ops' = Tail(ops)
        /\ UNCHANGED <<liveSelfDid, memory, saveEnabled, saveTimer, keychain, work, under, removed, early>>
    BY <1>10 DEF KeychainReads
  <2>2. op \in Ops /\ op.did \in Dids
    <3>1. op \in Ops
      BY <1>t, <2>1 DEF TypeOK
    <3> QED
      BY <3>1 DEF Ops
  <2>3. PICK r \in {[did |-> op.did, blob |-> keychain[op.did]], [did |-> op.did, blob |-> NoBlob]} :
            loaded' = Append(loaded, r)
    BY <1>10 DEF KeychainReads
  <2>4. r \in Reads
    BY <1>t, <2>2 DEF TypeOK, Reads
  <2>5. r.blob # NoBlob => Contents(r.blob) \subseteq StoredBy(r.did)
    BY <2>2 DEF StoreInv, KeychainIsOwn
  <2>6. loaded' \in Seq(Reads)
    BY <1>t, <2>3, <2>4 DEF TypeOK
  <2>7. \A i \in 1 .. Len(loaded') : loaded'[i] = r \/ (i \in 1 .. Len(loaded) /\ loaded'[i] = loaded[i])
    BY <1>t, <2>3, <2>4 DEF TypeOK
  <2>8. ReadsAreOwn'
    BY <1>u, <2>1, <2>5, <2>7 DEF StoreInv, ReadsAreOwn
  <2>9. ops' \in Seq(Ops) /\ \A i \in 1 .. Len(ops') : i + 1 \in 1 .. Len(ops) /\ ops'[i] = ops[i + 1]
    BY <1>t, <2>1 DEF TypeOK
  <2>10. OpsAreOwn' /\ SavesHaveBlob'
    BY <1>u, <2>1, <2>9 DEF StoreInv, OpsAreOwn, SavesHaveBlob
  <2>11. MemoryIsLive' /\ TimerIsLive' /\ KeychainIsOwn'
    BY <1>u, <2>1 DEF StoreInv, MemoryIsLive, TimerIsLive, KeychainIsOwn
  <2>12. failed' \in BOOLEAN
    BY <1>10, <1>t DEF KeychainReads, TypeOK
  <2>13. TypeOK'
    BY <1>t, <2>1, <2>6, <2>9, <2>12 DEF TypeOK
  <2> QED
    BY <2>8, <2>10, <2>11, <2>13 DEF StoreInv
<1>11. CASE KeychainWrites
  <2> DEFINE op == Head(ops)
  <2>1. /\ ops # <<>> /\ ops' = Tail(ops) /\ op.kind = "save"
        /\ UNCHANGED <<liveSelfDid, memory, saveEnabled, saveTimer, loaded, work, under, removed, early>>
    BY <1>11 DEF KeychainWrites
  <2>2. 1 \in 1 .. Len(ops) /\ op = ops[1] /\ op \in Ops /\ op.did \in Dids
    <3>1. 1 \in 1 .. Len(ops) /\ op = ops[1] /\ op \in Ops
      BY <1>t, <2>1 DEF TypeOK
    <3> QED
      BY <3>1 DEF Ops
  <2>3. op.blob \in Blobs /\ Contents(op.blob) \subseteq StoredBy(op.did)
    BY <2>1, <2>2 DEF StoreInv, OpsAreOwn, SavesHaveBlob, Ops
  <2>4. keychain' = [keychain EXCEPT ![op.did] = op.blob] \/ keychain' = keychain
    BY <1>11 DEF KeychainWrites
  <2>5. keychain' \in [Dids -> Blobs \cup {NoBlob}]
    BY <1>t, <2>2, <2>3, <2>4 DEF TypeOK
  <2>6. \A d \in Dids : keychain'[d] = keychain[d] \/ (d = op.did /\ keychain'[d] = op.blob)
    BY <1>t, <2>2, <2>4 DEF TypeOK
  <2>7. KeychainIsOwn'
    BY <1>u, <2>1, <2>3, <2>6 DEF StoreInv, KeychainIsOwn
  <2>8. ops' \in Seq(Ops) /\ \A i \in 1 .. Len(ops') : i + 1 \in 1 .. Len(ops) /\ ops'[i] = ops[i + 1]
    BY <1>t, <2>1 DEF TypeOK
  <2>9. OpsAreOwn' /\ SavesHaveBlob'
    BY <1>u, <2>1, <2>8 DEF StoreInv, OpsAreOwn, SavesHaveBlob
  <2>10. MemoryIsLive' /\ TimerIsLive' /\ ReadsAreOwn'
    BY <1>u, <2>1 DEF StoreInv, MemoryIsLive, TimerIsLive, ReadsAreOwn
  <2>11. failed' \in BOOLEAN
    BY <1>11, <1>t DEF KeychainWrites, TypeOK
  <2>12. TypeOK'
    BY <1>t, <2>1, <2>5, <2>8, <2>11 DEF TypeOK
  <2> QED
    BY <2>7, <2>9, <2>10, <2>12 DEF StoreInv
<1>12. CASE Crash
  <2>1. /\ ops' = <<>> /\ loaded' = <<>> /\ memory' = NoMessages /\ saveTimer' = NoDid
        /\ liveSelfDid' = NoDid
        /\ UNCHANGED <<keychain, under, removed>>
    BY <1>12 DEF Crash
  <2>2. \A d : StoredBy(d) \subseteq StoredBy(d)'
    BY <1>12, <1>t DEF Crash, TypeOK, StoredBy
  <2>3. work' \in [Msgs -> {"none", "started", "stored", "gone"}]
    BY <1>12, <1>t DEF Crash, TypeOK
  <2>4. saveEnabled' \in BOOLEAN /\ early' \in BOOLEAN /\ failed' \in BOOLEAN
    BY <1>12 DEF Crash
  <2>5. ops' \in Seq(Ops) /\ loaded' \in Seq(Reads)
    BY <2>1
  <2>6. TypeOK'
    BY <1>t, <2>1, <2>3, <2>4, <2>5, NoMessagesIsBlob DEF TypeOK
  <2>7. MemoryIsLive' /\ TimerIsLive'
    BY <2>1 DEF MemoryIsLive, TimerIsLive, Contents, NoMessages
  <2>8. OpsAreOwn' /\ SavesHaveBlob' /\ ReadsAreOwn'
    BY <2>1 DEF OpsAreOwn, SavesHaveBlob, ReadsAreOwn
  <2>9. KeychainIsOwn'
    BY <2>1, <2>2 DEF StoreInv, KeychainIsOwn
  <2> QED
    BY <2>6, <2>7, <2>8, <2>9 DEF StoreInv
<1>13. CASE UNCHANGED storeVars
  <2>1. \A d : StoredBy(d) \subseteq StoredBy(d)'
    BY <1>13, <1>u DEF storeVars
  <2>2. TypeOK' /\ MemoryIsLive' /\ TimerIsLive'
    BY <1>13, <2>1 DEF storeVars, StoreInv, TypeOK, MemoryIsLive, TimerIsLive
  <2> QED
    BY <1>13, <2>1, <2>2, InFlightKept DEF storeVars, StoreInv
<1> QED
  BY <1>1, <1>2, <1>3, <1>4, <1>5, <1>6, <1>7, <1>8, <1>9, <1>10, <1>11, <1>12, <1>13
  DEF StoreNext

\* The inductive invariant holds in every reachable state of the store.
THEOREM StoreInvariant == StoreSpec => []StoreInv
  BY StoreInitInv, StoreStepInv, PTL DEF StoreSpec

\* Type correctness: setSelfDid never leaves a DID that is not an identity or
\* null, and what is in memory, in flight and on disk are conversation maps.
THEOREM StoreTypeCorrect == StoreSpec => []TypeOK
<1>1. StoreInv => TypeOK
  BY DEF StoreInv
<1> QED
  BY <1>1, StoreInvariant, PTL

\* Separation of identities: whatever the order of sign-ins, loads, debounced
\* saves, keychain failures and process deaths, an identity's keychain entry
\* holds only messages that were stored while that identity was live.
THEOREM IdentitiesAreSeparated == StoreSpec => []PersistedIsOwn
<1>1. StoreInv => PersistedIsOwn
  BY DEF StoreInv, KeychainIsOwn, PersistedIsOwn, StoredUnder, Contents, StoredBy
<1> QED
  BY <1>1, StoreInvariant, PTL

-----------------------------------------------------------------------------
(***************************************************************************)
(* Memory and the disk.  ChangesAreOnTheirWay speaks of states where no    *)
(* load is outstanding.  While the gate is closed memory is empty and the  *)
(* last load of the live identity will come back with what is, or by then  *)
(* will be, on disk (ClosedInv).  A stale load may open the gate with an   *)
(* older blob, but then a newer one is to come (OpenInv), and hydrating it *)
(* with the gate open arms the timer.                                      *)
(***************************************************************************)
SaveAt(i, d) == ops[i].kind = "save" /\ ops[i].did = d
LoadAt(i, d) == ops[i].kind = "load" /\ ops[i].did = d
OnDisk(d) == IF keychain[d] = NoBlob THEN NoMessages ELSE keychain[d]

\* OnItsWay = memory, place by place.
Covered ==
    \/ saveTimer = liveSelfDid
    \/ \E i \in 1 .. Len(ops) :
          /\ SaveAt(i, liveSelfDid) /\ ops[i].blob = memory
          /\ \A j \in 1 .. Len(ops) : SaveAt(j, liveSelfDid) => j <= i
    \/ memory = OnDisk(liveSelfDid) /\ \A i \in 1 .. Len(ops) : ~SaveAt(i, liveSelfDid)

\* An outstanding load of d comes back with a blob, unless it fails.
BlobToCome(d) ==
    \/ \E k \in 1 .. Len(loaded) : loaded[k].did = d /\ loaded[k].blob # NoBlob
    \/ \E i \in 1 .. Len(ops) :
          /\ LoadAt(i, d)
          /\ keychain[d] # NoBlob \/ \E j \in 1 .. Len(ops) : j < i /\ SaveAt(j, d)

\* The last load of the live identity is queued, or has been performed.
LoadIsQueued ==
    \E i \in 1 .. Len(ops) :
        /\ LoadAt(i, liveSelfDid)
        /\ \A j \in 1 .. Len(ops) : j > i => ops[j].did # liveSelfDid
LoadIsRead ==
    /\ \A i \in 1 .. Len(ops) : ops[i].did # liveSelfDid
    /\ \E k \in 1 .. Len(loaded) :
          /\ loaded[k].did = liveSelfDid /\ loaded[k].blob = keychain[liveSelfDid]
          /\ \A j \in 1 .. Len(loaded) : j > k => loaded[j].did # liveSelfDid

\* An entry that was read with a blob has one.
ReadsAreKnown ==
    \A k \in 1 .. Len(loaded) : loaded[k].blob # NoBlob => keychain[loaded[k].did] # NoBlob

Sound == liveSelfDid # NoDid /\ ~early /\ ~failed
OpenInv == Sound /\ saveEnabled => Covered \/ BlobToCome(liveSelfDid)
ClosedInv ==
    Sound /\ ~saveEnabled =>
        memory = NoMessages /\ saveTimer = NoDid /\ (LoadIsQueued \/ LoadIsRead)

WayInv == ReadsAreKnown /\ OpenInv /\ ClosedInv

\* What is covered is on its way: the last save is the CHOOSE of OnItsWay.
LEMMA CoveredIsOnItsWay ==
    ASSUME StoreInv, Covered
    PROVE  OnItsWay = memory
<1> DEFINE saves == {i \in DOMAIN ops : ops[i].kind = "save" /\ ops[i].did = liveSelfDid}
<1>0. DOMAIN ops = 1 .. Len(ops) /\ Len(ops) \in Nat
  BY DEF StoreInv, TypeOK
<1>1. CASE saveTimer = liveSelfDid
  BY <1>1 DEF OnItsWay
<1>2. ASSUME NEW i \in 1 .. Len(ops), SaveAt(i, liveSelfDid), ops[i].blob = memory,
             \A j \in 1 .. Len(ops) : SaveAt(j, liveSelfDid) => j <= i
      PROVE  OnItsWay = memory
  <2>1. i \in saves /\ \A j \in saves : j <= i
    BY <1>0, <1>2 DEF SaveAt
  <2>2. \A k \in saves : (\A j \in saves : j <= k) => k = i
    BY <1>0, <2>1
  <2>3. (CHOOSE k \in saves : \A j \in saves : j <= k) = i
    BY <2>1, <2>2
  <2> QED
    BY <1>2, <2>1, <2>3 DEF OnItsWay
<1>3. CASE memory = OnDisk(liveSelfDid) /\ \A i \in 1 .. Len(ops) : ~SaveAt(i, liveSelfDid)
  <2>1. saves = {}
    BY <1>0, <1>3 DEF SaveAt
  <2>2. saveTimer # liveSelfDid => OnItsWay = OnDisk(liveSelfDid)
    BY <2>1 DEF OnItsWay, OnDisk
  <2> QED
    BY <1>1, <1>3, <2>2
<1> QED
  BY <1>1, <1>2, <1>3 DEF Covered

\* Hydration of the empty store is the blob.
LEMMA HydratedFresh ==
    ASSUME NEW b \in Blobs, memory = NoMessages
    PROVE  Hydrated(b) = b
<1>1. DOMAIN memory = {}
  BY DEF NoMessages
<1>2. DOMAIN Hydrated(b) = DOMAIN b /\ \A p \in DOMAIN b : Hydrated(b)[p] = b[p]
  BY <1>1 DEF Hydrated
<1>3. Hydrated(b) = [p \in DOMAIN Hydrated(b) |-> Hydrated(b)[p]]
  BY DEF Hydrated
<1>4. b = [p \in DOMAIN b |-> b[p]]
  BY BlobShape
<1> QED
  BY <1>2, <1>3, <1>4

\* The keychain takes the oldest call: what is behind it moves up.
LEMMA MovedUp ==
    ASSUME NEW S, NEW s \in Seq(S), s # <<>>, NEW t, t = Tail(s)
    PROVE  /\ Len(s) \in Nat \ {0} /\ Len(t) = Len(s) - 1 /\ Len(t) \in Nat
           /\ 1 \in 1 .. Len(s) /\ s[1] = Head(s) /\ s[1] \in S
           /\ \A i \in 1 .. Len(t) : i + 1 \in 1 .. Len(s) /\ t[i] = s[i + 1] /\ i + 1 # 1
           /\ \A i \in 1 .. Len(s) : i # 1 => i - 1 \in 1 .. Len(t) /\ t[i - 1] = s[i]
<1>1. /\ Len(s) \in Nat \ {0} /\ Len(t) = Len(s) - 1 /\ s[1] = Head(s)
      /\ \A i \in 1 .. (Len(s) - 1) : t[i] = s[i + 1]
      /\ \A i \in 1 .. Len(s) : s[i] \in S
  OBVIOUS
<1>2. \A i \in 1 .. Len(s) : i # 1 => i - 1 \in 1 .. (Len(s) - 1) /\ (i - 1) + 1 = i
  BY <1>1
<1> QED
  BY <1>1, <1>2

\* A new call goes last.
LEMMA Queued ==
    ASSUME NEW S, NEW s \in Seq(S), NEW e \in S, NEW t, t = Append(s, e)
    PROVE  /\ Len(s) \in Nat /\ Len(t) = Len(s) + 1 /\ Len(s) + 1 \in 1 .. Len(t)
           /\ t[Len(s) + 1] = e
           /\ \A i \in 1 .. Len(s) : i \in 1 .. Len(t) /\ t[i] = s[i] /\ i < Len(s) + 1
           /\ \A i \in 1 .. Len(t) : i = Len(s) + 1 \/ i \in 1 .. Len(s)
<1>1. /\ Len(s) \in Nat /\ Len(t) = Len(s) + 1 /\ t[Len(s) + 1] = e
      /\ \A i \in 1 .. Len(s) : t[i] = s[i]
  OBVIOUS
<1> QED
  BY <1>1

\* A continuation that finds its identity live.
LEMMA HydrationIsCovered ==
    ASSUME StoreInv, StoreInv', WayInv, LoadContinues, Head(loaded).did = liveSelfDid
    PROVE  WayInv'
<1> DEFINE r == Head(loaded)
           d == liveSelfDid
<1>1. /\ loaded # <<>> /\ loaded' = Tail(loaded) /\ saveEnabled' = TRUE
      /\ UNCHANGED <<liveSelfDid, ops, keychain, early, failed>>
      /\ \/ r.blob = NoBlob /\ UNCHANGED <<memory, saveTimer>>
         \/ /\ r.blob # NoBlob /\ memory' = Hydrated(r.blob)
            /\ saveTimer' = IF saveEnabled /\ liveSelfDid # NoDid THEN liveSelfDid ELSE saveTimer
  BY DEF LoadContinues, ScheduleSave
<1>2. loaded \in Seq(Reads) /\ Len(ops) \in Nat
  BY DEF StoreInv, TypeOK
<1>3. /\ 1 \in 1 .. Len(loaded) /\ loaded[1] = r /\ r \in Reads
      /\ \A k \in 1 .. Len(loaded') : k + 1 \in 1 .. Len(loaded) /\ loaded'[k] = loaded[k + 1]
      /\ \A k \in 1 .. Len(loaded) : k # 1 => k - 1 \in 1 .. Len(loaded') /\ loaded'[k - 1] = loaded[k]
  BY <1>1, <1>2, MovedUp
<1>4. ReadsAreKnown'
  BY <1>1, <1>3 DEF WayInv, ReadsAreKnown
<1>5. ClosedInv'
  BY <1>1 DEF ClosedInv
<1>6. SUFFICES ASSUME Sound' PROVE Covered' \/ BlobToCome(liveSelfDid)'
  BY <1>4, <1>5 DEF WayInv, OpenInv
<1>7. Sound /\ liveSelfDid' = d /\ keychain' = keychain /\ ops' = ops
  BY <1>1, <1>6 DEF Sound
<1>8. r.blob # NoBlob => keychain[d] # NoBlob /\ r.blob \in Blobs
  BY <1>3 DEF WayInv, ReadsAreKnown, Reads
<1>9. CASE saveEnabled
  <2>1. CASE r.blob # NoBlob
    <3>1. saveTimer' = liveSelfDid'
      BY <1>1, <1>7, <1>9, <2>1 DEF Sound
    <3> QED
      BY <3>1 DEF Covered
  <2>2. CASE r.blob = NoBlob
    <3>1. UNCHANGED <<memory, saveTimer>>
      BY <1>1, <2>2
    <3>2. Covered => Covered'
      BY <1>1, <3>1 DEF Covered, SaveAt, OnDisk
    <3>3. BlobToCome(d) => BlobToCome(d)'
      BY <1>3, <1>7, <2>2, SMTT(30) DEF BlobToCome, LoadAt, SaveAt
    <3>4. BlobToCome(d)' => BlobToCome(liveSelfDid)'
      BY <1>7
    <3> QED
      BY <1>7, <1>9, <3>2, <3>3, <3>4 DEF WayInv, OpenInv
  <2> QED
    BY <2>1, <2>2
<1>10. CASE ~saveEnabled
  <2>1. memory = NoMessages /\ saveTimer = NoDid /\ (LoadIsQueued \/ LoadIsRead)
    BY <1>7, <1>10 DEF WayInv, ClosedInv
  <2>2. ASSUME \A i \in 1 .. Len(ops) : ~SaveAt(i, d), keychain[d] = NoBlob PROVE Covered'
    <3>1. memory' = OnDisk(d)
      BY <1>1, <1>8, <2>1, <2>2 DEF OnDisk
    <3> QED
      BY <1>7, <2>2, <3>1 DEF Covered, SaveAt, OnDisk
  <2>3. CASE LoadIsQueued
    <3>1. PICK i \in 1 .. Len(ops) : /\ LoadAt(i, d)
                                     /\ \A j \in 1 .. Len(ops) : j > i => ops[j].did # d
      BY <2>3 DEF LoadIsQueued
    <3>2. CASE keychain[d] # NoBlob \/ \E j \in 1 .. Len(ops) : j < i /\ SaveAt(j, d)
      BY <1>7, <3>1, <3>2 DEF BlobToCome, LoadAt, SaveAt
    <3>3. CASE keychain[d] = NoBlob /\ \A j \in 1 .. Len(ops) : j < i => ~SaveAt(j, d)
      <4>1. ~SaveAt(i, d)
        BY <3>1 DEF LoadAt, SaveAt
      <4>2. \A j \in 1 .. Len(ops) : j < i \/ j = i \/ j > i
        BY <1>2
      <4>3. \A j \in 1 .. Len(ops) : ~SaveAt(j, d)
        BY <3>1, <3>3, <4>1, <4>2 DEF SaveAt
      <4> QED
        BY <2>2, <3>3, <4>3
    <3> QED
      BY <3>2, <3>3
  <2>4. CASE LoadIsRead
    <3>1. \A i \in 1 .. Len(ops) : ~SaveAt(i, d)
      BY <2>4 DEF LoadIsRead, SaveAt
    <3>2. PICK k \in 1 .. Len(loaded) : loaded[k].did = d /\ loaded[k].blob = keychain[d]
      BY <2>4 DEF LoadIsRead
    <3>3. CASE keychain[d] = NoBlob
      BY <2>2, <3>1, <3>3
    <3>4. CASE k # 1 /\ keychain[d] # NoBlob
      BY <1>3, <1>7, <3>2, <3>4 DEF BlobToCome
    <3>5. CASE k = 1 /\ keychain[d] # NoBlob
      <4>1. r.blob = keychain[d] /\ r.blob # NoBlob
        BY <1>3, <3>2, <3>5
      <4>2. memory' = keychain[d]
        BY <1>1, <1>8, <2>1, <4>1, HydratedFresh
      <4> QED
        BY <1>7, <3>1, <3>5, <4>2 DEF Covered, SaveAt, OnDisk
    <3> QED
      BY <3>3, <3>4, <3>5
  <2> QED
    BY <2>1, <2>3, <2>4
<1> QED
  BY <1>9, <1>10 DEF StoreInv, TypeOK

\* A read or a write of the keychain that succeeds.
LEMMA KeychainKeepsPace ==
    ASSUME StoreInv, WayInv, KeychainReads \/ KeychainWrites
    PROVE  WayInv'
<1> DEFINE op == Head(ops)
           d == liveSelfDid
<1>1. /\ ops # <<>> /\ ops' = Tail(ops)
      /\ UNCHANGED <<liveSelfDid, memory, saveEnabled, saveTimer, early>>
  BY DEF KeychainReads, KeychainWrites
<1>2. ops \in Seq(Ops) /\ loaded \in Seq(Reads) /\ keychain \in [Dids -> Blobs \cup {NoBlob}]
  BY DEF StoreInv, TypeOK
<1>3. /\ 1 \in 1 .. Len(ops) /\ ops[1] = op /\ op \in Ops /\ Len(ops) \in Nat
      /\ \A i \in 1 .. Len(ops') : i + 1 \in 1 .. Len(ops) /\ ops'[i] = ops[i + 1]
      /\ \A i \in 1 .. Len(ops) : i # 1 => i - 1 \in 1 .. Len(ops') /\ ops'[i - 1] = ops[i]
  BY <1>1, <1>2, MovedUp
<1>4. op.did \in Dids
  BY <1>3 DEF Ops
<1>5. CASE KeychainReads
  <2>1. /\ op.kind = "load" /\ UNCHANGED keychain
        /\ \/ loaded' = Append(loaded, [did |-> op.did, blob |-> keychain[op.did]]) /\ UNCHANGED failed
           \/ loaded' = Append(loaded, [did |-> op.did, blob |-> NoBlob]) /\ failed'
    BY <1>5 DEF KeychainReads
  <2>2. PICK b \in {keychain[op.did], NoBlob} :
           /\ loaded' = Append(loaded, [did |-> op.did, blob |-> b])
           /\ failed' \/ (b = keychain[op.did] /\ UNCHANGED failed)
    BY <2>1
  <2> DEFINE e == [did |-> op.did, blob |-> b]
  <2>3. e \in Reads /\ e.did = op.did /\ e.blob = b
    BY <1>2, <1>4 DEF Reads
  <2> HIDE DEF e
  <2>4. /\ Len(loaded) \in Nat /\ Len(loaded) + 1 \in 1 .. Len(loaded') /\ loaded'[Len(loaded) + 1] = e
        /\ \A k \in 1 .. Len(loaded) : k \in 1 .. Len(loaded') /\ loaded'[k] = loaded[k] /\ k < Len(loaded) + 1
        /\ \A k \in 1 .. Len(loaded') : k = Len(loaded) + 1 \/ k \in 1 .. Len(loaded)
    BY <1>2, <2>2, <2>3, Queued DEF e
  <2>5. ReadsAreKnown'
    BY <2>1, <2>2, <2>3, <2>4 DEF WayInv, ReadsAreKnown
  <2>6. SUFFICES ASSUME Sound' PROVE OpenInv' /\ ClosedInv'
    BY <2>5 DEF WayInv, OpenInv, ClosedInv
  <2>7. Sound /\ b = keychain[op.did]
    BY <1>1, <2>2, <2>6 DEF Sound
  <2>8. OpenInv'
    <3> SUFFICES ASSUME saveEnabled PROVE Covered' \/ BlobToCome(liveSelfDid)'
      BY <1>1 DEF OpenInv
    <3>1. ~SaveAt(1, d)
      BY <1>3, <2>1 DEF SaveAt
    <3>2. CASE saveTimer = liveSelfDid
      BY <1>1, <3>2 DEF Covered
    <3>3. ASSUME NEW i \in 1 .. Len(ops), SaveAt(i, d), ops[i].blob = memory,
                 \A j \in 1 .. Len(ops) : SaveAt(j, d) => j <= i
          PROVE  Covered'
      <4>1. i # 1 /\ i - 1 \in 1 .. Len(ops') /\ ops'[i - 1] = ops[i]
        BY <1>3, <3>1, <3>3
      <4>2. \A j \in 1 .. Len(ops') : SaveAt(j, d)' => j + 1 <= i
        BY <1>1, <1>3, <3>3 DEF SaveAt
      <4>3. \A j \in 1 .. Len(ops') : SaveAt(j, d)' => j <= i - 1
        BY <1>3, <4>2
      <4> QED
        BY <1>1, <3>3, <4>1, <4>3 DEF Covered, SaveAt
    <3>4. CASE memory = OnDisk(d) /\ \A i \in 1 .. Len(ops) : ~SaveAt(i, d)
      BY <1>1, <1>3, <2>1, <3>4 DEF Covered, SaveAt, OnDisk
    <3>5. ASSUME NEW k \in 1 .. Len(loaded), loaded[k].did = d, loaded[k].blob # NoBlob
          PROVE  BlobToCome(liveSelfDid)'
      BY <1>1, <2>4, <3>5 DEF BlobToCome
    <3>6. ASSUME NEW i \in 1 .. Len(ops), LoadAt(i, d),
                 keychain[d] # NoBlob \/ \E j \in 1 .. Len(ops) : j < i /\ SaveAt(j, d)
          PROVE  BlobToCome(liveSelfDid)'
      <4>1. CASE i = 1
        <5>1. keychain[d] # NoBlob
          BY <1>3, <3>6, <4>1
        <5>2. e.did = d /\ e.blob # NoBlob
          BY <1>3, <2>3, <2>7, <3>6, <4>1, <5>1 DEF LoadAt
        <5> QED
          BY <1>1, <2>4, <5>2 DEF BlobToCome
      <4>2. CASE i # 1
        <5>1. i - 1 \in 1 .. Len(ops') /\ ops'[i - 1] = ops[i]
          BY <1>3, <4>2
        <5>2. CASE keychain[d] # NoBlob
          BY <1>1, <2>1, <3>6, <5>1, <5>2 DEF BlobToCome, LoadAt
        <5>3. ASSUME NEW j \in 1 .. Len(ops), j < i, SaveAt(j, d) PROVE BlobToCome(liveSelfDid)'
          <6>1. j - 1 \in 1 .. Len(ops') /\ ops'[j - 1] = ops[j]
            BY <1>3, <3>1, <5>3
          <6>2. j - 1 < i - 1
            BY <1>3, <5>3
          <6> QED
            BY <1>1, <3>6, <5>1, <5>3, <6>1, <6>2 DEF BlobToCome, LoadAt, SaveAt
        <5> QED
          BY <3>6, <5>2, <5>3
      <4> QED
        BY <4>1, <4>2
    <3> QED
      BY <2>7, <3>2, <3>3, <3>4, <3>5, <3>6 DEF WayInv, OpenInv, Covered, BlobToCome
  <2>9. ClosedInv'
    <3> SUFFICES ASSUME ~saveEnabled PROVE LoadIsQueued' \/ LoadIsRead'
      BY <1>1, <2>7 DEF WayInv, ClosedInv
    <3>1. LoadIsQueued \/ LoadIsRead
      BY <2>7 DEF WayInv, ClosedInv
    <3>2. CASE LoadIsQueued
      <4>1. PICK i \in 1 .. Len(ops) : /\ LoadAt(i, d)
                                       /\ \A j \in 1 .. Len(ops) : j > i => ops[j].did # d
        BY <3>2 DEF LoadIsQueued
      <4>2. CASE i = 1
        <5>1. \A j \in 1 .. Len(ops') : ops'[j].did # d
          <6>1. \A j \in 1 .. Len(ops') : j + 1 > 1
            OBVIOUS
          <6> QED
            BY <1>3, <4>1, <4>2, <6>1
        <5>2. e.did = d /\ e.blob = keychain[d]
          BY <1>3, <2>3, <2>7, <4>1, <4>2 DEF LoadAt
        <5>3. \A j \in 1 .. Len(loaded') : ~(j > Len(loaded) + 1)
          BY <2>4
        <5> QED
          BY <1>1, <2>1, <2>4, <5>1, <5>2, <5>3 DEF LoadIsRead
      <4>3. CASE i # 1
        <5>1. i - 1 \in 1 .. Len(ops') /\ ops'[i - 1] = ops[i]
          BY <1>3, <4>3
        <5>2. \A j \in 1 .. Len(ops') : j > i - 1 => j + 1 > i
          BY <1>3
        <5>3. \A j \in 1 .. Len(ops') : j > i - 1 => ops'[j].did # d
          BY <1>3, <4>1, <5>2
        <5> QED
          BY <1>1, <4>1, <5>1, <5>3 DEF LoadIsQueued, LoadAt
      <4> QED
        BY <4>2, <4>3
    <3>3. CASE LoadIsRead
      <4>1. PICK k \in 1 .. Len(loaded) : /\ loaded[k].did = d /\ loaded[k].blob = keychain[d]
                                          /\ \A j \in 1 .. Len(loaded) : j > k => loaded[j].did # d
        BY <3>3 DEF LoadIsRead
      <4>2. e.did # d /\ \A i \in 1 .. Len(ops') : ops'[i].did # d
        BY <1>3, <2>3, <3>3 DEF LoadIsRead
      <4>3. \A j \in 1 .. Len(loaded') : j > k => loaded'[j].did # d
        BY <2>4, <4>1, <4>2
      <4> QED
        BY <1>1, <2>1, <2>4, <4>1, <4>2, <4>3 DEF LoadIsRead
    <3> QED
      BY <3>1, <3>2, <3>3
  <2> QED
    BY <2>8, <2>9
<1>6. CASE KeychainWrites
  <2>1. /\ op.kind = "save" /\ UNCHANGED loaded
        /\ \/ keychain' = [keychain EXCEPT ![op.did] = op.blob] /\ UNCHANGED failed
           \/ failed' /\ UNCHANGED keychain
    BY <1>6 DEF KeychainWrites
  <2>2. op.blob # NoBlob
    BY <1>3, <2>1 DEF StoreInv, SavesHaveBlob
  <2>3. \A c \in Dids : keychain[c] # NoBlob => keychain'[c] # NoBlob
    BY <1>2, <1>4, <2>1, <2>2
  <2>4. ReadsAreKnown'
    <3>1. \A k \in 1 .. Len(loaded) : loaded[k].did \in Dids
      <4>1. \A k \in 1 .. Len(loaded) : loaded[k] \in Reads
        BY <1>2
      <4> QED
        BY <4>1 DEF Reads
    <3> QED
      BY <2>1, <2>3, <3>1 DEF WayInv, ReadsAreKnown
  <2>5. SUFFICES ASSUME Sound' PROVE OpenInv' /\ ClosedInv'
    BY <2>4 DEF WayInv, OpenInv, ClosedInv
  <2>6. Sound /\ keychain' = [keychain EXCEPT ![op.did] = op.blob] /\ d \in Dids
    BY <1>1, <2>1, <2>5 DEF Sound, StoreInv, TypeOK
  <2>7. keychain'[d] = IF d = op.did THEN op.blob ELSE keychain[d]
    BY <1>2, <1>4, <2>6
  <2>8. OpenInv'
    <3> SUFFICES ASSUME saveEnabled PROVE Covered' \/ BlobToCome(liveSelfDid)'
      BY <1>1 DEF OpenInv
    <3>1. ~LoadAt(1, d) /\ (SaveAt(1, d) <=> d = op.did)
      BY <1>3, <2>1 DEF LoadAt, SaveAt
    <3>2. CASE saveTimer = liveSelfDid
      BY <1>1, <3>2 DEF Covered
    <3>3. ASSUME NEW i \in 1 .. Len(ops), SaveAt(i, d), ops[i].blob = memory,
                 \A j \in 1 .. Len(ops) : SaveAt(j, d) => j <= i
          PROVE  Covered'
      <4>1. \A j \in 1 .. Len(ops') : SaveAt(j, d)' => j + 1 <= i
        BY <1>1, <1>3, <3>3 DEF SaveAt
      <4>2. CASE i # 1
        <5>1. i - 1 \in 1 .. Len(ops') /\ ops'[i - 1] = ops[i]
          BY <1>3, <4>2
        <5>2. \A j \in 1 .. Len(ops') : SaveAt(j, d)' => j <= i - 1
          BY <1>3, <4>1
        <5> QED
          BY <1>1, <3>3, <5>1, <5>2 DEF Covered, SaveAt
      <4>3. CASE i = 1
        <5>1. \A j \in 1 .. Len(ops') : ~(j + 1 <= 1)
          OBVIOUS
        <5>2. \A j \in 1 .. Len(ops') : ~SaveAt(j, d)'
          BY <4>1, <4>3, <5>1
        <5>3. keychain'[d] = memory /\ keychain'[d] # NoBlob
          BY <1>3, <2>2, <2>7, <3>1, <3>3, <4>3
        <5> QED
          BY <1>1, <5>2, <5>3 DEF Covered, SaveAt, OnDisk
      <4> QED
        BY <4>2, <4>3
    <3>4. CASE memory = OnDisk(d) /\ \A i \in 1 .. Len(ops) : ~SaveAt(i, d)
      <4>1. keychain'[d] = keychain[d]
        BY <1>3, <2>7, <3>1, <3>4
      <4>2. \A i \in 1 .. Len(ops') : ~SaveAt(i, d)'
        BY <1>1, <1>3, <3>4 DEF SaveAt
      <4> QED
        BY <1>1, <3>4, <4>1, <4>2 DEF Covered, SaveAt, OnDisk
    <3>5. ASSUME NEW k \in 1 .. Len(loaded), loaded[k].did = d, loaded[k].blob # NoBlob
          PROVE  BlobToCome(liveSelfDid)'
      BY <1>1, <2>1, <3>5 DEF BlobToCome
    <3>6. ASSUME NEW i \in 1 .. Len(ops), LoadAt(i, d),
                 keychain[d] # NoBlob \/ \E j \in 1 .. Len(ops) : j < i /\ SaveAt(j, d)
          PROVE  BlobToCome(liveSelfDid)'
      <4>1. i # 1 /\ i - 1 \in 1 .. Len(ops') /\ ops'[i - 1] = ops[i]
        BY <1>3, <3>1, <3>6
      <4>2. CASE keychain'[d] # NoBlob
        BY <1>1, <3>6, <4>1, <4>2 DEF BlobToCome, LoadAt
      <4>3. CASE keychain'[d] = NoBlob
        <5>1. keychain[d] = NoBlob /\ d # op.did
          BY <2>2, <2>3, <2>6, <2>7, <4>3
        <5>2. PICK j \in 1 .. Len(ops) : j < i /\ SaveAt(j, d)
          BY <3>6, <5>1
        <5>3. j - 1 \in 1 .. Len(ops') /\ ops'[j - 1] = ops[j]
          BY <1>3, <3>1, <5>1, <5>2
        <5>4. j - 1 < i - 1
          BY <1>3, <5>2
        <5> QED
          BY <1>1, <3>6, <4>1, <5>2, <5>3, <5>4 DEF BlobToCome, LoadAt, SaveAt
      <4> QED
        BY <4>2, <4>3
    <3> QED
      BY <2>6, <3>2, <3>3, <3>4, <3>5, <3>6 DEF WayInv, OpenInv, Covered, BlobToCome
  <2>9. ClosedInv'
    <3> SUFFICES ASSUME ~saveEnabled PROVE LoadIsQueued' \/ LoadIsRead'
      BY <1>1, <2>6 DEF WayInv, ClosedInv
    <3>1. LoadIsQueued \/ LoadIsRead
      BY <2>6 DEF WayInv, ClosedInv
    <3>2. CASE LoadIsQueued
      <4>1. PICK i \in 1 .. Len(ops) : /\ LoadAt(i, d)
                                       /\ \A j \in 1 .. Len(ops) : j > i => ops[j].did # d
        BY <3>2 DEF LoadIsQueued
      <4>2. i # 1
        BY <1>3, <2>1, <4>1 DEF LoadAt
      <4>3. i - 1 \in 1 .. Len(ops') /\ ops'[i - 1] = ops[i]
        BY <1>3, <4>2
      <4>4. \A j \in 1 .. Len(ops') : j > i - 1 => j + 1 > i
        BY <1>3
      <4>5. \A j \in 1 .. Len(ops') : j > i - 1 => ops'[j].did # d
        BY <1>3, <4>1, <4>4
      <4> QED
        BY <1>1, <4>1, <4>3, <4>5 DEF LoadIsQueued, LoadAt
    <3>3. CASE LoadIsRead
      <4>1. op.did # d /\ \A i \in 1 .. Len(ops') : ops'[i].did # d
        BY <1>3, <3>3 DEF LoadIsRead
      <4>2. keychain'[d] = keychain[d]
        BY <2>7, <4>1
      <4> QED
        BY <1>1, <2>1, <3>3, <4>1, <4>2 DEF LoadIsRead
    <3> QED
      BY <3>1, <3>2, <3>3
  <2> QED
    BY <2>8, <2>9
<1> QED
  BY <1>5, <1>6

\* A change while the gate is open is covered by the timer it arms; one while
\* it is closed is `early`.
LEMMA WriteIsCovered ==
    ASSUME StoreInv, WayInv, ScheduleSave,
           UNCHANGED <<liveSelfDid, saveEnabled, ops, loaded, keychain, failed>>,
           memory' = memory \/ early' = (early \/ ~saveEnabled),
           ~early' => ~early
    PROVE  WayInv'
<1>1. ReadsAreKnown'
  BY DEF WayInv, ReadsAreKnown
<1>2. OpenInv'
  <2> SUFFICES ASSUME Sound', saveEnabled PROVE Covered'
    BY DEF OpenInv
  <2>1. saveTimer' = liveSelfDid /\ liveSelfDid' = liveSelfDid
    BY DEF ScheduleSave, Sound
  <2> QED
    BY <2>1 DEF Covered
<1>3. ClosedInv'
  <2> SUFFICES ASSUME Sound', ~saveEnabled
               PROVE  memory' = NoMessages /\ saveTimer' = NoDid /\ (LoadIsQueued' \/ LoadIsRead')
    BY DEF ClosedInv
  <2>1. Sound /\ memory' = memory /\ saveTimer' = saveTimer
    BY DEF Sound, ScheduleSave
  <2>2. memory = NoMessages /\ saveTimer = NoDid /\ (LoadIsQueued \/ LoadIsRead)
    BY <2>1 DEF WayInv, ClosedInv
  <2>3. (LoadIsQueued => LoadIsQueued') /\ (LoadIsRead => LoadIsRead')
    BY DEF LoadIsQueued, LoadIsRead, LoadAt
  <2> QED
    BY <2>1, <2>2, <2>3
<1> QED
  BY <1>1, <1>2, <1>3 DEF WayInv

LEMMA WayStep == StoreInv /\ StoreInv' /\ WayInv /\ [StoreNext]_storeVars => WayInv'
<1> SUFFICES ASSUME StoreInv, StoreInv', WayInv, [StoreNext]_storeVars PROVE WayInv'
  OBVIOUS
<1>t. ops \in Seq(Ops) /\ loaded \in Seq(Reads) /\ Len(ops) \in Nat /\ saveEnabled \in BOOLEAN
  BY DEF StoreInv, TypeOK
<1>1. ASSUME NEW did \in Dids \cup {NoDid, EmptyDid}, SetSelfDid(did) PROVE WayInv'
  <2>1. /\ saveEnabled' = FALSE /\ memory' = NoMessages /\ saveTimer' = NoDid
        /\ liveSelfDid' = Normalised(did) /\ UNCHANGED <<loaded, keychain>>
    BY <1>1 DEF SetSelfDid
  <2>2. ReadsAreKnown' /\ OpenInv'
    BY <2>1 DEF WayInv, ReadsAreKnown, OpenInv
  <2>3. ASSUME liveSelfDid' # NoDid PROVE LoadIsQueued'
    <3> DEFINE op == [kind |-> "load", did |-> Normalised(did), blob |-> NoBlob]
    <3>1. ops' = Append(ops, op)
      BY <1>1, <2>1, <2>3 DEF SetSelfDid
    <3>2. op \in Ops /\ op.kind = "load" /\ op.did = liveSelfDid'
      <4>1. Normalised(did) \in Dids
        BY <2>1, <2>3 DEF StoreInv, TypeOK
      <4> QED
        BY <2>1, <4>1 DEF Ops
    <3> HIDE DEF op
    <3>3. /\ Len(ops) + 1 \in 1 .. Len(ops') /\ ops'[Len(ops) + 1] = op
          /\ \A i \in 1 .. Len(ops) : i < Len(ops) + 1
          /\ \A i \in 1 .. Len(ops') : i = Len(ops) + 1 \/ i \in 1 .. Len(ops)
      BY <1>t, <3>1, <3>2, Queued
    <3>4. \A j \in 1 .. Len(ops') : ~(j > Len(ops) + 1)
      BY <1>t, <3>3
    <3> QED
      BY <3>2, <3>3, <3>4 DEF LoadIsQueued, LoadAt
  <2> QED
    BY <2>1, <2>2, <2>3 DEF WayInv, ClosedInv, Sound
<1>2. CASE LoadContinues
  <2>1. CASE Head(loaded).did = liveSelfDid
    BY <1>2, <2>1, HydrationIsCovered
  <2>2. CASE Head(loaded).did # liveSelfDid
    <3>1. /\ loaded # <<>> /\ loaded' = Tail(loaded)
          /\ UNCHANGED <<liveSelfDid, memory, saveEnabled, saveTimer, ops, keychain, early, failed>>
      BY <1>2, <2>2 DEF LoadContinues
    <3>2. /\ loaded[1] = Head(loaded) /\ Len(loaded) \in Nat
          /\ \A k \in 1 .. Len(loaded') : k + 1 \in 1 .. Len(loaded) /\ loaded'[k] = loaded[k + 1]
          /\ \A k \in 1 .. Len(loaded) : k # 1 => k - 1 \in 1 .. Len(loaded') /\ loaded'[k - 1] = loaded[k]
      BY <1>t, <3>1, MovedUp
    <3>3. ReadsAreKnown'
      BY <3>1, <3>2 DEF WayInv, ReadsAreKnown
    <3>4. Sound' <=> Sound
      BY <3>1 DEF Sound
    <3>5. OpenInv'
      <4>1. Covered => Covered'
        BY <3>1 DEF Covered, SaveAt, OnDisk
      <4>2. BlobToCome(liveSelfDid) => BlobToCome(liveSelfDid)'
        <5>1. ASSUME NEW k \in 1 .. Len(loaded), loaded[k].did = liveSelfDid, loaded[k].blob # NoBlob
              PROVE  BlobToCome(liveSelfDid)'
          <6>1. k - 1 \in 1 .. Len(loaded') /\ loaded'[k - 1] = loaded[k]
            BY <2>2, <3>2, <5>1
          <6> QED
            BY <3>1, <5>1, <6>1 DEF BlobToCome
        <5>2. ASSUME NEW i \in 1 .. Len(ops), LoadAt(i, liveSelfDid),
                     \/ keychain[liveSelfDid] # NoBlob
                     \/ \E j \in 1 .. Len(ops) : j < i /\ SaveAt(j, liveSelfDid)
              PROVE  BlobToCome(liveSelfDid)'
          BY <3>1, <5>2 DEF BlobToCome, LoadAt, SaveAt
        <5> QED
          BY <5>1, <5>2 DEF BlobToCome
      <4> QED
        BY <3>1, <3>4, <4>1, <4>2 DEF WayInv, OpenInv
    <3>6. ClosedInv'
      <4>1. LoadIsQueued => LoadIsQueued'
        BY <3>1 DEF LoadIsQueued, LoadAt
      <4>2. ASSUME LoadIsRead PROVE LoadIsRead'
        <5>1. PICK k \in 1 .. Len(loaded) :
                 /\ loaded[k].did = liveSelfDid /\ loaded[k].blob = keychain[liveSelfDid]
                 /\ \A j \in 1 .. Len(loaded) : j > k => loaded[j].did # liveSelfDid
          BY <4>2 DEF LoadIsRead
        <5>2. k # 1 /\ k - 1 \in 1 .. Len(loaded') /\ loaded'[k - 1] = loaded[k]
          BY <2>2, <3>2, <5>1
        <5>3. \A j \in 1 .. Len(loaded') : j > k - 1 => j + 1 > k
          BY <3>2
        <5>4. \A j \in 1 .. Len(loaded') : j > k - 1 => loaded'[j].did # liveSelfDid
          BY <3>2, <5>1, <5>3
        <5> QED
          BY <3>1, <4>2, <5>1, <5>2, <5>4 DEF LoadIsRead
      <4> QED
        BY <3>1, <3>4, <4>1, <4>2 DEF WayInv, ClosedInv
    <3> QED
      BY <3>3, <3>5, <3>6 DEF WayInv
  <2> QED
    BY <2>1, <2>2
<1>3. CASE SaveTimerFires
  <2> DEFINE op == [kind |-> "save", did |-> saveTimer, blob |-> memory]
  <2>1. /\ saveTimer # NoDid /\ ops' = Append(ops, op)
        /\ UNCHANGED <<liveSelfDid, memory, saveEnabled, loaded, keychain, early, failed>>
    BY <1>3 DEF SaveTimerFires
  <2>2. saveTimer = liveSelfDid /\ saveTimer \in Dids
    BY <2>1 DEF StoreInv, TypeOK, TimerIsLive
  <2>3. op \in Ops /\ op.kind = "save" /\ op.did = liveSelfDid /\ op.blob = memory
    BY <2>2 DEF StoreInv, TypeOK, Ops
  <2> HIDE DEF op
  <2>4. /\ Len(ops) + 1 \in 1 .. Len(ops') /\ ops'[Len(ops) + 1] = op
        /\ \A i \in 1 .. Len(ops) : i < Len(ops) + 1
        /\ \A i \in 1 .. Len(ops') : i = Len(ops) + 1 \/ i \in 1 .. Len(ops)
    BY <1>t, <2>1, <2>3, Queued
  <2>5. \A j \in 1 .. Len(ops') : j <= Len(ops) + 1
    BY <1>t, <2>4
  <2>6. Covered'
    BY <2>1, <2>3, <2>4, <2>5 DEF Covered, SaveAt
  <2>7. ReadsAreKnown' /\ ClosedInv'
    <3>1. ReadsAreKnown'
      BY <2>1 DEF WayInv, ReadsAreKnown
    <3>2. ~(Sound /\ ~saveEnabled)
      BY <2>1 DEF WayInv, ClosedInv
    <3> QED
      BY <2>1, <3>1, <3>2 DEF ClosedInv, Sound
  <2> QED
    BY <2>6, <2>7 DEF WayInv, OpenInv
<1>4. ASSUME NEW mem, Write(mem) PROVE WayInv'
  <2>1. ~early' => ~early
    BY <1>4 DEF Write
  <2> QED
    BY <1>4, <2>1, WriteIsCovered DEF Write
<1>5. CASE TouchOther
  BY <1>5, WriteIsCovered DEF TouchOther
<1>6. CASE KeychainReads \/ KeychainWrites
  BY <1>6, KeychainKeepsPace
<1>7. CASE Crash
  <2>1. liveSelfDid' = NoDid /\ loaded' = <<>>
    BY <1>7 DEF Crash
  <2> QED
    BY <2>1 DEF WayInv, ReadsAreKnown, OpenInv, ClosedInv, Sound
<1>8. CASE UNCHANGED <<liveSelfDid, memory, saveEnabled, saveTimer, ops, loaded, keychain, early, failed>>
  BY <1>8 DEF WayInv, ReadsAreKnown, OpenInv, ClosedInv, Sound, Covered, BlobToCome, LoadIsQueued,
              LoadIsRead, LoadAt, SaveAt, OnDisk
<1>9. ASSUME NEW m \in Msgs, StartWork(m)
      PROVE  UNCHANGED <<liveSelfDid, memory, saveEnabled, saveTimer, ops, loaded, keychain, early, failed>>
  BY <1>9 DEF StartWork
<1>10. UNCHANGED storeVars
       => UNCHANGED <<liveSelfDid, memory, saveEnabled, saveTimer, ops, loaded, keychain, early, failed>>
  BY DEF storeVars
<1>11. ASSUME NEW m \in Msgs, NEW old \in Msgs, NEW p \in Peers,
              AppendMessage(m, p) \/ ReplaceMessage(old, m, p) \/ RemoveMessage(m, p) \/ DeleteConversation(p)
       PROVE  WayInv'
  BY <1>4, <1>11 DEF AppendMessage, ReplaceMessage, RemoveMessage, DeleteConversation
<1>12. ASSUME NEW p \in Peers, DeleteConversation(p) PROVE WayInv'
  BY <1>4, <1>12 DEF DeleteConversation
<1> QED
  BY <1>1, <1>2, <1>3, <1>5, <1>6, <1>7, <1>8, <1>9, <1>10, <1>11, <1>12 DEF StoreNext

\* Once the live identity is hydrated, with no load outstanding, every write,
\* removal, deletion and repeated hydration is covered by the save timer, the
\* last save queued or the entry on disk, as long as no keychain call failed
\* and nothing was written before hydration.
THEOREM ChangesReachTheDisk == StoreSpec => []ChangesAreOnTheirWay
<1>1. StoreInit => WayInv
  BY DEF StoreInit, WayInv, ReadsAreKnown, OpenInv, ClosedInv, Sound
<1>2. StoreInv /\ WayInv => ChangesAreOnTheirWay
  <2> SUFFICES ASSUME StoreInv, WayInv, FullyHydrated, ~early, ~failed PROVE OnItsWay = memory
    BY DEF ChangesAreOnTheirWay
  <2>1. DOMAIN ops = 1 .. Len(ops) /\ DOMAIN loaded = 1 .. Len(loaded)
    BY DEF StoreInv, TypeOK
  <2>2. ~BlobToCome(liveSelfDid)
    BY <2>1 DEF FullyHydrated, BlobToCome, LoadAt
  <2>3. Covered
    BY <2>2 DEF WayInv, OpenInv, Sound, FullyHydrated
  <2> QED
    BY <2>3, CoveredIsOnItsWay
<1> QED
  BY <1>1, <1>2, StoreInvariant, WayStep, PTL DEF StoreSpec
=============================================================================
