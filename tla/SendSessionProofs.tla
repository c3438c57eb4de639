-------------------------- MODULE SendSessionProofs --------------------------
(***************************************************************************)
(* Whatever sends, receipts, resends, re-handshakes, deletions, failures   *)
(* and process deaths do to one outbound session, for any number of them:  *)
(* handshakes do not fork, no session is used whose keys nobody tried to   *)
(* ship, and the rows tell the truth.                                      *)
(***************************************************************************)
EXTENDS SendSession, TLAPS

\* The handles that are held exist, and a restore has a blob to read.
HandleInv ==
    /\ sendSession # None => sendSession \in 1..Len(native)
    /\ \A t \in Tasks :
          /\ task[t].pc \in {"shipping", "saving", "sealing", "posting", "recording"}
                => task[t].h \in 1..Len(native)
          /\ task[t].pc \in {"restoring", "completing"} => task[t].blob # None

-----------------------------------------------------------------------------
\* A task that returned, and one that has its session.
LEMMA ReadyTypes ==
    ASSUME TypeOK, NEW t \in Tasks, NEW h \in Handles \cup {None}
    PROVE  /\ Idle \in Calls
           /\ Ready(t, h) \in Calls
           /\ Ready(t, h).pc \in {"idle", "sealing"}
           /\ Ready(t, h).pc = "sealing" => Ready(t, h).h = h
<1>1. task[t] \in Calls
  BY DEF TypeOK
<1>2. Idle \in Calls
  BY DEF Idle, Calls, Busy, Blobs, Rows
<1>3. [task[t] EXCEPT !.pc = "sealing", !.h = h, !.blob = None] \in Calls
  BY <1>1 DEF Calls, Busy, Blobs
<1> QED
  BY <1>1, <1>2, <1>3 DEF Ready, Idle, Calls

\* getOrInitSendSession moves its caller only: on with a cached session, or
\* into the handshake in flight, or into a handshake nobody else is in.
LEMMA GetOrInitOutcome ==
    ASSUME TypeOK, NEW t \in Tasks, NEW s \in Handles \cup {None}, NEW b \in Blobs,
           GetOrInit(t, s, b)
    PROVE  /\ task' \in [Tasks -> Calls]
           /\ \A u \in Tasks \ {t} : task'[u] = task[u]
           /\ task'[t].blob \in {None, b, task[t].blob}
           /\ \/ /\ inFlight' = inFlight /\ s # None
                 /\ task'[t].pc \in {"idle", "sealing"}
                 /\ task'[t].pc = "sealing" => task'[t].h = s
              \/ /\ inFlight' = inFlight /\ s = None
                 /\ task'[t].pc = "joined"
              \/ /\ inFlight = None /\ inFlight' = t
                 /\ task'[t].pc \in {"fetching", "restoring"}
                 /\ task'[t].pc = "restoring" => task'[t].blob = b /\ b # None
<1>1. task \in [Tasks -> Calls] /\ task[t] \in Calls
  BY DEF TypeOK
<1>2. CASE s # None
  <2>1. task' = [task EXCEPT ![t] = Ready(t, s)] /\ inFlight' = inFlight
    BY <1>2 DEF GetOrInit
  <2>2. Ready(t, s).blob = None
    BY <1>1 DEF Ready, Idle, Calls
  <2> QED
    BY <1>1, <1>2, <2>1, <2>2, ReadyTypes
<1>3. CASE s = None /\ inFlight # None
  <2>1. task' = [task EXCEPT ![t].pc = "joined"] /\ inFlight' = inFlight
    BY <1>3 DEF GetOrInit
  <2>2. [task[t] EXCEPT !.pc = "joined"] \in Calls
    BY <1>1 DEF Calls, Busy
  <2> QED
    BY <1>1, <1>3, <2>1, <2>2 DEF Calls
<1>4. CASE s = None /\ inFlight = None
  <2> DEFINE pc == IF b = None THEN "fetching" ELSE "restoring"
  <2>1. task' = [task EXCEPT ![t].pc = pc, ![t].blob = b] /\ inFlight' = t
    BY <1>4 DEF GetOrInit
  <2>2. [task[t] EXCEPT !.pc = pc, !.blob = b] \in Calls
    BY <1>1 DEF Calls, Busy, Waiting
  <2>3. task' = [task EXCEPT ![t] = [task[t] EXCEPT !.pc = pc, !.blob = b]]
    BY <1>1, <2>1
  <2>4. task'[t] = [task[t] EXCEPT !.pc = pc, !.blob = b]
    BY <1>1, <2>3
  <2>5. task'[t].pc = pc /\ task'[t].blob = b
    BY <1>1, <2>4 DEF Calls
  <2> QED
    BY <1>1, <1>4, <2>1, <2>2, <2>3, <2>5
<1> QED
  BY <1>2, <1>3, <1>4

\* A handshake that ends well moves those who share it, on with its session.
LEMMA ResolveOutcome ==
    ASSUME TypeOK, NEW t \in Tasks, NEW h \in Handles, Resolve(t, h)
    PROVE  /\ inFlight' = None
           /\ task' \in [Tasks -> Calls]
           /\ \A u \in Tasks : u # t /\ task[u].pc # "joined" => task'[u] = task[u]
           /\ \A u \in Tasks : task'[u] = task[u]
                               \/ /\ task'[u].pc \in {"idle", "sealing"}
                                  /\ task'[u].pc = "sealing" => task'[u].h = h
                                  /\ task'[u].blob = None
           /\ task'[t].pc \in {"idle", "sealing"}
<1>1. task \in [Tasks -> Calls]
  BY DEF TypeOK
<1>2. task' = [u \in Tasks |-> IF u \in Sharers(t) THEN Ready(u, h) ELSE task[u]]
  BY DEF Resolve
<1>3. \A u \in Tasks : Ready(u, h).blob = None
  BY <1>1 DEF Ready, Idle, Calls
<1>4. \A u \in Tasks : u \in Sharers(t) <=> u = t \/ task[u].pc = "joined"
  BY DEF Sharers
<1>5. \A u \in Tasks : task'[u] \in Calls
  BY <1>1, <1>2, ReadyTypes
<1> QED
  BY <1>1, <1>2, <1>3, <1>4, <1>5, ReadyTypes DEF Resolve

\* One that throws ends them, and marks the rows of the resends among them.
LEMMA RejectOutcome ==
    ASSUME TypeOK, NEW t \in Tasks, Reject(t)
    PROVE  /\ inFlight' = None
           /\ task' \in [Tasks -> Calls]
           /\ row' \in [Msgs -> Rows]
           /\ task'[t] = Idle
           /\ \A u \in Tasks : task'[u] = IF u = t \/ task[u].pc = "joined" THEN Idle ELSE task[u]
           /\ \A m \in Msgs : \/ row'[m] = row[m]
                              \/ row'[m] = "failed" /\ (m = t \/ task[m].pc = "joined")
<1>1. task \in [Tasks -> Calls] /\ row \in [Msgs -> Rows]
  BY DEF TypeOK
<1>2. \A u \in Tasks : u \in Sharers(t) <=> u = t \/ task[u].pc = "joined"
  BY DEF Sharers
<1>3. Idle \in Calls
  BY ReadyTypes
<1>4. \A m \in Msgs : FailedRow(m) \in {row[m], "failed"}
  BY DEF FailedRow
<1>5. row' \in [Msgs -> Rows]
  BY <1>1, <1>4 DEF Reject, Rows
<1>6. \A m \in Msgs : m \in Tasks
  BY DEF Tasks
<1> QED
  BY <1>1, <1>2, <1>3, <1>4, <1>5, <1>6 DEF Reject

-----------------------------------------------------------------------------
\* The session appended last has the handle that is the new length.
LEMMA NewSessionOutcome ==
    ASSUME TypeOK, NEW s \in Sessions, NewSession(s)
    PROVE  /\ native' \in Seq(Sessions) /\ Len(native') <= MaxHandles
           /\ Len(native') = Len(native) + 1
           /\ Len(native') \in Handles /\ Len(native') \in 1..Len(native')
           /\ 1..Len(native) \subseteq 1..Len(native')
           /\ \A h \in 1..Len(native) : native'[h] = native[h]
           /\ native'[Len(native')] = s
<1>1. native \in Seq(Sessions) /\ Len(native) \in Nat /\ MaxHandles \in Nat
  BY SendAssumption DEF TypeOK
<1>2. native' = Append(native, s) /\ Len(native) < MaxHandles
  BY DEF NewSession
<1> QED
  BY <1>1, <1>2 DEF Handles

\* A call keeps what it does not assign.
LEMMA HandlesBounded ==
    ASSUME TypeOK, HandleInv
    PROVE  /\ Len(native) \in Nat
           /\ \A h \in 1..Len(native) : h \in Handles /\ native[h] \in Sessions
           /\ sendSession \in Handles \cup {None}
           /\ \A t \in Tasks : task[t] \in Calls
BY SendAssumption DEF TypeOK, HandleInv, Handles

\* Every step keeps the types, and the handles that are held exist.
LEMMA TypeStep ==
    ASSUME TypeOK, HandleInv, [Next]_vars
    PROVE  TypeOK' /\ HandleInv'
<1> USE DEF storeVars, historyVars
<1> DEFINE Holding == {"shipping", "saving", "sealing", "posting", "recording"}
<1>t. task \in [Tasks -> Calls] /\ Msgs \subseteq Tasks
  BY DEF TypeOK, Tasks
<1>1. ASSUME NEW t \in Msgs \cup Acks, Send(t) PROVE TypeOK' /\ HandleInv'
  <2>1. GetOrInit(t, sendSession, blob) /\ t \in Tasks
    BY <1>1 DEF Send, Tasks
  <2>2. sendSession \in Handles \cup {None} /\ blob \in Blobs
    BY DEF TypeOK
  <2>3. TypeOK'
    BY <1>1, <2>1, <2>2, GetOrInitOutcome DEF Send, TypeOK
  <2>4. HandleInv'
    BY <1>1, <2>1, <2>2, GetOrInitOutcome, SMTT(30) DEF Send, HandleInv
  <2> QED
    BY <2>3, <2>4
<1>2. ASSUME NEW m \in Msgs, Resend(m) PROVE TypeOK' /\ HandleInv'
  <2>1. GetOrInit(m, sendSession, blob) /\ m \in Tasks
    BY <1>2 DEF Resend, Tasks
  <2>2. sendSession \in Handles \cup {None} /\ blob \in Blobs
    BY DEF TypeOK
  <2>3. row' \in [Msgs -> Rows]
    BY <1>2 DEF Resend, TypeOK, Rows
  <2>4. TypeOK'
    BY <1>2, <2>1, <2>2, <2>3, GetOrInitOutcome DEF Resend, TypeOK
  <2>5. HandleInv'
    BY <1>2, <2>1, <2>2, GetOrInitOutcome DEF Resend, HandleInv
  <2> QED
    BY <2>4, <2>5
<1>3. ASSUME NEW t \in Shakes, Rehandshake(t) PROVE TypeOK' /\ HandleInv'
  <2>1. GetOrInit(t, None, None) /\ t \in Tasks /\ None \in Blobs
    BY <1>3 DEF Rehandshake, Tasks, Blobs
  <2>2. TypeOK'
    BY <1>3, <2>1, GetOrInitOutcome DEF Rehandshake, TypeOK
  <2>3. HandleInv'
    BY <1>3, <2>1, GetOrInitOutcome DEF Rehandshake, HandleInv
  <2> QED
    BY <2>2, <2>3
<1>4. ASSUME NEW t \in Shakes, CompleteHandshake(t) PROVE TypeOK' /\ HandleInv'
  <2>1. t \in Tasks /\ None \in Blobs
    BY DEF Tasks, Blobs
  <2>2. CASE blob = None
    <3>1. GetOrInit(t, None, None)
      BY <1>4, <2>2 DEF CompleteHandshake
    <3> QED
      BY <1>4, <2>1, <3>1, GetOrInitOutcome DEF CompleteHandshake, TypeOK, HandleInv
  <2>3. CASE blob # None
    <3> DEFINE c == [task[t] EXCEPT !.pc = "completing", !.blob = blob]
    <3>1. task' = [task EXCEPT ![t] = c] /\ inFlight' = inFlight
      BY <1>4, <2>3, <1>t, <2>1 DEF CompleteHandshake
    <3>2. c \in Calls /\ c.pc = "completing" /\ c.blob # None
      BY <1>t, <2>1, <2>3 DEF Calls, Busy, TypeOK
    <3> HIDE DEF c
    <3>3. TypeOK'
      BY <1>4, <2>1, <3>1, <3>2 DEF CompleteHandshake, TypeOK
    <3>4. HandleInv'
      BY <1>4, <1>t, <2>1, <3>1, <3>2 DEF CompleteHandshake, HandleInv
    <3> QED
      BY <3>3, <3>4
  <2> QED
    BY <2>2, <2>3
<1>5. CASE DeleteConversation
  BY <1>5 DEF DeleteConversation, TypeOK, HandleInv, Blobs, Rows
<1>6. CASE Flush
  BY <1>6 DEF Flush, TypeOK, HandleInv
<1>7. CASE Crash
  <2>1. Idle \in Calls /\ Idle.pc = "idle"
    BY DEF Idle, Calls, Busy, Blobs, Rows
  <2>2. task' \in [Tasks -> Calls]
    BY <1>7, <1>t, <2>1 DEF Crash
  <2>3. lost' \subseteq Handles
    BY <1>7, HandlesBounded DEF Crash, TypeOK, HandleInv
  <2>4. TypeOK'
    BY <1>7, <2>2, <2>3 DEF Crash, TypeOK
  <2>5. HandleInv'
    BY <1>7, <2>1 DEF Crash, HandleInv
  <2> QED
    BY <2>4, <2>5
<1>8. ASSUME NEW t \in Tasks, Progress(t) PROVE TypeOK' /\ HandleInv'
  <2>1. CASE Restored(t)
    <3>1. task[t].blob \in Sessions /\ NewSession(task[t].blob)
      BY <2>1, HandlesBounded DEF Restored, HandleInv, Calls, Blobs
    <3> DEFINE h == Len(native')
    <3>2. h \in Handles /\ h \in 1..Len(native') /\ 1..Len(native) \subseteq 1..Len(native')
      BY <3>1, NewSessionOutcome
    <3>3. native' \in Seq(Sessions) /\ Len(native') <= MaxHandles
      BY <3>1, NewSessionOutcome
    <3>4. sendSession' = h
      BY <2>1 DEF Restored
    <3>5. CASE task[t].pc = "restoring"
      <4>1. Resolve(t, h)
        BY <2>1, <3>5 DEF Restored
      <4> HIDE DEF h
      <4>2. TypeOK'
        BY <2>1, <3>2, <3>3, <3>4, <4>1, ResolveOutcome DEF Restored, TypeOK
      <4>3. HandleInv'
        BY <3>2, <3>4, <4>1, ResolveOutcome DEF HandleInv, h
      <4> QED
        BY <4>2, <4>3
    <3>6. CASE task[t].pc = "completing"
      <4>1. task' = [task EXCEPT ![t] = Ready(t, h)] /\ inFlight' = inFlight
        BY <2>1, <3>6 DEF Restored
      <4> HIDE DEF h
      <4>2. TypeOK'
        BY <2>1, <3>2, <3>3, <3>4, <4>1, ReadyTypes DEF Restored, TypeOK
      <4>3. HandleInv'
        BY <1>t, <3>2, <3>4, <4>1, ReadyTypes DEF HandleInv, h
      <4> QED
        BY <4>2, <4>3
    <3> QED
      BY <2>1, <3>5, <3>6 DEF Restored
  <2>2. CASE RestoreFails(t)
    <3>1. CASE task[t].pc = "restoring"
      <4> DEFINE c == [task[t] EXCEPT !.pc = "fetching"]
      <4>1. task' = [task EXCEPT ![t] = c] /\ inFlight' = inFlight
        BY <2>2, <3>1, <1>t DEF RestoreFails
      <4>2. c \in Calls /\ c.pc = "fetching"
        BY <1>t DEF Calls, Busy, Waiting
      <4> HIDE DEF c
      <4> QED
        BY <2>2, <1>t, <4>1, <4>2 DEF RestoreFails, TypeOK, HandleInv
    <3>2. CASE task[t].pc = "completing"
      <4>1. GetOrInit(t, sendSession, blob)
        BY <2>2, <3>2 DEF RestoreFails
      <4>2. sendSession \in Handles \cup {None} /\ blob \in Blobs
        BY DEF TypeOK
      <4>3. TypeOK'
        BY <2>2, <4>1, <4>2, GetOrInitOutcome DEF RestoreFails, TypeOK
      <4>4. UNCHANGED <<sendSession, native>>
        BY <2>2 DEF RestoreFails
      <4>5. HandleInv'
        BY <4>1, <4>2, <4>4, GetOrInitOutcome, SMTT(30) DEF HandleInv
      <4> QED
        BY <4>3, <4>5
    <3> QED
      BY <2>2, <3>1, <3>2 DEF RestoreFails
  <2>3. CASE Initiated(t)
    <3> DEFINE s == [gen |-> Len(native) + 1, ctr |-> 0]
               h == Len(native')
    <3>1. s \in Sessions
      BY <2>3, SendAssumption DEF Initiated, NewSession, Sessions, Handles, TypeOK
    <3>2. NewSession(s) /\ sendSession' = h
      BY <2>3 DEF Initiated
    <3> HIDE DEF s
    <3>3. h \in Handles /\ h \in 1..Len(native') /\ 1..Len(native) \subseteq 1..Len(native')
      BY <3>1, <3>2, NewSessionOutcome
    <3>4. native' \in Seq(Sessions) /\ Len(native') <= MaxHandles
      BY <3>1, <3>2, NewSessionOutcome
    <3> DEFINE c == [task[t] EXCEPT !.pc = "shipping", !.h = h]
    <3>5. task' = [task EXCEPT ![t] = c] /\ inFlight' = inFlight
      BY <2>3, <1>t DEF Initiated
    <3>6. c \in Calls /\ c.pc = "shipping" /\ c.h = h
      BY <1>t, <3>3 DEF Calls, Busy, Waiting
    <3> HIDE DEF c, h
    <3>7. TypeOK'
      BY <2>3, <3>2, <3>3, <3>4, <3>5, <3>6 DEF Initiated, TypeOK
    <3>8. HandleInv'
      BY <1>t, <3>2, <3>3, <3>5, <3>6 DEF HandleInv
    <3> QED
      BY <3>7, <3>8
  <2>4. CASE InitiateFails(t)
    <3>1. Reject(t)
      BY <2>4 DEF InitiateFails
    <3>2. TypeOK'
      BY <2>4, <3>1, RejectOutcome DEF InitiateFails, TypeOK
    <3>3. HandleInv'
      BY <2>4, <3>1, RejectOutcome DEF InitiateFails, HandleInv, Idle
    <3> QED
      BY <3>2, <3>3
  <2>5. CASE KeyExchangeShipped(t)
    <3> DEFINE c == [task[t] EXCEPT !.pc = "saving"]
    <3>1. task' = [task EXCEPT ![t] = c]
      BY <2>5, <1>t DEF KeyExchangeShipped
    <3>2. c \in Calls /\ c.pc = "saving" /\ c.h = task[t].h
      BY <1>t DEF Calls, Busy, Waiting
    <3>3. task[t].h \in 1..Len(native) /\ task[t].h \in Handles
      BY <2>5, HandlesBounded DEF KeyExchangeShipped, HandleInv
    <3> HIDE DEF c
    <3>4. TypeOK'
      BY <2>5, <3>1, <3>2, <3>3 DEF KeyExchangeShipped, TypeOK
    <3>5. HandleInv'
      BY <2>5, <1>t, <3>1, <3>2, <3>3 DEF KeyExchangeShipped, HandleInv
    <3> QED
      BY <3>4, <3>5
  <2>6. CASE KeyExchangeFails(t)
    <3>1. task[t].h \in Handles
      BY <2>6, HandlesBounded DEF KeyExchangeFails, HandleInv
    <3> QED
      BY <2>6, <3>1, RejectOutcome DEF KeyExchangeFails, TypeOK, HandleInv, Idle
  <2>7. CASE InitSaved(t)
    <3>1. task[t].h \in 1..Len(native)
      BY <2>7 DEF InitSaved, HandleInv
    <3>2. task[t].h \in Handles /\ native[task[t].h] \in Blobs
      BY <3>1, HandlesBounded DEF Blobs
    <3>3. Resolve(t, task[t].h)
      BY <2>7 DEF InitSaved
    <3>4. TypeOK'
      BY <2>7, <3>2, <3>3, ResolveOutcome DEF InitSaved, TypeOK
    <3>5. HandleInv'
      BY <2>7, <3>1, <3>2, <3>3, ResolveOutcome DEF InitSaved, HandleInv
    <3> QED
      BY <3>4, <3>5
  <2>8. CASE Seal(t)
    <3> DEFINE c == [task[t] EXCEPT !.pc = "posting"]
               g == task[t].h
    <3>1. task' = [task EXCEPT ![t] = c]
      BY <2>8, <1>t DEF Seal
    <3>2. c \in Calls /\ c.pc = "posting" /\ c.h = g
      BY <1>t DEF Calls, Busy
    <3>3. g \in 1..Len(native) /\ native[g] \in Sessions
      BY <2>8, HandlesBounded DEF Seal, HandleInv
    <3>4. [native[g] EXCEPT !.ctr = @ + 1] \in Sessions
      BY <2>8, <3>3, SendAssumption DEF Seal, Sessions
    <3>5. native' = [native EXCEPT ![g] = [native[g] EXCEPT !.ctr = @ + 1]]
      BY <2>8, <3>3 DEF Seal, TypeOK
    <3>6. native' \in Seq(Sessions) /\ Len(native') = Len(native)
      BY <3>3, <3>4, <3>5 DEF TypeOK
    <3> HIDE DEF c, g
    <3>7. TypeOK'
      BY <2>8, <3>1, <3>2, <3>6 DEF Seal, TypeOK
    <3>8. HandleInv'
      BY <2>8, <1>t, <3>1, <3>2, <3>3, <3>6 DEF Seal, HandleInv
    <3> QED
      BY <3>7, <3>8
  <2>9. CASE SealFails(t) \/ PostOk(t) \/ PostFails(t) \/ Record(t)
    <3>1. Idle \in Calls /\ Idle.pc = "idle"
      BY DEF Idle, Calls, Busy, Blobs, Rows
    <3>2. \A st \in {"sent", "failed"} :
             LET c == [task[t] EXCEPT !.pc = "recording", !.st = st]
             IN  c \in Calls /\ c.pc = "recording" /\ c.h = task[t].h
      BY <1>t DEF Calls, Busy, Rows
    <3>3. \/ task' = [task EXCEPT ![t] = Idle]
          \/ /\ task[t].pc = "posting"
             /\ \E st \in {"sent", "failed"} :
                   task' = [task EXCEPT ![t] = [task[t] EXCEPT !.pc = "recording", !.st = st]]
      BY <2>9, <1>t DEF SealFails, PostOk, PostFails, Record
    <3>4. task' \in [Tasks -> Calls]
      BY <1>t, <3>1, <3>2, <3>3
    <3>5. UNCHANGED <<sendSession, inFlight, native, disk, shipped, lost>>
      BY <2>9 DEF SealFails, PostOk, PostFails, Record
    <3>6. row' \in [Msgs -> Rows]
      <4>1. \A m \in Msgs : FailedRow(m) \in Rows /\ task[m].st \in Rows /\ row[m] \in Rows
        BY <1>t DEF FailedRow, TypeOK, Rows, Calls
      <4> QED
        BY <2>9, <4>1 DEF SealFails, PostOk, PostFails, Record, TypeOK
    <3>7. blob' \in Blobs
      BY <2>9, HandlesBounded DEF SealFails, PostOk, PostFails, Record, TypeOK, HandleInv, Blobs
    <3>8. accepted' \in [Msgs -> Nat] /\ unsure' \subseteq Msgs
      BY <2>9 DEF SealFails, PostOk, PostFails, Record, TypeOK
    <3>9. TypeOK'
      BY <3>4, <3>5, <3>6, <3>7, <3>8 DEF TypeOK
    <3>10. HandleInv'
      BY <1>t, <3>1, <3>2, <3>3, <3>5 DEF HandleInv
    <3> QED
      BY <3>9, <3>10
  <2> QED
    BY <1>8, <2>1, <2>2, <2>3, <2>4, <2>5, <2>6, <2>7, <2>8, <2>9 DEF Progress
<1>9. CASE UNCHANGED vars
  BY <1>9 DEF vars, TypeOK, HandleInv
<1> QED
  BY <1>1, <1>2, <1>3, <1>4, <1>5, <1>6, <1>7, <1>8, <1>9 DEF Next

\* Initially no task has started, and nothing is held.
LEMMA TypeInit == Init => TypeOK /\ HandleInv
BY SendAssumption DEF Init, TypeOK, HandleInv, Calls, Busy, Waiting, Blobs, Rows, Tasks, Sessions

\* The sessions, tasks, rows and snapshots of MessagingService.ts keep their
\* types, with any number of messages, receipts and re-handshakes.
THEOREM TypesHold == Spec => []TypeOK
<1>1. Init => TypeOK /\ HandleInv
  BY TypeInit
<1>2. TypeOK /\ HandleInv /\ [Next]_vars => (TypeOK /\ HandleInv)'
  BY TypeStep
<1> QED
  BY <1>1, <1>2, PTL DEF Spec

-----------------------------------------------------------------------------
(***************************************************************************)
(* Handshakes do not fork: the map of handshakes in flight names whoever   *)
(* is inside initSendSession.  It is set on the way in, and cleared by the *)
(* end of that handshake or with the process.                              *)
(***************************************************************************)
FlightInv == \A t \in Tasks : task[t].pc \in Waiting => inFlight = t

\* What may happen to the map and to the tasks inside a handshake.
LEMMA FlightStep ==
    ASSUME TypeOK, HandleInv, FlightInv, [Next]_vars
    PROVE  FlightInv'
<1> USE DEF storeVars, historyVars
<1>t. task \in [Tasks -> Calls] /\ None \notin Tasks /\ None \in Blobs
  BY SendAssumption DEF TypeOK, Blobs
<1>g. ASSUME NEW t \in Tasks, NEW s \in Handles \cup {None}, NEW b \in Blobs,
             GetOrInit(t, s, b)
      PROVE  FlightInv'
  BY <1>g, <1>t, GetOrInitOutcome DEF FlightInv, Waiting
<1>1. ASSUME NEW t \in Msgs \cup Acks, Send(t) PROVE FlightInv'
  BY <1>1, <1>g DEF Send, Tasks, TypeOK
<1>2. ASSUME NEW m \in Msgs, Resend(m) PROVE FlightInv'
  BY <1>2, <1>g DEF Resend, Tasks, TypeOK
<1>3. ASSUME NEW t \in Shakes, Rehandshake(t) PROVE FlightInv'
  BY <1>3, <1>g, <1>t DEF Rehandshake, Tasks
<1>4. ASSUME NEW t \in Shakes, CompleteHandshake(t) PROVE FlightInv'
  <2>1. t \in Tasks
    BY DEF Tasks
  <2>2. CASE GetOrInit(t, None, None)
    BY <2>1, <2>2, <1>g, <1>t
  <2>3. CASE /\ task' = [task EXCEPT ![t].pc = "completing", ![t].blob = blob]
             /\ inFlight' = inFlight
    BY <2>1, <2>3, <1>t DEF FlightInv, Waiting, Calls
  <2> QED
    BY <1>4, <2>2, <2>3 DEF CompleteHandshake
<1>5. CASE DeleteConversation \/ Flush \/ UNCHANGED vars
  BY <1>5 DEF DeleteConversation, Flush, vars, FlightInv
<1>6. CASE Crash
  BY <1>6, <1>t DEF Crash, FlightInv, Waiting, Idle
<1>7. ASSUME NEW t \in Tasks, Progress(t) PROVE FlightInv'
  <2>1. CASE Restored(t)
    <3>1. task[t].blob \in Sessions /\ NewSession(task[t].blob)
      BY <2>1, HandlesBounded DEF Restored, HandleInv, Calls, Blobs
    <3>2. Len(native') \in Handles
      BY <3>1, NewSessionOutcome
    <3>3. CASE task[t].pc = "restoring" /\ Resolve(t, Len(native'))
      BY <3>2, <3>3, ResolveOutcome DEF FlightInv, Waiting
    <3>4. CASE task' = [task EXCEPT ![t] = Ready(t, Len(native'))] /\ inFlight' = inFlight
      BY <3>2, <3>4, <1>t, ReadyTypes DEF FlightInv, Waiting
    <3> QED
      BY <2>1, <3>3, <3>4 DEF Restored
  <2>2. CASE RestoreFails(t)
    <3>1. CASE GetOrInit(t, sendSession, blob)
      BY <3>1, <1>g DEF TypeOK
    <3>2. CASE /\ task[t].pc = "restoring" /\ task' = [task EXCEPT ![t].pc = "fetching"]
               /\ inFlight' = inFlight
      BY <3>2, <1>t DEF FlightInv, Waiting, Calls
    <3> QED
      BY <2>2, <3>1, <3>2 DEF RestoreFails
  <2>3. CASE Initiated(t)
    BY <2>3, <1>t DEF Initiated, FlightInv, Waiting, Calls
  <2>4. CASE InitiateFails(t) \/ KeyExchangeFails(t)
    <3>1. Reject(t) /\ task[t].pc \in Waiting
      BY <2>4 DEF InitiateFails, KeyExchangeFails, Waiting
    <3> QED
      BY <3>1, RejectOutcome DEF FlightInv, Waiting, Idle
  <2>5. CASE KeyExchangeShipped(t)
    BY <2>5, <1>t DEF KeyExchangeShipped, FlightInv, Waiting, Calls
  <2>6. CASE InitSaved(t)
    <3>1. task[t].h \in Handles
      BY <2>6, HandlesBounded DEF InitSaved, HandleInv
    <3>2. Resolve(t, task[t].h) /\ task[t].pc \in Waiting
      BY <2>6 DEF InitSaved, Waiting
    <3> QED
      BY <3>1, <3>2, ResolveOutcome DEF FlightInv, Waiting
  <2>7. CASE Seal(t) \/ SealFails(t) \/ PostOk(t) \/ PostFails(t) \/ Record(t)
    <3>1. /\ inFlight' = inFlight
          /\ \E c : task' = [task EXCEPT ![t] = c] /\ c.pc \in {"idle", "posting", "recording"}
      BY <2>7, <1>t DEF Seal, SealFails, PostOk, PostFails, Record, Idle, Calls
    <3> QED
      BY <3>1, <1>t DEF FlightInv, Waiting
  <2> QED
    BY <1>7, <2>1, <2>2, <2>3, <2>4, <2>5, <2>6, <2>7 DEF Progress
<1> QED
  BY <1>1, <1>2, <1>3, <1>4, <1>5, <1>6, <1>7 DEF Next

\* getOrInitSendSession: "One in-flight promise per peer guarantees exactly
\* one handshake", with any number of tasks, resets and restarts.
THEOREM HandshakesDoNotFork == Spec => []OneHandshake
<1> DEFINE IInv == TypeOK /\ HandleInv /\ FlightInv
<1>1. Init => IInv
  BY TypeInit DEF Init, FlightInv, Waiting
<1>2. IInv /\ [Next]_vars => IInv'
  BY TypeStep, FlightStep
<1>3. IInv => OneHandshake
  BY DEF FlightInv, OneHandshake
<1> QED
  BY <1>1, <1>2, <1>3, PTL DEF Spec

-----------------------------------------------------------------------------
(***************************************************************************)
(* Sessions stem from handshakes whose keys somebody tried to ship.  A     *)
(* session can move between the native side, a snapshot, the saved store   *)
(* and a task that restores it, so the invariant follows it everywhere.    *)
(***************************************************************************)
Tried == shipped \cup lost \cup {task[t].h : t \in {u \in Tasks : task[u].pc = "shipping"}}

KeyInv ==
    /\ blob # None => blob.gen \in Tried
    /\ disk.blob # None => disk.blob.gen \in Tried
    /\ \A h \in 1..Len(native) : native[h].gen \in Tried
    /\ \A t \in Tasks : task[t].blob # None => task[t].blob.gen \in Tried

\* A KeyExchange being shipped ends up shipped or lost: the process may die,
\* but no other task ends it.
LEMMA TriedStays ==
    ASSUME TypeOK, HandleInv, [Next]_vars, NEW g \in Tried
    PROVE  g \in Tried'
<1> USE DEF storeVars, historyVars
<1>t. task \in [Tasks -> Calls] /\ None \in Blobs
  BY DEF TypeOK, Blobs
<1>s. ASSUME shipped \subseteq shipped', lost \subseteq lost',
             \A u \in Tasks : task[u].pc = "shipping" =>
                \/ task'[u].pc = "shipping" /\ task'[u].h = task[u].h
                \/ task[u].h \in shipped' \cup lost'
      PROVE  g \in Tried'
  BY <1>s DEF Tried
<1>f. ASSUME NEW t \in Tasks, task[t].pc # "shipping",
             \A u \in Tasks \ {t} : task'[u] = task[u],
             shipped' = shipped, lost' = lost
      PROVE  g \in Tried'
  BY <1>f, <1>s
<1>g. ASSUME NEW t \in Tasks, NEW s \in Handles \cup {None}, NEW b \in Blobs,
             GetOrInit(t, s, b), task[t].pc # "shipping", shipped' = shipped, lost' = lost
      PROVE  g \in Tried'
  BY <1>g, <1>f, GetOrInitOutcome
<1>1. ASSUME NEW t \in Msgs \cup Acks, Send(t) PROVE g \in Tried'
  BY <1>1, <1>g DEF Send, Tasks, TypeOK
<1>2. ASSUME NEW m \in Msgs, Resend(m) PROVE g \in Tried'
  BY <1>2, <1>g DEF Resend, Tasks, TypeOK
<1>3. ASSUME NEW t \in Shakes, Rehandshake(t) PROVE g \in Tried'
  BY <1>3, <1>g, <1>t DEF Rehandshake, Tasks
<1>4. ASSUME NEW t \in Shakes, CompleteHandshake(t) PROVE g \in Tried'
  <2>1. t \in Tasks /\ task[t].pc # "shipping" /\ shipped' = shipped /\ lost' = lost
    BY <1>4 DEF CompleteHandshake, Tasks
  <2>2. CASE GetOrInit(t, None, None)
    BY <2>1, <2>2, <1>g, <1>t
  <2>3. CASE task' = [task EXCEPT ![t].pc = "completing", ![t].blob = blob]
    BY <2>1, <2>3, <1>t, <1>f
  <2> QED
    BY <1>4, <2>2, <2>3 DEF CompleteHandshake
<1>5. CASE DeleteConversation \/ Flush \/ UNCHANGED vars
  BY <1>5, <1>s DEF DeleteConversation, Flush, vars
<1>6. CASE Crash
  <2>1. \A u \in Tasks : task[u].pc = "shipping" => task[u].h \in lost'
    BY <1>6 DEF Crash
  <2> QED
    BY <1>6, <1>s, <2>1 DEF Crash
<1>7. ASSUME NEW t \in Tasks, Progress(t) PROVE g \in Tried'
  <2>1. CASE Restored(t)
    <3>1. task[t].blob \in Sessions /\ NewSession(task[t].blob)
      BY <2>1, HandlesBounded DEF Restored, HandleInv, Calls, Blobs
    <3>2. Len(native') \in Handles /\ task[t].pc # "shipping"
      BY <2>1, <3>1, NewSessionOutcome DEF Restored
    <3>3. shipped' = shipped /\ lost' = lost
      BY <2>1 DEF Restored
    <3>4. CASE Resolve(t, Len(native'))
      BY <3>2, <3>3, <3>4, <1>s, ResolveOutcome
    <3>5. CASE task' = [task EXCEPT ![t] = Ready(t, Len(native'))]
      BY <3>2, <3>3, <3>5, <1>t, <1>f
    <3> QED
      BY <2>1, <3>4, <3>5 DEF Restored
  <2>2. CASE RestoreFails(t)
    <3>1. task[t].pc # "shipping" /\ shipped' = shipped /\ lost' = lost
      BY <2>2 DEF RestoreFails
    <3>2. CASE GetOrInit(t, sendSession, blob)
      BY <3>1, <3>2, <1>g DEF TypeOK
    <3>3. CASE task' = [task EXCEPT ![t].pc = "fetching"]
      BY <3>1, <3>3, <1>t, <1>f
    <3> QED
      BY <2>2, <3>2, <3>3 DEF RestoreFails
  <2>3. CASE Initiated(t)
    BY <2>3, <1>t, <1>f DEF Initiated
  <2>4. CASE InitiateFails(t)
    BY <2>4, <1>s, RejectOutcome DEF InitiateFails
  <2>5. CASE KeyExchangeFails(t)
    BY <2>5, <1>s, RejectOutcome DEF KeyExchangeFails
  <2>6. CASE KeyExchangeShipped(t)
    BY <2>6, <1>t, <1>s DEF KeyExchangeShipped
  <2>7. CASE InitSaved(t)
    <3>1. task[t].h \in Handles
      BY <2>7, HandlesBounded DEF InitSaved, HandleInv
    <3>2. Resolve(t, task[t].h) /\ task[t].pc # "shipping" /\ shipped' = shipped /\ lost' = lost
      BY <2>7 DEF InitSaved
    <3> QED
      BY <3>1, <3>2, <1>s, ResolveOutcome
  <2>8. CASE Seal(t) \/ SealFails(t) \/ PostOk(t) \/ PostFails(t) \/ Record(t)
    <3>1. /\ shipped' = shipped /\ lost' = lost /\ task[t].pc # "shipping"
          /\ \A u \in Tasks \ {t} : task'[u] = task[u]
      BY <2>8, <1>t DEF Seal, SealFails, PostOk, PostFails, Record
    <3> QED
      BY <3>1, <1>f
  <2> QED
    BY <1>7, <2>1, <2>2, <2>3, <2>4, <2>5, <2>6, <2>7, <2>8 DEF Progress
<1> QED
  BY <1>1, <1>2, <1>3, <1>4, <1>5, <1>6, <1>7 DEF Next

\* A step that takes every session it holds from one that was held.
LEMMA KeyStep ==
    ASSUME TypeOK, HandleInv, KeyInv, [Next]_vars
    PROVE  KeyInv'
<1> USE DEF storeVars, historyVars
<1> DEFINE Held == {blob, disk.blob, None} \cup {native[h] : h \in 1..Len(native)}
                      \cup {task[t].blob : t \in Tasks}
<1>t. task \in [Tasks -> Calls] /\ None \in Blobs /\ Idle.blob = None
  BY DEF TypeOK, Blobs, Idle
<1>h. \A s \in Held : s # None => s.gen \in Tried'
  BY TriedStays DEF KeyInv
<1>k. ASSUME blob' \in Held, disk'.blob \in Held,
             \A h \in 1..Len(native') : native'[h].gen \in Tried',
             \A u \in Tasks : task'[u].blob \in Held
      PROVE  KeyInv'
  BY <1>h, <1>k DEF KeyInv
<1>n. native' = native => \A h \in 1..Len(native') : native'[h].gen \in Tried'
  BY TriedStays DEF KeyInv
<1>m. /\ None \in Held /\ blob \in Held /\ disk.blob \in Held
      /\ \A h \in 1..Len(native) : native[h] \in Held
      /\ \A u \in Tasks : task[u].blob \in Held
  OBVIOUS
<1> HIDE DEF Held
<1>g. ASSUME NEW t \in Tasks, NEW s \in Handles \cup {None}, NEW b \in Blobs,
             GetOrInit(t, s, b), b \in {None, blob}
      PROVE  \A u \in Tasks : task'[u].blob \in Held
  BY <1>g, <1>m, GetOrInitOutcome
<1>1. ASSUME NEW t \in Msgs \cup Acks, Send(t) PROVE KeyInv'
  BY <1>1, <1>g, <1>k, <1>m, <1>n DEF Send, Tasks, TypeOK
<1>2. ASSUME NEW m \in Msgs, Resend(m) PROVE KeyInv'
  BY <1>2, <1>g, <1>k, <1>m, <1>n DEF Resend, Tasks, TypeOK
<1>3. ASSUME NEW t \in Shakes, Rehandshake(t) PROVE KeyInv'
  BY <1>3, <1>g, <1>k, <1>m, <1>n, <1>t DEF Rehandshake, Tasks
<1>4. ASSUME NEW t \in Shakes, CompleteHandshake(t) PROVE KeyInv'
  <2>1. t \in Tasks /\ UNCHANGED <<blob, disk, native>>
    BY <1>4 DEF CompleteHandshake, Tasks
  <2>2. CASE GetOrInit(t, None, None)
    BY <2>1, <2>2, <1>g, <1>k, <1>m, <1>n, <1>t
  <2>3. CASE task' = [task EXCEPT ![t].pc = "completing", ![t].blob = blob]
    <3>1. \A u \in Tasks : task'[u].blob \in {blob, task[u].blob}
      BY <2>1, <2>3, <1>t DEF Calls
    <3> QED
      BY <2>1, <3>1, <1>k, <1>m, <1>n
  <2> QED
    BY <1>4, <2>2, <2>3 DEF CompleteHandshake
<1>5. CASE DeleteConversation \/ Flush \/ UNCHANGED vars
  BY <1>5, <1>k, <1>m, <1>n DEF DeleteConversation, Flush, vars
<1>6. CASE Crash
  BY <1>6, <1>k, <1>m, <1>n, <1>t DEF Crash
<1>7. ASSUME NEW t \in Tasks, Progress(t) PROVE KeyInv'
  <2>1. CASE Restored(t)
    <3>1. task[t].blob \in Sessions /\ NewSession(task[t].blob) /\ task[t].blob # None
      BY <2>1, HandlesBounded DEF Restored, HandleInv, Calls, Blobs
    <3>2. Len(native') \in Handles
      BY <3>1, NewSessionOutcome
    <3>3. \A h \in 1..Len(native') : native'[h].gen \in Tried'
      <4>1. \A h \in 1..Len(native') : h \in 1..Len(native) \/ h = Len(native')
        BY <3>1, NewSessionOutcome, HandlesBounded
      <4>2. \A h \in 1..Len(native) : native[h].gen \in Tried'
        BY TriedStays DEF KeyInv
      <4>3. task[t].blob.gen \in Tried'
        BY <3>1, <1>h, <1>m
      <4> QED
        BY <3>1, <4>1, <4>2, <4>3, NewSessionOutcome
    <3>4. \A u \in Tasks : task'[u].blob \in {None, task[u].blob}
      <4>1. CASE Resolve(t, Len(native'))
        BY <3>2, <4>1, ResolveOutcome
      <4>2. CASE task' = [task EXCEPT ![t] = Ready(t, Len(native'))]
        <5>1. Ready(t, Len(native')).blob = None
          BY <1>t DEF Ready, Calls
        <5> QED
          BY <1>t, <4>2, <5>1
      <4> QED
        BY <2>1, <4>1, <4>2 DEF Restored
    <3>5. UNCHANGED <<blob, disk>>
      BY <2>1 DEF Restored
    <3> QED
      BY <3>3, <3>4, <3>5, <1>k, <1>m
  <2>2. CASE RestoreFails(t)
    <3>1. UNCHANGED <<blob, disk, native>>
      BY <2>2 DEF RestoreFails
    <3>2. CASE GetOrInit(t, sendSession, blob)
      BY <3>1, <3>2, <1>g, <1>k, <1>m, <1>n DEF TypeOK
    <3>3. CASE task' = [task EXCEPT ![t].pc = "fetching"]
      <4>1. \A u \in Tasks : task'[u].blob = task[u].blob
        BY <3>3, <1>t DEF Calls
      <4> QED
        BY <3>1, <4>1, <1>k, <1>m, <1>n
    <3> QED
      BY <2>2, <3>2, <3>3 DEF RestoreFails
  <2>3. CASE Initiated(t)
    <3> DEFINE s == [gen |-> Len(native) + 1, ctr |-> 0]
    <3>1. s \in Sessions /\ s.gen = Len(native) + 1
      BY <2>3, SendAssumption DEF Initiated, NewSession, Sessions, Handles, TypeOK
    <3>2. NewSession(s)
      BY <2>3 DEF Initiated
    <3> HIDE DEF s
    <3>3. task'[t].pc = "shipping" /\ task'[t].h = Len(native')
      BY <2>3, <1>t DEF Initiated, Calls
    <3>4. \A h \in 1..Len(native') : native'[h].gen \in Tried'
      <4>1. \A h \in 1..Len(native') : h \in 1..Len(native) \/ h = Len(native')
        BY <3>1, <3>2, NewSessionOutcome, HandlesBounded
      <4>2. \A h \in 1..Len(native) : native[h].gen \in Tried'
        BY TriedStays DEF KeyInv
      <4>3. Len(native') \in Tried'
        BY <3>3 DEF Tried
      <4>4. native'[Len(native')].gen = Len(native')
        BY <3>1, <3>2, NewSessionOutcome
      <4> QED
        BY <3>1, <3>2, <4>1, <4>2, <4>3, <4>4, NewSessionOutcome
    <3>5. \A u \in Tasks : task'[u].blob = task[u].blob
      BY <2>3, <1>t DEF Initiated, Calls
    <3>6. UNCHANGED <<blob, disk>>
      BY <2>3 DEF Initiated
    <3> QED
      BY <3>4, <3>5, <3>6, <1>k, <1>m
  <2>4. CASE InitiateFails(t) \/ KeyExchangeFails(t)
    <3>1. Reject(t) /\ UNCHANGED <<blob, disk, native>>
      BY <2>4 DEF InitiateFails, KeyExchangeFails
    <3>2. \A u \in Tasks : task'[u].blob \in {None, task[u].blob}
      BY <3>1, <1>t, RejectOutcome
    <3> QED
      BY <3>1, <3>2, <1>k, <1>m, <1>n
  <2>5. CASE KeyExchangeShipped(t)
    <3>1. \A u \in Tasks : task'[u].blob = task[u].blob
      BY <2>5, <1>t DEF KeyExchangeShipped, Calls
    <3> QED
      BY <2>5, <3>1, <1>k, <1>m, <1>n DEF KeyExchangeShipped
  <2>6. CASE InitSaved(t)
    <3>1. task[t].h \in 1..Len(native)
      BY <2>6 DEF InitSaved, HandleInv
    <3>2. Resolve(t, task[t].h) /\ blob' = native[task[t].h] /\ UNCHANGED <<disk, native>>
      BY <2>6 DEF InitSaved
    <3>3. \A u \in Tasks : task'[u].blob \in {None, task[u].blob}
      BY <3>1, <3>2, HandlesBounded, ResolveOutcome
    <3> QED
      BY <3>1, <3>2, <3>3, <1>k, <1>m, <1>n
  <2>7. CASE Seal(t)
    <3> DEFINE g == task[t].h
    <3>1. g \in 1..Len(native) /\ native[g] \in Sessions
      BY <2>7, HandlesBounded DEF Seal, HandleInv
    <3>2. native' = [native EXCEPT ![g] = [native[g] EXCEPT !.ctr = @ + 1]]
      BY <2>7, <3>1 DEF Seal, TypeOK
    <3>3. /\ Len(native') = Len(native)
          /\ \A h \in 1..Len(native) : native'[h].gen = native[h].gen
      BY <3>1, <3>2, HandlesBounded DEF TypeOK, Sessions
    <3>4. \A h \in 1..Len(native) : native[h].gen \in Tried'
      BY TriedStays DEF KeyInv
    <3>5. \A h \in 1..Len(native') : native'[h].gen \in Tried'
      BY <3>3, <3>4
    <3>6. \A u \in Tasks : task'[u].blob = task[u].blob
      BY <2>7, <1>t DEF Seal, Calls
    <3>7. UNCHANGED <<blob, disk>>
      BY <2>7 DEF Seal
    <3> QED
      BY <3>5, <3>6, <3>7, <1>k, <1>m
  <2>8. CASE SealFails(t) \/ PostOk(t) \/ PostFails(t) \/ Record(t)
    <3>1. UNCHANGED <<disk, native>>
      BY <2>8 DEF SealFails, PostOk, PostFails, Record
    <3>2. blob' = blob \/ (task[t].h \in 1..Len(native) /\ blob' = native[task[t].h])
      BY <2>8 DEF SealFails, PostOk, PostFails, Record, HandleInv
    <3>3. \A u \in Tasks : task'[u].blob \in {None, task[u].blob}
      BY <2>8, <1>t DEF SealFails, PostOk, PostFails, Record, Calls
    <3> QED
      BY <3>1, <3>2, <3>3, <1>k, <1>m, <1>n
  <2> QED
    BY <1>7, <2>1, <2>2, <2>3, <2>4, <2>5, <2>6, <2>7, <2>8 DEF Progress
<1> QED
  BY <1>1, <1>2, <1>3, <1>4, <1>5, <1>6, <1>7 DEF Next

\* initSendSession caches a session before its KeyExchange is shipped, and
\* persistSession and tryRestoreSession carry it across restarts: whatever
\* is cached, stored or saved, its keys were shipped, are being shipped, or
\* were lost in the attempt.
THEOREM SessionKeysAreShipped == Spec => []KeysAreShipped
<1> DEFINE IInv == TypeOK /\ HandleInv /\ KeyInv
<1>1. Init => IInv
  <2>1. Init => KeyInv
    BY DEF Init, KeyInv
  <2> QED
    BY <2>1, TypeInit
<1>2. IInv /\ [Next]_vars => IInv'
  BY TypeStep, KeyStep
<1>3. IInv => KeysAreShipped
  <2> SUFFICES ASSUME IInv PROVE KeysAreShipped
    OBVIOUS
  <2>1. DOMAIN native = 1..Len(native)
    BY DEF TypeOK
  <2> QED
    BY <2>1 DEF KeyInv, KeysAreShipped, Tried
<1> QED
  BY <1>1, <1>2, <1>3, PTL DEF Spec

-----------------------------------------------------------------------------
(***************************************************************************)
(* The rows tell the truth.  The status a row shows was chosen at an await *)
(* while the node may or may not have the message, so the invariant says   *)
(* for every place a call can be what the node knows, what the row shows   *)
(* meanwhile, and what a process death would leave on disk.                *)
(***************************************************************************)
Unsent == {"new", "restoring", "fetching", "shipping", "saving", "completing", "joined",
           "sealing", "posting"}

\* A row is absent or pending while its call is under way.
PhaseInv ==
    \A m \in Msgs :
        /\ task[m].pc = "new" => row[m] = None /\ disk.row[m] = None
        /\ task[m].pc \in Unsent \cup {"recording"} => row[m] \in {None, "pending"}

RowInv ==
    \A m \in Msgs \ unsure :
        /\ accepted[m] \in {0, 1}
        /\ task[m].pc \in Unsent => accepted[m] = 0
        /\ task[m].pc = "recording" =>
              \/ task[m].st = "sent" /\ accepted[m] = 1
              \/ task[m].st = "failed" /\ accepted[m] = 0
        /\ row[m] = "failed" => accepted[m] = 0
        /\ row[m] = "sent" => accepted[m] = 1
        /\ disk.row[m] = "sent" => accepted[m] = 1

\* Until the POST is answered a call only moves on, returns or throws.
LEMMA UnsentStep ==
    ASSUME TypeOK, PhaseInv, RowInv,
           UNCHANGED <<disk, accepted, unsure>>,
           \A m \in Msgs :
              \/ row'[m] = row[m] /\ task'[m] = task[m]
              \/ /\ task[m].pc \in Unsent
                 /\ \/ row'[m] = row[m] /\ task'[m].pc \in (Unsent \ {"new"}) \cup {"idle"}
                    \/ row'[m] = "failed" /\ task'[m].pc = "idle"
    PROVE  PhaseInv' /\ RowInv'
<1>1. PhaseInv'
  BY SendAssumption DEF PhaseInv, Unsent
<1>2. RowInv'
  BY DEF RowInv, Unsent
<1> QED
  BY <1>1, <1>2

\* Every step keeps both.
LEMMA RowStep ==
    ASSUME TypeOK, HandleInv, PhaseInv, RowInv, [Next]_vars
    PROVE  PhaseInv' /\ RowInv'
<1> USE DEF storeVars, historyVars
<1>t. /\ task \in [Tasks -> Calls] /\ None \in Blobs /\ Msgs \subseteq Tasks
      /\ row \in [Msgs -> Rows] /\ disk.row \in [Msgs -> Rows] /\ accepted \in [Msgs -> Nat]
      /\ None \notin {"sent", "pending", "failed"} /\ Idle.pc = "idle"
  BY SendAssumption DEF TypeOK, Blobs, Tasks, Idle
<1>g. ASSUME NEW t \in Tasks, NEW s \in Handles \cup {None}, NEW b \in Blobs,
             GetOrInit(t, s, b), task[t].pc \in Unsent,
             UNCHANGED <<row, disk, accepted, unsure>>
      PROVE  PhaseInv' /\ RowInv'
  <2>1. /\ \A u \in Tasks \ {t} : task'[u] = task[u]
        /\ task'[t].pc \in {"idle", "sealing", "joined", "fetching", "restoring"}
    BY <1>g, GetOrInitOutcome
  <2> QED
    BY <1>g, <1>t, <2>1, UnsentStep DEF Unsent
<1>1. ASSUME NEW t \in Msgs \cup Acks, Send(t) PROVE PhaseInv' /\ RowInv'
  BY <1>1, <1>g DEF Send, Tasks, TypeOK, Unsent
<1>2. ASSUME NEW m \in Msgs, Resend(m) PROVE PhaseInv' /\ RowInv'
  <2>1. /\ \A u \in Tasks \ {m} : task'[u] = task[u]
        /\ task'[m].pc \in {"idle", "sealing", "joined", "fetching", "restoring"}
    BY <1>2, <1>t, GetOrInitOutcome DEF Resend, TypeOK
  <2>2. /\ row[m] = "failed" /\ row' = [row EXCEPT ![m] = "pending"]
        /\ UNCHANGED <<disk, accepted, unsure>>
    BY <1>2 DEF Resend
  <2>3. PhaseInv'
    BY <1>t, <2>1, <2>2 DEF PhaseInv, Unsent
  <2>4. RowInv'
    BY <1>t, <2>1, <2>2 DEF RowInv, Unsent
  <2> QED
    BY <2>3, <2>4
<1>3. ASSUME NEW t \in Shakes, Rehandshake(t) PROVE PhaseInv' /\ RowInv'
  BY <1>3, <1>g, <1>t DEF Rehandshake, Tasks, Unsent
<1>4. ASSUME NEW t \in Shakes, CompleteHandshake(t) PROVE PhaseInv' /\ RowInv'
  <2>1. /\ t \in Tasks /\ task[t].pc \in Unsent
        /\ UNCHANGED <<row, disk, accepted, unsure>>
    BY <1>4 DEF CompleteHandshake, Tasks, Unsent
  <2>2. CASE GetOrInit(t, None, None)
    BY <2>1, <2>2, <1>g, <1>t
  <2>3. CASE task' = [task EXCEPT ![t].pc = "completing", ![t].blob = blob]
    <3>1. /\ \A u \in Tasks \ {t} : task'[u] = task[u]
          /\ task'[t].pc = "completing"
      BY <2>1, <2>3, <1>t DEF Calls
    <3> QED
      BY <2>1, <3>1, <1>t, UnsentStep DEF Unsent
  <2> QED
    BY <1>4, <2>2, <2>3 DEF CompleteHandshake
<1>5. CASE DeleteConversation
  BY <1>5, <1>t DEF DeleteConversation, PhaseInv, RowInv
<1>6. CASE Flush
  <2>1. disk'.row = row /\ UNCHANGED <<row, task, accepted, unsure>>
    BY <1>6 DEF Flush
  <2>2. PhaseInv'
    BY <2>1, <1>t DEF PhaseInv, Unsent
  <2>3. RowInv'
    BY <2>1 DEF RowInv
  <2> QED
    BY <2>2, <2>3
<1>7. CASE Crash
  <2>1. /\ row' = disk.row /\ disk' = disk /\ accepted' = accepted
        /\ unsure' = unsure \cup {m \in Msgs : accepted[m] > 0 /\ disk.row[m] # "sent"}
        /\ \A m \in Msgs : (task'[m] = task[m] /\ task[m].pc = "new") \/ task'[m] = Idle
    BY <1>7, <1>t DEF Crash
  <2>2. PhaseInv'
    BY <2>1, <1>t DEF PhaseInv, Unsent
  <2>3. RowInv'
    <3> SUFFICES ASSUME NEW m \in Msgs, m \notin unsure' PROVE RowInv!(m)'
      BY DEF RowInv
    <3>1. m \notin unsure /\ (accepted[m] = 0 \/ disk.row[m] = "sent")
      BY <2>1, <1>t
    <3> QED
      BY <2>1, <3>1, <1>t DEF RowInv, Unsent
  <2> QED
    BY <2>2, <2>3
<1>8. ASSUME NEW t \in Tasks, Progress(t) PROVE PhaseInv' /\ RowInv'
  <2>1. CASE Restored(t)
    <3>1. task[t].blob \in Sessions /\ NewSession(task[t].blob)
      BY <2>1, HandlesBounded DEF Restored, HandleInv, Calls, Blobs
    <3>2. Len(native') \in Handles /\ task[t].pc \in Unsent
      BY <2>1, <3>1, NewSessionOutcome DEF Restored, Unsent
    <3>3. UNCHANGED <<row, disk, accepted, unsure>>
      BY <2>1 DEF Restored
    <3>4. \A u \in Tasks : \/ task'[u] = task[u]
                           \/ task[u].pc \in Unsent /\ task'[u].pc \in {"idle", "sealing"}
      <4>1. CASE Resolve(t, Len(native'))
        BY <3>2, <4>1, ResolveOutcome DEF Unsent
      <4>2. CASE task' = [task EXCEPT ![t] = Ready(t, Len(native'))]
        BY <3>2, <4>2, <1>t, ReadyTypes
      <4> QED
        BY <2>1, <4>1, <4>2 DEF Restored
    <3> QED
      BY <3>3, <3>4, <1>t, UnsentStep DEF Unsent
  <2>2. CASE RestoreFails(t)
    <3>1. task[t].pc \in Unsent /\ UNCHANGED <<row, disk, accepted, unsure>>
      BY <2>2 DEF RestoreFails, Unsent
    <3>2. CASE GetOrInit(t, sendSession, blob)
      BY <3>1, <3>2, <1>g DEF TypeOK
    <3>3. CASE task' = [task EXCEPT ![t].pc = "fetching"]
      <4>1. /\ \A u \in Tasks \ {t} : task'[u] = task[u]
            /\ task'[t].pc = "fetching"
        BY <3>3, <1>t DEF Calls
      <4> QED
        BY <3>1, <4>1, <1>t, UnsentStep DEF Unsent
    <3> QED
      BY <2>2, <3>2, <3>3 DEF RestoreFails
  <2>3. CASE Initiated(t) \/ KeyExchangeShipped(t) \/ Seal(t)
    <3>1. /\ \A u \in Tasks \ {t} : task'[u] = task[u]
          /\ task[t].pc \in Unsent /\ task'[t].pc \in {"shipping", "saving", "posting"}
          /\ UNCHANGED <<row, disk, accepted, unsure>>
      BY <2>3, <1>t DEF Initiated, KeyExchangeShipped, Seal, Calls, Unsent
    <3> QED
      BY <3>1, <1>t, UnsentStep DEF Unsent
  <2>4. CASE InitiateFails(t) \/ KeyExchangeFails(t)
    <3>1. Reject(t) /\ UNCHANGED <<disk, accepted, unsure>> /\ task[t].pc \in Unsent
      BY <2>4 DEF InitiateFails, KeyExchangeFails, Unsent
    <3>2. \A u \in Tasks : task'[u] = IF u = t \/ task[u].pc = "joined" THEN Idle ELSE task[u]
      BY <3>1, RejectOutcome
    <3>3. \A m \in Msgs : \/ row'[m] = row[m]
                          \/ row'[m] = "failed" /\ (m = t \/ task[m].pc = "joined")
      BY <3>1, RejectOutcome
    <3>4. \A m \in Msgs :
              \/ row'[m] = row[m] /\ task'[m] = task[m]
              \/ /\ task[m].pc \in Unsent
                 /\ \/ row'[m] = row[m] /\ task'[m].pc = "idle"
                    \/ row'[m] = "failed" /\ task'[m].pc = "idle"
      BY <3>1, <3>2, <3>3, <1>t DEF Unsent
    <3> QED
      BY <3>1, <3>4, UnsentStep DEF Unsent
  <2>5. CASE InitSaved(t)
    <3>1. task[t].h \in Handles
      BY <2>5, HandlesBounded DEF InitSaved, HandleInv
    <3>2. /\ Resolve(t, task[t].h) /\ task[t].pc \in Unsent
          /\ UNCHANGED <<row, disk, accepted, unsure>>
      BY <2>5 DEF InitSaved, Unsent
    <3>3. \A u \in Tasks : \/ task'[u] = task[u]
                           \/ task[u].pc \in Unsent /\ task'[u].pc \in {"idle", "sealing"}
      BY <3>1, <3>2, ResolveOutcome DEF Unsent
    <3> QED
      BY <3>2, <3>3, <1>t, UnsentStep DEF Unsent
  <2>6. CASE SealFails(t)
    <3>1. /\ task' = [task EXCEPT ![t] = Idle] /\ UNCHANGED <<disk, accepted, unsure>>
          /\ task[t].pc \in Unsent
          /\ \A m \in Msgs : row'[m] = row[m] \/ (m = t /\ row'[m] = "failed")
      BY <2>6 DEF SealFails, FailedRow, Unsent
    <3> QED
      BY <3>1, <1>t, UnsentStep DEF Unsent
  <2>7. CASE PostOk(t)
    <3>1. /\ \A u \in Tasks \ {t} : task'[u] = task[u]
          /\ task[t].pc = "posting" /\ task'[t].pc = "recording" /\ task'[t].st = "sent"
          /\ UNCHANGED <<row, disk, unsure>>
          /\ \A m \in Msgs : accepted'[m] = IF m = t THEN accepted[m] + 1 ELSE accepted[m]
      BY <2>7, <1>t DEF PostOk, Calls
    <3>2. PhaseInv'
      BY <3>1, <1>t DEF PhaseInv, Unsent
    <3>3. RowInv'
      BY <3>1, <1>t DEF RowInv, PhaseInv, Unsent
    <3> QED
      BY <3>2, <3>3
  <2>8. CASE PostFails(t)
    <3>1. /\ \A u \in Tasks \ {t} : task'[u] = task[u]
          /\ task[t].pc = "posting" /\ disk' = disk
          /\ \/ task'[t].pc = "recording" /\ task'[t].st = "failed" /\ row' = row
             \/ /\ task'[t].pc = "idle"
                /\ \A m \in Msgs : row'[m] = row[m] \/ (m = t /\ row'[m] = "failed")
      BY <2>8, <1>t DEF PostFails, Calls, FailedRow
    <3>2. \/ UNCHANGED <<accepted, unsure>>
          \/ /\ unsure' = unsure \cup {t}
             /\ \A m \in Msgs \ {t} : accepted'[m] = accepted[m]
      BY <2>8, <1>t DEF PostFails
    <3>3. PhaseInv'
      BY <3>1, <1>t DEF PhaseInv, Unsent
    <3>4. RowInv'
      <4> SUFFICES ASSUME NEW m \in Msgs, m \notin unsure' PROVE RowInv!(m)'
        BY DEF RowInv
      <4>1. m \notin unsure /\ accepted'[m] = accepted[m]
        BY <3>2
      <4> QED
        BY <3>1, <4>1, <1>t DEF RowInv, Unsent
    <3> QED
      BY <3>3, <3>4
  <2>9. CASE Record(t)
    <3>1. /\ \A u \in Tasks \ {t} : task'[u] = task[u]
          /\ task[t].pc = "recording" /\ task'[t].pc = "idle"
          /\ UNCHANGED <<disk, accepted, unsure>>
          /\ \A m \in Msgs : row'[m] = row[m] \/ (m = t /\ row'[m] = task[m].st)
      BY <2>9, <1>t DEF Record
    <3>2. PhaseInv'
      BY <3>1, <1>t DEF PhaseInv, Unsent
    <3>3. RowInv'
      BY <3>1, <1>t DEF RowInv, Unsent
    <3> QED
      BY <3>2, <3>3
  <2> QED
    BY <1>8, <2>1, <2>2, <2>3, <2>4, <2>5, <2>6, <2>7, <2>8, <2>9 DEF Progress
<1>9. CASE UNCHANGED vars
  BY <1>9 DEF vars, PhaseInv, RowInv
<1> QED
  BY <1>1, <1>2, <1>3, <1>4, <1>5, <1>6, <1>7, <1>8, <1>9 DEF Next

\* sendTextMessageNative and resendMessage: unless a reply was lost or the
\* process died before the save, a row says "failed" only if the node never
\* took the message, "sent" only if it took it once, and a resend does not
\* duplicate it.
THEOREM RowsTellTheTruth == Spec => []RowsAreTruthful
<1> DEFINE IInv == TypeOK /\ HandleInv /\ PhaseInv /\ RowInv
<1>1. Init => IInv
  <2>1. Init => PhaseInv /\ RowInv
    <3> SUFFICES ASSUME Init PROVE PhaseInv /\ RowInv
      OBVIOUS
    <3>1. \A m \in Msgs : /\ row[m] = None /\ disk.row[m] = None /\ accepted[m] = 0
                          /\ task[m].pc = "new"
      BY DEF Init, Tasks
    <3> QED
      BY <3>1, SendAssumption DEF PhaseInv, RowInv
  <2> QED
    BY <2>1, TypeInit
<1>2. IInv /\ [Next]_vars => IInv'
  BY TypeStep, RowStep
<1>3. IInv => RowsAreTruthful
  <2> SUFFICES ASSUME IInv, NEW m \in Msgs \ unsure PROVE RowsAreTruthful!(m)
    BY DEF RowsAreTruthful
  <2>1. accepted[m] = 0 \/ accepted[m] = 1
    BY DEF RowInv
  <2> QED
    BY <2>1 DEF RowInv
<1> QED
  BY <1>1, <1>2, <1>3, PTL DEF Spec
=============================================================================
