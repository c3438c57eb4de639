----------------------------- MODULE IngestProofs -----------------------------
(***************************************************************************)
(* Proofs about Ingest, for any handshakes, texts, positions, concurrent   *)
(* calls and bounds: the type invariant with the cap of the buffer, and    *)
(* that a text leaves a trace (NothingVanishes), shows once (ShownOnce)    *)
(* and is kept for a retry (KeptForRetry).                                 *)
(***************************************************************************)
EXTENDS Ingest, SequenceTheorems, TLAPS

(***************************************************************************)
(* Sequences.                                                              *)
(***************************************************************************)
\* push adds one element at the end.
LEMMA Pushed ==
    ASSUME NEW S, NEW s \in Seq(S), NEW e \in S
    PROVE  /\ Append(s, e) \in Seq(S) /\ Len(Append(s, e)) = Len(s) + 1 /\ Len(s) \in Nat
           /\ Range1(Append(s, e)) = Range1(s) \cup {e}
           /\ s # <<>> => Append(s, e)[1] = s[1]
<1> DEFINE a == Append(s, e)
<1>1. /\ a \in Seq(S) /\ Len(a) = Len(s) + 1 /\ Len(s) \in Nat
      /\ DOMAIN a = 1..(Len(s) + 1) /\ DOMAIN s = 1..Len(s)
      /\ \A i \in 1..Len(s) : a[i] = s[i]
      /\ a[Len(s) + 1] = e
  OBVIOUS
<1> HIDE DEF a
<1>2. Range1(a) \subseteq Range1(s) \cup {e}
  BY <1>1 DEF Range1
<1>3. Range1(s) \subseteq Range1(a)
  <2>1. \A i \in DOMAIN s : i \in DOMAIN a /\ a[i] = s[i]
    BY <1>1
  <2> QED
    BY <2>1 DEF Range1
<1>4. e \in Range1(a)
  <2>1. Len(s) + 1 \in DOMAIN a
    BY <1>1
  <2> QED
    BY <1>1, <2>1 DEF Range1
<1>5. s # <<>> => a[1] = s[1]
  <2>1. s # <<>> => 1 \in 1..Len(s)
    OBVIOUS
  <2> QED
    BY <1>1, <2>1
<1> QED
  BY <1>1, <1>2, <1>3, <1>4, <1>5 DEF a

\* shift takes the first.
LEMMA Shifted ==
    ASSUME NEW S, NEW s \in Seq(S), s # <<>>
    PROVE  /\ Tail(s) \in Seq(S) /\ Head(s) \in S
           /\ Len(s) \in Nat \ {0} /\ Len(Tail(s)) = Len(s) - 1
           /\ \A i \in DOMAIN Tail(s) : i + 1 \in DOMAIN s /\ Tail(s)[i] = s[i + 1]
           /\ Range1(s) = Range1(Tail(s)) \cup {Head(s)}
           /\ 1 \in DOMAIN s /\ s[1] = Head(s)
<1> DEFINE t == Tail(s)
<1>1. /\ t \in Seq(S) /\ Head(s) \in S /\ Head(s) = s[1]
      /\ Len(s) \in Nat \ {0} /\ Len(t) = Len(s) - 1
      /\ DOMAIN s = 1..Len(s) /\ DOMAIN t = 1..(Len(s) - 1)
      /\ \A i \in 1..(Len(s) - 1) : t[i] = s[i + 1]
  BY HeadTailProperties
<1> HIDE DEF t
<1>2. \A i \in DOMAIN t : i + 1 \in DOMAIN s /\ t[i] = s[i + 1]
  BY <1>1
<1>3. 1 \in DOMAIN s
  BY <1>1
<1>4. Range1(t) \cup {Head(s)} \subseteq Range1(s)
  BY <1>1, <1>2, <1>3 DEF Range1
<1>5. Range1(s) \subseteq Range1(t) \cup {Head(s)}
  <2>1. \A i \in DOMAIN s : i = 1 \/ (i - 1 \in DOMAIN t /\ s[i] = t[i - 1])
    BY <1>1
  <2> QED
    BY <1>1, <2>1 DEF Range1
<1> QED
  BY <1>1, <1>2, <1>3, <1>4, <1>5 DEF t

\* A cut loses the element at one index.
LEMMA CutOut ==
    ASSUME NEW S, NEW s \in Seq(S), NEW i \in 1..Len(s)
    PROVE  /\ Without(s, i) \in Seq(S) /\ Len(Without(s, i)) = Len(s) - 1
           /\ Range1(Without(s, i)) \subseteq Range1(s)
           /\ Range1(s) \subseteq Range1(Without(s, i)) \cup {s[i]}
<1> DEFINE c == Without(s, i)
           n == Len(s) - 1
<1>1. n \in Nat /\ Len(s) = n + 1 /\ Len(s) \in Nat /\ i \in Nat /\ DOMAIN s = 1..(n + 1)
  OBVIOUS
<1>2. c = [j \in 1..n |-> IF j < i THEN s[j] ELSE s[j + 1]]
  BY DEF Without
<1> HIDE DEF n, c
<1>3. \A j \in 1..n : j \in DOMAIN s /\ j + 1 \in DOMAIN s
  BY <1>1
<1>4. c \in [1..n -> S]
  BY <1>2, <1>3
<1>5. c \in Seq(S) /\ Len(c) = n /\ DOMAIN c = 1..n
  BY <1>1, <1>4
<1>6. Range1(c) \subseteq Range1(s)
  BY <1>2, <1>3, <1>5 DEF Range1
<1>7. ASSUME NEW j \in DOMAIN s, j # i
      PROVE  \E k \in DOMAIN c : c[k] = s[j]
  <2>1. CASE j < i
    <3>1. j \in 1..n
      BY <1>1, <2>1
    <3> QED
      BY <1>2, <1>5, <2>1, <3>1
  <2>2. CASE ~(j < i)
    <3>1. j - 1 \in 1..n /\ ~(j - 1 < i) /\ (j - 1) + 1 = j
      BY <1>1, <1>7, <2>2
    <3> QED
      BY <1>2, <1>5, <3>1
  <2> QED
    BY <2>1, <2>2
<1>8. Range1(s) \subseteq Range1(c) \cup {s[i]}
  BY <1>7 DEF Range1
<1> QED
  BY <1>5, <1>6, <1>8 DEF c, n

-----------------------------------------------------------------------------
(***************************************************************************)
(* Types, and the cap of the buffer.  A drain replaces the buffer by what  *)
(* failed, so the cap needs BoundInv: what a drain has still to visit and  *)
(* what failed fit in the buffer, as long as pushes reach both.            *)
(***************************************************************************)
\* A handle that is used names a session, and a text is tried on one only
\* while it is the head of its batch.
SessionInv ==
    /\ Len(native) <= MaxSessions /\ recv <= Len(native)
    /\ \A w \in Workers : /\ worker[w].h <= Len(native)
                          /\ worker[w].h # 0 => worker[w].batch # <<>> /\ Head1(w) \in Texts
    /\ \A d \in Drains : drain[d] = Idle \/ drain[d].h \in 1..Len(native)

BoundInv ==
    \A d \in Drains :
        /\ Len(drain[d].todo) + Len(drain[d].failed) <= IF drain[d].shared THEN Len(pending) ELSE Limit
        /\ drain[d].trying => drain[d].todo # <<>>

CoreInv == TypeOK /\ SessionInv /\ BoundInv

\* bufferUndecryptable: what it adds, and that what it drops is evicted.
LEMMA Buffers ==
    ASSUME CoreInv, NEW t \in Texts, Buffer(t)
    PROVE  /\ pending' \in Seq(Texts) /\ Len(pending') <= Limit
           /\ Range1(pending') \subseteq Range1(pending) \cup {t}
           /\ Range1(pending) \subseteq Range1(pending') \cup evicted'
           /\ Buffered(t) \/ t \in Range1(pending')
           /\ evicted \subseteq evicted' /\ evicted' \subseteq Texts
           /\ drain' \in [Drains -> DrainStates]
           /\ \A d \in Drains :
                 /\ drain'[d].h = drain[d].h /\ drain'[d].failed = drain[d].failed
                 /\ drain'[d].shared = drain[d].shared /\ drain'[d].trying = drain[d].trying
                 /\ drain'[d] = Idle <=> drain[d] = Idle
                 /\ drain[d].trying => drain'[d].todo # <<>>
                 /\ Len(drain'[d].todo) + Len(drain'[d].failed)
                        <= IF drain[d].shared THEN Len(pending') ELSE Limit
                 /\ Range1(drain'[d].todo) \subseteq Range1(drain[d].todo) \cup {t}
                 /\ Range1(drain[d].todo) \subseteq Range1(drain'[d].todo) \cup evicted'
                 /\ ~Buffered(t) /\ drain[d].shared => t \in Range1(drain'[d].todo) \cup evicted'
<1>0. /\ pending \in Seq(Texts) /\ Len(pending) \in Nat /\ Len(pending) <= Limit
      /\ drain \in [Drains -> DrainStates] /\ evicted \subseteq Texts /\ Limit \in Nat \ {0}
  BY IngestAssumption DEF CoreInv, TypeOK
<1>1. CASE Buffered(t)
  <2>1. UNCHANGED <<pending, drain, evicted>>
    BY <1>1 DEF Buffer
  <2> QED
    BY <1>0, <1>1, <2>1 DEF CoreInv, BoundInv
<1>2. CASE ~Buffered(t)
  <2> DEFINE todo(d) == drain[d].todo
             a(d) == Append(todo(d), t)
             n(d) == NextVisit(d)
  <2>1. /\ pending' = Cut(Append(pending, t), 1)
        /\ drain' = [d \in Drains |->
              IF drain[d].shared THEN [drain[d] EXCEPT !.todo = Cut(a(d), n(d))] ELSE drain[d]]
        /\ evicted' = IF ~Full THEN evicted
                      ELSE evicted \cup {Head(pending)} \cup {a(d)[n(d)] : d \in {c \in Drains : drain[c].shared}}
    BY <1>2 DEF Buffer
  <2>2. \A d \in Drains : /\ a(d) \in Seq(Texts) /\ Len(a(d)) = Len(todo(d)) + 1
                          /\ Len(todo(d)) \in Nat /\ todo(d) \in Seq(Texts)
                          /\ Range1(a(d)) = Range1(todo(d)) \cup {t}
    BY <1>0, Pushed DEF DrainStates
  <2>3. \A d \in Drains : n(d) \in 1..Len(a(d)) /\ (n(d) = 2 => todo(d) # <<>>)
                          /\ (drain[d].trying => todo(d) # <<>> /\ n(d) = 2)
    <3> SUFFICES ASSUME NEW d \in Drains
                 PROVE  n(d) \in 1..Len(a(d)) /\ (n(d) = 2 => todo(d) # <<>>)
                        /\ (drain[d].trying => todo(d) # <<>> /\ n(d) = 2)
      OBVIOUS
    <3>1. drain[d].trying => todo(d) # <<>>
      BY DEF CoreInv, BoundInv
    <3>2. todo(d) # <<>> => Len(todo(d)) >= 1
      BY <2>2
    <3> QED
      BY <2>2, <3>1, <3>2 DEF NextVisit
  <2>4. /\ Append(pending, t) \in Seq(Texts) /\ Len(Append(pending, t)) = Len(pending) + 1
        /\ Range1(Append(pending, t)) = Range1(pending) \cup {t}
        /\ pending # <<>> => Append(pending, t)[1] = pending[1]
    BY <1>0, Pushed
  <2>5. Full => pending # <<>> /\ Head(pending) = pending[1] /\ Head(pending) \in Texts
    <3>1. Full => pending # <<>>
      BY <1>0 DEF Full
    <3> QED
      BY <1>0, <3>1, Shifted
  <2>6. \A d \in Drains : a(d)[n(d)] \in Texts
    BY <2>2, <2>3
  <2> HIDE DEF todo, a, n
  <2>7. evicted \subseteq evicted' /\ evicted' \subseteq Texts
    BY <1>0, <2>1, <2>5, <2>6
  <2>8. /\ pending' \in Seq(Texts) /\ Len(pending') <= Limit
        /\ Len(pending') = IF Full THEN Len(pending) ELSE Len(pending) + 1
        /\ Range1(pending') \subseteq Range1(pending) \cup {t}
        /\ Range1(pending) \subseteq Range1(pending') \cup evicted'
        /\ t \in Range1(pending')
    <3>1. CASE Full
      <4>1. pending' = Without(Append(pending, t), 1)
        BY <2>1, <3>1 DEF Cut
      <4>2. 1 \in 1..Len(Append(pending, t))
        BY <1>0, <2>4
      <4>3. /\ pending' \in Seq(Texts) /\ Len(pending') = Len(pending)
            /\ Range1(pending') \subseteq Range1(pending) \cup {t}
            /\ Range1(pending) \cup {t} \subseteq Range1(pending') \cup {Head(pending)}
        <5> DEFINE q == Append(pending, t)
        <5>1. q \in Seq(Texts) /\ 1 \in 1..Len(q) /\ pending' = Without(q, 1) /\ q[1] = Head(pending)
          BY <2>4, <2>5, <3>1, <4>1, <4>2
        <5>2. Len(q) = Len(pending) + 1 /\ Range1(q) = Range1(pending) \cup {t}
          BY <2>4
        <5> HIDE DEF q
        <5>3. /\ pending' \in Seq(Texts) /\ Len(pending') = Len(q) - 1
              /\ Range1(pending') \subseteq Range1(q)
              /\ Range1(q) \subseteq Range1(pending') \cup {q[1]}
          BY <5>1, CutOut
        <5> QED
          BY <1>0, <5>1, <5>2, <5>3
      <4>4. Head(pending) \in evicted'
        BY <2>1, <3>1
      <4>5. t # Head(pending)
        <5>1. Head(pending) \in Range1(pending)
          BY <1>0, <2>5, <3>1, Shifted
        <5> QED
          BY <1>2, <5>1 DEF Buffered
      <4> QED
        BY <1>0, <3>1, <4>3, <4>4, <4>5
    <3>2. CASE ~Full
      BY <1>0, <2>1, <2>4, <3>2 DEF Cut, Full
    <3> QED
      BY <3>1, <3>2
  <2>9. ASSUME NEW d \in Drains
        PROVE  /\ drain'[d] \in DrainStates
               /\ drain'[d].h = drain[d].h /\ drain'[d].failed = drain[d].failed
               /\ drain'[d].shared = drain[d].shared /\ drain'[d].trying = drain[d].trying
               /\ drain'[d] = Idle <=> drain[d] = Idle
               /\ drain[d].trying => drain'[d].todo # <<>>
               /\ Len(drain'[d].todo) + Len(drain'[d].failed)
                      <= IF drain[d].shared THEN Len(pending') ELSE Limit
               /\ Range1(drain'[d].todo) \subseteq Range1(drain[d].todo) \cup {t}
               /\ Range1(drain[d].todo) \subseteq Range1(drain'[d].todo) \cup evicted'
               /\ drain[d].shared => t \in Range1(drain'[d].todo) \cup evicted'
    <3>1. CASE ~drain[d].shared
      <4>1. drain'[d] = drain[d]
        BY <2>1, <3>1
      <4> QED
        BY <1>0, <3>1, <4>1 DEF CoreInv, BoundInv
    <3>2. CASE drain[d].shared
      <4> DEFINE c == Cut(a(d), n(d))
      <4>1. drain'[d] = [drain[d] EXCEPT !.todo = c] /\ drain[d] \in DrainStates
        BY <1>0, <2>1, <3>2
      <4>2. /\ c \in Seq(Texts) /\ Len(c) = IF Full THEN Len(todo(d)) ELSE Len(todo(d)) + 1
            /\ Range1(c) \subseteq Range1(todo(d)) \cup {t}
            /\ Range1(todo(d)) \cup {t} \subseteq Range1(c) \cup evicted'
        <5>1. CASE Full
          <6>1. c = Without(a(d), n(d))
            BY <5>1 DEF Cut
          <6>2. a(d)[n(d)] \in evicted'
            BY <2>1, <3>2, <5>1
          <6> HIDE DEF c
          <6>3. Len(c) = Len(a(d)) - 1 /\ c \in Seq(Texts) /\ Range1(c) \subseteq Range1(a(d))
                /\ Range1(a(d)) \subseteq Range1(c) \cup {a(d)[n(d)]}
            BY <2>2, <2>3, <6>1, CutOut
          <6> QED
            BY <2>2, <5>1, <6>2, <6>3
        <5>2. CASE ~Full
          <6>1. c = a(d)
            BY <5>2 DEF Cut
          <6> QED
            BY <2>2, <5>2, <6>1
        <5> QED
          BY <5>1, <5>2
      <4> HIDE DEF c
      <4>3. /\ drain'[d] \in DrainStates /\ drain'[d].todo = c
            /\ drain'[d].h = drain[d].h /\ drain'[d].failed = drain[d].failed
            /\ drain'[d].shared = drain[d].shared /\ drain'[d].trying = drain[d].trying
        BY <4>1, <4>2 DEF DrainStates
      <4>4. drain'[d] # Idle /\ drain[d] # Idle
        <5>1. Idle.shared = FALSE
          BY DEF Idle
        <5> QED
          BY <3>2, <4>3, <5>1
      <4>5. drain[d].trying => c # <<>>
        <5>1. drain[d].trying => Len(todo(d)) >= 1
          <6>1. todo(d) \in Seq(Texts) /\ (drain[d].trying => todo(d) # <<>>)
            BY <2>2, <2>3
          <6> QED
            BY <6>1
        <5>2. drain[d].trying => Len(c) >= 1
          BY <2>2, <4>2, <5>1
        <5> QED
          BY <5>2
      <4>6. Len(todo(d)) + Len(drain[d].failed) <= Len(pending)
        BY <3>2 DEF CoreInv, BoundInv, todo
      <4>7. Len(drain[d].failed) \in Nat
        BY <4>1 DEF DrainStates
      <4>8. Len(c) + Len(drain[d].failed) <= Len(pending')
        <5>1. Len(todo(d)) \in Nat /\ Len(pending) \in Nat
          BY <1>0, <2>2
        <5>2. /\ Len(c) = IF Full THEN Len(todo(d)) ELSE Len(todo(d)) + 1
              /\ Len(pending') = IF Full THEN Len(pending) ELSE Len(pending) + 1
          BY <2>8, <4>2
        <5> DEFINE m == Len(todo(d))
                   k == Len(drain[d].failed)
                   p == Len(pending)
        <5>3. \/ Len(c) = m /\ Len(pending') = p
              \/ Len(c) = m + 1 /\ Len(pending') = p + 1
          BY <5>2
        <5>4. m \in Nat /\ k \in Nat /\ p \in Nat /\ m + k <= p
          BY <4>6, <4>7, <5>1
        <5> HIDE DEF m, k, p
        <5>5. Len(c) + k <= Len(pending')
          BY <5>3, <5>4
        <5> QED
          BY <5>5 DEF k
      <4> QED
        BY <3>2, <4>2, <4>3, <4>4, <4>5, <4>8 DEF todo
    <3> QED
      BY <3>1, <3>2
  <2>10. drain' \in [Drains -> DrainStates]
    <3>1. drain' = [d \in Drains |-> drain'[d]]
      BY <2>1
    <3> QED
      BY <2>9, <3>1
  <2> QED
    BY <1>2, <2>7, <2>8, <2>9, <2>10
<1> QED
  BY <1>1, <1>2

\* A native session that opens a text keeps its generation.
LEMMA OpenedShape ==
    ASSUME CoreInv, NEW h \in 1..Len(native), NEW t \in Texts
    PROVE  /\ Opened(h, t) \in Seq(Sessions) /\ Len(Opened(h, t)) = Len(native)
           /\ DOMAIN Opened(h, t) = DOMAIN native /\ DOMAIN native = 1..Len(native)
           /\ \A k \in 1..Len(native) :
                 /\ Opened(h, t)[k].gen = native[k].gen
                 /\ Opened(h, t)[k].opened = IF k = h THEN native[k].opened \cup {t} ELSE native[k].opened
<1> DEFINE e == [gen |-> native[h].gen, opened |-> native[h].opened \cup {t}]
           o == Opened(h, t)
<1>1. native \in Seq(Sessions) /\ native[h] \in Sessions
  BY DEF CoreInv, TypeOK
<1>2. e \in Sessions /\ e.gen = native[h].gen /\ e.opened = native[h].opened \cup {t}
  BY <1>1 DEF Sessions
<1>3. o = [native EXCEPT ![h] = e]
  BY DEF Opened
<1> HIDE DEF e, o
<1>4. /\ o \in Seq(Sessions) /\ Len(o) = Len(native)
      /\ \A k \in 1..Len(native) : o[k] = IF k = h THEN e ELSE native[k]
  BY <1>1, <1>2, <1>3, ExceptSeq
<1>5. DOMAIN o = 1..Len(native) /\ DOMAIN native = 1..Len(native)
  BY <1>1, <1>4
<1> QED
  BY <1>2, <1>4, <1>5 DEF o

\* A worker that ends an envelope goes on with the next one of its batch.
LEMMA RestShape ==
    ASSUME CoreInv, NEW w \in Workers, worker[w].batch # <<>>
    PROVE  /\ Rest(w) \in [Workers -> WorkerStates]
           /\ Rest(w)[w].batch = Tail(worker[w].batch) /\ Rest(w)[w].h = 0
           /\ \A v \in Workers : v # w => Rest(w)[v] = worker[v]
           /\ Head1(w) \in Envelopes
<1> DEFINE n == [batch |-> Tail(worker[w].batch), h |-> 0]
<1>1. worker \in [Workers -> WorkerStates] /\ worker[w].batch \in Seq(Envelopes)
  BY DEF CoreInv, TypeOK, WorkerStates
<1>2. Tail(worker[w].batch) \in Seq(Envelopes) /\ Head1(w) \in Envelopes
  BY <1>1, Shifted DEF Head1
<1>3. n \in WorkerStates
  BY <1>2, IngestAssumption DEF WorkerStates
<1> QED
  BY <1>1, <1>2, <1>3 DEF Rest

\* The sort of a batch makes no envelope up and repeats none.
LEMMA PreparedShape ==
    ASSUME NEW n \in Nat, NEW s \in [1..n -> Envelopes], NEW b \in Prepared(s)
    PROVE  /\ b \in Seq(Envelopes) /\ DOMAIN b = 1..n
           /\ Range1(b) \subseteq Range1(s)
           /\ (\A i, j \in DOMAIN s : s[i] = s[j] => i = j)
                  => \A i, j \in DOMAIN b : b[i] = b[j] => i = j
<1>1. PICK f \in [1..n -> 1..n] :
          /\ b = [i \in 1..n |-> s[f[i]]]
          /\ \A i, j \in 1..n : i < j => f[i] # f[j]
  BY DEF Prepared
<1>2. b \in [1..n -> Envelopes]
  BY <1>1
<1>3. b \in Seq(Envelopes) /\ DOMAIN b = 1..n
  BY <1>2
<1>4. Range1(b) \subseteq Range1(s)
  BY <1>1 DEF Range1
<1>5. ASSUME \A i, j \in DOMAIN s : s[i] = s[j] => i = j,
             NEW i \in 1..n, NEW j \in 1..n, b[i] = b[j]
      PROVE  i = j
  <2>1. f[i] = f[j]
    BY <1>1, <1>5
  <2>2. ~(i < j) /\ ~(j < i)
    BY <1>1, <2>1
  <2> QED
    BY <2>2
<1> QED
  BY <1>3, <1>4, <1>5

\* What the session handles are allowed to be once there are n sessions.
LEMMA RestSessions ==
    ASSUME CoreInv, NEW w \in Workers, worker[w].batch # <<>>, worker' = Rest(w),
           Len(native) <= Len(native'), Len(native') \in Nat
    PROVE  /\ worker' \in [Workers -> WorkerStates]
           /\ \A v \in Workers : /\ worker'[v].h <= Len(native')
                                 /\ worker'[v].h # 0 => worker'[v].batch # <<>> /\ Head(worker'[v].batch) \in Texts
<1>1. \A v \in Workers : /\ worker[v].h <= Len(native)
                         /\ worker[v].h # 0 => worker[v].batch # <<>> /\ Head(worker[v].batch) \in Texts
                         /\ worker[v].h \in Nat
  BY IngestAssumption DEF CoreInv, SessionInv, Head1, TypeOK, WorkerStates
<1>2. Len(native) \in Nat
  BY DEF CoreInv, TypeOK
<1>3. \A v \in Workers : worker'[v].h <= Len(native')
  <2>1. \A v \in Workers : worker'[v].h = 0 \/ worker'[v].h = worker[v].h
    BY RestShape
  <2> QED
    BY <1>1, <1>2, <2>1
<1> QED
  BY <1>1, <1>3, RestShape

\* A drain that does not run has no array to lose.
LEMMA IdleStays == [Idle EXCEPT !.shared = FALSE] = Idle
<1> DEFINE F == {"h", "todo", "failed", "shared", "trying"}
           e == [Idle EXCEPT !.shared = FALSE]
<1>1. /\ DOMAIN Idle = F /\ Idle = [x \in F |-> Idle[x]]
      /\ Idle.shared = FALSE
  BY DEF Idle
<1>2. DOMAIN e = F /\ e = [x \in F |-> e[x]]
  BY <1>1
<1>3. \A x \in F : e[x] = Idle[x]
  BY <1>1
<1> QED
  BY <1>1, <1>2, <1>3

\* A drain that ends leaves what failed, and others lose the array.
LEMMA FinishShape ==
    ASSUME CoreInv, NEW d \in Drains, NEW f \in Seq(Texts), Len(f) <= Limit, Finish(d, f)
    PROVE  /\ pending' \in Seq(Texts) /\ Len(pending') <= Limit
           /\ drain' \in [Drains -> DrainStates]
           /\ drain'[d] = Idle
           /\ \A c \in Drains : c # d =>
                 /\ drain'[c].h = drain[c].h /\ drain'[c].todo = drain[c].todo
                 /\ drain'[c].failed = drain[c].failed /\ drain'[c].trying = drain[c].trying
                 /\ drain'[c].shared = FALSE
                 /\ drain[c] = Idle => drain'[c] = Idle
           /\ \A c \in Drains :
                 /\ Len(drain'[c].todo) + Len(drain'[c].failed) <= IF drain'[c].shared THEN Len(pending') ELSE Limit
                 /\ drain'[c].trying => drain'[c].todo # <<>>
<1>0. drain \in [Drains -> DrainStates] /\ Limit \in Nat /\ Len(pending) <= Limit /\ Len(pending) \in Nat
  BY IngestAssumption DEF CoreInv, TypeOK
<1>1. /\ pending' = f
      /\ drain' = [c \in Drains |-> IF c = d THEN Idle ELSE [drain[c] EXCEPT !.shared = FALSE]]
  BY DEF Finish
<1>2. Idle \in DrainStates
  BY IngestAssumption DEF Idle, DrainStates
<1>3. \A c \in Drains : c # d =>
          /\ drain'[c] \in DrainStates
          /\ drain'[c].h = drain[c].h /\ drain'[c].todo = drain[c].todo
          /\ drain'[c].failed = drain[c].failed /\ drain'[c].trying = drain[c].trying
          /\ drain'[c].shared = FALSE
          /\ drain[c] = Idle => drain'[c] = Idle
  <2> SUFFICES ASSUME NEW c \in Drains, c # d
               PROVE  /\ drain'[c] \in DrainStates
                      /\ drain'[c].h = drain[c].h /\ drain'[c].todo = drain[c].todo
                      /\ drain'[c].failed = drain[c].failed /\ drain'[c].trying = drain[c].trying
                      /\ drain'[c].shared = FALSE
                      /\ drain[c] = Idle => drain'[c] = Idle
    OBVIOUS
  <2>1. drain'[c] = [drain[c] EXCEPT !.shared = FALSE] /\ drain[c] \in DrainStates
    BY <1>0, <1>1
  <2>2. [Idle EXCEPT !.shared = FALSE] = Idle
    BY IdleStays
  <2>3. drain[c] = Idle => drain'[c] = Idle
    BY <2>1, <2>2
  <2>4. /\ drain'[c] \in DrainStates
        /\ drain'[c].h = drain[c].h /\ drain'[c].todo = drain[c].todo
        /\ drain'[c].failed = drain[c].failed /\ drain'[c].trying = drain[c].trying
        /\ drain'[c].shared = FALSE
    BY <2>1 DEF DrainStates
  <2> QED
    BY <2>3, <2>4
<1>4. drain'[d] = Idle
  BY <1>1
<1>5. drain' \in [Drains -> DrainStates]
  <2>1. drain' = [c \in Drains |-> drain'[c]] /\ \A c \in Drains : drain'[c] \in DrainStates
    BY <1>1, <1>2, <1>3, <1>4
  <2> QED
    BY <2>1
<1>6. ASSUME NEW c \in Drains
      PROVE  /\ Len(drain'[c].todo) + Len(drain'[c].failed) <= IF drain'[c].shared THEN Len(pending') ELSE Limit
             /\ drain'[c].trying => drain'[c].todo # <<>>
  <2>1. CASE c = d
    <3>1. Idle.todo = <<>> /\ Idle.failed = <<>> /\ Idle.shared = FALSE /\ Idle.trying = FALSE
      BY DEF Idle
    <3>2. Len(<<>>) + Len(<<>>) <= Limit
      BY <1>0
    <3> QED
      BY <1>4, <2>1, <3>1, <3>2
  <2>2. CASE c # d
    <3>1. /\ Len(drain[c].todo) + Len(drain[c].failed) <= IF drain[c].shared THEN Len(pending) ELSE Limit
          /\ drain[c].trying => drain[c].todo # <<>>
      BY DEF CoreInv, BoundInv
    <3>2. Len(drain[c].todo) \in Nat /\ Len(drain[c].failed) \in Nat
      BY <1>0 DEF DrainStates
    <3>3. Len(drain[c].todo) + Len(drain[c].failed) <= Limit
      <4>1. CASE drain[c].shared
        <5>1. Len(drain[c].todo) + Len(drain[c].failed) <= Len(pending)
          BY <3>1, <4>1
        <5> DEFINE m == Len(drain[c].todo)
                   k == Len(drain[c].failed)
        <5>2. m + k <= Len(pending) /\ m \in Nat /\ k \in Nat
          BY <3>2, <5>1
        <5> HIDE DEF m, k
        <5>3. m + k <= Limit
          BY <1>0, <5>2
        <5> QED
          BY <5>3 DEF m, k
      <4>2. CASE ~drain[c].shared
        BY <3>1, <4>2
      <4> QED
        BY <4>1, <4>2
    <3> QED
      BY <1>3, <2>2, <3>1, <3>3
  <2> QED
    BY <2>1, <2>2
<1> QED
  BY <1>1, <1>3, <1>4, <1>5, <1>6

\* The drain that an accepted handshake starts.
LEMMA StartShape ==
    ASSUME CoreInv, NEW h \in 1..MaxSessions, StartDrain(h)
    PROVE  /\ drain' \in [Drains -> DrainStates] /\ overlapped' \in BOOLEAN
           /\ \/ UNCHANGED <<drain, overlapped>>
              \/ \E d \in Drains : /\ drain[d] = Idle
                                   /\ drain' = [drain EXCEPT ![d] = [h |-> h, todo |-> pending, failed |-> <<>>,
                                                                     shared |-> TRUE, trying |-> TRUE]]
                                   /\ drain'[d].h = h /\ drain'[d].todo = pending /\ drain'[d].failed = <<>>
                                   /\ drain'[d].shared /\ drain'[d].trying /\ pending # <<>>
                                   /\ \A c \in Drains : c # d => drain'[c] = drain[c]
                                   /\ overlapped' = (overlapped \/ Running # {})
<1>0. drain \in [Drains -> DrainStates] /\ pending \in Seq(Texts) /\ overlapped \in BOOLEAN
  BY DEF CoreInv, TypeOK
<1>1. CASE pending = <<>>
  BY <1>0, <1>1 DEF StartDrain
<1>2. CASE pending # <<>>
  <2> DEFINE n == [h |-> h, todo |-> pending, failed |-> <<>>, shared |-> TRUE, trying |-> TRUE]
  <2>1. PICK d \in Drains \ Running : drain' = [drain EXCEPT ![d] = n]
    BY <1>2 DEF StartDrain
  <2>2. overlapped' = (overlapped \/ Running # {})
    BY <1>2 DEF StartDrain
  <2>3. n \in DrainStates
    <3>1. <<>> \in Seq(Texts) /\ h \in 0..MaxSessions
      BY IngestAssumption
    <3> QED
      BY <1>0, <3>1 DEF DrainStates
  <2>4. n.h = h /\ n.todo = pending /\ n.failed = <<>> /\ n.shared /\ n.trying
    OBVIOUS
  <2>5. drain[d] = Idle
    BY <2>1 DEF Running
  <2>8. drain' = [drain EXCEPT ![d] = [h |-> h, todo |-> pending, failed |-> <<>>, shared |-> TRUE, trying |-> TRUE]]
    BY <2>1
  <2> HIDE DEF n
  <2>6. drain' \in [Drains -> DrainStates] /\ drain'[d] = n /\ \A c \in Drains : c # d => drain'[c] = drain[c]
    BY <1>0, <2>1, <2>3
  <2>7. overlapped' \in BOOLEAN
    BY <2>2
  <2> QED
    BY <1>2, <2>1, <2>2, <2>4, <2>5, <2>6, <2>7, <2>8
<1> QED
  BY <1>1, <1>2

\* What every drain step may rely on of its drain.
LEMMA DrainFacts ==
    ASSUME CoreInv, NEW d \in Drains, drain[d].trying \/ drain[d] # Idle
    PROVE  /\ drain[d] \in DrainStates /\ drain[d] # Idle /\ drain[d].h \in 1..Len(native)
           /\ drain[d].todo \in Seq(Texts) /\ drain[d].failed \in Seq(Texts)
           /\ Len(drain[d].todo) \in Nat /\ Len(drain[d].failed) \in Nat
           /\ Len(drain[d].todo) + Len(drain[d].failed) <= Limit
           /\ drain[d].trying => drain[d].todo # <<>>
<1>0. Limit \in Nat /\ Len(pending) \in Nat /\ Len(pending) <= Limit
  BY IngestAssumption DEF CoreInv, TypeOK
<1>1. drain[d] \in DrainStates /\ drain[d].todo \in Seq(Texts) /\ drain[d].failed \in Seq(Texts)
  BY DEF CoreInv, TypeOK, DrainStates
<1>2. Idle.trying = FALSE
  BY DEF Idle
<1>3. drain[d] # Idle
  BY <1>2
<1>4. drain[d].h \in 1..Len(native)
  BY <1>3 DEF CoreInv, SessionInv
<1>5. /\ Len(drain[d].todo) + Len(drain[d].failed) <= IF drain[d].shared THEN Len(pending) ELSE Limit
      /\ drain[d].trying => drain[d].todo # <<>>
  BY DEF CoreInv, BoundInv
<1> DEFINE m == Len(drain[d].todo)
           k == Len(drain[d].failed)
<1>6. m \in Nat /\ k \in Nat /\ (m + k <= Len(pending) \/ m + k <= Limit)
  <2>1. m \in Nat /\ k \in Nat
    BY <1>1
  <2>2. m + k <= IF drain[d].shared THEN Len(pending) ELSE Limit
    BY <1>5
  <2> HIDE DEF m, k
  <2> QED
    BY <2>1, <2>2
<1> HIDE DEF m, k
<1>7. m + k <= Limit
  BY <1>0, <1>6
<1> QED
  BY <1>1, <1>3, <1>4, <1>5, <1>6, <1>7 DEF m, k

\* The steps that only work on the buffer of a batch.
LEMMA TextShape ==
    ASSUME CoreInv, NEW w \in Workers,
           \/ TextWithoutSession(w) \/ TextDropped(w) \/ TextOpens(w) \/ TextFails(w)
    PROVE  /\ worker[w].batch # <<>> /\ Head1(w) \in Texts /\ worker' = Rest(w)
           /\ settled' = settled \cup {Head1(w)}
           /\ UNCHANGED <<posOf, recv, copies, overlapped>>
<1>1. worker[w].h # 0 => worker[w].batch # <<>> /\ Head1(w) \in Texts
  BY DEF CoreInv, SessionInv
<1> QED
  BY <1>1 DEF TextWithoutSession, TextDropped, TextOpens, TextFails, Ends

LEMMA CoreStep == CoreInv /\ [Next]_vars => CoreInv'
<1> SUFFICES ASSUME CoreInv, [Next]_vars PROVE CoreInv'
  OBVIOUS
<1>t. TypeOK /\ SessionInv /\ BoundInv
  BY DEF CoreInv
<1>n. native \in Seq(Sessions) /\ Len(native) \in Nat /\ MaxSessions \in Nat /\ recv \in Nat /\ Limit \in Nat
  BY <1>t, IngestAssumption DEF TypeOK
<1>b. ASSUME NEW w \in Workers, TextWithoutSession(w) \/ TextFails(w) PROVE CoreInv'
  <2>1. /\ worker[w].batch # <<>> /\ Head1(w) \in Texts /\ worker' = Rest(w)
        /\ settled' = settled \cup {Head1(w)}
        /\ UNCHANGED <<posOf, recv, copies, overlapped>>
    BY <1>b, TextShape
  <2>2. Undecryptable(Head1(w)) /\ UNCHANGED <<native, dropped>>
    BY <1>b DEF TextWithoutSession, TextFails
  <2>3. Buffer(Head1(w)) /\ UNCHANGED rows /\ holders' = holders \cup {posOf[Head1(w)]}
    BY <2>2 DEF Undecryptable
  <2>4. posOf[Head1(w)] \in Positions
    BY <1>t, <2>1 DEF TypeOK, Positions
  <2>5. /\ worker' \in [Workers -> WorkerStates]
        /\ \A v \in Workers : /\ worker'[v].h <= Len(native')
                              /\ worker'[v].h # 0 => worker'[v].batch # <<>> /\ Head(worker'[v].batch) \in Texts
    BY <1>n, <2>1, <2>2, RestSessions
  <2>6. TypeOK'
    BY <1>t, <2>1, <2>2, <2>3, <2>4, <2>5, Buffers DEF TypeOK
  <2>7. BoundInv'
    BY <1>t, <2>1, <2>3, Buffers DEF BoundInv
  <2>8. \A d \in Drains : drain'[d] = Idle \/ drain'[d].h \in 1..Len(native')
    BY <1>t, <2>1, <2>2, <2>3, Buffers DEF SessionInv
  <2>9. SessionInv'
    BY <1>t, <2>1, <2>2, <2>5, <2>8 DEF SessionInv, Head1
  <2> QED
    BY <2>6, <2>7, <2>9 DEF CoreInv
<1>c. ASSUME NEW w \in Workers, TextOpens(w) \/ TextDropped(w) PROVE CoreInv'
  <2>1. /\ worker[w].batch # <<>> /\ Head1(w) \in Texts /\ worker' = Rest(w)
        /\ settled' = settled \cup {Head1(w)}
        /\ UNCHANGED <<posOf, recv, copies, overlapped>>
    BY <1>c, TextShape
  <2>2. worker[w].h \in 1..Len(native)
    <3>1. worker[w].h # 0 /\ worker[w].h \in Nat /\ worker[w].h <= Len(native)
      BY <1>c, <1>t, <1>n DEF TextOpens, TextDropped, SessionInv, TypeOK, WorkerStates
    <3> QED
      BY <1>n, <3>1
  <2>3. native' \in Seq(Sessions) /\ Len(native') = Len(native)
    BY <1>c, <1>n, <2>1, <2>2, OpenedShape DEF TextOpens, TextDropped
  <2>4. rows' \in [Texts -> Nat] /\ UNCHANGED <<pending, drain, holders, evicted>> /\ dropped' \subseteq Texts
    BY <1>c, <1>t, <2>1 DEF TextOpens, TextDropped, TypeOK, storeVars
  <2>5. /\ worker' \in [Workers -> WorkerStates]
        /\ \A v \in Workers : /\ worker'[v].h <= Len(native')
                              /\ worker'[v].h # 0 => worker'[v].batch # <<>> /\ Head(worker'[v].batch) \in Texts
    BY <1>n, <2>1, <2>3, RestSessions
  <2>6. TypeOK'
    BY <1>t, <2>1, <2>3, <2>4, <2>5 DEF TypeOK
  <2>7. BoundInv'
    BY <1>t, <2>4 DEF BoundInv
  <2>8. SessionInv'
    BY <1>t, <2>1, <2>3, <2>4, <2>5 DEF SessionInv, Head1
  <2> QED
    BY <2>6, <2>7, <2>8 DEF CoreInv
<1>d. ASSUME NEW w \in Workers, TextFindsSession(w) PROVE CoreInv'
  <2>1. /\ worker' = [worker EXCEPT ![w].h = recv] /\ worker[w].batch # <<>> /\ Head1(w) \in Texts
        /\ UNCHANGED <<posOf, recv, native, pending, drain, rows, holders, copies, settled, dropped, evicted, overlapped>>
    BY <1>d DEF TextFindsSession, storeVars, historyVars
  <2>2. worker \in [Workers -> WorkerStates] /\ recv \in 0..MaxSessions
    BY <1>t DEF TypeOK
  <2>3. /\ worker' \in [Workers -> WorkerStates]
        /\ worker'[w].h = recv /\ worker'[w].batch = worker[w].batch
        /\ \A v \in Workers : v # w => worker'[v] = worker[v]
    BY <2>1, <2>2 DEF WorkerStates
  <2>4. TypeOK'
    BY <1>t, <2>1, <2>3 DEF TypeOK
  <2>5. BoundInv'
    BY <1>t, <2>1 DEF BoundInv
  <2>6. SessionInv'
    BY <1>t, <2>1, <2>3 DEF SessionInv, Head1
  <2> QED
    BY <2>4, <2>5, <2>6 DEF CoreInv
<1>e. ASSUME NEW w \in Workers, KeyExchangeRejected(w) PROVE CoreInv'
  <2>1. /\ worker' = Rest(w) /\ worker[w].batch # <<>>
        /\ UNCHANGED <<posOf, recv, native, pending, drain, rows, holders, copies, settled, dropped, evicted, overlapped>>
    BY <1>e DEF KeyExchangeRejected, storeVars, historyVars
  <2>2. /\ worker' \in [Workers -> WorkerStates]
        /\ \A v \in Workers : /\ worker'[v].h <= Len(native')
                              /\ worker'[v].h # 0 => worker'[v].batch # <<>> /\ Head(worker'[v].batch) \in Texts
    BY <1>n, <2>1, RestSessions
  <2>3. TypeOK' /\ BoundInv' /\ SessionInv'
    BY <1>t, <2>1, <2>2 DEF TypeOK, BoundInv, SessionInv, Head1
  <2> QED
    BY <2>3 DEF CoreInv
<1>f. ASSUME NEW w \in Workers, KeyExchangeAccepted(w) PROVE CoreInv'
  <2> DEFINE e == [gen |-> Head1(w), opened |-> {}]
  <2>1. /\ worker' = Rest(w) /\ worker[w].batch # <<>> /\ Head1(w) \in Gens /\ Len(native) < MaxSessions
        /\ native' = Append(native, e) /\ recv' = Len(native') /\ StartDrain(recv')
        /\ UNCHANGED <<posOf, pending, rows, holders, copies, settled, dropped, evicted>>
    BY <1>f DEF KeyExchangeAccepted, storeVars
  <2>2. e \in Sessions
    BY <2>1 DEF Sessions
  <2> HIDE DEF e
  <2>3. native' \in Seq(Sessions) /\ Len(native') = Len(native) + 1
    BY <1>n, <2>1, <2>2, Pushed
  <2>4. recv' \in 1..MaxSessions /\ Len(native') \in Nat /\ Len(native) <= Len(native')
        /\ Len(native') <= MaxSessions /\ recv' \in 1..Len(native') /\ recv' \in 0..MaxSessions
    BY <1>n, <2>1, <2>3
  <2>5. /\ worker' \in [Workers -> WorkerStates]
        /\ \A v \in Workers : /\ worker'[v].h <= Len(native')
                              /\ worker'[v].h # 0 => worker'[v].batch # <<>> /\ Head(worker'[v].batch) \in Texts
    BY <2>1, <2>4, RestSessions
  <2>6. /\ drain' \in [Drains -> DrainStates] /\ overlapped' \in BOOLEAN
        /\ \/ UNCHANGED drain
           \/ \E d \in Drains : /\ drain'[d].h = recv' /\ drain'[d].todo = pending /\ drain'[d].failed = <<>>
                                /\ drain'[d].shared /\ pending # <<>>
                                /\ \A c \in Drains : c # d => drain'[c] = drain[c]
    BY <2>1, <2>4, StartShape
  <2>7. TypeOK'
    BY <1>t, <2>1, <2>3, <2>4, <2>5, <2>6 DEF TypeOK
  <2>8. BoundInv'
    <3>1. Len(pending) + Len(<<>>) <= Len(pending)
      BY <1>t DEF TypeOK
    <3> QED
      BY <1>t, <2>1, <2>6, <3>1 DEF BoundInv
  <2>9. \A d \in Drains : drain'[d] = Idle \/ drain'[d].h \in 1..Len(native')
    <3>1. 1..Len(native) \subseteq 1..Len(native')
      BY <1>n, <2>4
    <3> QED
      BY <1>t, <2>4, <2>6, <3>1 DEF SessionInv
  <2>10. SessionInv'
    BY <2>4, <2>5, <2>9 DEF SessionInv, Head1
  <2> QED
    BY <2>7, <2>8, <2>10 DEF CoreInv
<1>g. ASSUME NEW w \in Workers, NEW n \in 1..2, NEW s \in [1..n -> Envelopes], IngestEnvelopes(w, s)
      PROVE  CoreInv'
  <2>1. PICK b \in Prepared(s) : worker' = [worker EXCEPT ![w].batch = b]
    BY <1>g DEF IngestEnvelopes
  <2>2. b \in Seq(Envelopes)
    BY PreparedShape
  <2>3. /\ worker[w].batch = <<>>
        /\ copies' = [e \in Envelopes |-> IF e \in Range1(s) THEN copies[e] + 1 ELSE copies[e]]
        /\ \A e \in Range1(s) : copies[e] < MaxCopies
        /\ UNCHANGED <<posOf, recv, native, pending, drain, rows, holders, settled, dropped, evicted, overlapped>>
    BY <1>g DEF IngestEnvelopes, storeVars, Range1
  <2>4. copies' \in [Envelopes -> 0..MaxCopies]
    <3>1. \A e \in Envelopes : copies[e] \in 0..MaxCopies
      BY <1>t DEF TypeOK
    <3>2. \A e \in Envelopes : (IF e \in Range1(s) THEN copies[e] + 1 ELSE copies[e]) \in 0..MaxCopies
      BY <2>3, <3>1, IngestAssumption
    <3> QED
      BY <2>3, <3>2
  <2>5. worker[w].h = 0
    BY <1>t, <2>3 DEF SessionInv
  <2>6. /\ worker' \in [Workers -> WorkerStates]
        /\ worker'[w].h = 0 /\ \A v \in Workers : v # w => worker'[v] = worker[v]
    BY <1>t, <2>1, <2>2, <2>5 DEF TypeOK, WorkerStates
  <2>7. TypeOK'
    BY <1>t, <2>3, <2>4, <2>6 DEF TypeOK
  <2>8. BoundInv'
    BY <1>t, <2>3 DEF BoundInv
  <2>9. SessionInv'
    BY <1>t, <1>n, <2>3, <2>6 DEF SessionInv, Head1
  <2> QED
    BY <2>7, <2>8, <2>9 DEF CoreInv
<1>h. ASSUME NEW d \in Drains, DrainOpens(d) PROVE CoreInv'
  <2> DEFINE t == Head(drain[d].todo)
             n == [drain[d] EXCEPT !.todo = Tail(drain[d].todo), !.trying = FALSE]
  <2>1. /\ drain[d].trying /\ native' = Opened(drain[d].h, t)
        /\ rows' = (IF posOf[t] \in holders /\ t \notin Receipts
                    THEN [rows EXCEPT ![t] = rows[t] + 1] ELSE rows)
        /\ holders' = holders \ {posOf[t]}
        /\ drain' = [drain EXCEPT ![d] = n]
        /\ UNCHANGED <<posOf, recv, worker, pending, copies, settled, dropped, evicted, overlapped>>
    BY <1>h DEF DrainOpens, historyVars
  <2>2. /\ drain[d] \in DrainStates /\ drain[d] # Idle /\ drain[d].h \in 1..Len(native)
        /\ drain[d].todo \in Seq(Texts) /\ drain[d].todo # <<>>
    BY <2>1, DrainFacts
  <2>3. t \in Texts /\ Tail(drain[d].todo) \in Seq(Texts) /\ Len(Tail(drain[d].todo)) = Len(drain[d].todo) - 1
        /\ Len(drain[d].todo) \in Nat \ {0}
    BY <2>2, Shifted
  <2>4. n \in DrainStates /\ n.h = drain[d].h /\ n.todo = Tail(drain[d].todo) /\ n.failed = drain[d].failed
        /\ n.shared = drain[d].shared /\ n.trying = FALSE
    BY <2>2, <2>3 DEF DrainStates
  <2> HIDE DEF n, t
  <2>5. drain' \in [Drains -> DrainStates] /\ drain'[d] = n /\ \A c \in Drains : c # d => drain'[c] = drain[c]
    BY <1>t, <2>1, <2>4 DEF TypeOK
  <2>6. native' \in Seq(Sessions) /\ Len(native') = Len(native)
    BY <2>1, <2>2, <2>3, OpenedShape
  <2>7. rows' \in [Texts -> Nat]
    BY <1>t, <2>1, <2>3 DEF TypeOK
  <2>8. TypeOK'
    BY <1>t, <2>1, <2>5, <2>6, <2>7 DEF TypeOK
  <2>9. SessionInv'
    BY <1>t, <2>1, <2>2, <2>4, <2>5, <2>6 DEF SessionInv, Head1
  <2>10. BoundInv'
    <3>1. Len(drain[d].todo) + Len(drain[d].failed) <= IF drain[d].shared THEN Len(pending) ELSE Limit
      BY <1>t DEF BoundInv
    <3>2. Len(drain[d].failed) \in Nat /\ Len(pending) \in Nat
      BY <1>t, <2>2 DEF DrainStates, TypeOK
    <3>3. Len(n.todo) + Len(n.failed) <= IF drain[d].shared THEN Len(pending) ELSE Limit
      <4> DEFINE m == Len(drain[d].todo)
                 k == Len(drain[d].failed)
                 b == IF drain[d].shared THEN Len(pending) ELSE Limit
      <4>1. m \in Nat \ {0} /\ k \in Nat /\ b \in Nat /\ m + k <= b /\ Len(n.todo) = m - 1 /\ Len(n.failed) = k
        BY <1>n, <2>3, <2>4, <3>1, <3>2
      <4> HIDE DEF m, k, b
      <4>2. Len(n.todo) + Len(n.failed) <= b
        BY <4>1
      <4> QED
        BY <4>2 DEF b
    <3> QED
      BY <1>t, <2>1, <2>4, <2>5, <3>3 DEF BoundInv
  <2> QED
    BY <2>8, <2>9, <2>10 DEF CoreInv
<1>i. ASSUME NEW d \in Drains, DrainFails(d) \/ DrainSaved(d) PROVE CoreInv'
  <2>0. UNCHANGED <<posOf, recv, native, worker, rows, holders, copies, settled, dropped, evicted, overlapped>>
    BY <1>i DEF DrainFails, DrainSaved, storeVars, historyVars
  <2>1. /\ drain[d] \in DrainStates /\ drain[d] # Idle /\ drain[d].h \in 1..Len(native)
        /\ drain[d].todo \in Seq(Texts) /\ drain[d].failed \in Seq(Texts)
        /\ Len(drain[d].todo) \in Nat /\ Len(drain[d].failed) \in Nat
        /\ Len(drain[d].todo) + Len(drain[d].failed) <= Limit
        /\ drain[d].trying => drain[d].todo # <<>>
    BY <1>i, DrainFacts DEF DrainFails, DrainSaved
  <2>2. ASSUME NEW f \in Seq(Texts), Len(f) <= Limit, Finish(d, f) PROVE CoreInv'
    <3>1. TypeOK'
      BY <1>t, <2>0, <2>2, FinishShape DEF TypeOK
    <3>2. \A c \in Drains : drain'[c] = Idle \/ drain'[c].h \in 1..Len(native')
      BY <1>t, <2>0, <2>2, FinishShape DEF SessionInv
    <3>3. SessionInv'
      BY <1>t, <2>0, <3>2 DEF SessionInv, Head1
    <3>4. BoundInv'
      BY <2>2, FinishShape DEF BoundInv
    <3> QED
      BY <3>1, <3>3, <3>4 DEF CoreInv
  <2>3. ASSUME NEW n \in DrainStates, n.h = drain[d].h, n.shared = drain[d].shared,
               Len(n.todo) + Len(n.failed) = Len(drain[d].todo) + Len(drain[d].failed),
               n.trying => n.todo # <<>>,
               drain' = [drain EXCEPT ![d] = n], UNCHANGED pending
        PROVE  CoreInv'
    <3>1. drain' \in [Drains -> DrainStates] /\ drain'[d] = n /\ \A c \in Drains : c # d => drain'[c] = drain[c]
      BY <1>t, <2>3 DEF TypeOK
    <3>2. TypeOK'
      BY <1>t, <2>0, <2>3, <3>1 DEF TypeOK
    <3>3. SessionInv'
      BY <1>t, <2>0, <2>1, <2>3, <3>1 DEF SessionInv, Head1
    <3>4. BoundInv'
      BY <1>t, <2>0, <2>3, <3>1 DEF BoundInv
    <3> QED
      BY <3>2, <3>3, <3>4 DEF CoreInv
  <2>4. CASE DrainFails(d)
    <3> DEFINE f == Append(drain[d].failed, Head(drain[d].todo))
    <3>1. drain[d].trying /\ drain[d].todo # <<>>
      BY <2>1, <2>4 DEF DrainFails
    <3>2. /\ Head(drain[d].todo) \in Texts /\ Tail(drain[d].todo) \in Seq(Texts)
          /\ Len(Tail(drain[d].todo)) = Len(drain[d].todo) - 1 /\ Len(drain[d].todo) \in Nat \ {0}
      BY <2>1, <3>1, Shifted
    <3>3. f \in Seq(Texts) /\ Len(f) = Len(drain[d].failed) + 1
      BY <2>1, <3>2, Pushed
    <3>4. CASE Len(drain[d].todo) = 1
      <4>1. Finish(d, f)
        BY <2>4, <3>4 DEF DrainFails
      <4>2. Len(f) <= Limit
        BY <2>1, <3>3, <3>4
      <4> QED
        BY <2>2, <3>3, <4>1, <4>2
    <3>5. CASE Len(drain[d].todo) # 1
      <4> DEFINE n == [drain[d] EXCEPT !.todo = Tail(drain[d].todo), !.failed = f]
      <4>1. drain' = [drain EXCEPT ![d] = n] /\ UNCHANGED pending
        BY <2>4, <3>5 DEF DrainFails
      <4> HIDE DEF f
      <4>2. n \in DrainStates /\ n.h = drain[d].h /\ n.shared = drain[d].shared
            /\ n.todo = Tail(drain[d].todo) /\ n.failed = f
        BY <2>1, <3>2, <3>3 DEF DrainStates
      <4> HIDE DEF n
      <4>3. Len(n.todo) + Len(n.failed) = Len(drain[d].todo) + Len(drain[d].failed)
        <5> DEFINE m == Len(drain[d].todo)
                   k == Len(drain[d].failed)
        <5>1. m \in Nat \ {0} /\ k \in Nat /\ Len(n.todo) = m - 1 /\ Len(n.failed) = k + 1
          BY <2>1, <3>2, <3>3, <4>2
        <5> HIDE DEF m, k
        <5>2. Len(n.todo) + Len(n.failed) = m + k
          BY <5>1
        <5> QED
          BY <5>2 DEF m, k
      <4>4. n.todo # <<>>
        <5>1. Len(n.todo) # 0
          BY <3>2, <3>5, <4>2
        <5> QED
          BY <5>1
      <4> QED
        BY <2>3, <4>1, <4>2, <4>3, <4>4
    <3> QED
      BY <3>4, <3>5
  <2>5. CASE DrainSaved(d)
    <3>1. CASE drain[d].todo = <<>>
      <4>1. Finish(d, drain[d].failed)
        BY <2>5, <3>1 DEF DrainSaved
      <4>2. Len(drain[d].failed) <= Limit
        <5> DEFINE m == Len(drain[d].todo)
                   k == Len(drain[d].failed)
        <5>1. m \in Nat /\ k \in Nat /\ m + k <= Limit
          BY <2>1
        <5> HIDE DEF m, k
        <5>2. k <= Limit
          BY <1>n, <5>1
        <5> QED
          BY <5>2 DEF k
      <4> QED
        BY <2>1, <2>2, <4>1, <4>2
    <3>2. CASE drain[d].todo # <<>>
      <4> DEFINE n == [drain[d] EXCEPT !.trying = TRUE]
      <4>1. drain' = [drain EXCEPT ![d] = n] /\ UNCHANGED pending
        BY <2>5, <3>2 DEF DrainSaved
      <4>2. n \in DrainStates /\ n.h = drain[d].h /\ n.shared = drain[d].shared
            /\ n.todo = drain[d].todo /\ n.failed = drain[d].failed
        BY <2>1 DEF DrainStates
      <4> HIDE DEF n
      <4> QED
        BY <2>3, <3>2, <4>1, <4>2
    <3> QED
      BY <3>1, <3>2
  <2> QED
    BY <1>i, <2>4, <2>5
<1>j. CASE DeleteConversation
  <2>1. /\ recv' = 0 /\ pending' = <<>>
        /\ drain' = [d \in Drains |-> [drain[d] EXCEPT !.shared = FALSE]]
        /\ rows' = [t \in Texts |-> 0] /\ holders' = {} /\ settled' = {}
        /\ overlapped' = (overlapped \/ Running # {})
        /\ UNCHANGED <<posOf, native, worker, copies, dropped, evicted>>
    BY <1>j DEF DeleteConversation
  <2>2. ASSUME NEW d \in Drains
        PROVE  /\ drain'[d] \in DrainStates
               /\ drain'[d].h = drain[d].h /\ drain'[d].todo = drain[d].todo
               /\ drain'[d].failed = drain[d].failed /\ drain'[d].trying = drain[d].trying
               /\ drain'[d].shared = FALSE
               /\ drain[d] = Idle => drain'[d] = Idle
    <3>1. drain'[d] = [drain[d] EXCEPT !.shared = FALSE] /\ drain[d] \in DrainStates
      BY <1>t, <2>1 DEF TypeOK
    <3>2. drain[d] = Idle => drain'[d] = Idle
      BY <3>1, IdleStays
    <3>3. /\ drain'[d] \in DrainStates
          /\ drain'[d].h = drain[d].h /\ drain'[d].todo = drain[d].todo
          /\ drain'[d].failed = drain[d].failed /\ drain'[d].trying = drain[d].trying
          /\ drain'[d].shared = FALSE
      BY <3>1 DEF DrainStates
    <3> QED
      BY <3>2, <3>3
  <2>3. drain' \in [Drains -> DrainStates]
    BY <2>1, <2>2
  <2>4. <<>> \in Seq(Texts) /\ Len(<<>>) <= Limit /\ 0 \in 0..MaxSessions
    BY <1>n
  <2>5. TypeOK'
    BY <1>t, <2>1, <2>3, <2>4 DEF TypeOK
  <2>6. SessionInv'
    <3>1. \A d \in Drains : drain'[d] = Idle \/ drain'[d].h \in 1..Len(native)
      BY <1>t, <2>2 DEF SessionInv
    <3>2. recv' <= Len(native)
      BY <1>n, <2>1
    <3> QED
      BY <1>t, <2>1, <3>1, <3>2 DEF SessionInv, Head1
  <2>7. BoundInv'
    <3> SUFFICES ASSUME NEW d \in Drains
                 PROVE  /\ Len(drain[d].todo) + Len(drain[d].failed) <= Limit
                        /\ drain[d].trying => drain[d].todo # <<>>
      BY <2>2 DEF BoundInv
    <3>1. CASE drain[d] = Idle
      <4>1. Idle.todo = <<>> /\ Idle.failed = <<>> /\ Idle.trying = FALSE
        BY DEF Idle
      <4>2. Len(<<>>) + Len(<<>>) <= Limit
        BY <1>n
      <4> QED
        BY <3>1, <4>1, <4>2
    <3>2. CASE drain[d] # Idle
      BY <3>2, DrainFacts
    <3> QED
      BY <3>1, <3>2
  <2> QED
    BY <2>5, <2>6, <2>7 DEF CoreInv
<1>k. CASE UNCHANGED vars
  BY <1>t, <1>k DEF CoreInv, TypeOK, SessionInv, BoundInv, Head1, Idle, vars, storeVars, historyVars
<1> QED
  BY <1>b, <1>c, <1>d, <1>e, <1>f, <1>g, <1>h, <1>i, <1>j, <1>k DEF Next, Work

LEMMA CoreHolds == Spec => []CoreInv
<1>1. Init => CoreInv
  <2> SUFFICES ASSUME Init PROVE CoreInv
    OBVIOUS
  <2>1. Idle \in DrainStates /\ Idle.todo = <<>> /\ Idle.failed = <<>> /\ Idle.shared = FALSE /\ Idle.trying = FALSE
    BY IngestAssumption DEF Idle, DrainStates
  <2>2. [batch |-> <<>>, h |-> 0] \in WorkerStates
    BY IngestAssumption DEF WorkerStates
  <2>3. <<>> \in Seq(Sessions) /\ <<>> \in Seq(Texts) /\ Len(<<>>) = 0 /\ 0 \in 0..MaxSessions /\ 0 \in 0..MaxCopies
    BY IngestAssumption
  <2>4. TypeOK
    <3>1. worker \in [Workers -> WorkerStates] /\ drain \in [Drains -> DrainStates]
      BY <2>1, <2>2 DEF Init
    <3>2. rows \in [Texts -> Nat] /\ copies \in [Envelopes -> 0..MaxCopies]
      BY <2>3 DEF Init
    <3>3. Len(<<>>) <= Limit
      BY <2>3, IngestAssumption
    <3> QED
      BY <2>3, <3>1, <3>2, <3>3 DEF Init, TypeOK
  <2>5. SessionInv
    BY <2>3, IngestAssumption DEF Init, SessionInv
  <2>6. BoundInv
    <3>1. \A d \in Drains : drain[d] = Idle
      BY DEF Init
    <3>2. Len(<<>>) + Len(<<>>) <= Limit
      BY IngestAssumption
    <3> QED
      BY <2>1, <3>1, <3>2 DEF BoundInv
  <2> QED
    BY <2>4, <2>5, <2>6 DEF CoreInv
<1> QED
  BY <1>1, CoreStep, PTL DEF Spec

\* Every handle names a session that was accepted, and the buffer of a peer
\* never holds more than PENDING_DECRYPT_LIMIT_PER_PEER texts, although a drain
\* replaces it by what it failed to open.
THEOREM TypesHold == Spec => []TypeOK
<1>1. CoreInv => TypeOK
  BY DEF CoreInv
<1> QED
  BY <1>1, CoreHolds, PTL

-----------------------------------------------------------------------------
(***************************************************************************)
(* A trace of every text.  The invariant is inductive: a drain that swaps  *)
(* a placeholder out puts a message of the same position in, or was        *)
(* opening a receipt.                                                      *)
(***************************************************************************)
\* The steps that touch neither the rows nor the texts that ended.
Elsewhere == UNCHANGED <<posOf, rows, holders, settled, dropped>>

\* A text that opens does so on a session that was accepted.
LEMMA OpensOn ==
    ASSUME CoreInv, NEW w \in Workers, TextOpens(w)
    PROVE  worker[w].h \in 1..Len(native) /\ Head1(w) \in Texts
<1>1. worker[w].h # 0 /\ worker[w].h \in Nat /\ worker[w].h <= Len(native) /\ Len(native) \in Nat
  BY IngestAssumption DEF TextOpens, CoreInv, SessionInv, TypeOK, WorkerStates
<1> QED
  BY <1>1, TextShape

\* Every step is one of these.
LEMMA StepKinds ==
    ASSUME CoreInv, [Next]_vars
    PROVE  \/ Elsewhere /\ UNCHANGED evicted /\ (native' = native \/ \E w \in Workers : KeyExchangeAccepted(w))
           \/ \E w \in Workers : TextWithoutSession(w) \/ TextFails(w)
           \/ \E w \in Workers : TextDropped(w)
           \/ \E w \in Workers : TextOpens(w)
           \/ \E d \in Drains : DrainOpens(d)
           \/ DeleteConversation
<1> USE DEF Elsewhere, storeVars, historyVars
<1>1. ASSUME NEW w \in Workers, NEW n \in 1..2, NEW s \in [1..n -> Envelopes], IngestEnvelopes(w, s)
      PROVE  Elsewhere /\ UNCHANGED <<evicted, native>>
  BY <1>1 DEF IngestEnvelopes
<1>2. ASSUME NEW w \in Workers, KeyExchangeAccepted(w) PROVE Elsewhere /\ UNCHANGED evicted
  BY <1>2 DEF KeyExchangeAccepted
<1>3. ASSUME NEW w \in Workers, KeyExchangeRejected(w) \/ TextFindsSession(w)
      PROVE  Elsewhere /\ UNCHANGED <<evicted, native>>
  BY <1>3 DEF KeyExchangeRejected, TextFindsSession
<1>4. ASSUME NEW d \in Drains, DrainFails(d) \/ DrainSaved(d) PROVE Elsewhere /\ UNCHANGED <<evicted, native>>
  BY <1>4 DEF DrainFails, DrainSaved
<1>5. ASSUME UNCHANGED vars PROVE Elsewhere /\ UNCHANGED <<evicted, native>>
  BY <1>5 DEF vars
<1> HIDE DEF Elsewhere
<1> QED
  BY <1>1, <1>2, <1>3, <1>4, <1>5 DEF Next, Work

LEMMA TraceStep == CoreInv /\ NothingVanishes /\ [Next]_vars => NothingVanishes'
<1> SUFFICES ASSUME CoreInv, NothingVanishes, [Next]_vars,
                    NEW t \in settled', t \notin dropped', Namesakes(t)' \cap Receipts = {}
             PROVE  posOf'[t] \in holders' \/ \E u \in Namesakes(t)' : rows'[u] > 0
  BY DEF NothingVanishes
<1>0. rows \in [Texts -> Nat] /\ settled \subseteq Texts
  BY DEF CoreInv, TypeOK
<1>p. posOf' = posOf /\ Namesakes(t)' = Namesakes(t) /\ Namesakes(t) \cap Receipts = {}
  <2>1. posOf' = posOf
    BY StepKinds, TextShape DEF Elsewhere, DrainOpens, DeleteConversation
  <2> QED
    BY <2>1 DEF Namesakes
<1>n. t \in settled /\ t \notin dropped => posOf[t] \in holders \/ \E u \in Namesakes(t) : rows[u] > 0
  BY <1>p DEF NothingVanishes
<1>1. CASE Elsewhere
  BY <1>1, <1>n DEF Elsewhere, Namesakes
<1>2. ASSUME NEW w \in Workers, TextWithoutSession(w) \/ TextFails(w)
      PROVE  posOf'[t] \in holders' \/ \E u \in Namesakes(t)' : rows'[u] > 0
  <2>1. settled' = settled \cup {Head1(w)} /\ UNCHANGED posOf
    BY <1>2, TextShape
  <2>2. holders' = holders \cup {posOf[Head1(w)]} /\ UNCHANGED <<rows, dropped>>
    BY <1>2 DEF TextWithoutSession, TextFails, Undecryptable
  <2> QED
    BY <1>n, <2>1, <2>2 DEF Namesakes
<1>3. ASSUME NEW w \in Workers, TextDropped(w)
      PROVE  posOf'[t] \in holders' \/ \E u \in Namesakes(t)' : rows'[u] > 0
  <2>1. settled' = settled \cup {Head1(w)} /\ UNCHANGED posOf
    BY <1>3, TextShape
  <2>2. dropped' = dropped \cup {Head1(w)} /\ UNCHANGED <<rows, holders>>
    BY <1>3 DEF TextDropped, storeVars
  <2> QED
    BY <1>n, <2>1, <2>2 DEF Namesakes
<1>4. ASSUME NEW w \in Workers, TextOpens(w)
      PROVE  posOf'[t] \in holders' \/ \E u \in Namesakes(t)' : rows'[u] > 0
  <2>1. settled' = settled \cup {Head1(w)} /\ UNCHANGED posOf /\ Head1(w) \in Texts
    BY <1>4, TextShape
  <2>2. /\ rows' = (IF Head1(w) \in Receipts THEN rows
                    ELSE [rows EXCEPT ![Head1(w)] = rows[Head1(w)] + 1])
        /\ UNCHANGED <<holders, dropped>>
    BY <1>4 DEF TextOpens
  <2>3. \A u \in Texts : rows[u] > 0 \/ (u = Head1(w) /\ u \notin Receipts) => rows'[u] > 0
    BY <1>0, <2>1, <2>2
  <2>4. t = Head1(w) \/ posOf[t] \in holders \/ \E u \in Namesakes(t) : rows[u] > 0
    BY <1>n, <2>1, <2>2
  <2>5. t = Head1(w) => t \in Namesakes(t) /\ t \notin Receipts
    BY <1>p, <2>1 DEF Namesakes
  <2> QED
    BY <2>1, <2>2, <2>3, <2>4, <2>5 DEF Namesakes
<1>5. ASSUME NEW d \in Drains, DrainOpens(d)
      PROVE  posOf'[t] \in holders' \/ \E u \in Namesakes(t)' : rows'[u] > 0
  <2> DEFINE v == Head(drain[d].todo)
  <2>1. /\ drain[d].trying
        /\ rows' = (IF posOf[v] \in holders /\ v \notin Receipts
                    THEN [rows EXCEPT ![v] = rows[v] + 1] ELSE rows)
        /\ holders' = holders \ {posOf[v]}
        /\ UNCHANGED <<posOf, settled, dropped>>
    BY <1>5 DEF DrainOpens, historyVars
  <2>2. v \in Texts
    BY <2>1, DrainFacts, Shifted
  <2> HIDE DEF v
  <2>3. \A u \in Texts : rows[u] > 0 \/ (u = v /\ posOf[v] \in holders /\ v \notin Receipts)
                         => rows'[u] > 0
    BY <1>0, <2>1, <2>2
  <2>4. posOf[t] \in holders \/ \E u \in Namesakes(t) : rows[u] > 0
    BY <1>n, <2>1
  <2>5. posOf[v] = posOf[t] => v \in Namesakes(t) /\ v \notin Receipts
    BY <1>p, <2>2 DEF Namesakes
  <2> QED
    BY <2>1, <2>2, <2>3, <2>4, <2>5 DEF Namesakes
<1>6. CASE DeleteConversation
  BY <1>6 DEF DeleteConversation
<1> QED
  BY <1>1, <1>2, <1>3, <1>4, <1>5, <1>6, StepKinds

\* Whatever handshakes, retries, duplicate deliveries and overflows happen, a
\* text that reached the device leaves a message or a placeholder.
THEOREM TextsLeaveATrace == Spec => []NothingVanishes
<1>1. Init => NothingVanishes
  BY DEF Init, NothingVanishes
<1> QED
  BY <1>1, CoreHolds, TraceStep, PTL DEF Spec

-----------------------------------------------------------------------------
(***************************************************************************)
(* Once.  Two rows of a text were opened by two sessions of its            *)
(* generation (RowInv), and two sessions, or two copies in hand, of one    *)
(* envelope were handed out twice (CopyInv).  A text without a namesake    *)
(* that came once is still to be ingested, or behind its placeholder, or   *)
(* shown (OnceInv).                                                        *)
(***************************************************************************)
RowInv ==
    \A t \in Texts :
        /\ \A h \in DOMAIN native : t \in native[h].opened => native[h].gen = GenOf[t]
        /\ rows[t] > 0 => \E h \in DOMAIN native : t \in native[h].opened
        /\ rows[t] > 1 => \E h, k \in DOMAIN native :
                              h # k /\ t \in native[h].opened /\ t \in native[k].opened

\* A session opens a text it has not opened before, and a row is added or not.
LEMMA OpenRow ==
    ASSUME CoreInv, RowInv, NEW h \in 1..Len(native), NEW t \in Texts, Opens(h, t),
           native' = Opened(h, t),
           rows' = rows \/ rows' = [rows EXCEPT ![t] = rows[t] + 1]
    PROVE  RowInv'
<1>0. rows \in [Texts -> Nat]
  BY DEF CoreInv, TypeOK
<1>1. /\ DOMAIN native' = DOMAIN native /\ DOMAIN native = 1..Len(native)
      /\ \A k \in DOMAIN native : native'[k].gen = native[k].gen
      /\ \A k \in DOMAIN native : native[k].opened \subseteq native'[k].opened
      /\ \A k \in DOMAIN native : k # h => native'[k].opened = native[k].opened
      /\ native'[h].opened = native[h].opened \cup {t}
  <2>1. /\ DOMAIN native' = DOMAIN native /\ DOMAIN native = 1..Len(native)
        /\ \A k \in 1..Len(native) :
              /\ native'[k].gen = native[k].gen
              /\ native'[k].opened = IF k = h THEN native[k].opened \cup {t} ELSE native[k].opened
    BY OpenedShape
  <2> QED
    BY <2>1
<1>2. native[h].gen = GenOf[t] /\ t \notin native[h].opened
  BY DEF Opens
<1> SUFFICES ASSUME NEW u \in Texts
             PROVE  /\ \A k \in DOMAIN native' : u \in native'[k].opened => native'[k].gen = GenOf[u]
                    /\ rows'[u] > 0 => \E k \in DOMAIN native' : u \in native'[k].opened
                    /\ rows'[u] > 1 => \E j, k \in DOMAIN native' :
                                           j # k /\ u \in native'[j].opened /\ u \in native'[k].opened
  BY DEF RowInv
<1>3. \A k \in DOMAIN native' : u \in native'[k].opened => native'[k].gen = GenOf[u]
  BY <1>1, <1>2 DEF RowInv
<1>4. CASE u = t
  <2>1. rows'[u] > 1 => rows[u] > 0
    BY <1>0
  <2>2. h \in DOMAIN native' /\ u \in native'[h].opened
    BY <1>1, <1>4
  <2>3. rows[u] > 0 => \E k \in DOMAIN native : u \in native[k].opened /\ k # h
    BY <1>2, <1>4 DEF RowInv
  <2> QED
    BY <1>1, <1>3, <2>1, <2>2, <2>3
<1>5. CASE u # t
  <2>1. rows'[u] = rows[u]
    BY <1>0, <1>5
  <2>2. /\ rows[u] > 0 => \E k \in DOMAIN native : u \in native[k].opened
        /\ rows[u] > 1 => \E j, k \in DOMAIN native :
                              j # k /\ u \in native[j].opened /\ u \in native[k].opened
    BY DEF RowInv
  <2> QED
    BY <1>1, <1>3, <2>1, <2>2
<1> QED
  BY <1>4, <1>5

LEMMA RowStep == CoreInv /\ RowInv /\ [Next]_vars => RowInv'
<1> SUFFICES ASSUME CoreInv, RowInv, [Next]_vars PROVE RowInv'
  OBVIOUS
<1>n. native \in Seq(Sessions) /\ DOMAIN native = 1..Len(native) /\ Len(native) \in Nat
  BY DEF CoreInv, TypeOK
<1>1. CASE UNCHANGED <<rows, native>>
  BY <1>1 DEF RowInv
<1>2. ASSUME NEW w \in Workers, KeyExchangeAccepted(w) PROVE RowInv'
  <2> DEFINE e == [gen |-> Head1(w), opened |-> {}]
  <2>1. native' = Append(native, e) /\ UNCHANGED rows /\ Head1(w) \in Gens
    BY <1>2 DEF KeyExchangeAccepted, storeVars
  <2>2. e \in Sessions /\ e.opened = {}
    BY <2>1 DEF Sessions
  <2> HIDE DEF e
  <2>3. /\ DOMAIN native' = 1..(Len(native) + 1)
        /\ \A k \in 1..Len(native) : native'[k] = native[k]
        /\ native'[Len(native) + 1] = e
    BY <1>n, <2>1, <2>2
  <2>4. \A k \in DOMAIN native' : (k \in DOMAIN native /\ native'[k] = native[k]) \/ native'[k].opened = {}
    BY <1>n, <2>2, <2>3
  <2>5. \A k \in DOMAIN native : k \in DOMAIN native' /\ native'[k] = native[k]
    BY <1>n, <2>3
  <2> QED
    BY <2>1, <2>4, <2>5 DEF RowInv
<1>3. ASSUME NEW w \in Workers, TextOpens(w) PROVE RowInv'
  <2>1. worker[w].h \in 1..Len(native) /\ Head1(w) \in Texts
    BY <1>3, OpensOn
  <2>2. /\ Opens(worker[w].h, Head1(w)) /\ native' = Opened(worker[w].h, Head1(w))
        /\ rows' = rows \/ rows' = [rows EXCEPT ![Head1(w)] = rows[Head1(w)] + 1]
    BY <1>3 DEF TextOpens
  <2> QED
    BY <2>1, <2>2, OpenRow
<1>4. ASSUME NEW d \in Drains, DrainOpens(d) PROVE RowInv'
  <2>1. drain[d].trying /\ drain[d].h \in 1..Len(native) /\ drain[d].todo \in Seq(Texts) /\ drain[d].todo # <<>>
    BY <1>4, DrainFacts DEF DrainOpens
  <2>2. Head(drain[d].todo) \in Texts
    BY <2>1, Shifted
  <2>3. /\ Opens(drain[d].h, Head(drain[d].todo)) /\ native' = Opened(drain[d].h, Head(drain[d].todo))
        /\ rows' = rows \/ rows' = [rows EXCEPT ![Head(drain[d].todo)] = rows[Head(drain[d].todo)] + 1]
    BY <1>4 DEF DrainOpens
  <2> QED
    BY <2>1, <2>2, <2>3, OpenRow
<1>5. CASE DeleteConversation
  <2>1. native' = native /\ rows' = [t \in Texts |-> 0]
    BY <1>5 DEF DeleteConversation
  <2>2. \A t \in Texts : ~(rows'[t] > 0) /\ ~(rows'[t] > 1)
    BY <2>1
  <2> QED
    BY <2>1, <2>2 DEF RowInv
<1>6. ASSUME NEW w \in Workers, TextWithoutSession(w) \/ TextFails(w) \/ TextDropped(w)
      PROVE  UNCHANGED <<rows, native>>
  BY <1>6 DEF TextWithoutSession, TextFails, TextDropped, Undecryptable, storeVars
<1>7. Elsewhere => UNCHANGED rows
  BY DEF Elsewhere
<1> QED
  BY <1>1, <1>2, <1>3, <1>4, <1>5, <1>6, <1>7, StepKinds

\* An envelope in the hands of a worker or a session was handed out, and two
\* of one kind were handed out twice.
CopyInv ==
    /\ \A h \in DOMAIN native : copies[native[h].gen] > 0
    /\ \A w \in Workers : \A i \in DOMAIN worker[w].batch : copies[worker[w].batch[i]] > 0
    /\ \A h, k \in DOMAIN native : h # k /\ native[h].gen = native[k].gen => copies[native[h].gen] > 1
    /\ \A w, v \in Workers : \A i \in DOMAIN worker[w].batch, j \in DOMAIN worker[v].batch :
          (w # v \/ i # j) /\ worker[w].batch[i] = worker[v].batch[j] => copies[worker[w].batch[i]] > 1
    /\ \A h \in DOMAIN native : \A w \in Workers : \A i \in DOMAIN worker[w].batch :
          native[h].gen = worker[w].batch[i] => copies[native[h].gen] > 1

\* Where an envelope of the batch that is left was before.
LEMMA RestIndex ==
    ASSUME CoreInv, NEW w \in Workers, worker[w].batch # <<>>, worker' = Rest(w)
    PROVE  /\ 1 \in DOMAIN worker[w].batch /\ worker[w].batch[1] = Head1(w)
           /\ \A i \in DOMAIN worker'[w].batch : /\ i \in Nat \ {0} /\ i + 1 \in DOMAIN worker[w].batch
                                                 /\ worker'[w].batch[i] = worker[w].batch[i + 1]
           /\ \A v \in Workers : v # w => worker'[v].batch = worker[v].batch
<1>1. worker[w].batch \in Seq(Envelopes)
  BY DEF CoreInv, TypeOK, WorkerStates
<1>2. worker'[w].batch = Tail(worker[w].batch) /\ \A v \in Workers : v # w => worker'[v].batch = worker[v].batch
  BY RestShape
<1>3. Tail(worker[w].batch) \in Seq(Envelopes)
  BY <1>1, Shifted
<1>4. \A i \in DOMAIN Tail(worker[w].batch) : i \in Nat \ {0}
  BY <1>3
<1> QED
  BY <1>1, <1>2, <1>4, Shifted DEF Head1

\* A worker that goes on gives an envelope up, to no one or to a session.
LEMMA RestCopies ==
    ASSUME CoreInv, CopyInv, NEW w \in Workers, worker[w].batch # <<>>, worker' = Rest(w), UNCHANGED copies,
           \/ /\ DOMAIN native' = DOMAIN native
              /\ \A h \in DOMAIN native : native'[h].gen = native[h].gen
           \/ \E n \in DOMAIN native' :
                 /\ native'[n].gen = Head1(w)
                 /\ \A h \in DOMAIN native' : h # n => h \in DOMAIN native /\ native'[h].gen = native[h].gen
    PROVE  CopyInv'
<1> DEFINE old(v, i) == IF v = w THEN i + 1 ELSE i
<1>1. /\ 1 \in DOMAIN worker[w].batch /\ worker[w].batch[1] = Head1(w)
      /\ \A v \in Workers : \A i \in DOMAIN worker'[v].batch :
            /\ old(v, i) \in DOMAIN worker[v].batch
            /\ worker'[v].batch[i] = worker[v].batch[old(v, i)]
            /\ v # w \/ old(v, i) # 1
  BY RestIndex
<1>2. \A v \in Workers : \A i, j \in DOMAIN worker'[v].batch : i # j => old(v, i) # old(v, j)
  BY RestIndex
<1> HIDE DEF old
<1>3. /\ \A v \in Workers : \A i \in DOMAIN worker'[v].batch : copies[worker'[v].batch[i]] > 0
      /\ \A u, v \in Workers : \A i \in DOMAIN worker'[u].batch, j \in DOMAIN worker'[v].batch :
            (u # v \/ i # j) /\ worker'[u].batch[i] = worker'[v].batch[j] => copies[worker'[u].batch[i]] > 1
  BY <1>1, <1>2 DEF CopyInv
<1>4. CASE /\ DOMAIN native' = DOMAIN native
           /\ \A h \in DOMAIN native : native'[h].gen = native[h].gen
  BY <1>1, <1>3, <1>4 DEF CopyInv
<1>5. ASSUME NEW n \in DOMAIN native', native'[n].gen = Head1(w),
             \A h \in DOMAIN native' : h # n => h \in DOMAIN native /\ native'[h].gen = native[h].gen
      PROVE  CopyInv'
  <2>1. \A h \in DOMAIN native' : copies[native'[h].gen] > 0
    BY <1>1, <1>5 DEF CopyInv
  <2>2. \A h, k \in DOMAIN native' : h # k /\ native'[h].gen = native'[k].gen => copies[native'[h].gen] > 1
    <3> SUFFICES ASSUME NEW h \in DOMAIN native', NEW k \in DOMAIN native', h # k,
                        native'[h].gen = native'[k].gen
                 PROVE  copies[native'[h].gen] > 1
      OBVIOUS
    <3>1. CASE h # n /\ k # n
      BY <1>5, <3>1 DEF CopyInv
    <3>2. CASE h = n
      <4>1. k \in DOMAIN native /\ native[k].gen = worker[w].batch[1]
        BY <1>1, <1>5, <3>2
      <4>2. copies[native[k].gen] > 1
        BY <1>1, <4>1 DEF CopyInv
      <4> QED
        BY <1>5, <3>2, <4>2
    <3>3. CASE k = n
      <4>1. h \in DOMAIN native /\ native[h].gen = worker[w].batch[1]
        BY <1>1, <1>5, <3>3
      <4>2. copies[native[h].gen] > 1
        BY <1>1, <4>1 DEF CopyInv
      <4> QED
        BY <1>5, <3>3, <4>2
    <3> QED
      BY <3>1, <3>2, <3>3
  <2>3. \A h \in DOMAIN native' : \A v \in Workers : \A i \in DOMAIN worker'[v].batch :
            native'[h].gen = worker'[v].batch[i] => copies[native'[h].gen] > 1
    <3> SUFFICES ASSUME NEW h \in DOMAIN native', NEW v \in Workers, NEW i \in DOMAIN worker'[v].batch,
                        native'[h].gen = worker'[v].batch[i]
                 PROVE  copies[native'[h].gen] > 1
      OBVIOUS
    <3> DEFINE j == old(v, i)
    <3>1. j \in DOMAIN worker[v].batch /\ worker'[v].batch[i] = worker[v].batch[j] /\ (v # w \/ j # 1)
      BY <1>1
    <3> HIDE DEF j
    <3>2. CASE h # n
      BY <1>5, <3>1, <3>2 DEF CopyInv
    <3>3. CASE h = n
      <4>1. worker[v].batch[j] = worker[w].batch[1]
        BY <1>1, <1>5, <3>1, <3>3
      <4> QED
        BY <1>1, <1>5, <3>1, <3>3, <4>1 DEF CopyInv
    <3> QED
      BY <3>2, <3>3
  <2> QED
    BY <1>3, <2>1, <2>2, <2>3 DEF CopyInv
<1> QED
  BY <1>4, <1>5

\* Steps that leave the batches and the generations of the sessions alone.
LEMMA SameCopies ==
    ASSUME CopyInv, UNCHANGED copies,
           DOMAIN native' = DOMAIN native, \A h \in DOMAIN native : native'[h].gen = native[h].gen,
           \A w \in Workers : worker'[w].batch = worker[w].batch
    PROVE  CopyInv'
BY DEF CopyInv

LEMMA CopyStep == CoreInv /\ CopyInv /\ [Next]_vars => CopyInv'
<1> SUFFICES ASSUME CoreInv, CopyInv, [Next]_vars PROVE CopyInv'
  OBVIOUS
<1>n. /\ native \in Seq(Sessions) /\ DOMAIN native = 1..Len(native) /\ Len(native) \in Nat
      /\ worker \in [Workers -> WorkerStates] /\ copies \in [Envelopes -> 0..MaxCopies]
  BY DEF CoreInv, TypeOK
<1>1. ASSUME NEW w \in Workers, NEW n \in 1..2, NEW s \in [1..n -> Envelopes], IngestEnvelopes(w, s)
      PROVE  CopyInv'
  <2>1. PICK b \in Prepared(s) : worker' = [worker EXCEPT ![w].batch = b]
    BY <1>1 DEF IngestEnvelopes
  <2>2. /\ worker[w].batch = <<>> /\ \A i, j \in DOMAIN s : s[i] = s[j] => i = j
        /\ copies' = [e \in Envelopes |-> IF e \in Range1(s) THEN copies[e] + 1 ELSE copies[e]]
        /\ UNCHANGED native
    BY <1>1 DEF IngestEnvelopes
  <2>3. /\ DOMAIN b = 1..n /\ Range1(b) \subseteq Range1(s) /\ b \in Seq(Envelopes)
        /\ \A i, j \in DOMAIN b : b[i] = b[j] => i = j
    BY <2>2, PreparedShape
  <2>4. /\ worker'[w].batch = b
        /\ \A v \in Workers : v # w => worker'[v].batch = worker[v].batch
    BY <1>n, <2>1 DEF WorkerStates
  <2>5. /\ \A e \in Envelopes : copies[e] \in Nat /\ copies'[e] \in Nat /\ copies'[e] >= copies[e]
        /\ \A e \in Envelopes : copies[e] > 0 => copies'[e] > 0
        /\ \A e \in Envelopes : copies[e] > 1 => copies'[e] > 1
        /\ \A e \in Envelopes : e \in Range1(s) => copies'[e] > 0
        /\ \A e \in Envelopes : e \in Range1(s) /\ copies[e] > 0 => copies'[e] > 1
    <3>1. \A e \in Envelopes : copies[e] \in Nat
      BY <1>n, IngestAssumption
    <3>2. \A e \in Envelopes : copies'[e] = copies[e] + 1 \/ (e \notin Range1(s) /\ copies'[e] = copies[e])
      BY <2>2
    <3> QED
      BY <3>1, <3>2
  <2>6. \A h \in DOMAIN native : native[h].gen \in Envelopes
    <3>1. \A h \in 1..Len(native) : native[h] \in Sessions
      BY <1>n
    <3>2. \A e \in Sessions : e.gen \in Envelopes
      BY DEF Sessions, Envelopes
    <3> QED
      BY <1>n, <3>1, <3>2
  <2>7. \A v \in Workers : \A i \in DOMAIN worker[v].batch : worker[v].batch[i] \in Envelopes
    <3>1. \A v \in Workers : worker[v].batch \in Seq(Envelopes)
      BY <1>n DEF WorkerStates
    <3> QED
      BY <3>1
  <2>8. \A i \in DOMAIN b : b[i] \in Range1(s) /\ b[i] \in Envelopes
    <3>1. \A i \in DOMAIN b : b[i] \in Envelopes
      BY <2>3
    <3> QED
      BY <2>3, <3>1 DEF Range1
  <2>9. /\ \A h \in DOMAIN native' : copies'[native'[h].gen] > 0
        /\ \A h, k \in DOMAIN native' : h # k /\ native'[h].gen = native'[k].gen => copies'[native'[h].gen] > 1
    BY <2>2, <2>5, <2>6 DEF CopyInv
  <2>10. \A v \in Workers : \A i \in DOMAIN worker'[v].batch : copies'[worker'[v].batch[i]] > 0
    BY <2>4, <2>5, <2>7, <2>8 DEF CopyInv
  <2>11. ASSUME NEW u \in Workers, NEW v \in Workers, NEW i \in DOMAIN worker'[u].batch,
                NEW j \in DOMAIN worker'[v].batch, u # v \/ i # j,
                worker'[u].batch[i] = worker'[v].batch[j]
         PROVE  copies'[worker'[u].batch[i]] > 1
    <3>1. CASE u # w /\ v # w
      BY <2>4, <2>5, <2>7, <2>11, <3>1 DEF CopyInv
    <3>2. CASE u = w /\ v = w
      BY <2>3, <2>4, <2>11, <3>2
    <3>3. CASE u = w /\ v # w
      <4>1. worker[v].batch[j] \in Range1(s) /\ copies[worker[v].batch[j]] > 0 /\ worker[v].batch[j] \in Envelopes
        BY <2>4, <2>7, <2>8, <2>11, <3>3 DEF CopyInv
      <4> QED
        BY <2>4, <2>5, <2>11, <3>3, <4>1
    <3>4. CASE u # w /\ v = w
      <4>1. worker[u].batch[i] \in Range1(s) /\ copies[worker[u].batch[i]] > 0 /\ worker[u].batch[i] \in Envelopes
        BY <2>4, <2>7, <2>8, <2>11, <3>4 DEF CopyInv
      <4> QED
        BY <2>4, <2>5, <2>11, <3>4, <4>1
    <3> QED
      BY <3>1, <3>2, <3>3, <3>4
  <2>12. ASSUME NEW h \in DOMAIN native', NEW v \in Workers, NEW i \in DOMAIN worker'[v].batch,
                native'[h].gen = worker'[v].batch[i]
         PROVE  copies'[native'[h].gen] > 1
    <3>1. h \in DOMAIN native /\ native'[h].gen = native[h].gen /\ native[h].gen \in Envelopes
      BY <2>2, <2>6
    <3>2. CASE v # w
      BY <2>4, <2>5, <2>12, <3>1, <3>2 DEF CopyInv
    <3>3. CASE v = w
      <4>1. native[h].gen \in Range1(s) /\ copies[native[h].gen] > 0
        BY <2>4, <2>8, <2>12, <3>1, <3>3 DEF CopyInv
      <4> QED
        BY <2>5, <3>1, <4>1
    <3> QED
      BY <3>2, <3>3
  <2> QED
    BY <2>9, <2>10, <2>11, <2>12 DEF CopyInv
<1>2. ASSUME NEW w \in Workers, KeyExchangeAccepted(w) PROVE CopyInv'
  <2> DEFINE e == [gen |-> Head1(w), opened |-> {}]
  <2>1. /\ native' = Append(native, e) /\ worker' = Rest(w) /\ worker[w].batch # <<>> /\ UNCHANGED copies
        /\ Head1(w) \in Gens
    BY <1>2 DEF KeyExchangeAccepted
  <2>2. e \in Sessions /\ e.gen = Head1(w)
    BY <2>1 DEF Sessions
  <2> HIDE DEF e
  <2>3. /\ DOMAIN native' = 1..(Len(native) + 1)
        /\ \A k \in 1..Len(native) : native'[k] = native[k]
        /\ native'[Len(native) + 1] = e
    BY <1>n, <2>1, <2>2
  <2>4. /\ Len(native) + 1 \in DOMAIN native' /\ native'[Len(native) + 1].gen = Head1(w)
        /\ \A h \in DOMAIN native' : h # Len(native) + 1 => h \in DOMAIN native /\ native'[h].gen = native[h].gen
    BY <1>n, <2>2, <2>3
  <2> QED
    BY <2>1, <2>4, RestCopies
<1>3. ASSUME NEW w \in Workers, KeyExchangeRejected(w) PROVE CopyInv'
  BY <1>3, RestCopies DEF KeyExchangeRejected, historyVars
<1>4. ASSUME NEW w \in Workers, TextWithoutSession(w) \/ TextDropped(w) \/ TextOpens(w) \/ TextFails(w)
      PROVE  CopyInv'
  <2>1. worker[w].batch # <<>> /\ worker' = Rest(w) /\ UNCHANGED copies /\ Head1(w) \in Texts
    BY <1>4, TextShape
  <2>2. DOMAIN native' = DOMAIN native /\ \A h \in DOMAIN native : native'[h].gen = native[h].gen
    <3>1. CASE TextOpens(w)
      <4>1. worker[w].h # 0 /\ worker[w].h \in Nat /\ worker[w].h <= Len(native)
        BY <3>1, IngestAssumption DEF TextOpens, CoreInv, SessionInv, TypeOK, WorkerStates
      <4>2. worker[w].h \in 1..Len(native)
        BY <1>n, <4>1
      <4>3. /\ DOMAIN native' = DOMAIN native
            /\ \A h \in 1..Len(native) : native'[h].gen = native[h].gen
        BY <2>1, <3>1, <4>2, OpenedShape DEF TextOpens
      <4> QED
        BY <1>n, <4>3
    <3>2. CASE TextWithoutSession(w) \/ TextDropped(w) \/ TextFails(w)
      BY <3>2 DEF TextWithoutSession, TextDropped, TextFails
    <3> QED
      BY <1>4, <3>1, <3>2
  <2> QED
    BY <2>1, <2>2, RestCopies
<1>5. ASSUME NEW w \in Workers, TextFindsSession(w) PROVE CopyInv'
  <2>1. worker' = [worker EXCEPT ![w].h = recv] /\ UNCHANGED <<native, copies>>
    BY <1>5 DEF TextFindsSession, historyVars
  <2>2. \A v \in Workers : worker'[v].batch = worker[v].batch
    BY <1>n, <2>1 DEF WorkerStates
  <2> QED
    BY <2>1, <2>2, SameCopies
<1>6. ASSUME NEW d \in Drains, DrainOpens(d) PROVE CopyInv'
  <2>1. drain[d].trying /\ drain[d].h \in 1..Len(native) /\ drain[d].todo \in Seq(Texts) /\ drain[d].todo # <<>>
    BY <1>6, DrainFacts DEF DrainOpens
  <2>2. Head(drain[d].todo) \in Texts
    BY <2>1, Shifted
  <2>3. native' = Opened(drain[d].h, Head(drain[d].todo)) /\ UNCHANGED <<worker, copies>>
    BY <1>6 DEF DrainOpens, historyVars
  <2>4. DOMAIN native' = DOMAIN native /\ \A h \in DOMAIN native : native'[h].gen = native[h].gen
    <3>1. /\ DOMAIN native' = DOMAIN native
          /\ \A h \in 1..Len(native) : native'[h].gen = native[h].gen
      BY <2>1, <2>2, <2>3, OpenedShape
    <3> QED
      BY <1>n, <3>1
  <2> QED
    BY <2>3, <2>4, SameCopies
<1>7. CASE UNCHANGED <<native, worker, copies>>
  BY <1>7, SameCopies
<1>8. ASSUME DeleteConversation \/ UNCHANGED vars \/ \E d \in Drains : DrainFails(d) \/ DrainSaved(d)
      PROVE  UNCHANGED <<native, worker, copies>>
  BY <1>8 DEF DeleteConversation, DrainFails, DrainSaved, vars, historyVars
<1> QED
  BY <1>1, <1>2, <1>3, <1>4, <1>5, <1>6, <1>7, <1>8 DEF Next, Work

\* A text with a position of its own, and the texts still to be ingested.
Sole == {t \in Texts : Namesakes(t) = {t}}
Waiting == UNION {Range1(worker[w].batch) : w \in Workers}

OnceInv ==
    \A t \in Sole : copies[t] <= 1 =>
        /\ copies[t] = 0 => rows[t] = 0 /\ posOf[t] \notin holders
        /\ rows[t] <= 1
        /\ rows[t] = 1 => t \notin Waiting /\ posOf[t] \notin holders
        /\ posOf[t] \in holders => t \notin Waiting

\* A text without namesakes shares its position with no other.
LEMMA SoleAlone ==
    ASSUME NEW t \in Sole, NEW u \in Texts, posOf[u] = posOf[t]
    PROVE  u = t
BY DEF Sole, Namesakes

\* The texts that wait, and the one that a worker is at.
LEMMA RestWaiting ==
    ASSUME CoreInv, CopyInv, NEW w \in Workers, worker[w].batch # <<>>, worker' = Rest(w)
    PROVE  /\ Waiting' \subseteq Waiting /\ Head1(w) \in Waiting
           /\ copies[Head1(w)] > 0
           /\ copies[Head1(w)] <= 1 => Head1(w) \notin Waiting'
<1>0. Head1(w) \in Envelopes
  BY RestShape
<1>1. /\ 1 \in DOMAIN worker[w].batch /\ worker[w].batch[1] = Head1(w)
      /\ \A i \in DOMAIN worker'[w].batch : /\ i \in Nat \ {0} /\ i + 1 \in DOMAIN worker[w].batch
                                            /\ worker'[w].batch[i] = worker[w].batch[i + 1]
      /\ \A v \in Workers : v # w => worker'[v].batch = worker[v].batch
  BY RestIndex
<1>2. \A v \in Workers : \A i \in DOMAIN worker'[v].batch :
          \E j \in DOMAIN worker[v].batch : worker'[v].batch[i] = worker[v].batch[j] /\ (v # w \/ j # 1)
  BY <1>1
<1>3. Waiting' \subseteq Waiting
  BY <1>2 DEF Waiting, Range1
<1>4. Head1(w) \in Waiting
  BY <1>1 DEF Waiting, Range1
<1>5. copies[Head1(w)] > 0
  BY <1>1 DEF CopyInv
<1>6. ASSUME Head1(w) \in Waiting' PROVE copies[Head1(w)] > 1
  <2>1. PICK v \in Workers : Head1(w) \in Range1(worker'[v].batch)
    BY <1>6 DEF Waiting, Range1
  <2>2. PICK i \in DOMAIN worker'[v].batch : worker'[v].batch[i] = Head1(w)
    BY <2>1 DEF Range1
  <2>3. PICK j \in DOMAIN worker[v].batch : worker[v].batch[j] = Head1(w) /\ (v # w \/ j # 1)
    BY <1>2, <2>2
  <2> QED
    BY <1>1, <2>3 DEF CopyInv
<1>7. copies[Head1(w)] \in Nat
  BY <1>0, IngestAssumption DEF CoreInv, TypeOK
<1>8. copies[Head1(w)] <= 1 => ~(copies[Head1(w)] > 1)
  BY <1>7
<1> QED
  BY <1>3, <1>4, <1>5, <1>6, <1>8

LEMMA OnceStep == CoreInv /\ CopyInv /\ OnceInv /\ [Next]_vars => OnceInv'
<1> SUFFICES ASSUME CoreInv, CopyInv, OnceInv, [Next]_vars PROVE OnceInv'
  OBVIOUS
<1>0. /\ rows \in [Texts -> Nat] /\ worker \in [Workers -> WorkerStates]
      /\ \A e \in Envelopes : copies[e] \in Nat
      /\ Texts \subseteq Envelopes
  BY IngestAssumption DEF CoreInv, TypeOK, Envelopes
<1>p. posOf' = posOf
  BY DEF Next, Work, IngestEnvelopes, KeyExchangeAccepted, KeyExchangeRejected, TextWithoutSession,
         TextFindsSession, TextDropped, TextOpens, TextFails, DrainOpens, DrainFails, DrainSaved,
         DeleteConversation, vars
<1>s. Sole' = Sole /\ Sole \subseteq Texts
  BY <1>p DEF Sole, Namesakes
<1>w. ASSUME Waiting' \subseteq Waiting, UNCHANGED <<rows, holders, copies>> PROVE OnceInv'
  BY <1>p, <1>s, <1>w DEF OnceInv
<1>1. ASSUME NEW w \in Workers, NEW n \in 1..2, NEW s \in [1..n -> Envelopes], IngestEnvelopes(w, s)
      PROVE  OnceInv'
  <2>1. PICK b \in Prepared(s) : worker' = [worker EXCEPT ![w].batch = b]
    BY <1>1 DEF IngestEnvelopes
  <2>2. /\ copies' = [e \in Envelopes |-> IF e \in Range1(s) THEN copies[e] + 1 ELSE copies[e]]
        /\ UNCHANGED <<rows, holders>>
    BY <1>1 DEF IngestEnvelopes, storeVars
  <2>3. Range1(b) \subseteq Range1(s)
    BY PreparedShape
  <2>4. Waiting' \subseteq Waiting \cup Range1(s)
    <3>1. \A v \in Workers : worker'[v].batch = worker[v].batch \/ worker'[v].batch = b
      BY <1>0, <2>1 DEF WorkerStates
    <3> QED
      BY <2>3, <3>1 DEF Waiting
  <2>5. SUFFICES ASSUME NEW t \in Sole, copies'[t] <= 1
                 PROVE  /\ copies'[t] = 0 => rows[t] = 0 /\ posOf[t] \notin holders
                        /\ rows[t] <= 1
                        /\ rows[t] = 1 => t \notin Waiting' /\ posOf[t] \notin holders
                        /\ posOf[t] \in holders => t \notin Waiting'
    BY <1>p, <1>s, <2>2 DEF OnceInv
  <2>6. CASE t \in Range1(s)
    <3>1. copies'[t] = copies[t] + 1 /\ copies[t] \in Nat /\ rows[t] \in Nat
      BY <1>0, <1>s, <2>2, <2>6
    <3>2. copies[t] = 0 /\ copies[t] <= 1 /\ copies'[t] # 0
      BY <2>5, <3>1
    <3>3. rows[t] = 0 /\ posOf[t] \notin holders
      BY <3>2 DEF OnceInv
    <3> QED
      BY <3>2, <3>3
  <2>7. CASE t \notin Range1(s)
    <3>1. copies'[t] = copies[t]
      BY <1>0, <1>s, <2>2, <2>7
    <3> QED
      BY <2>4, <2>5, <2>7, <3>1 DEF OnceInv
  <2> QED
    BY <2>6, <2>7
<1>2. ASSUME NEW w \in Workers, KeyExchangeAccepted(w) \/ KeyExchangeRejected(w) PROVE OnceInv'
  <2>1. worker[w].batch # <<>> /\ worker' = Rest(w) /\ UNCHANGED <<rows, holders, copies>>
    BY <1>2 DEF KeyExchangeAccepted, KeyExchangeRejected, storeVars, historyVars
  <2> QED
    BY <1>w, <2>1, RestWaiting
<1>3. ASSUME NEW w \in Workers, TextDropped(w) PROVE OnceInv'
  <2>1. worker[w].batch # <<>> /\ worker' = Rest(w) /\ UNCHANGED copies
    BY <1>3, TextShape
  <2>2. UNCHANGED <<rows, holders>>
    BY <1>3 DEF TextDropped, storeVars
  <2> QED
    BY <1>w, <2>1, <2>2, RestWaiting
<1>4. ASSUME NEW w \in Workers, TextWithoutSession(w) \/ TextFails(w) PROVE OnceInv'
  <2> DEFINE t == Head1(w)
  <2>1. worker[w].batch # <<>> /\ worker' = Rest(w) /\ UNCHANGED copies /\ t \in Texts
    BY <1>4, TextShape
  <2>2. UNCHANGED rows /\ holders' = holders \cup {posOf[t]}
    BY <1>4 DEF TextWithoutSession, TextFails, Undecryptable
  <2>3. /\ Waiting' \subseteq Waiting /\ t \in Waiting /\ copies[t] > 0
        /\ copies[t] <= 1 => t \notin Waiting'
    BY <2>1, RestWaiting
  <2> HIDE DEF t
  <2>4. ASSUME NEW u \in Sole, copies[u] <= 1
        PROVE  /\ copies[u] = 0 => rows[u] = 0 /\ posOf[u] \notin holders'
               /\ rows[u] <= 1
               /\ rows[u] = 1 => u \notin Waiting' /\ posOf[u] \notin holders'
               /\ posOf[u] \in holders' => u \notin Waiting'
    <3>1. CASE u = t
      <4>1. rows[u] # 1 /\ rows[u] <= 1 /\ copies[u] # 0 /\ u \notin Waiting'
        <5>1. copies[u] # 0
          BY <1>0, <1>s, <2>3, <3>1
        <5> QED
          BY <2>3, <2>4, <3>1, <5>1 DEF OnceInv
      <4> QED
        BY <4>1
    <3>2. CASE u # t
      <4>1. posOf[u] # posOf[t]
        BY <2>1, <3>2, SoleAlone
      <4> QED
        BY <2>2, <2>3, <2>4, <4>1 DEF OnceInv
    <3> QED
      BY <3>1, <3>2
  <2> QED
    BY <1>p, <1>s, <2>1, <2>2, <2>4 DEF OnceInv
<1>5. ASSUME NEW w \in Workers, TextOpens(w) PROVE OnceInv'
  <2> DEFINE t == Head1(w)
  <2>1. worker[w].batch # <<>> /\ worker' = Rest(w) /\ UNCHANGED copies /\ t \in Texts
    BY <1>5, TextShape
  <2>2. /\ rows' = (IF t \in Receipts THEN rows ELSE [rows EXCEPT ![t] = rows[t] + 1])
        /\ UNCHANGED holders
    BY <1>5 DEF TextOpens
  <2>3. /\ Waiting' \subseteq Waiting /\ t \in Waiting /\ copies[t] > 0
        /\ copies[t] <= 1 => t \notin Waiting'
    BY <2>1, RestWaiting
  <2> HIDE DEF t
  <2>4. ASSUME NEW u \in Sole, copies[u] <= 1
        PROVE  /\ copies[u] = 0 => rows'[u] = 0 /\ posOf[u] \notin holders
               /\ rows'[u] <= 1
               /\ rows'[u] = 1 => u \notin Waiting' /\ posOf[u] \notin holders
               /\ posOf[u] \in holders => u \notin Waiting'
    <3>1. CASE u = t
      <4>1. copies[u] # 0
        BY <1>0, <1>s, <2>3, <3>1
      <4>2. rows[u] <= 1 /\ rows[u] # 1 /\ rows[u] \in Nat /\ posOf[u] \notin holders /\ u \notin Waiting'
        BY <1>0, <1>s, <2>3, <2>4, <3>1 DEF OnceInv
      <4>3. rows'[u] = 1 \/ rows'[u] = rows[u]
        BY <1>0, <2>1, <2>2, <3>1, <4>2
      <4> QED
        BY <4>1, <4>2, <4>3
    <3>2. CASE u # t
      <4>1. rows'[u] = rows[u]
        BY <1>0, <1>s, <2>2, <3>2
      <4> QED
        BY <2>3, <2>4, <4>1 DEF OnceInv
    <3> QED
      BY <3>1, <3>2
  <2> QED
    BY <1>p, <1>s, <2>1, <2>2, <2>4 DEF OnceInv
<1>6. ASSUME NEW d \in Drains, DrainOpens(d) PROVE OnceInv'
  <2> DEFINE t == Head(drain[d].todo)
  <2>1. /\ drain[d].trying
        /\ rows' = (IF posOf[t] \in holders /\ t \notin Receipts
                    THEN [rows EXCEPT ![t] = rows[t] + 1] ELSE rows)
        /\ holders' = holders \ {posOf[t]} /\ UNCHANGED <<worker, copies>>
    BY <1>6 DEF DrainOpens, historyVars
  <2>2. t \in Texts
    BY <2>1, DrainFacts, Shifted
  <2>3. Waiting' = Waiting
    BY <2>1 DEF Waiting
  <2> HIDE DEF t
  <2>4. ASSUME NEW u \in Sole, copies[u] <= 1
        PROVE  /\ copies[u] = 0 => rows'[u] = 0 /\ posOf[u] \notin holders'
               /\ rows'[u] <= 1
               /\ rows'[u] = 1 => u \notin Waiting /\ posOf[u] \notin holders'
               /\ posOf[u] \in holders' => u \notin Waiting
    <3>1. CASE u = t /\ posOf[t] \in holders
      <4>1. copies[u] # 0 /\ rows[u] <= 1 /\ rows[u] # 1 /\ rows[u] \in Nat /\ u \notin Waiting
        BY <1>0, <1>s, <2>4, <3>1 DEF OnceInv
      <4>2. (rows'[u] = 1 \/ rows'[u] = rows[u]) /\ posOf[u] \notin holders'
        BY <1>0, <2>1, <2>2, <3>1, <4>1
      <4> QED
        BY <4>1, <4>2
    <3>2. CASE ~(u = t /\ posOf[t] \in holders)
      <4>1. rows'[u] = rows[u] /\ holders' \subseteq holders
        BY <1>0, <1>s, <2>1, <2>2, <3>2
      <4> QED
        BY <2>4, <4>1 DEF OnceInv
    <3> QED
      BY <3>1, <3>2
  <2> QED
    BY <1>p, <1>s, <2>1, <2>3, <2>4 DEF OnceInv
<1>7. CASE DeleteConversation
  <2>1. rows' = [t \in Texts |-> 0] /\ holders' = {}
    BY <1>7 DEF DeleteConversation
  <2>2. \A t \in Sole : rows'[t] = 0 /\ rows'[t] <= 1 /\ rows'[t] # 1
    BY <1>s, <2>1
  <2> QED
    BY <1>s, <2>1, <2>2 DEF OnceInv
<1>8. ASSUME NEW w \in Workers, TextFindsSession(w) PROVE OnceInv'
  <2>1. worker' = [worker EXCEPT ![w].h = recv] /\ UNCHANGED <<rows, holders, copies>>
    BY <1>8 DEF TextFindsSession, storeVars, historyVars
  <2>2. \A v \in Workers : worker'[v].batch = worker[v].batch
    BY <1>0, <2>1 DEF WorkerStates
  <2> QED
    BY <1>w, <2>1, <2>2 DEF Waiting
<1>9. ASSUME UNCHANGED vars \/ \E d \in Drains : DrainFails(d) \/ DrainSaved(d) PROVE OnceInv'
  <2>1. UNCHANGED <<rows, holders, copies, worker>>
    BY <1>9 DEF DrainFails, DrainSaved, vars, storeVars, historyVars
  <2> QED
    BY <1>w, <2>1 DEF Waiting
<1> QED
  BY <1>1, <1>2, <1>3, <1>4, <1>5, <1>6, <1>7, <1>8, <1>9 DEF Next, Work

\* A second copy, a retry or a second drain alone never repeats a message: two
\* rows take two copies of the handshake, and a second copy of the text or a
\* namesake.
THEOREM TextsShowOnce == Spec => []ShownOnce
<1>1. Init => RowInv /\ CopyInv /\ OnceInv
  <2> SUFFICES ASSUME Init PROVE RowInv /\ CopyInv /\ OnceInv
    OBVIOUS
  <2>1. DOMAIN native = {} /\ \A w \in Workers : DOMAIN worker[w].batch = {} /\ worker[w].batch = <<>>
    BY DEF Init
  <2>2. \A t \in Texts : rows[t] = 0 /\ ~(rows[t] > 0) /\ ~(rows[t] > 1) /\ rows[t] <= 1 /\ rows[t] # 1
    BY DEF Init
  <2>3. holders = {}
    BY DEF Init
  <2> QED
    BY <2>1, <2>2, <2>3 DEF RowInv, CopyInv, OnceInv, Sole
<1>2. CoreInv /\ RowInv /\ CopyInv /\ OnceInv => ShownOnce
  <2> SUFFICES ASSUME CoreInv, RowInv, CopyInv, OnceInv, NEW t \in Texts, rows[t] > 1
               PROVE  copies[GenOf[t]] > 1 /\ (copies[t] > 1 \/ Namesakes(t) # {t})
    BY DEF ShownOnce
  <2>1. copies[GenOf[t]] > 1
    BY DEF RowInv, CopyInv
  <2>2. ASSUME Namesakes(t) = {t}, ~(copies[t] > 1) PROVE FALSE
    <3>1. copies[t] <= 1 /\ rows[t] \in Nat
      BY <2>2, IngestAssumption DEF CoreInv, TypeOK, Envelopes
    <3>2. rows[t] <= 1
      BY <2>2, <3>1 DEF OnceInv, Sole
    <3> QED
      BY <3>1, <3>2
  <2> QED
    BY <2>1, <2>2
<1> QED
  BY <1>1, <1>2, CoreHolds, RowStep, CopyStep, OnceStep, PTL DEF Spec

-----------------------------------------------------------------------------
(***************************************************************************)
(* Kept.  While drains do not overlap, at most one runs and it iterates    *)
(* over the array that pending names (LoneInv), so a push reaches both and *)
(* the end of the drain loses nothing but what was evicted, shown or, if   *)
(* it was a receipt, applied (RetryInv).                                   *)
(***************************************************************************)
\* What a drain has tried in vain or will try.
Visits(d) == Range1(drain[d].todo) \cup Range1(drain[d].failed)
Visited == UNION {Visits(d) : d \in Drains}

LoneInv ==
    overlapped \/ /\ \A c, d \in Running : c = d
                  /\ \A d \in Running : drain[d].shared

\* What a text's placeholder need not be retried for.
Shown(t) == rows[t] > 0 \/ Applied(t)

RetryInv ==
    overlapped \/ \A t \in Sole :
        /\ t \in Range1(pending) \cup Visited => posOf[t] \in holders \/ Shown(t)
        /\ t \in Range1(pending) /\ Running # {} => t \in evicted \/ Shown(t) \/ t \in Visited
        /\ posOf[t] \in holders => t \in evicted \/ Shown(t) \/ t \in Range1(pending) \cup Visited

LEMMA IdleVisits ==
    /\ Range1(<<>>) = {}
    /\ \A d \in Drains : drain[d] = Idle => Visits(d) = {}
    /\ \A d \in Drains : drain'[d] = Idle => Visits(d)' = {}
<1>1. Range1(<<>>) = {}
  BY DEF Range1
<1>2. Idle.todo = <<>> /\ Idle.failed = <<>>
  BY DEF Idle
<1>3. ASSUME NEW d \in Drains, drain[d] = Idle PROVE Visits(d) = {}
  BY <1>1, <1>2, <1>3 DEF Visits
<1>4. ASSUME NEW d \in Drains, drain'[d] = Idle PROVE Visits(d)' = {}
  <2>1. drain'[d].todo = <<>> /\ drain'[d].failed = <<>>
    BY <1>2, <1>4
  <2> QED
    BY <1>1, <2>1 DEF Visits, Range1
<1> QED
  BY <1>1, <1>3, <1>4

\* A drain that goes on and one that ends.
GoesOn(d) ==
    /\ UNCHANGED pending
    /\ \A c \in Drains : /\ drain'[c] = Idle <=> drain[c] = Idle
                         /\ drain'[c].shared = drain[c].shared
                         /\ c # d => Visits(c)' = Visits(c)
Ended(d) ==
    /\ drain'[d] = Idle /\ Range1(pending') = Visits(d)
    /\ \A c \in Drains : c # d /\ drain[c] = Idle => drain'[c] = Idle

LEMMA DrainMoves ==
    ASSUME CoreInv, NEW d \in Drains
    PROVE  /\ DrainOpens(d) => GoesOn(d) /\ Visits(d) = Visits(d)' \cup {Head(drain[d].todo)}
           /\ DrainFails(d) \/ DrainSaved(d) => (GoesOn(d) /\ Visits(d)' = Visits(d)) \/ Ended(d)
<1>0. drain \in [Drains -> DrainStates] /\ Limit \in Nat
  BY IngestAssumption DEF CoreInv, TypeOK
<1>1. ASSUME drain[d].trying \/ drain[d] # Idle
      PROVE  /\ drain[d] \in DrainStates /\ drain[d] # Idle /\ drain[d].h # 0
             /\ drain[d].todo \in Seq(Texts) /\ drain[d].failed \in Seq(Texts)
             /\ Len(drain[d].todo) \in Nat /\ Len(drain[d].failed) \in Nat
             /\ Len(drain[d].todo) + Len(drain[d].failed) <= Limit
             /\ drain[d].trying => drain[d].todo # <<>>
  <2>0. Len(native) \in Nat
    BY DEF CoreInv, TypeOK
  <2>1. drain[d].h \in 1..Len(native)
    BY <1>1, DrainFacts
  <2>2. drain[d].h # 0
    BY <2>0, <2>1
  <2> QED
    BY <1>1, <2>2, DrainFacts
<1>2. ASSUME NEW n, n.h # 0, n.shared = drain[d].shared, drain[d] # Idle,
             drain' = [drain EXCEPT ![d] = n], UNCHANGED pending
      PROVE  /\ GoesOn(d) /\ drain'[d] = n
  <2>1. drain'[d] = n /\ \A c \in Drains : c # d => drain'[c] = drain[c]
    BY <1>0, <1>2
  <2>2. Idle.h = 0
    BY DEF Idle
  <2>3. n # Idle
    BY <1>2, <2>2
  <2> QED
    BY <1>2, <2>1, <2>3 DEF GoesOn, Visits
<1>3. ASSUME NEW f \in Seq(Texts), Len(f) <= Limit, Finish(d, f), Range1(f) = Visits(d) PROVE Ended(d)
  <2>1. pending' = f
    BY <1>3 DEF Finish
  <2>2. drain'[d] = Idle /\ \A c \in Drains : c # d /\ drain[c] = Idle => drain'[c] = Idle
    BY <1>3, FinishShape
  <2> QED
    BY <1>3, <2>1, <2>2 DEF Ended
<1>4. ASSUME DrainOpens(d) PROVE GoesOn(d) /\ Visits(d) = Visits(d)' \cup {Head(drain[d].todo)}
  <2> DEFINE n == [drain[d] EXCEPT !.todo = Tail(drain[d].todo), !.trying = FALSE]
  <2>1. drain[d].trying /\ UNCHANGED pending /\ drain' = [drain EXCEPT ![d] = n]
    BY <1>4 DEF DrainOpens
  <2>2. /\ n.h = drain[d].h /\ n.shared = drain[d].shared
        /\ n.todo = Tail(drain[d].todo) /\ n.failed = drain[d].failed
    BY <1>1, <2>1 DEF DrainStates
  <2> HIDE DEF n
  <2>3. GoesOn(d) /\ drain'[d] = n
    BY <1>1, <1>2, <2>1, <2>2
  <2>4. Range1(drain[d].todo) = Range1(Tail(drain[d].todo)) \cup {Head(drain[d].todo)}
    BY <1>1, <2>1, Shifted
  <2> QED
    BY <2>2, <2>3, <2>4 DEF Visits
<1>5. ASSUME DrainFails(d) PROVE (GoesOn(d) /\ Visits(d)' = Visits(d)) \/ Ended(d)
  <2> DEFINE f == Append(drain[d].failed, Head(drain[d].todo))
  <2>1. drain[d].trying /\ drain[d].todo # <<>>
    BY <1>1, <1>5 DEF DrainFails
  <2>2. /\ Head(drain[d].todo) \in Texts /\ Tail(drain[d].todo) \in Seq(Texts)
        /\ Len(Tail(drain[d].todo)) = Len(drain[d].todo) - 1
        /\ Range1(drain[d].todo) = Range1(Tail(drain[d].todo)) \cup {Head(drain[d].todo)}
    BY <1>1, <2>1, Shifted
  <2>3. /\ f \in Seq(Texts) /\ Len(f) = Len(drain[d].failed) + 1
        /\ Range1(f) = Range1(drain[d].failed) \cup {Head(drain[d].todo)}
    <3>1. drain[d].failed \in Seq(Texts) /\ Head(drain[d].todo) \in Texts
      BY <1>1, <2>1, <2>2
    <3> QED
      BY <3>1, Pushed
  <2>4. CASE Len(drain[d].todo) = 1
    <3>1. Finish(d, f)
      BY <1>5, <2>4 DEF DrainFails
    <3>2. Len(f) <= Limit
      BY <1>1, <2>1, <2>3, <2>4
    <3>3. Range1(Tail(drain[d].todo)) = {}
      <4>1. Len(Tail(drain[d].todo)) = 0
        BY <2>2, <2>4
      <4>2. Tail(drain[d].todo) = <<>>
        BY <2>2, <4>1, EmptySeq
      <4> QED
        BY <4>2, IdleVisits
    <3>4. Range1(f) = Visits(d)
      BY <2>2, <2>3, <3>3 DEF Visits
    <3> QED
      BY <1>3, <2>3, <3>1, <3>2, <3>4
  <2>5. CASE Len(drain[d].todo) # 1
    <3> DEFINE n == [drain[d] EXCEPT !.todo = Tail(drain[d].todo), !.failed = f]
    <3>1. drain' = [drain EXCEPT ![d] = n] /\ UNCHANGED pending
      BY <1>5, <2>5 DEF DrainFails
    <3> HIDE DEF f
    <3>2. n.h = drain[d].h /\ n.shared = drain[d].shared /\ n.todo = Tail(drain[d].todo) /\ n.failed = f
      BY <1>1, <2>1 DEF DrainStates
    <3> HIDE DEF n
    <3>3. GoesOn(d) /\ drain'[d] = n
      BY <1>1, <1>2, <2>1, <3>1, <3>2
    <3>4. Visits(d)' = Visits(d)
      BY <2>2, <2>3, <3>2, <3>3 DEF Visits
    <3> QED
      BY <3>3, <3>4
  <2> QED
    BY <2>4, <2>5
<1>6. ASSUME DrainSaved(d) PROVE (GoesOn(d) /\ Visits(d)' = Visits(d)) \/ Ended(d)
  <2>1. drain[d] # Idle
    BY <1>6 DEF DrainSaved
  <2>2. CASE drain[d].todo = <<>>
    <3>1. Finish(d, drain[d].failed)
      BY <1>6, <2>2 DEF DrainSaved
    <3>2. Len(drain[d].failed) <= Limit
      <4> DEFINE m == Len(drain[d].todo)
                 k == Len(drain[d].failed)
      <4>1. m \in Nat /\ k \in Nat /\ m + k <= Limit
        BY <1>1, <2>1
      <4> HIDE DEF m, k
      <4>2. k <= Limit
        BY <1>0, <4>1
      <4> QED
        BY <4>2 DEF k
    <3>3. Range1(drain[d].failed) = Visits(d)
      BY <2>2, IdleVisits DEF Visits
    <3> QED
      BY <1>1, <1>3, <2>1, <3>1, <3>2, <3>3
  <2>3. CASE drain[d].todo # <<>>
    <3> DEFINE n == [drain[d] EXCEPT !.trying = TRUE]
    <3>1. drain' = [drain EXCEPT ![d] = n] /\ UNCHANGED pending
      BY <1>6, <2>3 DEF DrainSaved
    <3>2. /\ n.h = drain[d].h /\ n.shared = drain[d].shared
          /\ n.todo = drain[d].todo /\ n.failed = drain[d].failed
      BY <1>1, <2>1 DEF DrainStates
    <3> HIDE DEF n
    <3>3. GoesOn(d) /\ drain'[d] = n
      BY <1>1, <1>2, <2>1, <3>1, <3>2
    <3>4. Visits(d)' = Visits(d)
      BY <3>2, <3>3 DEF Visits
    <3> QED
      BY <3>3, <3>4
  <2> QED
    BY <2>2, <2>3
<1> QED
  BY <1>4, <1>5, <1>6

\* A drain that starts is alone or overlaps, and one that ends was alone.
LEMMA LoneStep == CoreInv /\ LoneInv /\ [Next]_vars => LoneInv'
<1> SUFFICES ASSUME CoreInv, LoneInv, [Next]_vars, ~overlapped' PROVE LoneInv'
  BY DEF LoneInv
<1>0. drain \in [Drains -> DrainStates] /\ recv \in Nat /\ Len(native) \in Nat
  BY IngestAssumption DEF CoreInv, TypeOK
<1>s. ASSUME ~overlapped,
             \A d \in Drains : drain'[d] = Idle <=> drain[d] = Idle,
             \A d \in Drains : drain'[d].shared = drain[d].shared
      PROVE  LoneInv'
  BY <1>s DEF LoneInv, Running
<1>1. ASSUME NEW w \in Workers, KeyExchangeAccepted(w) PROVE LoneInv'
  <2>1. recv' \in 1..MaxSessions /\ StartDrain(recv')
    <3>1. recv' = Len(native') /\ native' = Append(native, [gen |-> Head1(w), opened |-> {}])
          /\ Len(native) < MaxSessions /\ StartDrain(recv') /\ Head1(w) \in Gens
      BY <1>1 DEF KeyExchangeAccepted
    <3>2. [gen |-> Head1(w), opened |-> {}] \in Sessions /\ native \in Seq(Sessions)
      BY <3>1 DEF Sessions, CoreInv, TypeOK
    <3>3. Len(native') = Len(native) + 1
      BY <3>1, <3>2, Pushed
    <3> QED
      BY <1>0, <3>1, <3>3, IngestAssumption
  <2>2. CASE UNCHANGED <<drain, overlapped>>
    BY <1>s, <2>2
  <2>3. ASSUME NEW d \in Drains, drain'[d].shared,
               \A c \in Drains : c # d => drain'[c] = drain[c],
               overlapped' = (overlapped \/ Running # {})
        PROVE  LoneInv'
    <3>1. \A c \in Drains : drain[c] = Idle
      BY <2>3 DEF Running
    <3> QED
      BY <2>3, <3>1 DEF LoneInv, Running
  <2> QED
    BY <2>1, <2>2, <2>3, StartShape
<1>2. ASSUME NEW w \in Workers, TextWithoutSession(w) \/ TextFails(w) PROVE LoneInv'
  <2>1. Head1(w) \in Texts /\ UNCHANGED overlapped
    BY <1>2, TextShape
  <2>2. Buffer(Head1(w))
    BY <1>2 DEF TextWithoutSession, TextFails, Undecryptable
  <2>3. \A d \in Drains : drain'[d].shared = drain[d].shared /\ (drain'[d] = Idle <=> drain[d] = Idle)
    BY <2>1, <2>2, Buffers
  <2> QED
    BY <1>s, <2>1, <2>3
<1>3. ASSUME NEW d \in Drains, DrainOpens(d) \/ DrainFails(d) \/ DrainSaved(d) PROVE LoneInv'
  <2>1. UNCHANGED overlapped
    BY <1>3 DEF DrainOpens, DrainFails, DrainSaved, historyVars
  <2>2. GoesOn(d) \/ Ended(d)
    BY <1>3, DrainMoves
  <2>3. CASE GoesOn(d)
    BY <1>s, <2>1, <2>3 DEF GoesOn
  <2>4. CASE Ended(d)
    <3>1. drain[d] # Idle
      <4>1. drain[d].trying \/ drain[d] # Idle
        BY <1>3 DEF DrainOpens, DrainFails, DrainSaved
      <4> QED
        BY <4>1, DrainFacts
    <3>2. \A c \in Drains : c # d => drain[c] = Idle
      BY <2>1, <3>1 DEF LoneInv, Running
    <3>3. \A c \in Drains : drain'[c] = Idle
      BY <2>4, <3>2 DEF Ended
    <3> QED
      BY <3>3 DEF LoneInv, Running
  <2> QED
    BY <2>2, <2>3, <2>4
<1>4. CASE DeleteConversation
  <2>1. /\ drain' = [d \in Drains |-> [drain[d] EXCEPT !.shared = FALSE]]
        /\ overlapped' = (overlapped \/ Running # {})
    BY <1>4 DEF DeleteConversation
  <2>2. \A d \in Drains : drain[d] = Idle
    BY <2>1 DEF Running
  <2>3. \A d \in Drains : drain'[d] = Idle
    BY <2>1, <2>2, IdleStays
  <2> QED
    BY <2>3 DEF LoneInv, Running
<1>5. CASE UNCHANGED <<drain, overlapped>>
  BY <1>s, <1>5
<1>6. ASSUME NEW w \in Workers,
             \/ \E n \in 1..2 : \E s \in [1..n -> Envelopes] : IngestEnvelopes(w, s)
             \/ KeyExchangeRejected(w) \/ TextFindsSession(w) \/ TextDropped(w) \/ TextOpens(w)
      PROVE  UNCHANGED <<drain, overlapped>>
  BY <1>6 DEF IngestEnvelopes, KeyExchangeRejected, TextFindsSession, TextDropped, TextOpens, historyVars
<1>7. UNCHANGED vars => UNCHANGED <<drain, overlapped>>
  BY DEF vars, historyVars
<1> QED
  BY <1>1, <1>2, <1>3, <1>4, <1>5, <1>6, <1>7 DEF Next, Work

\* A receipt that was applied stays applied.
LEMMA AppliedStays ==
    ASSUME CoreInv, [Next]_vars, NEW t, Applied(t)
    PROVE  Applied(t)'
<1>n. native \in Seq(Sessions) /\ DOMAIN native = 1..Len(native) /\ Len(native) \in Nat
  BY DEF CoreInv, TypeOK
<1>1. ASSUME DOMAIN native \subseteq DOMAIN native',
             \A k \in DOMAIN native : native[k].opened \subseteq native'[k].opened
      PROVE  Applied(t)'
  BY <1>1 DEF Applied
<1>2. CASE native' = native
  BY <1>2 DEF Applied
<1>3. ASSUME NEW w \in Workers, KeyExchangeAccepted(w) PROVE Applied(t)'
  <2> DEFINE e == [gen |-> Head1(w), opened |-> {}]
  <2>1. native' = Append(native, e) /\ Head1(w) \in Gens
    BY <1>3 DEF KeyExchangeAccepted
  <2>2. e \in Sessions
    BY <2>1 DEF Sessions
  <2> HIDE DEF e
  <2>3. DOMAIN native' = 1..(Len(native) + 1) /\ \A k \in 1..Len(native) : native'[k] = native[k]
    BY <1>n, <2>1, <2>2
  <2> QED
    BY <1>1, <1>n, <2>3
<1>4. ASSUME NEW h \in 1..Len(native), NEW u \in Texts, native' = Opened(h, u) PROVE Applied(t)'
  <2>1. /\ DOMAIN native' = DOMAIN native
        /\ \A k \in 1..Len(native) :
              native'[k].opened = IF k = h THEN native[k].opened \cup {u} ELSE native[k].opened
    BY <1>4, OpenedShape
  <2> QED
    BY <1>1, <1>n, <2>1
<1>5. ASSUME NEW w \in Workers, TextOpens(w) PROVE Applied(t)'
  <2>1. worker[w].h \in 1..Len(native) /\ Head1(w) \in Texts
    BY <1>5, OpensOn
  <2> QED
    BY <1>4, <1>5, <2>1 DEF TextOpens
<1>6. ASSUME NEW d \in Drains, DrainOpens(d) PROVE Applied(t)'
  <2>1. drain[d].trying /\ drain[d].h \in 1..Len(native) /\ drain[d].todo \in Seq(Texts) /\ drain[d].todo # <<>>
    BY <1>6, DrainFacts DEF DrainOpens
  <2>2. Head(drain[d].todo) \in Texts
    BY <2>1, Shifted
  <2> QED
    BY <1>4, <1>6, <2>1, <2>2 DEF DrainOpens
<1>7. ASSUME NEW w \in Workers, TextWithoutSession(w) \/ TextFails(w) \/ TextDropped(w)
      PROVE  native' = native
  BY <1>7 DEF TextWithoutSession, TextFails, TextDropped
<1>8. CASE DeleteConversation
  BY <1>2, <1>8 DEF DeleteConversation
<1> QED
  BY <1>2, <1>3, <1>5, <1>6, <1>7, <1>8, StepKinds

LEMMA RetryStep == CoreInv /\ LoneInv /\ RetryInv /\ [Next]_vars => RetryInv'
<1> SUFFICES ASSUME CoreInv, LoneInv, RetryInv, [Next]_vars, ~overlapped' PROVE RetryInv'
  BY DEF RetryInv
<1>0. rows \in [Texts -> Nat] /\ Len(native) \in Nat
  BY DEF CoreInv, TypeOK
<1>p. posOf' = posOf
  BY DEF Next, Work, IngestEnvelopes, KeyExchangeAccepted, KeyExchangeRejected, TextWithoutSession,
         TextFindsSession, TextDropped, TextOpens, TextFails, DrainOpens, DrainFails, DrainSaved,
         DeleteConversation, vars
<1>q. Sole' = Sole /\ Sole \subseteq Texts
  BY <1>p DEF Sole, Namesakes
<1>v. UNCHANGED drain => Visited' = Visited /\ Running' = Running
  BY DEF Visited, Visits, Running, Range1
<1>a. UNCHANGED rows => \A t \in Texts : Shown(t) => Shown(t)'
  BY AppliedStays DEF Shown
<1>1. ASSUME NEW w \in Workers, KeyExchangeAccepted(w) PROVE RetryInv'
  <2>1. recv' \in 1..MaxSessions /\ StartDrain(recv') /\ UNCHANGED <<pending, rows, holders, evicted>>
    <3>1. /\ recv' = Len(native') /\ native' = Append(native, [gen |-> Head1(w), opened |-> {}])
          /\ Len(native) < MaxSessions /\ StartDrain(recv') /\ Head1(w) \in Gens
          /\ UNCHANGED <<pending, rows, holders, evicted>>
      BY <1>1 DEF KeyExchangeAccepted, storeVars
    <3>2. [gen |-> Head1(w), opened |-> {}] \in Sessions /\ native \in Seq(Sessions)
      BY <3>1 DEF Sessions, CoreInv, TypeOK
    <3>3. Len(native') = Len(native) + 1
      BY <3>1, <3>2, Pushed
    <3> QED
      BY <1>0, <3>1, <3>3, IngestAssumption
  <2>2. CASE UNCHANGED <<drain, overlapped>>
    BY <1>a, <1>p, <1>q, <1>v, <2>1, <2>2 DEF RetryInv
  <2>3. ASSUME NEW d \in Drains, drain'[d].todo = pending,
               drain'[d].failed = <<>>,
               \A c \in Drains : c # d => drain'[c] = drain[c],
               overlapped' = (overlapped \/ Running # {})
        PROVE  RetryInv'
    <3>1. \A c \in Drains : drain[c] = Idle
      BY <2>3 DEF Running
    <3>2. \A c \in Drains : c # d => Visits(c)' = {}
      BY <2>3, <3>1, IdleVisits
    <3>3. Visits(d)' = Range1(pending)
      <4>1. Visits(d)' = Range1(pending) \cup Range1(<<>>)
        BY <2>3 DEF Visits
      <4> QED
        BY <4>1, IdleVisits
    <3>4. Visited' = Range1(pending)
      BY <3>2, <3>3 DEF Visited
    <3>5. Range1(pending') = Range1(pending) /\ Visited = {}
      BY <2>1, <3>1, IdleVisits DEF Visited
    <3> QED
      BY <1>a, <1>p, <1>q, <2>1, <2>3, <3>4, <3>5 DEF RetryInv
  <2> QED
    BY <2>1, <2>2, <2>3, StartShape
<1>2. ASSUME NEW w \in Workers, TextWithoutSession(w) \/ TextFails(w) PROVE RetryInv'
  <2> DEFINE t == Head1(w)
  <2>1. t \in Texts /\ UNCHANGED overlapped
    BY <1>2, TextShape
  <2>2. Buffer(t) /\ UNCHANGED rows /\ holders' = holders \cup {posOf[t]}
    BY <1>2 DEF TextWithoutSession, TextFails, Undecryptable
  <2> HIDE DEF t
  <2>3. /\ Range1(pending') \subseteq Range1(pending) \cup {t}
        /\ Range1(pending) \subseteq Range1(pending') \cup evicted'
        /\ Buffered(t) \/ t \in Range1(pending')
        /\ evicted \subseteq evicted'
    BY <2>1, <2>2, Buffers
  <2>4. \A d \in Drains :
           /\ drain'[d].failed = drain[d].failed /\ (drain'[d] = Idle <=> drain[d] = Idle)
           /\ Range1(drain'[d].todo) \subseteq Range1(drain[d].todo) \cup {t}
           /\ Range1(drain[d].todo) \subseteq Range1(drain'[d].todo) \cup evicted'
           /\ ~Buffered(t) /\ drain[d].shared => t \in Range1(drain'[d].todo) \cup evicted'
    BY <2>1, <2>2, Buffers
  <2>5. \A d \in Drains :
           /\ Visits(d)' \subseteq Visits(d) \cup {t} /\ Visits(d) \subseteq Visits(d)' \cup evicted'
           /\ ~Buffered(t) /\ drain[d].shared => t \in Visits(d)' \cup evicted'
    BY <2>4 DEF Visits
  <2>6. /\ Visited' \subseteq Visited \cup {t} /\ Visited \subseteq Visited' \cup evicted'
        /\ Running' = Running
        /\ ~Buffered(t) /\ Running # {} => t \in Visited' \cup evicted'
    <3>1. Running' = Running
      BY <2>4 DEF Running
    <3>2. Visited' \subseteq Visited \cup {t} /\ Visited \subseteq Visited' \cup evicted'
      BY <2>5 DEF Visited
    <3>3. ~Buffered(t) /\ Running # {} => t \in Visited' \cup evicted'
      <4>1. \A d \in Running : d \in Drains /\ drain[d].shared
        BY <2>1 DEF LoneInv, Running
      <4> QED
        BY <2>5, <4>1 DEF Visited
    <3> QED
      BY <3>1, <3>2, <3>3
  <2>7. ASSUME NEW u \in Sole
        PROVE  /\ u \in Range1(pending') \cup Visited' => posOf[u] \in holders' \/ Shown(u)
               /\ u \in Range1(pending') /\ Running # {} => u \in evicted' \/ Shown(u) \/ u \in Visited'
               /\ posOf[u] \in holders' => u \in evicted' \/ Shown(u) \/ u \in Range1(pending') \cup Visited'
    <3>0. /\ u \in Range1(pending) \cup Visited => posOf[u] \in holders \/ Shown(u)
          /\ u \in Range1(pending) /\ Running # {} => u \in evicted \/ Shown(u) \/ u \in Visited
          /\ posOf[u] \in holders => u \in evicted \/ Shown(u) \/ u \in Range1(pending) \cup Visited
      BY <2>1 DEF RetryInv
    <3>1. CASE u = t
      <4>1. Buffered(t) => t \in Range1(pending)
        <5> SUFFICES ASSUME Buffered(t) PROVE t \in Range1(pending)
          OBVIOUS
        <5>1. PICK v \in Range1(pending) : posOf[v] = posOf[t]
          BY DEF Buffered
        <5>2. v \in Texts
          <6>1. pending \in Seq(Texts)
            BY DEF CoreInv, TypeOK
          <6>2. \A i \in DOMAIN pending : pending[i] \in Texts
            BY <6>1
          <6> QED
            BY <6>2 DEF Range1
        <5> QED
          BY <3>1, <5>1, <5>2, SoleAlone
      <4> QED
        BY <2>2, <2>3, <2>6, <3>0, <3>1, <4>1
    <3>2. CASE u # t
      <4>1. posOf[u] # posOf[t]
        BY <2>1, <3>2, SoleAlone
      <4> QED
        BY <2>2, <2>3, <2>6, <3>0, <3>2, <4>1
    <3> QED
      BY <3>1, <3>2
  <2>8. rows' = rows /\ Running' = Running
    BY <2>2, <2>6
  <2> QED
    BY <1>a, <1>p, <1>q, <2>7, <2>8 DEF RetryInv
<1>3. ASSUME NEW w \in Workers, TextOpens(w) PROVE RetryInv'
  <2>1. Head1(w) \in Texts /\ UNCHANGED overlapped
    BY <1>3, TextShape
  <2>2. /\ rows' = rows \/ rows' = [rows EXCEPT ![Head1(w)] = rows[Head1(w)] + 1]
        /\ UNCHANGED <<pending, drain, holders, evicted>>
    BY <1>3 DEF TextOpens
  <2>3. \A t \in Texts : Shown(t) => Shown(t)'
    <3>1. \A t \in Texts : rows[t] > 0 => rows'[t] > 0
      BY <1>0, <2>1, <2>2
    <3> QED
      BY <3>1, AppliedStays DEF Shown
  <2>4. Range1(pending') = Range1(pending)
    BY <2>2
  <2> QED
    BY <1>p, <1>q, <1>v, <2>1, <2>2, <2>3, <2>4 DEF RetryInv
<1>4. ASSUME NEW d \in Drains, DrainOpens(d) PROVE RetryInv'
  <2> DEFINE v == Head(drain[d].todo)
  <2>1. /\ drain[d].trying
        /\ rows' = (IF posOf[v] \in holders /\ v \notin Receipts
                    THEN [rows EXCEPT ![v] = rows[v] + 1] ELSE rows)
        /\ native' = Opened(drain[d].h, v)
        /\ holders' = holders \ {posOf[v]}
        /\ UNCHANGED <<overlapped, evicted>>
    BY <1>4 DEF DrainOpens, historyVars
  <2>2. v \in Texts /\ drain[d] # Idle /\ drain[d].h \in 1..Len(native)
    BY <2>1, DrainFacts, Shifted
  <2>3. GoesOn(d) /\ Visits(d) = Visits(d)' \cup {v}
    BY <1>4, DrainMoves
  <2> HIDE DEF v
  <2>4. /\ Visited = Visited' \cup {v} /\ d \in Running /\ Range1(pending') = Range1(pending)
    BY <2>2, <2>3 DEF GoesOn, Visited, Running
  <2>5. \A t \in Texts : Shown(t) \/ (t = v /\ posOf[v] \in holders) => Shown(t)'
    <3>1. \A t \in Texts : \/ rows[t] > 0
                           \/ t = v /\ posOf[v] \in holders /\ v \notin Receipts
                           => rows'[t] > 0
      BY <1>0, <2>1, <2>2
    <3>2. ASSUME NEW t \in Texts, t = v, v \in Receipts PROVE Applied(t)'
      <4>1. native' = Opened(drain[d].h, t)
        BY <2>1, <3>2
      <4>2. drain[d].h \in DOMAIN native' /\ t \in native'[drain[d].h].opened
        BY <2>2, <4>1, OpenedShape
      <4> QED
        BY <3>2, <4>2 DEF Applied
    <3> QED
      BY <3>1, <3>2, AppliedStays DEF Shown
  <2>6. ASSUME NEW u \in Sole
        PROVE  /\ u \in Range1(pending') \cup Visited' => posOf[u] \in holders' \/ Shown(u)'
               /\ u \in Range1(pending') => u \in evicted \/ Shown(u)' \/ u \in Visited'
               /\ posOf[u] \in holders' => u \in evicted \/ Shown(u)' \/ u \in Range1(pending') \cup Visited'
    <3>0. /\ u \in Range1(pending) \cup Visited => posOf[u] \in holders \/ Shown(u)
          /\ u \in Range1(pending) => u \in evicted \/ Shown(u) \/ u \in Visited
          /\ posOf[u] \in holders => u \in evicted \/ Shown(u) \/ u \in Range1(pending) \cup Visited
      BY <2>1, <2>4 DEF RetryInv
    <3>1. CASE u = v
      BY <1>q, <2>1, <2>4, <2>5, <3>0, <3>1
    <3>2. CASE u # v
      <4>1. posOf[u] # posOf[v]
        BY <2>2, <3>2, SoleAlone
      <4> QED
        BY <1>q, <2>1, <2>4, <2>5, <3>0, <3>2, <4>1
    <3> QED
      BY <3>1, <3>2
  <2> QED
    BY <1>p, <1>q, <2>1, <2>6 DEF RetryInv
<1>5. ASSUME NEW d \in Drains, DrainFails(d) \/ DrainSaved(d) PROVE RetryInv'
  <2>1. UNCHANGED <<overlapped, evicted, rows, holders>>
    BY <1>5 DEF DrainFails, DrainSaved, historyVars, storeVars
  <2>2. CASE GoesOn(d) /\ Visits(d)' = Visits(d)
    <3>1. Visited' = Visited /\ Running' = Running /\ Range1(pending') = Range1(pending)
      BY <2>2 DEF GoesOn, Visited, Running
    <3> QED
      BY <1>a, <1>p, <1>q, <2>1, <3>1 DEF RetryInv
  <2>3. CASE Ended(d)
    <3>1. drain[d] # Idle
      <4>1. drain[d].trying \/ drain[d] # Idle
        BY <1>5 DEF DrainFails, DrainSaved
      <4> QED
        BY <4>1, DrainFacts
    <3>2. \A c \in Drains : c # d => drain[c] = Idle
      BY <2>1, <3>1 DEF LoneInv, Running
    <3>3. \A c \in Drains : drain'[c] = Idle /\ Visits(c)' = {}
      BY <2>3, <3>2, IdleVisits DEF Ended
    <3>4. Running' = {} /\ Visited' = {} /\ Running # {}
      BY <3>1, <3>3 DEF Running, Visited
    <3>5. Visited = Visits(d) /\ Range1(pending') = Visits(d)
      BY <2>3, <3>2, IdleVisits DEF Visited, Ended
    <3> QED
      BY <1>a, <1>p, <1>q, <2>1, <3>4, <3>5 DEF RetryInv
  <2> QED
    BY <1>5, <2>2, <2>3, DrainMoves
<1>6. CASE DeleteConversation
  <2>1. /\ drain' = [d \in Drains |-> [drain[d] EXCEPT !.shared = FALSE]]
        /\ overlapped' = (overlapped \/ Running # {})
        /\ pending' = <<>> /\ holders' = {}
    BY <1>6 DEF DeleteConversation
  <2>2. \A d \in Drains : drain[d] = Idle
    BY <2>1 DEF Running
  <2>3. \A d \in Drains : drain'[d] = Idle /\ Visits(d)' = {}
    BY <2>1, <2>2, IdleStays, IdleVisits
  <2>4. Visited' = {} /\ Range1(pending') = {}
    BY <2>1, <2>3, IdleVisits DEF Visited
  <2> QED
    BY <2>1, <2>4 DEF RetryInv
<1>7. CASE UNCHANGED <<drain, pending, rows, holders, evicted, overlapped>>
  <2>1. Range1(pending') = Range1(pending)
    BY <1>7
  <2> QED
    BY <1>a, <1>p, <1>q, <1>v, <1>7, <2>1 DEF RetryInv
<1>8. ASSUME NEW w \in Workers,
             \/ \E n \in 1..2 : \E s \in [1..n -> Envelopes] : IngestEnvelopes(w, s)
             \/ KeyExchangeRejected(w) \/ TextFindsSession(w) \/ TextDropped(w)
      PROVE  UNCHANGED <<drain, pending, rows, holders, evicted, overlapped>>
  BY <1>8 DEF IngestEnvelopes, KeyExchangeRejected, TextFindsSession, TextDropped, storeVars, historyVars
<1>9. UNCHANGED vars => UNCHANGED <<drain, pending, rows, holders, evicted, overlapped>>
  BY DEF vars, storeVars, historyVars
<1> QED
  BY <1>1, <1>2, <1>3, <1>4, <1>5, <1>6, <1>7, <1>8, <1>9 DEF Next, Work

\* While no two drains, nor a drain and a deletion, overlap, a text behind a
\* placeholder of its own is in the buffer or with the drain that visits it,
\* unless it fell off the full buffer or was a receipt that has been applied:
\* drainPendingDecrypt, which replaces the
\* peer's array at its end, loses nothing that was pushed meanwhile.
THEOREM TextsAreKeptForRetry == Spec => []KeptForRetry
<1>1. Init => LoneInv /\ RetryInv
  <2> SUFFICES ASSUME Init PROVE LoneInv /\ RetryInv
    OBVIOUS
  <2>1. /\ \A d \in Drains : drain[d] = Idle
        /\ pending = <<>> /\ holders = {}
    BY DEF Init
  <2>2. Running = {} /\ Visited = {} /\ Range1(pending) = {}
    BY <2>1, IdleVisits DEF Running, Visited
  <2> QED
    BY <2>1, <2>2 DEF LoneInv, RetryInv
<1>2. CoreInv /\ RetryInv => KeptForRetry
  <2> SUFFICES ASSUME CoreInv, RetryInv, ~overlapped, NEW t \in settled, t \notin evicted,
                      ~Shown(t), posOf[t] \in holders, Namesakes(t) = {t}, t \notin Range1(pending)
               PROVE  \E d \in Drains : t \in Range1(drain[d].todo) \cup Range1(drain[d].failed)
    BY DEF KeptForRetry, Shown
  <2>1. t \in Sole
    BY DEF Sole, CoreInv, TypeOK
  <2>2. t \in Visited
    BY <2>1 DEF RetryInv
  <2> QED
    BY <2>2 DEF Visited, Visits
<1> QED
  BY <1>1, <1>2, CoreHolds, LoneStep, RetryStep, PTL DEF Spec
===============================================================================
