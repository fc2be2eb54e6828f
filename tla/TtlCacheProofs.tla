--------------------------- MODULE TtlCacheProofs ---------------------------
(***************************************************************************)
(* Proofs about TtlCache for every set of keys and callers, every TTL and  *)
(* every size bound.                                                       *)
(***************************************************************************)
EXTENDS TtlCache, SequenceTheorems, TLAPS

-----------------------------------------------------------------------------
(* The insertion order as a sequence: removing and adding one key. *)

(* Removing the only occurrence of a key leaves a list of the other keys.  *)
LEMMA RemoveAtListing ==
  ASSUME NEW s \in Seq(Key), NEW D \in SUBSET Key, NEW k \in D, Lists(s, D)
  PROVE  LET t == RemoveAt(s, CHOOSE i \in 1 .. Len(s) : s[i] = k)
         IN  t \in Seq(Key) /\ Len(t) = Len(s) - 1 /\ Lists(t, D \ {k})
<1> DEFINE p == CHOOSE i \in 1 .. Len(s) : s[i] = k
           t == RemoveAt(s, p)
           a == SubSeq(s, 1, p - 1)
           b == SubSeq(s, p + 1, Len(s))
<1>1. p \in 1 .. Len(s) /\ s[p] = k
  BY DEF Lists
<1>2. t = a \o b
  BY DEF RemoveAt
<1> HIDE DEF p, t
<1>3. /\ a \in Seq(Key) /\ Len(a) = p - 1
      /\ \A i \in 1 .. p - 1 : a[i] = s[i]
  <2>1. \A i \in 1 .. p - 1 : s[i] \in Key
    BY <1>1, ElementOfSeq, LenProperties
  <2> QED BY <1>1, <2>1, SubSeqProperties, LenProperties
<1>4. /\ b \in Seq(Key) /\ Len(b) = Len(s) - p
      /\ \A i \in 1 .. Len(s) - p : b[i] = s[p + i]
  <2>1. \A i \in p + 1 .. Len(s) : s[i] \in Key
    BY <1>1, ElementOfSeq, LenProperties
  <2> QED BY <1>1, <2>1, SubSeqProperties, LenProperties
<1> HIDE DEF a, b
<1>5. /\ t \in Seq(Key) /\ Len(t) = Len(s) - 1
      /\ \A i \in 1 .. Len(t) : t[i] = IF i < p THEN s[i] ELSE s[i + 1]
  <2>1. /\ t \in Seq(Key) /\ Len(t) = Len(a) + Len(b)
        /\ \A i \in 1 .. Len(a) + Len(b) : t[i] = IF i <= Len(a) THEN a[i] ELSE b[i - Len(a)]
    BY <1>2, <1>3, <1>4, ConcatProperties
  <2>2. Len(s) \in Nat
    BY LenProperties
  <2>3. Len(a) + Len(b) = Len(s) - 1
    BY <1>1, <1>3, <1>4, <2>2
  <2>4. ASSUME NEW i \in 1 .. Len(t) PROVE t[i] = IF i < p THEN s[i] ELSE s[i + 1]
    <3>1. CASE i < p
      BY <1>1, <1>3, <2>1, <2>2, <2>3, <3>1
    <3>2. CASE i >= p
      <4>1. i - (p - 1) \in 1 .. Len(s) - p
        BY <1>1, <2>1, <2>2, <2>3, <3>2
      <4>2. t[i] = b[i - (p - 1)]
        <5>1. i \in 1 .. Len(a) + Len(b) /\ ~(i <= Len(a)) /\ i - Len(a) = i - (p - 1)
          BY <1>1, <1>3, <2>1, <2>2, <2>3, <3>2
        <5> QED BY <2>1, <5>1
      <4>3. b[i - (p - 1)] = s[p + (i - (p - 1))]
        BY <1>4, <4>1
      <4> QED BY <1>1, <2>2, <3>2, <4>2, <4>3
    <3> QED BY <1>1, <2>1, <2>2, <3>1, <3>2
  <2> QED BY <2>1, <2>3, <2>4
<1>6. ASSUME NEW x \in Key PROVE x \in D \ {k} <=> \E i \in 1 .. Len(t) : t[i] = x
  <2>1. ASSUME x \in D \ {k} PROVE \E i \in 1 .. Len(t) : t[i] = x
    <3>1. PICK i \in 1 .. Len(s) : s[i] = x
      BY <2>1 DEF Lists
    <3>2. CASE i < p
      <4>1. i \in 1 .. Len(t) /\ t[i] = x
        BY <1>1, <1>5, <3>1, <3>2
      <4> QED BY <4>1
    <3>3. CASE i > p
      <4>1. i - 1 \in 1 .. Len(t) /\ t[i - 1] = x
        BY <1>1, <1>5, <3>1, <3>3
      <4> QED BY <4>1
    <3> QED BY <3>1, <3>2, <3>3, <1>1, <2>1
  <2>2. ASSUME NEW i \in 1 .. Len(t), t[i] = x PROVE x \in D \ {k}
    <3>1. PICK j \in 1 .. Len(s) : s[j] = x /\ j # p
      BY <1>1, <1>5, <2>2
    <3> QED BY <3>1, <1>1 DEF Lists
  <2> QED BY <2>1, <2>2
<1>7. \A i, j \in 1 .. Len(t) : t[i] = t[j] => i = j
  BY <1>1, <1>5 DEF Lists
<1> QED BY <1>5, <1>6, <1>7 DEF p, t, Lists

(* Appending a key that is not listed lists it too. *)
LEMMA AppendListing ==
  ASSUME NEW s \in Seq(Key), NEW D \in SUBSET Key, NEW k \in Key \ D, Lists(s, D)
  PROVE  /\ Append(s, k) \in Seq(Key) /\ Len(Append(s, k)) = Len(s) + 1
         /\ Lists(Append(s, k), D \cup {k})
<1> DEFINE t == Append(s, k)
<1>1. /\ t \in Seq(Key) /\ Len(t) = Len(s) + 1
      /\ \A i \in 1 .. Len(s) : t[i] = s[i]
      /\ t[Len(s) + 1] = k
  BY AppendProperties
<1> HIDE DEF t
<1>2. ASSUME NEW x \in Key PROVE x \in D \cup {k} <=> \E i \in 1 .. Len(t) : t[i] = x
  <2>1. ASSUME x \in D PROVE \E i \in 1 .. Len(t) : t[i] = x
    <3>1. PICK i \in 1 .. Len(s) : s[i] = x
      BY <2>1 DEF Lists
    <3> QED BY <1>1, <3>1, LenProperties
  <2>2. k = t[Len(t)] /\ Len(t) \in 1 .. Len(t)
    BY <1>1, LenProperties
  <2>3. ASSUME NEW i \in 1 .. Len(t), t[i] = x PROVE x \in D \cup {k}
    BY <1>1, <2>3, LenProperties DEF Lists
  <2> QED BY <2>1, <2>2, <2>3
<1>3. \A i, j \in 1 .. Len(t) : t[i] = t[j] => i = j
  <2>1. \A i \in 1 .. Len(s) : t[i] # k
    BY <1>1 DEF Lists
  <2> QED BY <1>1, <2>1, LenProperties DEF Lists
<1> QED BY <1>1, <1>2, <1>3 DEF t, Lists

(* Dropping the head leaves a list of the other keys. *)
LEMMA TailListing ==
  ASSUME NEW s \in Seq(Key), NEW D \in SUBSET Key, s # <<>>, Lists(s, D)
  PROVE  /\ Head(s) \in D /\ Tail(s) \in Seq(Key) /\ Len(Tail(s)) = Len(s) - 1
         /\ Lists(Tail(s), D \ {Head(s)})
<1> DEFINE t == Tail(s)
<1>1. /\ t \in Seq(Key) /\ Len(t) = Len(s) - 1
      /\ \A i \in 1 .. Len(t) : t[i] = s[i + 1]
  BY HeadTailProperties
<1>2. Head(s) = s[1] /\ 1 \in 1 .. Len(s) /\ s[1] \in Key
  BY LenProperties, EmptySeq, ElementOfSeq
<1> HIDE DEF t
<1>3. ASSUME NEW x \in Key
      PROVE  x \in D \ {Head(s)} <=> \E i \in 1 .. Len(t) : t[i] = x
  <2>1. ASSUME x \in D \ {Head(s)} PROVE \E i \in 1 .. Len(t) : t[i] = x
    <3>1. PICK i \in 1 .. Len(s) : s[i] = x
      BY <2>1 DEF Lists
    <3>2. i - 1 \in 1 .. Len(t) /\ t[i - 1] = x
      BY <1>1, <1>2, <2>1, <3>1, LenProperties
    <3> QED BY <3>2
  <2>2. ASSUME NEW i \in 1 .. Len(t), t[i] = x PROVE x \in D \ {Head(s)}
    <3>1. i + 1 \in 1 .. Len(s) /\ s[i + 1] = x /\ i + 1 # 1
      BY <1>1, <2>2, LenProperties
    <3> QED BY <3>1, <1>2 DEF Lists
  <2> QED BY <2>1, <2>2
<1>4. \A i, j \in 1 .. Len(t) : t[i] = t[j] => i = j
  BY <1>1, LenProperties DEF Lists
<1> QED BY <1>1, <1>2, <1>3, <1>4 DEF t, Lists

-----------------------------------------------------------------------------
(* How the two store operations change the store and its order. *)

StoreOK == /\ DOMAIN store \subseteq Key /\ \A k \in DOMAIN store : store[k] \in Entry
           /\ order \in Seq(Key)
           /\ BoundedStore

LEMMA OrderWithoutListing ==
  ASSUME StoreOK, NEW k \in Key
  PROVE  /\ OrderWithout(k) \in Seq(Key) /\ Len(OrderWithout(k)) <= MaxEntries
         /\ Lists(OrderWithout(k), DOMAIN store \ {k})
<1>1. CASE k \in DOMAIN store
  <2>1. OrderWithout(k) = RemoveAt(order, CHOOSE i \in 1 .. Len(order) : order[i] = k)
    BY <1>1 DEF OrderWithout
  <2>2. Len(order) \in Nat
    BY LenProperties DEF StoreOK
  <2> QED BY <1>1, <2>1, <2>2, RemoveAtListing, CacheAssumption DEF StoreOK, BoundedStore
<1>2. CASE k \notin DOMAIN store
  <2>1. OrderWithout(k) = order /\ DOMAIN store \ {k} = DOMAIN store
    BY <1>2 DEF OrderWithout
  <2> QED BY <2>1 DEF StoreOK, BoundedStore
<1> QED BY <1>1, <1>2

(* delete and the expiry of get. *)
LEMMA DropKeepsStore ==
  ASSUME StoreOK, NEW k \in Key, store' = Drop(store, k), order' = OrderWithout(k)
  PROVE  StoreOK'
<1>1. /\ DOMAIN store' = DOMAIN store \ {k}
      /\ \A x \in DOMAIN store' : store'[x] = store[x]
  BY DEF Drop
<1>2. BoundedStore' /\ (order \in Seq(Key))'
  BY <1>1, OrderWithoutListing, SMTT(20) DEF BoundedStore, Lists
<1> QED BY <1>1, <1>2 DEF StoreOK

LEMMA DropExpiredKeepsStore ==
  ASSUME StoreOK, NEW k \in Key, DropExpired(k)
  PROVE  /\ StoreOK'
         /\ DOMAIN store' \subseteq DOMAIN store
         /\ \A x \in DOMAIN store' : store'[x] = store[x]
<1>1. CASE UNCHANGED <<store, order>>
  BY <1>1 DEF StoreOK, BoundedStore, Lists
<1>2. CASE store' = Drop(store, k) /\ order' = OrderWithout(k)
  BY <1>2, DropKeepsStore DEF Drop
<1> QED BY <1>1, <1>2 DEF DropExpired

LEMMA WriteStoreKeepsStore ==
  ASSUME StoreOK, NEW k \in Key, NEW v \in Nat, now \in Nat, WriteStore(k, v)
  PROVE  /\ StoreOK'
         /\ \A x \in DOMAIN store' :
              \/ store'[x].value = v /\ x = k
              \/ x \in DOMAIN store /\ store'[x] = store[x]
<1> DEFINE e == [value |-> v, expiresAt |-> now + TtlMs]
           written == Put(store, k, e)
           reordered == Append(OrderWithout(k), k)
           D == DOMAIN store \cup {k}
<1>1. e \in Entry
  BY CacheAssumption DEF Entry
<1>2. /\ DOMAIN written = D
      /\ \A x \in D : written[x] = IF x = k THEN e ELSE store[x]
  BY DEF Put
<1>3. /\ reordered \in Seq(Key) /\ Len(reordered) = Len(OrderWithout(k)) + 1
      /\ Lists(reordered, D)
  <2>1. (DOMAIN store \ {k}) \cup {k} = D
    OBVIOUS
  <2> QED BY <2>1, OrderWithoutListing, AppendListing DEF StoreOK
<1>4. reordered # <<>> /\ Len(reordered) \in Nat
  BY OrderWithoutListing, AppendProperties, <1>3, LenProperties
<1>5. Len(OrderWithout(k)) \in Nat /\ Len(OrderWithout(k)) <= MaxEntries /\ MaxEntries \in Nat
  BY OrderWithoutListing, LenProperties, CacheAssumption
<1>6. D \in SUBSET Key /\ e.value = v
  BY DEF StoreOK
<1>7. WriteStore(k, v) <=> IF Len(reordered) > MaxEntries
                           THEN store' = Drop(written, Head(reordered)) /\ order' = Tail(reordered)
                           ELSE store' = written /\ order' = reordered
  BY DEF WriteStore
<1>8. \A x \in D : written[x] \in Entry
  BY <1>1, <1>2 DEF StoreOK
<1> HIDE DEF e, written, reordered, D
<1>9. CASE Len(reordered) > MaxEntries
  <2> DEFINE h == Head(reordered)
  <2>1. store' = Drop(written, h) /\ order' = Tail(reordered)
    BY <1>7, <1>9
  <2>2. /\ DOMAIN store' = D \ {h}
        /\ \A x \in DOMAIN store' : store'[x] = written[x]
    BY <1>2, <2>1 DEF Drop
  <2>3. /\ Tail(reordered) \in Seq(Key) /\ Len(Tail(reordered)) = Len(reordered) - 1
        /\ Lists(Tail(reordered), D \ {h})
    BY <1>3, <1>4, <1>6, TailListing
  <2>4. Len(order') <= MaxEntries
    BY <1>3, <1>5, <2>1, <2>3
  <2>5. BoundedStore'
    BY <2>1, <2>2, <2>3, <2>4 DEF BoundedStore, Lists
  <2>6. StoreOK'
    BY <1>6, <1>8, <2>1, <2>2, <2>3, <2>5 DEF StoreOK
  <2> QED BY <1>2, <1>6, <2>2, <2>6 DEF D
<1>10. CASE ~(Len(reordered) > MaxEntries)
  <2>1. store' = written /\ order' = reordered
    BY <1>7, <1>10
  <2>2. BoundedStore'
    BY <1>2, <1>3, <1>4, <1>5, <1>10, <2>1 DEF BoundedStore, Lists
  <2>3. StoreOK'
    BY <1>2, <1>3, <1>6, <1>8, <2>1, <2>2 DEF StoreOK
  <2> QED BY <1>2, <1>6, <2>1, <2>3 DEF D
<1> QED BY <1>9, <1>10

-----------------------------------------------------------------------------
(* The inductive invariant: the generation argument, the slots and the     *)
(* freshness they give, on top of the types and the bounded store.         *)

IInv == /\ TypeOK /\ BoundedStore
        /\ NoPinnedPromise /\ SingleFlight /\ GenerationInv
        /\ StoreFresh /\ ServedFresh

(* The shape of a call record, by its pc. *)
LEMMA CallShape ==
  ASSUME TypeOK, NEW x \in Caller
  PROVE  /\ call[x] = Idle \/ Running(x) \/ call[x].pc = "awaiting"
         /\ Running(x) => /\ call[x] \in Fetch /\ call[x].key \in Key
                          /\ call[x].gen \in Nat /\ call[x].value \in Nat
                          /\ call[x].floor \in Nat /\ call[x].superseded \in BOOLEAN
         /\ call[x].pc = "awaiting" => /\ call[x] \in Await /\ call[x].key \in Key
                                       /\ call[x].on \in Caller /\ call[x].floor \in Nat
         /\ call[x].pc = "idle" => call[x] = Idle
<1>1. call[x] \in {Idle} \cup Fetch \cup Await
  BY DEF TypeOK
<1>2. CASE call[x] = Idle
  BY <1>2 DEF Idle, Running
<1>3. CASE call[x] \in Fetch
  BY <1>3 DEF Fetch, Running
<1>4. CASE call[x] \in Await
  BY <1>4 DEF Await, Running
<1> QED BY <1>1, <1>2, <1>3, <1>4

LEMMA InitInv == Init => IInv
<1> SUFFICES ASSUME Init PROVE IInv
  OBVIOUS
<1>1. TypeOK
  BY DEF Init, TypeOK, Result, NoResult
<1>2. BoundedStore
  BY CacheAssumption DEF Init, BoundedStore, Lists
<1>3. NoPinnedPromise /\ SingleFlight /\ GenerationInv /\ StoreFresh /\ ServedFresh
  BY DEF Init, NoPinnedPromise, SingleFlight, GenerationInv, StoreFresh, ServedFresh,
         GenerationTellsSuperseded, AnswerRecent, AwaitedRecent, NotAhead,
         Idle, NoResult, Running
<1> QED BY <1>1, <1>2, <1>3 DEF IInv

LEMMA GetInv ==
  ASSUME IInv, NEW k \in Key, Get(k)
  PROVE  IInv'
<1>1. StoreOK
  BY DEF IInv, TypeOK, StoreOK
<1>2. /\ StoreOK' /\ DOMAIN store' \subseteq DOMAIN store
      /\ \A x \in DOMAIN store' : store'[x] = store[x]
  BY <1>1, DropExpiredKeepsStore DEF Get
<1>3. UNCHANGED <<inflight, generations, call, result, source, floor, now>>
  BY DEF Get
<1>4. (TypeOK /\ BoundedStore)'
  BY <1>2, <1>3 DEF IInv, TypeOK, StoreOK
<1>5. (NoPinnedPromise /\ SingleFlight /\ ServedFresh)'
  BY <1>3 DEF IInv, NoPinnedPromise, SingleFlight, ServedFresh, RunsOn, Running
<1>6. StoreFresh'
  BY <1>2, <1>3 DEF IInv, StoreFresh
<1>7. GenerationInv'
  BY <1>2, <1>3 DEF IInv, GenerationInv, GenerationTellsSuperseded,
     AnswerRecent, AwaitedRecent, NotAhead, Running
<1> QED BY <1>4, <1>5, <1>6, <1>7 DEF IInv

LEMMA HitInv ==
  ASSUME IInv, NEW c \in Caller, NEW k \in Key, Hit(c, k)
  PROVE  IInv'
<1>1. UNCHANGED <<store, order, inflight, generations, call, source, floor, now>>
  BY DEF Hit
<1>2. k \in DOMAIN store /\ store[k].value \in Nat /\ floor[k] \in Nat
      /\ store[k].value >= floor[k]
  BY DEF IInv, Hit, Fresh, TypeOK, Entry, StoreFresh
<1>3. TypeOK'
  BY <1>1, <1>2 DEF IInv, TypeOK, Hit, Result
<1>4. ServedFresh'
  BY <1>2 DEF IInv, TypeOK, Hit, ServedFresh
<1>5. (BoundedStore /\ NoPinnedPromise /\ SingleFlight /\ GenerationInv /\ StoreFresh)'
  BY <1>1 DEF IInv, BoundedStore, Lists, NoPinnedPromise, SingleFlight, GenerationInv,
     GenerationTellsSuperseded, AnswerRecent, AwaitedRecent, NotAhead, StoreFresh, RunsOn, Running
<1> QED BY <1>3, <1>4, <1>5 DEF IInv

LEMMA CoalesceInv ==
  ASSUME IInv, NEW c \in Caller, NEW k \in Key, Coalesce(c, k)
  PROVE  IInv'
<1>1. StoreOK
  BY DEF IInv, TypeOK, StoreOK
<1>2. /\ StoreOK' /\ DOMAIN store' \subseteq DOMAIN store
      /\ \A x \in DOMAIN store' : store'[x] = store[x]
  BY <1>1, DropExpiredKeepsStore DEF Coalesce
<1>3. /\ UNCHANGED <<inflight, generations, source, floor, now>>
      /\ k \in DOMAIN inflight /\ inflight[k] \in Caller /\ call[c].pc = "idle"
      /\ call' = [call EXCEPT ![c] = [pc |-> "awaiting", key |-> k,
                                      on |-> inflight[k], floor |-> floor[k]]]
      /\ result' = [result EXCEPT ![c] = NoResult]
  BY DEF Coalesce, IInv, TypeOK
<1>4. RunsOn(inflight[k], k) /\ inflight[k] # c
  BY <1>3 DEF IInv, NoPinnedPromise, RunsOn, Running
<1>5. (TypeOK /\ BoundedStore)'
  BY <1>2, <1>3 DEF IInv, TypeOK, StoreOK, Await, Result, NoResult
<1>6. ServedFresh'
  BY <1>3 DEF IInv, TypeOK, ServedFresh, NoResult
<1>7. \A x \in Caller : x # c => call'[x] = call[x]
  BY <1>3 DEF IInv, TypeOK
<1>8. call'[c] = [pc |-> "awaiting", key |-> k, on |-> inflight[k], floor |-> floor[k]]
  BY <1>3 DEF IInv, TypeOK
<1>9. NoPinnedPromise'
  BY <1>3, <1>4, <1>7, <1>8 DEF IInv, TypeOK, NoPinnedPromise, RunsOn, Running, Await
<1>10. SingleFlight'
  BY <1>3, <1>7, <1>8 DEF IInv, SingleFlight, Running
<1>11. StoreFresh'
  BY <1>2, <1>3 DEF IInv, StoreFresh
<1>12. GenerationInv'
  BY <1>2, <1>3, <1>4, <1>7, <1>8 DEF IInv, TypeOK, NoPinnedPromise, GenerationInv,
     GenerationTellsSuperseded, AnswerRecent, AwaitedRecent, NotAhead, RunsOn, Running
<1> QED BY <1>5, <1>6, <1>9, <1>10, <1>11, <1>12 DEF IInv

LEMMA CoalesceAbortedInv ==
  ASSUME IInv, NEW c \in Caller, NEW k \in Key, CoalesceAborted(c, k)
  PROVE  IInv'
<1>1. StoreOK
  BY DEF IInv, TypeOK, StoreOK
<1>2. /\ StoreOK' /\ DOMAIN store' \subseteq DOMAIN store
      /\ \A x \in DOMAIN store' : store'[x] = store[x]
  BY <1>1, DropExpiredKeepsStore DEF CoalesceAborted
<1>3. /\ UNCHANGED <<inflight, generations, call, source, floor, now>>
      /\ result' = [result EXCEPT ![c] = Failure("aborted")]
  BY DEF CoalesceAborted
<1>4. (TypeOK /\ BoundedStore)'
  BY <1>2, <1>3 DEF IInv, TypeOK, StoreOK, Result, Failure
<1>5. ServedFresh'
  BY <1>3 DEF IInv, TypeOK, ServedFresh, Failure
<1>6. (NoPinnedPromise /\ SingleFlight)'
  BY <1>3 DEF IInv, NoPinnedPromise, SingleFlight, RunsOn, Running
<1>7. StoreFresh'
  BY <1>2, <1>3 DEF IInv, StoreFresh
<1>8. GenerationInv'
  BY <1>2, <1>3 DEF IInv, GenerationInv, GenerationTellsSuperseded,
     AnswerRecent, AwaitedRecent, NotAhead, Running
<1> QED BY <1>4, <1>5, <1>6, <1>7, <1>8 DEF IInv

LEMMA MissInv ==
  ASSUME IInv, NEW c \in Caller, NEW k \in Key, Miss(c, k)
  PROVE  IInv'
<1> DEFINE r == [pc |-> "fetching", key |-> k, value |-> 0, gen |-> generations[k],
                 floor |-> floor[k], superseded |-> FALSE]
<1>1. StoreOK
  BY DEF IInv, TypeOK, StoreOK
<1>2. /\ StoreOK' /\ DOMAIN store' \subseteq DOMAIN store
      /\ \A x \in DOMAIN store' : store'[x] = store[x]
  BY <1>1, DropExpiredKeepsStore DEF Miss
<1>3. /\ UNCHANGED <<generations, source, floor, now>>
      /\ k \notin DOMAIN inflight /\ call[c].pc = "idle"
      /\ call' = [call EXCEPT ![c] = r]
      /\ result' = [result EXCEPT ![c] = NoResult]
      /\ inflight' = Put(inflight, k, c)
  BY DEF Miss
<1>4. /\ DOMAIN inflight' = DOMAIN inflight \cup {k}
      /\ \A x \in DOMAIN inflight' : inflight'[x] = IF x = k THEN c ELSE inflight[x]
  BY <1>3 DEF Put
<1>5. \A x \in Caller : call'[x] = IF x = c THEN r ELSE call[x]
  BY <1>3 DEF IInv, TypeOK
<1>6. \A x \in DOMAIN inflight : inflight[x] # c
  BY <1>3 DEF IInv, NoPinnedPromise, RunsOn, Running
<1>7. \A w \in Caller : call[w].pc = "awaiting" => call[w].on # c
  BY <1>3 DEF IInv, NoPinnedPromise, RunsOn, Running
<1>8. r \in Fetch /\ NoResult \in Result
  BY DEF IInv, TypeOK, Fetch, NoResult, Result
<1>9. (TypeOK /\ BoundedStore)'
  BY <1>2, <1>3, <1>4, <1>8 DEF IInv, TypeOK, StoreOK
<1>10. ServedFresh'
  BY <1>3 DEF IInv, TypeOK, ServedFresh, NoResult
<1>11. NoPinnedPromise'
  BY <1>3, <1>4, <1>5, <1>6, <1>7 DEF IInv, NoPinnedPromise, RunsOn, Running
<1>12. SingleFlight'
  BY <1>3, <1>4, <1>5 DEF IInv, SingleFlight, Running
<1>13. StoreFresh'
  BY <1>2, <1>3 DEF IInv, StoreFresh
<1>14. GenerationInv'
  BY <1>2, <1>3, <1>4, <1>5, <1>6, <1>7 DEF IInv, TypeOK, GenerationInv, GenerationTellsSuperseded,
     AnswerRecent, AwaitedRecent, NotAhead, Running
<1> QED BY <1>9, <1>10, <1>11, <1>12, <1>13, <1>14 DEF IInv

LEMMA UpstreamAnswersInv ==
  ASSUME IInv, NEW c \in Caller, UpstreamAnswers(c)
  PROVE  IInv'
<1> DEFINE k == call[c].key
           r == [call[c] EXCEPT !.pc = "answered", !.value = source[k]]
<1>1. /\ UNCHANGED <<store, order, inflight, generations, result, source, floor, now>>
      /\ call[c].pc = "fetching"
  BY DEF UpstreamAnswers
<1>2. call[c] \in Fetch /\ k \in Key /\ source[k] \in Nat
  BY <1>1 DEF IInv, TypeOK, Fetch, Idle, Await
<1>3. /\ r.pc = "answered" /\ r.value = source[k] /\ r.key = k /\ r.gen = call[c].gen
      /\ r.floor = call[c].floor /\ r.superseded = call[c].superseded /\ r \in Fetch
  BY <1>2 DEF Fetch
<1>4. call' = [call EXCEPT ![c] = r]
  BY <1>2 DEF UpstreamAnswers, Fetch, IInv, TypeOK
<1>5. \A x \in Caller : call'[x] = IF x = c THEN r ELSE call[x]
  BY <1>4 DEF IInv, TypeOK
<1> HIDE DEF r, k
<1>6. (TypeOK /\ BoundedStore /\ StoreFresh /\ ServedFresh)'
  BY <1>1, <1>3, <1>4 DEF IInv, TypeOK, BoundedStore, Lists, StoreFresh, ServedFresh
<1>12. \A w \in Caller : call[w].pc = "awaiting" => call[w].floor \in Nat /\ call[w].on \in Caller
  BY CallShape DEF IInv
<1>14. /\ \A x \in Caller : call'[x].pc \in {"fetching", "answered"} <=> Running(x)
       /\ \A x \in Caller : call'[x].pc = "awaiting" <=> call[x].pc = "awaiting"
       /\ \A x \in Caller : call'[x].key = call[x].key
       /\ \A x \in Caller : call'[x].floor = call[x].floor
       /\ \A x \in Caller : call[x].pc = "awaiting" => call'[x].on = call[x].on
       /\ \A x \in Caller : Running(x) => /\ call'[x].superseded = call[x].superseded
                                           /\ call'[x].gen = call[x].gen
  BY <1>1, <1>3, <1>5 DEF Running, k
<1>7. (NoPinnedPromise /\ SingleFlight)'
  <2>1. NoPinnedPromise'
    <3>1. ASSUME NEW x \in DOMAIN inflight PROVE RunsOn(inflight[x], x)'
      <4>1. inflight[x] \in Caller /\ Running(inflight[x]) /\ call[inflight[x]].key = x
        BY DEF IInv, TypeOK, NoPinnedPromise, RunsOn
      <4>2. /\ call'[inflight[x]].pc \in {"fetching", "answered"}
            /\ call'[inflight[x]].key = x
        BY <1>14, <4>1
      <4> QED BY <1>1, <4>2 DEF RunsOn, Running
    <3>2. ASSUME NEW w \in Caller, call'[w].pc = "awaiting"
          PROVE  RunsOn(call[w].on, call[w].key)'
      BY <1>1, <1>12, <1>14, <3>2 DEF IInv, NoPinnedPromise, RunsOn, Running
    <3> QED BY <1>1, <3>1, <3>2 DEF NoPinnedPromise
  <2>2. SingleFlight'
    BY <1>1, <1>14 DEF IInv, SingleFlight, Running
  <2> QED BY <2>1, <2>2
<1>8. call[c].floor <= floor[k] /\ floor[k] <= source[k]
  BY <1>1, <1>2 DEF IInv, GenerationInv, NotAhead, k
<1>9. \A x \in DOMAIN inflight : inflight[x] = c => x = k
  BY DEF IInv, NoPinnedPromise, RunsOn, k
<1>10. \A w \in Caller : call[w].pc = "awaiting" /\ call[w].on = c =>
          call[w].key = k /\ call[w].floor <= floor[k]
  BY DEF IInv, NoPinnedPromise, RunsOn, GenerationInv, NotAhead, k
<1>11. floor[k] \in Nat /\ call[c].floor \in Nat
  BY <1>2 DEF IInv, TypeOK, Fetch
<1>13. GenerationInv'
  <2>1. GenerationTellsSuperseded'
    BY <1>1, <1>14 DEF IInv, GenerationInv, GenerationTellsSuperseded, Running
  <2>2. AnswerRecent'
    BY <1>1, <1>2, <1>3, <1>5, <1>8, <1>9, <1>11 DEF IInv, GenerationInv, AnswerRecent
  <2>3. AwaitedRecent'
    BY <1>1, <1>2, <1>3, <1>5, <1>8, <1>10, <1>11, <1>12 DEF IInv, GenerationInv, AwaitedRecent
  <2>4. NotAhead'
    BY <1>1, <1>3, <1>5 DEF IInv, GenerationInv, NotAhead, k
  <2> QED BY <2>1, <2>2, <2>3, <2>4 DEF GenerationInv
<1> QED BY <1>6, <1>7, <1>13 DEF IInv

LEMMA AbortAwaitInv ==
  ASSUME IInv, NEW w \in Caller, AbortAwait(w)
  PROVE  IInv'
<1>1. /\ UNCHANGED <<store, order, inflight, generations, source, floor, now>>
      /\ call[w].pc = "awaiting" /\ call' = [call EXCEPT ![w] = Idle]
      /\ result' = [result EXCEPT ![w] = Failure("aborted")]
  BY DEF AbortAwait
<1>2. \A x \in Caller : call'[x] = IF x = w THEN Idle ELSE call[x]
  BY <1>1 DEF IInv, TypeOK
<1>3. /\ \A x \in DOMAIN inflight : inflight[x] # w
      /\ \A x \in Caller : call[x].pc = "awaiting" => call[x].on # w
  BY <1>1 DEF IInv, NoPinnedPromise, RunsOn, Running
<1>4. (TypeOK /\ BoundedStore /\ StoreFresh /\ ServedFresh)'
  BY <1>1 DEF IInv, TypeOK, BoundedStore, Lists, StoreFresh, ServedFresh, Failure, Result
<1>5. (NoPinnedPromise /\ SingleFlight)'
  BY <1>1, <1>2, <1>3 DEF IInv, NoPinnedPromise, SingleFlight, RunsOn, Running, Idle
<1>6. GenerationInv'
  BY <1>1, <1>2, <1>3 DEF IInv, GenerationInv, GenerationTellsSuperseded,
     AnswerRecent, AwaitedRecent, NotAhead, Running, Idle
<1> QED BY <1>4, <1>5, <1>6 DEF IInv

(* What a settling promise does to the calls, whatever it settles with. *)
LEMMA SettleCalls ==
  ASSUME IInv, NEW c \in Caller, Running(c), NEW kind, NEW v, Settle(c, kind, v), ClearSlot(c)
  PROVE  /\ \A x \in Caller : call'[x] = IF x = c \/ AwaitsOn(x, c) THEN Idle ELSE call[x]
         /\ call' \in [Caller -> {Idle} \cup Fetch \cup Await]
         /\ DOMAIN inflight' \subseteq DOMAIN inflight
         /\ \A x \in DOMAIN inflight' : inflight'[x] = inflight[x] /\ inflight[x] # c
         /\ \A x \in DOMAIN inflight : inflight[x] # c => x \in DOMAIN inflight'
<1>1. /\ \A x \in Caller : call'[x] = IF x = c \/ AwaitsOn(x, c) THEN Idle ELSE call[x]
      /\ call' \in [Caller -> {Idle} \cup Fetch \cup Await]
  BY DEF Settle, IInv, TypeOK
<1>2. \A x \in DOMAIN inflight : inflight[x] = c => x = call[c].key
  BY DEF IInv, NoPinnedPromise, RunsOn
<1>3. /\ DOMAIN inflight' \subseteq DOMAIN inflight
      /\ \A x \in DOMAIN inflight' : inflight'[x] = inflight[x] /\ inflight[x] # c
      /\ \A x \in DOMAIN inflight : inflight[x] # c => x \in DOMAIN inflight'
  BY <1>2 DEF ClearSlot, Drop
<1> QED BY <1>1, <1>3

(* ... and to the invariants that speak of calls and slots only. *)
LEMMA SettleInv ==
  ASSUME IInv, NEW c \in Caller, Running(c), NEW kind, NEW v, Settle(c, kind, v), ClearSlot(c),
         UNCHANGED <<generations, source, floor>>
  PROVE  (NoPinnedPromise /\ SingleFlight /\ GenerationTellsSuperseded
            /\ AnswerRecent /\ AwaitedRecent)'
<1>1. /\ \A x \in Caller : call'[x] = IF x = c \/ AwaitsOn(x, c) THEN Idle ELSE call[x]
      /\ DOMAIN inflight' \subseteq DOMAIN inflight
      /\ \A x \in DOMAIN inflight' : inflight'[x] = inflight[x] /\ inflight[x] # c
      /\ \A x \in DOMAIN inflight : inflight[x] # c => x \in DOMAIN inflight'
  BY SettleCalls
<1>2. \A x \in Caller : call'[x].pc # "idle" => call'[x] = call[x] /\ x # c /\ ~AwaitsOn(x, c)
  BY <1>1 DEF Idle
<1>3. \A x \in Caller : Running(x) /\ x # c => call'[x] = call[x]
  BY <1>1 DEF AwaitsOn, Running
<1>4. NoPinnedPromise'
  <2>1. ASSUME NEW x \in DOMAIN inflight' PROVE RunsOn(inflight[x], x)'
    <3>1. /\ inflight[x] \in Caller /\ inflight'[x] = inflight[x] /\ inflight[x] # c
          /\ Running(inflight[x]) /\ call[inflight[x]].key = x
      BY <1>1 DEF IInv, TypeOK, NoPinnedPromise, RunsOn
    <3> QED BY <1>3, <3>1 DEF RunsOn, Running
  <2>2. ASSUME NEW w \in Caller, call'[w].pc = "awaiting"
        PROVE  RunsOn(call[w].on, call[w].key)'
    <3>1. call'[w] = call[w] /\ call[w].pc = "awaiting" /\ call[w].on # c
      BY <1>2, <2>2 DEF AwaitsOn
    <3>2. /\ call[w].on \in Caller /\ Running(call[w].on)
          /\ call[call[w].on].key = call[w].key
      BY <3>1, CallShape DEF IInv, NoPinnedPromise, RunsOn
    <3> QED BY <1>3, <3>1, <3>2 DEF RunsOn, Running
  <2> QED BY <2>1, <2>2 DEF NoPinnedPromise
<1>5. SingleFlight'
  <2> SUFFICES ASSUME NEW x \in Caller, Running(x)', ~call'[x].superseded
               PROVE  call'[x].key \in DOMAIN inflight' /\ inflight'[call'[x].key] = x
    BY DEF SingleFlight
  <2>1. call'[x] = call[x] /\ x # c
    BY <1>2 DEF Running
  <2>2. call[x].key \in DOMAIN inflight /\ inflight[call[x].key] = x
    BY <2>1 DEF IInv, SingleFlight, Running
  <2> QED BY <1>1, <2>1, <2>2
<1>6. GenerationTellsSuperseded'
  BY <1>2 DEF IInv, GenerationInv, GenerationTellsSuperseded, Running
<1>7. AnswerRecent'
  <2> SUFFICES ASSUME NEW x \in Caller, call'[x].pc = "answered"
               PROVE  /\ call'[x].floor <= call'[x].value
                      /\ call'[x].value <= source'[call'[x].key]
                      /\ \A k \in DOMAIN inflight' :
                           inflight'[k] = x => floor'[k] <= call'[x].value
    BY DEF AnswerRecent
  <2>1. call'[x] = call[x]
    BY <1>2
  <2> QED BY <1>1, <2>1 DEF IInv, GenerationInv, AnswerRecent
<1>8. AwaitedRecent'
  <2> SUFFICES ASSUME NEW w \in Caller, call'[w].pc = "awaiting",
                      call'[call'[w].on].pc = "answered"
               PROVE  call'[w].floor <= call'[call'[w].on].value
    BY DEF AwaitedRecent
  <2>1. call'[w] = call[w] /\ call[w].on \in Caller
    BY <1>2, CallShape DEF IInv
  <2>2. call'[call[w].on] = call[call[w].on]
    BY <1>2, <2>1
  <2> QED BY <2>1, <2>2 DEF IInv, GenerationInv, AwaitedRecent
<1> QED BY <1>4, <1>5, <1>6, <1>7, <1>8

LEMMA FetchResolvesInv ==
  ASSUME IInv, NEW c \in Caller, FetchResolves(c)
  PROVE  IInv'
<1> DEFINE k == call[c].key
           v == call[c].value
<1>1. /\ call[c].pc = "answered" /\ Running(c)
      /\ ClearSlot(c) /\ Settle(c, "value", v)
      /\ UNCHANGED <<generations, source, floor, now>>
      /\ IF generations[k] = call[c].gen THEN WriteStore(k, v) ELSE UNCHANGED <<store, order>>
  BY DEF FetchResolves, Running
<1>2. k \in Key /\ v \in Nat /\ call[c].gen \in Nat /\ now \in Nat /\ floor[k] \in Nat
  BY <1>1, CallShape DEF IInv, TypeOK
<1>3. StoreOK
  BY DEF IInv, TypeOK, StoreOK
<1>4. call[c].floor <= v /\ v <= source[k]
  BY <1>1 DEF IInv, GenerationInv, AnswerRecent
<1>5. ASSUME generations[k] = call[c].gen PROVE floor[k] <= v
  <2>1. ~call[c].superseded
    BY <1>1, <1>5 DEF IInv, GenerationInv, GenerationTellsSuperseded
  <2>2. k \in DOMAIN inflight /\ inflight[k] = c
    BY <1>1, <2>1 DEF IInv, SingleFlight
  <2> QED BY <1>1, <2>2 DEF IInv, GenerationInv, AnswerRecent
<1>6. /\ StoreOK'
      /\ \A x \in DOMAIN store' :
           \/ /\ store'[x].value = v /\ x = k /\ generations[k] = call[c].gen
           \/ x \in DOMAIN store /\ store'[x] = store[x]
  <2>1. CASE generations[k] = call[c].gen
    BY <1>1, <1>2, <1>3, <2>1, WriteStoreKeepsStore
  <2>2. CASE generations[k] # call[c].gen
    BY <1>1, <1>3, <2>2 DEF StoreOK, BoundedStore, Lists
  <2> QED BY <2>1, <2>2
<1>7. (NoPinnedPromise /\ SingleFlight /\ GenerationTellsSuperseded /\ AnswerRecent
         /\ AwaitedRecent)'
  BY <1>1, SettleInv
<1>8. /\ \A x \in Caller : call'[x] = IF x = c \/ AwaitsOn(x, c) THEN Idle ELSE call[x]
      /\ call' \in [Caller -> {Idle} \cup Fetch \cup Await]
      /\ DOMAIN inflight' \subseteq DOMAIN inflight
      /\ \A x \in DOMAIN inflight' : inflight'[x] = inflight[x]
  BY <1>1, SettleCalls
<1>9. \A x \in Caller : x = c \/ AwaitsOn(x, c) => call[x].floor \in Nat /\ call[x].floor <= v
  BY <1>1, <1>4, CallShape DEF IInv, GenerationInv, AwaitedRecent, AwaitsOn
<1>10. \A x \in Caller :
         result'[x] = IF x = c \/ AwaitsOn(x, c)
                      THEN [kind |-> "value", value |-> v, floor |-> call[x].floor]
                      ELSE result[x]
  BY <1>1 DEF Settle
<1>11. result' \in [Caller -> Result]
  <2>1. result' = [x \in Caller |-> result'[x]]
    BY <1>1 DEF Settle
  <2>2. ASSUME NEW x \in Caller PROVE result'[x] \in Result
    <3>1. CASE x = c \/ AwaitsOn(x, c)
      <4>1. result'[x] = [kind |-> "value", value |-> v, floor |-> call[x].floor]
        BY <1>10, <3>1
      <4>2. call[x].floor \in Nat
        BY <1>9, <3>1
      <4> QED BY <1>2, <4>1, <4>2 DEF Result
    <3>2. CASE ~(x = c \/ AwaitsOn(x, c))
      BY <1>10, <3>2 DEF IInv, TypeOK
    <3> QED BY <3>1, <3>2
  <2> QED BY <2>1, <2>2
<1> HIDE DEF k, v
<1>12. (TypeOK /\ BoundedStore)'
  BY <1>1, <1>6, <1>8, <1>11 DEF IInv, TypeOK, StoreOK
<1>13. StoreFresh'
  BY <1>1, <1>2, <1>5, <1>6 DEF IInv, StoreFresh
<1>14. ServedFresh'
  <2> SUFFICES ASSUME NEW x \in Caller, result'[x].kind = "value"
               PROVE  result'[x].value >= result'[x].floor
    BY DEF ServedFresh
  <2>1. CASE x = c \/ AwaitsOn(x, c)
    <3>1. result'[x] = [kind |-> "value", value |-> v, floor |-> call[x].floor]
      BY <1>10, <2>1
    <3>2. call[x].floor \in Nat /\ call[x].floor <= v
      BY <1>9, <2>1
    <3> QED BY <1>2, <3>1, <3>2
  <2>2. CASE ~(x = c \/ AwaitsOn(x, c))
    BY <1>10, <2>2 DEF IInv, ServedFresh
  <2> QED BY <2>1, <2>2
<1>15. NotAhead'
  <2>1. \A x \in Caller : call'[x].pc # "idle" => call'[x] = call[x]
    BY <1>8 DEF Idle
  <2> QED BY <1>1, <1>4, <1>6, <2>1 DEF IInv, GenerationInv, NotAhead
<1> QED BY <1>7, <1>12, <1>13, <1>14, <1>15 DEF IInv, GenerationInv

LEMMA FetchRejectsInv ==
  ASSUME IInv, NEW c \in Caller, NEW kind \in {"error", "aborted"}, FetchRejects(c, kind)
  PROVE  IInv'
<1>1. /\ Running(c) /\ ClearSlot(c) /\ Settle(c, kind, 0)
      /\ UNCHANGED <<store, order, generations, source, floor, now>>
  BY DEF FetchRejects
<1>2. (NoPinnedPromise /\ SingleFlight /\ GenerationTellsSuperseded /\ AnswerRecent
         /\ AwaitedRecent)'
  BY <1>1, SettleInv
<1>3. /\ \A x \in Caller : call'[x] = IF x = c \/ AwaitsOn(x, c) THEN Idle ELSE call[x]
      /\ call' \in [Caller -> {Idle} \cup Fetch \cup Await]
      /\ DOMAIN inflight' \subseteq DOMAIN inflight
      /\ \A x \in DOMAIN inflight' : inflight'[x] = inflight[x]
  BY <1>1, SettleCalls
<1>4. /\ result' = [x \in Caller |-> result'[x]]
      /\ \A x \in Caller : result'[x] = result[x] \/ result'[x] = Failure(kind)
  BY <1>1 DEF Settle
<1>5. Failure(kind) \in Result /\ Failure(kind).kind # "value"
  BY DEF Failure, Result
<1>6. result' \in [Caller -> Result]
  BY <1>4, <1>5 DEF IInv, TypeOK
<1>7. (TypeOK /\ BoundedStore /\ StoreFresh)'
  BY <1>1, <1>3, <1>6 DEF IInv, TypeOK, BoundedStore, Lists, StoreFresh
<1>8. ServedFresh'
  BY <1>4, <1>5 DEF IInv, ServedFresh
<1>9. NotAhead'
  <2>1. \A x \in Caller : call'[x].pc # "idle" => call'[x] = call[x]
    BY <1>3 DEF Idle
  <2> QED BY <1>1, <2>1 DEF IInv, GenerationInv, NotAhead
<1> QED BY <1>2, <1>7, <1>8, <1>9 DEF IInv, GenerationInv

-----------------------------------------------------------------------------
(* set, invalidate and clear. *)

LEMMA SupersedeCalls ==
  ASSUME TypeOK, NEW K, Supersede(K)
  PROVE  /\ call' \in [Caller -> {Idle} \cup Fetch \cup Await]
         /\ \A x \in Caller :
              /\ call'[x].pc = call[x].pc /\ call'[x].floor = call[x].floor
              /\ Running(x) => call'[x].key = call[x].key
              /\ Running(x) => call'[x].gen = call[x].gen /\ call'[x].value = call[x].value
              /\ call[x].pc = "awaiting" => call'[x] = call[x]
              /\ Running(x) /\ call[x].key \in K => call'[x].superseded = TRUE
              /\ ~(Running(x) /\ call[x].key \in K) => call'[x] = call[x]
<1>1. ASSUME NEW x \in Caller, Running(x), call[x].key \in K
      PROVE  /\ call'[x] = [call[x] EXCEPT !.superseded = TRUE]
             /\ call[x] \in Fetch
  BY <1>1, CallShape DEF Supersede
<1>2. ASSUME NEW x \in Caller, ~(Running(x) /\ call[x].key \in K) PROVE call'[x] = call[x]
  BY <1>2 DEF Supersede
<1>3. ASSUME NEW r \in Fetch
      PROVE  LET s == [r EXCEPT !.superseded = TRUE]
             IN  /\ s \in Fetch /\ s.pc = r.pc /\ s.floor = r.floor /\ s.key = r.key
                 /\ s.gen = r.gen /\ s.value = r.value /\ s.superseded = TRUE
  BY DEF Fetch
<1>4. ASSUME NEW x \in Caller PROVE call'[x] \in {Idle} \cup Fetch \cup Await
  <2>1. CASE Running(x) /\ call[x].key \in K
    BY <1>1, <1>3, <2>1
  <2>2. CASE ~(Running(x) /\ call[x].key \in K)
    BY <1>2, <2>2 DEF TypeOK
  <2> QED BY <2>1, <2>2
<1>5. call' = [x \in Caller |-> call'[x]]
  BY DEF Supersede
<1>6. \A x \in Caller : call[x].pc = "awaiting" => ~Running(x)
  BY DEF Running
<1> QED BY <1>1, <1>2, <1>3, <1>4, <1>5, <1>6, ZenonT(60)

(* The parts of the invariant that survive marking fetches as superseded,  *)
(* when the slots shrink and the floors do not go down.                    *)
LEMMA SupersedeKeepsSlots ==
  ASSUME IInv, NEW K, Supersede(K), UNCHANGED source,
         DOMAIN inflight' \subseteq DOMAIN inflight,
         \A x \in DOMAIN inflight' : inflight'[x] = inflight[x] /\ floor'[x] = floor[x],
         \A x \in DOMAIN inflight \ DOMAIN inflight' : x \in K,
         \A x \in Key : floor'[x] = floor[x] \/ floor'[x] = source[x]
  PROVE  (NoPinnedPromise /\ SingleFlight /\ AnswerRecent /\ AwaitedRecent)'
         /\ \A x \in Key : floor'[x] \in Nat /\ floor[x] <= floor'[x] /\ floor'[x] <= source'[x]
<1>1. /\ \A x \in Caller :
              /\ call'[x].pc = call[x].pc /\ call'[x].floor = call[x].floor
              /\ Running(x) => call'[x].key = call[x].key
              /\ Running(x) => call'[x].gen = call[x].gen /\ call'[x].value = call[x].value
              /\ call[x].pc = "awaiting" => call'[x] = call[x]
              /\ Running(x) /\ call[x].key \in K => call'[x].superseded = TRUE
              /\ ~(Running(x) /\ call[x].key \in K) => call'[x] = call[x]
  BY SupersedeCalls DEF IInv
<1>2. \A x \in Caller : call[x].pc = "awaiting" => call[x].on \in Caller /\ call[x].key \in Key
  BY CallShape DEF IInv
<1>3. NoPinnedPromise'
  <2>1. ASSUME NEW x \in DOMAIN inflight' PROVE RunsOn(inflight[x], x)'
    <3>1. /\ inflight[x] \in Caller /\ inflight'[x] = inflight[x]
          /\ Running(inflight[x]) /\ call[inflight[x]].key = x
      BY DEF IInv, TypeOK, NoPinnedPromise, RunsOn
    <3> QED BY <1>1, <3>1 DEF RunsOn, Running
  <2>2. ASSUME NEW w \in Caller, call'[w].pc = "awaiting"
        PROVE  RunsOn(call[w].on, call[w].key)'
    <3>1. /\ call'[w] = call[w] /\ call[w].on \in Caller
          /\ Running(call[w].on) /\ call[call[w].on].key = call[w].key
      BY <1>1, <1>2, <2>2 DEF IInv, NoPinnedPromise, RunsOn
    <3> QED BY <1>1, <3>1 DEF RunsOn, Running
  <2> QED BY <2>1, <2>2 DEF NoPinnedPromise
<1>4. SingleFlight'
  <2> SUFFICES ASSUME NEW x \in Caller, Running(x)', ~call'[x].superseded
               PROVE  call'[x].key \in DOMAIN inflight' /\ inflight'[call'[x].key] = x
    BY DEF SingleFlight
  <2>1. Running(x) /\ call[x].key \notin K /\ call'[x] = call[x]
    BY <1>1 DEF Running
  <2>2. call[x].key \in DOMAIN inflight /\ inflight[call[x].key] = x
    BY <2>1 DEF IInv, SingleFlight
  <2> QED BY <2>1, <2>2
<1>5. AnswerRecent'
  <2> SUFFICES ASSUME NEW x \in Caller, call'[x].pc = "answered"
               PROVE  /\ call'[x].floor <= call'[x].value
                      /\ call'[x].value <= source'[call'[x].key]
                      /\ \A k \in DOMAIN inflight' :
                           inflight'[k] = x => floor'[k] <= call'[x].value
    BY DEF AnswerRecent
  <2>1. /\ call[x].pc = "answered" /\ call'[x].floor = call[x].floor
        /\ call'[x].key = call[x].key /\ call'[x].value = call[x].value
    BY <1>1 DEF Running
  <2> QED BY <2>1 DEF IInv, GenerationInv, AnswerRecent
<1>6. AwaitedRecent'
  <2> SUFFICES ASSUME NEW w \in Caller, call'[w].pc = "awaiting",
                      call'[call'[w].on].pc = "answered"
               PROVE  call'[w].floor <= call'[call'[w].on].value
    BY DEF AwaitedRecent
  <2>1. call'[w] = call[w] /\ call[w].on \in Caller /\ call[w].pc = "awaiting"
    BY <1>1, <1>2
  <2>2. call[call[w].on].pc = "answered" /\ call'[call[w].on].value = call[call[w].on].value
    BY <1>1, <2>1 DEF Running
  <2> QED BY <2>1, <2>2 DEF IInv, GenerationInv, AwaitedRecent
<1>7. \A x \in Key : floor'[x] \in Nat /\ floor[x] <= floor'[x] /\ floor'[x] <= source'[x]
  BY DEF IInv, TypeOK, GenerationInv, NotAhead
<1> QED BY <1>3, <1>4, <1>5, <1>6, <1>7

(* ... and the generation check, when the bumped keys include every        *)
(* superseded key on which a fetch runs.                                   *)
LEMMA BumpTellsSuperseded ==
  ASSUME IInv, NEW K, Supersede(K),
         \A x \in Key : x \notin K => generations'[x] = generations[x],
         \A x \in Caller : Running(x) /\ call[x].key \in K =>
           generations'[call[x].key] = generations[call[x].key] + 1
  PROVE  GenerationTellsSuperseded'
<1> SUFFICES ASSUME NEW x \in Caller, Running(x)'
             PROVE  /\ call'[x].gen <= generations'[call'[x].key]
                    /\ call'[x].superseded <=> call'[x].gen # generations'[call'[x].key]
  BY DEF GenerationTellsSuperseded
<1>1. /\ Running(x) /\ call'[x].key = call[x].key /\ call'[x].gen = call[x].gen
      /\ call[x].key \in K => call'[x].superseded = TRUE
      /\ call[x].key \notin K => call'[x] = call[x]
  BY SupersedeCalls DEF IInv, Running
<1>2. /\ call[x].gen <= generations[call[x].key] /\ call[x].gen \in Nat
      /\ call[x].superseded <=> call[x].gen # generations[call[x].key]
      /\ call[x].key \in Key /\ generations[call[x].key] \in Nat
  BY <1>1, CallShape DEF IInv, TypeOK, GenerationInv, GenerationTellsSuperseded
<1>3. CASE call[x].key \in K
  BY <1>1, <1>2, <1>3
<1>4. CASE call[x].key \notin K
  BY <1>1, <1>2, <1>4
<1> QED BY <1>3, <1>4

LEMMA SetInv ==
  ASSUME IInv, NEW k \in Key, NEW v \in Nat, Set(k, v)
  PROVE  IInv'
<1>1. /\ UNCHANGED <<inflight, result, source, floor, now>>
      /\ v \in floor[k] .. source[k]
      /\ generations' = [generations EXCEPT ![k] = @ + 1]
      /\ WriteStore(k, v) /\ Supersede({k})
  BY DEF Set
<1>2. (NoPinnedPromise /\ SingleFlight /\ AnswerRecent /\ AwaitedRecent)'
  BY <1>1, SupersedeKeepsSlots
<1>3. /\ StoreOK'
      /\ \A x \in DOMAIN store' :
           \/ store'[x].value = v /\ x = k
           \/ x \in DOMAIN store /\ store'[x] = store[x]
  <2>1. StoreOK /\ now \in Nat
    BY DEF IInv, TypeOK, StoreOK
  <2> QED BY <1>1, <2>1, WriteStoreKeepsStore
<1>4. /\ call' \in [Caller -> {Idle} \cup Fetch \cup Await]
      /\ \A x \in Caller :
           /\ call'[x].pc = call[x].pc /\ call'[x].floor = call[x].floor
           /\ Running(x) => call'[x].key = call[x].key
           /\ Running(x) => call'[x].gen = call[x].gen /\ call'[x].value = call[x].value
           /\ call[x].pc = "awaiting" => call'[x] = call[x]
           /\ Running(x) /\ call[x].key \in {k} => call'[x].superseded = TRUE
           /\ ~(Running(x) /\ call[x].key \in {k}) => call'[x] = call[x]
  BY <1>1, SupersedeCalls DEF IInv
<1>5. generations' \in [Key -> Nat]
      /\ \A x \in Key : generations'[x] = IF x = k THEN generations[x] + 1 ELSE generations[x]
  BY <1>1 DEF IInv, TypeOK
<1>6. (TypeOK /\ BoundedStore)'
  BY <1>1, <1>3, <1>4, <1>5 DEF IInv, TypeOK, StoreOK
<1>7. floor[k] <= v /\ v <= source[k] /\ floor[k] \in Nat /\ source[k] \in Nat
  BY <1>1 DEF IInv, TypeOK
<1>8. StoreFresh' /\ ServedFresh'
  BY <1>1, <1>3, <1>7 DEF IInv, StoreFresh, ServedFresh
<1>9. NotAhead'
  <2>1. \A x \in Caller : call'[x].pc # "idle" => call'[x].key = call[x].key
    BY <1>4, CallShape DEF IInv, Idle
  <2> QED BY <1>1, <1>3, <1>4, <1>7, <2>1 DEF IInv, GenerationInv, NotAhead
<1>10. GenerationTellsSuperseded'
  BY <1>1, <1>5, BumpTellsSuperseded, CallShape DEF IInv
<1> QED BY <1>2, <1>6, <1>8, <1>9, <1>10 DEF IInv, GenerationInv

LEMMA InvalidateInv ==
  ASSUME IInv, NEW k \in Key, Invalidate(k)
  PROVE  IInv'
<1>1. /\ UNCHANGED <<result, source, now>>
      /\ store' = Drop(store, k) /\ order' = OrderWithout(k)
      /\ generations' = [generations EXCEPT ![k] = @ + 1]
      /\ inflight' = Drop(inflight, k)
      /\ Supersede({k})
      /\ floor' = [floor EXCEPT ![k] = source[k]]
  BY DEF Invalidate
<1>2. /\ DOMAIN inflight' = DOMAIN inflight \ {k} /\ DOMAIN store' = DOMAIN store \ {k}
      /\ \A x \in DOMAIN inflight' : inflight'[x] = inflight[x]
      /\ \A x \in DOMAIN store' : store'[x] = store[x]
  BY <1>1 DEF Drop
<1>3. /\ floor' \in [Key -> Nat] /\ generations' \in [Key -> Nat]
      /\ \A x \in Key : floor'[x] = IF x = k THEN source[x] ELSE floor[x]
      /\ \A x \in Key : generations'[x] = IF x = k THEN generations[x] + 1 ELSE generations[x]
  BY <1>1 DEF IInv, TypeOK
<1>4. \A x \in DOMAIN inflight' : floor'[x] = floor[x]
  BY <1>2, <1>3 DEF IInv, TypeOK
<1>5. /\ (NoPinnedPromise /\ SingleFlight /\ AnswerRecent /\ AwaitedRecent)'
      /\ \A x \in Key : floor'[x] \in Nat /\ floor[x] <= floor'[x] /\ floor'[x] <= source'[x]
  BY <1>1, <1>2, <1>3, <1>4, SupersedeKeepsSlots
<1>6. StoreOK'
  <2>1. StoreOK
    BY DEF IInv, TypeOK, StoreOK
  <2> QED BY <1>1, <2>1, DropKeepsStore
<1>7. /\ call' \in [Caller -> {Idle} \cup Fetch \cup Await]
      /\ \A x \in Caller : /\ call'[x].pc = call[x].pc /\ call'[x].floor = call[x].floor
                           /\ call[x].pc # "idle" => call'[x].key = call[x].key
  BY <1>1, SupersedeCalls, CallShape DEF IInv, Idle
<1>8. (TypeOK /\ BoundedStore)'
  BY <1>1, <1>2, <1>3, <1>6, <1>7 DEF IInv, TypeOK, StoreOK
<1>9. StoreFresh' /\ ServedFresh'
  BY <1>1, <1>2, <1>3 DEF IInv, TypeOK, StoreFresh, ServedFresh
<1>10. NotAhead'
  <2>1. ASSUME NEW x \in Caller, call'[x].pc # "idle"
        PROVE  call'[x].floor <= floor'[call'[x].key]
    <3>1. call[x].key \in Key /\ call[x].floor \in Nat /\ call[x].floor <= floor[call[x].key]
      BY <1>7, <2>1, CallShape DEF IInv, GenerationInv, NotAhead, Idle
    <3>2. floor[call[x].key] \in Nat /\ floor'[call[x].key] \in Nat
      BY <1>5, <3>1 DEF IInv, TypeOK
    <3> QED BY <1>5, <1>7, <2>1, <3>1, <3>2
  <2> QED BY <1>1, <1>2, <1>5, <2>1 DEF IInv, GenerationInv, NotAhead
<1>11. GenerationTellsSuperseded'
  BY <1>1, <1>3, BumpTellsSuperseded, CallShape DEF IInv
<1> QED BY <1>5, <1>8, <1>9, <1>10, <1>11 DEF IInv, GenerationInv

LEMMA ClearInv ==
  ASSUME IInv, Clear
  PROVE  IInv'
<1> DEFINE known == {x \in Key : generations[x] > 0} \cup DOMAIN inflight
<1>1. /\ UNCHANGED <<result, source, now>>
      /\ store' = [x \in {} |-> 0] /\ order' = <<>>
      /\ generations' = [x \in Key |-> IF x \in known THEN generations[x] + 1 ELSE generations[x]]
      /\ inflight' = [x \in {} |-> 0]
      /\ Supersede(Key)
      /\ floor' = source
  BY DEF Clear, KnownKeys
<1>2. DOMAIN inflight' = {} /\ DOMAIN store' = {}
  BY <1>1
<1>3. /\ floor' \in [Key -> Nat] /\ generations' \in [Key -> Nat]
      /\ \A x \in known : x \in Key => generations'[x] = generations[x] + 1
  BY <1>1 DEF IInv, TypeOK
<1>4. /\ (NoPinnedPromise /\ SingleFlight /\ AnswerRecent /\ AwaitedRecent)'
      /\ \A x \in Key : floor'[x] \in Nat /\ floor[x] <= floor'[x] /\ floor'[x] <= source'[x]
  <2>1. DOMAIN inflight \subseteq Key
    BY DEF IInv, TypeOK
  <2> QED BY <1>1, <1>2, <2>1, SupersedeKeepsSlots
<1>5. BoundedStore'
  BY <1>1, <1>2, CacheAssumption DEF BoundedStore, Lists
<1>6. /\ call' \in [Caller -> {Idle} \cup Fetch \cup Await]
      /\ \A x \in Caller : /\ call'[x].pc = call[x].pc /\ call'[x].floor = call[x].floor
                           /\ call[x].pc # "idle" => call'[x].key = call[x].key
  BY <1>1, SupersedeCalls, CallShape DEF IInv, Idle
<1>7. TypeOK'
  BY <1>1, <1>2, <1>3, <1>6 DEF IInv, TypeOK
<1>8. StoreFresh' /\ ServedFresh'
  BY <1>1, <1>2 DEF IInv, StoreFresh, ServedFresh
<1>9. NotAhead'
  <2>1. ASSUME NEW x \in Caller, call'[x].pc # "idle"
        PROVE  call'[x].floor <= floor'[call'[x].key]
    <3>1. call[x].key \in Key /\ call[x].floor \in Nat /\ call[x].floor <= floor[call[x].key]
      BY <1>6, <2>1, CallShape DEF IInv, GenerationInv, NotAhead, Idle
    <3>2. floor[call[x].key] \in Nat /\ floor'[call[x].key] \in Nat
      BY <1>4, <3>1 DEF IInv, TypeOK
    <3> QED BY <1>4, <1>6, <2>1, <3>1, <3>2
  <2> QED BY <1>1, <1>2, <1>4, <2>1 DEF NotAhead
<1>10. ASSUME NEW x \in Caller, Running(x) PROVE call[x].key \in known
  <2>1. call[x].gen \in Nat /\ call[x].key \in Key /\ generations[call[x].key] \in Nat
    BY <1>10, CallShape DEF IInv, TypeOK
  <2>2. CASE call[x].superseded
    BY <1>10, <2>1, <2>2 DEF IInv, GenerationInv, GenerationTellsSuperseded
  <2>3. CASE ~call[x].superseded
    BY <1>10, <2>3 DEF IInv, SingleFlight
  <2> QED BY <2>2, <2>3
<1>11. GenerationTellsSuperseded'
  <2>1. \A x \in Caller : Running(x) => call[x].key \in Key
    BY CallShape DEF IInv
  <2> HIDE DEF known
  <2> QED BY <1>1, <1>3, <1>10, <2>1, BumpTellsSuperseded
<1> QED BY <1>4, <1>5, <1>7, <1>8, <1>9, <1>11 DEF IInv, GenerationInv

-----------------------------------------------------------------------------
(* The environment. *)

LEMMA SourceChangesInv ==
  ASSUME IInv, NEW k \in Key, SourceChanges(k)
  PROVE  IInv'
<1>1. UNCHANGED <<store, order, inflight, generations, call, result, floor, now>>
  BY DEF SourceChanges
<1>2. source' \in [Key -> Nat] /\ \A x \in Key : source[x] \in Nat /\ source'[x] \in Nat /\ source[x] <= source'[x]
  BY DEF SourceChanges, IInv, TypeOK
<1>3. (TypeOK /\ BoundedStore /\ StoreFresh /\ ServedFresh)'
  BY <1>1, <1>2 DEF IInv, TypeOK, BoundedStore, Lists, StoreFresh, ServedFresh
<1>4. (NoPinnedPromise /\ SingleFlight /\ GenerationTellsSuperseded /\ AwaitedRecent)'
  BY <1>1 DEF IInv, NoPinnedPromise, SingleFlight, GenerationInv, GenerationTellsSuperseded,
     AwaitedRecent, RunsOn, Running
<1>5. AnswerRecent'
  <2>1. ASSUME NEW x \in Caller, call[x].pc = "answered"
        PROVE  call[x].value <= source'[call[x].key]
    <3>1. call[x].key \in Key /\ call[x].value \in Nat
      BY <2>1, CallShape DEF IInv, Running
    <3>2. call[x].value <= source[call[x].key]
      BY <2>1 DEF IInv, GenerationInv, AnswerRecent
    <3> QED BY <1>2, <3>1, <3>2
  <2> QED BY <1>1, <2>1 DEF IInv, GenerationInv, AnswerRecent
<1>6. NotAhead'
  <2>1. ASSUME NEW x \in DOMAIN store PROVE store[x].value <= source'[x]
    BY <1>2 DEF IInv, TypeOK, Entry, GenerationInv, NotAhead
  <2>2. ASSUME NEW x \in Key PROVE floor[x] <= source'[x]
    BY <1>2 DEF IInv, TypeOK, GenerationInv, NotAhead
  <2> QED BY <1>1, <2>1, <2>2 DEF IInv, GenerationInv, NotAhead
<1> QED BY <1>3, <1>4, <1>5, <1>6 DEF IInv, GenerationInv

LEMMA UnchangedInv ==
  ASSUME IInv,
         UNCHANGED <<store, order, inflight, generations, call, result, source, floor>>,
         now' \in Nat
  PROVE  IInv'
BY DEF IInv, TypeOK, BoundedStore, Lists, NoPinnedPromise, SingleFlight, GenerationInv,
   GenerationTellsSuperseded, AnswerRecent, AwaitedRecent, NotAhead, StoreFresh, ServedFresh,
   RunsOn, Running

LEMMA NextInv == IInv /\ [Next]_vars => IInv'
<1> SUFFICES ASSUME IInv, [Next]_vars PROVE IInv'
  OBVIOUS
<1>1. ASSUME NEW c \in Caller, NEW k \in Key, CallStep(c, k) PROVE IInv'
  BY <1>1, HitInv, CoalesceInv, CoalesceAbortedInv, MissInv DEF CallStep
<1>2. ASSUME NEW c \in Caller, FetchStep(c) PROVE IInv'
  BY <1>2, UpstreamAnswersInv, FetchResolvesInv, FetchRejectsInv DEF FetchStep
<1>3. ASSUME NEW k \in Key, MaintainStep(k) PROVE IInv'
  <2>1. \A v \in 0 .. MaxVersion : v \in Nat
    BY CacheAssumption
  <2> QED BY <1>3, <2>1, GetInv, InvalidateInv, SetInv DEF MaintainStep
<1>4. CASE Tick
  BY <1>4, UnchangedInv DEF Tick, IInv, TypeOK
<1>5. CASE UNCHANGED vars
  BY <1>5, UnchangedInv DEF vars, IInv, TypeOK
<1> QED BY <1>1, <1>2, <1>3, <1>4, <1>5, AbortAwaitInv, SourceChangesInv, ClearInv DEF Next

-----------------------------------------------------------------------------
(* The results, for every number of keys and callers.                      *)

(* The inductive invariant holds in every reachable state. *)
THEOREM Invariance == Spec => []IInv
BY InitInv, NextInv, PTL DEF Spec

(* The Maps, calls and results of the cache keep their types. *)
THEOREM TypeCorrect == Spec => []TypeOK
<1>1. IInv => TypeOK
  BY DEF IInv
<1> QED BY <1>1, Invariance, PTL

(* A call made after an invalidation of its key never returns a value read *)
(* from the upstream before it.                                            *)
THEOREM ReadsAreFresh == Spec => []ServedFresh
<1>1. IInv => ServedFresh
  BY DEF IInv
<1> QED BY <1>1, Invariance, PTL

(* Nothing read before the last invalidation of a key is in the store. *)
THEOREM StoreIsFresh == Spec => []StoreFresh
<1>1. IInv => StoreFresh
  BY DEF IInv
<1> QED BY <1>1, Invariance, PTL

(* A slot always holds a running fetch of its key, and a coalesced caller  *)
(* always awaits one.                                                      *)
THEOREM SlotsAreLive == Spec => []NoPinnedPromise
<1>1. IInv => NoPinnedPromise
  BY DEF IInv
<1> QED BY <1>1, Invariance, PTL

(* Of the running fetches of a key at most one has not been superseded,    *)
(* and it is the one later callers coalesce on.                            *)
THEOREM FetchesAreShared == Spec => []SingleFlight
<1>1. IInv => SingleFlight
  BY DEF IInv
<1> QED BY <1>1, Invariance, PTL

(* The store never outgrows maxEntries. *)
THEOREM StoreIsBounded == Spec => []BoundedStore
<1>1. IInv => BoundedStore
  BY DEF IInv
<1> QED BY <1>1, Invariance, PTL

(* A fetch that was overtaken by set, invalidate or clear writes nothing.  *)
THEOREM OvertakenFetchesAreDropped == Spec => SupersededFetchIsDropped
<1> DEFINE Dropped == \A c \in Caller :
             Running(c) /\ call[c].superseded /\ call'[c] = Idle => store' = store
<1>1. ASSUME IInv, [Next]_vars PROVE [Dropped]_vars
  <2> SUFFICES ASSUME Next, NEW c \in Caller, Running(c), call[c].superseded, call'[c] = Idle
               PROVE  store' = store
    BY <1>1
  <2>1. /\ call[c].gen # generations[call[c].key] /\ call[c] # Idle /\ call[c].pc # "awaiting"
        /\ call[c].pc # "idle" /\ call'[c].pc = "idle" /\ call'[c] # call[c]
    BY <1>1 DEF IInv, GenerationInv, GenerationTellsSuperseded, Running, Idle
  <2>2. ASSUME NEW x \in Caller, NEW k \in Key, CallStep(x, k) PROVE FALSE
    <3>1. call[x].pc = "idle" /\ (call' = call \/ \E r : call' = [call EXCEPT ![x] = r])
      BY <2>2 DEF CallStep, Hit, Coalesce, CoalesceAborted, Miss
    <3> QED BY <1>1, <2>1, <3>1 DEF IInv, TypeOK
  <2>3. ASSUME NEW x \in Caller, FetchStep(x) PROVE store' = store
    <3>1. CASE UpstreamAnswers(x)
      <4>1. call'[c].pc = call[c].pc \/ call'[c].pc = "answered"
        BY <1>1, <3>1, CallShape DEF UpstreamAnswers, IInv, TypeOK, Fetch
      <4> QED BY <2>1, <4>1
    <3>2. CASE FetchResolves(x)
      <4>1. \A y \in Caller : call'[y] = IF y = x \/ AwaitsOn(y, x) THEN Idle ELSE call[y]
        BY <1>1, <3>2, SettleCalls DEF FetchResolves, Running
      <4>2. c = x
        BY <2>1, <4>1 DEF AwaitsOn
      <4> QED BY <2>1, <3>2, <4>2 DEF FetchResolves
    <3>3. CASE \E kind \in {"error", "aborted"} : FetchRejects(x, kind)
      BY <3>3 DEF FetchRejects
    <3> QED BY <2>3, <3>1, <3>2, <3>3 DEF FetchStep
  <2>4. ASSUME NEW w \in Caller, AbortAwait(w) PROVE store' = store
    BY <2>4 DEF AbortAwait
  <2>5. ASSUME NEW K, Supersede(K) PROVE FALSE
    BY <1>1, <2>1, <2>5, SupersedeCalls DEF IInv
  <2>6. ASSUME NEW k \in Key, MaintainStep(k) PROVE store' = store
    BY <2>1, <2>5, <2>6 DEF MaintainStep, Get, Invalidate, Set
  <2>7. ASSUME NEW k \in Key, SourceChanges(k) PROVE store' = store
    BY <2>7 DEF SourceChanges
  <2>8. CASE Clear
    BY <2>5, <2>8 DEF Clear
  <2>9. CASE Tick
    BY <2>9 DEF Tick
  <2> QED BY <2>2, <2>3, <2>4, <2>6, <2>7, <2>8, <2>9 DEF Next
<1> QED BY <1>1, Invariance, PTL DEF Spec, SupersededFetchIsDropped

-----------------------------------------------------------------------------
(* The cache implements FreshReads.                                        *)

LEMMA AskedShape ==
  ASSUME TypeOK, NEW x \in Caller
  PROVE  /\ asked[x].pc = "asked" <=> call[x].pc # "idle"
         /\ call[x].pc # "idle" => asked[x].key = call[x].key /\ asked[x].floor = call[x].floor
         /\ call[x].pc = "idle" => asked[x] = [pc |-> "idle"]
BY DEF asked

(* The open calls change only with the calls, key and floor. *)
LEMMA SameAsked ==
  ASSUME TypeOK,
         \A x \in Caller : /\ call'[x].pc = "idle" <=> call[x].pc = "idle"
                           /\ call[x].pc # "idle" => /\ call'[x].key = call[x].key
                                                     /\ call'[x].floor = call[x].floor
  PROVE  asked' = asked
BY SMTT(30) DEF asked

(* One call opens. *)
LEMMA OneAsked ==
  ASSUME TypeOK, NEW c \in Caller, NEW k \in Key, NEW r, call' = [call EXCEPT ![c] = r],
         r.pc # "idle", r.key = k, r.floor = floor[k]
  PROVE  asked' = [asked EXCEPT ![c] = [pc |-> "asked", key |-> k, floor |-> floor[k]]]
<1>1. \A x \in Caller : call'[x] = IF x = c THEN r ELSE call[x]
  BY DEF TypeOK
<1> QED BY <1>1, ZenonT(60) DEF asked

(* The calls of S close. *)
LEMMA ClosedAsked ==
  ASSUME TypeOK, NEW S, \A x \in Caller : call'[x] = IF x \in S THEN Idle ELSE call[x]
  PROVE  asked' = [x \in Caller |-> IF x \in S THEN [pc |-> "idle"] ELSE asked[x]]
BY DEF asked, Idle

LEMMA StepImplements ==
  ASSUME IInv, [Next]_vars
  PROVE  [Abstract!Next]_(Abstract!vars)
<1> USE DEF IInv
<1>1. ASSUME NEW c \in Caller, NEW k \in Key, Hit(c, k) PROVE Abstract!AnswerAtOnce(c, k)
  <2>1. asked' = asked
    BY <1>1 DEF Hit, asked
  <2>2. store[k].value \in floor[k] .. source[k]
    BY <1>1 DEF Hit, Fresh, TypeOK, Entry, StoreFresh, GenerationInv, NotAhead
  <2> QED BY <1>1, <2>1, <2>2, AskedShape DEF Abstract!AnswerAtOnce, Abstract!Open, Hit
<1>2. ASSUME NEW c \in Caller, NEW k \in Key, Coalesce(c, k) \/ Miss(c, k)
      PROVE  Abstract!Ask(c, k)
  <2>1. /\ call[c].pc = "idle" /\ UNCHANGED <<source, floor>>
        /\ result' = [result EXCEPT ![c] = NoResult]
    BY <1>2 DEF Coalesce, Miss
  <2>2. asked' = [asked EXCEPT ![c] = [pc |-> "asked", key |-> k, floor |-> floor[k]]]
    <3>1. CASE Coalesce(c, k)
      <4> DEFINE r == [pc |-> "awaiting", key |-> k, on |-> inflight[k], floor |-> floor[k]]
      <4>1. /\ call' = [call EXCEPT ![c] = r]
            /\ r.pc # "idle" /\ r.key = k /\ r.floor = floor[k]
        BY <3>1 DEF Coalesce
      <4> HIDE DEF r
      <4> QED BY <4>1, OneAsked
    <3>2. CASE Miss(c, k)
      <4> DEFINE r == [pc |-> "fetching", key |-> k, value |-> 0, gen |-> generations[k],
                       floor |-> floor[k], superseded |-> FALSE]
      <4>1. /\ call' = [call EXCEPT ![c] = r]
            /\ r.pc # "idle" /\ r.key = k /\ r.floor = floor[k]
        BY <3>2 DEF Miss
      <4> HIDE DEF r
      <4> QED BY <4>1, OneAsked
    <3> QED BY <1>2, <3>1, <3>2
  <2> QED BY <2>1, <2>2, AskedShape
          DEF Abstract!Ask, Abstract!Open, Abstract!Asked, Abstract!NoResult, NoResult
<1>3. ASSUME NEW c \in Caller, NEW k \in Key, CoalesceAborted(c, k)
      PROVE  Abstract!RefuseAtOnce(c)
  <2>1. asked' = asked
    BY <1>3 DEF CoalesceAborted, asked
  <2> QED BY <1>3, <2>1, AskedShape
          DEF Abstract!RefuseAtOnce, Abstract!Open, CoalesceAborted, Failure
<1>4. ASSUME NEW c \in Caller, UpstreamAnswers(c) PROVE UNCHANGED Abstract!vars
  <2>1. call[c] \in Fetch /\ call[c].pc = "fetching"
    BY <1>4, CallShape DEF UpstreamAnswers, Running
  <2>2. /\ call'[c].pc = "answered" /\ call'[c].key = call[c].key
        /\ call'[c].floor = call[c].floor
        /\ \A x \in Caller : x # c => call'[x] = call[x]
    BY <1>4, <2>1 DEF UpstreamAnswers, TypeOK, Fetch
  <2>3. asked' = asked
    BY <2>1, <2>2, SameAsked
  <2> QED BY <1>4, <2>3 DEF UpstreamAnswers, Abstract!vars
<1>5. ASSUME NEW c \in Caller, Running(c), NEW kind, NEW v, Settle(c, kind, v), ClearSlot(c)
      PROVE  LET S == {c} \cup {w \in Caller : AwaitsOn(w, c)}
             IN  /\ asked' = [x \in Caller |-> IF x \in S THEN [pc |-> "idle"] ELSE asked[x]]
                 /\ \A x \in S : x \in Caller /\ asked[x].pc = "asked"
                                 /\ asked[x].key = call[c].key /\ asked[x].floor = call[x].floor
  <2> DEFINE S == {c} \cup {w \in Caller : AwaitsOn(w, c)}
  <2>1. asked' = [x \in Caller |-> IF x \in S THEN [pc |-> "idle"] ELSE asked[x]]
    <3>1. \A x \in Caller : call'[x] = IF x \in S THEN Idle ELSE call[x]
      BY <1>5, SettleCalls
    <3> HIDE DEF S
    <3> QED BY <3>1, ClosedAsked
  <2>2. ASSUME NEW x \in S
        PROVE  x \in Caller /\ call[x].pc # "idle" /\ call[x].key = call[c].key
    BY <1>5, <2>2 DEF AwaitsOn, NoPinnedPromise, RunsOn, Running
  <2> QED BY <2>1, <2>2, AskedShape
<1>6. ASSUME NEW c \in Caller, FetchResolves(c)
      PROVE  Abstract!Answer({c} \cup {w \in Caller : AwaitsOn(w, c)}, call[c].key)
  <2> DEFINE S == {c} \cup {w \in Caller : AwaitsOn(w, c)}
             v == call[c].value
  <2>1. /\ call[c].pc = "answered" /\ Running(c) /\ Settle(c, "value", v) /\ ClearSlot(c)
        /\ UNCHANGED <<source, floor>>
    BY <1>6 DEF FetchResolves, Running
  <2>2. /\ asked' = [x \in Caller |-> IF x \in S THEN [pc |-> "idle"] ELSE asked[x]]
        /\ \A x \in S : x \in Caller /\ asked[x].pc = "asked"
                        /\ asked[x].key = call[c].key /\ asked[x].floor = call[x].floor
    BY <1>5, <2>1
  <2>3. v \in 0 .. source[call[c].key]
    BY <2>1, CallShape DEF TypeOK, GenerationInv, AnswerRecent
  <2>4. \A x \in S : v >= asked[x].floor
    BY <2>1, <2>2, CallShape DEF GenerationInv, AnswerRecent, AwaitedRecent, AwaitsOn
  <2>5. result' = [x \in Caller |-> IF x \in S
                     THEN [kind |-> "value", value |-> v, floor |-> asked[x].floor]
                     ELSE result[x]]
    BY <2>1, <2>2 DEF Settle
  <2>6. c \in S
    OBVIOUS
  <2> HIDE DEF S, v
  <2>7. Abstract!Answer(S, call[c].key)
    BY <2>1, <2>2, <2>3, <2>4, <2>5, <2>6 DEF Abstract!Answer, Abstract!Open, Abstract!NotAsked
  <2> QED BY <2>7 DEF S
<1>7. ASSUME NEW c \in Caller, NEW kind \in {"error", "aborted"}, FetchRejects(c, kind)
      PROVE  Abstract!Fail({c} \cup {w \in Caller : AwaitsOn(w, c)}, kind)
  <2> DEFINE S == {c} \cup {w \in Caller : AwaitsOn(w, c)}
  <2>1. Running(c) /\ Settle(c, kind, 0) /\ ClearSlot(c) /\ UNCHANGED <<source, floor>>
    BY <1>7 DEF FetchRejects
  <2>2. /\ asked' = [x \in Caller |-> IF x \in S THEN [pc |-> "idle"] ELSE asked[x]]
        /\ \A x \in S : x \in Caller /\ asked[x].pc = "asked"
    BY <1>5, <2>1
  <2>3. result' = [x \in Caller |-> IF x \in S
                     THEN [kind |-> kind, value |-> 0, floor |-> 0] ELSE result[x]]
    BY <2>1 DEF Settle, Failure
  <2>4. c \in S
    OBVIOUS
  <2> HIDE DEF S
  <2>5. Abstract!Fail(S, kind)
    BY <2>1, <2>2, <2>3, <2>4 DEF Abstract!Fail, Abstract!Open, Abstract!NotAsked
  <2> QED BY <2>5 DEF S
<1>8. ASSUME NEW w \in Caller, AbortAwait(w) PROVE Abstract!Fail({w}, "aborted")
  <2>1. \A x \in Caller : call'[x] = IF x \in {w} THEN Idle ELSE call[x]
    BY <1>8 DEF AbortAwait, TypeOK
  <2>2. asked' = [x \in Caller |-> IF x \in {w} THEN [pc |-> "idle"] ELSE asked[x]]
    BY <2>1, ClosedAsked
  <2>3. result' = [x \in Caller |-> IF x \in {w}
                     THEN [kind |-> "aborted", value |-> 0, floor |-> 0] ELSE result[x]]
    BY <1>8 DEF AbortAwait, Failure, TypeOK
  <2> QED BY <1>8, <2>2, <2>3, AskedShape
          DEF Abstract!Fail, Abstract!Open, Abstract!NotAsked, AbortAwait
<1>9. ASSUME NEW K, Supersede(K) PROVE asked' = asked
  <2>1. \A x \in Caller : /\ call'[x].pc = call[x].pc
                          /\ call[x].pc # "idle" => /\ call'[x].key = call[x].key
                                                    /\ call'[x].floor = call[x].floor
    BY <1>9, SupersedeCalls, CallShape DEF Idle
  <2> QED BY <2>1, SameAsked
<1>10. ASSUME NEW k \in Key, Get(k) \/ \E v \in 0 .. MaxVersion : Set(k, v)
       PROVE  UNCHANGED Abstract!vars
  <2>1. asked' = asked
    BY <1>9, <1>10 DEF Get, Set, asked
  <2> QED BY <1>10, <2>1 DEF Get, Set, Abstract!vars
<1>11. ASSUME NEW k \in Key, Invalidate(k) PROVE Abstract!Invalidate(k)
  BY <1>9, <1>11 DEF Invalidate, Abstract!Invalidate
<1>12. ASSUME Clear PROVE Abstract!InvalidateAll
  BY <1>9, <1>12 DEF Clear, Abstract!InvalidateAll
<1>13. ASSUME NEW k \in Key, SourceChanges(k) PROVE Abstract!SourceChanges(k)
  BY <1>13 DEF SourceChanges, Abstract!SourceChanges, asked
<1>14. ASSUME Tick \/ UNCHANGED vars PROVE UNCHANGED Abstract!vars
  BY <1>14 DEF Tick, vars, Abstract!vars, asked
<1>15. ASSUME NEW c \in Caller PROVE {c} \cup {w \in Caller : AwaitsOn(w, c)} \in SUBSET Caller
  OBVIOUS
<1>16. ASSUME NEW c \in Caller, NEW k \in Key, CallStep(c, k) PROVE Abstract!Next
  BY <1>1, <1>2, <1>3, <1>16 DEF CallStep, Abstract!Next
<1>17. ASSUME NEW c \in Caller, FetchStep(c) PROVE Abstract!Next \/ UNCHANGED Abstract!vars
  <2>1. CASE FetchResolves(c)
    <3>1. call[c].key \in Key
      BY <2>1, CallShape DEF FetchResolves, Running
    <3> QED BY <1>6, <1>15, <2>1, <3>1 DEF Abstract!Next
  <2>2. CASE \E kind \in {"error", "aborted"} : FetchRejects(c, kind)
    BY <1>7, <1>15, <2>2 DEF Abstract!Next
  <2> QED BY <1>4, <1>17, <2>1, <2>2 DEF FetchStep
<1>18. ASSUME NEW w \in Caller, AbortAwait(w) PROVE Abstract!Next
  BY <1>8, <1>18 DEF Abstract!Next
<1>19. ASSUME NEW k \in Key, MaintainStep(k) \/ SourceChanges(k)
       PROVE  Abstract!Next \/ UNCHANGED Abstract!vars
  BY <1>10, <1>11, <1>13, <1>19 DEF MaintainStep, Abstract!Next
<1>20. ASSUME Clear PROVE Abstract!Next
  BY <1>12, <1>20 DEF Abstract!Next
<1> QED BY <1>14, <1>16, <1>17, <1>18, <1>19, <1>20 DEF Next

(* Seen from its callers, the cache is a register that answers every read  *)
(* with a version at least as recent as the last invalidation before it.   *)
THEOREM CacheImplementsFreshReads == Spec => ImplementsFreshReads
<1>1. Init => Abstract!Init
  BY DEF Init, Abstract!Init, asked, Idle, NoResult, Abstract!NotAsked, Abstract!NoResult
<1>2. IInv /\ [Next]_vars => [Abstract!Next]_(Abstract!vars)
  BY StepImplements
<1> QED BY <1>1, <1>2, Invariance, PTL DEF Spec, ImplementsFreshReads, Abstract!Spec
=============================================================================
