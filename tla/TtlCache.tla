------------------------------ MODULE TtlCache ------------------------------
(***************************************************************************)
(* The generic TTL cache of utils/cache.ts, used by every upstream client: *)
(* a Map of values with an expiry, a Map of in-flight fetches on which     *)
(* concurrent callers coalesce, and a per-key generation that makes a      *)
(* fetch begun before an invalidation unable to repopulate the store.      *)
(*                                                                         *)
(* JavaScript runs one callback at a time, so each action is one           *)
(* synchronous stretch of the code between two awaits.  A value is the     *)
(* version of the upstream datum it was read from; the upstream may change *)
(* at any moment between the start of a fetch and its answer.              *)
(***************************************************************************)
EXTENDS Integers, SequencesExt

CONSTANTS
  Key,         \* cache keys
  Caller,      \* concurrent callers of getOrFetch
  TtlMs,       \* lifetime of an entry, in clock ticks
  MaxEntries,  \* size bound of the store (at least |Key| when unset)
  MaxVersion,  \* bound: changes of the upstream, per key
  MaxGen,      \* bound: generation bumps, per key
  MaxTime      \* bound: clock ticks

ASSUME CacheAssumption ==
  /\ TtlMs \in Nat /\ MaxEntries \in Nat
  /\ MaxVersion \in Nat /\ MaxGen \in Nat /\ MaxTime \in Nat

VARIABLES
  store,        \* Map key -> [value, expiresAt]
  order,        \* insertion order of the keys of store
  inflight,     \* Map key -> the caller whose promise fills the slot
  generations,  \* per-key generation, 0 when the Map has no entry
  call,         \* the current or last getOrFetch call of each caller
  result,       \* how that call settled, "none" while it has not
  source,       \* version of the upstream datum of each key
  floor,        \* history: source[k] when k was last invalidated
  now           \* the clock

vars == <<store, order, inflight, generations, call, result, source, floor, now>>

-----------------------------------------------------------------------------
(* A call is fetching while its own fetcher runs and the upstream has not  *)
(* been read, answered once the value it will return is fixed, and         *)
(* awaiting when it coalesced on the promise of another caller.  Two       *)
(* history fields: superseded (the key was set, invalidated or cleared     *)
(* since the fetch began) and floor (floor[key] when the call was made).   *)

Entry == [value : Nat, expiresAt : Nat]

Idle == [pc |-> "idle"]

Fetch == [pc : {"fetching", "answered"}, key : Key, gen : Nat, value : Nat,
          floor : Nat, superseded : BOOLEAN]

Await == [pc : {"awaiting"}, key : Key, on : Caller, floor : Nat]

Result == [kind : {"none", "value", "error", "aborted"}, value : Nat, floor : Nat]

NoResult == [kind |-> "none", value |-> 0, floor |-> 0]

Failure(kind) == [kind |-> kind, value |-> 0, floor |-> 0]

Put(f, k, v) == [x \in DOMAIN f \cup {k} |-> IF x = k THEN v ELSE f[x]]

Drop(f, k) == [x \in DOMAIN f \ {k} |-> f[x]]

OrderWithout(k) ==
  IF k \in DOMAIN store
  THEN RemoveAt(order, CHOOSE i \in 1 .. Len(order) : order[i] = k) ELSE order

(* The sequence s lists every element of D exactly once. *)
Lists(s, D) ==
  /\ \A k \in Key : k \in D <=> \E i \in 1 .. Len(s) : s[i] = k
  /\ \A i, j \in 1 .. Len(s) : s[i] = s[j] => i = j

Running(c) == call[c].pc \in {"fetching", "answered"}

RunsOn(c, k) == Running(c) /\ call[c].key = k

AwaitsOn(w, c) == call[w].pc = "awaiting" /\ call[w].on = c

Fresh(k) == k \in DOMAIN store /\ now < store[k].expiresAt

-----------------------------------------------------------------------------
Init ==
  /\ store = [k \in {} |-> 0]
  /\ order = <<>>
  /\ inflight = [k \in {} |-> 0]
  /\ generations = [k \in Key |-> 0]
  /\ call = [c \in Caller |-> Idle]
  /\ result = [c \in Caller |-> NoResult]
  /\ source = [k \in Key |-> 0]
  /\ floor = [k \in Key |-> 0]
  /\ now = 0

(* The expiry that every get performs on the entry it looks up. *)
DropExpired(k) ==
  IF Fresh(k) THEN UNCHANGED <<store, order>>
  ELSE store' = Drop(store, k) /\ order' = OrderWithout(k)

(* The write of a fetched or given value: reinsert at the end, then evict  *)
(* the oldest entry when the store has grown past its bound.               *)
WriteStore(k, v) ==
  LET written   == Put(store, k, [value |-> v, expiresAt |-> now + TtlMs])
      reordered == Append(OrderWithout(k), k)
  IN  IF Len(reordered) > MaxEntries
      THEN store' = Drop(written, Head(reordered)) /\ order' = Tail(reordered)
      ELSE store' = written /\ order' = reordered

(* Every running fetch of a key in K is marked as overtaken. *)
Supersede(K) ==
  call' = [c \in Caller |->
             IF Running(c) /\ call[c].key \in K
             THEN [call[c] EXCEPT !.superseded = TRUE] ELSE call[c]]

-----------------------------------------------------------------------------
(* has and get, called on their own: expiry is their only effect. *)
Get(k) ==
  /\ k \in DOMAIN store /\ ~Fresh(k)
  /\ DropExpired(k)
  /\ UNCHANGED <<inflight, generations, call, result, source, floor, now>>

(* getOrFetch with a fresh entry: returned at once, whatever the signal. *)
Hit(c, k) ==
  /\ call[c].pc = "idle"
  /\ Fresh(k)
  /\ result' = [result EXCEPT ![c] = [kind |-> "value", value |-> store[k].value,
                                      floor |-> floor[k]]]
  /\ UNCHANGED <<store, order, inflight, generations, call, source, floor, now>>

(* getOrFetch while the slot is taken: wait for the same promise. *)
Coalesce(c, k) ==
  /\ call[c].pc = "idle"
  /\ ~Fresh(k) /\ k \in DOMAIN inflight
  /\ DropExpired(k)
  /\ call' = [call EXCEPT ![c] = [pc |-> "awaiting", key |-> k,
                                  on |-> inflight[k], floor |-> floor[k]]]
  /\ result' = [result EXCEPT ![c] = NoResult]
  /\ UNCHANGED <<inflight, generations, source, floor, now>>

(* The same with a signal that has already fired. *)
CoalesceAborted(c, k) ==
  /\ call[c].pc = "idle"
  /\ ~Fresh(k) /\ k \in DOMAIN inflight
  /\ DropExpired(k)
  /\ result' = [result EXCEPT ![c] = Failure("aborted")]
  /\ UNCHANGED <<inflight, generations, call, source, floor, now>>

(* getOrFetch with nothing to share: capture the generation, invoke the    *)
(* fetcher with the caller's signal and install the slot.                  *)
Miss(c, k) ==
  /\ call[c].pc = "idle"
  /\ ~Fresh(k) /\ k \notin DOMAIN inflight
  /\ DropExpired(k)
  /\ call' = [call EXCEPT ![c] = [pc |-> "fetching", key |-> k, value |-> 0,
                                  gen |-> generations[k], floor |-> floor[k],
                                  superseded |-> FALSE]]
  /\ inflight' = Put(inflight, k, c)
  /\ result' = [result EXCEPT ![c] = NoResult]
  /\ UNCHANGED <<generations, source, floor, now>>

-----------------------------------------------------------------------------
(* Mutants: the finally block forgets the slot, or deletes it whoever      *)
(* holds it.                                                               *)
ClearSlotForgotten(c) == UNCHANGED inflight

ClearSlotOfSuccessor(c) == inflight' = Drop(inflight, call[c].key)

(* The finally block: clear the slot only while it is still this fetch's. *)
ClearSlot(c) ==
  inflight' = IF call[c].key \in DOMAIN inflight /\ inflight[call[c].key] = c
              THEN Drop(inflight, call[c].key) ELSE inflight

(* The promise of c settles, for c and for everyone who still awaits it. *)
Settle(c, kind, v) ==
  LET served == {c} \cup {w \in Caller : AwaitsOn(w, c)}
  IN  /\ call' = [w \in Caller |-> IF w \in served THEN Idle ELSE call[w]]
      /\ result' = [w \in Caller |->
                      IF w \notin served THEN result[w]
                      ELSE IF kind = "value"
                           THEN [kind |-> "value", value |-> v, floor |-> call[w].floor]
                           ELSE Failure(kind)]

(* The upstream evaluates the read that the fetcher of c sent. *)
UpstreamAnswers(c) ==
  /\ call[c].pc = "fetching"
  /\ call' = [call EXCEPT ![c].pc = "answered", ![c].value = source[call[c].key]]
  /\ UNCHANGED <<store, order, inflight, generations, result, source, floor, now>>

(* Mutant: the value is stored whatever happened during the fetch. *)
FetchResolvesUnchecked(c) ==
  /\ call[c].pc = "answered"
  /\ WriteStore(call[c].key, call[c].value)
  /\ ClearSlot(c)
  /\ Settle(c, "value", call[c].value)
  /\ UNCHANGED <<generations, source, floor, now>>

(* The fetcher resolves: the value is stored only when no bump of the      *)
(* generation happened since the slot was installed.                       *)
FetchResolves(c) ==
  /\ call[c].pc = "answered"
  /\ IF generations[call[c].key] = call[c].gen
     THEN WriteStore(call[c].key, call[c].value)
     ELSE UNCHANGED <<store, order>>
  /\ ClearSlot(c)
  /\ Settle(c, "value", call[c].value)
  /\ UNCHANGED <<generations, source, floor, now>>

(* The fetcher rejects, on an upstream error or because the signal of the  *)
(* first caller fired; everyone who coalesced is rejected with it.         *)
FetchRejects(c, kind) ==
  /\ Running(c)
  /\ ClearSlot(c)
  /\ Settle(c, kind, 0)
  /\ UNCHANGED <<store, order, generations, source, floor, now>>

(* The signal of a coalesced caller fires: only its own await rejects. *)
AbortAwait(w) ==
  /\ call[w].pc = "awaiting"
  /\ call' = [call EXCEPT ![w] = Idle]
  /\ result' = [result EXCEPT ![w] = Failure("aborted")]
  /\ UNCHANGED <<store, order, inflight, generations, source, floor, now>>

-----------------------------------------------------------------------------
(* set: the caller hands in a value read since the last invalidation.  An  *)
(* in-flight fetch keeps its slot, its result will not be stored.          *)
Set(k, v) ==
  /\ generations[k] < MaxGen
  /\ v \in floor[k] .. source[k]
  /\ generations' = [generations EXCEPT ![k] = @ + 1]
  /\ WriteStore(k, v)
  /\ Supersede({k})
  /\ UNCHANGED <<inflight, result, source, floor, now>>

(* invalidate: drop the entry and the slot, and bump the generation. *)
Invalidate(k) ==
  /\ generations[k] < MaxGen
  /\ store' = Drop(store, k) /\ order' = OrderWithout(k)
  /\ generations' = [generations EXCEPT ![k] = @ + 1]
  /\ inflight' = Drop(inflight, k)
  /\ Supersede({k})
  /\ floor' = [floor EXCEPT ![k] = source[k]]
  /\ UNCHANGED <<result, source, now>>

(* Mutant: a first fetch still in flight is not known to clear. *)
KnownKeysInGenerations == {k \in Key : generations[k] > 0}

KnownKeys == {k \in Key : generations[k] > 0} \cup DOMAIN inflight

(* clear bumps only the keys it knows: those that were bumped before and   *)
(* those in flight.                                                        *)
Clear ==
  LET known == KnownKeys
  IN  /\ \A k \in known : generations[k] < MaxGen
      /\ store' = [k \in {} |-> 0] /\ order' = <<>>
      /\ generations' = [k \in Key |-> IF k \in known THEN generations[k] + 1
                                                      ELSE generations[k]]
      /\ inflight' = [k \in {} |-> 0]
      /\ Supersede(Key)
      /\ floor' = source
      /\ UNCHANGED <<result, source, now>>

-----------------------------------------------------------------------------
(* The environment: the upstream datum changes, time passes. *)
SourceChanges(k) ==
  /\ source[k] < MaxVersion
  /\ source' = [source EXCEPT ![k] = @ + 1]
  /\ UNCHANGED <<store, order, inflight, generations, call, result, floor, now>>

Tick ==
  /\ now < MaxTime
  /\ now' = now + 1
  /\ UNCHANGED <<store, order, inflight, generations, call, result, source, floor>>

CallStep(c, k) == Hit(c, k) \/ Coalesce(c, k) \/ CoalesceAborted(c, k) \/ Miss(c, k)

FetchStep(c) == \/ UpstreamAnswers(c) \/ FetchResolves(c)
                \/ \E kind \in {"error", "aborted"} : FetchRejects(c, kind)

MaintainStep(k) == Get(k) \/ Invalidate(k) \/ \E v \in 0 .. MaxVersion : Set(k, v)

Next ==
  \/ \E c \in Caller, k \in Key : CallStep(c, k)
  \/ \E c \in Caller : FetchStep(c) \/ AbortAwait(c)
  \/ \E k \in Key : MaintainStep(k) \/ SourceChanges(k)
  \/ Clear \/ Tick

Spec == Init /\ [][Next]_vars

(* The HTTP layer under every fetcher has a timeout, so a fetch that runs  *)
(* settles; nothing else is forced to happen.                              *)
FairSpec == Spec /\ \A c \in Caller : WF_vars(FetchStep(c))

-----------------------------------------------------------------------------
TypeOK ==
  /\ DOMAIN store \subseteq Key /\ \A k \in DOMAIN store : store[k] \in Entry
  /\ order \in Seq(Key)
  /\ DOMAIN inflight \subseteq Key /\ \A k \in DOMAIN inflight : inflight[k] \in Caller
  /\ generations \in [Key -> Nat]
  /\ call \in [Caller -> {Idle} \cup Fetch \cup Await]
  /\ result \in [Caller -> Result]
  /\ source \in [Key -> Nat]
  /\ floor \in [Key -> Nat]
  /\ now \in Nat

(* getOrFetch: a call made after an invalidation of its key (a graphman    *)
(* mutation) never returns what was read from the upstream before it, be   *)
(* it from the store, from a coalesced fetch or from its own.              *)
ServedFresh ==
  \A c \in Caller : result[c].kind = "value" => result[c].value >= result[c].floor

(* The generation comment of the class: "any in-flight fetch registered    *)
(* against an older generation knows its result is now stale": nothing     *)
(* read before the last invalidation of a key is in the store.             *)
StoreFresh == \A k \in DOMAIN store : store[k].value >= floor[k]

(* "A forgotten clear would pin a failed promise forever": a slot always   *)
(* holds a fetch of its key that is still running, and whoever awaits a    *)
(* promise awaits one that is still to settle.                             *)
NoPinnedPromise ==
  /\ \A k \in DOMAIN inflight : RunsOn(inflight[k], k)
  /\ \A w \in Caller : call[w].pc = "awaiting" => RunsOn(call[w].on, call[w].key)

(* Thundering-herd protection: of the fetches of a key that run at the     *)
(* same time, at most one began since the key was last touched, and that   *)
(* one holds the slot on which later callers coalesce.                     *)
SingleFlight ==
  \A c \in Caller : Running(c) /\ ~call[c].superseded =>
    call[c].key \in DOMAIN inflight /\ inflight[call[c].key] = c

(* The store never outgrows maxEntries, and its insertion order lists its  *)
(* keys exactly once, so that eviction removes the entry that is oldest.   *)
BoundedStore == Len(order) <= MaxEntries /\ Lists(order, DOMAIN store)

(* A fetch has been overtaken exactly when its captured generation is no   *)
(* longer current, also through clear, which bumps only the keys it knows. *)
GenerationTellsSuperseded ==
  \A c \in Caller : Running(c) =>
    /\ call[c].gen <= generations[call[c].key]
    /\ call[c].superseded <=> call[c].gen # generations[call[c].key]

(* What a running fetch read is recent enough for its own caller and for   *)
(* whoever may still coalesce on it.                                       *)
AnswerRecent ==
  \A c \in Caller : call[c].pc = "answered" =>
    /\ call[c].floor <= call[c].value /\ call[c].value <= source[call[c].key]
    /\ \A k \in DOMAIN inflight : inflight[k] = c => floor[k] <= call[c].value

(* ... and for those who already have. *)
AwaitedRecent ==
  \A w \in Caller : call[w].pc = "awaiting" /\ call[call[w].on].pc = "answered" =>
    call[w].floor <= call[call[w].on].value

(* No floor and no stored value is ahead of the upstream. *)
NotAhead ==
  /\ \A c \in Caller : call[c].pc # "idle" => call[c].floor <= floor[call[c].key]
  /\ \A k \in DOMAIN store : store[k].value <= source[k]
  /\ \A k \in Key : floor[k] <= source[k]

(* Why the generation check is enough: the parts above together. *)
GenerationInv == GenerationTellsSuperseded /\ AnswerRecent /\ AwaitedRecent /\ NotAhead

(* set, invalidate, clear: an entry is never written by a fetch that began *)
(* before the last of them ("does NOT clobber value when it resolves").    *)
SupersededFetchIsDropped ==
  [][\A c \in Caller : Running(c) /\ call[c].superseded /\ call'[c] = Idle
       => store' = store]_vars

(* What the cache promises, stated without its Maps: FreshReads, with the  *)
(* open calls read off the call records.                                   *)
asked ==
  [c \in Caller |-> IF call[c].pc = "idle" THEN [pc |-> "idle"]
                    ELSE [pc |-> "asked", key |-> call[c].key, floor |-> call[c].floor]]

Abstract == INSTANCE FreshReads
              WITH asked <- asked, result <- result, source <- source, floor <- floor

ImplementsFreshReads == Abstract!Spec

(* Every call settles, whatever the other callers abort or invalidate. *)
CallsSettle ==
  \A c \in Caller : (call[c].pc # "idle") ~> (call[c].pc = "idle")
=============================================================================
