----------------------------- MODULE FreshReads -----------------------------
(***************************************************************************)
(* What a client may rely on when it reads through the cache of            *)
(* utils/cache.ts, with no store, slot or generation in sight: a call gets *)
(* some version of the upstream datum that was current at a moment after   *)
(* the last invalidation that preceded the call, or it fails.  Calls that  *)
(* share one fetch settle in one step.                                     *)
(***************************************************************************)
EXTENDS Integers

CONSTANTS Key, Caller

VARIABLES
  asked,    \* the calls that have not settled: caller -> its key and floor
  result,   \* how the last call of each caller settled
  source,   \* version of the upstream datum
  floor     \* version at the last invalidation

vars == <<asked, result, source, floor>>

NotAsked == [pc |-> "idle"]
Asked(k) == [pc |-> "asked", key |-> k, floor |-> floor[k]]
Open(c) == asked[c].pc = "asked"

NoResult == [kind |-> "none", value |-> 0, floor |-> 0]

Init ==
  /\ asked = [c \in Caller |-> NotAsked]
  /\ result = [c \in Caller |-> NoResult]
  /\ source = [k \in Key |-> 0]
  /\ floor = [k \in Key |-> 0]

(* A call is made; it may be answered or refused on the spot. *)
Ask(c, k) ==
  /\ ~Open(c)
  /\ asked' = [asked EXCEPT ![c] = Asked(k)]
  /\ result' = [result EXCEPT ![c] = NoResult]
  /\ UNCHANGED <<source, floor>>

AnswerAtOnce(c, k) ==
  /\ ~Open(c)
  /\ \E v \in floor[k] .. source[k] :
       result' = [result EXCEPT ![c] = [kind |-> "value", value |-> v, floor |-> floor[k]]]
  /\ UNCHANGED <<asked, source, floor>>

RefuseAtOnce(c) ==
  /\ ~Open(c)
  /\ result' = [result EXCEPT ![c] = [kind |-> "aborted", value |-> 0, floor |-> 0]]
  /\ UNCHANGED <<asked, source, floor>>

(* The open calls of S, all on key k, receive one and the same version,    *)
(* recent enough for each of them.                                         *)
Answer(S, k) ==
  /\ S # {} /\ \A c \in S : Open(c) /\ asked[c].key = k
  /\ \E v \in 0 .. source[k] :
       /\ \A c \in S : v >= asked[c].floor
       /\ result' = [c \in Caller |->
            IF c \in S THEN [kind |-> "value", value |-> v, floor |-> asked[c].floor]
            ELSE result[c]]
  /\ asked' = [c \in Caller |-> IF c \in S THEN NotAsked ELSE asked[c]]
  /\ UNCHANGED <<source, floor>>

Fail(S, kind) ==
  /\ S # {} /\ \A c \in S : Open(c)
  /\ result' = [c \in Caller |-> IF c \in S THEN [kind |-> kind, value |-> 0, floor |-> 0]
                                 ELSE result[c]]
  /\ asked' = [c \in Caller |-> IF c \in S THEN NotAsked ELSE asked[c]]
  /\ UNCHANGED <<source, floor>>

(* The upstream moves on; one key, or every key at once, is invalidated. *)
SourceChanges(k) ==
  /\ source' = [source EXCEPT ![k] = @ + 1]
  /\ UNCHANGED <<asked, result, floor>>

Invalidate(k) ==
  /\ floor' = [floor EXCEPT ![k] = source[k]]
  /\ UNCHANGED <<asked, result, source>>

InvalidateAll ==
  /\ floor' = source
  /\ UNCHANGED <<asked, result, source>>

Next ==
  \/ \E c \in Caller, k \in Key : Ask(c, k) \/ AnswerAtOnce(c, k)
  \/ \E c \in Caller : RefuseAtOnce(c)
  \/ \E S \in SUBSET Caller, k \in Key : Answer(S, k)
  \/ \E S \in SUBSET Caller, kind \in {"error", "aborted"} : Fail(S, kind)
  \/ \E k \in Key : SourceChanges(k) \/ Invalidate(k)
  \/ InvalidateAll

Spec == Init /\ [][Next]_vars
=============================================================================
