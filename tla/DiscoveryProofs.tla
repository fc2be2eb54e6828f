--------------------------- MODULE DiscoveryProofs ---------------------------
(***************************************************************************)
(* Theorems about Discovery, for all deployments and facts, any length of  *)
(* the lists and any number of workers and recommendations.                *)
(***************************************************************************)
EXTENDS Discovery, SequenceTheorems, TLAPS

(* What has been read when: nothing while the run gathers, then lists that *)
(* are whole unless the warnings or the history say otherwise.             *)
NothingRead ==
  rows = <<>> /\ allocated = {} /\ tracked = {} /\ moved = FALSE /\ warnings = {}

ListsInv ==
  \/ NothingRead /\ pc \in {"gather", "done", "thrown"}
  \/ /\ pc # "gather"
     /\ ListsAreWhole({"allocations truncated"}) => allocated = Active
     /\ ListsAreWhole({"signalled truncated"}) => Range(rows) = Signalled
     /\ ~moved => IsInjective(rows)

StatusInv ==
  pc \in {"sizes", "volumes", "pool"} \/ recommended # {} =>
    "statuses" \in warnings \/ tracked = Tracked

(* Both halves start from nothing. *)
EarlyInv ==
  /\ pc \in {"gather", "statuses", "sizes"} =>
       rest = {} /\ \A d \in Deployment : stale[d] = "none" /\ steps[d] = <<>>
  /\ pc \in {"gather", "statuses", "sizes", "volumes"} =>
       opportunities = <<>> /\ \A w \in 1 .. Fanout : worker[w] = Off
  /\ pc # "done" => recommended = {}
  /\ pc = "volumes" => rest = Candidates(tracked)

(* A plan is the plan of the lists as they were read. *)
CleanupInv ==
  \A d \in Deployment :
    /\ stale[d] # "none" => d \in tracked /\ stale[d] = Reason(d)
    /\ steps[d] # <<>> => Planned(d, tracked) /\ steps[d] = Steps(d) /\ stale[d] = Reason(d)

(* The rows not taken, in flight and pushed are disjoint and candidates.   *)
SharesInv ==
  /\ IsInjective(opportunities)
  /\ \A v, w \in 1 .. Fanout : Busy(v) /\ Busy(w) /\ worker[v].item = worker[w].item => v = w
  /\ \A w \in 1 .. Fanout : Busy(w) =>
       worker[w].item \in Candidates(tracked) \ (rest \cup Range(opportunities))
  /\ rest \cap Range(opportunities) = {}
  /\ rest \cup Range(opportunities) \subseteq Candidates(tracked)
  /\ recommended \subseteq Range(opportunities)

(* While the pool runs none of them is lost, and no worker ends before all *)
(* rows are taken.                                                         *)
PoolInv ==
  pc = "pool" =>
    /\ Candidates(tracked) \subseteq rest \cup Range(opportunities) \cup InFlight
    /\ \A w \in 1 .. Fanout :
         worker[w].at # "thrown" /\ (worker[w].at \in {"off", "ended"} => rest = {})

IInv == TypeOK /\ ListsInv /\ StatusInv /\ EarlyInv /\ CleanupInv /\ SharesInv /\ PoolInv

-----------------------------------------------------------------------------
LEMMA RangeOfAppend ==
  ASSUME NEW S, NEW s \in Seq(S), NEW x \in S
  PROVE  Range(Append(s, x)) = Range(s) \cup {x}
<1> DEFINE t == Append(s, x)
<1>1. DOMAIN t = DOMAIN s \cup {Len(s) + 1} /\ t[Len(s) + 1] = x /\ \A i \in DOMAIN s : t[i] = s[i]
  OBVIOUS
<1>2. QED
  BY <1>1 DEF Range

LEMMA AppendKeepsInjective ==
  ASSUME NEW S, NEW s \in Seq(S), NEW x \in S
  PROVE  IsInjective(s) /\ x \notin Range(s) => IsInjective(Append(s, x))
<1> DEFINE t == Append(s, x)
           n == Len(s)
<1> HAVE IsInjective(s) /\ x \notin Range(s)
<1>1. /\ n \in Nat /\ DOMAIN s = 1 .. n /\ DOMAIN t = 1 .. n + 1
      /\ t[n + 1] = x /\ \A i \in 1 .. n : t[i] = s[i]
  OBVIOUS
<1>2. \A i \in 1 .. n : s[i] # x
  BY <1>1 DEF Range
<1> HIDE DEF t, n
<1>3. \A i, j \in 1 .. n : s[i] = s[j] => i = j
  BY <1>1 DEF IsInjective
<1>4. \A i, j \in 1 .. n + 1 : t[i] = t[j] => i = j
  BY <1>1, <1>2, <1>3
<1>5. IsInjective(t)
  BY <1>1, <1>4 DEF IsInjective
<1>6. QED
  BY <1>5 DEF t

LEMMA ReasonType == \A d \in Deployment :
  Reason(d) \in {"none", "orphaned", "no_signal", "unallocated"}
  BY DEF Reason

Step == {"close_allocation", "pause", "unassign", "unused_record", "unused_remove"}

(* buildCleanupAction: the order of the steps of a plan. *)
LEMMA StepsOrdered ==
  ASSUME NEW d \in Deployment
  PROVE  /\ Steps(d) \in Seq(Step)
         /\ HasAllocation(d) =>
              \A step \in Step \ {"close_allocation"} : Before(Steps(d), "close_allocation", step)
         /\ ~fact[d].paused => Before(Steps(d), "pause", "unassign")
         /\ Before(Steps(d), "unassign", "unused_remove")
<1> DEFINE A == IF HasAllocation(d) THEN <<"close_allocation">> ELSE <<>>
           B == IF fact[d].paused THEN <<>> ELSE <<"pause">>
           R == Removal
           P == B \o R
           T == A \o P
<1>1. /\ A \in Seq(Step)
      /\ HasAllocation(d) => Len(A) = 1 /\ A[1] = "close_allocation"
      /\ ~HasAllocation(d) => Len(A) = 0
  <2>1. CASE HasAllocation(d)
    <3>1. A = <<"close_allocation">>
      BY <2>1
    <3>2. QED
      BY <2>1, <3>1 DEF Step
  <2>2. CASE ~HasAllocation(d)
    <3>1. A = <<>>
      BY <2>2
    <3>2. QED
      BY <2>2, <3>1
  <2>3. QED
    BY <2>1, <2>2
<1>2. /\ B \in Seq(Step)
      /\ ~fact[d].paused => Len(B) = 1 /\ B[1] = "pause"
      /\ fact[d].paused => Len(B) = 0
  <2>1. CASE fact[d].paused
    <3>1. B = <<>>
      BY <2>1
    <3>2. QED
      BY <2>1, <3>1
  <2>2. CASE ~fact[d].paused
    <3>1. B = <<"pause">>
      BY <2>2
    <3>2. QED
      BY <2>2, <3>1 DEF Step
  <2>3. QED
    BY <2>1, <2>2
<1>3. /\ R \in Seq(Step) /\ Len(R) = 3
      /\ R[1] = "unassign" /\ R[2] = "unused_record" /\ R[3] = "unused_remove"
  BY DEF Step, Removal
<1>4. Steps(d) = A \o B \o R
  BY DEF Steps
<1> HIDE DEF A, B, R
<1>5. Steps(d) = T
  <2>1. A \in Seq(Step) /\ B \in Seq(Step) /\ R \in Seq(Step)
    BY <1>1, <1>2, <1>3
  <2>2. (A \o B) \o R = A \o (B \o R)
    BY <2>1, ConcatAssociative
  <2>3. QED
    BY <1>4, <2>2
<1>6. /\ P \in Seq(Step) /\ Len(P) = Len(B) + 3
      /\ \A i \in 1 .. Len(P) : P[i] = IF i <= Len(B) THEN B[i] ELSE R[i - Len(B)]
  <2>1. B \in Seq(Step) /\ R \in Seq(Step) /\ Len(R) = 3
    BY <1>2, <1>3
  <2>2. /\ P \in Seq(Step) /\ Len(P) = Len(B) + Len(R)
        /\ \A i \in 1 .. Len(B) + Len(R) : P[i] = IF i <= Len(B) THEN B[i] ELSE R[i - Len(B)]
    BY <2>1, ConcatProperties, Zenon
  <2>3. QED
    BY <2>1, <2>2
<1> HIDE DEF P
<1>7. /\ T \in Seq(Step) /\ Len(T) = Len(A) + Len(P)
      /\ \A i \in 1 .. Len(T) : T[i] = IF i <= Len(A) THEN A[i] ELSE P[i - Len(A)]
  <2>1. A \in Seq(Step) /\ P \in Seq(Step)
    BY <1>1, <1>6
  <2>2. /\ T \in Seq(Step) /\ Len(T) = Len(A) + Len(P)
        /\ \A i \in 1 .. Len(A) + Len(P) : T[i] = IF i <= Len(A) THEN A[i] ELSE P[i - Len(A)]
    BY <2>1, ConcatProperties, Zenon
  <2>3. QED
    BY <2>2
<1> HIDE DEF T
<1>8. DOMAIN T = 1 .. Len(T)
  BY <1>7
<1>9. HasAllocation(d) =>
        \A step \in Step \ {"close_allocation"} : Before(T, "close_allocation", step)
  <2>1. SUFFICES ASSUME HasAllocation(d), NEW i \in 1 .. Len(T), T[i] # "close_allocation"
                 PROVE  \E j \in 1 .. i - 1 : T[j] = "close_allocation"
    BY <1>8 DEF Before
  <2>2. T[1] = "close_allocation"
    <3>1. Len(A) = 1 /\ A[1] = "close_allocation" /\ Len(P) \in Nat
      BY <1>1, <1>6, <2>1
    <3>2. 1 \in 1 .. Len(T)
      BY <1>7, <3>1
    <3>3. QED
      BY <1>7, <3>1, <3>2
  <2>3. QED
    BY <2>1, <2>2, <1>7, <1>1, <1>6, <1>2
<1> DEFINE a == Len(A)
           k == a + Len(B)
<1>10. /\ a \in Nat /\ k \in Nat /\ Len(T) = k + 3 /\ Len(B) = k - a
       /\ a = 0 \/ (a = 1 /\ A[1] = "close_allocation")
       /\ k = a \/ (k = a + 1 /\ B[1] = "pause")
       /\ ~fact[d].paused => k = a + 1
  BY <1>1, <1>2, <1>6, <1>7
<1>11. /\ \A i \in 1 .. k + 3 : T[i] = IF i <= a THEN A[i] ELSE P[i - a]
       /\ \A i \in 1 .. (k - a) + 3 : P[i] = IF i <= k - a THEN B[i] ELSE R[i - (k - a)]
  BY <1>10, <1>6, <1>7
<1> HIDE DEF a, k
<1>12. \A i \in 1 .. 3 : T[k + i] = R[i]
  <2> SUFFICES ASSUME NEW i \in 1 .. 3 PROVE T[k + i] = R[i]
    OBVIOUS
  <2>1. k + i \in 1 .. k + 3 /\ ~(k + i <= a) /\ (k + i) - a \in 1 .. (k - a) + 3
    BY <1>10
  <2>2. T[k + i] = P[(k + i) - a]
    BY <1>11, <2>1
  <2>3. P[(k + i) - a] = R[i]
    BY <1>10, <1>11, <2>1
  <2>4. QED
    BY <2>2, <2>3
<1>13. \A i \in 1 .. k : T[i] \in {"close_allocation", "pause"}
  <2> SUFFICES ASSUME NEW i \in 1 .. k PROVE T[i] \in {"close_allocation", "pause"}
    OBVIOUS
  <2>1. CASE i <= a
    <3>1. i = 1 /\ a = 1
      BY <2>1, <1>10
    <3>2. T[i] = A[1]
      BY <3>1, <1>10, <1>11
    <3>3. QED
      BY <3>1, <3>2, <1>10
  <2>2. CASE i > a
    <3>1. i - a = 1 /\ k = a + 1
      BY <2>2, <1>10
    <3>2. T[i] = P[1]
      BY <2>2, <3>1, <1>10, <1>11
    <3>3. P[1] = B[1]
      BY <3>1, <1>10, <1>11
    <3>4. QED
      BY <3>1, <3>2, <3>3, <1>10
  <2>3. QED
    BY <2>1, <2>2, <1>10
<1>14. /\ T[k + 1] = "unassign" /\ T[k + 2] = "unused_record" /\ T[k + 3] = "unused_remove"
       /\ \A i \in 1 .. Len(T) : i \in 1 .. k \/ i = k + 1 \/ i = k + 2 \/ i = k + 3
  BY <1>3, <1>10, <1>12
<1>15. T[k + 1] = "unassign" /\ \A i \in 1 .. Len(T) : T[i] = "unassign" => i = k + 1
  BY <1>10, <1>13, <1>14
<1>16. \A i \in 1 .. Len(T) : T[i] = "unused_remove" => i = k + 3
  BY <1>10, <1>13, <1>14
<1>17. ~fact[d].paused => k > 0 /\ T[k] = "pause"
  <2> HAVE ~fact[d].paused
  <2>1. k = a + 1 /\ B[1] = "pause"
    BY <1>10
  <2>2. T[k] = P[1]
    BY <2>1, <1>10, <1>11
  <2>3. P[1] = B[1]
    BY <2>1, <1>10, <1>11
  <2>4. QED
    BY <2>1, <2>2, <2>3, <1>10
<1>18. ~fact[d].paused => Before(T, "pause", "unassign")
  <2>1. SUFFICES ASSUME ~fact[d].paused, NEW i \in 1 .. Len(T), T[i] = "unassign"
                 PROVE  \E j \in 1 .. i - 1 : T[j] = "pause"
    BY <1>8 DEF Before
  <2>2. k \in 1 .. i - 1
    BY <2>1, <1>10, <1>15, <1>17
  <2>3. QED
    BY <2>1, <2>2, <1>17
<1>19. Before(T, "unassign", "unused_remove")
  <2>1. SUFFICES ASSUME NEW i \in 1 .. Len(T), T[i] = "unused_remove"
                 PROVE  \E j \in 1 .. i - 1 : T[j] = "unassign"
    BY <1>8 DEF Before
  <2>2. k + 1 \in 1 .. i - 1
    BY <2>1, <1>10, <1>16
  <2>3. QED
    BY <2>2, <1>15
<1>20. QED
  BY <1>5, <1>7, <1>9, <1>18, <1>19

-----------------------------------------------------------------------------
(* The invariant holds at the start and is kept by each step.              *)

LEMMA InitInv == Init => IInv
<1> SUFFICES ASSUME Init PROVE IInv
  OBVIOUS
<1>1. \A w \in 1 .. Fanout : worker[w] = Off /\ ~Busy(w)
  BY DEF Init, Busy, Off, Reading
<1>2. Range(opportunities) = {} /\ IsInjective(opportunities)
  BY DEF Init, Range, IsInjective
<1>3. TypeOK
  <2>1. <<>> \in Seq(Signalled) /\ <<>> \in Seq(DOMAIN rows)
    OBVIOUS
  <2>2. steps \in [Deployment -> Seq(Step)]
    BY DEF Init
  <2>3. worker \in [1 .. Fanout -> {Off, Ended, Thrown} \cup [item : DOMAIN rows, at : Reading]]
    BY DEF Init
  <2>4. stale \in [Deployment -> {"none", "orphaned", "no_signal", "unallocated"}]
    BY DEF Init
  <2>5. QED
    BY <2>1, <2>2, <2>3, <2>4 DEF Init, TypeOK, Step
<1>4. ListsInv /\ StatusInv /\ EarlyInv /\ CleanupInv
  BY <1>1 DEF Init, ListsInv, NothingRead, StatusInv, EarlyInv, CleanupInv
<1>5. SharesInv /\ PoolInv
  BY <1>1, <1>2 DEF Init, SharesInv, PoolInv
<1>6. QED
  BY <1>3, <1>4, <1>5 DEF IInv

(* What a step that reads no list leaves as it was. *)
Kept == UNCHANGED <<fact, lists>>

LEMMA KeptFacts ==
  ASSUME Kept
  PROVE  /\ Signalled' = Signalled /\ Active' = Active /\ Tracked' = Tracked
         /\ \A T : Candidates(T)' = Candidates(T)
         /\ \A d \in Deployment : Reason(d)' = Reason(d) /\ Steps(d)' = Steps(d)
         /\ \A T : \A d \in Deployment : Planned(d, T)' = Planned(d, T)
  BY DEF Kept, lists, Signalled, Active, Tracked, Candidates, New, Reason, Steps, Planned,
         HasAllocation, HasSignal, Listed, Removal

LEMMA AbortStep == IInv /\ (Abort \/ Throw) => IInv'
<1> SUFFICES ASSUME IInv, Abort \/ Throw PROVE IInv'
  OBVIOUS
<1>1. Kept /\ UNCHANGED <<rows, moved, allocated, tracked, rest, worker, opportunities, recommended,
                          errors, warnings, fact, stale, steps>>
  BY DEF Abort, Throw, Kept, lists, cleanup, pool, notes
<1>2. TypeOK'
  <2>1. pc' \in {pc, "thrown"} /\ aborted' \in {aborted, TRUE}
    BY DEF Abort, Throw
  <2>2. Signalled' = Signalled /\ Active' = Active /\ Tracked' = Tracked
    BY <1>1, KeptFacts
  <2>3. QED
    BY <1>1, <2>1, <2>2 DEF IInv, TypeOK
<1>3. pc' = pc \/ (pc' = "thrown" /\ pc \notin {"done", "thrown"})
  BY DEF Abort, Throw
<1>4. ListsInv' /\ StatusInv'
  BY <1>1, <1>3, KeptFacts DEF IInv, ListsInv, NothingRead, ListsAreWhole, StatusInv, EarlyInv
<1>5. EarlyInv' /\ CleanupInv'
  BY <1>1, <1>3, KeptFacts DEF IInv, EarlyInv, CleanupInv
<1>6. \A w \in 1 .. Fanout : Busy(w)' <=> Busy(w)
  BY <1>1 DEF Busy
<1>7. SharesInv'
  BY <1>1, <1>6, KeptFacts DEF IInv, SharesInv
<1>8. PoolInv'
  BY <1>1, <1>3, <1>6, KeptFacts DEF IInv, PoolInv, InFlight
<1>9. QED
  BY <1>2, <1>4, <1>5, <1>7, <1>8 DEF IInv

LEMMA StutterStep == IInv /\ UNCHANGED vars => IInv'
<1> SUFFICES ASSUME IInv, UNCHANGED vars PROVE IInv'
  OBVIOUS
<1>1. Kept /\ UNCHANGED <<pc, aborted, rows, moved, allocated, tracked, rest, worker, opportunities,
                          recommended, errors, warnings, fact, stale, steps>>
  BY DEF vars, Kept, lists, cleanup, pool, notes
<1>2. TypeOK' /\ ListsInv' /\ StatusInv' /\ EarlyInv' /\ CleanupInv'
  BY <1>1, KeptFacts DEF IInv, TypeOK, ListsInv, NothingRead, ListsAreWhole, StatusInv, EarlyInv,
                         CleanupInv
<1>3. \A w \in 1 .. Fanout : Busy(w)' <=> Busy(w)
  BY <1>1 DEF Busy
<1>4. SharesInv' /\ PoolInv'
  BY <1>1, <1>3, KeptFacts DEF IInv, SharesInv, PoolInv, InFlight
<1>5. QED
  BY <1>2, <1>4 DEF IInv

LEMMA GatherStep ==
  ASSUME NEW got \in SeqOf(Deployment, MaxRows), NEW active \in SUBSET Deployment,
         NEW cut \in BOOLEAN, NEW activeCut \in BOOLEAN, NEW shift \in BOOLEAN,
         IInv, Gather(got, cut, active, activeCut, shift)
  PROVE  IInv'
<1>1. /\ pc = "gather" /\ pc' = "statuses" /\ rows' = got /\ allocated' = active /\ moved' = shift
      /\ UNCHANGED <<fact, aborted, tracked, stale, steps, rest, worker, opportunities, recommended,
                     errors>>
  BY DEF Gather, cleanup, pool
<1>2. /\ Signalled' = Signalled /\ Active' = Active /\ Tracked' = Tracked
  BY <1>1 DEF Signalled, Active, Tracked
<1>3. rest = {} /\ opportunities = <<>> /\ recommended = {} /\ tracked = {}
  BY <1>1 DEF IInv, EarlyInv, ListsInv, NothingRead
<1>4. \A w \in 1 .. Fanout : worker[w] = Off /\ ~Busy(w)' /\ ~Busy(w)
  BY <1>1 DEF IInv, EarlyInv, Busy, Off, Reading
<1>5. rows' \in Seq(Signalled)
  <2>1. PICK m \in 0 .. MaxRows : got \in [1 .. m -> Deployment]
    BY DEF SeqOf
  <2>2. \A i \in 1 .. m : got[i] \in Signalled
    BY <2>1 DEF Gather, Pages, Range
  <2>3. QED
    BY <1>1, <2>1, <2>2
<1>6. warnings' \subseteq Note
  BY DEF Gather, Note
<1>7. TypeOK'
  <2>1. worker' \in [1 .. Fanout -> {Off, Ended, Thrown} \cup [item : DOMAIN rows', at : Reading]]
    BY <1>1, <1>4 DEF IInv, TypeOK
  <2>2. opportunities' \in Seq(DOMAIN rows')
    BY <1>1, <1>3
  <2>3. allocated' \subseteq Active
    BY <1>1 DEF Gather
  <2>4. QED
    BY <1>1, <1>2, <1>3, <1>5, <1>6, <2>1, <2>2, <2>3 DEF IInv, TypeOK
<1>8. ListsInv'
  <2>1. /\ activeCut => "allocations truncated" \in warnings'
        /\ cut => "signalled truncated" \in warnings'
    BY DEF Gather
  <2>2. ListsAreWhole({"allocations truncated"})' => ~shift /\ ~activeCut
    BY <1>1, <2>1 DEF ListsAreWhole
  <2>3. ListsAreWhole({"signalled truncated"})' => ~shift /\ ~cut
    BY <1>1, <2>1 DEF ListsAreWhole
  <2>4. /\ ~shift => IsInjective(got)
        /\ ~cut /\ ~shift => Range(got) = Signalled
        /\ ~activeCut /\ ~shift => active = Active
    BY DEF Gather, Pages
  <2>5. /\ ~moved' => IsInjective(rows)'
        /\ ~cut /\ ~shift => Range(rows)' = Signalled'
    BY <1>1, <1>2, <2>4 DEF IsInjective, Range
  <2>6. QED
    BY <1>1, <1>2, <2>2, <2>3, <2>4, <2>5 DEF ListsInv
<1>9. StatusInv' /\ EarlyInv'
  BY <1>1, <1>3, <1>4 DEF IInv, StatusInv, EarlyInv
<1>10. CleanupInv'
  BY <1>1 DEF IInv, EarlyInv, CleanupInv
<1>11. SharesInv' /\ PoolInv'
  BY <1>1, <1>3, <1>4 DEF SharesInv, PoolInv, Range, IsInjective
<1>12. QED
  BY <1>7, <1>8, <1>9, <1>10, <1>11 DEF IInv

LEMMA GatherFailsStep == IInv /\ GatherFails => IInv'
<1> SUFFICES ASSUME IInv, GatherFails PROVE IInv'
  OBVIOUS
<1>1. /\ Kept /\ pc = "gather" /\ pc' = "done" /\ errors' = {"network"}
      /\ UNCHANGED <<aborted, rows, moved, allocated, tracked, rest, worker, opportunities,
                     recommended, warnings, fact, stale, steps>>
  BY DEF GatherFails, Kept, lists, cleanup, pool
<1>2. TypeOK'
  BY <1>1, KeptFacts DEF IInv, TypeOK
<1>3. ListsInv' /\ StatusInv' /\ EarlyInv' /\ CleanupInv'
  BY <1>1, KeptFacts DEF IInv, ListsInv, NothingRead, StatusInv, EarlyInv, CleanupInv
<1>4. \A w \in 1 .. Fanout : Busy(w)' <=> Busy(w)
  BY <1>1 DEF Busy
<1>5. SharesInv' /\ PoolInv'
  BY <1>1, <1>4, KeptFacts DEF IInv, SharesInv, PoolInv
<1>6. QED
  BY <1>2, <1>3, <1>5 DEF IInv

LEMMA FilterStep ==
  ASSUME TypeOK, Kept, NEW T \in SUBSET Tracked, Filter(T), opportunities = <<>>, recommended = {},
         \A w \in 1 .. Fanout : worker[w] = Off, tracked' = T
  PROVE  /\ rest' = Candidates(T) /\ rest' \subseteq DOMAIN rows' /\ pc' \in {"done", "volumes"}
         /\ UNCHANGED <<worker, opportunities, recommended>>
         /\ SharesInv' /\ PoolInv'
<1>1. /\ rest' = Candidates(T) /\ pc' \in {"done", "volumes"}
      /\ UNCHANGED <<worker, opportunities, recommended, rows>>
  BY DEF Filter, Kept, lists
<1>2. rest' \subseteq DOMAIN rows'
  BY <1>1 DEF Candidates
<1>3. \A w \in 1 .. Fanout : ~Busy(w)'
  BY <1>1 DEF Busy, Off, Reading
<1>4. Range(opportunities)' = {} /\ IsInjective(opportunities)'
  BY <1>1 DEF Range, IsInjective
<1>5. Candidates(tracked)' = Candidates(T)
  BY KeptFacts DEF Kept, lists, Candidates, New, HasAllocation, Listed
<1>6. SharesInv' /\ PoolInv'
  BY <1>1, <1>3, <1>4, <1>5 DEF SharesInv, PoolInv
<1>7. QED
  BY <1>1, <1>2, <1>6

LEMMA ReadStatusesStep ==
  ASSUME NEW answered \in BOOLEAN, IInv, ReadStatuses(answered)
  PROVE  IInv'
<1>1. /\ Kept /\ pc = "statuses" /\ tracked' = IF answered THEN Tracked ELSE {}
      /\ UNCHANGED <<aborted, rows, moved, allocated, errors, fact, stale, steps>>
  BY DEF ReadStatuses, Kept, lists, cleanup
<1>2. /\ rest = {} /\ opportunities = <<>> /\ recommended = {}
      /\ \A w \in 1 .. Fanout : worker[w] = Off
      /\ \A d \in Deployment : stale[d] = "none" /\ steps[d] = <<>>
  BY <1>1 DEF IInv, EarlyInv
<1>3. tracked' \subseteq Tracked
  BY <1>1
<1>4. TypeOK
  BY DEF IInv
<1>5. CASE tracked' = {}
  <2>1. /\ Filter({})
        /\ warnings' = warnings \cup DeniedNote({}) \cup {note \in {"statuses"} : ~answered}
    BY <1>5 DEF ReadStatuses
  <2>2. /\ rest' = Candidates({}) /\ rest' \subseteq DOMAIN rows' /\ pc' \in {"done", "volumes"}
        /\ UNCHANGED <<worker, opportunities, recommended>>
        /\ SharesInv' /\ PoolInv'
    BY <1>1, <1>2, <1>4, <1>5, <2>1, FilterStep
  <2>3. warnings \subseteq warnings' /\ warnings' \subseteq Note /\ (~answered => "statuses" \in warnings')
    BY <2>1, <1>4 DEF TypeOK, Note, DeniedNote
  <2>4. TypeOK'
    BY <1>1, <1>3, <1>4, <2>2, <2>3, KeptFacts DEF TypeOK
  <2>5. ListsInv'
    BY <1>1, <2>2, <2>3, KeptFacts DEF IInv, ListsInv, ListsAreWhole
  <2>6. StatusInv'
    BY <1>1, <1>2, <2>2, <2>3, KeptFacts DEF StatusInv
  <2>7. EarlyInv' /\ CleanupInv'
    <3>1. Candidates(tracked)' = Candidates({})
      BY <1>1, <1>5 DEF Candidates, New, HasAllocation, Listed
    <3>2. QED
      BY <1>1, <1>2, <2>2, <3>1 DEF EarlyInv, CleanupInv
  <2>8. QED
    BY <2>2, <2>4, <2>5, <2>6, <2>7 DEF IInv
<1>6. CASE tracked' # {}
  <2>1. /\ pc' = "sizes" /\ answered
        /\ UNCHANGED <<rest, worker, opportunities, recommended, warnings>>
    BY <1>1, <1>6 DEF ReadStatuses, pool
  <2>2. TypeOK'
    BY <1>1, <1>3, <1>4, <2>1, KeptFacts DEF TypeOK
  <2>3. ListsInv' /\ StatusInv'
    BY <1>1, <1>2, <2>1, KeptFacts DEF IInv, ListsInv, ListsAreWhole, StatusInv
  <2>4. EarlyInv' /\ CleanupInv'
    BY <1>1, <1>2, <2>1 DEF EarlyInv, CleanupInv
  <2>5. \A w \in 1 .. Fanout : ~Busy(w)'
    BY <1>2, <2>1 DEF Busy, Off, Reading
  <2>6. SharesInv' /\ PoolInv'
    BY <1>2, <2>1, <2>5 DEF SharesInv, PoolInv, Range, IsInjective
  <2>7. QED
    BY <2>2, <2>3, <2>4, <2>6 DEF IInv
<1>7. QED
  BY <1>5, <1>6

LEMMA ReadSizesStep ==
  ASSUME NEW answered \in BOOLEAN, IInv, ReadSizes(answered)
  PROVE  IInv'
<1>1. /\ Kept /\ pc = "sizes" /\ Classify /\ Filter(tracked)
      /\ warnings' = warnings \cup CleanupNotes(tracked) \cup DeniedNote(tracked)
                       \cup {note \in {"sizes"} : ~answered}
      /\ UNCHANGED <<aborted, rows, moved, allocated, tracked, errors, fact>>
  BY DEF ReadSizes, Kept, lists
<1>2. /\ rest = {} /\ opportunities = <<>> /\ recommended = {}
      /\ \A w \in 1 .. Fanout : worker[w] = Off
  BY <1>1 DEF IInv, EarlyInv
<1>3. TypeOK /\ tracked \in SUBSET Tracked
  BY DEF IInv, TypeOK
<1>4. /\ rest' = Candidates(tracked) /\ rest' \subseteq DOMAIN rows' /\ pc' \in {"done", "volumes"}
      /\ UNCHANGED <<worker, opportunities, recommended>>
      /\ SharesInv' /\ PoolInv'
  BY <1>1, <1>2, <1>3, FilterStep
<1>5. warnings \subseteq warnings' /\ warnings' \subseteq Note
  BY <1>1, <1>3 DEF TypeOK, Note, DeniedNote, CleanupNotes
<1>6. TypeOK'
  <2>1. stale' \in [Deployment -> {"none", "orphaned", "no_signal", "unallocated"}]
    BY <1>1, ReasonType DEF Classify
  <2>2. steps' \in [Deployment -> Seq(Step)]
    BY <1>1, StepsOrdered DEF Classify
  <2>3. QED
    BY <1>1, <1>3, <1>4, <1>5, <2>1, <2>2, KeptFacts DEF TypeOK, Step
<1>7. ListsInv' /\ StatusInv'
  BY <1>1, <1>2, <1>4, <1>5, KeptFacts DEF IInv, ListsInv, ListsAreWhole, StatusInv
<1>8. EarlyInv'
  BY <1>1, <1>2, <1>4, KeptFacts DEF EarlyInv
<1>9. CleanupInv'
  <2> SUFFICES ASSUME NEW d \in Deployment
      PROVE  /\ stale'[d] # "none" => d \in tracked' /\ stale'[d] = Reason(d)'
             /\ steps'[d] # <<>> =>
                  Planned(d, tracked)' /\ steps'[d] = Steps(d)' /\ stale'[d] = Reason(d)'
    BY DEF CleanupInv
  <2>1. /\ stale'[d] = IF d \in tracked THEN Reason(d) ELSE "none"
        /\ steps'[d] = IF Planned(d, tracked) THEN Steps(d) ELSE <<>>
    BY <1>1 DEF Classify
  <2>2. Reason(d)' = Reason(d) /\ Steps(d)' = Steps(d) /\ Planned(d, tracked)' = Planned(d, tracked)
    BY <1>1, KeptFacts DEF Planned
  <2>3. QED
    BY <1>1, <2>1, <2>2 DEF Planned
<1>10. QED
  BY <1>4, <1>6, <1>7, <1>8, <1>9 DEF IInv

LEMMA ReadVolumesStep ==
  ASSUME NEW note \in SUBSET Note, IInv, ReadVolumes(note)
  PROVE  IInv'
<1>1. /\ Kept /\ pc = "volumes" /\ pc' = "pool" /\ warnings' = warnings \cup note
      /\ UNCHANGED <<aborted, rows, moved, allocated, tracked, stale, steps, opportunities,
                     recommended, errors, fact>>
  BY DEF ReadVolumes, Kept, lists, cleanup
<1>2. /\ rest = Candidates(tracked) /\ opportunities = <<>> /\ recommended = {}
      /\ rest \subseteq DOMAIN rows
  BY <1>1 DEF IInv, EarlyInv, TypeOK
<1>3. DOMAIN rows = 1 .. Len(rows) /\ Len(rows) \in Nat
  <2>1. rows \in Seq(Signalled)
    BY DEF IInv, TypeOK
  <2>2. QED
    BY <2>1
<1>4. PICK taken \in [1 .. Fanout -> rest \cup {0}] :
        /\ \A v, w \in 1 .. Fanout :
             v < w => taken[w] = 0 \/ (taken[v] # 0 /\ taken[v] < taken[w])
        /\ rest' = rest \ Range(taken)
        /\ \A i \in rest', w \in 1 .. Fanout : taken[w] # 0 /\ taken[w] < i
        /\ worker' = [w \in 1 .. Fanout |->
                        IF taken[w] = 0 THEN Off ELSE [item |-> taken[w], at |-> "stake"]]
  BY DEF ReadVolumes, StartPool
<1>5. \A w \in 1 .. Fanout :
        /\ taken[w] = 0 => worker'[w] = Off /\ ~Busy(w)'
        /\ taken[w] # 0 => /\ worker'[w].item = taken[w] /\ worker'[w].at = "stake" /\ Busy(w)'
                           /\ taken[w] \in rest \ rest'
  BY <1>4 DEF Busy, Off, Reading, Range
<1>6. TypeOK'
  <2>1. worker' \in [1 .. Fanout -> {Off, Ended, Thrown} \cup [item : DOMAIN rows', at : Reading]]
    BY <1>1, <1>2, <1>4, <1>5 DEF Reading
  <2>2. warnings' \subseteq Note
    BY <1>1 DEF IInv, TypeOK, Note
  <2>3. rest' \subseteq DOMAIN rows'
    BY <1>1, <1>2, <1>4
  <2>4. QED
    BY <1>1, <2>1, <2>2, <2>3, KeptFacts DEF IInv, TypeOK
<1>7. ListsInv' /\ StatusInv'
  BY <1>1, KeptFacts DEF IInv, ListsInv, ListsAreWhole, StatusInv
<1>8. EarlyInv' /\ CleanupInv'
  BY <1>1, <1>2, KeptFacts DEF IInv, EarlyInv, CleanupInv
<1>9. Candidates(tracked)' = rest
  BY <1>1, <1>2, KeptFacts DEF Candidates, New, HasAllocation, Listed
<1>10. Range(opportunities)' = {} /\ IsInjective(opportunities)'
  <2>1. opportunities' = <<>> /\ DOMAIN <<>> = {}
    BY <1>1, <1>2
  <2>2. QED
    BY <2>1 DEF Range, IsInjective
<1>11. SharesInv'
  <2>1. \A v, w \in 1 .. Fanout : Busy(v)' /\ Busy(w)' /\ worker'[v].item = worker'[w].item => v = w
    <3> SUFFICES ASSUME NEW v \in 1 .. Fanout, NEW w \in 1 .. Fanout, Busy(v)', Busy(w)',
                        worker'[v].item = worker'[w].item
                 PROVE  v = w
      OBVIOUS
    <3>1. taken[v] # 0 /\ taken[w] # 0 /\ taken[v] = taken[w]
      BY <1>5
    <3>2. taken[v] \in Int
      BY <1>2, <1>3, <1>4
    <3>3. ~(v < w) /\ ~(w < v)
      BY <3>1, <3>2, <1>4
    <3>4. QED
      BY <3>3
  <2>2. \A w \in 1 .. Fanout : Busy(w)' => worker'[w].item \in rest \ rest'
    BY <1>5
  <2>3. rest' \subseteq rest
    BY <1>4
  <2>4. QED
    BY <1>1, <1>2, <1>9, <1>10, <2>1, <2>2, <2>3 DEF SharesInv
<1>12. PoolInv'
  <2>1. rest \subseteq rest' \cup InFlight'
    <3> SUFFICES ASSUME NEW i \in rest, i \notin rest' PROVE i \in InFlight'
      OBVIOUS
    <3>1. PICK w \in 1 .. Fanout : taken[w] = i
      BY <1>4 DEF Range
    <3>2. i # 0
      BY <1>2, <1>3
    <3>3. Busy(w)' /\ worker'[w].item = i
      BY <1>5, <3>1, <3>2
    <3>4. QED
      BY <3>3 DEF InFlight
  <2>2. \A w \in 1 .. Fanout :
          worker'[w].at # "thrown" /\ (worker'[w].at \in {"off", "ended"} => rest' = {})
    BY <1>4, <1>5 DEF Off
  <2>3. QED
    BY <1>9, <2>1, <2>2 DEF PoolInv
<1>13. QED
  BY <1>6, <1>7, <1>8, <1>11, <1>12 DEF IInv

(* A worker goes from one of its reads to the next. *)
LEMMA MoveOn ==
  ASSUME IInv, Kept, NEW w \in 1 .. Fanout, Busy(w), NEW next \in Reading,
         worker' = [worker EXCEPT ![w].at = next],
         UNCHANGED <<pc, aborted, tracked, stale, steps, rest, opportunities, recommended, errors>>,
         warnings' \subseteq Note, warnings \subseteq warnings'
  PROVE  IInv'
<1>1. UNCHANGED <<fact, rows, moved, allocated>>
  BY DEF Kept, lists
<1>2. /\ worker \in [1 .. Fanout -> {Off, Ended, Thrown} \cup [item : DOMAIN rows, at : Reading]]
      /\ worker[w] \in [item : DOMAIN rows, at : Reading]
  BY DEF IInv, TypeOK, Busy, Off, Ended, Thrown, Reading
<1>3. /\ worker'[w].item = worker[w].item /\ worker'[w].at = next
      /\ worker'[w] \in [item : DOMAIN rows, at : Reading]
      /\ \A v \in 1 .. Fanout : v # w => worker'[v] = worker[v]
  BY <1>2
<1>4. \A v \in 1 .. Fanout : /\ Busy(v)' <=> Busy(v)
                             /\ Busy(v) => worker'[v].item = worker[v].item
                             /\ ~Busy(v) => worker'[v] = worker[v]
  BY <1>3 DEF Busy
<1>5. TypeOK'
  <2>1. worker' \in [1 .. Fanout -> {Off, Ended, Thrown} \cup [item : DOMAIN rows', at : Reading]]
    BY <1>1, <1>2, <1>3
  <2>2. QED
    BY <1>1, <2>1, KeptFacts DEF IInv, TypeOK
<1>6. ListsInv' /\ StatusInv'
  <2>1. pc # "gather"
    BY DEF IInv, EarlyInv, Busy, Off, Reading
  <2>2. ~NothingRead
    BY <1>2 DEF NothingRead
  <2>3. QED
    BY <1>1, <2>1, <2>2, KeptFacts DEF IInv, ListsInv, ListsAreWhole, StatusInv
<1>7. EarlyInv'
  <2>1. pc \notin {"gather", "statuses", "sizes", "volumes"}
    BY DEF IInv, EarlyInv, Busy, Off, Reading
  <2>2. QED
    BY <2>1 DEF IInv, EarlyInv
<1>8. CleanupInv'
  BY <1>1, KeptFacts DEF IInv, CleanupInv
<1>9. SharesInv'
  BY <1>1, <1>4, KeptFacts DEF IInv, SharesInv
<1>10. PoolInv'
  <2>1. InFlight' = InFlight
    BY <1>4 DEF InFlight
  <2>2. \A v \in 1 .. Fanout : worker'[v].at = worker[v].at \/ worker'[v].at \in Reading
    BY <1>3
  <2>3. QED
    BY <1>1, <2>1, <2>2, KeptFacts DEF IInv, PoolInv, Reading
<1>11. QED
  BY <1>5, <1>6, <1>7, <1>8, <1>9, <1>10 DEF IInv

LEMMA ReadStakeStep ==
  ASSUME NEW w \in 1 .. Fanout, NEW answered \in BOOLEAN, IInv, ReadStake(w, answered)
  PROVE  IInv'
<1>1. /\ Kept /\ worker[w].at = "stake" /\ worker' = [worker EXCEPT ![w].at = "entities"]
      /\ UNCHANGED <<pc, aborted, tracked, stale, steps, rest, opportunities, recommended, errors>>
  BY DEF ReadStake, Kept, lists, cleanup
<1>2. warnings' \subseteq Note /\ warnings \subseteq warnings'
  BY DEF ReadStake, IInv, TypeOK, Note
<1>3. Busy(w) /\ "entities" \in Reading
  BY <1>1 DEF Busy, Reading
<1>4. QED
  BY <1>1, <1>2, <1>3, MoveOn

LEMMA ReadEntitiesStep ==
  ASSUME NEW w \in 1 .. Fanout, IInv, ReadEntities(w)
  PROVE  IInv'
<1>1. /\ Kept /\ worker[w].at = "entities" /\ worker' = [worker EXCEPT ![w].at = "chain"]
      /\ UNCHANGED <<pc, aborted, tracked, stale, steps, rest, opportunities, recommended, errors,
                     warnings>>
  BY DEF ReadEntities, Kept, lists, cleanup, notes
<1>2. warnings' \subseteq Note /\ warnings \subseteq warnings'
  BY <1>1 DEF IInv, TypeOK
<1>3. Busy(w) /\ "chain" \in Reading
  BY <1>1 DEF Busy, Reading
<1>4. QED
  BY <1>1, <1>2, <1>3, MoveOn

LEMMA WorkerThrowsStep ==
  ASSUME NEW w \in 1 .. Fanout, IInv, WorkerThrows(w)
  PROVE  IInv'
<1>1. /\ Kept /\ Busy(w) /\ worker' = [worker EXCEPT ![w] = Thrown]
      /\ pc' = IF pc = "pool" THEN "thrown" ELSE pc
      /\ UNCHANGED <<aborted, rows, moved, allocated, tracked, stale, steps, rest, opportunities,
                     recommended, errors, warnings, fact>>
  BY DEF WorkerThrows, Reject, Kept, lists, cleanup, notes
<1>2. worker \in [1 .. Fanout -> {Off, Ended, Thrown} \cup [item : DOMAIN rows, at : Reading]]
  BY DEF IInv, TypeOK
<1>3. worker'[w] = Thrown /\ \A v \in 1 .. Fanout : v # w => worker'[v] = worker[v]
  BY <1>1, <1>2
<1>4. \A v \in 1 .. Fanout : Busy(v)' => Busy(v) /\ worker'[v] = worker[v]
  BY <1>3 DEF Busy, Thrown, Reading
<1>5. TypeOK'
  <2>1. worker' \in [1 .. Fanout -> {Off, Ended, Thrown} \cup [item : DOMAIN rows', at : Reading]]
    BY <1>1, <1>2
  <2>2. QED
    BY <1>1, <2>1, KeptFacts DEF IInv, TypeOK
<1>6. pc \notin {"gather", "statuses", "sizes", "volumes"}
  BY <1>1 DEF IInv, EarlyInv, Busy, Off, Reading
<1>7. ListsInv' /\ StatusInv' /\ EarlyInv' /\ CleanupInv'
  BY <1>1, <1>6, KeptFacts DEF IInv, ListsInv, NothingRead, ListsAreWhole, StatusInv, EarlyInv,
                               CleanupInv
<1>8. SharesInv'
  BY <1>1, <1>4, KeptFacts DEF IInv, SharesInv
<1>9. PoolInv'
  BY <1>1 DEF PoolInv
<1>10. QED
  BY <1>5, <1>7, <1>8, <1>9 DEF IInv

(* Another row is pushed, and the worker takes up the next one or none. *)
LEMMA EvaluateStep ==
  ASSUME NEW w \in 1 .. Fanout, IInv, Evaluate(w)
  PROVE  IInv'
<1> DEFINE x == worker[w].item
<1>1. /\ Kept /\ TakeNext(w) /\ opportunities' = Append(opportunities, x)
      /\ UNCHANGED <<aborted, rows, moved, allocated, tracked, stale, steps, recommended, errors,
                     warnings, fact>>
  BY DEF Evaluate, Pushed, Kept, lists, cleanup, notes
<1>2. /\ worker \in [1 .. Fanout -> {Off, Ended, Thrown} \cup [item : DOMAIN rows, at : Reading]]
      /\ rest \subseteq DOMAIN rows /\ opportunities \in Seq(DOMAIN rows)
  BY DEF IInv, TypeOK
<1>3. Busy(w) /\ x \in DOMAIN rows
  BY <1>2 DEF Evaluate, Busy, Reading, Off, Ended, Thrown
<1>4. pc \notin {"gather", "statuses", "sizes", "volumes"}
  BY <1>3 DEF IInv, EarlyInv, Busy, Off, Reading
<1>5. /\ x \in Candidates(tracked) /\ x \notin rest /\ x \notin Range(opportunities)
      /\ \A v \in 1 .. Fanout : Busy(v) /\ v # w => worker[v].item # x
  BY <1>3 DEF IInv, SharesInv
<1>6. /\ opportunities' \in Seq(DOMAIN rows)
      /\ Range(opportunities)' = Range(opportunities) \cup {x}
      /\ IsInjective(opportunities)'
  <2>1. opportunities' \in Seq(DOMAIN rows)
    BY <1>1, <1>2, <1>3
  <2>2. Range(Append(opportunities, x)) = Range(opportunities) \cup {x}
    BY <1>2, <1>3, RangeOfAppend
  <2>3. IsInjective(Append(opportunities, x))
    <3>1. IsInjective(opportunities)
      BY DEF IInv, SharesInv
    <3>2. QED
      BY <1>2, <1>3, <1>5, <3>1, AppendKeepsInjective
  <2>4. QED
    BY <1>1, <2>1, <2>2, <2>3 DEF Range, IsInjective
<1>7. Candidates(tracked)' = Candidates(tracked)
  BY <1>1, KeptFacts DEF Candidates, New, HasAllocation, Listed
<1>8. SUFFICES /\ worker' \in [1 .. Fanout -> {Off, Ended, Thrown}
                                               \cup [item : DOMAIN rows, at : Reading]]
               /\ rest' \subseteq rest /\ (pc' = pc \/ (pc = "pool" /\ pc' = "thrown"))
               /\ \A v \in 1 .. Fanout : v # w => worker'[v] = worker[v]
               /\ Busy(w)' => worker'[w].item \in rest \ rest'
               /\ pc' = "pool" =>
                    /\ pc = "pool"
                    /\ rest' = rest \/ (Busy(w)' /\ rest = rest' \cup {worker'[w].item})
                    /\ worker'[w].at # "thrown" /\ (worker'[w].at \in {"off", "ended"} => rest' = {})
  <2>1. TypeOK'
    BY <1>1, <1>2, <1>6, <1>8, KeptFacts DEF IInv, TypeOK
  <2>2. ListsInv' /\ StatusInv' /\ CleanupInv'
    BY <1>1, <1>4, <1>8, KeptFacts DEF IInv, ListsInv, NothingRead, ListsAreWhole, StatusInv,
                                       EarlyInv, CleanupInv
  <2>3. EarlyInv'
    BY <1>1, <1>4, <1>8 DEF IInv, EarlyInv
  <2>4. \A v \in 1 .. Fanout : v # w => (Busy(v)' <=> Busy(v))
    BY <1>8 DEF Busy
  <2>5. SharesInv'
    <3>1. \A v \in 1 .. Fanout : Busy(v)' =>
            worker'[v].item \in Candidates(tracked) \ (rest' \cup Range(opportunities)')
      BY <1>3, <1>5, <1>6, <1>8, <2>4 DEF IInv, SharesInv
    <3>2. \A v \in 1 .. Fanout : v # w /\ Busy(v)' /\ Busy(w)' => worker'[v].item # worker'[w].item
      BY <1>8, <2>4 DEF IInv, SharesInv
    <3>3. \A v, u \in 1 .. Fanout : Busy(v)' /\ Busy(u)' /\ worker'[v].item = worker'[u].item => v = u
      BY <1>8, <2>4, <3>2 DEF IInv, SharesInv
    <3>4. rest' \cap Range(opportunities)' = {}
      BY <1>5, <1>6, <1>8 DEF IInv, SharesInv
    <3>5. rest' \cup Range(opportunities)' \subseteq Candidates(tracked)
      BY <1>5, <1>6, <1>8 DEF IInv, SharesInv
    <3>6. recommended' \subseteq Range(opportunities)'
      BY <1>1, <1>6 DEF IInv, SharesInv
    <3>7. QED
      BY <1>6, <1>7, <3>1, <3>3, <3>4, <3>5, <3>6 DEF SharesInv
  <2>6. PoolInv'
    <3> SUFFICES ASSUME pc' = "pool"
        PROVE  /\ Candidates(tracked)' \subseteq rest' \cup Range(opportunities)' \cup InFlight'
               /\ \A v \in 1 .. Fanout :
                    worker'[v].at # "thrown" /\ (worker'[v].at \in {"off", "ended"} => rest' = {})
      BY DEF PoolInv
    <3>1. pc = "pool"
      BY <1>8
    <3>2. InFlight \subseteq InFlight' \cup {x}
      BY <1>8, <2>4 DEF InFlight
    <3>3. rest \subseteq rest' \cup InFlight'
      BY <1>8 DEF InFlight
    <3>4. Candidates(tracked) \subseteq rest' \cup Range(opportunities)' \cup InFlight'
      BY <1>6, <3>1, <3>2, <3>3 DEF IInv, PoolInv
    <3>5. \A v \in 1 .. Fanout :
            worker'[v].at # "thrown" /\ (worker'[v].at \in {"off", "ended"} => rest' = {})
      BY <1>8, <3>1 DEF IInv, PoolInv
    <3>6. QED
      BY <1>7, <3>4, <3>5
  <2>7. QED
    BY <2>1, <2>2, <2>3, <2>5, <2>6 DEF IInv
<1> DEFINE Workers == [1 .. Fanout -> {Off, Ended, Thrown} \cup [item : DOMAIN rows, at : Reading]]
<1>9. CASE rest = {} /\ worker' = [worker EXCEPT ![w] = Ended] /\ UNCHANGED <<rest, pc>>
  <2>1. worker'[w] = Ended /\ \A v \in 1 .. Fanout : v # w => worker'[v] = worker[v]
    BY <1>2, <1>9
  <2>2. worker' \in Workers
    BY <1>2, <1>9
  <2>3. ~Busy(w)' /\ worker'[w].at # "thrown"
    BY <2>1 DEF Busy, Ended, Reading
  <2>4. rest' = {} /\ rest' = rest /\ pc' = pc
    BY <1>9
  <2>5. QED
    BY <2>1, <2>2, <2>3, <2>4
<1>10. CASE \E i \in First(rest) :
              /\ rest' = rest \ {i} /\ aborted
              /\ worker' = [worker EXCEPT ![w] = Thrown] /\ pc' = Reject
  <2>1. worker'[w] = Thrown /\ \A v \in 1 .. Fanout : v # w => worker'[v] = worker[v]
    BY <1>2, <1>10
  <2>2. worker' \in Workers
    BY <1>2, <1>10
  <2>3. ~Busy(w)'
    BY <2>1 DEF Busy, Thrown, Reading
  <2>4. /\ rest' \subseteq rest
        /\ (pc' = pc \/ (pc = "pool" /\ pc' = "thrown")) /\ pc' # "pool"
    BY <1>10 DEF Reject
  <2>5. QED
    BY <2>1, <2>2, <2>3, <2>4
<1>11. CASE \E i \in First(rest) : rest' = rest \ {i} /\ worker' = Begin(w, i) /\ UNCHANGED pc
  <2>1. PICK i \in rest : rest' = rest \ {i} /\ worker' = Begin(w, i) /\ UNCHANGED pc
    BY <1>11 DEF First
  <2>2. worker'[w].item = i /\ worker'[w].at = "stake" /\ Busy(w)'
    BY <1>2, <2>1 DEF Begin, Busy, Reading
  <2>3. worker' \in Workers
    BY <1>2, <2>1 DEF Begin, Reading
  <2>4. \A v \in 1 .. Fanout : v # w => worker'[v] = worker[v]
    BY <1>2, <2>1 DEF Begin
  <2>5. rest' \subseteq rest /\ rest = rest' \cup {worker'[w].item} /\ worker'[w].item \in rest \ rest'
    BY <2>1, <2>2
  <2>6. worker'[w].at # "thrown" /\ worker'[w].at \notin {"off", "ended"} /\ pc' = pc
    BY <2>1, <2>2
  <2>7. QED
    BY <2>2, <2>3, <2>4, <2>5, <2>6
<1>12. QED
  BY <1>1, <1>9, <1>10, <1>11 DEF TakeNext

LEMMA RecommendStep ==
  ASSUME NEW top \in SUBSET (1 .. MaxRows), IInv, Recommend(top)
  PROVE  IInv'
<1>1. /\ Kept /\ pc = "pool" /\ pc' = "done" /\ recommended' = top
      /\ top \subseteq Range(opportunities)
      /\ UNCHANGED <<aborted, rows, moved, allocated, tracked, stale, steps, rest, worker,
                     opportunities, errors, warnings, fact>>
  BY DEF Recommend, Kept, lists, cleanup, pool, notes
<1>2. TypeOK'
  <2>1. Range(opportunities) \subseteq DOMAIN rows
    <3>1. opportunities \in Seq(DOMAIN rows)
      BY DEF IInv, TypeOK
    <3>2. QED
      BY <3>1 DEF Range
  <2>2. QED
    BY <1>1, <2>1, KeptFacts DEF IInv, TypeOK
<1>3. ListsInv' /\ StatusInv' /\ EarlyInv' /\ CleanupInv'
  BY <1>1, KeptFacts DEF IInv, ListsInv, NothingRead, ListsAreWhole, StatusInv, EarlyInv, CleanupInv
<1>4. \A w \in 1 .. Fanout : Busy(w)' <=> Busy(w)
  BY <1>1 DEF Busy
<1>5. SharesInv' /\ PoolInv'
  BY <1>1, <1>4, KeptFacts DEF IInv, SharesInv, PoolInv
<1>6. QED
  BY <1>2, <1>3, <1>5 DEF IInv

LEMMA NextStep == IInv /\ [Next]_vars => IInv'
<1> SUFFICES ASSUME IInv, [Next]_vars PROVE IInv'
  OBVIOUS
<1>1. CASE UNCHANGED vars
  BY <1>1, StutterStep
<1>2. CASE Abort \/ Throw
  BY <1>2, AbortStep
<1>3. CASE GatherFails
  BY <1>3, GatherFailsStep
<1>4. CASE Finished
  BY <1>4, StutterStep DEF Finished
<1>5. CASE \E got \in SeqOf(Deployment, MaxRows), active \in SUBSET Deployment,
              cut, activeCut, shift \in BOOLEAN : Gather(got, cut, active, activeCut, shift)
  BY <1>5, GatherStep
<1>6. CASE \E answered \in BOOLEAN : ReadStatuses(answered) \/ ReadSizes(answered)
  BY <1>6, ReadStatusesStep, ReadSizesStep
<1>7. CASE \E note \in {{}, {"volumes"}, {"volumes truncated"}} : ReadVolumes(note)
  <2>1. ReadVolumes({}) \/ ReadVolumes({"volumes"}) \/ ReadVolumes({"volumes truncated"})
    BY <1>7, Zenon
  <2>2. {} \in SUBSET Note /\ {"volumes"} \in SUBSET Note /\ {"volumes truncated"} \in SUBSET Note
    BY DEF Note
  <2>3. QED
    BY <2>1, <2>2, ReadVolumesStep
<1>8. CASE \E w \in 1 .. Fanout : WorkerStep(w)
  <2>1. PICK w \in 1 .. Fanout : WorkerStep(w)
    BY <1>8
  <2>2. QED
    BY <2>1, WorkerThrowsStep, ReadEntitiesStep, EvaluateStep, ReadStakeStep DEF WorkerStep
<1>9. CASE \E top \in SUBSET (1 .. MaxRows) : Recommend(top)
  BY <1>9, RecommendStep
<1>10. QED
  BY <1>1, <1>2, <1>3, <1>4, <1>5, <1>6, <1>7, <1>8, <1>9 DEF Next

LEMMA SpecInv == Spec => []IInv
<1>1. Init => IInv
  BY InitInv
<1>2. IInv /\ [Next]_vars => IInv'
  BY NextStep
<1>3. QED
  BY <1>1, <1>2, PTL DEF Spec

-----------------------------------------------------------------------------
(* Every variable keeps its type: rows, workers and opportunities point    *)
(* into the list that was read.                                            *)
THEOREM DiscoveryTypeCorrect == Spec => []TypeOK
<1>1. IInv => TypeOK
  BY DEF IInv
<1>2. QED
  BY <1>1, SpecInv, PTL

(* What the engine takes from lists that were whole is so.                 *)
LEMMA WholeLists ==
  ASSUME IInv, NEW d \in Deployment, d \in tracked \/ \E i \in DOMAIN rows : rows[i] = d
  PROVE  /\ ListsAreWhole({"allocations truncated"}) => (HasAllocation(d) <=> fact[d].active)
         /\ ListsAreWhole({"signalled truncated"}) => (HasSignal(d) <=> fact[d].signal = "high")
<1>1. ~NothingRead
  BY DEF NothingRead
<1>2. QED
  BY <1>1 DEF IInv, ListsInv, HasAllocation, HasSignal, Active, Signalled, Range

(* buildCleanupAction: no step of a plan stops or removes a deployment     *)
(* before its allocation is closed, unless the list of allocations was cut *)
(* off.                                                                    *)
THEOREM PlansCloseFirst == Spec => []TeardownIsSafe
<1>1. IInv => TeardownIsSafe
  <2> SUFFICES ASSUME IInv, NEW d \in Deployment
      PROVE  /\ fact[d].active /\ ListsAreWhole({"allocations truncated"}) =>
                  \A step \in {"pause", "unassign", "unused_record", "unused_remove"} :
                    Before(steps[d], "close_allocation", step)
             /\ ~fact[d].paused => Before(steps[d], "pause", "unassign")
             /\ Before(steps[d], "unassign", "unused_remove")
    BY DEF TeardownIsSafe
  <2>1. CASE steps[d] = <<>>
    BY <2>1 DEF Before
  <2>2. CASE steps[d] # <<>>
    <3>1. d \in tracked /\ steps[d] = Steps(d)
      BY <2>2 DEF IInv, CleanupInv, Planned
    <3>2. ListsAreWhole({"allocations truncated"}) /\ fact[d].active => HasAllocation(d)
      BY <3>1, WholeLists
    <3>3. QED
      BY <3>1, <3>2, StepsOrdered DEF Step
  <2>3. QED
    BY <2>1, <2>2
<1>2. QED
  BY <1>1, SpecInv, PTL

(* runCleanup: what is paused for maintenance, still syncing, frozen or,   *)
(* as unallocated, whitelisted is never planned for teardown.              *)
THEOREM NothingMaintainedIsPlanned == Spec => []MaintenanceIsRespected
<1>1. IInv => MaintenanceIsRespected
  <2> SUFFICES ASSUME IInv, NEW d \in Deployment, steps[d] # <<>>
      PROVE  /\ fact[d].status = "synced" /\ ~Listed(d, "frozen")
             /\ Listed(d, "white") => stale[d] # "unallocated"
             /\ fact[d].paused /\ ListsAreWhole({"allocations truncated", "signalled truncated"}) =>
                  ~fact[d].active /\ fact[d].signal # "high"
    BY DEF MaintenanceIsRespected
  <2>1. d \in tracked /\ Reason(d) # "none" /\ ~Listed(d, "frozen") /\ stale[d] = Reason(d)
    BY DEF IInv, CleanupInv, Planned
  <2>2. /\ fact[d].status = "synced"
        /\ Listed(d, "white") => Reason(d) # "unallocated"
        /\ fact[d].paused => ~HasAllocation(d) /\ ~HasSignal(d)
    BY <2>1 DEF Reason
  <2>3. ListsAreWhole({"allocations truncated", "signalled truncated"}) =>
          ListsAreWhole({"allocations truncated"}) /\ ListsAreWhole({"signalled truncated"})
    BY DEF ListsAreWhole
  <2>4. QED
    BY <2>1, <2>2, <2>3, WholeLists
<1>2. QED
  BY <1>1, SpecInv, PTL

(* runDiscovery: what is recommended is new to the indexer, neither denied *)
(* nor blacklisted, not torn down by the same result and named once.       *)
THEOREM OnlyNewIsRecommended == Spec => []RecommendationsAreNew
<1>1. IInv => RecommendationsAreNew
  <2> SUFFICES ASSUME IInv, NEW i \in recommended
      PROVE  /\ fact[rows[i]].signal = "high" /\ ~fact[rows[i]].denied /\ ~Listed(rows[i], "black")
             /\ ListsAreWhole({"allocations truncated"}) => ~fact[rows[i]].active
             /\ "statuses" \notin warnings => fact[rows[i]].status = "none"
             /\ steps[rows[i]] = <<>>
             /\ \A j \in recommended : rows[j] = rows[i] /\ ~moved => i = j
    BY DEF RecommendationsAreNew
  <2> DEFINE d == rows[i]
  <2>1. i \in DOMAIN rows /\ New(d, tracked)
    BY DEF IInv, SharesInv, Candidates
  <2>2. d \in Deployment /\ fact[d].signal = "high"
    BY <2>1 DEF IInv, TypeOK, Signalled
  <2>3. ~HasAllocation(d) /\ d \notin tracked /\ ~Listed(d, "black") /\ ~fact[d].denied
    BY <2>1 DEF New
  <2>4. ListsAreWhole({"allocations truncated"}) => ~fact[d].active
    BY <2>1, <2>2, <2>3, WholeLists
  <2>5. "statuses" \notin warnings => fact[d].status = "none"
    BY <2>2, <2>3 DEF IInv, StatusInv, Tracked
  <2>6. steps[d] = <<>>
    BY <2>2, <2>3 DEF IInv, CleanupInv, Planned
  <2>7. \A j \in recommended : rows[j] = d /\ ~moved => i = j
    <3>1. recommended \subseteq DOMAIN rows /\ ~NothingRead
      BY <2>1 DEF IInv, TypeOK, NothingRead
    <3>2. ~moved => IsInjective(rows)
      BY <3>1 DEF IInv, ListsInv
    <3>3. QED
      BY <2>1, <3>1, <3>2 DEF IsInjective
  <2>8. QED
    BY <2>2, <2>3, <2>4, <2>5, <2>6, <2>7
<1>2. QED
  BY <1>1, SpecInv, PTL

(* mapPool: the index shared by the workers gives each candidate to one of *)
(* them, for any number of workers, and none is left out at the end.       *)
THEOREM CandidatesAreShared == Spec => []EachCandidateOnce
<1>1. IInv => EachCandidateOnce
  <2> SUFFICES ASSUME IInv PROVE EachCandidateOnce
    OBVIOUS
  <2>1. (rest \cup Range(opportunities)) \cap InFlight = {}
    BY DEF IInv, SharesInv, InFlight
  <2>2. pc = "pool" /\ PoolEnded => Range(opportunities) = Candidates(tracked)
    <3> HAVE pc = "pool" /\ PoolEnded
    <3>1. InFlight = {}
      BY DEF PoolEnded, InFlight, Busy, Reading
    <3>2. 1 \in 1 .. Fanout
      BY DiscoveryAssumption
    <3>3. rest = {}
      BY <3>2 DEF PoolEnded, IInv, PoolInv
    <3>4. QED
      BY <3>1, <3>3 DEF IInv, PoolInv, SharesInv
  <2>3. QED
    BY <2>1, <2>2 DEF IInv, SharesInv, EachCandidateOnce
<1>2. QED
  BY <1>1, SpecInv, PTL

(* throwIfAborted: after the caller has given up no worker takes up a      *)
(* candidate and the run has no result.                                    *)
THEOREM AbortEndsTheRun == Spec => NothingNewAfterAbort
<1> DEFINE Quiet == aborted =>
      /\ pc' = "done" => pc = "done"
      /\ \A w \in 1 .. Fanout : worker'[w].at = "stake" => worker'[w] = worker[w]
<1>1. IInv /\ [Next]_vars => [Quiet]_vars
  <2> SUFFICES ASSUME IInv, Next, aborted
      PROVE  /\ pc' = "done" => pc = "done"
             /\ \A w \in 1 .. Fanout : worker'[w].at = "stake" => worker'[w] = worker[w]
    OBVIOUS
  <2>1. worker \in [1 .. Fanout -> {Off, Ended, Thrown} \cup [item : DOMAIN rows, at : Reading]]
    BY DEF IInv, TypeOK
  <2>2. CASE Throw
    BY <2>2 DEF Throw, pool
  <2>3. CASE Finished
    BY <2>3 DEF Finished, vars, pool
  <2>4. CASE \E w \in 1 .. Fanout : WorkerStep(w)
    <3>1. PICK v \in 1 .. Fanout : WorkerStep(v)
      BY <2>4
    <3>2. worker[v] \in {Off, Ended, Thrown} \cup [item : DOMAIN rows, at : Reading]
      BY <2>1
    <3>3. CASE WorkerThrows(v)
      BY <2>1, <3>3 DEF WorkerThrows, Reject, Thrown
    <3>4. CASE ReadEntities(v)
      BY <2>1, <3>4 DEF ReadEntities
    <3>5. CASE Evaluate(v)
      <4>1. \/ worker' = [worker EXCEPT ![v] = Ended] /\ pc' = pc
            \/ worker' = [worker EXCEPT ![v] = Thrown] /\ pc' = Reject
        BY <3>5 DEF Evaluate, TakeNext
      <4>2. worker'[v] \in {Ended, Thrown} /\ \A w \in 1 .. Fanout : w # v => worker'[w] = worker[w]
        BY <2>1, <3>1, <4>1
      <4>3. pc' = "done" => pc = "done"
        BY <4>1 DEF Reject
      <4>4. QED
        BY <4>2, <4>3 DEF Ended, Thrown
    <3>6. CASE \E answered \in BOOLEAN : ReadStake(v, answered)
      BY <2>1, <3>6 DEF ReadStake
    <3>7. QED
      BY <3>1, <3>3, <3>4, <3>5, <3>6 DEF WorkerStep
  <2>5. /\ ~Abort /\ ~GatherFails /\ \A top : ~Recommend(top) /\ ~ReadVolumes(top)
        /\ \A got, cut, active, activeCut, shift : ~Gather(got, cut, active, activeCut, shift)
        /\ \A answered : ~ReadStatuses(answered) /\ ~ReadSizes(answered)
    BY DEF Abort, GatherFails, Gather, ReadStatuses, ReadSizes, ReadVolumes, Recommend, GoesOn
  <2>6. Throw \/ Finished \/ \E w \in 1 .. Fanout : WorkerStep(w)
    BY <2>5, Zenon DEF Next
  <2>7. QED
    BY <2>2, <2>3, <2>4, <2>6
<1>2. QED
  BY <1>1, SpecInv, PTL DEF Spec, NothingNewAfterAbort
=============================================================================
