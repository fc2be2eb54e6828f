----------------------------- MODULE Allocator -----------------------------
(***************************************************************************)
(* The allocation core of services/allocation-optimizer.ts (optimize):     *)
(* iterative-greedy water-filling of the available stake in chunks, with   *)
(* per-deployment caps, a bound on slots of which current allocations are  *)
(* seated first, and reward floors enforced by a bounded number of reflow  *)
(* passes.                                                                 *)
(*                                                                         *)
(* The code runs it in one synchronous stretch; here every chunk and every *)
(* floor pass is a step, so that the loop invariants are invariants of the *)
(* specification.  Amounts are in a unit of the model's choosing, the      *)
(* number of chunks and the scale of marginals are scaled down with them.  *)
(***************************************************************************)
EXTENDS Integers, FiniteSets, Functions

CONSTANTS
  N,              \* number of candidates
  Candidate,      \* the records a candidate may be
  Budget,         \* values of availableStake
  MaxAllocations, FrozenSlots,   \* values the slot bound is computed from
  Floor,          \* [gas, rewards] : annual wei of the two floors
  TotalStake, CapPct, RiskyCapPct,
  TotalSignal, IssuancePerYear,
  Chunks,         \* CHUNKS
  ReflowPasses,   \* REFLOW_PASSES
  MarginalScale, MaxMarginal

ASSUME AllocatorAssumption ==
  /\ N \in Nat /\ TotalStake \in Nat /\ CapPct \in Nat /\ RiskyCapPct \in Nat
  /\ TotalSignal \in Nat /\ IssuancePerYear \in Nat
  /\ Chunks \in Nat \ {0} /\ ReflowPasses \in Nat \ {0}
  /\ MarginalScale \in Nat /\ MaxMarginal \in Nat \ {0}
  /\ Budget \subseteq Nat /\ MaxAllocations \subseteq Nat /\ FrozenSlots \subseteq Nat
  /\ Floor \subseteq [gas : Nat, rewards : Nat]
  /\ Candidate \subseteq [signal : Nat, staked : Nat, current : Nat, risky : BOOLEAN,
                          listed : {"no", "qm", "bytes32"}]

(* "2^200 is comfortably larger than any realistic" marginal, which is at  *)
(* most the reward times the scale.                                        *)
ASSUME SentinelAssumption ==
  TotalSignal # 0 =>
    \A c \in Candidate :
      ((c.signal * IssuancePerYear) \div TotalSignal) * MarginalScale <= MaxMarginal

VARIABLES
  cand,       \* input: the candidates, in order
  available,  \* input: the stake to place
  slots,      \* input: remainingSlots, maxAllocations less the frozen ones
  floors,     \* input: the reward floors
  phase,      \* "fill", "floor", "reflow" or "done"
  pass,       \* reflow passes finished
  iter,       \* iterations of the current greedy loop
  remaining,  \* stake the current greedy loop may still place
  index,      \* the pick that the floor pass looks at next
  reflowBudget,  \* stake that the floor pass has taken back
  allocations,
  slotsUsed,
  rejected    \* rewardFloorRejected

input == <<cand, available, slots, floors>>
floorPass == <<index, reflowBudget>>
vars == <<input, phase, pass, iter, remaining, floorPass, allocations, slotsUsed, rejected>>

-----------------------------------------------------------------------------
Least(x, y) == IF x < y THEN x ELSE y
Most(x, y) == IF x > y THEN x ELSE y

(* The per-candidate figures that optimize derives first. *)
R(i) == (cand[i].signal * IssuancePerYear) \div TotalSignal

D(i) == Most(0, cand[i].staked - cand[i].current)

Cap(i) == (TotalStake * (IF cand[i].risky THEN RiskyCapPct ELSE CapPct)) \div 100

(* The lookup of the deployment, in Qm form, in the configured list, whose *)
(* entries are kept in the form the operator wrote them.                   *)
Whitelisted(i) == cand[i].listed = "qm"

(* computeMarginal. *)
Marginal(r, d, a, whitelisted) ==
  IF r = 0 THEN 0
  ELSE IF a = 0 /\ (whitelisted \/ d = 0) THEN MaxMarginal
  ELSE IF d = 0 THEN 0
  ELSE (r * d * MarginalScale) \div ((d + a) * (d + a))

(* Candidates without a share of the rewards are not picks at all. *)
Pick == {i \in 1 .. N : R(i) # 0}

MarginalOf(i) == Marginal(R(i), D(i), allocations[i], Whitelisted(i))

(* The picks that hold an allocation already, best earner first. *)
Current == {i \in Pick : cand[i].current > 0}

Score(k) == Marginal(R(k), D(k), cand[k].current, FALSE)

EarnsMore(j, i) == Score(j) > Score(i) \/ (Score(j) = Score(i) /\ j < i)

(* As many of them as there are slots are seated up front. *)
PreSeated ==
  {i \in Current : Cardinality({j \in Current : EarnsMore(j, i)}) < slots}

-----------------------------------------------------------------------------
ChunkSize == Most(1, available \div Chunks)

MaxIters == Chunks + Cardinality(Pick) + 1

(* Mutant: the slot guard is missing. *)
MayGrowAnySlot(i) ==
  /\ i \in Pick \ rejected
  /\ allocations[i] < Cap(i)
  /\ MarginalOf(i) > 0

(* A pick that the argmax of the greedy loop considers. *)
MayGrow(i) ==
  /\ i \in Pick \ rejected
  /\ allocations[i] < Cap(i)
  /\ allocations[i] = 0 /\ i \notin PreSeated => slotsUsed < slots
  /\ MarginalOf(i) > 0

(* Mutant: the first pick that may grow is taken. *)
BestIsFirst(i) == MayGrow(i) /\ \A j \in 1 .. i - 1 : ~MayGrow(j)

(* The argmax: strictly greater wins, so the first index of a tie does. *)
Best(i) ==
  /\ MayGrow(i)
  /\ \A j \in 1 .. N : MayGrow(j) => \/ MarginalOf(j) < MarginalOf(i)
                                     \/ MarginalOf(j) = MarginalOf(i) /\ i <= j

Amount(i) == Least(Least(ChunkSize, Cap(i) - allocations[i]), remaining)

(* One iteration of either greedy loop. *)
GiveChunk(i) ==
  /\ phase \in {"fill", "reflow"}
  /\ iter < MaxIters /\ remaining > 0
  /\ Best(i)
  /\ slotsUsed' = slotsUsed + (IF allocations[i] = 0 /\ i \notin PreSeated THEN 1 ELSE 0)
  /\ allocations' = [allocations EXCEPT ![i] = @ + Amount(i)]
  /\ remaining' = remaining - Amount(i)
  /\ iter' = iter + 1
  /\ UNCHANGED <<input, phase, pass, floorPass, rejected>>

LoopEnds == iter = MaxIters \/ remaining = 0 \/ \A i \in 1 .. N : ~MayGrow(i)

(* A floor pass starts at the first pick with nothing taken back. *)
StartFloorPass == phase' = "floor" /\ index' = 1 /\ reflowBudget' = 0

Stop == phase' = "done" /\ UNCHANGED floorPass

(* The floors are looked at only when one of them is set. *)
EndFill ==
  /\ phase = "fill" /\ LoopEnds
  /\ IF floors.gas > 0 \/ floors.rewards > 0 THEN StartFloorPass ELSE Stop
  /\ UNCHANGED <<input, pass, iter, remaining, allocations, slotsUsed, rejected>>

EndReflow ==
  /\ phase = "reflow" /\ LoopEnds
  /\ pass' = pass + 1
  /\ IF pass + 1 < ReflowPasses THEN StartFloorPass ELSE Stop
  /\ UNCHANGED <<input, iter, remaining, allocations, slotsUsed, rejected>>

Reward(i) == (R(i) * allocations[i]) \div (D(i) + allocations[i])

(* Mutant: new allocations face the floor of existing ones only. *)
ThresholdGasOnly(i) == floors.gas

Threshold(i) ==
  IF cand[i].current > 0 THEN floors.gas ELSE Most(floors.gas, floors.rewards)

BelowFloor(i) == i \in Pick \ rejected /\ allocations[i] > 0 /\ Reward(i) < Threshold(i)

(* Mutant: the stake of a dropped pick is released but not taken away. *)
DropReleasesOnly(i) ==
  /\ reflowBudget' = reflowBudget + allocations[i]
  /\ rejected' = rejected \cup {i}
  /\ UNCHANGED allocations

Drop(i) ==
  /\ reflowBudget' = reflowBudget + allocations[i]
  /\ rejected' = rejected \cup {i}
  /\ allocations' = [allocations EXCEPT ![i] = 0]

(* The floor pass looks at one pick. *)
CheckFloor(i) ==
  /\ phase = "floor" /\ index = i
  /\ IF BelowFloor(i) THEN Drop(i) ELSE UNCHANGED <<reflowBudget, rejected, allocations>>
  /\ index' = index + 1
  /\ UNCHANGED <<input, phase, pass, iter, remaining, slotsUsed>>

(* ... and when all have been looked at, hands out what was taken back. *)
EndFloorPass ==
  /\ phase = "floor" /\ index = N + 1
  /\ IF reflowBudget = 0 THEN phase' = "done" /\ UNCHANGED <<iter, remaining>>
     ELSE phase' = "reflow" /\ iter' = 0 /\ remaining' = reflowBudget
  /\ reflowBudget' = 0
  /\ UNCHANGED <<input, pass, index, allocations, slotsUsed, rejected>>

-----------------------------------------------------------------------------
(* The early returns leave the plan empty. *)
NothingToDo ==
  N = 0 \/ TotalSignal = 0 \/ IssuancePerYear = 0 \/ available = 0 \/ slots = 0 \/ Pick = {}

Init ==
  /\ cand \in [1 .. N -> Candidate]
  /\ available \in Budget
  /\ slots \in {Most(0, m - f) : m \in MaxAllocations, f \in FrozenSlots}
  /\ floors \in Floor
  /\ phase = IF NothingToDo THEN "done" ELSE "fill"
  /\ pass = 0 /\ iter = 0
  /\ remaining = available
  /\ index = 1 /\ reflowBudget = 0
  /\ allocations = [i \in 1 .. N |-> 0]
  /\ slotsUsed = IF NothingToDo THEN 0 ELSE Least(Cardinality(Current), slots)
  /\ rejected = {}

(* The plan is made: nothing is left to do. *)
Finished == phase = "done" /\ UNCHANGED vars

Step == \/ \E i \in 1 .. N : GiveChunk(i) \/ CheckFloor(i)
        \/ EndFill \/ EndFloorPass \/ EndReflow

Next == Step \/ Finished

Spec == Init /\ [][Next]_vars

-----------------------------------------------------------------------------
TypeOK ==
  /\ cand \in [1 .. N -> Candidate]
  /\ available \in Nat /\ slots \in Nat
  /\ phase \in {"fill", "floor", "reflow", "done"}
  /\ pass \in 0 .. ReflowPasses /\ iter \in Nat
  /\ remaining \in Nat /\ index \in 1 .. N + 1 /\ reflowBudget \in Nat
  /\ allocations \in [1 .. N -> Nat]
  /\ slotsUsed \in Nat
  /\ rejected \subseteq 1 .. N

(* The plan never places more than the stake that is available. *)
BudgetRespected == SumFunction(allocations) + remaining + reflowBudget <= available

(* "allocations stop growing past" the per-deployment cap, also while      *)
(* reflow hands out the stake of dropped deployments.                      *)
CapsRespected == \A i \in 1 .. N : allocations[i] <= Cap(i)

(* maxAllocations: with the slots of the frozen allocations set aside, the *)
(* plan never holds more deployments than there are slots, although some   *)
(* were seated up front, some slots change hands and some are given up.    *)
SlotsRespected == Cardinality({i \in 1 .. N : allocations[i] > 0}) <= slots

(* "mark them rejected so they can't re-claim it": a deployment dropped by *)
(* a floor has no stake in the plan from then on.                          *)
RejectedStayOut == \A i \in rejected : allocations[i] = 0

ClearsFloors(i) ==
  Reward(i) >= floors.gas /\ (cand[i].current = 0 => Reward(i) >= floors.rewards)

(* As long as the passes were enough, the allocations of the plan clear    *)
(* their floors: existing ones the gas floor, new ones both.               *)
FloorsHoldWithinPasses ==
  phase = "done" /\ pass < ReflowPasses /\ floors # [gas |-> 0, rewards |-> 0] =>
    \A i \in 1 .. N : allocations[i] > 0 => ClearsFloors(i)

(* Water-filling: while the stake is placed, no pick that could grow has a *)
(* better marginal than another had when it received its last chunk.       *)
Equalized ==
  phase = "fill" =>
    \A i, j \in 1 .. N : allocations[i] > 0 /\ MayGrow(j) =>
      Marginal(R(i), D(i), Most(0, allocations[i] - ChunkSize), Whitelisted(i))
        >= MarginalOf(j)

(* "Prevents stake that would otherwise sit idle": stake is left over only *)
(* when no pick could take it; the bound on iterations never cuts a loop.  *)
NoIdleStake ==
  phase \in {"floor", "done"} /\ ~NothingToDo =>
    remaining = 0 \/ \A i \in 1 .. N : ~MayGrow(i)

(* "We trust allocations[] here": every allocation of the plan clears its  *)
(* floor, however many passes it took.                                     *)
FloorsHold ==
  phase = "done" => \A i \in 1 .. N : allocations[i] > 0 => ClearsFloors(i)

Room == floors.gas = 0 /\ floors.rewards = 0 /\ slots >= N /\ available >= N * ChunkSize

(* "guaranteed at least one chunk": with room for everyone, every          *)
(* whitelisted deployment that earns anything is in the plan, in whatever  *)
(* form the operator wrote its identifier.                                 *)
ListedServed ==
  phase = "done" /\ Room =>
    \A i \in Pick : cand[i].listed # "no" /\ Cap(i) > 0 => allocations[i] > 0

(* The same for identifiers written in Qm form. *)
QmListedServed ==
  phase = "done" /\ Room =>
    \A i \in Pick : cand[i].listed = "qm" /\ Cap(i) > 0 => allocations[i] > 0
=============================================================================
