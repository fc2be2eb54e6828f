---------------------------- MODULE OptimizerRun ----------------------------
(***************************************************************************)
(* One run of the allocation optimizer (services/allocation-optimizer.ts,  *)
(* run and diffActions): gather the state of the network and of graph-node *)
(* in stages of parallel reads, each of which may fail or answer in part,  *)
(* filter the candidates, place the stake, and turn the difference to the  *)
(* current allocations into actions for the indexer-agent.                 *)
(*                                                                         *)
(* A stage is a barrier (Promise.allSettled): the run looks at the reads   *)
(* only when all have settled, so a stage is one step.  The placement      *)
(* itself is the module Allocator; here it is any placement with the       *)
(* bounds that Allocator guarantees.                                       *)
(***************************************************************************)
EXTENDS Integers, FiniteSets, Functions

CONSTANTS
  Deployment,
  Chain,             \* the chains graph-node indexes
  Fact,              \* the records a deployment may be
  Capacity,          \* tokenCapacity of the indexer
  AllocationLimits,  \* values of config.maxAllocations
  Stakes,            \* stake a placement may give to a deployment
  FallbackLimit      \* FALLBACK_LIMIT

(* active: stakes of the indexer's allocations to it.  signal: above,      *)
(* below minSignal or none.  status: what graph-node knows; its latest     *)
(* block is behind the start of the epoch on its chain, missing although   *)
(* it has once synced (blockless), or fit.  lists: where the operator put  *)
(* the deployment.                                                         *)
FactRecord ==
  [active : SUBSET (Nat \ {0}), signal : {"none", "low", "high"}, denied : BOOLEAN,
   status : {"none", "unhealthy", "paused", "never", "behind", "blockless", "ready"},
   chain : Chain, lists : SUBSET {"white", "black", "frozen"}]

ASSUME RunAssumption ==
  /\ Fact \subseteq FactRecord
  /\ Capacity \in Nat /\ AllocationLimits \subseteq Nat /\ FallbackLimit \in Nat
  /\ Stakes \subseteq Nat /\ 0 \in Stakes
  /\ IsFiniteSet(Deployment)

VARIABLES
  fact,        \* input: the deployments as they are
  seats,       \* input: config.maxAllocations
  pc,          \* "gather", "status", "fallback", "decide", "done" or "thrown"
  aborted,     \* the caller's signal has fired
  params,      \* the network parameters were read
  held,        \* the largest allocation to each that the run has seen, or 0
  signalled,   \* deployments the signalled query returned
  bulk,        \* deployments with a status from the bulk query
  starts,      \* chains whose epoch start block was read
  asked,       \* deployments whose status was asked for one by one
  recovered,   \* ... and was found
  hydrated,    \* deployments read one by one from the network subgraph
  errors, warnings,   \* what the result reports
  proposed,    \* proposedAllocations, 0 for none
  actions

given == <<fact, seats>>
gathered == <<params, held, signalled>>
statuses == <<bulk, starts>>
plan == <<proposed, actions>>
runVars == <<given, pc, aborted, gathered, statuses, asked, recovered, hydrated, errors, warnings, plan>>

-----------------------------------------------------------------------------
Listed(list) == {d \in Deployment : list \in fact[d].lists}

(* currentByDeployment: of several allocations to a deployment the largest. *)
currents == {d \in Deployment : held[d] > 0}

Signalled == {d \in Deployment : fact[d].signal = "high"}

Tracked == {d \in Deployment : fact[d].status # "none"}

Candidates == signalled \cup Listed("white") \cup currents

(* Ids whose signal and stake the run has to read one by one. *)
ToHydrate == Candidates \ (signalled \cup Listed("black"))

MissingStatus == Candidates \ bulk

(* The order in which missing statuses are asked for. *)
Rank(d) == IF d \in currents THEN 1 ELSE IF d \in Listed("white") THEN 2 ELSE 3

(* The first FallbackLimit of them. *)
Slice(T) ==
  /\ T \subseteq MissingStatus
  /\ IF Cardinality(MissingStatus) <= FallbackLimit THEN T = MissingStatus
     ELSE Cardinality(T) = FallbackLimit
  /\ \A d \in T, e \in MissingStatus \ T : Rank(d) <= Rank(e)

-----------------------------------------------------------------------------
RunInit ==
  /\ fact \in [Deployment -> Fact] /\ seats \in AllocationLimits
  /\ pc = "gather" /\ aborted = FALSE
  /\ params = FALSE /\ starts = {}
  /\ held = [d \in Deployment |-> 0] /\ signalled = {} /\ bulk = {}
  /\ asked = {} /\ recovered = {} /\ hydrated = {}
  /\ errors = {} /\ warnings = {}
  /\ proposed = [d \in Deployment |-> 0]
  /\ actions = [d \in Deployment |-> "none"]

(* The caller gives up while the run waits for a stage. *)
Abort ==
  /\ pc \notin {"done", "thrown"} /\ ~aborted
  /\ aborted' = TRUE
  /\ UNCHANGED <<given, pc, gathered, statuses, asked, recovered, hydrated, errors, warnings, plan>>

GoesOn == ~aborted

(* throwIfAborted after a barrier. *)
Throw ==
  /\ pc \in {"gather", "status", "decide"} /\ aborted
  /\ pc' = "thrown"
  /\ UNCHANGED <<given, aborted, gathered, statuses, asked, recovered, hydrated, errors, warnings, plan>>

(* The indexer is not found or could not be read: an empty plan. *)
GatherNoIndexer ==
  /\ pc = "gather" /\ GoesOn
  /\ pc' = "done"
  /\ errors' \in SUBSET {"indexer"}
  /\ warnings' = {"no indexer"}
  /\ UNCHANGED <<given, aborted, gathered, statuses, asked, recovered, hydrated, plan>>

(* What a list of the active allocations may show of each deployment.      *)
Shown == {h \in [Deployment -> {0} \cup UNION {fact[d].active : d \in Deployment}] :
            \A d \in Deployment : h[d] \in fact[d].active \cup {0}}

(* The four reads of the first stage; a failed list counts as empty.  The  *)
(* lists are paged by skip and any row may be missing: behind the cap on   *)
(* pages (the mark of a cut list is left out, it decides nothing) or, with *)
(* no mark at all, because rows shifted between two pages.                 *)
Gather(failed, largest, high) ==
  /\ pc = "gather" /\ GoesOn
  /\ largest \in Shown /\ ("active" \in failed => \A d \in Deployment : largest[d] = 0)
  /\ high \subseteq Signalled /\ ("signalled" \in failed => high = {})
  /\ params' = ("params" \notin failed)
  /\ held' = largest
  /\ signalled' = high
  /\ errors' = failed
  /\ pc' = "status"
  /\ UNCHANGED <<given, aborted, statuses, asked, recovered, hydrated, warnings, plan>>

Blamed(failed) == failed \ {"epochs"}

(* Statuses in bulk, in part or not at all, and the epoch, whose answer    *)
(* may lack the row of any chain, or every row.                            *)
ReadStatuses(failed, got, rows) ==
  /\ pc = "status" /\ GoesOn
  /\ got \subseteq Candidates \cap Tracked
  /\ "statuses" \in failed => got = {}
  /\ "epochs" \in failed => rows = {}
  /\ bulk' = got
  /\ starts' = rows
  /\ errors' = errors \cup Blamed(failed)
  /\ warnings' = warnings \cup (failed \cap {"epochs"})
  /\ pc' = IF Candidates \subseteq got THEN "decide" ELSE "fallback"
  /\ UNCHANGED <<given, aborted, gathered, asked, recovered, hydrated, plan>>

(* Missing statuses one by one, up to the limit. *)
Fallback(targets, got) ==
  /\ pc = "fallback"
  /\ Slice(targets)
  /\ got \subseteq targets \cap Tracked
  /\ asked' = targets
  /\ recovered' = got
  /\ warnings' = warnings \cup {"statuses missing"}
  /\ pc' = "decide"
  /\ UNCHANGED <<given, aborted, gathered, statuses, hydrated, errors, plan>>

-----------------------------------------------------------------------------
HasStatus(d) == d \in bulk \cup recovered

(* Mutant: pauses are taken from the bulk answer alone. *)
PausedInBulk(d) == d \in bulk /\ fact[d].status = "paused"

Paused(d) == HasStatus(d) /\ fact[d].status = "paused"

(* graph-node reports a paused deployment as healthy. *)
Healthy(d) == HasStatus(d) /\ fact[d].status # "unhealthy"

(* Signal, stake and denial are known for what has been read. *)
Known(d, read) == d \in signalled \cup read

ReachesGate(d, read) ==
  /\ d \in Candidates \ Listed("black")
  /\ ~(Known(d, read) /\ fact[d].denied) \/ d \in Listed("white")
  /\ Healthy(d) /\ ~Paused(d)
  /\ fact[d].status # "never"

(* The epoch gate needs the start block of the chain and a latest block;   *)
(* it is open for a deployment that lacks either.                          *)
Admitted(d, read) ==
  ReachesGate(d, read) /\ ~(fact[d].chain \in starts /\ fact[d].status = "behind")

(* What is said of the deployments it is open for.  When no chain has a    *)
(* row this is left to the warning of a failed read of the epoch.          *)
GateNotes(read) ==
  LET passing == {d \in Deployment : ReachesGate(d, read)}
  IN  (IF starts # {} /\ (\E d \in passing : fact[d].chain \notin starts)
       THEN {"chain unmatched"} ELSE {}) \cup
      (IF \E d \in passing : fact[d].chain \in starts /\ fact[d].status = "blockless"
       THEN {"no latest block"} ELSE {})

Frozen == currents \cap Listed("frozen")

(* Mutant: frozen candidates compete for slots and stake. *)
OptimizableWithFrozen(read) == {d \in Deployment : Admitted(d, read)}

Optimizable(read) == {d \in Deployment : Admitted(d, read)} \ Listed("frozen")

(* What earns nothing is not picked: without signal, or signal unknown. *)
Picks(read) == {d \in Optimizable(read) : Known(d, read) /\ fact[d].signal # "none"}

FrozenStake == SumFunctionOnSet(held, Frozen)

(* Mutant: the stake of frozen allocations is not set aside. *)
AllOfCapacity == Capacity

Available == IF Capacity > FrozenStake THEN Capacity - FrozenStake ELSE 0

(* Mutant: frozen allocations do not count against the slots. *)
AllSlots == seats

Slots ==
  IF seats > Cardinality(Frozen) THEN seats - Cardinality(Frozen) ELSE 0

(* The placements that optimize may return. *)
Placement(p, read) ==
  LET placed == {d \in Deployment : p[d] > 0}
  IN  /\ placed \subseteq Picks(read)
      /\ ~params => placed = {}
      /\ Cardinality(placed) <= Slots
      /\ SumFunction(p) <= Available

Propose(p) == [d \in Deployment |-> IF d \in Frozen THEN held[d] ELSE p[d]]

(* diffActions for one deployment, by its proposed stake. *)
Diff(d, amount) ==
  IF d \in Listed("frozen") THEN "none"
  ELSE IF d \notin currents THEN (IF amount > 0 THEN "allocate" ELSE "none")
  ELSE IF amount = 0 THEN "unallocate"
  ELSE IF amount # held[d] THEN "reallocate" ELSE "none"

(* Mutant: the failure of a lookup is not reported. *)
LookupsUnreported(read, failed) == errors' = errors /\ warnings' = warnings \cup GateNotes(read)

(* What is reported of lookups that failed or answered null, and of the    *)
(* filter.                                                                 *)
ReportLookups(read, failed) ==
  /\ errors' = errors \cup (IF failed # {} THEN {"deployment"} ELSE {})
  /\ warnings' = warnings \cup
       (IF ToHydrate # read \cup failed THEN {"deployment null"} ELSE {}) \cup
       GateNotes(read) \cup (IF params THEN {} ELSE {"empty plan"})

(* The last stage, lookups of deployments that the signalled query did not *)
(* return, and then, in one stretch, filter, placement and diff.           *)
Decide(read, failed, p) ==
  /\ pc = "decide" /\ GoesOn
  /\ read \subseteq ToHydrate /\ failed \subseteq ToHydrate \ read
  /\ hydrated' = read
  /\ ReportLookups(read, failed)
  /\ Placement(p, read)
  /\ proposed' = Propose(p)
  /\ actions' = [d \in Deployment |-> Diff(d, p[d])]
  /\ pc' = "done"
  /\ UNCHANGED <<given, aborted, gathered, statuses, asked, recovered>>

(* The result has been returned, or the run has thrown. *)
RunFinished == pc \in {"done", "thrown"} /\ UNCHANGED runVars

RunNext ==
  \/ Abort \/ Throw \/ GatherNoIndexer \/ RunFinished
  \/ \E failed \in SUBSET {"active", "signalled", "params"}, largest \in Shown,
        high \in SUBSET Deployment :
       Gather(failed, largest, high)
  \/ \E failed \in SUBSET {"statuses", "epochs"}, got \in SUBSET Deployment, rows \in SUBSET Chain :
       ReadStatuses(failed, got, rows)
  \/ \E targets, got \in SUBSET Deployment : Fallback(targets, got)
  \/ \E read, failed \in SUBSET Deployment, p \in [Deployment -> Stakes] :
       Decide(read, failed, p)

RunSpec == RunInit /\ [][RunNext]_runVars

-----------------------------------------------------------------------------
Source == {"indexer", "active", "signalled", "params", "statuses", "deployment"}

Note == {"no indexer", "epochs", "statuses missing", "chain unmatched", "no latest block",
         "deployment null", "empty plan"}

RunTypeOK ==
  /\ fact \in [Deployment -> Fact] /\ seats \in Nat
  /\ pc \in {"gather", "status", "fallback", "decide", "done", "thrown"}
  /\ aborted \in BOOLEAN /\ params \in BOOLEAN /\ starts \subseteq Chain
  /\ held \in [Deployment -> Nat]
  /\ \A d \in Deployment : held[d] \in fact[d].active \cup {0}
  /\ signalled \subseteq Deployment
  /\ bulk \subseteq Tracked /\ recovered \subseteq asked \cap Tracked
  /\ asked \subseteq MissingStatus
  /\ hydrated \subseteq ToHydrate
  /\ errors \subseteq Source /\ warnings \subseteq Note
  /\ proposed \in [Deployment -> Nat]
  /\ actions \in [Deployment -> {"none", "allocate", "unallocate", "reallocate"}]

(* What an action does to the stake of an allocation. *)
Turns(action, from, to) ==
  \/ action = "none" /\ from = to
  \/ action = "allocate" /\ from = 0 /\ to > 0
  \/ action = "unallocate" /\ from > 0 /\ to = 0
  \/ action = "reallocate" /\ from > 0 /\ to > 0 /\ from # to

(* "Compute the minimal action set that transforms the current allocation  *)
(* state into the proposed state": carried out, the actions turn what the  *)
(* run has seen into what it proposes, frozen deployments included.        *)
ActionsReachProposal ==
  pc = "done" => \A d \in Deployment : Turns(actions[d], held[d], proposed[d])

(* The proposal, frozen allocations included, fits the indexer's stake.    *)
StakeFits ==
  pc = "done" => SumFunction(proposed) <= (IF FrozenStake > Capacity THEN FrozenStake ELSE Capacity)

(* ... and maxAllocations, frozen allocations included. *)
SlotsFit ==
  pc = "done" =>
    LET taken == Cardinality({d \in Deployment : proposed[d] > 0})
    IN  taken <= seats \/ taken <= Cardinality(Frozen)

(* The epoch gate had no start block or no latest block to go by, and,     *)
(* unless no chain had one, the result says so.                            *)
GateStoodOpen(d) ==
  \/ /\ fact[d].status \in {"behind", "blockless"} /\ fact[d].chain \notin starts
     /\ starts = {} \/ "chain unmatched" \in warnings
  \/ fact[d].status = "blockless" /\ "no latest block" \in warnings

(* "unsafe to allocate to a deployment that's actively broken": whatever   *)
(* failed or came in part, stake is only ever sent to deployments that may *)
(* earn with it, or that the epoch gate could not judge.                   *)
AllocationsAreFit ==
  \A d \in Deployment : actions[d] \in {"allocate", "reallocate"} =>
    /\ "black" \notin fact[d].lists
    /\ fact[d].denied => "white" \in fact[d].lists
    /\ fact[d].status = "ready" \/ GateStoodOpen(d)

(* "Fail OPEN": "Surface the degradation as a warning" and "the EBO-down   *)
(* case already produced its own degradation warning": stake for a         *)
(* deployment behind the epoch is never sent without a word.               *)
OpenGateIsReported ==
  \A d \in Deployment : actions[d] \in {"allocate", "reallocate"} /\ fact[d].status = "behind" =>
    "epochs" \in warnings \/ "chain unmatched" \in warnings

(* The fallback "prioritized by source": while the status of a current     *)
(* allocation goes unasked, no other deployment's is asked for.            *)
CurrentsAskedFirst ==
  asked # {} => \/ MissingStatus \cap currents \subseteq asked
                \/ asked \subseteq currents

(* What the optimizer would want to keep, if it knew. *)
Fit(d) ==
  /\ fact[d].lists \cap {"black", "frozen"} = {}
  /\ fact[d].denied => "white" \in fact[d].lists
  /\ fact[d].status = "ready" /\ fact[d].signal # "none"

(* "Per-source failures degrade gracefully and are recorded": an existing  *)
(* allocation that is fit and yet was not considered is closed only with   *)
(* the read that kept it out reported.                                     *)
ClosesAreExplained ==
  pc = "done" => \A d \in currents : Fit(d) /\ actions[d] = "unallocate" =>
    \/ params /\ d \in Picks(hydrated)
    \/ ~params /\ "params" \in errors /\ "empty plan" \in warnings
    \/ ~HasStatus(d) /\ "statuses missing" \in warnings
    \/ ~Known(d, hydrated) /\ ("deployment" \in errors \/ "deployment null" \in warnings)

(* A run whose caller has given up returns no plan. *)
NoPlanAfterAbort == aborted => pc # "done"

(* "returning empty plan": a run that says so asks for nothing. *)
EmptyPlanIsEmpty ==
  "empty plan" \in warnings => \A d \in Deployment : actions[d] = "none"
=============================================================================
