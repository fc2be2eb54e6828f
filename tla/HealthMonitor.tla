--------------------------- MODULE HealthMonitor ---------------------------
(***************************************************************************)
(* One health check (services/health-monitor.ts): how each active          *)
(* allocation can be closed in this epoch, which cannot, and what to do    *)
(* about the deployments that failed.                                      *)
(*                                                                         *)
(* The allocations are classified concurrently, each from two reads; the   *)
(* failed ones are read a second time, one after the other.  Meanwhile     *)
(* graph-node goes on, the epoch flips and cache entries expire.  The two  *)
(* caches are TtlCache (clients/graph-node.ts, clients/ebo-subgraph.ts):   *)
(* callers of one key share one fetch, so a read is one step, taken when   *)
(* its answer arrives.                                                     *)
(***************************************************************************)
EXTENDS Integers, Sequences, FiniteSets

CONSTANTS
  Allocation, Deployment,
  Placement,        \* which deployment each allocation may be on
  Tokens,           \* allocatedTokens of each allocation
  LargeFloor,       \* LARGE_ALLOCATION_WEI
  Network,          \* chain aliases
  Row,              \* the indexing statuses graph-node may report
  Absent,           \* graph-node has no row
  NotRead,          \* nothing was read
  LastEpoch,        \* bound: the epochs that can come
  Start,            \* start block of each epoch on each network
  MaxChanges        \* bound: how often a status changes

Unknown == -1       \* null, for blocks

Block == Nat \cup {Unknown}

(* fatal, block and pattern describe fatalError: whether it is there and   *)
(* deterministic, where it happened, and what its message asks for.        *)
RowRecord ==
  [health : {"healthy", "unhealthy", "failed"}, fatal : {"none", "det", "nondet"},
   block : Block, pattern : {"rewind", "clear", "other"},
   chains : Seq([network : Network, latest : Block, healthy : Block])]

ASSUME HealthAssumption ==
  /\ Placement \subseteq [Allocation -> Deployment] /\ Tokens \in [Allocation -> Nat]
  /\ IsFiniteSet(Allocation) /\ LargeFloor \in Nat
  /\ Row \subseteq RowRecord
  /\ Absent \notin Row /\ NotRead \notin Row /\ Absent # NotRead
  /\ LastEpoch \in Nat \ {0} /\ MaxChanges \in Nat
  /\ Start \in [1..LastEpoch -> [Network -> Block]]

VARIABLES
  deploymentOf, \* input: the deployment of each allocation
  status,      \* graph-node: the row of each deployment, or Absent
  epoch,       \* the current epoch
  changes,     \* history: changes of a status so far
  cached,      \* healthCache, NotRead for no entry
  pc,          \* "timing", "list", "classify", "recover", "done" or "thrown"
  aborted,     \* the caller's signal has fired
  judged,      \* timing.currentEpoch, 0 when it is unknown
  urgent,      \* hoursUntilNextEpoch is known and below the threshold
  listed,      \* the active allocations that were read
  moved,       \* history: rows moved between two pages of their list
  stage,       \* of a classification: "status", "epoch", "row" or "rejected"
  seen,        \* the status an allocation was classified by
  start,       \* ... and the start block
  again,       \* the status a deployment's recovery was planned by
  asked,       \* deployments in the recovery plan
  expired,     \* history: deployments whose cached row expired since the list
  errors, warnings

graphNode == <<status, changes>>
timing == <<judged, urgent>>
rows == <<listed, moved, stage, seen, start>>
recovery == <<again, asked>>
notes == <<errors, warnings>>
vars == <<deploymentOf, graphNode, epoch, cached, pc, aborted, timing, rows, recovery, expired, notes>>

-----------------------------------------------------------------------------
(* The reading of a status.                                                *)

(* pickChain: the first chain. *)
HasChain(s) == s \in Row /\ s.chains # <<>>

Chain(s) == s.chains[1].network

(* pickLatestBlock: the row of the picked chain is the first; there is no  *)
(* other to fall back to.                                                  *)
Latest(s) == IF HasChain(s) THEN s.chains[1].latest ELSE Unknown

(* pickLastHealthyBlock, in contrast, falls back to any chain's. *)
LastHealthy(s) ==
  LET known == {i \in DOMAIN s.chains : s.chains[i].healthy # Unknown}
  IN  IF known = {} THEN Unknown
      ELSE s.chains[CHOOSE i \in known : \A j \in known : i <= j].healthy

(* classify *)
Above(s, from) == Latest(s) >= from

(* Mutant: any failure above the start is closed on path A. *)
PathOnHeight(s, from) ==
  IF s \notin Row \/ from = Unknown \/ Latest(s) = Unknown THEN "none"
  ELSE IF Above(s, from) THEN "A"
  ELSE IF s.fatal = "det" THEN "B" ELSE "none"

Path(s, from) ==
  IF s \notin Row \/ from = Unknown \/ Latest(s) = Unknown THEN "none"
  ELSE IF s.health # "failed" THEN (IF Above(s, from) THEN "A" ELSE "none")
  ELSE IF s.fatal = "det" THEN "B"
  ELSE IF s.fatal = "nondet" /\ Above(s, from) THEN "A" ELSE "none"

(* Mutant: the block of the failure itself. *)
PoiAtFailure(s) == IF LastHealthy(s) # Unknown THEN LastHealthy(s) ELSE s.block

(* poiBlock of a close on path B. *)
Poi(s) ==
  IF LastHealthy(s) # Unknown THEN LastHealthy(s)
  ELSE IF s.block = Unknown THEN Unknown
  ELSE IF s.block = 0 THEN 0 ELSE s.block - 1

(* First block that the recovery touches: five, or ten, before the failure; *)
(* a restart, a check or a review touches none.                            *)
Touched(s) ==
  LET back == IF s.pattern = "rewind" THEN 5 ELSE 10
  IN  IF s.block = Unknown \/ s.pattern = "other" THEN Unknown
      ELSE IF s.block > back THEN s.block - back ELSE 0

-----------------------------------------------------------------------------
(* The report, from what the classifications have read.                    *)

(* A rejected classification leaves a placeholder that says failed. *)
Health(a) == IF seen[a] \in Row THEN seen[a].health ELSE "failed"

(* Set on rows without a status, but not on placeholders. *)
StatusMissing(a) == stage[a] = "row" /\ seen[a] = Absent

Closability(a) == IF stage[a] = "row" THEN Path(seen[a], start[a]) ELSE "none"

ClosePlan == {a \in listed : Closability(a) = "B" \/ (Closability(a) = "A" /\ Health(a) # "healthy")}

(* Mutant: placeholders are not blocked, for want of a status. *)
BlockedWithStatus ==
  {a \in listed : /\ stage[a] = "row" /\ Closability(a) = "none"
                  /\ Health(a) # "healthy" \/ (start[a] # Unknown /\ Latest(seen[a]) # Unknown)}

Blocked ==
  {a \in listed : /\ Closability(a) = "none"
                  /\ Health(a) # "healthy" \/ (start[a] # Unknown /\ Latest(seen[a]) # Unknown)}

ToRecover == {deploymentOf[a] : a \in {b \in listed : Health(b) = "failed" /\ ~StatusMissing(b)}}

(* The lower of the two middle values. *)
Median ==
  LET middle == (Cardinality(listed) + 1) \div 2
      AtMost(v) == Cardinality({a \in listed : Tokens[a] <= v})
      Below(v) == Cardinality({a \in listed : Tokens[a] < v})
  IN  CHOOSE v \in {Tokens[a] : a \in listed} : Below(v) < middle /\ middle <= AtMost(v)

Large(a) ==
  \/ Tokens[a] >= LargeFloor
  \/ IF Median > 0 THEN Tokens[a] > 2 * Median ELSE Tokens[a] > 0

(* assessRisk *)
Level(a) ==
  IF Health(a) = "healthy" THEN "low"
  ELSE IF Large(a) /\ urgent THEN "critical"
  ELSE IF Large(a) \/ urgent \/ Closability(a) = "none" THEN "high" ELSE "medium"

-----------------------------------------------------------------------------
Init ==
  /\ deploymentOf \in Placement
  /\ status \in [Deployment -> Row \cup {Absent}] /\ changes = 0
  /\ epoch = 1
  /\ cached = [d \in Deployment |-> NotRead]
  /\ pc = "timing" /\ aborted = FALSE
  /\ judged = 0 /\ urgent = FALSE
  /\ listed = {} /\ moved = FALSE
  /\ stage = [a \in Allocation |-> "status"]
  /\ seen = [a \in Allocation |-> NotRead]
  /\ start = [a \in Allocation |-> Unknown]
  /\ again = [d \in Deployment |-> NotRead] /\ asked = {}
  /\ expired = {}
  /\ errors = {} /\ warnings = {}

(* The world, followed for as long as the check reads it. *)
Running == pc \notin {"done", "thrown"} /\ ~aborted

(* Before it is first read a change is but another initial state. *)
ChangeStatus(d, s) ==
  /\ Running /\ changes < MaxChanges
  /\ cached[d] # NotRead \/ d \in expired
  /\ s # status[d]
  /\ status' = [status EXCEPT ![d] = s]
  /\ changes' = changes + 1
  /\ UNCHANGED <<deploymentOf, epoch, cached, pc, aborted, timing, rows, recovery, expired, notes>>

Flip ==
  /\ Running /\ epoch < LastEpoch
  /\ epoch' = epoch + 1
  /\ UNCHANGED <<deploymentOf, graphNode, cached, pc, aborted, timing, rows, recovery, expired, notes>>

ExpireRow(d) ==
  /\ Running /\ cached[d] # NotRead
  /\ cached' = [cached EXCEPT ![d] = NotRead]
  /\ expired' = IF pc \in {"classify", "recover"} THEN expired \cup {d} ELSE expired
  /\ UNCHANGED <<deploymentOf, graphNode, epoch, pc, aborted, timing, rows, recovery, notes>>

Abort ==
  /\ Running
  /\ aborted' = TRUE
  /\ UNCHANGED <<deploymentOf, graphNode, epoch, cached, pc, timing, rows, recovery, expired, notes>>

-----------------------------------------------------------------------------
GoesOn == ~aborted

(* throwIfAborted after a read. *)
Throw ==
  /\ pc \notin {"done", "thrown"} /\ aborted
  /\ pc' = "thrown"
  /\ UNCHANGED <<deploymentOf, graphNode, epoch, cached, aborted, timing, rows, recovery, expired, notes>>

(* Both reads of the timing answered.  The epoch comes from a cache of its *)
(* own and may have passed; its length or the protocol chain's start block *)
(* may be missing.                                                         *)
ReadTiming(e) ==
  /\ pc = "timing" /\ GoesOn
  /\ e \in 1..epoch
  /\ judged' = e
  /\ urgent' \in BOOLEAN
  /\ pc' = "list"
  /\ UNCHANGED <<deploymentOf, graphNode, epoch, cached, aborted, rows, recovery, expired, notes>>

(* One of them failed: no epoch to judge by. *)
ReadTimingFails ==
  /\ pc = "timing" /\ GoesOn
  /\ judged' = 0 /\ urgent' = FALSE
  /\ errors' = errors \cup {"timing"}
  /\ pc' = "list"
  /\ UNCHANGED <<deploymentOf, graphNode, epoch, cached, aborted, rows, recovery, expired, warnings>>

(* The list is paged by skip.  It is whole unless the cap on pages cuts it *)
(* off, which is marked, or rows move between two pages, which is not; a   *)
(* row that moved and was read twice is in the set once.                   *)
ReadList(page, cut, shift) ==
  /\ pc = "list" /\ GoesOn
  /\ page = Allocation \/ cut \/ shift
  /\ listed' = page /\ moved' = shift
  /\ warnings' = IF cut THEN warnings \cup {"truncated"} ELSE warnings
  /\ pc' = "classify"
  /\ UNCHANGED <<deploymentOf, graphNode, epoch, cached, aborted, timing, stage, seen, start, recovery,
                 expired, errors>>

ReadListFails ==
  /\ pc = "list" /\ GoesOn
  /\ errors' = errors \cup {"allocations"}
  /\ pc' = "done"
  /\ UNCHANGED <<deploymentOf, graphNode, epoch, cached, aborted, timing, rows, recovery, expired, warnings>>

(* Mutant: the second read has a key of its own in the cache. *)
StatusUncached(d) == status[d]

StatusAnswer(d) == IF cached[d] = NotRead THEN status[d] ELSE cached[d]

(* Whether classifyAllocation asks for a start block. *)
LooksUpStart(s) == HasChain(s) /\ judged > 0

Waiting(d) == {a \in listed : deploymentOf[a] = d /\ stage[a] = "status"}

(* The status of a deployment arrives at every classification of it. *)
ReadStatus(d) ==
  /\ pc = "classify" /\ GoesOn
  /\ Waiting(d) # {}
  /\ LET s == StatusAnswer(d)
     IN  /\ cached' = [cached EXCEPT ![d] = s]
         /\ seen' = [a \in Allocation |-> IF a \in Waiting(d) THEN s ELSE seen[a]]
         /\ stage' = [a \in Allocation |->
              IF a \notin Waiting(d) THEN stage[a] ELSE IF LooksUpStart(s) THEN "epoch" ELSE "row"]
  /\ UNCHANGED <<deploymentOf, graphNode, epoch, pc, aborted, timing, listed, moved, start, recovery,
                 expired, notes>>

(* ... or the read fails, which rejects them. *)
ReadStatusFails(d) ==
  /\ pc = "classify" /\ GoesOn
  /\ Waiting(d) # {}
  /\ cached[d] = NotRead
  /\ stage' = [a \in Allocation |-> IF a \in Waiting(d) THEN "rejected" ELSE stage[a]]
  /\ UNCHANGED <<deploymentOf, graphNode, epoch, cached, pc, aborted, timing, listed, moved, seen, start,
                 recovery, expired, notes>>

StartOf(a) == Start[judged][Chain(seen[a])]

(* The start block of the judged epoch, or null, or a failed read. *)
ReadStart(a, found) ==
  /\ pc = "classify" /\ GoesOn
  /\ a \in listed /\ stage[a] = "epoch"
  /\ stage' = [stage EXCEPT ![a] = "row"]
  /\ start' = IF found THEN [start EXCEPT ![a] = StartOf(a)] ELSE start
  /\ UNCHANGED <<deploymentOf, graphNode, epoch, cached, pc, aborted, timing, listed, moved, seen,
                 recovery, expired, notes>>

AllSettled == \A a \in listed : stage[a] \in {"row", "rejected"}

(* All classifications have settled: the plans are made in one stretch, up *)
(* to the first read of the recovery.                                      *)
Assemble ==
  /\ pc = "classify" /\ GoesOn
  /\ AllSettled
  /\ errors' = IF \E a \in listed : stage[a] = "rejected" THEN errors \cup {"classification"} ELSE errors
  /\ pc' = IF ToRecover = {} THEN "done" ELSE "recover"
  /\ UNCHANGED <<deploymentOf, graphNode, epoch, cached, aborted, timing, rows, recovery, expired, warnings>>

(* buildRecoveryPlan, one deployment: its status is read again. *)
Recover(d, answered) ==
  /\ pc = "recover" /\ GoesOn
  /\ d \in ToRecover \ asked
  /\ asked' = asked \cup {d}
  /\ cached[d] # NotRead => answered
  /\ IF answered
     THEN /\ again' = [again EXCEPT ![d] = StatusAnswer(d)]
          /\ cached' = [cached EXCEPT ![d] = StatusAnswer(d)]
     ELSE UNCHANGED <<again, cached>>
  /\ pc' = IF asked' = ToRecover THEN "done" ELSE "recover"
  /\ UNCHANGED <<deploymentOf, graphNode, epoch, aborted, timing, rows, expired, notes>>

(* The report has been returned, or the run has thrown. *)
Finished == pc \in {"done", "thrown"} /\ UNCHANGED vars

Run ==
  \/ Throw \/ ReadTimingFails \/ ReadListFails \/ Assemble
  \/ \E e \in 1..LastEpoch : ReadTiming(e)
  \/ \E page \in SUBSET Allocation, cut, shift \in BOOLEAN : ReadList(page, cut, shift)
  \/ \E d \in Deployment : ReadStatus(d) \/ ReadStatusFails(d)
  \/ \E a \in Allocation, found \in BOOLEAN : ReadStart(a, found)
  \/ \E d \in Deployment, answered \in BOOLEAN : Recover(d, answered)

Next ==
  \/ Run \/ Flip \/ Abort \/ Finished
  \/ \E d \in Deployment, s \in Row \cup {Absent} : ChangeStatus(d, s)
  \/ \E d \in Deployment : ExpireRow(d)

Spec == Init /\ [][Next]_vars

-----------------------------------------------------------------------------
TypeOK ==
  /\ deploymentOf \in Placement
  /\ status \in [Deployment -> Row \cup {Absent}] /\ changes \in 0..MaxChanges
  /\ epoch \in 1..LastEpoch /\ judged \in 0..epoch
  /\ cached \in [Deployment -> Row \cup {Absent, NotRead}]
  /\ aborted \in BOOLEAN /\ urgent \in BOOLEAN
  /\ pc \in {"timing", "list", "classify", "recover", "done", "thrown"}
  /\ listed \subseteq Allocation /\ moved \in BOOLEAN
  /\ \A a \in Allocation \ listed : stage[a] = "status" /\ seen[a] = NotRead
  /\ stage \in [Allocation -> {"status", "epoch", "row", "rejected"}]
  /\ seen \in [Allocation -> Row \cup {Absent, NotRead}]
  /\ start \in [Allocation -> Block]
  /\ again \in [Deployment -> Row \cup {Absent, NotRead}] /\ asked \subseteq Deployment
  /\ expired \subseteq Deployment
  /\ errors \subseteq {"timing", "allocations", "classification"} /\ warnings \subseteq {"truncated"}

Reported == pc = "done"

(* "one bad row must not poison the whole report": whatever fails, an      *)
(* allocation is left out only with a word about it, or because the rows   *)
(* of the list moved, and one that is not known to be healthy is either    *)
(* planned to be closed or said to be blocked, and not both.               *)
NothingLost ==
  Reported => \A a \in Allocation :
    IF a \notin listed THEN warnings # {} \/ "allocations" \in errors \/ moved
    ELSE /\ ~(a \in ClosePlan /\ a \in Blocked)
         /\ seen[a] \notin Row \/ seen[a].health # "healthy" => a \in ClosePlan \cup Blocked
         /\ stage[a] = "rejected" => "classification" \in errors

(* A close on path A has a POI that is valid for the start of the epoch    *)
(* that the report is about, on the deployment's own chain, and is not of  *)
(* a deterministic failure; a close on path B is of one.                   *)
ClosesAreEarned ==
  Reported => \A a \in ClosePlan :
    /\ seen[a] \in Row /\ HasChain(seen[a]) /\ judged > 0
    /\ seen[a].health # "healthy"
    /\ Start[judged][Chain(seen[a])] # Unknown
    /\ IF seen[a].health = "failed" /\ seen[a].fatal = "det" THEN Closability(a) = "B"
       ELSE /\ Closability(a) = "A"
            /\ Latest(seen[a]) >= Start[judged][Chain(seen[a])]

(* However the epoch flips meanwhile, the start blocks in one report are   *)
(* those of the epoch that its timing names.                               *)
OneEpochPerReport ==
  Reported => \A a \in listed :
    start[a] # Unknown => judged > 0 /\ start[a] = Start[judged][Chain(seen[a])]

(* graph-node reports a healthy block only below the failure. *)
Consistent(s) == s.chains[1].healthy # Unknown /\ s.block # Unknown => s.chains[1].healthy < s.block

(* "the last KNOWN GOOD block (immediately before the deterministic        *)
(* failure)": the POI of path B of a deployment on one chain, and what a   *)
(* rewind or a cleared cache starts from, lie before the failure.          *)
BlocksPrecedeFailure ==
  Reported =>
    /\ \A a \in ClosePlan : LET s == seen[a] IN
         Closability(a) = "B" /\ Len(s.chains) = 1 /\ Consistent(s) /\ s.block # Unknown /\ s.block > 0 =>
           Poi(s) < s.block
    /\ \A d \in asked : LET s == again[d] IN
         s \in Row => s.block = Unknown \/ s.block = 0 \/ Touched(s) < s.block

(* The recovery of a deployment tells of the failure that its allocation   *)
(* was judged by, unless the cached status expired between the two reads.  *)
SecondReadAgrees ==
  \A d \in asked \ expired : \A a \in listed :
    deploymentOf[a] = d /\ seen[a] \in Row => again[d] = seen[a]

(* Risk does not hide what is unknown: an allocation that cannot be closed *)
(* is at least high, low means seen healthy, and nothing is critical by an *)
(* epoch end that is not known.                                            *)
RiskIsGrounded ==
  Reported => \A a \in listed :
    /\ a \in Blocked /\ Health(a) # "healthy" => Level(a) \in {"high", "critical"}
    /\ Level(a) = "low" => seen[a] \in Row /\ seen[a].health = "healthy"
    /\ Level(a) = "critical" => judged > 0

(* A check whose caller has given up reports nothing. *)
NoReportAfterAbort == aborted => ~Reported

(* "These rows do NOT appear in recoveryPlan": no recovery is planned for  *)
(* a deployment that graph-node has never reported a row of.               *)
RecoveryHasARow ==
  Reported => \A d \in asked :
    again[d] \in Row \/ \E a \in listed : deploymentOf[a] = d /\ seen[a] \in Row
=============================================================================
