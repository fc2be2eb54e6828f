----------------------------- MODULE Discovery -----------------------------
(***************************************************************************)
(* One run of the discovery engine (services/discovery-engine.ts).  From   *)
(* the signalled deployments, the indexer's allocations and the statuses   *)
(* of its graph-node it plans the teardown of deployments that are no      *)
(* longer useful, and recommends new ones, each evaluated by a pool of     *)
(* workers with three reads one after the other.                           *)
(*                                                                         *)
(* Lists come in pages by skip (clients/network-subgraph.ts): a list may   *)
(* be cut off by the cap on pages, and while rows move between two pages   *)
(* a row may be read twice or not at all.  Malformed identifiers, sizes on *)
(* disk and the formula of the score are left out.                         *)
(***************************************************************************)
EXTENDS Integers, SequencesExt

CONSTANTS
  Deployment,
  Fact,           \* the records a deployment may be
  MaxRows,        \* bound: rows of the signalled query
  Fanout,         \* FANOUT_CONCURRENCY
  MaxCandidates   \* config.maxCandidates

(* signal: at least minSignal, below it or none.  active: the indexer has  *)
(* an allocation on it.  status, paused: what graph-node reports.  lists:  *)
(* where the operator put it.                                              *)
FactRecord ==
  [signal : {"none", "low", "high"}, active : BOOLEAN, denied : BOOLEAN,
   status : {"none", "syncing", "synced"}, paused : BOOLEAN,
   lists : SUBSET {"white", "black", "frozen"}]

ASSUME DiscoveryAssumption ==
  /\ Fact \subseteq FactRecord
  /\ MaxRows \in Nat /\ Fanout \in Nat \ {0} /\ MaxCandidates \in Nat

VARIABLES
  fact,          \* input: the deployments as they are
  pc,            \* "gather", "statuses", "sizes", "volumes", "pool", "done" or "thrown"
  aborted,       \* the caller's signal has fired
  moved,         \* history: rows moved while the lists were read
  rows,          \* signalledPage.items
  allocated,     \* allocatedDeploymentIds
  tracked,       \* deployments of indexingStatuses
  stale,         \* the reason a deployment was found stale, or "none"
  steps,         \* the plan to tear it down
  rest,          \* rows of candidates that no worker has taken yet
  worker,        \* what each worker of the pool is at
  opportunities, \* the evaluated rows, in the order in which they were pushed
  recommended,   \* rows of ruleRecommendations
  errors, warnings

lists == <<moved, rows, allocated>>
cleanup == <<stale, steps>>
pool == <<rest, worker, opportunities>>
notes == <<errors, warnings>>
vars == <<fact, pc, aborted, lists, tracked, cleanup, pool, recommended, notes>>

-----------------------------------------------------------------------------
Listed(d, list) == list \in fact[d].lists

Signalled == {d \in Deployment : fact[d].signal = "high"}

Active == {d \in Deployment : fact[d].active}

Tracked == {d \in Deployment : fact[d].status # "none"}

Off == [item |-> 0, at |-> "off"]

Ended == [item |-> 0, at |-> "ended"]

Thrown == [item |-> 0, at |-> "thrown"]

Reading == {"stake", "entities", "chain"}

Busy(w) == worker[w].at \in Reading

InFlight == {worker[w].item : w \in {v \in 1 .. Fanout : Busy(v)}}

(* hasSignal and hasAllocation are taken from the lists that were read. *)
HasSignal(d) == \E i \in DOMAIN rows : rows[i] = d

HasAllocation(d) == d \in allocated

-----------------------------------------------------------------------------
(* The cleanup half.                                                       *)

(* Why a deployment that graph-node reports is stale. *)
Reason(d) ==
  IF fact[d].status # "synced" THEN "none"
  ELSE IF fact[d].paused
       THEN (IF HasAllocation(d) \/ HasSignal(d) THEN "none" ELSE "orphaned")
  ELSE IF ~HasSignal(d) THEN "no_signal"
  ELSE IF ~HasAllocation(d) /\ ~Listed(d, "white") THEN "unallocated" ELSE "none"

Removal == <<"unassign", "unused_record", "unused_remove">>

(* Mutant: the node is quiet before the allocation is closed. *)
StepsPauseFirst(d) ==
  (IF fact[d].paused THEN <<>> ELSE <<"pause">>)
    \o (IF HasAllocation(d) THEN <<"close_allocation">> ELSE <<>>) \o Removal

(* buildCleanupAction *)
Steps(d) ==
  (IF HasAllocation(d) THEN <<"close_allocation">> ELSE <<>>)
    \o (IF fact[d].paused THEN <<>> ELSE <<"pause">>) \o Removal

Planned(d, T) == d \in T /\ Reason(d) # "none" /\ ~Listed(d, "frozen")

(* Paused and synced, but not abandoned: a warning and nothing else. *)
Maintained(d) == fact[d].status = "synced" /\ fact[d].paused /\ Reason(d) = "none"

(* What the classification of the deployments T leaves in the warnings. *)
CleanupNotes(T) ==
  LET found == {d \in T : Reason(d) # "none"}
  IN  {"superseded"}
        \cup {note \in {"maintenance"} : \E d \in T : Maintained(d)}
        \cup {note \in {"frozen"} : \E d \in found : Listed(d, "frozen")}
        \cup {note \in {"all frozen"} : found # {} /\ \A d \in found : Listed(d, "frozen")}

(* runCleanup, its loop over the statuses. *)
Classify ==
  /\ stale' = [d \in Deployment |-> IF d \in tracked THEN Reason(d) ELSE "none"]
  /\ steps' = [d \in Deployment |-> IF Planned(d, tracked) THEN Steps(d) ELSE <<>>]

-----------------------------------------------------------------------------
(* The discovery half.                                                     *)

(* Mutant: what graph-node already indexes is not dropped. *)
NewIfUnallocated(d, T) == ~HasAllocation(d) /\ ~Listed(d, "black") /\ ~fact[d].denied

New(d, T) == ~HasAllocation(d) /\ d \notin T /\ ~Listed(d, "black") /\ ~fact[d].denied

Candidates(T) == {i \in DOMAIN rows : New(rows[i], T)}

DeniedNote(T) ==
  {note \in {"denied"} : \E i \in DOMAIN rows :
     LET d == rows[i]
     IN  ~HasAllocation(d) /\ d \notin T /\ ~Listed(d, "black") /\ fact[d].denied}

(* From the filter to the first read, or to the end. *)
Filter(T) ==
  /\ rest' = Candidates(T)
  /\ pc' = IF Candidates(T) = {} THEN "done" ELSE "volumes"
  /\ UNCHANGED <<worker, opportunities, recommended>>

(* The least of S, as a set, empty with S. *)
First(S) == {i \in S : \A j \in S : i <= j}

-----------------------------------------------------------------------------
Init ==
  /\ fact \in [Deployment -> Fact]
  /\ pc = "gather" /\ aborted = FALSE
  /\ moved = FALSE /\ rows = <<>> /\ allocated = {} /\ tracked = {}
  /\ stale = [d \in Deployment |-> "none"]
  /\ steps = [d \in Deployment |-> <<>>]
  /\ rest = {} /\ worker = [w \in 1 .. Fanout |-> Off]
  /\ opportunities = <<>> /\ recommended = {}
  /\ errors = {} /\ warnings = {}

(* The caller gives up while the run waits. *)
Abort ==
  /\ pc \notin {"done", "thrown"} /\ ~aborted
  /\ aborted' = TRUE
  /\ UNCHANGED <<fact, pc, lists, tracked, cleanup, pool, recommended, notes>>

GoesOn == ~aborted

PoolEnded == \A w \in 1 .. Fanout : worker[w].at \in {"off", "ended"}

(* throwIfAborted after a read, and after the last worker has ended. *)
Throw ==
  /\ aborted
  /\ pc \in {"gather", "statuses", "sizes", "volumes"} \/ (pc = "pool" /\ PoolEnded)
  /\ pc' = "thrown"
  /\ UNCHANGED <<fact, aborted, lists, tracked, cleanup, pool, recommended, notes>>

(* What paginate returns of the rows S: all of them once, unless the cap   *)
(* on pages cuts the list off or rows move between two pages.              *)
Pages(got, S, cut, shift) ==
  /\ Range(got) \subseteq S
  /\ ~shift => IsInjective(got)
  /\ ~cut /\ ~shift => Range(got) = S

(* The first stage: its reads are Promise.all, one failure is fatal. *)
Gather(got, cut, active, activeCut, shift) ==
  /\ pc = "gather" /\ GoesOn
  /\ Pages(got, Signalled, cut, shift)
  /\ active \subseteq Active /\ (~activeCut /\ ~shift => active = Active)
  /\ moved' = shift
  /\ rows' = got /\ allocated' = active
  /\ warnings' = {note \in {"signalled truncated"} : cut}
                   \cup {note \in {"allocations truncated"} : activeCut}
  /\ pc' = "statuses"
  /\ UNCHANGED <<fact, aborted, tracked, cleanup, pool, recommended, errors>>

GatherFails ==
  /\ pc = "gather" /\ GoesOn
  /\ errors' = {"network"}
  /\ pc' = "done"
  /\ UNCHANGED <<fact, aborted, lists, tracked, cleanup, pool, recommended, warnings>>

(* The statuses of everything graph-node tracks.  Without any there is     *)
(* nothing to clean up.                                                    *)
ReadStatuses(answered) ==
  /\ pc = "statuses" /\ GoesOn
  /\ tracked' = IF answered THEN Tracked ELSE {}
  /\ IF tracked' = {}
     THEN /\ Filter({})
          /\ warnings' = warnings \cup DeniedNote({})
                           \cup {note \in {"statuses"} : ~answered}
     ELSE /\ pc' = "sizes"
          /\ UNCHANGED <<pool, recommended, warnings>>
  /\ UNCHANGED <<fact, aborted, lists, cleanup, errors>>

(* The sizes on disk, if there is a database; then both halves, up to the  *)
(* first read of the second.                                               *)
ReadSizes(answered) ==
  /\ pc = "sizes" /\ GoesOn
  /\ Classify
  /\ Filter(tracked)
  /\ warnings' = warnings \cup CleanupNotes(tracked) \cup DeniedNote(tracked)
                   \cup {note \in {"sizes"} : ~answered}
  /\ UNCHANGED <<fact, aborted, lists, tracked, errors>>

(* The pool takes up the first rows of S, one for each worker in order.    *)
StartPool(S) ==
  \E taken \in [1 .. Fanout -> S \cup {0}] :
    /\ \A v, w \in 1 .. Fanout :
         v < w => taken[w] = 0 \/ (taken[v] # 0 /\ taken[v] < taken[w])
    /\ rest' = S \ Range(taken)
    /\ \A i \in rest', w \in 1 .. Fanout : taken[w] # 0 /\ taken[w] < i
    /\ worker' = [w \in 1 .. Fanout |->
                     IF taken[w] = 0 THEN Off ELSE [item |-> taken[w], at |-> "stake"]]

(* The query volumes, in one read that may fail or be cut off. *)
ReadVolumes(note) ==
  /\ pc = "volumes" /\ GoesOn
  /\ StartPool(rest)
  /\ warnings' = warnings \cup note
  /\ pc' = "pool"
  /\ UNCHANGED <<fact, aborted, lists, tracked, cleanup, opportunities, recommended, errors>>

-----------------------------------------------------------------------------
(* The pool.  A worker that throws rejects Promise.all and with it the     *)
(* run; the others go on until they notice.                                *)

Reject == IF pc = "pool" THEN "thrown" ELSE pc

(* A read rejects after an abort. *)
WorkerThrows(w) ==
  /\ Busy(w) /\ aborted
  /\ worker' = [worker EXCEPT ![w] = Thrown]
  /\ pc' = Reject
  /\ UNCHANGED <<fact, aborted, lists, tracked, cleanup, rest, opportunities, recommended, notes>>

(* getDeploymentAllocations; a failure counts as no stake at all. *)
ReadStake(w, answered) ==
  /\ worker[w].at = "stake"
  /\ answered \/ GoesOn
  /\ worker' = [worker EXCEPT ![w].at = "entities"]
  /\ warnings' = IF answered THEN warnings ELSE warnings \cup {"stake"}
  /\ UNCHANGED <<fact, pc, aborted, lists, tracked, cleanup, rest, opportunities, recommended,
                 errors>>

(* getEntityCount, whose failure is swallowed; then, with a graphman       *)
(* client, getDeploymentInfo.                                              *)
ReadEntities(w) ==
  /\ worker[w].at = "entities"
  /\ worker' = [worker EXCEPT ![w].at = "chain"]
  /\ UNCHANGED <<fact, pc, aborted, lists, tracked, cleanup, rest, opportunities, recommended,
                 notes>>

Begin(w, i) == [worker EXCEPT ![w] = [item |-> i, at |-> "stake"]]

(* Mutant: the worker counts on by itself from its own index. *)
TakeOwnNext(w) ==
  LET later == {i \in Candidates(tracked) : i > worker[w].item}
  IN  /\ UNCHANGED pc
      /\ rest' = rest \ First(later)
      /\ \/ later = {} /\ worker' = [worker EXCEPT ![w] = Ended]
         \/ \E i \in First(later) : worker' = Begin(w, i)

(* Mutant: an abort is not looked for before a row is evaluated. *)
TakeRegardless(w) ==
  /\ UNCHANGED pc
  /\ rest' = rest \ First(rest)
  /\ \/ rest = {} /\ worker' = [worker EXCEPT ![w] = Ended]
     \/ \E i \in First(rest) : worker' = Begin(w, i)

(* Takes the next index, shared by all workers; the evaluation begins with *)
(* throwIfAborted.                                                         *)
TakeNext(w) ==
  \/ /\ rest = {}
     /\ worker' = [worker EXCEPT ![w] = Ended]
     /\ UNCHANGED <<rest, pc>>
  \/ \E i \in First(rest) :
       /\ rest' = rest \ {i}
       /\ \/ aborted /\ worker' = [worker EXCEPT ![w] = Thrown] /\ pc' = Reject
          \/ ~aborted /\ worker' = Begin(w, i) /\ UNCHANGED pc

Pushed(w) == worker[w].item

(* The last read has ended: the row is an opportunity. *)
Evaluate(w) ==
  /\ worker[w].at \in {"entities", "chain"}
  /\ TakeNext(w)
  /\ opportunities' = Append(opportunities, Pushed(w))
  /\ UNCHANGED <<fact, aborted, lists, tracked, cleanup, recommended, notes>>

(* The best MaxCandidates by score are recommended. *)
Recommend(top) ==
  /\ pc = "pool" /\ PoolEnded /\ GoesOn
  /\ top \subseteq Range(opportunities)
  /\ IF Len(opportunities) <= MaxCandidates THEN top = Range(opportunities)
     ELSE Cardinality(top) = MaxCandidates
  /\ recommended' = top
  /\ pc' = "done"
  /\ UNCHANGED <<fact, aborted, lists, tracked, cleanup, pool, notes>>

WorkerStep(w) ==
  \/ WorkerThrows(w) \/ ReadEntities(w) \/ Evaluate(w)
  \/ \E answered \in BOOLEAN : ReadStake(w, answered)

(* The result has been returned or the run has thrown, and no worker is    *)
(* left behind.                                                            *)
Finished ==
  /\ pc \in {"done", "thrown"} /\ \A w \in 1 .. Fanout : ~Busy(w)
  /\ UNCHANGED vars

Next ==
  \/ Abort \/ Throw \/ GatherFails \/ Finished
  \/ \E got \in SeqOf(Deployment, MaxRows), active \in SUBSET Deployment,
        cut, activeCut, shift \in BOOLEAN : Gather(got, cut, active, activeCut, shift)
  \/ \E answered \in BOOLEAN : ReadStatuses(answered) \/ ReadSizes(answered)
  \/ \E note \in {{}, {"volumes"}, {"volumes truncated"}} : ReadVolumes(note)
  \/ \E w \in 1 .. Fanout : WorkerStep(w)
  \/ \E top \in SUBSET (1 .. MaxRows) : Recommend(top)

Spec == Init /\ [][Next]_vars

-----------------------------------------------------------------------------
Note == {"signalled truncated", "allocations truncated", "statuses", "sizes", "superseded",
         "maintenance", "frozen", "all frozen", "denied", "volumes", "volumes truncated", "stake"}

TypeOK ==
  /\ fact \in [Deployment -> Fact]
  /\ pc \in {"gather", "statuses", "sizes", "volumes", "pool", "done", "thrown"}
  /\ aborted \in BOOLEAN /\ moved \in BOOLEAN
  /\ rows \in Seq(Signalled) /\ allocated \subseteq Active /\ tracked \subseteq Tracked
  /\ stale \in [Deployment -> {"none", "orphaned", "no_signal", "unallocated"}]
  /\ steps \in [Deployment -> Seq({"close_allocation", "pause", "unassign", "unused_record",
                                   "unused_remove"})]
  /\ rest \subseteq DOMAIN rows /\ recommended \subseteq DOMAIN rows
  /\ worker \in [1 .. Fanout -> {Off, Ended, Thrown} \cup [item : DOMAIN rows, at : Reading]]
  /\ opportunities \in Seq(DOMAIN rows)
  /\ errors \subseteq {"network"} /\ warnings \subseteq Note

(* The lists are known to be whole, or the result says that one is not.    *)
ListsAreWhole(notesOf) == ~moved /\ notesOf \cap warnings = {}

Before(s, first, then) ==
  \A i \in DOMAIN s : s[i] = then => \E j \in 1 .. i - 1 : s[j] = first

(* "close the open allocation before infrastructure teardown": carried out *)
(* in order, no step of a plan stops or removes a deployment that has an   *)
(* allocation before it is closed, unless the list of allocations was cut  *)
(* off, which is reported; and nothing is removed while it is indexed.     *)
TeardownIsSafe ==
  \A d \in Deployment :
    /\ fact[d].active /\ ListsAreWhole({"allocations truncated"}) =>
         \A step \in {"pause", "unassign", "unused_record", "unused_remove"} :
           Before(steps[d], "close_allocation", step)
    /\ ~fact[d].paused => Before(steps[d], "pause", "unassign")
    /\ Before(steps[d], "unassign", "unused_remove")

(* "Paused alone ... might be a deliberate maintenance pause": what is     *)
(* paused but has an allocation or enough signal, what is still syncing,   *)
(* frozen or, as unallocated, whitelisted is never planned for teardown;   *)
(* paused and signalled deployments only rest on lists that were whole.    *)
MaintenanceIsRespected ==
  \A d \in Deployment : steps[d] # <<>> =>
    /\ fact[d].status = "synced" /\ ~Listed(d, "frozen")
    /\ Listed(d, "white") => stale[d] # "unallocated"
    /\ fact[d].paused /\ ListsAreWhole({"allocations truncated", "signalled truncated"}) =>
         ~fact[d].active /\ fact[d].signal # "high"

(* Recommended is what may earn and is new to the indexer: "whitelist      *)
(* never overrides" the blacklist, and a failed read of the statuses or a  *)
(* list cut off is reported with what it may have let through.  Nothing is *)
(* recommended and torn down at once, or twice when no row was read twice. *)
RecommendationsAreNew ==
  \A i \in recommended :
    LET d == rows[i]
    IN  /\ fact[d].signal = "high" /\ ~fact[d].denied /\ ~Listed(d, "black")
        /\ ListsAreWhole({"allocations truncated"}) => ~fact[d].active
        /\ "statuses" \notin warnings => fact[d].status = "none"
        /\ steps[d] = <<>>
        /\ \A j \in recommended : rows[j] = d /\ ~moved => i = j

(* Shared by all workers, the index gives each candidate to one of them,   *)
(* and at the end each one has been evaluated once.                        *)
EachCandidateOnce ==
  /\ IsInjective(opportunities)
  /\ \A v, w \in 1 .. Fanout : Busy(v) /\ Busy(w) /\ worker[v].item = worker[w].item => v = w
  /\ (rest \cup Range(opportunities)) \cap InFlight = {} /\ rest \cap Range(opportunities) = {}
  /\ pc = "pool" /\ PoolEnded => Range(opportunities) = Candidates(tracked)

(* "Cancellation must escape the per-candidate handler": once the caller   *)
(* has given up no worker takes up another candidate, and there is no      *)
(* result.                                                                 *)
NothingNewAfterAbort ==
  [][aborted => /\ pc' = "done" => pc = "done"
                /\ \A w \in 1 .. Fanout : worker'[w].at = "stake" => worker'[w] = worker[w]]_vars

(* "deployment has no curation signal": what is planned for teardown for   *)
(* want of signal has none.                                                *)
NoSignalMeansNone ==
  ListsAreWhole({"signalled truncated"}) =>
    \A d \in Deployment : stale[d] = "no_signal" /\ steps[d] # <<>> => fact[d].signal = "none"
=============================================================================
