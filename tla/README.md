# Formal models of graph-indexer-mcp

graph-indexer-mcp is an MCP server for operators of indexers of The Graph. It
reads the protocol (network subgraph, EBO subgraph, QoS subgraph, JSON-RPC),
the indexer's own graph-node (status API, Graphman API, Postgres) and its
indexer-agent, derives recommendations from them (a plan for the allocations, a
health report, discovery and cleanup) and exposes reads and confirmed writes as
tools. It keeps no database: between two calls it holds caches, a token review
cache and HTTP sessions. What makes it hard to get right is that everything it
derives comes from many concurrent reads that fail one by one, come in part or
out of order, while the system they describe goes on.

This directory holds TLA+ models of it, TLC configurations that check them on
small instances, and TLAPS proofs for all instances. `PROJECT.json` maps every
definition to the lines it models and lists runs, hazards, findings and
theorems. Paths below are relative to the repository's own `src/`.

## Inventory

| Component | State | Operations | Talks to | What is hard | What makes it correct |
|---|---|---|---|---|---|
| TTL cache, `utils/cache.ts` | store, in-flight slots, per-key generations | get, has, set, invalidate, clear, getOrFetch | used by the graphman, graph-node and EBO clients | fetches that outlive an invalidation, aborts of a shared promise, clear of unknown keys | no call made after an invalidation sees data read before it; one live fetch per key; a slot never outlives its fetch; bounded store |
| Retrying client, `utils/graphql-client.ts` | one pending-signal slot per client, attempt counter per call | request: attempts, backoff, parse recovery | under every subgraph, graph-node and agent client | overlapping calls share the slot; abort races timeout and backoff | the signal of a call reaches its own fetch and stops it; attempts bounded; the slot is empty between calls |
| Allocation optimizer, `services/allocation-optimizer.ts` | none between runs | run (gather, status, fallback, decide), optimize, diffActions | network subgraph, EBO, graph-node, RPC | partial reads turned into closes; slots, caps and floors over fill and reflow | stake and slots fit; the actions make the proposal; a fit allocation is closed only for a reported cause |
| Health monitor, `services/health-monitor.ts` | none between runs | getHealthStatus: timing, list, classify, plans, recovery | network subgraph, EBO, graph-node | epoch flips and rows expire during the check; a rejected classification | nothing lost; closes earned; one epoch per report; both reads tell of one failure |
| Discovery engine, `services/discovery-engine.ts` | none between runs | runDiscovery, runCleanup, mapPool | network and QoS subgraph, EBO, graph-node, RPC | worker pool with abort; failed reads read as "not syncing", "no signal" | nothing is recommended that is synced, listed or denied; teardown closes first; maintenance untouched |
| Graphman client and tools, `clients/graphman.ts`, `tools/graphman-tools.ts` | deployment info cache | info, pause, resume, restart, rewind, drop, reassign, unassign, checks and their argument schemas | Graphman API | acknowledged but asynchronous commands; lost answers; fetches under way during an invalidation; arguments that exclude each other | a read after an acknowledged mutation sees it; nothing asked for is dropped |
| graph-node client, `clients/graph-node.ts` | statuses cache, health cache | statuses, health, POI reads | status API | two caches of one fact, neither invalidated by graphman's mutations | how stale a status can be |
| EBO client, `clients/ebo-subgraph.ts` | epoch cache | epochs, start blocks | EBO subgraph | epoch older than the start blocks | modelled as the epoch reads of HealthMonitor |
| Access control, `access-control.ts`, `auth/*`, `server/register.ts` | deny list, class registry, TokenReview and SubjectAccessReview caches | register, checkAccess, init, authorize | kube-apiserver | revocation against two caches filled concurrently; failed reviews | fail closed; grants and refusals are recent, for the caller's own token and class |
| HTTP transport, `transport/http.ts`, `index.ts` | session map, readiness | POST, GET (SSE), DELETE, listen, close, signals | MCP SDK, node http, the Postgres pool | close against open streams; connections kept alive after a signal; calls that run while the pool ends | nobody who waits is cut off; shutdown ends |
| Pagination, `clients/network-subgraph.ts`, `clients/qos-subgraph.ts` | none | skip and cursor pages, truncated flag, volumes, ranking, weighted means | subgraphs | rows that move between two pages; the page cap; a cursor that stalls | no gaps and no duplicates by cursor; what is missing is marked; the ranking is the top |
| Agent queue, `clients/indexer-agent.ts`, `tools/agent-tools.ts` | none here; queue, rules and cost models are the agent's | queue, approve, cancel actions, set rules and cost models | indexer-agent through the retrying client, network subgraph | a lost answer is retried, late copies, the era of a closed allocation | an action is sent a bounded number of times; closes carry the era on record; later writes stand |
| Postgres, `clients/postgres.ts` | lazy pool, closed flag | sizes, close | Postgres | schemas that vanish during the walk; the pool ends under a query | a size report is whole |
| RPC, IPFS, HTTP caps | none | one request per call | external services | -- | fail closed |
| Tools, resources, prompts, config | none | schema, one call, formatting | the components above | -- | -- |

Components call each other as promises on one thread: code between two awaits
is atomic, and everything that is awaited may settle in any order, reject, or be
given up by the caller's abort signal. That is the grain of every module here:
one action per stretch between two awaits, a barrier (`Promise.allSettled`) is
one step because the code looks at its results only when all have settled.

## Modules

| Module | Models | Checked by | Proved in |
|---|---|---|---|
| `TtlCache` | `utils/cache.ts` | itself (1 run) | `TtlCacheProofs` |
| `FreshReads` | what a reader through the cache may rely on | refined by `TtlCache` | `TtlCacheProofs` |
| `GraphqlClient` | `utils/graphql-client.ts` | `MCGraphqlClient` (1 run), composed in `AgentQueue` | `AgentQueueProofs` |
| `Allocator` | `optimize`, `computeMarginal`, `perDeploymentCap` | `MCAllocator` (1 run) | `OptimizerProofs` |
| `OptimizerRun` | `run`, `diffActions` | `MCOptimizerRun` (1 run) | `OptimizerProofs` |
| `HealthMonitor` | `services/health-monitor.ts` and the epoch reads of `clients/ebo-subgraph.ts` | `MCHealthMonitor` (1 run) | `HealthMonitorProofs` |
| `Discovery` | `services/discovery-engine.ts` and `paginate` of `clients/network-subgraph.ts` | `MCDiscovery` (1 run) | `DiscoveryProofs` |
| `AccessGate` | `access-control.ts`, `auth/*`, the gates of `server/register.ts` | `MCAccessGate` (1 run) | `AccessGateProofs` |
| `HttpServer` | `transport/http.ts`, start and shutdown of `index.ts`, the pool and the size walk of `clients/postgres.ts` | itself (2 runs) | `HttpServerProofs` |
| `AgentQueue` over `GraphqlClient` | `clients/indexer-agent.ts`, `tools/agent-tools.ts` | `MCAgentQueue` (1 run) | `AgentQueueProofs` |
| `DeploymentReads` | `clients/graphman.ts`, `clients/graph-node.ts`, `tools/graphman-tools.ts` | `MCDeploymentReads` (1 run) | `DeploymentReadsProofs` |
| `Pages` | the scans of `clients/network-subgraph.ts` and `clients/qos-subgraph.ts`, volumes, ranking and means of the latter | `MCPages` (1 run) | `OptimizerProofs` |

In each of them, an operator named by a comment "Mutant" is a plausible wrong
version of the definition that follows it. No specification uses one; each
shows that a property would notice the mistake.

### TtlCache and FreshReads

`store`, `order`, `inflight` and `generations` are the Maps; `order` is the
insertion order that eviction follows. `call` is the frame of each caller of
`getOrFetch`: fetching, answered (the upstream has been read, the promise has
not settled) or awaiting somebody's promise. A value is the version of the
upstream datum it was read from, so "stale" is a comparison of numbers:
`floor[k]` is the version at the last invalidation. Actions are the outcomes of
`getOrFetch` (`Hit`, `Coalesce`, `CoalesceAborted`, `Miss`), the settlement of a
fetch (`FetchResolves`, `FetchRejects`) together with everyone who coalesced
on it and the finally block, `AbortAwait`, `Set`, `Invalidate`, `Clear`, the
clock and the upstream. The type of the store keeps the fields of an entry,
expiry included.

`FreshReads` knows no store, slot or generation: a call gets a version that was
current at some moment after the last invalidation that preceded the call, or
it fails. `ImplementsFreshReads` maps the frames of the cache to open calls.

One caution about the code that the model does not show: a fetcher that throws
synchronously, before it returns a promise, would leave its slot behind. Every
fetcher passed in the repository is an async function, which cannot.

### GraphqlClient

`slot` is `pendingExternalSignal`, `req` the frame of each call (attempt, the
value saved from the slot, the signal its fetch obeys). A signal is named after
the call that was given it. graphql-request is assumed to call the fetch shim
before it first yields, so that the slot that an attempt has just written is
the one its fetch reads. `sent` counts what goes out, recovery included;
`overlapped` records that a call has begun while another was open.
`FetchSucceeds`, `FetchFails`, `FetchCancelled` and `ParseFails` are the ends of
a fetch, `SleepAborted` and `SleepEnds` those of the backoff, `RecoveryEnds`
that of the second, raw request. An error is transient or not by choice.

Seen on the way and not stated as properties: a call without a signal that
starts while a signalled one is in flight obeys the other's signal
(`graphql-client.ts:233` passes nothing, so the slot stays), although the
comment at `:130` speaks of per-request signals; the recovery request carries
the caller's signal but not the client's timeout; retries send mutations again
that the server may have executed.

### Allocator

The greedy loop, the floor pass and the reflow as steps: `GiveChunk` is one
iteration, `CheckFloor` one candidate of a floor pass, `EndFill`,
`EndFloorPass` and `EndReflow` the ends of the loops. `PreSeated` are the
current allocations that get a slot up front, by `Score`; `slotsUsed` counts
seats and claimed slots. `Whitelisted` is the lookup as written: the list is
kept in the form of the operator, candidates carry the Qm form. The figures
(issuance, signal, marginal, reward) are integer arithmetic as in the code,
with a smaller scale and fewer chunks; the texts, the APR and the risk label
of a proposal are left out.

Seen on the way: a current allocation that does not fit the slots up front
never reclaims one although the comment at `allocation-optimizer.ts:1373` says
it may, since no slot is ever given back; a whitelisted pick is promised a
chunk, not a slot.

### OptimizerRun

A run is four stages: `Gather`, `ReadStatuses`, `Fallback` and `Decide`, each
with every combination of reads that fail, answer in part or are truncated, and
`Abort` between them. A deployment is a record of what is true of it (its active
allocations, signal, denial, state on graph-node, chain, lists); what the run knows of it is
`held`, the largest of its allocations that were read (an allocation on another page of a
list that is cut off, or a row that moved between two pages, may be missing, so a smaller one may
stand for it, or none), and the sets `signalled`, `bulk`, `recovered` and `hydrated`. The epoch
gate is per chain, as in the code: `starts` are the chains whose start block was read, the
answer may lack any chain or all of them, and a deployment of a chain without a row passes
(`Admitted`). `GateNotes` are the two warnings the code gives of that; what a truncated list
adds to the warnings is left out, since no property depends on it. `Placement`
is any plan within the bounds that `Allocator` guarantees (`PlansFitTheRun`);
`Diff` turns it into actions. `errors` and `warnings` are what the result reports.

Seen on the way: when the active allocations cannot be read, a deployment that
has one may be proposed as a new allocation; a current allocation whose signal
fell below the minimum is looked up one by one, and is closed when this lookup
fails. The first is within `ActionsReachProposal` (which speaks of what the run
has seen), the second is a case of `ClosesAreExplained`. A read of the epoch that succeeds
with no row at all opens the gate for every chain and is mentioned nowhere (finding 8). A
current allocation whose row is skipped between two pages is left as it is and is not mentioned
either: `ClosesAreExplained` speaks of closes, and an allocation that was not seen is not closed.

### HealthMonitor

`ReadTiming`, `ReadList`, one `ReadStatus` and `ReadStart` per classification,
`Assemble`, one `Recover` per failed deployment; between them `ChangeStatus`,
`Flip`, `ExpireRow` and `Abort`. The status cache is an instance of `TtlCache`:
callers of one key share a fetch, so one step reads for all classifications of
a deployment, and it answers from `cached` until the row expires. The list of allocations is read by skip: it may be cut off by the cap, which is
reported, and a row that moves between two pages may be skipped, which nothing reports;
`moved` is the history of that (a row that was read twice stands in the set `listed` once), and
`NothingLost` promises a whole report only for a list whose rows stayed where they were. What a row of a status
says is kept (health, kind and block of the fatal error, what its message asks
for, the chains with latest and last healthy block): `Path`, `Poi`, `Touched`
and the levels of risk are the code's own rules. `judged` is the epoch of the
report, `seen`, `start` and `again` what each allocation was judged by.

Seen on the way: an allocation that is healthy but whose start block is unknown
is in neither the close plan nor among the blocked, although the comment at
`health-monitor.ts:567` puts a healthy "none" into blocked; the last healthy
block falls back to another chain's, the latest block does not, and the comment
at `:122` speaks of the first chain.

### Discovery

A run is `Gather`, `ReadStatuses`, `ReadSizes`, `ReadVolumes` and the pool; the
code between two of these reads is part of the read before it, so `ReadSizes`
holds the cleanup (`Classify`) and the candidate filter (`Filter`) as well, and
`ReadStatuses` the filter alone when there is nothing to clean up. `rows` is
the list of signalled deployments, a sequence because `paginate` may return a
row twice or skip one when rows move between two pages (`moved`, which nothing
in the result shows) and may be cut off by the cap (`cut`, which is reported).
The pool is `worker` (which row it evaluates, and which of the three reads it
waits for), the shared index as the set `rest` of rows not yet taken, and
`opportunities` in the order of the pushes. A worker that throws rejects the
run at once while the others go on until they notice, as `Promise.all` has it.
The score is any order: which rows are recommended is free, how many is not.

Seen on the way: a row that moved and was read twice is evaluated and
recommended twice; one that was missed is torn down as a deployment without
signal, and nothing in the result tells. `whitelist` is passed to
`runDiscovery` and not used there, although the comment at
`discovery-engine.ts:723` gives it a role.

### AccessGate

`checkAccess` as the code resolves it: the deny list, then names without a
class, then the installed authorizer. `call` is the frame of a call between two
awaits: it waits for a TokenReview or for a SubjectAccessReview, and its answer
is computed (`ApiReviews`, `ApiDecides`) some time before it arrives
(`ReviewArrives`, `VerdictArrives`), so that an answer from before a revocation
can be stored after it. `reviews` and `verdicts` are the two caches, with
expiry and with eviction of the oldest entry. `SubjectChanges` and
`RightChanges` are the administrator's; the histories `wasSubject` and
`wasBound` keep when a fact last held, and `GrantsAreRecent` bounds with them
how long a revoked caller is served: the lifetimes of both caches plus the time
of the requests. `SelfCheck` and its failure are the start: a process that may
not create both kinds of review serves nobody.

Two limits. The timeout of a request is one of inactivity of its socket
(`k8s-rbac.ts:171`), so `MaxRequest` assumes that an answer does not trickle.
The subject of a verdict's key is the token, not the user it resolved to: a
verdict asked for the groups a user had before the review was renewed is used
for its lifetime, which is why the bound on a verdict has both lifetimes in it.

### HttpServer

The HTTP profile. `sessions` is the Map of transports, `stream` and `caller` the connections
that an event stream or a call holds open, `spare` those that a client keeps once the listener
has closed. The handlers never ask whether the server still listens (`http.ts:85`): Node's
`close` ends idle connections and lets a busy one finish, which is then kept alive for some
seconds and may carry further requests. So `Initialize`, `OpenStream`, `CallTool` and
`EndSession` need `CanReach`, a listener or a kept connection, and take and give back the
latter; `KeepAliveEnds` is its timeout. `ReceiveSignal` keeps any of the connections that are
busy with a short request at that moment.

`walk` is `getAllSubgraphSizes` with one query at a time, two for each schema: whether it exists
(`Found`) and what its tables add up to (`Sized`), while schemas vanish (`DropSchema`). One that
vanishes between the two is left out or reported with the size 0, although the comment at
`postgres.ts:152` calls a 0 unambiguous; `SizesAreComplete` says that this befalls no deployment
that still exists. `shutdown` is one process per signal, because each of the two handlers runs a
`shutdown` of its own: it drains, closes the pool and exits. The one that takes the pool waits for
its end, the other finds none and exits at once.

That one server takes several transports is what the comment at `http.ts:129` says of the SDK.
Not modelled: the stdio profile, where there is no connection to wait for and a shutdown ends the
pool under running calls; a POST without a session that is no initialize, whose transport stays
connected to the server and in no Map; deployments that come while a walk is under way, which are
not in its list. The pool's queries have no timeout of their own: that they end is the database's
business. A client that goes on sending requests over a kept connection keeps a shutdown waiting
for as long as it likes: `QuietShutdownEnds` and `ShutdownEnds` speak of the time after that.

### AgentQueue

Extends `GraphqlClient`: a call of a tool is a call of `request()`, and the tool
adds what it does before (the schema, the lookup of the allocation that is
closed) and what the agent does after: `Execute` carries out any copy of a
request that was ever sent, once, at any time, or never; that the agent and what
is between carry no single copy out twice is assumed. `executed`, `written`
and the entries of the queue are the agent's. `Answer` ties an answer to a copy
that was carried out; all else that ends a fetch may happen with the copy
carried out or not. So a call that failed may stand in the queue, and one that
returned may stand there several times. Nothing in the code recognises a copy
(an action has no key of the caller's): the only limit on the duplicates is how
often a mutation is sent, which `AttemptsBounded` states.

A limit of the code that `LaterWriteStands` respects by its precondition: an
earlier write that had to be sent twice may have a copy under way when it
returns, and this copy may undo a later write.

### DeploymentReads

One deployment, its state a number that grows with every change. `Answer` groups
the mutations by what their method does with an answer: pause, resume and
unassign invalidate on success; reassign and drop in any case; restart and
rewind when the execution id is there, before anything has happened; the chain
commands never. `LoseAnswer` throws before the invalidation. `Execute` carries
out a mutation early, late, twice or not at all, since a restart is two changes
and a lost answer is sent again. The deployment cache of graphman and the two of graph-node
(statuses, health) are `TtlCache`s reduced to one key:
entry, fetch that may be joined, disowned fetches. `Accepted` and `Carried` are
the argument rules of the tools and what the client puts into the request.

`InfoShowsAcknowledged` is read-your-writes for the deployment cache;
`StalenessBounded` is all there is for statuses and health, which nothing invalidates
and from which the optimizer takes pauses (`allocation-optimizer.ts:623`).

### Pages

`SkipPage` and `CursorPage` are the two queries, each answered from the table as
it is when the page is served; a gateway may answer a cursor with the page it
served last. `PageArrives` is one turn of either loop: natural end, stall, cap,
abort, next page. The aggregates are operators on the rows of a scan, and the
properties compare them with the table. A scan by skip of a table that moves may
miss a row or have it twice, and nothing marks it: only tables at rest are
promised, and `Discovery` takes shifted lists as an input. `Ordered` is what an
`orderBy` and a sort come to: each member stands behind as many as come before
it, in a relation that is total. The ranking's sort is stable, so deployments of one volume stand
in the order of their first rows, which is the insertion order of the Map.

Seen on the way: a mean adds the weight of a row that lacks the metric and not
its value, so that it is too low when days without the metric occur
(`qos-subgraph.ts:545`); `aggregateQueryVolume` says its rows come by day
(`qos-subgraph.ts:504`), those of the scan by cursor come by id.

## Runs

| Run | Question | Bounds |
|---|---|---|
| `cache` | do interleavings of fetch, coalescing, abort, set, invalidate, clear, eviction and expiry ever write what was overtaken, or run two live fetches; does every call settle; is the cache a `FreshReads`, which serves nothing read before an invalidation | 2 callers, 2 keys in a store of 1, 1 upstream change and 1 generation a key, 2 ticks, TTL 1 |
| `gql_slot_leak` | is the slot empty between calls? No (finding) | 3 calls, 2 signalled, 1 retry |
| `allocator_plan` | budget, slots, floors, equalised marginals | 3 candidates of 10 kinds, 2 budgets, 3 slot limits, 3 floors |
| `optimizer_run` | what becomes of a plan when reads fail, come in part, are truncated or aborted | 2 deployments of 16 kinds on 2 chains, fallback limit 1 |
| `health_check` | is a report whole, its closes earned, its two reads of one failure, whatever fails, flips or expires | 2 allocations on 1 or 2 deployments, 5 rows and none, 2 epochs, 1 status change |
| `discovery_run` | is teardown safe, a recommendation new, each candidate evaluated once, an abort obeyed, whatever fails, is cut off or moves | 2 deployments of 14 kinds, 3 rows, 2 workers, 2 recommendations |
| `access_gate` | who is let through or refused, on the strength of how old an answer | 2 calls, 2 tokens, 2 subjects, review lifetime 2, verdict lifetime 1, requests of 1, caches of one entry, 1 change, 4 ticks |
| `http_server` | is anybody cut off, is a size report whole, does a shutdown end when requests stop and no stream is open | 2 clients, 2 deployments, 1 drop, 2 signals |
| `http_shutdown_stuck` | does a signal end the process once requests stop? No (finding) | 1 client, 1 signal |
| `agent_queue` | how often is a mutation sent; what stands after retries, aborts and late copies; do tools end | 2 calls of 3 tools, 2 allocations, 1 retry |
| `deployment_reads` | does a read show what was acknowledged before it, how long can it miss a change, is an argument dropped | 2 reads of 3 caches, 2 mutations of 4 kinds, 2 changes, lifetime 2, requests of 1, 4 ticks |
| `pages` | what does a scan return that is not marked, and what is made of it | 7 rows, pages of 2, at most 3, 3 changes of the table |

Why the bounds are enough to be interesting. Cache: a stale write needs a fetch,
an invalidation and a second fetch that overtakes it, which two callers make;
the theorems below cover any number of them. Two keys in a store of one make every write evict. Client: a slot is
lost when two calls end in the order they began, a third one then meets the
stale slot; one retry passes through backoff once, and with the recovery of an
answer that could not be parsed a call is sent three times. Allocator: three candidates
make a winner, a loser and one that changes place when the loser is dropped;
`Chunks` is 4 instead
of 1000 and `MarginalScale` is scaled with it: with the caps of 50 and 30 per
cent the last chunk of a pick is cut, which is what `MAX_ITERS` must survive.
Optimizer: two deployments and a fallback limit of one make the order of the
fallback matter; the sixteen kinds cover each list, each status, each
signal level, a deployment with two allocations and one on another chain. Health: two allocations of one deployment share reads and the
failure of a read; one change of a status and one flip reach each pair of reads
that must agree. Discovery: with two workers and three rows
one worker takes a second row while the other is still reading; three rows of two
deployments hold one that was read twice; the fourteen kinds cover each reason, list
and state. Gate: the lifetimes are longer than a request, caches of one entry
evict whenever both tokens are in use, and four ticks outlive both lifetimes
after a change. Server: two signals make two shutdowns race; the second client
keeps the pool busy while the first one leaves. Queue: an old and a bare
allocation (no era on record) are told apart by the lookup; an allocating, a closing and an
overwriting tool are the three kinds of call, the others differ in the place they
write. Reads: two changes separate an acknowledged one from a later one; a tick
more than lifetime and request shows an answer that lives too long; one kind of
each class of mutation. Pages: of the tables of up to seven rows, six
fill the three pages exactly and seven are one more than the cap: a scan must be marked in both, since it
cannot tell them apart. In every model, each bound on a counter (`MaxVersion`,
`MaxGen`, `MaxTime`, `LastEpoch`, `MaxChanges`, `MaxDrops`) is a guard of the environment's
or an invalidating step only, and the theorems hold for each value of them.

Symmetry is used only in runs without liveness properties.

### Fairness

`CallsSettle` (cache) and `ToolsSettle` (queue tools over the client) assume weak fairness of the program's own steps and of no environment step: nobody is
obliged to call, abort, mutate or change anything. A fetch ends because the
clients have an HTTP timeout (or, for the recovery request, because the HTTP
stack's own socket limits end it), timers fire, and promise callbacks run once
their promise settles. The runs of the optimizer, the health monitor and the discovery
engine are acyclic apart from their environment; that none of them stops before its end
is what TLC's deadlock check shows, and that a read ends is the business of the two above.
`QuietShutdownEnds` assumes that a query of Postgres is answered or fails, that a kept connection
times out and that the callbacks of a shutdown run; no client is obliged to leave. That requests stop
coming is a premise of the property (`RequestsStop`), not of the specification. `CHECK_DEADLOCK FALSE` stands
where the system may really stop: a process that has exited or failed its self-check, a
scan that is over, a deployment whose reads and mutations are done.

## Proofs

All theorems are for every value of the constants, under the assumption named in
the module that declares them (naturals where the code has counts and amounts,
finite sets of deployments and allocations, well-formed records).

- **TtlCacheProofs**. The inductive invariant `IInv` is type correctness, the
  list property of `order`, `NoPinnedPromise`, `SingleFlight`, `StoreFresh`,
  `ServedFresh` and `GenerationInv`. The last one is the point: freshness is not
  inductive alone, because a fetch that was overtaken is still running and only
  the generation it remembers keeps it from writing. `GenerationInv` says that
  a running fetch was overtaken exactly when its generation differs, that the
  slot holder's answer is recent enough for all who await it, and that floors
  are never ahead of the upstream. From it follow freshness of reads and of the store,
  sharing, bounds, the action property `SupersededFetchIsDropped`, and, step by step,
  that the cache implements `FreshReads`. The first part of the module is about
  sequences: removing, appending and dropping a key keeps a list of the store's keys.
- **AgentQueueProofs**, first about the client. `Counted` ties `sent` to the attempt of each
  frame; with it the number of queries, that a signal reaches its own fetch and that
  nothing is sent after an abort. `Serial` (at most one open call, which saved
  an empty slot) is inductive until two calls overlap, and gives
  `SlotSoundUntilOverlap`: the slot is a sound channel for sequential use, which
  is how far the finding reaches. Then about the queue tools, whose specification has other
  steps than the client's: `QueueInv` keeps the client's invariant and adds that a copy is carried
  out only after it was sent (`Delivered`), that the last copy of an answered call was carried
  out (`AnsweredInv`), and, for `LaterWriteStands`, that once the later of two writes has been carried
  out no copy of the earlier one is left to undo it (`Overwritten`).
- **OptimizerProofs**. Sums come first. What is proved by induction elsewhere is proved of a
  minimal counterexample here: among the subsets for which a sum equation fails there is a minimal
  one (`MinimalSet`, from the well-foundedness of strict inclusion), and taking one element out of
  it gives the contradiction. `SumStep` (a sum may be taken apart at any element), `SumUpdate`,
  `SumSplit`, `SumMonotone`, `SumImage` and `SumScaled` are the lemmas the rest cites.
  - *Allocator*. `SlotsRespected` needs a count that survives drops: the
    set `Taken` of what is seated, staked or rejected has at most `slotsUsed`
    members, since a dropped pick keeps its slot. That the seats are at most the
    slots follows from the ranking of currents being a strict order, by an
    injection of the seated into `1..slots`. `FloorsHoldWithinPasses` needs that
    what a floor pass has looked at still clears its floor when it ends. The budget is a sum
    of which each step moves a part (`SumUpdate`). `Equalized` holds because
    the marginal of a pick falls as its stake grows (`MarginalAntitone`, by monotone squares and
    divisions) and because each chunk goes to the best; it needs that no real marginal exceeds the
    sentinel of a whitelisted pick without stake, which is `SentinelAssumption` and what the
    comment at `allocation-optimizer.ts:208` says of `MAX_MARGINAL`. `PlansArePlacements` says
    what a plan is at every moment: only picks, within the slots, within the stake.
  - *OptimizerRun*. `ReportedInv` says what has been reported by the time
    of each stage; with it every close of a fit allocation has its cause in the result
    (`ClosesCarryTheirCause`). Stake goes to the fit only, actions make the proposal, what is
    proposed and what is frozen fit the capacity and the slots, an aborted run throws.
    `PlansFitTheRun` joins the two modules: for any injection of the numbered candidates into the deployments
    (`GivenTheRun`, which also says that `optimize` gets the run's stake, slots and picks), the
    allocations carried over are a `Placement`. A sum and a cardinality are taken along
    the injection (`CarriedSum`, `CarriedSeats`).
  - *Pages*. That `Ordered` lists a set, each member once and in order, is a counting argument:
    the ranks are an injection into as many numbers as there are members, hence a surjection. `CursorRead`
    says of a scan under way that it ascends, ends at its cursor and lacks no row
    below the cursor that stayed; a page that a gateway repeats is full and does not advance, so it
    never passes for the end. `SkipRead` says that a scan of a table at rest is a beginning of its
    order. With these the ranking is the table's (`SumImage` over the
    positions of the rows), and a mean lies between its values (`SumScaled` with the largest and the
    smallest).
- **HttpServerProofs**. `DrainInv` is the point: once one of the shutdowns has seen the last connection go,
  nobody connects again: the listener closed with the first signal (`ListenInv`), every other
  shutdown finds it closed, and a request over a kept connection needs one that is still there, so that
  `Connections` only shrinks (`LifeInv`); only such a shutdown ends the pool or the process (`PoolInv`).
  `WalkInv` says that what a walk has found, what it is asking for and what it still has to ask for are
  apart and cover the deployments that are still there.
- **HealthMonitorProofs**. `CacheInv` and `AgainInv` relate what a row was judged
  by, the cache and the second read, so that `SecondReadAgrees` holds for rows that
  did not expire; `StartInv` binds every start block to the judged epoch however the
  real one flips; `StageInv` and `PhaseInv` say what has been read when.
- **DiscoveryProofs**. `SharesInv` says that the rows not taken, in flight and
  pushed are disjoint, different and candidates, `PoolInv` that none is lost while
  no worker has thrown, and that a worker ends only when all rows are taken: from
  both, `EachCandidateOnce` for any number of workers. `ListsInv` says which list
  is whole when no warning says otherwise, `CleanupInv` that a plan is the plan of
  the lists as they were read; with the order of the steps of a plan
  (`StepsOrdered`) they give the safety of teardown. `EarlyInv` says what is still
  empty in each stage.
- **DeploymentReadsProofs**. Neither property is inductive: what a read will return is
  decided by the fetch it waits for. `InfoNew` says that the stored answer and the answer of
  the fetch that may be joined are as new as every acknowledgement, and the answer of a
  disowned fetch as new as those before its readers began; it rests on `Shared`, that a
  fetch which may be joined is under way for its cache. `Young` bounds by the same two
  routes how long a change can have been missed. That nothing asked for is dropped
  follows from the schemas alone (`AcceptedIsCarried`).
- **AccessGateProofs**. The invariant gives every piece of memory its witness: a kept
  review and a review on its way name a subject the token had when the request was out, a
  verdict names one of whom a review had spoken and a right it had. No step of the
  environment makes these older but time (`NothingIsForgotten`), so each step of the server
  needs to be looked at only in the state it starts from (`ServerStep`), and the lag of a
  decision is the sum of the two lifetimes and of the requests on the way.

Only model-checked: liveness under fairness (`CallsSettle`, `ToolsSettle`, `QuietShutdownEnds`),
which the provers do not reach, the two findings with a run, and the configurations listed with them. All
other properties of the runs are theorems.

Proved for every instance and without a run of their own, because the runs are kept for what
is not proved or deeper: the types of the cache, the client, the queue tools, the allocator, the run, the health monitor,
the discovery engine, the gate and the deployment reads; `ServedFresh`, `StoreFresh`, `NoPinnedPromise`, `BoundedStore` (all implied by
`ImplementsFreshReads` or by the types it rests on), `SignalReachesFetch`, `SlotSoundUntilOverlap`,
`CapsHold`, `PlanIsPlacement`, `PlanFitsTheRun`, `AbortReasonIsKept`, `RejectedNeverReturn`, `CurrentsComeFirst`,
`AbortedRunsThrow`, `ReportIsOfOneEpoch`, `RiskRestsOnReads`, `AbortedChecksThrow` and
`NothingMaintainedIsPlanned`.

## Findings

With a run:

1. `gql_slot_leak`: overlapping calls that end in the order they began leave the
   first one's signal in the slot (`graphql-client.ts:348`).
2. `http_shutdown_stuck`: `close` waits for event streams that only the step after it
   would end, so a client that stays connected keeps the process from ending
   (`http.ts:194`); in the cluster the kubelet kills it after
   `terminationGracePeriodSeconds` (`k8s/deployment-http.yaml:146`), with the pool open.

With a configuration that TLC refutes, kept for whoever changes the code at that
place (`tlc -config <cfg> <module>`), and no standing run:

3. `MCAllocatorFloors.cfg` (`FloorsHold`): what the fifth reflow opens is not
   checked against the floors (`allocation-optimizer.ts:1519`), although the comment at
   `:1632` trusts the result.
4. `MCAllocatorListed.cfg` (`ListedServed`): a whitelist entry in bytes32 form guarantees
   nothing (`allocation-optimizer.ts:1319`), although `:1250` guarantees a chunk.
5. `MCOptimizerRunOutage.cfg` (`EmptyPlanIsEmpty`): without network parameters the "empty
   plan" of `allocation-optimizer.ts:1117` closes every allocation that is not frozen (`:1202`).
6. `MCHealthMonitorBlind.cfg` (`RecoveryHasARow`): a rejected classification is taken for a
   failed deployment (`health-monitor.ts:536`), although `:523` says the row carries no data.
7. `MCDiscoveryLowSignal.cfg` (`NoSignalMeansNone`): signal below the floor is taken for none,
   and an allocated, whitelisted deployment is planned for teardown (`discovery-engine.ts:536`).
8. `MCOptimizerRunSilentGate.cfg` (`OpenGateIsReported`): an epoch read that succeeds without any row
   opens the epoch gate for every chain, and no warning says so (`allocation-optimizer.ts:984`), although
   `:1090` says that one has been given.

Met and not given a run: an outage of the statuses excludes every candidate, and closes
every allocation that is not frozen, against the comment at
`allocation-optimizer.ts:781`; `ClosesAreExplained` has it as a reported cause. The comment
at `graphman.ts:450` promises that the optimizer is not misled after a mutation; it is, for up to
five minutes, because it takes pauses from the statuses of graph-node, whose cache no mutation
invalidates. `MCAllocatorMore.cfg` checks two more properties of the allocator (no idle stake,
Qm-form whitelist entries served), which hold.

## Not modelled

`PROJECT.json` gives the reason for each component. In short: base58 conversion is
arithmetic over 34 bytes, and its result, a canonical id, is what the modules use;
the overview resource is concurrent reads and formatting; composite and read-only tools,
resources and prompts are a schema, a call and text; RPC and IPFS are one request a call;
configuration is read once; formatting, labels and wording are left out everywhere. Of
Postgres the size of one deployment is left out, of the paginated clients the
requests for single rows.

## Plan

Done: the core services, the cache, the client and their proofs; then the gate and the
deployment reads with theirs; the server, the queue tools over the client, and the pages.
Every safety property of a passing run is proved, and the run is joined to its allocator. What
remains is what a service assumes of a client, as theorems about that client: the lists that
`Discovery` takes as shifted or cut from the scans of `Pages`, the one fetch of a status that
`HealthMonitor` takes from `TtlCache`.
