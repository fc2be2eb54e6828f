----------------------------- MODULE HttpServer -----------------------------
(***************************************************************************)
(* The life of the HTTP profile: transport/http.ts with its Map of         *)
(* sessions, the start and the shutdown of index.ts, and the Postgres pool *)
(* of clients/postgres.ts that the shutdown ends.  The one handler that is *)
(* modelled in full is getAllSubgraphSizes, the only long user of the      *)
(* pool; deployments may vanish while it walks through them.               *)
(*                                                                         *)
(* Node's http server and the MCP transport are external.  Once it closes, *)
(* the server takes no new connection and ends the idle ones; one that is  *)
(* busy then is kept alive for some seconds after its response and can     *)
(* carry further requests, which no handler refuses.  The server reports   *)
(* back when the last connection is gone.  A transport that closes ends    *)
(* the responses it holds open.                                            *)
(***************************************************************************)
EXTENDS Naturals, FiniteSets

CONSTANTS
  Client,      \* MCP clients, each with at most one session at a time
  Deployment,  \* deployments that have a schema in Postgres
  Signal,      \* the signals that start a shutdown
  MaxDrops     \* bound: deployments that are dropped

ASSUME ServerAssumption == MaxDrops \in Nat

VARIABLES
  process,   \* starting, up, exited (code 0) or crashed (code 1)
  listening, \* new connections are accepted
  ready,     \* what /readyz tells
  sessions,  \* the Map transports: the clients with an open session
  stream,    \* the clients that hold an event stream open (GET)
  caller,    \* the clients that still wait for the answer of their POST
  spare,     \* idle connections each client has kept since the server closed
  walk,      \* the handler that runs for each client
  shutdown,  \* how far the shutdown of each signal is
  pool,      \* none (not used yet), open, ending or closed
  schemas    \* the deployments whose schema exists

web == <<listening, ready, sessions, stream, caller, spare>>
vars == <<process, web, walk, shutdown, pool, schemas>>

-----------------------------------------------------------------------------
Idle == [pc |-> "idle"]

(* The walk waits for the list of schemas, then for each of them whether   *)
(* it exists and what its tables add up to.  found are the deployments it  *)
(* reports with their size, empty those it reports with the size 0.        *)
Walk == [pc : {"listing", "sizing", "summing", "done"}, todo : SUBSET Deployment,
         at : SUBSET Deployment, found : SUBSET Deployment, empty : SUBSET Deployment]

Walking(c) == walk[c].pc \in {"listing", "sizing", "summing"}

NoSpare == [c \in Client |-> 0]

Connections == stream \cup caller \cup {c \in Client : spare[c] > 0}

Alive == process \in {"starting", "up"}

-----------------------------------------------------------------------------
Init ==
  /\ process = "starting"
  /\ listening = FALSE /\ ready = FALSE
  /\ sessions = {}
  /\ stream = {} /\ caller = {} /\ spare = NoSpare
  /\ walk = [c \in Client |-> Idle]
  /\ shutdown = [s \in Signal |-> "none"]
  /\ pool = "none"
  /\ schemas = Deployment

(* startHttpTransport: the listener is bound, or the start fails for good. *)
Listen ==
  /\ process = "starting" /\ \A s \in Signal : shutdown[s] = "none"
  /\ process' = "up" /\ listening' = TRUE /\ ready' = TRUE
  /\ UNCHANGED <<sessions, stream, caller, spare, walk, shutdown, pool,
                 schemas>>

ListenFails ==
  /\ process = "starting"
  /\ process' = "crashed"
  /\ UNCHANGED <<web, walk, shutdown, pool, schemas>>

-----------------------------------------------------------------------------
CanReach(c) == listening \/ spare[c] > 0

(* A request of c takes one of its spare connections, once no other can be *)
(* made; n responses to c that end give theirs back.                       *)
TakeConnection(c) == spare' = IF listening THEN spare ELSE [spare EXCEPT ![c] = @ - 1]

GiveBack(c, n) == spare' = IF listening THEN spare ELSE [spare EXCEPT ![c] = @ + n]

(* A kept connection times out, or its client closes it. *)
KeepAliveEnds(c) ==
  /\ Alive /\ spare[c] > 0
  /\ spare' = [spare EXCEPT ![c] = @ - 1]
  /\ UNCHANGED <<process, listening, ready, sessions, stream, caller, walk,
                 shutdown, pool, schemas>>

(* handleMcp: a POST without a known session gets a fresh transport, which *)
(* an initialize turns into a session.                                     *)
Initialize(c) ==
  /\ process = "up" /\ CanReach(c)
  /\ c \notin sessions
  /\ sessions' = sessions \cup {c}
  /\ UNCHANGED <<process, listening, ready, stream, caller, spare, walk, shutdown, pool,
                 schemas>>

(* A GET on a session holds an event stream open. *)
OpenStream(c) ==
  /\ process = "up" /\ CanReach(c)
  /\ c \in sessions \ stream
  /\ stream' = stream \cup {c}
  /\ TakeConnection(c)
  /\ UNCHANGED <<process, listening, ready, sessions, caller, walk,
                 shutdown, pool, schemas>>

(* A tool call on a session.  getPool opens the pool on first use. *)
CallTool(c) ==
  /\ process = "up" /\ CanReach(c)
  /\ c \in sessions \ caller /\ walk[c] = Idle
  /\ pool \in {"none", "open"}
  /\ pool' = "open"
  /\ caller' = caller \cup {c}
  /\ TakeConnection(c)
  /\ walk' = [walk EXCEPT ![c] = [pc |-> "listing", todo |-> {}, at |-> {}, found |-> {},
                                  empty |-> {}]]
  /\ UNCHANGED <<process, listening, ready, sessions, stream, shutdown,
                 schemas>>

(* A client goes away from its stream or from a call, which runs on. *)
LeaveStream(c) ==
  /\ Alive /\ c \in stream
  /\ stream' = stream \ {c}
  /\ UNCHANGED <<process, listening, ready, sessions, caller, spare, walk,
                 shutdown, pool, schemas>>

LeaveCall(c) ==
  /\ Alive /\ c \in caller
  /\ caller' = caller \ {c}
  /\ UNCHANGED <<process, listening, ready, sessions, stream, spare, walk,
                 shutdown, pool, schemas>>

(* The clients of S lose their sessions and the responses these held open. *)
CloseTransports(S) ==
  /\ sessions' = sessions \ S
  /\ stream' = stream \ S /\ caller' = caller \ S

(* DELETE on a session: onsessionclosed and onclose. *)
EndSession(c) ==
  /\ process = "up" /\ CanReach(c) /\ c \in sessions
  /\ CloseTransports({c})
  /\ GiveBack(c, Cardinality({c} \cap stream) + Cardinality({c} \cap caller))
  /\ UNCHANGED <<process, listening, ready, walk, shutdown, pool, schemas>>

-----------------------------------------------------------------------------
(* The walk of c is over: the call answers with what it has found, or with *)
(* an error, and the walk is gone.                                         *)
Reply(c) ==
  /\ walk' = [walk EXCEPT ![c] = Idle]
  /\ caller' = caller \ {c} /\ GiveBack(c, Cardinality({c} \cap caller))
  /\ UNCHANGED <<process, listening, ready, sessions, stream, shutdown, pool, schemas>>

(* The walk of c goes on as w with its next query, when there is one left, *)
(* which fails when the pool has ended in the meantime.                    *)
GoOn(c, w) ==
  IF w.pc = "done" \/ pool = "open"
  THEN /\ walk' = [walk EXCEPT ![c] = w]
       /\ UNCHANGED <<process, web, shutdown, pool, schemas>>
  ELSE Reply(c)

NextSchema(todo) == IF todo = {} THEN "done" ELSE "sizing"

(* getAllSubgraphSizes: the rows of deployment_schemas. *)
Listed(c) ==
  /\ Alive /\ walk[c].pc = "listing"
  /\ GoOn(c, [walk[c] EXCEPT !.pc = NextSchema(schemas), !.todo = schemas])

(* Mutants: the walk ends at the first schema that is gone, or reports it  *)
(* without a size.                                                         *)
FoundUntilGone(c, d) ==
  /\ Alive /\ walk[c].pc = "sizing" /\ d \in walk[c].todo
  /\ LET rest == walk[c].todo \ {d} IN
     IF d \in schemas THEN GoOn(c, [walk[c] EXCEPT !.pc = "summing", !.todo = rest, !.at = {d}])
     ELSE GoOn(c, [walk[c] EXCEPT !.pc = "done", !.todo = {}])

FoundAsNull(c, d) ==
  /\ Alive /\ walk[c].pc = "sizing" /\ d \in walk[c].todo
  /\ LET rest == walk[c].todo \ {d} IN
     IF d \in schemas THEN GoOn(c, [walk[c] EXCEPT !.pc = "summing", !.todo = rest, !.at = {d}])
     ELSE GoOn(c, [walk[c] EXCEPT !.pc = NextSchema(rest), !.todo = rest, !.found = @ \cup {"null"}])

(* sumSchemaSize, to_regnamespace: a schema that is gone is left out, one  *)
(* that exists is asked for the size of its tables.                        *)
Found(c, d) ==
  /\ Alive /\ walk[c].pc = "sizing" /\ d \in walk[c].todo
  /\ LET rest == walk[c].todo \ {d} IN
     IF d \in schemas THEN GoOn(c, [walk[c] EXCEPT !.pc = "summing", !.todo = rest, !.at = {d}])
     ELSE GoOn(c, [walk[c] EXCEPT !.pc = NextSchema(rest), !.todo = rest])

(* sumSchemaSize, the sum: a schema dropped since the first query has no   *)
(* table left, which counts as the size 0, or loses one under the sum,     *)
(* which leaves it out.                                                    *)
Sized(c) ==
  /\ Alive /\ walk[c].pc = "summing"
  /\ \E empty \in SUBSET (walk[c].at \ schemas) :
       GoOn(c, [walk[c] EXCEPT !.pc = NextSchema(walk[c].todo), !.at = {},
                             !.found = @ \cup (walk[c].at \cap schemas), !.empty = @ \cup empty])

Answer(c) == Alive /\ walk[c].pc = "done" /\ Reply(c)

(* A query fails, because of the database or because the pool has ended:   *)
(* so does the call, whatever it has found.                                *)
QueryFails(c) == Alive /\ Walking(c) /\ Reply(c)

(* A deployment is dropped in Postgres. *)
DropSchema(d) ==
  /\ Alive /\ d \in schemas
  /\ Cardinality(Deployment \ schemas) < MaxDrops
  /\ schemas' = schemas \ {d}
  /\ UNCHANGED <<process, web, walk, shutdown, pool>>

-----------------------------------------------------------------------------
(* A signal starts a shutdown of its own.  While httpHandle is unset there *)
(* is only the pool to close.  httpServer.close ends the idle connections, *)
(* and those that carry a request right then are kept.                     *)
ReceiveSignal(s) ==
  /\ Alive /\ shutdown[s] = "none"
  /\ shutdown' = [shutdown EXCEPT ![s] = IF process = "up" THEN "draining" ELSE "closing"]
  /\ \E busy \in SUBSET {c \in Client : CanReach(c)} :
       spare' = [c \in Client |-> IF c \in busy THEN 1 ELSE 0]
  /\ listening' = FALSE
  /\ UNCHANGED <<process, ready, sessions, stream, caller, walk, pool, schemas>>

(* Mutant: the shutdown does not wait for the connections. *)
DrainedAtOnce(s) ==
  /\ Alive /\ shutdown[s] = "draining"
  /\ shutdown' = [shutdown EXCEPT ![s] = "closing"]
  /\ ready' = FALSE
  /\ UNCHANGED <<process, listening, sessions, stream, caller, spare, walk,
                 pool, schemas>>

(* Mutant: the shutdown waits for the sessions to end by themselves. *)
DrainedOfSessions(s) ==
  /\ Alive /\ shutdown[s] = "draining"
  /\ Connections = {} /\ sessions = {}
  /\ shutdown' = [shutdown EXCEPT ![s] = "closing"]
  /\ ready' = FALSE
  /\ UNCHANGED <<process, listening, sessions, stream, caller, spare, walk,
                 pool, schemas>>

(* httpServer.close reports back once every connection is gone; only then  *)
(* is the server not ready any more and are the sessions torn down.        *)
Drained(s) ==
  /\ Alive /\ shutdown[s] = "draining"
  /\ Connections = {}
  /\ shutdown' = [shutdown EXCEPT ![s] = "closing"]
  /\ ready' = FALSE
  /\ CloseTransports(sessions)
  /\ UNCHANGED <<process, listening, spare, walk, pool, schemas>>

(* postgresClient.close: no new query from here on.  The shutdown that     *)
(* takes the open pool waits for its end, any other finds no pool.         *)
ClosePool(s) ==
  /\ Alive /\ shutdown[s] = "closing"
  /\ shutdown' = [shutdown EXCEPT ![s] = IF pool = "open" THEN "ending" ELSE "leaving"]
  /\ pool' = IF pool = "open" THEN "ending" ELSE IF pool = "none" THEN "closed" ELSE pool
  /\ UNCHANGED <<process, web, walk, schemas>>

(* pool.end resolves when no query is out; then the process exits. *)
Exit(s) ==
  /\ Alive
  /\ shutdown[s] = "leaving" \/ (shutdown[s] = "ending" /\ \A c \in Client : ~Walking(c))
  /\ pool' = "closed"
  /\ process' = "exited"
  /\ UNCHANGED <<web, walk, shutdown, schemas>>

Serve(c) == Initialize(c) \/ OpenStream(c) \/ CallTool(c) \/ EndSession(c)

Leave(c) == LeaveStream(c) \/ LeaveCall(c) \/ KeepAliveEnds(c)

Handle(c) ==
  \/ Listed(c) \/ Sized(c) \/ Answer(c) \/ QueryFails(c)
  \/ \E d \in Deployment : Found(c, d)

ShutDown(s) == Drained(s) \/ ClosePool(s) \/ Exit(s)

Next ==
  \/ Listen \/ ListenFails
  \/ \E c \in Client : Serve(c) \/ Leave(c) \/ Handle(c)
  \/ \E d \in Deployment : DropSchema(d)
  \/ \E s \in Signal : ReceiveSignal(s) \/ ShutDown(s)

Spec == Init /\ [][Next]_vars

(* Queries are answered or fail, idle connections time out, and the        *)
(* callbacks of a shutdown run; no client is bound to go away.             *)
FairSpec ==
  /\ Spec
  /\ WF_vars(\E c \in Client : Handle(c) \/ KeepAliveEnds(c))
  /\ WF_vars(\E s \in Signal : ShutDown(s))

-----------------------------------------------------------------------------
TypeOK ==
  /\ process \in {"starting", "up", "exited", "crashed"}
  /\ listening \in BOOLEAN /\ ready \in BOOLEAN
  /\ sessions \subseteq Client /\ stream \subseteq Client /\ caller \subseteq Client
  /\ spare \in [Client -> Nat]
  /\ walk \in [Client -> {Idle} \cup Walk]
  /\ shutdown \in [Signal -> {"none", "draining", "closing", "ending", "leaving"}]
  /\ pool \in {"none", "open", "ending", "closed"}
  /\ schemas \subseteq Deployment

(* A graceful shutdown: nobody who still waits for an answer loses the     *)
(* pool, or the process, under the call.                                   *)
NobodyIsCutOff ==
  (pool \in {"ending", "closed"} \/ process = "exited") => caller = {} /\ stream = {}

(* When getAllSubgraphSizes has asked for everything, each deployment that *)
(* still exists stands in its report with its size, although others have   *)
(* vanished on the way, and none stands there with the size 0 for want of  *)
(* tables that still exists or that also has its size there.               *)
SizesAreComplete ==
  \A c \in Client : walk[c].pc = "done" =>
    /\ schemas \subseteq walk[c].found
    /\ walk[c].empty \cap (schemas \cup walk[c].found) = {}

Stopping == \E s \in Signal : shutdown[s] # "none"

RequestsStop == <>[][\A c \in Client : ~Serve(c)]_vars

(* Once a signal has come, no more requests arrive over the connections    *)
(* that are left and no client holds a stream, the process ends.           *)
QuietShutdownEnds == RequestsStop /\ <>[](stream = {}) => (Stopping ~> (~Alive))

(* "Stop accepting new connections, then tear down active sessions": after *)
(* a signal the process ends, once no more requests arrive.                *)
ShutdownEnds == RequestsStop => (Stopping ~> (~Alive))
=============================================================================
