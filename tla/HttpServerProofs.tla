-------------------------- MODULE HttpServerProofs --------------------------
(***************************************************************************)
(* Proofs about HttpServer, for any set of clients, deployments and        *)
(* signals: a shutdown takes the pool and the process from nobody who      *)
(* still waits, however many signals run one at the same time, and what    *)
(* the walk over the schemas answers is complete.                          *)
(***************************************************************************)
EXTENDS HttpServer, FiniteSetTheorems, TLAPS

(* The listener closes with the first signal and never opens again.        *)
ListenInv == listening => process = "up" /\ \A s \in Signal : shutdown[s] = "none"

(* Nobody is connected before the listener is bound, nor once one of the   *)
(* shutdowns has seen the last connection go.                              *)
DrainInv ==
  process = "starting" \/ (\E s \in Signal : shutdown[s] \in {"closing", "ending", "leaving"})
    => Connections = {}

(* Only a shutdown that has done so ends the pool or the process.          *)
PoolInv ==
  pool \in {"ending", "closed"} \/ process = "exited" =>
    \E s \in Signal : shutdown[s] \in {"ending", "leaving"}

(* What a walk has found, what it is asking for and what it still has to   *)
(* ask for are apart and cover the deployments that are there.             *)
WalkOK(w, now) ==
  /\ w.pc = "listing" => w.at = {} /\ w.found = {} /\ w.empty = {}
  /\ w.pc \in {"sizing", "done"} => w.at = {}
  /\ w.pc = "done" => w.todo = {}
  /\ w.pc \in {"sizing", "summing", "done"} =>
       /\ now \subseteq w.found \cup w.todo \cup w.at
       /\ w.empty \cap (now \cup w.found) = {}
       /\ w.found \cap (w.todo \cup w.at) = {} /\ w.todo \cap w.at = {}

WalkInv == \A c \in Client : WalkOK(walk[c], schemas)

ServerInv == TypeOK /\ ListenInv /\ DrainInv /\ PoolInv /\ WalkInv

-----------------------------------------------------------------------------
LEMMA InitInv == Init => ServerInv
<1> SUFFICES ASSUME Init PROVE ServerInv
  OBVIOUS
<1>1. \A c \in Client : walk[c] = Idle /\ walk[c].pc = "idle"
  BY DEF Init, Idle
<1>2. TypeOK
  BY DEF Init, TypeOK, NoSpare
<1> QED
  BY <1>1, <1>2 DEF Init, ServerInv, ListenInv, DrainInv, PoolInv, WalkInv, WalkOK, Connections, NoSpare

(* Connections only ever go away while no new one can be made: a request   *)
(* takes one that its client has.                                          *)
LEMMA LifeInv ==
  ASSUME ServerInv, UNCHANGED <<process, listening, shutdown>>,
         pool' = pool \/ pool' = "open", Connections' \subseteq Connections \/ listening
  PROVE  ListenInv' /\ DrainInv' /\ PoolInv'
BY DEF ServerInv, ListenInv, DrainInv, PoolInv

(* A handler takes a step of its walk. *)
LEMMA WalkStep ==
  ASSUME ServerInv, NEW c \in Client, NEW w \in Walk, walk' = [walk EXCEPT ![c] = w],
         WalkOK(w, schemas), schemas' = schemas
  PROVE  walk' \in [Client -> {Idle} \cup Walk] /\ WalkInv'
BY DEF ServerInv, TypeOK, WalkInv

LEMMA WalksStay ==
  ASSUME ServerInv, walk' = walk, schemas' \subseteq schemas
  PROVE  WalkInv'
<1>1. \A c \in Client : WalkOK(walk[c], schemas)
  BY DEF ServerInv, WalkInv
<1>2. \A c \in Client : WalkOK(walk[c], schemas')
  BY <1>1 DEF WalkOK
<1> QED
  BY <1>2 DEF WalkInv

LEMMA WalkShape ==
  ASSUME TypeOK, NEW c \in Client, walk[c].pc # "idle"
  PROVE  walk[c] \in Walk
<1>1. walk[c] \in {Idle} \cup Walk
  BY DEF TypeOK
<1> QED
  BY <1>1 DEF Idle

-----------------------------------------------------------------------------
LEMMA StartInv == ServerInv /\ (Listen \/ ListenFails) => ServerInv'
<1>1. ASSUME ServerInv, Listen PROVE ServerInv'
  <2>1. /\ process = "starting" /\ \A s \in Signal : shutdown[s] = "none"
        /\ process' = "up" /\ listening' = TRUE /\ ready' = TRUE
        /\ UNCHANGED <<sessions, stream, caller, spare, walk, shutdown, pool, schemas>>
    BY <1>1 DEF Listen
  <2>2. TypeOK' /\ WalkInv'
    BY <1>1, <2>1, WalksStay DEF ServerInv, TypeOK
  <2> QED
    BY <1>1, <2>1, <2>2 DEF ServerInv, ListenInv, DrainInv, PoolInv
<1>2. ASSUME ServerInv, ListenFails PROVE ServerInv'
  <2>1. /\ process = "starting" /\ process' = "crashed"
        /\ UNCHANGED <<listening, ready, sessions, stream, caller, spare, walk, shutdown, pool,
                       schemas>>
    BY <1>2 DEF ListenFails, web
  <2>2. TypeOK' /\ WalkInv'
    BY <1>2, <2>1, WalksStay DEF ServerInv, TypeOK
  <2> QED
    BY <1>2, <2>1, <2>2 DEF ServerInv, ListenInv, DrainInv, PoolInv, Connections
<1> QED
  BY <1>1, <1>2

-----------------------------------------------------------------------------
(* Connections that are taken and given back. *)
LEMMA Taken ==
  ASSUME TypeOK, NEW c \in Client, CanReach(c), TakeConnection(c)
  PROVE  /\ spare' \in [Client -> Nat]
         /\ listening \/ (spare[c] > 0 /\ \A e \in Client : spare'[e] > 0 => spare[e] > 0)
<1>1. CASE listening
  BY <1>1 DEF TypeOK, TakeConnection
<1>2. CASE ~listening
  <2>1. spare[c] > 0 /\ spare \in [Client -> Nat] /\ spare' = [spare EXCEPT ![c] = @ - 1]
    BY <1>2 DEF TypeOK, TakeConnection, CanReach
  <2>2. spare[c] - 1 \in Nat
    BY <2>1
  <2> QED
    BY <2>1, <2>2
<1> QED
  BY <1>1, <1>2

LEMMA Given ==
  ASSUME TypeOK, NEW c \in Client, NEW n \in Nat, GiveBack(c, n)
  PROVE  /\ spare' \in [Client -> Nat]
         /\ \A e \in Client : spare'[e] > 0 => spare[e] > 0 \/ (e = c /\ n > 0)
BY DEF TypeOK, GiveBack

(* c gives back the connections of the responses that end. *)
LEMMA EndedOnes ==
  ASSUME NEW c, NEW S
  PROVE  Cardinality({c} \cap S) \in Nat /\ (Cardinality({c} \cap S) > 0 => c \in S)
<1>1. CASE c \in S
  <2>1. {c} \cap S = {c}
    BY <1>1
  <2> QED
    BY <1>1, <2>1, FS_Singleton
<1>2. CASE c \notin S
  <2>1. {c} \cap S = {}
    BY <1>2
  <2> QED
    BY <2>1, FS_EmptySet
<1> QED
  BY <1>1, <1>2

(* Requests come while the listener is open or over a connection that was  *)
(* kept; no shutdown has seen the last one go then.                        *)
LEMMA ServeInv ==
  ASSUME ServerInv, NEW c \in Client, Serve(c)
  PROVE  ServerInv'
<1>0. TypeOK
  BY DEF ServerInv
<1>1. CASE Initialize(c)
  <2>1. UNCHANGED <<process, listening, ready, stream, caller, spare, walk, shutdown, pool, schemas>>
        /\ sessions' = sessions \cup {c}
    BY <1>1 DEF Initialize
  <2>2. TypeOK' /\ WalkInv' /\ Connections' = Connections
    BY <1>0, <2>1, WalksStay DEF TypeOK, Connections
  <2> QED
    BY <2>1, <2>2, LifeInv DEF ServerInv
<1>2. CASE OpenStream(c)
  <2>1. /\ CanReach(c) /\ TakeConnection(c) /\ stream' = stream \cup {c}
        /\ UNCHANGED <<process, listening, ready, sessions, caller, walk, shutdown, pool, schemas>>
    BY <1>2 DEF OpenStream
  <2>2. TypeOK' /\ WalkInv'
    BY <1>0, <2>1, Taken, WalksStay DEF TypeOK
  <2>3. Connections' \subseteq Connections \/ listening
    BY <1>0, <2>1, Taken DEF Connections
  <2> QED
    BY <2>1, <2>2, <2>3, LifeInv DEF ServerInv
<1>3. CASE CallTool(c)
  <2> DEFINE w == [pc |-> "listing", todo |-> {}, at |-> {}, found |-> {}, empty |-> {}]
  <2>1. /\ CanReach(c) /\ TakeConnection(c) /\ pool' = "open" /\ walk' = [walk EXCEPT ![c] = w]
        /\ caller' = caller \cup {c}
        /\ UNCHANGED <<process, listening, ready, sessions, stream, shutdown, schemas>>
    BY <1>3 DEF CallTool
  <2>2. w \in Walk /\ WalkOK(w, schemas)
    BY DEF Walk, WalkOK
  <2> HIDE DEF w
  <2>3. walk' \in [Client -> {Idle} \cup Walk] /\ WalkInv'
    BY <2>1, <2>2, WalkStep
  <2>4. TypeOK'
    BY <1>0, <2>1, <2>3, Taken DEF TypeOK
  <2>5. Connections' \subseteq Connections \/ listening
    BY <1>0, <2>1, Taken DEF Connections
  <2> QED
    BY <2>1, <2>3, <2>4, <2>5, LifeInv DEF ServerInv
<1>4. CASE EndSession(c)
  <2> DEFINE n == Cardinality({c} \cap stream) + Cardinality({c} \cap caller)
  <2>1. /\ GiveBack(c, n) /\ sessions' = sessions \ {c}
        /\ stream' = stream \ {c} /\ caller' = caller \ {c}
        /\ UNCHANGED <<process, listening, ready, walk, shutdown, pool, schemas>>
    BY <1>4 DEF EndSession, CloseTransports
  <2>2. n \in Nat /\ (n > 0 => c \in stream \cup caller)
    BY EndedOnes
  <2> HIDE DEF n
  <2>3. TypeOK' /\ WalkInv'
    BY <1>0, <2>1, <2>2, Given, WalksStay DEF TypeOK
  <2>4. Connections' \subseteq Connections
    BY <1>0, <2>1, <2>2, Given DEF Connections
  <2> QED
    BY <2>1, <2>3, <2>4, LifeInv DEF ServerInv
<1> QED
  BY <1>1, <1>2, <1>3, <1>4 DEF Serve

LEMMA LeaveInv ==
  ASSUME ServerInv, NEW c \in Client, Leave(c)
  PROVE  ServerInv'
<1>0. TypeOK
  BY DEF ServerInv
<1>1. CASE LeaveStream(c) \/ LeaveCall(c)
  <2>1. /\ stream' \subseteq stream /\ caller' \subseteq caller
        /\ UNCHANGED <<process, listening, ready, sessions, spare, walk, shutdown, pool, schemas>>
    BY <1>1 DEF LeaveStream, LeaveCall
  <2>2. TypeOK' /\ WalkInv' /\ Connections' \subseteq Connections
    BY <1>0, <2>1, WalksStay DEF TypeOK, Connections
  <2> QED
    BY <2>1, <2>2, LifeInv DEF ServerInv
<1>2. CASE KeepAliveEnds(c)
  <2>1. /\ spare[c] > 0 /\ spare' = [spare EXCEPT ![c] = @ - 1]
        /\ UNCHANGED <<process, listening, ready, sessions, stream, caller, walk, shutdown, pool,
                       schemas>>
    BY <1>2 DEF KeepAliveEnds
  <2>2. /\ spare' \in [Client -> Nat]
        /\ \A e \in Client : spare'[e] > 0 => spare[e] > 0
    BY <1>0, <2>1 DEF TypeOK
  <2>3. TypeOK' /\ WalkInv' /\ Connections' \subseteq Connections
    BY <1>0, <2>1, <2>2, WalksStay DEF TypeOK, Connections
  <2> QED
    BY <2>1, <2>3, LifeInv DEF ServerInv
<1> QED
  BY <1>1, <1>2 DEF Leave

-----------------------------------------------------------------------------
(* A walk that is over. *)
LEMMA ReplyInv ==
  ASSUME ServerInv, NEW c \in Client, Reply(c)
  PROVE  ServerInv'
<1> DEFINE n == Cardinality({c} \cap caller)
<1>0. TypeOK
  BY DEF ServerInv
<1>1. /\ walk' = [walk EXCEPT ![c] = Idle] /\ caller' = caller \ {c} /\ GiveBack(c, n)
      /\ UNCHANGED <<process, listening, ready, sessions, stream, shutdown, pool, schemas>>
  BY DEF Reply
<1>2. n \in Nat /\ (n > 0 => c \in caller)
  BY EndedOnes
<1> HIDE DEF n
<1>3. TypeOK'
  BY <1>0, <1>1, <1>2, Given DEF TypeOK
<1>4. Connections' \subseteq Connections
  BY <1>0, <1>1, <1>2, Given DEF Connections
<1>5. WalkOK(Idle, schemas)
  BY DEF WalkOK, Idle
<1>6. WalkInv'
  BY <1>0, <1>1, <1>5 DEF ServerInv, WalkInv, TypeOK
<1> QED
  BY <1>1, <1>3, <1>4, <1>6, LifeInv DEF ServerInv

(* A walk that goes on. *)
LEMMA GoOnInv ==
  ASSUME ServerInv, NEW c \in Client, NEW w \in Walk, WalkOK(w, schemas), GoOn(c, w)
  PROVE  ServerInv'
<1>0. TypeOK
  BY DEF ServerInv
<1>1. CASE w.pc = "done" \/ pool = "open"
  <2>1. /\ walk' = [walk EXCEPT ![c] = w]
        /\ UNCHANGED <<process, listening, ready, sessions, stream, caller, spare, shutdown, pool,
                       schemas>>
    BY <1>1 DEF GoOn, web
  <2>2. walk' \in [Client -> {Idle} \cup Walk] /\ WalkInv'
    BY <2>1, WalkStep
  <2>3. TypeOK' /\ Connections' = Connections
    BY <1>0, <2>1, <2>2 DEF TypeOK, Connections
  <2> QED
    BY <2>1, <2>2, <2>3, LifeInv DEF ServerInv
<1>2. CASE ~(w.pc = "done" \/ pool = "open")
  BY <1>2, ReplyInv DEF GoOn
<1> QED
  BY <1>1, <1>2

LEMMA ListedInv ==
  ASSUME ServerInv, NEW c \in Client, Listed(c)
  PROVE  ServerInv'
<1> DEFINE w == [walk[c] EXCEPT !.pc = NextSchema(schemas), !.todo = schemas]
<1>1. walk[c].pc = "listing" /\ GoOn(c, w)
  BY DEF Listed
<1>2. walk[c] \in Walk /\ schemas \subseteq Deployment /\ WalkOK(walk[c], schemas)
  BY <1>1, WalkShape DEF ServerInv, TypeOK, WalkInv
<1>3. /\ w \in Walk /\ w.pc \in {"sizing", "done"} /\ (w.pc = "done" => schemas = {})
      /\ w.todo = schemas /\ w.at = walk[c].at /\ w.found = walk[c].found
      /\ w.empty = walk[c].empty
  BY <1>2 DEF Walk, NextSchema
<1> HIDE DEF w
<1>4. w.at = {} /\ w.found = {} /\ w.empty = {}
  BY <1>1, <1>2, <1>3 DEF WalkOK
<1>5. WalkOK(w, schemas)
  BY <1>3, <1>4 DEF WalkOK
<1> QED
  BY <1>1, <1>3, <1>5, GoOnInv

LEMMA FoundInv ==
  ASSUME ServerInv, NEW c \in Client, NEW d \in Deployment, Found(c, d)
  PROVE  ServerInv'
<1> DEFINE rest == walk[c].todo \ {d}
           w == [walk[c] EXCEPT !.pc = "summing", !.todo = rest, !.at = {d}]
           v == [walk[c] EXCEPT !.pc = NextSchema(rest), !.todo = rest]
<1>1. /\ walk[c].pc = "sizing" /\ d \in walk[c].todo
      /\ IF d \in schemas THEN GoOn(c, w) ELSE GoOn(c, v)
  BY DEF Found
<1>2. walk[c] \in Walk
  BY <1>1, WalkShape DEF ServerInv
<1>3. WalkOK(walk[c], schemas)
  BY DEF ServerInv, WalkInv
<1>4. /\ walk[c].at = {} /\ schemas \subseteq walk[c].found \cup walk[c].todo
      /\ walk[c].empty \cap (schemas \cup walk[c].found) = {}
      /\ walk[c].found \cap walk[c].todo = {}
  BY <1>1, <1>3 DEF WalkOK
<1>5. CASE d \in schemas
  <2>1. /\ w \in Walk /\ w.pc = "summing" /\ w.todo = rest /\ w.at = {d}
        /\ w.found = walk[c].found /\ w.empty = walk[c].empty
    BY <1>2 DEF Walk
  <2>2. GoOn(c, w)
    BY <1>1, <1>5
  <2> HIDE DEF w
  <2>3. WalkOK(w, schemas)
    BY <1>1, <1>4, <2>1 DEF WalkOK
  <2> QED
    BY <2>1, <2>2, <2>3, GoOnInv
<1>6. CASE d \notin schemas
  <2>1. /\ v \in Walk /\ v.pc \in {"sizing", "done"} /\ (v.pc = "done" => rest = {})
        /\ v.todo = rest /\ v.at = walk[c].at /\ v.found = walk[c].found
        /\ v.empty = walk[c].empty
    BY <1>2 DEF Walk, NextSchema
  <2>2. GoOn(c, v)
    BY <1>1, <1>6
  <2> HIDE DEF v
  <2>3. WalkOK(v, schemas)
    BY <1>1, <1>4, <1>6, <2>1 DEF WalkOK
  <2> QED
    BY <2>1, <2>2, <2>3, GoOnInv
<1> QED
  BY <1>5, <1>6

LEMMA SizedInv ==
  ASSUME ServerInv, NEW c \in Client, Sized(c)
  PROVE  ServerInv'
<1>1. /\ walk[c].pc = "summing"
      /\ \E empty \in SUBSET (walk[c].at \ schemas) :
           GoOn(c, [walk[c] EXCEPT !.pc = NextSchema(walk[c].todo), !.at = {},
                                 !.found = @ \cup (walk[c].at \cap schemas),
                                 !.empty = @ \cup empty])
  BY DEF Sized
<1>2. PICK empty \in SUBSET (walk[c].at \ schemas) :
        GoOn(c, [walk[c] EXCEPT !.pc = NextSchema(walk[c].todo), !.at = {},
                              !.found = @ \cup (walk[c].at \cap schemas), !.empty = @ \cup empty])
  BY <1>1
<1> DEFINE w == [walk[c] EXCEPT !.pc = NextSchema(walk[c].todo), !.at = {},
                              !.found = @ \cup (walk[c].at \cap schemas),
                              !.empty = @ \cup empty]
<1>3. walk[c] \in Walk /\ GoOn(c, w)
  BY <1>1, <1>2, WalkShape DEF ServerInv
<1>4. WalkOK(walk[c], schemas)
  BY DEF ServerInv, WalkInv
<1>5. /\ schemas \subseteq walk[c].found \cup walk[c].todo \cup walk[c].at
      /\ walk[c].empty \cap (schemas \cup walk[c].found) = {}
      /\ walk[c].found \cap (walk[c].todo \cup walk[c].at) = {}
      /\ walk[c].todo \cap walk[c].at = {}
  BY <1>1, <1>4 DEF WalkOK
<1>6. /\ w \in Walk /\ w.pc \in {"sizing", "done"} /\ (w.pc = "done" => w.todo = {})
      /\ w.todo = walk[c].todo /\ w.at = {}
      /\ w.found = walk[c].found \cup (walk[c].at \cap schemas)
      /\ w.empty = walk[c].empty \cup empty
  BY <1>3 DEF Walk, NextSchema
<1> HIDE DEF w
<1>7. WalkOK(w, schemas)
  BY <1>2, <1>5, <1>6 DEF WalkOK
<1> QED
  BY <1>3, <1>6, <1>7, GoOnInv

LEMMA HandleInv ==
  ASSUME ServerInv, NEW c \in Client, Handle(c)
  PROVE  ServerInv'
<1>1. CASE Answer(c) \/ QueryFails(c)
  BY <1>1, ReplyInv DEF Answer, QueryFails
<1> QED
  BY <1>1, ListedInv, FoundInv, SizedInv DEF Handle

LEMMA DropSchemaInv ==
  ASSUME ServerInv, NEW d \in Deployment, DropSchema(d)
  PROVE  ServerInv'
<1>1. /\ schemas' = schemas \ {d} /\ walk' = walk
      /\ UNCHANGED <<process, listening, ready, sessions, stream, caller, spare, shutdown, pool>>
  BY DEF DropSchema, web
<1>2. TypeOK' /\ WalkInv' /\ Connections' = Connections
  BY <1>1, WalksStay DEF ServerInv, TypeOK, Connections
<1> QED
  BY <1>1, <1>2, LifeInv DEF ServerInv

-----------------------------------------------------------------------------
LEMMA ReceiveSignalInv ==
  ASSUME ServerInv, NEW s \in Signal, ReceiveSignal(s)
  PROVE  ServerInv'
<1> DEFINE stage == IF process = "up" THEN "draining" ELSE "closing"
<1>1. /\ Alive /\ shutdown[s] = "none" /\ shutdown' = [shutdown EXCEPT ![s] = stage]
      /\ listening' = FALSE
      /\ \E busy \in SUBSET {c \in Client : CanReach(c)} :
           spare' = [c \in Client |-> IF c \in busy THEN 1 ELSE 0]
      /\ UNCHANGED <<process, ready, sessions, stream, caller, walk, pool, schemas>>
  BY DEF ReceiveSignal
<1>2. shutdown \in [Signal -> {"none", "draining", "closing", "ending", "leaving"}]
  BY DEF ServerInv, TypeOK
<1>3. /\ stage = "closing" => process = "starting"
      /\ stage \in {"draining", "closing"}
  BY <1>1 DEF Alive
<1> HIDE DEF stage
<1>4. shutdown'[s] = stage /\ \A t \in Signal : t # s => shutdown'[t] = shutdown[t]
  BY <1>1, <1>2
<1>5. /\ spare' \in [Client -> Nat]
      /\ listening \/ \A c \in Client : spare'[c] > 0 => spare[c] > 0
  BY <1>1 DEF CanReach
<1>9. TypeOK' /\ WalkInv'
  BY <1>1, <1>3, <1>5, WalksStay DEF ServerInv, TypeOK
<1>6. ListenInv'
  BY <1>1 DEF ListenInv
<1>7. DrainInv'
  BY <1>1, <1>3, <1>4, <1>5 DEF ServerInv, DrainInv, ListenInv, Connections
<1>8. PoolInv'
  BY <1>1, <1>4 DEF ServerInv, PoolInv
<1> QED
  BY <1>6, <1>7, <1>8, <1>9 DEF ServerInv

LEMMA ShutDownInv ==
  ASSUME ServerInv, NEW s \in Signal, ShutDown(s)
  PROVE  ServerInv'
<1>0. /\ shutdown \in [Signal -> {"none", "draining", "closing", "ending", "leaving"}]
      /\ TypeOK /\ listening \in BOOLEAN
  BY DEF ServerInv, TypeOK
<1>a. ASSUME NEW stage, shutdown' = [shutdown EXCEPT ![s] = stage]
      PROVE  shutdown'[s] = stage /\ \A t \in Signal : t # s => shutdown'[t] = shutdown[t]
  BY <1>0, <1>a
<1>1. CASE Drained(s)
  <2>1. /\ shutdown[s] = "draining" /\ Connections = {}
        /\ shutdown' = [shutdown EXCEPT ![s] = "closing"] /\ ready' = FALSE
        /\ CloseTransports(sessions)
        /\ UNCHANGED <<process, listening, spare, walk, pool, schemas>>
    BY <1>1 DEF Drained
  <2>2. TypeOK' /\ WalkInv'
    BY <2>1, WalksStay DEF ServerInv, TypeOK, CloseTransports
  <2>3. Connections' = {}
    BY <2>1 DEF Connections, CloseTransports
  <2> QED
    BY <1>a, <2>1, <2>2, <2>3 DEF ServerInv, ListenInv, DrainInv, PoolInv
<1>2. CASE ClosePool(s)
  <2> DEFINE stage == IF pool = "open" THEN "ending" ELSE "leaving"
  <2>1. /\ shutdown[s] = "closing"
        /\ shutdown' = [shutdown EXCEPT ![s] = stage]
        /\ pool' = (IF pool = "open" THEN "ending" ELSE IF pool = "none" THEN "closed" ELSE pool)
        /\ UNCHANGED <<process, listening, ready, sessions, stream, caller, spare, walk, schemas>>
    BY <1>2 DEF ClosePool, web
  <2>2. stage \in {"ending", "leaving"}
    OBVIOUS
  <2> HIDE DEF stage
  <2>3. TypeOK' /\ WalkInv' /\ Connections' = Connections
    BY <2>1, <2>2, WalksStay DEF ServerInv, TypeOK, Connections
  <2>4. Connections = {}
    BY <2>1 DEF ServerInv, DrainInv
  <2> QED
    BY <1>a, <2>1, <2>2, <2>3, <2>4 DEF ServerInv, ListenInv, DrainInv, PoolInv
<1>3. CASE Exit(s)
  <2>1. /\ shutdown[s] \in {"ending", "leaving"} /\ pool' = "closed" /\ process' = "exited"
        /\ UNCHANGED <<listening, ready, sessions, stream, caller, spare, walk, shutdown, schemas>>
    BY <1>3 DEF Exit, web
  <2>2. TypeOK' /\ WalkInv'
    BY <2>1, WalksStay DEF ServerInv, TypeOK
  <2> QED
    BY <2>1, <2>2 DEF ServerInv, ListenInv, DrainInv, PoolInv, Connections
<1> QED
  BY <1>1, <1>2, <1>3 DEF ShutDown

LEMMA NextInv == ServerInv /\ [Next]_vars => ServerInv'
<1> SUFFICES ASSUME ServerInv, [Next]_vars PROVE ServerInv'
  OBVIOUS
<1>1. CASE UNCHANGED vars
  BY <1>1 DEF vars, web, ServerInv, TypeOK, ListenInv, DrainInv, PoolInv, WalkInv, Connections
<1> QED
  BY <1>1, StartInv, ServeInv, LeaveInv, HandleInv, DropSchemaInv, ReceiveSignalInv,
     ShutDownInv DEF Next

-----------------------------------------------------------------------------
(* The inductive invariant of the server's life.                           *)
THEOREM ServerInvariance == Spec => []ServerInv
BY InitInv, NextInv, PTL DEF Spec

(* Sessions, walks and stages of the shutdown are always well typed.       *)
THEOREM ServerTypeCorrect == Spec => []TypeOK
<1>1. ServerInv => TypeOK
  BY DEF ServerInv
<1> QED
  BY <1>1, ServerInvariance, PTL

(* However many signals come, at whatever moment: the pool ends and the    *)
(* process exits only when nobody waits for an answer or holds a stream.   *)
THEOREM ShutdownCutsNobodyOff == Spec => []NobodyIsCutOff
<1>1. ServerInv => NobodyIsCutOff
  BY DEF ServerInv, NobodyIsCutOff, PoolInv, DrainInv, Connections
<1> QED
  BY <1>1, ServerInvariance, PTL

(* getAllSubgraphSizes answers with the size of every deployment that is   *)
(* still there and gives the size 0 for want of tables to none that is,    *)
(* whichever schemas vanish between its queries.                           *)
THEOREM WalksAreComplete == Spec => []SizesAreComplete
<1>1. ServerInv => SizesAreComplete
  BY DEF ServerInv, SizesAreComplete, WalkInv, WalkOK
<1> QED
  BY <1>1, ServerInvariance, PTL
=============================================================================
