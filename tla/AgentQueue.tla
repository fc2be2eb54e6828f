----------------------------- MODULE AgentQueue -----------------------------
(***************************************************************************)
(* The queue tools (tools/agent-tools.ts) over the indexer-agent client    *)
(* (clients/indexer-agent.ts), composed with the GraphQL client that sends *)
(* their requests: every tool hands its signal down, and the client sends  *)
(* a mutation again when its answer is lost.  The agent's management API   *)
(* is external: a copy of a request may reach it late, or never.  That it  *)
(* carries no copy out twice is assumed of it: nothing in the client's     *)
(* code could tell.                                                        *)
(*                                                                         *)
(* A request of GraphqlClient is here one call of a tool.                  *)
(***************************************************************************)
EXTENDS GraphqlClient

CONSTANTS
  Tools,       \* the tools that are called
  Allocation,  \* allocations a closing tool may name
  Era,         \* isLegacy of their rows in the network subgraph
  Nobody

Closing == {"queue_unallocate", "queue_reallocate"}
Queueing == Closing \cup {"queue_allocate"}
Writing == {"approve_actions", "cancel_actions", "set_indexing_rule", "set_cost_model"}
Reading == {"get_action_queue", "get_indexing_rules"}

ASSUME QueueAssumption ==
  /\ Signalled = Request
  /\ Tools \subseteq Queueing \cup Writing \cup Reading
  /\ Era \in [Allocation -> {"legacy", "horizon", "undefined"}]
  /\ Nobody \notin Request \cup Allocation \cup Tools

VARIABLES
  call,      \* what each call asks, and isLegacy of the action it sends
  executed,  \* the copies of requests the agent has carried out
  written,   \* whose write stands in each place of the agent
  answered   \* history: the calls answered before each call was sent

toolVars == <<call, executed, written, answered>>
allVars == <<slot, req, aborted, sent, overlapped, call, executed, written, answered>>

-----------------------------------------------------------------------------
(* The n-th time the query of a call is sent. *)
Copy == Request \X (1 .. MaxRetries + 2)

OnTheWire == {c \in Copy : c[2] <= sent[c[1]]} \ executed

(* What a writing tool overwrites: a status, a rule or a cost model. *)
Target(tool) ==
  CASE tool \in {"approve_actions", "cancel_actions"} -> "actions"
    [] tool = "set_indexing_rule" -> "rules"
    [] tool = "set_cost_model" -> "costModels"

Started(r) == call[r].tool # Nobody

Looking(r) == Started(r) /\ req[r].pc = "idle"

(* lookupIsLegacy: an older schema without the field means Horizon.        *)
IsLegacy(a) == Era[a] = "legacy"

(* The request leaves with everything it is to carry. *)
SendCall(r, asked) ==
  /\ Enter(r)
  /\ call' = [call EXCEPT ![r] = asked]
  /\ answered' = [answered EXCEPT ![r] = {q \in Request : req[q].outcome = "ok"}]
  /\ UNCHANGED <<executed, written>>

-----------------------------------------------------------------------------
QueueInit ==
  /\ Init
  /\ call = [r \in Request |-> [tool |-> Nobody, allocation |-> Nobody, legacy |-> FALSE]]
  /\ executed = {}
  /\ written = [t \in {"actions", "rules", "costModels"} |-> Nobody]
  /\ answered = [r \in Request |-> {}]

(* Every handler throws first when its signal has fired. *)
CallAborted(r) == ~Started(r) /\ EnterAborted(r) /\ UNCHANGED toolVars

(* The schema of set_indexing_rule rejects the keys the tool derives.      *)
RefuseRule(r) ==
  /\ req[r].pc = "idle" /\ ~Started(r) /\ "set_indexing_rule" \in Tools
  /\ Return(r, "error")
  /\ UNCHANGED <<slot, aborted, sent, overlapped, call, executed, written, answered>>

(* Tools that need no lookup; an allocate opens a Horizon allocation.      *)
CallTool(r, tool) ==
  /\ ~Started(r) /\ tool \in Tools \ Closing
  /\ SendCall(r, [tool |-> tool, allocation |-> Nobody, legacy |-> FALSE])

(* A closing tool asks the network subgraph for the allocation first.      *)
CallClosing(r, tool, a) ==
  /\ req[r].pc = "idle" /\ ~Started(r) /\ r \notin aborted
  /\ tool \in Tools \cap Closing
  /\ call' = [call EXCEPT ![r] = [tool |-> tool, allocation |-> a, legacy |-> FALSE]]
  /\ UNCHANGED <<vars, executed, written, answered>>

(* The row is there: the action is built and sent, unless request() finds  *)
(* the signal fired meanwhile.                                             *)
LookupFinds(r) ==
  /\ Looking(r)
  /\ \/ SendCall(r, [call[r] EXCEPT !.legacy = IsLegacy(call[r].allocation)])
     \/ EnterAborted(r) /\ UNCHANGED toolVars

(* Mutant: the action is queued with the flag left at its default.         *)
LookupIgnored(r) == Looking(r) /\ SendCall(r, call[r])

(* There is no such row, or the network subgraph gives no answer.          *)
LookupFails(r) ==
  /\ Looking(r)
  /\ GiveUp(r)
  /\ UNCHANGED <<slot, aborted, sent, overlapped, call, executed, written, answered>>

(* The agent carries out a copy, perhaps long after the call has returned. *)
Execute(c) ==
  /\ c \in OnTheWire
  /\ executed' = executed \cup {c}
  /\ written' = IF call[c[1]].tool \in Writing
                THEN [written EXCEPT ![Target(call[c[1]].tool)] = c[1]]
                ELSE written
  /\ UNCHANGED <<vars, call, answered>>

(* The answer of a copy comes only from the agent that carried it out.     *)
Answer(r) == <<r, sent[r]>> \in executed /\ FetchSucceeds(r)

ClientStep(r) ==
  /\ \/ Answer(r) \/ ParseFails(r) \/ RecoveryEnds(r) \/ SleepAborted(r) \/ SleepEnds(r)
     \/ Abort(r)
     \/ \E transient \in BOOLEAN : FetchFails(r, transient) \/ FetchCancelled(r, transient)
  /\ UNCHANGED toolVars

(* Every call has returned and the agent has what will ever reach it. *)
Over == (\A r \in Request : req[r].pc = "done") /\ UNCHANGED allVars

QueueNext ==
  \/ \E r \in Request :
       \/ CallAborted(r) \/ RefuseRule(r) \/ LookupFinds(r) \/ LookupFails(r) \/ ClientStep(r)
       \/ \E tool \in Tools : CallTool(r, tool)
       \/ \E tool \in Tools, a \in Allocation : CallClosing(r, tool, a)
  \/ \E c \in Copy : Execute(c)
  \/ Over

QueueSpec == QueueInit /\ [][QueueNext]_allVars

(* Lookups and fetches end, by a timeout at the latest, and timers fire;   *)
(* the agent owes nothing.                                                 *)
FairQueue ==
  /\ QueueSpec
  /\ \A r \in Request :
       /\ WF_allVars(LookupFinds(r) \/ LookupFails(r))
       /\ WF_allVars(Progress(r) /\ UNCHANGED toolVars)

-----------------------------------------------------------------------------
QueueTypeOK ==
  /\ TypeOK
  /\ call \in [Request -> [tool : Tools \cup {Nobody}, allocation : Allocation \cup {Nobody},
                           legacy : BOOLEAN]]
  /\ executed \subseteq Copy
  /\ written \in [{"actions", "rules", "costModels"} -> Request \cup {Nobody}]
  /\ answered \in [Request -> SUBSET Request]

(* The agent is never asked to close an allocation under the wrong era,    *)
(* whatever becomes of the lookup: it would reject or misroute the close.  *)
ClosesAsRecorded ==
  \A r \in Request : call[r].tool \in Closing /\ sent[r] > 0 =>
    call[r].legacy = (Era[call[r].allocation] = "legacy")

(* A rule, cost model or status that was written after another write had   *)
(* been answered is not undone by it, provided the earlier one was sent    *)
(* only once: no copy of it can still arrive.                              *)
LaterWriteStands ==
  \A earlier, later \in Request :
    /\ earlier \in answered[later] /\ sent[earlier] = 1
    /\ call[earlier].tool \in Writing /\ call[later].tool \in Writing
    /\ Target(call[earlier].tool) = Target(call[later].tool)
    /\ req[later].outcome = "ok"
    => written[Target(call[later].tool)] # earlier

(* A tool that was called answers or fails. *)
ToolsSettle == \A r \in Request : Started(r) ~> req[r].pc = "done"
=============================================================================
