--------------------------- MODULE DeploymentReads ---------------------------
(***************************************************************************)
(* What is known of one deployment while graphman changes it: the deploy-  *)
(* ment cache of clients/graphman.ts, which its mutations invalidate, and  *)
(* the two caches of clients/graph-node.ts, which nothing invalidates,     *)
(* together with the tools of tools/graphman-tools.ts that ask for the     *)
(* mutations.  The state of the deployment is a version that grows with    *)
(* every change graph-node carries out; a mutation may be carried out      *)
(* twice, late, or after its answer was lost, because the GraphQL client   *)
(* sends again what it got no answer for.                                  *)
(***************************************************************************)
EXTENDS Integers, FiniteSets, Sequences

CONSTANTS
  Read,       \* calls of a reading method
  Mutation,   \* calls of a graphman tool
  Kinds,      \* the graphman mutations that are called
  Requests,   \* the sets of optional arguments the tools are called with
  Nobody,     \* no read
  Ttl,        \* every cache keeps an answer for 300 s
  MaxFetch,   \* how long a request may take
  MaxChanges, \* bound of the changes graph-node carries out
  MaxTime     \* bound of the clock

(* How the methods treat a mutation that was answered. *)
AckKinds == {"pause", "resume", "unassign"}       \* invalidate on success
FinalKinds == {"reassign", "drop"}                \* invalidate in any case
AsyncKinds == {"restart", "rewind"}               \* answered when accepted
ChainKinds == {"check_blocks", "clear_call_cache", "truncate_chain_cache"}

Argument == {"start_block", "not_start_block", "block_hash", "block_number",
             "by_hash", "by_number", "by_range", "from", "to", "to_before_from",
             "remove_entire_cache", "ttl_days", "max_contracts"}

ASSUME ReadsAssumption ==
  /\ Kinds \subseteq AckKinds \cup FinalKinds \cup AsyncKinds \cup ChainKinds
  /\ Requests \subseteq SUBSET Argument
  /\ Nobody \notin Read
  /\ Ttl \in Nat \ {0} /\ MaxFetch \in Nat /\ MaxTime \in Nat /\ MaxChanges \in Nat

(* deploymentInfoCache, statusesCache and healthCache. *)
Source == {"info", "statuses", "health"}

VARIABLES
  now,      \* the clock
  changed,  \* when each version of the deployment came about
  entry,    \* the stored answer of each cache
  flight,   \* the read whose fetch other reads of a cache join
  read,     \* the reads
  mut,      \* the mutations
  acked     \* history: the newest version whose mutation was acknowledged

vars == <<now, changed, entry, flight, read, mut, acked>>

-----------------------------------------------------------------------------
Version == 0 .. MaxChanges

Current == Len(changed)

Waiting(r) == read[r].pc = "waiting"

Leads(r) == Waiting(r) /\ read[r].lead = r

Fresh(s) == entry[s].until > now

Idle == [pc |-> "idle", source |-> "info", lead |-> Nobody, since |-> 0, floor |-> 0,
         served |-> FALSE, version |-> 0, missed |-> 0]

(* For how long a version has not been the latest one. *)
Superseded(version) == IF version < Current THEN now - changed[version + 1] ELSE 0

(* A read returns a version; missed is how long it has been out of date.   *)
Return(s, floor, version) ==
  [Idle EXCEPT !.pc = "done", !.source = s, !.floor = floor, !.version = version,
               !.missed = Superseded(version)]

(* The reads that share the fetch of a read. *)
Sharing(l) == {r \in Read : Waiting(r) /\ read[r].lead = l}

(* Mutant: only the stored answer is dropped, not the fetch under way.     *)
ForgetEntry ==
  /\ entry' = [entry EXCEPT !["info"].until = 0]
  /\ UNCHANGED flight

(* invalidateDeployment: what is stored goes, and nobody joins the fetch   *)
(* that is under way any more.                                             *)
Forget ==
  /\ entry' = [entry EXCEPT !["info"].until = 0]
  /\ flight' = [flight EXCEPT !["info"] = Nobody]

-----------------------------------------------------------------------------
(* Mutant: at least one mode is enough. *)
AtLeastOne(asked, modes) == asked \cap modes # {}

ExactlyOne(asked, modes) == Cardinality(asked \cap modes) = 1

(* The refined schemas: the arguments a tool takes. *)
Accepted(kind, asked) ==
  CASE kind = "rewind" ->
         asked \in {{"start_block"}, {"block_hash", "block_number"},
                    {"not_start_block", "block_hash", "block_number"}}
    [] kind = "check_blocks" ->
         /\ asked \subseteq {"by_hash", "by_number", "by_range", "from", "to"}
         /\ ExactlyOne(asked, {"by_hash", "by_number", "by_range"})
         /\ asked \cap {"from", "to"} # {} => "by_range" \in asked
    [] kind = "clear_call_cache" ->
         /\ asked \subseteq {"from", "to", "remove_entire_cache", "ttl_days", "max_contracts"}
         /\ Cardinality({mode \in {{"from", "to"}, {"remove_entire_cache"}, {"ttl_days"}} :
                           asked \cap mode # {}}) = 1
         /\ "from" \in asked <=> "to" \in asked
         /\ "max_contracts" \in asked => "ttl_days" \in asked
    [] OTHER -> asked = {}

(* What the client puts into the request: checkBlocks takes the first      *)
(* method it finds, the others pass on what they are given.                *)
Carried(kind, asked) ==
  CASE kind = "check_blocks" /\ "by_hash" \in asked -> {"by_hash"}
    [] kind = "check_blocks" /\ "by_number" \in asked -> {"by_number"}
    [] OTHER -> asked

-----------------------------------------------------------------------------
Init ==
  /\ now = 0 /\ changed = <<>> /\ acked = 0
  /\ entry = [s \in Source |-> [version |-> 0, until |-> 0]]
  /\ flight = [s \in Source |-> Nobody]
  /\ read = [r \in Read |-> Idle]
  /\ mut = [m \in Mutation |-> [pc |-> "idle", kind |-> "none", asked |-> {}, carried |-> {},
                                done |-> 0, version |-> 0]]

(* A tool refuses arguments its schema does not take, or its signal has    *)
(* fired: nothing is sent.                                                 *)
Refuse(m) ==
  /\ mut[m].pc = "idle"
  /\ mut' = [mut EXCEPT ![m].pc = "refused"]
  /\ UNCHANGED <<now, changed, entry, flight, read, acked>>

Send(m, kind, asked) ==
  /\ mut[m].pc = "idle" /\ Accepted(kind, asked)
  /\ mut' = [mut EXCEPT ![m] = [pc |-> "sent", kind |-> kind, asked |-> asked,
                                carried |-> Carried(kind, asked), done |-> 0, version |-> 0]]
  /\ UNCHANGED <<now, changed, entry, flight, read, acked>>

(* graph-node carries out a mutation: a copy of it, or for a restart the   *)
(* pause and then the resume, at any time after it was sent.               *)
Execute(m) ==
  /\ mut[m].pc \in {"sent", "answered"} /\ mut[m].kind \notin ChainKinds
  /\ mut[m].done < 2 /\ Current < MaxChanges
  /\ changed' = Append(changed, now)
  /\ mut' = [mut EXCEPT ![m] = [mut[m] EXCEPT !.done = @ + 1,
                                           !.version = IF mut[m].pc = "sent" THEN Current + 1 ELSE 0]]
  /\ UNCHANGED <<now, entry, flight, read, acked>>

(* A mutation whose method has returned or thrown; its request, unless it  *)
(* is for a chain, may still be carried out.                               *)
Answered(kind, done) ==
  [pc |-> "answered", kind |-> IF kind \in ChainKinds THEN kind ELSE "none", asked |-> {},
   carried |-> {}, done |-> done, version |-> 0]

Newer(version) == IF version > acked THEN version ELSE acked

(* Which answers drop what is cached: success, also a success left unsaid; *)
(* any answer of a reassign or a drop; the id of a restart or a rewind,    *)
(* which may not have begun.  The chain commands leave the cache alone.    *)
Invalidates(kind, success) ==
  kind \in FinalKinds \/ (kind \in AckKinds \cup AsyncKinds /\ success)

(* The answer of a mutation: graphman reports the success of an unassign   *)
(* or a reassign that it carried out.                                      *)
Answer(m, success) ==
  LET kind == mut[m].kind
      shown == success /\ kind \in AckKinds \cup FinalKinds IN
  /\ mut[m].pc = "sent"
  /\ shown => mut[m].done > 0
  /\ mut' = [mut EXCEPT ![m] = Answered(kind, mut[m].done)]
  /\ acked' = IF shown THEN Newer(mut[m].version) ELSE acked
  /\ IF Invalidates(kind, success) THEN Forget ELSE UNCHANGED <<entry, flight>>
  /\ UNCHANGED <<now, changed, read>>

(* No answer, an abort, an error or no execution id: the method throws     *)
(* before it invalidates, whatever graph-node has done or will still do.   *)
LoseAnswer(m) ==
  /\ mut[m].pc = "sent"
  /\ mut' = [mut EXCEPT ![m] = Answered(mut[m].kind, mut[m].done)]
  /\ UNCHANGED <<now, changed, entry, flight, read, acked>>

-----------------------------------------------------------------------------
Started(s, lead) == [Idle EXCEPT !.pc = "waiting", !.source = s, !.lead = lead,
                                 !.since = now, !.floor = acked]

(* getDeploymentInfo, getIndexingStatuses or getDeploymentHealth: answered *)
(* from the cache, by joining a fetch, or by a fetch of its own.           *)
Hit(r, s) ==
  /\ read[r].pc = "idle" /\ Fresh(s)
  /\ read' = [read EXCEPT ![r] = Return(s, acked, entry[s].version)]
  /\ UNCHANGED <<now, changed, entry, flight, mut, acked>>

Join(r, s) ==
  /\ read[r].pc = "idle" /\ ~Fresh(s) /\ flight[s] # Nobody
  /\ read' = [read EXCEPT ![r] = Started(s, flight[s])]
  /\ UNCHANGED <<now, changed, entry, flight, mut, acked>>

Fetch(r, s) ==
  /\ read[r].pc = "idle" /\ ~Fresh(s) /\ flight[s] = Nobody
  /\ read' = [read EXCEPT ![r] = Started(s, r)]
  /\ flight' = [flight EXCEPT ![s] = r]
  /\ UNCHANGED <<now, changed, entry, mut, acked>>

(* graph-node reads its state for the request of a read. *)
Serve(l) ==
  /\ Leads(l) /\ ~read[l].served
  /\ read' = [read EXCEPT ![l].served = TRUE, ![l].version = Current]
  /\ UNCHANGED <<now, changed, entry, flight, mut, acked>>

Over(l, s) == flight' = IF flight[s] = l THEN [flight EXCEPT ![s] = Nobody] ELSE flight

(* Mutant: the life of an answer is counted twice over. *)
StoreForTwice(l, s) ==
  entry' = IF flight[s] = l
           THEN [entry EXCEPT ![s] = [version |-> read[l].version, until |-> now + Ttl + Ttl]]
           ELSE entry

(* Only the fetch that is still the current one stores its answer. *)
Store(l, s) ==
  entry' = IF flight[s] = l
           THEN [entry EXCEPT ![s] = [version |-> read[l].version, until |-> now + Ttl]]
           ELSE entry

FetchEnds(l) ==
  /\ Leads(l) /\ read[l].served
  /\ read' = [r \in Read |->
       IF r \in Sharing(l) THEN Return(read[r].source, read[r].floor, read[l].version)
       ELSE read[r]]
  /\ Store(l, read[l].source) /\ Over(l, read[l].source)
  /\ UNCHANGED <<now, changed, mut, acked>>

(* An unknown deployment, an unknown health value or no answer at all. *)
FetchFails(l) ==
  /\ Leads(l)
  /\ read' = [r \in Read |->
       IF r \in Sharing(l) THEN [Idle EXCEPT !.pc = "failed"] ELSE read[r]]
  /\ Over(l, read[l].source)
  /\ UNCHANGED <<now, changed, entry, mut, acked>>

(* No request is under way for longer than MaxFetch. *)
TimePasses ==
  /\ now < MaxTime
  /\ \A r \in Read : Leads(r) => now < read[r].since + MaxFetch
  /\ now' = now + 1
  /\ UNCHANGED <<changed, entry, flight, read, mut, acked>>

Next ==
  \/ \E m \in Mutation, kind \in Kinds, asked \in Requests : Send(m, kind, asked)
  \/ \E m \in Mutation :
       \/ Refuse(m) \/ Execute(m) \/ LoseAnswer(m)
       \/ \E success \in BOOLEAN : Answer(m, success)
  \/ \E r \in Read, s \in Source : Hit(r, s) \/ Join(r, s) \/ Fetch(r, s)
  \/ \E l \in Read : Serve(l) \/ FetchEnds(l) \/ FetchFails(l)
  \/ TimePasses

Spec == Init /\ [][Next]_vars

-----------------------------------------------------------------------------
Clock == 0 .. MaxTime

ReadState == [pc : {"idle", "waiting", "done", "failed"}, source : Source,
              lead : Read \cup {Nobody}, since : Clock, floor : Version,
              served : BOOLEAN, version : Version, missed : Clock]

MutationState == [pc : {"idle", "sent", "answered", "refused"}, kind : Kinds \cup {"none"},
                  asked : SUBSET Argument, carried : SUBSET Argument, done : 0 .. 2,
                  version : Version]

TypeOK ==
  /\ now \in Clock
  /\ changed \in Seq(Clock) /\ Current \in Version
  /\ entry \in [Source -> [version : Version, until : 0 .. MaxTime + Ttl]]
  /\ flight \in [Source -> Read \cup {Nobody}]
  /\ read \in [Read -> ReadState]
  /\ mut \in [Mutation -> MutationState]
  /\ acked \in Version

(* "Mutations MUST invalidate the corresponding entry on success": a read  *)
(* of the deployment that begins after a mutation was acknowledged shows   *)
(* it, whatever fetch was under way and whichever mutations overlapped.    *)
InfoShowsAcknowledged ==
  \A r \in Read : read[r].pc = "done" /\ read[r].source = "info" =>
    read[r].version >= read[r].floor

(* However a change came about (acknowledged, its answer lost, carried out *)
(* late or long after a restart was accepted), no read misses it for more  *)
(* than the life of an answer and the time of a request.                   *)
StalenessBounded ==
  \A r \in Read : read[r].pc = "done" => read[r].missed < Ttl + MaxFetch

(* The commands that name one of several targets (a block to rewind to,    *)
(* blocks to check, entries to clear) are sent with all that was asked:    *)
(* the client never has to choose and drops nothing without saying so.     *)
NothingAskedIsDropped ==
  \A m \in Mutation : mut[m].pc = "sent" => mut[m].carried = mut[m].asked
=============================================================================
