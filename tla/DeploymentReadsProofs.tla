----------------------- MODULE DeploymentReadsProofs -----------------------
(***************************************************************************)
(* Proofs about DeploymentReads, for any number of reads and mutations and *)
(* any bounds: a read through the deployment cache shows what was          *)
(* acknowledged before it began, no read is out of date for longer than    *)
(* the life of an answer and a request, and no argument of a tool is lost. *)
(***************************************************************************)
EXTENDS DeploymentReads, FiniteSetTheorems, TLAPS

(* Nobody knows of a version that does not exist yet. *)
Known ==
  /\ acked <= Current
  /\ \A m \in Mutation : mut[m].version <= Current
  /\ \A s \in Source : entry[s].version <= Current
  /\ \A r \in Read : read[r].version <= Current
  /\ \A i \in 1 .. Current : changed[i] <= now

(* The fetch that may be joined is under way for the cache it is kept for, *)
(* and whoever shares a fetch shares it through one cache.                 *)
Shared ==
  /\ \A s \in Source : flight[s] # Nobody => Leads(flight[s]) /\ read[flight[s]].source = s
  /\ \A r \in Read : Waiting(r) =>
       /\ read[r].lead \in Read /\ Leads(read[r].lead)
       /\ read[read[r].lead].source = read[r].source

(* What the deployment cache holds, and what the fetch that may be joined  *)
(* brings, is as new as every acknowledgement so far; what a read waits    *)
(* for is as new as those before it began.                                 *)
InfoNew ==
  /\ entry["info"].until > 0 => entry["info"].version >= acked
  /\ flight["info"] # Nobody /\ read[flight["info"]].served =>
       read[flight["info"]].version >= acked
  /\ \A r \in Read : Waiting(r) =>
       /\ read[r].floor <= acked
       /\ read[r].source = "info" /\ read[read[r].lead].served =>
            read[read[r].lead].version >= read[r].floor

(* How old a stored answer, and one that is on its way, can be.            *)
Young ==
  /\ \A s \in Source :
       /\ entry[s].until <= now + Ttl
       /\ entry[s].until > 0 /\ entry[s].version < Current =>
            changed[entry[s].version + 1] >= entry[s].until - Ttl - MaxFetch
  /\ \A l \in Read : Leads(l) =>
       /\ read[l].since <= now /\ now <= read[l].since + MaxFetch
       /\ read[l].served /\ read[l].version < Current =>
            changed[read[l].version + 1] >= read[l].since

IInv == TypeOK /\ Known /\ Shared /\ InfoNew /\ Young /\ InfoShowsAcknowledged
          /\ StalenessBounded

-----------------------------------------------------------------------------
LEMMA InitInv == Init => IInv
<1> SUFFICES ASSUME Init PROVE IInv
  OBVIOUS
<1>1. Idle \in ReadState /\ Idle.pc = "idle" /\ Idle.version = 0
  BY ReadsAssumption DEF Idle, ReadState, Source, Clock, Version
<1>2. \A m \in Mutation : mut[m] \in MutationState /\ mut[m].version = 0
  BY ReadsAssumption DEF Init, MutationState, Version
<1>3. \A s \in Source : entry[s].until = 0 /\ entry[s].version = 0 /\ flight[s] = Nobody
  BY DEF Init
<1>4. changed = <<>> /\ Current = 0 /\ now = 0 /\ acked = 0
  BY DEF Init, Current
<1>5. \A r \in Read : read[r] = Idle
  BY DEF Init
<1>6. TypeOK
  BY <1>1, <1>2, <1>4, ReadsAssumption DEF Init, TypeOK, Clock, Version
<1>7. Known
  BY <1>1, <1>2, <1>3, <1>4, <1>5 DEF Known
<1>8. Shared /\ InfoNew /\ Young
  BY <1>1, <1>3, <1>4, <1>5, ReadsAssumption
     DEF Shared, InfoNew, Young, Waiting, Leads, Source
<1>9. InfoShowsAcknowledged /\ StalenessBounded
  BY <1>1, <1>5 DEF InfoShowsAcknowledged, StalenessBounded
<1> QED
  BY <1>6, <1>7, <1>8, <1>9 DEF IInv

(* The types that the proofs below rest on, spelled out. *)
LEMMA Shapes ==
  ASSUME TypeOK
  PROVE  /\ now \in Nat /\ now <= MaxTime /\ acked \in Nat /\ acked <= MaxChanges
         /\ Current \in Nat /\ Current <= MaxChanges /\ Len(changed) = Current
         /\ DOMAIN changed = 1 .. Current
         /\ \A i \in 1 .. Current : changed[i] \in Nat
         /\ \A s \in Source : /\ entry[s].version \in Nat /\ entry[s].until \in Nat
                              /\ entry[s].version <= MaxChanges
                              /\ flight[s] \in Read \cup {Nobody}
         /\ \A r \in Read : /\ read[r] \in ReadState
                            /\ read[r].version \in Nat /\ read[r].version <= MaxChanges
                            /\ read[r].since \in Nat /\ read[r].floor \in Nat
                            /\ read[r].floor <= MaxChanges /\ read[r].missed \in Nat
                            /\ read[r].source \in Source
         /\ \A m \in Mutation : mut[m] \in MutationState /\ mut[m].version \in Nat
<1>1. /\ now \in Nat /\ now <= MaxTime /\ acked \in Nat /\ acked <= MaxChanges
      /\ Current \in Nat /\ Current <= MaxChanges
  BY ReadsAssumption DEF TypeOK, Clock, Version
<1>2. Len(changed) = Current /\ DOMAIN changed = 1 .. Current
      /\ \A i \in 1 .. Current : changed[i] \in Clock
  BY DEF TypeOK, Current
<1>3. \A i \in 1 .. Current : changed[i] \in Nat
  BY <1>2, ReadsAssumption DEF Clock
<1>4. \A s \in Source : /\ entry[s].version \in Nat /\ entry[s].until \in Nat
                        /\ entry[s].version <= MaxChanges
                        /\ flight[s] \in Read \cup {Nobody}
  BY ReadsAssumption DEF TypeOK, Version
<1>5. \A r \in Read : read[r] \in ReadState
  BY DEF TypeOK
<1>6. \A r \in Read : /\ read[r].version \in Nat /\ read[r].version <= MaxChanges
                      /\ read[r].since \in Nat /\ read[r].floor \in Nat
                      /\ read[r].floor <= MaxChanges /\ read[r].missed \in Nat
                      /\ read[r].source \in Source
  BY <1>5, ReadsAssumption DEF ReadState, Version, Clock
<1>7. \A m \in Mutation : mut[m] \in MutationState
  BY DEF TypeOK
<1>8. \A m \in Mutation : mut[m].version \in Version
  BY <1>7 DEF MutationState
<1>9. \A m \in Mutation : mut[m].version \in Nat
  BY <1>8, ReadsAssumption DEF Version
<1> QED
  BY <1>1, <1>2, <1>3, <1>4, <1>5, <1>6, <1>7, <1>9

(* How long a version has been out of date fits the clock. *)
LEMMA SupersededShape ==
  ASSUME TypeOK, Known, NEW v \in Nat
  PROVE  /\ Superseded(v) \in Clock
         /\ v >= Current => Superseded(v) = 0
         /\ v < Current => Superseded(v) = now - changed[v + 1] /\ changed[v + 1] \in Nat
<1>1. v < Current => v + 1 \in 1 .. Current
  BY Shapes
<1>2. v < Current => changed[v + 1] \in Nat /\ changed[v + 1] <= now
  BY <1>1, Shapes DEF Known
<1>3. now \in Nat /\ now <= MaxTime /\ Current \in Nat
  BY Shapes
<1> QED
  BY <1>2, <1>3, ReadsAssumption DEF Superseded, Clock

(* What a read returns. *)
LEMMA ReturnShape ==
  ASSUME TypeOK, Known, NEW s \in Source, NEW f \in Version, NEW v \in Version
  PROVE  /\ Return(s, f, v) \in ReadState
         /\ Return(s, f, v).pc = "done" /\ Return(s, f, v).source = s
         /\ Return(s, f, v).floor = f /\ Return(s, f, v).version = v
         /\ Return(s, f, v).missed = Superseded(v)
<1>1. v \in Nat /\ 0 \in Clock /\ 0 \in Version
  BY ReadsAssumption DEF Version, Clock
<1>2. Superseded(v) \in Clock
  BY <1>1, SupersededShape
<1> QED
  BY <1>1, <1>2 DEF Return, Idle, ReadState

-----------------------------------------------------------------------------
(* Steps that change nothing but the mutations. *)
LEMMA MutationSteps ==
  ASSUME IInv, UNCHANGED <<now, changed, entry, flight, read, acked>>,
         mut' \in [Mutation -> MutationState],
         \A m \in Mutation : mut'[m].version <= Current
  PROVE  IInv'
<1>1. TypeOK' /\ Known'
  BY DEF IInv, TypeOK, Known, Current, Version, Clock
<1>2. Shared' /\ InfoNew'
  BY DEF IInv, Shared, InfoNew, Waiting, Leads
<1>3. Young'
  BY DEF IInv, Young, Waiting, Leads, Current
<1>4. InfoShowsAcknowledged' /\ StalenessBounded'
  BY DEF IInv, InfoShowsAcknowledged, StalenessBounded
<1> QED
  BY <1>1, <1>2, <1>3, <1>4 DEF IInv

LEMMA SendInv ==
  ASSUME IInv, NEW m \in Mutation, NEW kind \in Kinds, NEW asked \in Requests,
         Send(m, kind, asked)
  PROVE  IInv'
<1> DEFINE new == [pc |-> "sent", kind |-> kind, asked |-> asked,
                   carried |-> Carried(kind, asked), done |-> 0, version |-> 0]
<1>1. asked \in SUBSET Argument
  BY ReadsAssumption
<1>2. Carried(kind, asked) \in SUBSET Argument
  <2>1. "by_hash" \in Argument /\ "by_number" \in Argument
    BY DEF Argument
  <2> QED
    BY <1>1, <2>1 DEF Carried
<1>3. 0 \in Version
  BY ReadsAssumption DEF Version
<1>4. new \in MutationState
  BY <1>1, <1>2, <1>3 DEF MutationState
<1>5. mut' = [mut EXCEPT ![m] = new]
  BY DEF Send
<1>6. new.version = 0
  OBVIOUS
<1> HIDE DEF new
<1>7. mut \in [Mutation -> MutationState]
  BY DEF IInv, TypeOK
<1>8. mut' \in [Mutation -> MutationState]
  BY <1>4, <1>5, <1>7
<1>9. \A n \in Mutation : mut'[n].version <= Current
  BY <1>5, <1>6, <1>7, Shapes DEF IInv, Known
<1> QED
  BY <1>8, <1>9, MutationSteps DEF Send

LEMMA RefuseInv ==
  ASSUME IInv, NEW m \in Mutation, Refuse(m)
  PROVE  IInv'
<1> DEFINE new == [mut[m] EXCEPT !.pc = "refused"]
<1>1. mut[m] \in MutationState
  BY Shapes DEF IInv
<1>2. new \in MutationState /\ new.version = mut[m].version
  BY <1>1 DEF MutationState
<1>3. mut' = [mut EXCEPT ![m] = new]
  BY DEF Refuse
<1> HIDE DEF new
<1>4. mut \in [Mutation -> MutationState]
  BY DEF IInv, TypeOK
<1>5. mut' \in [Mutation -> MutationState]
  BY <1>2, <1>3, <1>4
<1>6. \A n \in Mutation : mut'[n].version <= Current
  BY <1>2, <1>3, <1>4 DEF IInv, Known
<1> QED
  BY <1>5, <1>6, MutationSteps DEF Refuse

(* A mutation that was answered is forgotten but for its request. *)
LEMMA AnsweredShape ==
  ASSUME TypeOK, NEW m \in Mutation
  PROVE  /\ Answered(mut[m].kind, mut[m].done) \in MutationState
         /\ Answered(mut[m].kind, mut[m].done).version = 0
<1>1. mut[m] \in MutationState
  BY Shapes
<1>2. mut[m].kind \in Kinds \cup {"none"} /\ mut[m].done \in 0 .. 2
  BY <1>1 DEF MutationState
<1>3. 0 \in Version /\ {} \in SUBSET Argument
  BY ReadsAssumption DEF Version
<1> QED
  BY <1>2, <1>3 DEF Answered, MutationState

LEMMA LoseAnswerInv ==
  ASSUME IInv, NEW m \in Mutation, LoseAnswer(m)
  PROVE  IInv'
<1> DEFINE new == Answered(mut[m].kind, mut[m].done)
<1>1. new \in MutationState /\ new.version = 0
  BY AnsweredShape DEF IInv
<1>2. mut' = [mut EXCEPT ![m] = new]
  BY DEF LoseAnswer
<1> HIDE DEF new
<1>3. mut \in [Mutation -> MutationState]
  BY DEF IInv, TypeOK
<1>4. mut' \in [Mutation -> MutationState]
  BY <1>1, <1>2, <1>3
<1>5. \A n \in Mutation : mut'[n].version <= Current
  BY <1>1, <1>2, <1>3, Shapes DEF IInv, Known
<1> QED
  BY <1>4, <1>5, MutationSteps DEF LoseAnswer

-----------------------------------------------------------------------------
(* One more version: the others keep their place. *)
LEMMA AppendShape ==
  ASSUME TypeOK, Current < MaxChanges, changed' = Append(changed, now)
  PROVE  /\ changed' \in Seq(Clock) /\ Current' = Current + 1 /\ Current' \in Version
         /\ \A i \in 1 .. Current : changed'[i] = changed[i]
         /\ changed'[Current + 1] = now
<1>1. changed \in Seq(Clock) /\ now \in Clock
  BY DEF TypeOK
<1>2. Current \in Nat
  BY Shapes
<1>3. changed' \in Seq(Clock) /\ Len(changed') = Len(changed) + 1
  BY <1>1
<1>4. Current' = Current + 1
  BY <1>3 DEF Current
<1>5. Current' \in Version
  BY <1>2, <1>4, ReadsAssumption DEF Version
<1>6. \A i \in 1 .. Current : changed'[i] = changed[i]
  BY <1>1 DEF Current
<1>7. changed'[Current + 1] = now
  BY <1>1 DEF Current
<1> QED
  BY <1>3, <1>4, <1>5, <1>6, <1>7

LEMMA ExecuteInv ==
  ASSUME IInv, NEW m \in Mutation, Execute(m)
  PROVE  IInv'
<1> DEFINE new == [mut[m] EXCEPT !.done = @ + 1,
                                 !.version = IF mut[m].pc = "sent" THEN Current + 1 ELSE 0]
<1> USE DEF IInv
<1>1. /\ changed' = Append(changed, now) /\ Current < MaxChanges /\ mut[m].done < 2
      /\ UNCHANGED <<now, entry, flight, read, acked>>
  BY DEF Execute
<1>0. mut' = [mut EXCEPT ![m] = new]
  BY DEF Execute
<1>2. /\ changed' \in Seq(Clock) /\ Current' = Current + 1 /\ Current' \in Version
      /\ \A i \in 1 .. Current : changed'[i] = changed[i]
      /\ changed'[Current + 1] = now
  BY <1>1, AppendShape
<1>3. Current \in Nat /\ now \in Nat
  BY Shapes
<1>4. mut[m] \in MutationState
  BY Shapes
<1>5. new.version \in Version /\ new.version <= Current + 1
  <2>1. new.version = IF mut[m].pc = "sent" THEN Current + 1 ELSE 0
    BY <1>4 DEF MutationState
  <2> QED
    BY <1>2, <1>3, <2>1, ReadsAssumption DEF Version
<1>6. new \in MutationState
  <2>1. mut[m].done + 1 \in 0 .. 2
    BY <1>1, <1>4 DEF MutationState
  <2>2. (IF mut[m].pc = "sent" THEN Current + 1 ELSE 0) \in Version
    BY <1>2, <1>3, ReadsAssumption DEF Version
  <2> QED
    BY <1>4, <2>1, <2>2 DEF MutationState
<1> HIDE DEF new
<1>7. mut \in [Mutation -> MutationState]
  BY DEF TypeOK
<1>8. mut' \in [Mutation -> MutationState]
  BY <1>0, <1>6, <1>7
<1>9. TypeOK'
  BY <1>1, <1>2, <1>8 DEF TypeOK, Version, Clock
<1>10. Known'
  <2>1. \A n \in Mutation : mut'[n].version <= Current'
    <3>1. \A n \in Mutation : n # m => mut'[n].version <= Current /\ mut'[n].version \in Nat
      BY <1>0, <1>7, Shapes DEF Known
    <3>2. mut'[m].version <= Current + 1
      BY <1>0, <1>5, <1>7
    <3> QED
      BY <1>2, <1>3, <3>1, <3>2
  <2>2. acked' <= Current'
    BY <1>1, <1>2, <1>3, Shapes DEF Known
  <2>3. \A s \in Source : entry'[s].version <= Current'
    BY <1>1, <1>2, <1>3, Shapes DEF Known
  <2>4. \A r \in Read : read'[r].version <= Current'
    BY <1>1, <1>2, <1>3, Shapes DEF Known
  <2>5. \A i \in 1 .. Current' : changed'[i] <= now'
    <3> SUFFICES ASSUME NEW i \in 1 .. Current' PROVE changed'[i] <= now'
      OBVIOUS
    <3>1. i \in 1 .. Current \/ i = Current + 1
      BY <1>2, <1>3
    <3>2. CASE i \in 1 .. Current
      <4>1. changed'[i] = changed[i] /\ now' = now
        BY <1>1, <1>2, <3>2
      <4> QED
        BY <3>2, <4>1 DEF Known
    <3>3. CASE i = Current + 1
      <4>1. changed'[i] = now /\ now' = now
        BY <1>1, <1>2, <3>3
      <4> QED
        BY <1>3, <4>1
    <3> QED
      BY <3>1, <3>2, <3>3
  <2> QED
    BY <2>1, <2>2, <2>3, <2>4, <2>5 DEF Known
<1>11. Shared' /\ InfoNew'
  BY <1>1 DEF Shared, InfoNew, Waiting, Leads
<1>12. Young'
  <2>1. ASSUME NEW s \in Source
        PROVE  /\ entry'[s].until <= now' + Ttl
               /\ entry'[s].until > 0 /\ entry'[s].version < Current' =>
                    changed'[entry'[s].version + 1] >= entry'[s].until - Ttl - MaxFetch
    <3>1. /\ entry[s].version \in Nat /\ entry[s].until \in Nat
          /\ entry[s].version <= Current /\ entry[s].until <= now + Ttl
      BY Shapes DEF Known, Young
    <3>2. CASE entry[s].version < Current
      <4>1. entry[s].version + 1 \in 1 .. Current
        BY <1>3, <3>1, <3>2
      <4>2. changed'[entry[s].version + 1] = changed[entry[s].version + 1]
        BY <1>2, <4>1
      <4> QED
        BY <1>1, <3>1, <3>2, <4>2 DEF Young
    <3>3. CASE entry[s].version = Current
      <4>1. changed'[entry[s].version + 1] = now
        BY <1>2, <3>3
      <4> QED
        BY <1>1, <1>3, <3>1, <4>1, ReadsAssumption
    <3> QED
      BY <1>3, <3>1, <3>2, <3>3
  <2>2. ASSUME NEW l \in Read, Leads(l)'
        PROVE  /\ read'[l].since <= now' /\ now' <= read'[l].since + MaxFetch
               /\ read'[l].served /\ read'[l].version < Current' =>
                    changed'[read'[l].version + 1] >= read'[l].since
    <3>1. Leads(l)
      BY <1>1, <2>2 DEF Leads, Waiting
    <3>2. /\ read[l].version \in Nat /\ read[l].since \in Nat /\ read[l].version <= Current
          /\ read[l].since <= now /\ now <= read[l].since + MaxFetch
      BY <3>1, Shapes DEF Known, Young
    <3>3. CASE read[l].version < Current
      <4>1. read[l].version + 1 \in 1 .. Current
        BY <1>3, <3>2, <3>3
      <4>2. changed'[read[l].version + 1] = changed[read[l].version + 1]
        BY <1>2, <4>1
      <4> QED
        BY <1>1, <3>1, <3>2, <3>3, <4>2 DEF Young
    <3>4. CASE read[l].version = Current
      <4>1. changed'[read[l].version + 1] = now
        BY <1>2, <3>4
      <4> QED
        BY <1>1, <1>3, <3>2, <4>1
    <3> QED
      BY <1>3, <3>2, <3>3, <3>4
  <2> QED
    BY <2>1, <2>2 DEF Young
<1>13. InfoShowsAcknowledged' /\ StalenessBounded'
  BY <1>1 DEF InfoShowsAcknowledged, StalenessBounded
<1> QED
  BY <1>9, <1>10, <1>11, <1>12, <1>13

(* What an answer can leave of what is cached. *)
LEMMA ForgetShape ==
  ASSUME TypeOK, (Forget \/ UNCHANGED <<entry, flight>>)
  PROVE  /\ entry' \in [Source -> [version : Version, until : 0 .. MaxTime + Ttl]]
         /\ flight' \in [Source -> Read \cup {Nobody}]
         /\ \A s \in Source : /\ entry'[s].version = entry[s].version
                              /\ entry'[s].until = entry[s].until \/ entry'[s].until = 0
                              /\ flight'[s] = flight[s] \/ flight'[s] = Nobody
         /\ Forget => entry'["info"].until = 0 /\ flight'["info"] = Nobody
<1> DEFINE Entry == [version : Version, until : 0 .. MaxTime + Ttl]
           old == entry["info"]
           new == [old EXCEPT !.until = 0]
<1>1. "info" \in Source
  BY DEF Source
<1>2. entry \in [Source -> Entry] /\ flight \in [Source -> Read \cup {Nobody}]
  BY DEF TypeOK
<1>3. old \in Entry /\ 0 \in 0 .. MaxTime + Ttl
  BY <1>1, <1>2, ReadsAssumption
<1>4. new \in Entry /\ new.version = old.version /\ new.until = 0
  BY <1>3
<1>5. CASE Forget
  <2>1. entry' = [entry EXCEPT !["info"] = new]
        /\ flight' = [flight EXCEPT !["info"] = Nobody]
    BY <1>5 DEF Forget
  <2> HIDE DEF new, Entry
  <2>2. entry' \in [Source -> Entry] /\ flight' \in [Source -> Read \cup {Nobody}]
    BY <1>2, <1>4, <2>1
  <2>3. entry'["info"] = new /\ flight'["info"] = Nobody
    BY <1>1, <1>2, <2>1
  <2>4. \A s \in Source : s # "info" => entry'[s] = entry[s] /\ flight'[s] = flight[s]
    BY <1>2, <2>1
  <2> QED
    BY <1>4, <2>2, <2>3, <2>4 DEF Entry
<1>6. CASE UNCHANGED <<entry, flight>> /\ ~Forget
  BY <1>2, <1>6
<1> QED
  BY <1>5, <1>6

LEMMA AnswerInv ==
  ASSUME IInv, NEW m \in Mutation, NEW success \in BOOLEAN, Answer(m, success)
  PROVE  IInv'
<1> USE DEF IInv
<1> DEFINE new == Answered(mut[m].kind, mut[m].done)
           shown == success /\ mut[m].kind \in AckKinds \cup FinalKinds
<1>1. /\ mut' = [mut EXCEPT ![m] = new]
      /\ acked' = IF shown THEN Newer(mut[m].version) ELSE acked
      /\ UNCHANGED <<now, changed, read>>
  BY DEF Answer
<1>2. IF Invalidates(mut[m].kind, success) THEN Forget ELSE UNCHANGED <<entry, flight>>
  BY DEF Answer
<1>3. shown => Forget
  BY <1>2 DEF Invalidates
<1>4. Forget \/ UNCHANGED <<entry, flight>>
  BY <1>2
<1>5. /\ entry' \in [Source -> [version : Version, until : 0 .. MaxTime + Ttl]]
      /\ flight' \in [Source -> Read \cup {Nobody}]
      /\ \A s \in Source : /\ entry'[s].version = entry[s].version
                           /\ entry'[s].until = entry[s].until \/ entry'[s].until = 0
                           /\ flight'[s] = flight[s] \/ flight'[s] = Nobody
      /\ Forget => entry'["info"].until = 0 /\ flight'["info"] = Nobody
  BY <1>4, ForgetShape
<1>6. /\ now \in Nat /\ acked \in Nat /\ Current \in Nat /\ Current <= MaxChanges
      /\ mut[m].version \in Nat /\ mut[m].version <= Current /\ acked <= Current
  BY Shapes DEF Known
<1>7. acked' \in Nat /\ acked <= acked' /\ acked' <= Current
  BY <1>1, <1>6 DEF Newer
<1>8. new \in MutationState /\ new.version = 0
  BY AnsweredShape
<1>9. Current' = Current
  BY <1>1 DEF Current
<1>10. acked' = acked \/ Forget
  BY <1>1, <1>3
<1> HIDE DEF new, shown
<1>11. mut \in [Mutation -> MutationState]
  BY DEF TypeOK
<1>12. mut' \in [Mutation -> MutationState]
  BY <1>1, <1>8, <1>11
<1>13. TypeOK'
  <2>1. acked' \in Version
    BY <1>6, <1>7, ReadsAssumption DEF Version
  <2> QED
    BY <1>1, <1>5, <1>9, <1>12, <2>1 DEF TypeOK, Version, Clock
<1>14. Known'
  <2>1. \A n \in Mutation : mut'[n].version <= Current'
    BY <1>1, <1>6, <1>8, <1>9, <1>11 DEF Known
  <2> QED
    BY <1>1, <1>5, <1>7, <1>9, <2>1 DEF Known
<1>15. Shared'
  BY <1>1, <1>5 DEF Shared, Waiting, Leads
<1>16. InfoNew'
  <2>1. \A r \in Read : Waiting(r)' <=> Waiting(r)
    BY <1>1 DEF Waiting
  <2>2. \A r \in Read : Waiting(r)' => read'[r].floor <= acked'
    BY <1>1, <1>6, <1>7, <2>1, Shapes DEF InfoNew
  <2>3. \A r \in Read : Waiting(r)' => (read'[r].source = "info" /\ read'[read'[r].lead].served =>
                          read'[read'[r].lead].version >= read'[r].floor)
    BY <1>1, <2>1 DEF InfoNew
  <2>4. CASE Forget
    BY <1>5, <2>2, <2>3, <2>4 DEF InfoNew
  <2>5. CASE acked' = acked
    <3>1. entry'["info"].until > 0 => entry'["info"].version >= acked'
      BY <1>5, <2>5 DEF InfoNew, Source
    <3>2. flight'["info"] # Nobody /\ read'[flight'["info"]].served =>
            read'[flight'["info"]].version >= acked'
      BY <1>1, <1>5, <2>5 DEF InfoNew, Source
    <3> QED
      BY <2>2, <2>3, <3>1, <3>2 DEF InfoNew
  <2> QED
    BY <1>10, <2>4, <2>5
<1>17. Young'
  <2>1. \A s \in Source :
           /\ entry'[s].until <= now' + Ttl
           /\ entry'[s].until > 0 /\ entry'[s].version < Current' =>
                changed'[entry'[s].version + 1] >= entry'[s].until - Ttl - MaxFetch
    BY <1>1, <1>5, <1>6, <1>9, ReadsAssumption DEF Young
  <2>2. \A l \in Read : Leads(l)' => Leads(l)
    BY <1>1 DEF Leads, Waiting
  <2> QED
    BY <1>1, <1>9, <2>1, <2>2 DEF Young
<1>18. InfoShowsAcknowledged' /\ StalenessBounded'
  BY <1>1 DEF InfoShowsAcknowledged, StalenessBounded
<1> QED
  BY <1>13, <1>14, <1>15, <1>16, <1>17, <1>18

-----------------------------------------------------------------------------
(* A read that waits, or leads a fetch, after the step. *)
WaitsNext(r) == read'[r].pc = "waiting"

LeadsNext(r) == WaitsNext(r) /\ read'[r].lead = r

(* Nobody waits for a read that has not begun. *)
LEMMA IdleLeadsNobody ==
  ASSUME IInv, NEW r \in Read, read[r].pc = "idle"
  PROVE  /\ \A s \in Source : flight[s] # r
         /\ \A q \in Read : Waiting(q) => read[q].lead # r
         /\ ~Waiting(r) /\ ~Leads(r)
<1>1. r # Nobody
  BY ReadsAssumption
<1>2. ~Waiting(r) /\ ~Leads(r)
  BY DEF Waiting, Leads, WaitsNext, LeadsNext
<1> QED
  BY <1>1, <1>2 DEF IInv, Shared

(* Steps in which one read that had not begun changes. *)
LEMMA OneRead ==
  ASSUME TypeOK, NEW r \in Read, NEW new \in ReadState, read' = [read EXCEPT ![r] = new]
  PROVE  /\ read' \in [Read -> ReadState] /\ read'[r] = new
         /\ \A q \in Read : q # r => /\ read'[q] = read[q]
                                     /\ WaitsNext(q) <=> Waiting(q)
                                     /\ LeadsNext(q) <=> Leads(q)
<1>1. read \in [Read -> ReadState]
  BY DEF TypeOK
<1>2. read' \in [Read -> ReadState] /\ read'[r] = new
  BY <1>1
<1>3. \A q \in Read : q # r => read'[q] = read[q]
  BY <1>1
<1> QED
  BY <1>2, <1>3 DEF Waiting, Leads, WaitsNext, LeadsNext

LEMMA HitInv ==
  ASSUME IInv, NEW r \in Read, NEW s \in Source, Hit(r, s)
  PROVE  IInv'
<1> USE DEF IInv
<1> DEFINE new == Return(s, acked, entry[s].version)
<1>1. /\ read[r].pc = "idle" /\ entry[s].until > now
      /\ read' = [read EXCEPT ![r] = new]
      /\ UNCHANGED <<now, changed, entry, flight, mut, acked>>
  BY DEF Hit, Fresh
<1>2. acked \in Version /\ entry[s].version \in Version
  BY DEF TypeOK
<1>3. /\ new \in ReadState /\ new.pc = "done" /\ new.source = s /\ new.floor = acked
      /\ new.version = entry[s].version /\ new.missed = Superseded(entry[s].version)
  BY <1>2, ReturnShape
<1> HIDE DEF new
<1>4. /\ read' \in [Read -> ReadState] /\ read'[r] = new
      /\ \A q \in Read : q # r => /\ read'[q] = read[q]
                                  /\ WaitsNext(q) <=> Waiting(q)
                                  /\ LeadsNext(q) <=> Leads(q)
  BY <1>1, <1>3, OneRead
<1>5. /\ \A x \in Source : flight[x] # r
      /\ \A q \in Read : Waiting(q) => read[q].lead # r
  BY <1>1, IdleLeadsNobody
<1>6. ~WaitsNext(r) /\ ~LeadsNext(r)
  BY <1>3, <1>4 DEF Waiting, Leads, WaitsNext, LeadsNext
<1>7. Current' = Current
  BY <1>1 DEF Current
<1>8. TypeOK'
  BY <1>1, <1>4, <1>7 DEF TypeOK, Version, Clock
<1>9. Known'
  <2>1. \A q \in Read : read'[q].version <= Current
    BY <1>3, <1>4 DEF Known
  <2> QED
    BY <1>1, <1>7, <2>1 DEF Known
<1>10. Shared'
  <2>1. \A x \in Source : flight'[x] # Nobody =>
          LeadsNext(flight'[x]) /\ read'[flight'[x]].source = x
    <3> SUFFICES ASSUME NEW x \in Source, flight[x] # Nobody
                 PROVE  LeadsNext(flight[x]) /\ read'[flight[x]].source = x
      BY <1>1
    <3>1. flight[x] \in Read /\ flight[x] # r
      BY <1>5, Shapes
    <3> QED
      BY <1>4, <3>1 DEF Shared
  <2>2. ASSUME NEW q \in Read, WaitsNext(q)
        PROVE  /\ read'[q].lead \in Read /\ LeadsNext(read'[q].lead)
               /\ read'[read'[q].lead].source = read'[q].source
    <3>1. q # r /\ Waiting(q) /\ read'[q] = read[q]
      BY <1>4, <1>6, <2>2
    <3>2. read[q].lead \in Read /\ read[q].lead # r /\ Leads(read[q].lead)
      BY <1>5, <3>1 DEF Shared
    <3> QED
      BY <1>4, <3>1, <3>2 DEF Shared
  <2> QED
    BY <2>1, <2>2 DEF Shared, Leads, Waiting, WaitsNext, LeadsNext
<1>11. InfoNew'
  <2>1. entry'["info"].until > 0 => entry'["info"].version >= acked'
    BY <1>1 DEF InfoNew
  <2>2. flight'["info"] # Nobody /\ read'[flight'["info"]].served =>
          read'[flight'["info"]].version >= acked'
    <3>1. flight["info"] # Nobody => flight["info"] \in Read /\ flight["info"] # r
      BY <1>5, Shapes DEF Source
    <3> QED
      BY <1>1, <1>4, <3>1 DEF InfoNew
  <2>3. ASSUME NEW q \in Read, WaitsNext(q)
        PROVE  /\ read'[q].floor <= acked'
               /\ read'[q].source = "info" /\ read'[read'[q].lead].served =>
                    read'[read'[q].lead].version >= read'[q].floor
    <3>1. q # r /\ Waiting(q) /\ read'[q] = read[q]
      BY <1>4, <1>6, <2>3
    <3>2. read[q].lead \in Read /\ read[q].lead # r
      BY <1>5, <3>1 DEF Shared
    <3> QED
      BY <1>1, <1>4, <3>1, <3>2 DEF InfoNew
  <2> QED
    BY <2>1, <2>2, <2>3 DEF InfoNew, Waiting, WaitsNext
<1>12. Young'
  <2>1. ASSUME NEW l \in Read, LeadsNext(l)
        PROVE  /\ read'[l].since <= now' /\ now' <= read'[l].since + MaxFetch
               /\ read'[l].served /\ read'[l].version < Current' =>
                    changed'[read'[l].version + 1] >= read'[l].since
    <3>1. Leads(l) /\ read'[l] = read[l]
      BY <1>4, <1>6, <2>1
    <3> QED
      BY <1>1, <1>7, <3>1 DEF Young
  <2>2. \A x \in Source :
          /\ entry'[x].until <= now' + Ttl
          /\ entry'[x].until > 0 /\ entry'[x].version < Current' =>
               changed'[entry'[x].version + 1] >= entry'[x].until - Ttl - MaxFetch
    BY <1>1, <1>7 DEF Young
  <2> QED
    BY <2>1, <2>2 DEF Young, Leads, Waiting, WaitsNext, LeadsNext
<1>13. InfoShowsAcknowledged'
  <2>1. s = "info" => entry[s].version >= acked
    BY <1>1, Shapes DEF InfoNew
  <2> QED
    BY <1>3, <1>4, <2>1 DEF InfoShowsAcknowledged
<1>14. StalenessBounded'
  <2>1. Superseded(entry[s].version) < Ttl + MaxFetch
    <3> DEFINE v == entry[s].version
    <3>1. v \in Nat /\ now \in Nat /\ entry[s].until \in Nat
      BY Shapes
    <3>2. v >= Current => Superseded(v) = 0
      BY <3>1, SupersededShape
    <3>3. v < Current => Superseded(v) = now - changed[v + 1] /\ changed[v + 1] \in Nat
      BY <3>1, SupersededShape
    <3>4. v < Current => changed[v + 1] >= entry[s].until - Ttl - MaxFetch
      BY <1>1, <3>1 DEF Young
    <3>5. v < Current \/ v >= Current
      BY <3>1, Shapes
    <3> HIDE DEF v
    <3> QED
      BY <1>1, <3>1, <3>2, <3>3, <3>4, <3>5, ReadsAssumption DEF v
  <2> QED
    BY <1>3, <1>4, <2>1 DEF StalenessBounded
<1> QED
  BY <1>8, <1>9, <1>10, <1>11, <1>12, <1>13, <1>14

(* A read that begins to wait, by joining a fetch or by one of its own.    *)
LEMMA WaitInv ==
  ASSUME IInv, NEW r \in Read, NEW s \in Source, NEW l \in Read,
         read[r].pc = "idle", read' = [read EXCEPT ![r] = Started(s, l)],
         UNCHANGED <<now, changed, entry, mut, acked>>,
         flight' = [flight EXCEPT ![s] = l],
         l = r \/ l = flight[s]
  PROVE  IInv'
<1> USE DEF IInv
<1> DEFINE new == Started(s, l)
<1>1. /\ new \in ReadState /\ new.pc = "waiting" /\ new.source = s /\ new.lead = l
      /\ new.since = now /\ new.floor = acked /\ new.served = FALSE /\ new.version = 0
  <2>1. 0 \in Clock /\ 0 \in Version /\ now \in Clock /\ acked \in Version
    BY ReadsAssumption DEF TypeOK, Version, Clock
  <2> QED
    BY <2>1 DEF Started, Idle, ReadState
<1>2. /\ read' \in [Read -> ReadState] /\ read'[r] = new
      /\ \A q \in Read : q # r => /\ read'[q] = read[q]
                                  /\ WaitsNext(q) <=> Waiting(q)
                                  /\ LeadsNext(q) <=> Leads(q)
  <2> HIDE DEF new
  <2>1. read' = [read EXCEPT ![r] = new]
    BY DEF new
  <2> QED
    BY <1>1, <2>1, OneRead
<1> HIDE DEF new
<1>3. /\ \A x \in Source : flight[x] # r
      /\ \A q \in Read : Waiting(q) => read[q].lead # r
  BY IdleLeadsNobody
<1>4. Current' = Current
  BY DEF Current
<1>5. flight \in [Source -> Read \cup {Nobody}] /\ flight' \in [Source -> Read \cup {Nobody}]
      /\ flight'[s] = l /\ (\A x \in Source : x # s => flight'[x] = flight[x])
  BY DEF TypeOK
<1>6. WaitsNext(r) /\ (LeadsNext(r) <=> l = r)
  BY <1>1, <1>2 DEF Waiting, Leads, WaitsNext, LeadsNext
<1>7. LeadsNext(l) /\ read'[l].source = s
  <2>1. CASE l = r
    BY <1>1, <1>2, <1>6, <2>1
  <2>2. CASE l # r
    <3>1. l = flight[s] /\ l # Nobody
      BY <2>2, ReadsAssumption
    <3> QED
      BY <1>2, <2>2, <3>1 DEF Shared
  <2> QED
    BY <2>1, <2>2
<1>8. TypeOK'
  BY <1>2, <1>4, <1>5 DEF TypeOK, Version, Clock
<1>9. Known'
  <2>1. \A q \in Read : read'[q].version <= Current
    BY <1>1, <1>2, Shapes DEF Known
  <2> QED
    BY <1>4, <2>1 DEF Known
<1>10. ASSUME NEW x \in Source, flight'[x] # Nobody
       PROVE  /\ LeadsNext(flight'[x]) /\ read'[flight'[x]].source = x
              /\ flight'[x] # r => flight'[x] = flight[x] /\ read'[flight[x]] = read[flight[x]]
  <2>1. CASE x = s
    BY <1>2, <1>5, <1>7, <2>1
  <2>2. CASE x # s
    <3>1. flight'[x] = flight[x] /\ flight[x] \in Read /\ flight[x] # r
      BY <1>3, <1>5, <1>10, <2>2
    <3> QED
      BY <1>2, <1>10, <3>1 DEF Shared
  <2> QED
    BY <2>1, <2>2
<1>11. ASSUME NEW q \in Read, WaitsNext(q), q # r
       PROVE  /\ Waiting(q) /\ read'[q] = read[q] /\ read[q].lead \in Read
              /\ read[q].lead # r /\ read'[read[q].lead] = read[read[q].lead]
              /\ LeadsNext(read[q].lead)
              /\ read[read[q].lead].source = read[q].source
  <2>1. Waiting(q) /\ read'[q] = read[q]
    BY <1>2, <1>11
  <2>2. read[q].lead \in Read /\ read[q].lead # r /\ Leads(read[q].lead)
    BY <1>3, <2>1 DEF Shared
  <2> QED
    BY <1>2, <2>1, <2>2 DEF Shared
<1>12. Shared'
  <2>1. ASSUME NEW q \in Read, WaitsNext(q)
        PROVE  /\ read'[q].lead \in Read /\ LeadsNext(read'[q].lead)
               /\ read'[read'[q].lead].source = read'[q].source
    <3>1. CASE q = r
      BY <1>1, <1>2, <1>7, <3>1
    <3>2. CASE q # r
      BY <1>11, <2>1, <3>2
    <3> QED
      BY <3>1, <3>2
  <2> QED
    BY <1>10, <2>1 DEF Shared, Leads, Waiting, WaitsNext, LeadsNext
<1>13. InfoNew'
  <2>1. entry'["info"].until > 0 => entry'["info"].version >= acked'
    BY DEF InfoNew
  <2>2. flight'["info"] # Nobody /\ read'[flight'["info"]].served =>
          read'[flight'["info"]].version >= acked'
    <3>1. SUFFICES ASSUME flight'["info"] # Nobody, read'[flight'["info"]].served
                   PROVE  read'[flight'["info"]].version >= acked'
      OBVIOUS
    <3>2. flight'["info"] # r
      BY <1>1, <1>2, <3>1
    <3>3. flight'["info"] = flight["info"] /\ read'[flight["info"]] = read[flight["info"]]
      BY <1>10, <3>1, <3>2 DEF Source
    <3> QED
      BY <3>1, <3>3 DEF InfoNew
  <2>3. ASSUME NEW q \in Read, WaitsNext(q)
        PROVE  /\ read'[q].floor <= acked'
               /\ read'[q].source = "info" /\ read'[read'[q].lead].served =>
                    read'[read'[q].lead].version >= read'[q].floor
    <3>1. CASE q # r
      BY <1>11, <2>3, <3>1 DEF InfoNew
    <3>2. CASE q = r
      <4>1. read'[q].floor = acked /\ acked \in Nat /\ read'[q].source = s
            /\ read'[q].lead = l
        BY <1>1, <1>2, <3>2, Shapes
      <4>2. ASSUME s = "info", read'[l].served PROVE read'[l].version >= acked
        <5>1. l # r
          BY <1>1, <1>2, <4>2
        <5>2. l = flight["info"] /\ l # Nobody /\ read'[l] = read[l]
          BY <1>2, <4>2, <5>1, ReadsAssumption
        <5> QED
          BY <4>2, <5>2 DEF InfoNew
      <4> QED
        BY <4>1, <4>2
    <3> QED
      BY <3>1, <3>2
  <2> QED
    BY <2>1, <2>2, <2>3 DEF InfoNew, Waiting, WaitsNext
<1>14. Young'
  <2>1. ASSUME NEW k \in Read, LeadsNext(k)
        PROVE  /\ read'[k].since <= now' /\ now' <= read'[k].since + MaxFetch
               /\ read'[k].served /\ read'[k].version < Current' =>
                    changed'[read'[k].version + 1] >= read'[k].since
    <3>1. CASE k = r
      BY <1>1, <1>2, <3>1, Shapes, ReadsAssumption
    <3>2. CASE k # r
      <4>1. Leads(k) /\ read'[k] = read[k]
        BY <1>2, <2>1, <3>2
      <4> QED
        BY <1>4, <4>1 DEF Young
    <3> QED
      BY <3>1, <3>2
  <2>2. \A x \in Source :
          /\ entry'[x].until <= now' + Ttl
          /\ entry'[x].until > 0 /\ entry'[x].version < Current' =>
               changed'[entry'[x].version + 1] >= entry'[x].until - Ttl - MaxFetch
    BY <1>4 DEF Young
  <2> QED
    BY <2>1, <2>2 DEF Young, Leads, Waiting, WaitsNext, LeadsNext
<1>15. InfoShowsAcknowledged' /\ StalenessBounded'
  BY <1>1, <1>2 DEF InfoShowsAcknowledged, StalenessBounded
<1> QED
  BY <1>8, <1>9, <1>12, <1>13, <1>14, <1>15

LEMMA JoinInv ==
  ASSUME IInv, NEW r \in Read, NEW s \in Source, Join(r, s)
  PROVE  IInv'
<1>1. /\ read[r].pc = "idle" /\ flight[s] # Nobody
      /\ read' = [read EXCEPT ![r] = Started(s, flight[s])]
      /\ UNCHANGED <<now, changed, entry, flight, mut, acked>>
  BY DEF Join
<1>2. flight \in [Source -> Read \cup {Nobody}]
  BY DEF IInv, TypeOK
<1>3. flight[s] \in Read
  BY <1>1, <1>2
<1>4. flight' = [flight EXCEPT ![s] = flight[s]]
  BY <1>1, <1>2
<1> QED
  BY <1>1, <1>3, <1>4, WaitInv

LEMMA FetchInv ==
  ASSUME IInv, NEW r \in Read, NEW s \in Source, Fetch(r, s)
  PROVE  IInv'
<1>1. /\ read[r].pc = "idle" /\ read' = [read EXCEPT ![r] = Started(s, r)]
      /\ flight' = [flight EXCEPT ![s] = r]
      /\ UNCHANGED <<now, changed, entry, mut, acked>>
  BY DEF Fetch
<1> QED
  BY <1>1, WaitInv

-----------------------------------------------------------------------------
LEMMA ServeInv ==
  ASSUME IInv, NEW l \in Read, Serve(l)
  PROVE  IInv'
<1> USE DEF IInv
<1> DEFINE new == [read[l] EXCEPT !.served = TRUE, !.version = Current]
<1>1. /\ Leads(l) /\ read' = [read EXCEPT ![l].served = TRUE, ![l].version = Current]
      /\ UNCHANGED <<now, changed, entry, flight, mut, acked>>
  BY DEF Serve
<1>2. read \in [Read -> ReadState] /\ read[l] \in ReadState /\ Current \in Version
  BY DEF TypeOK
<1>3. /\ new \in ReadState /\ new.version = Current /\ new.pc = read[l].pc
      /\ new.source = read[l].source /\ new.lead = read[l].lead
      /\ new.since = read[l].since /\ new.floor = read[l].floor
      /\ new.missed = read[l].missed
  BY <1>2 DEF ReadState
<1>4. read' = [read EXCEPT ![l] = new]
  BY <1>1, <1>2
<1> HIDE DEF new
<1>5. read' \in [Read -> ReadState] /\ read'[l] = new
      /\ \A q \in Read : q # l => read'[q] = read[q]
  BY <1>2, <1>3, <1>4
<1>6. \A q \in Read : /\ read'[q].pc = read[q].pc /\ read'[q].source = read[q].source
                      /\ read'[q].lead = read[q].lead /\ read'[q].since = read[q].since
                      /\ read'[q].floor = read[q].floor
  BY <1>3, <1>5
<1>7. \A q \in Read : (WaitsNext(q) <=> Waiting(q)) /\ (LeadsNext(q) <=> Leads(q))
  BY <1>6 DEF WaitsNext, LeadsNext, Waiting, Leads
<1>8. Current' = Current
  BY <1>1 DEF Current
<1>9. Current \in Nat /\ acked \in Nat /\ acked <= Current
  BY Shapes DEF Known
<1>10. TypeOK'
  BY <1>1, <1>5, <1>8 DEF TypeOK, Version, Clock
<1>11. Known'
  <2>1. \A q \in Read : read'[q].version <= Current
    BY <1>3, <1>5, <1>9 DEF Known
  <2> QED
    BY <1>1, <1>8, <2>1 DEF Known
<1>12. Shared'
  <2>1. \A x \in Source : flight'[x] # Nobody =>
          LeadsNext(flight'[x]) /\ read'[flight'[x]].source = x
    <3> SUFFICES ASSUME NEW x \in Source, flight[x] # Nobody
                 PROVE  LeadsNext(flight[x]) /\ read'[flight[x]].source = x
      BY <1>1
    <3>1. flight[x] \in Read
      BY Shapes
    <3>2. Leads(flight[x]) /\ read[flight[x]].source = x
      BY DEF Shared
    <3> QED
      BY <1>6, <1>7, <3>1, <3>2
  <2>2. \A q \in Read : WaitsNext(q) =>
          /\ read'[q].lead \in Read /\ LeadsNext(read'[q].lead)
          /\ read'[read'[q].lead].source = read'[q].source
    BY <1>6, <1>7 DEF Shared
  <2> QED
    BY <2>1, <2>2 DEF Shared, Leads, Waiting, LeadsNext, WaitsNext
<1>13. InfoNew'
  <2>1. entry'["info"].until > 0 => entry'["info"].version >= acked'
    BY <1>1 DEF InfoNew
  <2>2. flight'["info"] # Nobody /\ read'[flight'["info"]].served =>
          read'[flight'["info"]].version >= acked'
    <3>1. flight["info"] # Nobody => flight["info"] \in Read
      BY Shapes DEF Source
    <3>2. CASE flight["info"] = l
      BY <1>1, <1>3, <1>5, <1>9, <3>2
    <3>3. CASE flight["info"] # l
      BY <1>1, <1>5, <3>1, <3>3 DEF InfoNew
    <3> QED
      BY <3>2, <3>3
  <2>3. ASSUME NEW q \in Read, WaitsNext(q)
        PROVE  /\ read'[q].floor <= acked'
               /\ read'[q].source = "info" /\ read'[read'[q].lead].served =>
                    read'[read'[q].lead].version >= read'[q].floor
    <3>1. Waiting(q) /\ read[q].lead \in Read /\ read[q].floor <= acked /\ read[q].floor \in Nat
      BY <1>7, <2>3, Shapes DEF Shared, InfoNew
    <3>2. CASE read[q].lead = l
      BY <1>1, <1>3, <1>5, <1>6, <1>9, <3>1, <3>2
    <3>3. CASE read[q].lead # l
      BY <1>1, <1>5, <1>6, <3>1, <3>3 DEF InfoNew
    <3> QED
      BY <3>2, <3>3
  <2> QED
    BY <2>1, <2>2, <2>3 DEF InfoNew, Waiting, WaitsNext
<1>14. Young'
  <2>1. ASSUME NEW k \in Read, LeadsNext(k)
        PROVE  /\ read'[k].since <= now' /\ now' <= read'[k].since + MaxFetch
               /\ read'[k].served /\ read'[k].version < Current' =>
                    changed'[read'[k].version + 1] >= read'[k].since
    <3>1. Leads(k)
      BY <1>7, <2>1
    <3>2. CASE k = l
      BY <1>1, <1>3, <1>5, <1>8, <1>9, <3>1, <3>2 DEF Young
    <3>3. CASE k # l
      BY <1>1, <1>5, <1>8, <3>1, <3>3 DEF Young
    <3> QED
      BY <3>2, <3>3
  <2>2. \A x \in Source :
          /\ entry'[x].until <= now' + Ttl
          /\ entry'[x].until > 0 /\ entry'[x].version < Current' =>
               changed'[entry'[x].version + 1] >= entry'[x].until - Ttl - MaxFetch
    BY <1>1, <1>8 DEF Young
  <2> QED
    BY <2>1, <2>2 DEF Young, Leads, Waiting, WaitsNext, LeadsNext
<1>15. InfoShowsAcknowledged' /\ StalenessBounded'
  <2>1. read[l].pc = "waiting"
    BY <1>1 DEF Leads, Waiting
  <2> QED
    BY <1>3, <1>5, <2>1 DEF InfoShowsAcknowledged, StalenessBounded
<1> QED
  BY <1>10, <1>11, <1>12, <1>13, <1>14, <1>15

(* A fetch that ends, with an answer that may be stored or with none: each *)
(* read that shares it settles, and nobody joins it any more.              *)
LEMMA SettleInv ==
  ASSUME IInv, NEW l \in Read, Leads(l), NEW to \in [Read -> ReadState],
         read' = [r \in Read |-> IF r \in Sharing(l) THEN to[r] ELSE read[r]],
         \A r \in Sharing(l) :
           /\ to[r].pc # "waiting" /\ to[r].version <= Current
           /\ to[r].pc = "done" =>
                /\ to[r].source = "info" => to[r].version >= to[r].floor
                /\ to[r].missed < Ttl + MaxFetch,
         Over(l, read[l].source),
         UNCHANGED <<now, changed, mut, acked>>,
         entry' \in [Source -> [version : Version, until : 0 .. MaxTime + Ttl]],
         \A s \in Source :
           \/ entry'[s] = entry[s]
           \/ /\ flight[s] = l /\ read[l].served /\ entry'[s].version = read[l].version
              /\ entry'[s].until = now + Ttl
  PROVE  IInv'
<1> USE DEF IInv
<1>1. /\ read' \in [Read -> ReadState]
      /\ \A r \in Sharing(l) : read'[r] = to[r]
      /\ \A r \in Read : r \notin Sharing(l) => read'[r] = read[r]
  <2>1. \A r \in Read : read[r] \in ReadState
    BY Shapes
  <2> QED
    BY <2>1 DEF Sharing
<1>2. ASSUME NEW k \in Read, Leads(k), k # l
      PROVE  read'[k] = read[k] /\ LeadsNext(k)
  <2>1. k \notin Sharing(l)
    BY <1>2 DEF Sharing, Leads
  <2> QED
    BY <1>1, <1>2, <2>1 DEF Leads, Waiting, LeadsNext, WaitsNext
<1>3. ASSUME NEW q \in Read, WaitsNext(q)
      PROVE  /\ Waiting(q) /\ read'[q] = read[q] /\ read[q].lead \in Read
             /\ Leads(read[q].lead) /\ read[q].lead # l
             /\ read[read[q].lead].source = read[q].source
  <2>1. q \notin Sharing(l)
    BY <1>1, <1>3 DEF WaitsNext
  <2>2. read'[q] = read[q] /\ Waiting(q)
    BY <1>1, <1>3, <2>1 DEF WaitsNext, Waiting
  <2>3. read[q].lead # l
    BY <2>1, <2>2 DEF Sharing
  <2> QED
    BY <2>2, <2>3 DEF Shared
<1>4. flight' \in [Source -> Read \cup {Nobody}]
  BY DEF Over, TypeOK
<1>5. ASSUME NEW x \in Source, flight'[x] # Nobody
      PROVE  /\ flight'[x] = flight[x] /\ flight[x] \in Read /\ flight[x] # l
             /\ Leads(flight[x]) /\ read[flight[x]].source = x
  <2>1. flight \in [Source -> Read \cup {Nobody}]
    BY DEF TypeOK
  <2>2. read[l].source \in Source
    BY Shapes
  <2>3. flight'[x] = flight[x] /\ ~(x = read[l].source /\ flight[x] = l)
    BY <1>5, <2>1, <2>2 DEF Over
  <2>4. flight[x] # Nobody /\ flight[x] \in Read
    BY <1>5, <2>1, <2>3
  <2>5. Leads(flight[x]) /\ read[flight[x]].source = x
    BY <2>4 DEF Shared
  <2> QED
    BY <2>3, <2>4, <2>5
<1>6. Current' = Current
  BY DEF Current
<1>7. /\ now \in Nat /\ Current \in Nat /\ read[l].version \in Nat /\ read[l].since \in Nat
      /\ read[l].version <= Current /\ read[l].source \in Source
  BY Shapes DEF Known
<1>8. TypeOK'
  BY <1>1, <1>4, <1>6 DEF TypeOK, Version, Clock
<1>9. Known'
  <2>1. \A q \in Read : read'[q].version <= Current
    BY <1>1 DEF Known
  <2>2. \A s \in Source : entry'[s].version <= Current
    BY <1>7 DEF Known
  <2> QED
    BY <1>6, <2>1, <2>2 DEF Known
<1>10. Shared'
  <2>1. \A x \in Source : flight'[x] # Nobody =>
          LeadsNext(flight'[x]) /\ read'[flight'[x]].source = x
    BY <1>2, <1>5
  <2>2. \A q \in Read : WaitsNext(q) =>
          /\ read'[q].lead \in Read /\ LeadsNext(read'[q].lead)
          /\ read'[read'[q].lead].source = read'[q].source
    BY <1>2, <1>3
  <2> QED
    BY <2>1, <2>2 DEF Shared, Leads, Waiting, LeadsNext, WaitsNext
<1>11. InfoNew'
  <2>1. entry'["info"].until > 0 => entry'["info"].version >= acked'
    <3>1. CASE entry'["info"] = entry["info"]
      BY <3>1 DEF InfoNew
    <3>2. CASE flight["info"] = l /\ read[l].served /\ entry'["info"].version = read[l].version
      <4>1. l # Nobody
        BY ReadsAssumption
      <4> QED
        BY <3>2, <4>1 DEF InfoNew
    <3> QED
      BY <3>1, <3>2 DEF Source
  <2>2. flight'["info"] # Nobody /\ read'[flight'["info"]].served =>
          read'[flight'["info"]].version >= acked'
    <3>1. flight'["info"] # Nobody =>
            flight'["info"] = flight["info"] /\ read'[flight["info"]] = read[flight["info"]]
      BY <1>2, <1>5 DEF Source
    <3> QED
      BY <3>1 DEF InfoNew
  <2>3. \A q \in Read : WaitsNext(q) =>
           /\ read'[q].floor <= acked'
           /\ read'[q].source = "info" /\ read'[read'[q].lead].served =>
                read'[read'[q].lead].version >= read'[q].floor
    BY <1>2, <1>3 DEF InfoNew
  <2> QED
    BY <2>1, <2>2, <2>3 DEF InfoNew, Waiting, WaitsNext
<1>12. Young'
  <2>1. ASSUME NEW k \in Read, LeadsNext(k)
        PROVE  /\ read'[k].since <= now' /\ now' <= read'[k].since + MaxFetch
               /\ read'[k].served /\ read'[k].version < Current' =>
                    changed'[read'[k].version + 1] >= read'[k].since
    <3>1. Leads(k) /\ read'[k] = read[k]
      BY <1>3, <2>1 DEF LeadsNext, Leads
    <3> QED
      BY <1>6, <3>1 DEF Young
  <2>2. ASSUME NEW x \in Source
        PROVE  /\ entry'[x].until <= now' + Ttl
               /\ entry'[x].until > 0 /\ entry'[x].version < Current' =>
                    changed'[entry'[x].version + 1] >= entry'[x].until - Ttl - MaxFetch
    <3>1. CASE entry'[x] = entry[x]
      BY <1>6, <3>1 DEF Young
    <3>2. CASE read[l].served /\ entry'[x].version = read[l].version
               /\ entry'[x].until = now + Ttl
      <4>1. read[l].version < Current =>
              changed[read[l].version + 1] >= read[l].since
        BY <3>2 DEF Young
      <4>2. now <= read[l].since + MaxFetch
        BY DEF Young
      <4>3. read[l].version < Current => changed[read[l].version + 1] \in Nat
        BY <1>7, SupersededShape
      <4> QED
        BY <1>6, <1>7, <3>2, <4>1, <4>2, <4>3, ReadsAssumption
    <3> QED
      BY <2>2, <3>1, <3>2
  <2> QED
    BY <2>1, <2>2 DEF Young, Leads, Waiting, WaitsNext, LeadsNext
<1>13. InfoShowsAcknowledged' /\ StalenessBounded'
  BY <1>1 DEF InfoShowsAcknowledged, StalenessBounded
<1> QED
  BY <1>8, <1>9, <1>10, <1>11, <1>12, <1>13

LEMMA FetchEndsInv ==
  ASSUME IInv, NEW l \in Read, FetchEnds(l)
  PROVE  IInv'
<1> DEFINE v == read[l].version
           src == read[l].source
           to == [r \in Read |-> IF r \in Sharing(l)
                                 THEN Return(read[r].source, read[r].floor, v) ELSE read[r]]
<1>1. /\ Leads(l) /\ read[l].served /\ read' = to
      /\ Store(l, src) /\ Over(l, src)
      /\ UNCHANGED <<now, changed, mut, acked>>
  BY DEF FetchEnds
<1>2. TypeOK /\ Known /\ Shared /\ InfoNew /\ Young
  BY DEF IInv
<1>3. /\ \A r \in Read : read[r] \in ReadState /\ read[r].source \in Source
                         /\ read[r].floor \in Version
      /\ v \in Version /\ v \in Nat /\ v <= Current
  BY <1>2, Shapes DEF ReadState, Known
<1>4. \A r \in Sharing(l) :
        /\ to[r] \in ReadState /\ to[r].pc = "done" /\ to[r].source = read[r].source
        /\ to[r].floor = read[r].floor /\ to[r].version = v /\ to[r].missed = Superseded(v)
  BY <1>2, <1>3, ReturnShape DEF Sharing
<1>5. to \in [Read -> ReadState]
  BY <1>3, <1>4
<1>6. read' = [r \in Read |-> IF r \in Sharing(l) THEN to[r] ELSE read[r]]
  BY <1>1
<1>7. Superseded(v) < Ttl + MaxFetch
  <2>1. /\ v >= Current => Superseded(v) = 0
        /\ v < Current => Superseded(v) = now - changed[v + 1] /\ changed[v + 1] \in Nat
    BY <1>2, <1>3, SupersededShape
  <2>2. now <= read[l].since + MaxFetch
    BY <1>1, <1>2 DEF Young
  <2>3. v < Current => changed[v + 1] >= read[l].since
    BY <1>1, <1>2 DEF Young
  <2>4. /\ now \in Nat /\ Current \in Nat /\ read[l].since \in Nat
    BY <1>2, Shapes
  <2> HIDE DEF v, to, src
  <2> QED
    BY <1>3, <2>1, <2>2, <2>3, <2>4, ReadsAssumption
<1>8. \A r \in Sharing(l) :
        /\ to[r].pc # "waiting" /\ to[r].version <= Current
        /\ to[r].pc = "done" =>
             /\ to[r].source = "info" => to[r].version >= to[r].floor
             /\ to[r].missed < Ttl + MaxFetch
  <2>1. \A r \in Sharing(l) : read[r].source = "info" => v >= read[r].floor
    BY <1>1, <1>2 DEF Sharing, InfoNew
  <2> HIDE DEF v, to, src
  <2> QED
    BY <1>3, <1>4, <1>7, <2>1
<1>9. /\ entry' \in [Source -> [version : Version, until : 0 .. MaxTime + Ttl]]
      /\ \A s \in Source :
           \/ entry'[s] = entry[s]
           \/ /\ flight[s] = l /\ read[l].served /\ entry'[s].version = read[l].version
              /\ entry'[s].until = now + Ttl
  <2>1. src \in Source /\ v \in Version /\ now + Ttl \in 0 .. MaxTime + Ttl
    BY <1>2, <1>3, Shapes, ReadsAssumption
  <2>2. entry \in [Source -> [version : Version, until : 0 .. MaxTime + Ttl]]
    BY <1>2 DEF TypeOK
  <2> HIDE DEF to, src
  <2> QED
    BY <1>1, <2>1, <2>2 DEF Store
<1> HIDE DEF to
<1> QED
  BY <1>1, <1>5, <1>6, <1>8, <1>9, SettleInv

LEMMA FetchFailsInv ==
  ASSUME IInv, NEW l \in Read, FetchFails(l)
  PROVE  IInv'
<1> DEFINE failed == [Idle EXCEPT !.pc = "failed"]
           to == [r \in Read |-> failed]
<1>1. /\ Leads(l) /\ Over(l, read[l].source)
      /\ read' = [r \in Read |-> IF r \in Sharing(l) THEN failed ELSE read[r]]
      /\ UNCHANGED <<now, changed, entry, mut, acked>>
  BY DEF FetchFails
<1>2. failed \in ReadState /\ failed.pc = "failed" /\ failed.version = 0
  <2>1. 0 \in Clock /\ 0 \in Version
    BY ReadsAssumption DEF Clock, Version
  <2> QED
    BY <2>1 DEF Idle, ReadState, Source
<1> HIDE DEF failed
<1>3. to \in [Read -> ReadState] /\ \A r \in Sharing(l) : to[r] = failed
  BY <1>2 DEF Sharing
<1>4. read' = [r \in Read |-> IF r \in Sharing(l) THEN to[r] ELSE read[r]]
  BY <1>1
<1> HIDE DEF to
<1>5. TypeOK /\ 0 <= Current
  BY Shapes DEF IInv
<1>6. \A r \in Sharing(l) : to[r].pc = "failed" /\ to[r].version <= Current
  BY <1>2, <1>3, <1>5
<1>7. /\ entry' \in [Source -> [version : Version, until : 0 .. MaxTime + Ttl]]
      /\ \A s \in Source : entry'[s] = entry[s]
  BY <1>1, <1>5 DEF TypeOK
<1> QED
  BY <1>1, <1>3, <1>4, <1>6, <1>7, SettleInv

LEMMA TimePassesInv ==
  ASSUME IInv, TimePasses
  PROVE  IInv'
<1> USE DEF IInv
<1>1. /\ now < MaxTime /\ now' = now + 1
      /\ \A r \in Read : Leads(r) => now < read[r].since + MaxFetch
      /\ UNCHANGED <<changed, entry, flight, read, mut, acked>>
  BY DEF TimePasses
<1>2. now \in Nat /\ now' \in Nat /\ now <= now'
  BY <1>1, Shapes
<1>3. Current' = Current
  BY <1>1 DEF Current
<1>4. TypeOK'
  <2>1. now' \in Clock
    BY <1>1, <1>2, ReadsAssumption DEF Clock
  <2> QED
    BY <1>1, <1>3, <2>1 DEF TypeOK, Version, Clock
<1>5. Known'
  <2>1. \A i \in 1 .. Current : changed[i] \in Nat /\ changed[i] <= now
    BY Shapes DEF Known
  <2>2. \A i \in 1 .. Current : changed[i] <= now'
    BY <1>2, <2>1
  <2> QED
    BY <1>1, <1>3, <2>2 DEF Known
<1>6. Shared' /\ InfoNew'
  BY <1>1 DEF Shared, InfoNew, Waiting, Leads
<1>7. Young'
  <2>1. ASSUME NEW l \in Read, Leads(l)
        PROVE  /\ read[l].since <= now' /\ now' <= read[l].since + MaxFetch
               /\ read[l].served /\ read[l].version < Current =>
                    changed[read[l].version + 1] >= read[l].since
    <3>1. read[l].since \in Nat /\ read[l].since <= now
      BY <2>1, Shapes DEF Young
    <3>2. now' <= read[l].since + MaxFetch
      BY <1>1, <1>2, <2>1, <3>1, ReadsAssumption
    <3> QED
      BY <1>2, <2>1, <3>1, <3>2 DEF Young
  <2>2. ASSUME NEW x \in Source
        PROVE  /\ entry[x].until <= now' + Ttl
               /\ entry[x].until > 0 /\ entry[x].version < Current =>
                    changed[entry[x].version + 1] >= entry[x].until - Ttl - MaxFetch
    <3>1. entry[x].until \in Nat /\ entry[x].until <= now + Ttl
      BY Shapes DEF Young
    <3>2. entry[x].until <= now' + Ttl
      BY <1>1, <1>2, <3>1, ReadsAssumption
    <3> QED
      BY <3>2 DEF Young
  <2> QED
    BY <1>1, <1>3, <2>1, <2>2 DEF Young, Leads, Waiting
<1>8. InfoShowsAcknowledged' /\ StalenessBounded'
  BY <1>1 DEF InfoShowsAcknowledged, StalenessBounded
<1> QED
  BY <1>4, <1>5, <1>6, <1>7, <1>8

LEMMA NextInv == IInv /\ [Next]_vars => IInv'
<1> SUFFICES ASSUME IInv, [Next]_vars PROVE IInv'
  OBVIOUS
<1>1. CASE \E m \in Mutation, kind \in Kinds, asked \in Requests : Send(m, kind, asked)
  BY <1>1, SendInv
<1>2. CASE \E m \in Mutation : Refuse(m) \/ Execute(m) \/ LoseAnswer(m)
  BY <1>2, RefuseInv, ExecuteInv, LoseAnswerInv
<1>3. CASE \E m \in Mutation, success \in BOOLEAN : Answer(m, success)
  BY <1>3, AnswerInv
<1>4. CASE \E r \in Read, s \in Source : Hit(r, s) \/ Join(r, s) \/ Fetch(r, s)
  BY <1>4, HitInv, JoinInv, FetchInv
<1>5. CASE \E l \in Read : Serve(l) \/ FetchEnds(l) \/ FetchFails(l)
  BY <1>5, ServeInv, FetchEndsInv, FetchFailsInv
<1>6. CASE TimePasses
  BY <1>6, TimePassesInv
<1>7. CASE UNCHANGED vars
  <2>1. mut \in [Mutation -> MutationState] /\ \A m \in Mutation : mut[m].version <= Current
    BY DEF IInv, TypeOK, Known
  <2> QED
    BY <1>7, <2>1, MutationSteps DEF vars
<1> QED
  BY <1>1, <1>2, <1>3, <1>4, <1>5, <1>6, <1>7 DEF Next

(* The state of the reads, the caches and the mutations keeps its type.    *)
THEOREM TypeCorrect == Spec => []TypeOK
<1>1. IInv => TypeOK
  BY DEF IInv
<1> QED
  BY InitInv, NextInv, <1>1, PTL DEF Spec

(* A read of the deployment that begins after a mutation was acknowledged  *)
(* shows it: invalidateDeployment in clients/graphman.ts drops both what   *)
(* is stored and the fetch under way, which then stores nothing.           *)
THEOREM AcknowledgedIsShown == Spec => []InfoShowsAcknowledged
<1>1. IInv => InfoShowsAcknowledged
  BY DEF IInv
<1> QED
  BY InitInv, NextInv, <1>1, PTL DEF Spec

(* No read of either cache misses a change for longer than the life of an  *)
(* answer and the time of a request, however the change came about: the    *)
(* cached life in clients/graphman.ts and clients/graph-node.ts.           *)
THEOREM StalenessIsBounded == Spec => []StalenessBounded
<1>1. IInv => StalenessBounded
  BY DEF IInv
<1> QED
  BY InitInv, NextInv, <1>1, PTL DEF Spec

-----------------------------------------------------------------------------
(* Of two different methods of check_blocks the schema takes one. *)
LEMMA OneMode ==
  ASSUME NEW asked, NEW modes, IsFiniteSet(modes), ExactlyOne(asked, modes),
         NEW x \in asked \cap modes, NEW y \in asked \cap modes
  PROVE  x = y
<1>1. IsFiniteSet(asked \cap modes)
  BY FS_Subset
<1>2. \E z : asked \cap modes = {z}
  BY <1>1, FS_Singleton DEF ExactlyOne
<1> QED
  BY <1>2

(* What the schemas take, the client passes on.                            *)
LEMMA AcceptedIsCarried ==
  ASSUME NEW kind, NEW asked, Accepted(kind, asked)
  PROVE  Carried(kind, asked) = asked
<1> DEFINE modes == {"by_hash", "by_number", "by_range"}
<1>1. IsFiniteSet(modes)
  <2>1. modes = (({} \cup {"by_hash"}) \cup {"by_number"}) \cup {"by_range"}
    OBVIOUS
  <2>2. IsFiniteSet({})
    BY FS_EmptySet
  <2> HIDE DEF modes
  <2> QED
    BY <2>1, <2>2, FS_AddElement
<1>2. CASE kind # "check_blocks"
  BY <1>2 DEF Carried
<1>3. CASE kind = "check_blocks"
  <2>1. /\ asked \subseteq {"by_hash", "by_number", "by_range", "from", "to"}
        /\ ExactlyOne(asked, modes)
        /\ asked \cap {"from", "to"} # {} => "by_range" \in asked
    BY <1>3 DEF Accepted
  <2>2. CASE "by_hash" \in asked
    <3>1. "by_number" \notin asked /\ "by_range" \notin asked
      BY <1>1, <2>1, <2>2, OneMode
    <3>2. asked = {"by_hash"}
      BY <2>1, <2>2, <3>1
    <3> QED
      BY <1>3, <2>2, <3>2 DEF Carried
  <2>3. CASE "by_hash" \notin asked /\ "by_number" \in asked
    <3>1. "by_range" \notin asked
      BY <1>1, <2>1, <2>3, OneMode
    <3>2. asked = {"by_number"}
      BY <2>1, <2>3, <3>1
    <3> QED
      BY <1>3, <2>3, <3>2 DEF Carried
  <2>4. CASE "by_hash" \notin asked /\ "by_number" \notin asked
    BY <1>3, <2>4 DEF Carried
  <2> QED
    BY <2>2, <2>3, <2>4
<1> QED
  BY <1>2, <1>3

(* The commands that name one of several targets are sent with all that    *)
(* was asked: the refinements of tools/graphman-tools.ts leave the choice  *)
(* of checkBlocks in clients/graphman.ts nothing to choose from.           *)
THEOREM AskedIsCarried == Spec => []NothingAskedIsDropped
<1> DEFINE Typed == mut \in [Mutation -> MutationState]
<1>1. Init => NothingAskedIsDropped
  BY DEF Init, NothingAskedIsDropped
<1>2. ASSUME NothingAskedIsDropped, Typed, [Next]_vars
      PROVE  NothingAskedIsDropped'
  <2>1. CASE mut' = mut
    BY <1>2, <2>1 DEF NothingAskedIsDropped
  <2>2. ASSUME NEW m \in Mutation, NEW kind \in Kinds, NEW asked \in Requests,
               Send(m, kind, asked)
        PROVE  NothingAskedIsDropped'
    <3>1. Carried(kind, asked) = asked
      BY <2>2, AcceptedIsCarried DEF Send
    <3>2. mut'[m].carried = Carried(kind, asked) /\ mut'[m].asked = asked
      BY <1>2, <2>2 DEF Send
    <3>3. \A n \in Mutation : n # m => mut'[n] = mut[n]
      BY <1>2, <2>2 DEF Send
    <3> QED
      BY <1>2, <3>1, <3>2, <3>3 DEF NothingAskedIsDropped
  <2>3. ASSUME NEW m \in Mutation, Refuse(m)
        PROVE  NothingAskedIsDropped'
    BY <1>2, <2>3 DEF Refuse, NothingAskedIsDropped, MutationState
  <2>4. ASSUME NEW m \in Mutation, Execute(m)
        PROVE  NothingAskedIsDropped'
    <3>1. mut[m] \in MutationState
      BY <1>2
    <3>2. /\ mut'[m].carried = mut[m].carried /\ mut'[m].asked = mut[m].asked
          /\ mut'[m].pc = mut[m].pc
      BY <1>2, <2>4, <3>1 DEF Execute, MutationState
    <3>3. \A n \in Mutation : n # m => mut'[n] = mut[n]
      BY <1>2, <2>4 DEF Execute
    <3> QED
      BY <1>2, <3>2, <3>3 DEF NothingAskedIsDropped
  <2>5. ASSUME NEW m \in Mutation, NEW success \in BOOLEAN,
               Answer(m, success) \/ LoseAnswer(m)
        PROVE  NothingAskedIsDropped'
    <3>1. mut' = [mut EXCEPT ![m] = Answered(mut[m].kind, mut[m].done)]
      BY <2>5 DEF Answer, LoseAnswer
    <3>2. Answered(mut[m].kind, mut[m].done).pc = "answered"
      BY DEF Answered
    <3>3. mut'[m].pc = "answered" /\ \A n \in Mutation : n # m => mut'[n] = mut[n]
      BY <1>2, <3>1, <3>2
    <3> QED
      BY <1>2, <3>3 DEF NothingAskedIsDropped
  <2>6. CASE \E r \in Read, s \in Source : Hit(r, s) \/ Join(r, s) \/ Fetch(r, s)
    BY <2>1, <2>6 DEF Hit, Join, Fetch
  <2>7. CASE \E l \in Read : Serve(l) \/ FetchEnds(l) \/ FetchFails(l)
    BY <2>1, <2>7 DEF Serve, FetchEnds, FetchFails
  <2>8. CASE TimePasses \/ UNCHANGED vars
    BY <2>1, <2>8 DEF TimePasses, vars
  <2> QED
    BY <1>2, <2>2, <2>3, <2>4, <2>5, <2>6, <2>7, <2>8 DEF Next
<1>3. TypeOK => Typed
  BY DEF TypeOK
<1> QED
  BY <1>1, <1>2, <1>3, TypeCorrect, PTL DEF Spec

=============================================================================
