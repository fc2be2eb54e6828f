------------------------ MODULE HealthMonitorProofs ------------------------
(***************************************************************************)
(* Proofs about HealthMonitor, for any allocations, statuses and epochs,   *)
(* and whatever fails, flips or expires while a check runs.                *)
(***************************************************************************)
EXTENDS HealthMonitor, TLAPS

(* What a classification has read at each of its stages. *)
StageInv ==
  \A a \in Allocation :
    /\ stage[a] \in {"status", "rejected"} => seen[a] = NotRead
    /\ stage[a] = "row" => seen[a] # NotRead
    /\ stage[a] = "epoch" => HasChain(seen[a]) /\ judged > 0

(* A start block is that of the judged epoch. *)
StartInv ==
  \A a \in Allocation : start[a] # Unknown =>
    stage[a] = "row" /\ HasChain(seen[a]) /\ judged > 0 /\ start[a] = StartOf(a)

(* Where the run is. *)
PhaseInv ==
  /\ pc \in {"timing", "list"} => listed = {}
  /\ asked # {} => pc \in {"recover", "done", "thrown"}
  /\ pc \in {"recover", "done"} => AllSettled
  /\ pc \in {"recover", "done"} /\ (\E a \in listed : stage[a] = "rejected") => "classification" \in errors
  /\ pc \in {"classify", "recover", "done"} /\ listed # Allocation =>
       warnings # {} \/ "allocations" \in errors \/ moved
  /\ urgent => judged > 0

(* The cache keeps what an allocation was classified by, until it expires. *)
CacheInv ==
  \A a \in listed : seen[a] # NotRead /\ deploymentOf[a] \notin expired => cached[deploymentOf[a]] = seen[a]

(* ... and the recovery is planned by the same. *)
AgainInv ==
  \A a \in listed : seen[a] # NotRead /\ deploymentOf[a] \in asked \ expired => again[deploymentOf[a]] = seen[a]

IInv == TypeOK /\ StageInv /\ StartInv /\ PhaseInv /\ CacheInv /\ AgainInv /\ NoReportAfterAbort

-----------------------------------------------------------------------------
LEMMA ChainOfRow == \A s : HasChain(s) => s \in Row /\ Len(s.chains) \in Nat \ {0} /\ Chain(s) \in Network
<1> TAKE s
<1> HAVE HasChain(s)
<1> DEFINE C == [network : Network, latest : Block, healthy : Block]
<1>1. s \in Row /\ s.chains \in Seq(C) /\ s.chains # <<>>
  BY HealthAssumption DEF HasChain, RowRecord
<1>2. Len(s.chains) \in Nat \ {0} /\ s.chains[1] \in C
  <2> HIDE DEF C
  <2> QED
    BY <1>1
<1>3. s.chains[1].network \in Network
  BY <1>2
<1> QED
  BY <1>1, <1>2, <1>3 DEF Chain

LEMMA InitInv == Init => IInv
<1> SUFFICES ASSUME Init PROVE IInv
  OBVIOUS
<1>1. TypeOK
  <2>1. 1 \in 1..LastEpoch /\ 0 \in 0..MaxChanges /\ 0 \in 0..1 /\ Unknown \in Block
    BY HealthAssumption DEF Block, Unknown
  <2> QED
    BY <2>1 DEF Init, TypeOK
<1>2. StageInv /\ StartInv /\ PhaseInv /\ CacheInv /\ AgainInv /\ NoReportAfterAbort
  BY DEF Init, StageInv, StartInv, PhaseInv, CacheInv, AgainInv, NoReportAfterAbort, Reported
<1> QED
  BY <1>1, <1>2 DEF IInv

(* Steps of the world, and steps that only move the run on. *)
LEMMA WorldInv ==
  ASSUME IInv, \/ \E d \in Deployment, s \in Row \cup {Absent} : ChangeStatus(d, s)
               \/ Flip \/ Abort \/ Throw
  PROVE  IInv'
<1>1. /\ UNCHANGED <<deploymentOf, cached, timing, rows, recovery, expired, notes>>
      /\ status' \in [Deployment -> Row \cup {Absent}] /\ changes' \in 0..MaxChanges
      /\ epoch' \in 1..LastEpoch /\ epoch' >= epoch /\ aborted' \in BOOLEAN
      /\ pc \notin {"done", "thrown"} /\ pc' \in {pc, "thrown"}
  <2>1. CASE \E d \in Deployment, s \in Row \cup {Absent} : ChangeStatus(d, s)
    <3>1. changes \in 0..MaxChanges /\ changes < MaxChanges => changes + 1 \in 0..MaxChanges
      BY HealthAssumption
    <3> QED
      BY <2>1, <3>1 DEF IInv, TypeOK, ChangeStatus, Running
  <2>2. CASE Flip
    <3>1. epoch \in 1..LastEpoch /\ epoch < LastEpoch => epoch + 1 \in 1..LastEpoch /\ epoch + 1 >= epoch
      BY HealthAssumption
    <3> QED
      BY <2>2, <3>1 DEF IInv, TypeOK, Flip, Running, graphNode
  <2>3. CASE Abort \/ Throw
    <3>1. epoch >= epoch
      BY DEF IInv, TypeOK
    <3> QED
      BY <2>3, <3>1 DEF IInv, TypeOK, Abort, Throw, Running, graphNode
  <2> QED
    BY <2>1, <2>2, <2>3
<1>2. TypeOK'
  BY <1>1 DEF IInv, TypeOK, timing, rows, recovery, notes
<1>3. StageInv' /\ StartInv' /\ CacheInv' /\ AgainInv'
  BY <1>1 DEF IInv, StageInv, StartInv, CacheInv, AgainInv, StartOf, timing, rows, recovery
<1>4. PhaseInv' /\ NoReportAfterAbort'
  BY <1>1 DEF IInv, PhaseInv, AllSettled, NoReportAfterAbort, Reported, timing, rows, recovery, notes
<1> QED
  BY <1>2, <1>3, <1>4 DEF IInv

LEMMA ExpireInv == ASSUME IInv, NEW d \in Deployment, ExpireRow(d) PROVE IInv'
<1>1. /\ UNCHANGED <<deploymentOf, graphNode, epoch, pc, aborted, timing, rows, recovery, notes>>
      /\ cached' = [cached EXCEPT ![d] = NotRead]
      /\ expired' = IF pc \in {"classify", "recover"} THEN expired \cup {d} ELSE expired
      /\ pc \notin {"done", "thrown"}
  BY DEF ExpireRow, Running
<1>2. TypeOK'
  BY <1>1 DEF IInv, TypeOK, graphNode, timing, rows, recovery, notes
<1>3. StageInv' /\ StartInv' /\ PhaseInv' /\ NoReportAfterAbort'
  BY <1>1 DEF IInv, StageInv, StartInv, StartOf, PhaseInv, AllSettled, NoReportAfterAbort, Reported,
              timing, rows, recovery, notes
<1>4. CacheInv' /\ AgainInv'
  <2>1. CASE listed = {}
    BY <1>1, <2>1 DEF CacheInv, AgainInv, rows
  <2>2. CASE listed # {}
    <3>1. pc \in {"classify", "recover"}
      BY <1>1, <2>2 DEF IInv, TypeOK, PhaseInv
    <3> QED
      BY <1>1, <3>1 DEF IInv, TypeOK, CacheInv, AgainInv, rows, recovery
  <2> QED
    BY <2>1, <2>2
<1> QED
  BY <1>2, <1>3, <1>4 DEF IInv

LEMMA TimingInv ==
  ASSUME IInv, ReadTimingFails \/ \E e \in 1..LastEpoch : ReadTiming(e)
  PROVE  IInv'
<1>1. /\ UNCHANGED <<deploymentOf, graphNode, epoch, cached, aborted, rows, recovery, expired, warnings>>
      /\ pc = "timing" /\ pc' = "list" /\ ~aborted
      /\ judged' \in 0..epoch /\ urgent' \in BOOLEAN /\ (urgent' => judged' > 0)
      /\ errors' \subseteq errors \cup {"timing"}
  <2>1. CASE ReadTimingFails
    <3>1. judged' = 0 /\ 0 \in 0..epoch
      BY <2>1, HealthAssumption DEF ReadTimingFails, IInv, TypeOK
    <3>2. urgent' = FALSE /\ urgent' \in BOOLEAN
      BY <2>1 DEF ReadTimingFails
    <3> QED
      BY <2>1, <3>1, <3>2 DEF ReadTimingFails, GoesOn
  <2>2. CASE \E e \in 1..LastEpoch : ReadTiming(e)
    BY <2>2 DEF ReadTiming, GoesOn, notes, IInv, TypeOK
  <2> QED
    BY <2>1, <2>2
<1>2. listed = {} /\ asked = {}
  BY <1>1 DEF IInv, PhaseInv
<1>3. \A a \in Allocation : stage[a] = "status" /\ seen[a] = NotRead /\ start[a] = Unknown
  BY <1>2 DEF IInv, TypeOK, StartInv
<1>4. TypeOK'
  BY <1>1 DEF IInv, TypeOK, graphNode, rows, recovery
<1>5. StageInv' /\ StartInv' /\ PhaseInv' /\ CacheInv' /\ AgainInv' /\ NoReportAfterAbort'
  BY <1>1, <1>2, <1>3 DEF StageInv, StartInv, PhaseInv, CacheInv, AgainInv, NoReportAfterAbort, Reported,
                          rows, recovery
<1> QED
  BY <1>4, <1>5 DEF IInv

LEMMA ListInv ==
  ASSUME IInv, ReadListFails \/ \E page \in SUBSET Allocation, cut, shift \in BOOLEAN :
                                    ReadList(page, cut, shift)
  PROVE  IInv'
<1>1. /\ UNCHANGED <<deploymentOf, graphNode, epoch, cached, aborted, timing, stage, seen, start, recovery, expired>>
      /\ pc = "list" /\ ~aborted /\ listed' \subseteq Allocation /\ moved' \in BOOLEAN
      /\ \/ pc' = "done" /\ listed' = {} /\ errors' = errors \cup {"allocations"} /\ warnings' = warnings
         \/ /\ pc' = "classify" /\ errors' = errors /\ warnings' \subseteq warnings \cup {"truncated"}
            /\ listed' # Allocation => warnings' # {} \/ moved'
  BY DEF ReadListFails, ReadList, GoesOn, rows, IInv, TypeOK, PhaseInv
<1>2. listed = {} /\ asked = {}
  BY <1>1 DEF IInv, PhaseInv
<1>3. \A a \in Allocation : stage[a] = "status" /\ seen[a] = NotRead /\ start[a] = Unknown
  BY <1>2 DEF IInv, TypeOK, StartInv
<1>4. TypeOK'
  BY <1>1, <1>3 DEF IInv, TypeOK, graphNode, timing, recovery
<1>5. StageInv' /\ StartInv' /\ CacheInv' /\ AgainInv' /\ NoReportAfterAbort'
  BY <1>1, <1>2, <1>3 DEF StageInv, StartInv, CacheInv, AgainInv, NoReportAfterAbort, Reported, recovery
<1>6. PhaseInv'
  BY <1>1, <1>2 DEF IInv, PhaseInv, AllSettled, timing, recovery
<1> QED
  BY <1>4, <1>5, <1>6 DEF IInv

LEMMA AnswerType == ASSUME TypeOK, NEW d \in Deployment PROVE StatusAnswer(d) \in Row \cup {Absent}
BY DEF TypeOK, StatusAnswer

LEMMA ReadStatusInv == ASSUME IInv, NEW d \in Deployment, ReadStatus(d) PROVE IInv'
<1> DEFINE s == StatusAnswer(d)
<1>1. s \in Row \cup {Absent} /\ s # NotRead
  BY AnswerType, HealthAssumption DEF IInv
<1>2. /\ UNCHANGED <<deploymentOf, graphNode, epoch, pc, aborted, timing, listed, moved, start, recovery, expired, notes>>
      /\ pc = "classify" /\ ~aborted
      /\ cached' = [cached EXCEPT ![d] = s]
      /\ seen' = [a \in Allocation |-> IF a \in Waiting(d) THEN s ELSE seen[a]]
      /\ stage' = [a \in Allocation |->
           IF a \notin Waiting(d) THEN stage[a] ELSE IF LooksUpStart(s) THEN "epoch" ELSE "row"]
  BY DEF ReadStatus, GoesOn
<1>3. asked = {}
  BY <1>2 DEF IInv, PhaseInv
<1>4. d \in expired \/ cached[d] = NotRead \/ s = cached[d]
  BY DEF StatusAnswer
<1>5. Waiting(d) \subseteq listed /\ \A a \in Waiting(d) : deploymentOf[a] = d /\ stage[a] = "status"
  BY DEF Waiting
<1> HIDE DEF s
<1>6. TypeOK'
  BY <1>1, <1>2, <1>5 DEF IInv, TypeOK, graphNode, timing, recovery, notes
<1>7. StageInv'
  BY <1>1, <1>2, <1>5 DEF IInv, TypeOK, StageInv, LooksUpStart, timing
<1>8. StartInv'
  BY <1>2, <1>5 DEF IInv, TypeOK, StartInv, StartOf, timing
<1>9. PhaseInv' /\ NoReportAfterAbort'
  BY <1>2, <1>3 DEF IInv, PhaseInv, NoReportAfterAbort, Reported, timing, recovery, notes
<1>10. CacheInv' /\ AgainInv'
  <2> SUFFICES ASSUME NEW a \in listed, seen'[a] # NotRead, deploymentOf[a] \notin expired
               PROVE  cached'[deploymentOf[a]] = seen'[a]
    BY <1>2, <1>3 DEF CacheInv, AgainInv, recovery
  <2>1. a \in Allocation /\ deploymentOf \in [Allocation -> Deployment]
    BY HealthAssumption DEF IInv, TypeOK
  <2>2. CASE a \in Waiting(d)
    BY <1>2, <1>5, <2>1, <2>2 DEF IInv, TypeOK
  <2>3. CASE a \notin Waiting(d)
    <3>1. seen'[a] = seen[a] /\ cached[deploymentOf[a]] = seen[a]
      BY <1>2, <2>1, <2>3 DEF IInv, CacheInv
    <3> QED
      BY <1>2, <1>4, <2>1, <3>1 DEF IInv, TypeOK
  <2> QED
    BY <2>2, <2>3
<1> QED
  BY <1>6, <1>7, <1>8, <1>9, <1>10 DEF IInv

LEMMA ReadStatusFailsInv == ASSUME IInv, NEW d \in Deployment, ReadStatusFails(d) PROVE IInv'
<1>1. /\ UNCHANGED <<deploymentOf, graphNode, epoch, cached, pc, aborted, timing, listed, moved, seen, start,
                    recovery, expired, notes>>
      /\ pc = "classify"
      /\ stage' = [a \in Allocation |-> IF a \in Waiting(d) THEN "rejected" ELSE stage[a]]
      /\ Waiting(d) \subseteq listed /\ \A a \in Waiting(d) : stage[a] = "status"
  BY DEF ReadStatusFails, Waiting
<1>2. TypeOK'
  BY <1>1 DEF IInv, TypeOK, graphNode, timing, recovery, notes
<1>3. StageInv'
  BY <1>1 DEF IInv, TypeOK, StageInv, timing
<1>4. StartInv'
  BY <1>1 DEF IInv, TypeOK, StartInv, StartOf, timing
<1>5. PhaseInv' /\ CacheInv' /\ AgainInv' /\ NoReportAfterAbort'
  BY <1>1 DEF IInv, PhaseInv, CacheInv, AgainInv, NoReportAfterAbort, Reported, timing, recovery, notes
<1> QED
  BY <1>2, <1>3, <1>4, <1>5 DEF IInv

LEMMA ReadStartInv ==
  ASSUME IInv, NEW a \in Allocation, NEW found \in BOOLEAN, ReadStart(a, found)
  PROVE  IInv'
<1>1. /\ UNCHANGED <<deploymentOf, graphNode, epoch, cached, pc, aborted, timing, listed, moved, seen, recovery,
                    expired, notes>>
      /\ pc = "classify" /\ a \in listed /\ stage[a] = "epoch"
      /\ stage' = [stage EXCEPT ![a] = "row"]
      /\ start' \in {start, [start EXCEPT ![a] = StartOf(a)]}
  BY DEF ReadStart
<1>2. HasChain(seen[a]) /\ judged > 0 /\ seen[a] # NotRead
  BY <1>1, HealthAssumption DEF IInv, StageInv, HasChain
<1>3. StartOf(a) \in Block
  <2>1. Chain(seen[a]) \in Network /\ judged \in 1..LastEpoch
    BY <1>2, ChainOfRow, HealthAssumption DEF IInv, TypeOK
  <2> QED
    BY <2>1, HealthAssumption DEF StartOf
<1>4. TypeOK'
  BY <1>1, <1>3 DEF IInv, TypeOK, graphNode, timing, recovery, notes
<1>5. StageInv'
  BY <1>1, <1>2 DEF IInv, TypeOK, StageInv, timing
<1>6. StartInv'
  BY <1>1, <1>2 DEF IInv, TypeOK, StartInv, StartOf, timing
<1>7. PhaseInv' /\ CacheInv' /\ AgainInv' /\ NoReportAfterAbort'
  BY <1>1 DEF IInv, PhaseInv, CacheInv, AgainInv, NoReportAfterAbort, Reported, timing, recovery, notes
<1> QED
  BY <1>4, <1>5, <1>6, <1>7 DEF IInv

LEMMA AssembleInv == ASSUME IInv, Assemble PROVE IInv'
<1>1. /\ UNCHANGED <<deploymentOf, graphNode, epoch, cached, aborted, timing, rows, recovery, expired, warnings>>
      /\ pc = "classify" /\ pc' \in {"recover", "done"} /\ ~aborted /\ AllSettled
      /\ errors' \in {errors, errors \cup {"classification"}}
      /\ (\E a \in listed : stage[a] = "rejected") => "classification" \in errors'
  BY DEF Assemble, GoesOn
<1>2. TypeOK'
  BY <1>1 DEF IInv, TypeOK, graphNode, timing, rows, recovery
<1>3. StageInv' /\ StartInv' /\ CacheInv' /\ AgainInv'
  BY <1>1 DEF IInv, StageInv, StartInv, StartOf, CacheInv, AgainInv, timing, rows, recovery
<1>4. PhaseInv' /\ NoReportAfterAbort'
  BY <1>1 DEF IInv, PhaseInv, AllSettled, NoReportAfterAbort, timing, rows, recovery
<1> QED
  BY <1>2, <1>3, <1>4 DEF IInv

LEMMA RecoverInv ==
  ASSUME IInv, NEW d \in Deployment, NEW answered \in BOOLEAN, Recover(d, answered)
  PROVE  IInv'
<1> DEFINE s == StatusAnswer(d)
<1>1. s \in Row \cup {Absent} /\ s # NotRead
  BY AnswerType, HealthAssumption DEF IInv
<1>2. /\ UNCHANGED <<deploymentOf, graphNode, epoch, aborted, timing, rows, expired, notes>>
      /\ pc = "recover" /\ pc' \in {"recover", "done"} /\ ~aborted
      /\ asked' = asked \cup {d} /\ d \notin asked
      /\ \/ cached[d] = NotRead /\ UNCHANGED <<again, cached>>
         \/ again' = [again EXCEPT ![d] = s] /\ cached' = [cached EXCEPT ![d] = s]
  <2>1. CASE answered
    BY <2>1 DEF Recover, GoesOn
  <2>2. CASE ~answered
    BY <2>2 DEF Recover, GoesOn
  <2> QED
    BY <2>1, <2>2
<1>3. cached[d] = NotRead \/ s = cached[d]
  BY DEF StatusAnswer
<1> HIDE DEF s
<1>4. TypeOK'
  BY <1>1, <1>2 DEF IInv, TypeOK, graphNode, timing, rows, notes
<1>5. StageInv' /\ StartInv'
  BY <1>2 DEF IInv, StageInv, StartInv, StartOf, timing, rows
<1>6. NoReportAfterAbort'
  BY <1>2 DEF NoReportAfterAbort, Reported
<1>7. PhaseInv'
  BY <1>2 DEF IInv, PhaseInv, AllSettled, timing, rows, notes
<1>8. CacheInv'
  <2> SUFFICES ASSUME NEW a \in listed, seen[a] # NotRead, deploymentOf[a] \notin expired
               PROVE  cached'[deploymentOf[a]] = seen[a]
    BY <1>2 DEF CacheInv, rows
  <2>1. deploymentOf[a] \in Deployment /\ cached[deploymentOf[a]] = seen[a]
    BY HealthAssumption DEF IInv, TypeOK, CacheInv
  <2> QED
    BY <1>2, <1>3, <2>1 DEF IInv, TypeOK
<1>9. AgainInv'
  BY <1>2, <1>3 DEF IInv, TypeOK, CacheInv, AgainInv, rows
<1> QED
  BY <1>4, <1>5, <1>6, <1>7, <1>8, <1>9 DEF IInv

LEMMA StutterInv == ASSUME IInv, UNCHANGED vars PROVE IInv'
<1>1. TypeOK' /\ PhaseInv' /\ NoReportAfterAbort'
  BY DEF IInv, TypeOK, PhaseInv, AllSettled, NoReportAfterAbort, Reported, vars, graphNode, timing, rows,
         recovery, notes
<1>2. StageInv' /\ StartInv' /\ CacheInv' /\ AgainInv'
  BY DEF IInv, StageInv, StartInv, StartOf, CacheInv, AgainInv, vars, timing, rows, recovery
<1> QED
  BY <1>1, <1>2 DEF IInv

LEMMA NextInv == IInv /\ [Next]_vars => IInv'
<1> SUFFICES ASSUME IInv, [Next]_vars PROVE IInv'
  OBVIOUS
<1>1. CASE Run
  BY <1>1, WorldInv, TimingInv, ListInv, ReadStatusInv, ReadStatusFailsInv, ReadStartInv, AssembleInv,
     RecoverInv DEF Run
<1>2. CASE Flip \/ Abort \/ \E d \in Deployment, s \in Row \cup {Absent} : ChangeStatus(d, s)
  BY <1>2, WorldInv
<1>3. CASE \E d \in Deployment : ExpireRow(d)
  BY <1>3, ExpireInv
<1>4. CASE Finished \/ UNCHANGED vars
  BY <1>4, StutterInv DEF Finished
<1> QED
  BY <1>1, <1>2, <1>3, <1>4 DEF Next

LEMMA Invariant == Spec => []IInv
BY InitInv, NextInv, PTL DEF Spec

-----------------------------------------------------------------------------
(* Every variable keeps its type, and what is not in the report is never   *)
(* classified.                                                             *)
THEOREM TypeCorrect == Spec => []TypeOK
<1>1. IInv => TypeOK
  BY DEF IInv
<1> QED
  BY <1>1, Invariant, PTL

(* Whatever reads fail, no allocation is lost: it is left out with a word  *)
(* or because rows moved, or healthy, or planned to be closed, or blocked. *)
THEOREM NoAllocationIsLost == Spec => []NothingLost
<1>1. IInv => NothingLost
  <2> SUFFICES ASSUME IInv, Reported, NEW a \in Allocation
               PROVE  IF a \notin listed THEN warnings # {} \/ "allocations" \in errors \/ moved
                      ELSE /\ ~(a \in ClosePlan /\ a \in Blocked)
                           /\ seen[a] \notin Row \/ seen[a].health # "healthy" => a \in ClosePlan \cup Blocked
                           /\ stage[a] = "rejected" => "classification" \in errors
    BY DEF NothingLost
  <2>1. CASE a \notin listed
    BY <2>1 DEF IInv, PhaseInv, Reported
  <2>2. CASE a \in listed
    <3>1. Closability(a) \in {"none", "A", "B"}
      BY DEF Closability, Path
    <3>2. seen[a] \notin Row \/ seen[a].health # "healthy" => Health(a) # "healthy"
      BY DEF Health
    <3>3. stage[a] = "rejected" => "classification" \in errors
      BY <2>2 DEF IInv, PhaseInv, Reported
    <3> QED
      BY <2>2, <3>1, <3>2, <3>3 DEF ClosePlan, Blocked
  <2> QED
    BY <2>1, <2>2
<1> QED
  BY <1>1, Invariant, PTL

(* The start blocks of a report are those of the epoch it names.           *)
THEOREM ReportIsOfOneEpoch == Spec => []OneEpochPerReport
<1>1. IInv => OneEpochPerReport
  BY DEF IInv, TypeOK, StartInv, StartOf, OneEpochPerReport
<1> QED
  BY <1>1, Invariant, PTL

(* A planned close has the height, or the failure, that its path asks for. *)
THEOREM PlannedClosesAreEarned == Spec => []ClosesAreEarned
<1>1. IInv => ClosesAreEarned
  <2> SUFFICES ASSUME IInv, Reported, NEW a \in ClosePlan
               PROVE  /\ seen[a] \in Row /\ HasChain(seen[a]) /\ judged > 0
                      /\ seen[a].health # "healthy"
                      /\ Start[judged][Chain(seen[a])] # Unknown
                      /\ IF seen[a].health = "failed" /\ seen[a].fatal = "det" THEN Closability(a) = "B"
                         ELSE /\ Closability(a) = "A"
                              /\ Latest(seen[a]) >= Start[judged][Chain(seen[a])]
    BY DEF ClosesAreEarned
  <2>1. a \in Allocation /\ Closability(a) # "none"
    BY DEF IInv, TypeOK, ClosePlan
  <2>2. stage[a] = "row" /\ seen[a] \in Row /\ start[a] # Unknown
    BY <2>1 DEF Closability, Path
  <2>3. HasChain(seen[a]) /\ judged > 0 /\ start[a] = Start[judged][Chain(seen[a])]
    BY <2>1, <2>2 DEF IInv, StartInv, StartOf
  <2>4. seen[a].health \in {"healthy", "unhealthy", "failed"}
    BY <2>2, HealthAssumption DEF RowRecord
  <2>5. Closability(a) = Path(seen[a], start[a])
    BY <2>2 DEF Closability
  <2>6. seen[a].health # "healthy"
    BY <2>2, <2>5 DEF ClosePlan, Health, Path
  <2>7. CASE seen[a].health = "failed" /\ seen[a].fatal = "det"
    BY <2>1, <2>2, <2>3, <2>5, <2>6, <2>7 DEF Path
  <2>8. CASE ~(seen[a].health = "failed" /\ seen[a].fatal = "det")
    <3>1. Closability(a) = "A" /\ Above(seen[a], start[a])
      BY <2>1, <2>2, <2>5, <2>8 DEF Path
    <3> QED
      BY <2>2, <2>3, <2>6, <2>8, <3>1 DEF Above
  <2> QED
    BY <2>7, <2>8
<1> QED
  BY <1>1, Invariant, PTL

(* The recovery of a deployment and the judgement of its allocation rest   *)
(* on one status, unless the cache let it expire in between.               *)
THEOREM RecoveryAgrees == Spec => []SecondReadAgrees
<1>1. IInv => SecondReadAgrees
  BY HealthAssumption DEF IInv, AgainInv, SecondReadAgrees
<1> QED
  BY <1>1, Invariant, PTL

(* The blocks that the plans name lie before the failure they answer to.   *)
THEOREM PlansStayBelowFailures == Spec => []BlocksPrecedeFailure
<1>1. IInv => BlocksPrecedeFailure
  <2> HAVE IInv
  <2>1. ASSUME NEW a \in ClosePlan, NEW s, s = seen[a], Closability(a) = "B", Len(s.chains) = 1,
               Consistent(s), s.block # Unknown, s.block > 0
        PROVE  Poi(s) < s.block
    <3> DEFINE C == [network : Network, latest : Block, healthy : Block]
    <3>1. s \in Row
      BY <2>1 DEF Closability, Path
    <3>2. s.block \in Nat /\ s.chains \in Seq(C)
      BY <2>1, <3>1, HealthAssumption DEF RowRecord, Block
    <3>3. DOMAIN s.chains = {1} /\ s.chains[1] \in C
      <4> HIDE DEF C
      <4> QED
        BY <2>1, <3>2
    <3>4. s.chains[1].healthy \in Nat \/ s.chains[1].healthy = Unknown
      BY <3>3 DEF Block
    <3>5. LastHealthy(s) = s.chains[1].healthy
      <4> DEFINE known == {i \in DOMAIN s.chains : s.chains[i].healthy # Unknown}
      <4>1. CASE known = {}
        BY <3>3, <4>1 DEF LastHealthy
      <4>2. CASE known # {}
        <5>1. known = {1}
          BY <3>3, <4>2
        <5>2. (CHOOSE i \in known : \A j \in known : i <= j) = 1
          BY <5>1
        <5> QED
          BY <4>2, <5>2 DEF LastHealthy
      <4> QED
        BY <4>1, <4>2
    <3> QED
      BY <2>1, <3>2, <3>4, <3>5 DEF Poi, Consistent, Unknown
  <2>2. ASSUME NEW d \in asked, NEW s, s = again[d], s \in Row
        PROVE  s.block = Unknown \/ s.block = 0 \/ Touched(s) < s.block
    <3>1. s.block \in Nat \/ s.block = Unknown
      BY <2>2, HealthAssumption DEF RowRecord, Block
    <3> QED
      BY <3>1 DEF Touched, Unknown
  <2> QED
    BY <2>1, <2>2 DEF BlocksPrecedeFailure
<1> QED
  BY <1>1, Invariant, PTL

(* What is unknown is never rated low, what is blocked never below high.   *)
THEOREM RiskRestsOnReads == Spec => []RiskIsGrounded
<1>1. IInv => RiskIsGrounded
  <2> SUFFICES ASSUME IInv, Reported, NEW a \in listed
               PROVE  /\ a \in Blocked /\ Health(a) # "healthy" => Level(a) \in {"high", "critical"}
                      /\ Level(a) = "low" => seen[a] \in Row /\ seen[a].health = "healthy"
                      /\ Level(a) = "critical" => judged > 0
    BY DEF RiskIsGrounded
  <2>1. a \in Blocked => Closability(a) = "none"
    BY DEF Blocked
  <2>2. Level(a) = "low" => Health(a) = "healthy"
    BY DEF Level
  <2>3. Level(a) = "critical" => urgent
    BY DEF Level
  <2>4. urgent => judged > 0
    BY DEF IInv, PhaseInv
  <2>5. Closability(a) = "none" /\ Health(a) # "healthy" => Level(a) \in {"high", "critical"}
    BY DEF Level
  <2> QED
    BY <2>1, <2>2, <2>3, <2>4, <2>5 DEF Health
<1> QED
  BY <1>1, Invariant, PTL

(* A check whose caller has given up reports nothing.                      *)
THEOREM AbortedChecksThrow == Spec => []NoReportAfterAbort
<1>1. IInv => NoReportAfterAbort
  BY DEF IInv
<1> QED
  BY <1>1, Invariant, PTL
=============================================================================
