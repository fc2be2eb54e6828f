-------------------------- MODULE AgentQueueProofs --------------------------
(***************************************************************************)
(* Proofs about GraphqlClient and AgentQueue, for any set of calls and any *)
(* retry bound.  The client: the attempts are counted right, a signal      *)
(* always reaches the fetch of its own call and stops it, and the slot is  *)
(* a sound channel until two calls overlap.  The queue tools over it: what *)
(* the agent carries out is what was sent, and in the order that lets a    *)
(* later write stand.                                                      *)
(***************************************************************************)
EXTENDS AgentQueue, TLAPS

(* How often the query of a call was sent tells how far the call is:       *)
(* attempt + 1 while it fetches or sleeps, once more from a recovery on;   *)
(* and it sleeps only when another attempt is left to it.                  *)
CountedFor(f, n) ==
  /\ f.pc = "idle" => n = 0
  /\ f.pc \in {"fetching", "sleeping"} => n = f.attempt + 1 /\ f.outcome = "none"
  /\ f.pc = "sleeping" => f.attempt < MaxRetries
  /\ f.pc = "recovering" => n = f.attempt + 2 /\ f.outcome = "none"
  /\ f.pc = "done" => \/ n <= MaxRetries + 1
                      \/ n <= MaxRetries + 2 /\ f.outcome = "unparsable"

Counted == \A r \in Request : CountedFor(req[r], sent[r])

ClientInv == TypeOK /\ Counted /\ SignalReachesFetch

-----------------------------------------------------------------------------
LEMMA FrameShape ==
  ASSUME NEW f \in Frame
  PROVE  /\ f.pc \in {"idle", "fetching", "recovering", "sleeping", "done"}
         /\ f.attempt \in Nat /\ f.attempt <= MaxRetries
         /\ f.prev \in Signal /\ f.heeds \in Signal
         /\ f.outcome \in {"none", "ok", "error", "unparsable", "aborted"}
BY ClientAssumption DEF Frame

LEMMA ClientInitInv == Init => ClientInv
<1>1. Init => Counted /\ SignalReachesFetch
  BY ClientAssumption DEF Init, Counted, CountedFor, SignalReachesFetch
<1>2. Init => req \in [Request -> Frame] /\ sent \in [Request -> Nat]
  BY ClientAssumption DEF Init, Frame, Signal
<1>3. Init => slot \in Signal /\ aborted \subseteq Signalled /\ overlapped \in BOOLEAN
  BY DEF Init, Signal
<1> QED
  BY <1>1, <1>2, <1>3 DEF ClientInv, TypeOK

(* Every action but Abort gives one call a new frame and a new count. *)
LEMMA FrameInv ==
  ASSUME ClientInv, NEW r \in Request, NEW f \in Frame, NEW n \in Nat,
         req' = [req EXCEPT ![r] = f], sent' = [sent EXCEPT ![r] = n],
         CountedFor(f, n),
         f.pc = "fetching" /\ r \in Signalled => f.heeds = r,
         slot' \in Signal, aborted' = aborted, overlapped' \in BOOLEAN
  PROVE  ClientInv'
<1>1. TypeOK'
  BY DEF ClientInv, TypeOK
<1>2. Counted'
  BY DEF ClientInv, TypeOK, Counted
<1>3. SignalReachesFetch'
  BY ClientAssumption DEF ClientInv, TypeOK, SignalReachesFetch
<1> QED
  BY <1>1, <1>2, <1>3 DEF ClientInv

(* An attempt begins, be it the first or the one after a sleep. *)
LEMMA StartInv ==
  ASSUME ClientInv, NEW r \in Request, NEW attempt \in 0 .. MaxRetries, NEW found \in Signal,
         StartAttempt(r, attempt, found), sent[r] = attempt,
         aborted' = aborted, overlapped' \in BOOLEAN
  PROVE  ClientInv'
<1> DEFINE f == [pc |-> "fetching", attempt |-> attempt, prev |-> found,
                 heeds |-> Offer(r, found), outcome |-> "none"]
<1>1. Offer(r, found) \in Signal
  BY DEF Offer, Signal
<1>2. f \in Frame
  BY <1>1 DEF Frame
<1>3. f.pc = "fetching" /\ f.attempt = attempt /\ f.outcome = "none" /\ f.heeds = Offer(r, found)
  OBVIOUS
<1>4. req' = [req EXCEPT ![r] = f] /\ sent' = [sent EXCEPT ![r] = sent[r] + 1]
      /\ slot' = Offer(r, found)
  BY DEF StartAttempt, ClientInv, TypeOK
<1>5. sent[r] + 1 \in Nat
  BY DEF ClientInv, TypeOK
<1> HIDE DEF f
<1>6. CountedFor(f, sent[r] + 1)
  BY <1>3 DEF CountedFor
<1>7. r \in Signalled => f.heeds = r
  BY <1>3 DEF Offer
<1> QED
  BY <1>1, <1>2, <1>4, <1>5, <1>6, <1>7, FrameInv DEF ClientInv, TypeOK

(* A call returns or throws. *)
LEMMA ReturnInv ==
  ASSUME ClientInv, NEW r \in Request, NEW outcome \in {"ok", "error", "unparsable", "aborted"},
         Return(r, outcome), req[r].pc # "done",
         req[r].pc = "recovering" => outcome = "unparsable",
         slot' \in Signal, UNCHANGED <<aborted, sent>>, overlapped' \in BOOLEAN
  PROVE  ClientInv'
<1> DEFINE f == [req[r] EXCEPT !.pc = "done", !.outcome = outcome]
<1>1. req[r] \in Frame /\ sent[r] \in Nat /\ CountedFor(req[r], sent[r])
  BY DEF ClientInv, TypeOK, Counted
<1>2. f \in Frame /\ f.pc = "done" /\ f.outcome = outcome
  BY <1>1 DEF Frame
<1>3. req' = [req EXCEPT ![r] = f] /\ sent' = [sent EXCEPT ![r] = sent[r]]
  BY DEF Return, ClientInv, TypeOK
<1> HIDE DEF f
<1>4. CountedFor(f, sent[r])
  BY <1>1, <1>2, FrameShape, ClientAssumption DEF CountedFor
<1> QED
  BY <1>1, <1>2, <1>3, <1>4, FrameInv

(* An attempt is over but the call is not: it sleeps or recovers. *)
LEMMA WaitInv ==
  ASSUME ClientInv, NEW r \in Request, NEW pc \in {"sleeping", "recovering"},
         req[r].pc = "fetching", req' = [req EXCEPT ![r].pc = pc],
         pc = "sleeping" => req[r].attempt < MaxRetries,
         sent' = IF pc = "sleeping" THEN sent ELSE [sent EXCEPT ![r] = @ + 1],
         UNCHANGED <<slot, aborted>>, overlapped' \in BOOLEAN
  PROVE  ClientInv'
<1> DEFINE f == [req[r] EXCEPT !.pc = pc]
           n == IF pc = "sleeping" THEN sent[r] ELSE sent[r] + 1
<1>1. req[r] \in Frame /\ sent[r] \in Nat /\ CountedFor(req[r], sent[r])
  BY DEF ClientInv, TypeOK, Counted
<1>2. /\ f \in Frame /\ f.pc = pc /\ f.outcome = req[r].outcome
      /\ f.attempt = req[r].attempt /\ f.heeds = req[r].heeds
  BY <1>1 DEF Frame
<1>3. req' = [req EXCEPT ![r] = f] /\ n \in Nat
  BY <1>1 DEF ClientInv, TypeOK
<1>6. sent' = [sent EXCEPT ![r] = n]
  <2>1. CASE pc = "sleeping"
    BY <2>1 DEF ClientInv, TypeOK
  <2>2. CASE pc = "recovering"
    BY <2>2
  <2> QED
    BY <2>1, <2>2
<1>4. sent[r] = req[r].attempt + 1 /\ req[r].outcome = "none" /\ req[r].attempt \in Nat
  BY <1>1, FrameShape DEF CountedFor
<1>5. CountedFor(f, n)
  BY <1>1, <1>2, <1>4 DEF CountedFor
<1> HIDE DEF f, n
<1> QED
  BY <1>2, <1>3, <1>5, <1>6, FrameInv DEF ClientInv, TypeOK, SignalReachesFetch

LEMMA CatchInv ==
  ASSUME ClientInv, NEW r \in Request, NEW transient \in BOOLEAN,
         req[r].pc = "fetching", Catch(r, transient),
         UNCHANGED <<aborted, sent>>, overlapped' \in BOOLEAN
  PROVE  ClientInv'
<1>1. CASE Retriable(r, transient)
  BY <1>1, WaitInv DEF Catch, Retriable
<1>2. CASE ~Retriable(r, transient)
  <2>1. PICK outcome \in {"error", "aborted"} : Return(r, outcome)
    BY <1>2 DEF Catch, GiveUp
  <2>2. slot' \in Signal
    BY <1>2, FrameShape DEF Catch, Restore, ClientInv, TypeOK
  <2> QED
    BY <2>1, <2>2, ReturnInv
<1> QED
  BY <1>1, <1>2

-----------------------------------------------------------------------------
LEMMA ClientNextInv == ClientInv /\ [Next]_vars => ClientInv'
<1> SUFFICES ASSUME ClientInv, [Next]_vars PROVE ClientInv'
  OBVIOUS
<1>a. overlapped \in BOOLEAN /\ overlapped' \in BOOLEAN
  BY DEF Next, Progress, FetchEnds, Finished, vars, EnterAborted, Enter, FetchSucceeds,
         FetchFails, FetchCancelled, ParseFails, RecoveryEnds, SleepAborted, SleepEnds,
         NextAttempt, Abort, ClientInv, TypeOK
<1>0. \A r \in Request : req[r] \in Frame /\ req[r].prev \in Signal
  BY FrameShape DEF ClientInv, TypeOK
<1>1. ASSUME NEW r \in Request, EnterAborted(r) PROVE ClientInv'
  BY <1>a, <1>1, ReturnInv DEF EnterAborted, ClientInv, TypeOK
<1>2. ASSUME NEW r \in Request, Enter(r) PROVE ClientInv'
  <2>1. sent[r] = 0 /\ slot \in Signal /\ 0 \in 0 .. MaxRetries
    BY <1>2, ClientAssumption DEF Enter, ClientInv, TypeOK, Counted, CountedFor
  <2> QED
    BY <1>a, <1>2, <2>1, StartInv DEF Enter
<1>3. ASSUME NEW r \in Request, FetchSucceeds(r) PROVE ClientInv'
  BY <1>a, <1>0, <1>3, ReturnInv DEF FetchSucceeds, Restore, ClientInv, TypeOK
<1>4. ASSUME NEW r \in Request, NEW transient \in BOOLEAN, FetchFails(r, transient) PROVE ClientInv'
  BY <1>a, <1>4, CatchInv DEF FetchFails, ClientInv, TypeOK
<1>5. ASSUME NEW r \in Request, NEW transient \in BOOLEAN, FetchCancelled(r, transient)
      PROVE ClientInv'
  BY <1>a, <1>5, CatchInv DEF FetchCancelled, ClientInv, TypeOK
<1>6. ASSUME NEW r \in Request, ParseFails(r) PROVE ClientInv'
  <2>1. CASE r \in aborted
    BY <1>a, <1>0, <1>6, <2>1, ReturnInv DEF ParseFails, GiveUp, Restore, ClientInv, TypeOK
  <2>2. CASE r \notin aborted
    BY <1>a, <1>6, <2>2, WaitInv DEF ParseFails, ClientInv, TypeOK
  <2> QED
    BY <2>1, <2>2
<1>7. ASSUME NEW r \in Request, RecoveryEnds(r) PROVE ClientInv'
  BY <1>a, <1>0, <1>7, ReturnInv DEF RecoveryEnds, Restore, ClientInv, TypeOK
<1>8. ASSUME NEW r \in Request, SleepAborted(r) PROVE ClientInv'
  BY <1>a, <1>0, <1>8, ReturnInv DEF SleepAborted, Restore, ClientInv, TypeOK
<1>9. ASSUME NEW r \in Request, SleepEnds(r) PROVE ClientInv'
  <2>1. sent[r] = req[r].attempt + 1 /\ req[r].attempt < MaxRetries
    BY <1>9 DEF SleepEnds, NextAttempt, ClientInv, Counted, CountedFor
  <2>2. req[r].attempt + 1 \in 0 .. MaxRetries
    BY <1>0, <2>1, FrameShape, ClientAssumption
  <2> QED
    BY <1>a, <1>0, <1>9, <2>1, <2>2, StartInv DEF SleepEnds, NextAttempt
<1>10. ASSUME NEW r \in Request, Abort(r) PROVE ClientInv'
  BY <1>a, <1>10 DEF Abort, ClientInv, TypeOK, Counted, SignalReachesFetch
<1>11. CASE UNCHANGED vars
  BY <1>11 DEF vars, ClientInv, TypeOK, Counted, SignalReachesFetch
<1> QED
  BY <1>1, <1>2, <1>3, <1>4, <1>5, <1>6, <1>7, <1>8, <1>9, <1>10, <1>11
     DEF Next, Progress, FetchEnds, Finished

(* The inductive invariant holds throughout every behaviour. *)
THEOREM ClientInvariance == Spec => []ClientInv
<1>1. Init => ClientInv
  BY ClientInitInv
<1>2. ClientInv /\ [Next]_vars => ClientInv'
  BY ClientNextInv
<1> QED
  BY <1>1, <1>2, PTL DEF Spec

(* The frames of request() and the slot are always well typed; the attempt *)
(* counter in particular never leaves the range of the retry loop.         *)
THEOREM ClientTypeCorrect == Spec => []TypeOK
<1>1. ClientInv => TypeOK
  BY DEF ClientInv
<1> QED
  BY <1>1, ClientInvariance, PTL

(* A fetch of a signalled call always obeys the signal of that call.       *)
THEOREM SignalsReachFetches == Spec => []SignalReachesFetch
<1>1. ClientInv => SignalReachesFetch
  BY DEF ClientInv
<1> QED
  BY <1>1, ClientInvariance, PTL

LEMMA CountedBounds ==
  ASSUME ClientInv
  PROVE  AttemptsBounded
<1> SUFFICES ASSUME NEW r \in Request
             PROVE sent[r] <= MaxRetries + 1
                     + (IF req[r].pc = "recovering" \/ req[r].outcome = "unparsable"
                        THEN 1 ELSE 0)
  BY DEF AttemptsBounded
<1>1. /\ req[r] \in Frame /\ sent[r] \in Nat /\ CountedFor(req[r], sent[r])
      /\ MaxRetries \in Nat
  BY ClientAssumption DEF ClientInv, TypeOK, Counted
<1> QED
  BY <1>1, FrameShape DEF CountedFor

(* The query of a call is sent at most maxRetries + 1 times, plus once to  *)
(* recover an answer that could not be parsed.                             *)
THEOREM AttemptsAreBounded == Spec => []AttemptsBounded
<1>1. ClientInv => AttemptsBounded
  BY CountedBounds
<1> QED
  BY <1>1, ClientInvariance, PTL

-----------------------------------------------------------------------------
(* Only a start of an attempt and a recovery send anything, and both look  *)
(* at the caller's own signal in the same stretch of code.                 *)
LEMMA SentAfterAbort ==
  ASSUME TypeOK, [Next]_vars, NEW r \in aborted
  PROVE  sent'[r] = sent[r]
<1>1. ASSUME NEW q \in Request, Enter(q) PROVE sent'[r] = sent[r]
  BY <1>1 DEF Enter, StartAttempt, TypeOK
<1>2. ASSUME NEW q \in Request, SleepEnds(q) PROVE sent'[r] = sent[r]
  BY <1>2 DEF SleepEnds, NextAttempt, StartAttempt, TypeOK
<1>3. ASSUME NEW q \in Request, ParseFails(q) PROVE sent'[r] = sent[r]
  <2>1. CASE q \in aborted
    BY <1>3, <2>1 DEF ParseFails
  <2>2. CASE q \notin aborted
    <3>1. r # q /\ sent' = [sent EXCEPT ![q] = @ + 1] /\ r \in Request
      BY <1>3, <2>2, ClientAssumption DEF ParseFails, TypeOK
    <3> QED
      BY <3>1 DEF TypeOK
  <2> QED
    BY <2>1, <2>2
<1>4. ASSUME NEW q \in Request,
             EnterAborted(q) \/ FetchSucceeds(q) \/ RecoveryEnds(q)
               \/ SleepAborted(q) \/ Abort(q)
      PROVE  sent'[r] = sent[r]
  BY <1>4 DEF EnterAborted, FetchSucceeds, RecoveryEnds, SleepAborted, Abort
<1>5. ASSUME NEW q \in Request, NEW transient \in BOOLEAN,
             FetchFails(q, transient) \/ FetchCancelled(q, transient)
      PROVE  sent'[r] = sent[r]
  BY <1>5 DEF FetchFails, FetchCancelled
<1>6. CASE UNCHANGED vars
  BY <1>6 DEF vars
<1> QED
  BY <1>1, <1>2, <1>3, <1>4, <1>5, <1>6 DEF Next, Progress, FetchEnds, Finished

(* Nothing more is sent for a call whose signal has fired.                 *)
THEOREM NothingIsSentAfterAbort == Spec => NoFetchAfterAbort
<1>1. TypeOK /\ [Next]_vars => [\A r \in aborted : sent'[r] = sent[r]]_vars
  BY SentAfterAbort
<1> QED
  BY <1>1, ClientTypeCorrect, PTL DEF Spec, NoFetchAfterAbort

(* A call whose signal has fired ends with that signal's reason, with a    *)
(* response, or with a parse failure, never with the error of a fetch.     *)
THEOREM AbortReasonIsKept == Spec => AbortReasonWins
<1>1. ASSUME TypeOK, [Next]_vars, NEW r \in aborted, Open(r), ~Open(r)'
      PROVE  req'[r].outcome # "error"
  <2>0. r \in Request /\ req[r] \in Frame /\ ~(req'[r].pc \in {"fetching", "recovering", "sleeping"})
    BY <1>1, ClientAssumption DEF TypeOK, Open
  <2>1. ASSUME NEW q \in Request, NEW outcome \in {"ok", "unparsable", "aborted"},
               Return(q, outcome)
        PROVE  req'[r].outcome # "error"
    BY <1>1, <2>0, <2>1 DEF Return, TypeOK, Frame, Open
  <2>2. ASSUME NEW q \in Request, GiveUp(q) PROVE req'[r].outcome # "error"
    BY <1>1, <2>0, <2>2 DEF GiveUp, Return, TypeOK, Frame, Open
  <2>3. ASSUME NEW q \in Request, NEW pc \in {"sleeping", "recovering"},
               req' = [req EXCEPT ![q].pc = pc]
        PROVE  FALSE
    BY <1>1, <2>0, <2>3 DEF TypeOK, Frame, Open
  <2>4. ASSUME NEW q \in Request, NEW n, NEW found, StartAttempt(q, n, found) PROVE FALSE
    BY <1>1, <2>0, <2>4 DEF StartAttempt, TypeOK, Open
  <2>5. ASSUME req' = req PROVE FALSE
    BY <1>1, <2>0, <2>5 DEF Open
  <2>6. ASSUME NEW q \in Request, NEW transient \in BOOLEAN, Catch(q, transient)
        PROVE  req'[r].outcome # "error"
    BY <2>2, <2>3, <2>6 DEF Catch
  <2>7. ASSUME NEW q \in Request, ParseFails(q) PROVE req'[r].outcome # "error"
    BY <2>2, <2>3, <2>7 DEF ParseFails
  <2>8. ASSUME NEW q \in Request, EnterAborted(q) \/ FetchSucceeds(q)
                                    \/ RecoveryEnds(q) \/ SleepAborted(q)
        PROVE  req'[r].outcome # "error"
    BY <2>1, <2>8 DEF EnterAborted, FetchSucceeds, RecoveryEnds, SleepAborted
  <2>9. ASSUME NEW q \in Request, Enter(q) \/ SleepEnds(q) PROVE FALSE
    BY <2>4, <2>9 DEF Enter, SleepEnds, NextAttempt
  <2>10. ASSUME NEW q \in Request, NEW transient \in BOOLEAN,
                FetchFails(q, transient) \/ FetchCancelled(q, transient)
         PROVE  req'[r].outcome # "error"
    BY <2>6, <2>10 DEF FetchFails, FetchCancelled
  <2>11. ASSUME NEW q \in Request, Abort(q) PROVE FALSE
    BY <2>5, <2>11 DEF Abort
  <2>12. CASE UNCHANGED vars
    BY <2>5, <2>12 DEF vars
  <2> QED
    BY <1>1, <2>7, <2>8, <2>9, <2>10, <2>11, <2>12 DEF Next, Progress, FetchEnds, Finished
<1>2. TypeOK /\ [Next]_vars =>
        [\A r \in aborted : Open(r) /\ ~Open(r)' => req'[r].outcome # "error"]_vars
  BY <1>1
<1> QED
  BY <1>2, ClientTypeCorrect, PTL DEF Spec, AbortReasonWins

-----------------------------------------------------------------------------
(* Calls one after the other: at most one is open, it has saved an empty   *)
(* slot, and what is in the slot is its own signal.                        *)
Serial ==
  /\ \A r, q \in Request : Open(r) /\ Open(q) => r = q
  /\ \A r \in Request : Open(r) => req[r].prev = NoSignal /\ slot \in {r, NoSignal}
  /\ SlotEmptyWhenQuiet
  /\ OwnSignalOnly

(* A step that only call r takes, from the one open call or from quiet.    *)
LEMMA SerialStep ==
  ASSUME TypeOK, Serial, NEW r \in Request, NEW f \in Frame,
         req' = [req EXCEPT ![r] = f],
         Open(r) \/ Quiet,
         IF f.pc \in {"fetching", "recovering", "sleeping"}
         THEN f.prev = NoSignal /\ slot' \in {r, NoSignal} /\ f.heeds \in {r, NoSignal}
         ELSE slot' = NoSignal
  PROVE  Serial'
<1>1. \A q \in Request : q # r => req'[q] = req[q] /\ ~Open(q)
  BY DEF TypeOK, Serial, Quiet
<1>2. req'[r] = f
  BY DEF TypeOK
<1> QED
  BY <1>1, <1>2 DEF Serial, Open, Quiet, SlotEmptyWhenQuiet, OwnSignalOnly

LEMMA SerialInit == Init => Serial
BY DEF Init, Serial, Open, Quiet, SlotEmptyWhenQuiet, OwnSignalOnly

LEMMA SerialNext ==
  ASSUME ClientInv, Serial, [Next]_vars, ~overlapped'
  PROVE  Serial'
<1>a. TypeOK
  BY DEF ClientInv
<1>0. \A r \in Request : req[r] \in Frame
  BY <1>a DEF TypeOK
<1>1. ASSUME NEW r \in Request, NEW n \in 0 .. MaxRetries, StartAttempt(r, n, NoSignal),
             Open(r) \/ Quiet
      PROVE  Serial'
  <2> DEFINE f == [pc |-> "fetching", attempt |-> n, prev |-> NoSignal,
                   heeds |-> Offer(r, NoSignal), outcome |-> "none"]
  <2>1. f \in Frame /\ Offer(r, NoSignal) \in {r, NoSignal}
    BY DEF Frame, Offer, Signal
  <2>2. f.pc = "fetching" /\ f.prev = NoSignal /\ f.heeds = Offer(r, NoSignal)
    OBVIOUS
  <2>3. req' = [req EXCEPT ![r] = f] /\ slot' = Offer(r, NoSignal)
    BY <1>1 DEF StartAttempt
  <2> HIDE DEF f
  <2> QED
    BY <1>a, <1>1, <2>1, <2>2, <2>3, SerialStep
<1>2. ASSUME NEW r \in Request, NEW outcome \in {"ok", "error", "unparsable", "aborted"},
             Return(r, outcome), Open(r), Restore(r)
      PROVE  Serial'
  <2> DEFINE f == [req[r] EXCEPT !.pc = "done", !.outcome = outcome]
  <2>1. f \in Frame /\ f.pc = "done"
    BY <1>0 DEF Frame
  <2>2. req' = [req EXCEPT ![r] = f] /\ slot' = NoSignal
    BY <1>a, <1>2 DEF Return, Restore, TypeOK, Serial
  <2> HIDE DEF f
  <2> QED
    BY <1>a, <1>2, <2>1, <2>2, SerialStep
<1>3. ASSUME NEW r \in Request, NEW pc \in {"sleeping", "recovering"},
             req' = [req EXCEPT ![r].pc = pc], req[r].pc = "fetching", UNCHANGED slot
      PROVE  Serial'
  <2> DEFINE f == [req[r] EXCEPT !.pc = pc]
  <2>1. f \in Frame /\ f.pc = pc /\ f.prev = req[r].prev /\ f.heeds = req[r].heeds
    BY <1>0 DEF Frame
  <2>2. Open(r) /\ f.prev = NoSignal /\ slot' \in {r, NoSignal} /\ f.heeds \in {r, NoSignal}
    BY <1>3, <2>1 DEF Open, Serial, OwnSignalOnly
  <2>3. req' = [req EXCEPT ![r] = f]
    BY <1>a, <1>3 DEF TypeOK
  <2> HIDE DEF f
  <2> QED
    BY <1>a, <1>3, <2>1, <2>2, <2>3, SerialStep
<1>4. ASSUME NEW r \in Request, EnterAborted(r) PROVE Serial'
  <2>1. /\ req'[r].pc = "done" /\ ~Open(r) /\ slot' = slot
        /\ \A q \in Request : q # r => req'[q] = req[q]
    BY <1>a, <1>0, <1>4 DEF EnterAborted, Return, TypeOK, Frame, Open
  <2> QED
    BY <2>1 DEF Serial, Open, Quiet, SlotEmptyWhenQuiet, OwnSignalOnly
<1>5. ASSUME NEW r \in Request, Enter(r) PROVE Serial'
  <2>3. Quiet
    BY <1>5 DEF Enter
  <2> QED
    BY <1>1, <1>5, <2>3, ClientAssumption DEF Enter, Serial, SlotEmptyWhenQuiet
<1>6. ASSUME NEW r \in Request, FetchSucceeds(r) \/ RecoveryEnds(r) \/ SleepAborted(r)
      PROVE  Serial'
  BY <1>2, <1>6 DEF FetchSucceeds, RecoveryEnds, SleepAborted, Open
<1>7. ASSUME NEW r \in Request, GiveUp(r), Restore(r), req[r].pc = "fetching" PROVE Serial'
  BY <1>2, <1>7 DEF GiveUp, Open
<1>8. ASSUME NEW r \in Request, NEW transient \in BOOLEAN, Catch(r, transient),
             req[r].pc = "fetching"
      PROVE  Serial'
  BY <1>3, <1>7, <1>8 DEF Catch
<1>9. ASSUME NEW r \in Request, ParseFails(r) PROVE Serial'
  <2>1. CASE r \in aborted
    BY <1>7, <1>9, <2>1 DEF ParseFails
  <2>2. CASE r \notin aborted
    BY <1>3, <1>9, <2>2 DEF ParseFails
  <2> QED
    BY <2>1, <2>2
<1>10. ASSUME NEW r \in Request, Abort(r) PROVE Serial'
  BY <1>10 DEF Abort, Serial, Open, Quiet, SlotEmptyWhenQuiet, OwnSignalOnly
<1>11. CASE UNCHANGED vars
  BY <1>11 DEF vars, Serial, Open, Quiet, SlotEmptyWhenQuiet, OwnSignalOnly
<1>12. ASSUME NEW r \in Request, NEW transient \in BOOLEAN,
              FetchFails(r, transient) \/ FetchCancelled(r, transient)
       PROVE  Serial'
  BY <1>8, <1>12 DEF FetchFails, FetchCancelled
<1>13. ASSUME NEW r \in Request, SleepEnds(r) PROVE Serial'
  <2>1. req[r].attempt < MaxRetries /\ req[r].attempt \in Nat
    BY <1>0, <1>13, FrameShape DEF SleepEnds, NextAttempt, ClientInv, Counted, CountedFor
  <2>2. req[r].attempt + 1 \in 0 .. MaxRetries
    BY <2>1, ClientAssumption
  <2>3. Open(r) /\ req[r].prev = NoSignal
    BY <1>13 DEF SleepEnds, NextAttempt, Open, Serial
  <2> QED
    BY <1>1, <1>13, <2>2, <2>3 DEF SleepEnds, NextAttempt
<1> QED
  BY <1>4, <1>5, <1>6, <1>9, <1>10, <1>11, <1>12, <1>13
     DEF Next, Progress, FetchEnds, Finished

(* Until two calls overlap the slot is a sound channel: a fetch obeys its  *)
(* own signal or none, and what a call leaves behind is an empty slot.     *)
THEOREM SerialSlotIsSound == Spec => []SlotSoundUntilOverlap
<1> DEFINE SInv == overlapped \/ Serial
<1>1. Init => SInv
  BY SerialInit
<1>2. ClientInv /\ SInv /\ [Next]_vars => SInv'
  <2> SUFFICES ASSUME ClientInv, SInv, [Next]_vars, ~overlapped' PROVE Serial'
    OBVIOUS
  <2>1. overlapped => overlapped'
    BY DEF Next, Progress, FetchEnds, Finished, vars, EnterAborted, Enter, FetchSucceeds,
           FetchFails, FetchCancelled, ParseFails, RecoveryEnds, SleepAborted, SleepEnds,
           NextAttempt, Abort
  <2> QED
    BY <2>1, SerialNext
<1>3. SInv => SlotSoundUntilOverlap
  BY DEF Serial, SlotSoundUntilOverlap
<1> QED
  BY <1>1, <1>2, <1>3, ClientInvariance, PTL DEF Spec

-----------------------------------------------------------------------------
(* The queue tools over the client.                                        *)

(* A copy is carried out only after it was sent. *)
Delivered == \A c \in executed : c[2] <= sent[c[1]]

(* The call that was answered last was carried out, and is over. *)
AnsweredInv ==
  \A r \in Request : req[r].outcome = "ok" =>
    req[r].pc = "done" /\ <<r, sent[r]>> \in executed

HistoryInv ==
  \A r \in Request : \A q \in answered[r] : q # r /\ req[q].outcome = "ok"

(* The later of two writes to one place, the earlier one sent only once. *)
Supersedes(later, earlier) ==
  /\ earlier \in answered[later] /\ sent[earlier] = 1
  /\ call[earlier].tool \in Writing /\ call[later].tool \in Writing
  /\ Target(call[earlier].tool) = Target(call[later].tool)

CarriedOut(r) == \E c \in executed : c[1] = r

(* No copy of the earlier write is left that could undo the later one.     *)
Overwritten ==
  \A earlier, later \in Request :
    Supersedes(later, earlier) /\ CarriedOut(later) =>
      written[Target(call[later].tool)] # earlier

QueueInv ==
  /\ ClientInv /\ QueueTypeOK
  /\ Delivered /\ AnsweredInv /\ HistoryInv /\ ClosesAsRecorded /\ Overwritten

-----------------------------------------------------------------------------
LEMMA CopyShape ==
  ASSUME NEW c \in Copy
  PROVE  c[1] \in Request /\ c[2] \in Nat /\ c[2] >= 1 /\ c = <<c[1], c[2]>>
BY ClientAssumption DEF Copy

LEMMA TargetPlace ==
  ASSUME NEW tool \in Writing
  PROVE  Target(tool) \in {"actions", "rules", "costModels"}
BY DEF Writing, Target

LEMMA QueueInitInv == QueueInit => QueueInv
<1> SUFFICES ASSUME QueueInit PROVE QueueInv
  OBVIOUS
<1>1. ClientInv /\ TypeOK
  BY ClientInitInv DEF QueueInit, ClientInv
<1>2. QueueTypeOK
  BY <1>1 DEF QueueInit, QueueTypeOK
<1>3. \A r \in Request : req[r].outcome = "none" /\ sent[r] = 0
  BY DEF QueueInit, Init
<1> QED
  BY <1>1, <1>2, <1>3 DEF QueueInit, QueueInv, Delivered, AnsweredInv, HistoryInv,
                          ClosesAsRecorded, Overwritten, Supersedes

(* What every step keeps of a call: it is never sent less often, nothing   *)
(* of it changes when it is over, and it is answered only when its last    *)
(* copy has been carried out.                                              *)
Keeps(q) ==
  /\ sent'[q] >= sent[q]
  /\ req[q].pc = "done" => req'[q] = req[q] /\ sent'[q] = sent[q]
  /\ req'[q] # req[q] /\ req'[q].outcome = "ok" =>
       req'[q].pc = "done" /\ <<q, sent'[q]>> \in executed

LEMMA ReturnKeeps ==
  ASSUME TypeOK, NEW r \in Request, NEW outcome, Return(r, outcome), req[r].pc # "done",
         sent' = sent, outcome = "ok" => <<r, sent[r]>> \in executed
  PROVE  \A q \in Request : Keeps(q)
<1> SUFFICES ASSUME NEW q \in Request PROVE Keeps(q)
  OBVIOUS
<1>1. req[r] \in Frame /\ sent[q] \in Nat
  BY DEF TypeOK
<1>2. /\ q # r => req'[q] = req[q]
      /\ req'[r].pc = "done" /\ req'[r].outcome = outcome
  BY <1>1 DEF Return, TypeOK, Frame
<1> QED
  BY <1>1, <1>2 DEF Keeps

LEMMA StartKeeps ==
  ASSUME TypeOK, NEW r \in Request, NEW attempt, NEW found, StartAttempt(r, attempt, found),
         req[r].pc # "done"
  PROVE  \A q \in Request : Keeps(q)
<1> SUFFICES ASSUME NEW q \in Request PROVE Keeps(q)
  OBVIOUS
<1>1. sent[q] \in Nat
  BY DEF TypeOK
<1>2. /\ q # r => req'[q] = req[q] /\ sent'[q] = sent[q]
      /\ req'[r].outcome = "none" /\ sent'[r] = sent[r] + 1
  BY DEF StartAttempt, TypeOK
<1> QED
  BY <1>1, <1>2 DEF Keeps

LEMMA WaitKeeps ==
  ASSUME ClientInv, NEW r \in Request, NEW pc, req' = [req EXCEPT ![r].pc = pc],
         req[r].pc = "fetching",
         sent' = sent \/ sent' = [sent EXCEPT ![r] = @ + 1]
  PROVE  \A q \in Request : Keeps(q)
<1> SUFFICES ASSUME NEW q \in Request PROVE Keeps(q)
  OBVIOUS
<1>1. sent[q] \in Nat /\ req[r] \in Frame /\ req[r].outcome = "none"
  BY DEF ClientInv, TypeOK, Counted, CountedFor
<1>2. /\ q # r => req'[q] = req[q] /\ sent'[q] = sent[q]
      /\ req'[r].outcome = "none" /\ sent'[q] >= sent[q]
  BY <1>1 DEF ClientInv, TypeOK, Frame
<1> QED
  BY <1>1, <1>2 DEF Keeps

LEMMA CatchKeeps ==
  ASSUME ClientInv, NEW r \in Request, NEW transient, Catch(r, transient),
         req[r].pc = "fetching", sent' = sent
  PROVE  \A q \in Request : Keeps(q)
<1>1. CASE Retriable(r, transient)
  BY <1>1, WaitKeeps DEF Catch
<1>2. CASE ~Retriable(r, transient)
  BY <1>2, ReturnKeeps DEF Catch, GiveUp, ClientInv
<1> QED
  BY <1>1, <1>2

LEMMA ClientStepKeeps ==
  ASSUME ClientInv, NEW r \in Request, ClientStep(r)
  PROVE  \A q \in Request : Keeps(q)
<1>a. TypeOK
  BY DEF ClientInv
<1>1. CASE Answer(r)
  BY <1>1, <1>a, ReturnKeeps DEF Answer, FetchSucceeds
<1>2. CASE ParseFails(r)
  <2>1. CASE r \in aborted
    BY <1>2, <1>a, <2>1, ReturnKeeps DEF ParseFails, GiveUp
  <2>2. CASE r \notin aborted
    BY <1>2, <2>2, WaitKeeps DEF ParseFails
  <2> QED
    BY <2>1, <2>2
<1>3. CASE RecoveryEnds(r) \/ SleepAborted(r)
  BY <1>3, <1>a, ReturnKeeps DEF RecoveryEnds, SleepAborted
<1>4. CASE SleepEnds(r)
  BY <1>4, <1>a, StartKeeps DEF SleepEnds, NextAttempt
<1>5. CASE Abort(r)
  BY <1>5, <1>a DEF Abort, Keeps, TypeOK
<1>6. ASSUME NEW transient \in BOOLEAN, FetchFails(r, transient) \/ FetchCancelled(r, transient)
      PROVE  \A q \in Request : Keeps(q)
  BY <1>6, CatchKeeps DEF FetchFails, FetchCancelled
<1> QED
  BY <1>1, <1>2, <1>3, <1>4, <1>5, <1>6 DEF ClientStep

(* What a client sends without the queue is a request sent before. *)
LEMMA ClientStepResends ==
  ASSUME ClientInv, NEW r \in Request, ClientStep(r), NEW q \in Request, sent[q] = 0
  PROVE  sent'[q] = 0
<1>1. /\ sent[r] \in Nat /\ req[r] \in Frame /\ CountedFor(req[r], sent[r])
      /\ sent \in [Request -> Nat]
  BY DEF ClientInv, TypeOK, Counted
<1>2. req[r].pc \in {"fetching", "sleeping"} => sent[r] # 0
  BY <1>1, FrameShape DEF CountedFor
<1>3. CASE sent' = sent
  BY <1>3
<1>4. CASE sent' = [sent EXCEPT ![r] = @ + 1] /\ req[r].pc \in {"fetching", "sleeping"}
  BY <1>1, <1>2, <1>4
<1>5. sent' = sent \/ (sent' = [sent EXCEPT ![r] = @ + 1] /\ req[r].pc \in {"fetching", "sleeping"})
  <2>1. CASE ParseFails(r)
    BY <2>1 DEF ParseFails
  <2>2. CASE SleepEnds(r)
    BY <2>2 DEF SleepEnds, NextAttempt, StartAttempt
  <2>3. CASE Answer(r) \/ RecoveryEnds(r) \/ SleepAborted(r) \/ Abort(r)
    BY <2>3 DEF Answer, FetchSucceeds, RecoveryEnds, SleepAborted, Abort
  <2>4. ASSUME NEW transient \in BOOLEAN, FetchFails(r, transient) \/ FetchCancelled(r, transient)
        PROVE  sent' = sent
    BY <2>4 DEF FetchFails, FetchCancelled
  <2> QED
    BY <2>1, <2>2, <2>3, <2>4 DEF ClientStep
<1> QED
  BY <1>3, <1>4, <1>5

(* A call that fails before anything was sent for it. *)
FailsUnsent(r) ==
  /\ req[r].pc = "idle" /\ \E outcome \in {"error", "aborted"} : Return(r, outcome)
  /\ UNCHANGED <<slot, aborted, sent, overlapped>>

(* A step of the queue is a step of the client, a call that fails before   *)
(* anything was sent for it, or nothing to the client.                     *)
LEMMA QueueStepIsClientStep ==
  ASSUME [QueueNext]_allVars
  PROVE  [Next]_vars \/ \E r \in Request : FailsUnsent(r)
<1>1. ASSUME NEW r \in Request, CallAborted(r) \/ LookupFinds(r) \/ ClientStep(r)
      PROVE  [Next]_vars
  BY <1>1 DEF CallAborted, LookupFinds, SendCall, ClientStep, Answer, Next, Progress, FetchEnds
<1>2. ASSUME NEW r \in Request, RefuseRule(r) \/ LookupFails(r)
      PROVE  FailsUnsent(r)
  BY <1>2 DEF RefuseRule, LookupFails, Looking, GiveUp, FailsUnsent
<1>3. ASSUME NEW r \in Request, NEW tool \in Tools, CallTool(r, tool) PROVE [Next]_vars
  BY <1>3 DEF CallTool, SendCall, Next
<1>4. ASSUME NEW r \in Request, NEW tool \in Tools, NEW a \in Allocation, CallClosing(r, tool, a)
      PROVE  [Next]_vars
  BY <1>4 DEF CallClosing
<1>5. ASSUME NEW c \in Copy, Execute(c) PROVE [Next]_vars
  BY <1>5 DEF Execute
<1>6. CASE Over \/ UNCHANGED allVars
  BY <1>6 DEF Over, allVars, vars
<1> QED
  BY <1>1, <1>2, <1>3, <1>4, <1>5, <1>6 DEF QueueNext

LEMMA ClientPart ==
  ASSUME ClientInv, [QueueNext]_allVars
  PROVE  ClientInv'
<1>1. CASE [Next]_vars
  BY <1>1, ClientNextInv
<1>2. ASSUME NEW r \in Request, FailsUnsent(r) PROVE ClientInv'
  BY <1>2, ReturnInv DEF FailsUnsent, ClientInv, TypeOK
<1> QED
  BY <1>1, <1>2, QueueStepIsClientStep

(* Every step but the agent's own. *)
LEMMA AgentIdle ==
  ASSUME QueueInv, ClientInv', QueueTypeOK', \A q \in Request : Keeps(q),
         UNCHANGED <<executed, written>>,
         \A r \in Request : sent[r] > 0 => call'[r] = call[r],
         \A r \in Request : sent'[r] > 0 /\ call'[r].tool \in Closing =>
           sent[r] > 0 \/ call'[r].legacy = (Era[call'[r].allocation] = "legacy"),
         \A r \in Request :
           \/ answered'[r] = answered[r]
           \/ /\ sent[r] = 0 /\ req[r].outcome # "ok"
              /\ answered'[r] = {q \in Request : req[q].outcome = "ok"}
  PROVE  QueueInv'
<1>0. /\ \A r \in Request : sent[r] \in Nat /\ sent'[r] \in Nat
      /\ executed \subseteq Copy
  BY DEF QueueInv, QueueTypeOK, TypeOK, ClientInv
<1>1. ASSUME NEW r \in Request, req[r].outcome = "ok"
      PROVE  /\ req'[r] = req[r] /\ sent'[r] = sent[r] /\ sent[r] > 0
             /\ call'[r] = call[r] /\ <<r, sent[r]>> \in executed
  <2>1. req[r].pc = "done" /\ <<r, sent[r]>> \in executed
    BY <1>1 DEF QueueInv, AnsweredInv
  <2>2. sent[r] > 0
    BY <1>0, <2>1, CopyShape
  <2> QED
    BY <1>0, <2>1, <2>2 DEF Keeps
<1>2. Delivered'
  <2> SUFFICES ASSUME NEW c \in executed PROVE c[2] <= sent'[c[1]]
    BY DEF Delivered
  <2>1. c[1] \in Request /\ c[2] \in Nat /\ c[2] <= sent[c[1]]
    BY <1>0, CopyShape DEF QueueInv, Delivered
  <2>2. sent'[c[1]] >= sent[c[1]] /\ sent'[c[1]] \in Nat /\ sent[c[1]] \in Nat
    BY <1>0, <2>1 DEF Keeps
  <2> QED
    BY <2>1, <2>2
<1>3. AnsweredInv'
  BY <1>1 DEF QueueInv, AnsweredInv, Keeps
<1>4. HistoryInv'
  <2> SUFFICES ASSUME NEW r \in Request, NEW q \in answered'[r]
               PROVE  q # r /\ req'[q].outcome = "ok"
    BY DEF HistoryInv
  <2>1. q \in Request /\ req[q].outcome = "ok" /\ q # r
    <3>1. CASE answered'[r] = answered[r]
      BY <3>1 DEF QueueInv, QueueTypeOK, HistoryInv
    <3>2. CASE answered'[r] = {p \in Request : req[p].outcome = "ok"} /\ req[r].outcome # "ok"
      BY <3>2
    <3> QED
      BY <3>1, <3>2
  <2> QED
    BY <1>1, <2>1
<1>5. ClosesAsRecorded'
  BY <1>0 DEF QueueInv, ClosesAsRecorded
<1>6. Overwritten'
  <2> SUFFICES ASSUME NEW earlier \in Request, NEW later \in Request,
                      Supersedes(later, earlier)', CarriedOut(later)'
               PROVE  written'[Target(call'[later].tool)] # earlier
    BY DEF Overwritten
  <2>1. CarriedOut(later)
    BY DEF CarriedOut
  <2>2. sent[later] > 0
    <3>1. PICK c \in executed : c[1] = later
      BY <2>1 DEF CarriedOut
    <3>2. c[2] >= 1 /\ c[2] \in Nat /\ c[2] <= sent[later]
      BY <1>0, <3>1, CopyShape DEF QueueInv, Delivered
    <3> QED
      BY <1>0, <3>2
  <2>3. answered'[later] = answered[later] /\ call'[later] = call[later]
    BY <1>0, <2>2
  <2>4. req[earlier].outcome = "ok"
    BY <2>3 DEF Supersedes, QueueInv, HistoryInv
  <2>5. Supersedes(later, earlier)
    BY <1>1, <2>3, <2>4 DEF Supersedes
  <2> QED
    BY <2>1, <2>3, <2>5 DEF QueueInv, Overwritten
<1> QED
  BY <1>2, <1>3, <1>4, <1>5, <1>6 DEF QueueInv

LEMMA CallTypes ==
  ASSUME QueueInv, NEW r \in Request, NEW tool \in Tools, NEW a \in Allocation \cup {Nobody},
         NEW legacy \in BOOLEAN,
         call' = [call EXCEPT ![r] = [tool |-> tool, allocation |-> a, legacy |-> legacy]],
         ClientInv', UNCHANGED <<executed, written>>,
         answered' \in [Request -> SUBSET Request]
  PROVE  QueueTypeOK' /\ \A q \in Request : q # r => call'[q] = call[q]
BY DEF QueueInv, QueueTypeOK, ClientInv

(* The request of a call leaves for the first time. *)
LEMMA SendCallInv ==
  ASSUME QueueInv, ClientInv', NEW r \in Request, NEW tool \in Tools,
         NEW a \in Allocation \cup {Nobody}, NEW legacy \in BOOLEAN,
         SendCall(r, [tool |-> tool, allocation |-> a, legacy |-> legacy]),
         tool \in Closing => legacy = (Era[a] = "legacy")
  PROVE  QueueInv'
<1> DEFINE asked == [tool |-> tool, allocation |-> a, legacy |-> legacy]
<1>1. /\ req[r].pc = "idle" /\ StartAttempt(r, 0, slot)
      /\ call' = [call EXCEPT ![r] = asked]
      /\ answered' = [answered EXCEPT ![r] = {q \in Request : req[q].outcome = "ok"}]
      /\ UNCHANGED <<executed, written>>
  BY DEF SendCall, Enter
<1>2. /\ TypeOK /\ call \in [Request -> [tool : Tools \cup {Nobody},
                                         allocation : Allocation \cup {Nobody}, legacy : BOOLEAN]]
      /\ answered \in [Request -> SUBSET Request]
      /\ sent[r] = 0 /\ req[r].outcome # "ok"
  BY <1>1 DEF QueueInv, QueueTypeOK, ClientInv, Counted, CountedFor, AnsweredInv
<1>3. \A q \in Request : Keeps(q)
  BY <1>1, <1>2, StartKeeps
<1>4. /\ answered' \in [Request -> SUBSET Request]
      /\ \A q \in Request : q # r => answered'[q] = answered[q]
      /\ answered'[r] = {q \in Request : req[q].outcome = "ok"}
  BY <1>1, <1>2
<1>5. QueueTypeOK' /\ \A q \in Request : q # r => call'[q] = call[q]
  BY <1>1, <1>4, CallTypes
<1>6. call'[r] = asked
  BY <1>1, <1>2
<1>7. \A q \in Request : q # r => sent'[q] = sent[q]
  BY <1>1 DEF StartAttempt, TypeOK, QueueInv, ClientInv
<1>8. \A q \in Request : sent'[q] > 0 /\ call'[q].tool \in Closing =>
        sent[q] > 0 \/ call'[q].legacy = (Era[call'[q].allocation] = "legacy")
  BY <1>5, <1>6, <1>7
<1> QED
  BY <1>1, <1>2, <1>3, <1>4, <1>5, <1>8, AgentIdle

(* A step after which nothing has been asked that was not asked before. *)
LEMMA NothingAsked ==
  ASSUME QueueInv, ClientInv', UNCHANGED toolVars, \A q \in Request : Keeps(q),
         \A q \in Request : sent[q] = 0 => sent'[q] = 0
  PROVE  QueueInv'
<1>1. UNCHANGED <<call, executed, written, answered>>
  BY DEF toolVars
<1>2. QueueTypeOK'
  BY <1>1 DEF QueueInv, QueueTypeOK, ClientInv
<1>3. \A q \in Request : sent[q] \in Nat /\ sent'[q] \in Nat
  BY DEF QueueInv, ClientInv, TypeOK
<1>4. \A q \in Request : sent'[q] > 0 => sent[q] > 0
  BY <1>3
<1> QED
  BY <1>1, <1>2, <1>4, AgentIdle

LEMMA FailsUnsentInv ==
  ASSUME QueueInv, ClientInv', NEW r \in Request, FailsUnsent(r), UNCHANGED toolVars
  PROVE  QueueInv'
<1>1. TypeOK /\ sent' = sent
  BY DEF FailsUnsent, QueueInv, ClientInv
<1>2. \A q \in Request : Keeps(q)
  BY <1>1, ReturnKeeps DEF FailsUnsent
<1> QED
  BY <1>1, <1>2, NothingAsked

LEMMA EnterAbortedFails ==
  ASSUME NEW r \in Request, EnterAborted(r)
  PROVE  FailsUnsent(r)
BY DEF EnterAborted, FailsUnsent

(* The agent carries out a copy: what it overwrites, if anything, was sent *)
(* before the write whose copy this is had been answered.                  *)
LEMMA ExecuteInv ==
  ASSUME QueueInv, ClientInv', NEW c \in Copy, Execute(c)
  PROVE  QueueInv'
<1> DEFINE r == c[1]
           place == Target(call[r].tool)
<1>1. /\ UNCHANGED vars /\ UNCHANGED <<call, answered>>
      /\ executed' = executed \cup {c}
      /\ c \notin executed /\ c[2] <= sent[r]
      /\ written' = IF call[r].tool \in Writing THEN [written EXCEPT ![place] = r] ELSE written
  BY DEF Execute, OnTheWire
<1>2. /\ r \in Request /\ c[2] \in Nat /\ c[2] >= 1 /\ c = <<r, c[2]>>
      /\ written \in [{"actions", "rules", "costModels"} -> Request \cup {Nobody}]
      /\ sent[r] \in Nat
  BY CopyShape DEF QueueInv, QueueTypeOK, ClientInv, TypeOK
<1>3. UNCHANGED <<slot, req, aborted, sent, overlapped>>
  BY <1>1 DEF vars
<1>4. /\ written' \in [{"actions", "rules", "costModels"} -> Request \cup {Nobody}]
      /\ call[r].tool \in Writing => written'[place] = r
      /\ \A p \in {"actions", "rules", "costModels"} :
           written'[p] = written[p] \/ (written'[p] = r /\ call[r].tool \in Writing)
  <2>1. CASE call[r].tool \in Writing
    <3>1. place \in {"actions", "rules", "costModels"}
      BY <2>1, TargetPlace
    <3> HIDE DEF r, place
    <3> QED
      BY <1>1, <1>2, <2>1, <3>1
  <2>2. CASE call[r].tool \notin Writing
    BY <1>1, <1>2, <2>2
  <2> QED
    BY <2>1, <2>2
<1> HIDE DEF r, place
<1>5. QueueTypeOK'
  BY <1>1, <1>3, <1>4 DEF QueueInv, QueueTypeOK, ClientInv
<1>6. Delivered' /\ AnsweredInv' /\ HistoryInv' /\ ClosesAsRecorded'
  BY <1>1, <1>3 DEF QueueInv, Delivered, AnsweredInv, HistoryInv, ClosesAsRecorded, r
<1>7. Overwritten'
  <2> SUFFICES ASSUME NEW earlier \in Request, NEW later \in Request,
                      Supersedes(later, earlier)', CarriedOut(later)'
               PROVE  written'[Target(call'[later].tool)] # earlier
    BY DEF Overwritten
  <2>1. Supersedes(later, earlier) /\ call' = call
    BY <1>1, <1>3 DEF Supersedes
  <2>2. Target(call[later].tool) \in {"actions", "rules", "costModels"}
    BY <2>1, TargetPlace DEF Supersedes
  <2>3. later # earlier /\ <<earlier, 1>> \in executed
    BY <2>1 DEF Supersedes, QueueInv, HistoryInv, AnsweredInv
  <2>4. r # earlier
    <3> SUFFICES ASSUME r = earlier PROVE FALSE
      OBVIOUS
    <3>1. c[2] = 1
      BY <1>1, <1>2, <2>1 DEF Supersedes
    <3> QED
      BY <1>1, <1>2, <2>3, <3>1
  <2>5. CASE CarriedOut(later)
    BY <1>4, <2>1, <2>2, <2>4, <2>5 DEF QueueInv, Overwritten
  <2>6. CASE ~CarriedOut(later)
    <3>1. r = later
      BY <1>1, <2>6 DEF CarriedOut, r
    <3> QED
      BY <1>4, <2>1, <2>3, <3>1 DEF Supersedes, place
  <2> QED
    BY <2>5, <2>6
<1> QED
  BY <1>5, <1>6, <1>7 DEF QueueInv

-----------------------------------------------------------------------------
LEMMA QueueNextInv == QueueInv /\ [QueueNext]_allVars => QueueInv'
<1> SUFFICES ASSUME QueueInv, [QueueNext]_allVars PROVE QueueInv'
  OBVIOUS
<1>0. ClientInv /\ ClientInv' /\ TypeOK
  BY ClientPart DEF QueueInv, ClientInv
<1>1. ASSUME NEW r \in Request, CallAborted(r) PROVE QueueInv'
  BY <1>0, <1>1, EnterAbortedFails, FailsUnsentInv DEF CallAborted
<1>2. ASSUME NEW r \in Request, RefuseRule(r) PROVE QueueInv'
  <2>1. FailsUnsent(r) /\ UNCHANGED toolVars
    BY <1>2 DEF RefuseRule, FailsUnsent, toolVars
  <2> QED
    BY <1>0, <2>1, FailsUnsentInv
<1>3. ASSUME NEW r \in Request, LookupFinds(r) PROVE QueueInv'
  <2>1. CASE EnterAborted(r) /\ UNCHANGED toolVars
    BY <1>0, <2>1, EnterAbortedFails, FailsUnsentInv
  <2>2. CASE SendCall(r, [call[r] EXCEPT !.legacy = IsLegacy(call[r].allocation)])
    <3> DEFINE tool == call[r].tool
               a == call[r].allocation
               legacy == IsLegacy(a)
    <3>1. /\ call[r] \in [tool : Tools \cup {Nobody}, allocation : Allocation \cup {Nobody},
                          legacy : BOOLEAN]
          /\ tool # Nobody
      BY <1>3 DEF LookupFinds, Looking, Started, QueueInv, QueueTypeOK
    <3>2. [call[r] EXCEPT !.legacy = IsLegacy(call[r].allocation)]
            = [tool |-> tool, allocation |-> a, legacy |-> legacy]
      BY <3>1
    <3>3. tool \in Tools /\ a \in Allocation \cup {Nobody} /\ legacy \in BOOLEAN
          /\ legacy = (Era[a] = "legacy")
      BY <3>1 DEF IsLegacy
    <3>4. SendCall(r, [tool |-> tool, allocation |-> a, legacy |-> legacy])
      BY <2>2, <3>2
    <3> HIDE DEF tool, a, legacy
    <3> QED
      BY <1>0, <3>3, <3>4, SendCallInv
  <2> QED
    BY <1>3, <2>1, <2>2 DEF LookupFinds
<1>4. ASSUME NEW r \in Request, LookupFails(r) PROVE QueueInv'
  <2>1. FailsUnsent(r) /\ UNCHANGED toolVars
    BY <1>4 DEF LookupFails, Looking, GiveUp, FailsUnsent, toolVars
  <2> QED
    BY <1>0, <2>1, FailsUnsentInv
<1>5. ASSUME NEW r \in Request, ClientStep(r) PROVE QueueInv'
  <2>1. UNCHANGED toolVars
    BY <1>5 DEF ClientStep
  <2> QED
    BY <1>0, <1>5, <2>1, ClientStepKeeps, ClientStepResends, NothingAsked
<1>6. ASSUME NEW r \in Request, NEW tool \in Tools, CallTool(r, tool) PROVE QueueInv'
  BY <1>0, <1>6, SendCallInv DEF CallTool
<1>7. ASSUME NEW r \in Request, NEW tool \in Tools, NEW a \in Allocation, CallClosing(r, tool, a)
      PROVE  QueueInv'
  <2>1. /\ req[r].pc = "idle" /\ UNCHANGED vars /\ UNCHANGED <<executed, written, answered>>
        /\ call' = [call EXCEPT ![r] = [tool |-> tool, allocation |-> a, legacy |-> FALSE]]
    BY <1>7 DEF CallClosing
  <2>2. sent[r] = 0
    BY <1>0, <2>1 DEF ClientInv, Counted, CountedFor
  <2>3. QueueTypeOK' /\ \A q \in Request : q # r => call'[q] = call[q]
    BY <1>0, <2>1, CallTypes DEF QueueInv, QueueTypeOK
  <2>4. req' = req /\ sent' = sent
    BY <2>1 DEF vars
  <2>5. \A q \in Request : Keeps(q) /\ sent[q] \in Nat
    BY <1>0, <2>4 DEF Keeps, TypeOK
  <2>6. /\ \A q \in Request : sent[q] > 0 => call'[q] = call[q]
        /\ \A q \in Request : sent'[q] > 0 => sent[q] > 0
        /\ \A q \in Request : answered'[q] = answered[q]
    BY <2>1, <2>2, <2>3, <2>4, <2>5
  <2>7. UNCHANGED <<executed, written>>
    BY <2>1
  <2> QED
    BY <1>0, <2>3, <2>5, <2>6, <2>7, AgentIdle
<1>8. ASSUME NEW c \in Copy, Execute(c) PROVE QueueInv'
  BY <1>0, <1>8, ExecuteInv
<1>9. CASE UNCHANGED allVars
  <2>1. UNCHANGED toolVars /\ req' = req /\ sent' = sent
    BY <1>9 DEF allVars, toolVars
  <2>2. \A q \in Request : Keeps(q)
    BY <1>0, <2>1 DEF Keeps, TypeOK
  <2> QED
    BY <1>0, <2>1, <2>2, NothingAsked
<1> QED
  BY <1>1, <1>2, <1>3, <1>4, <1>5, <1>6, <1>7, <1>8, <1>9 DEF QueueNext, Over

(* The inductive invariant of the queue tools.                             *)
THEOREM QueueInvariance == QueueSpec => []QueueInv
BY QueueInitInv, QueueNextInv, PTL DEF QueueSpec

(* Calls, copies and places are always well typed.                         *)
THEOREM QueueTypeCorrect == QueueSpec => []QueueTypeOK
<1>1. QueueInv => QueueTypeOK
  BY DEF QueueInv
<1> QED
  BY <1>1, QueueInvariance, PTL

(* No query or mutation of a tool goes out more often than its retries and *)
(* one recovery account for, so an action whose answers are all lost       *)
(* reaches the queue at most that often.                                   *)
THEOREM QueueAttemptsAreBounded == QueueSpec => []AttemptsBounded
<1>1. QueueInv => AttemptsBounded
  BY CountedBounds DEF QueueInv
<1> QED
  BY <1>1, QueueInvariance, PTL

(* The agent is asked to close an allocation only under the era that the   *)
(* network subgraph has on record for it.                                  *)
THEOREM ClosesCarryTheirEra == QueueSpec => []ClosesAsRecorded
<1>1. QueueInv => ClosesAsRecorded
  BY DEF QueueInv
<1> QED
  BY <1>1, QueueInvariance, PTL

(* A write that came after another had been answered is not undone by it:  *)
(* the only copy of the earlier one was carried out before it was answered.*)
THEOREM LaterWritesStand == QueueSpec => []LaterWriteStands
<1>1. QueueInv => LaterWriteStands
  <2> SUFFICES ASSUME QueueInv, NEW earlier \in Request, NEW later \in Request,
                      Supersedes(later, earlier), req[later].outcome = "ok"
               PROVE  written[Target(call[later].tool)] # earlier
    BY DEF LaterWriteStands, Supersedes
  <2>1. <<later, sent[later]>> \in executed
    BY DEF QueueInv, AnsweredInv
  <2>2. CarriedOut(later)
    BY <2>1 DEF CarriedOut
  <2> QED
    BY <2>2 DEF QueueInv, Overwritten
<1> QED
  BY <1>1, QueueInvariance, PTL

(* The queue tools hand their signals down: once a caller has given up,    *)
(* nothing more is sent for the call, not even after its lookup.           *)
THEOREM NothingIsQueuedAfterAbort == QueueSpec => NoFetchAfterAbort
<1>1. QueueInv /\ [QueueNext]_allVars => [\A r \in aborted : sent'[r] = sent[r]]_vars
  <2> SUFFICES ASSUME QueueInv, [QueueNext]_allVars, NEW r \in aborted
               PROVE  sent'[r] = sent[r]
    OBVIOUS
  <2>1. CASE [Next]_vars
    BY <2>1, SentAfterAbort DEF QueueInv, ClientInv
  <2>2. CASE \E q \in Request : FailsUnsent(q)
    BY <2>2 DEF FailsUnsent
  <2> QED
    BY <2>1, <2>2, QueueStepIsClientStep
<1> QED
  BY <1>1, QueueInvariance, PTL DEF QueueSpec, NoFetchAfterAbort

=============================================================================
