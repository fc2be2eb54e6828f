--------------------------- MODULE GraphqlClient ---------------------------
(***************************************************************************)
(* The retrying GraphQL client of utils/graphql-client.ts, shared by every *)
(* subgraph, graph-node and indexer-agent client.  The caller's abort      *)
(* signal reaches the fetch through one slot per client: an attempt saves  *)
(* the slot, overwrites it when the call has a signal, starts the fetch    *)
(* (graphql-request calls the fetch shim before it first yields) and       *)
(* restores the saved value when the attempt is over, backoff included.    *)
(*                                                                         *)
(* A signal is named after the request it was passed to.  Each action is   *)
(* one stretch of code between two awaits.                                 *)
(***************************************************************************)
EXTENDS Integers

CONSTANTS
  Request,        \* calls of request() on one client
  Signalled,      \* those that were given an abort signal
  NoSignal,       \* the empty slot
  MaxRetries      \* attempts beyond the first

ASSUME ClientAssumption ==
  /\ Signalled \subseteq Request /\ NoSignal \notin Request
  /\ MaxRetries \in Nat

VARIABLES
  slot,      \* pendingExternalSignal
  req,       \* the frame of each call
  aborted,   \* the signals that have fired
  sent,      \* history: how often the query of each call was sent
  overlapped \* history: a call has begun while another was open

vars == <<slot, req, aborted, sent, overlapped>>

-----------------------------------------------------------------------------
Signal == Signalled \cup {NoSignal}

(* prev is the slot saved by the attempt, heeds the signal its fetch obeys. *)
Frame == [pc : {"idle", "fetching", "recovering", "sleeping", "done"},
          attempt : 0 .. MaxRetries, prev : Signal, heeds : Signal,
          outcome : {"none", "ok", "error", "unparsable", "aborted"}]

Open(r) == req[r].pc \in {"fetching", "recovering", "sleeping"}

Quiet == \A r \in Request : ~Open(r)

(* The call returns, or throws, for good. *)
Return(r, outcome) ==
  req' = [req EXCEPT ![r].pc = "done", ![r].outcome = outcome]

(* What timedFetch finds in the slot when an attempt of r starts. *)
Offer(r, found) == IF r \in Signalled THEN r ELSE found

(* One iteration of the loop up to its first await; found is the slot. *)
StartAttempt(r, attempt, found) ==
  /\ req' = [req EXCEPT ![r] = [pc |-> "fetching", attempt |-> attempt, prev |-> found,
                                heeds |-> Offer(r, found), outcome |-> "none"]]
  /\ slot' = Offer(r, found)
  /\ sent' = [sent EXCEPT ![r] = @ + 1]

(* The finally block. *)
Restore(r) == slot' = req[r].prev

-----------------------------------------------------------------------------
Init ==
  /\ slot = NoSignal
  /\ req = [r \in Request |-> [pc |-> "idle", attempt |-> 0, prev |-> NoSignal,
                               heeds |-> NoSignal, outcome |-> "none"]]
  /\ aborted = {}
  /\ sent = [r \in Request |-> 0]
  /\ overlapped = FALSE

(* request() with a signal that has fired: nothing is sent. *)
EnterAborted(r) ==
  /\ req[r].pc = "idle" /\ r \in aborted
  /\ Return(r, "aborted")
  /\ UNCHANGED <<slot, aborted, sent, overlapped>>

(* request(): the first attempt starts before the call first yields. *)
Enter(r) ==
  /\ req[r].pc = "idle" /\ r \notin aborted
  /\ StartAttempt(r, 0, slot)
  /\ overlapped' = (overlapped \/ ~Quiet)
  /\ UNCHANGED aborted

(* The response arrives and is returned, even if the caller gave up. *)
FetchSucceeds(r) ==
  /\ req[r].pc = "fetching"
  /\ Return(r, "ok")
  /\ Restore(r)
  /\ UNCHANGED <<aborted, sent, overlapped>>

(* Mutant: the retries are counted from one too few.                       *)
RetriableOnceMore(r, transient) ==
  /\ r \notin aborted
  /\ transient
  /\ req[r].attempt <= MaxRetries

Retriable(r, transient) ==
  /\ r \notin aborted
  /\ transient
  /\ req[r].attempt < MaxRetries

(* The caller's own reason is thrown in preference to the fetch's error. *)
GiveUp(r) == Return(r, IF r \in aborted THEN "aborted" ELSE "error")

(* The catch block for an error that is transient or not: the frame stays  *)
(* inside its try statement, slot unrestored, while it sleeps.             *)
Catch(r, transient) ==
  IF Retriable(r, transient)
  THEN req' = [req EXCEPT ![r].pc = "sleeping"] /\ UNCHANGED slot
  ELSE GiveUp(r) /\ Restore(r)

(* A network error, an HTTP status or the client's own timeout. *)
FetchFails(r, transient) ==
  /\ req[r].pc = "fetching"
  /\ Catch(r, transient)
  /\ UNCHANGED <<aborted, sent, overlapped>>

(* The signal the fetch obeys has fired: it rejects with the reason, which *)
(* matches the transient pattern unless the aborter chose another.         *)
FetchCancelled(r, transient) ==
  /\ req[r].pc = "fetching" /\ req[r].heeds \in aborted
  /\ Catch(r, transient)
  /\ UNCHANGED <<aborted, sent, overlapped>>

(* The response envelope cannot be parsed: the query is sent once more,    *)
(* outside the shim, to recover the body.                                  *)
ParseFails(r) ==
  /\ req[r].pc = "fetching"
  /\ IF r \in aborted
     THEN GiveUp(r) /\ Restore(r) /\ UNCHANGED sent
     ELSE /\ req' = [req EXCEPT ![r].pc = "recovering"]
          /\ sent' = [sent EXCEPT ![r] = @ + 1]
          /\ UNCHANGED slot
  /\ UNCHANGED <<aborted, overlapped>>

(* Mutant: what the recovery read is returned as the answer. *)
RecoveryAnswers(r) == req[r].pc = "recovering" /\ Return(r, "ok") /\ Restore(r)
                      /\ UNCHANGED <<aborted, sent, overlapped>>

(* Whatever becomes of the recovery, the parse failure is thrown. *)
RecoveryEnds(r) ==
  /\ req[r].pc = "recovering"
  /\ Return(r, "unparsable")
  /\ Restore(r)
  /\ UNCHANGED <<aborted, sent, overlapped>>

(* Mutant: the sleep clears its timer on an abort but never rejects. *)
SleepForgotten(r) == req[r].pc = "sleeping" /\ r \in aborted /\ UNCHANGED vars

(* The backoff sleep rejects when the caller's own signal fires. *)
SleepAborted(r) ==
  /\ req[r].pc = "sleeping" /\ r \in aborted
  /\ Return(r, "aborted")
  /\ Restore(r)
  /\ UNCHANGED <<aborted, sent, overlapped>>

(* The finally block of an attempt, then the next iteration, in one        *)
(* stretch: the slot it finds is the one it has just restored.             *)
NextAttempt(r) ==
  /\ req[r].pc = "sleeping"
  /\ StartAttempt(r, req[r].attempt + 1, req[r].prev)
  /\ UNCHANGED <<aborted, overlapped>>

(* Mutant: neither the sleep nor the gate of the loop heeds the signal. *)
SleepEndsAnyway(r) == NextAttempt(r)

(* The sleep ends and the per-iteration gate finds the signal unfired. *)
SleepEnds(r) == r \notin aborted /\ NextAttempt(r)

(* A caller fires its signal, at any moment. *)
Abort(r) ==
  /\ r \in Signalled \ aborted
  /\ aborted' = aborted \cup {r}
  /\ UNCHANGED <<slot, req, sent, overlapped>>

-----------------------------------------------------------------------------
FetchEnds(r) ==
  \/ FetchSucceeds(r) \/ ParseFails(r)
  \/ \E transient \in BOOLEAN : FetchFails(r, transient) \/ FetchCancelled(r, transient)

Progress(r) == FetchEnds(r) \/ RecoveryEnds(r) \/ SleepAborted(r) \/ SleepEnds(r)

(* Every call has returned: the client has nothing left to do. *)
Finished == (\A r \in Request : req[r].pc = "done") /\ UNCHANGED vars

Next ==
  \/ \E r \in Request : EnterAborted(r) \/ Enter(r) \/ Progress(r) \/ Abort(r)
  \/ Finished

Spec == Init /\ [][Next]_vars

(* Fetches end (the client's timeout or that of the HTTP stack) and timers *)
(* fire; callers are not obliged to call or to abort.                      *)
FairSpec == Spec /\ \A r \in Request : WF_vars(Progress(r))

-----------------------------------------------------------------------------
TypeOK ==
  /\ slot \in Signal
  /\ req \in [Request -> Frame]
  /\ aborted \subseteq Signalled
  /\ sent \in [Request -> Nat]
  /\ overlapped \in BOOLEAN

(* "client-initiated cancellation propagates all the way to the in-flight  *)
(* HTTP request": whatever overlaps, a fetch of a signalled call obeys the *)
(* signal of that call.                                                    *)
SignalReachesFetch ==
  \A r \in Signalled : req[r].pc = "fetching" => req[r].heeds = r

(* The query of one call goes out at most maxRetries + 1 times, and once   *)
(* more for the recovery of an unparsable answer.                          *)
AttemptsBounded ==
  \A r \in Request :
    sent[r] <= MaxRetries + 1
                 + (IF req[r].pc = "recovering" \/ req[r].outcome = "unparsable" THEN 1 ELSE 0)

(* "must NOT retry": once its own signal has fired, nothing more is sent   *)
(* for a call, be it a retry, a recovery or a first attempt.               *)
NoFetchAfterAbort ==
  [][\A r \in aborted : sent'[r] = sent[r]]_vars

(* "must propagate the caller's own abort reason": a call whose signal has *)
(* fired never ends with the error of a fetch, be it the last attempt's.   *)
AbortReasonWins ==
  [][\A r \in aborted : Open(r) /\ ~Open(r)' => req'[r].outcome # "error"]_vars

(* A fetch obeys no signal of another call.                                *)
OwnSignalOnly ==
  \A r \in Request : req[r].pc = "fetching" => req[r].heeds \in {r, NoSignal}

(* "The finally clears the slot to avoid leaking the signal into a         *)
(* subsequent un-signaled request": between calls the slot is empty.       *)
SlotEmptyWhenQuiet == Quiet => slot = NoSignal

(* Until two calls overlap for the first time, whatever is retried, aborted*)
(* or recovered, no call leaves its signal behind or obeys another's.      *)
SlotSoundUntilOverlap == overlapped \/ (SlotEmptyWhenQuiet /\ OwnSignalOnly)

(* Every call of request() returns or throws. *)
RequestsSettle == \A r \in Request : Open(r) ~> req[r].pc = "done"
=============================================================================
