-------------------------- MODULE AccessGateProofs --------------------------
(***************************************************************************)
(* Proofs about AccessGate, for any callers, names, tokens, subjects and   *)
(* lifetimes, and whatever changes at the apiserver while calls are out:   *)
(* a grant and a refusal are as recent as the lifetimes of the two caches  *)
(* and the time of the requests allow.                                     *)
(***************************************************************************)
EXTENDS AccessGate, TLAPS

(* What the environment keeps, and that the past is over. *)
EnvInv ==
  /\ authorizer \in {"static", "k8s-rbac"}
  /\ boot \in {"start", "up", "failed"}
  /\ mayCreate \subseteq {"tokenreviews", "subjectaccessreviews"}
  /\ subjectOf \in [Token -> Principal]
  /\ bound \in [Subject \X Class -> BOOLEAN]
  /\ wasSubject \in [Token -> [Principal -> Int]]
  /\ wasBound \in [Subject \X Class -> Int]
  /\ changes \in Nat /\ now \in Nat
  /\ \A t \in Token, p \in Principal : wasSubject[t][p] <= now
  /\ \A r \in Subject \X Class : wasBound[r] <= now

(* A kept review tells of a subject that the token had when its request    *)
(* was out.                                                                *)
GoodReview(t, e) ==
  /\ t \in Token /\ e \in Review
  /\ LastSubject(t, e.subject) >= e.expiresAt - ReviewLag

(* A kept verdict tells of a right at that time, of a subject that a       *)
(* review had given before.                                                *)
GoodVerdict(k, e) ==
  /\ k \in Token \X Class /\ e \in Verdict
  /\ Spoke(k[1], k[2], e.allowed, e.expiresAt - SarLag - ReviewLag, e.expiresAt - SarLag)

(* A request that is out is for a name that may be asked for, and not for  *)
(* longer than its timeout.                                                *)
Out(x) ==
  /\ authorizer = "k8s-rbac" /\ x.name \in DOMAIN ClassOf \ HardDeny
  /\ x.since <= now /\ now <= x.since + MaxRequest

GoodCall(x) ==
  \/ x = Idle
  \/ x \in Reviewing /\ Out(x)
  \/ x \in Reviewed /\ Out(x) /\ LastSubject(x.token, x.answer) >= x.since
  \/ x \in Asking /\ Out(x) /\ LastSubject(x.token, x.subject) >= x.since - ReviewLag
  \/ /\ x \in Asked /\ Out(x) /\ LastSubject(x.token, x.subject) >= x.since - ReviewLag
     /\ LastBound(<<x.subject, ClassOf[x.name]>>, x.answer) >= x.since

Recent == GrantsAreRecent /\ RefusalsAreRecent

IInv ==
  /\ EnvInv
  /\ \A t \in DOMAIN reviews : GoodReview(t, reviews[t])
  /\ \A k \in DOMAIN verdicts : GoodVerdict(k, verdicts[k])
  /\ DOMAIN call = Call /\ call = [c \in Call |-> call[c]]
  /\ \A c \in Call : GoodCall(call[c])
  /\ decision \in {NoDecision} \cup Decision
  /\ Recent

-----------------------------------------------------------------------------
(* The same of the state after a step. *)
SubjectNext(t, p) == IF subjectOf'[t] = p THEN now' ELSE wasSubject'[t][p]

BoundNext(r, b) == IF bound'[r] = b THEN now' ELSE wasBound'[r]

SpokeNext(t, k, b, since, at) ==
  \E s \in Subject : SubjectNext(t, s) >= since /\ BoundNext(<<s, k>>, b) >= at

GoodReviewNext(t, e) ==
  /\ t \in Token /\ e \in Review
  /\ SubjectNext(t, e.subject) >= e.expiresAt - ReviewLag

GoodVerdictNext(k, e) ==
  /\ k \in Token \X Class /\ e \in Verdict
  /\ SpokeNext(k[1], k[2], e.allowed, e.expiresAt - SarLag - ReviewLag, e.expiresAt - SarLag)

OutNext(x) ==
  /\ authorizer' = "k8s-rbac" /\ x.name \in DOMAIN ClassOf \ HardDeny
  /\ x.since <= now' /\ now' <= x.since + MaxRequest

GoodCallNext(x) ==
  \/ x = Idle
  \/ x \in Reviewing /\ OutNext(x)
  \/ x \in Reviewed /\ OutNext(x) /\ SubjectNext(x.token, x.answer) >= x.since
  \/ x \in Asking /\ OutNext(x) /\ SubjectNext(x.token, x.subject) >= x.since - ReviewLag
  \/ /\ x \in Asked /\ OutNext(x) /\ SubjectNext(x.token, x.subject) >= x.since - ReviewLag
     /\ BoundNext(<<x.subject, ClassOf[x.name]>>, x.answer) >= x.since

LEMMA NextForm ==
  ASSUME EnvInv', Recent', decision' \in {NoDecision} \cup Decision,
         \A t \in DOMAIN reviews' : GoodReviewNext(t, reviews'[t]),
         \A k \in DOMAIN verdicts' : GoodVerdictNext(k, verdicts'[k]),
         DOMAIN call' = Call, call' = [c \in Call |-> call'[c]],
         \A c \in Call : GoodCallNext(call'[c])
  PROVE  IInv'
<1>1. (\A t \in DOMAIN reviews : GoodReview(t, reviews[t]))'
  BY DEF GoodReview, GoodReviewNext, LastSubject, SubjectNext
<1>2. (\A k \in DOMAIN verdicts : GoodVerdict(k, verdicts[k]))'
  BY DEF GoodVerdict, GoodVerdictNext, Spoke, SpokeNext, LastSubject, SubjectNext,
         LastBound, BoundNext
<1>3. (\A c \in Call : GoodCall(call[c]))'
  BY DEF GoodCall, GoodCallNext, Out, OutNext, LastSubject, SubjectNext,
         LastBound, BoundNext
<1> QED
  BY <1>1, <1>2, <1>3 DEF IInv, Decision, NoDecision

(* What was the case so far was last the case at some time up to now. *)
LEMMA LastIsInt ==
  ASSUME EnvInv
  PROVE  /\ \A t \in Token, p \in Principal :
              LastSubject(t, p) \in Int /\ LastSubject(t, p) <= now
         /\ \A r \in Subject \X Class, b \in BOOLEAN :
              LastBound(r, b) \in Int /\ LastBound(r, b) <= now
  BY DEF EnvInv, LastSubject, LastBound

-----------------------------------------------------------------------------
LEMMA InitInv == Init => IInv
<1> SUFFICES ASSUME Init PROVE IInv
  OBVIOUS
<1>1. LongAgo \in Int /\ LongAgo <= 0
  BY GateAssumption DEF LongAgo
<1>2. subjectOf \in [Token -> Principal]
  BY GateAssumption DEF Init, Principal
<1>3. wasSubject \in [Token -> [Principal -> Int]]
  BY <1>1 DEF Init
<1>4. \A t \in Token, p \in Principal : wasSubject[t][p] <= now
  BY <1>1 DEF Init
<1>5. bound \in [Subject \X Class -> BOOLEAN]
  BY DEF Init
<1>6. wasBound \in [Subject \X Class -> Int] /\ \A r \in Subject \X Class : wasBound[r] <= now
  BY <1>1 DEF Init
<1>7. EnvInv
  BY <1>2, <1>3, <1>4, <1>5, <1>6 DEF Init, EnvInv
<1>8. DOMAIN reviews = {} /\ DOMAIN verdicts = {}
  BY DEF Init
<1>9. call = [c \in Call |-> Idle]
  BY DEF Init
<1>10. decision = NoDecision
  BY DEF Init
<1>11. Recent
  BY <1>10 DEF Recent, GrantsAreRecent, RefusalsAreRecent
<1> QED
  BY <1>7, <1>8, <1>9, <1>10, <1>11 DEF IInv, GoodCall

-----------------------------------------------------------------------------
(* Nothing that is known becomes older by a step of the environment but by *)
(* the time that passes.                                                   *)
LEMMA NothingIsForgotten ==
  ASSUME EnvInv, EnvInv',
         \A t \in Token, p \in Principal : SubjectNext(t, p) >= LastSubject(t, p),
         \A r \in Subject \X Class, b \in BOOLEAN : BoundNext(r, b) >= LastBound(r, b),
         \A t \in Token, p \in Principal : SubjectNext(t, p) \in Int,
         \A r \in Subject \X Class, b \in BOOLEAN : BoundNext(r, b) \in Int
  PROVE  /\ \A t, e : GoodReview(t, e) => GoodReviewNext(t, e)
         /\ \A k, e : GoodVerdict(k, e) => GoodVerdictNext(k, e)
<1>1. ReviewLag \in Nat /\ SarLag \in Nat
  BY GateAssumption DEF ReviewLag, SarLag
<1>2. ASSUME NEW t, NEW e, GoodReview(t, e)
      PROVE  GoodReviewNext(t, e)
  <2>1. t \in Token /\ e \in Review /\ e.subject \in Principal /\ e.expiresAt \in Nat
    BY <1>2 DEF GoodReview, Review
  <2>2. LastSubject(t, e.subject) \in Int
    BY <2>1, LastIsInt
  <2> QED
    BY <1>1, <1>2, <2>1, <2>2 DEF GoodReview, GoodReviewNext
<1>3. ASSUME NEW k, NEW e, GoodVerdict(k, e)
      PROVE  GoodVerdictNext(k, e)
  <2>1. k[1] \in Token /\ k[2] \in Class /\ e \in Verdict /\ e.allowed \in BOOLEAN
        /\ e.expiresAt \in Nat
    BY <1>3 DEF GoodVerdict, Verdict
  <2> DEFINE since == e.expiresAt - SarLag - ReviewLag
             at == e.expiresAt - SarLag
  <2>2. since \in Int /\ at \in Int
    BY <1>1, <2>1
  <2>3. PICK s \in Subject : LastSubject(k[1], s) >= since
                             /\ LastBound(<<s, k[2]>>, e.allowed) >= at
    BY <1>3 DEF GoodVerdict, Spoke
  <2>4. s \in Principal /\ <<s, k[2]>> \in Subject \X Class
    BY <2>1 DEF Principal
  <2>5. LastSubject(k[1], s) \in Int /\ LastBound(<<s, k[2]>>, e.allowed) \in Int
    BY <2>1, <2>4, LastIsInt
  <2> HIDE DEF since, at
  <2>6. SubjectNext(k[1], s) >= since /\ BoundNext(<<s, k[2]>>, e.allowed) >= at
    BY <2>1, <2>2, <2>3, <2>4, <2>5
  <2> QED
    BY <1>3, <2>6 DEF GoodVerdict, GoodVerdictNext, SpokeNext, since, at
<1> QED
  BY <1>2, <1>3

(* The same of the calls that are out, which may still be in time. *)
LEMMA CallsStayGood ==
  ASSUME EnvInv, EnvInv',
         \A t \in Token, p \in Principal : SubjectNext(t, p) >= LastSubject(t, p),
         \A r \in Subject \X Class, b \in BOOLEAN : BoundNext(r, b) >= LastBound(r, b),
         \A t \in Token, p \in Principal : SubjectNext(t, p) \in Int,
         \A r \in Subject \X Class, b \in BOOLEAN : BoundNext(r, b) \in Int,
         NEW x, GoodCall(x), Out(x) => OutNext(x)
  PROVE  GoodCallNext(x)
<1>1. ReviewLag \in Nat
  BY GateAssumption DEF ReviewLag
<1>2. CASE x = Idle
  BY <1>2 DEF GoodCallNext
<1>3. CASE x \in Reviewing /\ Out(x)
  BY <1>3 DEF GoodCallNext
<1>4. CASE x \in Reviewed /\ Out(x) /\ LastSubject(x.token, x.answer) >= x.since
  <2>1. x.token \in Token /\ x.answer \in Principal /\ x.since \in Nat
    BY <1>4 DEF Reviewed
  <2>2. LastSubject(x.token, x.answer) \in Int
    BY <2>1, LastIsInt
  <2>3. SubjectNext(x.token, x.answer) >= x.since
    BY <1>4, <2>1, <2>2
  <2> QED
    BY <1>4, <2>3 DEF GoodCallNext
<1>5. ASSUME x \in Asking \/ x \in Asked,
             LastSubject(x.token, x.subject) >= x.since - ReviewLag
      PROVE  SubjectNext(x.token, x.subject) >= x.since - ReviewLag
  <2>1. x.token \in Token /\ x.subject \in Principal /\ x.since \in Nat
    BY <1>5 DEF Asking, Asked, Principal
  <2>2. LastSubject(x.token, x.subject) \in Int
    BY <2>1, LastIsInt
  <2> QED
    BY <1>1, <1>5, <2>1, <2>2
<1>6. CASE x \in Asking /\ Out(x) /\ LastSubject(x.token, x.subject) >= x.since - ReviewLag
  BY <1>5, <1>6 DEF GoodCallNext
<1>7. CASE /\ x \in Asked /\ Out(x) /\ LastSubject(x.token, x.subject) >= x.since - ReviewLag
           /\ LastBound(<<x.subject, ClassOf[x.name]>>, x.answer) >= x.since
  <2> DEFINE r == <<x.subject, ClassOf[x.name]>>
  <2>1. r \in Subject \X Class /\ x.answer \in BOOLEAN /\ x.since \in Nat
    BY <1>7, GateAssumption DEF Asked
  <2>2. LastBound(r, x.answer) \in Int
    BY <2>1, LastIsInt
  <2>3. BoundNext(r, x.answer) >= x.since
    <3> HIDE DEF r
    <3>1. LastBound(r, x.answer) >= x.since
      BY <1>7 DEF r
    <3> QED
      BY <2>1, <2>2, <3>1
  <2> QED
    BY <1>5, <1>7, <2>3 DEF GoodCallNext
<1> QED
  BY <1>2, <1>3, <1>4, <1>6, <1>7 DEF GoodCall

-----------------------------------------------------------------------------
(* A step of the environment: what it has to show. *)
LEMMA EnvironmentStep ==
  ASSUME IInv, EnvInv',
         UNCHANGED <<authorizer, boot, reviews, verdicts, call>>, decision' = NoDecision,
         \A t \in Token, p \in Principal : SubjectNext(t, p) >= LastSubject(t, p),
         \A r \in Subject \X Class, b \in BOOLEAN : BoundNext(r, b) >= LastBound(r, b),
         \A t \in Token, p \in Principal : SubjectNext(t, p) \in Int,
         \A r \in Subject \X Class, b \in BOOLEAN : BoundNext(r, b) \in Int,
         \A c \in Call : Out(call[c]) /\ Waiting(c) => OutNext(call[c])
  PROVE  IInv'
<1>1. EnvInv
  BY DEF IInv
<1>2. /\ \A t, e : GoodReview(t, e) => GoodReviewNext(t, e)
      /\ \A k, e : GoodVerdict(k, e) => GoodVerdictNext(k, e)
  BY <1>1, NothingIsForgotten
<1>3. ASSUME NEW c \in Call
      PROVE  GoodCallNext(call[c])
  <2>1. GoodCall(call[c])
    BY DEF IInv
  <2>2. CASE call[c] = Idle
    BY <2>2 DEF GoodCallNext
  <2>3. CASE call[c] # Idle
    <3>1. Waiting(c)
      BY <2>1, <2>3 DEF GoodCall, Waiting, Reviewing, Reviewed, Asking, Asked
    <3>2. Out(call[c]) => OutNext(call[c])
      BY <3>1
    <3> QED
      BY <1>1, <2>1, <3>2, CallsStayGood
  <2> QED
    BY <2>2, <2>3
<1>4. Recent'
  BY DEF Recent, GrantsAreRecent, RefusalsAreRecent
<1>5. \A t \in DOMAIN reviews' : GoodReviewNext(t, reviews'[t])
  BY <1>2 DEF IInv
<1>6. \A k \in DOMAIN verdicts' : GoodVerdictNext(k, verdicts'[k])
  BY <1>2 DEF IInv
<1>7. /\ DOMAIN call' = Call /\ call' = [c \in Call |-> call'[c]]
      /\ \A c \in Call : GoodCallNext(call'[c])
  BY <1>3 DEF IInv
<1> QED
  BY <1>4, <1>5, <1>6, <1>7, NextForm

LEMMA SubjectChangesInv ==
  ASSUME IInv, NEW t \in Token, NEW p \in Principal, SubjectChanges(t, p)
  PROVE  IInv'
<1>1. EnvInv
  BY DEF IInv
<1>2. /\ subjectOf' = [subjectOf EXCEPT ![t] = p]
      /\ wasSubject' = [wasSubject EXCEPT ![t][subjectOf[t]] = now]
      /\ changes' = changes + 1 /\ decision' = NoDecision
      /\ UNCHANGED <<authorizer, boot, mayCreate, bound, reviews, verdicts, call, wasBound, now>>
  BY DEF SubjectChanges
<1>3. subjectOf' \in [Token -> Principal]
  BY <1>1, <1>2 DEF EnvInv
<1>4. wasSubject' \in [Token -> [Principal -> Int]]
  BY <1>1, <1>2 DEF EnvInv
<1>5. \A u \in Token, q \in Principal :
        wasSubject'[u][q] = IF u = t /\ q = subjectOf[t] THEN now ELSE wasSubject[u][q]
  BY <1>1, <1>2 DEF EnvInv
<1>6. \A u \in Token, q \in Principal : wasSubject'[u][q] <= now
  BY <1>1, <1>5 DEF EnvInv
<1>7. EnvInv'
  BY <1>1, <1>2, <1>3, <1>4, <1>6 DEF EnvInv
<1>8. \A u \in Token, q \in Principal :
        SubjectNext(u, q) >= LastSubject(u, q) /\ SubjectNext(u, q) \in Int
  BY <1>1, <1>2, <1>5 DEF SubjectNext, LastSubject, EnvInv
<1>9. \A r \in Subject \X Class, b \in BOOLEAN :
        BoundNext(r, b) >= LastBound(r, b) /\ BoundNext(r, b) \in Int
  BY <1>1, <1>2 DEF BoundNext, LastBound, EnvInv
<1>10. \A c \in Call : Out(call[c]) => OutNext(call[c])
  BY <1>2 DEF Out, OutNext
<1> QED
  BY <1>2, <1>7, <1>8, <1>9, <1>10, EnvironmentStep

LEMMA RightChangesInv ==
  ASSUME IInv, NEW r \in Subject \X Class, RightChanges(r)
  PROVE  IInv'
<1>1. EnvInv
  BY DEF IInv
<1>2. /\ bound' = [bound EXCEPT ![r] = ~bound[r]]
      /\ wasBound' = [wasBound EXCEPT ![r] = now]
      /\ changes' = changes + 1 /\ decision' = NoDecision
      /\ UNCHANGED <<authorizer, boot, mayCreate, subjectOf, reviews, verdicts, call,
                     wasSubject, now>>
  BY DEF RightChanges
<1>3. bound' \in [Subject \X Class -> BOOLEAN] /\ wasBound' \in [Subject \X Class -> Int]
  BY <1>1, <1>2 DEF EnvInv
<1>4. \A q \in Subject \X Class :
        /\ wasBound'[q] = IF q = r THEN now ELSE wasBound[q]
        /\ q # r => bound'[q] = bound[q]
  BY <1>1, <1>2 DEF EnvInv
<1>5. \A q \in Subject \X Class : wasBound'[q] <= now
  BY <1>1, <1>4 DEF EnvInv
<1>6. EnvInv'
  BY <1>1, <1>2, <1>3, <1>5 DEF EnvInv
<1>7. \A u \in Token, q \in Principal :
        SubjectNext(u, q) >= LastSubject(u, q) /\ SubjectNext(u, q) \in Int
  BY <1>1, <1>2 DEF SubjectNext, LastSubject, EnvInv
<1>8. \A q \in Subject \X Class, b \in BOOLEAN :
        BoundNext(q, b) >= LastBound(q, b) /\ BoundNext(q, b) \in Int
  BY <1>1, <1>2, <1>4 DEF BoundNext, LastBound, EnvInv
<1>9. \A c \in Call : Out(call[c]) => OutNext(call[c])
  BY <1>2 DEF Out, OutNext
<1> QED
  BY <1>2, <1>6, <1>7, <1>8, <1>9, EnvironmentStep

LEMMA TimePassesInv ==
  ASSUME IInv, TimePasses
  PROVE  IInv'
<1>1. EnvInv
  BY DEF IInv
<1>2. /\ now' = now + 1 /\ decision' = NoDecision
      /\ \A c \in Call : Waiting(c) => now - call[c].since < MaxRequest
      /\ UNCHANGED <<authorizer, boot, mayCreate, subjectOf, bound, reviews, verdicts, call,
                     wasSubject, wasBound, changes>>
  BY DEF TimePasses
<1>3. EnvInv'
  BY <1>1, <1>2 DEF EnvInv
<1>4. \A u \in Token, q \in Principal :
        SubjectNext(u, q) >= LastSubject(u, q) /\ SubjectNext(u, q) \in Int
  BY <1>1, <1>2 DEF SubjectNext, LastSubject, EnvInv
<1>5. \A q \in Subject \X Class, b \in BOOLEAN :
        BoundNext(q, b) >= LastBound(q, b) /\ BoundNext(q, b) \in Int
  BY <1>1, <1>2 DEF BoundNext, LastBound, EnvInv
<1>6. ASSUME NEW c \in Call, Out(call[c]), Waiting(c)
      PROVE  OutNext(call[c])
  <2>1. call[c].since \in Nat
    <3>1. GoodCall(call[c])
      BY DEF IInv
    <3>2. call[c] # Idle
      BY <1>6 DEF Waiting, Idle
    <3> QED
      BY <3>1, <3>2 DEF GoodCall, Reviewing, Reviewed, Asking, Asked
  <2>2. now \in Nat /\ now - call[c].since < MaxRequest
    BY <1>1, <1>2, <1>6 DEF EnvInv
  <2> QED
    BY <1>2, <1>6, <2>1, <2>2, GateAssumption DEF Out, OutNext
<1> QED
  BY <1>2, <1>3, <1>4, <1>5, <1>6, EnvironmentStep

-----------------------------------------------------------------------------
(* A step of the server: what it has to show. *)
LEMMA ServerStep ==
  ASSUME IInv, UNCHANGED <<authorizer, env>>, boot' \in {"start", "up", "failed"},
         Recent', decision' \in {NoDecision} \cup Decision,
         \A t \in DOMAIN reviews' : GoodReview(t, reviews'[t]),
         \A k \in DOMAIN verdicts' : GoodVerdict(k, verdicts'[k]),
         DOMAIN call' = Call, call' = [c \in Call |-> call'[c]],
         \A c \in Call : GoodCall(call'[c])
  PROVE  IInv'
<1>1. /\ \A t, p : SubjectNext(t, p) = LastSubject(t, p)
      /\ \A r, b : BoundNext(r, b) = LastBound(r, b)
  BY DEF env, SubjectNext, LastSubject, BoundNext, LastBound
<1>2. \A x : OutNext(x) <=> Out(x)
  BY DEF env, OutNext, Out
<1>3. \A t, e : GoodReview(t, e) => GoodReviewNext(t, e)
  BY <1>1 DEF GoodReview, GoodReviewNext
<1>4. \A k, e : GoodVerdict(k, e) => GoodVerdictNext(k, e)
  BY <1>1 DEF GoodVerdict, GoodVerdictNext, Spoke, SpokeNext
<1>5. \A x : GoodCall(x) => GoodCallNext(x)
  BY <1>1, <1>2 DEF GoodCall, GoodCallNext
<1>6. EnvInv'
  BY DEF IInv, EnvInv, env
<1> QED
  BY <1>3, <1>4, <1>5, <1>6, NextForm

(* A decision that is as recent as the properties ask. *)
GoodEnd(n, t, allowed, why) ==
  /\ n \in Name /\ t \in Token \cup {NoToken} /\ allowed \in BOOLEAN
  /\ why \in {"outright", "level", "anonymous", "review", "verdict", "error"}
  /\ allowed =>
       /\ n \in DOMAIN ClassOf \ HardDeny
       /\ authorizer = "static" => n \in Allow \/ ClassOf[n] \in LevelGrants
       /\ authorizer = "k8s-rbac" =>
            /\ t \in Token
            /\ \E s \in Subject : LastSubject(t, s) >= now - ReviewLag - MaxRequest
            /\ Spoke(t, ClassOf[n], TRUE, now - SarLag - ReviewLag, now - SarLag)
  /\ ~allowed =>
       /\ why = "review" => LastSubject(t, Nobody) >= now - ReviewLag
       /\ why = "verdict" =>
            Spoke(t, ClassOf[n], FALSE, now - SarLag - ReviewLag, now - SarLag)

LEMMA EndStep ==
  ASSUME UNCHANGED <<authorizer, env>>, NEW n, NEW t, NEW allowed, NEW why,
         End(n, t, allowed, why), GoodEnd(n, t, allowed, why)
  PROVE  decision' \in {NoDecision} \cup Decision /\ Recent'
<1>1. /\ decision'.name = n /\ decision'.token = t /\ decision'.allowed = allowed
      /\ decision'.why = why /\ decision' \in Decision
  BY DEF End, GoodEnd, Decision
<1>2. GrantsAreRecent'
  BY <1>1 DEF GoodEnd, GrantsAreRecent, env, LastSubject, LastBound, Spoke
<1>3. RefusalsAreRecent'
  BY <1>1 DEF GoodEnd, RefusalsAreRecent, env, LastSubject, LastBound, Spoke
<1> QED
  BY <1>1, <1>2, <1>3 DEF Recent

LEMMA NoDecisionStep ==
  ASSUME decision' = NoDecision
  PROVE  decision' \in {NoDecision} \cup Decision /\ Recent'
BY DEF Recent, GrantsAreRecent, RefusalsAreRecent

(* What is left of a cache after a look-up, and what is in it after a store. *)
LEMMA LookedUpShape ==
  ASSUME NEW m, NEW k
  PROVE  /\ DOMAIN LookedUp(m, k) \subseteq DOMAIN m
         /\ \A x \in DOMAIN LookedUp(m, k) : LookedUp(m, k)[x] = m[x]
BY DEF LookedUp

LEMMA StoredShape ==
  ASSUME NEW m, NEW k, NEW entry, NEW after \in StoredIn(m, k, entry)
  PROVE  \A x \in DOMAIN after : IF x = k THEN after[x] = entry
                                 ELSE x \in DOMAIN m /\ after[x] = m[x]
<1> DEFINE D == DOMAIN m \cup {k}
           put == [x \in D |-> IF x = k THEN entry ELSE m[x]]
           oldest == {x \in D \ {k} : \A y \in D \ {k} : m[x].expiresAt <= m[y].expiresAt}
<1>1. after = put \/ \E x \in oldest : after = [y \in D \ {x} |-> put[y]]
  BY DEF StoredIn
<1>2. \A x \in D : put[x] = IF x = k THEN entry ELSE m[x]
  OBVIOUS
<1>3. DOMAIN put = D
  OBVIOUS
<1> HIDE DEF put, oldest
<1>4. CASE after = put
  BY <1>2, <1>3, <1>4
<1>5. CASE \E x \in oldest : after = [y \in D \ {x} |-> put[y]]
  BY <1>2, <1>5
<1> QED
  BY <1>1, <1>4, <1>5

(* A call that ends or goes on. *)
LEMMA CallShape ==
  ASSUME IInv, NEW c \in Call, NEW x, GoodCall(x), call' = [call EXCEPT ![c] = x]
  PROVE  /\ DOMAIN call' = Call /\ call' = [d \in Call |-> call'[d]]
         /\ \A d \in Call : GoodCall(call'[d])
<1>1. DOMAIN call = Call /\ \A d \in Call : GoodCall(call[d])
  BY DEF IInv
<1>2. call' = [d \in Call |-> IF d = c THEN x ELSE call[d]]
  BY <1>1
<1> QED
  BY <1>1, <1>2

(* What the invariant says of the parts a step leaves alone. *)
LEMMA Parts ==
  ASSUME IInv
  PROVE  /\ reviews' = reviews => \A t \in DOMAIN reviews' : GoodReview(t, reviews'[t])
         /\ verdicts' = verdicts => \A k \in DOMAIN verdicts' : GoodVerdict(k, verdicts'[k])
         /\ call' = call => /\ DOMAIN call' = Call /\ call' = [c \in Call |-> call'[c]]
                            /\ \A c \in Call : GoodCall(call'[c])
         /\ boot \in {"start", "up", "failed"}
BY DEF IInv, EnvInv

-----------------------------------------------------------------------------
LEMMA BootInv ==
  ASSUME IInv, Boot
  PROVE  IInv'
<1>1. /\ boot' \in {"start", "up", "failed"} /\ decision' = NoDecision
      /\ UNCHANGED <<authorizer, reviews, verdicts, call, env>>
  BY DEF Boot, SelfCheck, SelfCheckFails, StartStatic
<1> QED
  BY <1>1, Parts, NoDecisionStep, ServerStep

LEMMA RefuseOutrightInv ==
  ASSUME IInv, NEW c \in Call, NEW n \in Name, NEW t, RefuseOutright(c, n, t)
  PROVE  IInv'
<1>1. /\ End(n, NoToken, FALSE, "outright")
      /\ UNCHANGED <<authorizer, boot, reviews, verdicts, call, env>>
  BY DEF RefuseOutright, Refuse
<1>2. GoodEnd(n, NoToken, FALSE, "outright")
  BY DEF GoodEnd
<1> QED
  BY <1>1, <1>2, Parts, EndStep, ServerStep

LEMMA AuthorizeStaticInv ==
  ASSUME IInv, NEW c \in Call, NEW n \in Name, NEW t \in Token \cup {NoToken},
         AuthorizeStatic(c, n, t)
  PROVE  IInv'
<1> DEFINE granted == n \in Allow \/ ClassOf[n] \in LevelGrants
<1>1. /\ MayAsk(c, n, "static") /\ End(n, t, granted, "level")
      /\ UNCHANGED <<authorizer, boot, reviews, verdicts, call, env>>
  BY DEF AuthorizeStatic
<1>2. n \in DOMAIN ClassOf \ HardDeny /\ authorizer = "static"
  BY <1>1 DEF MayAsk
<1>3. GoodEnd(n, t, granted, "level")
  BY <1>2 DEF GoodEnd
<1> HIDE DEF granted
<1> QED
  BY <1>1, <1>3, Parts, EndStep, ServerStep

LEMMA NoIdentityInv ==
  ASSUME IInv, NEW c \in Call, NEW n \in Name, NoIdentity(c, n)
  PROVE  IInv'
<1>1. /\ End(n, NoToken, FALSE, "anonymous")
      /\ UNCHANGED <<authorizer, boot, reviews, verdicts, call, env>>
  BY DEF NoIdentity, Refuse
<1>2. GoodEnd(n, NoToken, FALSE, "anonymous")
  BY DEF GoodEnd
<1> QED
  BY <1>1, <1>2, Parts, EndStep, ServerStep

LEMMA SendReviewInv ==
  ASSUME IInv, NEW c \in Call, NEW n \in Name, NEW t \in Token, SendReview(c, n, t)
  PROVE  IInv'
<1> DEFINE x == [pc |-> "reviewing", name |-> n, token |-> t, since |-> now]
<1>1. /\ MayAsk(c, n, "k8s-rbac") /\ reviews' = LookedUp(reviews, t)
      /\ call' = [call EXCEPT ![c] = x] /\ decision' = NoDecision
      /\ UNCHANGED <<authorizer, boot, verdicts, env>>
  BY DEF SendReview
<1>2. n \in DOMAIN ClassOf \ HardDeny /\ authorizer = "k8s-rbac"
  BY <1>1 DEF MayAsk
<1>3. now \in Nat
  BY DEF IInv, EnvInv
<1>4. GoodCall(x)
  BY <1>2, <1>3, GateAssumption DEF GoodCall, Reviewing, Out
<1>5. \A u \in DOMAIN reviews' : GoodReview(u, reviews'[u])
  BY <1>1, LookedUpShape DEF IInv
<1> HIDE DEF x
<1> QED
  BY <1>1, <1>4, <1>5, CallShape, Parts, NoDecisionStep, ServerStep

(* Once the subject is known: what a recent review says of the token. *)
LEMMA AskVerdictInv ==
  ASSUME IInv, NEW c \in Call, NEW n \in DOMAIN ClassOf \ HardDeny, NEW t \in Token,
         NEW s \in Subject, authorizer = "k8s-rbac",
         LastSubject(t, s) >= now - ReviewLag, AskVerdict(c, n, t, s),
         \A u \in DOMAIN reviews' : GoodReview(u, reviews'[u]),
         UNCHANGED <<authorizer, boot, env>>
  PROVE  IInv'
<1> DEFINE key == SarKey(n, t)
           x == [pc |-> "asking", name |-> n, token |-> t, since |-> now, subject |-> s]
<1>1. /\ verdicts' = LookedUp(verdicts, key)
      /\ IF FreshIn(verdicts, key)
         THEN End(n, t, verdicts[key].allowed, "verdict") /\ call' = [call EXCEPT ![c] = Idle]
         ELSE call' = [call EXCEPT ![c] = x] /\ decision' = NoDecision
  BY DEF AskVerdict
<1>2. now \in Nat /\ n \in Name /\ ClassOf[n] \in Class
  BY GateAssumption DEF IInv, EnvInv
<1>3. \A k \in DOMAIN verdicts' : GoodVerdict(k, verdicts'[k])
  BY <1>1, LookedUpShape DEF IInv
<1>4. CASE FreshIn(verdicts, key)
  <2> DEFINE e == verdicts[key]
  <2>1. key \in DOMAIN verdicts /\ now < e.expiresAt
    BY <1>4 DEF FreshIn
  <2>2. GoodVerdict(key, e)
    BY <2>1 DEF IInv
  <2>3. key[1] = t /\ key[2] = ClassOf[n]
    BY DEF SarKey
  <2>4. e.allowed \in BOOLEAN /\ e.expiresAt \in Nat
    BY <2>2 DEF GoodVerdict, Verdict
  <2>5. ReviewLag \in Nat /\ SarLag \in Nat
    BY GateAssumption DEF ReviewLag, SarLag
  <2>6. PICK p \in Subject : /\ LastSubject(t, p) >= e.expiresAt - SarLag - ReviewLag
                             /\ LastBound(<<p, ClassOf[n]>>, e.allowed) >= e.expiresAt - SarLag
    BY <2>2, <2>3 DEF GoodVerdict, Spoke
  <2>7. /\ LastSubject(t, p) \in Int /\ LastSubject(t, s) \in Int
        /\ LastBound(<<p, ClassOf[n]>>, e.allowed) \in Int
    BY <1>2, <2>4, LastIsInt DEF IInv, Principal
  <2> HIDE DEF e, key
  <2>8. Spoke(t, ClassOf[n], e.allowed, now - SarLag - ReviewLag, now - SarLag)
    <3>1. /\ LastSubject(t, p) >= now - SarLag - ReviewLag
          /\ LastBound(<<p, ClassOf[n]>>, e.allowed) >= now - SarLag
      BY <1>2, <2>1, <2>4, <2>5, <2>6, <2>7
    <3> QED
      BY <3>1 DEF Spoke
  <2>9. LastSubject(t, s) >= now - ReviewLag - MaxRequest
    BY <1>2, <2>5, <2>7, GateAssumption
  <2>10. GoodEnd(n, t, e.allowed, "verdict")
    BY <1>2, <2>4, <2>8, <2>9 DEF GoodEnd
  <2>11. End(n, t, e.allowed, "verdict") /\ call' = [call EXCEPT ![c] = Idle]
    BY <1>1, <1>4 DEF e
  <2>12. GoodCall(Idle)
    BY DEF GoodCall
  <2> QED
    BY <1>3, <2>10, <2>11, <2>12, CallShape, Parts, EndStep, ServerStep
<1>5. CASE ~FreshIn(verdicts, key)
  <2>1. GoodCall(x)
    BY <1>2, GateAssumption DEF GoodCall, Asking, Out
  <2> HIDE DEF x
  <2>2. call' = [call EXCEPT ![c] = x] /\ decision' = NoDecision
    BY <1>1, <1>5
  <2> QED
    BY <1>3, <2>1, <2>2, CallShape, Parts, NoDecisionStep, ServerStep
<1> QED
  BY <1>4, <1>5

LEMMA AuthorizeCachedInv ==
  ASSUME IInv, NEW c \in Call, NEW n \in Name, NEW t \in Token, AuthorizeCached(c, n, t)
  PROVE  IInv'
<1> DEFINE e == reviews[t]
<1>1. /\ MayAsk(c, n, "k8s-rbac") /\ FreshIn(reviews, t)
      /\ IF e.subject = Nobody
         THEN End(n, t, FALSE, "review") /\ UNCHANGED <<verdicts, call>>
         ELSE AskVerdict(c, n, t, e.subject)
      /\ UNCHANGED <<authorizer, boot, reviews, env>>
  BY DEF AuthorizeCached, Refuse
<1>2. n \in DOMAIN ClassOf \ HardDeny /\ authorizer = "k8s-rbac"
  BY <1>1 DEF MayAsk
<1>3. t \in DOMAIN reviews /\ now < e.expiresAt
  BY <1>1 DEF FreshIn
<1>4. GoodReview(t, e)
  BY <1>3 DEF IInv
<1>5. e.subject \in Principal /\ e.expiresAt \in Nat
      /\ LastSubject(t, e.subject) >= e.expiresAt - ReviewLag
  BY <1>4 DEF GoodReview, Review
<1>6. now \in Nat /\ ReviewLag \in Nat /\ LastSubject(t, e.subject) \in Int
  BY <1>5, LastIsInt, GateAssumption DEF IInv, EnvInv, ReviewLag
<1> HIDE DEF e
<1>7. LastSubject(t, e.subject) >= now - ReviewLag
  BY <1>3, <1>5, <1>6
<1>8. CASE e.subject = Nobody
  <2>1. GoodEnd(n, t, FALSE, "review")
    BY <1>7, <1>8 DEF GoodEnd
  <2> QED
    BY <1>1, <1>8, <2>1, Parts, EndStep, ServerStep
<1>9. CASE e.subject # Nobody
  <2>1. e.subject \in Subject
    BY <1>5, <1>9 DEF Principal
  <2>2. AskVerdict(c, n, t, e.subject) /\ UNCHANGED <<authorizer, boot, reviews, env>>
    BY <1>1, <1>9
  <2>3. \A u \in DOMAIN reviews' : GoodReview(u, reviews'[u])
    BY <2>2, Parts
  <2> QED
    BY <1>2, <1>7, <2>1, <2>2, <2>3, AskVerdictInv
<1> QED
  BY <1>8, <1>9

-----------------------------------------------------------------------------
(* What is known of a call by where it is. *)
LEMMA CallAt ==
  ASSUME IInv, NEW c \in Call, Waiting(c)
  PROVE  /\ call[c].name \in DOMAIN ClassOf \ HardDeny /\ call[c].name \in Name
         /\ ClassOf[call[c].name] \in Class
         /\ call[c].token \in Token /\ call[c].since \in Nat /\ Out(call[c])
         /\ call[c].pc = "reviewing" => call[c] \in Reviewing
         /\ call[c].pc = "reviewed" =>
              /\ call[c] \in Reviewed
              /\ LastSubject(call[c].token, call[c].answer) >= call[c].since
         /\ call[c].pc = "asking" =>
              /\ call[c] \in Asking
              /\ LastSubject(call[c].token, call[c].subject) >= call[c].since - ReviewLag
         /\ call[c].pc = "asked" =>
              /\ call[c] \in Asked
              /\ LastSubject(call[c].token, call[c].subject) >= call[c].since - ReviewLag
              /\ LastBound(<<call[c].subject, ClassOf[call[c].name]>>, call[c].answer)
                   >= call[c].since
<1>1. GoodCall(call[c]) /\ call[c] # Idle
  BY DEF IInv, Waiting, Idle
<1>2. /\ call[c] \in Reviewing => call[c].pc = "reviewing"
      /\ call[c] \in Reviewed => call[c].pc = "reviewed"
      /\ call[c] \in Asking => call[c].pc = "asking"
      /\ call[c] \in Asked => call[c].pc = "asked"
  BY DEF Reviewing, Reviewed, Asking, Asked
<1>3. call[c] \in Reviewing \cup Reviewed \cup Asking \cup Asked /\ Out(call[c])
  BY <1>1 DEF GoodCall
<1>4. call[c].name \in DOMAIN ClassOf /\ call[c].token \in Token /\ call[c].since \in Nat
  BY <1>3 DEF Reviewing, Reviewed, Asking, Asked
<1>5. call[c].name \in DOMAIN ClassOf \ HardDeny
  BY <1>3 DEF Out
<1> QED
  BY <1>1, <1>2, <1>3, <1>4, <1>5, GateAssumption DEF GoodCall

LEMMA ApiReviewsInv ==
  ASSUME IInv, NEW c \in Call, ApiReviews(c)
  PROVE  IInv'
<1> DEFINE x == [pc |-> "reviewed", name |-> call[c].name, token |-> call[c].token,
                 since |-> call[c].since, answer |-> subjectOf[call[c].token]]
<1>1. /\ call[c].pc = "reviewing" /\ call' = [call EXCEPT ![c] = x]
      /\ decision' = NoDecision
      /\ UNCHANGED <<authorizer, boot, reviews, verdicts, env>>
  BY DEF ApiReviews
<1>2. Waiting(c)
  BY <1>1 DEF Waiting
<1>3. /\ call[c].name \in DOMAIN ClassOf /\ call[c].token \in Token
      /\ call[c].since \in Nat /\ Out(call[c])
  BY <1>2, CallAt
<1>4. subjectOf[call[c].token] \in Principal
  BY <1>3 DEF IInv, EnvInv
<1>5. LastSubject(call[c].token, subjectOf[call[c].token]) >= call[c].since
  BY <1>3 DEF LastSubject, Out
<1>6. x \in Reviewed /\ Out(x) /\ LastSubject(x.token, x.answer) >= x.since
  BY <1>3, <1>4, <1>5 DEF Reviewed, Out
<1> HIDE DEF x
<1>7. GoodCall(x)
  BY <1>6 DEF GoodCall
<1> QED
  BY <1>1, <1>7, CallShape, Parts, NoDecisionStep, ServerStep

LEMMA ApiDecidesInv ==
  ASSUME IInv, NEW c \in Call, ApiDecides(c)
  PROVE  IInv'
<1> DEFINE r == <<call[c].subject, ClassOf[call[c].name]>>
           x == [pc |-> "asked", name |-> call[c].name, token |-> call[c].token,
                 since |-> call[c].since, subject |-> call[c].subject, answer |-> bound[r]]
<1>1. /\ call[c].pc = "asking" /\ call' = [call EXCEPT ![c] = x]
      /\ decision' = NoDecision
      /\ UNCHANGED <<authorizer, boot, reviews, verdicts, env>>
  BY DEF ApiDecides
<1>2. Waiting(c)
  BY <1>1 DEF Waiting
<1>3. /\ call[c].name \in DOMAIN ClassOf /\ call[c].token \in Token
      /\ ClassOf[call[c].name] \in Class
      /\ call[c].since \in Nat /\ Out(call[c]) /\ call[c] \in Asking
      /\ LastSubject(call[c].token, call[c].subject) >= call[c].since - ReviewLag
  BY <1>1, <1>2, CallAt
<1>4. call[c].subject \in Subject
  BY <1>3 DEF Asking
<1>5. bound[r] \in BOOLEAN
  BY <1>3, <1>4 DEF IInv, EnvInv
<1>6. LastBound(r, bound[r]) >= call[c].since
  BY <1>3 DEF LastBound, Out
<1>7. /\ x \in Asked /\ Out(x) /\ LastSubject(x.token, x.subject) >= x.since - ReviewLag
      /\ LastBound(<<x.subject, ClassOf[x.name]>>, x.answer) >= x.since
  BY <1>3, <1>4, <1>5, <1>6 DEF Asked, Out
<1> HIDE DEF x, r
<1>8. GoodCall(x)
  BY <1>7 DEF GoodCall
<1> QED
  BY <1>1, <1>8, CallShape, Parts, NoDecisionStep, ServerStep

LEMMA ReviewArrivesInv ==
  ASSUME IInv, NEW c \in Call, ReviewArrives(c)
  PROVE  IInv'
<1> DEFINE n == call[c].name
           t == call[c].token
           s == call[c].answer
           entry == [subject |-> s, expiresAt |-> now + ReviewTtl]
<1>1. /\ call[c].pc = "reviewed" /\ reviews' \in StoredIn(reviews, t, entry)
      /\ IF s = Nobody
         THEN End(n, t, FALSE, "review") /\ call' = [call EXCEPT ![c] = Idle]
              /\ UNCHANGED verdicts
         ELSE AskVerdict(c, n, t, s)
      /\ UNCHANGED <<authorizer, boot, env>>
  BY DEF ReviewArrives, Refuse
<1>2. Waiting(c)
  BY <1>1 DEF Waiting
<1>3. /\ n \in DOMAIN ClassOf \ HardDeny /\ n \in Name /\ t \in Token
      /\ call[c].since \in Nat /\ Out(call[c]) /\ call[c] \in Reviewed
      /\ LastSubject(t, s) >= call[c].since
  BY <1>1, <1>2, CallAt
<1>4. s \in Principal /\ now \in Nat
  BY <1>3 DEF Reviewed, IInv, EnvInv
<1>5. LastSubject(t, s) \in Int
  BY <1>3, <1>4, LastIsInt DEF IInv
<1>6. now <= call[c].since + MaxRequest /\ authorizer = "k8s-rbac"
  BY <1>3 DEF Out
<1>7. /\ LastSubject(t, s) >= now - ReviewLag
      /\ LastSubject(t, s) >= (now + ReviewTtl) - ReviewLag
  BY <1>3, <1>4, <1>5, <1>6, GateAssumption DEF ReviewLag
<1>8. GoodReview(t, entry)
  <2>1. entry \in Review /\ entry.subject = s /\ entry.expiresAt = now + ReviewTtl
    BY <1>4, GateAssumption DEF Review
  <2> QED
    BY <1>3, <1>7, <2>1 DEF GoodReview
<1> HIDE DEF entry
<1>9. \A u \in DOMAIN reviews' : GoodReview(u, reviews'[u])
  <2>1. \A u \in DOMAIN reviews' : IF u = t THEN reviews'[u] = entry
                                   ELSE u \in DOMAIN reviews /\ reviews'[u] = reviews[u]
    BY <1>1, StoredShape
  <2> HIDE DEF t
  <2> QED
    BY <1>8, <2>1 DEF IInv
<1>10. CASE s = Nobody
  <2> HIDE DEF n, t, s
  <2>1. GoodEnd(n, t, FALSE, "review")
    BY <1>3, <1>7, <1>10 DEF GoodEnd
  <2>2. GoodCall(Idle)
    BY DEF GoodCall
  <2> QED
    BY <1>1, <1>9, <1>10, <2>1, <2>2, CallShape, Parts, EndStep, ServerStep
<1>11. CASE s # Nobody
  <2> HIDE DEF n, t, s
  <2>1. s \in Subject
    BY <1>4, <1>11 DEF Principal
  <2> QED
    BY <1>1, <1>3, <1>6, <1>7, <1>9, <1>11, <2>1, AskVerdictInv
<1> QED
  BY <1>10, <1>11

LEMMA VerdictArrivesInv ==
  ASSUME IInv, NEW c \in Call, VerdictArrives(c)
  PROVE  IInv'
<1> DEFINE n == call[c].name
           t == call[c].token
           s == call[c].subject
           b == call[c].answer
           entry == [allowed |-> b, expiresAt |-> now + SarTtl]
<1>1. /\ call[c].pc = "asked" /\ verdicts' \in StoredIn(verdicts, SarKey(n, t), entry)
      /\ End(n, t, b, "verdict") /\ call' = [call EXCEPT ![c] = Idle]
      /\ UNCHANGED <<authorizer, boot, reviews, env>>
  BY DEF VerdictArrives
<1>2. Waiting(c)
  BY <1>1 DEF Waiting
<1>3. /\ n \in DOMAIN ClassOf \ HardDeny /\ n \in Name /\ t \in Token
      /\ ClassOf[n] \in Class
      /\ call[c].since \in Nat /\ Out(call[c]) /\ call[c] \in Asked
      /\ LastSubject(t, s) >= call[c].since - ReviewLag
      /\ LastBound(<<s, ClassOf[n]>>, b) >= call[c].since
  BY <1>1, <1>2, CallAt
<1>4. s \in Subject /\ b \in BOOLEAN /\ now \in Nat /\ s \in Principal
  BY <1>3 DEF Asked, IInv, EnvInv, Principal
<1>5. LastSubject(t, s) \in Int /\ LastBound(<<s, ClassOf[n]>>, b) \in Int
  BY <1>3, <1>4, LastIsInt DEF IInv
<1>6. now <= call[c].since + MaxRequest
  BY <1>3 DEF Out
<1>7. /\ LastSubject(t, s) >= now - ReviewLag - MaxRequest
      /\ LastSubject(t, s) >= now - SarLag - ReviewLag
      /\ LastSubject(t, s) >= (now + SarTtl) - SarLag - ReviewLag
      /\ LastBound(<<s, ClassOf[n]>>, b) >= now - SarLag
      /\ LastBound(<<s, ClassOf[n]>>, b) >= (now + SarTtl) - SarLag
  BY <1>3, <1>4, <1>5, <1>6, GateAssumption DEF ReviewLag, SarLag
<1>8. GoodVerdict(SarKey(n, t), entry)
  <2>1. entry \in Verdict /\ entry.allowed = b /\ entry.expiresAt = now + SarTtl
    BY <1>4, GateAssumption DEF Verdict
  <2>2. SarKey(n, t) = <<t, ClassOf[n]>>
    BY DEF SarKey
  <2> HIDE DEF entry, n, t, s, b
  <2> QED
    BY <1>3, <1>4, <1>7, <2>1, <2>2 DEF GoodVerdict, Spoke
<1> HIDE DEF entry, n, t, s, b
<1>9. \A k \in DOMAIN verdicts' : GoodVerdict(k, verdicts'[k])
  <2>1. \A k \in DOMAIN verdicts' : IF k = SarKey(n, t) THEN verdicts'[k] = entry
                                    ELSE k \in DOMAIN verdicts /\ verdicts'[k] = verdicts[k]
    BY <1>1, StoredShape
  <2> QED
    BY <1>8, <2>1 DEF IInv
<1>10. GoodEnd(n, t, b, "verdict")
  <2>1. Spoke(t, ClassOf[n], b, now - SarLag - ReviewLag, now - SarLag)
    BY <1>4, <1>7 DEF Spoke
  <2>2. \E p \in Subject : LastSubject(t, p) >= now - ReviewLag - MaxRequest
    BY <1>4, <1>7
  <2>3. n \in Name /\ n \in DOMAIN ClassOf \ HardDeny /\ t \in Token
        /\ authorizer = "k8s-rbac"
    BY <1>3 DEF Out
  <2>4. CASE b = TRUE
    BY <2>1, <2>2, <2>3, <2>4 DEF GoodEnd
  <2>5. CASE b = FALSE
    BY <2>1, <2>3, <2>5 DEF GoodEnd
  <2> QED
    BY <1>4, <2>4, <2>5
<1>11. GoodCall(Idle)
  BY DEF GoodCall
<1> QED
  BY <1>1, <1>9, <1>10, <1>11, CallShape, Parts, EndStep, ServerStep

LEMMA RequestFailsInv ==
  ASSUME IInv, NEW c \in Call, RequestFails(c)
  PROVE  IInv'
<1>1. /\ Waiting(c) /\ End(call[c].name, call[c].token, FALSE, "error")
      /\ call' = [call EXCEPT ![c] = Idle]
      /\ UNCHANGED <<authorizer, boot, reviews, verdicts, env>>
  BY DEF RequestFails, Refuse
<1>2. call[c].name \in Name /\ call[c].token \in Token
  BY <1>1, CallAt
<1>3. GoodEnd(call[c].name, call[c].token, FALSE, "error")
  BY <1>2 DEF GoodEnd
<1>4. GoodCall(Idle)
  BY DEF GoodCall
<1> QED
  BY <1>1, <1>3, <1>4, CallShape, Parts, EndStep, ServerStep

LEMMA NextInv == IInv /\ [Next]_vars => IInv'
<1> SUFFICES ASSUME IInv, [Next]_vars PROVE IInv'
  OBVIOUS
<1>1. CASE Boot
  BY <1>1, BootInv
<1>2. ASSUME NEW c \in Call, NEW n \in Name, NEW t \in Token \cup {NoToken},
             CheckAccess(c, n, t)
      PROVE  IInv'
  BY <1>2, RefuseOutrightInv, AuthorizeStaticInv, NoIdentityInv, SendReviewInv,
     AuthorizeCachedInv DEF CheckAccess
<1>3. ASSUME NEW c \in Call, Respond(c)
      PROVE  IInv'
  BY <1>3, ApiReviewsInv, ApiDecidesInv, ReviewArrivesInv, VerdictArrivesInv,
     RequestFailsInv DEF Respond
<1>4. CASE Environment
  BY <1>4, SubjectChangesInv, RightChangesInv, TimePassesInv DEF Environment
<1>5. CASE UNCHANGED vars
  <2>1. Recent' /\ decision' \in {NoDecision} \cup Decision
    BY <1>5 DEF IInv, vars, env, Recent, GrantsAreRecent, RefusalsAreRecent,
                LastSubject, LastBound, Spoke
  <2>2. UNCHANGED <<authorizer, env>> /\ UNCHANGED <<boot, reviews, verdicts, call>>
    BY <1>5 DEF vars
  <2> QED
    BY <2>1, <2>2, Parts, ServerStep
<1> QED
  BY <1>1, <1>2, <1>3, <1>4, <1>5 DEF Next

-----------------------------------------------------------------------------
(* The two review caches, the calls and their decisions keep their types.  *)
THEOREM TypeCorrect == Spec => []TypeOK
<1>1. IInv => TypeOK
  <2> SUFFICES ASSUME IInv PROVE TypeOK
    OBVIOUS
  <2>1. \A c \in Call : call[c] \in {Idle} \cup Reviewing \cup Reviewed \cup Asking \cup Asked
    BY DEF IInv, GoodCall
  <2>2. call \in [Call -> {Idle} \cup Reviewing \cup Reviewed \cup Asking \cup Asked]
    <3>1. call = [c \in Call |-> call[c]]
      BY DEF IInv
    <3> QED
      BY <2>1, <3>1
  <2>3. DOMAIN reviews \subseteq Token /\ \A t \in DOMAIN reviews : reviews[t] \in Review
    BY DEF IInv, GoodReview
  <2>4. /\ DOMAIN verdicts \subseteq Token \X Class
        /\ \A k \in DOMAIN verdicts : verdicts[k] \in Verdict
    BY DEF IInv, GoodVerdict
  <2> QED
    BY <2>2, <2>3, <2>4 DEF IInv, EnvInv, TypeOK
<1> QED
  BY InitInv, NextInv, <1>1, PTL DEF Spec

(* Whoever checkAccess of access-control.ts lets through was entitled to   *)
(* it by the configuration, or by rights of its own token that the         *)
(* apiserver confirmed within the lifetimes of auth/k8s-rbac.ts.           *)
THEOREM GrantsStayRecent == Spec => []GrantsAreRecent
<1>1. IInv => GrantsAreRecent
  BY DEF IInv, Recent
<1> QED
  BY InitInv, NextInv, <1>1, PTL DEF Spec

(* Whoever is refused by a review is refused by one as recent, and never   *)
(* because a request had failed before.                                    *)
THEOREM RefusalsStayRecent == Spec => []RefusalsAreRecent
<1>1. IInv => RefusalsAreRecent
  BY DEF IInv, Recent
<1> QED
  BY InitInv, NextInv, <1>1, PTL DEF Spec

=============================================================================
