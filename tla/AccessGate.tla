----------------------------- MODULE AccessGate -----------------------------
(***************************************************************************)
(* Who may call what: checkAccess of access-control.ts in front of every   *)
(* tool, resource and prompt (server/register.ts), with the authorizer of  *)
(* auth/k8s-rbac.ts behind it.  A caller's token is resolved to a subject  *)
(* by a TokenReview and the subject's right to the permission class is     *)
(* asked for by a SubjectAccessReview; each answer is kept for a while.    *)
(*                                                                         *)
(* The apiserver is the environment: the subject of a token and the rights *)
(* of a subject change at any moment, and an answer tells what held when   *)
(* it was computed, not when it arrives.  Each action is one stretch of    *)
(* the code between two awaits.                                            *)
(***************************************************************************)
EXTENDS Integers, FiniteSets

CONSTANTS
  Call,        \* concurrent calls of a gated surface
  Name,        \* names that may be called, resource: and prompt: keys included
  Class,       \* permission classes
  ClassOf,     \* toolPermissions: the class of each registered name
  HardDeny,    \* names on access_overrides.deny
  Allow,       \* names on access_overrides.allow (static authorizer)
  LevelGrants, \* the classes that the access level grants (static authorizer)
  Token,       \* bearer tokens
  NoToken,     \* a request without one
  Subject,     \* a user with its groups
  Nobody,      \* the review of a token that is not authenticated
  Initially,   \* the subject of each token at the start, or Nobody
  Granted,     \* the rights at the start: pairs of a subject and a class
  ReviewTtl,   \* TOKEN_REVIEW_TTL_MS, in ticks
  SarTtl,      \* SAR_TTL_MS
  MaxRequest,  \* the longest an apiserver call may take (REQUEST_TIMEOUT_MS)
  MaxEntries,  \* MAX_CACHE_ENTRIES
  MaxChanges,  \* bound: changes made at the apiserver
  MaxTime      \* bound: clock ticks

ASSUME GateAssumption ==
  /\ DOMAIN ClassOf \subseteq Name /\ \A n \in DOMAIN ClassOf : ClassOf[n] \in Class
  /\ NoToken \notin Token /\ Nobody \notin Subject
  /\ Initially \in [Token -> Subject \cup {Nobody}] /\ Granted \subseteq Subject \X Class
  /\ ReviewTtl \in Nat /\ SarTtl \in Nat /\ MaxRequest \in Nat /\ MaxEntries \in Nat \ {0}
  /\ MaxChanges \in Nat /\ MaxTime \in Nat

VARIABLES
  authorizer,  \* the grant strategy that was installed at start
  boot,        \* how far the start has come
  mayCreate,   \* the reviews that the service account of the server may create
  subjectOf,   \* apiserver: what a token resolves to
  bound,       \* apiserver: whether a subject holds a class
  reviews,     \* tokenReviewCache: token -> [subject, expiresAt]
  verdicts,    \* sarCache: <<token, class>> -> [allowed, expiresAt]
  call,        \* the calls
  decision,    \* history: how the call that this step ended was decided
  wasSubject,  \* history: when a token last resolved to a subject it no longer has
  wasBound,    \* history: when a right last had the value it no longer has
  changes,     \* history: changes made at the apiserver
  now          \* the clock

env == <<mayCreate, subjectOf, bound, wasSubject, wasBound, changes, now>>
vars == <<authorizer, boot, reviews, verdicts, call, decision, env>>

-----------------------------------------------------------------------------
Principal == Subject \cup {Nobody}

(* Older than every bound stated below: "never, as far as anyone knows". *)
LongAgo == -(ReviewTtl + SarTtl + 3 * MaxRequest + 1)

Idle == [pc |-> "idle"]

(* A call waits for a TokenReview or for a SubjectAccessReview; the answer *)
(* is on its way once the apiserver has computed it.                       *)
Reviewing == [pc : {"reviewing"}, name : DOMAIN ClassOf, token : Token, since : Nat]
Reviewed  == [pc : {"reviewed"}, name : DOMAIN ClassOf, token : Token, since : Nat,
              answer : Principal]
Asking    == [pc : {"asking"}, name : DOMAIN ClassOf, token : Token, since : Nat,
              subject : Subject]
Asked     == [pc : {"asked"}, name : DOMAIN ClassOf, token : Token, since : Nat,
              subject : Subject, answer : BOOLEAN]

Review  == [subject : Principal, expiresAt : Nat]
Verdict == [allowed : BOOLEAN, expiresAt : Nat]

NoDecision == [why |-> "none"]
Decision == [name : Name, token : Token \cup {NoToken}, allowed : BOOLEAN, why :
             {"outright", "level", "anonymous", "review", "verdict", "error"}]

Waiting(c) == call[c].pc # "idle"

(* TtlMap.get: an entry counts while the clock is before its expiry; one   *)
(* that has expired is dropped when it is looked up.                       *)
FreshIn(m, k) == k \in DOMAIN m /\ now < m[k].expiresAt

LookedUp(m, k) == [x \in DOMAIN m \ (IF FreshIn(m, k) THEN {} ELSE {k}) |-> m[x]]

(* TtlMap.set: the entry goes to the end of the insertion order, and one   *)
(* entry too many drops the oldest; the time to live is the same for all,  *)
(* so the oldest is one that expires first.  The maps this may result in.  *)
StoredIn(m, k, entry) ==
  LET D == DOMAIN m \cup {k}
      put == [x \in D |-> IF x = k THEN entry ELSE m[x]]
      oldest == {x \in D \ {k} : \A y \in D \ {k} : m[x].expiresAt <= m[y].expiresAt}
  IN  IF Cardinality(D) <= MaxEntries THEN {put}
      ELSE {[y \in D \ {x} |-> put[y]] : x \in oldest}

-----------------------------------------------------------------------------
Init ==
  /\ authorizer \in {"static", "k8s-rbac"}
  /\ boot = "start"
  /\ mayCreate \in SUBSET {"tokenreviews", "subjectaccessreviews"}
  /\ subjectOf = Initially
  /\ bound = [r \in Subject \X Class |-> r \in Granted]
  /\ reviews = [t \in {} |-> 0]
  /\ verdicts = [e \in {} |-> 0]
  /\ call = [c \in Call |-> Idle]
  /\ decision = NoDecision
  /\ wasSubject = [t \in Token |-> [p \in Principal |-> LongAgo]]
  /\ wasBound = [r \in Subject \X Class |-> LongAgo]
  /\ changes = 0
  /\ now = 0

(* init: both kinds of review must be accepted, whatever they answer, or   *)
(* the process ends before it serves anyone.                               *)
SelfCheck ==
  /\ boot = "start" /\ authorizer = "k8s-rbac"
  /\ boot' = IF mayCreate = {"tokenreviews", "subjectaccessreviews"} THEN "up" ELSE "failed"
  /\ decision' = NoDecision
  /\ UNCHANGED <<authorizer, reviews, verdicts, call, env>>

(* An unreadable credential, an apiserver out of reach, a status not 2xx.  *)
SelfCheckFails ==
  /\ boot = "start" /\ authorizer = "k8s-rbac"
  /\ boot' = "failed"
  /\ decision' = NoDecision
  /\ UNCHANGED <<authorizer, reviews, verdicts, call, env>>

(* The static authorizer has nothing to check. *)
StartStatic ==
  /\ boot = "start" /\ authorizer = "static"
  /\ boot' = "up"
  /\ decision' = NoDecision
  /\ UNCHANGED <<authorizer, reviews, verdicts, call, env>>

-----------------------------------------------------------------------------
(* How a call ends: the handler runs, or the caller is told it may not.    *)
(* The token is the one of the request itself.                             *)
End(n, t, allowed, why) ==
  decision' = [name |-> n, token |-> t, allowed |-> allowed, why |-> why]

Refuse(n, t, why) == End(n, t, FALSE, why)

(* checkAccess before any authorizer is asked: the deny list, then names   *)
(* without a class.                                                        *)
RefuseOutright(c, n, t) ==
  /\ boot = "up" /\ ~Waiting(c)
  /\ n \in HardDeny \/ n \notin DOMAIN ClassOf
  /\ Refuse(n, NoToken, "outright")
  /\ UNCHANGED <<authorizer, boot, reviews, verdicts, call, env>>

MayAsk(c, n, kind) ==
  /\ boot = "up" /\ ~Waiting(c)
  /\ n \notin HardDeny /\ n \in DOMAIN ClassOf
  /\ authorizer = kind

AuthorizeStatic(c, n, t) ==
  /\ MayAsk(c, n, "static")
  /\ End(n, t, n \in Allow \/ ClassOf[n] \in LevelGrants, "level")
  /\ UNCHANGED <<authorizer, boot, reviews, verdicts, call, env>>

NoIdentity(c, n) ==
  /\ MayAsk(c, n, "k8s-rbac")
  /\ Refuse(n, NoToken, "anonymous")
  /\ UNCHANGED <<authorizer, boot, reviews, verdicts, call, env>>

(* cachedTokenReview without an entry: the request is sent. *)
SendReview(c, n, t) ==
  /\ MayAsk(c, n, "k8s-rbac") /\ ~FreshIn(reviews, t)
  /\ reviews' = LookedUp(reviews, t)
  /\ call' = [call EXCEPT ![c] = [pc |-> "reviewing", name |-> n, token |-> t, since |-> now]]
  /\ decision' = NoDecision
  /\ UNCHANGED <<authorizer, boot, verdicts, env>>

(* Mutant: the verdict is kept for the class, whoever asked for it. *)
SarKeyOfClass(n, t) == <<NoToken, ClassOf[n]>>

(* The verdict is kept for the token and the class, never for the user. *)
SarKey(n, t) == <<t, ClassOf[n]>>

(* cachedSar, once the subject is known. *)
AskVerdict(c, n, t, s) ==
  LET key == SarKey(n, t)
  IN  /\ verdicts' = LookedUp(verdicts, key)
      /\ IF FreshIn(verdicts, key)
         THEN /\ End(n, t, verdicts[key].allowed, "verdict")
              /\ call' = [call EXCEPT ![c] = Idle]
         ELSE /\ call' = [call EXCEPT ![c] = [pc |-> "asking", name |-> n, token |-> t,
                                              since |-> now, subject |-> s]]
              /\ decision' = NoDecision

(* cachedTokenReview with an entry: a subject, or a remembered refusal. *)
AuthorizeCached(c, n, t) ==
  /\ MayAsk(c, n, "k8s-rbac") /\ FreshIn(reviews, t)
  /\ IF reviews[t].subject = Nobody
     THEN Refuse(n, t, "review") /\ UNCHANGED <<verdicts, call>>
     ELSE AskVerdict(c, n, t, reviews[t].subject)
  /\ UNCHANGED <<authorizer, boot, reviews, env>>

-----------------------------------------------------------------------------
(* The apiserver computes an answer. *)
ApiReviews(c) ==
  /\ call[c].pc = "reviewing"
  /\ call' = [call EXCEPT ![c] = [pc |-> "reviewed", name |-> call[c].name,
                                  token |-> call[c].token, since |-> call[c].since,
                                  answer |-> subjectOf[call[c].token]]]
  /\ decision' = NoDecision
  /\ UNCHANGED <<authorizer, boot, reviews, verdicts, env>>

ApiDecides(c) ==
  /\ call[c].pc = "asking"
  /\ call' = [call EXCEPT ![c] = [pc |-> "asked", name |-> call[c].name,
                                  token |-> call[c].token, since |-> call[c].since,
                                  subject |-> call[c].subject,
                                  answer |-> bound[<<call[c].subject, ClassOf[call[c].name]>>]]]
  /\ decision' = NoDecision
  /\ UNCHANGED <<authorizer, boot, reviews, verdicts, env>>

(* The answer of a TokenReview arrives: kept, be it a subject or nobody. *)
ReviewArrives(c) ==
  /\ call[c].pc = "reviewed"
  /\ LET n == call[c].name
         t == call[c].token
         s == call[c].answer
     IN  /\ reviews' \in StoredIn(reviews, t, [subject |-> s, expiresAt |-> now + ReviewTtl])
         /\ IF s = Nobody
            THEN /\ Refuse(n, t, "review")
                 /\ call' = [call EXCEPT ![c] = Idle]
                 /\ UNCHANGED verdicts
            ELSE AskVerdict(c, n, t, s)
  /\ UNCHANGED <<authorizer, boot, env>>

(* The answer of a SubjectAccessReview arrives: kept, whichever it is. *)
VerdictArrives(c) ==
  /\ call[c].pc = "asked"
  /\ LET n == call[c].name
         t == call[c].token
         b == call[c].answer
     IN  /\ verdicts' \in StoredIn(verdicts, SarKey(n, t),
                                   [allowed |-> b, expiresAt |-> now + SarTtl])
         /\ End(n, t, b, "verdict")
  /\ call' = [call EXCEPT ![c] = Idle]
  /\ UNCHANGED <<authorizer, boot, reviews, env>>

(* Mutant: a failed review is remembered like a refusal. *)
RequestFailsRemembered(c) ==
  /\ Waiting(c)
  /\ Refuse(call[c].name, call[c].token, "error")
  /\ call' = [call EXCEPT ![c] = Idle]
  /\ IF call[c].pc \in {"reviewing", "reviewed"}
     THEN reviews' \in StoredIn(reviews, call[c].token,
                                [subject |-> Nobody, expiresAt |-> now + ReviewTtl])
     ELSE UNCHANGED reviews
  /\ UNCHANGED <<authorizer, boot, verdicts, env>>

(* A timeout, a reset, a status not 2xx, an answer too long or unreadable: *)
(* the caller is refused, and nothing is remembered.                       *)
RequestFails(c) ==
  /\ Waiting(c)
  /\ Refuse(call[c].name, call[c].token, "error")
  /\ call' = [call EXCEPT ![c] = Idle]
  /\ UNCHANGED <<authorizer, boot, reviews, verdicts, env>>

-----------------------------------------------------------------------------
(* The environment. *)
SubjectChanges(t, p) ==
  /\ changes < MaxChanges /\ p # subjectOf[t]
  /\ subjectOf' = [subjectOf EXCEPT ![t] = p]
  /\ wasSubject' = [wasSubject EXCEPT ![t][subjectOf[t]] = now]
  /\ changes' = changes + 1
  /\ decision' = NoDecision
  /\ UNCHANGED <<authorizer, boot, mayCreate, bound, reviews, verdicts, call, wasBound, now>>

RightChanges(r) ==
  /\ changes < MaxChanges
  /\ bound' = [bound EXCEPT ![r] = ~@]
  /\ wasBound' = [wasBound EXCEPT ![r] = now]
  /\ changes' = changes + 1
  /\ decision' = NoDecision
  /\ UNCHANGED <<authorizer, boot, mayCreate, subjectOf, reviews, verdicts, call, wasSubject, now>>

(* Time passes; no request is out for longer than its timeout. *)
TimePasses ==
  /\ now < MaxTime
  /\ \A c \in Call : Waiting(c) => now - call[c].since < MaxRequest
  /\ now' = now + 1
  /\ decision' = NoDecision
  /\ UNCHANGED <<authorizer, boot, mayCreate, subjectOf, bound, reviews, verdicts, call,
                 wasSubject, wasBound, changes>>

Boot == SelfCheck \/ SelfCheckFails \/ StartStatic

CheckAccess(c, n, t) ==
  \/ RefuseOutright(c, n, t)
  \/ AuthorizeStatic(c, n, t)
  \/ t = NoToken /\ NoIdentity(c, n)
  \/ t # NoToken /\ (SendReview(c, n, t) \/ AuthorizeCached(c, n, t))

Respond(c) ==
  ApiReviews(c) \/ ApiDecides(c) \/ ReviewArrives(c) \/ VerdictArrives(c) \/ RequestFails(c)

Environment ==
  \/ \E t \in Token, p \in Principal : SubjectChanges(t, p)
  \/ \E r \in Subject \X Class : RightChanges(r)
  \/ TimePasses

Next ==
  \/ Boot
  \/ \E c \in Call, n \in Name, t \in Token \cup {NoToken} : CheckAccess(c, n, t)
  \/ \E c \in Call : Respond(c)
  \/ Environment

Spec == Init /\ [][Next]_vars

-----------------------------------------------------------------------------
TypeOK ==
  /\ authorizer \in {"static", "k8s-rbac"}
  /\ boot \in {"start", "up", "failed"}
  /\ mayCreate \subseteq {"tokenreviews", "subjectaccessreviews"}
  /\ subjectOf \in [Token -> Principal]
  /\ bound \in [Subject \X Class -> BOOLEAN]
  /\ DOMAIN reviews \subseteq Token /\ \A t \in DOMAIN reviews : reviews[t] \in Review
  /\ DOMAIN verdicts \subseteq Token \X Class
  /\ \A k \in DOMAIN verdicts : verdicts[k] \in Verdict
  /\ call \in [Call -> {Idle} \cup Reviewing \cup Reviewed \cup Asking \cup Asked]
  /\ decision \in {NoDecision} \cup Decision
  /\ wasSubject \in [Token -> [Principal -> Int]]
  /\ wasBound \in [Subject \X Class -> Int]
  /\ changes \in Nat /\ now \in Nat

(* When a token last resolved to p, and when a right last had the value b. *)
LastSubject(t, p) == IF subjectOf[t] = p THEN now ELSE wasSubject[t][p]

LastBound(r, b) == IF bound[r] = b THEN now ELSE wasBound[r]

(* The longest a review, and a verdict, may lag behind the apiserver: an   *)
(* entry is as old as its time to live and the request that fetched it,    *)
(* and a verdict speaks of a subject that a review had given before it.    *)
ReviewLag == ReviewTtl + MaxRequest
SarLag == SarTtl + MaxRequest

(* Some subject that the token had not long before "since" was, not long   *)
(* before "at", such that the class was (b) or was not (~b) granted to it. *)
Spoke(t, k, b, since, at) ==
  \E s \in Subject : LastSubject(t, s) >= since /\ LastBound(<<s, k>>, b) >= at

(* Whoever is let through was entitled to it: by the configuration, or by  *)
(* what the apiserver said of the token, of its groups and of their rights *)
(* within the caches' times to live.  A name on the deny list, or without  *)
(* a class, is let through by nobody.                                      *)
GrantsAreRecent ==
  (decision # NoDecision /\ decision.allowed) =>
    LET n == decision.name
        t == decision.token
    IN  /\ n \in DOMAIN ClassOf \ HardDeny
        /\ authorizer = "static" => n \in Allow \/ ClassOf[n] \in LevelGrants
        /\ authorizer = "k8s-rbac" =>
             /\ t \in Token
             /\ \E s \in Subject : LastSubject(t, s) >= now - ReviewLag - MaxRequest
             /\ Spoke(t, ClassOf[n], TRUE, now - SarLag - ReviewLag, now - SarLag)

(* A refusal is as recent as a grant: nobody is kept out by an answer of   *)
(* the apiserver older than that, and never by the memory of a failure.    *)
RefusalsAreRecent ==
  (decision # NoDecision /\ ~decision.allowed) =>
    LET n == decision.name
        t == decision.token
    IN  /\ decision.why = "review" => LastSubject(t, Nobody) >= now - ReviewLag
        /\ decision.why = "verdict" =>
             Spoke(t, ClassOf[n], FALSE, now - SarLag - ReviewLag, now - SarLag)
=============================================================================
