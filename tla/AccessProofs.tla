---------------------------- MODULE AccessProofs -----------------------------
(***************************************************************************)
(* Machine-checked proofs of the safety properties of Access, for any set  *)
(* of requests and of relations and for any lifetimes of links and copies. *)
(*                                                                         *)
(* The inductive invariant says what the shared cache can hold             *)
(* (CacheShared) and what a handler can have answered (AnswerSound).       *)
(***************************************************************************)
EXTENDS Access, TLAPS

(* The edge holds answers about public packages only, without a signed link, *)
(* and those with a pending rating are marked as brief.                      *)
Shareable(a) ==
    /\ a.status = 200
    /\ a.isPublic
    /\ a.expires = 0
    /\ a.rating = "pending" => a.cacheControl = "brief"

CacheShared == \A a \in cache : Shareable(a)

(* A handler has read facts at most once, and only if it asked. *)
FactsOnce ==
    \A r \in Requests :
        /\ pc[r] \in {"idle", "asking"} => facts[r] = {}
        /\ \A f, g \in facts[r] : f = g

(* The code of a denial depends on the credential alone. *)
Refusal(f) == IF f.credentialRejected THEN 401 ELSE 404

AnswerSound ==
    \A r \in Requests :
        /\ pc[r] # "done" => answer[r] = Reply(0)
        /\ \A f \in facts[r] :
            ~DecidePackageAccess(f) => answer[r].status \in {0, 409, 500, 502, Refusal(f)}

Inv == TypeOK /\ CacheShared /\ FactsOnce /\ AnswerSound
        /\ PrivateIsPersonal /\ LinkIsLive /\ PendingIsBrief

-----------------------------------------------------------------------------
LEMMA ReplyType ==
    ASSUME NEW status \in {0, 200, 400, 401, 404, 409, 500, 502}
    PROVE  /\ Reply(status) \in Answer
           /\ Reply(status).status = status
           /\ Reply(status).expires = 0
           /\ Reply(status).rating = "rated"
BY DEF Reply, Answer

LEMMA FactsType ==
    ASSUME TypeOK, NEW tie \in Relations, NEW rejected \in BOOLEAN
    PROVE  FactsFor(tie, rejected) \in Facts
<1> DEFINE known == IF package.visibility # "absent" /\ ~rejected THEN tie ELSE NoRelation
<1>1. known \in Relation
  BY AccessAssumption DEF Relation, NoRelation
<1>2. package \in Package
  BY DEF TypeOK
<1> QED
  BY <1>1, <1>2 DEF FactsFor, Facts, Relation, Package

(* What the handler can answer to facts f, at the present time. *)
LEMMA AnswerToFacts ==
    ASSUME now \in Nat, NEW f \in Facts
    PROVE  LET a == AnswerTo(f)
           IN  /\ a \in Answer
               /\ a.status \in {200, 401, 404}
               /\ a.status = 200 => DecidePackageAccess(f) /\ a.isPublic = f.isPublic
               /\ ~DecidePackageAccess(f) => a.status = Refusal(f)
               /\ a.status = 200 /\ LifeOf(a) > 0 => Shareable(a)
               /\ a.expires # 0 => a.at < a.expires
               /\ a.status = 200 => a.at = a.made
<1> DEFINE a == AnswerTo(f)
<1>1. UrlLife \in Nat /\ UrlLife > 0
  BY AccessAssumption
<1>2. CASE ~DecidePackageAccess(f)
  <2>1. a = Reply(Refusal(f)) /\ Refusal(f) \in {401, 404}
    BY <1>2 DEF AnswerTo, Refusal
  <2> QED
    BY <2>1, <1>2, ReplyType
<1>3. CASE DecidePackageAccess(f) /\ ~f.resolved
  <2>1. a = Reply(404)
    BY <1>3 DEF AnswerTo
  <2> QED
    BY <2>1, <1>3, ReplyType
<1>4. CASE DecidePackageAccess(f) /\ f.resolved
  <2>1. a = Granted(f)
    BY <1>4 DEF AnswerTo
  <2>2. Granted(f) \in Answer
    BY <1>1 DEF Granted, SignedUrlExpires, Answer, CacheControl, Facts
  <2>3. LifeOf(Granted(f)) > 0 => Shareable(Granted(f))
    BY <1>1 DEF LifeOf, Shareable, Granted, CacheControl, Facts
  <2>4. Granted(f).expires # 0 => Granted(f).at < Granted(f).expires
    BY <1>1 DEF Granted, SignedUrlExpires
  <2> QED
    BY <2>1, <2>2, <2>3, <2>4, <1>4 DEF Granted
<1> QED
  BY <1>2, <1>3, <1>4

-----------------------------------------------------------------------------
LEMMA InitInv == Init => Inv
<1> SUFFICES ASSUME Init PROVE Inv
  OBVIOUS
<1>1. TypeOK
  BY AccessAssumption, ReplyType DEF Init, TypeOK, Package
<1> QED
  BY <1>1, ReplyType DEF Init, Inv, CacheShared, FactsOnce, AnswerSound,
     PrivateIsPersonal, LinkIsLive, PendingIsBrief

(* A request that finishes without having read facts, or on facts that its *)
(* answer a is sound for, keeps the invariant.                             *)
LEMMA FinishInv ==
    ASSUME Inv, NEW r \in Requests, NEW a \in Answer, Finish(r, a),
           UNCHANGED <<now, package, facts>>,
           cache' = cache \/ (Shareable(a) /\ cache' = {a}),
           \A f \in facts[r] :
                ~DecidePackageAccess(f) => a.status \in {0, 409, 500, 502, Refusal(f)},
           a.status = 200 /\ ~a.isPublic =>
                \E f \in facts[r] : ~f.isPublic /\ DecidePackageAccess(f),
           a.expires # 0 => a.at < a.expires,
           a.status = 200 /\ a.rating = "pending" => a.at - a.made <= PendingAge + StaleAge
    PROVE  Inv'
<1>1. /\ \A q \in Requests : answer'[q] = IF q = r THEN a ELSE answer[q]
      /\ \A q \in Requests : pc'[q] = IF q = r THEN "done" ELSE pc[q]
  BY DEF Finish, Inv, TypeOK
<1>2. TypeOK'
  BY DEF Finish, Inv, TypeOK
<1>3. CacheShared'
  BY DEF Inv, CacheShared, Shareable
<1>4. FactsOnce'
  BY <1>1 DEF Inv, FactsOnce
<1>5. AnswerSound'
  BY <1>1 DEF Inv, AnswerSound, Reply, Refusal, DecidePackageAccess
<1>6. PrivateIsPersonal'
  BY <1>1 DEF Inv, PrivateIsPersonal, DecidePackageAccess
<1>7. LinkIsLive'
  BY <1>1 DEF Inv, LinkIsLive
<1>8. PendingIsBrief'
  BY <1>1 DEF Inv, PendingIsBrief
<1> QED
  BY <1>2, <1>3, <1>4, <1>5, <1>6, <1>7, <1>8 DEF Inv

LEMMA ServeCachedInv ==
    ASSUME Inv, NEW r \in Requests, ServeCached(r)
    PROVE  Inv'
<1>1. PICK a \in cache : now - a.made <= LifeOf(a) /\ Finish(r, [a EXCEPT !.at = now])
  BY DEF ServeCached
<1> DEFINE b == [a EXCEPT !.at = now]
<1>2. a \in Answer /\ Shareable(a) /\ now \in Nat
  BY <1>1 DEF Inv, TypeOK, CacheShared
<1>3. b \in Answer
  BY <1>2 DEF Answer
<1>4. facts[r] = {}
  BY DEF ServeCached, Inv, FactsOnce
<1>5. b.status = 200 /\ b.isPublic /\ b.expires = 0
  BY <1>2 DEF Answer, Shareable
<1>6. b.rating = "pending" => b.at - b.made <= PendingAge + StaleAge
  BY <1>1, <1>2 DEF Answer, Shareable, LifeOf
<1>7. Finish(r, b) /\ UNCHANGED <<now, package, facts, cache>>
  BY <1>1 DEF ServeCached
<1> HIDE DEF b
<1> QED
  BY <1>3, <1>4, <1>5, <1>6, <1>7, FinishInv

LEMMA RespondInv ==
    ASSUME Inv, NEW r \in Requests, Respond(r)
    PROVE  Inv'
<1>1. PICK f \in facts[r] :
        /\ Finish(r, AnswerTo(f))
        /\ \/ /\ AnswerTo(f).status = 200
              /\ LifeOf(AnswerTo(f)) > 0
              /\ cache' = {AnswerTo(f)}
           \/ UNCHANGED cache
  BY DEF Respond
<1> DEFINE a == AnswerTo(f)
<1>2. f \in Facts /\ now \in Nat
  BY <1>1 DEF Inv, TypeOK
<1>3. /\ a \in Answer
      /\ a.status \in {200, 401, 404}
      /\ a.status = 200 => DecidePackageAccess(f) /\ a.isPublic = f.isPublic
      /\ ~DecidePackageAccess(f) => a.status = Refusal(f)
      /\ a.status = 200 /\ LifeOf(a) > 0 => Shareable(a)
      /\ a.expires # 0 => a.at < a.expires
      /\ a.status = 200 => a.at = a.made
  BY <1>2, AnswerToFacts
<1>4. \A g \in facts[r] : g = f
  BY <1>1 DEF Inv, FactsOnce
<1>5. a.status = 200 /\ a.rating = "pending" => a.at - a.made <= PendingAge + StaleAge
  BY <1>3, AccessAssumption DEF Answer
<1>6. cache' = cache \/ (Shareable(a) /\ cache' = {a})
  BY <1>1, <1>3
<1>7. \A g \in facts[r] :
        ~DecidePackageAccess(g) => a.status \in {0, 409, 500, 502, Refusal(g)}
  BY <1>3, <1>4
<1>8. a.status = 200 /\ ~a.isPublic =>
        \E g \in facts[r] : ~g.isPublic /\ DecidePackageAccess(g)
  BY <1>1, <1>3
<1>9. Finish(r, a) /\ UNCHANGED <<now, package, facts>>
  BY <1>1 DEF Respond
<1> HIDE DEF a
<1> QED
  BY <1>3, <1>5, <1>6, <1>7, <1>8, <1>9, FinishInv

(* The handler's failures, and the path check. *)
LEMMA FailureInv ==
    ASSUME Inv, NEW r \in Requests, RejectPath(r) \/ CallFails(r)
    PROVE  Inv'
<1>1. PICK status \in {400, 409, 500, 502} :
        /\ Finish(r, Reply(status))
        /\ status = 400 => facts[r] = {}
        /\ UNCHANGED <<now, package, facts, cache>>
  BY DEF RejectPath, CallFails, Inv, FactsOnce
<1> QED
  BY <1>1, ReplyType, FinishInv

LEMMA BackendAnswersInv ==
    ASSUME Inv, NEW r \in Requests, BackendAnswers(r)
    PROVE  Inv'
<1>1. PICK tie \in Relations, rejected \in BOOLEAN :
        facts' = [facts EXCEPT ![r] = {FactsFor(tie, rejected)}]
  BY DEF BackendAnswers
<1>2. FactsFor(tie, rejected) \in Facts
  BY FactsType DEF Inv
<1> DEFINE f == FactsFor(tie, rejected)
<1>3. /\ \A q \in Requests : facts'[q] = IF q = r THEN {f} ELSE facts[q]
      /\ \A q \in Requests : pc'[q] = IF q = r THEN "answering" ELSE pc[q]
      /\ pc[r] = "asking"
      /\ UNCHANGED <<now, package, answer, cache>>
  BY <1>1 DEF BackendAnswers, Inv, TypeOK
<1>4. TypeOK'
  BY <1>1, <1>2 DEF BackendAnswers, Inv, TypeOK
<1> HIDE DEF f
<1>5. answer[r] = Reply(0)
  BY <1>3 DEF Inv, AnswerSound
<1>6. Reply(0).status = 0
  BY ReplyType
<1>7. CacheShared' /\ LinkIsLive' /\ PendingIsBrief'
  BY <1>3 DEF Inv, CacheShared, LinkIsLive, PendingIsBrief
<1>8. FactsOnce'
  BY <1>3 DEF Inv, FactsOnce
<1>9. AnswerSound'
  BY <1>3, <1>5, <1>6 DEF Inv, AnswerSound, Reply, Refusal, DecidePackageAccess
<1>10. PrivateIsPersonal'
  BY <1>3, <1>5, <1>6 DEF Inv, PrivateIsPersonal, DecidePackageAccess
<1> QED
  BY <1>4, <1>7, <1>8, <1>9, <1>10 DEF Inv

(* Asking, the backend's own steps and the clock leave answers, facts and *)
(* the cache alone.                                                       *)
LEMMA QuietInv ==
    ASSUME Inv, (\E r \in Requests : Ask(r)) \/ BackendStep \/ Tick \/ UNCHANGED vars
    PROVE  Inv'
<1>1. UNCHANGED <<facts, answer, cache>>
  BY DEF Ask, BackendStep, PackageCreated, RatingResolved, Tick, vars
<1>2. \A q \in Requests : (pc'[q] = "done" <=> pc[q] = "done")
                          /\ (pc'[q] \in {"idle", "asking"} => pc[q] \in {"idle", "asking"})
  BY DEF Ask, BackendStep, PackageCreated, RatingResolved, Tick, vars, Inv, TypeOK
<1>3. TypeOK'
  <2>1. CASE \E r \in Requests : Ask(r)
    BY <2>1 DEF Ask, Inv, TypeOK
  <2>2. CASE BackendStep
    BY <2>2 DEF BackendStep, PackageCreated, RatingResolved, Inv, TypeOK, Package, Visibility
  <2>3. CASE Tick
    BY <2>3, AccessAssumption DEF Tick, Inv, TypeOK
  <2>4. CASE UNCHANGED vars
    BY <2>4 DEF vars, Inv, TypeOK
  <2> QED
    BY <2>1, <2>2, <2>3, <2>4
<1> QED
  BY <1>1, <1>2, <1>3 DEF Inv, CacheShared, FactsOnce, AnswerSound, PrivateIsPersonal,
     LinkIsLive, PendingIsBrief, Reply

(* The inductive invariant of the access route. *)
THEOREM Invariance == Spec => []Inv
<1>1. Inv /\ [Next]_vars => Inv'
  <2> SUFFICES ASSUME Inv, [Next]_vars PROVE Inv'
    OBVIOUS
  <2>1. CASE RequestStep
    <3>1. PICK r \in Requests : \/ ServeCached(r) \/ Ask(r) \/ RejectPath(r)
                                \/ BackendAnswers(r) \/ CallFails(r) \/ Respond(r)
      BY <2>1 DEF RequestStep
    <3> QED
      BY <3>1, ServeCachedInv, FailureInv, BackendAnswersInv, RespondInv, QuietInv
  <2>2. CASE BackendStep \/ Tick \/ UNCHANGED vars
    BY <2>2, QuietInv
  <2> QED
    BY <2>1, <2>2 DEF Next
<1> QED
  BY InitInv, <1>1, PTL DEF Spec

(* Every variable keeps its type, for any clock. *)
THEOREM TypeCorrect == Spec => []TypeOK
BY Invariance, PTL DEF Inv

(* access.ts: a private package is given to a caller only on facts of its *)
(* own, never out of the shared cache.                                    *)
THEOREM Personal == Spec => []PrivateIsPersonal
BY Invariance, PTL DEF Inv

(* access.ts: "denied and nonexistent are indistinguishable". *)
THEOREM DenialsAlike == Spec => []DeniedLooksAbsent
<1>1. Inv => DeniedLooksAbsent
  <2> SUFFICES ASSUME Inv, NEW q \in Requests, NEW r \in Requests,
                      NEW f \in facts[q], NEW g \in facts[r],
                      ~DecidePackageAccess(f), ~DecidePackageAccess(g),
                      answer[q].status \in {200, 401, 403, 404},
                      answer[r].status \in {200, 401, 403, 404},
                      f.credentialRejected = g.credentialRejected
               PROVE  answer[q].status = answer[r].status
    BY DEF DeniedLooksAbsent
  <2>1. answer[q].status = Refusal(f) /\ answer[r].status = Refusal(g)
    BY DEF Inv, AnswerSound
  <2> QED
    BY <2>1 DEF Refusal
<1> QED
  BY <1>1, Invariance, PTL

(* access.ts: a signed link is live when it is handed out, whatever the *)
(* lifetimes of links and of cached answers are.                        *)
THEOREM LinksLive == Spec => []LinkIsLive
BY Invariance, PTL DEF Inv

(* access.ts: a pending rating is told for max-age and stale-while-revalidate *)
(* at most.                                                                   *)
THEOREM PendingBrief == Spec => []PendingIsBrief
BY Invariance, PTL DEF Inv
=============================================================================
