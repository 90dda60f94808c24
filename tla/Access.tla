------------------------------- MODULE Access --------------------------------
(***************************************************************************)
(* GET /v1/package/... (src/routes/access.ts) for one package: a handler   *)
(* asks the backend for the caller's facts, decides, and answers; the      *)
(* answer lives on, in the shared cache in front of the service and in the *)
(* signed link it may carry, while the backend's state moves on.           *)
(*                                                                         *)
(* Outside this repository: the backend, and the edge cache, which keeps a *)
(* 200 as long as its Cache-Control header says, and without one for the   *)
(* route's "normal week-long cache".                                       *)
(***************************************************************************)
EXTENDS GatewayRules

CONSTANTS
    Requests,
    Relations,     \* [isOwnerMatch, membershipRank, hasPackageAccessGrant]
    UrlLife,       \* signedUrlExpirySec
    PendingAge,    \* the max-age of an answer whose rating is pending
    StaleAge,      \* and its stale-while-revalidate
    DefaultAge,    \* the route's normal cache time
    Horizon        \* the bound of the clock

Relation == [isOwnerMatch : BOOLEAN, membershipRank : {"owner", "admin", "member", "none"},
             hasPackageAccessGrant : BOOLEAN]

(* "An absent user can never satisfy any ownership/membership/grant check." *)
NoRelation == [isOwnerMatch |-> FALSE, membershipRank |-> "none",
               hasPackageAccessGrant |-> FALSE]

ASSUME AccessAssumption ==
    /\ Relations \subseteq Relation
    /\ {UrlLife, PendingAge, StaleAge, DefaultAge, Horizon} \subseteq Nat \ {0}

VARIABLES
    now,
    package,      \* backend: [visibility, orgOwned, resolves, rating]
    pc,           \* "idle", "asking", "answering" or "done"
    facts,        \* the facts each handler got
    answer,       \* what each client got
    cache         \* the edge's copy of an answer: a set of at most one

vars == <<now, package, pc, facts, answer, cache>>

Package == [visibility : Visibility \cup {"absent"}, orgOwned : BOOLEAN, resolves : BOOLEAN,
            rating : {"pending", "rated"}]

Facts == [isPublic : BOOLEAN, isOwnerMatch : BOOLEAN, isOrganizationOwned : BOOLEAN,
          membershipRank : {"owner", "admin", "member", "none"},
          hasPackageAccessGrant : BOOLEAN, resolved : BOOLEAN, rating : {"pending", "rated"},
          credentialRejected : BOOLEAN]

(* expires is 0 for an unsigned link; made and at, of a 200 only, are the *)
(* times the gateway gave the answer and the client got it.               *)
Answer == [status : {0, 200, 400, 401, 404, 409, 500, 502}, isPublic : BOOLEAN,
           rating : {"pending", "rated"}, expires : Nat,
           cacheControl : {"none", "no-store", "brief"}, made : Nat, at : Nat]

Reply(status) == [status |-> status, isPublic |-> FALSE, rating |-> "rated", expires |-> 0,
                  cacheControl |-> "none", made |-> 0, at |-> 0]

-----------------------------------------------------------------------------
(* The backend's answer to getAccessFacts, for a user who stands in this    *)
(* relation to the package.  Of an absent package every fact is a "no", and *)
(* so is every tie of a caller whose credential is missing or rejected.     *)
FactsFor(tie, rejected) ==
    LET exists == package.visibility # "absent"
        known == IF exists /\ ~rejected THEN tie ELSE NoRelation
    IN  [isPublic |-> package.visibility = "public",
         isOwnerMatch |-> known.isOwnerMatch,
         isOrganizationOwned |-> exists /\ package.orgOwned,
         membershipRank |-> known.membershipRank,
         hasPackageAccessGrant |-> known.hasPackageAccessGrant,
         resolved |-> exists /\ package.resolves,
         rating |-> package.rating,
         credentialRejected |-> rejected]

(* Mutant: the rating is looked at before the visibility. *)
RatingFirst(f) ==
    IF f.rating = "pending" THEN "brief" ELSE IF ~f.isPublic THEN "no-store" ELSE "none"

(* Mutant: a private answer gets no header. *)
PrivateUnmarked(f) == IF f.isPublic /\ f.rating = "pending" THEN "brief" ELSE "none"

(* Mutant: a pending rating gets no header. *)
PendingUnmarked(f) == IF ~f.isPublic THEN "no-store" ELSE "none"

CacheControl(f) ==
    IF ~f.isPublic THEN "no-store" ELSE IF f.rating = "pending" THEN "brief" ELSE "none"

(* Until when a link signed now can be followed. *)
SignedUrlExpires == now + UrlLife

Granted(f) ==
    [status |-> 200, isPublic |-> f.isPublic, rating |-> f.rating,
     expires |-> IF f.isPublic THEN 0 ELSE SignedUrlExpires,
     cacheControl |-> CacheControl(f), made |-> now, at |-> now]

(* Mutant: a missing version is reported before the access is decided. *)
MissingFirst(f) ==
    IF ~f.resolved THEN Reply(404)
    ELSE IF ~DecidePackageAccess(f) THEN Reply(IF f.credentialRejected THEN 401 ELSE 404)
    ELSE Granted(f)

(* Mutant: a denied caller is told so. *)
DeniedIs403(f) ==
    IF ~DecidePackageAccess(f) THEN Reply(IF f.credentialRejected THEN 401 ELSE 403)
    ELSE IF ~f.resolved THEN Reply(404)
    ELSE Granted(f)

(* What the handler makes of the facts. *)
AnswerTo(f) ==
    IF ~DecidePackageAccess(f) THEN Reply(IF f.credentialRejected THEN 401 ELSE 404)
    ELSE IF ~f.resolved THEN Reply(404)
    ELSE Granted(f)

(* How long the edge serves its copy of an answer. *)
LifeOf(a) ==
    CASE a.cacheControl = "no-store" -> 0
      [] a.cacheControl = "brief" -> PendingAge + StaleAge
      [] a.cacheControl = "none" -> DefaultAge

-----------------------------------------------------------------------------
Init ==
    /\ now = 0
    /\ package \in [visibility : Visibility \cup {"absent"}, orgOwned : BOOLEAN,
                    resolves : BOOLEAN, rating : {"pending"}]
    /\ pc = [r \in Requests |-> "idle"]
    /\ facts = [r \in Requests |-> {}]
    /\ answer = [r \in Requests |-> Reply(0)]
    /\ cache = {}

Finish(r, a) ==
    /\ pc' = [pc EXCEPT ![r] = "done"]
    /\ answer' = [answer EXCEPT ![r] = a]

(* The edge answers in place of the service; the handler does not run. *)
ServeCached(r) ==
    /\ pc[r] = "idle"
    /\ \E a \in cache : now - a.made <= LifeOf(a) /\ Finish(r, [a EXCEPT !.at = now])
    /\ UNCHANGED <<now, package, facts, cache>>

(* No copy, or one that is stale: the handler asks for the facts. *)
Ask(r) ==
    /\ pc[r] = "idle"
    /\ \A a \in cache :
        now - a.made > IF a.cacheControl = "brief" THEN PendingAge ELSE LifeOf(a)
    /\ pc' = [pc EXCEPT ![r] = "asking"]
    /\ UNCHANGED <<now, package, facts, answer, cache>>

RejectPath(r) ==
    /\ pc[r] = "idle"
    /\ Finish(r, Reply(400))
    /\ UNCHANGED <<now, package, facts, cache>>

(* The backend reads the facts; memberships and grants come and go, and its *)
(* answer takes its time.                                                   *)
BackendAnswers(r) ==
    /\ pc[r] = "asking"
    /\ pc' = [pc EXCEPT ![r] = "answering"]
    /\ \E tie \in Relations, rejected \in BOOLEAN :
        facts' = [facts EXCEPT ![r] = {FactsFor(tie, rejected)}]
    /\ UNCHANGED <<now, package, answer, cache>>

(* The call fails, or the container dies. *)
CallFails(r) ==
    /\ pc[r] \in {"asking", "answering"}
    /\ \E status \in {409, 500, 502} : Finish(r, Reply(status))
    /\ UNCHANGED <<now, package, facts, cache>>

(* The handler decides, signs and answers; the edge may keep a copy. *)
Respond(r) ==
    /\ pc[r] = "answering"
    /\ \E f \in facts[r] :
        LET a == AnswerTo(f)
        IN  /\ Finish(r, a)
            /\ \/ a.status = 200 /\ LifeOf(a) > 0 /\ cache' = {a}
               \/ UNCHANGED cache
    /\ UNCHANGED <<now, package, facts>>

(* The package comes into being, by a publish. *)
PackageCreated ==
    /\ package.visibility = "absent"
    /\ \E visibility \in Visibility :
        package' = [package EXCEPT !.visibility = visibility, !.resolves = TRUE]
    /\ UNCHANGED <<now, pc, facts, answer, cache>>

(* The license review "resolves seconds after publish". *)
RatingResolved ==
    /\ package.visibility # "absent"
    /\ package.rating = "pending"
    /\ package' = [package EXCEPT !.rating = "rated"]
    /\ UNCHANGED <<now, pc, facts, answer, cache>>

Tick ==
    /\ now < Horizon
    /\ now' = now + 1
    /\ UNCHANGED <<package, pc, facts, answer, cache>>

RequestStep ==
    \E r \in Requests :
        \/ ServeCached(r) \/ Ask(r) \/ RejectPath(r)
        \/ BackendAnswers(r) \/ CallFails(r) \/ Respond(r)

BackendStep == PackageCreated \/ RatingResolved

Next == RequestStep \/ BackendStep \/ Tick

Spec == Init /\ [][Next]_vars

-----------------------------------------------------------------------------
TypeOK ==
    /\ now \in 0..Horizon
    /\ package \in Package
    /\ pc \in [Requests -> {"idle", "asking", "answering", "done"}]
    /\ facts \in [Requests -> SUBSET Facts]
    /\ answer \in [Requests -> Answer]
    /\ cache \subseteq Answer

(* Nobody is given a private package, by the service or by the cache in     *)
(* front of it, but on facts of its own that allow it (access.ts: "this     *)
(* response must never be shared-cached").                                  *)
PrivateIsPersonal ==
    \A r \in Requests :
        answer[r].status = 200 /\ ~answer[r].isPublic =>
            \E f \in facts[r] : ~f.isPublic /\ DecidePackageAccess(f)

(* A caller that is denied gets the same answer as one that asks for a      *)
(* package that does not exist, whatever credential it carries (access.ts:  *)
(* "denied and nonexistent are indistinguishable").                         *)
DeniedLooksAbsent ==
    LET Denied(r, f) ==
            f \in facts[r] /\ ~DecidePackageAccess(f) /\ answer[r].status \in {200, 401, 403, 404}
    IN  \A q, r \in Requests : \A f \in facts[q], g \in facts[r] :
            Denied(q, f) /\ Denied(r, g) /\ f.credentialRejected = g.credentialRejected
                => answer[q].status = answer[r].status

(* A signed link works when it is handed out, also when a copy of an answer *)
(* is (access.ts: "the signed URL expires in minutes").                     *)
LinkIsLive ==
    \A r \in Requests : answer[r].expires # 0 => answer[r].at < answer[r].expires

(* A pending rating is not told once its answer is older than a minute or   *)
(* two (access.ts: "don't pin a 'pending' rating into the shared cache").   *)
PendingIsBrief ==
    \A r \in Requests :
        answer[r].status = 200 /\ answer[r].rating = "pending" =>
            answer[r].at - answer[r].made <= PendingAge + StaleAge
=============================================================================
