------------------------------- MODULE Publish -------------------------------
(***************************************************************************)
(* POST /v1/package/upload (src/routes/publish.ts): concurrent publishes,  *)
(* each a handler that awaits the backend and the object store in turn.    *)
(*                                                                         *)
(* The handler's code between two awaits runs alone (one Node thread), so  *)
(* it is one step; anything may happen at an await.  Of the peers, which   *)
(* are not in this repository, the model keeps what the handler relies on: *)
(*                                                                         *)
(*   backend  answers each call from its state at one instant, refuses a   *)
(*            version already on record, gives a new package the recorded  *)
(*            visibility and never lets a publish change it afterwards;    *)
(*   R2       the SDK may retry a put: it can land twice, and a copy can   *)
(*            land after the handler gave up on it.                        *)
(***************************************************************************)
EXTENDS PackageStore

CONSTANTS
    Requests,      \* uploads; a client's retry is another request
    Packages,      \* author/name/platform triples
    ScopeOf,       \* the Studio that owns each package
    VersionNumbers,
    ValidBlobs,    \* the tarballs validateTgz and the platform's scan accept
    Uploads,       \* [pkg, version, blob, public, dependencies]
    Callers,       \* [authenticated, membershipLevel, hasWriteGrant, blocked, retryAfterSeconds]
    BackendAges    \* "current", or "older": sends no stored visibility, no dependency facts

ASSUME ScopeAssumption == ScopeOf \in [Packages -> STRING]

ASSUME UploadAssumption ==
    Uploads \subseteq [pkg : Packages, version : VersionNumbers, blob : Blobs,
                       public : Optional, dependencies : SUBSET Packages]

ASSUME CallerAssumption ==
    Callers \subseteq [authenticated : BOOLEAN, membershipLevel : Int,
                       hasWriteGrant : BOOLEAN, blocked : BOOLEAN, retryAfterSeconds : Nat]

ASSUME SettingAssumption ==
    /\ ValidBlobs \subseteq Blobs
    /\ BackendAges \subseteq {"current", "older"}

VARIABLES
    pc,          \* where each request's handler is
    upload,      \* what each request carries
    facts,       \* the authorization facts its handler read, once
    refusal,     \* the reason its handler refused it for, "none" if no rule did
    isPublic,    \* the visibility its handler decided
    licensed,    \* the license verdict it got was ok
    reply,       \* HTTP status sent to the client, 0 before one is
    putNet,      \* requests with a put on its way to R2
    recNet,      \* requests with a record call on its way to the backend
    pkgVis,      \* backend: each package's stored visibility, or "absent"
    versions     \* backend: the versions on record, each with the request that recorded it

backend == <<pkgVis, versions>>
vars == <<pc, upload, facts, refusal, isPublic, licensed, reply, putNet, recNet, store,
          pkgVis, versions>>

-----------------------------------------------------------------------------
Dependency == [key : Packages, resolved : BOOLEAN, isPublic : BOOLEAN, ownedByAuthor : BOOLEAN]

Facts == [authenticated : BOOLEAN, membershipLevel : Int, hasWriteGrant : BOOLEAN,
          blocked : BOOLEAN, retryAfterSeconds : Nat,
          packageAlreadyExists : BOOLEAN, existingPackagePublic : Optional,
          dependencies : SUBSET Dependency]

(* The handler has read no facts yet. *)
NoFacts == [authenticated |-> FALSE, membershipLevel |-> 0, hasWriteGrant |-> FALSE,
            blocked |-> FALSE, retryAfterSeconds |-> 0,
            packageAlreadyExists |-> FALSE, existingPackagePublic |-> "undefined",
            dependencies |-> {}]

Version == [pkg : Packages, version : VersionNumbers, hash : Hashes, isPublic : Visibility,
            dependencies : SUBSET Packages, by : Requests]

(* 0 no reply yet; 502 is the Worker's, when the container died. *)
Status == {0, 200, 400, 401, 403, 409, 413, 429, 500, 502}

(* A failed backend call: a 4xx with an error body is relayed under its own  *)
(* status (409 stands for all of them), anything else is Fastify's 500.      *)
CallFailure == {409, 500}

Stage == {"idle", "authorizing", "validating", "licensing", "storing", "recording", "done"}

InFlight == Stage \ {"idle", "done"}

Init ==
    /\ pc = [r \in Requests |-> "idle"]
    /\ upload \in [Requests -> Uploads]
    /\ facts = [r \in Requests |-> NoFacts]
    /\ refusal = [r \in Requests |-> "none"]
    /\ isPublic = [r \in Requests |-> "undefined"]
    /\ licensed = [r \in Requests |-> FALSE]
    /\ reply = [r \in Requests |-> 0]
    /\ putNet = {}
    /\ recNet = {}
    /\ store = {}
    /\ pkgVis \in [Packages -> Visibility \cup {"absent"}]
    /\ versions = {}

-----------------------------------------------------------------------------
(* Every way out of the handler: one reply, and nothing more is done. *)
Finish(r, status) ==
    /\ pc' = [pc EXCEPT ![r] = "done"]
    /\ reply' = [reply EXCEPT ![r] = status]

(* The backend's answer to getPublishAuthorization, from its current state. *)
FactsFor(pkg, dependencies, caller, age) ==
    [authenticated |-> caller.authenticated,
     membershipLevel |-> caller.membershipLevel,
     hasWriteGrant |-> caller.hasWriteGrant,
     blocked |-> caller.blocked,
     retryAfterSeconds |-> caller.retryAfterSeconds,
     packageAlreadyExists |-> pkgVis[pkg] # "absent",
     existingPackagePublic |->
        IF age = "older" \/ pkgVis[pkg] = "absent" THEN "undefined" ELSE pkgVis[pkg],
     dependencies |->
        IF age = "older" THEN {}
        ELSE {[key |-> d, resolved |-> pkgVis[d] # "absent", isPublic |-> pkgVis[d] = "public",
               ownedByAuthor |-> ScopeOf[d] = ScopeOf[pkg]] : d \in dependencies}]

(* Mutant: the key is made of the version, not of the content. *)
VersionKey(r) == StorageKey(isPublic[r], upload[r].version)

(* Mutant: the key is made of the request's flag, not of the decided visibility. *)
FlagKey(r) ==
    StorageKey(IF upload[r].public = "public" THEN "public" ELSE "private",
               HashOf[upload[r].blob])

(* The key and the object of a request's put, from what its handler decided. *)
FinalKey(r) == StorageKey(isPublic[r], HashOf[upload[r].blob])

ObjectOf(r) == [key |-> FinalKey(r), bytes |-> upload[r].blob,
                ssec |-> ObjectEncryptionKey(EncKeySet, FinalKey(r))]

VersionOf(r) == [pkg |-> upload[r].pkg, version |-> upload[r].version,
                 hash |-> HashOf[upload[r].blob], isPublic |-> isPublic[r],
                 dependencies |-> upload[r].dependencies, by |-> r]

OnRecord(pkg, version) == \E v \in versions : v.pkg = pkg /\ v.version = version

-----------------------------------------------------------------------------
(* The multipart body is complete, and the facts are asked for. *)
ReceiveUpload(r) ==
    /\ pc[r] = "idle"
    /\ pc' = [pc EXCEPT ![r] = "authorizing"]
    /\ UNCHANGED <<upload, facts, refusal, isPublic, licensed, reply, putNet, recNet, store,
                   backend>>

(* Header, part order, JSON, truncation at 10MB, missing fields, or an error *)
(* of the parser: UploadParse has the loop over the parts.                   *)
RejectUpload(r) ==
    /\ pc[r] = "idle"
    /\ \E status \in {400, 413, 500} : Finish(r, status)
    /\ UNCHANGED <<upload, facts, refusal, isPublic, licensed, putNet, recNet, store, backend>>

(* The facts f arrive, and every check on them runs before the next await. *)
DecideOn(r, f) ==
    LET verdict == PublishVerdict(f, upload[r].public)
    IN  /\ facts' = [facts EXCEPT ![r] = f]
        /\ \/ /\ verdict = "proceed"
              /\ pc' = [pc EXCEPT ![r] = "validating"]
              /\ isPublic' = [isPublic EXCEPT ![r] = DecidePublishVisibility(f, upload[r].public)]
              /\ UNCHANGED <<refusal, reply>>
           \/ /\ verdict # "proceed"
              /\ Finish(r, StatusOf[verdict])
              /\ refusal' = [refusal EXCEPT ![r] = verdict]
              /\ UNCHANGED isPublic

Authorize(r) ==
    /\ pc[r] = "authorizing"
    /\ \E caller \in Callers, age \in BackendAges :
        DecideOn(r, FactsFor(upload[r].pkg, upload[r].dependencies, caller, age))
    /\ UNCHANGED <<upload, licensed, putNet, recNet, store, backend>>

AuthorizeFails(r) ==
    /\ pc[r] = "authorizing"
    /\ \E status \in CallFailure : Finish(r, status)
    /\ UNCHANGED <<upload, facts, refusal, isPublic, licensed, putNet, recNet, store, backend>>

(* validateTgz, the hash and the platform scan accept the tarball. *)
Validate(r) ==
    /\ pc[r] = "validating"
    /\ upload[r].blob \in ValidBlobs
    /\ pc' = [pc EXCEPT ![r] = "licensing"]
    /\ UNCHANGED <<upload, facts, refusal, isPublic, licensed, reply, putNet, recNet, store,
                   backend>>

(* They refuse it (a valid one can still hit the 5 second timer), or the    *)
(* platform scan throws something it does not expect.                       *)
ValidationFails(r) ==
    /\ pc[r] = "validating"
    /\ \E status \in {400, 500} : Finish(r, status)
    /\ UNCHANGED <<upload, facts, refusal, isPublic, licensed, putNet, recNet, store, backend>>

(* Mutant: the record call is sent together with the put. *)
RecordWithPut(r) ==
    /\ pc[r] = "licensing"
    /\ pc' = [pc EXCEPT ![r] = "storing"]
    /\ licensed' = [licensed EXCEPT ![r] = TRUE]
    /\ putNet' = putNet \cup {r}
    /\ recNet' = recNet \cup {r}
    /\ UNCHANGED <<upload, facts, refusal, isPublic, reply, store, backend>>

(* The license verdict is ok, and the put is sent. *)
LicenseAccepted(r) ==
    /\ pc[r] = "licensing"
    /\ pc' = [pc EXCEPT ![r] = "storing"]
    /\ licensed' = [licensed EXCEPT ![r] = TRUE]
    /\ putNet' = putNet \cup {r}
    /\ UNCHANGED <<upload, facts, refusal, isPublic, reply, recNet, store, backend>>

(* Mutant: the put is sent while the verdict is awaited. *)
PutBeforeVerdict(r) ==
    /\ pc[r] = "licensing"
    /\ Finish(r, 400)
    /\ putNet' = putNet \cup {r}
    /\ UNCHANGED <<upload, facts, refusal, isPublic, licensed, recNet, store, backend>>

(* The verdict is a rejection (400), or the call fails. *)
LicenseRefused(r) ==
    /\ pc[r] = "licensing"
    /\ \E status \in {400} \cup CallFailure : Finish(r, status)
    /\ UNCHANGED <<upload, facts, refusal, isPublic, licensed, putNet, recNet, store, backend>>

(* R2 applies a put; a copy may stay on its way, and the answer may be lost. *)
(* The handler that gets the answer sends the record call.                   *)
PutLands(r) ==
    /\ r \in putNet
    /\ putNet' \in {putNet, putNet \ {r}}
    /\ PutPackageObject(ObjectOf(r))
    /\ \/ /\ pc[r] = "storing"
          /\ pc' = [pc EXCEPT ![r] = "recording"]
          /\ recNet' = recNet \cup {r}
       \/ UNCHANGED <<pc, recNet>>
    /\ UNCHANGED <<upload, facts, refusal, isPublic, licensed, reply, backend>>

(* The SDK gives up: the put throws, and a copy may still be on its way. *)
PutFails(r) ==
    /\ pc[r] = "storing"
    /\ Finish(r, 500)
    /\ putNet' \in {putNet, putNet \ {r}}
    /\ UNCHANGED <<upload, facts, refusal, isPublic, licensed, recNet, store, backend>>

(* The backend records the version, creating the package if it is new.  The *)
(* handler that gets the answer replies 200; a lost answer is a 500.        *)
RecordCommits(r) ==
    LET pkg == upload[r].pkg
    IN  /\ r \in recNet
        /\ ~OnRecord(pkg, upload[r].version)
        /\ recNet' = recNet \ {r}
        /\ versions' = versions \cup {VersionOf(r)}
        /\ pkgVis' = [pkgVis EXCEPT ![pkg] = IF @ = "absent" THEN isPublic[r] ELSE @]
        /\ \/ /\ pc[r] = "recording"
              /\ \E status \in {200, 500} : Finish(r, status)
           \/ /\ pc[r] # "recording"
              /\ UNCHANGED <<pc, reply>>
        /\ UNCHANGED <<upload, facts, refusal, isPublic, licensed, putNet, store>>

(* Mutant: an error of the record call is caught and dropped. *)
RefusalSwallowed(r) ==
    /\ r \in recNet
    /\ recNet' = recNet \ {r}
    /\ \/ pc[r] = "recording" /\ Finish(r, 200)
       \/ pc[r] # "recording" /\ UNCHANGED <<pc, reply>>
    /\ UNCHANGED <<upload, facts, refusal, isPublic, licensed, putNet, store, backend>>

(* The backend refuses it: a duplicate, or for a reason of its own. *)
RecordRefused(r) ==
    /\ r \in recNet
    /\ recNet' = recNet \ {r}
    /\ \/ /\ pc[r] = "recording"
          /\ \E status \in CallFailure : Finish(r, status)
       \/ /\ pc[r] # "recording"
          /\ UNCHANGED <<pc, reply>>
    /\ UNCHANGED <<upload, facts, refusal, isPublic, licensed, putNet, store, backend>>

(* The call breaks while it is still on its way, which it may stay. *)
RecordFails(r) ==
    /\ pc[r] = "recording"
    /\ Finish(r, 500)
    /\ UNCHANGED <<upload, facts, refusal, isPublic, licensed, putNet, recNet, store, backend>>

(* Mutant: the Worker does not catch what the container throws. *)
LostUnanswered ==
    /\ pc' = [r \in Requests |-> IF pc[r] \in InFlight THEN "done" ELSE pc[r]]
    /\ UNCHANGED <<upload, facts, refusal, isPublic, licensed, reply, putNet, recNet, store,
                   backend>>

(* The one container dies: every handler is lost, the Worker answers 502, and *)
(* what the handlers had already sent is still on its way.                    *)
LoseHandlers ==
    /\ pc' = [r \in Requests |-> IF pc[r] \in InFlight THEN "done" ELSE pc[r]]
    /\ reply' = [r \in Requests |-> IF pc[r] \in InFlight THEN 502 ELSE reply[r]]
    /\ UNCHANGED <<upload, facts, refusal, isPublic, licensed, putNet, recNet, store, backend>>

ContainerDies == (\E r \in Requests : pc[r] \in InFlight) /\ LoseHandlers

(* What the handler of r and the calls it made do once its upload arrived. *)
Handle(r) ==
    \/ Authorize(r) \/ AuthorizeFails(r)
    \/ Validate(r) \/ ValidationFails(r)
    \/ LicenseAccepted(r) \/ LicenseRefused(r)
    \/ PutLands(r) \/ PutFails(r)
    \/ RecordCommits(r) \/ RecordRefused(r) \/ RecordFails(r)

RequestStep == \E r \in Requests : ReceiveUpload(r) \/ RejectUpload(r) \/ Handle(r)

Next == RequestStep \/ ContainerDies

Spec == Init /\ [][Next]_vars

-----------------------------------------------------------------------------
TypeOK ==
    /\ pc \in [Requests -> Stage]
    /\ upload \in [Requests -> Uploads]
    /\ facts \in [Requests -> Facts]
    /\ refusal \in [Requests -> {"none"} \cup DOMAIN StatusOf]
    /\ isPublic \in [Requests -> Optional]
    /\ licensed \in [Requests -> BOOLEAN]
    /\ reply \in [Requests -> Status]
    /\ putNet \subseteq Requests
    /\ recNet \subseteq Requests
    /\ StoreTypeOK
    /\ pkgVis \in [Packages -> Visibility \cup {"absent"}]
    /\ versions \subseteq Version

(* The version is filed where downloads look: the handler knew the package's *)
(* stored visibility, or it was the first to create the package.             *)
Settled(v) ==
    \/ facts[v.by].existingPackagePublic # "undefined"
    \/ v.isPublic = pkgVis[v.pkg]

(* What a download of version v fetches: the path is built from the package's *)
(* stored visibility, the SSE-C key is derived from the path.                 *)
Delivers(o, v) ==
    /\ o.key = StorageKey(pkgVis[v.pkg], v.hash)
    /\ o.ssec = ObjectEncryptionKey(EncKeySet, o.key)
    /\ o.bytes = upload[v.by].blob

(* A version on record can be downloaded, and gives the very bytes uploaded, *)
(* however its put and its record call were delayed, repeated or cut off     *)
(* (publishVisibility.ts: "anything else" is "undownloadable").              *)
RecordedIsDeliverable ==
    \A v \in versions : Settled(v) => \E o \in store : Delivers(o, v)

(* Nothing is stored that failed validation or whose license verdict was not *)
(* ok (publish.ts: "a detected mismatch is never persisted").                *)
StoredIsCleared ==
    \A o \in store : \E r \in Requests :
        /\ o = ObjectOf(r)
        /\ licensed[r]
        /\ upload[r].blob \in ValidBlobs

(* A 200 means the version is on record, a 4xx that this request recorded   *)
(* nothing and never will; only a 5xx leaves the client in doubt.           *)
HonestReply ==
    \A r \in Requests :
        /\ reply[r] = 200 => \E v \in versions : v.by = r
        /\ reply[r] \in 400..499 => \A v \in versions : v.by # r

(* Whom the facts are about, as far as a refusal may depend on it: somebody *)
(* not logged in, an outsider, or a member, who may know what exists.       *)
SameStanding(f, g) ==
    /\ f.authenticated = g.authenticated
    /\ f.authenticated => (f.membershipLevel >= 1) = (g.membershipLevel >= 1)
    /\ f.authenticated /\ f.membershipLevel >= 1 =>
            f.packageAlreadyExists = g.packageAlreadyExists

(* Of callers the permission rule denies, those of one standing get one and  *)
(* the same reply, status and reason, whatever the Studio's billing state,   *)
(* the stored visibility and the dependencies are; an outsider's does not    *)
(* even tell whether the package exists (publish.ts: such a caller "never    *)
(* learns anything about an org's billing status", "can't probe"             *)
(* visibility).                                                              *)
DeniedLearnsNothing ==
    LET denied == {r \in Requests : facts[r] # NoFacts /\ ~DecidePublishPermission(facts[r])}
    IN  \A q, r \in denied :
            SameStanding(facts[q], facts[r]) => reply[q] = reply[r] /\ refusal[q] = refusal[r]

(* The publisher of r asked for a public package, or left the choice to one *)
(* that is public already.                                                  *)
WantedPublic(r) ==
    \/ upload[r].public = "public"
    \/ upload[r].public = "undefined" /\ pkgVis[upload[r].pkg] = "public"

(* No tarball is readable by everybody, and no version is on record as      *)
(* public, unless its publisher wanted it so, whichever backend answered    *)
(* and whoever created the package in between (publishVisibility.ts: a flag *)
(* "that contradicts the stored visibility is refused rather than           *)
(* corrected").                                                             *)
PublicIsWanted ==
    /\ \A o \in store : o.key.visibility = "public" =>
            \E r \in Requests : o = ObjectOf(r) /\ WantedPublic(r)
    /\ \A v \in versions : v.isPublic = "public" => WantedPublic(v.by)

(* Package p has a version whose dependency on q was resolved and judged *)
(* when it was published, and which settled under p's stored visibility. *)
JudgedDependency(p, q) ==
    \E v \in versions :
        /\ v.pkg = p
        /\ v.isPublic = pkgVis[p]
        /\ \E d \in facts[v.by].dependencies : d.key = q /\ d.resolved

(* A dependency any version of p declares, on a package that now exists. *)
DeclaredDependency(p, q) ==
    \E v \in versions : v.pkg = p /\ q \in v.dependencies /\ pkgVis[q] # "absent"

(* q is in every set that holds p and is closed under Depends. *)
Reaches(p, q, Depends(_, _)) ==
    \A S \in SUBSET Packages :
        p \in S /\ (\A a \in S, b \in Packages : Depends(a, b) => b \in S) => q \in S

(* Whoever may read p may read q: q is public, or both are private to one Studio. *)
ReadersCanInstall(p, q) ==
    pkgVis[q] = "public" \/ (pkgVis[p] = "private" /\ ScopeOf[q] = ScopeOf[p])

(* The direct check suffices for the whole dependency tree, over the        *)
(* dependencies the rule got to judge (dependencyVisibility.ts: "The        *)
(* invariant holds transitively by induction").                             *)
JudgedTreeInstallable ==
    \A p, q \in Packages :
        pkgVis[p] # "absent" /\ Reaches(p, q, JudgedDependency) => ReadersCanInstall(p, q)

(* A stored object is never changed or removed, although a put replaces *)
(* whatever its key holds.                                              *)
WriteOnce == [][store \subseteq store']_vars

(* A package comes into being only by a publish of a Studio admin           *)
(* (publishPolicy.ts: "Creating a brand-new package always requires         *)
(* admin/owner"), although the membership is read long before.              *)
AdminCreates ==
    \A p \in Packages : pkgVis[p] = "absent" /\ pkgVis'[p] # "absent" =>
        \E v \in versions' \ versions :
            /\ v.pkg = p
            /\ facts[v.by].authenticated
            /\ facts[v.by].membershipLevel >= 2

CreatedByAdmin == [][AdminCreates]_vars

(* Publishing implements the content-addressed registry: a landed put adds an *)
(* object or repeats one, a committed record call adds a version.             *)
Registry == INSTANCE ContentRegistry WITH
    Versions <- [pkg : Packages, version : VersionNumbers, hash : Hashes, isPublic : Visibility],
    Keys <- Key,
    objects <- {[key |-> o.key, bytes |-> o.bytes] : o \in store},
    published <- {[pkg |-> v.pkg, version |-> v.version, hash |-> v.hash,
                   isPublic |-> v.isPublic] : v \in versions}

ImplementsRegistry == Registry!Spec

-----------------------------------------------------------------------------
(* What the documentation says and the code does not guarantee; the runs     *)
(* that refute them are the findings of the README.                          *)

(* "The invariant holds transitively by induction" (dependencyVisibility.ts), *)
(* over every dependency a version declares.                                  *)
DeclaredTreeInstallable ==
    \A p, q \in Packages :
        pkgVis[p] # "absent" /\ Reaches(p, q, DeclaredDependency) => ReadersCanInstall(p, q)

(* "A new version of an existing package is always stored and recorded under *)
(* the package's stored visibility" (README.md): of a put still to land, or   *)
(* of a record call still to commit.                                         *)
StoredUnderPackageVisibility ==
    \A r \in putNet \cup recNet : pkgVis[upload[r].pkg] \in {"absent", isPublic[r]}
=============================================================================
