---------------------------- MODULE GatewayRules ----------------------------
(***************************************************************************)
(* The pure rules of src/rules: decisions over facts already gathered.     *)
(* No rule keeps state; the routes (Publish, MirrorTarball) call them.     *)
(*                                                                         *)
(* A TypeScript `boolean | undefined` visibility is "public", "private" or *)
(* "undefined".  A message text is abstracted to the name of the refusal.  *)
(***************************************************************************)
EXTENDS Integers

Visibility == {"public", "private"}

(* `undefined`: the field is missing from the metadata or from the facts. *)
Optional == Visibility \cup {"undefined"}

-----------------------------------------------------------------------------
(* Mutant: a write grant lets a member create a package. *)
GrantCreates(facts) ==
    /\ facts.membershipLevel >= 1
    /\ facts.membershipLevel < 2 => facts.hasWriteGrant

(* publishPolicy.ts: the membership tiers. *)
DecidePublishPermission(facts) ==
    /\ facts.membershipLevel >= 1
    /\ facts.membershipLevel < 2 => facts.packageAlreadyExists /\ facts.hasWriteGrant

(* The reason a permission refusal carries, which the handler relays. *)
PermissionRefusal(facts) ==
    IF facts.membershipLevel < 1 THEN "notMember"
    ELSE IF ~facts.packageAlreadyExists THEN "needsAdmin"
    ELSE "needsGrant"

(* publishVisibility.ts: the stored visibility, when the backend knows one, *)
(* beats the request's flag, and a flag that contradicts it is refused.     *)
HasStoredVisibility(facts) ==
    facts.packageAlreadyExists /\ facts.existingPackagePublic # "undefined"

(* Mutant: a flag that contradicts the stored visibility is corrected to it. *)
Corrected(facts, requested) == FALSE

ContradictsStored(facts, requested) ==
    /\ HasStoredVisibility(facts)
    /\ requested \notin {"undefined", facts.existingPackagePublic}

(* Mutant: the request's flag decides, as if every package were new. *)
FlagDecides(facts, requested) == IF requested = "public" THEN "public" ELSE "private"

(* Mutant: an omitted flag is passed on as it is. *)
UnsetPassesThrough(facts, requested) ==
    IF HasStoredVisibility(facts) THEN facts.existingPackagePublic ELSE requested

DecidePublishVisibility(facts, requested) ==
    IF HasStoredVisibility(facts) THEN facts.existingPackagePublic
    ELSE IF requested = "public" THEN "public" ELSE "private"

(* Mutant: the owner of a private dependency is not looked at. *)
AnyOwner(visibility, dependencies) ==
    visibility = "public" => \A d \in dependencies : d.resolved => d.isPublic

(* dependencyVisibility.ts: unresolved dependencies are ignored. *)
DecideDependencyVisibility(visibility, dependencies) ==
    LET privateDeps == {d \in dependencies : d.resolved /\ ~d.isPublic}
    IN  IF visibility = "public" THEN privateDeps = {}
        ELSE \A d \in privateDeps : d.ownedByAuthor

(* A block with a Retry-After is a cooldown, one without an over-limit Studio. *)
(* A wait of 0 seconds is falsy in the handler: it counts as none.             *)
BlockVerdict(facts) == IF facts.retryAfterSeconds # 0 THEN "cooldown" ELSE "limit"

(* Mutant: the Studio's block is looked at before the permission. *)
BlockFirst(facts, requested) ==
    IF ~facts.authenticated THEN "unauthorized"
    ELSE IF facts.blocked THEN BlockVerdict(facts)
    ELSE IF ~DecidePublishPermission(facts) THEN PermissionRefusal(facts)
    ELSE "proceed"

(* routes/publish.ts: the checks between the facts and the validation, in    *)
(* the order the handler makes them.  A verdict names the reason the reply's *)
(* body gives; "proceed" lets the upload through to validation.              *)
PublishVerdict(facts, requested) ==
    IF ~facts.authenticated THEN "unauthorized"
    ELSE IF ~DecidePublishPermission(facts) THEN PermissionRefusal(facts)
    ELSE IF facts.blocked THEN BlockVerdict(facts)
    ELSE IF ContradictsStored(facts, requested) THEN "contradiction"
    ELSE IF ~DecideDependencyVisibility(DecidePublishVisibility(facts, requested),
                                        facts.dependencies)
         THEN "badDependency"
    ELSE "proceed"

(* The HTTP status of each refusal. *)
StatusOf ==
    [unauthorized |-> 401, notMember |-> 403, needsAdmin |-> 403, needsGrant |-> 403,
     cooldown |-> 429, limit |-> 403, contradiction |-> 400, badDependency |-> 400]

(* accessPolicy.ts: who may read a private package. *)
DecidePackageAccess(facts) ==
    \/ facts.isPublic
    \/ facts.isOwnerMatch
    \/ /\ facts.isOrganizationOwned
       /\ facts.membershipRank \in {"owner", "admin"} \/ facts.hasPackageAccessGrant

-----------------------------------------------------------------------------
(* contentAddress.ts and publish.ts: where a tarball lives. *)
StorageKey(visibility, hash) == [visibility |-> visibility, hash |-> hash]

(* tarballEncryption.ts: the SSE-C key sent with a put, as the set of at     *)
(* most one key.  HMAC under one master key is injective in the storage key, *)
(* so the derived key is modelled by the storage key it is derived from.     *)
ObjectEncryptionKey(encrypting, key) ==
    IF encrypting /\ key.visibility = "private" THEN {key} ELSE {}
=============================================================================
