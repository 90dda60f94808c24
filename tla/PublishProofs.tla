---------------------------- MODULE PublishProofs ----------------------------
(***************************************************************************)
(* Machine-checked proofs of the safety properties of Publish, for every   *)
(* set of requests, packages, tarballs and callers.                        *)
(*                                                                         *)
(* The properties follow from one inductive invariant: where a request can *)
(* be in its protocol (Stages), what its handler has decided (Decided),    *)
(* that the facts it read keep holding (FactsHold), and that what it sent  *)
(* and what is on record is in the store (Stored, Recorded).               *)
(*                                                                         *)
(* All of it but StoredIsCleared also holds while another route puts its   *)
(* objects into the bucket: that part is PublishInv, the lemmas are about  *)
(* it, and GatewayProofs uses them.                                        *)
(***************************************************************************)
EXTENDS Publish, TLAPS

(* A request's place in the protocol bounds what it may have sent. *)
Stages ==
    \A r \in Requests :
        /\ pc[r] = "licensing" => upload[r].blob \in ValidBlobs
        /\ pc[r] \in {"storing", "recording"} => licensed[r]
        /\ licensed[r] => /\ pc[r] \in {"storing", "recording", "done"}
                          /\ upload[r].blob \in ValidBlobs
        /\ r \in putNet => licensed[r]
        /\ r \in recNet => licensed[r] /\ pc[r] \in {"recording", "done"}

(* A handler past authorization decided by the rules, on facts it has read. *)
Decided ==
    \A r \in Requests :
        /\ \/ licensed[r]
           \/ pc[r] \in {"validating", "licensing", "storing", "recording"}
           => isPublic[r] # "undefined"
        /\ pc[r] \in {"idle", "authorizing"} => isPublic[r] = "undefined"
        /\ isPublic[r] # "undefined" =>
            /\ PublishVerdict(facts[r], upload[r].public) = "proceed"
            /\ isPublic[r] = DecidePublishVisibility(facts[r], upload[r].public)

(* Facts once read stay true: a package is neither removed nor made public  *)
(* or private by a publish.                                                 *)
FactsHold ==
    \A r \in Requests :
        /\ facts[r].packageAlreadyExists => pkgVis[upload[r].pkg] # "absent"
        /\ facts[r].existingPackagePublic # "undefined" =>
            /\ facts[r].packageAlreadyExists
            /\ pkgVis[upload[r].pkg] = facts[r].existingPackagePublic
        /\ \A d \in facts[r].dependencies :
            /\ d.resolved => pkgVis[d.key] = IF d.isPublic THEN "public" ELSE "private"
            /\ d.ownedByAuthor => ScopeOf[d.key] = ScopeOf[upload[r].pkg]

(* The store is content-addressed. *)
SealedStore == \A o \in store : Sealed(o)

(* What a record call on its way names is already stored. *)
Stored == \A r \in recNet : ObjectOf(r) \in store

(* A version on record is the one its request sent, once, and is stored. *)
Recorded ==
    \A v \in versions :
        /\ v = VersionOf(v.by)
        /\ ObjectOf(v.by) \in store
        /\ licensed[v.by]
        /\ pc[v.by] = "done"
        /\ v.by \notin recNet
        /\ pkgVis[v.pkg] # "absent"

(* Replies are final, and tell the client what became of its request. *)
Replied ==
    \A r \in Requests :
        /\ reply[r] = 0 <=> pc[r] # "done"
        /\ r \in recNet => reply[r] \in {0, 500, 502}
        /\ reply[r] = 200 => \E v \in versions : v.by = r
        /\ \A v \in versions : v.by = r => reply[r] \in {200, 500, 502}

(* A caller the permission rule denied is refused at once. *)
Denied ==
    \A r \in Requests :
        /\ pc[r] \in {"idle", "authorizing"} => facts[r] = NoFacts
        /\ facts[r] # NoFacts /\ ~DecidePublishPermission(facts[r]) =>
            /\ pc[r] = "done"
            /\ reply[r] = IF facts[r].authenticated THEN 403 ELSE 401
            /\ refusal[r] = IF facts[r].authenticated THEN PermissionRefusal(facts[r])
                            ELSE "unauthorized"

(* What holds of publishes also while another route writes to the bucket. *)
PublishInv == TypeOK /\ Stages /\ Decided /\ FactsHold /\ Stored /\ Recorded /\ Replied
                /\ Denied /\ SealedStore

Inv == PublishInv /\ StoredIsCleared

-----------------------------------------------------------------------------
(* The rules, for every fact a backend can send. *)

LEMMA VisibilityType ==
    ASSUME NEW f \in Facts, NEW requested
    PROVE  DecidePublishVisibility(f, requested) \in Visibility
BY DEF DecidePublishVisibility, HasStoredVisibility, Facts, Optional, Visibility

LEMMA VerdictType ==
    ASSUME NEW f, NEW requested
    PROVE  /\ PublishVerdict(f, requested) \in {"proceed"} \cup DOMAIN StatusOf
           /\ \A v \in DOMAIN StatusOf : StatusOf[v] \in {400, 401, 403, 429}
BY DEF PublishVerdict, PermissionRefusal, BlockVerdict, StatusOf

(* publish.ts makes the permission check before it looks at the Studio's    *)
(* block, the stored visibility and the dependencies: the verdict on a      *)
(* caller it denies depends on that caller's standing alone.                *)
LEMMA DenialHidesTheRest ==
    ASSUME NEW f \in Facts, NEW g \in Facts, SameStanding(f, g),
           ~DecidePublishPermission(f), ~DecidePublishPermission(g)
    PROVE  f.authenticated => PermissionRefusal(f) = PermissionRefusal(g)
BY DEF PermissionRefusal, SameStanding, DecidePublishPermission, Facts

LEMMA FactsType ==
    ASSUME TypeOK, NEW r \in Requests, NEW caller \in Callers, NEW age
    PROVE  FactsFor(upload[r].pkg, upload[r].dependencies, caller, age) \in Facts
<1>1. upload[r].pkg \in Packages /\ upload[r].dependencies \subseteq Packages
  BY UploadAssumption DEF TypeOK
<1>2. pkgVis[upload[r].pkg] \in Visibility \cup {"absent"}
  BY <1>1 DEF TypeOK
<1>3. \A d \in upload[r].dependencies :
        [key |-> d, resolved |-> pkgVis[d] # "absent", isPublic |-> pkgVis[d] = "public",
         ownedByAuthor |-> ScopeOf[d] = ScopeOf[upload[r].pkg]] \in Dependency
  <2> SUFFICES ASSUME NEW d \in upload[r].dependencies
               PROVE  [key |-> d, resolved |-> pkgVis[d] # "absent",
                       isPublic |-> pkgVis[d] = "public",
                       ownedByAuthor |-> ScopeOf[d] = ScopeOf[upload[r].pkg]] \in Dependency
    OBVIOUS
  <2>1. d \in Packages
    BY <1>1
  <2>2. /\ (pkgVis[d] # "absent") \in BOOLEAN
        /\ (pkgVis[d] = "public") \in BOOLEAN
        /\ (ScopeOf[d] = ScopeOf[upload[r].pkg]) \in BOOLEAN
    OBVIOUS
  <2> QED
    BY <2>1, <2>2, Zenon DEF Dependency
<1>4. /\ caller.authenticated \in BOOLEAN /\ caller.membershipLevel \in Int
      /\ caller.hasWriteGrant \in BOOLEAN /\ caller.blocked \in BOOLEAN
      /\ caller.retryAfterSeconds \in Nat
  BY CallerAssumption
<1> QED
  BY <1>2, <1>3, <1>4 DEF FactsFor, Facts, Optional

LEMMA AuthorizeStep ==
    ASSUME TypeOK, NEW r \in Requests, Authorize(r)
    PROVE  \E f \in Facts :
            /\ DecideOn(r, f)
            /\ \E caller \in Callers, age \in BackendAges :
                f = FactsFor(upload[r].pkg, upload[r].dependencies, caller, age)
BY FactsType DEF Authorize

LEMMA ObjectType ==
    ASSUME TypeOK, NEW r \in Requests, isPublic[r] # "undefined"
    PROVE  /\ isPublic[r] \in Visibility
           /\ HashOf[upload[r].blob] \in Hashes
           /\ FinalKey(r) \in Key
           /\ ObjectOf(r) \in Object
           /\ VersionOf(r) \in Version
<1>1. upload[r] \in [pkg : Packages, version : VersionNumbers, blob : Blobs,
                      public : Optional, dependencies : SUBSET Packages]
  BY UploadAssumption DEF TypeOK
<1>2. isPublic[r] \in Visibility /\ HashOf[upload[r].blob] \in Hashes
  BY <1>1, HashAssumption DEF TypeOK, Optional
<1>3. FinalKey(r) \in Key
  BY <1>2 DEF FinalKey, StorageKey, Key
<1>4. ObjectOf(r) \in Object
  BY <1>1, <1>3 DEF ObjectOf, Object, ObjectEncryptionKey
<1>5. VersionOf(r) \in Version
  BY <1>1, <1>2 DEF VersionOf, Version
<1> QED
  BY <1>2, <1>3, <1>4, <1>5

LEMMA ObjectSealed ==
    \A r \in Requests : ObjectOf(r).key = FinalKey(r) /\ Sealed(ObjectOf(r))
BY DEF ObjectOf, FinalKey, StorageKey, Sealed

(* Content addressing: one key, one object. *)
LEMMA KeyDetermines ==
    ASSUME NEW o \in Object, NEW p \in Object, Sealed(o), Sealed(p), o.key = p.key
    PROVE  o = p
<1>1. HashOf[o.bytes] = HashOf[p.bytes] /\ o.ssec = p.ssec
  BY DEF Sealed
<1>2. o.bytes = p.bytes
  BY <1>1, HashAssumption DEF Object
<1> QED
  BY <1>1, <1>2 DEF Object

-----------------------------------------------------------------------------
(* What every step leaves alone. *)

LEMMA SameObjects ==
    ASSUME UNCHANGED <<upload, isPublic>>
    PROVE  \A r \in Requests :
            FinalKey(r)' = FinalKey(r) /\ ObjectOf(r)' = ObjectOf(r) /\ VersionOf(r)' = VersionOf(r)
BY DEF FinalKey, ObjectOf, VersionOf, StorageKey, ObjectEncryptionKey

LEMMA StepFrame ==
    ASSUME TypeOK, Next
    PROVE  /\ upload' = upload
           /\ UNCHANGED <<facts, refusal, isPublic>> \/ \E r \in Requests : Authorize(r)
           /\ store' = store \/ \E r \in Requests : PutLands(r)
           /\ recNet' \subseteq recNet \/ \E r \in Requests : PutLands(r)
           /\ UNCHANGED <<pkgVis, versions>> \/ \E r \in Requests : RecordCommits(r)
           /\ licensed' = licensed \/ \E r \in Requests : LicenseAccepted(r)
           /\ \A r \in Requests : pc[r] = "done" =>
                        pc'[r] = "done" /\ reply'[r] = reply[r] /\ refusal'[r] = refusal[r]
           /\ \A r \in Requests : pc'[r] \in {"idle", "authorizing"} =>
                                    pc[r] \in {"idle", "authorizing"}
<1> USE DEF TypeOK, StoreTypeOK, backend, Finish
<1>1. CASE \E r \in Requests : ReceiveUpload(r) \/ RejectUpload(r)
  BY <1>1 DEF ReceiveUpload, RejectUpload
<1>2. CASE \E r \in Requests : Authorize(r) \/ AuthorizeFails(r)
  BY <1>2 DEF Authorize, DecideOn, AuthorizeFails
<1>3. CASE \E r \in Requests : Validate(r) \/ ValidationFails(r)
  BY <1>3 DEF Validate, ValidationFails
<1>4. CASE \E r \in Requests : LicenseAccepted(r) \/ LicenseRefused(r)
  BY <1>4 DEF LicenseAccepted, LicenseRefused
<1>5. CASE \E r \in Requests : PutLands(r) \/ PutFails(r)
  BY <1>5 DEF PutLands, PutPackageObject, PutFails
<1>6. CASE \E r \in Requests : RecordCommits(r) \/ RecordRefused(r) \/ RecordFails(r)
  BY <1>6 DEF RecordCommits, RecordRefused, RecordFails
<1>7. CASE ContainerDies
  BY <1>7 DEF ContainerDies, LoseHandlers, InFlight
<1> QED
  BY <1>1, <1>2, <1>3, <1>4, <1>5, <1>6, <1>7 DEF Next, RequestStep, Handle

-----------------------------------------------------------------------------
(* The inductive invariant. *)

LEMMA InitPublishInv == Init => PublishInv
<1> SUFFICES ASSUME Init PROVE PublishInv
  OBVIOUS
<1>1. NoFacts \in Facts
  BY DEF NoFacts, Facts, Optional, Visibility
<1>2. TypeOK
  BY <1>1 DEF Init, TypeOK, StoreTypeOK, Stage, Optional, Status
<1>3. Stages /\ SealedStore /\ Stored /\ Recorded /\ Replied
  BY DEF Init, Stages, SealedStore, Stored, Recorded, Replied
<1>4. Decided /\ FactsHold /\ Denied
  BY DEF Init, Decided, FactsHold, Denied, NoFacts
<1> QED
  BY <1>2, <1>3, <1>4 DEF PublishInv

LEMMA StepType == PublishInv /\ Next => TypeOK'
<1> SUFFICES ASSUME PublishInv, Next PROVE TypeOK'
  OBVIOUS
<1> USE DEF PublishInv, TypeOK, StoreTypeOK, Stage, Status, backend, Finish, CallFailure
<1>1. CASE \E r \in Requests : ReceiveUpload(r) \/ RejectUpload(r)
  BY <1>1 DEF ReceiveUpload, RejectUpload
<1>2. CASE \E r \in Requests : Authorize(r)
  <2> PICK r \in Requests : Authorize(r)
    BY <1>2
  <2>1. PICK f \in Facts : DecideOn(r, f)
    BY AuthorizeStep
  <2>2. DecidePublishVisibility(f, upload[r].public) \in Optional
    BY VisibilityType DEF Optional
  <2>3. PublishVerdict(f, upload[r].public) # "proceed" =>
            StatusOf[PublishVerdict(f, upload[r].public)] \in Status
    BY VerdictType
  <2>4. facts' \in [Requests -> Facts]
    BY <2>1 DEF DecideOn
  <2>5. isPublic' \in [Requests -> Optional]
    BY <2>1, <2>2 DEF DecideOn
  <2>6. pc' \in [Requests -> Stage] /\ reply' \in [Requests -> Status]
    BY <2>1, <2>3 DEF DecideOn
  <2>7. refusal' \in [Requests -> {"none"} \cup DOMAIN StatusOf]
    BY <2>1, VerdictType DEF DecideOn
  <2> QED
    BY <2>4, <2>5, <2>6, <2>7 DEF Authorize
<1>3. CASE \E r \in Requests : AuthorizeFails(r)
  BY <1>3 DEF AuthorizeFails
<1>4. CASE \E r \in Requests : Validate(r) \/ ValidationFails(r)
  BY <1>4 DEF Validate, ValidationFails
<1>5. CASE \E r \in Requests : LicenseAccepted(r)
  <2>1. licensed' \in [Requests -> BOOLEAN]
    BY <1>5 DEF LicenseAccepted
  <2> QED
    BY <1>5, <2>1 DEF LicenseAccepted
<1>11. CASE \E r \in Requests : LicenseRefused(r)
  BY <1>11 DEF LicenseRefused
<1>6. CASE \E r \in Requests : PutLands(r)
  <2> PICK r \in Requests : PutLands(r)
    BY <1>6
  <2>1. ObjectOf(r) \in Object
    BY ObjectType DEF PutLands, Stages, Decided
  <2> QED
    BY <2>1 DEF PutLands, PutPackageObject
<1>7. CASE \E r \in Requests : PutFails(r)
  BY <1>7 DEF PutFails
<1>8. CASE \E r \in Requests : RecordCommits(r)
  <2> PICK r \in Requests : RecordCommits(r)
    BY <1>8
  <2>1. VersionOf(r) \in Version /\ isPublic[r] \in Visibility
    BY ObjectType DEF RecordCommits, Stages, Decided
  <2>2. versions' \subseteq Version
    BY <2>1 DEF RecordCommits
  <2>3. pkgVis' \in [Packages -> Visibility \cup {"absent"}]
    BY <2>1 DEF RecordCommits
  <2> QED
    BY <2>2, <2>3 DEF RecordCommits
<1>9. CASE \E r \in Requests : RecordRefused(r) \/ RecordFails(r)
  BY <1>9 DEF RecordRefused, RecordFails
<1>10. CASE ContainerDies
  BY <1>10 DEF ContainerDies, LoseHandlers, InFlight
<1> QED
  BY <1>1, <1>2, <1>3, <1>4, <1>5, <1>6, <1>7, <1>8, <1>9, <1>10, <1>11
  DEF Next, RequestStep, Handle

LEMMA StepStages == PublishInv /\ Next => Stages'
<1> SUFFICES ASSUME PublishInv, Next PROVE Stages'
  OBVIOUS
<1> USE DEF PublishInv, TypeOK, Stages, backend, Finish
<1>1. CASE \E r \in Requests : ReceiveUpload(r) \/ RejectUpload(r)
  BY <1>1 DEF ReceiveUpload, RejectUpload
<1>2. CASE \E r \in Requests : Authorize(r) \/ AuthorizeFails(r)
  BY <1>2 DEF Authorize, DecideOn, AuthorizeFails
<1>3. CASE \E r \in Requests : Validate(r) \/ ValidationFails(r)
  BY <1>3 DEF Validate, ValidationFails
<1>4. CASE \E r \in Requests : LicenseAccepted(r) \/ LicenseRefused(r)
  BY <1>4 DEF LicenseAccepted, LicenseRefused
<1>5. CASE \E r \in Requests : PutLands(r) \/ PutFails(r)
  BY <1>5 DEF PutLands, PutPackageObject, PutFails
<1>6. CASE \E r \in Requests : RecordCommits(r) \/ RecordRefused(r) \/ RecordFails(r)
  BY <1>6 DEF RecordCommits, RecordRefused, RecordFails
<1>7. CASE ContainerDies
  BY <1>7 DEF ContainerDies, LoseHandlers, InFlight, Stage
<1> QED
  BY <1>1, <1>2, <1>3, <1>4, <1>5, <1>6, <1>7 DEF Next, RequestStep, Handle

(* Stored objects stay: what a put replaces is the object it stores. *)
LEMMA SealedPutKeeps ==
    ASSUME StoreTypeOK, SealedStore, NEW o \in Object, Sealed(o), PutPackageObject(o)
    PROVE  /\ \A x \in store : x.key = o.key => x = o
           /\ store \subseteq store'
           /\ o \in store'
           /\ StoreTypeOK'
           /\ SealedStore'
<1>1. \A x \in store : x.key = o.key => x = o
  BY KeyDetermines DEF StoreTypeOK, SealedStore
<1>2. SealedStore'
  BY DEF PutPackageObject, SealedStore, Sealed
<1> QED
  BY <1>1, <1>2 DEF PutPackageObject, StoreTypeOK

LEMMA StoreGrows == PublishInv /\ Next => store \subseteq store'
<1> SUFFICES ASSUME PublishInv, NEW r \in Requests, PutLands(r)
             PROVE  store \subseteq store'
  BY StepFrame DEF PublishInv
<1>1. ObjectOf(r) \in Object
  BY ObjectType DEF PublishInv, Stages, Decided, PutLands
<1> QED
  BY <1>1, ObjectSealed, SealedPutKeeps DEF PublishInv, TypeOK, PutLands

LEMMA StepSealed == PublishInv /\ Next => SealedStore'
<1> SUFFICES ASSUME PublishInv, Next, NEW o \in store' PROVE Sealed(o)
  BY DEF SealedStore, Sealed
<1> QED
  BY StepFrame, ObjectSealed DEF PublishInv, SealedStore, PutLands, PutPackageObject

(* A request that has sent anything has its decisions behind it. *)
LEMMA LicensedFixed ==
    ASSUME PublishInv, Next, NEW r \in Requests, licensed[r]
    PROVE  /\ ObjectOf(r)' = ObjectOf(r) /\ VersionOf(r)' = VersionOf(r)
           /\ facts'[r] = facts[r] /\ isPublic'[r] = isPublic[r] /\ licensed'[r]
<1>1. pc[r] # "authorizing"
  BY DEF PublishInv, Stages
<1>2. facts'[r] = facts[r] /\ isPublic'[r] = isPublic[r]
  BY <1>1, StepFrame DEF PublishInv, TypeOK, Authorize, DecideOn
<1>3. licensed'[r]
  BY StepFrame DEF PublishInv, TypeOK, LicenseAccepted
<1>4. upload' = upload
  BY StepFrame DEF PublishInv
<1>5. FinalKey(r)' = FinalKey(r)
  BY <1>2, <1>4 DEF FinalKey, StorageKey
<1> QED
  BY <1>2, <1>3, <1>4, <1>5 DEF ObjectOf, VersionOf, ObjectEncryptionKey

LEMMA StepCleared == Inv /\ Next => StoredIsCleared'
<1> SUFFICES ASSUME Inv, Next, NEW o \in store'
             PROVE  \E r \in Requests :
                        o = ObjectOf(r)' /\ licensed'[r] /\ upload'[r].blob \in ValidBlobs
  BY DEF StoredIsCleared
<1>1. CASE o \in store
  <2>1. PICK r \in Requests : o = ObjectOf(r) /\ licensed[r] /\ upload[r].blob \in ValidBlobs
    BY <1>1 DEF Inv, StoredIsCleared
  <2> QED
    BY <2>1, LicensedFixed, StepFrame DEF Inv, PublishInv
<1>2. CASE o \notin store
  <2>1. PICK r \in Requests : PutLands(r)
    BY <1>2, StepFrame DEF Inv, PublishInv
  <2>2. o = ObjectOf(r) /\ licensed[r] /\ upload[r].blob \in ValidBlobs
    BY <1>2, <2>1 DEF PutLands, PutPackageObject, Inv, PublishInv, Stages
  <2> QED
    BY <2>2, LicensedFixed, StepFrame DEF Inv, PublishInv
<1> QED
  BY <1>1, <1>2

LEMMA StepStored == PublishInv /\ Next => Stored'
<1> SUFFICES ASSUME PublishInv, Next, NEW r \in Requests, r \in recNet'
             PROVE  ObjectOf(r)' \in store'
  BY StepType DEF Stored, TypeOK
<1>1. CASE r \in recNet
  BY <1>1, LicensedFixed, StoreGrows DEF PublishInv, Stages, Stored
<1>2. CASE r \notin recNet
  <2>1. PutLands(r)
    BY <1>2, StepFrame DEF PublishInv, PutLands
  <2>2. licensed[r] /\ ObjectOf(r) \in store'
    BY <2>1 DEF PutLands, PutPackageObject, PublishInv, Stages
  <2> QED
    BY <2>2, LicensedFixed
<1> QED
  BY <1>1, <1>2

LEMMA StepDecided == PublishInv /\ Next => Decided'
<1> SUFFICES ASSUME PublishInv, Next PROVE Decided'
  OBVIOUS
<1>1. CASE \E r \in Requests : Authorize(r)
  <2> PICK r \in Requests : Authorize(r)
    BY <1>1
  <2>1. PICK f \in Facts : DecideOn(r, f)
    BY AuthorizeStep DEF PublishInv
  <2>2. DecidePublishVisibility(f, upload[r].public) # "undefined"
    BY VisibilityType DEF Visibility
  <2>3. ~licensed[r] /\ pc[r] = "authorizing"
    BY DEF PublishInv, Stages, Authorize
  <2>4. facts'[r] = f
    BY <2>1 DEF DecideOn, PublishInv, TypeOK
  <2>5. \A q \in Requests \ {r} : /\ facts'[q] = facts[q] /\ isPublic'[q] = isPublic[q]
                                /\ pc'[q] = pc[q]
    BY <2>1 DEF DecideOn, Finish, PublishInv, TypeOK
  <2>6. UNCHANGED <<upload, licensed>>
    BY DEF Authorize
  <2> QED
    BY <2>1, <2>2, <2>3, <2>4, <2>5, <2>6 DEF PublishInv, TypeOK, Decided, DecideOn, Finish
<1>2. CASE \A r \in Requests : ~Authorize(r)
  <2>1. UNCHANGED <<facts, isPublic, upload>>
    BY <1>2, StepFrame DEF PublishInv
  <2>2. ASSUME NEW r \in Requests,
               licensed'[r] \/ pc'[r] \in {"validating", "licensing", "storing", "recording"}
        PROVE  licensed[r] \/ pc[r] \in {"validating", "licensing", "storing", "recording"}
    BY <1>2, <2>2 DEF Next, RequestStep, Handle, ReceiveUpload, RejectUpload, AuthorizeFails, Validate,
        ValidationFails, LicenseAccepted, LicenseRefused, PutLands, PutFails, RecordCommits,
        RecordRefused, RecordFails, ContainerDies, LoseHandlers, Finish, PublishInv, TypeOK
  <2> QED
    BY <2>1, <2>2, StepFrame DEF PublishInv, Decided
<1> QED
  BY <1>1, <1>2

(* The visibility of a package that exists is fixed. *)
LEMMA VisibilityFixed ==
    PublishInv /\ Next => \A p \in Packages : pkgVis[p] # "absent" => pkgVis'[p] = pkgVis[p]
BY StepFrame DEF PublishInv, TypeOK, RecordCommits

LEMMA StepFactsHold == PublishInv /\ Next => FactsHold'
<1> SUFFICES ASSUME PublishInv, Next PROVE FactsHold'
  OBVIOUS
<1> DEFINE Holds(p, f, vis) ==
        /\ f.packageAlreadyExists => vis[p] # "absent"
        /\ f.existingPackagePublic # "undefined" =>
            f.packageAlreadyExists /\ vis[p] = f.existingPackagePublic
        /\ \A d \in f.dependencies :
            /\ d.resolved => vis[d.key] = IF d.isPublic THEN "public" ELSE "private"
            /\ d.ownedByAuthor => ScopeOf[d.key] = ScopeOf[p]
<1>1. \A r \in Requests : upload'[r] = upload[r] /\ upload[r].pkg \in Packages
  BY StepFrame, UploadAssumption DEF PublishInv, TypeOK
<1>2. ASSUME NEW r \in Requests, facts'[r] = facts[r]
      PROVE  Holds(upload[r].pkg, facts'[r], pkgVis')
  <2>1. Holds(upload[r].pkg, facts[r], pkgVis)
    BY DEF PublishInv, FactsHold
  <2>2. facts[r] \in Facts
    BY DEF PublishInv, TypeOK
  <2> QED
    BY <1>1, <1>2, <2>1, <2>2, VisibilityFixed DEF Facts, Dependency
<1>3. ASSUME NEW r \in Requests, facts'[r] # facts[r]
      PROVE  Holds(upload[r].pkg, facts'[r], pkgVis')
  <2>1. Authorize(r)
    BY <1>3, StepFrame DEF PublishInv, TypeOK, Authorize, DecideOn
  <2>2. PICK f \in Facts :
            /\ DecideOn(r, f)
            /\ \E caller \in Callers, age \in BackendAges :
                f = FactsFor(upload[r].pkg, upload[r].dependencies, caller, age)
    BY <2>1, AuthorizeStep DEF PublishInv
  <2>3. facts'[r] = f /\ pkgVis' = pkgVis
    BY <2>1, <2>2 DEF DecideOn, Authorize, backend, PublishInv, TypeOK
  <2>4. pkgVis \in [Packages -> {"public", "private", "absent"}]
    BY DEF PublishInv, TypeOK, Visibility
  <2>5. upload[r].dependencies \subseteq Packages
    BY UploadAssumption DEF PublishInv, TypeOK
  <2>6. PICK caller \in Callers, age \in BackendAges :
            f = FactsFor(upload[r].pkg, upload[r].dependencies, caller, age)
    BY <2>2
  <2>7. /\ f.packageAlreadyExists => pkgVis[upload[r].pkg] # "absent"
        /\ f.existingPackagePublic # "undefined" =>
            f.packageAlreadyExists /\ pkgVis[upload[r].pkg] = f.existingPackagePublic
    BY <2>6 DEF FactsFor
  <2>8. ASSUME NEW d \in f.dependencies
        PROVE  /\ d.resolved => pkgVis[d.key] = IF d.isPublic THEN "public" ELSE "private"
               /\ d.ownedByAuthor => ScopeOf[d.key] = ScopeOf[upload[r].pkg]
    <3>1. PICK k \in upload[r].dependencies :
            d = [key |-> k, resolved |-> pkgVis[k] # "absent", isPublic |-> pkgVis[k] = "public",
                 ownedByAuthor |-> ScopeOf[k] = ScopeOf[upload[r].pkg]]
      BY <2>6, <2>8 DEF FactsFor
    <3> QED
      BY <3>1, <2>4, <2>5
  <2>9. Holds(upload[r].pkg, f, pkgVis)
    BY <2>7, <2>8
  <2> QED
    BY <2>3, <2>9
<1> QED
  BY <1>1, <1>2, <1>3 DEF FactsHold

LEMMA StepRecorded == PublishInv /\ Next => Recorded'
<1> SUFFICES ASSUME PublishInv, Next, NEW v \in versions'
             PROVE  /\ v = VersionOf(v.by)' /\ ObjectOf(v.by)' \in store' /\ licensed'[v.by]
                    /\ pc'[v.by] = "done" /\ v.by \notin recNet' /\ pkgVis'[v.pkg] # "absent"
  BY DEF Recorded
<1>1. CASE v \in versions
  <2>1. v \in Version /\ v.by \in Requests /\ v.pkg \in Packages
    BY <1>1 DEF PublishInv, TypeOK, Version
  <2>2. /\ v = VersionOf(v.by) /\ ObjectOf(v.by) \in store /\ licensed[v.by]
        /\ pc[v.by] = "done" /\ v.by \notin recNet /\ pkgVis[v.pkg] # "absent"
    BY <1>1 DEF PublishInv, Recorded
  <2>3. v.by \notin recNet'
    BY <2>1, <2>2, StepFrame DEF PublishInv, PutLands
  <2> QED
    BY <2>1, <2>2, <2>3, LicensedFixed, StoreGrows, StepFrame, VisibilityFixed DEF PublishInv
<1>2. CASE v \notin versions
  <2>1. PICK r \in Requests : RecordCommits(r)
    BY <1>2, StepFrame DEF PublishInv
  <2>2. v = VersionOf(r)
    BY <1>2, <2>1 DEF RecordCommits
  <2>3. v.by = r /\ v.pkg = upload[r].pkg
    BY <2>2 DEF VersionOf
  <2>4. licensed[r] /\ ObjectOf(r) \in store /\ isPublic[r] # "undefined"
    BY <2>1 DEF RecordCommits, PublishInv, Stages, Stored, Decided
  <2>5. pc'[r] = "done" /\ r \notin recNet'
    BY <2>1 DEF RecordCommits, Finish, PublishInv, Stages, TypeOK
  <2>6. pkgVis'[upload[r].pkg] # "absent"
    BY <2>1, <2>4, ObjectType, UploadAssumption DEF RecordCommits, PublishInv, TypeOK, Visibility
  <2> QED
    BY <2>2, <2>3, <2>4, <2>5, <2>6, LicensedFixed, StoreGrows
<1> QED
  BY <1>1, <1>2

LEMMA StepReplied == PublishInv /\ Next => Replied'
<1> SUFFICES ASSUME PublishInv, Next PROVE Replied'
  OBVIOUS
<1> USE DEF PublishInv, TypeOK, Stages, Recorded, Replied, Finish, backend
<1>1. CASE \E r \in Requests : ReceiveUpload(r) \/ RejectUpload(r)
  BY <1>1 DEF ReceiveUpload, RejectUpload
<1>2. CASE \E r \in Requests : Authorize(r)
  <2> PICK r \in Requests : Authorize(r)
    BY <1>2
  <2>1. PICK f \in Facts : DecideOn(r, f)
    BY AuthorizeStep
  <2>2. PublishVerdict(f, upload[r].public) # "proceed" =>
            StatusOf[PublishVerdict(f, upload[r].public)] \in {400, 401, 403, 429}
    BY VerdictType
  <2> QED
    BY <2>1, <2>2 DEF DecideOn, Authorize
<1>3. CASE \E r \in Requests : AuthorizeFails(r)
  BY <1>3 DEF AuthorizeFails, CallFailure
<1>4. CASE \E r \in Requests : Validate(r) \/ ValidationFails(r)
  BY <1>4 DEF Validate, ValidationFails
<1>5. CASE \E r \in Requests : LicenseAccepted(r) \/ LicenseRefused(r)
  BY <1>5 DEF LicenseAccepted, LicenseRefused, CallFailure
<1>6. CASE \E r \in Requests : PutLands(r) \/ PutFails(r)
  BY <1>6 DEF PutLands, PutFails
<1>7. CASE \E r \in Requests : RecordCommits(r)
  <2> PICK r \in Requests : RecordCommits(r)
    BY <1>7
  <2>1. VersionOf(r).by = r
    BY DEF VersionOf
  <2>2. versions' = versions \cup {VersionOf(r)} /\ recNet' = recNet \ {r} /\ r \in recNet
    BY DEF RecordCommits
  <2>3. CASE pc[r] = "recording" /\ \E status \in {200, 500} : Finish(r, status)
    BY <2>1, <2>2, <2>3
  <2>4. CASE pc[r] # "recording" /\ UNCHANGED <<pc, reply>>
    BY <2>1, <2>2, <2>4
  <2> QED
    BY <2>3, <2>4 DEF RecordCommits
<1>8. CASE \E r \in Requests : RecordRefused(r) \/ RecordFails(r)
  BY <1>8 DEF RecordRefused, RecordFails, CallFailure
<1>9. CASE ContainerDies
  BY <1>9 DEF ContainerDies, LoseHandlers, InFlight, Stage
<1> QED
  BY <1>1, <1>2, <1>3, <1>4, <1>5, <1>6, <1>7, <1>8, <1>9 DEF Next, RequestStep, Handle

LEMMA StepDenied == PublishInv /\ Next => Denied'
<1> SUFFICES ASSUME PublishInv, Next, NEW r \in Requests
             PROVE  /\ pc'[r] \in {"idle", "authorizing"} => facts'[r] = NoFacts
                    /\ facts'[r] # NoFacts /\ ~DecidePublishPermission(facts'[r]) =>
                        /\ pc'[r] = "done"
                        /\ reply'[r] = IF facts'[r].authenticated THEN 403 ELSE 401
                        /\ refusal'[r] = IF facts'[r].authenticated
                                         THEN PermissionRefusal(facts'[r])
                                         ELSE "unauthorized"
  BY DEF Denied
<1>1. CASE facts'[r] = facts[r]
  BY <1>1, StepFrame DEF PublishInv, Denied
<1>2. CASE facts'[r] # facts[r]
  <2>1. Authorize(r)
    BY <1>2, StepFrame DEF PublishInv, TypeOK, Authorize, DecideOn
  <2>2. PICK f \in Facts : DecideOn(r, f)
    BY <2>1, AuthorizeStep DEF PublishInv
  <2>3. ~DecidePublishPermission(f) =>
            PublishVerdict(f, upload[r].public) = IF f.authenticated THEN PermissionRefusal(f)
                                                  ELSE "unauthorized"
    BY DEF PublishVerdict
  <2>4. facts'[r] = f /\ pc'[r] \in {"validating", "done"}
    BY <2>2 DEF DecideOn, Finish, PublishInv, TypeOK
  <2>5. PublishVerdict(f, upload[r].public) # "proceed" =>
            /\ pc'[r] = "done"
            /\ reply'[r] = StatusOf[PublishVerdict(f, upload[r].public)]
            /\ refusal'[r] = PublishVerdict(f, upload[r].public)
    BY <2>2 DEF DecideOn, Finish, PublishInv, TypeOK
  <2>6. PermissionRefusal(f) \in {"notMember", "needsAdmin", "needsGrant"}
    BY DEF PermissionRefusal
  <2> QED
    BY <2>3, <2>4, <2>5, <2>6 DEF StatusOf
<1> QED
  BY <1>1, <1>2

(* Every step of a publish keeps its invariant. *)
LEMMA StepPublishInv == PublishInv /\ Next => PublishInv'
BY StepType, StepStages, StepDecided, StepFactsHold, StepStored, StepRecorded, StepReplied,
   StepDenied, StepSealed DEF PublishInv

(* So does a step of somebody else that leaves the store sealed, and removes *)
(* nothing from it.                                                          *)
LEMMA OthersPut ==
    ASSUME PublishInv,
           UNCHANGED <<pc, upload, facts, refusal, isPublic, licensed, reply, putNet, recNet, backend>>,
           store \subseteq store', StoreTypeOK', SealedStore'
    PROVE  PublishInv'
<1>1. \A r \in Requests : ObjectOf(r)' = ObjectOf(r) /\ VersionOf(r)' = VersionOf(r)
  BY SameObjects
<1>2. TypeOK' /\ Stages' /\ Decided' /\ FactsHold' /\ Replied' /\ Denied'
  BY DEF backend, PublishInv, TypeOK, Stages, Decided, FactsHold, Replied, Denied
<1>3. Stored'
  BY <1>1 DEF PublishInv, TypeOK, Stored
<1>4. Recorded'
  BY <1>1 DEF backend, PublishInv, TypeOK, Recorded, Version
<1> QED
  BY <1>2, <1>3, <1>4 DEF PublishInv

(* The inductive invariant of publishing, on a bucket of its own. *)
THEOREM Invariance == Spec => []Inv
<1>1. Init => Inv
  BY InitPublishInv DEF Init, Inv, StoredIsCleared
<1>2. Inv /\ UNCHANGED vars => Inv'
  <2> SUFFICES ASSUME Inv, UNCHANGED vars PROVE Inv'
    OBVIOUS
  <2>1. PublishInv'
    BY OthersPut DEF vars, backend, Inv, PublishInv, TypeOK, StoreTypeOK, SealedStore, Sealed
  <2>2. StoredIsCleared'
    BY SameObjects DEF vars, Inv, StoredIsCleared
  <2> QED
    BY <2>1, <2>2 DEF Inv
<1>3. Inv /\ [Next]_vars => Inv'
  BY <1>2, StepPublishInv, StepCleared DEF Inv
<1> QED
  BY <1>1, <1>3, PTL DEF Spec

LEMMA PublishInvariance == Spec => []PublishInv
<1>1. Inv => PublishInv
  BY DEF Inv
<1> QED
  BY <1>1, Invariance, PTL

-----------------------------------------------------------------------------
(* The properties of Publish. *)

(* Every variable keeps its type: no reply but the listed statuses, no      *)
(* object or version under an undecided visibility.                         *)
THEOREM TypeCorrect == Spec => []TypeOK
<1>1. PublishInv => TypeOK
  BY DEF PublishInv
<1> QED
  BY <1>1, PublishInvariance, PTL

(* publish.ts: nothing is written that validation or the license verdict refused. *)
THEOREM OnlyClearedStored == Spec => []StoredIsCleared
<1>1. Inv => StoredIsCleared
  BY DEF Inv
<1> QED
  BY <1>1, Invariance, PTL

(* The invariant gives the properties, whatever else writes to the bucket. *)

LEMMA DeliverableInv == PublishInv => RecordedIsDeliverable
<1> SUFFICES ASSUME PublishInv, NEW v \in versions, Settled(v)
             PROVE  \E o \in store : Delivers(o, v)
  BY DEF RecordedIsDeliverable
<1> DEFINE r == v.by
<1>1. r \in Requests
  BY DEF PublishInv, TypeOK, Version
<1>2. v = VersionOf(r) /\ ObjectOf(r) \in store /\ isPublic[r] # "undefined"
  BY <1>1 DEF PublishInv, Recorded, Decided
<1>3. v.pkg = upload[r].pkg /\ v.isPublic = isPublic[r] /\ v.hash = HashOf[upload[r].blob]
  BY <1>2 DEF VersionOf
<1>4. isPublic[r] = pkgVis[v.pkg]
  <2>1. CASE facts[r].existingPackagePublic # "undefined"
    BY <2>1, <1>1, <1>2, <1>3
    DEF PublishInv, Decided, FactsHold, DecidePublishVisibility, HasStoredVisibility
  <2>2. CASE v.isPublic = pkgVis[v.pkg]
    BY <2>2, <1>3
  <2> QED
    BY <2>1, <2>2 DEF Settled
<1>5. Delivers(ObjectOf(r), v)
  BY <1>3, <1>4 DEF Delivers, ObjectOf, FinalKey
<1> QED
  BY <1>2, <1>5

LEMMA HonestInv == PublishInv => HonestReply
BY DEF PublishInv, Replied, HonestReply

LEMMA DenialsInv == PublishInv => DeniedLearnsNothing
<1> SUFFICES ASSUME PublishInv, NEW q \in Requests, NEW r \in Requests,
                    facts[q] # NoFacts, ~DecidePublishPermission(facts[q]),
                    facts[r] # NoFacts, ~DecidePublishPermission(facts[r]),
                    SameStanding(facts[q], facts[r])
             PROVE  reply[q] = reply[r] /\ refusal[q] = refusal[r]
  BY DEF DeniedLearnsNothing
<1>1. facts[q] \in Facts /\ facts[r] \in Facts
  BY DEF PublishInv, TypeOK
<1>2. facts[q].authenticated => PermissionRefusal(facts[q]) = PermissionRefusal(facts[r])
  BY <1>1, DenialHidesTheRest
<1> QED
  BY <1>2 DEF PublishInv, Denied, SameStanding

(* A request's decided visibility is public only if its publisher wanted it. *)
LEMMA DecidedAsWanted ==
    ASSUME PublishInv, NEW r \in Requests, isPublic[r] = "public"
    PROVE  WantedPublic(r)
<1>1. /\ PublishVerdict(facts[r], upload[r].public) = "proceed"
      /\ DecidePublishVisibility(facts[r], upload[r].public) = "public"
  BY DEF PublishInv, Decided
<1>2. ~ContradictsStored(facts[r], upload[r].public)
  BY <1>1 DEF PublishVerdict, PermissionRefusal, BlockVerdict
<1>3. CASE HasStoredVisibility(facts[r])
  <2>1. facts[r].existingPackagePublic = "public" /\ pkgVis[upload[r].pkg] = "public"
    BY <1>1, <1>3
    DEF DecidePublishVisibility, HasStoredVisibility, PublishInv, FactsHold
  <2> QED
    BY <1>2, <1>3, <2>1 DEF ContradictsStored, WantedPublic
<1>4. CASE ~HasStoredVisibility(facts[r])
  BY <1>1, <1>4 DEF DecidePublishVisibility, WantedPublic
<1> QED
  BY <1>3, <1>4

LEMMA WantedInv == Inv => PublicIsWanted
<1> SUFFICES ASSUME Inv PROVE PublicIsWanted
  OBVIOUS
<1>1. ASSUME NEW o \in store, o.key.visibility = "public"
      PROVE  \E r \in Requests : o = ObjectOf(r) /\ WantedPublic(r)
  <2>1. PICK r \in Requests : o = ObjectOf(r)
    BY DEF Inv, StoredIsCleared
  <2>2. isPublic[r] = "public"
    BY <1>1, <2>1 DEF ObjectOf, FinalKey, StorageKey
  <2> QED
    BY <2>1, <2>2, DecidedAsWanted DEF Inv
<1>2. ASSUME NEW v \in versions, v.isPublic = "public"
      PROVE  WantedPublic(v.by)
  <2>1. v.by \in Requests /\ v = VersionOf(v.by)
    BY DEF Inv, PublishInv, TypeOK, Version, Recorded
  <2>2. isPublic[v.by] = "public"
    BY <1>2, <2>1 DEF VersionOf
  <2> QED
    BY <2>1, <2>2, DecidedAsWanted DEF Inv
<1> QED
  BY <1>1, <1>2 DEF PublicIsWanted

(* publishVisibility.ts: every version on record that settled under its     *)
(* package's stored visibility is in the store where downloads look for it. *)
THEOREM Deliverable == Spec => []RecordedIsDeliverable
BY PublishInvariance, DeliverableInv, PTL

(* publish.ts, index.ts: 200 means on record, 4xx means not on record. *)
THEOREM Honest == Spec => []HonestReply
BY PublishInvariance, HonestInv, PTL

(* publishVisibility.ts: no flag is corrected to public, and no race or older *)
(* backend makes public what its publisher did not want so.                   *)
THEOREM PublicAsWanted == Spec => []PublicIsWanted
BY Invariance, WantedInv, PTL

(* publish.ts: the replies to two denied callers, their reasons included,    *)
(* differ only by the callers' standing.                                     *)
THEOREM DenialsAlike == Spec => []DeniedLearnsNothing
BY PublishInvariance, DenialsInv, PTL

(* dependencyVisibility.ts: the direct check carries over to the whole tree  *)
(* of judged dependencies.  The set of packages the readers of p may install *)
(* is closed under judged dependencies, so it holds all that p reaches.      *)
LEMMA JudgedEdge ==
    ASSUME PublishInv, NEW a \in Packages, NEW b \in Packages, JudgedDependency(a, b)
    PROVE  /\ pkgVis[a] \in Visibility
           /\ ReadersCanInstall(a, b)
           /\ pkgVis[b] # "absent"
<1>1. PICK v \in versions : /\ v.pkg = a /\ v.isPublic = pkgVis[a]
                            /\ \E d \in facts[v.by].dependencies : d.key = b /\ d.resolved
  BY DEF JudgedDependency
<1> DEFINE r == v.by
<1>2. PICK d \in facts[r].dependencies : d.key = b /\ d.resolved
  BY <1>1
<1>3. r \in Requests /\ v = VersionOf(r) /\ isPublic[r] # "undefined"
  BY DEF PublishInv, TypeOK, Version, Recorded, Decided
<1>4. upload[r].pkg = a /\ isPublic[r] = pkgVis[a] /\ pkgVis[a] \in Visibility
  BY <1>1, <1>3, ObjectType DEF VersionOf, PublishInv
<1>5. DecideDependencyVisibility(isPublic[r], facts[r].dependencies)
  BY <1>3 DEF PublishInv, Decided, PublishVerdict, PermissionRefusal, BlockVerdict
<1>6. /\ pkgVis[b] = IF d.isPublic THEN "public" ELSE "private"
      /\ d.ownedByAuthor => ScopeOf[b] = ScopeOf[a]
  BY <1>2, <1>3, <1>4 DEF PublishInv, FactsHold
<1>7. d.isPublic \/ (isPublic[r] # "public" /\ d.ownedByAuthor)
  BY <1>2, <1>5 DEF DecideDependencyVisibility
<1> QED
  BY <1>4, <1>6, <1>7 DEF ReadersCanInstall, Visibility

LEMMA TreeInv == PublishInv => JudgedTreeInstallable
<1> SUFFICES ASSUME PublishInv, NEW p \in Packages, NEW q \in Packages, pkgVis[p] # "absent",
                    Reaches(p, q, JudgedDependency)
             PROVE  ReadersCanInstall(p, q)
  BY DEF JudgedTreeInstallable
<1> DEFINE S == {a \in Packages : ReadersCanInstall(p, a) /\ pkgVis[a] # "absent"}
<1>1. p \in S
  BY DEF PublishInv, TypeOK, Visibility, ReadersCanInstall
<1>2. ASSUME NEW a \in S, NEW b \in Packages, JudgedDependency(a, b)
      PROVE  b \in S
  BY <1>2, JudgedEdge DEF ReadersCanInstall, Visibility
<1>3. q \in S
  BY <1>1, <1>2 DEF Reaches
<1> QED
  BY <1>3

THEOREM TreeInstallable == Spec => []JudgedTreeInstallable
BY PublishInvariance, TreeInv, PTL

(* contentAddress.ts: what is stored under a key is never changed. *)
THEOREM StoredOnce == Spec => WriteOnce
<1>1. PublishInv /\ [Next]_vars => [store \subseteq store']_vars
  BY StoreGrows DEF vars
<1> QED
  BY PublishInvariance, <1>1, PTL DEF Spec, WriteOnce

(* A package that comes into being was judged to be new on facts that made   *)
(* its publisher an admin: nothing but a record call creates packages.       *)
LEMMA StepCreates == PublishInv /\ Next => AdminCreates
<1> SUFFICES ASSUME PublishInv, Next, NEW p \in Packages, pkgVis[p] = "absent", pkgVis'[p] # "absent"
             PROVE  \E v \in versions' \ versions :
                      /\ v.pkg = p
                      /\ facts[v.by].authenticated
                      /\ facts[v.by].membershipLevel >= 2
  BY DEF AdminCreates
<1>1. PICK r \in Requests : RecordCommits(r)
  BY StepFrame DEF PublishInv
<1>2. p = upload[r].pkg
  BY <1>1, UploadAssumption DEF RecordCommits, PublishInv, TypeOK
<1>3. VersionOf(r).by = r /\ VersionOf(r).pkg = p
  BY <1>2 DEF VersionOf
<1>4. VersionOf(r) \in versions' \ versions
  BY <1>1, <1>3 DEF RecordCommits, PublishInv, Recorded
<1>5. PublishVerdict(facts[r], upload[r].public) = "proceed"
  BY <1>1 DEF RecordCommits, PublishInv, Stages, Decided
<1>6. facts[r].authenticated /\ DecidePublishPermission(facts[r])
  BY <1>5 DEF PublishVerdict, PermissionRefusal
<1>7. ~facts[r].packageAlreadyExists
  BY <1>2 DEF PublishInv, FactsHold
<1>8. facts[r].membershipLevel \in Int
  BY DEF PublishInv, TypeOK, Facts
<1>9. facts[r].membershipLevel >= 2
  BY <1>6, <1>7, <1>8 DEF DecidePublishPermission
<1> QED
  BY <1>3, <1>4, <1>6, <1>9

(* publishPolicy.ts: only an admin's publish creates a package. *)
THEOREM AdminsCreate == Spec => CreatedByAdmin
<1>1. PublishInv /\ [Next]_vars => [AdminCreates]_vars
  BY StepCreates
<1> QED
  BY PublishInvariance, <1>1, PTL DEF Spec, CreatedByAdmin

-----------------------------------------------------------------------------
(* Publish implements ContentRegistry: the store seen as keys and bytes only *)
(* grows by content-addressed objects, and a version is listed only once its *)
(* object is there (the README's Design section).                            *)

(* The put of any route, of an object that is what its key says: it adds the *)
(* object, or repeats one.                                                   *)
LEMMA SealedPutAdds ==
    ASSUME StoreTypeOK, SealedStore, NEW o \in Object, Sealed(o), PutPackageObject(o),
           versions' = versions
    PROVE  [Registry!Next]_(Registry!vars)
<1> DEFINE View(S) == {[key |-> x.key, bytes |-> x.bytes] : x \in S}
<1>1. /\ o.key \in Key /\ o.bytes \in Blobs /\ o.key.hash = HashOf[o.bytes]
      /\ o.bytes \in DOMAIN HashOf
  BY HashAssumption DEF Object, Sealed
<1>2. CASE \E x \in store : x.key = o.key
  <2>1. store' = store
    BY <1>2, SealedPutKeeps DEF PutPackageObject
  <2> QED
    BY <2>1 DEF Registry!vars
<1>3. CASE ~ \E x \in store : x.key = o.key
  <2>1. store' = store \cup {o}
    BY <1>3 DEF PutPackageObject
  <2>2. View(store') = View(store) \cup {[key |-> o.key, bytes |-> o.bytes]}
    BY <2>1
  <2>3. ~ \E x \in View(store) : x.key = o.key
    BY <1>3
  <2>4. ASSUME NEW key, NEW bytes, key = o.key, bytes = o.bytes
        PROVE  Registry!AddObject(key, bytes)
    BY <1>1, <2>2, <2>3, <2>4 DEF Registry!AddObject
  <2>5. Registry!Next
    BY <1>1, <2>4 DEF Registry!Next
  <2> QED
    BY <2>5
<1> QED
  BY <1>2, <1>3

LEMMA CommitAddsVersion ==
    ASSUME PublishInv, NEW r \in Requests, RecordCommits(r)
    PROVE  [Registry!Next]_(Registry!vars)
<1> DEFINE Entry(v) == [pkg |-> v.pkg, version |-> v.version, hash |-> v.hash,
                        isPublic |-> v.isPublic]
           View(S) == {Entry(v) : v \in S}
<1>1. VersionOf(r) \in Version /\ ObjectOf(r) \in store
  BY ObjectType DEF PublishInv, Stages, Decided, Stored, RecordCommits
<1>2. versions' = versions \cup {VersionOf(r)} /\ store' = store
  BY DEF RecordCommits
<1>3. View(versions') = View(versions) \cup {Entry(VersionOf(r))}
  BY <1>2
<1>4. ~ \E w \in View(versions) : w.pkg = VersionOf(r).pkg /\ w.version = VersionOf(r).version
  BY DEF RecordCommits, OnRecord, VersionOf
<1>5. ObjectOf(r).key = StorageKey(VersionOf(r).isPublic, VersionOf(r).hash)
  BY DEF ObjectOf, VersionOf, FinalKey
<1>6. ASSUME NEW v, v = Entry(VersionOf(r))
      PROVE  Registry!AddVersion(v)
  <2>1. \E o \in {[key |-> o.key, bytes |-> o.bytes] : o \in store} :
            o.key = Registry!StorageKey(v.isPublic, v.hash)
    <3> DEFINE o == [key |-> ObjectOf(r).key, bytes |-> ObjectOf(r).bytes]
    <3>1. o \in {[key |-> x.key, bytes |-> x.bytes] : x \in store}
      BY <1>1
    <3>2. v.isPublic = VersionOf(r).isPublic /\ v.hash = VersionOf(r).hash
      BY <1>6
    <3>3. o.key = Registry!StorageKey(v.isPublic, v.hash)
      BY <1>5, <3>2 DEF Registry!StorageKey, StorageKey
    <3> QED
      BY <3>1, <3>3
  <2>2. ~ \E w \in View(versions) : w.pkg = v.pkg /\ w.version = v.version
    BY <1>4, <1>6
  <2>3. View(versions') = View(versions) \cup {v}
    BY <1>3, <1>6
  <2> QED
    BY <1>2, <2>1, <2>2, <2>3 DEF Registry!AddVersion
<1>7. Entry(VersionOf(r)) \in [pkg : Packages, version : VersionNumbers, hash : Hashes,
                               isPublic : Visibility]
  BY <1>1 DEF Version
<1>8. Registry!Next
  BY <1>6, <1>7 DEF Registry!Next
<1> QED
  BY <1>8

LEMMA StepImplements == PublishInv /\ Next => [Registry!Next]_(Registry!vars)
<1> SUFFICES ASSUME PublishInv, Next PROVE [Registry!Next]_(Registry!vars)
  OBVIOUS
<1>1. CASE \E r \in Requests : PutLands(r)
  <2> PICK r \in Requests : PutLands(r)
    BY <1>1
  <2>1. ObjectOf(r) \in Object
    BY ObjectType DEF PublishInv, Stages, Decided, PutLands
  <2> QED
    BY <2>1, ObjectSealed, SealedPutAdds DEF PublishInv, TypeOK, PutLands, backend
<1>2. CASE \E r \in Requests : RecordCommits(r)
  BY <1>2, CommitAddsVersion
<1>3. CASE UNCHANGED <<store, versions>>
  BY <1>3 DEF Registry!vars
<1> QED
  BY <1>1, <1>2, <1>3, StepFrame DEF PublishInv

THEOREM Refinement == Spec => ImplementsRegistry
<1>1. Init => Registry!Init
  BY DEF Init, Registry!Init
<1>2. PublishInv /\ [Next]_vars => [Registry!Next]_(Registry!vars)
  <2>1. CASE UNCHANGED vars
    BY <2>1 DEF vars, Registry!vars
  <2> QED
    BY <2>1, StepImplements
<1> QED
  BY PublishInvariance, <1>1, <1>2, PTL DEF Spec, ImplementsRegistry, Registry!Spec
=============================================================================
