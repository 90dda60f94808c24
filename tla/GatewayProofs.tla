---------------------------- MODULE GatewayProofs ----------------------------
(***************************************************************************)
(* Proofs about Gateway: publishes and mirror ingests on one bucket and in *)
(* one container, for any numbers of them.                                 *)
(*                                                                         *)
(* The invariant of publishing carries over, for an ingest only puts       *)
(* objects that are what their keys say (OthersPut).  The mirror adds      *)
(* what its handlers know of their claims (Claims), and the composition    *)
(* whose put every object is (StoredIsAccounted).                          *)
(***************************************************************************)
EXTENDS Gateway, PublishProofs

(* Beyond its checks, an ingest has the secret and a claim that holds; so    *)
(* has every ingest whose put is on its way or that was told 200 or 201.     *)
Claims ==
    \A m \in Ingests :
        \/ ingestPc[m] \in IngestInFlight
        \/ m \in ingestNet
        \/ ingestReply[m] \in {200, 201}
        => ingest[m].authorized /\ ClaimHolds(m)

(* A put is sent by a handler past its HEAD, and an answer is final. *)
MirrorStages ==
    \A m \in Ingests :
        /\ m \in ingestNet => ingestPc[m] \in {"putting", "done"}
        /\ ingestReply[m] # 0 <=> ingestPc[m] = "done"

GatewayInv ==
    /\ PublishInv
    /\ MirrorTypeOK
    /\ Claims
    /\ MirrorStages
    /\ MirroredIsStored
    /\ StoredIsAccounted

-----------------------------------------------------------------------------
(* What an ingest puts once its claim holds: public/ and in the clear. *)
LEMMA MirroredType ==
    ASSUME MirrorTypeOK, NEW m \in Ingests
    PROVE  /\ MirroredObject(m) \in Object
           /\ MirroredObject(m).key = IngestKey(m)
           /\ ClaimHolds(m) => Sealed(MirroredObject(m))
<1>1. ingest[m] \in [authorized : BOOLEAN, wellFormed : BOOLEAN, claimed : Hashes, body : Blobs]
  BY IngestAssumption DEF MirrorTypeOK
<1>2. IngestKey(m) \in Key
  BY <1>1 DEF IngestKey, StorageKey, Key, Visibility
<1>3. MirroredObject(m) \in Object
  BY <1>1, <1>2 DEF MirroredObject, Object
<1>4. ClaimHolds(m) => Sealed(MirroredObject(m))
  BY DEF ClaimHolds, Sealed, MirroredObject, IngestKey, StorageKey, ObjectEncryptionKey
<1> QED
  BY <1>3, <1>4 DEF MirroredObject

(* mirrorTarball.ts: "existing means byte-identical by construction".  The   *)
(* key an ingest finds filled holds what the ingest would have put there.    *)
LEMMA FoundIsIdentical ==
    ASSUME MirrorTypeOK, SealedStore, NEW m \in Ingests, ClaimHolds(m),
           NEW o \in store, o.key = IngestKey(m)
    PROVE  o = MirroredObject(m)
<1>1. o \in Object
  BY DEF MirrorTypeOK, StoreTypeOK
<1> QED
  BY <1>1, MirroredType, KeyDetermines DEF SealedStore

(* The mirror reads and writes nothing of an ingest but its stage, its reply *)
(* and its put, and answers for itself alone.                                *)
LEMMA MirrorStepType ==
    ASSUME MirrorTypeOK, IngestStep
    PROVE  /\ MirrorTypeOK'
           /\ ingest' = ingest
           /\ store' = store \/ \E m \in Ingests : MirrorPutLands(m)
<1> USE DEF MirrorTypeOK, FinishIngest, IngestStage
<1>1. PICK m \in Ingests : RejectIngest(m) \/ LookUp(m) \/ HandleIngest(m)
  BY DEF IngestStep
<1>2. CASE RejectIngest(m)
  BY <1>2 DEF RejectIngest, StoreTypeOK
<1>3. CASE LookUp(m)
  BY <1>3 DEF LookUp, StoreTypeOK
<1>4. CASE Found(m)
  BY <1>4 DEF Found, StoreTypeOK
<1>5. CASE NotFound(m)
  BY <1>5 DEF NotFound, StoreTypeOK
<1>6. CASE MirrorPutLands(m)
  <2>1. StoreTypeOK'
    BY <1>6, MirroredType DEF MirrorPutLands, PutPackageObject, StoreTypeOK
  <2> QED
    BY <1>6, <2>1 DEF MirrorPutLands
<1>7. CASE MirrorPutFails(m)
  BY <1>7 DEF MirrorPutFails, StoreTypeOK
<1> QED
  BY <1>1, <1>2, <1>3, <1>4, <1>5, <1>6, <1>7 DEF HandleIngest

(* The claim is checked before anything is sent. *)
LEMMA MirrorStepClaims ==
    ASSUME MirrorTypeOK, Claims, MirrorStages, IngestStep
    PROVE  Claims' /\ MirrorStages'
<1> USE DEF MirrorTypeOK, FinishIngest, Claims, MirrorStages, IngestInFlight, ClaimHolds
<1>1. PICK m \in Ingests : RejectIngest(m) \/ LookUp(m) \/ HandleIngest(m)
  BY DEF IngestStep
<1>2. CASE RejectIngest(m)
  BY <1>2 DEF RejectIngest
<1>3. CASE LookUp(m)
  BY <1>3 DEF LookUp
<1>4. CASE Found(m)
  BY <1>4 DEF Found
<1>5. CASE NotFound(m)
  BY <1>5 DEF NotFound
<1>6. CASE MirrorPutLands(m)
  BY <1>6 DEF MirrorPutLands
<1>7. CASE MirrorPutFails(m)
  BY <1>7 DEF MirrorPutFails
<1> QED
  BY <1>1, <1>2, <1>3, <1>4, <1>5, <1>6, <1>7 DEF HandleIngest

(* An ingest leaves the store sealed and takes nothing from it. *)
LEMMA MirrorStepStore ==
    ASSUME MirrorTypeOK, Claims, SealedStore, IngestStep
    PROVE  store \subseteq store' /\ SealedStore'
<1>1. CASE store' = store
  BY <1>1 DEF SealedStore, Sealed
<1>2. CASE \E m \in Ingests : MirrorPutLands(m)
  <2> PICK m \in Ingests : MirrorPutLands(m)
    BY <1>2
  <2>1. ClaimHolds(m)
    BY DEF MirrorPutLands, Claims
  <2> QED
    BY <2>1, MirroredType, SealedPutKeeps DEF MirrorPutLands, MirrorTypeOK
<1> QED
  BY <1>1, <1>2, MirrorStepType

(* Who is told 200 or 201 by this step has its object in the store: Found    *)
(* saw it there, and a put that was answered has landed.                     *)
LEMMA MirrorStepStored ==
    ASSUME MirrorTypeOK, Claims, SealedStore, MirroredIsStored, IngestStep
    PROVE  MirroredIsStored'
<1> DEFINE Holds(m) == \E o \in store' : /\ o.key = IngestKey(m)
                                         /\ o.bytes = ingest[m].body
                                         /\ o.ssec = {}
<1>1. ingest' = ingest /\ store \subseteq store'
  BY MirrorStepType, MirrorStepStore
<1>2. \A m \in Ingests : IngestKey(m)' = IngestKey(m)
  BY <1>1 DEF IngestKey, StorageKey
<1>3. ASSUME NEW m \in Ingests, ingestReply'[m] \in {200, 201}
      PROVE  Holds(m)
  <2>1. CASE ingestReply[m] \in {200, 201}
    BY <1>1, <2>1 DEF MirroredIsStored
  <2>2. CASE ingestReply[m] \notin {200, 201}
    <3>1. Found(m) \/ (MirrorPutLands(m) /\ ingestPc[m] = "putting")
      BY <1>3, <2>2 DEF IngestStep, HandleIngest, RejectIngest, LookUp, Found, NotFound,
         MirrorPutLands, MirrorPutFails, FinishIngest, MirrorTypeOK
    <3>2. ClaimHolds(m)
      BY <3>1 DEF Found, Claims, IngestInFlight
    <3>3. MirroredObject(m) \in store'
      <4>1. CASE Found(m)
        BY <1>1, <3>2, <4>1, FoundIsIdentical DEF Found
      <4>2. CASE MirrorPutLands(m)
        BY <4>2 DEF MirrorPutLands, PutPackageObject
      <4> QED
        BY <3>1, <4>1, <4>2
    <3> QED
      BY <3>3 DEF MirroredObject
  <2> QED
    BY <2>1, <2>2
<1> HIDE DEF Holds
<1>4. \A m \in Ingests : ingestReply'[m] \in {200, 201} => Holds(m)
  BY <1>3
<1> QED
  BY <1>1, <1>2, <1>4 DEF MirroredIsStored, Holds

-----------------------------------------------------------------------------
(* The steps of the composition. *)

(* The container's end is one step for the handlers of both routes, of which *)
(* either may have none.                                                     *)
LEMMA LoseHandlersStep ==
    ASSUME TypeOK, LoseHandlers
    PROVE  Next \/ UNCHANGED vars
<1>1. CASE \E r \in Requests : pc[r] \in InFlight
  BY <1>1 DEF Next, ContainerDies
<1>2. CASE ~ \E r \in Requests : pc[r] \in InFlight
  <2>1. pc' = pc /\ reply' = reply
    BY <1>2 DEF LoseHandlers, TypeOK
  <2> QED
    BY <2>1 DEF LoseHandlers, vars, backend
<1> QED
  BY <1>1, <1>2

(* A step is one of a publish, of an ingest, or of neither's own making. *)
LEMMA GatewaySteps ==
    ASSUME TypeOK, [GatewayNext]_gatewayVars
    PROVE  \/ (Next \/ UNCHANGED vars) /\ (LoseIngests \/ UNCHANGED ingestVars)
           \/ IngestStep /\ UNCHANGED publishVars
<1>1. CASE PublishStep
  BY <1>1 DEF PublishStep, Next
<1>2. CASE MirrorStep
  BY <1>2 DEF MirrorStep
<1>3. CASE GatewayDies
  BY <1>3, LoseHandlersStep DEF GatewayDies
<1>4. CASE UNCHANGED gatewayVars
  BY <1>4 DEF gatewayVars
<1> QED
  BY <1>1, <1>2, <1>3, <1>4 DEF GatewayNext

LEMMA StillPublish == PublishInv /\ (Next \/ UNCHANGED vars) => PublishInv' /\ store \subseteq store'
<1> SUFFICES ASSUME PublishInv, Next \/ UNCHANGED vars
             PROVE  PublishInv' /\ store \subseteq store'
  OBVIOUS
<1>1. CASE Next
  BY <1>1, StepPublishInv, StoreGrows
<1>2. CASE UNCHANGED vars
  BY <1>2, OthersPut DEF vars, backend, PublishInv, TypeOK, StoreTypeOK, SealedStore, Sealed
<1> QED
  BY <1>1, <1>2

LEMMA InitGatewayInv == GatewayInit => GatewayInv
<1> SUFFICES ASSUME GatewayInit PROVE GatewayInv
  OBVIOUS
<1>1. PublishInv
  BY InitPublishInv DEF GatewayInit
<1>2. MirrorTypeOK
  BY <1>1 DEF GatewayInit, MirrorInit, MirrorTypeOK, IngestStage, PublishInv, TypeOK
<1>3. Claims /\ MirrorStages /\ MirroredIsStored /\ StoredIsAccounted
  BY DEF GatewayInit, Init, MirrorInit, Claims, MirrorStages, MirroredIsStored, StoredIsAccounted,
     IngestInFlight
<1> QED
  BY <1>1, <1>2, <1>3 DEF GatewayInv

(* A step of a publish, or the end of the container. *)
LEMMA PublishStepInv ==
    ASSUME GatewayInv, Next \/ UNCHANGED vars, LoseIngests \/ UNCHANGED ingestVars
    PROVE  GatewayInv'
<1>1. PublishInv' /\ store \subseteq store'
  BY StillPublish DEF GatewayInv
<1>2. ingest' = ingest /\ ingestNet' = ingestNet
  BY DEF LoseIngests, ingestVars
<1>3. \A m \in Ingests :
        \/ ingestPc'[m] = ingestPc[m] /\ ingestReply'[m] = ingestReply[m]
        \/ ingestPc[m] \in IngestInFlight /\ ingestPc'[m] = "done" /\ ingestReply'[m] = 502
  BY DEF LoseIngests, ingestVars, GatewayInv, MirrorTypeOK
<1>4. MirrorTypeOK'
  BY <1>1, <1>2 DEF LoseIngests, ingestVars, GatewayInv, MirrorTypeOK, IngestStage,
     PublishInv, TypeOK
<1>5. Claims' /\ MirrorStages'
  BY <1>2, <1>3 DEF GatewayInv, Claims, MirrorStages, ClaimHolds, IngestInFlight
<1>6. MirroredIsStored'
  <2>1. \A m \in Ingests : IngestKey(m)' = IngestKey(m)
    BY <1>2 DEF IngestKey, StorageKey
  <2> QED
    BY <1>1, <1>2, <1>3, <2>1 DEF GatewayInv, MirroredIsStored
<1>7. StoredIsAccounted'
  <2>1. \A m \in Ingests : MirroredObject(m)' = MirroredObject(m)
    BY <1>2 DEF MirroredObject, IngestKey, StorageKey
  <2>2. ASSUME NEW o \in store
        PROVE  \/ \E r \in Requests : /\ o = ObjectOf(r)' /\ licensed'[r]
                                      /\ upload'[r].blob \in ValidBlobs
               \/ \E m \in Ingests : /\ o = MirroredObject(m)' /\ ingest'[m].authorized
                                     /\ HashOf[ingest'[m].body] = ingest'[m].claimed
    <3>1. CASE \E m \in Ingests : /\ o = MirroredObject(m) /\ ingest[m].authorized
                                  /\ HashOf[ingest[m].body] = ingest[m].claimed
      BY <1>2, <2>1, <3>1
    <3>2. CASE \E r \in Requests : /\ o = ObjectOf(r) /\ licensed[r]
                                   /\ upload[r].blob \in ValidBlobs
      <4> PICK r \in Requests : o = ObjectOf(r) /\ licensed[r] /\ upload[r].blob \in ValidBlobs
        BY <3>2
      <4>1. ObjectOf(r)' = ObjectOf(r) /\ licensed'[r] /\ upload' = upload
        <5>1. CASE Next
          BY <5>1, LicensedFixed, StepFrame DEF GatewayInv, PublishInv
        <5>2. CASE UNCHANGED vars
          BY <5>2, SameObjects DEF vars
        <5> QED
          BY <5>1, <5>2
      <4> QED
        BY <4>1
    <3> QED
      BY <3>1, <3>2 DEF GatewayInv, StoredIsAccounted
  <2>3. ASSUME NEW o \in store', o \notin store
        PROVE  \E r \in Requests : /\ o = ObjectOf(r)' /\ licensed'[r]
                                   /\ upload'[r].blob \in ValidBlobs
    <3>1. PICK r \in Requests : Next /\ PutLands(r)
      BY <2>3, StepFrame DEF vars, GatewayInv, PublishInv
    <3>2. o = ObjectOf(r) /\ licensed[r] /\ upload[r].blob \in ValidBlobs
      BY <2>3, <3>1 DEF PutLands, PutPackageObject, GatewayInv, PublishInv, Stages
    <3> QED
      BY <3>1, <3>2, LicensedFixed, StepFrame DEF GatewayInv, PublishInv
  <2> QED
    BY <2>2, <2>3 DEF StoredIsAccounted
<1> QED
  BY <1>1, <1>4, <1>5, <1>6, <1>7 DEF GatewayInv

(* A step of an ingest. *)
LEMMA MirrorStepInv ==
    ASSUME GatewayInv, IngestStep, UNCHANGED publishVars
    PROVE  GatewayInv'
<1>1. MirrorTypeOK' /\ ingest' = ingest
  BY MirrorStepType DEF GatewayInv
<1>2. Claims' /\ MirrorStages'
  BY MirrorStepClaims DEF GatewayInv
<1>3. store \subseteq store' /\ SealedStore'
  BY MirrorStepStore DEF GatewayInv, PublishInv
<1>4. MirroredIsStored'
  BY MirrorStepStored DEF GatewayInv, PublishInv
<1>5. PublishInv'
  BY <1>1, <1>3, OthersPut DEF GatewayInv, publishVars, backend, MirrorTypeOK
<1>6. StoredIsAccounted'
  <2>1. /\ \A m \in Ingests : MirroredObject(m)' = MirroredObject(m)
        /\ \A r \in Requests : ObjectOf(r)' = ObjectOf(r)
    BY <1>1, SameObjects DEF publishVars, MirroredObject, IngestKey, StorageKey
  <2>2. ASSUME NEW o \in store', o \notin store
        PROVE  \E m \in Ingests : /\ o = MirroredObject(m) /\ ingest[m].authorized
                                  /\ HashOf[ingest[m].body] = ingest[m].claimed
    BY <2>2, MirrorStepType DEF MirrorPutLands, PutPackageObject, GatewayInv, Claims, ClaimHolds
  <2> QED
    BY <1>1, <2>1, <2>2 DEF GatewayInv, StoredIsAccounted, publishVars
<1> QED
  BY <1>1, <1>2, <1>4, <1>5, <1>6 DEF GatewayInv

-----------------------------------------------------------------------------
(* However publishes, ingests and the container's ends interleave, the        *)
(* invariant of the composition holds.                                        *)
THEOREM GatewayInvariance == GatewaySpec => []GatewayInv
<1>1. GatewayInv => TypeOK
  BY DEF GatewayInv, PublishInv
<1>2. GatewayInv /\ [GatewayNext]_gatewayVars => GatewayInv'
  BY <1>1, GatewaySteps, PublishStepInv, MirrorStepInv
<1> QED
  BY InitGatewayInv, <1>2, PTL DEF GatewaySpec

(* Every variable of the composition keeps its type. *)
THEOREM GatewayTypeCorrect == GatewaySpec => []GatewayTypeOK
<1>1. GatewayInv => GatewayTypeOK
  BY DEF GatewayInv, PublishInv, GatewayTypeOK
<1> QED
  BY <1>1, GatewayInvariance, PTL

(* mirrorTarball.ts: the caller told 200 or 201 can rely on its tarball being *)
(* public, in the clear, and byte for byte its own.                           *)
THEOREM MirrorTellsTrue == GatewaySpec => []MirroredIsStored
<1>1. GatewayInv => MirroredIsStored
  BY DEF GatewayInv
<1> QED
  BY <1>1, GatewayInvariance, PTL

(* Nothing is in the bucket but what a cleared publish put there, or an       *)
(* ingest with the mirror secret whose body has the hash it claimed.          *)
THEOREM AllAccounted == GatewaySpec => []StoredIsAccounted
<1>1. GatewayInv => StoredIsAccounted
  BY DEF GatewayInv
<1> QED
  BY <1>1, GatewayInvariance, PTL

(* What was proved of publishes on a bucket of their own, of publishes beside *)
(* the mirror: downloads, replies and denials are as they were.               *)
THEOREM PublishKeepsPromises ==
    GatewaySpec => []RecordedIsDeliverable /\ []HonestReply /\ []DeniedLearnsNothing
                   /\ []JudgedTreeInstallable
<1>1. GatewayInv => RecordedIsDeliverable /\ HonestReply /\ DeniedLearnsNothing
                    /\ JudgedTreeInstallable
  BY DeliverableInv, HonestInv, DenialsInv, TreeInv DEF GatewayInv
<1> QED
  BY <1>1, GatewayInvariance, PTL

(* publishPolicy.ts, beside the mirror: no ingest creates a package. *)
THEOREM StillAdminsCreate == GatewaySpec => CreatedByAdmin
<1>1. GatewayInv /\ [GatewayNext]_gatewayVars => [AdminCreates]_vars
  <2> SUFFICES ASSUME GatewayInv, [GatewayNext]_gatewayVars PROVE [AdminCreates]_vars
    OBVIOUS
  <2>1. CASE Next
    BY <2>1, StepCreates DEF GatewayInv
  <2>2. CASE UNCHANGED publishVars
    BY <2>2 DEF publishVars, AdminCreates
  <2> QED
    BY <2>1, <2>2, GatewaySteps DEF GatewayInv, PublishInv
<1> QED
  BY <1>1, GatewayInvariance, PTL DEF GatewaySpec, CreatedByAdmin

(* README.md: callers of either route "can only ever ADD objects".            *)
THEOREM BothOnlyAdd == GatewaySpec => OnlyAdds
<1>1. GatewayInv /\ [GatewayNext]_gatewayVars => store \subseteq store'
  BY GatewaySteps, StillPublish, MirrorStepStore DEF GatewayInv, PublishInv
<1> QED
  BY <1>1, GatewayInvariance, PTL DEF GatewaySpec, OnlyAdds

(* An ingest's put adds a content-addressed object or repeats one, also one   *)
(* that a publish put, and its other steps change nothing in the registry.    *)
LEMMA IngestImplements ==
    ASSUME GatewayInv, IngestStep, UNCHANGED publishVars
    PROVE  [Registry!Next]_(Registry!vars)
<1>1. CASE store' = store
  BY <1>1 DEF Registry!vars, publishVars
<1>2. CASE \E m \in Ingests : MirrorPutLands(m)
  <2> PICK m \in Ingests : MirrorPutLands(m)
    BY <1>2
  <2>1. Sealed(MirroredObject(m)) /\ MirroredObject(m) \in Object
    BY MirroredType DEF MirrorPutLands, GatewayInv, Claims
  <2> QED
    BY <2>1, SealedPutAdds DEF MirrorPutLands, GatewayInv, MirrorTypeOK, PublishInv, publishVars
<1> QED
  BY <1>1, <1>2, MirrorStepType DEF GatewayInv

(* Publishes and ingests together implement the content-addressed registry.   *)
THEOREM GatewayRefinement == GatewaySpec => GatewayImplementsRegistry
<1>1. GatewayInit => Registry!Init
  BY DEF GatewayInit, Init, Registry!Init
<1>2. GatewayInv /\ [GatewayNext]_gatewayVars => [Registry!Next]_(Registry!vars)
  <2> SUFFICES ASSUME GatewayInv, [GatewayNext]_gatewayVars
               PROVE  [Registry!Next]_(Registry!vars)
    OBVIOUS
  <2>1. CASE Next
    BY <2>1, StepImplements DEF GatewayInv
  <2>2. CASE UNCHANGED vars
    BY <2>2 DEF vars, Registry!vars
  <2>3. CASE IngestStep /\ UNCHANGED publishVars
    BY <2>3, IngestImplements
  <2> QED
    BY <2>1, <2>2, <2>3, GatewaySteps DEF GatewayInv, PublishInv
<1> QED
  BY GatewayInvariance, <1>1, <1>2, PTL DEF GatewaySpec, GatewayImplementsRegistry, Registry!Spec
=============================================================================
