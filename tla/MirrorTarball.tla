---------------------------- MODULE MirrorTarball ----------------------------
(***************************************************************************)
(* PUT /internal/mirror-tarball (src/routes/mirrorTarball.ts): the sync    *)
(* job of the backend pushes tarballs, and pushes them again when it was   *)
(* not answered.  A handler looks the key up (HEAD) and, unless it learns  *)
(* that the key is there, puts the object; another ingest or a publish of  *)
(* the same bytes may put it in between.                                   *)
(***************************************************************************)
EXTENDS PackageStore

CONSTANTS
    Ingests,       \* mirror requests
    IngestUploads  \* [authorized, wellFormed, claimed, body]

ASSUME IngestAssumption ==
    IngestUploads \subseteq [authorized : BOOLEAN, wellFormed : BOOLEAN,
                             claimed : Hashes, body : Blobs]

VARIABLES
    ingestPc,      \* where each ingest's handler is
    ingest,        \* what each ingest carries
    ingestReply,   \* HTTP status sent, 0 before one is
    ingestNet      \* ingests with a put on its way to R2

ingestVars == <<ingestPc, ingest, ingestReply, ingestNet>>
mirrorVars == <<store, ingestPc, ingest, ingestReply, ingestNet>>

IngestStage == {"idle", "looking", "putting", "done"}

IngestInFlight == {"looking", "putting"}

MirrorTypeOK ==
    /\ StoreTypeOK
    /\ ingestPc \in [Ingests -> IngestStage]
    /\ ingest \in [Ingests -> IngestUploads]
    /\ ingestReply \in [Ingests -> {0, 200, 201, 400, 401, 413, 415, 500, 502}]
    /\ ingestNet \subseteq Ingests

MirrorInit ==
    /\ ingestPc = [m \in Ingests |-> "idle"]
    /\ ingest \in [Ingests -> IngestUploads]
    /\ ingestReply = [m \in Ingests |-> 0]
    /\ ingestNet = {}

-----------------------------------------------------------------------------
FinishIngest(m, status) ==
    /\ ingestPc' = [ingestPc EXCEPT ![m] = "done"]
    /\ ingestReply' = [ingestReply EXCEPT ![m] = status]

(* Mirrored tarballs are public, and stored in the clear. *)
IngestKey(m) == StorageKey("public", ingest[m].claimed)

MirroredObject(m) == [key |-> IngestKey(m), bytes |-> ingest[m].body, ssec |-> {}]

(* Mutant: the claimed hash is taken at its word. *)
ClaimTrusted(m) == ingest[m].wellFormed

(* A non-empty body and a well-formed claim that is the hash of that body. *)
ClaimHolds(m) == ingest[m].wellFormed /\ HashOf[ingest[m].body] = ingest[m].claimed

(* Fastify refuses a body above the limit, one of another type, and JSON it *)
(* cannot parse before the handler runs.                                    *)
RejectIngest(m) ==
    /\ ingestPc[m] = "idle"
    /\ \/ \E status \in {413, 415} : FinishIngest(m, status)
       \/ ~ingest[m].wellFormed /\ FinishIngest(m, 400)
       \/ ~ingest[m].authorized /\ FinishIngest(m, 401)
       \/ ingest[m].authorized /\ ~ClaimHolds(m) /\ FinishIngest(m, 400)
    /\ UNCHANGED <<ingest, ingestNet, store>>

(* Mutant: the secret is not checked. *)
LookUpForAnyone(m) ==
    /\ ingestPc[m] = "idle"
    /\ ClaimHolds(m)
    /\ ingestPc' = [ingestPc EXCEPT ![m] = "looking"]
    /\ UNCHANGED <<ingest, ingestReply, ingestNet, store>>

(* Secret, hash and body are in order: the HEAD is sent. *)
LookUp(m) ==
    /\ ingestPc[m] = "idle"
    /\ ingest[m].authorized
    /\ ClaimHolds(m)
    /\ ingestPc' = [ingestPc EXCEPT ![m] = "looking"]
    /\ UNCHANGED <<ingest, ingestReply, ingestNet, store>>

(* Mutant: a private object of the same hash counts as found. *)
FoundAnywhere(m) ==
    /\ ingestPc[m] = "looking"
    /\ \E o \in store : o.key.hash = ingest[m].claimed
    /\ FinishIngest(m, 200)
    /\ UNCHANGED <<ingest, ingestNet, store>>

(* Whatever is under the key is taken for the same bytes. *)
Found(m) ==
    /\ ingestPc[m] = "looking"
    /\ \E o \in store : o.key = IngestKey(m)
    /\ FinishIngest(m, 200)
    /\ UNCHANGED <<ingest, ingestNet, store>>

(* The key is not there, or the HEAD failed: any error counts as absent. *)
NotFound(m) ==
    /\ ingestPc[m] = "looking"
    /\ ingestPc' = [ingestPc EXCEPT ![m] = "putting"]
    /\ ingestNet' = ingestNet \cup {m}
    /\ UNCHANGED <<ingest, ingestReply, store>>

(* R2 applies the put; a copy may stay on its way, and the answer may be lost. *)
MirrorPutLands(m) ==
    /\ m \in ingestNet
    /\ ingestNet' \in {ingestNet, ingestNet \ {m}}
    /\ PutPackageObject(MirroredObject(m))
    /\ \/ ingestPc[m] = "putting" /\ FinishIngest(m, 201)
       \/ UNCHANGED <<ingestPc, ingestReply>>
    /\ UNCHANGED ingest

MirrorPutFails(m) ==
    /\ ingestPc[m] = "putting"
    /\ FinishIngest(m, 500)
    /\ ingestNet' \in {ingestNet, ingestNet \ {m}}
    /\ UNCHANGED <<ingest, store>>

(* The container dies: the Worker answers 502, puts stay on their way. *)
LoseIngests ==
    /\ ingestPc' = [m \in Ingests |-> IF ingestPc[m] \in IngestInFlight THEN "done"
                                      ELSE ingestPc[m]]
    /\ ingestReply' = [m \in Ingests |-> IF ingestPc[m] \in IngestInFlight THEN 502
                                         ELSE ingestReply[m]]
    /\ UNCHANGED <<ingest, ingestNet, store>>

(* What the handler of m and its put do once the HEAD was sent. *)
HandleIngest(m) ==
    \/ Found(m) \/ NotFound(m)
    \/ MirrorPutLands(m) \/ MirrorPutFails(m)

IngestStep == \E m \in Ingests : RejectIngest(m) \/ LookUp(m) \/ HandleIngest(m)
=============================================================================
