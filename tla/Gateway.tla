------------------------------- MODULE Gateway -------------------------------
(***************************************************************************)
(* The service as a whole writes to one bucket from two routes: publishes  *)
(* and mirror ingests interleave, and share the one container that runs    *)
(* their handlers (src/server.ts, src/index.ts).                           *)
(***************************************************************************)
EXTENDS Publish, MirrorTarball

publishVars == <<pc, upload, facts, refusal, isPublic, licensed, reply, putNet, recNet,
                 pkgVis, versions>>
gatewayVars == <<vars, ingestVars>>

GatewayInit == Init /\ MirrorInit

PublishStep == RequestStep /\ UNCHANGED ingestVars

MirrorStep == IngestStep /\ UNCHANGED publishVars

(* All requests go to the container named forest-trust-gateway. *)
GatewayDies ==
    /\ \/ \E r \in Requests : pc[r] \in InFlight
       \/ \E m \in Ingests : ingestPc[m] \in IngestInFlight
    /\ LoseHandlers
    /\ LoseIngests

GatewayNext == PublishStep \/ MirrorStep \/ GatewayDies

GatewaySpec == GatewayInit /\ [][GatewayNext]_gatewayVars

(* A client need not send anything and the container need not die, but a     *)
(* handler that was called runs on, whatever the others do, and a call it    *)
(* awaits is answered or breaks: Node runs every callback that is ready, and *)
(* postOrGet and the S3 client reject when their connection does.            *)
GatewayFairSpec ==
    /\ GatewaySpec
    /\ \A r \in Requests : WF_gatewayVars(Handle(r) /\ UNCHANGED ingestVars)
    /\ \A m \in Ingests : WF_gatewayVars(HandleIngest(m) /\ UNCHANGED publishVars)

-----------------------------------------------------------------------------
GatewayTypeOK == TypeOK /\ MirrorTypeOK

(* The mirror caller told that its tarball is there can rely on it: the     *)
(* object is stored under the public key of its hash, in the clear, however *)
(* HEADs and puts of the same key interleaved (mirrorTarball.ts: "existing  *)
(* means byte-identical by construction").                                  *)
MirroredIsStored ==
    \A m \in Ingests :
        ingestReply[m] \in {200, 201} =>
            \E o \in store : /\ o.key = IngestKey(m)
                             /\ o.bytes = ingest[m].body
                             /\ o.ssec = {}

(* Every object was put by a publish that was cleared for that very key, or *)
(* by an ingest that had the mirror secret and claimed the hash its body    *)
(* has; nothing else gets bytes under public/, a private tarball's among    *)
(* them.                                                                    *)
StoredIsAccounted ==
    \A o \in store :
        \/ \E r \in Requests : o = ObjectOf(r) /\ licensed[r] /\ upload[r].blob \in ValidBlobs
        \/ \E m \in Ingests : /\ o = MirroredObject(m)
                              /\ ingest[m].authorized
                              /\ HashOf[ingest[m].body] = ingest[m].claimed

(* Both routes together only ever add objects (README.md: callers "can only *)
(* ever ADD objects, never overwrite one").                                 *)
OnlyAdds == [][store \subseteq store']_gatewayVars

(* Every upload and every ingest that was taken up gets its one reply, if   *)
(* only the Worker's 502, however puts and answers were lost in between.    *)
EveryCallAnswered ==
    /\ \A r \in Requests : pc[r] = "authorizing" ~> reply[r] # 0
    /\ \A m \in Ingests : ingestPc[m] = "looking" ~> ingestReply[m] # 0

(* Both routes together implement the content-addressed registry. *)
GatewayImplementsRegistry == Registry!Spec
=============================================================================
