----------------------------- MODULE HashAndPipe -----------------------------
(***************************************************************************)
(* hashAndPipe (src/rules/hashAndPipe.ts): a source is piped through a tap *)
(* into a sink.  The hash listener and the pipe's own listener both hang   *)
(* on the tap's 'data' event, so one event feeds both; the sink then works *)
(* through what it was given at its own pace, and asks for a pause when    *)
(* its buffer is full.  Streams are Node's, not this repository's.         *)
(***************************************************************************)
EXTENDS Integers, SequencesExt

CONSTANTS
    Sources,      \* the sequences of chunks a source may deliver
    HighWater     \* chunks a sink buffers before the tap is paused

ASSUME SourcesAssumption == \A s \in Sources : s \in Seq(Range(s))

ASSUME HighWaterAssumption == HighWater \in Nat \ {0}

VARIABLES
    source,
    delivered,    \* chunks the tap has emitted
    hashed,       \* what the hasher was updated with
    sinkBuffer,   \* written to the sink, not yet taken by its write()
    sunk,         \* the sink's chunks: what getBuffer() concatenates
    pipeStage,
    hash          \* the returned hash, as the set of at most one: what it is the hash of

pipeVars == <<source, delivered, hashed, sinkBuffer, sunk, pipeStage, hash>>

PipeRunning == {"flowing", "ended"}

PipeSettled == {"resolved", "failed"}

PipeInit ==
    /\ source \in Sources
    /\ delivered = 0
    /\ hashed = <<>>
    /\ sinkBuffer = <<>>
    /\ sunk = <<>>
    /\ pipeStage = "flowing"
    /\ hash = {}

-----------------------------------------------------------------------------
(* One 'data' event: the hasher is updated and the sink is written to. *)
TapData ==
    /\ pipeStage = "flowing"
    /\ delivered < Len(source)
    /\ Len(sinkBuffer) < HighWater
    /\ delivered' = delivered + 1
    /\ hashed' = Append(hashed, source[delivered + 1])
    /\ sinkBuffer' = Append(sinkBuffer, source[delivered + 1])
    /\ UNCHANGED <<source, sunk, pipeStage, hash>>

SinkWrite ==
    /\ pipeStage \in PipeRunning
    /\ sinkBuffer # <<>>
    /\ sunk' = Append(sunk, Head(sinkBuffer))
    /\ sinkBuffer' = Tail(sinkBuffer)
    /\ UNCHANGED <<source, delivered, hashed, pipeStage, hash>>

(* The tap has no more to emit, and end() is called on the sink. *)
TapEnd ==
    /\ pipeStage = "flowing"
    /\ delivered = Len(source)
    /\ pipeStage' = "ended"
    /\ UNCHANGED <<source, delivered, hashed, sinkBuffer, sunk, hash>>

(* Mutant: the end of the tap resolves the promise. *)
ResolveAtEnd ==
    /\ pipeStage = "ended"
    /\ pipeStage' = "resolved"
    /\ hash' = {hashed}
    /\ UNCHANGED <<source, delivered, hashed, sinkBuffer, sunk>>

(* The pipeline resolves when the sink has finished; then the hash is taken. *)
PipeResolve ==
    /\ pipeStage = "ended"
    /\ sinkBuffer = <<>>
    /\ pipeStage' = "resolved"
    /\ hash' = {hashed}
    /\ UNCHANGED <<source, delivered, hashed, sinkBuffer, sunk>>

(* The source or the sink fails: pipeline() destroys all three and rejects. *)
PipeFail ==
    /\ pipeStage \in PipeRunning
    /\ pipeStage' = "failed"
    /\ UNCHANGED <<source, delivered, hashed, sinkBuffer, sunk, hash>>

PipeFlow == TapData \/ SinkWrite \/ TapEnd \/ PipeResolve

PipeNext == PipeFlow \/ PipeFail

-----------------------------------------------------------------------------
PipeTypeOK ==
    /\ source \in Sources
    /\ delivered \in 0..Len(source)
    /\ hashed = SubSeq(source, 1, delivered)
    /\ IsPrefix(sunk, source)
    /\ Len(sinkBuffer) <= HighWater
    /\ pipeStage \in PipeRunning \cup PipeSettled
    /\ hash \in SUBSET {hashed}

(* A returned hash is the hash of exactly what the sink holds, and that is  *)
(* the whole source: the key an object is stored under and the bytes put    *)
(* under it describe one content (hashAndPipe.ts: "confirm the returned     *)
(* hash always matches exactly what the sink received").                    *)
HashIsOfSunk == hash # {} => hash = {sunk} /\ sunk = source
=============================================================================
