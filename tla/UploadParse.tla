----------------------------- MODULE UploadParse -----------------------------
(***************************************************************************)
(* Reading an upload's multipart body (src/routes/publish.ts, before the   *)
(* authorization call): the parts come in the client's order, any number   *)
(* of them, and the handler keeps at most a metadata, a forest.json and a  *)
(* file.  The JSON is checked by the schemas of src/schemas.ts.            *)
(*                                                                         *)
(* The multipart parser is not in this repository: it yields the parts one *)
(* by one, and of a file no more than the limit, with a flag when there    *)
(* was more.  It throws when the body breaks off.                          *)
(***************************************************************************)
EXTENDS Integers, SequencesExt, Totals

CONSTANTS
    Bodies,          \* [sizeHeader, parts]
    MaxUploadSize    \* 10 MB: the fileSize limit of the multipart parser

(* What a JSON text for a forest.json says, as far as its rules tell it apart; *)
(* wellFormed: JSON, with name, author, version, license and the other fields  *)
(* of their shape.                                                             *)
ForestJsonText ==
    [wellFormed : BOOLEAN, platform : {"roblox", "uefn", "undefined", "other"},
     root : BOOLEAN, packagesDir : BOOLEAN, author : STRING]

MetadataText == [wellFormed : BOOLEAN, public : {"public", "private", "undefined"}]

(* A part: a file with the sizes of its chunks, or a field. *)
Part ==
    [type : {"file"}, chunks : Seq(Nat)]
        \cup [type : {"field"}, fieldname : {"metadata"}, value : MetadataText]
        \cup [type : {"field"}, fieldname : {"forestJson"}, value : ForestJsonText]
        \cup [type : {"field"}, fieldname : {"other"}, value : [wellFormed : BOOLEAN]]

(* The declared size: no header, one that is no number, or a number within *)
(* or above the limit.                                                     *)
SizeHeaders == {"missing", "garbled", "fits", "exceeds"}

ASSUME BodiesAssumption == Bodies \subseteq [sizeHeader : SizeHeaders, parts : Seq(Part)]

ASSUME LimitAssumption == MaxUploadSize \in Nat

VARIABLES
    body,
    parsing,       \* where the handler is: in the parts, in a file, or done with them
    part,          \* parts begun
    chunk,         \* chunks of the current file delivered
    chunks,        \* the current file's chunks, as read so far
    metadata,      \* each of these three holds at most one value
    forestJson,
    fileBuffer,
    status         \* of the rejection, 0 if there is none

parseVars == <<body, parsing, part, chunk, chunks, metadata, forestJson, fileBuffer, status>>

ParseInit ==
    /\ body \in Bodies
    /\ parsing = "header"
    /\ part = 0
    /\ chunk = 0
    /\ chunks = <<>>
    /\ metadata = {}
    /\ forestJson = {}
    /\ fileBuffer = {}
    /\ status = 0

-----------------------------------------------------------------------------
(* Mutant: the platform's own conditions are left out. *)
ShapeOnly(text) == text.wellFormed /\ text.platform # "other"

(* ForestJsonSchema with its superRefine: root is optional on uefn only, *)
(* packagesDir is refused there.                                         *)
ForestJsonParses(text) ==
    /\ text.wellFormed
    /\ text.platform # "other"
    /\ text.platform # "uefn" => text.root
    /\ text.platform = "uefn" => ~text.packagesDir

FieldParses(p) ==
    IF p.fieldname = "forestJson" THEN ForestJsonParses(p.value) ELSE p.value.wellFormed

Reject(code) == parsing' = "rejected" /\ status' = code

CheckSizeHeader ==
    /\ parsing = "header"
    /\ \/ body.sizeHeader = "missing" /\ Reject(400)
       \/ body.sizeHeader = "exceeds" /\ Reject(413)
       \/ /\ body.sizeHeader \in {"garbled", "fits"}
          /\ parsing' = "parts"
          /\ UNCHANGED status
    /\ UNCHANGED <<body, part, chunk, chunks, metadata, forestJson, fileBuffer>>

(* Mutant: the fields of a repeated part are added to those of the first. *)
Accumulated(value, name, p) == IF p.fieldname = name THEN value \cup {p.value} ELSE value

(* The value of the field after part p: the last one sent. *)
FieldValue(value, name, p) == IF p.fieldname = name THEN {p.value} ELSE value

(* A field, known or not: its value must be JSON, and parse if it is known. *)
ReadField ==
    LET p == body.parts[part + 1]
    IN  /\ parsing = "parts"
        /\ part < Len(body.parts)
        /\ p.type = "field"
        /\ part' = part + 1
        /\ \/ /\ FieldParses(p)
              /\ metadata' = FieldValue(metadata, "metadata", p)
              /\ forestJson' = FieldValue(forestJson, "forestJson", p)
              /\ UNCHANGED <<parsing, status>>
           \/ /\ ~FieldParses(p)
              /\ Reject(400)
              /\ UNCHANGED <<metadata, forestJson>>
        /\ UNCHANGED <<body, chunk, chunks, fileBuffer>>

(* Mutant: a second file is read as the first one was. *)
FileTooEarly == metadata = {} \/ forestJson = {}

(* The two fields must have come, and no file yet. *)
FileRefused == metadata = {} \/ forestJson = {} \/ fileBuffer # {}

BeginFile ==
    /\ parsing = "parts"
    /\ part < Len(body.parts)
    /\ body.parts[part + 1].type = "file"
    /\ part' = part + 1
    /\ chunk' = 0
    /\ chunks' = <<>>
    /\ \/ FileRefused /\ Reject(400)
       \/ ~FileRefused /\ parsing' = "file" /\ UNCHANGED status
    /\ UNCHANGED <<body, metadata, forestJson, fileBuffer>>

(* The parser clips a file at the limit: what would go past it is cut off. *)
ReadChunk ==
    LET size == body.parts[part].chunks[chunk + 1]
        room == MaxUploadSize - Total(chunks)
    IN  /\ parsing = "file"
        /\ chunk < Len(body.parts[part].chunks)
        /\ chunk' = chunk + 1
        /\ chunks' = IF size <= room THEN Append(chunks, size)
                     ELSE IF room > 0 THEN Append(chunks, room) ELSE chunks
        /\ UNCHANGED <<body, parsing, part, metadata, forestJson, fileBuffer, status>>

(* The parser's flag. *)
Truncated == Total(body.parts[part].chunks) > MaxUploadSize

(* Mutant: the flag is not looked at. *)
KeepWhatCame ==
    /\ parsing = "file"
    /\ chunk = Len(body.parts[part].chunks)
    /\ parsing' = "parts"
    /\ fileBuffer' = {chunks}
    /\ UNCHANGED <<body, part, chunk, chunks, metadata, forestJson, status>>

EndFile ==
    /\ parsing = "file"
    /\ chunk = Len(body.parts[part].chunks)
    /\ \/ Truncated /\ Reject(413) /\ UNCHANGED fileBuffer
       \/ /\ ~Truncated
          /\ parsing' = "parts"
          /\ fileBuffer' = {chunks}
          /\ UNCHANGED status
    /\ UNCHANGED <<body, part, chunk, chunks, metadata, forestJson>>

(* No more parts: all three must be there, and the platform named. *)
EndBody ==
    /\ parsing = "parts"
    /\ part = Len(body.parts)
    /\ IF {} \in {fileBuffer, metadata, forestJson} \/ \E f \in forestJson : f.platform = "undefined"
       THEN Reject(400)
       ELSE parsing' = "received" /\ UNCHANGED status
    /\ UNCHANGED <<body, part, chunk, chunks, metadata, forestJson, fileBuffer>>

(* The client goes away, or the body is no multipart: parts() throws, and   *)
(* Fastify answers with a status of its own, of which 500 stands for all.   *)
BodyBreaks ==
    /\ parsing \in {"parts", "file"}
    /\ Reject(500)
    /\ UNCHANGED <<body, part, chunk, chunks, metadata, forestJson, fileBuffer>>

ParseNext ==
    \/ CheckSizeHeader \/ ReadField \/ BeginFile \/ ReadChunk \/ EndFile \/ EndBody \/ BodyBreaks

ParseSpec == ParseInit /\ [][ParseNext]_parseVars

-----------------------------------------------------------------------------
ParseTypeOK ==
    /\ body \in [sizeHeader : SizeHeaders, parts : Seq(Part)]
    /\ parsing \in {"header", "parts", "file", "received", "rejected"}
    /\ part \in 0..Len(body.parts)
    /\ chunk \in Nat
    /\ chunks \in Seq(Nat)
    /\ metadata \subseteq MetadataText /\ Cardinality(metadata) <= 1
    /\ forestJson \subseteq ForestJsonText /\ Cardinality(forestJson) <= 1
    /\ fileBuffer \subseteq Seq(Nat) /\ Cardinality(fileBuffer) <= 1
    /\ status \in {0, 400, 413, 500}

Fields(name) ==
    {i \in DOMAIN body.parts : body.parts[i].type = "field" /\ body.parts[i].fieldname = name}

Files == {i \in DOMAIN body.parts : body.parts[i].type = "file"}

(* What is wrong with the i-th part among its predecessors; 0 for nothing. *)
FaultAt(i) ==
    LET p == body.parts[i]
        before(S) == S \cap 1..i - 1
    IN  IF p.type = "field"
        THEN IF FieldParses(p) THEN 0 ELSE 400
        ELSE IF before(Files) # {} \/ before(Fields("metadata")) = {}
                    \/ before(Fields("forestJson")) = {} THEN 400
        ELSE IF Total(p.chunks) > MaxUploadSize THEN 413
        ELSE 0

Faults == {i \in DOMAIN body.parts : FaultAt(i) # 0}

(* The status a body deserves, said of the body as a whole: of its first    *)
(* fault, or of what it lacks; 0 for none.                                  *)
Deserved ==
    IF body.sizeHeader = "missing" THEN 400
    ELSE IF body.sizeHeader = "exceeds" THEN 413
    ELSE IF Faults # {} THEN FaultAt(Min(Faults))
    ELSE IF {} \in {Files, Fields("metadata"), Fields("forestJson")} THEN 400
    ELSE IF body.parts[Max(Fields("forestJson"))].value.platform = "undefined" THEN 400
    ELSE 0

(* Whatever the order and number of the parts, the reply is the one the body *)
(* deserves, unless the body breaks off before.                              *)
ReplyIsDeserved ==
    /\ parsing = "rejected" => status \in {500, Deserved} \ {0}
    /\ parsing = "received" => Deserved = 0

(* The tarball that goes on to validation and storage is the whole file the  *)
(* client sent, never a prefix of it (publish.ts: "a corrupt-but-plausible   *)
(* prefix of itself"), and there was only one.                               *)
ReceivedIsWhole ==
    parsing = "received" =>
        \E i \in DOMAIN body.parts : Files = {i} /\ fileBuffer = {body.parts[i].chunks}

(* The process never holds more of a body's files than one upload may have *)
(* (server.ts: a client "could exhaust the container's RAM").              *)
HeldIsBounded ==
    LET held == IF fileBuffer = {} THEN 0 ELSE Total(CHOOSE b \in fileBuffer : TRUE)
    IN  held + (IF parsing = "file" THEN Total(chunks) ELSE 0) <= MaxUploadSize

(* The fields that are used are the last ones sent, and the manifest has what *)
(* the record call reads from it without a check of its own: a platform, and  *)
(* a root unless it is a uefn package (publish.ts: `forestJson.root!`,        *)
(* "superRefine guarantees root's presence for other platforms").             *)
ManifestIsUsable ==
    parsing = "received" =>
        /\ metadata = {body.parts[Max(Fields("metadata"))].value}
        /\ forestJson = {body.parts[Max(Fields("forestJson"))].value}
        /\ \A f \in forestJson :
            /\ f.platform \in {"roblox", "uefn"}
            /\ f.platform = "roblox" => f.root
            /\ f.packagesDir => f.platform = "roblox"
=============================================================================
