-------------------------- MODULE UploadParseProofs --------------------------
(***************************************************************************)
(* Machine-checked proofs about the reading of an upload, for bodies of    *)
(* any length, parts in any order and any limit: what is kept is what was  *)
(* sent last, the one file is whole and never larger than the limit, and   *)
(* the reply is the one the body deserves.                                 *)
(*                                                                         *)
(* The inductive invariant follows the parts: what the handler holds is a  *)
(* function of the parts it is done with, and none of them had a fault.    *)
(***************************************************************************)
EXTENDS UploadParse, TotalsProofs, FiniteSetTheorems

(* The parts the handler is done with. *)
Done == IF parsing = "file" THEN part - 1 ELSE part

(* The field's value after the first n parts. *)
FieldUpTo(name, n) ==
    LET sent == Fields(name) \cap 1..n
    IN  IF sent = {} THEN {} ELSE {body.parts[Max(sent)].value}

(* The files among the first n parts. *)
FilesUpTo(n) == Files \cap 1..n

LastFieldsHeld ==
    parsing # "rejected" =>
        /\ metadata = FieldUpTo("metadata", Done)
        /\ forestJson = FieldUpTo("forestJson", Done)

OneFileHeld ==
    parsing # "rejected" =>
        /\ fileBuffer = {body.parts[i].chunks : i \in FilesUpTo(Done)}
        /\ \A i, j \in FilesUpTo(Done) : i = j

(* The field's value passed its schema, whichever part it came with. *)
ManifestParses == \A f \in forestJson : ForestJsonParses(f)

WithinLimit == \A b \in fileBuffer : Total(b) <= MaxUploadSize

(* The file being read: clipped at the limit, and up to there as it was sent. *)
FileRead ==
    parsing = "file" =>
        LET sent == body.parts[part].chunks
        IN  /\ part >= 1 /\ body.parts[part].type = "file"
            /\ metadata # {} /\ forestJson # {} /\ fileBuffer = {}
            /\ chunk <= Len(sent)
            /\ Total(chunks) <= MaxUploadSize
            /\ RunningTotals(sent)[chunk] <= MaxUploadSize => chunks = SubSeq(sent, 1, chunk)

NoFaultYet ==
    parsing \in {"parts", "file", "received"} =>
        /\ body.sizeHeader \notin {"missing", "exceeds"}
        /\ \A i \in 1..Done : FaultAt(i) = 0

AtStart == parsing = "header" => part = 0

AtEnd == parsing = "received" => part = Len(body.parts) /\ Deserved = 0

RejectedForCause ==
    IF parsing = "rejected" THEN status = 500 \/ (status = Deserved /\ Deserved # 0)
    ELSE status = 0

ParseInv ==
    /\ ParseTypeOK
    /\ LastFieldsHeld
    /\ OneFileHeld
    /\ ManifestParses
    /\ WithinLimit
    /\ FileRead
    /\ NoFaultYet
    /\ AtStart
    /\ AtEnd
    /\ RejectedForCause

-----------------------------------------------------------------------------
LEMMA AtMostOne ==
    /\ Cardinality({}) <= 1
    /\ \A v : Cardinality({v}) <= 1
<1>1. Cardinality({}) = 0
  BY FS_EmptySet
<1>2. \A v : Cardinality({v}) = 1
  BY FS_Singleton
<1>3. \A n : n = 0 \/ n = 1 => n <= 1
  OBVIOUS
<1> QED
  BY <1>1, <1>2, <1>3, Zenon

LEMMA PartType ==
    ASSUME NEW p \in Part
    PROVE  /\ p.type \in {"file", "field"}
           /\ p.type = "file" => p.chunks \in Seq(Nat)
           /\ p.type = "field" /\ p.fieldname = "metadata" => p.value \in MetadataText
           /\ p.type = "field" /\ p.fieldname = "forestJson" => p.value \in ForestJsonText
BY DEF Part

LEMMA BodyType ==
    ASSUME ParseTypeOK
    PROVE  /\ Len(body.parts) \in Nat /\ DOMAIN body.parts = 1..Len(body.parts)
           /\ \A i \in 1..Len(body.parts) : body.parts[i] \in Part
           /\ part \in Nat /\ part <= Len(body.parts)
<1>1. body.parts \in Seq(Part)
  BY DEF ParseTypeOK
<1>2. Len(body.parts) \in Nat
  BY <1>1
<1> QED
  BY <1>1, <1>2 DEF ParseTypeOK

(* The body does not change while it is read. *)
LEMMA SameBody ==
    ASSUME body' = body
    PROVE  /\ \A i : FaultAt(i)' = FaultAt(i)
           /\ Deserved' = Deserved
           /\ \A name, n : FieldUpTo(name, n)' = FieldUpTo(name, n)
           /\ \A n : FilesUpTo(n)' = FilesUpTo(n)
<1>1. Files' = Files /\ \A name : Fields(name)' = Fields(name)
  BY DEF Files, Fields
<1>2. \A i : FaultAt(i)' = FaultAt(i)
  BY <1>1 DEF FaultAt, FieldParses, ForestJsonParses
<1>3. Faults' = Faults
  BY <1>2 DEF Faults
<1> QED
  BY <1>1, <1>2, <1>3 DEF Deserved, FieldUpTo, FilesUpTo

LEMMA NothingSent ==
    /\ \A name : FieldUpTo(name, 0) = {}
    /\ FilesUpTo(0) = {}
BY DEF FieldUpTo, FilesUpTo

LEMMA FieldUpToNext ==
    ASSUME ParseTypeOK, NEW n \in Nat, n < Len(body.parts), NEW name
    PROVE  FieldUpTo(name, n + 1) =
             IF body.parts[n + 1].type = "field" /\ body.parts[n + 1].fieldname = name
             THEN {body.parts[n + 1].value} ELSE FieldUpTo(name, n)
<1> DEFINE sent(k) == Fields(name) \cap 1..k
<1>1. n + 1 \in DOMAIN body.parts /\ 1..n + 1 = (1..n) \cup {n + 1}
  BY BodyType
<1>2. CASE body.parts[n + 1].type = "field" /\ body.parts[n + 1].fieldname = name
  <2>1. sent(n + 1) = sent(n) \cup {n + 1}
    BY <1>1, <1>2 DEF Fields
  <2>2. \A i \in sent(n) : i \in Nat /\ i <= n
    OBVIOUS
  <2> HIDE DEF sent
  <2>3. Max(sent(n + 1)) = n + 1
    BY <2>1, <2>2 DEF Max
  <2> QED
    BY <1>2, <2>1, <2>3 DEF FieldUpTo, sent
<1>3. CASE ~(body.parts[n + 1].type = "field" /\ body.parts[n + 1].fieldname = name)
  <2>1. sent(n + 1) = sent(n)
    BY <1>1, <1>3 DEF Fields
  <2> QED
    BY <1>3, <2>1 DEF FieldUpTo
<1> QED
  BY <1>2, <1>3

LEMMA FilesUpToNext ==
    ASSUME ParseTypeOK, NEW n \in Nat, n < Len(body.parts)
    PROVE  FilesUpTo(n + 1) = IF body.parts[n + 1].type = "file" THEN FilesUpTo(n) \cup {n + 1}
                              ELSE FilesUpTo(n)
<1>1. n + 1 \in DOMAIN body.parts /\ 1..n + 1 = (1..n) \cup {n + 1}
  BY BodyType
<1> QED
  BY <1>1 DEF FilesUpTo, Files

(* The handler's checks of a part find its fault among its predecessors. *)
LEMMA FaultFound ==
    ASSUME ParseInv, parsing = "parts", part < Len(body.parts)
    PROVE  LET p == body.parts[part + 1]
           IN  FaultAt(part + 1) =
                 IF p.type = "field" THEN IF FieldParses(p) THEN 0 ELSE 400
                 ELSE IF FileRefused THEN 400
                 ELSE IF Total(p.chunks) > MaxUploadSize THEN 413 ELSE 0
<1>1. part \in Nat /\ (part + 1) - 1 = part
  BY BodyType DEF ParseInv
<1>2. /\ metadata = {} <=> Fields("metadata") \cap 1..part = {}
      /\ forestJson = {} <=> Fields("forestJson") \cap 1..part = {}
  BY DEF ParseInv, LastFieldsHeld, FieldUpTo, Done
<1>3. fileBuffer = {} <=> Files \cap 1..part = {}
  BY DEF ParseInv, OneFileHeld, FilesUpTo, Done
<1> QED
  BY <1>1, <1>2, <1>3 DEF FaultAt, FileRefused

(* The first fault decides, whatever comes after it. *)
LEMMA FirstFault ==
    ASSUME ParseTypeOK, body.sizeHeader \notin {"missing", "exceeds"},
           NEW n \in 1..Len(body.parts), FaultAt(n) # 0, \A i \in 1..n - 1 : FaultAt(i) = 0
    PROVE  Deserved = FaultAt(n)
<1>1. n \in Faults /\ \A i \in Faults : i \in Nat /\ n <= i
  <2>1. \A i \in 1..Len(body.parts) : i < n => i \in 1..n - 1
    BY BodyType
  <2> QED
    BY <2>1, BodyType DEF Faults
<1>2. Min(Faults) = n
  <2>1. n \in Nat
    BY <1>1
  <2>2. \A i \in Faults : (\A j \in Faults : i <= j) => i = n
    BY <1>1, <2>1
  <2> QED
    BY <1>1, <2>2 DEF Min
<1> QED
  BY <1>1, <1>2 DEF Deserved

(* After the last part, what the body lacks decides. *)
LEMMA NoFaultLeft ==
    ASSUME ParseInv, parsing = "parts", part = Len(body.parts)
    PROVE  Deserved = IF {} \in {fileBuffer, metadata, forestJson}
                            \/ \E f \in forestJson : f.platform = "undefined"
                      THEN 400 ELSE 0
<1>1. body.sizeHeader \notin {"missing", "exceeds"} /\ Faults = {}
  BY BodyType DEF ParseInv, NoFaultYet, Faults, Done
<1>2. /\ Fields("metadata") \cap 1..part = Fields("metadata")
      /\ Fields("forestJson") \cap 1..part = Fields("forestJson")
      /\ Files \cap 1..part = Files
  BY BodyType DEF ParseInv, Fields, Files
<1>3. Done = part
  BY DEF Done
<1>4. fileBuffer = {} <=> Files = {}
  <2>1. fileBuffer = {body.parts[i].chunks : i \in Files}
    BY <1>2, <1>3 DEF ParseInv, OneFileHeld, FilesUpTo
  <2> QED
    BY <2>1
<1>5. metadata = {} <=> Fields("metadata") = {}
  BY <1>2, <1>3 DEF ParseInv, LastFieldsHeld, FieldUpTo
<1>6. forestJson = IF Fields("forestJson") = {} THEN {}
                   ELSE {body.parts[Max(Fields("forestJson"))].value}
  BY <1>2, <1>3 DEF ParseInv, LastFieldsHeld, FieldUpTo
<1> QED
  BY <1>1, <1>4, <1>5, <1>6 DEF Deserved

-----------------------------------------------------------------------------
LEMMA InitParse == ParseInit => ParseInv
<1> SUFFICES ASSUME ParseInit PROVE ParseInv
  OBVIOUS
<1>1. ParseTypeOK
  <2>1. body \in [sizeHeader : SizeHeaders, parts : Seq(Part)]
    BY BodiesAssumption DEF ParseInit
  <2>2. Len(body.parts) \in Nat
    BY <2>1
  <2> QED
    BY <2>1, <2>2, AtMostOne DEF ParseInit, ParseTypeOK
<1> QED
  BY <1>1, NothingSent DEF ParseInit, ParseInv, LastFieldsHeld, OneFileHeld, ManifestParses,
     WithinLimit, FileRead, NoFaultYet, AtStart, AtEnd, RejectedForCause, Done

(* A rejection leaves what is held as it was; it must have its reason. *)
LEMMA RejectStep ==
    ASSUME ParseInv, parsing' = "rejected", UNCHANGED <<body, metadata, forestJson, fileBuffer>>,
           part' \in 0..Len(body.parts), chunk' \in Nat, chunks' \in Seq(Nat),
           status' \in {400, 413, 500}, status' # 500 => status' = Deserved
    PROVE  ParseInv'
<1>1. Deserved' = Deserved
  BY SameBody
<1>2. ParseTypeOK'
  BY DEF ParseInv, ParseTypeOK
<1> QED
  BY <1>1, <1>2 DEF ParseInv, LastFieldsHeld, OneFileHeld, ManifestParses, WithinLimit, FileRead,
     NoFaultYet, AtStart, AtEnd, RejectedForCause

LEMMA CheckSizeHeaderStep == ASSUME ParseInv, CheckSizeHeader PROVE ParseInv'
<1>1. /\ parsing = "header" /\ part = 0 /\ status = 0
      /\ UNCHANGED <<body, part, chunk, chunks, metadata, forestJson, fileBuffer>>
  BY DEF CheckSizeHeader, ParseInv, AtStart, RejectedForCause
<1>2. CASE body.sizeHeader \in {"missing", "exceeds"}
  <2>1. parsing' = "rejected" /\ status' \in {400, 413} /\ status' = Deserved
    BY <1>2 DEF CheckSizeHeader, Reject, Deserved
  <2>2. part' \in 0..Len(body.parts) /\ chunk' \in Nat /\ chunks' \in Seq(Nat)
    BY <1>1 DEF ParseInv, ParseTypeOK
  <2> QED
    BY <1>1, <2>1, <2>2, RejectStep
<1>3. CASE body.sizeHeader \notin {"missing", "exceeds"}
  <2>1. parsing' = "parts" /\ status' = status
    BY <1>3 DEF CheckSizeHeader
  <2>2. ParseTypeOK'
    BY <1>1, <2>1 DEF ParseInv, ParseTypeOK
  <2>3. Done = 0 /\ Done' = 0
    BY <1>1, <2>1 DEF Done
  <2>4. LastFieldsHeld' /\ OneFileHeld'
    BY <1>1, <2>1, <2>3, SameBody DEF ParseInv, LastFieldsHeld, OneFileHeld
  <2>5. NoFaultYet'
    BY <1>1, <1>3, <2>3 DEF NoFaultYet
  <2> QED
    BY <1>1, <2>1, <2>2, <2>4, <2>5 DEF ParseInv, ManifestParses, WithinLimit, FileRead, AtStart,
       AtEnd, RejectedForCause
<1> QED
  BY <1>2, <1>3

(* The next part of the body, whatever it is. *)
LEMMA NextPart ==
    ASSUME ParseInv, parsing = "parts", part < Len(body.parts)
    PROVE  /\ part \in Nat /\ part + 1 \in 1..Len(body.parts) /\ (part + 1) - 1 = part
           /\ body.parts[part + 1] \in Part /\ Done = part
           /\ body.sizeHeader \notin {"missing", "exceeds"}
           /\ \A i \in 1..part : FaultAt(i) = 0
           /\ FaultAt(part + 1) # 0 => Deserved = FaultAt(part + 1)
<1>1. /\ part \in Nat /\ part + 1 \in 1..Len(body.parts) /\ (part + 1) - 1 = part
      /\ body.parts[part + 1] \in Part /\ Done = part
  BY BodyType DEF ParseInv, Done
<1>2. body.sizeHeader \notin {"missing", "exceeds"} /\ \A i \in 1..part : FaultAt(i) = 0
  BY <1>1 DEF ParseInv, NoFaultYet
<1>3. FaultAt(part + 1) # 0 => Deserved = FaultAt(part + 1)
  BY <1>1, <1>2, FirstFault DEF ParseInv
<1> QED
  BY <1>1, <1>2, <1>3

LEMMA ReadFieldStep == ASSUME ParseInv, ReadField PROVE ParseInv'
<1> DEFINE p == body.parts[part + 1]
<1>1. /\ parsing = "parts" /\ part < Len(body.parts) /\ p.type = "field"
      /\ part' = part + 1 /\ UNCHANGED <<body, chunk, chunks, fileBuffer>>
  BY DEF ReadField
<1>2. part + 1 \in 1..Len(body.parts) /\ part \in Nat /\ p \in Part /\ Done = part
  BY <1>1, NextPart
<1>3. CASE ~FieldParses(p)
  <2>1. FaultAt(part + 1) = 400
    BY <1>1, <1>3, FaultFound
  <2>2. parsing' = "rejected" /\ status' = 400 /\ UNCHANGED <<metadata, forestJson>>
    BY <1>3 DEF ReadField, Reject
  <2>3. Deserved = 400
    BY <1>1, <2>1, NextPart
  <2>4. part' \in 0..Len(body.parts) /\ chunk' \in Nat /\ chunks' \in Seq(Nat)
    BY <1>1, <1>2 DEF ParseInv, ParseTypeOK
  <2> QED
    BY <1>1, <2>2, <2>3, <2>4, RejectStep
<1>4. CASE FieldParses(p)
  <2>1. /\ metadata' = FieldValue(metadata, "metadata", p)
        /\ forestJson' = FieldValue(forestJson, "forestJson", p)
        /\ parsing' = "parts" /\ status' = status
    BY <1>1, <1>4 DEF ReadField
  <2>2. Done' = part + 1
    BY <1>1, <2>1 DEF Done
  <2>3. ParseTypeOK'
    <3>1. metadata' \subseteq MetadataText /\ Cardinality(metadata') <= 1
      <4>1. CASE p.fieldname = "metadata"
        <5>1. metadata' = {p.value} /\ p.value \in MetadataText
          BY <1>1, <1>2, <2>1, <4>1, PartType DEF FieldValue
        <5> QED
          BY <5>1, AtMostOne
      <4>2. CASE p.fieldname # "metadata"
        BY <2>1, <4>2 DEF FieldValue, ParseInv, ParseTypeOK
      <4> QED
        BY <4>1, <4>2
    <3>2. forestJson' \subseteq ForestJsonText /\ Cardinality(forestJson') <= 1
      <4>1. CASE p.fieldname = "forestJson"
        <5>1. forestJson' = {p.value} /\ p.value \in ForestJsonText
          BY <1>1, <1>2, <2>1, <4>1, PartType DEF FieldValue
        <5> QED
          BY <5>1, AtMostOne
      <4>2. CASE p.fieldname # "forestJson"
        BY <2>1, <4>2 DEF FieldValue, ParseInv, ParseTypeOK
      <4> QED
        BY <4>1, <4>2
    <3> QED
      BY <1>1, <1>2, <2>1, <3>1, <3>2 DEF ParseInv, ParseTypeOK
  <2>4. LastFieldsHeld'
    <3>1. \A name : FieldUpTo(name, part + 1) =
                      FieldValue(FieldUpTo(name, part), name, p)
      BY <1>1, <1>2, FieldUpToNext DEF ParseInv, FieldValue
    <3>2. metadata = FieldUpTo("metadata", part) /\ forestJson = FieldUpTo("forestJson", part)
      BY <1>1, <1>2 DEF ParseInv, LastFieldsHeld
    <3>3. metadata' = FieldUpTo("metadata", part + 1)
            /\ forestJson' = FieldUpTo("forestJson", part + 1)
      BY <2>1, <3>1, <3>2
    <3> QED
      BY <1>1, <2>2, <3>3, SameBody DEF LastFieldsHeld
  <2>5. OneFileHeld'
    <3>1. FilesUpTo(part + 1) = FilesUpTo(part)
      BY <1>1, <1>2, FilesUpToNext DEF ParseInv
    <3> QED
      BY <1>1, <1>2, <2>2, <3>1, SameBody DEF ParseInv, OneFileHeld
  <2>6. ManifestParses'
    BY <1>4, <2>1 DEF ParseInv, ManifestParses, FieldValue, FieldParses, ForestJsonParses
  <2>7. NoFaultYet'
    <3>1. FaultAt(part + 1) = 0
      BY <1>1, <1>4, FaultFound
    <3>2. \A i \in 1..part + 1 : i \in 1..part \/ i = part + 1
      BY <1>2
    <3> QED
      BY <1>1, <2>2, <3>1, <3>2, NextPart, SameBody DEF NoFaultYet
  <2> QED
    BY <1>1, <2>1, <2>3, <2>4, <2>5, <2>6, <2>7 DEF ParseInv, WithinLimit, FileRead, AtStart,
       AtEnd, RejectedForCause
<1> QED
  BY <1>3, <1>4

LEMMA BeginFileStep == ASSUME ParseInv, BeginFile PROVE ParseInv'
<1> DEFINE p == body.parts[part + 1]
<1>1. /\ parsing = "parts" /\ part < Len(body.parts) /\ p.type = "file"
      /\ part' = part + 1 /\ chunk' = 0 /\ chunks' = <<>>
      /\ UNCHANGED <<body, metadata, forestJson, fileBuffer>>
  BY DEF BeginFile
<1>2. /\ part + 1 \in 1..Len(body.parts) /\ part \in Nat /\ p \in Part /\ Done = part
      /\ <<>> \in Seq(Nat)
  BY <1>1, NextPart
<1>3. CASE FileRefused
  <2>1. FaultAt(part + 1) = 400
    BY <1>1, <1>3, FaultFound
  <2>2. parsing' = "rejected" /\ status' = 400
    BY <1>3 DEF BeginFile, Reject
  <2>3. Deserved = 400
    BY <1>1, <2>1, NextPart
  <2>4. part' \in 0..Len(body.parts)
    BY <1>1, <1>2
  <2> QED
    BY <1>1, <1>2, <2>2, <2>3, <2>4, RejectStep
<1>4. CASE ~FileRefused
  <2>1. parsing' = "file" /\ status' = status
    BY <1>4 DEF BeginFile
  <2>2. Done' = part
    BY <1>1, <1>2, <2>1 DEF Done
  <2>3. ParseTypeOK'
    BY <1>1, <1>2, <2>1 DEF ParseInv, ParseTypeOK
  <2>4. LastFieldsHeld' /\ OneFileHeld'
    BY <1>1, <1>2, <2>2, SameBody DEF ParseInv, LastFieldsHeld, OneFileHeld
  <2>5. FileRead'
    <3>1. p.chunks \in Seq(Nat) /\ SubSeq(p.chunks, 1, 0) = <<>> /\ 0 <= Len(p.chunks)
      BY <1>1, <1>2, PartType
    <3>2. Total(<<>>) <= MaxUploadSize
      BY TotalOfNone, LimitAssumption
    <3> QED
      BY <1>1, <1>2, <1>4, <2>1, <3>1, <3>2 DEF FileRead, FileRefused
  <2>6. NoFaultYet'
    BY <1>1, <2>2, NextPart, SameBody DEF NoFaultYet
  <2> QED
    BY <1>1, <2>1, <2>3, <2>4, <2>5, <2>6 DEF ParseInv, ManifestParses, WithinLimit, AtStart,
       AtEnd, RejectedForCause
<1> QED
  BY <1>3, <1>4

(* The file being read. *)
LEMMA CurrentFile ==
    ASSUME ParseInv, parsing = "file"
    PROVE  /\ part \in 1..Len(body.parts) /\ Done = part - 1
           /\ body.parts[part].chunks \in Seq(Nat)
           /\ Len(body.parts[part].chunks) \in Nat /\ chunk \in Nat
           /\ chunks \in Seq(Nat) /\ Total(chunks) \in Nat
<1>1. part \in 1..Len(body.parts) /\ body.parts[part].type = "file"
  BY BodyType DEF ParseInv, FileRead
<1>2. body.parts[part].chunks \in Seq(Nat)
  BY <1>1, BodyType, PartType DEF ParseInv
<1>3. chunk \in Nat /\ chunks \in Seq(Nat)
  BY DEF ParseInv, ParseTypeOK
<1> QED
  BY <1>1, <1>2, <1>3, TotalType DEF Done

LEMMA ReadChunkStep == ASSUME ParseInv, ReadChunk PROVE ParseInv'
<1> DEFINE sent == body.parts[part].chunks
           size == sent[chunk + 1]
           room == MaxUploadSize - Total(chunks)
<1>1. /\ parsing = "file" /\ chunk < Len(sent) /\ chunk' = chunk + 1
      /\ chunks' = IF size <= room THEN Append(chunks, size)
                   ELSE IF room > 0 THEN Append(chunks, room) ELSE chunks
      /\ UNCHANGED <<body, parsing, part, metadata, forestJson, fileBuffer, status>>
  BY DEF ReadChunk
<1>2. /\ sent \in Seq(Nat) /\ Len(sent) \in Nat /\ chunk \in Nat
      /\ chunks \in Seq(Nat) /\ Total(chunks) \in Nat
  BY <1>1, CurrentFile
<1>3. Total(chunks) <= MaxUploadSize /\ MaxUploadSize \in Nat
  BY <1>1, LimitAssumption DEF ParseInv, FileRead
<1>4. room \in Nat /\ Total(chunks) + room = MaxUploadSize
  BY <1>2, <1>3
<1>5. size \in Nat
  BY <1>1, <1>2
<1> HIDE DEF sent, size, room
<1>6. chunks' \in Seq(Nat) /\ Total(chunks') <= MaxUploadSize
  <2>1. CASE size <= room
    <3>1. chunks' = Append(chunks, size) /\ Append(chunks, size) \in Seq(Nat)
      BY <1>1, <1>2, <1>5, <2>1
    <3>2. Total(Append(chunks, size)) = Total(chunks) + size
      BY <1>2, <1>5, TotalOfAppend
    <3> QED
      BY <1>2, <1>3, <1>4, <1>5, <2>1, <3>1, <3>2
  <2>2. CASE ~(size <= room) /\ room > 0
    <3>1. chunks' = Append(chunks, room) /\ Append(chunks, room) \in Seq(Nat)
      BY <1>1, <1>2, <1>4, <2>2
    <3>2. Total(Append(chunks, room)) = Total(chunks) + room
      BY <1>2, <1>4, TotalOfAppend
    <3> QED
      BY <1>3, <1>4, <3>1, <3>2
  <2>3. CASE ~(size <= room) /\ ~(room > 0)
    BY <1>1, <1>2, <1>3, <2>3
  <2> QED
    BY <2>1, <2>2, <2>3
<1>7. ASSUME RunningTotals(sent)[chunk + 1] <= MaxUploadSize
      PROVE  chunks' = SubSeq(sent, 1, chunk + 1)
  <2>1. /\ chunk \in 0..Len(sent) /\ chunk + 1 \in 0..Len(sent) /\ chunk <= chunk + 1
    BY <1>1, <1>2
  <2>2. /\ RunningTotals(sent)[chunk] \in Nat /\ RunningTotals(sent)[chunk + 1] \in Nat
        /\ RunningTotals(sent)[chunk + 1] = RunningTotals(sent)[chunk] + size
    BY <1>1, <1>2, <2>1, RunningTotalsType, RunningTotalsEquations DEF size
  <2>3. RunningTotals(sent)[chunk] <= MaxUploadSize
    BY <1>3, <1>5, <1>7, <2>2
  <2>4. chunks = SubSeq(sent, 1, chunk)
    BY <1>1, <2>3 DEF ParseInv, FileRead, sent
  <2>5. Total(chunks) = RunningTotals(sent)[chunk]
    BY <1>2, <2>1, <2>4, TotalOfPart
  <2>6. size <= room
    BY <1>3, <1>4, <1>5, <1>7, <2>2, <2>5
  <2>7. Append(SubSeq(sent, 1, chunk), sent[chunk + 1]) = SubSeq(sent, 1, chunk + 1)
    BY <1>1, <1>2
  <2> QED
    BY <1>1, <2>4, <2>6, <2>7 DEF size
<1>8. ParseTypeOK'
  BY <1>1, <1>2, <1>6 DEF ParseInv, ParseTypeOK
<1>9. FileRead'
  BY <1>1, <1>2, <1>6, <1>7 DEF ParseInv, FileRead, sent
<1>10. Done' = Done
  BY <1>1 DEF Done
<1>11. LastFieldsHeld' /\ OneFileHeld' /\ NoFaultYet'
  BY <1>1, <1>10, SameBody DEF ParseInv, LastFieldsHeld, OneFileHeld, NoFaultYet
<1> QED
  BY <1>1, <1>8, <1>9, <1>11 DEF ParseInv, ManifestParses, WithinLimit, AtStart, AtEnd,
     RejectedForCause

LEMMA EndFileStep == ASSUME ParseInv, EndFile PROVE ParseInv'
<1> DEFINE sent == body.parts[part].chunks
<1>1. /\ parsing = "file" /\ chunk = Len(sent)
      /\ UNCHANGED <<body, part, chunk, chunks, metadata, forestJson>>
  BY DEF EndFile
<1>2. /\ part \in 1..Len(body.parts) /\ part \in Nat /\ part - 1 \in Nat /\ (part - 1) + 1 = part
      /\ part - 1 < Len(body.parts)
      /\ Done = part - 1 /\ sent \in Seq(Nat) /\ chunks \in Seq(Nat) /\ Total(sent) \in Nat
  BY <1>1, CurrentFile, BodyType, TotalType DEF ParseInv
<1>3. /\ body.parts[part].type = "file" /\ metadata # {} /\ forestJson # {} /\ fileBuffer = {}
      /\ Total(chunks) <= MaxUploadSize
      /\ Total(sent) <= MaxUploadSize => chunks = SubSeq(sent, 1, Len(sent))
  BY <1>1 DEF ParseInv, FileRead, Total
<1>4. FilesUpTo(part - 1) = {}
  BY <1>1, <1>2, <1>3 DEF ParseInv, OneFileHeld
<1>5. FaultAt(part) = IF Total(sent) > MaxUploadSize THEN 413 ELSE 0
  <2>1. Fields("metadata") \cap 1..part - 1 # {} /\ Fields("forestJson") \cap 1..part - 1 # {}
    BY <1>1, <1>2, <1>3 DEF ParseInv, LastFieldsHeld, FieldUpTo
  <2> QED
    BY <1>3, <1>4, <2>1 DEF FaultAt, FilesUpTo
<1>6. body.sizeHeader \notin {"missing", "exceeds"} /\ \A i \in 1..part - 1 : FaultAt(i) = 0
  BY <1>1, <1>2 DEF ParseInv, NoFaultYet
<1>7. CASE Truncated
  <2>1. parsing' = "rejected" /\ status' = 413 /\ fileBuffer' = fileBuffer
    BY <1>7 DEF EndFile, Reject
  <2>2. FaultAt(part) = 413
    BY <1>5, <1>7 DEF Truncated
  <2>3. Deserved = 413
    BY <1>2, <1>6, <2>2, FirstFault DEF ParseInv
  <2>4. part' \in 0..Len(body.parts) /\ chunk' \in Nat /\ chunks' \in Seq(Nat)
    BY <1>1, <1>2 DEF ParseInv, ParseTypeOK
  <2> QED
    BY <1>1, <2>1, <2>3, <2>4, RejectStep
<1>8. CASE ~Truncated
  <2>1. parsing' = "parts" /\ fileBuffer' = {chunks} /\ status' = status
    BY <1>8 DEF EndFile
  <2>2. Total(sent) <= MaxUploadSize
    BY <1>2, <1>8, LimitAssumption DEF Truncated
  <2>3. chunks = sent
    <3>1. SubSeq(sent, 1, Len(sent)) = sent
      <4> HIDE DEF sent
      <4> QED
        BY <1>2
    <3> QED
      BY <1>3, <2>2, <3>1
  <2>4. Done' = part
    BY <1>1, <2>1 DEF Done
  <2>5. ParseTypeOK'
    <3>1. fileBuffer' \subseteq Seq(Nat) /\ Cardinality(fileBuffer') <= 1
      BY <1>2, <2>1, AtMostOne
    <3> QED
      BY <1>1, <2>1, <3>1 DEF ParseInv, ParseTypeOK
  <2>6. OneFileHeld'
    <3>1. FilesUpTo(part) = {part}
      <4>1. \A n \in Nat : n < Len(body.parts) /\ body.parts[n + 1].type = "file" =>
                FilesUpTo(n + 1) = FilesUpTo(n) \cup {n + 1}
        BY FilesUpToNext DEF ParseInv
      <4> QED
        BY <1>2, <1>3, <1>4, <4>1
    <3>2. fileBuffer' = {body.parts[i].chunks : i \in FilesUpTo(part)}
      BY <2>1, <2>3, <3>1
    <3> QED
      BY <1>1, <2>4, <3>1, <3>2, SameBody DEF OneFileHeld
  <2>7. LastFieldsHeld'
    <3>1. \A name : FieldUpTo(name, part) = FieldUpTo(name, part - 1)
      <4>1. \A n \in Nat : n < Len(body.parts) /\ body.parts[n + 1].type = "file" =>
                \A name : FieldUpTo(name, n + 1) = FieldUpTo(name, n)
        BY FieldUpToNext DEF ParseInv
      <4> QED
        BY <1>2, <1>3, <4>1
    <3> QED
      BY <1>1, <1>2, <2>4, <3>1, SameBody DEF ParseInv, LastFieldsHeld
  <2>8. NoFaultYet'
    <3>1. FaultAt(part) = 0
      BY <1>2, <1>5, <2>2, LimitAssumption
    <3>2. \A i \in 1..part : i \in 1..part - 1 \/ i = part
      BY <1>2
    <3> QED
      BY <1>1, <1>6, <2>4, <3>1, <3>2, SameBody DEF NoFaultYet
  <2>9. WithinLimit'
    BY <1>3, <2>1 DEF WithinLimit
  <2> QED
    BY <1>1, <2>1, <2>5, <2>6, <2>7, <2>8, <2>9 DEF ParseInv, ManifestParses, FileRead, AtStart,
       AtEnd, RejectedForCause
<1> QED
  BY <1>7, <1>8

LEMMA EndBodyStep == ASSUME ParseInv, EndBody PROVE ParseInv'
<1> DEFINE lacking == \/ {} \in {fileBuffer, metadata, forestJson}
                      \/ \E f \in forestJson : f.platform = "undefined"
<1>1. /\ parsing = "parts" /\ part = Len(body.parts)
      /\ UNCHANGED <<body, part, chunk, chunks, metadata, forestJson, fileBuffer>>
  BY DEF EndBody
<1>2. Deserved = IF lacking THEN 400 ELSE 0
  BY <1>1, NoFaultLeft
<1>3. CASE lacking
  <2>1. parsing' = "rejected" /\ status' = 400
    BY <1>3 DEF EndBody, Reject
  <2>2. part' \in 0..Len(body.parts) /\ chunk' \in Nat /\ chunks' \in Seq(Nat)
    BY <1>1 DEF ParseInv, ParseTypeOK
  <2> QED
    BY <1>1, <1>2, <1>3, <2>1, <2>2, RejectStep
<1>4. CASE ~lacking
  <2>1. parsing' = "received" /\ status' = status
    BY <1>4 DEF EndBody
  <2>2. Done' = Done
    BY <1>1, <2>1 DEF Done
  <2>3. LastFieldsHeld' /\ OneFileHeld' /\ NoFaultYet'
    BY <1>1, <2>1, <2>2, SameBody DEF ParseInv, LastFieldsHeld, OneFileHeld, NoFaultYet
  <2>4. AtEnd'
    BY <1>1, <1>2, <1>4, SameBody DEF AtEnd
  <2>5. ParseTypeOK'
    BY <1>1, <2>1 DEF ParseInv, ParseTypeOK
  <2> QED
    BY <1>1, <2>1, <2>3, <2>4, <2>5 DEF ParseInv, ManifestParses, WithinLimit, FileRead, AtStart,
       RejectedForCause
<1> QED
  BY <1>3, <1>4

LEMMA BodyBreaksStep == ASSUME ParseInv, BodyBreaks PROVE ParseInv'
<1>1. /\ parsing' = "rejected" /\ status' = 500
      /\ UNCHANGED <<body, part, chunk, chunks, metadata, forestJson, fileBuffer>>
  BY DEF BodyBreaks, Reject
<1>2. part' \in 0..Len(body.parts) /\ chunk' \in Nat /\ chunks' \in Seq(Nat)
  BY <1>1 DEF ParseInv, ParseTypeOK
<1> QED
  BY <1>1, <1>2, RejectStep

LEMMA SameParse == ASSUME ParseInv, UNCHANGED parseVars PROVE ParseInv'
<1>1. Done' = Done
  BY DEF Done, parseVars
<1>2. LastFieldsHeld' /\ OneFileHeld' /\ NoFaultYet' /\ AtEnd' /\ RejectedForCause'
  BY <1>1, SameBody DEF ParseInv, LastFieldsHeld, OneFileHeld, NoFaultYet, AtEnd, RejectedForCause,
     parseVars
<1> QED
  BY <1>2 DEF ParseInv, ParseTypeOK, ManifestParses, WithinLimit, FileRead, AtStart, parseVars

-----------------------------------------------------------------------------
(* The inductive invariant of the parsing. *)
THEOREM ParseInvariance == ParseSpec => []ParseInv
<1>1. ParseInv /\ [ParseNext]_parseVars => ParseInv'
  BY CheckSizeHeaderStep, ReadFieldStep, BeginFileStep, ReadChunkStep, EndFileStep, EndBodyStep,
     BodyBreaksStep, SameParse DEF ParseNext
<1> QED
  BY InitParse, <1>1, PTL DEF ParseSpec

(* Every variable of the parsing keeps its type, for any bodies and limit. *)
THEOREM ParseTypeCorrect == ParseSpec => []ParseTypeOK
BY ParseInvariance, PTL DEF ParseInv

(* Whatever the number and the order of the parts, the reply is that of the   *)
(* body's first fault, or of what it lacks.                                   *)
THEOREM DeservedReply == ParseSpec => []ReplyIsDeserved
<1>1. ParseInv => ReplyIsDeserved
  BY DEF ParseInv, AtEnd, RejectedForCause, ReplyIsDeserved
<1> QED
  BY <1>1, ParseInvariance, PTL

(* A body that was received had no fault and lacks nothing. *)
LEMMA ReceivedLacksNothing ==
    ASSUME ParseInv, parsing = "received"
    PROVE  /\ Files # {} /\ Fields("metadata") # {} /\ Fields("forestJson") # {}
           /\ body.parts[Max(Fields("forestJson"))].value.platform # "undefined"
           /\ Done = Len(body.parts)
<1>1. Deserved = 0 /\ Done = Len(body.parts)
  BY DEF ParseInv, AtEnd, Done
<1>2. Faults = {} /\ body.sizeHeader \notin {"missing", "exceeds"}
  BY <1>1, BodyType DEF ParseInv, NoFaultYet, Faults
<1> QED
  BY <1>1, <1>2 DEF Deserved

(* The tarball that goes on is the one file of the body, to the last byte. *)
THEOREM WholeFile == ParseSpec => []ReceivedIsWhole
<1>1. ParseInv => ReceivedIsWhole
  <2> SUFFICES ASSUME ParseInv, parsing = "received"
               PROVE  \E i \in DOMAIN body.parts : Files = {i} /\ fileBuffer = {body.parts[i].chunks}
    BY DEF ReceivedIsWhole
  <2>1. FilesUpTo(Done) = Files
    BY BodyType DEF ParseInv, AtEnd, Done, FilesUpTo, Files
  <2>2. Files # {}
    BY ReceivedLacksNothing
  <2>3. PICK i \in Files : TRUE
    BY <2>2
  <2>4. Files = {i}
    BY <2>1, <2>3 DEF ParseInv, OneFileHeld
  <2>5. fileBuffer = {body.parts[j].chunks : j \in {i}}
    BY <2>1, <2>4 DEF ParseInv, OneFileHeld
  <2> QED
    BY <2>3, <2>4, <2>5 DEF Files
<1> QED
  BY <1>1, ParseInvariance, PTL

(* No client makes the process hold more than one upload's worth. *)
THEOREM BoundedHold == ParseSpec => []HeldIsBounded
<1>1. ParseInv => HeldIsBounded
  <2> SUFFICES ASSUME ParseInv PROVE HeldIsBounded
    OBVIOUS
  <2>1. MaxUploadSize \in Nat /\ Total(chunks) \in Nat
    BY LimitAssumption, TotalType DEF ParseInv, ParseTypeOK
  <2>2. CASE fileBuffer = {}
    BY <2>1, <2>2 DEF HeldIsBounded, ParseInv, FileRead
  <2>3. CASE fileBuffer # {}
    <3>1. parsing # "file"
      BY <2>3 DEF ParseInv, FileRead
    <3>2. PICK b \in fileBuffer : b = CHOOSE c \in fileBuffer : TRUE
      BY <2>3
    <3>3. Total(b) \in Nat /\ Total(b) <= MaxUploadSize
      BY TotalType DEF ParseInv, ParseTypeOK, WithinLimit
    <3> QED
      BY <2>1, <2>3, <3>1, <3>2, <3>3 DEF HeldIsBounded
  <2> QED
    BY <2>2, <2>3
<1> QED
  BY <1>1, ParseInvariance, PTL

(* The manifest in use is the last one sent, and what the record call reads   *)
(* from it without a check of its own is there.                               *)
THEOREM UsableManifest == ParseSpec => []ManifestIsUsable
<1>1. ParseInv => ManifestIsUsable
  <2> SUFFICES ASSUME ParseInv, parsing = "received" PROVE ManifestIsUsable
    BY DEF ManifestIsUsable
  <2>1. Done = Len(body.parts)
    BY ReceivedLacksNothing
  <2>2. Fields("metadata") # {} /\ Fields("forestJson") # {}
    BY ReceivedLacksNothing
  <2>3. \A name : Fields(name) \cap 1..Done = Fields(name)
    BY <2>1, BodyType DEF ParseInv, Fields
  <2>4. /\ metadata = {body.parts[Max(Fields("metadata"))].value}
        /\ forestJson = {body.parts[Max(Fields("forestJson"))].value}
    BY <2>2, <2>3 DEF ParseInv, LastFieldsHeld, FieldUpTo
  <2>5. \A f \in forestJson : f.platform # "undefined"
    BY <2>4, ReceivedLacksNothing
  <2>6. ASSUME NEW f \in forestJson
        PROVE  /\ f.platform \in {"roblox", "uefn"}
               /\ f.platform = "roblox" => f.root
               /\ f.packagesDir => f.platform = "roblox"
    <3>1. f \in ForestJsonText /\ ForestJsonParses(f)
      BY DEF ParseInv, ParseTypeOK, ManifestParses
    <3> QED
      BY <2>5, <3>1 DEF ForestJsonText, ForestJsonParses
  <2> QED
    BY <2>4, <2>6 DEF ManifestIsUsable
<1> QED
  BY <1>1, ParseInvariance, PTL
=============================================================================
