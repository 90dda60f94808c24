-------------------------- MODULE InspectionProofs --------------------------
(***************************************************************************)
(* Machine-checked proofs about the inspection of an upload, for any       *)
(* archives, limits, platforms' rules and chunks: the validation and the   *)
(* hash run side by side and neither disturbs the other, a hash describes  *)
(* the whole of what the sink holds, and an upload that goes on to the     *)
(* license call obeys its platform's rules.                                *)
(*                                                                         *)
(* Every step of the handler is a step of the validation or leaves it      *)
(* alone (PassRefined): what ValidateTgzProofs proves of the pass holds    *)
(* here without a second proof.                                            *)
(***************************************************************************)
EXTENDS Inspection, ValidateTgzProofs

(* What the tap emitted is in the sink or in its buffer, in that order. *)
NothingLost ==
    /\ sunk \in Seq(Range(source)) /\ sinkBuffer \in Seq(Range(source))
    /\ hashed = sunk \o sinkBuffer

EndedIsWhole == pipeStage \in {"ended", "resolved"} => delivered = Len(source)

(* The hash is taken once, when the sink has finished. *)
HashTaken ==
    /\ pipeStage = "resolved" => sinkBuffer = <<>>
    /\ hash = IF pipeStage = "resolved" THEN {hashed} ELSE {}

PipeInv == PipeTypeOK /\ NothingLost /\ EndedIsWhole /\ HashTaken

-----------------------------------------------------------------------------
(* hashAndPipe *)

LEMMA SourceType ==
    ASSUME PipeTypeOK
    PROVE  /\ source \in Seq(Range(source))
           /\ Len(source) \in Nat /\ delivered \in Nat /\ delivered <= Len(source)
           /\ \A i \in 1..Len(source) : source[i] \in Range(source)
           /\ hashed \in Seq(Range(source)) /\ Len(hashed) = delivered
           /\ \A i \in 1..delivered : hashed[i] = source[i]
<1>1. source \in Seq(Range(source))
  BY SourcesAssumption DEF PipeTypeOK
<1>2. Len(source) \in Nat /\ delivered \in Nat /\ delivered <= Len(source)
  BY <1>1 DEF PipeTypeOK
<1>3. hashed \in Seq(Range(source)) /\ Len(hashed) = delivered
        /\ \A i \in 1..delivered : hashed[i] = source[i]
  BY <1>1, <1>2 DEF PipeTypeOK
<1> QED
  BY <1>1, <1>2, <1>3

(* Of two parts that make up a first part of a sequence, the first is one. *)
LEMMA FirstPart ==
    ASSUME NEW S, NEW whole \in Seq(S), NEW a \in Seq(S), NEW b \in Seq(S), NEW n \in 0..Len(whole),
           a \o b = SubSeq(whole, 1, n)
    PROVE  IsPrefix(a, whole)
<1>1. /\ Len(whole) \in Nat /\ n \in Nat /\ n <= Len(whole)
      /\ Len(a) \in Nat /\ Len(b) \in Nat
  OBVIOUS
<1>2. Len(SubSeq(whole, 1, n)) = n /\ \A i \in 1..n : SubSeq(whole, 1, n)[i] = whole[i]
  BY <1>1
<1>3. Len(a \o b) = Len(a) + Len(b) /\ \A i \in 1..Len(a) : (a \o b)[i] = a[i]
  BY <1>1
<1>4. Len(a) <= n
  BY <1>1, <1>2, <1>3
<1>5. \A i \in 1..Len(a) : a[i] = whole[i]
  BY <1>1, <1>2, <1>3, <1>4
<1>6. SubSeq(a, 1, Len(a)) = SubSeq(whole, 1, Len(a))
  BY <1>1, <1>4, <1>5
<1> QED
  BY <1>1, <1>4, <1>6 DEF IsPrefix

LEMMA InitPipe == ASSUME PipeInit PROVE PipeInv
<1>1. source \in Seq(Range(source))
  BY SourcesAssumption DEF PipeInit
<1>2. /\ Len(source) \in Nat /\ <<>> \in Seq(Range(source)) /\ Len(<<>>) = 0
      /\ SubSeq(source, 1, 0) = <<>> /\ <<>> = <<>> \o <<>>
  BY <1>1
<1>3. IsPrefix(<<>>, source)
  BY <1>1, <1>2 DEF IsPrefix
<1> QED
  BY <1>2, <1>3, HighWaterAssumption DEF PipeInit, PipeInv, PipeTypeOK, NothingLost, EndedIsWhole,
     HashTaken, PipeRunning

LEMMA TapDataPipe == ASSUME PipeInv, TapData PROVE PipeInv'
<1> DEFINE chunk == source[delivered + 1]
<1>1. /\ source \in Seq(Range(source)) /\ chunk \in Range(source)
      /\ Len(source) \in Nat /\ delivered \in Nat /\ delivered + 1 <= Len(source)
      /\ hashed = SubSeq(source, 1, delivered)
  BY SourceType DEF TapData, PipeInv, PipeTypeOK
<1>2. /\ sunk \in Seq(Range(source)) /\ sinkBuffer \in Seq(Range(source))
      /\ hashed = sunk \o sinkBuffer /\ IsPrefix(sunk, source)
  BY DEF PipeInv, NothingLost, PipeTypeOK
<1>3. /\ UNCHANGED <<source, sunk, pipeStage, hash>>
      /\ delivered' = delivered + 1 /\ pipeStage = "flowing" /\ hash = {}
      /\ hashed' = Append(hashed, chunk) /\ sinkBuffer' = Append(sinkBuffer, chunk)
      /\ Len(sinkBuffer) < HighWater
  BY DEF TapData, PipeInv, HashTaken
<1> HIDE DEF chunk
<1>4. Append(hashed, chunk) = SubSeq(source, 1, delivered + 1)
  BY <1>1 DEF chunk
<1>5. Append(sunk \o sinkBuffer, chunk) = sunk \o Append(sinkBuffer, chunk)
  <2>1. /\ sunk \o sinkBuffer \in Seq(Range(source)) /\ <<chunk>> \in Seq(Range(source))
        /\ Append(sunk \o sinkBuffer, chunk) = (sunk \o sinkBuffer) \o <<chunk>>
        /\ Append(sinkBuffer, chunk) = sinkBuffer \o <<chunk>>
    BY <1>1, <1>2, AppendIsConcat
  <2> QED
    BY <1>2, <2>1, ConcatAssociative
<1>6. Append(sinkBuffer, chunk) \in Seq(Range(source))
      /\ Len(Append(sinkBuffer, chunk)) = Len(sinkBuffer) + 1 /\ Len(sinkBuffer) \in Nat
  BY <1>1, <1>2
<1>7. PipeTypeOK'
  BY <1>1, <1>2, <1>3, <1>4, <1>6, HighWaterAssumption DEF PipeInv, PipeTypeOK, PipeRunning
<1>8. NothingLost'
  BY <1>2, <1>3, <1>5, <1>6 DEF NothingLost
<1> QED
  BY <1>3, <1>7, <1>8 DEF PipeInv, EndedIsWhole, HashTaken

LEMMA SinkWritePipe == ASSUME PipeInv, SinkWrite PROVE PipeInv'
<1> DEFINE S == Range(source)
           chunk == Head(sinkBuffer)
           rest == Tail(sinkBuffer)
<1>1. /\ sunk \in Seq(S) /\ sinkBuffer \in Seq(S) /\ sinkBuffer # <<>>
      /\ hashed = sunk \o sinkBuffer
      /\ UNCHANGED <<source, delivered, hashed, pipeStage, hash>>
      /\ sunk' = Append(sunk, chunk) /\ sinkBuffer' = rest
      /\ pipeStage \in PipeRunning
  BY DEF SinkWrite, PipeInv, NothingLost
<1> HIDE DEF S
<1>2. chunk \in S /\ rest \in Seq(S) /\ Len(rest) = Len(sinkBuffer) - 1 /\ Len(sinkBuffer) \in Nat
  BY <1>1
<1>3. Append(sunk, chunk) \in Seq(S) /\ Append(sunk, chunk) \o rest = sunk \o sinkBuffer
  BY <1>1, <1>2
<1>4. IsPrefix(Append(sunk, chunk), source)
  <2>1. source \in Seq(S) /\ delivered \in 0..Len(source) /\ hashed = SubSeq(source, 1, delivered)
    BY SourceType DEF PipeInv, PipeTypeOK, S
  <2> HIDE DEF chunk, rest
  <2> QED
    BY <1>1, <1>2, <1>3, <2>1, FirstPart
<1>5. PipeTypeOK'
  <2>1. Len(rest) <= HighWater
    BY <1>1, <1>2, HighWaterAssumption DEF PipeInv, PipeTypeOK
  <2> HIDE DEF chunk, rest
  <2> QED
    BY <1>1, <1>4, <2>1 DEF PipeInv, PipeTypeOK
<1>6. NothingLost'
  BY <1>1, <1>2, <1>3 DEF NothingLost, S
<1> QED
  BY <1>1, <1>5, <1>6 DEF PipeInv, EndedIsWhole, HashTaken, PipeRunning

LEMMA PipeEnds ==
    ASSUME PipeInv, TapEnd \/ PipeResolve \/ PipeFail \/ UNCHANGED pipeVars
    PROVE  PipeInv'
BY DEF TapEnd, PipeResolve, PipeFail, pipeVars, PipeInv, PipeTypeOK, NothingLost, EndedIsWhole,
   HashTaken, PipeRunning, PipeSettled

LEMMA StepPipe == PipeInv /\ [PipeNext]_pipeVars => PipeInv'
BY TapDataPipe, SinkWritePipe, PipeEnds DEF PipeNext, PipeFlow

-----------------------------------------------------------------------------
(* The handler *)

(* What the scan makes of the captured files. *)
Passes ==
    /\ archive.platform = "uefn" =>
        ValidateUefnPackage({VerseOf[f.content] : f \in files}, archive.manifest).errors = {}
    /\ archive.platform = "roblox" =>
        LET result == ValidateRobloxPackage({ModelOf[f.content] : f \in files}, tally)
        IN  ~result.throws /\ ~result.errors

(* What the scan that cleared an upload read is still there, and found good. *)
Cleared == verdict = "cleared" => BothDone /\ Passes

(* What turned an upload away is still to be seen. *)
TurnedAway ==
    verdict \in {"refused", "crashed"} =>
        \/ stage \in {"rejected", "expired"}
        \/ pipeStage = "failed"
        \/ BothDone /\ ~Passes

HandlerTypeOK ==
    /\ verdict \in Verdicts
    /\ warned \in BOOLEAN
    /\ warned => verdict = "cleared"

InspectionInv == PipeInv /\ HandlerTypeOK /\ Cleared /\ TurnedAway

LEMMA PlatformType ==
    ASSUME TypeOK
    PROVE  archive.platform \in Platforms /\ archive.platform \in {"roblox", "uefn"}
BY ArchivesAssumption, InspectorsAssumption DEF TypeOK

LEMMA InitInspection == InspectionInit => InspectionInv
BY InitPipe DEF InspectionInit, InspectionInv, HandlerTypeOK, Cleared, TurnedAway, Verdicts

LEMMA ScanInspection ==
    ASSUME TypeOK, InspectionInv, Scan
    PROVE  InspectionInv'
<1>1. verdict = "inspecting" /\ warned = FALSE /\ BothDone /\ UNCHANGED <<vars, pipeVars>>
  BY DEF Scan, InspectionInv, HandlerTypeOK
<1>2. PipeInv' /\ BothDone'
  BY <1>1, PipeEnds DEF InspectionInv, BothDone, vars, pipeVars
<1>3. CASE archive.platform = "uefn" /\ ScanUefn
  <2> DEFINE result == ValidateUefnPackage({VerseOf[f.content] : f \in files}, archive.manifest)
  <2>1. /\ verdict' = IF result.errors # {} THEN "refused" ELSE "cleared"
        /\ warned' = (result.errors = {} /\ result.warnings)
    BY <1>3 DEF ScanUefn
  <2>2. result.warnings \in BOOLEAN
    BY DEF ValidateUefnPackage
  <2>3. result' = result
    BY <1>1 DEF vars
  <2> HIDE DEF result
  <2>4. HandlerTypeOK'
    BY <2>1, <2>2 DEF HandlerTypeOK, Verdicts
  <2>5. Passes' <=> result.errors = {}
    BY <1>1, <1>3, <2>3 DEF Passes, result, vars
  <2>6. Cleared' /\ TurnedAway'
    BY <1>2, <2>1, <2>5 DEF Cleared, TurnedAway
  <2> QED
    BY <1>2, <2>4, <2>6 DEF InspectionInv
<1>4. CASE archive.platform = "roblox" /\ ScanRoblox
  <2> DEFINE result == ValidateRobloxPackage({ModelOf[f.content] : f \in files}, tally)
  <2>1. /\ verdict' = IF result.throws THEN "crashed"
                      ELSE IF result.errors THEN "refused" ELSE "cleared"
        /\ warned' = FALSE
    BY <1>1, <1>4 DEF ScanRoblox
  <2>2. result' = result
    BY <1>1 DEF vars
  <2> HIDE DEF result
  <2>3. HandlerTypeOK'
    BY <2>1 DEF HandlerTypeOK, Verdicts
  <2>4. Passes' <=> ~result.throws /\ ~result.errors
    BY <1>1, <1>4, <2>2 DEF Passes, result, vars
  <2>5. Cleared' /\ TurnedAway'
    BY <1>2, <2>1, <2>4 DEF Cleared, TurnedAway
  <2> QED
    BY <1>2, <2>3, <2>5 DEF InspectionInv
<1> QED
  BY <1>3, <1>4 DEF Scan

(* Once both promises are fulfilled, the streams change nothing the scan read. *)
LEMMA StreamsInspection ==
    ASSUME Inv, InspectionInv, ValidationStep \/ PipeStep \/ UNCHANGED inspectionVars
    PROVE  InspectionInv'
<1>1. UNCHANGED <<verdict, warned>> /\ [Next]_vars /\ [PipeNext]_pipeVars
  BY DEF ValidationStep, PipeStep, inspectionVars
<1>2. PipeInv'
  BY <1>1, StepPipe DEF InspectionInv
<1>3. BothDone => BothDone' /\ UNCHANGED <<archive, files, tally>>
  <2>1. stage = "accepted" => stage' = "accepted" /\ UNCHANGED <<archive, files, tally>>
    BY <1>1 DEF Inv, TimerCleared, Next, StreamStep, NextEntry, Data, End, Finish, Break, Error,
       TimerFires, vars, Running, Destroyed, Settled
  <2>2. pipeStage = "resolved" => pipeStage' = "resolved"
    BY <1>1 DEF PipeNext, PipeFlow, TapData, SinkWrite, TapEnd, PipeResolve, PipeFail, pipeVars,
       PipeRunning
  <2> QED
    BY <2>1, <2>2 DEF BothDone
<1>4. BothDone => (Passes' <=> Passes)
  BY <1>3 DEF Passes
<1>5. /\ stage \in {"rejected", "expired"} => stage' = stage
      /\ pipeStage = "failed" => pipeStage' = pipeStage
  BY <1>1 DEF Inv, TimerCleared, Next, StreamStep, NextEntry, Data, End, Finish, Break, Error,
     TimerFires, vars, Running, Destroyed, Settled, PipeNext, PipeFlow, TapData, SinkWrite, TapEnd,
     PipeResolve, PipeFail, pipeVars, PipeRunning
<1>6. Cleared' /\ TurnedAway'
  BY <1>1, <1>3, <1>4, <1>5 DEF InspectionInv, Cleared, TurnedAway
<1> QED
  BY <1>1, <1>2, <1>6 DEF InspectionInv, HandlerTypeOK

LEMMA StepInspection == Inv /\ InspectionInv /\ [InspectionNext]_inspectionVars => InspectionInv'
<1> SUFFICES ASSUME Inv, InspectionInv, [InspectionNext]_inspectionVars PROVE InspectionInv'
  OBVIOUS
<1>1. CASE ValidationStep \/ PipeStep \/ UNCHANGED inspectionVars
  BY <1>1, StreamsInspection
<1>2. CASE RefuseEarly
  <2>1. /\ verdict = "inspecting" /\ verdict' = "refused" /\ warned' = warned
        /\ stage' \in {"rejected", "expired"} \/ pipeStage' = "failed"
        /\ UNCHANGED pipeVars
    BY <1>2 DEF RefuseEarly, vars, pipeVars
  <2>2. PipeInv'
    BY <2>1, PipeEnds DEF InspectionInv
  <2> QED
    BY <2>1, <2>2 DEF InspectionInv, HandlerTypeOK, Cleared, TurnedAway, Verdicts
<1>3. CASE Scan
  BY <1>3, ScanInspection DEF Inv
<1> QED
  BY <1>1, <1>2, <1>3 DEF InspectionNext, Conclude

(* Seen from the archive, the handler's steps are the validation's, or none:  *)
(* the hash beside it and the reply before it ends change nothing in the pass. *)
THEOREM PassRefined == InspectionSpec => Spec
<1>1. InspectionInit => Init
  BY DEF InspectionInit
<1>2. [InspectionNext]_inspectionVars => [Next]_vars
  BY DEF InspectionNext, ValidationStep, PipeStep, Conclude, RefuseEarly, Scan, inspectionVars
<1> QED
  BY <1>1, <1>2, PTL DEF InspectionSpec, Spec

(* The inductive invariant of the inspection, beside that of the pass. *)
THEOREM InspectionInvariance == InspectionSpec => []InspectionInv
<1>1. InspectionSpec => []Inv
  BY PassRefined, Invariance, PTL
<1> QED
  BY <1>1, InitInspection, StepInspection, PTL DEF InspectionSpec

(* Every variable of the inspection keeps its type. *)
THEOREM InspectionTypeCorrect == InspectionSpec => []InspectionTypeOK
<1>1. TypeOK /\ InspectionInv => InspectionTypeOK
  BY DEF InspectionInv, PipeInv, HandlerTypeOK, InspectionTypeOK
<1> QED
  BY <1>1, PassRefined, TypeCorrect, InspectionInvariance, PTL

(* The pass keeps its promises in the handler, whatever fails beside it and   *)
(* however late: the verdict is exact, the scan reads what an extraction      *)
(* leaves behind, the license is the first, no timer is left.                 *)
THEOREM PassKeepsPromises ==
    InspectionSpec =>
        /\ [](VerdictIsExact /\ ScannedIsExtracted /\ LicenseIsTheFirst /\ TimerCleared)
        /\ OutcomeIsFinal
<1>1. Spec => /\ [](VerdictIsExact /\ ScannedIsExtracted /\ LicenseIsTheFirst /\ TimerCleared)
              /\ OutcomeIsFinal
  BY ExactVerdict, ScanReadsTheExtracted, FirstLicense, TimerGone, OneOutcome, PTL
<1> QED
  BY <1>1, PassRefined

(* hashAndPipe's promise, for any source and any buffer: the hash is that of  *)
(* exactly what the sink holds, which is the whole source.                    *)
THEOREM HashMatchesSink == InspectionSpec => []HashIsOfSunk
<1>1. InspectionInv => HashIsOfSunk
  <2> SUFFICES ASSUME PipeInv, hash # {} PROVE hash = {sunk} /\ sunk = source
    BY DEF InspectionInv, HashIsOfSunk
  <2>1. hash = {hashed} /\ pipeStage = "resolved" /\ delivered = Len(source) /\ sinkBuffer = <<>>
    BY DEF PipeInv, EndedIsWhole, HashTaken
  <2>2. hashed = sunk
    BY <2>1 DEF PipeInv, NothingLost
  <2>3. hashed = source
    BY <2>1, SourceType, SeqEqual DEF PipeInv
  <2> QED
    BY <2>1, <2>2, <2>3
<1> QED
  BY <1>1, InspectionInvariance, PTL

-----------------------------------------------------------------------------
(* What a clean scan means for the entries an extraction leaves behind. *)

(* Every such entry was let in by its platform's inspector, and its content *)
(* is among the scanned ones if its name is a captured one.                 *)
LEMMA ExtractedIsScanned ==
    ASSUME Inv, ScannedIsExtracted, stage = "accepted", NEW e \in Extracted
    PROVE  /\ \E i \in DOMAIN archive.entries : archive.entries[i] = e
           /\ <<e.name, e.type>> \in EntryInspectors[archive.platform].allowed
           /\ e.name \in EntryInspectors[archive.platform].captured =>
                \E f \in files : f.content = e.pieces
<1>1. PICK i \in DOMAIN archive.entries :
        /\ archive.entries[i] = e
        /\ \A k \in i + 1..Len(archive.entries) : archive.entries[k].name # archive.entries[i].name
  BY DEF Extracted
<1>2. i \in 1..fileCount
  BY EntriesType DEF Inv, Complete
<1>3. <<e.name, e.type>> \in Inspector[archive.platform].allowed
  BY <1>1, <1>2 DEF Inv, Checked, Acceptable
<1>4. e.name \in CapturedNames => [name |-> e.name, content |-> e.pieces] \in files
  BY <1>1 DEF ScannedIsExtracted
<1> QED
  BY <1>1, <1>3, <1>4, InspectorsAssumption DEF CapturedNames

(* A Verse text without an error names nothing of another project. *)
LEMMA TextWorksAnywhere ==
    ASSUME NEW texts, NEW text \in texts,
           ValidateUefnPackage(texts, archive.manifest).errors = {}
    PROVE  WorksAnywhere(text)
<1> DEFINE manifest == archive.manifest
<1>1. /\ \A path \in text.usings : ~ImportRefused(path)
      /\ \A segments \in text.qualifiers : IsAllowedAbsolute(segments)
      /\ \A ref \in text.references : ~ReferenceRefused(ref, manifest)
  BY DEF ValidateUefnPackage
<1>2. ASSUME NEW ref \in text.references
      PROVE  /\ \E d \in manifest.dependencies :
                  /\ d.scope # "" /\ d.name # "" /\ MapScope[Lower[d.scope]] = Lower[ref.scope]
                  /\ Lower[d.name] = Lower[ref.name]
             /\ <<Lower[ref.scope], Lower[ref.name]>> # OwnRef(manifest)
  <2>1. <<Lower[ref.scope], Lower[ref.name]>> # OwnRef(manifest)
    BY <1>1 DEF ReferenceRefused, RefKey
  <2>2. <<Lower[ref.scope], Lower[ref.name]>> \in DeclaredRefs(manifest.dependencies)
    BY <1>1 DEF ReferenceRefused, RefKey
  <2>3. PICK d \in manifest.dependencies :
          /\ d.scope # "" /\ d.name # ""
          /\ <<Lower[ref.scope], Lower[ref.name]>> = <<MapScope[Lower[d.scope]], Lower[d.name]>>
    BY <2>2 DEF DeclaredRefs, RefKey
  <2> QED
    BY <2>1, <2>3
<1> QED
  BY <1>1, <1>2 DEF WorksAnywhere

LEMMA UefnIsClean ==
    ASSUME Inv, ScannedIsExtracted, Cleared, verdict = "cleared", archive.platform = "uefn",
           NEW e \in Extracted
    PROVE  \/ e.type = "directory"
           \/ /\ e.type \in RegularTypes /\ e.name.kind \in {"verse", "document", "license"}
              /\ e.name.kind = "verse" /\ ~e.name.trailingSlash =>
                    WorksAnywhere(VerseOf[e.pieces])
<1>1. /\ stage = "accepted"
      /\ ValidateUefnPackage({VerseOf[f.content] : f \in files}, archive.manifest).errors = {}
  BY DEF Cleared, Passes, BothDone
<1>2. "uefn" \in Platforms
  BY PlatformType DEF Inv
<1>3. EntryInspectors["uefn"] = MakeUefnEntryInspector(Names, Types)
  BY <1>2 DEF EntryInspectors
<1>4. <<e.name, e.type>> \in EntryInspectors["uefn"].allowed
  BY <1>1, ExtractedIsScanned
<1>5. e.name \in Names /\ CheckUefnEntryName(e.name.kind, e.type)
  BY <1>3, <1>4 DEF MakeUefnEntryInspector
<1>6. ASSUME e.name.kind = "verse", ~e.name.trailingSlash PROVE WorksAnywhere(VerseOf[e.pieces])
  <2>1. e.name \in EntryInspectors["uefn"].captured
    BY <1>3, <1>5, <1>6 DEF MakeUefnEntryInspector
  <2>2. \E f \in files : f.content = e.pieces
    BY <1>1, <2>1, ExtractedIsScanned
  <2> QED
    BY <1>1, <2>2, TextWorksAnywhere
<1> QED
  BY <1>5, <1>6 DEF CheckUefnEntryName

LEMMA RobloxIsClean ==
    ASSUME Inv, ScannedIsExtracted, Cleared, verdict = "cleared", archive.platform = "roblox",
           NEW e \in Extracted
    PROVE  \/ e.type = "directory"
           \/ /\ e.name.kind \notin {"runtimeScript", "xmlModel"}
              /\ e.name.kind = "model" => e.type \in RegularTypes /\ ModelOf[e.pieces] = "clean"
<1> DEFINE scans == {ModelOf[f.content] : f \in files}
<1>1. /\ stage = "accepted"
      /\ scans \cap {"refused", "unparsable", "unexpected"} = {}
  BY DEF Cleared, Passes, BothDone, ValidateRobloxPackage
<1>2. "roblox" \in Platforms
  BY PlatformType DEF Inv
<1>3. EntryInspectors["roblox"] = MakeRobloxEntryInspector(Names, Types)
  BY <1>2 DEF EntryInspectors
<1>4. <<e.name, e.type>> \in EntryInspectors["roblox"].allowed
  BY <1>1, ExtractedIsScanned
<1>5. e.name \in Names /\ CheckRobloxEntryName(e.name.kind, e.type)
  BY <1>3, <1>4 DEF MakeRobloxEntryInspector
<1>6. ASSUME e.name.kind = "model", e.type \in RegularTypes PROVE ModelOf[e.pieces] = "clean"
  <2>1. e.name \in EntryInspectors["roblox"].captured
    BY <1>3, <1>5, <1>6 DEF MakeRobloxEntryInspector
  <2>2. ModelOf[e.pieces] \in scans
    BY <1>1, <2>1, ExtractedIsScanned
  <2>3. ModelOf[e.pieces] \in ScanOutcomes
    <3>1. archive \in Archives
      BY DEF Inv, TypeOK
    <3>2. PICK i \in DOMAIN archive.entries : archive.entries[i] = e
      BY <1>1, ExtractedIsScanned
    <3> QED
      BY <1>6, <3>1, <3>2, ScansAssumption
  <2> QED
    BY <1>1, <2>2, <2>3 DEF ScanOutcomes
<1> QED
  BY <1>5, <1>6 DEF CheckRobloxEntryName

(* An upload goes on to the license call only with its hash known and with    *)
(* every file an installer would extract of a kind its platform allows; the   *)
(* Verse sources among them whose name as it stands ends in .verse, and all   *)
(* models, have passed the scan, however the two pipelines interleave.        *)
THEOREM OnlyCleanGoesOn == InspectionSpec => []ClearedIsClean
<1>1. Inv /\ ScannedIsExtracted /\ InspectionInv => ClearedIsClean
  <2> SUFFICES ASSUME Inv, ScannedIsExtracted, InspectionInv, verdict = "cleared"
               PROVE  ClearedIsClean
    BY DEF ClearedIsClean
  <2>1. hash # {}
    BY DEF InspectionInv, Cleared, BothDone, PipeInv, HashTaken
  <2> QED
    BY <2>1, UefnIsClean, RobloxIsClean DEF InspectionInv, ClearedIsClean, Clean
<1>2. InspectionSpec => [](Inv /\ ScannedIsExtracted)
  BY PassRefined, Invariance, ScanReadsTheExtracted, PTL
<1> QED
  BY <1>1, <1>2, InspectionInvariance, PTL

-----------------------------------------------------------------------------
(* The other way: what is clean passes the scan. *)

(* What is scanned is of an entry that an extraction leaves behind. *)
LEMMA ScannedIsOfEntry ==
    ASSUME Inv, ScannedIsExtracted, stage = "accepted", NEW f \in files
    PROVE  \E e \in Extracted :
              /\ e.name \in CapturedNames /\ e.name \in EntryInspectors[archive.platform].captured
              /\ f.content = e.pieces
<1>1. PICK i \in DOMAIN archive.entries :
        /\ archive.entries[i].name \in CapturedNames
        /\ \A k \in i + 1..Len(archive.entries) : archive.entries[k].name # archive.entries[i].name
        /\ f = [name |-> archive.entries[i].name, content |-> archive.entries[i].pieces]
  BY DEF ScannedIsExtracted
<1>2. archive.entries[i] \in Extracted
  BY <1>1 DEF Extracted
<1>3. CapturedNames = EntryInspectors[archive.platform].captured
  BY InspectorsAssumption DEF CapturedNames
<1> QED
  BY <1>1, <1>2, <1>3

LEMMA AnywherePasses ==
    ASSUME NEW texts, \A text \in texts : WorksAnywhere(text)
    PROVE  ValidateUefnPackage(texts, archive.manifest).errors = {}
<1> DEFINE manifest == archive.manifest
<1>1. ASSUME NEW text \in texts, NEW ref \in text.references
      PROVE  ~ReferenceRefused(ref, manifest)
  <2>1. WorksAnywhere(text)
    OBVIOUS
  <2>2. PICK d \in manifest.dependencies :
          /\ d.scope # "" /\ d.name # "" /\ MapScope[Lower[d.scope]] = Lower[ref.scope]
          /\ Lower[d.name] = Lower[ref.name]
    BY <2>1 DEF WorksAnywhere
  <2>3. <<Lower[ref.scope], Lower[ref.name]>> \in DeclaredRefs(manifest.dependencies)
    BY <2>2 DEF DeclaredRefs, RefKey
  <2>4. <<Lower[ref.scope], Lower[ref.name]>> # OwnRef(manifest)
    BY <2>1 DEF WorksAnywhere
  <2> QED
    BY <2>3, <2>4 DEF ReferenceRefused, RefKey
<1>2. \A text \in texts :
        /\ \A path \in text.usings : ~ImportRefused(path)
        /\ \A segments \in text.qualifiers : IsAllowedAbsolute(segments)
  BY DEF WorksAnywhere
<1> QED
  BY <1>1, <1>2 DEF ValidateUefnPackage

(* No directory is scanned as an empty file. *)
NoDirectoryScanned == \A e \in Extracted : e.type = "directory" => e.name \notin CapturedNames

CodeCameFirst ==
    archive.platform = "roblox" /\ (\E e \in Extracted : e.name.kind = "model") =>
        tally >= MinLuauSourceBytes

LEMMA CleanPasses ==
    ASSUME Inv, ScannedIsExtracted, stage = "accepted", Clean, NoDirectoryScanned, CodeCameFirst
    PROVE  Passes
<1>1. CASE archive.platform = "uefn"
  <2>1. EntryInspectors["uefn"] = MakeUefnEntryInspector(Names, Types)
    BY <1>1, PlatformType DEF Inv, EntryInspectors
  <2>2. ASSUME NEW f \in files PROVE WorksAnywhere(VerseOf[f.content])
    <3>1. PICK e \in Extracted :
            /\ e.name \in CapturedNames /\ e.name \in EntryInspectors["uefn"].captured
            /\ f.content = e.pieces
      BY <1>1, ScannedIsOfEntry
    <3>2. e.name.kind \in {"verse", "digest"} /\ ~e.name.trailingSlash
      BY <2>1, <3>1 DEF MakeUefnEntryInspector
    <3> QED
      BY <1>1, <3>1, <3>2 DEF Clean, NoDirectoryScanned
  <2>3. \A text \in {VerseOf[f.content] : f \in files} : WorksAnywhere(text)
    BY <2>2
  <2>4. ValidateUefnPackage({VerseOf[f.content] : f \in files}, archive.manifest).errors = {}
    BY <2>3, AnywherePasses
  <2> QED
    BY <1>1, <2>4 DEF Passes
<1>2. CASE archive.platform = "roblox"
  <2> DEFINE scans == {ModelOf[f.content] : f \in files}
  <2>1. EntryInspectors["roblox"] = MakeRobloxEntryInspector(Names, Types)
    BY <1>2, PlatformType DEF Inv, EntryInspectors
  <2>2. ASSUME NEW f \in files
        PROVE  ModelOf[f.content] = "clean" /\ \E e \in Extracted : e.name.kind = "model"
    <3>1. PICK e \in Extracted :
            /\ e.name \in CapturedNames /\ e.name \in EntryInspectors["roblox"].captured
            /\ f.content = e.pieces
      BY <1>2, ScannedIsOfEntry
    <3>2. e.name.kind = "model"
      BY <2>1, <3>1 DEF MakeRobloxEntryInspector
    <3> QED
      BY <1>2, <3>1, <3>2 DEF Clean, NoDirectoryScanned
  <2>3. scans \subseteq {"clean"}
    BY <2>2
  <2>4. scans # {} => ~(tally < MinLuauSourceBytes)
    <3>1. scans # {} => \E e \in Extracted : e.name.kind = "model"
      BY <2>2
    <3>2. tally \in Nat
      BY DEF Inv, TypeOK
    <3> QED
      BY <1>2, <3>1, <3>2, SourceAssumption DEF CodeCameFirst
  <2> QED
    BY <1>2, <2>3, <2>4 DEF Passes, ValidateRobloxPackage
<1> QED
  BY <1>1, <1>2, PlatformType DEF Inv

(* The inspection refuses nothing without a cause: neither the interleaving   *)
(* of the two pipelines nor the order of an archive's entries costs a good    *)
(* upload its publication.                                                    *)
THEOREM NoneRefusedWithoutCause == InspectionSpec => []GoodIsNotRefused
<1>1. Inv /\ ScannedIsExtracted /\ VerdictIsExact /\ InspectionInv => GoodIsNotRefused
  <2> SUFFICES ASSUME Inv, ScannedIsExtracted, VerdictIsExact, InspectionInv,
                      stage # "expired", pipeStage # "failed", WithinLimits(archive),
                      Clean, NoDirectoryScanned, CodeCameFirst
               PROVE  verdict \in {"inspecting", "cleared"}
    BY DEF GoodIsNotRefused, NoDirectoryScanned, CodeCameFirst
  <2>1. stage # "rejected"
    BY DEF VerdictIsExact
  <2>2. BothDone => Passes
    BY CleanPasses DEF BothDone
  <2> QED
    BY <2>1, <2>2 DEF InspectionInv, TurnedAway, HandlerTypeOK, Verdicts
<1>2. InspectionSpec => [](Inv /\ ScannedIsExtracted /\ VerdictIsExact)
  BY PassRefined, Invariance, ScanReadsTheExtracted, ExactVerdict, PTL
<1> QED
  BY <1>1, <1>2, InspectionInvariance, PTL
=============================================================================
