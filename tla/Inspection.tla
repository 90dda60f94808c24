----------------------------- MODULE Inspection -----------------------------
(***************************************************************************)
(* The inspection of an authorized upload (src/routes/publish.ts, from the *)
(* start of validateTgz to the license call): the archive is validated and *)
(* hashed by two pipelines over one buffer that run side by side, the      *)
(* handler waits for both, and then scans what the validation captured.    *)
(*                                                                         *)
(* Promise.all does not stop the pipeline that is still running when the   *)
(* other one fails: the client has its 400 while that goes on.             *)
(***************************************************************************)
EXTENDS ValidateTgz, HashAndPipe, UefnRules, RobloxRules

CONSTANTS
    VerseOf,       \* what the scan's patterns match in a captured content
    ModelOf        \* how a captured content comes out of the model scanner

ASSUME NamesAssumption ==
    \A n \in Names : n.kind \in NameKinds /\ n.trailingSlash \in BOOLEAN

ASSUME ScansAssumption ==
    \A a \in Archives : \A i \in DOMAIN a.entries :
        LET e == a.entries[i]
        IN  a.platform = "roblox" /\ e.name.kind = "model" /\ e.type \in RegularTypes =>
                ModelOf[e.pieces] \in ScanOutcomes

(* makeUefnEntryInspector or makeRobloxEntryInspector, as the manifest says. *)
EntryInspectors ==
    [p \in Platforms |-> IF p = "uefn" THEN MakeUefnEntryInspector(Names, Types)
                         ELSE MakeRobloxEntryInspector(Names, Types)]

ASSUME InspectorsAssumption == Platforms \subseteq {"roblox", "uefn"} /\ Inspector = EntryInspectors

VARIABLES
    verdict,       \* what the handler makes of the upload
    warned         \* the success response will carry uefn warnings

inspectionVars == <<vars, pipeVars, verdict, warned>>

(* refused: 400; crashed: Fastify's 500; cleared: on to the license call. *)
Verdicts == {"inspecting", "refused", "crashed", "cleared"}

InspectionInit == Init /\ PipeInit /\ verdict = "inspecting" /\ warned = FALSE

-----------------------------------------------------------------------------
ValidationStep == Next /\ UNCHANGED <<pipeVars, verdict, warned>>

PipeStep == PipeNext /\ UNCHANGED <<vars, verdict, warned>>

(* Promise.all rejects with the first of the two that fails. *)
RefuseEarly ==
    /\ verdict = "inspecting"
    /\ stage \in {"rejected", "expired"} \/ pipeStage = "failed"
    /\ verdict' = "refused"
    /\ UNCHANGED <<vars, pipeVars, warned>>

(* Mutant: the handler goes on when the hash is there. *)
HashDone == stage \in {"accepted", "between"} /\ pipeStage = "resolved"

(* Both promises are fulfilled. *)
BothDone == stage = "accepted" /\ pipeStage = "resolved"

ScanUefn ==
    LET result == ValidateUefnPackage({VerseOf[f.content] : f \in files}, archive.manifest)
    IN  /\ verdict' = IF result.errors # {} THEN "refused" ELSE "cleared"
        /\ warned' = (result.errors = {} /\ result.warnings)

ScanRoblox ==
    LET result == ValidateRobloxPackage({ModelOf[f.content] : f \in files}, tally)
    IN  /\ verdict' = IF result.throws THEN "crashed"
                      ELSE IF result.errors THEN "refused" ELSE "cleared"
        /\ UNCHANGED warned

Scan ==
    /\ verdict = "inspecting"
    /\ BothDone
    /\ \/ archive.platform = "uefn" /\ ScanUefn
       \/ archive.platform = "roblox" /\ ScanRoblox
    /\ UNCHANGED <<vars, pipeVars>>

Conclude == RefuseEarly \/ Scan

InspectionNext == ValidationStep \/ PipeStep \/ Conclude

InspectionSpec == InspectionInit /\ [][InspectionNext]_inspectionVars

(* The event loop gets to every stream and to the handler; it need not get *)
(* to the timer, and no stream need fail.                                  *)
InspectionFairSpec ==
    /\ InspectionSpec
    /\ WF_inspectionVars(StreamStep /\ UNCHANGED <<pipeVars, verdict, warned>>)
    /\ WF_inspectionVars(PipeFlow /\ UNCHANGED <<vars, verdict, warned>>)
    /\ WF_inspectionVars(Conclude)

-----------------------------------------------------------------------------
InspectionTypeOK ==
    /\ TypeOK
    /\ PipeTypeOK
    /\ verdict \in Verdicts
    /\ warned \in BOOLEAN
    /\ warned => verdict = "cleared"

(* The entries an extraction of the archive leaves behind. *)
Extracted ==
    {archive.entries[i] : i \in {j \in DOMAIN archive.entries :
        \A k \in j + 1..Len(archive.entries) : archive.entries[k].name # archive.entries[j].name}}

(* A Verse source that works in any project: it names no project's own path, *)
(* no asset digest, and no package that the manifest does not bring along.   *)
WorksAnywhere(text) ==
    /\ \A path \in text.usings : ~ImportRefused(path)
    /\ \A segments \in text.qualifiers : IsAllowedAbsolute(segments)
    /\ \A ref \in text.references :
        /\ \E d \in archive.manifest.dependencies :
            /\ d.scope # "" /\ d.name # "" /\ MapScope[Lower[d.scope]] = Lower[ref.scope]
            /\ Lower[d.name] = Lower[ref.name]
        /\ <<Lower[ref.scope], Lower[ref.name]>> # OwnRef(archive.manifest)

(* What an installer extracts obeys its platform's rules, file by file; of   *)
(* the Verse sources, those whose name as it stands ends in .verse.          *)
Clean ==
    /\ archive.platform = "uefn" => \A e \in Extracted :
        \/ e.type = "directory"
        \/ /\ e.type \in RegularTypes /\ e.name.kind \in {"verse", "document", "license"}
           /\ e.name.kind = "verse" /\ ~e.name.trailingSlash =>
                WorksAnywhere(VerseOf[e.pieces])
    /\ archive.platform = "roblox" => \A e \in Extracted :
        \/ e.type = "directory"
        \/ /\ e.name.kind \notin {"runtimeScript", "xmlModel"}
           /\ e.name.kind = "model" => e.type \in RegularTypes /\ ModelOf[e.pieces] = "clean"

(* An upload goes on to the license call only with its hash known and only   *)
(* if what an installer extracts obeys its platform's rules (Clean): "v1 UEFN *)
(* packages are Verse-code-only", "No runtime scripts", "Model files must be *)
(* code-free" (uefnRules.ts, robloxRules.ts).                                *)
ClearedIsClean == verdict = "cleared" => hash # {} /\ Clean

(* Nothing else turns an upload away: one whose archive is within the limits, *)
(* clean and code first is not refused unless the timer fired or the hash     *)
(* failed.  A directory must not bear a captured file's name: it is scanned   *)
(* as an empty file.                                                          *)
GoodIsNotRefused ==
    /\ stage # "expired" /\ pipeStage # "failed"
    /\ WithinLimits(archive)
    /\ Clean
    /\ \A e \in Extracted : e.type = "directory" => e.name \notin CapturedNames
    /\ archive.platform = "roblox" /\ (\E e \in Extracted : e.name.kind = "model") =>
        tally >= MinLuauSourceBytes
    => verdict \in {"inspecting", "cleared"}

(* Whatever fails first, the handler concludes, and both pipelines come to  *)
(* an end of their own: none is left running behind the reply.              *)
NothingLeftRunning ==
    <>[](verdict # "inspecting" /\ stage \in Settled /\ pipeStage \in PipeSettled)

(* uefnRules.ts: the scan reads the content of "every .verse file in the     *)
(* tarball".  A file whose name ends with a slash after .verse is a Verse    *)
(* source to the allowlist, but none to the capture.                         *)
VerseIsScanned ==
    verdict = "cleared" /\ archive.platform = "uefn" =>
        \A e \in Extracted : e.type \in RegularTypes /\ e.name.kind = "verse" =>
            [name |-> e.name, content |-> e.pieces] \in files

(* robloxRules.ts: "a package shipping models must also ship non-trivial     *)
(* Luau source".  The tally counts every entry, also those that a later      *)
(* entry of the same name replaces, so less may be shipped than was counted. *)
CodeFirst ==
    LET shipped == {e \in Extracted : e.type \in RegularTypes}
        luau == {e \in shipped : e.name.kind = "luau"}
    IN  verdict = "cleared" /\ (\E e \in shipped : e.name.kind = "model") =>
            FoldSet(LAMBDA e, sum : sum + e.size, 0, luau) >= MinLuauSourceBytes
=============================================================================
