----------------------------- MODULE RobloxRules -----------------------------
(***************************************************************************)
(* The rules for roblox packages (src/rules/robloxRules.ts): no runtime    *)
(* scripts, no XML models, model files free of code, and code first.  The  *)
(* parser of model files is in forest-shared-resources, not here: a file   *)
(* is abstracted to how scanRbxm and checkRbxmPolicy come out.             *)
(***************************************************************************)
EXTENDS Integers, TarEntries

CONSTANTS
    MinLuauSourceBytes,    \* MIN_LUAU_SOURCE_BYTES_WITH_MODELS
    MaxModel               \* maxBinaryCaptureBytes

ASSUME SourceAssumption == MinLuauSourceBytes \in Nat

(* "unexpected": an error that is no RbxmParseError. *)
ScanOutcomes == {"clean", "refused", "unparsable", "unexpected"}

CheckRobloxEntryName(kind, type) ==
    \/ type = "directory"
    \/ /\ kind \notin {"runtimeScript", "xmlModel"}
       /\ kind = "model" => type \in RegularTypes

MakeRobloxEntryInspector(names, types) ==
    [allowed |-> {e \in names \X types : CheckRobloxEntryName(e[1].kind, e[2])},
     captured |-> {n \in names : n.kind = "model"},
     cap |-> MaxModel,
     tallied |-> {n \in names : n.kind \in {"luau", "runtimeScript"}} \X RegularTypes]

-----------------------------------------------------------------------------
(* Mutant: what cannot be parsed is passed over. *)
ParsedOnly(scans, luauSourceBytes) ==
    [errors |-> "refused" \in scans,
     throws |-> "unexpected" \in scans]

(* scans: how the captured models come out.  Any unexpected error is thrown *)
(* on, whatever the other files are.                                        *)
ValidateRobloxPackage(scans, luauSourceBytes) ==
    [errors |->
        \/ scans \cap {"refused", "unparsable"} # {}
        \/ scans # {} /\ luauSourceBytes < MinLuauSourceBytes,
     throws |-> "unexpected" \in scans]
=============================================================================
