------------------------------ MODULE UefnRules ------------------------------
(***************************************************************************)
(* The rules for uefn packages (src/rules/uefnRules.ts): which entries an  *)
(* archive may have, and the lexical scan of its Verse sources.            *)
(*                                                                         *)
(* A name carries its kind: what its base name, in lower case, says of the *)
(* file, and whether it ends with a slash, which its base name is without. *)
(* A text is abstracted to what the scan's patterns match in it.           *)
(* The roots and the mapping of scopes come from forest-shared-resources,  *)
(* which is not in this repository.                                        *)
(***************************************************************************)
EXTENDS Integers, SequencesExt, TarEntries

CONSTANTS
    EpicRoots,     \* EPIC_PATH_ROOTS, as sequences of segments
    Lower,         \* toLowerCase on scopes and names
    MapScope,      \* mapScopeToVerseIdentifier
    MaxVerse       \* maxCaptureBytes

(* "luau" is any .lua or .luau but a runtime script, "license" one of the   *)
(* three license names, "verse" any .verse but a digest, "document" any .md *)
(* or .json but a receipt.                                                  *)
NameKinds == {"verse", "digest", "receipt", "asset", "document", "license",
              "luau", "runtimeScript", "model", "xmlModel", "other"}

(* Regular files only, and only from the allowlist; directories pass. *)
CheckUefnEntryName(kind, type) ==
    \/ type = "directory"
    \/ type \in RegularTypes /\ kind \in {"verse", "document", "license"}

(* What is allowed is judged by the base name, what is captured by the name *)
(* as it stands.                                                            *)
MakeUefnEntryInspector(names, types) ==
    [allowed |-> {e \in names \X types : CheckUefnEntryName(e[1].kind, e[2])},
     captured |-> {n \in names : n.kind \in {"verse", "digest"} /\ ~n.trailingSlash},
     cap |-> MaxVerse,
     tallied |-> {}]

-----------------------------------------------------------------------------
(* path === root || path.startsWith(root + '/'): whole segments. *)
IsAllowedAbsolute(segments) == \E root \in EpicRoots : IsPrefix(root, segments)

(* A path in `using { ... }`: absolute outside Epic's roots, or into the *)
(* project's asset digest.                                               *)
ImportRefused(path) ==
    IF path.absolute THEN ~IsAllowedAbsolute(path.segments)
    ELSE path.segments[1] = "Assets"

(* `ForestPackages.Scope.Name`, in the form references are compared in. *)
RefKey(scope, name) == <<scope, Lower[name]>>

(* Mutant: the scopes are compared as they are written. *)
ScopesUnmapped(dependencies) ==
    {RefKey(Lower[d.scope], d.name) :
        d \in {k \in dependencies : k.scope # "" /\ k.name # ""}}

(* Dependency keys without a scope or a name are passed over. *)
DeclaredRefs(dependencies) ==
    {RefKey(MapScope[Lower[d.scope]], d.name) :
        d \in {k \in dependencies : k.scope # "" /\ k.name # ""}}

OwnRef(manifest) == RefKey(MapScope[Lower[manifest.author]], manifest.name)

ReferenceRefused(ref, manifest) ==
    LET key == RefKey(Lower[ref.scope], ref.name)
    IN  key = OwnRef(manifest) \/ key \notin DeclaredRefs(manifest.dependencies)

(* texts: what the scan finds in each .verse file.  errors: the files and  *)
(* matches that fail the package; warnings: nothing is exported.           *)
ValidateUefnPackage(texts, manifest) ==
    [errors |->
        {t \in texts :
            \/ \E path \in t.usings : ImportRefused(path)
            \/ \E segments \in t.qualifiers : ~IsAllowedAbsolute(segments)
            \/ \E ref \in t.references : ReferenceRefused(ref, manifest)},
     warnings |-> texts # {} /\ \A t \in texts : ~t.public]
=============================================================================
