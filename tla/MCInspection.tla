---------------------------- MODULE MCInspection ----------------------------
(***************************************************************************)
(* Instances of Inspection for TLC.  Sizes are small numbers: a file of    *)
(* size 4 is as large as a file may be, an archive of 5 as large as an     *)
(* archive may be, a captured .verse may have 3 and a license 2.           *)
(***************************************************************************)
EXTENDS Inspection, TLC

Name(path, kind) == [path |-> path, kind |-> kind, trailingSlash |-> FALSE]

License == Name("LICENSE", "license")
LicenseMd == Name("LICENSE.md", "license")
MainVerse == Name("main.verse", "verse")
OtherVerse == Name("other.verse", "verse")
SlashVerse == [Name("other.verse/", "verse") EXCEPT !.trailingSlash = TRUE]
Digest == Name("p.digest.verse", "digest")
Readme == Name("README.md", "document")
Init_luau == Name("init.luau", "luau")
Server == Name("x.server.luau", "runtimeScript")
Model == Name("m.rbxm", "model")
XmlModel == Name("m.rbxmx", "xmlModel")

MCNames == {License, LicenseMd, MainVerse, OtherVerse, SlashVerse, Digest, Readme,
            Init_luau, Server, Model, XmlModel}
MCLicenseNames == {License, LicenseMd}

MCEntry(name, type, content) ==
    [name |-> name, type |-> type, safePath |-> TRUE, size |-> Total(content),
     pieces |-> content]

File(name, content) == MCEntry(name, "file", content)

LicenseEntries ==
    {File(License, <<1, 1>>), File(License, <<1, 2, 1>>), File(LicenseMd, <<1>>),
     MCEntry(License, "directory", <<>>)}

UefnEntries ==
    LicenseEntries \cup
    {File(MainVerse, <<1, 2>>), File(MainVerse, <<1>>), File(MainVerse, <<2, 2, 0>>),
     File(OtherVerse, <<2>>), File(OtherVerse, <<1>>), File(OtherVerse, <<3>>),
     File(OtherVerse, <<1, 1>>), File(OtherVerse, <<2, 1>>), File(OtherVerse, <<0, 1>>),
     File(Readme, <<2>>), File(Readme, <<5>>),
     File(Digest, <<1>>), MCEntry(OtherVerse, "symlink", <<>>),
     MCEntry(OtherVerse, "undefined", <<2>>), MCEntry(OtherVerse, "undefined", <<1>>),
     File(SlashVerse, <<2>>), MCEntry(SlashVerse, "directory", <<>>),
     MCEntry(OtherVerse, "directory", <<>>),
     [File(Readme, <<1>>) EXCEPT !.safePath = FALSE]}

RobloxEntries ==
    {File(License, <<1, 1>>), File(Init_luau, <<2>>), File(Init_luau, <<1>>), File(Server, <<1>>),
     File(Model, <<1>>), File(Model, <<2>>), File(Model, <<1, 1>>), File(Model, <<2, 1>>),
     MCEntry(Init_luau, "undefined", <<2>>), MCEntry(Model, "undefined", <<2>>),
     MCEntry(Model, "symlink", <<>>), MCEntry(Model, "directory", <<>>), File(XmlModel, <<1>>)}

(* Entries of which three get through, and four are too many. *)
LongUefn == {File(License, <<1, 1>>), File(LicenseMd, <<1>>), File(MainVerse, <<1>>)}
LongRoblox == {File(Init_luau, <<1>>), File(Model, <<1>>)}

(* A text that exports, under Epic's root, and needs what is declared; one   *)
(* that exports nothing; and one for each thing that fails a package.        *)
CleanText ==
    [public |-> TRUE, usings |-> {[absolute |-> TRUE, segments |-> <<"Verse.org", "Random">>]},
     qualifiers |-> {}, references |-> {[scope |-> "Cool_Studio", name |-> "MathUtil"]}]
SilentText == [public |-> FALSE, usings |-> {}, qualifiers |-> {}, references |-> {}]
Using(absolute, segments) ==
    [SilentText EXCEPT !.usings = {[absolute |-> absolute, segments |-> segments]}]
Referring(scope, name) ==
    [SilentText EXCEPT !.references = {[scope |-> scope, name |-> name]}]

MCVerseOf ==
    (<<1, 2>> :> CleanText) @@ (<<2, 2, 0>> :> CleanText) @@ (<<1>> :> SilentText)
        @@ (<<>> :> SilentText)
        @@ (<<2>> :> Referring("Cool_Studio", "Tools"))
        @@ (<<3>> :> Referring("Cool_Studio", "Other"))
        @@ (<<1, 1>> :> Using(TRUE, <<"me@project.com", "Tools">>))
        @@ (<<2, 1>> :> Using(FALSE, <<"Assets", "Icon">>))
        @@ (<<0, 1>> :> [SilentText EXCEPT !.qualifiers = {<<"Verse.organics">>}])

MCModelOf ==
    (<<1>> :> "clean") @@ (<<2>> :> "refused") @@ (<<1, 1>> :> "unparsable")
        @@ (<<>> :> "unparsable")
        @@ (<<2, 1>> :> "unexpected")

MCLower ==
    ("Cool_Studio" :> "cool_studio") @@ ("cool-studio" :> "cool-studio")
        @@ ("MathUtil" :> "mathutil") @@ ("Other" :> "other") @@ ("Tools" :> "tools")

MCMapScope == ("cool-studio" :> "cool_studio")

MCEpicRoots == {<<"Verse.org">>, <<"Fortnite.com">>}

Manifest == [author |-> "cool-studio", name |-> "Tools",
             dependencies |-> {[scope |-> "cool-studio", name |-> "MathUtil"],
                               [scope |-> "", name |-> "MathUtil"]}]

ArchivesOf(platform, entries) ==
    [platform : {platform}, manifest : {Manifest}, entries : entries, intact : BOOLEAN]

MCArchives ==
    ArchivesOf("uefn", SeqOf(UefnEntries, 2) \cup [1..3 -> LongUefn]
                            \cup [1..4 -> {File(MainVerse, <<1>>)}])
        \cup ArchivesOf("roblox", SeqOf(RobloxEntries, 2) \cup [1..3 -> LongRoblox]
                              \cup [1..4 -> LongRoblox])

(* The archives of the findings: a directory before the license, a source  *)
(* whose name ends with a slash, and one shipped once and counted twice.   *)
LicenseArchives == ArchivesOf("uefn", [1..2 -> LicenseEntries])
VerseArchives == ArchivesOf("uefn", SeqOf({File(License, <<1, 1>>), File(MainVerse, <<1>>),
                                           File(SlashVerse, <<2>>)}, 2))
CodeArchives == ArchivesOf("roblox", [1..3 -> LongRoblox])

MCSources == {<<"c1", "c2">>}
=============================================================================
