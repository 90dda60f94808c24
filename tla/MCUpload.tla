------------------------------ MODULE MCUpload ------------------------------
(***************************************************************************)
(* Instance of UploadParse for TLC: every body of up to three parts out of *)
(* fourteen, and those of five that begin with what lets a file in; a file *)
(* may have a size of 3.                                                   *)
(***************************************************************************)
EXTENDS UploadParse

Field(name, value) == [type |-> "field", fieldname |-> name, value |-> value]
File(chunks_) == [type |-> "file", chunks |-> chunks_]

ForestJson(platform, root, packagesDir) ==
    Field("forestJson", [wellFormed |-> TRUE, platform |-> platform, root |-> root,
                         packagesDir |-> packagesDir, author |-> "studio"])
Metadata(wellFormed, public) ==
    Field("metadata", [wellFormed |-> wellFormed, public |-> public])

MCParts ==
    {ForestJson("roblox", TRUE, TRUE), ForestJson("roblox", FALSE, FALSE),
     ForestJson("uefn", FALSE, FALSE), ForestJson("uefn", FALSE, TRUE),
     ForestJson("undefined", TRUE, FALSE), ForestJson("other", TRUE, FALSE),
     Metadata(TRUE, "public"), Metadata(TRUE, "undefined"), Metadata(FALSE, "public"),
     Field("other", [wellFormed |-> TRUE]), Field("other", [wellFormed |-> FALSE]),
     File(<<>>), File(<<2, 1>>), File(<<2, 2, 1>>)}

(* All bodies up to three parts; longer ones begin with what lets a file in. *)
MCBodies ==
    [sizeHeader : {"fits"}, parts : SeqOf(MCParts, 3)]
        \cup [sizeHeader : {"missing", "garbled", "exceeds"}, parts : SeqOf(MCParts, 1)]
        \cup [sizeHeader : {"fits"},
              parts : {<<Metadata(TRUE, "public"), f>> \o s :
                        f \in {ForestJson("roblox", TRUE, TRUE), ForestJson("uefn", FALSE, FALSE)},
                        s \in [1..3 -> MCParts]}]
=============================================================================
