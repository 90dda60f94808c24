----------------------------- MODULE TarEntries -----------------------------
(***************************************************************************)
(* The entry types tar-stream reports, as far as the code tells them apart.*)
(***************************************************************************)

(* "undefined": tar-stream knows no name for the type, and the code turns *)
(* its null into undefined.  "symlink" stands for every other named type. *)
Types == {"file", "directory", "symlink", "undefined"}

(* The types the rules for names treat as a regular file. *)
RegularTypes == {"file", "undefined"}
=============================================================================
