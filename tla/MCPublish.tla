------------------------------ MODULE MCPublish ------------------------------
(***************************************************************************)
(* Instances of Publish for TLC.                                           *)
(***************************************************************************)
EXTENDS Publish, TLC

CONSTANTS r1, r2, r3, b1, b2, bad, h1, h2, hBad, mine, mine2, other

MCBlobs == {b1, b2, bad}
MCHashOf == (b1 :> h1) @@ (b2 :> h2) @@ (bad :> hBad)

(* Two packages of one Studio and one of another. *)
MCScopeOf == [p \in Packages |-> IF p = other THEN "otherStudio" ELSE "studio"]

Upload(pkg, blob, public, dependencies) ==
    [pkg |-> pkg, version |-> "1.0.0", blob |-> blob, public |-> public,
     dependencies |-> dependencies]

(* One version of one package: two tarballs with opposite flags, a client   *)
(* that leaves visibility unset, and a tarball that does not validate.      *)
RaceUploads ==
    {Upload(mine, b1, "public", {}), Upload(mine, b2, "private", {}),
     Upload(mine, b1, "undefined", {}), Upload(mine, bad, "public", {})}

(* A chain of dependencies that can end in another Studio's package. *)
TreeUploads ==
    {Upload(mine, b1, public, {mine2}) : public \in {"public", "private"}}
        \cup {Upload(mine2, b2, public, {other}) : public \in {"undefined", "public"}}
        \cup {Upload(other, b2, "private", {})}

Caller(level, grant) ==
    [authenticated |-> TRUE, membershipLevel |-> level, hasWriteGrant |-> grant,
     blocked |-> FALSE, retryAfterSeconds |-> 0]

Admin == Caller(2, FALSE)
Writer == Caller(1, TRUE)
Reader == Caller(1, FALSE)
Stranger == Caller(0, FALSE)
LoggedOut == [Stranger EXCEPT !.authenticated = FALSE]
CoolingDown(c) == [c EXCEPT !.blocked = TRUE, !.retryAfterSeconds = 30]
OverLimit(c) == [c EXCEPT !.blocked = TRUE]

AdminOnly == {Admin}
RaceCallers == {Admin, Writer}

(* An admin, and every way a caller can be turned away. *)
RulesCallers == {Admin, Reader, Stranger, LoggedOut, CoolingDown(Admin),
                 CoolingDown(Reader), OverLimit(Writer), OverLimit(Stranger)}

(* Requests are interchangeable: no action or property names one. *)
RequestSymmetry == Permutations(Requests)
=============================================================================
