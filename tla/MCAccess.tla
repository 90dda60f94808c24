------------------------------ MODULE MCAccess -------------------------------
(***************************************************************************)
(* Instance of Access for TLC.                                             *)
(***************************************************************************)
EXTENDS Access, TLC

CONSTANTS r1, r2

(* A stranger, a plain member, an admin, a grant holder and the owner. *)
MCRelations ==
    {NoRelation,
     [NoRelation EXCEPT !.membershipRank = "member"],
     [NoRelation EXCEPT !.membershipRank = "admin"],
     [NoRelation EXCEPT !.hasPackageAccessGrant = TRUE],
     [NoRelation EXCEPT !.isOwnerMatch = TRUE]}

RequestSymmetry == Permutations(Requests)
=============================================================================
