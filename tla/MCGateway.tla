------------------------------ MODULE MCGateway ------------------------------
(***************************************************************************)
(* Instance of Gateway for TLC: publishes and ingests of the same bytes.   *)
(***************************************************************************)
EXTENDS Gateway, TLC

CONSTANTS r1, r2, m1, m2, b1, b2, h1, h2, mine

MCHashOf == (b1 :> h1) @@ (b2 :> h2)
MCScopeOf == [p \in Packages |-> "studio"]

Upload(blob, public) ==
    [pkg |-> mine, version |-> "1.0.0", blob |-> blob, public |-> public, dependencies |-> {}]

MCUploads == {Upload(b1, "public"), Upload(b1, "private"), Upload(b2, "undefined")}

Ingest(authorized, wellFormed, claimed, body) ==
    [authorized |-> authorized, wellFormed |-> wellFormed, claimed |-> claimed, body |-> body]

(* A correct push, one that claims another hash, one without the secret, *)
(* and one with a malformed hash or an empty body.                       *)
MCIngests ==
    {Ingest(TRUE, TRUE, h1, b1), Ingest(TRUE, TRUE, h1, b2), Ingest(FALSE, TRUE, h1, b1),
     Ingest(TRUE, FALSE, h1, b1)}

MCCallers ==
    {[authenticated |-> TRUE, membershipLevel |-> 2, hasWriteGrant |-> FALSE,
      blocked |-> FALSE, retryAfterSeconds |-> 0]}
=============================================================================
