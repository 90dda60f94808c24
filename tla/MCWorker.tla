------------------------------ MODULE MCWorker ------------------------------
(***************************************************************************)
(* Instance of Worker for TLC: one request for each route, over a          *)
(* container that may stop and start any number of times.                  *)
(***************************************************************************)
EXTENDS Worker, TLC

CONSTANTS r1, r2, r3

MCRouteOf == (r1 :> "upload") @@ (r2 :> "access") @@ (r3 :> "mirror")
=============================================================================
