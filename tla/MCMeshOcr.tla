----------------------------- MODULE MCMeshOcr -----------------------------
(***************************************************************************)
(* The instance of MeshOcr for TLC: the result of the quick input is twice *)
(* as large as the one of the slow input, so that both limits of the cache *)
(* of results are met.                                                     *)
(***************************************************************************)
EXTENDS MeshOcr

CONSTANTS quick, slow

MCWeight == (quick :> 2) @@ (slow :> 1)
=============================================================================
