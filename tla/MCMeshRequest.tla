--------------------------- MODULE MCMeshRequest ---------------------------
(* MeshRequest with one ordinary peer that the configuration file knows by  *)
(* address and proxy, and one cloud peer.                                   *)
EXTENDS MeshRequest

MCStatic == [p \in Peers |-> IF p \in Cloud THEN {"direct"} ELSE {"direct", "proxy"}]
=============================================================================
