--------------------------- MODULE MCMasqueClient ---------------------------
(* An instance of MasqueClients for TLC; liveness is checked, so no symmetry.   *)
EXTENDS MasqueClients
=============================================================================
