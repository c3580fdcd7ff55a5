-------------------------- MODULE MCMasqueH2Server --------------------------
(* An instance of MasqueH2Server for TLC; liveness is checked, so no        *)
(* symmetry.                                                                *)
EXTENDS MasqueH2Server
=============================================================================
