---------------------------- MODULE MCMasqueCore ----------------------------
(* An instance of MasqueCore for TLC.                                       *)
EXTENDS MasqueCore
=============================================================================
