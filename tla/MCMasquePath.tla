---------------------------- MODULE MCMasquePath ----------------------------
(* An instance of MasquePath for TLC; liveness is checked, so no symmetry.    *)
EXTENDS MasquePath
=============================================================================
