--------------------------- MODULE MCMasqueRelay ---------------------------
(* Small instances of MasqueRelay.  Keys are interchangeable and so are      *)
(* sessions, which symmetry uses in the safety run.                          *)
EXTENDS MasqueRelay, TLC

MCSymmetry == Permutations(Sessions) \cup Permutations(Keys)
=============================================================================
