---------------------------- MODULE MCMasqueAuth ----------------------------
(* A small instance of MasqueAuth: handlers, keys, addresses and nonces are  *)
(* interchangeable.                                                          *)
EXTENDS MasqueAuth, TLC

MCSymmetry == Permutations(Handlers) \cup Permutations(Keys)
              \cup Permutations(Addrs) \cup Permutations(Tokens)
=============================================================================
