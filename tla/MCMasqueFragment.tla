-------------------------- MODULE MCMasqueFragment --------------------------
(* An instance of MasqueFragment for TLC: packets of two and three chunks, *)
(* full and partly filled last chunks, one identifier shared by two        *)
(* sources and one used twice by the same source, and packets that are     *)
(* sent whole or not at all.                                               *)
EXTENDS MasqueFragment, TLC

MCSymmetry == Permutations(Handlers)

MCPackets ==
  {[src |-> "a", id |-> 1, len |-> 5, tag |-> 1],
   [src |-> "b", id |-> 1, len |-> 3, tag |-> 2],
   [src |-> "a", id |-> 2, len |-> 4, tag |-> 3],
   [src |-> "a", id |-> 2, len |-> 3, tag |-> 4],
   [src |-> "b", id |-> 2, len |-> 2, tag |-> 5],
   [src |-> "b", id |-> 3, len |-> 6, tag |-> 6],
   [src |-> "c", id |-> 1, len |-> 3, tag |-> 7]}
=============================================================================
