-------------------------- MODULE MCMasqueH2Client --------------------------
(* Instances of MasqueH2Client for TLC: a capsule that fits into the window *)
(* and one that is larger than it.                                          *)
EXTENDS MasqueH2Client

MCSizes == <<1, 2>>

\* The stream window shrinks below what is under way, and grows again.  The
\* receiver sends a datagram of its own.
MCOther ==
  {[kind |-> "init", n |-> 1], [kind |-> "init", n |-> 3], [kind |-> "body", n |-> 1]}
=============================================================================
