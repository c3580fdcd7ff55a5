---------------------------- MODULE TailcatDERP -----------------------------
(***************************************************************************)
(* The DERP transport: the handshake of one server and its clients         *)
(* (Tailcat), in which a client that needs the DERP map gets it or not,    *)
(* and where maps come from: the cache that the processes of a machine     *)
(* share (DERPMapCache).  They share no state, so a behaviour is one of    *)
(* the part chosen at the start.                                           *)
(***************************************************************************)
EXTENDS Tailcat, DERPMapCache

VARIABLE part    \* "handshake" or "map"

derpVars == <<part, vars, cacheVars>>

DERPInit == part \in {"handshake", "map"} /\ Init /\ CacheInit

Handshake(A) == part = "handshake" /\ A /\ UNCHANGED <<part, cacheVars>>
Map(A) == part = "map" /\ A /\ UNCHANGED <<part, vars>>

DERPNext == Handshake(Next) \/ Map(CacheNext)

\* The fairness of the handshake is Tailcat's; nothing is claimed of the cache.
DERPSpec == DERPInit /\ [][DERPNext]_derpVars /\ (part = "map" \/ Fairness)
=============================================================================
