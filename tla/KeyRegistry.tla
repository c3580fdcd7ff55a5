---------------------------- MODULE KeyRegistry ----------------------------
(***************************************************************************)
(* What a MasqueCat relay promises about node keys, with no handler, no    *)
(* carrier and no authentication: a key has at most one owner, an owner is *)
(* never replaced while it holds the key, only an owner may send, and a     *)
(* datagram for a key may only be routed to the session that owned that    *)
(* key when the route was chosen.                                          *)
(* MasqueRelay is shown to implement this specification.                   *)
(***************************************************************************)
CONSTANTS Keys, Sessions, None

VARIABLES
  owner,   \* owner[k]: the session that datagrams for k are routed to, or None
  route    \* route[s]: the session s is about to forward a datagram to, or None

absVars == <<owner, route>>

AbsInit ==
  /\ owner = [k \in Keys |-> None]
  /\ route = [s \in Sessions |-> None]

\* A free key gets an owner.
Claim(k, s) ==
  /\ owner[k] = None
  /\ owner' = [owner EXCEPT ![k] = s]
  /\ UNCHANGED route

\* Only the end of the owner's own session frees the key.
Release(k) ==
  /\ owner[k] # None
  /\ owner' = [owner EXCEPT ![k] = None]
  /\ UNCHANGED route

\* A session that owns a key and has a datagram for k picks k's owner.
Choose(k, s) ==
  /\ route[s] = None
  /\ \E j \in Keys : owner[j] = s
  /\ owner[k] # None
  /\ route' = [route EXCEPT ![s] = owner[k]]
  /\ UNCHANGED owner

\* It hands the datagram over, whatever became of the owner meanwhile.
HandOver(s) ==
  /\ route[s] # None
  /\ route' = [route EXCEPT ![s] = None]
  /\ UNCHANGED owner

AbsNext ==
  \/ \E k \in Keys, s \in Sessions : Claim(k, s) \/ Choose(k, s)
  \/ \E k \in Keys : Release(k)
  \/ \E s \in Sessions : HandOver(s)

AbsSpec == AbsInit /\ [][AbsNext]_absVars
=============================================================================
