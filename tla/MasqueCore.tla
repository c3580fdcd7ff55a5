----------------------------- MODULE MasqueCore -----------------------------
(***************************************************************************)
(* The peers and return paths of a server's core (masqueCore, masqueBind), *)
(* used by the handler of direct sessions (masquecat_direct.go) and by the *)
(* receive loop of the relay path (MasqueServer.Start).                    *)
(*                                                                         *)
(* A session is one run of directMasqueCoreHandler; its streamForwarder is *)
(* identified with it.  A step is one critical section of core.mu (bind.mu *)
(* and allowMu are only taken inside it or alone), of the reservations, or *)
(* one call on a carrier.                                                  *)
(***************************************************************************)
EXTENDS Integers

CONSTANTS
  Peers,     \* node keys of clients
  Sessions,  \* runs of the direct handler
  QueueSize, \* masqueCoreQueueSize
  Relay,     \* the server's relay masquePath, as a forwarder
  None

ASSUME CoreAssumption ==
  /\ None \notin Sessions \cup Peers \cup {Relay} /\ Relay \notin Sessions
  /\ QueueSize \in Nat \ {0}

VARIABLES
  up,      \* the WireGuard device and its bind are open
  listed,  \* core.allowedClients is not nil
  allow,   \* its keys
  peers,   \* core.peers
  paths,   \* bind.paths
  resv,    \* directMasqueReservations.peers
  pc,      \* where a session's handler is
  skey,    \* the key it authenticated
  rloc,    \* where the relay receive loop is
  rsrc,    \* the source of the packet it is handling
  queue,   \* how many packets are in bind.recv
  reader   \* WireGuard's receive routine runs

vars == <<up, listed, allow, peers, paths, resv, pc, skey, rloc, rsrc, queue, reader>>

PCs == {"idle", "authorized", "allowed", "reserved", "accepted", "loop", "inject",
        "queue", "send", "removing", "closing", "releasing", "done"}
\* Between reserve and release; between SetPath and RemovePath.
Holding == {"reserved", "accepted", "loop", "inject", "queue", "send", "removing", "closing",
            "releasing"}
Serving == {"loop", "inject", "queue", "send", "removing"}

TypeOK ==
  /\ up \in BOOLEAN /\ listed \in BOOLEAN /\ allow \in SUBSET Peers
  /\ peers \in SUBSET Peers /\ resv \in SUBSET Peers
  /\ paths \in [Peers -> Sessions \cup {Relay, None}]
  /\ pc \in [Sessions -> PCs]
  /\ skey \in [Sessions -> Peers \cup {None}]
  /\ \A s \in Sessions : pc[s] \notin {"idle", "done"} => skey[s] \in Peers
  /\ rloc \in {"read", "inject", "queue", "send", "exit"}
  /\ rsrc \in Peers \cup {None}
  /\ rloc \in {"inject", "queue", "send"} => rsrc \in Peers
  /\ queue \in 0..QueueSize /\ reader \in BOOLEAN

\* AllowedClients may be given at start; an empty list admits everyone.
Init ==
  /\ up = TRUE
  /\ allow \in SUBSET Peers /\ listed = (allow # {})
  /\ peers = {} /\ resv = {}
  /\ paths = [p \in Peers |-> None]
  /\ pc = [s \in Sessions |-> "idle"]
  /\ skey = [s \in Sessions |-> None]
  /\ rloc = "read" /\ rsrc = None
  /\ queue = 0 /\ reader = TRUE

-----------------------------------------------------------------------------
PeerAllowed(p) == ~listed \/ p \in allow

\* Mutant: addPeerLocked trusts the check made before the session was accepted.
CanAddUnchecked(p) == p \in peers \/ up

\* addPeerLocked: a known peer is fine; a new one must be allowed now, and a
\* closed WireGuard device takes no new peers.
CanAdd(p) == p \in peers \/ (PeerAllowed(p) /\ up)

Goto(s, l) == pc' = [pc EXCEPT ![s] = l]

\* A request passed every check up to and including authorize.
Authorize(s, p) ==
  /\ pc[s] = "idle"
  /\ skey' = [skey EXCEPT ![s] = p]
  /\ Goto(s, "authorized")
  /\ UNCHANGED <<up, listed, allow, peers, paths, resv, rloc, rsrc, queue, reader>>

\* It is answered with an error instead.
Refuse(s) ==
  /\ pc[s] = "idle" /\ Goto(s, "done")
  /\ UNCHANGED <<up, listed, allow, peers, paths, resv, skey, rloc, rsrc, queue, reader>>

\* peerAllowed, or 403.
Admit(s) ==
  /\ pc[s] = "authorized"
  /\ Goto(s, IF PeerAllowed(skey[s]) THEN "allowed" ELSE "done")
  /\ UNCHANGED <<up, listed, allow, peers, paths, resv, skey, rloc, rsrc, queue, reader>>

\* Mutant: the second session for a key is let in.
ReserveAlways(s) ==
  /\ pc[s] = "allowed"
  /\ resv' = resv \cup {skey[s]} /\ Goto(s, "reserved")
  /\ UNCHANGED <<up, listed, allow, peers, paths, skey, rloc, rsrc, queue, reader>>

\* reservations.reserve, or 409.
Reserve(s) ==
  /\ pc[s] = "allowed"
  /\ resv' = resv \cup {skey[s]}
  /\ Goto(s, IF skey[s] \in resv THEN "done" ELSE "reserved")
  /\ UNCHANGED <<up, listed, allow, peers, paths, skey, rloc, rsrc, queue, reader>>

\* acceptMasqueAnyStream; on an error only the release is left.
Accept(s) ==
  /\ pc[s] = "reserved"
  /\ \E ok \in BOOLEAN : Goto(s, IF ok THEN "accepted" ELSE "releasing")
  /\ UNCHANGED <<up, listed, allow, peers, paths, resv, skey, rloc, rsrc, queue, reader>>

\* core.SetPath with the session's forwarder.
SetPath(s) ==
  /\ pc[s] = "accepted"
  /\ IF CanAdd(skey[s])
     THEN /\ peers' = peers \cup {skey[s]}
          /\ paths' = [paths EXCEPT ![skey[s]] = s]
          /\ Goto(s, "loop")
     ELSE Goto(s, "closing") /\ UNCHANGED <<peers, paths>>
  /\ UNCHANGED <<up, listed, allow, resv, skey, rloc, rsrc, queue, reader>>

\* A datagram with the session's own source arrives (others are dropped).
Receive(s) ==
  /\ pc[s] = "loop" /\ Goto(s, "inject")
  /\ UNCHANGED <<up, listed, allow, peers, paths, resv, skey, rloc, rsrc, queue, reader>>

\* core.Inject, first AddPeer ...
InjectPeer(s) ==
  /\ pc[s] = "inject"
  /\ IF CanAdd(skey[s])
     THEN peers' = peers \cup {skey[s]} /\ Goto(s, "queue")
     ELSE Goto(s, "removing") /\ UNCHANGED peers
  /\ UNCHANGED <<up, listed, allow, paths, resv, skey, rloc, rsrc, queue, reader>>

\* ... then bind.Inject, which fails on a closed bind, reads its two channels
\* and pushes the packet: a fragment of an incomplete one is all.
InjectQueue(s) ==
  /\ pc[s] = "queue"
  /\ \E ready \in BOOLEAN :
       Goto(s, IF ~up THEN "removing" ELSE IF ready THEN "send" ELSE "loop")
  /\ UNCHANGED <<up, listed, allow, peers, paths, resv, skey, rloc, rsrc, queue, reader>>

\* The select of Inject has a case that is ready; ok is the one it takes.
Queued(ok) ==
  \/ ok /\ queue < QueueSize /\ queue' = queue + 1
  \/ ~ok /\ ~up /\ UNCHANGED queue

InjectSend(s) ==
  /\ pc[s] = "send"
  /\ \E ok \in BOOLEAN : Queued(ok) /\ Goto(s, IF ok THEN "loop" ELSE "removing")
  /\ UNCHANGED <<up, listed, allow, peers, paths, resv, skey, rloc, rsrc, reader>>

\* Receiving fails: the carrier is gone.
Leave(s) ==
  /\ pc[s] = "loop" /\ Goto(s, "removing")
  /\ UNCHANGED <<up, listed, allow, peers, paths, resv, skey, rloc, rsrc, queue, reader>>

\* Mutant: the peer is removed whoever's path is installed.
RemovePathAny(s) ==
  /\ pc[s] = "removing"
  /\ paths' = [paths EXCEPT ![skey[s]] = IF @ = s THEN None ELSE @]
  /\ peers' = peers \ {skey[s]}
  /\ Goto(s, "closing")
  /\ UNCHANGED <<up, listed, allow, resv, skey, rloc, rsrc, queue, reader>>

\* Mutant: the path is left to be replaced by the next session.
RemovePathKeeps(s) ==
  /\ pc[s] = "removing" /\ Goto(s, "closing")
  /\ UNCHANGED <<up, listed, allow, peers, paths, resv, skey, rloc, rsrc, queue, reader>>

\* Deferred core.RemovePath: the peer goes with its path, if it is this one; if
\* WireGuard refuses (as it does once closed), the path goes and the peer stays.
RemovePath(s) ==
  /\ pc[s] = "removing"
  /\ IF paths[skey[s]] = s
     THEN /\ paths' = [paths EXCEPT ![skey[s]] = None]
          /\ peers' = peers \ {skey[s]} \/ UNCHANGED peers
     ELSE UNCHANGED <<paths, peers>>
  /\ Goto(s, "closing")
  /\ UNCHANGED <<up, listed, allow, resv, skey, rloc, rsrc, queue, reader>>

\* Deferred str.Close.
CloseStream(s) ==
  /\ pc[s] = "closing" /\ Goto(s, "releasing")
  /\ UNCHANGED <<up, listed, allow, peers, paths, resv, skey, rloc, rsrc, queue, reader>>

\* Deferred reservations.release.
Release(s) ==
  /\ pc[s] = "releasing" /\ Goto(s, "done")
  /\ resv' = resv \ {skey[s]}
  /\ UNCHANGED <<up, listed, allow, peers, paths, skey, rloc, rsrc, queue, reader>>

-----------------------------------------------------------------------------
\* The relay loop's onPacket: core.SetPath for the source of every packet; a
\* packet of a peer that SetPath refuses is dropped.
RelayPacket(p) ==
  /\ rloc = "read" /\ CanAdd(p)
  /\ peers' = peers \cup {p}
  /\ paths' = [paths EXCEPT ![p] = Relay]
  /\ rloc' = "inject" /\ rsrc' = p
  /\ UNCHANGED <<up, listed, allow, resv, pc, skey, queue, reader>>

\* Then core.Inject, whose error ends the loop: AddPeer ...
RelayInject ==
  /\ rloc = "inject"
  /\ IF CanAdd(rsrc)
     THEN peers' = peers \cup {rsrc} /\ rloc' = "queue" /\ UNCHANGED rsrc
     ELSE rloc' = "exit" /\ rsrc' = None /\ UNCHANGED peers
  /\ UNCHANGED <<up, listed, allow, paths, resv, pc, skey, queue, reader>>

\* ... and bind.Inject.
RelayQueue ==
  /\ rloc = "queue"
  /\ \E ready \in BOOLEAN : rloc' = IF ~up THEN "exit" ELSE IF ready THEN "send" ELSE "read"
  /\ rsrc' = IF rloc' = "send" THEN rsrc ELSE None
  /\ UNCHANGED <<up, listed, allow, peers, paths, resv, pc, skey, queue, reader>>

\* Mutant: the select has no case for the closed channel.
RelaySendDeaf ==
  /\ rloc = "send" /\ Queued(TRUE) /\ rloc' = "read" /\ rsrc' = None
  /\ UNCHANGED <<up, listed, allow, peers, paths, resv, pc, skey, reader>>

RelaySend ==
  /\ rloc = "send"
  /\ \E ok \in BOOLEAN : Queued(ok) /\ rloc' = IF ok THEN "read" ELSE "exit"
  /\ rsrc' = None
  /\ UNCHANGED <<up, listed, allow, peers, paths, resv, pc, skey, reader>>

\* The function Open returned: WireGuard takes a packet, or learns that the
\* bind is closed and stops asking.
WGReceive ==
  /\ reader
  /\ \/ queue > 0 /\ queue' = queue - 1 /\ UNCHANGED reader
     \/ ~up /\ reader' = FALSE /\ UNCHANGED queue
  /\ UNCHANGED <<up, listed, allow, peers, paths, resv, pc, skey, rloc, rsrc>>

\* AddAllowedClient: the first call turns an open server into a listed one.
AddAllowedClient(p) ==
  /\ p \notin allow
  /\ listed' = TRUE /\ allow' = allow \cup {p}
  /\ UNCHANGED <<up, peers, paths, resv, pc, skey, rloc, rsrc, queue, reader>>

\* core.Close; sessions and the relay loop find out by themselves.
Close ==
  /\ up /\ up' = FALSE
  /\ UNCHANGED <<listed, allow, peers, paths, resv, pc, skey, rloc, rsrc, queue, reader>>

HandlerStep(s) ==
  \/ Admit(s) \/ Reserve(s) \/ Accept(s) \/ SetPath(s) \/ InjectPeer(s) \/ InjectQueue(s)
  \/ InjectSend(s) \/ RemovePath(s) \/ CloseStream(s) \/ Release(s)

RelayStep == RelayInject \/ RelayQueue \/ RelaySend

Finished == ~up /\ (\A s \in Sessions : pc[s] = "done") /\ UNCHANGED vars

Next ==
  \/ \E s \in Sessions :
       \/ \E p \in Peers : Authorize(s, p)
       \/ Refuse(s) \/ Receive(s) \/ Leave(s) \/ HandlerStep(s)
  \/ \E p \in Peers : RelayPacket(p) \/ AddAllowedClient(p)
  \/ RelayStep \/ WGReceive \/ Close \/ Finished

Spec == Init /\ [][Next]_vars

\* Handlers and the relay loop keep running; nobody owes them a packet, the end
\* of a carrier, or room in the queue.
Fairness == (\A s \in Sessions : WF_vars(HandlerStep(s))) /\ WF_vars(RelayStep)

LiveSpec == Spec /\ Fairness
-----------------------------------------------------------------------------
\* A path exists only for a peer that WireGuard knows.
PathHasPeer == \A p \in Peers : paths[p] # None => p \in peers

\* A path never leads to a session that is over, or to another peer's.
NoDanglingPath ==
  \A p \in Peers :
    paths[p] \in Sessions => skey[paths[p]] = p /\ pc[paths[p]] \in Serving

\* A session that is being served loses its path to no other session, only to
\* the relay.
KeepsPath == \A s \in Sessions : pc[s] \in Serving => paths[skey[s]] \in {s, Relay}

\* Return paths are sound, although sessions and the relay loop change paths and
\* peers independently, each with SetPath and RemovePath of its own.
ReturnPathsSound == PathHasPeer /\ NoDanglingPath /\ KeepsPath

\* A key has one direct session at a time, and it is reserved as long as and no
\* longer than that session lives.
ReservedByOne ==
  /\ \A s, t \in Sessions :
       pc[s] \in Holding /\ pc[t] \in Holding /\ skey[s] = skey[t] => s = t
  /\ \A p \in Peers : p \in resv <=> \E s \in Sessions : pc[s] \in Holding /\ skey[s] = p

\* A peer enters the core only while the allowlist admits it, also when the
\* list changed after the session passed peerAllowed.
AdmissionSound == [][\A p \in peers' \ peers : PeerAllowed(p)]_vars

\* "Existing peers are grandfathered" (masquecat_core.go): a peer leaves the
\* core only with the direct session that its return path leads to.
Grandfathered ==
  [][\A p \in peers \ peers' : paths[p] \in Sessions /\ pc[paths[p]] = "removing"]_vars

\* Close releases every session, and the relay loop, that waits in Inject for
\* room in the receive queue, although WireGuard no longer reads that queue.
CloseReleases ==
  ~up ~> rloc # "send" /\ \A s \in Sessions : pc[s] # "send"
=============================================================================
