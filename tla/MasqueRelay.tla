---------------------------- MODULE MasqueRelay ----------------------------
(***************************************************************************)
(* The relay's registry of node keys and the handlers that use it          *)
(* (masquecat_h3_server.go, masquecat_webtransport.go).                    *)
(*                                                                         *)
(* One session is one run of a request handler: Handler for CONNECT-UDP    *)
(* over HTTP/3 ("h3") or HTTP/2 ("h2"), serveBrowserWebTransport for a     *)
(* browser ("wt").  Its *relayPeer is identified with the session, so a    *)
(* session id is used once.  A step is one critical section of r.mu or one *)
(* call on a carrier; sessions interleave between steps.                   *)
(***************************************************************************)
EXTENDS Naturals, FiniteSets

CONSTANTS
  Keys,       \* node public keys
  Sessions,   \* handler runs
  None

ASSUME NoneAssumption == None \notin Sessions /\ None \notin Keys

VARIABLES
  peers,    \* MasqueRelay.peers: the session registered for a key, or None
  fwd,      \* the sessions whose relayPeer.fwd is set
  pc,       \* where the handler is
  skey,     \* the node key the session proved, relayPeer.key
  kind,     \* the session's carrier
  stream,   \* TRUE while SendDatagram on the session's carrier can succeed
  gone,     \* the client's end of the carrier is gone
  route,    \* source, destination and looked-up session of the datagram in hand
  sent      \* history: the last datagram handed to a carrier, until the next arrives

vars == <<peers, fwd, pc, skey, kind, stream, gone, route, sent>>

Kinds == {"h3", "h2", "wt"}
Datagrams == [from : Sessions, src : Keys, dst : Keys, to : Sessions]
NoDatagram == [from |-> None, src |-> None, dst |-> None, to |-> None]
NoRoute == [to |-> None, src |-> None, dst |-> None]
Routes == [to : Sessions, src : Keys, dst : Keys] \cup {NoRoute}

PCs == {"idle", "authorized", "reserved", "accepted", "announcing", "loop",
        "forward", "closing", "unregistering", "returning", "done"}

\* Where a handler holds a relayPeer that it must still unregister.
Holding == {"reserved", "accepted", "announcing", "loop", "forward",
            "closing", "unregistering"}

TypeOK ==
  /\ peers \in [Keys -> Sessions \cup {None}]
  /\ fwd \in SUBSET Sessions
  /\ pc \in [Sessions -> PCs]
  /\ skey \in [Sessions -> Keys \cup {None}]
  /\ kind \in [Sessions -> Kinds \cup {None}]
  /\ stream \in [Sessions -> BOOLEAN]
  /\ gone \in [Sessions -> BOOLEAN]
  /\ route \in [Sessions -> Routes]
  /\ sent \in Datagrams \cup {NoDatagram}

Init ==
  /\ peers = [k \in Keys |-> None]
  /\ fwd = {}
  /\ pc = [s \in Sessions |-> "idle"]
  /\ skey = [s \in Sessions |-> None]
  /\ kind = [s \in Sessions |-> None]
  /\ stream = [s \in Sessions |-> FALSE]
  /\ gone = [s \in Sessions |-> FALSE]
  /\ route = [s \in Sessions |-> NoRoute]
  /\ sent = NoDatagram

-----------------------------------------------------------------------------
\* lookup: a reserved peer without a forwarder is invisible.
Lookup(k) ==
  IF peers[k] \in fwd THEN peers[k] ELSE None

\* A request passes every check up to and including authorize (or, for a
\* browser, hello, challenge and proof on an upgraded session).
Arrive(s, k, c) ==
  /\ pc[s] = "idle"
  /\ pc' = [pc EXCEPT ![s] = "authorized"]
  /\ skey' = [skey EXCEPT ![s] = k]
  /\ kind' = [kind EXCEPT ![s] = c]
  /\ stream' = [stream EXCEPT ![s] = (c = "wt")]
  /\ UNCHANGED <<peers, fwd, gone, route, sent>>

\* A request that fails one of those checks is answered with an error.
Reject(s) ==
  /\ pc[s] = "idle"
  /\ pc' = [pc EXCEPT ![s] = "done"]
  /\ UNCHANGED <<peers, fwd, skey, kind, stream, gone, route, sent>>

\* Mutant: reserve replaces whoever is registered.
ReserveReplaces(s) ==
  /\ pc[s] = "authorized"
  /\ peers' = [peers EXCEPT ![skey[s]] = s]
  /\ pc' = [pc EXCEPT ![s] = "reserved"]
  /\ UNCHANGED <<fwd, skey, kind, stream, gone, route, sent>>

\* reserve, or 409 Conflict ("already registered" to a browser).
Reserve(s) ==
  /\ pc[s] = "authorized"
  /\ IF peers[skey[s]] = None
     THEN /\ peers' = [peers EXCEPT ![skey[s]] = s]
          /\ pc' = [pc EXCEPT ![s] = "reserved"]
     ELSE /\ pc' = [pc EXCEPT ![s] = "returning"]
          /\ UNCHANGED peers
  /\ UNCHANGED <<fwd, skey, kind, stream, gone, route, sent>>

\* acceptMasqueAnyStream: the 200 goes out and the stream is usable.
Accept(s) ==
  /\ pc[s] = "reserved" /\ kind[s] \in {"h3", "h2"}
  /\ pc' = [pc EXCEPT ![s] = "accepted"]
  /\ stream' = [stream EXCEPT ![s] = TRUE]
  /\ UNCHANGED <<peers, fwd, skey, kind, gone, route, sent>>

\* Mutant: the error path returns before unregister is deferred.
AcceptFailKeepsKey(s) ==
  /\ pc[s] = "reserved" /\ kind[s] \in {"h3", "h2"}
  /\ pc' = [pc EXCEPT ![s] = "returning"]
  /\ UNCHANGED <<peers, fwd, skey, kind, stream, gone, route, sent>>

\* It fails: only the deferred unregister is left to run.
AcceptFail(s) ==
  /\ pc[s] = "reserved" /\ kind[s] \in {"h3", "h2"}
  /\ pc' = [pc EXCEPT ![s] = "unregistering"]
  /\ UNCHANGED <<peers, fwd, skey, kind, stream, gone, route, sent>>

\* Mutant: the key is given back before the stream is closed.
FirstDeferUnregisters(s) == "unregistering"

\* The first deferred call to run: str.Close for CONNECT-UDP, unregister for a
\* browser session (defers run last in, first out).
FirstDefer(s) == IF kind[s] = "wt" THEN "unregistering" ELSE "closing"

\* activate publishes the forwarder of a peer that is still reserved.
Activate(s) ==
  /\ pc[s] = IF kind[s] = "wt" THEN "reserved" ELSE "accepted"
  /\ LET ok == peers[skey[s]] = s /\ s \notin fwd IN
       /\ fwd' = IF ok THEN fwd \cup {s} ELSE fwd
       /\ pc' = [pc EXCEPT ![s] = IF ~ok THEN FirstDefer(s)
                                  ELSE IF kind[s] = "wt" THEN "announcing"
                                  ELSE "loop"]
  /\ UNCHANGED <<peers, skey, kind, stream, gone, route, sent>>

\* A browser is told "ready" only now; the write may fail.
Announce(s) ==
  /\ pc[s] = "announcing"
  /\ \E ok \in BOOLEAN :
       pc' = [pc EXCEPT ![s] = IF ok THEN "loop" ELSE FirstDefer(s)]
  /\ UNCHANGED <<peers, fwd, skey, kind, stream, gone, route, sent>>

\* Mutant: the source of a datagram is not compared with the session's key.
ReceiveAnySource(s, src, k) ==
  /\ pc[s] = "loop" /\ ~gone[s]
  /\ Lookup(k) # None
  /\ route' = [route EXCEPT ![s] = [to |-> Lookup(k), src |-> src, dst |-> k]]
  /\ pc' = [pc EXCEPT ![s] = "forward"]
  /\ sent' = NoDatagram
  /\ UNCHANGED <<peers, fwd, skey, kind, stream, gone>>

\* A datagram with source src for key k arrives.  One that is malformed, has
\* another source than the session's key, or has no route is dropped.
Receive(s, src, k) ==
  /\ pc[s] = "loop" /\ ~gone[s]
  /\ LET d == IF src = skey[s] THEN Lookup(k) ELSE None IN
       /\ d # None
       /\ route' = [route EXCEPT ![s] = [to |-> d, src |-> src, dst |-> k]]
       /\ pc' = [pc EXCEPT ![s] = "forward"]
  /\ sent' = NoDatagram
  /\ UNCHANGED <<peers, fwd, skey, kind, stream, gone>>

\* dst.fwd.ForwardPacket, without r.mu: an error is logged and forgotten.
Forward(s) ==
  /\ pc[s] = "forward"
  /\ pc' = [pc EXCEPT ![s] = "loop"]
  /\ route' = [route EXCEPT ![s] = NoRoute]
  /\ \/ /\ stream[route[s].to]
        /\ sent' = [from |-> s, src |-> route[s].src,
                    dst |-> route[s].dst, to |-> route[s].to]
     \/ UNCHANGED sent
  /\ UNCHANGED <<peers, fwd, skey, kind, stream, gone>>

\* The client, its process or its network goes away.  Until the loop no step
\* of the handler depends on it, so an earlier loss is modelled here too.
Disconnect(s) ==
  /\ pc[s] \in {"loop", "forward"} /\ ~gone[s]
  /\ gone' = [gone EXCEPT ![s] = TRUE]
  /\ UNCHANGED <<peers, fwd, pc, skey, kind, stream, route, sent>>

\* Receiving fails: the carrier timed out, was reset, or broke its framing.
ExitLoop(s) ==
  /\ pc[s] = "loop"
  /\ pc' = [pc EXCEPT ![s] = FirstDefer(s)]
  /\ gone' = [gone EXCEPT ![s] = TRUE]
  /\ UNCHANGED <<peers, fwd, skey, kind, stream, route, sent>>

\* Deferred str.Close: an HTTP/3 stream refuses datagrams from now on, an
\* HTTP/2 one only loses its request body (closeWriter is nil on the server).
CloseStream(s) ==
  /\ pc[s] = "closing"
  /\ pc' = [pc EXCEPT ![s] = "unregistering"]
  /\ stream' = [stream EXCEPT ![s] = IF kind[s] = "h3" THEN FALSE ELSE @]
  /\ UNCHANGED <<peers, fwd, skey, kind, gone, route, sent>>

\* unregister removes the entry only while it is this session's.
Unregister(s) ==
  /\ pc[s] = "unregistering"
  /\ pc' = [pc EXCEPT ![s] = "returning"]
  /\ peers' = [k \in Keys |->
                 IF k = skey[s] /\ peers[k] = s THEN None ELSE peers[k]]
  /\ UNCHANGED <<fwd, skey, kind, stream, gone, route, sent>>

\* The handler returns; the server ends whatever is left of the carrier.
Return(s) ==
  /\ pc[s] = "returning"
  /\ pc' = [pc EXCEPT ![s] = "done"]
  /\ stream' = [stream EXCEPT ![s] = FALSE]
  /\ UNCHANGED <<peers, fwd, skey, kind, gone, route, sent>>

-----------------------------------------------------------------------------
\* The steps the handler's own goroutine takes without further input.
HandlerStep(s) ==
  \/ Reserve(s) \/ Accept(s) \/ AcceptFail(s) \/ Activate(s) \/ Announce(s)
  \/ Forward(s) \/ CloseStream(s) \/ Unregister(s) \/ Return(s)

Finished == (\A s \in Sessions : pc[s] = "done") /\ UNCHANGED vars

Next ==
  \/ \E s \in Sessions :
       \/ \E k \in Keys, c \in Kinds : Arrive(s, k, c)
       \/ \E src \in Keys, k \in Keys : Receive(s, src, k)
       \/ Reject(s) \/ HandlerStep(s) \/ Disconnect(s) \/ ExitLoop(s)
  \/ Finished

Spec == Init /\ [][Next]_vars

-----------------------------------------------------------------------------
\* The registry and the handlers agree: a key is registered for a session
\* exactly from that session's reserve to its deferred unregister.  So two
\* sessions never hold one key ("Duplicate live registrations are rejected
\* rather than silently replacing the current peer", README.md), nobody takes
\* an entry away, and no error path of a handler leaves a key behind.
RegistrationExact ==
  \A k \in Keys, s \in Sessions :
    peers[k] = s <=> pc[s] \in Holding /\ skey[s] = k

\* A datagram for a key is handed only to a carrier that proved that key, by a
\* session that proved the datagram's source, even when the destination's
\* session ended and was replaced between lookup and ForwardPacket.
DeliveredToKeyHolder ==
  sent # NoDatagram => skey[sent.to] = sent.dst /\ skey[sent.from] = sent.src

\* The HTTP/3 carrier of a session that lost its key gets nothing any more: it
\* is closed before the key is given back, so a route looked up earlier fails.
NoDeliveryToSupersededH3 ==
  [][sent' \notin {sent, NoDatagram} /\ kind[sent'.to] = "h3" =>
       peers[sent'.dst] = sent'.to]_vars

\* The relay implements the abstract registry: the owner of a key is what
\* lookup returns for it.
Registry ==
  INSTANCE KeyRegistry WITH
    owner <- [k \in Keys |-> Lookup(k)],
    route <- [s \in Sessions |-> route[s].to]

ImplementsRegistry == Registry!AbsSpec
=============================================================================
