------------------------- MODULE MasqueRelayProofs -------------------------
(***************************************************************************)
(* Theorems about MasqueRelay for every set of keys and sessions, and      *)
(* about the HTTP/2 server that runs its handlers (MasqueH2Server) for     *)
(* every number of listeners, connections and callers of Close.            *)
(***************************************************************************)
EXTENDS MasqueRelay, MasqueH2Server, TLAPS

-----------------------------------------------------------------------------
(* The relay's registry and its handlers.                                   *)
-----------------------------------------------------------------------------
\* A handler that is past authorize knows its key and its carrier.
KeyKnown ==
  \A s \in Sessions :
    pc[s] \in Holding \cup {"authorized"} => skey[s] \in Keys /\ kind[s] \in Kinds

\* Between reserve and the deferred unregister a handler holds its key.
HoldsKey ==
  \A s \in Sessions : pc[s] \in Holding => peers[skey[s]] = s

\* Whoever is registered still has its unregister ahead of it.
NoOrphanedKey ==
  \A k \in Keys : peers[k] # None => skey[peers[k]] = k /\ pc[peers[k]] \in Holding

\* The forwarder is set by activate and never before.
ForwarderByPC ==
  \A s \in Sessions :
    /\ s \in fwd => pc[s] \notin {"idle", "authorized", "reserved", "accepted"}
                    /\ skey[s] \in Keys
    /\ pc[s] \in {"announcing", "loop", "forward"} => s \in fwd

\* A route is held exactly while forwarding, with the datagram's own keys.
RouteByPC ==
  \A s \in Sessions :
    /\ pc[s] # "forward" => route[s] = NoRoute
    /\ pc[s] = "forward" =>
         /\ route[s] \in [to : Sessions, src : Keys, dst : Keys]
         /\ route[s].to \in fwd
         /\ skey[route[s].to] = route[s].dst
         /\ route[s].src = skey[s]

\* The last datagram went from one activated session to another.
SentInv ==
  sent # NoDatagram =>
    /\ sent.from \in fwd /\ sent.to \in fwd
    /\ skey[sent.to] = sent.dst /\ skey[sent.from] = sent.src

\* An activated HTTP/3 carrier is usable only while its handler holds the key.
OpenH3HoldsKey ==
  \A s \in Sessions :
    s \in fwd /\ kind[s] = "h3" /\ stream[s] => pc[s] \in {"loop", "forward", "closing"}

\* The inductive invariant.
RelayInv ==
  /\ TypeOK /\ KeyKnown /\ HoldsKey /\ NoOrphanedKey
  /\ ForwarderByPC /\ RouteByPC /\ SentInv /\ OpenH3HoldsKey

\* The empty registry, with every handler idle, satisfies the invariant.
LEMMA InitInv == Init => RelayInv
  BY NoneAssumption DEF Init, RelayInv, TypeOK, KeyKnown, HoldsKey, NoOrphanedKey,
     ForwarderByPC, RouteByPC, SentInv, OpenH3HoldsKey, Holding, PCs, Kinds, Routes, NoRoute, NoDatagram

\* Every handler step keeps the types.
LEMMA NextType == RelayInv /\ [Next]_vars => TypeOK'
<1> SUFFICES ASSUME RelayInv, [Next]_vars PROVE TypeOK'
  OBVIOUS
<1> USE NoneAssumption DEF RelayInv, TypeOK, PCs, Kinds
<1>1. ASSUME NEW s \in Sessions, NEW k \in Keys, NEW c \in Kinds, Arrive(s, k, c) PROVE TypeOK'
  BY <1>1 DEF Arrive
<1>2. ASSUME NEW s \in Sessions, NEW src \in Keys, NEW k \in Keys, Receive(s, src, k) PROVE TypeOK'
  BY <1>2 DEF Receive, Lookup, Routes
<1>3. ASSUME NEW s \in Sessions, Reject(s) PROVE TypeOK'
  BY <1>3 DEF Reject
<1>4. ASSUME NEW s \in Sessions, Reserve(s) PROVE TypeOK'
  BY <1>4 DEF Reserve
<1>5. ASSUME NEW s \in Sessions, Accept(s) \/ AcceptFail(s) PROVE TypeOK'
  BY <1>5, ZenonT(40) DEF Accept, AcceptFail
<1>6. ASSUME NEW s \in Sessions, Activate(s) PROVE TypeOK'
  BY <1>6 DEF Activate, FirstDefer
<1>7. ASSUME NEW s \in Sessions, Announce(s) PROVE TypeOK'
  BY <1>7 DEF Announce, FirstDefer
<1>8. ASSUME NEW s \in Sessions, Forward(s) PROVE TypeOK'
  BY <1>8 DEF Forward, RouteByPC, Datagrams, Routes, KeyKnown, Holding
<1>9. ASSUME NEW s \in Sessions, CloseStream(s) PROVE TypeOK'
  BY <1>9, Zenon DEF CloseStream
<1>10. ASSUME NEW s \in Sessions, Unregister(s) PROVE TypeOK'
  BY <1>10 DEF Unregister
<1>11. ASSUME NEW s \in Sessions, Return(s) PROVE TypeOK'
  BY <1>11 DEF Return
<1>12. ASSUME NEW s \in Sessions, Disconnect(s) PROVE TypeOK'
  BY <1>12 DEF Disconnect
<1>13. ASSUME NEW s \in Sessions, ExitLoop(s) PROVE TypeOK'
  BY <1>13 DEF ExitLoop, FirstDefer
<1>14. CASE UNCHANGED vars
  BY <1>14 DEF vars
<1> HIDE DEF RelayInv, TypeOK, PCs, Kinds
<1> QED
  BY <1>1, <1>2, <1>3, <1>4, <1>5, <1>6, <1>7, <1>8, <1>9, <1>10, <1>11, <1>12, <1>13, <1>14
  DEF Next, HandlerStep, Finished

\* The invariant is inductive: no step of any handler, in any order with the
\* steps of the others, breaks it.
LEMMA NextInv == RelayInv /\ [Next]_vars => RelayInv'
<1> SUFFICES ASSUME RelayInv, [Next]_vars PROVE RelayInv'
  OBVIOUS
<1> TypeOK'
  BY NextType
<1> USE NoneAssumption DEF RelayInv, TypeOK, Holding, PCs, Kinds, KeyKnown, HoldsKey,
      NoOrphanedKey, ForwarderByPC, RouteByPC, SentInv, OpenH3HoldsKey, NoRoute, NoDatagram
<1>1. ASSUME NEW s \in Sessions, NEW k \in Keys, NEW c \in Kinds, Arrive(s, k, c)
      PROVE  RelayInv'
  BY <1>1 DEF Arrive
<1>2. ASSUME NEW s \in Sessions, NEW src \in Keys, NEW k \in Keys, Receive(s, src, k)
      PROVE  RelayInv'
  BY <1>2 DEF Receive, Lookup
<1>3. ASSUME NEW s \in Sessions, Reject(s)
      PROVE  RelayInv'
  BY <1>3 DEF Reject
<1>4. ASSUME NEW s \in Sessions, Reserve(s)
      PROVE  RelayInv'
  BY <1>4 DEF Reserve
<1>5. ASSUME NEW s \in Sessions, Accept(s) \/ AcceptFail(s)
      PROVE  RelayInv'
  BY <1>5 DEF Accept, AcceptFail
<1>6. ASSUME NEW s \in Sessions, Activate(s)
      PROVE  RelayInv'
  BY <1>6 DEF Activate, FirstDefer
<1>7. ASSUME NEW s \in Sessions, Announce(s)
      PROVE  RelayInv'
  BY <1>7 DEF Announce, FirstDefer
<1>8. ASSUME NEW s \in Sessions, Forward(s)
      PROVE  RelayInv'
  BY <1>8 DEF Forward, Datagrams
<1>9. ASSUME NEW s \in Sessions, CloseStream(s)
      PROVE  RelayInv'
  <2>1. OpenH3HoldsKey'
    <3> SUFFICES ASSUME NEW t \in Sessions, (t \in fwd /\ kind[t] = "h3" /\ stream[t])'
                 PROVE  (pc[t] \in {"loop", "forward", "closing"})'
      OBVIOUS
    <3>1. CASE t = s
      BY <1>9, <3>1 DEF CloseStream
    <3>2. CASE t # s
      BY <1>9, <3>2 DEF CloseStream
    <3> QED
      BY <3>1, <3>2
  <2>2. KeyKnown' /\ HoldsKey' /\ NoOrphanedKey'
    BY <1>9 DEF CloseStream
  <2>3. ForwarderByPC' /\ RouteByPC' /\ SentInv'
    BY <1>9 DEF CloseStream
  <2> HIDE DEF TypeOK, KeyKnown, HoldsKey, NoOrphanedKey, ForwarderByPC, RouteByPC, SentInv,
        OpenH3HoldsKey
  <2> QED
    BY <2>1, <2>2, <2>3
<1>10. ASSUME NEW s \in Sessions, Unregister(s)
      PROVE  RelayInv'
  BY <1>10 DEF Unregister
<1>11. ASSUME NEW s \in Sessions, Return(s)
      PROVE  RelayInv'
  BY <1>11 DEF Return
<1>12. ASSUME NEW s \in Sessions, Disconnect(s)
      PROVE  RelayInv'
  BY <1>12 DEF Disconnect
<1>13. ASSUME NEW s \in Sessions, ExitLoop(s)
      PROVE  RelayInv'
  BY <1>13 DEF ExitLoop, FirstDefer
<1>14. CASE UNCHANGED vars
  BY <1>14 DEF vars
<1> HIDE DEF RelayInv
<1> QED
  BY <1>1, <1>2, <1>3, <1>4, <1>5, <1>6, <1>7, <1>8, <1>9, <1>10, <1>11, <1>12, <1>13, <1>14
  DEF Next, HandlerStep, Finished

\* Every reachable state of the relay satisfies the inductive invariant.
THEOREM Invariance == Spec => []RelayInv
  BY InitInv, NextInv, PTL DEF Spec

\* The variables of the relay keep their types.
THEOREM TypeCorrect == Spec => []TypeOK
<1>1. RelayInv => TypeOK
  BY DEF RelayInv
<1> QED
  BY Invariance, <1>1, PTL

\* Whatever the number of keys and concurrent handlers, a key is registered for
\* a session exactly while that session holds it: reserve is exclusive until the
\* deferred unregister, which no error path skips.
THEOREM Registration == Spec => []RegistrationExact
<1>1. RelayInv => RegistrationExact
  BY NoneAssumption DEF RelayInv, RegistrationExact, HoldsKey, NoOrphanedKey, TypeOK
<1> QED
  BY Invariance, <1>1, PTL

\* A datagram reaches only a carrier that proved the key it is addressed to,
\* from a session that proved its source, stale routes included.
THEOREM Delivery == Spec => []DeliveredToKeyHolder
<1>1. RelayInv => DeliveredToKeyHolder
  BY DEF RelayInv, DeliveredToKeyHolder, SentInv
<1> QED
  BY Invariance, <1>1, PTL

\* A superseded HTTP/3 carrier gets no datagram: its stream is closed before its
\* key can be claimed again.
THEOREM NoStaleH3 == Spec => NoDeliveryToSupersededH3
<1> DEFINE P == sent' \notin {sent, NoDatagram} /\ kind[sent'.to] = "h3" =>
                  peers[sent'.dst] = sent'.to
<1>1. RelayInv /\ [Next]_vars => [P]_vars
  <2> SUFFICES ASSUME RelayInv, Next, sent' # sent, sent' # NoDatagram, kind[sent'.to] = "h3"
               PROVE  peers[sent'.dst] = sent'.to
    BY Zenon
  <2>1. PICK s \in Sessions : Forward(s)
    BY ZenonT(40) DEF Next, HandlerStep, Finished, vars, Arrive, Receive, Reject, Reserve, Accept, AcceptFail,
       Activate, Announce, CloseStream, Unregister, Return, Disconnect, ExitLoop
  <2>2. /\ stream[route[s].to] /\ sent'.to = route[s].to /\ sent'.dst = route[s].dst
        /\ route[s].to \in fwd /\ route[s].to \in Sessions /\ skey[route[s].to] = route[s].dst
    BY <2>1 DEF Forward, RelayInv, RouteByPC
  <2> QED
    BY <2>2 DEF RelayInv, OpenH3HoldsKey, HoldsKey, Holding
<1> QED
  BY Invariance, <1>1, PTL DEF Spec, NoDeliveryToSupersededH3

\* The relay implements the abstract registry.
THEOREM Refinement == Spec => ImplementsRegistry
<1> USE NoneAssumption DEF Registry!Claim, Registry!Release, Registry!Choose, Registry!HandOver
<1>1. Init => Registry!AbsInit
  BY DEF Init, Registry!AbsInit, Lookup, NoRoute
<1>2. RelayInv /\ [Next]_vars => [Registry!AbsNext]_(Registry!absVars)
  <2> SUFFICES ASSUME RelayInv, [Next]_vars PROVE [Registry!AbsNext]_(Registry!absVars)
    OBVIOUS
  <2> DEFINE Owner == [k \in Keys |-> Lookup(k)]
             RouteTo == [s \in Sessions |-> route[s].to]
  <2> USE DEF RelayInv, TypeOK
  <2>0. ASSUME UNCHANGED <<peers, fwd, route>>
        PROVE  UNCHANGED Registry!absVars
    BY <2>0 DEF Registry!absVars, Lookup
  <2>1. ASSUME NEW s \in Sessions, NEW src \in Keys, NEW k \in Keys, Receive(s, src, k)
        PROVE  Registry!Choose(k, s)
    <3>1. Lookup(skey[s]) = s /\ skey[s] \in Keys
      BY <2>1 DEF Receive, Lookup, HoldsKey, ForwarderByPC, KeyKnown, Holding
    <3>2. RouteTo[s] = None /\ Owner[k] # None
      BY <2>1 DEF Receive, RouteByPC, NoRoute
    <3>3. RouteTo' = [RouteTo EXCEPT ![s] = Owner[k]]
      BY <2>1, Zenon DEF Receive
    <3>4. UNCHANGED Owner
      BY <2>1 DEF Receive, Lookup
    <3> QED
      BY <3>1, <3>2, <3>3, <3>4
  <2>2. ASSUME NEW s \in Sessions, Forward(s)
        PROVE  Registry!HandOver(s)
    <3>1. RouteTo[s] # None
      BY <2>2 DEF Forward, RouteByPC
    <3>2. RouteTo' = [RouteTo EXCEPT ![s] = None]
      BY <2>2, Zenon DEF Forward, NoRoute
    <3>3. UNCHANGED Owner
      BY <2>2 DEF Forward, Lookup
    <3> QED
      BY <3>1, <3>2, <3>3
  <2>3. ASSUME NEW s \in Sessions, Reserve(s)
        PROVE  UNCHANGED Registry!absVars
    <3>1. \A k \in Keys : Lookup(k)' = Lookup(k)
      BY <2>3 DEF Reserve, Lookup, ForwarderByPC
    <3> QED
      BY <2>3, <3>1 DEF Reserve, Registry!absVars
  <2>4. ASSUME NEW s \in Sessions, Activate(s)
        PROVE  Registry!Claim(skey[s], s) /\ skey[s] \in Keys
    <3>1. skey[s] \in Keys /\ peers[skey[s]] = s /\ s \notin fwd /\ fwd' = fwd \cup {s}
      BY <2>4 DEF Activate, HoldsKey, ForwarderByPC, KeyKnown, Holding
    <3>2. \A k \in Keys : k # skey[s] => peers[k] # s
      BY <3>1 DEF NoOrphanedKey
    <3>3. Owner[skey[s]] = None
      BY <3>1 DEF Lookup
    <3>4. Owner' = [Owner EXCEPT ![skey[s]] = s]
      BY <2>4, <3>1, <3>2, Zenon DEF Activate, Lookup
    <3> QED
      BY <2>4, <3>1, <3>3, <3>4 DEF Activate
  <2>5. ASSUME NEW s \in Sessions, Unregister(s)
        PROVE  [Registry!AbsNext]_(Registry!absVars)
    <3>1. skey[s] \in Keys /\ peers[skey[s]] = s
      BY <2>5 DEF Unregister, HoldsKey, KeyKnown, Holding
    <3>2. UNCHANGED RouteTo
      BY <2>5 DEF Unregister
    <3>3. CASE s \in fwd
      <4>1. Owner[skey[s]] # None
        BY <3>1, <3>3 DEF Lookup
      <4>2. Owner' = [Owner EXCEPT ![skey[s]] = None]
        BY <2>5, <3>1, <3>3, Zenon DEF Unregister, Lookup
      <4> QED
        BY <3>1, <3>2, <4>1, <4>2, Zenon DEF Registry!AbsNext
    <3>4. CASE s \notin fwd
      <4>1. \A k \in Keys : Lookup(k)' = Lookup(k)
        BY <2>5, <3>1, <3>4 DEF Unregister, Lookup
      <4> QED
        BY <3>2, <4>1 DEF Registry!absVars
    <3> QED
      BY <3>3, <3>4
  <2>6. ASSUME NEW s \in Sessions,
               \/ \E k \in Keys, c \in Kinds : Arrive(s, k, c)
               \/ Reject(s) \/ Accept(s) \/ AcceptFail(s) \/ Announce(s) \/ CloseStream(s)
               \/ Return(s) \/ Disconnect(s) \/ ExitLoop(s)
        PROVE  UNCHANGED <<peers, fwd, route>>
    BY <2>6, Zenon DEF Arrive, Reject, Accept, AcceptFail, Announce, CloseStream, Return, Disconnect, ExitLoop
  <2>7. CASE UNCHANGED vars
    BY <2>0, <2>7 DEF vars
  <2> HIDE DEF RelayInv, TypeOK, Registry!Claim, Registry!Choose, Registry!HandOver, Registry!Release
  <2> QED
    BY <2>0, <2>1, <2>2, <2>3, <2>4, <2>5, <2>6, <2>7 DEF Next, HandlerStep, Finished, Registry!AbsNext
<1> QED
  BY <1>1, <1>2, Invariance, PTL DEF Spec, ImplementsRegistry, Registry!AbsSpec

-----------------------------------------------------------------------------
(* The HTTP/2 server.                                                       *)
-----------------------------------------------------------------------------
Serving == {"ready", "accept", "got", "exit"}
Served == {"read", "pipe", "exit"}

\* s.listeners and s.conns are what the wait group counts, and what is open has
\* been accepted and not yet given up.
Counted ==
  /\ \A l \in Listeners : l \in listed <=> lloc[l] \in Serving
  /\ \A c \in Conns : c \in conns <=> cloc[c] \in Served
  /\ \A c \in open : cloc[c] \in {"taken"} \cup Served

\* A connection between AcceptConn and its admission is in the hands of one listener.
InHands ==
  /\ \A c \in Conns : cloc[c] = "taken" => \E l \in Listeners : lconn[l] = c
  /\ \A l \in Listeners : lconn[l] # NoConn => cloc[lconn[l]] = "taken"
  /\ \A l, m \in Listeners : lconn[l] = lconn[m] /\ lconn[l] # NoConn => l = m

\* After Close has begun, a bound port is on the list of the caller that closes,
\* or not registered yet, or was lost to a failed AcceptConn.
Reached ==
  /\ \A l \in bound : lloc[l] # "new"
  /\ ~closed => \A l \in bound : lloc[l] \in {"exit", "done"} => l \in stray
  /\ closed => \A l \in bound :
       lloc[l] = "listening" \/ l \in stray \/ \E k \in Closers : kloc[k] = "closing" /\ l \in toClose[k]

\* Close has begun when somebody has called it; whoever has returned has seen
\* the wait group at zero, where it stays.
Begun ==
  /\ closed <=> \E k \in Closers : kloc[k] # "idle"
  /\ \A k \in Closers : kloc[k] = "done" =>
       /\ \A l \in Listeners : lloc[l] \notin Serving
       /\ \A c \in Conns : cloc[c] \notin Served

H2Inv == ServerTypeOK /\ Counted /\ InHands /\ Reached /\ Begun

\* A new server satisfies the invariant.
LEMMA InitH2 == ServerInit => H2Inv
<1> SUFFICES ASSUME ServerInit PROVE H2Inv
  OBVIOUS
<1>1. ServerTypeOK
  BY Zenon DEF ServerInit, ServerTypeOK
<1>2. Counted /\ InHands
  BY ServerAssumption DEF ServerInit, Counted, InHands, Serving, Served
<1>3. Reached /\ Begun
  BY DEF ServerInit, Reached, Begun
<1> QED
  BY <1>1, <1>2, <1>3 DEF H2Inv

\* The invariant is inductive: no order of connections, handlers and callers of
\* Close breaks it.
LEMMA NextH2 == H2Inv /\ [ServerNext]_serverVars => H2Inv'
<1> SUFFICES ASSUME H2Inv, [ServerNext]_serverVars PROVE H2Inv'
  OBVIOUS
<1> USE ServerAssumption DEF H2Inv, ServerTypeOK, Counted, InHands, Reached, Begun, Serving, Served
<1>1. ASSUME NEW l \in Listeners, Listen(l) PROVE H2Inv'
  BY <1>1 DEF Listen
<1>2. ASSUME NEW l \in Listeners, Register(l) PROVE H2Inv'
  BY <1>2 DEF Register
<1>3. ASSUME NEW l \in Listeners, Serve(l) PROVE H2Inv'
  BY <1>3 DEF Serve
<1>4. ASSUME NEW l \in Listeners, AcceptConn(l) PROVE H2Inv'
  BY <1>4 DEF AcceptConn
<1>5. ASSUME NEW l \in Listeners, AcceptError(l) PROVE H2Inv'
  BY <1>5 DEF AcceptError
<1>6. ASSUME NEW l \in Listeners, Admit(l) PROVE H2Inv'
  BY <1>6 DEF Admit
<1>7. ASSUME NEW l \in Listeners, StopServing(l) PROVE H2Inv'
  BY <1>7 DEF StopServing
<1>8. ASSUME NEW c \in Conns, StartRequest(c) PROVE H2Inv'
  BY <1>8 DEF StartRequest
<1>9. ASSUME NEW c \in Conns, PipeWrite(c) PROVE H2Inv'
  BY <1>9 DEF PipeWrite
<1>10. ASSUME NEW c \in Conns, PipeRead(c) PROVE H2Inv'
  BY <1>10 DEF PipeRead
<1>11. ASSUME NEW c \in Conns, HandlerIdle(c) PROVE H2Inv'
  BY <1>11 DEF HandlerIdle
<1>12. ASSUME NEW c \in Conns, HandlerReturn(c) PROVE H2Inv'
  BY <1>12 DEF HandlerReturn
<1>13. ASSUME NEW c \in Conns, Hangup(c) PROVE H2Inv'
  BY <1>13 DEF Hangup
<1>14. ASSUME NEW c \in Conns, ReadError(c) PROVE H2Inv'
  BY <1>14 DEF ReadError
<1>15. ASSUME NEW c \in Conns, ReadRefuse(c) PROVE H2Inv'
  BY <1>15 DEF ReadRefuse
<1>16. ASSUME NEW c \in Conns, ServeConnReturn(c) PROVE H2Inv'
  BY <1>16 DEF ServeConnReturn
<1>17. ASSUME NEW k \in Closers, CloseBegin(k) PROVE H2Inv'
  BY <1>17 DEF CloseBegin
<1>18. ASSUME NEW k \in Closers, CloseOne(k) PROVE H2Inv'
  BY <1>18 DEF CloseOne
<1>19. ASSUME NEW k \in Closers, CloseAll(k) PROVE H2Inv'
  BY <1>19 DEF CloseAll
<1>20. ASSUME NEW k \in Closers, CloseReturn(k) PROVE H2Inv'
  BY <1>20 DEF CloseReturn, Waited
<1>21. CASE UNCHANGED serverVars
  BY <1>21 DEF serverVars
<1> QED
  BY <1>1, <1>2, <1>3, <1>4, <1>5, <1>6, <1>7, <1>8, <1>9, <1>10, <1>11, <1>12, <1>13, <1>14, <1>15, <1>16,
     <1>17, <1>18, <1>19, <1>20, <1>21, ZenonT(40)
     DEF ServerNext, Server, ReadLoop, Closer, ServerFinished

\* The invariant holds in every reachable state.
THEOREM H2Invariance == ServerSpec => []H2Inv
  BY InitH2, NextH2, PTL DEF ServerSpec

\* Nothing is left once every Close that was called has returned.
THEOREM Quiet == ServerSpec => []ClosedIsQuiet
<1>1. H2Inv => ClosedIsQuiet
  <2> SUFFICES ASSUME H2Inv, closed, \A k \in Closers : kloc[k] \in {"idle", "done"}
               PROVE  /\ \A l \in bound : lloc[l] = "listening" \/ l \in stray
                      /\ open = {} /\ conns = {} /\ listed = {} /\ Waited = {}
    BY DEF H2Inv, ClosedIsQuiet
  <2>1. PICK k \in Closers : kloc[k] = "done"
    BY DEF H2Inv, Begun
  <2>2. Waited = {} /\ listed = {} /\ conns = {}
    BY <2>1 DEF H2Inv, ServerTypeOK, Begun, Counted, Serving, Served, Waited
  <2>3. open = {}
    <3> SUFFICES ASSUME NEW c \in open PROVE FALSE
      OBVIOUS
    <3>1. c \in Conns /\ cloc[c] = "taken"
      BY <2>1 DEF H2Inv, ServerTypeOK, Begun, Counted, Served
    <3>2. PICK l \in Listeners : lconn[l] = c
      BY <3>1 DEF H2Inv, InHands
    <3>3. lloc[l] = "got"
      BY <3>1, <3>2, ServerAssumption DEF H2Inv, ServerTypeOK
    <3> QED
      BY <2>1, <3>3 DEF H2Inv, Begun, Serving
  <2>4. \A l \in bound : lloc[l] = "listening" \/ l \in stray
    BY DEF H2Inv, Reached
  <2> QED
    BY <2>2, <2>3, <2>4
<1> QED
  BY <1>1, H2Invariance, PTL

\* Nothing is added to the wait group once somebody may wait for it.
THEOREM NoLateAdd == ServerSpec => NoAddAfterWait
<1>1. H2Inv /\ [ServerNext]_serverVars =>
        [(\E k \in Closers : kloc[k] \in {"wait", "done"}) => Waited' \subseteq Waited]_serverVars
  <2> SUFFICES ASSUME H2Inv, ServerNext, closed PROVE Waited' \subseteq Waited
    BY ZenonT(40) DEF H2Inv, Begun
  <2> DEFINE Shrinks == /\ \A l \in Listeners : lloc'[l] \in Serving => lloc[l] \in Serving
                        /\ \A c \in Conns : cloc'[c] \in Served => cloc[c] \in Served
  <2>1. ASSUME NEW l \in Listeners, Listen(l) \/ Server(l) \/ AcceptConn(l) PROVE Shrinks
    <3>1. CASE Listen(l)
      BY <3>1, ServerAssumption DEF H2Inv, ServerTypeOK, Serving, Served, Listen
    <3>2. CASE Register(l)
      BY <3>2, ServerAssumption DEF H2Inv, ServerTypeOK, Serving, Served, Register
    <3>3. CASE Serve(l)
      BY <3>3, ServerAssumption DEF H2Inv, ServerTypeOK, Serving, Served, Serve
    <3>4. CASE AcceptConn(l)
      BY <3>4, ServerAssumption DEF H2Inv, ServerTypeOK, Serving, Served, AcceptConn
    <3>5. CASE AcceptError(l)
      BY <3>5, ServerAssumption DEF H2Inv, ServerTypeOK, Serving, Served, AcceptError
    <3>6. CASE Admit(l)
      BY <3>6, ServerAssumption DEF H2Inv, ServerTypeOK, Serving, Served, Admit
    <3>7. CASE StopServing(l)
      BY <3>7, ServerAssumption, Zenon DEF H2Inv, ServerTypeOK, Serving, Served, StopServing
    <3> QED
      BY <2>1, <3>1, <3>2, <3>3, <3>4, <3>5, <3>6, <3>7 DEF Server
  <2>2. ASSUME NEW c \in Conns, 
           \/ StartRequest(c) \/ PipeWrite(c) \/ PipeRead(c) \/ HandlerIdle(c)
           \/ HandlerReturn(c) \/ Hangup(c) \/ ReadRefuse(c) \/ ReadLoop(c)
        PROVE Shrinks
    BY <2>2, Zenon DEF H2Inv, ServerTypeOK, Serving, Served, ReadLoop, StartRequest, PipeWrite,
       PipeRead, HandlerIdle, HandlerReturn, Hangup, ReadError, ReadRefuse, ServeConnReturn
  <2>3. ASSUME NEW k \in Closers, Closer(k) \/ CloseBegin(k) PROVE Shrinks
    BY <2>3, Zenon DEF Closer, CloseBegin, CloseOne, CloseAll, CloseReturn
  <2>4. Shrinks
    BY <2>1, <2>2, <2>3, Zenon DEF ServerNext, ServerFinished, serverVars
  <2> QED
    BY <2>4 DEF Waited, Serving, Served
<1> QED
  BY <1>1, H2Invariance, PTL DEF ServerSpec, NoAddAfterWait
=============================================================================
