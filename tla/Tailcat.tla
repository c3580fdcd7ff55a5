------------------------------- MODULE Tailcat -------------------------------
(***************************************************************************)
(* The DERP transport of tailcat.go: a Server and its Clients, each a      *)
(* locoBackend (WireGuard engine, magicsock, netstack), introduced to each *)
(* other by the meow handshake.  A client sends a meow through the DERP    *)
(* relay; the server adds it as a peer, rebuilds its network map and       *)
(* answers meowed; from then on the client dials.  Both sides advertise    *)
(* their UDP endpoints to their peers from goroutines of their own.        *)
(* The relay may lose, repeat and reorder packets.                         *)
(***************************************************************************)
EXTENDS Naturals, FiniteSets, Sequences, Functions, TailcatToken

CONSTANTS Clients,     \* node keys of the clients
          Server,      \* node key of the server
          Tokens,      \* the token that each client is given
          DERPMap,     \* the DERP map: region IDs to regions
          Region,      \* the DERP region of the server
          Browsers,    \* clients built for js, which advertise nothing
          AllowedClients, \* the allowlists that Start may be given
          Dests,       \* what is dialled: [host : {"self","v4","v6"}, port : Nat]
          ServedPorts, \* ServedTCPPorts; {} is the nil slice (every port)
          Forwards,    \* whether OnTCPForward is set (exit node)
          Endpoints,   \* sets of local UDP endpoints, each one value
          MaxEvents,   \* bound: losses, failures and other outside events
          MaxPending   \* bound: advertise goroutines of a node not yet run

ASSUME TailcatAssumption ==
  /\ Server \notin Clients
  /\ DOMAIN Tokens = Clients /\ Browsers \subseteq Clients
  /\ AllowedClients \subseteq SUBSET Clients
  /\ Dests \subseteq [host : {"self", "v4", "v6"}, port : Nat]
  /\ ServedPorts \subseteq Nat
  /\ Forwards \in BOOLEAN
  /\ MaxEvents \in Nat /\ MaxPending \in Nat

\* The server's own token embeds its region, of which Server.Start wants the
\* ID and which has a node that relays; a short one names it in the DERP map.
ASSUME TokensAssumption ==
  /\ Region \in [id : Nat \ {0}, code : Nat, nodes : Seq(DERPNode)]
  /\ \E i \in DOMAIN Region.nodes : ~Region.nodes[i].stunOnly
  /\ \A c \in Clients : LET k == Tokens[c].server IN
       \/ Tokens[c] = ConnBlob([server |-> k, id |-> 0, regions |-> <<Region>>])
       \/ /\ Tokens[c] = [server |-> k, id |-> Region.id, regions |-> <<>>]
          /\ DERPMap[Region.id] = Region

Nodes == (Clients \ Browsers) \cup {Server}

\* No endpoint is known yet: the empty slice.
NoEps == "none"

VARIABLES
  srv,       \* how far Server.Start got
  allowed,   \* allowedClients; {} is the nil map, which allows every client
  clients,   \* b.clients, in the order of their node IDs
  nm,        \* the peers of b.nm on the server
  mc,        \* the peers magicsock was last given on the server
  early,     \* history: clients added before Start gave magicsock its map
  net,       \* packets inside the DERP relay
  events,    \* events from outside so far
  resolved,  \* clients whose token was resolved
  loc,       \* where the current call of each client is
  built,     \* c.lb != nil
  started,   \* c.started
  closed,    \* the backend of the client was closed
  upDone,    \* c.upDone
  meowWait,  \* clients whose channel meowWait is closed
  cache,     \* the DERP map cache that the clients share
  eps,       \* b.eps of each node
  due,       \* advertiseEndpoints goroutines of a node before they lock b.mu
  out,       \* advertisements of a node not yet sent: <<peer, endpoints>>
  tried      \* history: <<n, p>> where n's present endpoints were sent to p, or
             \* the attempt failed

srvVars == <<srv, allowed, clients, nm, mc, early>>
cliVars == <<resolved, loc, built, started, closed, upDone, cache>>
advVars == <<eps, due, out, tried>>
vars == <<srvVars, cliVars, advVars, meowWait, net, events>>

Known == Range(clients)
Listening == srv \in {"derp", "nm", "set", "up"}

Meow(c) == <<"meow", c>>
Meowed(c) == <<"meowed", c>>
\* Something happens, or goes wrong, outside the program.
Event == events < MaxEvents /\ events' = events + 1

Packets == {Meow(c) : c \in Clients} \cup {Meowed(c) : c \in Clients}

\* The relay hands a packet over, and perhaps once more later.
Delivered(p, answers) ==
  \/ net' = (net \ {p}) \cup answers /\ UNCHANGED events
  \/ net' = net \cup answers /\ Event

-----------------------------------------------------------------------------
(***************************************************************************)
(* Destinations and what the server does with a connection to one.         *)
(***************************************************************************)
\* A dial names the server itself, an IPv4 address or another IPv6 address;
\* DialTCP maps an IPv4 address into the NAT64 prefix.
OnTunnel(d) == IF d.host = "v4" THEN [d EXCEPT !.host = "nat64"] ELSE d

\* buildFilter: the server's own address on the served ports, and every
\* destination when the server forwards.
Admits(d) ==
  \/ d.host = "self" /\ (ServedPorts = {} \/ d.port \in ServedPorts)
  \/ Forwards

\* GetTCPHandlerForFlow, which undoes the NAT64 mapping.
Handler(d) ==
  CASE d.host = "self" -> [by |-> "OnTCP", dst |-> d]
    [] d.host # "self" /\ ~Forwards -> [by |-> "RST", dst |-> d]
    [] d.host = "nat64" /\ Forwards ->
         [by |-> "OnTCPForward", dst |-> [d EXCEPT !.host = "v4"]]
    [] d.host = "v6" /\ Forwards -> [by |-> "OnTCPForward", dst |-> d]

NoConn == [by |-> "none", dst |-> [host |-> "self", port |-> 0]]

\* What reaches the server's callbacks: the engine of the server only
\* accepts WireGuard packets of peers it knows.
Dialled(c, d) ==
  IF srv = "up" /\ c \in Known \cap mc /\ Admits(OnTunnel(d))
  THEN Handler(OnTunnel(d))
  ELSE NoConn

-----------------------------------------------------------------------------
TypeOK ==
  /\ srv \in {"new", "derp", "nm", "set", "up", "closed"}
  /\ allowed \subseteq Clients
  /\ Known \subseteq Clients
  /\ nm \subseteq Clients /\ mc \subseteq Clients /\ early \subseteq Clients
  /\ net \subseteq Packets
  /\ loc \in [Clients -> {"idle", "fetch", "refetch", "wait"}]
  /\ resolved \subseteq Clients /\ built \subseteq Clients /\ started \subseteq built
  /\ closed \subseteq built /\ upDone \subseteq started
  /\ meowWait \subseteq built
  /\ cache \in {"none", "fresh", "stale"}
  /\ eps \in [Nodes -> Endpoints \cup {NoEps}]
  /\ due \in [Nodes -> 0..MaxPending]
  /\ tried \subseteq Nodes \X (Clients \cup {Server})
  /\ events \in 0..MaxEvents

Init ==
  /\ srv = "new" /\ allowed \in AllowedClients
  /\ clients = <<>> /\ nm = {} /\ mc = {}
  /\ early = {} /\ net = {}
  /\ resolved = {} /\ loc = [c \in Clients |-> "idle"]
  /\ built = {} /\ started = {} /\ closed = {} /\ upDone = {}
  /\ meowWait = {}
  /\ cache = "none"
  /\ eps = [n \in Nodes |-> NoEps] /\ due = [n \in Nodes |-> 0]
  /\ out = [n \in Nodes |-> {}] /\ tried = {} /\ events = 0

-----------------------------------------------------------------------------
(***************************************************************************)
(* The endpoint advertisements of a backend.                               *)
(***************************************************************************)
\* The peers of the node's network map; a client's only peer is the server.
Peers(n) == IF n = Server THEN nm ELSE IF n \in started THEN {Server} ELSE {}

\* onEngineStatus: new endpoints, advertised from a goroutine unless empty.
OnEngineStatus(n, e) ==
  /\ IF n = Server THEN srv \in {"set", "up"} ELSE n \in started \ closed
  /\ Event
  /\ e # eps[n]
  /\ e # NoEps => due[n] < MaxPending
  /\ eps' = [eps EXCEPT ![n] = e]
  /\ due' = IF e = NoEps THEN due ELSE [due EXCEPT ![n] = @ + 1]
  /\ tried' = {t \in tried : t[1] # n}
  /\ UNCHANGED <<out, srvVars, cliVars, meowWait, net>>

\* advertiseEndpoints, the part under b.mu: endpoints and peers are read.
ReadEndpoints(n) ==
  /\ due[n] > 0
  /\ due' = [due EXCEPT ![n] = @ - 1]
  /\ out' = [out EXCEPT ![n] = @ \cup
               (IF eps[n] = NoEps THEN {} ELSE Peers(n) \X {eps[n]})]
  /\ UNCHANGED <<eps, tried, srvVars, cliVars, meowWait, net, events>>

\* The server's magicsock has no use for a stranger's endpoints.
Understands(n, p) == IF n = Server THEN TRUE ELSE n \in Known

\* advertiseEndpoints, after b.mu is released: one packet per peer, sent once.
\* An error is logged, a packet that was dropped goes unnoticed.
SendCallMeMaybe(n, a) ==
  /\ a \in out[n]
  /\ out' = [out EXCEPT ![n] = @ \ {a}]
  /\ tried' = IF a[2] = eps[n] /\ Understands(n, a[1])
             THEN tried \cup {<<n, a[1]>>} ELSE tried
  /\ UNCHANGED <<eps, due, srvVars, cliVars, meowWait, net, events>>

-----------------------------------------------------------------------------
(***************************************************************************)
(* The server.                                                             *)
(***************************************************************************)
\* Server.Start up to SetDERPMap: from here on the relay delivers packets.
\* The steps before it that fail close what was opened and change nothing.
SrvStart ==
  /\ srv = "new"
  /\ srv' = "derp"
  /\ UNCHANGED <<allowed, clients, nm, mc, early,
                 cliVars, advVars, meowWait, net, events>>

\* locoBackend.Start stores a network map without peers, under b.mu ...
SrvStoreMap ==
  /\ srv = "derp"
  /\ srv' = "nm" /\ nm' = {}
  /\ UNCHANGED <<allowed, clients, mc, early,
                 cliVars, advVars, meowWait, net, events>>

\* ... and gives that same map to magicsock after unlocking.
SrvSetMap ==
  /\ srv = "nm"
  /\ srv' = "set" /\ mc' = {}
  /\ UNCHANGED <<allowed, clients, nm, early,
                 cliVars, advVars, meowWait, net, events>>

\* The callbacks are installed and Reconfig succeeds.
SrvUp ==
  /\ srv = "set"
  /\ srv' = "up"
  /\ UNCHANGED <<allowed, clients, nm, mc, early,
                 cliVars, advVars, meowWait, net, events>>

\* Reconfig fails: Start closes and drops the backend, and may be retried.
SrvStartFails ==
  /\ srv = "set"
  /\ Event
  /\ srv' = "new"
  /\ clients' = <<>> /\ nm' = {} /\ mc' = {}
  /\ early' = early \cup Known
  /\ due' = [due EXCEPT ![Server] = 0] /\ out' = [out EXCEPT ![Server] = {}]
  /\ eps' = [eps EXCEPT ![Server] = NoEps]
  /\ tried' = {t \in tried : Server \notin {t[1], t[2]}}
  /\ UNCHANGED <<allowed, cliVars, meowWait, net>>

\* Server.Close; s.lb stays set, so the server does not start again.
SrvClose ==
  /\ srv = "up"
  /\ Event
  /\ srv' = "closed"
  /\ UNCHANGED <<allowed, clients, nm, mc, early,
                 cliVars, advVars, meowWait, net>>

AddAllowedClient(c) ==
  /\ srv \in {"new", "up", "closed"}
  /\ Event
  /\ c \notin allowed
  /\ allowed' = allowed \cup {c}
  /\ UNCHANGED <<srv, clients, nm, mc, early,
                 cliVars, advVars, meowWait, net>>

Admitted(c) == allowed = {} \/ c \in allowed

\* Mutant: a refused client is acknowledged like any other.
OnMeowAcksRefused(c) ==
  /\ Listening
  /\ Meow(c) \in net /\ ~Admitted(c)
  /\ Delivered(Meow(c), {Meowed(c)})
  /\ UNCHANGED <<srvVars, advVars, cliVars, meowWait>>

\* Mutant: a new client is not told the server's endpoints.
OnMeowSilent(c) ==
  /\ Listening
  /\ Meow(c) \in net /\ Admitted(c) /\ c \notin Known
  /\ clients' = Append(clients, c)
  /\ nm' = Known \cup {c} /\ mc' = Known \cup {c}
  /\ early' = IF srv \in {"derp", "nm"} THEN early \cup {c} ELSE early
  /\ Delivered(Meow(c), {Meowed(c)})
  /\ UNCHANGED <<srv, allowed, advVars, cliVars, meowWait>>

\* onDERPRecv on the server: the goroutine of a meow runs onMeow, all of it
\* under b.mu, and answers once onMeow said yes.
OnMeow(c) ==
  /\ Listening
  /\ Meow(c) \in net
  /\ \/ /\ ~Admitted(c)
        /\ Delivered(Meow(c), {})
        /\ UNCHANGED <<clients, nm, mc, early, due>>
     \/ /\ Admitted(c) /\ c \in Known
        /\ Delivered(Meow(c), {Meowed(c)})
        /\ UNCHANGED <<clients, nm, mc, early, due>>
     \/ /\ Admitted(c) /\ c \notin Known
        /\ due[Server] < MaxPending
        /\ clients' = Append(clients, c)
        /\ nm' = Known \cup {c} /\ mc' = Known \cup {c}
        /\ early' = IF srv \in {"derp", "nm"} THEN early \cup {c} ELSE early
        /\ due' = [due EXCEPT ![Server] = @ + 1]
        /\ Delivered(Meow(c), {Meowed(c)})
  /\ UNCHANGED <<srv, allowed, eps, out, tried, cliVars, meowWait>>

-----------------------------------------------------------------------------
(***************************************************************************)
(* The client: one call at a time, racing with Close and the callbacks.    *)
(***************************************************************************)
Goto(c, l) == loc' = [loc EXCEPT ![c] = l]

\* What a call of the client leaves alone, and also v.
Only(v) == UNCHANGED <<srvVars, advVars, resolved, v>>

\* ping: one meow through the relay, then the wait for meowed.
SendMeow(c) ==
  /\ Goto(c, "wait")
  /\ net' = IF c \in closed THEN net ELSE net \cup {Meow(c)}

\* Ping, or a Dial before the client is up, on a client already started;
\* a closed magicsock does not send.
Ping(c) ==
  /\ loc[c] = "idle" /\ c \in started
  /\ IF c \in upDone THEN Event ELSE UNCHANGED events
  /\ SendMeow(c)
  /\ Only(<<built, started, closed, upDone, cache, meowWait>>)

\* A Dial once the client is up: see Dialled.
Dial(c) ==
  /\ loc[c] = "idle" /\ c \in upDone
  /\ UNCHANGED vars

\* A client's first use.  ensureStarted holds startMu until it returns.
FirstUse(c) == loc[c] = "idle" /\ c \notin started

\* c.Server, the token of a client, and the clients whose token is short.
Token(c) == IF c \in resolved THEN Resolve(Tokens[c], DERPMap) ELSE Tokens[c]
GivenShort == {c \in Clients : NeedsMap(ParseConnBlob(Tokens[c]))}
Short == GivenShort \ resolved

\* ConnBlob.Resolve, before the token is used: the map is cached or fetched, or
\* an old one does.
ResolveToken(c) ==
  /\ FirstUse(c) /\ c \notin built
  /\ c \in Short
  /\ Event
  /\ cache' \in {"fresh", cache} \ {"none"}
  /\ resolved' = resolved \cup {c}
  /\ UNCHANGED <<srvVars, advVars, loc, built, started, closed, upDone,
                 meowWait, net>>

\* The region a started client uses.
RegionOf(c) == Expand(ParseConnBlob(Token(c)), DERPMap).regions[1]

\* initLocked: a part that fails to start closes the ones before it and
\* leaves c.lb nil.
InitFails(c) ==
  /\ FirstUse(c) /\ c \notin built
  /\ Event
  /\ Only(<<loc, built, started, closed, upDone, cache, meowWait, net>>)

\* The end of ensureStarted: the region may be missing from the map and
\* locoBackend.Start may fail, and then the next call tries again.
Begin(c) ==
  \/ SendMeow(c) /\ started' = started \cup {c} /\ UNCHANGED events
  \/ Goto(c, "idle") /\ UNCHANGED <<started, net>> /\ Event

\* initLocked, and Expand without a fetch: the token embeds the region or
\* the cached DERP map is fresh.
ExpandLocally(c) ==
  /\ FirstUse(c)
  /\ c \notin Short \/ cache = "fresh"
  /\ built' = built \cup {c}
  /\ Begin(c)
  /\ Only(<<closed, upDone, cache, meowWait>>)

\* initLocked, and Expand up to the request for the DERP map.
StartFetch(c) ==
  /\ FirstUse(c)
  /\ c \in Short /\ cache # "fresh"
  /\ built' = built \cup {c}
  /\ Goto(c, IF cache = "stale" THEN "refetch" ELSE "fetch")
  /\ Only(<<started, closed, upDone, cache, meowWait, net, events>>)

\* The map server answers with a map, or confirms the stale one (304).
FetchAnswers(c) ==
  /\ loc[c] \in {"fetch", "refetch"}
  /\ cache' = "fresh"
  /\ Begin(c)
  /\ Only(<<built, closed, upDone, meowWait>>)

\* Mutant: an old map is of no use to a request that failed.
FetchFailsForgets(c) ==
  /\ loc[c] \in {"fetch", "refetch"}
  /\ \/ loc[c] = "refetch" /\ UNCHANGED events
     \/ loc[c] = "fetch" /\ Event
  /\ Goto(c, "idle")
  /\ Only(<<built, started, closed, upDone, cache, meowWait, net>>)

\* It does not, or not in time, however often: staleOr falls back on the stale
\* map, and without one ensureStarted fails.
FetchFails(c) ==
  /\ \/ loc[c] = "refetch" /\ Begin(c)
     \/ loc[c] = "fetch" /\ Event /\ Goto(c, "idle") /\ UNCHANGED <<started, net>>
  /\ Only(<<built, closed, upDone, cache, meowWait>>)

\* The cached map reaches derpMapCacheMaxAge.
CacheAges ==
  /\ cache = "fresh"
  /\ Event
  /\ cache' = "stale"
  /\ UNCHANGED <<srvVars, advVars, meowWait, net,
                 resolved, loc, built, started, closed, upDone>>

\* ping returns and Ping records it: the Dial that waited for it goes on.
PingDone(c) ==
  /\ loc[c] = "wait" /\ c \in meowWait
  /\ upDone' = upDone \cup {c}
  /\ Goto(c, "idle")
  /\ Only(<<built, started, closed, cache, meowWait, net, events>>)

\* Nothing that could still end the wait is under way.
Silence(c) ==
  net \cap {Meow(c), Meowed(c)} = {} /\ c \notin meowWait

\* The packet is not sent, or the ten seconds are over, for lack of an answer
\* or before it arrives.
PingFails(c) ==
  /\ loc[c] = "wait"
  /\ \/ (c \in closed \/ Silence(c)) /\ UNCHANGED events
     \/ c \notin closed /\ Event
  /\ Goto(c, "idle")
  /\ Only(<<built, started, closed, upDone, cache, meowWait, net>>)

\* onDERPRecv on the client: the goroutine of a meowed runs onMeowed, which
\* closes meowWait and advertises our endpoints, once.
OnMeowed(c) ==
  /\ Meowed(c) \in net
  /\ c \in built \ closed
  /\ Delivered(Meowed(c), {})
  /\ meowWait' = meowWait \cup {c}
  /\ \/ c \in meowWait \cup Browsers /\ UNCHANGED due
     \/ /\ c \in Nodes \ meowWait /\ due[c] < MaxPending
        /\ due' = [due EXCEPT ![c] = @ + 1]
  /\ UNCHANGED <<srvVars, cliVars, eps, out, tried>>

\* Client.Close waits for startMu; a client never used stays usable.
CliClose(c) ==
  /\ loc[c] \notin {"fetch", "refetch"}
  /\ c \in built
  /\ Event
  /\ closed' = closed \cup {c}
  /\ Only(<<loc, built, started, upDone, cache, meowWait, net>>)

\* The relay drops a packet, always so when its addressee is not connected.
Lose(p) ==
  /\ p \in net
  /\ net' = net \ {p}
  /\ \/ p[1] = "meow" /\ ~Listening /\ UNCHANGED events
     \/ p[1] = "meowed" /\ p[2] \in closed /\ UNCHANGED events
     \/ Event
  /\ UNCHANGED <<srvVars, cliVars, advVars, meowWait>>

-----------------------------------------------------------------------------
ServerNext ==
  \/ SrvStart \/ SrvStoreMap \/ SrvSetMap \/ SrvUp \/ SrvStartFails \/ SrvClose
  \/ \E c \in Clients : AddAllowedClient(c) \/ OnMeow(c)

ClientNext(c) ==
  \/ Ping(c) \/ Dial(c) \/ ResolveToken(c) \/ InitFails(c)
  \/ ExpandLocally(c) \/ StartFetch(c)
  \/ FetchAnswers(c) \/ FetchFails(c) \/ PingDone(c) \/ PingFails(c)
  \/ OnMeowed(c) \/ CliClose(c)

AdvertiseNext(n) ==
  \/ \E e \in Endpoints \cup {NoEps} : OnEngineStatus(n, e)
  \/ ReadEndpoints(n)
  \/ \E a \in out[n] : SendCallMeMaybe(n, a)

Next ==
  \/ ServerNext
  \/ \E c \in Clients : ClientNext(c)
  \/ \E n \in Nodes : AdvertiseNext(n)
  \/ CacheAges
  \/ \E p \in Packets : Lose(p)

Spec == Init /\ [][Next]_vars

(***************************************************************************)
(* The goroutines run, what is outside the program fails only so often,    *)
(* and the application keeps calling.  The map server answers who has no   *)
(* map at all; who has an old one may never get an answer.                 *)
(***************************************************************************)
Fairness ==
  /\ WF_vars(SrvStart \/ SrvStoreMap \/ SrvSetMap \/ SrvUp)
  /\ \A c \in Clients :
       /\ WF_vars(Ping(c) \/ ExpandLocally(c) \/ StartFetch(c)
                    \/ FetchAnswers(c) \/ (loc[c] = "refetch" /\ FetchFails(c))
                    \/ PingDone(c) \/ PingFails(c))
       /\ WF_vars(OnMeow(c)) /\ WF_vars(OnMeowed(c))
  /\ WF_vars(\E n \in Nodes : ReadEndpoints(n))

LiveSpec == Spec /\ Fairness
-----------------------------------------------------------------------------
(***************************************************************************)
(* Properties.                                                             *)
(***************************************************************************)
RelayHosts(r) == {n.host : n \in Range(RelayNodes(r))}
RelayNearby == \E i \in DOMAIN Region.nodes \cap 1..2 : ~Region.nodes[i].stunOnly

\* "meowed" is the acknowledgment that the client is fully added as a peer
\* (Server.Start's onDERPRecv): whoever was told so is a client under an ID
\* of its own, and in the network map and in magicsock's peers as well unless
\* its meow overtook Server.Start.  A client that started looks for the
\* server at relay nodes of the server's own region, whichever form of the
\* token it was given and whether it resolved it or not; there is one, except
\* for a token that was resolved in a region whose first two nodes only do
\* STUN.  And what the callbacks of the server get is a connection of such a
\* client to the very destination it dialled.
Registered ==
  /\ TypeOK
  /\ IsInjective(clients)
  /\ nm \subseteq Known /\ mc \subseteq Known
  /\ \A c \in started :
       /\ RegionOf(c).id # 0
       /\ c \notin resolved \/ RelayNearby => RelayHosts(RegionOf(c)) # {}
       /\ RelayHosts(RegionOf(c)) \subseteq RelayHosts(Region)
  /\ \A c \in Clients :
       /\ (c \in meowWait \/ Meowed(c) \in net) /\ c \notin early
            => c \in Known \cap nm \cap mc
       /\ c \in Known => c \in early \cup (nm \cap mc)
       /\ c \in upDone \ early /\ srv = "up" /\ Forwards =>
            \A d \in Dests : /\ Dialled(c, d).dst = d
                             /\ (Dialled(c, d).by = "OnTCP") = (d.host = "self")

\* No change of a node's UDP endpoints or peers is missed: for every peer that
\* can use them there was an attempt to send the present endpoints since they
\* are the present ones, or a goroutine that makes it is under way, whatever
\* older goroutines read before the change and send after it
\* (advertiseEndpoints reads the endpoints and the peers under b.mu, and
\* onEngineStatus, onMeow and onMeowed start it after they changed either).
\* The code makes one attempt and does not look at how it went.
NoLostAdvertisement ==
  \A n \in Nodes : \A p \in Peers(n) :
    eps[n] # NoEps /\ (n \in Clients => n \in meowWait \ early) =>
      <<n, p>> \in tried \/ due[n] > 0 \/ <<p, eps[n]>> \in out[n]

\* While the server is up, the clients that it admits and that keep calling
\* all come up, whatever was lost, refused or timed out before (Client.up
\* retries the handshake, ensureStarted the start-up), and even if the map
\* server never answers a client that holds an old DERP map (staleOr).
ComesUp ==
  srv = "up" ~>
    \/ srv = "closed"
    \/ \A c \in Clients : Admitted(c) => c \in upDone \cup closed

=============================================================================
