---------------------------- MODULE TailcatServe ----------------------------
(***************************************************************************)
(* The serve command and the clients that connect to it                    *)
(* (cmd/tailcat/masquecat_cli.go and tailcat.go): which ports a list of    *)
(* ports and services opens, which handler a connection gets               *)
(* (masquecat_core.go), and how a connection then ends.  Without a list    *)
(* the server copies one connection to its standard output and exits;      *)
(* otherwise it joins the connection to a TCP service, the target          *)
(* (ProxyConns).  A client copies its standard input to the connection,    *)
(* closes that half, copies what comes back to its standard output and     *)
(* exits at its end.  Each process has its TCP stack in itself: what the   *)
(* stack has not sent when the process exits is lost.                      *)
(* The two command sets, of MASQUE and of DERP, differ in how they take an *)
(* error: the first logs it and goes on, the second exits.                 *)
(***************************************************************************)
EXTENDS Integers, Sequences, FiniteSets

CONSTANTS
  Clients,    \* client processes
  MaxPort,    \* the last port, for 65535
  SSHPort,    \* 22
  Specs,      \* the lists of ports and services to serve
  Dests,      \* the destinations users ask clients for
  Units,      \* how many pieces a client's standard input has
  MaxServed,  \* bound: how many clients call on a server with a list, whose
              \* connections share nothing
  NoDest

VARIABLES
  spec,     \* the list this server serves
  legacy,   \* the command set is the one of DERP
  proc,     \* the server process: "up", or how it ended
  out,      \* what is on its standard output: <<client, piece>> in order
  outOpen,  \* its standard output is open
  spoilt,   \* history: a write to it failed by itself, and the handler went on
  main,     \* c |-> where the main goroutine of client c is
  feed,     \* c |-> its standard-input goroutine: "run", "closed" or "failed"
  sent,     \* c |-> how many pieces it has sent
  dest,     \* c |-> what its user asked for, until the handler runs
  hand,     \* c |-> the handler of its connection, NoHandler before and when refused
  at,       \* c |-> where that handler is
  got,      \* c |-> how many pieces the handler has read
  down,     \* c |-> the direction to the client
  target    \* c |-> the target its connection is joined to

serverVars == <<spec, legacy, proc, out, outOpen, spoilt>>
clientVars == <<main, feed, sent, dest>>
connVars == <<hand, at, got, down, target>>
serveVars == <<serverVars, clientVars, connVars>>

-----------------------------------------------------------------------------
(***************************************************************************)
(* What is served, and to whom.  A list is a set of items: a service by    *)
(* its name, or a range of ports.                                          *)
(***************************************************************************)
Item(name, a, b) == [name |-> name, a |-> a, b |-> b]
Service(name) == Item(name, 0, 0)

ASSUME ServeAssumption ==
  /\ MaxPort \in Nat /\ SSHPort \in 0 .. MaxPort - 1 /\ Units \in Nat
  /\ \A i \in UNION Specs :
       IF i.name = "range" THEN i.a \in 0 .. MaxPort /\ i.b \in 0 .. MaxPort ELSE i = Service(i.name)
  /\ \A d \in Dests : d = [net |-> d.net, host |-> d.host, port |-> d.port] /\ d.port \in 0 .. MaxPort
  /\ \A d \in Dests : d.net # "ping"   \* the control address is not one a user names
  /\ NoDest \notin Dests

\* parsePortSet: a range may be given from its upper end; "all" leaves 0 out.
ItemPorts(i) ==
  CASE i.name = "range" -> IF i.b < i.a THEN i.b .. i.a ELSE i.a .. i.b
    [] i.name = "all"   -> 1 .. MaxPort
    [] OTHER            -> {}
parsePortSet(s) ==
  [ports |-> UNION {ItemPorts(i) : i \in s},
   services |-> {i.name : i \in s} \ {"range", "all"}]

\* sshServices, and the mode that copies a connection to standard output.
SSHServices(p) == p.services \cap {"no-auth-ssh", "files"} # {}
ExitNode(p) == "exit-node" \in p.services
OneShotStdout(p) == p.ports = {} /\ p.services = {}

\* slices.Sorted: the ports of a set in order.
SortedPorts(S) ==
  LET upTo[i \in 0 .. MaxPort + 1] ==
        IF i = 0 THEN <<>> ELSE IF i - 1 \in S THEN Append(upTo[i - 1], i - 1) ELSE upTo[i - 1]
  IN  upTo[MaxPort + 1]

\* Mutant: a port ends the range before it without becoming part of it.
NextRangeOffByOne(ret, p) ==
  LET n == Len(ret) IN
    IF n > 0 /\ ret[n][2] + 1 = p
    THEN IF p = MaxPort THEN ret ELSE [ret EXCEPT ![n] = <<@[1], p>>]
    ELSE Append(ret, <<p, p>>)

\* portRanges, on 16 bits: the port after the last one is 0.
NextRange(ret, p) ==
  LET n == Len(ret) IN
    IF n > 0 /\ (ret[n][2] + 1) % (MaxPort + 1) = p
    THEN [ret EXCEPT ![n] = <<@[1], p>>] ELSE Append(ret, <<p, p>>)
portRanges(sorted) ==
  LET ret[i \in 0 .. Len(sorted)] == IF i = 0 THEN <<>> ELSE NextRange(ret[i - 1], sorted[i])
  IN  ret[Len(sorted)]

\* ServedTCPPorts: no filter (nil) for standard output and for an exit node.
ServedTCPPorts(p) ==
  LET sorted == SortedPorts(p.ports)
  IN  IF OneShotStdout(p) \/ ExitNode(p) THEN <<>>
      ELSE portRanges(IF SSHServices(p) /\ SSHPort \notin p.ports
                      THEN <<SSHPort>> \o sorted ELSE sorted)
localPortAllowed(served, port) ==
  served = <<>> \/ \E i \in DOMAIN served : served[i][1] <= port /\ port <= served[i][2]

\* A handler: what it does, and the host and port it is joined to.
NoHost == <<"", "">>
Localhost == <<"localhost", "">>
Handler(kind, host, port) == [kind |-> kind, host |-> host, port |-> port]
NoHandler == Handler("none", NoHost, 0)
SSH == Handler("ssh", NoHost, 0)
Stdout == Handler("stdout", NoHost, 0)
Ping == Handler("ping", NoHost, 0)
ForwardTo(host, port) == Handler("proxy", host, port)

\* OnTCP, for a connection to the server's own address.
OnTCP(p, port) ==
  CASE port = SSHPort /\ SSHServices(p) -> SSH
    [] ~(port = SSHPort /\ SSHServices(p)) /\ ExitNode(p) -> ForwardTo(Localhost, port)
    [] OneShotStdout(p) -> Stdout
    [] OTHER -> IF port \notin p.ports THEN NoHandler ELSE ForwardTo(Localhost, port)

\* DialTCP: an IPv4 address goes over the tunnel under the NAT64 prefix.
DialTCP(d) == IF d.net = "v4" THEN [d EXCEPT !.net = "nat64"] ELSE d

\* handleTCPForward: the address and port pings are for; the server's own
\* address; any other one for an exit node, which takes the NAT64 prefix off
\* again.
PingDest == [net |-> "ping", host |-> "", port |-> 0]
handleTCPForward(p, d) ==
  IF d.net = "ping" THEN Ping
  ELSE IF d.net = "self"
  THEN IF localPortAllowed(ServedTCPPorts(p), d.port) THEN OnTCP(p, d.port) ELSE NoHandler
  ELSE IF ~ExitNode(p) THEN NoHandler
  ELSE IF d.net = "nat64" THEN ForwardTo(<<"v4", d.host>>, d.port)
  ELSE ForwardTo(<<d.net, d.host>>, d.port)

-----------------------------------------------------------------------------
Ended == {"exit0", "exit1"}
NoTarget == [got |-> 0, eof |-> FALSE, closed |-> FALSE, reply |-> 0, fwd |-> FALSE, back |-> FALSE]

\* down: "fin" the server's FIN is on its way, "read" the client has it and
\* owes the acknowledgement, "acked"; "rst" the connection is reset; "lost" the
\* server has gone and nothing will come.
\* target: the pieces it was sent; whether it was sent EOF and has closed; its
\* reply (0 none, 1 written, 2 copied, 3 on the client's standard output); and
\* which of the two copies of ProxyConns are over.
ServeTypeOK ==
  /\ spec \in Specs /\ legacy \in BOOLEAN /\ outOpen \in BOOLEAN /\ spoilt \in BOOLEAN
  /\ proc \in {"up", "drained", "capped", "fatal"}
  /\ out \in Seq(Clients \X (1 .. Units))
  /\ main \in [Clients -> {"idle", "dial", "copy", "drain"} \cup Ended]
  /\ feed \in [Clients -> {"run", "closed", "failed"}]
  /\ sent \in [Clients -> 0 .. Units] /\ got \in [Clients -> 0 .. Units]
  /\ dest \in [Clients -> Dests \cup {NoDest}]
  /\ at \in [Clients -> {"none", "start", "copy", "close", "drain", "proxy", "over"}]
  /\ down \in [Clients -> {"open", "fin", "read", "acked", "rst", "lost"}]
  /\ \A c \in Clients : got[c] <= sent[c]

ServeInit ==
  /\ spec \in Specs /\ legacy \in BOOLEAN /\ proc = "up" /\ out = <<>>
  /\ outOpen = TRUE /\ spoilt = FALSE
  /\ main = [c \in Clients |-> "idle"] /\ feed = [c \in Clients |-> "run"]
  /\ sent = [c \in Clients |-> 0] /\ dest = [c \in Clients |-> NoDest]
  /\ hand = [c \in Clients |-> NoHandler] /\ at = [c \in Clients |-> "none"]
  /\ got = [c \in Clients |-> 0] /\ down = [c \in Clients |-> "open"]
  /\ target = [c \in Clients |-> NoTarget]

-----------------------------------------------------------------------------
(* The client: clientMode and masqueClientMode.                             *)
-----------------------------------------------------------------------------
\* The ping (a connection under MASQUE, a message under DERP), which may fail;
\* then the destination that is dialled.
ClientPing(c) ==
  /\ main[c] = "idle"
  /\ spec # {} => Cardinality({d \in Clients : main[d] # "idle"}) < MaxServed
  /\ \/ /\ proc = "up" /\ (legacy \/ handleTCPForward(parsePortSet(spec), PingDest) # NoHandler)
        /\ main' = [main EXCEPT ![c] = "dial"] /\ \E d \in Dests : dest' = [dest EXCEPT ![c] = d]
     \/ main' = [main EXCEPT ![c] = "exit1"] /\ UNCHANGED dest
  /\ UNCHANGED <<feed, sent, serverVars, connVars>>

\* The SYN reaches the server, whose handleTCPForward finds a handler or
\* refuses; or the dial fails.
ClientDial(c) ==
  /\ main[c] = "dial"
  /\ LET h == handleTCPForward(parsePortSet(spec), DialTCP(dest[c]))
     IN  \/ /\ proc = "up" /\ h # NoHandler
            /\ hand' = [hand EXCEPT ![c] = h] /\ at' = [at EXCEPT ![c] = "start"]
            /\ main' = [main EXCEPT ![c] = "copy"] /\ UNCHANGED dest
         \/ /\ main' = [main EXCEPT ![c] = "exit1"] /\ dest' = [dest EXCEPT ![c] = NoDest]
            /\ UNCHANGED <<hand, at>>
  /\ UNCHANGED <<feed, sent, serverVars, got, down, target>>

\* The goroutine of standard input sends the next piece, or EOF after the last.
ClientFeed(c) ==
  /\ main[c] \in {"copy", "drain"} /\ feed[c] = "run" /\ down[c] # "rst"
  /\ \/ sent[c] < Units /\ sent' = [sent EXCEPT ![c] = @ + 1] /\ UNCHANGED feed
     \/ sent[c] = Units /\ feed' = [feed EXCEPT ![c] = "closed"] /\ UNCHANGED sent
  /\ UNCHANGED <<main, dest, serverVars, connVars>>

\* Its write fails on a connection that was reset.
ClientFeedFail(c) ==
  /\ main[c] \in {"copy", "drain"} /\ feed[c] = "run" /\ down[c] = "rst"
  /\ feed' = [feed EXCEPT ![c] = "failed"]
  /\ main' = [main EXCEPT ![c] = IF legacy THEN "exit1" ELSE @]
  /\ UNCHANGED <<sent, dest, serverVars, connVars>>

\* The main goroutine copies the reply of the target to standard output.
ClientRead(c) ==
  /\ main[c] = "copy" /\ down[c] # "rst" /\ target[c].reply = 2
  /\ target' = [target EXCEPT ![c].reply = 3]
  /\ UNCHANGED <<serverVars, clientVars, hand, at, got, down>>

\* Mutant: the client exits when it has sent everything.
ClientEOFHopeful(c) ==
  /\ main[c] = "copy" /\ (down[c] = "fin" \/ feed[c] = "closed")
  /\ main' = [main EXCEPT ![c] = "drain"]
  /\ down' = [down EXCEPT ![c] = IF @ = "fin" THEN "read" ELSE @]
  /\ UNCHANGED <<feed, sent, dest, serverVars, hand, at, got, target>>

\* It reads EOF, after all that came before it.
ClientEOF(c) ==
  /\ main[c] = "copy" /\ down[c] = "fin" /\ target[c].reply # 2
  /\ main' = [main EXCEPT ![c] = "drain"] /\ down' = [down EXCEPT ![c] = "read"]
  /\ UNCHANGED <<feed, sent, dest, serverVars, hand, at, got, target>>

\* Its read fails: the connection was reset, or the stack gives up on a server
\* that has gone.
ClientReadFail(c) ==
  /\ main[c] = "copy" /\ down[c] \in {"rst", "lost"}
  /\ main' = [main EXCEPT ![c] = "exit1"]
  /\ UNCHANGED <<feed, sent, dest, serverVars, connVars>>

\* The stack acknowledges the server's FIN, as long as its process lives.
ClientAck(c) ==
  /\ main[c] = "drain" /\ down[c] = "read" /\ down' = [down EXCEPT ![c] = "acked"]
  /\ UNCHANGED <<serverVars, clientVars, hand, at, got, target>>

\* DrainTCP returns: the endpoint is in TIME_WAIT, which says nothing of that
\* acknowledgement, or the five seconds are over.  The process exits.
ClientExit(c) ==
  /\ main[c] = "drain" /\ main' = [main EXCEPT ![c] = "exit0"]
  /\ UNCHANGED <<feed, sent, dest, serverVars, connVars>>

-----------------------------------------------------------------------------
(* The server: the handlers of masqueServer and of server, and ProxyConns.  *)
-----------------------------------------------------------------------------
Accepted == {c \in Clients : at[c] # "none"}

\* The server's end of connection c is closed: a FIN, or a reset when the
\* client has sent what was not read.
Closed(c) ==
  \E d \in {"fin"} \cup (IF sent[c] > got[c] THEN {"rst"} ELSE {}) :
     down' = [down EXCEPT ![c] = IF @ = "open" \/ d = "rst" THEN d ELSE @]

\* The process ends: a FIN that is not out yet goes with it.
Gone(how) ==
  /\ proc' = how
  /\ \E lost \in SUBSET {c \in Clients : down[c] = "fin"} :
       down' = [c \in Clients |->
                  IF c \in lost \/ (c \in Accepted /\ down[c] = "open") THEN "lost" ELSE down[c]]

\* The handler starts; one that forwards dials its target first and closes the
\* connection when there is none.
HandlerStart(c) ==
  /\ proc = "up" /\ at[c] = "start" /\ hand[c].kind # "ssh" /\ dest' = [dest EXCEPT ![c] = NoDest]
  /\ \/ hand[c] = Stdout /\ at' = [at EXCEPT ![c] = "copy"] /\ UNCHANGED <<hand, down, target>>
     \/ /\ hand[c].kind = "proxy" /\ hand' = [hand EXCEPT ![c] = ForwardTo(NoHost, 0)]
        /\ \/ at' = [at EXCEPT ![c] = "proxy"] /\ UNCHANGED <<down, target>>
           \/ at' = [at EXCEPT ![c] = "over"] /\ Closed(c) /\ target' = [target EXCEPT ![c].closed = TRUE]
  /\ UNCHANGED <<main, feed, sent, serverVars, got>>

\* The copy to standard output.  The write fails when another handler has
\* closed it, or by itself: the command set of MASQUE then logs the error and
\* closes as after EOF, the one of DERP exits; and either process is killed by
\* the signal of a broken pipe.
StdoutCopy(c) ==
  /\ proc = "up" /\ at[c] = "copy" /\ got[c] < sent[c]
  /\ \/ /\ outOpen /\ out' = Append(out, <<c, got[c] + 1>>) /\ got' = [got EXCEPT ![c] = @ + 1]
        /\ UNCHANGED <<at, proc, down, spoilt>>
     \/ /\ ~legacy /\ at' = [at EXCEPT ![c] = "close"] /\ got' = [got EXCEPT ![c] = @ + 1]
        /\ spoilt' = (spoilt \/ outOpen) /\ UNCHANGED <<out, proc, down>>
     \/ /\ legacy \/ outOpen
        /\ Gone("fatal") /\ UNCHANGED <<out, got, at, spoilt>>
  /\ UNCHANGED <<spec, legacy, outOpen, clientVars, hand, target>>

\* Mutant: the process exits as soon as the copy is over.
StdoutEOFExits(c) ==
  /\ proc = "up" /\ at[c] = "copy" /\ feed[c] = "closed" /\ got[c] = Units
  /\ Gone("drained")
  /\ UNCHANGED <<spec, legacy, out, outOpen, spoilt, clientVars, hand, at, got, target>>

\* The client's EOF.
StdoutEOF(c) ==
  /\ proc = "up" /\ at[c] = "copy" /\ feed[c] = "closed" /\ got[c] = Units
  /\ at' = [at EXCEPT ![c] = "close"]
  /\ UNCHANGED <<serverVars, clientVars, hand, got, down, target>>

\* os.Stdout.Close, and then Close of the connection.
StdoutClose(c) ==
  /\ proc = "up" /\ at[c] = "close" /\ at' = [at EXCEPT ![c] = "drain"]
  /\ outOpen' = FALSE /\ Closed(c)
  /\ UNCHANGED <<spec, legacy, proc, out, spoilt, clientVars, hand, got, target>>

\* DrainTCP and os.Exit: no connection of the process is in a state in which
\* it may have to send, or the five seconds are over.
ServerDrained(c) ==
  /\ proc = "up" /\ at[c] = "drain"
  /\ \A d \in Accepted : down[d] = "rst" \/ (down[d] = "acked" /\ feed[d] = "closed")
  /\ Gone("drained")
  /\ UNCHANGED <<spec, legacy, out, outOpen, spoilt, clientVars, hand, at, got, target>>
ServerCapped(c) ==
  /\ proc = "up" /\ at[c] = "drain" /\ Gone("capped")
  /\ UNCHANGED <<spec, legacy, out, outOpen, spoilt, clientVars, hand, at, got, target>>

\* A piece arrives for a connection that is closed, which resets it.
LateReset(c) ==
  /\ proc = "up" /\ at[c] \in {"drain", "over"} /\ down[c] = "fin" /\ sent[c] > got[c]
  /\ down' = [down EXCEPT ![c] = "rst"]
  /\ UNCHANGED <<serverVars, clientVars, hand, at, got, target>>

\* ProxyConns, from the client to the target: a piece, which is lost once the
\* target has closed; and EOF, which closes that half.
ForwardCopy(c) ==
  /\ at[c] = "proxy" /\ ~target[c].fwd /\ got[c] < sent[c] /\ got' = [got EXCEPT ![c] = @ + 1]
  /\ IF target[c].closed
     THEN \E failed \in BOOLEAN : target' = [target EXCEPT ![c].fwd = failed]
     ELSE target' = [target EXCEPT ![c].got = @ + 1]
  /\ UNCHANGED <<serverVars, clientVars, hand, at, down>>
ForwardEOF(c) ==
  /\ at[c] = "proxy" /\ ~target[c].fwd /\ feed[c] = "closed" /\ got[c] = Units
  /\ target' = [target EXCEPT ![c].fwd = TRUE, ![c].eof = TRUE]
  /\ UNCHANGED <<serverVars, clientVars, hand, at, got, down>>

\* From the target to the client: its reply, and its EOF.
BackCopy(c) ==
  /\ at[c] = "proxy" /\ target[c].reply = 1 /\ target' = [target EXCEPT ![c].reply = 2]
  /\ UNCHANGED <<serverVars, clientVars, hand, at, got, down>>
BackEOF(c) ==
  /\ at[c] = "proxy" /\ ~target[c].back /\ target[c].closed /\ target[c].reply # 1
  /\ target' = [target EXCEPT ![c].back = TRUE]
  /\ down' = [down EXCEPT ![c] = IF @ = "open" THEN "fin" ELSE @]
  /\ UNCHANGED <<serverVars, clientVars, hand, at, got>>

\* Mutant: the end of either direction closes both connections.
ProxyCloseEither(c) ==
  /\ at[c] = "proxy" /\ (target[c].fwd \/ target[c].back)
  /\ at' = [at EXCEPT ![c] = "over"] /\ Closed(c)
  /\ UNCHANGED <<serverVars, clientVars, hand, got, target>>

\* Both directions are over, and both connections are closed.
ProxyClose(c) ==
  /\ at[c] = "proxy" /\ target[c].fwd /\ target[c].back
  /\ at' = [at EXCEPT ![c] = "over"] /\ Closed(c)
  /\ UNCHANGED <<serverVars, clientVars, hand, got, target>>

\* The target may reply, and close whenever it wants to.
TargetStep(c) ==
  /\ at[c] = "proxy" /\ ~target[c].closed
  /\ \/ target[c].reply = 0 /\ target' = [target EXCEPT ![c].reply = 1]
     \/ target' = [target EXCEPT ![c].closed = TRUE]
  /\ UNCHANGED <<serverVars, clientVars, hand, at, got, down>>

-----------------------------------------------------------------------------
ClientStep(c) == ClientPing(c) \/ ClientDial(c) \/ ClientFeed(c) \/ ClientFeedFail(c)
  \/ ClientRead(c) \/ ClientEOF(c) \/ ClientReadFail(c) \/ ClientAck(c) \/ ClientExit(c)
StdoutStep(c) == StdoutCopy(c) \/ StdoutEOF(c) \/ StdoutClose(c) \/ ServerDrained(c) \/ ServerCapped(c)
ProxyStep(c) == ForwardCopy(c) \/ ForwardEOF(c) \/ BackCopy(c) \/ BackEOF(c) \/ ProxyClose(c)

ServeNext == \E c \in Clients :
  ClientStep(c) \/ HandlerStart(c) \/ StdoutStep(c) \/ LateReset(c) \/ ProxyStep(c) \/ TargetStep(c)

\* Goroutines go on, what a live stack sends arrives, standard input ends; no
\* claim is made of a target, or of a client's acknowledgement.
ServeFairness == \A c \in Clients :
  /\ WF_serveVars(ClientFeed(c) \/ ClientFeedFail(c))
  /\ WF_serveVars(ClientRead(c) \/ ClientEOF(c) \/ (ClientReadFail(c) /\ down[c] = "rst"))
  /\ WF_serveVars(ClientExit(c))
  /\ WF_serveVars(HandlerStart(c) \/ StdoutStep(c)) /\ WF_serveVars(BackCopy(c) \/ BackEOF(c))

ServeSpec == ServeInit /\ [][ServeNext]_serveVars /\ ServeFairness
-----------------------------------------------------------------------------
\* What a list of ports and services says is what a connection gets, past the
\* port filter, the handler table and the addresses in the tunnel: SSH on its
\* port when a service runs over it, the port of the local host that was
\* listed or, with an exit node, the very host and port the user named.
Listed(p) == \E i \in spec :
  \/ i.name = "range" /\ (p \in i.a .. i.b \/ p \in i.b .. i.a)
  \/ i.name = "all" /\ p # 0
Named(name) == Service(name) \in spec
ServedAsListed ==
  \A c \in Clients : dest[c] # NoDest /\ main[c] = "copy" =>
    LET d == dest[c]
    IN  CASE d.net # "self" ->
               Named("exit-node") /\ hand[c] = ForwardTo(<<IF d.net = "nat64" THEN "v4" ELSE d.net, d.host>>, d.port)
          [] hand[c].kind = "ssh" -> d.port = SSHPort /\ (Named("no-auth-ssh") \/ Named("files"))
          [] hand[c] = Stdout -> spec = {}
          [] OTHER -> (Listed(d.port) \/ Named("exit-node")) /\ hand[c] = ForwardTo(Localhost, d.port)
RefusedAsListed ==
  \A c \in Clients : main[c] = "dial" /\ dest[c].net = "self"
                     /\ handleTCPForward(parsePortSet(spec), DialTCP(dest[c])) = NoHandler =>
    spec # {} /\ ~Listed(dest[c].port) /\ ~Named("exit-node")
    /\ (dest[c].port = SSHPort => ~Named("no-auth-ssh") /\ ~Named("files"))
ServedExactly == ServedAsListed /\ RefusedAsListed

\* The server's close "confirms delivery of everything we sent": when a client
\* exits with success after the only connection a server without a list has
\* had, that server has closed its standard output with all of the client's
\* input on it, in order; and a client that was joined to a target exits so
\* only after the target has closed, with all of the target's reply on its own
\* standard output.  The one exception is a write to standard output that
\* fails by itself under the command set of MASQUE: the server logs it, closes
\* all the same, and the client takes that for the confirmation.
CloseConfirms ==
  \A c \in Clients : main[c] = "exit0" =>
    /\ hand[c] = Stdout /\ Accepted = {c} =>
         ~outOpen /\ (~spoilt => out = [i \in 1 .. Units |-> <<c, i>>])
    /\ hand[c].kind = "proxy" => target[c].closed /\ target[c].reply \in {0, 3}

\* A server without a list exits once it has had a connection.  Its client
\* exits too and is not left hanging, unless the server gave up waiting for
\* the acknowledgement, was ended by a failing write to standard output (the
\* connections then get no FIN), or had a second connection; and so does a
\* client whose target has closed.
PipeEnds ==
  \A c \in Clients :
    /\ (hand[c] = Stdout) ~> (proc # "up")
    /\ (hand[c] = Stdout) ~> (main[c] \in Ended \/ proc \in {"capped", "fatal"} \/ Accepted # {c})
    /\ (hand[c].kind = "proxy" /\ target[c].closed) ~> (main[c] \in Ended)

\* Help of --serve: "If empty, it accepts a single connection on any port,
\* writes it to stdout, and exits."  What is on standard output came from one
\* connection.
SingleConnection == \A i, j \in DOMAIN out : out[i][1] = out[j][1]
=============================================================================
