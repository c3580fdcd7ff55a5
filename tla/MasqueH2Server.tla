--------------------------- MODULE MasqueH2Server ---------------------------
(***************************************************************************)
(* The life cycle of masqueHTTP2Server (masquecat_h2.go): listeners, the   *)
(* connections they accept, the request handler of each, and Close, which  *)
(* may be called by several goroutines (the owner's Close and the watcher  *)
(* of the context).                                                        *)
(*                                                                         *)
(* s.wg counts a registered listener until serveRegistered has returned,   *)
(* and an admitted connection until serveConn has.  The handler's own      *)
(* goroutine is not counted.  readLoop writes a DATA frame into a pipe     *)
(* that only the handler empties, so it may be held up after its           *)
(* connection is closed.                                                   *)
(***************************************************************************)
EXTENDS FiniteSets

CONSTANTS
  Listeners,     \* listeners startMasqueHTTP2 opens
  Conns,         \* connections of clients
  Closers,       \* goroutines that call Close
  NoConn

ASSUME ServerAssumption == NoConn \notin Conns

VARIABLES
  closed,    \* s.closed
  listed,    \* s.listeners
  bound,     \* listeners whose port is bound
  lloc,      \* where the goroutine of each listener is
  lconn,     \* the connection it has just accepted, or NoConn
  conns,     \* s.conns
  open,      \* connections that are open
  cloc,      \* where the readLoop of each connection is
  hloc,      \* where its handler is
  kloc,      \* where each caller of Close is
  toClose,   \* what each caller of Close has still to close
  stray      \* history: listeners whose AcceptConn failed although they were open

serverVars == <<closed, listed, bound, lloc, lconn, conns, open, cloc, hloc, kloc, toClose, stray>>

\* s.wg: what Close waits for.
Waited ==
  {l \in Listeners : lloc[l] \in {"ready", "accept", "got", "exit"}} \cup
  {c \in Conns : cloc[c] \in {"read", "pipe", "exit"}}

ServerTypeOK ==
  /\ closed \in BOOLEAN /\ listed \in SUBSET Listeners /\ bound \in SUBSET Listeners
  /\ lloc \in [Listeners -> {"new", "listening", "ready", "accept", "got", "exit", "done"}]
  /\ lconn \in [Listeners -> Conns \cup {NoConn}]
  /\ \A l \in Listeners : lconn[l] # NoConn <=> lloc[l] = "got"
  /\ conns \in SUBSET Conns /\ open \in SUBSET Conns
  /\ cloc \in [Conns -> {"new", "taken", "read", "pipe", "exit", "done"}]
  /\ hloc \in [Conns -> {"none", "recv", "busy", "done"}]
  /\ kloc \in [Closers -> {"idle", "closing", "wait", "done"}]
  /\ toClose \in [Closers -> SUBSET (Listeners \cup Conns)]
  /\ stray \in SUBSET Listeners

ServerInit ==
  /\ closed = FALSE /\ listed = {} /\ bound = {}
  /\ lloc = [l \in Listeners |-> "new"] /\ lconn = [l \in Listeners |-> NoConn]
  /\ conns = {} /\ open = {}
  /\ cloc = [c \in Conns |-> "new"] /\ hloc = [c \in Conns |-> "none"]
  /\ kloc = [k \in Closers |-> "idle"] /\ toClose = [k \in Closers |-> {}]
  /\ stray = {}

-----------------------------------------------------------------------------
\* startMasqueHTTP2: net.Listen ...
Listen(l) ==
  /\ lloc[l] = "new" /\ bound' = bound \cup {l}
  /\ lloc' = [lloc EXCEPT ![l] = "listening"]
  /\ UNCHANGED <<closed, listed, lconn, conns, open, cloc, hloc, kloc, toClose, stray>>

\* Mutant: registerListener does not look at s.closed.
RegisterAnyway(l) ==
  /\ lloc[l] = "listening"
  /\ listed' = listed \cup {l} /\ lloc' = [lloc EXCEPT ![l] = "ready"]
  /\ UNCHANGED <<closed, bound, lconn, conns, open, cloc, hloc, kloc, toClose, stray>>

\* ... and registerListener, before the goroutine that serves is started.
Register(l) ==
  /\ lloc[l] = "listening"
  /\ IF closed
     THEN bound' = bound \ {l} /\ lloc' = [lloc EXCEPT ![l] = "done"] /\ UNCHANGED listed
     ELSE listed' = listed \cup {l} /\ lloc' = [lloc EXCEPT ![l] = "ready"] /\ UNCHANGED bound
  /\ UNCHANGED <<closed, lconn, conns, open, cloc, hloc, kloc, toClose, stray>>

Serve(l) ==
  /\ lloc[l] = "ready" /\ lloc' = [lloc EXCEPT ![l] = "accept"]
  /\ UNCHANGED <<closed, listed, bound, lconn, conns, open, cloc, hloc, kloc, toClose, stray>>

\* A client connects and AcceptConn returns its connection.
AcceptConn(l) ==
  /\ lloc[l] = "accept" /\ l \in bound
  /\ \E c \in Conns :
       /\ cloc[c] = "new" /\ cloc' = [cloc EXCEPT ![c] = "taken"]
       /\ open' = open \cup {c} /\ lconn' = [lconn EXCEPT ![l] = c]
  /\ lloc' = [lloc EXCEPT ![l] = "got"]
  /\ UNCHANGED <<closed, listed, bound, conns, hloc, kloc, toClose, stray>>

\* AcceptConn fails: the listener was closed, or the system is out of resources.
AcceptError(l) ==
  /\ lloc[l] = "accept" /\ lloc' = [lloc EXCEPT ![l] = "exit"]
  /\ stray' = stray \cup ({l} \cap bound)
  /\ UNCHANGED <<closed, listed, bound, lconn, conns, open, cloc, hloc, kloc, toClose>>

\* Mutant: a connection is admitted without a second look at s.closed.
AdmitAnyway(l) ==
  /\ lloc[l] = "got"
  /\ conns' = conns \cup {lconn[l]} /\ cloc' = [cloc EXCEPT ![lconn[l]] = "read"]
  /\ lloc' = [lloc EXCEPT ![l] = "accept"]
  /\ lconn' = [lconn EXCEPT ![l] = NoConn]
  /\ UNCHANGED <<closed, listed, bound, open, hloc, kloc, toClose, stray>>

\* The connection is counted and served, or turned away by a closed server.
Admit(l) ==
  /\ lloc[l] = "got"
  /\ IF closed
     THEN /\ open' = open \ {lconn[l]} /\ cloc' = [cloc EXCEPT ![lconn[l]] = "done"]
          /\ lloc' = [lloc EXCEPT ![l] = "exit"] /\ UNCHANGED conns
     ELSE /\ conns' = conns \cup {lconn[l]} /\ cloc' = [cloc EXCEPT ![lconn[l]] = "read"]
          /\ lloc' = [lloc EXCEPT ![l] = "accept"] /\ UNCHANGED open
  /\ lconn' = [lconn EXCEPT ![l] = NoConn]
  /\ UNCHANGED <<closed, listed, bound, hloc, kloc, toClose, stray>>

\* serveRegistered returns.
StopServing(l) ==
  /\ lloc[l] = "exit" /\ lloc' = [lloc EXCEPT ![l] = "done"] /\ listed' = listed \ {l}
  /\ UNCHANGED <<closed, bound, lconn, conns, open, cloc, hloc, kloc, toClose, stray>>

-----------------------------------------------------------------------------
\* startRequest: the handler gets a goroutine of its own.
StartRequest(c) ==
  /\ cloc[c] = "read" /\ c \in open /\ hloc[c] = "none"
  /\ hloc' = [hloc EXCEPT ![c] = "recv"]
  /\ UNCHANGED <<closed, listed, bound, lloc, lconn, conns, open, cloc, kloc, toClose, stray>>

\* readLoop has a DATA frame for the handler and writes it into the pipe.
PipeWrite(c) ==
  /\ cloc[c] = "read" /\ c \in open /\ hloc[c] \in {"recv", "busy"}
  /\ cloc' = [cloc EXCEPT ![c] = "pipe"]
  /\ UNCHANGED <<closed, listed, bound, lloc, lconn, conns, open, hloc, kloc, toClose, stray>>

\* The handler reads it, and works on it.
PipeRead(c) ==
  /\ cloc[c] = "pipe" /\ hloc[c] = "recv"
  /\ cloc' = [cloc EXCEPT ![c] = "read"] /\ hloc' = [hloc EXCEPT ![c] = "busy"]
  /\ UNCHANGED <<closed, listed, bound, lloc, lconn, conns, open, kloc, toClose, stray>>

HandlerIdle(c) ==
  /\ hloc[c] = "busy" /\ hloc' = [hloc EXCEPT ![c] = "recv"]
  /\ UNCHANGED <<closed, listed, bound, lloc, lconn, conns, open, cloc, kloc, toClose, stray>>

\* The handler returns, of its own accord or because the body has ended: the
\* pipe and the connection are closed.
HandlerReturn(c) ==
  /\ hloc[c] \in {"recv", "busy"} /\ hloc' = [hloc EXCEPT ![c] = "done"]
  /\ open' = open \ {c}
  /\ cloc' = IF cloc[c] = "pipe" THEN [cloc EXCEPT ![c] = "exit"] ELSE cloc
  /\ UNCHANGED <<closed, listed, bound, lloc, lconn, conns, kloc, toClose, stray>>

\* The client goes away.
Hangup(c) ==
  /\ cloc[c] \in {"read", "pipe"} /\ c \in open /\ open' = open \ {c}
  /\ UNCHANGED <<closed, listed, bound, lloc, lconn, conns, cloc, hloc, kloc, toClose, stray>>

\* ReadFrame fails on a closed connection.
ReadError(c) ==
  /\ cloc[c] = "read" /\ c \notin open /\ cloc' = [cloc EXCEPT ![c] = "exit"]
  /\ UNCHANGED <<closed, listed, bound, lloc, lconn, conns, open, hloc, kloc, toClose, stray>>

\* readLoop gives up a connection that is open: a frame it refuses, RST_STREAM,
\* GOAWAY, or no answer to a PING.
ReadRefuse(c) ==
  /\ cloc[c] = "read" /\ c \in open /\ cloc' = [cloc EXCEPT ![c] = "exit"]
  /\ UNCHANGED <<closed, listed, bound, lloc, lconn, conns, open, hloc, kloc, toClose, stray>>

\* serveConn returns: c.close ends the body, the connection is closed and
\* leaves s.conns.
ServeConnReturn(c) ==
  /\ cloc[c] = "exit" /\ cloc' = [cloc EXCEPT ![c] = "done"]
  /\ open' = open \ {c} /\ conns' = conns \ {c}
  /\ UNCHANGED <<closed, listed, bound, lloc, lconn, hloc, kloc, toClose, stray>>

-----------------------------------------------------------------------------
\* Mutant: Close forgets the connections.
CloseBeginListeners(k) ==
  /\ kloc[k] = "idle" /\ closed' = TRUE
  /\ IF closed
     THEN kloc' = [kloc EXCEPT ![k] = "wait"] /\ UNCHANGED toClose
     ELSE /\ toClose' = [toClose EXCEPT ![k] = listed]
          /\ kloc' = [kloc EXCEPT ![k] = "closing"]
  /\ UNCHANGED <<listed, bound, lloc, lconn, conns, open, cloc, hloc, stray>>

\* Close: the first caller takes a snapshot under s.mu; a later one only waits.
CloseBegin(k) ==
  /\ kloc[k] = "idle" /\ closed' = TRUE
  /\ IF closed
     THEN kloc' = [kloc EXCEPT ![k] = "wait"] /\ UNCHANGED toClose
     ELSE /\ toClose' = [toClose EXCEPT ![k] = listed \cup conns]
          /\ kloc' = [kloc EXCEPT ![k] = "closing"]
  /\ UNCHANGED <<listed, bound, lloc, lconn, conns, open, cloc, hloc, stray>>

\* Listeners first, then connections, one at a time, without the lock.
CloseOne(k) ==
  /\ kloc[k] = "closing"
  /\ \E x \in toClose[k] :
       /\ x \in Listeners \/ toClose[k] \cap Listeners = {}
       /\ toClose' = [toClose EXCEPT ![k] = @ \ {x}]
       /\ bound' = bound \ {x} /\ open' = open \ {x}
  /\ UNCHANGED <<closed, listed, lloc, lconn, conns, cloc, hloc, kloc, stray>>

CloseAll(k) ==
  /\ kloc[k] = "closing" /\ toClose[k] = {} /\ kloc' = [kloc EXCEPT ![k] = "wait"]
  /\ UNCHANGED <<closed, listed, bound, lloc, lconn, conns, open, cloc, hloc, toClose, stray>>

\* s.wg.Wait returns.
CloseReturn(k) ==
  /\ kloc[k] = "wait" /\ Waited = {} /\ kloc' = [kloc EXCEPT ![k] = "done"]
  /\ UNCHANGED <<closed, listed, bound, lloc, lconn, conns, open, cloc, hloc, toClose, stray>>

Server(l) ==
  \/ Register(l) \/ Serve(l) \/ AcceptError(l) \/ Admit(l) \/ StopServing(l)

ReadLoop(c) == ReadError(c) \/ ServeConnReturn(c)

Closer(k) == CloseOne(k) \/ CloseAll(k) \/ CloseReturn(k)

ServerFinished ==
  /\ closed /\ Waited = {} /\ \A k \in Closers : kloc[k] = "done"
  /\ UNCHANGED serverVars

ServerNext ==
  \/ \E l \in Listeners : Listen(l) \/ Server(l) \/ AcceptConn(l)
  \/ \E c \in Conns :
       \/ StartRequest(c) \/ PipeWrite(c) \/ PipeRead(c) \/ HandlerIdle(c)
       \/ HandlerReturn(c) \/ Hangup(c) \/ ReadRefuse(c) \/ ReadLoop(c)
  \/ \E k \in Closers : CloseBegin(k) \/ Closer(k)
  \/ ServerFinished

ServerSpec == ServerInit /\ [][ServerNext]_serverVars

\* Goroutines that can run do, but nobody owes a connection or an error to an
\* open listener.  A handler at work comes back to its body: what the relay's
\* forwards has a timer or ends with its target, and Inject of a direct server
\* waits only for room in a queue that WireGuard's receiver empties as long as the
\* core is up, or for the core's Close (CloseReleases of MasqueCore).
Fairness ==
  /\ \A l \in Listeners : WF_serverVars((lloc[l] = "accept" => l \notin bound) /\ Server(l))
  /\ \A c \in Conns :
       /\ WF_serverVars(ReadLoop(c)) /\ WF_serverVars(PipeRead(c)) /\ WF_serverVars(HandlerIdle(c))
  /\ \A k \in Closers : WF_serverVars(Closer(k))

LiveSpec == ServerSpec /\ Fairness
-----------------------------------------------------------------------------
\* Once every Close that was called has returned, nothing is left: no listener
\* that was registered has its port bound, no connection is open or served.
\* Only a listener whose accept loop failed before Close is out of its reach.
ClosedIsQuiet ==
  /\ ServerTypeOK
  /\ closed /\ (\A k \in Closers : kloc[k] \in {"idle", "done"}) =>
       /\ \A l \in bound : lloc[l] = "listening" \/ l \in stray
       /\ open = {} /\ conns = {} /\ listed = {} /\ Waited = {}

\* The wait group is never added to once a waiter may have seen it at zero.
NoAddAfterWait ==
  [][(\E k \in Closers : kloc[k] \in {"wait", "done"}) =>
       Waited' \subseteq Waited]_serverVars

\* Close returns, although readLoop may be held up by a handler at work.
CloseReturns == \A k \in Closers : kloc[k] \in {"closing", "wait"} ~> kloc[k] = "done"
=============================================================================
