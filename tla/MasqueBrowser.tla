---------------------------- MODULE MasqueBrowser ---------------------------
(***************************************************************************)
(* The life cycle of BrowserMasqueClient (masquecat_browser_js.go), the    *)
(* client that a browser runs: lazy start over a WebTransport session, the *)
(* receive loop, which takes the client down when the session ends, and    *)
(* Close.                                                                  *)
(*                                                                         *)
(* A generation is one start: its session, path and core.  Its identity is *)
(* used again only when nothing of it is open and nobody refers to it.     *)
(* c.mu is held for the whole of a start, as in the native client, but not *)
(* while a generation is closed, and operations have no leases.  A browser *)
(* settles a write when it likes; closing the path settles it.             *)
(***************************************************************************)
EXTENDS Naturals, FiniteSets

CONSTANTS
  Ops,        \* goroutines that call Ping and DialTCPPort
  Closers,    \* goroutines that call Close
  Gens,       \* generations
  None

VARIABLES
  holder,    \* the holder of c.mu, or None
  at,        \* where each goroutine is
  using,     \* the generation an operation starts or works with, or a Close closes
  current,   \* the generation of c.path and c.core, or None
  sessions,  \* the generations whose session, and path, is open
  cores,     \* the generations whose core is open
  writing,   \* the generations whose WireGuard device waits for a write to settle
  loop,      \* g |-> where the receive loop of generation g is
  stray,     \* a session was given up that may still come up
  crashed    \* an operation used a core that was not there

browserVars == <<holder, at, using, current, sessions, cores, writing, loop, stray, crashed>>

Actors == Ops \cup Closers

BrowserTypeOK ==
  /\ holder \in Ops \cup {None} /\ using \in [Actors -> Gens \cup {None}]
  /\ at \in [Actors -> {"idle", "ready", "control", "core", "started", "active",
                        "closing", "path", "device"}]
  /\ current \in Gens \cup {None}
  /\ sessions \in SUBSET Gens /\ cores \in SUBSET Gens /\ writing \in SUBSET cores
  /\ loop \in [Gens -> {"none", "run", "ended", "path", "device"}]
  /\ stray \in BOOLEAN /\ crashed \in BOOLEAN

BrowserInit ==
  /\ holder = None /\ at = [a \in Actors |-> "idle"] /\ using = [a \in Actors |-> None]
  /\ current = None /\ sessions = {} /\ cores = {} /\ writing = {}
  /\ loop = [g \in Gens |-> "none"] /\ stray = FALSE /\ crashed = FALSE

Goto(a, l) == at' = [at EXCEPT ![a] = l]
Take(a, g) == using' = [using EXCEPT ![a] = g]

-----------------------------------------------------------------------------
(* Operations.                                                              *)
-----------------------------------------------------------------------------
\* ensureStarted, on a client that is up.
StartSkip(o) ==
  /\ at[o] = "idle" /\ holder = None /\ current # None /\ Goto(o, "started")
  /\ UNCHANGED <<holder, using, current, sessions, cores, writing, loop, stray, crashed>>

\* ... and on one that is not: new WebTransport(url).
StartBegin(o) ==
  /\ at[o] = "idle" /\ holder = None /\ current = None /\ holder' = o /\ Goto(o, "ready")
  /\ \E g \in Gens \ (sessions \cup cores) :
       loop[g] = "none" /\ (\A a \in Actors : using[a] # g) /\ Take(o, g)
  /\ UNCHANGED <<current, sessions, cores, writing, loop, stray, crashed>>

\* A start that failed.
Abort(o) ==
  /\ holder' = None /\ Goto(o, "idle") /\ Take(o, None)
  /\ UNCHANGED <<current, cores, writing, loop, crashed>>

\* wt.ready is fulfilled.
Ready(o) ==
  /\ at[o] = "ready" /\ Goto(o, "control") /\ sessions' = sessions \cup {using[o]}
  /\ UNCHANGED <<holder, using, current, cores, writing, loop, stray, crashed>>

\* It is rejected; or the context is done first, and the session is left to
\* itself.
ReadyFail(o) ==
  /\ at[o] = "ready" /\ Abort(o) /\ UNCHANGED sessions
  /\ stray' \in {stray, TRUE}

\* The control stream: hello, challenge, proof, ready.  When the stream, a
\* message or the context fails, the session is closed.
Control(o) ==
  /\ at[o] = "control"
  /\ \/ /\ Goto(o, "core")
        /\ UNCHANGED <<holder, using, current, sessions, cores, writing, loop, stray, crashed>>
     \/ Abort(o) /\ sessions' = sessions \ {using[o]} /\ UNCHANGED stray

\* newBrowserCore fails, and the path is closed.
NewCoreFail(o) == at[o] = "core" /\ Abort(o) /\ sessions' = sessions \ {using[o]} /\ UNCHANGED stray

\* newBrowserCore works: the fields are set and the receive loop starts.
NewCore(o) ==
  /\ at[o] = "core" /\ cores' = cores \cup {using[o]} /\ current' = using[o]
  /\ loop' = [loop EXCEPT ![using[o]] = "run"]
  /\ holder' = None /\ Goto(o, "started") /\ Take(o, None)
  /\ UNCHANGED <<sessions, writing, stray, crashed>>

\* Ping and DialTCPPort read c.core, which may be gone again.
Use(o) ==
  /\ at[o] = "started" /\ holder = None
  /\ IF current # None THEN Goto(o, "active") /\ Take(o, current) /\ UNCHANGED crashed
                       ELSE crashed' = TRUE /\ UNCHANGED <<at, using>>
  /\ UNCHANGED <<holder, current, sessions, cores, writing, loop, stray>>

\* The operation returns.
Return(o) ==
  /\ at[o] = "active" /\ Goto(o, "idle") /\ Take(o, None)
  /\ UNCHANGED <<holder, current, sessions, cores, writing, loop, stray, crashed>>

-----------------------------------------------------------------------------
(* The data path and the end of a generation.                               *)
-----------------------------------------------------------------------------
\* ForwardPacket waits for the write of a packet to settle, without a context.
Write(g) ==
  /\ g \in (cores \cap sessions) \ writing /\ writing' = writing \cup {g}
  /\ UNCHANGED <<holder, at, using, current, sessions, cores, loop, stray, crashed>>
Written(g) ==
  /\ g \in writing /\ writing' = writing \ {g}
  /\ UNCHANGED <<holder, at, using, current, sessions, cores, loop, stray, crashed>>

\* path.run ends: the session has ended, or was closed.
LoopEnd(g) ==
  /\ loop[g] = "run" /\ loop' = [loop EXCEPT ![g] = "ended"]
  /\ UNCHANGED <<holder, at, using, current, sessions, cores, writing, stray, crashed>>

\* Mutant: the loop takes down what it finds, without comparing.
LoopResetAny(g) ==
  /\ loop[g] = "ended" /\ holder = None
  /\ loop' = [loop EXCEPT ![g] = "path"] /\ current' = None
  /\ UNCHANGED <<holder, at, using, sessions, cores, writing, stray, crashed>>

\* The loop takes its own generation out of the client, if it is still there.
LoopReset(g) ==
  /\ loop[g] = "ended" /\ holder = None
  /\ IF current = g THEN loop' = [loop EXCEPT ![g] = "path"] /\ current' = None
                    ELSE loop' = [loop EXCEPT ![g] = "none"] /\ UNCHANGED current
  /\ UNCHANGED <<holder, at, using, sessions, cores, writing, stray, crashed>>

\* path.Close; then core.Close, which waits for the device's goroutines.
LoopClosePath(g) ==
  /\ loop[g] = "path" /\ loop' = [loop EXCEPT ![g] = "device"] /\ sessions' = sessions \ {g}
  /\ UNCHANGED <<holder, at, using, current, cores, writing, stray, crashed>>
LoopCloseCore(g) ==
  /\ loop[g] = "device" /\ g \notin writing
  /\ loop' = [loop EXCEPT ![g] = "none"] /\ cores' = cores \ {g}
  /\ UNCHANGED <<holder, at, using, current, sessions, writing, stray, crashed>>

CloseCall(a) ==
  /\ at[a] = "idle" /\ Goto(a, "closing")
  /\ UNCHANGED <<holder, using, current, sessions, cores, writing, loop, stray, crashed>>

\* Close takes the generation out of the client under c.mu ...
CloseReset(a) ==
  /\ at[a] = "closing" /\ holder = None /\ current' = None /\ Take(a, current)
  /\ Goto(a, IF current = None THEN "idle" ELSE "path")
  /\ UNCHANGED <<holder, sessions, cores, writing, loop, stray, crashed>>

\* Mutant: the path is closed after the core.
CloseCoreFirst(a) ==
  /\ at[a] = "path" /\ Goto(a, "device") /\ using[a] \notin writing
  /\ sessions' = sessions \ {using[a]}
  /\ UNCHANGED <<holder, using, current, cores, writing, loop, stray, crashed>>

\* ... and then closes the path, and the core.
ClosePath(a) ==
  /\ at[a] = "path" /\ Goto(a, "device") /\ sessions' = sessions \ {using[a]}
  /\ UNCHANGED <<holder, using, current, cores, writing, loop, stray, crashed>>
CloseCore(a) ==
  /\ at[a] = "device" /\ using[a] \notin writing
  /\ cores' = cores \ {using[a]} /\ Goto(a, "idle") /\ Take(a, None)
  /\ UNCHANGED <<holder, current, sessions, writing, loop, stray, crashed>>

-----------------------------------------------------------------------------
DialStep(o) == Ready(o) \/ ReadyFail(o) \/ Control(o)
CoreStep(o) == NewCore(o) \/ NewCoreFail(o)
LoopStep(g) == LoopReset(g) \/ LoopClosePath(g) \/ LoopCloseCore(g)

\* A crash ends the program.
BrowserNext ==
  /\ ~crashed
  /\ \/ \E o \in Ops : \/ StartSkip(o) \/ StartBegin(o) \/ DialStep(o) \/ CoreStep(o)
                       \/ Use(o) \/ Return(o)
     \/ \E g \in Gens : Write(g) \/ Written(g) \/ LoopEnd(g) \/ LoopStep(g)
     \/ \E a \in Closers : CloseCall(a) \/ CloseReset(a) \/ ClosePath(a) \/ CloseCore(a)

BrowserSpec == BrowserInit /\ [][BrowserNext]_browserVars
-----------------------------------------------------------------------------
\* Everything open has exactly one owner, who will close it: the start that
\* holds c.mu, the fields of the client, the Close or the receive loop that has
\* taken it out of them.  So nothing that came up leaks, and nothing is closed
\* twice, however Close, the end of the session and a new start race.
Owners(g) ==
  {<<"field", f>> : f \in {f \in {current} : f = g}}
  \cup {<<"loop", h>> : h \in {h \in Gens : h = g /\ loop[h] \in {"path", "device"}}}
  \cup {<<"goroutine", a>> : a \in {a \in Actors : using[a] = g /\ at[a] # "active"}}
OneOwner ==
  /\ BrowserTypeOK
  /\ \A g \in sessions \cup cores : Cardinality(Owners(g)) = 1
  /\ current # None => loop[current] \in {"run", "ended"} /\ current \in sessions \cap cores
=============================================================================
