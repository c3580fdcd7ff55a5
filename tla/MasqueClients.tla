---------------------------- MODULE MasqueClients ---------------------------
(***************************************************************************)
(* The two builds of the client: the native one (MasqueClient) and the one *)
(* for browsers (MasqueBrowser).  A program has one of them; they share no *)
(* state, so a behaviour is one of the build chosen at the start.          *)
(***************************************************************************)
EXTENDS MasqueClient

VARIABLES
  build,    \* "native" or "browser"
  holder, at, using, current, sessions, cores, writing, loop, stray, crashed

Browser == INSTANCE MasqueBrowser

browserVars == <<holder, at, using, current, sessions, cores, writing, loop, stray, crashed>>
buildVars == <<build, vars, browserVars>>

\* A browser's client takes only tokens that name a relay.
ClientsInit ==
  /\ build \in {"native", "browser"} /\ Init /\ Browser!BrowserInit
  /\ build = "browser" => token = {"relay"}

Native(A) == build = "native" /\ A /\ UNCHANGED <<build, browserVars>>
InBrowser(A) == build = "browser" /\ ~crashed /\ A /\ UNCHANGED <<build, vars>>

\* A browser's program that has crashed.
Crashed == crashed /\ UNCHANGED buildVars

ClientsNext == Native(Next) \/ InBrowser(Browser!BrowserNext) \/ Crashed

\* A dial under c.mu ends when its relay answers or the operation's context is
\* done; neither is certain.
Dialing == \E o \in Ops : {loc[o], at[o]} \cap {"direct", "relay", "ready", "control"} # {}

\* Go's mutex hands itself over to whoever waits long enough, and goroutines go
\* on; nothing is claimed of a dial.  A native operation is owed an end only when
\* its own or the lifecycle context is cancelled.  A browser settles the writes
\* of a path that is closed, and maybe no other.  A conjunct may serve both
\* builds, as the steps of the other one are never enabled.
ClientsFairness ==
  /\ \A o \in Ops :
       /\ WF_buildVars(Native(StartStep(o) /\ ~Dialing) \/ InBrowser(Browser!CoreStep(o)))
       /\ SF_buildVars(Native(Acquire(o)))
       /\ WF_buildVars(Native((gen[o] \in cancelled \/ o \in opDone) /\ Release(o)))
  /\ \A g \in Gens :
       /\ WF_buildVars(InBrowser(Browser!LoopStep(g)))
       /\ WF_buildVars(InBrowser(g \notin sessions /\ Browser!Written(g)))
  /\ \A a \in Closers :
       /\ SF_buildVars(Native(CloseLock(a)) \/ InBrowser(Browser!CloseReset(a)))
       /\ WF_buildVars(\/ Native(CloseWait(a) \/ CloseFinish(a))
                       \/ InBrowser(Browser!ClosePath(a) \/ Browser!CloseCore(a)))

ClientsSpec == ClientsInit /\ [][ClientsNext]_buildVars /\ ClientsFairness
-----------------------------------------------------------------------------
\* Neither client leaks.  What is open of the native one is its own or of the
\* start that holds c.mu; what is open of a browser's has one owner, who will
\* close it, and is not closed twice, however Close, the end of the session
\* seen by the receive loop, and a new start race.
NeitherLeaks == NothingLeaks /\ Browser!OneOwner

\* Close of either client returns, unless a start that holds c.mu hangs in its
\* dial: whatever operations are under way in the native one, and even when the
\* browser does not settle a write that the WireGuard device waits for.
ClosesReturn ==
  []<>~Dialing =>
     \A a \in Closers : ("closing" \in {loc[a], at[a]}) ~> (crashed \/ {loc[a], at[a]} = {"idle"})
=============================================================================
