---------------------------- MODULE MasqueClient ----------------------------
(***************************************************************************)
(* The life cycle of MasqueClient (masquecat.go): lazy start by the first  *)
(* operation, leases of operations on the core, Close, and start again.    *)
(*                                                                         *)
(* A generation is one start: its context, path and core.  Its identity is *)
(* used again only when nothing of it is open and nobody refers to it.     *)
(* c.mu is held for the whole of a start, dials included, and for the      *)
(* whole of Close, the wait for running operations included; steps of the  *)
(* holder interleave with operations that already have a lease.            *)
(***************************************************************************)
EXTENDS Naturals, FiniteSets

CONSTANTS
  Ops,        \* goroutines that call Ping, Dial, DrainTCP, Status ...
  Closers,    \* goroutines that call Close
  Gens,       \* generations
  None

ASSUME ClientAssumption ==
  None \notin Ops \cup Closers \cup Gens /\ Ops \cap Closers = {}

VARIABLES
  token,      \* the endpoints the token names
  mu,         \* the holder of c.mu, or None
  loc,        \* where each goroutine is
  gen,        \* the generation an operation builds or has a lease on, or None
  opDone,     \* the operations whose own context is done
  core,       \* c.core, or None
  path,       \* c.path, or None
  kind,       \* the start's local pathType
  pathType,   \* c.pathType: "unset" (the empty string), "direct" or "relay"
  started,    \* c.started
  cancelled,  \* the generations whose lifecycle context is cancelled
  openCores,  \* the generations whose core is open
  openPaths,  \* the generations whose path is open
  dead        \* the generations whose dial context an operation has cancelled

fields == <<core, path, pathType, started>>
dial == <<kind, dead>>
vars == <<token, mu, loc, gen, opDone, core, path, pathType, started, cancelled,
          openCores, openPaths, kind, dead>>

Starting == {"direct", "relay", "dialed", "core", "setpath"}

TypeOK ==
  /\ token \in SUBSET {"direct", "relay"}
  /\ mu \in Ops \cup Closers \cup {None}
  /\ loc \in [Ops \cup Closers ->
       {"idle", "acquire", "active", "closing", "waiting", "stopping"} \cup Starting]
  /\ gen \in [Ops -> Gens \cup {None}]
  /\ \A o \in Ops : gen[o] \in Gens <=> loc[o] \in Starting \cup {"active"}
  /\ opDone \in SUBSET Ops
  /\ core \in Gens \cup {None} /\ path \in Gens \cup {None}
  /\ pathType \in {"unset", "direct", "relay"} /\ started \in BOOLEAN
  /\ cancelled \in SUBSET Gens /\ openCores \in SUBSET Gens /\ openPaths \in SUBSET Gens
  /\ kind \in {"direct", "relay"} /\ dead \in SUBSET Gens

Init ==
  /\ token \in SUBSET {"direct", "relay"} \ {{}}
  /\ mu = None
  /\ loc = [a \in Ops \cup Closers |-> "idle"]
  /\ gen = [o \in Ops |-> None]
  /\ opDone = {}
  /\ core = None /\ path = None /\ pathType = "unset" /\ started = FALSE
  /\ cancelled = {} /\ openCores = {} /\ openPaths = {}
  /\ kind = "relay" /\ dead = {}

-----------------------------------------------------------------------------
Goto(a, l) == loc' = [loc EXCEPT ![a] = l]

\* Generations that are gone.
Free == {g \in Gens \ (openCores \cup openPaths \cup {core, path}) : \A o \in Ops : gen[o] # g}

\* acquireCore, ensureStarted on a client that is up.
StartSkip(o) ==
  /\ loc[o] = "idle" /\ mu = None /\ started
  /\ Goto(o, "acquire")
  /\ UNCHANGED <<token, mu, gen, opDone, fields, cancelled, openCores, openPaths, dial>>

\* ... and on one that is not: a generation with a context of its own.
StartBegin(o) ==
  /\ loc[o] = "idle" /\ mu = None /\ ~started
  /\ \E g \in Free :
       /\ gen' = [gen EXCEPT ![o] = g]
       /\ cancelled' = cancelled \ {g}
  /\ mu' = o
  /\ Goto(o, IF "direct" \in token THEN "direct" ELSE "relay")
  /\ UNCHANGED <<token, opDone, fields, openCores, openPaths, kind, dead>>

\* A start that failed: its context is cancelled and the lock given back.
Abort(o) ==
  /\ cancelled' = cancelled \cup {gen[o]}
  /\ gen' = [gen EXCEPT ![o] = None]
  /\ opDone' = opDone \ {o}
  /\ mu' = None /\ Goto(o, "idle")

\* newMasquePathWithFallback returns a carrier, owned by the dial context.
Dialed(o) ==
  /\ loc[o] \in {"direct", "relay"} /\ o \notin opDone
  /\ openPaths' = openPaths \cup {gen[o]} /\ dead' = dead \ {gen[o]}
  /\ kind' = loc[o] /\ Goto(o, "dialed")
  /\ UNCHANGED <<token, mu, gen, opDone, fields, cancelled, openCores>>

\* The direct dial failed: the relay is next, if there is one.
NoDirect(o) ==
  IF "relay" \in token
  THEN Goto(o, "relay") /\ UNCHANGED <<mu, gen, opDone, cancelled>>
  ELSE Abort(o)

DirectFail(o) ==
  /\ loc[o] = "direct" /\ NoDirect(o)
  /\ UNCHANGED <<token, fields, openCores, openPaths, kind, dead>>

RelayFail(o) ==
  /\ loc[o] = "relay" /\ Abort(o)
  /\ UNCHANGED <<token, fields, openCores, openPaths, kind, dead>>

\* Mutant: dialPath keeps the carrier although the operation was given up.
KeepAnyway(o) ==
  /\ loc[o] = "dialed" /\ Goto(o, "core")
  /\ UNCHANGED <<token, mu, gen, opDone, fields, cancelled, openCores, openPaths, dial>>

\* finishDial detaches the operation from the carrier it has just dialed.
Keep(o) ==
  /\ loc[o] = "dialed" /\ o \notin opDone /\ Goto(o, "core")
  /\ UNCHANGED <<token, mu, gen, opDone, fields, cancelled, openCores, openPaths, dial>>

\* The operation was given up meanwhile: its context has cancelled the dial
\* context, and dialPath closes the carrier and fails.
Drop(o) ==
  /\ loc[o] = "dialed" /\ o \in opDone
  /\ openPaths' = openPaths \ {gen[o]}
  /\ IF kind = "direct" THEN NoDirect(o) ELSE Abort(o)
  /\ UNCHANGED <<token, fields, openCores, kind, dead>>

\* newMasqueCore.
NewCore(o) ==
  /\ loc[o] = "core"
  /\ openCores' = openCores \cup {gen[o]}
  /\ Goto(o, "setpath")
  /\ UNCHANGED <<token, mu, gen, opDone, fields, cancelled, openPaths, dial>>

\* Mutant: the error path of newMasqueCore forgets the path.
NewCoreFailLeaks(o) ==
  /\ loc[o] = "core" /\ Abort(o)
  /\ UNCHANGED <<token, fields, openCores, openPaths, dial>>

NewCoreFail(o) ==
  /\ loc[o] = "core" /\ Abort(o)
  /\ openPaths' = openPaths \ {gen[o]}
  /\ UNCHANGED <<token, fields, openCores, dial>>

\* core.SetPath succeeds; the client is up.
Publish(o) ==
  /\ loc[o] = "setpath"
  /\ core' = gen[o] /\ path' = gen[o] /\ started' = TRUE
  /\ pathType' = kind
  /\ gen' = [gen EXCEPT ![o] = None]
  /\ mu' = None /\ Goto(o, "acquire")
  /\ UNCHANGED <<token, opDone, cancelled, openCores, openPaths, dial>>

SetPathFail(o) ==
  /\ loc[o] = "setpath" /\ Abort(o)
  /\ openPaths' = openPaths \ {gen[o]} /\ openCores' = openCores \ {gen[o]}
  /\ UNCHANGED <<token, fields, dial>>

\* acquireCore, second critical section: Close may have come in between.
Acquire(o) ==
  /\ loc[o] = "acquire" /\ mu = None
  /\ IF core # None /\ started
     THEN gen' = [gen EXCEPT ![o] = core] /\ Goto(o, "active") /\ UNCHANGED opDone
     ELSE Goto(o, "idle") /\ opDone' = opDone \ {o} /\ UNCHANGED gen
  /\ UNCHANGED <<token, mu, fields, cancelled, openCores, openPaths, dial>>

\* Status takes a lease on a core that is there, without starting one.
Status(o) ==
  /\ loc[o] = "idle" /\ mu = None /\ core # None
  /\ gen' = [gen EXCEPT ![o] = core] /\ Goto(o, "active")
  /\ UNCHANGED <<token, mu, opDone, fields, cancelled, openCores, openPaths, dial>>

\* The operation returns; its lease is over.
Release(o) ==
  /\ loc[o] = "active"
  /\ gen' = [gen EXCEPT ![o] = None] /\ opDone' = opDone \ {o} /\ Goto(o, "idle")
  /\ UNCHANGED <<token, mu, fields, cancelled, openCores, openPaths, dial>>

\* The caller of an operation cancels its context, and with it the dial
\* context of a carrier that finishDial has not detached yet.
GiveUp(o) ==
  /\ loc[o] # "idle" /\ o \notin opDone /\ opDone' = opDone \cup {o}
  /\ dead' = IF loc[o] = "dialed" THEN dead \cup {gen[o]} ELSE dead
  /\ UNCHANGED <<token, mu, loc, gen, fields, cancelled, openCores, openPaths, kind>>

-----------------------------------------------------------------------------
CloseCall(a) ==
  /\ loc[a] = "idle" /\ Goto(a, "closing")
  /\ UNCHANGED <<token, mu, gen, opDone, fields, cancelled, openCores, openPaths, dial>>

\* Mutant: Close waits without cancelling.
CloseLockOnly(a) ==
  /\ loc[a] = "closing" /\ mu = None
  /\ mu' = a /\ Goto(a, "waiting")
  /\ UNCHANGED <<token, gen, opDone, fields, cancelled, openCores, openPaths, dial>>

\* Close takes c.mu and cancels the lifecycle context.
CloseLock(a) ==
  /\ loc[a] = "closing" /\ mu = None
  /\ mu' = a /\ Goto(a, "waiting")
  /\ cancelled' = cancelled \cup ({core} \ {None})
  /\ UNCHANGED <<token, gen, opDone, fields, openCores, openPaths, dial>>

\* Mutant: Close does not wait for running operations.
CloseWaitNot(a) ==
  /\ loc[a] = "waiting" /\ Goto(a, "stopping")
  /\ openPaths' = openPaths \ {path} /\ path' = None
  /\ UNCHANGED <<token, mu, gen, opDone, core, pathType, started, cancelled, openCores, dial>>

\* activeOps.Wait returns; the path is closed.
CloseWait(a) ==
  /\ loc[a] = "waiting" /\ \A o \in Ops : loc[o] # "active"
  /\ openPaths' = openPaths \ {path} /\ path' = None
  /\ Goto(a, "stopping")
  /\ UNCHANGED <<token, mu, gen, opDone, core, pathType, started, cancelled, openCores, dial>>

\* The core is closed and every field reset.
CloseFinish(a) ==
  /\ loc[a] = "stopping"
  /\ openCores' = openCores \ {core} /\ core' = None
  /\ pathType' = "unset" /\ started' = FALSE
  /\ mu' = None /\ Goto(a, "idle")
  /\ UNCHANGED <<token, gen, opDone, path, cancelled, openPaths, dial>>

StartStep(o) ==
  \/ Dialed(o) \/ DirectFail(o) \/ RelayFail(o) \/ Keep(o) \/ Drop(o) \/ NewCore(o) \/ NewCoreFail(o)
  \/ Publish(o) \/ SetPathFail(o)

Next ==
  \/ \E o \in Ops :
       \/ StartSkip(o) \/ StartBegin(o) \/ StartStep(o) \/ Acquire(o) \/ Status(o)
       \/ Release(o) \/ GiveUp(o)
  \/ \E a \in Closers : CloseCall(a) \/ CloseLock(a) \/ CloseWait(a) \/ CloseFinish(a)

Spec == Init /\ [][Next]_vars
-----------------------------------------------------------------------------
\* An operation never works on a core that is closed: Close waits for every
\* lease, and acquireCore takes none on a client that was closed meanwhile.
LeaseOnOpenCore ==
  \A o \in Ops : loc[o] = "active" => gen[o] \in openCores

\* Nothing leaks: an open path or core is the client's, or belongs to the start
\* that holds c.mu; every error path of a start closes what it opened.  And
\* whenever c.mu is free the fields agree: all set, of one generation whose
\* parts are open and not cancelled, or all clear.
NothingLeaks ==
  /\ TypeOK
  /\ \A g \in openCores : g = core \/ \E o \in Ops : mu = o /\ gen[o] = g /\ loc[o] = "setpath"
  /\ \A g \in openPaths :
       g = path \/ \E o \in Ops : mu = o /\ gen[o] = g /\ loc[o] \in {"dialed", "core", "setpath"}
  /\ mu = None =>
       IF started
       THEN /\ core # None /\ path = core /\ pathType # "unset"
            /\ core \in (openCores \cap openPaths) \ cancelled
       ELSE core = None /\ path = None /\ pathType = "unset"

\* The carrier of a running client is owned by the client alone: no operation
\* that is cancelled, the one that dialed it included, takes it down.
CarrierOutlivesOperation ==
  path # None /\ path \notin cancelled => path \notin dead
=============================================================================
