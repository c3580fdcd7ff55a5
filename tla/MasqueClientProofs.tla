------------------------- MODULE MasqueClientProofs -------------------------
(***************************************************************************)
(* Theorems about the two builds of the client, native and for browsers,   *)
(* for every set of operations, closers and generations; and about the     *)
(* path a client owns, for every set of carriers and writers.              *)
(***************************************************************************)
EXTENDS MasqueClients, MasquePath, FiniteSetTheorems, TLAPS

-----------------------------------------------------------------------------
(* The native client.                                                       *)
-----------------------------------------------------------------------------
\* c.mu is held by whoever is in a start or in Close.
Locked ==
  /\ \A o \in Ops : /\ loc[o] \in {"idle", "acquire", "active"} \cup Starting
                    /\ loc[o] \in Starting <=> mu = o
  /\ \A a \in Closers : /\ loc[a] \in {"idle", "closing", "waiting", "stopping"}
                        /\ loc[a] \in {"waiting", "stopping"} <=> mu = a

\* The fields: clear during a start; of one open generation, or clear, when
\* c.mu is free or Close waits; without a path while Close takes the core down.
Clear == core = None /\ path = None /\ pathType = "unset" /\ ~started
Set == started /\ core # None /\ path = core /\ pathType # "unset" /\ core \in openCores /\ core \in openPaths
FieldsAgree ==
  /\ mu \in Ops => Clear
  /\ mu = None => Clear \/ (Set /\ core \notin cancelled)
  /\ \A a \in Closers :
       /\ loc[a] = "waiting" => Clear \/ Set
       /\ loc[a] = "stopping" => path = None /\ (Clear \/ (started /\ core \in openCores))

\* What a start has opened is open, and an operation that was given up has not
\* cancelled a carrier that finishDial detached.
StartOwns ==
  \A o \in Ops : loc[o] \in Starting =>
    /\ gen[o] \notin cancelled
    /\ loc[o] = "setpath" => gen[o] \in openCores
    /\ loc[o] \in {"dialed", "core", "setpath"} => gen[o] \in openPaths
    /\ loc[o] \in {"core", "setpath"} \/ (loc[o] = "dialed" /\ o \notin opDone) => gen[o] \notin dead

\* A lease is on the client's core, and Close does not go on before it ends.
Leases ==
  \A o \in Ops : loc[o] = "active" =>
    /\ gen[o] = core /\ core \in openCores
    /\ \A a \in Closers : loc[a] # "stopping"

ClientInv ==
  /\ NothingLeaks /\ CarrierOutlivesOperation
  /\ Locked /\ FieldsAgree /\ StartOwns /\ Leases

\* A new client satisfies the invariant.
LEMMA InitClient == Init => ClientInv
  BY ClientAssumption, ZenonT(40) DEF Init, ClientInv, NothingLeaks, TypeOK, CarrierOutlivesOperation, Locked,
     FieldsAgree, Clear, Set, StartOwns, Leases, Starting

\* The invariant is inductive: no order of starts, leases, cancelled operations
\* and Close breaks it.
LEMMA NextClient == ClientInv /\ [Next]_vars => ClientInv'
<1> SUFFICES ASSUME ClientInv, [Next]_vars PROVE ClientInv'
  OBVIOUS
<1> USE ClientAssumption DEF ClientInv, NothingLeaks, TypeOK, CarrierOutlivesOperation, Locked,
      FieldsAgree, Clear, Set, StartOwns, Leases, Starting, Goto, fields, dial
<1>1. ASSUME NEW o \in Ops, StartSkip(o) PROVE ClientInv'
  BY <1>1 DEF StartSkip
<1>2. ASSUME NEW o \in Ops, StartBegin(o) PROVE ClientInv'
  BY <1>2 DEF StartBegin, Free
<1>3. ASSUME NEW o \in Ops, Dialed(o) PROVE ClientInv'
  BY <1>3 DEF Dialed
<1>4. ASSUME NEW o \in Ops, DirectFail(o) PROVE ClientInv'
  BY <1>4 DEF DirectFail, NoDirect, Abort
<1>5. ASSUME NEW o \in Ops, RelayFail(o) PROVE ClientInv'
  BY <1>5 DEF RelayFail, Abort
<1>6. ASSUME NEW o \in Ops, Keep(o) PROVE ClientInv'
  BY <1>6 DEF Keep
<1>7. ASSUME NEW o \in Ops, Drop(o) PROVE ClientInv'
  BY <1>7 DEF Drop, NoDirect, Abort
<1>8. ASSUME NEW o \in Ops, NewCore(o) PROVE ClientInv'
  BY <1>8 DEF NewCore
<1>9. ASSUME NEW o \in Ops, NewCoreFail(o) PROVE ClientInv'
  BY <1>9 DEF NewCoreFail, Abort
<1>10. ASSUME NEW o \in Ops, Publish(o) PROVE ClientInv'
  BY <1>10 DEF Publish
<1>11. ASSUME NEW o \in Ops, SetPathFail(o) PROVE ClientInv'
  BY <1>11 DEF SetPathFail, Abort
<1>12. ASSUME NEW o \in Ops, Acquire(o) PROVE ClientInv'
  BY <1>12 DEF Acquire
<1>13. ASSUME NEW o \in Ops, Status(o) PROVE ClientInv'
  BY <1>13 DEF Status
<1>14. ASSUME NEW o \in Ops, Release(o) PROVE ClientInv'
  BY <1>14 DEF Release
<1>15. ASSUME NEW o \in Ops, GiveUp(o) PROVE ClientInv'
  BY <1>15 DEF GiveUp
<1>16. ASSUME NEW a \in Closers, CloseCall(a) PROVE ClientInv'
  BY <1>16 DEF CloseCall
<1>17. ASSUME NEW a \in Closers, CloseLock(a) PROVE ClientInv'
  BY <1>17 DEF CloseLock
<1>18. ASSUME NEW a \in Closers, CloseWait(a) PROVE ClientInv'
  BY <1>18 DEF CloseWait
<1>19. ASSUME NEW a \in Closers, CloseFinish(a) PROVE ClientInv'
  <2>1. mu = a /\ path = None /\ openPaths = {} /\ openCores \subseteq {core}
        /\ \A o \in Ops : loc[o] \in {"idle", "acquire"}
    BY <1>19 DEF CloseFinish
  <2>2. \A b \in Closers \ {a} : loc[b] \in {"idle", "closing"}
    BY <2>1, Zenon
  <2>3. TypeOK' /\ Locked'
    <3>1. TypeOK'
      BY <1>19, <2>1, Zenon DEF CloseFinish
    <3>2. Locked'
      BY <1>19, <2>2, <2>1 DEF CloseFinish
    <3> QED
      BY <3>1, <3>2, Zenon
  <2>4. NothingLeaks' /\ FieldsAgree'
    BY <1>19, <2>1, <2>3 DEF CloseFinish
  <2>5. CarrierOutlivesOperation' /\ StartOwns' /\ Leases'
    BY <1>19, <2>1, Zenon DEF CloseFinish
  <2> QED
    BY <2>3, <2>4, <2>5, Zenon
<1>20. CASE UNCHANGED vars
  BY <1>20 DEF vars
<1> QED
  BY <1>1, <1>2, <1>3, <1>4, <1>5, <1>6, <1>7, <1>8, <1>9, <1>10, <1>11, <1>12, <1>13, <1>14, <1>15, <1>16,
     <1>17, <1>18, <1>19, <1>20, Zenon
     DEF Next, StartStep

-----------------------------------------------------------------------------
(* The browser's client.                                                    *)
-----------------------------------------------------------------------------
Dials == {"ready", "control", "core"}

\* c.mu is held by the operation in a start, and the fields are clear then.
BrowserLocked ==
  /\ holder # None => current = None
  /\ \A o \in Ops : /\ at[o] \in {"idle", "started", "active"} \cup Dials
                    /\ at[o] \in Dials <=> holder = o
                    /\ using[o] # None <=> at[o] \in {"active"} \cup Dials
  /\ \A a \in Closers : /\ at[a] \in {"idle", "closing", "path", "device"}
                        /\ using[a] # None <=> at[a] \in {"path", "device"}

\* What a goroutine that owns a generation has opened, and not closed.
Opened(g, l) ==
  /\ g \in sessions <=> l \in {"control", "core", "path"}
  /\ g \in cores <=> l \in {"path", "device"}
  /\ l \in Dials => loop[g] = "none"

\* A generation is owned by the fields, by its receive loop, or by one start or
\* Close; and what is open is owned.
Owning(a) == using[a] # None /\ at[a] # "active"
SoleOwner ==
  /\ current # None => current \in sessions \cap cores /\ loop[current] \in {"run", "ended"}
  /\ \A g \in Gens : loop[g] \in {"path", "device"} => g # current /\ Opened(g, loop[g])
  /\ \A a \in Browser!Actors : Owning(a) =>
       /\ using[a] # current /\ loop[using[a]] \notin {"path", "device"}
       /\ Opened(using[a], at[a])
       /\ \A b \in Browser!Actors : Owning(b) /\ using[b] = using[a] => b = a
  /\ \A g \in sessions \cup cores :
       \/ g = current \/ loop[g] \in {"path", "device"}
       \/ \E a \in Browser!Actors : Owning(a) /\ using[a] = g

BrowserInv == Browser!BrowserTypeOK /\ BrowserLocked /\ SoleOwner

\* A new client satisfies the invariant.
LEMMA InitBrowser == Browser!BrowserInit => BrowserInv
  BY ClientAssumption, Zenon DEF Browser!BrowserInit, Browser!BrowserTypeOK, Browser!Actors, BrowserInv,
     BrowserLocked, SoleOwner, Opened, Owning, Dials

\* The invariant is inductive: no order of starts, of ends of sessions, of Close
\* and of writes that settle or do not breaks it.
LEMMA NextBrowser == BrowserInv /\ [Browser!BrowserNext]_browserVars => BrowserInv'
<1> SUFFICES ASSUME BrowserInv, [Browser!BrowserNext]_browserVars PROVE BrowserInv'
  OBVIOUS
<1> USE ClientAssumption DEF BrowserInv, Browser!BrowserTypeOK, Browser!Actors, BrowserLocked,
      SoleOwner, Opened, Owning, Dials, Browser!Goto, Browser!Take
<1>1. ASSUME NEW o \in Ops, Browser!StartSkip(o) PROVE BrowserInv'
  BY <1>1 DEF Browser!StartSkip
<1>2. ASSUME NEW o \in Ops, Browser!StartBegin(o) PROVE BrowserInv'
  BY <1>2 DEF Browser!StartBegin
<1>3. ASSUME NEW o \in Ops, Browser!Ready(o) PROVE BrowserInv'
  BY <1>3 DEF Browser!Ready
<1>4. ASSUME NEW o \in Ops, Browser!ReadyFail(o) PROVE BrowserInv'
  <2>1. stray' \in BOOLEAN
    BY <1>4, Zenon DEF Browser!ReadyFail
  <2>2. at[o] = "ready" /\ Browser!Abort(o) /\ UNCHANGED sessions
    BY <1>4 DEF Browser!ReadyFail
  <2> QED
    BY <2>1, <2>2 DEF Browser!Abort
<1>5. ASSUME NEW o \in Ops, Browser!Control(o) PROVE BrowserInv'
  BY <1>5 DEF Browser!Control, Browser!Abort
<1>6. ASSUME NEW o \in Ops, Browser!NewCoreFail(o) PROVE BrowserInv'
  BY <1>6 DEF Browser!NewCoreFail, Browser!Abort
<1>7. ASSUME NEW o \in Ops, Browser!NewCore(o) PROVE BrowserInv'
  BY <1>7 DEF Browser!NewCore
<1>8. ASSUME NEW o \in Ops, Browser!Use(o) PROVE BrowserInv'
  <2>1. CASE current # None
    BY <1>8, <2>1 DEF Browser!Use
  <2>2. CASE current = None
    <3>1. crashed' \in BOOLEAN
      BY <1>8, <2>2, Zenon DEF Browser!Use
    <3>2. UNCHANGED <<holder, at, using, current, sessions, cores, writing, loop, stray>>
      BY <1>8, <2>2, Zenon DEF Browser!Use
    <3> QED
      BY <3>1, <3>2
  <2> QED
    BY <2>1, <2>2, Zenon
<1>9. ASSUME NEW o \in Ops, Browser!Return(o) PROVE BrowserInv'
  BY <1>9 DEF Browser!Return
<1>10. ASSUME NEW g \in Gens, Browser!Write(g) PROVE BrowserInv'
  BY <1>10 DEF Browser!Write
<1>11. ASSUME NEW g \in Gens, Browser!Written(g) PROVE BrowserInv'
  BY <1>11 DEF Browser!Written
<1>12. ASSUME NEW g \in Gens, Browser!LoopEnd(g) PROVE BrowserInv'
  BY <1>12 DEF Browser!LoopEnd
<1>13. ASSUME NEW g \in Gens, Browser!LoopReset(g) PROVE BrowserInv'
  BY <1>13 DEF Browser!LoopReset
<1>14. ASSUME NEW g \in Gens, Browser!LoopClosePath(g) PROVE BrowserInv'
  BY <1>14 DEF Browser!LoopClosePath
<1>15. ASSUME NEW g \in Gens, Browser!LoopCloseCore(g) PROVE BrowserInv'
  BY <1>15 DEF Browser!LoopCloseCore
<1>16. ASSUME NEW a \in Closers, Browser!CloseCall(a) PROVE BrowserInv'
  BY <1>16 DEF Browser!CloseCall
<1>17. ASSUME NEW a \in Closers, Browser!CloseReset(a) PROVE BrowserInv'
  BY <1>17 DEF Browser!CloseReset
<1>18. ASSUME NEW a \in Closers, Browser!ClosePath(a) PROVE BrowserInv'
  BY <1>18 DEF Browser!ClosePath
<1>19. ASSUME NEW a \in Closers, Browser!CloseCore(a) PROVE BrowserInv'
  BY <1>19 DEF Browser!CloseCore
<1>20. CASE UNCHANGED browserVars
  BY <1>20 DEF browserVars
<1> QED
  BY <1>1, <1>2, <1>3, <1>4, <1>5, <1>6, <1>7, <1>8, <1>9, <1>10, <1>11, <1>12, <1>13, <1>14, <1>15, <1>16,
     <1>17, <1>18, <1>19, <1>20, ZenonT(40)
     DEF Browser!BrowserNext, Browser!DialStep, Browser!CoreStep, Browser!LoopStep

\* Under the invariant the owners of an open generation are a singleton.
LEMMA OwnedOnce == BrowserInv => Browser!OneOwner
<1> SUFFICES ASSUME BrowserInv PROVE Browser!OneOwner
  OBVIOUS
<1>1. ASSUME NEW g \in sessions \cup cores PROVE Cardinality(Browser!Owners(g)) = 1
  <2> USE ClientAssumption DEF BrowserInv, Browser!BrowserTypeOK, SoleOwner, Owning, Browser!Actors
  <2>0. g \in Gens /\ g # None
    OBVIOUS
  <2> DEFINE Fld == {f \in {current} : f = g}
             Lps == {h \in Gens : h = g /\ loop[h] \in {"path", "device"}}
             Gos == {a \in Browser!Actors : using[a] = g /\ at[a] # "active"}
  <2>1. Browser!Owners(g) = {<<"field", f>> : f \in Fld} \cup {<<"loop", h>> : h \in Lps}
                              \cup {<<"goroutine", a>> : a \in Gos}
    BY Zenon DEF Browser!Owners, Browser!Actors
  <2>2. CASE g = current
    <3>1. \A a \in Browser!Actors : ~(using[a] = g /\ at[a] # "active")
      BY <2>0, <2>2
    <3>2. loop[g] \notin {"path", "device"}
      BY <2>0, <2>2
    <3>3. Fld = {g} /\ Lps = {} /\ Gos = {}
      BY <2>0, <2>2, <3>1, <3>2
    <3> HIDE DEF Fld, Lps, Gos
    <3>4. Browser!Owners(g) = {<<"field", g>>}
      BY <2>1, <3>3
    <3> QED
      BY <3>4, FS_Singleton, Zenon
  <2>3. CASE g # current /\ loop[g] \in {"path", "device"}
    <3>1. \A a \in Browser!Actors : ~(using[a] = g /\ at[a] # "active")
      BY <2>0, <2>3
    <3>2. Fld = {} /\ Lps = {g} /\ Gos = {}
      BY <2>0, <2>3, <3>1
    <3> HIDE DEF Fld, Lps, Gos
    <3>3. Browser!Owners(g) = {<<"loop", g>>}
      BY <2>1, <3>2
    <3> QED
      BY <3>3, FS_Singleton, Zenon
  <2>4. CASE g # current /\ loop[g] \notin {"path", "device"}
    <3>1. PICK a \in Browser!Actors : Owning(a) /\ using[a] = g
      BY <2>4
    <3>2. \A b \in Browser!Actors : using[b] = g /\ at[b] # "active" <=> b = a
      BY <2>0, <3>1
    <3>3. Fld = {} /\ Lps = {} /\ Gos = {a}
      BY <2>0, <2>4, <3>2
    <3> HIDE DEF Fld, Lps, Gos
    <3>4. Browser!Owners(g) = {<<"goroutine", a>>}
      BY <2>1, <3>3
    <3> QED
      BY <3>4, FS_Singleton, Zenon
  <2> QED
    BY <2>2, <2>3, <2>4
<1>2. Browser!BrowserTypeOK
  BY Zenon DEF BrowserInv
<1>3. current # None => loop[current] \in {"run", "ended"} /\ current \in sessions \cap cores
  BY DEF BrowserInv, SoleOwner
\* The browser module takes its Cardinality from the same FiniteSets.
<1>4. \A S : Browser!Cardinality(S) = Cardinality(S)
  BY Zenon DEF Cardinality, Browser!Cardinality
<1> QED
  BY <1>1, <1>2, <1>3, <1>4, Zenon DEF Browser!OneOwner

-----------------------------------------------------------------------------
(* The client of either build.                                              *)
-----------------------------------------------------------------------------
\* Both invariants hold in every reachable state of either build: a step of one
\* leaves the other as it was.
THEOREM ClientsInvariance == ClientsSpec => [](ClientInv /\ BrowserInv)
<1>1. ClientsInit => ClientInv /\ BrowserInv
  BY InitClient, InitBrowser DEF ClientsInit
<1>2. ClientInv /\ BrowserInv /\ [ClientsNext]_buildVars => (ClientInv /\ BrowserInv)'
  <2>1. [ClientsNext]_buildVars => [Next]_vars /\ [Browser!BrowserNext]_browserVars
    BY DEF ClientsNext, Native, InBrowser, Crashed, buildVars
  <2> QED
    BY <2>1, NextClient, NextBrowser
<1> QED
  BY <1>1, <1>2, PTL DEF ClientsSpec

\* Nothing leaks from a client of either build, whichever step of a start fails,
\* whoever closes meanwhile, and whenever a browser's session ends.
THEOREM NoLeak == ClientsSpec => []NeitherLeaks
<1>1. ClientInv /\ BrowserInv => NeitherLeaks
  BY OwnedOnce DEF ClientInv, NeitherLeaks
<1> QED
  BY <1>1, ClientsInvariance, PTL

\* No operation works on a core that is closed.
THEOREM Lease == ClientsSpec => []LeaseOnOpenCore
<1>1. ClientInv => LeaseOnOpenCore
  BY DEF ClientInv, Leases, LeaseOnOpenCore
<1> QED
  BY <1>1, ClientsInvariance, PTL

\* No operation takes down the carrier of a running client.
THEOREM CarrierKept == ClientsSpec => []CarrierOutlivesOperation
<1>1. ClientInv => CarrierOutlivesOperation
  BY DEF ClientInv
<1> QED
  BY <1>1, ClientsInvariance, PTL

-----------------------------------------------------------------------------
(* The path a client owns.                                                  *)
-----------------------------------------------------------------------------
\* A writer holds a carrier exactly while it is not idle; once it means to
\* retire the carrier, that carrier is no longer healthy.
WriterHolds ==
  \A w \in Writers :
    /\ wloc[w] # "idle" => wc[w] \in Conns
    /\ wloc[w] \in {"retire", "close"} => conn[wc[w]] # "open"

\* The same for run.
RunHolds ==
  /\ runLoc \in {"retire", "close"} => conn[rc] # "open"
  /\ runLoc = "close" => pc = NoConn
  /\ runLoc \in {"read", "retire"} => pc \in {NoConn, rc}

\* While run is between two carriers nothing is installed, and what it has not
\* closed itself is the one it has just dialled.
BetweenCarriers ==
  /\ runLoc \in {"check", "backoff", "dial"} => pc = NoConn /\ \A c \in Conns : conn[c] = "closed"
  /\ runLoc \in {"replace", "discard"} =>
       pc = NoConn /\ \A c \in Conns : conn[c] # "closed" => c = rc
  /\ runLoc \in {"retire", "close"} => \A c \in Conns : conn[c] # "closed" => c = rc

\* Every carrier that is installed, or that Close took, is the only one.
OnlyOne ==
  /\ AtMostOneCarrier
  /\ pc # NoConn => \A c \in Conns : conn[c] # "closed" => c = pc
  /\ runLoc = "read" => \A c \in Conns : conn[c] # "closed" => c = rc

\* Only Close takes a carrier to close later, and it takes it once.
CloserHolds == ~closed => cc = NoConn

\* The inductive invariant.
PathInv ==
  /\ PathTypeOK /\ CloserHolds /\ WriterHolds /\ RunHolds /\ BetweenCarriers /\ OnlyOne
  /\ NoCarrierLeak /\ ClosedForGood

\* The invariant holds of a path fresh from its constructor.
LEMMA InitPath == PathInit => PathInv
<1> SUFFICES ASSUME PathInit PROVE PathInv
  OBVIOUS
<1>1. PICK c \in Conns : conn = [d \in Conns |-> IF d = c THEN "open" ELSE "closed"] /\ pc = c
  BY DEF PathInit
<1>2. PathTypeOK
  <2>1. conn \in [Conns -> {"open", "broken", "closed"}] /\ pc \in Conns \cup {NoConn}
    BY <1>1
  <2>2. 0 \in 0..MaxAttempt
    BY PathAssumption
  <2> QED
    BY <2>1, <2>2, Zenon DEF PathInit, PathTypeOK, RunLocs
<1>3. WriterHolds /\ RunHolds /\ CloserHolds /\ BetweenCarriers /\ ClosedForGood
  BY DEF PathInit, WriterHolds, RunHolds, CloserHolds, BetweenCarriers, ClosedForGood
<1>4. OnlyOne /\ NoCarrierLeak
  BY <1>1 DEF PathInit, OnlyOne, AtMostOneCarrier, NoCarrierLeak, Responsible
<1> QED
  BY <1>2, <1>3, <1>4 DEF PathInv

\* The invariant is inductive: no interleaving of run, writers and Close with
\* breaking carriers violates it.
LEMMA NextPath == PathInv /\ [PathNext]_pathVars => PathInv'
<1> SUFFICES ASSUME PathInv, [PathNext]_pathVars PROVE PathInv'
  OBVIOUS
<1> USE PathAssumption DEF PathInv, PathTypeOK, RunLocs, WriterHolds, RunHolds, CloserHolds, BetweenCarriers,
      OnlyOne, AtMostOneCarrier, NoCarrierLeak, Responsible, ClosedForGood
<1>1. CASE Top
  BY <1>1, ZenonT(40) DEF Top
<1>2. CASE Read
  BY <1>2, ZenonT(40) DEF Read
<1>3. CASE ReadFail
  BY <1>3 DEF ReadFail
<1>4. CASE Retire
  BY <1>4 DEF Retire, Retired
<1>5. CASE CloseRetired
  BY <1>5 DEF CloseRetired
<1>6. CASE Check
  BY <1>6, Zenon DEF Check
<1>7. CASE Backoff
  BY <1>7, Zenon DEF Backoff
<1>8. CASE DialFail
  BY <1>8 DEF DialFail
<1>9. CASE DialOK
  BY <1>9 DEF DialOK, Unused
<1>10. CASE Replace
  BY <1>10 DEF Replace
<1>11. CASE Discard
  BY <1>11, ZenonT(40) DEF Discard
<1>12. CASE CloseBegin
  BY <1>12, ZenonT(40) DEF CloseBegin
<1>13. CASE CloseEnd
  BY <1>13 DEF CloseEnd
<1>14. CASE Cancel
  BY <1>14, ZenonT(40) DEF Cancel
<1>15. ASSUME NEW ok \in BOOLEAN, Deliver(ok) PROVE PathInv'
  BY <1>15, Zenon DEF Deliver
<1>16. ASSUME NEW c \in Conns, Break(c) PROVE PathInv'
  BY <1>16 DEF Break
<1>17. ASSUME NEW w \in Writers, WriteBegin(w) PROVE PathInv'
  BY <1>17, ZenonT(40) DEF WriteBegin
<1>18. ASSUME NEW w \in Writers, WriteReturn(w) PROVE PathInv'
  BY <1>18 DEF WriteReturn
<1>19. ASSUME NEW w \in Writers, WriteFail(w) PROVE PathInv'
  BY <1>19 DEF WriteFail
<1>20. ASSUME NEW w \in Writers, WriterRetire(w) PROVE PathInv'
  BY <1>20 DEF WriterRetire, Retired
<1>21. ASSUME NEW w \in Writers, WriterClose(w) PROVE PathInv'
  BY <1>21 DEF WriterClose
<1>22. CASE UNCHANGED pathVars
  BY <1>22 DEF pathVars
<1> HIDE DEF PathInv
<1> QED
  BY <1>1, <1>2, <1>3, <1>4, <1>5, <1>6, <1>7, <1>8, <1>9, <1>10, <1>11, <1>12, <1>13, <1>14, <1>15, <1>16,
     <1>17, <1>18, <1>19, <1>20, <1>21, <1>22
  DEF PathNext, RunStep, Write, Finished

\* In every reachable state the invariant holds.
THEOREM PathInvariance == PathSpec => []PathInv
  BY InitPath, NextPath, PTL DEF PathSpec

\* The types hold in every reachable state.
THEOREM PathTypes == PathSpec => []PathTypeOK
<1>1. PathInv => PathTypeOK
  BY DEF PathInv
<1> QED
  BY <1>1, PathInvariance, PTL

\* No carrier leaks, whatever Close, failed writes and reconnects do meanwhile.
THEOREM NoCarrierLost == PathSpec => []NoCarrierLeak
<1>1. PathInv => NoCarrierLeak
  BY DEF PathInv
<1> QED
  BY <1>1, PathInvariance, PTL

\* reconnect never dials while the path still has another carrier.
THEOREM OneCarrier == PathSpec => []AtMostOneCarrier
<1>1. PathInv => AtMostOneCarrier
  BY DEF PathInv, OnlyOne
<1> QED
  BY <1>1, PathInvariance, PTL

\* A path has at most one carrier that is not closed, and somebody is
\* responsible for it.
THEOREM OwnedCarrier == PathSpec => []OneOwnedCarrier
  BY NoCarrierLost, OneCarrier, PTL DEF OneOwnedCarrier

\* A closed path stays without a carrier.
THEOREM ClosedStays == PathSpec => []ClosedForGood
<1>1. PathInv => ClosedForGood
  BY DEF PathInv
<1> QED
  BY <1>1, PathInvariance, PTL

\* retirePacketConn never takes a healthy carrier out of service.
THEOREM Healthy == PathSpec => HealthyStays
<1>1. PathInv /\ [PathNext]_pathVars => [pc # NoConn /\ pc' # pc => closed' \/ conn[pc] # "open"]_pathVars
  <2> SUFFICES ASSUME PathInv, PathNext, pc # NoConn, pc' # pc
               PROVE  closed' \/ conn[pc] # "open"
    BY Zenon
  <2>1. CASE CloseBegin
    BY <2>1, Zenon DEF CloseBegin
  <2>2. CASE Retire
    BY <2>2 DEF Retire, Retired, PathInv, RunHolds
  <2>3. CASE Replace
    BY <2>3 DEF Replace, PathInv, BetweenCarriers
  <2>4. ASSUME NEW w \in Writers, WriterRetire(w) PROVE conn[pc] # "open"
    BY <2>4 DEF WriterRetire, Retired, PathInv, WriterHolds
  <2> QED
    BY <2>1, <2>2, <2>3, <2>4, Zenon DEF PathNext, RunStep, Write, Finished, pathVars, Top, Read, ReadFail,
       CloseRetired, Check, Backoff, DialFail, DialOK, Discard, Deliver, CloseEnd, Cancel, Break,
       WriteBegin, WriteReturn, WriteFail, WriterClose
<1> QED
  BY <1>1, PathInvariance, PTL DEF PathSpec, HealthyStays
=============================================================================
