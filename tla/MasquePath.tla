----------------------------- MODULE MasquePath -----------------------------
(***************************************************************************)
(* The reconnecting outer transport of a peer (masquePath in               *)
(* masquecat_transport.go, dialled as in newMasquePathWithFallback).       *)
(*                                                                         *)
(* Four kinds of actors share it: the receive loop run, callers of         *)
(* ForwardPacket (serialised by writeMu), Close, and the owner's context.  *)
(* A step is one critical section of stateMu or one call on a carrier; the *)
(* Close() of a carrier that was taken out of p.pc comes after the lock is *)
(* released and is a step of its own.                                      *)
(*                                                                         *)
(* A carrier is a net.PacketConn.  Its identity is used again only once it *)
(* is closed and nobody refers to it, so Conns bounds the carriers that    *)
(* exist at a time, not the number of reconnects.                          *)
(***************************************************************************)
EXTENDS Naturals

CONSTANTS
  Conns,      \* carriers
  Writers,    \* concurrent callers of ForwardPacket
  NoConn,
  MaxAttempt  \* bound on the attempt counter of reconnect; it stays there

ASSUME PathAssumption == NoConn \notin Conns /\ MaxAttempt \in Nat \ {0}

VARIABLES
  conn,     \* state of each carrier: "open", "broken" (calls may fail), "closed"
  pc,       \* masquePath.pc, or NoConn
  closed,   \* masquePath.closed
  ctxDone,  \* the owner cancelled the context of run
  runLoc,   \* where run is
  rc,       \* the carrier run holds in a local variable, or NoConn
  attempt,  \* the loop counter of reconnect
  failed,   \* onPacket returned an error
  wloc,     \* where each writer is
  wc,       \* the carrier each writer holds, or NoConn
  cc        \* the carrier Close took out of p.pc and still has to close, or NoConn

pathVars == <<conn, pc, closed, ctxDone, runLoc, rc, attempt, failed, wloc, wc, cc>>

RunLocs == {"top", "read", "deliver", "retire", "close", "check", "backoff",
            "dial", "replace", "discard", "exit"}

PathTypeOK ==
  /\ conn \in [Conns -> {"open", "broken", "closed"}]
  /\ pc \in Conns \cup {NoConn}
  /\ closed \in BOOLEAN /\ ctxDone \in BOOLEAN /\ failed \in BOOLEAN
  /\ runLoc \in RunLocs
  /\ rc \in Conns \cup {NoConn}
  /\ rc # NoConn <=> runLoc \in {"read", "retire", "close", "replace", "discard"}
  /\ attempt \in 0..MaxAttempt
  /\ wloc \in [Writers -> {"idle", "write", "retire", "close"}]
  /\ wc \in [Writers -> Conns \cup {NoConn}]
  /\ cc \in Conns \cup {NoConn}

\* The constructors return a path only with the carrier of their first dial.
PathInit ==
  /\ \E c \in Conns :
       /\ conn = [d \in Conns |-> IF d = c THEN "open" ELSE "closed"]
       /\ pc = c
  /\ closed = FALSE /\ ctxDone = FALSE /\ failed = FALSE
  /\ runLoc = "top" /\ rc = NoConn /\ attempt = 0
  /\ wloc = [w \in Writers |-> "idle"]
  /\ wc = [w \in Writers |-> NoConn]
  /\ cc = NoConn

-----------------------------------------------------------------------------
\* The network, the far end, or a write that timed out ruins a carrier.
Break(c) ==
  /\ conn[c] = "open"
  /\ conn' = [conn EXCEPT ![c] = "broken"]
  /\ UNCHANGED <<pc, closed, ctxDone, runLoc, rc, attempt, failed, wloc, wc, cc>>

Cancel ==
  /\ ~ctxDone /\ ctxDone' = TRUE
  /\ UNCHANGED <<conn, pc, closed, runLoc, rc, attempt, failed, wloc, wc, cc>>

\* run: packetConn at the top of the loop, which ends the loop without one.
Top ==
  /\ runLoc = "top"
  /\ IF closed \/ pc = NoConn
     THEN runLoc' = "exit" /\ UNCHANGED rc
     ELSE runLoc' = "read" /\ rc' = pc
  /\ UNCHANGED <<conn, pc, closed, ctxDone, attempt, failed, wloc, wc, cc>>

\* ReadFrom returns a datagram.
Read ==
  /\ runLoc = "read" /\ conn[rc] # "closed"
  /\ runLoc' = "deliver" /\ rc' = NoConn
  /\ UNCHANGED <<conn, pc, closed, ctxDone, attempt, failed, wloc, wc, cc>>

\* It is dropped or handed to onPacket, whose error ends run.
Deliver(ok) ==
  /\ runLoc = "deliver"
  /\ runLoc' = IF ok THEN "top" ELSE "exit"
  /\ failed' = ~ok
  /\ UNCHANGED <<conn, pc, closed, ctxDone, rc, attempt, wloc, wc, cc>>

\* ReadFrom fails.
ReadFail ==
  /\ runLoc = "read" /\ conn[rc] # "open"
  /\ IF ctxDone \/ closed
     THEN runLoc' = "exit" /\ rc' = NoConn
     ELSE runLoc' = "retire" /\ UNCHANGED rc
  /\ UNCHANGED <<conn, pc, closed, ctxDone, attempt, failed, wloc, wc, cc>>

\* Mutant: retirePacketConn does not compare.
RetiredAlways(c) == NoConn

\* What p.pc becomes when retirePacketConn takes c out of service.
Retired(c) == IF pc = c THEN NoConn ELSE pc

\* retirePacketConn in run: first the critical section ...
Retire ==
  /\ runLoc = "retire"
  /\ pc' = Retired(rc)
  /\ runLoc' = "close"
  /\ UNCHANGED <<conn, closed, ctxDone, rc, attempt, failed, wloc, wc, cc>>

\* Mutant: the failed carrier is left to the garbage collector.
CloseRetiredForgets ==
  /\ runLoc = "close"
  /\ runLoc' = "check" /\ rc' = NoConn /\ attempt' = 0
  /\ UNCHANGED <<conn, pc, closed, ctxDone, failed, wloc, wc, cc>>

\* ... then Close of the failed carrier; reconnect begins.
CloseRetired ==
  /\ runLoc = "close"
  /\ conn' = [conn EXCEPT ![rc] = "closed"]
  /\ runLoc' = "check" /\ rc' = NoConn /\ attempt' = 0
  /\ UNCHANGED <<pc, closed, ctxDone, failed, wloc, wc, cc>>

\* masqueReconnectBackoff: no delay before the first attempt.
Delayed == attempt > 0

\* Mutant: reconnect gives up after the last distinct attempt.
CheckGivesUp ==
  /\ runLoc = "check"
  /\ runLoc' = IF ctxDone \/ closed \/ attempt = MaxAttempt THEN "exit"
            ELSE IF Delayed THEN "backoff" ELSE "dial"
  /\ UNCHANGED <<conn, pc, closed, ctxDone, rc, attempt, failed, wloc, wc, cc>>

\* reconnect: the tests at the top of its loop.
Check ==
  /\ runLoc = "check"
  /\ runLoc' = IF ctxDone \/ closed THEN "exit"
            ELSE IF Delayed THEN "backoff" ELSE "dial"
  /\ UNCHANGED <<conn, pc, closed, ctxDone, rc, attempt, failed, wloc, wc, cc>>

\* The timer fires, or the context is done first.
Backoff ==
  /\ runLoc = "backoff"
  /\ \/ runLoc' = "dial"
     \/ ctxDone /\ runLoc' = "exit"
  /\ UNCHANGED <<conn, pc, closed, ctxDone, rc, attempt, failed, wloc, wc, cc>>

\* dial over HTTP/3, then HTTP/2, each with at most one proof, fails.
DialFail ==
  /\ runLoc = "dial"
  /\ runLoc' = "check"
  /\ attempt' = IF attempt < MaxAttempt THEN attempt + 1 ELSE attempt
  /\ UNCHANGED <<conn, pc, closed, ctxDone, rc, failed, wloc, wc, cc>>

\* Carriers that exist no more.
Unused == {c \in Conns : conn[c] = "closed" /\ c # cc /\ \A w \in Writers : wc[w] # c}

DialOK ==
  /\ runLoc = "dial"
  /\ \E c \in Unused :
       conn' = [conn EXCEPT ![c] = "open"] /\ rc' = c
  /\ runLoc' = "replace"
  /\ UNCHANGED <<pc, closed, ctxDone, attempt, failed, wloc, wc, cc>>

\* Mutant: the carrier is installed although the path was closed meanwhile.
ReplaceIgnoresClosed ==
  /\ runLoc = "replace"
  /\ pc' = rc /\ rc' = NoConn /\ runLoc' = "top"
  /\ conn' = [c \in Conns |-> IF c = pc THEN "closed" ELSE conn[c]]
  /\ UNCHANGED <<closed, ctxDone, attempt, failed, wloc, wc, cc>>

\* replacePacketConn installs the new carrier and closes a carrier still in
\* place, unless the path was closed during the dial.
Replace ==
  /\ runLoc = "replace"
  /\ IF closed
     THEN runLoc' = "discard" /\ UNCHANGED <<conn, pc, rc>>
     ELSE /\ pc' = rc /\ rc' = NoConn /\ runLoc' = "top"
          /\ conn' = [c \in Conns |-> IF c = pc THEN "closed" ELSE conn[c]]
  /\ UNCHANGED <<closed, ctxDone, attempt, failed, wloc, wc, cc>>

\* Mutant: the carrier that could not be installed is not closed.
DiscardForgets ==
  /\ runLoc = "discard"
  /\ rc' = NoConn /\ runLoc' = "exit"
  /\ UNCHANGED <<conn, pc, closed, ctxDone, attempt, failed, wloc, wc, cc>>

\* In that case the new carrier is closed and run ends.
Discard ==
  /\ runLoc = "discard"
  /\ conn' = [conn EXCEPT ![rc] = "closed"]
  /\ rc' = NoConn /\ runLoc' = "exit"
  /\ UNCHANGED <<pc, closed, ctxDone, attempt, failed, wloc, wc, cc>>

-----------------------------------------------------------------------------
\* ForwardPacket takes writeMu and a carrier; without one it returns at once.
WriteBegin(w) ==
  /\ \A v \in Writers : wloc[v] = "idle"
  /\ ~closed /\ pc # NoConn
  /\ wloc' = [wloc EXCEPT ![w] = "write"]
  /\ wc' = [wc EXCEPT ![w] = pc]
  /\ UNCHANGED <<conn, pc, closed, ctxDone, runLoc, rc, attempt, failed, cc>>

\* WriteTo succeeds, or refuses the packet for its size alone.
WriteReturn(w) ==
  /\ wloc[w] = "write" /\ conn[wc[w]] # "closed"
  /\ wloc' = [wloc EXCEPT ![w] = "idle"]
  /\ wc' = [wc EXCEPT ![w] = NoConn]
  /\ UNCHANGED <<conn, pc, closed, ctxDone, runLoc, rc, attempt, failed, cc>>

\* It fails for good.
WriteFail(w) ==
  /\ wloc[w] = "write" /\ conn[wc[w]] # "open"
  /\ wloc' = [wloc EXCEPT ![w] = "retire"]
  /\ UNCHANGED <<conn, pc, closed, ctxDone, runLoc, rc, attempt, failed, wc, cc>>

\* retirePacketConn in ForwardPacket.
WriterRetire(w) ==
  /\ wloc[w] = "retire"
  /\ pc' = Retired(wc[w])
  /\ wloc' = [wloc EXCEPT ![w] = "close"]
  /\ UNCHANGED <<conn, closed, ctxDone, runLoc, rc, attempt, failed, wc, cc>>

WriterClose(w) ==
  /\ wloc[w] = "close"
  /\ conn' = [conn EXCEPT ![wc[w]] = "closed"]
  /\ wloc' = [wloc EXCEPT ![w] = "idle"]
  /\ wc' = [wc EXCEPT ![w] = NoConn]
  /\ UNCHANGED <<pc, closed, ctxDone, runLoc, rc, attempt, failed, cc>>

\* Close, first its critical section; a second call does nothing.
CloseBegin ==
  /\ ~closed /\ closed' = TRUE
  /\ cc' = pc /\ pc' = NoConn
  /\ UNCHANGED <<conn, ctxDone, runLoc, rc, attempt, failed, wloc, wc>>

CloseEnd ==
  /\ cc # NoConn
  /\ conn' = [conn EXCEPT ![cc] = "closed"] /\ cc' = NoConn
  /\ UNCHANGED <<pc, closed, ctxDone, runLoc, rc, attempt, failed, wloc, wc>>

-----------------------------------------------------------------------------
RunStep ==
  \/ Top \/ Read \/ ReadFail \/ Retire \/ CloseRetired \/ Check \/ Backoff
  \/ DialFail \/ DialOK \/ Replace \/ Discard
  \/ \E ok \in BOOLEAN : Deliver(ok)

Write(w) ==
  WriteBegin(w) \/ WriteReturn(w) \/ WriteFail(w) \/ WriterRetire(w) \/ WriterClose(w)

\* Nothing is left to do: run has ended and the path is closed.
Finished ==
  /\ runLoc = "exit" /\ closed /\ cc = NoConn /\ ctxDone
  /\ \A w \in Writers : wloc[w] = "idle"
  /\ UNCHANGED pathVars

PathNext ==
  \/ RunStep \/ CloseBegin \/ CloseEnd \/ Cancel
  \/ \E c \in Conns : Break(c)
  \/ \E w \in Writers : Write(w)
  \/ Finished

PathSpec == PathInit /\ [][PathNext]_pathVars

\* Goroutines keep running.  Packets, breaks, Close and Cancel are not owed by
\* anyone, and neither is the return of a dial: an endpoint that keeps its
\* connection alive and never answers CONNECT holds it for ever.  A broken
\* carrier's ReadFrom fails in the end: QUIC has an idle timeout, the HTTP/2
\* carrier pings.
Fairness ==
  /\ WF_pathVars(Top) /\ WF_pathVars(\E ok \in BOOLEAN : Deliver(ok))
  /\ SF_pathVars(ReadFail)
  /\ WF_pathVars(Retire \/ CloseRetired \/ Check \/ Backoff \/ Replace \/ Discard)
  /\ WF_pathVars(CloseEnd)
  /\ \A w \in Writers : WF_pathVars(wloc[w] # "idle" /\ Write(w))

\* The endpoint does not stay unreachable, or silent, for ever.
EndpointReturns == SF_pathVars(DialOK)

LiveSpec == PathSpec /\ Fairness
-----------------------------------------------------------------------------
\* Who still has to close or install carrier c.
Responsible(c) ==
  \/ c = pc \/ c = cc
  \/ c = rc /\ runLoc \in {"close", "replace", "discard"}
  \/ \E w \in Writers : wc[w] = c /\ wloc[w] = "close"

\* No carrier leaks: one that is not closed is the installed one, or somebody
\* who took it out or dialled it is about to close or install it, even when
\* Close, a failed write and a reconnect overlap.
NoCarrierLeak ==
  \A c \in Conns : conn[c] # "closed" => Responsible(c)

\* A path never has two carriers at once: reconnect dials only after the failed
\* one is closed, so that the far end is not asked to admit a node key that it
\* still sees in use on this path's own old carrier.
AtMostOneCarrier ==
  \A c, d \in Conns : conn[c] # "closed" /\ conn[d] # "closed" => c = d

\* Both: whatever Close, failed writes and reconnects overlap, a path has at most
\* one carrier that is not closed, and somebody is responsible for it.
OneOwnedCarrier == NoCarrierLeak /\ AtMostOneCarrier

\* A healthy carrier is taken out of service only by Close: not by a failure of
\* its predecessor reported late, and not by a datagram that is too large.
HealthyStays ==
  [][pc # NoConn /\ pc' # pc => closed' \/ conn[pc] # "open"]_pathVars

\* After Close nothing is ever installed again.
ClosedForGood == closed => pc = NoConn

\* "After startup, the selected MASQUE carrier is persistent rather than
\* one-shot ... a failed CONNECT-UDP session is redialed" (docs/masquecat.md):
\* run ends only when the path was closed, its context cancelled, or its
\* onPacket failed.
RunStopsOnlyWhenTold ==
  runLoc = "exit" => closed \/ ctxDone \/ failed

\* Close releases every carrier and ends run, whatever they were doing, unless
\* run is in a dial that never returns: Close does not interrupt it, and no
\* timer of this code does.  That dial holds no carrier, and one that it
\* returns late is closed.
CloseEndsRun ==
  LET released == \A c \in Conns : conn[c] = "closed"
  IN  closed ~> (runLoc = "exit" /\ released) \/ [](runLoc = "dial" /\ released)

\* When run finds its carrier broken, a working one follows if the endpoint can
\* be reached, unless the path is closed or run cancelled meanwhile: no number
\* of failed dials makes reconnect give up.
Recovers ==
  EndpointReturns =>
    (runLoc = "retire" ~> (closed \/ ctxDone \/ \E c \in Conns : conn[c] = "open"))
=============================================================================
