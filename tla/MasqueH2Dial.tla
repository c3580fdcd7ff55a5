---------------------------- MODULE MasqueH2Dial ----------------------------
(***************************************************************************)
(* Establishing a CONNECT-UDP stream over HTTP/2 on the client             *)
(* (masquecat_h2_client.go): the goroutine in dialMasqueH2ExtendedConnect, *)
(* the readLoop, and the goroutine that watches the context, which meet in *)
(* two one-place channels and in closeWithError.                           *)
(*                                                                         *)
(* settingsCh and responseCh get one value each, from whoever wins the     *)
(* sync.Once that guards them; a second value would block its sender for   *)
(* ever.  The peer sends what it likes, in any order and as often as it    *)
(* likes, and may fall silent or hang up at any time.                      *)
(***************************************************************************)
EXTENDS Naturals

VARIABLES
  dloc,          \* the dialer: where it is, or "ok" or "failed"
  rloc,          \* readLoop: "none", "read", "ack", "pipe", "exit" or "gone"
  wloc,          \* the watcher: "none", "watch" or "gone"
  ctxDone,       \* the caller's context is done
  childDone,     \* the connection's context is done
  done,          \* c.done is closed, and with it the connection
  broken,        \* the peer has hung up
  settingsOnce,  \* settingsOnce has run
  settingsCh,    \* the value in settingsCh: "none", "ok" or "error"
  settingsSent,  \* how many values were sent to settingsCh
  responseOnce,  \* responseOnce has run
  responseCh,    \* the value in responseCh
  responseSent,  \* how many values were sent to responseCh
  first,         \* the SETTINGS being handled are the first ones
  allowed,       \* extendedConnectAllowed
  offered,       \* history: the first SETTINGS allowed extended CONNECT
  requested,     \* the CONNECT request has been written
  pinged         \* pingOutstanding

channels == <<settingsOnce, settingsCh, settingsSent, responseOnce, responseCh, responseSent>>
said == <<first, allowed, offered>>
vars == <<dloc, rloc, wloc, ctxDone, childDone, done, broken, channels, said, requested,
          pinged>>

Values == {"none", "ok", "error"}

TypeOK ==
  /\ dloc \in {"preface", "settings", "headers", "response", "ok", "failed"}
  /\ rloc \in {"none", "read", "ack", "pipe", "exit", "gone"} /\ wloc \in {"none", "watch", "gone"}
  /\ {ctxDone, childDone, done, broken, settingsOnce, responseOnce, first, allowed, offered,
      requested, pinged} \subseteq BOOLEAN
  /\ settingsCh \in Values /\ responseCh \in Values
  /\ settingsSent \in 0..1 /\ responseSent \in 0..1

Init ==
  /\ dloc = "preface" /\ rloc = "none" /\ wloc = "none"
  /\ ctxDone = FALSE /\ childDone = FALSE /\ done = FALSE /\ broken = FALSE
  /\ settingsOnce = FALSE /\ settingsCh = "none" /\ settingsSent = 0
  /\ responseOnce = FALSE /\ responseCh = "none" /\ responseSent = 0
  /\ first = FALSE /\ allowed = FALSE /\ offered = FALSE /\ requested = FALSE /\ pinged = FALSE

-----------------------------------------------------------------------------
\* closeWithError: once, close everything and answer whoever still waits.
CloseWithError ==
  IF done THEN UNCHANGED <<done, childDone, channels>>
  ELSE /\ done' = TRUE /\ childDone' = TRUE
       /\ settingsOnce' = TRUE
       /\ IF settingsOnce THEN UNCHANGED <<settingsCh, settingsSent>>
          ELSE settingsSent' = settingsSent + 1 /\ settingsCh' = "error"
       /\ responseOnce' = TRUE
       /\ IF responseOnce THEN UNCHANGED <<responseCh, responseSent>>
          ELSE responseSent' = responseSent + 1 /\ responseCh' = "error"

\* writeFrame may work: not after done is closed, and not on a broken
\* connection.  It may always fail, at its deadline if nothing else.
Writable == ~done /\ ~broken

\* Every error path of the dialer.
FailDial ==
  /\ dloc' = "failed" /\ CloseWithError
  /\ UNCHANGED <<rloc, wloc, ctxDone, broken, said, requested, pinged>>

\* writeClientPrefaceAndSettings, then the two goroutines.
WritePreface ==
  /\ dloc = "preface"
  /\ \/ FailDial
     \/ /\ Writable /\ dloc' = "settings" /\ rloc' = "read" /\ wloc' = "watch"
        /\ UNCHANGED <<ctxDone, childDone, done, broken, channels, said, requested, pinged>>

\* The dialer receives from settingsCh.
TakeSettings ==
  /\ dloc = "settings" /\ settingsCh # "none"
  /\ IF settingsCh = "ok"
     THEN /\ dloc' = "headers" /\ settingsCh' = "none"
          /\ UNCHANGED <<rloc, wloc, ctxDone, childDone, done, broken, settingsOnce, settingsSent,
                         responseOnce, responseCh, responseSent, said, requested, pinged>>
     ELSE FailDial

\* writeExtendedConnectHeaders.
WriteHeaders ==
  /\ dloc = "headers"
  /\ \/ FailDial
     \/ /\ Writable /\ dloc' = "response" /\ requested' = TRUE
        /\ UNCHANGED <<rloc, wloc, ctxDone, childDone, done, broken, channels, said, pinged>>

\* The dialer receives from responseCh.
TakeResponse ==
  /\ dloc = "response" /\ responseCh # "none"
  /\ IF responseCh = "ok"
     THEN /\ dloc' = "ok" /\ responseCh' = "none"
          /\ UNCHANGED <<rloc, wloc, ctxDone, childDone, done, broken, settingsOnce, settingsCh,
                         settingsSent, responseOnce, responseSent, said, requested, pinged>>
     ELSE FailDial

\* ctx.Done while the dialer waits.
GiveUp == dloc \in {"settings", "response"} /\ ctxDone /\ FailDial

\* The caller closes the established stream: closeRequestStream.
CloseStream ==
  /\ dloc = "ok" /\ ~done /\ CloseWithError
  /\ UNCHANGED <<dloc, rloc, wloc, ctxDone, broken, said, requested, pinged>>

-----------------------------------------------------------------------------
\* A frame arrives at readLoop, which any frame may also end.
Frame ==
  /\ rloc = "read" /\ ~done /\ ~broken /\ pinged' = FALSE
  /\ UNCHANGED <<dloc, wloc, ctxDone, childDone, done, broken, requested>>

\* handleSettings: the first SETTINGS win settingsOnce.  The frame may say
\* whether extended CONNECT is allowed, or say nothing of it.
ReadSettings ==
  /\ Frame /\ rloc' = "ack"
  /\ first' = ~settingsOnce /\ settingsOnce' = TRUE
  /\ allowed' \in {TRUE, FALSE, allowed} /\ offered' = IF first' THEN allowed' ELSE offered
  /\ UNCHANGED <<settingsCh, settingsSent, responseOnce, responseCh, responseSent>>

\* SETTINGS with a value that is refused: the dialer is told, and readLoop ends.
ReadBadSettings ==
  /\ Frame /\ rloc' = "exit" /\ settingsOnce' = TRUE
  /\ IF settingsOnce THEN UNCHANGED <<settingsCh, settingsSent>>
     ELSE settingsSent' = settingsSent + 1 /\ settingsCh' = "error"
  /\ UNCHANGED <<responseOnce, responseCh, responseSent, said>>

\* Mutant: the dialer is told to go on whatever the SETTINGS said.
AckSettingsUnchecked ==
  /\ rloc = "ack" /\ first' = FALSE
  /\ \E ok \in BOOLEAN :
       /\ ok => Writable
       /\ rloc' = IF ok THEN "read" ELSE "exit"
       /\ IF first
          THEN settingsSent' = settingsSent + 1 /\ settingsCh' = IF ok THEN "ok" ELSE "error"
          ELSE UNCHANGED <<settingsCh, settingsSent>>
  /\ UNCHANGED <<dloc, wloc, ctxDone, childDone, done, broken, settingsOnce, responseOnce,
                 responseCh, responseSent, allowed, offered, requested, pinged>>

\* The acknowledgement is written and the dialer told.
AckSettings ==
  /\ rloc = "ack" /\ first' = FALSE
  /\ \E ok \in BOOLEAN :
       /\ ok => Writable
       /\ rloc' = IF ok THEN "read" ELSE "exit"
       /\ IF first
          THEN settingsSent' = settingsSent + 1 /\ settingsCh' = IF ok /\ allowed THEN "ok" ELSE "error"
          ELSE UNCHANGED <<settingsCh, settingsSent>>
  /\ UNCHANGED <<dloc, wloc, ctxDone, childDone, done, broken, settingsOnce, responseOnce,
                 responseCh, responseSent, allowed, offered, requested, pinged>>

\* handleResponseHeaders, which does not ask whether there was a request.
ReadResponse ==
  /\ Frame /\ responseOnce' = TRUE
  /\ IF responseOnce THEN UNCHANGED <<responseCh, responseSent>>
     ELSE responseSent' = responseSent + 1 /\ responseCh' = "ok"
  /\ UNCHANGED <<rloc, settingsOnce, settingsCh, settingsSent, said>>

\* DATA goes into the body pipe, which nobody reads before the dial returns;
\* closeWithError closes the pipe.
ReadData == Frame /\ rloc' = "pipe" /\ UNCHANGED <<channels, said>>
PipeClosed ==
  /\ rloc = "pipe" /\ done /\ rloc' = "exit"
  /\ UNCHANGED <<dloc, wloc, ctxDone, childDone, done, broken, channels, said, requested, pinged>>

\* PING, WINDOW_UPDATE, empty DATA: nothing the dialer waits for.
ReadOther == Frame /\ UNCHANGED <<rloc, channels, said>>

\* RST_STREAM, GOAWAY, a frame that is refused or cannot be answered.
ReadEnd == Frame /\ rloc' = "exit" /\ UNCHANGED <<channels, said>>

\* The read deadline passes: a PING, and at the second time the end.
ReadIdle ==
  /\ rloc = "read" /\ ~done /\ ~broken
  /\ \/ ~pinged /\ pinged' = TRUE /\ UNCHANGED rloc
     \/ rloc' = "exit" /\ UNCHANGED pinged
  /\ UNCHANGED <<dloc, wloc, ctxDone, childDone, done, broken, channels, said, requested>>

\* Reading fails on a connection that is closed or broken.
ReadError ==
  /\ rloc = "read" /\ (done \/ broken) /\ rloc' = "exit"
  /\ UNCHANGED <<dloc, wloc, ctxDone, childDone, done, broken, channels, said, requested, pinged>>

\* The deferred closeWithError of readLoop.
ReadLoopExit ==
  /\ rloc = "exit" /\ rloc' = "gone" /\ CloseWithError
  /\ UNCHANGED <<dloc, wloc, ctxDone, broken, said, requested, pinged>>

\* The goroutine that waits for the connection's context.
Watch ==
  /\ wloc = "watch" /\ childDone /\ wloc' = "gone" /\ CloseWithError
  /\ UNCHANGED <<dloc, rloc, ctxDone, broken, said, requested, pinged>>

\* The caller cancels.
Cancel ==
  /\ ~ctxDone /\ ctxDone' = TRUE /\ childDone' = TRUE
  /\ UNCHANGED <<dloc, rloc, wloc, done, broken, channels, said, requested, pinged>>

\* The peer hangs up.
Hangup ==
  /\ ~broken /\ broken' = TRUE
  /\ UNCHANGED <<dloc, rloc, wloc, ctxDone, childDone, done, channels, said, requested, pinged>>

Dialer == WritePreface \/ TakeSettings \/ WriteHeaders \/ TakeResponse \/ GiveUp

ReadLoop == AckSettings \/ ReadIdle \/ ReadError \/ PipeClosed \/ ReadLoopExit

Finished ==
  /\ dloc \in {"ok", "failed"} /\ rloc \in {"none", "gone"} /\ wloc \in {"none", "gone"}
  /\ UNCHANGED vars

Next ==
  \/ Dialer \/ CloseStream \/ ReadLoop \/ Watch \/ Cancel \/ Hangup \/ Finished
  \/ ReadSettings \/ ReadBadSettings \/ ReadResponse \/ ReadData \/ ReadOther \/ ReadEnd
-----------------------------------------------------------------------------
\* A dial that fails leaves nothing behind: the connection is closed, and its
\* context done, so that both goroutines end.  A request is only made of a peer
\* whose first SETTINGS allowed extended CONNECT, and a dial that succeeds made
\* one and took the one response.
FailedDialClosed ==
  /\ TypeOK
  /\ dloc = "failed" => done /\ childDone
  /\ requested => offered
  /\ dloc = "ok" => requested /\ settingsSent = 1 /\ responseSent = 1

\* dialMasqueH2ExtendedConnect returns once its context is done, however that
\* races with the peer, the connection and readLoop.  Left to the peer, it
\* returns unless the peer sends frames for ever but no response, answers to
\* PINGs included, or sends DATA instead of one, which stops readLoop and its
\* PINGs for good.  Once the connection is closed both its goroutines end.
DialEnds ==
  /\ ctxDone ~> dloc \in {"ok", "failed"}
  /\ <>(dloc \in {"ok", "failed"}) \/ <>[](rloc = "pipe") \/ []<><<Frame>>_vars
  /\ done ~> rloc \in {"none", "gone"} /\ wloc \in {"none", "gone"}
=============================================================================
