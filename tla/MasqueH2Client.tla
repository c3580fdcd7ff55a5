--------------------------- MODULE MasqueH2Client ---------------------------
(***************************************************************************)
(* An HTTP/2 carrier from the dial to the last datagram: the CONNECT       *)
(* stream is established as in MasqueH2Dial, and datagrams then go over it *)
(* as in MasqueH2Stream.                                                   *)
(*                                                                         *)
(* An established stream either ends, as in MasqueH2Dial, or is used; its  *)
(* own goroutines are then the readLoop of MasqueH2Stream, so what is left *)
(* of the dial is forgotten: it stays as it is after a dial that has just  *)
(* succeeded.                                                              *)
(***************************************************************************)
EXTENDS MasqueH2Stream

VARIABLES
  stage,  \* "dial" or "stream"
  dloc, rloc, wloc, ctxDone, childDone, done, broken, settingsOnce, settingsCh, settingsSent,
  responseOnce, responseCh, responseSent, first, allowed, offered, requested, pinged

Dial == INSTANCE MasqueH2Dial

dialVars == <<dloc, rloc, wloc, ctxDone, childDone, done, broken, settingsOnce, settingsCh,
              settingsSent, responseOnce, responseCh, responseSent, first, allowed, offered,
              requested, pinged>>
allVars == <<stage, dialVars, vars>>

ClientInit == stage = "dial" /\ Dial!Init /\ Init

DialStep == stage = "dial" /\ Dial!Next /\ UNCHANGED <<stage, vars>>

\* dialMasqueH2PacketConnRFC8441 makes a packet connection of the stream that
\* a dial has established.
Use ==
  /\ stage = "dial" /\ dloc = "ok" /\ ~done /\ stage' = "stream"
  /\ dloc' = "ok" /\ rloc' = "read" /\ wloc' = "watch"
  /\ ctxDone' = FALSE /\ childDone' = FALSE /\ done' = FALSE /\ broken' = FALSE
  /\ settingsOnce' = TRUE /\ settingsCh' = "none" /\ settingsSent' = 1
  /\ responseOnce' = TRUE /\ responseCh' = "none" /\ responseSent' = 1
  /\ first' = FALSE /\ allowed' = TRUE /\ offered' = TRUE /\ requested' = TRUE /\ pinged' = FALSE
  /\ UNCHANGED vars

InStream(A) == stage = "stream" /\ A /\ UNCHANGED <<stage, dialVars>>
InDial(A) == stage = "dial" /\ A /\ UNCHANGED <<stage, vars>>

StreamStep == InStream(Next)

ClientNext == DialStep \/ Use \/ StreamStep

\* The goroutines of the dial run, and those of both ends of the stream.
ClientSpec ==
  /\ ClientInit /\ [][ClientNext]_allVars
  /\ WF_allVars(InDial(Dial!Dialer)) /\ WF_allVars(InDial(Dial!ReadLoop))
  /\ WF_allVars(InDial(Dial!Watch))
  /\ WF_allVars(InStream(Writer)) /\ WF_allVars(InStream(SenderReadLoop))
  /\ WF_allVars(InStream(ReceiverReadLoop)) /\ WF_allVars(InStream(Receive))
-----------------------------------------------------------------------------
\* A dial that fails leaves nothing behind, and no stream is used but one that
\* was answered.
FailedDialClosed == Dial!FailedDialClosed /\ (stage = "stream" => dloc = "ok")

\* A carrier gets on.  The dial returns once its context is done, and both its
\* goroutines end once its connection is closed (DialEnds).  On a stream that is
\* used everything sent arrives, also datagrams larger than the window, while the
\* receiver reads, unless the stream is closed, a timer or a write deadline
\* passes, or the sender's own application stops reading: its readLoop is then
\* stuck in the body pipe and sees no credit.
CarrierProgress ==
  /\ Dial!DialEnds
  /\ (stage = "stream") ~>
       \/ closed \/ fired # "no" \/ phase = "dead" \/ Len(delivered) = Len(Sizes)
       \/ [](sread = "pipe")
=============================================================================
