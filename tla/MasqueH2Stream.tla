--------------------------- MODULE MasqueH2Stream ---------------------------
(***************************************************************************)
(* Datagrams as capsules on one HTTP/2 CONNECT stream, from the server     *)
(* (masqueHTTP2Conn, masquecat_h2.go) to the client (masqueH2ClientConn,   *)
(* masquecat_h2_client.go), under HTTP/2 flow control.                     *)
(*                                                                         *)
(* The sender cuts a capsule into DATA frames as the windows allow, waits  *)
(* on flowCh when they are used up, and gives up when its timer fires; its *)
(* caller, the relay's forwarder, logs the error and goes on with the next *)
(* datagram on the same stream.  The receiver's readLoop hands each DATA   *)
(* frame to a synchronous pipe and only then returns the credit.  So does   *)
(* the sender's with the datagrams of the other direction, and reads no    *)
(* credit while its application reads none of them.  The body of a stream  *)
(* is a sequence of units: unit 0 of a capsule is its type and length, the *)
(* others are its payload.                                                 *)
(***************************************************************************)
EXTENDS Integers, Sequences, FiniteSetsExt, Functions

CONSTANTS
  Sizes,      \* Sizes[d] is the number of payload units of datagram d
  Window,     \* the window both levels start with
  MaxWindow,  \* the largest window HTTP/2 allows, 2^31 - 1
  MaxFrame,   \* the initial SETTINGS_MAX_FRAME_SIZE
  Other       \* SETTINGS, and DATA of its own ("body"), that the receiver may
              \* send, once each: [kind, n]

ASSUME StreamAssumption ==
  /\ Sizes \in Seq(Nat) /\ MaxWindow \in Nat /\ Window \in 0..MaxWindow /\ MaxFrame \in Nat
  /\ Other \subseteq [kind : {"init", "frame", "body"}, n : Nat]

VARIABLES
  next,       \* the next datagram to send
  rest,       \* the units of the current capsule not yet written
  phase,      \* of the writer: "idle", "reserve", "wait", "write" or "dead"
  res,        \* units reserved for the frame about to be written
  connWin,    \* peerConnWindow
  streamWin,  \* peerStreamWindow
  initWin,    \* peerInitialWindow
  maxFrame,   \* peerMaxFrameSize
  token,      \* flowCh holds a token
  sread,      \* the sender's readLoop: "read", "signal" (SETTINGS applied, not yet
              \* signalled) or "pipe" (writing DATA into its own body pipe)
  closed,     \* the connection is gone
  data,       \* DATA frames on the wire, each a sequence of units
  ctrl,       \* frames on the wire back: [kind, n]
  pipe,       \* units readLoop is writing into the body pipe
  due,        \* credit of the current frame to return: conn and stream
  unsent,     \* the ones of Other not sent yet
  got,        \* the units of the capsule being received
  delivered,  \* what ReceiveDatagram has returned
  fired       \* history: the write timer fired before ("clean") or in
              \* the middle of ("cut") a capsule, or not at all ("no")

sender == <<next, rest, phase, res>>
windows == <<connWin, streamWin, initWin, maxFrame>>
receiver == <<pipe, due, got, delivered>>
vars == <<sender, windows, token, sread, closed, data, ctrl, unsent, receiver, fired>>

Datagrams == DOMAIN Sizes

\* SendDatagram: the capsule of datagram d.
Capsule(d) == [i \in 1..Sizes[d] + 1 |-> <<d, i - 1>>]

Units == {<<d, i>> : d \in Datagrams, i \in 0..Max({0} \cup Range(Sizes))}
Frames == [kind : {"conn", "stream", "init", "frame", "body"}, n : Nat]

TypeOK ==
  /\ next \in 1..Len(Sizes) + 1 /\ rest \in Seq(Units)
  /\ phase \in {"idle", "reserve", "wait", "write", "dead"} /\ res \in 0..Len(rest)
  /\ (phase = "idle" <=> rest = <<>>) /\ (phase \in {"write", "dead"} <=> res > 0)
  /\ connWin \in Nat /\ streamWin \in Int /\ initWin \in Nat /\ maxFrame \in Nat
  /\ token \in BOOLEAN /\ sread \in {"read", "signal", "pipe"} /\ closed \in BOOLEAN
  /\ data \in Seq(Seq(Units)) /\ ctrl \in Seq(Frames) /\ pipe \in Seq(Units)
  /\ due.conn \in Nat /\ due.stream \in Nat /\ unsent \in SUBSET Other
  /\ got \in Seq(Units) /\ delivered \in Seq(Seq(Units))
  /\ fired \in {"no", "clean", "cut"}

Init ==
  /\ next = 1 /\ rest = <<>> /\ phase = "idle" /\ res = 0
  /\ connWin = Window /\ streamWin = Window /\ initWin = Window /\ maxFrame = MaxFrame
  /\ token = FALSE /\ sread = "read" /\ closed = FALSE
  /\ data = <<>> /\ ctrl = <<>> /\ pipe = <<>> /\ due = [conn |-> 0, stream |-> 0]
  /\ unsent = Other /\ got = <<>> /\ delivered = <<>>
  /\ fired = "no"

-----------------------------------------------------------------------------
(* The sender.                                                             *)

SendDatagram ==
  /\ phase = "idle" /\ ~closed /\ next <= Len(Sizes)
  /\ rest' = Capsule(next) /\ next' = next + 1 /\ phase' = "reserve"
  /\ UNCHANGED <<res, windows, token, sread, closed, data, ctrl, unsent, receiver, fired>>

Available == Min({connWin, streamWin, maxFrame, Len(rest)})

\* reserveWriteWindow: take what there is ...
Reserve ==
  /\ phase = "reserve" /\ Available > 0
  /\ res' = Available /\ phase' = "write"
  /\ connWin' = connWin - Available /\ streamWin' = streamWin - Available
  /\ UNCHANGED <<next, rest, initWin, maxFrame, token, sread, closed, data, ctrl, unsent,
                 receiver, fired>>

\* ... or wait for flowCh.
Block ==
  /\ phase = "reserve" /\ Available <= 0 /\ phase' = "wait"
  /\ UNCHANGED <<next, rest, res, windows, token, sread, closed, data, ctrl, unsent, receiver, fired>>

Wake ==
  /\ phase = "wait" /\ token
  /\ token' = FALSE /\ phase' = "reserve"
  /\ UNCHANGED <<next, rest, res, windows, sread, closed, data, ctrl, unsent, receiver, fired>>

\* The write fails: the rest of the capsule is not sent.
Fail ==
  /\ rest' = <<>> /\ res' = 0 /\ phase' = "idle"
  /\ UNCHANGED <<next, windows, token, sread, closed, data, ctrl, unsent, receiver>>

\* The timer fires, perhaps in the middle of the capsule.
Timeout ==
  /\ phase = "wait" /\ Fail
  /\ fired' = IF fired = "cut" \/ rest # Capsule(next - 1) THEN "cut" ELSE "clean"

\* done is closed, or the write on the closed connection fails.
WriteClosed == phase \in {"wait", "write"} /\ closed /\ Fail /\ UNCHANGED fired

\* Mutant: the chunk just written is not cut off.
WriteFrameAgain ==
  /\ phase = "write" /\ ~closed
  /\ data' = Append(data, SubSeq(rest, 1, res))
  /\ rest' = SubSeq(rest, 1, Len(rest) - res) /\ res' = 0
  /\ phase' = IF res = Len(rest) THEN "idle" ELSE "reserve"
  /\ UNCHANGED <<next, windows, token, sread, closed, ctrl, unsent, receiver, fired>>

\* writeData: the reserved chunk goes out as one frame, and is cut off.
WriteFrame ==
  /\ phase = "write" /\ ~closed
  /\ data' = Append(data, SubSeq(rest, 1, res))
  /\ rest' = SubSeq(rest, res + 1, Len(rest)) /\ res' = 0
  /\ phase' = IF res = Len(rest) THEN "idle" ELSE "reserve"
  /\ UNCHANGED <<next, windows, token, sread, closed, ctrl, unsent, receiver, fired>>

\* writeFrame's deadline passes on an open connection: the frame is never
\* whole at the receiver, and crypto/tls refuses every later write.
WriteDeadline ==
  /\ phase = "write" /\ ~closed /\ phase' = "dead"
  /\ UNCHANGED <<next, rest, res, windows, token, sread, closed, data, ctrl, unsent, receiver, fired>>

\* Mutant: handleWindowUpdate counts without telling the writer.
HandleWindowUpdateQuiet ==
  /\ ~closed /\ sread = "read" /\ ctrl # <<>> /\ Head(ctrl).kind \in {"conn", "stream"}
  /\ ctrl' = Tail(ctrl)
  /\ IF Head(ctrl).kind = "conn"
     THEN connWin' = connWin + Head(ctrl).n /\ UNCHANGED streamWin
     ELSE streamWin' = streamWin + Head(ctrl).n /\ UNCHANGED connWin
  /\ UNCHANGED <<sender, initWin, maxFrame, token, sread, closed, data, unsent, receiver, fired>>

\* handleWindowUpdate: count and signal, all under flowMu.  A window that
\* overflows ends readLoop, and with it the connection.
HandleWindowUpdate ==
  /\ ~closed /\ sread = "read" /\ ctrl # <<>> /\ Head(ctrl).kind \in {"conn", "stream"}
  /\ ctrl' = Tail(ctrl)
  /\ IF Head(ctrl).kind = "conn"
     THEN connWin' = connWin + Head(ctrl).n /\ UNCHANGED streamWin
     ELSE streamWin' = streamWin + Head(ctrl).n /\ UNCHANGED connWin
  /\ closed' = (connWin' > MaxWindow \/ streamWin' > MaxWindow)
  /\ token' = TRUE
  /\ UNCHANGED <<sender, initWin, maxFrame, sread, data, unsent, receiver, fired>>

\* Mutant: a new initial window replaces the stream window.
HandleSettingsReplace ==
  /\ ~closed /\ sread = "read" /\ ctrl # <<>> /\ Head(ctrl).kind \in {"init", "frame"}
  /\ ctrl' = Tail(ctrl) /\ sread' = "signal"
  /\ IF Head(ctrl).kind = "init"
     THEN initWin' = Head(ctrl).n /\ streamWin' = Head(ctrl).n /\ UNCHANGED maxFrame
     ELSE maxFrame' = Head(ctrl).n /\ UNCHANGED <<initWin, streamWin>>
  /\ UNCHANGED <<sender, connWin, token, closed, data, unsent, receiver, fired>>

\* handleSettings applies the new values under flowMu ...
HandleSettings ==
  /\ ~closed /\ sread = "read" /\ ctrl # <<>> /\ Head(ctrl).kind \in {"init", "frame"}
  /\ ctrl' = Tail(ctrl) /\ sread' = "signal"
  /\ IF Head(ctrl).kind = "init"
     THEN initWin' = Head(ctrl).n /\ streamWin' = streamWin + Head(ctrl).n - initWin
          /\ UNCHANGED maxFrame
     ELSE maxFrame' = Head(ctrl).n /\ UNCHANGED <<initWin, streamWin>>
  /\ UNCHANGED <<sender, connWin, token, closed, data, unsent, receiver, fired>>

\* ... and signals after unlocking it.
SignalSettings ==
  /\ sread = "signal" /\ sread' = "read" /\ token' = TRUE
  /\ UNCHANGED <<sender, windows, closed, data, ctrl, unsent, receiver, fired>>

\* readLoop reads DATA of the other direction: it is stuck in the pipe ...
HandleBody ==
  /\ ~closed /\ sread = "read" /\ ctrl # <<>> /\ Head(ctrl).kind = "body"
  /\ ctrl' = Tail(ctrl) /\ sread' = "pipe"
  /\ UNCHANGED <<sender, windows, token, closed, data, unsent, receiver, fired>>

\* ... until the application reads it, if it ever does.
BodyRead ==
  /\ sread = "pipe" /\ sread' = "read"
  /\ UNCHANGED <<sender, windows, token, closed, data, ctrl, unsent, receiver, fired>>

\* The connection breaks, or either side closes it: close() wakes the writer.
Close ==
  /\ ~closed /\ closed' = TRUE /\ token' = TRUE
  /\ UNCHANGED <<sender, windows, sread, data, ctrl, unsent, receiver, fired>>

-----------------------------------------------------------------------------
(* The receiver.                                                           *)

\* readLoop reads a DATA frame and starts to write it into the pipe.
ReadData ==
  /\ ~closed /\ pipe = <<>> /\ due.conn = 0 /\ due.stream = 0 /\ data # <<>>
  /\ data' = Tail(data) /\ pipe' = Head(data)
  /\ due' = [conn |-> Len(Head(data)), stream |-> Len(Head(data))]
  /\ UNCHANGED <<sender, windows, token, sread, closed, ctrl, unsent, got, delivered, fired>>

\* The reader has the whole capsule its first unit announces.
Complete(s) == s # <<>> /\ s[1][2] = 0 /\ Len(s) = Sizes[s[1][1]] + 1

\* ReceiveDatagram takes the next unit.  A unit that is no capsule header
\* where one is due reads as some other type and length.
Receive ==
  /\ ~closed /\ pipe # <<>> /\ pipe' = Tail(pipe)
  /\ LET s == Append(got, Head(pipe))
     IN IF Complete(s)
        THEN delivered' = Append(delivered, s) /\ got' = <<>>
        ELSE got' = s /\ UNCHANGED delivered
  /\ UNCHANGED <<sender, windows, token, sread, closed, data, ctrl, unsent, due, fired>>

\* readLoop returns the credit of the frame: first the connection's ...
CreditConn ==
  /\ ~closed /\ pipe = <<>> /\ due.conn > 0
  /\ ctrl' = Append(ctrl, [kind |-> "conn", n |-> due.conn])
  /\ due' = [due EXCEPT !.conn = 0]
  /\ UNCHANGED <<sender, windows, token, sread, closed, data, unsent, pipe, got, delivered, fired>>

\* Mutant: the stream's credit is forgotten.
CreditStreamNot ==
  /\ ~closed /\ pipe = <<>> /\ due.conn = 0 /\ due.stream > 0
  /\ due' = [due EXCEPT !.stream = 0]
  /\ UNCHANGED <<sender, windows, token, sread, closed, data, ctrl, unsent, pipe, got, delivered, fired>>

\* ... then the stream's.
CreditStream ==
  /\ ~closed /\ pipe = <<>> /\ due.conn = 0 /\ due.stream > 0
  /\ ctrl' = Append(ctrl, [kind |-> "stream", n |-> due.stream])
  /\ due' = [due EXCEPT !.stream = 0]
  /\ UNCHANGED <<sender, windows, token, sread, closed, data, unsent, pipe, got, delivered, fired>>

\* The receiver changes its settings in mid-stream, or sends a datagram.
SendOther ==
  /\ ~closed
  /\ \E s \in unsent : unsent' = unsent \ {s} /\ ctrl' = Append(ctrl, s)
  /\ UNCHANGED <<sender, windows, token, sread, closed, data, receiver, fired>>

Writer == SendDatagram \/ Reserve \/ Block \/ Wake \/ WriteFrame \/ WriteClosed

SenderReadLoop == HandleWindowUpdate \/ HandleSettings \/ SignalSettings \/ HandleBody

ReceiverReadLoop == ReadData \/ CreditConn \/ CreditStream

Finished ==
  /\ phase = "dead" \/ (phase = "idle" /\ (closed \/ next > Len(Sizes)))
  /\ UNCHANGED vars

Next ==
  \/ Writer \/ Timeout \/ WriteDeadline \/ SenderReadLoop \/ BodyRead
  \/ ReceiverReadLoop \/ Receive \/ SendOther \/ Close \/ Finished

Spec == Init /\ [][Next]_vars
-----------------------------------------------------------------------------
Total(w) ==
  LET sum[i \in 0..Len(w)] == IF i = 0 THEN 0 ELSE sum[i - 1] + w[i] IN sum[Len(w)]
Credit(k) == Total([i \in DOMAIN ctrl |-> IF ctrl[i].kind = k THEN ctrl[i].n ELSE 0])
OnWire == Total([i \in DOMAIN data |-> Len(data[i])])

\* No credit is lost or made: at both levels what the sender may still send,
\* what is under way and what is on its way back add up to the window the
\* receiver has announced, across SETTINGS that move it in mid-stream.
CreditConserved ==
  /\ TypeOK
  /\ ~closed =>
     /\ connWin + res + OnWire + due.conn + Credit("conn") = Window
     /\ streamWin - initWin + res + OnWire + due.stream + Credit("stream") = 0

\* What ReceiveDatagram returns are whole datagrams, in the order sent, as long
\* as no write was cut off in the middle of its capsule.
DatagramsIntact ==
  fired # "cut" =>
    /\ \A k \in DOMAIN delivered : \E d \in Datagrams : delivered[k] = Capsule(d)
    /\ \A j, k \in DOMAIN delivered : j < k => delivered[j][1][1] < delivered[k][1][1]
=============================================================================
