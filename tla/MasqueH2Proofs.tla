--------------------------- MODULE MasqueH2Proofs ---------------------------
(***************************************************************************)
(* Theorems about the HTTP/2 carrier, for every number and size of         *)
(* datagrams, every window and every SETTINGS: the dial, flow control, and *)
(* the datagrams themselves.                                               *)
(***************************************************************************)
EXTENDS MasqueH2Client, SequenceLemmas

-----------------------------------------------------------------------------
(* The dial.                                                                *)
-----------------------------------------------------------------------------
\* Each channel gets its value from whoever wins its Once: settingsCh when the
\* winner is not about to acknowledge the first SETTINGS, responseCh at once.
SentOnce ==
  /\ first => rloc = "ack" /\ settingsOnce
  /\ settingsSent = 1 <=> settingsOnce /\ ~first
  /\ responseSent = 1 <=> responseOnce
  /\ done => childDone /\ settingsOnce /\ responseOnce

\* How far the dialer is, and what it has got.
DialerGot ==
  /\ first => (allowed <=> offered)
  /\ settingsCh = "ok" => offered
  /\ settingsCh # "none" => settingsSent = 1
  /\ responseCh # "none" => responseSent = 1
  /\ dloc \in {"headers", "response", "ok"} => settingsSent = 1 /\ offered
  /\ dloc \in {"response", "ok"} => requested
  /\ dloc = "preface" => rloc = "none"

Flags ==
  {ctxDone, childDone, done, broken, settingsOnce, responseOnce, first, allowed, offered,
   requested, pinged}
    \subseteq BOOLEAN

Places ==
  /\ dloc \in {"preface", "settings", "headers", "response", "ok", "failed"}
  /\ rloc \in {"none", "read", "ack", "pipe", "exit", "gone"} /\ wloc \in {"none", "watch", "gone"}
  /\ settingsCh \in Dial!Values /\ responseCh \in Dial!Values
  /\ settingsSent \in 0..1 /\ responseSent \in 0..1

\* What the dial promises, but for types.
Closes ==
  /\ stage = "stream" => dloc = "ok"
  /\ dloc = "failed" => done
  /\ dloc = "ok" => responseSent = 1
  /\ requested => settingsOnce /\ offered

DialInv == Flags /\ Places /\ SentOnce /\ DialerGot /\ Closes

\* The invariant is enough for what the dial promises.
LEMMA DialPromise == DialInv => FailedDialClosed
<1> SUFFICES ASSUME DialInv PROVE FailedDialClosed
  OBVIOUS
<1>1. Dial!TypeOK
  BY Zenon DEF DialInv, Dial!TypeOK, Flags, Places
<1>2. Dial!FailedDialClosed /\ (stage = "stream" => dloc = "ok")
  <2> HIDE DEF Dial!TypeOK
  <2> QED
    BY <1>1 DEF DialInv, SentOnce, DialerGot, Closes, Dial!FailedDialClosed
<1> QED
  BY <1>2 DEF FailedDialClosed

\* A new carrier satisfies the invariant of the dial.
LEMMA InitDial == ClientInit => DialInv
<1> SUFFICES ASSUME ClientInit PROVE DialInv
  OBVIOUS
<1>1. Flags
  BY Zenon DEF ClientInit, Dial!Init, Flags
<1>2. Places
  BY DEF ClientInit, Dial!Init, Places, Dial!Values
<1>3. SentOnce /\ DialerGot /\ Closes
  BY DEF ClientInit, Dial!Init, SentOnce, DialerGot, Closes
<1> QED
  BY <1>1, <1>2, <1>3 DEF DialInv

\* The invariant is inductive: no order of frames, of the end of the context and
\* of the connection breaks it.
LEMMA NextDial == DialInv /\ [ClientNext]_allVars => DialInv'
<1> SUFFICES ASSUME DialInv, [ClientNext]_allVars PROVE DialInv'
  OBVIOUS
<1> USE DEF DialInv, Dial!said
\* closeWithError, whoever calls it.
<1>1. ASSUME stage' = "dial", Dial!CloseWithError, Places', dloc' = dloc \/ dloc' = "failed",
             rloc' = rloc \/ rloc = "exit",
             UNCHANGED <<ctxDone, broken, first, allowed, offered, requested, pinged>>
      PROVE  DialInv'
  <2>1. CASE done
    <3>1. Flags'
      BY <1>1, <2>1, Zenon DEF Flags, Dial!CloseWithError, Dial!channels
    <3>2. SentOnce' /\ DialerGot' /\ Closes'
      BY <1>1, <2>1 DEF Flags, Places, SentOnce, DialerGot, Closes, Dial!CloseWithError, Dial!channels
    <3> QED
      BY <1>1, <3>1, <3>2
  <2>2. CASE ~done
    <3>1. Flags'
      BY <1>1, <2>2, Zenon DEF Flags, Dial!CloseWithError
    <3>2. SentOnce' /\ DialerGot' /\ Closes'
      BY <1>1, <2>2 DEF Flags, Places, SentOnce, DialerGot, Closes, Dial!CloseWithError
    <3> QED
      BY <1>1, <3>1, <3>2
  <2> QED
    BY <2>1, <2>2
<1>2. ASSUME stage = "dial", stage' = "dial", Dial!WritePreface PROVE DialInv'
  <2>1. CASE ~(Dial!FailDial)
    <3>1. Flags'
      BY <1>2, <2>1, Zenon DEF Flags, Dial!WritePreface, Dial!channels
    <3>2. Places' /\ SentOnce' /\ DialerGot' /\ Closes'
      BY <1>2, <2>1
         DEF Flags, Places, Dial!Values, SentOnce, DialerGot, Closes, Dial!WritePreface, Dial!channels
    <3> QED
      BY <3>1, <3>2
  <2>2. CASE Dial!FailDial
    <3>1. Places'
      BY <2>2 DEF Dial!FailDial, Dial!CloseWithError, Dial!channels, Places, SentOnce, Dial!Values
    <3> QED
      BY <1>1, <1>2, <2>2, <3>1 DEF Dial!FailDial
  <2> QED
    BY <2>1, <2>2
<1>3. ASSUME stage = "dial", stage' = "dial", Dial!TakeSettings PROVE DialInv'
  <2>1. CASE settingsCh = "ok"
    <3>1. Flags'
      BY <1>3, <2>1, Zenon DEF Flags, Dial!TakeSettings, Dial!channels
    <3>2. Places' /\ SentOnce' /\ DialerGot' /\ Closes'
      BY <1>3, <2>1
         DEF Flags, Places, Dial!Values, SentOnce, DialerGot, Closes, Dial!TakeSettings, Dial!channels
    <3> QED
      BY <3>1, <3>2
  <2>2. CASE ~(settingsCh = "ok")
    <3>1. Dial!FailDial
      BY <1>3, <2>2 DEF Dial!TakeSettings
    <3>2. Places'
      BY <3>1 DEF Dial!FailDial, Dial!CloseWithError, Dial!channels, Places, SentOnce, Dial!Values
    <3> QED
      BY <1>1, <1>3, <3>1, <3>2 DEF Dial!FailDial
  <2> QED
    BY <2>1, <2>2
<1>4. ASSUME stage = "dial", stage' = "dial", Dial!WriteHeaders PROVE DialInv'
  <2>1. CASE ~(Dial!FailDial)
    <3>1. Flags'
      BY <1>4, <2>1, Zenon DEF Flags, Dial!WriteHeaders, Dial!channels
    <3>2. /\ dloc = "headers" /\ dloc' = "response" /\ requested'
          /\ UNCHANGED <<rloc, wloc, childDone, done, settingsOnce, settingsCh, settingsSent,
                         responseOnce, responseCh, responseSent, first, allowed, offered>>
      BY <1>4, <2>1 DEF Dial!WriteHeaders, Dial!channels
    <3>3. Places' /\ SentOnce' /\ DialerGot' /\ Closes'
      BY <1>4, <3>2 DEF Flags, Places, Dial!Values, SentOnce, DialerGot, Closes
    <3> QED
      BY <3>1, <3>3
  <2>2. CASE Dial!FailDial
    <3>1. Places'
      BY <2>2 DEF Dial!FailDial, Dial!CloseWithError, Dial!channels, Places, SentOnce, Dial!Values
    <3> QED
      BY <1>1, <1>4, <2>2, <3>1 DEF Dial!FailDial
  <2> QED
    BY <2>1, <2>2
<1>5. ASSUME stage = "dial", stage' = "dial", Dial!TakeResponse PROVE DialInv'
  <2>1. CASE responseCh = "ok"
    <3>1. Flags'
      BY <1>5, <2>1, Zenon DEF Flags, Dial!TakeResponse, Dial!channels
    <3>2. Places' /\ SentOnce' /\ DialerGot' /\ Closes'
      BY <1>5, <2>1
         DEF Flags, Places, Dial!Values, SentOnce, DialerGot, Closes, Dial!TakeResponse, Dial!channels
    <3> QED
      BY <3>1, <3>2
  <2>2. CASE ~(responseCh = "ok")
    <3>1. Dial!FailDial
      BY <1>5, <2>2 DEF Dial!TakeResponse
    <3>2. Places'
      BY <3>1 DEF Dial!FailDial, Dial!CloseWithError, Dial!channels, Places, SentOnce, Dial!Values
    <3> QED
      BY <1>1, <1>5, <3>1, <3>2 DEF Dial!FailDial
  <2> QED
    BY <2>1, <2>2
<1>6. ASSUME stage = "dial", stage' = "dial", Dial!GiveUp PROVE DialInv'
  <2>1. Places'
    BY <1>6 DEF Dial!GiveUp, Dial!FailDial, Dial!CloseWithError, Dial!channels, Places, SentOnce, Dial!Values
  <2> QED
    BY <1>1, <1>6, <2>1 DEF Dial!GiveUp, Dial!FailDial
<1>7. ASSUME stage = "dial", stage' = "dial", Dial!CloseStream PROVE DialInv'
  <2>1. Places'
    BY <1>7 DEF Dial!CloseStream, Dial!CloseWithError, Dial!channels, Places, SentOnce, Dial!Values
  <2> QED
    BY <1>1, <1>7, <2>1 DEF Dial!CloseStream
<1>8. ASSUME stage = "dial", stage' = "dial", Dial!AckSettings PROVE DialInv'
  <2>1. Flags'
    BY <1>8, Zenon DEF Flags, Dial!AckSettings, Dial!channels
  <2>2. Places' /\ SentOnce' /\ DialerGot' /\ Closes'
    BY <1>8 DEF Flags, Places, Dial!Values, SentOnce, DialerGot, Closes, Dial!AckSettings, Dial!channels
  <2> QED
    BY <2>1, <2>2
<1>9. ASSUME stage = "dial", stage' = "dial", Dial!ReadIdle PROVE DialInv'
  <2>1. Flags'
    BY <1>9, Zenon DEF Flags, Dial!ReadIdle, Dial!channels
  <2>2. Places' /\ SentOnce' /\ DialerGot' /\ Closes'
    BY <1>9 DEF Flags, Places, Dial!Values, SentOnce, DialerGot, Closes, Dial!ReadIdle, Dial!channels
  <2> QED
    BY <2>1, <2>2
<1>10. ASSUME stage = "dial", stage' = "dial", Dial!ReadError PROVE DialInv'
  <2>1. Flags'
    BY <1>10, Zenon DEF Flags, Dial!ReadError, Dial!channels
  <2>2. Places' /\ SentOnce' /\ DialerGot' /\ Closes'
    BY <1>10 DEF Flags, Places, Dial!Values, SentOnce, DialerGot, Closes, Dial!ReadError, Dial!channels
  <2> QED
    BY <2>1, <2>2
<1>11. ASSUME stage = "dial", stage' = "dial", Dial!ReadLoopExit PROVE DialInv'
  <2>1. Places'
    BY <1>11 DEF Dial!ReadLoopExit, Dial!CloseWithError, Dial!channels, Places, SentOnce, Dial!Values
  <2> QED
    BY <1>1, <1>11, <2>1 DEF Dial!ReadLoopExit
<1>12. ASSUME stage = "dial", stage' = "dial", Dial!Watch PROVE DialInv'
  <2>1. wloc' = "gone" /\ Dial!CloseWithError /\ UNCHANGED <<dloc, rloc>>
    BY <1>12 DEF Dial!Watch
  <2>2. Places'
    BY <2>1 DEF Dial!CloseWithError, Dial!channels, Places, SentOnce, Dial!Values
  <2> QED
    BY <1>1, <1>12, <2>1, <2>2 DEF Dial!Watch
<1>13. ASSUME stage = "dial", stage' = "dial", Dial!Cancel PROVE DialInv'
  <2>1. Flags'
    BY <1>13, Zenon DEF Flags, Dial!Cancel, Dial!channels
  <2>2. Places' /\ SentOnce' /\ DialerGot' /\ Closes'
    BY <1>13 DEF Flags, Places, Dial!Values, SentOnce, DialerGot, Closes, Dial!Cancel, Dial!channels
  <2> QED
    BY <2>1, <2>2
<1>14. ASSUME stage = "dial", stage' = "dial", Dial!Hangup PROVE DialInv'
  <2>1. Flags'
    BY <1>14, Zenon DEF Flags, Dial!Hangup, Dial!channels
  <2>2. Places' /\ SentOnce' /\ DialerGot' /\ Closes'
    BY <1>14 DEF Flags, Places, Dial!Values, SentOnce, DialerGot, Closes, Dial!Hangup, Dial!channels
  <2> QED
    BY <2>1, <2>2
<1>15. ASSUME stage = "dial", stage' = "dial", Dial!ReadSettings PROVE DialInv'
  <2>1. Flags'
    BY <1>15, Zenon DEF Flags, Dial!ReadSettings, Dial!Frame, Dial!channels
  <2>2. (first' <=> ~settingsOnce) /\ settingsOnce'
    BY <1>15, Zenon DEF Dial!ReadSettings
  <2>3. (first' => (allowed' <=> offered')) /\ (settingsOnce => offered' = offered)
    BY <1>15, <2>2, Zenon DEF Dial!ReadSettings
  <2>4. /\ rloc = "read" /\ rloc' = "ack"
        /\ UNCHANGED <<dloc, wloc, childDone, done, requested, settingsCh, settingsSent, responseOnce,
                       responseCh, responseSent>>
    BY <1>15 DEF Dial!ReadSettings, Dial!Frame
  <2>5. Places' /\ SentOnce' /\ DialerGot' /\ Closes'
    BY <1>15, <2>2, <2>3, <2>4 DEF Flags, Places, Dial!Values, SentOnce, DialerGot, Closes
  <2> QED
    BY <2>1, <2>5
<1>16. ASSUME stage = "dial", stage' = "dial", Dial!ReadBadSettings PROVE DialInv'
  <2>1. Flags'
    BY <1>16, Zenon DEF Flags, Dial!ReadBadSettings, Dial!Frame, Dial!channels
  <2>2. Places' /\ SentOnce' /\ DialerGot' /\ Closes'
    BY <1>16 DEF Flags, Places, Dial!Values, SentOnce, DialerGot, Closes, Dial!ReadBadSettings, Dial!Frame,
       Dial!channels
  <2> QED
    BY <2>1, <2>2
<1>17. ASSUME stage = "dial", stage' = "dial", Dial!ReadResponse PROVE DialInv'
  <2>1. Flags'
    BY <1>17, Zenon DEF Flags, Dial!ReadResponse, Dial!Frame, Dial!channels
  <2>2. Places' /\ SentOnce' /\ DialerGot' /\ Closes'
    BY <1>17 DEF Flags, Places, Dial!Values, SentOnce, DialerGot, Closes, Dial!ReadResponse, Dial!Frame,
       Dial!channels
  <2> QED
    BY <2>1, <2>2
<1>18. ASSUME stage = "dial", stage' = "dial", Dial!ReadOther PROVE DialInv'
  <2>1. Flags'
    BY <1>18, Zenon DEF Flags, Dial!ReadOther, Dial!Frame, Dial!channels
  <2>2. Places' /\ SentOnce' /\ DialerGot' /\ Closes'
    BY <1>18
       DEF Flags, Places, Dial!Values, SentOnce, DialerGot, Closes, Dial!ReadOther, Dial!Frame, Dial!channels
  <2> QED
    BY <2>1, <2>2
<1>19. ASSUME stage = "dial", stage' = "dial", Dial!ReadEnd PROVE DialInv'
  <2>1. Flags'
    BY <1>19, Zenon DEF Flags, Dial!ReadEnd, Dial!Frame, Dial!channels
  <2>2. Places' /\ SentOnce' /\ DialerGot' /\ Closes'
    BY <1>19
       DEF Flags, Places, Dial!Values, SentOnce, DialerGot, Closes, Dial!ReadEnd, Dial!Frame, Dial!channels
  <2> QED
    BY <2>1, <2>2
<1>d. ASSUME stage = "dial", stage' = "dial", Dial!ReadData PROVE DialInv'
  <2>1. Flags'
    BY <1>d, Zenon DEF Flags, Dial!ReadData, Dial!Frame, Dial!channels
  <2>2. Places' /\ SentOnce' /\ DialerGot' /\ Closes'
    BY <1>d
       DEF Flags, Places, Dial!Values, SentOnce, DialerGot, Closes, Dial!ReadData, Dial!Frame, Dial!channels
  <2> QED
    BY <2>1, <2>2
<1>p. ASSUME stage = "dial", stage' = "dial", Dial!PipeClosed PROVE DialInv'
  <2>1. Flags'
    BY <1>p, Zenon DEF Flags, Dial!PipeClosed, Dial!channels
  <2>2. Places' /\ SentOnce' /\ DialerGot' /\ Closes'
    BY <1>p
       DEF Flags, Places, Dial!Values, SentOnce, DialerGot, Closes, Dial!PipeClosed, Dial!channels
  <2> QED
    BY <2>1, <2>2
<1>20. CASE Use
  <2>1. Flags'
    BY <1>20, Zenon DEF Use, Flags
  <2>2. Places' /\ SentOnce' /\ DialerGot' /\ Closes'
    BY <1>20 DEF Use, Places, Dial!Values, SentOnce, DialerGot, Closes
  <2> QED
    BY <2>1, <2>2
<1>21. CASE UNCHANGED <<stage, dialVars>>
  <2>1. Flags'
    BY <1>21, Zenon DEF dialVars, Flags
  <2>2. Places' /\ SentOnce' /\ DialerGot' /\ Closes'
    BY <1>21, ZenonT(40) DEF dialVars, Places, SentOnce, DialerGot, Closes
  <2> QED
    BY <2>1, <2>2
<1>22. CASE DialStep
  <2>1. stage = "dial" /\ stage' = "dial" /\ Dial!Next
    BY <1>22 DEF DialStep
  <2>2. CASE Dial!Finished
    <3>1. UNCHANGED <<stage, dialVars>>
      BY <2>1, <2>2 DEF Dial!Finished, Dial!vars, Dial!channels, dialVars
    <3> QED
      BY <1>21, <3>1
  <2> QED
    BY <2>1, <2>2, <1>2, <1>3, <1>4, <1>5, <1>6, <1>7, <1>8, <1>9, <1>10, <1>11, <1>12, <1>13, <1>14,
       <1>15, <1>16, <1>17, <1>18, <1>19, <1>d, <1>p, Zenon
       DEF Dial!Next, Dial!Dialer, Dial!ReadLoop
<1> QED
  <2>1. DialStep \/ Use \/ UNCHANGED <<stage, dialVars>>
    BY DEF ClientNext, StreamStep, InStream, allVars
  <2> QED
    BY <2>1, <1>20, <1>21, <1>22

-----------------------------------------------------------------------------
(* The types of the stream.                                                *)
-----------------------------------------------------------------------------
\* A datagram has as many units as its size says.
LEMMA UnitsOf == \A d \in Datagrams : \A i \in 0..Sizes[d] : <<d, i>> \in Units
<1> DEFINE N == Len(Sizes)
           M(k) == {0} \cup {Sizes[i] : i \in 1..k}
           S == {k \in 0..N : \E m \in M(k) : \A x \in M(k) : m >= x}
<1>0. N \in Nat /\ DOMAIN Sizes = 1..N /\ \A i \in 1..N : Sizes[i] \in Nat
  BY StreamAssumption
<1> HIDE DEF N
<1>1. 0 \in S
  <2>1. M(0) = {0}
    OBVIOUS
  <2> QED
    BY <1>0, <2>1
<1>2. ASSUME NEW k \in 1..N, k - 1 \in S PROVE k \in S
  <2>1. PICK m \in M(k - 1) : \A x \in M(k - 1) : m >= x
    BY <1>2
  <2>2. M(k) = M(k - 1) \cup {Sizes[k]}
    BY <1>0
  <2>3. m \in Nat /\ Sizes[k] \in Nat /\ \A x \in M(k - 1) : x \in Nat
    BY <1>0
  <2> HIDE DEF M
  <2>4. CASE m >= Sizes[k]
    BY <1>0, <2>1, <2>2, <2>3, <2>4
  <2>5. CASE ~(m >= Sizes[k])
    <3>1. Sizes[k] \in M(k) /\ \A x \in M(k) : Sizes[k] >= x
      BY <2>1, <2>2, <2>3, <2>5
    <3> QED
      BY <1>0, <3>1
  <2> QED
    BY <2>4, <2>5
<1>3. N \in S
  <2> HIDE DEF S
  <2> QED
    BY <1>0, <1>1, <1>2, Upto, N \in 0..N
<1> DEFINE R == {0} \cup Range(Sizes)
<1>4. R = M(N)
  BY <1>0 DEF Range
<1>5. \E m \in R : \A x \in R : m >= x
  BY <1>3, <1>4
<1>6. Max(R) \in R /\ \A x \in R : Max(R) >= x
  BY <1>5, Zenon DEF Max
<1>7. Max(R) \in Nat
  BY <1>0, <1>4, <1>6
<1>8. ASSUME NEW d \in Datagrams, NEW i \in 0..Sizes[d] PROVE <<d, i>> \in Units
  <2>1. Sizes[d] \in R /\ Sizes[d] \in Nat
    BY <1>0 DEF Datagrams, Range
  <2>2. Max(R) >= Sizes[d]
    BY <1>6, <2>1
  <2>3. i \in 0..Max(R)
    BY <1>7, <2>1, <2>2
  <2> QED
    BY <2>3 DEF Units
<1> QED
  BY <1>8, Zenon

\* The smallest of the four numbers that limit a frame.
LEMMA AvailableIs ==
  ASSUME NEW c \in Nat, NEW s \in Int, NEW m \in Nat, NEW l \in Nat
  PROVE  LET a == Min({c, s, m, l})
         IN  a \in Int /\ a <= c /\ a <= s /\ a <= m /\ a <= l
<1> DEFINE T == {c, s, m, l}
<1>1. \E x \in T : \A y \in T : x =< y
  <2>1. \E x \in {c, s} : x =< c /\ x =< s
    OBVIOUS
  <2>2. \E x \in {m, l} : x =< m /\ x =< l
    OBVIOUS
  <2> QED
    BY <2>1, <2>2
<1>2. Min(T) \in T /\ \A y \in T : Min(T) =< y
  BY <1>1 DEF Min
<1> QED
  BY <1>2

\* The units that a capsule really has: Units bounds their number only by that of
\* the largest datagram.
Real == {u \in Units : u[2] <= Sizes[u[1]]}

\* TypeOK, and a little more, in parts that each action changes or keeps as a whole.
StreamFlags == token \in BOOLEAN /\ sread \in {"read", "signal", "pipe"} /\ closed \in BOOLEAN
SenderTypes ==
  /\ next \in 1..Len(Sizes) + 1 /\ rest \in Seq(Real)
  /\ phase \in {"idle", "reserve", "wait", "write", "dead"} /\ res \in 0..Len(rest)
  /\ (phase = "idle" <=> rest = <<>>) /\ (phase \in {"write", "dead"} <=> res > 0)
  /\ connWin \in Nat /\ streamWin \in Int /\ initWin \in Nat /\ maxFrame \in Nat
  /\ fired \in {"no", "clean", "cut"}
WireTypes ==
  /\ data \in Seq(Seq(Real)) /\ ctrl \in Seq(Frames)
  /\ unsent \in SUBSET Other
ReceiverTypes ==
  /\ pipe \in Seq(Real) /\ due \in [conn : Nat, stream : Nat]
  /\ got \in Seq(Real) /\ delivered \in Seq(Seq(Real))
StreamTypes == StreamFlags /\ SenderTypes /\ WireTypes /\ ReceiverTypes

\* A capsule consists of real units.
LEMMA CapsuleUnits ==
  ASSUME NEW d \in Datagrams PROVE Capsule(d) \in Seq(Real) /\ Len(Capsule(d)) = Sizes[d] + 1
<1>1. Sizes[d] \in Nat
  BY StreamAssumption DEF Datagrams
<1>2. \A i \in 1..Sizes[d] + 1 : <<d, i - 1>> \in Real
  BY <1>1, UnitsOf DEF Real
<1> QED
  BY <1>1, <1>2 DEF Capsule

\* A new stream has the right types.
LEMMA InitTypes == Init => StreamTypes
<1> SUFFICES ASSUME Init PROVE StreamTypes
  OBVIOUS
<1>1. StreamFlags
  BY Zenon DEF Init, StreamFlags
<1>2. SenderTypes
  BY StreamAssumption DEF Init, SenderTypes
<1>3. WireTypes /\ ReceiverTypes
  BY DEF Init, WireTypes, ReceiverTypes
<1> QED
  BY <1>1, <1>2, <1>3 DEF StreamTypes

\* Every step keeps them.
LEMMA NextTypes == StreamTypes /\ [Next]_vars => StreamTypes'
<1> SUFFICES ASSUME StreamTypes, [Next]_vars PROVE StreamTypes'
  OBVIOUS
<1> USE StreamAssumption DEF StreamTypes, sender, windows, receiver
<1>1. ASSUME SendDatagram PROVE StreamTypes'
  <2>1. StreamFlags'
    BY <1>1, Zenon DEF StreamFlags, SendDatagram
  <2>2. SenderTypes'
    <3>1. next \in Datagrams /\ next' \in 1..Len(Sizes) + 1 /\ rest' = Capsule(next)
      BY <1>1 DEF SenderTypes, SendDatagram, Datagrams
    <3>2. rest' \in Seq(Real) /\ Len(rest') \in Nat \ {0} /\ rest' # <<>>
      <4>1. Sizes[next] \in Nat
        BY <3>1 DEF Datagrams
      <4> QED
        BY <3>1, <4>1, CapsuleUnits
    <3> QED
      BY <1>1, <3>1, <3>2 DEF SenderTypes, SendDatagram
  <2>3. WireTypes'
    BY <1>1 DEF WireTypes, SendDatagram
  <2>4. ReceiverTypes'
    BY <1>1 DEF ReceiverTypes, SendDatagram
  <2> QED
    BY <2>1, <2>2, <2>3, <2>4
<1>2. ASSUME Reserve PROVE StreamTypes'
  <2>1. StreamFlags'
    BY <1>2, Zenon DEF StreamFlags, Reserve, Available
  <2>2. SenderTypes'
    <3>1. Available \in Int /\ Available <= connWin /\ Available <= Len(rest)
      <4>1. connWin \in Nat /\ streamWin \in Int /\ maxFrame \in Nat /\ Len(rest) \in Nat
        BY DEF SenderTypes
      <4> QED
        BY <4>1, AvailableIs, Zenon DEF Available
    <3> HIDE DEF Available
    <3> QED
      BY <1>2, <3>1 DEF SenderTypes, Reserve
  <2>3. WireTypes'
    BY <1>2 DEF WireTypes, Reserve, Available
  <2>4. ReceiverTypes'
    BY <1>2 DEF ReceiverTypes, Reserve, Available
  <2> QED
    BY <2>1, <2>2, <2>3, <2>4
<1>3. ASSUME Block PROVE StreamTypes'
  <2>1. StreamFlags'
    BY <1>3, Zenon DEF StreamFlags, Block
  <2>2. SenderTypes'
    BY <1>3 DEF SenderTypes, Block
  <2>3. WireTypes'
    BY <1>3 DEF WireTypes, Block
  <2>4. ReceiverTypes'
    BY <1>3 DEF ReceiverTypes, Block
  <2> QED
    BY <2>1, <2>2, <2>3, <2>4
<1>4. ASSUME Wake PROVE StreamTypes'
  <2>1. StreamFlags'
    BY <1>4, Zenon DEF StreamFlags, Wake
  <2>2. SenderTypes'
    BY <1>4 DEF SenderTypes, Wake
  <2>3. WireTypes'
    BY <1>4 DEF WireTypes, Wake
  <2>4. ReceiverTypes'
    BY <1>4 DEF ReceiverTypes, Wake
  <2> QED
    BY <2>1, <2>2, <2>3, <2>4
<1>5. ASSUME WriteFrame PROVE StreamTypes'
  <2>1. StreamFlags'
    BY <1>5, Zenon DEF StreamFlags, WriteFrame
  <2>2. SenderTypes'
    <3>1. rest' \in Seq(Real) /\ Len(rest') = Len(rest) - res /\ res' = 0 /\ res \in 0..Len(rest)
      BY <1>5, CutInTwo DEF SenderTypes, WriteFrame
    <3>2. rest' = <<>> <=> res = Len(rest)
      BY <3>1 DEF SenderTypes
    <3>3. phase' = (IF res = Len(rest) THEN "idle" ELSE "reserve")
          /\ UNCHANGED <<next, connWin, streamWin, initWin, maxFrame, fired>>
      BY <1>5 DEF WriteFrame
    <3> QED
      BY <3>1, <3>2, <3>3 DEF SenderTypes
  <2>3. WireTypes'
    <3>1. SubSeq(rest, 1, res) \in Seq(Real)
      BY CutInTwo DEF SenderTypes
    <3>2. data' \in Seq(Seq(Real))
      BY <1>5, <3>1, Appended DEF WireTypes, WriteFrame
    <3> QED
      BY <1>5, <3>2 DEF WireTypes, WriteFrame
  <2>4. ReceiverTypes'
    BY <1>5 DEF ReceiverTypes, WriteFrame
  <2> QED
    BY <2>1, <2>2, <2>3, <2>4
<1>6. ASSUME WriteClosed PROVE StreamTypes'
  <2>1. StreamFlags'
    BY <1>6, Zenon DEF StreamFlags, WriteClosed, Fail
  <2>2. SenderTypes'
    BY <1>6 DEF SenderTypes, WriteClosed, Fail
  <2>3. WireTypes'
    BY <1>6 DEF WireTypes, WriteClosed, Fail
  <2>4. ReceiverTypes'
    BY <1>6 DEF ReceiverTypes, WriteClosed, Fail
  <2> QED
    BY <2>1, <2>2, <2>3, <2>4
<1>7. ASSUME Timeout PROVE StreamTypes'
  <2>1. StreamFlags'
    BY <1>7, Zenon DEF StreamFlags, Timeout, Fail
  <2>2. SenderTypes'
    BY <1>7 DEF SenderTypes, Timeout, Fail
  <2>3. WireTypes'
    BY <1>7 DEF WireTypes, Timeout, Fail
  <2>4. ReceiverTypes'
    BY <1>7 DEF ReceiverTypes, Timeout, Fail
  <2> QED
    BY <2>1, <2>2, <2>3, <2>4
<1>8. ASSUME HandleWindowUpdate PROVE StreamTypes'
  <2>1. StreamFlags'
    BY <1>8, Zenon DEF StreamFlags, HandleWindowUpdate
  <2>2. SenderTypes'
    <3>1. Head(ctrl) \in Frames
      BY <1>8, HeadTail DEF WireTypes, HandleWindowUpdate
    <3>2. Head(ctrl).n \in Nat
      BY <3>1 DEF Frames
    <3>3. /\ connWin' \in {connWin, connWin + Head(ctrl).n}
          /\ streamWin' \in {streamWin, streamWin + Head(ctrl).n}
          /\ UNCHANGED <<sender, initWin, maxFrame, fired>>
      BY <1>8 DEF HandleWindowUpdate
    <3> QED
      BY <3>2, <3>3 DEF SenderTypes
  <2>3. WireTypes'
    <3>1. ctrl \in Seq(Frames) /\ ctrl # <<>> /\ ctrl' = Tail(ctrl) /\ UNCHANGED <<data, unsent>>
      BY <1>8 DEF WireTypes, HandleWindowUpdate
    <3>2. /\ ctrl' \in Seq(Frames)
          /\ \A i \in DOMAIN ctrl' : i + 1 \in DOMAIN ctrl /\ ctrl'[i] = ctrl[i + 1]
      BY <3>1, HeadTail
    <3> QED
      BY <3>1, <3>2 DEF WireTypes
  <2>4. ReceiverTypes'
    BY <1>8 DEF ReceiverTypes, HandleWindowUpdate
  <2> QED
    BY <2>1, <2>2, <2>3, <2>4
<1>9. ASSUME HandleSettings PROVE StreamTypes'
  <2>1. StreamFlags'
    BY <1>9, Zenon DEF StreamFlags, HandleSettings
  <2>2. SenderTypes'
    <3>1. Head(ctrl) \in Frames
      BY <1>9, HeadTail DEF WireTypes, HandleSettings
    <3>2. Head(ctrl).n \in Nat
      BY <3>1 DEF Frames
    <3>3. /\ initWin' \in {initWin, Head(ctrl).n}
          /\ streamWin' \in {streamWin, streamWin + Head(ctrl).n - initWin}
          /\ maxFrame' \in {maxFrame, Head(ctrl).n}
          /\ UNCHANGED <<sender, connWin, fired>>
      BY <1>9 DEF HandleSettings
    <3> QED
      BY <3>1, <3>2, <3>3 DEF SenderTypes
  <2>3. WireTypes'
    <3>1. ctrl \in Seq(Frames) /\ ctrl # <<>> /\ ctrl' = Tail(ctrl) /\ UNCHANGED <<data, unsent>>
      BY <1>9 DEF WireTypes, HandleSettings
    <3>2. /\ ctrl' \in Seq(Frames)
          /\ \A i \in DOMAIN ctrl' : i + 1 \in DOMAIN ctrl /\ ctrl'[i] = ctrl[i + 1]
      BY <3>1, HeadTail
    <3> QED
      BY <3>1, <3>2 DEF WireTypes
  <2>4. ReceiverTypes'
    BY <1>9 DEF ReceiverTypes, HandleSettings
  <2> QED
    BY <2>1, <2>2, <2>3, <2>4
<1>10. ASSUME SignalSettings PROVE StreamTypes'
  <2>1. StreamFlags'
    BY <1>10, Zenon DEF StreamFlags, SignalSettings
  <2>2. SenderTypes'
    BY <1>10 DEF SenderTypes, SignalSettings
  <2>3. WireTypes'
    BY <1>10 DEF WireTypes, SignalSettings
  <2>4. ReceiverTypes'
    BY <1>10 DEF ReceiverTypes, SignalSettings
  <2> QED
    BY <2>1, <2>2, <2>3, <2>4
<1>11. ASSUME ReadData PROVE StreamTypes'
  <2>1. StreamFlags'
    BY <1>11, Zenon DEF StreamFlags, ReadData
  <2>2. SenderTypes'
    BY <1>11 DEF SenderTypes, ReadData
  <2>3. WireTypes'
    <3>1. Tail(data) \in Seq(Seq(Real))
      BY <1>11, HeadTail DEF WireTypes, ReadData
    <3> QED
      BY <1>11, <3>1 DEF WireTypes, ReadData
  <2>4. ReceiverTypes'
    <3>1. Head(data) \in Seq(Real)
      BY <1>11, HeadTail DEF WireTypes, ReadData
    <3>2. Len(Head(data)) \in Nat
      BY <3>1
    <3> QED
      BY <1>11, <3>1, <3>2 DEF ReceiverTypes, ReadData
  <2> QED
    BY <2>1, <2>2, <2>3, <2>4
<1>12. ASSUME CreditConn PROVE StreamTypes'
  <2>1. StreamFlags'
    BY <1>12, Zenon DEF StreamFlags, CreditConn
  <2>2. SenderTypes'
    BY <1>12 DEF SenderTypes, CreditConn
  <2>3. WireTypes'
    <3> DEFINE f == [kind |-> "conn", n |-> due.conn]
    <3>1. f \in Frames
      BY DEF ReceiverTypes, Frames
    <3>2. ctrl' = Append(ctrl, f) /\ UNCHANGED <<data, unsent>>
      BY <1>12 DEF CreditConn
    <3> HIDE DEF f
    <3> QED
      BY <3>1, <3>2, Appended DEF WireTypes
  <2>4. ReceiverTypes'
    BY <1>12, Zenon DEF ReceiverTypes, CreditConn
  <2> QED
    BY <2>1, <2>2, <2>3, <2>4
<1>13. ASSUME CreditStream PROVE StreamTypes'
  <2>1. StreamFlags'
    BY <1>13, Zenon DEF StreamFlags, CreditStream
  <2>2. SenderTypes'
    BY <1>13 DEF SenderTypes, CreditStream
  <2>3. WireTypes'
    <3> DEFINE f == [kind |-> "stream", n |-> due.stream]
    <3>1. f \in Frames
      BY DEF ReceiverTypes, Frames
    <3>2. ctrl' = Append(ctrl, f) /\ UNCHANGED <<data, unsent>>
      BY <1>13 DEF CreditStream
    <3> HIDE DEF f
    <3> QED
      BY <3>1, <3>2, Appended DEF WireTypes
  <2>4. ReceiverTypes'
    BY <1>13 DEF ReceiverTypes, CreditStream
  <2> QED
    BY <2>1, <2>2, <2>3, <2>4
<1>14. ASSUME Receive PROVE StreamTypes'
  <2>1. StreamFlags'
    BY <1>14, Zenon DEF StreamFlags, Receive
  <2>2. SenderTypes'
    BY <1>14 DEF SenderTypes, Receive
  <2>3. WireTypes'
    BY <1>14 DEF WireTypes, Receive
  <2>4. ReceiverTypes'
    <3> DEFINE s == Append(got, Head(pipe))
    <3>1. Head(pipe) \in Real /\ Tail(pipe) \in Seq(Real)
      BY <1>14, HeadTail, Zenon DEF ReceiverTypes, Receive
    <3>2. s \in Seq(Real)
      BY <3>1, Appended DEF ReceiverTypes
    <3>3. Append(delivered, s) \in Seq(Seq(Real))
      BY <3>2, Appended DEF ReceiverTypes
    <3>4. /\ pipe' = Tail(pipe) /\ UNCHANGED due
          /\ got' \in {<<>>, s} /\ delivered' \in {delivered, Append(delivered, s)}
      BY <1>14 DEF Receive
    <3>5. <<>> \in Seq(Real)
      OBVIOUS
    <3> HIDE DEF s
    <3> QED
      BY <3>1, <3>2, <3>3, <3>4, <3>5, Zenon DEF ReceiverTypes
  <2> QED
    BY <2>1, <2>2, <2>3, <2>4
<1>15. ASSUME SendOther PROVE StreamTypes'
  <2>1. StreamFlags'
    BY <1>15, Zenon DEF StreamFlags, SendOther
  <2>2. SenderTypes'
    BY <1>15 DEF SenderTypes, SendOther
  <2>3. WireTypes'
    <3>1. PICK s \in unsent : unsent' = unsent \ {s} /\ ctrl' = Append(ctrl, s)
      BY <1>15 DEF SendOther
    <3>2. s \in Frames
      BY <3>1 DEF WireTypes, Frames
    <3>3. UNCHANGED data
      BY <1>15 DEF SendOther
    <3> QED
      BY <3>1, <3>2, <3>3, Appended DEF WireTypes
  <2>4. ReceiverTypes'
    BY <1>15 DEF ReceiverTypes, SendOther
  <2> QED
    BY <2>1, <2>2, <2>3, <2>4
<1>16. ASSUME Close PROVE StreamTypes'
  <2>1. StreamFlags'
    BY <1>16, Zenon DEF StreamFlags, Close
  <2>2. SenderTypes'
    BY <1>16 DEF SenderTypes, Close
  <2>3. WireTypes'
    BY <1>16 DEF WireTypes, Close
  <2>4. ReceiverTypes'
    BY <1>16 DEF ReceiverTypes, Close
  <2> QED
    BY <2>1, <2>2, <2>3, <2>4
<1>18. ASSUME WriteDeadline PROVE StreamTypes'
  <2>1. StreamFlags'
    BY <1>18, Zenon DEF StreamFlags, WriteDeadline
  <2>2. SenderTypes'
    BY <1>18 DEF SenderTypes, WriteDeadline
  <2>3. WireTypes'
    BY <1>18 DEF WireTypes, WriteDeadline
  <2>4. ReceiverTypes'
    BY <1>18 DEF ReceiverTypes, WriteDeadline
  <2> QED
    BY <2>1, <2>2, <2>3, <2>4
<1>19. ASSUME HandleBody PROVE StreamTypes'
  <2>1. StreamFlags'
    BY <1>19, Zenon DEF StreamFlags, HandleBody
  <2>2. SenderTypes'
    BY <1>19 DEF SenderTypes, HandleBody
  <2>3. WireTypes'
    <3>1. ctrl \in Seq(Frames) /\ ctrl # <<>> /\ ctrl' = Tail(ctrl) /\ UNCHANGED <<data, unsent>>
      BY <1>19 DEF WireTypes, HandleBody
    <3>2. /\ ctrl' \in Seq(Frames)
          /\ \A i \in DOMAIN ctrl' : i + 1 \in DOMAIN ctrl /\ ctrl'[i] = ctrl[i + 1]
      BY <3>1, HeadTail
    <3> QED
      BY <3>1, <3>2 DEF WireTypes
  <2>4. ReceiverTypes'
    BY <1>19 DEF ReceiverTypes, HandleBody
  <2> QED
    BY <2>1, <2>2, <2>3, <2>4
<1>20. ASSUME BodyRead PROVE StreamTypes'
  <2>1. StreamFlags'
    BY <1>20, Zenon DEF StreamFlags, BodyRead
  <2>2. SenderTypes'
    BY <1>20 DEF SenderTypes, BodyRead
  <2>3. WireTypes'
    BY <1>20 DEF WireTypes, BodyRead
  <2>4. ReceiverTypes'
    BY <1>20 DEF ReceiverTypes, BodyRead
  <2> QED
    BY <2>1, <2>2, <2>3, <2>4
<1>17. CASE UNCHANGED vars
  <2>1. StreamFlags'
    BY <1>17, Zenon DEF StreamFlags, vars
  <2>2. SenderTypes' /\ WireTypes' /\ ReceiverTypes'
    BY <1>17 DEF SenderTypes, WireTypes, ReceiverTypes, vars
  <2> QED
    BY <2>1, <2>2
<1> QED
  BY <1>1, <1>2, <1>3, <1>4, <1>5, <1>6, <1>7, <1>8, <1>9, <1>10, <1>11, <1>12, <1>13, <1>14, <1>15, <1>16,
     <1>17, <1>18, <1>19, <1>20, ZenonT(40)
     DEF Next, Writer, SenderReadLoop, ReceiverReadLoop, Finished

-----------------------------------------------------------------------------
(* Flow control.                                                           *)
-----------------------------------------------------------------------------
\* The credit of kind k that each control frame returns; the lengths of DATA frames.
Weights(c, k) == [i \in DOMAIN c |-> IF c[i].kind = k THEN c[i].n ELSE 0]
Lens(d) == [i \in DOMAIN d |-> Len(d[i])]

\* Total is the sum of SequenceLemmas.
LEMMA TotalIsSum == \A w : Total(w) = SumOf(w)
  BY DEF Total, SumOf

\* A control frame sent adds its credit.
LEMMA CreditAppend ==
  ASSUME NEW c \in Seq(Frames), NEW f \in Frames, NEW k
  PROVE  /\ Total(Weights(c, k)) \in Int
         /\ Total(Weights(Append(c, f), k)) = Total(Weights(c, k)) + IF f.kind = k THEN f.n ELSE 0
<1> DEFINE v == Weights(c, k)
           w == Weights(Append(c, f), k)
           n == Len(c)
<1>0. n \in Nat /\ DOMAIN c = 1..n /\ f.n \in Int /\ \A i \in 1..n : c[i].n \in Int
  <2>1. n \in Nat /\ DOMAIN c = 1..n /\ \A i \in 1..n : c[i] \in Frames
    OBVIOUS
  <2>2. \A g \in Frames : g.n \in Int
    BY DEF Frames
  <2> QED
    BY <2>1, <2>2
<1>1. DOMAIN Append(c, f) = 1..n + 1 /\ Append(c, f)[n + 1] = f /\ \A i \in 1..n : Append(c, f)[i] = c[i]
  OBVIOUS
<1> HIDE DEF n
<1>2. v \in [1..n -> Int]
  BY <1>0 DEF Weights
<1>3. w \in [1..n + 1 -> Int] /\ w[n + 1] = (IF f.kind = k THEN f.n ELSE 0) /\ \A i \in 1..n : w[i] = v[i]
  BY <1>0, <1>1 DEF Weights
<1> HIDE DEF v, w, n
<1>4. SumOf(v) \in Int /\ SumOf(w) = SumOf(v) + w[n + 1]
  BY <1>0, <1>2, <1>3, SumAppend, Zenon
<1> QED
  BY <1>3, <1>4, TotalIsSum DEF v, w

\* A control frame read takes its credit along.
LEMMA CreditTail ==
  ASSUME NEW c \in Seq(Frames), c # <<>>, NEW k
  PROVE  /\ Total(Weights(Tail(c), k)) \in Int
         /\ Total(Weights(c, k)) = (IF Head(c).kind = k THEN Head(c).n ELSE 0) + Total(Weights(Tail(c), k))
<1> DEFINE v == Weights(Tail(c), k)
           w == Weights(c, k)
           n == Len(Tail(c))
<1>0. /\ n \in Nat /\ DOMAIN Tail(c) = 1..n /\ \A i \in 1..n : Tail(c)[i] = c[i + 1]
      /\ DOMAIN c = 1..n + 1 /\ Head(c) = c[1]
  OBVIOUS
<1>1. \A i \in 1..n + 1 : c[i].n \in Int
  <2>1. \A i \in 1..n + 1 : c[i] \in Frames
    BY <1>0
  <2>2. \A g \in Frames : g.n \in Int
    BY DEF Frames
  <2> QED
    BY <2>1, <2>2
<1> HIDE DEF n
<1>2. v \in [1..n -> Int]
  BY <1>0, <1>1 DEF Weights
<1>3. w \in [1..n + 1 -> Int] /\ w[1] = (IF Head(c).kind = k THEN Head(c).n ELSE 0) /\ \A i \in 1..n : v[i] = w[i + 1]
  BY <1>0, <1>1 DEF Weights
<1> HIDE DEF v, w
<1>4. SumOf(v) \in Int /\ SumOf(w) = w[1] + SumOf(v)
  BY <1>0, <1>2, <1>3, SumTail, Zenon
<1> QED
  BY <1>3, <1>4, TotalIsSum DEF v, w

\* A DATA frame sent adds its length.
LEMMA WireAppend ==
  ASSUME NEW S, NEW d \in Seq(Seq(S)), NEW f \in Seq(S)
  PROVE  Total(Lens(d)) \in Int /\ Total(Lens(Append(d, f))) = Total(Lens(d)) + Len(f)
<1> DEFINE v == Lens(d)
           w == Lens(Append(d, f))
           n == Len(d)
<1>0. n \in Nat /\ DOMAIN d = 1..n /\ \A i \in 1..n : d[i] \in Seq(S) /\ Len(d[i]) \in Int
  OBVIOUS
<1>1. n \in Nat /\ v \in [1..n -> Int]
  BY <1>0 DEF Lens
<1>2. w \in [1..n + 1 -> Int] /\ w[n + 1] = Len(f) /\ \A i \in 1..n : w[i] = v[i]
  <2>1. DOMAIN Append(d, f) = 1..n + 1 /\ Append(d, f)[n + 1] = f /\ \A i \in 1..n : Append(d, f)[i] = d[i]
    OBVIOUS
  <2>2. Len(f) \in Int
    OBVIOUS
  <2> HIDE DEF n
  <2> QED
    BY <1>0, <2>1, <2>2 DEF Lens
<1> HIDE DEF v, w, n
<1>3. SumOf(v) \in Int /\ SumOf(w) = SumOf(v) + w[n + 1]
  BY <1>1, <1>2, SumAppend, Zenon
<1> QED
  BY <1>2, <1>3, TotalIsSum DEF v, w

\* A DATA frame read takes its length along.
LEMMA WireTail ==
  ASSUME NEW S, NEW d \in Seq(Seq(S)), d # <<>>
  PROVE  Total(Lens(Tail(d))) \in Int /\ Total(Lens(d)) = Len(Head(d)) + Total(Lens(Tail(d)))
<1> DEFINE v == Lens(Tail(d))
           w == Lens(d)
           n == Len(Tail(d))
<1>0. /\ n \in Nat /\ DOMAIN Tail(d) = 1..n /\ \A i \in 1..n : Tail(d)[i] = d[i + 1]
      /\ DOMAIN d = 1..n + 1 /\ Head(d) = d[1]
  OBVIOUS
<1>1. \A i \in 1..n + 1 : d[i] \in Seq(S) /\ Len(d[i]) \in Int
  BY <1>0
<1>2. n \in Nat /\ v \in [1..n -> Int]
  <2> HIDE DEF n
  <2> QED
    BY <1>0, <1>1 DEF Lens
<1>3. w \in [1..n + 1 -> Int] /\ w[1] = Len(Head(d)) /\ \A i \in 1..n : v[i] = w[i + 1]
  <2> HIDE DEF n
  <2> QED
    BY <1>0, <1>1 DEF Lens
<1> HIDE DEF v, w, n
<1>4. SumOf(v) \in Int /\ SumOf(w) = w[1] + SumOf(v)
  BY <1>2, <1>3, SumTail, Zenon
<1> QED
  BY <1>3, <1>4, TotalIsSum DEF v, w

\* The invariant is CreditConserved without the types.  It is inductive: every step
\* moves credit from one place to another.
CreditInv ==
  ~closed =>
     /\ connWin + res + OnWire + due.conn + Credit("conn") = Window
     /\ streamWin - initWin + res + OnWire + due.stream + Credit("stream") = 0

\* The sums are numbers.
LEMMA SumTypes == StreamTypes => OnWire \in Int /\ Credit("conn") \in Int /\ Credit("stream") \in Int
<1> SUFFICES ASSUME StreamTypes PROVE OnWire \in Int /\ Credit("conn") \in Int /\ Credit("stream") \in Int
  OBVIOUS
<1>1. <<>> \in Seq(Real) /\ data \in Seq(Seq(Real)) /\ ctrl \in Seq(Frames)
  BY DEF StreamTypes, WireTypes
<1>2. Total(Lens(data)) \in Int
  BY <1>1, WireAppend
<1>3. [kind |-> "conn", n |-> 0] \in Frames
  BY DEF Frames
<1>4. Total(Weights(ctrl, "conn")) \in Int /\ Total(Weights(ctrl, "stream")) \in Int
  BY <1>1, <1>3, CreditAppend
<1> QED
  BY <1>2, <1>4 DEF OnWire, Credit, Lens, Weights

\* A new stream has all its credit in the windows.
LEMMA InitCredit == Init => CreditInv
<1> SUFFICES ASSUME Init PROVE CreditInv
  OBVIOUS
<1>1. Lens(<<>>) = <<>> /\ Weights(<<>>, "conn") = <<>> /\ Weights(<<>>, "stream") = <<>>
  BY DEF Lens, Weights
<1>2. OnWire = Total(Lens(<<>>)) /\ Credit("conn") = Total(Weights(<<>>, "conn"))
      /\ Credit("stream") = Total(Weights(<<>>, "stream"))
  BY DEF Init, OnWire, Credit, Lens, Weights
<1>3. OnWire = 0 /\ Credit("conn") = 0 /\ Credit("stream") = 0
  BY <1>1, <1>2, SumEmpty, TotalIsSum
<1> QED
  BY <1>3, StreamAssumption DEF Init, CreditInv

\* Every step keeps the credit: reserveWriteWindow, the frames of both directions,
\* and SETTINGS that move the window in mid-stream.
LEMMA NextCredit == StreamTypes /\ StreamTypes' /\ CreditInv /\ [Next]_vars => CreditInv'
<1> SUFFICES ASSUME StreamTypes, StreamTypes', CreditInv, [Next]_vars, ~closed' PROVE CreditInv'
  BY DEF CreditInv
<1> USE DEF sender, windows, receiver
<1>t. /\ connWin \in Int /\ streamWin \in Int /\ initWin \in Int /\ res \in Int
      /\ due.conn \in Int /\ due.stream \in Int /\ due'.conn \in Int /\ due'.stream \in Int
      /\ due \in [conn : Nat, stream : Nat]
      /\ data \in Seq(Seq(Real)) /\ ctrl \in Seq(Frames)
  BY DEF StreamTypes, SenderTypes, WireTypes, ReceiverTypes
<1>i. /\ connWin \in Int /\ streamWin \in Int /\ initWin \in Int /\ res \in Int
      /\ due.conn \in Int /\ due.stream \in Int
  BY <1>t
<1>s. OnWire \in Int /\ Credit("conn") \in Int /\ Credit("stream") \in Int
  BY SumTypes
<1>w. ASSUME data' = data PROVE OnWire' = OnWire
  BY <1>w DEF OnWire
<1>c. ASSUME ctrl' = ctrl PROVE Credit("conn")' = Credit("conn") /\ Credit("stream")' = Credit("stream")
  BY <1>c DEF Credit
<1>o. OnWire = Total(Lens(data)) /\ OnWire' = Total(Lens(data'))
  BY DEF OnWire, Lens
<1>k. /\ Credit("conn") = Total(Weights(ctrl, "conn")) /\ Credit("conn")' = Total(Weights(ctrl', "conn"))
      /\ Credit("stream") = Total(Weights(ctrl, "stream")) /\ Credit("stream")' = Total(Weights(ctrl', "stream"))
  BY DEF Credit, Weights
<1>1. ASSUME SendDatagram PROVE CreditInv'
  <2>1. UNCHANGED <<res, connWin, streamWin, initWin, closed, data, ctrl, due>>
    BY <1>1 DEF SendDatagram
  <2> QED
    BY <1>w, <1>c, <2>1 DEF CreditInv
<1>2. ASSUME Reserve PROVE CreditInv'
  <2>1. Available \in Int
    <3>1. connWin \in Nat /\ streamWin \in Int /\ maxFrame \in Nat /\ Len(rest) \in Nat
      BY DEF StreamTypes, SenderTypes
    <3> QED
      BY <3>1, AvailableIs, Zenon DEF Available
  <2>2. res = 0
    BY <1>2 DEF Reserve, StreamTypes, SenderTypes
  <2> HIDE DEF Available
  <2>3. /\ res' = Available /\ connWin' = connWin - Available /\ streamWin' = streamWin - Available
        /\ UNCHANGED <<initWin, closed, data, ctrl, due>>
    BY <1>2 DEF Reserve
  <2> QED
    BY <1>t, <1>s, <1>w, <1>c, <2>1, <2>2, <2>3 DEF CreditInv
<1>3. ASSUME Block PROVE CreditInv'
  <2>1. UNCHANGED <<res, connWin, streamWin, initWin, closed, data, ctrl, due>>
    BY <1>3 DEF Block
  <2> QED
    BY <1>w, <1>c, <2>1 DEF CreditInv
<1>4. ASSUME Wake PROVE CreditInv'
  <2>1. UNCHANGED <<res, connWin, streamWin, initWin, closed, data, ctrl, due>>
    BY <1>4 DEF Wake
  <2> QED
    BY <1>w, <1>c, <2>1 DEF CreditInv
<1>5. ASSUME WriteFrame PROVE CreditInv'
  <2>1. SubSeq(rest, 1, res) \in Seq(Real) /\ Len(SubSeq(rest, 1, res)) = res
    BY CutInTwo, ZenonT(40) DEF StreamTypes, SenderTypes
  <2>2. OnWire' = OnWire + res
    BY <1>5, <1>t, <1>o, <2>1, WireAppend, Zenon DEF WriteFrame
  <2>3. ~closed /\ res' = 0 /\ UNCHANGED <<connWin, streamWin, initWin, due, ctrl>>
    BY <1>5 DEF WriteFrame
  <2> QED
    BY <1>t, <1>s, <1>c, <2>2, <2>3 DEF CreditInv
<1>6. ASSUME WriteClosed PROVE CreditInv'
  BY <1>6 DEF WriteClosed, Fail
<1>7. ASSUME Timeout PROVE CreditInv'
  <2>1. res = 0 /\ res' = 0 /\ UNCHANGED <<connWin, streamWin, initWin, closed, data, ctrl, due>>
    BY <1>7 DEF Timeout, Fail, StreamTypes, SenderTypes
  <2> QED
    BY <1>t, <1>s, <1>w, <1>c, <2>1 DEF CreditInv
<1>8. ASSUME HandleWindowUpdate PROVE CreditInv'
  <2> DEFINE h == Head(ctrl)
  <2>0. ~closed /\ UNCHANGED <<res, initWin, data, due>>
    BY <1>8 DEF HandleWindowUpdate
  <2>1. ctrl # <<>> /\ ctrl' = Tail(ctrl)
    BY <1>8 DEF HandleWindowUpdate
  <2>2. h \in Frames /\ h.n \in Int
    <3>1. h \in Frames
      BY <1>t, <2>1, HeadTail
    <3> QED
      BY <3>1 DEF Frames
  <2>3. /\ Credit("conn")' \in Int /\ Credit("stream")' \in Int
        /\ Credit("conn") = (IF h.kind = "conn" THEN h.n ELSE 0) + Credit("conn")'
        /\ Credit("stream") = (IF h.kind = "stream" THEN h.n ELSE 0) + Credit("stream")'
    BY <1>t, <1>k, <2>1, CreditTail
  <2>4. \/ h.kind = "conn" /\ connWin' = connWin + h.n /\ streamWin' = streamWin
        \/ h.kind = "stream" /\ streamWin' = streamWin + h.n /\ connWin' = connWin
    BY <1>8 DEF HandleWindowUpdate
  <2> HIDE DEF h
  <2> QED
    <3>1. OnWire' = OnWire
      BY <1>w, <2>0
    <3> DEFINE n == h.n
    <3>2. n \in Int
      BY <2>2
    <3>3. due'.conn = due.conn /\ due'.stream = due.stream /\ initWin' = initWin /\ res' = res
      BY <2>0
    <3>4. /\ connWin + res + OnWire + due.conn + Credit("conn") = Window
          /\ streamWin - initWin + res + OnWire + due.stream + Credit("stream") = 0
      BY <2>0 DEF CreditInv
    <3>5. Credit("conn")' \in Int /\ Credit("stream")' \in Int
      BY <2>3
    <3>6. CASE h.kind = "conn"
      <4>1. Credit("conn") = n + Credit("conn")' /\ Credit("stream") = 0 + Credit("stream")'
        BY <2>3, <3>6
      <4>2. connWin' = connWin + n /\ streamWin' = streamWin
        BY <2>4, <3>6
      <4> HIDE DEF n
      <4> QED
        BY <1>i, <1>s, <3>1, <3>2, <3>3, <3>4, <3>5, <4>1, <4>2 DEF CreditInv
    <3>7. CASE h.kind # "conn"
      <4>1. Credit("conn") = 0 + Credit("conn")' /\ Credit("stream") = n + Credit("stream")'
        BY <2>3, <2>4, <3>7
      <4>2. connWin' = connWin /\ streamWin' = streamWin + n
        BY <2>4, <3>7
      <4> HIDE DEF n
      <4> QED
        BY <1>i, <1>s, <3>1, <3>2, <3>3, <3>4, <3>5, <4>1, <4>2 DEF CreditInv
    <3> QED
      BY <3>6, <3>7
<1>9. ASSUME HandleSettings PROVE CreditInv'
  <2> DEFINE h == Head(ctrl)
  <2>0. ~closed /\ UNCHANGED <<res, connWin, data, due>>
    BY <1>9 DEF HandleSettings
  <2>1. ctrl # <<>> /\ ctrl' = Tail(ctrl)
    BY <1>9 DEF HandleSettings
  <2>2. h \in Frames /\ h.n \in Int
    <3>1. h \in Frames
      BY <1>t, <2>1, HeadTail
    <3> QED
      BY <3>1 DEF Frames
  <2>3. /\ Credit("conn")' \in Int /\ Credit("stream")' \in Int
        /\ Credit("conn") = (IF h.kind = "conn" THEN h.n ELSE 0) + Credit("conn")'
        /\ Credit("stream") = (IF h.kind = "stream" THEN h.n ELSE 0) + Credit("stream")'
    BY <1>t, <1>k, <2>1, CreditTail
  <2>4. /\ h.kind \in {"init", "frame"}
        /\ \/ initWin' = h.n /\ streamWin' = streamWin + h.n - initWin
           \/ UNCHANGED <<initWin, streamWin>>
    BY <1>9 DEF HandleSettings
  <2> HIDE DEF h
  <2> QED
    <3> DEFINE n == h.n
    <3>1. OnWire' = OnWire
      BY <1>w, <2>0
    <3>2. n \in Int
      BY <2>2
    <3>3. due'.conn = due.conn /\ due'.stream = due.stream /\ connWin' = connWin /\ res' = res
      BY <2>0
    <3>4. /\ connWin + res + OnWire + due.conn + Credit("conn") = Window
          /\ streamWin - initWin + res + OnWire + due.stream + Credit("stream") = 0
      BY <2>0 DEF CreditInv
    <3>5. /\ Credit("conn")' \in Int /\ Credit("stream")' \in Int
          /\ Credit("conn") = 0 + Credit("conn")' /\ Credit("stream") = 0 + Credit("stream")'
      BY <2>3, <2>4
    <3>6. \/ initWin' = n /\ streamWin' = streamWin + n - initWin
          \/ initWin' = initWin /\ streamWin' = streamWin
      BY <2>4
    <3> HIDE DEF n
    <3> QED
      BY <1>i, <1>s, <3>1, <3>2, <3>3, <3>4, <3>5, <3>6 DEF CreditInv
<1>10. ASSUME SignalSettings PROVE CreditInv'
  <2>1. UNCHANGED <<res, connWin, streamWin, initWin, closed, data, ctrl, due>>
    BY <1>10 DEF SignalSettings
  <2> QED
    BY <1>w, <1>c, <2>1 DEF CreditInv
<1>11. ASSUME ReadData PROVE CreditInv'
  <2>0. /\ ~closed /\ due.conn = 0 /\ due.stream = 0
        /\ UNCHANGED <<res, connWin, streamWin, initWin, ctrl>>
    BY <1>11 DEF ReadData
  <2>1. /\ data # <<>> /\ data' = Tail(data)
        /\ due' = [conn |-> Len(Head(data)), stream |-> Len(Head(data))]
    BY <1>11 DEF ReadData
  <2>2. OnWire' \in Int /\ OnWire = Len(Head(data)) + OnWire'
    BY <1>t, <1>o, <2>1, WireTail
  <2>3. due'.conn = Len(Head(data)) /\ due'.stream = Len(Head(data))
    BY <2>1
  <2>4. Credit("conn")' = Credit("conn") /\ Credit("stream")' = Credit("stream")
    BY <1>c, <2>0
  <2> QED
    <3> DEFINE n == Len(Head(data))
    <3>1. n \in Int /\ due'.conn = n /\ due'.stream = n /\ OnWire' \in Int /\ OnWire = n + OnWire'
      <4>1. Head(data) \in Seq(Real)
        BY <1>t, <2>1, HeadTail
      <4>2. n \in Int
        BY <4>1
      <4> QED
        BY <2>2, <2>3, <4>2
    <3> HIDE DEF n
    <3> QED
      <4>1. connWin' = connWin /\ streamWin' = streamWin /\ initWin' = initWin /\ res' = res
        BY <2>0
      <4>2. /\ connWin + res + OnWire + 0 + Credit("conn") = Window
            /\ streamWin - initWin + res + OnWire + 0 + Credit("stream") = 0
        BY <2>0 DEF CreditInv
      <4> DEFINE w == OnWire'
                 c == Credit("conn")
                 s == Credit("stream")
      <4>3. n \in Int /\ w \in Int /\ c \in Int /\ s \in Int /\ OnWire = n + w
        BY <1>s, <3>1
      <4>4. connWin + res + (n + w) + 0 + c = Window /\ streamWin - initWin + res + (n + w) + 0 + s = 0
        BY <4>2, <4>3
      <4> HIDE DEF w, c, s
      <4>5. connWin + res + w + n + c = Window /\ streamWin - initWin + res + w + n + s = 0
        BY <1>i, <4>3, <4>4
      <4> QED
        BY <2>4, <3>1, <4>1, <4>5 DEF w, c, s, CreditInv
<1>12. ASSUME CreditConn PROVE CreditInv'
  <2> DEFINE f == [kind |-> "conn", n |-> due.conn]
  <2>1. ~closed /\ ctrl' = Append(ctrl, f) /\ UNCHANGED <<res, connWin, streamWin, initWin, data>>
    BY <1>12 DEF CreditConn
  <2>2. due'.conn = 0 /\ due'.stream = due.stream
    BY <1>12, <1>t DEF CreditConn
  <2>3. f \in Frames /\ f.kind = "conn" /\ f.n = due.conn
    BY <1>t DEF Frames
  <2> HIDE DEF f
  <2>4. Credit("conn")' = Credit("conn") + due.conn /\ Credit("stream")' = Credit("stream") + 0
    BY <1>t, <1>k, <2>1, <2>3, CreditAppend
  <2> QED
    BY <1>t, <1>s, <1>w, <2>1, <2>2, <2>4 DEF CreditInv
<1>13. ASSUME CreditStream PROVE CreditInv'
  <2> DEFINE f == [kind |-> "stream", n |-> due.stream]
  <2>1. ~closed /\ ctrl' = Append(ctrl, f) /\ UNCHANGED <<res, connWin, streamWin, initWin, data>>
    BY <1>13 DEF CreditStream
  <2>2. due'.stream = 0 /\ due'.conn = due.conn
    BY <1>13, <1>t DEF CreditStream
  <2>3. f \in Frames /\ f.kind = "stream" /\ f.n = due.stream
    BY <1>t DEF Frames
  <2> HIDE DEF f
  <2>4. Credit("stream")' = Credit("stream") + due.stream /\ Credit("conn")' = Credit("conn") + 0
    BY <1>t, <1>k, <2>1, <2>3, CreditAppend
  <2> QED
    BY <1>t, <1>s, <1>w, <2>1, <2>2, <2>4 DEF CreditInv
<1>14. ASSUME Receive PROVE CreditInv'
  <2>1. UNCHANGED <<res, connWin, streamWin, initWin, closed, data, ctrl, due>>
    BY <1>14 DEF Receive
  <2> QED
    BY <1>w, <1>c, <2>1 DEF CreditInv
<1>15. ASSUME SendOther PROVE CreditInv'
  <2>1. PICK s \in unsent : ctrl' = Append(ctrl, s)
    BY <1>15 DEF SendOther
  <2>2. s \in Frames /\ s.kind \in {"init", "frame", "body"}
    BY StreamAssumption DEF StreamTypes, WireTypes, Frames
  <2>3. Credit("conn")' = Credit("conn") + 0 /\ Credit("stream")' = Credit("stream") + 0
    BY <1>t, <1>k, <2>1, <2>2, CreditAppend
  <2>4. ~closed /\ UNCHANGED <<res, connWin, streamWin, initWin, data, due>>
    BY <1>15 DEF SendOther
  <2> QED
    BY <1>t, <1>s, <1>w, <2>3, <2>4 DEF CreditInv
<1>16. ASSUME Close PROVE CreditInv'
  BY <1>16, Zenon DEF Close
<1>18. ASSUME WriteDeadline PROVE CreditInv'
  <2>1. UNCHANGED <<res, connWin, streamWin, initWin, closed, data, ctrl, due>>
    BY <1>18 DEF WriteDeadline
  <2> QED
    BY <1>w, <1>c, <2>1 DEF CreditInv
<1>19. ASSUME HandleBody PROVE CreditInv'
  <2> DEFINE h == Head(ctrl)
  <2>1. /\ ~closed /\ ctrl # <<>> /\ ctrl' = Tail(ctrl) /\ h.kind = "body"
        /\ UNCHANGED <<res, connWin, streamWin, initWin, data, due>>
    BY <1>19 DEF HandleBody
  <2>2. /\ Credit("conn")' \in Int /\ Credit("stream")' \in Int
        /\ Credit("conn") = (IF h.kind = "conn" THEN h.n ELSE 0) + Credit("conn")'
        /\ Credit("stream") = (IF h.kind = "stream" THEN h.n ELSE 0) + Credit("stream")'
    BY <1>t, <1>k, <2>1, CreditTail
  <2> HIDE DEF h
  <2>3. Credit("conn") = Credit("conn")' /\ Credit("stream") = Credit("stream")'
    BY <2>1, <2>2
  <2> QED
    BY <1>w, <2>1, <2>3 DEF CreditInv
<1>20. ASSUME BodyRead PROVE CreditInv'
  <2>1. UNCHANGED <<res, connWin, streamWin, initWin, closed, data, ctrl, due>>
    BY <1>20 DEF BodyRead
  <2> QED
    BY <1>w, <1>c, <2>1 DEF CreditInv
<1>17. CASE UNCHANGED vars
  <2>1. UNCHANGED <<res, connWin, streamWin, initWin, closed, data, ctrl, due>>
    BY <1>17 DEF vars
  <2> QED
    BY <1>w, <1>c, <2>1 DEF CreditInv
<1> QED
  BY <1>1, <1>2, <1>3, <1>4, <1>5, <1>6, <1>7, <1>8, <1>9, <1>10, <1>11, <1>12, <1>13, <1>14, <1>15, <1>16,
     <1>17, <1>18, <1>19, <1>20, ZenonT(40)
     DEF Next, Writer, SenderReadLoop, ReceiverReadLoop, Finished

-----------------------------------------------------------------------------
(* Datagrams.                                                              *)
-----------------------------------------------------------------------------
\* The order in which the units of a body are sent; a sequence in that order; and all
\* of one set before all of another.
Before(u, v) == u[1] < v[1] \/ (u[1] = v[1] /\ u[2] < v[2])
Rising(s) == \A i, j \in DOMAIN s : i < j => Before(s[i], s[j])
AllBefore(S, T) == \A u \in S, v \in T : Before(u, v)

\* Reading a unit leaves what comes later.
LEMMA RangeTail ==
  ASSUME NEW S, NEW s \in Seq(S), s # <<>>
  PROVE  /\ Range(s) = {Head(s)} \cup Range(Tail(s))
         /\ Rising(s) => Rising(Tail(s)) /\ AllBefore({Head(s)}, Range(Tail(s)))
<1>1. /\ Len(s) \in Nat \ {0} /\ DOMAIN s = 1..Len(s) /\ DOMAIN Tail(s) = 1..Len(s) - 1
      /\ Head(s) = s[1] /\ \A i \in 1..Len(s) - 1 : Tail(s)[i] = s[i + 1]
  BY HeadTail
<1>2. \A i \in DOMAIN s : i = 1 \/ (i - 1 \in DOMAIN Tail(s) /\ s[i] = Tail(s)[i - 1])
  BY <1>1
<1>3. \A i \in DOMAIN Tail(s) : i + 1 \in DOMAIN s /\ Tail(s)[i] = s[i + 1] /\ i + 1 > 1 /\ i \in Nat
  BY <1>1
<1>4. 1 \in DOMAIN s
  BY <1>1
<1>5. Range(s) = {Head(s)} \cup Range(Tail(s))
  <2>1. \A i \in DOMAIN s : s[i] = Head(s) \/ s[i] \in Range(Tail(s))
    BY <1>1, <1>2, Zenon DEF Range
  <2>2. \A x \in Range(Tail(s)) : x \in Range(s)
    BY <1>3 DEF Range
  <2>3. Head(s) \in Range(s)
    BY <1>1, <1>4 DEF Range
  <2> QED
    BY <2>1, <2>2, <2>3, Zenon DEF Range
<1>6. ASSUME Rising(s) PROVE Rising(Tail(s)) /\ AllBefore({Head(s)}, Range(Tail(s)))
  <2>1. Rising(Tail(s))
    BY <1>3, <1>6 DEF Rising
  <2>2. \A i \in DOMAIN Tail(s) : Before(s[1], Tail(s)[i])
    BY <1>3, <1>4, <1>6 DEF Rising
  <2> QED
    BY <1>1, <2>1, <2>2 DEF AllBefore, Range
<1> QED
  BY <1>5, <1>6

\* writeData cuts a capsule into what comes earlier and what comes later.
LEMMA RangeCut ==
  ASSUME NEW S, NEW s \in Seq(S), NEW k \in 0..Len(s)
  PROVE  LET a == SubSeq(s, 1, k)
             b == SubSeq(s, k + 1, Len(s))
         IN  /\ Range(s) = Range(a) \cup Range(b)
             /\ Rising(s) => Rising(a) /\ Rising(b) /\ AllBefore(Range(a), Range(b))
<1> DEFINE a == SubSeq(s, 1, k)
           b == SubSeq(s, k + 1, Len(s))
           n == Len(s)
<1>1. /\ n \in Nat /\ k \in Nat /\ k <= n /\ DOMAIN s = 1..n /\ DOMAIN a = 1..k /\ DOMAIN b = 1..n - k
      /\ (\A i \in 1..k : a[i] = s[i]) /\ (\A i \in 1..n - k : b[i] = s[k + i])
  BY CutInTwo
<1> HIDE DEF a, b, n
<1>2. \A i \in DOMAIN s : (i \in DOMAIN a /\ s[i] = a[i]) \/ (i - k \in DOMAIN b /\ s[i] = b[i - k])
  BY <1>1
<1>3. \A i \in DOMAIN a : i \in DOMAIN s /\ a[i] = s[i] /\ i <= k /\ i \in Nat
  BY <1>1
<1>4. \A i \in DOMAIN b : k + i \in DOMAIN s /\ b[i] = s[k + i] /\ k + i > k /\ i \in Nat
  BY <1>1
<1>5. Range(s) = Range(a) \cup Range(b)
  BY <1>2, <1>3, <1>4 DEF Range
<1>6. ASSUME Rising(s) PROVE Rising(a) /\ Rising(b) /\ AllBefore(Range(a), Range(b))
  <2>1. Rising(a)
    BY <1>3, <1>6 DEF Rising
  <2>2. Rising(b)
    BY <1>1, <1>4, <1>6 DEF Rising
  <2>3. \A i \in DOMAIN a, j \in DOMAIN b : Before(a[i], b[j])
    BY <1>1, <1>3, <1>4, <1>6 DEF Rising
  <2> QED
    BY <2>1, <2>2, <2>3 DEF AllBefore, Range
<1> QED
  BY <1>5, <1>6 DEF a, b, n

\* The units of the capsule of d; and a set of units that has all units of a capsule
\* or none, seen from each unit's neighbours.
Caps(d) == {<<d, i>> : i \in 0..Sizes[d]}
Whole(B) == \A u \in B : /\ u[2] > 0 => <<u[1], u[2] - 1>> \in B
                         /\ u[2] < Sizes[u[1]] => <<u[1], u[2] + 1>> \in B

\* What a real unit is.
LEMMA RealUnits ==
  /\ \A d \in Datagrams : d \in Nat \ {0} /\ Sizes[d] \in Nat
  /\ \A u \in Real : u = <<u[1], u[2]>> /\ u[1] \in Datagrams /\ u[2] \in 0..Sizes[u[1]]
  /\ \A d \in Datagrams : \A i \in 0..Sizes[d] : <<d, i>> \in Real
<1>1. \A d \in Datagrams : d \in Nat \ {0} /\ Sizes[d] \in Nat
  BY StreamAssumption DEF Datagrams
<1>2. ASSUME NEW u \in Real PROVE u = <<u[1], u[2]>> /\ u[1] \in Datagrams /\ u[2] \in 0..Sizes[u[1]]
  <2>1. PICK d \in Datagrams, i \in 0..Max({0} \cup Range(Sizes)) : u = <<d, i>>
    BY DEF Real, Units
  <2>2. u[1] = d /\ u[2] = i
    BY <2>1
  <2>3. i \in Nat /\ i <= Sizes[d] /\ Sizes[d] \in Nat
    BY <1>1, <2>2 DEF Real
  <2> QED
    BY <2>1, <2>2, <2>3
<1>3. \A d \in Datagrams : \A i \in 0..Sizes[d] : <<d, i>> \in Real
  <2> SUFFICES ASSUME NEW d \in Datagrams, NEW i \in 0..Sizes[d] PROVE <<d, i>> \in Real
    BY Zenon
  <2>1. Sizes[d] \in Nat /\ <<d, i>> \in Units
    BY <1>1, UnitsOf
  <2> DEFINE u == <<d, i>>
  <2>2. u[1] = d /\ u[2] = i /\ i <= Sizes[d] /\ u \in Units
    BY <2>1
  <2> QED
    BY <2>2 DEF Real
<1> QED
  BY <1>1, <1>2, <1>3

\* The units of a capsule, in order.
LEMMA CapsRange ==
  ASSUME NEW d \in Datagrams
  PROVE  Range(Capsule(d)) = Caps(d) /\ Caps(d) \subseteq Real /\ Rising(Capsule(d))
<1>1. Sizes[d] \in Nat
  BY RealUnits
<1>2. DOMAIN Capsule(d) = 1..Sizes[d] + 1 /\ \A i \in 1..Sizes[d] + 1 : Capsule(d)[i] = <<d, i - 1>>
  BY DEF Capsule
<1>3. Range(Capsule(d)) = Caps(d)
  <2>1. \A i \in 0..Sizes[d] : i + 1 \in 1..Sizes[d] + 1 /\ Capsule(d)[i + 1] = <<d, i>>
    BY <1>1, <1>2
  <2>2. \A i \in 1..Sizes[d] + 1 : i - 1 \in 0..Sizes[d]
    BY <1>1
  <2> QED
    BY <1>2, <2>1, <2>2, Zenon DEF Range, Caps
<1>4. Caps(d) \subseteq Real
  BY RealUnits DEF Caps
<1>5. Rising(Capsule(d))
  BY <1>1, <1>2 DEF Rising, Before
<1> QED
  BY <1>3, <1>4, <1>5

\* Whole capsules stay whole when one is added or taken away.
LEMMA WholeAdd ==
  ASSUME NEW B \in SUBSET Real, Whole(B), NEW d \in Datagrams
  PROVE  Whole(B \cup Caps(d)) /\ Whole(B \ Caps(d))
<1>0. Sizes[d] \in Nat
  BY RealUnits
<1>1. \A u \in Caps(d) : u[1] = d /\ u[2] \in 0..Sizes[d]
  BY DEF Caps
<1>2. \A i \in 0..Sizes[d] : <<d, i>> \in Caps(d)
  BY DEF Caps
<1>3. \A u \in B : u[1] \in Datagrams /\ u[2] \in 0..Sizes[u[1]] /\ u = <<u[1], u[2]>> /\ Sizes[u[1]] \in Nat
  BY RealUnits
<1>4. ASSUME NEW u \in Caps(d)
      PROVE  (u[2] > 0 => <<u[1], u[2] - 1>> \in Caps(d)) /\ (u[2] < Sizes[u[1]] => <<u[1], u[2] + 1>> \in Caps(d))
  BY <1>0, <1>1, <1>2
<1>5. ASSUME NEW u \in B \ Caps(d)
      PROVE  (u[2] > 0 => <<u[1], u[2] - 1>> \in B \ Caps(d)) /\ (u[2] < Sizes[u[1]] => <<u[1], u[2] + 1>> \in B \ Caps(d))
  <2>1. u[1] # d
    BY <1>2, <1>3
  <2>2. \A i : <<u[1], i>> \notin Caps(d)
    BY <1>1, <2>1
  <2> QED
    BY <2>2 DEF Whole
<1> QED
  BY <1>4, <1>5 DEF Whole

\* The units sent and not yet returned by ReceiveDatagram: those in the reader, in
\* the pipe, on the wire and still with the writer.
Travelling == UNION {Range(data[k]) : k \in DOMAIN data}
Body == Range(got) \cup Range(pipe) \cup Travelling \cup Range(rest)

\* They are in the order in which they were sent, within each place and across.
InOrder ==
  /\ Rising(pipe) /\ Rising(rest) /\ \A k \in DOMAIN data : Rising(data[k])
  /\ AllBefore(Range(got), Range(pipe) \cup Travelling \cup Range(rest))
  /\ AllBefore(Range(pipe), Travelling \cup Range(rest))
  /\ AllBefore(Travelling, Range(rest))
  /\ \A k, l \in DOMAIN data : k < l => AllBefore(Range(data[k]), Range(data[l]))

\* What the reader has is the beginning of one capsule.
Reading ==
  got # <<>> => /\ Len(got) <= Sizes[got[1][1]]
                /\ \A k \in DOMAIN got : got[k] = <<got[1][1], k - 1>>

\* What was returned are whole datagrams, in the order sent.
Returned ==
  /\ \A k \in DOMAIN delivered : /\ delivered[k][1][1] \in Datagrams /\ delivered[k][1][1] < next
                                 /\ delivered[k] = Capsule(delivered[k][1][1])
  /\ \A j, k \in DOMAIN delivered : j < k => delivered[j][1][1] < delivered[k][1][1]

\* What is under way was sent, and after what was returned.
Ahead == \A u \in Body : u[1] < next /\ \A k \in DOMAIN delivered : delivered[k][1][1] < u[1]

\* The inductive invariant.  A connection that is closed may lose units, a write that
\* was cut loses some of a capsule: the body is then no longer whole.
Live == InOrder /\ Reading /\ Whole(Body) /\ Ahead
IntactInv == fired # "cut" => Returned /\ (~closed => Live)

\* The invariant is enough.
LEMMA Intact == IntactInv => DatagramsIntact
  BY DEF IntactInv, Returned, DatagramsIntact

\* A new stream has sent nothing.
LEMMA InitIntact == Init => IntactInv
<1> SUFFICES ASSUME Init PROVE IntactInv
  OBVIOUS
<1>1. rest = <<>> /\ data = <<>> /\ pipe = <<>> /\ got = <<>> /\ delivered = <<>>
  BY DEF Init
<1>2. \A x : x \notin DOMAIN <<>>
  OBVIOUS
<1>3. Range(<<>>) = {}
  BY <1>2 DEF Range
<1>4. Travelling = {} /\ Body = {}
  BY <1>1, <1>2, <1>3 DEF Travelling, Body
<1>5. Returned
  BY <1>1, <1>2, ZenonT(40) DEF Returned
<1>6. InOrder
  BY <1>1, <1>2, <1>3, <1>4, Zenon DEF InOrder, Rising, AllBefore
<1>7. Reading /\ Whole(Body) /\ Ahead
  BY <1>1, <1>4 DEF Reading, Whole, Ahead
<1> QED
  BY <1>5, <1>6, <1>7 DEF IntactInv, Live

\* The units under way are real ones.
LEMMA BodyReal == StreamTypes => Body \subseteq Real /\ \A k \in DOMAIN data : data[k] \in Seq(Real)
<1> SUFFICES ASSUME StreamTypes PROVE Body \subseteq Real /\ \A k \in DOMAIN data : data[k] \in Seq(Real)
  OBVIOUS
<1>1. got \in Seq(Real) /\ pipe \in Seq(Real) /\ rest \in Seq(Real) /\ data \in Seq(Seq(Real))
  BY DEF StreamTypes, SenderTypes, WireTypes, ReceiverTypes
<1>2. \A k \in DOMAIN data : data[k] \in Seq(Real)
  BY <1>1
<1>3. \A s \in Seq(Real) : Range(s) \subseteq Real
  BY DEF Range
<1>4. Travelling \subseteq Real
  BY <1>2, <1>3 DEF Travelling
<1> QED
  BY <1>1, <1>2, <1>3, <1>4 DEF Body

\* A step that moves no unit keeps the invariant.
LEMMA StillIntact ==
  ASSUME IntactInv, UNCHANGED <<next, rest, data, pipe, got, delivered, fired>>, ~closed' => ~closed
  PROVE  IntactInv'
<1>1. Travelling' = Travelling /\ Body' = Body
  BY DEF Travelling, Body
<1>2. Returned => Returned'
  BY Zenon DEF Returned
<1>3. InOrder => InOrder'
  BY <1>1 DEF InOrder
<1>4. (Reading => Reading') /\ (Ahead => Ahead') /\ Whole(Body)' = Whole(Body)
  BY <1>1 DEF Reading, Ahead, Whole
<1> QED
  BY <1>2, <1>3, <1>4 DEF IntactInv, Live

\* SendDatagram puts a whole capsule behind all that is under way.
LEMMA SendIntact == StreamTypes /\ IntactInv /\ SendDatagram => IntactInv'
<1> SUFFICES ASSUME StreamTypes, IntactInv, SendDatagram, fired # "cut" PROVE Returned' /\ Live'
  BY DEF IntactInv, SendDatagram
<1>1. /\ next \in Datagrams /\ next \in Nat /\ rest = <<>> /\ rest' = Capsule(next) /\ next' = next + 1 /\ ~closed
      /\ data' = data /\ pipe' = pipe /\ got' = got /\ delivered' = delivered
  BY StreamAssumption DEF StreamTypes, SenderTypes, SendDatagram, receiver, Datagrams
<1>2. Returned /\ Live /\ Body \subseteq Real
  BY <1>1, BodyReal DEF IntactInv
<1>3. Range(<<>>) = {}
  BY DEF Range
<1>4. Range(rest') = Caps(next) /\ Caps(next) \subseteq Real /\ Rising(rest')
  BY <1>1, CapsRange
<1>5. Travelling' = Travelling /\ Body' = Body \cup Caps(next)
  BY <1>1, <1>3, <1>4 DEF Body, Travelling
<1>6. Whole(Body)'
  <2>1. Whole(Body \cup Caps(next))
    BY <1>1, <1>2, WholeAdd, Zenon DEF Live
  <2> QED
    BY <1>5, <2>1, Zenon DEF Whole
<1>7. \A u \in Body : u[1] < next /\ u[1] \in Nat /\ u \in Real
  BY <1>2, RealUnits DEF Live, Ahead
<1>8. \A u \in Caps(next) : u[1] = next
  BY DEF Caps
<1>9. AllBefore(Body, Caps(next))
  BY <1>7, <1>8 DEF AllBefore, Before
<1>10. \A k \in DOMAIN delivered : delivered[k][1][1] < next /\ delivered[k][1][1] \in Nat
  BY <1>2, RealUnits, ZenonT(40) DEF Returned
<1>11. Returned'
  BY <1>1, <1>2, <1>10 DEF Returned
<1>12. Ahead'
  <2>1. \A u \in Body' : u \in Body \/ u[1] = next
    BY <1>5, <1>8
  <2>2. \A u \in Body' : u[1] < next + 1
    BY <1>1, <1>7, <2>1
  <2>3. ASSUME NEW u \in Body', NEW k \in DOMAIN delivered PROVE delivered[k][1][1] < u[1]
    BY <1>2, <1>10, <2>1, ZenonT(40) DEF Live, Ahead
  <2> QED
    BY <1>1, <2>2, <2>3 DEF Ahead
<1>13. InOrder'
  <2>1. /\ AllBefore(Range(got), Caps(next)) /\ AllBefore(Range(pipe), Caps(next)) /\ AllBefore(Travelling, Caps(next))
    BY <1>9 DEF AllBefore, Body
  <2>2. /\ AllBefore(Range(got), Range(pipe) \cup Travelling) /\ AllBefore(Range(pipe), Travelling)
        /\ Rising(pipe) /\ \A k \in DOMAIN data : Rising(data[k])
        /\ \A k, l \in DOMAIN data : k < l => AllBefore(Range(data[k]), Range(data[l]))
    BY <1>2 DEF Live, InOrder, AllBefore
  <2>3. /\ AllBefore(Range(got), Range(pipe) \cup Travelling \cup Caps(next))
        /\ AllBefore(Range(pipe), Travelling \cup Caps(next))
    BY <2>1, <2>2 DEF AllBefore
  <2> QED
    BY <1>1, <1>4, <1>5, <2>1, <2>2, <2>3 DEF InOrder
<1>14. Reading'
  BY <1>1, <1>2 DEF Live, Reading
<1> QED
  BY <1>6, <1>11, <1>12, <1>13, <1>14 DEF Live

\* A timer that fires before the first unit of a capsule is written takes a whole
\* capsule out of the body.
LEMMA TimeoutIntact == StreamTypes /\ IntactInv /\ Timeout => IntactInv'
<1> SUFFICES ASSUME StreamTypes, IntactInv, Timeout, fired' # "cut" PROVE Returned' /\ (~closed' => Live')
  BY DEF IntactInv
<1>1. /\ fired # "cut" /\ rest = Capsule(next - 1) /\ rest # <<>> /\ rest' = <<>> /\ next' = next /\ closed' = closed
      /\ data' = data /\ pipe' = pipe /\ got' = got /\ delivered' = delivered
  BY ZenonT(40) DEF StreamTypes, SenderTypes, Timeout, Fail, receiver
<1>2. Returned /\ Returned'
  BY <1>1, Zenon DEF IntactInv, Returned
<1> SUFFICES ASSUME ~closed PROVE Live'
  BY <1>1, <1>2
<1>3. Live /\ Body \subseteq Real
  BY <1>1, BodyReal DEF IntactInv
<1> DEFINE d == next - 1
<1>4. d \in Datagrams /\ d \in Nat /\ next = d + 1
  <2>1. rest \in Seq(Real) /\ next \in 1..Len(Sizes) + 1 /\ Len(Sizes) \in Nat /\ DOMAIN Sizes = 1..Len(Sizes)
    BY StreamAssumption DEF StreamTypes, SenderTypes
  <2>2. Head(rest) \in Range(rest)
    BY <1>1, <2>1, RangeTail, Zenon
  <2>3. Head(rest) \in Body
    BY <2>2 DEF Body
  <2>4. Head(rest)[1] < next /\ Head(rest)[1] \in Nat \ {0}
    BY <1>3, <2>3, RealUnits DEF Live, Ahead
  <2> QED
    BY <2>1, <2>4 DEF Datagrams
<1>5. Range(rest) = Caps(d) /\ Range(rest') = {}
  <2>1. Range(<<>>) = {}
    BY DEF Range
  <2> QED
    BY <1>1, <1>4, <2>1, CapsRange
<1> HIDE DEF d
<1>6. <<d, 0>> \in Caps(d) /\ \A u \in Caps(d) : u[1] = d
  BY <1>4, RealUnits DEF Caps
<1> DEFINE Rem == Range(got) \cup Range(pipe) \cup Travelling
<1>7. AllBefore(Rem, Caps(d)) /\ Body = Rem \cup Caps(d)
  BY <1>3, <1>5 DEF Live, InOrder, AllBefore, Body
<1>8. Travelling' = Travelling /\ Body' = Rem
  BY <1>1, <1>5 DEF Body, Travelling
<1> HIDE DEF Rem
<1>9. \A u \in Rem : u[1] # d
  <2> SUFFICES ASSUME NEW u \in Rem PROVE u[1] # d
    OBVIOUS
  <2>1. u[1] \in Nat /\ u[2] \in Nat
    <3>1. u \in Real
      BY <1>3, <1>7, Zenon
    <3> QED
      BY <3>1, RealUnits
  <2>2. Before(u, <<d, 0>>)
    BY <1>6, <1>7 DEF AllBefore
  <2> QED
    BY <1>4, <2>1, <2>2 DEF Before
<1>10. Body' = Body \ Caps(d)
  BY <1>6, <1>7, <1>8, <1>9
<1>11. Whole(Body)'
  <2>1. Whole(Body \ Caps(d))
    BY <1>3, <1>4, WholeAdd, Zenon DEF Live
  <2> QED
    BY <1>10, <2>1, Zenon DEF Whole
<1>12. Ahead'
  BY <1>1, <1>3, <1>10 DEF Live, Ahead
<1>13. Rising(<<>>)
  BY DEF Rising
<1>14. InOrder'
  BY <1>1, <1>3, <1>5, <1>8, <1>13, Zenon DEF Live, InOrder, AllBefore
<1>15. Reading'
  BY <1>1, <1>3 DEF Live, Reading
<1> QED
  BY <1>11, <1>12, <1>14, <1>15 DEF Live

\* writeData moves units from the writer to the end of the wire.
LEMMA WriteIntact == StreamTypes /\ IntactInv /\ WriteFrame => IntactInv'
<1> SUFFICES ASSUME StreamTypes, IntactInv, WriteFrame, fired # "cut" PROVE Returned' /\ Live'
  BY DEF IntactInv, WriteFrame
<1> DEFINE a == SubSeq(rest, 1, res)
           b == SubSeq(rest, res + 1, Len(rest))
<1>1. /\ data' = Append(data, a) /\ rest' = b /\ next' = next /\ ~closed
      /\ pipe' = pipe /\ got' = got /\ delivered' = delivered
      /\ rest \in Seq(Real) /\ data \in Seq(Seq(Real)) /\ res \in 0..Len(rest)
  BY DEF StreamTypes, SenderTypes, WireTypes, WriteFrame, receiver
<1>2. Returned /\ Live /\ Body \subseteq Real
  BY <1>1, BodyReal, Zenon DEF IntactInv
<1>3. Range(rest) = Range(a) \cup Range(b) /\ Rising(a) /\ Rising(b) /\ AllBefore(Range(a), Range(b)) /\ a \in Seq(Real)
  <2>1. Rising(rest)
    BY <1>2, Zenon DEF Live, InOrder
  <2> QED
    BY <1>1, <2>1, RangeCut, CutInTwo, Zenon
<1> DEFINE n == Len(data)
<1> HIDE DEF a, b
<1>4. /\ n \in Nat /\ DOMAIN data = 1..n /\ DOMAIN data' = 1..n + 1
      /\ data'[n + 1] = a /\ \A k \in 1..n : data'[k] = data[k]
  BY <1>1, <1>3, Appended
<1> HIDE DEF n
<1>5. /\ \A k \in DOMAIN data' : k \in DOMAIN data \/ k = n + 1
      /\ \A k \in DOMAIN data : k \in DOMAIN data' /\ k < n + 1 /\ data'[k] = data[k] /\ k \in Nat
      /\ n + 1 \in DOMAIN data'
  BY <1>4
<1>6. Travelling' = Travelling \cup Range(a)
  BY <1>4, <1>5 DEF Travelling
<1>7. Body' = Body
  BY <1>1, <1>3, <1>6, ZenonT(40) DEF Body
<1>8. Returned' /\ Whole(Body)' /\ Ahead' /\ Reading'
  BY <1>1, <1>2, <1>7, ZenonT(40) DEF Returned, Live, Whole, Ahead, Reading
<1>9. InOrder'
  <2>1. InOrder
    BY <1>2, Zenon DEF Live
  <2>2. Rising(pipe)' /\ Rising(rest)' /\ \A k \in DOMAIN data' : Rising(data'[k])
    BY <1>1, <1>3, <1>4, <1>5, <2>1, ZenonT(40) DEF InOrder
  <2>3. AllBefore(Range(got'), Range(pipe') \cup Travelling' \cup Range(rest'))
    BY <1>1, <1>3, <1>6, <2>1 DEF InOrder, AllBefore
  <2>4. AllBefore(Range(pipe'), Travelling' \cup Range(rest'))
    BY <1>1, <1>3, <1>6, <2>1 DEF InOrder, AllBefore
  <2>5. AllBefore(Travelling', Range(rest'))
    BY <1>1, <1>3, <1>6, <2>1, ZenonT(40) DEF InOrder, AllBefore
  <2>6. ASSUME NEW k \in DOMAIN data', NEW l \in DOMAIN data', k < l
        PROVE  AllBefore(Range(data'[k]), Range(data'[l]))
    <3>1. k \in DOMAIN data
      BY <1>4, <2>6
    <3>2. Range(data[k]) \subseteq Travelling
      BY <3>1, Zenon DEF Travelling
    <3>3. CASE l \in DOMAIN data
      BY <1>5, <2>1, <2>6, <3>1, <3>3, Zenon DEF InOrder
    <3>4. CASE l = n + 1
      BY <1>3, <1>4, <1>5, <2>1, <3>1, <3>2, <3>4, ZenonT(40) DEF InOrder, AllBefore
    <3> QED
      BY <1>5, <3>3, <3>4
  <2> QED
    BY <2>2, <2>3, <2>4, <2>5, <2>6 DEF InOrder
<1> QED
  BY <1>8, <1>9 DEF Live

\* readLoop moves the first frame from the wire to the pipe.
LEMMA ReadIntact == StreamTypes /\ IntactInv /\ ReadData => IntactInv'
<1> SUFFICES ASSUME StreamTypes, IntactInv, ReadData, fired # "cut" PROVE Returned' /\ Live'
  BY Zenon DEF IntactInv, ReadData
<1>1. /\ data' = Tail(data) /\ pipe' = Head(data) /\ pipe = <<>> /\ data # <<>> /\ ~closed
      /\ next' = next /\ rest' = rest /\ got' = got /\ delivered' = delivered /\ data \in Seq(Seq(Real))
  BY DEF StreamTypes, WireTypes, ReadData, sender
<1>2. Returned /\ Live /\ Body \subseteq Real
  BY <1>1, BodyReal DEF IntactInv
<1> DEFINE n == Len(data)
<1>3. /\ n \in Nat \ {0} /\ DOMAIN data = 1..n /\ DOMAIN data' = 1..n - 1
      /\ Head(data) = data[1] /\ \A k \in 1..n - 1 : data'[k] = data[k + 1]
  BY <1>1, HeadTail
<1> HIDE DEF n
<1>4. /\ 1 \in DOMAIN data /\ pipe' = data[1]
      /\ \A k \in DOMAIN data' : k + 1 \in DOMAIN data /\ k + 1 > 1 /\ k \in Nat /\ data'[k] = data[k + 1]
      /\ \A k \in DOMAIN data : k = 1 \/ (k - 1 \in DOMAIN data' /\ data[k] = data'[k - 1])
  BY <1>1, <1>3
<1>5. Travelling = Range(pipe') \cup Travelling'
  <2>1. \A k \in DOMAIN data : Range(data[k]) \subseteq Range(pipe') \cup Travelling'
    BY <1>4 DEF Travelling
  <2>2. \A k \in DOMAIN data' : Range(data'[k]) \subseteq Travelling
    BY <1>4 DEF Travelling
  <2>3. Range(pipe') \subseteq Travelling
    BY <1>4 DEF Travelling
  <2>4. Travelling \subseteq Range(pipe') \cup Travelling'
    BY <2>1, Zenon DEF Travelling
  <2>5. Travelling' \subseteq Travelling
    <3> SUFFICES ASSUME NEW x \in UNION {Range(data'[k]) : k \in DOMAIN data'} PROVE x \in Travelling
      BY DEF Travelling
    <3> QED
      BY <2>2
  <2> QED
    BY <2>3, <2>4, <2>5
<1>6. Range(pipe) = {}
  BY <1>1 DEF Range
<1>7. Body' = Body
  BY <1>1, <1>5, <1>6, ZenonT(40) DEF Body
<1>8. Returned' /\ Whole(Body)' /\ Ahead' /\ Reading'
  BY <1>1, <1>2, <1>7, Zenon DEF Returned, Live, Whole, Ahead, Reading
<1>9. InOrder'
  <2>1. InOrder
    BY <1>2 DEF Live
  <2>2. Rising(pipe') /\ Rising(rest') /\ \A k \in DOMAIN data' : Rising(data'[k])
    BY <1>1, <1>4, <2>1, ZenonT(40) DEF InOrder
  <2>3. AllBefore(Range(got'), Range(pipe') \cup Travelling' \cup Range(rest'))
    BY <1>1, <1>5, <2>1 DEF InOrder, AllBefore
  <2>4. AllBefore(Range(pipe'), Travelling')
    <3>1. \A k \in DOMAIN data' : AllBefore(Range(pipe'), Range(data'[k]))
      BY <1>4, <2>1, Zenon DEF InOrder
    <3> QED
      BY <3>1, ZenonT(40) DEF Travelling, AllBefore
  <2>5. AllBefore(Range(pipe'), Travelling' \cup Range(rest')) /\ AllBefore(Travelling', Range(rest'))
    BY <1>1, <1>5, <2>1, <2>4, Zenon DEF InOrder, AllBefore
  <2>6. ASSUME NEW k \in DOMAIN data', NEW l \in DOMAIN data', k < l
        PROVE  AllBefore(Range(data'[k]), Range(data'[l]))
    <3>0. k \in Nat /\ l \in Nat
      BY <1>4, <2>6, Zenon
    <3>1. k + 1 < l + 1
      BY <2>6, <3>0
    <3> QED
      BY <1>4, <2>1, <3>1, ZenonT(40) DEF InOrder
  <2> QED
    BY <2>2, <2>3, <2>5, <2>6, Zenon DEF InOrder
<1> QED
  BY <1>8, <1>9 DEF Live

\* The unit the reader gets next is the one it waits for: the header of a capsule, or
\* the successor of its last unit.
LEMMA NextUnit ==
  ASSUME StreamTypes, Live, pipe # <<>>
  PROVE  LET h == Head(pipe)
         IN  h = IF got = <<>> THEN <<h[1], 0>> ELSE <<got[1][1], Len(got)>>
<1> DEFINE h == Head(pipe)
           Later == Range(Tail(pipe)) \cup Travelling \cup Range(rest)
<1>1. pipe \in Seq(Real) /\ got \in Seq(Real) /\ Body \subseteq Real
  BY BodyReal, Zenon DEF StreamTypes, ReceiverTypes
<1>2. Range(pipe) = {h} \cup Range(Tail(pipe)) /\ AllBefore({h}, Range(Tail(pipe)))
  BY <1>1, RangeTail, ZenonT(40) DEF Live, InOrder
<1>3. Body = Range(got) \cup {h} \cup Later /\ AllBefore({h}, Later) /\ AllBefore(Range(got), {h})
  BY <1>2, Zenon DEF Body, Live, InOrder, AllBefore
<1> HIDE DEF Later
<1>4. h \in Real /\ h \in Body /\ h = <<h[1], h[2]>> /\ h[1] \in Nat /\ h[2] \in 0..Sizes[h[1]] /\ Sizes[h[1]] \in Nat
  BY <1>1, <1>3, RealUnits
<1>5. \A u \in Later : Before(h, u)
  BY <1>3 DEF AllBefore
<1> HIDE DEF h
<1>6. CASE got = <<>>
  <2>1. Range(got) = {}
    BY <1>6 DEF Range
  <2>2. h[2] = 0
    <3> SUFFICES ASSUME h[2] > 0 PROVE FALSE
      BY <1>4
    <3> DEFINE x == <<h[1], h[2] - 1>>
    <3>1. x \in Body /\ x[1] = h[1] /\ x[2] = h[2] - 1
      BY <1>4, Zenon DEF Live, Whole
    <3>2. x # h
      BY <1>4, <3>1
    <3>3. Before(h, x)
      BY <1>3, <1>5, <2>1, <3>1, <3>2
    <3> QED
      BY <1>4, <3>1, <3>3 DEF Before
  <2> QED
    BY <1>4, <1>6, <2>2 DEF h
<1>7. CASE got # <<>>
  <2> DEFINE d == got[1][1]
             n == Len(got)
  <2>1. n \in Nat \ {0} /\ DOMAIN got = 1..n /\ n <= Sizes[d] /\ \A k \in 1..n : got[k] = <<d, k - 1>>
    BY <1>1, <1>7 DEF Live, Reading
  <2> HIDE DEF d, n
  <2>2. got[n] = <<d, n - 1>> /\ got[n] \in Range(got) /\ got[n] \in Body
    BY <1>3, <2>1 DEF Range
  <2>3. d \in Datagrams /\ d \in Nat /\ Sizes[d] \in Nat
    BY <1>1, <2>2, RealUnits
  <2> DEFINE x == <<d, n>>
             g == <<d, n - 1>>
  <2>4. g[1] = d /\ g[2] = n - 1 /\ x[1] = d /\ x[2] = n /\ g \in Body /\ g[2] + 1 = n
    BY <2>1, <2>2
  <2>5. x \in Body
    <3>1. g[2] < Sizes[g[1]]
      BY <2>1, <2>3, <2>4
    <3>2. <<g[1], g[2] + 1>> \in Body
      BY <2>4, <3>1, Zenon DEF Live, Whole
    <3> QED
      BY <2>4, <3>2
  <2>6. Before(g, h)
    BY <1>3, <2>2 DEF AllBefore
  <2>7. x \notin Range(got)
    BY <2>1, <2>3 DEF Range
  <2>8. ~Before(h, x)
    BY <1>4, <2>1, <2>3, <2>4, <2>6 DEF Before
  <2>9. x = h
    BY <1>3, <1>5, <2>5, <2>7, <2>8
  <2> QED
    BY <1>7, <2>9 DEF h, d, n
<1> QED
  BY <1>6, <1>7

\* ReceiveDatagram takes a unit, and with the last one returns the whole capsule.
LEMMA ReceiveIntact == StreamTypes /\ IntactInv /\ Receive => IntactInv'
<1> SUFFICES ASSUME StreamTypes, IntactInv, Receive, fired # "cut" PROVE Returned' /\ Live'
  BY DEF IntactInv, Receive
<1> DEFINE h == Head(pipe)
           s == Append(got, h)
           n == Len(got)
           d == s[1][1]
<1>1. /\ pipe' = Tail(pipe) /\ pipe # <<>> /\ ~closed /\ pipe \in Seq(Real) /\ got \in Seq(Real)
      /\ next' = next /\ rest' = rest /\ data' = data /\ delivered \in Seq(Seq(Real))
  BY DEF StreamTypes, ReceiverTypes, Receive, sender
<1>2. Returned /\ Live /\ Body \subseteq Real
  BY <1>1, BodyReal, Zenon DEF IntactInv
<1>3. Range(pipe) = {h} \cup Range(pipe') /\ Rising(pipe') /\ AllBefore({h}, Range(pipe')) /\ h \in Real
  BY <1>1, <1>2, RangeTail, HeadTail, Zenon DEF Live, InOrder
<1>4. h \in Body
  BY <1>3 DEF Body
<1>5. /\ n \in Nat /\ DOMAIN s = 1..n + 1 /\ Range(s) = Range(got) \cup {h} /\ s \in Seq(Real)
      /\ s[n + 1] = h /\ (\A k \in 1..n : s[k] = got[k]) /\ Len(s) = n + 1
  <2> HIDE DEF h
  <2>1. Range(s) = Range(got) \cup {h}
    BY <1>1, <1>3, RangeAppend
  <2>2. /\ s \in Seq(Real) /\ Len(s) = n + 1 /\ n \in Nat
        /\ s[n + 1] = h /\ \A k \in 1..n : s[k] = got[k]
    BY <1>1, <1>3, Appended
  <2> HIDE DEF s, n
  <2>3. DOMAIN s = 1..n + 1
    BY <2>2
  <2> QED
    BY <2>1, <2>2, <2>3
<1>6. d \in Datagrams /\ d \in Nat /\ Sizes[d] \in Nat /\ n <= Sizes[d] /\ \A k \in 1..n + 1 : s[k] = <<d, k - 1>>
  <2>0. h[1] \in Datagrams /\ h = IF got = <<>> THEN <<h[1], 0>> ELSE <<got[1][1], n>>
    BY <1>1, <1>2, <1>3, NextUnit, RealUnits, Zenon
  <2>1. CASE got = <<>>
    <3>1. n = 0 /\ h = <<h[1], 0>>
      BY <2>0, <2>1
    <3> HIDE DEF h, s, n
    <3>2. s[1] = h
      BY <1>5, <3>1
    <3>3. d = h[1] /\ Sizes[d] \in Nat /\ d \in Nat
      BY <2>0, <3>2, RealUnits, ZenonT(40)
    <3> QED
      BY <2>0, <3>1, <3>2, <3>3
  <2>2. CASE got # <<>>
    <3>1. n \in Nat \ {0} /\ DOMAIN got = 1..n
      BY <1>1, <2>2
    <3>2. n <= Sizes[got[1][1]] /\ \A k \in 1..n : got[k] = <<got[1][1], k - 1>>
      BY <1>2, <2>2, <3>1 DEF Live, Reading
    <3>3. got[1] \in Real /\ h = <<got[1][1], n>>
      BY <1>1, <2>0, <2>2, <3>1
    <3> HIDE DEF h, s, n
    <3>4. s[1] = got[1]
      BY <1>5, <3>1
    <3>5. d = got[1][1] /\ d \in Datagrams /\ d \in Nat /\ Sizes[d] \in Nat
      BY <3>3, <3>4, RealUnits
    <3>6. ASSUME NEW k \in 1..n + 1 PROVE s[k] = <<d, k - 1>>
      <4>1. CASE k = n + 1
        BY <1>5, <3>1, <3>3, <3>5, <4>1
      <4>2. CASE k \in 1..n
        BY <1>5, <3>2, <3>5, <4>2, Zenon
      <4> QED
        BY <3>1, <4>1, <4>2
    <3> QED
      BY <3>2, <3>5, <3>6
  <2> QED
    BY <2>1, <2>2
<1> DEFINE Later == Range(pipe') \cup Travelling \cup Range(rest)
<1>7. Travelling' = Travelling /\ Body = Range(s) \cup Later
  BY <1>1, <1>3, <1>5 DEF Travelling, Body
<1>8. AllBefore(Range(s), Later)
  BY <1>2, <1>3, <1>5, Zenon DEF Live, InOrder, AllBefore
<1>9. Body' = Range(got') \cup Later
  BY <1>1, <1>7 DEF Body
<1>10. Complete(s) <=> n + 1 = Sizes[d] + 1
  <2> HIDE DEF h, s, n
  <2>1. s # <<>> /\ s[1][2] = 0
    BY <1>5, <1>6
  <2> QED
    BY <1>5, <2>1 DEF Complete
<1>11. AllBefore(Range(got'), Later) => InOrder'
  <2>1. InOrder
    BY <1>2 DEF Live
  <2> QED
    BY <1>1, <1>3, <1>7, <2>1, Zenon DEF InOrder, AllBefore
<1>12. IF Complete(s) THEN delivered' = Append(delivered, s) /\ got' = <<>> ELSE got' = s /\ delivered' = delivered
  BY DEF Receive
<1> HIDE DEF h, s, n, d, Later
<1>13. CASE ~Complete(s)
  <2>1. got' = s /\ delivered' = delivered
    BY <1>12, <1>13
  <2>2. Body' = Body
    BY <1>7, <1>9, <2>1, Zenon
  <2>3. Returned' /\ Whole(Body)' /\ Ahead'
    BY <1>1, <1>2, <2>1, <2>2 DEF Returned, Live, Whole, Ahead
  <2>4. InOrder'
    BY <1>8, <1>11, <2>1, Zenon
  <2>5. Reading'
    <3>1. n + 1 <= Sizes[d]
      <4>1. n \in Nat /\ Sizes[d] \in Nat /\ n <= Sizes[d] /\ n + 1 # Sizes[d] + 1
        BY <1>5, <1>6, <1>10, <1>13, Zenon
      <4> QED
        BY <4>1
    <3> QED
      BY <1>5, <1>6, <2>1, <3>1, Zenon DEF Reading, d
  <2> QED
    BY <2>3, <2>4, <2>5 DEF Live
<1>14. CASE Complete(s)
  <2>1. delivered' = Append(delivered, s) /\ got' = <<>> /\ n = Sizes[d]
    BY <1>5, <1>6, <1>10, <1>12, <1>14
  <2>2. s = Capsule(d)
    <3>1. DOMAIN s = 1..Sizes[d] + 1 /\ \A k \in 1..Sizes[d] + 1 : s[k] = <<d, k - 1>>
      BY <1>5, <1>6, <2>1
    <3>2. s = [k \in DOMAIN s |-> s[k]]
      BY <1>5
    <3> QED
      BY <3>1, <3>2, Zenon DEF Capsule
  <2>3. Range(got') = {}
    BY <2>1 DEF Range
  <2>4. InOrder' /\ Reading' /\ Body' = Later
    BY <1>9, <1>11, <2>1, <2>3, ZenonT(40) DEF AllBefore, Reading
  <2>5. Range(s) = Caps(d) /\ h = <<d, Sizes[d]>> /\ h \in Range(s)
    <3>1. n + 1 \in 1..n + 1 /\ n + 1 - 1 = n
      BY <1>5
    <3>2. s[n + 1] = <<d, n>>
      <4>1. n \in Nat /\ d \in Nat /\ \A k \in 1..n + 1 : s[k] = <<d, k - 1>>
        BY <1>5, <1>6
      <4> QED
        BY <3>1, <4>1
    <3>3. h = <<d, n>>
      BY <1>5, <3>1, <3>2, Zenon
    <3>4. Range(s) = Caps(d)
      BY <1>6, <2>2, CapsRange, ZenonT(40)
    <3> QED
      BY <1>5, <2>1, <3>3, <3>4, Zenon
  <2>6. ASSUME NEW u \in Later PROVE u[1] > d
    <3>1. u[1] \in Nat /\ u[2] \in 0..Sizes[u[1]] /\ Sizes[u[1]] \in Nat
      BY <1>2, <1>7, RealUnits
    <3>2. Before(h, u)
      BY <1>8, <2>5 DEF AllBefore
    <3> QED
      BY <1>6, <2>5, <3>1, <3>2 DEF Before
  <2>7. Body' = Body \ Caps(d)
    <3>1. \A u \in Caps(d) : u[1] = d
      BY DEF Caps
    <3>2. \A u \in Later : u \notin Caps(d)
      BY <1>6, <2>6, <3>1
    <3> QED
      BY <1>7, <2>4, <2>5, <3>2
  <2>8. Whole(Body)'
    <3>1. Whole(Body \ Caps(d))
      BY <1>2, <1>6, WholeAdd, ZenonT(40) DEF Live
    <3> QED
      BY <2>7, <3>1, Zenon DEF Whole
  <2>9. d < next /\ \A k \in DOMAIN delivered : delivered[k][1][1] < d
    <3>1. s[1] \in Body /\ s[1][1] = d
      BY <1>5, <1>7 DEF d, Range
    <3> QED
      BY <1>2, <3>1 DEF Live, Ahead
  <2> DEFINE m == Len(delivered)
  <2>10. /\ m \in Nat /\ DOMAIN delivered = 1..m /\ DOMAIN delivered' = 1..m + 1
         /\ delivered'[m + 1] = s /\ \A k \in 1..m : delivered'[k] = delivered[k]
    BY <1>1, <1>5, <2>1, Appended
  <2> HIDE DEF m
  <2>11. \A k \in DOMAIN delivered' : \/ k \in DOMAIN delivered /\ delivered'[k] = delivered[k] /\ k < m + 1
                                      \/ k = m + 1 /\ delivered'[k] = s
    BY <2>10
  <2>12. Ahead'
    <3> SUFFICES ASSUME NEW u \in Body', NEW k \in DOMAIN delivered'
                 PROVE  u[1] < next /\ delivered'[k][1][1] < u[1]
      <4>1. ASSUME NEW u \in Body' PROVE u[1] < next
        BY <1>2, <2>7 DEF Live, Ahead
      <4> QED
        BY <1>1, <4>1, Zenon DEF Ahead
    <3>1. u \in Body /\ u \in Later
      BY <2>4, <2>7
    <3>2. u[1] < next /\ \A i \in DOMAIN delivered : delivered[i][1][1] < u[1]
      BY <1>2, <3>1 DEF Live, Ahead
    <3>3. d < u[1]
      BY <1>2, <1>6, <2>6, <3>1, RealUnits, Zenon
    <3> QED
      BY <2>11, <3>2, <3>3, Zenon DEF d
  <2>13. Returned'
    <3>1. ASSUME NEW k \in DOMAIN delivered'
          PROVE  /\ delivered'[k][1][1] \in Datagrams /\ delivered'[k][1][1] < next
                 /\ delivered'[k] = Capsule(delivered'[k][1][1])
      <4>1. CASE k = m + 1
        <5>1. delivered'[k] = s /\ s[1][1] = d
          BY <2>10, <4>1, Zenon DEF d
        <5> QED
          BY <1>6, <2>2, <2>9, <5>1, Zenon
      <4>2. CASE k \in DOMAIN delivered /\ delivered'[k] = delivered[k]
        BY <1>2, <4>2, Zenon DEF Returned
      <4> QED
        BY <2>11, <4>1, <4>2, Zenon
    <3>2. ASSUME NEW j \in DOMAIN delivered', NEW k \in DOMAIN delivered', j < k
          PROVE  delivered'[j][1][1] < delivered'[k][1][1]
      <4>1. j \in DOMAIN delivered /\ delivered'[j] = delivered[j]
        BY <2>10, <3>2
      <4>2. CASE k = m + 1 /\ delivered'[k] = s
        BY <2>9, <4>1, <4>2, Zenon DEF d
      <4>3. CASE k \in DOMAIN delivered /\ delivered'[k] = delivered[k]
        BY <1>2, <3>2, <4>1, <4>3, Zenon DEF Returned
      <4> QED
        BY <2>11, <4>2, <4>3, Zenon
    <3> QED
      BY <1>1, <3>1, <3>2, Zenon DEF Returned
  <2> QED
    BY <2>4, <2>8, <2>12, <2>13 DEF Live
<1> QED
  BY <1>13, <1>14

\* The invariant is inductive.
LEMMA NextIntact == StreamTypes /\ IntactInv /\ [Next]_vars => IntactInv'
<1> SUFFICES ASSUME StreamTypes, IntactInv, [Next]_vars PROVE IntactInv'
  BY Zenon
<1> USE DEF sender, windows, receiver
<1>1. ASSUME WriteClosed PROVE IntactInv'
  BY <1>1, Zenon DEF WriteClosed, Fail, IntactInv, Returned
<1>2. ASSUME Reserve \/ Block \/ Wake \/ WriteDeadline PROVE IntactInv'
  <2>1. UNCHANGED <<next, rest, data, pipe, got, delivered, fired>> /\ (~closed' => ~closed)
    <3>1. CASE Reserve
      BY <3>1, Zenon DEF Reserve
    <3>2. CASE Block \/ Wake \/ WriteDeadline
      BY <3>2 DEF Block, Wake, WriteDeadline
    <3> QED
      BY <1>2, <3>1, <3>2
  <2> QED
    BY <2>1, StillIntact
<1>3. ASSUME SenderReadLoop \/ BodyRead \/ Close PROVE IntactInv'
  <2>1. UNCHANGED <<next, rest, data, pipe, got, delivered, fired>> /\ (~closed' => ~closed)
    <3>1. CASE HandleWindowUpdate
      BY <3>1 DEF HandleWindowUpdate
    <3>2. CASE HandleSettings
      BY <3>2 DEF HandleSettings
    <3>3. CASE SignalSettings
      BY <3>3 DEF SignalSettings
    <3>4. CASE HandleBody
      BY <3>4 DEF HandleBody
    <3>5. CASE BodyRead
      BY <3>5 DEF BodyRead
    <3>6. CASE Close
      BY <3>6 DEF Close
    <3> QED
      BY <1>3, <3>1, <3>2, <3>3, <3>4, <3>5, <3>6 DEF SenderReadLoop
  <2> QED
    BY <2>1, StillIntact
<1>4. ASSUME CreditConn \/ CreditStream \/ SendOther PROVE IntactInv'
  <2>1. UNCHANGED <<next, rest, data, pipe, got, delivered, fired>> /\ (~closed' => ~closed)
    BY <1>4, ZenonT(40) DEF CreditConn, CreditStream, SendOther
  <2> QED
    BY <2>1, StillIntact
<1>5. ASSUME UNCHANGED vars PROVE IntactInv'
  <2>1. UNCHANGED <<next, rest, data, pipe, got, delivered, fired>> /\ (~closed' => ~closed)
    BY <1>5 DEF vars
  <2> QED
    BY <2>1, StillIntact
<1> QED
  BY <1>1, <1>2, <1>3, <1>4, <1>5, SendIntact, TimeoutIntact, WriteIntact, ReadIntact, ReceiveIntact, Zenon
  DEF Next, Writer, ReceiverReadLoop, Finished

-----------------------------------------------------------------------------
(* The carrier.                                                            *)
-----------------------------------------------------------------------------
\* The types of the stream are those of its module.
LEMMA StreamTyped == StreamTypes => TypeOK
<1> SUFFICES ASSUME StreamTypes PROVE TypeOK
  OBVIOUS
<1>1. Seq(Real) \subseteq Seq(Units)
  <2>1. Real \subseteq Units
    BY DEF Real
  <2> SUFFICES ASSUME NEW s \in Seq(Real) PROVE s \in Seq(Units)
    OBVIOUS
  <2> QED
    BY <2>1
<1>2. Seq(Seq(Real)) \subseteq Seq(Seq(Units))
  <2> SUFFICES ASSUME NEW s \in Seq(Seq(Real)) PROVE s \in Seq(Seq(Units))
    OBVIOUS
  <2>1. \A i \in 1..Len(s) : s[i] \in Seq(Units)
    BY <1>1
  <2> QED
    BY <2>1
<1>3. token \in BOOLEAN /\ sread \in {"read", "signal", "pipe"} /\ closed \in BOOLEAN
  BY Zenon DEF StreamTypes, StreamFlags
<1>4. due.conn \in Nat /\ due.stream \in Nat
  BY DEF StreamTypes, ReceiverTypes
<1>5. /\ rest \in Seq(Units) /\ pipe \in Seq(Units) /\ got \in Seq(Units)
      /\ data \in Seq(Seq(Units)) /\ delivered \in Seq(Seq(Units))
  BY <1>1, <1>2, Zenon DEF StreamTypes, SenderTypes, WireTypes, ReceiverTypes
<1> QED
  BY <1>3, <1>4, <1>5, Zenon DEF StreamTypes, SenderTypes, WireTypes, TypeOK

\* The invariant of the carrier, from the dial to the last datagram.
CarrierInv == DialInv /\ StreamTypes /\ CreditInv /\ IntactInv

\* In every reachable state of a carrier the invariant holds.
THEOREM CarrierInvariance == ClientSpec => []CarrierInv
<1>1. ClientInit => CarrierInv
  BY InitDial, InitTypes, InitCredit, InitIntact DEF ClientInit, CarrierInv
<1>2. CarrierInv /\ [ClientNext]_allVars => CarrierInv'
  <2> SUFFICES ASSUME CarrierInv, [ClientNext]_allVars PROVE CarrierInv'
    OBVIOUS
  <2>1. [Next]_vars
    BY DEF ClientNext, DialStep, Use, StreamStep, InStream, allVars
  <2>2. StreamTypes'
    BY <2>1, NextTypes DEF CarrierInv
  <2> QED
    BY <2>1, <2>2, NextDial, NextCredit, NextIntact DEF CarrierInv
<1> QED
  BY <1>1, <1>2, PTL DEF ClientSpec

\* However the peer's frames, the context and the connection race, a dial that
\* fails has closed what it opened, and only a peer whose first SETTINGS allowed
\* extended CONNECT is sent a request.
THEOREM DialCloses == ClientSpec => []FailedDialClosed
<1>1. CarrierInv => FailedDialClosed
  BY DialPromise DEF CarrierInv
<1> QED
  BY <1>1, CarrierInvariance, PTL

\* Flow control neither loses nor makes credit, for every window, frame size and
\* sequence of SETTINGS.
THEOREM CreditKept == ClientSpec => []CreditConserved
<1>1. CarrierInv => CreditConserved
  BY StreamTyped DEF CarrierInv, CreditInv, CreditConserved
<1> QED
  BY <1>1, CarrierInvariance, PTL

\* Datagrams of every number and size arrive whole and in order, however they are
\* cut into frames, unless a write was cut off in the middle of a capsule.
THEOREM DatagramsWhole == ClientSpec => []DatagramsIntact
<1>1. CarrierInv => DatagramsIntact
  BY Intact DEF CarrierInv
<1> QED
  BY <1>1, CarrierInvariance, PTL
=============================================================================
