------------------------- MODULE MasqueServerProofs -------------------------
(***************************************************************************)
(* Theorems about the serving side: about MasqueServer for every set of    *)
(* callers and of keys, and about TailcatServe for every set of clients,   *)
(* of lists, of destinations and of ports, and every length of the input.  *)
(***************************************************************************)
EXTENDS MasqueServe, SequenceLemmas, TLAPS

\* The policy of a core that was given the keys added so far.
InForce == policy = IF allowed = {} THEN None ELSE allowed

\* The endpoints that are up are the ones configured.
AsConfigured ==
  /\ "h3" \in fields <=> conf.direct # "unset"
  /\ "relay" \in fields <=> conf.relay # "unset"

\* Between Start and Close, with s.mu free.
Settled ==
  step = Idle =>
    /\ open = fields
    /\ IF "core" \in fields
       THEN InForce /\ AsConfigured /\ Encodes(conf) /\ blob = Encode(conf)
       ELSE fields = {} /\ blob = NoBlob

\* What each step of Start finds: a core with the keys added so far, parts that
\* fields refer to but for the socket, and a configuration that passed the checks.
Starting ==
  /\ step = Up("core") => fields = {} /\ open = {} /\ blob = NoBlob /\ Endpoints(conf)
  /\ step \in {Up(x) : x \in {"udp", "addr", "h2", "h3", "relay", "blob"}} =>
       "core" \in fields /\ InForce /\ blob = NoBlob
  /\ step = Up("udp") => open = fields /\ fields = {"core"} /\ conf.direct # "unset"
  /\ step \in {Up("addr"), Up("h2")} =>
       open = {"core", "udp"} /\ fields = {"core"} /\ conf.direct # "unset"
  /\ step = Up("h3") =>
       /\ open = fields \cup {"udp"} /\ fields \subseteq {"core", "h2"} /\ conf.direct # "unset"
  /\ step = Up("relay") =>
       /\ open = fields /\ "relay" \notin fields /\ conf.relay # "unset"
       /\ "h3" \in fields <=> conf.direct # "unset"
  /\ step = Up("blob") => open = fields /\ AsConfigured

\* What cleanup or Close has not taken down yet, the core last.
Stopping ==
  /\ step \in {Stop(p) : p \in Parts} => open = fields /\ ("core" \in fields \/ fields = {})
  /\ step = Stop("h2") => "h3" \notin fields
  /\ step = Stop("udp") => fields \cap {"h3", "h2"} = {}
  /\ step = Stop("relay") => fields \subseteq {"relay", "core"}
  /\ step = Stop("core") => fields \subseteq {"core"}

ServerInv == TypeOK /\ Settled /\ Starting /\ Stopping

\* The fields of a token whose tag is t, as ConnBlob writes them.
LEMMA TagValue ==
  ASSUME NEW t, NEW v, NEW zero
  PROVE  LET S == {<<t, u>> : u \in {v} \ {zero}}
         IN  (\A f \in S : f[1] = t /\ f[2] = v) /\ (v = zero \/ \E f \in S : f[1] = t)
<1> DEFINE S == {<<t, u>> : u \in {v} \ {zero}}
<1>1. \A f \in S : f[1] = t /\ f[2] = v
  OBVIOUS
<1>2. ASSUME v # zero PROVE \E f \in S : f[1] = t
  <2>1. <<t, v>> \in S
    BY <1>2
  <2> QED
    BY <2>1, <1>1, Zenon
<1> QED
  BY <1>1, <1>2

\* ParseMasqueConnBlob reads back what ConnBlob wrote: the fields that were left
\* out have their zero values.
LEMMA RoundTrip ==
  ASSUME NEW c \in Configs, Encodes(c)
  PROVE  /\ Decode(Encode(c)).direct = c.direct
         /\ Decode(Encode(c)).relay = c.relay
         /\ Decode(Encode(c)).automatic = c.automatic
         /\ Parses(Encode(c))
         /\ Encode(c) # NoBlob
<1> DEFINE F == Encode(c).fields
           D == {<<"p", u>> : u \in {c.direct} \ {"unset"}}
           R == {<<"r", u>> : u \in {c.relay} \ {"unset"}}
           A == {<<"a", b>> : b \in {c.automatic} \ {FALSE}}
<1>1. F = D \cup R \cup A
  BY DEF Encode
<1>2. (\A f \in D : f[1] = "p" /\ f[2] = c.direct) /\ (c.direct = "unset" \/ \E f \in D : f[1] = "p")
  BY TagValue, Zenon
<1>3. (\A f \in R : f[1] = "r" /\ f[2] = c.relay) /\ (c.relay = "unset" \/ \E f \in R : f[1] = "r")
  BY TagValue, Zenon
<1>4. (\A f \in A : f[1] = "a" /\ f[2] = c.automatic) /\ (c.automatic = FALSE \/ \E f \in A : f[1] = "a")
  BY TagValue, Zenon
<1> HIDE DEF F, D, R, A
<1>5. \A f \in F : /\ f[1] = "p" => f[2] = c.direct
                   /\ f[1] = "r" => f[2] = c.relay
                   /\ f[1] = "a" => f[2] = c.automatic
  BY <1>1, <1>2, <1>3, <1>4
<1>6. Field(Encode(c), "p", "unset") = c.direct
  <2>1. \A f \in Encode(c).fields : f[1] = "p" => f[2] = c.direct
    BY <1>5, Zenon DEF F
  <2>2. c.direct = "unset" \/ \E f \in Encode(c).fields : f[1] = "p"
    BY <1>1, <1>2, Zenon DEF F
  <2> QED
    BY <2>1, <2>2, Zenon DEF Field
<1>7. Field(Encode(c), "r", "unset") = c.relay
  <2>1. \A f \in Encode(c).fields : f[1] = "r" => f[2] = c.relay
    BY <1>5, Zenon DEF F
  <2>2. c.relay = "unset" \/ \E f \in Encode(c).fields : f[1] = "r"
    BY <1>1, <1>3, Zenon DEF F
  <2> QED
    BY <2>1, <2>2, Zenon DEF Field
<1>8. Field(Encode(c), "a", FALSE) = c.automatic
  <2>1. \A f \in Encode(c).fields : f[1] = "a" => f[2] = c.automatic
    BY <1>5, Zenon DEF F
  <2>2. c.automatic = FALSE \/ \E f \in Encode(c).fields : f[1] = "a"
    BY <1>1, <1>4, Zenon DEF F
  <2> QED
    BY <2>1, <2>2, Zenon DEF Field
<1>9. /\ Decode(Encode(c)).direct = c.direct
      /\ Decode(Encode(c)).relay = c.relay
      /\ Decode(Encode(c)).automatic = c.automatic
  BY <1>6, <1>7, <1>8, Zenon DEF Decode
<1>10. validate(Decode(Encode(c)))
  BY <1>9 DEF Encodes, validate, Endpoints
<1>11. Encode(c).prefix = "mc"
  BY DEF Encode
<1> QED
  BY <1>9, <1>10, <1>11 DEF Parses, NoBlob

\* The steps of a start and of a close are told apart by their names.
LEMMA Steps ==
  /\ \A x, y : Up(x) = Up(y) <=> x = y
  /\ \A x, y : Stop(x) = Stop(y) <=> x = y
  /\ \A x, y : Up(x) # Stop(y)
  /\ \A x : Up(x) # Idle /\ Stop(x) # Idle
BY DEF Up, Stop, Idle

\* A new server satisfies the invariant.
LEMMA InitServer == Init => ServerInv
<1> SUFFICES ASSUME Init PROVE ServerInv
  OBVIOUS
<1>1. conf \in Configs
  BY DEF Init, Configs, URLs
<1>2. (step = Idle) = (mu = None)
  BY Zenon DEF Init
<1>3. /\ step = Idle /\ open = {} /\ fields = {} /\ closing = {} /\ mu = None
      /\ blob = NoBlob /\ allowed \in SUBSET Keys /\ policy = None
  BY DEF Init
<1>4. TypeOK
  BY <1>1, <1>2, <1>3 DEF TypeOK
<1>5. Settled /\ Starting /\ Stopping
  BY Steps DEF Init, Settled, Starting, Stopping
<1> QED
  BY <1>4, <1>5 DEF ServerInv

\* The invariant is inductive: no step of Start, none of its failures, no Close
\* and no new key breaks it.
LEMMA NextServer == ServerInv /\ [Next]_vars => ServerInv'
<1> SUFFICES ASSUME ServerInv, [Next]_vars PROVE ServerInv'
  OBVIOUS
<1> USE MasqueServerAssumption, Steps DEF ServerInv
<1>1. ASSUME NEW a \in Callers, StartBegin(a) PROVE ServerInv'
  <2>1. TypeOK'
    BY <1>1 DEF StartBegin, StartChecks, Endpoints, TypeOK, Parts, Carriers
  <2>2. Settled'
    BY <1>1 DEF StartBegin, StartChecks, Endpoints, TypeOK, Settled, Starting, Stopping, InForce, AsConfigured
  <2>3. Starting'
    BY <1>1 DEF StartBegin, StartChecks, Endpoints, TypeOK, Settled, Starting, InForce, AsConfigured
  <2>4. Stopping'
    BY <1>1 DEF StartBegin, StartChecks, Endpoints, TypeOK, Settled, Starting, Stopping, Parts, Carriers
  <2> QED
    BY <2>1, <2>2, <2>3, <2>4
<1>2. ASSUME NEW a \in Callers, CloseCall(a) PROVE ServerInv'
  <2>1. TypeOK'
    BY <1>2 DEF CloseCall, TypeOK, Parts, Carriers
  <2>2. Settled'
    BY <1>2 DEF CloseCall, TypeOK, Settled, Starting, Stopping, InForce, AsConfigured
  <2>3. Starting'
    BY <1>2 DEF CloseCall, TypeOK, Settled, Starting, InForce, AsConfigured
  <2>4. Stopping'
    BY <1>2 DEF CloseCall, TypeOK, Settled, Starting, Stopping, Parts, Carriers
  <2> QED
    BY <2>1, <2>2, <2>3, <2>4
<1>3. ASSUME NEW a \in Callers, CloseBegin(a) PROVE ServerInv'
  <2>1. TypeOK'
    BY <1>3 DEF CloseBegin, TypeOK, Parts, Carriers
  <2>2. Settled'
    BY <1>3 DEF CloseBegin, TypeOK, Settled, Starting, Stopping, InForce, AsConfigured
  <2>3. Starting'
    BY <1>3 DEF CloseBegin, TypeOK, Settled, Starting, InForce, AsConfigured
  <2>4. Stopping'
    BY <1>3 DEF CloseBegin, TypeOK, Settled, Starting, Stopping, Parts, Carriers
  <2> QED
    BY <2>1, <2>2, <2>3, <2>4
<1>4. ASSUME NewCore PROVE ServerInv'
  <2>1. policy' \in (SUBSET Keys) \cup {None}
    BY <1>4 DEF NewCore, TypeOK
  <2>2. step' \in {Up("udp"), Up("relay")} /\ mu # None /\ mu' = mu
    BY <1>4 DEF NewCore, TypeOK
  <2>3. TypeOK'
    BY <1>4, <2>1, <2>2 DEF NewCore, TypeOK, Parts, Carriers
  <2>4. InForce' /\ fields' = {"core"} /\ open' = {"core"} /\ blob' = NoBlob
    BY <1>4 DEF NewCore, Starting, InForce
  <2>5. step' = Up("udp") => conf'.direct # "unset"
    BY <1>4 DEF NewCore
  <2>6. step' = Up("relay") => conf'.relay # "unset" /\ conf'.direct = "unset"
    BY <1>4 DEF NewCore, Starting, Endpoints
  <2>7. Settled' /\ Starting' /\ Stopping'
    BY <2>2, <2>4, <2>5, <2>6 DEF Settled, Starting, Stopping
  <2> QED
    BY <2>3, <2>7
<1>5. ASSUME NewCoreFail PROVE ServerInv'
  <2>1. TypeOK'
    BY <1>5 DEF NewCoreFail, TypeOK, Parts, Carriers
  <2>2. Settled'
    BY <1>5 DEF NewCoreFail, TypeOK, Settled, Starting, Stopping, InForce, AsConfigured
  <2>3. Starting'
    BY <1>5 DEF NewCoreFail, TypeOK, Settled, Starting, InForce, AsConfigured
  <2>4. Stopping'
    BY <1>5 DEF NewCoreFail, TypeOK, Settled, Starting, Stopping, Parts, Carriers
  <2> QED
    BY <2>1, <2>2, <2>3, <2>4
<1>6. ASSUME ListenUDP PROVE ServerInv'
  <2>1. TypeOK'
    BY <1>6 DEF ListenUDP, TypeOK, Parts, Carriers
  <2>2. Settled'
    BY <1>6 DEF ListenUDP, TypeOK, Settled, Starting, Stopping, InForce, AsConfigured
  <2>3. Starting'
    BY <1>6 DEF ListenUDP, TypeOK, Settled, Starting, InForce, AsConfigured
  <2>4. Stopping'
    BY <1>6 DEF ListenUDP, TypeOK, Settled, Starting, Stopping, Parts, Carriers
  <2> QED
    BY <2>1, <2>2, <2>3, <2>4
<1>7. ASSUME CompanionAddr PROVE ServerInv'
  <2>1. TypeOK'
    BY <1>7 DEF CompanionAddr, TypeOK, Parts, Carriers
  <2>2. Settled'
    BY <1>7 DEF CompanionAddr, TypeOK, Settled, Starting, Stopping, InForce, AsConfigured
  <2>3. Starting'
    BY <1>7 DEF CompanionAddr, TypeOK, Settled, Starting, InForce, AsConfigured
  <2>4. Stopping'
    BY <1>7 DEF CompanionAddr, TypeOK, Settled, Starting, Stopping, Parts, Carriers
  <2> QED
    BY <2>1, <2>2, <2>3, <2>4
<1>8. ASSUME StartH2 PROVE ServerInv'
  <2>1. TypeOK'
    BY <1>8 DEF StartH2, TypeOK, Parts, Carriers
  <2>2. Settled'
    BY <1>8 DEF StartH2, TypeOK, Settled, Starting, Stopping, InForce, AsConfigured
  <2>3. Starting'
    BY <1>8 DEF StartH2, TypeOK, Settled, Starting, InForce, AsConfigured
  <2>4. Stopping'
    BY <1>8 DEF StartH2, TypeOK, Settled, Starting, Stopping, Parts, Carriers
  <2> QED
    BY <2>1, <2>2, <2>3, <2>4
<1>9. ASSUME ServeH3 PROVE ServerInv'
  <2>1. TypeOK'
    BY <1>9 DEF ServeH3, TypeOK, Parts, Carriers
  <2>2. Settled'
    BY <1>9 DEF ServeH3, TypeOK, Settled, Starting, Stopping, InForce, AsConfigured
  <2>3. Starting'
    BY <1>9 DEF ServeH3, TypeOK, Settled, Starting, InForce, AsConfigured
  <2>4. Stopping'
    BY <1>9 DEF ServeH3, TypeOK, Settled, Starting, Stopping, Parts, Carriers
  <2> QED
    BY <2>1, <2>2, <2>3, <2>4
<1>10. ASSUME DialRelay PROVE ServerInv'
  <2>1. TypeOK'
    BY <1>10 DEF DialRelay, TypeOK, Parts, Carriers
  <2>2. Settled'
    BY <1>10 DEF DialRelay, TypeOK, Settled, Starting, Stopping, InForce, AsConfigured
  <2>3. Starting'
    BY <1>10 DEF DialRelay, TypeOK, Settled, Starting, InForce, AsConfigured
  <2>4. Stopping'
    BY <1>10 DEF DialRelay, TypeOK, Settled, Starting, Stopping, Parts, Carriers
  <2> QED
    BY <2>1, <2>2, <2>3, <2>4
<1>11. ASSUME StartFail PROVE ServerInv'
  <2>1. TypeOK'
    BY <1>11 DEF StartFail, TypeOK, Parts, Carriers
  <2>2. Settled'
    BY <1>11 DEF StartFail, TypeOK, Settled, Starting, Stopping, InForce, AsConfigured
  <2>3. Starting'
    BY <1>11 DEF StartFail, TypeOK, Settled, Starting, InForce, AsConfigured
  <2>4. Stopping'
    BY <1>11 DEF StartFail, TypeOK, Settled, Starting, Stopping, Parts, Carriers
  <2> QED
    BY <2>1, <2>2, <2>3, <2>4
<1>12. ASSUME MakeBlob PROVE ServerInv'
  <2>1. blob' = Encode(conf) /\ Parses(Encode(conf))
    BY <1>12, RoundTrip DEF MakeBlob, TypeOK
  <2>2. TypeOK'
    BY <1>12, <2>1 DEF MakeBlob, TypeOK, Parts, Carriers
  <2>3. Settled' /\ Starting' /\ Stopping'
    BY <1>12 DEF MakeBlob, Settled, Starting, Stopping, InForce, AsConfigured
  <2> QED
    BY <2>2, <2>3
<1>13. ASSUME NEW p \in Parts, StopPart(p) PROVE ServerInv'
  <2>1. open = fields /\ ("core" \in fields \/ fields = {}) /\ mu \in Callers
    BY <1>13 DEF StopPart, TypeOK, Stopping
  <2>2. open' = fields' /\ fields' = fields \ {p}
    BY <1>13, <2>1 DEF StopPart
  <2>3. CASE p = "core"
    <3>1. step' = Idle /\ mu' = None /\ fields' = {} /\ blob' = NoBlob /\ policy' = None
      BY <1>13, <2>3 DEF StopPart, Stopping, After
    <3>2. TypeOK'
      BY <1>13, <2>2, <3>1 DEF StopPart, TypeOK
    <3>3. Settled' /\ Starting' /\ Stopping'
      BY <2>2, <3>1 DEF Settled, Starting, Stopping
    <3> QED
      BY <3>2, <3>3
  <2>4. CASE p # "core"
    <3>1. /\ UNCHANGED <<conf, mu, blob, allowed, policy, closing>>
          /\ step' = After(p) /\ step = Stop(p)
      BY <1>13, <2>4 DEF StopPart
    <3>2. \/ p = "h3" /\ step' = Stop("h2")
          \/ p = "h2" /\ step' = Stop("udp")
          \/ p = "udp" /\ step' = Stop("relay")
          \/ p = "relay" /\ step' = Stop("core")
      BY <2>4, <3>1 DEF After, Parts, Carriers
    <3>3. TypeOK'
      BY <2>1, <2>2, <3>1, <3>2 DEF TypeOK, Parts, Carriers
    <3>4. Settled' /\ Starting'
      BY <3>2 DEF Settled, Starting
    <3>5. Stopping'
      BY <2>1, <2>2, <3>1, <3>2 DEF TypeOK, Stopping, Parts, Carriers
    <3> QED
      BY <3>3, <3>4, <3>5
  <2> QED
    BY <2>3, <2>4
<1>14. ASSUME NEW k \in Keys, AddAllowedClient(k) PROVE ServerInv'
  <2>1. policy' \in (SUBSET Keys) \cup {None}
    BY <1>14 DEF AddAllowedClient, TypeOK
  <2>2. TypeOK'
    BY <1>14, <2>1 DEF AddAllowedClient, TypeOK
  <2>3. step = Idle /\ UNCHANGED <<conf, step, open, fields, blob>>
    BY <1>14 DEF AddAllowedClient, TypeOK
  <2>4. ASSUME "core" \in fields PROVE InForce'
    <3>1. InForce
      BY <2>3, <2>4 DEF Settled
    <3>2. allowed' = allowed \cup {k} /\ allowed \in SUBSET Keys
          /\ policy' = IF policy = None THEN {k} ELSE policy \cup {k}
      BY <1>14, <2>4 DEF AddAllowedClient, TypeOK
    <3>3. CASE allowed = {}
      BY <3>1, <3>2, <3>3 DEF InForce
    <3>4. CASE allowed # {}
      BY <3>1, <3>2, <3>4 DEF InForce
    <3> QED
      BY <3>3, <3>4
  <2>5. Settled'
    BY <2>3, <2>4 DEF Settled, AsConfigured
  <2>6. Starting' /\ Stopping'
    BY <2>3 DEF Starting, Stopping
  <2> QED
    BY <2>2, <2>5, <2>6
<1>15. CASE UNCHANGED vars
  BY <1>15 DEF vars, TypeOK, Settled, Starting, Stopping, InForce, AsConfigured
<1> QED
  BY <1>1, <1>2, <1>3, <1>4, <1>5, <1>6, <1>7, <1>8, <1>9, <1>10, <1>11, <1>12, <1>13, <1>14, <1>15
     DEF Next, Start

\* Every reachable state of every server satisfies the invariant.
THEOREM ServerInvariance == Spec => []ServerInv
<1> QED
  BY InitServer, NextServer, PTL DEF Spec

\* Nothing leaks, whichever step of Start fails and whoever calls Close: with s.mu
\* free the open parts are those the fields refer to, and no carrier is open
\* without a core.
THEOREM NoLeak == Spec => []NothingLeaks
<1>1. ServerInv => NothingLeaks
  <2> SUFFICES ASSUME ServerInv PROVE NothingLeaks
    OBVIOUS
  <2>1. mu = None => open = fields /\ ("core" \notin fields => fields = {})
    BY DEF ServerInv, TypeOK, Settled
  <2>2. open \cap Carriers # {} => "core" \in open
    <3>1. CASE step = Idle
      BY <3>1 DEF ServerInv, Settled
    <3>2. CASE step \in {Up(x) : x \in Parts \cup {"addr", "blob"}}
      BY <3>2, Steps DEF ServerInv, Starting, Parts, Carriers
    <3>3. CASE step \in {Stop(p) : p \in Parts}
      BY <3>3 DEF ServerInv, Stopping
    <3> QED
      BY <3>1, <3>2, <3>3 DEF ServerInv, TypeOK
  <2> QED
    BY <2>1, <2>2 DEF ServerInv, NothingLeaks
<1> QED
  BY <1>1, ServerInvariance, PTL

\* A server that runs serves what its token says and its last Start configured,
\* and admits exactly the keys added so far, for any keys and callers.
THEOREM AsStarted == Spec => []RunsAsConfigured
<1>1. ServerInv => RunsAsConfigured
  <2> SUFFICES ASSUME ServerInv, mu = None
               PROVE  /\ BlobMeansReachable
                      /\ "core" \in fields => policy = IF allowed = {} THEN None ELSE allowed
    BY DEF RunsAsConfigured, BlobMeansReachable
  <2>1. step = Idle /\ conf \in Configs
    BY DEF ServerInv, TypeOK
  <2>2. CASE "core" \in fields
    <3>1. InForce /\ AsConfigured /\ Encodes(conf) /\ blob = Encode(conf)
      BY <2>1, <2>2 DEF ServerInv, Settled
    <3>2. /\ Decode(blob).direct = conf.direct /\ Decode(blob).relay = conf.relay
          /\ Decode(blob).automatic = conf.automatic /\ Parses(blob) /\ blob # NoBlob
      BY <2>1, <3>1, RoundTrip
    <3>3. BlobMeansReachable
      BY <2>2, <3>1, <3>2 DEF BlobMeansReachable, AsConfigured
    <3> QED
      BY <3>1, <3>3 DEF InForce
  <2>3. CASE "core" \notin fields
    <3>1. blob = NoBlob
      BY <2>1, <2>3 DEF ServerInv, Settled
    <3> QED
      BY <2>3, <3>1 DEF BlobMeansReachable
  <2> QED
    BY <2>2, <2>3
<1> QED
  BY <1>1, ServerInvariance, PTL

(***************************************************************************)
(* The command's handlers.                                                 *)
(***************************************************************************)

Ports == 0 .. MaxPort
Ascending(s) == \A i \in 1 .. Len(s) - 1 : s[i] < s[i + 1]

\* The ports of S below i in order.
InOrderBelow(s, S, i) ==
  /\ s \in Seq(Ports) /\ Ascending(s) /\ \A j \in 1 .. Len(s) : s[j] < i
  /\ \A p \in S : p < i => \E j \in 1 .. Len(s) : s[j] = p

\* The value of the loop that sorts a set of ports.
Sorting(g, S) ==
  g = [i \in 0 .. MaxPort + 1 |->
         IF i = 0 THEN <<>> ELSE IF i - 1 \in S THEN Append(g[i - 1], i - 1) ELSE g[i - 1]]

\* slices.Sorted returns every port of a set of ports, in order.
LEMMA SortedIs ==
  ASSUME NEW S, S \subseteq Ports
  PROVE  /\ SortedPorts(S) \in Seq(Ports) /\ Ascending(SortedPorts(S))
         /\ \A p \in S : \E i \in 1 .. Len(SortedPorts(S)) : SortedPorts(S)[i] = p
<1> DEFINE n == MaxPort + 1
           A == Seq(Nat)
           F == [x \in A \X (1 .. n) |-> IF x[2] - 1 \in S THEN Append(x[1], x[2] - 1) ELSE x[1]]
           g == CHOOSE f : Sorting(f, S)
<1>1. n \in Nat /\ n >= 1 /\ MaxPort \in Nat
  BY ServeAssumption
<1>2. F \in [A \X (1 .. n) -> A] /\ <<>> \in A
  <2>1. ASSUME NEW x \in A \X (1 .. n) PROVE F[x] \in A
    <3>1. x[1] \in A /\ x[2] - 1 \in Nat
      BY <1>1
    <3> QED
      BY <3>1
  <2> QED
    BY <2>1
<1> HIDE DEF n, A
<1>3. PICK w \in [0 .. n -> A] : Loops(w, n, <<>>, F)
  <2> HIDE DEF F
  <2> QED
    BY <1>1, <1>2, LoopExists, Zenon
<1>4. /\ w[0] = <<>>
      /\ \A i \in 1 .. n : w[i] = IF i - 1 \in S THEN Append(w[i - 1], i - 1) ELSE w[i - 1]
  <2>1. w[0] = <<>> /\ \A i \in 1 .. n : w[i] = F[<<w[i - 1], i>>]
    BY <1>3, Zenon DEF Loops
  <2>2. ASSUME NEW i \in 1 .. n
        PROVE  F[<<w[i - 1], i>>] = IF i - 1 \in S THEN Append(w[i - 1], i - 1) ELSE w[i - 1]
    <3>1. w[i - 1] \in A
      BY <1>1, <1>3
    <3> QED
      BY <3>1
  <2> QED
    BY <2>1, <2>2, Zenon
<1> HIDE DEF F
<1>5. Sorting(w, S)
  <2>1. w = [i \in 0 .. n |-> w[i]]
    BY <1>3
  <2>2. \A i \in 0 .. n : i # 0 => i \in 1 .. n
    BY <1>1
  <2>3. \A i \in 0 .. n : w[i] =
          IF i = 0 THEN <<>> ELSE IF i - 1 \in S THEN Append(w[i - 1], i - 1) ELSE w[i - 1]
    BY <1>4, <2>2, Zenon
  <2> QED
    BY <2>1, <2>3, Zenon DEF Sorting, n
<1>6. Sorting(g, S)
  BY <1>5
<1>7. SortedPorts(S) = g[n]
  BY DEF SortedPorts, Sorting, n
<1> HIDE DEF g
<1>8. /\ g[0] = <<>>
      /\ \A i \in 1 .. n : g[i] = IF i - 1 \in S THEN Append(g[i - 1], i - 1) ELSE g[i - 1]
  <2>1. \A i \in 0 .. n : g[i] =
          IF i = 0 THEN <<>> ELSE IF i - 1 \in S THEN Append(g[i - 1], i - 1) ELSE g[i - 1]
    BY <1>6, Zenon DEF Sorting, n
  <2>2. 0 \in 0 .. n /\ \A i \in 1 .. n : i \in 0 .. n /\ i # 0
    BY <1>1
  <2> QED
    BY <2>1, <2>2, Zenon
<1> DEFINE OK(i) == InOrderBelow(g[i], S, i)
           T == {i \in 0 .. n : OK(i)}
<1>9. 0 \in T
  <2>1. g[0] \in Seq(Ports) /\ Len(g[0]) = 0 /\ \A p \in S : ~(p < 0)
    BY <1>8 DEF Ports
  <2> QED
    BY <1>1, <2>1 DEF Ascending, InOrderBelow
<1>10. ASSUME NEW i \in 1 .. n, i - 1 \in T PROVE i \in T
  <2> DEFINE s == g[i - 1]
             t == g[i]
             k == Len(s)
  <2>0. Ports \subseteq Nat
    BY <1>1 DEF Ports
  <2>1. /\ s \in Seq(Ports) /\ Ascending(s) /\ \A j \in 1 .. k : s[j] < i - 1
        /\ \A p \in S : p < i - 1 => \E j \in 1 .. k : s[j] = p
    BY <1>10 DEF InOrderBelow
  <2>2. t = IF i - 1 \in S THEN Append(s, i - 1) ELSE s
    BY <1>8
  <2>3. i - 1 \in Nat /\ i \in 0 .. n /\ k \in Nat /\ \A p \in S : p \in Nat /\ (p < i <=> p < i - 1 \/ p = i - 1)
    BY <1>1, <2>1 DEF Ports
  <2> HIDE DEF s, t
  <2>4. s \in Seq(Ports)
    BY <2>1
  <2>5. \A j \in 1 .. k : s[j] \in Ports
    BY <2>4
  <2>6. \A j \in 1 .. k : s[j] \in Nat
    BY <2>0, <2>5, Zenon
  <2>7. CASE i - 1 \notin S
    <3>1. t = s /\ \A p \in S : p < i => p < i - 1
      BY <2>2, <2>3, <2>7
    <3>2. \A j \in 1 .. k : s[j] < i
      BY <2>1, <2>3, <2>6
    <3>3. OK(i)
      <4>1. InOrderBelow(s, S, i)
        BY <2>1, <3>1, <3>2 DEF InOrderBelow
      <4> QED
        BY <3>1, <4>1 DEF t
    <3> QED
      BY <2>3, <3>3
  <2>8. CASE i - 1 \in S
    <3>1. i - 1 \in Ports /\ t = Append(s, i - 1)
      BY <2>2, <2>8
    <3>2. /\ t \in Seq(Ports) /\ Len(t) = k + 1 /\ t[k + 1] = i - 1
          /\ \A j \in 1 .. k : t[j] = s[j]
      BY <2>1, <3>1, Appended
    <3>3. \A j \in 1 .. Len(t) : t[j] < i
      <4>1. ASSUME NEW j \in 1 .. k + 1 PROVE t[j] < i
        <5>1. j = k + 1 \/ j \in 1 .. k
          BY <2>3
        <5> QED
          BY <2>1, <2>3, <3>2, <2>6, <5>1
      <4> QED
        BY <3>2, <4>1
    <3>4. Ascending(t)
      <4>1. ASSUME NEW j \in 1 .. k PROVE t[j] < t[j + 1]
        <5>1. CASE j = k
          BY <2>1, <3>2, <5>1
        <5>2. CASE j # k
          <6>1. j \in 1 .. k - 1 /\ j + 1 \in 1 .. k
            BY <2>3, <5>2
          <6> QED
            BY <2>1, <3>2, <6>1 DEF Ascending
        <5> QED
          BY <5>1, <5>2
      <4> QED
        BY <2>3, <3>2, <4>1 DEF Ascending
    <3>5. ASSUME NEW p \in S, p < i PROVE \E j \in 1 .. Len(t) : t[j] = p
      <4>1. CASE p = i - 1
        BY <2>3, <3>2, <4>1
      <4>2. CASE p < i - 1
        <5>1. PICK j \in 1 .. k : s[j] = p
          BY <2>1, <4>2
        <5> QED
          BY <2>3, <3>2, <5>1
      <4> QED
        BY <2>3, <3>5, <4>1, <4>2
    <3>6. OK(i)
      BY <3>2, <3>3, <3>4, <3>5 DEF t, InOrderBelow
    <3> QED
      BY <2>3, <3>6
  <2> QED
    BY <2>7, <2>8
<1>11. \A i \in 0 .. n : i \in T
  <2> HIDE DEF T
  <2> QED
    BY <1>1, <1>9, <1>10, Upto, Zenon
<1>12. OK(n)
  BY <1>1, <1>11
<1>13. \A p \in S : p < n
  BY <1>1 DEF Ports, n
<1> QED
  BY <1>7, <1>12, <1>13 DEF InOrderBelow

Ranges == Seq(Ports \X Ports)

\* A range has port p.
Covered(r, p) == \E m \in 1 .. Len(r) : r[m][1] <= p /\ p <= r[m][2]

\* What a port adds to the ranges: it extends the last one or becomes a range of its own.
LEMMA NextRangeIs ==
  ASSUME NEW r \in Ranges, NEW p \in Ports
  PROVE  /\ NextRange(r, p) \in Ranges
         /\ \/ /\ Len(r) >= 1 /\ Len(NextRange(r, p)) = Len(r)
               /\ (r[Len(r)][2] + 1) % (MaxPort + 1) = p
               /\ NextRange(r, p)[Len(r)] = <<r[Len(r)][1], p>>
               /\ \A m \in 1 .. Len(r) - 1 : NextRange(r, p)[m] = r[m]
            \/ /\ Len(NextRange(r, p)) = Len(r) + 1
               /\ NextRange(r, p)[Len(r) + 1] = <<p, p>>
               /\ \A m \in 1 .. Len(r) : NextRange(r, p)[m] = r[m]
<1> DEFINE n == Len(r)
           B == Ports \X Ports
<1>1. r \in Seq(B) /\ n \in Nat
  BY DEF Ranges
<1>2. <<p, p>> \in B /\ \A m \in 1 .. n : <<r[m][1], p>> \in B
  BY <1>1
<1>3. CASE n > 0 /\ (r[n][2] + 1) % (MaxPort + 1) = p
  <2> DEFINE x == <<r[n][1], p>>
             q == [r EXCEPT ![n] = x]
  <2>1. NextRange(r, p) = q
    BY <1>3 DEF NextRange
  <2>2. n \in 1 .. n /\ x \in B
    BY <1>1, <1>2, <1>3
  <2> HIDE DEF B, x
  <2>3. q \in Seq(B) /\ Len(q) = n /\ q[n] = x /\ \A m \in 1 .. n - 1 : q[m] = r[m]
    BY <1>1, <2>2
  <2>4. Ranges = Seq(B) /\ x = <<r[n][1], p>>
    BY DEF Ranges, B, x
  <2> HIDE DEF q
  <2> QED
    BY <1>1, <1>3, <2>1, <2>3, <2>4
<1>4. CASE ~(n > 0 /\ (r[n][2] + 1) % (MaxPort + 1) = p)
  <2>1. NextRange(r, p) = Append(r, <<p, p>>)
    BY <1>4 DEF NextRange
  <2>2. Ranges = Seq(B)
    BY DEF Ranges
  <2> HIDE DEF B
  <2>3. /\ Append(r, <<p, p>>) \in Seq(B) /\ Len(Append(r, <<p, p>>)) = n + 1
        /\ Append(r, <<p, p>>)[n + 1] = <<p, p>> /\ \A m \in 1 .. n : Append(r, <<p, p>>)[m] = r[m]
    BY <1>1, <1>2, Appended
  <2> QED
    BY <2>1, <2>2, <2>3
<1> QED
  BY <1>3, <1>4

\* Ranges of the first k ports of s.
RangesOf(r, s, k) ==
  /\ r \in Ranges /\ \A j \in 1 .. k : Covered(r, s[j])
  /\ IF k = 0 THEN Len(r) = 0
     ELSE Len(r) >= 1 /\ r[Len(r)][2] = s[k] /\ r[Len(r)][1] <= s[k]

\* A port does not uncover another: the port after the last one is 0, which does
\* not follow it in order.
LEMMA NextRangeCovers ==
  ASSUME NEW s \in Seq(Ports), NEW k \in 1 .. Len(s), NEW r, RangesOf(r, s, k - 1),
         k > 1 /\ s[k - 1] = MaxPort => s[k] # 0
  PROVE  RangesOf(NextRange(r, s[k]), s, k)
<1> DEFINE n == Len(r)
           p == s[k]
           q == NextRange(r, p)
<1>1. /\ p \in Ports /\ p \in Nat /\ MaxPort \in Nat /\ p <= MaxPort /\ k \in Nat
      /\ \A j \in 1 .. k : s[j] \in Nat
  <2>1. \A j \in 1 .. Len(s) : s[j] \in Ports
    OBVIOUS
  <2>2. MaxPort \in Nat /\ \A x \in Ports : x \in Nat /\ x <= MaxPort
    BY ServeAssumption DEF Ports
  <2>3. Len(s) \in Nat /\ k \in Nat /\ 1 .. k \subseteq 1 .. Len(s)
    OBVIOUS
  <2> QED
    BY <2>1, <2>2, <2>3, Zenon
<1>2. /\ r \in Ranges /\ n \in Nat /\ \A j \in 1 .. k - 1 : Covered(r, s[j])
      /\ IF k = 1 THEN n = 0 ELSE n >= 1 /\ r[n][2] = s[k - 1] /\ r[n][1] <= s[k - 1]
  BY <1>1 DEF RangesOf, Ranges
<1>3. \A m \in 1 .. n : r[m][1] \in Nat /\ r[m][2] \in Nat /\ r[m][2] <= MaxPort
  <2>1. \A m \in 1 .. n : r[m] \in Ports \X Ports
    BY <1>2 DEF Ranges
  <2> QED
    BY <1>1, <2>1 DEF Ports
<1>4. q \in Ranges
  BY <1>1, <1>2, NextRangeIs
<1>5. CASE /\ n >= 1 /\ Len(q) = n /\ (r[n][2] + 1) % (MaxPort + 1) = p
           /\ q[n] = <<r[n][1], p>> /\ \A m \in 1 .. n - 1 : q[m] = r[m]
  <2> HIDE DEF p, q, n
  <2>1. n \in 1 .. n /\ q[n][1] = r[n][1] /\ q[n][2] = p
    BY <1>2, <1>5
  <2>2. k > 1 /\ r[n][2] = s[k - 1] /\ r[n][1] <= s[k - 1] /\ s[k - 1] \in Nat
    BY <1>1, <1>2, <1>5
  <2>3. PICK a \in Nat, b \in Nat : a = r[n][1] /\ b = r[n][2] /\ b <= MaxPort
    BY <1>3, <2>1
  <2>4. p = b + 1 /\ a <= b
    <3>1. p \in Nat /\ MaxPort \in Nat /\ a <= b
      BY <1>1, <2>2, <2>3
    <3>2. (b + 1) % (MaxPort + 1) = p
      BY <1>5, <2>3
    <3>3. b # MaxPort
      <4>1. b = MaxPort => p = 0
        BY <3>1, <3>2
      <4> QED
        BY <2>2, <2>3, <4>1 DEF p
    <3>4. b + 1 \in 0 .. MaxPort
      BY <2>3, <3>1, <3>3
    <3>5. (b + 1) % (MaxPort + 1) = b + 1
      BY <3>1, <3>4
    <3> QED
      BY <3>1, <3>5, <3>2
  <2>5. ASSUME NEW j \in 1 .. k PROVE Covered(q, s[j])
    <3>1. CASE j = k
      <4>1. q[n][1] <= p /\ p <= q[n][2]
        <5>1. a <= b + 1 /\ b + 1 <= b + 1
          BY <2>3, <2>4
        <5> QED
          BY <2>1, <2>3, <2>4, <5>1, Zenon
      <4> QED
        BY <1>5, <2>1, <3>1, <4>1 DEF Covered, p
    <3>2. CASE j # k
      <4>1. PICK m \in 1 .. n : r[m][1] <= s[j] /\ s[j] <= r[m][2]
        <5>1. j \in 1 .. k - 1
          BY <1>1, <3>2
        <5> QED
          BY <1>2, <5>1 DEF Covered, n
      <4>2. CASE m = n
        <5>1. s[j] \in Nat
          BY <1>1
        <5>2. q[n][1] <= s[j] /\ s[j] <= q[n][2]
          BY <2>1, <2>3, <2>4, <4>1, <4>2, <5>1
        <5> QED
          BY <1>5, <2>1, <5>2 DEF Covered
      <4>3. CASE m # n
        <5>1. m \in 1 .. n - 1 /\ q[m] = r[m]
          BY <1>2, <1>5, <4>3
        <5> QED
          BY <1>5, <4>1, <5>1 DEF Covered
      <4> QED
        BY <4>2, <4>3
    <3> QED
      BY <3>1, <3>2
  <2>6. RangesOf(q, s, k)
    <3>1. Len(q) = n /\ n >= 1 /\ k # 0 /\ q[n][2] = s[k] /\ q[n][1] <= s[k]
      <4>1. Len(q) = n /\ n >= 1
        BY <1>5
      <4> QED
        BY <1>1, <2>1, <2>3, <2>4, <4>1 DEF p
    <3> QED
      BY <1>4, <2>5, <3>1 DEF RangesOf
  <2> QED
    BY <2>6 DEF q, p
<1>6. CASE /\ Len(q) = n + 1 /\ q[n + 1] = <<p, p>> /\ \A m \in 1 .. n : q[m] = r[m]
  <2> HIDE DEF p, q, n
  <2>1. q[n + 1][1] = p /\ q[n + 1][2] = p /\ n + 1 \in 1 .. n + 1
    BY <1>2, <1>6
  <2>2. ASSUME NEW j \in 1 .. k PROVE Covered(q, s[j])
    <3>1. CASE j = k
      BY <1>1, <1>6, <2>1, <3>1 DEF Covered, p
    <3>2. CASE j # k
      <4>1. PICK m \in 1 .. n : r[m][1] <= s[j] /\ s[j] <= r[m][2]
        <5>1. j \in 1 .. k - 1
          BY <1>1, <3>2
        <5> QED
          BY <1>2, <5>1, Zenon DEF Covered, n
      <4> QED
        <5>1. m \in 1 .. Len(q) /\ q[m] = r[m]
          BY <1>2, <1>6
        <5> QED
          BY <4>1, <5>1 DEF Covered
    <3> QED
      BY <3>1, <3>2
  <2>3. RangesOf(q, s, k)
    BY <1>1, <1>4, <1>6, <2>1, <2>2 DEF RangesOf, p
  <2> QED
    BY <2>3 DEF q, p
<1> QED
  BY <1>1, <1>2, <1>5, <1>6, NextRangeIs, Zenon

\* The value of the loop of portRanges.
Ranging(g, s) == g = [i \in 0 .. Len(s) |-> IF i = 0 THEN <<>> ELSE NextRange(g[i - 1], s[i])]

\* portRanges loses no port of a list in which 0 does not follow the last port.
LEMMA RangesCover ==
  ASSUME NEW s \in Seq(Ports), \A i \in 1 .. Len(s) - 1 : s[i] = MaxPort => s[i + 1] # 0
  PROVE  portRanges(s) \in Ranges /\ \A j \in 1 .. Len(s) : Covered(portRanges(s), s[j])
<1> DEFINE n == Len(s)
           F == [x \in Ranges \X (1 .. n) |-> NextRange(x[1], s[x[2]])]
           g == CHOOSE f : Ranging(f, s)
<1>1. n \in Nat /\ \A i \in 1 .. n : s[i] \in Ports
  OBVIOUS
<1>2. F \in [Ranges \X (1 .. n) -> Ranges] /\ <<>> \in Ranges
  <2>1. ASSUME NEW x \in Ranges \X (1 .. n) PROVE F[x] \in Ranges
    <3>1. x[1] \in Ranges /\ s[x[2]] \in Ports
      BY <1>1
    <3> QED
      BY <3>1, NextRangeIs
  <2>2. <<>> \in Ranges
    BY DEF Ranges
  <2> QED
    BY <2>1, <2>2
<1> HIDE DEF n
<1>3. PICK w \in [0 .. n -> Ranges] : Loops(w, n, <<>>, F)
  <2> HIDE DEF F
  <2> QED
    BY <1>1, <1>2, LoopExists, Zenon
<1>4. w[0] = <<>> /\ \A i \in 1 .. n : w[i] = NextRange(w[i - 1], s[i])
  <2>1. w[0] = <<>> /\ \A i \in 1 .. n : w[i] = F[<<w[i - 1], i>>]
    BY <1>3, Zenon DEF Loops
  <2>2. ASSUME NEW i \in 1 .. n PROVE F[<<w[i - 1], i>>] = NextRange(w[i - 1], s[i])
    <3>1. w[i - 1] \in Ranges
      BY <1>1, <1>3
    <3> QED
      BY <3>1
  <2> QED
    BY <2>1, <2>2, Zenon
<1> HIDE DEF F
<1>5. Ranging(w, s)
  <2>1. w = [i \in 0 .. n |-> w[i]]
    BY <1>3
  <2>2. \A i \in 0 .. n : i # 0 => i \in 1 .. n
    BY <1>1
  <2>3. \A i \in 0 .. n : w[i] = IF i = 0 THEN <<>> ELSE NextRange(w[i - 1], s[i])
    BY <1>4, <2>2, Zenon
  <2> QED
    BY <2>1, <2>3, Zenon DEF Ranging, n
<1>6. Ranging(g, s)
  BY <1>5
<1>7. portRanges(s) = g[n]
  BY DEF portRanges, Ranging, n
<1> HIDE DEF g
<1>8. g[0] = <<>> /\ \A i \in 1 .. n : g[i] = NextRange(g[i - 1], s[i])
  <2>1. \A i \in 0 .. n : g[i] = IF i = 0 THEN <<>> ELSE NextRange(g[i - 1], s[i])
    BY <1>6, Zenon DEF Ranging, n
  <2>2. 0 \in 0 .. n /\ \A i \in 1 .. n : i \in 0 .. n /\ i # 0
    BY <1>1
  <2> QED
    BY <2>1, <2>2, Zenon
<1> DEFINE T == {i \in 0 .. n : RangesOf(g[i], s, i)}
<1>9. 0 \in T
  BY <1>1, <1>2, <1>8 DEF RangesOf
<1>10. ASSUME NEW i \in 1 .. n, i - 1 \in T PROVE i \in T
  <2>1. RangesOf(g[i - 1], s, i - 1) /\ i \in 0 .. n
    BY <1>1, <1>10
  <2>2. i > 1 /\ s[i - 1] = MaxPort => s[i] # 0
    <3>1. i > 1 => i - 1 \in 1 .. Len(s) - 1 /\ (i - 1) + 1 = i
      BY <1>1 DEF n
    <3> QED
      BY <3>1
  <2>3. i \in 1 .. Len(s)
    BY DEF n
  <2>4. RangesOf(NextRange(g[i - 1], s[i]), s, i)
    BY <2>1, <2>2, <2>3, NextRangeCovers
  <2> QED
    BY <1>8, <2>1, <2>4
<1>11. \A i \in 0 .. n : i \in T
  <2> HIDE DEF T
  <2> QED
    BY <1>1, <1>9, <1>10, Upto, Zenon
<1>12. RangesOf(g[n], s, n)
  BY <1>1, <1>11
<1> QED
  BY <1>7, <1>12 DEF RangesOf, n

-----------------------------------------------------------------------------
\* The ports and services of a list that a user may give.
LEMMA ParsedIs ==
  ASSUME NEW s \in Specs
  PROVE  /\ parsePortSet(s).ports \subseteq Ports
         /\ \A p : p \in parsePortSet(s).ports <=>
              \E i \in s : \/ i.name = "range" /\ (p \in i.a .. i.b \/ p \in i.b .. i.a)
                           \/ i.name = "all" /\ p \in 1 .. MaxPort
         /\ \A x : x \in parsePortSet(s).services <=> x \notin {"range", "all"} /\ Service(x) \in s
         /\ OneShotStdout(parsePortSet(s)) <=> s = {}
<1> DEFINE pp == parsePortSet(s)
<1>1. /\ pp.ports = UNION {ItemPorts(i) : i \in s}
      /\ pp.services = {i.name : i \in s} \ {"range", "all"}
  BY DEF parsePortSet
<1> HIDE DEF pp
<1>2. /\ MaxPort \in Nat /\ MaxPort >= 1
      /\ \A i \in s : IF i.name = "range" THEN i.a \in 0 .. MaxPort /\ i.b \in 0 .. MaxPort
                      ELSE i = Service(i.name)
  BY ServeAssumption
<1>3. ASSUME NEW i \in s
      PROVE  /\ i.name = "range" => \A p : p \in ItemPorts(i) <=> (p \in i.a .. i.b \/ p \in i.b .. i.a)
             /\ i.name = "all" => ItemPorts(i) = 1 .. MaxPort
             /\ i.name \notin {"range", "all"} => ItemPorts(i) = {}
             /\ ItemPorts(i) \subseteq Ports
             /\ i.name \in {"range", "all"} => ItemPorts(i) # {}
  BY <1>2 DEF ItemPorts, Ports
<1>4. \A p : p \in pp.ports <=>
        \E i \in s : \/ i.name = "range" /\ (p \in i.a .. i.b \/ p \in i.b .. i.a)
                     \/ i.name = "all" /\ p \in 1 .. MaxPort
  BY <1>1, <1>3, ZenonT(40)
<1>5. \A x : x \in pp.services <=> x \notin {"range", "all"} /\ Service(x) \in s
  <2>1. \A x : Service(x).name = x
    BY DEF Service, Item
  <2> QED
    BY <1>1, <1>2, <2>1
<1>6. OneShotStdout(pp) <=> s = {}
  <2>1. ASSUME NEW i \in s PROVE pp.ports # {} \/ pp.services # {}
    BY <1>1, <1>3
  <2> QED
    BY <1>1, <2>1 DEF OneShotStdout
<1>7. pp.ports \subseteq Ports
  BY <1>1, <1>3
<1> QED
  BY <1>4, <1>5, <1>6, <1>7 DEF pp

\* The filter lets through every port that is listed, and the one of SSH when a
\* service runs over it.
LEMMA FilterLetsThrough ==
  ASSUME NEW s \in Specs, NEW port \in Ports,
         \/ port \in parsePortSet(s).ports
         \/ port = SSHPort /\ SSHServices(parsePortSet(s))
         \/ ExitNode(parsePortSet(s)) \/ OneShotStdout(parsePortSet(s))
  PROVE  localPortAllowed(ServedTCPPorts(parsePortSet(s)), port)
<1> DEFINE p == parsePortSet(s)
           x == SortedPorts(p.ports)
           y == IF SSHServices(p) /\ SSHPort \notin p.ports THEN <<SSHPort>> \o x ELSE x
<1>1. CASE OneShotStdout(p) \/ ExitNode(p)
  BY <1>1 DEF localPortAllowed, ServedTCPPorts
<1>2. CASE ~(OneShotStdout(p) \/ ExitNode(p))
  <2>1. p.ports \subseteq Ports /\ MaxPort \in Nat /\ SSHPort \in Nat /\ SSHPort < MaxPort /\ SSHPort \in Ports
    BY ParsedIs, ServeAssumption DEF Ports
  <2>2. /\ x \in Seq(Ports) /\ Ascending(x) /\ \A q \in p.ports : \E i \in 1 .. Len(x) : x[i] = q
    BY <2>1, SortedIs
  <2>3. ServedTCPPorts(p) = portRanges(y)
    BY <1>2 DEF ServedTCPPorts
  <2>4. port \in p.ports \/ (port = SSHPort /\ SSHServices(p))
    BY <1>2
  <2> HIDE DEF p, x
  <2>5. \A i \in 1 .. Len(x) - 1 : x[i] = MaxPort => x[i + 1] # 0
    <3>1. ASSUME NEW i \in 1 .. Len(x) - 1 PROVE x[i] < x[i + 1]
      BY <2>2, ZenonT(40) DEF Ascending
    <3> QED
      BY <2>1, <3>1
  <2>6. /\ y \in Seq(Ports) /\ \A i \in 1 .. Len(y) - 1 : y[i] = MaxPort => y[i + 1] # 0
        /\ \E i \in 1 .. Len(y) : y[i] = port
    <3>1. CASE SSHServices(p) /\ SSHPort \notin p.ports
      <4>1. y = <<SSHPort>> \o x
        BY <3>1
      <4> HIDE DEF y
      <4>2. /\ y \in Seq(Ports) /\ Len(y) = Len(x) + 1 /\ y[1] = SSHPort /\ Len(x) \in Nat
            /\ \A i \in 1 .. Len(x) : y[i + 1] = x[i]
        BY <2>1, <2>2, <4>1
      <4>3. ASSUME NEW i \in 1 .. Len(y) - 1, y[i] = MaxPort PROVE y[i + 1] # 0
        <5>1. CASE i = 1
          BY <2>1, <4>2, <4>3, <5>1
        <5>2. CASE i # 1
          <6>1. i - 1 \in 1 .. Len(x) - 1 /\ (i - 1) + 1 = i /\ i \in 1 .. Len(x)
            BY <4>2, <5>2
          <6>2. y[i] = x[i - 1] /\ y[i + 1] = x[i]
            <7>1. i - 1 \in 1 .. Len(x)
              BY <4>2, <6>1
            <7> QED
              BY <4>2, <6>1, <7>1
          <6> QED
            BY <2>5, <4>3, <6>1, <6>2
        <5> QED
          BY <5>1, <5>2
      <4>4. \E i \in 1 .. Len(y) : y[i] = port
        <5>1. CASE port = SSHPort
          BY <4>2, <5>1
        <5>2. CASE port # SSHPort
          <6>1. PICK i \in 1 .. Len(x) : x[i] = port
            BY <2>2, <2>4, <5>2
          <6>2. i + 1 \in 1 .. Len(y) /\ y[i + 1] = port
            BY <4>2, <6>1
          <6> QED
            BY <6>2
        <5> QED
          BY <5>1, <5>2
      <4> QED
        BY <4>2, <4>3, <4>4, ZenonT(40)
    <3>2. CASE ~(SSHServices(p) /\ SSHPort \notin p.ports)
      <4>1. y = x /\ port \in p.ports
        BY <2>4, <3>2
      <4> QED
        BY <2>2, <2>5, <4>1
    <3> QED
      BY <3>1, <3>2, Zenon
  <2> HIDE DEF y
  <2>7. portRanges(y) \in Ranges /\ Covered(portRanges(y), port)
    <3>1. PICK i \in 1 .. Len(y) : y[i] = port
      BY <2>6
    <3> QED
      BY <2>6, <3>1, RangesCover
  <2>8. localPortAllowed(portRanges(y), port)
    BY <2>7 DEF localPortAllowed, Covered, Ranges
  <2> QED
    BY <2>3, <2>8 DEF p
<1> QED
  BY <1>1, <1>2

\* The services of a list.
LEMMA ServicesAre ==
  ASSUME NEW s \in Specs
  PROVE  /\ ExitNode(parsePortSet(s)) <=> Service("exit-node") \in s
         /\ SSHServices(parsePortSet(s)) <=> Service("no-auth-ssh") \in s \/ Service("files") \in s
<1>1. \A x \in {"exit-node", "no-auth-ssh", "files"} :
        x \in parsePortSet(s).services <=> Service(x) \in s
  BY ParsedIs
<1>2. ASSUME NEW S PROVE S \cap {"no-auth-ssh", "files"} # {} <=> "no-auth-ssh" \in S \/ "files" \in S
  OBVIOUS
<1> QED
  BY <1>1, <1>2, Zenon DEF ExitNode, SSHServices

\* The kinds of handlers.
LEMMA Kinds ==
  /\ NoHandler.kind = "none" /\ SSH.kind = "ssh" /\ Stdout.kind = "stdout"
  /\ \A host, port : /\ ForwardTo(host, port).kind = "proxy"
                     /\ ForwardTo(host, port) # NoHandler /\ ForwardTo(host, port) # Stdout
  /\ SSH # NoHandler /\ SSH # Stdout /\ Stdout # NoHandler
  BY DEF NoHandler, SSH, Stdout, ForwardTo, Handler

\* What the client dials.
LEMMA DialledIs ==
  ASSUME NEW d \in Dests
  PROVE  /\ DialTCP(d).net = (IF d.net = "v4" THEN "nat64" ELSE d.net)
         /\ DialTCP(d).host = d.host /\ DialTCP(d).port = d.port /\ d.port \in Ports
         /\ DialTCP(d).net # "ping"
<1>1. PICK n, h, p : d = [net |-> n, host |-> h, port |-> p] /\ p \in Ports
  BY ServeAssumption DEF Ports
<1>2. d.net # "ping"
  BY ServeAssumption
<1> QED
  BY <1>1, <1>2 DEF DialTCP

\* Handler h is one that list s has for destination d.
Lists(s, d, h) ==
  IF d.net # "self"
  THEN /\ Service("exit-node") \in s
       /\ h = ForwardTo(<<IF d.net \in {"v4", "nat64"} THEN "v4" ELSE d.net, d.host>>, d.port)
  ELSE \/ /\ h = SSH /\ d.port = SSHPort
          /\ Service("no-auth-ssh") \in s \/ Service("files") \in s
       \/ h = Stdout /\ s = {}
       \/ /\ h = ForwardTo(Localhost, d.port)
          /\ d.port \in parsePortSet(s).ports \/ Service("exit-node") \in s

\* The handler of a connection: what OnTCP returns, or the destination for an exit node.
LEMMA HandlerIs ==
  ASSUME NEW s \in Specs, NEW d \in Dests, NEW h,
         h = handleTCPForward(parsePortSet(s), DialTCP(d)), h # NoHandler
  PROVE  (h = SSH \/ h = Stdout \/ h.kind = "proxy") /\ Lists(s, d, h)
<1> DEFINE p == parsePortSet(s)
           e == DialTCP(d)
<1>1. /\ ExitNode(p) <=> Service("exit-node") \in s
      /\ SSHServices(p) <=> Service("no-auth-ssh") \in s \/ Service("files") \in s
      /\ OneShotStdout(p) <=> s = {}
  BY ParsedIs, ServicesAre, Zenon
<1>2. e.net = (IF d.net = "v4" THEN "nat64" ELSE d.net) /\ e.host = d.host /\ e.port = d.port
      /\ e.net # "ping"
  BY DialledIs
<1>3. h = handleTCPForward(p, e)
  BY ZenonT(40)
<1> HIDE DEF p, e
<1>4. CASE d.net # "self"
  <2>1. e.net # "self" /\ (e.net = "nat64" <=> d.net \in {"v4", "nat64"})
    BY <1>2, <1>4, Zenon
  <2>2. ExitNode(p) /\ h = ForwardTo(<<IF d.net \in {"v4", "nat64"} THEN "v4" ELSE d.net, d.host>>, d.port)
    BY <1>2, <1>3, <1>4, <2>1, Zenon DEF handleTCPForward
  <2> QED
    BY <1>1, <1>4, <2>2, Kinds DEF Lists
<1>5. CASE d.net = "self"
  <2>1. h = OnTCP(p, d.port)
    BY <1>2, <1>3, <1>5, Zenon DEF handleTCPForward
  <2>2. \/ h = SSH /\ d.port = SSHPort /\ SSHServices(p)
        \/ h = ForwardTo(Localhost, d.port) /\ (ExitNode(p) \/ d.port \in p.ports)
        \/ h = Stdout /\ OneShotStdout(p)
    BY <2>1, Zenon DEF OnTCP
  <2> QED
    BY <1>1, <1>5, <2>2, Kinds, ZenonT(40) DEF p, Lists
<1> QED
  BY <1>4, <1>5, ZenonT(40)

\* A connection to the server that is refused was not listed.
LEMMA RefusedIs ==
  ASSUME NEW s \in Specs, NEW d \in Dests, d.net = "self",
         handleTCPForward(parsePortSet(s), DialTCP(d)) = NoHandler
  PROVE  /\ s # {} /\ d.port \notin parsePortSet(s).ports /\ Service("exit-node") \notin s
         /\ d.port = SSHPort => Service("no-auth-ssh") \notin s /\ Service("files") \notin s
<1> DEFINE p == parsePortSet(s)
           e == DialTCP(d)
<1>1. /\ ExitNode(p) <=> Service("exit-node") \in s
      /\ SSHServices(p) <=> Service("no-auth-ssh") \in s \/ Service("files") \in s
      /\ OneShotStdout(p) <=> s = {}
  BY ParsedIs, ServicesAre, Zenon
<1>2. e.net = "self" /\ e.port = d.port /\ d.port \in Ports
  BY DialledIs, Zenon
<1>3. ~( \/ d.port \in p.ports
         \/ d.port = SSHPort /\ SSHServices(p)
         \/ ExitNode(p)
         \/ OneShotStdout(p) )
  <2> SUFFICES ASSUME \/ d.port \in p.ports
                      \/ d.port = SSHPort /\ SSHServices(p)
                      \/ ExitNode(p)
                      \/ OneShotStdout(p)
               PROVE  FALSE
    BY Zenon
  <2>1. localPortAllowed(ServedTCPPorts(p), d.port)
    BY <1>2, FilterLetsThrough, Zenon
  <2>2. handleTCPForward(p, e) = OnTCP(p, d.port)
    BY <1>2, <2>1, Zenon DEF handleTCPForward
  <2> HIDE DEF p, e
  <2>3. OnTCP(p, d.port) # NoHandler
    BY Kinds DEF OnTCP
  <2> QED
    BY <2>2, <2>3, Zenon DEF p, e
<1> QED
  BY <1>1, <1>3, ZenonT(40)

-----------------------------------------------------------------------------
Closing == {"fin", "read", "acked"}

TargetTypes ==
  target \in [Clients -> [got : Nat, eof : BOOLEAN, closed : BOOLEAN, reply : 0 .. 3,
                          fwd : BOOLEAN, back : BOOLEAN]]

\* Where a handler is goes with its kind, and with what its connection has seen.
Placed(c) ==
  /\ main[c] \in {"idle", "dial"} => at[c] = "none"
  /\ at[c] = "none" => hand[c] = NoHandler
  /\ at[c] = "start" => hand[c] = SSH \/ hand[c] = Stdout \/ hand[c].kind = "proxy"
  /\ at[c] \in {"copy", "close", "drain"} => hand[c] = Stdout
  /\ at[c] \in {"proxy", "over"} => hand[c].kind = "proxy"
  /\ at[c] \in {"none", "start"} =>
       got[c] = 0 /\ target[c] = NoTarget /\ down[c] \in {"open", "lost"}

\* A connection has the handler that handleTCPForward found for its destination.
Dialled(c) ==
  /\ main[c] = "dial" => dest[c] \in Dests
  /\ main[c] = "copy" /\ dest[c] # NoDest =>
       /\ dest[c] \in Dests /\ hand[c] # NoHandler
       /\ hand[c] = handleTCPForward(parsePortSet(spec), DialTCP(dest[c]))

\* A client whose connection goes to standard output sees its end only after the
\* handler has closed both; and if it is the only one, what is on standard output
\* is what the handler has read, all of the client's input once it closes, unless
\* a write failed by itself.
Piped(c) ==
  /\ at[c] = "drain" => ~outOpen
  /\ hand[c] = Stdout /\ (down[c] \in Closing \/ main[c] \in {"drain", "exit0"}) => at[c] = "drain"
  /\ Accepted \subseteq {c} /\ (at[c] = "none" \/ hand[c] = Stdout) =>
       /\ outOpen \/ at[c] = "drain"
       /\ ~spoilt => /\ out = [i \in 1 .. got[c] |-> <<c, i>>]
                     /\ at[c] \in {"close", "drain"} => got[c] = Units

\* A client that is joined to a target sees the end of its connection only after
\* the target has closed and what it replied was copied.
Proxied(c) == hand[c].kind = "proxy" =>
  /\ down[c] \in Closing \/ target[c].back => target[c].closed /\ target[c].reply # 1
  /\ main[c] \in {"drain", "exit0"} => target[c].closed /\ target[c].reply \in {0, 3}

Sound(c) == Placed(c) /\ Dialled(c) /\ Piped(c) /\ Proxied(c)

\* The inductive invariant.
ServeInv ==
  /\ ServeTypeOK /\ TargetTypes /\ DOMAIN hand = Clients
  /\ \A c \in Clients : Sound(c)

\* The server that has no connection yet.
LEMMA InitServe == ServeInit => ServeInv
<1> SUFFICES ASSUME ServeInit PROVE ServeInv
  OBVIOUS
<1>1. ServeTypeOK
  <2>1. 0 \in 0 .. Units /\ 0 <= 0
    BY ServeAssumption
  <2>2. /\ sent \in [Clients -> 0 .. Units] /\ got \in [Clients -> 0 .. Units]
        /\ \A c \in Clients : got[c] <= sent[c]
    BY <2>1, Zenon DEF ServeInit
  <2>3. out \in Seq(Clients \X (1 .. Units))
    BY DEF ServeInit
  <2> QED
    BY <2>2, <2>3, Zenon DEF ServeInit, ServeTypeOK
<1>2. TargetTypes /\ DOMAIN hand = Clients
  BY DEF ServeInit, TargetTypes, NoTarget
<1>3. ASSUME NEW c \in Clients PROVE Sound(c)
  <2>1. /\ main[c] = "idle" /\ at[c] = "none" /\ hand[c] = NoHandler /\ got[c] = 0
        /\ target[c] = NoTarget /\ down[c] = "open" /\ out = <<>> /\ outOpen
    BY <1>3 DEF ServeInit
  <2>2. <<>> = [i \in 1 .. 0 |-> <<c, i>>]
    OBVIOUS
  <2> QED
    BY <2>1, <2>2, Kinds, Zenon DEF Sound, Placed, Dialled, Piped, Proxied, Closing
<1> QED
  BY <1>1, <1>2, <1>3 DEF ServeInv

\* What a step leaves alone of a connection other than the one it is about.
Apart(c, d) ==
  /\ spec' = spec /\ hand'[d] = hand[d] /\ at'[d] = at[d] /\ got'[d] = got[d]
  /\ target'[d] = target[d] /\ main'[d] = main[d] /\ dest'[d] = dest[d]
  /\ down'[d] = down[d] \/ (down'[d] = "lost" /\ down[d] \in {"open", "fin"})
  /\ Accepted \subseteq Accepted' /\ (outOpen' => outOpen)
  /\ (out' = out /\ outOpen' = outOpen /\ spoilt' = spoilt) \/ c \in Accepted

\* ... whose state stays sound.
LEMMA Others ==
  ASSUME ServeInv, NEW c \in Clients, NEW d \in Clients, d # c, Apart(c, d)
  PROVE  Sound(d)'
<1>1. Sound(d)
  BY Zenon DEF ServeInv
<1>2. Placed(d)'
  BY <1>1, Zenon DEF Sound, Placed, Apart
<1>3. Dialled(d)'
  BY <1>1, Zenon DEF Sound, Dialled, Apart
<1>4. Proxied(d)'
  BY <1>1, Zenon DEF Sound, Proxied, Apart, Closing
<1>5. Piped(d)'
  <2>1. /\ (at[d] = "drain" => ~outOpen)'
        /\ (hand[d] = Stdout /\ (down[d] \in Closing \/ main[d] \in {"drain", "exit0"}) => at[d] = "drain")'
    BY <1>1, Zenon DEF Sound, Piped, Apart, Closing
  <2>2. CASE c \in Accepted
    <3>1. ~(Accepted' \subseteq {d})
      BY <2>2, Zenon DEF Apart
    <3> QED
      BY <2>1, <3>1, Zenon DEF Piped
  <2>3. CASE out' = out /\ outOpen' = outOpen /\ spoilt' = spoilt
    <3>1. Accepted' \subseteq {d} => Accepted \subseteq {d}
      BY Zenon DEF Apart
    <3> QED
      BY <1>1, <2>1, <2>3, <3>1, Zenon DEF Sound, Piped, Apart
  <2> QED
    BY <2>2, <2>3, Zenon DEF Apart
<1> QED
  BY <1>2, <1>3, <1>4, <1>5 DEF Sound

\* A step about connection c keeps the invariant if it keeps what is said of c.
LEMMA OnlyOne ==
  ASSUME ServeInv, NEW c \in Clients, ServeTypeOK', TargetTypes', DOMAIN hand' = Clients,
         \A d \in Clients \ {c} : Apart(c, d), Sound(c)'
  PROVE  ServeInv'
<1>1. ASSUME NEW d \in Clients PROVE Sound(d)'
  BY Others
<1> QED
  BY <1>1, Zenon DEF ServeInv

\* The types of what the invariant speaks of.
LEMMA Types ==
  ASSUME ServeInv
  PROVE  /\ spec \in Specs /\ Units \in Nat
         /\ DOMAIN hand = Clients /\ DOMAIN at = Clients /\ DOMAIN got = Clients /\ DOMAIN target = Clients
         /\ DOMAIN main = Clients /\ DOMAIN dest = Clients /\ DOMAIN down = Clients
         /\ \A c \in Clients : Sound(c) /\ got[c] \in 0 .. Units /\ sent[c] \in 0 .. Units
  BY ServeAssumption DEF ServeInv, ServeTypeOK, TargetTypes

\* Where the client and its handler may be, and what the connection may have seen.
Mains == {"idle", "dial", "copy", "drain"} \cup Ended
Places == {"none", "start", "copy", "close", "drain", "proxy", "over"}
Downs == {"open", "fin", "read", "acked", "rst", "lost"}

\* A step keeps the types if it keeps them of what it changes.
LEMMA TypesKept ==
  ASSUME ServeInv, UNCHANGED <<spec, legacy>>, outOpen' \in BOOLEAN, spoilt' \in BOOLEAN,
         proc' \in {"up", "drained", "capped", "fatal"}, out' \in Seq(Clients \X (1 .. Units)),
         main' \in [Clients -> Mains], feed' \in [Clients -> {"run", "closed", "failed"}],
         sent' \in [Clients -> 0 .. Units], got' \in [Clients -> 0 .. Units],
         dest' \in [Clients -> Dests \cup {NoDest}], at' \in [Clients -> Places],
         down' \in [Clients -> Downs], \A c \in Clients : got'[c] <= sent'[c]
  PROVE  ServeTypeOK'
  BY DEF ServeInv, ServeTypeOK, Mains, Places, Downs

\* What the types are before a step.
LEMMA TypesNow ==
  ASSUME ServeInv
  PROVE  /\ outOpen \in BOOLEAN /\ spoilt \in BOOLEAN
         /\ proc \in {"up", "drained", "capped", "fatal"} /\ out \in Seq(Clients \X (1 .. Units))
         /\ main \in [Clients -> Mains] /\ feed \in [Clients -> {"run", "closed", "failed"}]
         /\ sent \in [Clients -> 0 .. Units] /\ got \in [Clients -> 0 .. Units]
         /\ dest \in [Clients -> Dests \cup {NoDest}] /\ at \in [Clients -> Places]
         /\ down \in [Clients -> Downs] /\ \A c \in Clients : got[c] <= sent[c]
  BY DEF ServeInv, ServeTypeOK, Mains, Places, Downs

\* The client before it has a connection, and at its end.
LEMMA PingServe == ASSUME ServeInv, NEW c \in Clients, ClientPing(c) PROVE ServeInv'
<1>1. ServeTypeOK' /\ TargetTypes' /\ DOMAIN hand' = Clients
  <2>1. main' \in [Clients -> Mains] /\ dest' \in [Clients -> Dests \cup {NoDest}]
    BY TypesNow, ZenonT(40) DEF ClientPing, Mains, Ended
  <2>2. UNCHANGED <<spec, legacy, proc, out, outOpen, spoilt, feed, sent, hand, at, got, down, target>>
    BY DEF ClientPing, serverVars, connVars
  <2> QED
    BY <2>1, <2>2, TypesNow, TypesKept DEF ServeInv, TargetTypes
<1>2. \A d \in Clients \ {c} : Apart(c, d)
  BY Types DEF Apart, ClientPing, serverVars, connVars, Accepted
<1>3. Sound(c)'
  BY Types, ServeAssumption, ZenonT(40)
     DEF Sound, Placed, Dialled, Piped, Proxied, ClientPing, serverVars, connVars, Accepted, Closing
<1> QED
  BY <1>1, <1>2, <1>3, OnlyOne, ZenonT(40)

\* The dial.
LEMMA DialServe == ASSUME ServeInv, NEW c \in Clients, ClientDial(c) PROVE ServeInv'
<1> DEFINE h == handleTCPForward(parsePortSet(spec), DialTCP(dest[c]))
<1>0. ClientDial(c) <=>
        /\ main[c] = "dial"
        /\ \/ /\ proc = "up" /\ h # NoHandler
              /\ hand' = [hand EXCEPT ![c] = h] /\ at' = [at EXCEPT ![c] = "start"]
              /\ main' = [main EXCEPT ![c] = "copy"] /\ UNCHANGED dest
           \/ /\ main' = [main EXCEPT ![c] = "exit1"] /\ dest' = [dest EXCEPT ![c] = NoDest]
              /\ UNCHANGED <<hand, at>>
        /\ UNCHANGED <<feed, sent, serverVars, got, down, target>>
  BY Zenon DEF ClientDial
<1> HIDE DEF h
<1>1. ServeTypeOK' /\ TargetTypes' /\ DOMAIN hand' = Clients
  <2>1. main' \in [Clients -> Mains] /\ dest' \in [Clients -> Dests \cup {NoDest}]
    BY <1>0, TypesNow, Zenon DEF Mains, Ended
  <2>2. at' \in [Clients -> Places] /\ DOMAIN hand' = Clients
    BY <1>0, TypesNow, Types, ZenonT(40) DEF Places
  <2>3. UNCHANGED <<spec, legacy, proc, out, outOpen, spoilt, feed, sent, got, down, target>>
    BY <1>0 DEF serverVars
  <2> QED
    BY <2>1, <2>2, <2>3, TypesNow, TypesKept, Zenon DEF ServeInv, TargetTypes
<1>2. \A d \in Clients \ {c} : Apart(c, d)
  BY <1>0, Types, ZenonT(40) DEF Apart, serverVars, Accepted
<1>3. main[c] = "dial" /\ at[c] = "none" /\ hand[c] = NoHandler /\ dest[c] \in Dests /\ Sound(c)
  BY <1>0, Types, Zenon DEF Sound, Placed, Dialled
<1>4. CASE main'[c] = "copy"
  <2>1. /\ hand'[c] = h /\ at'[c] = "start" /\ dest' = dest /\ h # NoHandler
        /\ UNCHANGED <<got, down, target, spec, out, outOpen, spoilt>> /\ main'[c] = "copy"
    BY <1>0, <1>4, Types, Zenon DEF serverVars
  <2>2. h = SSH \/ h = Stdout \/ h.kind = "proxy"
    BY <1>3, <2>1, HandlerIs, Types, Zenon DEF h
  <2>3. Accepted' \subseteq {c} => Accepted \subseteq {c}
    BY <1>2, Zenon DEF Apart, Accepted
  <2>4. got[c] = 0 /\ target[c] = NoTarget /\ down[c] \in {"open", "lost"}
    BY <1>3, Zenon DEF Sound, Placed
  <2>5. Placed(c)' /\ Proxied(c)'
    <3>1. ~target[c].back /\ got'[c] = 0 /\ target'[c] = target[c] /\ down'[c] = down[c]
      <4>1. ~NoTarget.back
        BY DEF NoTarget
      <4> QED
        BY <2>1, <2>4, <4>1, Zenon
    <3>2. down[c] \notin Closing
      BY <2>4 DEF Closing
    <3>3. Placed(c)'
      BY <2>1, <2>2, <2>4, <3>1, Zenon DEF Placed
    <3>4. Proxied(c)'
      BY <2>1, <3>1, <3>2 DEF Proxied
    <3> QED
      BY <3>3, <3>4, Zenon
  <2>6. Dialled(c)'
    BY <1>3, <2>1, Zenon DEF Dialled, h
  <2>7. Piped(c)'
    BY <1>3, <2>1, <2>3, <2>4, Zenon DEF Sound, Piped, Closing
  <2>8. Sound(c)'
    BY <2>5, <2>6, <2>7, ZenonT(40) DEF Sound
  <2> QED
    BY <1>1, <1>2, <2>8, OnlyOne
<1>5. CASE main'[c] # "copy"
  <2>1. /\ main'[c] = "exit1" /\ UNCHANGED <<hand, at, got, down, target, spec, out, outOpen, spoilt>>
    BY <1>0, <1>5, Types, Zenon DEF serverVars
  <2>2. Sound(c)'
    BY <1>3, <2>1, Kinds, Zenon DEF Sound, Placed, Proxied, Dialled, Piped, Accepted, Closing
  <2> QED
    BY <1>1, <1>2, <2>2, OnlyOne
<1> QED
  BY <1>4, <1>5

\* The goroutine of standard input, and a read that fails.
LEMMA FeedServe ==
  ASSUME ServeInv, NEW c \in Clients, ClientFeed(c) \/ ClientFeedFail(c) \/ ClientReadFail(c)
  PROVE  ServeInv'
<1>1. ServeTypeOK' /\ TargetTypes' /\ DOMAIN hand' = Clients
  <2>1. main' \in [Clients -> Mains]
    BY TypesNow DEF ClientFeed, ClientFeedFail, ClientReadFail, Mains, Ended
  <2>2. feed' \in [Clients -> {"run", "closed", "failed"}] /\ sent' \in [Clients -> 0 .. Units]
        /\ \A d \in Clients : got[d] <= sent'[d]
    <3>1. feed' \in [Clients -> {"run", "closed", "failed"}]
      BY TypesNow, Zenon DEF ClientFeed, ClientFeedFail, ClientReadFail
    <3>2. sent' = sent \/ (sent[c] < Units /\ sent' = [sent EXCEPT ![c] = @ + 1])
      <4>1. CASE ClientFeed(c)
        BY <4>1 DEF ClientFeed
      <4>2. CASE ClientFeedFail(c)
        BY <4>2 DEF ClientFeedFail
      <4>3. CASE ClientReadFail(c)
        BY <4>3, Zenon DEF ClientReadFail
      <4> QED
        BY <4>1, <4>2, <4>3
    <3>3. sent' \in [Clients -> 0 .. Units] /\ \A d \in Clients : got[d] <= sent'[d]
      <4>1. sent[c] \in 0 .. Units /\ Units \in Nat /\ got[c] \in 0 .. Units /\ got[c] <= sent[c]
        BY Types, TypesNow, Zenon
      <4>2. sent[c] < Units => sent[c] + 1 \in 0 .. Units /\ got[c] <= sent[c] + 1
        BY <4>1
      <4> QED
        BY <3>2, <4>2, TypesNow, ZenonT(40)
    <3> QED
      BY <3>1, <3>3, Zenon
  <2>3. UNCHANGED <<spec, legacy, proc, out, outOpen, spoilt, dest, hand, at, got, down, target>>
    BY Zenon DEF ClientFeed, ClientFeedFail, ClientReadFail, serverVars, connVars
  <2> QED
    BY <2>1, <2>2, <2>3, TypesNow, TypesKept, ZenonT(40) DEF ServeInv, TargetTypes
<1>2. /\ UNCHANGED <<hand, at, got, down, target, dest, spec, out, outOpen, spoilt>>
      /\ \A d \in Clients \ {c} : main'[d] = main[d]
      /\ main'[c] \in {main[c], "exit1"}
  BY Types, Zenon DEF ClientFeed, ClientFeedFail, ClientReadFail, serverVars, connVars
<1>3. \A d \in Clients \ {c} : Apart(c, d)
  BY <1>2, Zenon DEF Apart, Accepted
<1>4. Sound(c)'
  BY <1>2, Types, ZenonT(40) DEF Sound, Placed, Dialled, Piped, Proxied, Accepted
<1> QED
  BY <1>1, <1>3, <1>4, OnlyOne, Zenon

\* The main goroutine of a client that has a connection.
LEMMA ReadServe == ASSUME ServeInv, NEW c \in Clients, ClientRead(c) PROVE ServeInv'
<1>1. /\ UNCHANGED <<spec, legacy, proc, out, outOpen, spoilt, main, feed, sent, dest, hand, at, got, down>>
      /\ main[c] = "copy" /\ target[c].reply = 2 /\ target' = [target EXCEPT ![c].reply = 3]
  BY DEF ClientRead, serverVars, clientVars
<1>2. TargetTypes' /\ target'[c].reply = 3 /\ target'[c].closed = target[c].closed
      /\ target'[c].back = target[c].back /\ \A d \in Clients \ {c} : target'[d] = target[d]
  BY <1>1 DEF ServeInv, TargetTypes
<1>3. ServeTypeOK' /\ DOMAIN hand' = Clients
  BY <1>1, TypesNow, TypesKept, Types
<1>4. \A d \in Clients \ {c} : Apart(c, d)
  BY <1>1, <1>2 DEF Apart, Accepted
<1>5. target[c] # NoTarget
  BY <1>1 DEF NoTarget
<1>6. Sound(c)'
  BY <1>1, <1>2, <1>5, Types DEF Sound, Placed, Dialled, Piped, Proxied, Accepted
<1> QED
  BY <1>2, <1>3, <1>4, <1>6, OnlyOne, Zenon

\* It reads EOF.
LEMMA EOFServe == ASSUME ServeInv, NEW c \in Clients, ClientEOF(c) PROVE ServeInv'
<1>1. /\ UNCHANGED <<spec, legacy, proc, out, outOpen, spoilt, feed, sent, dest, hand, at, got, target>>
      /\ main[c] = "copy" /\ target[c].reply # 2 /\ down[c] = "fin"
      /\ main' = [main EXCEPT ![c] = "drain"] /\ down' = [down EXCEPT ![c] = "read"]
  BY Zenon DEF ClientEOF, serverVars
<1>2. main' \in [Clients -> Mains] /\ down' \in [Clients -> Downs]
  BY <1>1, TypesNow, Zenon DEF Mains, Downs
<1>3. ServeTypeOK' /\ TargetTypes' /\ DOMAIN hand' = Clients
  BY <1>1, <1>2, TypesNow, TypesKept, Types, Zenon DEF ServeInv, TargetTypes
<1>4. main'[c] = "drain" /\ down'[c] = "read"
      /\ \A d \in Clients \ {c} : main'[d] = main[d] /\ down'[d] = down[d]
  BY <1>1, Types, Zenon
<1>5. \A d \in Clients \ {c} : Apart(c, d)
  BY <1>1, <1>4, Zenon DEF Apart, Accepted
<1>6. target[c].reply \in 0 .. 3
  BY Zenon DEF ServeInv, TargetTypes
<1>7. Sound(c) /\ Accepted' = Accepted
  BY <1>1, Types, Zenon DEF Accepted
<1>8. Placed(c)' /\ Dialled(c)'
  BY <1>1, <1>4, <1>7, Zenon DEF Sound, Placed, Dialled
<1>9. Piped(c)'
  BY <1>1, <1>4, <1>7, Zenon DEF Sound, Piped, Closing
<1>10. Proxied(c)'
  <2> DEFINE r == target[c].reply
  <2>1. hand'[c] = hand[c] /\ target'[c] = target[c]
    BY <1>1, Zenon
  <2>2. hand[c].kind = "proxy" => target[c].closed /\ r # 1
    BY <1>1, <1>7, ZenonT(40) DEF Sound, Proxied, Closing
  <2>3. r # 2 /\ r \in 0 .. 3
    BY <1>1, <1>6, Zenon
  <2> HIDE DEF r
  <2>4. r # 1 => r \in {0, 3}
    BY <2>3
  <2> QED
    BY <2>1, <2>2, <2>4, Zenon DEF Proxied, r
<1> QED
  BY <1>3, <1>5, <1>8, <1>9, <1>10, OnlyOne, Zenon DEF Sound

\* Its stack acknowledges, and it exits.
LEMMA ExitServe ==
  ASSUME ServeInv, NEW c \in Clients, ClientAck(c) \/ ClientExit(c) PROVE ServeInv'
<1>1. /\ UNCHANGED <<spec, legacy, proc, out, outOpen, spoilt, feed, sent, dest, hand, at, got, target>>
      /\ main[c] = "drain"
      /\ \/ main' = main /\ down[c] = "read" /\ down' = [down EXCEPT ![c] = "acked"]
         \/ main' = [main EXCEPT ![c] = "exit0"] /\ down' = down
  BY DEF ClientAck, ClientExit, serverVars, clientVars, connVars
<1>2. main' \in [Clients -> Mains] /\ down' \in [Clients -> Downs]
  BY <1>1, TypesNow, ZenonT(40) DEF Mains, Downs, Ended
<1>3. ServeTypeOK' /\ TargetTypes' /\ DOMAIN hand' = Clients
  BY <1>1, <1>2, TypesNow, TypesKept, Types, Zenon DEF ServeInv, TargetTypes
<1>4. /\ main'[c] \in {"drain", "exit0"} /\ (down'[c] = down[c] \/ (down[c] = "read" /\ down'[c] = "acked"))
      /\ \A d \in Clients \ {c} : main'[d] = main[d] /\ down'[d] = down[d]
  BY <1>1, Types, Zenon
<1>5. \A d \in Clients \ {c} : Apart(c, d)
  BY <1>1, <1>4, Zenon DEF Apart, Accepted
<1>6. Sound(c)'
  BY <1>1, <1>4, Types, Zenon DEF Sound, Placed, Dialled, Piped, Proxied, Accepted, Closing
<1> QED
  BY <1>3, <1>5, <1>6, OnlyOne, Zenon

\* What closing a connection does to it.
LEMMA ClosedIs ==
  ASSUME ServeInv, NEW c \in Clients, Closed(c)
  PROVE  /\ down' \in [Clients -> Downs] /\ \A d \in Clients \ {c} : down'[d] = down[d]
         /\ down'[c] \in {down[c], "rst", "fin"} /\ (down'[c] = "lost" => down[c] = "lost")
<1>1. PICK v \in {"fin", "rst"} : down' = [down EXCEPT ![c] = IF @ = "open" \/ v = "rst" THEN v ELSE @]
  BY Zenon DEF Closed
<1> QED
  BY <1>1, TypesNow DEF Downs

\* What the end of the process does to the connections.
LEMMA GoneIs ==
  ASSUME ServeInv, NEW how, Gone(how)
  PROVE  /\ proc' = how /\ down' \in [Clients -> Downs]
         /\ \A d \in Clients : down'[d] = down[d] \/ (down'[d] = "lost" /\ down[d] \in {"open", "fin"})
<1>1. PICK lost \in SUBSET {c \in Clients : down[c] = "fin"} :
        down' = [c \in Clients |->
                   IF c \in lost \/ (c \in Accepted /\ down[c] = "open") THEN "lost" ELSE down[c]]
  BY DEF Gone
<1> QED
  BY <1>1, TypesNow DEF Downs, Gone

\* The process ends while a handler drains, or when a write to standard output fails.
LEMMA GoneServe ==
  ASSUME ServeInv, NEW c \in Clients, NEW how \in {"drained", "capped", "fatal"}, Gone(how),
         c \in Accepted, at[c] \in {"copy", "drain"},
         UNCHANGED <<spec, legacy, out, outOpen, spoilt, main, feed, sent, dest, hand, at, got, target>>
  PROVE  ServeInv'
<1>1. /\ proc' = how /\ down' \in [Clients -> Downs]
      /\ \A d \in Clients : down'[d] = down[d] \/ (down'[d] = "lost" /\ down[d] \in {"open", "fin"})
  BY GoneIs, Zenon
<1>2. ServeTypeOK' /\ TargetTypes' /\ DOMAIN hand' = Clients
  BY <1>1, TypesNow, TypesKept, Types, Zenon DEF ServeInv, TargetTypes
<1>3. \A d \in Clients \ {c} : Apart(c, d)
  BY <1>1, Zenon DEF Apart, Accepted
<1>4. Accepted' = Accepted
  BY Zenon DEF Accepted
<1>5. Sound(c) /\ (down'[c] = down[c] \/ down'[c] = "lost")
  BY <1>1, Types, Zenon
<1>6. Placed(c)' /\ Dialled(c)'
  BY <1>5, Zenon DEF Sound, Placed, Dialled
<1>7. Piped(c)'
  <2> HIDE DEF Accepted
  <2> QED
    BY <1>4, <1>5, Zenon DEF Sound, Piped, Closing
<1>8. Proxied(c)'
  BY <1>5, Zenon DEF Sound, Proxied, Closing
<1> QED
  BY <1>2, <1>3, <1>6, <1>7, <1>8, OnlyOne, ZenonT(40) DEF Sound

\* A handler starts.
LEMMA StartServe == ASSUME ServeInv, NEW c \in Clients, HandlerStart(c) PROVE ServeInv'
<1>1. /\ UNCHANGED <<spec, legacy, proc, out, outOpen, spoilt, main, feed, sent, got>>
      /\ at[c] = "start" /\ dest' = [dest EXCEPT ![c] = NoDest]
      /\ \/ hand[c] = Stdout /\ at' = [at EXCEPT ![c] = "copy"] /\ UNCHANGED <<hand, down, target>>
         \/ /\ hand[c].kind = "proxy" /\ hand' = [hand EXCEPT ![c] = ForwardTo(NoHost, 0)]
            /\ \/ at' = [at EXCEPT ![c] = "proxy"] /\ UNCHANGED <<down, target>>
               \/ at' = [at EXCEPT ![c] = "over"] /\ Closed(c) /\ target' = [target EXCEPT ![c].closed = TRUE]
  BY DEF HandlerStart, serverVars
<1>2. /\ Sound(c) /\ got[c] = 0 /\ target[c] = NoTarget /\ down[c] \in {"open", "lost"}
      /\ main[c] \notin {"idle", "dial"}
  BY <1>1, Types DEF Sound, Placed
<1>3. /\ dest' \in [Clients -> Dests \cup {NoDest}] /\ at' \in [Clients -> Places] /\ DOMAIN hand' = Clients
  <2>1. dest' \in [Clients -> Dests \cup {NoDest}]
    BY <1>1, TypesNow
  <2>2. at' \in [Clients -> Places]
    BY <1>1, TypesNow, Zenon DEF Places
  <2>3. DOMAIN hand' = Clients
    BY <1>1, Types
  <2> QED
    BY <2>1, <2>2, <2>3
<1>4. down' \in [Clients -> Downs] /\ \A d \in Clients \ {c} : down'[d] = down[d]
  BY <1>1, TypesNow, ClosedIs
<1>5. TargetTypes' /\ \A d \in Clients \ {c} : target'[d] = target[d]
  <2>1. target' = target \/ target' = [target EXCEPT ![c].closed = TRUE]
    BY <1>1
  <2> QED
    BY <2>1, ZenonT(40) DEF ServeInv, TargetTypes
<1>6. ServeTypeOK'
  BY <1>1, <1>3, <1>4, TypesNow, TypesKept
<1>7. /\ \A d \in Clients \ {c} : at'[d] = at[d] /\ hand'[d] = hand[d] /\ dest'[d] = dest[d]
      /\ dest'[c] = NoDest /\ at'[c] # "none" /\ Accepted' = Accepted
  <2>1. /\ \A d \in Clients \ {c} : dest'[d] = dest[d]
        /\ dest'[c] = NoDest
    BY <1>1, Types
  <2>2. at' = [at EXCEPT ![c] = at'[c]] /\ at'[c] # "none"
    BY <1>1, Types, Zenon
  <2>3. \A d \in Clients \ {c} : at'[d] = at[d]
    BY <2>2, Types, Zenon
  <2>4. \A d \in Clients \ {c} : hand'[d] = hand[d]
    BY <1>1, Types
  <2>5. Accepted' = Accepted
    BY <1>1, <2>2, <2>3 DEF Accepted
  <2> QED
    BY <2>1, <2>2, <2>3, <2>4, <2>5, Zenon
<1>8. \A d \in Clients \ {c} : Apart(c, d)
  BY <1>1, <1>4, <1>5, <1>7 DEF Apart
<1>9. Dialled(c)'
  BY <1>1, <1>2, <1>7, ZenonT(40) DEF Dialled
<1>10. CASE hand[c] = Stdout
  <2>1. at'[c] = "copy" /\ UNCHANGED <<hand, down, target>>
    BY <1>1, <1>10, Types, Kinds
  <2>2. Placed(c)' /\ Piped(c)' /\ Proxied(c)'
    BY <1>1, <1>2, <1>7, <1>10, <2>1, Kinds, Zenon DEF Sound, Placed, Piped, Proxied
  <2> QED
    BY <1>3, <1>5, <1>6, <1>8, <1>9, <2>2, OnlyOne, ZenonT(40) DEF Sound
<1>11. CASE hand[c].kind = "proxy"
  <2>1. /\ hand'[c].kind = "proxy" /\ hand'[c] # Stdout
        /\ \/ at'[c] = "proxy" /\ UNCHANGED <<down, target>>
           \/ at'[c] = "over" /\ target'[c].closed /\ target'[c].reply = target[c].reply
    BY <1>1, <1>11, Types, Kinds DEF ServeInv, TargetTypes
  <2>2. target[c].reply = 0 /\ ~target[c].back
    BY <1>2 DEF NoTarget
  <2>3. main[c] \notin {"drain", "exit0"}
    BY <1>1, <1>2, <1>11, <2>2 DEF Sound, Proxied, NoTarget
  <2>4. Placed(c)'
    BY <1>1, <1>2, <2>1, Zenon DEF Placed
  <2>5. Piped(c)'
    BY <2>1, Zenon DEF Piped
  <2>6. Proxied(c)'
    BY <1>1, <1>2, <2>1, <2>2, <2>3 DEF Proxied, Closing
  <2> QED
    BY <1>3, <1>5, <1>6, <1>8, <1>9, <2>4, <2>5, <2>6, OnlyOne, ZenonT(40) DEF Sound
<1> QED
  BY <1>1, <1>10, <1>11

\* The copy to standard output.
LEMMA CopyServe == ASSUME ServeInv, NEW c \in Clients, StdoutCopy(c) PROVE ServeInv'
<1> DEFINE Writes == /\ outOpen /\ out' = Append(out, <<c, got[c] + 1>>) /\ got' = [got EXCEPT ![c] = @ + 1]
                     /\ UNCHANGED <<at, proc, down, spoilt>>
           Logs == /\ at' = [at EXCEPT ![c] = "close"] /\ got' = [got EXCEPT ![c] = @ + 1]
                   /\ spoilt' = (spoilt \/ outOpen) /\ UNCHANGED <<out, proc, down>>
           Dies == Gone("fatal") /\ UNCHANGED <<out, got, at, spoilt>>
<1>1. /\ UNCHANGED <<spec, legacy, outOpen, main, feed, sent, dest, hand, target>>
      /\ at[c] = "copy" /\ got[c] < sent[c]
      /\ Writes \/ Logs \/ Dies
  BY Zenon DEF StdoutCopy, clientVars
<1>2. /\ got[c] \in Nat /\ got[c] + 1 \in 1 .. Units /\ got[c] + 1 <= sent[c]
      /\ hand[c] = Stdout /\ c \in Accepted /\ Sound(c)
  <2>1. at[c] = "copy" /\ got[c] < sent[c] /\ got[c] \in 0 .. Units /\ sent[c] \in 0 .. Units /\ Units \in Nat
    BY <1>1, Types, Zenon
  <2>2. got[c] \in Nat /\ got[c] + 1 \in 1 .. Units /\ got[c] + 1 <= sent[c]
    BY <2>1
  <2>3. Sound(c) /\ hand[c] = Stdout
    BY <2>1, Types, Zenon DEF Sound, Placed
  <2>4. c \in Accepted
    BY <2>1 DEF Accepted
  <2> QED
    BY <2>2, <2>3, <2>4, Zenon
<1>3. ASSUME got' = [got EXCEPT ![c] = @ + 1]
      PROVE  /\ got' \in [Clients -> 0 .. Units] /\ \A d \in Clients : got'[d] <= sent[d]
             /\ got'[c] = got[c] + 1 /\ \A d \in Clients \ {c} : got'[d] = got[d]
  <2>1. got[c] + 1 \in 0 .. Units
    BY <1>2, ServeAssumption
  <2> QED
    BY <1>2, <1>3, <2>1, TypesNow
<1>4. CASE Writes
  <2>1. /\ out' = Append(out, <<c, got[c] + 1>>) /\ UNCHANGED <<at, proc, down, outOpen, spoilt>> /\ outOpen
        /\ got' = [got EXCEPT ![c] = @ + 1]
    BY <1>1, <1>4, Zenon
  <2>0. /\ got' \in [Clients -> 0 .. Units] /\ \A d \in Clients : got'[d] <= sent[d]
        /\ got'[c] = got[c] + 1 /\ \A d \in Clients \ {c} : got'[d] = got[d]
    BY <1>3, <2>1, Zenon
  <2>2. out' \in Seq(Clients \X (1 .. Units))
    <3>1. <<c, got[c] + 1>> \in Clients \X (1 .. Units)
      BY <1>2, ZenonT(40)
    <3> QED
      BY <2>1, <3>1, TypesNow, Appended
  <2>3. ServeTypeOK' /\ TargetTypes' /\ DOMAIN hand' = Clients
    BY <1>1, <2>0, <2>1, <2>2, TypesNow, TypesKept, Types, ZenonT(40) DEF ServeInv, TargetTypes
  <2>4. Accepted' = Accepted
    BY <2>1 DEF Accepted
  <2>5. \A d \in Clients \ {c} : Apart(c, d)
    <3>1. /\ spec' = spec /\ hand' = hand /\ target' = target /\ main' = main /\ dest' = dest
          /\ at' = at /\ down' = down /\ outOpen' = outOpen
      BY <1>1, <2>1, Zenon
    <3>2. c \in Accepted /\ \A d \in Clients \ {c} : got'[d] = got[d]
      BY <1>2, <2>0, Zenon
    <3> HIDE DEF Accepted
    <3> QED
      BY <2>4, <3>1, <3>2, Zenon DEF Apart
  <2>6. Accepted \subseteq {c} /\ ~spoilt => out' = [i \in 1 .. got'[c] |-> <<c, i>>]
    <3>1. SUFFICES ASSUME out = [i \in 1 .. got[c] |-> <<c, i>>] PROVE out' = [i \in 1 .. got'[c] |-> <<c, i>>]
      BY <1>2, ZenonT(40) DEF Sound, Piped
    <3>2. out' = Append([i \in 1 .. got[c] |-> <<c, i>>], <<c, got[c] + 1>>)
      BY <2>1, <3>1
    <3> DEFINE n == got[c]
               f == [i \in 1 .. n |-> <<c, i>>]
    <3>3. n \in Nat /\ got'[c] = n + 1
      BY <1>2, <2>0, Zenon
    <3> HIDE DEF n
    <3>4. Append(f, <<c, n + 1>>) = [i \in 1 .. n + 1 |-> <<c, i>>]
      BY <3>3
    <3> QED
      BY <3>2, <3>3, <3>4, ZenonT(40) DEF n
  <2>7. Placed(c)' /\ Dialled(c)' /\ Proxied(c)'
    BY <1>1, <1>2, <2>1, Kinds, Zenon DEF Sound, Placed, Dialled, Proxied
  <2>8. Piped(c)'
    <3>1. at'[c] = "copy" /\ outOpen' /\ hand' = hand /\ main' = main /\ down' = down
      BY <1>1, <2>1
    <3>2. ~(down[c] \in Closing \/ main[c] \in {"drain", "exit0"})
      BY <1>1, <1>2, Zenon DEF Sound, Piped
    <3> HIDE DEF Accepted
    <3> QED
      BY <2>1, <2>4, <2>6, <3>1, <3>2, Zenon DEF Piped
  <2> QED
    BY <2>3, <2>5, <2>7, <2>8, OnlyOne DEF Sound
<1>5. CASE Logs
  <2>1. /\ at' = [at EXCEPT ![c] = "close"] /\ UNCHANGED <<proc, down, out>>
        /\ got' = [got EXCEPT ![c] = @ + 1] /\ spoilt' = (spoilt \/ outOpen)
    BY <1>5
  <2>2. /\ got' \in [Clients -> 0 .. Units] /\ \A d \in Clients : got'[d] <= sent[d]
        /\ got'[c] = got[c] + 1 /\ \A d \in Clients \ {c} : got'[d] = got[d]
    BY <1>3, <2>1, Zenon
  <2>3. at' \in [Clients -> Places] /\ at'[c] = "close" /\ \A d \in Clients \ {c} : at'[d] = at[d]
    BY <2>1, TypesNow, Zenon DEF Places
  <2>4. spoilt' \in BOOLEAN
    BY <2>1
  <2>5. ServeTypeOK' /\ TargetTypes' /\ DOMAIN hand' = Clients
    BY <1>1, <2>1, <2>2, <2>3, <2>4, TypesNow, TypesKept, Types, ZenonT(40) DEF ServeInv, TargetTypes
  <2>6. Accepted' = Accepted
    BY <1>1, <2>3, Zenon DEF Accepted
  <2>7. \A d \in Clients \ {c} : Apart(c, d)
    <3> HIDE DEF Accepted
    <3> QED
      BY <1>1, <1>2, <2>1, <2>2, <2>3, <2>6, ZenonT(40) DEF Apart
  <2>8. Placed(c)' /\ Dialled(c)' /\ Proxied(c)'
    BY <1>1, <1>2, <2>1, <2>3, Kinds, ZenonT(40) DEF Sound, Placed, Dialled, Proxied
  <2>9. Accepted \subseteq {c} => outOpen /\ spoilt'
    BY <1>1, <1>2, <2>1, Zenon DEF Sound, Piped
  <2>10. Piped(c)'
    <3>1. ~(down[c] \in Closing \/ main[c] \in {"drain", "exit0"})
      BY <1>1, <1>2, Zenon DEF Sound, Piped
    <3> HIDE DEF Accepted
    <3> QED
      BY <1>1, <2>1, <2>3, <2>6, <2>9, <3>1, Zenon DEF Piped
  <2> QED
    BY <2>5, <2>7, <2>8, <2>10, OnlyOne DEF Sound
<1>6. CASE Dies
  BY <1>1, <1>2, <1>6, GoneServe, ZenonT(40)
<1> QED
  BY <1>1, <1>4, <1>5, <1>6, Zenon

\* The end of the copy, and the close.
LEMMA CloseServe ==
  ASSUME ServeInv, NEW c \in Clients, StdoutEOF(c) \/ StdoutClose(c) PROVE ServeInv'
<1>1. /\ UNCHANGED <<spec, legacy, proc, out, spoilt, main, feed, sent, dest, hand, got, target>>
      /\ \/ /\ at[c] = "copy" /\ got[c] = Units /\ at' = [at EXCEPT ![c] = "close"]
            /\ UNCHANGED <<outOpen, down>>
         \/ at[c] = "close" /\ at' = [at EXCEPT ![c] = "drain"] /\ outOpen' = FALSE /\ Closed(c)
  BY Zenon DEF StdoutEOF, StdoutClose, serverVars, clientVars
<1>2. hand[c] = Stdout /\ c \in Accepted /\ Sound(c)
  BY <1>1, Types, Zenon DEF Sound, Placed, Accepted
<1>3. down' \in [Clients -> Downs] /\ \A d \in Clients \ {c} : down'[d] = down[d]
  BY <1>1, ClosedIs, TypesNow, Zenon
<1>4. /\ at' \in [Clients -> Places] /\ \A d \in Clients \ {c} : at'[d] = at[d]
      /\ at'[c] \in {"close", "drain"}
  BY <1>1, TypesNow, Zenon DEF Places
<1>5. ServeTypeOK' /\ TargetTypes' /\ DOMAIN hand' = Clients
  BY <1>1, <1>3, <1>4, TypesNow, TypesKept, Types, Zenon DEF ServeInv, TargetTypes
<1>6. Accepted' = Accepted
  BY <1>2, <1>4, Zenon DEF Accepted
<1>7. \A d \in Clients \ {c} : Apart(c, d)
  BY <1>1, <1>2, <1>3, <1>4, <1>6, ZenonT(40) DEF Apart
<1>8. Placed(c)' /\ Dialled(c)' /\ Proxied(c)'
  BY <1>1, <1>2, <1>4, Kinds, Zenon DEF Sound, Placed, Dialled, Proxied
<1>9. CASE at[c] = "copy"
  <2>1. at'[c] = "close" /\ got[c] = Units /\ UNCHANGED <<outOpen, down>>
    BY <1>1, <1>9, Types, Zenon
  <2>2. Piped(c)'
    BY <1>1, <1>2, <1>6, <1>9, <2>1, ZenonT(40) DEF Sound, Piped
  <2> QED
    BY <1>5, <1>7, <1>8, <2>2, OnlyOne, ZenonT(40) DEF Sound
<1>10. CASE at[c] = "close"
  <2>1. at'[c] = "drain" /\ outOpen' = FALSE
    BY <1>1, <1>10, Types, Zenon
  <2>2. Piped(c)'
    BY <1>1, <1>2, <1>6, <1>10, <2>1, ZenonT(40) DEF Sound, Piped
  <2> QED
    BY <1>5, <1>7, <1>8, <2>2, OnlyOne DEF Sound
<1> QED
  BY <1>1, <1>9, <1>10, Zenon

\* The process drains and exits.
LEMMA DrainServe ==
  ASSUME ServeInv, NEW c \in Clients, ServerDrained(c) \/ ServerCapped(c) PROVE ServeInv'
<1>1. /\ UNCHANGED <<spec, legacy, out, outOpen, spoilt, main, feed, sent, dest, hand, at, got, target>>
      /\ at[c] = "drain" /\ \E how \in {"drained", "capped"} : Gone(how)
  BY Zenon DEF ServerDrained, ServerCapped, clientVars
<1>2. c \in Accepted
  BY <1>1, ZenonT(40) DEF Accepted
<1> QED
  BY <1>1, <1>2, TypesNow, GoneServe, Zenon

\* A late piece resets a connection that is closed.
LEMMA LateServe == ASSUME ServeInv, NEW c \in Clients, LateReset(c) PROVE ServeInv'
<1>1. /\ UNCHANGED <<spec, legacy, proc, out, outOpen, spoilt, main, feed, sent, dest, hand, at, got, target>>
      /\ at[c] \in {"drain", "over"} /\ down' = [down EXCEPT ![c] = "rst"]
  BY DEF LateReset, serverVars, clientVars
<1>2. down' \in [Clients -> Downs] /\ down'[c] = "rst" /\ \A d \in Clients \ {c} : down'[d] = down[d]
  BY <1>1, TypesNow, Zenon DEF Downs
<1>3. ServeTypeOK' /\ TargetTypes' /\ DOMAIN hand' = Clients
  BY <1>1, <1>2, TypesNow, TypesKept, Types, ZenonT(40) DEF ServeInv, TargetTypes
<1>4. Accepted' = Accepted
  BY <1>1, Zenon DEF Accepted
<1>5. \A d \in Clients \ {c} : Apart(c, d)
  BY <1>1, <1>2, <1>4, Zenon DEF Apart
<1>6. Sound(c)'
  BY <1>1, <1>2, <1>4, Types, ZenonT(40) DEF Sound, Placed, Dialled, Piped, Proxied, Closing
<1> QED
  BY <1>3, <1>5, <1>6, OnlyOne

\* A step of ProxyConns, or of the target, that leaves the connection open.
LEMMA TargetServe ==
  ASSUME ServeInv, NEW c \in Clients, at[c] = "proxy",
         UNCHANGED <<spec, legacy, proc, out, outOpen, spoilt, main, feed, sent, dest, hand, at>>,
         got' \in [Clients -> 0 .. Units], \A d \in Clients : got'[d] <= sent[d],
         \A d \in Clients \ {c} : got'[d] = got[d] /\ target'[d] = target[d] /\ down'[d] = down[d],
         TargetTypes', down' \in [Clients -> Downs], Proxied(c)'
  PROVE  ServeInv'
<1>1. ServeTypeOK' /\ DOMAIN hand' = Clients
  BY TypesNow, TypesKept, Types, Zenon
<1>2. Accepted' = Accepted
  BY Zenon DEF Accepted
<1>3. \A d \in Clients \ {c} : Apart(c, d)
  BY <1>2, Zenon DEF Apart
<1>4. Sound(c) /\ hand[c].kind = "proxy" /\ hand[c] # Stdout
  BY Types, Kinds, Zenon DEF Sound, Placed
<1>5. Placed(c)' /\ Dialled(c)' /\ Piped(c)'
  BY <1>4, Zenon DEF Sound, Placed, Dialled, Piped
<1> QED
  BY <1>1, <1>3, <1>5, OnlyOne, Zenon DEF Sound

\* From the client to the target.
LEMMA ForwardServe ==
  ASSUME ServeInv, NEW c \in Clients, ForwardCopy(c) \/ ForwardEOF(c) PROVE ServeInv'
<1>1. /\ UNCHANGED <<spec, legacy, proc, out, outOpen, spoilt, main, feed, sent, dest, hand, at, down>>
      /\ at[c] = "proxy"
      /\ \/ got[c] < sent[c] /\ got' = [got EXCEPT ![c] = @ + 1]
         \/ got' = got
      /\ \/ \E failed \in BOOLEAN : target' = [target EXCEPT ![c].fwd = failed]
         \/ target' = [target EXCEPT ![c].got = @ + 1]
         \/ target' = [target EXCEPT ![c].fwd = TRUE, ![c].eof = TRUE]
  BY Zenon DEF ForwardCopy, ForwardEOF, serverVars, clientVars
<1>2. /\ got' \in [Clients -> 0 .. Units] /\ \A d \in Clients : got'[d] <= sent[d]
      /\ \A d \in Clients \ {c} : got'[d] = got[d]
  <2>1. got[c] < sent[c] => got[c] + 1 \in 0 .. Units /\ got[c] + 1 <= sent[c]
    BY TypesNow, ServeAssumption
  <2> QED
    BY <1>1, <2>1, TypesNow, ZenonT(40)
<1>3. /\ TargetTypes' /\ \A d \in Clients \ {c} : target'[d] = target[d]
      /\ target'[c].closed = target[c].closed /\ target'[c].reply = target[c].reply
      /\ target'[c].back = target[c].back
  <2>1. CASE \E failed \in BOOLEAN : target' = [target EXCEPT ![c].fwd = failed]
    BY <2>1 DEF ServeInv, TargetTypes
  <2>2. CASE target' = [target EXCEPT ![c].got = @ + 1]
    BY <2>2 DEF ServeInv, TargetTypes
  <2>3. CASE target' = [target EXCEPT ![c].fwd = TRUE, ![c].eof = TRUE]
    BY <2>3, ZenonT(40) DEF ServeInv, TargetTypes
  <2> QED
    BY <1>1, <2>1, <2>2, <2>3, Zenon
<1>4. Proxied(c)'
  BY <1>1, <1>3, Types DEF Sound, Proxied
<1> QED
  BY <1>1, <1>2, <1>3, <1>4, TypesNow, TargetServe, Zenon

\* From the target to the client, and the target itself.
LEMMA BackServe ==
  ASSUME ServeInv, NEW c \in Clients, BackCopy(c) \/ BackEOF(c) \/ TargetStep(c) PROVE ServeInv'
<1>1. /\ UNCHANGED <<spec, legacy, proc, out, outOpen, spoilt, main, feed, sent, dest, hand, at, got>>
      /\ at[c] = "proxy"
      /\ \/ target[c].reply = 1 /\ target' = [target EXCEPT ![c].reply = 2] /\ down' = down
         \/ /\ target[c].closed /\ target[c].reply # 1 /\ target' = [target EXCEPT ![c].back = TRUE]
            /\ down' = [down EXCEPT ![c] = IF @ = "open" THEN "fin" ELSE @]
         \/ ~target[c].closed /\ target[c].reply = 0 /\ target' = [target EXCEPT ![c].reply = 1] /\ down' = down
         \/ ~target[c].closed /\ target' = [target EXCEPT ![c].closed = TRUE] /\ down' = down
  BY DEF BackCopy, BackEOF, TargetStep, serverVars, clientVars
<1>2. down' \in [Clients -> Downs] /\ \A d \in Clients \ {c} : down'[d] = down[d]
  BY <1>1, TypesNow, Zenon DEF Downs
<1>3. hand[c].kind = "proxy" /\ Proxied(c)
  BY <1>1, Types DEF Sound, Placed
<1>4. /\ TargetTypes' /\ \A d \in Clients \ {c} : target'[d] = target[d]
      /\ Proxied(c)'
  <2>1. CASE target[c].reply = 1 /\ target' = [target EXCEPT ![c].reply = 2] /\ down' = down
    <3>1. /\ TargetTypes' /\ target'[c].reply = 2 /\ target'[c].closed = target[c].closed
          /\ target'[c].back = target[c].back /\ \A d \in Clients \ {c} : target'[d] = target[d]
      BY <2>1 DEF ServeInv, TargetTypes
    <3> QED
      BY <1>1, <1>3, <2>1, <3>1 DEF Proxied
  <2>2. CASE /\ target[c].closed /\ target[c].reply # 1 /\ target' = [target EXCEPT ![c].back = TRUE]
             /\ down' = [down EXCEPT ![c] = IF @ = "open" THEN "fin" ELSE @]
    <3>1. /\ TargetTypes' /\ target'[c].reply = target[c].reply /\ target'[c].closed = target[c].closed
          /\ \A d \in Clients \ {c} : target'[d] = target[d]
      BY <2>2, Zenon DEF ServeInv, TargetTypes
    <3> QED
      BY <1>1, <1>3, <2>2, <3>1 DEF Proxied
  <2>3. CASE ~target[c].closed /\ target[c].reply = 0 /\ target' = [target EXCEPT ![c].reply = 1] /\ down' = down
    <3>1. /\ TargetTypes' /\ target'[c].closed = target[c].closed
          /\ target'[c].back = target[c].back /\ \A d \in Clients \ {c} : target'[d] = target[d]
      BY <2>3 DEF ServeInv, TargetTypes
    <3> QED
      BY <1>1, <1>3, <2>3, <3>1 DEF Proxied
  <2>4. CASE ~target[c].closed /\ target' = [target EXCEPT ![c].closed = TRUE] /\ down' = down
    <3>1. /\ TargetTypes' /\ target'[c].reply = target[c].reply
          /\ target'[c].back = target[c].back /\ \A d \in Clients \ {c} : target'[d] = target[d]
      BY <2>4, ZenonT(40) DEF ServeInv, TargetTypes
    <3> QED
      BY <1>1, <1>3, <2>4, <3>1 DEF Proxied
  <2> QED
    BY <1>1, <2>1, <2>2, <2>3, <2>4
<1> QED
  BY <1>1, <1>2, <1>4, TypesNow, TargetServe, Zenon

\* Both directions are over.
LEMMA OverServe == ASSUME ServeInv, NEW c \in Clients, ProxyClose(c) PROVE ServeInv'
<1>1. /\ UNCHANGED <<spec, legacy, proc, out, outOpen, spoilt, main, feed, sent, dest, hand, got, target>>
      /\ at[c] = "proxy" /\ target[c].back /\ at' = [at EXCEPT ![c] = "over"] /\ Closed(c)
  BY DEF ProxyClose, serverVars, clientVars
<1>2. down' \in [Clients -> Downs] /\ \A d \in Clients \ {c} : down'[d] = down[d]
  BY <1>1, ClosedIs
<1>3. at' \in [Clients -> Places] /\ at'[c] = "over" /\ \A d \in Clients \ {c} : at'[d] = at[d]
  BY <1>1, TypesNow, Zenon DEF Places
<1>4. ServeTypeOK' /\ TargetTypes' /\ DOMAIN hand' = Clients
  BY <1>1, <1>2, <1>3, TypesNow, TypesKept, Types, ZenonT(40) DEF ServeInv, TargetTypes
<1>5. Accepted' = Accepted
  BY <1>1, <1>3, Zenon DEF Accepted
<1>6. \A d \in Clients \ {c} : Apart(c, d)
  BY <1>1, <1>2, <1>3, <1>5, Zenon DEF Apart
<1>7. Sound(c) /\ hand[c].kind = "proxy" /\ hand[c] # Stdout
  BY <1>1, Types, Kinds, Zenon DEF Sound, Placed
<1>8. Sound(c)'
  BY <1>1, <1>3, <1>7, Zenon DEF Sound, Placed, Dialled, Piped, Proxied
<1> QED
  BY <1>4, <1>6, <1>8, OnlyOne

\* The invariant is inductive: no order of the steps of clients, handlers, targets
\* and the network breaks it.
LEMMA NextServe == ServeInv /\ [ServeNext]_serveVars => ServeInv'
<1> SUFFICES ASSUME ServeInv, [ServeNext]_serveVars PROVE ServeInv'
  OBVIOUS
<1>1. CASE UNCHANGED serveVars
  <2>1. UNCHANGED <<spec, legacy, proc, out, outOpen, spoilt, main, feed, sent, dest, hand, at, got, down, target>>
    BY <1>1, ZenonT(40) DEF serveVars, serverVars, clientVars, connVars
  <2>2. ServeTypeOK' /\ TargetTypes' /\ DOMAIN hand' = Clients
    BY <2>1, TypesNow, TypesKept, Types DEF ServeInv, TargetTypes
  <2>3. \A c \in Clients : Sound(c)'
    BY <2>1, Types, ZenonT(40) DEF Sound, Placed, Dialled, Piped, Proxied, Accepted
  <2> QED
    BY <2>2, <2>3, Zenon DEF ServeInv
<1>2. ASSUME NEW c \in Clients, ClientStep(c) PROVE ServeInv'
  BY <1>2, PingServe, DialServe, FeedServe, ReadServe, EOFServe, ExitServe DEF ClientStep
<1>3. ASSUME NEW c \in Clients, HandlerStart(c) \/ StdoutStep(c) \/ LateReset(c) PROVE ServeInv'
  BY <1>3, StartServe, CopyServe, CloseServe, DrainServe, LateServe DEF StdoutStep
<1>4. ASSUME NEW c \in Clients, ProxyStep(c) \/ TargetStep(c) PROVE ServeInv'
  BY <1>4, ForwardServe, BackServe, OverServe DEF ProxyStep
<1> QED
  BY <1>1, <1>2, <1>3, <1>4, ZenonT(40) DEF ServeNext

\* ServeInv holds in every reachable state.
THEOREM ServeInvariance == ServeSpec => []ServeInv
<1> QED
  BY InitServe, NextServe, PTL DEF ServeSpec

\* What a close confirms, from the invariant.
LEMMA InvConfirms == ServeInv => CloseConfirms
<1> SUFFICES ASSUME ServeInv, NEW c \in Clients, main[c] = "exit0"
             PROVE  /\ hand[c] = Stdout /\ Accepted = {c} =>
                         ~outOpen /\ (~spoilt => out = [i \in 1 .. Units |-> <<c, i>>])
                    /\ hand[c].kind = "proxy" => target[c].closed /\ target[c].reply \in {0, 3}
  BY ZenonT(40) DEF CloseConfirms
<1>1. Piped(c) /\ Proxied(c)
  BY Types DEF Sound
<1> QED
  BY <1>1, Zenon DEF Piped, Proxied

\* The handlers are the listed ones, from the invariant.
LEMMA InvExact == ServeInv => ServedExactly
<1> SUFFICES ASSUME ServeInv PROVE ServedAsListed /\ RefusedAsListed
  BY DEF ServedExactly
<1>1. spec \in Specs /\ \A c \in Clients : Dialled(c)
  BY Types, Zenon DEF Sound
<1>2. \A p \in Ports : p \in parsePortSet(spec).ports <=> Listed(p)
  <2>1. \A p \in Ports : p # 0 <=> p \in 1 .. MaxPort
    BY ServeAssumption DEF Ports
  <2> QED
    BY <1>1, <2>1, ParsedIs DEF Listed
<1>3. ASSUME NEW c \in Clients, dest[c] # NoDest, main[c] = "copy"
      PROVE  LET d == dest[c]
             IN  CASE d.net # "self" ->
                        /\ Named("exit-node")
                        /\ hand[c] = ForwardTo(<<IF d.net = "nat64" THEN "v4" ELSE d.net, d.host>>, d.port)
                   [] hand[c].kind = "ssh" -> d.port = SSHPort /\ (Named("no-auth-ssh") \/ Named("files"))
                   [] hand[c] = Stdout -> spec = {}
                   [] OTHER -> (Listed(d.port) \/ Named("exit-node")) /\ hand[c] = ForwardTo(Localhost, d.port)
  <2> DEFINE d == dest[c]
             h == hand[c]
  <2>1. d \in Dests /\ h = handleTCPForward(parsePortSet(spec), DialTCP(d)) /\ h # NoHandler
    BY <1>1, <1>3, Zenon DEF Dialled
  <2>2. d.port \in Ports
    BY <2>1, DialledIs, Zenon
  <2> HIDE DEF d, h
  <2>3. Lists(spec, d, h)
    BY <1>1, <2>1, HandlerIs
  <2>4. CASE d.net # "self"
    <3>1. (IF d.net \in {"v4", "nat64"} THEN "v4" ELSE d.net) = (IF d.net = "nat64" THEN "v4" ELSE d.net)
      BY Zenon
    <3>2. Named("exit-node") /\ h = ForwardTo(<<IF d.net = "nat64" THEN "v4" ELSE d.net, d.host>>, d.port)
      BY <2>3, <2>4, <3>1 DEF Named, Lists
    <3> QED
      BY <2>4, <3>2, Kinds DEF d, h
  <2>5. CASE d.net = "self"
    <3>1. \/ h = SSH /\ d.port = SSHPort /\ (Named("no-auth-ssh") \/ Named("files"))
          \/ h = Stdout /\ spec = {}
          \/ h = ForwardTo(Localhost, d.port) /\ (Listed(d.port) \/ Named("exit-node"))
      BY <1>2, <2>2, <2>3, <2>5 DEF Named, Lists
    <3> QED
      BY <2>5, <3>1, Kinds, Zenon DEF d, h
  <2> QED
    BY <2>4, <2>5, Zenon
<1>4. ServedAsListed
  BY <1>3, Zenon DEF ServedAsListed
<1>5. ASSUME NEW c \in Clients, main[c] = "dial", dest[c].net = "self",
             handleTCPForward(parsePortSet(spec), DialTCP(dest[c])) = NoHandler
      PROVE  /\ spec # {} /\ ~Listed(dest[c].port) /\ ~Named("exit-node")
             /\ dest[c].port = SSHPort => ~Named("no-auth-ssh") /\ ~Named("files")
  <2>1. dest[c] \in Dests
    BY <1>1, <1>5, Zenon DEF Dialled
  <2>2. dest[c].port \in Ports
    BY <2>1, DialledIs, Zenon
  <2> QED
    BY <1>1, <1>2, <1>5, <2>1, <2>2, RefusedIs, Zenon DEF Named
<1>6. RefusedAsListed
  BY <1>5 DEF RefusedAsListed
<1> QED
  BY <1>4, <1>6

\* Close confirms delivery: when a client exits with success after the only
\* connection of a server without a list, standard output is closed and all the
\* client's input is on it, in order, unless a write to it failed by itself and the
\* handler of masquecat_cli.go went on; after a connection to a target, the target
\* has closed and its whole reply was written.  For any number of clients and any
\* length of the input.
THEOREM Confirmation == ServeSpec => []CloseConfirms
<1> QED
  BY ServeInvariance, InvConfirms, PTL

\* For every list of ports and services that can be given, and every range of ports,
\* a connection gets the handler the list says, and none exactly when it says so:
\* the sorted ports, their ranges on 16 bits and the filter lose no port.
THEOREM Exactness == ServeSpec => []ServedExactly
<1> QED
  BY ServeInvariance, InvExact, PTL

\* Whichever side of a server runs, the owner's calls or the command's connections,
\* all four hold of it: the two sides do not disturb each other.
THEOREM ServingSide ==
  SideSpec => [](NothingLeaks /\ RunsAsConfigured /\ ServedExactly /\ CloseConfirms)
<1>1. SideInit => Init /\ ServeInit
  BY DEF SideInit
<1>2. [SideNext]_serverSideVars => [Next]_vars /\ [ServeNext]_serveVars
  BY DEF SideNext, Library, Command, serverSideVars
<1>3. SideSpec => Spec /\ ServeSpec
  BY <1>1, <1>2, PTL DEF SideSpec, Spec, ServeSpec
<1> QED
  BY <1>3, NoLeak, AsStarted, Exactness, Confirmation, PTL
=============================================================================
