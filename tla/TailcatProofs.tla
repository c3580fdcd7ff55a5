--------------------------- MODULE TailcatProofs ----------------------------
(***************************************************************************)
(* Theorems about the DERP transport (TailcatDERP): the tokens, the        *)
(* handshake of a server with its clients and the cache of DERP maps, for  *)
(* every set of clients, endpoints and processes, every DERP region and    *)
(* every bound.                                                            *)
(***************************************************************************)
EXTENDS TailcatDERP, SequenceLemmas

-----------------------------------------------------------------------------
(***************************************************************************)
(* The tokens.                                                             *)
(***************************************************************************)
\* The nodes of a DERP map, whose name ConnBlob may leave out.
Named == [name : STRING \cup {NoName}, host : STRING, region : Nat, stunOnly : BOOLEAN]

\* The nodes that wireRegionOf has after the next one, and after each of n.
AndNode(a, m) == IF m.stunOnly THEN a ELSE Append(a, m)
Keeping(g, w, n) == g = [i \in 0..n |-> IF i = 0 THEN <<>> ELSE AndNode(g[i - 1], w[i])]

\* The loop of wireRegionOf has a value.
LEMMA KeepingExists ==
  ASSUME NEW n \in Nat, NEW w \in [1..n -> Named]
  PROVE  \E g : Keeping(g, w, n)
<1> DEFINE A == Seq(Named)
           F == [x \in A \X (1..n) |-> AndNode(x[1], w[x[2]])]
           none == <<>>
<1>1. none \in A /\ \A a \in A, m \in Named : AndNode(a, m) \in A
  BY DEF AndNode
<1> HIDE DEF A, none
<1>2. F \in [A \X (1..n) -> A]
  BY <1>1
<1>3. \A a \in A, i \in 1..n : F[<<a, i>>] = AndNode(a, w[i])
  OBVIOUS
<1> HIDE DEF F
<1>4. PICK g \in [0..n -> A] : Loops(g, n, none, F)
  BY <1>1, <1>2, LoopExists, Zenon
<1>5. g[0] = none /\ \A i \in 1..n : g[i] = AndNode(g[i - 1], w[i])
  <2>1. \A i \in 1..n : g[i - 1] \in A
    OBVIOUS
  <2> QED
    BY <1>3, <1>4, <2>1, Zenon DEF Loops
<1>6. \A i \in 0..n : g[i] = IF i = 0 THEN <<>> ELSE AndNode(g[i - 1], w[i])
  BY <1>5 DEF none
<1> QED
  BY <1>6 DEF Keeping

\* Its rounds, one by one.
LEMMA KeepingSteps ==
  ASSUME NEW n \in Nat, NEW w, NEW g, Keeping(g, w, n)
  PROVE  g[0] = <<>> /\ \A i \in 1..n : g[i] = AndNode(g[i - 1], w[i])
  BY DEF Keeping

\* The loop keeps the nodes that relay, and no others.
LEMMA Kept ==
  ASSUME NEW n \in Nat, NEW w \in [1..n -> Named], NEW g, Keeping(g, w, n)
  PROVE  g[n] \in Seq(Named) /\ Range(g[n]) = {w[i] : i \in {j \in 1..n : ~w[j].stunOnly}}
<1>1. g[0] = <<>> /\ \A i \in 1..n : g[i] = AndNode(g[i - 1], w[i])
  BY KeepingSteps
<1> DEFINE Relaying(k) == {w[i] : i \in {j \in 1..k : ~w[j].stunOnly}}
           S == {k \in 0..n : g[k] \in Seq(Named) /\ Range(g[k]) = Relaying(k)}
<1>2. 0 \in S
  <2>1. Range(<<>>) = {} /\ <<>> \in Seq(Named)
    BY DEF Range
  <2>2. Relaying(0) = {}
    OBVIOUS
  <2> HIDE DEF Relaying
  <2> QED
    BY <1>1, <2>1, <2>2, 0 \in 0..n, Zenon
<1>3. ASSUME NEW k \in 1..n, k - 1 \in S PROVE k \in S
  <2>1. g[k] = AndNode(g[k - 1], w[k]) /\ w[k] \in Named
        /\ g[k - 1] \in Seq(Named) /\ Range(g[k - 1]) = Relaying(k - 1)
    BY <1>1, <1>3
  <2>2. CASE w[k].stunOnly
    <3>1. {j \in 1..k : ~w[j].stunOnly} = {j \in 1..(k - 1) : ~w[j].stunOnly}
      BY <2>2
    <3>2. Relaying(k) = Relaying(k - 1) /\ g[k] = g[k - 1]
      BY <2>1, <2>2, <3>1 DEF AndNode
    <3> HIDE DEF Relaying
    <3> QED
      BY <2>1, <3>2
  <2>3. CASE ~w[k].stunOnly
    <3>1. {j \in 1..k : ~w[j].stunOnly} = {j \in 1..(k - 1) : ~w[j].stunOnly} \cup {k}
      BY <2>3
    <3>2. Relaying(k) = Relaying(k - 1) \cup {w[k]}
      BY <3>1, Zenon
    <3>3. g[k] = Append(g[k - 1], w[k])
      BY <2>1, <2>3 DEF AndNode
    <3> HIDE DEF Relaying
    <3>4. Range(g[k]) = Range(g[k - 1]) \cup {w[k]} /\ g[k] \in Seq(Named)
      BY <2>1, <3>3, RangeAppend
    <3> QED
      BY <2>1, <3>2, <3>4, k \in 0..n, Zenon
  <2> QED
    BY <2>2, <2>3
<1> HIDE DEF S
<1>4. n \in S
  BY <1>2, <1>3, Upto, n \in 0..n, Zenon
<1> QED
  BY <1>4 DEF S

\* wireRegionOf keeps the nodes that relay, and no others.
LEMMA Relays ==
  ASSUME NEW r, r.nodes \in Seq(Named)
  PROVE  /\ RelayNodes(r) \in Seq(Named)
         /\ Range(RelayNodes(r)) = {m \in Range(r.nodes) : ~m.stunOnly}
<1>1. PICK n : n \in Nat /\ n = Len(r.nodes) /\ r.nodes \in [1..n -> Named]
  OBVIOUS
<1>2. PICK w : w = r.nodes
  OBVIOUS
<1> DEFINE g == CHOOSE g : Keeping(g, w, n)
<1>3. RelayNodes(r) = g[n]
  BY <1>1, <1>2 DEF RelayNodes, Keeping, AndNode
<1>4. Keeping(g, w, n)
  BY <1>1, <1>2, KeepingExists
<1> HIDE DEF g
<1>5. g[n] \in Seq(Named) /\ Range(g[n]) = {w[i] : i \in {j \in 1..n : ~w[j].stunOnly}}
  <2>1. n \in Nat /\ w \in [1..n -> Named]
    BY <1>1, <1>2
  <2> QED
    BY <1>4, <2>1, Kept, Zenon
<1>6. {w[i] : i \in {j \in 1..n : ~w[j].stunOnly}} = {m \in Range(w) : ~m.stunOnly}
  BY <1>1, <1>2 DEF Range
<1> QED
  BY <1>2, <1>3, <1>5, <1>6

\* What ConnBlob leaves out of a region and ParseConnBlob restores are not its hosts.
LEMMA HostsSurvive ==
  ASSUME NEW r, r.nodes \in Seq(Named)
  PROVE  LET q == ParsedRegion(WireRegion(r), 1) IN
         q.id = 1 /\ RelayHosts(q) = RelayHosts(r)
<1> DEFINE w == RelayNodes(r)
           v == WireRegion(r).nodes
           q == ParsedRegion(WireRegion(r), 1)
<1>1. w \in Seq(Named) /\ \A i \in DOMAIN w : ~w[i].stunOnly
  BY Relays DEF Range
<1>2. v = [i \in DOMAIN w |-> WireNode(w[i])]
  BY DEF WireRegion
<1>3. q.id = 1 /\ q.nodes = [i \in DOMAIN w |-> ParsedNode(WireNode(w[i]), 1)]
  BY <1>2 DEF ParsedRegion, WireRegion
<1>4. ASSUME NEW m \in Named, ~m.stunOnly
      PROVE  /\ ParsedNode(WireNode(m), 1) \in Named
             /\ ParsedNode(WireNode(m), 1).host = m.host /\ ~ParsedNode(WireNode(m), 1).stunOnly
  <2>1. WireNode(m) \in Named /\ WireNode(m).host = m.host /\ WireNode(m).stunOnly = m.stunOnly
    BY Zenon DEF WireNode, Named
  <2> QED
    BY <1>4, <2>1, Zenon DEF ParsedNode, Named
<1> HIDE DEF q, w
<1>5. q.nodes \in Seq(Named) /\ DOMAIN q.nodes = DOMAIN w
      /\ \A i \in DOMAIN w : q.nodes[i].host = w[i].host /\ ~q.nodes[i].stunOnly
  <2>1. \A i \in DOMAIN w : w[i] \in Named
    BY <1>1
  <2>2. \A i \in DOMAIN w : /\ ParsedNode(WireNode(w[i]), 1) \in Named
                            /\ ParsedNode(WireNode(w[i]), 1).host = w[i].host
                            /\ ~ParsedNode(WireNode(w[i]), 1).stunOnly
    BY <1>1, <1>4, <2>1
  <2>3. DOMAIN w = 1..Len(w) /\ Len(w) \in Nat
    BY <1>1
  <2> QED
    BY <1>3, <2>2, <2>3
<1>6. Range(RelayNodes(q)) = Range(q.nodes)
  <2>1. Range(RelayNodes(q)) = {m \in Range(q.nodes) : ~m.stunOnly}
    BY <1>5, Relays
  <2>2. \A m \in Range(q.nodes) : ~m.stunOnly
    BY <1>5 DEF Range
  <2> QED
    BY <2>1, <2>2
<1>7. {m.host : m \in Range(q.nodes)} = {m.host : m \in Range(w)}
  BY <1>5 DEF Range
<1> QED
  BY <1>3, <1>6, <1>7, Zenon DEF RelayHosts, q, w

\* Among nodes that all relay, wireRegionOf leaves none out and keeps their order.
LEMMA KeepsAll ==
  ASSUME NEW r, r.nodes \in Seq(Named), \A i \in DOMAIN r.nodes : ~r.nodes[i].stunOnly
  PROVE  RelayNodes(r) = r.nodes
<1>1. PICK w, n : w = r.nodes /\ n = Len(w) /\ n \in Nat /\ w \in [1..n -> Named]
  OBVIOUS
<1> DEFINE g == CHOOSE g : Keeping(g, w, n)
<1>2. RelayNodes(r) = g[n]
  BY <1>1 DEF RelayNodes, Keeping, AndNode
<1>3. Keeping(g, w, n)
  BY <1>1, KeepingExists
<1> HIDE DEF g
<1>4. g[0] = <<>> /\ \A k \in 1..n : g[k] = Append(g[k - 1], w[k])
  <2>1. g[0] = <<>> /\ \A k \in 1..n : g[k] = AndNode(g[k - 1], w[k])
    <3>1. n \in Nat
      BY <1>1
    <3> QED
      BY <1>3, <3>1, KeepingSteps
  <2>2. \A k \in 1..n : ~w[k].stunOnly
    BY <1>1
  <2> QED
    BY <2>1, <2>2, Zenon DEF AndNode
<1> DEFINE S == {k \in 0..n : g[k] \in Seq(Named) /\ Len(g[k]) = k /\ \A i \in 1..k : g[k][i] = w[i]}
<1>5. 0 \in S
  <2>1. <<>> \in Seq(Named) /\ Len(<<>>) = 0 /\ 1..0 = {} /\ 0 \in 0..n
    BY <1>1
  <2> QED
    BY <1>4, <2>1, Zenon
<1>6. ASSUME NEW k \in 1..n, k - 1 \in S PROVE k \in S
  <2>1. /\ g[k - 1] \in Seq(Named) /\ Len(g[k - 1]) = k - 1 /\ w[k] \in Named
        /\ g[k] = Append(g[k - 1], w[k]) /\ \A i \in 1..k - 1 : g[k - 1][i] = w[i]
    BY <1>1, <1>4, <1>6
  <2>2. /\ g[k] \in Seq(Named) /\ Len(g[k]) = k - 1 + 1 /\ g[k][k - 1 + 1] = w[k]
        /\ \A i \in 1..k - 1 : g[k][i] = w[i]
    BY <2>1, Appended
  <2> QED
    BY <1>1, <2>2
<1> HIDE DEF S
<1>7. n \in S
  BY <1>1, <1>5, <1>6, Upto, n \in 0..n, Zenon
<1>8. g[n] \in Seq(Named) /\ Len(g[n]) = n /\ \A i \in 1..n : g[n][i] = w[i]
  BY <1>7 DEF S
<1> QED
  BY <1>1, <1>2, <1>8

\* "The same transforms are undone on the way back": what ConnBlob drops of a
\* region is what ParseConnBlob makes up, whatever number the region has there.
LEMMA RegionStable ==
  ASSUME NEW r, r.nodes \in Seq(Named), NEW j \in Nat \ {0}
  PROVE  WireRegion(ParsedRegion(WireRegion(r), j)) = WireRegion(r)
<1> DEFINE w == RelayNodes(r)
           q == ParsedRegion(WireRegion(r), j)
<1>1. w \in Seq(Named) /\ \A i \in DOMAIN w : ~w[i].stunOnly /\ w[i] \in Named
  BY Relays DEF Range
<1>2. WireRegion(r) = [id |-> 0, code |-> 0, nodes |-> [i \in DOMAIN w |-> WireNode(w[i])]]
  BY DEF WireRegion
<1>3. q.nodes = [i \in DOMAIN w |-> ParsedNode(WireNode(w[i]), j)]
  BY <1>2 DEF ParsedRegion
<1> HIDE DEF q, w
<1>4. ASSUME NEW m \in Named, ~m.stunOnly
      PROVE  /\ ParsedNode(WireNode(m), j) \in Named /\ ~ParsedNode(WireNode(m), j).stunOnly
             /\ WireNode(ParsedNode(WireNode(m), j)) = WireNode(m)
  <2>1. PICK v : /\ v = WireNode(m) /\ v \in Named /\ v.region = 0 /\ ~v.stunOnly
                 /\ v.host # NoName => v.name = NoName
    <3>1. WireNode(m) \in Named /\ WireNode(m).region = 0 /\ WireNode(m).stunOnly = m.stunOnly
      BY Zenon DEF WireNode, Named
    <3>2. WireNode(m).host = m.host /\ (m.host # NoName => WireNode(m).name = NoName)
      BY Zenon DEF WireNode, Named
    <3> QED
      BY <1>4, <3>1, <3>2, Zenon
  <2>2. PICK p : /\ p = ParsedNode(v, j) /\ p \in Named /\ p.stunOnly = v.stunOnly /\ p.host = v.host
                 /\ v.host = NoName => p.name = v.name
    <3>1. ParsedNode(v, j) \in Named /\ ParsedNode(v, j).host = v.host /\ ParsedNode(v, j).stunOnly = v.stunOnly
      BY <2>1, Zenon DEF ParsedNode, Named
    <3>2. v.host = NoName => ParsedNode(v, j).name = v.name
      BY <2>1, Zenon DEF ParsedNode, Named
    <3> QED
      BY <3>1, <3>2, Zenon
  <2>3. WireNode(p) = v
    BY <2>1, <2>2, Zenon DEF WireNode, Named
  <2> QED
    BY <2>1, <2>2, <2>3
<1>5. q.nodes \in Seq(Named) /\ \A i \in DOMAIN q.nodes : ~q.nodes[i].stunOnly
  <2>1. DOMAIN w = 1..Len(w) /\ Len(w) \in Nat
    BY <1>1
  <2> QED
    BY <1>1, <1>3, <1>4, <2>1
<1>6. RelayNodes(q) = q.nodes
  BY <1>5, KeepsAll
<1>7. WireRegion(q) = [id |-> 0, code |-> 0, nodes |-> [i \in DOMAIN w |-> WireNode(q.nodes[i])]]
  BY <1>3, <1>6 DEF WireRegion
<1>8. \A i \in DOMAIN w : WireNode(q.nodes[i]) = WireNode(w[i])
  BY <1>1, <1>3, <1>4
<1> QED
  BY <1>2, <1>7, <1>8, Zenon DEF q

\* A token that was parsed and is encoded again is the token it was, as long as
\* it is ConnBlob's: neither direction loses or invents what the other needs.
THEOREM TokenStable ==
  ASSUME NEW s, NEW d, NEW regions, \A i \in DOMAIN regions : regions[i].nodes \in Seq(Named),
         DOMAIN regions \subseteq Nat \ {0}
  PROVE  LET b == ConnBlob([server |-> s, id |-> d, regions |-> regions])
         IN  ConnBlob(ParseConnBlob(b)) = b
<1> DEFINE b == ConnBlob([server |-> s, id |-> d, regions |-> regions])
           Encoded(rs) == [server |-> s, id |-> d, regions |-> rs]
<1>1. b = Encoded([i \in DOMAIN regions |-> WireRegion(regions[i])])
  BY DEF ConnBlob
<1>2. ParseConnBlob(b) = Encoded([i \in DOMAIN regions |-> ParsedRegion(WireRegion(regions[i]), i)])
  BY <1>1 DEF ParseConnBlob
<1>3. ConnBlob(ParseConnBlob(b)) =
        Encoded([i \in DOMAIN regions |-> WireRegion(ParsedRegion(WireRegion(regions[i]), i))])
  <2> DEFINE ps == [i \in DOMAIN regions |-> ParsedRegion(WireRegion(regions[i]), i)]
  <2>1. DOMAIN ps = DOMAIN regions /\ \A i \in DOMAIN regions : ps[i] = ParsedRegion(WireRegion(regions[i]), i)
    BY Zenon
  <2> HIDE DEF ps
  <2>2. ConnBlob(Encoded(ps)) = Encoded([i \in DOMAIN ps |-> WireRegion(ps[i])])
    BY DEF ConnBlob
  <2> HIDE DEF Encoded
  <2>3. [i \in DOMAIN ps |-> WireRegion(ps[i])]
          = [i \in DOMAIN regions |-> WireRegion(ParsedRegion(WireRegion(regions[i]), i))]
    BY <2>1, Zenon
  <2> QED
    BY <1>2, <2>2, <2>3, Zenon DEF ps
<1>4. \A i \in DOMAIN regions : WireRegion(ParsedRegion(WireRegion(regions[i]), i)) = WireRegion(regions[i])
  BY RegionStable
<1> QED
  BY <1>1, <1>3, <1>4

\* The hosts that relay, node by node.
LEMMA HostsOf ==
  ASSUME NEW r, r.nodes \in Seq(Named)
  PROVE  RelayHosts(r) = {r.nodes[i].host : i \in {j \in DOMAIN r.nodes : ~r.nodes[j].stunOnly}}
  BY Relays DEF RelayHosts, Range

\* A region at which client c can look for the server.
Found(c, r) ==
  /\ r.id # 0 /\ RelayHosts(r) \subseteq RelayHosts(Region)
  /\ c \notin resolved \/ RelayNearby => RelayHosts(r) # {}

\* Whichever token a client was given, resolved or not, that is the region it uses.
LEMMA RegionFound == \A c \in Clients : Found(c, RegionOf(c))
<1> SUFFICES ASSUME NEW c \in Clients PROVE Found(c, RegionOf(c))
  OBVIOUS
<1> DEFINE k == Tokens[c].server
<1>1. Region.nodes \in Seq(Named) /\ Region.id \in Nat \ {0} /\ RelayHosts(Region) # {}
      /\ Region = [id |-> Region.id, code |-> Region.code, nodes |-> Region.nodes]
  <2>1. Region.nodes \in Seq(DERPNode) /\ Region.id \in Nat \ {0}
        /\ Region = [id |-> Region.id, code |-> Region.code, nodes |-> Region.nodes]
    BY TokensAssumption
  <2>2. DERPNode \subseteq Named
    BY DEF DERPNode, Named
  <2>3. Region.nodes \in Seq(Named)
    BY <2>1, <2>2
  <2>4. PICK i \in DOMAIN Region.nodes : ~Region.nodes[i].stunOnly
    BY TokensAssumption
  <2>5. RelayHosts(Region) = {Region.nodes[j].host : j \in {j \in DOMAIN Region.nodes : ~Region.nodes[j].stunOnly}}
    BY <2>3, HostsOf
  <2>6. Region.nodes[i].host \in RelayHosts(Region)
    BY <2>4, <2>5, Zenon
  <2> QED
    BY <2>1, <2>3, <2>6
<1>2. ASSUME NEW s, NEW i, NEW r, r.nodes \in Seq(Named)
      PROVE  LET b == ConnBlob([server |-> s, id |-> i, regions |-> <<r>>]) IN
             /\ b.regions # <<>>
             /\ Expand(ParseConnBlob(b), DERPMap).regions[1] = ParsedRegion(WireRegion(r), 1)
  <2> DEFINE b == ConnBlob([server |-> s, id |-> i, regions |-> <<r>>])
  <2>1. b = [server |-> s, id |-> i, regions |-> <<WireRegion(r)>>]
    BY DEF ConnBlob
  <2>2. ParseConnBlob(b) = [server |-> s, id |-> i, regions |-> <<ParsedRegion(WireRegion(r), 1)>>]
    BY <2>1 DEF ParseConnBlob
  <2> QED
    BY <2>1, <2>2 DEF Expand, NeedsMap
<1>3. CASE Tokens[c] = ConnBlob([server |-> k, id |-> 0, regions |-> <<Region>>])
  <2>1. RegionOf(c) = ParsedRegion(WireRegion(Region), 1)
    BY <1>1, <1>2, <1>3 DEF RegionOf, Token, Resolve
  <2> QED
    BY <1>1, <2>1, HostsSurvive DEF Found
<1>4. CASE /\ Tokens[c] = [server |-> k, id |-> Region.id, regions |-> <<>>]
           /\ DERPMap[Region.id] = Region
  <2>1. ParseConnBlob(Tokens[c]) = Tokens[c]
    BY <1>4 DEF ParseConnBlob
  <2>2. Expand(Tokens[c], DERPMap) = [server |-> k, id |-> Region.id, regions |-> <<Region>>]
    BY <1>1, <1>4 DEF Expand, NeedsMap
  <2>3. CASE c \notin resolved
    BY <1>1, <2>1, <2>2, <2>3 DEF RegionOf, Token, Found
  <2>4. CASE c \in resolved
    <3> DEFINE r == Shortened(Region)
    <3>1. r.nodes = SubSeq(Region.nodes, 1, IF Len(Region.nodes) < 2 THEN Len(Region.nodes) ELSE 2)
      BY <1>1 DEF Shortened
    <3>2. /\ r.nodes \in Seq(Named) /\ DOMAIN r.nodes = DOMAIN Region.nodes \cap 1..2
          /\ \A i \in DOMAIN r.nodes : r.nodes[i] = Region.nodes[i]
      BY <1>1, <3>1
    <3>3. Token(c) = ConnBlob([server |-> k, id |-> 0, regions |-> <<r>>])
      <4> DEFINE ci == Expand(Tokens[c], DERPMap)
      <4>1. ci.server = k /\ ci.regions = <<Region>>
        BY <2>2
      <4>2. [i \in DOMAIN <<Region>> |-> Shortened(<<Region>>[i])] = <<Shortened(Region)>>
        OBVIOUS
      <4>3. Token(c) = ConnBlob([server |-> ci.server, id |-> 0,
                 regions |-> [i \in DOMAIN ci.regions |-> Shortened(ci.regions[i])]])
        <5>1. Tokens[c].regions = <<>>
          BY <1>4
        <5>2. Token(c) = Resolve(Tokens[c], DERPMap)
          BY <2>4 DEF Token
        <5> QED
          BY <2>1, <5>1, <5>2, Zenon DEF Resolve
      <4> QED
        BY <4>1, <4>2, <4>3
    <3> HIDE DEF r
    <3>4. RegionOf(c) = ParsedRegion(WireRegion(r), 1)
      BY <1>2, <3>2, <3>3 DEF RegionOf
    <3>5. (RelayNearby => RelayHosts(r) # {}) /\ RelayHosts(r) \subseteq RelayHosts(Region)
      <4>1. RelayNearby => \E i \in DOMAIN r.nodes : ~r.nodes[i].stunOnly
        BY <3>2, Zenon DEF RelayNearby
      <4>2. RelayHosts(r) = {r.nodes[j].host : j \in {j \in DOMAIN r.nodes : ~r.nodes[j].stunOnly}}
        BY <3>2, HostsOf
      <4>3. RelayHosts(Region) = {Region.nodes[j].host : j \in {j \in DOMAIN Region.nodes : ~Region.nodes[j].stunOnly}}
        BY <1>1, HostsOf
      <4>4. RelayNearby => RelayHosts(r) # {}
        BY <4>1, <4>2, Zenon
      <4>5. \A j \in DOMAIN r.nodes : j \in DOMAIN Region.nodes /\ r.nodes[j] = Region.nodes[j]
        BY <3>2
      <4>6. RelayHosts(r) \subseteq RelayHosts(Region)
        BY <4>2, <4>3, <4>5
      <4> QED
        BY <4>4, <4>6
    <3> QED
      BY <2>4, <3>2, <3>4, <3>5, HostsSurvive DEF Found
  <2> QED
    BY <2>3, <2>4
<1> QED
  BY <1>3, <1>4, TokensAssumption, Zenon

-----------------------------------------------------------------------------
(***************************************************************************)
(* The handshake and the advertisements.                                   *)
(***************************************************************************)
\* The server and its clients.  Who is in a network map or a peer of magicsock is
\* a client; before Start gave magicsock its map every client is an early one; and
\* who was acknowledged, or is a client, is a peer unless it was early.
Acquainted ==
  /\ srv \in {"new", "derp", "nm", "set", "up", "closed"}
  /\ allowed \subseteq Clients /\ early \subseteq Clients
  /\ clients \in Seq(Clients) /\ IsInjective(clients)
  /\ nm \subseteq Known /\ mc \subseteq Known
  /\ srv \in {"new", "derp", "nm"} => Known \subseteq early
  /\ \A c \in Clients :
       /\ (c \in meowWait \/ Meowed(c) \in net) /\ c \notin early
            => c \in Known \cap nm \cap mc
       /\ c \in Known => c \in early \cup (nm \cap mc)

\* The calls of the clients: what they have by the time they are where they are.
Calling ==
  /\ loc \in [Clients -> {"idle", "fetch", "refetch", "wait"}]
  /\ resolved \subseteq Clients /\ built \subseteq Clients /\ started \subseteq built
  /\ closed \subseteq built /\ upDone \subseteq started /\ upDone \subseteq meowWait
  /\ meowWait \subseteq built
  /\ cache \in {"none", "fresh", "stale"}
  /\ \A c \in Clients : /\ loc[c] = "wait" => c \in started
                        /\ loc[c] \in {"fetch", "refetch"} => c \in built

\* The advertisements: a node has endpoints once it started, and none is lost.
AdvTypes ==
  /\ eps \in [Nodes -> Endpoints \cup {NoEps}]
  /\ due \in [Nodes -> 0..MaxPending]
  /\ out \in [Nodes -> SUBSET ((Clients \cup {Server}) \X (Endpoints \cup {NoEps}))]
  /\ tried \subseteq Nodes \X (Clients \cup {Server})
Advertised ==
  /\ \A n \in Nodes \ {Server} : eps[n] # NoEps => n \in started
  /\ NoLostAdvertisement

EnvTypes == net \subseteq Packets /\ events \in 0..MaxEvents

HandshakeInv == Acquainted /\ Calling /\ AdvTypes /\ Advertised /\ EnvTypes

\* The clients are clients.
LEMMA KnownClients == Acquainted => Known \subseteq Clients
  BY DEF Acquainted, Known, Range

\* The invariant has the types of the module.
LEMMA HandshakeTypes == HandshakeInv => TypeOK
<1> SUFFICES ASSUME HandshakeInv PROVE TypeOK
  OBVIOUS
<1>1. Known \subseteq Clients /\ nm \subseteq Clients /\ mc \subseteq Clients
  BY KnownClients DEF HandshakeInv, Acquainted
<1> QED
  BY <1>1 DEF HandshakeInv, Acquainted, Calling, AdvTypes, EnvTypes, TypeOK

\* Nobody knows anybody at first.
LEMMA InitHandshake == Init => HandshakeInv
<1> SUFFICES ASSUME Init PROVE HandshakeInv
  OBVIOUS
<1>1. Known = {} /\ clients \in Seq(Clients) /\ IsInjective(clients)
  BY DEF Init, Known, Range, IsInjective
<1>2. Acquainted
  BY <1>1, TailcatAssumption DEF Init, Acquainted
<1>3. Calling
  BY DEF Init, Calling
<1>4. AdvTypes /\ Advertised
  BY TailcatAssumption DEF Init, AdvTypes, Advertised, NoLostAdvertisement
<1>5. EnvTypes
  BY TailcatAssumption DEF Init, EnvTypes
<1> QED
  BY <1>2, <1>3, <1>4, <1>5 DEF HandshakeInv

\* Whoever leaves the list of clients alone leaves the clients alone.
LEMMA KnownKept == clients' = clients => Known' = Known
  BY DEF Known

\* Events are counted up to their bound.
LEMMA EventCounted == events \in 0..MaxEvents /\ (Event \/ UNCHANGED events) => events' \in 0..MaxEvents
  BY TailcatAssumption DEF Event

\* The server, the peers it has and the advertisements are not concerned: a call of
\* a client up to its meow, or a packet that is lost.
Quiet ==
  /\ UNCHANGED <<srv, clients, nm, mc, early, meowWait>> /\ UNCHANGED advVars
  /\ allowed' \subseteq Clients /\ started \subseteq started'
  /\ net' \subseteq net \cup {Meow(c) : c \in Clients}
  /\ Event \/ UNCHANGED events

\* Then all but the calls is as good as before.  A client that starts has no
\* endpoints yet that its new peer, the server, could miss.
LEMMA QuietKeeps ==
  ASSUME HandshakeInv, Quiet
  PROVE  Acquainted' /\ AdvTypes' /\ Advertised' /\ EnvTypes'
<1>1. \A c \in Clients : Meowed(c) \in net' => Meowed(c) \in net
  BY DEF Quiet, Meow, Meowed
<1>2. Acquainted'
  BY <1>1, KnownKept DEF HandshakeInv, Acquainted, Quiet
<1>3. AdvTypes'
  BY DEF HandshakeInv, AdvTypes, Quiet, advVars
<1>4. Advertised'
  BY DEF HandshakeInv, Advertised, NoLostAdvertisement, Peers, Nodes, Quiet, advVars
<1>5. net' \subseteq Packets
  BY DEF HandshakeInv, EnvTypes, Quiet, Packets
<1>6. events' \in 0..MaxEvents
  BY EventCounted, ZenonT(40) DEF HandshakeInv, EnvTypes, Quiet
<1> QED
  BY <1>2, <1>3, <1>4, <1>5, <1>6 DEF EnvTypes

\* A step of Server.Start changes how far it got, and perhaps a map.
LEMMA StartKeeps ==
  ASSUME HandshakeInv, SrvStart \/ SrvStoreMap \/ SrvSetMap \/ SrvUp \/ SrvClose
  PROVE  HandshakeInv'
<1> USE DEF SrvStart, SrvStoreMap, SrvSetMap, SrvUp, SrvClose
<1>1. /\ UNCHANGED <<allowed, clients, early, cliVars, advVars, meowWait, net>>
      /\ Event \/ UNCHANGED events
  OBVIOUS
<1>2. nm' \subseteq nm /\ mc' \subseteq mc
  OBVIOUS
<1>3. Acquainted'
  BY KnownKept, Zenon DEF HandshakeInv, Acquainted
<1>4. Calling' /\ AdvTypes'
  BY <1>1, Zenon DEF HandshakeInv, Calling, AdvTypes, cliVars, advVars
<1>5. Advertised'
  BY <1>1, <1>2, Zenon DEF HandshakeInv, Advertised, NoLostAdvertisement, Peers, cliVars, advVars
<1>6. EnvTypes'
  BY <1>1, EventCounted DEF HandshakeInv, EnvTypes
<1> QED
  BY <1>3, <1>4, <1>5, <1>6 DEF HandshakeInv

\* A start that fails takes the peers and the advertisements of the server along;
\* its clients count as early from then on.
LEMMA StartFailsKeeps ==
  ASSUME HandshakeInv, SrvStartFails
  PROVE  HandshakeInv'
<1>1. Known' = {} /\ clients' \in Seq(Clients) /\ IsInjective(clients')
  <2>1. clients' = <<>>
    BY DEF SrvStartFails
  <2>2. Range(<<>>) = {} /\ IsInjective(<<>>) /\ <<>> \in Seq(Clients)
    BY DEF Range, IsInjective
  <2> QED
    BY <2>1, <2>2 DEF Known
<1>2. Acquainted'
  BY <1>1, KnownClients DEF HandshakeInv, Acquainted, SrvStartFails
<1>3. Calling'
  BY DEF HandshakeInv, Calling, SrvStartFails, cliVars
<1>4. AdvTypes'
  BY TailcatAssumption DEF HandshakeInv, AdvTypes, SrvStartFails, Nodes
<1>5. Advertised'
  BY DEF HandshakeInv, Acquainted, AdvTypes, Advertised, NoLostAdvertisement, Peers, Nodes,
         SrvStartFails, cliVars
<1>6. EnvTypes'
  BY EventCounted DEF HandshakeInv, EnvTypes, SrvStartFails
<1> QED
  BY <1>2, <1>3, <1>4, <1>5, <1>6, ZenonT(40) DEF HandshakeInv

\* A meow makes a client known, in the map and to magicsock at once, or changes nothing.
LEMMA MeowKeeps ==
  ASSUME HandshakeInv, NEW c \in Clients, OnMeow(c)
  PROVE  HandshakeInv'
<1>1. /\ net' \subseteq net \cup {Meowed(c)} /\ (Event \/ UNCHANGED events)
      /\ UNCHANGED <<srv, allowed, eps, out, tried, cliVars, meowWait>>
      /\ Meowed(c) \in net' => Meowed(c) \in net \/ Admitted(c)
  BY DEF OnMeow, Delivered
<1>2. Calling' /\ EnvTypes'
  <2>1. net' \subseteq Packets
    BY <1>1 DEF HandshakeInv, EnvTypes, Packets
  <2> QED
    BY <1>1, <2>1, EventCounted DEF HandshakeInv, Calling, EnvTypes, cliVars
<1>3. \A x \in Clients \ {c} : Meowed(x) \in net' => Meowed(x) \in net
  BY <1>1 DEF Meowed
<1>4. CASE UNCHANGED <<clients, nm, mc, early, due>> /\ (Admitted(c) => c \in Known)
  <2>1. Acquainted'
    BY <1>1, <1>3, <1>4, KnownKept, Zenon DEF HandshakeInv, Acquainted
  <2>2. AdvTypes' /\ Advertised'
    BY <1>1, <1>4, Zenon DEF HandshakeInv, AdvTypes, Advertised, NoLostAdvertisement, Peers, cliVars
  <2> QED
    BY <1>2, <2>1, <2>2, Zenon DEF HandshakeInv
<1>5. CASE /\ c \notin Known /\ due[Server] < MaxPending /\ Listening
           /\ clients' = Append(clients, c)
           /\ nm' = Known \cup {c} /\ mc' = Known \cup {c}
           /\ early' = IF srv \in {"derp", "nm"} THEN early \cup {c} ELSE early
           /\ due' = [due EXCEPT ![Server] = @ + 1]
  <2>1. clients' \in Seq(Clients) /\ Known' = Known \cup {c} /\ IsInjective(clients')
    BY <1>5 DEF HandshakeInv, Acquainted, Known, Range, IsInjective
  <2>2. Acquainted'
    BY <1>1, <1>3, <1>5, <2>1, Zenon DEF HandshakeInv, Acquainted, Listening
  <2>3. AdvTypes' /\ due'[Server] > 0 /\ \A n \in Nodes \ {Server} : due'[n] = due[n]
    BY <1>1, <1>5, TailcatAssumption DEF HandshakeInv, AdvTypes, Nodes
  <2>4. Advertised'
    BY <1>1, <1>5, <2>3, Zenon DEF HandshakeInv, Advertised, NoLostAdvertisement, Peers, cliVars
  <2> QED
    BY <1>2, <2>2, <2>3, <2>4, Zenon DEF HandshakeInv
<1> QED
  BY <1>4, <1>5 DEF OnMeow

\* A meowed makes its client advertise its endpoints, once.
LEMMA MeowedKeeps ==
  ASSUME HandshakeInv, NEW c \in Clients, OnMeowed(c)
  PROVE  HandshakeInv'
<1>1. /\ net' \subseteq net /\ (Event \/ UNCHANGED events) /\ UNCHANGED <<srvVars, cliVars, eps, out, tried>>
      /\ Meowed(c) \in net /\ c \in built /\ meowWait' = meowWait \cup {c}
  BY DEF OnMeowed, Delivered
<1>2. Acquainted'
  BY <1>1, KnownKept, Zenon DEF HandshakeInv, Acquainted, srvVars
<1>3. Calling' /\ EnvTypes'
  BY <1>1, EventCounted, ZenonT(40) DEF HandshakeInv, Calling, EnvTypes, cliVars
<1>4. /\ AdvTypes' /\ \A n \in Nodes \ {c} : due'[n] = due[n]
      /\ c \in Nodes \ meowWait => due'[c] > 0
      /\ c \in meowWait => due' = due
  <2>1. \/ c \in meowWait \cup Browsers /\ due' = due
        \/ c \in Nodes \ meowWait /\ due[c] < MaxPending /\ due' = [due EXCEPT ![c] = @ + 1]
    BY DEF OnMeowed
  <2>2. due \in [Nodes -> 0..MaxPending] /\ MaxPending \in Nat /\ (c \in Browsers => c \notin Nodes)
    BY TailcatAssumption DEF HandshakeInv, AdvTypes, Nodes
  <2>3. /\ due' \in [Nodes -> 0..MaxPending] /\ \A n \in Nodes \ {c} : due'[n] = due[n]
        /\ c \in Nodes \ meowWait => due'[c] > 0
        /\ c \in meowWait => due' = due
    BY <2>1, <2>2
  <2> QED
    BY <1>1, <2>3, Zenon DEF HandshakeInv, AdvTypes
<1>5. Advertised'
  BY <1>1, <1>4 DEF HandshakeInv, Advertised, NoLostAdvertisement, Peers, srvVars, cliVars
<1> QED
  BY <1>2, <1>3, <1>4, <1>5 DEF HandshakeInv

\* New endpoints are owed to all peers.
LEMMA StatusKeeps ==
  ASSUME HandshakeInv, NEW n \in Nodes, NEW e \in Endpoints \cup {NoEps}, OnEngineStatus(n, e)
  PROVE  HandshakeInv'
<1>1. UNCHANGED <<srvVars, cliVars, meowWait, net, out>> /\ Event
  BY DEF OnEngineStatus
<1>2. Acquainted'
  BY <1>1, KnownKept, Zenon DEF HandshakeInv, Acquainted, srvVars
<1>3. Calling' /\ EnvTypes'
  BY <1>1, EventCounted, ZenonT(40) DEF HandshakeInv, Calling, EnvTypes, cliVars
<1>4. /\ AdvTypes' /\ eps'[n] = e /\ (e # NoEps => due'[n] > 0)
      /\ \A m \in Nodes \ {n} : eps'[m] = eps[m] /\ due'[m] = due[m]
  <2>1. /\ eps' = [eps EXCEPT ![n] = e] /\ tried' \subseteq tried
        /\ due' = IF e = NoEps THEN due ELSE [due EXCEPT ![n] = @ + 1]
        /\ e # NoEps => due[n] < MaxPending
    BY DEF OnEngineStatus
  <2>2. eps' \in [Nodes -> Endpoints \cup {NoEps}] /\ due' \in [Nodes -> 0..MaxPending]
    BY <2>1, TailcatAssumption DEF HandshakeInv, AdvTypes
  <2>3. e # NoEps => due'[n] > 0
    BY <2>1 DEF HandshakeInv, AdvTypes
  <2> QED
    BY <1>1, <2>1, <2>2, <2>3 DEF HandshakeInv, AdvTypes
<1>5. \A m \in Nodes \ {n}, p \in Clients \cup {Server} : <<m, p>> \in tried => <<m, p>> \in tried'
  BY Zenon DEF OnEngineStatus
<1>6. \A m \in Nodes : Peers(m)' = Peers(m) /\ Peers(m) \subseteq Clients \cup {Server}
  BY <1>1, KnownClients, Zenon DEF HandshakeInv, Acquainted, Peers, srvVars, cliVars
<1>7. NoLostAdvertisement'
  BY <1>1, <1>4, <1>5, <1>6, Zenon DEF HandshakeInv, Advertised, NoLostAdvertisement, srvVars
<1>8. \A m \in Nodes \ {Server} : eps'[m] # NoEps => m \in started'
  BY <1>1, <1>4 DEF HandshakeInv, Advertised, OnEngineStatus, cliVars
<1> QED
  BY <1>2, <1>3, <1>4, <1>7, <1>8 DEF HandshakeInv, Advertised

\* advertiseEndpoints, under b.mu, takes what is owed to all peers on its way.
LEMMA ReadKeeps ==
  ASSUME HandshakeInv, NEW n \in Nodes, ReadEndpoints(n)
  PROVE  HandshakeInv'
<1>1. UNCHANGED <<eps, tried, srvVars, cliVars, meowWait, net, events>>
  BY Zenon DEF ReadEndpoints
<1>2. Acquainted' /\ Calling' /\ EnvTypes'
  BY <1>1, KnownKept, Zenon DEF HandshakeInv, Acquainted, Calling, EnvTypes, srvVars, cliVars
<1>3. \A m \in Nodes : Peers(m)' = Peers(m) /\ Peers(m) \subseteq Clients \cup {Server}
  BY <1>1, KnownClients, ZenonT(40) DEF HandshakeInv, Acquainted, Peers, srvVars, cliVars
<1>4. AdvTypes'
  BY <1>1, <1>3, TailcatAssumption DEF HandshakeInv, AdvTypes, ReadEndpoints
<1>5. /\ \A m \in Nodes \ {n} : due'[m] = due[m] /\ out'[m] = out[m]
      /\ eps[n] # NoEps => \A p \in Peers(n) : <<p, eps[n]>> \in out'[n]
  BY Zenon DEF HandshakeInv, AdvTypes, ReadEndpoints
<1>6. Advertised'
  BY <1>1, <1>3, <1>5, Zenon DEF HandshakeInv, Advertised, NoLostAdvertisement, srvVars, cliVars
<1> QED
  BY <1>2, <1>4, <1>6 DEF HandshakeInv

\* A packet that is sent is no longer owed; if it carries the present endpoints to a
\* peer that can use them, the attempt is on record.
LEMMA SendKeeps ==
  ASSUME HandshakeInv, NEW n \in Nodes, NEW a \in out[n], SendCallMeMaybe(n, a)
  PROVE  HandshakeInv'
<1>1. UNCHANGED <<eps, due, srvVars, cliVars, meowWait, net, events>>
  BY Zenon DEF SendCallMeMaybe
<1>2. Acquainted' /\ Calling' /\ EnvTypes'
  BY <1>1, KnownKept DEF HandshakeInv, Acquainted, Calling, EnvTypes, srvVars, cliVars
<1>3. a[1] \in Clients \cup {Server} /\ a = <<a[1], a[2]>>
  BY DEF HandshakeInv, AdvTypes
<1>4. AdvTypes'
  BY <1>1, <1>3 DEF HandshakeInv, AdvTypes, SendCallMeMaybe
<1>5. NoLostAdvertisement'
  <2> SUFFICES ASSUME NEW m \in Nodes, NEW p \in Peers(m),
                      eps[m] # NoEps, m \in Clients => m \in meowWait \ early
               PROVE  <<m, p>> \in tried' \/ due[m] > 0 \/ <<p, eps[m]>> \in out'[m]
    BY <1>1, Zenon DEF NoLostAdvertisement, Peers, srvVars, cliVars
  <2>1. <<m, p>> \in tried \/ due[m] > 0 \/ <<p, eps[m]>> \in out[m]
    BY Zenon DEF HandshakeInv, Advertised, NoLostAdvertisement
  <2>2. m # Server => m \in Known
    BY DEF HandshakeInv, Acquainted, Nodes
  <2> QED
    BY <1>3, <2>1, <2>2 DEF HandshakeInv, AdvTypes, SendCallMeMaybe, Understands
<1> QED
  BY <1>1, <1>2, <1>4, <1>5, Zenon DEF HandshakeInv, Advertised, cliVars

\* The calls of a client, up to its meow and from its answer on.
LEMMA CallKeeps ==
  ASSUME HandshakeInv, NEW c \in Clients,
         \/ Ping(c) \/ ResolveToken(c) \/ InitFails(c) \/ ExpandLocally(c) \/ StartFetch(c)
         \/ FetchAnswers(c) \/ FetchFails(c) \/ PingDone(c) \/ PingFails(c) \/ CliClose(c)
  PROVE  HandshakeInv'
<1> USE DEF Only, Goto, SendMeow, FirstUse
<1>1. CASE Ping(c)
  <2>1. Quiet
    BY <1>1, Zenon DEF HandshakeInv, Acquainted, Quiet, Ping, srvVars
  <2>2. Calling'
    BY <1>1, Zenon DEF HandshakeInv, Calling, Ping
  <2> QED
    BY <2>1, <2>2, QuietKeeps, Zenon DEF HandshakeInv
<1>2. CASE ResolveToken(c)
  <2>1. Quiet
    BY <1>2, Zenon DEF HandshakeInv, Acquainted, Quiet, ResolveToken, srvVars
  <2>2. Calling'
    BY <1>2, Zenon DEF HandshakeInv, Calling, ResolveToken
  <2> QED
    BY <2>1, <2>2, QuietKeeps DEF HandshakeInv
<1>3. CASE InitFails(c)
  <2>1. Quiet
    BY <1>3, Zenon DEF HandshakeInv, Acquainted, Quiet, InitFails, srvVars
  <2>2. Calling'
    BY <1>3, Zenon DEF HandshakeInv, Calling, InitFails
  <2> QED
    BY <2>1, <2>2, QuietKeeps DEF HandshakeInv
<1>4. CASE ExpandLocally(c)
  <2>1. Quiet
    BY <1>4, Zenon DEF HandshakeInv, Acquainted, Quiet, ExpandLocally, Begin, srvVars
  <2>2. Calling'
    BY <1>4, Zenon DEF HandshakeInv, Calling, ExpandLocally, Begin
  <2> QED
    BY <2>1, <2>2, QuietKeeps DEF HandshakeInv
<1>5. CASE StartFetch(c)
  <2>1. Quiet
    BY <1>5, Zenon DEF HandshakeInv, Acquainted, Quiet, StartFetch, srvVars
  <2>2. Calling'
    BY <1>5, Zenon DEF HandshakeInv, Calling, StartFetch
  <2> QED
    BY <2>1, <2>2, QuietKeeps DEF HandshakeInv
<1>6. CASE FetchAnswers(c)
  <2>1. Quiet
    BY <1>6, Zenon DEF HandshakeInv, Acquainted, Quiet, FetchAnswers, Begin, srvVars
  <2>2. Calling'
    BY <1>6, ZenonT(40) DEF HandshakeInv, Calling, FetchAnswers, Begin
  <2> QED
    BY <2>1, <2>2, QuietKeeps DEF HandshakeInv
<1>7. CASE FetchFails(c)
  <2>1. Quiet
    BY <1>7, Zenon DEF HandshakeInv, Acquainted, Quiet, FetchFails, Begin, srvVars
  <2>2. Calling'
    BY <1>7, ZenonT(40) DEF HandshakeInv, Calling, FetchFails, Begin
  <2> QED
    BY <2>1, <2>2, QuietKeeps DEF HandshakeInv
<1>8. CASE PingDone(c)
  <2>1. Quiet
    BY <1>8, Zenon DEF HandshakeInv, Acquainted, Quiet, PingDone, srvVars
  <2>2. Calling'
    BY <1>8, Zenon DEF HandshakeInv, Calling, PingDone
  <2> QED
    BY <2>1, <2>2, QuietKeeps DEF HandshakeInv
<1>9. CASE PingFails(c)
  <2>1. Quiet
    BY <1>9, Zenon DEF HandshakeInv, Acquainted, Quiet, PingFails, srvVars
  <2>2. Calling'
    BY <1>9, Zenon DEF HandshakeInv, Calling, PingFails
  <2> QED
    BY <2>1, <2>2, QuietKeeps DEF HandshakeInv
<1>10. CASE CliClose(c)
  <2>1. Quiet
    BY <1>10, Zenon DEF HandshakeInv, Acquainted, Quiet, CliClose, srvVars
  <2>2. Calling'
    BY <1>10 DEF HandshakeInv, Calling, CliClose
  <2> QED
    BY <2>1, <2>2, QuietKeeps DEF HandshakeInv
<1> QED
  BY <1>1, <1>2, <1>3, <1>4, <1>5, <1>6, <1>7, <1>8, <1>9, <1>10, Zenon

\* What happens to the allowlist, the age of the cache and a packet that is lost.
LEMMA OutsideKeeps ==
  ASSUME HandshakeInv,
         \/ \E c \in Clients : AddAllowedClient(c) \/ Dial(c)
         \/ CacheAges
         \/ \E p \in Packets : Lose(p)
         \/ UNCHANGED vars
  PROVE  HandshakeInv'
<1>1. Quiet
  <2>1. CASE \E c \in Clients : AddAllowedClient(c)
    BY <2>1, Zenon DEF HandshakeInv, Acquainted, Quiet, AddAllowedClient, cliVars
  <2>2. CASE CacheAges
    BY <2>2, Zenon DEF HandshakeInv, Acquainted, Quiet, CacheAges, srvVars
  <2>3. CASE \E p \in Packets : Lose(p)
    BY <2>3, Zenon DEF HandshakeInv, Acquainted, Quiet, Lose, srvVars, cliVars
  <2>4. CASE UNCHANGED vars
    BY <2>4, Zenon DEF HandshakeInv, Acquainted, Quiet, vars, srvVars, cliVars
  <2> QED
    BY <2>1, <2>2, <2>3, <2>4, Zenon DEF Dial
<1>2. Calling'
  BY Zenon DEF HandshakeInv, Calling, AddAllowedClient, Dial, CacheAges, Lose, vars, cliVars
<1> QED
  BY <1>1, <1>2, QuietKeeps DEF HandshakeInv

\* The invariant is inductive, whatever is lost, repeated or reordered, whoever fails
\* or closes, and however the goroutines interleave.
LEMMA NextHandshake == HandshakeInv /\ [Next]_vars => HandshakeInv'
<1> SUFFICES ASSUME HandshakeInv, [Next]_vars PROVE HandshakeInv'
  OBVIOUS
<1>1. CASE ServerNext
  BY <1>1, StartKeeps, StartFailsKeeps, MeowKeeps, OutsideKeeps, Zenon DEF ServerNext
<1>2. ASSUME NEW c \in Clients, ClientNext(c) PROVE HandshakeInv'
  BY <1>2, CallKeeps, MeowedKeeps, OutsideKeeps, Zenon DEF ClientNext
<1>3. ASSUME NEW n \in Nodes, AdvertiseNext(n) PROVE HandshakeInv'
  BY <1>3, StatusKeeps, ReadKeeps, SendKeeps, Zenon DEF AdvertiseNext
<1>4. CASE CacheAges \/ (\E p \in Packets : Lose(p)) \/ UNCHANGED vars
  BY <1>4, OutsideKeeps
<1> QED
  BY <1>1, <1>2, <1>3, <1>4 DEF Next

-----------------------------------------------------------------------------
(***************************************************************************)
(* The cache of DERP maps.                                                 *)
(***************************************************************************)
Storing == {"put"} \cup Writing

\* Every ETag is one that the server gave; a map that did not decode is not kept,
\* and a process begins with nothing.
Seen ==
  /\ etag \in {0, latest} \cup past
  /\ \A p \in Procs :
       /\ tag[p] \in {0, latest} \cup past
       /\ held[p] = Cut => doing[p] = "etag"
       /\ doing[p] \in {"idle", "read"} => held[p] = 0
       /\ doing[p] \in {"idle", "read", "etag"} => tag[p] = 0

\* As long as no process was in fetchDERPMap while another stored: what a process
\* has read is still what the file has, and who writes is alone with its map.
Undisturbed == \A p \in Procs :
  /\ doing[p] \in Writing => Alone(p)
  /\ doing[p] = "etag" => held[p] = data
  /\ doing[p] = "data" => data = Cut
  /\ doing[p] \in {"cut", "tag"} => data = held[p]

\* And if the server never returned to a map: an ETag that is not its map's is one
\* that the server has given up.
Behind ==
  /\ data # Cut => etag \in {0, data} \cup past
  /\ \A p \in Procs :
       /\ doing[p] = "fetch" => tag[p] \in {0, held[p]} \cup past
       /\ doing[p] \in Storing => tag[p] \in {0, held[p]}
       /\ doing[p] \in {"put", "data"} => etag \in {0, held[p]} \cup past

\* Or if no process ended between the two files: every ETag is its map's, but for
\* the moment between the two writes.
Paired ==
  /\ data = Cut \/ etag \in {0, data} \/ \E p \in Procs : doing[p] = "cut"
  /\ \A p \in Procs : doing[p] \in {"fetch"} \cup Storing => tag[p] \in {0, held[p]}

CacheInv ==
  /\ CacheTypeOK /\ Seen
  /\ ~mixed => Undisturbed
  /\ ~mixed /\ ~back => Behind
  /\ ~mixed /\ ~torn => Paired

\* An empty cache satisfies the invariant.
LEMMA InitCache == CacheInit => CacheInv
<1> SUFFICES ASSUME CacheInit PROVE CacheInv
  OBVIOUS
<1>1. fresh \in BOOLEAN /\ mixed \in BOOLEAN /\ back \in BOOLEAN /\ torn \in BOOLEAN
  BY Zenon DEF CacheInit
<1>2. 0 \in Versions /\ Cut # 0
  BY CacheAssumption DEF Versions, Cut
<1>3. CacheTypeOK
  BY <1>1, <1>2, Zenon DEF CacheInit, CacheTypeOK
<1>4. \A p \in Procs : doing[p] = "idle" /\ held[p] = 0 /\ tag[p] = 0
  BY Zenon DEF CacheInit
<1>5. Seen /\ Undisturbed /\ Behind /\ Paired
  BY <1>2, <1>4, Zenon DEF CacheInit, Seen, Undisturbed, Behind, Paired, Storing, Writing
<1> QED
  BY <1>3, <1>5, Zenon DEF CacheInv

\* The files and the processes hold versions, or a file cut short.
LEMMA CacheTypes == CacheTypeOK /\ [CacheNext]_cacheVars => CacheTypeOK'
<1> SUFFICES ASSUME CacheTypeOK, [CacheNext]_cacheVars PROVE CacheTypeOK'
  BY Zenon
<1> USE CacheAssumption DEF CacheTypeOK, Versions, Maps, Cut
<1>1. ASSUME NEW p \in Procs, Stat(p) PROVE CacheTypeOK'
  BY <1>1 DEF Stat, To, files, given
<1>2. ASSUME NEW p \in Procs, ReadData(p) PROVE CacheTypeOK'
  BY <1>2 DEF ReadData, To, files, given
<1>3. ASSUME NEW p \in Procs, ReadETag(p) PROVE CacheTypeOK'
  BY <1>3 DEF ReadETag, Leave, To, files, given
<1>4. ASSUME NEW p \in Procs, FetchFail(p) PROVE CacheTypeOK'
  BY <1>4 DEF FetchFail, Leave, files, given
<1>5. ASSUME NEW p \in Procs, NotModified(p) PROVE CacheTypeOK'
  <2>1. latest' \in Versions /\ past' \subseteq Maps
    <3>1. latest' = tag[p] /\ past' = past \cup ({latest} \ {0, tag[p]})
      BY <1>5, Zenon DEF NotModified, Answer
    <3>2. tag[p] \in Versions /\ {latest} \ {0} \subseteq Maps
      OBVIOUS
    <3> QED
      BY <3>1, <3>2, Zenon
  <2>2. back' \in BOOLEAN
    BY <1>5, Zenon DEF NotModified, Answer
  <2>3. doing' \in [Procs -> {"idle", "read", "etag", "fetch", "put", "data", "cut", "tag"}]
    BY <1>5 DEF NotModified, To
  <2> QED
    BY <1>5, <2>1, <2>2, <2>3, Zenon DEF NotModified, files
<1>6. ASSUME NEW p \in Procs, Fetched(p) PROVE CacheTypeOK'
  BY <1>6 DEF Fetched, Answer, To, files, given
<1>7. ASSUME NEW p \in Procs, PutBegin(p) PROVE CacheTypeOK'
  BY <1>7 DEF PutBegin, To, Mix, given
<1>8. ASSUME NEW p \in Procs, PutData(p) PROVE CacheTypeOK'
  BY <1>8 DEF PutData, To, Mix, given
<1>9. ASSUME NEW p \in Procs, PutCut(p) PROVE CacheTypeOK'
  BY <1>9 DEF PutCut, To, Leave, Mix, given
<1>10. ASSUME NEW p \in Procs, PutETag(p) PROVE CacheTypeOK'
  BY <1>10 DEF PutETag, Leave, Mix, given
<1>11. ASSUME NEW p \in Procs, Kill(p) PROVE CacheTypeOK'
  BY <1>11 DEF Kill, Leave, files, given
<1>12. CASE Age
  BY <1>12, Zenon DEF Age, given
<1>13. CASE UNCHANGED cacheVars
  BY <1>13, Zenon DEF cacheVars, files, given
<1> HIDE DEF CacheTypeOK, Versions, Maps, Cut
<1> QED
  BY <1>1, <1>2, <1>3, <1>4, <1>5, <1>6, <1>7, <1>8, <1>9, <1>10, <1>11, <1>12, <1>13, ZenonT(40) DEF CacheNext

\* What is stored or held as an ETag came from the server.
LEMMA CacheSeen == CacheTypeOK /\ Seen /\ [CacheNext]_cacheVars => Seen'
<1> SUFFICES ASSUME CacheTypeOK, Seen, [CacheNext]_cacheVars PROVE Seen'
  BY Zenon
<1> USE CacheAssumption DEF CacheTypeOK, Versions, Maps, Cut, Seen
<1>1. ASSUME NEW p \in Procs, Stat(p) PROVE Seen'
  BY <1>1 DEF Stat, To, files, given
<1>2. ASSUME NEW p \in Procs, ReadData(p) PROVE Seen'
  BY <1>2 DEF ReadData, To, files, given
<1>3. ASSUME NEW p \in Procs, ReadETag(p) PROVE Seen'
  BY <1>3 DEF ReadETag, Leave, To, files, given
<1>4. ASSUME NEW p \in Procs, FetchFail(p) PROVE Seen'
  BY <1>4 DEF FetchFail, Leave, files, given
<1>5. ASSUME NEW p \in Procs, NotModified(p) PROVE Seen'
  BY <1>5 DEF NotModified, Answer, To, files, given
<1>6. ASSUME NEW p \in Procs, Fetched(p) PROVE Seen'
  BY <1>6 DEF Fetched, Answer, To, files, given
<1>7. ASSUME NEW p \in Procs, PutBegin(p) PROVE Seen'
  BY <1>7 DEF PutBegin, To, Mix, given
<1>8. ASSUME NEW p \in Procs, PutData(p) PROVE Seen'
  BY <1>8 DEF PutData, To, Mix, given
<1>9. ASSUME NEW p \in Procs, PutCut(p) PROVE Seen'
  BY <1>9 DEF PutCut, To, Leave, Mix, given
<1>10. ASSUME NEW p \in Procs, PutETag(p) PROVE Seen'
  BY <1>10 DEF PutETag, Leave, Mix, given
<1>11. ASSUME NEW p \in Procs, Kill(p) PROVE Seen'
  BY <1>11 DEF Kill, Leave, files, given
<1>12. CASE Age
  BY <1>12, Zenon DEF Age, given
<1>13. CASE UNCHANGED cacheVars
  BY <1>13, Zenon DEF cacheVars, files, given
<1> HIDE DEF CacheTypeOK, Versions, Maps, Cut, Seen
<1> QED
  BY <1>1, <1>2, <1>3, <1>4, <1>5, <1>6, <1>7, <1>8, <1>9, <1>10, <1>11, <1>12, <1>13, ZenonT(40) DEF CacheNext

\* What is on record is not taken back.
LEMMA HistoryGrows ==
  ASSUME CacheTypeOK, [CacheNext]_cacheVars
  PROVE  (mixed => mixed') /\ (back => back') /\ (torn => torn')
<1> DEFINE G == (mixed => mixed') /\ (back => back') /\ (torn => torn')
<1>0. mixed \in BOOLEAN /\ back \in BOOLEAN /\ torn \in BOOLEAN
  BY Zenon DEF CacheTypeOK
<1>1. ASSUME NEW p \in Procs, Stat(p) \/ Kill(p) PROVE G
  BY <1>0, <1>1 DEF Stat, Kill, given
<1>2. ASSUME NEW p \in Procs, ReadData(p) \/ ReadETag(p) \/ FetchFail(p) PROVE G
  BY <1>0, <1>2 DEF ReadData, ReadETag, FetchFail, given
<1>3. ASSUME NEW p \in Procs, NotModified(p) \/ Fetched(p) PROVE G
  BY <1>0, <1>3 DEF NotModified, Fetched, Answer
<1>4. ASSUME NEW p \in Procs, PutBegin(p) \/ PutData(p) \/ PutCut(p) \/ PutETag(p) PROVE G
  BY <1>0, <1>4 DEF PutBegin, PutData, PutCut, PutETag, Mix, given
<1>5. ASSUME Age \/ UNCHANGED cacheVars PROVE G
  BY <1>0, <1>5 DEF Age, cacheVars, given
<1> HIDE DEF G
<1>6. G
  BY <1>1, <1>2, <1>3, <1>4, <1>5, ZenonT(40) DEF CacheNext
<1> QED
  BY <1>6 DEF G

\* A process that stores leaves mixed unset only if nobody else was busy.
LEMMA Unmixed == ASSUME NEW p \in Procs, Mix(p), ~mixed'
                 PROVE  \A q \in Procs \ {p} : doing[q] = "idle"
  BY Zenon DEF Mix, Alone

\* What the next three lemmas need of the types.
LEMMA CacheKinds == CacheTypeOK =>
  /\ doing \in [Procs -> {"idle", "read", "etag", "fetch", "put", "data", "cut", "tag"}]
  /\ held \in [Procs -> Versions \cup {Cut}] /\ tag \in [Procs -> Versions]
  /\ Cut # 0 /\ 0 \notin Maps /\ Cut \notin Maps
  BY CacheAssumption DEF CacheTypeOK, Versions, Maps, Cut

\* Processes that take turns do not touch what another has read or writes.
LEMMA CacheUndisturbed == ASSUME CacheTypeOK, Seen, Undisturbed, [CacheNext]_cacheVars,
                          ~mixed, ~mixed'
                          PROVE  Undisturbed'
<1> USE CacheKinds DEF Seen, Undisturbed, Alone, Writing
<1>1. ASSUME NEW p \in Procs, Stat(p) PROVE Undisturbed'
  BY <1>1 DEF Stat, To, files, given
<1>2. ASSUME NEW p \in Procs, ReadData(p) PROVE Undisturbed'
  BY <1>2 DEF ReadData, To, files, given
<1>3. ASSUME NEW p \in Procs, ReadETag(p) PROVE Undisturbed'
  BY <1>3 DEF ReadETag, Leave, To, files, given
<1>4. ASSUME NEW p \in Procs, FetchFail(p) PROVE Undisturbed'
  BY <1>4 DEF FetchFail, Leave, files, given
<1>5. ASSUME NEW p \in Procs, NotModified(p) PROVE Undisturbed'
  BY <1>5 DEF NotModified, Answer, To, files, given
<1>6. ASSUME NEW p \in Procs, Fetched(p) PROVE Undisturbed'
  BY <1>6 DEF Fetched, Answer, To, files, given
<1>7. ASSUME NEW p \in Procs, PutBegin(p) PROVE Undisturbed'
  <2>1. \A q \in Procs \ {p} : doing[q] = "idle"
    BY <1>7, Unmixed DEF PutBegin
  <2> QED
    BY <1>7, <2>1 DEF PutBegin, To, given
<1>8. ASSUME NEW p \in Procs, PutData(p) PROVE Undisturbed'
  <2>1. \A q \in Procs \ {p} : doing[q] = "idle"
    BY <1>8, Unmixed DEF PutData
  <2> QED
    BY <1>8, <2>1 DEF PutData, To, given
<1>9. ASSUME NEW p \in Procs, PutCut(p) PROVE Undisturbed'
  <2>1. \A q \in Procs \ {p} : doing[q] = "idle"
    BY <1>9, Unmixed DEF PutCut
  <2> QED
    BY <1>9, <2>1 DEF PutCut, To, Leave, given
<1>10. ASSUME NEW p \in Procs, PutETag(p) PROVE Undisturbed'
  <2>1. \A q \in Procs \ {p} : doing[q] = "idle"
    BY <1>10, Unmixed DEF PutETag
  <2> QED
    BY <1>10, <2>1 DEF PutETag, Leave, given
<1>11. ASSUME NEW p \in Procs, Kill(p) PROVE Undisturbed'
  BY <1>11 DEF Kill, Leave, files, given
<1>12. CASE Age
  BY <1>12, Zenon DEF Age, given
<1>13. CASE UNCHANGED cacheVars
  BY <1>13, Zenon DEF cacheVars, files, given
<1> HIDE CacheKinds DEF Seen, Undisturbed, Alone, Writing
<1> QED
  BY <1>1, <1>2, <1>3, <1>4, <1>5, <1>6, <1>7, <1>8, <1>9, <1>10, <1>11, <1>12, <1>13, ZenonT(40) DEF CacheNext

\* A server that does not return to a map does not confirm an ETag left behind.
LEMMA CacheBehind == ASSUME CacheTypeOK, Seen, Undisturbed, Behind, [CacheNext]_cacheVars,
                     ~mixed, ~back, ~mixed', ~back'
                     PROVE  Behind'
<1> USE CacheKinds DEF Seen, Undisturbed, Behind, Alone, Storing, Writing
<1>1. ASSUME NEW p \in Procs, Stat(p) PROVE Behind'
  BY <1>1 DEF Stat, To, files, given
<1>2. ASSUME NEW p \in Procs, ReadData(p) PROVE Behind'
  BY <1>2 DEF ReadData, To, files, given
<1>3. ASSUME NEW p \in Procs, ReadETag(p) PROVE Behind'
  BY <1>3 DEF ReadETag, Leave, To, files, given
<1>4. ASSUME NEW p \in Procs, FetchFail(p) PROVE Behind'
  BY <1>4 DEF FetchFail, Leave, files, given
<1>5. ASSUME NEW p \in Procs, NotModified(p) PROVE Behind'
  <2>1. tag[p] = held[p]
    BY <1>5 DEF NotModified, Answer
  <2>2. past \subseteq past' /\ etag \in {0, held[p]} \cup past'
    BY <1>5, <2>1 DEF NotModified, Answer
  <2>3. /\ doing' = [doing EXCEPT ![p] = "put"]
        /\ data' = data /\ etag' = etag /\ held' = held /\ tag' = tag
    BY <1>5, Zenon DEF NotModified, To, files
  <2> QED
    BY <2>1, <2>2, <2>3
<1>6. ASSUME NEW p \in Procs, Fetched(p) PROVE Behind'
  BY <1>6 DEF Fetched, Answer, To, files, given
<1>7. ASSUME NEW p \in Procs, PutBegin(p) PROVE Behind'
  <2>1. \A q \in Procs \ {p} : doing[q] = "idle"
    BY <1>7, Unmixed DEF PutBegin
  <2> QED
    BY <1>7, <2>1 DEF PutBegin, To, given
<1>8. ASSUME NEW p \in Procs, PutData(p) PROVE Behind'
  <2>1. \A q \in Procs \ {p} : doing[q] = "idle"
    BY <1>8, Unmixed DEF PutData
  <2> QED
    BY <1>8, <2>1 DEF PutData, To, given
<1>9. ASSUME NEW p \in Procs, PutCut(p) PROVE Behind'
  <2>1. \A q \in Procs \ {p} : doing[q] = "idle"
    BY <1>9, Unmixed DEF PutCut
  <2> QED
    BY <1>9, <2>1 DEF PutCut, To, Leave, given
<1>10. ASSUME NEW p \in Procs, PutETag(p) PROVE Behind'
  <2>1. \A q \in Procs \ {p} : doing[q] = "idle"
    BY <1>10, Unmixed DEF PutETag
  <2> QED
    BY <1>10, <2>1 DEF PutETag, Leave, given
<1>11. ASSUME NEW p \in Procs, Kill(p) PROVE Behind'
  BY <1>11 DEF Kill, Leave, files, given
<1>12. CASE Age
  BY <1>12, Zenon DEF Age, given
<1>13. CASE UNCHANGED cacheVars
  BY <1>13, Zenon DEF cacheVars, files, given
<1> HIDE CacheKinds DEF Seen, Undisturbed, Behind, Alone, Storing, Writing
<1> QED
  BY <1>1, <1>2, <1>3, <1>4, <1>5, <1>6, <1>7, <1>8, <1>9, <1>10, <1>11, <1>12, <1>13, ZenonT(40) DEF CacheNext

\* A process that is not ended between the two files leaves them paired.
LEMMA CachePaired == ASSUME CacheTypeOK, Seen, Undisturbed, Paired, [CacheNext]_cacheVars,
                     ~mixed, ~torn, ~mixed', ~torn'
                     PROVE  Paired'
<1> USE CacheKinds DEF Seen, Undisturbed, Paired, Alone, Storing, Writing
<1>1. ASSUME NEW p \in Procs, Stat(p) PROVE Paired'
  BY <1>1 DEF Stat, To, files, given
<1>2. ASSUME NEW p \in Procs, ReadData(p) PROVE Paired'
  BY <1>2 DEF ReadData, To, files, given
<1>3. ASSUME NEW p \in Procs, ReadETag(p) PROVE Paired'
  BY <1>3 DEF ReadETag, Leave, To, files, given
<1>4. ASSUME NEW p \in Procs, FetchFail(p) PROVE Paired'
  BY <1>4 DEF FetchFail, Leave, files, given
<1>5. ASSUME NEW p \in Procs, NotModified(p) PROVE Paired'
  BY <1>5 DEF NotModified, Answer, To, files, given
<1>6. ASSUME NEW p \in Procs, Fetched(p) PROVE Paired'
  BY <1>6 DEF Fetched, Answer, To, files, given
<1>7. ASSUME NEW p \in Procs, PutBegin(p) PROVE Paired'
  <2>1. \A q \in Procs \ {p} : doing[q] = "idle"
    BY <1>7, Unmixed DEF PutBegin
  <2> QED
    BY <1>7, <2>1 DEF PutBegin, To, given
<1>8. ASSUME NEW p \in Procs, PutData(p) PROVE Paired'
  <2>1. \A q \in Procs \ {p} : doing[q] = "idle"
    BY <1>8, Unmixed DEF PutData
  <2> QED
    BY <1>8, <2>1 DEF PutData, To, given
<1>9. ASSUME NEW p \in Procs, PutCut(p) PROVE Paired'
  <2>1. \A q \in Procs \ {p} : doing[q] = "idle"
    BY <1>9, Unmixed DEF PutCut
  <2> QED
    BY <1>9, <2>1 DEF PutCut, To, Leave, given
<1>10. ASSUME NEW p \in Procs, PutETag(p) PROVE Paired'
  <2>1. \A q \in Procs \ {p} : doing[q] = "idle"
    BY <1>10, Unmixed DEF PutETag
  <2> QED
    BY <1>10, <2>1 DEF PutETag, Leave, given
<1>11. ASSUME NEW p \in Procs, Kill(p) PROVE Paired'
  BY <1>11 DEF Kill, Leave, files, given
<1>12. CASE Age
  BY <1>12, Zenon DEF Age, given
<1>13. CASE UNCHANGED cacheVars
  BY <1>13, Zenon DEF cacheVars, files, given
<1> HIDE CacheKinds DEF Seen, Undisturbed, Paired, Alone, Storing, Writing
<1> QED
  BY <1>1, <1>2, <1>3, <1>4, <1>5, <1>6, <1>7, <1>8, <1>9, <1>10, <1>11, <1>12, <1>13, ZenonT(40) DEF CacheNext

\* The invariant is inductive: no order of the steps of the processes, of kills
\* and of answers breaks it.
LEMMA NextCache == CacheInv /\ [CacheNext]_cacheVars => CacheInv'
<1> SUFFICES ASSUME CacheInv, [CacheNext]_cacheVars PROVE CacheInv'
  OBVIOUS
<1>1. CacheTypeOK /\ Seen /\ CacheTypeOK' /\ Seen'
  BY CacheTypes, CacheSeen, Zenon DEF CacheInv
<1>2. (mixed => mixed') /\ (back => back') /\ (torn => torn')
  BY <1>1, HistoryGrows, Zenon
<1>3. ~mixed' => Undisturbed'
  BY <1>1, <1>2, CacheUndisturbed, Zenon DEF CacheInv
<1>4. ~mixed' /\ ~back' => Behind'
  BY <1>1, <1>2, CacheBehind, Zenon DEF CacheInv
<1>5. ~mixed' /\ ~torn' => Paired'
  BY <1>1, <1>2, CachePaired, Zenon DEF CacheInv
<1> QED
  BY <1>1, <1>3, <1>4, <1>5, Zenon DEF CacheInv

-----------------------------------------------------------------------------
(***************************************************************************)
(* The transport.                                                          *)
(***************************************************************************)
DERPInv == HandshakeInv /\ CacheInv

\* Whichever part a behaviour is of, both invariants hold in every state of it.
THEOREM DERPInvariance == DERPSpec => []DERPInv
<1>1. DERPInit => DERPInv
  BY InitHandshake, InitCache DEF DERPInit, DERPInv
<1>2. ASSUME DERPInv, [DERPNext]_derpVars PROVE DERPInv'
  <2>1. [Next]_vars /\ [CacheNext]_cacheVars
    BY <1>2, Zenon DEF DERPNext, Handshake, Map, derpVars
  <2> QED
    BY <1>2, <2>1, NextHandshake, NextCache DEF DERPInv
<1> QED
  BY <1>1, <1>2, PTL DEF DERPSpec

\* A connection of a client that is up reaches the callback of the server for
\* the very destination it dialled.
LEMMA DialsArrive ==
  ASSUME HandshakeInv, NEW c \in upDone \ early, srv = "up", Forwards, NEW d \in Dests
  PROVE  Dialled(c, d).dst = d /\ (Dialled(c, d).by = "OnTCP") = (d.host = "self")
<1>1. c \in Known \cap mc
  BY DEF HandshakeInv, Acquainted, Calling
<1>2. Dialled(c, d) = Handler(OnTunnel(d))
  BY <1>1 DEF Dialled, Admits
<1>3. d \in [host : {"self", "v4", "v6"}, port : Nat]
  BY TailcatAssumption
<1>4. CASE d.host = "self"
  BY <1>2, <1>3, <1>4 DEF Handler, OnTunnel
<1>5. CASE d.host = "v4"
  <2>1. OnTunnel(d) = [host |-> "nat64", port |-> d.port]
    BY <1>3, <1>5 DEF OnTunnel
  <2>2. Handler(OnTunnel(d)) = [by |-> "OnTCPForward", dst |-> [host |-> "v4", port |-> d.port]]
    BY <2>1 DEF Handler
  <2> QED
    BY <1>2, <1>3, <1>5, <2>2
<1>6. CASE d.host = "v6"
  BY <1>2, <1>3, <1>6 DEF Handler, OnTunnel
<1> QED
  BY <1>3, <1>4, <1>5, <1>6, Zenon

\* An acknowledged client is a peer of the server unless it overtook its start, a
\* started one looks for the server at relays of its region (there is one, except
\* for a token resolved in a region whose first two nodes only do STUN), and what a
\* client dials arrives as dialled.
THEOREM Registration == DERPSpec => []Registered
<1>1. ASSUME DERPInv PROVE Registered
  <2>1. TypeOK /\ Acquainted
    BY <1>1, HandshakeTypes, Zenon DEF DERPInv, HandshakeInv
  <2>2. \A c \in started : Found(c, RegionOf(c))
    BY <2>1, RegionFound DEF TypeOK
  <2>3. \A c \in Clients : c \in upDone \ early /\ srv = "up" /\ Forwards =>
          \A d \in Dests : /\ Dialled(c, d).dst = d
                           /\ (Dialled(c, d).by = "OnTCP") = (d.host = "self")
    BY <1>1, DialsArrive, Zenon DEF DERPInv
  <2> QED
    BY <2>1, <2>2, <2>3, Zenon DEF Acquainted, Found, Registered
<1> QED
  BY <1>1, DERPInvariance, PTL

\* No interleaving of new endpoints, new peers, reads under b.mu and sends after
\* it leaves a peer for which no attempt to send it a node's present endpoints was
\* made and none is under way.
THEOREM Advertisements == DERPSpec => []NoLostAdvertisement
<1>1. DERPInv => NoLostAdvertisement
  BY Zenon DEF DERPInv, HandshakeInv, Advertised
<1> QED
  BY <1>1, DERPInvariance, PTL

\* For processes that do not overlap, the server's "not modified" never confirms
\* another map than the one at hand: if none ended between the two files, for any
\* server; else for one that does not return to a map after it gave another.
THEOREM Revalidation == DERPSpec => []RevalidationSound
<1>1. DERPInv => RevalidationSound
  BY Zenon DEF DERPInv, CacheInv, Behind, Paired, RevalidationSound, Storing
<1> QED
  BY <1>1, DERPInvariance, PTL
=============================================================================
