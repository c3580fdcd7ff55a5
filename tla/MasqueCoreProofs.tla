-------------------------- MODULE MasqueCoreProofs --------------------------
(***************************************************************************)
(* Theorems about MasqueCore for every set of peers and sessions, and      *)
(* about MasqueFragment, which carries the packets of its peers over the   *)
(* relay, for every set of packets, chunk size and limit.                  *)
(***************************************************************************)
EXTENDS MasqueCore, MasqueFragment, SequenceLemmas, SequenceTheorems, FiniteSetTheorems, TLAPS

\* The inductive invariant.
CoreInv == TypeOK /\ ReturnPathsSound /\ ReservedByOne

\* A core that was just started satisfies the invariant.
LEMMA InitCore == Init => CoreInv
  BY CoreAssumption DEF Init, CoreInv, TypeOK, ReturnPathsSound, PathHasPeer, NoDanglingPath,
      KeepsPath, ReservedByOne,
     PCs, Holding, Serving

\* The invariant is inductive: no order of sessions, relay packets, allowlist
\* changes and Close breaks it.
LEMMA NextCore == CoreInv /\ [Next]_vars => CoreInv'
<1> SUFFICES ASSUME CoreInv, [Next]_vars PROVE CoreInv'
  OBVIOUS
<1> USE CoreAssumption DEF CoreInv, TypeOK, ReturnPathsSound, PathHasPeer, NoDanglingPath,
      KeepsPath, ReservedByOne,
      PCs, Holding, Serving, Goto
<1>1. ASSUME NEW s \in Sessions, NEW p \in Peers, Authorize(s, p) PROVE CoreInv'
  BY <1>1 DEF Authorize
<1>2. ASSUME NEW s \in Sessions, Refuse(s) PROVE CoreInv'
  BY <1>2 DEF Refuse
<1>3. ASSUME NEW s \in Sessions, Receive(s) PROVE CoreInv'
  BY <1>3 DEF Receive
<1>4. ASSUME NEW s \in Sessions, Leave(s) PROVE CoreInv'
  BY <1>4 DEF Leave
<1>5. ASSUME NEW s \in Sessions, Admit(s) PROVE CoreInv'
  BY <1>5 DEF Admit, PeerAllowed
<1>6. ASSUME NEW s \in Sessions, Reserve(s) PROVE CoreInv'
  BY <1>6 DEF Reserve
<1>7. ASSUME NEW s \in Sessions, Accept(s) PROVE CoreInv'
  BY <1>7 DEF Accept
<1>8. ASSUME NEW s \in Sessions, SetPath(s) PROVE CoreInv'
  BY <1>8 DEF SetPath, CanAdd
<1>9. ASSUME NEW s \in Sessions, InjectPeer(s) PROVE CoreInv'
  BY <1>9 DEF InjectPeer, CanAdd
<1>10. ASSUME NEW s \in Sessions, InjectQueue(s) PROVE CoreInv'
  BY <1>10 DEF InjectQueue
<1>11. ASSUME NEW s \in Sessions, RemovePath(s) PROVE CoreInv'
  BY <1>11 DEF RemovePath
<1>12. ASSUME NEW s \in Sessions, CloseStream(s) PROVE CoreInv'
  BY <1>12 DEF CloseStream
<1>13. ASSUME NEW s \in Sessions, Release(s) PROVE CoreInv'
  BY <1>13 DEF Release
<1>14. ASSUME NEW p \in Peers, RelayPacket(p) PROVE CoreInv'
  BY <1>14 DEF RelayPacket, CanAdd
<1>15. ASSUME NEW p \in Peers, AddAllowedClient(p) PROVE CoreInv'
  BY <1>15 DEF AddAllowedClient
<1>16. CASE RelayInject
  BY <1>16 DEF RelayInject, CanAdd
<1>17. CASE RelayQueue
  BY <1>17 DEF RelayQueue
<1>18. CASE Close
  BY <1>18, ZenonT(40) DEF Close
<1>19. ASSUME NEW s \in Sessions, InjectSend(s) PROVE CoreInv'
  BY <1>19 DEF InjectSend, Queued
<1>20. CASE RelaySend
  BY <1>20 DEF RelaySend, Queued
<1>21. CASE WGReceive
  <2>1. reader' \in BOOLEAN
    BY <1>21, Zenon DEF WGReceive
  <2>2. queue' \in 0..QueueSize
    <3>1. queue \in 0..QueueSize /\ QueueSize \in Nat
      OBVIOUS
    <3>2. queue' = queue \/ (queue > 0 /\ queue' = queue - 1)
      BY <1>21, Zenon DEF WGReceive
    <3> HIDE DEF CoreInv, TypeOK
    <3> QED
      BY <3>1, <3>2
  <2> QED
    BY <1>21, <2>1, <2>2 DEF WGReceive
<1>22. CASE UNCHANGED vars
  BY <1>22 DEF vars
<1> HIDE DEF CoreInv
<1> QED
  BY ZenonT(40), <1>1, <1>2, <1>3, <1>4, <1>5, <1>6, <1>7, <1>8, <1>9, <1>10, <1>11, <1>12, <1>13, <1>14,
     <1>15, <1>16, <1>17, <1>18, <1>22,
     <1>19, <1>20, <1>21
  DEF Next, HandlerStep, RelayStep, Finished

\* In every reachable state the invariant holds.
THEOREM CoreInvariance == Spec => []CoreInv
  BY InitCore, NextCore, PTL DEF Spec

\* The types hold in every reachable state.
THEOREM CoreTypes == Spec => []TypeOK
<1>1. CoreInv => TypeOK
  BY DEF CoreInv
<1> QED
  BY <1>1, CoreInvariance, PTL

\* Return paths lead to live sessions of known peers, and no session takes
\* another one's.
THEOREM ReturnPaths == Spec => []ReturnPathsSound
<1>1. CoreInv => ReturnPathsSound
  BY DEF CoreInv
<1> QED
  BY <1>1, CoreInvariance, PTL

\* Direct sessions are exclusive and their reservations are given back.
THEOREM OneDirect == Spec => []ReservedByOne
<1>1. CoreInv => ReservedByOne
  BY DEF CoreInv
<1> QED
  BY <1>1, CoreInvariance, PTL

\* addPeerLocked admits a new peer only while the allowlist does.
THEOREM Admission == Spec => AdmissionSound
<1>1. CoreInv /\ [Next]_vars => [\A p \in peers' \ peers : PeerAllowed(p)]_vars
  BY ZenonT(40) DEF CoreInv, TypeOK, Next, HandlerStep, RelayStep, Finished, vars, Authorize, Refuse,
     Receive, Leave, Admit,
     Reserve, Accept, SetPath, InjectPeer, InjectQueue, InjectSend, RemovePath, CloseStream, Release,
     RelayPacket, AddAllowedClient, RelayInject, RelayQueue, RelaySend,
     WGReceive, Queued, Close, CanAdd
<1> QED
  BY <1>1, CoreInvariance, PTL DEF Spec, AdmissionSound

\* A peer is removed only together with its own direct session's path.
THEOREM Grandfather == Spec => Grandfathered
<1>1. CoreInv /\ [Next]_vars =>
        [\A p \in peers \ peers' : paths[p] \in Sessions /\ pc[paths[p]] = "removing"]_vars
  BY ZenonT(40) DEF CoreInv, TypeOK, Next, HandlerStep, RelayStep, Finished, vars, Authorize, Refuse,
     Receive, Leave, Admit,
     Reserve, Accept, SetPath, InjectPeer, InjectQueue, InjectSend, RemovePath, CloseStream, Release,
     RelayPacket, AddAllowedClient, RelayInject, RelayQueue, RelaySend,
     WGReceive, Queued, Close
<1> QED
  BY <1>1, CoreInvariance, PTL DEF Spec, Grandfathered

(***************************************************************************)
(* Fragments.                                                              *)
(***************************************************************************)

\* Products with the size of a chunk.
LEMMA Times ==
  ASSUME NEW c \in Nat, NEW i \in Int, NEW j \in Int
  PROVE  /\ i * c \in Int /\ (i + 1) * c = i * c + c
         /\ i <= j => i * c <= j * c
  OBVIOUS

\* The count of chunks is the least that covers a packet of n bytes.
LEMMA CountCovers ==
  ASSUME NEW n \in Nat, n > ChunkSize
  PROVE  /\ CountFor(n) \in Nat /\ CountFor(n) >= 2
         /\ (CountFor(n) - 1) * ChunkSize < n /\ n <= CountFor(n) * ChunkSize
         /\ \A i \in 0..CountFor(n) - 1 :
              /\ i * ChunkSize \in Nat /\ i * ChunkSize < n
              /\ ChunkEnd(i, n) = IF i = CountFor(n) - 1 THEN n ELSE (i + 1) * ChunkSize
              /\ ChunkEnd(i, n) \in Nat /\ i * ChunkSize < ChunkEnd(i, n) /\ ChunkEnd(i, n) <= n
<1> DEFINE c == ChunkSize
           q == CountFor(n)
<1>1. c \in Nat \ {0}
  BY FragmentAssumption
<1>2. q \in Nat /\ q * c <= n + c - 1 /\ n + c - 1 < q * c + c
  BY <1>1 DEF CountFor
<1> HIDE DEF q
<1>3. (q - 1) * c = q * c - c /\ 0 * c = 0 /\ 1 * c = c /\ q * c \in Int
  BY <1>1, <1>2, Times
<1>4. q # 0 /\ q # 1
  BY <1>1, <1>2, <1>3
<1>5. ASSUME NEW i \in 0..q - 1
      PROVE  /\ i * c \in Nat /\ i * c < n /\ (i + 1) * c = i * c + c
             /\ i # q - 1 => (i + 1) * c < n
             /\ i = q - 1 => n <= (i + 1) * c
  <2>1. i * c \in Int /\ (i + 1) * c = i * c + c /\ i * c <= (q - 1) * c /\ 0 * c <= i * c
    BY <1>1, <1>2, Times
  <2>2. i # q - 1 => (i + 1) * c <= (q - 1) * c
    BY <1>1, <1>2, Times
  <2> QED
    BY <1>1, <1>2, <1>3, <2>1, <2>2
<1>6. ASSUME NEW i \in 0..q - 1
      PROVE  /\ ChunkEnd(i, n) = IF i = q - 1 THEN n ELSE (i + 1) * c
             /\ ChunkEnd(i, n) \in Nat /\ i * c < ChunkEnd(i, n) /\ ChunkEnd(i, n) <= n
  BY <1>1, <1>5 DEF ChunkEnd
<1> QED
  BY <1>1, <1>2, <1>3, <1>4, <1>5, <1>6 DEF q

\* Chunk i of a packet, from 0, and the length that Push expects of it.
Cut(p, i) == SubSeq(Payload(p), i * ChunkSize + 1, ChunkEnd(i, p.len))
Expected(i, count, total) == IF i = count - 1 THEN total - (count - 1) * ChunkSize ELSE ChunkSize

Bytes(p) == {p.tag} \X (1..p.len)

\* What a packet is made of.
LEMMA PayloadBytes ==
  ASSUME NEW p \in Packets
  PROVE  /\ p.len \in Nat /\ Payload(p) \in Seq(Bytes(p)) /\ Len(Payload(p)) = p.len
         /\ \A i \in 1..p.len : Payload(p)[i] = <<p.tag, i>>
<1>1. p.len \in Nat
  BY NothingAssumption
<1> QED
  BY <1>1 DEF Payload, Bytes

\* A chunk that was cut has the length that Push expects.
LEMMA ChunkCut ==
  ASSUME NEW p \in Packets, p.len > ChunkSize, NEW i \in 0..CountFor(p.len) - 1
  PROVE  /\ Cut(p, i) \in Seq(Bytes(p))
         /\ Len(Cut(p, i)) = ChunkEnd(i, p.len) - i * ChunkSize
         /\ Len(Cut(p, i)) = Expected(i, CountFor(p.len), p.len)
         /\ Len(Cut(p, i)) \in Nat \ {0}
         /\ \A j \in 1..Len(Cut(p, i)) : Cut(p, i)[j] = Payload(p)[i * ChunkSize + j]
<1> DEFINE a == i * ChunkSize
           e == ChunkEnd(i, p.len)
           n == CountFor(p.len)
<1>1. p.len \in Nat /\ Payload(p) \in Seq(Bytes(p)) /\ Len(Payload(p)) = p.len
  BY PayloadBytes
<1>2. /\ n \in Nat /\ a \in Nat /\ e \in Nat /\ a < e /\ e <= p.len
      /\ e = IF i = n - 1 THEN p.len ELSE (i + 1) * ChunkSize
      /\ (i + 1) * ChunkSize = a + ChunkSize
  <2>1. i \in 0..n - 1 /\ i \in Int /\ ChunkSize \in Nat
    BY <1>1, CountCovers, FragmentAssumption
  <2>2. n \in Nat /\ a \in Nat /\ e \in Nat /\ a < e /\ e <= p.len
        /\ e = IF i = n - 1 THEN p.len ELSE (i + 1) * ChunkSize
    BY <1>1, <2>1, CountCovers, Zenon
  <2> QED
    BY <2>1, <2>2, Times, Zenon
<1> HIDE DEF a, e, n
<1>3. Cut(p, i) = SubSeq(Payload(p), a + 1, e)
  BY DEF Cut, a, e
<1>4. /\ Cut(p, i) \in Seq(Bytes(p)) /\ Len(Cut(p, i)) = e - a
      /\ \A j \in 1..(e - a) : Cut(p, i)[j] = Payload(p)[a + j]
  <2> DEFINE s == Payload(p)
             B == Bytes(p)
  <2>1. s \in Seq(B) /\ Len(s) = p.len /\ p.len \in Nat
    BY <1>1
  <2> HIDE DEF s, B
  <2>2. SubSeq(s, a + 1, e) \in Seq(B) /\ Len(SubSeq(s, a + 1, e)) = e - a
    BY <1>2, <2>1
  <2>3. \A j \in 1..(e - a) : SubSeq(s, a + 1, e)[j] = s[a + j]
    BY <1>2, <2>1
  <2> QED
    BY <1>3, <2>2, <2>3 DEF s, B
<1>5. e - a = Expected(i, n, p.len)
  <2>1. CASE i = n - 1
    <3>1. (n - 1) * ChunkSize = a
      BY <2>1 DEF a
    <3> QED
      BY <1>2, <2>1, <3>1 DEF Expected
  <2>2. CASE i # n - 1
    BY <1>2, <2>2, FragmentAssumption DEF Expected
  <2> QED
    BY <2>1, <2>2
<1> QED
  BY <1>2, <1>4, <1>5 DEF a, e, n

\* A fragment that was sent.
LEMMA SentFragment ==
  ASSUME NEW p \in Packets, NEW f \in Fragments(p)
  PROVE  /\ p.len \in Nat /\ p.len > ChunkSize /\ p.len <= MaxSize
         /\ f.src = p.src /\ f.id = p.id /\ f.total = p.len /\ f.count = CountFor(p.len)
         /\ f.index \in 0..f.count - 1 /\ f.chunk = Cut(p, f.index) /\ RightLength(f)
         /\ Len(f.chunk) \in Nat \ {0} /\ f.chunk \in Seq(Bytes(p))
         /\ f = [src |-> f.src, id |-> f.id, index |-> f.index, count |-> f.count,
                 total |-> f.total, chunk |-> f.chunk]
<1>1. p.len \in Nat /\ p.len > ChunkSize /\ p.len <= MaxSize
  BY NothingAssumption, FragmentAssumption DEF Fragments
<1>2. PICK i \in 0..CountFor(p.len) - 1 :
        f = [src |-> p.src, id |-> p.id, index |-> i, count |-> CountFor(p.len),
             total |-> p.len, chunk |-> Cut(p, i)]
  BY <1>1, FragmentAssumption DEF Fragments, Cut
<1>3. /\ Len(Cut(p, i)) = Expected(i, CountFor(p.len), p.len) /\ Len(Cut(p, i)) \in Nat \ {0}
      /\ Cut(p, i) \in Seq(Bytes(p))
  BY <1>1, ChunkCut
<1> QED
  BY <1>1, <1>2, <1>3 DEF RightLength, Expected

\* A damaged fragment never passes the checks that Push makes before it stores one.
LEMMA OnlySent ==
  ASSUME NEW f \in Wire, f.count = CountFor(f.total), RightLength(f)
  PROVE  f \in Sent
<1> SUFFICES ASSUME NEW g \in Sent, f \in Damaged(g) PROVE FALSE
  BY DEF Wire
<1>1. PICK p \in Packets : g \in Fragments(p)
  BY DEF Sent
<1>2. /\ g.total = p.len /\ g.count = CountFor(p.len) /\ g.index \in 0..g.count - 1
      /\ RightLength(g) /\ Len(g.chunk) \in Nat \ {0} /\ g.chunk \in Seq(Bytes(p))
      /\ g.count \in Nat
      /\ g = [src |-> g.src, id |-> g.id, index |-> g.index, count |-> g.count,
              total |-> g.total, chunk |-> g.chunk]
  BY <1>1, SentFragment, CountCovers
<1>3. CASE f = [g EXCEPT !.chunk = SubSeq(@, 1, Len(@) - 1)]
  <2>1. /\ f.index = g.index /\ f.count = g.count /\ f.total = g.total
        /\ f.chunk = SubSeq(g.chunk, 1, Len(g.chunk) - 1)
    BY <1>2, <1>3
  <2>2. Len(f.chunk) = Len(g.chunk) - 1
    <3>1. PICK c \in Seq(Bytes(p)) : c = g.chunk /\ Len(c) \in Nat \ {0}
      BY <1>2
    <3>2. Len(SubSeq(c, 1, Len(c) - 1)) = Len(c) - 1
      BY <3>1
    <3> QED
      BY <2>1, <3>1, <3>2
  <2> QED
    BY <1>2, <2>1, <2>2 DEF RightLength
<1>4. CASE f = [g EXCEPT !.count = @ + 1]
  <2>1. f.count = g.count + 1 /\ f.total = g.total
    BY <1>2, <1>4
  <2>2. f.count = g.count /\ g.count \in Nat
    BY <1>2, <2>1, Zenon
  <2> QED
    BY <2>1, <2>2
<1> QED
  BY <1>3, <1>4 DEF Damaged

\* What can be on the wire.
LEMMA WireTypes ==
  ASSUME NEW f \in Wire
  PROVE  /\ f.index \in Nat /\ f.count \in Nat /\ f.total \in Nat /\ Key(f) \in KeysOf
         /\ f # Nothing /\ f.chunk # Nothing
<1>1. ASSUME NEW g \in Sent
      PROVE  /\ g.index \in Nat /\ g.count \in Nat /\ g.total \in Nat /\ Key(g) \in KeysOf
             /\ g = [src |-> g.src, id |-> g.id, index |-> g.index, count |-> g.count,
                     total |-> g.total, chunk |-> g.chunk]
  <2>1. PICK p \in Packets : g \in Fragments(p)
    BY DEF Sent
  <2> QED
    BY <2>1, SentFragment, CountCovers DEF Key, KeysOf
<1>2. CASE f \in Sent
  BY <1>1, <1>2, NothingAssumption
<1>3. ASSUME NEW g \in Sent, f \in Damaged(g)
      PROVE  f.index \in Nat /\ f.count \in Nat /\ f.total \in Nat /\ Key(f) \in KeysOf
  <2>1. /\ f.index = g.index /\ f.count \in {g.count, g.count + 1} /\ f.total = g.total
        /\ f.src = g.src /\ f.id = g.id
    BY <1>1, <1>3 DEF Damaged
  <2> QED
    BY <1>1, <2>1 DEF Key
<1> QED
  BY <1>2, <1>3, NothingAssumption DEF Wire

\* The value of the loop that joins the chunks of assembly a, after each of them.
Joining(g, a) == g = [i \in 0..a.count |-> IF i = 0 THEN <<>> ELSE g[i - 1] \o a.parts[i]]

\* What the first i chunks of a packet make.
Front(p, i) ==
  SubSeq(Payload(p), 1, IF i = CountFor(p.len) THEN p.len ELSE i * ChunkSize)

\* Each chunk continues where the ones before it end.
LEMMA NextChunk ==
  ASSUME NEW p \in Packets, p.len > ChunkSize, NEW i \in 1..CountFor(p.len)
  PROVE  Front(p, i) = Front(p, i - 1) \o Cut(p, i - 1)
<1> DEFINE s == Payload(p)
           B == Bytes(p)
           a == (i - 1) * ChunkSize
           e == ChunkEnd(i - 1, p.len)
<1>1. s \in Seq(B) /\ Len(s) = p.len /\ p.len \in Nat
  BY PayloadBytes
<1>2. /\ a \in Nat /\ e \in Nat /\ a < e /\ e <= p.len
      /\ e = IF i = CountFor(p.len) THEN p.len ELSE i * ChunkSize
  <2>1. i - 1 \in 0..CountFor(p.len) - 1 /\ CountFor(p.len) \in Nat
    BY <1>1, CountCovers
  <2> QED
    BY <1>1, <2>1, CountCovers
<1>3. Front(p, i) = SubSeq(s, 1, e) /\ Front(p, i - 1) = SubSeq(s, 1, a)
  <2>1. i - 1 # CountFor(p.len)
    BY <1>1, CountCovers
  <2> QED
    BY <1>2, <2>1 DEF Front
<1>4. Cut(p, i - 1) = SubSeq(s, a + 1, e)
  BY DEF Cut
<1> HIDE DEF s, B, a, e
<1>5. SubSeq(s, 1, e) = SubSeq(s, 1, a) \o SubSeq(s, a + 1, e)
  <2>1. 1 \in 1..Len(s) + 1 /\ a \in 1 - 1..Len(s) /\ e \in a..Len(s)
    BY <1>1, <1>2
  <2> QED
    BY <1>1, <2>1, ConcatAdjacentSubSeq
<1> QED
  BY <1>3, <1>4, <1>5, Zenon

\* The chunks of a packet, in order, are joined to the packet.
LEMMA JoinedIs ==
  ASSUME NEW p \in Packets, p.len > ChunkSize, NEW a, a.count = CountFor(p.len),
         \A i \in 1..a.count : a.parts[i] = Cut(p, i - 1)
  PROVE  Joined(a) = Payload(p)
<1> DEFINE n == a.count
           W == [i \in 0..n |-> Front(p, i)]
           g == CHOOSE f : Joining(f, a)
           S == {i \in 0..n : g[i] = W[i]}
<1>1. n \in Nat /\ n >= 2 /\ p.len \in Nat
  BY CountCovers, PayloadBytes
<1>2. Front(p, 0) = <<>>
  <2>1. Front(p, 0) = SubSeq(Payload(p), 1, 0)
    BY <1>1, FragmentAssumption DEF Front
  <2> QED
    BY <2>1, SubSeqEmpty
<1>3. \A i \in 0..n : W[i] = IF i = 0 THEN <<>> ELSE W[i - 1] \o a.parts[i]
  <2>1. ASSUME NEW i \in 1..n PROVE W[i] = W[i - 1] \o a.parts[i]
    <3>1. i \in 0..n /\ i - 1 \in 0..n
      BY <1>1
    <3> QED
      BY <3>1, NextChunk, Zenon
  <2>2. W[0] = <<>>
    BY <1>1, <1>2
  <2>3. \A i \in 0..n : i # 0 => i \in 1..n
    BY <1>1
  <2> HIDE DEF W
  <2> QED
    BY <2>1, <2>2, <2>3, Zenon
<1>4. Joining(W, a)
  <2> HIDE DEF W
  <2>1. W = [i \in 0..n |-> W[i]]
    BY DEF W
  <2> QED
    BY <1>3, <2>1, Zenon DEF Joining
<1>5. Joining(g, a)
  <2> HIDE DEF W
  <2> QED
    BY <1>4
<1>6. Joined(a) = g[n]
  BY DEF Joined, Joining
<1> HIDE DEF g, W
<1>7. g[0] = <<>> /\ \A i \in 1..n : g[i] = g[i - 1] \o a.parts[i]
  <2>1. \A i \in 0..n : g[i] = IF i = 0 THEN <<>> ELSE g[i - 1] \o a.parts[i]
    BY <1>5, Zenon DEF Joining
  <2>2. 0 \in 0..n /\ \A i \in 1..n : i \in 0..n /\ i # 0
    BY <1>1
  <2> QED
    BY <2>1, <2>2, Zenon
<1>8. \A i \in 0..n : i \in S
  <2>1. 0 \in S
    BY <1>1, <1>3, <1>7
  <2>2. ASSUME NEW i \in 1..n, i - 1 \in S PROVE i \in S
    <3>1. i \in 0..n /\ i # 0 /\ g[i - 1] = W[i - 1]
      BY <1>1, <2>2
    <3> QED
      BY <1>3, <1>7, <3>1, Zenon
  <2> HIDE DEF S
  <2> QED
    BY <1>1, <2>1, <2>2, Upto
<1>9. Joined(a) = Front(p, n)
  BY <1>1, <1>6, <1>8 DEF W
<1>10. Front(p, n) = SubSeq(Payload(p), 1, p.len)
  BY DEF Front
<1> QED
  BY <1>1, <1>9, <1>10, PayloadBytes, SubSeqFull

-----------------------------------------------------------------------------
\* The places of an assembly that hold a chunk.
Filled(a) == {i \in 1..a.count : a.parts[i] # Nothing}

\* An assembly of key k: received counts the filled places, and a filled one holds
\* the chunk some sender cut for that place.
Assembling(k, a) ==
  /\ a.total \in Nat /\ a.count \in Nat /\ a.count >= 2 /\ a.count = CountFor(a.total)
  /\ DOMAIN a.parts = 1..a.count /\ a.updated \in 0..MaxTime
  /\ a.received = Cardinality(Filled(a))
  /\ \A i \in Filled(a) : \E f \in Sent :
       /\ Key(f) = k /\ f.index = i - 1 /\ f.count = a.count /\ f.total = a.total
       /\ a.parts[i] = f.chunk

\* The limits on the assemblies of m.
Limits(m) ==
  /\ IsFiniteSet(Held(m)) /\ Cardinality(Held(m)) <= MaxAssemblies
  /\ \A k \in KeysOf : Cardinality({l \in Held(m) : l.src = k.src}) <= MaxPerSource

\* What a handler is pushing was found well formed by Push.
Pushing(f) == f.count >= 2 /\ f.index < f.count /\ f.count = CountFor(f.total)

\* The inductive invariant.
FragmentInv ==
  /\ FragmentTypeOK
  /\ \A h \in Handlers : at[h] <= now /\ (frag[h] # Nothing => Pushing(frag[h]))
  /\ \A k \in KeysOf : sets[k] # NoSet => Assembling(k, sets[k]) /\ sets[k].received # sets[k].count
  /\ Limits(sets) /\ ReassemblesSent

\* Deleting assemblies keeps the limits.
LEMMA Fewer ==
  ASSUME NEW m, NEW n, Limits(m), Held(n) \subseteq Held(m)
  PROVE  Limits(n)
<1>1. /\ IsFiniteSet(Held(m)) /\ Cardinality(Held(m)) \in Nat
      /\ Cardinality(Held(m)) <= MaxAssemblies
  BY FS_CardinalityType DEF Limits
<1>2. /\ IsFiniteSet(Held(n)) /\ Cardinality(Held(n)) \in Nat
      /\ Cardinality(Held(n)) <= Cardinality(Held(m))
  BY <1>1, FS_Subset, FS_CardinalityType
<1>3. ASSUME NEW k \in KeysOf
      PROVE  Cardinality({l \in Held(n) : l.src = k.src}) <= MaxPerSource
  <2> DEFINE M == {l \in Held(m) : l.src = k.src}
             N == {l \in Held(n) : l.src = k.src}
  <2>1. M \subseteq Held(m) /\ N \subseteq M
    OBVIOUS
  <2>2. Cardinality(M) <= MaxPerSource
    BY DEF Limits
  <2> HIDE DEF M, N
  <2>3. IsFiniteSet(M) /\ IsFiniteSet(N) /\ Cardinality(N) <= Cardinality(M)
    BY <1>1, <2>1, FS_Subset
  <2>4. Cardinality(M) \in Nat /\ Cardinality(N) \in Nat
    BY <2>3, FS_CardinalityType
  <2>5. Cardinality(N) <= MaxPerSource
    BY <2>2, <2>3, <2>4, FragmentAssumption
  <2> QED
    BY <2>5 DEF N
<1> QED
  BY <1>1, <1>2, <1>3, FragmentAssumption DEF Limits

\* Adding an assembly below the limits keeps them.
LEMMA OneMore ==
  ASSUME NEW m, NEW n, Limits(m), NEW k \in KeysOf, Held(n) \subseteq Held(m) \cup {k},
         k \in Held(m) \/ ( /\ ~(Cardinality(Held(m)) >= MaxAssemblies)
                            /\ ~(Cardinality({l \in Held(m) : l.src = k.src}) >= MaxPerSource) )
  PROVE  Limits(n)
<1>1. CASE k \in Held(m)
  BY <1>1, Fewer
<1>2. CASE k \notin Held(m)
  <2> DEFINE A == Held(m) \cup {k}
  <2>1. /\ IsFiniteSet(Held(m)) /\ Cardinality(Held(m)) \in Nat
        /\ ~(Cardinality(Held(m)) >= MaxAssemblies)
    BY <1>2, FS_CardinalityType DEF Limits
  <2>2. IsFiniteSet(A) /\ Cardinality(A) = Cardinality(Held(m)) + 1
    BY <1>2, <2>1, FS_AddElement
  <2>3. IsFiniteSet(Held(n)) /\ Cardinality(Held(n)) \in Nat /\ Cardinality(Held(n)) <= Cardinality(A)
    BY <2>2, FS_Subset, FS_CardinalityType
  <2>4. ASSUME NEW j \in KeysOf
        PROVE  Cardinality({l \in Held(n) : l.src = j.src}) <= MaxPerSource
    <3> DEFINE M == {l \in Held(m) : l.src = j.src}
               N == {l \in Held(n) : l.src = j.src}
    <3>1. Cardinality(M) <= MaxPerSource
      BY DEF Limits
    <3>2. M \subseteq Held(m) /\ k \notin M
      BY <1>2
    <3>3. IF j.src = k.src THEN N \subseteq M \cup {k} ELSE N \subseteq M
      OBVIOUS
    <3>4. j.src = k.src => ~(Cardinality(M) >= MaxPerSource)
      BY <1>2
    <3> HIDE DEF M, N
    <3>5. IsFiniteSet(M) /\ Cardinality(M) \in Nat
      BY <2>1, <3>2, FS_Subset, FS_CardinalityType
    <3>6. Cardinality(N) <= MaxPerSource
      <4>1. CASE j.src = k.src
        <5>1. IsFiniteSet(M \cup {k}) /\ Cardinality(M \cup {k}) = Cardinality(M) + 1
          BY <3>2, <3>5, FS_AddElement
        <5>2. IsFiniteSet(N) /\ Cardinality(N) \in Nat /\ Cardinality(N) <= Cardinality(M \cup {k})
          BY <3>3, <4>1, <5>1, FS_Subset, FS_CardinalityType
        <5> QED
          BY <3>4, <3>5, <4>1, <5>1, <5>2, FragmentAssumption
      <4>2. CASE j.src # k.src
        <5>1. IsFiniteSet(N) /\ Cardinality(N) \in Nat /\ Cardinality(N) <= Cardinality(M)
          BY <3>3, <3>5, <4>2, FS_Subset, FS_CardinalityType
        <5> QED
          BY <3>1, <3>5, <5>1, FragmentAssumption
      <4> QED
        BY <4>1, <4>2
    <3> QED
      BY <3>6 DEF N
  <2> QED
    BY <2>1, <2>2, <2>3, <2>4, FragmentAssumption DEF Limits
<1> QED
  BY <1>1, <1>2

\* Once received reaches count no place is empty, and the chunks make the one
\* packet that was sent under the key.
LEMMA Complete ==
  ASSUME NEW k, NEW a, Assembling(k, a), a.received = a.count,
         NEW p \in Unambiguous, k = [src |-> p.src, id |-> p.id]
  PROVE  Joined(a) = Payload(p)
<1>1. a.count \in Nat /\ a.count >= 2 /\ Cardinality(Filled(a)) = a.count
  BY DEF Assembling
<1>2. Filled(a) = 1..a.count
  <2>1. IsFiniteSet(1..a.count) /\ Cardinality(1..a.count) = a.count
    BY <1>1, FS_Interval
  <2>2. Filled(a) \subseteq 1..a.count
    BY DEF Filled
  <2> QED
    BY <1>1, <2>1, <2>2, FS_Subset
<1>3. ASSUME NEW i \in 1..a.count
      PROVE  a.count = CountFor(p.len) /\ p.len > ChunkSize /\ a.parts[i] = Cut(p, i - 1)
  <2>1. PICK f \in Sent : Key(f) = k /\ f.index = i - 1 /\ f.count = a.count /\ a.parts[i] = f.chunk
    BY <1>2 DEF Assembling
  <2>2. PICK q \in Packets : f \in Fragments(q)
    BY DEF Sent
  <2>3. f.src = q.src /\ f.id = q.id /\ q.len > ChunkSize /\ f.count = CountFor(q.len)
        /\ f.chunk = Cut(q, f.index)
    BY <2>2, SentFragment
  <2>4. q.src = p.src /\ q.id = p.id
    BY <2>1, <2>3 DEF Key
  <2>5. q = p
    BY <2>4 DEF Unambiguous
  <2> QED
    BY <2>1, <2>3, <2>5
<1>4. 1 \in 1..a.count /\ p \in Packets
  BY <1>1 DEF Unambiguous
<1> QED
  BY <1>3, <1>4, JoinedIs

\* cleanupLocked only deletes.
LEMMA KeptIs ==
  ASSUME FragmentInv, NEW h \in Handlers
  PROVE  /\ DOMAIN Kept(h) = KeysOf /\ Limits(Kept(h))
         /\ \A k \in KeysOf : Kept(h)[k] = NoSet \/ Kept(h)[k] = sets[k]
<1>1. DOMAIN Kept(h) = KeysOf /\ \A k \in KeysOf : Kept(h)[k] = NoSet \/ Kept(h)[k] = sets[k]
  BY DEF Kept
<1>2. Held(Kept(h)) \subseteq Held(sets)
  BY <1>1 DEF Held
<1> QED
  BY <1>1, <1>2, Fewer DEF FragmentInv

\* The fragment that a handler is pushing.
LEMMA PushedIs ==
  ASSUME FragmentInv, NEW h \in Handlers, frag[h] # Nothing
  PROVE  /\ frag[h] \in Wire /\ Pushing(frag[h]) /\ Key(frag[h]) \in KeysOf
         /\ frag[h].index \in Nat /\ frag[h].count \in Nat /\ frag[h].total \in Nat
         /\ frag[h].chunk # Nothing
<1>1. frag[h] \in Wire /\ Pushing(frag[h])
  BY DEF FragmentInv, FragmentTypeOK
<1> QED
  BY <1>1, WireTypes

\* Storing a chunk in an empty place.
LEMMA Fill ==
  ASSUME NEW k, NEW a, Assembling(k, a), NEW f \in Sent, Key(f) = k,
         f.count = a.count, f.total = a.total, f.chunk # Nothing,
         f.index + 1 \in 1..a.count, a.parts[f.index + 1] = Nothing, NEW t \in 0..MaxTime, f.index \in Nat
  PROVE  Assembling(k, [count |-> a.count, total |-> a.total, received |-> a.received + 1,
                        updated |-> t, parts |-> [a.parts EXCEPT ![f.index + 1] = f.chunk]])
<1> DEFINE j == f.index + 1
           b == [count |-> a.count, total |-> a.total, received |-> a.received + 1,
                 updated |-> t, parts |-> [a.parts EXCEPT ![j] = f.chunk]]
<1>1. /\ b.count = a.count /\ b.total = a.total /\ b.received = a.received + 1 /\ b.updated = t
      /\ DOMAIN b.parts = DOMAIN a.parts
      /\ \A i \in DOMAIN a.parts : b.parts[i] = IF i = j THEN f.chunk ELSE a.parts[i]
  OBVIOUS
<1>2. f.index = j - 1 /\ j \in 1..a.count /\ a.parts[j] = Nothing
  OBVIOUS
<1> HIDE DEF b, j
<1>3. /\ a.total \in Nat /\ a.count \in Nat /\ a.count >= 2 /\ a.count = CountFor(a.total)
      /\ DOMAIN a.parts = 1..a.count /\ a.received = Cardinality(Filled(a))
  BY DEF Assembling
<1>4. Filled(b) = Filled(a) \cup {j} /\ j \notin Filled(a)
  BY <1>1, <1>2, <1>3 DEF Filled
<1>5. IsFiniteSet(Filled(a))
  <2>1. IsFiniteSet(1..a.count) /\ Filled(a) \subseteq 1..a.count
    BY <1>3, FS_Interval DEF Filled
  <2> QED
    BY <2>1, FS_Subset, Zenon
<1>6. Cardinality(Filled(b)) = a.received + 1
  BY <1>3, <1>4, <1>5, FS_AddElement, ZenonT(40)
<1>7. ASSUME NEW i \in Filled(b)
      PROVE  \E g \in Sent : /\ Key(g) = k /\ g.index = i - 1 /\ g.count = b.count
                             /\ g.total = b.total /\ b.parts[i] = g.chunk
  <2>1. CASE i = j
    BY <1>1, <1>2, <1>3, <2>1
  <2>2. CASE i # j
    <3>1. i \in Filled(a) /\ b.parts[i] = a.parts[i]
      BY <1>1, <1>3, <1>4, <2>2, ZenonT(40) DEF Filled
    <3> QED
      BY <1>1, <3>1 DEF Assembling
  <2> QED
    BY <2>1, <2>2
<1>8. Assembling(k, b)
  BY <1>1, <1>3, <1>6, <1>7 DEF Assembling
<1> QED
  BY <1>8 DEF b, j

\* What Push stores is an assembly of the fragment's key.
LEMMA Stores ==
  ASSUME FragmentInv, NEW h \in Handlers, frag[h] # Nothing, Fits(h), RightLength(frag[h]), ~Taken(h)
  PROVE  Assembling(Key(frag[h]), Stored(h))
<1> DEFINE f == frag[h]
           k == Key(f)
           new == [count |-> f.count, total |-> f.total, received |-> 0, updated |-> at[h],
                   parts |-> [i \in 1..f.count |-> Nothing]]
           a == IF Assembly(h) # NoSet THEN Assembly(h) ELSE new
           b == [count |-> a.count, total |-> a.total, received |-> a.received + 1,
                 updated |-> at[h], parts |-> [a.parts EXCEPT ![f.index + 1] = f.chunk]]
<1>1. /\ f \in Wire /\ f.count >= 2 /\ f.index < f.count /\ f.count = CountFor(f.total)
      /\ k \in KeysOf /\ f.index \in Nat /\ f.count \in Nat /\ f.total \in Nat /\ f.chunk # Nothing
  BY PushedIs DEF Pushing
<1>2. f \in Sent
  BY <1>1, OnlySent, ZenonT(40)
<1>3. at[h] \in 0..MaxTime
  BY DEF FragmentInv, FragmentTypeOK
<1>4. f.index + 1 \in 1..f.count
  BY <1>1
<1>5. Stored(h) = b
  BY Zenon DEF Stored
<1> HIDE DEF f, k, new, a, b
<1>6. Assembling(k, a) /\ a.count = f.count /\ a.total = f.total /\ a.parts[f.index + 1] = Nothing
  <2>1. CASE Assembly(h) # NoSet
    <3>1. a = Assembly(h) /\ a # NoSet
      BY <2>1 DEF a
    <3>2. a.count = f.count /\ a.total = f.total /\ a.parts[f.index + 1] = Nothing
      BY <3>1 DEF Fits, Taken, f
    <3>3. a = sets[k]
      BY <1>1, <3>1, KeptIs, ZenonT(40) DEF Assembly, k, f
    <3> QED
      BY <1>1, <3>1, <3>2, <3>3 DEF FragmentInv
  <2>2. CASE Assembly(h) = NoSet
    <3>1. a = new
      BY <2>2 DEF a
    <3>2. /\ new.count = f.count /\ new.total = f.total /\ new.received = 0 /\ new.updated = at[h]
          /\ DOMAIN new.parts = 1..f.count /\ \A i \in 1..f.count : new.parts[i] = Nothing
      BY DEF new
    <3>3. Filled(new) = {}
      BY <3>2 DEF Filled
    <3>4. Cardinality(Filled(new)) = 0
      BY <3>3, FS_EmptySet
    <3>5. Assembling(k, new)
      BY <1>1, <1>3, <3>2, <3>3, <3>4 DEF Assembling
    <3> QED
      BY <1>4, <3>1, <3>2, <3>5
  <2> QED
    BY <2>1, <2>2, ZenonT(40)
<1>7. Key(f) = k
  BY Zenon DEF k
<1>8. Assembling(k, b)
  BY <1>1, <1>2, <1>3, <1>4, <1>6, <1>7, Fill, ZenonT(40) DEF b
<1> QED
  BY <1>5, <1>8 DEF k, f

\* A step of Push that only deletes assemblies.
LEMMA Deletes ==
  ASSUME FragmentInv, NEW h \in Handlers, Done(h), DOMAIN sets' = KeysOf,
         \A k \in KeysOf : sets'[k] = NoSet \/ sets'[k] = sets[k], ReassemblesSent'
  PROVE  FragmentInv'
<1>1. Held(sets') \subseteq Held(sets)
  BY Zenon DEF Held
<1>2. Limits(sets')
  BY <1>1, Fewer, Zenon DEF FragmentInv
<1>3. \A k \in KeysOf : sets'[k] # NoSet =>
        Assembling(k, sets'[k]) /\ sets'[k].received # sets'[k].count
  BY DEF FragmentInv
<1>4. /\ frag' \in [Handlers -> Wire \cup {Nothing}] /\ at' \in [Handlers -> 0..MaxTime]
      /\ browser' \in BOOLEAN /\ now' = now /\ now \in 0..MaxTime
      /\ \A g \in Handlers : at'[g] <= now /\ (frag'[g] # Nothing => Pushing(frag'[g]))
  BY FragmentAssumption DEF FragmentInv, FragmentTypeOK, Done
<1> QED
  BY <1>2, <1>3, <1>4, Zenon DEF FragmentInv, FragmentTypeOK, Assembling

\* An empty reassembler satisfies the invariant.
LEMMA InitFragment == FragmentInit => FragmentInv
<1> SUFFICES ASSUME FragmentInit PROVE FragmentInv
  OBVIOUS
<1>1. \A k \in KeysOf : sets[k] = NoSet
  BY DEF FragmentInit
<1>2. Held(sets) = {}
  BY <1>1 DEF Held
<1>3. IsFiniteSet({}) /\ Cardinality({}) = 0
  BY FS_EmptySet
<1>4. \A k \in KeysOf : {l \in Held(sets) : l.src = k.src} = {}
  BY <1>2
<1>5. Limits(sets)
  BY <1>2, <1>3, <1>4, FragmentAssumption DEF Limits
<1>6. FragmentTypeOK
  BY FragmentAssumption DEF FragmentInit, FragmentTypeOK
<1>7. ReassemblesSent /\ \A h \in Handlers : at[h] <= now /\ frag[h] = Nothing
  BY <1>6 DEF FragmentInit, ReassemblesSent
<1> QED
  BY <1>1, <1>5, <1>6, <1>7, Zenon DEF FragmentInv

\* The invariant is inductive: no order of fragments, whole or damaged, of time,
\* of handlers and of resets breaks it.
LEMMA NextFragment == FragmentInv /\ [FragmentNext]_fragmentVars => FragmentInv'
<1> SUFFICES ASSUME FragmentInv, [FragmentNext]_fragmentVars PROVE FragmentInv'
  OBVIOUS
<1>1. CASE Tick
  <2>1. now' \in 0..MaxTime /\ now' = now + 1
    BY <1>1, FragmentAssumption DEF Tick, FragmentInv, FragmentTypeOK
  <2>2. \A h \in Handlers : at[h] <= now'
    BY <2>1, FragmentAssumption DEF FragmentInv, FragmentTypeOK
  <2> QED
    BY <1>1, <2>1, <2>2, ZenonT(40) DEF Tick, FragmentInv, FragmentTypeOK, ReassemblesSent
<1>2. CASE Reset
  <2>1. \A k \in KeysOf : sets'[k] = NoSet
    BY <1>2 DEF Reset
  <2>2. Held(sets') \subseteq Held(sets)
    BY <2>1, Zenon DEF Held
  <2>3. Limits(sets')
    BY <2>2, Fewer, Zenon DEF FragmentInv
  <2> QED
    BY <1>2, <2>1, <2>3, Zenon DEF Reset, FragmentInv, FragmentTypeOK, ReassemblesSent
<1>3. ASSUME NEW h \in Handlers, NEW f \in Wire, Begin(h, f) PROVE FragmentInv'
  <2>1. Pushing(f)
    BY <1>3, Zenon DEF Begin, WellFormed, BrowserWellFormed, Pushing
  <2>2. /\ frag' \in [Handlers -> Wire \cup {Nothing}] /\ at' \in [Handlers -> 0..MaxTime]
        /\ \A g \in Handlers : at'[g] <= now /\ (frag'[g] # Nothing => Pushing(frag'[g]))
    <3>1. frag' = [frag EXCEPT ![h] = f] /\ at' = [at EXCEPT ![h] = now] /\ f \in Wire
      BY <1>3, Zenon DEF Begin
    <3>2. /\ frag \in [Handlers -> Wire \cup {Nothing}] /\ at \in [Handlers -> 0..MaxTime]
          /\ now \in 0..MaxTime
          /\ \A g \in Handlers : at[g] <= now /\ (frag[g] # Nothing => Pushing(frag[g]))
      BY Zenon DEF FragmentInv, FragmentTypeOK
    <3> QED
      BY <2>1, <3>1, <3>2, FragmentAssumption
  <2> QED
    BY <1>3, <2>2, Zenon DEF Begin, FragmentInv, FragmentTypeOK, ReassemblesSent
<1>4. ASSUME NEW h \in Handlers, PushRefused(h) PROVE FragmentInv'
  BY <1>4, KeptIs, Deletes, Zenon DEF PushRefused, ReassemblesSent
<1>5. ASSUME NEW h \in Handlers, PushConflict(h) PROVE FragmentInv'
  BY <1>5, KeptIs, Deletes, Zenon DEF PushConflict, ReassemblesSent
<1>6. ASSUME NEW h \in Handlers, PushWrongLength(h) PROVE FragmentInv'
  BY <1>6, KeptIs, Deletes, Zenon DEF PushWrongLength, ReassemblesSent
<1>7. ASSUME NEW h \in Handlers, PushDuplicate(h) PROVE FragmentInv'
  BY <1>7, KeptIs, Deletes, Zenon DEF PushDuplicate, ReassemblesSent
<1>8. ASSUME NEW h \in Handlers, PushStored(h) PROVE FragmentInv'
  <2> DEFINE k == Key(frag[h])
             m == Kept(h)
             b == Stored(h)
  <2>1. k \in KeysOf /\ DOMAIN m = KeysOf /\ Limits(m)
        /\ \A l \in KeysOf : m[l] = NoSet \/ m[l] = sets[l]
    BY <1>8, KeptIs, PushedIs, Zenon DEF PushStored
  <2>2. Assembling(k, b) /\ b.received # b.count
    BY <1>8, Stores, Zenon DEF PushStored
  <2>3. sets' = [m EXCEPT ![k] = b] /\ out' = Nothing /\ Done(h)
    BY <1>8, ZenonT(40) DEF PushStored
  <2>4. k \in Held(m) \/ ( /\ ~(Cardinality(Held(m)) >= MaxAssemblies)
                           /\ ~(Cardinality({l \in Held(m) : l.src = k.src}) >= MaxPerSource) )
    <3>1. k.src = frag[h].src
      BY DEF Key
    <3> QED
      BY <1>8, <2>1, <3>1 DEF PushStored, AtLimit, Assembly, Held
  <2> HIDE DEF k, m, b
  <2>5. DOMAIN sets' = KeysOf /\ \A l \in KeysOf : sets'[l] = IF l = k THEN b ELSE m[l]
    BY <2>1, <2>3
  <2>6. Held(sets') \subseteq Held(m) \cup {k}
    BY <2>5 DEF Held
  <2>7. Limits(sets')
    BY <2>1, <2>4, <2>6, OneMore, Zenon
  <2>8. \A l \in KeysOf : sets'[l] # NoSet =>
          Assembling(l, sets'[l]) /\ sets'[l].received # sets'[l].count
    BY <2>1, <2>2, <2>5, Zenon DEF FragmentInv
  <2>9. /\ frag' \in [Handlers -> Wire \cup {Nothing}] /\ at' \in [Handlers -> 0..MaxTime]
        /\ browser' \in BOOLEAN /\ now' = now /\ now \in 0..MaxTime
        /\ \A g \in Handlers : at'[g] <= now /\ (frag'[g] # Nothing => Pushing(frag'[g]))
    BY <2>3, FragmentAssumption DEF FragmentInv, FragmentTypeOK, Done
  <2> QED
    BY <2>3, <2>5, <2>7, <2>8, <2>9, Zenon DEF FragmentInv, FragmentTypeOK, Assembling, ReassemblesSent
<1>9. ASSUME NEW h \in Handlers, PushCompleted(h) PROVE FragmentInv'
  <2> DEFINE b == Stored(h)
  <2>1. Assembling(Key(frag[h]), b) /\ b.received = b.count /\ out' = Assembled(h)
    BY <1>9, Stores, Zenon DEF PushCompleted
  <2>2. out' # Nothing => out'.key = Key(frag[h]) /\ out'.payload = Joined(b)
    BY <2>1, Zenon DEF Assembled
  <2> HIDE DEF b
  <2>3. ReassemblesSent'
    BY <2>1, <2>2, Complete, Zenon DEF ReassemblesSent
  <2> QED
    BY <1>9, <2>3, KeptIs, Deletes, Zenon DEF PushCompleted
<1>10. CASE UNCHANGED fragmentVars
  BY <1>10, Zenon DEF fragmentVars, FragmentInv, FragmentTypeOK, ReassemblesSent
<1> QED
  BY <1>1, <1>2, <1>3, <1>4, <1>5, <1>6, <1>7, <1>8, <1>9, <1>10, ZenonT(40) DEF FragmentNext

\* FragmentInv holds in every reachable state.
THEOREM FragmentInvariance == FragmentSpec => []FragmentInv
<1> QED
  BY InitFragment, NextFragment, PTL DEF FragmentSpec

\* The memory of the reassembler is bounded whatever arrives: the type of its
\* assemblies and both limits hold always, for any number of handlers and sources.
THEOREM Memory == FragmentSpec => []WithinLimits
<1>1. FragmentInv => WithinLimits
  BY DEF FragmentInv, WithinLimits, Limits
<1> QED
  BY <1>1, FragmentInvariance, PTL

\* Push hands a packet whose key is its own to WireGuard byte for byte, for every
\* chunk size, every length and every damage, loss, repetition and reordering.
THEOREM Reassembly == FragmentSpec => []ReassemblesSent
<1>1. FragmentInv => ReassemblesSent
  BY DEF FragmentInv
<1> QED
  BY <1>1, FragmentInvariance, PTL

\* A step lengthens the life of a live assembly only by a chunk it did not have:
\* no repetition of fragments keeps an assembly from expiring.
THEOREM NoPin == FragmentSpec => NotPinned
<1> DEFINE Pin(k) == now - sets[k].updated < TTL /\ sets'[k].updated > sets[k].updated
<1>1. ASSUME FragmentInv, [FragmentNext]_fragmentVars, NEW k \in Held(sets), Pin(k)
      PROVE  sets'[k].parts # sets[k].parts
  <2>1. k \in KeysOf /\ Assembling(k, sets[k])
    BY <1>1, Zenon DEF FragmentInv, Held
  <2>2. sets[k].updated \in Nat /\ now \in Nat
    BY <1>1, <2>1, FragmentAssumption DEF Assembling, FragmentInv, FragmentTypeOK
  <2>3. NoSet.updated = -1
    BY DEF NoSet
  <2>4. sets'[k] # NoSet /\ sets'[k] # sets[k]
    BY <1>1, <2>2, <2>3
  <2>5. PICK h \in Handlers : PushStored(h) /\ k = Key(frag[h])
    <3>1. ASSUME NEW h \in Handlers PROVE Kept(h)[k] = NoSet \/ Kept(h)[k] = sets[k]
      BY <1>1, <2>1, KeptIs, Zenon
    <3>2. ASSUME NEW h \in Handlers,
                 PushConflict(h) \/ PushWrongLength(h) \/ PushCompleted(h) \/ PushStored(h)
          PROVE  PushStored(h) /\ k = Key(frag[h])
      <4>1. DOMAIN Kept(h) = KeysOf
        BY Zenon DEF Kept
      <4> QED
        BY <2>1, <2>4, <3>1, <3>2, <4>1, Zenon DEF PushConflict, PushWrongLength, PushCompleted, PushStored
    <3>3. ASSUME NEW h \in Handlers PROVE ~PushRefused(h) /\ ~PushDuplicate(h)
      BY <2>4, <3>1 DEF PushRefused, PushDuplicate
    <3>4. ~Tick /\ ~UNCHANGED fragmentVars
      BY <2>4 DEF Tick, fragmentVars
    <3>5. ~Reset
      BY <2>1, <2>4 DEF Reset
    <3>6. \A h \in Handlers, f \in Wire : ~Begin(h, f)
      BY <2>4, Zenon DEF Begin
    <3> QED
      BY <1>1, <3>2, <3>3, <3>4, <3>5, <3>6, Zenon DEF FragmentNext
  <2>6. Assembly(h) = sets[k]
    <3>1. at[h] \in Nat /\ at[h] <= now
      BY <1>1, FragmentAssumption DEF FragmentInv, FragmentTypeOK
    <3>2. ~(at[h] - sets[k].updated >= TTL)
      BY <1>1, <2>2, <3>1, FragmentAssumption
    <3> QED
      BY <2>1, <2>5, <3>2, ZenonT(40) DEF Assembly, Kept
  <2>7. sets[k].parts[frag[h].index + 1] = Nothing
    BY <2>1, <2>5, <2>6, Zenon DEF PushStored, Taken, Held
  <2>8. sets'[k].parts = [sets[k].parts EXCEPT ![frag[h].index + 1] = frag[h].chunk]
    <3>1. sets'[k] = Stored(h)
      BY <2>1, <2>5, Zenon DEF PushStored, Kept
    <3>2. Assembly(h) # NoSet
      BY <2>1, <2>6, Zenon DEF Held
    <3>3. Stored(h).parts = [Assembly(h).parts EXCEPT ![frag[h].index + 1] = frag[h].chunk]
      BY <3>2, ZenonT(40) DEF Stored
    <3> QED
      BY <2>6, <3>1, <3>3, Zenon
  <2>9. frag[h].index + 1 \in DOMAIN sets[k].parts /\ frag[h].chunk # Nothing
    <3>1. frag[h] # Nothing /\ Fits(h)
      BY <2>5, Zenon DEF PushStored
    <3>2. sets[k].count = frag[h].count
      BY <2>6, <3>1 DEF Fits, Held
    <3>3. Pushing(frag[h]) /\ frag[h].index \in Nat /\ frag[h].count \in Nat /\ frag[h].chunk # Nothing
      BY <1>1, <3>1, PushedIs
    <3>4. frag[h].index + 1 \in 1..frag[h].count
      BY <3>3 DEF Pushing
    <3>5. DOMAIN sets[k].parts = 1..sets[k].count
      BY <2>1 DEF Assembling
    <3> QED
      BY <3>2, <3>3, <3>4, <3>5
  <2> QED
    BY <2>7, <2>8, <2>9
<1>2. FragmentInv /\ [FragmentNext]_fragmentVars =>
        [\A k \in Held(sets) : Pin(k) => sets'[k].parts # sets[k].parts]_fragmentVars
  BY <1>1
<1> QED
  BY <1>2, FragmentInvariance, PTL DEF FragmentSpec, NotPinned
=============================================================================
