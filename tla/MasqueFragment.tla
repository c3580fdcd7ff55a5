--------------------------- MODULE MasqueFragment ---------------------------
(***************************************************************************)
(* Fragmentation of WireGuard packets and their reassembly                 *)
(* (masquecat_fragment.go, called from masqueBind.Send and Inject; and the *)
(* browser's own version in masquecat_browser_js.go).                      *)
(*                                                                         *)
(* The network below is a datagram network: it delivers any fragment of    *)
(* any packet at any time, again and again, or never, and may shorten it.  *)
(* Handlers (the relay loop and the direct sessions) call Push             *)
(* concurrently.  Push reads the clock before it takes r.mu, so it is two  *)
(* steps.  A packet that is not fragmented passes through Push untouched   *)
(* and is not modelled.                                                    *)
(*                                                                         *)
(* The browser's Push differs in three ways: it finds out the length of a  *)
(* chunk only after it has looked up the assembly, which it then deletes;  *)
(* it is called by one receive loop; and its bind never resets it.         *)
(***************************************************************************)
EXTENDS Integers, Sequences, FiniteSets

CONSTANTS
  Packets,        \* [src, id, len, tag]: sent packets; tag tells contents apart
  Handlers,       \* concurrent callers of Push
  ChunkSize,      \* masqueWGFragmentChunkSize
  MaxSize,        \* masqueWGFragmentMaxSize
  TTL,            \* masqueWGFragmentTTL
  MaxAssemblies,  \* masqueWGMaxAssemblies
  MaxPerSource,   \* masqueWGMaxAssembliesPerSource
  MaxTime,        \* bound on the clock
  Nothing

ASSUME FragmentAssumption ==
  /\ ChunkSize \in Nat \ {0} /\ MaxSize \in Nat /\ TTL \in Nat \ {0} /\ MaxTime \in Nat
  /\ MaxAssemblies \in Nat /\ MaxPerSource \in Nat

VARIABLES
  browser,  \* the receiver is the browser's
  now,      \* the clock
  sets,     \* masqueWGReassembler.sets, NoSet where there is no entry
  frag,     \* the fragment a handler is pushing, or Nothing
  at,       \* the time it read
  out       \* the packet the last Push returned as ready, or Nothing

fragmentVars == <<browser, now, sets, frag, at, out>>

-----------------------------------------------------------------------------
Payload(p) == [i \in 1..p.len |-> <<p.tag, i>>]

\* How many chunks a packet of n bytes needs.
CountFor(n) == (n + ChunkSize - 1) \div ChunkSize

\* The bytes [first, last) of chunk i, from 0.
ChunkEnd(i, n) == IF (i + 1) * ChunkSize > n THEN n ELSE (i + 1) * ChunkSize

\* fragmentMasqueWireGuardPacket: small packets are sent whole and ones that
\* are too large are refused.
Fragments(p) ==
  IF p.len <= ChunkSize \/ p.len > MaxSize THEN {}
  ELSE {[src |-> p.src, id |-> p.id, index |-> i, count |-> CountFor(p.len), total |-> p.len,
         chunk |-> SubSeq(Payload(p), i * ChunkSize + 1, ChunkEnd(i, p.len))] :
        i \in 0..(CountFor(p.len) - 1)}

\* A fragment that lost its last byte, or was cut by a sender that counts
\* its chunks differently.
Damaged(f) ==
  {[f EXCEPT !.chunk = SubSeq(@, 1, Len(@) - 1)], [f EXCEPT !.count = @ + 1]}

Sent == UNION {Fragments(p) : p \in Packets}
Wire == Sent \cup UNION {Damaged(f) : f \in Sent}

ASSUME NothingAssumption ==
  /\ \A p \in Packets : p.len \in Nat
  /\ Nothing \notin Wire /\ \A f \in Wire : f.chunk # Nothing

\* What Push checks before it looks at its assemblies.
RightLength(f) ==
  Len(f.chunk) = IF f.index = f.count - 1
                 THEN f.total - (f.count - 1) * ChunkSize ELSE ChunkSize
WellFormed(f) ==
  /\ f.count >= 2 /\ f.index < f.count
  /\ f.total > ChunkSize /\ f.total <= MaxSize
  /\ f.count = CountFor(f.total)
  /\ RightLength(f)

\* ... and in the browser.
BrowserWellFormed(f) ==
  f.count >= 2 /\ f.index < f.count /\ f.total <= MaxSize /\ f.count = CountFor(f.total)

KeysOf == {[src |-> p.src, id |-> p.id] : p \in Packets}

\* Mutant: assemblies are told apart by their identifier alone.
KeyById(f) == CHOOSE k \in KeysOf : k.id = f.id

Key(f) == [src |-> f.src, id |-> f.id]
NoSet == [count |-> 0, total |-> 0, parts |-> <<>>, received |-> 0, updated |-> -1]

FragmentTypeOK ==
  /\ browser \in BOOLEAN /\ now \in 0..MaxTime
  /\ DOMAIN sets = KeysOf
  /\ \A k \in KeysOf : sets[k] # NoSet =>
       /\ sets[k].count = CountFor(sets[k].total) /\ sets[k].updated \in 0..MaxTime
       /\ DOMAIN sets[k].parts = 1..sets[k].count
  /\ frag \in [Handlers -> Wire \cup {Nothing}]
  /\ at \in [Handlers -> 0..MaxTime]

FragmentInit ==
  /\ browser \in BOOLEAN /\ now = 0
  /\ sets = [k \in KeysOf |-> NoSet]
  /\ frag = [h \in Handlers |-> Nothing]
  /\ at = [h \in Handlers |-> 0]
  /\ out = Nothing

Tick ==
  /\ now < MaxTime /\ now' = now + 1
  /\ UNCHANGED <<browser, sets, frag, at, out>>

-----------------------------------------------------------------------------
\* A fragment arrives, is found well formed, and the clock is read.
Begin(h, f) ==
  /\ frag[h] = Nothing
  /\ IF browser THEN BrowserWellFormed(f) /\ \A g \in Handlers : frag[g] = Nothing
     ELSE WellFormed(f)
  /\ frag' = [frag EXCEPT ![h] = f]
  /\ at' = [at EXCEPT ![h] = now]
  /\ out' = Nothing
  /\ UNCHANGED <<browser, now, sets>>

\* cleanupLocked: what is left once the expired assemblies are deleted.
Kept(h) ==
  [k \in KeysOf |-> IF at[h] - sets[k].updated >= TTL THEN NoSet ELSE sets[k]]

Held(m) == {k \in KeysOf : m[k] # NoSet}

\* The assembly the fragment belongs to, after cleanup.
Assembly(h) == Kept(h)[Key(frag[h])]

\* Mutant: the limit of a source is not enforced.
AtLimitTotalOnly(h) == Cardinality(Held(Kept(h))) >= MaxAssemblies

AtLimit(h) ==
  \/ Cardinality({k \in Held(Kept(h)) : k.src = frag[h].src}) >= MaxPerSource
  \/ Cardinality(Held(Kept(h))) >= MaxAssemblies

Done(h) ==
  /\ frag' = [frag EXCEPT ![h] = Nothing]
  /\ at' = [at EXCEPT ![h] = 0]
  /\ UNCHANGED <<browser, now>>

\* The assembly with the fragment's chunk in its place.
Stored(h) ==
  LET f == frag[h]
      a == IF Assembly(h) # NoSet THEN Assembly(h)
           ELSE [count |-> f.count, total |-> f.total, received |-> 0, updated |-> at[h],
                 parts |-> [i \in 1..f.count |-> Nothing]]
  IN  [count |-> a.count, total |-> a.total, received |-> a.received + 1, updated |-> at[h],
       parts |-> [a.parts EXCEPT ![f.index + 1] = f.chunk]]

\* Whether the metadata agrees with that of the assembly.
Fits(h) ==
  Assembly(h) = NoSet \/ (Assembly(h).count = frag[h].count /\ Assembly(h).total = frag[h].total)

\* Whether the fragment's place is taken, and by the same chunk.
Taken(h) == Assembly(h) # NoSet /\ Assembly(h).parts[frag[h].index + 1] # Nothing
Same(h) == Assembly(h).parts[frag[h].index + 1] = frag[h].chunk

\* A new assembly would exceed a limit: the fragment is dropped.
PushRefused(h) ==
  /\ frag[h] # Nothing /\ Assembly(h) = NoSet /\ AtLimit(h)
  /\ sets' = Kept(h) /\ out' = Nothing /\ Done(h)

\* Inconsistent metadata, or another chunk in the same place: the assembly goes.
PushConflict(h) ==
  /\ frag[h] # Nothing
  /\ \/ ~Fits(h)
     \/ Fits(h) /\ RightLength(frag[h]) /\ Taken(h) /\ ~Same(h)
  /\ sets' = [Kept(h) EXCEPT ![Key(frag[h])] = NoSet]
  /\ out' = Nothing /\ Done(h)

\* In the browser: a chunk of the wrong length takes its assembly along, the one
\* it has just opened or the one the others built.
PushWrongLength(h) ==
  /\ frag[h] # Nothing /\ ~RightLength(frag[h])
  /\ Fits(h) /\ (Assembly(h) # NoSet \/ ~AtLimit(h))
  /\ sets' = [Kept(h) EXCEPT ![Key(frag[h])] = NoSet]
  /\ out' = Nothing /\ Done(h)

\* Mutant: a duplicate refreshes the assembly's lifetime.
PushDuplicateRefreshes(h) ==
  /\ frag[h] # Nothing /\ Fits(h) /\ RightLength(frag[h]) /\ Taken(h) /\ Same(h)
  /\ sets' = [Kept(h) EXCEPT ![Key(frag[h])].updated = at[h]]
  /\ out' = Nothing /\ Done(h)

\* A duplicate is not progress and does not refresh the assembly's lifetime.
PushDuplicate(h) ==
  /\ frag[h] # Nothing /\ Fits(h) /\ RightLength(frag[h]) /\ Taken(h) /\ Same(h)
  /\ sets' = Kept(h)
  /\ out' = Nothing /\ Done(h)

\* The chunk is stored; others are missing.
PushStored(h) ==
  /\ frag[h] # Nothing /\ Fits(h) /\ RightLength(frag[h]) /\ ~Taken(h)
  /\ (Assembly(h) # NoSet \/ ~AtLimit(h))
  /\ Stored(h).received # Stored(h).count
  /\ sets' = [Kept(h) EXCEPT ![Key(frag[h])] = Stored(h)]
  /\ out' = Nothing /\ Done(h)

\* What Push returns for a complete assembly: its chunks, appended in a loop.
\* received counts the places that are filled, so none is empty.
Joined(a) ==
  LET joined[i \in 0..a.count] == IF i = 0 THEN <<>> ELSE joined[i - 1] \o a.parts[i]
  IN  joined[a.count]
Assembled(h) ==
  LET joined == Joined(Stored(h)) IN
    IF Len(joined) = Stored(h).total THEN [key |-> Key(frag[h]), payload |-> joined] ELSE Nothing

\* The last chunk: the packet is returned and its assembly deleted.
PushCompleted(h) ==
  /\ frag[h] # Nothing /\ Fits(h) /\ RightLength(frag[h]) /\ ~Taken(h)
  /\ (Assembly(h) # NoSet \/ ~AtLimit(h))
  /\ Stored(h).received = Stored(h).count
  /\ out' = Assembled(h)
  /\ sets' = [Kept(h) EXCEPT ![Key(frag[h])] = NoSet]
  /\ Done(h)

\* bind.Open and bind.Close.
Reset ==
  /\ ~browser /\ Held(sets) # {}
  /\ sets' = [k \in KeysOf |-> NoSet]
  /\ out' = Nothing
  /\ UNCHANGED <<browser, now, frag, at>>

FragmentNext ==
  \/ Tick \/ Reset
  \/ \E h \in Handlers :
       \/ \E f \in Wire : Begin(h, f)
       \/ PushRefused(h) \/ PushConflict(h) \/ PushWrongLength(h) \/ PushDuplicate(h)
       \/ PushStored(h) \/ PushCompleted(h)

FragmentSpec == FragmentInit /\ [][FragmentNext]_fragmentVars
-----------------------------------------------------------------------------
\* The memory of the reassembler is bounded for each assembly (its type), in
\* total, and for each source.
WithinLimits ==
  /\ FragmentTypeOK
  /\ Cardinality(Held(sets)) <= MaxAssemblies
  /\ \A k \in KeysOf : Cardinality({l \in Held(sets) : l.src = k.src}) <= MaxPerSource

\* Packets whose key no other packet shares.
Unambiguous == {p \in Packets : \A q \in Packets \ {p} : q.src # p.src \/ q.id # p.id}

\* A packet whose source uses its identifier once is handed to WireGuard byte
\* for byte as sent or not at all, whatever was lost, repeated, reordered or
\* shortened and whichever other source was using the same identifier.
ReassemblesSent ==
  out # Nothing => \A p \in Unambiguous :
    out.key = [src |-> p.src, id |-> p.id] => out.payload = Payload(p)

\* "Duplicates are not forward progress": a live assembly lives longer only by
\* a chunk it did not have, so replays cannot pin it.
NotPinned ==
  [][\A k \in Held(sets) :
       now - sets[k].updated < TTL /\ sets'[k].updated > sets[k].updated =>
         sets'[k].parts # sets[k].parts]_fragmentVars
=============================================================================
