# MasqueCat: a TLA+ verification project

MasqueCat connects a client to a server with userspace WireGuard carried in
MASQUE CONNECT-UDP, over HTTP/3, over HTTP/2 where UDP is blocked, and over
WebTransport from browsers, directly or through a relay.  It grew out of
tailcat, whose DERP transport is still in the repository.  This directory holds
TLA+ models of its concurrent parts, TLC configurations that check them on small
instances, and TLAPS proofs of every safety property the runs check, for
instances of any size.

`PROJECT.json` maps every definition to the source lines it models, lists the
runs, the theorems, a deliberate mistake ("mutant") for every checked property
that shows the property can fail, and the hazards the properties were chosen for.

## 1. The system

| Part | Source | Shared state | Who touches it |
|---|---|---|---|
| Relay registry | `masquecat_h3_server.go`, `masquecat_webtransport.go` | `peers`: node key to registered peer | one handler goroutine per CONNECT stream or browser session |
| Authenticator | `masquecat_auth.go` | `pending`: challenges with a lifetime | every request, on the relay and on direct servers |
| Path | `masquecat_transport.go`, `masquecat_h2.go` | `pc`, `closed`: the current carrier | the receive loop `run`, senders, `Close`, the owner's context |
| Core | `masquecat_core.go`, `masquecat_direct.go` | WireGuard peers, return paths, receive queue, allowlist, reservations | direct sessions, the relay loop, WireGuard's receiver, `AddAllowedClient`, `Close` |
| Fragments | `masquecat_fragment.go`, `masquecat_browser_js.go` | incomplete assemblies | every goroutine that injects packets |
| Client, server | `masquecat.go`, `masquecat_token.go` | what a start has opened; the token | callers of operations, `Start`, `Close` |
| Browser client | `masquecat_browser_js.go` | the fields of the current session | operations, the receive loop, `Close`, the browser's promises |
| HTTP/2 | `masquecat_h2.go`, `masquecat_h2_client.go` | windows, wake-up channel, listeners, connections, one-shot channels | writers, `readLoop`s, handlers, watchers, `Close` |
| DERP transport | `tailcat.go`, `disco.go`, `wire.go` | clients, network map, endpoints | meow callbacks, engine callbacks, advertise goroutines, calls |
| DERP map cache | `tailcat.go`, `cmd/tailcat/tailcat.go` | two files | all processes of a user |
| Commands | `cmd/tailcat/tailcat.go`, `cmd/tailcat/masquecat_cli.go` | standard input and output, the process itself | connection handlers, copy goroutines, exits |

A packet of a client goes through its core, is fragmented, written to its path,
travels in a carrier to a relay handler, which looks up the destination key and
forwards it to that peer's carrier, whose path hands it to the server's core,
where it is reassembled and given to WireGuard.  Answers take the return path
that the core has recorded for the peer: the relay, or a direct session.

What is hard: most critical sections are short and the interesting call
(`ForwardPacket`, `Close`, `SendDERPPacketTo`, the wait on `flowCh`) comes after
the lock is released; clocks are read before locks are taken; deferred calls run
in an order that matters; every start has half a dozen ways to fail half way;
carriers break, and packets are lost, repeated and overtake each other.

## 2. Modules

| Module | Models | State and actions |
|---|---|---|
| `KeyRegistry` | what a relay promises | `owner`, `route`; claim, release, choose, hand over |
| `MasqueRelay` | registry and handlers | one action per critical section of `r.mu` or call on a carrier; `pc[s]` is where the handler is; the three carriers differ in the order of their deferred calls (`FirstDefer`) |
| `MasqueAuth` | `authorize`, `issue`, `verify` | two steps per call: read the clock (`at`), then the critical section |
| `MasquePath` | `masquePath` | `run` and `reconnect` by location `runLoc`, writers by `wloc`, the carrier taken out by `Close` in `cc`; a carrier's `Close()` is a step after the unlock |
| `MasqueCore` | peers, paths, admission, the bind's queue | direct sessions by `pc`, the server's relay loop by `rloc`; a packet on its way to WireGuard goes through `queue`, and `Close` of the bind releases who waits for it |
| `MasqueFragment` | fragmentation, `Push` | `sets`; `Push` is two steps (clock, critical section); the network delivers any fragment, any number of times, or shortened; `browser` chooses between the native reassembler and the one of `masquecat_browser_js.go`, which has one caller and drops an assembly on a chunk of the wrong length |
| `MasqueClient` | `MasqueClient` | a generation is one start; `mu` is held through dials and through `Close` |
| `MasqueBrowser` | `BrowserMasqueClient` | a generation is one session with its path and core; `mu` (`holder`) is held through a start but not through a close; `writing` is a write that the browser has not settled |
| `MasqueClients` | both clients | a behaviour is one of the build chosen in `ClientsInit` |
| `MasqueServer` | `MasqueServer`, its token | parts open and fields set, one action per part of `Start`; the token is computed by `Encode` and read by `Decode` |
| `TailcatServe` | the serve command and its clients | `parsePortSet`, `portRanges` and the handler table as operators; a connection with its client goroutines (`main`, `feed`), handler (`at`, `got`), way back (`down`) and target; `proc` is the server process |
| `MasqueServe` | the serving side | `MasqueServer` or `TailcatServe`, chosen in `SideInit` |
| `MasqueH2Stream` | flow control, capsules | units of a capsule in DATA frames, windows at both levels, the one-place channel `token`; `sread` is the sender's `readLoop`, which DATA of the other direction can hold up in its body pipe |
| `MasqueH2Server` | listeners, connections, `Close` | a location per listener, connection, handler and closer; `Waited` is the wait group |
| `MasqueH2Dial` | the client's dial | dialer, `readLoop` and watcher, two one-shot channels; the peer sends any frames in any order, DATA that nobody reads included |
| `MasqueH2Client` | a carrier from dial to last datagram | `MasqueH2Dial`, then `Use`, then `MasqueH2Stream` |
| `TailcatToken` | DERP tokens | pure operators `ConnBlob`, `ParseConnBlob`, `Expand`, `Resolve` |
| `Tailcat` | the meow handshake | `Server.Start` in the phases a packet can overtake, clients by `loc`, advertise goroutines in `due` and `out` |
| `DERPMapCache` | the map cache on disk | the two files, `fetchDERPMap` of each process step by step (`doing`); a process may be killed at every step, between a file's truncation and its contents too; the server answers with any of its maps (`Answer`) |
| `TailcatDERP` | the DERP transport | `Tailcat` or `DERPMapCache`, chosen in `DERPInit` |

`MC*.tla` and `MC*.cfg` are the instances for TLC, `*Proofs.tla` the proofs.

Data is abstracted to what the properties distinguish.  A proof is the token
that it opens to; a datagram is its source and destination; a payload is a
sequence of tagged bytes only in `MasqueFragment`, where its content matters; a
URL is absent, plain or pinned; a DERP map and its ETag are one number; a port is
one of five.
Requests that fail a syntactic check are one action per handler.

`MasqueClients`, `MasqueServe` and `TailcatDERP` put two components that share
no state side by side.  A behaviour is one of the component chosen at the start,
so their states add up instead of multiplying, and the properties of each are
those of its own module.  `MasqueH2Client` is a sequence: the stream begins where
a dial has succeeded.

## 3. Runs

| Run | Instance | Shows |
|---|---|---|
| `relay` | 2 keys, 3 handler runs, all carriers | `RegistrationExact`: a key is registered exactly while its handler holds it; `DeliveredToKeyHolder`: datagrams go to who proved the key; `NoDeliveryToSupersededH3`: a replaced HTTP/3 carrier gets nothing; `ImplementsRegistry`: refinement of `KeyRegistry` |
| `auth` | 2 handlers, 2 keys, 2 addresses, 3 tokens, limits of 2, clock to 2 | `WithinLimits`, `OneChallengePerRequest`; `SoundGrants`: a challenge is accepted once, and for the request it was issued to; `NoLiveEviction` |
| `path` | 3 carriers, 2 writers | `OneOwnedCarrier`: no carrier leaks and never two at once; `HealthyStays`: a late failure of the last carrier does not take the new one down; `CloseEndsRun`: all carriers are released and `run` ends, unless it is in a dial that never returns; `Recovers`: a broken one is replaced if the endpoint answers |
| `path_stops` | 3 carriers, 1 writer | a disagreement with the documentation, section 6 |
| `core` | 2 peers, 2 sessions, a queue of 1 | `ReturnPathsSound`, `ReservedByOne`; `Grandfathered`: an admitted peer stays; `CloseReleases`: nobody is left waiting for the queue of a closed bind |
| `fragment` | 7 packets of 1 to 3 chunks, 2 callers or the browser's one, clock to 2 | `WithinLimits`; `ReassemblesSent`: WireGuard gets what was sent; `NotPinned`: replays keep nothing alive |
| `client` | 2 operations, 2 closers, 2 generations, both builds | `NeitherLeaks`: what is open has one owner and is closed once; `LeaseOnOpenCore`; `CarrierOutlivesOperation`; `ClosesReturn`: also when a write of the browser never settles |
| `server` | 2 callers, 2 keys, all configurations; 2 clients, lists of up to 2 entries, 2 pieces of input, both command sets | `NothingLeaks` on any error path; `RunsAsConfigured`: the token means what this run serves and the policy is the one added up; `CloseReturns`; `ServedExactly`: filter, handler table and addresses agree with the list; `CloseConfirms`: success of a client means delivery, unless standard output failed; `PipeEnds` |
| `pipe_shared` | the same | a disagreement with the documentation, section 6 |
| `h2_client` | any frames of the peer, then capsules of 2 and 3 units, window 2, frames of 2, SETTINGS and a datagram the other way in mid-stream | `FailedDialClosed`: a failed dial leaves nothing open, and a request is only sent to a peer that allowed it; `CreditConserved`, `DatagramsIntact`; `CarrierProgress`: the dial ends with its context, no wake-up is lost and everything arrives |
| `h2_server` | 1 listener, 2 connections, 2 closers | `ClosedIsQuiet`: nothing slips past `Close`; `NoAddAfterWait`; `CloseReturns` |
| `tailcat` | 2 clients (embedded token; short token in a browser), 2 endpoint lists, 2 outside events; 2 processes and 2 maps | `Registered`: an acknowledged client is a peer everywhere; `NoLostAdvertisement`: every peer is sent, or will be sent, the current endpoints, once; `ComesUp`; `RevalidationSound`: "not modified" confirms only its own map, for processes that do not overlap, with the two cases of section 6 |

### Bounds

* Keys, sessions, carriers: two of a key's contenders and a third to follow
  them reach every race between a holder, a successor and a stale reference; a
  third carrier lets a late failure of the first meet the second.  `core` has two
  sessions beside the relay loop, which contends for the same return paths.  The
  theorems of section 5 remove these bounds from every safety property; the
  liveness properties have them.
* `MaxTime` 2 with `TTL` 1 or 2: a challenge or an assembly can be live, expire,
  and be seen by a caller whose clock reading is old.
* Limits of 1 or 2 are reached, and their refusal paths fire.  The source's
  limits are larger constants that enter only in comparisons.  In `auth` all three
  limits are 2, so the total is the one that binds; with a total of 3 and four
  tokens the run passes as well, in 3,609,511 states and a quarter of an hour, and
  theorem `Limits` covers all values.
* `MaxAttempt` 2: the counter of `reconnect` stays at its bound; the code only
  tells 0 from more, and a growing delay.
* Windows of 2 units: a capsule larger than the window, and a window made
  negative by SETTINGS, both happen.  `MaxWindow` stands for 2^31 - 1; the
  code keeps windows in `int64`, so nothing wraps.
* `MaxEvents` 2 in `Tailcat`: any two of loss, repetition, timeout, failed
  start, close, endpoint change, allowlist change, ageing cache.  `MaxPending` 1:
  one advertise goroutine of a node waits for `b.mu` at a time, while any number
  of its messages may still be unsent.
* `QueueSize` 1 stands for the 512 places of the bind's queue: it fills up.
* `MaxPort` 4 stands for 65535 and `SSHPort` 2 for 22: the last port, where
  `Last+1` wraps, port 0 and both ends of a range are all reached.  `MaxServed` 1:
  connections to a server with a list share nothing, so one client calls on it;
  two call on a one-shot server.
* `MaxVersion` 2 and two processes: the server goes from one map to another and
  back, in any order, or has one per mode.
* `auth` has one scope, so the scope half of `SoundGrants` is trivial in the run;
  the theorem `Grants` covers any set of scopes.
* `ReassemblesSent` is about packets whose source and identifier no other packet
  shares; a source that reuses an identifier can mix two packets of its own.
* Symmetry is used only in runs without liveness, on sets whose members the
  models treat alike.

### Fairness

Goroutines that can run do run: weak fairness of the steps of each goroutine.
Beyond that:

* `MasquePath`: strong fairness of `ReadFail`, because a broken carrier's read
  fails in the end (QUIC idle timeout, HTTP/2 PING) although single reads may
  still succeed.  A dial owes nothing: keep-alive is on and nothing bounds the
  wait for an answer to CONNECT, so an endpoint that is alive and silent holds it
  for ever, and `Close` does not interrupt it.  `CloseEndsRun` excepts this;
  `Recovers` assumes `EndpointReturns`, that an endpoint dialled again and again
  answers once.
* `MasqueClients`: strong fairness of taking `c.mu`; Go's mutex hands itself to a
  waiter that starves.  An operation owes its end only after cancellation.  A
  browser settles a write when its path is closed and owes nothing before.  A
  dial under `c.mu` owes nothing either: `ClosesReturn` is conditional on no dial
  hanging for ever (`[]<>~Dialing`).
* `MasqueServer`: strong fairness of taking `s.mu`, weak fairness of the steps of
  `Start` and `Close` except the dial of the relay, which uses a background
  context; `CloseReturns` excepts a relay that never answers.
* `TailcatServe`: the copy goroutines of both processes run and standard input
  ends.  A target, a network failure and a second client owe nothing.  The
  server's wait for the last acknowledgement is capped at 5 s, and a server of
  the DERP command ends without one when standard output fails; both outcomes
  are excepted in `PipeEnds`.
* `MasqueCore`: session handlers and the relay loop go on where they can;
  WireGuard's receiver owes nothing, which is what makes `CloseReleases` say
  something.
* `MasqueH2Server`: no fairness for connections or errors on an open listener.
  A handler at work returns to its body: the relay's forwards have a timer or end
  with their target.  A direct server's `Inject` has none; it waits for room in the
  bind's queue, which WireGuard's receiver empties while the core is up and
  which the core's `Close` ends (`CloseReleases`).
* `MasqueH2Client`: the goroutines of dial and stream run and the receiving
  application reads.  The outcomes "timer fired", "write deadline passed" and "the
  sender's application reads no more" are excepted explicitly.  The peer owes
  nothing: the dial is bound to return only once its context is done, since every
  frame of a live peer, a PING answer too, resets the PING timer.
* `Tailcat`: losses and failures are bounded by `MaxEvents` instead of a
  fairness assumption on the relay; the application keeps calling.  A map server
  may fail to answer for ever: the request then times out, and an old map, if
  there is one, must do.

Nobody owes a `Close`, a cancellation, a packet or a break.

Deadlock is checked in every run but the two of the serving side; specifications
that may stop have a `Finished` action saying when (for `Tailcat`, a client that
is up may always dial).  The processes of the serve command end, and a client
whose target never answers waits for ever, so `server` and `pipe_shared` do not
check it; that the pipe ends when it should is `PipeEnds`.

## 4. What the properties are after

The hazards in `PROJECT.json` are listed at the line where they bite.  The main
kinds, with the property that would notice:

* a value read under a lock and used after it: routes in the relay
  (`NoDeliveryToSupersededH3`), the core of a client (`LeaseOnOpenCore`), the
  carrier of a path (`HealthyStays`), the window of a stream (`CarrierProgress`);
* clocks read before locks: `WithinLimits`, `OneChallengePerRequest`, `NotPinned`;
* error paths that must undo what was done, and two parties who could both
  think that the other one does it: `RegistrationExact`, `NothingLeaks`,
  `NeitherLeaks`, `FailedDialClosed`, `OneOwnedCarrier`;
* an allowlist that changes between check and use: `Grandfathered`,
  `RunsAsConfigured`;
* loss and repetition: `ReassemblesSent`, `Registered`, `ComesUp`;
* a crash between two writes that belong together: `RevalidationSound`;
* a process that exits with its TCP stack inside it: `CloseConfirms`, `PipeEnds`;
* waiting for one another: `CloseReturns`, `ClosesReturn`, `CloseReleases`,
  `CarrierProgress`.

## 5. Proofs

TLAPS checks that every invariant and every action property of the passing runs
holds for every value of the constants.  The proofs are in the modules
`*Proofs.tla`, with one inductive invariant per component and one step per action.

### Assumptions

* `None`, `NoConn`, `NoDest` and `Nothing` differ from the identities, sets and
  messages they stand beside, and sets of actors that are used as indices of one
  function are disjoint.  Go's `nil` and zero values do.
* Limits, sizes, times and bounds are naturals; chunk sizes, lifetimes,
  `QueueSize`, `MaxAttempt` and `MaxVersion` are positive.  They are constants of
  the source or bounds of the model.
* `MasqueAuth`: the pool of tokens is finite.
* `TailcatServe` (`ServeAssumption`): the ends of a range and the ports of
  destinations are ports, which parsing on 16 bits ensures; `SSHPort` is not the
  last port; no destination a user names is the control address, which only
  answers pings.
* `Tailcat` (`TokensAssumption`): tokens come from `ConnBlob` for the server's
  region or name it by its number in the DERP map, and some node of the region
  relays.

### Arguments

**Relay** (`MasqueRelayProofs`).  `RegistrationExact` is not inductive: that
nobody else can hold the key at `Activate` depends on where each handler is.
`RelayInv` adds that a handler past `authorize` knows its key, that a handler
between reserve and unregister holds it (`HoldsKey`) and whoever is registered
still has its unregister ahead (`NoOrphanedKey`), that forwarders and routes
exist exactly at certain locations, and that an activated HTTP/3 carrier is
usable only while its handler holds its key (`OpenH3HoldsKey`), from which
`NoStaleH3` follows.  `Refinement` maps `owner` to `Lookup`: `Activate` is a claim,
`Unregister` a release, `Receive` a choice, `Forward` a hand-over, everything else
a stutter.

**HTTP/2 server** (`MasqueRelayProofs`).  `H2Inv` says who is counted by the
wait group (`Counted`), that a connection between `Accept` and its admission is in
the hands of one accept loop (`InHands`), that
after `Close` has begun every bound port is on a closer's list, not registered yet
or lost to a failed `Accept` (`Reached`), and that whoever has returned from `Close`
saw the wait group at zero, where it stays (`Begun`).  `Quiet`
and `NoLateAdd` follow for any number of listeners, connections and closers.

**Authenticator** (`MasqueAuthProofs`).  `AuthInv` adds a history of tokens: one
that is pending has granted nothing and is stored under the request it was issued
for.  The limits need finite-set reasoning (`AddWithin`): purge
and counts use the same, possibly old, clock reading, so what was counted is what
the purge leaves.

**Core** (`MasqueCoreProofs`).  `ReturnPathsSound` and `ReservedByOne` are
inductive together; `Grandfathered`, and `AdmissionSound` (a key becomes a
WireGuard peer only while the allowlist admits it), are action properties from
the same invariant.

**Fragments** (`MasqueCoreProofs`).  `FragmentInv` says of every assembly that
`received` counts its filled places and that a filled place holds the chunk some
sender cut for it (`Assembling`), that the limits hold of what is kept (`Limits`),
and that what a handler is pushing passed the checks of `Push` (`Pushing`).
`CountCovers` and `ChunkCut` say that the chunks of a packet cover it without
overlap, `JoinedIs` that the loop at the end of `Push` puts them together again.
`Memory`, `Reassembly` and `NoPin` follow for every packet, chunk size and limit.

**Clients** (`MasqueClientProofs`).  For the native client `ClientInv` ties each
location of a start and of `Close` to `c.mu` and says that an operation with a lease
works on the generation in the fields.  `Lease` needs that `Close` closes a core only
after it has waited, with `c.mu` held, for every lease; `CarrierKept`
follows from the same invariant.  For the browser's, which does not hold its mutex
through a close, `BrowserInv` says that each generation has one owner, the fields,
its receive loop, or one start or close, and that what is open is owned
(`SoleOwner`).  `NoLeak` is about both.

**Path** (`MasqueClientProofs`).  `PathInv` says who holds which carrier at each
location; its core is that while `run` is between two carriers none is installed
and all others are closed (`BetweenCarriers`).  `OneOwnedCarrier` and `HealthyStays`
follow.

**HTTP/2 carrier** (`MasqueH2Proofs`).  `DialInv` says that each one-shot channel
gets its value from whoever wins its `Once`, and how far the dialer is by what it
has received; `DialCloses` follows.  For the stream, `CreditInv` sums the credit
in the sender's window, in DATA frames, in the pipe, owed by the reader and in
WINDOW_UPDATEs: every step moves credit from one place to another.  The sums are
the loops of the model, and `TotalIsSum` and its companions say what appending and
removing an element does to them.  `IntactInv` orders the units in all these places
as they were sent (`InOrder`), and says that together they have all units of a
capsule or none (`Whole`), so that what `ReceiveDatagram` has read is the beginning
of one capsule (`Reading`).  `CreditKept` and `DatagramsWhole` follow for every
number and size of datagrams, and all windows and frame sizes.

**DERP transport** (`TailcatProofs`).  What `wireRegionOf` keeps and
`ParseConnBlob` restores is computed by loops; the lemmas say that a client finds
the server's region in what it is left with, and `TokenStable` that a token parsed
and encoded again is the same token.  `HandshakeInv` says that who is a
client is in the network map and known to magicsock unless it was early
(`Acquainted`), what a client's call has by the time it is where it is (`Calling`),
and that an endpoint list no attempt was made to send is due or on its way
(`Advertised`).  `Registration` and `Advertisements` follow.

**DERP map cache** (`TailcatProofs`).  `RevalidationSound` is not inductive, since
what a process is about to store it has read steps before.  `CacheInv` adds that
every ETag came from the server (`Seen`) and that, while no process was busy as
another stored, what one has read is still on disk and who writes is alone with
its map (`Undisturbed`).  From there two arguments cover the two cases.  If no
process ended between the two files, every ETag on disk or in hand is its map's but
for the moment between the writes (`Paired`), so the server's answers do not matter.
If some did, an older ETag may be left beside a newer map; it is then one that the
server has given up (`Behind`), so a server that never returns to a map does not
confirm it.

**Server** (`MasqueServerProofs`).  `RoundTrip` says that `Decode` reads back what
`Encode` wrote, for every configuration that encodes.  `ServerInv` says what each
step of `Start` finds open, which of it has a field (`Starting`), and what cleanup
or `Close` has still to take down (`Stopping`); `Settled` is the state between them.
`NoLeak` and `AsStarted` follow for any callers and keys.

**Serve command** (`MasqueServerProofs`).  `SortedIs`, `RangesCover` and
`FilterLetsThrough` say that sorting the ports, merging them into ranges with 16-bit
successors, and the filter lose no port and add none; `HandlerIs` and `RefusedIs`
say what the handler table does with them.  `ServeInv` adds, for each connection,
where its handler can be (`Placed`), that its handler is the one found for its
destination (`Dialled`), and what has happened by the time its client sees the end:
the handler of a pipe has closed both sides after writing all it read (`Piped`), a
target has closed and its reply was copied (`Proxied`).  A step of one connection
leaves those of the others sound (`Others`), which is where two connections to a
one-shot server would break it.  `Exactness` and `Confirmation` follow, and
`ServingSide` states all four properties of the composition that the run checks.

`SequenceLemmas` has what these share: induction up to a number from
well-foundedness of the naturals (`Upto`), the existence of the value of a loop
(`LoopExists`), and facts about appending, cutting and summing.  With these,
loops that the models write as recursive functions are proved about by induction.
The modules that theorems reach avoid `SequencesExt`, which brings in `Bags` and
makes every obligation an order of magnitude slower.

### Only model-checked

The liveness properties `CloseEndsRun`, `Recovers`, `CloseReleases`, `ClosesReturn`,
`CarrierProgress`, `CloseReturns` (server and HTTP/2 server), `PipeEnds` and
`ComesUp`: they rest on fairness, and fairness on `ENABLED`, which this prover does
not handle.

## 6. Disagreements and limits of the code met on the way

* **`path_stops`** (finding).  `docs/masquecat.md` calls the carrier "persistent
  rather than one-shot".  If a sender notices the failure first and retires the
  carrier while `run` is handling a packet, `packetConn` reports `net.ErrClosed`
  at the top of the loop and `run` ends without reconnecting.

* **`pipe_shared`** (finding).  The help of `--serve` says of a server without a
  list "it accepts a single connection on any port, writes it to stdout, and
  exits" (`cmd/tailcat/tailcat.go:89`).  The handler has no memory of an earlier
  connection: a second client that connects before the first has finished gets a
  handler too, and the pieces of both are mixed on standard output.
  `CloseConfirms` is therefore about servers that have had one connection.

Not stated as runs, but found and kept in view:

* A relay packet of a peer with a live direct session moves its return path to
  the relay (`masquecat.go:193`), while the comment at `masquecat_direct.go:79`
  speaks of a second *direct* session only.  `KeepsPath` allows exactly this.
* `Server.Start` of the DERP transport accepts meows before it installs its own
  map, which then overwrites them (`tailcat.go:1324`); an acknowledged client of
  that window is unknown to magicsock until another client arrives.  `Registered`
  excepts these clients through the history variable `early`.
* `Client.Ping` after the first success returns on the old acknowledgment
  (`tailcat.go:1787`): it measures nothing, and after a restart of the server
  nothing makes the client register again.
* `Resolve` cuts a region to two nodes before STUN-only nodes are dropped
  (`tailcat.go:798`).  A region that begins with two of them resolves to a token
  without a relay; `Registered` excepts it (`RelayNearby`).
* An advertise goroutine sends a peer the endpoints it has read once; a failed send
  is logged and one that the relay drops goes unnoticed (`tailcat.go:1244`).  Two
  goroutines may also overtake each other, and the older list arrive last.
  `NoLostAdvertisement` is therefore about attempts: no change goes without one.
* A write to standard output that fails by itself (a full disk, a closed pipe) does
  not reach the client of a one-shot server as an error.  The MASQUE command logs it
  and closes the connection as after a success (`cmd/tailcat/masquecat_cli.go:344`),
  so the client exits with success although data was lost; the DERP command exits at
  once (`cmd/tailcat/tailcat.go:1229`), or dies of the signal, without a FIN, so the
  client waits.  `CloseConfirms` excepts the first (`spoilt`), `PipeEnds` the second.
* Neither `masquePath` nor the HTTP/2 dial bounds the wait for the answer to
  CONNECT (`masquecat_transport.go:290`, `masquecat_h2_client.go:197`): a peer that
  answers PINGs, or keeps QUIC alive, and nothing else holds a dial until its
  context ends, and `Close` of a path does not end it.  DATA before the response
  blocks `readLoop` in a pipe nobody reads, PING timeouts included
  (`masquecat_h2_client.go:388`).
* When WireGuard refuses to remove a peer, as it does once it is closed, the return
  path is gone and the peer stays in the core's table (`masquecat_core.go:546`).
* A failed `Accept` leaves its listener open and unknown to `Close`
  (`masquecat_h2.go:384`); `ClosedIsQuiet` excepts it through `stray`.
* A datagram cut off by the write timer may be followed by the next capsule on
  the same stream (`masquecat_h2.go:951`), whose units the receiver then takes for
  the missing ones; `DatagramsIntact` excepts such streams (`fired`).
* A `readLoop` that blocks on its body pipe does not see the WINDOW_UPDATE its own
  writer waits for (`masquecat_h2_client.go:390`); with both ends in this position
  only the 30 s timer of the writers goes on.  `CarrierProgress` excepts a reader
  that stays there.
* `Ping` and `DialTCPPort` of the browser client read `c.core` after
  `ensureStarted` has unlocked (`masquecat_browser_js.go:923`); `Close`, or the end
  of the session, in between leaves them a nil core, and the program crashes.  The
  native client has leases against this.  `ClosesReturn` excepts it (`crashed`).
* A start of the browser client whose context ends while the session is being
  opened does not close the session (`masquecat_browser_js.go:710`); `OneOwner`
  does not count it (`stray`).
* Two processes that fetch the DERP map at once can pair the map of one with the
  ETag of the other (`cmd/tailcat/tailcat.go:738`), which later revalidations then
  confirm until the server publishes a new map; `RevalidationSound` excepts them
  (`mixed`).
* A process that ends between the two files leaves a map beside the ETag of the one
  before.  The cache knows maps by their URL, while the server is told the mode
  (`Tailcat-Mode`, `tailcat.go:980`) and may have a map for each, or go back to an
  earlier one: if it answers with the map of that ETag again, the wrong map is
  confirmed.  `RevalidationSound` excepts it (`torn` with `back`).

## 7. Not modelled

Inside libraries, and taken from how they are used: QUIC, HTTP/3, TLS,
wireguard-go, gVisor, magicsock, the DERP relay, the browser's WebTransport.

Left out, and why:

* The SSH server, SFTP and the drop box: sequential handlers over `os.Root` and an
  SSH library.  Their mode checks are guards at the top of a handler, which a
  property could only repeat.  Which connections get there is in `TailcatServe`.
* Flags, `genkey`, the SSH host key and the automatic certificate of a direct
  server: read or written once, at the start of a process.
* SOCKS mode and its address classes, `cp`, `ls`, `ssh`: parsing, and programs
  that are started.
* Region choice: one measurement by a library.  The relay command: flags and one
  call.  MTU and time constants, web demo, page and build tools: no state.
* In the core: the tunnel device, the gVisor stack and `Status`, which move or
  count bytes.  In the browser client also the packet codec and the callbacks of
  `awaitJSPromise`, of which only the outcome is modelled.
* A restart of the DERP server: `upDone` and `meowWait` of a client are never reset
  (`tailcat.go:1738`), so the code has no step for it that a model could show
  right; section 6 says what follows.
* The windows of both directions of an HTTP/2 carrier at once: of the other
  direction `MasqueH2Stream` has only that its DATA can hold up the sender's
  `readLoop`.  Beyond that they share the connection and its write lock; their
  product is beyond the time of a run.
