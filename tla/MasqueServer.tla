---------------------------- MODULE MasqueServer ----------------------------
(***************************************************************************)
(* The life cycle of MasqueServer (masquecat.go): Start opens a core, a    *)
(* UDP socket, an HTTP/2 and an HTTP/3 server and a path to the relay, one *)
(* after the other, makes a connection token of its endpoints              *)
(* (masquecat_token.go), and takes down what it has when a step fails;     *)
(* Close takes them down; either may be followed by another Start, with    *)
(* another configuration.                                                  *)
(* AddAllowedClient may come at any time.  s.mu is held for the whole of   *)
(* Start and of Close.                                                     *)
(***************************************************************************)
EXTENDS Naturals, Sequences

CONSTANTS
  Callers,    \* goroutines that call Start and Close
  Keys,       \* client keys
  None

ASSUME MasqueServerAssumption ==
  None \notin Callers /\ \A S \in SUBSET Keys : None # S

VARIABLES
  conf,      \* the configuration of the last Start
  mu,        \* the holder of s.mu, or None
  step,      \* what the holder does next, or Idle
  open,      \* the parts that are open
  fields,    \* the parts that fields of the server refer to
  blob,      \* s.blob, the token, or NoBlob
  allowed,   \* s.AllowedClients
  policy,    \* allowedClients of the core: a set, or None for no list
  closing    \* the goroutines that have called Close, which has not returned

vars == <<conf, mu, step, open, fields, blob, allowed, policy, closing>>

Carriers == {"udp", "h2", "h3", "relay"}
Parts == Carriers \cup {"core"}

\* The steps of Start, and the one of cleanup or Close that takes part p down.
Up(x) == <<"start", x>>
Stop(p) == <<"stop", p>>
Idle == <<"idle", "none">>

-----------------------------------------------------------------------------
(***************************************************************************)
(* Configurations and tokens.  A URL is abstracted to what the checks tell *)
(* apart: not set; a plain https URL; one with a certificate pin for its   *)
(* fragment; one with another fragment; one too long for a token; one that *)
(* is not https, has no host, or has a user or a query.                    *)
(***************************************************************************)
URLs == {"unset", "plain", "pinned", "badpin", "long", "improper"}

\* ready: DirectListen and a certificate for it are set.
Configs == [direct : URLs, relay : URLs, automatic : BOOLEAN, ready : BOOLEAN]

\* validateMasqueURL: only a direct URL may have a fragment, and then a pin.
validateMasqueURL(kind, url) ==
  url \in {"plain", "long"} \/ (kind = "direct" /\ url = "pinned")

\* The checks that a configuration and a token have in common.
Endpoints(c) ==
  /\ c.direct # "unset" \/ c.relay # "unset"
  /\ c.automatic => c.direct # "unset" /\ c.relay = "unset"
  /\ c.direct # "unset" => validateMasqueURL("direct", c.direct)
  /\ c.relay # "unset" => validateMasqueURL("relay", c.relay)

\* The checks of Start, made before anything is opened.
StartChecks(c) == Endpoints(c) /\ (c.direct # "unset" => c.ready)

\* masqueTLSCertPinFromURL finds a pin.
HasPin(url) == url = "pinned"

\* MasqueConnInfo.validate.
validate(ci) == Endpoints(ci) /\ (ci.automatic => HasPin(ci.direct))

\* The token: prefix, and the fields that are not empty.
NoBlob == [prefix |-> "none", fields |-> {}]
Encode(ci) ==
  [prefix |-> "mc",
   fields |-> {<<"p", u>> : u \in {ci.direct} \ {"unset"}}
         \cup {<<"r", u>> : u \in {ci.relay} \ {"unset"}}
         \cup {<<"a", b>> : b \in {ci.automatic} \ {FALSE}}]

\* ConnBlob succeeds: the token is valid and not over the length limit.
Encodes(ci) == validate(ci) /\ "long" \notin {ci.direct, ci.relay}

\* ParseMasqueConnBlob: a missing field has its zero value.
Field(b, name, zero) ==
  IF \E f \in b.fields : f[1] = name
  THEN (CHOOSE f \in b.fields : f[1] = name)[2] ELSE zero
Decode(b) == [direct |-> Field(b, "p", "unset"), relay |-> Field(b, "r", "unset"),
              automatic |-> Field(b, "a", FALSE)]
Parses(b) == b.prefix = "mc" /\ validate(Decode(b))

-----------------------------------------------------------------------------
TypeOK ==
  /\ conf \in Configs
  /\ mu \in Callers \cup {None}
  /\ step \in {Idle} \cup {Up(x) : x \in Parts \cup {"addr", "blob"}} \cup {Stop(p) : p \in Parts}
  /\ (step = Idle) = (mu = None)
  /\ open \in SUBSET Parts /\ fields \in SUBSET Parts
  /\ blob = NoBlob \/ Parses(blob)
  /\ allowed \in SUBSET Keys /\ policy \in (SUBSET Keys) \cup {None}
  /\ closing \in SUBSET Callers

Init ==
  /\ conf = [direct |-> "unset", relay |-> "unset", automatic |-> FALSE, ready |-> FALSE]
  /\ mu = None /\ step = Idle /\ open = {} /\ fields = {} /\ blob = NoBlob
  /\ allowed \in SUBSET Keys /\ policy = None /\ closing = {}

-----------------------------------------------------------------------------
\* Start, for the first time or after Close; a second call is refused, and so
\* is a configuration that fails the checks, which touches nothing.
StartBegin(a) ==
  /\ mu = None /\ a \notin closing /\ "core" \notin fields
  /\ \E c \in Configs :
       /\ conf' = c
       /\ \/ StartChecks(c) /\ mu' = a /\ step' = Up("core")
          \/ ~StartChecks(c) /\ UNCHANGED <<mu, step>>
  /\ UNCHANGED <<open, fields, blob, allowed, policy, closing>>

\* Mutant: the core starts without the keys added so far.
NewCoreForgets ==
  /\ step = Up("core")
  /\ open' = open \cup {"core"} /\ fields' = fields \cup {"core"}
  /\ policy' = None
  /\ step' = Up(IF conf.direct # "unset" THEN "udp" ELSE "relay")
  /\ UNCHANGED <<conf, mu, blob, allowed, closing>>

\* newMasqueCore: an empty list is no list.
NewCore ==
  /\ step = Up("core")
  /\ open' = open \cup {"core"} /\ fields' = fields \cup {"core"}
  /\ policy' = IF allowed = {} THEN None ELSE allowed
  /\ step' = Up(IF conf.direct # "unset" THEN "udp" ELSE "relay")
  /\ UNCHANGED <<conf, mu, blob, allowed, closing>>

NewCoreFail ==
  /\ step = Up("core") /\ step' = Idle /\ mu' = None
  /\ UNCHANGED <<conf, open, fields, blob, allowed, policy, closing>>

\* net.ListenPacket; the socket is no field of the server yet.
ListenUDP ==
  /\ step = Up("udp") /\ open' = open \cup {"udp"} /\ step' = Up("addr")
  /\ UNCHANGED <<conf, mu, fields, blob, allowed, policy, closing>>

\* Mutant: the socket is left to cleanup, which does not know it.
CompanionAddrLeaks ==
  /\ step = Up("addr")
  /\ step' \in {Up("h2"), Stop("h3")}
  /\ UNCHANGED <<conf, mu, open, fields, blob, allowed, policy, closing>>

\* Mutant: Start tries again, on another socket, with s.mu held.
CompanionAddrRetries ==
  /\ step = Up("addr")
  /\ \/ step' = Up("h2") /\ UNCHANGED open
     \/ step' = Up("udp") /\ open' = open \ {"udp"}
  /\ UNCHANGED <<conf, mu, fields, blob, allowed, policy, closing>>

\* masqueHTTP2CompanionAddr; when it fails the socket is closed on the spot.
CompanionAddr ==
  /\ step = Up("addr")
  /\ \/ step' = Up("h2") /\ UNCHANGED open
     \/ step' = Stop("h3") /\ open' = open \ {"udp"}
  /\ UNCHANGED <<conf, mu, fields, blob, allowed, policy, closing>>

\* startMasqueHTTP2; without it there is only HTTP/3.
StartH2 ==
  /\ step = Up("h2") /\ step' = Up("h3")
  /\ \/ open' = open \cup {"h2"} /\ fields' = fields \cup {"h2"}
     \/ UNCHANGED <<open, fields>>
  /\ UNCHANGED <<conf, mu, blob, allowed, policy, closing>>

\* The HTTP/3 server is put on the socket.
ServeH3 ==
  /\ step = Up("h3") /\ step' = Up(IF conf.relay # "unset" THEN "relay" ELSE "blob")
  /\ open' = open \cup {"h3"} /\ fields' = fields \cup {"h3", "udp"}
  /\ UNCHANGED <<conf, mu, blob, allowed, policy, closing>>

\* newMasquePathWithFallback to the relay, and its receive loop.
DialRelay ==
  /\ step = Up("relay") /\ step' = Up("blob")
  /\ open' = open \cup {"relay"} /\ fields' = fields \cup {"relay"}
  /\ UNCHANGED <<conf, mu, blob, allowed, policy, closing>>

\* net.ListenPacket, the relay or ConnBlob fails.
StartFail ==
  /\ step \in {Up("udp"), Up("relay"), Up("blob")}
  /\ step = Up("blob") => ~Encodes(conf)
  /\ step' = Stop("h3")
  /\ UNCHANGED <<conf, mu, open, fields, blob, allowed, policy, closing>>

MakeBlob ==
  /\ step = Up("blob") /\ Encodes(conf)
  /\ step' = Idle /\ mu' = None /\ blob' = Encode(conf)
  /\ UNCHANGED <<conf, open, fields, allowed, policy, closing>>

-----------------------------------------------------------------------------
\* Close is called, and waits for s.mu.
CloseCall(a) ==
  /\ mu # a /\ a \notin closing /\ closing' = closing \cup {a}
  /\ UNCHANGED <<conf, mu, step, open, fields, blob, allowed, policy>>

\* Close has s.mu.
CloseBegin(a) ==
  /\ a \in closing /\ mu = None /\ mu' = a /\ step' = Stop("h3")
  /\ UNCHANGED <<conf, open, fields, blob, allowed, policy, closing>>

\* What follows part p when cleanup or Close takes the parts down.
After(p) ==
  CASE p = "h3" -> Stop("h2")
    [] p = "h2" -> Stop("udp")
    [] p = "udp" -> Stop("relay")
    [] p = "relay" -> Stop("core")
    [] p = "core" -> Idle

\* Mutant: the blob of the old run stays.
StopPartKeepsBlob(p) ==
  /\ step = Stop(p) /\ step' = After(p)
  /\ open' = open \ (fields \cap {p}) /\ fields' = fields \ {p}
  /\ policy' = IF p = "core" THEN None ELSE policy
  /\ mu' = IF p = "core" THEN None ELSE mu
  /\ closing' = IF p = "core" THEN closing \ {mu} ELSE closing
  /\ UNCHANGED <<conf, allowed, blob>>

\* cleanup and Close: each part a field refers to is closed and forgotten.
StopPart(p) ==
  /\ step = Stop(p) /\ step' = After(p)
  /\ open' = open \ (fields \cap {p}) /\ fields' = fields \ {p}
  /\ policy' = IF p = "core" THEN None ELSE policy
  /\ mu' = IF p = "core" THEN None ELSE mu
  /\ closing' = IF p = "core" THEN closing \ {mu} ELSE closing
  /\ blob' = IF p = "core" THEN NoBlob ELSE blob
  /\ UNCHANGED <<conf, allowed>>

\* AddAllowedClient: for later starts, and for the core that runs.
AddAllowedClient(k) ==
  /\ mu = None /\ allowed' = allowed \cup {k}
  /\ policy' = IF "core" \notin fields THEN policy
               ELSE IF policy = None THEN {k} ELSE policy \cup {k}
  /\ UNCHANGED <<conf, mu, step, open, fields, blob, closing>>

Start ==
  \/ NewCore \/ NewCoreFail \/ ListenUDP \/ CompanionAddr \/ StartH2 \/ ServeH3 \/ DialRelay
  \/ StartFail \/ MakeBlob

Next ==
  \/ \E a \in Callers : StartBegin(a) \/ CloseCall(a) \/ CloseBegin(a)
  \/ Start
  \/ \E p \in Parts : StopPart(p)
  \/ \E k \in Keys : AddAllowedClient(k)

Spec == Init /\ [][Next]_vars

\* What is done with s.mu held goes on to its end, and sync.Mutex does not
\* starve the caller that waits for it.  Nothing bounds the dial of the relay:
\* its context ends only in cleanup and in Close, which need s.mu.
Fairness ==
  /\ WF_vars(Start /\ step # Up("relay")) /\ WF_vars(\E p \in Parts : StopPart(p))
  /\ \A a \in Callers : SF_vars(CloseBegin(a))

LiveSpec == Spec /\ Fairness
-----------------------------------------------------------------------------
\* Nothing leaks: while s.mu is free, a part is open exactly when a field
\* refers to it, so that Close can reach it, and a Start that failed has left
\* none behind; and the core is the first part up and the last one down,
\* whichever step of Start fails, so nothing that lets packets in is open
\* without a core behind it.
NothingLeaks ==
  /\ TypeOK
  /\ mu = None => open = fields /\ ("core" \notin fields => fields = {})
  /\ open \cap Carriers # {} => "core" \in open

\* A connection token is handed out exactly while the server runs, a client
\* can parse it, and the endpoints in it are the ones this very run serves.
BlobMeansReachable ==
  mu = None =>
    /\ blob # NoBlob <=> "core" \in fields
    /\ blob # NoBlob =>
         /\ Parses(blob)
         /\ Decode(blob).direct = conf.direct /\ Decode(blob).relay = conf.relay
         /\ Decode(blob).automatic = conf.automatic
         /\ Decode(blob).direct # "unset" <=> "h3" \in fields
         /\ Decode(blob).relay # "unset" <=> "relay" \in fields

\* The server runs as it is configured, across failures and restarts: its
\* token is as above and, as AddAllowedClient has it ("adds k to the admission
\* policy used by both future starts and the currently running MASQUE core"),
\* the core that runs admits exactly the keys added so far.
RunsAsConfigured ==
  /\ BlobMeansReachable
  /\ mu = None /\ "core" \in fields => policy = IF allowed = {} THEN None ELSE allowed

\* Close returns, whatever Start it waits for and whichever step of that Start
\* fails, unless the relay leaves a dial without an answer for ever.
CloseReturns ==
  []<>(step # Up("relay")) => \A a \in Callers : (a \in closing) ~> (a \notin closing)
=============================================================================
