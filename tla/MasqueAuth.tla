----------------------------- MODULE MasqueAuth -----------------------------
(***************************************************************************)
(* The node-key authenticator (masquecat_auth.go): challenges with a       *)
(* lifetime, reused for identical requests, bounded in number, consumed by *)
(* the first proof that names them.                                        *)
(*                                                                         *)
(* A handler h runs authorize for one request after another; the hello and *)
(* the proof of a browser session count as two requests, of which the      *)
(* second never goes on from verify to issue.  issue and verify read the   *)
(* clock before they take a.mu, so each is two steps: the clock may        *)
(* advance and other handlers may run in between.  Keys are the non-zero   *)
(* ones: authorize answers 401 to a zero key before it does anything else. *)
(***************************************************************************)
EXTENDS Integers, FiniteSets

CONSTANTS
  Handlers,      \* concurrent requests
  Keys,          \* node keys, the challenge's src
  Scopes,        \* what else a challenge is bound to: target and mode
  Addrs,         \* clientID: the remote address
  Tokens,        \* nonces; a finite pool bounds the number of challenges
  None,
  TTL,           \* masqueChallengeTTL
  MaxPending,    \* masqueMaxPendingChallenges
  MaxPerSource,  \* masqueMaxPendingPerSource
  MaxPerAddr,    \* masqueMaxPendingPerRemoteAddr
  MaxTime        \* bound on the clock

ASSUME LimitAssumption ==
  /\ TTL \in Nat \ {0} /\ MaxTime \in Nat
  /\ MaxPending \in Nat /\ MaxPerSource \in Nat /\ MaxPerAddr \in Nat

ASSUME TokenAssumption ==
  None \notin Tokens /\ None \notin Keys /\ IsFiniteSet(Tokens)

VARIABLES
  now,      \* the clock
  pending,  \* masqueAuthenticator.pending: token |-> challenge, or NoChallenge
  pc,       \* where a handler is
  req,      \* its request
  at,       \* the time it read before locking
  answer,   \* the last request was granted, hit a limit (429), or neither
  issued,   \* history: the request each token was issued for, or NoId
  grants    \* history: how many requests each token authorized

vars == <<now, pending, pc, req, at, answer, issued, grants>>

Ids == [src : Keys, scope : Scopes, addr : Addrs]
Challenges == [id : Ids, expires : Int]
NoId == [src |-> None, scope |-> None, addr |-> None]
NoChallenge == [id |-> NoId, expires |-> -1]
\* A request: who asks, and the token its proof opens to, if any.
Requests == [id : Ids, token : Tokens \cup {None}]
NoRequest == [id |-> NoId, token |-> None]
Answers == {"none", "granted", "limit"}

TypeOK ==
  /\ now \in 0..MaxTime
  /\ pending \in [Tokens -> Challenges \cup {NoChallenge}]
  /\ pc \in [Handlers -> {"idle", "verify", "issue"}]
  /\ req \in [Handlers -> Requests \cup {NoRequest}]
  /\ at \in [Handlers -> 0..MaxTime]
  /\ answer \in [Handlers -> Answers]
  /\ issued \in [Tokens -> Ids \cup {NoId}]
  /\ grants \in [Tokens -> Nat]

Init ==
  /\ now = 0
  /\ pending = [t \in Tokens |-> NoChallenge]
  /\ pc = [h \in Handlers |-> "idle"]
  /\ req = [h \in Handlers |-> NoRequest]
  /\ at = [h \in Handlers |-> 0]
  /\ answer = [h \in Handlers |-> "none"]
  /\ issued = [t \in Tokens |-> NoId]
  /\ grants = [t \in Tokens |-> 0]

Tick ==
  /\ now < MaxTime
  /\ now' = now + 1
  /\ UNCHANGED <<pending, pc, req, at, answer, issued, grants>>

-----------------------------------------------------------------------------
Held == {t \in Tokens : pending[t] # NoChallenge}

\* What the scan in issue keeps and what it deletes (!expires.After(now)).
Live(time) == {t \in Held : pending[t].expires > time}
Expired(time) == Held \ Live(time)

\* Mutant: identical requests are not recognised.
IdenticalNever(h) == {}

\* A live challenge for an identical request.
Identical(h) == {t \in Live(at[h]) : pending[t].id = req[h].id}

FromSource(k) == {t \in Held : pending[t].id.src = k}
FromAddr(a) == {t \in Held : pending[t].id.addr = a}

\* Mutant: the total is not checked.
AtLimitNoTotal(h) ==
  \/ Cardinality(Live(at[h]) \cap FromSource(req[h].id.src)) >= MaxPerSource
  \/ Cardinality(Live(at[h]) \cap FromAddr(req[h].id.addr)) >= MaxPerAddr

\* One of the three limits is reached by challenges that are live.
AtLimit(h) ==
  LET live == Live(at[h]) IN
    \/ Cardinality(live \cap FromSource(req[h].id.src)) >= MaxPerSource
    \/ Cardinality(live \cap FromAddr(req[h].id.addr)) >= MaxPerAddr
    \/ Cardinality(live) >= MaxPending

Without(S) == [t \in Tokens |-> IF t \in S THEN NoChallenge ELSE pending[t]]

\* A request is answered and its handler is free for another.
Done(h, a) ==
  /\ answer' = [answer EXCEPT ![h] = a]
  /\ pc' = [pc EXCEPT ![h] = "idle"]
  /\ req' = [req EXCEPT ![h] = NoRequest]
  /\ at' = [at EXCEPT ![h] = 0]

\* A request arrives.  Its proof, if it opens with the source's key, names a
\* token that was issued at some time: just now, earlier, or to someone else.
Begin(h, id, t) ==
  /\ pc[h] = "idle"
  /\ t # None => issued[t] # NoId
  /\ pc' = [pc EXCEPT ![h] = IF t = None THEN "issue" ELSE "verify"]
  /\ req' = [req EXCEPT ![h] = [id |-> id, token |-> t]]
  /\ at' = [at EXCEPT ![h] = now]
  /\ answer' = [answer EXCEPT ![h] = "none"]
  /\ UNCHANGED <<now, pending, issued, grants>>

\* Mutant: verify leaves the challenge in place.
ConsumedNever(h) == {}

\* verify deletes the token a proof names, whether or not it accepts the proof.
Consumed(h) == {req[h].token}

\* Mutant: the challenge's source is not compared with the request's.
ProofOKAnySource(h) ==
  LET c == pending[req[h].token] IN
    c # NoChallenge /\ c.expires > at[h] /\ c.id.scope = req[h].id.scope

\* What verify accepts.
ProofOK(h) ==
  LET c == pending[req[h].token] IN
    /\ c # NoChallenge /\ c.expires > at[h]
    /\ c.id.src = req[h].id.src /\ c.id.scope = req[h].id.scope

VerifyAccept(h) ==
  /\ pc[h] = "verify" /\ ProofOK(h)
  /\ pending' = Without(Consumed(h))
  /\ grants' = [grants EXCEPT ![req[h].token] = @ + 1]
  /\ Done(h, "granted")
  /\ UNCHANGED <<now, issued>>

\* A proof that fails: authorize goes on to issue a challenge.
VerifyReject(h) ==
  /\ pc[h] = "verify" /\ ~ProofOK(h)
  /\ pending' = Without(Consumed(h))
  /\ pc' = [pc EXCEPT ![h] = "issue"]
  /\ at' = [at EXCEPT ![h] = now]
  /\ UNCHANGED <<now, answer, req, issued, grants>>

\* The same in a browser session ends the session.
VerifyRejectBrowser(h) ==
  /\ pc[h] = "verify" /\ ~ProofOK(h)
  /\ pending' = Without(Consumed(h))
  /\ Done(h, "none")
  /\ UNCHANGED <<now, issued, grants>>

\* issue finds a live challenge for an identical request and returns it.  The
\* scan, in map order, has deleted some of the expired ones by then.
IssueReuse(h) ==
  /\ pc[h] = "issue" /\ Identical(h) # {}
  /\ \E purged \in SUBSET Expired(at[h]) : pending' = Without(purged)
  /\ Done(h, "none")
  /\ UNCHANGED <<now, issued, grants>>

\* issue stores a fresh challenge.  Tokens are 256-bit random: never repeated.
IssueFresh(h) ==
  /\ pc[h] = "issue" /\ Identical(h) = {} /\ ~AtLimit(h)
  /\ \E t \in {u \in Tokens : issued[u] = NoId} :
       /\ pending' = [Without(Expired(at[h])) EXCEPT
                        ![t] = [id |-> req[h].id, expires |-> at[h] + TTL]]
       /\ issued' = [issued EXCEPT ![t] = req[h].id]
  /\ Done(h, "none")
  /\ UNCHANGED <<now, grants>>

\* Mutant: room is made by evicting a live challenge.
IssueEvicts(h) ==
  /\ pc[h] = "issue" /\ Identical(h) = {} /\ AtLimit(h)
  /\ \E t \in Live(at[h]) : pending' = Without(Expired(at[h]) \cup {t})
  /\ Done(h, "none")
  /\ UNCHANGED <<now, issued, grants>>

\* 429: a live challenge is never evicted for an unauthenticated request.
IssueRefuse(h) ==
  /\ pc[h] = "issue" /\ Identical(h) = {} /\ AtLimit(h)
  /\ pending' = Without(Expired(at[h]))
  /\ Done(h, "limit")
  /\ UNCHANGED <<now, issued, grants>>

\* No randomness to be had: 500.
IssueError(h) ==
  /\ pc[h] = "issue" /\ Identical(h) = {} /\ ~AtLimit(h)
  /\ pending' = Without(Expired(at[h]))
  /\ Done(h, "none")
  /\ UNCHANGED <<now, issued, grants>>

Issue(h) == IssueReuse(h) \/ IssueFresh(h) \/ IssueRefuse(h) \/ IssueError(h)

Next ==
  \/ Tick
  \/ \E h \in Handlers :
       \/ \E id \in Ids, t \in Tokens \cup {None} : Begin(h, id, t)
       \/ VerifyAccept(h) \/ VerifyReject(h) \/ VerifyRejectBrowser(h) \/ Issue(h)

Spec == Init /\ [][Next]_vars

-----------------------------------------------------------------------------
\* The pending map never outgrows its three limits, although issue may stop its
\* purge half way and may act on a clock reading that is no longer current.
WithinLimits ==
  /\ Cardinality(Held) <= MaxPending
  /\ \A k \in Keys : Cardinality(FromSource(k)) <= MaxPerSource
  /\ \A a \in Addrs : Cardinality(FromAddr(a)) <= MaxPerAddr

\* Retries of one request share one challenge: the map never holds two for the
\* same source, scope and address, not even an expired one beside a live one.
OneChallengePerRequest ==
  \A t, u \in Held : pending[t].id = pending[u].id => t = u

\* A challenge authorizes at most one request ("one-time").
GrantedOnce ==
  \A t \in Tokens : grants[t] <= 1

\* A grant is for the source and scope its token was issued for, however the
\* token travelled.
GrantSound ==
  [][\A h \in Handlers : answer'[h] = "granted" /\ answer[h] # "granted" =>
       /\ issued[req[h].token].src = req[h].id.src
       /\ issued[req[h].token].scope = req[h].id.scope]_vars

\* Both: a challenge authorizes one request at most, and only one of the source
\* and scope it was issued for.
SoundGrants == []GrantedOnce /\ GrantSound

\* A live challenge leaves the map only because a proof named it.
NoLiveEviction ==
  [][\A t \in Held : pending'[t] = NoChallenge =>
       \/ pending[t].expires <= now
       \/ \E h \in Handlers : pc[h] = "verify" /\ pc'[h] # "verify" /\ req[h].token = t]_vars
=============================================================================
