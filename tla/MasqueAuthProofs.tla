-------------------------- MODULE MasqueAuthProofs --------------------------
(***************************************************************************)
(* Theorems about MasqueAuth for every set of handlers, keys, scopes and   *)
(* addresses, every finite pool of tokens and every choice of the limits.  *)
(***************************************************************************)
EXTENDS MasqueAuth, FiniteSetTheorems, TLAPS

\* What the history says of a token: one that was never issued is not pending
\* and granted nothing; one that is pending granted nothing yet and is stored
\* under the request it was issued for.
TokenHistory ==
  \A t \in Tokens :
    /\ issued[t] = NoId => pending[t] = NoChallenge /\ grants[t] = 0
    /\ pending[t] # NoChallenge =>
         pending[t] \in Challenges /\ grants[t] = 0 /\ issued[t] = pending[t].id

\* A handler past Begin has a request, and the time it read is not ahead.
RequestKnown ==
  \A h \in Handlers :
    /\ at[h] <= now
    /\ pc[h] # "idle" => req[h] \in Requests
    /\ pc[h] = "verify" => req[h].token \in Tokens

\* What holds of the data that a.mu protects.
PendingInv == TokenHistory /\ GrantedOnce /\ OneChallengePerRequest /\ WithinLimits

\* The inductive invariant.
AuthInv == TypeOK /\ RequestKnown /\ PendingInv

\* Subsets of the pending map are finite and no larger than it.
LEMMA HeldFinite ==
  ASSUME NEW S \in SUBSET Tokens, NEW R \in SUBSET S
  PROVE  /\ IsFiniteSet(S) /\ IsFiniteSet(R)
         /\ Cardinality(S) \in Nat /\ Cardinality(R) \in Nat
         /\ Cardinality(R) <= Cardinality(S)
<1>1. IsFiniteSet(S)
  BY TokenAssumption, FS_Subset
<1> QED
  BY <1>1, FS_Subset, FS_CardinalityType

\* The empty map satisfies the invariant.
LEMMA InitAuth == Init => AuthInv
<1> SUFFICES ASSUME Init PROVE AuthInv
  OBVIOUS
<1>1. TypeOK
  BY LimitAssumption DEF Init, TypeOK, Answers
<1>2. RequestKnown
  BY LimitAssumption DEF Init, RequestKnown
<1>3. TokenHistory /\ GrantedOnce /\ OneChallengePerRequest
  BY DEF Init, TokenHistory, GrantedOnce, OneChallengePerRequest, Held
<1>4. Held = {} /\ (\A k \in Keys : FromSource(k) = {}) /\ (\A a \in Addrs : FromAddr(a) = {})
  BY DEF Init, Held, FromSource, FromAddr
<1>5. WithinLimits
  BY <1>4, FS_EmptySet, LimitAssumption DEF WithinLimits
<1> QED
  BY <1>1, <1>2, <1>3, <1>5 DEF AuthInv, PendingInv

\* Deleting challenges, as verify and the scan in issue do, keeps PendingInv.
LEMMA PurgeKeeps ==
  ASSUME PendingInv, TypeOK, NEW S, pending' = Without(S), UNCHANGED <<issued, grants>>
  PROVE  PendingInv'
<1>1. TokenHistory' /\ GrantedOnce' /\ OneChallengePerRequest'
  BY DEF PendingInv, TokenHistory, GrantedOnce, OneChallengePerRequest, Held, Without, TypeOK
<1>2. Held' \in SUBSET Held /\ Held \in SUBSET Tokens
  BY DEF Held, Without
<1>3. Cardinality(Held') <= MaxPending
  BY <1>2, HeldFinite, LimitAssumption DEF PendingInv, WithinLimits
<1>4. ASSUME NEW k \in Keys PROVE Cardinality(FromSource(k)') <= MaxPerSource
  <2>1. FromSource(k)' \in SUBSET FromSource(k) /\ FromSource(k) \in SUBSET Tokens
    BY <1>2 DEF FromSource, Held, Without
  <2> QED
    BY <2>1, HeldFinite, LimitAssumption DEF PendingInv, WithinLimits
<1>5. ASSUME NEW a \in Addrs PROVE Cardinality(FromAddr(a)') <= MaxPerAddr
  <2>1. FromAddr(a)' \in SUBSET FromAddr(a) /\ FromAddr(a) \in SUBSET Tokens
    BY <1>2 DEF FromAddr, Held, Without
  <2> QED
    BY <2>1, HeldFinite, LimitAssumption DEF PendingInv, WithinLimits
<1> QED
  BY <1>1, <1>3, <1>4, <1>5 DEF PendingInv, WithinLimits

\* Adding one element to a set of tokens that is below a limit stays within it.
LEMMA AddWithin ==
  ASSUME NEW S \in SUBSET Tokens, NEW t \in Tokens, NEW n \in Nat, ~(Cardinality(S) >= n)
  PROVE  Cardinality(S \cup {t}) <= n
<1>1. IsFiniteSet(S) /\ Cardinality(S) \in Nat
  BY HeldFinite
<1>2. Cardinality(S \cup {t}) \in {Cardinality(S), Cardinality(S) + 1}
  BY <1>1, FS_AddElement
<1> QED
  BY <1>1, <1>2

\* Storing a fresh challenge below the limits keeps PendingInv.
LEMMA FreshKeeps ==
  ASSUME AuthInv, NEW h \in Handlers, IssueFresh(h)
  PROVE  PendingInv'
<1> USE DEF AuthInv
<1>1. PICK t \in Tokens :
        /\ issued[t] = NoId
        /\ pending' = [Without(Expired(at[h])) EXCEPT
                         ![t] = [id |-> req[h].id, expires |-> at[h] + TTL]]
        /\ issued' = [issued EXCEPT ![t] = req[h].id]
  BY Zenon DEF IssueFresh
<1> DEFINE c == [id |-> req[h].id, expires |-> at[h] + TTL]
           live == Live(at[h])
<1>2. /\ req[h].id \in Ids /\ c \in Challenges /\ c # NoChallenge
      /\ pending[t] = NoChallenge /\ grants[t] = 0 /\ grants' = grants
      /\ NoId \notin Ids
  BY <1>1, TokenAssumption, LimitAssumption
  DEF IssueFresh, RequestKnown, Requests, TypeOK, Ids, Challenges, NoChallenge, NoId,
      PendingInv, TokenHistory
<1>3. /\ live \in SUBSET Held /\ Held \in SUBSET Tokens /\ t \notin Held
      /\ \A u \in Tokens : pending'[u] = IF u = t THEN c
                                         ELSE IF u \in live THEN pending[u] ELSE NoChallenge
  BY <1>1, <1>2 DEF Live, Held, Expired, Without
<1> HIDE DEF c, live
<1>4. Held' = live \cup {t}
  BY <1>2, <1>3 DEF Held
<1>5. TokenHistory'
  BY <1>1, <1>2, <1>3 DEF PendingInv, TokenHistory, Held, TypeOK, c
<1>6. GrantedOnce'
  BY <1>2 DEF PendingInv, GrantedOnce
<1>7. OneChallengePerRequest'
  <2>1. \A u \in live : pending[u].id # req[h].id
    BY DEF IssueFresh, Identical, live
  <2> QED
    BY <1>2, <1>3, <1>4, <2>1 DEF PendingInv, OneChallengePerRequest, c
<1>8. Cardinality(Held') <= MaxPending
  BY <1>3, <1>4, AddWithin, LimitAssumption DEF IssueFresh, AtLimit, live
<1>9. ASSUME NEW k \in Keys PROVE Cardinality(FromSource(k)') <= MaxPerSource
  <2>1. CASE k = req[h].id.src
    <3>1. /\ FromSource(k)' = (live \cap FromSource(k)) \cup {t}
          /\ live \cap FromSource(k) \in SUBSET Tokens
      BY <1>2, <1>3, <1>4, <2>1 DEF FromSource, c
    <3> QED
      BY <2>1, <3>1, AddWithin, LimitAssumption DEF IssueFresh, AtLimit, live
  <2>2. CASE k # req[h].id.src
    <3>1. FromSource(k)' \in SUBSET FromSource(k) /\ FromSource(k) \in SUBSET Tokens
      BY <1>2, <1>3, <1>4, <2>2 DEF FromSource, c
    <3> QED
      BY <3>1, HeldFinite, LimitAssumption DEF PendingInv, WithinLimits
  <2> QED
    BY <2>1, <2>2
<1>10. ASSUME NEW a \in Addrs PROVE Cardinality(FromAddr(a)') <= MaxPerAddr
  <2>1. CASE a = req[h].id.addr
    <3>1. /\ FromAddr(a)' = (live \cap FromAddr(a)) \cup {t}
          /\ live \cap FromAddr(a) \in SUBSET Tokens
      BY <1>2, <1>3, <1>4, <2>1 DEF FromAddr, c
    <3> QED
      BY <2>1, <3>1, AddWithin, LimitAssumption DEF IssueFresh, AtLimit, live
  <2>2. CASE a # req[h].id.addr
    <3>1. FromAddr(a)' \in SUBSET FromAddr(a) /\ FromAddr(a) \in SUBSET Tokens
      BY <1>2, <1>3, <1>4, <2>2 DEF FromAddr, c
    <3> QED
      BY <3>1, HeldFinite, LimitAssumption DEF PendingInv, WithinLimits
  <2> QED
    BY <2>1, <2>2
<1> QED
  BY <1>5, <1>6, <1>7, <1>8, <1>9, <1>10 DEF PendingInv, WithinLimits

\* A proof that verify accepts keeps PendingInv: the token it names is deleted
\* in the same critical section, so this was its first grant.
LEMMA AcceptKeeps ==
  ASSUME AuthInv, NEW h \in Handlers, VerifyAccept(h)
  PROVE  PendingInv'
<1> DEFINE t == req[h].token
<1>1. /\ t \in Tokens /\ pending[t] # NoChallenge
      /\ pending' = Without({t}) /\ grants' = [grants EXCEPT ![t] = @ + 1] /\ issued' = issued
  BY DEF AuthInv, RequestKnown, VerifyAccept, ProofOK, Consumed
<1> HIDE DEF t
<1>2. grants[t] = 0 /\ issued[t] # NoId
  BY <1>1 DEF AuthInv, PendingInv, TokenHistory
<1>3. TokenHistory' /\ GrantedOnce' /\ OneChallengePerRequest'
  BY <1>1, <1>2 DEF AuthInv, PendingInv, TokenHistory, GrantedOnce, OneChallengePerRequest,
     Held, Without, TypeOK
<1>4. WithinLimits'
  <2>1. Held' \in SUBSET Held /\ Held \in SUBSET Tokens
    BY <1>1 DEF Held, Without
  <2>2. Cardinality(Held') <= MaxPending
    BY <2>1, HeldFinite, LimitAssumption DEF AuthInv, PendingInv, WithinLimits
  <2>3. ASSUME NEW k \in Keys PROVE Cardinality(FromSource(k)') <= MaxPerSource
    <3>1. FromSource(k)' \in SUBSET FromSource(k) /\ FromSource(k) \in SUBSET Tokens
      BY <1>1 DEF FromSource, Held, Without
    <3> QED
      BY <3>1, HeldFinite, LimitAssumption DEF AuthInv, PendingInv, WithinLimits
  <2>4. ASSUME NEW a \in Addrs PROVE Cardinality(FromAddr(a)') <= MaxPerAddr
    <3>1. FromAddr(a)' \in SUBSET FromAddr(a) /\ FromAddr(a) \in SUBSET Tokens
      BY <1>1 DEF FromAddr, Held, Without
    <3> QED
      BY <3>1, HeldFinite, LimitAssumption DEF AuthInv, PendingInv, WithinLimits
  <2> QED
    BY <2>2, <2>3, <2>4 DEF WithinLimits
<1> QED
  BY <1>3, <1>4 DEF PendingInv

\* Steps that leave the map and its history alone keep PendingInv.
LEMMA QuietKeeps ==
  ASSUME PendingInv, UNCHANGED <<pending, issued, grants>>
  PROVE  PendingInv'
  BY DEF PendingInv, TokenHistory, GrantedOnce, OneChallengePerRequest, WithinLimits, Held,
     FromSource, FromAddr

\* The invariant is inductive: no step of any handler, with any delay between
\* its clock reading and its critical section, breaks it.
LEMMA NextAuth == AuthInv /\ [Next]_vars => AuthInv'
<1> SUFFICES ASSUME AuthInv, [Next]_vars PROVE AuthInv'
  OBVIOUS
<1> USE LimitAssumption, TokenAssumption
<1>1. CASE Tick
  BY <1>1, QuietKeeps DEF Tick, AuthInv, TypeOK, RequestKnown
<1>2. ASSUME NEW h \in Handlers, NEW id \in Ids, NEW t \in Tokens \cup {None}, Begin(h, id, t)
      PROVE  AuthInv'
  BY <1>2, QuietKeeps DEF Begin, AuthInv, TypeOK, RequestKnown, Requests, Answers
<1>3. ASSUME NEW h \in Handlers, VerifyAccept(h) PROVE AuthInv'
  <2>1. TypeOK'
    BY <1>3 DEF VerifyAccept, Done, AuthInv, TypeOK, RequestKnown, Answers, Without
  <2>2. RequestKnown'
    BY <1>3 DEF VerifyAccept, Done, AuthInv, TypeOK, RequestKnown
  <2> QED
    BY <1>3, <2>1, <2>2, AcceptKeeps DEF AuthInv
<1>4. ASSUME NEW h \in Handlers, VerifyReject(h) PROVE AuthInv'
  <2>1. TypeOK' /\ RequestKnown'
    BY <1>4 DEF VerifyReject, AuthInv, TypeOK, RequestKnown, Without
  <2> QED
    BY <1>4, <2>1, PurgeKeeps DEF VerifyReject, AuthInv
<1>5. ASSUME NEW h \in Handlers, NEW S, NEW a \in Answers, pending' = Without(S), Done(h, a),
             UNCHANGED <<now, issued, grants>>
      PROVE  AuthInv'
  <2>1. TypeOK' /\ RequestKnown'
    BY <1>5 DEF Done, AuthInv, TypeOK, RequestKnown, Without
  <2> QED
    BY <1>5, <2>1, PurgeKeeps DEF AuthInv
<1>6. ASSUME NEW h \in Handlers, VerifyRejectBrowser(h) PROVE AuthInv'
  BY <1>5, <1>6 DEF VerifyRejectBrowser, Answers
<1>7. ASSUME NEW h \in Handlers, IssueReuse(h) PROVE AuthInv'
  BY <1>5, <1>7 DEF IssueReuse, Answers
<1>8. ASSUME NEW h \in Handlers, IssueFresh(h) PROVE AuthInv'
  <2>1. TypeOK' /\ RequestKnown'
    BY <1>8 DEF IssueFresh, Done, AuthInv, TypeOK, RequestKnown, Requests, Answers, Without,
       Challenges
  <2> QED
    BY <1>8, <2>1, FreshKeeps DEF AuthInv
<1>9. ASSUME NEW h \in Handlers, IssueRefuse(h) \/ IssueError(h) PROVE AuthInv'
  BY <1>5, <1>9 DEF IssueRefuse, IssueError, Answers
<1>10. CASE UNCHANGED vars
  BY <1>10, QuietKeeps DEF vars, AuthInv, TypeOK, RequestKnown
<1> QED
  BY <1>1, <1>2, <1>3, <1>4, <1>6, <1>7, <1>8, <1>9, <1>10 DEF Next, Issue

\* In every reachable state the invariant holds.
THEOREM AuthInvariance == Spec => []AuthInv
  BY InitAuth, NextAuth, PTL DEF Spec

\* The types hold in every reachable state.
THEOREM AuthTypes == Spec => []TypeOK
<1>1. AuthInv => TypeOK
  BY DEF AuthInv
<1> QED
  BY <1>1, AuthInvariance, PTL

\* The pending map of challenges never outgrows its three limits.
THEOREM Limits == Spec => []WithinLimits
<1>1. AuthInv => WithinLimits
  BY DEF AuthInv, PendingInv
<1> QED
  BY <1>1, AuthInvariance, PTL

\* Identical requests never hold two challenges.
THEOREM OnePerRequest == Spec => []OneChallengePerRequest
<1>1. AuthInv => OneChallengePerRequest
  BY DEF AuthInv, PendingInv
<1> QED
  BY <1>1, AuthInvariance, PTL

\* A challenge authorizes at most one request.
THEOREM OneTime == Spec => []GrantedOnce
<1>1. AuthInv => GrantedOnce
  BY DEF AuthInv, PendingInv
<1> QED
  BY <1>1, AuthInvariance, PTL

\* authorize lets a request pass only for the source and scope its token was
\* issued for.
THEOREM GrantsSound == Spec => GrantSound
<1>1. AuthInv /\ [Next]_vars =>
        [\A h \in Handlers : answer'[h] = "granted" /\ answer[h] # "granted" =>
           /\ issued[req[h].token].src = req[h].id.src
           /\ issued[req[h].token].scope = req[h].id.scope]_vars
  <2> SUFFICES ASSUME AuthInv, Next, NEW h \in Handlers,
                      answer'[h] = "granted", answer[h] # "granted"
               PROVE  /\ issued[req[h].token].src = req[h].id.src
                      /\ issued[req[h].token].scope = req[h].id.scope
    BY ZenonT(40)
  <2>1. VerifyAccept(h)
    BY ZenonT(40) DEF AuthInv, TypeOK, Next, Tick, Begin, VerifyAccept, VerifyReject, VerifyRejectBrowser,
       Issue, IssueReuse, IssueFresh, IssueRefuse, IssueError, Done
  <2> QED
    BY <2>1 DEF VerifyAccept, ProofOK, AuthInv, RequestKnown, PendingInv, TokenHistory
<1> QED
  BY <1>1, AuthInvariance, PTL DEF Spec, GrantSound

\* A challenge authorizes one request at most, and only one of the source and
\* scope it was issued for.
THEOREM Grants == Spec => SoundGrants
  BY OneTime, GrantsSound, PTL DEF SoundGrants

\* issue never evicts a live challenge: one leaves the map only when it has
\* expired or when verify consumed it.
THEOREM NoEviction == Spec => NoLiveEviction
<1>1. AuthInv /\ [Next]_vars =>
        [\A t \in Held : pending'[t] = NoChallenge =>
           \/ pending[t].expires <= now
           \/ \E h \in Handlers : pc[h] = "verify" /\ pc'[h] # "verify" /\ req[h].token = t]_vars
  <2> SUFFICES ASSUME AuthInv, Next, NEW t \in Held, pending'[t] = NoChallenge
               PROVE  \/ pending[t].expires <= now
                      \/ \E h \in Handlers : pc[h] = "verify" /\ pc'[h] # "verify" /\ req[h].token = t
    OBVIOUS
  <2>1. t \in Tokens /\ pending[t] # NoChallenge /\ pending[t] \in Challenges /\ now \in Nat
    BY LimitAssumption DEF Held, AuthInv, PendingInv, TokenHistory, TypeOK
  <2>2. CASE Tick \/ \E h \in Handlers, id \in Ids, u \in Tokens \cup {None} : Begin(h, id, u)
    BY <2>1, <2>2 DEF Tick, Begin
  <2>3. ASSUME NEW h \in Handlers,
               VerifyAccept(h) \/ VerifyReject(h) \/ VerifyRejectBrowser(h)
        PROVE  pc[h] = "verify" /\ pc'[h] # "verify" /\ req[h].token = t
    BY <2>1, <2>3 DEF VerifyAccept, VerifyReject, VerifyRejectBrowser, Done, Without, Consumed,
       AuthInv, TypeOK
  <2>4. ASSUME NEW h \in Handlers, Issue(h) PROVE pending[t].expires <= now
    <3>1. t \in Expired(at[h])
      BY <2>1, <2>4, Zenon DEF Issue, IssueReuse, IssueFresh, IssueRefuse, IssueError, Without,
         AuthInv, TypeOK, PendingInv, TokenHistory, NoChallenge, NoId, Expired
    <3>2. at[h] \in Nat /\ at[h] <= now /\ pending[t].expires \in Int
      BY <2>1, LimitAssumption DEF AuthInv, RequestKnown, TypeOK, Challenges
    <3> QED
      BY <3>1, <3>2, <2>1 DEF Expired, Live
  <2> QED
    BY <2>2, <2>3, <2>4 DEF Next
<1> QED
  BY <1>1, AuthInvariance, PTL DEF Spec, NoLiveEviction
=============================================================================
