-------------------------- MODULE TokenCacheProofs --------------------------
(***************************************************************************)
(* Proofs about TokenCache, for any requests, principals, backends and     *)
(* lifetimes.                                                              *)
(*                                                                         *)
(* A request takes its token from one of the caches or from the server, so *)
(* what RightIdentity says of tokens in use has to be said of every entry  *)
(* under its own key (Good), and a reused backend keeps the freshness that *)
(* its lookup established with a reading of the clock that is never ahead  *)
(* of the clock (Reading).                                                 *)
(***************************************************************************)
EXTENDS TokenCache, TLAPS

\* A token for a principal and a backend, believed to die no later than it does.
Good(t, p, a) == t \in Token /\ t.who = p /\ t.aud = a /\ t.exp <= t.dies

Holding == {"keep", "dial", "reused"}

Entries ==
  /\ \A t \in RawTokens, a \in Audiences :
       cache[<<t, a>>] # None => Good(cache[<<t, a>>], Owner[t], a)
  /\ \A a \in Audiences, p \in Principals :
       dialed[a][p] # None => Good(dialed[a][p], p, a)

Reading(r) == now[r] <= clock

Request(r) ==
  /\ pc[r] # "start" => raw[r] \in RawTokens /\ aud[r] \in Audiences
  /\ pc[r] \in Holding => Good(tok[r], Owner[raw[r]], aud[r])
  /\ pc[r] \notin Holding => tok[r] = None
  /\ pc[r] = "keep" => tok[r].exp # ZeroTime /\ now[r] = ZeroTime
  /\ FromCache(r) => now[r] < tok[r].exp - Skew

IInv == TypeOK /\ Entries /\ \A r \in Requests : Reading(r) /\ Request(r)

-----------------------------------------------------------------------------

\* The invariant holds before the first request.
LEMMA InitInv == Init => IInv
  BY CacheConstants DEF Init, IInv, TypeOK, Entries, Reading, Request, FromCache, Holding, Keys, ZeroTime

\* A step of one request leaves the others' variables alone.
LEMMA OthersStay ==
  ASSUME IInv, NEW r \in Requests, TypeOK', Entries', clock' = clock,
         \A s \in Requests : s # r => /\ pc'[s] = pc[s] /\ raw'[s] = raw[s] /\ aud'[s] = aud[s]
                                      /\ now'[s] = now[s] /\ tok'[s] = tok[s],
         Reading(r)', Request(r)'
  PROVE  IInv'
  BY DEF IInv, Reading, Request, FromCache

\* The invariant gives the types of the variables.
LEMMA Typing ==
  ASSUME IInv, NEW r \in Requests
  PROVE  /\ clock \in Nat /\ now[r] \in Nat /\ Skew \in Nat
         /\ pc \in [Requests -> {"start", "lookup", "exchange", "find", "mint", "keep", "dial",
                                 "reused"}]
         /\ raw \in [Requests -> RawTokens \cup {None}]
         /\ aud \in [Requests -> Audiences \cup {None}]
         /\ now \in [Requests -> Nat]
         /\ tok \in [Requests -> Token \cup {None}]
         /\ \A p : p \in RawTokens => Owner[p] \in Principals
  BY CacheConstants DEF IInv, TypeOK

\* A request that starts keeps the invariant.
LEMMA GetStep ==
  ASSUME IInv, NEW r \in Requests, NEW ask \in Asks, Get(r, ask[1], ask[2])
  PROVE  IInv'
  <1>1. ask[1] \in RawTokens /\ ask[2] \in Audiences
    BY CacheConstants
  <1>2. TypeOK' /\ Entries'
    BY <1>1, Typing DEF Get, Goto, IInv, TypeOK, Entries
  <1>3. Reading(r)' /\ Request(r)'
    BY <1>1, Typing DEF Get, Goto, IInv, Reading, Request, FromCache, Holding
  <1>4. \A s \in Requests : s # r => /\ pc'[s] = pc[s] /\ raw'[s] = raw[s] /\ aud'[s] = aud[s]
                                     /\ now'[s] = now[s] /\ tok'[s] = tok[s]
    BY Typing DEF Get, Goto
  <1> QED  BY <1>2, <1>3, <1>4, OthersStay DEF Get

\* The lookup of a dialed backend keeps the invariant.
LEMMA LookupStep ==
  ASSUME IInv, NEW r \in Requests, Lookup(r)
  PROVE  IInv'
  <1> DEFINE e == dialed[aud[r]][Owner[raw[r]]]
  <1>1. /\ pc[r] = "lookup" /\ raw[r] \in RawTokens /\ aud[r] \in Audiences
        /\ UNCHANGED <<clock, cache, dialed, raw, aud>>
    BY DEF Lookup, IInv, Request
  <1>2. Entries'
    BY <1>1 DEF IInv, Entries
  <1>3. CASE Fresh(e, now[r])
    <2>1. /\ tok' = [tok EXCEPT ![r] = e] /\ pc' = [pc EXCEPT ![r] = "reused"] /\ now' = now
      BY <1>3 DEF Lookup, Goto
    <2>2. Good(e, Owner[raw[r]], aud[r]) /\ now[r] < e.exp - Skew
      BY <1>1, <1>3, Typing DEF Fresh, IInv, Entries
    <2> HIDE DEF e
    <2>3. TypeOK'
      BY <1>1, <2>1, <2>2 DEF IInv, TypeOK, Good
    <2>4. Reading(r)' /\ Request(r)'
      BY <1>1, <2>1, <2>2, Typing DEF IInv, Reading, Request, FromCache, Holding, Good
    <2>5. \A s \in Requests : s # r => /\ pc'[s] = pc[s] /\ raw'[s] = raw[s] /\ aud'[s] = aud[s]
                                       /\ now'[s] = now[s] /\ tok'[s] = tok[s]
      BY <1>1, <2>1, Typing
    <2> QED  BY <1>1, <1>2, <2>3, <2>4, <2>5, OthersStay
  <1>4. CASE ~Fresh(e, now[r])
    <2>1. /\ tok' = tok /\ pc' = [pc EXCEPT ![r] = "exchange"]
          /\ now' = [now EXCEPT ![r] = ZeroTime]
      BY <1>4 DEF Lookup, Goto, Forget
    <2>3. TypeOK'
      BY <1>1, <2>1 DEF IInv, TypeOK, ZeroTime
    <2>4. Reading(r)' /\ Request(r)'
      BY <1>1, <2>1, Typing DEF IInv, Reading, Request, FromCache, Holding, ZeroTime
    <2>5. \A s \in Requests : s # r => /\ pc'[s] = pc[s] /\ raw'[s] = raw[s] /\ aud'[s] = aud[s]
                                       /\ now'[s] = now[s] /\ tok'[s] = tok[s]
      BY <1>1, <2>1, Typing
    <2> QED  BY <1>1, <1>2, <2>3, <2>4, <2>5, OthersStay
  <1> QED  BY <1>3, <1>4

\* A request that is over has forgotten everything.
LEMMA LeaveStep ==
  ASSUME IInv, NEW r \in Requests, Leave(r), clock' = clock, cache' = cache,
         dialed' \in [Audiences -> [Principals -> {t \in Token : t.exp # ZeroTime} \cup {None}]],
         Entries'
  PROVE  IInv'
  <1>1. TypeOK'
    BY DEF Leave, Forget, Goto, IInv, TypeOK, ZeroTime
  <1>2. Reading(r)' /\ Request(r)'
    BY Typing DEF Leave, Forget, Goto, Reading, Request, FromCache, Holding, ZeroTime
  <1>3. \A s \in Requests : s # r => /\ pc'[s] = pc[s] /\ raw'[s] = raw[s] /\ aud'[s] = aud[s]
                                     /\ now'[s] = now[s] /\ tok'[s] = tok[s]
    BY Typing DEF Leave, Forget, Goto
  <1> QED  BY <1>1, <1>2, <1>3, OthersStay

\* A dial, with the store of its backend, keeps the invariant.
LEMMA DialStep ==
  ASSUME IInv, NEW r \in Requests, Dial(r)
  PROVE  IInv'
  <1>1. /\ pc[r] = "dial" /\ raw[r] \in RawTokens /\ aud[r] \in Audiences
        /\ Good(tok[r], Owner[raw[r]], aud[r]) /\ cache' = cache /\ clock' = clock
    BY DEF Dial, IInv, Request, Holding
  <1>2. CASE dialed' = dialed
    <2>1. Entries'
      BY <1>1, <1>2 DEF IInv, Entries
    <2> QED  BY <1>1, <1>2, <2>1, LeaveStep DEF Dial, IInv, TypeOK
  <1>3. CASE /\ tok[r].exp # ZeroTime
             /\ dialed' = [dialed EXCEPT ![aud[r]][Owner[raw[r]]] = tok[r]]
    <2>1. Owner[raw[r]] \in Principals
      BY <1>1, Typing
    <2>2. dialed' \in [Audiences -> [Principals -> {t \in Token : t.exp # ZeroTime} \cup {None}]]
      BY <1>1, <1>3, <2>1 DEF IInv, TypeOK, Good
    <2>3. \A a \in Audiences, p \in Principals :
            dialed'[a][p] = IF a = aud[r] /\ p = Owner[raw[r]] THEN tok[r] ELSE dialed[a][p]
      BY <1>1, <1>3, <2>1 DEF IInv, TypeOK
    <2>4. Entries'
      BY <1>1, <2>3 DEF IInv, Entries
    <2> QED  BY <1>1, <2>2, <2>4, LeaveStep DEF Dial
  <1> QED  BY <1>2, <1>3 DEF Dial

\* A request that ends keeps the invariant.
LEMMA DoneStep ==
  ASSUME IInv, NEW r \in Requests, Done(r)
  PROVE  IInv'
  <1>1. Entries'
    BY DEF Done, IInv, Entries
  <1> QED  BY <1>1, LeaveStep DEF Done, IInv, TypeOK

\* The exchange at the authorization server keeps the invariant.
LEMMA ExchangeStep ==
  ASSUME IInv, NEW r \in Requests, Exchange(r)
  PROVE  IInv'
  <1>1. TypeOK' /\ Entries'
    BY DEF Exchange, Goto, IInv, TypeOK, Entries
  <1>2. Reading(r)' /\ Request(r)'
    BY Typing DEF Exchange, Goto, IInv, Reading, Request, FromCache, Holding
  <1>3. \A s \in Requests : s # r => /\ pc'[s] = pc[s] /\ raw'[s] = raw[s] /\ aud'[s] = aud[s]
                                     /\ now'[s] = now[s] /\ tok'[s] = tok[s]
    BY Typing DEF Exchange, Goto
  <1> QED  BY <1>1, <1>2, <1>3, OthersStay DEF Exchange

\* The lookup of an exchanged token keeps the invariant.
LEMMA FindStep ==
  ASSUME IInv, NEW r \in Requests, Find(r)
  PROVE  IInv'
  <1> DEFINE e == cache[<<raw[r], aud[r]>>]
  <1>1. /\ pc[r] = "find" /\ raw[r] \in RawTokens /\ aud[r] \in Audiences
        /\ UNCHANGED <<clock, cache, dialed, raw, aud>>
    BY DEF Find, IInv, Request
  <1>2. Entries'
    BY <1>1 DEF IInv, Entries
  <1>3. CASE Fresh(e, now[r])
    <2>1. tok' = [tok EXCEPT ![r] = e] /\ pc' = [pc EXCEPT ![r] = "dial"] /\ now' = now
      BY <1>3 DEF Find, Goto, Key, cacheKey
    <2>2. Good(e, Owner[raw[r]], aud[r]) /\ now[r] < e.exp - Skew
      BY <1>1, <1>3 DEF Fresh, IInv, Entries
    <2> HIDE DEF e
    <2>3. TypeOK'
      BY <1>1, <2>1, <2>2 DEF IInv, TypeOK, Good, ZeroTime
    <2>4. Reading(r)' /\ Request(r)'
      BY <1>1, <2>1, <2>2, Typing DEF IInv, Reading, Request, FromCache, Holding, Good, ZeroTime
    <2>5. \A s \in Requests : s # r => /\ pc'[s] = pc[s] /\ raw'[s] = raw[s] /\ aud'[s] = aud[s]
                                       /\ now'[s] = now[s] /\ tok'[s] = tok[s]
      BY <1>1, <2>1, Typing
    <2> QED  BY <1>1, <1>2, <2>3, <2>4, <2>5, OthersStay
  <1>4. CASE ~Fresh(e, now[r])
    <2>1. tok' = tok /\ pc' = [pc EXCEPT ![r] = "mint"] /\ now' = now
      BY <1>4 DEF Find, Goto, Key, cacheKey
    <2>3. TypeOK'
      BY <1>1, <2>1 DEF IInv, TypeOK
    <2>4. Reading(r)' /\ Request(r)'
      BY <1>1, <2>1, Typing DEF IInv, Reading, Request, FromCache, Holding
    <2>5. \A s \in Requests : s # r => /\ pc'[s] = pc[s] /\ raw'[s] = raw[s] /\ aud'[s] = aud[s]
                                       /\ now'[s] = now[s] /\ tok'[s] = tok[s]
      BY <1>1, <2>1, Typing
    <2> QED  BY <1>1, <1>2, <2>3, <2>4, <2>5, OthersStay
  <1> QED  BY <1>3, <1>4

\* The recorded expiry starts from a reading taken before the token was minted.
LEMMA MintStep ==
  ASSUME IInv, NEW r \in Requests, NEW l \in Lifetimes, Mint(r, l)
  PROVE  IInv'
  <1> DEFINE t == Minted(r, l)
             label == IF l > 0 THEN "keep" ELSE "dial"
  <1>1. /\ pc[r] = "mint" /\ raw[r] \in RawTokens /\ aud[r] \in Audiences
        /\ UNCHANGED <<clock, cache, dialed, raw, aud>>
        /\ tok' = [tok EXCEPT ![r] = t] /\ pc' = [pc EXCEPT ![r] = label]
        /\ now' = [now EXCEPT ![r] = ZeroTime]
    BY DEF Mint, Goto, Forget, IInv, Request
  <1>2. l \in Nat /\ Owner[raw[r]] \in Principals /\ now[r] <= clock
    BY <1>1, CacheConstants, Typing DEF IInv, Reading
  <1>3. Good(t, Owner[raw[r]], aud[r]) /\ (l > 0 => t.exp # ZeroTime)
    BY <1>1, <1>2, Typing DEF Minted, Good, Token, ZeroTime
  <1> HIDE DEF t
  <1>4. TypeOK' /\ Entries'
    BY <1>1, <1>3 DEF IInv, TypeOK, Entries, Good, ZeroTime
  <1>5. Reading(r)' /\ Request(r)'
    BY <1>1, <1>3, Typing DEF Reading, Request, FromCache, Holding, ZeroTime
  <1>6. \A s \in Requests : s # r => /\ pc'[s] = pc[s] /\ raw'[s] = raw[s] /\ aud'[s] = aud[s]
                                     /\ now'[s] = now[s] /\ tok'[s] = tok[s]
    BY <1>1, Typing
  <1> QED  BY <1>1, <1>4, <1>5, <1>6, OthersStay

\* The store of an exchanged token keeps the invariant.
LEMMA KeepStep ==
  ASSUME IInv, NEW r \in Requests, Keep(r)
  PROVE  IInv'
  <1>1. /\ pc[r] = "keep" /\ raw[r] \in RawTokens /\ aud[r] \in Audiences
        /\ Good(tok[r], Owner[raw[r]], aud[r]) /\ tok[r].exp # ZeroTime
        /\ cache' = [cache EXCEPT ![<<raw[r], aud[r]>>] = tok[r]]
        /\ pc' = [pc EXCEPT ![r] = "dial"]
        /\ UNCHANGED <<clock, dialed, raw, aud, now, tok>>
    BY DEF Keep, Goto, Key, cacheKey, IInv, Request, Holding
  <1>2. \A t \in RawTokens, a \in Audiences :
          cache'[<<t, a>>] = IF t = raw[r] /\ a = aud[r] THEN tok[r] ELSE cache[<<t, a>>]
    BY <1>1 DEF IInv, TypeOK, Keys
  <1>3. TypeOK'
    BY <1>1 DEF IInv, TypeOK, Keys, Good
  <1>4. Entries'
    BY <1>1, <1>2 DEF IInv, Entries
  <1>5. Reading(r)' /\ Request(r)'
    BY <1>1, Typing DEF IInv, Reading, Request, FromCache, Holding
  <1>6. \A s \in Requests : s # r => /\ pc'[s] = pc[s] /\ raw'[s] = raw[s] /\ aud'[s] = aud[s]
                                     /\ now'[s] = now[s] /\ tok'[s] = tok[s]
    BY <1>1, Typing
  <1> QED  BY <1>1, <1>3, <1>4, <1>5, <1>6, OthersStay

\* Each step keeps the invariant.
LEMMA NextInv == IInv /\ [Next]_vars => IInv'
  <1> SUFFICES ASSUME IInv, [Next]_vars PROVE IInv'
    OBVIOUS
  <1>1. ASSUME NEW r \in Requests, RequestStep(r) PROVE IInv'
    <2>1. CASE \E ask \in Asks : Get(r, ask[1], ask[2])
      BY <2>1, GetStep
    <2>2. CASE \E l \in Lifetimes : Mint(r, l)
      BY <2>2, MintStep
    <2> QED  BY <1>1, <2>1, <2>2, LookupStep, ExchangeStep, FindStep, KeepStep, DialStep,
                DoneStep DEF RequestStep
  <1>2. CASE Tick
    <2>1. TypeOK' /\ Entries'
      BY <1>2 DEF Tick, IInv, TypeOK, Entries
    <2>2. \A r \in Requests : Reading(r)'
      BY <1>2, Typing DEF Tick, IInv, Reading
    <2>3. \A r \in Requests : Request(r)'
      BY <1>2 DEF Tick, IInv, Request, FromCache
    <2> QED  BY <2>1, <2>2, <2>3 DEF IInv
  <1>3. CASE UNCHANGED vars
    BY <1>3 DEF vars, IInv, TypeOK, Entries, Reading, Request, FromCache
  <1> QED  BY <1>1, <1>2, <1>3 DEF Next

\* The invariant holds throughout.
LEMMA Invariant == Spec => []IInv
  BY InitInv, NextInv, PTL DEF Spec

-----------------------------------------------------------------------------

\* Both caches, the clock readings and the tokens in use keep their types, and
\* nothing without a lifetime is cached (Exchange, perIdentityBackend.get).
THEOREM TypeCorrect == Spec => []TypeOK
  <1>1. IInv => TypeOK
    BY DEF IInv
  <1> QED  BY <1>1, Invariant, PTL

\* No interleaving of lookups, exchanges and dials gives a request a token of
\* another principal or for another backend (cacheKey, perIdentityBackend.get).
THEOREM IdentityKept == Spec => []RightIdentity
  <1>1. IInv => RightIdentity
    BY DEF IInv, Request, Holding, Good, RightIdentity
  <1> QED  BY <1>1, Invariant, PTL

\* No cache ever believes a token to live longer than it does (the reading of
\* the clock before the round trip in Exchange).
THEOREM ExpiryConservative == Spec => []Conservative
  <1>1. IInv => Conservative
    BY DEF IInv, Entries, Good, Conservative, Keys
  <1> QED  BY <1>1, Invariant, PTL

\* For every skew, a backend or a token taken from a cache and used within the skew of
\* the reading of the clock has a token that is still alive.
THEOREM ReuseIsAlive == Spec => []ReusedAlive
  <1>1. IInv => ReusedAlive
    <2> SUFFICES ASSUME IInv, NEW r \in Requests, FromCache(r), clock <= now[r] + Skew
                 PROVE  clock < tok[r].dies
      BY DEF ReusedAlive
    <2>1. Good(tok[r], Owner[raw[r]], aud[r]) /\ now[r] < tok[r].exp - Skew
      BY DEF IInv, Request, Holding, FromCache
    <2>2. tok[r].exp \in Nat /\ tok[r].dies \in Nat /\ tok[r].exp <= tok[r].dies
      BY <2>1 DEF Good, Token
    <2> QED  BY <2>1, <2>2, Typing
  <1> QED  BY <1>1, Invariant, PTL

=============================================================================
