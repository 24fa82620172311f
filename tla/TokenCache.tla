----------------------------- MODULE TokenCache -----------------------------
(***************************************************************************)
(* The two caches between a request and its per-identity backend: the      *)
(* exchanger's cache of backend tokens (internal/tokenexchange) and the    *)
(* cache of dialed backends per principal (perIdentityBackend.get without  *)
(* a pool, cmd/mailboxd/peridentity.go).                                   *)
(*                                                                         *)
(* Both look up and store under a mutex and do the slow work between the   *)
(* two outside it; both read the clock before the lookup and work with     *)
(* that value to the end.  The authorization server mints a token that     *)
(* lives from the instant of minting, which the exchanger never learns: it *)
(* adds expires_in to its own, earlier, reading.                           *)
(*                                                                         *)
(* Wrong... definitions are mistaken variants, see ConnPool.               *)
(***************************************************************************)
EXTENDS Integers

CONSTANTS
  Requests,    \* goroutines serving requests
  Principals,  \* authenticated principals
  RawTokens,   \* the bearer tokens that clients present
  Owner,       \* Owner[raw]: the principal a bearer token authenticates
  Audiences,   \* one per backend; each has its own perIdentityBackend
  Cached,      \* the audiences whose backends are cached (noCache is false)
  Asks,        \* the pairs of bearer token and backend that requests come with
  None,        \* no value
  Skew,        \* the skew of both caches
  Lifetimes,   \* expires_in of minted tokens; 0: not advertised
  MaxTime      \* bound on the clock

ASSUME CacheConstants ==
  /\ Owner \in [RawTokens -> Principals]
  /\ Cached \subseteq Audiences
  /\ Asks \subseteq RawTokens \X Audiences
  /\ None \notin RawTokens \cup Audiences
  /\ Skew \in Nat
  /\ Lifetimes \subseteq Nat
  /\ MaxTime \in Nat

\* The zero time.Time: no expiry is known.  The clock starts above it.
ZeroTime == 0

VARIABLES
  clock,  \* wall clock
  cache,  \* cachingExchanger.cache, by key
  dialed, \* perIdentityBackend.cache, by audience and principal
  pc,     \* where each request is
  raw,    \* the bearer token it presents
  aud,    \* the backend it needs
  now,    \* the clock reading get, then Exchange, works with
  tok     \* the token it has obtained, or the token of its backend

vars == <<clock, cache, dialed, pc, raw, aud, now, tok>>

\* A backend token: whom and what it is for, when it really expires, and when
\* the exchanger believes it does.
Token == [who : Principals, aud : Audiences, dies : Nat, exp : Nat]

Keys == RawTokens \X Audiences

\* SHA-256 of the bearer token and the audience, taken to be injective.
WrongCacheKey(t, a) == <<t, CHOOSE b \in Audiences : TRUE>>

cacheKey(t, a) == <<t, a>>

\* Both caches use an entry while it is not within the skew of its expiry.
WrongFresh(e, t) == e # None /\ t < e.exp

Fresh(e, t) == e # None /\ t < e.exp - Skew

Init ==
  /\ clock = 1
  /\ cache = [k \in Keys |-> None]
  /\ dialed = [a \in Audiences |-> [p \in Principals |-> None]]
  /\ pc = [r \in Requests |-> "start"]
  /\ raw = [r \in Requests |-> None]
  /\ aud = [r \in Requests |-> None]
  /\ now = [r \in Requests |-> ZeroTime]
  /\ tok = [r \in Requests |-> None]

Goto(r, label) == pc' = [pc EXCEPT ![r] = label]

\* The clock reading is not used any more.
Forget(r) == now' = [now EXCEPT ![r] = ZeroTime]

Key(r) == cacheKey(raw[r], aud[r])

-----------------------------------------------------------------------------
(* perIdentityBackend.get                                                  *)

\* An authenticated request asks its provider for a backend; now is read.
Get(r, t, a) ==
  /\ pc[r] = "start"
  /\ raw' = [raw EXCEPT ![r] = t]
  /\ aud' = [aud EXCEPT ![r] = a]
  /\ now' = [now EXCEPT ![r] = clock]
  /\ Goto(r, IF a \in Cached THEN "lookup" ELSE "exchange")
  /\ UNCHANGED <<clock, cache, dialed, tok>>

\* The lookup under the lock, by principal.
Lookup(r) ==
  LET e == dialed[aud[r]][Owner[raw[r]]]
  IN /\ pc[r] = "lookup"
     /\ IF Fresh(e, now[r])
        THEN tok' = [tok EXCEPT ![r] = e] /\ Goto(r, "reused") /\ UNCHANGED now
        ELSE UNCHANGED tok /\ Goto(r, "exchange") /\ Forget(r)
     /\ UNCHANGED <<clock, cache, dialed, raw, aud>>

\* The request is over: its provider has an answer.
Leave(r) ==
  /\ raw' = [raw EXCEPT ![r] = None]
  /\ aud' = [aud EXCEPT ![r] = None]
  /\ Forget(r)
  /\ tok' = [tok EXCEPT ![r] = None]
  /\ Goto(r, "start")

\* The dial succeeds, and the backend is stored under the lock unless its token's
\* lifetime is unknown.  The last of several requests that missed together wins.
Dial(r) ==
  /\ pc[r] = "dial"
  /\ dialed' = IF aud[r] \in Cached /\ tok[r].exp # ZeroTime
               THEN [dialed EXCEPT ![aud[r]][Owner[raw[r]]] = tok[r]] ELSE dialed
  /\ Leave(r)
  /\ UNCHANGED <<clock, cache>>

\* The exchange or the dial fails, or the request has used its cached backend.
Done(r) ==
  /\ pc[r] \in {"reused", "mint", "dial"}
  /\ Leave(r)
  /\ UNCHANGED <<clock, cache, dialed>>

-----------------------------------------------------------------------------
(* cachingExchanger.Exchange                                               *)

\* Its own reading of the clock.
Exchange(r) ==
  /\ pc[r] = "exchange"
  /\ now' = [now EXCEPT ![r] = clock]
  /\ Goto(r, "find")
  /\ UNCHANGED <<clock, cache, dialed, raw, aud, tok>>

Find(r) ==
  /\ pc[r] = "find"
  /\ IF Fresh(cache[Key(r)], now[r])
     THEN tok' = [tok EXCEPT ![r] = cache[Key(r)]] /\ Goto(r, "dial")
     ELSE UNCHANGED tok /\ Goto(r, "mint")
  /\ UNCHANGED <<clock, cache, dialed, raw, aud, now>>

\* The token the server mints now for a request, and its expiry as recorded.
\* (The mistaken variant reads the clock when the answer has arrived.)
WrongMinted(r, l) ==
  [who |-> Owner[raw[r]], aud |-> aud[r], dies |-> clock + l,
   exp |-> IF l > 0 THEN clock + l + 1 ELSE ZeroTime]

Minted(r, l) ==
  [who |-> Owner[raw[r]], aud |-> aud[r], dies |-> clock + l,
   exp |-> IF l > 0 THEN now[r] + l ELSE ZeroTime]

\* The server answers; a token without a lifetime is not cached.
Mint(r, l) ==
  /\ pc[r] = "mint"
  /\ tok' = [tok EXCEPT ![r] = Minted(r, l)]
  /\ Goto(r, IF l > 0 THEN "keep" ELSE "dial")
  /\ Forget(r)
  /\ UNCHANGED <<clock, cache, dialed, raw, aud>>

Keep(r) ==
  /\ pc[r] = "keep"
  /\ cache' = [cache EXCEPT ![Key(r)] = tok[r]]
  /\ Goto(r, "dial")
  /\ UNCHANGED <<clock, dialed, raw, aud, now, tok>>

-----------------------------------------------------------------------------

Tick ==
  /\ clock < MaxTime
  /\ clock' = clock + 1
  /\ UNCHANGED <<cache, dialed, pc, raw, aud, now, tok>>

RequestStep(r) ==
  \/ \E ask \in Asks : Get(r, ask[1], ask[2])
  \/ Lookup(r)
  \/ Exchange(r)
  \/ Find(r)
  \/ \E l \in Lifetimes : Mint(r, l)
  \/ Keep(r)
  \/ Dial(r)
  \/ Done(r)

Next ==
  \/ \E r \in Requests : RequestStep(r)
  \/ Tick

Spec == Init /\ [][Next]_vars

-----------------------------------------------------------------------------
(* Properties.                                                             *)

\* Every variable keeps its type: in particular nothing without a lifetime is
\* in a cache.
TypeOK ==
  /\ clock \in Nat
  /\ cache \in [Keys -> {t \in Token : t.exp # ZeroTime} \cup {None}]
  /\ dialed \in [Audiences -> [Principals -> {t \in Token : t.exp # ZeroTime} \cup {None}]]
  /\ pc \in [Requests -> {"start", "lookup", "exchange", "find", "mint", "keep", "dial",
                          "reused"}]
  /\ raw \in [Requests -> RawTokens \cup {None}]
  /\ aud \in [Requests -> Audiences \cup {None}]
  /\ now \in [Requests -> Nat]
  /\ tok \in [Requests -> Token \cup {None}]

\* Neither cache mixes up principals or audiences, however requests interleave:
\* the backend that serves a request is dialed with a token exchanged for its
\* own principal and for the backend it asked for.
RightIdentity ==
  \A r \in Requests : tok[r] # None => tok[r].who = Owner[raw[r]] /\ tok[r].aud = aud[r]

\* The recorded expiry is never later than the real one, although the server
\* mints at an instant the exchanger does not see.
Conservative ==
  /\ \A k \in Keys : cache[k] # None => cache[k].exp <= cache[k].dies
  /\ \A a \in Audiences, p \in Principals :
       dialed[a][p] # None => dialed[a][p].exp <= dialed[a][p].dies

\* A backend reused from perIdentityBackend's cache, or being dialed with a token
\* from the exchanger's.  (The reading of the clock is kept for a found token only.)
FromCache(r) == pc[r] = "reused" \/ (pc[r] = "dial" /\ now[r] # ZeroTime)

\* Within the skew of the instant the clock was read for a lookup, what the lookup
\* found works: the token is one that the server still accepts, whether it is
\* that of a cached backend (perIdentityBackend.get) or one that a new backend is
\* dialed with (cachingExchanger.Exchange).
ReusedAlive ==
  \A r \in Requests :
    FromCache(r) /\ clock <= now[r] + Skew => clock < tok[r].dies

=============================================================================
