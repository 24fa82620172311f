----------------------------- MODULE DeadTokens -----------------------------
(***************************************************************************)
(* What revocation promises the auth middleware: every revocation ever     *)
(* received counts, none is forgotten and nothing else kills a token.  A   *)
(* request is admitted exactly when no revocation received so far covers   *)
(* its token.                                                              *)
(***************************************************************************)
EXTENDS Integers

CONSTANTS
  Requests,  \* goroutines serving requests
  Tokens,    \* access tokens: [sub, iat, jti]
  Subjects,  \* their subjects
  Jtis,      \* their ids
  Times,     \* points in time
  None       \* no value

VARIABLES
  events,   \* the revocations of subjects received so far: [sub, at]
  tokens,   \* the ids of tokens revoked outright
  response  \* response[r]: the token request r presented and whether it was admitted

Init ==
  /\ events = {}
  /\ tokens = {}
  /\ response = [r \in Requests |-> None]

\* A revocation covers the tokens of its subject issued at or before its time,
\* and those whose time of issue is not known.
Covered(t, e) == t.sub = e.sub /\ (t.iat = 0 \/ t.iat <= e.at)

Dead(t) == t.jti \in tokens \/ \E e \in events : Covered(t, e)

RevokeSubject(s, at) ==
  /\ events' = events \cup {[sub |-> s, at |-> at]}
  /\ UNCHANGED <<tokens, response>>

RevokeToken(jti) ==
  /\ tokens' = tokens \cup {jti}
  /\ UNCHANGED <<events, response>>

Serve(r, t) ==
  /\ response[r] = None
  /\ response' = [response EXCEPT ![r] = [token |-> t, admitted |-> ~ Dead(t)]]
  /\ UNCHANGED <<events, tokens>>

Finish(r) ==
  /\ response[r] # None
  /\ response' = [response EXCEPT ![r] = None]
  /\ UNCHANGED <<events, tokens>>

Next ==
  \/ \E s \in Subjects, at \in Times : RevokeSubject(s, at)
  \/ \E jti \in Jtis : RevokeToken(jti)
  \/ \E r \in Requests, t \in Tokens : Serve(r, t)
  \/ \E r \in Requests : Finish(r)

Spec == Init /\ [][Next]_<<events, tokens, response>>

=============================================================================
