-------------------------- MODULE TokenValidation --------------------------
(***************************************************************************)
(* Bearer-token validation (logto_oidc.rs) as the auth middleware          *)
(* (auth.rs) drives it: a positive cache of validated tokens, a cache of   *)
(* the issuer's signing keys (JWKS), and a gate that serialises and rate   *)
(* limits the refreshes of the latter.                                     *)
(*                                                                         *)
(* Every critical section of the code (one acquisition of the cache lock,  *)
(* of the JWKS lock) and every await is one action, so the requests        *)
(* interleave as they do on the multi-threaded runtime.  What a token says *)
(* is fixed when it is minted, and what the issuer publishes does not      *)
(* depend on this server: both are constants.  `now' is the clock, in      *)
(* seconds.                                                                *)
(***************************************************************************)
EXTENDS Integers, FiniteSets

CONSTANTS
  Requests,      \* slots for HTTP requests served concurrently
  Kids,          \* key ids
  NoKid,         \* what an opaque token, or a JWT without a `kid', carries
  Tokens,
  Kid,           \* [Tokens -> Kids \cup {NoKid}]: the header's `kid'
  SupportedAlg,  \* tokens whose `alg' is on the allow-list
  Authentic,     \* tokens signed by the key of their kid, for our issuer,
                 \* with the required claims
  OurAudience,   \* tokens whose `aud' names an accepted audience
  Exp,           \* [Tokens -> Nat]: the `exp' claim
  RevokedAt,     \* [Tokens -> Nat]: when the issuer revokes the token
  PublishedAt,   \* [Kids -> Nat]: when the issuer starts publishing a key
  WithdrawnAt,   \* [Kids -> Nat]: when it stops
  MaxCacheTtl,   \* MAX_CACHE_TTL (60 s)
  CacheCap,      \* CACHE_CAP (256)
  JwksTtl,       \* JWKS_TTL (3600 s)
  MinRefresh,    \* JWKS_MIN_REFRESH_INTERVAL (5 s)
  Leeway,        \* jsonwebtoken's default tolerance on `exp' (60 s)
  MaxTime        \* model bound: the clock stops here

ASSUME TokenAssumption ==
  /\ IsFiniteSet(Tokens) /\ Tokens # {}
  /\ NoKid \notin Kids
  /\ Kid \in [Tokens -> Kids \cup {NoKid}]
  /\ SupportedAlg \subseteq Tokens
  /\ Authentic \subseteq Tokens
  /\ OurAudience \subseteq Tokens
  /\ Exp \in [Tokens -> Nat]
  /\ RevokedAt \in [Tokens -> Nat]

ASSUME KeyAssumption ==
  /\ PublishedAt \in [Kids -> Nat]
  /\ WithdrawnAt \in [Kids -> Nat]

\* 5 s <= 3600 s, and neither the TTL nor the cap is zero.
ASSUME LimitAssumption ==
  /\ MaxCacheTtl \in Nat
  /\ CacheCap \in Nat \ {0}
  /\ JwksTtl \in Nat \ {0}
  /\ MinRefresh \in Nat
  /\ MinRefresh <= JwksTtl
  /\ Leeway \in Nat
  /\ MaxTime \in Nat

VARIABLES
  now,                   \* the clock
  keys,                  \* JwksCache.keys: the kids with a decoding key
  fetched_at,            \* JwksCache.fetched_at
  last_refresh_attempt,  \* JwksCache.last_refresh_attempt
  gate,                  \* jwks_refresh_gate: the request that holds it
  response,              \* the key set in the answer the holder is reading
  cache,                 \* token -> expires_at; NoTime where no entry
  pc,                    \* where each request is
  tok,                   \* the token it presents
  attempt_ok,            \* history: the last attempt has installed its keys
  dropped                \* history: tokens dropped and not verified since

jwks == <<keys, fetched_at, last_refresh_attempt, attempt_ok>>
vars == <<now, jwks, gate, response, cache, pc, tok, dropped>>

NoTime == -1    \* Option::None of an Instant
Free   == "free"

\* "idle": no request; "unauthorized": answered 401; "unavailable": answered
\* 500; "accepted": the handler runs.  The rest are points inside
\* validate_token.
Answered == {"idle", "unauthorized", "unavailable", "accepted"}
Critical == {"check", "record", "fetch", "body"}
PC == Answered \cup Critical \cup {"key", "wait", "decode", "insert"}

ASSUME GateAssumption == Free \notin Requests

-----------------------------------------------------------------------------
(***************************************************************************)
(* Definitions named Bug... are plausible mistakes in the definition that  *)
(* follows them; no specification uses them.  They show that a property    *)
(* would notice.                                                           *)
(***************************************************************************)

\* The issuer (external): the keys its JWKS endpoint serves at time n.
Published(n) == {k \in Kids : PublishedAt[k] <= n /\ n < WithdrawnAt[k]}

\* Everything validate_token asks of a token except a key and the time.
Trusted(t) == t \in SupportedAlg /\ t \in Authentic /\ t \in OurAudience

\* jsonwebtoken (external) compares `exp' with the clock less its leeway.
Unexpired(t, n) == Exp[t] >= n - Leeway

Fresh == fetched_at # NoTime /\ now - fetched_at < JwksTtl

\* The age of the JWKS cache is not looked at.
BugAnyAge(k) == k \in keys

\* The keys decoding_key_for hands out without asking the issuer.
HasFreshKey(k) == Fresh /\ k \in keys

\* Entries of the validation cache, and those cache_lookup would return.
Cached == {t \in Tokens : cache[t] # NoTime}
CacheHit(t) == cache[t] > now

\* The `exp' of the token is forgotten.
BugTtlIgnoresExp(t) == MaxCacheTtl

CacheTtl(t) ==
  LET remaining == IF Exp[t] > now THEN Exp[t] - now ELSE 0
  IN  IF remaining < MaxCacheTtl THEN remaining ELSE MaxCacheTtl

Init ==
  /\ now = 0
  /\ keys = {}
  /\ fetched_at = NoTime
  /\ last_refresh_attempt = NoTime
  /\ attempt_ok = FALSE
  /\ gate = Free
  /\ response = {}
  /\ cache = [t \in Tokens |-> NoTime]
  /\ pc = [r \in Requests |-> "idle"]
  /\ tok = [r \in Requests |-> CHOOSE t \in Tokens : TRUE]
  /\ dropped = {}

Goto(r, l) == pc' = [pc EXCEPT ![r] = l]

\* An error or a cancellation at the network await leaks the gate.
BugRelease(r) == gate' = IF gate = r /\ pc[r] # "fetch" THEN Free ELSE gate

\* The gate's guard is dropped when the request leaves decoding_key_for.
Release(r) == gate' = IF gate = r THEN Free ELSE gate
-----------------------------------------------------------------------------
(***************************************************************************)
(* A request arrives: bearer_auth hands its token to validate_token, which *)
(* looks in the validation cache and then at the token's header.           *)
(***************************************************************************)
Present(r, t) ==
  /\ pc[r] \in Answered \ {"accepted"}
  /\ tok' = [tok EXCEPT ![r] = t]
  /\ Goto(r, IF CacheHit(t) THEN "accepted"
             ELSE IF Kid[t] = NoKid THEN "unauthorized" ELSE "key")
  /\ UNCHANGED <<now, jwks, gate, response, cache, dropped>>

\* decoding_key_for returns what the key set holds; without a key the token
\* is rejected: Ok(None), 401.
ReturnKey(r, ks) ==
  Goto(r, IF Kid[tok[r]] \in ks THEN "decode" ELSE "unauthorized")

\* decoding_key_for without the gate: a known key of a fresh JWKS, or wait.
FastPath(r) ==
  /\ pc[r] = "key"
  /\ IF HasFreshKey(Kid[tok[r]])
     THEN ReturnKey(r, keys)
     ELSE Goto(r, "wait")
  /\ UNCHANGED <<now, jwks, gate, response, cache, tok, dropped>>

\* The gate does not exclude.
BugAcquireShared(r) ==
  /\ pc[r] = "wait"
  /\ gate' = r
  /\ Goto(r, "check")
  /\ UNCHANGED <<now, jwks, response, cache, tok, dropped>>

Acquire(r) ==
  /\ pc[r] = "wait"
  /\ gate = Free
  /\ gate' = r
  /\ Goto(r, "check")
  /\ UNCHANGED <<now, jwks, response, cache, tok, dropped>>

\* The wrong one of the two intervals.
BugCoolsForTtl ==
  last_refresh_attempt # NoTime /\ now - last_refresh_attempt < JwksTtl

CoolingDown ==
  last_refresh_attempt # NoTime /\ now - last_refresh_attempt < MinRefresh

(***************************************************************************)
(* Under the gate: another request may have fetched the key meanwhile; in  *)
(* the cooldown the answer is whatever the cache holds, stale or not.      *)
(***************************************************************************)
CheckAgain(r) ==
  /\ pc[r] = "check"
  /\ IF HasFreshKey(Kid[tok[r]]) \/ CoolingDown
     THEN ReturnKey(r, keys) /\ Release(r)
     ELSE Goto(r, "record") /\ UNCHANGED gate
  /\ UNCHANGED <<now, jwks, response, cache, tok, dropped>>

\* The attempt is recorded before the GET goes out.
RecordAttempt(r) ==
  /\ pc[r] = "record"
  /\ last_refresh_attempt' = now
  /\ attempt_ok' = FALSE
  /\ Goto(r, "fetch")
  /\ UNCHANGED <<now, keys, fetched_at, gate, response, cache, tok, dropped>>

\* A JWK without a key id is not skipped.
BugKidlessKeyKept(r) ==
  /\ pc[r] = "fetch"
  /\ response' = Published(now) \cup {NoKid}
  /\ Goto(r, "body")
  /\ UNCHANGED <<now, jwks, gate, cache, tok, dropped>>

\* The issuer answers with the keys it publishes at that moment; the body
\* is read, and may be lost, later.
IssuerAnswers(r) ==
  /\ pc[r] = "fetch"
  /\ response' = Published(now)
  /\ Goto(r, "body")
  /\ UNCHANGED <<now, jwks, gate, cache, tok, dropped>>

\* refresh_jwks replaces the key set; the gate falls with the return.
InstallKeys(r) ==
  /\ pc[r] = "body"
  /\ keys' = response
  /\ fetched_at' = now
  /\ attempt_ok' = TRUE
  /\ ReturnKey(r, response)
  /\ Release(r)
  /\ response' = {}
  /\ UNCHANGED <<now, last_refresh_attempt, cache, tok, dropped>>

\* Transport error, non-2xx, unreadable body, or the client's 5 s timeout:
\* validate_token returns Err, the middleware 500.
FetchFails(r) ==
  /\ pc[r] \in {"fetch", "body"}
  /\ Goto(r, "unavailable")
  /\ Release(r)
  /\ response' = IF gate = r THEN {} ELSE response
  /\ UNCHANGED <<now, jwks, cache, tok, dropped>>

\* The client hangs up: the handler's future is dropped at an await, and
\* the gate's guard with it.
Disconnect(r) ==
  /\ pc[r] \in {"wait", "fetch", "body"}
  /\ Goto(r, "idle")
  /\ Release(r)
  /\ response' = IF gate = r THEN {} ELSE response
  /\ UNCHANGED <<now, jwks, cache, tok, dropped>>

\* A bad algorithm, signature, audience or expiry: Ok(None), 401.
Decode(r) ==
  /\ pc[r] = "decode"
  /\ LET t  == tok[r]
         ok == Trusted(t) /\ Unexpired(t, now)
     IN  /\ Goto(r, IF ok THEN "insert" ELSE "unauthorized")
         /\ dropped' = IF ok THEN dropped \ {t} ELSE dropped
  /\ UNCHANGED <<now, jwks, gate, response, cache, tok>>

\* Of a full cache: the expired entries go, then if need be the live entry
\* nearest its expiry.
Kept == {u \in Cached : Cardinality(Cached) >= CacheCap => cache[u] > now}

\* The sweep of expired entries is taken to have made room.
BugNoVictim(t) == {{}}

Victims(t) ==
  IF Cardinality(Kept) >= CacheCap /\ t \notin Kept
  THEN {{v} : v \in {u \in Kept : \A w \in Kept : cache[u] <= cache[w]}}
  ELSE {{}}

CacheInsert(r) ==
  /\ pc[r] = "insert"
  /\ \E gone \in Victims(tok[r]) :
       cache' = [u \in Tokens |->
                   IF u = tok[r] THEN now + CacheTtl(u)
                   ELSE IF u \in Kept \ gone THEN cache[u] ELSE NoTime]
  /\ Goto(r, "accepted")
  /\ UNCHANGED <<now, jwks, gate, response, tok, dropped>>

\* The tool call ends; if the CardDAV server refused the token on the way
\* (401 or 403), react_to_auth_expiry has called drop_token.
ToolReturns(r) ==
  /\ pc[r] = "accepted"
  /\ Goto(r, "idle")
  /\ UNCHANGED <<now, jwks, gate, response, cache, tok, dropped>>

DropToken(r) ==
  /\ pc[r] = "accepted"
  /\ cache' = [cache EXCEPT ![tok[r]] = NoTime]
  /\ dropped' = dropped \cup {tok[r]}
  /\ Goto(r, "idle")
  /\ UNCHANGED <<now, jwks, gate, response, tok>>

Tick ==
  /\ now < MaxTime
  /\ now' = now + 1
  /\ UNCHANGED <<jwks, gate, response, cache, pc, tok, dropped>>

Next ==
  \/ \E r \in Requests :
       \/ \E t \in Tokens : Present(r, t)
       \/ FastPath(r) \/ Acquire(r) \/ CheckAgain(r) \/ RecordAttempt(r)
       \/ IssuerAnswers(r) \/ InstallKeys(r) \/ FetchFails(r)
       \/ Disconnect(r) \/ Decode(r) \/ CacheInsert(r)
       \/ ToolReturns(r) \/ DropToken(r)
  \/ Tick

Spec == Init /\ [][Next]_vars

(***************************************************************************)
(* Fairness: a runnable task runs; the HTTP client's 5 s timeout ends      *)
(* every fetch, in an answer or an error; tokio's Mutex is FIFO, so a      *)
(* waiter that the gate is free for again and again gets it.  Nothing is   *)
(* assumed of clients, of tools, or of the clock.                          *)
(***************************************************************************)
Proceed(r) ==
  \/ FastPath(r) \/ CheckAgain(r) \/ RecordAttempt(r) \/ IssuerAnswers(r)
  \/ InstallKeys(r) \/ FetchFails(r) \/ Decode(r) \/ CacheInsert(r)

FairSpec ==
  /\ Spec
  /\ \A r \in Requests : WF_vars(Proceed(r)) /\ SF_vars(Acquire(r))
-----------------------------------------------------------------------------
\* The types of the variables.
TypeOK ==
  /\ now \in Nat
  /\ keys \subseteq Kids
  /\ fetched_at \in Nat \cup {NoTime}
  /\ last_refresh_attempt \in Nat \cup {NoTime}
  /\ attempt_ok \in BOOLEAN
  /\ gate \in Requests \cup {Free}
  /\ response \subseteq Kids
  /\ cache \in [Tokens -> Nat \cup {NoTime}]
  /\ pc \in [Requests -> PC]
  /\ tok \in [Requests -> Tokens]
  /\ dropped \subseteq Tokens

(***************************************************************************)
(* jwks_refresh_gate: a request is between the lock and the end of         *)
(* refresh_jwks exactly while it holds the gate, whatever way it leaves    *)
(* (answer, error, cancellation at the network await).                     *)
(***************************************************************************)
GateExclusive ==
  \A r \in Requests : pc[r] \in Critical <=> gate = r

(***************************************************************************)
(* JWKS_MIN_REFRESH_INTERVAL: two refresh attempts are never closer than   *)
(* the interval, however the requests that want a key interleave between   *)
(* the check of the cooldown and the recording of the attempt.             *)
(***************************************************************************)
RefreshSpacing ==
  [][ \/ last_refresh_attempt' = last_refresh_attempt
      \/ last_refresh_attempt = NoTime
      \/ last_refresh_attempt' >= last_refresh_attempt + MinRefresh ]_vars

(***************************************************************************)
(* decoding_key_for's "previously known stale key": a key older than       *)
(* JWKS_TTL verifies a token only when the last refresh did not succeed    *)
(* (it failed, or the request doing it was cancelled).                     *)
(***************************************************************************)
StaleKeyOnlyAfterFailure ==
  [][ \A r \in Requests :
        pc[r] # "decode" /\ pc'[r] = "decode" => Fresh' \/ ~attempt_ok' ]_vars

(***************************************************************************)
(* Key rotation is discovered promptly: a token is turned away for want of *)
(* a key that the issuer publishes only if the key appeared after the last *)
(* refresh began, and less than JWKS_MIN_REFRESH_INTERVAL ago unless the   *)
(* request has just refreshed itself; or that refresh did not succeed.     *)
(***************************************************************************)
MissingKeyExplained ==
  [][ \A r \in Requests :
        /\ pc[r] \in {"key", "check", "body"}
        /\ pc'[r] = "unauthorized"
        /\ Kid[tok[r]] \in Published(now)
        => \/ ~attempt_ok'
           \/ /\ PublishedAt[Kid[tok[r]]] >= last_refresh_attempt'
              /\ \/ pc[r] = "body"
                 \/ PublishedAt[Kid[tok[r]]] + MinRefresh > now ]_vars

(***************************************************************************)
(* What cache_lookup returns has been verified: the entry is for a token   *)
(* validate_token would accept, it outlives neither the token's `exp' nor  *)
(* MAX_CACHE_TTL from now.                                                 *)
(***************************************************************************)
CacheHitsSound ==
  \A t \in Tokens :
    CacheHit(t) => /\ Trusted(t)
                   /\ cache[t] <= Exp[t]
                   /\ cache[t] <= now + MaxCacheTtl

\* CACHE_CAP bounds the validation cache under any interleaving of inserts.
CacheBounded == Cardinality(Cached) <= CacheCap

\* Every request that enters validate_token leaves it: with an identity, a
\* 401 or a 500, or because its client went away.
EveryRequestAnswered ==
  \A r \in Requests : pc[r] \notin Answered ~> pc[r] \in Answered

(***************************************************************************)
(* MAX_CACHE_TTL's comment: a revocation "propagates in at most this       *)
(* window".  No token is accepted that much after its revocation.          *)
(***************************************************************************)
RevocationPropagates ==
  [][ \A r \in Requests :
        pc[r] # "accepted" /\ pc'[r] = "accepted"
          => now < RevokedAt[tok'[r]] + MaxCacheTtl ]_vars

(***************************************************************************)
(* drop_token's comment: it forces "re-verification on the next            *)
(* presentation".  A cache hit is never for a token that was dropped and   *)
(* not verified since.                                                     *)
(***************************************************************************)
DropForcesReverification ==
  [][ \A r \in Requests :
        pc[r] \in Answered /\ pc[r] # "accepted" /\ pc'[r] = "accepted"
          => tok'[r] \notin dropped ]_vars
=============================================================================
