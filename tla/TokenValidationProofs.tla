----------------------- MODULE TokenValidationProofs -----------------------
(***************************************************************************)
(* The safety properties of TokenValidation, for any number of requests,   *)
(* tokens and keys, any issuer and any limits that satisfy its             *)
(* assumptions.                                                            *)
(***************************************************************************)
EXTENDS TokenValidation, FiniteSetTheorems, TLAPS

-----------------------------------------------------------------------------
(***************************************************************************)
(* The type invariant, which everything else needs.                        *)
(***************************************************************************)
LEMMA TypeInit == Init => TypeOK
  <1> SUFFICES ASSUME Init PROVE TypeOK
    OBVIOUS
  <1>1. tok \in [Requests -> Tokens]
    <2>1. (CHOOSE t \in Tokens : TRUE) \in Tokens
      BY TokenAssumption
    <2> QED BY <2>1 DEF Init
  <1>2. pc \in [Requests -> PC]
    BY DEF Init, PC, Answered
  <1>3. cache \in [Tokens -> Nat \cup {NoTime}]
    BY DEF Init
  <1> QED BY <1>1, <1>2, <1>3 DEF Init, TypeOK

\* cache_insert's ttl is at most MAX_CACHE_TTL, and no entry made before the
\* token's `exp' lives past it.
LEMMA TtlBounds ==
  ASSUME TypeOK, NEW t \in Tokens
  PROVE  /\ CacheTtl(t) \in Nat
         /\ CacheTtl(t) <= MaxCacheTtl
         /\ CacheTtl(t) > 0 => now + CacheTtl(t) <= Exp[t]
  BY TokenAssumption, LimitAssumption DEF CacheTtl, TypeOK

\* Every step keeps the types.
LEMMA TypeStep == TypeOK /\ [Next]_vars => TypeOK'
  <1> SUFFICES ASSUME TypeOK, [Next]_vars PROVE TypeOK'
    OBVIOUS
  <1> USE DEF TypeOK
  <1>1. ASSUME NEW r \in Requests, NEW t \in Tokens, Present(r, t) PROVE TypeOK'
    BY <1>1 DEF Present, Goto, jwks, PC, Answered
  <1>2. ASSUME NEW r \in Requests, FastPath(r) PROVE TypeOK'
    BY <1>2 DEF FastPath, ReturnKey, Goto, jwks, PC, Answered
  <1>3. ASSUME NEW r \in Requests, Acquire(r) PROVE TypeOK'
    BY <1>3 DEF Acquire, Goto, jwks, PC, Critical
  <1>4. ASSUME NEW r \in Requests, CheckAgain(r) PROVE TypeOK'
    BY <1>4 DEF CheckAgain, ReturnKey, Release, Goto, jwks, PC, Answered, Critical
  <1>5. ASSUME NEW r \in Requests, RecordAttempt(r) PROVE TypeOK'
    BY <1>5 DEF RecordAttempt, Goto, PC, Critical
  <1>6. ASSUME NEW r \in Requests, IssuerAnswers(r) PROVE TypeOK'
    BY <1>6 DEF IssuerAnswers, Published, Goto, jwks, PC, Critical
  <1>7. ASSUME NEW r \in Requests, InstallKeys(r) PROVE TypeOK'
    BY <1>7 DEF InstallKeys, ReturnKey, Release, Goto, PC, Answered
  <1>8. ASSUME NEW r \in Requests, FetchFails(r) PROVE TypeOK'
    BY <1>8 DEF FetchFails, Release, Goto, jwks, PC, Answered
  <1>9. ASSUME NEW r \in Requests, Disconnect(r) PROVE TypeOK'
    BY <1>9 DEF Disconnect, Release, Goto, jwks, PC, Answered
  <1>10. ASSUME NEW r \in Requests, Decode(r) PROVE TypeOK'
    BY <1>10 DEF Decode, Goto, jwks, PC, Answered
  <1>11. ASSUME NEW r \in Requests, CacheInsert(r) PROVE TypeOK'
    <2>1. \A u \in Tokens : now + CacheTtl(u) \in Nat
      BY TtlBounds
    <2>2. cache' \in [Tokens -> Nat \cup {NoTime}]
      BY <1>11, <2>1 DEF CacheInsert
    <2> QED BY <1>11, <2>2 DEF CacheInsert, Goto, jwks, PC, Answered
  <1>12. ASSUME NEW r \in Requests, ToolReturns(r) PROVE TypeOK'
    BY <1>12 DEF ToolReturns, Goto, jwks, PC, Answered
  <1>13. ASSUME NEW r \in Requests, DropToken(r) PROVE TypeOK'
    BY <1>13 DEF DropToken, Goto, jwks, PC, Answered
  <1>14. CASE Tick
    BY <1>14 DEF Tick, jwks
  <1>15. CASE UNCHANGED vars
    BY <1>15 DEF vars, jwks
  <1> QED
    BY <1>1, <1>2, <1>3, <1>4, <1>5, <1>6, <1>7, <1>8, <1>9, <1>10, <1>11,
       <1>12, <1>13, <1>14, <1>15 DEF Next

\* Every variable keeps its type, whatever the requests do.
THEOREM TypeCorrect == Spec => []TypeOK
  BY TypeInit, TypeStep, PTL DEF Spec

-----------------------------------------------------------------------------
(***************************************************************************)
(* The gate.  GateExclusive is inductive given the types: the only way     *)
(* into Critical is Acquire, and every way out releases.                   *)
(***************************************************************************)
LEMMA GateStep == TypeOK /\ GateExclusive /\ [Next]_vars => GateExclusive'
  <1> SUFFICES ASSUME TypeOK, GateExclusive, [Next]_vars PROVE GateExclusive'
    OBVIOUS
  <1> USE GateAssumption DEF TypeOK, GateExclusive, Critical
  <1>1. ASSUME NEW r \in Requests,
               \/ \E t \in Tokens : Present(r, t)
               \/ FastPath(r) \/ IssuerAnswers(r) \/ RecordAttempt(r)
               \/ Decode(r) \/ CacheInsert(r) \/ ToolReturns(r) \/ DropToken(r)
        PROVE  GateExclusive'
    BY <1>1 DEF Present, FastPath, IssuerAnswers, RecordAttempt, Decode,
                CacheInsert, ToolReturns, DropToken, ReturnKey, Goto, Answered
  <1>2. ASSUME NEW r \in Requests, Acquire(r) PROVE GateExclusive'
    BY <1>2 DEF Acquire, Goto
  <1>3. ASSUME NEW r \in Requests, CheckAgain(r) PROVE GateExclusive'
    BY <1>3 DEF CheckAgain, ReturnKey, Release, Goto
  <1>4. ASSUME NEW r \in Requests, InstallKeys(r) PROVE GateExclusive'
    BY <1>4 DEF InstallKeys, ReturnKey, Release, Goto
  <1>5. ASSUME NEW r \in Requests, FetchFails(r) PROVE GateExclusive'
    BY <1>5 DEF FetchFails, Release, Goto
  <1>6. ASSUME NEW r \in Requests, Disconnect(r) PROVE GateExclusive'
    BY <1>6 DEF Disconnect, Release, Goto
  <1>7. CASE Tick \/ UNCHANGED vars
    BY <1>7 DEF Tick, vars
  <1> QED
    BY <1>1, <1>2, <1>3, <1>4, <1>5, <1>6, <1>7 DEF Next

\* At most one request refreshes the JWKS, and the gate is never leaked.
THEOREM GateIsExclusive == Spec => []GateExclusive
  <1>1. Init => GateExclusive
    BY GateAssumption DEF Init, GateExclusive, Critical
  <1> QED BY <1>1, GateStep, TypeCorrect, PTL DEF Spec

-----------------------------------------------------------------------------
(***************************************************************************)
(* The refresh.  The check of the cooldown and the recording of the        *)
(* attempt are two critical sections, and so are the issuer's answer and   *)
(* the installation of its keys: RefreshInv says what the first           *)
(* established and the gate keeps true until the second.                   *)
(***************************************************************************)
SnapshotSinceAttempt(ks) ==
  \E s \in Nat : last_refresh_attempt <= s /\ s <= now /\ ks = Published(s)

RefreshInv ==
  /\ last_refresh_attempt <= now
  /\ fetched_at <= now
  /\ attempt_ok => /\ last_refresh_attempt # NoTime
                   /\ last_refresh_attempt <= fetched_at
                   /\ SnapshotSinceAttempt(keys)
  /\ \A r \in Requests :
       /\ pc[r] = "record" => ~CoolingDown
       /\ pc[r] \in {"fetch", "body"} => last_refresh_attempt # NoTime
       /\ pc[r] = "body" => SnapshotSinceAttempt(response)

\* A new server has attempted nothing and holds no key.
LEMMA RefreshInit == Init => RefreshInv
  BY DEF Init, RefreshInv, NoTime

\* Every step keeps RefreshInv, given the types and an exclusive gate.
LEMMA RefreshStep ==
  TypeOK /\ GateExclusive /\ RefreshInv /\ [Next]_vars => RefreshInv'
  <1> SUFFICES ASSUME TypeOK, GateExclusive, RefreshInv, [Next]_vars
               PROVE  RefreshInv'
    OBVIOUS
  <1> USE GateAssumption
  <1> USE DEF TypeOK, NoTime
  <1>1. ASSUME NEW r \in Requests,
               \/ \E t \in Tokens : Present(r, t)
               \/ FastPath(r) \/ Acquire(r) \/ Decode(r) \/ CacheInsert(r)
               \/ ToolReturns(r) \/ DropToken(r)
        PROVE  RefreshInv'
    <2>1. UNCHANGED <<now, jwks, response>>
      BY <1>1 DEF Present, FastPath, Acquire, Decode, CacheInsert,
                  ToolReturns, DropToken
    <2>2. \A q \in Requests :
            pc'[q] \in {"record", "fetch", "body"} => pc'[q] = pc[q]
      BY <1>1 DEF Present, FastPath, Acquire, Decode, CacheInsert,
                  ToolReturns, DropToken, ReturnKey, Goto
    <2> QED BY <2>1, <2>2 DEF RefreshInv, SnapshotSinceAttempt, CoolingDown, jwks
  <1>2. ASSUME NEW r \in Requests, CheckAgain(r) PROVE RefreshInv'
    BY <1>2 DEF CheckAgain, ReturnKey, Goto, jwks, RefreshInv,
                SnapshotSinceAttempt, CoolingDown
  <1>3. ASSUME NEW r \in Requests, RecordAttempt(r) PROVE RefreshInv'
    <2>1. \A q \in Requests : pc'[q] \notin {"record", "body"}
      BY <1>3 DEF RecordAttempt, Goto, GateExclusive, Critical
    <2> QED BY <1>3, <2>1 DEF RecordAttempt, Goto, RefreshInv
  <1>4. ASSUME NEW r \in Requests, IssuerAnswers(r) PROVE RefreshInv'
    <2>1. \A q \in Requests : pc'[q] \in {"record", "fetch"} => FALSE
      BY <1>4 DEF IssuerAnswers, Goto, GateExclusive, Critical
    <2>2. SnapshotSinceAttempt(response)'
      BY <1>4 DEF IssuerAnswers, jwks, RefreshInv, SnapshotSinceAttempt
    <2>3. (attempt_ok => SnapshotSinceAttempt(keys))'
      BY <1>4 DEF IssuerAnswers, jwks, RefreshInv, SnapshotSinceAttempt
    <2>4. last_refresh_attempt' # NoTime
      BY <1>4 DEF IssuerAnswers, jwks, RefreshInv
    <2> QED BY <1>4, <2>1, <2>2, <2>3, <2>4 DEF IssuerAnswers, jwks, RefreshInv
  <1>5. ASSUME NEW r \in Requests, InstallKeys(r) PROVE RefreshInv'
    <2>1. \A q \in Requests : pc'[q] \notin {"record", "fetch", "body"}
      BY <1>5 DEF InstallKeys, ReturnKey, Goto, GateExclusive, Critical
    <2>2. SnapshotSinceAttempt(keys)'
      BY <1>5 DEF InstallKeys, RefreshInv, SnapshotSinceAttempt
    <2> QED BY <1>5, <2>1, <2>2 DEF InstallKeys, RefreshInv
  <1>6. ASSUME NEW r \in Requests, FetchFails(r) \/ Disconnect(r)
        PROVE  RefreshInv'
    <2>1. UNCHANGED <<now, jwks>>
      BY <1>6 DEF FetchFails, Disconnect
    <2>2. \A q \in Requests :
            pc'[q] \in {"record", "fetch", "body"} => pc'[q] = pc[q]
      BY <1>6 DEF FetchFails, Disconnect, Goto
    <2>3. \A q \in Requests : pc'[q] = "body" => response' = response
      BY <1>6 DEF FetchFails, Disconnect, Goto, GateExclusive, Critical
    <2> QED
      BY <2>1, <2>2, <2>3 DEF RefreshInv, SnapshotSinceAttempt, CoolingDown, jwks
  <1>7. CASE Tick
    <2>1. \A ks : SnapshotSinceAttempt(ks) =>
                    \E s \in Nat : /\ last_refresh_attempt' <= s
                                   /\ s <= now' /\ ks = Published(s)
      BY <1>7 DEF Tick, jwks, SnapshotSinceAttempt
    <2> QED BY <1>7, <2>1, LimitAssumption
            DEF Tick, jwks, RefreshInv, SnapshotSinceAttempt, CoolingDown
  <1>8. CASE UNCHANGED vars
    BY <1>8 DEF vars, jwks, RefreshInv, SnapshotSinceAttempt, CoolingDown
  <1> QED BY <1>1, <1>2, <1>3, <1>4, <1>5, <1>6, <1>7, <1>8 DEF Next

\* What decoding_key_for found under the gate (cooldown over, attempt made,
\* answer no older than the attempt) stays true while it holds the gate.
THEOREM RefreshInvariant == Spec => []RefreshInv
  BY RefreshInit, RefreshStep, TypeCorrect, GateIsExclusive, PTL DEF Spec

\* Refresh attempts keep JWKS_MIN_REFRESH_INTERVAL between them.
THEOREM RefreshesAreSpaced == Spec => RefreshSpacing
  <1> DEFINE A == \/ last_refresh_attempt' = last_refresh_attempt
                  \/ last_refresh_attempt = NoTime
                  \/ last_refresh_attempt' >= last_refresh_attempt + MinRefresh
  <1>1. ASSUME TypeOK, RefreshInv, [Next]_vars PROVE A
    <2>1. ASSUME NEW r \in Requests, RecordAttempt(r) PROVE A
      BY <1>1, <2>1, LimitAssumption
      DEF TypeOK, RefreshInv, RecordAttempt, CoolingDown, NoTime
    <2>2. CASE ~\E r \in Requests : RecordAttempt(r)
      BY <1>1, <2>2
      DEF Next, vars, jwks, Present, FastPath, Acquire, CheckAgain, IssuerAnswers,
          InstallKeys, FetchFails, Disconnect, Decode, CacheInsert, ToolReturns,
          DropToken, Tick
    <2> QED BY <2>1, <2>2
  <1>2. TypeOK /\ RefreshInv /\ [Next]_vars => [A]_vars
    BY <1>1
  <1> QED
    BY <1>2, TypeCorrect, RefreshInvariant, PTL DEF Spec, RefreshSpacing

\* A key past JWKS_TTL is used only while the last refresh has not succeeded.
THEOREM StaleKeysOnlyAfterFailure == Spec => StaleKeyOnlyAfterFailure
  <1> DEFINE A == \A r \in Requests :
                    pc[r] # "decode" /\ pc'[r] = "decode"
                      => Fresh' \/ ~attempt_ok'
  <1>1. ASSUME TypeOK, RefreshInv, [Next]_vars PROVE A
    <2> SUFFICES ASSUME NEW r \in Requests, pc[r] # "decode", pc'[r] = "decode",
                        attempt_ok'
                 PROVE  Fresh'
      OBVIOUS
    <2>1. FastPath(r) \/ CheckAgain(r) \/ InstallKeys(r)
      BY <1>1 DEF TypeOK, Next, vars, Present, FastPath, Acquire, CheckAgain,
         RecordAttempt, IssuerAnswers, InstallKeys, FetchFails, Disconnect, Decode,
         CacheInsert, ToolReturns, DropToken, Tick, Goto, ReturnKey
    <2>2. CASE FastPath(r)
      BY <1>1, <2>2
      DEF TypeOK, FastPath, HasFreshKey, Fresh, ReturnKey, Goto, jwks
    <2>3. CASE CheckAgain(r)
      BY <1>1, <2>3, LimitAssumption
      DEF TypeOK, RefreshInv, CheckAgain, HasFreshKey, Fresh, CoolingDown,
          ReturnKey, Goto, jwks, NoTime
    <2>4. CASE InstallKeys(r)
      BY <1>1, <2>4, LimitAssumption DEF TypeOK, InstallKeys, Fresh, NoTime
    <2> QED BY <2>1, <2>2, <2>3, <2>4
  <1>2. TypeOK /\ RefreshInv /\ [Next]_vars => [A]_vars
    BY <1>1
  <1> QED
    BY <1>2, TypeCorrect, RefreshInvariant, PTL DEF Spec, StaleKeyOnlyAfterFailure

(***************************************************************************)
(* A published key missing from a snapshot taken at or after the last      *)
(* attempt was published after that attempt.                               *)
(***************************************************************************)
LEMMA MissingFromSnapshot ==
  ASSUME TypeOK, NEW ks, SnapshotSinceAttempt(ks),
         NEW k \in Published(now), k \notin ks
  PROVE  PublishedAt[k] \in Nat /\ PublishedAt[k] >= last_refresh_attempt
  BY KeyAssumption DEF TypeOK, SnapshotSinceAttempt, Published, NoTime

\* A rotated-in key is missing for at most JWKS_MIN_REFRESH_INTERVAL, unless
\* the refresh that would have found it did not succeed.
THEOREM MissingKeysAreExplained == Spec => MissingKeyExplained
  <1> DEFINE A ==
        \A r \in Requests :
          /\ pc[r] \in {"key", "check", "body"}
          /\ pc'[r] = "unauthorized"
          /\ Kid[tok[r]] \in Published(now)
          => \/ ~attempt_ok'
             \/ /\ PublishedAt[Kid[tok[r]]] >= last_refresh_attempt'
                /\ \/ pc[r] = "body"
                   \/ PublishedAt[Kid[tok[r]]] + MinRefresh > now
  <1>1. ASSUME TypeOK, RefreshInv, [Next]_vars PROVE A
    <2> SUFFICES ASSUME NEW r \in Requests, pc[r] \in {"key", "check", "body"},
                        pc'[r] = "unauthorized", attempt_ok',
                        Kid[tok[r]] \in Published(now)
                 PROVE  /\ PublishedAt[Kid[tok[r]]] >= last_refresh_attempt'
                        /\ \/ pc[r] = "body"
                           \/ PublishedAt[Kid[tok[r]]] + MinRefresh > now
      OBVIOUS
    <2>1. FastPath(r) \/ CheckAgain(r) \/ InstallKeys(r)
      BY <1>1 DEF TypeOK, Next, vars, Present, FastPath, Acquire, CheckAgain,
         RecordAttempt, IssuerAnswers, InstallKeys, FetchFails, Disconnect, Decode,
         CacheInsert, ToolReturns, DropToken, Tick, Goto, ReturnKey, Answered
    <2>2. CASE FastPath(r)
      BY <1>1, <2>2 DEF TypeOK, FastPath, HasFreshKey, ReturnKey, Goto
    <2>3. CASE CheckAgain(r)
      <3>1. CoolingDown /\ Kid[tok[r]] \notin keys /\ UNCHANGED <<now, jwks>>
        BY <1>1, <2>3 DEF TypeOK, CheckAgain, HasFreshKey, ReturnKey, Goto
      <3>2. /\ PublishedAt[Kid[tok[r]]] \in Nat
            /\ PublishedAt[Kid[tok[r]]] >= last_refresh_attempt
        BY <1>1, <3>1, MissingFromSnapshot DEF RefreshInv, jwks
      <3> QED BY <1>1, <3>1, <3>2, LimitAssumption
              DEF TypeOK, CoolingDown, jwks, NoTime
    <2>4. CASE InstallKeys(r)
      <3>1. /\ pc[r] = "body" /\ Kid[tok[r]] \notin response
            /\ UNCHANGED last_refresh_attempt
        BY <1>1, <2>4 DEF TypeOK, InstallKeys, ReturnKey, Goto
      <3> QED BY <1>1, <3>1, MissingFromSnapshot DEF RefreshInv
    <2> QED BY <2>1, <2>2, <2>3, <2>4
  <1>2. TypeOK /\ RefreshInv /\ [Next]_vars => [A]_vars
    BY <1>1
  <1> QED
    BY <1>2, TypeCorrect, RefreshInvariant, PTL DEF Spec, MissingKeyExplained

-----------------------------------------------------------------------------
(***************************************************************************)
(* The validation cache.  A request reaches cache_insert only with a token *)
(* that passed decode, and that is what an entry stands for.               *)
(***************************************************************************)
CacheInv ==
  /\ \A r \in Requests : pc[r] = "insert" => Trusted(tok[r])
  /\ CacheHitsSound

\* Every step keeps the cache's entries sound.
LEMMA CacheStep == TypeOK /\ CacheInv /\ [Next]_vars => CacheInv'
  <1> SUFFICES ASSUME TypeOK, CacheInv, [Next]_vars PROVE CacheInv'
    OBVIOUS
  <1> USE TokenAssumption, LimitAssumption
  <1> USE DEF TypeOK, CacheInv, CacheHitsSound, CacheHit, Trusted, NoTime
  <1>1. ASSUME NEW r \in Requests,
               \/ \E t \in Tokens : Present(r, t)
               \/ FastPath(r) \/ Acquire(r) \/ CheckAgain(r) \/ RecordAttempt(r)
               \/ IssuerAnswers(r) \/ InstallKeys(r) \/ FetchFails(r)
               \/ Disconnect(r) \/ ToolReturns(r)
        PROVE  CacheInv'
    <2>1. UNCHANGED <<now, cache>>
      BY <1>1 DEF Present, FastPath, Acquire, CheckAgain, RecordAttempt,
                  IssuerAnswers, InstallKeys, FetchFails, Disconnect, ToolReturns
    <2>2. \A q \in Requests : pc'[q] = "insert" => pc[q] = "insert" /\ tok'[q] = tok[q]
      BY <1>1 DEF Present, FastPath, Acquire, CheckAgain, RecordAttempt,
                  IssuerAnswers, InstallKeys, FetchFails, Disconnect, ToolReturns,
                  ReturnKey, Goto
    <2> QED BY <2>1, <2>2
  <1>2. ASSUME NEW r \in Requests, Decode(r) PROVE CacheInv'
    BY <1>2 DEF Decode, Goto
  <1>3. ASSUME NEW r \in Requests, CacheInsert(r) PROVE CacheInv'
    <2>1. \A q \in Requests : pc'[q] = "insert" => pc[q] = "insert" /\ tok'[q] = tok[q]
      BY <1>3 DEF CacheInsert, Goto
    <2>2. \A u \in Tokens \ {tok[r]} : cache'[u] = cache[u] \/ cache'[u] = NoTime
      BY <1>3 DEF CacheInsert
    <2>3. cache'[tok[r]] = now + CacheTtl(tok[r]) /\ now' = now
      BY <1>3 DEF CacheInsert
    <2>4. tok[r] \in Tokens /\ Trusted(tok[r])
      BY <1>3 DEF CacheInsert
    <2> HIDE DEF Trusted
    <2> QED BY <2>1, <2>2, <2>3, <2>4, TtlBounds
  <1>4. ASSUME NEW r \in Requests, DropToken(r) PROVE CacheInv'
    BY <1>4 DEF DropToken, Goto
  <1>5. CASE Tick \/ UNCHANGED vars
    BY <1>5 DEF Tick, vars
  <1> QED BY <1>1, <1>2, <1>3, <1>4, <1>5 DEF Next

\* A cache hit is for a token decode accepted, and never after its `exp'.
THEOREM CacheIsSound == Spec => []CacheHitsSound
  <1>1. Init => CacheInv
    BY DEF Init, CacheInv, CacheHitsSound, CacheHit, NoTime
  <1>2. CacheInv => CacheHitsSound
    BY DEF CacheInv
  <1> QED BY <1>1, <1>2, CacheStep, TypeCorrect, PTL DEF Spec

\* cache_insert leaves at most CACHE_CAP entries: it sweeps or evicts before
\* it adds.
LEMMA InsertKeepsBound ==
  ASSUME TypeOK, CacheBounded, NEW r \in Requests, CacheInsert(r)
  PROVE  CacheBounded'
  <1> DEFINE t == tok[r]
  <1>1. IsFiniteSet(Cached) /\ Cardinality(Cached) \in Nat
    BY TokenAssumption, FS_Subset, FS_CardinalityType DEF Cached
  <1>2. IsFiniteSet(Kept) /\ Cardinality(Kept) \in Nat
        /\ Cardinality(Kept) <= Cardinality(Cached)
    BY <1>1, FS_Subset, FS_CardinalityType DEF Kept
  <1>3. PICK gone \in Victims(t) :
          cache' = [u \in Tokens |-> IF u = t THEN now + CacheTtl(u)
                                     ELSE IF u \in Kept \ gone THEN cache[u]
                                     ELSE NoTime]
    BY DEF CacheInsert
  <1>4. Cached' \subseteq (Kept \ gone) \cup {t}
    BY <1>3 DEF Cached
  <1> SUFFICES /\ IsFiniteSet((Kept \ gone) \cup {t})
               /\ Cardinality((Kept \ gone) \cup {t}) <= CacheCap
    <2>1. Cardinality(Cached') <= Cardinality((Kept \ gone) \cup {t})
      BY <1>4, FS_Subset
    <2>2. IsFiniteSet(Cached')
      BY <1>4, FS_Subset
    <2> QED BY <2>1, <2>2, FS_CardinalityType, LimitAssumption DEF CacheBounded
  <1>5. CASE Cardinality(Kept) >= CacheCap /\ t \notin Kept
    <2>1. PICK v \in Kept : gone = {v}
      BY <1>5 DEF Victims
    <2>2. /\ IsFiniteSet(Kept \ gone)
          /\ Cardinality(Kept \ gone) = Cardinality(Kept) - 1
      BY <1>2, <2>1, FS_RemoveElement
    <2>3. /\ IsFiniteSet((Kept \ gone) \cup {t})
          /\ Cardinality((Kept \ gone) \cup {t}) = Cardinality(Kept \ gone) + 1
      BY <1>5, <2>2, FS_AddElement
    <2> QED BY <1>1, <1>2, <2>2, <2>3, LimitAssumption DEF CacheBounded
  <1>6. CASE ~(Cardinality(Kept) >= CacheCap /\ t \notin Kept)
    <2>1. Kept \ gone = Kept
      BY <1>6 DEF Victims
    <2>2. /\ IsFiniteSet(Kept \cup {t})
          /\ Cardinality(Kept \cup {t})
               = IF t \in Kept THEN Cardinality(Kept) ELSE Cardinality(Kept) + 1
      BY <1>2, FS_AddElement
    <2> QED BY <1>1, <1>2, <1>6, <2>1, <2>2, LimitAssumption DEF CacheBounded
  <1> QED BY <1>5, <1>6

\* The validation cache never holds more than CACHE_CAP entries.
THEOREM CacheIsBounded == Spec => []CacheBounded
  <1>1. Init => CacheBounded
    <2> SUFFICES ASSUME Init PROVE Cached = {}
      BY FS_EmptySet, LimitAssumption DEF CacheBounded
    <2> QED BY DEF Init, Cached
  <1>2. ASSUME TypeOK, CacheBounded, [Next]_vars PROVE CacheBounded'
    <2>1. ASSUME NEW r \in Requests, CacheInsert(r) PROVE CacheBounded'
      BY <1>2, <2>1, InsertKeepsBound
    <2>2. CASE ~\E r \in Requests : CacheInsert(r)
      <3>1. Cached' \subseteq Cached
        BY <1>2, <2>2
        DEF TypeOK, Cached, Next, vars, Present, FastPath, Acquire, CheckAgain,
            RecordAttempt, IssuerAnswers, InstallKeys, FetchFails, Disconnect,
            Decode, ToolReturns, DropToken, Tick
      <3>2. IsFiniteSet(Cached) /\ IsFiniteSet(Cached')
            /\ Cardinality(Cached') <= Cardinality(Cached)
        BY <3>1, TokenAssumption, FS_Subset DEF Cached
      <3> QED BY <1>2, <3>2, FS_CardinalityType, LimitAssumption DEF CacheBounded
    <2> QED BY <2>1, <2>2
  <1> QED BY <1>1, <1>2, TypeCorrect, PTL DEF Spec
=============================================================================
