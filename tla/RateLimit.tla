------------------------------ MODULE RateLimit ------------------------------
(***************************************************************************)
(* The rate limiters (rate_limit.rs): bounded maps from an identity to its *)
(* token bucket.  A request looks its bucket up under the map's lock and   *)
(* draws on it after the lock is gone, so entries can be purged or evicted *)
(* in between.  Limiter charges the bearer's and then the subject's bucket *)
(* for a tool call; InitializeLimiter only the subject's for a session.    *)
(* Reads and writes have maps of their own and share nothing, so one       *)
(* category is modelled.  Bug... definitions are mistakes the properties   *)
(* would notice; no specification uses them.                               *)
(***************************************************************************)
EXTENDS Integers, Sequences, FiniteSets

CONSTANTS
  Bearers,      \* bearer hashes
  Subs,         \* Logto subjects
  SubOf,        \* the subject each bearer was issued to
  Requests,     \* threads that may be inside a limiter at once
  Burst,        \* tokens a full bucket holds (32 for sessions)
  Period,       \* time to win one back (60 s for sessions)
  BucketIdleTtl,   \* BUCKET_IDLE_TTL (3600 s)
  MaxBuckets,   \* MAX_BUCKETS_PER_MAP (4096)
  None,
  MaxStall,     \* longest pause between a lookup and its draw
  MaxTime,      \* model bound: the clock stops here
  MaxCalls      \* model bound: calls of check

Keys == Bearers \cup Subs

\* The last line: a bucket idle for BUCKET_IDLE_TTL is a full one, even when
\* the draw came late (1920 s of 3600 s for sessions).
ASSUME LimiterAssumption ==
  /\ Bearers \cap Subs = {} /\ None \notin Keys
  /\ IsFiniteSet(Bearers) /\ IsFiniteSet(Subs)
  /\ SubOf \in [Bearers -> Subs]
  /\ Burst \in Nat \ {0} /\ Period \in Nat \ {0} /\ MaxBuckets \in Nat \ {0}
  /\ MaxStall \in Nat /\ MaxTime \in Nat /\ MaxCalls \in Nat
  /\ BucketIdleTtl \in Nat
  /\ BucketIdleTtl >= Burst * Period + MaxStall

\* None is neither a bucket, nor an entry of a map, nor an outcome.
ASSUME NoneAssumption ==
  /\ None \notin Nat /\ None \notin [bucket : Nat, seen : Nat]
  /\ None \notin {"ok", "limited"}

VARIABLES
  kind,     \* which limiter this is: "tool" (Limiter) or "initialize"
            \* (InitializeLimiter); they share code and no state
  now,
  map,      \* key -> [bucket, seen], or None
  nextId,   \* buckets made so far
  bucket,   \* id -> the time at which it will be full
  req,      \* thread -> where it is
  calls,    \* calls of check so far
  passed,   \* history: key -> when its buckets let a request through
  evicted   \* history: keys whose bucket was evicted while not idle

vars == <<kind, now, map, nextId, bucket, req, calls, passed, evicted>>

NotCalled == [todo |-> <<>>, holds |-> None, since |-> 0, drew |-> 0,
              outcome |-> None]

Init ==
  /\ kind \in {"tool", "initialize"}
  /\ now = 0
  /\ map = [k \in Keys |-> None]
  /\ nextId = 0
  /\ bucket = <<>>
  /\ req = [r \in Requests |-> NotCalled]
  /\ calls = 0
  /\ passed = [k \in Keys |-> <<>>]
  /\ evicted = {}
-----------------------------------------------------------------------------
\* Limiter::check: the bearer's bucket, then the subject's.
ToolCharges(b) == <<b, SubOf[b]>>

\* The bearer's bucket is charged before the subject's is asked.
BugInitializeCharges(b) == <<b, SubOf[b]>>

\* InitializeLimiter::check: one bucket, the subject's when there is one (a
\* validated token always has one).
InitializeCharges(b) == <<SubOf[b]>>

Charges(b) == IF kind = "tool" THEN ToolCharges(b) ELSE InitializeCharges(b)

\* A request of bearer b enters check().
Check(r, b) ==
  /\ req[r].todo = <<>> /\ calls < MaxCalls
  /\ req' = [req EXCEPT ![r] = [NotCalled EXCEPT !.todo = Charges(b)]]
  /\ calls' = calls + 1
  /\ UNCHANGED <<kind, now, map, nextId, bucket, passed, evicted>>
-----------------------------------------------------------------------------
\* The identities in the map that k belongs to.
SameMap(k) == {x \in IF k \in Bearers THEN Bearers ELSE Subs : map[x] # None}

\* Half the time suffices to be called idle.
BugIdle(k) == now - map[k].seen >= BucketIdleTtl \div 2

Idle(k) == now - map[k].seen >= BucketIdleTtl

\* The entries kept by the purge that a full map makes for a new key.
AfterPurge(k) ==
  {x \in SameMap(k) : Cardinality(SameMap(k)) >= MaxBuckets => ~Idle(x)}

\* Nothing is evicted: the purge is thought to have made room.
BugVictims(k) == {{}}

\* What else goes: the least recently seen, if the map is still full.
Victims(k) ==
  LET kept == AfterPurge(k)
  IN  IF Cardinality(kept) < MaxBuckets THEN {{}}
      ELSE {{v} : v \in {x \in kept :
                           \A y \in kept : map[x].seen <= map[y].seen}}

\* The entry holds when it falls idle in place of when it was seen.
BugEntry == [bucket |-> nextId + 1, seen |-> now + BucketIdleTtl]

Entry == [bucket |-> nextId + 1, seen |-> now]

\* A new identity has to earn its first token.
BugNewBucket == now + Burst * Period

\* RateLimiter::direct(quota): a full bucket.
NewBucket == now

(***************************************************************************)
(* get_or_insert_with_quota: an entry that is there is refreshed and its   *)
(* bucket handed out; else room is made and a full bucket put in.          *)
(***************************************************************************)
Lookup(r) ==
  /\ req[r].todo # <<>> /\ req[r].holds = None
  /\ LET k == Head(req[r].todo)
         Holds(id) == req' = [req EXCEPT ![r].holds = id, ![r].since = now]
     IN  IF map[k] # None
         THEN /\ map' = [map EXCEPT ![k].seen = now]
              /\ Holds(map[k].bucket)
              /\ UNCHANGED <<nextId, bucket, evicted>>
         ELSE \E gone \in Victims(k) :
                LET dropped == gone \cup (SameMap(k) \ AfterPurge(k))
                IN  /\ map' = [x \in Keys |->
                         IF x = k THEN Entry
                         ELSE IF x \in dropped THEN None ELSE map[x]]
                    /\ nextId' = nextId + 1
                    /\ bucket' = Append(bucket, NewBucket)
                    /\ Holds(nextId + 1)
                    /\ evicted' = evicted \cup gone
  /\ UNCHANGED <<kind, now, calls, passed>>

\* governor (external) has a token left in the bucket: with n tokens gone it
\* is full in n * Period.
HasToken(id) == bucket[id] - now <= (Burst - 1) * Period

\* governor's RateLimiter::check (external): one atomic step; a refusal
\* takes nothing.
Drawn(id) ==
  [bucket EXCEPT ![id] = (IF @ > now THEN @ ELSE now) + Period]

\* `if bucket.check().is_err() { return Err }', and on to the next bucket.
Draw(r) ==
  /\ req[r].holds # None
  /\ LET id == req[r].holds
         k  == Head(req[r].todo)
         rest == Tail(req[r].todo)
     IN  IF HasToken(id)
         THEN /\ bucket' = Drawn(id)
              /\ passed' = [passed EXCEPT ![k] = Append(@, now)]
              /\ req' = [req EXCEPT ![r] =
                   [todo |-> rest, holds |-> None, since |-> 0,
                    drew |-> req[r].drew + 1,
                    outcome |-> IF rest = <<>> THEN "ok" ELSE None]]
         ELSE /\ req' = [req EXCEPT ![r] =
                   [todo |-> <<>>, holds |-> None, since |-> 0,
                    drew |-> req[r].drew, outcome |-> "limited"]]
              /\ UNCHANGED <<bucket, passed>>
  /\ UNCHANGED <<kind, now, map, nextId, calls, evicted>>

\* Time passes; no thread sleeps longer than MaxStall holding a bucket.
Tick ==
  /\ now < MaxTime
  /\ \A r \in Requests : req[r].holds # None => now - req[r].since < MaxStall
  /\ now' = now + 1
  /\ UNCHANGED <<kind, map, nextId, bucket, req, calls, passed, evicted>>

Next ==
  \/ \E r \in Requests : Lookup(r) \/ Draw(r) \/ \E b \in Bearers : Check(r, b)
  \/ Tick

Spec == Init /\ [][Next]_vars
-----------------------------------------------------------------------------
\* The types of the variables.
TypeOK ==
  /\ kind \in {"tool", "initialize"}
  /\ now \in Nat /\ nextId \in Nat /\ calls \in 0..MaxCalls
  /\ bucket \in [1..nextId -> Nat]
  /\ map \in [Keys -> [bucket : 1..nextId, seen : 0..now] \cup {None}]
  /\ evicted \subseteq Keys
  /\ req \in [Requests -> [todo : Seq(Keys), holds : 1..nextId \cup {None},
                           since : 0..now, drew : 0..2,
                           outcome : {None, "ok", "limited"}]]
  /\ passed \in [Keys -> Seq(0..now)]

\* In every stretch of log, n requests passed in a time that allows n: the
\* burst, and one more for each Period.
Allowed(log) ==
  \A i, j \in DOMAIN log :
    i <= j => j - i + 1 <= Burst + (log[j] - log[i]) \div Period

(***************************************************************************)
(* The quota: no identity gets through more often than a full bucket and   *)
(* its refill allow, over any stretch of time, with threads racing between *)
(* lookup and draw and buckets purged and made anew.  A purge of idle      *)
(* buckets gives nothing away; only the eviction of a bucket in use does.  *)
(***************************************************************************)
WithinQuota == \A k \in Keys \ evicted : Allowed(passed[k])

(***************************************************************************)
(* check() turns a request away only when one of its identities has really *)
(* used up its quota.                                                      *)
(***************************************************************************)
RefusalsJustified ==
  [][ \A r \in Requests :
        req[r].holds # None /\ req'[r].outcome = "limited"
          => ~Allowed(Append(passed[Head(req[r].todo)], now)) ]_vars

\* MAX_BUCKETS_PER_MAP bounds each of the maps.
MapsBounded == \A k \in Keys : Cardinality(SameMap(k)) <= MaxBuckets

(***************************************************************************)
(* InitializeLimiter::check's comment: "One charge per request, and never  *)
(* a charge in a bucket that then refuses the request elsewhere": a retry  *)
(* storm of refused requests costs no tokens.                              *)
(***************************************************************************)
RefusalIsFree ==
  kind = "initialize" =>
    \A r \in Requests : req[r].outcome = "limited" => req[r].drew = 0
=============================================================================
